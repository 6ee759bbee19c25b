\* Four threads, each of which may read and write again and again.
CONSTANTS
  Thread = {t1, t2, t3, t4}
  MAX_READERS = 5
SPECIFICATION FairSpec
INVARIANTS MutualExclusion CountsThreads NoLostWakeup
PROPERTIES EnteredWriterGetsIn SomebodyGetsIn
