# A verification of RucBase

RucBase is a small relational database in C++ for teaching. This directory holds
TLA+ models of its storage, record, index, table, query and parser layers, TLC
configurations that check them on small instances, and TLAPS proofs, for every
instance, of the safety properties of the replacer, the pool, the latch, the
record file and the files of tables, and of what planning does with conditions.
`PROJECT.json` lists the runs, the source lines every definition models, the
hazards of the code, the disagreements found and the theorems.
Source paths below are relative to `src/src/`.

## The system

| Part | Source | Module | State |
|---|---|---|---|
| LRU replacer | `replacer/lru_replacer.*` | LRUList, LRUReplacer, LRUPolicy | modelled, proved |
| Buffer pool | `storage/buffer_pool_manager.*`, `storage/page.h` | BufferPool, PageStore, MCBufferPool | modelled, proved |
| Disk manager | `storage/disk_manager.*` | FileTable (files), BufferPool (pages) | partly |
| Page latch | `common/rwlatch.*` | RWLatch | modelled, proved |
| Record file and scan | `record/` | RecordFile, RecordStore, MCRecordFile | partly, proved |
| B+ tree, index manager, index scan | `index/` | BPlusTree, IndexMap, MCBPlusTree | partly |
| System manager | `system/` | Database (over FileTable) | partly, proved |
| Query planning, executors | `execution/` | QueryPlan, MCQueryPlan | partly, conditions proved |
| Parser | `parser/yacc.y`, `yacc.tab.c`, `ast.h` | SqlLanguage, SqlGrammar, SqlAst, SqlParserTables, SqlParser | modelled as checked in |
| Scanner | `parser/lex.l`, `lex.yy.c` | SqlScannerRules, SqlScannerTables, SqlLexer | modelled as checked in |
| Transactions, locks | `transaction/` | | empty in the source |
| Log, recovery | `recovery/` | | empty in the source |
| Clock replacer | `replacer/clock_replacer.*` | | empty in the source |
| Interpreter, server | `interp.h`, `rucbase.cpp` | | not modelled, see the end |

A table is a record file, a column index a B+ tree file. Both get their pages
from the buffer pool, which keeps them in frames, evicts by the replacer and
reads and writes through the disk manager. Descriptors of the disk manager are
part of every page's name. The system manager keeps the tables and a handle of
each one's record file. A statement is scanned and parsed into a tree, and a
select becomes a tree of executors: a scan for each table, joins, a projection.

## Modules and the code

**LRUList** has the replacer's list and hash as a record and `Victim`, `Pin` and
`Unpin` as operators on it; **LRUReplacer** is the state machine of one replacer
and **LRUPolicy** what it promises: the victim is the frame that has been
evictable for longest. Every method holds `latch_`, so a call is a step.

**BufferPool** has the frames (`id_`, `data_`, `is_dirty_`, `pin_count_`),
`page_table_`, `free_list_`, the replacer, the files and the pointers clients
hold. `FetchPage`, `NewPage`, `UnpinPage`, `FlushPage`, `FlushAllPages` and
`DeletePage` are one step each (`latch_`); a client's write through a pointer is
a step between calls. Exceptions of `read_page` and `write_page` leave the state
as it is when they are thrown. **PageStore** is the abstract store of pages the
pool implements.

**RWLatch** has a step for what a thread does between taking the mutex and
waiting or returning. Threads on a condition variable wake when notified, and
spuriously.

**RecordFile** has the file header, and page headers, bitmaps and slots by page.
`insert_record` (both forms), `delete_record`, `update_record`, the constructor
of `RmScan` and `next` are one step each, so writers come between the steps of a
scan. `due` and `passed` are history variables: the records a scan still owes, and
those it has returned and left. Slot `N`, one behind the last, exists because the
code does not check slots against `N`. Callers delete and update records that are
there; the constant `Rollback` says whether they also undo deletes, by
`insert_record(rid, buf)`. **RecordStore** is a set of records under distinct rids
with a count for each page. It is what the file should implement; it does not
(`record_reuse`).

**BPlusTree** keeps the whole tree in one record, a node being its page with its
live pairs and the dead key slots behind them, which the code reads.
`insert_entry`, `delete_entry` and reopening are one step each (`root_latch_`);
splitting, redistribution, merging and both bounds are operators, recursive as
in the code. Two answers of the code are dead ends: the file header page taken
for a sibling and page -1 fetched. `tree.status` records them and the model
stops. `found` is a history variable: what `GetValue` finds in the tree, for every
key. **IndexMap** is a map from keys to rids with truthful answers.

The sizes of a BPlusTree instance are chosen by `Init`, so that one run has an
instance with any order of inserts and one with three levels and scans. A scan
(`IxScan`) is opened over everything or over the range of a key, as
`IndexScanExecutor` opens it, and goes on one step at a time.

**FileTable** has the directory, the descriptors the system has open,
`path2fd_` and `fd2path_`, the page counters, the headers on disk, and the pool's
page table by descriptor. Its actions are those of `RmManager`, with the calls
they make of `DiskManager`. `open(2)`, `unlink(2)` and inodes are external.
**Database** adds `tabs_` and `fhs_` of `SmManager`. `create_table` is two steps,
because the table is entered between creating its file and opening it and either
can throw; other files of the process come and go between statements.

**SqlParserTables** and **SqlScannerTables** are the tables of the two generated
files. **SqlParser** is the driver `yyparse` with the semantic actions, on
stacks of states and values; **SqlLexer** is `yylex` with its buffer, the
character it holds back, backing up, and the start condition. **SqlLanguage**
says which statements there are and **SqlGrammar** is the specification of a
parser, which takes tokens that can continue a statement; SqlParser implements
it. **SqlScannerRules** is the reference for the scanner: the regular
expressions of `lex.l`, longest match first. **SqlAst** has the nodes of `ast.h`.
The files `yacc.tab.c` and `lex.yy.c` are in the repository, but its build
generates them anew from `yacc.y` and `lex.l`. The copies are older than the
transaction statements (`begin`, `commit`, `abort`, `rollback`), which the rules
have and the copies do not; the modules model the copies, and the rules without
these statements.

**QueryPlan** takes a select statement from `select_from` through the scans to
the joins. `ParseSelector` looks up the columns it names (`check_column`),
`check_where_clause` those of its conditions. `MakeScan` is one turn of the loop
over the tables (`pop_conds`, then the scan of the table, `SeqScanExecutor`, whose
constructor turns conditions to face its table). `MakePlan` is what follows the
loop: the assertion that no condition is left, and the executors. `MoveLeft` is
a join that has its left side at another tuple and feeds its right side
(`feed_right`).

Not all of this path is written; as the code stands no select gets to its first
tuple. Four pieces are exercises, and the model takes them from the code around
them:

- `TabMeta::is_col` (lab3 task1) answers no, so that every column written with
  its table is refused. The constant `Known` is the set of columns it finds: `{}`
  now, all of them once it is written. The run has all of them, the proofs any
  set.
- `TabMeta::get_col` (lab3 task1) returns an iterator to nowhere, which
  `check_where_clause` and `get_indexNo` dereference. In the model it finds the
  column; all columns are integers, so that types agree, and none has an index,
  so that every scan is sequential.
- The loop of `select_from` makes no scan (lab3 task2, lines 204-207): its
  pointers stay null and line 233 dereferences one. `StoreScan` is external: it
  calls the constructor that is there with the conditions the loop has popped.
- The scans are not joined (lab3 task2, lines 213-217). `JoinedFrom` is external
  and follows the comment in its place and the constructor of the join.

A vector of conditions is the set of them: all must hold, and nothing depends on
their order. The constant `Statements` is the set of statements a behaviour may
begin with; their columns may be written with or without a table, be of a table
that is not in the statement, or not exist. In the run the tables of a statement
are distinct.

Definitions named *Variant* in a comment are deliberate faults. No specification
uses them; each is put in the place of the definition below it to show that a
property notices.

`Faults` is a constant of BufferPool, BPlusTree and FileTable. It names what callers may do that the
code does not handle. With `Faults = {}` callers keep to the contract; the runs
with a fault show what then remains true, or what fails. `record_file` and
`plan` have no such contract.

The contract is narrower than an ordinary caller's, so read the passing runs as
conditional on it.
`btree` holds for callers that never insert a key below the first separator of
an inner node on its path, never use a deleted key again, never delete the last
key or enough to make an inner node under-full, never scan for a key that is not
there, do not write during a scan, and stay in the process that created the
index. `pool` holds for callers that never fetch a page after deleting it and
never unpin a new page as clean, while no write fails. `database` holds for
callers that open no file under a descriptor of which the pool still has pages.
Apart from the failing write, these are legal calls; what the code does in each
case is in the tables of disagreements below (deleting the last key has no table row: the
root page becomes -1 and the next lookup fetches it).

## Runs

All properties below hold in the runs that name them. The type invariant is a
property of `pool_faults` and is proved for the replacer, the pool, the latch and
QueryPlan;
the `TypeOK` of the other modules, which says what their variables hold, is true
in their runs as well and is not listed there.

| Run | Instance | Shows |
|---|---|---|
| `lru` | five frames | list and hash agree; LRUPolicy is implemented |
| `pool` | 2 frames, 4 pages in 2 files, 2 clients | pages in use stay, pins are exact, no frame is lost, clean pages equal the file, PageStore is implemented |
| `pool_faults` | 2 frames, 3 pages, 1 client, every fault | types, page table, free list and replacer agree with the frames |
| `rwlatch` | 4 threads | mutual exclusion, exact counts, no lost wake-up, an entered writer gets in, somebody gets in |
| `record_file` | 2 record pages of 2 slots, 2 contents, every call | the free list stays in the file; scans miss no record that stays and return none twice; an insert takes no slot of a record |
| `btree` | 6 keys in any order with 2 deletes; 8 ascending with 2 deletes, a reopening and scans; order 3 | order, fill, the list of leaves, both bounds of every key, complete scans; IndexMap is implemented |
| `database` | 2 paths, 2 descriptors, 3 files, opening fails, open files are destroyed | listed tables have their files, handles are on their own table's file, a file has one descriptor, page numbers are given out once |
| `parser` | token sequences of every length; with values up to 12 tokens | exactly the sentences of `yacc.y` are accepted, the first wrong token is refused, the tokens a message names could have come, the stack stays below its limit, the tree is that of the statement |
| `lexer` | automaton on texts of every length; statements of up to 4 characters, one after the other | the tables are the rules of `lex.l`, the tokens are those of the rules, `yylex` returns |
| `plan` | 3 tables, 1 to 3 in a statement, a condition on any columns or 2 conditions | a query stops in the middle only for a column of a table that is not in the statement, the scans accept what the where clause accepts, columns lie side by side |

Two runs, which TLC must find violated, state what a test of the repository says
and the code does not keep. `PROJECT.json` quotes it.

| Run | What happens |
|---|---|
| `btree_small` | the split of a leaf that got a key below its separator loses the new leaf |
| `record_reuse` | a page that is emptied twice is linked to itself; when it is full it is still the first free page, and two inserts get one rid |

The modules show more disagreements when a configuration is changed as below.
The property named, checked alone, is then violated. Where the last column is
empty the repository says nothing; the property is what a caller would expect.

| Configuration, with | Property | What happens | What is said |
|---|---|---|---|
| MCBufferPoolFaults, `Faults = {"refetch_deleted"}` | `HeldPageStays` | a deleted page's frame keeps the page's id and later erases its live mapping | "reset its metadata" (`storage/buffer_pool_manager.cpp:246`) |
| MCBufferPoolFaults, `Faults = {"clean_new"}` | `NullOnlyWhenAllPinned` | a frame whose read failed is in no list | "If all the pages in the buffer pool are pinned, return nullptr" (`storage/buffer_pool_manager.cpp:217`) |
| MCBufferPoolFaults, `Faults = {"write_error"}` | `DirtyWrittenBeforeEvicted` | a dirty page whose write failed is out of the pool | "淘汰脏页之前，都要将脏页写入磁盘" (Lab 1 text, line 241) |
| MCRecordFile | `ReleasedWhenNoLongerFull` | a page that is no longer full is not released until it is empty | "当page handle中的page从已满变成未满的时候调用" (`record/rm_file_handle.cpp:177`) |
| MCRecordFile | `ScanStartsAtRecord` | a scan of an empty file starts at an uninitialised rid | "初始化file_handle和rid（指向第一个存放了记录的位置）" (`record/rm_scan.cpp:27`) |
| MCBPlusTree, `Faults = {"again"}` | `ImplementsIndexMap` | a key compares equal to its own bytes in a dead slot | "如果key不重复则插入键值对" (`index/ix_node_handle.cpp:170`) |
| MCBPlusTree, `Faults = {"inner"}` | `LeafLinksOfLeavesOnly` | an under-full inner node takes the file header page for its sibling | "effective only when is_leaf is true" (`index/ix_defs.h:24`) |
| MCBPlusTree, `Garbage = {0, 1}` | `ImplementsIndexMap` | the first insert compares with uninitialised bytes | "在内存中初始化page_buf中的内容" (`index/ix_manager.h:64`) |
| MCBPlusTree, `Faults = {"restart"}` | `AllocatesFromThree` | an index opened in a new process allocates page 1 | "从3开始分配page_no" (`index/ix_index_handle.cpp:400`) |
| MCBPlusTree, `Faults = {"absent"}` | `ScanCovers` | the range of a key that is not there can begin behind the last slot of a leaf, where the scan stops with an exception | |
| MCBPlusTree, `Faults = {"race"}` | `ScanCovers` | a scan takes no latch, and a writer moves keys under it | |
| Database, `Faults = {"reuse"}` | `PageIdNamesOnePage` | a reused descriptor finds the closed file's pages in the pool | "page的唯一标识符" (`storage/page.h:90`) |
| Database, `Faults = {"open_fails"}` | `NoHalfTables` | opening the new file fails after the table was entered: it has no handle and cannot be created again | |
| Database | `OpenFilesKeepTheirName` | an open file is unlinked | "注意不能删除未关闭的文件" (`storage/disk_manager.cpp:124`) |

### Bounds

Two frames for more than two pages make every fetch an eviction or a hit and let
one frame serve several pages. Two slots a page are the fewest for which a page
can be full, partly full and empty; two record pages give a list with a page
behind the first, and a count of three is that of a full page with a record more,
which is what a page linked to itself leads to. Two contents show which record
a slot holds.
An order of three is the smallest the code's assertion `btree_order > 2` allows;
six keys split and merge leaves, eight make inner nodes split. Two descriptors
for three files force a descriptor to be used again. Three tables have a first,
a middle and a last scan, and a join below a join; two conditions can meet in one
scan or in two. Twelve tokens hold every kind of statement, lists of two
included. Four characters over `'`, `*`, `-`, `/`, `0`, `.` and a newline hold
every way to begin, leave open and end a comment, a string and a number.
`MaxPages`, `MaxCount`, `MaxPage`, `MaxFd`, `MaxInode`, `MaxTokens` and `MaxText` bound counters and
stand in the guards. Symmetry is used in the pool's safety runs, and for
the contents of records in `record_file`.

### Fairness

RWLatch, SqlLexer and SqlParser have liveness properties. A thread that can take the mutex
eventually does and a thread inside the latch eventually leaves
(`WF_vars(Step(t))`): a mutex that is free is handed to some thread, and callers
of the page latch do not keep it. Nobody is required to ask for the latch, and a
thread asleep on a condition variable is owed nothing until it is notified. In
SqlLexer `WF_vars(Scan)`, and in SqlParser `WF_vars(Step)`, say that `yylex` and
`yyparse`, once called, go on: they are loops that wait for nobody. Nobody is
required to supply another token.

## Proofs

| Theorem | Module | Statement |
|---|---|---|
| `ListAndHashAgree` | LRUReplacerProofs | the types and `ListMatchesHash`, for any set of frames |
| `ReplacerImplementsPolicy` | LRUReplacerProofs | `ImplementsPolicy`: the list and the hash implement LRUPolicy |
| `PoolRobust` | BufferPoolProofs | `TypeOK`, `TableMatchesFrames`, `OnlyUnpinnedEvictable`, with any faults |
| `PoolSafe` | BufferPoolProofs | with `Faults = {}`: `HeldPageStays`, `PinCountsHolds`, `NullOnlyWhenAllPinned`, `CleanMatchesDisk`, `AllocatedReadable` |
| `PoolImplementsStore` | BufferPoolProofs | with `Faults = {}`: `ImplementsPageStore`, the pool implements PageStore |
| `LatchExcludes` | RWLatchProofs | `MutualExclusion` and `CountsThreads`, for any number of threads below `MAX_READERS` |
| `WakeupsKept` | RWLatchProofs | `NoLostWakeup`, for the same |
| `ScansGoForward` | RecordFileProofs | `ScanForward`, with or without rollbacks, as the three below |
| `ScansComplete` | RecordFileProofs | `ScanComplete` |
| `FreeListKept` | RecordFileProofs | `FreeListInFile` |
| `InsertsTakeFreeSlots` | RecordFileProofs | `InsertTakesFreeSlot` |
| `FilesOpenOnce` | DatabaseProofs | `TablesInverse` and `OneDescriptorPerFile`, with any faults |
| `TablesUsable` | DatabaseProofs | `TablesHaveFiles` and `HandlesOfTables`, with any faults |
| `NumbersGivenOnce` | DatabaseProofs | `PagesNumberedOnce`, with any faults |
| `ScanDecidesCondition` | QueryPlanProofs | a condition turned and fed by a scan is on its table alone and keeps its truth value, for any tables and integers |
| `QueriesStopOnlyForForeignTable` | QueryPlanProofs | `StopsOnlyForForeignTable`, for any schema, any statement and any columns that `is_col` finds |
| `ScansDecideWhere` | QueryPlanProofs | `ScansKeepWhere`, if no statement names a table twice |

Short theorems beside these state their conjuncts one by one, and `PoolInvariant`,
`RecordFileInv` and `PlanInvariant` the inductive invariants.

They rest on the named assumptions of the modules only (`BufferPoolAssumption`,
`LatchAssumption`, `RecordFileAssumption`, `FileTableAssumption`,
`QueryPlanAssumption`): the pool's sets of clients and files and the set of
threads are finite, the pool has a frame, a page holds at least two records (a
record has at most 512 of a page's 4096 bytes), model values differ, bounds are
natural numbers, values are integers, a statement names at least one table and
only tables that exist, and `is_col` finds only columns that exist.

**Replacer.** The lemmas of LRUListProofs say what each method does to list and hash
(an erased frame leaves the order of the others alone) and are used by the other
modules. The refinement maps the policy's order to the order in the list, from
its end. The invariant is `TypeOK` and `ListMatchesHash`.

**Pool.** BufferPoolSteps has one lemma for each way a call can change the frames,
first with any faults (`RobustInv`), then under the contract (`PoolInv`);
BufferPoolProofs has the remaining steps, the theorems and the refinement.

`RobustInv` adds that the replacer is consistent: without it `Pin` could leave a
pinned frame in the list. It survives every exception because all of them happen
after the frame has left the free list or the replacer and before a pin.

`PoolInv` adds two facts the properties do not say. `FramesAccounted`: every
frame is free or mapped, and a mapped frame nobody pins is in the replacer; this
gives `NullOnlyWhenAllPinned`. `IdsCurrent`: the id in a frame is the page mapped
to it, or a deleted page that is mapped nowhere; without it recycling a frame
could erase another page's entry, which is what happens
with the fault `"refetch_deleted"`.

The refinement takes a page's content from its frame if it is mapped and from the
file if not. It needs `FileEnds` besides: a page with a number nobody was given
has no bytes in its file, so that a page NewPage gives out looks new, and the
hole of zeros that a write past the end leaves is in allocated pages only. Where
several frames have the id of one page, `FlushAllPages` leaves the content of the
last of them in the file (`LastFrame`).

**Latch.** `LatchInv` adds that the flag admits one writer and that a thread writes only
with a count of zero. `SleepersInv` adds that who sleeps on `writer_` has
entered: it is one thread, so `notify_one` is enough.

**Record file.** `Inv` has three parts. `PagesInv`: pages not allocated yet are empty,
and a delete that may be undone has left its slot free. `FreeInv`: some set of
record pages of the file (`FreePages`) holds the head of the free list and what
its links lead to, and a page outside it was never listed: no record was deleted
from it and it holds at most its first one. The last part is what makes it
inductive. A page becomes the head by losing its last record and keeps a link to
the old head; a link becomes the head when its page fills. The link of a new page
is 0, the file header: it must not become the head, and does not because a page
that fills, with two slots or more, has had more than one record and so was the
head before. No more can be said of the list: it can hold a full page, lead
back to itself or lose pages, which is what `record_reuse` shows and why
`InsertTakesFreeSlot` allows the rid of a full page to be given out again.
`ScanInv`: what a scan still owes is stored and lies in front of it, and what it
has returned lies behind it.

**Files.** `FileTableInv` adds that a file that still has its name is open under that name
only (`OpenedByName`), which a file destroyed while open does not break since a
new file of that name is another one. `TablesInv` adds that the table
`create_table` is at has its file already. `PagesInv` adds types.

**Planning.** `PlanInv` says what has been handed out after i tables: the conditions left are
those that the first i tables do not decide, and scan i holds those that they
decide and the first i - 1 do not (`Popped`), turned to face its table. Then one
side of such a condition is on table i, so that it can be turned, and the other
on one of the first i, so that it is there when the scan is fed. None of this
needs the tables to be distinct, and no assertion of a scan fails. After the last
table the conditions left are those with a column of a table that is not among
them, which gives `StopsOnlyForForeignTable`; `check_column` compares a column
written without its table with the statement's tables, but takes one written
with it from any table (`ColumnLemma` says no more than that it exists). `FedInv` adds that what
scan j was fed last are the tuples that the scans before it are at. For a table
that is named twice it does not hold: `feed_dict.insert` keeps the first tuple of a column,
and since the language has no aliases a condition cannot say which it means.
With distinct tables it gives `ScansKeepWhere`, by `ScanDecidesCondition` for
each condition and because every decided condition is in exactly the scan at
which it became decided (`SharedOut`, the least such table).

Checked by TLC only:

- The liveness properties of the latch, the parser and the scanner: fairness is
  out of the prover's reach.
- Everything about BPlusTree, the parser and the scanner, `ImplementsIndexMap` and
  `ImplementsGrammar` among it: they are recursive operators, as the code is
  recursive, which the prover does not support.
- `ColumnsTile`: the offsets are sums over columns, whose values for every schema
  need induction over the folds that define them.

## Not modelled

- **Server and interpreter.** The target is commented out in the build.
  `TransactionManager::Begin` returns a null pointer, which `SetTransaction`
  dereferences, so that every statement but `help` and the ones that end a
  transaction stops there. Threads share the socket variable, the scanner's
  state and `ast::parse_tree` without a lock, so two clients at a time are a data
  race. What one client leaves behind for the next is in SqlLexer and SqlParser.
- **`create_index`, `drop_index`** stop in `TabMeta::get_col`. **`open_db`** reads a metadata file that nothing writes.
- **Empty in the source:** transactions, locks, the log's append and flush,
  recovery, the clock replacer, `create_db`, `close_db`, `drop_table`, the
  insert, delete and update executors, the loops of the scans and of the join.
- **The record file and the tree over the pool.** Their pages are always in
  memory, so pins that are never returned, and a crash between the writes of
  `close_file`, do not show.
- **Data.** Page contents beyond a value, the bytes of records and keys (keys and
  column values are numbers, compared as the code compares `int` columns),
  page offsets beyond 2 GB, formatting and messages.
