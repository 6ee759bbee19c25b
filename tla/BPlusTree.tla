----------------------------- MODULE BPlusTree ------------------------------
(***************************************************************************)
(* IxIndexHandle and IxNodeHandle (src/src/index): the B+ tree.            *)
(*                                                                         *)
(* insert_entry, delete_entry and GetValue hold root_latch_ from start to  *)
(* end, so each is one step.  A node is its page: the live pairs are the   *)
(* first size of them, and the key slots behind keep what was there.  They *)
(* matter, because Insert and Remove look at the slot behind the last key. *)
(* (The rid slots behind are never read, so vals holds the live ones.)     *)
(*                                                                         *)
(* Faults lets the caller do what the tree does not handle:                *)
(*   "small"    insert a key below the first key of a node on its path     *)
(*   "again"    insert or delete a key that was deleted before             *)
(*   "empty"    delete the last key; then there is no root                 *)
(*   "inner"    delete so much that an inner node is less than half full   *)
(*   "restart"  use the index in a process that did not create it          *)
(*   "absent"   scan for a key that is not there                           *)
(*   "race"     insert and delete between two steps of a scan, which does  *)
(*              not take root_latch_                                       *)
(*                                                                         *)
(* The sizes of an instance are a variable that Init chooses, so that one  *)
(* run covers several.                                                     *)
(***************************************************************************)
EXTENDS Integers, Sequences, FiniteSetsExt

CONSTANTS
  Instances,     \* the instances: their keys, and the bounds below
  btree_order,
  MaxPage,       \* bound: page numbers
  Garbage,       \* what create_index may leave in the key slots of the root
  Faults

\* keys are positive: 0 is a key slot of a page of zeros.  Bounds: deletes is
\* the number of keys that are deleted, opens that of the calls of open_index.
\* ascending: the keys are inserted in order.  scans: IxScan is used.
ASSUME BPlusTreeAssumption ==
  /\ \A i \in Instances :
       /\ i.keys \subseteq Nat \ {0} /\ IsFiniteSet(i.keys)
       /\ i.deletes \in Nat /\ i.opens \in Nat
       /\ i.ascending \in BOOLEAN /\ i.scans \in BOOLEAN
  /\ btree_order \in Nat /\ btree_order > 2
  /\ MaxPage \in Nat /\ MaxPage > 3
  /\ Faults \subseteq {"small", "again", "empty", "inner", "restart", "absent", "race"}

Key == UNION {i.keys : i \in Instances}

IX_NO_PAGE == -1
IX_LEAF_HEADER_PAGE == 1
IX_INIT_ROOT_PAGE == 2
IX_INIT_NUM_PAGES == 3
GetMaxSize == btree_order + 1
GetMinSize == GetMaxSize \div 2

Zeros(n) == [i \in 1..n |-> 0]

\* A page of zeros.
Blank == [leaf |-> FALSE, parent |-> 0, prev |-> 0, next |-> 0, size |-> 0,
          keys |-> Zeros(GetMaxSize), vals |-> <<>>]

\* The rid of the record with key k, told apart from the others.
RidOf(k) == <<"rid", k>>
-----------------------------------------------------------------------------
(* Nodes: ix_node_handle.                                                  *)

\* The binary search of lower_bound (which goes left at an equal key) and of
\* upper_bound (which goes right), between the slots l and r.
RECURSIVE Search(_, _, _, _, _)
Search(n, target, right, l, r) ==
  LET mid == (l + r) \div 2
      key == n.keys[mid + 1]
  IN
  IF l >= r THEN l
  ELSE IF target > key \/ (right /\ target = key)
       THEN Search(n, target, right, mid + 1, r)
       ELSE Search(n, target, right, l, mid)

lower_bound(n, target) == Search(n, target, FALSE, 0, n.size)

\* Variant: an equal key goes left here too.
UpperBoundAtEqual(n, target) == Search(n, target, FALSE, 0, n.size)

upper_bound(n, target) == Search(n, target, TRUE, 0, n.size)

LeafLookup(n, k) ==
  LET i == lower_bound(n, k) IN i # n.size /\ n.keys[i + 1] = k

InternalLookup(n, k) ==
  LET i == upper_bound(n, k) IN n.vals[IF i = 0 THEN 1 ELSE i]

insert_pairs(n, pos, ks, vs) ==
  [n EXCEPT
     !.keys = SubSeq(@, 1, pos) \o ks \o SubSeq(@, pos + 1, n.size)
                \o SubSeq(@, n.size + Len(ks) + 1, GetMaxSize),
     !.vals = SubSeq(@, 1, pos) \o vs \o SubSeq(@, pos + 1, n.size),
     !.size = @ + Len(ks)]

Insert(n, k, v) ==
  LET i == lower_bound(n, k) IN
  IF n.keys[i + 1] = k THEN n ELSE insert_pairs(n, i, <<k>>, <<v>>)

\* Variant: the keys move down, the rids stay.
EraseKeyOnly(n, pos) ==
  [n EXCEPT
     !.keys = SubSeq(@, 1, pos) \o SubSeq(@, pos + 2, n.size + 1)
                \o SubSeq(@, n.size + 1, GetMaxSize),
     !.vals = SubSeq(@, 1, n.size - 1),
     !.size = @ - 1]

\* The pairs behind pos move down by one, the first dead key with them.
erase_pair(n, pos) ==
  [n EXCEPT
     !.keys = SubSeq(@, 1, pos) \o SubSeq(@, pos + 2, n.size + 1)
                \o SubSeq(@, n.size + 1, GetMaxSize),
     !.vals = SubSeq(@, 1, Min({pos, n.size - 1})) \o SubSeq(@, pos + 2, n.size),
     !.size = @ - 1]

Remove(n, k) ==
  LET i == lower_bound(n, k) IN
  IF n.keys[i + 1] = k THEN erase_pair(n, i) ELSE n

HasChild(n, p) == \E i \in 1..n.size : n.vals[i] = p
find_child(n, p) == Min({i \in 1..n.size : n.vals[i] = p}) - 1
-----------------------------------------------------------------------------
(* Trees: the file header, the next page number of the disk manager, the   *)
(* nodes by page number, and whether the program has come to grief:        *)
(*   "empty"   the root page is IX_NO_PAGE, which FindLeafPage fetches     *)
(*   "inner"   the file header page is about to be used as a sibling       *)
(*   "assert"  find_child did not find the child                           *)

\* IxManager::create_index, then open_index in the same process.
Created(garbage) ==
  [root_page |-> IX_INIT_ROOT_PAGE, last_leaf |-> IX_INIT_ROOT_PAGE,
   num_pages |-> IX_INIT_NUM_PAGES, next_page |-> IX_INIT_NUM_PAGES,
   status |-> "ok",
   nodes |-> [p \in 1..MaxPage |->
     CASE p = IX_LEAF_HEADER_PAGE ->
            [Blank EXCEPT !.leaf = TRUE, !.parent = IX_NO_PAGE,
                          !.prev = IX_INIT_ROOT_PAGE, !.next = IX_INIT_ROOT_PAGE]
       [] p = IX_INIT_ROOT_PAGE ->
            [Blank EXCEPT !.leaf = TRUE, !.parent = IX_NO_PAGE, !.keys = garbage,
                          !.prev = IX_LEAF_HEADER_PAGE, !.next = IX_LEAF_HEADER_PAGE]
       [] OTHER -> Blank]]

RECURSIVE Descend(_, _, _)
Descend(t, p, k) ==
  IF t.nodes[p].leaf THEN p ELSE Descend(t, InternalLookup(t.nodes[p], k), k)

FindLeafPage(t, k) == Descend(t, t.root_page, k)

GetValue(t, k) ==
  LET leaf == t.nodes[FindLeafPage(t, k)] IN
  IF LeafLookup(leaf, k) THEN <<leaf.vals[lower_bound(leaf, k) + 1]>> ELSE <<>>

\* maintain_child, for the children of p numbered in I.
maintain_child(t, p, I) ==
  LET children == IF t.nodes[p].leaf THEN {} ELSE {t.nodes[p].vals[i] : i \in I}
  IN [t EXCEPT !.nodes = [q \in DOMAIN t.nodes |->
        IF q \in children THEN [t.nodes[q] EXCEPT !.parent = p] ELSE t.nodes[q]]]

\* The first key of p goes to its parent, and from there up.
RECURSIVE maintain_parent(_, _)
maintain_parent(t, p) ==
  LET par == t.nodes[p].parent
      first == t.nodes[p].keys[1]
      i == find_child(t.nodes[par], p) + 1
  IN
  IF par = IX_NO_PAGE THEN t
  ELSE IF ~ HasChild(t.nodes[par], p) THEN [t EXCEPT !.status = "assert"]
  ELSE IF t.nodes[par].keys[i] = first THEN t
  ELSE maintain_parent([t EXCEPT !.nodes[par].keys[i] = first], par)
-----------------------------------------------------------------------------
(* Insertion.                                                              *)

\* The page a new node gets, and the tree with it.
CreateNode(t) ==
  [t EXCEPT !.num_pages = @ + 1, !.next_page = @ + 1, !.nodes[t.next_page] = Blank]

\* Variant: the leaf behind keeps its link to p.
InsertLeafOneWay(t, p, new) ==
  [t EXCEPT !.nodes[new].next = t.nodes[p].next, !.nodes[new].prev = p,
            !.nodes[p].next = new]

\* insertLeaf: new goes behind p in the list of leaves.
insertLeaf(t, p, new) ==
  LET behind == t.nodes[p].next
      linked == [t EXCEPT !.nodes[new].next = behind, !.nodes[new].prev = p,
                          !.nodes[p].next = new]
  IN IF behind = IX_NO_PAGE THEN linked ELSE [linked EXCEPT !.nodes[behind].prev = new]

evenlyDistributePairs(t, p, new) ==
  LET n == t.nodes[p]
      half == n.size \div 2
      moved == n.size - half
  IN [t EXCEPT
        !.nodes[new] = [@ EXCEPT
           !.leaf = n.leaf, !.size = moved, !.parent = n.parent,
           !.keys = SubSeq(n.keys, half + 1, n.size) \o SubSeq(@, moved + 1, GetMaxSize),
           !.vals = SubSeq(n.vals, half + 1, n.size)],
        !.nodes[p] = [@ EXCEPT !.size = half, !.vals = SubSeq(@, 1, half)]]

Split(t, p) ==
  LET new == t.next_page
      split == evenlyDistributePairs(CreateNode(t), p, new)
  IN IF t.nodes[p].leaf THEN insertLeaf(split, p, new)
     ELSE maintain_child(split, new, 1..split.nodes[new].size)

setNewRoot(t, root, left, right) ==
  LET n == [t.nodes[root] EXCEPT
              !.leaf = FALSE, !.size = 2, !.parent = IX_NO_PAGE,
              !.keys = <<t.nodes[left].keys[1], t.nodes[right].keys[1]>>
                         \o SubSeq(@, 3, GetMaxSize),
              !.vals = <<left, right>>]
  IN maintain_child([t EXCEPT !.nodes[root] = n, !.root_page = root], root, 1..2)

updateLastLeaf(t, p, new) ==
  IF t.nodes[p].leaf /\ p = t.last_leaf THEN [t EXCEPT !.last_leaf = new] ELSE t

RECURSIVE InsertIntoParent(_, _, _)

splitNodeIfFull(t, p) ==
  IF t.nodes[p].size # GetMaxSize THEN t
  ELSE updateLastLeaf(InsertIntoParent(Split(t, p), p, t.next_page), p, t.next_page)

\* The first key of new goes where the parent's keys say.
InsertIntoParent(t, old, new) ==
  LET par == t.nodes[old].parent
      key == t.nodes[new].keys[1]
  IN IF par = IX_NO_PAGE THEN setNewRoot(CreateNode(t), t.next_page, old, new)
     ELSE splitNodeIfFull([t EXCEPT !.nodes[par] = Insert(@, key, new)], par)
-----------------------------------------------------------------------------
(* Deletion.                                                               *)

\* release_node_handle only counts.
release_node_handle(t) == [t EXCEPT !.num_pages = @ - 1]

AdjustRoot(t, p) ==
  LET n == t.nodes[p] IN
  CASE n.leaf /\ n.size = 0 ->
         [release_node_handle(t) EXCEPT !.root_page = IX_NO_PAGE, !.status = "empty"]
    [] ~ n.leaf /\ n.size = 1 ->
         [release_node_handle(t) EXCEPT !.nodes[n.vals[1]].parent = IX_NO_PAGE,
                                        !.root_page = n.vals[1]]
    [] OTHER -> t

\* Variant: the parents keep their keys.
RedistributeQuietly(t, b, p, pos) ==
  LET n == t.nodes[p]
      m == t.nodes[b]
  IN IF pos # 0
     THEN [t EXCEPT !.nodes[p] = insert_pairs(n, 0, <<m.keys[m.size]>>, <<m.vals[m.size]>>),
                    !.nodes[b] = erase_pair(m, m.size - 1)]
     ELSE [t EXCEPT !.nodes[p] = insert_pairs(n, n.size, <<m.keys[1]>>, <<m.vals[1]>>),
                    !.nodes[b] = erase_pair(m, 0)]

\* One pair moves to p from its sibling b.  Only leaves come here.
Redistribute(t, b, p, pos) ==
  LET n == t.nodes[p]
      m == t.nodes[b]
  IN IF pos # 0
     THEN maintain_parent(
            [t EXCEPT !.nodes[p] = insert_pairs(n, 0, <<m.keys[m.size]>>, <<m.vals[m.size]>>),
                      !.nodes[b] = erase_pair(m, m.size - 1)], p)
     ELSE maintain_parent(
            [t EXCEPT !.nodes[p] = insert_pairs(n, n.size, <<m.keys[1]>>, <<m.vals[1]>>),
                      !.nodes[b] = erase_pair(m, 0)], b)

erase_leaf(t, p) ==
  LET n == t.nodes[p] IN
  [t EXCEPT !.nodes[n.prev].next = n.next, !.nodes[n.next].prev = n.prev]

\* Coalesce without its last call: all pairs of the right node move to the left
\* one, and the right one leaves the list and the parent.
Merge(t, left, right, par, index) ==
  LET n == t.nodes[left]
      m == t.nodes[right]
      moved == [t EXCEPT !.nodes[left] =
                  insert_pairs(n, n.size, SubSeq(m.keys, 1, m.size), m.vals),
                  !.last_leaf = IF @ = right THEN left ELSE @]
  IN [release_node_handle(erase_leaf(moved, right)) EXCEPT
        !.nodes[par] = erase_pair(@, index)]

\* Inner nodes have no prev_leaf and next_leaf of their own: both are 0, the page
\* of the file header.
RECURSIVE CoalesceOrRedistribute(_, _)
CoalesceOrRedistribute(t, p) ==
  LET n == t.nodes[p]
      par == n.parent
      pos == find_child(t.nodes[par], p)
      b == IF pos # 0 THEN n.prev ELSE n.next
  IN
  IF par = IX_NO_PAGE THEN AdjustRoot(t, p)
  ELSE IF n.size >= GetMinSize THEN maintain_parent(t, p)
  ELSE IF ~ HasChild(t.nodes[par], p) THEN [t EXCEPT !.status = "assert"]
  ELSE IF ~ n.leaf THEN [t EXCEPT !.status = "inner"]
  ELSE IF n.size + t.nodes[b].size >= 2 * GetMinSize THEN Redistribute(t, b, p, pos)
  ELSE CoalesceOrRedistribute(
         IF pos = 0 THEN Merge(t, p, b, par, 1) ELSE Merge(t, b, p, par, pos), par)
-----------------------------------------------------------------------------
VARIABLES
  inst,      \* the instance
  tree,
  result,    \* what the last call was and what it returned
  found,     \* history: what GetValue finds now, as pairs of key and rid
  gone,      \* keys deleted so far
  opens,     \* calls of open_index
  scan       \* an IxScan and what it has returned; NoScan when there is none

vars == <<inst, tree, result, found, gone, opens, scan>>

Lookups(t) ==
  IF t.root_page = IX_NO_PAGE THEN {}
  ELSE {<<k, GetValue(t, k)[1]>> : k \in {q \in inst.keys : GetValue(t, q) # <<>>}}

NoScan == [page_no |-> IX_NO_PAGE]

\* create_index writes the root from a buffer it has not initialised.
Init ==
  /\ inst \in Instances
  /\ \E garbage \in [1..GetMaxSize -> Garbage] : tree = Created(garbage)
  /\ result = <<>> /\ found = {} /\ gone = {} /\ opens = 1 /\ scan = NoScan

\* The first key of every inner node on the path of k is at most k.
RECURSIVE AboveFirst(_, _, _)
AboveFirst(t, p, k) ==
  ~ t.nodes[p].leaf =>
    /\ t.nodes[p].keys[1] <= k
    /\ AboveFirst(t, InternalLookup(t.nodes[p], k), k)

Usable == tree.status = "ok"

\* Nobody scans, or the caller does not care.
WriterMayRun == scan = NoScan \/ "race" \in Faults

\* At most two pages per level are created, and the trees have three levels.
insert_entry(k) ==
  LET p == FindLeafPage(tree, k)
      n == Insert(tree.nodes[p], k, RidOf(k))
      grown == n.size > tree.nodes[p].size
      after == IF grown THEN splitNodeIfFull([tree EXCEPT !.nodes[p] = n], p) ELSE tree
  IN
  /\ Usable /\ WriterMayRun /\ tree.next_page + 3 <= MaxPage
  /\ inst.ascending => k = Cardinality(found) + Cardinality(gone) + 1
  /\ "small" \notin Faults => AboveFirst(tree, tree.root_page, k)
  /\ k \in gone => "again" \in Faults
  /\ tree' = after /\ found' = Lookups(after)
  /\ result' = <<"insert", k, grown>>
  /\ UNCHANGED <<inst, gone, opens, scan>>

delete_entry(k) ==
  LET p == FindLeafPage(tree, k)
      n == Remove(tree.nodes[p], k)
      shrunk == n.size # tree.nodes[p].size
      after == IF shrunk THEN CoalesceOrRedistribute([tree EXCEPT !.nodes[p] = n], p)
               ELSE tree
  IN
  /\ Usable /\ WriterMayRun /\ Cardinality(gone) < inst.deletes
  /\ k \in gone => "again" \in Faults
  /\ tree' = after /\ found' = Lookups(after)
  /\ after.status \in {"ok", "assert"} \cup Faults
  /\ result' = <<"delete", k, shrunk>>
  /\ gone' = IF shrunk THEN gone \cup {k} ELSE gone
  /\ UNCHANGED <<inst, opens, scan>>

\* close_index and open_index.  The handle starts to allocate one page behind
\* where fd2pageno_ of its descriptor stands: in the same process that leaves a
\* page out, in a new process it is page 1.
reopen ==
  /\ Usable /\ opens < inst.opens /\ scan = NoScan
  /\ \E n \in {tree.next_page + 1} \cup (IF "restart" \in Faults THEN {1} ELSE {}) :
       tree' = [tree EXCEPT !.next_page = n]
  /\ opens' = opens + 1
  /\ UNCHANGED <<inst, result, found, gone, scan>>
-----------------------------------------------------------------------------
(* IxIndexHandle::lower_bound, upper_bound, leaf_begin and leaf_end: a     *)
(* page and a slot.  IxScan goes from one to another.                      *)

leaf_begin == [page_no |-> IX_INIT_ROOT_PAGE, slot_no |-> 0]
leaf_end == [page_no |-> tree.last_leaf, slot_no |-> tree.nodes[tree.last_leaf].size]

ih_lower_bound(k) ==
  LET p == FindLeafPage(tree, k)
  IN [page_no |-> p, slot_no |-> lower_bound(tree.nodes[p], k)]

ih_upper_bound(k) ==
  LET p == FindLeafPage(tree, k)
      i == upper_bound(tree.nodes[p], k)
  IN IF i = tree.nodes[p].size THEN leaf_end ELSE [page_no |-> p, slot_no |-> i]

KeyAt(iid) == tree.nodes[iid.page_no].keys[iid.slot_no + 1]
Keys == {e[1] : e \in found}

StartScan(lower, upper, keys) ==
  /\ Usable /\ scan = NoScan /\ inst.scans
  /\ scan' = [iid_ |-> lower, end_ |-> upper, out |-> <<>>, keys |-> keys, ok |-> TRUE]
  /\ UNCHANGED <<inst, tree, result, found, gone, opens>>

\* beginTuple of the index scan executor, without a condition on the column and
\* with the condition that it equals k.
ScanAll == StartScan(leaf_begin, leaf_end, Keys)
ScanEqual(k) ==
  /\ k \in Keys \/ "absent" \in Faults
  /\ StartScan(ih_lower_bound(k), ih_upper_bound(k), Keys \cap {k})

\* Variant: the slot behind the last one of a leaf is not left.
NextSlot(iid) == [iid EXCEPT !.slot_no = @ + 1]

\* IxScan::next, behind its assertions.
IidAfter(iid) ==
  LET n == tree.nodes[iid.page_no] IN
  IF iid.page_no # tree.last_leaf /\ iid.slot_no + 1 = n.size
  THEN [page_no |-> n.next, slot_no |-> 0]
  ELSE [iid EXCEPT !.slot_no = @ + 1]

\* rid() and next().  ok is FALSE once get_rid has thrown, or an assertion of
\* next has failed, because there is no pair in the slot.
ScanNext ==
  LET iid == scan.iid_
      n == tree.nodes[iid.page_no]
  IN
  /\ scan # NoScan /\ scan.ok /\ iid # scan.end_
  /\ scan' = IF n.leaf /\ iid.slot_no < n.size
             THEN [scan EXCEPT !.out = Append(@, KeyAt(iid)), !.iid_ = IidAfter(iid)]
             ELSE [scan EXCEPT !.ok = FALSE]
  /\ UNCHANGED <<inst, tree, result, found, gone, opens>>

\* is_end(), or the exception, ends the loop of the executor.
ScanOver == scan # NoScan /\ (~ scan.ok \/ scan.iid_ = scan.end_)
ScanClose ==
  /\ ScanOver /\ scan' = NoScan
  /\ UNCHANGED <<inst, tree, result, found, gone, opens>>
-----------------------------------------------------------------------------
Next ==
  \/ \E k \in inst.keys : insert_entry(k) \/ delete_entry(k) \/ ScanEqual(k)
  \/ reopen
  \/ ScanAll
  \/ ScanNext
  \/ ScanClose

Spec == Init /\ [][Next]_vars
-----------------------------------------------------------------------------
(* Reading the tree.                                                       *)

InnerPages(t, pages) == {p \in pages : ~ t.nodes[p].leaf}
Children(t, p) == {t.nodes[p].vals[i] : i \in 1..t.nodes[p].size}

\* The pages of the levels below pages, and pages.
RECURSIVE Below(_, _)
Below(t, pages) ==
  LET inner == InnerPages(t, pages) IN
  IF inner = {} THEN pages
  ELSE pages \cup Below(t, UNION {Children(t, p) : p \in inner})

Reachable == IF tree.root_page = IX_NO_PAGE THEN {} ELSE Below(tree, {tree.root_page})

Live(n) == SubSeq(n.keys, 1, n.size)

\* The keys of the leaves from page p on.  The bound on the steps ends a list that
\* runs in a circle.
RECURSIVE LeavesFrom(_, _, _)
LeavesFrom(t, p, steps) ==
  IF p = t.last_leaf \/ steps = 0 THEN Live(t.nodes[p])
  ELSE Live(t.nodes[p]) \o LeavesFrom(t, t.nodes[p].next, steps - 1)
-----------------------------------------------------------------------------
TypeOK ==
  /\ tree.root_page \in -1..MaxPage /\ tree.last_leaf \in 1..MaxPage
  /\ tree.num_pages \in 2..MaxPage + 1 /\ tree.next_page \in 1..MaxPage + 1
  /\ tree.status \in {"ok", "empty", "inner", "assert"}
  /\ \A p \in 1..MaxPage : LET n == tree.nodes[p] IN
       /\ n.leaf \in BOOLEAN /\ n.parent \in -1..MaxPage
       /\ n.prev \in 0..MaxPage /\ n.next \in 0..MaxPage
       /\ n.size \in 0..GetMaxSize /\ Len(n.keys) = GetMaxSize /\ Len(n.vals) = n.size
  /\ gone \subseteq Key

\* What check_tree of b_plus_tree_delete_test.cpp looks for, after every call: a
\* child names its parent, a key of an inner node is the first key of its child
\* (but for the first one), and the child's last key is below the next key.  So
\* find_child finds the child, which it asserts.
TreeOrdered ==
  /\ tree.status # "assert"
  /\ \A p \in InnerPages(tree, Reachable) :
       LET n == tree.nodes[p] IN
       \A i \in 1..n.size :
         LET c == tree.nodes[n.vals[i]] IN
         /\ c.parent = p
         /\ i # 1 => n.keys[i] = c.keys[1]
         /\ i < n.size => c.keys[c.size] < n.keys[i + 1]

\* No node but the root is less than half full, none is full between two calls,
\* and num_pages counts the nodes and the two header pages.
NodesFilled ==
  Usable =>
    /\ \A p \in Reachable :
         /\ tree.nodes[p].size < GetMaxSize
         /\ p # tree.root_page => tree.nodes[p].size >= GetMinSize
    /\ tree.num_pages = Cardinality(Reachable) + 2

\* Both: after every call the tree has the shape of a B+ tree.
TreeShape == TreeOrdered /\ NodesFilled

\* The leaves are a circle with the leaf header page, linked both ways, and hold
\* the keys that lookups find, in order and once.
LeavesInOrder ==
  LET keys == LeavesFrom(tree, IX_INIT_ROOT_PAGE, MaxPage) IN
  Usable =>
    /\ \A p \in {q \in Reachable : tree.nodes[q].leaf} \cup {IX_LEAF_HEADER_PAGE} :
         /\ tree.nodes[tree.nodes[p].next].prev = p
         /\ tree.nodes[tree.nodes[p].prev].next = p
    /\ {keys[i] : i \in 1..Len(keys)} = Keys
    /\ \A i \in 1..Len(keys) - 1 : keys[i] < keys[i + 1]

\* The bounds of a key that is there, as the executor of index scans uses them:
\* lower_bound is the key itself, upper_bound the key behind it or leaf_end.
BoundsOfFoundKeys ==
  Usable =>
    \A k \in Keys :
      /\ KeyAt(ih_lower_bound(k)) = k
      /\ ih_upper_bound(k) # leaf_end =>
           LET u == KeyAt(ih_upper_bound(k)) IN
           u > k /\ ~ \E q \in Keys : k < q /\ q < u

\* A scan that has come to its end returned every key it was asked for, keys that
\* are there only, in order and once, and no exception or assertion ended it
\* before.  (It may return more than it was asked for: behind the last key of a
\* leaf, upper_bound is the end of the index.  The executor looks at the record.)
ScanCovers ==
  LET out == {scan.out[i] : i \in 1..Len(scan.out)} IN
  ScanOver =>
    /\ scan.ok
    /\ scan.keys \subseteq out /\ out \subseteq Keys
    /\ \A i \in 1..Len(scan.out) - 1 : scan.out[i] < scan.out[i + 1]

Index == INSTANCE IndexMap WITH entries <- found

\* The tree is a map from keys to rids: what was inserted and not deleted is
\* found, with its own rid, and each call says truly whether it did something.
ImplementsIndexMap == Index!Spec

\* "previous leaf node's page_no, effective only when is_leaf is true" (ix_defs.h,
\* at prev_leaf): the links of an inner node are not used.
LeafLinksOfLeavesOnly == tree.status # "inner"

\* "Page numbers are allocated from 3 on" (ix_index_handle.cpp, CreateNode): the
\* next split does not put its new nodes on the leaf header page and the first
\* leaf.  (A root split that does makes the root its own child.)
AllocatesFromThree == tree.next_page >= IX_INIT_NUM_PAGES
=============================================================================
