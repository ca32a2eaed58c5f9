------------------------------- MODULE BTree --------------------------------
(***************************************************************************)
(* The B-tree of db/xsdb.c that holds the rows of a table: single-pass     *)
(* insertion that splits full nodes on the way down, single-pass deletion  *)
(* that refills depleted nodes on the way down, search and scan.           *)
(*                                                                         *)
(* A node is its sequence of entries (key and row move together) and its   *)
(* sequence of children; a leaf is a node without children.  Sequences     *)
(* replace the shifting of array slots.  A row is identified by its rowid. *)
(*                                                                         *)
(* A function of the code that calls itself on a child is here a function  *)
(* of a depth, which bounds how many levels lie below the node it gets.    *)
(***************************************************************************)
EXTENDS Integers, Sequences, SequencesExt

CONSTANTS
  Order,      \* XSDB_ORDER: a node has at most Order - 1 keys
  Keys,       \* bound: the rowids that are inserted
  None,       \* no tree, no row
  MaxMisses,  \* bound: deletions that find nothing before one does
  MaxDepth    \* bound: levels below the root

(* The nodes with at most d levels below them. *)
Tree[d \in Nat] ==
  [entries : Seq([key : Keys, row : Keys \cup {None}]),
   kids    : IF d = 0 THEN {<<>>} ELSE Seq(Tree[d - 1])]

(* A deletion that finds nothing can leave the root without a key, and then
   nothing stands between its only child and the minimum but the keys that
   child has above it. *)
ASSUME BTreeAssumption ==
  /\ Order \in Nat /\ Order >= 4 /\ Order % 2 = 0
  /\ Keys \subseteq Int
  /\ MaxMisses \in Nat /\ MaxMisses < Order \div 2
  /\ MaxDepth \in Nat
  /\ None \notin Keys /\ None \notin Tree[MaxDepth]

VARIABLES
  root,       \* tbl->btree
  content,    \* reference: the keys that should be in the tree
  misses      \* deletions that found nothing since the last one that did

vars == <<root, content, misses>>

MinKeys == (Order - 1) \div 2
MaxKeys == Order - 1

Entry(k) == [key |-> k, row |-> k]
Node(entries, kids) == [entries |-> entries, kids |-> kids]
IsLeaf(n) == n.kids = <<>>
NKeys(n) == Len(n.entries)

(* The first slot whose key is not smaller than k. *)
Slot(n, k) ==
  CHOOSE i \in 1..NKeys(n) + 1 :
    /\ \A j \in 1..i - 1 : n.entries[j].key < k
    /\ i <= NKeys(n) => n.entries[i].key >= k

Holds(n, k) == Slot(n, k) <= NKeys(n) /\ n.entries[Slot(n, k)].key = k

-----------------------------------------------------------------------------
(* Looking up and scanning. *)

Search[d \in Nat] == [n \in Tree[d] |-> [k \in Keys |->
  IF Holds(n, k) THEN n.entries[Slot(n, k)].row
  ELSE IF IsLeaf(n) THEN None
  ELSE Search[d - 1][n.kids[Slot(n, k)]][k]]]

(* What xsdb_btree_search returns. *)
Find(k) == IF root = None THEN None ELSE Search[MaxDepth][root][k]

(* The parts one after the other. *)
Chain(parts) ==
  LET upTo[i \in 0..Len(parts)] == IF i = 0 THEN <<>> ELSE upTo[i - 1] \o parts[i]
  IN  upTo[Len(parts)]

(* The entries in the order xsdb_btree_scan visits them: each behind the child
   on its left, and the last child at the end. *)
Scan[d \in Nat] == [n \in Tree[d] |->
  IF IsLeaf(n) THEN n.entries
  ELSE Chain([i \in 1..NKeys(n) |-> Append(Scan[d - 1][n.kids[i]], n.entries[i])])
         \o Scan[d - 1][n.kids[NKeys(n) + 1]]]

Rows == IF root = None THEN <<>> ELSE Scan[MaxDepth][root]

-----------------------------------------------------------------------------
(* What moves between neighbours. *)

(* The node with what is left, or right, of entry i of n. *)
Before(n, i) ==
  Node(SubSeq(n.entries, 1, i - 1), IF IsLeaf(n) THEN <<>> ELSE SubSeq(n.kids, 1, i))
After(n, i) ==
  Node(SubSeq(n.entries, i + 1, NKeys(n)),
       IF IsLeaf(n) THEN <<>> ELSE SubSeq(n.kids, i + 1, NKeys(n) + 1))

(* The node with the entries and children of l, then e, then those of r. *)
Glue(l, e, r) == Node(Append(l.entries, e) \o r.entries, l.kids \o r.kids)

(* n with another child i. *)
WithKid(n, i, c) == Node(n.entries, [n.kids EXCEPT ![i] = c])

(* p with other children l and r on the two sides of another entry i. *)
Between(p, i, l, e, r) ==
  Node([p.entries EXCEPT ![i] = e], [p.kids EXCEPT ![i] = l, ![i + 1] = r])

-----------------------------------------------------------------------------
(* Insertion. *)

(* Splits the full child i of p around its middle entry, which moves up. *)
SplitChild(p, i) ==
  LET c == p.kids[i]
      mid == MinKeys + 1
  IN  Node(InsertAt(p.entries, i, c.entries[mid]),
           InsertAt([p.kids EXCEPT ![i] = Before(c, mid)], i + 1, After(c, mid)))

InsertNonfull[d \in Nat] == [n \in Tree[d] |-> [k \in Keys |->
  LET i == Slot(n, k)
      full == NKeys(n.kids[i]) = MaxKeys
      m == IF full THEN SplitChild(n, i) ELSE n
      j == IF full /\ k > m.entries[i].key THEN i + 1 ELSE i
  IN  IF IsLeaf(n) THEN Node(InsertAt(n.entries, i, Entry(k)), <<>>)
      ELSE WithKid(m, j, InsertNonfull[d - 1][m.kids[j]][k])]]

(* Mutant: the entry always goes to the left half of a root that was split. *)
InsertIntoLeft(n, k) ==
  IF n = None THEN Node(<<Entry(k)>>, <<>>)
  ELSE IF NKeys(n) < MaxKeys THEN InsertNonfull[MaxDepth][n][k]
  ELSE LET top == SplitChild(Node(<<>>, <<n>>), 1)
       IN  WithKid(top, 1, InsertNonfull[MaxDepth][top.kids[1]][k])

(* A full root is split below a new one first; the entry then goes into a
   child of the new root, which is not full. *)
InsertInto(n, k) ==
  IF n = None THEN Node(<<Entry(k)>>, <<>>)
  ELSE IF NKeys(n) < MaxKeys THEN InsertNonfull[MaxDepth][n][k]
  ELSE LET top == SplitChild(Node(<<>>, <<n>>), 1)
           i == IF k > top.entries[1].key THEN 2 ELSE 1
       IN  WithKid(top, i, InsertNonfull[MaxDepth][top.kids[i]][k])

-----------------------------------------------------------------------------
(* Deletion. *)

(* The largest and the smallest key below n. *)
Predecessor[d \in Nat] == [n \in Tree[d] |->
  IF IsLeaf(n) THEN n.entries[NKeys(n)].key ELSE Predecessor[d - 1][n.kids[NKeys(n) + 1]]]
Successor[d \in Nat] == [n \in Tree[d] |->
  IF IsLeaf(n) THEN n.entries[1].key ELSE Successor[d - 1][n.kids[1]]]

(* Child i + 1 and the entry between join child i. *)
MergeKids(p, i) ==
  Node(RemoveAt(p.entries, i),
       RemoveAt([p.kids EXCEPT ![i] = Glue(@, p.entries[i], p.kids[i + 1])], i + 1))

(* Child i takes an entry over its parent from the sibling on its left. *)
BorrowLeft(p, i) ==
  LET l == p.kids[i - 1]
      last == NKeys(l)
  IN  Between(p, i - 1, Before(l, last), l.entries[last],
              Glue(After(l, last), p.entries[i - 1], p.kids[i]))

(* Mutant: a child borrowed with its entry is put at the wrong end. *)
BorrowRightChildFirst(p, i) ==
  LET c == p.kids[i]
      r == p.kids[i + 1]
  IN  Between(p, i, Node(Append(c.entries, p.entries[i]), Before(r, 1).kids \o c.kids),
              r.entries[1], After(r, 1))

(* ... or from the one on its right. *)
BorrowRight(p, i) ==
  LET r == p.kids[i + 1]
  IN  Between(p, i, Glue(p.kids[i], p.entries[i], Before(r, 1)), r.entries[1], After(r, 1))

(* btree_fill.  The last alternative has no sibling to merge with when p has
   no key: the array is then read at index -1. *)
Fill(p, i) ==
  IF i > 1 /\ NKeys(p.kids[i - 1]) > MinKeys THEN BorrowLeft(p, i)
  ELSE IF i <= NKeys(p) /\ NKeys(p.kids[i + 1]) > MinKeys THEN BorrowRight(p, i)
  ELSE MergeKids(p, IF i <= NKeys(p) THEN i ELSE i - 1)

(* The node without k; a node that does not hold k may be rearranged. *)
DeleteFrom[d \in Nat] == [n \in Tree[d] |-> [k \in Keys |->
  LET i == Slot(n, k)
      l == n.kids[i]
      r == n.kids[i + 1]
      pred == Predecessor[d - 1][l]
      succ == Successor[d - 1][r]
      filled == IF NKeys(l) <= MinKeys THEN Fill(n, i) ELSE n
      merged == MergeKids(n, i)
      j == IF i > NKeys(filled) + 1 THEN i - 1 ELSE i
      copy(sub, by) == [key |-> by, row |-> Search[d - 1][sub][by]]
  IN  IF IsLeaf(n) THEN
        IF Holds(n, k) THEN Node(RemoveAt(n.entries, i), <<>>) ELSE n
      ELSE IF ~Holds(n, k) THEN
        WithKid(filled, j, DeleteFrom[d - 1][filled.kids[j]][k])
      ELSE IF NKeys(l) > MinKeys THEN
        Between(n, i, DeleteFrom[d - 1][l][pred], copy(l, pred), r)
      ELSE IF NKeys(r) > MinKeys THEN
        Between(n, i, l, copy(r, succ), DeleteFrom[d - 1][r][succ])
      ELSE
        WithKid(merged, i, DeleteFrom[d - 1][merged.kids[i]][k])]]

(* Mutant: only an empty leaf is taken off the top. *)
ShrinkLeafOnly(n) == IF NKeys(n) = 0 /\ IsLeaf(n) THEN None ELSE n

(* xsdb_btree_delete takes an empty root off the top, if it found the key. *)
Shrink(n) ==
  IF NKeys(n) > 0 THEN n ELSE IF IsLeaf(n) THEN None ELSE n.kids[1]

-----------------------------------------------------------------------------
Init ==
  /\ root = None
  /\ content = {}
  /\ misses = 0

Insert(k) ==
  /\ root' = IF Find(k) # None THEN root ELSE InsertInto(root, k)
  /\ root' \in Tree[MaxDepth]
  /\ content' = content \cup {k}
  /\ misses' = IF root = None THEN 0 ELSE misses

(* The engine deletes rowids that a scan has just returned; the header offers
   the function to everybody. *)
Delete(k) ==
  LET found == Find(k) # None
      rest == DeleteFrom[MaxDepth][root][k]
  IN  /\ found \/ misses < MaxMisses
      /\ root' = IF root = None THEN None ELSE IF found THEN Shrink(rest) ELSE rest
      /\ content' = content \ {k}
      /\ misses' = IF found \/ root = None THEN 0 ELSE misses + 1

Next == \E k \in Keys : Insert(k) \/ Delete(k)

Spec == Init /\ [][Next]_vars

-----------------------------------------------------------------------------
(* Properties. *)

(* There is a tree exactly when there are rows. *)
TypeOK ==
  /\ root \in Tree[MaxDepth] \cup {None}
  /\ content \subseteq Keys
  /\ misses \in 0..MaxMisses
  /\ (root = None) = (content = {})

(* A scan returns the rows of the table, each once and in rowid order, the row
   copies that replace deleted inner entries included; row_count and the order
   check of xsdb_integrity_check rest on it. *)
ScanIsContent ==
  /\ ToSet(Rows) = {Entry(k) : k \in content}
  /\ \A i \in 1..Len(Rows) - 1 : Rows[i].key < Rows[i + 1].key

(* xsdb_btree_search finds every row that is there, and no other. *)
SearchFinds == \A k \in Keys : Find(k) = IF k \in content THEN k ELSE None

(* Below n all leaves are d levels down, a node that is not one has a child
   more than keys, and no node is over full or, n itself apart, depleted. *)
Shaped[d \in Nat] == [n \in Tree[d] |->
  /\ NKeys(n) <= MaxKeys
  /\ IsLeaf(n) = (d = 0)
  /\ ~IsLeaf(n) =>
       /\ Len(n.kids) = NKeys(n) + 1
       /\ \A i \in 1..Len(n.kids) : NKeys(n.kids[i]) >= MinKeys /\ Shaped[d - 1][n.kids[i]]]

(* The tree stays a B-tree: all leaves at one depth, no node over full, none
   but the root below the minimum, and the root without keys at most while
   deletions keep missing. *)
Balanced ==
  /\ TypeOK
  /\ root # None =>
       /\ \E d \in 0..MaxDepth : root \in Tree[d] /\ Shaped[d][root]
       /\ NKeys(root) = 0 => misses > 0
=============================================================================
