---------------------------- MODULE BTreeProofs -----------------------------
(***************************************************************************)
(* The B-tree stays one, and holds the rows it should.                     *)
(*                                                                         *)
(* The functions of BTree are recursive on the number of levels.  That     *)
(* their equations hold at every depth is proved first; what each of them  *)
(* does then follows by induction on the depth from what it does to one    *)
(* node, given what it does to the children.  A tree is sound when its     *)
(* keys are in order and its nodes neither over full nor depleted; the     *)
(* invariant says that the root is sound, has the keys of the table, and   *)
(* may only be without a key of its own while deletions miss.              *)
(***************************************************************************)
EXTENDS BTree, SequenceTheorems, WellFoundedInduction, NaturalsInduction, TLAPS

(* What the assumptions say about the numbers in use. *)
LEMMA Bounds ==
  /\ MinKeys \in Nat /\ MinKeys >= 1
  /\ MaxKeys \in Nat /\ MaxKeys = 2 * MinKeys + 1
  /\ MaxMisses \in Nat /\ MaxMisses <= MinKeys
  /\ MaxDepth \in Nat
  /\ Keys \subseteq Int /\ None \notin Keys
<1>1. /\ Order \in Nat /\ Order >= 4 /\ Order % 2 = 0
      /\ MaxMisses \in Nat /\ MaxMisses < Order \div 2
  BY BTreeAssumption
<1>2. PICK h \in Nat : Order = 2 * h
  <2>1. Order = (2 * (Order \div 2)) + (Order % 2) /\ Order \div 2 \in Nat
    BY <1>1
  <2> QED
    BY <1>1, <2>1
<1>3. MinKeys = h - 1 /\ Order \div 2 = h
  BY <1>1, <1>2 DEF MinKeys
<1> QED
  BY <1>1, <1>2, <1>3, BTreeAssumption DEF MaxKeys

(* Induction over the naturals for a set, from the well-foundedness of their
   order. *)
LEMMA Induct ==
  ASSUME NEW S, 0 \in S, \A n \in Nat : n \in S => n + 1 \in S
  PROVE  Nat \subseteq S
<1> SUFFICES ASSUME Nat \ S # {} PROVE FALSE
  OBVIOUS
<1>1. PICK x \in Nat \ S : \A y \in Nat \ S : ~(<<y, x>> \in OpToRel(<, Nat))
  <2>1. Nat \ S \subseteq Nat
    OBVIOUS
  <2> QED
    BY <2>1, NatLessThanWellFounded, WFMin, Zenon
<1>2. x \in Nat /\ x - 1 \in Nat /\ x \notin S
  <2>1. x \in Nat /\ x \notin S /\ x # 0
    BY <1>1, Zenon
  <2> QED
    BY <2>1
<1>3. <<x - 1, x>> \in OpToRel(<, Nat)
  BY <1>2 DEF OpToRel
<1>4. x - 1 \in S
  BY <1>1, <1>2, <1>3, Zenon
<1>5. (x - 1) + 1 \in S
  BY <1>2, <1>4
<1> QED
  BY <1>2, <1>5

-----------------------------------------------------------------------------
(* What a sound tree is. *)

(* The rows of a table: the row of an entry is the one with its key. *)
EntrySet == {Entry(k) : k \in Keys}

Own(n) == {n.entries[i].key : i \in 1..NKeys(n)}

(* The keys in a tree. *)
KeysOf[d \in Nat] == [n \in Tree[d] |->
  Own(n) \cup UNION {KeysOf[d - 1][n.kids[i]] : i \in 1..Len(n.kids)}]

Ordered(n) ==
  \A i, j \in 1..NKeys(n) : i < j => n.entries[i].key < n.entries[j].key

(* The keys X fit into child i of n. *)
Fits(n, i, X) ==
  \A x \in X : /\ i > 1 => n.entries[i - 1].key < x
               /\ i <= NKeys(n) => x < n.entries[i].key

(* The search trees with d levels below their root. *)
Sound[d \in Nat] ==
  {n \in [entries : Seq(EntrySet), kids : IF d = 0 THEN {<<>>} ELSE Seq(Sound[d - 1])] :
     /\ NKeys(n) <= MaxKeys
     /\ Ordered(n)
     /\ d > 0 => /\ Len(n.kids) = NKeys(n) + 1
                 /\ \A i \in 1..NKeys(n) + 1 :
                      /\ NKeys(n.kids[i]) >= MinKeys
                      /\ Fits(n, i, KeysOf[d - 1][n.kids[i]])}

-----------------------------------------------------------------------------
(***************************************************************************)
(* Recursive definitions.  A definition f[d \in Nat] == Step(d, f[d - 1])  *)
(* stands for some function with that property; that there is one is shown *)
(* here, for Tree alone and for all the functions on trees together, whose *)
(* values at one depth are the fields of a record.  x is the value of the  *)
(* function one level down.                                                *)
(***************************************************************************)
TreeStep(d, x) ==
  [entries : Seq([key : Keys, row : Keys \cup {None}]),
   kids    : IF d = 0 THEN {<<>>} ELSE Seq(x)]

(* The equation of Tree. *)
LEMMA TreeUnfold == \A d \in Nat : Tree[d] = TreeStep(d, Tree[d - 1])
<1> DEFINE E(d, x) == TreeStep(d, x)
           Ap(n, g) == g = [i \in 0..n |-> E(i, g[i - 1])]
<1>1. \A x, y : E(0, x) = E(0, y)
  BY DEF TreeStep
<1>2. Tree = CHOOSE f : f = [d \in Nat |-> E(d, f[d - 1])]
  BY Zenon DEF Tree, TreeStep
<1> HIDE DEF E
<1>3. SUFFICES \E f : f = [d \in Nat |-> E(d, f[d - 1])]
  <2>1. SUFFICES Tree = [d \in Nat |-> E(d, Tree[d - 1])]
    BY DEF E
  <2> QED
    BY <1>2, <1>3, Zenon
<1>4. \A n \in Nat : \E g : Ap(n, g)
  <2> DEFINE S == {n \in Nat : \E g : Ap(n, g)}
  <2>1. 0 \in S
    <3>1. Ap(0, [i \in 0..0 |-> E(0, 0)])
      BY <1>1
    <3> QED
      BY <3>1
  <2>2. ASSUME NEW n \in Nat, n \in S PROVE n + 1 \in S
    <3>1. PICK g : Ap(n, g)
      BY <2>2
    <3> DEFINE h == [i \in 0..n + 1 |-> IF i <= n THEN g[i] ELSE E(n + 1, g[n])]
    <3>2. ASSUME NEW i \in 0..n + 1 PROVE h[i] = E(i, h[i - 1])
      <4>1. CASE i = 0
        <5>1. h[i] = E(0, g[0 - 1])
          BY <3>1, <4>1
        <5> QED
          BY <5>1, <4>1, <1>1
      <4>2. CASE i \in 1..n
        BY <3>1, <4>2
      <4>3. CASE i = n + 1
        BY <4>3
      <4> QED
        BY <4>1, <4>2, <4>3
    <3>3. Ap(n + 1, h)
      BY <3>2
    <3> HIDE DEF Ap, h
    <3>4. n + 1 \in Nat /\ \E x : Ap(n + 1, x)
      BY <3>3
    <3> QED
      BY <3>4
  <2> HIDE DEF S
  <2>3. Nat \subseteq S
    BY <2>1, <2>2, Induct
  <2> QED
    BY <2>3 DEF S
<1>5. ASSUME NEW n \in Nat, NEW m \in Nat, NEW g, NEW h, Ap(n, g), Ap(m, h)
      PROVE  \A i \in Nat : i <= n /\ i <= m => g[i] = h[i]
  <2> DEFINE S == {i \in Nat : i <= n /\ i <= m => g[i] = h[i]}
  <2>1. 0 \in S
    BY <1>1, <1>5
  <2>2. ASSUME NEW i \in Nat, i \in S PROVE i + 1 \in S
    BY <1>5, <2>2
  <2> HIDE DEF S
  <2>3. Nat \subseteq S
    BY <2>1, <2>2, Induct
  <2> QED
    BY <2>3 DEF S
<1> DEFINE G(n) == CHOOSE g : Ap(n, g)
<1>6. \A n \in Nat : Ap(n, G(n))
  BY <1>4, Zenon
<1> HIDE DEF G
<1>7. ASSUME NEW d \in Nat PROVE G(d)[d] = E(d, G(d - 1)[d - 1])
  <2>1. G(d)[d] = E(d, G(d)[d - 1])
    BY <1>6
  <2>2. CASE d = 0
    BY <2>1, <2>2, <1>1
  <2>3. CASE d # 0
    <3>1. G(d)[d - 1] = G(d - 1)[d - 1]
      <4>1. d - 1 \in Nat /\ d - 1 <= d
        BY <2>3
      <4> HIDE DEF Ap
      <4> QED
        BY <4>1, <1>5, <1>6
    <3> QED
      BY <2>1, <3>1
  <2> QED
    BY <2>2, <2>3
<1> DEFINE H == [n \in Nat |-> G(n)[n]]
<1>8. \A d \in Nat : H[d] = E(d, H[d - 1])
  <2> TAKE d \in Nat
  <2>1. CASE d = 0
    BY <1>7, <1>1, <2>1
  <2>2. CASE d # 0
    BY <1>7, <2>2
  <2> QED
    BY <2>1, <2>2
<1>9. H = [d \in Nat |-> E(d, H[d - 1])]
  BY <1>8
<1> QED
  BY <1>9

SearchStep(d, x) == [n \in Tree[d] |-> [k \in Keys |->
  IF Holds(n, k) THEN n.entries[Slot(n, k)].row
  ELSE IF IsLeaf(n) THEN None
  ELSE x[n.kids[Slot(n, k)]][k]]]

ScanStep(d, x) == [n \in Tree[d] |->
  IF IsLeaf(n) THEN n.entries
  ELSE Chain([i \in 1..NKeys(n) |-> Append(x[n.kids[i]], n.entries[i])])
         \o x[n.kids[NKeys(n) + 1]]]

PutAt(x, n, k) ==
  LET i == Slot(n, k)
      full == NKeys(n.kids[i]) = MaxKeys
      m == IF full THEN SplitChild(n, i) ELSE n
      j == IF full /\ k > m.entries[i].key THEN i + 1 ELSE i
  IN  IF IsLeaf(n) THEN Node(InsertAt(n.entries, i, Entry(k)), <<>>)
      ELSE WithKid(m, j, x[m.kids[j]][k])

InsertNonfullStep(d, x) == [n \in Tree[d] |-> [k \in Keys |-> PutAt(x, n, k)]]

PredecessorStep(d, x) == [n \in Tree[d] |->
  IF IsLeaf(n) THEN n.entries[NKeys(n)].key ELSE x[n.kids[NKeys(n) + 1]]]

SuccessorStep(d, x) == [n \in Tree[d] |->
  IF IsLeaf(n) THEN n.entries[1].key ELSE x[n.kids[1]]]

DeleteAt(d, x, n, k) ==
  LET i == Slot(n, k)
      l == n.kids[i]
      r == n.kids[i + 1]
      pred == Predecessor[d - 1][l]
      succ == Successor[d - 1][r]
      filled == IF NKeys(l) <= MinKeys THEN Fill(n, i) ELSE n
      merged == MergeKids(n, i)
      j == IF i > NKeys(filled) + 1 THEN i - 1 ELSE i
      copy(sub, by) == [key |-> by, row |-> Search[d - 1][sub][by]]
  IN  IF IsLeaf(n) THEN
        IF Holds(n, k) THEN Node(RemoveAt(n.entries, i), <<>>) ELSE n
      ELSE IF ~Holds(n, k) THEN
        WithKid(filled, j, x[filled.kids[j]][k])
      ELSE IF NKeys(l) > MinKeys THEN
        Between(n, i, x[l][pred], copy(l, pred), r)
      ELSE IF NKeys(r) > MinKeys THEN
        Between(n, i, l, copy(r, succ), x[r][succ])
      ELSE
        WithKid(merged, i, x[merged.kids[i]][k])

DeleteFromStep(d, x) == [n \in Tree[d] |-> [k \in Keys |-> DeleteAt(d, x, n, k)]]

ShapedStep(d, x) == [n \in Tree[d] |->
  /\ NKeys(n) <= MaxKeys
  /\ IsLeaf(n) = (d = 0)
  /\ ~IsLeaf(n) =>
       /\ Len(n.kids) = NKeys(n) + 1
       /\ \A i \in 1..Len(n.kids) : NKeys(n.kids[i]) >= MinKeys /\ x[n.kids[i]]]

KeysOfStep(d, x) == [n \in Tree[d] |->
  Own(n) \cup UNION {x[n.kids[i]] : i \in 1..Len(n.kids)}]

SoundStep(d, x) ==
  {n \in [entries : Seq(EntrySet), kids : IF d = 0 THEN {<<>>} ELSE Seq(x)] :
     /\ NKeys(n) <= MaxKeys
     /\ Ordered(n)
     /\ d > 0 => /\ Len(n.kids) = NKeys(n) + 1
                 /\ \A i \in 1..NKeys(n) + 1 :
                      /\ NKeys(n.kids[i]) >= MinKeys
                      /\ Fits(n, i, KeysOf[d - 1][n.kids[i]])}

(* At depth 0 there are only leaves: what lies below is not looked at. *)
LEMMA LeafTree == \A n \in Tree[0] : IsLeaf(n) /\ n.kids = <<>> /\ Len(n.kids) = 0
<1>1. Tree[0] = [entries : Seq([key : Keys, row : Keys \cup {None}]), kids : {<<>>}]
  BY TreeUnfold DEF TreeStep
<1> QED
  BY <1>1 DEF IsLeaf

(* At depth 0 no step depends on what lies below. *)
LEMMA SearchBase == \A x, y : SearchStep(0, x) = SearchStep(0, y)
BY LeafTree DEF SearchStep

LEMMA ScanBase == \A x, y : ScanStep(0, x) = ScanStep(0, y)
BY LeafTree DEF ScanStep

LEMMA InsertNonfullBase == \A x, y : InsertNonfullStep(0, x) = InsertNonfullStep(0, y)
BY LeafTree DEF InsertNonfullStep, PutAt

LEMMA PredecessorBase == \A x, y : PredecessorStep(0, x) = PredecessorStep(0, y)
BY LeafTree DEF PredecessorStep

LEMMA SuccessorBase == \A x, y : SuccessorStep(0, x) = SuccessorStep(0, y)
BY LeafTree DEF SuccessorStep

(* A deletion that has reached a leaf. *)
LEMMA DeleteAtLeaf ==
  ASSUME NEW d, NEW x, NEW n, NEW k, IsLeaf(n)
  PROVE  DeleteAt(d, x, n, k) =
           IF Holds(n, k) THEN Node(RemoveAt(n.entries, Slot(n, k)), <<>>) ELSE n
BY Zenon DEF DeleteAt

LEMMA DeleteFromBase == \A x, y : DeleteFromStep(0, x) = DeleteFromStep(0, y)
<1>1. \A x, y : \A n \in Tree[0] : \A k \in Keys : DeleteAt(0, x, n, k) = DeleteAt(0, y, n, k)
  BY LeafTree, DeleteAtLeaf
<1> QED
  BY <1>1 DEF DeleteFromStep

LEMMA ShapedBase == \A x, y : ShapedStep(0, x) = ShapedStep(0, y)
BY LeafTree DEF ShapedStep

LEMMA KeysOfBase == \A x, y : KeysOfStep(0, x) = KeysOfStep(0, y)
BY LeafTree DEF KeysOfStep

LEMMA SoundBase == \A x, y : SoundStep(0, x) = SoundStep(0, y)
BY LeafTree DEF SoundStep

AllStep(d, x) ==
  [search |-> SearchStep(d, x.search),
   scan |-> ScanStep(d, x.scan),
   insert |-> InsertNonfullStep(d, x.insert),
   pred |-> PredecessorStep(d, x.pred),
   succ |-> SuccessorStep(d, x.succ),
   delete |-> DeleteFromStep(d, x.delete),
   shaped |-> ShapedStep(d, x.shaped),
   keys |-> KeysOfStep(d, x.keys),
   sound |-> SoundStep(d, x.sound)]

(* The fields of the record, and that its step depends on nothing at depth 0. *)
LEMMA AllFields == \A d, x :
  /\ AllStep(d, x).search = SearchStep(d, x.search)
  /\ AllStep(d, x).scan = ScanStep(d, x.scan)
  /\ AllStep(d, x).insert = InsertNonfullStep(d, x.insert)
  /\ AllStep(d, x).pred = PredecessorStep(d, x.pred)
  /\ AllStep(d, x).succ = SuccessorStep(d, x.succ)
  /\ AllStep(d, x).delete = DeleteFromStep(d, x.delete)
  /\ AllStep(d, x).shaped = ShapedStep(d, x.shaped)
  /\ AllStep(d, x).keys = KeysOfStep(d, x.keys)
  /\ AllStep(d, x).sound = SoundStep(d, x.sound)
BY DEF AllStep

LEMMA AllBase == \A x, y : AllStep(0, x) = AllStep(0, y)
BY SearchBase, ScanBase, InsertNonfullBase, PredecessorBase, SuccessorBase, DeleteFromBase,
   ShapedBase, KeysOfBase, SoundBase, Zenon DEF AllStep

(* There is a function of the depth with all the values: its restrictions to
   0..n exist and agree. *)
LEMMA AllExists == \E f : f = [d \in Nat |-> AllStep(d, f[d - 1])]
<1> DEFINE E(d, x) == AllStep(d, x)
           Ap(n, g) == g = [i \in 0..n |-> E(i, g[i - 1])]
<1>1. \A x, y : E(0, x) = E(0, y)
  BY AllBase, Zenon
<1>3. SUFFICES \E f : f = [d \in Nat |-> E(d, f[d - 1])]
  BY Zenon
<1> HIDE DEF E
<1>4. \A n \in Nat : \E g : Ap(n, g)
  <2> DEFINE S == {n \in Nat : \E g : Ap(n, g)}
  <2>1. 0 \in S
    <3>1. Ap(0, [i \in 0..0 |-> E(0, 0)])
      BY <1>1
    <3> QED
      BY <3>1
  <2>2. ASSUME NEW n \in Nat, n \in S PROVE n + 1 \in S
    <3>1. PICK g : Ap(n, g)
      BY <2>2
    <3> DEFINE h == [i \in 0..n + 1 |-> IF i <= n THEN g[i] ELSE E(n + 1, g[n])]
    <3>2. ASSUME NEW i \in 0..n + 1 PROVE h[i] = E(i, h[i - 1])
      <4>1. CASE i = 0
        <5>1. h[i] = E(0, g[0 - 1])
          BY <3>1, <4>1
        <5> QED
          BY <5>1, <4>1, <1>1
      <4>2. CASE i \in 1..n
        BY <3>1, <4>2
      <4>3. CASE i = n + 1
        BY <4>3
      <4> QED
        BY <4>1, <4>2, <4>3
    <3>3. Ap(n + 1, h)
      BY <3>2
    <3> HIDE DEF Ap, h
    <3>4. n + 1 \in Nat /\ \E x : Ap(n + 1, x)
      BY <3>3
    <3> QED
      BY <3>4
  <2> HIDE DEF S
  <2>3. Nat \subseteq S
    BY <2>1, <2>2, Induct
  <2> QED
    BY <2>3 DEF S
<1>5. ASSUME NEW n \in Nat, NEW m \in Nat, NEW g, NEW h, Ap(n, g), Ap(m, h)
      PROVE  \A i \in Nat : i <= n /\ i <= m => g[i] = h[i]
  <2> DEFINE S == {i \in Nat : i <= n /\ i <= m => g[i] = h[i]}
  <2>1. 0 \in S
    BY <1>1, <1>5
  <2>2. ASSUME NEW i \in Nat, i \in S PROVE i + 1 \in S
    BY <1>5, <2>2
  <2> HIDE DEF S
  <2>3. Nat \subseteq S
    BY <2>1, <2>2, Induct
  <2> QED
    BY <2>3 DEF S
<1> DEFINE G(n) == CHOOSE g : Ap(n, g)
<1>6. \A n \in Nat : Ap(n, G(n))
  BY <1>4, Zenon
<1> HIDE DEF G
<1>7. ASSUME NEW d \in Nat PROVE G(d)[d] = E(d, G(d - 1)[d - 1])
  <2>1. G(d)[d] = E(d, G(d)[d - 1])
    BY <1>6
  <2>2. CASE d = 0
    BY <2>1, <2>2, <1>1
  <2>3. CASE d # 0
    <3>1. G(d)[d - 1] = G(d - 1)[d - 1]
      <4>1. d - 1 \in Nat /\ d - 1 <= d
        BY <2>3
      <4> HIDE DEF Ap
      <4> QED
        BY <4>1, <1>5, <1>6
    <3> QED
      BY <2>1, <3>1
  <2> QED
    BY <2>2, <2>3
<1> DEFINE H == [n \in Nat |-> G(n)[n]]
<1>8. \A d \in Nat : H[d] = E(d, H[d - 1])
  <2> TAKE d \in Nat
  <2>1. CASE d = 0
    BY <1>7, <1>1, <2>1
  <2>2. CASE d # 0
    BY <1>7, <2>2
  <2> QED
    BY <2>1, <2>2
<1>9. H = [d \in Nat |-> E(d, H[d - 1])]
  BY <1>8
<1> QED
  BY <1>9

(* Each definition satisfies its equation: the field of the common function is
   a witness. *)
LEMMA SearchUnfold == \A d \in Nat : Search[d] = SearchStep(d, Search[d - 1])
<1>1. Search = CHOOSE f : f = [d \in Nat |-> SearchStep(d, f[d - 1])]
  BY Zenon DEF Search, SearchStep
<1>2. PICK all : all = [d \in Nat |-> AllStep(d, all[d - 1])]
  BY AllExists, Zenon
<1> DEFINE g == [d \in Nat |-> all[d].search]
<1>3. ASSUME NEW d \in Nat PROVE g[d] = SearchStep(d, g[d - 1])
  <2>1. g[d] = SearchStep(d, all[d - 1].search)
    BY <1>2, AllFields
  <2>2. CASE d = 0
    BY <2>1, <2>2, SearchBase
  <2>3. CASE d # 0
    BY <2>1, <2>3
  <2> QED
    BY <2>2, <2>3
<1> HIDE DEF g
<1>4. g = [d \in Nat |-> SearchStep(d, g[d - 1])]
  <2>1. g = [d \in Nat |-> g[d]]
    BY DEF g
  <2> QED
    BY <1>3, <2>1
<1>5. Search = [d \in Nat |-> SearchStep(d, Search[d - 1])]
  BY <1>1, <1>4, Zenon
<1> QED
  BY <1>5

LEMMA ScanUnfold == \A d \in Nat : Scan[d] = ScanStep(d, Scan[d - 1])
<1>1. Scan = CHOOSE f : f = [d \in Nat |-> ScanStep(d, f[d - 1])]
  BY Zenon DEF Scan, ScanStep
<1>2. PICK all : all = [d \in Nat |-> AllStep(d, all[d - 1])]
  BY AllExists, Zenon
<1> DEFINE g == [d \in Nat |-> all[d].scan]
<1>3. ASSUME NEW d \in Nat PROVE g[d] = ScanStep(d, g[d - 1])
  <2>1. g[d] = ScanStep(d, all[d - 1].scan)
    BY <1>2, AllFields
  <2>2. CASE d = 0
    BY <2>1, <2>2, ScanBase
  <2>3. CASE d # 0
    BY <2>1, <2>3
  <2> QED
    BY <2>2, <2>3
<1> HIDE DEF g
<1>4. g = [d \in Nat |-> ScanStep(d, g[d - 1])]
  <2>1. g = [d \in Nat |-> g[d]]
    BY DEF g
  <2> QED
    BY <1>3, <2>1
<1>5. Scan = [d \in Nat |-> ScanStep(d, Scan[d - 1])]
  BY <1>1, <1>4, Zenon
<1> QED
  BY <1>5

LEMMA InsertNonfullUnfold ==
  \A d \in Nat : InsertNonfull[d] = InsertNonfullStep(d, InsertNonfull[d - 1])
<1>1. InsertNonfull = CHOOSE f : f = [d \in Nat |-> InsertNonfullStep(d, f[d - 1])]
  BY Zenon DEF InsertNonfull, InsertNonfullStep, PutAt
<1>2. PICK all : all = [d \in Nat |-> AllStep(d, all[d - 1])]
  BY AllExists, Zenon
<1> DEFINE g == [d \in Nat |-> all[d].insert]
<1>3. ASSUME NEW d \in Nat PROVE g[d] = InsertNonfullStep(d, g[d - 1])
  <2>1. g[d] = InsertNonfullStep(d, all[d - 1].insert)
    BY <1>2, AllFields
  <2>2. CASE d = 0
    BY <2>1, <2>2, InsertNonfullBase
  <2>3. CASE d # 0
    BY <2>1, <2>3
  <2> QED
    BY <2>2, <2>3
<1> HIDE DEF g
<1>4. g = [d \in Nat |-> InsertNonfullStep(d, g[d - 1])]
  <2>1. g = [d \in Nat |-> g[d]]
    BY DEF g
  <2> QED
    BY <1>3, <2>1
<1>5. InsertNonfull = [d \in Nat |-> InsertNonfullStep(d, InsertNonfull[d - 1])]
  BY <1>1, <1>4, Zenon
<1> QED
  BY <1>5

LEMMA PredecessorUnfold == \A d \in Nat : Predecessor[d] = PredecessorStep(d, Predecessor[d - 1])
<1>1. Predecessor = CHOOSE f : f = [d \in Nat |-> PredecessorStep(d, f[d - 1])]
  BY Zenon DEF Predecessor, PredecessorStep
<1>2. PICK all : all = [d \in Nat |-> AllStep(d, all[d - 1])]
  BY AllExists, Zenon
<1> DEFINE g == [d \in Nat |-> all[d].pred]
<1>3. ASSUME NEW d \in Nat PROVE g[d] = PredecessorStep(d, g[d - 1])
  <2>1. g[d] = PredecessorStep(d, all[d - 1].pred)
    BY <1>2, AllFields
  <2>2. CASE d = 0
    BY <2>1, <2>2, PredecessorBase
  <2>3. CASE d # 0
    BY <2>1, <2>3
  <2> QED
    BY <2>2, <2>3
<1> HIDE DEF g
<1>4. g = [d \in Nat |-> PredecessorStep(d, g[d - 1])]
  <2>1. g = [d \in Nat |-> g[d]]
    BY DEF g
  <2> QED
    BY <1>3, <2>1
<1>5. Predecessor = [d \in Nat |-> PredecessorStep(d, Predecessor[d - 1])]
  BY <1>1, <1>4, Zenon
<1> QED
  BY <1>5

LEMMA SuccessorUnfold == \A d \in Nat : Successor[d] = SuccessorStep(d, Successor[d - 1])
<1>1. Successor = CHOOSE f : f = [d \in Nat |-> SuccessorStep(d, f[d - 1])]
  BY Zenon DEF Successor, SuccessorStep
<1>2. PICK all : all = [d \in Nat |-> AllStep(d, all[d - 1])]
  BY AllExists, Zenon
<1> DEFINE g == [d \in Nat |-> all[d].succ]
<1>3. ASSUME NEW d \in Nat PROVE g[d] = SuccessorStep(d, g[d - 1])
  <2>1. g[d] = SuccessorStep(d, all[d - 1].succ)
    BY <1>2, AllFields
  <2>2. CASE d = 0
    BY <2>1, <2>2, SuccessorBase
  <2>3. CASE d # 0
    BY <2>1, <2>3
  <2> QED
    BY <2>2, <2>3
<1> HIDE DEF g
<1>4. g = [d \in Nat |-> SuccessorStep(d, g[d - 1])]
  <2>1. g = [d \in Nat |-> g[d]]
    BY DEF g
  <2> QED
    BY <1>3, <2>1
<1>5. Successor = [d \in Nat |-> SuccessorStep(d, Successor[d - 1])]
  BY <1>1, <1>4, Zenon
<1> QED
  BY <1>5

LEMMA DeleteFromUnfold == \A d \in Nat : DeleteFrom[d] = DeleteFromStep(d, DeleteFrom[d - 1])
<1>1. DeleteFrom = CHOOSE f : f = [d \in Nat |-> DeleteFromStep(d, f[d - 1])]
  BY Zenon DEF DeleteFrom, DeleteFromStep, DeleteAt
<1>2. PICK all : all = [d \in Nat |-> AllStep(d, all[d - 1])]
  BY AllExists, Zenon
<1> DEFINE g == [d \in Nat |-> all[d].delete]
<1>3. ASSUME NEW d \in Nat PROVE g[d] = DeleteFromStep(d, g[d - 1])
  <2>1. g[d] = DeleteFromStep(d, all[d - 1].delete)
    BY <1>2, AllFields
  <2>2. CASE d = 0
    BY <2>1, <2>2, DeleteFromBase
  <2>3. CASE d # 0
    BY <2>1, <2>3
  <2> QED
    BY <2>2, <2>3
<1> HIDE DEF g
<1>4. g = [d \in Nat |-> DeleteFromStep(d, g[d - 1])]
  <2>1. g = [d \in Nat |-> g[d]]
    BY DEF g
  <2> QED
    BY <1>3, <2>1
<1>5. DeleteFrom = [d \in Nat |-> DeleteFromStep(d, DeleteFrom[d - 1])]
  BY <1>1, <1>4, Zenon
<1> QED
  BY <1>5

LEMMA ShapedUnfold == \A d \in Nat : Shaped[d] = ShapedStep(d, Shaped[d - 1])
<1>1. Shaped = CHOOSE f : f = [d \in Nat |-> ShapedStep(d, f[d - 1])]
  BY Zenon DEF Shaped, ShapedStep
<1>2. PICK all : all = [d \in Nat |-> AllStep(d, all[d - 1])]
  BY AllExists, Zenon
<1> DEFINE g == [d \in Nat |-> all[d].shaped]
<1>3. ASSUME NEW d \in Nat PROVE g[d] = ShapedStep(d, g[d - 1])
  <2>1. g[d] = ShapedStep(d, all[d - 1].shaped)
    BY <1>2, AllFields
  <2>2. CASE d = 0
    BY <2>1, <2>2, ShapedBase
  <2>3. CASE d # 0
    BY <2>1, <2>3
  <2> QED
    BY <2>2, <2>3
<1> HIDE DEF g
<1>4. g = [d \in Nat |-> ShapedStep(d, g[d - 1])]
  <2>1. g = [d \in Nat |-> g[d]]
    BY DEF g
  <2> QED
    BY <1>3, <2>1
<1>5. Shaped = [d \in Nat |-> ShapedStep(d, Shaped[d - 1])]
  BY <1>1, <1>4, Zenon
<1> QED
  BY <1>5

LEMMA KeysOfUnfold == \A d \in Nat : KeysOf[d] = KeysOfStep(d, KeysOf[d - 1])
<1>1. KeysOf = CHOOSE f : f = [d \in Nat |-> KeysOfStep(d, f[d - 1])]
  BY Zenon DEF KeysOf, KeysOfStep
<1>2. PICK all : all = [d \in Nat |-> AllStep(d, all[d - 1])]
  BY AllExists, Zenon
<1> DEFINE g == [d \in Nat |-> all[d].keys]
<1>3. ASSUME NEW d \in Nat PROVE g[d] = KeysOfStep(d, g[d - 1])
  <2>1. g[d] = KeysOfStep(d, all[d - 1].keys)
    BY <1>2, AllFields
  <2>2. CASE d = 0
    BY <2>1, <2>2, KeysOfBase
  <2>3. CASE d # 0
    BY <2>1, <2>3
  <2> QED
    BY <2>2, <2>3
<1> HIDE DEF g
<1>4. g = [d \in Nat |-> KeysOfStep(d, g[d - 1])]
  <2>1. g = [d \in Nat |-> g[d]]
    BY DEF g
  <2> QED
    BY <1>3, <2>1
<1>5. KeysOf = [d \in Nat |-> KeysOfStep(d, KeysOf[d - 1])]
  BY <1>1, <1>4, Zenon
<1> QED
  BY <1>5

LEMMA SoundUnfold == \A d \in Nat : Sound[d] = SoundStep(d, Sound[d - 1])
<1>1. Sound = CHOOSE f : f = [d \in Nat |-> SoundStep(d, f[d - 1])]
  BY Zenon DEF Sound, SoundStep
<1>2. PICK all : all = [d \in Nat |-> AllStep(d, all[d - 1])]
  BY AllExists, Zenon
<1> DEFINE g == [d \in Nat |-> all[d].sound]
<1>3. ASSUME NEW d \in Nat PROVE g[d] = SoundStep(d, g[d - 1])
  <2>1. g[d] = SoundStep(d, all[d - 1].sound)
    BY <1>2, AllFields
  <2>2. CASE d = 0
    BY <2>1, <2>2, SoundBase
  <2>3. CASE d # 0
    BY <2>1, <2>3
  <2> QED
    BY <2>2, <2>3
<1> HIDE DEF g
<1>4. g = [d \in Nat |-> SoundStep(d, g[d - 1])]
  <2>1. g = [d \in Nat |-> g[d]]
    BY DEF g
  <2> QED
    BY <1>3, <2>1
<1>5. Sound = [d \in Nat |-> SoundStep(d, Sound[d - 1])]
  BY <1>1, <1>4, Zenon
<1> QED
  BY <1>5

-----------------------------------------------------------------------------
(* Sequences. *)

(* The elements of a sequence after one was put in, taken out, or two were
   joined around one. *)
LEMMA InsertAtSeq ==
  ASSUME NEW S, NEW s \in Seq(S), NEW i \in 1..Len(s) + 1, NEW e \in S
  PROVE  /\ InsertAt(s, i, e) \in Seq(S)
         /\ Len(InsertAt(s, i, e)) = Len(s) + 1
         /\ \A j \in 1..Len(s) + 1 :
              InsertAt(s, i, e)[j] = IF j < i THEN s[j] ELSE IF j = i THEN e ELSE s[j - 1]
<1> DEFINE a == SubSeq(s, 1, i - 1)
           b == SubSeq(s, i, Len(s))
<1>1. Len(s) \in Nat /\ i \in Int /\ \A j \in 1..Len(s) : s[j] \in S
  OBVIOUS
<1>2. a \in Seq(S) /\ Len(a) = i - 1 /\ \A j \in 1..i - 1 : a[j] = s[j]
  BY <1>1, SubSeqProperties
<1>3. b \in Seq(S) /\ Len(b) = Len(s) - i + 1 /\ \A j \in 1..Len(s) - i + 1 : b[j] = s[i + j - 1]
  BY <1>1, SubSeqProperties
<1>4. <<e>> \in Seq(S) /\ Len(<<e>>) = 1 /\ <<e>>[1] = e
  OBVIOUS
<1> HIDE DEF a, b
<1>5. /\ a \o <<e>> \in Seq(S) /\ Len(a \o <<e>>) = i
      /\ \A j \in 1..i : (a \o <<e>>)[j] = IF j < i THEN s[j] ELSE e
  BY <1>1, <1>2, <1>4, ConcatProperties
<1> DEFINE c == a \o <<e>>
<1>6. InsertAt(s, i, e) = c \o b
  BY DEF InsertAt, a, b
<1>7. c \in Seq(S) /\ Len(c) = i /\ \A j \in 1..i : c[j] = IF j < i THEN s[j] ELSE e
  BY <1>5
<1> HIDE DEF c
<1>8. /\ c \o b \in Seq(S) /\ Len(c \o b) = Len(c) + Len(b)
      /\ \A j \in 1..Len(c) + Len(b) : (c \o b)[j] = IF j <= Len(c) THEN c[j] ELSE b[j - Len(c)]
  BY <1>3, <1>7, ConcatProperties
<1>9. Len(c) + Len(b) = Len(s) + 1
  BY <1>1, <1>3, <1>7
<1>10. ASSUME NEW j \in 1..Len(s) + 1
       PROVE  (c \o b)[j] = IF j < i THEN s[j] ELSE IF j = i THEN e ELSE s[j - 1]
  <2>1. ASSUME j <= i PROVE (c \o b)[j] = IF j < i THEN s[j] ELSE IF j = i THEN e ELSE s[j - 1]
    BY <1>1, <1>7, <1>8, <1>9, <2>1
  <2>2. ASSUME j > i PROVE (c \o b)[j] = IF j < i THEN s[j] ELSE IF j = i THEN e ELSE s[j - 1]
    <3>1. (c \o b)[j] = b[j - i] /\ j - i \in 1..Len(s) - i + 1
      BY <1>1, <1>7, <1>8, <1>9, <2>2
    <3> QED
      BY <1>1, <1>3, <2>2, <3>1
  <2>3. j <= i \/ j > i
    BY <1>1
  <2> QED
    BY <2>1, <2>2, <2>3, Zenon
<1> QED
  BY <1>6, <1>8, <1>9, <1>10

LEMMA RemoveAtSeq ==
  ASSUME NEW S, NEW s \in Seq(S), NEW i \in 1..Len(s)
  PROVE  /\ RemoveAt(s, i) \in Seq(S)
         /\ Len(RemoveAt(s, i)) = Len(s) - 1
         /\ \A j \in 1..Len(s) - 1 : RemoveAt(s, i)[j] = IF j < i THEN s[j] ELSE s[j + 1]
<1> DEFINE a == SubSeq(s, 1, i - 1)
           b == SubSeq(s, i + 1, Len(s))
<1>1. Len(s) \in Nat /\ i \in Int /\ \A j \in 1..Len(s) : s[j] \in S
  OBVIOUS
<1>2. a \in Seq(S) /\ Len(a) = i - 1 /\ \A j \in 1..i - 1 : a[j] = s[j]
  BY <1>1, SubSeqProperties
<1>3. b \in Seq(S) /\ Len(b) = Len(s) - i /\ \A j \in 1..Len(s) - i : b[j] = s[i + j]
  BY <1>1, SubSeqProperties
<1> HIDE DEF a, b
<1>4. /\ a \o b \in Seq(S) /\ Len(a \o b) = Len(a) + Len(b)
      /\ \A j \in 1..Len(a) + Len(b) : (a \o b)[j] = IF j <= Len(a) THEN a[j] ELSE b[j - Len(a)]
  BY <1>2, <1>3, ConcatProperties
<1>5. RemoveAt(s, i) = a \o b
  BY DEF RemoveAt, a, b
<1>6. Len(a) + Len(b) = Len(s) - 1
  BY <1>1, <1>2, <1>3
<1>7. ASSUME NEW j \in 1..Len(s) - 1 PROVE (a \o b)[j] = IF j < i THEN s[j] ELSE s[j + 1]
  <2>1. ASSUME j < i PROVE (a \o b)[j] = IF j < i THEN s[j] ELSE s[j + 1]
    BY <1>1, <1>2, <1>4, <1>6, <2>1
  <2>2. ASSUME j >= i PROVE (a \o b)[j] = IF j < i THEN s[j] ELSE s[j + 1]
    <3>1. (a \o b)[j] = b[j - i + 1] /\ j - i + 1 \in 1..Len(s) - i
      <4>1. ~(j <= Len(a)) /\ j - Len(a) = j - i + 1
        BY <1>1, <1>2, <2>2
      <4> QED
        BY <1>1, <1>4, <1>6, <2>2, <4>1
    <3> QED
      BY <1>1, <1>3, <2>2, <3>1
  <2>3. j < i \/ j >= i
    BY <1>1
  <2> QED
    BY <2>1, <2>2, <2>3, Zenon
<1> QED
  BY <1>4, <1>5, <1>6, <1>7

LEMMA JoinSeq ==
  ASSUME NEW S, NEW s \in Seq(S), NEW t \in Seq(S), NEW e \in S
  PROVE  /\ Append(s, e) \o t \in Seq(S)
         /\ Len(Append(s, e) \o t) = Len(s) + 1 + Len(t)
         /\ \A j \in 1..Len(s) + 1 + Len(t) :
              (Append(s, e) \o t)[j] =
                IF j <= Len(s) THEN s[j] ELSE IF j = Len(s) + 1 THEN e ELSE t[j - Len(s) - 1]
<1>1. /\ Append(s, e) \in Seq(S) /\ Len(Append(s, e)) = Len(s) + 1
      /\ \A j \in 1..Len(s) + 1 : Append(s, e)[j] = IF j <= Len(s) THEN s[j] ELSE e
  OBVIOUS
<1> DEFINE a == Append(s, e)
<1>2. a \in Seq(S) /\ Len(a) = Len(s) + 1 /\ Len(s) \in Nat /\ Len(t) \in Nat
  BY <1>1
<1> HIDE DEF a
<1>3. /\ a \o t \in Seq(S)
      /\ Len(a \o t) = Len(a) + Len(t)
      /\ \A j \in 1..Len(a) + Len(t) : (a \o t)[j] = IF j <= Len(a) THEN a[j] ELSE t[j - Len(a)]
  BY <1>2, ConcatProperties
<1>4. \A j \in 1..Len(s) + 1 : a[j] = IF j <= Len(s) THEN s[j] ELSE e
  BY <1>1 DEF a
<1>5. \A j \in 1..Len(s) + 1 + Len(t) :
        (a \o t)[j] = IF j <= Len(s) THEN s[j] ELSE IF j = Len(s) + 1 THEN e ELSE t[j - Len(s) - 1]
  BY <1>2, <1>3, <1>4
<1>6. Append(s, e) \o t = a \o t
  BY DEF a
<1> QED
  BY <1>2, <1>3, <1>5, <1>6

(* The elements of a part of a sequence. *)
LEMMA PartSeq ==
  ASSUME NEW S, NEW s \in Seq(S), NEW a \in Int, NEW b \in Int, 1 <= a, a <= b + 1, b <= Len(s)
  PROVE  /\ SubSeq(s, a, b) \in Seq(S)
         /\ Len(SubSeq(s, a, b)) = b - a + 1
         /\ \A j \in 1..b - a + 1 : SubSeq(s, a, b)[j] = s[a + j - 1]
<1>1. \A i \in a..b : s[i] \in S
  OBVIOUS
<1> QED
  BY <1>1, SubSeqProperties

-----------------------------------------------------------------------------
(* Sound trees, one level at a time. *)

EntriesOK(n) ==
  /\ n.entries \in Seq(EntrySet) /\ NKeys(n) \in Nat /\ NKeys(n) <= MaxKeys
  /\ Ordered(n)

KidOK(d, n, i) ==
  /\ n.kids[i] \in Sound[d - 1]
  /\ NKeys(n.kids[i]) >= MinKeys
  /\ Fits(n, i, KeysOf[d - 1][n.kids[i]])

KidsOK(d, n) ==
  /\ n.kids \in Seq(Sound[d - 1]) /\ Len(n.kids) = NKeys(n) + 1
  /\ \A i \in 1..NKeys(n) + 1 : KidOK(d, n, i)

(* A sound tree by its parts, and those parts. *)
LEMMA SoundIff ==
  ASSUME NEW d \in Nat, NEW n
  PROVE  n \in Sound[d] <=> /\ n = Node(n.entries, n.kids) /\ EntriesOK(n)
                            /\ d = 0 => n.kids = <<>>
                            /\ d > 0 => KidsOK(d, n)
<1> DEFINE kids == IF d = 0 THEN {<<>>} ELSE Seq(Sound[d - 1])
<1>1. n \in Sound[d] <=>
        /\ n \in [entries : Seq(EntrySet), kids : kids]
        /\ NKeys(n) <= MaxKeys
        /\ Ordered(n)
        /\ d > 0 => /\ Len(n.kids) = NKeys(n) + 1
                    /\ \A i \in 1..NKeys(n) + 1 :
                         /\ NKeys(n.kids[i]) >= MinKeys
                         /\ Fits(n, i, KeysOf[d - 1][n.kids[i]])
  BY SoundUnfold, Zenon DEF SoundStep
<1>2. n \in [entries : Seq(EntrySet), kids : kids] <=>
        n = Node(n.entries, n.kids) /\ n.entries \in Seq(EntrySet) /\ n.kids \in kids
  BY DEF Node
<1>3. n.entries \in Seq(EntrySet) => NKeys(n) \in Nat
  BY DEF NKeys
<1>4. d > 0 /\ n.kids \in Seq(Sound[d - 1]) => \A i \in 1..Len(n.kids) : n.kids[i] \in Sound[d - 1]
  OBVIOUS
<1>5. d = 0 => (n.kids \in kids <=> n.kids = <<>>)
  OBVIOUS
<1>6. d > 0 => (n.kids \in kids <=> n.kids \in Seq(Sound[d - 1]))
  OBVIOUS
<1> HIDE DEF kids
<1> QED
  BY <1>1, <1>2, <1>3, <1>4, <1>5, <1>6 DEF EntriesOK, KidsOK, KidOK

LEMMA SoundParts ==
  ASSUME NEW d \in Nat, NEW n \in Sound[d]
  PROVE  /\ n = Node(n.entries, n.kids)
         /\ n.entries \in Seq(EntrySet) /\ NKeys(n) \in Nat /\ NKeys(n) <= MaxKeys
         /\ NKeys(n) = Len(n.entries)
         /\ \A i \in 1..NKeys(n) : n.entries[i] \in EntrySet
         /\ Ordered(n)
BY SoundIff DEF EntriesOK, NKeys

(* The row of an entry is the one with its key. *)
LEMMA EntryKeys ==
  ASSUME NEW e \in EntrySet
  PROVE  e = Entry(e.key) /\ e.row = e.key /\ e.key \in Keys /\ e.key \in Int
BY Bounds DEF EntrySet, Entry

LEMMA LeafParts ==
  ASSUME NEW n \in Sound[0]
  PROVE  IsLeaf(n) /\ n.kids = <<>>
BY SoundIff DEF IsLeaf

(* An inner node has a sound child more than entries. *)
LEMMA InnerParts ==
  ASSUME NEW d \in Nat, d > 0, NEW n \in Sound[d]
  PROVE  /\ ~IsLeaf(n) /\ d - 1 \in Nat
         /\ n.kids \in Seq(Sound[d - 1]) /\ Len(n.kids) = NKeys(n) + 1
         /\ \A i \in 1..NKeys(n) + 1 : KidOK(d, n, i)
<1>1. KidsOK(d, n)
  BY SoundIff
<1>2. n.kids # <<>>
  BY <1>1, SoundParts DEF KidsOK
<1> QED
  BY <1>1, <1>2 DEF KidsOK, IsLeaf

(* A node from its parts. *)
LEMMA MakeLeaf ==
  ASSUME NEW es \in Seq(EntrySet), Len(es) <= MaxKeys, Ordered(Node(es, <<>>))
  PROVE  Node(es, <<>>) \in Sound[0]
BY SoundIff DEF Node, EntriesOK, NKeys

LEMMA MakeInner ==
  ASSUME NEW d \in Nat, d > 0,
         NEW es \in Seq(EntrySet), NEW ks \in Seq(Sound[d - 1]),
         Len(es) <= MaxKeys, Len(ks) = Len(es) + 1, Ordered(Node(es, ks)),
         \A i \in 1..Len(es) + 1 : KidOK(d, Node(es, ks), i)
  PROVE  Node(es, ks) \in Sound[d]
BY SoundIff DEF Node, EntriesOK, KidsOK, NKeys

(* Sound trees are trees. *)
LEMMA EntrySetType == EntrySet \subseteq [key : Keys, row : Keys \cup {None}]
BY DEF EntrySet, Entry

LEMMA SoundInTree == \A e \in Nat : \A d \in 0..e : Sound[d] \subseteq Tree[e]
<1> DEFINE S == {e \in Nat : \A d \in 0..e : Sound[d] \subseteq Tree[e]}
<1>1. ASSUME NEW e \in Nat, NEW d \in 0..e, NEW n \in Sound[d],
             d > 0 => Sound[d - 1] \subseteq Tree[e - 1]
      PROVE  n \in Tree[e]
  <2> DEFINE kids == IF e = 0 THEN {<<>>} ELSE Seq(Tree[e - 1])
  <2>1. Tree[e] = [entries : Seq([key : Keys, row : Keys \cup {None}]), kids : kids]
    BY TreeUnfold DEF TreeStep
  <2>2. n = Node(n.entries, n.kids) /\ n.entries \in Seq(EntrySet)
    BY SoundParts
  <2>3. n.entries \in Seq([key : Keys, row : Keys \cup {None}])
    BY <2>2, EntrySetType, SeqMonotonic
  <2>4. n.kids \in kids
    <3>1. CASE d = 0
      <4>1. n.kids = <<>>
        BY <3>1, LeafParts
      <4> QED
        BY <4>1
    <3>2. CASE d > 0
      <4>1. n.kids \in Seq(Sound[d - 1])
        BY <3>2, InnerParts
      <4>2. n.kids \in Seq(Tree[e - 1])
        BY <1>1, <3>2, <4>1, SeqMonotonic
      <4> QED
        BY <3>2, <4>2
    <3> QED
      BY <3>1, <3>2
  <2> HIDE DEF kids
  <2> QED
    BY <2>1, <2>2, <2>3, <2>4 DEF Node
<1>2. 0 \in S
  BY <1>1
<1>3. ASSUME NEW e \in Nat, e \in S PROVE e + 1 \in S
  <2>1. ASSUME NEW d \in 0..e + 1, NEW n \in Sound[d] PROVE n \in Tree[e + 1]
    <3>1. d > 0 => Sound[d - 1] \subseteq Tree[(e + 1) - 1]
      BY <1>3
    <3> QED
      BY <1>1, <3>1
  <2> QED
    BY <2>1
<1> HIDE DEF S
<1>4. Nat \subseteq S
  BY <1>2, <1>3, Induct
<1> QED
  BY <1>4 DEF S

(* A sound tree is in no set of trees with fewer levels. *)
LEMMA SoundDepth ==
  \A d \in Nat : \A m \in Nat : \A n \in Sound[d] : n \in Tree[m] => d <= m
<1> DEFINE S == {d \in Nat : \A m \in Nat : \A n \in Sound[d] : n \in Tree[m] => d <= m}
<1>1. 0 \in S
  OBVIOUS
<1>2. ASSUME NEW d \in Nat, d \in S PROVE d + 1 \in S
  <2>1. ASSUME NEW m \in Nat, NEW n \in Sound[d + 1], n \in Tree[m] PROVE d + 1 <= m
    <3>1. /\ d + 1 > 0 /\ d + 1 \in Nat /\ (d + 1) - 1 = d
          /\ NKeys(n) \in Nat
      BY SoundParts
    <3>2. n.kids \in Seq(Sound[d]) /\ Len(n.kids) = NKeys(n) + 1
      BY <3>1, InnerParts
    <3>3. n.kids[1] \in Sound[d] /\ n.kids # <<>>
      BY <3>1, <3>2
    <3>4. n \in TreeStep(m, Tree[m - 1])
      BY <2>1, TreeUnfold
    <3>5. m # 0 /\ n.kids \in Seq(Tree[m - 1])
      BY <3>3, <3>4 DEF TreeStep
    <3>6. n.kids[1] \in Tree[m - 1] /\ m - 1 \in Nat
      BY <3>1, <3>2, <3>5
    <3>7. d <= m - 1
      BY <1>2, <3>3, <3>6
    <3> QED
      BY <3>6, <3>7
  <2> QED
    BY <2>1
<1> HIDE DEF S
<1>3. Nat \subseteq S
  BY <1>1, <1>2, Induct
<1> QED
  BY <1>3 DEF S

-----------------------------------------------------------------------------
(* The keys of a sound tree. *)

(* The keys of a node and those below its children. *)
LEMMA OwnKeys ==
  ASSUME NEW d \in Nat, NEW n \in Sound[d]
  PROVE  /\ Own(n) \subseteq Keys
         /\ \A i \in 1..NKeys(n) : n.entries[i] \in EntrySet /\ n.entries[i].key \in Own(n)
                                   /\ n.entries[i].key \in Keys /\ n.entries[i].key \in Int
BY SoundParts, EntryKeys DEF Own

LEMMA KeysAt ==
  ASSUME NEW d \in Nat, NEW n \in Sound[d]
  PROVE  KeysOf[d][n] = Own(n) \cup UNION {KeysOf[d - 1][n.kids[i]] : i \in 1..Len(n.kids)}
<1>1. n \in Tree[d]
  BY SoundInTree
<1> QED
  BY <1>1, KeysOfUnfold DEF KeysOfStep

LEMMA KeysLeaf == \A n \in Sound[0] : KeysOf[0][n] = Own(n)
<1> TAKE n \in Sound[0]
<1>1. Len(n.kids) = 0
  BY LeafParts
<1>2. KeysOf[0][n] = Own(n) \cup UNION {KeysOf[0 - 1][n.kids[i]] : i \in 1..Len(n.kids)}
  BY KeysAt
<1> QED
  BY <1>1, <1>2

LEMMA KeysInner ==
  ASSUME NEW d \in Nat, d > 0, NEW n \in Sound[d], NEW x
  PROVE  x \in KeysOf[d][n] <=>
           x \in Own(n) \/ \E i \in 1..NKeys(n) + 1 : x \in KeysOf[d - 1][n.kids[i]]
<1>1. Len(n.kids) = NKeys(n) + 1
  BY InnerParts
<1>2. KeysOf[d][n] = Own(n) \cup UNION {KeysOf[d - 1][n.kids[i]] : i \in 1..NKeys(n) + 1}
  BY <1>1, KeysAt
<1> QED
  BY <1>2

(* All keys are rowids. *)
LEMMA KeysInKeys == \A d \in Nat : \A n \in Sound[d] : KeysOf[d][n] \subseteq Keys
<1> DEFINE S == {d \in Nat : \A n \in Sound[d] : KeysOf[d][n] \subseteq Keys}
<1>1. 0 \in S
  BY KeysLeaf, OwnKeys
<1>2. ASSUME NEW d \in Nat, d \in S PROVE d + 1 \in S
  <2>1. ASSUME NEW n \in Sound[d + 1], NEW x \in KeysOf[d + 1][n] PROVE x \in Keys
    <3>1. d + 1 \in Nat /\ d + 1 > 0 /\ (d + 1) - 1 = d
      OBVIOUS
    <3>2. x \in Own(n) \/ \E i \in 1..NKeys(n) + 1 : x \in KeysOf[d][n.kids[i]]
      BY <2>1, <3>1, KeysInner
    <3>3. \A i \in 1..NKeys(n) + 1 : n.kids[i] \in Sound[d]
      BY <3>1, InnerParts DEF KidOK
    <3> QED
      BY <1>2, <3>1, <3>2, <3>3, OwnKeys
  <2> QED
    BY <2>1
<1> HIDE DEF S
<1>3. Nat \subseteq S
  BY <1>1, <1>2, Induct
<1> QED
  BY <1>3 DEF S

LEMMA KeysInt ==
  ASSUME NEW d \in Nat, NEW n \in Sound[d], NEW x \in KeysOf[d][n]
  PROVE  x \in Keys /\ x \in Int
BY KeysInKeys, Bounds

(* The keys below two children of a node do not mix with its own. *)
LEMMA KidGap ==
  ASSUME NEW d \in Nat, d > 0, NEW n \in Sound[d],
         NEW i \in 1..NKeys(n) + 1, NEW x \in KeysOf[d - 1][n.kids[i]]
  PROVE  /\ x \in Keys /\ x \in Int
         /\ i > 1 => n.entries[i - 1].key < x
         /\ i <= NKeys(n) => x < n.entries[i].key
<1>1. KidOK(d, n, i) /\ d - 1 \in Nat
  BY InnerParts
<1> QED
  BY <1>1, KeysInt DEF KidOK, Fits

-----------------------------------------------------------------------------
(* Finding a slot. *)

(* The search loop that all functions begin with stops at a slot ... *)
LEMMA SlotFound ==
  ASSUME NEW d \in Nat, NEW n \in Sound[d], NEW k \in Keys
  PROVE  /\ Slot(n, k) \in 1..NKeys(n) + 1
         /\ \A j \in 1..Slot(n, k) - 1 : n.entries[j].key < k
         /\ Slot(n, k) <= NKeys(n) => n.entries[Slot(n, k)].key >= k
<1>1. NKeys(n) \in Nat /\ k \in Int /\ \A j \in 1..NKeys(n) : n.entries[j].key \in Int
  BY SoundParts, OwnKeys, Bounds
<1> DEFINE A == {i \in 1..NKeys(n) + 1 : i <= NKeys(n) => n.entries[i].key >= k}
<1>2. A \subseteq Nat /\ NKeys(n) + 1 \in A
  BY <1>1
<1>3. PICK i \in A : \A y \in A : i <= y
  <2>1. PICK x \in A : \A y \in A : ~(<<y, x>> \in OpToRel(<, Nat))
    BY <1>2, NatLessThanWellFounded, WFMin, Zenon
  <2>2. ASSUME NEW y \in A PROVE x <= y
    <3>1. <<y, x>> \in OpToRel(<, Nat) <=> y < x
      <4>1. x \in Nat /\ y \in Nat
        BY <1>2
      <4> HIDE DEF A
      <4> QED
        BY <4>1, Zenon DEF OpToRel
    <3>2. ~(y < x)
      BY <2>1, <3>1, Zenon
    <3> QED
      BY <1>2, <3>2
  <2> QED
    BY <2>2
<1>4. /\ i \in 1..NKeys(n) + 1
      /\ \A j \in 1..i - 1 : n.entries[j].key < k
      /\ i <= NKeys(n) => n.entries[i].key >= k
  BY <1>1, <1>3
<1> HIDE DEF A
<1> QED
  BY <1>4, Zenon DEF Slot

(* ... where the key is, or where the child is into which it fits. *)
LEMMA SlotHolds ==
  ASSUME NEW d \in Nat, NEW n \in Sound[d], NEW k \in Keys
  PROVE  /\ Holds(n, k) => /\ Slot(n, k) \in 1..NKeys(n)
                           /\ n.entries[Slot(n, k)] = Entry(k)
                           /\ n.entries[Slot(n, k)].key = k
                           /\ k \in Own(n)
         /\ ~Holds(n, k) => k \notin Own(n) /\ Fits(n, Slot(n, k), {k})
<1> DEFINE i == Slot(n, k)
<1>1. NKeys(n) \in Nat /\ k \in Int /\ \A j \in 1..NKeys(n) : n.entries[j].key \in Int
  BY SoundParts, OwnKeys, Bounds
<1>2. /\ i \in 1..NKeys(n) + 1
      /\ \A j \in 1..i - 1 : n.entries[j].key < k
      /\ i <= NKeys(n) => n.entries[i].key >= k
  BY SlotFound
<1>3. Holds(n, k) <=> i <= NKeys(n) /\ n.entries[i].key = k
  BY DEF Holds
<1> HIDE DEF i
<1>4. ASSUME Holds(n, k)
      PROVE  i \in 1..NKeys(n) /\ n.entries[i] = Entry(k) /\ n.entries[i].key = k /\ k \in Own(n)
  <2>1. i \in 1..NKeys(n) /\ n.entries[i].key = k
    BY <1>1, <1>2, <1>3, <1>4
  <2>2. n.entries[i] \in EntrySet
    BY <2>1, OwnKeys
  <2> QED
    BY <2>1, <2>2, EntryKeys DEF Own
<1>5. ASSUME ~Holds(n, k) PROVE k \notin Own(n) /\ Fits(n, i, {k})
  <2>1. i <= NKeys(n) => k < n.entries[i].key
    BY <1>1, <1>2, <1>3, <1>5
  <2>2. ASSUME NEW j \in 1..NKeys(n), n.entries[j].key = k PROVE FALSE
    <3>1. CASE j < i
      BY <1>1, <1>2, <2>2, <3>1
    <3>2. CASE j >= i
      <4>1. n.entries[i].key <= n.entries[j].key /\ i <= NKeys(n)
        BY <1>1, <1>2, <3>2, SoundParts DEF Ordered
      <4> QED
        BY <1>1, <1>2, <2>1, <2>2, <4>1
    <3> QED
      BY <1>1, <1>2, <3>1, <3>2
  <2>3. i > 1 => n.entries[i - 1].key < k
    BY <1>1, <1>2
  <2> QED
    BY <2>1, <2>2, <2>3 DEF Own, Fits
<1> QED
  BY <1>4, <1>5 DEF i

(* A key that fits into child i is found below it or not at all. *)
LEMMA Locate ==
  ASSUME NEW d \in Nat, d > 0, NEW n \in Sound[d],
         NEW i \in 1..NKeys(n) + 1, NEW k \in Keys, Fits(n, i, {k})
  PROVE  /\ k \notin Own(n)
         /\ \A j \in 1..NKeys(n) + 1 : j # i => k \notin KeysOf[d - 1][n.kids[j]]
         /\ k \in KeysOf[d][n] <=> k \in KeysOf[d - 1][n.kids[i]]
<1>1. NKeys(n) \in Nat /\ k \in Int /\ \A j \in 1..NKeys(n) : n.entries[j].key \in Int
  BY SoundParts, OwnKeys, Bounds
<1>2. /\ i > 1 => n.entries[i - 1].key < k
      /\ i <= NKeys(n) => k < n.entries[i].key
  BY DEF Fits
<1>3. \A a, b \in 1..NKeys(n) : a <= b => n.entries[a].key <= n.entries[b].key
  <2>1. \A a, b \in 1..NKeys(n) : a < b => n.entries[a].key < n.entries[b].key
    BY SoundParts DEF Ordered
  <2> QED
    BY <1>1, <2>1
<1>4. ASSUME NEW j \in 1..NKeys(n) PROVE n.entries[j].key # k
  <2>1. CASE j < i
    BY <1>1, <1>2, <1>3, <2>1
  <2>2. CASE j >= i
    BY <1>1, <1>2, <1>3, <2>2
  <2> QED
    BY <1>1, <2>1, <2>2
<1>5. ASSUME NEW j \in 1..NKeys(n) + 1, j # i, k \in KeysOf[d - 1][n.kids[j]] PROVE FALSE
  <2>1. /\ j > 1 => n.entries[j - 1].key < k
        /\ j <= NKeys(n) => k < n.entries[j].key
    BY <1>5, KidGap
  <2>2. CASE j < i
    <3>1. n.entries[j].key <= n.entries[i - 1].key
      BY <1>1, <1>3, <2>2
    <3> QED
      BY <1>1, <1>2, <2>1, <2>2, <3>1
  <2>3. CASE j > i
    <3>1. n.entries[i].key <= n.entries[j - 1].key
      BY <1>1, <1>3, <2>3
    <3> QED
      BY <1>1, <1>2, <2>1, <2>3, <3>1
  <2> QED
    BY <1>1, <1>5, <2>2, <2>3
<1>6. k \notin Own(n)
  BY <1>4 DEF Own
<1> QED
  BY <1>5, <1>6, KeysInner

-----------------------------------------------------------------------------
(* Cutting a node at an entry and gluing two nodes around one. *)

(* The entry e stands between the keys of l and those of r. *)
Splits(d, l, e, r) ==
  /\ \A x \in KeysOf[d][l] : x < e.key
  /\ \A x \in KeysOf[d][r] : e.key < x

AllKeys(d, l, e, r) == KeysOf[d][l] \cup {e.key} \cup KeysOf[d][r]

(* The fields of a node. *)
LEMMA NodeFields == \A es, ks :
  /\ Node(es, ks).entries = es /\ Node(es, ks).kids = ks
  /\ NKeys(Node(es, ks)) = Len(es)
BY DEF Node, NKeys

(* The two parts of a node that is cut at entry i, *)
LEMMA BeforeParts ==
  ASSUME NEW d \in Nat, NEW n \in Sound[d], NEW m \in 1..NKeys(n)
  PROVE  /\ Before(n, m) = Node(Before(n, m).entries, Before(n, m).kids)
         /\ Before(n, m).entries \in Seq(EntrySet)
         /\ NKeys(Before(n, m)) = m - 1
         /\ \A j \in 1..m - 1 : Before(n, m).entries[j] = n.entries[j]
         /\ d = 0 => Before(n, m).kids = <<>>
         /\ d > 0 => /\ Before(n, m).kids \in Seq(Sound[d - 1])
                     /\ Len(Before(n, m).kids) = m
                     /\ \A j \in 1..m : Before(n, m).kids[j] = n.kids[j]
<1>1. NKeys(n) \in Nat /\ \A i \in 1..NKeys(n) : n.entries[i] \in EntrySet
  BY SoundParts
<1> DEFINE es == SubSeq(n.entries, 1, m - 1)
           ks == IF IsLeaf(n) THEN <<>> ELSE SubSeq(n.kids, 1, m)
<1>2. es \in Seq(EntrySet) /\ Len(es) = m - 1 /\ \A j \in 1..m - 1 : es[j] = n.entries[j]
  BY <1>1, SubSeqProperties
<1>3. d = 0 => ks = <<>>
  BY LeafParts
<1>4. ASSUME d > 0
      PROVE  ks \in Seq(Sound[d - 1]) /\ Len(ks) = m /\ \A j \in 1..m : ks[j] = n.kids[j]
  <2>1. ~IsLeaf(n) /\ n.kids \in Seq(Sound[d - 1]) /\ Len(n.kids) = NKeys(n) + 1
    BY <1>4, InnerParts
  <2>2. 1 \in Int /\ m \in Int /\ 1 <= 1 /\ 1 <= m + 1 /\ m <= Len(n.kids) /\ m - 1 + 1 = m
    BY <1>1, <2>1
  <2>3. /\ ks \in Seq(Sound[d - 1]) /\ Len(ks) = m - 1 + 1
        /\ \A j \in 1..m - 1 + 1 : ks[j] = n.kids[1 + j - 1]
    BY <2>1, <2>2, PartSeq, Zenon
  <2> HIDE DEF ks
  <2> QED
    BY <2>2, <2>3
<1>5. Before(n, m) = Node(es, ks)
  BY DEF Before
<1> HIDE DEF es, ks
<1> QED
  BY <1>2, <1>3, <1>4, <1>5, NodeFields

LEMMA AfterParts ==
  ASSUME NEW d \in Nat, NEW n \in Sound[d], NEW m \in 1..NKeys(n)
  PROVE  /\ After(n, m) = Node(After(n, m).entries, After(n, m).kids)
         /\ After(n, m).entries \in Seq(EntrySet)
         /\ NKeys(After(n, m)) = NKeys(n) - m
         /\ \A j \in 1..NKeys(n) - m : After(n, m).entries[j] = n.entries[m + j]
         /\ d = 0 => After(n, m).kids = <<>>
         /\ d > 0 => /\ After(n, m).kids \in Seq(Sound[d - 1])
                     /\ Len(After(n, m).kids) = NKeys(n) - m + 1
                     /\ \A j \in 1..NKeys(n) - m + 1 : After(n, m).kids[j] = n.kids[m + j]
<1>1. NKeys(n) \in Nat /\ \A i \in 1..NKeys(n) : n.entries[i] \in EntrySet
  BY SoundParts
<1> DEFINE es == SubSeq(n.entries, m + 1, NKeys(n))
           ks == IF IsLeaf(n) THEN <<>> ELSE SubSeq(n.kids, m + 1, NKeys(n) + 1)
<1>2. /\ es \in Seq(EntrySet) /\ Len(es) = NKeys(n) - m
      /\ \A j \in 1..NKeys(n) - m : es[j] = n.entries[m + j]
  BY <1>1, SubSeqProperties
<1>3. d = 0 => ks = <<>>
  BY LeafParts
<1>4. ASSUME d > 0
      PROVE  /\ ks \in Seq(Sound[d - 1]) /\ Len(ks) = NKeys(n) - m + 1
             /\ \A j \in 1..NKeys(n) - m + 1 : ks[j] = n.kids[m + j]
  <2>1. ~IsLeaf(n) /\ n.kids \in Seq(Sound[d - 1]) /\ Len(n.kids) = NKeys(n) + 1
    BY <1>4, InnerParts
  <2>2. /\ m + 1 \in Int /\ NKeys(n) + 1 \in Int /\ 1 <= m + 1
        /\ m + 1 <= (NKeys(n) + 1) + 1 /\ NKeys(n) + 1 <= Len(n.kids)
    BY <1>1, <2>1
  <2>3. /\ ks \in Seq(Sound[d - 1]) /\ Len(ks) = (NKeys(n) + 1) - (m + 1) + 1
        /\ \A j \in 1..(NKeys(n) + 1) - (m + 1) + 1 : ks[j] = n.kids[(m + 1) + j - 1]
    BY <2>1, <2>2, PartSeq, Zenon
  <2> HIDE DEF ks
  <2>4. (NKeys(n) + 1) - (m + 1) + 1 = NKeys(n) - m + 1 /\ m \in Int /\ NKeys(n) - m + 1 \in Int
    BY <1>1
  <2>5. \A j \in Int : (m + 1) + j - 1 = m + j
    BY <2>4
  <2> QED
    BY <2>3, <2>4, <2>5
<1>5. After(n, m) = Node(es, ks)
  BY DEF After
<1> HIDE DEF es, ks
<1> QED
  BY <1>2, <1>3, <1>4, <1>5, NodeFields

(* are sound, *)
LEMMA CutSound ==
  ASSUME NEW d \in Nat, NEW n \in Sound[d], NEW m \in 1..NKeys(n)
  PROVE  Before(n, m) \in Sound[d] /\ After(n, m) \in Sound[d]
<1> DEFINE l == Before(n, m)
           r == After(n, m)
<1>1. /\ NKeys(n) \in Nat /\ NKeys(n) <= MaxKeys /\ MaxKeys \in Nat
      /\ \A i, j \in 1..NKeys(n) : i < j => n.entries[i].key < n.entries[j].key
  BY SoundParts, Bounds DEF Ordered
<1>2. /\ l = Node(l.entries, l.kids) /\ l.entries \in Seq(EntrySet) /\ NKeys(l) = m - 1
      /\ \A j \in 1..m - 1 : l.entries[j] = n.entries[j]
      /\ d = 0 => l.kids = <<>>
      /\ d > 0 => /\ l.kids \in Seq(Sound[d - 1]) /\ Len(l.kids) = m
                  /\ \A j \in 1..m : l.kids[j] = n.kids[j]
  BY BeforeParts
<1>3. /\ r = Node(r.entries, r.kids) /\ r.entries \in Seq(EntrySet) /\ NKeys(r) = NKeys(n) - m
      /\ \A j \in 1..NKeys(n) - m : r.entries[j] = n.entries[m + j]
      /\ d = 0 => r.kids = <<>>
      /\ d > 0 => /\ r.kids \in Seq(Sound[d - 1]) /\ Len(r.kids) = NKeys(n) - m + 1
                  /\ \A j \in 1..NKeys(n) - m + 1 : r.kids[j] = n.kids[m + j]
  BY AfterParts
<1> HIDE DEF l, r
<1>4. EntriesOK(l)
  BY <1>1, <1>2 DEF EntriesOK, Ordered
<1>5. EntriesOK(r)
  <2>1. ASSUME NEW i \in 1..NKeys(r), NEW j \in 1..NKeys(r), i < j
        PROVE  r.entries[i].key < r.entries[j].key
    <3>1. m + i \in 1..NKeys(n) /\ m + j \in 1..NKeys(n) /\ m + i < m + j
      BY <1>1, <1>3, <2>1
    <3>2. r.entries[i] = n.entries[m + i] /\ r.entries[j] = n.entries[m + j]
      BY <1>3
    <3> QED
      BY <1>1, <3>1, <3>2
  <2> QED
    BY <1>1, <1>3, <2>1 DEF EntriesOK, Ordered
<1>6. d > 0 => \A i \in 1..NKeys(n) + 1 :
                 /\ n.kids[i] \in Sound[d - 1] /\ NKeys(n.kids[i]) >= MinKeys
                 /\ Fits(n, i, KeysOf[d - 1][n.kids[i]])
  BY InnerParts DEF KidOK
<1>7. ASSUME d > 0 PROVE KidsOK(d, l)
  <2>1. ASSUME NEW i \in 1..m PROVE KidOK(d, l, i)
    <3>1. l.kids[i] = n.kids[i] /\ i \in 1..NKeys(n) + 1
      BY <1>1, <1>2, <1>7
    <3>2. Fits(l, i, KeysOf[d - 1][n.kids[i]])
      <4>1. Fits(n, i, KeysOf[d - 1][n.kids[i]])
        BY <1>6, <1>7, <3>1
      <4>2. i > 1 => i - 1 \in 1..m - 1 /\ l.entries[i - 1] = n.entries[i - 1]
        BY <1>1, <1>2
      <4>3. i <= NKeys(l) => i <= NKeys(n) /\ l.entries[i] = n.entries[i]
        BY <1>1, <1>2
      <4> QED
        BY <4>1, <4>2, <4>3 DEF Fits
    <3> QED
      BY <1>6, <1>7, <3>1, <3>2 DEF KidOK
  <2> QED
    BY <1>1, <1>2, <1>7, <2>1 DEF KidsOK
<1>8. ASSUME d > 0 PROVE KidsOK(d, r)
  <2>1. ASSUME NEW i \in 1..NKeys(n) - m + 1 PROVE KidOK(d, r, i)
    <3>1. r.kids[i] = n.kids[m + i] /\ m + i \in 1..NKeys(n) + 1
      BY <1>1, <1>3, <1>8
    <3>2. Fits(r, i, KeysOf[d - 1][n.kids[m + i]])
      <4>1. ASSUME i > 1 PROVE r.entries[i - 1] = n.entries[(m + i) - 1]
        <5>1. i - 1 \in 1..NKeys(n) - m /\ m + (i - 1) = (m + i) - 1
          BY <1>1, <4>1
        <5> QED
          BY <1>3, <5>1
      <4>2. i <= NKeys(r) => r.entries[i] = n.entries[m + i] /\ m + i <= NKeys(n)
        BY <1>1, <1>3
      <4> QED
        BY <1>1, <1>6, <1>8, <3>1, <4>1, <4>2 DEF Fits
    <3> QED
      BY <1>6, <1>8, <3>1, <3>2 DEF KidOK
  <2> QED
    BY <1>1, <1>3, <1>8, <2>1 DEF KidsOK
<1> QED
  BY <1>2, <1>3, <1>4, <1>5, <1>7, <1>8, SoundIff DEF l, r

(* and share its keys with the entry. *)
LEMMA CutKeys ==
  ASSUME NEW d \in Nat, NEW n \in Sound[d], NEW m \in 1..NKeys(n)
  PROVE  /\ Splits(d, Before(n, m), n.entries[m], After(n, m))
         /\ KeysOf[d][n] = AllKeys(d, Before(n, m), n.entries[m], After(n, m))
<1> DEFINE l == Before(n, m)
           r == After(n, m)
           e == n.entries[m]
<1>1. /\ NKeys(n) \in Nat
      /\ \A i, j \in 1..NKeys(n) : i < j => n.entries[i].key < n.entries[j].key
      /\ \A i \in 1..NKeys(n) : n.entries[i].key \in Int
  BY SoundParts, OwnKeys DEF Ordered
<1>2. /\ l \in Sound[d] /\ NKeys(l) = m - 1
      /\ \A j \in 1..m - 1 : l.entries[j] = n.entries[j]
      /\ d > 0 => \A j \in 1..m : l.kids[j] = n.kids[j]
  BY CutSound, BeforeParts
<1>3. /\ r \in Sound[d] /\ NKeys(r) = NKeys(n) - m
      /\ \A j \in 1..NKeys(n) - m : r.entries[j] = n.entries[m + j]
      /\ d > 0 => \A j \in 1..NKeys(n) - m + 1 : r.kids[j] = n.kids[m + j]
  BY CutSound, AfterParts
<1> HIDE DEF l, r
<1>4. ASSUME NEW x \in Own(l) PROVE x \in Own(n) /\ x < e.key
  BY <1>1, <1>2 DEF Own
<1>5. ASSUME NEW x \in Own(r) PROVE x \in Own(n) /\ e.key < x
  <2>1. PICK j \in 1..NKeys(r) : x = r.entries[j].key
    BY DEF Own
  <2>2. x = n.entries[m + j].key /\ m + j \in 1..NKeys(n) /\ m < m + j
    BY <1>1, <1>3, <2>1
  <2> QED
    BY <1>1, <2>2 DEF Own
<1>6. ASSUME NEW x \in Own(n), x # e.key PROVE x \in Own(l) \/ x \in Own(r)
  <2>1. PICK j \in 1..NKeys(n) : x = n.entries[j].key
    BY DEF Own
  <2>2. CASE j < m
    BY <1>1, <1>2, <2>1, <2>2 DEF Own
  <2>3. CASE j > m
    <3>1. j - m \in 1..NKeys(r) /\ r.entries[j - m] = n.entries[j]
      BY <1>1, <1>3, <2>3
    <3> QED
      BY <2>1, <3>1 DEF Own
  <2>4. j # m
    BY <1>6, <2>1
  <2> QED
    BY <1>1, <2>2, <2>3, <2>4
<1>7. e.key \in Own(n)
  BY DEF Own
<1>8. CASE d = 0
  <2>1. KeysOf[d][l] = Own(l) /\ KeysOf[d][r] = Own(r) /\ KeysOf[d][n] = Own(n)
    BY <1>2, <1>3, <1>8, KeysLeaf
  <2>2. KeysOf[d][n] = KeysOf[d][l] \cup {e.key} \cup KeysOf[d][r]
    BY <1>4, <1>5, <1>6, <1>7, <2>1
  <2> QED
    BY <1>4, <1>5, <2>1, <2>2 DEF Splits, AllKeys, l, r
<1>9. CASE d > 0
  <2>1. ASSUME NEW x
        PROVE  x \in KeysOf[d][l] <=>
                 x \in Own(l) \/ \E i \in 1..m : x \in KeysOf[d - 1][n.kids[i]]
    <3>1. x \in KeysOf[d][l] <=>
            x \in Own(l) \/ \E i \in 1..NKeys(l) + 1 : x \in KeysOf[d - 1][l.kids[i]]
      BY <1>2, <1>9, KeysInner
    <3>2. NKeys(l) + 1 = m /\ \A i \in 1..m : l.kids[i] = n.kids[i]
      BY <1>1, <1>2, <1>9
    <3> QED
      BY <3>1, <3>2
  <2>2. ASSUME NEW x
        PROVE  x \in KeysOf[d][r] <=>
                 x \in Own(r) \/ \E i \in m + 1..NKeys(n) + 1 : x \in KeysOf[d - 1][n.kids[i]]
    <3>1. x \in KeysOf[d][r] <=>
            x \in Own(r) \/ \E i \in 1..NKeys(r) + 1 : x \in KeysOf[d - 1][r.kids[i]]
      BY <1>3, <1>9, KeysInner
    <3>2. \A i \in 1..NKeys(r) + 1 : r.kids[i] = n.kids[m + i] /\ m + i \in m + 1..NKeys(n) + 1
      BY <1>1, <1>3, <1>9
    <3>3. \A i \in m + 1..NKeys(n) + 1 : i - m \in 1..NKeys(r) + 1 /\ r.kids[i - m] = n.kids[i]
      BY <1>1, <1>3, <1>9
    <3> QED
      BY <3>1, <3>2, <3>3
  <2>3. ASSUME NEW x, NEW i \in 1..m, x \in KeysOf[d - 1][n.kids[i]] PROVE x < e.key
    <3>1. i <= NKeys(n) /\ x \in Int /\ x < n.entries[i].key
      BY <1>1, <1>9, <2>3, KidGap
    <3> QED
      BY <1>1, <3>1
  <2>4. ASSUME NEW x, NEW i \in m + 1..NKeys(n) + 1, x \in KeysOf[d - 1][n.kids[i]]
        PROVE  e.key < x
    <3>1. i > 1 /\ i - 1 >= m /\ x \in Int /\ n.entries[i - 1].key < x
      BY <1>1, <1>9, <2>4, KidGap
    <3> QED
      BY <1>1, <3>1
  <2>5. Splits(d, l, e, r)
    BY <1>4, <1>5, <2>1, <2>2, <2>3, <2>4 DEF Splits
  <2>6. ASSUME NEW x PROVE x \in KeysOf[d][n] <=> x \in AllKeys(d, l, e, r)
    <3>1. x \in KeysOf[d][n] <=>
            x \in Own(n) \/ \E i \in 1..NKeys(n) + 1 : x \in KeysOf[d - 1][n.kids[i]]
      BY <1>9, KeysInner
    <3>2. \A i : i \in 1..NKeys(n) + 1 <=> i \in 1..m \/ i \in m + 1..NKeys(n) + 1
      BY <1>1
    <3>3. x \in Own(n) <=> x = e.key \/ x \in Own(l) \/ x \in Own(r)
      BY <1>4, <1>5, <1>6, <1>7
    <3> HIDE DEF e
    <3> QED
      BY <2>1, <2>2, <3>1, <3>2, <3>3 DEF AllKeys
  <2> QED
    BY <2>5, <2>6 DEF l, r
<1> QED
  BY <1>8, <1>9

(* The same with the entries themselves. *)
LEMMA KeysSplit ==
  ASSUME NEW d \in Nat, d > 0, NEW n \in Sound[d], NEW x
  PROVE  x \in KeysOf[d][n] <=>
           \/ \E j \in 1..NKeys(n) : x = n.entries[j].key
           \/ \E j \in 1..NKeys(n) + 1 : x \in KeysOf[d - 1][n.kids[j]]
BY KeysInner DEF Own

(* The keys of a node and of its children are keys of the tree. *)
LEMMA OwnInKeys ==
  ASSUME NEW d \in Nat, NEW n \in Sound[d], NEW i \in 1..NKeys(n)
  PROVE  n.entries[i].key \in KeysOf[d][n]
BY OwnKeys, KeysAt

LEMMA KidInKeys ==
  ASSUME NEW d \in Nat, d > 0, NEW n \in Sound[d], NEW i \in 1..NKeys(n) + 1,
         NEW x \in KeysOf[d - 1][n.kids[i]]
  PROVE  x \in KeysOf[d][n]
BY KeysInner

(* Two nodes with an entry between them, put into one. *)
LEMMA GlueSound ==
  ASSUME NEW d \in Nat, NEW l \in Sound[d], NEW r \in Sound[d], NEW e \in EntrySet,
         NKeys(l) + NKeys(r) + 1 <= MaxKeys, Splits(d, l, e, r)
  PROVE  /\ Glue(l, e, r) \in Sound[d]
         /\ NKeys(Glue(l, e, r)) = NKeys(l) + NKeys(r) + 1
         /\ KeysOf[d][Glue(l, e, r)] = AllKeys(d, l, e, r)
<1> DEFINE es == Append(l.entries, e) \o r.entries
           ks == l.kids \o r.kids
           a == NKeys(l)
           b == NKeys(r)
<1>0. /\ l.entries \in Seq(EntrySet) /\ r.entries \in Seq(EntrySet)
      /\ Len(l.entries) = a /\ Len(r.entries) = b
  BY SoundParts
<1>1. /\ a \in Nat /\ b \in Nat
      /\ \A i, j \in 1..a : i < j => l.entries[i].key < l.entries[j].key
      /\ \A i, j \in 1..b : i < j => r.entries[i].key < r.entries[j].key
      /\ \A i \in 1..a : l.entries[i].key \in Int
      /\ \A i \in 1..b : r.entries[i].key \in Int
  BY SoundParts, OwnKeys DEF Ordered
<1>2. e.key \in Int
  BY EntryKeys
<1>3. /\ es \in Seq(EntrySet) /\ Len(es) = a + 1 + b
      /\ \A j \in 1..a + 1 + b :
           es[j] = IF j <= a THEN l.entries[j] ELSE IF j = a + 1 THEN e ELSE r.entries[j - a - 1]
  <2>1. /\ es \in Seq(EntrySet) /\ Len(es) = Len(l.entries) + 1 + Len(r.entries)
        /\ \A j \in 1..Len(l.entries) + 1 + Len(r.entries) :
             es[j] = IF j <= Len(l.entries) THEN l.entries[j]
                     ELSE IF j = Len(l.entries) + 1 THEN e ELSE r.entries[j - Len(l.entries) - 1]
    <3> DEFINE s == l.entries
               t == r.entries
    <3>1. s \in Seq(EntrySet) /\ t \in Seq(EntrySet)
      BY <1>0
    <3> HIDE DEF s, t, a, b, es
    <3>2. /\ Append(s, e) \o t \in Seq(EntrySet) /\ Len(Append(s, e) \o t) = Len(s) + 1 + Len(t)
          /\ \A j \in 1..Len(s) + 1 + Len(t) :
               (Append(s, e) \o t)[j] =
                 IF j <= Len(s) THEN s[j] ELSE IF j = Len(s) + 1 THEN e ELSE t[j - Len(s) - 1]
      BY <3>1, JoinSeq
    <3> QED
      BY <3>2, Zenon DEF s, t, es
  <2> HIDE DEF es, a, b
  <2> QED
    BY <1>0, <2>1
<1>4. ASSUME d > 0
      PROVE  /\ ks \in Seq(Sound[d - 1]) /\ Len(ks) = a + 1 + b + 1
             /\ \A j \in 1..a + 1 + b + 1 :
                  ks[j] = IF j <= a + 1 THEN l.kids[j] ELSE r.kids[j - a - 1]
  <2>1. /\ l.kids \in Seq(Sound[d - 1]) /\ Len(l.kids) = a + 1
        /\ r.kids \in Seq(Sound[d - 1]) /\ Len(r.kids) = b + 1
    BY <1>4, InnerParts
  <2>2. /\ ks \in Seq(Sound[d - 1]) /\ Len(ks) = Len(l.kids) + Len(r.kids)
        /\ \A j \in 1..Len(l.kids) + Len(r.kids) :
             ks[j] = IF j <= Len(l.kids) THEN l.kids[j] ELSE r.kids[j - Len(l.kids)]
    BY <2>1, ConcatProperties, Zenon
  <2> HIDE DEF ks, a, b
  <2>3. /\ ks \in Seq(Sound[d - 1]) /\ Len(ks) = (a + 1) + (b + 1)
        /\ \A j \in 1..(a + 1) + (b + 1) :
             ks[j] = IF j <= a + 1 THEN l.kids[j] ELSE r.kids[j - (a + 1)]
    BY <2>1, <2>2, Zenon
  <2>4. (a + 1) + (b + 1) = a + 1 + b + 1 /\ \A j \in Int : j - (a + 1) = j - a - 1
    BY <1>1
  <2> QED
    BY <1>1, <2>3, <2>4
<1>5. d = 0 => ks = <<>>
  BY LeafParts
<1> DEFINE g == Node(es, ks)
<1>6. g.entries = es /\ g.kids = ks /\ NKeys(g) = a + 1 + b
  BY <1>3, NodeFields
<1> HIDE DEF es, ks, a, b, g
<1>7. /\ \A i \in 1..a : l.entries[i].key < e.key
      /\ \A i \in 1..b : e.key < r.entries[i].key
  BY OwnInKeys DEF Splits, a, b
<1>8. EntriesOK(g)
  <2>1. ASSUME NEW i \in 1..a + 1 + b, NEW j \in 1..a + 1 + b, i < j
        PROVE  es[i].key < es[j].key
    <3>1. CASE j <= a
      BY <1>1, <1>3, <2>1, <3>1
    <3>2. CASE j = a + 1
      BY <1>1, <1>3, <1>7, <2>1, <3>2
    <3>3. CASE j > a + 1
      <4>1. j - a - 1 \in 1..b /\ es[j] = r.entries[j - a - 1]
        BY <1>1, <1>3, <3>3
      <4>2. CASE i <= a
        <5>1. es[i] = l.entries[i] /\ i \in 1..a
          BY <1>1, <1>3, <4>2
        <5> QED
          BY <1>1, <1>2, <1>7, <4>1, <5>1
      <4>3. CASE i = a + 1
        BY <1>1, <1>3, <1>7, <4>1, <4>3
      <4>4. CASE i > a + 1
        <5>1. i - a - 1 \in 1..b /\ es[i] = r.entries[i - a - 1] /\ i - a - 1 < j - a - 1
          BY <1>1, <1>3, <2>1, <4>4
        <5> QED
          BY <1>1, <4>1, <5>1
      <4> QED
        BY <1>1, <4>2, <4>3, <4>4
    <3> QED
      BY <1>1, <3>1, <3>2, <3>3
  <2>2. a + 1 + b \in Nat /\ a + 1 + b <= MaxKeys
    BY <1>1 DEF a, b
  <2> QED
    BY <1>3, <1>6, <2>1, <2>2 DEF EntriesOK, Ordered
<1>9. ASSUME d > 0, NEW i \in 1..a + 1
      PROVE  /\ ks[i] = l.kids[i] /\ KidOK(d, l, i) /\ KidOK(d, g, i)
             /\ \A x \in KeysOf[d - 1][l.kids[i]] : x \in KeysOf[d][l]
  <2>1. ks[i] = l.kids[i] /\ KidOK(d, l, i)
    BY <1>1, <1>4, <1>9, InnerParts DEF a
  <2>2. \A x \in KeysOf[d - 1][l.kids[i]] : x \in KeysOf[d][l]
    BY <1>9, KidInKeys DEF a
  <2>3. i > 1 => g.entries[i - 1] = l.entries[i - 1]
    BY <1>1, <1>3, <1>6
  <2>4. i <= a => g.entries[i] = l.entries[i]
    BY <1>1, <1>3, <1>6
  <2>5. i > a => g.entries[i] = e
    BY <1>1, <1>3, <1>6
  <2>6. Fits(g, i, KeysOf[d - 1][l.kids[i]])
    <3>1. SUFFICES ASSUME NEW x \in KeysOf[d - 1][l.kids[i]]
                   PROVE  /\ i > 1 => g.entries[i - 1].key < x
                          /\ x < g.entries[i].key
      BY DEF Fits
    <3>2. /\ i > 1 => l.entries[i - 1].key < x
          /\ i <= a => x < l.entries[i].key
      BY <2>1 DEF KidOK, Fits, a
    <3>3. x < e.key
      BY <2>2 DEF Splits
    <3> QED
      BY <1>1, <2>3, <2>4, <2>5, <3>2, <3>3
  <2> QED
    BY <1>6, <2>1, <2>2, <2>6 DEF KidOK
<1>10. ASSUME d > 0, NEW i \in 1..b + 1
       PROVE  /\ ks[a + 1 + i] = r.kids[i] /\ KidOK(d, r, i) /\ KidOK(d, g, a + 1 + i)
              /\ \A x \in KeysOf[d - 1][r.kids[i]] : x \in KeysOf[d][r]
  <2>1. KidOK(d, r, i)
    BY <1>10, InnerParts DEF b
  <2>2. \A x \in KeysOf[d - 1][r.kids[i]] : x \in KeysOf[d][r]
    BY <1>10, KidInKeys DEF b
  <2>3. ks[a + 1 + i] = r.kids[i]
    <3>1. /\ a + 1 + i \in 1..a + 1 + b + 1 /\ ~(a + 1 + i <= a + 1)
          /\ (a + 1 + i) - a - 1 = i
      BY <1>1
    <3> QED
      BY <1>4, <1>10, <3>1
  <2>4. i > 1 => g.entries[(a + 1 + i) - 1] = r.entries[i - 1]
    <3>1. ASSUME i > 1 PROVE /\ (a + 1 + i) - 1 \in 1..a + 1 + b
                             /\ ~((a + 1 + i) - 1 <= a) /\ (a + 1 + i) - 1 # a + 1
                             /\ ((a + 1 + i) - 1) - a - 1 = i - 1
      BY <1>1, <3>1
    <3> QED
      BY <1>3, <1>6, <3>1
  <2>5. i = 1 => g.entries[(a + 1 + i) - 1] = e
    <3>1. ASSUME i = 1 PROVE (a + 1 + i) - 1 = a + 1 /\ a + 1 \in 1..a + 1 + b /\ ~(a + 1 <= a)
      BY <1>1, <3>1
    <3> QED
      BY <1>3, <1>6, <3>1
  <2>6. a + 1 + i <= a + 1 + b => i <= b /\ g.entries[a + 1 + i] = r.entries[i]
    <3>1. ASSUME a + 1 + i <= a + 1 + b
          PROVE  /\ a + 1 + i \in 1..a + 1 + b /\ ~(a + 1 + i <= a) /\ a + 1 + i # a + 1
                 /\ (a + 1 + i) - a - 1 = i /\ i <= b
      BY <1>1, <3>1
    <3> QED
      BY <1>3, <1>6, <3>1
  <2>7. Fits(g, a + 1 + i, KeysOf[d - 1][r.kids[i]])
    <3>1. SUFFICES ASSUME NEW x \in KeysOf[d - 1][r.kids[i]]
                   PROVE  /\ g.entries[(a + 1 + i) - 1].key < x
                          /\ a + 1 + i <= a + 1 + b => x < g.entries[a + 1 + i].key
      BY <1>6 DEF Fits
    <3>2. /\ i > 1 => r.entries[i - 1].key < x
          /\ i <= b => x < r.entries[i].key
      BY <2>1 DEF KidOK, Fits, b
    <3>3. e.key < x
      BY <2>2 DEF Splits
    <3>4. i = 1 \/ i > 1
      BY <1>1
    <3> QED
      BY <2>4, <2>5, <2>6, <3>2, <3>3, <3>4
  <2> QED
    BY <1>6, <2>1, <2>2, <2>3, <2>7 DEF KidOK
<1>11. ASSUME NEW i \in 1..a + 1 + b + 1
       PROVE  i \in 1..a + 1 \/ \E j \in 1..b + 1 : i = a + 1 + j
  <2>1. i \in 1..a + 1 \/ (i - a - 1 \in 1..b + 1 /\ i = a + 1 + (i - a - 1))
    BY <1>1
  <2> QED
    BY <2>1
<1>12. d > 0 => KidsOK(d, g)
  <2>1. ASSUME d > 0, NEW i \in 1..a + 1 + b + 1 PROVE KidOK(d, g, i)
    BY <1>9, <1>10, <1>11, <2>1
  <2> QED
    BY <1>4, <1>6, <2>1 DEF KidsOK
<1>13. g \in Sound[d]
  <2>1. g = Node(g.entries, g.kids)
    BY <1>6 DEF g
  <2> QED
    BY <1>5, <1>6, <1>8, <1>12, <2>1, SoundIff
<1>14. ASSUME NEW x PROVE x \in Own(g) <=> x \in Own(l) \/ x = e.key \/ x \in Own(r)
  <2>1. \A i \in 1..a : es[i] = l.entries[i] /\ i \in 1..a + 1 + b
    BY <1>1, <1>3
  <2>2. es[a + 1] = e /\ a + 1 \in 1..a + 1 + b
    BY <1>1, <1>3
  <2>3. ASSUME NEW i \in 1..b PROVE es[a + 1 + i] = r.entries[i] /\ a + 1 + i \in 1..a + 1 + b
    <3>1. a + 1 + i \in 1..a + 1 + b /\ ~(a + 1 + i <= a) /\ a + 1 + i # a + 1
          /\ (a + 1 + i) - a - 1 = i
      BY <1>1
    <3> QED
      BY <1>3, <3>1
  <2>4. ASSUME NEW i \in 1..a + 1 + b
        PROVE  i \in 1..a \/ i = a + 1 \/ \E j \in 1..b : i = a + 1 + j
    <3>1. i \in 1..a \/ i = a + 1 \/ (i - a - 1 \in 1..b /\ i = a + 1 + (i - a - 1))
      BY <1>1
    <3> QED
      BY <3>1
  <2>5. x \in Own(g) <=> \E i \in 1..a + 1 + b : x = es[i].key
    BY <1>6 DEF Own
  <2>6. x \in Own(l) <=> \E i \in 1..a : x = l.entries[i].key
    BY DEF Own, a
  <2>7. x \in Own(r) <=> \E i \in 1..b : x = r.entries[i].key
    BY DEF Own, b
  <2> QED
    BY <2>1, <2>2, <2>3, <2>4, <2>5, <2>6, <2>7
<1>15. ASSUME NEW x PROVE x \in KeysOf[d][g] <=> x \in AllKeys(d, l, e, r)
  <2>1. CASE d = 0
    BY <1>13, <1>14, <2>1, KeysLeaf DEF AllKeys
  <2>2. CASE d > 0
    <3>1. x \in KeysOf[d][g] <=>
            x \in Own(g) \/ \E i \in 1..a + 1 + b + 1 : x \in KeysOf[d - 1][ks[i]]
      BY <1>6, <1>13, <2>2, KeysInner
    <3>2. x \in KeysOf[d][l] <=> x \in Own(l) \/ \E i \in 1..a + 1 : x \in KeysOf[d - 1][l.kids[i]]
      BY <2>2, KeysInner DEF a
    <3>3. x \in KeysOf[d][r] <=> x \in Own(r) \/ \E i \in 1..b + 1 : x \in KeysOf[d - 1][r.kids[i]]
      BY <2>2, KeysInner DEF b
    <3>4. (\E i \in 1..a + 1 + b + 1 : x \in KeysOf[d - 1][ks[i]]) <=>
            \/ \E i \in 1..a + 1 : x \in KeysOf[d - 1][l.kids[i]]
            \/ \E i \in 1..b + 1 : x \in KeysOf[d - 1][r.kids[i]]
      <4>1. \A i \in 1..a + 1 : i \in 1..a + 1 + b + 1
        BY <1>1
      <4>2. \A i \in 1..b + 1 : a + 1 + i \in 1..a + 1 + b + 1
        BY <1>1
      <4> QED
        BY <1>9, <1>10, <1>11, <2>2, <4>1, <4>2
    <3> QED
      BY <1>14, <3>1, <3>2, <3>3, <3>4 DEF AllKeys
  <2> QED
    BY <2>1, <2>2
<1>16. Glue(l, e, r) = g
  BY DEF Glue, g, es, ks
<1>17. a + 1 + b = NKeys(l) + NKeys(r) + 1
  BY <1>1 DEF a, b
<1> QED
  BY <1>6, <1>13, <1>15, <1>16, <1>17

-----------------------------------------------------------------------------
(* Replacing some children of a node and the entries between them. *)

(* x is a key of p, but neither below one of the children i to h nor the key of
   an entry between them. *)
Elsewhere(d, p, i, h, x) ==
  \/ \E j \in 1..NKeys(p) : j \notin i..h - 1 /\ x = p.entries[j].key
  \/ \E j \in 1..NKeys(p) + 1 : j \notin i..h /\ x \in KeysOf[d - 1][p.kids[j]]

(* A key outside the children i to h is found in the node that replaces n,
   too. *)
LEMMA Outside ==
  ASSUME NEW d \in Nat, d > 0, NEW p \in Sound[d],
         NEW i \in 1..NKeys(p) + 1, NEW h \in i..NKeys(p) + 1, NEW x \in Int,
         i > 1 => p.entries[i - 1].key < x,
         h <= NKeys(p) => x < p.entries[h].key
  PROVE  ~Elsewhere(d, p, i, h, x)
<1>1. /\ NKeys(p) \in Nat
      /\ \A a, b \in 1..NKeys(p) : a < b => p.entries[a].key < p.entries[b].key
      /\ \A a \in 1..NKeys(p) : p.entries[a].key \in Int
  BY SoundParts, OwnKeys DEF Ordered
<1>2. ASSUME NEW j \in 1..NKeys(p), j < i PROVE p.entries[j].key < x
  <2>1. i - 1 \in 1..NKeys(p) /\ j <= i - 1 /\ i > 1
    BY <1>1, <1>2
  <2>2. p.entries[j].key <= p.entries[i - 1].key
    BY <1>1, <2>1
  <2> QED
    BY <1>1, <2>1, <2>2
<1>3. ASSUME NEW j \in 1..NKeys(p), j >= h PROVE x < p.entries[j].key
  <2>1. h \in 1..NKeys(p)
    BY <1>1, <1>3
  <2>2. p.entries[h].key <= p.entries[j].key
    BY <1>1, <1>3, <2>1
  <2> QED
    BY <1>1, <2>1, <2>2
<1>4. ASSUME NEW j \in 1..NKeys(p), j \notin i..h - 1 PROVE x # p.entries[j].key
  <2>1. j < i \/ j >= h
    BY <1>1, <1>4
  <2> QED
    BY <1>1, <1>2, <1>3, <2>1
<1>5. ASSUME NEW j \in 1..NKeys(p) + 1, j \notin i..h, x \in KeysOf[d - 1][p.kids[j]]
      PROVE  FALSE
  <2>1. /\ j > 1 => p.entries[j - 1].key < x
        /\ j <= NKeys(p) => x < p.entries[j].key
    BY <1>5, KidGap
  <2>2. CASE j < i
    <3>1. j \in 1..NKeys(p) /\ p.entries[j].key < x
      BY <1>1, <1>2, <2>2
    <3> QED
      BY <1>1, <2>1, <3>1
  <2>3. CASE j > h
    <3>1. j - 1 \in 1..NKeys(p) /\ j - 1 >= h /\ j > 1
      BY <1>1, <2>3
    <3>2. x < p.entries[j - 1].key
      BY <1>3, <3>1
    <3> QED
      BY <1>1, <2>1, <3>1, <3>2
  <2>4. j < i \/ j > h
    BY <1>1, <1>5
  <2> QED
    BY <2>2, <2>3, <2>4
<1> QED
  BY <1>4, <1>5 DEF Elsewhere

LEMMA AroundOne ==
  ASSUME NEW d \in Nat, d > 0, NEW p \in Sound[d], NEW i \in 1..NKeys(p) + 1, NEW x
  PROVE  Elsewhere(d, p, i, i, x) <=> x \in KeysOf[d][p] /\ x \notin KeysOf[d - 1][p.kids[i]]
<1>1. NKeys(p) \in Nat
  BY SoundParts
<1>2. x \in KeysOf[d - 1][p.kids[i]] => ~Elsewhere(d, p, i, i, x)
  BY <1>1, KidGap, Outside
<1>3. x \in KeysOf[d][p] <=>
        \/ \E j \in 1..NKeys(p) : x = p.entries[j].key
        \/ \E j \in 1..NKeys(p) + 1 : x \in KeysOf[d - 1][p.kids[j]]
  BY KeysSplit
<1>4. \A j \in 1..NKeys(p) : j \notin i..i - 1
  BY <1>1
<1>5. \A j \in 1..NKeys(p) + 1 : j \notin i..i <=> j # i
  BY <1>1
<1> QED
  BY <1>2, <1>3, <1>4, <1>5 DEF Elsewhere

LEMMA AroundTwo ==
  ASSUME NEW d \in Nat, d > 0, NEW p \in Sound[d], NEW i \in 1..NKeys(p), NEW x
  PROVE  /\ Elsewhere(d, p, i, i + 1, x) <=>
              /\ x \in KeysOf[d][p]
              /\ x \notin AllKeys(d - 1, p.kids[i], p.entries[i], p.kids[i + 1])
         /\ x \in AllKeys(d - 1, p.kids[i], p.entries[i], p.kids[i + 1]) =>
              /\ x \in Int
              /\ i > 1 => p.entries[i - 1].key < x
              /\ i + 1 <= NKeys(p) => x < p.entries[i + 1].key
<1> DEFINE all == AllKeys(d - 1, p.kids[i], p.entries[i], p.kids[i + 1])
<1>1. /\ NKeys(p) \in Nat /\ i \in 1..NKeys(p) + 1 /\ i + 1 \in i..NKeys(p) + 1
      /\ i + 1 \in 1..NKeys(p) + 1
      /\ \A a, b \in 1..NKeys(p) : a < b => p.entries[a].key < p.entries[b].key
      /\ \A a \in 1..NKeys(p) : p.entries[a].key \in Int
  BY SoundParts, OwnKeys DEF Ordered
<1>2. ASSUME x \in all
      PROVE  /\ x \in Int
             /\ i > 1 => p.entries[i - 1].key < x
             /\ i + 1 <= NKeys(p) => x < p.entries[i + 1].key
  <2>1. CASE x \in KeysOf[d - 1][p.kids[i]]
    <3>1. /\ x \in Int /\ i > 1 => p.entries[i - 1].key < x
          /\ x < p.entries[i].key
      BY <1>1, <2>1, KidGap
    <3> QED
      BY <1>1, <2>1, <3>1, KidGap
  <2>2. CASE x = p.entries[i].key
    BY <1>1, <2>2
  <2>3. CASE x \in KeysOf[d - 1][p.kids[i + 1]]
    <3>1. /\ x \in Int /\ p.entries[i].key < x
          /\ i + 1 <= NKeys(p) => x < p.entries[i + 1].key
      <4>1. i + 1 > 1 /\ (i + 1) - 1 = i
        BY <1>1
      <4> QED
        BY <1>1, <2>3, <4>1, KidGap
    <3>2. i > 1 => p.entries[i - 1].key < p.entries[i].key /\ p.entries[i - 1].key \in Int
      BY <1>1
    <3> QED
      BY <1>1, <3>1, <3>2
  <2> QED
    BY <1>2, <2>1, <2>2, <2>3 DEF AllKeys
<1>3. x \in all => ~Elsewhere(d, p, i, i + 1, x)
  BY <1>1, <1>2, Outside
<1>4. x \in KeysOf[d][p] <=>
        \/ \E j \in 1..NKeys(p) : x = p.entries[j].key
        \/ \E j \in 1..NKeys(p) + 1 : x \in KeysOf[d - 1][p.kids[j]]
  BY KeysSplit
<1>5. \A j \in 1..NKeys(p) : j \notin i..(i + 1) - 1 <=> j # i
  BY <1>1
<1>6. \A j \in 1..NKeys(p) + 1 : j \notin i..i + 1 <=> j # i /\ j # i + 1
  BY <1>1
<1>7. x \in all <=> \/ x = p.entries[i].key
                    \/ x \in KeysOf[d - 1][p.kids[i]] \/ x \in KeysOf[d - 1][p.kids[i + 1]]
  BY DEF AllKeys
<1> HIDE DEF all
<1>8. Elsewhere(d, p, i, i + 1, x) <=> x \in KeysOf[d][p] /\ x \notin all
  BY <1>1, <1>3, <1>4, <1>5, <1>6, <1>7 DEF Elsewhere
<1> QED
  BY <1>2, <1>8 DEF all

-----------------------------------------------------------------------------
(* btree_delete_recursive and btree_insert_nonfull change one child of a node
   ... *)
LEMMA WithKidParts ==
  ASSUME NEW d \in Nat, d > 0, NEW p \in Sound[d], NEW i \in 1..NKeys(p) + 1,
         NEW c \in Sound[d - 1]
  PROVE  /\ WithKid(p, i, c) = Node(WithKid(p, i, c).entries, WithKid(p, i, c).kids)
         /\ WithKid(p, i, c).entries = p.entries /\ NKeys(WithKid(p, i, c)) = NKeys(p)
         /\ WithKid(p, i, c).kids \in Seq(Sound[d - 1])
         /\ Len(WithKid(p, i, c).kids) = NKeys(p) + 1
         /\ WithKid(p, i, c).kids[i] = c
         /\ \A j \in 1..NKeys(p) + 1 : j # i => WithKid(p, i, c).kids[j] = p.kids[j]
<1> DEFINE K == Sound[d - 1]
           s == p.kids
           ks == [p.kids EXCEPT ![i] = c]
<1>1. s \in Seq(K) /\ Len(s) = NKeys(p) + 1
  BY InnerParts
<1>2. c \in K /\ ks = [s EXCEPT ![i] = c]
  OBVIOUS
<1> HIDE DEF K, s, ks
<1>3. i \in 1..Len(s)
  BY <1>1
<1>4. ks \in Seq(K) /\ Len(ks) = Len(s) /\ \A j \in 1..Len(s) : ks[j] = IF j = i THEN c ELSE s[j]
  BY <1>1, <1>2, <1>3, ExceptSeq
<1>5. WithKid(p, i, c) = Node(p.entries, ks)
  BY DEF WithKid, ks
<1>6. NKeys(p) = Len(p.entries)
  BY SoundParts
<1>7. ks[i] = c /\ \A j \in 1..NKeys(p) + 1 : j # i => ks[j] = p.kids[j]
  BY <1>1, <1>3, <1>4 DEF s
<1> QED
  BY <1>1, <1>4, <1>5, <1>6, <1>7, NodeFields DEF K

(* ... which stays sound if the keys of the new child fit. *)
LEMMA WithKidSound ==
  ASSUME NEW d \in Nat, d > 0, NEW p \in Sound[d], NEW i \in 1..NKeys(p) + 1,
         NEW c \in Sound[d - 1], NKeys(c) >= MinKeys, Fits(p, i, KeysOf[d - 1][c])
  PROVE  /\ WithKid(p, i, c) \in Sound[d]
         /\ NKeys(WithKid(p, i, c)) = NKeys(p)
         /\ WithKid(p, i, c).kids[i] = c
         /\ \A x : x \in KeysOf[d][WithKid(p, i, c)] <=>
                     \/ x \in KeysOf[d - 1][c]
                     \/ x \in KeysOf[d][p] /\ x \notin KeysOf[d - 1][p.kids[i]]
<1> DEFINE q == WithKid(p, i, c)
<1>1. /\ q = Node(q.entries, q.kids) /\ q.entries = p.entries /\ NKeys(q) = NKeys(p)
      /\ q.kids \in Seq(Sound[d - 1]) /\ Len(q.kids) = NKeys(p) + 1
      /\ q.kids[i] = c
      /\ \A j \in 1..NKeys(p) + 1 : j # i => q.kids[j] = p.kids[j]
  <2>1. q = Node(q.entries, q.kids) /\ q.entries = p.entries /\ NKeys(q) = NKeys(p)
    BY WithKidParts
  <2>2. q.kids \in Seq(Sound[d - 1]) /\ Len(q.kids) = NKeys(p) + 1 /\ q.kids[i] = c
    BY WithKidParts
  <2>3. \A j \in 1..NKeys(p) + 1 : j # i => q.kids[j] = p.kids[j]
    BY WithKidParts
  <2> QED
    BY <2>1, <2>2, <2>3
<1> HIDE DEF q
<1>2. EntriesOK(p)
  BY SoundIff
<1>3. EntriesOK(q)
  BY <1>1, <1>2 DEF EntriesOK, Ordered
<1>4. ASSUME NEW j \in 1..NKeys(p) + 1 PROVE KidOK(d, q, j)
  <2>1. \A X : Fits(p, j, X) <=> Fits(q, j, X)
    BY <1>1 DEF Fits
  <2>2. KidOK(d, p, j)
    BY InnerParts
  <2>3. CASE j = i
    BY <1>1, <2>1, <2>3 DEF KidOK
  <2>4. CASE j # i
    BY <1>1, <2>1, <2>2, <2>4 DEF KidOK
  <2> QED
    BY <2>3, <2>4
<1>5. KidsOK(d, q)
  BY <1>1, <1>4 DEF KidsOK
<1>6. q \in Sound[d]
  BY <1>1, <1>3, <1>5, SoundIff
<1>7. ASSUME NEW x
      PROVE  x \in KeysOf[d][q] <=> x \in KeysOf[d - 1][c] \/ Elsewhere(d, p, i, i, x)
  <2>1. x \in KeysOf[d][q] <=>
          \/ \E j \in 1..NKeys(p) : x = p.entries[j].key
          \/ \E j \in 1..NKeys(p) + 1 : x \in KeysOf[d - 1][q.kids[j]]
    <3>1. NKeys(q) = NKeys(p) /\ q.entries = p.entries
      BY <1>1
    <3>2. x \in KeysOf[d][q] <=>
            \/ \E j \in 1..NKeys(q) : x = q.entries[j].key
            \/ \E j \in 1..NKeys(q) + 1 : x \in KeysOf[d - 1][q.kids[j]]
      BY <1>6, KeysSplit
    <3> QED
      BY <3>1, <3>2
  <2>2. NKeys(p) \in Nat
    BY SoundParts
  <2>3. \A j \in 1..NKeys(p) : j \notin i..i - 1
    BY <2>2
  <2>4. \A j \in 1..NKeys(p) + 1 : j \notin i..i <=> j # i
    BY <2>2
  <2> QED
    BY <1>1, <2>1, <2>3, <2>4 DEF Elsewhere
<1> QED
  BY <1>1, <1>6, <1>7, AroundOne DEF q

-----------------------------------------------------------------------------
(* Two neighbours and the entry between them are replaced ... *)
LEMMA BetweenParts ==
  ASSUME NEW d \in Nat, d > 0, NEW p \in Sound[d], NEW i \in 1..NKeys(p),
         NEW l \in Sound[d - 1], NEW r \in Sound[d - 1], NEW e \in EntrySet
  PROVE  LET q == Between(p, i, l, e, r)
         IN  /\ q = Node(q.entries, q.kids)
             /\ q.entries \in Seq(EntrySet) /\ NKeys(q) = NKeys(p)
             /\ q.entries[i] = e
             /\ \A j \in 1..NKeys(p) : j # i => q.entries[j] = p.entries[j]
             /\ q.kids \in Seq(Sound[d - 1]) /\ Len(q.kids) = NKeys(p) + 1
             /\ q.kids[i] = l /\ q.kids[i + 1] = r
             /\ \A j \in 1..NKeys(p) + 1 : j # i /\ j # i + 1 => q.kids[j] = p.kids[j]
<1> DEFINE K == Sound[d - 1]
           s == p.kids
           t == p.entries
           n == NKeys(p)
           ks == [p.kids EXCEPT ![i] = l, ![i + 1] = r]
           es == [p.entries EXCEPT ![i] = e]
<1>1. s \in Seq(K) /\ Len(s) = n + 1 /\ t \in Seq(EntrySet) /\ Len(t) = n /\ n \in Nat
  BY InnerParts, SoundParts
<1>2. /\ l \in K /\ r \in K /\ i \in 1..n
      /\ ks = [[s EXCEPT ![i] = l] EXCEPT ![i + 1] = r]
      /\ es = [t EXCEPT ![i] = e]
  OBVIOUS
<1> HIDE DEF K, s, t, ks, es, n
<1>3. i \in 1..Len(s) /\ i + 1 \in 1..Len(s) /\ i \in 1..Len(t)
  BY <1>1, <1>2
<1> DEFINE u == [s EXCEPT ![i] = l]
<1>4. u \in Seq(K) /\ Len(u) = Len(s) /\ \A j \in 1..Len(s) : u[j] = IF j = i THEN l ELSE s[j]
  BY <1>1, <1>2, <1>3, ExceptSeq
<1>5. ks = [u EXCEPT ![i + 1] = r]
  BY <1>2
<1> HIDE DEF u
<1>6. i + 1 \in 1..Len(u)
  BY <1>3, <1>4
<1> DEFINE v == [u EXCEPT ![i + 1] = r]
<1>7. v \in Seq(K) /\ Len(v) = Len(u) /\ \A j \in 1..Len(u) : v[j] = IF j = i + 1 THEN r ELSE u[j]
  BY <1>2, <1>4, <1>6, ExceptSeq
<1>8. ks = v
  BY <1>5
<1> HIDE DEF v
<1>9. /\ v[i] = l /\ v[i + 1] = r
      /\ \A j \in 1..n + 1 : j # i /\ j # i + 1 => v[j] = s[j]
  BY <1>1, <1>2, <1>4, <1>7
<1>10. /\ es \in Seq(EntrySet) /\ Len(es) = Len(t)
       /\ \A j \in 1..Len(t) : es[j] = IF j = i THEN e ELSE t[j]
  BY <1>1, <1>2, <1>3, ExceptSeq
<1>11. es[i] = e /\ \A j \in 1..n : j # i => es[j] = t[j]
  BY <1>1, <1>2, <1>10
<1>12. Between(p, i, l, e, r) = Node(es, v)
  BY <1>8 DEF Between, es, ks
<1>13. Len(v) = n + 1
  BY <1>1, <1>4, <1>7
<1>14. Len(es) = n
  BY <1>1, <1>10
<1> QED
  <2> DEFINE q == Between(p, i, l, e, r)
  <2>1. q.entries = es /\ q.kids = v /\ NKeys(q) = Len(es) /\ q = Node(es, v)
    BY <1>12, NodeFields
  <2> HIDE DEF q
  <2>2. q = Node(q.entries, q.kids)
    BY <2>1
  <2>3. q.entries \in Seq(EntrySet) /\ NKeys(q) = n
    BY <1>10, <1>14, <2>1
  <2>4. q.entries[i] = e /\ \A j \in 1..n : j # i => q.entries[j] = t[j]
    BY <1>11, <2>1
  <2>5. q.kids \in Seq(K) /\ Len(q.kids) = n + 1
    BY <1>7, <1>13, <2>1
  <2>6. /\ q.kids[i] = l /\ q.kids[i + 1] = r
        /\ \A j \in 1..n + 1 : j # i /\ j # i + 1 => q.kids[j] = s[j]
    BY <1>9, <2>1
  <2> QED
    BY <2>2, <2>3, <2>4, <2>5, <2>6 DEF K, s, t, n, q

(* ... and the node stays sound if the new ones are in order. *)
LEMMA BetweenSound ==
  ASSUME NEW d \in Nat, d > 0, NEW p \in Sound[d], NEW i \in 1..NKeys(p),
         NEW l \in Sound[d - 1], NEW r \in Sound[d - 1], NEW e \in EntrySet,
         NKeys(l) >= MinKeys, NKeys(r) >= MinKeys, Splits(d - 1, l, e, r),
         AllKeys(d - 1, l, e, r) \subseteq
           AllKeys(d - 1, p.kids[i], p.entries[i], p.kids[i + 1])
  PROVE  LET q == Between(p, i, l, e, r)
         IN  /\ q \in Sound[d] /\ NKeys(q) = NKeys(p)
             /\ q.kids[i] = l /\ q.kids[i + 1] = r /\ q.entries[i] = e
             /\ i > 1 => q.entries[i - 1] = p.entries[i - 1]
             /\ i + 1 <= NKeys(p) => q.entries[i + 1] = p.entries[i + 1]
             /\ \A x : x \in KeysOf[d][q] <=>
                  \/ x \in AllKeys(d - 1, l, e, r)
                  \/ /\ x \in KeysOf[d][p]
                     /\ x \notin AllKeys(d - 1, p.kids[i], p.entries[i], p.kids[i + 1])
<1> DEFINE q == Between(p, i, l, e, r)
<1>0. q = Node(q.entries, q.kids)
  BY BetweenParts
<1>1. /\ q.entries \in Seq(EntrySet) /\ NKeys(q) = NKeys(p)
      /\ q.entries[i] = e
      /\ \A j \in 1..NKeys(p) : j # i => q.entries[j] = p.entries[j]
      /\ q.kids \in Seq(Sound[d - 1]) /\ Len(q.kids) = NKeys(p) + 1
      /\ q.kids[i] = l /\ q.kids[i + 1] = r
      /\ \A j \in 1..NKeys(p) + 1 : j # i /\ j # i + 1 => q.kids[j] = p.kids[j]
  <2>1. q.entries \in Seq(EntrySet) /\ NKeys(q) = NKeys(p)
    BY BetweenParts
  <2>2. q.kids \in Seq(Sound[d - 1]) /\ Len(q.kids) = NKeys(p) + 1
    BY BetweenParts
  <2>3. q.entries[i] = e /\ q.kids[i] = l /\ q.kids[i + 1] = r
    BY BetweenParts
  <2>4. \A j \in 1..NKeys(p) : j # i => q.entries[j] = p.entries[j]
    BY BetweenParts
  <2>5. \A j \in 1..NKeys(p) + 1 : j # i /\ j # i + 1 => q.kids[j] = p.kids[j]
    BY BetweenParts
  <2> QED
    BY <2>1, <2>2, <2>3, <2>4, <2>5
<1>2. /\ NKeys(p) \in Nat /\ NKeys(p) <= MaxKeys
      /\ \A a, b \in 1..NKeys(p) : a < b => p.entries[a].key < p.entries[b].key
      /\ \A a \in 1..NKeys(p) : p.entries[a].key \in Int
      /\ e.key \in Int
  BY SoundParts, OwnKeys, EntryKeys DEF Ordered
<1>3. ASSUME NEW x \in AllKeys(d - 1, l, e, r)
      PROVE  /\ x \in Int
             /\ i > 1 => p.entries[i - 1].key < x
             /\ i + 1 <= NKeys(p) => x < p.entries[i + 1].key
  BY AroundTwo
<1> HIDE DEF q
<1>4. /\ i > 1 => p.entries[i - 1].key < e.key
      /\ i + 1 <= NKeys(p) => e.key < p.entries[i + 1].key
  BY <1>3 DEF AllKeys
<1>10. /\ i > 1 => q.entries[i - 1] = p.entries[i - 1]
       /\ i + 1 <= NKeys(p) => q.entries[i + 1] = p.entries[i + 1]
  <2>1. /\ i > 1 => i - 1 \in 1..NKeys(p) /\ i - 1 # i
        /\ i + 1 <= NKeys(p) => i + 1 \in 1..NKeys(p) /\ i + 1 # i
    BY <1>2
  <2>2. \A j \in 1..NKeys(p) : j # i => q.entries[j] = p.entries[j]
    BY <1>1
  <2> QED
    BY <2>1, <2>2
<1>5. EntriesOK(q)
  <2>1. ASSUME NEW a \in 1..NKeys(p), NEW b \in 1..NKeys(p), a < b
        PROVE  q.entries[a].key < q.entries[b].key
    <3>1. CASE a = i
      <4>1. i + 1 \in 1..NKeys(p) /\ p.entries[i + 1].key <= p.entries[b].key
        BY <1>2, <2>1, <3>1
      <4>2. e.key < p.entries[i + 1].key
        BY <1>4, <4>1
      <4>3. q.entries[a] = e /\ q.entries[b] = p.entries[b]
        BY <1>1, <1>2, <2>1, <3>1
      <4> QED
        BY <1>2, <4>1, <4>2, <4>3
    <3>2. CASE b = i
      <4>1. i - 1 \in 1..NKeys(p) /\ i > 1 /\ p.entries[a].key <= p.entries[i - 1].key
        BY <1>2, <2>1, <3>2
      <4>2. p.entries[i - 1].key < e.key
        BY <1>4, <4>1
      <4>3. q.entries[b] = e /\ q.entries[a] = p.entries[a]
        BY <1>1, <1>2, <2>1, <3>2
      <4> QED
        BY <1>2, <4>1, <4>2, <4>3
    <3>3. CASE a # i /\ b # i
      BY <1>1, <1>2, <2>1, <3>3
    <3> QED
      BY <3>1, <3>2, <3>3
  <2> QED
    BY <1>1, <1>2, <2>1 DEF EntriesOK, Ordered
<1>6. ASSUME NEW j \in 1..NKeys(p) + 1 PROVE KidOK(d, q, j)
  <2>1. CASE j = i
    <3>1. q.kids[j] = l /\ q.entries[i] = e /\ (i > 1 => q.entries[i - 1] = p.entries[i - 1])
      BY <1>1, <1>10, <2>1
    <3>2. \A x \in KeysOf[d - 1][l] : x < e.key /\ x \in AllKeys(d - 1, l, e, r)
      BY DEF Splits, AllKeys
    <3> QED
      BY <1>3, <2>1, <3>1, <3>2 DEF KidOK, Fits
  <2>2. CASE j = i + 1
    <3>1. /\ q.kids[j] = r /\ q.entries[j - 1] = e
          /\ j <= NKeys(q) => q.entries[j] = p.entries[i + 1] /\ i + 1 <= NKeys(p)
      <4>1. j - 1 = i
        BY <1>2, <2>2
      <4> QED
        BY <1>1, <1>10, <2>2, <4>1
    <3>2. \A x \in KeysOf[d - 1][r] : e.key < x /\ x \in AllKeys(d - 1, l, e, r)
      BY DEF Splits, AllKeys
    <3> QED
      BY <1>3, <2>2, <3>1, <3>2 DEF KidOK, Fits
  <2>3. CASE j # i /\ j # i + 1
    <3>1. q.kids[j] = p.kids[j]
      BY <1>1, <2>3
    <3>2. KidOK(d, p, j)
      BY InnerParts
    <3>3. j > 1 => q.entries[j - 1] = p.entries[j - 1]
      <4>1. j > 1 => j - 1 \in 1..NKeys(p) /\ j - 1 # i
        BY <1>2, <2>3
      <4> QED
        BY <1>1, <4>1
    <3>4. j <= NKeys(p) => q.entries[j] = p.entries[j]
      <4>1. j <= NKeys(p) => j \in 1..NKeys(p) /\ j # i
        BY <1>2, <2>3
      <4> QED
        BY <1>1, <4>1
    <3> QED
      BY <1>1, <3>1, <3>2, <3>3, <3>4 DEF KidOK, Fits
  <2> QED
    BY <2>1, <2>2, <2>3
<1>7. KidsOK(d, q)
  BY <1>1, <1>6 DEF KidsOK
<1>8. q \in Sound[d]
  BY <1>0, <1>1, <1>5, <1>7, SoundIff
<1>9. ASSUME NEW x
      PROVE  x \in KeysOf[d][q] <=>
               x \in AllKeys(d - 1, l, e, r) \/ Elsewhere(d, p, i, i + 1, x)
  <2>1. x \in KeysOf[d][q] <=>
          \/ \E j \in 1..NKeys(p) : x = q.entries[j].key
          \/ \E j \in 1..NKeys(p) + 1 : x \in KeysOf[d - 1][q.kids[j]]
    <3>1. NKeys(q) = NKeys(p)
      BY <1>1
    <3>2. x \in KeysOf[d][q] <=>
            \/ \E j \in 1..NKeys(q) : x = q.entries[j].key
            \/ \E j \in 1..NKeys(q) + 1 : x \in KeysOf[d - 1][q.kids[j]]
      BY <1>8, KeysSplit
    <3> QED
      BY <3>1, <3>2
  <2>2. i \in 1..NKeys(p) + 1 /\ i + 1 \in 1..NKeys(p) + 1 /\ i # i + 1
    BY <1>2
  <2>3. \A j \in 1..NKeys(p) : j \notin i..(i + 1) - 1 <=> j # i
    BY <1>2
  <2>4. \A j \in 1..NKeys(p) + 1 : j \notin i..i + 1 <=> j # i /\ j # i + 1
    BY <1>2
  <2>5. (\E j \in 1..NKeys(p) : x = q.entries[j].key) <=>
          x = e.key \/ \E j \in 1..NKeys(p) : j \notin i..(i + 1) - 1 /\ x = p.entries[j].key
    BY <1>1, <2>3
  <2>6. (\E j \in 1..NKeys(p) + 1 : x \in KeysOf[d - 1][q.kids[j]]) <=>
          \/ x \in KeysOf[d - 1][l] \/ x \in KeysOf[d - 1][r]
          \/ \E j \in 1..NKeys(p) + 1 : j \notin i..i + 1 /\ x \in KeysOf[d - 1][p.kids[j]]
    BY <1>1, <2>2, <2>4
  <2> QED
    BY <2>1, <2>5, <2>6 DEF Elsewhere, AllKeys
<1> QED
  BY <1>1, <1>8, <1>9, <1>10, AroundTwo DEF q

-----------------------------------------------------------------------------
(* A child merged with the next one, and a child split in two. *)

(* The entries and children of the node after btree_merge, *)
LEMMA MergeParts ==
  ASSUME NEW d \in Nat, d > 0, NEW p \in Sound[d], NEW i \in 1..NKeys(p),
         NEW g \in Sound[d - 1], g = Glue(p.kids[i], p.entries[i], p.kids[i + 1])
  PROVE  LET q == MergeKids(p, i)
         IN  /\ q = Node(q.entries, q.kids)
             /\ q.entries \in Seq(EntrySet) /\ NKeys(q) = NKeys(p) - 1
             /\ \A j \in 1..i - 1 : q.entries[j] = p.entries[j]
             /\ \A j \in i..NKeys(p) - 1 : q.entries[j] = p.entries[j + 1]
             /\ q.kids \in Seq(Sound[d - 1]) /\ Len(q.kids) = NKeys(p)
             /\ \A j \in 1..i - 1 : q.kids[j] = p.kids[j]
             /\ q.kids[i] = g
             /\ \A j \in i + 1..NKeys(p) : q.kids[j] = p.kids[j + 1]
<1> DEFINE K == Sound[d - 1]
           s == p.kids
           t == p.entries
           n == NKeys(p)
           c == Glue(p.kids[i], p.entries[i], p.kids[i + 1])
           u == [s EXCEPT ![i] = c]
           v == RemoveAt(u, i + 1)
           w == RemoveAt(t, i)
           q == MergeKids(p, i)
<1>1. s \in Seq(K) /\ Len(s) = n + 1 /\ t \in Seq(EntrySet) /\ Len(t) = n /\ n \in Nat
  BY InnerParts, SoundParts
<1>2. c \in K /\ i \in 1..n
  OBVIOUS
<1>3. q = Node(w, v)
  BY DEF MergeKids
<1> HIDE DEF K, s, t, n, c, w, q
<1>4. i \in 1..Len(s) /\ i + 1 \in 1..Len(s) /\ i \in 1..Len(t)
  BY <1>1, <1>2
<1>5. u \in Seq(K) /\ Len(u) = Len(s) /\ \A j \in 1..Len(s) : u[j] = IF j = i THEN c ELSE s[j]
  BY <1>1, <1>2, <1>4, ExceptSeq
<1> HIDE DEF u
<1>6. i + 1 \in 1..Len(u)
  BY <1>4, <1>5
<1>7. /\ v \in Seq(K) /\ Len(v) = Len(u) - 1
      /\ \A j \in 1..Len(u) - 1 : v[j] = IF j < i + 1 THEN u[j] ELSE u[j + 1]
  BY <1>5, <1>6, RemoveAtSeq
<1>8. /\ w \in Seq(EntrySet) /\ Len(w) = Len(t) - 1
      /\ \A j \in 1..Len(t) - 1 : w[j] = IF j < i THEN t[j] ELSE t[j + 1]
  BY <1>1, <1>4, RemoveAtSeq DEF w
<1> HIDE DEF v
<1>9. Len(v) = n /\ Len(w) = n - 1
  BY <1>1, <1>5, <1>7, <1>8
<1>10. \A j \in 1..i - 1 : w[j] = t[j]
  BY <1>1, <1>2, <1>8
<1>11. \A j \in i..n - 1 : w[j] = t[j + 1]
  BY <1>1, <1>2, <1>8
<1>12. \A j \in 1..i - 1 : v[j] = s[j]
  BY <1>1, <1>2, <1>5, <1>7
<1>13. v[i] = c
  BY <1>1, <1>2, <1>5, <1>7
<1>14. \A j \in i + 1..n : v[j] = s[j + 1]
  <2> TAKE j \in i + 1..n
  <2>1. /\ j \in 1..Len(u) - 1 /\ ~(j < i + 1)
        /\ j + 1 \in 1..Len(s) /\ j + 1 # i
    BY <1>1, <1>2, <1>5
  <2> QED
    BY <1>5, <1>7, <2>1
<1>15. q.entries = w /\ q.kids = v /\ NKeys(q) = Len(w)
  BY <1>3, NodeFields
<1>16. q = Node(q.entries, q.kids)
  BY <1>3, <1>15
<1>17. q.entries \in Seq(EntrySet) /\ NKeys(q) = n - 1
  BY <1>8, <1>9, <1>15
<1>18. q.kids \in Seq(K) /\ Len(q.kids) = n
  BY <1>7, <1>9, <1>15
<1>19. q.kids[i] = g
  BY <1>13, <1>15 DEF c
<1>20. /\ \A j \in 1..i - 1 : q.entries[j] = t[j] /\ q.kids[j] = s[j]
       /\ \A j \in i..n - 1 : q.entries[j] = t[j + 1]
       /\ \A j \in i + 1..n : q.kids[j] = s[j + 1]
  BY <1>10, <1>11, <1>12, <1>14, <1>15
<1> QED
  BY <1>16, <1>17, <1>18, <1>19, <1>20 DEF K, s, t, n, q

(* which keeps the keys and leaves one entry less. *)
LEMMA MergeSound ==
  ASSUME NEW d \in Nat, d > 0, NEW p \in Sound[d], NEW i \in 1..NKeys(p),
         NKeys(p.kids[i]) + NKeys(p.kids[i + 1]) + 1 <= MaxKeys
  PROVE  LET q == MergeKids(p, i)
         IN  /\ q \in Sound[d] /\ NKeys(q) = NKeys(p) - 1
             /\ q.kids[i] \in Sound[d - 1]
             /\ NKeys(q.kids[i]) = NKeys(p.kids[i]) + NKeys(p.kids[i + 1]) + 1
             /\ i > 1 => q.entries[i - 1] = p.entries[i - 1]
             /\ i <= NKeys(p) - 1 => q.entries[i] = p.entries[i + 1]
             /\ KeysOf[d][q] = KeysOf[d][p]
<1> DEFINE q == MergeKids(p, i)
           l == p.kids[i]
           e == p.entries[i]
           r == p.kids[i + 1]
           g == Glue(l, e, r)
           n == NKeys(p)
<1>1. /\ n \in Nat /\ n <= MaxKeys /\ d - 1 \in Nat
      /\ \A a, b \in 1..n : a < b => p.entries[a].key < p.entries[b].key
      /\ \A a \in 1..n : p.entries[a].key \in Int
  <2>1. n \in Nat /\ n <= MaxKeys /\ Ordered(p)
    BY SoundParts
  <2>2. \A a \in 1..n : p.entries[a].key \in Int
    BY OwnKeys
  <2> QED
    BY <2>1, <2>2 DEF Ordered
<1>2. \A j \in 1..n + 1 : KidOK(d, p, j)
  BY InnerParts
<1>3. i \in 1..n + 1 /\ i + 1 \in 1..n + 1
  BY <1>1
<1>4. /\ l \in Sound[d - 1] /\ NKeys(l) >= MinKeys /\ NKeys(l) \in Nat
      /\ r \in Sound[d - 1] /\ NKeys(r) >= MinKeys /\ NKeys(r) \in Nat
  BY <1>1, <1>2, <1>3, SoundParts DEF KidOK
<1>5. e \in EntrySet /\ e.key \in Int
  BY <1>1, SoundParts
<1>6. Splits(d - 1, l, e, r)
  <2>1. \A x \in KeysOf[d - 1][l] : x < e.key
    BY <1>1, <1>3, KidGap
  <2>2. \A x \in KeysOf[d - 1][r] : e.key < x
    <3>1. i + 1 > 1 /\ (i + 1) - 1 = i
      BY <1>1
    <3> QED
      BY <1>3, <3>1, KidGap
  <2> QED
    BY <2>1, <2>2 DEF Splits
<1>7. /\ g \in Sound[d - 1] /\ NKeys(g) = NKeys(l) + NKeys(r) + 1
      /\ KeysOf[d - 1][g] = AllKeys(d - 1, l, e, r)
  BY <1>1, <1>4, <1>5, <1>6, GlueSound
<1>8. ASSUME NEW x \in AllKeys(d - 1, l, e, r)
      PROVE  /\ x \in Int
             /\ i > 1 => p.entries[i - 1].key < x
             /\ i + 1 <= n => x < p.entries[i + 1].key
  BY AroundTwo
<1>9. \A x : Elsewhere(d, p, i, i + 1, x) <=> x \in KeysOf[d][p] /\ x \notin AllKeys(d - 1, l, e, r)
  BY AroundTwo
<1>10. \A x \in AllKeys(d - 1, l, e, r) : x \in KeysOf[d][p]
  BY <1>3, OwnInKeys, KidInKeys DEF AllKeys
<1>11. q = Node(q.entries, q.kids)
  BY <1>7, MergeParts
<1>12. /\ q.entries \in Seq(EntrySet) /\ NKeys(q) = n - 1
       /\ q.kids \in Seq(Sound[d - 1]) /\ Len(q.kids) = n
  BY <1>7, MergeParts
<1>13. /\ \A j \in 1..i - 1 : q.entries[j] = p.entries[j]
       /\ \A j \in i..n - 1 : q.entries[j] = p.entries[j + 1]
  BY <1>7, MergeParts
<1>14. /\ \A j \in 1..i - 1 : q.kids[j] = p.kids[j]
       /\ \A j \in i + 1..n : q.kids[j] = p.kids[j + 1]
  BY <1>7, MergeParts
<1>15. q.kids[i] = g
  BY <1>7, MergeParts
<1> HIDE DEF q, l, e, r, g, n
<1>16. i \in 1..n
  BY DEF n
<1>17. EntriesOK(q)
  <2>1. ASSUME NEW a \in 1..n - 1, NEW b \in 1..n - 1, a < b
        PROVE  q.entries[a].key < q.entries[b].key
    <3>1. CASE b < i
      <4>1. a \in 1..i - 1 /\ b \in 1..i - 1 /\ a \in 1..n /\ b \in 1..n
        BY <1>1, <1>16, <2>1, <3>1
      <4> QED
        BY <1>1, <1>13, <2>1, <4>1
    <3>2. CASE a < i /\ ~(b < i)
      <4>1. a \in 1..i - 1 /\ b \in i..n - 1 /\ a \in 1..n /\ b + 1 \in 1..n /\ a < b + 1
        BY <1>1, <1>16, <2>1, <3>2
      <4> QED
        BY <1>1, <1>13, <4>1
    <3>3. CASE ~(a < i) /\ ~(b < i)
      <4>1. a \in i..n - 1 /\ b \in i..n - 1 /\ a + 1 \in 1..n /\ b + 1 \in 1..n /\ a + 1 < b + 1
        BY <1>1, <1>16, <2>1, <3>3
      <4> QED
        BY <1>1, <1>13, <4>1
    <3>4. b < i \/ (a < i /\ ~(b < i)) \/ (~(a < i) /\ ~(b < i))
      BY <1>16, <2>1
    <3> QED
      BY <3>1, <3>2, <3>3, <3>4
  <2>2. n - 1 \in Nat /\ n - 1 <= MaxKeys
    BY <1>1, <1>16, Bounds
  <2> QED
    BY <1>12, <2>1, <2>2 DEF EntriesOK, Ordered
<1>18. ASSUME NEW j \in 1..n PROVE KidOK(d, q, j)
  <2>1. CASE j < i
    <3>1. /\ j \in 1..i - 1 /\ j \in 1..n + 1 /\ j <= n /\ j <= n - 1
          /\ j > 1 => j - 1 \in 1..i - 1
      BY <1>1, <1>16, <2>1
    <3>2. KidOK(d, p, j)
      BY <1>2, <3>1
    <3>3. q.kids[j] = p.kids[j] /\ q.entries[j] = p.entries[j]
      BY <1>13, <1>14, <3>1
    <3>4. j > 1 => q.entries[j - 1] = p.entries[j - 1]
      BY <1>13, <3>1
    <3> QED
      BY <1>12, <3>1, <3>2, <3>3, <3>4 DEF KidOK, Fits, n
  <2>2. CASE j = i
    <3>1. i > 1 => i - 1 \in 1..i - 1
      BY <1>16
    <3>2. i <= n - 1 => i \in i..n - 1 /\ i + 1 <= n
      BY <1>1, <1>16
    <3>3. i > 1 => q.entries[i - 1] = p.entries[i - 1]
      BY <1>13, <3>1
    <3>4. i <= n - 1 => q.entries[i] = p.entries[i + 1] /\ i + 1 <= n
      BY <1>13, <3>2
    <3>5. Fits(q, i, KeysOf[d - 1][g])
      BY <1>7, <1>8, <1>12, <3>3, <3>4 DEF Fits
    <3>6. NKeys(g) >= MinKeys
      BY <1>4, <1>7, Bounds
    <3> QED
      BY <1>7, <1>15, <2>2, <3>5, <3>6 DEF KidOK
  <2>3. CASE j > i
    <3>1. /\ j \in i + 1..n /\ j + 1 \in 1..n + 1 /\ j - 1 \in i..n - 1
          /\ (j - 1) + 1 = j /\ (j + 1) - 1 = j /\ j > 1 /\ j + 1 > 1
          /\ j <= n - 1 => j \in i..n - 1 /\ j + 1 <= n
      BY <1>1, <1>16, <2>3
    <3>2. KidOK(d, p, j + 1)
      BY <1>2, <3>1
    <3>3. q.kids[j] = p.kids[j + 1]
      BY <1>14, <3>1
    <3>4. q.entries[j - 1] = p.entries[j]
      <4>1. q.entries[j - 1] = p.entries[(j - 1) + 1]
        BY <1>13, <3>1
      <4> QED
        BY <3>1, <4>1
    <3>5. j <= n - 1 => q.entries[j] = p.entries[j + 1] /\ j + 1 <= n
      BY <1>13, <3>1
    <3>6. \A x \in KeysOf[d - 1][p.kids[j + 1]] :
             p.entries[j].key < x /\ (j + 1 <= n => x < p.entries[j + 1].key)
      <4>1. Fits(p, j + 1, KeysOf[d - 1][p.kids[j + 1]])
        BY <3>2 DEF KidOK
      <4>2. \A x \in KeysOf[d - 1][p.kids[j + 1]] : p.entries[(j + 1) - 1].key < x
        BY <3>1, <4>1 DEF Fits
      <4>3. \A x \in KeysOf[d - 1][p.kids[j + 1]] : j + 1 <= n => x < p.entries[j + 1].key
        BY <4>1 DEF Fits, n
      <4> QED
        BY <3>1, <4>2, <4>3
    <3>7. Fits(q, j, KeysOf[d - 1][q.kids[j]])
      BY <1>12, <3>3, <3>4, <3>5, <3>6 DEF Fits
    <3> QED
      BY <3>2, <3>3, <3>7 DEF KidOK
  <2>4. j < i \/ j = i \/ j > i
    BY <1>16
  <2> QED
    BY <2>1, <2>2, <2>3, <2>4
<1>19. KidsOK(d, q)
  <2>1. n = (n - 1) + 1
    BY <1>1
  <2> QED
    BY <1>12, <1>18, <2>1 DEF KidsOK
<1>20. q \in Sound[d]
  BY <1>11, <1>17, <1>19, SoundIff
<1>21. ASSUME NEW x
       PROVE  x \in KeysOf[d][q] <=> x \in AllKeys(d - 1, l, e, r) \/ Elsewhere(d, p, i, i + 1, x)
  <2>1. (n - 1) + 1 = n
    BY <1>1
  <2>2. x \in KeysOf[d][q] <=>
          \/ \E j \in 1..n - 1 : x = q.entries[j].key
          \/ \E j \in 1..n : x \in KeysOf[d - 1][q.kids[j]]
    <3>1. NKeys(q) = n - 1 /\ NKeys(q) + 1 = n
      BY <1>12, <2>1
    <3>2. x \in KeysOf[d][q] <=>
            \/ \E j \in 1..NKeys(q) : x = q.entries[j].key
            \/ \E j \in 1..NKeys(q) + 1 : x \in KeysOf[d - 1][q.kids[j]]
      BY <1>20, KeysSplit
    <3> QED
      BY <3>1, <3>2
  <2>3. (\E j \in 1..n - 1 : x = q.entries[j].key) <=>
          \E j \in 1..n : j \notin i..(i + 1) - 1 /\ x = p.entries[j].key
    <3>1. ASSUME NEW j \in 1..n - 1
          PROVE  \/ j \in 1..n /\ j \notin i..(i + 1) - 1 /\ q.entries[j] = p.entries[j]
                 \/ j + 1 \in 1..n /\ j + 1 \notin i..(i + 1) - 1 /\ q.entries[j] = p.entries[j + 1]
      <4>1. \/ j \in 1..i - 1 /\ j \in 1..n /\ j \notin i..(i + 1) - 1
            \/ j \in i..n - 1 /\ j + 1 \in 1..n /\ j + 1 \notin i..(i + 1) - 1
        BY <1>1, <1>16
      <4> QED
        BY <1>13, <4>1
    <3>2. ASSUME NEW j \in 1..n, j \notin i..(i + 1) - 1
          PROVE  \E h \in 1..n - 1 : q.entries[h] = p.entries[j]
      <4>1. \/ j \in 1..i - 1 /\ j \in 1..n - 1
            \/ j - 1 \in i..n - 1 /\ j - 1 \in 1..n - 1 /\ (j - 1) + 1 = j
        BY <1>1, <1>16, <3>2
      <4> QED
        BY <1>13, <4>1
    <3> QED
      BY <3>1, <3>2
  <2>4. (\E j \in 1..n : x \in KeysOf[d - 1][q.kids[j]]) <=>
          \/ x \in KeysOf[d - 1][g]
          \/ \E j \in 1..n + 1 : j \notin i..i + 1 /\ x \in KeysOf[d - 1][p.kids[j]]
    <3>1. ASSUME NEW j \in 1..n
          PROVE  \/ j \in 1..n + 1 /\ j \notin i..i + 1 /\ q.kids[j] = p.kids[j]
                 \/ q.kids[j] = g
                 \/ j + 1 \in 1..n + 1 /\ j + 1 \notin i..i + 1 /\ q.kids[j] = p.kids[j + 1]
      <4>1. \/ j \in 1..i - 1 /\ j \in 1..n + 1 /\ j \notin i..i + 1
            \/ j = i
            \/ j \in i + 1..n /\ j + 1 \in 1..n + 1 /\ j + 1 \notin i..i + 1
        BY <1>1, <1>16
      <4> QED
        BY <1>14, <1>15, <4>1
    <3>2. ASSUME NEW j \in 1..n + 1, j \notin i..i + 1
          PROVE  \E h \in 1..n : q.kids[h] = p.kids[j]
      <4>1. \/ j \in 1..i - 1 /\ j \in 1..n
            \/ j - 1 \in i + 1..n /\ j - 1 \in 1..n /\ (j - 1) + 1 = j
        BY <1>1, <1>16, <3>2
      <4> QED
        BY <1>14, <4>1
    <3> QED
      BY <1>15, <1>16, <3>1, <3>2
  <2> QED
    BY <1>7, <2>2, <2>3, <2>4 DEF Elsewhere, AllKeys, l, e, r, n
<1>22. KeysOf[d][q] = KeysOf[d][p]
  BY <1>9, <1>10, <1>21
<1>23. i > 1 => q.entries[i - 1] = p.entries[i - 1]
  <2>1. i > 1 => i - 1 \in 1..i - 1
    BY <1>16
  <2> QED
    BY <1>13, <2>1
<1>24. i <= n - 1 => q.entries[i] = p.entries[i + 1]
  <2>1. i <= n - 1 => i \in i..n - 1
    BY <1>1, <1>16
  <2> QED
    BY <1>13, <2>1
<1> QED
  BY <1>7, <1>12, <1>15, <1>20, <1>22, <1>23, <1>24 DEF q, g, l, r, e, n

(* v is s with e put in at i. *)
IsInsert(S, s, i, e, v) ==
  /\ v \in Seq(S) /\ Len(v) = Len(s) + 1 /\ v[i] = e
  /\ \A j \in 1..i - 1 : v[j] = s[j]
  /\ \A j \in i + 1..Len(s) + 1 : v[j] = s[j - 1]

(* What InsertAt does to a sequence, and what a split does to the children. *)
LEMMA InsertAtParts ==
  ASSUME NEW S, NEW s \in Seq(S), NEW i \in 1..Len(s) + 1, NEW e \in S
  PROVE  IsInsert(S, s, i, e, InsertAt(s, i, e))
<1> DEFINE v == InsertAt(s, i, e)
<1>1. /\ v \in Seq(S) /\ Len(v) = Len(s) + 1
      /\ \A j \in 1..Len(s) + 1 : v[j] = IF j < i THEN s[j] ELSE IF j = i THEN e ELSE s[j - 1]
  BY InsertAtSeq
<1>2. Len(s) \in Nat
  OBVIOUS
<1> HIDE DEF v
<1>3. v[i] = e
  BY <1>1, <1>2
<1>4. \A j \in 1..i - 1 : v[j] = s[j]
  BY <1>1, <1>2
<1>5. \A j \in i + 1..Len(s) + 1 : v[j] = s[j - 1]
  BY <1>1, <1>2
<1> QED
  BY <1>1, <1>3, <1>4, <1>5 DEF v, IsInsert

(* v is s with x and y instead of the element i. *)
IsSplice(S, s, i, x, y, v) ==
  /\ v \in Seq(S) /\ Len(v) = Len(s) + 1 /\ v[i] = x /\ v[i + 1] = y
  /\ \A j \in 1..i - 1 : v[j] = s[j]
  /\ \A j \in i + 2..Len(s) + 1 : v[j] = s[j - 1]

LEMMA SpliceSeq ==
  ASSUME NEW S, NEW s \in Seq(S), NEW i \in 1..Len(s), NEW x \in S, NEW y \in S
  PROVE  IsSplice(S, s, i, x, y, InsertAt([s EXCEPT ![i] = x], i + 1, y))
<1> DEFINE u == [s EXCEPT ![i] = x]
           v == InsertAt(u, i + 1, y)
<1>1. u \in Seq(S) /\ Len(u) = Len(s) /\ \A j \in 1..Len(s) : u[j] = IF j = i THEN x ELSE s[j]
  BY ExceptSeq
<1>2. Len(s) \in Nat
  OBVIOUS
<1> HIDE DEF u
<1>3. i + 1 \in 1..Len(u) + 1
  BY <1>1, <1>2
<1>4. IsInsert(S, u, i + 1, y, v)
  BY <1>1, <1>3, InsertAtParts
<1> HIDE DEF v
<1>5. v \in Seq(S) /\ Len(v) = Len(u) + 1 /\ v[i + 1] = y
  BY <1>4 DEF IsInsert
<1>6. /\ \A j \in 1..(i + 1) - 1 : v[j] = u[j]
      /\ \A j \in (i + 1) + 1..Len(u) + 1 : v[j] = u[j - 1]
  BY <1>4 DEF IsInsert
<1>7. v[i] = x
  BY <1>1, <1>2, <1>6
<1>8. \A j \in 1..i - 1 : v[j] = s[j]
  BY <1>1, <1>2, <1>6
<1>9. \A j \in i + 2..Len(s) + 1 : v[j] = s[j - 1]
  <2> TAKE j \in i + 2..Len(s) + 1
  <2>1. j \in (i + 1) + 1..Len(u) + 1 /\ j - 1 \in 1..Len(s) /\ j - 1 # i
    BY <1>1, <1>2
  <2> QED
    BY <1>1, <1>6, <2>1
<1> QED
  BY <1>1, <1>5, <1>7, <1>8, <1>9 DEF v, u, IsSplice

(* The entries and children of the node after btree_split_child, *)
LEMMA SplitParts ==
  ASSUME NEW d \in Nat, d > 0, NEW p \in Sound[d], NEW i \in 1..NKeys(p) + 1,
         NEW l \in Sound[d - 1], NEW r \in Sound[d - 1], NEW e \in EntrySet,
         l = Before(p.kids[i], MinKeys + 1), r = After(p.kids[i], MinKeys + 1),
         e = p.kids[i].entries[MinKeys + 1]
  PROVE  LET q == SplitChild(p, i)
         IN  /\ q = Node(q.entries, q.kids)
             /\ q.entries \in Seq(EntrySet) /\ NKeys(q) = NKeys(p) + 1
             /\ q.entries[i] = e
             /\ \A j \in 1..i - 1 : q.entries[j] = p.entries[j]
             /\ \A j \in i + 1..NKeys(p) + 1 : q.entries[j] = p.entries[j - 1]
             /\ q.kids \in Seq(Sound[d - 1]) /\ Len(q.kids) = NKeys(p) + 2
             /\ q.kids[i] = l /\ q.kids[i + 1] = r
             /\ \A j \in 1..i - 1 : q.kids[j] = p.kids[j]
             /\ \A j \in i + 2..NKeys(p) + 2 : q.kids[j] = p.kids[j - 1]
<1> DEFINE K == Sound[d - 1]
           s == p.kids
           t == p.entries
           n == NKeys(p)
           l0 == Before(p.kids[i], MinKeys + 1)
           r0 == After(p.kids[i], MinKeys + 1)
           e0 == p.kids[i].entries[MinKeys + 1]
           u == [s EXCEPT ![i] = l0]
           v == InsertAt(u, i + 1, r0)
           w == InsertAt(t, i, e0)
           q == SplitChild(p, i)
<1>1. s \in Seq(K) /\ Len(s) = n + 1 /\ t \in Seq(EntrySet) /\ Len(t) = n /\ n \in Nat
  BY InnerParts, SoundParts
<1>2. l0 \in K /\ r0 \in K /\ e0 \in EntrySet /\ i \in 1..n + 1
  OBVIOUS
<1>3. q = Node(w, v)
  BY DEF SplitChild
<1>4. i \in 1..Len(s) /\ i \in 1..Len(t) + 1
  BY <1>1, <1>2
<1> HIDE DEF K, s, t, n, l0, r0, e0, q
<1>51. IsSplice(K, s, i, l0, r0, v)
  BY <1>1, <1>2, <1>4, SpliceSeq
<1>52. IsInsert(EntrySet, t, i, e0, w)
  BY <1>1, <1>2, <1>4, InsertAtParts
<1> HIDE DEF u, v, w
<1>5. /\ v \in Seq(K) /\ Len(v) = Len(s) + 1 /\ v[i] = l0 /\ v[i + 1] = r0
      /\ \A j \in 1..i - 1 : v[j] = s[j]
      /\ \A j \in i + 2..Len(s) + 1 : v[j] = s[j - 1]
  BY <1>51 DEF IsSplice
<1>6. /\ w \in Seq(EntrySet) /\ Len(w) = Len(t) + 1 /\ w[i] = e0
      /\ \A j \in 1..i - 1 : w[j] = t[j]
      /\ \A j \in i + 1..Len(t) + 1 : w[j] = t[j - 1]
  BY <1>52 DEF IsInsert
<1>7. Len(v) = n + 2 /\ Len(w) = n + 1
  BY <1>1, <1>5, <1>6
<1>8. \A j \in i + 1..n + 1 : w[j] = t[j - 1]
  BY <1>1, <1>6
<1>9. \A j \in i + 2..n + 2 : v[j] = s[j - 1]
  <2>1. (n + 1) + 1 = n + 2
    BY <1>1
  <2> QED
    BY <1>1, <1>5, <2>1
<1>16. q.entries = w /\ q.kids = v /\ NKeys(q) = Len(w)
  BY <1>3, NodeFields
<1>17. q = Node(q.entries, q.kids)
  BY <1>3, <1>16
<1>18. q.entries \in Seq(EntrySet) /\ NKeys(q) = n + 1
  BY <1>6, <1>7, <1>16
<1>19. q.kids \in Seq(K) /\ Len(q.kids) = n + 2
  BY <1>5, <1>7, <1>16
<1>20. q.kids[i] = l /\ q.kids[i + 1] = r /\ q.entries[i] = e
  BY <1>5, <1>6, <1>16 DEF l0, r0, e0
<1>21. /\ \A j \in 1..i - 1 : q.entries[j] = t[j] /\ q.kids[j] = s[j]
       /\ \A j \in i + 1..n + 1 : q.entries[j] = t[j - 1]
       /\ \A j \in i + 2..n + 2 : q.kids[j] = s[j - 1]
  BY <1>5, <1>6, <1>8, <1>9, <1>16
<1> QED
  BY <1>17, <1>18, <1>19, <1>20, <1>21 DEF K, s, t, n, q

(* which keeps the keys, adds an entry and leaves two children at the minimum.
   *)
LEMMA SplitSound ==
  ASSUME NEW d \in Nat, d > 0, NEW p \in Sound[d], NEW i \in 1..NKeys(p) + 1,
         NKeys(p) < MaxKeys, NKeys(p.kids[i]) = MaxKeys
  PROVE  LET q == SplitChild(p, i)
         IN  /\ q \in Sound[d] /\ NKeys(q) = NKeys(p) + 1
             /\ NKeys(q.kids[i]) = MinKeys /\ NKeys(q.kids[i + 1]) = MinKeys
             /\ i > 1 => q.entries[i - 1] = p.entries[i - 1]
             /\ i <= NKeys(p) => q.entries[i + 1] = p.entries[i]
             /\ KeysOf[d][q] = KeysOf[d][p]
<1> DEFINE q == SplitChild(p, i)
           c == p.kids[i]
           l == Before(c, MinKeys + 1)
           r == After(c, MinKeys + 1)
           e == c.entries[MinKeys + 1]
           n == NKeys(p)
<1>1. /\ n \in Nat /\ n < MaxKeys /\ d - 1 \in Nat
      /\ \A a, b \in 1..n : a < b => p.entries[a].key < p.entries[b].key
      /\ \A a \in 1..n : p.entries[a].key \in Int
  <2>1. n \in Nat /\ n < MaxKeys /\ Ordered(p)
    BY SoundParts
  <2>2. \A a \in 1..n : p.entries[a].key \in Int
    BY OwnKeys
  <2> QED
    BY <2>1, <2>2 DEF Ordered
<1>2. \A j \in 1..n + 1 : KidOK(d, p, j)
  BY InnerParts
<1>3. c \in Sound[d - 1] /\ NKeys(c) = MaxKeys /\ Fits(p, i, KeysOf[d - 1][c])
  BY <1>2 DEF KidOK
<1>4. MinKeys + 1 \in 1..NKeys(c)
  BY <1>3, Bounds
<1>5. /\ l \in Sound[d - 1] /\ r \in Sound[d - 1] /\ e \in EntrySet /\ e.key \in Int
      /\ NKeys(l) = MinKeys /\ NKeys(r) = MinKeys
  <2>1. l \in Sound[d - 1] /\ r \in Sound[d - 1]
    BY <1>1, <1>3, <1>4, CutSound
  <2>2. e \in EntrySet /\ e.key \in Int
    BY <1>1, <1>3, <1>4, OwnKeys
  <2>3. NKeys(l) = (MinKeys + 1) - 1
    BY <1>1, <1>3, <1>4, BeforeParts
  <2>4. NKeys(r) = NKeys(c) - (MinKeys + 1)
    BY <1>1, <1>3, <1>4, AfterParts
  <2> QED
    BY <1>3, <2>1, <2>2, <2>3, <2>4, Bounds
<1>6. Splits(d - 1, l, e, r) /\ KeysOf[d - 1][c] = AllKeys(d - 1, l, e, r)
  BY <1>1, <1>3, <1>4, CutKeys
<1>7. ASSUME NEW x \in AllKeys(d - 1, l, e, r)
      PROVE  /\ x \in Int
             /\ i > 1 => p.entries[i - 1].key < x
             /\ i <= n => x < p.entries[i].key
  BY <1>6, KidGap
<1>8. \A x : Elsewhere(d, p, i, i, x) <=> x \in KeysOf[d][p] /\ x \notin AllKeys(d - 1, l, e, r)
  BY <1>6, AroundOne
<1>9. \A x \in AllKeys(d - 1, l, e, r) : x \in KeysOf[d][p]
  BY <1>6, KidInKeys
<1>10. q = Node(q.entries, q.kids)
  BY <1>5, SplitParts
<1>11. /\ q.entries \in Seq(EntrySet) /\ NKeys(q) = n + 1
       /\ q.kids \in Seq(Sound[d - 1]) /\ Len(q.kids) = n + 2
  BY <1>5, SplitParts
<1>12. q.entries[i] = e /\ q.kids[i] = l /\ q.kids[i + 1] = r
  BY <1>5, SplitParts
<1>13. /\ \A j \in 1..i - 1 : q.entries[j] = p.entries[j]
       /\ \A j \in i + 1..n + 1 : q.entries[j] = p.entries[j - 1]
  BY <1>5, SplitParts
<1>14. /\ \A j \in 1..i - 1 : q.kids[j] = p.kids[j]
       /\ \A j \in i + 2..n + 2 : q.kids[j] = p.kids[j - 1]
  BY <1>5, SplitParts
<1>15. i \in 1..n + 1
  OBVIOUS
<1> HIDE DEF q, c, l, e, r, n
<1>16. /\ e.key \in AllKeys(d - 1, l, e, r)
       /\ \A x \in KeysOf[d - 1][l] : x \in AllKeys(d - 1, l, e, r) /\ x < e.key
       /\ \A x \in KeysOf[d - 1][r] : x \in AllKeys(d - 1, l, e, r) /\ e.key < x
  BY <1>6 DEF AllKeys, Splits
<1>17. EntriesOK(q)
  <2>1. ASSUME NEW a \in 1..n + 1, NEW b \in 1..n + 1, a < b
        PROVE  q.entries[a].key < q.entries[b].key
    <3>1. CASE b < i
      <4>1. a \in 1..i - 1 /\ b \in 1..i - 1 /\ a \in 1..n /\ b \in 1..n
        BY <1>1, <1>15, <2>1, <3>1
      <4> QED
        BY <1>1, <1>13, <2>1, <4>1
    <3>2. CASE b = i
      <4>1. a \in 1..i - 1 /\ a \in 1..n /\ i - 1 \in 1..n /\ i > 1 /\ (a < i - 1 \/ a = i - 1)
        BY <1>1, <1>15, <2>1, <3>2
      <4>2. p.entries[i - 1].key < e.key
        BY <1>7, <1>16, <4>1
      <4>3. q.entries[a] = p.entries[a]
        BY <1>13, <4>1
      <4> QED
        BY <1>1, <1>5, <1>12, <3>2, <4>1, <4>2, <4>3
    <3>3. CASE b > i /\ a < i
      <4>1. a \in 1..i - 1 /\ b \in i + 1..n + 1 /\ a \in 1..n /\ b - 1 \in 1..n /\ a < b - 1
        BY <1>1, <1>15, <2>1, <3>3
      <4> QED
        BY <1>1, <1>13, <4>1
    <3>4. CASE b > i /\ a = i
      <4>1. /\ b \in i + 1..n + 1 /\ b - 1 \in 1..n /\ i \in 1..n /\ i <= n
            /\ i < b - 1 \/ i = b - 1
        BY <1>1, <1>15, <2>1, <3>4
      <4>2. e.key < p.entries[i].key
        BY <1>7, <1>16, <4>1
      <4>3. q.entries[b] = p.entries[b - 1]
        BY <1>13, <4>1
      <4> QED
        BY <1>1, <1>5, <1>12, <3>4, <4>1, <4>2, <4>3
    <3>5. CASE b > i /\ a > i
      <4>1. a \in i + 1..n + 1 /\ b \in i + 1..n + 1 /\ a - 1 \in 1..n /\ b - 1 \in 1..n /\ a - 1 < b - 1
        BY <1>1, <1>15, <2>1, <3>5
      <4> QED
        BY <1>1, <1>13, <4>1
    <3>6. b < i \/ b = i \/ (b > i /\ a < i) \/ (b > i /\ a = i) \/ (b > i /\ a > i)
      BY <1>15, <2>1
    <3> QED
      BY <3>1, <3>2, <3>3, <3>4, <3>5, <3>6
  <2>2. n + 1 \in Nat /\ n + 1 <= MaxKeys
    BY <1>1, Bounds
  <2> QED
    BY <1>11, <2>1, <2>2 DEF EntriesOK, Ordered
<1>18. ASSUME NEW j \in 1..n + 2 PROVE KidOK(d, q, j)
  <2>1. CASE j < i
    <3>1. /\ j \in 1..i - 1 /\ j \in 1..n + 1 /\ j <= n /\ j <= n + 1
          /\ j > 1 => j - 1 \in 1..i - 1
      BY <1>1, <1>15, <2>1
    <3>2. KidOK(d, p, j)
      BY <1>2, <3>1
    <3>3. q.kids[j] = p.kids[j] /\ q.entries[j] = p.entries[j]
      BY <1>13, <1>14, <3>1
    <3>4. j > 1 => q.entries[j - 1] = p.entries[j - 1]
      BY <1>13, <3>1
    <3> QED
      BY <1>11, <3>1, <3>2, <3>3, <3>4 DEF KidOK, Fits, n
  <2>2. CASE j = i
    <3>1. i > 1 => i - 1 \in 1..i - 1
      BY <1>15
    <3>2. i > 1 => q.entries[i - 1] = p.entries[i - 1]
      BY <1>13, <3>1
    <3>3. Fits(q, i, KeysOf[d - 1][l])
      BY <1>7, <1>12, <1>16, <3>2 DEF Fits
    <3> QED
      BY <1>5, <1>12, <2>2, <3>3, Bounds DEF KidOK
  <2>3. CASE j = i + 1
    <3>1. /\ j - 1 = i /\ j > 1
          /\ j <= n + 1 => i + 1 \in i + 1..n + 1 /\ (i + 1) - 1 = i /\ i <= n
      BY <1>1, <1>15, <2>3
    <3>2. j <= n + 1 => q.entries[j] = p.entries[i] /\ i <= n
      <4>1. j <= n + 1 => q.entries[i + 1] = p.entries[(i + 1) - 1]
        BY <1>13, <3>1
      <4> QED
        BY <2>3, <3>1, <4>1
    <3>3. Fits(q, j, KeysOf[d - 1][r])
      BY <1>7, <1>11, <1>12, <1>16, <3>1, <3>2 DEF Fits
    <3> QED
      BY <1>5, <1>12, <2>3, <3>3, Bounds DEF KidOK
  <2>4. CASE j > i + 1
    <3>1. /\ j \in i + 2..n + 2 /\ j - 1 \in 1..n + 1 /\ j - 1 \in i + 1..n + 1
          /\ j > 1 /\ j - 1 > 1
          /\ j <= n + 1 => j \in i + 1..n + 1 /\ j - 1 <= n
      BY <1>1, <1>15, <2>4
    <3>2. KidOK(d, p, j - 1)
      BY <1>2, <3>1
    <3>3. q.kids[j] = p.kids[j - 1]
      BY <1>14, <3>1
    <3>4. q.entries[j - 1] = p.entries[(j - 1) - 1]
      BY <1>13, <3>1
    <3>5. j <= n + 1 => q.entries[j] = p.entries[j - 1] /\ j - 1 <= n
      BY <1>13, <3>1
    <3>6. \A x \in KeysOf[d - 1][p.kids[j - 1]] :
             p.entries[(j - 1) - 1].key < x /\ (j - 1 <= n => x < p.entries[j - 1].key)
      <4>1. Fits(p, j - 1, KeysOf[d - 1][p.kids[j - 1]])
        BY <3>2 DEF KidOK
      <4> QED
        BY <3>1, <4>1 DEF Fits, n
    <3>7. Fits(q, j, KeysOf[d - 1][q.kids[j]])
      BY <1>11, <3>3, <3>4, <3>5, <3>6 DEF Fits
    <3> QED
      BY <3>2, <3>3, <3>7 DEF KidOK
  <2>5. j < i \/ j = i \/ j = i + 1 \/ j > i + 1
    BY <1>15
  <2> QED
    BY <2>1, <2>2, <2>3, <2>4, <2>5
<1>19. KidsOK(d, q)
  <2>1. n + 2 = (n + 1) + 1
    BY <1>1
  <2> QED
    BY <1>11, <1>18, <2>1 DEF KidsOK
<1>20. q \in Sound[d]
  BY <1>10, <1>17, <1>19, SoundIff
<1>21. ASSUME NEW x
       PROVE  x \in KeysOf[d][q] <=> x \in AllKeys(d - 1, l, e, r) \/ Elsewhere(d, p, i, i, x)
  <2>1. (n + 1) + 1 = n + 2
    BY <1>1
  <2>2. x \in KeysOf[d][q] <=>
          \/ \E j \in 1..n + 1 : x = q.entries[j].key
          \/ \E j \in 1..n + 2 : x \in KeysOf[d - 1][q.kids[j]]
    <3>1. NKeys(q) = n + 1 /\ NKeys(q) + 1 = n + 2
      BY <1>11, <2>1
    <3>2. x \in KeysOf[d][q] <=>
            \/ \E j \in 1..NKeys(q) : x = q.entries[j].key
            \/ \E j \in 1..NKeys(q) + 1 : x \in KeysOf[d - 1][q.kids[j]]
      BY <1>20, KeysSplit
    <3> QED
      BY <3>1, <3>2
  <2>3. (\E j \in 1..n + 1 : x = q.entries[j].key) <=>
          x = e.key \/ \E j \in 1..n : j \notin i..i - 1 /\ x = p.entries[j].key
    <3>1. ASSUME NEW j \in 1..n + 1
          PROVE  \/ j \in 1..n /\ j \notin i..i - 1 /\ q.entries[j] = p.entries[j]
                 \/ q.entries[j] = e
                 \/ j - 1 \in 1..n /\ j - 1 \notin i..i - 1 /\ q.entries[j] = p.entries[j - 1]
      <4>1. \/ j \in 1..i - 1 /\ j \in 1..n /\ j \notin i..i - 1
            \/ j = i
            \/ j \in i + 1..n + 1 /\ j - 1 \in 1..n /\ j - 1 \notin i..i - 1
        BY <1>1, <1>15
      <4> QED
        BY <1>12, <1>13, <4>1
    <3>2. ASSUME NEW j \in 1..n PROVE \E h \in 1..n + 1 : q.entries[h] = p.entries[j]
      <4>1. \/ j \in 1..i - 1 /\ j \in 1..n + 1
            \/ j + 1 \in i + 1..n + 1 /\ j + 1 \in 1..n + 1 /\ (j + 1) - 1 = j
        BY <1>1, <1>15
      <4>2. CASE j \in 1..i - 1 /\ j \in 1..n + 1
        BY <1>13, <4>2
      <4>3. CASE j + 1 \in i + 1..n + 1 /\ j + 1 \in 1..n + 1 /\ (j + 1) - 1 = j
        <5>1. q.entries[j + 1] = p.entries[(j + 1) - 1]
          BY <1>13, <4>3
        <5>2. q.entries[j + 1] = p.entries[j] /\ j + 1 \in 1..n + 1
          BY <4>3, <5>1
        <5> QED
          BY <5>2
      <4> QED
        BY <4>1, <4>2, <4>3
    <3> QED
      BY <1>12, <1>15, <3>1, <3>2
  <2>4. (\E j \in 1..n + 2 : x \in KeysOf[d - 1][q.kids[j]]) <=>
          \/ x \in KeysOf[d - 1][l] \/ x \in KeysOf[d - 1][r]
          \/ \E j \in 1..n + 1 : j \notin i..i /\ x \in KeysOf[d - 1][p.kids[j]]
    <3>1. ASSUME NEW j \in 1..n + 2
          PROVE  \/ j \in 1..n + 1 /\ j \notin i..i /\ q.kids[j] = p.kids[j]
                 \/ q.kids[j] = l \/ q.kids[j] = r
                 \/ j - 1 \in 1..n + 1 /\ j - 1 \notin i..i /\ q.kids[j] = p.kids[j - 1]
      <4>1. \/ j \in 1..i - 1 /\ j \in 1..n + 1 /\ j \notin i..i
            \/ j = i \/ j = i + 1
            \/ j \in i + 2..n + 2 /\ j - 1 \in 1..n + 1 /\ j - 1 \notin i..i
        BY <1>1, <1>15
      <4> QED
        BY <1>12, <1>14, <4>1
    <3>2. ASSUME NEW j \in 1..n + 1, j \notin i..i
          PROVE  \E h \in 1..n + 2 : q.kids[h] = p.kids[j]
      <4>1. \/ j \in 1..i - 1 /\ j \in 1..n + 2
            \/ j + 1 \in i + 2..n + 2 /\ j + 1 \in 1..n + 2 /\ (j + 1) - 1 = j
        BY <1>1, <1>15, <3>2
      <4>2. CASE j \in 1..i - 1 /\ j \in 1..n + 2
        BY <1>14, <4>2
      <4>3. CASE j + 1 \in i + 2..n + 2 /\ j + 1 \in 1..n + 2 /\ (j + 1) - 1 = j
        <5>1. q.kids[j + 1] = p.kids[(j + 1) - 1]
          BY <1>14, <4>3
        <5>2. q.kids[j + 1] = p.kids[j] /\ j + 1 \in 1..n + 2
          BY <4>3, <5>1
        <5> QED
          BY <5>2
      <4> QED
        BY <4>1, <4>2, <4>3
    <3>3. i \in 1..n + 2 /\ i + 1 \in 1..n + 2
      BY <1>1, <1>15
    <3> QED
      BY <1>12, <3>1, <3>2, <3>3
  <2> QED
    BY <2>2, <2>3, <2>4 DEF Elsewhere, AllKeys, n
<1>22. KeysOf[d][q] = KeysOf[d][p]
  BY <1>8, <1>9, <1>21
<1>23. i > 1 => q.entries[i - 1] = p.entries[i - 1]
  <2>1. i > 1 => i - 1 \in 1..i - 1
    BY <1>15
  <2> QED
    BY <1>13, <2>1
<1>24. i <= n => q.entries[i + 1] = p.entries[i]
  <2>1. i <= n => i + 1 \in i + 1..n + 1 /\ (i + 1) - 1 = i
    BY <1>1, <1>15
  <2>2. i <= n => q.entries[i + 1] = p.entries[(i + 1) - 1]
    BY <1>13, <2>1
  <2> QED
    BY <2>1, <2>2
<1>25. NKeys(q.kids[i]) = MinKeys /\ NKeys(q.kids[i + 1]) = MinKeys
  BY <1>5, <1>12
<1> QED
  BY <1>11, <1>20, <1>22, <1>23, <1>24, <1>25 DEF q, n

(* The new root above a full one, which only has it as a child. *)
LEMMA TopSound ==
  ASSUME NEW d \in Nat, NEW c \in Sound[d], NKeys(c) >= MinKeys
  PROVE  LET t == Node(<<>>, <<c>>)
         IN  /\ t \in Sound[d + 1] /\ NKeys(t) = 0 /\ t.kids[1] = c
             /\ KeysOf[d + 1][t] = KeysOf[d][c]
<1> DEFINE t == Node(<<>>, <<c>>)
<1>1. d + 1 \in Nat /\ d + 1 > 0 /\ (d + 1) - 1 = d
  OBVIOUS
<1>2. /\ t.entries = <<>> /\ t.kids = <<c>> /\ NKeys(t) = 0 /\ t.kids[1] = c
      /\ Len(t.kids) = 1 /\ t.kids \in Seq(Sound[d]) /\ t.entries \in Seq(EntrySet)
  <2>1. t.entries = <<>> /\ t.kids = <<c>> /\ NKeys(t) = Len(<<>>)
    BY NodeFields
  <2>2. <<>> \in Seq(EntrySet) /\ Len(<<>>) = 0
    OBVIOUS
  <2>3. <<c>> \in Seq(Sound[d]) /\ Len(<<c>>) = 1 /\ <<c>>[1] = c
    <3> DEFINE K == Sound[d]
    <3>1. c \in K
      OBVIOUS
    <3> HIDE DEF K
    <3>2. <<c>> \in Seq(K) /\ Len(<<c>>) = 1 /\ <<c>>[1] = c
      BY <3>1
    <3> QED
      BY <3>2 DEF K
  <2> HIDE DEF t
  <2> QED
    BY <2>1, <2>2, <2>3, Zenon
<1>3. t = Node(t.entries, t.kids)
  BY <1>2
<1> HIDE DEF t
<1>4. EntriesOK(t)
  BY <1>2, Bounds DEF EntriesOK, Ordered
<1>5. KidOK(d + 1, t, 1)
  <2>1. Fits(t, 1, KeysOf[d][c])
    BY <1>2 DEF Fits
  <2> QED
    BY <1>1, <1>2, <2>1 DEF KidOK
<1>6. KidsOK(d + 1, t)
  <2>1. \A j \in 1..NKeys(t) + 1 : j = 1
    BY <1>2
  <2>2. \A j \in 1..NKeys(t) + 1 : KidOK(d + 1, t, j)
    BY <1>5, <2>1
  <2> QED
    BY <1>1, <1>2, <2>2 DEF KidsOK
<1>7. t \in Sound[d + 1]
  BY <1>1, <1>3, <1>4, <1>6, SoundIff
<1>8. ASSUME NEW x PROVE x \in KeysOf[d + 1][t] <=> x \in KeysOf[d][c]
  <2>1. x \notin Own(t)
    BY <1>2 DEF Own
  <2>2. x \in KeysOf[d + 1][t] <=>
          x \in Own(t) \/ \E j \in 1..NKeys(t) + 1 : x \in KeysOf[(d + 1) - 1][t.kids[j]]
    BY <1>1, <1>7, KeysInner
  <2>3. NKeys(t) + 1 = 1 /\ 1 \in 1..1 /\ \A j \in 1..1 : j = 1
    BY <1>2
  <2> QED
    BY <1>1, <1>2, <2>1, <2>2, <2>3
<1> QED
  BY <1>2, <1>7, <1>8 DEF t

-----------------------------------------------------------------------------
(* A child refilled from its neighbours. *)

(* Two neighbours and the entry between them. *)
LEMMA PairParts ==
  ASSUME NEW d \in Nat, d > 0, NEW p \in Sound[d], NEW i \in 1..NKeys(p)
  PROVE  /\ p.kids[i] \in Sound[d - 1] /\ NKeys(p.kids[i]) >= MinKeys
         /\ p.kids[i + 1] \in Sound[d - 1] /\ NKeys(p.kids[i + 1]) >= MinKeys
         /\ p.entries[i] \in EntrySet
         /\ Splits(d - 1, p.kids[i], p.entries[i], p.kids[i + 1])
         /\ AllKeys(d - 1, p.kids[i], p.entries[i], p.kids[i + 1]) \subseteq KeysOf[d][p]
<1>1. NKeys(p) \in Nat
  BY SoundParts
<1>2. i \in 1..NKeys(p) + 1 /\ i + 1 \in 1..NKeys(p) + 1 /\ i + 1 > 1 /\ (i + 1) - 1 = i
  BY <1>1
<1>3. KidOK(d, p, i) /\ KidOK(d, p, i + 1)
  BY <1>2, InnerParts
<1>4. \A x \in KeysOf[d - 1][p.kids[i]] : x < p.entries[i].key
  BY <1>1, <1>2, KidGap
<1>5. \A x \in KeysOf[d - 1][p.kids[i + 1]] : p.entries[i].key < x
  BY <1>2, KidGap
<1>6. p.entries[i] \in EntrySet
  BY SoundParts
<1>7. AllKeys(d - 1, p.kids[i], p.entries[i], p.kids[i + 1]) \subseteq KeysOf[d][p]
  BY <1>2, OwnInKeys, KidInKeys DEF AllKeys
<1> QED
  BY <1>3, <1>4, <1>5, <1>6, <1>7 DEF KidOK, Splits

(* The keys of two neighbours and of the entry between them, divided anew. *)
LEMMA RotateSound ==
  ASSUME NEW d \in Nat, d > 0, NEW p \in Sound[d], NEW i \in 1..NKeys(p),
         NEW l \in Sound[d - 1], NEW r \in Sound[d - 1], NEW e \in EntrySet,
         NKeys(l) >= MinKeys, NKeys(r) >= MinKeys, Splits(d - 1, l, e, r),
         AllKeys(d - 1, l, e, r) = AllKeys(d - 1, p.kids[i], p.entries[i], p.kids[i + 1])
  PROVE  LET q == Between(p, i, l, e, r)
         IN  /\ q \in Sound[d] /\ NKeys(q) = NKeys(p)
             /\ q.kids[i] = l /\ q.kids[i + 1] = r /\ q.entries[i] = e
             /\ i > 1 => q.entries[i - 1] = p.entries[i - 1]
             /\ i + 1 <= NKeys(p) => q.entries[i + 1] = p.entries[i + 1]
             /\ KeysOf[d][q] = KeysOf[d][p]
<1> DEFINE q == Between(p, i, l, e, r)
<1>1. /\ q \in Sound[d] /\ NKeys(q) = NKeys(p)
      /\ q.kids[i] = l /\ q.kids[i + 1] = r /\ q.entries[i] = e
      /\ i > 1 => q.entries[i - 1] = p.entries[i - 1]
      /\ i + 1 <= NKeys(p) => q.entries[i + 1] = p.entries[i + 1]
  BY BetweenSound
<1>2. \A x : x \in KeysOf[d][q] <=>
         \/ x \in AllKeys(d - 1, l, e, r)
         \/ /\ x \in KeysOf[d][p]
            /\ x \notin AllKeys(d - 1, p.kids[i], p.entries[i], p.kids[i + 1])
  BY BetweenSound
<1>3. AllKeys(d - 1, p.kids[i], p.entries[i], p.kids[i + 1]) \subseteq KeysOf[d][p]
  BY PairParts
<1>4. KeysOf[d][q] = KeysOf[d][p]
  BY <1>2, <1>3
<1> QED
  BY <1>1, <1>4

(* btree_fill borrows from the left, *)
LEMMA BorrowLeftSound ==
  ASSUME NEW d \in Nat, d > 0, NEW p \in Sound[d], NEW h \in 1..NKeys(p),
         NKeys(p.kids[h]) > MinKeys, NKeys(p.kids[h + 1]) = MinKeys
  PROVE  LET q == BorrowLeft(p, h + 1)
         IN  /\ q \in Sound[d] /\ NKeys(q) = NKeys(p)
             /\ NKeys(q.kids[h + 1]) = MinKeys + 1
             /\ q.entries[h].key \in Int /\ q.entries[h].key < p.entries[h].key
             /\ h + 1 <= NKeys(p) => q.entries[h + 1] = p.entries[h + 1]
             /\ KeysOf[d][q] = KeysOf[d][p]
<1> DEFINE l == p.kids[h]
           e == p.entries[h]
           r == p.kids[h + 1]
           m == NKeys(l)
           lb == Before(l, m)
           le == l.entries[m]
           la == After(l, m)
           c == Glue(la, e, r)
<1>1. BorrowLeft(p, h + 1) = Between(p, h, lb, le, c)
  <2>1. (h + 1) - 1 = h
    OBVIOUS
  <2> QED
    BY <2>1 DEF BorrowLeft
<1>2. d - 1 \in Nat /\ NKeys(p) \in Nat
  BY SoundParts
<1>3. /\ l \in Sound[d - 1] /\ r \in Sound[d - 1] /\ e \in EntrySet /\ e.key \in Int
      /\ Splits(d - 1, l, e, r)
  BY PairParts, EntryKeys
<1>4. NKeys(l) \in Nat /\ NKeys(l) > MinKeys /\ NKeys(l) <= MaxKeys /\ NKeys(r) = MinKeys
  BY <1>2, <1>3, SoundParts
<1> HIDE DEF l, e, r
<1>5. m \in 1..NKeys(l) /\ m = NKeys(l)
  BY <1>4, Bounds
<1> HIDE DEF m
<1>6. lb \in Sound[d - 1] /\ la \in Sound[d - 1]
  BY <1>2, <1>3, <1>5, CutSound
<1>7. le \in EntrySet /\ le.key \in Int /\ le.key \in KeysOf[d - 1][l]
  BY <1>2, <1>3, <1>5, OwnKeys, OwnInKeys
<1>8. NKeys(lb) = m - 1 /\ NKeys(la) = 0
  <2>1. NKeys(lb) = m - 1
    BY <1>2, <1>3, <1>5, BeforeParts
  <2>2. NKeys(la) = NKeys(l) - m
    BY <1>2, <1>3, <1>5, AfterParts
  <2> QED
    BY <1>4, <1>5, <2>1, <2>2
<1>9. Splits(d - 1, lb, le, la) /\ KeysOf[d - 1][l] = AllKeys(d - 1, lb, le, la)
  BY <1>2, <1>3, <1>5, CutKeys
<1> HIDE DEF lb, le, la
<1>10. Splits(d - 1, la, e, r)
  BY <1>3, <1>9 DEF Splits, AllKeys
<1>11. /\ c \in Sound[d - 1] /\ NKeys(c) = MinKeys + 1
       /\ KeysOf[d - 1][c] = AllKeys(d - 1, la, e, r)
  <2>1. NKeys(la) + NKeys(r) + 1 <= MaxKeys /\ NKeys(la) + NKeys(r) + 1 = MinKeys + 1
    BY <1>4, <1>8, Bounds
  <2> QED
    BY <1>2, <1>3, <1>6, <1>10, <2>1, GlueSound
<1> HIDE DEF c
<1>12. le.key < e.key
  BY <1>3, <1>7 DEF Splits
<1>13. Splits(d - 1, lb, le, c)
  <2>1. ASSUME NEW x \in KeysOf[d - 1][c] PROVE le.key < x
    <3>1. CASE x \in KeysOf[d - 1][la]
      BY <1>9, <3>1 DEF Splits
    <3>2. CASE x = e.key
      BY <1>12, <3>2
    <3>3. CASE x \in KeysOf[d - 1][r]
      <4>1. e.key < x /\ x \in Int
        BY <1>2, <1>3, <3>3, KeysInt DEF Splits
      <4> QED
        BY <1>3, <1>7, <1>12, <4>1
    <3> QED
      BY <1>11, <2>1, <3>1, <3>2, <3>3 DEF AllKeys
  <2> QED
    BY <1>9, <2>1 DEF Splits
<1>14. AllKeys(d - 1, lb, le, c) = AllKeys(d - 1, l, e, r)
  BY <1>9, <1>11 DEF AllKeys
<1>15. NKeys(lb) >= MinKeys /\ NKeys(c) >= MinKeys
  BY <1>4, <1>5, <1>8, <1>11, Bounds
<1> DEFINE q == Between(p, h, lb, le, c)
<1>16. AllKeys(d - 1, lb, le, c) = AllKeys(d - 1, p.kids[h], p.entries[h], p.kids[h + 1])
  BY <1>14 DEF l, e, r
<1>17. /\ q \in Sound[d] /\ NKeys(q) = NKeys(p)
       /\ q.kids[h + 1] = c /\ q.entries[h] = le
       /\ h + 1 <= NKeys(p) => q.entries[h + 1] = p.entries[h + 1]
       /\ KeysOf[d][q] = KeysOf[d][p]
  BY <1>6, <1>7, <1>11, <1>13, <1>15, <1>16, RotateSound
<1> HIDE DEF q
<1>18. /\ NKeys(q.kids[h + 1]) = MinKeys + 1
       /\ q.entries[h].key \in Int /\ q.entries[h].key < p.entries[h].key
  BY <1>7, <1>11, <1>12, <1>17 DEF e
<1>19. BorrowLeft(p, h + 1) = q
  BY <1>1 DEF q
<1> QED
  BY <1>17, <1>18, <1>19

(* from the right, *)
LEMMA BorrowRightSound ==
  ASSUME NEW d \in Nat, d > 0, NEW p \in Sound[d], NEW h \in 1..NKeys(p),
         NKeys(p.kids[h]) = MinKeys, NKeys(p.kids[h + 1]) > MinKeys
  PROVE  LET q == BorrowRight(p, h)
         IN  /\ q \in Sound[d] /\ NKeys(q) = NKeys(p)
             /\ NKeys(q.kids[h]) = MinKeys + 1
             /\ q.entries[h].key \in Int /\ p.entries[h].key < q.entries[h].key
             /\ h > 1 => q.entries[h - 1] = p.entries[h - 1]
             /\ KeysOf[d][q] = KeysOf[d][p]
<1> DEFINE l == p.kids[h]
           e == p.entries[h]
           r == p.kids[h + 1]
           rb == Before(r, 1)
           re == r.entries[1]
           ra == After(r, 1)
           c == Glue(l, e, rb)
<1>1. BorrowRight(p, h) = Between(p, h, c, re, ra)
  BY DEF BorrowRight
<1>2. d - 1 \in Nat /\ NKeys(p) \in Nat
  BY SoundParts
<1>3. /\ l \in Sound[d - 1] /\ r \in Sound[d - 1] /\ e \in EntrySet /\ e.key \in Int
      /\ Splits(d - 1, l, e, r)
  BY PairParts, EntryKeys
<1>4. NKeys(r) \in Nat /\ NKeys(r) > MinKeys /\ NKeys(r) <= MaxKeys /\ NKeys(l) = MinKeys
  BY <1>2, <1>3, SoundParts
<1> HIDE DEF l, e, r
<1>5. 1 \in 1..NKeys(r)
  BY <1>4, Bounds
<1>6. rb \in Sound[d - 1] /\ ra \in Sound[d - 1]
  BY <1>2, <1>3, <1>5, CutSound
<1>7. re \in EntrySet /\ re.key \in Int /\ re.key \in KeysOf[d - 1][r]
  BY <1>2, <1>3, <1>5, OwnKeys, OwnInKeys
<1>8. NKeys(rb) = 0 /\ NKeys(ra) = NKeys(r) - 1
  <2>1. NKeys(rb) = 1 - 1
    BY <1>2, <1>3, <1>5, BeforeParts
  <2>2. NKeys(ra) = NKeys(r) - 1
    BY <1>2, <1>3, <1>5, AfterParts
  <2> QED
    BY <2>1, <2>2
<1>9. Splits(d - 1, rb, re, ra) /\ KeysOf[d - 1][r] = AllKeys(d - 1, rb, re, ra)
  BY <1>2, <1>3, <1>5, CutKeys
<1> HIDE DEF rb, re, ra
<1>10. Splits(d - 1, l, e, rb)
  BY <1>3, <1>9 DEF Splits, AllKeys
<1>11. /\ c \in Sound[d - 1] /\ NKeys(c) = MinKeys + 1
       /\ KeysOf[d - 1][c] = AllKeys(d - 1, l, e, rb)
  <2>1. NKeys(l) + NKeys(rb) + 1 <= MaxKeys /\ NKeys(l) + NKeys(rb) + 1 = MinKeys + 1
    BY <1>4, <1>8, Bounds
  <2> QED
    BY <1>2, <1>3, <1>6, <1>10, <2>1, GlueSound
<1> HIDE DEF c
<1>12. e.key < re.key
  BY <1>3, <1>7 DEF Splits
<1>13. Splits(d - 1, c, re, ra)
  <2>1. ASSUME NEW x \in KeysOf[d - 1][c] PROVE x < re.key
    <3>1. CASE x \in KeysOf[d - 1][rb]
      BY <1>9, <3>1 DEF Splits
    <3>2. CASE x = e.key
      BY <1>12, <3>2
    <3>3. CASE x \in KeysOf[d - 1][l]
      <4>1. x < e.key /\ x \in Int
        BY <1>2, <1>3, <3>3, KeysInt DEF Splits
      <4> QED
        BY <1>3, <1>7, <1>12, <4>1
    <3> QED
      BY <1>11, <2>1, <3>1, <3>2, <3>3 DEF AllKeys
  <2> QED
    BY <1>9, <2>1 DEF Splits
<1>14. AllKeys(d - 1, c, re, ra) = AllKeys(d - 1, l, e, r)
  BY <1>9, <1>11 DEF AllKeys
<1>15. NKeys(ra) >= MinKeys /\ NKeys(c) >= MinKeys
  BY <1>4, <1>8, <1>11, Bounds
<1> DEFINE q == Between(p, h, c, re, ra)
<1>16. AllKeys(d - 1, c, re, ra) = AllKeys(d - 1, p.kids[h], p.entries[h], p.kids[h + 1])
  BY <1>14 DEF l, e, r
<1>17. /\ q \in Sound[d] /\ NKeys(q) = NKeys(p)
       /\ q.kids[h] = c /\ q.entries[h] = re
       /\ h > 1 => q.entries[h - 1] = p.entries[h - 1]
       /\ KeysOf[d][q] = KeysOf[d][p]
  BY <1>6, <1>7, <1>11, <1>13, <1>15, <1>16, RotateSound
<1> HIDE DEF q
<1>18. /\ NKeys(q.kids[h]) = MinKeys + 1
       /\ q.entries[h].key \in Int /\ p.entries[h].key < q.entries[h].key
  BY <1>7, <1>11, <1>12, <1>17 DEF e
<1>19. BorrowRight(p, h) = q
  BY <1>1 DEF q
<1> QED
  BY <1>17, <1>18, <1>19

(* Where the deletion goes on after child i of p was refilled. *)
NextKid(q, i) == IF i > NKeys(q) + 1 THEN i - 1 ELSE i

(* or merges: the keys stay, and the child the search goes on in can lose one.
   *)
LEMMA FillSound ==
  ASSUME NEW d \in Nat, d > 0, NEW p \in Sound[d], NEW i \in 1..NKeys(p) + 1,
         NKeys(p) >= 1, NKeys(p.kids[i]) <= MinKeys,
         NEW k \in Keys, Fits(p, i, {k})
  PROVE  LET q == Fill(p, i)
             j == NextKid(q, i)
         IN  /\ q \in Sound[d] /\ KeysOf[d][q] = KeysOf[d][p]
             /\ NKeys(q) = NKeys(p) \/ NKeys(q) = NKeys(p) - 1
             /\ j \in 1..NKeys(q) + 1 /\ Fits(q, j, {k})
             /\ NKeys(q.kids[j]) > MinKeys
             /\ NKeys(q) = 0 => NKeys(q.kids[j]) = MaxKeys
<1> DEFINE q == Fill(p, i)
<1>1. /\ NKeys(p) \in Nat /\ k \in Int
      /\ \A a, b \in 1..NKeys(p) : a < b => p.entries[a].key < p.entries[b].key
      /\ \A a \in 1..NKeys(p) : p.entries[a].key \in Int
  <2>1. NKeys(p) \in Nat /\ Ordered(p)
    BY SoundParts
  <2>2. \A a \in 1..NKeys(p) : p.entries[a].key \in Int
    BY OwnKeys
  <2> QED
    BY <2>1, <2>2, Bounds DEF Ordered
<1>2. \A j \in 1..NKeys(p) + 1 :
        p.kids[j] \in Sound[d - 1] /\ NKeys(p.kids[j]) >= MinKeys /\ NKeys(p.kids[j]) \in Nat
  <2>1. d - 1 \in Nat
    OBVIOUS
  <2> QED
    BY <2>1, InnerParts, SoundParts DEF KidOK
<1>3. NKeys(p.kids[i]) = MinKeys
  BY <1>2, Bounds
<1>4. /\ i > 1 => p.entries[i - 1].key < k
      /\ i <= NKeys(p) => k < p.entries[i].key
  BY DEF Fits
<1>5. CASE i > 1 /\ NKeys(p.kids[i - 1]) > MinKeys
  <2> DEFINE h == i - 1
  <2>1. h \in 1..NKeys(p) /\ i = h + 1
    BY <1>1, <1>5
  <2>2. q = BorrowLeft(p, i)
    BY <1>5 DEF Fill
  <2>3. NKeys(p.kids[h]) > MinKeys /\ NKeys(p.kids[h + 1]) = MinKeys
    BY <1>3, <1>5, <2>1
  <2> HIDE DEF h, q
  <2>4. /\ q \in Sound[d] /\ NKeys(q) = NKeys(p)
        /\ NKeys(q.kids[h + 1]) = MinKeys + 1
        /\ q.entries[h].key \in Int /\ q.entries[h].key < p.entries[h].key
        /\ h + 1 <= NKeys(p) => q.entries[h + 1] = p.entries[h + 1]
        /\ KeysOf[d][q] = KeysOf[d][p]
    BY <2>1, <2>2, <2>3, BorrowLeftSound
  <2>5. NextKid(q, i) = i /\ i \in 1..NKeys(q) + 1
    BY <1>1, <2>4 DEF NextKid
  <2>6. Fits(q, i, {k})
    <3>1. q.entries[i - 1].key < k
      <4>1. p.entries[h].key < k /\ p.entries[h].key \in Int
        BY <1>1, <1>4, <1>5, <2>1 DEF h
      <4> QED
        BY <1>1, <2>4, <4>1 DEF h
    <3>2. i <= NKeys(q) => k < q.entries[i].key
      BY <1>4, <2>1, <2>4
    <3> QED
      BY <3>1, <3>2 DEF Fits
  <2>7. NKeys(q.kids[i]) > MinKeys
    BY <2>1, <2>4, Bounds
  <2>8. NKeys(q) # 0
    BY <1>1, <2>4
  <2> QED
    BY <2>4, <2>5, <2>6, <2>7, <2>8 DEF q
<1>6. CASE /\ ~(i > 1 /\ NKeys(p.kids[i - 1]) > MinKeys)
           /\ i <= NKeys(p) /\ NKeys(p.kids[i + 1]) > MinKeys
  <2>1. i \in 1..NKeys(p)
    BY <1>6
  <2>2. q = BorrowRight(p, i)
    BY <1>6 DEF Fill
  <2> HIDE DEF q
  <2>3. /\ q \in Sound[d] /\ NKeys(q) = NKeys(p)
        /\ NKeys(q.kids[i]) = MinKeys + 1
        /\ q.entries[i].key \in Int /\ p.entries[i].key < q.entries[i].key
        /\ i > 1 => q.entries[i - 1] = p.entries[i - 1]
        /\ KeysOf[d][q] = KeysOf[d][p]
    BY <1>3, <1>6, <2>1, <2>2, BorrowRightSound
  <2>4. NextKid(q, i) = i /\ i \in 1..NKeys(q) + 1
    BY <1>1, <2>3 DEF NextKid
  <2>5. Fits(q, i, {k})
    <3>1. i > 1 => q.entries[i - 1].key < k
      BY <1>4, <2>3
    <3>2. k < q.entries[i].key
      <4>1. k < p.entries[i].key /\ p.entries[i].key \in Int
        BY <1>1, <1>4, <2>1
      <4> QED
        BY <1>1, <2>3, <4>1
    <3> QED
      BY <3>1, <3>2 DEF Fits
  <2>6. NKeys(q.kids[i]) > MinKeys
    BY <2>3, Bounds
  <2>7. NKeys(q) # 0
    BY <1>1, <2>3
  <2> QED
    BY <2>3, <2>4, <2>5, <2>6, <2>7 DEF q
<1>7. CASE /\ ~(i > 1 /\ NKeys(p.kids[i - 1]) > MinKeys)
           /\ ~(i <= NKeys(p) /\ NKeys(p.kids[i + 1]) > MinKeys)
           /\ i <= NKeys(p)
  <2>1. i \in 1..NKeys(p) /\ i + 1 \in 1..NKeys(p) + 1
    BY <1>1, <1>7
  <2>2. q = MergeKids(p, i)
    BY <1>7 DEF Fill
  <2>3. NKeys(p.kids[i + 1]) = MinKeys
    BY <1>2, <1>7, <2>1, Bounds
  <2>4. NKeys(p.kids[i]) + NKeys(p.kids[i + 1]) + 1 <= MaxKeys
    BY <1>3, <2>3, Bounds
  <2> HIDE DEF q
  <2>5. /\ q \in Sound[d] /\ NKeys(q) = NKeys(p) - 1
        /\ NKeys(q.kids[i]) = NKeys(p.kids[i]) + NKeys(p.kids[i + 1]) + 1
        /\ i > 1 => q.entries[i - 1] = p.entries[i - 1]
        /\ i <= NKeys(p) - 1 => q.entries[i] = p.entries[i + 1]
        /\ KeysOf[d][q] = KeysOf[d][p]
    BY <2>1, <2>2, <2>4, MergeSound
  <2>6. NextKid(q, i) = i /\ i \in 1..NKeys(q) + 1
    BY <1>1, <2>1, <2>5 DEF NextKid
  <2>7. Fits(q, i, {k})
    <3>1. i > 1 => q.entries[i - 1].key < k
      BY <1>4, <2>5
    <3>2. i <= NKeys(q) => k < q.entries[i].key
      <4>1. ASSUME i <= NKeys(q) PROVE k < q.entries[i].key
        <5>1. i + 1 \in 1..NKeys(p) /\ i <= NKeys(p) - 1 /\ i < i + 1
          BY <1>1, <2>1, <2>5, <4>1
        <5>2. p.entries[i].key < p.entries[i + 1].key
          BY <1>1, <2>1, <5>1
        <5>3. k < p.entries[i].key
          BY <1>4, <2>1
        <5>4. p.entries[i].key \in Int /\ p.entries[i + 1].key \in Int
          BY <1>1, <2>1, <5>1
        <5>5. q.entries[i] = p.entries[i + 1]
          BY <2>5, <5>1
        <5> QED
          BY <1>1, <5>2, <5>3, <5>4, <5>5
      <4> QED
        BY <4>1
    <3> QED
      BY <3>1, <3>2 DEF Fits
  <2>8. NKeys(q.kids[i]) = MaxKeys
    BY <1>3, <2>3, <2>5, Bounds
  <2>9. MaxKeys > MinKeys
    BY Bounds
  <2> QED
    BY <2>5, <2>6, <2>7, <2>8, <2>9 DEF q
<1>8. CASE /\ ~(i > 1 /\ NKeys(p.kids[i - 1]) > MinKeys)
           /\ ~(i <= NKeys(p))
  <2> DEFINE h == i - 1
  <2>1. h \in 1..NKeys(p) /\ i = h + 1 /\ i > 1 /\ h = NKeys(p) /\ h \in 1..NKeys(p) + 1
    BY <1>1, <1>8
  <2>2. q = MergeKids(p, h)
    BY <1>8 DEF Fill
  <2>3. NKeys(p.kids[h]) = MinKeys
    <3>1. ~(NKeys(p.kids[h]) > MinKeys)
      BY <1>8, <2>1
    <3> HIDE DEF h
    <3> QED
      BY <1>2, <2>1, <3>1, Bounds
  <2>4. NKeys(p.kids[h + 1]) = MinKeys
    BY <1>3, <2>1
  <2> HIDE DEF h, q
  <2>5. NKeys(p.kids[h]) + NKeys(p.kids[h + 1]) + 1 <= MaxKeys
    BY <2>3, <2>4, Bounds
  <2>6. /\ q \in Sound[d] /\ NKeys(q) = NKeys(p) - 1
        /\ NKeys(q.kids[h]) = NKeys(p.kids[h]) + NKeys(p.kids[h + 1]) + 1
        /\ h > 1 => q.entries[h - 1] = p.entries[h - 1]
        /\ KeysOf[d][q] = KeysOf[d][p]
    BY <2>1, <2>2, <2>5, MergeSound
  <2>7. NextKid(q, i) = h /\ h \in 1..NKeys(q) + 1 /\ ~(h <= NKeys(q))
    BY <1>1, <2>1, <2>6 DEF NextKid
  <2>8. Fits(q, h, {k})
    <3>1. ASSUME h > 1 PROVE q.entries[h - 1].key < k
      <4>1. h - 1 \in 1..NKeys(p) /\ h - 1 < h
        BY <1>1, <2>1, <3>1
      <4>2. p.entries[h - 1].key < p.entries[h].key
        BY <1>1, <2>1, <4>1
      <4>3. p.entries[h].key < k
        BY <1>4, <2>1 DEF h
      <4>4. p.entries[h - 1].key \in Int /\ p.entries[h].key \in Int
        BY <1>1, <2>1, <4>1
      <4>5. q.entries[h - 1] = p.entries[h - 1]
        BY <2>6, <3>1
      <4> QED
        BY <1>1, <4>2, <4>3, <4>4, <4>5
    <3> QED
      BY <2>7, <3>1 DEF Fits
  <2>9. NKeys(q.kids[h]) = MaxKeys /\ MaxKeys > MinKeys
    BY <2>3, <2>4, <2>6, Bounds
  <2> QED
    BY <2>6, <2>7, <2>8, <2>9 DEF q
<1> QED
  BY <1>5, <1>6, <1>7, <1>8

-----------------------------------------------------------------------------
(* Searching, and the ends of a tree. *)

(* Induction over the depth. *)
LEMMA DepthInduct ==
  ASSUME NEW S, \A d \in Nat : (d > 0 => d - 1 \in S) => d \in S
  PROVE  Nat \subseteq S
<1>1. 0 \in S
  OBVIOUS
<1>2. ASSUME NEW d \in Nat, d \in S PROVE d + 1 \in S
  <2>1. d + 1 \in Nat /\ (d + 1) - 1 = d
    OBVIOUS
  <2> QED
    BY <1>2, <2>1
<1> QED
  BY <1>1, <1>2, Induct

(* A sound tree is in the domain of the functions for at least its depth. *)
LEMMA InTree ==
  ASSUME NEW d \in Nat, NEW m \in Nat, m >= d, NEW n \in Sound[d]
  PROVE  n \in Tree[m]
<1>1. d \in 0..m
  OBVIOUS
<1> QED
  BY <1>1, SoundInTree

Finds(d, m, n) ==
  \A k \in Keys : /\ k \in KeysOf[d][n] => Search[m][n][k] = k
                  /\ k \notin KeysOf[d][n] => Search[m][n][k] = None

(* One level of a search. *)
LEMMA SearchAt ==
  ASSUME NEW m \in Nat, NEW n \in Tree[m], NEW k \in Keys
  PROVE  /\ Holds(n, k) => Search[m][n][k] = n.entries[Slot(n, k)].row
         /\ ~Holds(n, k) /\ IsLeaf(n) => Search[m][n][k] = None
         /\ ~Holds(n, k) /\ ~IsLeaf(n) => Search[m][n][k] = Search[m - 1][n.kids[Slot(n, k)]][k]
<1>1. Search[m] = SearchStep(m, Search[m - 1])
  BY SearchUnfold
<1> QED
  BY <1>1 DEF SearchStep

(* xsdb_btree_search returns the row of a key that is in the tree, and none
   for another. *)
LEMMA SearchSound ==
  \A d \in Nat : \A m \in Nat : m >= d => \A n \in Sound[d] : Finds(d, m, n)
<1> DEFINE S == {d \in Nat : \A m \in Nat : m >= d => \A n \in Sound[d] : Finds(d, m, n)}
<1>1. ASSUME NEW d \in Nat, d > 0 => d - 1 \in S, NEW m \in Nat, m >= d,
             NEW n \in Sound[d], NEW k \in Keys
      PROVE  /\ k \in KeysOf[d][n] => Search[m][n][k] = k
             /\ k \notin KeysOf[d][n] => Search[m][n][k] = None
  <2>1. n \in Tree[m]
    BY <1>1, InTree
  <2>2. Own(n) \subseteq KeysOf[d][n]
    BY <1>1, KeysAt
  <2>3. CASE Holds(n, k)
    <3>1. n.entries[Slot(n, k)] = Entry(k) /\ k \in Own(n)
      BY <1>1, <2>3, SlotHolds
    <3> QED
      BY <1>1, <2>1, <2>2, <2>3, <3>1, SearchAt DEF Entry
  <2>4. CASE ~Holds(n, k) /\ d = 0
    <3>1. k \notin KeysOf[d][n] /\ IsLeaf(n)
      BY <1>1, <2>4, SlotHolds, KeysLeaf, LeafParts
    <3> QED
      BY <1>1, <2>1, <2>4, <3>1, SearchAt
  <2>5. CASE ~Holds(n, k) /\ d > 0
    <3> DEFINE i == Slot(n, k)
               c == n.kids[i]
    <3>1. i \in 1..NKeys(n) + 1 /\ Fits(n, i, {k}) /\ ~IsLeaf(n)
      BY <1>1, <2>5, SlotFound, SlotHolds, InnerParts
    <3>2. c \in Sound[d - 1]
      BY <1>1, <2>5, <3>1, InnerParts DEF KidOK
    <3>3. k \in KeysOf[d][n] <=> k \in KeysOf[d - 1][c]
      BY <1>1, <2>5, <3>1, Locate
    <3>4. Search[m][n][k] = Search[m - 1][c][k]
      BY <1>1, <2>1, <2>5, <3>1, SearchAt
    <3>5. m - 1 \in Nat /\ m - 1 >= d - 1
      BY <1>1, <2>5
    <3> HIDE DEF c
    <3>6. Finds(d - 1, m - 1, c)
      BY <1>1, <2>5, <3>2, <3>5
    <3> QED
      BY <1>1, <3>3, <3>4, <3>6 DEF Finds
  <2> QED
    BY <1>1, <2>3, <2>4, <2>5
<1>2. ASSUME NEW d \in Nat, d > 0 => d - 1 \in S PROVE d \in S
  BY <1>1, <1>2 DEF Finds
<1> HIDE DEF S
<1>3. Nat \subseteq S
  BY <1>2, DepthInduct
<1> QED
  BY <1>3 DEF S

(* One level on the way to the largest and to the smallest key. *)
LEMMA EndsAt ==
  ASSUME NEW m \in Nat, NEW n \in Tree[m]
  PROVE  /\ IsLeaf(n) => /\ Predecessor[m][n] = n.entries[NKeys(n)].key
                         /\ Successor[m][n] = n.entries[1].key
         /\ ~IsLeaf(n) => /\ Predecessor[m][n] = Predecessor[m - 1][n.kids[NKeys(n) + 1]]
                          /\ Successor[m][n] = Successor[m - 1][n.kids[1]]
<1>1. Predecessor[m] = PredecessorStep(m, Predecessor[m - 1])
  BY PredecessorUnfold
<1>2. Successor[m] = SuccessorStep(m, Successor[m - 1])
  BY SuccessorUnfold
<1> QED
  BY <1>1, <1>2 DEF PredecessorStep, SuccessorStep

(* The largest and the smallest key of a tree that has one at its top. *)
Ends(d, m, n) ==
  /\ Predecessor[m][n] \in KeysOf[d][n]
  /\ \A x \in KeysOf[d][n] : x <= Predecessor[m][n]
  /\ Successor[m][n] \in KeysOf[d][n]
  /\ \A x \in KeysOf[d][n] : Successor[m][n] <= x

(* btree_predecessor_key and btree_successor_key return the largest and the
   smallest key. *)
LEMMA EndsSound ==
  \A d \in Nat : \A m \in Nat : m >= d => \A n \in Sound[d] : NKeys(n) >= 1 => Ends(d, m, n)
<1> DEFINE S == {d \in Nat : \A m \in Nat : m >= d =>
                   \A n \in Sound[d] : NKeys(n) >= 1 => Ends(d, m, n)}
<1>1. ASSUME NEW d \in Nat, d > 0 => d - 1 \in S, NEW m \in Nat, m >= d,
             NEW n \in Sound[d], NKeys(n) >= 1
      PROVE  Ends(d, m, n)
  <2>1. n \in Tree[m]
    BY <1>1, InTree
  <2>2. /\ NKeys(n) \in Nat
        /\ \A a, b \in 1..NKeys(n) : a < b => n.entries[a].key < n.entries[b].key
        /\ \A a \in 1..NKeys(n) : n.entries[a].key \in Int /\ n.entries[a].key \in KeysOf[d][n]
    <3>1. NKeys(n) \in Nat /\ Ordered(n)
      BY <1>1, SoundParts
    <3>2. \A a \in 1..NKeys(n) : n.entries[a].key \in Int
      BY <1>1, OwnKeys
    <3>3. \A a \in 1..NKeys(n) : n.entries[a].key \in KeysOf[d][n]
      BY <1>1, OwnInKeys
    <3> QED
      BY <3>1, <3>2, <3>3 DEF Ordered
  <2>3. NKeys(n) \in 1..NKeys(n) /\ 1 \in 1..NKeys(n)
    BY <1>1, <2>2
  <2>4. \A a \in 1..NKeys(n) : /\ n.entries[a].key <= n.entries[NKeys(n)].key
                               /\ n.entries[1].key <= n.entries[a].key
    <3> TAKE a \in 1..NKeys(n)
    <3>1. (a < NKeys(n) \/ a = NKeys(n)) /\ (1 < a \/ a = 1)
      BY <2>2
    <3>2. n.entries[a].key <= n.entries[NKeys(n)].key
      BY <2>2, <2>3, <3>1
    <3>3. n.entries[1].key <= n.entries[a].key
      BY <2>2, <2>3, <3>1
    <3> QED
      BY <3>2, <3>3
  <2>5. CASE d = 0
    <3>1. Predecessor[m][n] = n.entries[NKeys(n)].key /\ Successor[m][n] = n.entries[1].key
      BY <1>1, <2>1, <2>5, LeafParts, EndsAt
    <3>2. KeysOf[d][n] = Own(n)
      BY <1>1, <2>5, KeysLeaf
    <3>3. \A x \in KeysOf[d][n] : \E a \in 1..NKeys(n) : x = n.entries[a].key
      BY <3>2 DEF Own
    <3> QED
      BY <2>2, <2>3, <2>4, <3>1, <3>3 DEF Ends
  <2>6. CASE d > 0
    <3>1. \A j \in 1..NKeys(n) + 1 : KidOK(d, n, j)
      BY <1>1, <2>6, InnerParts
    <3>2. m - 1 \in Nat /\ m - 1 >= d - 1 /\ d - 1 \in S
      BY <1>1, <2>6
    <3>3. \A j \in 1..NKeys(n) + 1 : Ends(d - 1, m - 1, n.kids[j])
      <4> TAKE j \in 1..NKeys(n) + 1
      <4>1. n.kids[j] \in Sound[d - 1] /\ NKeys(n.kids[j]) >= MinKeys
        BY <3>1 DEF KidOK
      <4>2. NKeys(n.kids[j]) \in Nat
        BY <2>6, <4>1, SoundParts
      <4>3. NKeys(n.kids[j]) >= 1
        BY <4>1, <4>2, Bounds
      <4> QED
        BY <3>2, <4>1, <4>3
    <3> HIDE DEF S
    <3>4. \A x \in KeysOf[d][n] : \/ \E a \in 1..NKeys(n) : x = n.entries[a].key
                                  \/ \E j \in 1..NKeys(n) + 1 : x \in KeysOf[d - 1][n.kids[j]]
      BY <1>1, <2>6, KeysSplit
    <3> DEFINE g == n.kids[NKeys(n) + 1]
               p == Predecessor[m - 1][g]
               f == n.kids[1]
               s == Successor[m - 1][f]
    <3>5. Predecessor[m][n] = p /\ Successor[m][n] = s
      BY <1>1, <2>1, <2>6, InnerParts, EndsAt
    <3>6. NKeys(n) + 1 \in 1..NKeys(n) + 1 /\ 1 \in 1..NKeys(n) + 1
      BY <2>2
    <3>7. /\ p \in KeysOf[d - 1][g] /\ \A x \in KeysOf[d - 1][g] : x <= p
          /\ s \in KeysOf[d - 1][f] /\ \A x \in KeysOf[d - 1][f] : s <= x
      BY <3>3, <3>6 DEF Ends
    <3>8. p \in KeysOf[d][n] /\ s \in KeysOf[d][n]
      BY <1>1, <2>6, <3>6, <3>7, KidInKeys
    <3>9. p \in Int /\ n.entries[NKeys(n)].key < p
      <4>1. NKeys(n) + 1 > 1 /\ (NKeys(n) + 1) - 1 = NKeys(n)
        BY <1>1, <2>2
      <4>2. p \in Int /\ (NKeys(n) + 1 > 1 => n.entries[(NKeys(n) + 1) - 1].key < p)
        BY <1>1, <2>6, <3>6, <3>7, KidGap
      <4> QED
        BY <4>1, <4>2
    <3>10. s \in Int /\ s < n.entries[1].key
      <4>1. 1 <= NKeys(n)
        BY <1>1, <2>2
      <4> QED
        BY <1>1, <2>6, <3>6, <3>7, <4>1, KidGap
    <3> HIDE DEF p, s
    <3>11. ASSUME NEW a \in 1..NKeys(n) PROVE n.entries[a].key <= p /\ s <= n.entries[a].key
      <4>1. /\ n.entries[a].key \in Int /\ n.entries[NKeys(n)].key \in Int
            /\ n.entries[1].key \in Int
            /\ n.entries[a].key <= n.entries[NKeys(n)].key /\ n.entries[1].key <= n.entries[a].key
        BY <2>2, <2>3, <2>4
      <4> QED
        BY <3>9, <3>10, <4>1
    <3>12. ASSUME NEW j \in 1..NKeys(n) + 1, NEW x \in KeysOf[d - 1][n.kids[j]]
           PROVE  x <= p /\ s <= x
      <4>1. /\ x \in Int
            /\ j > 1 => n.entries[j - 1].key < x
            /\ j <= NKeys(n) => x < n.entries[j].key
        BY <1>1, <2>6, KidGap
      <4>2. x <= p
        <5>1. CASE j = NKeys(n) + 1
          BY <3>7, <5>1
        <5>2. CASE j <= NKeys(n)
          <6>1. j \in 1..NKeys(n)
            BY <2>2, <5>2
          <6>2. n.entries[j].key <= p /\ n.entries[j].key \in Int
            BY <2>2, <3>11, <6>1
          <6> QED
            BY <3>9, <4>1, <5>2, <6>2
        <5>3. j = NKeys(n) + 1 \/ j <= NKeys(n)
          BY <2>2
        <5> QED
          BY <5>1, <5>2, <5>3
      <4>3. s <= x
        <5>1. CASE j = 1
          BY <3>7, <5>1
        <5>2. CASE j > 1
          <6>1. j - 1 \in 1..NKeys(n)
            BY <2>2, <5>2
          <6>2. s <= n.entries[j - 1].key /\ n.entries[j - 1].key \in Int
            BY <2>2, <3>11, <6>1
          <6> QED
            BY <3>10, <4>1, <5>2, <6>2
        <5>3. j = 1 \/ j > 1
          BY <2>2
        <5> QED
          BY <5>1, <5>2, <5>3
      <4> QED
        BY <4>2, <4>3
    <3>13. \A x \in KeysOf[d][n] : x <= p /\ s <= x
      BY <3>4, <3>11, <3>12
    <3> QED
      BY <3>5, <3>8, <3>13 DEF Ends
  <2> QED
    BY <1>1, <2>5, <2>6
<1>2. ASSUME NEW d \in Nat, d > 0 => d - 1 \in S PROVE d \in S
  BY <1>1, <1>2
<1> HIDE DEF S
<1>3. Nat \subseteq S
  BY <1>2, DepthInduct
<1> QED
  BY <1>3 DEF S

-----------------------------------------------------------------------------
(* Insertion. *)

(* A child that may have gained or lost k, where k belongs below it. *)
LEMMA DescendSound ==
  ASSUME NEW d \in Nat, d > 0, NEW p \in Sound[d], NEW i \in 1..NKeys(p) + 1,
         NEW k \in Keys, Fits(p, i, {k}),
         NEW c \in Sound[d - 1], NKeys(c) >= MinKeys,
         KeysOf[d - 1][c] \subseteq KeysOf[d - 1][p.kids[i]] \cup {k}
  PROVE  LET q == WithKid(p, i, c)
         IN  /\ q \in Sound[d] /\ NKeys(q) = NKeys(p) /\ q.kids[i] = c
             /\ k \in KeysOf[d - 1][c] /\ KeysOf[d - 1][p.kids[i]] \subseteq KeysOf[d - 1][c]
                  => KeysOf[d][q] = KeysOf[d][p] \cup {k}
             /\ KeysOf[d - 1][c] = KeysOf[d - 1][p.kids[i]] \ {k}
                  => KeysOf[d][q] = KeysOf[d][p] \ {k}
<1> DEFINE q == WithKid(p, i, c)
           old == KeysOf[d - 1][p.kids[i]]
           new == KeysOf[d - 1][c]
<1>1. Fits(p, i, new)
  <2>1. Fits(p, i, old)
    BY InnerParts DEF KidOK
  <2> QED
    BY <2>1 DEF Fits
<1>2. q \in Sound[d] /\ NKeys(q) = NKeys(p) /\ q.kids[i] = c
  BY <1>1, WithKidSound
<1>3. \A x : x \in KeysOf[d][q] <=> x \in new \/ (x \in KeysOf[d][p] /\ x \notin old)
  BY <1>1, WithKidSound
<1>4. old \subseteq KeysOf[d][p]
  BY KidInKeys
<1>5. k \in KeysOf[d][p] <=> k \in old
  BY Locate
<1>6. new \subseteq old \cup {k}
  OBVIOUS
<1> HIDE DEF old, new, q
<1>7. k \in new /\ old \subseteq new => KeysOf[d][q] = KeysOf[d][p] \cup {k}
  BY <1>3, <1>4, <1>6
<1>8. new = old \ {k} => KeysOf[d][q] = KeysOf[d][p] \ {k}
  BY <1>3, <1>4, <1>5
<1> QED
  BY <1>2, <1>7, <1>8 DEF old, new, q

(* What an insertion into a node that is not full gives. *)
Puts(d, n, k, r) ==
  /\ r \in Sound[d]
  /\ NKeys(r) >= NKeys(n)
  /\ KeysOf[d][r] = KeysOf[d][n] \cup {k}
  /\ d > 0 /\ NKeys(r) = 0 => NKeys(r.kids[1]) >= NKeys(n.kids[1])

(* A key goes into a leaf with room. *)
LEMMA PutLeafSound ==
  ASSUME NEW n \in Sound[0], NEW k \in Keys, NKeys(n) < MaxKeys, k \notin KeysOf[0][n]
  PROVE  Puts(0, n, k, Node(InsertAt(n.entries, Slot(n, k), Entry(k)), <<>>))
<1> DEFINE i == Slot(n, k)
           t == n.entries
           w == InsertAt(t, i, Entry(k))
           r == Node(w, <<>>)
<1>1. t \in Seq(EntrySet) /\ Len(t) = NKeys(n) /\ NKeys(n) \in Nat /\ Ordered(n)
  BY SoundParts
<1>2. i \in 1..NKeys(n) + 1
  BY SlotFound
<1>3. Fits(n, i, {k}) /\ KeysOf[0][n] = Own(n)
  BY KeysLeaf, SlotHolds
<1>4. Entry(k) \in EntrySet /\ Entry(k).key = k /\ k \in Int
  BY Bounds DEF EntrySet, Entry
<1>5. \A a \in 1..NKeys(n) : t[a].key \in Int
  BY OwnKeys
<1>6. \A a, b \in 1..NKeys(n) : a < b => t[a].key < t[b].key
  BY <1>1 DEF Ordered
<1>7. /\ i > 1 => t[i - 1].key < k
      /\ i <= NKeys(n) => k < t[i].key
  BY <1>3 DEF Fits
<1>8. IsInsert(EntrySet, t, i, Entry(k), w)
  BY <1>1, <1>2, <1>4, InsertAtParts
<1>9. r.entries = w /\ r.kids = <<>> /\ NKeys(r) = Len(w)
  BY NodeFields
<1> DEFINE m == NKeys(n)
<1>10. m \in Nat /\ i \in 1..m + 1 /\ m < MaxKeys /\ Len(t) = m
  BY <1>1, <1>2
<1> HIDE DEF i, w, r, m
<1>11. /\ w \in Seq(EntrySet) /\ Len(w) = m + 1 /\ w[i] = Entry(k)
       /\ \A j \in 1..i - 1 : w[j] = t[j]
       /\ \A j \in i + 1..m + 1 : w[j] = t[j - 1]
  BY <1>8, <1>10 DEF IsInsert
<1>12. ASSUME NEW a \in 1..m + 1, NEW b \in 1..m + 1, a < b PROVE w[a].key < w[b].key
  <2>1. CASE b < i
    <3>1. a \in 1..i - 1 /\ b \in 1..i - 1 /\ a \in 1..m /\ b \in 1..m
      BY <1>10, <1>12, <2>1
    <3> QED
      BY <1>6, <1>11, <1>12, <3>1 DEF m
  <2>2. CASE b = i
    <3>1. a \in 1..i - 1 /\ a \in 1..m /\ i - 1 \in 1..m /\ i > 1 /\ (a < i - 1 \/ a = i - 1)
      BY <1>10, <1>12, <2>2
    <3>2. t[a].key <= t[i - 1].key /\ t[a].key \in Int /\ t[i - 1].key \in Int
      BY <1>5, <1>6, <3>1 DEF m
    <3>3. w[a] = t[a] /\ w[b] = Entry(k)
      BY <1>11, <2>2, <3>1
    <3> QED
      BY <1>4, <1>7, <3>1, <3>2, <3>3
  <2>3. CASE b > i /\ a < i
    <3>1. a \in 1..i - 1 /\ b \in i + 1..m + 1 /\ a \in 1..m /\ b - 1 \in 1..m /\ a < b - 1
      BY <1>10, <1>12, <2>3
    <3> QED
      BY <1>6, <1>11, <3>1 DEF m
  <2>4. CASE b > i /\ a = i
    <3>1. b \in i + 1..m + 1 /\ b - 1 \in 1..m /\ i \in 1..m /\ i <= m /\ (i < b - 1 \/ i = b - 1)
      BY <1>10, <1>12, <2>4
    <3>2. t[i].key <= t[b - 1].key /\ t[i].key \in Int /\ t[b - 1].key \in Int
      BY <1>5, <1>6, <3>1 DEF m
    <3>3. w[b] = t[b - 1] /\ w[a] = Entry(k)
      BY <1>11, <2>4, <3>1
    <3>4. k < t[i].key
      BY <1>7, <3>1 DEF m
    <3> QED
      BY <1>4, <3>2, <3>3, <3>4
  <2>5. CASE b > i /\ a > i
    <3>1. a \in i + 1..m + 1 /\ b \in i + 1..m + 1 /\ a - 1 \in 1..m /\ b - 1 \in 1..m /\ a - 1 < b - 1
      BY <1>10, <1>12, <2>5
    <3> QED
      BY <1>6, <1>11, <3>1 DEF m
  <2>6. b < i \/ b = i \/ (b > i /\ a < i) \/ (b > i /\ a = i) \/ (b > i /\ a > i)
    BY <1>10, <1>12
  <2> QED
    BY <2>1, <2>2, <2>3, <2>4, <2>5, <2>6
<1>13. r \in Sound[0]
  <2>1. Ordered(r)
    BY <1>9, <1>11, <1>12 DEF Ordered
  <2>2. Len(w) <= MaxKeys
    BY <1>10, <1>11, Bounds
  <2> QED
    BY <1>11, <2>1, <2>2, MakeLeaf DEF r
<1>14. ASSUME NEW x PROVE x \in Own(r) <=> x \in Own(n) \/ x = k
  <2>1. x \in Own(r) <=> \E j \in 1..m + 1 : x = w[j].key
    BY <1>9, <1>11 DEF Own
  <2>2. x \in Own(n) <=> \E j \in 1..m : x = t[j].key
    BY DEF Own, m
  <2>3. ASSUME NEW j \in 1..m + 1
        PROVE  (\E h \in 1..m : w[j] = t[h]) \/ w[j] = Entry(k)
    <3>1. \/ j \in 1..i - 1 /\ j \in 1..m
          \/ j = i
          \/ j \in i + 1..m + 1 /\ j - 1 \in 1..m
      BY <1>10
    <3> QED
      BY <1>11, <3>1
  <2>4. ASSUME NEW j \in 1..m PROVE \E h \in 1..m + 1 : w[h] = t[j]
    <3>1. \/ j \in 1..i - 1 /\ j \in 1..m + 1
          \/ j + 1 \in i + 1..m + 1 /\ j + 1 \in 1..m + 1 /\ (j + 1) - 1 = j
      BY <1>10
    <3>2. CASE j \in 1..i - 1 /\ j \in 1..m + 1
      BY <1>11, <3>2
    <3>3. CASE j + 1 \in i + 1..m + 1 /\ j + 1 \in 1..m + 1 /\ (j + 1) - 1 = j
      <4>1. w[j + 1] = t[(j + 1) - 1]
        BY <1>11, <3>3
      <4>2. w[j + 1] = t[j] /\ j + 1 \in 1..m + 1
        BY <3>3, <4>1
      <4> QED
        BY <4>2
    <3> QED
      BY <3>1, <3>2, <3>3
  <2>5. w[i].key = k /\ i \in 1..m + 1
    BY <1>4, <1>10, <1>11
  <2> QED
    BY <1>4, <2>1, <2>2, <2>3, <2>4, <2>5
<1>15. KeysOf[0][r] = KeysOf[0][n] \cup {k}
  BY <1>3, <1>13, <1>14, KeysLeaf
<1>16. NKeys(r) >= NKeys(n)
  BY <1>9, <1>10, <1>11 DEF m
<1> QED
  BY <1>13, <1>15, <1>16 DEF Puts, r, w, i

(* The cases of an insertion at one node. *)
LEMMA PutAtLeaf ==
  ASSUME NEW x, NEW n, NEW k, IsLeaf(n)
  PROVE  PutAt(x, n, k) = Node(InsertAt(n.entries, Slot(n, k), Entry(k)), <<>>)
BY Zenon DEF PutAt

LEMMA PutAtRoom ==
  ASSUME NEW x, NEW n, NEW k, ~IsLeaf(n), NKeys(n.kids[Slot(n, k)]) # MaxKeys
  PROVE  PutAt(x, n, k) = WithKid(n, Slot(n, k), x[n.kids[Slot(n, k)]][k])
BY Zenon DEF PutAt

LEMMA PutAtFull ==
  ASSUME NEW x, NEW n, NEW k, ~IsLeaf(n), NKeys(n.kids[Slot(n, k)]) = MaxKeys
  PROVE  LET i == Slot(n, k)
             q == SplitChild(n, i)
             j == IF k > q.entries[i].key THEN i + 1 ELSE i
         IN  PutAt(x, n, k) = WithKid(q, j, x[q.kids[j]][k])
BY Zenon DEF PutAt

(* btree_insert_nonfull puts a key that is not there below a node with room. *)
LEMMA InsertNonfullSound ==
  \A d \in Nat : \A m \in Nat : m >= d => \A n \in Sound[d] : \A k \in Keys :
    NKeys(n) < MaxKeys /\ k \notin KeysOf[d][n] => Puts(d, n, k, InsertNonfull[m][n][k])
<1> DEFINE S == {d \in Nat : \A m \in Nat : m >= d => \A n \in Sound[d] : \A k \in Keys :
                   NKeys(n) < MaxKeys /\ k \notin KeysOf[d][n] =>
                     Puts(d, n, k, InsertNonfull[m][n][k])}
<1>1. ASSUME NEW d \in Nat, d > 0 => d - 1 \in S, NEW m \in Nat, m >= d,
             NEW n \in Sound[d], NEW k \in Keys, NKeys(n) < MaxKeys, k \notin KeysOf[d][n]
      PROVE  Puts(d, n, k, InsertNonfull[m][n][k])
  <2> DEFINE x == InsertNonfull[m - 1]
             i == Slot(n, k)
  <2>1. InsertNonfull[m][n][k] = PutAt(x, n, k)
    <3>1. InsertNonfull[m] = InsertNonfullStep(m, x)
      BY <1>1, InsertNonfullUnfold
    <3>2. n \in Tree[m]
      BY <1>1, InTree
    <3> QED
      BY <1>1, <3>1, <3>2 DEF InsertNonfullStep
  <2>2. CASE d = 0
    <3>1. IsLeaf(n)
      BY <1>1, <2>2, LeafParts
    <3>2. Puts(0, n, k, Node(InsertAt(n.entries, Slot(n, k), Entry(k)), <<>>))
      BY <1>1, <2>2, PutLeafSound
    <3> QED
      BY <2>1, <2>2, <3>1, <3>2, PutAtLeaf
  <2>3. CASE d > 0
    <3>1. m - 1 \in Nat /\ m - 1 >= d - 1 /\ d - 1 \in S /\ d - 1 \in Nat
      BY <1>1, <2>3
    <3>2. ASSUME NEW c \in Sound[d - 1], NKeys(c) < MaxKeys, k \notin KeysOf[d - 1][c]
          PROVE  Puts(d - 1, c, k, x[c][k])
      BY <1>1, <3>1, <3>2
    <3> HIDE DEF S, x
    <3>3. ~IsLeaf(n) /\ i \in 1..NKeys(n) + 1 /\ NKeys(n) \in Nat
      BY <1>1, <2>3, SlotFound, InnerParts, SoundParts
    <3>4. k \notin Own(n) /\ Fits(n, i, {k}) /\ k \in Int
      BY <1>1, KeysAt, SlotHolds, Bounds
    (* Going on below child j of q, which is n or n with a child split. *)
    <3>5. ASSUME NEW q \in Sound[d], NKeys(q) >= NKeys(n), KeysOf[d][q] = KeysOf[d][n],
                 NEW j \in 1..NKeys(q) + 1, Fits(q, j, {k}), NKeys(q.kids[j]) < MaxKeys,
                 NKeys(q) = 0 => q.kids[j] = n.kids[1]
          PROVE  Puts(d, n, k, WithKid(q, j, x[q.kids[j]][k]))
      <4> DEFINE c == q.kids[j]
                 s == x[c][k]
                 r == WithKid(q, j, s)
      <4>1. c \in Sound[d - 1] /\ NKeys(c) >= MinKeys /\ NKeys(c) \in Nat
        BY <2>3, <3>1, <3>5, InnerParts, SoundParts DEF KidOK
      <4>2. k \notin KeysOf[d - 1][c]
        BY <1>1, <2>3, <3>5, KidInKeys
      <4>3. Puts(d - 1, c, k, s)
        BY <3>2, <3>5, <4>1, <4>2
      <4> HIDE DEF s
      <4>4. /\ s \in Sound[d - 1] /\ NKeys(s) >= NKeys(c)
            /\ KeysOf[d - 1][s] = KeysOf[d - 1][c] \cup {k}
        BY <4>3 DEF Puts
      <4>5. NKeys(s) >= MinKeys
        <5>1. NKeys(s) \in Nat
          BY <3>1, <4>4, SoundParts
        <5> QED
          BY <4>1, <4>4, <5>1, Bounds
      <4>6. /\ KeysOf[d - 1][s] \subseteq KeysOf[d - 1][q.kids[j]] \cup {k}
            /\ k \in KeysOf[d - 1][s]
            /\ KeysOf[d - 1][q.kids[j]] \subseteq KeysOf[d - 1][s]
        BY <4>4
      <4>7. /\ r \in Sound[d] /\ NKeys(r) = NKeys(q) /\ r.kids[j] = s
            /\ KeysOf[d][r] = KeysOf[d][q] \cup {k}
        BY <1>1, <2>3, <3>5, <4>4, <4>5, <4>6, DescendSound
      <4>8. ASSUME NKeys(r) = 0 PROVE NKeys(r.kids[1]) >= NKeys(n.kids[1])
        <5>1. j = 1 /\ NKeys(q) = 0
          BY <4>7, <4>8
        <5>2. c = n.kids[1]
          BY <3>5, <5>1
        <5> QED
          BY <4>4, <4>7, <5>1, <5>2
      <4> HIDE DEF r
      <4>9. Puts(d, n, k, r)
        BY <3>5, <4>7, <4>8 DEF Puts
      <4> QED
        BY <4>9 DEF r, s
    <3>6. CASE NKeys(n.kids[i]) # MaxKeys
      <4>1. NKeys(n.kids[i]) \in Nat /\ NKeys(n.kids[i]) <= MaxKeys
        BY <1>1, <2>3, <3>1, <3>3, InnerParts, SoundParts DEF KidOK
      <4>2. NKeys(n.kids[i]) < MaxKeys /\ NKeys(n) >= NKeys(n)
        BY <3>3, <3>6, <4>1, Bounds
      <4>3. PutAt(x, n, k) = WithKid(n, i, x[n.kids[i]][k])
        BY <3>3, <3>6, PutAtRoom
      <4>4. NKeys(n) = 0 => n.kids[i] = n.kids[1]
        BY <3>3
      <4> QED
        BY <1>1, <2>1, <3>3, <3>4, <3>5, <4>2, <4>3, <4>4
    <3>7. CASE NKeys(n.kids[i]) = MaxKeys
      <4> DEFINE q == SplitChild(n, i)
                 j == IF k > q.entries[i].key THEN i + 1 ELSE i
      <4>1. PutAt(x, n, k) = WithKid(q, j, x[q.kids[j]][k])
        BY <3>3, <3>7, PutAtFull
      <4>2. /\ q \in Sound[d] /\ NKeys(q) = NKeys(n) + 1
            /\ NKeys(q.kids[i]) = MinKeys /\ NKeys(q.kids[i + 1]) = MinKeys
            /\ i > 1 => q.entries[i - 1] = n.entries[i - 1]
            /\ i <= NKeys(n) => q.entries[i + 1] = n.entries[i]
            /\ KeysOf[d][q] = KeysOf[d][n]
        BY <1>1, <2>3, <3>3, <3>7, SplitSound
      <4> HIDE DEF q, i
      <4>3. i \in 1..NKeys(q) /\ q.entries[i].key \in Int /\ q.entries[i].key # k
        <5>1. i \in 1..NKeys(q)
          BY <3>3, <4>2
        <5>2. q.entries[i].key \in Int
          BY <4>2, <5>1, OwnKeys
        <5>3. q.entries[i].key \in KeysOf[d][q]
          BY <4>2, <5>1, OwnInKeys
        <5> QED
          BY <1>1, <4>2, <5>1, <5>2, <5>3
      <4>4. /\ i > 1 => n.entries[i - 1].key < k
            /\ i <= NKeys(n) => k < n.entries[i].key
        BY <3>4 DEF Fits
      <4>5. j \in 1..NKeys(q) + 1 /\ NKeys(q.kids[j]) = MinKeys
        BY <3>3, <4>2, <4>3
      <4>6. Fits(q, j, {k})
        <5>1. CASE k > q.entries[i].key
          <6>1. j = i + 1 /\ (i + 1) - 1 = i
            BY <3>3, <5>1
          <6>2. i + 1 <= NKeys(q) => k < q.entries[i + 1].key
            <7>1. i + 1 <= NKeys(q) => i <= NKeys(n)
              BY <3>3, <4>2
            <7> QED
              BY <4>2, <4>4, <7>1
          <6>3. q.entries[(i + 1) - 1].key < k
            BY <3>4, <4>3, <5>1, <6>1
          <6> QED
            BY <6>1, <6>2, <6>3 DEF Fits
        <5>2. CASE ~(k > q.entries[i].key)
          <6>1. j = i /\ k < q.entries[i].key
            BY <3>4, <4>3, <5>2
          <6>2. i > 1 => q.entries[i - 1].key < k
            BY <4>2, <4>4
          <6> QED
            BY <6>1, <6>2 DEF Fits
        <5> QED
          BY <5>1, <5>2
      <4> HIDE DEF j
      <4>7. NKeys(q) >= NKeys(n) /\ NKeys(q.kids[j]) < MaxKeys /\ NKeys(q) # 0
        BY <3>3, <4>2, <4>5, Bounds
      <4> QED
        BY <2>1, <3>5, <4>1, <4>2, <4>5, <4>6, <4>7
    <3> QED
      BY <3>6, <3>7
  <2> QED
    BY <1>1, <2>2, <2>3
<1>2. ASSUME NEW d \in Nat, d > 0 => d - 1 \in S PROVE d \in S
  BY <1>1, <1>2
<1> HIDE DEF S
<1>3. Nat \subseteq S
  BY <1>2, DepthInduct
<1> QED
  BY <1>3 DEF S

-----------------------------------------------------------------------------
(* Deletion. *)

(* A root without keys can lose one key below it all the same. *)
Deletable(d, n) == d > 0 /\ NKeys(n) = 0 => NKeys(n.kids[1]) > MinKeys

(* The keys that must be left below a node that has none itself. *)
Reserve(n) == (IF NKeys(n) = 0 THEN NKeys(n.kids[1]) ELSE MaxKeys) - 1

(* What a deletion below n gives. *)
Drops(d, n, k, r) ==
  /\ r \in Sound[d]
  /\ KeysOf[d][r] = KeysOf[d][n] \ {k}
  /\ NKeys(r) = NKeys(n) \/ NKeys(r) = NKeys(n) - 1
  /\ d = 0 /\ k \notin KeysOf[d][n] => r = n
  /\ d > 0 /\ NKeys(r) = 0 => NKeys(r.kids[1]) >= Reserve(n)

(* A key goes out of a leaf. *)
LEMMA DropLeafSound ==
  ASSUME NEW n \in Sound[0], NEW k \in Keys, Holds(n, k)
  PROVE  Drops(0, n, k, Node(RemoveAt(n.entries, Slot(n, k)), <<>>))
<1> DEFINE i == Slot(n, k)
           t == n.entries
           w == RemoveAt(t, i)
           r == Node(w, <<>>)
           m == NKeys(n)
<1>1. t \in Seq(EntrySet) /\ Len(t) = m /\ m \in Nat /\ m <= MaxKeys /\ Ordered(n)
  BY SoundParts
<1>2. i \in 1..m /\ t[i].key = k /\ k \in Own(n) /\ KeysOf[0][n] = Own(n)
  BY SlotHolds, KeysLeaf
<1>3. \A a, b \in 1..m : a < b => t[a].key < t[b].key
  BY <1>1 DEF Ordered
<1>4. \A a \in 1..m : t[a].key \in Int
  BY OwnKeys
<1>5. i \in 1..Len(t)
  BY <1>1, <1>2
<1>6. r.entries = w /\ r.kids = <<>> /\ NKeys(r) = Len(w)
  BY NodeFields
<1> HIDE DEF i, m, r
<1>7. /\ w \in Seq(EntrySet) /\ Len(w) = Len(t) - 1
      /\ \A j \in 1..Len(t) - 1 : w[j] = IF j < i THEN t[j] ELSE t[j + 1]
  BY <1>1, <1>5, RemoveAtSeq
<1> HIDE DEF w
<1>8. Len(w) = m - 1
  BY <1>1, <1>7
<1>9. \A j \in 1..i - 1 : w[j] = t[j]
  BY <1>1, <1>2, <1>7
<1>10. \A j \in i..m - 1 : w[j] = t[j + 1]
  BY <1>1, <1>2, <1>7
<1>11. ASSUME NEW a \in 1..m - 1, NEW b \in 1..m - 1, a < b PROVE w[a].key < w[b].key
  <2>1. CASE b < i
    <3>1. a \in 1..i - 1 /\ b \in 1..i - 1 /\ a \in 1..m /\ b \in 1..m
      BY <1>1, <1>2, <1>11, <2>1
    <3> QED
      BY <1>3, <1>9, <1>11, <3>1
  <2>2. CASE a < i /\ ~(b < i)
    <3>1. a \in 1..i - 1 /\ b \in i..m - 1 /\ a \in 1..m /\ b + 1 \in 1..m /\ a < b + 1
      BY <1>1, <1>2, <1>11, <2>2
    <3> QED
      BY <1>3, <1>9, <1>10, <3>1
  <2>3. CASE ~(a < i) /\ ~(b < i)
    <3>1. a \in i..m - 1 /\ b \in i..m - 1 /\ a + 1 \in 1..m /\ b + 1 \in 1..m /\ a + 1 < b + 1
      BY <1>1, <1>2, <1>11, <2>3
    <3> QED
      BY <1>3, <1>10, <3>1
  <2>4. b < i \/ (a < i /\ ~(b < i)) \/ (~(a < i) /\ ~(b < i))
    BY <1>1, <1>2, <1>11
  <2> QED
    BY <2>1, <2>2, <2>3, <2>4
<1>12. r \in Sound[0]
  <2>1. Ordered(r)
    BY <1>6, <1>8, <1>11 DEF Ordered
  <2>2. Len(w) <= MaxKeys
    BY <1>1, <1>8, Bounds
  <2> QED
    BY <1>7, <2>1, <2>2, MakeLeaf DEF r
<1>13. ASSUME NEW x PROVE x \in Own(r) <=> x \in Own(n) /\ x # k
  <2>1. x \in Own(r) <=> \E j \in 1..m - 1 : x = w[j].key
    BY <1>6, <1>8 DEF Own
  <2>2. x \in Own(n) <=> \E j \in 1..m : x = t[j].key
    BY DEF Own, m
  <2>3. ASSUME NEW j \in 1..m, j # i PROVE t[j].key # k
    <3>1. j < i \/ i < j
      BY <1>1, <1>2, <2>3
    <3> QED
      BY <1>2, <1>3, <1>4, <3>1
  <2>4. ASSUME NEW j \in 1..m - 1 PROVE \E h \in 1..m : h # i /\ w[j] = t[h]
    <3>1. \/ j \in 1..i - 1 /\ j \in 1..m /\ j # i
          \/ j \in i..m - 1 /\ j + 1 \in 1..m /\ j + 1 # i
      BY <1>1, <1>2
    <3> QED
      BY <1>9, <1>10, <3>1
  <2>5. ASSUME NEW j \in 1..m, j # i PROVE \E h \in 1..m - 1 : w[h] = t[j]
    <3>1. \/ j \in 1..i - 1 /\ j \in 1..m - 1
          \/ j - 1 \in i..m - 1 /\ j - 1 \in 1..m - 1 /\ (j - 1) + 1 = j
      BY <1>1, <1>2, <2>5
    <3> QED
      BY <1>9, <1>10, <3>1
  <2>6. x # k => (x \in Own(n) <=> \E j \in 1..m : j # i /\ x = t[j].key)
    BY <1>2, <2>2
  <2> QED
    BY <2>1, <2>3, <2>4, <2>5, <2>6
<1>14. KeysOf[0][r] = KeysOf[0][n] \ {k}
  BY <1>2, <1>12, <1>13, KeysLeaf
<1>15. NKeys(r) = NKeys(n) - 1
  BY <1>6, <1>8 DEF m
<1> QED
  BY <1>2, <1>12, <1>14, <1>15 DEF Drops, r, w, i

-----------------------------------------------------------------------------
(* The ways a deletion goes on below an inner node. *)

(* The cases of a deletion at one inner node. *)
LEMMA DeleteAtMiss ==
  ASSUME NEW d, NEW x, NEW n, NEW k, ~IsLeaf(n), ~Holds(n, k)
  PROVE  LET i == Slot(n, k)
             q == IF NKeys(n.kids[i]) <= MinKeys THEN Fill(n, i) ELSE n
             j == NextKid(q, i)
         IN  DeleteAt(d, x, n, k) = WithKid(q, j, x[q.kids[j]][k])
BY Zenon DEF DeleteAt, NextKid

LEMMA DeleteAtLeft ==
  ASSUME NEW d, NEW x, NEW n, NEW k, ~IsLeaf(n), Holds(n, k),
         NKeys(n.kids[Slot(n, k)]) > MinKeys
  PROVE  LET i == Slot(n, k)
             l == n.kids[i]
             pred == Predecessor[d - 1][l]
         IN  DeleteAt(d, x, n, k) =
               Between(n, i, x[l][pred], [key |-> pred, row |-> Search[d - 1][l][pred]],
                       n.kids[i + 1])
BY Zenon DEF DeleteAt

LEMMA DeleteAtRight ==
  ASSUME NEW d, NEW x, NEW n, NEW k, ~IsLeaf(n), Holds(n, k),
         ~(NKeys(n.kids[Slot(n, k)]) > MinKeys), NKeys(n.kids[Slot(n, k) + 1]) > MinKeys
  PROVE  LET i == Slot(n, k)
             r == n.kids[i + 1]
             succ == Successor[d - 1][r]
         IN  DeleteAt(d, x, n, k) =
               Between(n, i, n.kids[i], [key |-> succ, row |-> Search[d - 1][r][succ]],
                       x[r][succ])
BY Zenon DEF DeleteAt

LEMMA DeleteAtMerge ==
  ASSUME NEW d, NEW x, NEW n, NEW k, ~IsLeaf(n), Holds(n, k),
         ~(NKeys(n.kids[Slot(n, k)]) > MinKeys), ~(NKeys(n.kids[Slot(n, k) + 1]) > MinKeys)
  PROVE  LET i == Slot(n, k)
             q == MergeKids(n, i)
         IN  DeleteAt(d, x, n, k) = WithKid(q, i, x[q.kids[i]][k])
BY Zenon DEF DeleteAt

(* The deletion goes on below child j of q, which is n or n rearranged. *)
LEMMA DropBelow ==
  ASSUME NEW d \in Nat, d > 0, NEW n \in Sound[d], NEW k \in Keys,
         NEW q \in Sound[d], KeysOf[d][q] = KeysOf[d][n],
         NKeys(q) = NKeys(n) \/ NKeys(q) = NKeys(n) - 1,
         NEW j \in 1..NKeys(q) + 1, Fits(q, j, {k}), NKeys(q.kids[j]) > MinKeys,
         NKeys(q) = 0 => NKeys(q.kids[j]) - 1 >= Reserve(n),
         NEW s, Drops(d - 1, q.kids[j], k, s)
  PROVE  Drops(d, n, k, WithKid(q, j, s))
<1> DEFINE c == q.kids[j]
           r == WithKid(q, j, s)
<1>1. /\ s \in Sound[d - 1] /\ KeysOf[d - 1][s] = KeysOf[d - 1][q.kids[j]] \ {k}
      /\ NKeys(s) = NKeys(c) \/ NKeys(s) = NKeys(c) - 1
  BY DEF Drops
<1>2. d - 1 \in Nat /\ NKeys(q) \in Nat
  BY SoundParts
<1>3. NKeys(c) \in Nat
  BY <1>2, InnerParts, SoundParts DEF KidOK
<1>4. NKeys(s) >= MinKeys /\ NKeys(s) >= NKeys(c) - 1 /\ NKeys(s) \in Int
  BY <1>1, <1>3, Bounds
<1>5. KeysOf[d - 1][s] \subseteq KeysOf[d - 1][q.kids[j]] \cup {k}
  BY <1>1
<1>6. r \in Sound[d] /\ NKeys(r) = NKeys(q) /\ r.kids[j] = s
  BY <1>1, <1>4, <1>5, DescendSound
<1>7. KeysOf[d][r] = KeysOf[d][q] \ {k}
  BY <1>1, <1>4, <1>5, DescendSound
<1>8. ASSUME NKeys(r) = 0 PROVE NKeys(r.kids[1]) >= Reserve(n)
  <2>1. NKeys(q) = 0 /\ j = 1
    BY <1>6, <1>8
  <2>2. NKeys(c) - 1 >= Reserve(n) /\ r.kids[1] = s
    BY <1>6, <2>1
  <2>3. Reserve(n) \in Int
    <3>1. NKeys(n) = 0 => NKeys(n.kids[1]) \in Nat
      <4>1. NKeys(n) \in Nat /\ 1 \in 1..NKeys(n) + 1
        BY SoundParts
      <4>2. n.kids[1] \in Sound[d - 1]
        BY <4>1, InnerParts DEF KidOK
      <4> QED
        BY <1>2, <4>2, SoundParts
    <3> QED
      BY <3>1, Bounds DEF Reserve
  <2> HIDE DEF c, r
  <2> QED
    BY <1>3, <1>4, <2>2, <2>3
<1> QED
  BY <1>6, <1>7, <1>8 DEF Drops

(* The entry k at i of n is replaced by the largest key on its left ... *)
LEMMA DropLeft ==
  ASSUME NEW d \in Nat, d > 0, NEW n \in Sound[d], NEW i \in 1..NKeys(n), NEW k \in Keys,
         n.entries[i].key = k, NKeys(n.kids[i]) > MinKeys,
         NEW x \in KeysOf[d - 1][n.kids[i]], \A y \in KeysOf[d - 1][n.kids[i]] : y <= x,
         NEW s, Drops(d - 1, n.kids[i], x, s)
  PROVE  Drops(d, n, k, Between(n, i, s, Entry(x), n.kids[i + 1]))
<1> DEFINE l == n.kids[i]
           e == n.entries[i]
           r == n.kids[i + 1]
           q == Between(n, i, s, Entry(x), r)
<1>1. d - 1 \in Nat /\ NKeys(n) \in Nat
  BY SoundParts
<1>2. /\ l \in Sound[d - 1] /\ r \in Sound[d - 1] /\ NKeys(r) >= MinKeys
      /\ Splits(d - 1, l, e, r) /\ AllKeys(d - 1, l, e, r) \subseteq KeysOf[d][n]
  BY PairParts
<1>3. NKeys(l) \in Nat /\ NKeys(l) > MinKeys
  BY <1>1, <1>2, SoundParts
<1>4. /\ s \in Sound[d - 1] /\ KeysOf[d - 1][s] = KeysOf[d - 1][l] \ {x}
      /\ NKeys(s) = NKeys(l) \/ NKeys(s) = NKeys(l) - 1
  BY DEF Drops
<1>5. NKeys(s) >= MinKeys
  BY <1>3, <1>4, Bounds
<1>6. x \in Keys /\ x \in Int /\ k \in Int /\ x < k
  <2>1. x \in Keys /\ x \in Int
    BY <1>1, <1>2, KeysInt
  <2>2. x < k
    BY <1>2 DEF Splits
  <2> QED
    BY <2>1, <2>2, Bounds
<1>7. Entry(x) \in EntrySet /\ Entry(x).key = x
  BY <1>6 DEF EntrySet, Entry
<1>8. Splits(d - 1, s, Entry(x), r)
  <2>1. ASSUME NEW y \in KeysOf[d - 1][s] PROVE y < x
    <3>1. y \in KeysOf[d - 1][l] /\ y # x
      BY <1>4, <2>1
    <3>2. y \in Int /\ y <= x
      BY <1>1, <1>2, <3>1, KeysInt
    <3> QED
      BY <1>6, <3>1, <3>2
  <2>2. ASSUME NEW y \in KeysOf[d - 1][r] PROVE x < y
    <3>1. y \in Int /\ k < y
      BY <1>1, <1>2, <2>2, KeysInt DEF Splits
    <3> QED
      BY <1>6, <3>1
  <2> QED
    BY <1>7, <2>1, <2>2 DEF Splits
<1>9. AllKeys(d - 1, s, Entry(x), r) \subseteq
        AllKeys(d - 1, n.kids[i], n.entries[i], n.kids[i + 1])
  BY <1>4, <1>7 DEF AllKeys
<1>10. q \in Sound[d] /\ NKeys(q) = NKeys(n)
  BY <1>2, <1>4, <1>5, <1>7, <1>8, <1>9, BetweenSound
<1>11. \A y : y \in KeysOf[d][q] <=>
         \/ y \in AllKeys(d - 1, s, Entry(x), r)
         \/ /\ y \in KeysOf[d][n]
            /\ y \notin AllKeys(d - 1, n.kids[i], n.entries[i], n.kids[i + 1])
  BY <1>2, <1>4, <1>5, <1>7, <1>8, <1>9, BetweenSound
<1>12. k \notin KeysOf[d - 1][l] /\ k \notin KeysOf[d - 1][r]
  <2>1. ~(k < k)
    BY <1>6
  <2> QED
    BY <1>2, <2>1 DEF Splits
<1>13. KeysOf[d][q] = KeysOf[d][n] \ {k}
  <2>1. x # k
    BY <1>6
  <2>2. KeysOf[d - 1][s] = KeysOf[d - 1][l] \ {x} /\ x \in KeysOf[d - 1][l]
    BY <1>4
  <2>3. AllKeys(d - 1, s, Entry(x), r) = KeysOf[d - 1][l] \cup KeysOf[d - 1][r]
    BY <1>7, <2>2 DEF AllKeys
  <2>4. AllKeys(d - 1, n.kids[i], n.entries[i], n.kids[i + 1]) =
          KeysOf[d - 1][l] \cup KeysOf[d - 1][r] \cup {k}
    BY DEF AllKeys
  <2> HIDE DEF l, r, q
  <2>5. KeysOf[d - 1][l] \subseteq KeysOf[d][n] /\ KeysOf[d - 1][r] \subseteq KeysOf[d][n]
    BY <1>2, <2>4 DEF l, r, AllKeys
  <2> QED
    BY <1>11, <1>12, <2>3, <2>4, <2>5
<1>14. NKeys(q) # 0
  BY <1>1, <1>10
<1> QED
  BY <1>10, <1>13, <1>14 DEF Drops

(* ... or by the smallest on its right. *)
LEMMA DropRight ==
  ASSUME NEW d \in Nat, d > 0, NEW n \in Sound[d], NEW i \in 1..NKeys(n), NEW k \in Keys,
         n.entries[i].key = k, NKeys(n.kids[i + 1]) > MinKeys,
         NEW x \in KeysOf[d - 1][n.kids[i + 1]],
         \A y \in KeysOf[d - 1][n.kids[i + 1]] : x <= y,
         NEW s, Drops(d - 1, n.kids[i + 1], x, s)
  PROVE  Drops(d, n, k, Between(n, i, n.kids[i], Entry(x), s))
<1> DEFINE l == n.kids[i]
           e == n.entries[i]
           r == n.kids[i + 1]
           q == Between(n, i, l, Entry(x), s)
<1>1. d - 1 \in Nat /\ NKeys(n) \in Nat
  BY SoundParts
<1>2. /\ l \in Sound[d - 1] /\ r \in Sound[d - 1] /\ NKeys(l) >= MinKeys
      /\ Splits(d - 1, l, e, r) /\ AllKeys(d - 1, l, e, r) \subseteq KeysOf[d][n]
  BY PairParts
<1>3. NKeys(r) \in Nat /\ NKeys(r) > MinKeys
  BY <1>1, <1>2, SoundParts
<1>4. /\ s \in Sound[d - 1] /\ KeysOf[d - 1][s] = KeysOf[d - 1][r] \ {x}
      /\ NKeys(s) = NKeys(r) \/ NKeys(s) = NKeys(r) - 1
  BY DEF Drops
<1>5. NKeys(s) >= MinKeys
  BY <1>3, <1>4, Bounds
<1>6. x \in Keys /\ x \in Int /\ k \in Int /\ k < x
  <2>1. x \in Keys /\ x \in Int
    BY <1>1, <1>2, KeysInt
  <2>2. k < x
    BY <1>2 DEF Splits
  <2> QED
    BY <2>1, <2>2, Bounds
<1>7. Entry(x) \in EntrySet /\ Entry(x).key = x
  BY <1>6 DEF EntrySet, Entry
<1>8. Splits(d - 1, l, Entry(x), s)
  <2>1. ASSUME NEW y \in KeysOf[d - 1][s] PROVE x < y
    <3>1. y \in KeysOf[d - 1][r] /\ y # x
      BY <1>4, <2>1
    <3>2. y \in Int /\ x <= y
      BY <1>1, <1>2, <3>1, KeysInt
    <3> QED
      BY <1>6, <3>1, <3>2
  <2>2. ASSUME NEW y \in KeysOf[d - 1][l] PROVE y < x
    <3>1. y \in Int /\ y < k
      BY <1>1, <1>2, <2>2, KeysInt DEF Splits
    <3> QED
      BY <1>6, <3>1
  <2> QED
    BY <1>7, <2>1, <2>2 DEF Splits
<1>9. AllKeys(d - 1, l, Entry(x), s) \subseteq
        AllKeys(d - 1, n.kids[i], n.entries[i], n.kids[i + 1])
  BY <1>4, <1>7 DEF AllKeys
<1>10. q \in Sound[d] /\ NKeys(q) = NKeys(n)
  BY <1>2, <1>4, <1>5, <1>7, <1>8, <1>9, BetweenSound
<1>11. \A y : y \in KeysOf[d][q] <=>
         \/ y \in AllKeys(d - 1, l, Entry(x), s)
         \/ /\ y \in KeysOf[d][n]
            /\ y \notin AllKeys(d - 1, n.kids[i], n.entries[i], n.kids[i + 1])
  BY <1>2, <1>4, <1>5, <1>7, <1>8, <1>9, BetweenSound
<1>12. k \notin KeysOf[d - 1][l] /\ k \notin KeysOf[d - 1][r]
  <2>1. ~(k < k)
    BY <1>6
  <2> QED
    BY <1>2, <2>1 DEF Splits
<1>13. KeysOf[d][q] = KeysOf[d][n] \ {k}
  <2>1. x # k
    BY <1>6
  <2>2. KeysOf[d - 1][s] = KeysOf[d - 1][r] \ {x} /\ x \in KeysOf[d - 1][r]
    BY <1>4
  <2>3. AllKeys(d - 1, l, Entry(x), s) = KeysOf[d - 1][l] \cup KeysOf[d - 1][r]
    BY <1>7, <2>2 DEF AllKeys
  <2>4. AllKeys(d - 1, n.kids[i], n.entries[i], n.kids[i + 1]) =
          KeysOf[d - 1][l] \cup KeysOf[d - 1][r] \cup {k}
    BY DEF AllKeys
  <2> HIDE DEF l, r, q
  <2>5. KeysOf[d - 1][l] \subseteq KeysOf[d][n] /\ KeysOf[d - 1][r] \subseteq KeysOf[d][n]
    BY <1>2, <2>4 DEF l, r, AllKeys
  <2> QED
    BY <1>11, <1>12, <2>3, <2>4, <2>5
<1>14. NKeys(q) # 0
  BY <1>1, <1>10
<1> QED
  BY <1>10, <1>13, <1>14 DEF Drops

(* btree_delete_recursive takes a key out of the tree below a node, if it is
   there, and leaves every node below that one at the minimum at least. *)
LEMMA DeleteFromSound ==
  \A d \in Nat : \A m \in Nat : m >= d => \A n \in Sound[d] : \A k \in Keys :
    Deletable(d, n) => Drops(d, n, k, DeleteFrom[m][n][k])
<1> DEFINE S == {d \in Nat : \A m \in Nat : m >= d => \A n \in Sound[d] : \A k \in Keys :
                   Deletable(d, n) => Drops(d, n, k, DeleteFrom[m][n][k])}
<1>1. ASSUME NEW d \in Nat, d > 0 => d - 1 \in S, NEW m \in Nat, m >= d,
             NEW n \in Sound[d], NEW k \in Keys, Deletable(d, n)
      PROVE  Drops(d, n, k, DeleteFrom[m][n][k])
  <2> DEFINE x == DeleteFrom[m - 1]
             i == Slot(n, k)
  <2>1. DeleteFrom[m][n][k] = DeleteAt(m, x, n, k)
    <3>1. DeleteFrom[m] = DeleteFromStep(m, x)
      BY <1>1, DeleteFromUnfold
    <3>2. n \in Tree[m]
      BY <1>1, InTree
    <3> QED
      BY <1>1, <3>1, <3>2 DEF DeleteFromStep
  <2>2. CASE d = 0
    <3>1. IsLeaf(n)
      BY <1>1, <2>2, LeafParts
    <3>2. CASE Holds(n, k)
      <4>1. Drops(0, n, k, Node(RemoveAt(n.entries, Slot(n, k)), <<>>))
        BY <1>1, <2>2, <3>2, DropLeafSound
      <4>2. DeleteAt(m, x, n, k) = Node(RemoveAt(n.entries, Slot(n, k)), <<>>)
        BY <3>1, <3>2, DeleteAtLeaf
      <4> QED
        BY <2>1, <2>2, <4>1, <4>2
    <3>3. CASE ~Holds(n, k)
      <4>1. DeleteAt(m, x, n, k) = n
        BY <3>1, <3>3, DeleteAtLeaf
      <4>2. k \notin KeysOf[d][n]
        BY <1>1, <2>2, <3>3, SlotHolds, KeysLeaf
      <4>3. Drops(d, n, k, n)
        BY <1>1, <2>2, <4>2 DEF Drops
      <4> QED
        BY <2>1, <4>1, <4>3
    <3> QED
      BY <3>2, <3>3
  <2>3. CASE d > 0
    <3>1. m - 1 \in Nat /\ m - 1 >= d - 1 /\ d - 1 \in S /\ d - 1 \in Nat
      BY <1>1, <2>3
    <3>2. ASSUME NEW c \in Sound[d - 1], NKeys(c) > MinKeys, NEW a \in Keys
          PROVE  Drops(d - 1, c, a, x[c][a])
      <4>1. Deletable(d - 1, c)
        <5>1. NKeys(c) # 0
          BY <3>2, Bounds
        <5> QED
          BY <5>1 DEF Deletable
      <4> QED
        BY <1>1, <3>1, <3>2, <4>1
    <3> HIDE DEF S, x
    <3>3. ~IsLeaf(n) /\ i \in 1..NKeys(n) + 1 /\ NKeys(n) \in Nat
      BY <1>1, <2>3, SlotFound, InnerParts, SoundParts
    <3>4. \A q \in Sound[d] : \A j \in 1..NKeys(q) + 1 : q.kids[j] \in Sound[d - 1]
      BY <2>3, InnerParts DEF KidOK
    <3>5. CASE ~Holds(n, k)
      <4> DEFINE q == IF NKeys(n.kids[i]) <= MinKeys THEN Fill(n, i) ELSE n
                 j == NextKid(q, i)
      <4>1. DeleteAt(m, x, n, k) = WithKid(q, j, x[q.kids[j]][k])
        BY <3>3, <3>5, DeleteAtMiss
      <4>2. Fits(n, i, {k})
        BY <1>1, <3>5, SlotHolds
      <4>3. /\ q \in Sound[d] /\ KeysOf[d][q] = KeysOf[d][n]
            /\ NKeys(q) = NKeys(n) \/ NKeys(q) = NKeys(n) - 1
            /\ j \in 1..NKeys(q) + 1 /\ Fits(q, j, {k})
            /\ NKeys(q.kids[j]) > MinKeys
            /\ NKeys(q) = 0 => NKeys(q.kids[j]) - 1 >= Reserve(n)
        <5>1. CASE NKeys(n.kids[i]) <= MinKeys
          <6>1. NKeys(n) # 0
            <7>1. ASSUME NKeys(n) = 0 PROVE FALSE
              <8>1. i = 1 /\ NKeys(n.kids[1]) > MinKeys
                BY <1>1, <2>3, <3>3, <7>1 DEF Deletable
              <8>2. NKeys(n.kids[1]) \in Nat
                <9>1. 1 \in 1..NKeys(n) + 1
                  BY <7>1
                <9> QED
                  BY <1>1, <3>1, <3>4, <9>1, SoundParts
              <8> QED
                BY <5>1, <8>1, <8>2, Bounds
            <7> QED
              BY <7>1
          <6>2. NKeys(n) >= 1
            BY <3>3, <6>1
          <6>3. q = Fill(n, i)
            BY <5>1
          <6> HIDE DEF q
          <6>4. /\ q \in Sound[d] /\ KeysOf[d][q] = KeysOf[d][n]
                /\ NKeys(q) = NKeys(n) \/ NKeys(q) = NKeys(n) - 1
                /\ j \in 1..NKeys(q) + 1 /\ Fits(q, j, {k})
                /\ NKeys(q.kids[j]) > MinKeys
                /\ NKeys(q) = 0 => NKeys(q.kids[j]) = MaxKeys
            BY <1>1, <2>3, <3>3, <4>2, <5>1, <6>2, <6>3, FillSound
          <6>5. Reserve(n) = MaxKeys - 1
            BY <6>1 DEF Reserve
          <6>6. MaxKeys - 1 >= MaxKeys - 1
            BY Bounds
          <6> HIDE DEF j
          <6> QED
            BY <6>4, <6>5, <6>6
        <5>2. CASE ~(NKeys(n.kids[i]) <= MinKeys)
          <6>1. q = n /\ j = i
            BY <3>3, <5>2 DEF NextKid
          <6>2. NKeys(n.kids[i]) \in Nat
            BY <1>1, <3>1, <3>3, <3>4, SoundParts
          <6>3. NKeys(n.kids[i]) > MinKeys
            BY <5>2, <6>2, Bounds
          <6>4. NKeys(n) = 0 => NKeys(n.kids[i]) - 1 >= Reserve(n)
            <7>1. NKeys(n) = 0 => i = 1
              BY <3>3
            <7> QED
              BY <6>2, <7>1 DEF Reserve
          <6> HIDE DEF q, j
          <6> QED
            BY <1>1, <3>3, <4>2, <6>1, <6>3, <6>4
        <5> QED
          BY <5>1, <5>2
      <4> HIDE DEF q, j
      <4>4. Drops(d - 1, q.kids[j], k, x[q.kids[j]][k])
        BY <1>1, <3>2, <3>4, <4>3
      <4> QED
        BY <1>1, <2>1, <2>3, <4>1, <4>3, <4>4, DropBelow
    <3>6. CASE Holds(n, k)
      <4>1. i \in 1..NKeys(n) /\ n.entries[i].key = k
        BY <1>1, <3>6, SlotHolds
      <4> DEFINE l == n.kids[i]
                 r == n.kids[i + 1]
      <4>2. /\ l \in Sound[d - 1] /\ NKeys(l) >= MinKeys
            /\ r \in Sound[d - 1] /\ NKeys(r) >= MinKeys
        BY <1>1, <2>3, <4>1, PairParts
      <4>3. NKeys(l) \in Nat /\ NKeys(r) \in Nat
        BY <3>1, <4>2, SoundParts
      <4>4. CASE NKeys(l) > MinKeys
        <5> DEFINE p == Predecessor[m - 1][l]
        <5>1. NKeys(l) >= 1
          BY <4>2, <4>3, Bounds
        <5>2. p \in KeysOf[d - 1][l] /\ \A y \in KeysOf[d - 1][l] : y <= p
          <6>1. Ends(d - 1, m - 1, l)
            BY <3>1, <4>2, <5>1, EndsSound
          <6> QED
            BY <6>1 DEF Ends
        <5>3. DeleteAt(m, x, n, k) =
                Between(n, i, x[l][p], [key |-> p, row |-> Search[m - 1][l][p]], r)
          BY <3>3, <3>6, <4>4, DeleteAtLeft
        <5> HIDE DEF p
        <5>4. p \in Keys
          BY <3>1, <4>2, <5>2, KeysInt
        <5>5. [key |-> p, row |-> Search[m - 1][l][p]] = Entry(p)
          <6>1. Finds(d - 1, m - 1, l)
            BY <3>1, <4>2, SearchSound
          <6> QED
            BY <5>2, <5>4, <6>1 DEF Finds, Entry
        <5>6. Drops(d - 1, l, p, x[l][p])
          BY <3>2, <4>2, <4>4, <5>4
        <5>7. Drops(d, n, k, Between(n, i, x[l][p], Entry(p), r))
          BY <1>1, <2>3, <4>1, <4>4, <5>2, <5>6, DropLeft
        <5> QED
          BY <2>1, <5>3, <5>5, <5>7
      <4>5. CASE ~(NKeys(l) > MinKeys) /\ NKeys(r) > MinKeys
        <5> DEFINE p == Successor[m - 1][r]
        <5>1. NKeys(r) >= 1
          BY <4>2, <4>3, Bounds
        <5>2. p \in KeysOf[d - 1][r] /\ \A y \in KeysOf[d - 1][r] : p <= y
          <6>1. Ends(d - 1, m - 1, r)
            BY <3>1, <4>2, <5>1, EndsSound
          <6> QED
            BY <6>1 DEF Ends
        <5>3. DeleteAt(m, x, n, k) =
                Between(n, i, l, [key |-> p, row |-> Search[m - 1][r][p]], x[r][p])
          BY <3>3, <3>6, <4>5, DeleteAtRight
        <5> HIDE DEF p
        <5>4. p \in Keys
          BY <3>1, <4>2, <5>2, KeysInt
        <5>5. [key |-> p, row |-> Search[m - 1][r][p]] = Entry(p)
          <6>1. Finds(d - 1, m - 1, r)
            BY <3>1, <4>2, SearchSound
          <6> QED
            BY <5>2, <5>4, <6>1 DEF Finds, Entry
        <5>6. Drops(d - 1, r, p, x[r][p])
          BY <3>2, <4>2, <4>5, <5>4
        <5>7. Drops(d, n, k, Between(n, i, l, Entry(p), x[r][p]))
          BY <1>1, <2>3, <4>1, <4>5, <5>2, <5>6, DropRight
        <5> QED
          BY <2>1, <5>3, <5>5, <5>7
      <4>6. CASE ~(NKeys(l) > MinKeys) /\ ~(NKeys(r) > MinKeys)
        <5> DEFINE q == MergeKids(n, i)
        <5>1. DeleteAt(m, x, n, k) = WithKid(q, i, x[q.kids[i]][k])
          BY <3>3, <3>6, <4>6, DeleteAtMerge
        <5>2. NKeys(l) = MinKeys /\ NKeys(r) = MinKeys
          BY <4>2, <4>3, <4>6, Bounds
        <5>3. NKeys(n.kids[i]) + NKeys(n.kids[i + 1]) + 1 <= MaxKeys
          BY <5>2, Bounds
        <5>4. /\ q \in Sound[d] /\ NKeys(q) = NKeys(n) - 1
              /\ NKeys(q.kids[i]) = NKeys(n.kids[i]) + NKeys(n.kids[i + 1]) + 1
              /\ i > 1 => q.entries[i - 1] = n.entries[i - 1]
              /\ i <= NKeys(n) - 1 => q.entries[i] = n.entries[i + 1]
              /\ KeysOf[d][q] = KeysOf[d][n]
          BY <1>1, <2>3, <4>1, <5>3, MergeSound
        <5> HIDE DEF q
        <5>5. NKeys(q.kids[i]) = MaxKeys /\ NKeys(q.kids[i]) > MinKeys
          BY <5>2, <5>4, Bounds
        <5>6. i \in 1..NKeys(q) + 1
          BY <3>3, <4>1, <5>4
        <5>7. Fits(q, i, {k})
          <6>1. \A a, b \in 1..NKeys(n) : a < b => n.entries[a].key < n.entries[b].key
            BY <1>1, SoundParts DEF Ordered
          <6>2. ASSUME i > 1 PROVE q.entries[i - 1].key < k
            <7>1. i - 1 \in 1..NKeys(n) /\ i - 1 < i
              BY <3>3, <4>1, <6>2
            <7>2. n.entries[i - 1].key < n.entries[i].key
              BY <4>1, <6>1, <7>1
            <7> QED
              BY <4>1, <5>4, <6>2, <7>2
          <6>3. ASSUME i <= NKeys(q) PROVE k < q.entries[i].key
            <7>1. i + 1 \in 1..NKeys(n) /\ i < i + 1 /\ i <= NKeys(n) - 1
              BY <3>3, <4>1, <5>4, <6>3
            <7>2. n.entries[i].key < n.entries[i + 1].key
              BY <4>1, <6>1, <7>1
            <7> QED
              BY <4>1, <5>4, <7>1, <7>2
          <6> QED
            BY <6>2, <6>3 DEF Fits
        <5>8. NKeys(q.kids[i]) - 1 >= Reserve(n)
          <6>1. Reserve(n) = MaxKeys - 1
            <7>1. NKeys(n) # 0
              BY <3>3, <4>1
            <7> QED
              BY <7>1 DEF Reserve
          <6> QED
            BY <5>5, <6>1, Bounds
        <5>9. Drops(d - 1, q.kids[i], k, x[q.kids[i]][k])
          BY <1>1, <3>2, <3>4, <5>4, <5>5, <5>6
        <5>10. Drops(d, n, k, WithKid(q, i, x[q.kids[i]][k]))
          BY <1>1, <2>3, <5>4, <5>5, <5>6, <5>7, <5>8, <5>9, DropBelow
        <5> QED
          BY <2>1, <5>1, <5>10
      <4> QED
        BY <4>4, <4>5, <4>6
    <3> QED
      BY <3>5, <3>6
  <2> QED
    BY <1>1, <2>2, <2>3
<1>2. ASSUME NEW d \in Nat, d > 0 => d - 1 \in S PROVE d \in S
  BY <1>1, <1>2
<1> HIDE DEF S
<1>3. Nat \subseteq S
  BY <1>2, DepthInduct
<1> QED
  BY <1>3 DEF S

-----------------------------------------------------------------------------
(* A sound tree has the shape of a B-tree. *)
LEMMA ShapedSound ==
  \A d \in Nat : \A n \in Sound[d] : Shaped[d][n]
<1> DEFINE S == {d \in Nat : \A n \in Sound[d] : Shaped[d][n]}
<1>1. ASSUME NEW d \in Nat, d > 0 => d - 1 \in S, NEW n \in Sound[d]
      PROVE  Shaped[d][n]
  <2>1. n \in Tree[d]
    BY <1>1, InTree
  <2>2. Shaped[d] = ShapedStep(d, Shaped[d - 1])
    BY <1>1, ShapedUnfold
  <2>3. NKeys(n) <= MaxKeys /\ NKeys(n) \in Nat
    BY <1>1, SoundParts
  <2>4. IsLeaf(n) = (d = 0)
    <3>1. d = 0 => IsLeaf(n)
      BY <1>1, LeafParts
    <3>2. d # 0 => ~IsLeaf(n)
      BY <1>1, InnerParts
    <3>3. IsLeaf(n) \in BOOLEAN
      BY DEF IsLeaf
    <3> QED
      BY <3>1, <3>2, <3>3
  <2>5. ASSUME ~IsLeaf(n)
        PROVE  /\ Len(n.kids) = NKeys(n) + 1
               /\ \A i \in 1..Len(n.kids) : NKeys(n.kids[i]) >= MinKeys /\ Shaped[d - 1][n.kids[i]]
    <3>1. d > 0
      <4>1. d # 0
        BY <1>1, <2>5, LeafParts
      <4> QED
        BY <1>1, <4>1
    <3>2. Len(n.kids) = NKeys(n) + 1 /\ \A i \in 1..NKeys(n) + 1 : KidOK(d, n, i)
      BY <1>1, <3>1, InnerParts
    <3> QED
      BY <1>1, <3>1, <3>2 DEF KidOK
  <2> HIDE DEF S
  <2> QED
    BY <2>1, <2>2, <2>3, <2>4, <2>5 DEF ShapedStep
<1>2. ASSUME NEW d \in Nat, d > 0 => d - 1 \in S PROVE d \in S
  BY <1>1, <1>2
<1> HIDE DEF S
<1>3. Nat \subseteq S
  BY <1>2, DepthInduct
<1> QED
  BY <1>3 DEF S

-----------------------------------------------------------------------------
(* Scanning. *)

(* s holds the entries with the keys X in ascending order. *)
Lists(X, s) ==
  /\ s \in Seq(EntrySet)
  /\ X = {s[i].key : i \in 1..Len(s)}
  /\ \A i, j \in 1..Len(s) : i < j => s[i].key < s[j].key

(* The entries of a list and its keys. *)
LEMMA ListEntries ==
  ASSUME NEW X, NEW s, Lists(X, s)
  PROVE  /\ s \in Seq(EntrySet) /\ Len(s) \in Nat
         /\ \A i \in 1..Len(s) : s[i] \in EntrySet /\ s[i].key \in X /\ s[i].key \in Int
         /\ \A y \in X : \E i \in 1..Len(s) : y = s[i].key
<1>1. s \in Seq(EntrySet) /\ X = {s[i].key : i \in 1..Len(s)}
  BY DEF Lists
<1>2. Len(s) \in Nat /\ \A i \in 1..Len(s) : s[i] \in EntrySet
  BY <1>1
<1>3. \A i \in 1..Len(s) : s[i].key \in Int
  BY <1>2, EntryKeys
<1> QED
  BY <1>1, <1>2, <1>3

LEMMA NoList == Lists({}, <<>>)
BY DEF Lists

(* Two lists in a row, and an entry at the end of one. *)
LEMMA JoinLists ==
  ASSUME NEW X, NEW Y, NEW s, NEW t, Lists(X, s), Lists(Y, t), \A x \in X, y \in Y : x < y
  PROVE  Lists(X \cup Y, s \o t)
<1> DEFINE a == Len(s)
           b == Len(t)
           w == s \o t
<1>1. /\ s \in Seq(EntrySet) /\ a \in Nat
      /\ \A i \in 1..a : s[i] \in EntrySet /\ s[i].key \in X /\ s[i].key \in Int
      /\ \A y \in X : \E i \in 1..a : y = s[i].key
  BY ListEntries
<1>2. /\ t \in Seq(EntrySet) /\ b \in Nat
      /\ \A i \in 1..b : t[i] \in EntrySet /\ t[i].key \in Y /\ t[i].key \in Int
      /\ \A y \in Y : \E i \in 1..b : y = t[i].key
  BY ListEntries
<1>3. /\ \A i, j \in 1..a : i < j => s[i].key < s[j].key
      /\ \A i, j \in 1..b : i < j => t[i].key < t[j].key
  BY DEF Lists
<1>4. /\ w \in Seq(EntrySet) /\ Len(w) = a + b
      /\ \A i \in 1..a + b : w[i] = IF i <= a THEN s[i] ELSE t[i - a]
  BY <1>1, <1>2, ConcatProperties
<1> HIDE DEF a, b, w
<1>5. \A i \in 1..a : i \in 1..a + b /\ w[i] = s[i]
  BY <1>1, <1>2, <1>4
<1>6. \A i \in a + 1..a + b : i \in 1..a + b /\ i - a \in 1..b /\ w[i] = t[i - a]
  BY <1>1, <1>2, <1>4
<1>7. ASSUME NEW y \in X \cup Y PROVE \E i \in 1..a + b : y = w[i].key
  <2>1. CASE y \in X
    BY <1>1, <1>5, <2>1
  <2>2. CASE y \in Y
    <3>1. PICK i \in 1..b : y = t[i].key
      BY <1>2, <2>2
    <3>2. i + a \in a + 1..a + b /\ (i + a) - a = i
      BY <1>1, <1>2
    <3>3. w[i + a] = t[i] /\ i + a \in 1..a + b
      BY <1>6, <3>2
    <3> QED
      BY <3>1, <3>3
  <2> QED
    BY <2>1, <2>2
<1>8. ASSUME NEW i \in 1..a + b PROVE w[i].key \in X \cup Y
  <2>1. i \in 1..a \/ i \in a + 1..a + b
    BY <1>1, <1>2
  <2>2. CASE i \in 1..a
    BY <1>1, <1>5, <2>2
  <2>3. CASE i \in a + 1..a + b
    BY <1>2, <1>6, <2>3
  <2> QED
    BY <2>1, <2>2, <2>3
<1>9. ASSUME NEW i \in 1..a + b, NEW j \in 1..a + b, i < j PROVE w[i].key < w[j].key
  <2>1. /\ i \in 1..a \/ i \in a + 1..a + b
        /\ j \in 1..a \/ j \in a + 1..a + b
        /\ i \in a + 1..a + b /\ j \in 1..a => FALSE
    BY <1>1, <1>2, <1>9
  <2>2. CASE i \in 1..a /\ j \in 1..a
    BY <1>3, <1>5, <1>9, <2>2
  <2>3. CASE i \in 1..a /\ j \in a + 1..a + b
    <3>1. w[i].key \in X /\ w[j].key \in Y
      BY <1>1, <1>2, <1>5, <1>6, <2>3
    <3> QED
      BY <3>1
  <2>4. CASE i \in a + 1..a + b /\ j \in a + 1..a + b
    <3>1. i - a \in 1..b /\ j - a \in 1..b /\ i - a < j - a
      BY <1>1, <1>2, <1>9, <2>4
    <3>2. t[i - a].key < t[j - a].key
      BY <1>3, <3>1
    <3> QED
      BY <1>6, <2>4, <3>2
  <2> QED
    BY <2>1, <2>2, <2>3, <2>4
<1>10. X \cup Y = {w[i].key : i \in 1..a + b}
  BY <1>7, <1>8
<1>11. Len(w) = a + b /\ w \in Seq(EntrySet)
  BY <1>4
<1>12. Lists(X \cup Y, w)
  BY <1>9, <1>10, <1>11 DEF Lists
<1> QED
  BY <1>12 DEF w

LEMMA AppendList ==
  ASSUME NEW X, NEW s, NEW e \in EntrySet, Lists(X, s), \A x \in X : x < e.key
  PROVE  Lists(X \cup {e.key}, Append(s, e))
<1>1. Lists({e.key}, <<e>>)
  <2>1. <<e>> \in Seq(EntrySet) /\ Len(<<e>>) = 1 /\ <<e>>[1] = e
    OBVIOUS
  <2> QED
    BY <2>1 DEF Lists
<1>2. Lists(X \cup {e.key}, s \o <<e>>)
  BY <1>1, JoinLists
<1>3. s \in Seq(EntrySet)
  BY ListEntries
<1>4. Append(s, e) = s \o <<e>>
  BY <1>3, AppendIsConcat
<1> QED
  BY <1>2, <1>4

(* The concatenation of the first i parts, for every i. *)
LEMMA ChainSteps ==
  ASSUME NEW parts, Len(parts) \in Nat
  PROVE  \E f : /\ f[0] = <<>>
                /\ \A i \in 1..Len(parts) : f[i] = f[i - 1] \o parts[i]
                /\ Chain(parts) = f[Len(parts)]
<1> DEFINE N == Len(parts)
           E(i, x) == IF i = 0 THEN <<>> ELSE x \o parts[i]
           Ap(n, g) == g = [i \in 0..n |-> E(i, g[i - 1])]
           f == CHOOSE g : Ap(N, g)
<1>1. Chain(parts) = f[N]
  BY Zenon DEF Chain
<1>2. \A x, y : E(0, x) = E(0, y)
  OBVIOUS
<1>3. \A i \in 1..N : \A x : E(i, x) = x \o parts[i]
  OBVIOUS
<1>4. \A x : E(0, x) = <<>>
  OBVIOUS
<1> HIDE DEF E
<1>5. \A n \in Nat : \E g : Ap(n, g)
  <2> DEFINE S == {n \in Nat : \E g : Ap(n, g)}
  <2>1. 0 \in S
    <3>1. Ap(0, [i \in 0..0 |-> E(0, 0)])
      BY <1>2
    <3> QED
      BY <3>1
  <2>2. ASSUME NEW n \in Nat, n \in S PROVE n + 1 \in S
    <3>1. PICK g : Ap(n, g)
      BY <2>2
    <3> DEFINE h == [i \in 0..n + 1 |-> IF i <= n THEN g[i] ELSE E(n + 1, g[n])]
    <3>2. ASSUME NEW i \in 0..n + 1 PROVE h[i] = E(i, h[i - 1])
      <4>1. CASE i = 0
        <5>1. h[i] = E(0, g[0 - 1])
          BY <3>1, <4>1
        <5> QED
          BY <5>1, <4>1, <1>2
      <4>2. CASE i \in 1..n
        BY <3>1, <4>2
      <4>3. CASE i = n + 1
        BY <4>3
      <4> QED
        BY <4>1, <4>2, <4>3
    <3>3. Ap(n + 1, h)
      BY <3>2
    <3> HIDE DEF Ap, h
    <3>4. n + 1 \in Nat /\ \E x : Ap(n + 1, x)
      BY <3>3
    <3> QED
      BY <3>4
  <2> HIDE DEF S
  <2>3. Nat \subseteq S
    BY <2>1, <2>2, Induct
  <2> QED
    BY <2>3 DEF S
<1> HIDE DEF N
<1>6. N \in Nat
  BY DEF N
<1>7. Ap(N, f)
  <2> HIDE DEF Ap
  <2> QED
    BY <1>5, <1>6, Zenon
<1> HIDE DEF f
<1>8. f[0] = <<>>
  BY <1>4, <1>6, <1>7
<1>9. ASSUME NEW i \in 1..N PROVE f[i] = f[i - 1] \o parts[i]
  <2>1. f[i] = E(i, f[i - 1])
    BY <1>6, <1>7
  <2> HIDE DEF Ap
  <2> QED
    BY <1>3, <2>1
<1> HIDE DEF Ap
<1> QED
  BY <1>1, <1>8, <1>9 DEF N

(* One level of a scan. *)
LEMMA ScanAt ==
  ASSUME NEW m \in Nat, NEW n \in Tree[m]
  PROVE  /\ IsLeaf(n) => Scan[m][n] = n.entries
         /\ ~IsLeaf(n) =>
              Scan[m][n] =
                Chain([i \in 1..NKeys(n) |-> Append(Scan[m - 1][n.kids[i]], n.entries[i])])
                  \o Scan[m - 1][n.kids[NKeys(n) + 1]]
<1>1. Scan[m] = ScanStep(m, Scan[m - 1])
  BY ScanUnfold
<1> QED
  BY <1>1, Zenon DEF ScanStep

(* A scan visits the rows of a tree in the order of their keys. *)
LEMMA ScanSound ==
  \A d \in Nat : \A m \in Nat : m >= d => \A n \in Sound[d] : Lists(KeysOf[d][n], Scan[m][n])
<1> DEFINE S == {d \in Nat : \A m \in Nat : m >= d =>
                   \A n \in Sound[d] : Lists(KeysOf[d][n], Scan[m][n])}
<1>1. ASSUME NEW d \in Nat, d > 0 => d - 1 \in S, NEW m \in Nat, m >= d, NEW n \in Sound[d]
      PROVE  Lists(KeysOf[d][n], Scan[m][n])
  <2>1. n \in Tree[m]
    BY <1>1, InTree
  <2>2. /\ NKeys(n) \in Nat
        /\ \A a, b \in 1..NKeys(n) : a < b => n.entries[a].key < n.entries[b].key
        /\ \A a \in 1..NKeys(n) : n.entries[a] \in EntrySet /\ n.entries[a].key \in Int
    BY <1>1, SoundParts, OwnKeys DEF Ordered
  <2>3. CASE d = 0
    <3>1. Scan[m][n] = n.entries
      BY <1>1, <2>1, <2>3, LeafParts, ScanAt
    <3>2. KeysOf[d][n] = {n.entries[i].key : i \in 1..NKeys(n)}
      BY <1>1, <2>3, KeysLeaf DEF Own
    <3>3. n.entries \in Seq(EntrySet) /\ NKeys(n) = Len(n.entries)
      BY <1>1, SoundParts
    <3>4. Lists(KeysOf[d][n], n.entries)
      BY <2>2, <3>2, <3>3 DEF Lists
    <3> QED
      BY <3>1, <3>4
  <2>4. CASE d > 0
    <3> DEFINE N == NKeys(n)
               K(i) == KeysOf[d - 1][n.kids[i]]
               e(i) == n.entries[i]
               s(i) == Scan[m - 1][n.kids[i]]
               parts == [i \in 1..N |-> Append(s(i), e(i))]
               W(i) == {y \in Int : \E j \in 1..i : y \in K(j) \/ y = e(j).key}
    <3>1. ASSUME NEW i \in 1..N + 1 PROVE Lists(K(i), s(i))
      <4>1. m - 1 \in Nat /\ m - 1 >= d - 1
        BY <1>1, <2>4
      <4>2. n.kids[i] \in Sound[d - 1]
        BY <1>1, <2>4, InnerParts DEF KidOK
      <4> QED
        BY <1>1, <2>4, <4>1, <4>2
    <3>2. Scan[m][n] = Chain(parts) \o s(N + 1)
      BY <1>1, <2>1, <2>4, InnerParts, ScanAt
    <3>3. ASSUME NEW i \in 1..N + 1, NEW y \in K(i)
          PROVE  /\ y \in Int
                 /\ i > 1 => e(i - 1).key < y
                 /\ i <= N => y < e(i).key
      BY <1>1, <2>4, <3>3, KidGap
    <3>4. N \in Nat /\ \A i \in 1..N : e(i) \in EntrySet /\ e(i).key \in Int
      BY <2>2
    <3>5. \A a, b \in 1..N : a < b => e(a).key < e(b).key
      BY <2>2
    <3>6. \A y : y \in KeysOf[d][n] <=>
                   (\E i \in 1..N : y = e(i).key) \/ \E i \in 1..N + 1 : y \in K(i)
      BY <1>1, <2>4, KeysSplit
    <3>7. Len(parts) = N /\ \A i \in 1..N : parts[i] = Append(s(i), e(i))
      <4> HIDE DEF N, s, e
      <4>1. DOMAIN parts = 1..N /\ \A i \in 1..N : parts[i] = Append(s(i), e(i))
        OBVIOUS
      <4>2. parts \in Seq({Append(s(i), e(i)) : i \in 1..N})
        BY <3>4
      <4>3. Len(parts) = N
        <5> HIDE DEF parts
        <5> QED
          BY <3>4, <4>1, <4>2, LenProperties
      <4> QED
        BY <4>1, <4>3
    <3> HIDE DEF S, N, K, e, s, parts
    <3>8. PICK f : /\ f[0] = <<>>
                   /\ \A i \in 1..N : f[i] = f[i - 1] \o parts[i]
                   /\ Chain(parts) = f[N]
      BY <3>4, <3>7, ChainSteps
    (* What comes before child i + 1 is smaller. *)
    <3>9. ASSUME NEW i \in 1..N, NEW y \in W(i) PROVE y <= e(i).key
      <4>1. PICK j \in 1..i : y \in K(j) \/ y = e(j).key
        BY <3>9
      <4>2. j \in 1..N /\ j \in 1..N + 1 /\ (j < i \/ j = i) /\ y \in Int /\ j <= N
        BY <3>4
      <4>3. e(j).key \in Int /\ e(i).key \in Int /\ e(j).key <= e(i).key
        BY <3>4, <3>5, <4>2
      <4>4. y <= e(j).key
        BY <3>3, <4>1, <4>2, <4>3
      <4> QED
        BY <4>2, <4>3, <4>4
    <3>10. ASSUME NEW i \in 0..N, NEW x \in W(i), NEW y \in K(i + 1) PROVE x < y
      <4>1. i \in 1..N
        BY <3>4, <3>10
      <4>2. i + 1 \in 1..N + 1 /\ i + 1 > 1 /\ (i + 1) - 1 = i
        BY <3>4, <4>1
      <4>3. y \in Int /\ e(i).key < y
        BY <3>3, <4>2
      <4>4. x <= e(i).key /\ x \in Int /\ e(i).key \in Int
        BY <3>4, <3>9, <4>1
      <4> QED
        BY <4>3, <4>4
    <3>11. ASSUME NEW i \in 0..N, i < N
           PROVE  W(i + 1) = W(i) \cup (K(i + 1) \cup {e(i + 1).key})
      <4>1. i + 1 \in 1..N /\ i + 1 \in 1..N + 1 /\ 1..i + 1 = 1..i \cup {i + 1}
        BY <3>4, <3>11
      <4>2. K(i + 1) \subseteq Int /\ e(i + 1).key \in Int
        BY <3>3, <3>4, <4>1
      <4> QED
        BY <4>1, <4>2
    <3>12. ASSUME NEW i \in 0..N, i < N, Lists(W(i), f[i])
           PROVE  Lists(W(i + 1), f[i + 1])
      <4>1. i + 1 \in 1..N /\ i + 1 \in 1..N + 1 /\ (i + 1) - 1 = i /\ i + 1 <= N
        BY <3>4, <3>12
      <4>2. Lists(K(i + 1), s(i + 1)) /\ e(i + 1) \in EntrySet
        BY <3>1, <3>4, <4>1
      <4>3. \A y \in K(i + 1) : y < e(i + 1).key
        BY <3>3, <4>1
      <4>4. Lists(K(i + 1) \cup {e(i + 1).key}, Append(s(i + 1), e(i + 1)))
        BY <4>2, <4>3, AppendList
      <4>5. f[i + 1] = f[i] \o Append(s(i + 1), e(i + 1))
        BY <3>7, <3>8, <4>1
      <4>6. ASSUME NEW x \in W(i), NEW y \in K(i + 1) \cup {e(i + 1).key} PROVE x < y
        <5>1. CASE y \in K(i + 1)
          BY <3>10, <5>1
        <5>2. CASE y = e(i + 1).key
          <6>1. i \in 1..N /\ i < i + 1
            BY <3>4, <4>6
          <6>2. x <= e(i).key /\ x \in Int
            BY <3>9, <6>1
          <6>3. e(i).key < e(i + 1).key /\ e(i).key \in Int /\ e(i + 1).key \in Int
            BY <3>4, <3>5, <4>1, <6>1
          <6> QED
            BY <5>2, <6>2, <6>3
        <5> QED
          BY <5>1, <5>2
      <4> HIDE DEF W
      <4>7. Lists(W(i) \cup (K(i + 1) \cup {e(i + 1).key}), f[i] \o Append(s(i + 1), e(i + 1)))
        BY <3>12, <4>4, <4>6, JoinLists
      <4> QED
        BY <3>11, <3>12, <4>5, <4>7
    <3>13. Lists(W(N), f[N])
      <4> DEFINE R == {i \in Nat : i <= N => Lists(W(i), f[i])}
      <4>1. 0 \in R
        <5>1. W(0) = {}
          OBVIOUS
        <5> QED
          BY <3>8, <5>1, NoList
      <4>2. ASSUME NEW i \in Nat, i \in R PROVE i + 1 \in R
        <5>1. ASSUME i + 1 <= N PROVE i \in 0..N /\ i < N /\ i <= N
          BY <3>4, <5>1
        <5> HIDE DEF W
        <5> QED
          BY <3>12, <4>2, <5>1
      <4> HIDE DEF R
      <4>3. Nat \subseteq R
        BY <4>1, <4>2, Induct
      <4> HIDE DEF W
      <4> QED
        BY <3>4, <4>3 DEF R
    <3>14. N \in 0..N /\ N + 1 \in 1..N + 1
      BY <3>4
    <3>15. KeysOf[d][n] = W(N) \cup K(N + 1)
      <4>1. 1..N + 1 = 1..N \cup {N + 1}
        BY <3>4
      <4>2. \A i \in 1..N + 1 : K(i) \subseteq Int
        BY <3>3
      <4>3. \A i \in 1..N : e(i).key \in Int
        BY <3>4
      <4> QED
        BY <3>6, <4>1, <4>2, <4>3
    <3>16. Lists(K(N + 1), s(N + 1)) /\ \A x \in W(N), y \in K(N + 1) : x < y
      BY <3>1, <3>10, <3>14
    <3> HIDE DEF W
    <3>17. Lists(W(N) \cup K(N + 1), f[N] \o s(N + 1))
      BY <3>13, <3>16, JoinLists
    <3> QED
      BY <3>2, <3>8, <3>15, <3>17
  <2> QED
    BY <1>1, <2>3, <2>4
<1>2. ASSUME NEW d \in Nat, d > 0 => d - 1 \in S PROVE d \in S
  BY <1>1, <1>2
<1> HIDE DEF S
<1>3. Nat \subseteq S
  BY <1>2, DepthInduct
<1> QED
  BY <1>3 DEF S

-----------------------------------------------------------------------------
(* The invariant. *)

(* n is a sound tree with the keys of the table.  As long as every deletion
   finds its key the root has one; after one that missed it may have none, and
   then its only child has lost at most a key to each of them. *)
Standing(d, n, X, k) ==
  /\ n \in Sound[d]
  /\ KeysOf[d][n] = X
  /\ NKeys(n) = 0 => d > 0 /\ k > 0 /\ NKeys(n.kids[1]) >= MaxKeys - k

IInv ==
  /\ content \subseteq Keys
  /\ misses \in 0..MaxMisses
  /\ root = None => content = {}
  /\ root # None => \E d \in 0..MaxDepth : Standing(d, root, content, misses)

(* The tree of a table has a key, and a deletion can start at its root. *)
LEMMA StandingParts ==
  ASSUME NEW d \in 0..MaxDepth, NEW n, NEW X, NEW k \in 0..MaxMisses, Standing(d, n, X, k)
  PROVE  /\ d \in Nat /\ MaxDepth \in Nat /\ MaxDepth >= d
         /\ n \in Sound[d] /\ n \in Tree[MaxDepth] /\ n # None
         /\ X \subseteq Keys /\ X # {}
         /\ Deletable(d, n)
<1>1. d \in Nat /\ MaxDepth \in Nat /\ MaxDepth >= d /\ n \in Sound[d] /\ KeysOf[d][n] = X
  BY Bounds DEF Standing
<1>2. n \in Tree[MaxDepth]
  BY <1>1, InTree
<1>3. n # None
  BY <1>2, BTreeAssumption
<1>4. X \subseteq Keys
  BY <1>1, KeysInKeys
<1>5. NKeys(n) \in Nat
  BY <1>1, SoundParts
<1>6. ASSUME NKeys(n) = 0
      PROVE  /\ d > 0 /\ n.kids[1] \in Sound[d - 1] /\ NKeys(n.kids[1]) \in Nat
             /\ NKeys(n.kids[1]) > MinKeys
  <2>1. d > 0 /\ k > 0 /\ NKeys(n.kids[1]) >= MaxKeys - k
    BY <1>6 DEF Standing
  <2>2. d - 1 \in Nat /\ 1 \in 1..NKeys(n) + 1
    BY <1>1, <1>6, <2>1
  <2>3. n.kids[1] \in Sound[d - 1]
    BY <1>1, <2>1, <2>2, InnerParts DEF KidOK
  <2>4. NKeys(n.kids[1]) \in Nat
    BY <2>2, <2>3, SoundParts
  <2> QED
    BY <2>1, <2>3, <2>4, Bounds
<1>7. X # {}
  <2>1. CASE NKeys(n) = 0
    <3>1. d - 1 \in Nat /\ 1 \in 1..NKeys(n) + 1 /\ 1 \in 1..NKeys(n.kids[1])
      BY <1>1, <1>6, <2>1, Bounds
    <3>2. n.kids[1].entries[1].key \in KeysOf[d - 1][n.kids[1]]
      BY <1>6, <2>1, <3>1, OwnInKeys
    <3>3. n.kids[1].entries[1].key \in KeysOf[d][n]
      BY <1>1, <1>6, <2>1, <3>1, <3>2, KidInKeys
    <3> QED
      BY <1>1, <3>3
  <2>2. CASE NKeys(n) # 0
    <3>1. 1 \in 1..NKeys(n)
      BY <1>5, <2>2
    <3>2. n.entries[1].key \in KeysOf[d][n]
      BY <1>1, <3>1, OwnInKeys
    <3> QED
      BY <1>1, <3>2
  <2> QED
    BY <2>1, <2>2
<1> QED
  BY <1>1, <1>2, <1>3, <1>4, <1>6, <1>7 DEF Deletable

(* xsdb_btree_search tells whether a key is in the table. *)
LEMMA FindSound ==
  ASSUME IInv, NEW k \in Keys
  PROVE  Find(k) = IF k \in content THEN k ELSE None
<1>1. CASE root = None
  BY <1>1 DEF IInv, Find
<1>2. CASE root # None
  <2>1. PICK d \in 0..MaxDepth : Standing(d, root, content, misses)
    BY <1>2 DEF IInv
  <2>2. misses \in 0..MaxMisses
    BY DEF IInv
  <2>3. d \in Nat /\ MaxDepth \in Nat /\ MaxDepth >= d /\ root \in Sound[d]
    BY <2>1, <2>2, StandingParts
  <2>4. Finds(d, MaxDepth, root)
    BY <2>3, SearchSound
  <2>5. KeysOf[d][root] = content
    BY <2>1 DEF Standing
  <2>6. Find(k) = Search[MaxDepth][root][k]
    BY <1>2 DEF Find
  <2> QED
    BY <2>4, <2>5, <2>6 DEF Finds
<1> QED
  BY <1>1, <1>2

(* The first key of a table. *)
LEMMA FirstSound ==
  ASSUME NEW k \in Keys
  PROVE  LET n == Node(<<Entry(k)>>, <<>>)
         IN  n \in Sound[0] /\ NKeys(n) = 1 /\ KeysOf[0][n] = {k}
<1> DEFINE es == <<Entry(k)>>
           n == Node(es, <<>>)
<1>1. /\ Entry(k) \in EntrySet /\ Entry(k).key = k
  BY DEF EntrySet, Entry
<1>2. es \in Seq(EntrySet) /\ Len(es) = 1 /\ es[1].key = k
  BY <1>1
<1> HIDE DEF es
<1>3. n.entries = es /\ n.kids = <<>> /\ NKeys(n) = 1
  BY <1>2 DEF Node, NKeys
<1>4. Ordered(n)
  BY <1>3 DEF Ordered
<1>5. n \in Sound[0]
  <2>1. Len(es) <= MaxKeys
    BY <1>2, Bounds
  <2> QED
    BY <1>2, <1>4, <2>1, MakeLeaf
<1>6. Own(n) = {k}
  BY <1>2, <1>3 DEF Own
<1> QED
  BY <1>3, <1>5, <1>6, KeysLeaf DEF es

(* xsdb_btree_insert puts a key that is not there into a tree. *)
LEMMA InsertIntoSound ==
  ASSUME NEW d \in 0..MaxDepth, NEW n, NEW X, NEW j \in 0..MaxMisses, Standing(d, n, X, j),
         NEW k \in Keys, k \notin X, InsertInto(n, k) \in Tree[MaxDepth]
  PROVE  \E e \in 0..MaxDepth : Standing(e, InsertInto(n, k), X \cup {k}, j)
<1>1. /\ d \in Nat /\ MaxDepth \in Nat /\ MaxDepth >= d
      /\ n \in Sound[d] /\ n \in Tree[MaxDepth] /\ n # None
  BY StandingParts
<1>2. KeysOf[d][n] = X /\ (NKeys(n) = 0 => d > 0 /\ j > 0 /\ NKeys(n.kids[1]) >= MaxKeys - j)
  BY DEF Standing
<1>3. NKeys(n) \in Nat /\ NKeys(n) <= MaxKeys
  BY <1>1, SoundParts
<1>4. CASE NKeys(n) < MaxKeys
  <2> DEFINE r == InsertNonfull[MaxDepth][n][k]
  <2>1. InsertInto(n, k) = r
    BY <1>1, <1>4 DEF InsertInto
  <2>2. Puts(d, n, k, r)
    BY <1>1, <1>2, <1>4, InsertNonfullSound
  <2> HIDE DEF r
  <2>3. /\ r \in Sound[d] /\ NKeys(r) >= NKeys(n) /\ KeysOf[d][r] = KeysOf[d][n] \cup {k}
        /\ d > 0 /\ NKeys(r) = 0 => NKeys(r.kids[1]) >= NKeys(n.kids[1])
    BY <2>2 DEF Puts
  <2>4. ASSUME NKeys(r) = 0 PROVE d > 0 /\ j > 0 /\ NKeys(r.kids[1]) >= MaxKeys - j
    <3>1. NKeys(n) = 0
      BY <1>3, <2>3, <2>4
    <3>2. d > 0 /\ j > 0 /\ NKeys(n.kids[1]) >= MaxKeys - j
      BY <1>2, <3>1
    <3>3. /\ d - 1 \in Nat /\ 1 \in 1..NKeys(n) + 1 /\ 1 \in 1..NKeys(r) + 1
      BY <1>1, <2>4, <3>1, <3>2
    <3>4. n.kids[1] \in Sound[d - 1] /\ r.kids[1] \in Sound[d - 1]
      BY <1>1, <2>3, <3>2, <3>3, InnerParts DEF KidOK
    <3>5. NKeys(n.kids[1]) \in Nat /\ NKeys(r.kids[1]) \in Nat
      BY <3>3, <3>4, SoundParts
    <3>6. NKeys(r.kids[1]) >= NKeys(n.kids[1])
      BY <2>3, <2>4, <3>2
    <3> QED
      BY <3>2, <3>5, <3>6, Bounds
  <2>5. Standing(d, r, X \cup {k}, j)
    BY <1>2, <2>3, <2>4 DEF Standing
  <2> QED
    BY <2>1, <2>5
<1>5. CASE NKeys(n) = MaxKeys
  <2> DEFINE t == Node(<<>>, <<n>>)
             q == SplitChild(t, 1)
             i == IF k > q.entries[1].key THEN 2 ELSE 1
             c == q.kids[i]
             s == InsertNonfull[MaxDepth][c][k]
             r == WithKid(q, i, s)
             e == d + 1
  <2>1. InsertInto(n, k) = r
    <3>1. ~(NKeys(n) < MaxKeys)
      BY <1>5, Bounds
    <3> QED
      BY <1>1, <3>1, Zenon DEF InsertInto
  <2>2. e \in Nat /\ e > 0 /\ e - 1 = d
    BY <1>1
  <2>3. NKeys(n) >= MinKeys
    BY <1>5, Bounds
  <2>4. t \in Sound[e] /\ NKeys(t) = 0 /\ t.kids[1] = n /\ KeysOf[e][t] = KeysOf[d][n]
    BY <1>1, <2>3, TopSound
  <2> HIDE DEF t
  <2>5. 1 \in 1..NKeys(t) + 1 /\ NKeys(t) < MaxKeys /\ NKeys(t.kids[1]) = MaxKeys
    BY <1>5, <2>4, Bounds
  <2> HIDE DEF e
  <2>6. /\ q \in Sound[e] /\ NKeys(q) = NKeys(t) + 1
        /\ NKeys(q.kids[1]) = MinKeys /\ NKeys(q.kids[1 + 1]) = MinKeys
        /\ KeysOf[e][q] = KeysOf[e][t]
    BY <2>2, <2>4, <2>5, SplitSound
  <2> HIDE DEF q
  <2>7. NKeys(q) = 1 /\ 1 + 1 = 2 /\ 1 \in 1..NKeys(q)
    BY <2>4, <2>6
  <2>8. q.entries[1].key \in Int /\ q.entries[1].key \in KeysOf[e][q] /\ k \in Int
    BY <2>2, <2>6, <2>7, OwnKeys, OwnInKeys, Bounds
  <2>9. q.entries[1].key # k
    BY <1>2, <2>4, <2>6, <2>8
  <2>10. i \in 1..NKeys(q) + 1 /\ NKeys(c) = MinKeys /\ Fits(q, i, {k})
    <3>1. CASE k > q.entries[1].key
      <4>1. i = 2
        BY <3>1
      <4>2. i \in 1..NKeys(q) + 1 /\ i - 1 = 1 /\ ~(i <= NKeys(q))
        BY <2>7, <4>1
      <4>3. q.entries[i - 1].key < k
        BY <2>8, <3>1, <4>2
      <4>4. NKeys(q.kids[2]) = MinKeys
        BY <2>6, <2>7
      <4> HIDE DEF i
      <4> QED
        BY <4>1, <4>2, <4>3, <4>4 DEF Fits
    <3>2. CASE ~(k > q.entries[1].key)
      <4>1. i = 1
        BY <3>2
      <4>2. i \in 1..NKeys(q) + 1 /\ ~(i > 1)
        BY <2>7, <4>1
      <4>3. k < q.entries[1].key
        BY <2>8, <2>9, <3>2
      <4> HIDE DEF i
      <4> QED
        BY <2>6, <4>1, <4>2, <4>3 DEF Fits
    <3> QED
      BY <3>1, <3>2
  <2> HIDE DEF i
  <2>11. c \in Sound[d] /\ NKeys(c) < MaxKeys
    <3>1. c \in Sound[e - 1]
      BY <2>2, <2>6, <2>10, InnerParts DEF KidOK
    <3> QED
      BY <2>2, <2>10, <3>1, Bounds
  <2>12. k \notin KeysOf[d][c]
    <3>1. KeysOf[e - 1][q.kids[i]] \subseteq KeysOf[e][q]
      BY <2>2, <2>6, <2>10, KidInKeys
    <3> QED
      BY <1>2, <2>2, <2>4, <2>6, <3>1
  <2> HIDE DEF c
  <2>13. Puts(d, c, k, s)
    BY <1>1, <2>11, <2>12, InsertNonfullSound
  <2> HIDE DEF s
  <2>14. s \in Sound[d] /\ NKeys(s) >= NKeys(c) /\ KeysOf[d][s] = KeysOf[d][c] \cup {k}
    BY <2>13 DEF Puts
  <2>15. NKeys(s) >= MinKeys
    BY <2>10, <2>14
  <2>16. /\ s \in Sound[e - 1]
         /\ KeysOf[e - 1][s] \subseteq KeysOf[e - 1][q.kids[i]] \cup {k}
         /\ k \in KeysOf[e - 1][s]
         /\ KeysOf[e - 1][q.kids[i]] \subseteq KeysOf[e - 1][s]
    BY <2>2, <2>14 DEF c
  <2>17. /\ r \in Sound[e] /\ NKeys(r) = NKeys(q)
         /\ KeysOf[e][r] = KeysOf[e][q] \cup {k}
    BY <2>2, <2>6, <2>10, <2>15, <2>16, DescendSound
  <2> HIDE DEF r
  <2>18. NKeys(r) # 0 /\ KeysOf[e][r] = X \cup {k}
    BY <1>2, <2>4, <2>6, <2>7, <2>17
  <2>19. Standing(e, r, X \cup {k}, j)
    BY <2>17, <2>18 DEF Standing
  <2>20. e \in 0..MaxDepth
    <3>1. r \in Tree[MaxDepth]
      BY <2>1
    <3>2. e <= MaxDepth
      BY <1>1, <2>2, <2>17, <3>1, SoundDepth
    <3> QED
      BY <1>1, <2>2, <3>2
  <2> QED
    BY <2>1, <2>19, <2>20
<1>6. NKeys(n) < MaxKeys \/ NKeys(n) = MaxKeys
  BY <1>3, Bounds
<1> QED
  BY <1>4, <1>5, <1>6

(* xsdb_btree_delete takes a key that is there out of a tree ... *)
LEMMA DeleteFoundSound ==
  ASSUME NEW d \in 0..MaxDepth, NEW n, NEW X, NEW j \in 0..MaxMisses, Standing(d, n, X, j),
         NEW k \in X
  PROVE  LET r == Shrink(DeleteFrom[MaxDepth][n][k])
         IN  IF X = {k} THEN r = None
             ELSE \E e \in 0..MaxDepth : Standing(e, r, X \ {k}, 0)
<1> DEFINE s == DeleteFrom[MaxDepth][n][k]
           r == Shrink(s)
<1>1. /\ d \in Nat /\ MaxDepth \in Nat /\ MaxDepth >= d
      /\ n \in Sound[d] /\ X \subseteq Keys /\ Deletable(d, n)
  BY StandingParts
<1>2. KeysOf[d][n] = X /\ k \in Keys
  BY <1>1 DEF Standing
<1>3. Drops(d, n, k, s)
  BY <1>1, <1>2, DeleteFromSound
<1> HIDE DEF s
<1>4. s \in Sound[d] /\ KeysOf[d][s] = X \ {k}
  BY <1>2, <1>3 DEF Drops
<1>5. NKeys(s) \in Nat
  BY <1>1, <1>4, SoundParts
<1>6. ASSUME NEW e \in Nat, NEW t \in Sound[e], NKeys(t) # 0, KeysOf[e][t] = X \ {k}, e <= d
      PROVE  X # {k} /\ \E f \in 0..MaxDepth : Standing(f, t, X \ {k}, 0)
  <2>1. 1 \in 1..NKeys(t)
    BY <1>6, SoundParts
  <2>2. t.entries[1].key \in X \ {k}
    BY <1>6, <2>1, OwnInKeys
  <2>3. e \in 0..MaxDepth
    BY <1>1, <1>6
  <2>4. Standing(e, t, X \ {k}, 0)
    BY <1>6 DEF Standing
  <2> QED
    BY <2>2, <2>3, <2>4
<1>7. CASE NKeys(s) > 0
  <2>1. r = s
    BY <1>7, Zenon DEF Shrink
  <2>2. NKeys(s) # 0 /\ d <= d
    BY <1>1, <1>7
  <2> HIDE DEF r
  <2>3. X # {k} /\ \E f \in 0..MaxDepth : Standing(f, r, X \ {k}, 0)
    BY <1>1, <1>4, <1>6, <2>1, <2>2
  <2> QED
    BY <2>3 DEF r, s
<1>8. CASE NKeys(s) = 0 /\ d = 0
  <2>1. ~(NKeys(s) > 0)
    BY <1>8
  <2>2. IsLeaf(s)
    BY <1>4, <1>8, LeafParts
  <2>3. r = None
    BY <2>1, <2>2, Zenon DEF Shrink
  <2>4. KeysOf[d][s] = Own(s)
    BY <1>4, <1>8, KeysLeaf
  <2>5. Own(s) = {}
    BY <1>8 DEF Own
  <2>6. X = {k}
    BY <1>4, <2>4, <2>5
  <2> QED
    BY <2>3, <2>6 DEF s
<1>9. CASE NKeys(s) = 0 /\ d > 0
  <2> DEFINE t == s.kids[1]
  <2>1. ~(NKeys(s) > 0) /\ d - 1 \in Nat /\ 1 \in 1..NKeys(s) + 1 /\ d - 1 <= d
    BY <1>1, <1>9
  <2>2. ~IsLeaf(s) /\ KidOK(d, s, 1)
    BY <1>1, <1>4, <1>9, <2>1, InnerParts
  <2>3. r = t
    BY <2>1, <2>2, Zenon DEF Shrink
  <2>4. t \in Sound[d - 1] /\ NKeys(t) >= MinKeys
    BY <2>2 DEF KidOK
  <2>5. NKeys(t) \in Nat
    BY <2>1, <2>4, SoundParts
  <2>6. NKeys(t) # 0
    BY <2>4, <2>5, Bounds
  <2>7. ASSUME NEW x PROVE x \in KeysOf[d][s] <=> x \in KeysOf[d - 1][t]
    <3>1. x \notin Own(s)
      BY <1>9 DEF Own
    <3>2. \A i \in 1..NKeys(s) + 1 : i = 1
      BY <1>9
    <3>3. x \in KeysOf[d][s] <=>
            x \in Own(s) \/ \E i \in 1..NKeys(s) + 1 : x \in KeysOf[d - 1][s.kids[i]]
      BY <1>1, <1>4, <1>9, KeysInner
    <3> QED
      BY <2>1, <3>1, <3>2, <3>3
  <2> HIDE DEF t, r
  <2>8. KeysOf[d - 1][t] = X \ {k}
    BY <1>4, <2>7
  <2>9. X # {k} /\ \E f \in 0..MaxDepth : Standing(f, r, X \ {k}, 0)
    BY <1>6, <2>1, <2>3, <2>4, <2>6, <2>8
  <2> QED
    BY <2>9 DEF r, s
<1>10. (NKeys(s) > 0 \/ NKeys(s) = 0) /\ (d = 0 \/ d > 0)
  <2>1. d = 0 \/ d > 0
    BY <1>1
  <2>2. NKeys(s) > 0 \/ NKeys(s) = 0
    BY <1>5
  <2> QED
    BY <2>1, <2>2, Zenon
<1> QED
  BY <1>7, <1>8, <1>9, <1>10

(* ... and leaves one without it as it should be, its root perhaps without a key. *)
LEMMA DeleteMissedSound ==
  ASSUME NEW d \in 0..MaxDepth, NEW n, NEW X, NEW j \in 0..MaxMisses, Standing(d, n, X, j),
         NEW k \in Keys, k \notin X, j < MaxMisses
  PROVE  Standing(d, DeleteFrom[MaxDepth][n][k], X \ {k}, j + 1)
<1> DEFINE s == DeleteFrom[MaxDepth][n][k]
<1>1. /\ d \in Nat /\ MaxDepth \in Nat /\ MaxDepth >= d
      /\ n \in Sound[d] /\ X \subseteq Keys /\ Deletable(d, n)
  BY StandingParts
<1>2. KeysOf[d][n] = X /\ (NKeys(n) = 0 => d > 0 /\ j > 0 /\ NKeys(n.kids[1]) >= MaxKeys - j)
  BY DEF Standing
<1>3. Drops(d, n, k, s)
  BY <1>1, DeleteFromSound
<1> HIDE DEF s
<1>4. /\ s \in Sound[d] /\ KeysOf[d][s] = X \ {k}
      /\ d = 0 => s = n
      /\ d > 0 /\ NKeys(s) = 0 => NKeys(s.kids[1]) >= Reserve(n)
  BY <1>2, <1>3 DEF Drops
<1>5. ASSUME NKeys(s) = 0 PROVE d > 0 /\ j + 1 > 0 /\ NKeys(s.kids[1]) >= MaxKeys - (j + 1)
  <2>1. d > 0 /\ j + 1 > 0
    <3>1. d # 0
      BY <1>2, <1>4, <1>5
    <3> QED
      BY <1>1, <3>1
  <2>2. NKeys(s.kids[1]) \in Nat
    <3>1. d - 1 \in Nat /\ 1 \in 1..NKeys(s) + 1
      BY <1>1, <1>5, <2>1
    <3>2. s.kids[1] \in Sound[d - 1]
      BY <1>1, <1>4, <2>1, <3>1, InnerParts DEF KidOK
    <3> QED
      BY <3>1, <3>2, SoundParts
  <2>3. Reserve(n) >= MaxKeys - (j + 1) /\ Reserve(n) \in Int
    <3>1. CASE NKeys(n) = 0
      <4>1. d - 1 \in Nat /\ 1 \in 1..NKeys(n) + 1
        BY <1>1, <2>1, <3>1
      <4>2. n.kids[1] \in Sound[d - 1]
        BY <1>1, <2>1, <4>1, InnerParts DEF KidOK
      <4>3. NKeys(n.kids[1]) \in Nat
        BY <4>1, <4>2, SoundParts
      <4>4. Reserve(n) = NKeys(n.kids[1]) - 1
        BY <3>1 DEF Reserve
      <4> QED
        BY <1>2, <3>1, <4>3, <4>4, Bounds
    <3>2. CASE NKeys(n) # 0
      <4>1. Reserve(n) = MaxKeys - 1
        BY <3>2 DEF Reserve
      <4> QED
        BY <4>1, Bounds
    <3> QED
      BY <3>1, <3>2
  <2>4. NKeys(s.kids[1]) >= Reserve(n)
    BY <1>4, <1>5, <2>1
  <2> QED
    BY <2>1, <2>2, <2>3, <2>4, Bounds
<1>6. Standing(d, s, X \ {k}, j + 1)
  BY <1>4, <1>5 DEF Standing
<1> QED
  BY <1>6 DEF s

-----------------------------------------------------------------------------
(* There is no tree at first. *)
LEMMA InitInv == Init => IInv
BY Bounds DEF Init, IInv

(* xsdb_btree_insert keeps the invariant; it refuses a key that is there. *)
LEMMA InsertInv ==
  ASSUME IInv, NEW k \in Keys, Insert(k)
  PROVE  IInv'
<1>1. content \subseteq Keys /\ misses \in 0..MaxMisses
  BY DEF IInv
<1>2. /\ root' = IF Find(k) # None THEN root ELSE InsertInto(root, k)
      /\ root' \in Tree[MaxDepth]
      /\ content' = content \cup {k}
      /\ misses' = IF root = None THEN 0 ELSE misses
  BY DEF Insert
<1>3. Find(k) # None <=> k \in content
  BY FindSound, Bounds
<1>4. content' \subseteq Keys /\ misses' \in 0..MaxMisses
  BY <1>1, <1>2, Bounds
<1>5. root' # None
  BY <1>2, BTreeAssumption
<1>6. \E e \in 0..MaxDepth : Standing(e, root', content', misses')
  <2>1. CASE root = None
    <3> DEFINE n == Node(<<Entry(k)>>, <<>>)
    <3>1. content = {}
      BY <2>1 DEF IInv
    <3>2. root' = n
      BY <1>2, <1>3, <2>1, <3>1 DEF InsertInto
    <3>3. n \in Sound[0] /\ NKeys(n) = 1 /\ KeysOf[0][n] = {k}
      BY FirstSound
    <3> HIDE DEF n
    <3>4. Standing(0, n, content', misses')
      BY <1>2, <3>1, <3>3 DEF Standing
    <3>5. 0 \in 0..MaxDepth
      BY Bounds
    <3> QED
      BY <3>2, <3>4, <3>5
  <2>2. CASE root # None
    <3>1. PICK d \in 0..MaxDepth : Standing(d, root, content, misses)
      BY <2>2 DEF IInv
    <3>2. misses' = misses
      BY <1>2, <2>2
    <3>3. CASE k \in content
      <4>1. root' = root /\ content' = content
        BY <1>2, <1>3, <3>3
      <4> QED
        BY <3>1, <3>2, <4>1
    <3>4. CASE k \notin content
      <4>1. root' = InsertInto(root, k)
        BY <1>2, <1>3, <3>4
      <4>2. InsertInto(root, k) \in Tree[MaxDepth]
        BY <1>2, <4>1
      <4>3. \E e \in 0..MaxDepth : Standing(e, InsertInto(root, k), content \cup {k}, misses)
        BY <1>1, <3>1, <3>4, <4>2, InsertIntoSound
      <4> QED
        BY <1>2, <3>2, <4>1, <4>3
    <3> QED
      BY <3>3, <3>4
  <2> QED
    BY <2>1, <2>2
<1> QED
  BY <1>4, <1>5, <1>6 DEF IInv

(* xsdb_btree_delete keeps the invariant, whether it finds the key or not. *)
LEMMA DeleteInv ==
  ASSUME IInv, NEW k \in Keys, Delete(k)
  PROVE  IInv'
<1> DEFINE rest == DeleteFrom[MaxDepth][root][k]
<1>1. content \subseteq Keys /\ misses \in 0..MaxMisses
  BY DEF IInv
<1>2. /\ Find(k) # None \/ misses < MaxMisses
      /\ root' = IF root = None THEN None ELSE IF Find(k) # None THEN Shrink(rest) ELSE rest
      /\ content' = content \ {k}
      /\ misses' = IF Find(k) # None \/ root = None THEN 0 ELSE misses + 1
  BY DEF Delete
<1>3. Find(k) # None <=> k \in content
  BY FindSound, Bounds
<1>4. content' \subseteq Keys /\ misses' \in 0..MaxMisses
  BY <1>1, <1>2, Bounds
<1>5. CASE root = None
  <2>1. root' = None /\ content' = {}
    BY <1>2, <1>5 DEF IInv
  <2> QED
    BY <1>4, <2>1 DEF IInv
<1>6. CASE root # None
  <2>1. PICK d \in 0..MaxDepth : Standing(d, root, content, misses)
    BY <1>6 DEF IInv
  <2>2. CASE k \in content
    <3>1. root' = Shrink(rest) /\ misses' = 0
      BY <1>2, <1>3, <1>6, <2>2
    <3>2. IF content = {k} THEN Shrink(rest) = None
          ELSE \E e \in 0..MaxDepth : Standing(e, Shrink(rest), content \ {k}, 0)
      BY <1>1, <2>1, <2>2, DeleteFoundSound
    <3> HIDE DEF rest
    <3>3. CASE content = {k}
      <4>1. root' = None /\ content' = {}
        BY <1>2, <3>1, <3>2, <3>3
      <4> QED
        BY <1>4, <4>1 DEF IInv
    <3>4. CASE content # {k}
      <4>1. PICK e \in 0..MaxDepth : Standing(e, root', content', misses')
        BY <1>2, <3>1, <3>2, <3>4
      <4>2. root' # None
        BY <1>4, <4>1, StandingParts
      <4> QED
        BY <1>4, <4>1, <4>2 DEF IInv
    <3> QED
      BY <3>3, <3>4
  <2>3. CASE k \notin content
    <3>1. root' = rest /\ misses' = misses + 1 /\ misses < MaxMisses
      BY <1>2, <1>3, <1>6, <2>3
    <3>2. Standing(d, rest, content \ {k}, misses + 1)
      BY <1>1, <2>1, <2>3, <3>1, DeleteMissedSound
    <3> HIDE DEF rest
    <3>3. Standing(d, root', content', misses')
      BY <1>2, <3>1, <3>2
    <3>4. root' # None
      BY <1>4, <3>3, StandingParts
    <3> QED
      BY <1>4, <3>3, <3>4 DEF IInv
  <2> QED
    BY <2>2, <2>3
<1> QED
  BY <1>5, <1>6

LEMMA StepInv == IInv /\ [Next]_vars => IInv'
<1> SUFFICES ASSUME IInv, [Next]_vars PROVE IInv'
  OBVIOUS
<1>1. CASE Next
  <2>1. PICK k \in Keys : Insert(k) \/ Delete(k)
    BY <1>1 DEF Next
  <2> QED
    BY <2>1, InsertInv, DeleteInv
<1>2. CASE UNCHANGED vars
  BY <1>2 DEF vars, IInv
<1> QED
  BY <1>1, <1>2

(* Insertion and deletion keep the root sound, with the keys of the table. *)
THEOREM BTreeInvariant == Spec => []IInv
BY InitInv, StepInv, PTL DEF Spec

(* What the invariant says of the properties. *)
LEMMA InvType == IInv => TypeOK
<1> SUFFICES ASSUME IInv PROVE TypeOK
  OBVIOUS
<1>1. content \subseteq Keys /\ misses \in 0..MaxMisses
  BY DEF IInv
<1>2. CASE root = None
  BY <1>1, <1>2 DEF IInv, TypeOK
<1>3. CASE root # None
  <2>1. PICK d \in 0..MaxDepth : Standing(d, root, content, misses)
    BY <1>3 DEF IInv
  <2>2. root \in Tree[MaxDepth] /\ content # {}
    BY <1>1, <2>1, StandingParts
  <2> QED
    BY <1>1, <1>3, <2>2 DEF TypeOK
<1> QED
  BY <1>2, <1>3

LEMMA InvSearch == IInv => SearchFinds
BY FindSound DEF SearchFinds

LEMMA InvScan == IInv => ScanIsContent
<1> SUFFICES ASSUME IInv PROVE ScanIsContent
  OBVIOUS
<1>1. Lists(content, Rows)
  <2>1. CASE root = None
    BY <2>1, NoList DEF IInv, Rows
  <2>2. CASE root # None
    <3>1. PICK d \in 0..MaxDepth : Standing(d, root, content, misses)
      BY <2>2 DEF IInv
    <3>2. misses \in 0..MaxMisses
      BY DEF IInv
    <3>3. d \in Nat /\ MaxDepth \in Nat /\ MaxDepth >= d /\ root \in Sound[d]
      BY <3>1, <3>2, StandingParts
    <3>4. KeysOf[d][root] = content
      BY <3>1 DEF Standing
    <3>5. Lists(KeysOf[d][root], Scan[MaxDepth][root])
      BY <3>3, ScanSound
    <3> QED
      BY <2>2, <3>4, <3>5 DEF Rows
  <2> QED
    BY <2>1, <2>2
<1> HIDE DEF Rows
<1>2. /\ Rows \in Seq(EntrySet) /\ Len(Rows) \in Nat
      /\ \A i \in 1..Len(Rows) : Rows[i] \in EntrySet /\ Rows[i].key \in content
      /\ \A y \in content : \E i \in 1..Len(Rows) : y = Rows[i].key
      /\ \A i, j \in 1..Len(Rows) : i < j => Rows[i].key < Rows[j].key
  BY <1>1, ListEntries DEF Lists
<1>3. \A i \in 1..Len(Rows) : Rows[i] = Entry(Rows[i].key)
  BY <1>2, EntryKeys
<1>4. ToSet(Rows) = {Rows[i] : i \in 1..Len(Rows)}
  BY <1>2 DEF ToSet
<1>5. ToSet(Rows) = {Entry(k) : k \in content}
  <2>1. ASSUME NEW x \in ToSet(Rows) PROVE x \in {Entry(k) : k \in content}
    BY <1>2, <1>3, <1>4
  <2>2. ASSUME NEW k \in content PROVE Entry(k) \in ToSet(Rows)
    <3>1. PICK i \in 1..Len(Rows) : k = Rows[i].key
      BY <1>2
    <3>2. Rows[i] = Entry(k)
      BY <1>3, <3>1
    <3> QED
      BY <1>4, <3>2
  <2> QED
    BY <2>1, <2>2
<1>6. \A i \in 1..Len(Rows) - 1 : i \in 1..Len(Rows) /\ i + 1 \in 1..Len(Rows) /\ i < i + 1
  BY <1>2
<1>7. \A i \in 1..Len(Rows) - 1 : Rows[i].key < Rows[i + 1].key
  BY <1>2, <1>6
<1> QED
  BY <1>5, <1>7 DEF ScanIsContent

LEMMA InvBalanced == IInv => Balanced
<1> SUFFICES ASSUME IInv PROVE Balanced
  OBVIOUS
<1>1. TypeOK
  BY InvType
<1>2. ASSUME root # None
      PROVE  /\ \E d \in 0..MaxDepth : root \in Tree[d] /\ Shaped[d][root]
             /\ NKeys(root) = 0 => misses > 0
  <2>1. PICK d \in 0..MaxDepth : Standing(d, root, content, misses)
    BY <1>2 DEF IInv
  <2>2. misses \in 0..MaxMisses
    BY DEF IInv
  <2>3. d \in Nat /\ root \in Sound[d]
    BY <2>1, <2>2, StandingParts
  <2>4. root \in Tree[d] /\ Shaped[d][root]
    BY <2>3, InTree, ShapedSound
  <2>5. NKeys(root) = 0 => misses > 0
    BY <2>1 DEF Standing
  <2> QED
    BY <2>4, <2>5
<1> QED
  BY <1>1, <1>2 DEF Balanced

(* The tree stays a B-tree whatever is inserted and deleted: btree_split_child,
   btree_merge and btree_fill leave all leaves at one depth, no node over full
   and none but the root below the minimum; the root has no key at most while
   xsdb_btree_delete keeps missing. *)
THEOREM BTreeBalanced == Spec => []Balanced
BY BTreeInvariant, InvBalanced, PTL

(* xsdb_btree_search finds every row that was inserted and not deleted, also the
   copies that btree_delete_recursive puts in the place of an inner entry, and
   no other. *)
THEOREM BTreeSearchFinds == Spec => []SearchFinds
BY BTreeInvariant, InvSearch, PTL

(* xsdb_btree_scan returns every row of the table once, in the order of the
   rowids. *)
THEOREM BTreeScanIsContent == Spec => []ScanIsContent
BY BTreeInvariant, InvScan, PTL
=============================================================================
