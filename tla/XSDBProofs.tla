----------------------------- MODULE XSDBProofs -----------------------------
(***************************************************************************)
(* Proofs about XSDB, for every set of tables, every bound and every       *)
(* number of faults.                                                       *)
(***************************************************************************)
EXTENDS XSDB, TLAPS, FiniteSetTheorems

(* What a caller can do to one table. *)
Statement(t) ==
  \/ \E s \in Schemas : CreateTable(t, s[1], s[2], s[3])
  \/ DropTable(t)
  \/ \E n \in 1..2 : \E vals \in [1..n -> Cells], named \in BOOLEAN :
       BeginInsert(t, vals, named)
  \/ \E v \in Cells : BulkInsert(t, v)
  \/ \E where \in {{w} : w \in Cells} \cup {Cells} :
       \/ Delete(t, where)
       \/ \E v \in Cells : Update(t, where, v)

-----------------------------------------------------------------------------
(* What a save wrote and the next open finds. *)

(* The disk holds what the last save wrote, until a save empties the file; from
   then on a whole file has no tables in it, unless it was made of a torn one. *)
SavedOnDisk ==
  /\ saved # <<>> => \/ file = Whole(Recorded(saved[1]))
                     \/ file = Emptied /\ Recorded(saved[1]) = NoTables
  /\ saved = <<>> /\ ~salvaged => (file.whole => file.tabs = NoTables)
  /\ pc = "save" => saved = <<>>
  /\ after # "save"

LEMMA NothingRecorded == Recorded(NoTables) = NoTables
  BY DEF Recorded, NoTables

(* A save that breaks off leaves no whole file. *)
LEMMA TornIsNotWhole == ASSUME NEW c, NEW f \in TornFiles(c) PROVE ~f.whole
  BY DEF TornFiles, Emptied, Torn

(* What an open writes over the file it has read. *)
LEMMA FileOpened ==
  ASSUME Open
  PROVE  \/ file' = file
         \/ ~file'.whole
         \/ file.magic /\ file.whole /\ file' = Whole(NoTables)
         \/ file.magic /\ ~file.whole /\ file' = Whole(file.tabs)
  BY TornIsNotWhole DEF Open, OpenAs

(* Only a save, a crash inside one, and an open change the file; each of them
   has forgotten the contents written before.                               *)
LEMMA SavedOnDiskStep == SavedOnDisk /\ [Next]_vars => SavedOnDisk'
<1> SUFFICES ASSUME SavedOnDisk, [Next]_vars
             PROVE  SavedOnDisk'
  OBVIOUS
<1>1. CASE Open
  <2>1. /\ saved' = IF file' = file THEN saved ELSE <<>>
        /\ salvaged' = (salvaged \/ (~file.whole /\ file'.whole))
        /\ UNCHANGED <<pc, after>>
    BY <1>1 DEF Open, OpenAs
  <2>2. CASE file' = file
    BY <2>1, <2>2 DEF SavedOnDisk
  <2>3. CASE file' # file
    <3>1. saved' = <<>>
      BY <2>1, <2>3
    <3>2. ASSUME ~salvaged', file'.whole PROVE file'.tabs = NoTables
      <4>1. file.whole
        BY <2>1, <3>2
      <4>2. file' = Whole(NoTables)
        BY <1>1, <2>3, <3>2, <4>1, FileOpened
      <4> QED
        BY <4>2 DEF Whole
    <3> QED
      BY <2>1, <3>1, <3>2 DEF SavedOnDisk
  <2> QED
    BY <2>2, <2>3
<1>2. CASE Crash
  <2>1. file' = file \/ (pc = "save" /\ ~file'.whole)
    BY <1>2, TornIsNotWhole DEF Crash
  <2> QED
    BY <1>2, <2>1 DEF Crash, ForgetHandle, SavedOnDisk
<1>3. CASE EmptyFile
  BY <1>3 DEF EmptyFile, Emptied, SavedOnDisk
<1>4. CASE FopenFails
  BY <1>4 DEF FopenFails, ReturnFromSave, ForgetHandle, SavedOnDisk
<1>5. CASE SaveEnds
  <2>1. file' = Whole(Recorded(saved'[1]))
    BY <1>5 DEF SaveEnds, Recorded
  <2>2. saved' # <<>>
    BY <1>5 DEF SaveEnds
  <2>3. pc' # "save" /\ after' # "save"
    BY <1>5 DEF SaveEnds, ReturnFromSave, ForgetHandle, SavedOnDisk
  <2> QED
    BY <2>1, <2>2, <2>3 DEF SavedOnDisk
<1>6. CASE SaveFails
  <2>1. ~file'.whole
    BY <1>6, TornIsNotWhole DEF SaveFails
  <2> QED
    BY <1>6, <2>1 DEF SaveFails, ReturnFromSave, ForgetHandle, SavedOnDisk
<1>7. CASE Commit \/ CloseInTx \/ CloseSaves
  BY <1>7 DEF Commit, CloseInTx, CloseSaves, EndTransaction, BeginSave, history, SavedOnDisk
<1>8. CASE Begin \/ Rollback
  BY <1>8 DEF Begin, Rollback, Idle, history, SavedOnDisk
<1>9. CASE InsertRow \/ InsertEnds
  BY <1>9 DEF InsertRow, InsertEnds, history, SavedOnDisk
<1>10. ASSUME NEW t \in Tables, Statement(t)
       PROVE  SavedOnDisk'
  BY <1>10 DEF Statement, CreateTable, DropTable, BeginInsert, BulkInsert, Delete, Update,
               Idle, history, SavedOnDisk
<1>11. CASE UNCHANGED vars
  BY <1>11 DEF vars, mem, history, SavedOnDisk
<1> QED
  BY <1>1, <1>2, <1>3, <1>4, <1>5, <1>6, <1>7, <1>8, <1>9, <1>10, <1>11 DEF Next, Statement

(* Only an open opens a handle. *)
LEMMA OnlyOpenOpens ==
  ASSUME [Next]_vars, ~open, open'
  PROVE  Open
<1>1. ASSUME Crash \/ EmptyFile \/ FopenFails \/ SaveEnds \/ SaveFails \/ Commit \/ CloseInTx
             \/ CloseSaves \/ Begin \/ Rollback \/ InsertRow \/ InsertEnds
      PROVE  FALSE
  BY <1>1 DEF Crash, EmptyFile, FopenFails, SaveEnds, SaveFails, Commit, CloseInTx, CloseSaves,
              Begin, Rollback, InsertRow, InsertEnds, Idle
<1>2. ASSUME NEW t \in Tables, Statement(t)
      PROVE  FALSE
  BY <1>2 DEF Statement, CreateTable, DropTable, BeginInsert, BulkInsert, Delete, Update, Idle
<1>3. CASE UNCHANGED vars
  BY <1>3 DEF vars, mem
<1> QED
  BY <1>1, <1>2, <1>3 DEF Next, Statement

(* An open finds all of what the last finished save was given, but for the
   defaults, or nothing: through closes, crashes, saves that fail before and
   after the file is emptied, and what opening itself does to the file.      *)
THEOREM ReopenFindsSavedTheorem == Spec => ReopenFindsSaved
<1>1. Init => SavedOnDisk
  BY NothingRecorded DEF Init, SavedOnDisk
<1>2. (SavedOnDisk /\ [Next]_vars) =>
           [~open /\ open' =>
              /\ saved # <<>> => tables' = Recorded(saved[1])
              /\ saved = <<>> /\ ~salvaged => tables' = NoTables]_vars
  <2> SUFFICES ASSUME SavedOnDisk, [Next]_vars, ~open, open'
               PROVE  /\ saved # <<>> => tables' = Recorded(saved[1])
                      /\ saved = <<>> /\ ~salvaged => tables' = NoTables
    BY DEF vars
  <2>1. tables' = IF file.whole THEN file.tabs ELSE NoTables
    BY OnlyOpenOpens DEF Open, OpenAs
  <2>2. ASSUME saved # <<>> PROVE tables' = Recorded(saved[1])
    <3>1. CASE file = Whole(Recorded(saved[1]))
      BY <2>1, <3>1 DEF Whole
    <3>2. CASE file = Emptied /\ Recorded(saved[1]) = NoTables
      BY <2>1, <3>2 DEF Emptied
    <3> QED
      BY <2>2, <3>1, <3>2 DEF SavedOnDisk
  <2>3. ASSUME saved = <<>>, ~salvaged PROVE tables' = NoTables
    BY <2>1, <2>3 DEF SavedOnDisk
  <2> QED
    BY <2>2, <2>3
<1> QED
  BY <1>1, <1>2, SavedOnDiskStep, PTL DEF Spec, ReopenFindsSaved
-----------------------------------------------------------------------------
(* Tables. *)

NoNull(R) == \A r \in DOMAIN R : R[r] # NoVal

Unique(R) == \A r, s \in DOMAIN R : r # s => R[r] = NoVal \/ R[r] # R[s]

(* What every table of a database keeps to. *)
GoodTable(T) == IsTable(T) /\ SoundTable(T) /\ IsFiniteSet(DOMAIN T.rows)

LEMMA FieldsOfGood ==
  ASSUME NEW T, GoodTable(T)
  PROVE  /\ T = [uniq |-> T.uniq, notNull |-> T.notNull, default |-> T.default,
                 rows |-> T.rows, next |-> T.next, count |-> T.count]
         /\ T.uniq \in BOOLEAN /\ T.notNull \in BOOLEAN /\ T.default \in Cells
         /\ T.rows \in [DOMAIN T.rows -> Cells]
         /\ DOMAIN T.rows \subseteq Nat
         /\ T.next \in Nat /\ T.count \in Int
         /\ T.count = Cardinality(DOMAIN T.rows)
         /\ \A r \in DOMAIN T.rows : r < T.next
         /\ IsFiniteSet(DOMAIN T.rows)
  BY DEF GoodTable, IsTable, SoundTable, Table

(* The way back, from the fields of a table. *)
LEMMA GoodFromFields ==
  ASSUME NEW uniq \in BOOLEAN, NEW notNull \in BOOLEAN, NEW default \in Cells,
         NEW R, NEW next \in Nat, NEW count \in Int,
         R \in [DOMAIN R -> Cells], DOMAIN R \subseteq Nat, IsFiniteSet(DOMAIN R),
         count = Cardinality(DOMAIN R), \A r \in DOMAIN R : r < next
  PROVE  LET T == [uniq |-> uniq, notNull |-> notNull, default |-> default,
                   rows |-> R, next |-> next, count |-> count]
         IN  /\ GoodTable(T)
             /\ (notNull => NoNull(R)) /\ (uniq => Unique(R)) <=> Constrained(T)
<1> DEFINE T == [uniq |-> uniq, notNull |-> notNull, default |-> default,
                 rows |-> R, next |-> next, count |-> count]
<1>1. /\ T.uniq = uniq /\ T.notNull = notNull /\ T.default = default
      /\ T.rows = R /\ T.next = next /\ T.count = count
      /\ T = [uniq |-> T.uniq, notNull |-> T.notNull, default |-> T.default,
              rows |-> T.rows, next |-> T.next, count |-> T.count]
  OBVIOUS
<1> HIDE DEF T
<1>2. GoodTable(T)
  BY <1>1 DEF GoodTable, IsTable, SoundTable, Table
<1>3. (notNull => NoNull(R)) /\ (uniq => Unique(R)) <=> Constrained(T)
  BY <1>1 DEF Constrained, NoNull, Unique
<1> QED
  BY <1>2, <1>3 DEF T

LEMMA ConstrainedFields ==
  ASSUME NEW T, Constrained(T)
  PROVE  (T.notNull => NoNull(T.rows)) /\ (T.uniq => Unique(T.rows))
  BY DEF Constrained, NoNull, Unique

(* xsdb_bulk_insert: one more row leaves a good table; one that exec_insert
   would have accepted, one that keeps to the constraints. *)
LEMMA RowIsAdded ==
  ASSUME NEW T, NEW v \in Cells, GoodTable(T)
  PROVE  /\ GoodTable(RowAdded(T, v))
         /\ Constrained(T) /\ Accepts(T, v) => Constrained(RowAdded(T, v))
<1> DEFINE R == [r \in DOMAIN T.rows \cup {T.next} |->
                   IF r \in DOMAIN T.rows THEN T.rows[r] ELSE v]
<1> USE FieldsOfGood
<1>1. RowAdded(T, v) = [uniq |-> T.uniq, notNull |-> T.notNull, default |-> T.default,
                        rows |-> R, next |-> T.next + 1, count |-> T.count + 1]
  <2>1. RowAdded(T, v) = [T EXCEPT !.next = T.next + 1, !.count = T.count + 1, !.rows = R]
    BY DEF RowAdded
  <2>2. T = [uniq |-> T.uniq, notNull |-> T.notNull, default |-> T.default,
             rows |-> T.rows, next |-> T.next, count |-> T.count]
    OBVIOUS
  <2> HIDE DEF R
  <2> QED
    BY <2>1, <2>2
<1>2. T.next \notin DOMAIN T.rows
  OBVIOUS
<1>3. /\ IsFiniteSet(DOMAIN R)
      /\ Cardinality(DOMAIN R) = Cardinality(DOMAIN T.rows) + 1
  BY <1>2, FS_AddElement
<1>4. \A r \in DOMAIN R : r < T.next + 1
  OBVIOUS
<1>5. R \in [DOMAIN R -> Cells] /\ DOMAIN R \subseteq Nat
  OBVIOUS
<1>6. Constrained(T) /\ Accepts(T, v) => (T.uniq => Unique(R)) /\ (T.notNull => NoNull(R))
  BY <1>2 DEF Unique, NoNull, Accepts, Constrained
<1>7. T.next + 1 \in Nat /\ T.count + 1 \in Int /\ T.count + 1 = Cardinality(DOMAIN R)
  BY <1>3
<1> HIDE DEF R
<1> QED
  BY <1>1, <1>3, <1>4, <1>5, <1>6, <1>7, GoodFromFields

(* exec_insert: one more row, or one refused, leaves a good table. *)
LEMMA RowInserted ==
  ASSUME NEW T, NEW v \in Cells, GoodTable(T)
  PROVE  GoodTable(WithRow(T, v)) /\ (Constrained(T) => Constrained(WithRow(T, v)))
<1>1. CASE Accepts(T, v)
  BY <1>1, RowIsAdded DEF WithRow
<1>2. CASE ~Accepts(T, v)
  <2>1. WithRow(T, v) = [uniq |-> T.uniq, notNull |-> T.notNull, default |-> T.default,
                         rows |-> T.rows, next |-> T.next + 1, count |-> T.count]
    BY <1>2, FieldsOfGood DEF WithRow
  <2>2. T.next + 1 \in Nat /\ \A r \in DOMAIN T.rows : r < T.next + 1
    BY FieldsOfGood
  <2> QED
    BY <2>1, <2>2, FieldsOfGood, GoodFromFields, ConstrainedFields
<1> QED
  BY <1>1, <1>2

LEMMA StoredIsCell ==
  ASSUME NEW T, T.default \in Cells, NEW v \in Cells, NEW named
  PROVE  Stored(T, v, named) \in Cells
  BY DEF Stored

(* exec_delete leaves row_count and the rows in agreement. *)
LEMMA RowsDeleted ==
  ASSUME NEW T, NEW where, GoodTable(T), where \subseteq Cells
  PROVE  /\ GoodTable(Without(T, where))
         /\ Constrained(T) => Constrained(Without(T, where))
<1> DEFINE gone == Matching(T, where)
           R == Restrict(T.rows, DOMAIN T.rows \ gone)
           n == IF where = Cells THEN 0 ELSE T.count - Cardinality(gone)
<1>1. /\ T.rows \in [DOMAIN T.rows -> Cells]
      /\ DOMAIN T.rows \subseteq Nat
      /\ T.next \in Nat /\ T.count \in Int
      /\ T.count = Cardinality(DOMAIN T.rows)
      /\ \A r \in DOMAIN T.rows : r < T.next
      /\ IsFiniteSet(DOMAIN T.rows)
  BY FieldsOfGood
<1>2. Without(T, where) = [uniq |-> T.uniq, notNull |-> T.notNull, default |-> T.default,
                           rows |-> R, next |-> T.next, count |-> n]
  BY DEF Without, Table
<1>3. gone \subseteq DOMAIN T.rows
  BY DEF Matching
<1>4. DOMAIN R = DOMAIN T.rows \ gone /\ \A r \in DOMAIN R : R[r] = T.rows[r]
  BY DEF Restrict
<1>5. R \in [DOMAIN R -> Cells] /\ DOMAIN R \subseteq Nat
  BY <1>1, <1>4 DEF Restrict
<1>6. IsFiniteSet(gone) /\ IsFiniteSet(DOMAIN R)
  BY <1>1, <1>3, <1>4, FS_Subset
<1>7. n \in Int /\ n = Cardinality(DOMAIN R)
  <2>1. CASE where = Cells
    <3>1. DOMAIN R = {}
      BY <1>1, <1>4, <2>1 DEF Matching
    <3> QED
      BY <2>1, <3>1, FS_EmptySet
  <2>2. CASE where # Cells
    <3>1. DOMAIN T.rows \cap gone = gone
      BY <1>3
    <3>2. Cardinality(DOMAIN T.rows \ gone)
            = Cardinality(DOMAIN T.rows) - Cardinality(DOMAIN T.rows \cap gone)
      BY <1>1, FS_Difference
    <3>3. Cardinality(gone) \in Nat /\ Cardinality(DOMAIN T.rows) \in Nat
      BY <1>1, <1>6, FS_CardinalityType
    <3>4. n = T.count - Cardinality(gone)
      BY <2>2
    <3>5. Cardinality(DOMAIN R) = Cardinality(DOMAIN T.rows) - Cardinality(gone)
      BY <1>4, <3>1, <3>2
    <3> HIDE DEF R, n, gone
    <3> QED
      BY <1>1, <3>3, <3>4, <3>5
  <2> QED
    BY <2>1, <2>2
<1>8. Constrained(T) => (T.uniq => Unique(R)) /\ (T.notNull => NoNull(R))
  BY <1>1, <1>4 DEF Unique, NoNull, Constrained
<1>9. \A r \in DOMAIN R : r < T.next
  BY <1>1, <1>4
<1> HIDE DEF R, n, gone
<1> QED
  BY <1>2, <1>5, <1>6, <1>7, <1>8, <1>9, FieldsOfGood, GoodFromFields

(* exec_update keeps a table in order but for the constraints. *)
LEMMA RowsUpdated ==
  ASSUME NEW T, NEW where, NEW v \in Cells, GoodTable(T)
  PROVE  /\ GoodTable(Updated(T, where, v))
         /\ Constrained(T) /\ Matching(T, where) = {} => Constrained(Updated(T, where, v))
<1> DEFINE R == [r \in DOMAIN T.rows |-> IF r \in Matching(T, where) THEN v ELSE T.rows[r]]
<1>1. Updated(T, where, v) = [uniq |-> T.uniq, notNull |-> T.notNull, default |-> T.default,
                              rows |-> R, next |-> T.next, count |-> T.count]
  BY DEF Updated, Table
<1>2. DOMAIN R = DOMAIN T.rows /\ R \in [DOMAIN R -> Cells]
  BY FieldsOfGood
<1>3. Matching(T, where) = {} => \A r \in DOMAIN R : R[r] = T.rows[r]
  OBVIOUS
<1>4. Matching(T, where) = {} /\ Constrained(T)
        => (T.uniq => Unique(R)) /\ (T.notNull => NoNull(R))
  BY <1>2, <1>3 DEF Unique, NoNull, Constrained
<1> HIDE DEF R
<1> QED
  BY <1>1, <1>2, <1>4, FieldsOfGood, GoodFromFields

LEMMA TableCreated ==
  ASSUME NEW uniq \in BOOLEAN, NEW notNull \in BOOLEAN, NEW default \in Cells
  PROVE  /\ GoodTable(Table(uniq, notNull, default, NoRows, 1, 0))
         /\ Constrained(Table(uniq, notNull, default, NoRows, 1, 0))
<1>1. DOMAIN NoRows = {} /\ NoRows \in [DOMAIN NoRows -> Cells] /\ Unique(NoRows) /\ NoNull(NoRows)
  BY DEF Unique, NoNull, NoRows
<1>2. IsFiniteSet(DOMAIN NoRows) /\ Cardinality(DOMAIN NoRows) = 0
  BY <1>1, FS_EmptySet
<1>3. DOMAIN NoRows \subseteq Nat /\ \A r \in DOMAIN NoRows : r < 1
  BY <1>1
<1>4. Table(uniq, notNull, default, NoRows, 1, 0)
        = [uniq |-> uniq, notNull |-> notNull, default |-> default,
           rows |-> NoRows, next |-> 1, count |-> 0]
  BY DEF Table
<1>5. 1 \in Nat /\ 0 \in Int
  OBVIOUS
<1> DEFINE T == [uniq |-> uniq, notNull |-> notNull, default |-> default,
                 rows |-> NoRows, next |-> 1, count |-> 0]
<1>6. GoodTable(T) /\ ((notNull => NoNull(NoRows)) /\ (uniq => Unique(NoRows)) <=> Constrained(T))
  BY <1>1, <1>2, <1>3, <1>5, GoodFromFields
<1> HIDE DEF T
<1>7. Constrained(T)
  BY <1>1, <1>6
<1> QED
  BY <1>4, <1>6, <1>7 DEF T

(* A file keeps the rows, the counters and the constraints of a table. *)
LEMMA RecordedIsGood ==
  ASSUME NEW c, NEW t \in DOMAIN c, GoodTable(c[t])
  PROVE  GoodTable(Recorded(c)[t]) /\ (Constrained(c[t]) => Constrained(Recorded(c)[t]))
<1> DEFINE T == c[t]
<1>1. NoVal \in Cells
  BY DEF Cells
<1>2. Recorded(c)[t] = [uniq |-> T.uniq, notNull |-> T.notNull, default |-> NoVal,
                        rows |-> T.rows, next |-> T.next, count |-> T.count]
  BY FieldsOfGood DEF Recorded
<1> HIDE DEF T
<1> QED
  BY <1>1, <1>2, FieldsOfGood, GoodFromFields, ConstrainedFields DEF T

-----------------------------------------------------------------------------
(* All tables, in memory, in the snapshot and in the file. *)

(* names are the tables that an UPDATE or a bulk insert has written. *)
GoodContents(c, names) ==
  \A t \in DOMAIN c : GoodTable(c[t]) /\ (t \notin names => Constrained(c[t]))

GoodDB ==
  /\ salvaged \in BOOLEAN /\ inTx \in BOOLEAN
  /\ ~salvaged => /\ GoodContents(tables, relaxed)
                  /\ inTx => GoodContents(snapshot[1], relaxed)
                  /\ file.whole => GoodContents(file.tabs, relaxed)
  /\ ~inTx => snapshot = <<>>
  /\ pc = "insert" => stmt.table \in DOMAIN tables /\ stmt.todo \in Seq(Cells)
  /\ ~open => pc = "idle"
  /\ after # "insert"

LEMMA RecordedGood ==
  ASSUME NEW c, NEW names, GoodContents(c, names)
  PROVE  GoodContents(Recorded(c), names)
<1>1. DOMAIN Recorded(c) = DOMAIN c
  BY DEF Recorded
<1> QED
  BY <1>1, RecordedIsGood DEF GoodContents

LEMMA NoTablesGood == ASSUME NEW names PROVE GoodContents(NoTables, names)
  BY DEF GoodContents, NoTables

LEMMA GoodDBStep == GoodDB /\ [Next]_vars => GoodDB'
<1> SUFFICES ASSUME GoodDB, [Next]_vars
             PROVE  GoodDB'
  OBVIOUS
(* The save under way ends or fails; ok: the file it leaves is a good one. *)
<1>a. ASSUME open, ReturnFromSave, UNCHANGED <<salvaged, relaxed>>,
             ~salvaged /\ file'.whole => GoodContents(file'.tabs, relaxed)
      PROVE  GoodDB'
  <2>1. CASE after = "free"
    BY <1>a, <2>1, NoTablesGood DEF ReturnFromSave, ForgetHandle, GoodDB
  <2>2. CASE after # "free"
    <3>1. /\ UNCHANGED <<inTx, snapshot, tables, open>>
          /\ pc' # "insert" /\ after' # "insert"
      BY <1>a, <2>2 DEF ReturnFromSave, GoodDB
    <3> QED
      BY <1>a, <3>1 DEF GoodDB
  <2> QED
    BY <2>1, <2>2
<1>1. CASE Open
  <2>1. /\ tables' = IF file.whole THEN file.tabs ELSE NoTables
        /\ salvaged' = (salvaged \/ (~file.whole /\ file'.whole))
        /\ ~open /\ open' /\ UNCHANGED <<inTx, snapshot, pc, stmt, after, relaxed>>
    BY <1>1 DEF Open, OpenAs
  <2>2. ASSUME ~salvaged', file'.whole PROVE GoodContents(file'.tabs, relaxed)
    <3>1. ~salvaged /\ file.whole
      BY <2>1, <2>2
    <3>2. file' = file \/ file' = Whole(NoTables)
      BY <1>1, <2>2, <3>1, FileOpened
    <3>3. GoodContents(file.tabs, relaxed)
      BY <3>1 DEF GoodDB
    <3> QED
      BY <3>2, <3>3, NoTablesGood DEF Whole
  <2>3. ~salvaged' => GoodContents(tables', relaxed)
    BY <2>1, NoTablesGood DEF GoodDB
  <2> QED
    BY <2>1, <2>2, <2>3 DEF GoodDB
<1>2. CASE Crash
  <2>1. file'.whole => file' = file
    BY <1>2, TornIsNotWhole DEF Crash
  <2> QED
    BY <1>2, <2>1, NoTablesGood DEF Crash, ForgetHandle, GoodDB
<1>3. CASE SaveEnds
  <2>1. file'.tabs = Recorded(tables)
    BY <1>3 DEF SaveEnds, Whole
  <2>2. ~salvaged => GoodContents(file'.tabs, relaxed)
    BY <2>1, RecordedGood DEF GoodDB
  <2> QED
    BY <1>a, <1>3, <2>2 DEF SaveEnds
<1>4. CASE SaveFails
  <2>1. ~file'.whole
    BY <1>4, TornIsNotWhole DEF SaveFails
  <2> QED
    BY <1>a, <1>4, <2>1 DEF SaveFails
<1>5. CASE FopenFails
  BY <1>a, <1>5 DEF FopenFails, GoodDB
<1>6. CASE EmptyFile
  BY <1>6 DEF EmptyFile, Emptied, GoodDB
<1>6a. CASE Commit \/ CloseInTx \/ CloseSaves
  <2>1. /\ UNCHANGED <<salvaged, tables, relaxed, file, open>>
        /\ open /\ pc' # "insert" /\ after' # "insert"
        /\ (inTx' = FALSE /\ snapshot' = <<>>) \/ UNCHANGED <<inTx, snapshot>>
    BY <1>6a DEF Commit, CloseInTx, CloseSaves, EndTransaction, BeginSave, Idle, history
  <2>2. CASE inTx' = FALSE /\ snapshot' = <<>>
    BY <2>1, <2>2 DEF GoodDB
  <2>3. CASE UNCHANGED <<inTx, snapshot>>
    BY <2>1, <2>3 DEF GoodDB
  <2> QED
    BY <2>1, <2>2, <2>3
<1>7. CASE Begin
  BY <1>7 DEF Begin, Idle, history, GoodDB
<1>8. CASE Rollback
  BY <1>8 DEF Rollback, Idle, GoodDB
<1>9. CASE InsertRow
  <2> DEFINE t == stmt.table
             v == Stored(tables[t], Head(stmt.todo), stmt.named)
  <2>1. t \in DOMAIN tables /\ Head(stmt.todo) \in Cells /\ Tail(stmt.todo) \in Seq(Cells)
    BY <1>9 DEF InsertRow, GoodDB
  <2>2. DOMAIN tables' = DOMAIN tables
    BY <1>9 DEF InsertRow
  <2>3. ~salvaged => GoodContents(tables', relaxed)
    <3> SUFFICES ASSUME ~salvaged, NEW u \in DOMAIN tables
                 PROVE  GoodTable(tables'[u]) /\ (u \notin relaxed => Constrained(tables'[u]))
      BY <2>2 DEF GoodContents
    <3>1. GoodTable(tables[u]) /\ (u \notin relaxed => Constrained(tables[u]))
      BY DEF GoodDB, GoodContents
    <3>2. CASE u = t
      <4>1. tables'[u] = WithRow(tables[u], v)
        BY <1>9, <2>1, <3>2 DEF InsertRow
      <4>2. tables[u].default \in Cells
        BY <3>1, FieldsOfGood
      <4>3. v \in Cells
        BY <2>1, <3>2, <4>2, StoredIsCell
      <4> HIDE DEF t, v
      <4> QED
        BY <3>1, <4>1, <4>3, RowInserted
    <3>3. CASE u # t
      BY <1>9, <3>1, <3>3 DEF InsertRow
    <3> QED
      BY <3>2, <3>3
  <2>4. pc' = "insert" => stmt'.table \in DOMAIN tables' /\ stmt'.todo \in Seq(Cells)
    <3> SUFFICES ASSUME pc' = "insert"
                 PROVE  stmt'.table \in DOMAIN tables' /\ stmt'.todo \in Seq(Cells)
      OBVIOUS
    <3>1. stmt' = [stmt EXCEPT !.todo = Tail(stmt.todo)]
      BY <1>9 DEF InsertRow
    <3> QED
      BY <2>1, <2>2, <3>1
  <2> QED
    BY <1>9, <2>3, <2>4 DEF InsertRow, history, GoodDB
<1>10. CASE InsertEnds
  BY <1>10 DEF InsertEnds, history, GoodDB
<1>11. ASSUME NEW t \in Tables, NEW s \in Schemas, CreateTable(t, s[1], s[2], s[3])
       PROVE  GoodDB'
  <2>1. s[1] \in BOOLEAN /\ s[2] \in BOOLEAN /\ s[3] \in Cells
    BY XSDBAssumption DEF Cells
  <2>2. ~salvaged => GoodContents(tables', relaxed)
    <3> SUFFICES ASSUME ~salvaged, NEW u \in DOMAIN tables \cup {t}
                 PROVE  GoodTable(tables'[u]) /\ (u \notin relaxed => Constrained(tables'[u]))
      BY <1>11 DEF GoodContents, CreateTable
    <3>1. CASE u = t
      BY <1>11, <2>1, <3>1, TableCreated DEF CreateTable
    <3>2. CASE u # t
      BY <1>11, <3>2 DEF CreateTable, GoodDB, GoodContents
    <3> QED
      BY <3>1, <3>2
  <2> QED
    BY <1>11, <2>2 DEF CreateTable, Idle, history, GoodDB
<1>12. ASSUME NEW t \in Tables, DropTable(t)
       PROVE  GoodDB'
  <2>1. ~salvaged => GoodContents(tables', relaxed)
    BY <1>12 DEF DropTable, Restrict, GoodDB, GoodContents
  <2> QED
    BY <1>12, <2>1 DEF DropTable, Idle, history, GoodDB
<1>13. ASSUME NEW t \in Tables, NEW n \in 1..2, NEW vals \in [1..n -> Cells],
              NEW named \in BOOLEAN, BeginInsert(t, vals, named)
       PROVE  GoodDB'
  <2>1. vals \in Seq(Cells)
    OBVIOUS
  <2> QED
    <3>1. /\ UNCHANGED <<salvaged, inTx, snapshot, tables, relaxed, file, open, after>>
          /\ open /\ t \in DOMAIN tables
          /\ stmt' = [table |-> t, named |-> named, todo |-> vals]
      BY <1>13 DEF BeginInsert, Idle, history
    <3> QED
      BY <2>1, <3>1 DEF GoodDB
<1>14. ASSUME NEW t \in Tables, NEW where \in {{w} : w \in Cells} \cup {Cells}, Delete(t, where)
       PROVE  GoodDB'
  <2>1. where \subseteq Cells
    OBVIOUS
  <2>2. ~salvaged => GoodContents(tables', relaxed)
    <3> SUFFICES ASSUME ~salvaged, NEW u \in DOMAIN tables
                 PROVE  GoodTable(tables'[u]) /\ (u \notin relaxed => Constrained(tables'[u]))
      BY <1>14 DEF GoodContents, Delete
    <3>1. GoodTable(tables[u]) /\ (u \notin relaxed => Constrained(tables[u]))
      BY DEF GoodDB, GoodContents
    <3>2. CASE u = t
      <4>1. tables'[u] = Without(tables[u], where)
        BY <1>14, <3>2 DEF Delete
      <4> QED
        BY <2>1, <3>1, <4>1, RowsDeleted
    <3>3. CASE u # t
      BY <1>14, <3>1, <3>3 DEF Delete
    <3> QED
      BY <3>2, <3>3
  <2> QED
    BY <1>14, <2>2 DEF Delete, Idle, history, GoodDB
<1>15. ASSUME NEW t \in Tables, NEW where \in {{w} : w \in Cells} \cup {Cells}, NEW v \in Cells,
              Update(t, where, v)
       PROVE  GoodDB'
  <2>1. relaxed \subseteq relaxed' /\ (Matching(tables[t], where) # {} => t \in relaxed')
    BY <1>15 DEF Update
  <2>2. ASSUME NEW c, GoodContents(c, relaxed) PROVE GoodContents(c, relaxed')
    BY <2>1, <2>2 DEF GoodContents
  <2>3. ~salvaged => GoodContents(tables', relaxed')
    <3> SUFFICES ASSUME ~salvaged, NEW u \in DOMAIN tables
                 PROVE  GoodTable(tables'[u]) /\ (u \notin relaxed' => Constrained(tables'[u]))
      BY <1>15 DEF GoodContents, Update
    <3>1. GoodTable(tables[u]) /\ (u \notin relaxed => Constrained(tables[u]))
      BY DEF GoodDB, GoodContents
    <3>2. CASE u = t
      <4>1. tables'[u] = Updated(tables[u], where, v)
        BY <1>15, <3>2 DEF Update
      <4> QED
        BY <2>1, <3>1, <3>2, <4>1, RowsUpdated
    <3>3. CASE u # t
      <4>1. tables'[u] = tables[u]
        BY <1>15, <3>3 DEF Update
      <4> QED
        BY <2>1, <3>1, <4>1
    <3> QED
      BY <3>2, <3>3
  <2> QED
    BY <1>15, <2>2, <2>3 DEF Update, Idle, GoodDB
<1>15a. ASSUME NEW t \in Tables, NEW v \in Cells, BulkInsert(t, v)
        PROVE  GoodDB'
  <2>1. relaxed' = relaxed \cup {t}
    BY <1>15a DEF BulkInsert
  <2>2. ASSUME NEW c, GoodContents(c, relaxed) PROVE GoodContents(c, relaxed')
    BY <2>1, <2>2 DEF GoodContents
  <2>3. ~salvaged => GoodContents(tables', relaxed')
    <3> SUFFICES ASSUME ~salvaged, NEW u \in DOMAIN tables
                 PROVE  GoodTable(tables'[u]) /\ (u \notin relaxed' => Constrained(tables'[u]))
      BY <1>15a DEF GoodContents, BulkInsert
    <3>1. GoodTable(tables[u]) /\ (u \notin relaxed => Constrained(tables[u]))
      BY DEF GoodDB, GoodContents
    <3>2. CASE u = t
      <4>1. tables'[u] = RowAdded(tables[u], v)
        BY <1>15a, <3>2 DEF BulkInsert
      <4> QED
        BY <2>1, <3>1, <3>2, <4>1, RowIsAdded
    <3>3. CASE u # t
      <4>1. tables'[u] = tables[u]
        BY <1>15a, <3>3 DEF BulkInsert
      <4> QED
        BY <2>1, <3>1, <4>1
    <3> QED
      BY <3>2, <3>3
  <2> QED
    BY <1>15a, <2>2, <2>3 DEF BulkInsert, Idle, GoodDB
<1>16. CASE UNCHANGED vars
  BY <1>16 DEF vars, mem, history, GoodDB, GoodContents
<1> QED
  BY <1>1, <1>2, <1>3, <1>4, <1>5, <1>6, <1>6a, <1>7, <1>8, <1>9, <1>10, <1>11, <1>12, <1>13,
     <1>14, <1>15, <1>15a, <1>16 DEF Next

LEMMA GoodDBInit == Init => GoodDB
<1> SUFFICES ASSUME Init PROVE GoodDB
  OBVIOUS
<1>1. ~file.whole /\ GoodContents(tables, relaxed)
  BY NoTablesGood DEF Init, Emptied
<1>2. /\ salvaged = FALSE /\ inTx = FALSE /\ snapshot = <<>>
      /\ pc = "idle" /\ after = "idle"
  BY DEF Init
<1> QED
  BY <1>1, <1>2 DEF GoodDB

(* In every table, the snapshot and the file included, row_count is the number
   of rows and no rowid in use will be given out again.                      *)
THEOREM IntegrityTheorem == Spec => []Integrity
<1>1. GoodDB => Integrity
  BY DEF GoodDB, Integrity, GoodContents, GoodTable, SoundContents
<1> QED
  BY <1>1, GoodDBInit, GoodDBStep, PTL DEF Spec

(* NOT NULL and UNIQUE columns stay so under everything but UPDATE and bulk
   inserts, with and without the defaults a reopen has lost.                *)
THEOREM ConstraintsHoldTheorem == Spec => []ConstraintsHold
<1>1. GoodDB => ConstraintsHold
  BY DEF GoodDB, ConstraintsHold, GoodContents
<1> QED
  BY <1>1, GoodDBInit, GoodDBStep, PTL DEF Spec

-----------------------------------------------------------------------------
(* The table array. *)

(* Every database has finitely many tables, and the array has a slot for each
   and at least one, unless the last rollback has shrunk it to none. *)
ArrayInv ==
  /\ cap \in Nat
  /\ IsFiniteSet(DOMAIN tables) /\ IsFiniteSet(DOMAIN file.tabs)
  /\ inTx => IsFiniteSet(DOMAIN snapshot[1])
  /\ emptied => cap = 0 /\ open
  /\ ~emptied => cap > 0 /\ Cardinality(DOMAIN tables) <= cap

LEMMA NoTablesFinite == IsFiniteSet(DOMAIN NoTables) /\ Cardinality(DOMAIN NoTables) = 0
<1>1. DOMAIN NoTables = {}
  BY DEF NoTables
<1> QED
  BY <1>1, FS_EmptySet

(* What a broken save leaves has no more tables than what was saved. *)
LEMMA TornIsFinite ==
  ASSUME NEW c, IsFiniteSet(DOMAIN c), NEW f \in TornFiles(c)
  PROVE  IsFiniteSet(DOMAIN f.tabs)
<1>1. CASE f \in {Emptied, Torn(NoTables)}
  BY <1>1, NoTablesFinite DEF Emptied, Torn
<1>2. ASSUME NEW D \in SUBSET DOMAIN c,
             NEW g \in {Restrict(Recorded(c), D)} \cup CutContents(Restrict(Recorded(c), D)),
             f = Torn(g)
      PROVE  IsFiniteSet(DOMAIN f.tabs)
  <2>1. DOMAIN Restrict(Recorded(c), D) = D
    BY DEF Restrict, Recorded
  <2>2. ASSUME NEW b, NEW h \in CutContents(b) PROVE DOMAIN h = DOMAIN b
    BY DEF CutContents
  <2>3. DOMAIN g = D
    BY <2>1, <2>2
  <2> QED
    BY <1>2, <2>3, FS_Subset DEF Torn
<1> QED
  BY <1>1, <1>2 DEF TornFiles

LEMMA ArrayInvInit == Init => ArrayInv
<1> SUFFICES ASSUME Init PROVE ArrayInv
  OBVIOUS
<1>1. /\ tables = NoTables /\ file.tabs = NoTables /\ cap = InitCap
      /\ emptied = FALSE /\ inTx = FALSE
  BY DEF Init, Emptied
<1> QED
  BY <1>1, NoTablesFinite, XSDBAssumption DEF ArrayInv

(* A handle that is gone leaves an array of the initial size. *)
LEMMA ForgetArray ==
  ASSUME ArrayInv, ForgetHandle, IsFiniteSet(DOMAIN file'.tabs)
  PROVE  ArrayInv'
<1>1. tables' = NoTables /\ cap' = InitCap /\ emptied' = FALSE /\ inTx' = FALSE
  BY DEF ForgetHandle
<1> QED
  BY <1>1, NoTablesFinite, XSDBAssumption DEF ArrayInv

LEMMA ArrayInvStep == ArrayInv /\ [Next]_vars => ArrayInv'
<1> SUFFICES ASSUME ArrayInv, [Next]_vars
             PROVE  ArrayInv'
  OBVIOUS
<1> DEFINE array == <<open, tables, cap, inTx, snapshot, emptied>>
<1>1. ASSUME UNCHANGED array \/ ForgetHandle, IsFiniteSet(DOMAIN file'.tabs)
      PROVE  ArrayInv'
  BY <1>1, ForgetArray DEF ArrayInv
<1>2. CASE Open
  <2>1. tables' \in {NoTables, file.tabs} /\ ~open
    BY <1>2 DEF Open, OpenAs
  <2>2. IsFiniteSet(DOMAIN tables')
    BY <2>1, NoTablesFinite DEF ArrayInv
  <2>3. Cardinality(DOMAIN tables') \in Nat
    BY <2>2, FS_CardinalityType
  <2>4. IsFiniteSet(DOMAIN file'.tabs)
    <3> DEFINE held == IF file.whole THEN NoTables ELSE file.tabs
    <3>1. IsFiniteSet(DOMAIN held) /\ IsFiniteSet(DOMAIN file.tabs)
      BY NoTablesFinite DEF ArrayInv
    <3>2. file' \in {file, Whole(held)} \cup TornFiles(held)
      BY <1>2 DEF Open, OpenAs
    <3> HIDE DEF held
    <3> QED
      BY <3>1, <3>2, TornIsFinite DEF Whole
  <2>5. /\ cap' = IF Cardinality(DOMAIN tables') > InitCap
                  THEN Cardinality(DOMAIN tables') ELSE InitCap
        /\ UNCHANGED <<inTx, snapshot, emptied>>
    BY <1>2 DEF Open, OpenAs
  <2>6. cap' \in Nat /\ cap' > 0 /\ Cardinality(DOMAIN tables') <= cap'
    BY <2>3, <2>5, XSDBAssumption
  <2>7. ~emptied
    BY <2>1 DEF ArrayInv
  <2> QED
    BY <2>2, <2>4, <2>5, <2>6, <2>7 DEF ArrayInv
<1>3. CASE Crash
  <2>1. IsFiniteSet(DOMAIN file'.tabs)
    BY <1>3, TornIsFinite DEF Crash, ArrayInv
  <2> QED
    BY <1>1, <1>3, <2>1 DEF Crash
<1>4. CASE SaveEnds
  <2>1. DOMAIN file'.tabs = DOMAIN tables
    BY <1>4 DEF SaveEnds, Whole, Recorded
  <2> QED
    BY <1>1, <1>4, <2>1 DEF SaveEnds, ReturnFromSave, ArrayInv
<1>5. CASE SaveFails
  <2>1. IsFiniteSet(DOMAIN file'.tabs)
    BY <1>5, TornIsFinite DEF SaveFails, ArrayInv
  <2> QED
    BY <1>1, <1>5, <2>1 DEF SaveFails, ReturnFromSave
<1>5a. CASE FopenFails
  <2>1. IsFiniteSet(DOMAIN file'.tabs)
    BY <1>5a DEF FopenFails, ArrayInv
  <2> QED
    BY <1>1, <1>5a, <2>1 DEF FopenFails, ReturnFromSave
<1>5b. CASE EmptyFile
  <2>1. IsFiniteSet(DOMAIN file'.tabs)
    BY <1>5b, NoTablesFinite DEF EmptyFile, Emptied
  <2> QED
    BY <1>1, <1>5b, <2>1 DEF EmptyFile
<1>6. CASE Commit \/ CloseInTx \/ CloseSaves
  <2>1. /\ UNCHANGED <<open, tables, cap, emptied, file>>
        /\ inTx' = FALSE \/ (UNCHANGED <<inTx, snapshot>>)
    BY <1>6 DEF Commit, CloseInTx, CloseSaves, EndTransaction, history
  <2> QED
    BY <2>1 DEF ArrayInv
<1>7. CASE Begin
  BY <1>7 DEF Begin, history, ArrayInv
<1>8. CASE Rollback
  <2>1. /\ tables' = snapshot[1] /\ cap' = Cardinality(DOMAIN snapshot[1])
        /\ inTx /\ inTx' = FALSE
        /\ emptied' = (DOMAIN snapshot[1] = {})
        /\ open /\ UNCHANGED <<open, file>>
    BY <1>8 DEF Rollback, Idle
  <2>2. IsFiniteSet(DOMAIN snapshot[1])
    BY <2>1 DEF ArrayInv
  <2>3. /\ Cardinality(DOMAIN snapshot[1]) \in Nat
        /\ Cardinality(DOMAIN snapshot[1]) = 0 <=> DOMAIN snapshot[1] = {}
    BY <2>2, FS_CardinalityType, FS_EmptySet
  <2>4. CASE DOMAIN snapshot[1] = {}
    BY <2>1, <2>2, <2>3, <2>4 DEF ArrayInv
  <2>5. CASE DOMAIN snapshot[1] # {}
    <3>1. cap' \in Nat /\ cap' # 0
      BY <2>1, <2>3, <2>5
    <3>2. ~emptied'
      BY <2>1, <2>5
    <3>2a. cap' > 0
      BY <3>1
    <3>2b. Cardinality(DOMAIN tables') = cap'
      BY <2>1
    <3>2c. Cardinality(DOMAIN tables') <= cap'
      BY <3>1, <3>2b
    <3>3. IsFiniteSet(DOMAIN tables') /\ IsFiniteSet(DOMAIN file'.tabs) /\ ~inTx'
      BY <2>1, <2>2 DEF ArrayInv
    <3> QED
      BY <3>1, <3>2, <3>2a, <3>2c, <3>3 DEF ArrayInv
  <2> QED
    BY <2>4, <2>5
<1>9. CASE InsertRow
  <2>1. DOMAIN tables' = DOMAIN tables /\ UNCHANGED <<open, file, cap, inTx, snapshot, emptied>>
    BY <1>9 DEF InsertRow, history
  <2> QED
    BY <2>1 DEF ArrayInv
<1>10. CASE InsertEnds
  BY <1>10 DEF InsertEnds, history, ArrayInv
<1>11. ASSUME NEW t \in Tables, NEW s \in Schemas, CreateTable(t, s[1], s[2], s[3])
       PROVE  ArrayInv'
  <2> DEFINE n == Cardinality(DOMAIN tables)
  <2>1. n \in Nat
    BY FS_CardinalityType DEF ArrayInv
  <2>2. /\ DOMAIN tables' = DOMAIN tables \cup {t} /\ t \notin DOMAIN tables
        /\ cap' = IF n >= cap THEN 2 * cap ELSE cap
        /\ UNCHANGED <<open, file, inTx, snapshot, emptied>>
    BY <1>11 DEF CreateTable, Grown, history
  <2>3. IsFiniteSet(DOMAIN tables') /\ Cardinality(DOMAIN tables') = n + 1
    BY <2>2, FS_AddElement DEF ArrayInv
  <2>4. cap' \in Nat
    BY <2>2 DEF ArrayInv
  <2>5. ~emptied => cap' > 0 /\ n < cap'
    BY <2>1, <2>2 DEF ArrayInv
  <2>6. emptied => cap' = 0
    BY <2>2 DEF ArrayInv
  <2> HIDE DEF n
  <2>7. ~emptied => Cardinality(DOMAIN tables') <= cap'
    BY <2>1, <2>3, <2>4, <2>5
  <2> QED
    BY <2>2, <2>3, <2>4, <2>5, <2>6, <2>7 DEF ArrayInv
<1>12. ASSUME NEW t \in Tables, DropTable(t)
       PROVE  ArrayInv'
  <2>1. /\ DOMAIN tables' \subseteq DOMAIN tables
        /\ UNCHANGED <<open, file, cap, inTx, snapshot, emptied>>
    BY <1>12 DEF DropTable, Restrict, history
  <2>2. /\ IsFiniteSet(DOMAIN tables')
        /\ Cardinality(DOMAIN tables') <= Cardinality(DOMAIN tables)
        /\ Cardinality(DOMAIN tables') \in Nat /\ Cardinality(DOMAIN tables) \in Nat
    BY <2>1, FS_Subset, FS_CardinalityType DEF ArrayInv
  <2> QED
    BY <2>1, <2>2 DEF ArrayInv
<1>13. ASSUME NEW t \in Tables, NEW vals, NEW named, BeginInsert(t, vals, named)
       PROVE  ArrayInv'
  BY <1>13 DEF BeginInsert, history, ArrayInv
<1>14. ASSUME NEW t \in Tables, NEW where,
              \/ \E v \in Cells : BulkInsert(t, v)
              \/ Delete(t, where) \/ \E v \in Cells : Update(t, where, v)
       PROVE  ArrayInv'
  <2>1. DOMAIN tables' = DOMAIN tables /\ UNCHANGED <<open, file, cap, inTx, snapshot, emptied>>
    BY <1>14 DEF BulkInsert, Delete, Update, history
  <2> QED
    BY <2>1 DEF ArrayInv
<1>15. CASE UNCHANGED vars
  BY <1>15 DEF vars, mem, history, ArrayInv
<1> QED
  BY <1>2, <1>3, <1>4, <1>5, <1>5a, <1>5b, <1>6, <1>7, <1>8, <1>9, <1>10, <1>11, <1>12, <1>13, <1>14, <1>15
     DEF Next

(* CREATE TABLE never writes past the end of db->tables, except on a handle whose
   last rollback left it without tables, where the array has no slot.        *)
THEOREM ArrayInBoundsTheorem == Spec => []ArrayInBounds
<1>1. ArrayInv => ArrayInBounds
  BY DEF ArrayInv, ArrayInBounds
<1> QED
  BY <1>1, ArrayInvInit, ArrayInvStep, PTL DEF Spec

-----------------------------------------------------------------------------
(* Types. *)

(* A table has finitely many rows, or a DELETE could not count what it deletes. *)
FiniteTable(T) == IsTable(T) /\ IsFiniteSet(DOMAIN T.rows)

Database(c) == DOMAIN c \subseteq Tables /\ \A t \in DOMAIN c : FiniteTable(c[t])

(* With the types goes the statement under way: its table is there, and the rows
   to come are rows.                                                         *)
TypeInv ==
  /\ open \in BOOLEAN /\ inTx \in BOOLEAN
  /\ pc \in {"idle", "insert", "fopen", "save", "close"}
  /\ after \in {"idle", "close", "free"}
  /\ cap \in Nat /\ faults \in Nat
  /\ Database(tables) /\ Database(file.tabs)
  /\ saved # <<>> => Database(saved[1])
  /\ inTx => Database(snapshot[1]) /\ snapshot # <<>>
  /\ ~inTx => snapshot = <<>>
  /\ ~open => tables = NoTables /\ ~inTx /\ pc = "idle"
  /\ pc = "insert" => stmt.table \in DOMAIN tables /\ stmt.todo \in Seq(Cells)

LEMMA TableFields ==
  ASSUME NEW uniq \in BOOLEAN, NEW notNull \in BOOLEAN, NEW default \in Cells, NEW R,
         NEW next \in Nat, NEW count \in Int,
         R \in [DOMAIN R -> Cells], DOMAIN R \subseteq Nat, IsFiniteSet(DOMAIN R)
  PROVE  FiniteTable([uniq |-> uniq, notNull |-> notNull, default |-> default, rows |-> R,
                      next |-> next, count |-> count])
  BY DEF FiniteTable, IsTable, Table

LEMMA FieldsOfTable ==
  ASSUME NEW T, FiniteTable(T)
  PROVE  /\ T = [uniq |-> T.uniq, notNull |-> T.notNull, default |-> T.default, rows |-> T.rows,
                 next |-> T.next, count |-> T.count]
         /\ T.uniq \in BOOLEAN /\ T.notNull \in BOOLEAN /\ T.default \in Cells
         /\ T.rows \in [DOMAIN T.rows -> Cells]
         /\ DOMAIN T.rows \subseteq Nat /\ IsFiniteSet(DOMAIN T.rows)
         /\ T.next \in Nat /\ T.count \in Int
  BY DEF FiniteTable, IsTable, Table

LEMMA NullIsCell == NoVal \in Cells
  BY DEF Cells

LEMMA NoRowsType ==
  /\ NoRows \in [DOMAIN NoRows -> Cells] /\ DOMAIN NoRows \subseteq Nat
  /\ IsFiniteSet(DOMAIN NoRows)
<1>1. DOMAIN NoRows = {} /\ NoRows \in [DOMAIN NoRows -> Cells]
  BY DEF NoRows
<1> QED
  BY <1>1, FS_EmptySet

(* Some of the rows of a table. *)
LEMMA SomeRows ==
  ASSUME NEW T, FiniteTable(T), NEW D, D \subseteq DOMAIN T.rows
  PROVE  LET R == Restrict(T.rows, D)
         IN  R \in [DOMAIN R -> Cells] /\ DOMAIN R \subseteq Nat /\ IsFiniteSet(DOMAIN R)
<1> DEFINE R == Restrict(T.rows, D)
<1>1. DOMAIN R = D
  BY DEF Restrict
<1>2. IsFiniteSet(D)
  BY FieldsOfTable, FS_Subset
<1>3. R \in [DOMAIN R -> Cells] /\ DOMAIN R \subseteq Nat
  BY FieldsOfTable DEF Restrict
<1> QED
  BY <1>1, <1>2, <1>3

(* Some of the rows of a table and a broken one. *)
LEMMA RowsAndBroken ==
  ASSUME NEW T, FiniteTable(T), NEW D \in SUBSET DOMAIN T.rows, NEW m \in Nat, NEW v \in Cells,
         NEW B, B = [r \in D \cup {m} |-> IF r = m THEN v ELSE T.rows[r]]
  PROVE  B \in [DOMAIN B -> Cells] /\ DOMAIN B \subseteq Nat /\ IsFiniteSet(DOMAIN B)
<1>1. DOMAIN B = D \cup {m}
  OBVIOUS
<1>2. IsFiniteSet(D \cup {m})
  BY FieldsOfTable, FS_Subset, FS_AddElement
<1>3. B \in [DOMAIN B -> Cells] /\ DOMAIN B \subseteq Nat
  BY FieldsOfTable
<1> QED
  BY <1>1, <1>2, <1>3

(* xsdb_load makes a table of whatever it can read. *)
LEMMA CutIsTable ==
  ASSUME NEW U, FiniteTable(U), NEW C \in CutTable(U)
  PROVE  FiniteTable(C)
<1>0. U = [uniq |-> U.uniq, notNull |-> U.notNull, default |-> U.default,
           rows |-> U.rows, next |-> U.next, count |-> U.count]
  BY FieldsOfTable
<1> DEFINE before(n) == {r \in DOMAIN U.rows : r < n}
           ending(n, m, v) == [r \in before(n) \cup {m} |-> IF r = m THEN v ELSE U.rows[r]]
<1>1. ASSUME NEW uniq \in BOOLEAN, NEW notNull \in BOOLEAN,
             C = Table(uniq, notNull, NoVal, NoRows, 0, 0)
      PROVE  FiniteTable(C)
  <2>1. C = [uniq |-> uniq, notNull |-> notNull, default |-> NoVal, rows |-> NoRows,
             next |-> 0, count |-> 0]
    BY <1>1 DEF Table
  <2> QED
    BY <2>1, NullIsCell, NoRowsType, TableFields
<1>2. ASSUME NEW c \in {0, U.count}, C = [U EXCEPT !.rows = NoRows, !.count = c]
      PROVE  FiniteTable(C)
  <2>1. C = [uniq |-> U.uniq, notNull |-> U.notNull, default |-> U.default, rows |-> NoRows,
             next |-> U.next, count |-> c]
    BY <1>0, <1>2
  <2>2. c \in Int
    BY FieldsOfTable
  <2> QED
    BY <2>1, <2>2, FieldsOfTable, NoRowsType, TableFields
<1>3. ASSUME NEW n \in DOMAIN U.rows, NEW m \in {0, n}, NEW v \in Cells,
             C = [U EXCEPT !.rows = ending(n, m, v)]
      PROVE  FiniteTable(C)
  <2>1. PICK D \in SUBSET DOMAIN U.rows : D = before(n)
    OBVIOUS
  <2> DEFINE B == [r \in D \cup {m} |-> IF r = m THEN v ELSE U.rows[r]]
  <2>2. C = [U EXCEPT !.rows = B]
    BY <1>3, <2>1
  <2>3. m \in Nat
    BY FieldsOfTable
  <2>4. PICK R : R = B
    OBVIOUS
  <2>5. R \in [DOMAIN R -> Cells] /\ DOMAIN R \subseteq Nat /\ IsFiniteSet(DOMAIN R)
    BY <2>3, <2>4, RowsAndBroken
  <2>6. C = [U EXCEPT !.rows = R]
    BY <2>2, <2>4
  <2> HIDE DEF before, ending, B
  <2>7. C = [uniq |-> U.uniq, notNull |-> U.notNull, default |-> U.default, rows |-> R,
             next |-> U.next, count |-> U.count]
    BY <1>0, <2>6
  <2> QED
    BY <2>5, <2>7, FieldsOfTable, TableFields
<1>4. \/ C = Table(FALSE, FALSE, NoVal, NoRows, 0, 0)
      \/ C = Table(FALSE, U.notNull, NoVal, NoRows, 0, 0)
      \/ C = Table(U.uniq, U.notNull, NoVal, NoRows, 0, 0)
      \/ C \in {[U EXCEPT !.rows = NoRows, !.count = c] : c \in {0, U.count}}
      \/ C \in UNION {{[U EXCEPT !.rows = ending(n, 0, NoVal)]} \cup
                     {[U EXCEPT !.rows = ending(n, n, v)] : v \in Cells} : n \in DOMAIN U.rows}
  BY DEF CutTable
<1>5. U.uniq \in BOOLEAN /\ U.notNull \in BOOLEAN
  BY FieldsOfTable
<1> HIDE DEF before, ending
<1>6. ASSUME C \in UNION {{[U EXCEPT !.rows = ending(n, 0, NoVal)]} \cup
                         {[U EXCEPT !.rows = ending(n, n, v)] : v \in Cells} : n \in DOMAIN U.rows}
      PROVE  FiniteTable(C)
  <2>1. PICK n \in DOMAIN U.rows :
          \/ C = [U EXCEPT !.rows = ending(n, 0, NoVal)]
          \/ \E v \in Cells : C = [U EXCEPT !.rows = ending(n, n, v)]
    BY <1>6
  <2> QED
    BY <1>3, <2>1, NullIsCell
<1>7. ASSUME C \in {[U EXCEPT !.rows = NoRows, !.count = c] : c \in {0, U.count}}
      PROVE  FiniteTable(C)
  BY <1>2, <1>7
<1> QED
  BY <1>1, <1>4, <1>5, <1>6, <1>7

LEMMA NoTablesDatabase == Database(NoTables)
  BY DEF Database, NoTables

(* One table of a database changes. *)
LEMMA TableReplaced ==
  ASSUME NEW c, Database(c), NEW t \in DOMAIN c, NEW T, FiniteTable(T)
  PROVE  Database([c EXCEPT ![t] = T])
  BY DEF Database

(* What a file records of tables are tables. *)
LEMMA RecordedIsDatabase ==
  ASSUME NEW c, Database(c)
  PROVE  Database(Recorded(c)) /\ DOMAIN Recorded(c) = DOMAIN c
<1>1. DOMAIN Recorded(c) = DOMAIN c
  BY DEF Recorded
<1>2. ASSUME NEW t \in DOMAIN c PROVE FiniteTable(Recorded(c)[t])
  <2> DEFINE T == c[t]
  <2>1. FiniteTable(T)
    BY DEF Database
  <2>2. Recorded(c)[t] = [T EXCEPT !.default = NoVal]
    BY DEF Recorded
  <2> HIDE DEF T
  <2>3. Recorded(c)[t] = [uniq |-> T.uniq, notNull |-> T.notNull, default |-> NoVal,
                          rows |-> T.rows, next |-> T.next, count |-> T.count]
    BY <2>1, <2>2, FieldsOfTable
  <2> QED
    BY <2>1, <2>3, NullIsCell, FieldsOfTable, TableFields
<1> QED
  BY <1>1, <1>2 DEF Database

(* Whatever a broken save leaves behind is read as tables. *)
LEMMA TornIsDatabase ==
  ASSUME NEW c, Database(c), NEW f \in TornFiles(c)
  PROVE  Database(f.tabs)
<1>1. CASE f \in {Emptied, Torn(NoTables)}
  BY <1>1, NoTablesDatabase DEF Emptied, Torn
<1>2. ASSUME NEW D \in SUBSET DOMAIN c,
             NEW g \in {Restrict(Recorded(c), D)} \cup CutContents(Restrict(Recorded(c), D)),
             f = Torn(g)
      PROVE  Database(f.tabs)
  <2>1. Database(Restrict(Recorded(c), D))
    BY RecordedIsDatabase DEF Database, Restrict
  <2>2. ASSUME NEW b, Database(b), NEW h \in CutContents(b) PROVE Database(h)
    <3>1. PICK t \in DOMAIN b : \E T \in CutTable(b[t]) : h = [b EXCEPT ![t] = T]
      BY <2>2 DEF CutContents
    <3>2. PICK T \in CutTable(b[t]) : h = [b EXCEPT ![t] = T]
      BY <3>1
    <3>3. FiniteTable(b[t])
      BY <2>2 DEF Database
    <3>4. FiniteTable(T)
      BY <3>3, CutIsTable
    <3> QED
      BY <2>2, <3>2, <3>4, TableReplaced
  <2>3. Database(g)
    BY <2>1, <2>2
  <2> QED
    BY <1>2, <2>3 DEF Torn
<1> QED
  BY <1>1, <1>2 DEF TornFiles

LEMMA DatabaseFinite ==
  ASSUME NEW c, Database(c)
  PROVE  Cardinality(DOMAIN c) \in Nat
<1>1. DOMAIN c \subseteq Tables
  BY DEF Database
<1>2. IsFiniteSet(DOMAIN c)
  BY <1>1, XSDBAssumption, FS_Subset
<1> QED
  BY <1>2, FS_CardinalityType

(* The statements make tables of tables. *)
LEMMA RowAddedType ==
  ASSUME NEW T, FiniteTable(T), NEW v \in Cells
  PROVE  FiniteTable(RowAdded(T, v))
<1> DEFINE R == [r \in DOMAIN T.rows \cup {T.next} |->
                   IF r \in DOMAIN T.rows THEN T.rows[r] ELSE v]
<1>1. R \in [DOMAIN R -> Cells] /\ DOMAIN R \subseteq Nat
  BY FieldsOfTable
<1>2. IsFiniteSet(DOMAIN R)
  BY FieldsOfTable, FS_AddElement
<1>3. RowAdded(T, v) = [uniq |-> T.uniq, notNull |-> T.notNull, default |-> T.default,
                        rows |-> R, next |-> T.next + 1, count |-> T.count + 1]
  <2>1. RowAdded(T, v) = [T EXCEPT !.next = T.next + 1, !.count = T.count + 1, !.rows = R]
    BY DEF RowAdded
  <2>2. T = [uniq |-> T.uniq, notNull |-> T.notNull, default |-> T.default,
             rows |-> T.rows, next |-> T.next, count |-> T.count]
    BY FieldsOfTable
  <2> HIDE DEF R
  <2> QED
    BY <2>1, <2>2
<1> HIDE DEF R
<1>4. T.next + 1 \in Nat /\ T.count + 1 \in Int
  BY FieldsOfTable
<1> QED
  BY <1>1, <1>2, <1>3, <1>4, FieldsOfTable, TableFields

LEMMA WithRowType ==
  ASSUME NEW T, FiniteTable(T), NEW v \in Cells
  PROVE  FiniteTable(WithRow(T, v))
<1>1. CASE Accepts(T, v)
  BY <1>1, RowAddedType DEF WithRow
<1>2. CASE ~Accepts(T, v)
  <2>1. WithRow(T, v) = [uniq |-> T.uniq, notNull |-> T.notNull, default |-> T.default,
                         rows |-> T.rows, next |-> T.next + 1, count |-> T.count]
    BY <1>2, FieldsOfTable DEF WithRow
  <2>2. T.next + 1 \in Nat
    BY FieldsOfTable
  <2> QED
    BY <2>1, <2>2, FieldsOfTable, TableFields
<1> QED
  BY <1>1, <1>2

LEMMA WithoutType ==
  ASSUME NEW T, FiniteTable(T), NEW where
  PROVE  FiniteTable(Without(T, where))
<1> DEFINE gone == Matching(T, where)
           R == Restrict(T.rows, DOMAIN T.rows \ gone)
           n == IF where = Cells THEN 0 ELSE T.count - Cardinality(gone)
<1>1. gone \subseteq DOMAIN T.rows
  BY DEF Matching
<1>2. Cardinality(gone) \in Nat
  BY <1>1, FieldsOfTable, FS_Subset, FS_CardinalityType
<1>3. R \in [DOMAIN R -> Cells] /\ DOMAIN R \subseteq Nat /\ IsFiniteSet(DOMAIN R)
  BY SomeRows
<1>4. Without(T, where) = [uniq |-> T.uniq, notNull |-> T.notNull, default |-> T.default,
                           rows |-> R, next |-> T.next, count |-> n]
  BY DEF Without, Table
<1> HIDE DEF gone, R
<1>5. n \in Int
  BY <1>2, FieldsOfTable
<1> HIDE DEF n
<1> QED
  BY <1>3, <1>4, <1>5, FieldsOfTable, TableFields

LEMMA UpdatedType ==
  ASSUME NEW T, FiniteTable(T), NEW where, NEW v \in Cells
  PROVE  FiniteTable(Updated(T, where, v))
<1> DEFINE R == [r \in DOMAIN T.rows |-> IF r \in Matching(T, where) THEN v ELSE T.rows[r]]
<1>1. R \in [DOMAIN R -> Cells] /\ DOMAIN R = DOMAIN T.rows
  BY FieldsOfTable
<1>2. Updated(T, where, v) = [uniq |-> T.uniq, notNull |-> T.notNull, default |-> T.default,
                              rows |-> R, next |-> T.next, count |-> T.count]
  BY DEF Updated, Table
<1> HIDE DEF R
<1> QED
  BY <1>1, <1>2, FieldsOfTable, TableFields

LEMMA TypeInit == Init => TypeInv
<1> SUFFICES ASSUME Init PROVE TypeInv
  OBVIOUS
<1>1. file.tabs = NoTables
  BY DEF Init, Emptied
<1> QED
  BY <1>1, NoTablesDatabase, XSDBAssumption DEF Init, TypeInv

(* The handle goes, what is on disk stays. *)
LEMMA ForgetType ==
  ASSUME TypeInv, ForgetHandle, Database(file'.tabs), saved' # <<>> => Database(saved'[1]),
         faults' \in Nat
  PROVE  TypeInv'
  BY NoTablesDatabase, XSDBAssumption DEF ForgetHandle, TypeInv

LEMMA TypeStep == TypeInv /\ [Next]_vars => TypeInv'
<1> SUFFICES ASSUME TypeInv, [Next]_vars PROVE TypeInv'
  OBVIOUS
(* A statement leaves everything but the tables alone. *)
<1>a. ASSUME Idle, Database(tables'), cap' \in Nat,
             UNCHANGED <<open, inTx, snapshot, pc, after, file, saved, faults>>
      PROVE  TypeInv'
  BY <1>a DEF TypeInv, Idle
<1>1. CASE Open
  <2> DEFINE held == IF file.whole THEN NoTables ELSE file.tabs
  <2>1. /\ ~open /\ open' = TRUE /\ tables' \in {NoTables, file.tabs}
        /\ file' \in {file, Whole(held)} \cup TornFiles(held)
        /\ saved' \in {saved, <<>>} /\ faults' \in {faults, faults + 1}
        /\ UNCHANGED <<inTx, snapshot, pc, stmt, after>>
        /\ cap' = IF Cardinality(DOMAIN tables') > InitCap
                  THEN Cardinality(DOMAIN tables') ELSE InitCap
    BY <1>1 DEF Open, OpenAs
  <2>2. Database(tables')
    BY <2>1, NoTablesDatabase DEF TypeInv
  <2>3. cap' \in Nat
    BY <2>1, <2>2, DatabaseFinite, XSDBAssumption
  <2>4. Database(file'.tabs)
    <3>1. Database(held)
      BY NoTablesDatabase DEF TypeInv
    <3> HIDE DEF held
    <3> QED
      BY <2>1, <3>1, TornIsDatabase DEF TypeInv, Whole
  <2> QED
    BY <2>1, <2>2, <2>3, <2>4 DEF TypeInv
<1>2. CASE Crash
  <2>1. Database(file'.tabs)
    BY <1>2, TornIsDatabase DEF Crash, TypeInv
  <2> QED
    BY <1>2, <2>1, ForgetType DEF Crash, TypeInv
<1>3. ASSUME open, ReturnFromSave, Database(file'.tabs),
             saved' # <<>> => Database(saved'[1]), faults' \in Nat
      PROVE  TypeInv'
  <2>1. CASE ForgetHandle
    BY <1>3, <2>1, ForgetType
  <2>2. CASE after # "free" /\ pc' = after /\ after' = "idle"
             /\ UNCHANGED <<open, tables, cap, inTx, snapshot, stmt, emptied>>
    BY <1>3, <2>2 DEF TypeInv
  <2> QED
    BY <1>3, <2>1, <2>2 DEF ReturnFromSave
<1>4. CASE SaveEnds
  <2>1. file'.tabs = Recorded(tables) /\ saved' = <<tables>>
    BY <1>4 DEF SaveEnds, Whole
  <2>2. Database(file'.tabs) /\ Database(saved'[1])
    BY <2>1, RecordedIsDatabase DEF TypeInv
  <2> QED
    BY <1>3, <1>4, <2>2 DEF SaveEnds, TypeInv
<1>5. CASE SaveFails
  <2>1. Database(file'.tabs)
    BY <1>5, TornIsDatabase DEF SaveFails, TypeInv
  <2> QED
    BY <1>3, <1>5, <2>1 DEF SaveFails, TypeInv
<1>5a. CASE FopenFails
  BY <1>3, <1>5a DEF FopenFails, TypeInv
<1>5b. CASE EmptyFile
  <2>1. /\ open /\ file'.tabs = NoTables /\ saved' = <<>> /\ pc' = "save"
        /\ UNCHANGED <<open, tables, cap, inTx, snapshot, stmt, after, faults>>
    BY <1>5b DEF EmptyFile, Emptied
  <2> QED
    BY <2>1, NoTablesDatabase DEF TypeInv
<1>6. CASE Commit \/ CloseInTx
  <2>1. /\ Idle /\ pc' = "fopen"
        /\ after' \in {"idle", "close"} /\ inTx' = FALSE /\ snapshot' = <<>>
        /\ UNCHANGED <<open, tables, cap, stmt, file, saved, faults>>
    BY <1>6 DEF Commit, CloseInTx, EndTransaction, BeginSave, history
  <2> QED
    BY <2>1 DEF TypeInv, Idle
<1>7. CASE CloseSaves
  <2>1. /\ open /\ pc' = "fopen" /\ after' = "free"
        /\ UNCHANGED <<open, tables, cap, inTx, snapshot, stmt, file, saved, faults>>
    BY <1>7 DEF CloseSaves, BeginSave, history
  <2> QED
    BY <2>1 DEF TypeInv
<1>8. CASE Begin
  <2>1. /\ Idle /\ snapshot' = <<tables>> /\ inTx' = TRUE
        /\ UNCHANGED <<open, tables, cap, pc, stmt, after, file, saved, faults>>
    BY <1>8 DEF Begin, history
  <2>2. snapshot'[1] = tables /\ snapshot' # <<>>
    BY <2>1
  <2> QED
    BY <2>1, <2>2 DEF TypeInv, Idle
<1>9. CASE Rollback
  <2>1. /\ Idle /\ inTx /\ tables' = snapshot[1] /\ cap' = Cardinality(DOMAIN snapshot[1])
        /\ snapshot' = <<>> /\ inTx' = FALSE
        /\ UNCHANGED <<open, pc, stmt, after, file, saved, faults>>
    BY <1>9 DEF Rollback
  <2>2. Database(tables') /\ cap' \in Nat
    BY <2>1, DatabaseFinite DEF TypeInv
  <2> QED
    BY <2>1, <2>2 DEF TypeInv, Idle
<1>10. CASE InsertRow
  <2> DEFINE t == stmt.table
             v == Stored(tables[t], Head(stmt.todo), stmt.named)
  <2>0. t \in DOMAIN tables /\ Head(stmt.todo) \in Cells /\ Tail(stmt.todo) \in Seq(Cells)
    BY <1>10 DEF InsertRow, TypeInv
  <2>1. t \in DOMAIN tables /\ v \in Cells /\ Tail(stmt.todo) \in Seq(Cells)
    <3>1. tables[t].default \in Cells
      BY <2>0, FieldsOfTable DEF TypeInv, Database
    <3> QED
      BY <2>0, <3>1, StoredIsCell
  <2>2. /\ tables' = [tables EXCEPT ![t] = WithRow(tables[t], v)]
        /\ UNCHANGED <<open, cap, inTx, snapshot, after, file, saved, faults>> /\ open
        /\ \/ pc' = "insert" /\ stmt' = [stmt EXCEPT !.todo = Tail(stmt.todo)]
           \/ pc' = "idle"
    BY <1>10 DEF InsertRow, history
  <2>3. pc' = "insert" => stmt'.table = t /\ stmt'.todo \in Seq(Cells)
    <3> SUFFICES ASSUME pc' = "insert" PROVE stmt'.table = t /\ stmt'.todo \in Seq(Cells)
      OBVIOUS
    <3>1. stmt' = [stmt EXCEPT !.todo = Tail(stmt.todo)]
      BY <2>2
    <3>2. stmt.todo \in Seq(Cells)
      BY <1>10 DEF InsertRow, TypeInv
    <3> QED
      BY <2>1, <3>1, <3>2
  <2> HIDE DEF t, v
  <2>4. FiniteTable(WithRow(tables[t], v))
    BY <2>1, WithRowType DEF TypeInv, Database
  <2>5. Database(tables') /\ DOMAIN tables' = DOMAIN tables
    BY <2>1, <2>2, <2>4, TableReplaced DEF TypeInv
  <2>6. pc' = "insert" => stmt'.table \in DOMAIN tables' /\ stmt'.todo \in Seq(Cells)
    BY <2>1, <2>3, <2>5
  <2> QED
    BY <2>2, <2>5, <2>6 DEF TypeInv
<1>11. CASE InsertEnds
  BY <1>11 DEF InsertEnds, history, TypeInv
<1>12. ASSUME NEW t \in Tables, NEW s \in Schemas, CreateTable(t, s[1], s[2], s[3])
       PROVE  TypeInv'
  <2> DEFINE T == Table(s[1], s[2], s[3], NoRows, 1, 0)
  <2>1. s[1] \in BOOLEAN /\ s[2] \in BOOLEAN /\ s[3] \in Cells
    BY XSDBAssumption DEF Cells
  <2>2. FiniteTable(T)
    BY <2>1, TableCreated DEF GoodTable, FiniteTable
  <2>3. tables' = [u \in DOMAIN tables \cup {t} |-> IF u = t THEN T ELSE tables[u]]
    BY <1>12 DEF CreateTable
  <2> HIDE DEF T
  <2>4. Database(tables')
    BY <2>2, <2>3 DEF TypeInv, Database
  <2>5. cap' \in {cap, 2 * cap} /\ Idle
        /\ UNCHANGED <<open, inTx, snapshot, pc, after, file, saved, faults>>
    BY <1>12 DEF CreateTable, Grown, history
  <2>6. cap' \in Nat
    BY <2>5 DEF TypeInv
  <2> QED
    BY <1>a, <2>4, <2>5, <2>6
<1>13. ASSUME NEW t \in Tables, DropTable(t) PROVE TypeInv'
  <2>1. Database(tables')
    BY <1>13 DEF DropTable, Restrict, TypeInv, Database
  <2> QED
    BY <1>13, <1>a, <2>1 DEF DropTable, history, TypeInv
<1>14. ASSUME NEW t \in Tables, NEW n \in 1..2, NEW vals \in [1..n -> Cells],
              NEW named \in BOOLEAN, BeginInsert(t, vals, named)
       PROVE  TypeInv'
  <2>1. vals \in Seq(Cells)
    OBVIOUS
  <2>2. /\ Idle /\ t \in DOMAIN tables /\ stmt' = [table |-> t, named |-> named, todo |-> vals] /\ pc' = "insert"
        /\ UNCHANGED <<open, tables, cap, inTx, snapshot, after, file, saved, faults>>
    BY <1>14 DEF BeginInsert, history
  <2> QED
    BY <2>1, <2>2 DEF TypeInv, Idle
<1>15. ASSUME NEW t \in Tables, NEW where, NEW v \in Cells,
              BulkInsert(t, v) \/ Delete(t, where) \/ Update(t, where, v)
       PROVE  TypeInv'
  <2>1. Idle /\ t \in DOMAIN tables
        /\ UNCHANGED <<open, cap, inTx, snapshot, pc, after, file, saved, faults>>
    BY <1>15 DEF BulkInsert, Delete, Update, history
  <2>2. FiniteTable(tables[t])
    BY <2>1 DEF TypeInv, Database
  <2>3. PICK T : FiniteTable(T) /\ tables' = [tables EXCEPT ![t] = T]
    <3>1. /\ FiniteTable(RowAdded(tables[t], v))
          /\ FiniteTable(Without(tables[t], where))
          /\ FiniteTable(Updated(tables[t], where, v))
      BY <2>2, RowAddedType, WithoutType, UpdatedType
    <3> QED
      BY <1>15, <3>1 DEF BulkInsert, Delete, Update
  <2>4. Database(tables')
    BY <2>1, <2>3, TableReplaced DEF TypeInv
  <2> QED
    BY <1>a, <2>1, <2>4 DEF TypeInv
<1>16. CASE UNCHANGED vars
  BY <1>16 DEF vars, mem, history, TypeInv, Database
<1>17. Cells # {}
  BY DEF Cells
<1> QED
  BY <1>1, <1>2, <1>4, <1>5, <1>5a, <1>5b, <1>6, <1>7, <1>8, <1>9, <1>10, <1>11, <1>12, <1>13, <1>14, <1>15,
     <1>16, <1>17 DEF Next

(* Every variable has its type through crashes and torn files too: whatever
   xsdb_load reads of a broken file are tables, a handle that is gone holds
   nothing, and a snapshot exists exactly inside a transaction.              *)
THEOREM XSDBTypeCorrect == Spec => []TypeOK
<1>1. TypeInv => TypeOK
  <2>1. ASSUME NEW c, Database(c) PROVE IsContents(c)
    BY <2>1 DEF Database, IsContents, FiniteTable
  <2> QED
    BY <2>1 DEF TypeInv, TypeOK
<1> QED
  BY <1>1, TypeInit, TypeStep, PTL DEF Spec
=============================================================================
