-------------------------------- MODULE XSDB --------------------------------
(***************************************************************************)
(* The embedded database of db/xsdb.c: tables of rows under one handle,    *)
(* one optional transaction, a file rewritten in place by every save, and  *)
(* a process that may die between any two steps.                           *)
(*                                                                         *)
(* A table has one column, which may be NOT NULL and UNIQUE and may have a *)
(* DEFAULT.  The B-tree that holds the rows is module BTree; here a        *)
(* table's rows are a function from rowids to cells.  Left out because     *)
(* nothing reads them back: the indexes, and the log, which xsdb_open      *)
(* appends to and never replays.                                           *)
(***************************************************************************)
EXTENDS Integers, Sequences, FiniteSets, Functions

CONSTANTS
  Tables,     \* names a table can have
  Vals,       \* cells that are not NULL
  NoVal,      \* a NULL cell
  None,       \* no statement
  InitCap,    \* slots of a fresh table array, 8 in xsdb_open
  Schemas,    \* bound: <<UNIQUE, NOT NULL, DEFAULT>> a column is declared with
  MaxRowid,   \* bound: the last rowid each table hands out
  MaxFaults   \* bound: saves that fail and processes that die

ASSUME XSDBAssumption ==
  /\ NoVal \notin Vals
  /\ InitCap \in Nat \ {0}
  /\ Schemas \subseteq BOOLEAN \X BOOLEAN \X (Vals \cup {NoVal})
  /\ MaxRowid \in [Tables -> Nat]
  /\ MaxFaults \in Nat
  /\ IsFiniteSet(Tables)

VARIABLES
  open,       \* a handle is open
  tables,     \* db->tables, a function on the names in use
  cap,        \* db->table_cap
  inTx,       \* db->in_transaction
  snapshot,   \* db->snapshot: <<>>, or <<contents>>
  file,       \* what is on disk under db->path
  pc,         \* "idle", "insert" (in exec_insert), "fopen" and "save" (in
              \* xsdb_save, before and after the file is opened), "close" (in
              \* xsdb_close, between its two saves)
  stmt,       \* the INSERT being executed: its table, whether it names its
              \* columns, the rows to come
  after,      \* where the save in progress returns to
  \* History
  saved,      \* <<the tables in memory when the last save ended>>; <<>> once a
              \* later save or an open has emptied or overwritten the file
  relaxed,    \* names of tables that an UPDATE or a bulk insert has written
  emptied,    \* the last rollback of this handle left it without tables
  salvaged,   \* what could be read of a torn file has become a file of its own
  faults      \* failures so far

mem == <<open, tables, cap, inTx, snapshot, pc, stmt, after>>
history == <<saved, relaxed, emptied, salvaged, faults>>
vars == <<mem, file, history>>

Cells == Vals \cup {NoVal}

(* An XSDBTable: its column's constraints and default (NULL if it has none),
   its rows by rowid, next_rowid and row_count. *)
Table(uniq, notNull, default, rows, next, count) ==
  [uniq |-> uniq, notNull |-> notNull, default |-> default,
   rows |-> rows, next |-> next, count |-> count]

NoRows == [r \in {} |-> NoVal]

(* The contents of a database without tables. *)
NoTables == [t \in {} |-> t]

NoStmt == [table |-> None, named |-> FALSE, todo |-> <<>>]

(* What a file records of tables: everything but the defaults, which xsdb_save
   does not write and xsdb_load leaves zero. *)
Recorded(c) == [t \in DOMAIN c |-> [c[t] EXCEPT !.default = NoVal]]

(* A file that xsdb_save finished, one that breaks off after the magic number,
   and one it has just emptied; tabs is what xsdb_load reads from it. *)
Whole(c) == [whole |-> TRUE, magic |-> TRUE, tabs |-> c]
Torn(c) == [whole |-> FALSE, magic |-> TRUE, tabs |-> c]
Emptied == [whole |-> FALSE, magic |-> FALSE, tabs |-> NoTables]

Init ==
  /\ open = FALSE
  /\ tables = NoTables
  /\ cap = InitCap
  /\ inTx = FALSE
  /\ snapshot = <<>>
  /\ pc = "idle"
  /\ stmt = NoStmt
  /\ after = "idle"
  /\ file = Emptied   \* xsdb_load reads a file that is not there as an empty one
  /\ saved = <<NoTables>>
  /\ relaxed = {}
  /\ emptied = FALSE
  /\ salvaged = FALSE
  /\ faults = 0

Idle == open /\ pc = "idle"

-----------------------------------------------------------------------------
(* xsdb_save and the ways it ends. *)

(* The save is called; where it returns to. *)
BeginSave(back) ==
  /\ pc' = "fopen"
  /\ after' = back

(* What xsdb_load makes of a table whose record breaks off, U being its recorded
   form: constraints from the break on are zero, then the counters; a row it
   breaks off in has rowid 0 and no cells, or its rowid and whatever the broken
   cell reads as.  (A number that is cut is read as 0 or, its low bytes coming
   first, as itself; a row without cells is one of NULLs.) *)
CutTable(U) ==
  LET empty(uniq, notNull) == Table(uniq, notNull, NoVal, NoRows, 0, 0)
      before(n) == {r \in DOMAIN U.rows : r < n}
      ending(n, m, v) == [r \in before(n) \cup {m} |-> IF r = m THEN v ELSE U.rows[r]]
  IN  {empty(FALSE, FALSE), empty(FALSE, U.notNull), empty(U.uniq, U.notNull)} \cup
      {[U EXCEPT !.rows = NoRows, !.count = c] : c \in {0, U.count}} \cup
      UNION {{[U EXCEPT !.rows = ending(n, 0, NoVal)]} \cup
             {[U EXCEPT !.rows = ending(n, n, v)] : v \in Cells} : n \in DOMAIN U.rows}

CutContents(c) == UNION {{[c EXCEPT ![t] = T] : T \in CutTable(c[t])} : t \in DOMAIN c}

(* What a save of c that does not reach its end may leave behind: nothing, or
   some of the tables, and perhaps one of those cut short. *)
TornFiles(c) ==
  LET written(D) == Restrict(Recorded(c), D)
  IN  {Emptied, Torn(NoTables)} \cup
      {Torn(written(D)) : D \in SUBSET DOMAIN c \ {DOMAIN c}} \cup
      {Torn(g) : g \in UNION {CutContents(written(D)) : D \in SUBSET DOMAIN c}}

(* The handle is gone: freed, or lost with the process. *)
ForgetHandle ==
  /\ open' = FALSE
  /\ tables' = NoTables
  /\ cap' = InitCap
  /\ inTx' = FALSE
  /\ snapshot' = <<>>
  /\ pc' = "idle"
  /\ stmt' = NoStmt
  /\ after' = "idle"
  /\ emptied' = FALSE

(* The save returns to xsdb_commit, to xsdb_close before its own save, or to
   the end of xsdb_close. *)
ReturnFromSave ==
  \/ /\ after = "free"
     /\ ForgetHandle
  \/ /\ after # "free"
     /\ pc' = after
     /\ after' = "idle"
     /\ UNCHANGED <<open, tables, cap, inTx, snapshot, stmt, emptied>>

(* fopen(path, "wb") empties the file; nothing is flushed yet. *)
EmptyFile ==
  /\ open /\ pc = "fopen"
  /\ file' = Emptied
  /\ saved' = <<>>
  /\ pc' = "save"
  /\ UNCHANGED <<open, tables, cap, inTx, snapshot, stmt, after,
                 relaxed, emptied, salvaged, faults>>

(* fopen fails and the old file stays; commit and close ignore what xsdb_save
   returns. *)
FopenFails ==
  /\ faults < MaxFaults
  /\ faults' = faults + 1
  /\ open /\ pc = "fopen"
  /\ ReturnFromSave
  /\ UNCHANGED <<file, saved, relaxed, salvaged>>

SaveEnds ==
  /\ open /\ pc = "save"
  /\ file' = Whole(Recorded(tables))
  /\ saved' = <<tables>>
  /\ ReturnFromSave
  /\ UNCHANGED <<relaxed, salvaged, faults>>

(* A write fails, which commit and close ignore too. *)
SaveFails ==
  /\ faults < MaxFaults
  /\ faults' = faults + 1
  /\ open /\ pc = "save"
  /\ file' \in TornFiles(tables)
  /\ ReturnFromSave
  /\ UNCHANGED <<saved, relaxed, salvaged>>

(* The process dies; only the disk is left. *)
Crash ==
  /\ faults < MaxFaults
  /\ faults' = faults + 1
  /\ open
  /\ file' \in IF pc = "save" THEN TornFiles(tables) ELSE {file}
  /\ ForgetHandle
  /\ UNCHANGED <<saved, relaxed, salvaged>>

-----------------------------------------------------------------------------
(* xsdb_open, xsdb_close, xsdb_load. *)

(* xsdb_open loads the file into a second handle, takes its tables over and
   closes it; that close saves a handle that has no tables any more.  When
   xsdb_load finds the file torn it closes, and so saves, what it has read,
   and the database opens without tables.  That save may fail like any other.
   (The nameless tables it adds for the ones that could not be read are out of
   every statement's reach and left out; a crash inside it counts as its
   failure and a crash right after it.) *)
OpenAs(taken) ==
  /\ ~open
  /\ open' = TRUE
  /\ LET held == IF file.whole THEN NoTables ELSE file.tabs   \* at the close
     IN  \/ /\ file' = IF file.magic THEN Whole(held) ELSE file
            /\ UNCHANGED faults
         \/ /\ file.magic /\ faults < MaxFaults
            /\ file' \in {file} \cup TornFiles(held)
            /\ faults' = faults + 1
  /\ tables' = IF file.whole THEN taken ELSE NoTables
  /\ saved' = IF file' = file THEN saved ELSE <<>>
  /\ salvaged' = (salvaged \/ (~file.whole /\ file'.whole))
  /\ cap' = IF Cardinality(DOMAIN tables') > InitCap
            THEN Cardinality(DOMAIN tables') ELSE InitCap
  /\ UNCHANGED <<inTx, snapshot, pc, stmt, after, relaxed, emptied>>

(* Mutant: the second handle is closed before its tables are taken over. *)
OpenClosesFirst == OpenAs(NoTables)

Open == OpenAs(file.tabs)

(* xsdb_commit, also the first half of a close: the log goes before the save. *)
EndTransaction(back) ==
  /\ inTx
  /\ inTx' = FALSE
  /\ snapshot' = <<>>
  /\ BeginSave(back)
  /\ UNCHANGED <<open, tables, cap, stmt, file, history>>

Commit == Idle /\ EndTransaction("idle")

(* xsdb_close commits a transaction that is still open, then saves. *)
CloseInTx == Idle /\ EndTransaction("close")

CloseSaves ==
  /\ open
  /\ pc = "close" \/ (pc = "idle" /\ ~inTx)
  /\ BeginSave("free")
  /\ UNCHANGED <<open, tables, cap, inTx, snapshot, stmt, file, history>>

-----------------------------------------------------------------------------
(* Transactions. *)

Begin ==
  /\ Idle /\ ~inTx
  /\ snapshot' = <<tables>>
  /\ inTx' = TRUE
  /\ UNCHANGED <<open, tables, cap, pc, stmt, after, file, history>>

(* Mutant: the snapshot is restored and kept. *)
RollbackKeepsSnapshot ==
  /\ Idle /\ inTx
  /\ tables' = snapshot[1]
  /\ cap' = Cardinality(DOMAIN snapshot[1])
  /\ inTx' = FALSE
  /\ UNCHANGED <<open, snapshot, pc, stmt, after, file, history>>

(* xsdb_rollback; snapshot_restore sizes the array to the tables it holds. *)
Rollback ==
  /\ Idle /\ inTx
  /\ tables' = snapshot[1]
  /\ cap' = Cardinality(DOMAIN snapshot[1])
  /\ snapshot' = <<>>
  /\ inTx' = FALSE
  /\ emptied' = (DOMAIN snapshot[1] = {})
  /\ UNCHANGED <<open, pc, stmt, after, file, saved, relaxed, salvaged, faults>>

-----------------------------------------------------------------------------
(* Statements. *)

(* Growing a table array of n slots that is full. *)
Grown(n) == 2 * n

(* An array without slots stays so; the table is then written past its end,
   or the process dies of it (Crash). *)
CreateTable(t, uniq, notNull, default) ==
  /\ Idle /\ t \notin DOMAIN tables
  /\ cap' = IF Cardinality(DOMAIN tables) >= cap THEN Grown(cap) ELSE cap
  /\ tables' = [u \in DOMAIN tables \cup {t} |->
                  IF u = t THEN Table(uniq, notNull, default, NoRows, 1, 0)
                  ELSE tables[u]]
  /\ UNCHANGED <<open, inTx, snapshot, pc, stmt, after, file, history>>

DropTable(t) ==
  /\ Idle /\ t \in DOMAIN tables
  /\ tables' = Restrict(tables, DOMAIN tables \ {t})
  /\ UNCHANGED <<open, cap, inTx, snapshot, pc, stmt, after, file, history>>

(* INSERT INTO t VALUES ..., or with the column named. *)
BeginInsert(t, vals, named) ==
  /\ Idle /\ t \in DOMAIN tables
  /\ tables[t].next + Len(vals) <= MaxRowid[t] + 1
  /\ stmt' = [table |-> t, named |-> named, todo |-> vals]
  /\ pc' = "insert"
  /\ UNCHANGED <<open, tables, cap, inTx, snapshot, after, file, history>>

(* Mutant: uniqueness is checked against all rows but the newest. *)
AcceptsNextToLast(T, v) ==
  /\ T.notNull => v # NoVal
  /\ T.uniq /\ v # NoVal => \A r \in DOMAIN T.rows : r < T.next - 1 => T.rows[r] # v

(* The cell an INSERT of v writes: the default fills in for a NULL, and for a
   column the statement leaves out, only in an INSERT that names columns. *)
Stored(T, v, named) == IF named /\ v = NoVal THEN T.default ELSE v

(* The constraints exec_insert checks against the rows already there. *)
Accepts(T, v) ==
  /\ T.notNull => v # NoVal
  /\ T.uniq /\ v # NoVal => \A r \in DOMAIN T.rows : T.rows[r] # v

(* The table with one more row; what xsdb_btree_insert returns is not looked at. *)
RowAdded(T, v) ==
  [T EXCEPT !.next = @ + 1, !.count = @ + 1,
            !.rows = [r \in DOMAIN T.rows \cup {T.next} |->
                        IF r \in DOMAIN T.rows THEN T.rows[r] ELSE v]]

(* The table after one row of an INSERT; a rowid is used up even when the row
   is refused. *)
WithRow(T, v) == IF Accepts(T, v) THEN RowAdded(T, v) ELSE [T EXCEPT !.next = @ + 1]

(* One turn of the loop over the rows; a refused row ends the statement and
   leaves the rows before it where they are. *)
InsertRow ==
  /\ open /\ pc = "insert" /\ stmt.todo # <<>>
  /\ LET t == stmt.table
         v == Stored(tables[t], Head(stmt.todo), stmt.named)
         more == Accepts(tables[t], v)
     IN  /\ tables' = [tables EXCEPT ![t] = WithRow(@, v)]
         /\ pc' = IF more THEN "insert" ELSE "idle"
         /\ stmt' = IF more THEN [stmt EXCEPT !.todo = Tail(@)] ELSE NoStmt
  /\ UNCHANGED <<open, cap, inTx, snapshot, after, file, history>>

InsertEnds ==
  /\ open /\ pc = "insert" /\ stmt.todo = <<>>
  /\ pc' = "idle"
  /\ stmt' = NoStmt
  /\ UNCHANGED <<open, tables, cap, inTx, snapshot, after, file, history>>

(* xsdb_bulk_insert, a row at a time: it knows no defaults and no constraints. *)
BulkInsert(t, v) ==
  /\ Idle /\ t \in DOMAIN tables
  /\ tables[t].next <= MaxRowid[t]
  /\ tables' = [tables EXCEPT ![t] = RowAdded(@, v)]
  /\ relaxed' = relaxed \cup {t}
  /\ UNCHANGED <<open, cap, inTx, snapshot, pc, stmt, after, file,
                 saved, emptied, salvaged, faults>>

(* Rows a WHERE clause selects: the ones with cell w, or all. *)
Matching(T, where) == {r \in DOMAIN T.rows : T.rows[r] \in where}

(* exec_update writes the cells and checks no constraint. *)
Updated(T, where, v) ==
  Table(T.uniq, T.notNull, T.default,
        [r \in DOMAIN T.rows |-> IF r \in Matching(T, where) THEN v ELSE T.rows[r]],
        T.next, T.count)

Update(t, where, v) ==
  /\ Idle /\ t \in DOMAIN tables
  /\ tables' = [tables EXCEPT ![t] = Updated(@, where, v)]
  /\ relaxed' = IF Matching(tables[t], where) = {} THEN relaxed ELSE relaxed \cup {t}
  /\ UNCHANGED <<open, cap, inTx, snapshot, pc, stmt, after, file,
                 saved, emptied, salvaged, faults>>

(* Mutant: row_count is reset when the tree is dropped, and not otherwise. *)
WithoutCounting(T, where) ==
  [T EXCEPT !.rows = Restrict(@, DOMAIN @ \ Matching(T, where)),
            !.count = IF where = Cells THEN 0 ELSE @]

(* What exec_delete leaves of a table: without a WHERE clause it drops the
   tree, else it deletes row by row; rowids are not given back. *)
Without(T, where) ==
  LET gone == Matching(T, where)
  IN  Table(T.uniq, T.notNull, T.default, Restrict(T.rows, DOMAIN T.rows \ gone), T.next,
            IF where = Cells THEN 0 ELSE T.count - Cardinality(gone))

Delete(t, where) ==
  /\ Idle /\ t \in DOMAIN tables
  /\ tables' = [tables EXCEPT ![t] = Without(@, where)]
  /\ UNCHANGED <<open, cap, inTx, snapshot, pc, stmt, after, file, history>>

-----------------------------------------------------------------------------
Next ==
  \/ Open \/ Crash \/ EmptyFile \/ FopenFails \/ SaveEnds \/ SaveFails
  \/ Commit \/ CloseInTx \/ CloseSaves \/ Begin \/ Rollback
  \/ InsertRow \/ InsertEnds
  \/ \E t \in Tables :
       \/ \E s \in Schemas : CreateTable(t, s[1], s[2], s[3])
       \/ DropTable(t)
       \/ \E n \in 1..2 : \E vals \in [1..n -> Cells], named \in BOOLEAN :
            BeginInsert(t, vals, named)
       \/ \E v \in Cells : BulkInsert(t, v)
       \/ \E where \in {{w} : w \in Cells} \cup {Cells} :
            \/ Delete(t, where)
            \/ \E v \in Cells : Update(t, where, v)

Spec == Init /\ [][Next]_vars

-----------------------------------------------------------------------------
(* Properties. *)

IsTable(T) ==
  /\ T = Table(T.uniq, T.notNull, T.default, T.rows, T.next, T.count)
  /\ T.uniq \in BOOLEAN /\ T.notNull \in BOOLEAN /\ T.default \in Cells
  /\ T.rows \in [DOMAIN T.rows -> Cells]
  /\ DOMAIN T.rows \subseteq Nat
  /\ T.next \in Nat
  /\ T.count \in Int

IsContents(c) == DOMAIN c \subseteq Tables /\ \A t \in DOMAIN c : IsTable(c[t])

(* Every variable has its type; a handle that is not open holds nothing, a
   snapshot exists exactly inside a transaction. *)
TypeOK ==
  /\ open \in BOOLEAN /\ inTx \in BOOLEAN
  /\ pc \in {"idle", "insert", "fopen", "save", "close"}
  /\ after \in {"idle", "close", "free"}
  /\ cap \in Nat /\ faults \in Nat
  /\ IsContents(tables)
  /\ snapshot # <<>> => IsContents(snapshot[1])
  /\ saved # <<>> => IsContents(saved[1])
  /\ inTx = (snapshot # <<>>)
  /\ ~open => tables = NoTables /\ ~inTx /\ pc = "idle"
  /\ IsContents(file.tabs)

(* xsdb_integrity_check, and the reason the discarded result of
   xsdb_btree_insert does no harm: in every table, the snapshot and the file
   included, row_count is the number of rows and every rowid in use is below
   next_rowid, whatever was inserted, refused, deleted, rolled back, saved and
   loaded - as long as the remains of a torn file have not become a file. *)
SoundTable(T) ==
  /\ T.count = Cardinality(DOMAIN T.rows)
  /\ \A r \in DOMAIN T.rows : r < T.next

SoundContents(c) == \A t \in DOMAIN c : SoundTable(c[t])

Integrity ==
  ~salvaged =>
    /\ SoundContents(tables)
    /\ snapshot # <<>> => SoundContents(snapshot[1])
    /\ file.whole => SoundContents(file.tabs)

(* No NULL in a NOT NULL column, whether it was filled by a default or lost its
   default in a reopen, and no value twice in a UNIQUE one, the rows of one
   multi-row INSERT included, through rollback and reload, until an UPDATE or a
   bulk insert (which check nothing) or a torn file has interfered. *)
Constrained(T) ==
  /\ T.notNull => \A r \in DOMAIN T.rows : T.rows[r] # NoVal
  /\ T.uniq => \A r, s \in DOMAIN T.rows :
                 r # s => T.rows[r] = NoVal \/ T.rows[r] # T.rows[s]

ConstraintsHold ==
  ~salvaged => \A t \in DOMAIN tables \ relaxed : Constrained(tables[t])

(* CREATE TABLE stays inside db->tables on every handle but one whose last
   rollback left it without tables; of that one the array has no slot, and
   doubling leaves it so. *)
ArrayInBounds ==
  IF emptied THEN cap = 0 ELSE Cardinality(DOMAIN tables) <= cap

(* All or nothing: xsdb_open finds the tables of the last save that ended, but
   for their defaults, whether the handle was closed or the process died; or,
   when a later save emptied the file and did not end, or an open wrote to it,
   no tables at all.  Never a part of them, nor of an unfinished save - as long
   as the remains of a torn file have not become a file. *)
ReopenFindsSaved ==
  [][~open /\ open' =>
       /\ saved # <<>> => tables' = Recorded(saved[1])
       /\ saved = <<>> /\ ~salvaged => tables' = NoTables]_vars
=============================================================================
