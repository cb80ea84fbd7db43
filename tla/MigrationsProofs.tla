-------------------------- MODULE MigrationsProofs --------------------------
(* What the expand migrations promise the two application versions, for    *)
(* every number of rows and indexes and every number of faults.            *)
EXTENDS Migrations, TLAPS

Versions(r) == {row[r], tx[r]} \ {None}

(* A version that has a state got it from the trigger, or from a batch of  *)
(* the backfill: it equals the status.                                     *)
Mirrored == \A r \in Rows : \A v \in Versions(r) :
                v.state # Null => 8 \in applied /\ v.state = v.status

(* The runner gets beyond 0008 only with the trigger in place.             *)
TriggerFirst == runner \notin {"idle", "expand"} \/ 11 \in applied => 8 \in applied

(* An index that is neither absent nor built is the one being built, from  *)
(* the look for invalid ones on.                                           *)
Built ==
    /\ building # None => runner = "index"
    /\ runner = "index" => \A i \in Indexes : index[i] = "invalid" => building = i
    /\ 9 \in applied => \A i \in Indexes : index[i] = "valid"

(* 0011 keeps the lock over the scan, so what it saw is all there is.      *)
Scanned ==
    /\ lock = "held" <=> runner = "scan"
    /\ lock = "held" => NobodyWrites
    /\ 11 \in applied => \A r \in Rows : \A v \in Versions(r) : v.state # Null

IInv == TypeOK /\ Mirrored /\ TriggerFirst /\ Built /\ Scanned

-----------------------------------------------------------------------------
(* None is not a row version, and Null not a value.                        *)
LEMMA Marks ==
    /\ None \notin Version
    /\ \A i \in Indexes : None # i
    /\ Null \notin Values /\ Initial \in Values
BY MigrationAssumption DEF Version

(* With the trigger, an INSERT of either version stores the value in both  *)
(* columns; without it, v1.7's leaves state empty.                         *)
LEMMA InsertKeepsColumns ==
    ASSUME NEW s \in {Null, Initial}, s # Null => 8 \in applied
    PROVE  LET v == Inserted([status |-> Initial, state |-> s]) IN
           /\ v \in Version
           /\ v.state # Null => 8 \in applied /\ v.state = v.status
           /\ 8 \in applied => v.state # Null
BY Marks DEF Inserted, OnInsert, Version

(* So does an UPDATE of one of them, of a row whose columns agreed: only a *)
(* status that does not change leaves an empty state empty.                *)
LEMMA UpdateKeepsColumns ==
    ASSUME NEW old \in Version, old.state # Null => 8 \in applied /\ old.state = old.status,
           NEW x \in Values,
           NEW new \in {[old EXCEPT !.status = x], [old EXCEPT !.state = x]},
           new.state # old.state => 8 \in applied
    PROVE  /\ Updated(old, new) \in Version
           /\ Updated(old, new).state # Null
                => 8 \in applied /\ Updated(old, new).state = Updated(old, new).status
           /\ old.state # Null => Updated(old, new).state # Null
<1>1. CASE new = [old EXCEPT !.status = x]
  BY <1>1, Marks DEF Updated, OnUpdate, Version
<1>2. CASE new = [old EXCEPT !.state = x]
  BY <1>2, Marks DEF Updated, OnUpdate, Version
<1>3. QED BY <1>1, <1>2

-----------------------------------------------------------------------------
(* Writing a good version in a row's transaction keeps the invariant: the  *)
(* table lock is free, or the write could not start.                       *)
LEMMA OpenKeeps ==
    ASSUME IInv, NEW r \in Rows, NEW v \in Version, Open(r, v),
           v.state # Null => 8 \in applied /\ v.state = v.status,
           11 \in applied => v.state # Null
    PROVE  IInv'
<1> USE DEF IInv, Open
<1>1. TypeOK'
  BY DEF TypeOK
<1>2. \A q \in Rows : Versions(q)' \subseteq Versions(q) \cup (IF q = r THEN {v} ELSE {})
  BY DEF TypeOK, Versions
<1>3. Mirrored' /\ TriggerFirst'
  BY <1>2 DEF Mirrored, TriggerFirst
<1>4. Built'
  BY DEF Built
<1>5. Scanned'
  BY <1>2 DEF Scanned
<1>6. QED BY <1>1, <1>3, <1>4, <1>5

LEMMA ApplicationKeeps == ASSUME IInv, Application PROVE IInv'
<1>. PICK r \in Rows :
        \/ InsertStatus(r) \/ InsertState(r) \/ Commit(r) \/ Rollback(r)
        \/ \E v \in Values : WriteStatus(r, v) \/ WriteState(r, v)
  BY DEF Application
<1>. USE Marks DEF IInv
<1>1. CASE InsertStatus(r)
  BY <1>1, OpenKeeps, InsertKeepsColumns DEF InsertStatus, TriggerFirst
<1>2. CASE InsertState(r)
  BY <1>2, OpenKeeps, InsertKeepsColumns DEF InsertState, TriggerFirst
<1>3. ASSUME NEW x \in Values, WriteStatus(r, x) \/ WriteState(r, x) PROVE IInv'
  <2>. DEFINE old == row[r]
  <2>1. old \in Version /\ old \in Versions(r)
    BY <1>3 DEF WriteStatus, WriteState, Versions, TypeOK
  <2>2. old.state # Null => 8 \in applied /\ old.state = old.status
    BY <2>1 DEF Mirrored
  <2>3. 11 \in applied => 8 \in applied /\ old.state # Null
    BY <2>1 DEF TriggerFirst, Scanned
  <2>4. CASE WriteStatus(r, x)
    <3>. DEFINE new == [old EXCEPT !.status = x]
    <3>1. new.state = old.state BY <2>1 DEF Version
    <3>. HIDE DEF old, new
    <3>2. Open(r, Updated(old, new)) BY <2>4 DEF WriteStatus, old, new
    <3>3. new \in {[old EXCEPT !.status = x], [old EXCEPT !.state = x]} BY DEF new
    <3>4. /\ Updated(old, new) \in Version
          /\ Updated(old, new).state # Null
               => 8 \in applied /\ Updated(old, new).state = Updated(old, new).status
          /\ old.state # Null => Updated(old, new).state # Null
      BY <2>1, <2>2, <3>1, <3>3, UpdateKeepsColumns
    <3>5. QED BY <2>3, <3>2, <3>4, OpenKeeps
  <2>5. CASE WriteState(r, x)
    <3>. DEFINE new == [old EXCEPT !.state = x]
    <3>1. 8 \in applied BY <2>3, <2>5 DEF WriteState
    <3>. HIDE DEF old, new
    <3>2. Open(r, Updated(old, new)) BY <2>5 DEF WriteState, old, new
    <3>3. new \in {[old EXCEPT !.status = x], [old EXCEPT !.state = x]} BY DEF new
    <3>4. /\ Updated(old, new) \in Version
          /\ Updated(old, new).state # Null
               => 8 \in applied /\ Updated(old, new).state = Updated(old, new).status
          /\ old.state # Null => Updated(old, new).state # Null
      BY <2>1, <2>2, <3>1, <3>3, UpdateKeepsColumns
    <3>5. QED BY <2>3, <3>2, <3>4, OpenKeeps
  <2>6. QED BY <1>3, <2>4, <2>5
<1>4. CASE Commit(r) \/ Rollback(r)
  <2>1. \A q \in Rows : Versions(q)' \subseteq Versions(q)
    BY <1>4 DEF Commit, Rollback, TypeOK, Versions
  <2>2. TypeOK'
    BY <1>4 DEF Commit, Rollback, Fault, TypeOK
  <2>3. UNCHANGED <<applied, index, runner, building, lock>> /\ (NobodyWrites => NobodyWrites')
    BY <1>4 DEF Commit, Rollback, TypeOK, NobodyWrites
  <2>4. Mirrored' /\ TriggerFirst' /\ Built' /\ Scanned'
    BY <2>1, <2>3 DEF Mirrored, TriggerFirst, Built, Scanned
  <2>5. QED BY <2>2, <2>4
<1>5. QED BY <1>1, <1>2, <1>3, <1>4

-----------------------------------------------------------------------------
(* A step that leaves the rows alone and only adds to what is recorded.    *)
LEMMA RowsKept ==
    ASSUME Mirrored, UNCHANGED table, applied \subseteq applied'
    PROVE  Mirrored'
BY DEF Mirrored, Versions, table

LEMMA Entries ==
    ASSUME NEW f \in Files
    PROVE  /\ Entry(f) \in {"expand", "drop", "backfill", "constrain"}
           /\ Entry(f) = "expand" <=> f = 8
BY DEF Entry, Files

(* What a failed run leaves behind is an index in the catalog, at most.    *)
LEMMA FailKeeps == ASSUME IInv, Fail, UNCHANGED index, faults' \in Nat PROVE IInv'
<1>. USE DEF IInv, Fail, table
<1>1. TypeOK' BY DEF TypeOK
<1>2. Mirrored' BY RowsKept
<1>3. TriggerFirst' BY DEF TriggerFirst
<1>4. Built' BY DEF Built
<1>5. Scanned' BY DEF Scanned, Versions, NobodyWrites
<1>6. QED BY <1>1, <1>2, <1>3, <1>4, <1>5

LEMMA RunnerKeeps == ASSUME IInv, Runner PROVE IInv'
<1>. USE Marks DEF IInv, table
<1>1. ASSUME Start PROVE IInv'
  <2>. PICK f \in Files \ applied :
          (\A g \in Files \ applied : f <= g) /\ runner' = Entry(f)
    BY <1>1 DEF Start
  <2>1. runner' # "expand" => 8 \in applied
    BY Entries DEF Files
  <2>2. 11 \in applied => 8 \in applied BY DEF TriggerFirst
  <2>3. TypeOK' BY <1>1, Entries, MigrationAssumption DEF Start, TypeOK
  <2>4. Mirrored' BY <1>1, RowsKept DEF Start
  <2>5. TriggerFirst' BY <1>1, <2>1, <2>2 DEF Start, TriggerFirst
  <2>6. Built' /\ Scanned'
    BY <1>1, Entries DEF Start, Built, Scanned, Versions, NobodyWrites
  <2>7. QED BY <2>3, <2>4, <2>5, <2>6
<1>2. ASSUME RequestLock PROVE IInv'
  <2>1. TypeOK' BY <1>2 DEF RequestLock, TypeOK
  <2>2. Mirrored' BY <1>2, RowsKept DEF RequestLock
  <2>3. TriggerFirst' /\ Built' BY <1>2 DEF RequestLock, TriggerFirst, Built
  <2>4. Scanned' BY <1>2 DEF RequestLock, Scanned, Versions
  <2>5. QED BY <2>1, <2>2, <2>3, <2>4
<1>3. ASSUME Expand PROVE IInv'
  <2>1. TypeOK'
    BY <1>3, MigrationAssumption DEF Expand, Record, Entry, Files, TypeOK
  <2>2. Mirrored' BY <1>3, RowsKept DEF Expand, Record
  <2>3. TriggerFirst' BY <1>3 DEF Expand, Record, TriggerFirst
  <2>4. Built' BY <1>3 DEF Expand, Record, Entry, Built
  <2>5. Scanned' BY <1>3 DEF Expand, Record, Entry, Scanned, Versions
  <2>6. QED BY <2>1, <2>2, <2>3, <2>4, <2>5
<1>4. ASSUME DropInvalid PROVE IInv'
  <2>1. TypeOK' BY <1>4 DEF DropInvalid, TypeOK
  <2>2. Mirrored' BY <1>4, RowsKept DEF DropInvalid
  <2>3. TriggerFirst' BY <1>4 DEF DropInvalid, TriggerFirst
  <2>4. Built' BY <1>4 DEF DropInvalid, Built, TypeOK
  <2>5. Scanned' BY <1>4 DEF DropInvalid, Scanned, Versions, NobodyWrites
  <2>6. QED BY <2>1, <2>2, <2>3, <2>4, <2>5
<1>5. ASSUME NEW i \in Indexes, BuildIndex(i) PROVE IInv'
  <2>1. TypeOK' BY <1>5 DEF BuildIndex, TypeOK
  <2>2. Mirrored' BY <1>5, RowsKept DEF BuildIndex
  <2>3. TriggerFirst' BY <1>5 DEF BuildIndex, TriggerFirst
  <2>4. Built' BY <1>5 DEF BuildIndex, Built, TypeOK
  <2>5. Scanned' BY <1>5 DEF BuildIndex, Scanned, Versions, NobodyWrites
  <2>6. QED BY <2>1, <2>2, <2>3, <2>4, <2>5
<1>6. ASSUME IndexBuilt PROVE IInv'
  <2>1. TypeOK' BY <1>6 DEF IndexBuilt, TypeOK
  <2>2. Mirrored' BY <1>6, RowsKept DEF IndexBuilt
  <2>3. TriggerFirst' BY <1>6 DEF IndexBuilt, TriggerFirst
  <2>4. Built' BY <1>6 DEF IndexBuilt, Built, TypeOK
  <2>5. Scanned' BY <1>6 DEF IndexBuilt, Scanned, Versions, NobodyWrites
  <2>6. QED BY <2>1, <2>2, <2>3, <2>4, <2>5
<1>7. ASSUME IndexesDone PROVE IInv'
  <2>1. TypeOK'
    BY <1>7, MigrationAssumption DEF IndexesDone, Record, Entry, Files, TypeOK
  <2>2. Mirrored' BY <1>7, RowsKept DEF IndexesDone, Record
  <2>3. TriggerFirst' BY <1>7 DEF IndexesDone, Record, TriggerFirst
  <2>4. \A i \in Indexes : index[i] = "valid" BY <1>7 DEF IndexesDone, Built, TypeOK
  <2>5. Built' BY <1>7, <2>4 DEF IndexesDone, Record, Entry, Built
  <2>6. Scanned'
    BY <1>7 DEF IndexesDone, Record, Entry, Scanned, Versions, NobodyWrites
  <2>7. QED BY <2>1, <2>2, <2>3, <2>5, <2>6
<1>8. ASSUME NEW batch \in SUBSET Unfilled, BackfillBatch(batch) PROVE IInv'
  <2>1. \A r \in Rows : row[r] # None => row[r] \in Version
    BY DEF TypeOK
  <2>2. \A r \in batch : row[r] \in Version /\ tx[r] = None /\ r \in Rows
    BY <2>1 DEF Unfilled
  <2>3. \A r \in batch : /\ row'[r] \in Version
                         /\ row'[r].state = row[r].status /\ row'[r].status = row[r].status
    BY <1>8, <2>2 DEF BackfillBatch, TypeOK, Version
  <2>4. \A r \in Rows \ batch : row'[r] = row[r] BY <1>8 DEF BackfillBatch
  <2>5. TypeOK'
    <3>1. row' \in [Rows -> Version \cup {None}]
      BY <1>8, <2>3, <2>4 DEF BackfillBatch, TypeOK
    <3>2. QED BY <1>8, <3>1 DEF BackfillBatch, TypeOK
  <2>6. 8 \in applied BY <1>8 DEF BackfillBatch, TriggerFirst
  <2>7. \A r \in Rows \ batch : Versions(r)' = Versions(r)
    BY <1>8, <2>4 DEF BackfillBatch, Versions
  <2>8. \A r \in batch : \A v \in Versions(r)' : v.state = v.status /\ v.state \in Values
    BY <1>8, <2>2, <2>3 DEF BackfillBatch, Versions, Version
  <2>9. Mirrored' BY <1>8, <2>6, <2>7, <2>8 DEF BackfillBatch, Mirrored
  <2>10. TriggerFirst' /\ Built' BY <1>8 DEF BackfillBatch, TriggerFirst, Built
  <2>11. Scanned' BY <1>8, <2>7, <2>8 DEF BackfillBatch, Scanned, NobodyWrites
  <2>12. QED BY <2>5, <2>9, <2>10, <2>11
<1>9. ASSUME BackfillDone PROVE IInv'
  <2>1. TypeOK'
    BY <1>9, MigrationAssumption DEF BackfillDone, Record, Entry, Files, TypeOK
  <2>2. Mirrored' BY <1>9, RowsKept DEF BackfillDone, Record
  <2>3. TriggerFirst' BY <1>9 DEF BackfillDone, Record, TriggerFirst
  <2>4. Built' BY <1>9 DEF BackfillDone, Record, Entry, Built
  <2>5. Scanned'
    BY <1>9 DEF BackfillDone, Record, Entry, Scanned, Versions, NobodyWrites
  <2>6. QED BY <2>1, <2>2, <2>3, <2>4, <2>5
<1>10. ASSUME AddConstraint PROVE IInv'
  <2>1. TypeOK' BY <1>10 DEF AddConstraint, TypeOK
  <2>2. Mirrored' BY <1>10, RowsKept DEF AddConstraint
  <2>3. TriggerFirst' /\ Built' BY <1>10 DEF AddConstraint, TriggerFirst, Built
  <2>4. Scanned' BY <1>10 DEF AddConstraint, Scanned, Versions, NobodyWrites
  <2>5. QED BY <2>1, <2>2, <2>3, <2>4
<1>11. ASSUME Validate PROVE IInv'
  <2>1. CASE HasNull BY <1>11, <2>1, FailKeeps DEF Validate, TypeOK
  <2>2. CASE ~HasNull
    <3>. USE <1>11, <2>2 DEF Validate
    <3>1. TypeOK'
      <4>1. /\ applied' = applied \cup {11} /\ runner' = "idle" /\ lock' = "none"
            /\ attempt' = 1 /\ UNCHANGED <<table, index, building, faults>>
        BY DEF Record
      <4>2. QED BY <4>1, MigrationAssumption DEF Files, TypeOK
    <3>2. Mirrored' BY RowsKept DEF Record
    <3>3. 8 \in applied BY DEF TriggerFirst
    <3>4. TriggerFirst' BY <3>3 DEF Record, TriggerFirst
    <3>5. Built' BY DEF Record, Built
    <3>6. \A r \in Rows : \A v \in Versions(r) : v.state # Null
      BY DEF HasNull, Scanned, NobodyWrites, Versions
    <3>7. Scanned' BY <3>6 DEF Record, Scanned, Versions
    <3>8. QED BY <3>1, <3>2, <3>4, <3>5, <3>7
  <2>3. QED BY <2>1, <2>2
<1>12. ASSUME LockTimeout PROVE IInv'
  <2>1. CASE attempt < Attempts
    <3>. USE <1>12, <2>1 DEF LockTimeout, Fault
    <3>1. TypeOK' BY MigrationAssumption DEF TypeOK
    <3>2. Mirrored' BY RowsKept
    <3>3. TriggerFirst' BY DEF TriggerFirst
    <3>4. Built' BY DEF Built
    <3>5. Scanned' BY DEF Scanned, Versions
    <3>6. QED BY <3>1, <3>2, <3>3, <3>4, <3>5
  <2>2. CASE ~(attempt < Attempts)
    BY <1>12, <2>2, FailKeeps DEF LockTimeout, Fault, TypeOK
  <2>3. QED BY <2>1, <2>2
<1>13. ASSUME BuildFails \/ Kill PROVE IInv'
  BY <1>13, FailKeeps DEF BuildFails, Kill, Fault, TypeOK
<1>14. QED
  BY <1>1, <1>2, <1>3, <1>4, <1>5, <1>6, <1>7, <1>8, <1>9, <1>10, <1>11, <1>12, <1>13
  DEF Runner

LEMMA Invariant == Spec => []IInv
<1>1. Init => IInv
  <2>. SUFFICES ASSUME Init PROVE IInv OBVIOUS
  <2>1. TypeOK BY Marks, MigrationAssumption DEF Init, TypeOK, Version
  <2>2. \A r \in Rows : \A v \in Versions(r) : v.state = Null
    BY Marks DEF Init, Versions
  <2>3. Mirrored /\ TriggerFirst /\ Built /\ Scanned
    BY <2>2, Marks DEF Init, Mirrored, TriggerFirst, Built, Scanned, NobodyWrites
  <2>4. QED BY <2>1, <2>3 DEF IInv
<1>2. IInv /\ UNCHANGED vars => IInv'
  BY DEF IInv, vars, table, TypeOK, Mirrored, TriggerFirst, Built, Scanned,
         Versions, NobodyWrites
<1>3. IInv /\ [Next]_vars => IInv'
  BY <1>2, ApplicationKeeps, RunnerKeeps DEF Next
<1>4. QED BY <1>1, <1>3, PTL DEF Spec

-----------------------------------------------------------------------------
(* Every variable keeps its type: no row ever loses its status, whatever   *)
(* the trigger copies.                                                     *)
THEOREM TypeCorrect == Spec => []TypeOK
<1>1. IInv => TypeOK BY DEF IInv
<1>2. QED BY <1>1, Invariant, PTL

(* v1.7 and v1.9 read the same of every row, from 0008 on.                 *)
THEOREM VersionsAgree == Spec => []ColumnsAgree
<1>1. IInv => ColumnsAgree BY DEF IInv, ColumnsAgree, Mirrored, Versions
<1>2. QED BY <1>1, Invariant, PTL

(* When the runner has recorded 0011, no payout is without state, and none *)
(* becomes so, although the backfill may have missed rows.                 *)
THEOREM StateIsSet == Spec => []EveryRowHasState
<1>1. IInv => EveryRowHasState BY DEF IInv, EveryRowHasState, Scanned, Versions
<1>2. QED BY <1>1, Invariant, PTL

(* A recorded 0009 has its indexes, whatever became of earlier attempts.   *)
THEOREM IndexesBuilt == Spec => []IndexesAreValid
<1>1. IInv => IndexesAreValid BY DEF IInv, IndexesAreValid, Built
<1>2. QED BY <1>1, Invariant, PTL
=============================================================================
