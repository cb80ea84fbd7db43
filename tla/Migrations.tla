----------------------------- MODULE Migrations -----------------------------
(***************************************************************************)
(* The expand migrations 0008-0011 of payouts.status to payouts.state,     *)
(* applied by the runner (migrate.py) to a table in use:                   *)
(*                                                                         *)
(*   0008  adds the columns and the trigger that keeps both in step        *)
(*   0009  builds two indexes CONCURRENTLY                                 *)
(*   0010  copies status to state in batches, skipping locked rows         *)
(*   0011  adds CHECK (state IS NOT NULL) and validates it                 *)
(*                                                                         *)
(* v1.7 pods write status all along; v1.9 pods, which write state, are     *)
(* rolled out once the runner is done, and may be rolled back. A row's     *)
(* transaction holds its lock from the write to the commit. The runner may *)
(* be killed at any step, and is started again by the Job or a release.    *)
(***************************************************************************)
EXTENDS Naturals, FiniteSets

CONSTANTS
    Rows,           \* payouts.id
    Values,         \* what status and state can say
    Initial,        \* the default of status, and what the API inserts
    Null, None,
    Indexes,        \* CONCURRENT_INDEXES
    Attempts,       \* of one file, when it runs into lock_timeout
    Faults,         \* kinds of fault that happen in this instance
    MaxFaults       \* how many of them

(* The runner killed, a lock_timeout, a failed index build, a transaction  *)
(* rolled back; and an UPDATE that repeats the value, which the trigger    *)
(* does not copy (MaxFaults does not count these).                         *)
FaultKinds == {"kill", "lock", "build", "rollback", "repeat"}

ASSUME MigrationAssumption ==
    /\ Initial \in Values /\ Null \notin Values
    /\ Attempts \in Nat \ {0} /\ MaxFaults \in Nat /\ Faults \subseteq FaultKinds
    /\ None \notin [status : Values, state : Values \cup {Null}] \cup Indexes

Files == 8..11
Version == [status : Values, state : Values \cup {Null}]

VARIABLES
    row,        \* the committed version of each row, None before its INSERT
    tx,         \* the version an open transaction has written, None without one
    applied,    \* schema_migrations
    index,      \* of each index: absent, invalid or valid
    runner,     \* the step it is at, "idle" when none runs
    building,   \* the index its session is building
    lock,       \* ACCESS EXCLUSIVE on payouts: none, queued or held by the runner
    attempt,
    faults

table == <<row, tx>>
vars == <<table, applied, index, runner, building, lock, attempt, faults>>

TypeOK ==
    /\ row \in [Rows -> Version \cup {None}]
    /\ tx \in [Rows -> Version \cup {None}]
    /\ applied \in SUBSET Files
    /\ index \in [Indexes -> {"absent", "invalid", "valid"}]
    /\ runner \in {"idle", "expand", "drop", "index", "backfill", "constrain", "scan"}
    /\ building \in Indexes \cup {None}
    /\ lock \in {"none", "queued", "held"}
    /\ attempt \in 1..Attempts
    /\ faults \in Nat

Fault(kind) == kind \in Faults /\ faults < MaxFaults /\ faults' = faults + 1

----------------------------------------------------------------------------
(* Mutation: OnInsert without IF NEW.state IS NOT NULL. *)
MirrorState(new) == [new EXCEPT !.status = new.state]

(* payouts_sync_state, once 0008 has created it: state wins when it        *)
(* changes, otherwise a change of status is copied.                        *)
OnInsert(new) ==
    IF new.state # Null THEN [new EXCEPT !.status = new.state]
                        ELSE [new EXCEPT !.state = new.status]

(* Mutation: OnUpdate that copies in one direction only. *)
OneWay(old, new) == IF new.state # old.state THEN [new EXCEPT !.status = new.state] ELSE new

OnUpdate(old, new) ==
    IF new.state # old.state THEN [new EXCEPT !.status = new.state]
    ELSE IF new.status # old.status THEN [new EXCEPT !.state = new.status]
    ELSE new

Inserted(new) == IF 8 \in applied THEN OnInsert(new) ELSE new
Updated(old, new) == IF 8 \in applied THEN OnUpdate(old, new) ELSE new

Init ==
    /\ row \in [Rows -> {None} \cup {[status |-> v, state |-> Null] : v \in Values}]
    /\ tx = [r \in Rows |-> None]
    /\ applied = {} /\ index = [i \in Indexes |-> "absent"]
    /\ runner = "idle" /\ building = None /\ lock = "none" /\ attempt = 1
    /\ faults = 0

----------------------------------------------------------------------------
(* The application's transactions. A lock request that is queued keeps     *)
(* those that come after it waiting.                                       *)

Open(r, version) ==
    /\ tx[r] = None /\ lock = "none"
    /\ tx' = [tx EXCEPT ![r] = version]
    /\ UNCHANGED <<row, applied, index, runner, building, lock, attempt, faults>>

(* v1.7 *)
InsertStatus(r) ==
    /\ row[r] = None
    /\ Open(r, Inserted([status |-> Initial, state |-> Null]))
WriteStatus(r, v) ==
    /\ row[r] # None
    /\ v = row[r].status => "repeat" \in Faults
    /\ Open(r, Updated(row[r], [row[r] EXCEPT !.status = v]))

(* v1.9 *)
InsertState(r) ==
    /\ 11 \in applied /\ row[r] = None
    /\ Open(r, Inserted([status |-> Initial, state |-> Initial]))
WriteState(r, v) ==
    /\ 11 \in applied /\ row[r] # None
    /\ Open(r, Updated(row[r], [row[r] EXCEPT !.state = v]))

Commit(r) ==
    /\ tx[r] # None
    /\ row' = [row EXCEPT ![r] = tx[r]] /\ tx' = [tx EXCEPT ![r] = None]
    /\ UNCHANGED <<applied, index, runner, building, lock, attempt, faults>>

(* The pod dies, or the statement or lock times out. *)
Rollback(r) ==
    /\ tx[r] # None
    /\ Fault("rollback")
    /\ tx' = [tx EXCEPT ![r] = None]
    /\ UNCHANGED <<row, applied, index, runner, building, lock, attempt>>

Application == \E r \in Rows :
    \/ InsertStatus(r) \/ InsertState(r) \/ Commit(r) \/ Rollback(r)
    \/ \E v \in Values : WriteStatus(r, v) \/ WriteState(r, v)

----------------------------------------------------------------------------
(* The runner *)

Entry(f) == IF f = 8 THEN "expand" ELSE IF f = 9 THEN "drop"
            ELSE IF f = 10 THEN "backfill" ELSE "constrain"

(* Takes the advisory lock and the first file that is not recorded.        *)
Start ==
    /\ runner = "idle"
    /\ \E f \in Files \ applied :
        /\ \A g \in Files \ applied : f <= g
        /\ runner' = Entry(f)
    /\ attempt' = 1
    /\ UNCHANGED <<table, applied, index, building, lock, faults>>

(* Records the file and goes on with the next one. *)
Record(f) ==
    /\ applied' = applied \cup {f}
    /\ runner' = IF f = 11 THEN "idle" ELSE Entry(f + 1)
    /\ attempt' = 1

NobodyWrites == \A r \in Rows : tx[r] = None

RequestLock ==
    /\ runner \in {"expand", "constrain"} /\ lock = "none"
    /\ lock' = "queued"
    /\ UNCHANGED <<table, applied, index, runner, building, attempt, faults>>

(* 0008 is one transaction. *)
Expand ==
    /\ runner = "expand" /\ lock = "queued" /\ NobodyWrites
    /\ Record(8) /\ lock' = "none"
    /\ UNCHANGED <<table, index, building, faults>>

(* Mutation: no look for invalid indexes. *)
KeepInvalid ==
    /\ runner = "drop"
    /\ runner' = "index"
    /\ UNCHANGED <<table, applied, index, building, lock, attempt, faults>>

DropInvalid ==
    /\ runner = "drop"
    /\ index' = [i \in Indexes |-> IF index[i] = "invalid" THEN "absent" ELSE index[i]]
    /\ runner' = "index"
    /\ UNCHANGED <<table, applied, building, lock, attempt, faults>>

(* CREATE INDEX CONCURRENTLY: in the catalog, and invalid, until it is     *)
(* built. IF NOT EXISTS asks for the name only. The build waits for the    *)
(* transactions it finds open, which shows here as LockTimeout only.       *)
BuildIndex(i) ==
    /\ runner = "index" /\ building = None /\ index[i] = "absent"
    /\ building' = i /\ index' = [index EXCEPT ![i] = "invalid"]
    /\ UNCHANGED <<table, applied, runner, lock, attempt, faults>>

IndexBuilt ==
    /\ runner = "index" /\ building # None
    /\ index' = [index EXCEPT ![building] = "valid"] /\ building' = None
    /\ UNCHANGED <<table, applied, runner, lock, attempt, faults>>

IndexesDone ==
    /\ runner = "index" /\ building = None /\ \A i \in Indexes : index[i] # "absent"
    /\ Record(9)
    /\ UNCHANGED <<table, index, building, lock, faults>>

(* Mutation: every row, filled or not. *)
EveryRow == {r \in Rows : row[r] # None /\ tx[r] = None}

(* What a batch of the backfill may lock: rows another transaction has are *)
(* skipped.                                                                *)
Unfilled == {r \in Rows : row[r] # None /\ row[r].state = Null /\ tx[r] = None}

BackfillBatch(batch) ==
    /\ runner = "backfill" /\ batch # {}
    /\ row' = [r \in Rows |-> IF r \in batch THEN [row[r] EXCEPT !.state = row[r].status] ELSE row[r]]
    /\ UNCHANGED <<tx, applied, index, runner, building, lock, attempt, faults>>

(* A batch that updated no row ends the loop. *)
BackfillDone ==
    /\ runner = "backfill" /\ Unfilled = {}
    /\ Record(10)
    /\ UNCHANGED <<table, index, building, lock, faults>>

(* 0011 is one transaction too: the lock of ADD CONSTRAINT is kept until   *)
(* it commits, VALIDATE's scan included.                                   *)
AddConstraint ==
    /\ runner = "constrain" /\ lock = "queued" /\ NobodyWrites
    /\ lock' = "held" /\ runner' = "scan"
    /\ UNCHANGED <<table, applied, index, building, attempt, faults>>

HasNull == \E r \in Rows : row[r] # None /\ row[r].state = Null

Fail ==
    /\ runner' = "idle" /\ lock' = "none" /\ building' = None
    /\ UNCHANGED <<table, applied, attempt>>

(* Mutation: NOT VALID, and no VALIDATE. *)
NeverValidate ==
    /\ runner = "scan" /\ Record(11)
    /\ lock' = "none" /\ UNCHANGED <<table, index, building, faults>>

Validate ==
    /\ runner = "scan"
    /\ IF HasNull THEN Fail /\ UNCHANGED index
                  ELSE Record(11) /\ lock' = "none" /\ UNCHANGED <<table, index, building>>
    /\ UNCHANGED faults

(* SQLSTATE 55P03 starts the file again, up to Attempts times. *)
LockTimeout ==
    /\ runner = "index" \/ lock = "queued"
    /\ ~NobodyWrites
    /\ Fault("lock")
    /\ IF attempt < Attempts
       THEN /\ runner' = (IF runner = "index" THEN "drop" ELSE runner)
            /\ attempt' = attempt + 1 /\ building' = None /\ lock' = "none"
            /\ UNCHANGED <<table, applied>>
       ELSE Fail
    /\ UNCHANGED index

(* Any other error ends the run, and so does a kill; a build under way     *)
(* stays in the catalog.                                                   *)
BuildFails == building # None /\ Fault("build") /\ Fail /\ UNCHANGED index
Kill == runner # "idle" /\ Fault("kill") /\ Fail /\ UNCHANGED index

Runner ==
    \/ Start \/ RequestLock \/ Expand \/ DropInvalid \/ IndexBuilt \/ IndexesDone \/ BackfillDone
    \/ AddConstraint \/ Validate \/ LockTimeout \/ BuildFails \/ Kill
    \/ \E i \in Indexes : BuildIndex(i)
    \/ \E batch \in SUBSET Unfilled : BackfillBatch(batch)

Next == Application \/ Runner

Spec == Init /\ [][Next]_vars

----------------------------------------------------------------------------
(* From 0008 on v1.7 and v1.9 read the same of a row, whichever of them    *)
(* wrote it last: the trigger mirrors every write into the other column,   *)
(* and a row not yet filled is one whose status v1.7 alone has written.    *)
ColumnsAgree ==
    8 \in applied => \A r \in Rows : row[r] # None => row[r].state \in {Null, row[r].status}

(* When the runner has returned 0, and v1.9 may be rolled out, no payout   *)
(* is out of reach of its WHERE state IN ('queued', 'sending').            *)
EveryRowHasState ==
    11 \in applied => \A r \in Rows : row[r] # None => row[r].state # Null

(* A recorded 0009 has built its indexes, through kills, timeouts and      *)
(* failed builds: the unique one is what stops two payouts sharing a key.  *)
IndexesAreValid ==
    9 \in applied => \A i \in Indexes : index[i] = "valid"

(* Fairness: the Job or the next release starts the runner again, sessions *)
(* go on, and transactions end.                                            *)
Fairness ==
    /\ WF_vars(Start) /\ WF_vars(RequestLock) /\ WF_vars(Expand) /\ WF_vars(DropInvalid)
    /\ \A i \in Indexes : WF_vars(BuildIndex(i))
    /\ WF_vars(IndexBuilt) /\ WF_vars(IndexesDone)
    /\ WF_vars((\E batch \in SUBSET Unfilled : BackfillBatch(batch)) \/ BackfillDone)
    /\ WF_vars(AddConstraint) /\ WF_vars(Validate)
    /\ \A r \in Rows : WF_vars(Commit(r))

FairSpec == Spec /\ Fairness

(* Started again often enough, the runner gets through all files, or it is *)
(* stuck for ever at one thing: a row the backfill skipped that no later   *)
(* write gave a state, because it was rolled back or repeated the status.  *)
Migrates == <>[](applied = Files \/ (10 \in applied /\ HasNull))
=============================================================================
