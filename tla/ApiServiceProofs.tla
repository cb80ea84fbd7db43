-------------------------- MODULE ApiServiceProofs --------------------------
(***************************************************************************)
(* Whatever requests arrive, fail, are cut off or crash: what the answers  *)
(* of ApiService say is so, a settlement gets one payout, and a timeout    *)
(* that is named has left nothing behind; the pool is no larger than it    *)
(* was given, the queue for a thread moves on, and a graceful_timeout that *)
(* is long enough cuts off no short request. For all requests,             *)
(* settlements, sizes and limits.                                          *)
(*                                                                         *)
(* The argument for the answers: an execute past its UPDATE holds the row  *)
(* of a settlement that is still pending, alone (LockInv); a committed row *)
(* belongs to a request past its COMMIT and to a settlement that is        *)
(* executing (RowInv); what is answered does nothing any more (StageInv).  *)
(* That for the queue: the place of a request with k rounds and v ticks     *)
(* left is no greater than the number of threads that come back in k       *)
(* rounds, Extra in each, and in the next v ticks (Enough, WaitInv).       *)
(***************************************************************************)
EXTENDS ApiService, SequenceTheorems, FiniteSetTheorems, TLAPS

Pcs == {"idle", "queued", "sleep", "pool", "connect", "sql", "push", "done"}
Slot == [pc : Pcs, at : 0..3, left : Int, behind : BOOLEAN]
Given == Answers \cup Gone \cup {None}

TypeInv ==
    /\ settlement \in [Settlements -> {"absent", "pending", "executing"}]
    /\ rows \subseteq Requests /\ jobs \subseteq rows
    /\ req \in [Requests -> Slot]
    /\ waiting \in Seq(Requests)
    /\ answer \in [Requests -> Given]

QueueInv ==
    /\ \A i \in 1..Len(waiting) : req[waiting[i]].pc = "queued"
    /\ \A i, j \in 1..Len(waiting) : waiting[i] = waiting[j] => i = j

StageInv ==
    \A r \in Requests :
        /\ req[r].pc = "sleep" => Kind[r] = "report"
        /\ req[r].pc \in {"pool", "connect", "sql"} => Kind[r] # "livez"
        /\ req[r].pc = "sql" => req[r].at \in 1..Len(Program(Kind[r]))
        /\ req[r].pc = "push" => Kind[r] = "execute" /\ r \in rows
        /\ answer[r] # None => req[r].pc = "done"

InTransaction(r) == Kind[r] = "execute" /\ req[r].pc = "sql" /\ req[r].at > 1

LockInv ==
    \A r \in Requests :
        InTransaction(r) =>
            /\ settlement[Target[r]] = "pending"
            /\ \A o \in Requests \ {r} : InTransaction(o) => Target[o] # Target[r]

RowInv ==
    /\ \A r \in rows : /\ Kind[r] = "execute" /\ settlement[Target[r]] = "executing"
                       /\ req[r].pc \in {"push", "done"}
    /\ \A s \in Settlements : settlement[s] = "executing" => \E o \in rows : Target[o] = s
    /\ OnePayout

AnswerInv ==
    \A r \in Requests :
        /\ answer[r] = "accepted" => r \in jobs
        /\ answer[r] = "conflict" => Kind[r] = "execute" /\ settlement[Target[r]] # "pending"
        /\ answer[r] \in {"conflict", "pool_timeout", "statement_timeout"} => r \notin rows

IInv == TypeInv /\ QueueInv /\ StageInv /\ LockInv /\ RowInv /\ AnswerInv

----------------------------------------------------------------------------
LEMMA InitInv == Init => IInv
<1> SUFFICES ASSUME Init PROVE IInv
    OBVIOUS
<1>1. TypeInv
    BY RequestAssumption DEF Init, TypeInv, Stage, Slot, Pcs, Given
<1>2. \A r \in Requests : req[r].pc = "idle" /\ answer[r] = None
    BY DEF Init, Stage
<1>3. QueueInv
    BY DEF Init, QueueInv
<1>4. StageInv /\ LockInv
    BY <1>2 DEF StageInv, LockInv, InTransaction
<1>5. RowInv
    BY DEF Init, RowInv, OnePayout
<1>6. AnswerInv
    BY <1>2, NoneAssumption DEF AnswerInv, Answers, Unavailable
<1> QED BY <1>1, <1>3, <1>4, <1>5, <1>6 DEF IInv

(* Time, and what the process does to itself. *)
LEMMA QuietInv ==
    ASSUME IInv, UNCHANGED <<stored, answer, waiting>>, req' \in [Requests -> Slot],
           \A r \in Requests : req'[r].pc = req[r].pc /\ req'[r].at = req[r].at
    PROVE  IInv'
<1>1. TypeInv'
    BY DEF IInv, TypeInv, stored
<1>2. QueueInv'
    <2>1. waiting' = waiting /\ waiting \in Seq(Requests)
        BY DEF IInv, TypeInv
    <2>2. \A i \in 1..Len(waiting) : waiting[i] \in Requests
        BY <2>1, ElementOfSeq
    <2> QED BY <2>1, <2>2 DEF IInv, QueueInv
<1>3. StageInv'
    BY DEF IInv, StageInv, stored
<1>4. LockInv'
    BY DEF IInv, LockInv, InTransaction, stored
<1>5. RowInv'
    BY DEF IInv, TypeInv, RowInv, OnePayout, stored
<1>6. AnswerInv'
    BY DEF IInv, AnswerInv, stored
<1> QED BY <1>1, <1>2, <1>3, <1>4, <1>5, <1>6 DEF IInv

(* The end of the process: every open request is done and nothing else.    *)
LEMMA AbandonInv ==
    ASSUME IInv, NEW how \in Gone, Abandon(how)
    PROVE  IInv'
<1>1. UNCHANGED stored /\ waiting' = <<>>
    BY DEF Abandon
<1>2. req' \in [Requests -> Slot]
    BY DEF Abandon, IInv, TypeInv, Stage, Slot, Pcs
<1>3. \A r \in Requests :
         IF r \in Open THEN req'[r].pc = "done" /\ answer'[r] = how
         ELSE req'[r] = req[r] /\ answer'[r] = answer[r]
    BY DEF Abandon, Stage
<1>4. answer' \in [Requests -> Given]
    BY DEF Abandon, IInv, TypeInv, Given
<1>5. TypeInv' /\ QueueInv'
    BY <1>1, <1>2, <1>4 DEF IInv, TypeInv, QueueInv, stored
<1>6. StageInv'
    BY <1>1, <1>3 DEF IInv, StageInv, stored
<1>7. LockInv'
    BY <1>1, <1>3 DEF IInv, LockInv, InTransaction, stored
<1>8. RowInv'
    BY <1>1, <1>3 DEF IInv, TypeInv, RowInv, OnePayout, stored
<1>9. AnswerInv'
    BY <1>1, <1>3 DEF IInv, AnswerInv, Gone, stored
<1> QED BY <1>5, <1>6, <1>7, <1>8, <1>9 DEF IInv

(* A step of one request before its COMMIT. *)
LEMMA StepInv ==
    ASSUME IInv, NEW r \in Requests, NEW slot \in Slot, NEW a \in Given,
           UNCHANGED stored, waiting' \in Seq(Requests), QueueInv',
           req' \in [Requests -> Slot], req'[r] = slot, \A o \in Requests \ {r} : req'[o] = req[o],
           answer' \in [Requests -> Given], answer'[r] = a, \A o \in Requests \ {r} : answer'[o] = answer[o],
           req[r].pc \notin {"push", "done"}, slot.pc # "push",
           slot.pc = "sleep" => Kind[r] = "report",
           slot.pc \in {"pool", "connect", "sql"} => Kind[r] # "livez",
           slot.pc = "sql" => slot.at \in 1..Len(Program(Kind[r])),
           Kind[r] = "execute" /\ slot.pc = "sql" /\ slot.at > 1 =>
               /\ settlement[Target[r]] = "pending"
               /\ \A o \in Requests \ {r} : InTransaction(o) => Target[o] # Target[r],
           a # None => slot.pc = "done", a # "accepted",
           a = "conflict" => Kind[r] = "execute" /\ settlement[Target[r]] # "pending"
    PROVE  IInv'
<1>0. r \notin rows
    BY DEF IInv, RowInv
<1>1. TypeInv'
    BY DEF IInv, TypeInv, stored
<1>2. StageInv'
    BY <1>0 DEF IInv, StageInv, stored
<1>3. LockInv'
    BY DEF IInv, LockInv, InTransaction, stored
<1>4. RowInv'
    BY <1>0 DEF IInv, TypeInv, RowInv, OnePayout, stored
<1>5. AnswerInv'
    BY <1>0 DEF IInv, AnswerInv, stored
<1> QED BY <1>1, <1>2, <1>3, <1>4, <1>5 DEF IInv

(* What stands at which place of a handler. *)
LEMMA Statements ==
    ASSUME StageInv, NEW r \in Requests, req[r].pc = "sql"
    PROVE  /\ req[r].at \in 1..Len(Program(Kind[r])) /\ Len(Program(Kind[r])) \in 1..3
           /\ Kind[r] # "livez"
           /\ Kind[r] = "execute" => /\ Len(Program(Kind[r])) = 3
                                     /\ Statement(r) = "update" <=> req[r].at = 1
                                     /\ Statement(r) = "commit" <=> req[r].at = 3
           /\ Kind[r] # "execute" => Statement(r) # "update"
<1>1. Kind[r] \in Kinds \ {"livez"} /\ req[r].at \in 1..Len(Program(Kind[r]))
    BY RequestAssumption DEF StageInv
<1>2. CASE Kind[r] = "list"
    BY <1>1, <1>2 DEF Program, Statement
<1>3. CASE Kind[r] = "create"
    BY <1>1, <1>3 DEF Program, Statement
<1>4. CASE Kind[r] = "report"
    BY <1>1, <1>4 DEF Program, Statement
<1>5. CASE Kind[r] = "execute"
    BY <1>1, <1>5 DEF Program, Statement
<1> QED BY <1>1, <1>2, <1>3, <1>4, <1>5 DEF Kinds

(* The COMMIT of a request, answered or not. *)
LEMMA CommitInv ==
    ASSUME IInv, NEW r \in Requests, NEW slot \in Slot, NEW a \in Given,
           req[r].pc = "sql", Statement(r) = "commit", Committed(r),
           waiting' = waiting, QueueInv',
           req' \in [Requests -> Slot], req'[r] = slot, \A o \in Requests \ {r} : req'[o] = req[o],
           answer' \in [Requests -> Given], answer'[r] = a, \A o \in Requests \ {r} : answer'[o] = answer[o],
           slot.pc = "done" \/ (slot.pc = "push" /\ a = None /\ Kind[r] = "execute"),
           a \in {"ok", "operational", None}
    PROVE  IInv'
<1> DEFINE t == Target[r]
<1>0. /\ t \in Settlements /\ settlement \in [Settlements -> {"absent", "pending", "executing"}]
      /\ rows \subseteq Requests /\ jobs \subseteq rows /\ \A o \in Requests : Target[o] \in Settlements
    BY RequestAssumption DEF IInv, TypeInv
<1>1. /\ \A s \in Settlements \ {t} : settlement'[s] = settlement[s]
      /\ jobs' = jobs
      /\ settlement' \in [Settlements -> {"absent", "pending", "executing"}]
    BY <1>0 DEF Committed
<1>2. CASE Kind[r] = "execute"
    <2>1. InTransaction(r) /\ settlement[t] = "pending"
        BY <1>2, Statements DEF IInv, LockInv, InTransaction
    <2>2. settlement'[t] = "executing" /\ rows' = rows \cup {r}
        BY <1>0, <1>2 DEF Committed
    <2>3. \A o \in rows : Target[o] # t /\ o # r
        BY <1>0, <2>1 DEF IInv, RowInv
    <2>4. TypeInv'
        BY <1>0, <1>1, <2>2 DEF IInv, TypeInv
    <2>5. StageInv'
        BY <1>2, <2>2 DEF IInv, StageInv
    <2>6. LockInv'
        <3> SUFFICES ASSUME NEW q \in Requests, InTransaction(q)'
                     PROVE  /\ settlement'[Target[q]] = "pending"
                            /\ \A o \in Requests \ {q} : InTransaction(o)' => Target[o] # Target[q]
            BY DEF LockInv
        <3>1. \A o \in Requests : InTransaction(o)' => InTransaction(o) /\ o # r
            BY DEF InTransaction
        <3>2. Target[q] # t
            BY <2>1, <3>1 DEF IInv, LockInv
        <3> QED BY <1>0, <1>1, <3>1, <3>2 DEF IInv, LockInv
    <2>7. RowInv'
        <3>1. OnePayout'
            BY <1>0, <2>2, <2>3 DEF IInv, RowInv, OnePayout
        <3>2. \A o \in rows' : /\ Kind[o] = "execute" /\ settlement'[Target[o]] = "executing"
                               /\ req'[o].pc \in {"push", "done"}
            BY <1>0, <1>1, <1>2, <2>2, <2>3 DEF IInv, RowInv
        <3>3. \A s \in Settlements : settlement'[s] = "executing" => \E o \in rows' : Target[o] = s
            BY <1>0, <1>1, <2>2 DEF IInv, RowInv
        <3> QED BY <3>1, <3>2, <3>3 DEF RowInv
    <2>8. AnswerInv'
        <3> SUFFICES ASSUME NEW q \in Requests
                     PROVE  /\ answer'[q] = "accepted" => q \in jobs'
                            /\ answer'[q] = "conflict" => Kind[q] = "execute" /\ settlement'[Target[q]] # "pending"
                            /\ answer'[q] \in {"conflict", "pool_timeout", "statement_timeout"} => q \notin rows'
            BY DEF AnswerInv
        <3>1. CASE q = r
            BY <3>1, NoneAssumption DEF Answers, Unavailable
        <3>2. CASE q # r
            BY <1>0, <1>1, <2>2, <3>2 DEF IInv, AnswerInv
        <3> QED BY <3>1, <3>2
    <2> QED BY <2>4, <2>5, <2>6, <2>7, <2>8 DEF IInv
<1>3. CASE Kind[r] # "execute"
    <2>1. /\ rows' = rows
          /\ settlement'[t] = IF Kind[r] = "create" /\ settlement[t] = "absent" THEN "pending" ELSE settlement[t]
        BY <1>0, <1>3 DEF Committed
    <2>2. \A q \in Requests : Kind[q] = "execute" => settlement'[Target[q]] = settlement[Target[q]]
        BY <1>0, <1>1, <2>1, RequestAssumption
    <2>3. r \notin rows /\ slot.pc = "done"
        BY <1>3 DEF IInv, RowInv
    <2>4. TypeInv'
        BY <1>0, <1>1, <2>1 DEF IInv, TypeInv
    <2>5. StageInv'
        BY <2>1, <2>3 DEF IInv, StageInv
    <2>6. LockInv'
        <3>1. \A o \in Requests : InTransaction(o)' => InTransaction(o) /\ Kind[o] = "execute"
            BY <2>3 DEF InTransaction
        <3> QED BY <2>2, <3>1 DEF IInv, LockInv
    <2>7. RowInv'
        <3>1. \A s \in Settlements : settlement'[s] = "executing" => settlement[s] = "executing"
            BY <1>0, <1>1, <2>1
        <3> QED BY <1>0, <2>1, <2>2, <2>3, <3>1 DEF IInv, RowInv, OnePayout
    <2>8. AnswerInv'
        <3>1. a \notin {"accepted", "conflict", "pool_timeout", "statement_timeout"}
            BY NoneAssumption DEF Answers, Unavailable
        <3> QED BY <1>0, <1>1, <2>1, <2>2, <3>1 DEF IInv, AnswerInv
    <2> QED BY <2>4, <2>5, <2>6, <2>7, <2>8 DEF IInv
<1> QED BY <1>2, <1>3

(* The LPUSH after it. *)
LEMMA PushInv ==
    ASSUME IInv, NEW r \in Requests, NEW slot \in Slot, NEW a \in {"accepted", "error"},
           req[r].pc = "push", slot.pc = "done",
           settlement' = settlement, rows' = rows, jobs' \in {jobs, jobs \cup {r}}, a = "accepted" => r \in jobs',
           waiting' = waiting, QueueInv',
           req' \in [Requests -> Slot], req'[r] = slot, \A o \in Requests \ {r} : req'[o] = req[o],
           answer' \in [Requests -> Given], answer'[r] = a, \A o \in Requests \ {r} : answer'[o] = answer[o]
    PROVE  IInv'
<1>0. r \in rows /\ rows \subseteq Requests /\ jobs \subseteq rows
    BY DEF IInv, StageInv, TypeInv
<1>1. TypeInv'
    BY <1>0 DEF IInv, TypeInv
<1>2. StageInv'
    BY DEF IInv, StageInv
<1>3. LockInv'
    BY DEF IInv, LockInv, InTransaction
<1>4. RowInv'
    BY <1>0 DEF IInv, RowInv, OnePayout
<1>5. AnswerInv'
    BY <1>0 DEF IInv, AnswerInv
<1> QED BY <1>1, <1>2, <1>3, <1>4, <1>5 DEF IInv

----------------------------------------------------------------------------
(* Facts about single steps that the cases below share. *)

LEMMA SlotType ==
    ASSUME IInv, NEW r \in Requests, NEW pc \in Pcs, NEW at \in 0..3, NEW limit \in Int, Enter(r, pc, at, limit)
    PROVE  /\ req' \in [Requests -> Slot] /\ req'[r] \in Slot
           /\ req'[r].pc = pc /\ req'[r].at = at
           /\ \A o \in Requests \ {r} : req'[o] = req[o]
BY DEF IInv, TypeInv, Enter, Stage, Slot

LEMMA AnswerType ==
    ASSUME IInv, NEW r \in Requests, NEW a \in Given, Answer(r, a)
    PROVE  /\ req' \in [Requests -> Slot] /\ req'[r] \in Slot /\ req'[r].pc = "done"
           /\ \A o \in Requests \ {r} : req'[o] = req[o]
           /\ answer' \in [Requests -> Given] /\ answer'[r] = a
           /\ \A o \in Requests \ {r} : answer'[o] = answer[o]
<1>1. answer' \in [Requests -> Given] /\ answer'[r] = a /\ \A o \in Requests \ {r} : answer'[o] = answer[o]
    BY DEF IInv, TypeInv, Answer
<1>2. Enter(r, "done", 0, 0)
    BY DEF Answer
<1> QED BY <1>1, <1>2, SlotType DEF Pcs

LEMMA Unanswered ==
    ASSUME IInv, NEW r \in Requests, req[r].pc # "done", UNCHANGED answer
    PROVE  answer' \in [Requests -> Given] /\ answer'[r] = None
BY DEF IInv, TypeInv, StageInv

(* A request with a thread is not in the queue for one. *)
LEMMA QueueUnmoved ==
    ASSUME IInv, NEW r \in Requests, req[r].pc # "queued", waiting' = waiting,
           \A o \in Requests \ {r} : req'[o] = req[o]
    PROVE  QueueInv' /\ waiting' \in Seq(Requests)
<1>1. waiting \in Seq(Requests) /\ \A i \in 1..Len(waiting) : waiting[i] \in Requests
    BY ElementOfSeq DEF IInv, TypeInv
<1> QED BY <1>1 DEF IInv, QueueInv

(* Begin takes the request to its delay, a connection, the pool's queue or, *)
(* for a probe, to its answer.                                             *)
LEMMA BeginStep ==
    ASSUME IInv, NEW r \in Requests, Begin(r), req[r].pc \in {"idle", "queued"},
           UNCHANGED stored, waiting' \in Seq(Requests), QueueInv'
    PROVE  IInv'
<1>1. CASE Kind[r] = "livez"
    <2>1. Answer(r, "ok") /\ "ok" \in Given
        BY <1>1 DEF Begin, Given, Answers
    <2> QED BY <2>1, AnswerType, StepInv
<1>2. CASE Kind[r] # "livez"
    <2>1. UNCHANGED answer
        BY <1>2 DEF Begin, AskPool
    <2>2. PICK pc \in {"sleep", "connect", "pool"}, limit \in Int :
              Enter(r, pc, 0, limit) /\ (pc = "sleep" => Kind[r] = "report")
        BY <1>2, TimeAssumption DEF Begin, AskPool
    <2>3. /\ req' \in [Requests -> Slot] /\ req'[r] \in Slot /\ req'[r].pc = pc /\ req'[r].at = 0
          /\ \A o \in Requests \ {r} : req'[o] = req[o]
          /\ pc = "sleep" => Kind[r] = "report"
        BY <2>2, SlotType DEF Pcs
    <2>4. answer' \in [Requests -> Given] /\ answer'[r] = None /\ None \in Given /\ None \notin {"accepted", "conflict"}
        BY <2>1, Unanswered, NoneAssumption DEF Given, Answers
    <2>5. \A o \in Requests \ {r} : answer'[o] = answer[o]
        BY <2>1
    <2>6. req'[r].pc \in {"sleep", "connect", "pool"}
        BY <2>3
    <2> QED BY <1>2, <2>3, <2>4, <2>5, <2>6, StepInv
<1> QED BY <1>1, <1>2

(* A step to another place before the COMMIT. *)
LEMMA EnterStep ==
    ASSUME IInv, NEW r \in Requests, NEW pc \in {"pool", "connect", "sql"}, NEW at \in 0..3, NEW limit \in Int,
           Enter(r, pc, at, limit), UNCHANGED <<stored, waiting, answer>>,
           req[r].pc \in {"sleep", "pool", "connect", "sql"},
           pc = "sql" => at \in 1..Len(Program(Kind[r])),
           Kind[r] = "execute" /\ pc = "sql" /\ at > 1 =>
               /\ settlement[Target[r]] = "pending"
               /\ \A o \in Requests \ {r} : InTransaction(o) => Target[o] # Target[r]
    PROVE  IInv'
<1>1. QueueInv' /\ waiting' \in Seq(Requests)
    BY SlotType, QueueUnmoved DEF Pcs
<1>2. Kind[r] # "livez"
    BY DEF IInv, StageInv
<1>3. answer' \in [Requests -> Given] /\ answer'[r] = None /\ None \in Given
    BY Unanswered DEF Given
<1>4. /\ req' \in [Requests -> Slot] /\ req'[r] \in Slot /\ req'[r].pc = pc /\ req'[r].at = at
      /\ \A o \in Requests \ {r} : req'[o] = req[o]
    BY SlotType DEF Pcs
<1>5. None \notin {"accepted", "conflict"}
    BY NoneAssumption DEF Answers
<1> QED BY <1>1, <1>2, <1>3, <1>4, <1>5, StepInv

(* An answer before the COMMIT. *)
LEMMA AnswerStep ==
    ASSUME IInv, NEW r \in Requests, NEW a \in Answers, Answer(r, a), a # "accepted",
           UNCHANGED <<stored, waiting>>, req[r].pc \in {"pool", "connect", "sql"},
           a = "conflict" => Kind[r] = "execute" /\ settlement[Target[r]] # "pending"
    PROVE  IInv'
<1>1. a \in Given
    BY DEF Given
<1>2. QueueInv' /\ waiting' \in Seq(Requests)
    BY <1>1, AnswerType, QueueUnmoved
<1> QED BY <1>1, <1>2, AnswerType, StepInv

----------------------------------------------------------------------------
LEMMA ArriveInv ==
    ASSUME IInv, NEW r \in Requests, Arrive(r)
    PROVE  IInv'
<1>0. req[r].pc = "idle" /\ UNCHANGED stored
    BY DEF Arrive
<1>1. CASE Busy \/ waiting # <<>>
    <2> DEFINE slot == [pc |-> "queued", at |-> 0, behind |-> TRUE, left |-> QueueLimit(Len(waiting))]
    <2>1. waiting' = Append(waiting, r) /\ req' = [req EXCEPT ![r] = slot] /\ UNCHANGED answer
        BY <1>1 DEF Arrive
    <2>2. waiting \in Seq(Requests) /\ \A i \in 1..Len(waiting) : waiting[i] \in Requests
        BY ElementOfSeq DEF IInv, TypeInv
    <2>3. slot \in Slot
        BY <2>2, LenProperties, SizeAssumption, TimeAssumption DEF QueueLimit, Slot, Pcs
    <2>4. req' \in [Requests -> Slot] /\ req'[r] = slot /\ \A o \in Requests \ {r} : req'[o] = req[o]
        BY <2>1, <2>3 DEF IInv, TypeInv
    <2>5. /\ waiting' \in Seq(Requests) /\ Len(waiting') = Len(waiting) + 1
          /\ \A i \in 1..Len(waiting) : waiting'[i] = waiting[i]
          /\ waiting'[Len(waiting) + 1] = r
        BY <2>1, <2>2, AppendProperties
    <2>6. \A i \in 1..Len(waiting) : waiting[i] # r
        BY <1>0 DEF IInv, QueueInv
    <2>7. QueueInv'
        <3>1. \A i \in 1..Len(waiting) : req'[waiting'[i]].pc = "queued"
            BY <2>2, <2>4, <2>5, <2>6 DEF IInv, QueueInv
        <3>2. \A i \in 1..Len(waiting') : i \in 1..Len(waiting) \/ i = Len(waiting) + 1
            BY <2>2, <2>5
        <3> QED BY <2>4, <2>5, <2>6, <3>1, <3>2 DEF IInv, QueueInv
    <2>8. answer' \in [Requests -> Given] /\ answer'[r] = None /\ None \in Given /\ None \notin {"accepted", "conflict"}
        BY <1>0, <2>1, Unanswered, NoneAssumption DEF Given, Answers
    <2> HIDE DEF slot
    <2>9. slot.pc = "queued"
        BY DEF slot
    <2> QED BY <1>0, <2>1, <2>3, <2>4, <2>5, <2>7, <2>8, <2>9, StepInv
<1>2. CASE ~(Busy \/ waiting # <<>>)
    <2>1. waiting = <<>> /\ waiting' = <<>> /\ Begin(r)
        BY <1>2 DEF Arrive
    <2>2. waiting' \in Seq(Requests) /\ QueueInv'
        BY <2>1 DEF QueueInv
    <2> QED BY <1>0, <2>1, <2>2, BeginStep
<1> QED BY <1>1, <1>2

LEMMA TakeThreadInv ==
    ASSUME IInv, NEW r \in Requests, TakeThread(r)
    PROVE  IInv'
<1>1. /\ waiting \in Seq(Requests) /\ waiting # <<>> /\ r = waiting[1] /\ waiting' = Tail(waiting)
      /\ Begin(r) /\ UNCHANGED stored
    BY DEF TakeThread, IInv, TypeInv
<1>2. /\ waiting' \in Seq(Requests) /\ Len(waiting') = Len(waiting) - 1 /\ Len(waiting) \in Nat \ {0}
      /\ \A i \in 1..Len(waiting') : waiting'[i] = waiting[i + 1]
      /\ \A i \in 1..Len(waiting) : waiting[i] \in Requests
    BY <1>1, ElementOfSeq, HeadTailProperties, EmptySeq, LenProperties
<1>3. req[r].pc = "queued"
    BY <1>1, <1>2 DEF IInv, QueueInv
<1>4. \A o \in Requests \ {r} : req'[o] = req[o]
    BY <1>1, SizeAssumption, TimeAssumption DEF Begin, AskPool, Answer, Enter, IInv, TypeInv
<1>5. QueueInv'
    <2>1. \A i \in 1..Len(waiting') : i + 1 \in 1..Len(waiting) /\ waiting'[i] \in Requests \ {r}
        BY <1>1, <1>2 DEF IInv, QueueInv
    <2>2. \A i \in 1..Len(waiting') : req'[waiting'[i]].pc = "queued"
        BY <1>2, <1>4, <2>1 DEF IInv, QueueInv
    <2>3. \A i, j \in 1..Len(waiting') : waiting'[i] = waiting'[j] => i + 1 = j + 1
        BY <1>2, <2>1 DEF IInv, QueueInv
    <2> QED BY <1>2, <2>2, <2>3 DEF QueueInv
<1> QED BY <1>1, <1>2, <1>3, <1>5, BeginStep

LEMMA ConnectionInv ==
    ASSUME IInv, NEW r \in Requests,
           Awake(r) \/ Checkout(r) \/ PoolExhausted(r) \/ Connected(r) \/ ConnectFails(r)
    PROVE  IInv'
<1>1. CASE Checkout(r)
    BY <1>1, EnterStep, TimeAssumption DEF Checkout
<1>2. CASE PoolExhausted(r)
    BY <1>2, AnswerStep DEF PoolExhausted, Answers, Unavailable
<1>3. CASE Connected(r)
    <2>1. Kind[r] \in Kinds /\ Kind[r] # "livez"
        BY <1>3, RequestAssumption DEF Connected, IInv, StageInv
    <2>2. 1 \in 1..Len(Program(Kind[r]))
        BY <2>1 DEF Program
    <2>3. Limit(Program(Kind[r])[1]) \in Int
        BY TimeAssumption DEF Limit
    <2> QED BY <1>3, <2>2, <2>3, EnterStep DEF Connected
<1>4. CASE ConnectFails(r)
    BY <1>4, AnswerStep DEF ConnectFails, Answers, Unavailable
<1>5. CASE Awake(r)
    BY <1>5, EnterStep, TimeAssumption DEF Awake, AskPool
<1> QED BY <1>1, <1>2, <1>3, <1>4, <1>5

LEMMA NextStatement ==
    ASSUME NEW at, NEW len, len \in 1..3, at \in 1..len, at # len
    PROVE  at + 1 \in 0..3 /\ at + 1 \in 1..len
OBVIOUS

LEMMA StatementInv ==
    ASSUME IInv, NEW r \in Requests, Conflict(r) \/ StatementEnds(r) \/ StatementCancelled(r)
    PROVE  IInv'
<1>0. /\ req[r].pc = "sql" /\ UNCHANGED <<stored, waiting>>
      /\ StageInv /\ Len(Program(Kind[r])) \in 1..3 /\ req[r].at \in 1..Len(Program(Kind[r]))
    BY Statements DEF Conflict, StatementEnds, StatementCancelled, IInv
<1>1. CASE Conflict(r)
    BY <1>0, <1>1, Statements, AnswerStep DEF Conflict, Answers
<1>2. CASE StatementCancelled(r)
    BY <1>0, <1>2, AnswerStep DEF StatementCancelled, Answers, Unavailable
<1>3. CASE StatementEnds(r) /\ req[r].at = Len(Program(Kind[r]))
    BY <1>0, <1>3, AnswerStep DEF StatementEnds, Answers
<1>4. CASE StatementEnds(r) /\ req[r].at # Len(Program(Kind[r]))
    <2> DEFINE next == req[r].at + 1
    <2>0. Limit(Program(Kind[r])[next]) \in Int
        BY TimeAssumption DEF Limit
    <2>1. next \in 0..3 /\ next \in 1..Len(Program(Kind[r]))
        <3>1. req[r].at # Len(Program(Kind[r]))
            BY <1>4
        <3> QED BY <1>0, <3>1, NextStatement
    <2>2. Enter(r, "sql", next, Limit(Program(Kind[r])[next])) /\ UNCHANGED answer
        BY <1>4, Zenon DEF StatementEnds
    <2>3. ASSUME Kind[r] = "execute"
          PROVE  /\ settlement[Target[r]] = "pending"
                 /\ \A o \in Requests \ {r} : InTransaction(o) => Target[o] # Target[r]
        <3>1. CASE req[r].at = 1
            <4>1. Statement(r) = "update" /\ ~Blocked(r) /\ settlement[Target[r]] = "pending"
                BY <1>0, <1>4, <2>3, <3>1, Statements DEF StatementEnds
            <4> QED BY <2>3, <4>1 DEF Blocked, Locks, InTransaction
        <3>2. CASE req[r].at # 1
            BY <1>0, <2>3, <3>2 DEF IInv, LockInv, InTransaction
        <3> QED BY <3>1, <3>2
    <2> HIDE DEF next
    <2> QED BY <1>0, <2>0, <2>1, <2>2, <2>3, EnterStep
<1> QED BY <1>1, <1>2, <1>3, <1>4

LEMMA ConnectionLostInv ==
    ASSUME IInv, NEW r \in Requests, ConnectionLost(r)
    PROVE  IInv'
<1>1. req[r].pc = "sql" /\ Answer(r, "operational") /\ waiting' = waiting
    BY DEF ConnectionLost
<1>2. "operational" \in Given /\ "operational" \in Answers
    BY DEF Given, Answers, Unavailable
<1>3. CASE UNCHANGED stored
    BY <1>1, <1>2, <1>3, AnswerStep
<1>4. CASE Statement(r) = "commit" /\ Committed(r)
    BY <1>1, <1>2, <1>4, AnswerType, QueueUnmoved, CommitInv
<1> QED BY <1>3, <1>4 DEF ConnectionLost

LEMMA CommitsInv ==
    ASSUME IInv, NEW r \in Requests, Commit(r)
    PROVE  IInv'
<1>1. req[r].pc = "sql" /\ Statement(r) = "commit" /\ Committed(r) /\ waiting' = waiting
    BY DEF Commit
<1>2. CASE Kind[r] = "execute"
    <2>1. Enter(r, "push", 0, PushTimeout) /\ UNCHANGED answer
        BY <1>2 DEF Commit
    <2>2. /\ req' \in [Requests -> Slot] /\ req'[r] \in Slot /\ req'[r].pc = "push"
          /\ \A o \in Requests \ {r} : req'[o] = req[o]
        BY <2>1, SlotType, TimeAssumption DEF Pcs
    <2>3. answer' \in [Requests -> Given] /\ answer'[r] = None /\ None \in Given
        BY <1>1, <2>1, Unanswered DEF Given
    <2> QED BY <1>1, <1>2, <2>1, <2>2, <2>3, QueueUnmoved, CommitInv
<1>3. CASE Kind[r] # "execute"
    <2>1. Answer(r, "ok") /\ "ok" \in Given
        BY <1>3 DEF Commit, Given, Answers
    <2> QED BY <1>1, <2>1, AnswerType, QueueUnmoved, CommitInv
<1> QED BY <1>2, <1>3

LEMMA PushesInv ==
    ASSUME IInv, NEW r \in Requests, Push(r) \/ PushFails(r)
    PROVE  IInv'
<1>1. CASE Push(r)
    <2>1. "accepted" \in Given
        BY DEF Given, Answers
    <2> QED BY <1>1, <2>1, AnswerType, QueueUnmoved, PushInv DEF Push
<1>2. CASE PushFails(r)
    <2>1. "error" \in Given
        BY DEF Given, Answers
    <2> QED BY <1>2, <2>1, AnswerType, QueueUnmoved, PushInv DEF PushFails
<1> QED BY <1>1, <1>2

LEMMA NextInv == IInv /\ [Next]_vars => IInv'
<1> SUFFICES ASSUME IInv, [Next]_vars PROVE IInv'
    OBVIOUS
<1>1. ASSUME NEW r \in Requests, Handle(r) PROVE IInv'
    BY <1>1, ArriveInv, TakeThreadInv, ConnectionInv, StatementInv, ConnectionLostInv, CommitsInv, PushesInv DEF Handle
<1>2. req \in [Requests -> Slot]
    BY DEF IInv, TypeInv
<1>3. CASE Sigterm \/ Exit \/ Start \/ UNCHANGED vars
    BY <1>2, <1>3, QuietInv DEF Sigterm, Exit, Start, vars, stored
<1>4. CASE GracefulTimeout \/ Crash
    BY <1>4, AbandonInv DEF GracefulTimeout, Crash, Gone
<1>5. CASE Tick
    <2>1. UNCHANGED <<stored, waiting, answer>>
        BY <1>5 DEF Tick
    <2>2. req' \in [Requests -> Slot] /\ \A r \in Requests : req'[r].pc = req[r].pc /\ req'[r].at = req[r].at
        BY <1>2, <1>5 DEF Tick, Slot
    <2> QED BY <2>1, <2>2, QuietInv
<1> QED BY <1>1, <1>3, <1>4, <1>5 DEF Next, Process

LEMMA Invariance == Spec => []IInv
<1> QED BY InitInv, NextInv, PTL DEF Spec

----------------------------------------------------------------------------
(* However many executes of a settlement race or are retried, on whatever  *)
(* connections: one of them makes a payout.                                *)
THEOREM OneExecuteWins == Spec => []OnePayout
<1>1. IInv => OnePayout
    BY DEF IInv, RowInv
<1> QED BY <1>1, Invariance, PTL

(* A 202 has its row and its job, a 409 a settlement that is not pending   *)
(* any more because of another, or never was.                              *)
THEOREM AnswersHold == Spec => []AnswersAreTrue
<1>1. IInv => AnswersAreTrue
    <2> SUFFICES ASSUME IInv PROVE AnswersAreTrue
        OBVIOUS
    <2>1. jobs \subseteq rows /\ rows \subseteq Requests
        BY DEF IInv, TypeInv
    <2>2. ASSUME NEW r \in Requests, answer[r] = "conflict"
          PROVE  settlement[Target[r]] = "absent" \/ \E o \in rows \ {r} : Target[o] = Target[r]
        <3>1. /\ settlement[Target[r]] \in {"absent", "executing"} /\ r \notin rows /\ Target[r] \in Settlements
            BY <2>2, RequestAssumption DEF IInv, TypeInv, AnswerInv
        <3> QED BY <3>1 DEF IInv, RowInv
    <2> QED BY <2>1, <2>2 DEF IInv, AnswerInv, AnswersAreTrue
<1> QED BY <1>1, Invariance, PTL

(* A 503 that names a timeout left neither a row nor a job.                *)
THEOREM TimeoutsLeaveNothing == Spec => []RetryIsSafe
<1>1. IInv => RetryIsSafe
    BY DEF IInv, TypeInv, AnswerInv, RetryIsSafe
<1> QED BY <1>1, Invariance, PTL

----------------------------------------------------------------------------
(* Sizes and times. A thread that holds no connection comes back on its    *)
(* own: from the push within PushTimeout, from the pool within PoolTimeout *)
(* or, if it gets a connection by then, for another thread whose request   *)
(* gives one up; from a report's delay within that and then the same.      *)
(* There are at least Extra such threads when all are taken.               *)
Extra == Threads - PoolSize
Round == ReportCost + PoolTimeout + PushTimeout

Started == {r \in Requests : req[r].pc # "idle"}

SizeInv ==
    /\ IsFiniteSet(Started)
    /\ Cardinality(InThread) <= Threads /\ Cardinality(CheckedOut) <= PoolSize

ProcessInv ==
    /\ life \in {"up", "draining", "down"} /\ left \in Nat /\ faults \in 0..MaxFaults

TimerInv ==
    \A r \in Requests :
        /\ req[r].pc = "sleep" => req[r].left \in 0..ReportCost
        /\ req[r].pc = "pool" => req[r].left \in 0..PoolTimeout
        /\ req[r].pc = "connect" => req[r].left \in 0..ConnectTimeout
        /\ req[r].pc = "sql" => req[r].left \in 0..Limit(Statement(r))
        /\ req[r].pc = "push" => req[r].left \in 0..PushTimeout
        /\ req[r].pc = "queued" => req[r].behind

(* The threads that do not wait for a connection longer than v ticks.      *)
Soon(v) ==
    {r \in Requests : \/ req[r].pc = "sleep" /\ req[r].left + PoolTimeout + PushTimeout <= v
                      \/ req[r].pc = "pool" /\ req[r].left + PushTimeout <= v
                      \/ req[r].pc = "push" /\ req[r].left <= v}

(* Those that will be there for the queue in v ticks at the latest.        *)
Spare(v) ==
    Cardinality(Soon(v)) + (Threads - Cardinality(InThread))
        - (IF v < PushTimeout THEN 0 ELSE PoolSize - Cardinality(CheckedOut))

(* Whoever is at place i has the rounds left that i needs.                 *)
Enough(r, i) ==
    \E k \in Nat, v \in 0..Round - 1 :
        /\ req[r].left = Round * k + v
        /\ i <= Extra * k + Extra
        /\ i <= Extra * k + Spare(v)

WaitInv ==
    /\ \A r \in Requests : req[r].pc = "queued" => \E i \in 1..Len(waiting) : waiting[i] = r
    /\ \A i \in 1..Len(waiting) : Enough(waiting[i], i)

RoomInv == SizeInv /\ ProcessInv /\ TimerInv /\ WaitInv

----------------------------------------------------------------------------
(* What a step does to the request it is about, and to no other.           *)
Alone(r) ==
    /\ req' \in [Requests -> Slot]
    /\ \A o \in Requests \ {r} : req'[o] = req[o]

To(r, pc, limit) ==
    /\ Alone(r)
    /\ req'[r].pc = pc /\ req'[r].left = limit /\ req'[r].behind = req[r].behind

Queues(r) ==
    /\ req[r].pc = "idle" /\ life = "up" /\ waiting' = Append(waiting, r)
    /\ Alone(r) /\ req'[r].pc = "queued" /\ req'[r].behind
    /\ req'[r].left = QueueLimit(Len(waiting))

Begins(r) ==
    /\ ~Busy
    /\ \/ req[r].pc = "idle" /\ life = "up" /\ waiting = <<>> /\ waiting' = <<>>
       \/ req[r].pc = "queued" /\ waiting # <<>> /\ r = Head(waiting) /\ waiting' = Tail(waiting)
    /\ \/ To(r, "done", 0)
       \/ To(r, "sleep", ReportCost)
       \/ FreeConnection /\ To(r, "connect", ConnectTimeout)
       \/ ~FreeConnection /\ To(r, "pool", PoolTimeout)

NextSql(r) ==
    /\ \/ req[r].pc = "connect" /\ req'[r].at = 1
       \/ req[r].pc = "sql" /\ req'[r].at = req[r].at + 1 /\ Statement(r) # "commit"
    /\ req'[r].at \in 1..Len(Program(Kind[r]))
    /\ To(r, "sql", Limit(Program(Kind[r])[req'[r].at]))

Works(r) ==
    /\ waiting' = waiting
    /\ \/ req[r].pc = "sleep" /\ req[r].left = 0 /\ To(r, "pool", PoolTimeout)
       \/ /\ req[r].pc = "pool" \/ (req[r].pc = "sleep" /\ req[r].left = 0)
          /\ FreeConnection /\ To(r, "connect", ConnectTimeout)
       \/ NextSql(r)
       \/ req[r].pc = "sql" /\ Kind[r] = "execute" /\ To(r, "push", PushTimeout)
       \/ req[r].pc \in {"connect", "sql", "push"} /\ To(r, "done", 0)
       \/ req[r].pc = "pool" /\ req[r].left = 0 /\ To(r, "done", 0)

(* A failure is counted up to its bound. *)
Counted == faults' = faults \/ (faults < MaxFaults /\ faults' = faults + 1)

LEMMA EnterTo ==
    ASSUME IInv, NEW r \in Requests, NEW pc \in Pcs, NEW at \in 0..3, NEW limit \in Int, Enter(r, pc, at, limit)
    PROVE  To(r, pc, limit) /\ req'[r].at = at
BY DEF IInv, TypeInv, Enter, Stage, Slot, To, Alone

LEMMA AnswerTo ==
    ASSUME IInv, NEW r \in Requests, NEW a, Answer(r, a)
    PROVE  To(r, "done", 0) /\ answer' = [answer EXCEPT ![r] = a]
BY EnterTo DEF Answer, Pcs

LEMMA BeginTo ==
    ASSUME IInv, NEW r \in Requests, Begin(r)
    PROVE  \/ To(r, "done", 0) /\ answer' = [answer EXCEPT ![r] = "ok"]
           \/ To(r, "sleep", ReportCost) /\ answer' = answer
           \/ FreeConnection /\ To(r, "connect", ConnectTimeout) /\ answer' = answer
           \/ ~FreeConnection /\ To(r, "pool", PoolTimeout) /\ answer' = answer
BY EnterTo, AnswerTo, TimeAssumption DEF Begin, AskPool, Pcs

LEMMA Shapes ==
    ASSUME IInv, NEW r \in Requests, Handle(r)
    PROVE  /\ UNCHANGED <<life, left>> /\ Counted
           /\ req[r].pc # "done"
           /\ answer' = answer \/ \E a \in Answers : answer' = [answer EXCEPT ![r] = a]
           /\ Queues(r) \/ Begins(r) \/ Works(r)
<1> USE DEF Counted
<1>1. CASE Arrive(r)
    <2>1. CASE Busy \/ waiting # <<>>
        <3> DEFINE slot == [pc |-> "queued", at |-> 0, behind |-> TRUE, left |-> QueueLimit(Len(waiting))]
        <3>1. waiting' = Append(waiting, r) /\ req' = [req EXCEPT ![r] = slot] /\ UNCHANGED answer
            BY <1>1, <2>1 DEF Arrive
        <3>2. Len(waiting) \in Nat
            BY LenProperties DEF IInv, TypeInv
        <3>3. slot \in Slot
            BY <3>2, SizeAssumption, TimeAssumption DEF QueueLimit, Slot, Pcs
        <3>4. req' \in [Requests -> Slot] /\ req'[r] = slot /\ \A o \in Requests \ {r} : req'[o] = req[o]
            BY <3>1, <3>3 DEF IInv, TypeInv
        <3> QED BY <1>1, <3>1, <3>4 DEF Arrive, Queues, Alone
    <2>2. CASE ~(Busy \/ waiting # <<>>)
        <3>1. /\ ~Busy /\ waiting = <<>> /\ waiting' = <<>> /\ Begin(r) /\ req[r].pc = "idle" /\ life = "up"
              /\ UNCHANGED <<life, left, faults>>
            BY <1>1, <2>2 DEF Arrive
        <3> QED BY <3>1, BeginTo DEF Begins, Answers
    <2> QED BY <2>1, <2>2
<1>2. CASE TakeThread(r)
    <2>1. req[r].pc = "queued"
        <3>1. Len(waiting) \in Nat \ {0} /\ waiting[1] = r
            BY <1>2, EmptySeq, LenProperties, HeadTailProperties DEF TakeThread, IInv, TypeInv
        <3> QED BY <3>1 DEF IInv, QueueInv
    <2> QED BY <1>2, <2>1, BeginTo DEF TakeThread, Begins, Answers
<1>3. CASE Checkout(r)
    BY <1>3, EnterTo, TimeAssumption DEF Checkout, Works, Pcs
<1>4. CASE PoolExhausted(r)
    BY <1>4, AnswerTo DEF PoolExhausted, Works, Answers, Unavailable
<1>5. CASE Connected(r)
    <2>1. Kind[r] \in Kinds /\ Kind[r] # "livez"
        BY <1>5, RequestAssumption DEF Connected, IInv, StageInv
    <2>2. 1 \in 1..Len(Program(Kind[r]))
        BY <2>1 DEF Program
    <2>3. Limit(Program(Kind[r])[1]) \in Int
        BY TimeAssumption DEF Limit
    <2>4. To(r, "sql", Limit(Program(Kind[r])[1])) /\ req'[r].at = 1
        BY <1>5, <2>3, EnterTo DEF Connected, Pcs
    <2> QED BY <1>5, <2>2, <2>4 DEF Connected, Works, NextSql
<1>6. CASE ConnectFails(r)
    BY <1>6, AnswerTo DEF ConnectFails, Fault, Overrun, Works, Answers, Unavailable
<1>7. CASE Conflict(r)
    BY <1>7, AnswerTo DEF Conflict, Works, Answers
<1>8. CASE StatementEnds(r)
    <2>0. StageInv /\ Len(Program(Kind[r])) \in 1..3 /\ req[r].at \in 1..Len(Program(Kind[r]))
        BY <1>8, Statements DEF StatementEnds, IInv
    <2>1. CASE req[r].at = Len(Program(Kind[r]))
        BY <1>8, <2>1, AnswerTo DEF StatementEnds, Works, Answers
    <2>2. CASE req[r].at # Len(Program(Kind[r]))
        <3> DEFINE next == req[r].at + 1
        <3>1. next \in 0..3 /\ next \in 1..Len(Program(Kind[r]))
            BY <2>0, <2>2, NextStatement
        <3>2. Enter(r, "sql", next, Limit(Program(Kind[r])[next])) /\ UNCHANGED answer
            BY <1>8, <2>2, Zenon DEF StatementEnds
        <3>3. Limit(Program(Kind[r])[next]) \in Int
            BY TimeAssumption DEF Limit
        <3> HIDE DEF next
        <3>4. To(r, "sql", Limit(Program(Kind[r])[next])) /\ req'[r].at = next
            BY <3>1, <3>2, <3>3, EnterTo DEF Pcs
        <3>5. NextSql(r)
            BY <1>8, <3>1, <3>4 DEF StatementEnds, NextSql, next
        <3> QED BY <1>8, <3>2, <3>5 DEF StatementEnds, Works
    <2> QED BY <2>1, <2>2
<1>9. CASE StatementCancelled(r)
    BY <1>9, AnswerTo DEF StatementCancelled, Works, Answers, Unavailable
<1>10. CASE ConnectionLost(r)
    BY <1>10, AnswerTo DEF ConnectionLost, Fault, Works, Answers, Unavailable
<1>11. CASE Commit(r)
    BY <1>11, EnterTo, AnswerTo, TimeAssumption DEF Commit, Works, Answers, Pcs
<1>12. CASE Push(r)
    BY <1>12, AnswerTo DEF Push, Works, Answers
<1>13. CASE PushFails(r)
    BY <1>13, AnswerTo DEF PushFails, Fault, Overrun, Works, Answers
<1>14. CASE Awake(r)
    BY <1>14, EnterTo, TimeAssumption DEF Awake, AskPool, Works, Pcs
<1> QED BY <1>1, <1>2, <1>3, <1>4, <1>5, <1>6, <1>7, <1>8, <1>9, <1>10, <1>11, <1>12, <1>13, <1>14 DEF Handle

(* Counting: two sets that differ at most in r. *)
LEMMA Membership ==
    ASSUME NEW A, NEW B, NEW r, IsFiniteSet(A), A \ {r} = B \ {r}
    PROVE  /\ IsFiniteSet(B) /\ Cardinality(A) \in Nat /\ Cardinality(B) \in Nat
           /\ r \in A /\ r \in B => Cardinality(B) = Cardinality(A)
           /\ r \notin A /\ r \notin B => Cardinality(B) = Cardinality(A)
           /\ r \in A /\ r \notin B => Cardinality(B) = Cardinality(A) - 1
           /\ r \notin A /\ r \in B => Cardinality(B) = Cardinality(A) + 1
<1>1. CASE r \in A /\ r \notin B
    <2>1. B = A \ {r}
        BY <1>1
    <2> QED BY <1>1, <2>1, FS_RemoveElement, FS_CardinalityType
<1>2. CASE r \notin A /\ r \in B
    <2>1. B = A \cup {r}
        BY <1>2
    <2> QED BY <1>2, <2>1, FS_AddElement, FS_CardinalityType
<1>3. CASE r \in A <=> r \in B
    <2>1. A = B
        BY <1>3
    <2> QED BY <1>3, <2>1, FS_CardinalityType
<1> QED BY <1>1, <1>2, <1>3

(* The sets that are counted are finite, and a step of one request changes *)
(* what they say of it only.                                               *)
LEMMA Counts ==
    ASSUME IsFiniteSet(Started), NEW v \in Int
    PROVE  /\ IsFiniteSet(InThread) /\ IsFiniteSet(CheckedOut) /\ IsFiniteSet(Soon(v))
           /\ Cardinality(InThread) \in Nat /\ Cardinality(CheckedOut) \in Nat /\ Cardinality(Soon(v)) \in Nat
<1>1. InThread \subseteq Started /\ CheckedOut \subseteq Started /\ Soon(v) \subseteq Started
    BY DEF InThread, CheckedOut, Soon, Started
<1> QED BY <1>1, FS_Subset, FS_CardinalityType

LEMMA SpareType ==
    ASSUME SizeInv, NEW v \in Int
    PROVE  Spare(v) \in Int
BY Counts, SizeAssumption DEF SizeInv, Spare

LEMMA SpareTypeNext ==
    ASSUME SizeInv', NEW v \in Int
    PROVE  Spare(v)' \in Int
<1>1. /\ InThread' \subseteq Started' /\ CheckedOut' \subseteq Started' /\ Soon(v)' \subseteq Started'
      /\ IsFiniteSet(Started')
    BY DEF InThread, CheckedOut, Soon, Started, SizeInv
<1>2. Cardinality(InThread') \in Nat /\ Cardinality(CheckedOut') \in Nat /\ Cardinality(Soon(v)') \in Nat
    BY <1>1, FS_Subset, FS_CardinalityType
<1> QED BY <1>2, SizeAssumption DEF Spare

LEMMA Elsewhere ==
    ASSUME NEW r \in Requests, NEW v \in Int, Alone(r)
    PROVE  /\ Started \ {r} = Started' \ {r} /\ InThread \ {r} = InThread' \ {r}
           /\ CheckedOut \ {r} = CheckedOut' \ {r} /\ Soon(v) \ {r} = Soon(v)' \ {r}
BY DEF Alone, Started, InThread, CheckedOut, Soon

LEMMA Sizes ==
    /\ Extra \in Nat \ {0} /\ Round \in Nat /\ PushTimeout \in Nat \ {0} /\ PoolTimeout \in Nat \ {0}
    /\ ReportCost \in Nat /\ Round = ReportCost + PoolTimeout + PushTimeout
    /\ Threads \in Nat /\ PoolSize \in Nat /\ Extra = Threads - PoolSize
BY SizeAssumption, TimeAssumption DEF Extra, Round

(* A request at work leaves no less for the queue, at any time.            *)
LEMMA WorkSpares ==
    ASSUME IInv, SizeInv, TimerInv, NEW r \in Requests, Works(r), NEW v \in 0..Round - 1
    PROVE  Spare(v) <= Spare(v)' /\ SizeInv'
<1> USE Sizes
<1>0. IsFiniteSet(Started) /\ v \in Int
    BY DEF SizeInv
<1>1. Alone(r)
    BY DEF Works, NextSql, To
<1>2. /\ IsFiniteSet(InThread) /\ IsFiniteSet(CheckedOut) /\ IsFiniteSet(Soon(v))
      /\ Started \ {r} = Started' \ {r} /\ InThread \ {r} = InThread' \ {r}
      /\ CheckedOut \ {r} = CheckedOut' \ {r} /\ Soon(v) \ {r} = Soon(v)' \ {r}
    BY <1>0, <1>1, Counts, Elsewhere
<1>3. IsFiniteSet(Started')
    BY <1>0, <1>2, Membership
<1>4. r \in InThread
    BY DEF Works, NextSql, InThread
<1> DEFINE t == Cardinality(InThread)
           c == Cardinality(CheckedOut)
           s == Cardinality(Soon(v))
<1>5. t \in Nat /\ c \in Nat /\ s \in Nat /\ t <= Threads /\ c <= PoolSize
    BY <1>0, Counts DEF SizeInv
<1>6. SUFFICES /\ t' <= t /\ c' <= PoolSize
               /\ s - t - (IF v < PushTimeout THEN 0 ELSE PoolSize - c)
                    <= s' - t' - (IF v < PushTimeout THEN 0 ELSE PoolSize - c')
               /\ t' \in Nat /\ c' \in Nat /\ s' \in Nat
    BY <1>3, <1>5 DEF SizeInv, Spare
<1>7. CASE /\ req[r].pc = "pool" \/ (req[r].pc = "sleep" /\ req[r].left = 0)
           /\ FreeConnection /\ To(r, "connect", ConnectTimeout)
    <2>1. /\ r \in InThread' /\ r \notin CheckedOut /\ r \in CheckedOut' /\ r \notin Soon(v)'
          /\ v < PushTimeout => r \notin Soon(v)
        BY <1>7, TimeAssumption DEF To, InThread, CheckedOut, Soon, TimerInv
    <2>2. c < PoolSize
        BY <1>7 DEF FreeConnection
    <2>3. t' = t /\ c' = c + 1 /\ s' \in {s, s - 1} /\ (v < PushTimeout => s' = s) /\ s' \in Nat
        BY <1>2, <1>4, <2>1, Membership
    <2> QED BY <1>5, <2>2, <2>3
<1>8. CASE NextSql(r)
    <2>1. /\ r \in InThread' /\ r \in CheckedOut /\ r \in CheckedOut' /\ r \notin Soon(v)'
          /\ r \notin Soon(v)
        BY <1>8 DEF NextSql, To, InThread, CheckedOut, Soon
    <2>2. t' = t /\ c' = c /\ s' = s
        BY <1>2, <1>4, <2>1, Membership
    <2> QED BY <1>5, <2>2
<1>9. CASE req[r].pc = "sql" /\ Kind[r] = "execute" /\ To(r, "push", PushTimeout)
    <2>1. /\ r \in InThread' /\ r \in CheckedOut /\ r \notin CheckedOut'
          /\ v >= PushTimeout => r \in Soon(v)'
          /\ r \notin Soon(v)
        BY <1>9 DEF To, InThread, CheckedOut, Soon
    <2>2. t' = t /\ c' = c - 1 /\ s' \in {s, s + 1} /\ (v >= PushTimeout => s' = s + 1) /\ c' \in Nat
        BY <1>2, <1>4, <2>1, Membership
    <2> QED BY <1>5, <2>2
<1>10. CASE req[r].pc \in {"connect", "sql", "push"} /\ To(r, "done", 0)
    <2>1. r \notin InThread' /\ r \notin CheckedOut' /\ r \notin Soon(v)'
        BY <1>10 DEF To, InThread, CheckedOut, Soon
    <2>2. t' = t - 1 /\ t' \in Nat
        BY <1>2, <1>4, <2>1, Membership
    <2>3. CASE r \in CheckedOut
        <3>1. r \notin Soon(v)
            BY <2>3 DEF CheckedOut, Soon
        <3>2. c' = c - 1 /\ s' = s /\ c' \in Nat
            BY <1>2, <2>1, <2>3, <3>1, Membership
        <3> QED BY <1>5, <2>2, <3>2
    <2>4. CASE r \notin CheckedOut
        <3>1. c' = c /\ s' \in {s, s - 1} /\ s' \in Nat
            BY <1>2, <2>1, <2>4, Membership
        <3> QED BY <1>5, <2>2, <3>1
    <2> QED BY <2>3, <2>4
<1>11. CASE req[r].pc = "pool" /\ req[r].left = 0 /\ To(r, "done", 0)
    <2>1. /\ r \notin InThread' /\ r \notin CheckedOut /\ r \notin CheckedOut' /\ r \notin Soon(v)'
        BY <1>11 DEF To, InThread, CheckedOut, Soon
    <2>2. t' = t - 1 /\ t' \in Nat /\ c' = c /\ s' \in {s, s - 1} /\ s' \in Nat
        BY <1>2, <1>4, <2>1, Membership
    <2> QED BY <1>5, <2>2
<1>12. CASE req[r].pc = "sleep" /\ req[r].left = 0 /\ To(r, "pool", PoolTimeout)
    <2>1. /\ r \in InThread' /\ r \notin CheckedOut /\ r \notin CheckedOut'
          /\ r \in Soon(v) <=> r \in Soon(v)'
        BY <1>12 DEF To, InThread, CheckedOut, Soon
    <2>2. t' = t /\ c' = c /\ s' = s
        BY <1>2, <1>4, <2>1, Membership
    <2> QED BY <1>5, <2>2
<1> QED BY <1>7, <1>8, <1>9, <1>10, <1>11, <1>12 DEF Works

(* A request that gets a thread takes one of them.                         *)
LEMMA BeginSpares ==
    ASSUME IInv, SizeInv, TimerInv, NEW r \in Requests, Begins(r), NEW v \in 0..Round - 1
    PROVE  Spare(v) - 1 <= Spare(v)' /\ SizeInv'
<1> USE Sizes
<1>0. IsFiniteSet(Started) /\ v \in Int
    BY DEF SizeInv
<1>1. Alone(r)
    BY DEF Begins, To
<1>2. /\ IsFiniteSet(InThread) /\ IsFiniteSet(CheckedOut) /\ IsFiniteSet(Soon(v))
      /\ Started \ {r} = Started' \ {r} /\ InThread \ {r} = InThread' \ {r}
      /\ CheckedOut \ {r} = CheckedOut' \ {r} /\ Soon(v) \ {r} = Soon(v)' \ {r}
    BY <1>0, <1>1, Counts, Elsewhere
<1>3. IsFiniteSet(Started')
    BY <1>0, <1>2, Membership
<1>4. r \notin InThread /\ r \notin CheckedOut /\ r \notin Soon(v)
    BY DEF Begins, InThread, CheckedOut, Soon
<1> DEFINE t == Cardinality(InThread)
           c == Cardinality(CheckedOut)
           s == Cardinality(Soon(v))
<1>5. t \in Nat /\ c \in Nat /\ s \in Nat /\ t < Threads /\ c <= PoolSize
    <2>1. Cardinality(InThread) # Threads
        BY DEF Begins, Busy
    <2> QED BY <1>0, <2>1, Counts DEF SizeInv
<1>6. SUFFICES /\ t' <= Threads /\ c' <= PoolSize
               /\ s - t - (IF v < PushTimeout THEN 0 ELSE PoolSize - c) - 1
                    <= s' - t' - (IF v < PushTimeout THEN 0 ELSE PoolSize - c')
               /\ t' \in Nat /\ c' \in Nat /\ s' \in Nat
    BY <1>3, <1>5 DEF SizeInv, Spare
<1>7. CASE To(r, "done", 0)
    <2>1. r \notin InThread' /\ r \notin CheckedOut' /\ r \notin Soon(v)'
        BY <1>7 DEF To, InThread, CheckedOut, Soon
    <2>2. t' = t /\ c' = c /\ s' = s
        BY <1>2, <1>4, <2>1, Membership
    <2> QED BY <1>5, <2>2
<1>8. CASE FreeConnection /\ To(r, "connect", ConnectTimeout)
    <2>1. r \in InThread' /\ r \in CheckedOut' /\ r \notin Soon(v)'
        BY <1>8 DEF To, InThread, CheckedOut, Soon
    <2>2. t' = t + 1 /\ c' = c + 1 /\ s' = s
        BY <1>2, <1>4, <2>1, Membership
    <2>3. c < PoolSize
        BY <1>8 DEF FreeConnection
    <2> QED BY <1>5, <2>2, <2>3
<1>9. CASE To(r, "pool", PoolTimeout) \/ To(r, "sleep", ReportCost)
    <2>1. r \in InThread' /\ r \notin CheckedOut'
        BY <1>9 DEF To, InThread, CheckedOut
    <2>2. t' = t + 1 /\ c' = c /\ s' \in {s, s + 1}
        BY <1>2, <1>4, <2>1, Membership
    <2> QED BY <1>5, <2>2
<1> QED BY <1>7, <1>8, <1>9 DEF Begins

(* One that has to wait takes nothing yet.                                 *)
LEMMA QueueSpares ==
    ASSUME IInv, SizeInv, TimerInv, NEW r \in Requests, Queues(r), NEW v \in 0..Round - 1
    PROVE  Spare(v)' = Spare(v) /\ SizeInv'
<1> USE Sizes
<1>0. IsFiniteSet(Started) /\ v \in Int
    BY DEF SizeInv
<1>1. Alone(r)
    BY DEF Queues
<1>2. /\ Started \ {r} = Started' \ {r} /\ InThread \ {r} = InThread' \ {r}
      /\ CheckedOut \ {r} = CheckedOut' \ {r} /\ Soon(v) \ {r} = Soon(v)' \ {r}
    BY <1>0, <1>1, Elsewhere
<1>3. IsFiniteSet(Started')
    BY <1>0, <1>2, Membership
<1>4. /\ r \notin InThread /\ r \notin CheckedOut /\ r \notin Soon(v)
      /\ r \notin InThread' /\ r \notin CheckedOut' /\ r \notin Soon(v)'
    BY DEF Queues, InThread, CheckedOut, Soon
<1>5. InThread' = InThread /\ CheckedOut' = CheckedOut /\ Soon(v)' = Soon(v)
    BY <1>2, <1>4
<1> QED BY <1>3, <1>5 DEF SizeInv, Spare

----------------------------------------------------------------------------
LEMMA Rounds ==
    ASSUME NEW a \in Nat, NEW k \in Nat
    PROVE  /\ a * k \in Nat /\ a * (k + 1) = a * k + a
           /\ k # 0 => k - 1 \in Nat /\ a * (k - 1) = a * k - a
OBVIOUS

LEMMA Division ==
    ASSUME NEW n \in Nat, NEW a \in Nat \ {0}
    PROVE  /\ n \div a \in Nat
           /\ n + 1 <= a * (n \div a) + a
OBVIOUS

(* The place a request got stays good enough while the spare threads stay. *)
LEMMA EnoughKept ==
    ASSUME SizeInv, SizeInv', NEW r, NEW i \in Nat, NEW j \in Nat, NEW d \in {0, 1}, Enough(r, i),
           req'[r] = req[r], i - d = j,
           \A v \in 0..Round - 1 : Spare(v) - d <= Spare(v)'
    PROVE  Enough(r, j)'
<1>1. PICK k \in Nat, v \in 0..Round - 1 :
           /\ req[r].left = Round * k + v
           /\ i <= Extra * k + Extra
           /\ i <= Extra * k + Spare(v)
    BY DEF Enough
<1>2. v \in Int /\ Extra * k \in Nat /\ Extra \in Nat
    BY Sizes, Rounds
<1>3. Spare(v) \in Int /\ Spare(v)' \in Int
    BY <1>2, SpareType, SpareTypeNext
<1>4. j <= Extra * k + Extra /\ j <= Extra * k + Spare(v)'
    BY <1>1, <1>2, <1>3
<1> QED BY <1>1, <1>4 DEF Enough

LEMMA Waiters ==
    ASSUME IInv
    PROVE  /\ Len(waiting) \in Nat
           /\ \A i \in 1..Len(waiting) : i \in Nat /\ waiting[i] \in Requests /\ req[waiting[i]].pc = "queued"
BY ElementOfSeq, LenProperties DEF IInv, TypeInv, QueueInv

LEMMA WorkWaits ==
    ASSUME IInv, SizeInv, TimerInv, WaitInv, NEW r \in Requests, Works(r)
    PROVE  SizeInv' /\ WaitInv'
<1>0. 0 \in 0..Round - 1
    BY Sizes
<1>1. SizeInv' /\ \A v \in 0..Round - 1 : Spare(v) - 0 <= Spare(v)'
    <2>1. \A v \in 0..Round - 1 : Spare(v) <= Spare(v)' /\ SizeInv'
        BY WorkSpares
    <2>2. ASSUME NEW v \in 0..Round - 1 PROVE Spare(v) - 0 <= Spare(v)'
        <3>1. Spare(v) \in Int /\ Spare(v) <= Spare(v)'
            BY <2>1, Sizes, SpareType
        <3> QED BY <3>1
    <2> QED BY <1>0, <2>1, <2>2
<1>2. Alone(r) /\ waiting' = waiting /\ req[r].pc # "queued" /\ req'[r].pc # "queued"
    BY DEF Works, NextSql, To
<1>3. \A i \in 1..Len(waiting) : req'[waiting[i]] = req[waiting[i]]
    BY <1>2, Waiters DEF Alone
<1>4. ASSUME NEW i \in 1..Len(waiting) PROVE Enough(waiting[i], i)'
    <2>1. Enough(waiting[i], i)
        BY DEF WaitInv
    <2>2. i \in Nat /\ i - 0 = i
        BY Waiters
    <2>3. ASSUME NEW o, o = waiting[i] PROVE Enough(o, i)'
        BY <1>1, <1>3, <2>1, <2>2, <2>3, EnoughKept
    <2> QED BY <1>2, <2>3 DEF Enough
<1>5. \A o \in Requests : req'[o].pc = "queued" => req[o].pc = "queued"
    BY <1>2 DEF Alone
<1> QED BY <1>1, <1>2, <1>4, <1>5 DEF WaitInv

LEMMA BeginWaits ==
    ASSUME IInv, SizeInv, TimerInv, WaitInv, NEW r \in Requests, Begins(r)
    PROVE  SizeInv' /\ WaitInv'
<1>0. 0 \in 0..Round - 1
    BY Sizes
<1>1. SizeInv' /\ \A v \in 0..Round - 1 : Spare(v) - 1 <= Spare(v)'
    BY <1>0, BeginSpares
<1>2. Alone(r) /\ req'[r].pc # "queued"
    BY DEF Begins, To
<1>3. CASE waiting = <<>> /\ waiting' = <<>>
    <2>1. \A o \in Requests : req[o].pc # "queued"
        BY <1>3 DEF WaitInv
    <2> QED BY <1>1, <1>2, <1>3, <2>1 DEF WaitInv, Alone
<1>4. CASE waiting # <<>> /\ r = Head(waiting) /\ waiting' = Tail(waiting)
    <2>1. /\ r = waiting[1] /\ Len(waiting') = Len(waiting) - 1 /\ Len(waiting) \in Nat \ {0}
          /\ \A i \in 1..Len(waiting') : waiting'[i] = waiting[i + 1]
        BY <1>4, HeadTailProperties, EmptySeq, LenProperties DEF IInv, TypeInv
    <2>2. \A i \in 1..Len(waiting') : i + 1 \in 1..Len(waiting) /\ waiting[i + 1] # r
        BY <2>1 DEF IInv, QueueInv
    <2>3. ASSUME NEW i \in 1..Len(waiting') PROVE Enough(waiting[i], i)'
        <3>1. PICK o \in Requests : o = waiting[i + 1] /\ Enough(o, i + 1) /\ req'[o] = req[o]
            BY <1>2, <2>2, Waiters DEF WaitInv, Alone
        <3>2. i \in Nat /\ i + 1 \in Nat /\ (i + 1) - 1 = i
            BY <2>1
        <3>3. Enough(o, i)'
            BY <1>1, <3>1, <3>2, EnoughKept
        <3>4. waiting'[i] = o
            BY <2>1, <3>1
        <3> QED BY <3>3, <3>4 DEF Enough
    <2>4. ASSUME NEW o \in Requests, req'[o].pc = "queued"
          PROVE  \E i \in 1..Len(waiting') : waiting'[i] = o
        <3>1. o # r /\ req[o].pc = "queued"
            BY <1>2, <2>4 DEF Alone
        <3>2. PICK j \in 1..Len(waiting) : waiting[j] = o
            BY <3>1 DEF WaitInv
        <3>3. j # 1 /\ j - 1 \in 1..Len(waiting') /\ (j - 1) + 1 = j
            BY <2>1, <3>1, <3>2
        <3> QED BY <2>1, <3>2, <3>3
    <2> QED BY <1>1, <2>1, <2>3, <2>4 DEF WaitInv
<1> QED BY <1>3, <1>4 DEF Begins

LEMMA QueueWaits ==
    ASSUME IInv, SizeInv, TimerInv, WaitInv, NEW r \in Requests, Queues(r)
    PROVE  SizeInv' /\ WaitInv'
<1>0. 0 \in 0..Round - 1
    BY Sizes
<1>1. SizeInv' /\ \A v \in 0..Round - 1 : Spare(v) - 0 <= Spare(v)'
    <2>1. \A v \in 0..Round - 1 : Spare(v)' = Spare(v) /\ SizeInv'
        BY QueueSpares
    <2>2. \A v \in 0..Round - 1 : Spare(v) \in Int
        BY SpareType
    <2> QED BY <1>0, <2>1, <2>2
<1>n. PICK n \in Nat : n = Len(waiting)
    BY Waiters
<1>2. /\ n = Len(waiting) /\ waiting' = Append(waiting, r) /\ Alone(r) /\ req[r].pc = "idle"
      /\ req'[r].left = QueueLimit(n)
    BY <1>n DEF Queues
<1>3. /\ Len(waiting') = n + 1 /\ waiting'[n + 1] = r
      /\ \A i \in 1..n : waiting'[i] = waiting[i]
    BY <1>2, AppendProperties DEF IInv, TypeInv
<1>4. ASSUME NEW i \in 1..n PROVE Enough(waiting[i], i)'
    <2>1. PICK o \in Requests : o = waiting[i] /\ Enough(o, i) /\ req'[o] = req[o]
        BY <1>2, Waiters DEF WaitInv, Alone
    <2>2. i \in Nat /\ i - 0 = i
        BY <1>2
    <2>3. Enough(o, i)'
        BY <1>1, <2>1, <2>2, EnoughKept
    <2>4. waiting'[i] = o
        BY <1>3, <2>1
    <2> QED BY <2>3, <2>4 DEF Enough
<1>5. Enough(r, n + 1)'
    <2> DEFINE q == n \div Extra
    <2>1. q \in Nat /\ n + 1 <= Extra * q + Extra
        BY <1>2, Division, Sizes
    <2>2. QueueLimit(n) = Round * (q + 1)
        BY DEF QueueLimit, Round, Extra
    <2> HIDE DEF q
    <2>3. Extra * (q + 1) = Extra * q + Extra /\ Extra * q \in Nat /\ Round * (q + 1) \in Nat
        BY <2>1, Rounds, Sizes
    <2>4. Spare(0)' \in Nat
        <3>1. IsFiniteSet(Started')
            BY <1>1 DEF SizeInv
        <3>2. Cardinality(Soon(0)') \in Nat /\ Cardinality(InThread') \in Nat
            <4>1. InThread' \subseteq Started' /\ Soon(0)' \subseteq Started'
                BY DEF InThread, Soon, Started
            <4> QED BY <3>1, <4>1, FS_Subset, FS_CardinalityType
        <3>3. Cardinality(InThread') <= Threads
            BY <1>1 DEF SizeInv
        <3> QED BY <3>2, <3>3, Sizes DEF Spare
    <2>5. n + 1 <= Extra * (q + 1) + Extra /\ n + 1 <= Extra * (q + 1) + Spare(0)'
        BY <1>2, <2>1, <2>3, <2>4, Sizes
    <2>6. req'[r].left = Round * (q + 1) + 0 /\ q + 1 \in Nat
        BY <1>2, <2>1, <2>2, <2>3
    <2> QED BY <1>0, <2>5, <2>6 DEF Enough
<1>6. ASSUME NEW o \in Requests, req'[o].pc = "queued"
      PROVE  \E i \in 1..n + 1 : waiting'[i] = o
    <2>1. CASE o = r
        BY <1>2, <1>3, <2>1
    <2>2. CASE o # r
        <3>1. PICK j \in 1..n : waiting[j] = o
            BY <1>2, <1>6, <2>2 DEF WaitInv, Alone
        <3>2. j \in 1..n + 1
            BY <1>2
        <3> QED BY <1>3, <3>1, <3>2
    <2> QED BY <2>1, <2>2
<1>7. \A i \in 1..Len(waiting') : Enough(waiting[i], i)'
    <2>1. TAKE i \in 1..Len(waiting')
    <2>2. CASE i \in 1..n
        BY <1>4, <2>2 DEF Enough
    <2>3. CASE i = n + 1
        BY <1>3, <1>5, <2>3 DEF Enough
    <2> QED BY <1>2, <1>3, <2>2, <2>3
<1> QED BY <1>1, <1>3, <1>6, <1>7 DEF WaitInv

(* What a tick does, when nothing is due.                                  *)
LEMMA Ticks ==
    ASSUME IInv, TimerInv, Tick
    PROVE  /\ waiting' = waiting /\ req' \in [Requests -> Slot]
           /\ \A r \in Requests :
                 /\ req'[r].pc = req[r].pc /\ req'[r].at = req[r].at /\ req'[r].behind = req[r].behind
                 /\ req[r].pc \in Timed => req[r].left > 0 /\ req'[r].left = req[r].left - 1
                 /\ req[r].pc = "queued" /\ req[r].left >= 0 => req'[r].left = req[r].left - 1
           /\ InThread' = InThread /\ CheckedOut' = CheckedOut /\ Started' = Started
           /\ waiting # <<>> => Busy
<1>0. req \in [Requests -> Slot]
    BY DEF IInv, TypeInv
<1>1. /\ waiting' = waiting /\ req' \in [Requests -> Slot]
      /\ \A r \in Requests :
            /\ req'[r].pc = req[r].pc /\ req'[r].at = req[r].at /\ req'[r].behind = req[r].behind
            /\ req[r].pc \in Timed => req'[r].left = req[r].left - 1
            /\ req[r].pc = "queued" /\ req[r].left >= 0 => req'[r].left = req[r].left - 1
    BY <1>0 DEF Tick, Slot, Timed
<1>2. ASSUME NEW r \in Requests, req[r].pc \in Timed PROVE req[r].left > 0
    <2>1. req[r].left # 0
        BY <1>2 DEF Tick, Due
    <2>2. req[r].left \in Int /\ req[r].left >= 0
        BY <1>0, <1>2, TimeAssumption DEF TimerInv, Timed, Limit, Slot
    <2> QED BY <2>1, <2>2
<1>3. waiting # <<>> => Busy
    BY DEF Tick, Due
<1> QED BY <1>1, <1>2, <1>3 DEF InThread, CheckedOut, Started

(* In the last tick of a round all threads are taken, and each of those     *)
(* without a connection is due once in the round that comes.                *)
LEMMA RoundSpares ==
    ASSUME IInv, SizeInv, TimerInv, Tick, waiting # <<>>
    PROVE  Spare(0) = 0 /\ Spare(Round - 1)' = Extra
<1>1. /\ Cardinality(InThread) = Threads /\ IsFiniteSet(InThread) /\ IsFiniteSet(CheckedOut)
      /\ Cardinality(CheckedOut) \in Nat
    BY Ticks, Counts DEF Busy, SizeInv
<1>2. Soon(0) = {}
    BY Ticks, Sizes DEF Soon, Timed, TimerInv
<1>3. Spare(0) = 0
    <2>1. Cardinality(Soon(0)) = 0
        BY <1>2, FS_EmptySet, Zenon
    <2>2. Spare(0) = Cardinality(Soon(0)) + (Threads - Cardinality(InThread)) - 0
        BY Sizes DEF Spare
    <2> QED BY <1>1, <2>1, <2>2, Sizes
<1>4. Soon(Round - 1)' = InThread \ CheckedOut
    <2>1. ASSUME NEW r \in Requests, req[r].pc = "pool"
          PROVE  req'[r].left + PushTimeout <= Round - 1
        BY <2>1, Ticks, Sizes DEF TimerInv, Timed
    <2>2. ASSUME NEW r \in Requests, req[r].pc = "push"
          PROVE  req'[r].left <= Round - 1
        BY <2>2, Ticks, Sizes DEF TimerInv, Timed
    <2>3. ASSUME NEW r \in Requests, req[r].pc = "sleep"
          PROVE  req'[r].left + PoolTimeout + PushTimeout <= Round - 1
        BY <2>3, Ticks, Sizes DEF TimerInv, Timed
    <2> QED BY <2>1, <2>2, <2>3, Ticks DEF Soon, InThread, CheckedOut
<1>5. Cardinality(InThread \ CheckedOut) = Threads - Cardinality(CheckedOut)
    <2>1. InThread \cap CheckedOut = CheckedOut
        BY DEF InThread, CheckedOut
    <2> QED BY <1>1, <2>1, FS_Difference
<1>6. Spare(Round - 1)' = Cardinality(Soon(Round - 1)') + (Threads - Cardinality(InThread'))
                               - (PoolSize - Cardinality(CheckedOut'))
    BY Sizes DEF Spare
<1>7. InThread' = InThread /\ CheckedOut' = CheckedOut
    BY Ticks
<1>8. Cardinality(Soon(Round - 1)') = Threads - Cardinality(CheckedOut)
    BY <1>4, <1>5
<1>9. Spare(Round - 1)' = Cardinality(Soon(Round - 1)') + (Threads - Cardinality(InThread))
                               - (PoolSize - Cardinality(CheckedOut))
    BY <1>6, <1>7
<1> HIDE <1>4, <1>6, <1>7
<1> QED BY <1>1, <1>3, <1>8, <1>9, Sizes

LEMMA TickSpares ==
    ASSUME IInv, SizeInv, TimerInv, Tick, NEW v \in 1..Round - 1, NEW u \in 0..Round - 1, v = u + 1
    PROVE  Spare(v) <= Spare(u)'
<1>1. Soon(u)' = Soon(v)
    <2>1. \A r \in Requests : req[r].left \in Int
        BY DEF IInv, TypeInv, Slot
    <2>2. ASSUME NEW r \in Requests, req[r].pc = "pool"
          PROVE  req'[r].left + PushTimeout <= u <=> req[r].left + PushTimeout <= v
        <3>1. req'[r].left = req[r].left - 1 /\ req[r].left \in Int
            BY <2>1, <2>2, Ticks DEF Timed
        <3> QED BY <3>1, Sizes
    <2>3. ASSUME NEW r \in Requests, req[r].pc = "push"
          PROVE  req'[r].left <= u <=> req[r].left <= v
        BY <2>1, <2>3, Ticks, Sizes DEF Timed
    <2>4. ASSUME NEW r \in Requests, req[r].pc = "sleep"
          PROVE  req'[r].left + PoolTimeout + PushTimeout <= u <=> req[r].left + PoolTimeout + PushTimeout <= v
        BY <2>1, <2>4, Ticks, Sizes DEF Timed
    <2> QED BY <2>2, <2>3, <2>4, Ticks DEF Soon
<1>2. /\ Cardinality(Soon(v)) \in Nat /\ Cardinality(InThread) \in Nat
      /\ Cardinality(CheckedOut) \in Nat /\ Cardinality(CheckedOut) <= PoolSize
    BY Sizes, Counts DEF SizeInv
<1> QED BY <1>1, <1>2, Ticks, Sizes DEF Spare

LEMMA TickWaits ==
    ASSUME IInv, SizeInv, TimerInv, WaitInv, Tick
    PROVE  SizeInv' /\ WaitInv'
<1>1. SizeInv'
    BY Ticks DEF SizeInv
<1>2. ASSUME NEW i \in 1..Len(waiting), NEW r \in Requests, r = waiting[i]
      PROVE  Enough(r, i)'
    <2>1. PICK k \in Nat, v \in 0..Round - 1 :
               /\ req[r].left = Round * k + v
               /\ i <= Extra * k + Extra
               /\ i <= Extra * k + Spare(v)
        BY <1>2 DEF WaitInv, Enough
    <2>2. /\ Round * k \in Nat /\ Extra * k \in Nat /\ i \in Nat /\ i >= 1
          /\ k # 0 => /\ k - 1 \in Nat /\ Round * (k - 1) = Round * k - Round
                      /\ Extra * (k - 1) = Extra * k - Extra
        BY Rounds, Sizes, Waiters
    <2>3. req'[r].left = Round * k + v - 1
        BY <1>2, <2>1, <2>2, Ticks, Waiters
    <2>4. CASE v # 0
        <3>1. PICK u \in 0..Round - 1 : v \in 1..Round - 1 /\ v = u + 1 /\ v \in Int /\ u \in Int
            BY <2>1, <2>4, Sizes
        <3>2. Spare(v) \in Int /\ Spare(u)' \in Int
            BY <1>1, <3>1, SpareType, SpareTypeNext
        <3>3. i <= Extra * k + Spare(u)'
            <4>1. Spare(v) <= Spare(u)'
                BY <3>1, TickSpares
            <4> QED BY <2>1, <2>2, <3>2, <4>1
        <3>4. req'[r].left = Round * k + u
            BY <2>2, <2>3, <3>1
        <3> QED BY <2>1, <3>1, <3>3, <3>4 DEF Enough
    <2>5. CASE v = 0
        <3>1. waiting # <<>>
            BY <1>2, Waiters
        <3>2. Spare(v) = 0 /\ Spare(Round - 1)' = Extra
            BY <2>5, <3>1, RoundSpares
        <3>3. Extra * 0 = 0
            BY Sizes
        <3>4. k # 0 /\ i <= Extra * k
            BY <2>1, <2>2, <3>2, <3>3
        <3>5. i <= Extra * (k - 1) + Extra /\ i <= Extra * (k - 1) + Spare(Round - 1)'
            BY <2>2, <3>2, <3>4, Sizes
        <3>6. req'[r].left = Round * (k - 1) + (Round - 1) /\ Round - 1 \in 0..Round - 1
            BY <2>2, <2>3, <2>5, <3>4, Sizes
        <3> QED BY <2>2, <3>4, <3>5, <3>6 DEF Enough
    <2> QED BY <2>4, <2>5
<1>3. \A i \in 1..Len(waiting') : Enough(waiting[i], i)'
    BY <1>2, Ticks, Waiters DEF Enough
<1> QED BY <1>1, <1>3, Ticks DEF WaitInv

(* The timers of a request start at their limits.                          *)
LEMMA Limits ==
    ASSUME NEW s
    PROVE  Limit(s) \in Nat
BY TimeAssumption DEF Limit

LEMMA TimersKept ==
    ASSUME IInv, TimerInv, NEW r \in Requests, Queues(r) \/ Begins(r) \/ Works(r)
    PROVE  TimerInv'
<1>1. Alone(r)
    BY DEF Queues, Begins, Works, NextSql, To
<1>2. /\ req'[r].pc = "sleep" => req'[r].left = ReportCost
      /\ req'[r].pc = "pool" => req'[r].left = PoolTimeout
      /\ req'[r].pc = "connect" => req'[r].left = ConnectTimeout
      /\ req'[r].pc = "sql" => req'[r].left = Limit(Statement(r)')
      /\ req'[r].pc = "push" => req'[r].left = PushTimeout
      /\ req'[r].pc = "queued" => req'[r].behind
    BY DEF Queues, Begins, Works, NextSql, To, Statement
<1>3. \A o \in Requests \ {r} : Statement(o)' = Statement(o)
    BY <1>1 DEF Alone, Statement
<1>4. ASSUME NEW o \in Requests
      PROVE  /\ req'[o].pc = "sleep" => req'[o].left \in 0..ReportCost
             /\ req'[o].pc = "pool" => req'[o].left \in 0..PoolTimeout
             /\ req'[o].pc = "connect" => req'[o].left \in 0..ConnectTimeout
             /\ req'[o].pc = "sql" => req'[o].left \in 0..Limit(Statement(o)')
             /\ req'[o].pc = "push" => req'[o].left \in 0..PushTimeout
             /\ req'[o].pc = "queued" => req'[o].behind
    <2>1. CASE o = r
        <3>1. Limit(Statement(r)') \in Nat
            BY Limits
        <3> QED BY <1>2, <2>1, <3>1, TimeAssumption
    <2>2. CASE o # r
        <3>1. req'[o] = req[o] /\ Statement(o)' = Statement(o)
            BY <1>1, <1>3, <2>2 DEF Alone
        <3> QED BY <3>1 DEF TimerInv
    <2> QED BY <2>1, <2>2
<1> QED BY <1>4, Zenon DEF TimerInv

LEMMA TickTimers ==
    ASSUME IInv, TimerInv, Tick
    PROVE  TimerInv'
<1>1. \A r \in Requests : Statement(r)' = Statement(r) /\ Limit(Statement(r)) \in Nat
    BY Ticks, Limits DEF Statement
<1>2. ASSUME NEW r \in Requests
      PROVE  /\ req'[r].pc = "sleep" => req'[r].left \in 0..ReportCost
             /\ req'[r].pc = "pool" => req'[r].left \in 0..PoolTimeout
             /\ req'[r].pc = "connect" => req'[r].left \in 0..ConnectTimeout
             /\ req'[r].pc = "sql" => req'[r].left \in 0..Limit(Statement(r)')
             /\ req'[r].pc = "push" => req'[r].left \in 0..PushTimeout
             /\ req'[r].pc = "queued" => req'[r].behind
    <2>1. /\ req'[r].pc = req[r].pc /\ req'[r].behind = req[r].behind
          /\ req[r].pc \in Timed => req[r].left > 0 /\ req'[r].left = req[r].left - 1
        BY Ticks
    <2>2. \A n \in Nat : req[r].pc \in Timed /\ req[r].left \in 0..n => req'[r].left \in 0..n
        BY <2>1
    <2> QED BY <1>1, <2>1, <2>2, TimeAssumption DEF TimerInv, Timed
<1> QED BY <1>2, Zenon DEF TimerInv

LEMMA InitRoom == Init => RoomInv
<1> SUFFICES ASSUME Init PROVE RoomInv
    OBVIOUS
<1>1. \A r \in Requests : req[r].pc = "idle"
    BY DEF Init, Stage
<1>2. Started = {} /\ InThread = {} /\ CheckedOut = {}
    BY <1>1 DEF Started, InThread, CheckedOut
<1>3. SizeInv
    BY <1>2, FS_EmptySet, SizeAssumption DEF SizeInv
<1>4. TimerInv
    BY <1>1 DEF TimerInv
<1>5. WaitInv
    BY <1>1 DEF WaitInv, Init
<1> QED BY <1>3, <1>4, <1>5, SizeAssumption DEF RoomInv, ProcessInv, Init

LEMMA AbandonRoom ==
    ASSUME IInv, SizeInv, TimerInv, NEW how, Abandon(how)
    PROVE  SizeInv' /\ TimerInv' /\ WaitInv'
<1>1. /\ waiting' = <<>>
      /\ \A r \in Requests : IF req[r].pc = "idle" THEN req'[r].pc = "idle" ELSE req'[r].pc = "done"
    BY DEF Abandon, Open, Stage
<1>2. Started' = Started /\ InThread' = {} /\ CheckedOut' = {}
    BY <1>1 DEF Started, InThread, CheckedOut
<1> QED BY <1>1, <1>2, FS_EmptySet, SizeAssumption DEF SizeInv, TimerInv, WaitInv

LEMMA NextRoom == IInv /\ RoomInv /\ [Next]_vars => RoomInv'
<1> SUFFICES ASSUME IInv, RoomInv, [Next]_vars PROVE RoomInv'
    OBVIOUS
<1> USE DEF RoomInv
<1>1. ASSUME NEW r \in Requests, Handle(r) PROVE RoomInv'
    <2>1. SizeInv' /\ WaitInv' /\ TimerInv'
        BY <1>1, Shapes, QueueWaits, BeginWaits, WorkWaits, TimersKept
    <2>2. ProcessInv'
        BY <1>1, Shapes, SizeAssumption DEF ProcessInv, Counted
    <2> QED BY <2>1, <2>2
<1>2. CASE Sigterm \/ Exit \/ Start \/ UNCHANGED vars
    <2>1. UNCHANGED <<req, waiting, faults>>
        BY <1>2 DEF Sigterm, Exit, Start, vars
    <2>2. SizeInv' /\ TimerInv'
        BY <2>1 DEF SizeInv, TimerInv, Started, InThread, CheckedOut, Statement
    <2>3. WaitInv'
        <3>1. \A v : Spare(v)' = Spare(v)
            BY <2>1 DEF Spare, Soon, InThread, CheckedOut
        <3>2. \A r, i : Enough(r, i)' <=> Enough(r, i)
            BY <2>1, <3>1 DEF Enough
        <3> QED BY <2>1, <3>2 DEF WaitInv
    <2>4. ProcessInv'
        BY <1>2, <2>1, TimeAssumption DEF ProcessInv, Sigterm, Exit, Start, vars
    <2> QED BY <2>2, <2>3, <2>4
<1>3. CASE GracefulTimeout \/ Crash
    <2>1. SizeInv' /\ TimerInv' /\ WaitInv'
        BY <1>3, AbandonRoom DEF GracefulTimeout, Crash
    <2>2. ProcessInv'
        BY <1>3, SizeAssumption DEF ProcessInv, GracefulTimeout, Crash, Abandon, Fault
    <2> QED BY <2>1, <2>2
<1>4. CASE Tick
    <2>1. ProcessInv'
        BY <1>4 DEF ProcessInv, Tick
    <2> QED BY <1>4, <2>1, TickWaits, TickTimers
<1> QED BY <1>1, <1>2, <1>3, <1>4 DEF Next, Process

LEMMA RoomInvariance == Spec => []RoomInv
<1> QED BY InitRoom, NextRoom, Invariance, PTL DEF Spec

----------------------------------------------------------------------------
(* The pool never has more connections out than it was given (db.py), and   *)
(* every variable keeps its type.                                           *)
THEOREM PoolHolds == Spec => []TypeOK
<1>1. IInv /\ RoomInv => TypeOK
    <2> SUFFICES ASSUME IInv, RoomInv PROVE TypeOK
        OBVIOUS
    <2>1. Cardinality({r \in Requests : req[r].pc \in {"connect", "sql"}}) <= PoolSize
        BY DEF RoomInv, SizeInv, CheckedOut
    <2>2. rows \subseteq Requests /\ jobs \subseteq Requests
        BY DEF IInv, TypeInv
    <2> QED BY <2>1, <2>2 DEF IInv, TypeInv, RoomInv, ProcessInv, TypeOK, Slot, Pcs, Given
<1> QED BY <1>1, Invariance, RoomInvariance, PTL

(* config.py: whatever PostgreSQL and Redis do, a request gets a thread, or *)
(* leaves, within the time that those ahead of it need with the delay of a  *)
(* report and the limits of the pool and of Redis, and the limits of        *)
(* PostgreSQL are not in that time.                                         *)
THEOREM ThreadsReturn == Spec => []ThreadsComeBack
<1>1. IInv /\ RoomInv => ThreadsComeBack
    <2> SUFFICES ASSUME IInv, RoomInv, NEW r \in Requests, req[r].pc = "queued"
                 PROVE  req[r].left >= 0
        BY DEF ThreadsComeBack
    <2>1. PICK k \in Nat, v \in 0..Round - 1 : req[r].left = Round * k + v
        BY DEF RoomInv, WaitInv, Enough
    <2> QED BY <2>1, Rounds, Sizes
<1> QED BY <1>1, Invariance, RoomInvariance, PTL

----------------------------------------------------------------------------
(* The limits of the short requests fit in graceful_timeout.               *)
GracefulSuffices == PoolTimeout + ConnectTimeout + StatementTimeout + CommitTime < Graceful

Short(r) == Kind[r] \in {"list", "create"} /\ ~req[r].behind

(* The ticks a short request needs at most.                                *)
Longest(r) ==
    req[r].left +
    IF req[r].pc = "pool" THEN ConnectTimeout + StatementTimeout + CommitTime
    ELSE IF req[r].pc = "connect" THEN StatementTimeout + CommitTime
    ELSE IF req[r].at = 1 THEN CommitTime ELSE 0

GraceInv ==
    /\ life = "down" => Open = {}
    /\ \A r \in Requests :
          req[r].pc \in {"pool", "connect", "sql"} /\ Short(r) /\ life = "draining" => Longest(r) < left
    /\ ShortRequestsEnd

LEMMA LongestType ==
    ASSUME TimerInv, NEW r \in Requests, req[r].pc \in {"pool", "connect", "sql"}
    PROVE  Longest(r) \in Nat /\ Limit(Statement(r)) \in Nat
BY Limits, TimeAssumption DEF TimerInv, Longest

(* In which statement, and how long, a short request can be.               *)
LEMMA ShortStatements ==
    ASSUME IInv, NEW r \in Requests, Kind[r] \in {"list", "create"}, req[r].pc = "sql"
    PROVE  /\ req[r].at \in {1, 2}
           /\ Limit(Statement(r)) <= IF req[r].at = 1 THEN StatementTimeout ELSE CommitTime
<1>1. req[r].at \in 1..Len(Program(Kind[r]))
    BY DEF IInv, StageInv
<1>2. CASE Kind[r] = "list"
    <2>1. Program(Kind[r]) = <<"select">> /\ req[r].at = 1
        BY <1>1, <1>2 DEF Program
    <2> QED BY <2>1, TimeAssumption DEF Statement, Limit
<1>3. CASE Kind[r] = "create"
    <2>1. Program(Kind[r]) = <<"insert", "commit">> /\ req[r].at \in {1, 2}
        BY <1>1, <1>3 DEF Program
    <2> QED BY <2>1, TimeAssumption DEF Statement, Limit
<1> QED BY <1>2, <1>3

LEMMA InitGrace == Init => GraceInv
BY NoneAssumption DEF Init, GraceInv, Open, Stage, ShortRequestsEnd, Gone

LEMMA HandleGrace ==
    ASSUME IInv, RoomInv, GraceInv, NEW r \in Requests, Handle(r)
    PROVE  GraceInv'
<1>0. TimerInv /\ life # "down"
    BY Shapes DEF RoomInv, GraceInv, Open, Queues, Begins, Works, NextSql
<1>1. /\ Alone(r) /\ req[r].pc # "done" /\ UNCHANGED <<life, left>>
      /\ answer' = answer \/ \E a \in Answers : answer' = [answer EXCEPT ![r] = a]
      /\ Queues(r) \/ Begins(r) \/ Works(r)
    BY Shapes DEF Queues, Begins, Works, NextSql, To
<1>2. ShortRequestsEnd'
    <2> SUFFICES ASSUME NEW o \in Requests, answer'[o] = "cut"
                 PROVE  Kind[o] \in {"execute", "report"} \/ req'[o].behind
        BY DEF ShortRequestsEnd
    <2>1. answer[o] = "cut"
        BY <1>1 DEF Answers, Unavailable, IInv, TypeInv
    <2>2. req[o].pc = "done"
        BY <2>1, NoneAssumption DEF IInv, StageInv, Gone
    <2>3. req'[o] = req[o]
        BY <1>1, <2>2 DEF Alone
    <2> QED BY <2>1, <2>3 DEF GraceInv, ShortRequestsEnd
<1>3. ASSUME NEW o \in Requests, o # r, req'[o].pc \in {"pool", "connect", "sql"}, Short(o)', life = "draining"
      PROVE  Longest(o)' < left
    <2>1. req'[o] = req[o]
        BY <1>1, <1>3 DEF Alone
    <2> QED BY <1>3, <2>1 DEF GraceInv, Short, Longest
<1>4. ASSUME req'[r].pc \in {"pool", "connect", "sql"}, Short(r)', life = "draining"
      PROVE  Longest(r)' < left
    <2>0. Works(r) /\ Short(r)
        BY <1>0, <1>1, <1>4 DEF Queues, Begins, Works, NextSql, To, TimerInv, Short
    <2>1. /\ left \in Nat
          /\ req[r].pc \in {"pool", "connect", "sql"} => Longest(r) \in Nat /\ Longest(r) < left
        BY <1>4, <2>0, LongestType DEF GraceInv, RoomInv, ProcessInv
    <2>2. CASE req[r].pc = "pool" /\ To(r, "connect", ConnectTimeout)
        <3>1. Longest(r)' <= Longest(r)
            BY <1>0, <2>2, TimeAssumption DEF To, Longest, TimerInv
        <3>2. Longest(r)' \in Nat
            BY <2>2, TimeAssumption DEF To, Longest
        <3> QED BY <2>1, <2>2, <3>1, <3>2
    <2>3. CASE NextSql(r)
        <3>1. Kind[r] \in {"list", "create"} /\ req'[r].pc = "sql"
            BY <2>0, <2>3 DEF NextSql, To, Short
        <3>2. CASE req[r].pc = "connect" /\ req'[r].at = 1
            <4>1. req'[r].left = StatementTimeout
                BY <2>3, <3>1, <3>2 DEF NextSql, To, Program, Limit
            <4> QED BY <1>0, <2>1, <3>1, <3>2, <4>1, TimeAssumption DEF Longest, TimerInv
        <3>3. CASE req[r].pc = "sql" /\ req'[r].at = req[r].at + 1 /\ Statement(r) # "commit"
            <4>1. req[r].at = 1 /\ Kind[r] = "create"
                BY <2>3, <3>1, <3>3, ShortStatements DEF NextSql, Program, Statement
            <4>2. req'[r].left = CommitTime
                BY <2>3, <3>3, <4>1 DEF NextSql, To, Program, Limit
            <4> QED BY <1>0, <2>1, <3>1, <3>3, <4>1, <4>2, TimeAssumption DEF Longest, TimerInv
        <3> QED BY <2>3, <3>2, <3>3 DEF NextSql
    <2>4. req[r].pc # "sleep"
        BY <2>0 DEF Short, IInv, StageInv
    <2> QED BY <1>4, <2>0, <2>2, <2>3, <2>4 DEF Works, To
<1> QED BY <1>0, <1>1, <1>2, <1>3, <1>4 DEF GraceInv

LEMMA ProcessGrace ==
    ASSUME GracefulSuffices, IInv, RoomInv, GraceInv, Process
    PROVE  GraceInv'
<1>0. TimerInv
    BY DEF RoomInv
<1>1. CASE Sigterm
    <2>1. ASSUME NEW r \in Requests, req[r].pc \in {"pool", "connect", "sql"}, Short(r)
          PROVE  Longest(r) < Graceful
        <3>1. CASE req[r].pc # "sql"
            BY <1>0, <2>1, <3>1, TimeAssumption DEF Longest, TimerInv, GracefulSuffices
        <3>2. CASE req[r].pc = "sql"
            <4>1. Limit(Statement(r)) \in Nat /\ req[r].left \in 0..Limit(Statement(r))
                BY <1>0, <2>1, <3>2, LongestType DEF TimerInv
            <4>2. /\ req[r].at \in {1, 2}
                  /\ Limit(Statement(r)) <= IF req[r].at = 1 THEN StatementTimeout ELSE CommitTime
                BY <2>1, <3>2, ShortStatements DEF Short
            <4> QED BY <3>2, <4>1, <4>2, TimeAssumption DEF Longest, GracefulSuffices
        <3> QED BY <3>1, <3>2
    <2>2. UNCHANGED <<req, answer>> /\ life' = "draining" /\ left' = Graceful
        BY <1>1 DEF Sigterm
    <2> QED BY <2>1, <2>2 DEF GraceInv, Short, Longest, ShortRequestsEnd
<1>2. CASE Exit \/ Start
    BY <1>2 DEF Exit, Start, GraceInv, Open, ShortRequestsEnd
<1>3. ASSUME NEW how, Abandon(how), how = "lost" \/ (how = "cut" /\ life = "draining" /\ left = 0)
      PROVE  GraceInv'
    <2>1. \A r \in Requests :
             IF r \in Open THEN req'[r].pc = "done" /\ answer'[r] = how /\ req'[r].behind = req[r].behind
             ELSE req'[r] = req[r] /\ answer'[r] = answer[r]
        BY <1>3 DEF Abandon, Stage
    <2>2. Open' = {} /\ life' = "down"
        BY <1>3, <2>1 DEF Abandon, Open
    <2>3. ASSUME NEW r \in Requests, answer'[r] = "cut"
          PROVE  Kind[r] \in {"execute", "report"} \/ req'[r].behind
        <3>1. CASE r \notin Open
            BY <2>1, <2>3, <3>1 DEF GraceInv, ShortRequestsEnd
        <3>2. CASE r \in Open
            <4>1. life = "draining" /\ left = 0
                BY <1>3, <2>1, <2>3, <3>2
            <4>2. CASE req[r].pc \in {"pool", "connect", "sql"}
                <5>1. Longest(r) \in Nat
                    BY <1>0, <4>2, LongestType
                <5>2. ~Short(r)
                    BY <4>1, <4>2, <5>1 DEF GraceInv
                <5>3. Kind[r] \in Kinds /\ Kind[r] # "livez"
                    BY <4>2, RequestAssumption DEF IInv, StageInv
                <5> QED BY <2>1, <3>2, <5>2, <5>3 DEF Short, Kinds
            <4>3. CASE req[r].pc = "push"
                BY <4>3 DEF IInv, StageInv
            <4>4. CASE req[r].pc = "queued"
                BY <1>0, <2>1, <3>2, <4>4 DEF TimerInv
            <4>5. CASE req[r].pc = "sleep"
                BY <4>5 DEF IInv, StageInv
            <4> QED BY <3>2, <4>2, <4>3, <4>4, <4>5 DEF Open, IInv, TypeInv, Slot, Pcs
        <3> QED BY <3>1, <3>2
    <2> QED BY <2>2, <2>3 DEF GraceInv, ShortRequestsEnd
<1>4. CASE GracefulTimeout \/ Crash
    BY <1>3, <1>4 DEF GracefulTimeout, Crash
<1> QED BY <1>1, <1>2, <1>4 DEF Process

LEMMA TickGrace ==
    ASSUME IInv, RoomInv, GraceInv, Tick
    PROVE  GraceInv'
<1>0. TimerInv /\ left \in Nat
    BY DEF RoomInv, ProcessInv
<1>1. UNCHANGED <<life, answer>> /\ (life = "draining" => left # 0 /\ left' = left - 1)
    BY <1>0 DEF Tick, Due
<1>2. Open' = Open
    BY <1>0, Ticks DEF Open
<1>3. ShortRequestsEnd'
    BY <1>0, <1>1, Ticks DEF GraceInv, ShortRequestsEnd
<1>4. ASSUME NEW r \in Requests, req'[r].pc \in {"pool", "connect", "sql"}, Short(r)', life = "draining"
      PROVE  Longest(r)' < left'
    <2>1. /\ req'[r].pc = req[r].pc /\ req'[r].at = req[r].at /\ req'[r].behind = req[r].behind
          /\ req'[r].left = req[r].left - 1 /\ req[r].left \in Int
        BY <1>0, <1>4, Ticks DEF Timed, IInv, TypeInv, Slot
    <2>2. Longest(r)' = Longest(r) - 1
        BY <2>1, TimeAssumption DEF Longest
    <2>3. Longest(r) \in Nat /\ Longest(r) < left
        BY <1>0, <1>4, <2>1, LongestType DEF GraceInv, Short
    <2> QED BY <1>0, <1>1, <1>4, <2>2, <2>3
<1> QED BY <1>1, <1>2, <1>3, <1>4 DEF GraceInv

(* gunicorn.conf.py: graceful_timeout covers every request that fits in it  *)
(* by its limits, so that SIGTERM cuts off only executes, reports and those *)
(* that had to wait for a thread.                                           *)
THEOREM ShortOnesEnd == GracefulSuffices => (Spec => []ShortRequestsEnd)
<1>1. GracefulSuffices /\ IInv /\ RoomInv /\ GraceInv /\ [Next]_vars => GraceInv'
    <2> SUFFICES ASSUME GracefulSuffices, IInv, RoomInv, GraceInv, [Next]_vars PROVE GraceInv'
        OBVIOUS
    <2>1. CASE UNCHANGED vars
        BY <2>1 DEF vars, GraceInv, Open, Short, Longest, ShortRequestsEnd
    <2> QED BY <2>1, HandleGrace, ProcessGrace, TickGrace DEF Next
<1>2. GraceInv => ShortRequestsEnd
    BY DEF GraceInv
<1>3. GracefulSuffices => []GracefulSuffices
    OBVIOUS
<1> QED BY <1>1, <1>2, <1>3, InitGrace, Invariance, RoomInvariance, PTL DEF Spec
=============================================================================
