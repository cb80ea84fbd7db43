------------------------ MODULE PayoutPipelineProofs ------------------------
(***************************************************************************)
(* What is proved about the pipeline for any number of settlements,        *)
(* workers, threads, attempts and faults. First its lists and its types.   *)
(***************************************************************************)
EXTENDS PayoutPipeline, SequenceTheorems, FiniteSetTheorems, WellFoundedInduction, TLAPS

----------------------------------------------------------------------------
(* What the Redis list commands do to a sequence. The left end of the list *)
(* is the first element:                                                    *)
(*   LPUSH  Cons(x, s)         LMOVE and BLMOVE take Last(s), leave Front(s) *)
(*   RPUSH  Append(s, x)       LREM s 1 x is RemoveFirst(s, x)             *)

(* LPUSH keeps the list a list, and puts its element first. *)
LEMMA ConsProperties ==
    ASSUME NEW S, NEW s \in Seq(S), NEW x \in S
    PROVE  /\ Cons(x, s) \in Seq(S)
           /\ Len(Cons(x, s)) = Len(s) + 1
           /\ Cons(x, s)[1] = x
           /\ \A i \in 1..Len(s) : Cons(x, s)[i + 1] = s[i]
  BY DEF Cons

(* Taking the right end leaves the rest of the list. *)
LEMMA FrontLastProperties ==
    ASSUME NEW S, NEW s \in Seq(S), s # <<>>
    PROVE  /\ Front(s) \in Seq(S)
           /\ Last(s) \in S
           /\ Len(Front(s)) = Len(s) - 1
           /\ \A i \in 1..(Len(s) - 1) : Front(s)[i] = s[i]
           /\ Last(s) = s[Len(s)]
<1>1. Len(s) \in Nat \ {0}
  BY EmptySeq, LenProperties
<1> DEFINE f == SubSeq(s, 1, Len(s) - 1)
<1>2. f \in Seq(S) /\ Len(f) = Len(s) - 1 /\ \A i \in 1..(Len(s) - 1) : f[i] = s[i]
  <2>1. \A i \in 1..(Len(s) - 1) : s[i] \in S
    BY <1>1, ElementOfSeq
  <2>2. \A i \in 1..((Len(s) - 1) - 1 + 1) : SubSeq(s, 1, Len(s) - 1)[i] = s[1 + i - 1]
    BY <1>1, <2>1, SubSeqProperties
  <2>3. f \in Seq(S) /\ Len(f) = IF 1 <= Len(s) - 1 THEN (Len(s) - 1) - 1 + 1 ELSE 0
    BY <1>1, <2>1, SubSeqProperties
  <2>4. \A i \in 1..(Len(s) - 1) : SubSeq(s, 1, Len(s) - 1)[i] = s[i]
    <3>1. TAKE i \in 1..(Len(s) - 1)
    <3>2. i \in 1..((Len(s) - 1) - 1 + 1) /\ 1 + i - 1 = i
      BY <1>1
    <3> QED BY <2>2, <3>2
  <2>5. Len(f) = Len(s) - 1
    <3> HIDE DEF f
    <3> QED BY <1>1, <2>3
  <2> QED BY <2>3, <2>4, <2>5
<1>3. s[Len(s)] \in S
  BY <1>1, ElementOfSeq
<1> HIDE DEF f
<1>4. Front(s) = f /\ Last(s) = s[Len(s)]
  BY DEF Front, Last, f
<1> QED BY <1>2, <1>3, <1>4

(* Removing position i keeps every other element. *)
LEMMA RemoveAtProperties ==
    ASSUME NEW S, NEW s \in Seq(S), NEW i \in 1..Len(s)
    PROVE  /\ RemoveAt(s, i) \in Seq(S)
           /\ Len(RemoveAt(s, i)) = Len(s) - 1
           /\ \A j \in 1..(i - 1) : RemoveAt(s, i)[j] = s[j]
           /\ \A j \in (i + 1)..Len(s) : RemoveAt(s, i)[j - 1] = s[j]
<1> DEFINE left == SubSeq(s, 1, i - 1)
           right == SubSeq(s, i + 1, Len(s))
<1>0. Len(s) \in Nat /\ i \in Nat
  BY LenProperties
<1>1. left \in Seq(S) /\ Len(left) = i - 1 /\ \A j \in 1..(i - 1) : left[j] = s[j]
  BY <1>0, SubSeqProperties
<1>2. right \in Seq(S) /\ Len(right) = Len(s) - i
  BY <1>0, SubSeqProperties
<1>3. \A j \in (i + 1)..Len(s) : right[j - i] = s[j]
  BY <1>0, SubSeqProperties
<1> HIDE DEF left, right
<1>4. /\ left \o right \in Seq(S)
      /\ Len(left \o right) = Len(left) + Len(right)
      /\ \A k \in 1..(Len(left) + Len(right)) :
            (left \o right)[k] = IF k <= Len(left) THEN left[k] ELSE right[k - Len(left)]
  BY <1>1, <1>2, ConcatProperties
<1>5. RemoveAt(s, i) = left \o right
  BY DEF RemoveAt, left, right
<1>6. ASSUME NEW j \in (i + 1)..Len(s)
      PROVE  (left \o right)[j - 1] = s[j]
  <2>1. j - 1 \in 1..(Len(left) + Len(right)) /\ ~ (j - 1 <= Len(left))
    BY <1>0, <1>1, <1>2
  <2>2. (j - 1) - Len(left) = j - i
    BY <1>0, <1>1
  <2> QED BY <1>3, <1>4, <2>1, <2>2
<1>7. ASSUME NEW j \in 1..(i - 1)
      PROVE  (left \o right)[j] = s[j]
  BY <1>0, <1>1, <1>2, <1>4
<1>8. Len(left) + Len(right) = Len(s) - 1
  BY <1>0, <1>1, <1>2
<1> QED BY <1>4, <1>5, <1>6, <1>7, <1>8

(* A nonempty set of positions has a least one. *)
LEMMA LeastPosition ==
    ASSUME NEW I \in SUBSET Nat, I # {}
    PROVE  \E m \in I : \A y \in I : m =< y
<1> DEFINE R == OpToRel(<, Nat)
<1>1. IsWellFoundedOn(R, Nat)
  BY NatLessThanWellFounded
<1>2. \A x, y \in Nat : ~ (<<y, x>> \in R) => x =< y
  BY DEF OpToRel
<1> HIDE DEF R
<1>3. \E m \in I : \A y \in I : ~ (<<y, m>> \in R)
  BY <1>1, WFMin
<1> QED BY <1>2, <1>3

(* LREM s 1 x: a list of the same kind, with every element but an x. *)
LEMMA RemoveFirstProperties ==
    ASSUME NEW S, NEW s \in Seq(S), NEW x
    PROVE  /\ RemoveFirst(s, x) \in Seq(S)
           /\ \A j \in 1..Len(s) : s[j] # x =>
                 \E k \in 1..Len(RemoveFirst(s, x)) : RemoveFirst(s, x)[k] = s[j]
<1>1. CASE \E i \in 1..Len(s) : s[i] = x
  <2> DEFINE I == {i \in 1..Len(s) : s[i] = x}
             n == CHOOSE m \in I : \A y \in I : m =< y
  <2>0. Len(s) \in Nat
    BY LenProperties
  <2>1. n \in I
    <3>1. I \in SUBSET Nat /\ I # {}
      BY <1>1, <2>0
    <3> QED BY <3>1, LeastPosition
  <2>2. RemoveFirst(s, x) = RemoveAt(s, n)
    BY <1>1 DEF RemoveFirst, SelectInSeq, Min
  <2>3. n \in 1..Len(s) /\ s[n] = x
    BY <2>1
  <2> HIDE DEF n
  <2>4. /\ RemoveAt(s, n) \in Seq(S) /\ Len(RemoveAt(s, n)) = Len(s) - 1
        /\ \A j \in 1..(n - 1) : RemoveAt(s, n)[j] = s[j]
        /\ \A j \in (n + 1)..Len(s) : RemoveAt(s, n)[j - 1] = s[j]
    BY <2>3, RemoveAtProperties
  <2>5. ASSUME NEW j \in 1..Len(s), s[j] # x
        PROVE  \E k \in 1..Len(RemoveAt(s, n)) : RemoveAt(s, n)[k] = s[j]
    <3>1. CASE j < n
      BY <2>0, <2>3, <2>4, <3>1
    <3>2. CASE j > n
      <4>1. j - 1 \in 1..Len(RemoveAt(s, n)) /\ RemoveAt(s, n)[j - 1] = s[j]
        BY <2>0, <2>3, <2>4, <3>2
      <4> QED BY <4>1
    <3> QED BY <2>0, <2>3, <2>5, <3>1, <3>2
  <2> QED BY <2>2, <2>4, <2>5
<1>2. CASE ~ \E i \in 1..Len(s) : s[i] = x
  BY <1>2 DEF RemoveFirst
<1> QED BY <1>1, <1>2

(* An enumeration of a finite set is a list of its elements, each of them  *)
(* once.                                                                   *)
LEMMA EnumerationProperties ==
    ASSUME NEW T, IsFiniteSet(T), NEW q \in SetToSeqs(T)
    PROVE  /\ q \in Seq(T)
           /\ \A x \in T : \E i \in 1..Len(q) : q[i] = x
           /\ \A i \in 1..Len(q) : q[i] \in T
           /\ \A i, j \in 1..Len(q) : q[i] = q[j] => i = j
<1> DEFINE D == 1..Cardinality(T)
<1>1. Cardinality(T) \in Nat
  BY FS_CardinalityType
<1>2. q \in [D -> T] /\ \A i, j \in D : i # j => q[i] # q[j]
  BY DEF SetToSeqs
<1>3. q \in Seq(T) /\ Len(q) = Cardinality(T)
  BY <1>1, <1>2, IsASeq, LenProperties
<1>4. q \in Injection(D, T)
  BY <1>2 DEF Injection, IsInjective
<1>5. IsFiniteSet(D) /\ Cardinality(D) = Cardinality(T)
  BY <1>1, FS_Interval
<1>6. q \in Surjection(D, T)
  BY <1>4, <1>5, FS_Injection
<1> QED BY <1>2, <1>3, <1>6 DEF Surjection

LEMMA SetToSeqsProperties ==
    ASSUME NEW S, NEW T \in SUBSET S, IsFiniteSet(T), NEW q \in SetToSeqs(T)
    PROVE  /\ q \in Seq(S)
           /\ \A x \in T : \E i \in 1..Len(q) : q[i] = x
<1>1. /\ q \in Seq(T) /\ \A x \in T : \E i \in 1..Len(q) : q[i] = x
      /\ \A i \in 1..Len(q) : q[i] \in T
  BY EnumerationProperties
<1>2. q \in Seq(S)
  <2>1. Len(q) \in Nat /\ q \in [1..Len(q) -> T]
    BY <1>1, LenProperties
  <2>2. q \in [1..Len(q) -> S]
    BY <2>1
  <2> QED BY <2>1, <2>2, IsASeq
<1> QED BY <1>1, <1>2

----------------------------------------------------------------------------
(* A thread that is not idle has a job in hand, and past the claim its key *)
(* and the bank's answer; a pass that moves jobs knows whose.              *)
ThreadInHand(t) ==
    /\ thread[t].pc # "idle" => thread[t].job \in Job
    /\ thread[t].pc \in {"await", "replied"} => thread[t].key \in Keys
    /\ thread[t].pc = "replied" => thread[t].ref \in Refs

InHand ==
    /\ \A t \in Threads : ThreadInHand(t)
    /\ \A w \in Workers : hk[w].pc = "move" => hk[w].from \in Workers

TypeInv == TypeOK /\ InHand

ThreadsOK == thread \in [Threads -> Hand] /\ \A t \in Threads : ThreadInHand(t)

(* A thread that drops key and answer and keeps its job stays well typed. *)
LEMMA GotoOK ==
    ASSUME TypeInv, NEW t \in Threads, NEW step \in {"ack", "retry", "reject"},
           thread[t].pc # "idle", Goto(t, step)
    PROVE  ThreadsOK'
<1>1. thread[t].job \in Job
  BY DEF TypeInv, InHand, ThreadInHand
<1> DEFINE new == At(step, thread[t].job)
<1>2. thread' = [thread EXCEPT ![t] = new]
  BY DEF Goto, JobOf
<1>3. new \in Hand /\ new.pc = step /\ new.job \in Job
  BY <1>1 DEF Hand, At
<1>4. thread \in [Threads -> Hand]
  BY DEF TypeInv, TypeOK, Hand
<1> HIDE DEF new
<1> QED BY <1>2, <1>3, <1>4 DEF TypeInv, InHand, ThreadInHand, ThreadsOK

(* So does a thread that goes back to the pool. *)
LEMMA ReleaseOK ==
    ASSUME TypeInv, NEW t \in Threads, Release(t)
    PROVE  ThreadsOK'
<1>1. Idle \in Hand /\ Idle.pc = "idle"
  BY DEF Hand, Idle, At
<1>2. thread \in [Threads -> Hand]
  BY DEF TypeInv, TypeOK, Hand
<1> QED BY <1>1, <1>2 DEF TypeInv, InHand, ThreadInHand, ThreadsOK, Release

(* LREM leaves every processing list a list of jobs. *)
LEMMA UnprocessOK ==
    ASSUME TypeInv, NEW t \in Threads, Unprocess(t)
    PROVE  processing' \in [Workers -> Seq(Job)]
<1>1. t[1] \in Workers
  BY DEF Threads
<1>2. processing \in [Workers -> Seq(Job)]
  BY DEF TypeInv, TypeOK
<1>3. RemoveFirst(processing[t[1]], JobOf(t)) \in Seq(Job)
  BY <1>1, <1>2, RemoveFirstProperties
<1> QED BY <1>1, <1>2, <1>3 DEF Unprocess

(* BLMOVE leaves both lists lists of jobs, and gives the loop a job. *)
LEMMA BlmoveOK ==
    ASSUME TypeInv, NEW w \in Workers, Blmove(w)
    PROVE  /\ jobs' \in Seq(Job)
           /\ processing' \in [Workers -> Seq(Job)]
           /\ status' \in [Workers -> WorkerStates]
           /\ Last(jobs) \in Job
<1>1. /\ jobs \in Seq(Job) /\ jobs # <<>> /\ processing \in [Workers -> Seq(Job)]
      /\ status \in [Workers -> WorkerStates]
  BY DEF TypeInv, TypeOK, Blmove
<1>2. Front(jobs) \in Seq(Job) /\ Last(jobs) \in Job
  BY <1>1, FrontLastProperties
<1>3. Cons(Last(jobs), processing[w]) \in Seq(Job)
  BY <1>1, <1>2, ConsProperties
<1> QED BY <1>1, <1>2, <1>3 DEF Blmove, WorkerStates

(* The row after a claim, or after a mark that may not find it, is a row. *)
LEMMA ClaimRowOK ==
    ASSUME TypeInv, NEW p \in Payouts, NEW k \in Keys, ClaimRow(p, k)
    PROVE  payout' \in [Payouts -> Row]
<1>1. payout \in [Payouts -> Row]
  BY DEF TypeInv, TypeOK
<1> QED BY <1>1 DEF ClaimRow, Row

LEMMA MarkRowOK ==
    ASSUME TypeInv, NEW p \in Payouts, NEW r \in Refs, MarkRow(p, r)
    PROVE  payout' \in [Payouts -> Row]
<1>1. payout \in [Payouts -> Row]
  BY DEF TypeInv, TypeOK
<1> QED BY <1>1 DEF MarkRow, Row

(* The key a claim ends up with is a key. *)
LEMMA ClaimKeyOK ==
    ASSUME TypeInv, NEW p \in Payouts, NEW k \in ClaimKeys(p)
    PROVE  k \in Keys
  BY NoneAssumption DEF TypeInv, TypeOK, ClaimKeys, FreshKeys, Row

(* Type correctness, with what the types of the threads rest on. *)
LEMMA TypeInvariant == Spec => []TypeInv
<1> USE NoneAssumption
<1>1. Init => TypeInv
  BY EmptySeq, FS_EmptySet DEF Init, TypeInv, TypeOK, InHand, ThreadInHand,
     WorkerStates, Row, Hand, Pass, At, Idle, Asleep
<1>2. TypeInv /\ [Next]_vars => TypeInv'
  <2> SUFFICES ASSUME TypeInv, [Next]_vars PROVE TypeInv'
    OBVIOUS
  <2>1. ASSUME NEW s \in Settlements, CreateSettlement(s)
       PROVE  TypeInv'
    BY <2>1 DEF TypeInv, TypeOK, InHand, ThreadInHand, vars, database, queue, process, CreateSettlement
  <2>2. ASSUME NEW s \in Settlements, ExecuteSettlement(s)
       PROVE  TypeInv'
    BY <2>2 DEF TypeInv, TypeOK, InHand, ThreadInHand, vars, database, queue, process, ExecuteSettlement, Row
  <2>3. ASSUME NEW p \in Payouts, EnqueuePayout(p)
       PROVE  TypeInv'
    <3>1. NewJob(p) \in Job
      BY DEF NewJob, Job
    <3>2. Cons(NewJob(p), jobs) \in Seq(Job)
      BY <3>1, ConsProperties DEF TypeInv, TypeOK
    <3> QED BY <2>3, <3>2 DEF TypeInv, TypeOK, InHand, ThreadInHand, vars, database, queue, process, EnqueuePayout
  <2>4. ASSUME NEW p \in Payouts, EnqueueFails(p)
       PROVE  TypeInv'
    BY <2>4 DEF TypeInv, TypeOK, InHand, ThreadInHand, vars, database, queue, process, EnqueueFails, Fault
  <2>5. ASSUME NEW w \in Workers, StartWorker(w)
       PROVE  TypeInv'
    BY <2>5 DEF TypeInv, TypeOK, InHand, ThreadInHand, vars, database, queue, process, StartWorker, Boot, WorkerStates
  <2>6. ASSUME NEW w \in Workers, RestartInPlace(w)
       PROVE  TypeInv'
    BY <2>6 DEF TypeInv, TypeOK, InHand, ThreadInHand, vars, database, queue, process, RestartInPlace, Boot, WorkerStates
  <2>7. ASSUME NEW w \in Workers, Sigterm(w)
       PROVE  TypeInv'
    BY <2>7 DEF TypeInv, TypeOK, InHand, ThreadInHand, vars, database, queue, process, Sigterm, Fault, WorkerStates
  <2>8. ASSUME NEW w \in Workers, StopFetching(w)
       PROVE  TypeInv'
    BY <2>8 DEF TypeInv, TypeOK, InHand, ThreadInHand, vars, database, queue, process, StopFetching, WorkerStates
  <2>9. ASSUME NEW w \in Workers, NEW s \in Slots, Fetch(w, s)
       PROVE  TypeInv'
    <3> DEFINE new == At("claim", Last(jobs))
    <3>1. Blmove(w) /\ UNCHANGED faults
      BY <2>9 DEF Fetch
    <3>2. thread' = [thread EXCEPT ![<<w, s>>] = new]
      BY <2>9 DEF Fetch
    <3>3. new \in Hand /\ new.pc = "claim" /\ new.job \in Job
      BY <3>1, BlmoveOK DEF Hand, At
    <3>4. thread \in [Threads -> Hand]
      BY DEF TypeInv, TypeOK, Hand
    <3>5. ThreadsOK'
      <4> HIDE DEF new
      <4> QED BY <3>2, <3>3, <3>4 DEF TypeInv, InHand, ThreadInHand, ThreadsOK, Threads
    <3>6. UNCHANGED <<database, request, retry, dead, lease, hk, orphans, ledger>>
      BY <3>1 DEF Blmove
    <3> QED BY <3>1, <3>5, <3>6, BlmoveOK DEF TypeInv, TypeOK, InHand, ThreadInHand, vars, database, queue, process, ThreadsOK, Hand
  <2>10. ASSUME NEW w \in Workers, FetchReplyLost(w)
       PROVE  TypeInv'
    <3>1. Blmove(w) /\ UNCHANGED thread /\ faults' = faults + 1
      BY <2>10 DEF FetchReplyLost, Fault
    <3>2. UNCHANGED <<database, request, retry, dead, lease, hk, orphans, ledger>>
      BY <3>1 DEF Blmove
    <3> QED BY <3>1, <3>2, BlmoveOK DEF TypeInv, TypeOK, InHand, ThreadInHand, vars, database, queue, process, ThreadsOK, Hand
  <2>11. ASSUME NEW w \in Workers, DrainDone(w)
       PROVE  TypeInv'
    BY <2>11 DEF TypeInv, TypeOK, InHand, ThreadInHand, vars, database, queue, process, DrainDone, Fault, WorkerStates
  <2>12. ASSUME NEW w \in Workers, Exit(w)
       PROVE  TypeInv'
    BY <2>12 DEF TypeInv, TypeOK, InHand, ThreadInHand, vars, database, queue, process, Exit, Asleep, WorkerStates, Pass
  <2>13. ASSUME NEW w \in Workers, Kill(w)
       PROVE  TypeInv'
    <3>1. ThreadsOK'
      <4>1. Idle \in Hand /\ Idle.pc = "idle"
        BY DEF Hand, Idle, At
      <4>2. thread \in [Threads -> Hand]
        BY DEF TypeInv, TypeOK, Hand
      <4> QED BY <2>13, <4>1, <4>2 DEF Kill, TypeInv, InHand, ThreadInHand, ThreadsOK
    <3>2. \A u \in Waiting : RequestOf(u) \in Request
      BY DEF TypeInv, InHand, ThreadInHand, Waiting, RequestOf, PayoutOf, Job, Request
    <3>3. orphans' \in SUBSET Request
      BY <2>13, <3>2 DEF Kill, TypeInv, TypeOK
    <3>4. hk'[w] = Asleep /\ \A v \in Workers : v # w => hk'[v] = hk[v]
      BY <2>13 DEF Kill, TypeInv, TypeOK
    <3> QED BY <2>13, <3>1, <3>3, <3>4 DEF TypeInv, TypeOK, InHand, ThreadInHand, vars, database, queue, process, ThreadsOK, Hand, Kill, WorkerStates, Asleep, Fault, Pass
  <2>14. ASSUME NEW w \in Workers, LeaseExpires(w)
       PROVE  TypeInv'
    BY <2>14 DEF TypeInv, TypeOK, InHand, ThreadInHand, vars, database, queue, process, LeaseExpires, Fault
  <2>15. ASSUME NEW t \in Threads, Claim(t)
       PROVE  TypeInv'
    <3>1. thread[t].job \in Job /\ PayoutOf(t) \in Payouts
      BY <2>15 DEF Claim, TypeInv, InHand, ThreadInHand, PayoutOf, Job
    <3>2. PICK k \in ClaimKeys(PayoutOf(t)) :
             /\ ClaimRow(PayoutOf(t), k)
             /\ thread' = [thread EXCEPT ![t].pc = "await", ![t].key = k]
      BY <2>15 DEF Claim
    <3>3. k \in Keys
      BY <3>1, ClaimKeyOK
    <3>4. ThreadsOK'
      <4>1. thread \in [Threads -> Hand] /\ \A u \in Threads : ThreadInHand(u)
        BY DEF TypeInv, TypeOK, InHand
      <4> QED BY <3>1, <3>2, <3>3, <4>1 DEF ThreadInHand, ThreadsOK, Hand
    <3>5. payout' \in [Payouts -> Row]
      BY <3>1, <3>2, <3>3, ClaimRowOK
    <3> QED BY <2>15, <3>4, <3>5 DEF TypeInv, TypeOK, InHand, ThreadInHand, vars, database, queue, process, ThreadsOK, Hand, Claim
  <2>16. ASSUME NEW t \in Threads, ClaimSkipped(t)
       PROVE  TypeInv'
    <3>1. ThreadsOK'
      BY <2>16, GotoOK DEF ClaimSkipped
    <3> QED BY <2>16, <3>1 DEF TypeInv, TypeOK, InHand, ThreadInHand, vars, database, queue, process, ThreadsOK, Hand, ClaimSkipped
  <2>17. ASSUME NEW t \in Threads, ClaimError(t)
       PROVE  TypeInv'
    <3>1. ThreadsOK'
      BY <2>17, GotoOK DEF ClaimError
    <3>2. PayoutOf(t) \in Payouts
      BY <2>17 DEF ClaimError, TypeInv, InHand, ThreadInHand, PayoutOf, Job
    <3>3. payout' \in [Payouts -> Row]
      BY <2>17, <3>2, ClaimKeyOK, ClaimRowOK DEF ClaimError, TypeInv, TypeOK
    <3> QED BY <2>17, <3>1, <3>3 DEF TypeInv, TypeOK, InHand, ThreadInHand, vars, database, queue, process, ThreadsOK, Hand, ClaimError, Fault
  <2>18. ASSUME NEW t \in Threads, MarkPaid(t)
       PROVE  TypeInv'
    <3>1. ThreadsOK'
      BY <2>18, GotoOK DEF MarkPaid
    <3>2. PayoutOf(t) \in Payouts /\ thread[t].ref \in Refs
      BY <2>18 DEF MarkPaid, TypeInv, InHand, ThreadInHand, PayoutOf, Job
    <3>3. payout' \in [Payouts -> Row]
      BY <2>18, <3>2, MarkRowOK DEF MarkPaid, TypeInv, TypeOK
    <3> QED BY <2>18, <3>1, <3>3 DEF TypeInv, TypeOK, InHand, ThreadInHand, vars, database, queue, process, ThreadsOK, Hand, MarkPaid
  <2>19. ASSUME NEW t \in Threads, MarkPaidError(t)
       PROVE  TypeInv'
    <3>1. ThreadsOK'
      BY <2>19, GotoOK DEF MarkPaidError
    <3>2. PayoutOf(t) \in Payouts /\ thread[t].ref \in Refs
      BY <2>19 DEF MarkPaidError, TypeInv, InHand, ThreadInHand, PayoutOf, Job
    <3>3. payout' \in [Payouts -> Row]
      BY <2>19, <3>2, MarkRowOK DEF MarkPaidError, TypeInv, TypeOK
    <3> QED BY <2>19, <3>1, <3>3 DEF TypeInv, TypeOK, InHand, ThreadInHand, vars, database, queue, process, ThreadsOK, Hand, MarkPaidError, Fault
  <2>20. ASSUME NEW t \in Threads, Ack(t)
       PROVE  TypeInv'
    <3>1. ThreadsOK' /\ processing' \in [Workers -> Seq(Job)]
      BY <2>20, ReleaseOK, UnprocessOK DEF Ack
    <3> QED BY <2>20, <3>1 DEF TypeInv, TypeOK, InHand, ThreadInHand, vars, database, queue, process, ThreadsOK, Hand, Ack
  <2>21. ASSUME NEW t \in Threads, AckError(t)
       PROVE  TypeInv'
    <3>1. ThreadsOK'
      BY <2>21, GotoOK DEF AckError
    <3>2. processing' \in [Workers -> Seq(Job)]
      BY <2>21, UnprocessOK DEF AckError, TypeInv, TypeOK
    <3> QED BY <2>21, <3>1, <3>2 DEF TypeInv, TypeOK, InHand, ThreadInHand, vars, database, queue, process, ThreadsOK, Hand, AckError, Fault
  <2>22. ASSUME NEW t \in Threads, RetryOrDead(t)
       PROVE  TypeInv'
    <3>1. ThreadsOK' /\ processing' \in [Workers -> Seq(Job)]
      BY <2>22, ReleaseOK, UnprocessOK DEF RetryOrDead
    <3>2. PICK e \in Errors :
             LET next == NextAttempt(JobOf(t), e)
             IN  \/ retry' = retry \cup {next} /\ UNCHANGED dead
                 \/ dead' = Cons(next, dead) /\ UNCHANGED retry
      BY <2>22 DEF RetryOrDead
    <3> DEFINE next == NextAttempt(JobOf(t), e)
    <3>3. next \in Job
      <4>1. JobOf(t) \in Job
        BY <2>22 DEF RetryOrDead, TypeInv, InHand, ThreadInHand, JobOf
      <4> QED BY <3>2, <4>1 DEF Job, NextAttempt
    <3> HIDE DEF next
    <3>4. IsFiniteSet(retry \cup {next})
      BY FS_AddElement DEF TypeInv, TypeOK
    <3>5. Cons(next, dead) \in Seq(Job)
      BY <3>3, ConsProperties DEF TypeInv, TypeOK
    <3>6. retry' \in SUBSET Job /\ IsFiniteSet(retry') /\ dead' \in Seq(Job)
      BY <3>2, <3>3, <3>4, <3>5 DEF TypeInv, TypeOK, next
    <3> QED BY <2>22, <3>1, <3>6 DEF TypeInv, TypeOK, InHand, ThreadInHand, vars, database, queue, process, ThreadsOK, Hand, RetryOrDead
  <2>23. ASSUME NEW t \in Threads, RetryOrDeadError(t)
       PROVE  TypeInv'
    <3>1. ThreadsOK'
      BY <2>23, ReleaseOK DEF RetryOrDeadError
    <3> QED BY <2>23, <3>1 DEF TypeInv, TypeOK, InHand, ThreadInHand, vars, database, queue, process, ThreadsOK, Hand, RetryOrDeadError, Fault
  <2>24. ASSUME NEW t \in Threads, BankAccepts(t)
       PROVE  TypeInv'
    <3>1. RequestOf(t) \in Request /\ thread[t].job \in Job
      BY <2>24 DEF BankAccepts, Waiting, TypeInv, InHand, ThreadInHand, RequestOf, PayoutOf, Job, Request
    <3>2. PICK r \in Refs : /\ Accept(RequestOf(t), r)
                            /\ thread' = [thread EXCEPT ![t].pc = "replied", ![t].ref = r]
      BY <2>24 DEF BankAccepts
    <3>3. ThreadsOK'
      <4>1. thread \in [Threads -> Hand] /\ \A u \in Threads : ThreadInHand(u)
        BY DEF TypeInv, TypeOK, InHand
      <4>2. thread[t].key \in Keys
        BY <2>24, <4>1 DEF BankAccepts, Waiting, ThreadInHand
      <4> QED BY <3>1, <3>2, <4>1, <4>2 DEF ThreadInHand, ThreadsOK, Hand
    <3>4. ledger' \in SUBSET Entry
      BY <3>1, <3>2 DEF Accept, Replay, MoveMoney, TypeInv, TypeOK, Request, Entry
    <3> QED BY <2>24, <3>3, <3>4 DEF TypeInv, TypeOK, InHand, ThreadInHand, vars, database, queue, process, ThreadsOK, Hand, BankAccepts
  <2>25. ASSUME NEW req \in orphans, BankAcceptsLate(req)
       PROVE  TypeInv'
    BY <2>25 DEF TypeInv, TypeOK, InHand, ThreadInHand, vars, database, queue, process, BankAcceptsLate, Accept, Replay, MoveMoney, FreshRefs, Request, Entry
  <2>26. ASSUME NEW t \in Threads, BankUnavailable(t)
       PROVE  TypeInv'
    <3>1. ThreadsOK'
      BY <2>26, GotoOK DEF BankUnavailable, Waiting
    <3> QED BY <2>26, <3>1 DEF TypeInv, TypeOK, InHand, ThreadInHand, vars, database, queue, process, ThreadsOK, Hand, BankUnavailable, Fault
  <2>27. ASSUME NEW t \in Threads, BankRefuses(t)
       PROVE  TypeInv'
    <3>1. ThreadsOK'
      BY <2>27, GotoOK DEF BankRefuses, Waiting
    <3> QED BY <2>27, <3>1 DEF TypeInv, TypeOK, InHand, ThreadInHand, vars, database, queue, process, ThreadsOK, Hand, BankRefuses, Fault
  <2>28. ASSUME NEW t \in Threads, BankTimeout(t)
       PROVE  TypeInv'
    <3>1. ThreadsOK'
      BY <2>28, GotoOK DEF BankTimeout
    <3>2. t \in Waiting => RequestOf(t) \in Request
      BY DEF Waiting, TypeInv, InHand, ThreadInHand, RequestOf, PayoutOf, Job, Request
    <3>3. orphans' \in SUBSET Request
      BY <2>28, <3>2 DEF BankTimeout, TypeInv, TypeOK
    <3> QED BY <2>28, <3>1, <3>3 DEF TypeInv, TypeOK, InHand, ThreadInHand, vars, database, queue, process, ThreadsOK, Hand, BankTimeout, Fault
  <2>29. ASSUME NEW w \in Workers, Wake(w)
       PROVE  TypeInv'
    <3>1. hk' \in [Workers -> Pass] /\ hk'[w].pc = "beat" /\ \A v \in Workers \ {w} : hk'[v] = hk[v]
      BY <2>29 DEF TypeInv, TypeOK, Wake, HkStep, Pass
    <3> QED BY <2>29, <3>1 DEF TypeInv, TypeOK, InHand, ThreadInHand, vars, database, queue, process, Wake
  <2>30. ASSUME NEW w \in Workers, Heartbeat(w)
       PROVE  TypeInv'
    BY <2>30 DEF TypeInv, TypeOK, InHand, ThreadInHand, vars, database, queue, process, Heartbeat, Pass
  <2>31. ASSUME NEW w \in Workers, NEW o \in Workers, SkipOwner(w, o)
       PROVE  TypeInv'
    BY <2>31 DEF TypeInv, TypeOK, InHand, ThreadInHand, vars, database, queue, process, SkipOwner, Pass
  <2>32. ASSUME NEW w \in Workers, NEW o \in Workers, FindDeadOwner(w, o)
       PROVE  TypeInv'
    BY <2>32 DEF TypeInv, TypeOK, InHand, ThreadInHand, vars, database, queue, process, FindDeadOwner, Pass
  <2>33. ASSUME NEW w \in Workers, Recover(w)
       PROVE  TypeInv'
    <3> DEFINE o == hk[w].from
    <3>1. o \in Workers /\ processing[o] \in Seq(Job) /\ processing[o] # <<>>
      BY <2>33 DEF Recover, TypeInv, TypeOK, InHand
    <3>2. Front(processing[o]) \in Seq(Job) /\ Last(processing[o]) \in Job
      BY <3>1, FrontLastProperties
    <3>3. Append(jobs, Last(processing[o])) \in Seq(Job)
      BY <3>2, AppendProperties DEF TypeInv, TypeOK
    <3> QED BY <2>33, <3>1, <3>2, <3>3 DEF TypeInv, TypeOK, InHand, ThreadInHand, vars, database, queue, process, Recover
  <2>34. ASSUME NEW w \in Workers, Recovered(w)
       PROVE  TypeInv'
    <3>1. hk' \in [Workers -> Pass] /\ hk'[w].pc = "scan" /\ \A v \in Workers \ {w} : hk'[v] = hk[v]
      BY <2>34 DEF TypeInv, TypeOK, Recovered, Pass
    <3> QED BY <2>34, <3>1 DEF TypeInv, TypeOK, InHand, ThreadInHand, vars, database, queue, process, Recovered
  <2>35. ASSUME NEW w \in Workers, NEW due \in SUBSET retry, Promote(w, due)
       PROVE  TypeInv'
    <3>1. due \in SUBSET Job /\ IsFiniteSet(due) /\ IsFiniteSet(retry \ due)
      BY FS_Subset DEF TypeInv, TypeOK
    <3>2. PICK order \in SetToSeqs(due) : jobs' = jobs \o order
      BY <2>35 DEF Promote
    <3>3. order \in Seq(Job)
      BY <3>1, <3>2, SetToSeqsProperties
    <3>4. jobs' \in Seq(Job)
      BY <3>2, <3>3, ConcatProperties DEF TypeInv, TypeOK
    <3> QED BY <2>35, <3>1, <3>4 DEF TypeInv, TypeOK, InHand, ThreadInHand, vars, database, queue, process, Promote, Asleep, Pass
  <2>36. ASSUME NEW w \in Workers, PassAborted(w)
       PROVE  TypeInv'
    BY <2>36 DEF TypeInv, TypeOK, InHand, ThreadInHand, vars, database, queue, process, PassAborted, Asleep, Fault, Pass
  <2>37. ASSUME OperatorRequeues
       PROVE  TypeInv'
    <3>1. Front(dead) \in Seq(Job) /\ Last(dead) \in Job
      BY <2>37, FrontLastProperties DEF OperatorRequeues, TypeInv, TypeOK
    <3>2. Cons(Last(dead), jobs) \in Seq(Job)
      BY <3>1, ConsProperties DEF TypeInv, TypeOK
    <3> QED BY <2>37, <3>1, <3>2 DEF TypeInv, TypeOK, InHand, ThreadInHand, vars, database, queue, process, OperatorRequeues, Fault
  <2>38. CASE UNCHANGED vars
    BY <2>38 DEF TypeInv, TypeOK, InHand, ThreadInHand, vars, database, queue, process
  <2> QED BY <2>1, <2>2, <2>3, <2>4, <2>5, <2>6, <2>7, <2>8, <2>9, <2>10, <2>11,
            <2>12, <2>13, <2>14, <2>15, <2>16, <2>17, <2>18, <2>19, <2>20,
            <2>21, <2>22, <2>23, <2>24, <2>25, <2>26, <2>27, <2>28, <2>29,
            <2>30, <2>31, <2>32, <2>33, <2>34, <2>35, <2>36, <2>37, <2>38
      DEF Next, API, Process, PayoutThread, Bank, Housekeeping
<1> QED BY <1>1, <1>2, PTL DEF Spec

(* Every state is well typed. *)
THEOREM TypeCorrect == Spec => []TypeOK
<1>1. TypeInv => TypeOK
  BY DEF TypeInv
<1> QED BY <1>1, TypeInvariant, PTL

----------------------------------------------------------------------------
(* A merchant is paid once: the induction over the keys. Four lemmas say   *)
(* what keeps it: leaving rows and ledger alone, claiming a row, marking   *)
(* it paid, and the bank carrying out a request. Every action is one of    *)
(* the four. From it: no row goes back, no last copy of a job is dropped,  *)
(* and the pipeline implements PayoutPromise.                              *)

KeyInv == OneRowPerSettlement /\ KeysFollowRows /\ LedgerIsIndexed

OnWire(t) == thread[t].pc \in {"await", "replied"}

(* A thread on the wire has a job, and a key that is one.                  *)
LEMMA WireOK ==
    ASSUME TypeInv, NEW t \in Threads, OnWire(t)
    PROVE  /\ thread[t].job \in Job /\ PayoutOf(t) \in Payouts
           /\ thread[t].key \in Keys /\ thread[t].key # None
  BY NoneAssumption DEF TypeInv, InHand, ThreadInHand, OnWire, PayoutOf, Job

(* A request on the wire has the key of its row.                           *)
LEMMA RequestHasRowKey ==
    ASSUME TypeInv, KeyInv, NEW t \in Waiting
    PROVE  RequestOf(t) \in Request /\ RequestOf(t).key = payout[RequestOf(t).payout].key
<1>1. t \in Threads /\ OnWire(t)
  BY DEF Waiting, OnWire
<1>2. PayoutOf(t) \in Payouts /\ thread[t].key \in Keys
  BY <1>1, WireOK
<1>3. thread[t].key = payout[PayoutOf(t)].key
  BY <1>1 DEF KeyInv, KeysFollowRows, OnWire
<1> QED BY <1>2, <1>3 DEF RequestOf, Request

(* Threads may leave the wire and requests lose their client.              *)
LeavesRowsAlone ==
    /\ UNCHANGED <<settlement, payout, ledger>>
    /\ \A t \in Threads : OnWire(t)' => thread'[t] = thread[t]
    /\ \A o \in orphans' : o \in orphans \/ \E t \in Waiting : o = RequestOf(t)

LEMMA FrameKeeps ==
    ASSUME TypeInv, KeyInv, LeavesRowsAlone
    PROVE  KeyInv'
<1>1. OneRowPerSettlement'
  BY DEF KeyInv, LeavesRowsAlone, OneRowPerSettlement
<1>2. KeysFollowRows'
  <2>1. \A o \in orphans' : o.key = payout[o.payout].key
    BY RequestHasRowKey DEF LeavesRowsAlone, KeyInv, KeysFollowRows
  <2>2. \A t \in Threads : OnWire(t)' => thread'[t].key = payout[thread'[t].job.payout].key
    BY DEF LeavesRowsAlone, KeyInv, KeysFollowRows, OnWire, PayoutOf
  <2> QED BY <2>1, <2>2 DEF LeavesRowsAlone, KeyInv, KeysFollowRows, MoneyCarriesRowKey, OnWire, PayoutOf
<1>3. LedgerIsIndexed'
  <2>1. RecordMatchesBank'
    BY DEF LeavesRowsAlone, KeyInv, LedgerIsIndexed, RecordMatchesBank
  <2>2. \A t \in Threads : thread'[t].pc = "replied" =>
           \E e \in ledger : e.payout = thread'[t].job.payout /\ e.ref = thread'[t].ref
    BY DEF LeavesRowsAlone, KeyInv, LedgerIsIndexed, OnWire, PayoutOf
  <2> QED BY <2>1, <2>2 DEF LeavesRowsAlone, KeyInv, LedgerIsIndexed, PayoutOf
<1> QED BY <1>1, <1>2, <1>3 DEF KeyInv

(* A claim gives its row the key it has, or one nobody has.                *)
LEMMA ClaimKeeps ==
    ASSUME TypeInv, KeyInv, NEW p \in Payouts, Claimable(p), NEW k \in ClaimKeys(p), ClaimRow(p, k),
           UNCHANGED <<settlement, ledger, orphans>>,
           \A t \in Threads : OnWire(t)' =>
               \/ thread'[t] = thread[t]
               \/ thread'[t].pc = "await" /\ thread'[t].job.payout = p /\ thread'[t].key = k
    PROVE  KeyInv'
<1> USE NoneAssumption
<1>0. payout \in [Payouts -> Row] /\ ledger \in SUBSET Entry /\ orphans \in SUBSET Request
  BY DEF TypeInv, TypeOK
<1>1. payout[p].state \in {"queued", "sending"} /\ k \in Keys
  BY ClaimKeyOK DEF Claimable
<1>2. /\ payout'[p].state = "sending" /\ payout'[p].key = k
      /\ payout'[p].of = payout[p].of /\ payout'[p].ref = payout[p].ref
      /\ \A q \in Payouts : q # p => payout'[q] = payout[q]
  BY <1>0, <1>1 DEF ClaimRow, Row
<1>3. payout[p].key # None => k = payout[p].key
  BY DEF ClaimKeys
<1>4. payout[p].key = None => k \notin KeysInUse
  BY DEF ClaimKeys, FreshKeys
<1>5. OneRowPerSettlement'
  BY <1>2, <1>1 DEF KeyInv, OneRowPerSettlement
<1>6. \A q \in Payouts : payout[q].key # None => payout'[q].key = payout[q].key
  BY <1>2, <1>3
<1>7. KeysFollowRows'
  <2>1. ASSUME NEW q \in Payouts, NEW r \in Payouts, payout'[q].key = payout'[r].key,
               payout'[q].key # None
        PROVE  q = r
    <3>1. \A x \in Payouts : x # p => payout[x].key # k
      BY <1>1, <1>3, <1>4 DEF KeysInUse, KeyInv, KeysFollowRows
    <3> QED BY <1>2, <2>1, <3>1 DEF KeyInv, KeysFollowRows
  <2>2. ASSUME NEW t \in Threads, OnWire(t)'
        PROVE  thread'[t].key = payout'[thread'[t].job.payout].key
    <3>1. CASE thread'[t] = thread[t]
      <4>1. OnWire(t)
        BY <2>2, <3>1 DEF OnWire
      <4>2. thread[t].key = payout[PayoutOf(t)].key /\ PayoutOf(t) \in Payouts /\ thread[t].key # None
        BY <4>1, WireOK DEF KeyInv, KeysFollowRows, OnWire
      <4> QED BY <1>6, <3>1, <4>2 DEF PayoutOf
    <3>2. CASE thread'[t].job.payout = p /\ thread'[t].key = k
      BY <1>2, <3>2
    <3> QED BY <2>2, <3>1, <3>2
  <2>3. \A o \in orphans : o.key = payout'[o.payout].key
    <3>1. \A o \in orphans : o.payout \in Payouts /\ o.key # None
      BY <1>0 DEF Request
    <3> QED BY <1>6, <3>1 DEF KeyInv, KeysFollowRows
  <2>4. \A e \in ledger : payout'[e.payout].key = e.key
    <3>1. \A e \in ledger : e.payout \in Payouts /\ e.key # None
      BY <1>0 DEF Entry
    <3> QED BY <1>6, <3>1 DEF KeyInv, KeysFollowRows, MoneyCarriesRowKey
  <2> QED BY <2>1, <2>2, <2>3, <2>4 DEF KeysFollowRows, MoneyCarriesRowKey, OnWire, PayoutOf
<1>8. LedgerIsIndexed'
  <2>1. RecordMatchesBank'
    BY <1>2 DEF KeyInv, LedgerIsIndexed, RecordMatchesBank
  <2>2. \A t \in Threads : thread'[t].pc = "replied" =>
           \E e \in ledger : e.payout = thread'[t].job.payout /\ e.ref = thread'[t].ref
    BY DEF KeyInv, LedgerIsIndexed, OnWire, PayoutOf
  <2> QED BY <2>1, <2>2 DEF KeyInv, LedgerIsIndexed, PayoutOf
<1> QED BY <1>5, <1>7, <1>8 DEF KeyInv

(* A mark records a reference the bank has for that row.                   *)
LEMMA MarkKeeps ==
    ASSUME TypeInv, KeyInv, NEW p \in Payouts, NEW r \in Refs, MarkRow(p, r),
           \E e \in ledger : e.payout = p /\ e.ref = r,
           UNCHANGED <<settlement, ledger, orphans>>,
           \A t \in Threads : OnWire(t)' => thread'[t] = thread[t]
    PROVE  KeyInv'
<1>0. payout \in [Payouts -> Row]
  BY DEF TypeInv, TypeOK
<1>1. CASE payout[p].state # "sending"
  <2>1. LeavesRowsAlone
    BY <1>1 DEF MarkRow, LeavesRowsAlone
  <2> QED BY <2>1, FrameKeeps
<1>2. CASE payout[p].state = "sending"
  <2>1. /\ payout'[p].state = "paid" /\ payout'[p].ref = r
        /\ payout'[p].of = payout[p].of /\ payout'[p].key = payout[p].key
        /\ \A q \in Payouts : q # p => payout'[q] = payout[q]
    BY <1>0, <1>2 DEF MarkRow, Row
  <2>2. OneRowPerSettlement'
    BY <1>2, <2>1 DEF KeyInv, OneRowPerSettlement
  <2>3. \A q \in Payouts : payout'[q].key = payout[q].key
    BY <2>1
  <2>4. KeysFollowRows'
    <3>1. \A o \in orphans : o.payout \in Payouts
      BY DEF TypeInv, TypeOK, Request
    <3>2. \A e \in ledger : e.payout \in Payouts
      BY DEF TypeInv, TypeOK, Entry
    <3>3. ASSUME NEW t \in Threads, OnWire(t)'
          PROVE  thread'[t].key = payout'[thread'[t].job.payout].key
      <4>1. OnWire(t) /\ thread'[t] = thread[t]
        BY <3>3 DEF OnWire
      <4>2. PayoutOf(t) \in Payouts /\ thread[t].key = payout[PayoutOf(t)].key
        BY <4>1, WireOK DEF KeyInv, KeysFollowRows, OnWire
      <4> QED BY <2>3, <4>1, <4>2 DEF PayoutOf
    <3> QED BY <2>3, <3>1, <3>2, <3>3 DEF KeyInv, KeysFollowRows, MoneyCarriesRowKey, OnWire, PayoutOf
  <2>5. LedgerIsIndexed'
    <3>1. RecordMatchesBank'
      BY <2>1 DEF KeyInv, LedgerIsIndexed, RecordMatchesBank
    <3>2. \A t \in Threads : thread'[t].pc = "replied" =>
             \E e \in ledger : e.payout = thread'[t].job.payout /\ e.ref = thread'[t].ref
      BY DEF KeyInv, LedgerIsIndexed, OnWire, PayoutOf
    <3> QED BY <3>1, <3>2 DEF KeyInv, LedgerIsIndexed, PayoutOf
  <2> QED BY <2>2, <2>4, <2>5 DEF KeyInv
<1> QED BY <1>1, <1>2

(* The bank replays the entry that has the key, or writes the only one.    *)
LEMMA BankKeeps ==
    ASSUME TypeInv, KeyInv, NEW req \in Request, NEW r \in Refs, Accept(req, r),
           req.key = payout[req.payout].key,
           UNCHANGED <<settlement, payout>>, orphans' \subseteq orphans,
           \A t \in Threads : OnWire(t)' =>
               \/ thread'[t] = thread[t]
               \/ /\ thread'[t].job.payout = req.payout
                  /\ thread'[t].key = req.key /\ thread'[t].ref = r
    PROVE  KeyInv'
<1> USE NoneAssumption
<1>1. req.payout \in Payouts /\ req.key # None
  BY DEF Request
<1>2. /\ \E e \in ledger' : e.payout = req.payout /\ e.ref = r
      /\ \A e \in ledger' : e.key = payout[e.payout].key
      /\ \A d, e \in ledger' : d.key = e.key \/ d.ref = e.ref => d = e
      /\ ledger \subseteq ledger'
  <2>0. /\ \A e \in ledger : e.key = payout[e.payout].key /\ e.payout \in Payouts
        /\ \A d, e \in ledger : d.key = e.key \/ d.ref = e.ref => d = e
        /\ \A p, q \in Payouts : payout[p].key = payout[q].key /\ payout[p].key # None => p = q
    BY DEF KeyInv, KeysFollowRows, MoneyCarriesRowKey, LedgerIsIndexed, TypeInv, TypeOK, Entry
  <2>1. CASE Replay(req, r)
    BY <1>1, <2>0, <2>1 DEF Replay
  <2>2. CASE MoveMoney(req, r)
    <3> DEFINE new == [ref |-> r, payout |-> req.payout, key |-> req.key]
    <3>1. ledger' = ledger \cup {new} /\ (\A e \in ledger : e.key # req.key) /\ r \notin RefsInUse
      BY <2>2 DEF MoveMoney, FreshRefs
    <3>2. new.ref = r /\ new.payout = req.payout /\ new.key = req.key
      OBVIOUS
    <3>3. \A e \in ledger : e.ref # r
      BY <3>1 DEF RefsInUse
    <3> HIDE DEF new
    <3> QED BY <2>0, <3>1, <3>2, <3>3
  <2> QED BY <2>1, <2>2 DEF Accept
<1>3. OneRowPerSettlement'
  BY DEF KeyInv, OneRowPerSettlement
<1>4. \A t \in Threads : OnWire(t)' => thread'[t].key = payout[thread'[t].job.payout].key
  BY DEF KeyInv, KeysFollowRows, OnWire, PayoutOf
<1>5. KeysFollowRows'
  BY <1>2, <1>4 DEF KeyInv, KeysFollowRows, MoneyCarriesRowKey, OnWire, PayoutOf
<1>6. \A t \in Threads : thread'[t].pc = "replied" =>
         \E e \in ledger' : e.payout = thread'[t].job.payout /\ e.ref = thread'[t].ref
  <2>1. TAKE t \in Threads
  <2>2. HAVE thread'[t].pc = "replied"
  <2>3. CASE thread'[t] = thread[t]
    BY <1>2, <2>2, <2>3 DEF KeyInv, LedgerIsIndexed, PayoutOf
  <2>4. CASE thread'[t].job.payout = req.payout /\ thread'[t].ref = r
    BY <1>2, <2>4
  <2> QED BY <2>2, <2>3, <2>4 DEF OnWire
<1>7. RecordMatchesBank'
  BY <1>2 DEF KeyInv, LedgerIsIndexed, RecordMatchesBank
<1>8. LedgerIsIndexed'
  BY <1>2, <1>6, <1>7 DEF LedgerIsIndexed, PayoutOf
<1> QED BY <1>3, <1>5, <1>8 DEF KeyInv

(* A thread that drops its request leaves the wire and no other joins it.  *)
LEMMA GotoLeavesWire ==
    ASSUME TypeInv, NEW t \in Threads,
           Release(t) \/ \E step \in {"ack", "retry", "reject"} : Goto(t, step)
    PROVE  \A u \in Threads : OnWire(u)' => thread'[u] = thread[u]
<1>1. thread \in [Threads -> Hand]
  BY DEF TypeInv, TypeOK
<1> QED BY <1>1 DEF Release, Goto, At, Idle, OnWire

LEMMA KeyInvInit == Init => KeyInv
  BY DEF Init, KeyInv, OneRowPerSettlement, KeysFollowRows, LedgerIsIndexed, MoneyCarriesRowKey,
     RecordMatchesBank, Idle, At

LEMMA KeyInvStep == TypeInv /\ KeyInv /\ [Next]_vars => KeyInv'
<1> SUFFICES ASSUME TypeInv, KeyInv, [Next]_vars PROVE KeyInv'
  OBVIOUS
<1> USE NoneAssumption
<1>1. ASSUME NEW s \in Settlements, CreateSettlement(s)
     PROVE  KeyInv'
  <2>1. settlement \in [Settlements -> {"absent", "pending", "executing"}]
    BY DEF TypeInv, TypeOK
  <2>2. \A x \in Settlements : settlement[x] = "executing" => settlement'[x] = "executing"
    BY <1>1, <2>1 DEF CreateSettlement
  <2>3. UNCHANGED <<payout, thread, orphans, ledger>>
    BY <1>1 DEF CreateSettlement
  <2>4. OneRowPerSettlement'
    BY <2>2, <2>3 DEF KeyInv, OneRowPerSettlement
  <2> QED BY <2>3, <2>4 DEF KeyInv, KeysFollowRows, LedgerIsIndexed, MoneyCarriesRowKey,
             RecordMatchesBank, PayoutOf
<1>2. ASSUME NEW s \in Settlements, ExecuteSettlement(s)
     PROVE  KeyInv'
  <2>0. payout \in [Payouts -> Row] /\ settlement \in [Settlements -> {"absent", "pending", "executing"}]
    BY DEF TypeInv, TypeOK
  <2>1. PICK p \in Payouts :
           /\ payout[p].state = "none"
           /\ payout' = [payout EXCEPT ![p] =
                            [state |-> "queued", of |-> s, key |-> None, ref |-> None]]
    BY <1>2 DEF ExecuteSettlement
  <2>2. /\ payout'[p].state = "queued" /\ payout'[p].of = s /\ payout'[p].key = None
        /\ \A q \in Payouts : q # p => payout'[q] = payout[q]
    BY <2>0, <2>1
  <2>3. settlement[s] = "pending" /\ settlement'[s] = "executing"
        /\ \A x \in Settlements : x # s => settlement'[x] = settlement[x]
    BY <1>2, <2>0 DEF ExecuteSettlement
  <2>4. UNCHANGED <<thread, orphans, ledger>>
    BY <1>2 DEF ExecuteSettlement
  <2>5. payout[p].of = None /\ payout[p].key = None
    BY <2>1 DEF KeyInv, OneRowPerSettlement
  <2>6. \A q \in Payouts : payout[q].of # s
    BY <2>3 DEF KeyInv, OneRowPerSettlement
  <2>7. OneRowPerSettlement'
    BY <2>2, <2>3, <2>6 DEF KeyInv, OneRowPerSettlement
  <2>8. \A q \in Payouts : payout'[q].key = payout[q].key
    BY <2>2, <2>5
  <2>9. KeysFollowRows'
    <3>1. \A o \in orphans : o.payout \in Payouts
      BY DEF TypeInv, TypeOK, Request
    <3>2. \A e \in ledger : e.payout \in Payouts
      BY DEF TypeInv, TypeOK, Entry
    <3>3. \A t \in Threads : OnWire(t) => PayoutOf(t) \in Payouts
      BY WireOK
    <3> QED BY <2>4, <2>8, <3>1, <3>2, <3>3 DEF KeyInv, KeysFollowRows, MoneyCarriesRowKey, OnWire, PayoutOf
  <2>10. LedgerIsIndexed'
    <3>1. RecordMatchesBank'
      BY <2>2, <2>4 DEF KeyInv, LedgerIsIndexed, RecordMatchesBank
    <3> QED BY <2>4, <3>1 DEF KeyInv, LedgerIsIndexed, PayoutOf
  <2> QED BY <2>7, <2>9, <2>10 DEF KeyInv
<1>3. ASSUME NEW p \in Payouts, EnqueuePayout(p)
     PROVE  KeyInv'
  <2>1. LeavesRowsAlone
    BY <1>3 DEF EnqueuePayout, LeavesRowsAlone, database, OnWire
  <2> QED BY <2>1, FrameKeeps
<1>4. ASSUME NEW p \in Payouts, EnqueueFails(p)
     PROVE  KeyInv'
  <2>1. LeavesRowsAlone
    BY <1>4 DEF EnqueueFails, LeavesRowsAlone, database, OnWire
  <2> QED BY <2>1, FrameKeeps
<1>5. ASSUME NEW w \in Workers, StartWorker(w)
     PROVE  KeyInv'
  <2>1. LeavesRowsAlone
    BY <1>5 DEF StartWorker, Boot, LeavesRowsAlone, database, OnWire
  <2> QED BY <2>1, FrameKeeps
<1>6. ASSUME NEW w \in Workers, RestartInPlace(w)
     PROVE  KeyInv'
  <2>1. LeavesRowsAlone
    BY <1>6 DEF RestartInPlace, Boot, LeavesRowsAlone, database, OnWire
  <2> QED BY <2>1, FrameKeeps
<1>7. ASSUME NEW w \in Workers, Sigterm(w)
     PROVE  KeyInv'
  <2>1. LeavesRowsAlone
    BY <1>7 DEF Sigterm, LeavesRowsAlone, database, OnWire
  <2> QED BY <2>1, FrameKeeps
<1>8. ASSUME NEW w \in Workers, StopFetching(w)
     PROVE  KeyInv'
  <2>1. LeavesRowsAlone
    BY <1>8 DEF StopFetching, LeavesRowsAlone, database, OnWire
  <2> QED BY <2>1, FrameKeeps
<1>9. ASSUME NEW w \in Workers, FetchReplyLost(w)
     PROVE  KeyInv'
  <2>1. LeavesRowsAlone
    BY <1>9 DEF FetchReplyLost, Blmove, LeavesRowsAlone, database, OnWire
  <2> QED BY <2>1, FrameKeeps
<1>10. ASSUME NEW w \in Workers, DrainDone(w)
     PROVE  KeyInv'
  <2>1. LeavesRowsAlone
    BY <1>10 DEF DrainDone, LeavesRowsAlone, database, OnWire
  <2> QED BY <2>1, FrameKeeps
<1>11. ASSUME NEW w \in Workers, Exit(w)
     PROVE  KeyInv'
  <2>1. LeavesRowsAlone
    BY <1>11 DEF Exit, LeavesRowsAlone, database, OnWire
  <2> QED BY <2>1, FrameKeeps
<1>12. ASSUME NEW w \in Workers, LeaseExpires(w)
     PROVE  KeyInv'
  <2>1. LeavesRowsAlone
    BY <1>12 DEF LeaseExpires, LeavesRowsAlone, database, OnWire
  <2> QED BY <2>1, FrameKeeps
<1>13. ASSUME NEW w \in Workers, Wake(w)
     PROVE  KeyInv'
  <2>1. LeavesRowsAlone
    BY <1>13 DEF Wake, LeavesRowsAlone, database, OnWire
  <2> QED BY <2>1, FrameKeeps
<1>14. ASSUME NEW w \in Workers, Heartbeat(w)
     PROVE  KeyInv'
  <2>1. LeavesRowsAlone
    BY <1>14 DEF Heartbeat, LeavesRowsAlone, database, OnWire
  <2> QED BY <2>1, FrameKeeps
<1>15. ASSUME NEW w \in Workers, NEW o \in Workers, SkipOwner(w, o)
     PROVE  KeyInv'
  <2>1. LeavesRowsAlone
    BY <1>15 DEF SkipOwner, LeavesRowsAlone, database, OnWire
  <2> QED BY <2>1, FrameKeeps
<1>16. ASSUME NEW w \in Workers, NEW o \in Workers, FindDeadOwner(w, o)
     PROVE  KeyInv'
  <2>1. LeavesRowsAlone
    BY <1>16 DEF FindDeadOwner, LeavesRowsAlone, database, OnWire
  <2> QED BY <2>1, FrameKeeps
<1>17. ASSUME NEW w \in Workers, Recover(w)
     PROVE  KeyInv'
  <2>1. LeavesRowsAlone
    BY <1>17 DEF Recover, LeavesRowsAlone, database, OnWire
  <2> QED BY <2>1, FrameKeeps
<1>18. ASSUME NEW w \in Workers, Recovered(w)
     PROVE  KeyInv'
  <2>1. LeavesRowsAlone
    BY <1>18 DEF Recovered, LeavesRowsAlone, database, OnWire
  <2> QED BY <2>1, FrameKeeps
<1>19. ASSUME NEW w \in Workers, NEW due \in SUBSET retry, Promote(w, due)
     PROVE  KeyInv'
  <2>1. LeavesRowsAlone
    BY <1>19 DEF Promote, LeavesRowsAlone, database, OnWire
  <2> QED BY <2>1, FrameKeeps
<1>20. ASSUME NEW w \in Workers, PassAborted(w)
     PROVE  KeyInv'
  <2>1. LeavesRowsAlone
    BY <1>20 DEF PassAborted, LeavesRowsAlone, database, OnWire
  <2> QED BY <2>1, FrameKeeps
<1>21. ASSUME OperatorRequeues
     PROVE  KeyInv'
  <2>1. LeavesRowsAlone
    BY <1>21 DEF OperatorRequeues, LeavesRowsAlone, database, OnWire
  <2> QED BY <2>1, FrameKeeps
<1>22. ASSUME NEW w \in Workers, NEW s \in Slots, Fetch(w, s)
     PROVE  KeyInv'
  <2>1. thread \in [Threads -> Hand]
    BY DEF TypeInv, TypeOK
  <2>2. \A u \in Threads : OnWire(u)' => thread'[u] = thread[u]
    BY <1>22, <2>1 DEF Fetch, At, OnWire
  <2>3. LeavesRowsAlone
    BY <1>22, <2>2 DEF Fetch, Blmove, LeavesRowsAlone, database
  <2> QED BY <2>3, FrameKeeps
<1>23. ASSUME NEW w \in Workers, Kill(w)
     PROVE  KeyInv'
  <2>1. \A u \in Threads : OnWire(u)' => thread'[u] = thread[u]
    BY <1>23 DEF Kill, At, Idle, OnWire
  <2>2. LeavesRowsAlone
    BY <1>23, <2>1 DEF Kill, LeavesRowsAlone, database
  <2> QED BY <2>2, FrameKeeps
<1>24. ASSUME NEW t \in Threads, ClaimSkipped(t)
     PROVE  KeyInv'
  <2>1. \A u \in Threads : OnWire(u)' => thread'[u] = thread[u]
    BY <1>24, GotoLeavesWire DEF ClaimSkipped
  <2>2. LeavesRowsAlone
    BY <1>24, <2>1 DEF ClaimSkipped, LeavesRowsAlone, database
  <2> QED BY <2>2, FrameKeeps
<1>25. ASSUME NEW t \in Threads, AckError(t)
     PROVE  KeyInv'
  <2>1. \A u \in Threads : OnWire(u)' => thread'[u] = thread[u]
    BY <1>25, GotoLeavesWire DEF AckError
  <2>2. LeavesRowsAlone
    BY <1>25, <2>1 DEF AckError, LeavesRowsAlone, database
  <2> QED BY <2>2, FrameKeeps
<1>26. ASSUME NEW t \in Threads, BankUnavailable(t)
     PROVE  KeyInv'
  <2>1. \A u \in Threads : OnWire(u)' => thread'[u] = thread[u]
    BY <1>26, GotoLeavesWire DEF BankUnavailable
  <2>2. LeavesRowsAlone
    BY <1>26, <2>1 DEF BankUnavailable, LeavesRowsAlone, database
  <2> QED BY <2>2, FrameKeeps
<1>27. ASSUME NEW t \in Threads, BankRefuses(t)
     PROVE  KeyInv'
  <2>1. \A u \in Threads : OnWire(u)' => thread'[u] = thread[u]
    BY <1>27, GotoLeavesWire DEF BankRefuses
  <2>2. LeavesRowsAlone
    BY <1>27, <2>1 DEF BankRefuses, LeavesRowsAlone, database
  <2> QED BY <2>2, FrameKeeps
<1>28. ASSUME NEW t \in Threads, BankTimeout(t)
     PROVE  KeyInv'
  <2>1. \A u \in Threads : OnWire(u)' => thread'[u] = thread[u]
    BY <1>28, GotoLeavesWire DEF BankTimeout
  <2>2. LeavesRowsAlone
    BY <1>28, <2>1 DEF BankTimeout, LeavesRowsAlone, database
  <2> QED BY <2>2, FrameKeeps
<1>29. ASSUME NEW t \in Threads, Ack(t)
     PROVE  KeyInv'
  <2>1. \A u \in Threads : OnWire(u)' => thread'[u] = thread[u]
    BY <1>29, GotoLeavesWire DEF Ack
  <2>2. LeavesRowsAlone
    BY <1>29, <2>1 DEF Ack, LeavesRowsAlone, database
  <2> QED BY <2>2, FrameKeeps
<1>30. ASSUME NEW t \in Threads, RetryOrDead(t)
     PROVE  KeyInv'
  <2>1. \A u \in Threads : OnWire(u)' => thread'[u] = thread[u]
    BY <1>30, GotoLeavesWire DEF RetryOrDead
  <2>2. LeavesRowsAlone
    BY <1>30, <2>1 DEF RetryOrDead, LeavesRowsAlone, database
  <2> QED BY <2>2, FrameKeeps
<1>31. ASSUME NEW t \in Threads, RetryOrDeadError(t)
     PROVE  KeyInv'
  <2>1. \A u \in Threads : OnWire(u)' => thread'[u] = thread[u]
    BY <1>31, GotoLeavesWire DEF RetryOrDeadError
  <2>2. LeavesRowsAlone
    BY <1>31, <2>1 DEF RetryOrDeadError, LeavesRowsAlone, database
  <2> QED BY <2>2, FrameKeeps
<1>32. ASSUME NEW t \in Threads, Claim(t)
     PROVE  KeyInv'
  <2>1. PayoutOf(t) \in Payouts /\ Claimable(PayoutOf(t)) /\ thread \in [Threads -> Hand]
    BY <1>32 DEF Claim, TypeInv, TypeOK, InHand, ThreadInHand, PayoutOf, Job
  <2>2. PICK k \in ClaimKeys(PayoutOf(t)) :
           /\ ClaimRow(PayoutOf(t), k)
           /\ thread' = [thread EXCEPT ![t].pc = "await", ![t].key = k]
    BY <1>32 DEF Claim
  <2>3. /\ thread'[t].pc = "await" /\ thread'[t].job.payout = PayoutOf(t) /\ thread'[t].key = k
        /\ \A u \in Threads : u # t => thread'[u] = thread[u]
    BY <2>1, <2>2 DEF PayoutOf, Hand
  <2>4. UNCHANGED <<settlement, ledger, orphans>>
    BY <1>32 DEF Claim
  <2> QED BY <2>1, <2>2, <2>3, <2>4, ClaimKeeps
<1>33. ASSUME NEW t \in Threads, ClaimError(t)
     PROVE  KeyInv'
  <2>1. PayoutOf(t) \in Payouts
    BY <1>33 DEF ClaimError, TypeInv, InHand, ThreadInHand, PayoutOf, Job
  <2>2. \A u \in Threads : OnWire(u)' => thread'[u] = thread[u]
    BY <1>33, GotoLeavesWire DEF ClaimError
  <2>3. UNCHANGED <<settlement, ledger, orphans>>
    BY <1>33 DEF ClaimError
  <2>4. CASE UNCHANGED payout
    <3>1. LeavesRowsAlone
      BY <2>2, <2>3, <2>4 DEF LeavesRowsAlone
    <3> QED BY <3>1, FrameKeeps
  <2>5. CASE Claimable(PayoutOf(t)) /\ \E k \in ClaimKeys(PayoutOf(t)) : ClaimRow(PayoutOf(t), k)
    BY <2>1, <2>2, <2>3, <2>5, ClaimKeeps
  <2> QED BY <1>33, <2>4, <2>5 DEF ClaimError
<1>34. ASSUME NEW t \in Threads, MarkPaid(t)
     PROVE  KeyInv'
  <2>1. PayoutOf(t) \in Payouts /\ thread[t].ref \in Refs
    BY <1>34 DEF MarkPaid, TypeInv, InHand, ThreadInHand, PayoutOf, Job
  <2>2. \E e \in ledger : e.payout = PayoutOf(t) /\ e.ref = thread[t].ref
    BY <1>34 DEF MarkPaid, KeyInv, LedgerIsIndexed
  <2>3. \A u \in Threads : OnWire(u)' => thread'[u] = thread[u]
    BY <1>34, GotoLeavesWire DEF MarkPaid
  <2>4. UNCHANGED <<settlement, ledger, orphans>>
    BY <1>34 DEF MarkPaid
  <2>5. CASE UNCHANGED payout
    <3>1. LeavesRowsAlone
      BY <2>3, <2>4, <2>5 DEF LeavesRowsAlone
    <3> QED BY <3>1, FrameKeeps
  <2>6. CASE MarkRow(PayoutOf(t), thread[t].ref)
    BY <2>1, <2>2, <2>3, <2>4, <2>6, MarkKeeps
  <2> QED BY <1>34, <2>5, <2>6 DEF MarkPaid
<1>35. ASSUME NEW t \in Threads, MarkPaidError(t)
     PROVE  KeyInv'
  <2>1. PayoutOf(t) \in Payouts /\ thread[t].ref \in Refs
    BY <1>35 DEF MarkPaidError, TypeInv, InHand, ThreadInHand, PayoutOf, Job
  <2>2. \E e \in ledger : e.payout = PayoutOf(t) /\ e.ref = thread[t].ref
    BY <1>35 DEF MarkPaidError, KeyInv, LedgerIsIndexed
  <2>3. \A u \in Threads : OnWire(u)' => thread'[u] = thread[u]
    BY <1>35, GotoLeavesWire DEF MarkPaidError
  <2>4. UNCHANGED <<settlement, ledger, orphans>>
    BY <1>35 DEF MarkPaidError
  <2>5. CASE UNCHANGED payout
    <3>1. LeavesRowsAlone
      BY <2>3, <2>4, <2>5 DEF LeavesRowsAlone
    <3> QED BY <3>1, FrameKeeps
  <2>6. CASE MarkRow(PayoutOf(t), thread[t].ref)
    BY <2>1, <2>2, <2>3, <2>4, <2>6, MarkKeeps
  <2> QED BY <1>35, <2>5, <2>6 DEF MarkPaidError
<1>36. ASSUME NEW t \in Threads, BankAccepts(t)
     PROVE  KeyInv'
  <2>1. thread \in [Threads -> Hand] /\ t \in Waiting
    BY <1>36 DEF BankAccepts, TypeInv, TypeOK
  <2>2. PICK r \in Refs : /\ Accept(RequestOf(t), r)
                          /\ thread' = [thread EXCEPT ![t].pc = "replied", ![t].ref = r]
    BY <1>36 DEF BankAccepts
  <2>3. /\ thread'[t].job.payout = RequestOf(t).payout /\ thread'[t].key = RequestOf(t).key
        /\ thread'[t].ref = r
        /\ \A u \in Threads : u # t => thread'[u] = thread[u]
    BY <2>1, <2>2 DEF RequestOf, PayoutOf, Hand
  <2>4. UNCHANGED <<settlement, payout>> /\ orphans' \subseteq orphans
    BY <1>36 DEF BankAccepts, database
  <2>5. RequestOf(t) \in Request /\ RequestOf(t).key = payout[RequestOf(t).payout].key
    BY <2>1, RequestHasRowKey
  <2>6. \A u \in Threads : OnWire(u)' =>
           \/ thread'[u] = thread[u]
           \/ /\ thread'[u].job.payout = RequestOf(t).payout
              /\ thread'[u].key = RequestOf(t).key /\ thread'[u].ref = r
    BY <2>3
  <2> DEFINE req == RequestOf(t)
  <2> HIDE DEF req
  <2>7. /\ req \in Request /\ req.key = payout[req.payout].key /\ Accept(req, r)
        /\ \A u \in Threads : OnWire(u)' =>
              \/ thread'[u] = thread[u]
              \/ /\ thread'[u].job.payout = req.payout
                 /\ thread'[u].key = req.key /\ thread'[u].ref = r
    BY <2>2, <2>5, <2>6 DEF req
  <2> QED BY <2>4, <2>7, BankKeeps
<1>37. ASSUME NEW req \in orphans, BankAcceptsLate(req)
     PROVE  KeyInv'
  <2>1. req \in Request /\ req.key = payout[req.payout].key
    BY DEF TypeInv, TypeOK, KeyInv, KeysFollowRows
  <2>2. PICK r \in Refs : Accept(req, r)
    BY <1>37 DEF BankAcceptsLate
  <2>3. UNCHANGED <<settlement, payout, thread>> /\ orphans' \subseteq orphans
    BY <1>37 DEF BankAcceptsLate, database
  <2> QED BY <2>1, <2>2, <2>3, BankKeeps
<1>38. ASSUME UNCHANGED vars
     PROVE  KeyInv'
  <2>1. LeavesRowsAlone
    BY <1>38 DEF vars, LeavesRowsAlone, database, OnWire
  <2> QED BY <2>1, FrameKeeps
<1> QED BY <1>1, <1>2, <1>3, <1>4, <1>5, <1>6, <1>7, <1>8, <1>9, <1>10, <1>11,
          <1>12, <1>13, <1>14, <1>15, <1>16, <1>17, <1>18, <1>19, <1>20, <1>21,
          <1>22, <1>23, <1>24, <1>25, <1>26, <1>27, <1>28, <1>29, <1>30, <1>31,
          <1>32, <1>33, <1>34, <1>35, <1>36, <1>37, <1>38
      DEF Next, API, Process, PayoutThread, Bank, Housekeeping

(* With the types, the keys are an invariant of the specification. *)
LEMMA KeyInvariant == Spec => [](TypeInv /\ KeyInv)
<1>1. Init => KeyInv
  BY KeyInvInit
<1>2. TypeInv /\ KeyInv /\ [Next]_vars => KeyInv'
  BY KeyInvStep
<1> QED BY <1>1, <1>2, TypeInvariant, PTL DEF Spec

(* No settlement is paid twice at the bank. *)
THEOREM PaidOnce == Spec => []MerchantPaidOnce
<1>1. TypeInv /\ KeyInv => MerchantPaidOnce
  <2> SUFFICES ASSUME TypeInv, KeyInv, NEW d \in ledger, NEW e \in ledger,
                      payout[d.payout].of = payout[e.payout].of
               PROVE  d = e
    BY DEF MerchantPaidOnce
  <2>1. d.payout \in Payouts /\ e.payout \in Payouts /\ d.key # None
    BY NoneAssumption DEF TypeInv, TypeOK, Entry
  <2>2. payout[d.payout].key = d.key /\ payout[e.payout].key = e.key
    BY DEF KeyInv, KeysFollowRows, MoneyCarriesRowKey
  <2>3. payout[d.payout].of # None
    BY NoneAssumption, <2>1, <2>2 DEF KeyInv, OneRowPerSettlement
  <2>4. d.payout = e.payout
    BY <2>1, <2>3 DEF KeyInv, OneRowPerSettlement
  <2> QED BY <2>2, <2>4 DEF KeyInv, LedgerIsIndexed
<1> QED BY <1>1, KeyInvariant, PTL

(* What the database calls paid, the bank paid under that reference. *)
THEOREM RecordsAreTrue == Spec => []RecordMatchesBank
<1>1. KeyInv => RecordMatchesBank
  BY DEF KeyInv, LedgerIsIndexed
<1> QED BY <1>1, KeyInvariant, PTL

(* Money moved under the key that is in the row. *)
THEOREM KeysAreInRows == Spec => []MoneyCarriesRowKey
<1>1. KeyInv => MoneyCarriesRowKey
  BY DEF KeyInv, KeysFollowRows
<1> QED BY <1>1, KeyInvariant, PTL
----------------------------------------------------------------------------
(* The rows of the table, and what a step does to them.                    *)
ExecuteRow(s, p) ==
    /\ payout[p].state = "none" /\ settlement[s] = "pending"
    /\ settlement' = [settlement EXCEPT ![s] = "executing"]
    /\ payout' = [payout EXCEPT ![p] = [state |-> "queued", of |-> s, key |-> None, ref |-> None]]

RowsStep ==
    \/ UNCHANGED payout
    \/ \E s \in Settlements, p \in Payouts : ExecuteRow(s, p)
    \/ \E p \in Payouts : Claimable(p) /\ \E k \in ClaimKeys(p) : ClaimRow(p, k)
    \/ \E p \in Payouts, r \in Refs : MarkRow(p, r)

LEMMA RowsChange == TypeInv /\ [Next]_vars => RowsStep
<1> SUFFICES ASSUME TypeInv, [Next]_vars PROVE RowsStep
  OBVIOUS
<1>1. CASE API
  <2>1. ASSUME NEW s \in Settlements, ExecuteSettlement(s) PROVE RowsStep
    BY <2>1 DEF ExecuteSettlement, ExecuteRow, RowsStep
  <2> QED BY <1>1, <2>1 DEF API, CreateSettlement, EnqueuePayout, EnqueueFails, RowsStep, database
<1>2. CASE PayoutThread
  <2>0. \A t \in Threads : thread[t].pc # "idle" => PayoutOf(t) \in Payouts
    BY DEF TypeInv, InHand, ThreadInHand, PayoutOf, Job
  <2>1. ASSUME NEW t \in Threads, Claim(t) \/ ClaimError(t) PROVE RowsStep
    BY <2>0, <2>1 DEF Claim, ClaimError, RowsStep
  <2>2. ASSUME NEW t \in Threads, MarkPaid(t) \/ MarkPaidError(t) PROVE RowsStep
    <3>1. thread[t].ref \in Refs
      BY <2>2 DEF MarkPaid, MarkPaidError, TypeInv, InHand, ThreadInHand
    <3> QED BY <2>0, <2>2, <3>1 DEF MarkPaid, MarkPaidError, RowsStep
  <2> QED BY <1>2, <2>1, <2>2 DEF PayoutThread, ClaimSkipped, Ack, AckError, RetryOrDead,
             RetryOrDeadError, RowsStep, database
<1>3. CASE Process \/ Bank \/ Housekeeping \/ OperatorRequeues \/ UNCHANGED vars
  BY <1>3 DEF Process, StartWorker, RestartInPlace, Boot, Sigterm, StopFetching, Fetch,
     FetchReplyLost, Blmove, DrainDone, Exit, Kill, LeaseExpires, Bank, BankAccepts,
     BankAcceptsLate, BankUnavailable, BankRefuses, BankTimeout, Housekeeping, Wake, Heartbeat,
     SkipOwner, FindDeadOwner, Recover, Recovered, Promote, PassAborted, OperatorRequeues,
     vars, database, RowsStep
<1> QED BY <1>1, <1>2, <1>3 DEF Next

LEMMA RowsGoForward ==
    ASSUME TypeInv, KeyInv, RowsStep, NEW p \in Payouts
    PROVE  RowForward(p)
<1> USE NoneAssumption DEF RowForward, Rank
<1>0. payout \in [Payouts -> Row]
  BY DEF TypeInv, TypeOK
<1>1. CASE UNCHANGED payout
  BY <1>0, <1>1 DEF Row
<1>2. ASSUME NEW s \in Settlements, NEW q \in Payouts, ExecuteRow(s, q)
      PROVE  RowForward(p)
  <2>1. payout[q].key = None
    BY <1>2 DEF ExecuteRow, KeyInv, OneRowPerSettlement
  <2> QED BY <1>0, <1>2, <2>1 DEF ExecuteRow, Row
<1>3. ASSUME NEW q \in Payouts, Claimable(q), NEW k \in ClaimKeys(q), ClaimRow(q, k)
      PROVE  RowForward(p)
  BY <1>0, <1>3 DEF Claimable, ClaimKeys, ClaimRow, Row
<1>4. ASSUME NEW q \in Payouts, NEW r \in Refs, MarkRow(q, r)
      PROVE  RowForward(p)
  BY <1>0, <1>4 DEF MarkRow, Row
<1> QED BY <1>1, <1>2, <1>3, <1>4 DEF RowsStep

(* No step of any worker, however late, takes a row back. *)
THEOREM RowsKeepForward == Spec => RowsOnlyMoveForward
<1>1. TypeInv /\ KeyInv /\ [Next]_vars => [\A p \in Payouts : RowForward(p)]_vars
  BY RowsChange, RowsGoForward
<1> QED BY <1>1, KeyInvariant, PTL DEF Spec, RowsOnlyMoveForward
----------------------------------------------------------------------------
(* The queues: what becomes of the jobs of a payout.                       *)
LEMMA ConsJobs ==
    ASSUME NEW p, NEW s \in Seq(Job), NEW j \in Job, JobsFor(p, s) \/ j.payout = p
    PROVE  JobsFor(p, Cons(j, s))
<1>1. /\ Len(Cons(j, s)) = Len(s) + 1 /\ Len(s) \in Nat
      /\ Cons(j, s)[1] = j /\ \A i \in 1..Len(s) : Cons(j, s)[i + 1] = s[i]
  BY ConsProperties, LenProperties
<1>2. CASE j.payout = p
  BY <1>1, <1>2 DEF JobsFor
<1>3. CASE JobsFor(p, s)
  <2>1. PICK i \in 1..Len(s) : s[i].payout = p
    BY <1>3 DEF JobsFor
  <2>2. i + 1 \in 1..Len(Cons(j, s)) /\ Cons(j, s)[i + 1].payout = p
    BY <1>1, <2>1
  <2> QED BY <2>2 DEF JobsFor
<1> QED BY <1>2, <1>3

LEMMA FrontJobs ==
    ASSUME NEW p, NEW s \in Seq(Job), s # <<>>, JobsFor(p, s)
    PROVE  JobsFor(p, Front(s)) \/ Last(s).payout = p
<1>1. /\ Len(Front(s)) = Len(s) - 1 /\ Last(s) = s[Len(s)] /\ Len(s) \in Nat
      /\ \A i \in 1..(Len(s) - 1) : Front(s)[i] = s[i]
  BY FrontLastProperties, LenProperties
<1>2. PICK i \in 1..Len(s) : s[i].payout = p
  BY DEF JobsFor
<1>3. CASE i = Len(s)
  BY <1>1, <1>2, <1>3
<1>4. CASE i # Len(s)
  <2>1. i \in 1..(Len(s) - 1)
    BY <1>1, <1>4
  <2> QED BY <1>1, <1>2, <2>1 DEF JobsFor
<1> QED BY <1>3, <1>4

LEMMA ConcatJobs ==
    ASSUME NEW p, NEW s \in Seq(Job), NEW q \in Seq(Job), JobsFor(p, s) \/ JobsFor(p, q)
    PROVE  JobsFor(p, s \o q)
<1>1. /\ Len(s) \in Nat /\ Len(q) \in Nat /\ Len(s \o q) = Len(s) + Len(q)
      /\ \A k \in 1..(Len(s) + Len(q)) :
            (s \o q)[k] = IF k <= Len(s) THEN s[k] ELSE q[k - Len(s)]
  BY ConcatProperties, LenProperties
<1>2. CASE JobsFor(p, s)
  <2>1. PICK i \in 1..Len(s) : s[i].payout = p
    BY <1>2 DEF JobsFor
  <2>2. i \in 1..Len(s \o q) /\ (s \o q)[i] = s[i]
    BY <1>1
  <2> QED BY <2>1, <2>2 DEF JobsFor
<1>3. CASE JobsFor(p, q)
  <2>1. PICK i \in 1..Len(q) : q[i].payout = p
    BY <1>3 DEF JobsFor
  <2>2. /\ Len(s) + i \in 1..Len(s \o q) /\ ~(Len(s) + i <= Len(s))
        /\ (Len(s) + i) - Len(s) = i
    BY <1>1
  <2>3. (s \o q)[Len(s) + i] = q[i]
    BY <1>1, <2>2
  <2> QED BY <2>1, <2>2, <2>3 DEF JobsFor
<1> QED BY <1>2, <1>3

LEMMA RemoveJobs ==
    ASSUME NEW p, NEW s \in Seq(Job), NEW j \in Job, j.payout # p, JobsFor(p, s)
    PROVE  JobsFor(p, RemoveFirst(s, j))
<1>1. PICK i \in 1..Len(s) : s[i].payout = p
  BY DEF JobsFor
<1>2. s[i] # j
  BY <1>1
<1>3. PICK k \in 1..Len(RemoveFirst(s, j)) : RemoveFirst(s, j)[k] = s[i]
  BY <1>2, RemoveFirstProperties
<1> QED BY <1>1, <1>3 DEF JobsFor

Has(p) ==
    \/ JobsFor(p, jobs) \/ JobsFor(p, dead)
    \/ \E j \in retry : j.payout = p
    \/ \E w \in Workers : JobsFor(p, processing[w])

(* What the thread's LREM takes away is a job of its own payout.           *)
LEMMA UnprocessKeeps ==
    ASSUME TypeInv, NEW t \in Threads, thread[t].pc # "idle", Unprocess(t),
           NEW p \in Payouts, PayoutOf(t) # p, NEW w \in Workers, JobsFor(p, processing[w])
    PROVE  JobsFor(p, processing'[w])
<1>1. /\ t[1] \in Workers /\ JobOf(t) \in Job /\ JobOf(t).payout # p
      /\ processing \in [Workers -> Seq(Job)]
  BY DEF Threads, TypeInv, TypeOK, InHand, ThreadInHand, JobOf, PayoutOf
<1>2. JobsFor(p, processing[t[1]]) => JobsFor(p, RemoveFirst(processing[t[1]], JobOf(t)))
  BY <1>1, RemoveJobs
<1>3. \/ w = t[1] /\ processing'[w] = RemoveFirst(processing[t[1]], JobOf(t))
      \/ processing'[w] = processing[w]
  BY <1>1 DEF Unprocess
<1> QED BY <1>2, <1>3

(* BLMOVE takes a job from one list to another.                            *)
LEMMA BlmoveKeeps ==
    ASSUME TypeInv, NEW w \in Workers, Blmove(w), NEW p \in Payouts, Has(p)
    PROVE  Has(p)'
<1>1. /\ jobs \in Seq(Job) /\ jobs # <<>> /\ processing \in [Workers -> Seq(Job)]
      /\ jobs' = Front(jobs) /\ UNCHANGED <<retry, dead>>
  BY DEF TypeInv, TypeOK, Blmove
<1>2. processing'[w] = Cons(Last(jobs), processing[w])
      /\ \A v \in Workers : v # w => processing'[v] = processing[v]
  BY <1>1 DEF Blmove
<1>3. Last(jobs) \in Job
  BY <1>1, FrontLastProperties
<1>4. \A v \in Workers : JobsFor(p, processing[v]) => JobsFor(p, processing'[v])
  BY <1>1, <1>2, <1>3, ConsJobs
<1>5. JobsFor(p, jobs) => JobsFor(p, jobs') \/ JobsFor(p, processing'[w])
  <2>1. ASSUME JobsFor(p, jobs) PROVE JobsFor(p, Front(jobs)) \/ Last(jobs).payout = p
    BY <1>1, <2>1, FrontJobs
  <2>2. ASSUME Last(jobs).payout = p PROVE JobsFor(p, Cons(Last(jobs), processing[w]))
    BY <1>1, <1>3, <2>2, ConsJobs
  <2> QED BY <1>1, <1>2, <2>1, <2>2
<1> QED BY <1>1, <1>4, <1>5 DEF Has

(* The acknowledgement takes a job of its payout away, a retry or a dead   *)
(* letter writes one before it does.                                       *)
LEMMA AckKeepsOthers ==
    ASSUME TypeInv, NEW t \in Threads, Ack(t) \/ AckError(t), NEW p \in Payouts, Has(p), PayoutOf(t) # p
    PROVE  Has(p)'
<1>1. UNCHANGED <<jobs, retry, dead>> /\ (UNCHANGED processing \/ Unprocess(t)) /\ thread[t].pc # "idle"
  BY DEF Ack, AckError
<1>2. \A w \in Workers : JobsFor(p, processing[w]) => JobsFor(p, processing'[w])
  BY <1>1, UnprocessKeeps
<1> QED BY <1>1, <1>2 DEF Has

LEMMA RetryKeeps ==
    ASSUME TypeInv, NEW t \in Threads, RetryOrDead(t), NEW p \in Payouts, Has(p)
    PROVE  Has(p)'
<1>1. thread[t].pc # "idle" /\ Unprocess(t) /\ UNCHANGED jobs
  BY DEF RetryOrDead
<1>2. PICK e \in Errors :
         \/ retry' = retry \cup {NextAttempt(JobOf(t), e)} /\ UNCHANGED dead
         \/ dead' = Cons(NextAttempt(JobOf(t), e), dead) /\ UNCHANGED retry
  BY DEF RetryOrDead
<1> DEFINE next == NextAttempt(JobOf(t), e)
<1>3. next \in Job /\ next.payout = PayoutOf(t) /\ dead \in Seq(Job)
  BY <1>1 DEF TypeInv, TypeOK, InHand, ThreadInHand, NextAttempt, JobOf, PayoutOf, Job
<1> HIDE DEF next
<1>4. \/ retry' = retry \cup {next} /\ UNCHANGED dead
      \/ dead' = Cons(next, dead) /\ UNCHANGED retry
  BY <1>2 DEF next
<1>5. CASE PayoutOf(t) = p
  BY <1>3, <1>4, <1>5, ConsJobs DEF Has
<1>6. CASE PayoutOf(t) # p
  <2>1. \A w \in Workers : JobsFor(p, processing[w]) => JobsFor(p, processing'[w])
    BY <1>1, <1>6, UnprocessKeeps
  <2>2. JobsFor(p, dead) => JobsFor(p, dead')
    BY <1>3, <1>4, ConsJobs
  <2>3. retry \subseteq retry'
    BY <1>4
  <2> QED BY <1>1, <2>1, <2>2, <2>3 DEF Has
<1> QED BY <1>5, <1>6

(* Recovery and promotion give back what they take, and so does a person.  *)
LEMMA RecoverKeeps ==
    ASSUME TypeInv, NEW w \in Workers, Recover(w), NEW p \in Payouts, Has(p)
    PROVE  Has(p)'
<1> DEFINE o == hk[w].from
<1>1. /\ o \in Workers /\ processing[o] # <<>> /\ processing \in [Workers -> Seq(Job)]
      /\ jobs \in Seq(Job) /\ UNCHANGED <<retry, dead>>
      /\ processing' = [processing EXCEPT ![o] = Front(@)]
      /\ jobs' = Append(jobs, Last(processing[o]))
  BY DEF Recover, TypeInv, TypeOK, InHand
<1> HIDE DEF o
<1>2. Last(processing[o]) \in Job
  BY <1>1, FrontLastProperties
<1>3. \A x \in Job : /\ JobsFor(p, jobs) => JobsFor(p, Append(jobs, x))
                     /\ x.payout = p => JobsFor(p, Append(jobs, x))
  <2>1. TAKE x \in Job
  <2>2. /\ Len(jobs) \in Nat /\ Len(Append(jobs, x)) = Len(jobs) + 1
        /\ \A i \in 1..Len(jobs) : Append(jobs, x)[i] = jobs[i]
        /\ Append(jobs, x)[Len(jobs) + 1] = x
    BY <1>1, AppendProperties, LenProperties
  <2> QED BY <2>2 DEF JobsFor
<1>4. JobsFor(p, processing[o]) => JobsFor(p, processing'[o]) \/ JobsFor(p, jobs')
  BY <1>1, <1>2, <1>3, FrontJobs
<1>5. \A v \in Workers : v # o => processing'[v] = processing[v]
  BY <1>1
<1> QED BY <1>1, <1>2, <1>3, <1>4, <1>5 DEF Has

LEMMA PromoteKeeps ==
    ASSUME TypeInv, NEW w \in Workers, NEW due \in SUBSET retry, Promote(w, due), NEW p \in Payouts, Has(p)
    PROVE  Has(p)'
<1>1. /\ jobs \in Seq(Job) /\ due \subseteq Job /\ IsFiniteSet(due)
      /\ retry' = retry \ due /\ UNCHANGED <<dead, processing>>
  BY FS_Subset DEF Promote, TypeInv, TypeOK
<1>2. PICK order \in SetToSeqs(due) : jobs' = jobs \o order
  BY DEF Promote
<1>3. order \in Seq(Job) /\ \A x \in due : \E i \in 1..Len(order) : order[i] = x
  BY <1>1, SetToSeqsProperties
<1>4. JobsFor(p, jobs) => JobsFor(p, jobs')
  BY <1>1, <1>2, <1>3, ConcatJobs
<1>5. ASSUME NEW j \in due, j.payout = p PROVE JobsFor(p, jobs')
  <2>1. JobsFor(p, order)
    BY <1>3, <1>5 DEF JobsFor
  <2> QED BY <1>1, <1>2, <1>3, <2>1, ConcatJobs
<1> QED BY <1>1, <1>4, <1>5 DEF Has

LEMMA OperatorKeeps ==
    ASSUME TypeInv, OperatorRequeues, NEW p \in Payouts, Has(p)
    PROVE  Has(p)'
<1>1. /\ jobs \in Seq(Job) /\ dead \in Seq(Job) /\ dead # <<>> /\ UNCHANGED <<retry, processing>>
      /\ dead' = Front(dead) /\ jobs' = Cons(Last(dead), jobs)
  BY DEF OperatorRequeues, TypeInv, TypeOK
<1>2. Last(dead) \in Job
  BY <1>1, FrontLastProperties
<1>3. JobsFor(p, jobs) => JobsFor(p, jobs')
  BY <1>1, <1>2, ConsJobs
<1>4. JobsFor(p, dead) => JobsFor(p, dead') \/ JobsFor(p, jobs')
  BY <1>1, <1>2, FrontJobs, ConsJobs
<1> QED BY <1>1, <1>3, <1>4 DEF Has

(* A pushed job of a payout that is not paid.                              *)
LEMMA EnqueueHas ==
    ASSUME TypeInv, NEW q \in Payouts, EnqueuePayout(q), NEW p \in Payouts, Has(p) \/ p = q
    PROVE  Has(p)'
<1>1. NewJob(q) \in Job /\ NewJob(q).payout = q /\ jobs \in Seq(Job)
  BY DEF NewJob, Job, TypeInv, TypeOK
<1>2. jobs' = Cons(NewJob(q), jobs) /\ UNCHANGED <<retry, dead, processing>>
  BY DEF EnqueuePayout
<1> QED BY <1>1, <1>2, ConsJobs DEF Has

QueuesStand == UNCHANGED <<jobs, retry, dead, processing>>

LEMMA JobsStay ==
    ASSUME TypeInv, [Next]_vars, NEW p \in Payouts, Has(p),
           \A t \in Threads : thread[t].pc = "ack" => PayoutOf(t) # p
    PROVE  Has(p)'
<1>1. QueuesStand => Has(p)'
  BY DEF QueuesStand, Has
<1>2. CASE API
  BY <1>1, <1>2, EnqueueHas DEF API, CreateSettlement, ExecuteSettlement, EnqueueFails, QueuesStand, queue
<1>3. CASE Process
  <2>1. ASSUME NEW w \in Workers, (\E s \in Slots : Fetch(w, s)) \/ FetchReplyLost(w) PROVE Has(p)'
    BY <2>1, BlmoveKeeps DEF Fetch, FetchReplyLost
  <2> QED BY <1>1, <1>3, <2>1 DEF Process, StartWorker, RestartInPlace, Boot, Sigterm, StopFetching,
             DrainDone, Exit, Kill, LeaseExpires, QueuesStand, queue
<1>4. CASE PayoutThread
  <2>1. ASSUME NEW t \in Threads, Ack(t) \/ AckError(t) PROVE Has(p)'
    BY <2>1, AckKeepsOthers DEF Ack, AckError
  <2>2. ASSUME NEW t \in Threads, RetryOrDead(t) PROVE Has(p)'
    BY <2>2, RetryKeeps
  <2> QED BY <1>1, <1>4, <2>1, <2>2 DEF PayoutThread, Claim, ClaimSkipped, ClaimError, MarkPaid,
             MarkPaidError, RetryOrDeadError, QueuesStand, queue
<1>5. CASE Housekeeping
  <2>1. ASSUME NEW w \in Workers, Recover(w) \/ (\E due \in SUBSET retry : Promote(w, due)) PROVE Has(p)'
    BY <2>1, RecoverKeeps, PromoteKeeps
  <2> QED BY <1>1, <1>5, <2>1 DEF Housekeeping, Wake, Heartbeat, SkipOwner, FindDeadOwner, Recovered,
             PassAborted, QueuesStand, queue
<1>6. CASE Bank \/ UNCHANGED vars
  BY <1>1, <1>6 DEF Bank, BankAccepts, BankAcceptsLate, BankUnavailable, BankRefuses, BankTimeout,
     QueuesStand, queue, vars
<1> QED BY <1>2, <1>3, <1>4, <1>5, <1>6, OperatorKeeps DEF Next

(* A row that is claimed stays claimed, one that is paid stays paid.       *)
Claimed(p) == payout[p].state \in {"sending", "paid"}

LEMMA RowsAdvance ==
    ASSUME TypeInv, [Next]_vars, NEW p \in Payouts
    PROVE  /\ Claimed(p) => Claimed(p)'
           /\ payout[p].state = "paid" => payout'[p].state = "paid"
<1>0. payout \in [Payouts -> Row] /\ RowsStep
  BY RowsChange DEF TypeInv, TypeOK
<1>1. CASE UNCHANGED payout
  BY <1>1 DEF Claimed
<1>2. ASSUME NEW s \in Settlements, NEW q \in Payouts, ExecuteRow(s, q), p # q
      PROVE  payout'[p] = payout[p]
  BY <1>0, <1>2 DEF ExecuteRow
<1>3. ASSUME NEW s \in Settlements, NEW q \in Payouts, ExecuteRow(s, q), p = q
      PROVE  ~Claimed(p)
  BY <1>3 DEF ExecuteRow, Claimed
<1>4. ASSUME NEW q \in Payouts, Claimable(q), NEW k \in ClaimKeys(q), ClaimRow(q, k)
      PROVE  \/ payout'[p] = payout[p]
             \/ payout[p].state # "paid" /\ payout'[p].state = "sending"
  BY <1>0, <1>4 DEF Claimable, ClaimRow, Row
<1>5. ASSUME NEW q \in Payouts, NEW r \in Refs, MarkRow(q, r)
      PROVE  payout'[p] = payout[p] \/ payout'[p].state = "paid"
  BY <1>0, <1>5 DEF MarkRow, Row
<1> QED BY <1>0, <1>1, <1>2, <1>3, <1>4, <1>5 DEF RowsStep, Claimed

(* A request on the wire follows a claim, an acknowledgement the mark.     *)
Acknowledges(t) ==
    /\ thread[t].pc \in {"await", "replied"} => Claimed(PayoutOf(t))
    /\ thread[t].pc = "ack" => payout[PayoutOf(t)].state = "paid"

LEMMA AcksFollowPayment ==
    ASSUME TypeInv, AcknowledgedIsPaid, [Next]_vars
    PROVE  AcknowledgedIsPaid'
<1> SUFFICES ASSUME NEW t \in Threads PROVE Acknowledges(t)'
  BY DEF AcknowledgedIsPaid, Acknowledges, Claimed, PayoutOf
<1>0. /\ payout \in [Payouts -> Row] /\ thread \in [Threads -> Hand] /\ Acknowledges(t)
      /\ thread[t].pc # "idle" => PayoutOf(t) \in Payouts
  BY DEF TypeInv, TypeOK, InHand, ThreadInHand, PayoutOf, Job, AcknowledgedIsPaid, Acknowledges, Claimed
<1>1. thread'[t] = thread[t] => Acknowledges(t)'
  <2>1. thread[t].pc = "idle" \/ PayoutOf(t) \in Payouts
    BY <1>0
  <2> QED BY <1>0, <2>1, RowsAdvance DEF Acknowledges, Claimed, PayoutOf
<1>2. thread'[t].pc \in {"idle", "claim", "retry", "reject"} => Acknowledges(t)'
  BY DEF Acknowledges
<1>3. \A u \in Threads : Release(u) => Acknowledges(t)'
  <2>1. \A u \in Threads : Release(u) => thread'[t] = thread[t] \/ thread'[t].pc = "idle"
    BY <1>0 DEF Release, Idle, At
  <2> QED BY <1>1, <1>2, <2>1
<1>4. \A u \in Threads : Goto(u, "retry") \/ Goto(u, "reject") => Acknowledges(t)'
  <2>1. \A u \in Threads : Goto(u, "retry") \/ Goto(u, "reject") =>
           thread'[t] = thread[t] \/ thread'[t].pc \in {"retry", "reject"}
    BY <1>0 DEF Goto, At
  <2> QED BY <1>1, <1>2, <2>1
<1>5. ASSUME NEW u \in Threads, Goto(u, "ack"), thread[u].pc # "idle", payout'[PayoutOf(u)].state = "paid"
      PROVE  Acknowledges(t)'
  <2>1. thread'[t] = thread[t] \/ t = u
    BY <1>0, <1>5 DEF Goto
  <2>2. t = u => thread'[t].pc = "ack" /\ thread'[t].job.payout = PayoutOf(u)
    BY <1>0, <1>5 DEF Goto, At, JobOf, PayoutOf
  <2> QED BY <1>1, <1>5, <2>1, <2>2 DEF Acknowledges, PayoutOf
<1>6. CASE API \/ Housekeeping \/ OperatorRequeues \/ UNCHANGED vars
  <2>1. thread' = thread
    BY <1>6 DEF API, CreateSettlement, ExecuteSettlement, EnqueuePayout, EnqueueFails, Housekeeping,
       Wake, Heartbeat, SkipOwner, FindDeadOwner, Recover, Recovered, Promote, PassAborted,
       OperatorRequeues, vars
  <2> QED BY <1>1, <2>1
<1>7. CASE Process
  <2>1. ASSUME NEW w \in Workers, NEW s \in Slots, Fetch(w, s) PROVE Acknowledges(t)'
    <3>1. thread'[t] = thread[t] \/ thread'[t].pc = "claim"
      BY <1>0, <2>1 DEF Fetch, At
    <3> QED BY <1>1, <1>2, <3>1
  <2>2. ASSUME NEW w \in Workers, Kill(w) PROVE Acknowledges(t)'
    <3>1. thread'[t] = thread[t] \/ thread'[t].pc = "idle"
      BY <2>2 DEF Kill, Idle, At
    <3> QED BY <1>1, <1>2, <3>1
  <2> QED BY <1>1, <1>7, <2>1, <2>2 DEF Process, StartWorker, RestartInPlace, Boot, Sigterm, StopFetching,
             FetchReplyLost, DrainDone, Exit, LeaseExpires
<1>8. CASE PayoutThread
  <2>1. ASSUME NEW u \in Threads, Claim(u) PROVE Acknowledges(t)'
    <3>1. thread[u].pc # "idle" /\ PayoutOf(u) \in Payouts
      BY <2>1 DEF Claim, TypeInv, InHand, ThreadInHand, PayoutOf, Job
    <3>2. PICK k \in ClaimKeys(PayoutOf(u)) :
             /\ ClaimRow(PayoutOf(u), k)
             /\ thread' = [thread EXCEPT ![u].pc = "await", ![u].key = k]
      BY <2>1 DEF Claim
    <3>3. payout'[PayoutOf(u)].state = "sending"
      BY <1>0, <3>1, <3>2 DEF ClaimRow, Row
    <3>4. t = u => thread'[t].pc = "await" /\ thread'[t].job.payout = PayoutOf(u)
      BY <1>0, <3>2 DEF PayoutOf, Hand
    <3>5. t # u => thread'[t] = thread[t]
      BY <1>0, <3>2
    <3> QED BY <1>1, <3>3, <3>4, <3>5 DEF Acknowledges, Claimed, PayoutOf
  <2>2. ASSUME NEW u \in Threads, ClaimSkipped(u) PROVE Acknowledges(t)'
    <3>1. CASE payout[PayoutOf(u)].state = "paid"
      BY <1>5, <2>2, <3>1 DEF ClaimSkipped, database
    <3>2. CASE payout[PayoutOf(u)].state # "paid"
      BY <1>4, <2>2, <3>2 DEF ClaimSkipped
    <3> QED BY <3>1, <3>2
  <2>3. ASSUME NEW u \in Threads, MarkPaid(u) PROVE Acknowledges(t)'
    <3>1. thread[u].pc = "replied" /\ PayoutOf(u) \in Payouts /\ Claimed(PayoutOf(u))
      BY <2>3 DEF MarkPaid, TypeInv, InHand, ThreadInHand, PayoutOf, Job, AcknowledgedIsPaid, Claimed
    <3>2. payout'[PayoutOf(u)].state = "paid"
      BY <1>0, <2>3, <3>1 DEF MarkPaid, MarkRow, Row, Claimed
    <3> QED BY <1>5, <2>3, <3>1, <3>2 DEF MarkPaid
  <2> QED BY <1>3, <1>4, <1>8, <2>1, <2>2, <2>3 DEF PayoutThread, ClaimError, MarkPaidError, Ack, AckError,
             RetryOrDead, RetryOrDeadError
<1>9. CASE Bank
  <2>1. ASSUME NEW u \in Threads, BankAccepts(u) PROVE Acknowledges(t)'
    <3>1. PICK r \in Refs : thread' = [thread EXCEPT ![u].pc = "replied", ![u].ref = r]
      BY <2>1 DEF BankAccepts
    <3>2. t = u => /\ thread[t].pc = "await" /\ thread'[t].pc = "replied"
                   /\ thread'[t].job.payout = PayoutOf(t)
      BY <1>0, <2>1, <3>1 DEF BankAccepts, Waiting, PayoutOf, Hand
    <3>3. t # u => thread'[t] = thread[t]
      BY <1>0, <3>1
    <3>4. payout' = payout
      BY <2>1 DEF BankAccepts, database
    <3> QED BY <1>0, <1>1, <3>2, <3>3, <3>4 DEF Acknowledges, Claimed, PayoutOf
  <2> QED BY <1>1, <1>4, <1>9, <2>1 DEF Bank, BankAcceptsLate, BankUnavailable,
             BankRefuses, BankTimeout, Waiting
<1> QED BY <1>6, <1>7, <1>8, <1>9 DEF Next

(* A payout comes to be pushed by the LPUSH of its job and nothing else.   *)
LEMMA PushedByLpush ==
    ASSUME TypeInv, [Next]_vars, NEW p \in Payouts, request'[p] = "pushed", request[p] # "pushed"
    PROVE  EnqueuePayout(p)
<1>0. request \in [Payouts -> {"none", "committed", "pushed", "lost"}] /\ request' # request
  BY DEF TypeInv, TypeOK
<1>1. API
  BY <1>0 DEF Next, Process, StartWorker, RestartInPlace, Boot, Sigterm, StopFetching, Fetch,
     FetchReplyLost, Blmove, DrainDone, Exit, Kill, LeaseExpires, PayoutThread, Claim, ClaimSkipped,
     ClaimError, MarkPaid, MarkPaidError, Ack, AckError, RetryOrDead, RetryOrDeadError, Bank,
     BankAccepts, BankAcceptsLate, BankUnavailable, BankRefuses, BankTimeout, Housekeeping, Wake,
     Heartbeat, SkipOwner, FindDeadOwner, Recover, Recovered, Promote, PassAborted,
     OperatorRequeues, vars
<1>2. ASSUME NEW s \in Settlements, ExecuteSettlement(s) PROVE FALSE
  <2>1. PICK q \in Payouts : request' = [request EXCEPT ![q] = "committed"]
    BY <1>2 DEF ExecuteSettlement
  <2> QED BY <1>0, <2>1
<1>3. ASSUME NEW q \in Payouts, EnqueueFails(q) PROVE FALSE
  BY <1>0, <1>3 DEF EnqueueFails
<1>4. ASSUME NEW q \in Payouts, EnqueuePayout(q) PROVE EnqueuePayout(p)
  <2>1. q = p
    BY <1>0, <1>4 DEF EnqueuePayout
  <2> QED BY <1>4, <2>1
<1>5. ASSUME NEW s \in Settlements, CreateSettlement(s) PROVE FALSE
  BY <1>0, <1>5 DEF CreateSettlement
<1> QED BY <1>1, <1>2, <1>3, <1>4, <1>5 DEF API

(* The last copy of an unpaid payout's job is never dropped, whichever     *)
(* Redis call fails and whoever else has a copy.                           *)
THEOREM JobsAreKept == Spec => []NoJobLost
<1>1. Init => AcknowledgedIsPaid /\ NoJobLost
  BY DEF Init, AcknowledgedIsPaid, NoJobLost, Idle, At
<1>2. TypeInv /\ AcknowledgedIsPaid /\ NoJobLost /\ [Next]_vars => (AcknowledgedIsPaid /\ NoJobLost)'
  <2> SUFFICES ASSUME TypeInv, AcknowledgedIsPaid, NoJobLost, [Next]_vars,
                      NEW p \in Payouts, request'[p] = "pushed", payout'[p].state # "paid"
               PROVE  Has(p)'
    BY AcksFollowPayment DEF NoJobLost, Has
  <2>1. payout[p].state # "paid"
    BY RowsAdvance
  <2>2. CASE request[p] = "pushed"
    <3>1. Has(p)
      BY <2>1, <2>2 DEF NoJobLost, Has
    <3>2. \A t \in Threads : thread[t].pc = "ack" => PayoutOf(t) # p
      BY <2>1 DEF AcknowledgedIsPaid
    <3> QED BY <3>1, <3>2, JobsStay
  <2>3. CASE request[p] # "pushed"
    BY <2>3, PushedByLpush, EnqueueHas
  <2> QED BY <2>2, <2>3
<1> QED BY <1>1, <1>2, TypeInvariant, PTL DEF Spec
----------------------------------------------------------------------------
(* The promise: every step of the pipeline is a step of PayoutPromise, or  *)
(* changes nothing it speaks of.                                           *)
Owed == {s \in Settlements : settlement[s] = "executing"}
Moved == [s \in Settlements |-> MovedFor(s)]
Recorded == [s \in Settlements |-> RecordedFor(s)]

BankHas(p, r) == \E e \in ledger : e.payout = p /\ e.ref = r
HasRowKey(req) == req.key = payout[req.payout].key

MoneyStep ==
    \/ UNCHANGED <<payout, ledger>> /\ Owed' = Owed
    \/ UNCHANGED ledger /\ \E s \in Settlements, p \in Payouts : ExecuteRow(s, p)
    \/ /\ UNCHANGED <<settlement, ledger>>
       /\ \E p \in Payouts : Claimable(p) /\ \E k \in ClaimKeys(p) : ClaimRow(p, k)
    \/ /\ UNCHANGED <<settlement, ledger>>
       /\ \E p \in Payouts, r \in Refs : BankHas(p, r) /\ MarkRow(p, r)
    \/ /\ UNCHANGED <<settlement, payout>>
       /\ \E req \in Request, r \in Refs : HasRowKey(req) /\ MoveMoney(req, r)

LEMMA MoneyChanges == TypeInv /\ KeyInv /\ [Next]_vars => MoneyStep
<1> SUFFICES ASSUME TypeInv, KeyInv, [Next]_vars PROVE MoneyStep
  OBVIOUS
<1>0. settlement \in [Settlements -> {"absent", "pending", "executing"}]
  BY DEF TypeInv, TypeOK
<1>1. CASE API
  <2>1. ASSUME NEW s \in Settlements, ExecuteSettlement(s) PROVE MoneyStep
    BY <2>1 DEF ExecuteSettlement, ExecuteRow, MoneyStep
  <2>2. ASSUME NEW s \in Settlements, CreateSettlement(s) PROVE MoneyStep
    BY <1>0, <2>2 DEF CreateSettlement, Owed, MoneyStep
  <2>3. ASSUME NEW p \in Payouts, EnqueuePayout(p) \/ EnqueueFails(p) PROVE MoneyStep
    BY <2>3 DEF EnqueuePayout, EnqueueFails, Owed, MoneyStep, database
  <2> QED BY <1>1, <2>1, <2>2, <2>3 DEF API
<1>2. CASE PayoutThread
  <2>0. \A t \in Threads : thread[t].pc # "idle" => PayoutOf(t) \in Payouts
    BY DEF TypeInv, InHand, ThreadInHand, PayoutOf, Job
  <2>1. ASSUME NEW t \in Threads, Claim(t) \/ ClaimError(t) PROVE MoneyStep
    BY <2>0, <2>1 DEF Claim, ClaimError, Owed, MoneyStep
  <2>2. ASSUME NEW t \in Threads, MarkPaid(t) \/ MarkPaidError(t) PROVE MoneyStep
    <3>1. thread[t].ref \in Refs /\ PayoutOf(t) \in Payouts
      BY <2>0, <2>2 DEF MarkPaid, MarkPaidError, TypeInv, InHand, ThreadInHand
    <3>2. BankHas(PayoutOf(t), thread[t].ref)
      BY <2>2 DEF MarkPaid, MarkPaidError, KeyInv, LedgerIsIndexed, BankHas
    <3> QED BY <2>2, <3>1, <3>2 DEF MarkPaid, MarkPaidError, Owed, MoneyStep
  <2> QED BY <1>2, <2>1, <2>2 DEF PayoutThread, ClaimSkipped, Ack, AckError, RetryOrDead,
             RetryOrDeadError, Owed, MoneyStep, database
<1>3. CASE Bank
  <2>1. ASSUME NEW req \in Request, NEW r \in Refs, HasRowKey(req), Accept(req, r),
               UNCHANGED database
        PROVE  MoneyStep
    BY <2>1 DEF Accept, Replay, Owed, MoneyStep, database
  <2>2. ASSUME NEW t \in Threads, BankAccepts(t) PROVE MoneyStep
    <3>1. t \in Waiting /\ UNCHANGED database /\ \E r \in Refs : Accept(RequestOf(t), r)
      BY <2>2 DEF BankAccepts
    <3>2. RequestOf(t) \in Request /\ HasRowKey(RequestOf(t))
      BY <3>1, RequestHasRowKey DEF HasRowKey
    <3> QED BY <2>1, <3>1, <3>2
  <2>3. ASSUME NEW req \in orphans, BankAcceptsLate(req) PROVE MoneyStep
    <3>1. req \in Request /\ HasRowKey(req)
      BY DEF TypeInv, TypeOK, KeyInv, KeysFollowRows, HasRowKey
    <3> QED BY <2>1, <2>3, <3>1 DEF BankAcceptsLate
  <2> QED BY <1>3, <2>2, <2>3 DEF Bank, BankUnavailable, BankRefuses, BankTimeout, Owed, MoneyStep,
             database
<1>4. CASE Process \/ Housekeeping \/ OperatorRequeues \/ UNCHANGED vars
  BY <1>4 DEF Process, StartWorker, RestartInPlace, Boot, Sigterm, StopFetching, Fetch,
     FetchReplyLost, Blmove, DrainDone, Exit, Kill, LeaseExpires, Housekeeping, Wake, Heartbeat,
     SkipOwner, FindDeadOwner, Recover, Recovered, Promote, PassAborted, OperatorRequeues,
     vars, database, Owed, MoneyStep
<1> QED BY <1>1, <1>2, <1>3, <1>4 DEF Next

(* A function that differs from another at one place.                      *)
LEMMA OneChanges ==
    ASSUME NEW S, NEW s \in S, NEW v, NEW f, NEW g,
           f = [x \in S |-> f[x]], g = [x \in S |-> g[x]],
           g[s] = v, \A x \in S : x # s => g[x] = f[x]
    PROVE  g = [f EXCEPT ![s] = v]
  OBVIOUS

(* A row without a key has moved no money.                                 *)
LEMMA NoKeyNoMoney ==
    ASSUME TypeInv, KeyInv, NEW p \in Payouts, payout[p].key = None
    PROVE  \A e \in ledger : e.payout # p
  BY NoneAssumption DEF TypeInv, TypeOK, Entry, KeyInv, KeysFollowRows, MoneyCarriesRowKey

(* The row that executing a settlement opens is its only one.              *)
LEMMA ExecuteKeepsPromise ==
    ASSUME TypeInv, KeyInv, NEW s \in Settlements, NEW p \in Payouts, ExecuteRow(s, p),
           UNCHANGED ledger
    PROVE  Owed' = Owed \cup {s} /\ s \notin Owed /\ Moved' = Moved /\ Recorded' = Recorded
<1> USE NoneAssumption
<1>0. /\ settlement \in [Settlements -> {"absent", "pending", "executing"}]
      /\ payout \in [Payouts -> Row]
  BY DEF TypeInv, TypeOK
<1>1. payout[p].of = None /\ payout[p].key = None
  BY DEF ExecuteRow, KeyInv, OneRowPerSettlement
<1>2. /\ payout'[p].of = s /\ payout'[p].state = "queued" /\ payout[p].state = "none"
      /\ \A q \in Payouts : q # p => payout'[q] = payout[q]
  BY <1>0 DEF ExecuteRow
<1>3. \A x \in Settlements : x # None
  OBVIOUS
<1>4. ASSUME NEW x \in Settlements PROVE MovedFor(x)' = MovedFor(x)
  <2>1. \A e \in ledger : e.payout \in Payouts /\ e.payout # p
    BY <1>1, NoKeyNoMoney DEF TypeInv, TypeOK, Entry
  <2>2. {d \in ledger : d.payout \in RowsOf(x)}' = {d \in ledger : d.payout \in RowsOf(x)}
    BY <1>2, <2>1 DEF RowsOf
  <2> QED BY <2>2 DEF MovedFor
<1>5. ASSUME NEW x \in Settlements PROVE RecordedFor(x)' = RecordedFor(x)
  <2>1. {q \in RowsOf(x) : payout[q].state = "paid"}' = {q \in RowsOf(x) : payout[q].state = "paid"}
    BY <1>2 DEF RowsOf
  <2>2. \A q \in {q \in RowsOf(x) : payout[q].state = "paid"} : payout'[q].ref = payout[q].ref
    BY <1>2 DEF RowsOf
  <2> QED BY <2>1, <2>2 DEF RecordedFor
<1>6. Owed' = Owed \cup {s} /\ s \notin Owed
  BY <1>0 DEF Owed, ExecuteRow
<1> QED BY <1>4, <1>5, <1>6 DEF Moved, Recorded

(* Claiming a row moves and records nothing.                               *)
LEMMA ClaimKeepsPromise ==
    ASSUME TypeInv, NEW p \in Payouts, Claimable(p), NEW k \in ClaimKeys(p), ClaimRow(p, k),
           UNCHANGED <<settlement, ledger>>
    PROVE  Owed' = Owed /\ Moved' = Moved /\ Recorded' = Recorded
<1>1. /\ payout'[p].state = "sending" /\ payout[p].state # "paid"
      /\ \A q \in Payouts : payout'[q].of = payout[q].of /\ payout'[q].ref = payout[q].ref
      /\ \A q \in Payouts : q # p => payout'[q] = payout[q]
  BY DEF TypeInv, TypeOK, Row, Claimable, ClaimRow
<1>2. ASSUME NEW x \in Settlements
      PROVE  MovedFor(x)' = MovedFor(x) /\ RecordedFor(x)' = RecordedFor(x)
  <2>1. RowsOf(x)' = RowsOf(x)
    BY <1>1 DEF RowsOf
  <2>2. {q \in RowsOf(x) : payout[q].state = "paid"}' = {q \in RowsOf(x) : payout[q].state = "paid"}
    BY <1>1, <2>1 DEF RowsOf
  <2>3. \A q \in {q \in RowsOf(x) : payout[q].state = "paid"} : payout'[q].ref = payout[q].ref
    BY <1>1 DEF RowsOf
  <2> QED BY <2>1, <2>2, <2>3 DEF MovedFor, RecordedFor
<1> QED BY <1>2 DEF Owed, Moved, Recorded

(* A first mark records a reference of the bank's, a second one nothing.   *)
LEMMA MarkKeepsPromise ==
    ASSUME TypeInv, KeyInv, NEW p \in Payouts, NEW r \in Refs, BankHas(p, r), MarkRow(p, r),
           UNCHANGED <<settlement, ledger>>
    PROVE  [Promise!Next]_<<Owed, Moved, Recorded>>
<1> USE NoneAssumption
<1>0. payout \in [Payouts -> Row]
  BY DEF TypeInv, TypeOK
<1>1. CASE payout[p].state # "sending"
  <2>1. UNCHANGED payout
    BY <1>1 DEF MarkRow
  <2> QED BY <2>1 DEF Owed, Moved, Recorded, MovedFor, RecordedFor, RowsOf
<1>2. CASE payout[p].state = "sending"
  <2>1. /\ payout'[p].state = "paid" /\ payout'[p].ref = r
        /\ \A q \in Payouts : payout'[q].of = payout[q].of
        /\ \A q \in Payouts : q # p => payout'[q] = payout[q]
    BY <1>0, <1>2 DEF MarkRow, Row
  <2>2. PICK s \in Settlements : payout[p].of = s /\ \A q \in Payouts : payout[q].of = s => q = p
    BY <1>2 DEF KeyInv, OneRowPerSettlement
  <2>3. \A x \in Settlements : RowsOf(x)' = RowsOf(x)
    BY <2>1 DEF RowsOf
  <2>4. Owed' = Owed /\ Moved' = Moved
    BY <2>3 DEF Owed, Moved, MovedFor
  <2>5. r \in Moved[s]
    BY <2>2 DEF BankHas, Moved, MovedFor, RowsOf
  <2>6. RecordedFor(s) = {} /\ RecordedFor(s)' = {r}
    <3>1. RowsOf(s) = {p}
      BY <2>2 DEF RowsOf
    <3>2. {q \in RowsOf(s) : payout[q].state = "paid"} = {}
      BY <1>2, <3>1
    <3>3. {q \in RowsOf(s) : payout[q].state = "paid"}' = {p}
      BY <2>1, <2>3, <2>2, <3>1
    <3> QED BY <2>1, <3>2, <3>3 DEF RecordedFor
  <2>7. ASSUME NEW x \in Settlements, x # s PROVE RecordedFor(x)' = RecordedFor(x)
    <3>0. p \notin RowsOf(x)
      BY <2>2, <2>7 DEF RowsOf
    <3>1. {q \in RowsOf(x) : payout[q].state = "paid"}' = {q \in RowsOf(x) : payout[q].state = "paid"}
      BY <2>1, <2>3, <3>0 DEF RowsOf
    <3>2. \A q \in {q \in RowsOf(x) : payout[q].state = "paid"} : payout'[q].ref = payout[q].ref
      BY <2>1, <3>0 DEF RowsOf
    <3> QED BY <3>1, <3>2 DEF RecordedFor
  <2>8. Recorded[s] = {} /\ Recorded' = [Recorded EXCEPT ![s] = {r}]
    <3>1. /\ Recorded = [x \in Settlements |-> Recorded[x]] /\ Recorded[s] = {}
          /\ Recorded' = [x \in Settlements |-> Recorded'[x]] /\ Recorded'[s] = {r}
      BY <2>2, <2>6 DEF Recorded
    <3>2. \A x \in Settlements : x # s => Recorded'[x] = Recorded[x]
      BY <2>7 DEF Recorded
    <3> QED BY <2>2, <3>1, <3>2, OneChanges
  <2>9. Promise!Record(s, r)
    BY <2>4, <2>5, <2>8 DEF Promise!Record, Owed, Moved, Recorded
  <2> QED BY <2>2, <2>9 DEF Promise!Next
<1> QED BY <1>1, <1>2

(* Money moves for the settlement of the row whose key the request has,    *)
(* and had not moved for it.                                               *)
LEMMA BankKeepsPromise ==
    ASSUME TypeInv, KeyInv, NEW req \in Request, NEW r \in Refs, HasRowKey(req),
           MoveMoney(req, r), UNCHANGED <<settlement, payout>>
    PROVE  Promise!Next
<1> USE NoneAssumption
<1> DEFINE p == req.payout
           new == [ref |-> r, payout |-> p, key |-> req.key]
<1>1. p \in Payouts /\ payout[p].key = req.key /\ req.key # None
  BY DEF Request, HasRowKey
<1>2. PICK s \in Settlements :
         /\ payout[p].of = s /\ settlement[s] = "executing"
         /\ \A q \in Payouts : payout[q].of = s => q = p
  BY <1>1 DEF KeyInv, OneRowPerSettlement
<1>3. /\ ledger' = ledger \cup {new} /\ new.payout = p /\ new.ref = r
      /\ \A e \in ledger : e.key # req.key /\ e.ref # r
  BY DEF MoveMoney, FreshRefs, RefsInUse
<1>4. \A e \in ledger : e.payout \in Payouts /\ payout[e.payout].key = e.key
  BY DEF TypeInv, TypeOK, Entry, KeyInv, KeysFollowRows, MoneyCarriesRowKey
<1>5. \A e \in ledger : e.payout \notin RowsOf(s)
  BY <1>1, <1>2, <1>3, <1>4 DEF RowsOf
<1>6. p \in RowsOf(s) /\ \A x \in Settlements : x # s => p \notin RowsOf(x)
  BY <1>1, <1>2 DEF RowsOf
<1>7. \A x \in Settlements : RowsOf(x)' = RowsOf(x)
  BY DEF RowsOf
<1> HIDE DEF new, p
<1>8. MovedFor(s) = {} /\ MovedFor(s)' = {r}
  <2>1. {d \in ledger : d.payout \in RowsOf(s)} = {}
    BY <1>5
  <2>2. {d \in ledger' : d.payout \in RowsOf(s)} = {new}
    BY <1>3, <1>5, <1>6
  <2>3. RowsOf(s)' = RowsOf(s)
    BY <1>7
  <2>4. {d \in ledger : d.payout \in RowsOf(s)}' = {new}
    BY <2>2, <2>3
  <2> QED BY <1>3, <2>1, <2>4 DEF MovedFor
<1>9. ASSUME NEW x \in Settlements, x # s PROVE MovedFor(x)' = MovedFor(x)
  <2>1. {d \in ledger' : d.payout \in RowsOf(x)} = {d \in ledger : d.payout \in RowsOf(x)}
    BY <1>3, <1>6, <1>9
  <2> QED BY <1>7, <2>1 DEF MovedFor
<1>10. Moved[s] = {} /\ Moved' = [Moved EXCEPT ![s] = {r}]
  <2>1. /\ Moved = [x \in Settlements |-> Moved[x]] /\ Moved[s] = {}
        /\ Moved' = [x \in Settlements |-> Moved'[x]] /\ Moved'[s] = {r}
    BY <1>2, <1>8 DEF Moved
  <2>2. \A x \in Settlements : x # s => Moved'[x] = Moved[x]
    BY <1>9 DEF Moved
  <2> QED BY <1>2, <2>1, <2>2, OneChanges
<1>11. \A x \in Settlements : r \notin Moved[x]
  BY <1>3 DEF Moved, MovedFor
<1>12. Owed' = Owed /\ s \in Owed /\ Recorded' = Recorded
  BY <1>2 DEF Owed, Recorded, RecordedFor, RowsOf
<1>13. Promise!MoveMoney(s, r)
  BY <1>10, <1>11, <1>12 DEF Promise!MoveMoney, Owed, Moved, Recorded
<1> QED BY <1>2, <1>13 DEF Promise!Next

(* The pipeline implements the promise made to a merchant: for every fault *)
(* and every number of workers, money moves once per executed settlement,  *)
(* and what is recorded is the reference under which it moved.             *)
THEOREM PromiseIsKept == Spec => KeepsPromise
<1>1. Init => Promise!Init
  <2> SUFFICES ASSUME Init PROVE Promise!Init
    OBVIOUS
  <2>1. Owed = {}
    BY DEF Init, Owed
  <2>2. \A s \in Settlements : RowsOf(s) = {}
    BY NoneAssumption DEF Init, RowsOf
  <2>3. \A s \in Settlements : MovedFor(s) = {} /\ RecordedFor(s) = {}
    BY <2>2 DEF MovedFor, RecordedFor
  <2> QED BY <2>1, <2>3 DEF Promise!Init, Owed
<1>2. TypeInv /\ KeyInv /\ [Next]_vars => [Promise!Next]_<<Owed, Moved, Recorded>>
  <2> SUFFICES ASSUME TypeInv, KeyInv, [Next]_vars PROVE [Promise!Next]_<<Owed, Moved, Recorded>>
    OBVIOUS
  <2>1. CASE UNCHANGED <<payout, ledger>> /\ Owed' = Owed
    BY <2>1 DEF Moved, Recorded, MovedFor, RecordedFor, RowsOf
  <2>2. ASSUME UNCHANGED ledger, NEW s \in Settlements, NEW p \in Payouts, ExecuteRow(s, p)
        PROVE  Promise!Next
    <3>1. Promise!Execute(s)
      BY <2>2, ExecuteKeepsPromise DEF Promise!Execute, Owed, Moved, Recorded
    <3> QED BY <3>1 DEF Promise!Next
  <2> QED BY <2>1, <2>2, MoneyChanges, ClaimKeepsPromise, MarkKeepsPromise, BankKeepsPromise
          DEF MoneyStep
<1>3. <<Owed, Moved, Recorded>> = Promise!vars
  BY DEF Promise!vars, Owed, Moved, Recorded
<1>4. TypeInv /\ KeyInv /\ [Next]_vars => [Promise!Next]_(Promise!vars)
  BY <1>2, <1>3 DEF Promise!vars, Owed, Moved, Recorded
<1> QED BY <1>1, <1>4, KeyInvariant, PTL DEF Spec, KeepsPromise, Promise!Spec
=============================================================================
