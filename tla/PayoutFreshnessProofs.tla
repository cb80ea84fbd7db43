----------------------- MODULE PayoutFreshnessProofs -----------------------
(***************************************************************************)
(* What on-call is told, for any payouts, workers and limits: the replay   *)
(* of the rule agrees with the rule, and whatever happens to a payout that *)
(* is not paid, the rule fires in time.                                    *)
(*                                                                         *)
(* The argument: a worker whose reconciliation succeeded in this tick      *)
(* exports the payout as stale (StaleInv), so the expression has been true *)
(* for as many ticks as a worker was current, or as the payout has been    *)
(* stale (HeldInv).                                                        *)
(***************************************************************************)
EXTENDS PayoutFreshness, SequenceTheorems, FiniteSetTheorems, TLAPS

(* A payout that is not there has no age and no job; there are finitely    *)
(* many that are.                                                          *)
Recorded == {p \in Payouts : row[p] # "none"}

RecordInv ==
    /\ IsFiniteSet(Recorded)
    /\ \A p \in Payouts : row[p] = "none" => age[p] = 0 /\ place[p] = "nowhere"

(* The pending time of the rule and the counter of the replay are one.     *)
LinkInv ==
    /\ pending = None <=> run = 0
    /\ pending # None => pending = run - 1

StaleInv ==
    \A p \in Payouts : Unpaid(p) /\ age[p] > StaleLimit => \A w \in current : gauges[w].stale

HeldInv ==
    \A p \in Payouts :
        Unpaid(p) => run >= watched \/ run > For \/ run >= age[p] - StaleLimit - 1

FInv == TypeOK /\ RecordInv /\ LinkInv /\ StaleInv /\ HeldInv

----------------------------------------------------------------------------
(* LPUSH puts a job before the others. *)
LEMMA PushProperties ==
    ASSUME NEW s \in Seq(Payouts), NEW p \in Payouts
    PROVE  /\ Cons(p, s) \in Seq(Payouts) /\ Len(Cons(p, s)) = Len(s) + 1
           /\ Cons(p, s)[1] = p /\ \A k \in 1..Len(s) : Cons(p, s)[k + 1] = s[k]
BY DEF Cons

(* BLMOVE takes the right end. *)
LEMMA TakeProperties ==
    ASSUME NEW s \in Seq(Payouts), Len(s) \in Nat \ {0}
    PROVE  /\ Front(s) \in Seq(Payouts) /\ Last(s) \in Payouts /\ Len(Front(s)) = Len(s) - 1
           /\ \A k \in 1..(Len(s) - 1) : Front(s)[k] = s[k]
           /\ Last(s) = s[Len(s)]
<1>1. \A k \in 1..Len(s) : s[k] \in Payouts
    BY ElementOfSeq
<1>2. /\ SubSeq(s, 1, Len(s) - 1) \in Seq(Payouts)
      /\ Len(SubSeq(s, 1, Len(s) - 1)) = IF 1 <= Len(s) - 1 THEN (Len(s) - 1) - 1 + 1 ELSE 0
      /\ \A k \in 1..(Len(s) - 1) - 1 + 1 : SubSeq(s, 1, Len(s) - 1)[k] = s[1 + k - 1]
    BY <1>1, SubSeqProperties
<1>3. \A k \in 1..(Len(s) - 1) : k \in 1..(Len(s) - 1) - 1 + 1 /\ 1 + k - 1 = k
    OBVIOUS
<1>4. (IF 1 <= Len(s) - 1 THEN (Len(s) - 1) - 1 + 1 ELSE 0) = Len(s) - 1 /\ Len(s) \in 1..Len(s)
    <2> DEFINE n == Len(s)
    <2>1. n \in Nat \ {0}
        OBVIOUS
    <2> HIDE DEF n
    <2>2. (IF 1 <= n - 1 THEN (n - 1) - 1 + 1 ELSE 0) = n - 1 /\ n \in 1..n
        BY <2>1
    <2> QED BY <2>2 DEF n
<1> QED BY <1>1, <1>2, <1>3, <1>4 DEF Front, Last

(* An order of finitely many jobs has each of them once. *)
LEMMA OrderProperties ==
    ASSUME NEW moved \in SUBSET Payouts, IsFiniteSet(moved), NEW s \in SetToSeqs(moved)
    PROVE  /\ s \in Seq(Payouts) /\ \A k \in 1..Len(s) : s[k] \in moved
           /\ \A j, k \in 1..Len(s) : s[j] = s[k] => j = k
           /\ \A p \in moved : \E k \in 1..Len(s) : s[k] = p
<1> DEFINE D == 1..Cardinality(moved)
<1>1. Cardinality(moved) \in Nat /\ IsFiniteSet(D) /\ Cardinality(D) = Cardinality(moved)
    BY FS_CardinalityType, FS_Interval
<1>2. s \in [D -> moved] /\ \A j, k \in D : j # k => s[j] # s[k]
    BY DEF SetToSeqs
<1>3. s \in Surjection(D, moved)
    <2>1. s \in Injection(D, moved)
        BY <1>2 DEF Injection, IsInjective
    <2> QED BY <1>1, <2>1, FS_Injection
<1>4. s \in Seq(Payouts) /\ Len(s) = Cardinality(moved)
    <2>1. s \in [D -> Payouts]
        BY <1>2
    <2> QED BY <1>1, <2>1, IsASeq, LenProperties
<1> QED BY <1>2, <1>3, <1>4 DEF Surjection

----------------------------------------------------------------------------
(* The queue holds the jobs that are in it, each once.                     *)
Holds(q, at) ==
    /\ q \in Seq(Payouts)
    /\ \A i, j \in 1..Len(q) : q[i] = q[j] => i = j
    /\ \A p \in Payouts : at[p] = "queue" <=> \E i \in 1..Len(q) : q[i] = p

LEMMA HoldsIsTyped ==
    ASSUME NEW q, NEW at
    PROVE  Holds(q, at) <=> /\ q \in Seq(Payouts) /\ IsInjective(q)
                            /\ \A p \in Payouts : at[p] = "queue" <=> Contains(q, p)
<1>1. q \in Seq(Payouts) => DOMAIN q = 1..Len(q)
    BY LenProperties
<1> QED BY <1>1 DEF Holds, IsInjective, Contains

(* LPUSH of a job that is not in it. *)
LEMMA HoldsPushed ==
    ASSUME NEW q, NEW at, Holds(q, at), NEW p \in Payouts, at[p] # "queue",
           NEW new, \A o \in Payouts : new[o] = "queue" <=> (o = p \/ at[o] = "queue")
    PROVE  Holds(Cons(p, q), new)
<1> DEFINE c == Cons(p, q)
<1>1. q \in Seq(Payouts) /\ Len(q) \in Nat
    BY LenProperties DEF Holds
<1>2. c \in Seq(Payouts) /\ Len(c) = Len(q) + 1 /\ c[1] = p /\ \A i \in 1..Len(q) : c[i + 1] = q[i]
    BY <1>1, PushProperties
<1> HIDE DEF c
<1>3. \A i \in 1..Len(c) : i = 1 \/ (i - 1 \in 1..Len(q) /\ c[i] = q[i - 1])
    <2>1. TAKE i \in 1..Len(c)
    <2>2. i = 1 \/ (i - 1 \in 1..Len(q) /\ (i - 1) + 1 = i)
        BY <1>1, <1>2
    <2> QED BY <1>2, <2>2
<1>4. \A i \in 1..Len(q) : q[i] # p /\ i + 1 \in 1..Len(c)
    BY <1>1, <1>2 DEF Holds
<1>5. ASSUME NEW i \in 1..Len(c), NEW j \in 1..Len(c), c[i] = c[j]
      PROVE  i = j
    <2>1. CASE i = 1 /\ j # 1
        BY <1>2, <1>3, <1>4, <1>5, <2>1
    <2>2. CASE i # 1 /\ j = 1
        BY <1>2, <1>3, <1>4, <1>5, <2>2
    <2>3. CASE i # 1 /\ j # 1
        <3>1. i - 1 = j - 1
            BY <1>3, <1>5, <2>3 DEF Holds
        <3> QED BY <1>1, <1>2, <3>1
    <2> QED BY <2>1, <2>2, <2>3
<1>6. ASSUME NEW o \in Payouts
      PROVE  new[o] = "queue" <=> \E i \in 1..Len(c) : c[i] = o
    <2>1. 1 \in 1..Len(c)
        BY <1>1, <1>2
    <2>2. ASSUME at[o] = "queue" PROVE \E i \in 1..Len(c) : c[i] = o
        <3>1. PICK i \in 1..Len(q) : q[i] = o
            BY <2>2 DEF Holds
        <3> QED BY <1>2, <1>4, <3>1
    <2>3. ASSUME NEW i \in 1..Len(c), c[i] = o PROVE o = p \/ at[o] = "queue"
        BY <1>2, <1>3, <2>3 DEF Holds
    <2> QED BY <1>2, <2>1, <2>2, <2>3
<1>7. Holds(c, new)
    BY <1>2, <1>5, <1>6 DEF Holds
<1> QED BY <1>7 DEF c

(* Taking the right end. *)
LEMMA HoldsTaken ==
    ASSUME NEW q, NEW at, Holds(q, at), q # <<>>,
           NEW new, \A o \in Payouts : new[o] = "queue" <=> (o # Last(q) /\ at[o] = "queue")
    PROVE  Holds(Front(q), new) /\ Last(q) \in Payouts /\ at[Last(q)] = "queue"
<1> DEFINE f == Front(q)
           l == Last(q)
<1>1. q \in Seq(Payouts) /\ Len(q) \in Nat \ {0}
    BY LenProperties, EmptySeq DEF Holds
<1>2. /\ f \in Seq(Payouts) /\ l \in Payouts /\ Len(f) = Len(q) - 1
      /\ \A i \in 1..(Len(q) - 1) : f[i] = q[i]
      /\ l = q[Len(q)]
    BY <1>1, TakeProperties
<1> HIDE DEF f, l
<1>3. Len(q) \in 1..Len(q) /\ at[l] = "queue"
    BY <1>1, <1>2 DEF Holds
<1>4. \A i \in 1..Len(f) : i \in 1..Len(q) /\ i # Len(q) /\ f[i] = q[i]
    BY <1>1, <1>2
<1>5. \A i, j \in 1..Len(f) : f[i] = f[j] => i = j
    BY <1>4 DEF Holds
<1>6. ASSUME NEW o \in Payouts
      PROVE  new[o] = "queue" <=> \E i \in 1..Len(f) : f[i] = o
    <2>1. new[o] = "queue" <=> (o # l /\ at[o] = "queue")
        BY DEF l
    <2>2. ASSUME o # l, at[o] = "queue" PROVE \E i \in 1..Len(f) : f[i] = o
        <3>1. PICK i \in 1..Len(q) : q[i] = o
            BY <2>2 DEF Holds
        <3>2. i \in 1..Len(f)
            BY <1>1, <1>2, <2>2, <3>1
        <3> QED BY <1>4, <3>1, <3>2
    <2>3. ASSUME NEW i \in 1..Len(f), f[i] = o PROVE o # l /\ at[o] = "queue"
        BY <1>2, <1>3, <1>4, <2>3 DEF Holds
    <2> QED BY <2>1, <2>2, <2>3
<1>7. Holds(f, new)
    BY <1>2, <1>5, <1>6 DEF Holds
<1> QED BY <1>2, <1>3, <1>7 DEF f, l

(* RPUSH of jobs that are not in it, in any order. *)
LEMMA HoldsMoved ==
    ASSUME NEW q, NEW at, Holds(q, at), NEW moved \in SUBSET Payouts, IsFiniteSet(moved),
           \A o \in moved : at[o] # "queue", NEW s \in SetToSeqs(moved),
           NEW new, \A o \in Payouts : new[o] = "queue" <=> (o \in moved \/ at[o] = "queue")
    PROVE  Holds(q \o s, new)
<1> DEFINE c == q \o s
<1>0. /\ s \in Seq(Payouts) /\ \A i \in 1..Len(s) : s[i] \in moved
      /\ \A i, j \in 1..Len(s) : s[i] = s[j] => i = j
      /\ \A o \in moved : \E i \in 1..Len(s) : s[i] = o
    BY OrderProperties
<1>1. Len(s) \in Nat /\ s \in Seq(Payouts) /\ \A i \in 1..Len(s) : s[i] \in moved
    BY <1>0, LenProperties
<1>2. q \in Seq(Payouts) /\ Len(q) \in Nat
    BY LenProperties DEF Holds
<1>3. /\ c \in Seq(Payouts) /\ Len(c) = Len(q) + Len(s)
      /\ \A i \in 1..(Len(q) + Len(s)) : c[i] = IF i <= Len(q) THEN q[i] ELSE s[i - Len(q)]
    BY <1>1, <1>2, ConcatProperties
<1> HIDE DEF c
<1>4. ASSUME NEW i \in 1..Len(c)
      PROVE  \/ i \in 1..Len(q) /\ c[i] = q[i]
             \/ i - Len(q) \in 1..Len(s) /\ c[i] = s[i - Len(q)] /\ ~(i <= Len(q))
    BY <1>1, <1>2, <1>3
<1>5. \A i \in 1..Len(q), j \in 1..Len(s) : q[i] # s[j]
    BY <1>0 DEF Holds
<1>6. ASSUME NEW i \in 1..Len(c), NEW j \in 1..Len(c), c[i] = c[j]
      PROVE  i = j
    <2>1. CASE i \in 1..Len(q) /\ j \in 1..Len(q)
        BY <1>2, <1>4, <1>6, <2>1 DEF Holds
    <2>2. CASE i \notin 1..Len(q) /\ j \notin 1..Len(q)
        <3>1. /\ i - Len(q) \in 1..Len(s) /\ c[i] = s[i - Len(q)]
              /\ j - Len(q) \in 1..Len(s) /\ c[j] = s[j - Len(q)]
            BY <1>4, <2>2
        <3>2. i - Len(q) = j - Len(q)
            BY <1>0, <1>6, <3>1
        <3> QED BY <1>2, <1>3, <1>1, <3>2
    <2>3. CASE i \in 1..Len(q) /\ j \notin 1..Len(q)
        <3>1. c[i] = q[i] /\ j - Len(q) \in 1..Len(s) /\ c[j] = s[j - Len(q)]
            BY <1>2, <1>4, <2>3
        <3> QED BY <1>5, <1>6, <2>3, <3>1
    <2>4. CASE j \in 1..Len(q) /\ i \notin 1..Len(q)
        <3>1. c[j] = q[j] /\ i - Len(q) \in 1..Len(s) /\ c[i] = s[i - Len(q)]
            BY <1>2, <1>4, <2>4
        <3> QED BY <1>5, <1>6, <2>4, <3>1
    <2> QED BY <2>1, <2>2, <2>3, <2>4
<1>7. ASSUME NEW o \in Payouts
      PROVE  new[o] = "queue" <=> \E i \in 1..Len(c) : c[i] = o
    <2>1. ASSUME o \in moved PROVE \E i \in 1..Len(c) : c[i] = o
        <3>1. PICK j \in 1..Len(s) : s[j] = o
            BY <1>0, <2>1
        <3>2. j + Len(q) \in 1..Len(c) /\ ~(j + Len(q) <= Len(q)) /\ (j + Len(q)) - Len(q) = j
            BY <1>1, <1>2, <1>3
        <3> QED BY <1>3, <3>1, <3>2
    <2>2. ASSUME at[o] = "queue" PROVE \E i \in 1..Len(c) : c[i] = o
        <3>1. PICK i \in 1..Len(q) : q[i] = o
            BY <2>2 DEF Holds
        <3>2. i \in 1..Len(c) /\ i <= Len(q)
            BY <1>1, <1>2, <1>3
        <3> QED BY <1>3, <3>1, <3>2
    <2>3. ASSUME NEW i \in 1..Len(c), c[i] = o PROVE o \in moved \/ at[o] = "queue"
        BY <1>0, <1>4, <2>3 DEF Holds
    <2> QED BY <2>1, <2>2, <2>3
<1>8. Holds(c, new)
    BY <1>3, <1>6, <1>7 DEF Holds
<1> QED BY <1>8 DEF c

----------------------------------------------------------------------------
(* Initially nothing is there. *)
LEMMA InitF == Init => FInv
<1> SUFFICES ASSUME Init PROVE FInv
    OBVIOUS
<1>1. Holds(queue, place)
    BY DEF Init, Holds
<1>2. TypeOK
    BY <1>1, HoldsIsTyped, LimitAssumption DEF Init, TypeOK, Nothing, OldestAge
<1>3. Recorded = {}
    BY DEF Init, Recorded
<1>4. RecordInv
    BY <1>3, FS_EmptySet DEF Init, RecordInv
<1> QED BY <1>2, <1>4 DEF Init, FInv, LinkInv, StaleInv, HeldInv, Unpaid

LEMMA Typed ==
    ASSUME TypeOK
    PROVE  /\ row \in [Payouts -> {"none", "queued", "sending", "paid"}] /\ age \in [Payouts -> 0..OldestAge]
           /\ place \in [Payouts -> {"nowhere", "queue", "retry", "dead"} \cup Workers]
           /\ Holds(queue, place)
           /\ up \subseteq Workers /\ passed \subseteq up /\ current \subseteq passed
BY HoldsIsTyped DEF TypeOK

(* Steps that move one payout or its job, and what the alert sees stays.   *)
LEMMA PayoutStep ==
    ASSUME FInv, UNCHANGED <<age, up, told>>, NEW p \in Payouts,
           row' \in [Payouts -> {"none", "queued", "sending", "paid"}],
           \A o \in Payouts \ {p} : row'[o] = row[o] /\ place'[o] = place[o], row'[p] # "none",
           (row[p] = "none" /\ row'[p] = "queued") \/ (row[p] # "none" /\ (Unpaid(p)' => Unpaid(p))),
           place' \in [Payouts -> {"nowhere", "queue", "retry", "dead"} \cup Workers],
           Holds(queue', place')
    PROVE  FInv'
<1>1. TypeOK'
    BY HoldsIsTyped DEF FInv, TypeOK, told
<1>2. RecordInv'
    <2>1. Recorded' = Recorded \cup {p}
        BY DEF Recorded
    <2>2. IsFiniteSet(Recorded')
        BY <2>1, FS_AddElement DEF FInv, RecordInv
    <2> QED BY <2>2 DEF FInv, RecordInv
<1>3. ASSUME NEW o \in Payouts, Unpaid(o)'
      PROVE  Unpaid(o) \/ age[o] = 0
    BY <1>3 DEF Unpaid, FInv, RecordInv
<1>4. StaleInv' /\ HeldInv'
    <2>1. \A o \in Payouts : age[o] = 0 => ~(age[o] > StaleLimit) /\ run >= age[o] - StaleLimit - 1
        BY LimitAssumption DEF FInv, TypeOK
    <2> QED BY <1>3, <2>1 DEF FInv, StaleInv, HeldInv, told
<1>5. LinkInv'
    BY DEF FInv, LinkInv, told
<1> QED BY <1>1, <1>2, <1>4, <1>5 DEF FInv

LEMMA PayoutsKeep ==
    ASSUME FInv, NEW p \in Payouts, Execute(p) \/ Finish(p) \/ Requeue(p)
    PROVE  FInv'
<1> USE Typed DEF FInv
<1>1. CASE Execute(p)
    <2>1. place[p] = "nowhere" /\ row[p] = "none"
        BY <1>1 DEF Execute, RecordInv
    <2>2. Holds(queue', place')
        BY <1>1, <2>1, HoldsPushed DEF Execute
    <2> QED BY <1>1, <2>1, <2>2, PayoutStep DEF Execute
<1>2. CASE Finish(p)
    <2>1. place[p] # "queue" /\ place[p] # "nowhere" /\ place'[p] # "queue" /\ queue' = queue
        BY <1>2, PlaceAssumption DEF Finish
    <2>2. Holds(queue', place')
        BY <1>2, <2>1 DEF Finish, Holds
    <2>3. row[p] # "none"
        BY <2>1 DEF RecordInv
    <2> QED BY <1>2, <2>1, <2>2, <2>3, PayoutStep DEF Finish, Unpaid
<1>3. CASE Requeue(p)
    <2>1. place[p] = "dead" /\ row[p] # "none"
        BY <1>3 DEF Requeue, RecordInv
    <2>2. Holds(queue', place')
        <3>1. \A o \in Payouts : place'[o] = "queue" <=> (o = p \/ place[o] = "queue")
            BY <1>3 DEF Requeue
        <3>2. queue' = Cons(p, queue) /\ place[p] # "queue"
            BY <1>3, <2>1 DEF Requeue
        <3> QED BY <3>1, <3>2, HoldsPushed
    <2> QED BY <1>3, <2>1, <2>2, PayoutStep DEF Requeue, Unpaid
<1> QED BY <1>1, <1>2, <1>3

LEMMA TakeKeeps ==
    ASSUME FInv, NEW w \in Workers, Take(w)
    PROVE  FInv'
<1> USE Typed DEF FInv
<1>1. PICK p \in Payouts : p = Last(queue) /\ place[p] = "queue" /\ Holds(Front(queue), place')
    <2>1. Last(queue) \in Payouts /\ place[Last(queue)] = "queue"
        BY HoldsTaken DEF Take
    <2>2. \A o \in Payouts : place'[o] = "queue" <=> (o # Last(queue) /\ place[o] = "queue")
        BY <2>1, PlaceAssumption DEF Take
    <2> QED BY <2>1, <2>2, HoldsTaken DEF Take
<1>2. row[p] # "none"
    BY <1>1 DEF RecordInv
<1> QED BY <1>1, <1>2, PayoutStep DEF Take, Unpaid

(* Workers that come and go take their gauges with them. *)
LEMMA WorkerKeeps ==
    ASSUME FInv, NEW w \in Workers, StartWorker(w) \/ StopWorker(w)
    PROVE  FInv'
<1> USE DEF FInv
<1>1. UNCHANGED <<row, age, place, queue, pending, run, watched>>
    BY DEF StartWorker, StopWorker, told
<1>2. TypeOK'
    <2>1. up' \subseteq Workers /\ current' \subseteq passed' /\ passed' \subseteq up'
        BY DEF StartWorker, StopWorker, told, TypeOK
    <2>2. gauges' \in [Workers -> [old : BOOLEAN, stale : BOOLEAN, dead : BOOLEAN]]
        <3>1. Nothing \in [old : BOOLEAN, stale : BOOLEAN, dead : BOOLEAN]
            BY DEF Nothing
        <3>2. gauges' = gauges \/ gauges' = [gauges EXCEPT ![w] = Nothing]
            BY DEF StartWorker, StopWorker, told
        <3> QED BY <3>1, <3>2, Zenon DEF TypeOK
    <2> QED BY <1>1, <2>1, <2>2 DEF TypeOK
<1>3. \A o \in current' : o \in current /\ gauges'[o] = gauges[o]
    BY DEF StartWorker, StopWorker, told, TypeOK
<1>4. StaleInv'
    BY <1>1, <1>3 DEF StaleInv, Unpaid
<1>5. RecordInv' /\ LinkInv' /\ HeldInv'
    BY <1>1 DEF RecordInv, Recorded, LinkInv, HeldInv, Unpaid
<1> QED BY <1>2, <1>4, <1>5

(* What the pass moves was in no queue, and there is finitely much of it.  *)
LEMMA MoveKeeps ==
    ASSUME FInv, NEW due \in SUBSET {p \in Payouts : place[p] = "retry"}, UNCHANGED <<row, age>>,
           MoveBack({p \in Payouts : place[p] \in Workers \ up} \cup due)
    PROVE  /\ place' \in [Payouts -> {"nowhere", "queue", "retry", "dead"} \cup Workers]
           /\ Holds(queue', place') /\ RecordInv'
<1> USE Typed DEF FInv
<1> DEFINE moved == {p \in Payouts : place[p] \in Workers \ up} \cup due
<1>1. moved \in SUBSET Payouts /\ \A p \in moved : place[p] \notin {"queue", "nowhere"}
    BY PlaceAssumption
<1>2. moved \subseteq Recorded
    BY <1>1 DEF Recorded, RecordInv
<1>3. IsFiniteSet(moved)
    BY <1>2, FS_Subset DEF RecordInv
<1>4. MoveBack(moved)
    OBVIOUS
<1> HIDE DEF moved
<1>5. /\ place' \in [Payouts -> {"nowhere", "queue", "retry", "dead"} \cup Workers]
      /\ \A o \in Payouts : place'[o] = IF o \in moved THEN "queue" ELSE place[o]
    BY <1>4 DEF MoveBack
<1>6. PICK s \in SetToSeqs(moved) : queue' = queue \o s
    BY <1>4 DEF MoveBack
<1>7. Holds(queue', place')
    <2>1. \A o \in Payouts : place'[o] = "queue" <=> (o \in moved \/ place[o] = "queue")
        BY <1>5
    <2>2. \A o \in moved : place[o] # "queue"
        BY <1>1
    <2>3. Holds(queue \o s, place')
        BY <1>1, <1>3, <1>6, <2>1, <2>2, HoldsMoved
    <2> QED BY <1>6, <2>3
<1>8. RecordInv'
    BY <1>2, <1>5 DEF RecordInv, Recorded
<1> QED BY <1>5, <1>7, <1>8

(* A pass tells of what is stale, or keeps what the gauge told. *)
LEMMA PassKeeps ==
    ASSUME FInv, NEW w \in Workers, Pass(w)
    PROVE  FInv'
<1> USE DEF FInv
<1>1. /\ UNCHANGED <<row, age, up, pending, run, watched>> /\ passed' = passed \cup {w} /\ w \in up
      /\ \/ current' = current \cup {w}
            /\ gauges' = [gauges EXCEPT ![w] = [old |-> OldGauge, stale |-> StaleGauge, dead |-> DeadGauge]]
         \/ current' = current
            /\ gauges' = [gauges EXCEPT ![w] = [old |-> OldGauge, stale |-> @.stale, dead |-> DeadGauge]]
    BY DEF Pass
<1>2. /\ place' \in [Payouts -> {"nowhere", "queue", "retry", "dead"} \cup Workers]
      /\ Holds(queue', place') /\ RecordInv'
    BY <1>1, MoveKeeps DEF Pass
<1>3. OldGauge \in BOOLEAN /\ StaleGauge \in BOOLEAN /\ DeadGauge \in BOOLEAN
    BY DEF OldGauge, StaleGauge, DeadGauge
<1>4. gauges' \in [Workers -> [old : BOOLEAN, stale : BOOLEAN, dead : BOOLEAN]]
    BY <1>1, <1>3 DEF TypeOK
<1>5. TypeOK'
    BY <1>1, <1>2, <1>4, HoldsIsTyped DEF TypeOK
<1>6. StaleInv'
    <2> SUFFICES ASSUME NEW p \in Payouts, Unpaid(p), age[p] > StaleLimit, NEW o \in current'
                 PROVE  gauges'[o].stale
        BY <1>1 DEF StaleInv, Unpaid
    <2>1. StaleGauge
        BY DEF StaleGauge
    <2>2. o \in current => gauges[o].stale
        BY DEF StaleInv
    <2>3. o \in Workers
        BY <1>5 DEF TypeOK
    <2> QED BY <1>1, <2>1, <2>2, <2>3 DEF TypeOK
<1>7. LinkInv' /\ HeldInv'
    BY <1>1 DEF LinkInv, HeldInv, Unpaid
<1> QED BY <1>2, <1>5, <1>6, <1>7

LEMMA PassFailsKeeps ==
    ASSUME FInv, NEW w \in Workers, PassFails(w)
    PROVE  FInv'
BY DEF PassFails, FInv, TypeOK, RecordInv, Recorded, LinkInv, StaleInv, HeldInv, Unpaid

(* An evaluation: the rule and the replay count on, or start again.        *)
LEMMA TickKeeps ==
    ASSUME FInv, Tick
    PROVE  FInv'
<1> USE LimitAssumption, PlaceAssumption DEF FInv
<1>1. /\ UNCHANGED <<row, place, queue, up, gauges>> /\ passed' = {} /\ current' = {} /\ passed = up
      /\ run' = (IF Expression THEN AtMost(run + 1, For + 1) ELSE 0)
      /\ watched' = (IF current = {} THEN 0 ELSE AtMost(watched + 1, For + 1))
      /\ pending' = IF ~Expression THEN None ELSE IF pending = None THEN 0 ELSE AtMost(pending + 1, For)
      /\ \A p \in Payouts : age'[p] = IF row[p] = "none" THEN 0 ELSE AtMost(age[p] + 1, OldestAge)
      /\ age' \in [Payouts -> 0..OldestAge]
    <2>1. age' \in [Payouts -> 0..OldestAge]
        BY DEF Tick, TypeOK, AtMost, OldestAge
    <2> QED BY <2>1 DEF Tick, Replay, Evaluate
<1>2. run \in 0..For + 1 /\ watched \in 0..For + 1 /\ pending \in 0..For \cup {None}
    BY DEF TypeOK
<1>3. run' \in 0..For + 1 /\ watched' \in 0..For + 1 /\ pending' \in 0..For \cup {None}
    BY <1>1, <1>2 DEF AtMost
<1>4. TypeOK'
    BY <1>1, <1>3 DEF TypeOK
<1>5. RecordInv'
    BY <1>1 DEF RecordInv, Recorded
<1>6. LinkInv'
    BY <1>1, <1>2 DEF LinkInv, AtMost
<1>7. StaleInv'
    BY <1>1 DEF StaleInv
<1>8. ASSUME NEW p \in Payouts, Unpaid(p)
      PROVE  run' >= watched' \/ run' > For \/ run' >= age'[p] - StaleLimit - 1
    <2>0. age[p] \in Nat /\ age'[p] <= age[p] + 1 /\ age'[p] \in Nat /\ StaleLimit \in Nat
        <3>1. age[p] \in 0..OldestAge /\ row[p] # "none"
            BY <1>8 DEF TypeOK, Unpaid
        <3> QED BY <1>1, <3>1 DEF AtMost, OldestAge
    <2>1. CASE current = {}
        BY <1>1, <1>3, <2>1
    <2>2. CASE current # {} /\ age[p] > StaleLimit
        <3>1. Expression
            BY <1>8, <2>2 DEF StaleInv, Expression, TypeOK
        <3>2. run >= watched \/ run > For \/ run >= age[p] - StaleLimit - 1
            BY <1>8 DEF HeldInv
        <3> QED BY <1>1, <1>2, <2>0, <2>2, <3>1, <3>2 DEF AtMost
    <2>3. CASE ~(age[p] > StaleLimit)
        BY <1>3, <2>0, <2>3
    <2> QED BY <2>1, <2>2, <2>3
<1>9. HeldInv'
    BY <1>1, <1>8 DEF HeldInv, Unpaid
<1> QED BY <1>4, <1>5, <1>6, <1>7, <1>9

LEMMA Invariance == Spec => []FInv
<1>1. FInv /\ [Next]_vars => FInv'
    <2> SUFFICES ASSUME FInv, [Next]_vars PROVE FInv'
        OBVIOUS
    <2>1. CASE UNCHANGED vars
        BY <2>1 DEF vars, FInv, TypeOK, RecordInv, Recorded, LinkInv, StaleInv, HeldInv, Unpaid
    <2> QED BY <2>1, PayoutsKeep, TakeKeeps, WorkerKeeps, PassKeeps, PassFailsKeeps, TickKeeps DEF Next
<1> QED BY <1>1, InitF, PTL DEF Spec

----------------------------------------------------------------------------
(* Every variable keeps its type; in particular the queue has each job that *)
(* is in it once, whatever is pushed, taken, requeued or moved back.        *)
THEOREM TypeCorrect == Spec => []TypeOK
<1>1. FInv => TypeOK
    BY DEF FInv
<1> QED BY <1>1, Invariance, PTL

LEMMA Agreement == FInv => ReplayAgrees
<1> SUFFICES ASSUME FInv PROVE ReplayFires <=> Firing
    BY DEF ReplayAgrees
<1>1. run \in 0..For + 1 /\ pending \in 0..For \cup {None} /\ For \in Nat
    BY LimitAssumption DEF FInv, TypeOK
<1>2. (pending = None <=> run = 0) /\ (pending # None => pending = run - 1)
    BY DEF FInv, LinkInv
<1> QED BY <1>1, <1>2 DEF ReplayFires, Firing

(* replay_alerts.py: first_sustained() finds the evaluation at which the   *)
(* rule with its "for" fires, for every limit and every history.           *)
THEOREM ReplayIsTheRule == Spec => []ReplayAgrees
BY Agreement, Invariance, PTL

(* SettlePayoutsDelayed: a payout that is not paid pages somebody in time, *)
(* wherever its job is, as long as some worker reconciles in each interval. *)
THEOREM PagesInTime == Spec => []PagedInTime
<1>1. FInv => PagedInTime
    <2> SUFFICES ASSUME FInv, NEW p \in Payouts, Unpaid(p), age[p] >= StaleLimit + For + 2, watched > For
                 PROVE  Firing
        BY DEF PagedInTime
    <2>1. /\ run \in 0..For + 1 /\ watched \in 0..For + 1 /\ age[p] \in 0..OldestAge
          /\ For \in Nat /\ StaleLimit \in Nat
        BY LimitAssumption DEF FInv, TypeOK
    <2>2. run >= watched \/ run > For \/ run >= age[p] - StaleLimit - 1
        BY DEF FInv, HeldInv
    <2>3. ReplayFires
        BY <2>1, <2>2 DEF ReplayFires, OldestAge
    <2> QED BY <2>3, Agreement DEF ReplayAgrees
<1> QED BY <1>1, Invariance, PTL
=============================================================================
