-------------------------- MODULE WorkerLeaseProofs --------------------------
(***************************************************************************)
(* The lease, for all durations. The invariant bounds, at each step of the *)
(* owner and of the rescuer, how much of the lease can have passed.        *)
(***************************************************************************)
EXTENDS WorkerLease, TLAPS

(* Ticks since the owner's last heartbeat, at most, and ticks the rescuer  *)
(* has spent since it last looked at the lease, at most.                   *)
Late(m) == clock["pass"] + m * Cycle
Owed == IF hk = "scan" THEN clock["hk"]
        ELSE Late(missed) + clock["hk"] + (IF hk = "beat" THEN Period ELSE 0)
Round == clock["rescue"] + (IF rescue = "wait" THEN 0 ELSE IF rescue = "beat" THEN Period ELSE Cycle)

StepsInTime ==
    /\ hk # "ended" => clock["hk"] <= StepLimit(hk)
    /\ clock["rescue"] <= StepLimit(rescue)
    /\ hk = "ended" => status # "up"
    /\ status = "gone" => hk = "ended" /\ ~busy
    /\ hk = "scan" => missed = 0 /\ clock["pass"] = clock["hk"]
    /\ clock["pass"] <= Pass
    /\ status = "stopping" => clock["phase"] <= LastFetch
    /\ status = "draining" => clock["phase"] <= Drain

(* The lease outlasts the owner's silence; after SIGTERM it lasts at least *)
(* until what is left of it has run out.                                   *)
LeaseCovers ==
    /\ status = "up" => ttl + Owed >= Lease
    /\ status = "stopping" => ttl + Silence + clock["phase"] >= Lease
    /\ status = "draining" => ttl + Silence + LastFetch + clock["phase"] >= Lease

NobodyMoves ==
    rescue = "move" =>
        /\ RoomForPass => status # "up"
        /\ RoomToDrain => status \in {"exiting", "gone"}

(* A drain that reaches its deadline has outlived the lease, and the last  *)
(* heartbeat that was under way when SIGTERM came.                         *)
DrainOutlives ==
    /\ "hand" \in list => busy \/ status = "gone"
    /\ status \in {"stopping", "draining"} /\ hk = "beat" => clock["phase"] <= clock["hk"]
    /\ status = "draining" /\ ttl > 0 => ttl + clock["phase"] <= Lease + Call
    /\ status = "exiting" /\ busy => clock["phase"] >= Drain
    /\ LongDrain /\ status = "exiting" /\ clock["phase"] >= Drain => ttl = 0 /\ hk # "beat"

Rescued ==
    status = "gone" /\ list # {} =>
        IF ttl > 0 THEN clock["dead"] + ttl <= Lease ELSE clock["dead"] <= Lease + Round

LeaseInv == TypeOK /\ StepsInTime /\ LeaseCovers /\ NobodyMoves /\ DrainOutlives /\ Rescued

USE DurationAssumption

(* The durations are numbers, and failed heartbeats add up to no more than *)
(* the longest silence.                                                    *)
LEMMA Durations ==
    ASSUME clock["pass"] \in 0..Pass
    PROVE
    /\ {Cycle, Silence} \subseteq Nat /\ Cycle = Period + Call
    /\ Late(0) = clock["pass"]
    /\ \A m \in 0..Misses :
          /\ Late(m) \in Nat
          /\ Late(m) + Cycle <= Silence
          /\ Late(m + 1) = Late(m) + Cycle
<1>1. Cycle \in Nat
  BY DEF Cycle
<1>2. \A m \in 0..Misses : m * Cycle \in Nat /\ (m + 1) * Cycle = m * Cycle + Cycle
  BY <1>1
<1>3. \A m \in 0..Misses : m * Cycle <= Misses * Cycle
  <2> SUFFICES ASSUME NEW m \in 0..Misses PROVE m * Cycle <= Misses * Cycle
    OBVIOUS
  <2>1. Misses - m \in Nat
    OBVIOUS
  <2>2. (Misses - m) * Cycle >= 0
    BY <1>1, <2>1
  <2>3. (Misses - m) * Cycle = Misses * Cycle - m * Cycle
    BY <1>1, <2>1
  <2> QED BY <1>1, <1>2, <2>2, <2>3
<1>4. Silence = Pass + Misses * Cycle + Cycle
  <2>1. Misses \in 0..Misses
    OBVIOUS
  <2>2. (Misses + 1) * Cycle = Misses * Cycle + Cycle
    BY <1>2, <2>1
  <2> QED BY <1>1, <1>2, <2>1, <2>2 DEF Silence
<1>5. Silence \in Nat
  BY <1>1, <1>2, <1>4
<1>6. 0 * Cycle = 0
  BY <1>1
<1>7. ASSUME NEW m \in 0..Misses
      PROVE  Late(m) \in Nat /\ Late(m) + Cycle <= Silence /\ Late(m + 1) = Late(m) + Cycle
  BY <1>1, <1>2, <1>3, <1>4 DEF Late
<1> QED BY <1>1, <1>5, <1>6, <1>7 DEF Late, Cycle

(* The two that depend on no state.                                        *)
LEMMA Sums == Cycle \in Nat /\ Cycle = Period + Call
BY DEF Cycle

(* Every reachable state is well typed. *)
LEMMA LeaseTypes == TypeOK /\ [Next]_vars => TypeOK'
<1> SUFFICES ASSUME TypeOK, [Next]_vars PROVE TypeOK'
  OBVIOUS
<1>0. \A cs : Reset(cs) \in [Clocks -> Nat]
  BY DEF Reset, TypeOK
<1>1. ASSUME Tick PROVE TypeOK'
  <2>1. clock' \in [Clocks -> Nat]
    <3>1. \A c \in Clocks : (IF c \in Ticking THEN clock[c] + 1 ELSE clock[c]) \in Nat
      BY DEF TypeOK
    <3> QED BY <1>1, <3>1 DEF Tick
  <2>2. ttl' \in 0..Lease
    BY <1>1 DEF Tick, TypeOK
  <2> QED BY <1>1, <2>1, <2>2 DEF Tick, TypeOK
<1>2. ASSUME Owner PROVE TypeOK'
  <2>1. ASSUME Fetch PROVE TypeOK'
    BY <1>0, <2>1 DEF Fetch, TypeOK
  <2>4. ASSUME FetchLost \/ JobDone \/ JobLeft \/ Sigterm \/ StopFetching PROVE TypeOK'
    BY <1>0, <2>4 DEF FetchLost, JobDone, JobLeft, Sigterm, StopFetching, TypeOK
  <2>5. ASSUME DrainDone PROVE TypeOK'
    BY <2>5 DEF DrainDone, TypeOK
  <2>2. ASSUME Exit \/ Kill PROVE TypeOK'
    BY <1>0, <2>2 DEF Exit, Kill, Gone, TypeOK
  <2>3. ASSUME Wake \/ Stopped \/ Heartbeat \/ PassDone PROVE TypeOK'
    <3>1. missed' \in 0..Misses /\ ttl' \in 0..Lease
      BY <2>3 DEF Wake, Stopped, Heartbeat, PassDone, TypeOK
    <3>2. clock' \in [Clocks -> Nat]
      BY <1>0, <2>3 DEF Wake, Stopped, Heartbeat, PassDone, HkGoto
    <3> QED BY <2>3, <3>1, <3>2 DEF Wake, Stopped, Heartbeat, PassDone, HkGoto, TypeOK
  <2>6. ASSUME HeartbeatFails PROVE TypeOK'
    <3>1. missed' \in 0..Misses /\ ttl' \in 0..Lease
      BY <2>6 DEF HeartbeatFails, TypeOK
    <3> QED BY <1>0, <2>6, <3>1 DEF HeartbeatFails, HkGoto, TypeOK
  <2> QED BY <1>2, <2>1, <2>2, <2>3, <2>4, <2>5, <2>6 DEF Owner
<1>3. ASSUME Rescuer PROVE TypeOK'
  BY <1>0, <1>3 DEF Rescuer, RescuerWakes, RescuerBeats, FindsNoLease, PassesOver, Recover,
     RescuerDone, RescueGoto, TypeOK
<1> QED BY <1>1, <1>2, <1>3 DEF Next, vars, TypeOK

(* Time passes: every clock that runs was short of its deadline. *)
LEMMA TickKeeps == LeaseInv /\ Tick => LeaseInv'
<1> SUFFICES ASSUME LeaseInv, Tick PROVE LeaseInv'
  OBVIOUS
<1>0. TypeOK /\ TypeOK'
  BY LeaseTypes DEF LeaseInv, Next
<1>1. /\ UNCHANGED <<status, hk, missed, busy, list, rescue>>
      /\ ttl' = IF ttl = 0 THEN 0 ELSE ttl - 1
      /\ ttl \in Nat /\ missed \in 0..Misses
      /\ \A c \in Clocks : clock[c] \in Nat
  BY <1>0 DEF Tick, TypeOK
<1> {"hk", "pass", "rescue", "phase", "dead"} \subseteq Clocks
  BY DEF Clocks
<1> /\ \A c \in Ticking : c \notin {"pass", "dead"} => clock[c] < Limit[c]
    /\ \A c \in Ticking : clock'[c] = clock[c] + 1
    /\ \A c \in Clocks : c \notin Ticking => clock'[c] = clock[c]
  BY DEF Tick, Ticking
<1>2. /\ hk # "ended" => clock["hk"] < StepLimit(hk) /\ clock'["hk"] = clock["hk"] + 1
      /\ clock["rescue"] < StepLimit(rescue) /\ clock'["rescue"] = clock["rescue"] + 1
  <2>1. (hk # "ended" => "hk" \in Ticking) /\ "rescue" \in Ticking
    BY "hk" \in Clocks, "rescue" \in Clocks DEF Ticking
  <2>2. Limit["hk"] = StepLimit(hk) /\ Limit["rescue"] = StepLimit(rescue)
    BY DEF Limit
  <2> QED BY <2>1, <2>2
<1>3. /\ status = "stopping" => clock["phase"] < LastFetch /\ clock'["phase"] = clock["phase"] + 1
      /\ status = "draining" => clock["phase"] < Drain /\ clock'["phase"] = clock["phase"] + 1
      /\ status = "gone" /\ list # {} => clock'["dead"] = clock["dead"] + 1
      /\ clock'["pass"] = IF hk = "scan" THEN clock["pass"] + 1 ELSE clock["pass"]
      /\ status \notin {"stopping", "draining"} => clock'["phase"] = clock["phase"]
  <2>1. /\ status \in {"stopping", "draining"} => "phase" \in Ticking
        /\ status \notin {"stopping", "draining"} => "phase" \notin Ticking
        /\ status = "gone" /\ list # {} => "dead" \in Ticking
        /\ "pass" \in Ticking <=> hk = "scan"
    BY "phase" \in Clocks, "dead" \in Clocks, "pass" \in Clocks DEF Ticking
  <2>2. Limit["phase"] = IF status = "stopping" THEN LastFetch ELSE Drain
    BY DEF Limit
  <2> QED BY <2>1, <2>2
<1>4. {clock["hk"], clock["pass"], clock["rescue"], clock["phase"], clock["dead"]} \subseteq Nat
  BY <1>1 DEF Clocks
<1>5. /\ Cycle \in Nat /\ Silence \in Nat
      /\ Late(missed) \in Nat
  BY <1>1, <1>4, Durations DEF LeaseInv, StepsInTime
<1>6. StepsInTime'
  <2>1. StepLimit(hk) \in Nat /\ StepLimit(rescue) \in Nat
    BY DEF StepLimit
  <2> QED BY <1>1, <1>2, <1>3, <1>4, <2>1 DEF LeaseInv, StepsInTime, StepLimit
<1>7. LeaseCovers'
  <2>1. hk # "scan" => Late(missed)' = Late(missed)
    BY <1>1, <1>3 DEF Late
  <2>2. status = "up" => hk # "ended"
    BY DEF LeaseInv, StepsInTime
  <2>3. status = "up" => Owed' = Owed + 1 /\ Owed \in Nat
    BY <1>1, <1>2, <1>4, <1>5, <2>1, <2>2 DEF Owed
  <2> QED BY <1>1, <1>3, <1>4, <1>5, <2>3 DEF LeaseInv, LeaseCovers
<1>8. NobodyMoves'
  BY <1>1 DEF LeaseInv, NobodyMoves
<1>9. DrainOutlives'
  BY <1>1, <1>2, <1>3, <1>4 DEF LeaseInv, DrainOutlives
<1>10. Rescued'
  <2>1. Round' = Round + 1 /\ Round \in Nat
    BY <1>0, <1>1, <1>2, <1>4, <1>5 DEF Round, TypeOK
  <2> QED BY <1>1, <1>3, <1>4, <2>1 DEF LeaseInv, Rescued
<1> QED BY <1>0, <1>6, <1>7, <1>8, <1>9, <1>10 DEF LeaseInv

(* The bounds of the owner's silence. *)
LEMMA OwedBound ==
    ASSUME TypeOK, StepsInTime, status = "up"
    PROVE  Owed \in Nat /\ Owed <= Silence
<1>1. /\ missed \in 0..Misses /\ hk \in {"wait", "beat", "scan"}
      /\ clock["hk"] \in Nat /\ clock["hk"] <= StepLimit(hk)
      /\ clock["pass"] \in 0..Pass
  BY DEF TypeOK, StepsInTime, Clocks
<1>2. Late(missed) \in Nat /\ Late(missed) + Cycle <= Silence /\ Cycle = Period + Call
  BY <1>1, Durations
<1>3. Late(missed) >= clock["pass"]
  <2>1. missed * Cycle \in Nat
    BY <1>1, Sums
  <2> QED BY <1>1, <2>1 DEF Late
<1>4. Cycle \in Nat /\ Silence \in Nat
  BY <1>1, Durations
<1>5. hk = "scan" => clock["pass"] = clock["hk"]
  BY DEF StepsInTime
<1> QED BY <1>1, <1>2, <1>3, <1>4, <1>5 DEF Owed, StepLimit

(* The owner's fetch loop, payout thread, shutdown and housekeeping keep   *)
(* the invariant.                                                          *)
LEMMA OwnerKeeps == LeaseInv /\ Owner => LeaseInv'
<1> SUFFICES ASSUME LeaseInv, Owner PROVE LeaseInv'
  OBVIOUS
<1>0. TypeOK /\ TypeOK'
  BY LeaseTypes DEF LeaseInv, Next
<1>1. /\ ttl \in 0..Lease /\ missed \in 0..Misses
      /\ {clock["hk"], clock["rescue"], clock["phase"], clock["dead"]} \subseteq Nat
      /\ clock["pass"] \in 0..Pass
  BY <1>0 DEF TypeOK, Clocks, LeaseInv, StepsInTime
<1>2. /\ Cycle \in Nat /\ Silence \in Nat /\ Late(missed) \in Nat
      /\ Late(missed + 1) = Late(missed) + Cycle /\ Cycle = Period + Call /\ Late(0) = clock["pass"]
  BY <1>1, Durations
<1>3. \A cs : \A c \in {"hk", "pass", "rescue", "phase", "dead"} :
          Reset(cs)[c] = IF c \in cs THEN 0 ELSE clock[c]
  BY DEF Reset, Clocks
<1>4. status = "up" => Owed \in Nat /\ Owed <= Silence
  BY <1>0, OwedBound DEF LeaseInv
<1>5. Round \in Nat
  BY <1>1, <1>2 DEF Round
<1> DEFINE P == StepsInTime /\ LeaseCovers /\ NobodyMoves /\ DrainOutlives /\ Rescued
<1> SUFFICES P'
  BY <1>0 DEF LeaseInv
<1> USE <1>1, <1>2, <1>3
<1>6. ASSUME Fetch PROVE P'
  <2>1. /\ clock'["hk"] = clock["hk"] /\ clock'["rescue"] = clock["rescue"]
        /\ clock'["phase"] = IF status = "up" THEN clock["phase"] ELSE 0
        /\ status' = IF status = "up" THEN "up" ELSE "draining"
        /\ clock'["pass"] = clock["pass"] /\ status \in {"up", "stopping"} /\ busy'
        /\ UNCHANGED <<ttl, hk, missed, rescue>>
    BY <1>6 DEF Fetch
  <2>2. StepsInTime'
    BY <2>1 DEF LeaseInv, StepsInTime
  <2>3. LeaseCovers'
    <3>1. Owed' = Owed
      BY <2>1 DEF Owed, Late
    <3>2. status = "stopping" => clock["phase"] <= LastFetch
      BY DEF LeaseInv, StepsInTime
    <3> QED BY <2>1, <1>4, <3>1, <3>2 DEF LeaseInv, LeaseCovers
  <2>4. NobodyMoves' /\ Rescued'
    BY <2>1 DEF LeaseInv, NobodyMoves, Rescued
  <2>5. DrainOutlives'
    BY <2>1 DEF LeaseInv, DrainOutlives
  <2> QED BY <2>2, <2>3, <2>4, <2>5
<1>7. ASSUME FetchLost \/ JobDone \/ JobLeft PROVE P'
  <2>1. /\ UNCHANGED <<status, ttl, hk, missed, rescue, clock>>
        /\ "hand" \in list' => busy' \/ status = "gone"
        /\ busy' => busy
        /\ status = "gone" => list' \subseteq list
    BY <1>7 DEF FetchLost, JobDone, JobLeft, LeaseInv, DrainOutlives, StepsInTime
  <2> QED BY <2>1, <1>0 DEF LeaseInv, StepsInTime, LeaseCovers, NobodyMoves, DrainOutlives, Rescued, Owed, Late, Round
<1>8. ASSUME Sigterm PROVE P'
  <2>1. /\ clock'["hk"] = clock["hk"] /\ clock'["rescue"] = clock["rescue"] /\ clock'["phase"] = 0
        /\ clock'["pass"] = clock["pass"]
        /\ status = "up" /\ status' = "stopping"
        /\ UNCHANGED <<ttl, hk, missed, busy, list, rescue>>
    BY <1>8 DEF Sigterm
  <2>2. StepsInTime' /\ LeaseCovers'
    BY <2>1, <1>4 DEF LeaseInv, LeaseCovers, StepsInTime
  <2>3. NobodyMoves' /\ DrainOutlives' /\ Rescued'
    BY <2>1 DEF LeaseInv, NobodyMoves, Rescued, DrainOutlives
  <2> QED BY <2>2, <2>3
<1>9. ASSUME StopFetching PROVE P'
  <2>1. /\ clock'["hk"] = clock["hk"] /\ clock'["rescue"] = clock["rescue"] /\ clock'["phase"] = 0
        /\ clock'["pass"] = clock["pass"]
        /\ status = "stopping" /\ status' = "draining"
        /\ UNCHANGED <<ttl, hk, missed, busy, list, rescue>>
    BY <1>9 DEF StopFetching
  <2>2. StepsInTime' /\ LeaseCovers'
    BY <2>1 DEF LeaseInv, LeaseCovers, StepsInTime
  <2>3. NobodyMoves' /\ DrainOutlives' /\ Rescued'
    BY <2>1 DEF LeaseInv, NobodyMoves, Rescued, DrainOutlives
  <2> QED BY <2>2, <2>3
<1>10. ASSUME DrainDone PROVE P'
  <2>1. /\ status = "draining" /\ status' = "exiting" /\ ttl' \in {0, ttl}
        /\ ~busy \/ clock["phase"] >= Drain
        /\ UNCHANGED <<hk, missed, busy, list, rescue, clock>>
    BY <1>10 DEF DrainDone
  <2>2. StepsInTime' /\ LeaseCovers' /\ NobodyMoves' /\ Rescued'
    BY <2>1 DEF LeaseInv, LeaseCovers, StepsInTime, NobodyMoves, Rescued
  <2>3. LongDrain /\ clock["phase"] >= Drain => ttl = 0 /\ hk # "beat"
    BY <2>1 DEF LeaseInv, DrainOutlives, LongDrain, StepsInTime, StepLimit
  <2>4. DrainOutlives'
    BY <2>1, <2>3 DEF LeaseInv, DrainOutlives, LongDrain
  <2> QED BY <2>2, <2>4
<1>11. ASSUME Exit \/ Kill PROVE P'
  <2>1. /\ clock'["rescue"] = clock["rescue"] /\ clock'["dead"] = 0 /\ clock'["pass"] = clock["pass"]
        /\ status' = "gone" /\ hk' = "ended" /\ ~busy' /\ UNCHANGED <<ttl, missed, list, rescue>>
    BY <1>11 DEF Exit, Kill, Gone
  <2>2. Round' = Round
    BY <2>1 DEF Round
  <2> QED BY <1>5, <2>1, <2>2 DEF LeaseInv, LeaseCovers, StepsInTime, NobodyMoves, Rescued, DrainOutlives
<1>12. ASSUME Wake \/ Stopped \/ Heartbeat \/ HeartbeatFails \/ PassDone PROVE P'
  <2>1. /\ clock'["hk"] = 0
        /\ \A c \in {"rescue", "phase", "dead"} : clock'[c] = clock[c]
        /\ clock'["pass"] = IF hk' = "scan" THEN 0 ELSE clock["pass"]
        /\ UNCHANGED <<status, busy, list, rescue>>
    BY <1>12 DEF Wake, Stopped, Heartbeat, HeartbeatFails, PassDone, HkGoto
  <2>2. Round' = Round
    BY <2>1 DEF Round
  <2>3. ASSUME Wake PROVE P'
    <3>1. hk = "wait" /\ hk' = "beat" /\ clock["hk"] = Period /\ status = "up" /\ UNCHANGED <<ttl, missed>>
      BY <2>3 DEF Wake, HkGoto
    <3> QED BY <2>1, <2>2, <3>1 DEF LeaseInv, LeaseCovers, StepsInTime, StepLimit, NobodyMoves, Rescued,
               DrainOutlives, Owed, Late
  <2>4. ASSUME Stopped PROVE P'
    <3>1. hk' = "ended" /\ status # "up" /\ UNCHANGED <<ttl, missed>>
      BY <2>4 DEF Stopped, HkGoto
    <3> QED BY <2>1, <2>2, <3>1 DEF LeaseInv, LeaseCovers, StepsInTime, NobodyMoves, Rescued, DrainOutlives
  <2>5. ASSUME Heartbeat PROVE P'
    <3>1. /\ hk = "beat" /\ hk' = "scan" /\ ttl' = Lease /\ missed' = 0
          /\ status # "gone"
      BY <2>5 DEF Heartbeat, HkGoto, LeaseInv, Rescued, StepsInTime
    <3> QED BY <2>1, <2>2, <3>1 DEF LeaseInv, LeaseCovers, StepsInTime, StepLimit, NobodyMoves, Rescued,
               DrainOutlives, Owed
  <2>6. ASSUME HeartbeatFails PROVE P'
    <3>1. hk = "beat" /\ hk' = "wait" /\ missed' = missed + 1 /\ ttl' \in {ttl, Lease}
      BY <2>6 DEF HeartbeatFails, HkGoto
    <3>4. status # "gone"
      BY <3>1 DEF LeaseInv, StepsInTime
    <3>2. Owed' = Late(missed) + Cycle
      BY <2>1, <3>1 DEF Owed, Late
    <3>3. Owed = Late(missed) + Period + clock["hk"] /\ clock["hk"] <= Call
      BY <3>1 DEF Owed, LeaseInv, StepsInTime, StepLimit
    <3> QED BY <2>1, <2>2, <3>1, <3>2, <3>3, <3>4, <1>4 DEF LeaseInv, LeaseCovers, StepsInTime, StepLimit,
               NobodyMoves, Rescued, DrainOutlives
  <2>7. ASSUME PassDone PROVE P'
    <3>1. hk = "scan" /\ hk' = "wait" /\ UNCHANGED <<ttl, missed>> /\ missed = 0
          /\ clock["pass"] = clock["hk"]
      BY <2>7 DEF PassDone, HkGoto, LeaseInv, StepsInTime
    <3>2. Owed = clock["hk"] /\ Owed' = clock["hk"]
      BY <2>1, <3>1 DEF Owed, LeaseInv, StepsInTime, StepLimit, Late
    <3> QED BY <2>1, <2>2, <3>1, <3>2 DEF LeaseInv, LeaseCovers, StepsInTime, StepLimit, NobodyMoves,
               Rescued, DrainOutlives
  <2> QED BY <1>12, <2>3, <2>4, <2>5, <2>6, <2>7
<1> QED BY <1>6, <1>7, <1>8, <1>9, <1>10, <1>11, <1>12 DEF Owner

(* The rescuer does not touch the owner's clocks.                          *)
LEMMA RescuerKeeps == LeaseInv /\ Rescuer => LeaseInv'
<1> SUFFICES ASSUME LeaseInv, Rescuer PROVE LeaseInv'
  OBVIOUS
<1>0. TypeOK /\ TypeOK'
  BY LeaseTypes DEF LeaseInv, Next
<1>1. /\ ttl \in Nat /\ missed \in 0..Misses
      /\ {clock["hk"], clock["rescue"], clock["phase"], clock["dead"]} \subseteq Nat
      /\ clock["pass"] \in 0..Pass
  BY <1>0 DEF TypeOK, Clocks, LeaseInv, StepsInTime
<1>2. Cycle \in Nat /\ Cycle = Period + Call /\ Silence \in Nat
  BY <1>1, Durations
<1>3. /\ \A c \in {"hk", "pass", "phase", "dead"} : clock'[c] = clock[c]
      /\ clock'["rescue"] \in {0, clock["rescue"]}
      /\ UNCHANGED <<status, ttl, hk, missed, busy>>
      /\ list' \subseteq list
  BY DEF Rescuer, RescuerWakes, RescuerBeats, FindsNoLease, PassesOver, Recover, RescuerDone,
         RescueGoto, Reset, Clocks
<1>4. clock'["rescue"] <= StepLimit(rescue')
  BY <1>1 DEF LeaseInv, StepsInTime, StepLimit, Rescuer, RescuerWakes, RescuerBeats, FindsNoLease,
              PassesOver, Recover, RescuerDone, RescueGoto, Reset, Clocks
<1>5. StepsInTime'
  BY <1>3, <1>4 DEF LeaseInv, StepsInTime
<1>6. LeaseCovers'
  BY <1>3 DEF LeaseInv, LeaseCovers, Owed, Late
<1>7. NobodyMoves'
  <2>1. rescue' = "move" => rescue = "move" \/ ttl = 0
    BY DEF Rescuer, RescuerWakes, RescuerBeats, FindsNoLease, PassesOver, Recover, RescuerDone, RescueGoto
  <2>2. ttl = 0 /\ RoomForPass => status # "up"
    BY <1>0, <1>1, <1>2, OwedBound DEF LeaseInv, LeaseCovers, RoomForPass
  <2>3. ttl = 0 /\ RoomToDrain => status \in {"exiting", "gone"}
    <3>1. RoomToDrain => RoomForPass
      BY <1>2 DEF RoomToDrain, RoomForPass
    <3> QED BY <1>0, <1>1, <1>2, <2>2, <3>1 DEF LeaseInv, LeaseCovers, StepsInTime, RoomToDrain, TypeOK
  <2> QED BY <1>3, <2>1, <2>2, <2>3 DEF LeaseInv, NobodyMoves
<1>8. DrainOutlives'
  BY <1>3 DEF LeaseInv, DrainOutlives
<1>9. Rescued'
  <2> SUFFICES ASSUME status = "gone", list # {}, list' # {}, ttl = 0 PROVE Round' >= Round
    BY <1>1, <1>2, <1>3 DEF LeaseInv, Rescued, Round
  <2>1. /\ rescue = "wait" /\ rescue' = "beat" /\ clock["rescue"] = Period /\ clock'["rescue"] = 0
        \/ /\ rescue = "beat" /\ rescue' = "look" /\ clock'["rescue"] = 0
        \/ /\ rescue = "look" /\ rescue' = "move" /\ clock'["rescue"] = clock["rescue"]
        \/ /\ rescue' = rescue /\ clock'["rescue"] = clock["rescue"]
    BY DEF Rescuer, RescuerWakes, RescuerBeats, FindsNoLease, PassesOver, Recover, RescuerDone,
           RescueGoto, Reset, Clocks
  <2>2. clock["rescue"] <= StepLimit(rescue)
    BY DEF LeaseInv, StepsInTime
  <2> QED BY <1>1, <1>2, <2>1, <2>2 DEF Round, StepLimit
<1> QED BY <1>0, <1>5, <1>6, <1>7, <1>8, <1>9 DEF LeaseInv

(* LeaseInv holds of every reachable state.                                *)
LEMMA LeaseInvariant == Spec => []LeaseInv
<1>1. Init => LeaseInv
  <2> SUFFICES ASSUME Init PROVE LeaseInv
    OBVIOUS
  <2>1. TypeOK
    <3>1. 0 \in 0..Misses /\ Lease \in 0..Lease
      OBVIOUS
    <3> QED BY <3>1 DEF Init, TypeOK
  <2>2. clock["hk"] = 0 /\ clock["rescue"] = 0
    BY DEF Init, Clocks
  <2>3. clock["pass"] = 0
    BY DEF Init, Clocks
  <2>4. Late(0) = 0
    BY <2>3, Durations
  <2>5. Owed = 0
    BY <2>2, <2>4 DEF Init, Owed
  <2> QED BY <2>1, <2>2, <2>3, <2>5 DEF Init, LeaseInv, StepsInTime, StepLimit, LeaseCovers,
             NobodyMoves, DrainOutlives, Rescued
<1>2. LeaseInv /\ [Next]_vars => LeaseInv'
  <2> SUFFICES ASSUME LeaseInv, UNCHANGED vars PROVE LeaseInv'
    BY TickKeeps, OwnerKeeps, RescuerKeeps DEF Next
  <2> QED BY DEF vars, LeaseInv, TypeOK, StepsInTime, LeaseCovers, Owed, Late, NobodyMoves, DrainOutlives,
             Rescued, Round
<1> QED BY <1>1, <1>2, PTL DEF Spec

(* Every clock, key and step of the two workers stays within its limits.   *)
THEOREM TypeCorrect == Spec => []TypeOK
<1>1. LeaseInv => TypeOK
  BY DEF LeaseInv
<1> QED BY <1>1, LeaseInvariant, PTL

(* A step that robs the owner is a move of the rescuer.                    *)
LEMMA RobberMoves == LeaseInv /\ [Next]_vars /\ Robbed => rescue = "move"
  BY DEF LeaseInv, TypeOK, Robbed, Next, vars, Tick, Owner, Fetch, FetchLost, JobDone, JobLeft, Sigterm,
     StopFetching, DrainDone, Exit, Kill, Gone, Wake, Stopped, Heartbeat, HeartbeatFails, PassDone, HkGoto,
     Rescuer, RescuerWakes, RescuerBeats, FindsNoLease, PassesOver, Recover, RescuerDone, RescueGoto

(* Only a slow pass or failed heartbeats cost a worker that is up its      *)
(* lease, and only when what they took adds up to a whole lease.           *)
THEOREM LosesLeaseOnlyWhenSlow == Spec => []LapsesOnlyWhenSlow
<1>1. LeaseInv => LapsesOnlyWhenSlow
  <2> SUFFICES ASSUME LeaseInv, status = "up", ttl = 0
               PROVE  clock["pass"] + (missed + 1) * Cycle >= Lease
    BY DEF LapsesOnlyWhenSlow
  <2>1. /\ missed \in 0..Misses /\ hk \in {"wait", "beat", "scan"}
        /\ clock["hk"] \in Nat /\ clock["hk"] <= StepLimit(hk)
        /\ clock["pass"] \in 0..Pass
        /\ hk = "scan" => missed = 0 /\ clock["pass"] = clock["hk"]
    BY DEF LeaseInv, TypeOK, StepsInTime, Clocks
  <2>2. /\ Late(missed) \in Nat /\ Cycle \in Nat /\ Cycle = Period + Call
        /\ Late(missed + 1) = Late(missed) + Cycle /\ Late(0) = clock["pass"]
    BY <2>1, Durations
  <2>3. Owed >= Lease
    BY <2>1, <2>2 DEF LeaseInv, LeaseCovers, Owed
  <2>4. Owed <= Late(missed + 1)
    BY <2>1, <2>2 DEF Owed, StepLimit
  <2>5. Late(missed + 1) = clock["pass"] + (missed + 1) * Cycle
    BY <2>1 DEF Late
  <2>6. Owed \in Nat
    BY <2>1, <2>2 DEF Owed
  <2> QED BY <2>2, <2>3, <2>4, <2>5, <2>6
<1> QED BY <1>1, LeaseInvariant, PTL

(* A lease longer than the longest silence, slow passes and failed         *)
(* heartbeats included, would keep the jobs of a worker nobody told to     *)
(* stop; config.py's 30 s is not that long.                                *)
THEOREM KeepsJobsWhileUp ==
    ASSUME RoomForPass PROVE Spec => NotRobbedWhileUp
<1>1. LeaseInv /\ [Next]_vars => [Robbed => status # "up"]_vars
  BY RobberMoves DEF LeaseInv, NobodyMoves
<1> QED BY <1>1, LeaseInvariant, PTL DEF Spec, NotRobbedWhileUp

(* A lease longer than the silence, the last fetch and the drain together  *)
(* would keep a draining worker's jobs too: config.py's 30 s is not.       *)
THEOREM KeepsJobsWhileDraining ==
    ASSUME RoomToDrain PROVE Spec => NotRobbedWhileDraining
<1>1. LeaseInv /\ [Next]_vars => [Robbed => status = "exiting"]_vars
  <2> SUFFICES ASSUME LeaseInv, [Next]_vars, Robbed PROVE status = "exiting"
    OBVIOUS
  <2>1. status \in {"exiting", "gone"}
    BY RobberMoves DEF LeaseInv, NobodyMoves
  <2>2. status # "gone"
    BY DEF LeaseInv, StepsInTime, Robbed
  <2> QED BY <2>1, <2>2
<1> QED BY <1>1, LeaseInvariant, PTL DEF Spec, NotRobbedWhileDraining

(* Work that a dead worker left waits one lease, one wait, one heartbeat   *)
(* and one pass of the rescuer, and not longer.                            *)
THEOREM RecoveryIsBounded == Spec => []RecoveredInTime
<1>1. LeaseInv => RecoveredInTime
  <2> SUFFICES ASSUME LeaseInv, status = "gone", list # {} PROVE clock["dead"] <= Lease + Cycle + Pass
    BY DEF RecoveredInTime
  <2>1. /\ ttl \in 0..Lease
        /\ clock["dead"] \in Nat /\ clock["rescue"] \in Nat
    BY DEF LeaseInv, TypeOK, Clocks
  <2>2. Cycle \in Nat /\ Cycle = Period + Call
    BY Sums
  <2> QED BY <2>1, <2>2 DEF LeaseInv, Rescued, StepsInTime, StepLimit, Round
<1> QED BY <1>1, LeaseInvariant, PTL

(* A drain as long as a lease and a heartbeat leaves no lease behind when  *)
(* it gives up on running work, even if the DEL fails; one that ends       *)
(* early leaves no work in hand.                                           *)
THEOREM DrainDropsTheLease ==
    ASSUME LongDrain PROVE Spec => []AbandonedWorkHasNoLease
<1>1. LeaseInv => AbandonedWorkHasNoLease
  <2> SUFFICES ASSUME LeaseInv, status = "exiting", list # {}
               PROVE  ttl = 0 \/ (clock["phase"] < Drain /\ "hand" \notin list)
    BY DEF AbandonedWorkHasNoLease
  <2>1. clock["phase"] \in Nat
    BY DEF LeaseInv, TypeOK, Clocks
  <2> QED BY <2>1 DEF LeaseInv, DrainOutlives
<1> QED BY <1>1, LeaseInvariant, PTL
=============================================================================
