--------------------------- MODULE PayoutPromise ---------------------------
(***************************************************************************)
(* What settle promises the merchant of a settlement, without queues,      *)
(* workers, retries or keys: once the settlement is executed, the bank may *)
(* move its money, once; and the service may then record, once and for     *)
(* all, the reference under which it moved.                                *)
(***************************************************************************)
CONSTANTS Settlements, Refs

VARIABLES
    owed,       \* settlements handed over for payment
    moved,      \* the bank's references, per settlement
    recorded    \* the references the service calls paid, per settlement

vars == <<owed, moved, recorded>>

TypeOK ==
    /\ owed \in SUBSET Settlements
    /\ moved \in [Settlements -> SUBSET Refs]
    /\ recorded \in [Settlements -> SUBSET Refs]

Init ==
    /\ owed = {}
    /\ moved = [s \in Settlements |-> {}]
    /\ recorded = [s \in Settlements |-> {}]

Execute(s) ==
    /\ s \notin owed
    /\ owed' = owed \cup {s}
    /\ UNCHANGED <<moved, recorded>>

(* Money moves: at most once per settlement, under a reference of its own. *)
MoveMoney(s, r) ==
    /\ s \in owed
    /\ moved[s] = {}
    /\ \A x \in Settlements : r \notin moved[x]
    /\ moved' = [moved EXCEPT ![s] = {r}]
    /\ UNCHANGED <<owed, recorded>>

(* The service says so: only what the bank did, and only once. *)
Record(s, r) ==
    /\ r \in moved[s]
    /\ recorded[s] = {}
    /\ recorded' = [recorded EXCEPT ![s] = {r}]
    /\ UNCHANGED <<owed, moved>>

Next == \E s \in Settlements :
    Execute(s) \/ \E r \in Refs : MoveMoney(s, r) \/ Record(s, r)

Spec == Init /\ [][Next]_vars
=============================================================================
