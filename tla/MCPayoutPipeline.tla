------------------------- MODULE MCPayoutPipeline -------------------------
(* PayoutPipeline with model values, for TLC. *)
EXTENDS PayoutPipeline

CONSTANTS k1, k2, r1, r2, w1, w2, p1, p2, s1, s2, e1, t1, t2

(* Keys, references, workers, threads, payouts and settlements are interchangeable. *)
Symmetry == Permutations({k1, k2}) \cup Permutations({r1, r2}) \cup Permutations({w1, w2})
            \cup Permutations({t1, t2}) \cup Permutations({p1, p2}) \cup Permutations({s1, s2})
=============================================================================
