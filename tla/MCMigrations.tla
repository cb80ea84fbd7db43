---------------------------- MODULE MCMigrations ----------------------------
(* Migrations with model values, for TLC. *)
EXTENDS Migrations, TLC

CONSTANTS a, b, i1, i2, queued, sending, paid

(* Rows are interchangeable, and so are the two indexes. *)
Symmetry == Permutations({a, b}) \cup Permutations({i1, i2})
=============================================================================
