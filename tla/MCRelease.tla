----------------------------- MODULE MCRelease -----------------------------
(* v1 is fine, v2 fails a gate, v3's workers never get ready.              *)
EXTENDS Release

CONSTANTS v1, v2, v3

MCBroken == {<<v3, "worker">>}
MCBad == {v2}
=============================================================================
