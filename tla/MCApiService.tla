---------------------------- MODULE MCApiService ----------------------------
(* Two executes of one settlement, and requests that keep them company.    *)
EXTENDS ApiService, TLC
CONSTANTS s1, s2, first, second, report, create, list, livez

MCRequests == {first, second, report, create, list, livez}
MCKind == [r \in MCRequests |-> IF r \in {first, second} THEN "execute" ELSE IF r = report THEN "report"
                               ELSE IF r = create THEN "create" ELSE IF r = list THEN "list" ELSE "livez"]
MCTarget == [r \in MCRequests |-> IF r \in {first, second} THEN s1 ELSE s2]
Racers == Permutations({first, second})
=============================================================================
