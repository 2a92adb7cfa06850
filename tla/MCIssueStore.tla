--------------------------- MODULE MCIssueStore ---------------------------
(***************************************************************************)
(* Small instances of IssueStore for TLC.                                  *)
(***************************************************************************)
EXTENDS IssueStore, TLC

CONSTANTS d1, d2, d3, k1, k2, i1, i2, r1, r2, none

MCEnvs == {none}
MCProjectOf == [k \in Keys |-> IF k = k1 THEN "1" ELSE "2"]

E(i, k, r, t) == [id |-> i, key |-> k, release |-> r, env |-> none, ts |-> t]

(* One issue, two releases, stamped by the server.                         *)
TwoReleases == {E(i1, k1, r1, 0), E(i1, k1, r2, 0)}

(* Two issues of two projects whose clients chose the same ids; one of     *)
(* them is stamped by the server or by a client whose clock is ahead.      *)
TwoIssues == {E(i1, k1, r1, 0), E(i1, k1, r1, 3), E(i1, k2, r1, 1), E(i2, k2, r1, 1)}

SymDeliveries == Permutations(Deliveries)
=============================================================================
