----------------------------- MODULE MCLogStream -----------------------------
(***************************************************************************)
(* Two requests that ingest logs and a client that follows the errors: one *)
(* request has two entries for it, the other an entry that breaks a limit  *)
(* before one for it, or an entry that is filtered out and raises an alert.*)
(***************************************************************************)
EXTENDS LogStream

CONSTANTS g1, g2, s1, info, error, bad

ErrorsOnly == [s \in Streams |-> {error}]
Bodies == [i \in Ingesters |-> IF i = g1 THEN {<<error, error>>}
                                         ELSE {<<bad, error>>, <<info>>}]
=============================================================================
