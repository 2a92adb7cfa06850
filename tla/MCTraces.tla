------------------------------ MODULE MCTraces ------------------------------
(***************************************************************************)
(* Two requests: envelopes with the same transaction or with the same span *)
(* under another id or none, and an OTLP body with two traces.             *)
(***************************************************************************)
EXTENDS Traces

CONSTANTS q, r, t, u, uuid1, uuid2, root, child

MCGenerated == [x \in Requests |-> IF x = q THEN uuid1 ELSE uuid2]

Tr(id, seq) == [id |-> id, spans |-> seq]
MCBodies == {<<Tr(t, <<root, child>>)>>, <<Tr(u, <<NoId, child>>)>>,
             <<Tr(NoId, <<root>>)>>, <<Tr(t, <<>>), Tr(u, <<>>)>>}
=============================================================================
