----------------------------- MODULE MCTopology -----------------------------
(***************************************************************************)
(* One process that talks to a container and to itself, two names, a ring  *)
(* buffer of one record.                                                   *)
(***************************************************************************)
EXTENDS Topology

CONSTANTS pid, ip, loop, web, db
=============================================================================
