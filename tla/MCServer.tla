------------------------------ MODULE MCServer ------------------------------
(***************************************************************************)
(* A server with one request and one stream, and two updaters, each with a *)
(* file of its own to download to.                                         *)
(*                                                                         *)
(* What main and the handlers do, and what happens to the binary, have the *)
(* variable server in common and nothing else: it says whether a process   *)
(* runs, and from which file.  So the first are interleaved with each      *)
(* other before an update has started, and an update with a server that    *)
(* starts, serves and is killed; the other orders reach the same states of *)
(* the two.  The theorems are about all of them.                           *)
(***************************************************************************)
EXTENDS Server

CONSTANTS u1, u2, f0, f1, f2, r1, s1

NoUpdate == \A u \in Updaters : upc[u] = "idle"
NoRequest == Busy = {} /\ phase \in {"down", "serving"}

MCNext ==
  \/ Start \/ Listen \/ Killed \/ PowerLost
  \/ /\ NoUpdate
     /\ Main \/ StartFails \/ Signal \/ \E r \in Handlers : Handler(r)
  \/ /\ NoRequest
     /\ (\E u \in Updaters : Update(u)) \/ WriteBack
     /\ UNCHANGED life

MCSpec == ServerInit /\ [][MCNext]_serverVars /\ WF_serverVars(Main)
=============================================================================
