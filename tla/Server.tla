------------------------------- MODULE Server -------------------------------
(***************************************************************************)
(* The life of the server process: it starts, serves, gets a signal, lets  *)
(* its requests finish for ten seconds, closes the database and ends; or   *)
(* it is killed.  It runs from the binary that SelfUpdate replaces.        *)
(***************************************************************************)
EXTENDS SelfUpdate

CONSTANTS
  Requests,   \* HTTP requests that run SQL statements
  Streams     \* GET /api/logs/stream, which end when their client leaves

ASSUME StreamsAssumption == Streams \cap Requests = {}

VARIABLES
  phase,   \* where main is
  rpc,     \* where each request and stream is
  late     \* history: those that were still running after the ten seconds

life == <<phase, rpc, late>>
serverVars == <<updateVars, life>>

Handlers == Requests \cup Streams

ServerInit ==
  /\ UpdateInit
  /\ phase = "down"
  /\ rpc = [r \in Handlers |-> "idle"]
  /\ late = {}

Busy == {r \in Handlers : rpc[r] \in {"first", "second", "stream"}}
DatabaseOpen == phase \in {"serving", "signalled", "draining", "closing"}

Go(place) == phase' = place /\ UNCHANGED <<updateVars, rpc, late>>

(* The process ends, and all goroutines with it.                           *)
End == /\ phase' = "down"
       /\ rpc' = [r \in Handlers |-> "idle"]
       /\ late' = {}
       /\ Leave

-----------------------------------------------------------------------------
(* main                                                                    *)

Start == phase = "down" /\ phase' = "starting" /\ Launch /\ UNCHANGED <<rpc, late>>

(* initTemplates, initDB, ListenAndServe: an error is log.Fatalf.          *)
Listen == phase = "starting" /\ Go("serving")
StartFails == phase = "starting" /\ End

(* SIGINT or SIGTERM.  A second one waits in the channel for ever.         *)
Signal == phase = "serving" /\ Go("signalled")

(* srv.Shutdown closes the listener and waits until nobody is busy ...     *)
Shutdown == phase = "signalled" /\ Go("draining")

Idle_atOnce == TRUE                              \* mutant: srv.Close
Idle == Busy = {}
Drained == phase = "draining" /\ Idle /\ Go("closing")

(* ... but no longer than its context.  Mutant: context.Background.        *)
TimesUp_never == FALSE /\ UNCHANGED serverVars
TimesUp == /\ phase = "draining"
           /\ phase' = "closing"
           /\ late' = late \cup Busy
           /\ UNCHANGED <<updateVars, rpc>>

CloseDatabase == phase = "closing" /\ Go("closed")
Exit == phase = "closed" /\ End

(* SIGKILL or a panic.                                                     *)
Killed == phase # "down" /\ End

(* The machine goes down, and the server with it.                          *)
PowerLost == /\ phase' = "down"
             /\ rpc' = [r \in Handlers |-> "idle"]
             /\ late' = {}
             /\ PowerFails

-----------------------------------------------------------------------------
(* Requests                                                                *)

Move(r, place) == /\ rpc' = [rpc EXCEPT ![r] = place]
                  /\ UNCHANGED <<updateVars, phase, late>>

Accept(r) == /\ phase \in {"serving", "signalled"} /\ rpc[r] = "idle"
             /\ Move(r, IF r \in Streams THEN "stream" ELSE "first")

(* Two statements, whatever they are, and the answer.                      *)
Statement(r) == /\ DatabaseOpen
                /\ \/ rpc[r] = "first" /\ Move(r, "second")
                   \/ rpc[r] = "second" /\ Move(r, "idle")

(* "sql: database is closed": the handler logs it and answers 200.         *)
Refused(r) == phase = "closed" /\ rpc[r] \in {"first", "second"} /\ Move(r, "refused")

ClientLeaves(s) == rpc[s] = "stream" /\ Move(s, "idle")

-----------------------------------------------------------------------------
Main == Listen \/ Shutdown \/ Drained \/ TimesUp \/ CloseDatabase \/ Exit
Handler(r) == Accept(r) \/ Statement(r) \/ Refused(r) \/ ClientLeaves(r)

ServerNext ==
  \/ Start \/ Main \/ StartFails \/ Signal \/ Killed \/ PowerLost
  \/ \E r \in Handlers : Handler(r)
  \/ ((\E u \in Updaters : Update(u)) \/ WriteBack) /\ UNCHANGED life

ServerSpec == ServerInit /\ [][ServerNext]_serverVars

(* main goes on by itself from the signal to the end.                      *)
ServerFairSpec == ServerSpec /\ WF_serverVars(Main)

-----------------------------------------------------------------------------
(* Properties                                                              *)

ServerTypeOK ==
  /\ phase \in {"down", "starting", "serving", "signalled", "draining", "closing", "closed"}
  /\ rpc \in [Handlers -> {"idle", "first", "second", "stream", "refused"}]
  /\ late \subseteq Handlers
  /\ server = None <=> phase = "down"

(* README.md:71 and 190, "finish in-flight requests, close the database":  *)
(* the database is closed under a request, or the process ends under it by *)
(* itself, only if the request was still running after the ten seconds.    *)
FinishedInTime ==
  \A r \in Handlers :
     rpc[r] = "refused" \/ (phase = "closed" /\ r \in Busy) => r \in late

(* After a signal the process ends, although streams never end by          *)
(* themselves.                                                             *)
ProcessEnds == phase = "signalled" ~> phase = "down"
=============================================================================
