------------------------------ MODULE LogStream ------------------------------
(***************************************************************************)
(* The live tail of the application logs: requests that ingest entries     *)
(* (logsIngestHandler, and otlpLogsHandler with the same loop: store each  *)
(* entry, broadcast it, evaluate the log alert rules) and SSE clients that *)
(* follow them (logsStreamHandler).                                        *)
(* They share the map logSubscribers under a sync.RWMutex; a subscriber is *)
(* a buffered channel that broadcastLog fills without ever waiting.        *)
(*                                                                         *)
(* A request holds the read lock exactly while it is at "send".  The       *)
(* write lock is held for one map operation only, so taking it, the        *)
(* operation and its release are one step.                                 *)
(***************************************************************************)
EXTENDS Naturals, Sequences, FiniteSets, SequencesExt

CONSTANTS
  Ingesters,     \* requests to POST /api/logs or /v1/logs, a goroutine each
  Streams,       \* requests to GET /api/logs/stream
  Entries,       \* what may be logged; the invalid ones are not stored
  Valid,         \* the entries within the handler's limits
  Alerting,      \* the entries that an enabled log alert rule matches
  Wanted,        \* Wanted[s]: the entries that pass the filters of s
  Batches,       \* Batches[i]: the bodies that the client of i may post
  Cap,           \* capacity of a subscriber's channel, 100 in the code
  Nobody

ASSUME LogStreamAssumption ==
  /\ Valid \subseteq Entries /\ Alerting \subseteq Entries
  /\ Wanted \in [Streams -> SUBSET Entries]
  /\ Batches \in [Ingesters -> SUBSET Seq(Entries)]
  /\ Cap \in Nat \ {0}
  /\ Nobody \notin Streams

VARIABLES
  table,      \* app_logs: the row with id n is table[n]
  ipc,        \* where each ingesting request is
  batch,      \* the entries it has still to look at
  current,    \* the id of the row it broadcasts
  ahead,      \* the subscribers its loop over the map has still to visit
  ingested,   \* its count
  raised,     \* the ids for which it raised log alerts
  spc,        \* where each stream is
  announced,  \* the stream whose Lock() waits for the readers, or Nobody
  subs,       \* logSubscribers
  channel,    \* sub.ch: ids of rows
  holding,    \* the row a stream has received and is writing to its client
  connected,  \* whether its client is still there
  out,        \* history: the rows its client got
  dropped,    \* history: rows discarded because its channel was full
  since       \* history: the length of the table when it registered

ingest  == <<table, ipc, batch, current, ahead, ingested, raised>>
stream  == <<spc, announced, subs, channel, holding, connected>>
history == <<out, dropped, since>>
vars    == <<ingest, stream, history>>

Init ==
  /\ table = <<>>
  /\ ipc = [i \in Ingesters |-> "idle"]
  /\ batch = [i \in Ingesters |-> <<>>]
  /\ current = [i \in Ingesters |-> 0]
  /\ ahead = [i \in Ingesters |-> {}]
  /\ ingested = [i \in Ingesters |-> 0]
  /\ raised = {}
  /\ spc = [s \in Streams |-> "idle"]
  /\ announced = Nobody
  /\ subs = {}
  /\ channel = [s \in Streams |-> <<>>]
  /\ holding = [s \in Streams |-> <<>>]
  /\ connected = [s \in Streams |-> TRUE]
  /\ out = [s \in Streams |-> <<>>]
  /\ dropped = [s \in Streams |-> {}]
  /\ since = [s \in Streams |-> 0]

Goto(i, place) == ipc' = [ipc EXCEPT ![i] = place]

-----------------------------------------------------------------------------
(* logsIngestHandler                                                       *)

Post(i, body) ==
  /\ ipc[i] = "idle"
  /\ Goto(i, "next")
  /\ batch' = [batch EXCEPT ![i] = body]
  /\ UNCHANGED <<table, current, ahead, ingested, raised, stream, history>>

Respond(i) ==
  /\ ipc[i] = "next" /\ batch[i] = <<>>
  /\ Goto(i, "done")
  /\ UNCHANGED <<table, batch, current, ahead, ingested, raised, stream, history>>

(* Mutant: an entry is counted before it has been looked at.               *)
Skip_counted(i) ==
  /\ ipc[i] = "next" /\ batch[i] # <<>>
  /\ batch' = [batch EXCEPT ![i] = Tail(@)]
  /\ ingested' = [ingested EXCEPT ![i] = @ + 1]
  /\ UNCHANGED <<table, ipc, current, ahead, raised, stream, history>>

(* The entry breaks a limit, or its INSERT fails: the loop goes on.        *)
Skip(i) ==
  /\ ipc[i] = "next" /\ batch[i] # <<>>
  /\ batch' = [batch EXCEPT ![i] = Tail(@)]
  /\ UNCHANGED <<table, ipc, current, ahead, ingested, raised, stream, history>>

(* LastInsertId; the mutant takes the id before.                           *)
LastId_before(rows) == IF Len(rows) > 1 THEN Len(rows) - 1 ELSE 1
LastId(rows) == Len(rows)

Insert(i) ==
  /\ ipc[i] = "next" /\ batch[i] # <<>> /\ Head(batch[i]) \in Valid
  /\ table' = Append(table, [by |-> i, entry |-> Head(batch[i])])
  /\ current' = [current EXCEPT ![i] = LastId(table')]
  /\ batch' = [batch EXCEPT ![i] = Tail(@)]
  /\ Goto(i, "rlock")
  /\ UNCHANGED <<ahead, ingested, raised, stream, history>>

(* RLock: an announced writer makes a new reader wait.                     *)
RLock(i) ==
  /\ ipc[i] = "rlock"
  /\ IF announced = Nobody
     THEN Goto(i, "send") /\ ahead' = [ahead EXCEPT ![i] = subs]
     ELSE Goto(i, "parked") /\ UNCHANGED ahead
  /\ UNCHANGED <<table, batch, current, ingested, raised, stream, history>>

Wants(s, id) == table[id].entry \in Wanted[s]
Full(s)      == Len(channel[s]) >= Cap

(* Mutant: a channel without buffer takes a row only from a waiting loop.  *)
Receives_unbuffered(s, id) == Wants(s, id) /\ ~Full(s) /\ spc[s] = "loop"
Receives(s, id) == Wants(s, id) /\ ~Full(s)

(* select { case sub.ch <- logRow: default: }, which waits for no channel. *)
Proceeds_waits(s) == ~Full(s)                                         \* mutant
Proceeds(s) == TRUE

Offer(i, s) ==
  LET id == current[i]
  IN  /\ ipc[i] = "send" /\ s \in ahead[i] /\ Proceeds(s)
      /\ ahead' = [ahead EXCEPT ![i] = @ \ {s}]
      /\ IF Receives(s, id)
         THEN channel' = [channel EXCEPT ![s] = Append(@, id)] ELSE UNCHANGED channel
      /\ IF Wants(s, id) /\ Full(s)
         THEN dropped' = [dropped EXCEPT ![s] = @ \cup {id}] ELSE UNCHANGED dropped
      /\ UNCHANGED <<table, ipc, batch, current, ingested, raised,
                     spc, announced, subs, holding, connected, out, since>>

RUnlock(i) ==
  /\ ipc[i] = "send" /\ ahead[i] = {}
  /\ Goto(i, "alert")
  /\ UNCHANGED <<table, batch, current, ahead, ingested, raised, stream, history>>

(* evaluateAndTriggerLogAlerts, silent when its query fails; count++.      *)
Alert(i) ==
  /\ ipc[i] = "alert"
  /\ raised' \in {raised, raised \cup {id \in {current[i]} : table[id].entry \in Alerting}}
  /\ ingested' = [ingested EXCEPT ![i] = @ + 1]
  /\ Goto(i, "next")
  /\ UNCHANGED <<table, batch, current, ahead, stream, history>>

-----------------------------------------------------------------------------
(* logsStreamHandler                                                       *)

Follow(s) ==
  /\ spc[s] = "idle"
  /\ spc' = [spc EXCEPT ![s] = "enter"]
  /\ UNCHANGED <<ingest, announced, subs, channel, holding, connected, history>>

(* Lock: one writer at a time announces itself ...                         *)
Announce(s) ==
  /\ spc[s] \in {"enter", "leave"} /\ announced = Nobody
  /\ announced' = s
  /\ UNCHANGED <<ingest, spc, subs, channel, holding, connected, history>>

Readers == {i \in Ingesters : ipc[i] = "send"}

(* ... and waits for the readers; its Unlock lets the parked readers in.   *)
Unlock(map) ==
  /\ Readers = {}
  /\ announced' = Nobody
  /\ subs' = map
  /\ ipc' = [i \in Ingesters |-> IF ipc[i] = "parked" THEN "send" ELSE ipc[i]]
  /\ ahead' = [i \in Ingesters |-> IF ipc[i] = "parked" THEN map ELSE ahead[i]]
  /\ UNCHANGED <<table, batch, current, ingested, raised, channel, holding, connected, out, dropped>>

Register(s) ==
  /\ spc[s] = "enter" /\ announced = s
  /\ Unlock(subs \cup {s})
  /\ spc' = [spc EXCEPT ![s] = "loop"]
  /\ since' = [since EXCEPT ![s] = Len(table)]

(* The loop receives a row, and writes and flushes it: a slow client holds *)
(* the stream there, without any lock.                                     *)
Take(s) ==
  /\ spc[s] = "loop" /\ channel[s] # <<>>
  /\ holding' = [holding EXCEPT ![s] = <<Head(channel[s])>>]
  /\ channel' = [channel EXCEPT ![s] = Tail(@)]
  /\ spc' = [spc EXCEPT ![s] = "write"]
  /\ UNCHANGED <<ingest, announced, subs, connected, history>>

Write(s) ==
  /\ spc[s] = "write"
  /\ out' = [out EXCEPT ![s] = IF connected[s] THEN @ \o holding[s] ELSE @]
  /\ holding' = [holding EXCEPT ![s] = <<>>]
  /\ spc' = [spc EXCEPT ![s] = "loop"]
  /\ UNCHANGED <<ingest, announced, subs, channel, connected, dropped, since>>

Disconnect(s) ==
  /\ connected[s] /\ spc[s] \in {"enter", "loop", "write"}
  /\ connected' = [connected EXCEPT ![s] = FALSE]
  /\ UNCHANGED <<ingest, spc, announced, subs, channel, holding, history>>

(* r.Context().Done(); the mutant notices it only when a row comes.        *)
Quit_onNextRow(s) ==
  /\ spc[s] = "loop" /\ ~connected[s] /\ channel[s] # <<>>
  /\ spc' = [spc EXCEPT ![s] = "leave"]
  /\ UNCHANGED <<ingest, announced, subs, channel, holding, connected, history>>

Quit(s) ==
  /\ spc[s] = "loop" /\ ~connected[s]
  /\ spc' = [spc EXCEPT ![s] = "leave"]
  /\ UNCHANGED <<ingest, announced, subs, channel, holding, connected, history>>

(* The deferred function: delete under the lock, then close.               *)
Without_keeps(s) == subs                                              \* mutant
Without(s) == subs \ {s}

(* Mutant: the function returns without its Unlock.                        *)
Unregister_staysLocked(s) ==
  /\ spc[s] = "leave" /\ announced = s /\ Readers = {}
  /\ subs' = Without(s)
  /\ spc' = [spc EXCEPT ![s] = "close"]
  /\ UNCHANGED <<ingest, announced, channel, holding, connected, history>>

Unregister(s) ==
  /\ spc[s] = "leave" /\ announced = s
  /\ Unlock(Without(s))
  /\ spc' = [spc EXCEPT ![s] = "close"]
  /\ UNCHANGED since

Close(s) ==
  /\ spc[s] = "close"
  /\ spc' = [spc EXCEPT ![s] = "closed"]
  /\ UNCHANGED <<ingest, announced, subs, channel, holding, connected, history>>

-----------------------------------------------------------------------------
IngestStep(i) == Respond(i) \/ Skip(i) \/ Insert(i) \/ RLock(i)
                 \/ (\E s \in Streams : Offer(i, s)) \/ RUnlock(i) \/ Alert(i)

LockStep(s)   == Announce(s) \/ Register(s) \/ Unregister(s)
StreamStep(s) == Follow(s) \/ LockStep(s) \/ Take(s) \/ Write(s)
                 \/ Disconnect(s) \/ Quit(s) \/ Close(s)

Next == \/ \E i \in Ingesters : (\E body \in Batches[i] : Post(i, body)) \/ IngestStep(i)
        \/ \E s \in Streams : StreamStep(s)

Spec == Init /\ [][Next]_vars

(* The Go scheduler runs every goroutine that can run.  A write to a       *)
(* client that is still connected may take forever; to one that is gone    *)
(* it fails at once.                                                       *)
Fairness ==
  /\ \A i \in Ingesters : WF_vars(IngestStep(i))
  /\ \A s \in Streams : WF_vars(LockStep(s) \/ Close(s))
  /\ \A s \in Streams : WF_vars(~connected[s] /\ (Write(s) \/ Quit(s)))

FairSpec == Spec /\ Fairness

-----------------------------------------------------------------------------
(* Properties                                                              *)

IPC == {"idle", "next", "rlock", "parked", "send", "alert", "done"}
SPC == {"idle", "enter", "loop", "write", "leave", "close", "closed"}

TypeOK ==
  /\ table \in Seq([by : Ingesters, entry : Entries])
  /\ ipc \in [Ingesters -> IPC]
  /\ batch \in [Ingesters -> Seq(Entries)]
  /\ current \in [Ingesters -> 0..Len(table)]
  /\ ahead \in [Ingesters -> SUBSET Streams]
  /\ ingested \in [Ingesters -> Nat]
  /\ raised \subseteq 1..Len(table)
  /\ spc \in [Streams -> SPC]
  /\ announced \in Streams \cup {Nobody}
  /\ subs \subseteq Streams
  /\ channel \in [Streams -> Seq(1..Len(table))]
  /\ holding \in [Streams -> Seq(1..Len(table))]
  /\ connected \in [Streams -> BOOLEAN]
  /\ out \in [Streams -> Seq(1..Len(table))]
  /\ dropped \in [Streams -> SUBSET (1..Len(table))]
  /\ since \in [Streams -> 0..Len(table)]

(* A send on a closed channel panics and takes the server down.  A request *)
(* in the middle of its broadcast never has a closed channel ahead of it,  *)
(* although streams come and go meanwhile.                                 *)
NoSendOnClosed ==
  \A i \in Ingesters : \A s \in ahead[i] : ipc[i] = "send" => spc[s] # "closed"

(* Nobody waits for the lock in vain: a request is parked only behind a    *)
(* stream that has announced itself, and that one is still at its Lock and *)
(* waits for readers alone, wherever the others come and go.               *)
LockIsPassedOn ==
  /\ \A i \in Ingesters : ipc[i] = "parked" => announced # Nobody
  /\ announced # Nobody => spc[announced] \in {"enter", "leave"}

(* README.md:235.  A registered stream misses no row that was stored after *)
(* it registered and passes its filters, unless its channel was full: the  *)
(* row has been delivered, is on its way, or its broadcast still has to    *)
(* reach the stream, even across an RLock that had to wait for a writer.   *)
Received(s) == out[s] \o holding[s] \o channel[s]
Coming(s, id) ==
  \E i \in Ingesters :
     /\ current[i] = id
     /\ ipc[i] \in {"rlock", "parked"} \/ (ipc[i] = "send" /\ s \in ahead[i])
NoSilentGap ==
  \A s \in subs : \A id \in (since[s] + 1)..Len(table) :
     connected[s] /\ Wants(s, id) => \/ id \in ToSet(Received(s))
                                     \/ id \in dropped[s]
                                     \/ Coming(s, id)

(* Each stream gets the rows of one request in the order of their ids, and *)
(* none twice; rows of different requests may be swapped.                  *)
InOrder ==
  \A s \in Streams : \A p, q \in DOMAIN Received(s) :
     LET a == Received(s)[p]
         b == Received(s)[q]
     IN  p < q /\ table[a].by = table[b].by => a < b

Stored(i) == {n \in DOMAIN table : table[n].by = i}

(* The answer {"ingested": n} is the number of entries that were stored.   *)
IngestedAreStored ==
  \A i \in Ingesters : ipc[i] = "done" => ingested[i] = Cardinality(Stored(i))

(* No client can hold up the ingestion of logs: every request is answered, *)
(* even if the clients of all streams stop reading.                        *)
IngestReturns == \A i \in Ingesters : ipc[i] = "next" ~> ipc[i] = "done"

(* A stream whose client has left gives up its subscription and closes.    *)
StreamEnds ==
  \A s \in Streams : spc[s] = "loop" /\ ~connected[s] ~> spc[s] = "closed"
=============================================================================
