------------------------------- MODULE Traces -------------------------------
(***************************************************************************)
(* Performance monitoring: saveTransaction writes a transaction and then   *)
(* its spans, one statement each, for envelopes and for OTLP requests; the *)
(* cleaner deletes old transactions and then the spans left without one.   *)
(* Clients send an envelope again when the answer did not reach them.      *)
(***************************************************************************)
EXTENDS Naturals, Sequences, FiniteSets

CONSTANTS
  Requests,      \* POST /envelope/ and /v1/traces, one goroutine each
  TraceIds,      \* event ids and OTLP trace ids
  NoId,          \* the empty string
  Generated,     \* Generated[r]: the UUID that request r makes up
  SpanIds,
  Bodies         \* what clients may post: sequences of transactions

Ids == TraceIds \cup {Generated[r] : r \in Requests}

(* An envelope holds one transaction with its spans; an OTLP body becomes  *)
(* a transaction without spans for each of its spans.                      *)
Tx == [id : TraceIds \cup {NoId}, spans : Seq(SpanIds \cup {NoId})]

ASSUME TracesAssumption ==
  /\ NoId \notin Ids /\ NoId \notin SpanIds
  /\ \A q, r \in Requests : Generated[q] = Generated[r] => q = r
  /\ \A r \in Requests : Generated[r] \notin TraceIds
  /\ \A b \in Bodies : b # <<>> /\ b \in Seq(Tx)

VARIABLES
  transactions,  \* ids of the rows in transactions
  spans,         \* transaction_id of each row in spans, NoId without a row
  rpc,           \* where each request is
  body,          \* the transactions it has still to save
  todo,          \* the spans of the first of them still to insert
  cpc,           \* where the cleaner is
  stored,        \* history: spans each request stored, or found stored, as its own
  disturbed,     \* history: a statement failed, or the cleaner took its transaction
  saved          \* history: what undisturbed calls of saveTransaction left

request == <<rpc, body, todo>>
history == <<stored, disturbed, saved>>
vars    == <<transactions, spans, request, cpc, history>>

Init ==
  /\ transactions = {}
  /\ spans = [s \in SpanIds |-> NoId]
  /\ rpc = [r \in Requests |-> "idle"]
  /\ body = [r \in Requests |-> <<>>]
  /\ todo = [r \in Requests |-> <<>>]
  /\ cpc = "sleep"
  /\ stored = [r \in Requests |-> {}]
  /\ disturbed = [r \in Requests |-> FALSE]
  /\ saved = {}

-----------------------------------------------------------------------------
(* saveTransaction, for every transaction of a request                     *)

Post(r, b) ==
  /\ rpc[r] = "idle"
  /\ rpc' = [rpc EXCEPT ![r] = "transaction"]
  /\ body' = [body EXCEPT ![r] = b]
  /\ UNCHANGED <<transactions, spans, todo, cpc, history>>

IdOf(r) == IF Head(body[r]).id = NoId THEN Generated[r] ELSE Head(body[r]).id

(* INSERT OR IGNORE; then come the spans.                                  *)
InsertTransaction(r) ==
  /\ rpc[r] = "transaction"
  /\ transactions' = transactions \cup {IdOf(r)}
  /\ todo' = [todo EXCEPT ![r] = Head(body[r]).spans]
  /\ rpc' = [rpc EXCEPT ![r] = "spans"]
  /\ UNCHANGED <<spans, body, cpc, history>>

(* saveTransaction returns; the OTLP handler goes on with the next one and *)
(* counts each as ingested, whatever became of it.                         *)
Leave(r) ==
  /\ body' = [body EXCEPT ![r] = Tail(@)]
  /\ rpc' = [rpc EXCEPT ![r] = IF Len(body[r]) = 1 THEN "done" ELSE "transaction"]
  /\ stored' = [stored EXCEPT ![r] = {}]
  /\ disturbed' = [disturbed EXCEPT ![r] = FALSE]

InsertFails(r) ==
  /\ rpc[r] = "transaction"
  /\ Leave(r)
  /\ UNCHANGED <<transactions, spans, todo, cpc, saved>>

(* INSERT OR IGNORE: a span id that is taken keeps its transaction; the    *)
(* mutant is INSERT OR REPLACE.                                            *)
Owner_replaced(s, id) == id
Owner(s, id) == IF spans[s] = NoId THEN id ELSE spans[s]

InsertSpan(r) ==
  LET s == Head(todo[r])
  IN  /\ rpc[r] = "spans" /\ todo[r] # <<>> /\ s # NoId
      /\ spans' = [spans EXCEPT ![s] = Owner(s, IdOf(r))]
      /\ todo' = [todo EXCEPT ![r] = Tail(@)]
      /\ stored' = [stored EXCEPT ![r] = @ \cup ({s} \cap {x \in SpanIds : spans'[x] = IdOf(r)})]
      /\ UNCHANGED <<transactions, rpc, body, cpc, disturbed, saved>>

SkipSpan(r) ==
  /\ rpc[r] = "spans" /\ todo[r] # <<>> /\ Head(todo[r]) = NoId
  /\ todo' = [todo EXCEPT ![r] = Tail(@)]
  /\ UNCHANGED <<transactions, spans, rpc, body, cpc, history>>

(* The error of a span is ignored.                                         *)
SpanFails(r) ==
  /\ rpc[r] = "spans" /\ todo[r] # <<>> /\ Head(todo[r]) # NoId
  /\ todo' = [todo EXCEPT ![r] = Tail(@)]
  /\ disturbed' = [disturbed EXCEPT ![r] = TRUE]
  /\ UNCHANGED <<transactions, spans, rpc, body, cpc, stored, saved>>

Finish(r) ==
  /\ rpc[r] = "spans" /\ todo[r] = <<>>
  /\ Leave(r)
  /\ saved' = IF disturbed[r] THEN saved
              ELSE saved \cup {[id |-> IdOf(r), spans |-> stored[r]]}
  /\ UNCHANGED <<transactions, spans, todo, cpc>>

-----------------------------------------------------------------------------
(* The cleaner, and crashes                                                *)

Wake ==
  /\ cpc = "sleep"
  /\ cpc' = "old"
  /\ UNCHANGED <<transactions, spans, request, history>>

(* Clients choose the timestamps, so any transactions may be old.          *)
DeleteOld(X) ==
  /\ cpc = "old"
  /\ transactions' = transactions \ X
  /\ disturbed' = [r \in Requests |->
        disturbed[r] \/ (rpc[r] = "spans" /\ IdOf(r) \in X)]
  /\ saved' = {x \in saved : x.id \notin X}
  /\ cpc' = "spans"
  /\ UNCHANGED <<spans, request, stored>>

(* An error is logged, and the spans are looked at all the same; the       *)
(* mutant gives up for this hour.                                          *)
AfterError_givesUp == "sleep"
AfterError == "spans"
DeleteOldFails ==
  /\ cpc = "old"
  /\ cpc' = AfterError
  /\ UNCHANGED <<transactions, spans, request, history>>

Orphan(s) == spans[s] # NoId /\ spans[s] \notin transactions
DeleteOrphans ==
  /\ cpc = "spans"
  /\ spans' = [s \in SpanIds |-> IF Orphan(s) THEN NoId ELSE spans[s]]
  /\ cpc' = "sleep"
  /\ UNCHANGED <<transactions, request, history>>

DeleteOrphansFails ==
  /\ cpc = "spans"
  /\ cpc' = "sleep"
  /\ UNCHANGED <<transactions, spans, request, history>>

InFlight == {r \in Requests : rpc[r] \in {"transaction", "spans"}}
Crash ==
  /\ InFlight # {} \/ cpc # "sleep"
  /\ rpc' = [r \in Requests |-> IF r \in InFlight THEN "done" ELSE rpc[r]]
  /\ body' = [r \in Requests |-> <<>>] /\ todo' = [r \in Requests |-> <<>>]
  /\ cpc' = "sleep"
  /\ stored' = [r \in Requests |-> {}]
  /\ disturbed' = [r \in Requests |-> FALSE]
  /\ UNCHANGED <<transactions, spans, saved>>

-----------------------------------------------------------------------------
Request(r) == (\E b \in Bodies : Post(r, b)) \/ InsertTransaction(r) \/ InsertFails(r)
              \/ InsertSpan(r) \/ SkipSpan(r) \/ SpanFails(r) \/ Finish(r)
TryDeleteOld == (\E X \in SUBSET Ids : DeleteOld(X)) \/ DeleteOldFails
Cleaner == Wake \/ TryDeleteOld \/ DeleteOrphans \/ DeleteOrphansFails

Next == (\E r \in Requests : Request(r)) \/ Cleaner \/ Crash

Spec == Init /\ [][Next]_vars

(* The ticker wakes the cleaner every hour; the process does not die in    *)
(* every round before its first statement, and the second one, tried again *)
(* and again, does not fail for ever.  The first may.                      *)
FairSpec == Spec /\ WF_vars(Cleaner) /\ SF_vars(TryDeleteOld) /\ SF_vars(DeleteOrphans)

-----------------------------------------------------------------------------
(* Properties                                                              *)

TypeOK ==
  /\ transactions \subseteq Ids
  /\ spans \in [SpanIds -> Ids \cup {NoId}]
  /\ rpc \in [Requests -> {"idle", "transaction", "spans", "done"}]
  /\ body \in [Requests -> Seq(Tx)] /\ todo \in [Requests -> Seq(SpanIds \cup {NoId})]
  /\ \A r \in Requests : rpc[r] \in {"transaction", "spans"} => body[r] # <<>>
  /\ cpc \in {"sleep", "old", "spans"}
  /\ stored \in [Requests -> SUBSET SpanIds]
  /\ disturbed \in [Requests -> BOOLEAN]
  /\ saved \subseteq [id : Ids, spans : SUBSET SpanIds]

(* No transaction covers the rows of one saveTransaction.  Still, what a   *)
(* call has stored without an error is complete until the cleaner deletes  *)
(* the transaction itself: the transaction comes first, so the cleaner     *)
(* never takes its spans for orphans, and no other request, not even one   *)
(* that delivers the same ids again, takes them away.                      *)
SavedIsComplete ==
  \A x \in saved : x.id \in transactions /\ \A s \in x.spans : spans[s] = x.id

(* It holds while the spans are being written, too.                        *)
StoringIsComplete ==
  \A r \in Requests : rpc[r] = "spans" /\ ~disturbed[r] =>
     IdOf(r) \in transactions /\ \A s \in stored[r] : spans[s] = IdOf(r)

(* README.md:237: spans whose transaction was deleted under the hands of   *)
(* saveTransaction, or in a round that failed half way, do not pile up.    *)
OrphansGo == \A s \in SpanIds : Orphan(s) ~> ~Orphan(s)
=============================================================================
