---------------------------- MODULE TracesProofs ----------------------------
(***************************************************************************)
(* Theorems about Traces: its variables keep their types, and what a call  *)
(* of saveTransaction stored stays complete.                               *)
(***************************************************************************)
EXTENDS Traces, TLAPS

-----------------------------------------------------------------------------
(* Types                                                                   *)

LEMMA HeadTx ==
  ASSUME TypeOK, NEW r \in Requests, rpc[r] \in {"transaction", "spans"}
  PROVE  /\ Head(body[r]) \in Tx
         /\ Tail(body[r]) \in Seq(Tx)
         /\ Len(body[r]) # 1 => Tail(body[r]) # <<>>
         /\ IdOf(r) \in Ids
<1>1. body[r] \in Seq(Tx) /\ body[r] # <<>>
  BY DEF TypeOK
<1>2. Head(body[r]) \in Tx /\ Tail(body[r]) \in Seq(Tx)
  BY <1>1
<1>3. ASSUME Tail(body[r]) = <<>> PROVE Len(body[r]) = 1
  <2>1. Len(body[r]) \in Nat /\ Len(Tail(body[r])) = Len(body[r]) - 1
    BY <1>1
  <2>2. Len(<<>>) = 0
    OBVIOUS
  <2>3. Len(Tail(body[r])) = 0
    BY <1>3, <2>2, Zenon
  <2>4. QED
    BY <2>1, <2>3
<1>4. IdOf(r) \in Ids
  BY <1>2 DEF IdOf, Tx, Ids
<1>5. QED
  BY <1>2, <1>3, <1>4

LEMMA RequestTypes ==
  ASSUME TypeOK, NEW r \in Requests, Request(r)
  PROVE  TypeOK'
<1>1. ASSUME NEW b \in Bodies, Post(r, b) PROVE TypeOK'
  <2>1. b \in Seq(Tx) /\ b # <<>>
    BY TracesAssumption
  <2>2. QED
    BY <1>1, <2>1 DEF Post, TypeOK, history
<1>2. CASE InsertTransaction(r)
  <2>1. Head(body[r]).spans \in Seq(SpanIds \cup {NoId}) /\ IdOf(r) \in Ids
    BY <1>2, HeadTx DEF InsertTransaction, Tx
  <2>2. QED
    BY <1>2, <2>1 DEF InsertTransaction, TypeOK, history
<1>3. CASE InsertFails(r) \/ Finish(r)
  <2>1. Tail(body[r]) \in Seq(Tx) /\ (Len(body[r]) # 1 => Tail(body[r]) # <<>>) /\ IdOf(r) \in Ids
    BY <1>3, HeadTx DEF InsertFails, Finish
  <2>2. saved' \subseteq [id : Ids, spans : SUBSET SpanIds]
    BY <1>3, <2>1 DEF InsertFails, Finish, TypeOK
  <2>3. body' \in [Requests -> Seq(Tx)]
    BY <1>3, <2>1 DEF InsertFails, Finish, Leave, TypeOK
  <2>4. \A q \in Requests : rpc'[q] \in {"transaction", "spans"} => body'[q] # <<>>
    BY <1>3, <2>1 DEF InsertFails, Finish, Leave, TypeOK
  <2>5. /\ rpc' \in [Requests -> {"idle", "transaction", "spans", "done"}]
        /\ stored' \in [Requests -> SUBSET SpanIds]
        /\ disturbed' \in [Requests -> BOOLEAN]
    BY <1>3 DEF InsertFails, Finish, Leave, TypeOK
  <2>6. UNCHANGED <<transactions, spans, todo, cpc>>
    BY <1>3 DEF InsertFails, Finish
  <2>7. QED
    BY <2>2, <2>3, <2>4, <2>5, <2>6 DEF TypeOK
<1>4. CASE InsertSpan(r)
  <2>1. Tail(todo[r]) \in Seq(SpanIds \cup {NoId}) /\ IdOf(r) \in Ids
    BY <1>4, HeadTx DEF InsertSpan, TypeOK
  <2>2. QED
    BY <1>4, <2>1 DEF InsertSpan, Owner, TypeOK
<1>5. CASE SkipSpan(r) \/ SpanFails(r)
  <2>1. Tail(todo[r]) \in Seq(SpanIds \cup {NoId})
    BY <1>5 DEF SkipSpan, SpanFails, TypeOK
  <2>2. QED
    BY <1>5, <2>1 DEF SkipSpan, SpanFails, TypeOK, history
<1>6. QED
  BY <1>1, <1>2, <1>3, <1>4, <1>5 DEF Request

LEMMA CleanerTypes ==
  ASSUME TypeOK, Cleaner \/ Crash
  PROVE  TypeOK'
<1>1. CASE Wake \/ DeleteOldFails \/ DeleteOrphansFails
  BY <1>1 DEF Wake, DeleteOldFails, AfterError, DeleteOrphansFails, TypeOK, request, history
<1>2. ASSUME NEW X \in SUBSET Ids, DeleteOld(X) PROVE TypeOK'
  BY <1>2 DEF DeleteOld, TypeOK, request
<1>3. CASE DeleteOrphans
  BY <1>3 DEF DeleteOrphans, TypeOK, request, history
<1>4. CASE Crash
  BY <1>4 DEF Crash, InFlight, TypeOK
<1>5. QED
  BY <1>1, <1>2, <1>3, <1>4 DEF Cleaner, TryDeleteOld

(* TypeOK: every variable of the model keeps its type, and a request that  *)
(* is inside saveTransaction has a transaction to save.                    *)
THEOREM TraceTypes == Spec => []TypeOK
<1>1. Init => TypeOK
  BY DEF Init, TypeOK
<1>2. TypeOK /\ [Next]_vars => TypeOK'
  <2> SUFFICES ASSUME TypeOK, [Next]_vars PROVE TypeOK'
    OBVIOUS
  <2>1. CASE UNCHANGED vars
    BY <2>1 DEF vars, request, history, TypeOK
  <2>2. CASE Next
    BY <2>2, RequestTypes, CleanerTypes DEF Next
  <2>3. QED
    BY <2>1, <2>2
<1>3. QED
  BY <1>1, <1>2, PTL DEF Spec

-----------------------------------------------------------------------------
(* Completeness: the invariant                                             *)

(* A call has history only while it writes spans.                          *)
Fresh == \A r \in Requests : rpc[r] # "spans" => stored[r] = {} /\ ~disturbed[r]

CompleteInv == TypeOK /\ Fresh /\ StoringIsComplete /\ SavedIsComplete

LEMMA RequestKeeps ==
  ASSUME CompleteInv, NEW r \in Requests, Request(r)
  PROVE  Fresh' /\ StoringIsComplete' /\ SavedIsComplete'
<1> USE DEF CompleteInv
<1>1. ASSUME NEW b \in Bodies, Post(r, b)
      PROVE  Fresh' /\ StoringIsComplete' /\ SavedIsComplete'
  <2>1. Fresh' /\ SavedIsComplete'
    BY <1>1 DEF Post, history, TypeOK, Fresh, SavedIsComplete
  <2>2. ASSUME NEW q \in Requests, rpc'[q] = "spans" PROVE rpc[q] = "spans" /\ IdOf(q)' = IdOf(q)
    BY <1>1, <2>2 DEF Post, TypeOK, IdOf
  <2>3. QED
    BY <1>1, <2>1, <2>2 DEF Post, history, StoringIsComplete
<1>2. CASE InsertTransaction(r)
  <2>1. \A q \in Requests : IdOf(q)' = IdOf(q)
    BY <1>2 DEF InsertTransaction, IdOf
  <2>2. Fresh' /\ SavedIsComplete'
    BY <1>2 DEF InsertTransaction, history, TypeOK, Fresh, SavedIsComplete
  <2>3. StoringIsComplete'
    BY <1>2, <2>1 DEF InsertTransaction, history, TypeOK, Fresh, StoringIsComplete
  <2>4. QED
    BY <2>2, <2>3
<1>3. CASE InsertFails(r) \/ Finish(r)
  <2>1. UNCHANGED <<transactions, spans>> /\ Leave(r)
    BY <1>3 DEF InsertFails, Finish
  <2>2. Fresh'
    BY <2>1 DEF Leave, TypeOK, Fresh
  <2>3. ASSUME NEW q \in Requests, rpc'[q] = "spans"
        PROVE  /\ rpc[q] = "spans" /\ IdOf(q)' = IdOf(q)
               /\ stored'[q] = stored[q] /\ disturbed'[q] = disturbed[q]
    BY <2>1, <2>3 DEF Leave, TypeOK, IdOf
  <2>4. StoringIsComplete'
    BY <2>1, <2>3 DEF StoringIsComplete
  <2>5. \A x \in saved' : x \in saved \/ (rpc[r] = "spans" /\ ~disturbed[r]
                                             /\ x = [id |-> IdOf(r), spans |-> stored[r]])
    BY <1>3 DEF InsertFails, Finish
  <2>6. SavedIsComplete'
    BY <2>1, <2>5 DEF SavedIsComplete, StoringIsComplete
  <2>7. QED
    BY <2>2, <2>4, <2>6
<1>4. CASE InsertSpan(r)
  <2>1. \A q \in Requests : IdOf(q)' = IdOf(q)
    BY <1>4 DEF InsertSpan, IdOf
  <2>2. \A s \in SpanIds : spans[s] # NoId => spans'[s] = spans[s]
    BY <1>4 DEF InsertSpan, Owner, TypeOK
  <2>3. Fresh'
    BY <1>4 DEF InsertSpan, TypeOK, Fresh
  <2>4. SavedIsComplete'
    <3>1. ASSUME NEW x \in saved, NEW s \in x.spans PROVE spans'[s] = x.id
      <4>1. spans[s] = x.id /\ x.id \in Ids /\ s \in SpanIds
        BY <3>1 DEF SavedIsComplete, TypeOK
      <4>2. QED
        BY <2>2, <4>1, TracesAssumption
    <3>2. QED
      BY <1>4, <3>1 DEF InsertSpan, SavedIsComplete
  <2>5. ASSUME NEW q \in Requests, rpc[q] = "spans", ~disturbed[q], NEW s \in stored'[q]
        PROVE  spans'[s] = IdOf(q)
    <3>1. CASE s \in stored[q]
      <4>1. spans[s] = IdOf(q) /\ s \in SpanIds
        BY <2>5, <3>1 DEF StoringIsComplete, TypeOK
      <4>2. IdOf(q) # NoId
        BY <2>5, HeadTx, TracesAssumption
      <4>3. QED
        BY <2>2, <4>1, <4>2
    <3>2. CASE s \notin stored[q]
      BY <1>4, <2>5, <3>2 DEF InsertSpan, TypeOK
    <3>3. QED
      BY <3>1, <3>2
  <2>6. StoringIsComplete'
    BY <1>4, <2>1, <2>5 DEF InsertSpan, StoringIsComplete
  <2>7. QED
    BY <2>3, <2>4, <2>6
<1>5. CASE SkipSpan(r) \/ SpanFails(r)
  <2>1. \A q \in Requests : IdOf(q)' = IdOf(q)
    BY <1>5 DEF SkipSpan, SpanFails, IdOf
  <2>2. \A q \in Requests : ~disturbed'[q] => ~disturbed[q]
    BY <1>5 DEF SkipSpan, SpanFails, TypeOK, history
  <2>3. Fresh' /\ SavedIsComplete'
    BY <1>5 DEF SkipSpan, SpanFails, TypeOK, history, Fresh, SavedIsComplete
  <2>4. StoringIsComplete'
    BY <1>5, <2>1, <2>2 DEF SkipSpan, SpanFails, history, StoringIsComplete
  <2>5. QED
    BY <2>3, <2>4
<1>6. QED
  BY <1>1, <1>2, <1>3, <1>4, <1>5 DEF Request

LEMMA CleanerKeeps ==
  ASSUME CompleteInv, Cleaner \/ Crash
  PROVE  Fresh' /\ StoringIsComplete' /\ SavedIsComplete'
<1> USE DEF CompleteInv
<1>1. CASE Wake \/ DeleteOldFails \/ DeleteOrphansFails
  BY <1>1 DEF Wake, DeleteOldFails, DeleteOrphansFails, request, history,
              Fresh, StoringIsComplete, SavedIsComplete, IdOf
<1>2. ASSUME NEW X \in SUBSET Ids, DeleteOld(X)
      PROVE  Fresh' /\ StoringIsComplete' /\ SavedIsComplete'
  BY <1>2 DEF DeleteOld, request, Fresh, StoringIsComplete, SavedIsComplete, IdOf
<1>3. CASE DeleteOrphans
  <2>1. \A s \in SpanIds : spans[s] \in transactions => spans'[s] = spans[s]
    BY <1>3 DEF DeleteOrphans, Orphan
  <2>2. SavedIsComplete'
    BY <1>3, <2>1 DEF DeleteOrphans, history, TypeOK, SavedIsComplete
  <2>3. StoringIsComplete'
    BY <1>3, <2>1 DEF DeleteOrphans, request, history, TypeOK, StoringIsComplete, IdOf
  <2>4. Fresh'
    BY <1>3 DEF DeleteOrphans, request, history, Fresh
  <2>5. QED
    BY <2>2, <2>3, <2>4
<1>4. CASE Crash
  BY <1>4 DEF Crash, InFlight, Fresh, StoringIsComplete, SavedIsComplete
<1>5. QED
  BY <1>1, <1>2, <1>3, <1>4 DEF Cleaner, TryDeleteOld

(* SavedIsComplete: whatever arrives twice, with a foreign id or while the *)
(* cleaner runs, a transaction that saveTransaction stored without an      *)
(* error keeps every span it stored until the cleaner deletes it.          *)
THEOREM SavedStaysComplete == Spec => []SavedIsComplete
<1>1. Init => CompleteInv
  BY DEF Init, CompleteInv, TypeOK, Fresh, StoringIsComplete, SavedIsComplete
<1>2. CompleteInv /\ [Next]_vars => CompleteInv'
  <2> SUFFICES ASSUME CompleteInv, [Next]_vars PROVE CompleteInv'
    OBVIOUS
  <2>1. CASE UNCHANGED vars
    BY <2>1 DEF vars, request, history, CompleteInv, TypeOK, Fresh,
                StoringIsComplete, SavedIsComplete, IdOf
  <2>2. CASE Next
    <3>1. TypeOK'
      BY <2>2, RequestTypes, CleanerTypes DEF Next, CompleteInv
    <3>2. Fresh' /\ StoringIsComplete' /\ SavedIsComplete'
      BY <2>2, RequestKeeps, CleanerKeeps DEF Next
    <3>3. QED
      BY <3>1, <3>2 DEF CompleteInv
  <2>3. QED
    BY <2>1, <2>2
<1>3. CompleteInv => SavedIsComplete
  BY DEF CompleteInv
<1>4. QED
  BY <1>1, <1>2, <1>3, PTL DEF Spec
=============================================================================
