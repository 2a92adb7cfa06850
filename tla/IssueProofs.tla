---------------------------- MODULE IssueProofs ----------------------------
(***************************************************************************)
(* Theorems about IssueStore, for every value of its constants; and, at    *)
(* the end, about Alerts: it is IssueStore with more detail, and the alert *)
(* decision of IssueStore reaches the webhooks.                            *)
(***************************************************************************)
EXTENDS Alerts, FiniteSetTheorems, TLAPS

USE DEF Present, StatusOf

-----------------------------------------------------------------------------
(* What the statement writes is a row.                                     *)

(* Whatever an event merges into a row is a row with one hit more.         *)
LEMMA MergeType ==
  ASSUME NEW row \in Row, NEW e \in Event, NEW t \in Nat
  PROVE  Merge(row, e, t) \in Row
<1>1. row.count + 1 \in Nat \ {0}
  BY DEF Row
<1>2. QED
  BY <1>1 DEF Merge, Row, Event, Status

(* The upsert of an event leaves a row under its key.                      *)
LEMMA StoredType ==
  ASSUME TypeOK, NEW e \in Event, NEW t \in Nat
  PROVE  Stored(e, t) \in Row
<1>1. CASE Present(e.key)
  <2>1. rows[e.key] \in Row
    BY <1>1 DEF TypeOK, Event
  <2>2. QED
    BY <1>1, <2>1, MergeType DEF Stored
<1>2. CASE ~Present(e.key)
  BY <1>2 DEF Stored, FirstRow, Row, Event, Status
<1>3. QED
  BY <1>1, <1>2

-----------------------------------------------------------------------------
(* Type correctness                                                        *)

(* The locals of a call that returns are reset to values of their types.   *)
LEMMA ReturnType ==
  ASSUME TypeOK, NEW D \in SUBSET Deliveries, Return(D)
  PROVE  /\ ev' = ev /\ purged' = purged /\ how' = how /\ baseline' = baseline
         /\ stamp' \in [Deliveries -> Nat]
         /\ old' \in [Deliveries -> Old]
         /\ should' \in [Deliveries -> BOOLEAN]
         /\ opened' \in [Deliveries -> BOOLEAN]
         /\ meddled' \in [Deliveries -> BOOLEAN]
         /\ contended' \in [Deliveries -> BOOLEAN]
  BY DEF TypeOK, Return, Old

(* The history of an operator's or the cleaner's write keeps its type.     *)
LEMMA MeddleType ==
  ASSUME TypeOK, NEW S
  PROVE  Meddle(S) \in [Deliveries -> BOOLEAN]
  BY DEF TypeOK, Meddle

LEMMA ReturnLocals ==
  ASSUME NEW D, Return(D), NEW c \in Deliveries, c \notin D
  PROVE  /\ stamp'[c] = stamp[c] /\ old'[c] = old[c] /\ should'[c] = should[c]
         /\ opened'[c] = opened[c] /\ meddled'[c] = meddled[c]
         /\ contended'[c] = contended[c]
  BY Zenon DEF Return

LEMMA InitType == Init => TypeOK
  BY ConstantsAssumption DEF Init, TypeOK, PC, Old

LEMMA ReceiveType ==
  ASSUME TypeOK, NEW d \in Deliveries, NEW e \in Events, Receive(d, e)
  PROVE  TypeOK'
<1>1. e \in Event
  BY ConstantsAssumption
<1>2. e.ts \in Nat
  BY <1>1 DEF Event
<1>3. QED
  BY <1>2 DEF TypeOK, Receive, history, PC

LEMMA LookupType ==
  ASSUME TypeOK, NEW d \in Deliveries, Lookup(d)
  PROVE  TypeOK'
<1>1. ev[d] \in Event
  BY ConstantsAssumption DEF TypeOK, Lookup
<1>2. PICK found \in Old : old' = [old EXCEPT ![d] = found]
  BY <1>1 DEF TypeOK, Lookup, Old, Row, Event
<1>3. QED
  BY <1>2 DEF TypeOK, Lookup, history, PC

LEMMA UpsertType ==
  ASSUME TypeOK, NEW d \in Deliveries, Upsert(d)
  PROVE  TypeOK'
<1>1. ev[d] \in Event /\ stamp[d] \in Nat
  BY ConstantsAssumption DEF TypeOK, Upsert
<1>2. Stored(ev[d], stamp[d]) \in Row
  BY <1>1, StoredType
<1>3. rows' \in [Keys -> Row \cup {NoRow}]
  BY <1>1, <1>2 DEF TypeOK, Upsert, Event
<1>4. /\ should' \in [Deliveries -> BOOLEAN]
      /\ opened' \in [Deliveries -> BOOLEAN]
      /\ contended' \in [Deliveries -> BOOLEAN]
  BY DEF TypeOK, Upsert, ShouldNotify
<1>5. QED
  BY <1>3, <1>4 DEF TypeOK, Upsert, PC

LEMMA FinishType ==
  ASSUME TypeOK, NEW d \in Deliveries, UpsertFails(d) \/ Notify(d)
  PROVE  TypeOK'
<1>1. Return({d})
  BY DEF UpsertFails, Notify
<1>2. QED
  BY <1>1, ReturnType DEF TypeOK, UpsertFails, Notify, PC

LEMMA CrashType == TypeOK /\ Crash => TypeOK'
<1> SUFFICES ASSUME TypeOK, Crash PROVE TypeOK'
  OBVIOUS
<1>1. InFlight \in SUBSET Deliveries /\ Return(InFlight)
  BY DEF Crash, InFlight
<1>2. pc' \in [Deliveries -> PC]
  BY DEF TypeOK, Crash, PC
<1>3. \A d \in Deliveries : pc'[d] # "idle" => ev[d] \in Events
  BY DEF TypeOK, Crash, InFlight, Running
<1>4. QED
  BY <1>1, <1>2, <1>3, ReturnType DEF TypeOK, Crash

LEMMA ResolveType ==
  ASSUME TypeOK, NEW id \in Ids, NEW next \in BOOLEAN, Resolve(id, next)
  PROVE  TypeOK'
<1> DEFINE hit == {k \in Keys : HasId(k, id)}
<1>1. \A k \in hit : rows[k] \in Row
  BY DEF TypeOK, HasId
<1>2. rows' \in [Keys -> Row \cup {NoRow}]
  <2>1. \A k \in hit : [rows[k] EXCEPT !.status = "resolved", !.gate = next] \in Row
    BY <1>1 DEF Row, Status
  <2> HIDE DEF hit
  <2>2. rows' = [k \in Keys |-> IF k \in hit
                  THEN [rows[k] EXCEPT !.status = "resolved", !.gate = next] ELSE rows[k]]
    BY DEF Resolve, hit
  <2>3. QED
    BY <2>1, <2>2 DEF TypeOK
<1>3. meddled' \in [Deliveries -> BOOLEAN]
  BY MeddleType DEF Resolve
<1>4. how' \in [Keys -> {"never", "plain", "next"}]
  BY DEF TypeOK, Resolve
<1>5. baseline' \in [Keys -> SUBSET Releases]
  <2>1. \A k \in hit : {rows[k].release} \in SUBSET Releases
    BY <1>1 DEF Row
  <2> HIDE DEF hit
  <2>2. baseline' = [k \in Keys |-> IF k \in hit THEN {rows[k].release} ELSE baseline[k]]
    BY DEF Resolve, hit
  <2>3. QED
    BY <2>1, <2>2 DEF TypeOK
<1>6. QED
  BY <1>2, <1>3, <1>4, <1>5 DEF TypeOK, Resolve, call

LEMMA SnoozeType ==
  ASSUME TypeOK, NEW id \in Ids, NEW duration \in Durations, Snooze(id, duration)
  PROVE  TypeOK'
<1> DEFINE hit == {k \in Keys : HasId(k, id)}
<1>1. \A k \in hit : rows[k] \in Row
  BY DEF TypeOK, HasId
<1>2. now + duration \in Nat
  BY ConstantsAssumption DEF TypeOK
<1>3. rows' \in [Keys -> Row \cup {NoRow}]
  <2>1. \A k \in hit : [rows[k] EXCEPT !.status = "snoozed", !.until = now + duration] \in Row
    BY <1>1, <1>2 DEF Row, Status
  <2> HIDE DEF hit
  <2>2. rows' = [k \in Keys |-> IF k \in hit
                  THEN [rows[k] EXCEPT !.status = "snoozed", !.until = now + duration]
                  ELSE rows[k]]
    BY DEF Snooze, hit
  <2>3. QED
    BY <2>1, <2>2 DEF TypeOK
<1>4. meddled' \in [Deliveries -> BOOLEAN]
  BY MeddleType DEF Snooze
<1>5. QED
  BY <1>3, <1>4 DEF TypeOK, Snooze, call

LEMMA TelegramResolveType ==
  ASSUME TypeOK, NEW id \in Ids, TelegramResolve(id)
  PROVE  TypeOK'
<1> DEFINE hit == {k \in Keys : HasId(k, id)}
<1>1. \A k \in hit : rows[k] \in Row
  BY DEF TypeOK, HasId
<1>2. rows' \in [Keys -> Row \cup {NoRow}]
  BY <1>1 DEF TypeOK, TelegramResolve, Row, Status
<1>3. meddled' \in [Deliveries -> BOOLEAN]
  BY MeddleType DEF TelegramResolve
<1>4. how' \in [Keys -> {"never", "plain", "next"}]
  BY DEF TypeOK, TelegramResolve
<1>5. QED
  BY <1>2, <1>3, <1>4 DEF TypeOK, TelegramResolve, call

LEMMA DeleteType ==
  ASSUME TypeOK, NEW S \in SUBSET Keys, Delete(S)
  PROVE  TypeOK'
<1>1. meddled' \in [Deliveries -> BOOLEAN]
  BY MeddleType DEF Delete
<1>2. QED
  BY <1>1 DEF TypeOK, Delete, call

(* The steps of Next, once and for all: a state predicate that every one   *)
(* of them preserves is preserved by [Next]_vars.                          *)
LEMMA NextType == TypeOK /\ [Next]_vars => TypeOK'
<1> SUFFICES ASSUME TypeOK, [Next]_vars PROVE TypeOK'
  OBVIOUS
<1>1. ASSUME NEW d \in Deliveries, NEW e \in Events, Receive(d, e) PROVE TypeOK'
  BY <1>1, ReceiveType
<1>2. ASSUME NEW d \in Deliveries, SaveEventStep(d) PROVE TypeOK'
  BY <1>2, LookupType, UpsertType, FinishType DEF SaveEventStep
<1>3. CASE Crash
  BY <1>3, CrashType
<1>4. CASE Operator
  BY <1>4, ResolveType, SnoozeType, TelegramResolveType DEF Operator
<1>5. CASE RetentionCleanup
  <2>1. Expired \in SUBSET Keys /\ Delete(Expired)
    BY <1>5 DEF RetentionCleanup, Expired
  <2>2. QED
    BY <2>1, DeleteType
<1>6. ASSUME NEW p \in Projects, DeleteProjectEvents(p) PROVE TypeOK'
  BY <1>6, DeleteType DEF DeleteProjectEvents
<1>7. CASE Tick
  BY <1>7 DEF Tick, TypeOK, call, history
<1>8. CASE UNCHANGED vars
  BY <1>8 DEF TypeOK, vars, call, history
<1>9. QED
  BY <1>1, <1>2, <1>3, <1>4, <1>5, <1>6, <1>7, <1>8 DEF Next

(* The variables of the store always have their types: in particular every *)
(* row has a status the code knows and a positive hit counter.             *)
THEOREM TypeCorrect == Spec => []TypeOK
<1>1. QED
  BY InitType, NextType, PTL DEF Spec

-----------------------------------------------------------------------------
(* The alert decision                                                      *)

AlertInv == Undisturbed /\ NoSilentOpening /\ NoSpuriousAlert

(* An event keeps an open issue open.                                      *)
LEMMA MergeOpen ==
  ASSUME NEW row \in Row, NEW e, NEW t, row.status = "unresolved"
  PROVE  Merge(row, e, t).status = "unresolved"
  BY DEF Merge, Row, HeldByGate, HeldBySnooze

(* The first event of a key makes an open issue.                           *)
LEMMA FirstOpen == \A e, t : FirstRow(e, t).status = "unresolved"
  BY DEF FirstRow

(* A writer that records in meddled the keys it touches preserves it.      *)
LEMMA MeddlingAlert ==
  ASSUME TypeOK, AlertInv, NEW S,
         meddled' = Meddle(S),
         \A k \in Keys \ S : rows'[k] = rows[k],
         UNCHANGED <<call, opened, contended>>
  PROVE  AlertInv'
<1>1. \A d \in Deliveries : pc[d] # "idle" => ev[d].key \in Keys
  BY ConstantsAssumption DEF TypeOK, Event
<1>2. Undisturbed'
  BY <1>1 DEF AlertInv, Undisturbed, Meddle, call
<1>3. NoSilentOpening' /\ NoSpuriousAlert'
  BY DEF AlertInv, NoSilentOpening, NoSpuriousAlert, Meddle, call
<1>4. QED
  BY <1>2, <1>3 DEF AlertInv

LEMMA UpsertAlert ==
  ASSUME TypeOK, AlertInv, NEW d \in Deliveries, Upsert(d)
  PROVE  AlertInv'
<1> DEFINE e == ev[d]
           k == e.key
           row == Stored(e, stamp[d])
<1>1. e \in Event /\ k \in Keys /\ stamp[d] \in Nat
  BY ConstantsAssumption DEF TypeOK, Upsert, Event
<1>2. row \in Row
  BY <1>1, StoredType
<1>3. rows' = [rows EXCEPT ![k] = row] /\ rows'[k] = row
  BY <1>1 DEF Upsert, TypeOK
<1>4. StatusOf(k) \in {"absent", "unresolved"} => row.status = "unresolved"
  <2>1. CASE ~Present(k)
    BY <2>1, FirstOpen DEF Stored
  <2>2. CASE Present(k)
    <3>1. rows[k] \in Row
      BY <1>1, <2>2 DEF TypeOK
    <3>2. QED
      BY <2>2, <3>1, MergeOpen DEF Stored, Row, Status
  <2>3. QED
    BY <2>1, <2>2
<1>5. /\ pc' = [pc EXCEPT ![d] = "notify"]
      /\ should' = [should EXCEPT ![d] = ShouldNotify(old[d], row.status)]
      /\ opened' = [opened EXCEPT ![d] =
            row.status = "unresolved" /\ StatusOf(k) # "unresolved"]
      /\ contended' = [c \in Deliveries |->
            contended[c] \/ (c # d /\ pc[c] = "upsert" /\ ev[c].key = k)]
      /\ UNCHANGED <<ev, old, meddled>>
  BY DEF Upsert
<1> HIDE DEF row
<1>6. row # NoRow
  BY <1>2, ConstantsAssumption
<1>7. Undisturbed'
  <2> SUFFICES ASSUME NEW c \in Deliveries,
                      pc'[c] = "upsert", ~meddled'[c], old'[c] # "unreadable"
               PROVE  /\ old'[c] = "unresolved" => StatusOf(ev[c].key)' = "unresolved"
                      /\ ~contended'[c] => old'[c] = StatusOf(ev[c].key)'
    BY <1>5 DEF Undisturbed
  <2>1. c # d /\ pc[c] = "upsert" /\ ev[c].key \in Keys
    BY <1>5, ConstantsAssumption DEF TypeOK, Event
  <2>2. CASE ev[c].key = k
    <3>1. contended'[c]
      BY <2>1, <2>2, <1>5
    <3>2. old[c] = "unresolved" => row.status = "unresolved"
      BY <2>1, <2>2, <1>4, <1>5 DEF AlertInv, Undisturbed
    <3>3. StatusOf(ev[c].key)' = row.status
      BY <2>2, <1>3, <1>5, <1>6
    <3>4. old'[c] = old[c]
      BY <1>5
    <3> HIDE DEF StatusOf
    <3>5. QED
      BY <3>1, <3>2, <3>3, <3>4, Zenon
  <2>3. CASE ev[c].key # k
    <3>1. StatusOf(ev[c].key)' = StatusOf(ev[c].key)
      BY <2>1, <2>3, <1>3, <1>5 DEF TypeOK
    <3>2. contended[c] => contended'[c]
      BY <1>5
    <3>3. pc[c] = "upsert" /\ ~meddled[c] /\ old[c] = old'[c]
      BY <2>1, <1>5
    <3> HIDE DEF StatusOf
    <3>4. QED
      BY <3>1, <3>2, <3>3, Zenon DEF AlertInv, Undisturbed
  <2>4. QED
    BY <2>2, <2>3
<1>8. old[d] # "unreadable" /\ ~meddled[d] =>
        /\ opened'[d] => should'[d]
        /\ ~contended[d] /\ should'[d] => opened'[d]
  <2>1. pc[d] = "upsert" /\ old[d] \in Old
    BY DEF Upsert, TypeOK
  <2>2. QED
    BY <2>1, <1>4, <1>5 DEF AlertInv, Undisturbed, ShouldNotify, Old, Status, TypeOK
<1>9. old[d] = "unreadable" => ~should'[d]
  BY <1>5 DEF ShouldNotify, TypeOK
<1>10. NoSilentOpening'
  BY <1>5, <1>8 DEF AlertInv, NoSilentOpening, TypeOK
<1>11. NoSpuriousAlert'
  BY <1>5, <1>8, <1>9 DEF AlertInv, NoSpuriousAlert, TypeOK
<1>12. QED
  BY <1>7, <1>10, <1>11 DEF AlertInv

LEMMA NextAlert == TypeOK /\ AlertInv /\ [Next]_vars => AlertInv'
<1> SUFFICES ASSUME TypeOK, AlertInv, [Next]_vars PROVE AlertInv'
  OBVIOUS
<1> USE DEF AlertInv, Undisturbed, NoSilentOpening, NoSpuriousAlert
<1>1. ASSUME NEW d \in Deliveries, NEW e \in Events, Receive(d, e) PROVE AlertInv'
  BY <1>1 DEF Receive, history, TypeOK
<1>2. ASSUME NEW d \in Deliveries, Lookup(d) PROVE AlertInv'
  BY <1>2 DEF Lookup, history, TypeOK
<1>3. ASSUME NEW d \in Deliveries, UpsertFails(d) \/ Notify(d) PROVE AlertInv'
  <2>1. pc'[d] \notin {"upsert", "notify"}
    BY <1>3 DEF UpsertFails, Notify, TypeOK
  <2>2. ASSUME NEW c \in Deliveries, c # d
        PROVE  /\ pc'[c] = pc[c] /\ old'[c] = old[c] /\ should'[c] = should[c]
               /\ opened'[c] = opened[c] /\ meddled'[c] = meddled[c]
               /\ contended'[c] = contended[c]
    <3>1. pc'[c] = pc[c] /\ Return({d})
      BY <1>3, <2>2 DEF UpsertFails, Notify, TypeOK
    <3>2. QED
      BY <2>2, <3>1, ReturnLocals
  <2>3. ev' = ev /\ rows' = rows
    BY <1>3 DEF UpsertFails, Notify, Return
  <2>4. pc'[d] # "upsert" /\ pc'[d] # "notify"
    BY <2>1
  <2> HIDE DEF AlertInv, StatusOf
  <2>5. Undisturbed'
    <3>1. \A k : StatusOf(k)' = StatusOf(k)
      BY <2>3 DEF StatusOf
    <3> HIDE DEF Undisturbed
    <3>2. QED
      BY <2>2, <2>3, <2>4, <3>1, Zenon DEF AlertInv, Undisturbed
  <2>6. NoSilentOpening' /\ NoSpuriousAlert'
    BY <2>2, <2>4, Zenon DEF AlertInv
  <2>7. QED
    BY <2>5, <2>6 DEF AlertInv
<1>4. CASE Crash
  BY <1>4 DEF Crash, InFlight, Running, Return, TypeOK
<1> USE DEF AlertInv
<1>5. ASSUME NEW d \in Deliveries, SaveEventStep(d) PROVE AlertInv'
  BY <1>2, <1>3, <1>5, UpsertAlert DEF SaveEventStep
<1>6. ASSUME NEW S \in SUBSET Keys, Delete(S) PROVE AlertInv'
  BY <1>6, MeddlingAlert DEF Delete, TypeOK
<1>7. ASSUME NEW id \in Ids, NEW next \in BOOLEAN, Resolve(id, next) PROVE AlertInv'
  BY <1>7, MeddlingAlert DEF Resolve, TypeOK
<1>8. ASSUME NEW id \in Ids, NEW n \in Durations, Snooze(id, n) PROVE AlertInv'
  BY <1>8, MeddlingAlert DEF Snooze, TypeOK
<1>9. ASSUME NEW id \in Ids, TelegramResolve(id) PROVE AlertInv'
  BY <1>9, MeddlingAlert DEF TelegramResolve, TypeOK
<1>10. CASE Operator
  BY <1>7, <1>8, <1>9, <1>10 DEF Operator
<1>11. CASE RetentionCleanup
  BY <1>6, <1>11 DEF RetentionCleanup, Expired
<1>12. ASSUME NEW p \in Projects, DeleteProjectEvents(p) PROVE AlertInv'
  BY <1>6, <1>12 DEF DeleteProjectEvents
<1>13. CASE Tick \/ UNCHANGED vars
  BY <1>13 DEF Tick, vars, call, history
<1>14. QED
  BY <1>1, <1>4, <1>5, <1>10, <1>11, <1>12, <1>13 DEF Next

(* saveEvent decides on an alert from a status read one statement earlier, *)
(* and yet, whatever the number of concurrent calls, an issue is created   *)
(* or reopened without an alert only if its SELECT failed or an operator   *)
(* or a deletion wrote the row in between.                                 *)
THEOREM AlertDecision == Spec => []NoSilentOpening
<1>1. Init => AlertInv
  BY DEF Init, AlertInv, Undisturbed, NoSilentOpening, NoSpuriousAlert
<1>2. AlertInv => NoSilentOpening
  BY DEF AlertInv
<1>3. QED
  BY <1>1, <1>2, NextAlert, TypeCorrect, PTL DEF Spec

(* saveEvent alerts without such an opening only if someone wrote the row  *)
(* between its two statements.                                             *)
THEOREM AlertsAreJustified == Spec => []NoSpuriousAlert
<1>1. Init => AlertInv
  BY DEF Init, AlertInv, Undisturbed, NoSilentOpening, NoSpuriousAlert
<1>2. AlertInv => NoSpuriousAlert
  BY DEF AlertInv
<1>3. QED
  BY <1>1, <1>2, NextAlert, TypeCorrect, PTL DEF Spec

-----------------------------------------------------------------------------
(* What a step does to the table.  Four kinds of step cover Next; the      *)
(* proofs below need no more than these facts of each.                     *)

(* The fields of a merged row.                                             *)
LEMMA MergeFields ==
  ASSUME NEW row \in Row, NEW e \in Event, NEW t \in Nat
  PROVE  LET new == Merge(row, e, t)
         IN  /\ new.id = row.id
             /\ new.count = row.count + 1
             /\ new.release = e.release
             /\ \/ new.status = "unresolved"
                \/ HeldByGate(row, e) /\ new.status = "resolved" /\ new.gate
                \/ row.status = "snoozed" /\ new.status = "snoozed"
  BY DEF Merge, Row, Event, HeldByGate, HeldBySnooze

QuietStep ==
  rows' = rows /\ purged' = purged /\ \A k \in Keys : Saved(k)' = Saved(k)

CloseStep ==
  \E id \in Ids :
    /\ \E k \in Keys : HasId(k, id)
    /\ \A k \in Keys : HasId(k, id) =>
         /\ rows'[k] \in Row
         /\ rows'[k].id = rows[k].id /\ rows'[k].count = rows[k].count
         /\ rows'[k].status \in {"resolved", "snoozed"}
    /\ \A k \in Keys : ~HasId(k, id) => rows'[k] = rows[k]
    /\ UNCHANGED <<pc, ev, purged>>

DeleteStep ==
  \E S \in SUBSET Keys :
    /\ rows' = [k \in Keys |-> IF k \in S THEN NoRow ELSE rows[k]]
    /\ purged' = purged \cup S
    /\ UNCHANGED <<pc, ev>>

(* A row that an operator closes keeps its identity and its hits.          *)
Closings(row) ==
  {[row EXCEPT !.status = "resolved", !.gate = TRUE],
   [row EXCEPT !.status = "resolved", !.gate = FALSE],
   [row EXCEPT !.status = "resolved"]}
  \cup {[row EXCEPT !.status = "snoozed", !.until = u] : u \in Nat}

LEMMA ClosedRow ==
  ASSUME NEW row \in Row, NEW new \in Closings(row)
  PROVE  /\ new \in Row
         /\ new.id = row.id /\ new.count = row.count
         /\ new.status \in {"resolved", "snoozed"}
<1>1. CASE new = [row EXCEPT !.status = "resolved", !.gate = TRUE]
  BY <1>1 DEF Row, Status
<1>2. CASE new = [row EXCEPT !.status = "resolved", !.gate = FALSE]
  BY <1>2 DEF Row, Status
<1>3. CASE new = [row EXCEPT !.status = "resolved"]
  BY <1>3 DEF Row, Status
<1>4. ASSUME NEW u \in Nat, new = [row EXCEPT !.status = "snoozed", !.until = u]
      PROVE  /\ new \in Row
             /\ new.id = row.id /\ new.count = row.count
             /\ new.status \in {"resolved", "snoozed"}
  BY <1>4 DEF Row, Status
<1>5. QED
  BY <1>1, <1>2, <1>3, <1>4 DEF Closings

LEMMA CrashQuiet == TypeOK /\ Crash => QuietStep
  BY DEF TypeOK, Crash, Return, InFlight, Running, QuietStep, Saved

LEMMA SaveEventQuiet ==
  ASSUME TypeOK, NEW d \in Deliveries, Lookup(d) \/ UpsertFails(d) \/ Notify(d)
  PROVE  QuietStep
<1>1. rows' = rows /\ purged' = purged /\ ev' = ev
  BY DEF Lookup, UpsertFails, Notify, Return, history
<1>2. \A c \in Deliveries :
        (pc'[c] \in {"notify", "done", "silenced"}) <=> (pc[c] \in {"notify", "done", "silenced"})
  BY DEF TypeOK, Lookup, UpsertFails, Notify
<1>3. QED
  BY <1>1, <1>2 DEF QuietStep, Saved

LEMMA ReceiveQuiet ==
  ASSUME TypeOK, NEW d \in Deliveries, NEW e \in Events, Receive(d, e)
  PROVE  QuietStep
<1>1. \A c \in Deliveries : c # d => pc'[c] = pc[c] /\ ev'[c] = ev[c]
  BY DEF TypeOK, Receive
<1>2. pc[d] = "idle" /\ pc'[d] = "lookup"
  BY DEF TypeOK, Receive
<1>3. QED
  BY <1>1, <1>2 DEF QuietStep, Saved, Receive, history

LEMMA OperatorCloses == TypeOK /\ Operator => CloseStep
<1> SUFFICES ASSUME TypeOK, Operator PROVE CloseStep
  OBVIOUS
<1>1. ASSUME NEW id \in Ids, NEW next \in BOOLEAN, Resolve(id, next) PROVE CloseStep
  <2>1. ASSUME NEW k \in Keys, HasId(k, id)
        PROVE  rows[k] \in Row /\ rows'[k] \in Closings(rows[k])
    <3>1. rows[k] \in Row
      BY <2>1 DEF TypeOK, HasId
    <3>2. rows'[k] = [rows[k] EXCEPT !.status = "resolved", !.gate = next]
      BY <1>1, <2>1 DEF Resolve
    <3>3. CASE next = TRUE
      BY <3>1, <3>2, <3>3 DEF Closings
    <3>4. CASE next = FALSE
      BY <3>1, <3>2, <3>4 DEF Closings
    <3>5. QED
      BY <3>3, <3>4
  <2>2. \A k \in Keys : HasId(k, id) =>
          /\ rows'[k] \in Row
          /\ rows'[k].id = rows[k].id /\ rows'[k].count = rows[k].count
          /\ rows'[k].status \in {"resolved", "snoozed"}
    BY <2>1, ClosedRow
  <2>3. \A k \in Keys : ~HasId(k, id) => rows'[k] = rows[k]
    BY <1>1 DEF Resolve, TypeOK
  <2>4. (\E k \in Keys : HasId(k, id)) /\ UNCHANGED <<pc, ev, purged>>
    BY <1>1 DEF Resolve, call
  <2> USE DEF CloseStep
  <2> WITNESS id \in Ids
  <2>5. QED
    BY <2>2, <2>3, <2>4
<1>2. ASSUME NEW id \in Ids, NEW n \in Durations, Snooze(id, n) PROVE CloseStep
  <2>1. now + n \in Nat
    BY ConstantsAssumption DEF TypeOK
  <2>2. ASSUME NEW k \in Keys, HasId(k, id)
        PROVE  rows[k] \in Row /\ rows'[k] \in Closings(rows[k])
    <3>1. rows[k] \in Row
      BY <2>2 DEF TypeOK, HasId
    <3>2. rows'[k] = [rows[k] EXCEPT !.status = "snoozed", !.until = now + n]
      BY <1>2, <2>2 DEF Snooze
    <3>3. QED
      BY <2>1, <3>1, <3>2 DEF Closings
  <2>3. \A k \in Keys : HasId(k, id) =>
          /\ rows'[k] \in Row
          /\ rows'[k].id = rows[k].id /\ rows'[k].count = rows[k].count
          /\ rows'[k].status \in {"resolved", "snoozed"}
    BY <2>1, <2>2, ClosedRow
  <2>4. \A k \in Keys : ~HasId(k, id) => rows'[k] = rows[k]
    BY <1>2 DEF Snooze, TypeOK
  <2>5. (\E k \in Keys : HasId(k, id)) /\ UNCHANGED <<pc, ev, purged>>
    BY <1>2 DEF Snooze, call
  <2> USE DEF CloseStep
  <2> WITNESS id \in Ids
  <2>6. QED
    BY <2>3, <2>4, <2>5
<1>3. ASSUME NEW id \in Ids, TelegramResolve(id) PROVE CloseStep
  <2>1. ASSUME NEW k \in Keys, HasId(k, id)
        PROVE  rows[k] \in Row /\ rows'[k] \in Closings(rows[k])
    BY <1>3, <2>1 DEF TelegramResolve, TypeOK, HasId, Closings
  <2>2. \A k \in Keys : HasId(k, id) =>
          /\ rows'[k] \in Row
          /\ rows'[k].id = rows[k].id /\ rows'[k].count = rows[k].count
          /\ rows'[k].status \in {"resolved", "snoozed"}
    BY <2>1, ClosedRow
  <2>3. \A k \in Keys : ~HasId(k, id) => rows'[k] = rows[k]
    BY <1>3 DEF TelegramResolve, TypeOK
  <2>4. (\E k \in Keys : HasId(k, id)) /\ UNCHANGED <<pc, ev, purged>>
    BY <1>3 DEF TelegramResolve, call
  <2> USE DEF CloseStep
  <2> WITNESS id \in Ids
  <2>5. QED
    BY <2>2, <2>3, <2>4
<1>4. QED
  BY <1>1, <1>2, <1>3 DEF Operator

LEMMA NextKinds ==
  ASSUME TypeOK, [Next]_vars
  PROVE  QuietStep \/ CloseStep \/ DeleteStep \/ \E d \in Deliveries : Upsert(d)
<1>1. ASSUME NEW S \in SUBSET Keys, Delete(S) PROVE DeleteStep
  BY <1>1 DEF Delete, DeleteStep, call
<1>2. CASE RetentionCleanup
  BY <1>1, <1>2 DEF RetentionCleanup, Expired
<1>3. ASSUME NEW p \in Projects, DeleteProjectEvents(p) PROVE DeleteStep
  BY <1>1, <1>3 DEF DeleteProjectEvents
<1>4. CASE Tick \/ UNCHANGED vars
  BY <1>4 DEF Tick, vars, call, history, QuietStep, Saved
<1>5. ASSUME NEW d \in Deliveries, SaveEventStep(d) PROVE QuietStep \/ Upsert(d)
  BY <1>5, SaveEventQuiet DEF SaveEventStep
<1>6. QED
  BY <1>2, <1>3, <1>4, <1>5, ReceiveQuiet, CrashQuiet, OperatorCloses DEF Next

(* The upsert writes one row and counts one hit in it; and it is saved.    *)
LEMMA UpsertRow ==
  ASSUME TypeOK, NEW d \in Deliveries, Upsert(d)
  PROVE  \E k \in Keys, row \in Row :
           /\ k = ev[d].key /\ row # NoRow
           /\ rows' = [rows EXCEPT ![k] = row]
           /\ row.count = HitsOf(k) + 1
           /\ Present(k) => row.id = rows[k].id
           /\ ~Present(k) => \A j \in Keys : Present(j) => rows[j].id # row.id
           /\ \/ row.status = "unresolved"
              \/ /\ Present(k) /\ rows[k].status = "resolved" /\ rows[k].gate
                 /\ row.status = "resolved" /\ row.gate
                 /\ row.release = rows[k].release
              \/ Present(k) /\ rows[k].status = "snoozed" /\ row.status = "snoozed"
<1> DEFINE k == ev[d].key
           row == Stored(ev[d], stamp[d])
<1>1. ev[d] \in Event /\ k \in Keys /\ stamp[d] \in Nat
  BY ConstantsAssumption DEF TypeOK, Upsert, Event
<1>2. row \in Row /\ row # NoRow
  BY <1>1, StoredType, ConstantsAssumption
<1>3. rows' = [rows EXCEPT ![k] = row] /\ ~IdTaken(ev[d])
  BY DEF Upsert
<1>4. CASE Present(k)
  <2>1. rows[k] \in Row
    BY <1>1, <1>4 DEF TypeOK
  <2>2. row = Merge(rows[k], ev[d], stamp[d])
    BY <1>4 DEF Stored
  <2>3. /\ row.id = rows[k].id
        /\ row.count = rows[k].count + 1
        /\ row.release = ev[d].release
        /\ \/ row.status = "unresolved"
           \/ HeldByGate(rows[k], ev[d]) /\ row.status = "resolved" /\ row.gate
           \/ rows[k].status = "snoozed" /\ row.status = "snoozed"
    BY <1>1, <2>1, <2>2, MergeFields
  <2> HIDE DEF row, k
  <2>4. QED
    BY <1>1, <1>2, <1>3, <1>4, <2>3 DEF HitsOf, HeldByGate, k
<1>5. CASE ~Present(k)
  <2>1. row = FirstRow(ev[d], stamp[d])
    BY <1>5 DEF Stored
  <2>2. row.id = ev[d].id /\ row.count = 1 /\ row.status = "unresolved"
    BY <2>1 DEF FirstRow
  <2>3. \A j \in Keys : Present(j) => rows[j].id # row.id
    BY <1>3, <1>5, <2>2 DEF IdTaken
  <2>4. row.count = HitsOf(k) + 1
    BY <1>5, <2>2 DEF HitsOf
  <2> k \in Keys /\ row \in Row
    BY <1>1, <1>2
  <2> WITNESS k \in Keys, row \in Row
  <2> HIDE DEF row, k
  <2>5. k = ev[d].key
    BY DEF k
  <2>6. QED
    BY <1>2, <1>3, <1>5, <2>2, <2>3, <2>4, <2>5
<1>6. QED
  BY <1>4, <1>5

-----------------------------------------------------------------------------
(* The primary key                                                         *)

(* The id is the primary key of the table.                                 *)
PrimaryKey ==
  \A j, k \in Keys : Present(j) /\ Present(k) /\ rows[j].id = rows[k].id => j = k

LEMMA NextPrimaryKey == TypeOK /\ PrimaryKey /\ [Next]_vars => PrimaryKey'
<1> SUFFICES ASSUME TypeOK, PrimaryKey, [Next]_vars PROVE PrimaryKey'
  OBVIOUS
<1>1. CASE QuietStep
  BY <1>1 DEF QuietStep, PrimaryKey
<1>2. CASE CloseStep
  <2>1. ASSUME NEW k \in Keys, rows'[k] # NoRow
        PROVE  Present(k) /\ rows'[k].id = rows[k].id
    BY <1>2, <2>1 DEF CloseStep, HasId
  <2>2. QED
    BY <2>1 DEF PrimaryKey
<1>3. CASE DeleteStep
  BY <1>3 DEF DeleteStep, PrimaryKey, TypeOK
<1>4. ASSUME NEW d \in Deliveries, Upsert(d) PROVE PrimaryKey'
  <2>1. PICK k \in Keys, row \in Row :
          /\ rows' = [rows EXCEPT ![k] = row]
          /\ Present(k) => row.id = rows[k].id
          /\ ~Present(k) => \A j \in Keys : Present(j) => rows[j].id # row.id
    BY <1>4, UpsertRow
  <2>2. rows'[k] = row /\ \A j \in Keys : j # k => rows'[j] = rows[j]
    BY <2>1 DEF TypeOK
  <2>3. \A j \in Keys : j # k /\ Present(j) => rows[j].id # row.id
    BY <2>1 DEF PrimaryKey
  <2>4. QED
    BY <2>2, <2>3 DEF PrimaryKey
<1>5. QED
  BY <1>1, <1>2, <1>3, <1>4, NextKinds

(* No two issues ever share an id, so an operator's request never hits two *)
(* issues: an insert under a taken id fails, and no writer changes an id.  *)
LEMMA IdsAreUnique == Spec => []PrimaryKey
<1>1. Init => PrimaryKey
  BY DEF Init, PrimaryKey
<1>2. QED
  BY <1>1, NextPrimaryKey, TypeCorrect, PTL DEF Spec

-----------------------------------------------------------------------------
(* The hit counter                                                         *)

LEMMA SavedFinite == \A k : IsFiniteSet(Saved(k))
  BY ConstantsAssumption, FS_Subset DEF Saved

LEMMA NextHitCounter == TypeOK /\ HitCounter /\ [Next]_vars => HitCounter'
<1> SUFFICES ASSUME TypeOK, HitCounter, [Next]_vars PROVE HitCounter'
  OBVIOUS
<1>1. CASE QuietStep
  BY <1>1 DEF QuietStep, HitCounter, HitsOf
<1>2. CASE CloseStep
  <2>1. \A k \in Keys : HitsOf(k)' = HitsOf(k)
    BY <1>2, ConstantsAssumption DEF CloseStep, HitsOf, HasId
  <2>2. purged' = purged /\ \A k : Saved(k)' = Saved(k)
    BY <1>2 DEF CloseStep, Saved
  <2>3. QED
    BY <2>1, <2>2 DEF HitCounter
<1>3. CASE DeleteStep
  <2>1. PICK S \in SUBSET Keys :
          /\ rows' = [k \in Keys |-> IF k \in S THEN NoRow ELSE rows[k]]
          /\ purged' = purged \cup S
    BY <1>3 DEF DeleteStep
  <2>2. \A k \in Keys \ purged' : k \notin purged /\ HitsOf(k)' = HitsOf(k)
    BY <2>1 DEF HitsOf
  <2>3. \A k : Saved(k)' = Saved(k)
    BY <1>3 DEF DeleteStep, Saved
  <2>4. QED
    BY <2>2, <2>3 DEF HitCounter
<1>4. ASSUME NEW d \in Deliveries, Upsert(d) PROVE HitCounter'
  <2>1. PICK k \in Keys, row \in Row :
          /\ k = ev[d].key /\ row # NoRow
          /\ rows' = [rows EXCEPT ![k] = row]
          /\ row.count = HitsOf(k) + 1
    BY <1>4, UpsertRow
  <2>2. HitsOf(k)' = HitsOf(k) + 1 /\ \A j \in Keys : j # k => HitsOf(j)' = HitsOf(j)
    BY <2>1 DEF HitsOf, TypeOK
  <2>3. /\ pc[d] = "upsert" /\ pc' = [pc EXCEPT ![d] = "notify"]
        /\ ev' = ev /\ purged' = purged
    BY <1>4 DEF Upsert
  <2>4. /\ d \notin Saved(k) /\ Saved(k)' = Saved(k) \cup {d}
        /\ \A j \in Keys : j # k => Saved(j)' = Saved(j)
    BY <2>1, <2>3 DEF Saved, TypeOK
  <2>5. Cardinality(Saved(k)') = Cardinality(Saved(k)) + 1
    BY <2>4, SavedFinite, FS_AddElement
  <2>6. QED
    BY <2>2, <2>3, <2>4, <2>5 DEF HitCounter
<1>5. QED
  BY <1>1, <1>2, <1>3, <1>4, NextKinds

(* The hit counter of an issue that was never deleted is the number of     *)
(* deliveries saved under its key: concurrent first occurrences included.  *)
THEOREM HitsAreExact == Spec => []HitCounter
<1>1. Init => HitCounter
  <2> SUFFICES ASSUME Init, NEW k \in Keys PROVE Cardinality(Saved(k)) = HitsOf(k)
    BY DEF HitCounter
  <2>1. Saved(k) = {} /\ HitsOf(k) = 0
    BY DEF Init, Saved, HitsOf
  <2>2. QED
    BY <2>1, FS_EmptySet
<1>2. QED
  BY <1>1, NextHitCounter, TypeCorrect, PTL DEF Spec

-----------------------------------------------------------------------------
(* The store implements the life cycle                                     *)

LEMMA NextLifecycle ==
  ASSUME TypeOK, PrimaryKey, [Next]_vars
  PROVE  [Lifecycle!LifeNext]_<<life, hits>>
<1>1. CASE QuietStep
  BY <1>1 DEF QuietStep, life, hits, LifeOf, HitsOf
<1>2. CASE CloseStep
  <2>1. PICK id \in Ids :
          /\ \E k \in Keys : HasId(k, id)
          /\ \A k \in Keys : HasId(k, id) =>
               /\ rows'[k] \in Row
               /\ rows'[k].id = rows[k].id /\ rows'[k].count = rows[k].count
               /\ rows'[k].status \in {"resolved", "snoozed"}
          /\ \A k \in Keys : ~HasId(k, id) => rows'[k] = rows[k]
    BY <1>2 DEF CloseStep
  <2>2. PICK k \in Keys : HasId(k, id)
    BY <2>1
  <2>3. \A j \in Keys : j # k => rows'[j] = rows[j]
    BY <2>1, <2>2 DEF PrimaryKey, HasId
  <2>4. /\ rows[k] # NoRow /\ rows[k] \in Row
        /\ rows'[k] # NoRow /\ rows'[k] \in Row
        /\ rows'[k].count = rows[k].count
        /\ rows'[k].status \in {"resolved", "snoozed"}
    BY <2>1, <2>2, ConstantsAssumption DEF HasId, TypeOK
  <2>5. hits' = hits
    BY <2>3, <2>4 DEF hits, HitsOf
  <2>6. life' = [life EXCEPT ![k] = LifeOf(k)']
    BY <2>3 DEF life, LifeOf
  <2>7. LifeOf(k)' \in Lifecycle!Closed
    BY <2>4 DEF LifeOf, Lifecycle!Closed
  <2>8. life[k] # "absent"
    BY <2>4 DEF life, LifeOf, Row, Status
  <2>9. Lifecycle!Close(k)
    BY <2>5, <2>6, <2>7, <2>8 DEF Lifecycle!Close
  <2>10. QED
    BY <2>9 DEF Lifecycle!LifeNext
<1>3. CASE DeleteStep
  <2>1. PICK S \in SUBSET Keys :
          rows' = [k \in Keys |-> IF k \in S THEN NoRow ELSE rows[k]]
    BY <1>3 DEF DeleteStep
  <2>2. \A k \in Keys : LifeOf(k)' = IF k \in S THEN "absent" ELSE LifeOf(k)
    BY <2>1 DEF LifeOf
  <2>3. \A k \in Keys : HitsOf(k)' = IF k \in S THEN 0 ELSE HitsOf(k)
    BY <2>1 DEF HitsOf
  <2>4. Lifecycle!Forget(S)
    BY <2>2, <2>3 DEF Lifecycle!Forget, life, hits
  <2>5. QED
    BY <2>4 DEF Lifecycle!LifeNext
<1>4. ASSUME NEW d \in Deliveries, Upsert(d) PROVE Lifecycle!LifeNext
  <2>1. PICK k \in Keys, row \in Row :
          /\ row # NoRow
          /\ rows' = [rows EXCEPT ![k] = row]
          /\ row.count = HitsOf(k) + 1
          /\ \/ row.status = "unresolved"
             \/ /\ Present(k) /\ rows[k].status = "resolved" /\ rows[k].gate
                /\ row.status = "resolved" /\ row.gate
             \/ Present(k) /\ rows[k].status = "snoozed" /\ row.status = "snoozed"
    BY <1>4, UpsertRow
  <2>2. rows'[k] = row /\ \A j \in Keys : j # k => rows'[j] = rows[j]
    BY <2>1 DEF TypeOK
  <2>3. hits' = [hits EXCEPT ![k] = @ + 1]
    <3>1. HitsOf(k)' = hits[k] + 1
      BY <2>1, <2>2 DEF HitsOf, hits
    <3>2. \A j \in Keys : j # k => HitsOf(j)' = HitsOf(j)
      BY <2>2 DEF HitsOf
    <3>3. QED
      BY <3>1, <3>2 DEF hits
  <2>4. life' = [life EXCEPT ![k] = LifeOf(k)']
    BY <2>2 DEF life, LifeOf
  <2>5. \/ LifeOf(k)' = "open"
        \/ LifeOf(k) \in {"gated", "snoozed"} /\ LifeOf(k)' = LifeOf(k)
    BY <2>1, <2>2 DEF LifeOf
  <2>6. \/ life' = [life EXCEPT ![k] = "open"]
        \/ life[k] \in {"gated", "snoozed"} /\ life' = life
    BY <2>4, <2>5 DEF life
  <2>7. Lifecycle!Occur(k)
    BY <2>3, <2>6 DEF Lifecycle!Occur
  <2>8. QED
    BY <2>7 DEF Lifecycle!LifeNext
<1>5. QED
  BY <1>1, <1>2, <1>3, <1>4, NextKinds

(* The events table with all its writers implements the life cycle of an   *)
(* issue: a delivery counts one occurrence of its own issue, which it      *)
(* opens or finds gated or snoozed; a request closes exactly one issue.    *)
THEOREM StoreImplementsLifecycle == Spec => ImplementsLifecycle
<1>1. Init => Lifecycle!LifeInit
  BY DEF Init, Lifecycle!LifeInit, life, hits, LifeOf, HitsOf
<1>2. TypeOK /\ PrimaryKey /\ [Next]_vars => [Lifecycle!LifeNext]_<<life, hits>>
  BY NextLifecycle
<1>3. QED
  BY <1>1, <1>2, TypeCorrect, IdsAreUnique, PTL
  DEF Spec, ImplementsLifecycle, Lifecycle!LifeSpec

-----------------------------------------------------------------------------
(* The release gate                                                        *)

LEMMA NextGate == TypeOK /\ GateHoldsRelease /\ [Next]_vars => GateHoldsRelease'
<1> SUFFICES ASSUME TypeOK, GateHoldsRelease, [Next]_vars PROVE GateHoldsRelease'
  OBVIOUS
<1>1. ASSUME UNCHANGED <<rows, how, baseline>> PROVE GateHoldsRelease'
  BY <1>1 DEF GateHoldsRelease
<1>2. ASSUME NEW d \in Deliveries, NEW e \in Events, Receive(d, e) PROVE GateHoldsRelease'
  BY <1>1, <1>2 DEF Receive, history
<1>3. ASSUME NEW d \in Deliveries, Lookup(d) \/ UpsertFails(d) \/ Notify(d)
      PROVE  GateHoldsRelease'
  BY <1>1, <1>3 DEF Lookup, UpsertFails, Notify, Return, history
<1>4. CASE Crash
  BY <1>1, <1>4 DEF Crash, Return
<1>5. CASE Tick \/ UNCHANGED vars
  BY <1>1, <1>5 DEF Tick, vars, history
<1>6. ASSUME NEW d \in Deliveries, Upsert(d) PROVE GateHoldsRelease'
  <2>1. PICK k \in Keys, row \in Row :
          /\ rows' = [rows EXCEPT ![k] = row]
          /\ \/ row.status = "unresolved"
             \/ /\ Present(k) /\ rows[k].status = "resolved" /\ rows[k].gate
                /\ row.status = "resolved" /\ row.gate
                /\ row.release = rows[k].release
             \/ Present(k) /\ rows[k].status = "snoozed" /\ row.status = "snoozed"
    BY <1>6, UpsertRow
  <2>2. rows'[k] = row /\ \A j \in Keys : j # k => rows'[j] = rows[j]
    BY <2>1 DEF TypeOK
  <2>3. how' = how /\ baseline' = baseline
    BY <1>6 DEF Upsert
  <2>4. QED
    BY <2>1, <2>2, <2>3 DEF GateHoldsRelease
<1>7. ASSUME NEW S \in SUBSET Keys, Delete(S) PROVE GateHoldsRelease'
  BY <1>7 DEF Delete, GateHoldsRelease
<1>8. CASE RetentionCleanup
  BY <1>7, <1>8 DEF RetentionCleanup, Expired
<1>9. ASSUME NEW p \in Projects, DeleteProjectEvents(p) PROVE GateHoldsRelease'
  BY <1>7, <1>9 DEF DeleteProjectEvents
<1>10. ASSUME NEW id \in Ids, NEW next \in BOOLEAN, Resolve(id, next) PROVE GateHoldsRelease'
  <2>1. ASSUME NEW k \in Keys, HasId(k, id), how'[k] = "next"
        PROVE  rows'[k].gate /\ baseline'[k] = {rows'[k].release}
    <3>1. rows[k] \in Row
      BY <2>1 DEF HasId, TypeOK
    <3>2. next = TRUE
      BY <1>10, <2>1 DEF Resolve
    <3>3. /\ rows'[k] = [rows[k] EXCEPT !.status = "resolved", !.gate = TRUE]
          /\ baseline'[k] = {rows[k].release}
      BY <1>10, <2>1, <3>2 DEF Resolve
    <3>4. rows'[k].gate = TRUE /\ rows'[k].release = rows[k].release
      BY <3>1, <3>3 DEF Row
    <3>5. QED
      BY <3>3, <3>4
  <2>2. ASSUME NEW k \in Keys, ~HasId(k, id)
        PROVE  rows'[k] = rows[k] /\ how'[k] = how[k] /\ baseline'[k] = baseline[k]
    BY <1>10, <2>2 DEF Resolve
  <2>3. QED
    BY <2>1, <2>2 DEF GateHoldsRelease
<1>11. ASSUME NEW id \in Ids, NEW n \in Durations, Snooze(id, n) PROVE GateHoldsRelease'
  <2>1. ASSUME NEW k \in Keys, HasId(k, id) PROVE rows'[k].status # "resolved"
    <3>1. rows[k] \in Row /\ rows'[k] = [rows[k] EXCEPT !.status = "snoozed", !.until = now + n]
      BY <1>11, <2>1 DEF Snooze, HasId, TypeOK
    <3>2. QED
      BY <3>1 DEF Row
  <2>2. ASSUME NEW k \in Keys, ~HasId(k, id)
        PROVE  rows'[k] = rows[k] /\ how'[k] = how[k] /\ baseline'[k] = baseline[k]
    BY <1>11, <2>2 DEF Snooze
  <2>3. QED
    BY <2>1, <2>2 DEF GateHoldsRelease
<1>12. ASSUME NEW id \in Ids, TelegramResolve(id) PROVE GateHoldsRelease'
  <2>1. ASSUME NEW k \in Keys, HasId(k, id), how'[k] = "next"
        PROVE  rows'[k] = rows[k] /\ how'[k] = how[k] /\ baseline'[k] = baseline[k]
    <3>1. rows[k].status = "resolved" /\ rows[k] \in Row
      BY <1>12, <2>1 DEF TelegramResolve, HasId, TypeOK
    <3>2. rows'[k] = [rows[k] EXCEPT !.status = "resolved"]
      BY <1>12, <2>1 DEF TelegramResolve
    <3>3. rows'[k] = rows[k]
      BY <3>1, <3>2 DEF Row
    <3>4. QED
      BY <1>12, <2>1, <3>1, <3>3 DEF TelegramResolve
  <2>2. ASSUME NEW k \in Keys, ~HasId(k, id)
        PROVE  rows'[k] = rows[k] /\ how'[k] = how[k] /\ baseline'[k] = baseline[k]
    BY <1>12, <2>2 DEF TelegramResolve
  <2>3. QED
    BY <2>1, <2>2 DEF GateHoldsRelease
<1>13. QED
  BY <1>2, <1>3, <1>4, <1>5, <1>6, <1>8, <1>9, <1>10, <1>11, <1>12
  DEF Next, SaveEventStep, Operator

(* An issue resolved in the next release keeps its gate, and has absorbed  *)
(* only occurrences of the release it was resolved in.                     *)
THEOREM GateIsFaithful == Spec => []GateHoldsRelease
<1>1. Init => GateHoldsRelease
  BY DEF Init, GateHoldsRelease
<1>2. QED
  BY <1>1, NextGate, TypeCorrect, PTL DEF Spec

-----------------------------------------------------------------------------
(* Snoozes and the server's clock                                          *)

(* A call without a client timestamp was stamped in the past.              *)
ServerStamp ==
  \A d \in Deliveries :
     pc[d] \in {"lookup", "upsert"} /\ ev[d].ts = 0 => stamp[d] <= now

LEMMA NextServerStamp == TypeOK /\ ServerStamp /\ [Next]_vars => ServerStamp'
<1> SUFFICES ASSUME TypeOK, ServerStamp, [Next]_vars PROVE ServerStamp'
  OBVIOUS
<1> USE DEF ServerStamp
<1>1. ASSUME NEW d \in Deliveries, NEW e \in Events, Receive(d, e) PROVE ServerStamp'
  <2>1. \A c \in Deliveries : c # d => pc'[c] = pc[c] /\ ev'[c] = ev[c] /\ stamp'[c] = stamp[c]
    BY <1>1 DEF Receive
  <2>2. ev'[d] = e /\ (e.ts = 0 => stamp'[d] = now) /\ now' = now
    BY <1>1 DEF Receive, TypeOK
  <2>3. now <= now
    BY DEF TypeOK
  <2>4. QED
    BY <2>1, <2>2, <2>3
<1>2. ASSUME NEW d \in Deliveries, Lookup(d) \/ Upsert(d) PROVE ServerStamp'
  BY <1>2 DEF Lookup, Upsert, TypeOK
<1>3. ASSUME NEW d \in Deliveries, UpsertFails(d) \/ Notify(d) PROVE ServerStamp'
  <2>1. pc'[d] \notin {"lookup", "upsert"} /\ now' = now /\ ev' = ev
    BY <1>3 DEF UpsertFails, Notify, Return, TypeOK
  <2>2. \A c \in Deliveries : c # d => pc'[c] = pc[c] /\ stamp'[c] = stamp[c]
    BY <1>3, ReturnLocals DEF UpsertFails, Notify, TypeOK
  <2>3. QED
    BY <2>1, <2>2
<1>4. CASE Crash
  BY <1>4 DEF Crash, InFlight, Running
<1>5. CASE Tick
  BY <1>5 DEF Tick, call, TypeOK
<1>6. ASSUME UNCHANGED <<now, call>> PROVE ServerStamp'
  BY <1>6 DEF call
<1>7. CASE Operator
  BY <1>6, <1>7 DEF Operator, Resolve, Snooze, TelegramResolve
<1>8. CASE RetentionCleanup
  BY <1>6, <1>8 DEF RetentionCleanup, Delete
<1>9. ASSUME NEW p \in Projects, DeleteProjectEvents(p) PROVE ServerStamp'
  BY <1>6, <1>9 DEF DeleteProjectEvents, Delete
<1>10. CASE UNCHANGED vars
  BY <1>6, <1>10 DEF vars
<1>11. QED
  BY <1>1, <1>2, <1>3, <1>4, <1>5, <1>7, <1>8, <1>9, <1>10 DEF Next, SaveEventStep

(* The step that stores d's event is d's own upsert.                       *)
LEMMA WhoStores ==
  ASSUME TypeOK, [Next]_vars, NEW d \in Deliveries, pc[d] = "upsert", pc'[d] = "notify"
  PROVE  Upsert(d)
<1>1. ASSUME NEW c \in Deliveries, NEW e \in Events, Receive(c, e) PROVE Upsert(d)
  BY <1>1 DEF Receive, TypeOK
<1>2. ASSUME NEW c \in Deliveries, SaveEventStep(c) PROVE Upsert(d)
  BY <1>2 DEF SaveEventStep, Lookup, Upsert, UpsertFails, Notify, TypeOK
<1>3. ~Crash
  BY DEF Crash, InFlight, Running
<1>4. ~Operator
  BY DEF Operator, Resolve, Snooze, TelegramResolve, call
<1>5. ~RetentionCleanup /\ ~Tick /\ ~UNCHANGED vars
  BY DEF RetentionCleanup, Delete, Tick, vars, call
<1>6. \A p \in Projects : ~DeleteProjectEvents(p)
  BY DEF DeleteProjectEvents, Delete, call
<1>7. QED
  BY <1>1, <1>2, <1>3, <1>4, <1>5, <1>6 DEF Next

(* An event that the server stamped never ends a snooze early.             *)
THEOREM SnoozesLast == Spec => SnoozeLasts
<1>1. Init => ServerStamp
  BY DEF Init, ServerStamp
<1>2. ASSUME TypeOK, ServerStamp, [Next]_vars, NEW k \in Keys, NEW d \in Deliveries,
             pc[d] = "upsert", pc'[d] = "notify", ev[d].key = k, ev[d].ts = 0,
             Present(k), rows[k].status = "snoozed", rows'[k].status # "snoozed"
      PROVE  rows[k].until <= now
  <2>1. Upsert(d)
    BY <1>2, WhoStores
  <2>2. rows'[k] = Merge(rows[k], ev[d], stamp[d]) /\ rows[k] \in Row
    BY <1>2, <2>1 DEF Upsert, Stored, TypeOK
  <2>3. ~HeldBySnooze(rows[k], stamp[d])
    BY <1>2, <2>2 DEF Merge, HeldByGate, HeldBySnooze, Row
  <2>4. rows[k].until \in Nat /\ stamp[d] \in Nat /\ now \in Nat /\ stamp[d] <= now
    BY <1>2, <2>2 DEF Row, TypeOK, ServerStamp
  <2>5. QED
    BY <1>2, <2>3, <2>4 DEF HeldBySnooze
<1>3. TypeOK /\ ServerStamp /\ [Next]_vars =>
        [\A k \in Keys, d \in Deliveries :
           /\ pc[d] = "upsert" /\ pc'[d] = "notify"
           /\ ev[d].key = k /\ ev[d].ts = 0
           /\ Present(k) /\ rows[k].status = "snoozed" /\ rows'[k].status # "snoozed"
           => rows[k].until <= now]_vars
  BY <1>2
<1>4. QED
  BY <1>1, <1>3, NextServerStamp, TypeCorrect, PTL DEF Spec, SnoozeLasts

-----------------------------------------------------------------------------
(* Alerts: what a call has sent, against where it is                       *)

SentBy(d) == {m \in sent : m.from = d}

SentInv ==
  \A d \in Deliveries :
     /\ pc[d] \in {"idle", "lookup", "upsert"} => ~matched[d] /\ SentBy(d) = {}
     /\ matched[d] => SentBy(d) # {}
     /\ pc[d] = "notify" /\ ~matched[d] => SentBy(d) = {}

AlertInvariant == TypeOK /\ AlertTypeOK /\ SentInv

(* A step of Alerts is a step of IssueStore, or leaves its variables.      *)
LEMMA AlertStep ==
  ASSUME AlertInvariant, [AlertNext]_allVars
  PROVE  [Next]_vars
<1>1. CASE StoreNext
  BY <1>1 DEF StoreNext, Next, SaveEventStep, Operator, Dashboard
<1>2. ASSUME NEW d \in Deliveries, Evaluate(d) PROVE Next \/ UNCHANGED vars
  BY <1>2 DEF Evaluate, FetchRules, EvalRule, SkipRule, Finish, Next, SaveEventStep
<1>3. ASSUME NEW m \in sent, Press(m) PROVE Next
  <2>1. m.from \in Deliveries /\ m \in SentBy(m.from)
    BY DEF AlertInvariant, AlertTypeOK, Message, SentBy
  <2>2. pc[m.from] # "idle"
    BY <2>1 DEF AlertInvariant, SentInv
  <2>3. ev[m.from].id \in Ids
    BY <2>1, <2>2, ConstantsAssumption DEF AlertInvariant, TypeOK, Event
  <2>4. QED
    BY <1>3, <2>3 DEF Press, Next, Operator
<1>4. CASE AlertCrash
  BY <1>4 DEF AlertCrash, Next
<1>5. CASE ChangeRules \/ (\E p \in Projects, c \in Overrides : SaveSettings(p, c)) \/ UNCHANGED allVars
  BY <1>5 DEF ChangeRules, SaveSettings, allVars
<1>6. QED
  BY <1>1, <1>2, <1>3, <1>4, <1>5 DEF AlertNext

(* The store's own steps bring no call back to before its evaluation.      *)
LEMMA StorePc ==
  ASSUME TypeOK, StoreNext, NEW d \in Deliveries
  PROVE  /\ pc'[d] \in {"idle", "lookup", "upsert"} => pc[d] \in {"idle", "lookup", "upsert"}
         /\ pc'[d] = "notify" => pc[d] \in {"upsert", "notify"}
<1>1. ASSUME NEW c \in Deliveries, NEW e \in Events, Receive(c, e)
      PROVE  pc[c] = "idle" /\ pc' = [pc EXCEPT ![c] = "lookup"]
  BY <1>1 DEF Receive
<1>2. ASSUME NEW c \in Deliveries, Lookup(c)
      PROVE  pc[c] = "lookup" /\ pc' = [pc EXCEPT ![c] = "upsert"]
  BY <1>2 DEF Lookup
<1>3. ASSUME NEW c \in Deliveries, Upsert(c) \/ UpsertFails(c)
      PROVE  /\ pc[c] = "upsert"
             /\ \E to \in {"notify", "lost"} : pc' = [pc EXCEPT ![c] = to]
  BY <1>3 DEF Upsert, UpsertFails
<1>4. CASE Dashboard \/ RetentionCleanup \/ (\E p \in Projects : DeleteProjectEvents(p)) \/ Tick
  BY <1>4 DEF Dashboard, Resolve, Snooze, RetentionCleanup, DeleteProjectEvents, Delete, Tick, call
<1>5. QED
  BY <1>1, <1>2, <1>3, <1>4 DEF StoreNext, TypeOK

-----------------------------------------------------------------------------
(* The invariant is inductive                                              *)

LEMMA AlertInitInvariant == AlertInit => AlertInvariant
  BY InitType DEF AlertInit, AlertInvariant, AlertTypeOK, SentInv, SentBy, Init

LEMMA SendType ==
  ASSUME AlertInvariant, NEW d \in Deliveries, NEW kind \in {"rule", "default"},
         NEW config \in SUBSET Targets, Send(d, kind, config)
  PROVE  /\ sent' \subseteq Message
         /\ config # {} => SentBy(d)' # {}
         /\ SentBy(d) \subseteq SentBy(d)'
         /\ \A c \in Deliveries : c # d => SentBy(c)' = SentBy(c)
<1> DEFINE new == {[from |-> d, kind |-> kind, to |-> t] : t \in config}
<1>1. new \subseteq Message /\ (\A m \in new : m.from = d) /\ (config # {} => new # {})
  <2>1. \A t \in config : [from |-> d, kind |-> kind, to |-> t] \in new
    OBVIOUS
  <2>2. config # {} => new # {}
    <3> HIDE DEF new
    <3> QED BY <2>1
  <2>3. new \subseteq Message /\ \A m \in new : m.from = d
    BY DEF Message
  <2>4. QED
    BY <2>2, <2>3
<1>2. sent' = sent \cup new /\ sent \subseteq Message
  BY DEF Send, AlertInvariant, AlertTypeOK
<1> HIDE DEF new
<1>3. config # {} => SentBy(d)' # {}
  BY <1>1, <1>2 DEF SentBy
<1>4. SentBy(d) \subseteq SentBy(d)' /\ \A c \in Deliveries : c # d => SentBy(c)' = SentBy(c)
  BY <1>1, <1>2 DEF SentBy
<1>5. QED
  BY <1>1, <1>2, <1>3, <1>4

(* What the rules and the settings configure.                              *)
LEMMA ConfigTypes ==
  ASSUME AlertInvariant, NEW d \in Deliveries, pc[d] = "notify"
  PROVE  /\ ProjectFor(d) \in Projects
         /\ global \subseteq Targets /\ override[ProjectFor(d)] \subseteq Targets
         /\ Merged(global, override[ProjectFor(d)]) \subseteq Targets
<1>1. ProjectFor(d) \in Projects
  BY ConstantsAssumption DEF AlertInvariant, TypeOK, Event, ProjectFor
<1>2. global \in Config /\ override[ProjectFor(d)] \in Config
  BY <1>1, AlertsAssumption DEF AlertInvariant, AlertTypeOK
<1>3. QED
  BY <1>1, <1>2 DEF Config, Merged

(* What TriggerWebhooks sends: to the targets it could read, if any.       *)
LEMMA TriggerType ==
  ASSUME AlertInvariant, NEW d \in Deliveries, pc[d] = "notify", Trigger(d)
  PROVE  /\ sent' \subseteq Message
         /\ unread' \in SUBSET Deliveries
         /\ \A c \in Deliveries : c # d => SentBy(c)' = SentBy(c)
         /\ \/ SentBy(d)' # {}
            \/ global = {} /\ (override[ProjectFor(d)] = {} \/ d \in unread')
         /\ \A m \in sent' \ sent : m.from = d
<1>0. unread \subseteq Deliveries
  BY DEF AlertInvariant, AlertTypeOK
<1>1. ASSUME NEW config \in SUBSET Targets, Send(d, "default", config)
      PROVE  \A m \in sent' \ sent : m.from = d
  BY <1>1 DEF Send
<1>2. CASE Send(d, "default", Merged(global, override[ProjectFor(d)])) /\ UNCHANGED unread
  <2>1. Merged(global, override[ProjectFor(d)]) = {} => global = {} /\ override[ProjectFor(d)] = {}
    BY DEF Merged
  <2>2. QED
    BY <1>0, <1>1, <1>2, <2>1, ConfigTypes, SendType
<1>3. CASE Send(d, "default", global) /\ unread' = unread \cup {d}
  BY <1>0, <1>1, <1>3, ConfigTypes, SendType
<1>4. QED
  BY <1>2, <1>3 DEF Trigger

LEMMA EvaluateInvariant ==
  ASSUME AlertInvariant, NEW d \in Deliveries, Evaluate(d)
  PROVE  AlertTypeOK' /\ SentInv'
<1> USE DEF AlertInvariant
<1>1. CASE FetchRules(d)
  <2>1. todo' \in [Deliveries -> SUBSET Rules]
    BY <1>1 DEF FetchRules, AlertTypeOK
  <2>2. QED
    BY <1>1, <2>1 DEF FetchRules, AlertTypeOK, SentInv, SentBy, vars, call, settings
<1>2. ASSUME NEW r \in Rules, EvalRule(d, r) PROVE AlertTypeOK' /\ SentInv'
  <2>1. r.targets \in SUBSET Targets /\ r.targets # {}
    BY AlertsAssumption DEF Rule, Config
  <2>2. /\ pc' = pc /\ pc[d] = "notify" /\ fetched' = fetched
        /\ rules' = rules /\ global' = global /\ override' = override /\ unread' = unread
    BY <1>2 DEF EvalRule, vars, call, settings
  <2>3. todo' \in [Deliveries -> SUBSET Rules]
    BY <1>2 DEF EvalRule, AlertTypeOK
  <2>4. matched' \in [Deliveries -> BOOLEAN] /\ \A c \in Deliveries : c # d => matched'[c] = matched[c]
    BY <1>2 DEF EvalRule, AlertTypeOK
  <2>5. CASE Fires(d, r)
    <3>1. matched'[d]
      BY <1>2, <2>5 DEF EvalRule, Match, AlertTypeOK
    <3>2. Send(d, "rule", r.targets)
      BY <1>2, <2>5 DEF EvalRule
    <3>3. QED
      BY <2>1, <2>2, <2>3, <2>4, <3>1, <3>2, SendType DEF AlertTypeOK, SentInv
  <2>6. CASE ~Fires(d, r)
    <3>1. matched'[d] = matched[d] /\ sent' = sent
      BY <1>2, <2>6 DEF EvalRule, Match, AlertTypeOK
    <3>2. QED
      BY <2>2, <2>3, <2>4, <3>1 DEF AlertTypeOK, SentInv, SentBy
  <2>7. QED
    BY <2>5, <2>6
<1>3. ASSUME NEW r \in Rules, SkipRule(d, r) PROVE AlertTypeOK' /\ SentInv'
  <2>1. todo' \in [Deliveries -> SUBSET Rules]
    BY <1>3 DEF SkipRule, AlertTypeOK
  <2>2. QED
    BY <1>3, <2>1 DEF SkipRule, AlertTypeOK, SentInv, SentBy, vars, call, settings
<1>4. CASE Finish(d)
  <2>1. pc[d] = "notify" /\ pc' = [pc EXCEPT ![d] = "done"]
    BY <1>4 DEF Finish, Notify
  <2>2. /\ rules' = rules /\ global' = global /\ override' = override /\ todo' = todo
        /\ fetched' = [fetched EXCEPT ![d] = FALSE]
        /\ matched' = [matched EXCEPT ![d] = FALSE]
    BY <1>4 DEF Finish, settings
  <2>4. /\ sent' \subseteq Message /\ unread' \subseteq Deliveries
        /\ \A c \in Deliveries : c # d => SentBy(c)' = SentBy(c)
    <3>1. CASE Falls(d)
      <4>1. Trigger(d)
        BY <1>4, <3>1 DEF Finish
      <4>2. QED
        BY <2>1, <4>1, TriggerType
    <3>2. CASE ~Falls(d)
      BY <1>4, <3>2 DEF Finish, SentBy, AlertTypeOK
    <3>3. QED
      BY <3>1, <3>2
  <2>5. AlertTypeOK'
    BY <2>2, <2>4 DEF AlertTypeOK
  <2>6. pc'[d] = "done" /\ ~matched'[d]
    BY <2>1, <2>2 DEF TypeOK, AlertTypeOK
  <2>7. \A c \in Deliveries : c # d => pc'[c] = pc[c] /\ matched'[c] = matched[c]
    BY <2>1, <2>2
  <2>8. SentInv'
    BY <2>4, <2>6, <2>7 DEF SentInv
  <2>9. QED
    BY <2>5, <2>8
<1>5. QED
  BY <1>1, <1>2, <1>3, <1>4 DEF Evaluate

LEMMA AlertNextInvariant == AlertInvariant /\ [AlertNext]_allVars => AlertInvariant'
<1> SUFFICES ASSUME AlertInvariant, [AlertNext]_allVars PROVE AlertInvariant'
  OBVIOUS
<1>1. TypeOK'
  BY AlertStep, NextType DEF AlertInvariant
<1>2. CASE StoreNext
  <2>1. UNCHANGED alertVars
    BY <1>2 DEF StoreNext
  <2>2. QED
    BY <1>1, <1>2, <2>1, StorePc
    DEF AlertInvariant, AlertTypeOK, SentInv, SentBy, alertVars, evaluation, settings
<1>3. ASSUME NEW d \in Deliveries, Evaluate(d) PROVE AlertInvariant'
  BY <1>1, <1>3, EvaluateInvariant DEF AlertInvariant
<1>4. ASSUME NEW m \in sent, Press(m) PROVE AlertInvariant'
  BY <1>1, <1>4 DEF Press, TelegramResolve, AlertInvariant, AlertTypeOK, SentInv, SentBy,
                    alertVars, evaluation, settings, call
<1>5. CASE AlertCrash
  <2>1. \A d \in Deliveries : pc'[d] \in {"idle", "lookup", "upsert", "notify"} => pc'[d] = "idle" /\ pc[d] = "idle"
    BY <1>5 DEF AlertCrash, Crash, InFlight, Running, AlertInvariant, TypeOK, PC
  <2>2. \A d \in Deliveries : ~matched'[d]
    BY <1>5 DEF AlertCrash
  <2>3. sent' = sent /\ AlertTypeOK'
    BY <1>5 DEF AlertCrash, AlertInvariant, AlertTypeOK, settings
  <2>4. QED
    BY <1>1, <2>1, <2>2, <2>3 DEF AlertInvariant, SentInv, SentBy
<1>6. CASE ChangeRules
  <2>1. rules' \subseteq Rules
    BY <1>6 DEF ChangeRules, AddRule, RemoveRule, AlertInvariant, AlertTypeOK
  <2>2. QED
    BY <1>1, <1>6, <2>1
    DEF ChangeRules, AlertInvariant, AlertTypeOK, SentInv, SentBy, evaluation, vars, call
<1>7. ASSUME NEW p \in Projects, NEW config \in Overrides, SaveSettings(p, config)
      PROVE  AlertInvariant'
  <2>1. override' \in [Projects -> Overrides]
    BY <1>7 DEF SaveSettings, AlertInvariant, AlertTypeOK
  <2>2. QED
    BY <1>1, <1>7, <2>1
    DEF SaveSettings, AlertInvariant, AlertTypeOK, SentInv, SentBy, evaluation, vars, call
<1>8. CASE UNCHANGED allVars
  BY <1>1, <1>8
  DEF AlertInvariant, AlertTypeOK, SentInv, SentBy, allVars, alertVars, evaluation, settings, vars, call
<1>9. QED
  BY <1>2, <1>3, <1>4, <1>5, <1>6, <1>7, <1>8 DEF AlertNext

(* The types of Alerts.                                                    *)
THEOREM AlertTypeCorrect == AlertSpec => []AlertTypeOK
<1>1. AlertInvariant => AlertTypeOK
  BY DEF AlertInvariant
<1>2. QED
  BY <1>1, AlertInitInvariant, AlertNextInvariant, PTL DEF AlertSpec

(* Alerts implements IssueStore, so every theorem above about the store    *)
(* holds of it too: rules, webhooks and buttons cannot disturb it          *)
(* beyond what a resolve of a client's event id does.                      *)
THEOREM AlertsImplementStore == AlertSpec => Spec
<1>1. AlertInit => Init
  BY DEF AlertInit
<1>2. AlertInvariant /\ [AlertNext]_allVars => [Next]_vars
  BY AlertStep
<1>3. QED
  BY <1>1, <1>2, AlertInitInvariant, AlertNextInvariant, PTL DEF AlertSpec, Spec

-----------------------------------------------------------------------------
(* From the decision to the webhooks                                       *)

(* Only Finish ends a call that could still alert.                         *)
LEMMA WhoFinishes ==
  ASSUME AlertInvariant, [AlertNext]_allVars, NEW d \in Deliveries,
         pc[d] = "notify", pc'[d] = "done"
  PROVE  Finish(d)
<1> USE DEF AlertInvariant
<1>1. ASSUME NEW c \in Deliveries, Evaluate(c) PROVE Finish(d)
  <2>1. CASE Finish(c)
    BY <2>1 DEF Finish, Notify, TypeOK
  <2>2. CASE ~Finish(c)
    BY <1>1, <2>2 DEF Evaluate, FetchRules, EvalRule, SkipRule, vars, call
  <2>3. QED
    BY <2>1, <2>2
<1>2. CASE StoreNext
  <2>1. ASSUME NEW c \in Deliveries, NEW e \in Events, Receive(c, e) PROVE FALSE
    BY <2>1 DEF Receive, TypeOK
  <2>2. ASSUME NEW c \in Deliveries, Lookup(c) \/ Upsert(c) \/ UpsertFails(c) PROVE FALSE
    BY <2>2 DEF Lookup, Upsert, UpsertFails, TypeOK
  <2>3. CASE Dashboard \/ RetentionCleanup \/ (\E p \in Projects : DeleteProjectEvents(p)) \/ Tick
    BY <2>3 DEF Dashboard, Resolve, Snooze, RetentionCleanup, DeleteProjectEvents, Delete, Tick, call
  <2>4. QED
    BY <1>2, <2>1, <2>2, <2>3 DEF StoreNext
<1>3. \A m \in sent : ~Press(m)
  BY DEF Press, TelegramResolve, call
<1>4. ~AlertCrash
  BY DEF AlertCrash, Crash, InFlight, Running
<1>5. /\ ~ChangeRules /\ ~UNCHANGED allVars
      /\ \A p \in Projects, c \in Overrides : ~SaveSettings(p, c)
  BY DEF ChangeRules, SaveSettings, allVars, vars, call
<1>6. QED
  BY <1>1, <1>2, <1>3, <1>4, <1>5 DEF AlertNext

(* A call that created or reopened an issue, overtaken by no operator and  *)
(* no deletion, has sent a message when it returns, whatever the rules and *)
(* the settings: unless the command line configures no target, and the     *)
(* project none that the call could read.                                  *)
THEOREM OpenedAreAlerted == AlertSpec => OpenedIsAlerted
<1>1. ASSUME AlertInvariant, NoSilentOpening, [AlertNext]_allVars, NEW d \in Deliveries,
             pc[d] = "notify", pc'[d] = "done",
             opened[d], ~meddled[d], old[d] # "unreadable"
      PROVE  \/ \E m \in sent' : m.from = d
             \/ global = {} /\ (override[ProjectFor(d)] = {} \/ d \in unread')
  <2>1. Finish(d)
    BY <1>1, WhoFinishes
  <2>2. should[d]
    BY <1>1 DEF NoSilentOpening
  <2>3. CASE Falls(d)
    <3>1. Trigger(d)
      BY <2>1, <2>3 DEF Finish
    <3>2. QED
      BY <1>1, <3>1, TriggerType DEF SentBy
  <2>4. CASE ~Falls(d)
    <3>1. matched[d] /\ sent' = sent
      BY <2>1, <2>2, <2>4 DEF Finish, Falls
    <3>2. QED
      BY <1>1, <3>1 DEF AlertInvariant, SentInv, SentBy
  <2>5. QED
    BY <2>3, <2>4
<1>2. AlertInvariant /\ NoSilentOpening /\ [AlertNext]_allVars =>
        [\A d \in Deliveries :
           /\ pc[d] = "notify" /\ pc'[d] = "done"
           /\ opened[d] /\ ~meddled[d] /\ old[d] # "unreadable"
           => \/ \E m \in sent' : m.from = d
              \/ global = {} /\ (override[ProjectFor(d)] = {} \/ d \in unread')]_allVars
  BY <1>1
<1>3. QED
  BY <1>2, AlertInitInvariant, AlertNextInvariant, AlertDecision, AlertsImplementStore, PTL
  DEF AlertSpec, OpenedIsAlerted

(* A default message is sent only by a call that opened the issue or was   *)
(* overtaken by another writer, and never after a rule's message.          *)
THEOREM DefaultsAreEarned == AlertSpec => DefaultIsEarned
<1>1. ASSUME AlertInvariant, NoSpuriousAlert, [AlertNext]_allVars,
             NEW m \in sent' \ sent, m.kind = "default"
      PROVE  /\ opened[m.from] \/ meddled[m.from] \/ contended[m.from]
             /\ ~\E n \in sent : n.from = m.from /\ n.kind = "rule"
  <2>1. PICK d \in Deliveries : Evaluate(d)
    BY <1>1 DEF AlertNext, StoreNext, alertVars, Press, AlertCrash, ChangeRules, SaveSettings, allVars
  <2>2. Finish(d) /\ Falls(d)
    <3>1. ~FetchRules(d)
      BY <1>1 DEF FetchRules
    <3>2. \A r \in Rules : ~SkipRule(d, r)
      BY <1>1 DEF SkipRule
    <3>3. \A r \in Rules : ~EvalRule(d, r)
      <4> SUFFICES ASSUME NEW r \in Rules, EvalRule(d, r) PROVE FALSE
        OBVIOUS
      <4>1. Send(d, "rule", r.targets)
        BY <1>1 DEF EvalRule
      <4>2. m \in {[from |-> d, kind |-> "rule", to |-> t] : t \in r.targets}
        BY <1>1, <4>1 DEF Send
      <4>3. QED
        BY <1>1, <4>2
    <3>4. Finish(d)
      BY <2>1, <3>1, <3>2, <3>3 DEF Evaluate
    <3>5. QED
      BY <1>1, <3>4 DEF Finish
  <2>3. pc[d] = "notify" /\ ~matched[d] /\ should[d]
    BY <2>2 DEF Finish, Notify, Falls
  <2>4. m.from = d
    <3>1. Trigger(d)
      BY <2>2 DEF Finish
    <3>2. QED
      BY <1>1, <2>3, <3>1, TriggerType
  <2>5. SentBy(d) = {}
    BY <1>1, <2>3 DEF AlertInvariant, SentInv
  <2>6. QED
    BY <1>1, <2>3, <2>4, <2>5 DEF NoSpuriousAlert, SentBy
<1>2. AlertInvariant /\ NoSpuriousAlert /\ [AlertNext]_allVars =>
        [\A m \in sent' \ sent : m.kind = "default" =>
           /\ opened[m.from] \/ meddled[m.from] \/ contended[m.from]
           /\ ~\E n \in sent : n.from = m.from /\ n.kind = "rule"]_allVars
  BY <1>1
<1>3. QED
  BY <1>2, AlertInitInvariant, AlertNextInvariant, AlertDecision, AlertsAreJustified, AlertsImplementStore, PTL
  DEF AlertSpec, DefaultIsEarned
=============================================================================
