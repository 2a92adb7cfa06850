----------------------------- MODULE IssueStore -----------------------------
(***************************************************************************)
(* The events table of PocketSentry and everything that writes it: the     *)
(* goroutines that run saveEvent (one per delivery of an event, from the   *)
(* store and envelope endpoints and from eBPF), the operator's resolve and *)
(* snooze requests, the Telegram resolve button, the retention cleaner and *)
(* the deletion of a project.  Every SQL statement is one atomic step; the *)
(* goroutines interleave between statements.                               *)
(*                                                                         *)
(* Times are slots of the clock, formatted by the code as strings whose    *)
(* order is the order of time; 0 stands for the empty string.              *)
(***************************************************************************)
EXTENDS Naturals, FiniteSets

CONSTANTS
  Deliveries,      \* the calls of saveEvent, one goroutine each
  Keys,            \* (project_id, message after grouping, level)
  Ids,             \* event ids chosen by the clients
  Releases,        \* values of $.release, the empty one included
  Envs,            \* values of ev.Environment, the empty one included
  Events,          \* the events clients may deliver
  Projects, ProjectOf, DefaultProject,
  Durations,       \* what an operator may snooze for, in slots
  RetentionDays,   \* RETENTION_DAYS, 0 disables the cleaner
  SlotsPerDay,     \* slots of the clock in one day
  MaxTime,         \* bound: the last slot of the clock
  NoRow, NoEvent

Status == {"unresolved", "resolved", "snoozed"}

Row == [id : Ids, count : Nat \ {0}, status : Status, gate : BOOLEAN,
        until : Nat, release : Releases, lastSeen : Nat]

Event == [id : Ids, key : Keys, release : Releases, env : Envs, ts : Nat]

ASSUME ConstantsAssumption ==
  /\ IsFiniteSet(Deliveries)
  /\ Events \subseteq Event
  /\ ProjectOf \in [Keys -> Projects]
  /\ Durations \subseteq Nat
  /\ RetentionDays \in Nat /\ SlotsPerDay \in Nat \ {0} /\ MaxTime \in Nat
  /\ NoRow \notin Row /\ NoEvent \notin Events

VARIABLES
  now,        \* the server's clock
  rows,       \* the events table, by its unique index
  pc,         \* where each call of saveEvent is
  ev,         \* its argument
  stamp,      \* its tsStr
  old,        \* its oldStatus and isNew
  should,     \* its shouldNotify
  opened,     \* history: its statement created or reopened the issue
  meddled,    \* history: the row was closed or deleted since its SELECT
  contended,  \* history: another call wrote the row since its SELECT
  purged,     \* history: keys whose row was deleted
  how,        \* history: how the operator last resolved the issue
  baseline    \* history: the release stored at that moment

call    == <<pc, ev, stamp, old, should>>
history == <<opened, meddled, contended, purged, how, baseline>>
vars    == <<now, rows, call, history>>

Old == {"absent", "unreadable"} \cup Status
PC  == {"idle", "lookup", "upsert", "notify", "done", "lost", "silenced"}
Running == {"lookup", "upsert", "notify"}

Init ==
  /\ now = 1
  /\ rows = [k \in Keys |-> NoRow]
  /\ pc = [d \in Deliveries |-> "idle"]
  /\ ev = [d \in Deliveries |-> NoEvent]
  /\ stamp = [d \in Deliveries |-> 0]
  /\ old = [d \in Deliveries |-> "absent"]
  /\ should = [d \in Deliveries |-> FALSE]
  /\ opened = [d \in Deliveries |-> FALSE]
  /\ meddled = [d \in Deliveries |-> FALSE]
  /\ contended = [d \in Deliveries |-> FALSE]
  /\ purged = {}
  /\ how = [k \in Keys |-> "never"]
  /\ baseline = [k \in Keys |-> {}]

(* The calls of D return, or vanish: their local variables are gone.       *)
Return(D) ==
  LET Reset(local, v) == [d \in Deliveries |-> IF d \in D THEN v ELSE local[d]]
  IN  /\ stamp' = Reset(stamp, 0)
      /\ old' = Reset(old, "absent")
      /\ should' = Reset(should, FALSE)
      /\ opened' = Reset(opened, FALSE)
      /\ meddled' = Reset(meddled, FALSE)
      /\ contended' = Reset(contended, FALSE)
      /\ UNCHANGED <<ev, purged, how, baseline>>

Present(k)  == rows[k] # NoRow
StatusOf(k) == IF Present(k) THEN rows[k].status ELSE "absent"
Day(t) == t \div SlotsPerDay

-----------------------------------------------------------------------------
(* saveEvent                                                               *)

(* The event is parsed, grouped, and stamped: by the client's clock if it  *)
(* carries a timestamp, else by the server's.                              *)
Receive(d, e) ==
  /\ pc[d] = "idle"
  /\ pc' = [pc EXCEPT ![d] = "lookup"]
  /\ ev' = [ev EXCEPT ![d] = e]
  /\ stamp' = [stamp EXCEPT ![d] = IF e.ts = 0 THEN now ELSE e.ts]
  /\ UNCHANGED <<now, rows, old, should, history>>

(* SELECT status: no row makes the event new; an error reads as neither.   *)
Lookup(d) ==
  /\ pc[d] = "lookup"
  /\ pc' = [pc EXCEPT ![d] = "upsert"]
  /\ \E found \in {"unreadable", StatusOf(ev[d].key)} :
        old' = [old EXCEPT ![d] = found]
  /\ UNCHANGED <<now, rows, ev, stamp, should, history>>

FirstRow(e, t) ==
  [id |-> e.id, count |-> 1, status |-> "unresolved", gate |-> FALSE,
   until |-> 0, release |-> e.release, lastSeen |-> t]

(* ON CONFLICT(project_id, message, level) DO UPDATE.                      *)
HeldByGate_anyRelease(row, e) == row.status = "resolved" /\ row.gate          \* mutant
HeldByGate_noGate(row, e) == row.status = "resolved" /\ e.release = row.release \* mutant
HeldBySnooze_swapped(row, t) == row.status = "snoozed" /\ row.until < t         \* mutant
HeldByGate(row, e)   == row.status = "resolved" /\ row.gate /\ e.release = row.release
HeldBySnooze(row, t) == row.status = "snoozed" /\ row.until > t
Merge(row, e, t) ==
  [row EXCEPT
     !.count    = @ + 1,
     !.lastSeen = t,
     !.status   = IF HeldByGate(row, e) THEN "resolved"
                  ELSE IF HeldBySnooze(row, t) THEN "snoozed" ELSE "unresolved",
     !.gate     = @ /\ ~(row.status = "resolved" /\ e.release # row.release),
     !.until    = IF row.status = "snoozed" /\ @ <= t THEN 0 ELSE @,
     !.release  = e.release]

Stored_replaces(e, t) == FirstRow(e, t)                     \* mutant: INSERT OR REPLACE
(* What the statement leaves in the row of e's key.                        *)
Stored(e, t) ==
  IF Present(e.key) THEN Merge(rows[e.key], e, t) ELSE FirstRow(e, t)

(* A new row under an id that another row has violates the primary key.    *)
IdTaken(e) == ~Present(e.key) /\ \E k \in Keys : Present(k) /\ rows[k].id = e.id

(* Mutants: reopening from a snooze, or not reopening at all, is missed.   *)
ShouldNotify_notSnoozed(was, is) ==
  was = "absent" \/ (was = "resolved" /\ is = "unresolved")
ShouldNotify_anyClosed(was, is) == was \in {"absent", "resolved", "snoozed"}

ShouldNotify(was, is) ==
  was = "absent" \/ (was \in {"resolved", "snoozed"} /\ is = "unresolved")

Upsert(d) ==
  LET e   == ev[d]
      row == Stored(e, stamp[d])
  IN  /\ pc[d] = "upsert"
      /\ ~IdTaken(e)
      /\ rows' = [rows EXCEPT ![e.key] = row]
      /\ pc' = [pc EXCEPT ![d] = "notify"]
      /\ should' = [should EXCEPT ![d] = ShouldNotify(old[d], row.status)]
      /\ opened' = [opened EXCEPT ![d] =
            row.status = "unresolved" /\ StatusOf(e.key) # "unresolved"]
      /\ contended' = [c \in Deliveries |->
            contended[c] \/ (c # d /\ pc[c] = "upsert" /\ ev[c].key = e.key)]
      /\ UNCHANGED <<now, ev, stamp, old, meddled, purged, how, baseline>>

(* The statement fails, on the primary key or in the database: saveEvent   *)
(* returns the error, the handler logs it and answers 200 all the same.    *)
UpsertFails(d) ==
  /\ pc[d] = "upsert"
  /\ pc' = [pc EXCEPT ![d] = "lost"]
  /\ Return({d})
  /\ UNCHANGED <<now, rows>>

(* EvaluateAndTriggerWebhooks has run (module Alerts looks inside).        *)
Notify(d) ==
  /\ pc[d] = "notify"
  /\ pc' = [pc EXCEPT ![d] = "done"]
  /\ Return({d})
  /\ UNCHANGED <<now, rows>>

(* The process dies: the calls vanish, the database stays.                 *)
InFlight == {d \in Deliveries : pc[d] \in Running}
Crash ==
  /\ InFlight # {}
  /\ pc' = [d \in Deliveries |-> IF d \notin InFlight THEN pc[d]
                                  ELSE IF pc[d] = "notify" THEN "silenced" ELSE "lost"]
  /\ Return(InFlight)
  /\ UNCHANGED <<now, rows>>

-----------------------------------------------------------------------------
(* The other writers                                                       *)

Meddle(S) == [d \in Deliveries |->
                meddled[d] \/ (pc[d] = "upsert" /\ ev[d].key \in S)]

HasId(k, id) == Present(k) /\ rows[k].id = id

(* POST /api/events/resolve/{id}, with next=true or without.               *)
Resolve(id, next) ==
  LET hit == {k \in Keys : HasId(k, id)}
  IN  /\ hit # {}
      /\ rows' = [k \in Keys |-> IF k \in hit
                    THEN [rows[k] EXCEPT !.status = "resolved", !.gate = next]
                    ELSE rows[k]]
      /\ meddled' = Meddle(hit)
      /\ how' = [k \in Keys |-> IF k \notin hit THEN how[k]
                                ELSE IF next THEN "next" ELSE "plain"]
      /\ baseline' = [k \in Keys |-> IF k \in hit THEN {rows[k].release} ELSE baseline[k]]
      /\ UNCHANGED <<now, call, opened, contended, purged>>

(* POST /api/events/resolve/{id}?snooze=duration                           *)
Snooze(id, duration) ==
  LET hit == {k \in Keys : HasId(k, id)}
  IN  /\ hit # {}
      /\ rows' = [k \in Keys |-> IF k \in hit
                    THEN [rows[k] EXCEPT !.status = "snoozed", !.until = now + duration]
                    ELSE rows[k]]
      /\ meddled' = Meddle(hit)
      /\ UNCHANGED <<now, call, opened, contended, purged, how, baseline>>

(* The poller's UPDATE for a resolve_{id} callback: the status alone.  An  *)
(* issue that is resolved already stays resolved the way it was.           *)
TelegramResolve(id) ==
  LET hit == {k \in Keys : HasId(k, id)}
  IN  /\ hit # {}
      /\ rows' = [k \in Keys |-> IF k \in hit
                    THEN [rows[k] EXCEPT !.status = "resolved"] ELSE rows[k]]
      /\ meddled' = Meddle(hit)
      /\ how' = [k \in Keys |-> IF k \in hit /\ rows[k].status # "resolved"
                                THEN "plain" ELSE how[k]]
      /\ UNCHANGED <<now, call, opened, contended, purged, baseline>>

Delete(S) ==
  /\ rows' = [k \in Keys |-> IF k \in S THEN NoRow ELSE rows[k]]
  /\ purged' = purged \cup S
  /\ meddled' = Meddle(S)
  /\ UNCHANGED <<now, call, opened, contended, how, baseline>>

(* The cleaner compares last_seen, an RFC 3339 string, with the text of    *)
(* datetime('now', '-N days'): on the cutoff's own day the 'T' of the one  *)
(* sorts after the space of the other, so only whole days count.           *)
Expired == {k \in Keys : Present(k) /\ Day(rows[k].lastSeen) + RetentionDays < Day(now)}
RetentionCleanup == RetentionDays > 0 /\ Expired # {} /\ Delete(Expired)

(* The first statement of deleteProjectHandler; project "1" is refused.    *)
DeleteProjectEvents(p) ==
  LET S == {k \in Keys : Present(k) /\ ProjectOf[k] = p}
  IN  p # DefaultProject /\ S # {} /\ Delete(S)

Tick == now < MaxTime /\ now' = now + 1 /\ UNCHANGED <<rows, call, history>>

-----------------------------------------------------------------------------
SaveEventStep(d) == Lookup(d) \/ Upsert(d) \/ UpsertFails(d) \/ Notify(d)

Operator == \E id \in Ids :
              \/ \E next \in BOOLEAN : Resolve(id, next)
              \/ \E duration \in Durations : Snooze(id, duration)
              \/ TelegramResolve(id)

Next ==
  \/ \E d \in Deliveries : (\E e \in Events : Receive(d, e)) \/ SaveEventStep(d)
  \/ Crash
  \/ Operator
  \/ RetentionCleanup
  \/ \E p \in Projects : DeleteProjectEvents(p)
  \/ Tick

Spec == Init /\ [][Next]_vars

-----------------------------------------------------------------------------
(* Types                                                                   *)

TypeOK ==
  /\ now \in Nat
  /\ rows \in [Keys -> Row \cup {NoRow}]
  /\ pc \in [Deliveries -> PC]
  /\ ev \in [Deliveries -> Events \cup {NoEvent}]
  /\ \A d \in Deliveries : pc[d] # "idle" => ev[d] \in Events
  /\ stamp \in [Deliveries -> Nat]
  /\ old \in [Deliveries -> Old]
  /\ should \in [Deliveries -> BOOLEAN]
  /\ opened \in [Deliveries -> BOOLEAN]
  /\ meddled \in [Deliveries -> BOOLEAN]
  /\ contended \in [Deliveries -> BOOLEAN]
  /\ purged \subseteq Keys
  /\ how \in [Keys -> {"never", "plain", "next"}]
  /\ baseline \in [Keys -> SUBSET Releases]

-----------------------------------------------------------------------------
(* Properties                                                              *)

(* README.md:76-77.  saveEvent decides whether to alert from a status it   *)
(* read one statement earlier.  A call that created or reopened an issue   *)
(* and still does not alert had its SELECT fail, or the operator, the      *)
(* cleaner or a project deletion wrote the row between its two statements; *)
(* other deliveries racing with it never suppress the alert.               *)
NoSilentOpening ==
  \A d \in Deliveries :
     pc[d] = "notify" /\ opened[d] /\ ~should[d] => meddled[d] \/ old[d] = "unreadable"

(* The other direction: a call that alerts for an issue it neither created *)
(* nor reopened was overtaken between its two statements.                  *)
NoSpuriousAlert ==
  \A d \in Deliveries :
     pc[d] = "notify" /\ should[d] /\ ~opened[d] => meddled[d] \/ contended[d]

(* Why the two hold: what the SELECT read is still so at the upsert, as    *)
(* long as nobody else wrote the row; and an open issue stays open         *)
(* whatever other deliveries do to it.                                     *)
Undisturbed ==
  \A d \in Deliveries :
     pc[d] = "upsert" /\ ~meddled[d] /\ old[d] # "unreadable" =>
        /\ old[d] = "unresolved" => StatusOf(ev[d].key) = "unresolved"
        /\ ~contended[d] => old[d] = StatusOf(ev[d].key)

(* README.md:65.  The hit counter loses and invents nothing: as long as no *)
(* row of the key was deleted, it is the number of calls whose statement   *)
(* succeeded, in whatever order they ran and whenever the server crashed.  *)
Saved(k) == {d \in Deliveries : pc[d] \in {"notify", "done", "silenced"} /\ ev[d].key = k}
HitsOf(k) == IF Present(k) THEN rows[k].count ELSE 0
HitCounter ==
  \A k \in Keys \ purged :
     Cardinality(Saved(k)) = HitsOf(k)

(* README.md:87.  An issue resolved "in next release" and still resolved   *)
(* has its gate, and every occurrence it absorbed came from the release it *)
(* was resolved in: the gate compares with the latest payload, which each  *)
(* occurrence replaces.                                                    *)
GateHoldsRelease ==
  \A k \in Keys :
     Present(k) /\ rows[k].status = "resolved" /\ how[k] = "next" =>
        rows[k].gate /\ baseline[k] = {rows[k].release}

(* README.md:262.  An event without a timestamp of its own never ends a    *)
(* snooze early, however long its goroutine lingers between its steps.     *)
SnoozeLasts ==
  [][\A k \in Keys, d \in Deliveries :
        /\ pc[d] = "upsert" /\ pc'[d] = "notify"
        /\ ev[d].key = k /\ ev[d].ts = 0
        /\ Present(k) /\ rows[k].status = "snoozed" /\ rows'[k].status # "snoozed"
        => rows[k].until <= now]_vars

(* The issue store implements the life cycle of IssueLifecycle: a delivery *)
(* opens at most its own issue, an operator request closes exactly one,    *)
(* and a plainly resolved issue never absorbs an occurrence.               *)
LifeOf(k) ==
  CASE StatusOf(k) = "unresolved" -> "open"
    [] StatusOf(k) = "resolved" /\ rows[k].gate -> "gated"
    [] OTHER -> StatusOf(k)

life == [k \in Keys |-> LifeOf(k)]
hits == [k \in Keys |-> HitsOf(k)]

Lifecycle == INSTANCE IssueLifecycle WITH life <- life, hits <- hits
ImplementsLifecycle == Lifecycle!LifeSpec

-----------------------------------------------------------------------------
(* What the documents say and the code does not do                         *)

(* notify.go:142-143: shouldNotify is true only for a new or a reopened    *)
(* event.                                                                  *)
AlertOnlyForNewOrReopened ==
  \A d \in Deliveries : pc[d] = "notify" /\ should[d] => opened[d]

(* README.md:77: an issue resolved directly, without a gate, "automatically *)
(* reopens if the error reoccurs".                                         *)
ResolvedReopens ==
  [][\A k \in Keys, d \in Deliveries :
        /\ pc[d] = "upsert" /\ pc'[d] = "notify" /\ ev[d].key = k
        /\ Present(k) /\ rows[k].status = "resolved" /\ how[k] = "plain"
        => rows'[k].status = "unresolved"]_vars

(* README.md:262: a snooze mutes the issue "for a specific time".          *)
SnoozeLastsAlways ==
  [][\A k \in Keys, d \in Deliveries :
        /\ pc[d] = "upsert" /\ pc'[d] = "notify" /\ ev[d].key = k
        /\ Present(k) /\ rows[k].status = "snoozed" /\ rows'[k].status # "snoozed"
        => rows[k].until <= now]_vars

(* README.md:182: the cleaner deletes "events older than N days": an issue *)
(* with a younger occurrence, by the client's own timestamp, stays.        *)
RetentionKeepsRecent ==
  [][RetentionCleanup =>
        \A k \in Expired : \A d \in Saved(k) :
             ev[d].ts > 0 => Day(ev[d].ts) + RetentionDays < Day(now)]_vars
=============================================================================
