--------------------------- MODULE IssueLifecycle ---------------------------
(***************************************************************************)
(* What the issue store promises about one issue, whatever the server does *)
(* inside.  An issue is the row of the events table that one (project,     *)
(* message, level) key owns; README.md of the program, section Issue       *)
(* Tracking, describes it from outside: an error becomes an issue when it  *)
(* first occurs, only an operator closes it, and a recurrence reopens it   *)
(* unless a snooze or a "resolved in next release" gate holds it back.     *)
(***************************************************************************)
EXTENDS Naturals

CONSTANT Keys

VARIABLES
  life,            \* life[k]: the state of the issue of key k
  hits             \* hits[k]: its occurrences, 0 when there is no issue

Closed == {"resolved", "gated", "snoozed"}
Life   == {"absent", "open"} \cup Closed

LifeInit == /\ life = [k \in Keys |-> "absent"]
            /\ hits = [k \in Keys |-> 0]

(* An event for k is stored and counted: the issue is open afterwards, or  *)
(* a gate or a snooze held it closed.                                      *)
Occur(k) ==
  /\ hits' = [hits EXCEPT ![k] = @ + 1]
  /\ \/ life' = [life EXCEPT ![k] = "open"]
     \/ life[k] \in {"gated", "snoozed"} /\ UNCHANGED life

(* The operator closes one issue, in the dashboard or from Telegram.       *)
Close(k) ==
  /\ life[k] # "absent"
  /\ \E s \in Closed : life' = [life EXCEPT ![k] = s]
  /\ UNCHANGED hits

(* Retention, or the deletion of a project, forgets a set of issues.       *)
Forget(S) ==
  /\ life' = [k \in Keys |-> IF k \in S THEN "absent" ELSE life[k]]
  /\ hits' = [k \in Keys |-> IF k \in S THEN 0 ELSE hits[k]]

LifeNext == \/ \E k \in Keys : Occur(k) \/ Close(k)
            \/ \E S \in SUBSET Keys : Forget(S)

LifeSpec == LifeInit /\ [][LifeNext]_<<life, hits>>
=============================================================================
