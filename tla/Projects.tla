------------------------------ MODULE Projects ------------------------------
(***************************************************************************)
(* Projects: rows whose ids the server counts up and whose events other    *)
(* tables refer to by that id alone.  Requests that create a project read  *)
(* the highest id and insert the next one, requests that delete a project  *)
(* delete its events and then the project, and events keep arriving for    *)
(* any id at any time; nothing of it is a transaction, every statement may *)
(* fail, and the process may die between any two.                          *)
(***************************************************************************)
EXTENDS Integers, FiniteSets

CONSTANTS
  Creators,   \* requests to POST /api/projects, one goroutine each
  Deleters,   \* requests to POST /api/projects/delete/{id}
  Senders,    \* events sent to /api/{id}/store/ or /api/{id}/envelope/
  MaxId       \* bound: the highest id that is given away

ASSUME ProjectsAssumption == MaxId \in Nat \ {0}

Ids     == 1..MaxId
Default == 1                    \* the project that initDB inserts

VARIABLES
  projects,   \* the ids in the table projects
  rules,      \* rows of alerting_rules: a project's id, and whose they are
  events,     \* the senders whose event is in the table events
  cpc,        \* where each request to create a project is
  highest,    \* its maxID
  dpc,        \* where each request to delete a project is
  target,     \* its id
  spc,        \* where each event is
  dest,       \* the id in its path
  births,     \* history: how many projects each id has been given to
  home,       \* history: the project an event was sent to, by births; or 0
  late,       \* history: events that were stored when their project was gone or going
  spared,     \* history: events that a failing DELETE has left
  beaten,     \* history: another project was inserted since maxID was read
  blind       \* history: the query for maxID failed

create  == <<cpc, highest>>
delete  == <<dpc, target>>
send    == <<spc, dest>>
history == <<births, home, late, spared, beaten, blind>>
vars    == <<projects, rules, events, create, delete, send, history>>

Init ==
  /\ projects = {Default} /\ rules = {} /\ events = {}
  /\ cpc = [c \in Creators |-> "idle"] /\ highest = [c \in Creators |-> 0]
  /\ dpc = [x \in Deleters |-> "idle"] /\ target = [x \in Deleters |-> Default]
  /\ spc = [s \in Senders |-> "idle"] /\ dest = [s \in Senders |-> Default]
  /\ births = [p \in Ids |-> IF p = Default THEN 1 ELSE 0]
  /\ home = [s \in Senders |-> 0]
  /\ late = {} /\ spared = {} /\ beaten = {} /\ blind = {}

-----------------------------------------------------------------------------
(* createProjectHandler                                                    *)

(* SELECT COALESCE(MAX(CAST(id AS INTEGER)), 0); the mutant counts rows.   *)
Highest_count(P) == Cardinality(P)
Highest(P) == CHOOSE h \in P \cup {0} : \A p \in P : p <= h

ReadHighest(c) ==
  /\ cpc[c] = "idle"
  /\ cpc' = [cpc EXCEPT ![c] = "insert"]
  /\ highest' = [highest EXCEPT ![c] = Highest(projects)]
  /\ UNCHANGED <<projects, rules, events, delete, send, history>>

(* A failing query reads as 1.                                             *)
ReadFails(c) ==
  /\ cpc[c] = "idle"
  /\ cpc' = [cpc EXCEPT ![c] = "insert"]
  /\ highest' = [highest EXCEPT ![c] = 1]
  /\ blind' = blind \cup {c}
  /\ UNCHANGED <<projects, rules, events, delete, send, births, home, late, spared, beaten>>

Insert(c) ==
  LET id == highest[c] + 1
  IN  /\ cpc[c] = "insert" /\ id \in Ids \ projects
      /\ projects' = projects \cup {id}
      /\ births' = [births EXCEPT ![id] = @ + 1]
      /\ cpc' = [cpc EXCEPT ![c] = "created"]
      /\ beaten' = beaten \cup {o \in Creators : o # c /\ cpc[o] = "insert"}
      /\ UNCHANGED <<rules, events, highest, delete, send, home, late, spared, blind>>

(* The id violates the primary key: 500, as for any failing statement.     *)
Conflict(c) ==
  /\ cpc[c] = "insert" /\ highest[c] + 1 \in projects
  /\ cpc' = [cpc EXCEPT ![c] = "conflict"]
  /\ UNCHANGED <<projects, rules, events, highest, delete, send, history>>

InsertFails(c) ==
  /\ cpc[c] = "insert"
  /\ cpc' = [cpc EXCEPT ![c] = "failed"]
  /\ UNCHANGED <<projects, rules, events, highest, delete, send, history>>

-----------------------------------------------------------------------------
(* deleteProjectHandler                                                    *)

(* The default project is refused, an id that nobody has is not.           *)
AskDelete(x, p) ==
  /\ dpc[x] = "idle" /\ p # Default
  /\ dpc' = [dpc EXCEPT ![x] = "events"]
  /\ target' = [target EXCEPT ![x] = p]
  /\ UNCHANGED <<projects, rules, events, create, send, history>>

EventsOf(p) == {s \in events : dest[s] = p}

(* Mutant: the wrong column, so that no row is found.                      *)
DeleteEvents_byId(x) ==
  /\ dpc[x] = "events"
  /\ dpc' = [dpc EXCEPT ![x] = "project"]
  /\ UNCHANGED <<projects, rules, events, create, target, send, history>>

DeleteEvents(x) ==
  /\ dpc[x] = "events"
  /\ events' = events \ EventsOf(target[x])
  /\ dpc' = [dpc EXCEPT ![x] = "project"]
  /\ UNCHANGED <<projects, rules, create, target, send, history>>

(* The error is logged, and the project is deleted all the same.           *)
DeleteEventsFails(x) ==
  /\ dpc[x] = "events"
  /\ spared' = spared \cup EventsOf(target[x])
  /\ dpc' = [dpc EXCEPT ![x] = "project"]
  /\ UNCHANGED <<projects, rules, events, create, target, send, births, home, late, beaten, blind>>

DeleteProject(x) ==
  /\ dpc[x] = "project"
  /\ projects' = projects \ {target[x]}
  /\ dpc' = [dpc EXCEPT ![x] = "deleted"]
  /\ UNCHANGED <<rules, events, create, target, send, history>>

DeleteProjectFails(x) ==
  /\ dpc[x] = "project"
  /\ dpc' = [dpc EXCEPT ![x] = "failed"]
  /\ UNCHANGED <<projects, rules, events, create, target, send, history>>

-----------------------------------------------------------------------------
(* Events, and rows of the tables that no deletion touches                 *)

(* The id is whatever the DSN of the client says; nobody looks it up.      *)
Send(s, p) ==
  /\ spc[s] = "idle"
  /\ spc' = [spc EXCEPT ![s] = "save"]
  /\ dest' = [dest EXCEPT ![s] = p]
  /\ home' = [home EXCEPT ![s] = IF p \in projects THEN births[p] ELSE 0]
  /\ UNCHANGED <<projects, rules, events, create, delete, births, late, spared, beaten, blind>>

(* The project of s is another one by now, or none, or is being deleted.   *)
Going(p) == \E x \in Deleters : dpc[x] = "project" /\ target[x] = p
IsLate(s) == \/ dest[s] \notin projects \/ Going(dest[s])
             \/ home[s] # births[dest[s]]

Save(s) ==
  /\ spc[s] = "save"
  /\ events' = events \cup {s}
  /\ late' = IF IsLate(s) THEN late \cup {s} ELSE late
  /\ spc' = [spc EXCEPT ![s] = "done"]
  /\ UNCHANGED <<projects, rules, create, delete, dest, births, home, spared, beaten, blind>>

SaveFails(s) ==
  /\ spc[s] = "save"
  /\ spc' = [spc EXCEPT ![s] = "failed"]
  /\ UNCHANGED <<projects, rules, events, create, delete, dest, history>>

(* alertingRulesHandler, and its like for log rules, grouping rules, keys. *)
AddRule(p) ==
  /\ p \in projects
  /\ rules' = rules \cup {[project |-> p, birth |-> births[p]]}
  /\ rules' # rules
  /\ UNCHANGED <<projects, events, create, delete, send, history>>

DropRule(r) ==
  /\ r \in rules
  /\ rules' = rules \ {r}
  /\ UNCHANGED <<projects, events, create, delete, send, history>>

(* The process dies: requests vanish, the tables stay.                     *)
Crash ==
  LET Stop(pc, busy) == [r \in DOMAIN pc |-> IF pc[r] \in busy THEN "failed" ELSE pc[r]]
  IN  /\ cpc' = Stop(cpc, {"insert"})
      /\ dpc' = Stop(dpc, {"events", "project"})
      /\ spc' = Stop(spc, {"save"})
      /\ <<cpc', dpc', spc'>> # <<cpc, dpc, spc>>
      /\ UNCHANGED <<projects, rules, events, highest, target, dest, history>>

-----------------------------------------------------------------------------
Create(c) == ReadHighest(c) \/ ReadFails(c) \/ Insert(c) \/ Conflict(c) \/ InsertFails(c)
Delete(x) == (\E p \in Ids : AskDelete(x, p)) \/ DeleteEvents(x) \/ DeleteEventsFails(x)
             \/ DeleteProject(x) \/ DeleteProjectFails(x)
Event(s)  == (\E p \in Ids : Send(s, p)) \/ Save(s) \/ SaveFails(s)

Next ==
  \/ \E c \in Creators : Create(c)
  \/ \E x \in Deleters : Delete(x)
  \/ \E s \in Senders : Event(s)
  \/ \E p \in Ids : AddRule(p)
  \/ \E r \in rules : DropRule(r)
  \/ Crash

Spec == Init /\ [][Next]_vars

-----------------------------------------------------------------------------
(* Properties                                                              *)

TypeOK ==
  /\ projects \subseteq Ids /\ Default \in projects
  /\ rules \subseteq [project : Ids, birth : Nat]
  /\ events \subseteq Senders
  /\ cpc \in [Creators -> {"idle", "insert", "created", "conflict", "failed"}]
  /\ highest \in [Creators -> Nat]
  /\ dpc \in [Deleters -> {"idle", "events", "project", "deleted", "failed"}]
  /\ target \in [Deleters -> Ids]
  /\ \A x \in Deleters : dpc[x] \in {"events", "project"} => target[x] # Default
  /\ spc \in [Senders -> {"idle", "save", "done", "failed"}]
  /\ dest \in [Senders -> Ids]
  /\ births \in [Ids -> Nat]
  /\ home \in [Senders -> Nat]
  /\ late \subseteq Senders /\ spared \subseteq Senders
  /\ beaten \subseteq Creators /\ blind \subseteq Creators

(* README.md:78: projects are isolated.  Ids are given away again, and the *)
(* events of an id are deleted apart from its project: still, an event is  *)
(* only ever stored under the very project it was sent to, and gone when   *)
(* that is, unless it was stored when its project was gone or being        *)
(* deleted, or the DELETE of a deletion failed.                            *)
EventsAtHome ==
  \A s \in events \ (late \cup spared) :
     dest[s] \in projects /\ home[s] = births[dest[s]]

(* A request to create a project fails on the primary key only if another  *)
(* one was created since it read the highest id (or the reading failed):   *)
(* whatever was deleted before, somebody always gets a project.            *)
ConflictMeansBeaten ==
  \A c \in Creators : cpc[c] = "conflict" => c \in beaten \cup blind

-----------------------------------------------------------------------------
(* What the documents say and the code does not do                         *)

(* main.go:2526: a project is deleted with "all its associated events":    *)
(* after the answer, no event that was sent to it is left.                 *)
DeletionIsThorough ==
  \A s \in events, x \in Deleters :
     dpc[x] = "deleted" /\ target[x] = dest[s] /\ home[s] > 0 /\ dest[s] \notin projects
        => s \in spared

(* README.md:78: workspaces are isolated: the rules under a project's id   *)
(* were made for that project.                                             *)
RulesAtHome ==
  \A r \in rules : r.project \in projects => r.birth = births[r.project]
=============================================================================
