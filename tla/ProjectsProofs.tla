--------------------------- MODULE ProjectsProofs ---------------------------
(***************************************************************************)
(* Proofs about Projects, for any number of requests, events and ids.      *)
(***************************************************************************)
EXTENDS Projects, TLAPS, FiniteSetTheorems, WellFoundedInduction

CreateTypes ==
  /\ cpc \in [Creators -> {"idle", "insert", "created", "conflict", "failed"}]
  /\ highest \in [Creators -> Nat]
  /\ beaten \subseteq Creators /\ blind \subseteq Creators
DeleteTypes ==
  /\ dpc \in [Deleters -> {"idle", "events", "project", "deleted", "failed"}]
  /\ target \in [Deleters -> Ids]
  /\ \A x \in Deleters : dpc[x] \in {"events", "project"} => target[x] # Default
SendTypes ==
  /\ spc \in [Senders -> {"idle", "save", "done", "failed"}]
  /\ dest \in [Senders -> Ids]
  /\ home \in [Senders -> Nat]
  /\ events \subseteq Senders
  /\ late \subseteq Senders /\ spared \subseteq Senders
TableTypes ==
  /\ projects \subseteq Ids /\ Default \in projects
  /\ rules \subseteq [project : Ids, birth : Nat]
  /\ births \in [Ids -> Nat]

LEMMA TypesSplit == TypeOK <=> CreateTypes /\ DeleteTypes /\ SendTypes /\ TableTypes
  BY DEF TypeOK, CreateTypes, DeleteTypes, SendTypes, TableTypes

LEMMA DefaultIsId == Default \in Ids
  BY ProjectsAssumption DEF Default, Ids

(* MAX: the least upper bound of a set of ids is one of them, or 0.        *)
LEMMA HighestIsHighest ==
  ASSUME NEW P \in SUBSET Ids
  PROVE  Highest(P) \in P \cup {0} /\ \A p \in P : p <= Highest(P)
<1> DEFINE Bounds == {u \in Nat : \A p \in P : p <= u}
<1>0. P \subseteq Nat /\ MaxId \in Nat
  BY ProjectsAssumption DEF Ids
<1>1. MaxId \in Bounds
  BY <1>0 DEF Ids
<1>2. PICK h \in Bounds : \A y \in Bounds : h <= y
  <2> DEFINE Segments == {0..u : u \in Bounds \cap (0..MaxId)}
             R == StrictSubsetOrdering(0..MaxId)
  <2>1. IsWellFoundedOn(R, SUBSET (0..MaxId))
    <3>1. IsFiniteSet(0..MaxId)
      BY <1>0, FS_Interval
    <3> QED BY <3>1, FS_StrictSubsetOrderingWellFounded, FS_FiniteSubsetsOfFinite
  <2>2. 0..MaxId \in Segments
    BY <1>0, <1>1
  <2>3. Segments \subseteq SUBSET (0..MaxId)
    BY <1>0
  <2>4. PICK I \in Segments : \A J \in Segments : ~(<<J, I>> \in R)
    <3> HIDE DEF R, Segments
    <3> QED BY <2>1, <2>2, <2>3, WFMin
  <2>5. PICK h \in Bounds \cap (0..MaxId) : I = 0..h
    OBVIOUS
  <2>6. ASSUME NEW y \in Bounds, ~(h <= y) PROVE FALSE
    <3>1. y \in 0..MaxId /\ y < h
      BY <2>5, <2>6, <1>0
    <3>2. 0..y \in Segments
      BY <3>1, <2>6
    <3>3. 0..y \subseteq 0..h /\ h \in 0..h /\ h \notin 0..y
      BY <3>1, <1>0
    <3>4. <<0..y, I>> \in R
      BY <3>2, <3>3, <2>3, <2>5 DEF StrictSubsetOrdering
    <3> QED BY <3>2, <3>4, <2>4
  <2> QED BY <2>5, <2>6
<1>4. h \in P \cup {0}
  <2> SUFFICES ASSUME h \notin P, h # 0 PROVE FALSE
    OBVIOUS
  <2>1. h \in Nat /\ h - 1 \in Nat
    OBVIOUS
  <2>2. \A p \in P : p <= h - 1
    BY <2>1, <1>0
  <2>3. h - 1 \in Bounds
    BY <2>1, <2>2
  <2>4. h <= h - 1
    BY <2>3, <1>2
  <2> QED BY <2>1, <2>4
<1>5. \A p \in P : p <= h
  OBVIOUS
<1> QED BY <1>4, <1>5 DEF Highest

-----------------------------------------------------------------------------
(* Types                                                                   *)

LEMMA InitTypes == Init => TypeOK
<1> SUFFICES ASSUME Init PROVE TypeOK
  OBVIOUS
<1> USE DEF Init
<1>1. CreateTypes
  BY DEF CreateTypes
<1>2. DeleteTypes
  BY DefaultIsId DEF DeleteTypes
<1>3. SendTypes
  BY DefaultIsId DEF SendTypes
<1>4. TableTypes
  BY DefaultIsId DEF TableTypes
<1> QED BY <1>1, <1>2, <1>3, <1>4, TypesSplit

LEMMA CreateKeepsTypes ==
  ASSUME TypeOK, NEW c \in Creators, Create(c)
  PROVE  TypeOK'
<1>0. CreateTypes /\ DeleteTypes /\ SendTypes /\ TableTypes
  BY TypesSplit
<1>1. DeleteTypes' /\ SendTypes'
  BY <1>0 DEF Create, ReadHighest, ReadFails, Insert, Conflict, InsertFails,
     DeleteTypes, SendTypes, delete, send, history
<1>2. CreateTypes'
  <2>1. CASE ReadHighest(c)
    <3>1. Highest(projects) \in Nat
      <4>1. projects \in SUBSET Ids /\ Ids \subseteq Nat
        BY <1>0, ProjectsAssumption DEF TableTypes, Ids
      <4>2. Highest(projects) \in projects \cup {0}
        BY <4>1, HighestIsHighest
      <4>3. projects \cup {0} \subseteq Nat
        BY <4>1
      <4> QED BY <4>2, <4>3
    <3> QED BY <1>0, <2>1, <3>1 DEF ReadHighest, CreateTypes, history
  <2>2. CASE ReadFails(c)
    BY <1>0, <2>2 DEF ReadFails, CreateTypes
  <2>3. CASE Insert(c) \/ Conflict(c) \/ InsertFails(c)
    BY <1>0, <2>3 DEF Insert, Conflict, InsertFails, CreateTypes, history
  <2> QED BY <2>1, <2>2, <2>3 DEF Create
<1>3. TableTypes'
  <2>1. CASE Insert(c)
    BY <1>0, <2>1 DEF Insert, TableTypes
  <2>2. CASE ReadHighest(c) \/ ReadFails(c) \/ Conflict(c) \/ InsertFails(c)
    BY <1>0, <2>2 DEF ReadHighest, ReadFails, Conflict, InsertFails, TableTypes, history
  <2> QED BY <2>1, <2>2 DEF Create
<1> QED BY <1>1, <1>2, <1>3 DEF TypeOK, CreateTypes, DeleteTypes, SendTypes, TableTypes

LEMMA DeleteKeepsTypes ==
  ASSUME TypeOK, NEW x \in Deleters, Delete(x)
  PROVE  TypeOK'
<1>0. CreateTypes /\ DeleteTypes /\ SendTypes /\ TableTypes
  BY TypesSplit
<1> USE DEF Delete, AskDelete, DeleteEvents, DeleteEventsFails, DeleteProject, DeleteProjectFails
<1>1. CreateTypes'
  BY <1>0 DEF CreateTypes, create, history
<1>2. DeleteTypes'
  <2>1. CASE \E p \in Ids : AskDelete(x, p)
    BY <1>0, <2>1 DEF DeleteTypes
  <2>2. CASE ~\E p \in Ids : AskDelete(x, p)
    BY <1>0, <2>2 DEF DeleteTypes
  <2> QED BY <2>1, <2>2
<1>3. SendTypes'
  BY <1>0 DEF SendTypes, EventsOf, send, history
<1>4. TableTypes'
  BY <1>0 DEF TableTypes, DeleteTypes, history
<1> QED BY <1>1, <1>2, <1>3, <1>4 DEF TypeOK, CreateTypes, DeleteTypes, SendTypes, TableTypes

LEMMA EventKeepsTypes ==
  ASSUME TypeOK, NEW s \in Senders, Event(s)
  PROVE  TypeOK'
<1>0. CreateTypes /\ DeleteTypes /\ SendTypes /\ TableTypes
  BY TypesSplit
<1>1. CreateTypes' /\ DeleteTypes' /\ TableTypes'
  BY <1>0 DEF Event, Send, Save, SaveFails, CreateTypes, DeleteTypes, TableTypes, create, delete, history
<1>2. SendTypes'
  <2>1. CASE \E p \in Ids : Send(s, p)
    BY <1>0, <2>1 DEF Send, SendTypes, TableTypes
  <2>2. CASE Save(s) \/ SaveFails(s)
    BY <1>0, <2>2 DEF Save, SaveFails, SendTypes, history
  <2> QED BY <2>1, <2>2 DEF Event
<1> QED BY <1>1, <1>2 DEF TypeOK, CreateTypes, DeleteTypes, SendTypes, TableTypes

LEMMA RulesKeepTypes ==
  ASSUME TypeOK, (\E p \in Ids : AddRule(p)) \/ (\E r \in rules : DropRule(r))
  PROVE  TypeOK'
<1>0. CreateTypes /\ DeleteTypes /\ SendTypes /\ TableTypes
  BY TypesSplit
<1>1. CreateTypes' /\ DeleteTypes' /\ SendTypes'
  BY <1>0 DEF AddRule, DropRule, CreateTypes, DeleteTypes, SendTypes, create, delete, send, history
<1>2. TableTypes'
  BY <1>0 DEF AddRule, DropRule, TableTypes, history
<1> QED BY <1>1, <1>2 DEF TypeOK, CreateTypes, DeleteTypes, SendTypes, TableTypes

(* Where a crash leaves the requests.                                      *)
LEMMA CrashStops ==
  ASSUME TypeOK, Crash
  PROVE  /\ cpc' = [c \in Creators |-> IF cpc[c] = "insert" THEN "failed" ELSE cpc[c]]
         /\ dpc' = [x \in Deleters |-> IF dpc[x] \in {"events", "project"}
                                        THEN "failed" ELSE dpc[x]]
         /\ spc' = [s \in Senders |-> IF spc[s] = "save" THEN "failed" ELSE spc[s]]
         /\ UNCHANGED <<projects, rules, events, highest, target, dest, history>>
<1>1. DOMAIN cpc = Creators /\ DOMAIN dpc = Deleters /\ DOMAIN spc = Senders
  BY DEF TypeOK
<1> QED BY <1>1 DEF Crash

LEMMA CrashKeepsTypes ==
  ASSUME TypeOK, Crash
  PROVE  TypeOK'
<1>0. CreateTypes /\ DeleteTypes /\ SendTypes /\ TableTypes
  BY TypesSplit
<1>1. CreateTypes'
  BY <1>0, CrashStops DEF CreateTypes, history
<1>2. DeleteTypes'
  BY <1>0, CrashStops DEF DeleteTypes
<1>3. SendTypes'
  BY <1>0, CrashStops DEF SendTypes, history
<1>4. TableTypes'
  BY <1>0, CrashStops DEF TableTypes, history
<1> QED BY <1>1, <1>2, <1>3, <1>4 DEF TypeOK, CreateTypes, DeleteTypes, SendTypes, TableTypes

LEMMA StutterKeepsTypes ==
  ASSUME TypeOK, UNCHANGED vars
  PROVE  TypeOK'
  BY DEF TypeOK, vars, create, delete, send, history

(* TypeOK is an invariant: ids are counted up within their bound, the      *)
(* default project is never deleted, requests are where they can be.       *)
THEOREM TypeCorrect == Spec => []TypeOK
<1>1. TypeOK /\ [Next]_vars => TypeOK'
  BY CreateKeepsTypes, DeleteKeepsTypes, EventKeepsTypes, RulesKeepTypes, CrashKeepsTypes,
     StutterKeepsTypes DEF Next
<1> QED BY InitTypes, <1>1, PTL DEF Spec

-----------------------------------------------------------------------------
(* Events stay at home                                                     *)

(* An event that was stored in peace has its project, and no deletion of   *)
(* it is past its first statement.                                         *)
AtHome(s) == /\ dest[s] \in projects
             /\ home[s] = births[dest[s]]
             /\ ~Going(dest[s])

HomeInv ==
  /\ \A s \in events : spc[s] = "done"
  /\ \A s \in events \ (late \cup spared) : AtHome(s)

LEMMA InitAtHome == Init => HomeInv
  BY DEF Init, HomeInv

LEMMA CreateKeepsHome ==
  ASSUME TypeOK, HomeInv, NEW c \in Creators, Create(c)
  PROVE  HomeInv'
<1>1. CASE Insert(c)
  <2> DEFINE id == highest[c] + 1
  <2>1. /\ projects' = projects \cup {id} /\ id \in Ids \ projects
        /\ births' = [births EXCEPT ![id] = @ + 1]
        /\ UNCHANGED <<events, dpc, target, spc, dest, home, late, spared>>
    BY <1>1 DEF Insert, delete, send
  <2>2. \A s \in events : dest[s] \in Ids
    BY DEF TypeOK
  <2>3. births \in [Ids -> Nat]
    BY DEF TypeOK
  <2> HIDE DEF id
  <2> QED BY <2>1, <2>2, <2>3 DEF HomeInv, AtHome, Going
<1>2. CASE ReadHighest(c) \/ ReadFails(c) \/ Conflict(c) \/ InsertFails(c)
  <2>1. UNCHANGED <<projects, events, dpc, target, spc, dest, births, home, late, spared>>
    BY <1>2 DEF ReadHighest, ReadFails, Conflict, InsertFails, delete, send, history
  <2> QED BY <2>1 DEF HomeInv, AtHome, Going
<1> QED BY <1>1, <1>2 DEF Create

LEMMA DeleteKeepsHome ==
  ASSUME TypeOK, HomeInv, NEW x \in Deleters, Delete(x)
  PROVE  HomeInv'
<1>0. dpc \in [Deleters -> {"idle", "events", "project", "deleted", "failed"}]
  BY DEF TypeOK
<1>1. CASE \E p \in Ids : AskDelete(x, p)
  <2>1. PICK p \in Ids : AskDelete(x, p)
    BY <1>1
  <2>2. \A q : Going(q)' => Going(q)
    BY <2>1, <1>0 DEF AskDelete, Going, TypeOK
  <2> QED BY <2>1, <2>2 DEF AskDelete, HomeInv, AtHome, send, history
<1>2. CASE DeleteEvents(x) \/ DeleteEventsFails(x)
  <2>1. \A q : Going(q)' => Going(q) \/ q = target[x]
    BY <1>2, <1>0 DEF DeleteEvents, DeleteEventsFails, Going
  <2>2. \A s \in events' \ (late' \cup spared') :
           s \in events \ (late \cup spared) /\ dest[s] # target[x]
    BY <1>2 DEF DeleteEvents, DeleteEventsFails, EventsOf, history
  <2>3. UNCHANGED <<projects, spc, dest, births, home>>
    BY <1>2 DEF DeleteEvents, DeleteEventsFails, send, history
  <2>4. events' \subseteq events
    BY <1>2 DEF DeleteEvents, DeleteEventsFails
  <2> QED BY <2>1, <2>2, <2>3, <2>4 DEF HomeInv, AtHome
<1>3. CASE DeleteProject(x) \/ DeleteProjectFails(x)
  <2>1. \A q : Going(q)' => Going(q)
    BY <1>3, <1>0 DEF DeleteProject, DeleteProjectFails, Going
  <2>2. Going(target[x])
    BY <1>3 DEF DeleteProject, DeleteProjectFails, Going
  <2>3. UNCHANGED <<events, spc, dest, births, home, late, spared>>
    BY <1>3 DEF DeleteProject, DeleteProjectFails, send, history
  <2>4. projects \ {target[x]} \subseteq projects'
    BY <1>3 DEF DeleteProject, DeleteProjectFails
  <2> QED BY <2>1, <2>2, <2>3, <2>4 DEF HomeInv, AtHome
<1> QED BY <1>1, <1>2, <1>3 DEF Delete

LEMMA EventKeepsHome ==
  ASSUME TypeOK, HomeInv, NEW s \in Senders, Event(s)
  PROVE  HomeInv'
<1>0. UNCHANGED <<projects, dpc, target, births, spared>> /\ \A q : Going(q)' <=> Going(q)
  BY DEF Event, Send, Save, SaveFails, Going, delete, history
<1>1. CASE \E p \in Ids : Send(s, p)
  <2>1. s \notin events
    BY <1>1 DEF Send, HomeInv
  <2>2. \A t \in events : dest'[t] = dest[t] /\ home'[t] = home[t] /\ spc'[t] = spc[t]
    BY <1>1, <2>1 DEF Send, TypeOK
  <2>3. UNCHANGED <<events, late>>
    BY <1>1 DEF Send
  <2> QED BY <1>0, <2>2, <2>3 DEF HomeInv, AtHome
<1>2. CASE Save(s)
  <2>1. UNCHANGED <<dest, home>> /\ events' = events \cup {s} /\ late \subseteq late'
    BY <1>2 DEF Save
  <2>2. s \in late' \/ AtHome(s)
    BY <1>2 DEF Save, IsLate, AtHome
  <2>3. \A t \in events' : spc'[t] = "done"
    BY <1>2 DEF Save, HomeInv, TypeOK
  <2> QED BY <1>0, <2>1, <2>2, <2>3 DEF HomeInv, AtHome
<1>3. CASE SaveFails(s)
  <2>1. UNCHANGED <<events, dest, home, late>>
    BY <1>3 DEF SaveFails, history
  <2>2. \A t \in events' : spc'[t] = "done"
    BY <1>3 DEF SaveFails, HomeInv, TypeOK
  <2> QED BY <1>0, <2>1, <2>2 DEF HomeInv, AtHome
<1> QED BY <1>1, <1>2, <1>3 DEF Event

LEMMA RestKeepsHome ==
  ASSUME TypeOK, HomeInv,
         \/ \E p \in Ids : AddRule(p)
         \/ \E r \in rules : DropRule(r)
         \/ Crash
         \/ UNCHANGED vars
  PROVE  HomeInv'
<1>1. CASE Crash
  <2>1. \A q : Going(q)' => Going(q)
    BY <1>1, CrashStops DEF Going
  <2>2. \A s \in events : spc'[s] = "done"
    BY <1>1, CrashStops DEF HomeInv, TypeOK
  <2> QED BY <1>1, <2>1, <2>2, CrashStops DEF HomeInv, AtHome, history
<1>2. CASE ~Crash
  <2>1. UNCHANGED <<projects, events, dpc, target, spc, dest, births, home, late, spared>>
    BY <1>2 DEF AddRule, DropRule, vars, delete, send, history
  <2> QED BY <2>1 DEF HomeInv, AtHome, Going
<1> QED BY <1>1, <1>2

(* README.md:78: an event is only ever stored under the project it was     *)
(* sent to, with the exceptions that EventsAtHome names.                   *)
THEOREM EventsStayHome == Spec => []EventsAtHome
<1>1. TypeOK /\ HomeInv /\ [Next]_vars => HomeInv'
  BY CreateKeepsHome, DeleteKeepsHome, EventKeepsHome, RestKeepsHome DEF Next
<1>2. HomeInv => EventsAtHome
  BY DEF HomeInv, AtHome, EventsAtHome
<1> QED BY InitAtHome, <1>1, <1>2, TypeCorrect, PTL DEF Spec

-----------------------------------------------------------------------------
(* Somebody always gets a project                                          *)

(* Until another project is inserted, what a request read is still the     *)
(* highest id: deletions only make room.                                   *)
RoomInv ==
  \A c \in Creators \ (beaten \cup blind) :
     /\ cpc[c] = "insert" => \A p \in projects : p <= highest[c]
     /\ cpc[c] # "conflict"

LEMMA CreateKeepsRoom ==
  ASSUME TypeOK, RoomInv, NEW c \in Creators, Create(c)
  PROVE  RoomInv'
<1>0. /\ projects \in SUBSET Ids /\ Ids \subseteq Nat
      /\ cpc \in [Creators -> {"idle", "insert", "created", "conflict", "failed"}]
      /\ highest \in [Creators -> Nat]
  BY ProjectsAssumption DEF TypeOK, Ids
<1>1. CASE ReadHighest(c)
  <2>1. \A p \in projects : p <= Highest(projects)
    BY <1>0, HighestIsHighest
  <2> QED BY <1>0, <1>1, <2>1 DEF ReadHighest, RoomInv, history
<1>2. CASE ReadFails(c)
  BY <1>0, <1>2 DEF ReadFails, RoomInv
<1>3. CASE Insert(c)
  BY <1>0, <1>3 DEF Insert, RoomInv
<1>4. CASE Conflict(c)
  <2>1. c \in beaten \cup blind
    <3>1. highest[c] \in Nat /\ highest[c] + 1 \in projects /\ cpc[c] = "insert"
      BY <1>0, <1>4 DEF Conflict
    <3> QED BY <3>1 DEF RoomInv
  <2> QED BY <1>0, <1>4, <2>1 DEF Conflict, RoomInv, history
<1>5. CASE InsertFails(c)
  BY <1>0, <1>5 DEF InsertFails, RoomInv, history
<1> QED BY <1>1, <1>2, <1>3, <1>4, <1>5 DEF Create

LEMMA OthersKeepRoom ==
  ASSUME TypeOK, RoomInv,
         \/ \E x \in Deleters : Delete(x)
         \/ \E s \in Senders : Event(s)
         \/ \E p \in Ids : AddRule(p)
         \/ \E r \in rules : DropRule(r)
         \/ Crash
         \/ UNCHANGED vars
  PROVE  RoomInv'
<1>1. CASE Crash
  BY <1>1, CrashStops DEF RoomInv, history
<1>2. CASE ~Crash
  <2>1. UNCHANGED <<cpc, highest, beaten, blind>> /\ projects' \subseteq projects
    BY <1>2 DEF Delete, AskDelete, DeleteEvents, DeleteEventsFails, DeleteProject,
       DeleteProjectFails, Event, Send, Save, SaveFails, AddRule, DropRule, vars, create, history
  <2> QED BY <2>1 DEF RoomInv
<1> QED BY <1>1, <1>2

(* A request that creates a project fails on the primary key only if       *)
(* another one succeeded since it read, or its reading failed.             *)
THEOREM ConflictsAreBeaten == Spec => []ConflictMeansBeaten
<1>1. Init => RoomInv
  BY DEF Init, RoomInv
<1>2. TypeOK /\ RoomInv /\ [Next]_vars => RoomInv'
  BY CreateKeepsRoom, OthersKeepRoom DEF Next
<1>3. RoomInv => ConflictMeansBeaten
  BY DEF RoomInv, ConflictMeansBeaten
<1> QED BY <1>1, <1>2, <1>3, TypeCorrect, PTL DEF Spec
=============================================================================
