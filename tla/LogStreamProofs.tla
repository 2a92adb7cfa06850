--------------------------- MODULE LogStreamProofs ---------------------------
(***************************************************************************)
(* Proofs about the live tail: its types, that no broadcast ever sends on  *)
(* a closed channel, that no row is lost unnoticed, the order of rows, and *)
(* the count in the answer.                                                *)
(***************************************************************************)
EXTENDS LogStream, SequenceTheorems, FiniteSetTheorems, TLAPS

LockShape ==
  /\ ipc \in [Ingesters -> IPC]
  /\ ahead \in [Ingesters -> SUBSET Streams]
  /\ spc \in [Streams -> SPC]
  /\ subs \subseteq Streams

(* A broadcast visits registered subscribers only, although others come    *)
(* and go: no stream writes the map while a reader is in its loop.         *)
VisitsRegistered == \A i \in Ingesters : ipc[i] = "send" => ahead[i] \subseteq subs

(* A registered stream has not reached its close.                          *)
RegisteredIsOpen == \A s \in subs : spc[s] \in {"loop", "write", "leave"}

LockInv == LockShape /\ VisitsRegistered /\ RegisteredIsOpen

LEMMA LockInit == Init => LockInv
BY DEF Init, LockInv, LockShape, VisitsRegistered, RegisteredIsOpen, IPC, SPC

(* The steps of a request, outside the lock and inside it.                 *)
LEMMA IngestKeepsLock ==
  ASSUME LockInv, NEW i \in Ingesters,
         (\E body \in Batches[i] : Post(i, body)) \/ IngestStep(i)
  PROVE  LockInv'
<1> USE DEF LockInv, LockShape, VisitsRegistered, RegisteredIsOpen, IPC, SPC,
            Goto, stream, history
<1>1. ASSUME NEW body \in Batches[i], Post(i, body) PROVE LockInv'
  BY <1>1 DEF Post
<1>2. CASE Respond(i)
  BY <1>2 DEF Respond
<1>3. CASE Skip(i)
  BY <1>3 DEF Skip
<1>4. CASE Insert(i)
  BY <1>4 DEF Insert
<1>5. CASE RLock(i)
  BY <1>5 DEF RLock
<1>6. ASSUME NEW s \in Streams, Offer(i, s) PROVE LockInv'
  BY <1>6 DEF Offer
<1>7. CASE RUnlock(i)
  BY <1>7 DEF RUnlock
<1>8. CASE Alert(i)
  BY <1>8 DEF Alert
<1> QED
  BY <1>1, <1>2, <1>3, <1>4, <1>5, <1>6, <1>7, <1>8 DEF IngestStep

(* The steps of a stream; those that write the map first find no reader.   *)
LEMMA StreamKeepsLock ==
  ASSUME LockInv, NEW s \in Streams, StreamStep(s)
  PROVE  LockInv'
<1> USE DEF LockInv, LockShape, VisitsRegistered, RegisteredIsOpen, IPC, SPC,
            ingest, history
<1>1. CASE Follow(s)
  BY <1>1 DEF Follow
<1>2. CASE Announce(s)
  BY <1>2 DEF Announce
<1>3. CASE Register(s)
  BY <1>3 DEF Register, Unlock, Readers
<1>4. CASE Unregister(s)
  BY <1>4 DEF Unregister, Unlock, Readers, Without
<1>5. CASE Take(s)
  BY <1>5 DEF Take
<1>6. CASE Write(s)
  BY <1>6 DEF Write
<1>7. CASE Disconnect(s)
  BY <1>7 DEF Disconnect
<1>8. CASE Quit(s)
  BY <1>8 DEF Quit
<1>9. CASE Close(s)
  BY <1>9 DEF Close
<1> QED
  BY <1>1, <1>2, <1>3, <1>4, <1>5, <1>6, <1>7, <1>8, <1>9 DEF StreamStep, LockStep

(* main.go:1800-1805 and 1609-1625: a subscriber leaves the map under the  *)
(* write lock, which waits for every broadcast that may still visit it,    *)
(* and its channel is closed after that; so no broadcast sends on a closed *)
(* channel, which would panic.                                             *)
THEOREM BroadcastIsSafe == Spec => []NoSendOnClosed
<1>1. LockInv /\ [Next]_vars => LockInv'
  <2> SUFFICES ASSUME LockInv, [Next]_vars PROVE LockInv'
    OBVIOUS
  <2>1. CASE UNCHANGED vars
    BY <2>1 DEF vars, ingest, stream, history,
                LockInv, LockShape, VisitsRegistered, RegisteredIsOpen
  <2>2. CASE Next
    BY <2>2, IngestKeepsLock, StreamKeepsLock DEF Next
  <2> QED
    BY <2>1, <2>2
<1>2. LockInv => NoSendOnClosed
  BY DEF LockInv, LockShape, VisitsRegistered, RegisteredIsOpen, NoSendOnClosed
<1> QED
  BY LockInit, <1>1, <1>2, PTL DEF Spec

-----------------------------------------------------------------------------
(* Types                                                                   *)

(* The type invariant in four parts, by what it takes to keep them.        *)
TableType ==
  /\ table \in Seq([by : Ingesters, entry : Entries])
  /\ current \in [Ingesters -> 0..Len(table)]
  /\ raised \subseteq 1..Len(table)
RequestType ==
  /\ ipc \in [Ingesters -> IPC]
  /\ batch \in [Ingesters -> Seq(Entries)]
  /\ ahead \in [Ingesters -> SUBSET Streams]
  /\ ingested \in [Ingesters -> Nat]
StreamType ==
  /\ spc \in [Streams -> SPC]
  /\ announced \in Streams \cup {Nobody}
  /\ subs \subseteq Streams
  /\ connected \in [Streams -> BOOLEAN]
  /\ since \in [Streams -> 0..Len(table)]
RowsType ==
  /\ channel \in [Streams -> Seq(1..Len(table))]
  /\ holding \in [Streams -> Seq(1..Len(table))]
  /\ out \in [Streams -> Seq(1..Len(table))]
  /\ dropped \in [Streams -> SUBSET (1..Len(table))]

(* A request on its way from its INSERT to its answer has a row of its own.*)
Busy == {"rlock", "parked", "send", "alert"}
HasRow == \A i \in Ingesters : ipc[i] \in Busy =>
            current[i] \in 1..Len(table) /\ table[current[i]].by = i

(* A stream holds a row only while it writes it.                           *)
HoldsOne == \A s \in Streams :
  \/ spc[s] = "write" /\ \E id \in 1..Len(table) : holding[s] = <<id>>
  \/ spc[s] # "write" /\ holding[s] = <<>>

TypeInv == TableType /\ RequestType /\ StreamType /\ RowsType /\ HasRow /\ HoldsOne

LEMMA TypeInit == Init => TypeInv
BY DEF Init, TypeInv, TableType, RequestType, StreamType, RowsType, HasRow, HoldsOne,
       Busy, IPC, SPC

LEMMA SeqGrows ==
  ASSUME NEW m \in Nat, NEW n \in Nat, m <= n, NEW q \in Seq(1..m)
  PROVE  q \in Seq(1..n)
OBVIOUS

LEMMA HeadAndTail ==
  ASSUME NEW S, NEW q \in Seq(S), q # <<>>
  PROVE  Head(q) \in S /\ Tail(q) \in Seq(S)
OBVIOUS

LEMMA InsertKeepsTypes ==
  ASSUME TypeInv, NEW i \in Ingesters, Insert(i) PROVE TypeInv'
<1>1. /\ Len(table) \in Nat
      /\ Len(table') = Len(table) + 1
      /\ table' \in Seq([by : Ingesters, entry : Entries])
      /\ table'[Len(table) + 1].by = i
      /\ \A id \in 1..Len(table) : table'[id] = table[id]
  <2>1. Head(batch[i]) \in Entries
    BY LogStreamAssumption DEF Insert
  <2> DEFINE row == [by |-> i, entry |-> Head(batch[i])]
  <2>2. row \in [by : Ingesters, entry : Entries] /\ row.by = i /\ table' = Append(table, row)
    BY <2>1 DEF Insert
  <2> HIDE DEF row
  <2>3. table \in Seq([by : Ingesters, entry : Entries])
    BY DEF TypeInv, TableType
  <2> QED
    BY <2>2, <2>3
<1>2. /\ ipc' = [ipc EXCEPT ![i] = "rlock"]
      /\ current' = [current EXCEPT ![i] = Len(table) + 1]
      /\ batch' = [batch EXCEPT ![i] = Tail(@)] /\ batch[i] # <<>>
      /\ UNCHANGED <<ahead, ingested, raised, stream, history>>
  BY <1>1 DEF Insert, LastId, Goto
<1>3. TableType'
  BY <1>1, <1>2 DEF TypeInv, TableType
<1>4. RequestType'
  BY <1>2 DEF TypeInv, RequestType, IPC
<1>5. StreamType'
  BY <1>1, <1>2 DEF TypeInv, StreamType, stream, history
<1>6. RowsType'
  <2>1. ASSUME NEW s \in Streams
        PROVE  /\ channel[s] \in Seq(1..Len(table')) /\ holding[s] \in Seq(1..Len(table'))
               /\ out[s] \in Seq(1..Len(table')) /\ dropped[s] \in SUBSET (1..Len(table'))
    BY <1>1, SeqGrows DEF TypeInv, RowsType
  <2> QED
    BY <1>2, <2>1 DEF TypeInv, RowsType, stream, history
<1>7. HasRow'
  <2>1. ASSUME NEW j \in Ingesters, ipc'[j] \in Busy
        PROVE  current'[j] \in 1..Len(table') /\ table'[current'[j]].by = j
    <3>1. CASE j = i
      BY <1>1, <1>2, <3>1 DEF TypeInv, TableType
    <3>2. CASE j # i
      <4>1. current'[j] = current[j] /\ ipc'[j] = ipc[j]
        BY <1>2, <3>2 DEF TypeInv, TableType, RequestType
      <4>2. current[j] \in 1..Len(table) /\ table[current[j]].by = j
        BY <2>1, <4>1 DEF TypeInv, HasRow
      <4> QED
        BY <1>1, <4>1, <4>2
    <3> QED
      BY <3>1, <3>2
  <2> QED
    BY <2>1 DEF HasRow
<1>8. HoldsOne'
  BY <1>1, <1>2 DEF TypeInv, HoldsOne, stream
<1> QED
  BY <1>3, <1>4, <1>5, <1>6, <1>7, <1>8 DEF TypeInv

LEMMA OfferKeepsTypes ==
  ASSUME TypeInv, NEW i \in Ingesters, NEW s \in Streams, Offer(i, s) PROVE TypeInv'
<1>1. /\ ipc[i] = "send" /\ ahead' = [ahead EXCEPT ![i] = @ \ {s}]
      /\ UNCHANGED <<table, ipc, batch, current, ingested, raised,
                     spc, announced, subs, holding, connected, out, since>>
  BY DEF Offer
<1>2. current[i] \in 1..Len(table)
  BY <1>1 DEF TypeInv, HasRow, Busy
<1>3. channel' \in [Streams -> Seq(1..Len(table))]
  <2>1. Append(channel[s], current[i]) \in Seq(1..Len(table))
    BY <1>2 DEF TypeInv, RowsType
  <2> QED
    BY <2>1 DEF TypeInv, RowsType, Offer
<1>4. dropped' \in [Streams -> SUBSET (1..Len(table))]
  BY <1>2 DEF TypeInv, RowsType, Offer
<1> QED
  BY <1>1, <1>3, <1>4 DEF TypeInv, TableType, RequestType, StreamType, RowsType, HasRow, HoldsOne

LEMMA AlertKeepsTypes ==
  ASSUME TypeInv, NEW i \in Ingesters, Alert(i) PROVE TypeInv'
<1>1. /\ ipc[i] = "alert" /\ ipc' = [ipc EXCEPT ![i] = "next"]
      /\ ingested' = [ingested EXCEPT ![i] = @ + 1]
      /\ UNCHANGED <<table, batch, current, ahead, stream, history>>
  BY DEF Alert, Goto
<1>2. current[i] \in 1..Len(table)
  BY <1>1 DEF TypeInv, HasRow, Busy
<1>3. raised' \subseteq raised \cup {current[i]}
  BY DEF Alert
<1>4. TableType'
  BY <1>1, <1>2, <1>3 DEF TypeInv, TableType
<1> QED
  BY <1>1, <1>4 DEF TypeInv, RequestType, StreamType, RowsType, HasRow, HoldsOne,
                    IPC, Busy, stream, history

LEMMA IngestKeepsTypes ==
  ASSUME TypeInv, NEW i \in Ingesters,
         (\E body \in Batches[i] : Post(i, body)) \/ IngestStep(i)
  PROVE  TypeInv'
<1> USE DEF TypeInv, TableType, RequestType, StreamType, RowsType, HasRow, HoldsOne,
            Busy, IPC, SPC, Goto, stream, history
<1>1. ASSUME NEW body \in Batches[i], Post(i, body) PROVE TypeInv'
  BY <1>1, LogStreamAssumption DEF Post
<1>2. CASE Respond(i)
  BY <1>2 DEF Respond
<1>3. CASE Skip(i)
  BY <1>3 DEF Skip
<1>5. CASE RLock(i)
  <2>1. /\ ipc' = [ipc EXCEPT ![i] = IF announced = Nobody THEN "send" ELSE "parked"]
        /\ ahead' = [ahead EXCEPT ![i] = IF announced = Nobody THEN subs ELSE @]
        /\ ipc[i] = "rlock"
        /\ UNCHANGED <<table, batch, current, ingested, raised, stream, history>>
    BY <1>5 DEF RLock
  <2> QED
    BY <2>1
<1>7. CASE RUnlock(i)
  BY <1>7 DEF RUnlock
<1> HIDE DEF TypeInv
<1> QED
  BY <1>1, <1>2, <1>3, InsertKeepsTypes, <1>5, OfferKeepsTypes, <1>7, AlertKeepsTypes
  DEF IngestStep

(* Entering and leaving the map.                                           *)
LEMMA UnlockKeepsTypes ==
  ASSUME TypeInv, NEW s \in Streams, Register(s) \/ Unregister(s) PROVE TypeInv'
<1> DEFINE map == IF Register(s) THEN subs \cup {s} ELSE Without(s)
<1>1. map \subseteq Streams
  BY DEF TypeInv, StreamType, Without
<1>2. /\ UNCHANGED <<table, batch, current, ingested, raised, channel, holding,
                     connected, out, dropped>>
      /\ announced' = Nobody /\ subs' = map
      /\ ipc' = [j \in Ingesters |-> IF ipc[j] = "parked" THEN "send" ELSE ipc[j]]
      /\ ahead' = [j \in Ingesters |-> IF ipc[j] = "parked" THEN map ELSE ahead[j]]
  BY DEF Register, Unregister, Unlock
<1>3. /\ spc[s] # "write"
      /\ \E place \in SPC \ {"write"} : spc' = [spc EXCEPT ![s] = place]
      /\ since' = since \/ since' = [since EXCEPT ![s] = Len(table)]
  BY DEF Register, Unregister, SPC
<1> HIDE DEF map
<1>4. TableType' /\ RowsType'
  BY <1>2 DEF TypeInv, TableType, RowsType
<1>5. RequestType'
  BY <1>1, <1>2 DEF TypeInv, RequestType, IPC
<1>6. StreamType'
  <2>1. Len(table) \in Nat
    BY DEF TypeInv, TableType
  <2>2. since' \in [Streams -> 0..Len(table)]
    BY <1>3, <2>1 DEF TypeInv, StreamType
  <2> QED
    BY <1>1, <1>2, <1>3, <2>2 DEF TypeInv, StreamType
<1>7. HasRow'
  BY <1>2 DEF TypeInv, RequestType, HasRow, Busy
<1>8. HoldsOne'
  BY <1>2, <1>3 DEF TypeInv, StreamType, HoldsOne
<1> QED
  BY <1>4, <1>5, <1>6, <1>7, <1>8 DEF TypeInv

LEMMA TakeKeepsTypes ==
  ASSUME TypeInv, NEW s \in Streams, Take(s) PROVE TypeInv'
<1>1. /\ spc[s] = "loop" /\ channel[s] # <<>>
      /\ holding' = [holding EXCEPT ![s] = <<Head(channel[s])>>]
      /\ channel' = [channel EXCEPT ![s] = Tail(@)]
      /\ spc' = [spc EXCEPT ![s] = "write"]
      /\ UNCHANGED <<ingest, announced, subs, connected, history>>
  BY DEF Take
<1>2. channel[s] \in Seq(1..Len(table))
  BY DEF TypeInv, RowsType
<1>3. Head(channel[s]) \in 1..Len(table) /\ Tail(channel[s]) \in Seq(1..Len(table))
  BY <1>1, <1>2, HeadAndTail
<1>4. TableType' /\ RequestType' /\ HasRow'
  BY <1>1 DEF TypeInv, TableType, RequestType, HasRow, ingest
<1>5. StreamType'
  BY <1>1 DEF TypeInv, StreamType, SPC, ingest, history
<1>6. RowsType'
  <2>1. <<Head(channel[s])>> \in Seq(1..Len(table))
    BY <1>3
  <2> QED
    BY <1>1, <1>3, <2>1 DEF TypeInv, RowsType, ingest, history
<1>7. HoldsOne'
  BY <1>1, <1>3 DEF TypeInv, StreamType, RowsType, HoldsOne, ingest
<1> QED
  BY <1>4, <1>5, <1>6, <1>7 DEF TypeInv

LEMMA WriteKeepsTypes ==
  ASSUME TypeInv, NEW s \in Streams, Write(s) PROVE TypeInv'
<1>1. /\ spc[s] = "write"
      /\ out' = [out EXCEPT ![s] = IF connected[s] THEN @ \o holding[s] ELSE @]
      /\ holding' = [holding EXCEPT ![s] = <<>>]
      /\ spc' = [spc EXCEPT ![s] = "loop"]
      /\ UNCHANGED <<ingest, announced, subs, channel, connected, dropped, since>>
  BY DEF Write
<1>2. TableType' /\ RequestType' /\ HasRow'
  BY <1>1 DEF TypeInv, TableType, RequestType, HasRow, ingest
<1>3. StreamType'
  BY <1>1 DEF TypeInv, StreamType, SPC, ingest
<1>4. RowsType'
  <2>1. out[s] \o holding[s] \in Seq(1..Len(table)) /\ <<>> \in Seq(1..Len(table))
    BY DEF TypeInv, RowsType
  <2> QED
    BY <1>1, <2>1 DEF TypeInv, RowsType, ingest
<1>5. HoldsOne'
  BY <1>1 DEF TypeInv, StreamType, RowsType, HoldsOne, ingest
<1> QED
  BY <1>2, <1>3, <1>4, <1>5 DEF TypeInv

LEMMA StreamKeepsTypes ==
  ASSUME TypeInv, NEW s \in Streams, StreamStep(s)
  PROVE  TypeInv'
<1> USE DEF TypeInv, TableType, RequestType, StreamType, RowsType, HasRow, HoldsOne,
            Busy, IPC, SPC, ingest, history
<1>1. CASE Follow(s)
  BY <1>1 DEF Follow
<1>2. CASE Announce(s)
  BY <1>2 DEF Announce
<1>3. CASE Disconnect(s)
  BY <1>3 DEF Disconnect
<1>4. CASE Quit(s)
  BY <1>4 DEF Quit
<1>5. CASE Close(s)
  BY <1>5 DEF Close
<1> HIDE DEF TypeInv
<1> QED
  BY <1>1, <1>2, UnlockKeepsTypes, TakeKeepsTypes, WriteKeepsTypes, <1>3, <1>4, <1>5
  DEF StreamStep, LockStep

LEMMA NextKeepsTypes == TypeInv /\ [Next]_vars => TypeInv'
<1> SUFFICES ASSUME TypeInv, [Next]_vars PROVE TypeInv'
  OBVIOUS
<1>1. CASE UNCHANGED vars
  BY <1>1 DEF vars, ingest, stream, history, TypeInv, TableType, RequestType, StreamType,
              RowsType, HasRow, HoldsOne
<1>2. CASE Next
  BY <1>2, IngestKeepsTypes, StreamKeepsTypes DEF Next
<1> QED
  BY <1>1, <1>2

(* The variables of the live tail keep their types.                        *)
THEOREM TailTypes == Spec => []TypeOK
<1>1. TypeInv => TypeOK
  BY DEF TypeInv, TypeOK, TableType, RequestType, StreamType, RowsType
<1> QED
  BY TypeInit, NextKeepsTypes, <1>1, PTL DEF Spec

(* LockIsPassedOn: who announces itself is at its Lock, and leaves it only *)
(* by taking the lock and giving it back, which lets all parked requests   *)
(* in.  So the lock is never lost, for any number of requests and streams. *)
THEOREM LockNeverLost == Spec => []LockIsPassedOn
<1>1. Init => LockIsPassedOn
  BY DEF Init, LockIsPassedOn
<1>2. TypeInv /\ LockIsPassedOn /\ [Next]_vars => LockIsPassedOn'
  <2> SUFFICES ASSUME TypeInv, LockIsPassedOn, [Next]_vars PROVE LockIsPassedOn'
    OBVIOUS
  <2> USE DEF TypeInv, RequestType, StreamType, LockIsPassedOn
  <2>1. CASE UNCHANGED vars
    BY <2>1 DEF vars, ingest, stream, history
  <2>2. ASSUME NEW i \in Ingesters, (\E body \in Batches[i] : Post(i, body)) \/ IngestStep(i)
        PROVE  LockIsPassedOn'
    <3>1. announced' = announced /\ spc' = spc
      BY <2>2 DEF IngestStep, Post, Respond, Skip, Insert, RLock, Offer, RUnlock, Alert, stream
    <3>2. \A j \in Ingesters : ipc'[j] = "parked" => ipc[j] = "parked" \/ announced # Nobody
      BY <2>2 DEF IngestStep, Post, Respond, Skip, Insert, RLock, Offer, RUnlock, Alert, Goto
    <3> QED
      BY <3>1, <3>2
  <2>3. ASSUME NEW s \in Streams, Announce(s) PROVE LockIsPassedOn'
    BY <2>3 DEF Announce, ingest
  <2>4. ASSUME NEW s \in Streams, Register(s) \/ Unregister(s) PROVE LockIsPassedOn'
    <3>1. announced' = Nobody /\ \A i \in Ingesters : ipc'[i] # "parked"
      BY <2>4 DEF Register, Unregister, Unlock
    <3> QED
      BY <3>1
  <2>5. ASSUME NEW s \in Streams,
               Follow(s) \/ Take(s) \/ Write(s) \/ Disconnect(s) \/ Quit(s) \/ Close(s)
        PROVE  LockIsPassedOn'
    <3>1. UNCHANGED <<announced, ipc>> /\ \A t \in Streams \ {s} : spc'[t] = spc[t]
      BY <2>5 DEF Follow, Take, Write, Disconnect, Quit, Close, ingest
    <3>2. spc'[s] = spc[s] \/ spc[s] \notin {"enter", "leave"}
      BY <2>5 DEF Follow, Take, Write, Disconnect, Quit, Close
    <3> QED
      BY <3>1, <3>2
  <2> QED
    BY <2>1, <2>2, <2>3, <2>4, <2>5 DEF Next, StreamStep, LockStep
<1> QED
  BY <1>1, <1>2, TypeInit, NextKeepsTypes, PTL DEF Spec

-----------------------------------------------------------------------------
(* No row is lost unnoticed                                                *)

LEMMA ToSetOfConcat ==
  ASSUME NEW S, NEW p \in Seq(S), NEW q \in Seq(S)
  PROVE  ToSet(p \o q) = ToSet(p) \cup ToSet(q)
<1>1. Len(p) \in Nat /\ Len(q) \in Nat /\ p \o q \in Seq(S) /\ Len(p \o q) = Len(p) + Len(q)
  OBVIOUS
<1>2. ASSUME NEW i \in 1..Len(p) PROVE (p \o q)[i] = p[i]
  OBVIOUS
<1>3. ASSUME NEW i \in 1..Len(q) PROVE (p \o q)[Len(p) + i] = q[i] /\ Len(p) + i \in 1..Len(p \o q)
  BY <1>1
<1>4. DOMAIN p = 1..Len(p) /\ DOMAIN q = 1..Len(q) /\ DOMAIN (p \o q) = 1..Len(p \o q)
  BY <1>1
<1>5. ASSUME NEW i \in DOMAIN (p \o q) PROVE (p \o q)[i] \in ToSet(p) \cup ToSet(q)
  <2>1. CASE i <= Len(p)
    BY <1>1, <1>2, <1>4, <1>5, <2>1 DEF ToSet
  <2>2. CASE i > Len(p)
    <3>1. i - Len(p) \in 1..Len(q) /\ (p \o q)[i] = q[i - Len(p)]
      BY <1>1, <1>4, <1>5, <2>2
    <3> QED
      BY <3>1, <1>4 DEF ToSet
  <2> QED
    BY <1>1, <1>4, <2>1, <2>2
<1>6. ToSet(p) \subseteq ToSet(p \o q)
  BY <1>1, <1>2, <1>4 DEF ToSet
<1>7. ToSet(q) \subseteq ToSet(p \o q)
  BY <1>1, <1>3, <1>4 DEF ToSet
<1>8. ToSet(p \o q) \subseteq ToSet(p) \cup ToSet(q)
  BY <1>5 DEF ToSet
<1> QED
  BY <1>6, <1>7, <1>8

LEMMA ToSetOfAppend ==
  ASSUME NEW S, NEW p \in Seq(S), NEW e \in S
  PROVE  ToSet(Append(p, e)) = ToSet(p) \cup {e}
<1>1. Append(p, e) = p \o <<e>> /\ <<e>> \in Seq(S)
  OBVIOUS
<1>2. ToSet(<<e>>) = {e}
  BY DEF ToSet
<1>3. ToSet(p \o <<e>>) = ToSet(p) \cup ToSet(<<e>>)
  BY <1>1, ToSetOfConcat
<1> QED
  BY <1>1, <1>2, <1>3

LEMMA HeadBeforeTail ==
  ASSUME NEW S, NEW q \in Seq(S), q # <<>>
  PROVE  <<Head(q)>> \o Tail(q) = q
OBVIOUS

(* What a stream has received, in whichever hands it is.                   *)
LEMMA ReceivedRows ==
  ASSUME TypeInv, NEW s \in Streams
  PROVE  ToSet(Received(s)) = ToSet(out[s]) \cup ToSet(holding[s]) \cup ToSet(channel[s])
<1> DEFINE S == 1..Len(table)
<1>1. /\ out[s] \in Seq(S) /\ holding[s] \in Seq(S)
      /\ channel[s] \in Seq(S) /\ out[s] \o holding[s] \in Seq(S)
  BY DEF TypeInv, RowsType
<1> HIDE DEF S
<1>2. ToSet(Received(s)) = ToSet(out[s] \o holding[s]) \cup ToSet(channel[s])
  BY <1>1, ToSetOfConcat DEF Received
<1>3. ToSet(out[s] \o holding[s]) = ToSet(out[s]) \cup ToSet(holding[s])
  BY <1>1, ToSetOfConcat
<1> QED
  BY <1>2, <1>3

(* Steps that neither store, deliver nor drop anything.                    *)
LEMMA GapFrame ==
  ASSUME NoSilentGap,
         UNCHANGED <<table, out, holding, channel, dropped, since, subs>>,
         \A s \in subs : connected'[s] => connected[s],
         \A s \in subs : \A id \in (since[s] + 1)..Len(table) : Coming(s, id) => Coming(s, id)'
  PROVE  NoSilentGap'
<1>1. \A s \in subs : Received(s)' = Received(s)
  BY DEF Received
<1>2. \A s \in subs : \A id \in (since[s] + 1)..Len(table) :
         connected[s] /\ Wants(s, id) =>
           id \in ToSet(Received(s)) \/ id \in dropped[s] \/ Coming(s, id)
  BY DEF NoSilentGap
<1>3. \A s \in subs : \A id \in (since[s] + 1)..Len(table) : Wants(s, id)' = Wants(s, id)
  BY DEF Wants
<1>4. \A s \in subs : \A id \in (since[s] + 1)..Len(table) :
         connected'[s] /\ Wants(s, id)' =>
           id \in ToSet(Received(s))' \/ id \in dropped'[s] \/ Coming(s, id)'
  BY <1>1, <1>2, <1>3
<1> QED
  BY <1>4 DEF NoSilentGap

(* A row that is stored has its broadcast ahead of it.                     *)
LEMMA InsertKeepsGap ==
  ASSUME TypeInv, NoSilentGap, NEW i \in Ingesters, Insert(i) PROVE NoSilentGap'
<1>1. /\ Len(table) \in Nat /\ Len(table') = Len(table) + 1
      /\ \A id \in 1..Len(table) : table'[id] = table[id]
      /\ UNCHANGED <<out, holding, channel, dropped, since, subs, connected>>
  <2>1. table \in Seq([by : Ingesters, entry : Entries])
    BY DEF TypeInv, TableType
  <2> QED
    BY <2>1 DEF Insert, stream, history
<1>2. /\ ipc[i] = "next" /\ ipc' = [ipc EXCEPT ![i] = "rlock"]
      /\ current' = [current EXCEPT ![i] = Len(table) + 1] /\ ahead' = ahead
  BY <1>1 DEF Insert, LastId, Goto
<1>3. \A s \in subs : Received(s)' = Received(s)
  BY <1>1 DEF Received
<1>4. \A s \in subs, id \in 1..Len(table) : Coming(s, id) => Coming(s, id)'
  BY <1>2 DEF Coming, TypeInv, TableType, RequestType
<1>5. ASSUME NEW s \in subs, NEW id, id = Len(table) + 1 PROVE Coming(s, id)'
  BY <1>2, <1>5 DEF Coming, TypeInv, TableType, RequestType
<1>6. \A s \in subs : since[s] \in 0..Len(table)
  BY DEF TypeInv, StreamType
<1>7. ASSUME NEW s \in subs, NEW id \in (since[s] + 1)..(Len(table) + 1),
             connected[s], Wants(s, id)'
      PROVE  \/ id \in ToSet(Received(s))' \/ id \in dropped'[s] \/ Coming(s, id)'
  <2>1. CASE id = Len(table) + 1
    BY <1>5, <2>1
  <2>2. CASE id # Len(table) + 1
    <3>1. id \in (since[s] + 1)..Len(table) /\ id \in 1..Len(table)
      BY <1>1, <1>6, <2>2
    <3>2. Wants(s, id)
      BY <1>1, <1>7, <3>1 DEF Wants
    <3>3. id \in ToSet(Received(s)) \/ id \in dropped[s] \/ Coming(s, id)
      BY <1>7, <3>1, <3>2 DEF NoSilentGap
    <3> QED
      BY <1>1, <1>3, <1>4, <3>1, <3>3
  <2> QED
    BY <2>1, <2>2
<1> QED
  BY <1>1, <1>7 DEF NoSilentGap

(* A broadcast delivers its row, or drops it because the channel is full,  *)
(* or passes over a stream that does not want it.                          *)
LEMMA OfferKeepsGap ==
  ASSUME TypeInv, NoSilentGap, NEW i \in Ingesters, NEW s \in Streams, Offer(i, s)
  PROVE  NoSilentGap'
<1>1. /\ ipc[i] = "send" /\ ahead' = [ahead EXCEPT ![i] = @ \ {s}]
      /\ UNCHANGED <<table, ipc, current, subs, holding, connected, out, since>>
  BY DEF Offer
<1>2. current[i] \in 1..Len(table)
  BY <1>1 DEF TypeInv, HasRow, Busy
<1>3. /\ channel' = [channel EXCEPT ![s] = IF Receives(s, current[i])
                                          THEN Append(@, current[i]) ELSE @]
      /\ dropped' = [dropped EXCEPT ![s] = IF Wants(s, current[i]) /\ Full(s)
                                          THEN @ \cup {current[i]} ELSE @]
  BY DEF Offer, TypeInv, RowsType
<1>4. TypeInv'
  BY OfferKeepsTypes
<1>5. ToSet(Append(channel[s], current[i])) = ToSet(channel[s]) \cup {current[i]}
  <2> DEFINE S == 1..Len(table)
  <2>1. channel[s] \in Seq(S) /\ current[i] \in S
    BY <1>2 DEF TypeInv, RowsType
  <2> HIDE DEF S
  <2> QED
    BY <2>1, ToSetOfAppend
<1>6. \A t \in Streams : ToSet(channel[t]) \subseteq ToSet(channel'[t])
  BY <1>3, <1>5 DEF TypeInv, RowsType
<1>7. Receives(s, current[i]) => current[i] \in ToSet(channel'[s])
  BY <1>3, <1>5 DEF TypeInv, RowsType
<1>8. \A t \in Streams : /\ ToSet(Received(t)) \subseteq ToSet(Received(t))'
                         /\ ToSet(channel'[t]) \subseteq ToSet(Received(t))'
                         /\ dropped[t] \subseteq dropped'[t]
  <2>1. \A t \in Streams : ToSet(Received(t)) = ToSet(out[t]) \cup ToSet(holding[t]) \cup ToSet(channel[t])
    BY ReceivedRows
  <2>2. ASSUME NEW t \in Streams
        PROVE  ToSet(Received(t))' = (ToSet(out[t]) \cup ToSet(holding[t]) \cup ToSet(channel[t]))'
    <3> DEFINE S == 1..Len(table')
    <3>1. /\ out'[t] \in Seq(S) /\ holding'[t] \in Seq(S)
          /\ channel'[t] \in Seq(S) /\ (out'[t] \o holding'[t]) \in Seq(S)
      BY <1>4 DEF TypeInv, RowsType
    <3> HIDE DEF S
    <3>2. ToSet((out'[t] \o holding'[t]) \o channel'[t])
            = ToSet(out'[t] \o holding'[t]) \cup ToSet(channel'[t])
      BY <3>1, ToSetOfConcat
    <3>3. ToSet(out'[t] \o holding'[t]) = ToSet(out'[t]) \cup ToSet(holding'[t])
      BY <3>1, ToSetOfConcat
    <3> QED
      BY <3>2, <3>3 DEF Received
  <2> QED
    BY <1>1, <1>3, <1>6, <2>1, <2>2 DEF TypeInv, RowsType
<1>9. ASSUME NEW t \in subs, NEW id \in (since[t] + 1)..Len(table), connected[t], Wants(t, id)
      PROVE  id \in ToSet(Received(t))' \/ id \in dropped'[t] \/ Coming(t, id)'
  <2>1. t \in Streams
    BY DEF TypeInv, StreamType
  <2>2. CASE ~Coming(t, id)
    BY <1>8, <1>9, <2>1, <2>2 DEF NoSilentGap
  <2>3. CASE Coming(t, id) /\ ~Coming(t, id)'
    <3>1. t = s /\ id = current[i]
      BY <1>1, <2>3 DEF Coming, TypeInv, RequestType
    <3>2. CASE Full(s)
      BY <1>3, <1>9, <3>1, <3>2 DEF TypeInv, RowsType
    <3>3. CASE ~Full(s)
      BY <1>7, <1>8, <1>9, <3>1, <3>3 DEF Receives
    <3> QED
      BY <3>2, <3>3
  <2> QED
    BY <2>2, <2>3
<1> QED
  BY <1>1, <1>9 DEF NoSilentGap, Wants

(* Entering and leaving the map: parked requests visit the new map.        *)
LEMMA UnlockKeepsGap ==
  ASSUME TypeInv, NoSilentGap, NEW s \in Streams, Register(s) \/ Unregister(s)
  PROVE  NoSilentGap'
<1> DEFINE map == IF Register(s) THEN subs \cup {s} ELSE Without(s)
<1>1. /\ UNCHANGED <<table, current, channel, holding, connected, out, dropped>>
      /\ subs' = map
      /\ ipc' = [j \in Ingesters |-> IF ipc[j] = "parked" THEN "send" ELSE ipc[j]]
      /\ ahead' = [j \in Ingesters |-> IF ipc[j] = "parked" THEN map ELSE ahead[j]]
  BY DEF Register, Unregister, Unlock
<1>2. \/ Register(s) /\ since' = [since EXCEPT ![s] = Len(table)]
      \/ ~Register(s) /\ since' = since /\ map = subs \ {s}
  BY DEF Register, Unregister, Without
<1>3. ASSUME NEW t \in subs', NEW id \in (since'[t] + 1)..Len(table), connected[t], Wants(t, id)
      PROVE  id \in ToSet(Received(t)) \/ id \in dropped[t] \/ Coming(t, id)'
  <2>1. t \in subs /\ since'[t] = since[t]
    <3>1. Len(table) \in Nat
      BY DEF TypeInv, TableType
    <3>2. ~(Register(s) /\ t = s)
      BY <1>2, <1>3, <3>1 DEF TypeInv, StreamType
    <3> QED
      BY <1>1, <1>2, <3>2 DEF TypeInv, StreamType
  <2>2. id \in ToSet(Received(t)) \/ id \in dropped[t] \/ Coming(t, id)
    BY <1>3, <2>1 DEF NoSilentGap
  <2>3. Coming(t, id) => Coming(t, id)'
    BY <1>1, <1>3 DEF Coming
  <2> QED
    BY <2>2, <2>3
<1>4. \A t \in Streams : Received(t)' = Received(t)
  BY <1>1 DEF Received
<1>5. subs' \subseteq Streams
  BY <1>1, <1>2 DEF TypeInv, StreamType
<1> QED
  BY <1>1, <1>3, <1>4, <1>5 DEF NoSilentGap, Wants

(* A row that changes hands is still received.                             *)
LEMMA TakeKeepsReceived ==
  ASSUME TypeInv, NEW s \in Streams, Take(s)
  PROVE  \A t \in Streams : Received(t)' = Received(t)
<1>1. /\ spc[s] = "loop" /\ channel[s] # <<>>
      /\ holding' = [holding EXCEPT ![s] = <<Head(channel[s])>>]
      /\ channel' = [channel EXCEPT ![s] = Tail(@)] /\ out' = out
  BY DEF Take, history
<1>2. holding[s] = <<>>
  BY <1>1 DEF TypeInv, HoldsOne
<1>3. Received(s)' = Received(s)
  <2> DEFINE S == 1..Len(table)
  <2>1. out[s] \in Seq(S) /\ channel[s] \in Seq(S)
    BY DEF TypeInv, RowsType
  <2> HIDE DEF S
  <2>2. /\ <<Head(channel[s])>> \in Seq(S) /\ Tail(channel[s]) \in Seq(S)
        /\ <<Head(channel[s])>> \o Tail(channel[s]) = channel[s]
    BY <1>1, <2>1, HeadAndTail, HeadBeforeTail
  <2>3. Received(s) = (out[s] \o <<>>) \o channel[s]
    BY <1>2 DEF Received
  <2>4. Received(s)' = (out[s] \o <<Head(channel[s])>>) \o Tail(channel[s])
    BY <1>1 DEF Received, TypeInv, RowsType
  <2>5. (out[s] \o <<Head(channel[s])>>) \o Tail(channel[s])
          = out[s] \o (<<Head(channel[s])>> \o Tail(channel[s]))
    <3> DEFINE o == out[s]
               h == <<Head(channel[s])>>
               t == Tail(channel[s])
    <3>1. o \in Seq(S) /\ h \in Seq(S) /\ t \in Seq(S)
      BY <2>1, <2>2
    <3> HIDE DEF o, h, t
    <3>2. (o \o h) \o t = o \o (h \o t)
      BY <3>1, ConcatAssociative
    <3> QED
      BY <3>2 DEF o, h, t
  <2>6. out[s] \o <<>> = out[s]
    BY <2>1
  <2> QED
    BY <2>2, <2>3, <2>4, <2>5, <2>6
<1>4. \A t \in Streams \ {s} : Received(t)' = Received(t)
  BY <1>1 DEF Received, TypeInv, RowsType
<1> QED
  BY <1>3, <1>4

(* A written row has reached the client, unless the client is gone.        *)
LEMMA WriteKeepsReceived ==
  ASSUME TypeInv, NEW s \in Streams, Write(s)
  PROVE  \A t \in Streams : connected[t] => Received(t)' = Received(t)
<1>1. /\ out' = [out EXCEPT ![s] = IF connected[s] THEN @ \o holding[s] ELSE @]
      /\ holding' = [holding EXCEPT ![s] = <<>>] /\ channel' = channel
  BY DEF Write
<1>2. connected[s] => Received(s)' = Received(s)
  <2> DEFINE S == 1..Len(table)
  <2>1. out[s] \in Seq(S) /\ holding[s] \in Seq(S) /\ channel[s] \in Seq(S)
        /\ out[s] \o holding[s] \in Seq(S)
    BY DEF TypeInv, RowsType
  <2> HIDE DEF S
  <2>2. (out[s] \o holding[s]) \o <<>> = out[s] \o holding[s]
    BY <2>1
  <2>3. connected[s] => Received(s)' = ((out[s] \o holding[s]) \o <<>>) \o channel[s]
    BY <1>1 DEF Received, TypeInv, RowsType
  <2> QED
    BY <2>2, <2>3 DEF Received
<1>3. \A t \in Streams \ {s} : Received(t)' = Received(t)
  BY <1>1 DEF Received, TypeInv, RowsType
<1> QED
  BY <1>2, <1>3

LEMMA LoopKeepsGap ==
  ASSUME TypeInv, NoSilentGap, NEW s \in Streams, Take(s) \/ Write(s)
  PROVE  NoSilentGap'
<1>1. UNCHANGED <<table, ipc, current, ahead, subs, connected, dropped, since>>
  BY DEF Take, Write, ingest, history
<1>2. \A t \in subs : connected[t] => Received(t)' = Received(t)
  BY TakeKeepsReceived, WriteKeepsReceived DEF TypeInv, StreamType
<1>3. \A t \in subs : \A id \in (since[t] + 1)..Len(table) : Coming(t, id)' = Coming(t, id)
  BY <1>1 DEF Coming
<1>4. \A t \in subs : \A id \in (since[t] + 1)..Len(table) :
         connected[t] /\ Wants(t, id) =>
           id \in ToSet(Received(t))' \/ id \in dropped[t] \/ Coming(t, id)'
  BY <1>2, <1>3 DEF NoSilentGap
<1> QED
  BY <1>1, <1>4 DEF NoSilentGap, Wants

LEMMA NextKeepsGap == TypeInv /\ NoSilentGap /\ [Next]_vars => NoSilentGap'
<1> SUFFICES ASSUME TypeInv, NoSilentGap, [Next]_vars PROVE NoSilentGap'
  OBVIOUS
<1>1. ASSUME NEW i \in Ingesters,
             (\E body \in Batches[i] : Post(i, body)) \/ Respond(i) \/ Skip(i)
             \/ RLock(i) \/ RUnlock(i) \/ Alert(i)
      PROVE  NoSilentGap'
  <2>1. UNCHANGED <<table, out, holding, channel, dropped, since, subs, connected>>
    BY <1>1 DEF Post, Respond, Skip, RLock, RUnlock, Alert, stream, history
  <2>2. /\ current' = current
        /\ \A j \in Ingesters \ {i} : ipc'[j] = ipc[j] /\ ahead'[j] = ahead[j]
    BY <1>1 DEF Post, Respond, Skip, RLock, RUnlock, Alert, Goto, TypeInv, RequestType
  <2>3. \/ ipc[i] \in {"idle", "next", "alert"} \/ (ipc[i] = "send" /\ ahead[i] = {})
        \/ ipc[i] = "rlock" /\ (ipc'[i] = "parked" \/ (ipc'[i] = "send" /\ ahead'[i] = subs))
    BY <1>1 DEF Post, Respond, Skip, RLock, RUnlock, Alert, Goto, TypeInv, RequestType
  <2>4. \A s \in subs : \A id \in (since[s] + 1)..Len(table) : Coming(s, id) => Coming(s, id)'
    BY <2>2, <2>3 DEF Coming
  <2> QED
    BY <2>1, <2>4, GapFrame
<1>2. ASSUME NEW s \in Streams, Follow(s) \/ Announce(s) \/ Disconnect(s) \/ Quit(s) \/ Close(s)
      PROVE  NoSilentGap'
  <2>1. UNCHANGED <<table, ipc, current, ahead, out, holding, channel, dropped, since, subs>>
    BY <1>2 DEF Follow, Announce, Disconnect, Quit, Close, ingest, history
  <2>2. \A t \in subs : connected'[t] => connected[t]
    BY <1>2 DEF Follow, Announce, Disconnect, Quit, Close, TypeInv, StreamType
  <2>3. \A t \in subs : \A id \in (since[t] + 1)..Len(table) : Coming(t, id) => Coming(t, id)'
    BY <2>1 DEF Coming
  <2> QED
    BY <2>1, <2>2, <2>3, GapFrame
<1>3. CASE UNCHANGED vars
  <2>1. UNCHANGED <<table, ipc, current, ahead, out, holding, channel, dropped, since, subs, connected>>
    BY <1>3 DEF vars, ingest, stream, history
  <2>2. \A t \in subs : \A id \in (since[t] + 1)..Len(table) : Coming(t, id) => Coming(t, id)'
    BY <2>1 DEF Coming
  <2> QED
    BY <2>1, <2>2, GapFrame
<1> QED
  BY <1>1, <1>2, <1>3, InsertKeepsGap, OfferKeepsGap, UnlockKeepsGap, LoopKeepsGap
  DEF Next, IngestStep, StreamStep, LockStep

(* broadcastLog and logsStreamHandler: a registered stream misses no row   *)
(* it wants unless its channel was full, for any number of requests and    *)
(* streams and any capacity, although rows are stored before the lock is   *)
(* taken and the lock may have to wait for a stream that comes or goes.    *)
THEOREM NothingMissed == Spec => []NoSilentGap
<1>1. Init => NoSilentGap
  BY DEF Init, NoSilentGap
<1> QED
  BY <1>1, TypeInit, NextKeepsTypes, NextKeepsGap, PTL DEF Spec

-----------------------------------------------------------------------------
(* The rows of a request stay in their order                               *)

(* A request that has still to offer its row to a stream.                  *)
Pending(i, s) == \/ ipc[i] \in {"rlock", "parked"}
                 \/ ipc[i] = "send" /\ s \in ahead[i]

(* What a stream has of a request is not newer than the request's row, and *)
(* older than that as long as the row is on its way.                       *)
OldRows ==
  \A s \in Streams : \A p \in DOMAIN Received(s) : \A i \in Ingesters :
     table[Received(s)[p]].by = i =>
       /\ Received(s)[p] <= current[i]
       /\ Pending(i, s) => Received(s)[p] < current[i]

OrderInv == InOrder /\ OldRows

LEMMA ReceivedType ==
  ASSUME TypeInv, NEW s \in Streams
  PROVE  /\ Received(s) \in Seq(1..Len(table))
         /\ \A p \in DOMAIN Received(s) : Received(s)[p] \in 1..Len(table)
<1> DEFINE S == 1..Len(table)
<1>1. out[s] \in Seq(S) /\ holding[s] \in Seq(S) /\ channel[s] \in Seq(S)
  BY DEF TypeInv, RowsType
<1>2. \A r \in Seq(S) : \A p \in DOMAIN r : r[p] \in S
  OBVIOUS
<1> HIDE DEF S
<1>3. Received(s) \in Seq(S)
  BY <1>1 DEF Received
<1>4. \A p \in DOMAIN Received(s) : Received(s)[p] \in S
  BY <1>2, <1>3
<1> QED
  BY <1>3, <1>4 DEF S

LEMMA OrderFrame ==
  ASSUME OrderInv, table' = table, current' = current,
         \A s \in Streams : Received(s)' = Received(s),
         \A i \in Ingesters, s \in Streams : Pending(i, s)' => Pending(i, s)
  PROVE  OrderInv'
<1>1. InOrder'
  BY DEF OrderInv, InOrder
<1>2. OldRows'
  BY DEF OrderInv, OldRows
<1> QED
  BY <1>1, <1>2 DEF OrderInv

(* A new row is newer than all.                                            *)
LEMMA InsertKeepsOrder ==
  ASSUME TypeInv, OrderInv, NEW i \in Ingesters, Insert(i) PROVE OrderInv'
<1>1. /\ Len(table) \in Nat
      /\ \A id \in 1..Len(table) : table'[id] = table[id]
      /\ current' = [current EXCEPT ![i] = Len(table) + 1]
      /\ \A j \in Ingesters \ {i} : ipc'[j] = ipc[j]
      /\ UNCHANGED <<ahead, out, holding, channel>>
  <2>1. table \in Seq([by : Ingesters, entry : Entries])
    BY DEF TypeInv, TableType
  <2> QED
    BY <2>1 DEF Insert, LastId, Goto, stream, history, TypeInv, RequestType
<1>2. \A s \in Streams : Received(s)' = Received(s)
  BY <1>1 DEF Received
<1>3. ASSUME NEW s \in Streams, NEW p \in DOMAIN Received(s)
      PROVE  /\ Received(s)[p] \in 1..Len(table)
             /\ table'[Received(s)[p]] = table[Received(s)[p]]
  BY <1>1, ReceivedType
<1>4. InOrder'
  BY <1>2, <1>3 DEF OrderInv, InOrder
<1>5. ASSUME NEW s \in Streams, NEW p \in DOMAIN Received(s), NEW j \in Ingesters,
             table[Received(s)[p]].by = j
      PROVE  /\ Received(s)[p] <= current'[j]
             /\ Pending(j, s)' => Received(s)[p] < current'[j]
  <2>1. CASE j = i
    BY <1>1, <1>3, <2>1 DEF TypeInv, TableType
  <2>2. CASE j # i
    <3>1. current'[j] = current[j] /\ (Pending(j, s)' = Pending(j, s))
      BY <1>1, <2>2 DEF Pending, TypeInv, TableType
    <3> QED
      BY <1>5, <3>1 DEF OrderInv, OldRows
  <2> QED
    BY <2>1, <2>2
<1>6. OldRows'
  BY <1>2, <1>3, <1>5 DEF OldRows
<1> QED
  BY <1>4, <1>6 DEF OrderInv

(* An offered row is the newest of its request, and is offered once.       *)
LEMMA OfferKeepsOrder ==
  ASSUME TypeInv, OrderInv, NEW i \in Ingesters, NEW s \in Streams, Offer(i, s)
  PROVE  OrderInv'
<1>1. /\ ipc[i] = "send" /\ s \in ahead[i] /\ ahead' = [ahead EXCEPT ![i] = @ \ {s}]
      /\ UNCHANGED <<table, ipc, current, holding, out>>
      /\ channel' = [channel EXCEPT ![s] = IF Receives(s, current[i])
                                          THEN Append(@, current[i]) ELSE @]
  BY DEF Offer, TypeInv, RowsType
<1>2. current[i] \in 1..Len(table) /\ table[current[i]].by = i
  BY <1>1 DEF TypeInv, HasRow, Busy
<1>3. /\ \A j \in Ingesters, t \in Streams : Pending(j, t)' => Pending(j, t)
      /\ Pending(i, s) /\ ~Pending(i, s)'
  BY <1>1 DEF Pending, TypeInv, RequestType
<1>4. \A t \in Streams \ {s} : Received(t)' = Received(t)
  BY <1>1 DEF Received, TypeInv, RowsType
<1>5. CASE ~Receives(s, current[i])
  <2>1. Received(s)' = Received(s)
    BY <1>1, <1>5 DEF Received, TypeInv, RowsType
  <2> QED
    BY <1>1, <1>3, <1>4, <2>1, OrderFrame
<1>6. CASE Receives(s, current[i])
  <2> DEFINE old == Received(s)
             new == Received(s)'
  <2>1. new = Append(old, current[i])
    <3> DEFINE S == 1..Len(table)
               o == out[s] \o holding[s]
               c == channel[s]
               e == current[i]
    <3>1. o \in Seq(S) /\ c \in Seq(S) /\ e \in S
      BY <1>2 DEF TypeInv, RowsType
    <3>2. new = o \o Append(c, e) /\ old = o \o c
      BY <1>1, <1>6 DEF Received, TypeInv, RowsType
    <3> HIDE DEF S, o, c, e, old, new
    <3>3. o \o Append(c, e) = Append(o \o c, e)
      BY <3>1
    <3> QED
      BY <3>2, <3>3 DEF e
  <2>2. /\ old \in Seq(1..Len(table))
        /\ \A p \in DOMAIN old : old[p] \in 1..Len(table)
    BY ReceivedType
  <2> HIDE DEF old, new
  <2>3. /\ DOMAIN new = DOMAIN old \cup {Len(old) + 1} /\ Len(old) \in Nat
        /\ DOMAIN old = 1..Len(old)
        /\ \A p \in DOMAIN old : new[p] = old[p]
        /\ new[Len(old) + 1] = current[i]
    <3> DEFINE S == 1..Len(table)
               e == current[i]
    <3>1. old \in Seq(S) /\ e \in S
      BY <1>2, <2>2
    <3> HIDE DEF S, e
    <3>2. new = Append(old, e)
      BY <2>1 DEF e
    <3> QED
      BY <3>1, <3>2 DEF e
  <2>4. \A p, q \in DOMAIN new : p < q /\ table[new[p]].by = table[new[q]].by => new[p] < new[q]
    <3>1. \A p, q \in DOMAIN old : p < q /\ table[old[p]].by = table[old[q]].by => old[p] < old[q]
      BY DEF OrderInv, InOrder, old
    <3>2. \A p \in DOMAIN old : table[old[p]].by = i => old[p] < current[i]
      BY <1>3 DEF OrderInv, OldRows, old
    <3> QED
      BY <1>2, <2>3, <3>1, <3>2
  <2>5. InOrder'
    BY <1>1, <1>4, <2>4 DEF OrderInv, InOrder, new
  <2>6. ASSUME NEW p \in DOMAIN new, NEW j \in Ingesters, table[new[p]].by = j
        PROVE  new[p] <= current[j] /\ (Pending(j, s)' => new[p] < current[j])
    <3>1. CASE p = Len(old) + 1
      <4>1. j = i /\ new[p] = current[i]
        BY <1>2, <2>3, <2>6, <3>1
      <4> QED
        BY <1>2, <1>3, <4>1
    <3>2. CASE p \in DOMAIN old
      BY <1>3, <2>3, <2>6, <3>2 DEF OrderInv, OldRows, old
    <3> QED
      BY <2>3, <3>1, <3>2
  <2>7. OldRows'
    <3>1. ASSUME NEW t \in Streams, t # s, NEW p \in DOMAIN Received(t)', NEW j \in Ingesters,
                 table[Received(t)'[p]].by = j
          PROVE  /\ Received(t)'[p] <= current[j]
                 /\ Pending(j, t)' => Received(t)'[p] < current[j]
      BY <1>3, <1>4, <3>1 DEF OrderInv, OldRows
    <3> QED
      BY <1>1, <2>6, <3>1 DEF OldRows, new
  <2> QED
    BY <2>5, <2>7 DEF OrderInv
<1> QED
  BY <1>5, <1>6

(* A row that is written to a client that is gone is left out.             *)
LEMMA WriteKeepsOrder ==
  ASSUME TypeInv, OrderInv, NEW s \in Streams, Write(s) PROVE OrderInv'
<1>1. UNCHANGED <<table, ipc, current, ahead, channel>>
  BY DEF Write, ingest
<1>2. \A i \in Ingesters, t \in Streams : Pending(i, t)' = Pending(i, t)
  BY <1>1 DEF Pending
<1>3. CASE connected[s]
  <2>1. \A t \in Streams : Received(t)' = Received(t)
    <3>1. \A t \in Streams \ {s} : Received(t)' = Received(t)
      BY DEF Write, Received, TypeInv, RowsType
    <3>2. Received(s)' = Received(s)
      BY <1>3, WriteKeepsReceived
    <3> QED
      BY <3>1, <3>2
  <2> QED
    BY <1>1, <1>2, <2>1, OrderFrame
<1>4. CASE ~connected[s]
  <2> DEFINE old == Received(s)
             new == Received(s)'
             n == Len(out[s])
             Index(p) == IF p <= n THEN p ELSE p + 1
  <2>1. \A t \in Streams \ {s} : Received(t)' = Received(t)
    BY DEF Write, Received, TypeInv, RowsType
  <2>2. /\ n \in Nat /\ DOMAIN new \subseteq Nat
        /\ \A p \in DOMAIN new : Index(p) \in DOMAIN old /\ new[p] = old[Index(p)]
    <3> DEFINE S == 1..Len(table)
               o == out[s]
               c == channel[s]
    <3>1. PICK id \in S : holding[s] = <<id>>
      BY DEF TypeInv, HoldsOne, Write
    <3>2. o \in Seq(S) /\ c \in Seq(S)
      BY DEF TypeInv, RowsType
    <3>3. new = (o \o <<>>) \o c /\ old = (o \o <<id>>) \o c
      BY <1>1, <1>4, <3>1 DEF Write, Received, TypeInv, RowsType
    <3>4. n = Len(o)
      OBVIOUS
    <3> HIDE DEF S, o, c, n, old, new
    <3>5. o \o <<>> = o /\ n \in Nat
      BY <3>2, <3>4
    <3>6. /\ Len(new) = n + Len(c) /\ DOMAIN new = 1..(n + Len(c)) /\ Len(c) \in Nat
          /\ \A p \in 1..(n + Len(c)) : new[p] = IF p <= n THEN o[p] ELSE c[p - n]
      BY <3>2, <3>3, <3>4, <3>5
    <3>7. /\ Len(o \o <<id>>) = n + 1 /\ o \o <<id>> \in Seq(S)
          /\ \A p \in 1..n : (o \o <<id>>)[p] = o[p]
      BY <3>1, <3>2, <3>4, <3>5
    <3>8. /\ DOMAIN old = 1..(n + 1 + Len(c))
          /\ \A p \in 1..(n + 1 + Len(c)) :
                old[p] = IF p <= n + 1 THEN (o \o <<id>>)[p] ELSE c[p - (n + 1)]
      BY <3>2, <3>3, <3>5, <3>7
    <3>9. ASSUME NEW p \in 1..(n + Len(c)) PROVE Index(p) \in DOMAIN old /\ new[p] = old[Index(p)]
      <4>1. CASE p <= n
        BY <3>5, <3>6, <3>7, <3>8, <4>1
      <4>2. CASE p > n
        <5>1. p + 1 \in 1..(n + 1 + Len(c)) /\ p + 1 > n + 1 /\ p + 1 - (n + 1) = p - n
          BY <3>5, <3>6, <4>2
        <5> QED
          BY <3>5, <3>6, <3>8, <4>2, <5>1
      <4> QED
        BY <3>5, <4>1, <4>2
    <3> QED
      BY <3>5, <3>6, <3>9
  <2>3. \A p, q \in DOMAIN new : p < q => Index(p) < Index(q)
    BY <2>2
  <2> HIDE DEF old, new, n, Index
  <2>4. \A p, q \in DOMAIN new : p < q /\ table[new[p]].by = table[new[q]].by => new[p] < new[q]
    BY <2>2, <2>3 DEF OrderInv, InOrder, old
  <2>5. InOrder'
    BY <1>1, <2>1, <2>4 DEF OrderInv, InOrder, new
  <2>6. ASSUME NEW p \in DOMAIN new, NEW j \in Ingesters, table[new[p]].by = j
        PROVE  new[p] <= current[j] /\ (Pending(j, s) => new[p] < current[j])
    BY <2>2, <2>6 DEF OrderInv, OldRows, old
  <2>7. OldRows'
    <3>1. ASSUME NEW t \in Streams, t # s, NEW p \in DOMAIN Received(t)', NEW j \in Ingesters,
                 table[Received(t)'[p]].by = j
          PROVE  /\ Received(t)'[p] <= current[j]
                 /\ Pending(j, t)' => Received(t)'[p] < current[j]
      BY <1>2, <2>1, <3>1 DEF OrderInv, OldRows
    <3> QED
      BY <1>1, <1>2, <2>6, <3>1 DEF OldRows, new
  <2> QED
    BY <2>5, <2>7 DEF OrderInv
<1> QED
  BY <1>3, <1>4

LEMMA NextKeepsOrder == TypeInv /\ OrderInv /\ [Next]_vars => OrderInv'
<1> SUFFICES ASSUME TypeInv, OrderInv, [Next]_vars PROVE OrderInv'
  OBVIOUS
<1>1. ASSUME NEW i \in Ingesters,
             (\E body \in Batches[i] : Post(i, body)) \/ Respond(i) \/ Skip(i)
             \/ RLock(i) \/ RUnlock(i) \/ Alert(i)
      PROVE  OrderInv'
  <2>1. UNCHANGED <<table, current, out, holding, channel>>
    BY <1>1 DEF Post, Respond, Skip, RLock, RUnlock, Alert, stream, history
  <2>2. /\ \A j \in Ingesters \ {i} : ipc'[j] = ipc[j] /\ ahead'[j] = ahead[j]
        /\ ipc[i] = "rlock" \/ ipc'[i] \in {"next", "done", "alert"}
    BY <1>1 DEF Post, Respond, Skip, RLock, RUnlock, Alert, Goto, TypeInv, RequestType
  <2>3. \A j \in Ingesters, t \in Streams : Pending(j, t)' => Pending(j, t)
    BY <2>2 DEF Pending
  <2>4. \A t \in Streams : Received(t)' = Received(t)
    BY <2>1 DEF Received
  <2> QED
    BY <2>1, <2>3, <2>4, OrderFrame
<1>2. ASSUME NEW s \in Streams,
             Follow(s) \/ Announce(s) \/ Disconnect(s) \/ Quit(s) \/ Close(s)
             \/ Register(s) \/ Unregister(s)
      PROVE  OrderInv'
  <2>1. UNCHANGED <<table, current, out, holding, channel>>
    BY <1>2 DEF Follow, Announce, Disconnect, Quit, Close, Register, Unregister, Unlock, ingest, history
  <2>2. \/ ipc' = ipc /\ ahead' = ahead
        \/ \E map : /\ ipc' = [j \in Ingesters |-> IF ipc[j] = "parked" THEN "send" ELSE ipc[j]]
                    /\ ahead' = [j \in Ingesters |-> IF ipc[j] = "parked" THEN map ELSE ahead[j]]
    BY <1>2 DEF Follow, Announce, Disconnect, Quit, Close, Register, Unregister, Unlock, ingest
  <2>3. \A j \in Ingesters, t \in Streams : Pending(j, t)' => Pending(j, t)
    BY <2>2 DEF Pending
  <2>4. \A t \in Streams : Received(t)' = Received(t)
    BY <2>1 DEF Received
  <2> QED
    BY <2>1, <2>3, <2>4, OrderFrame
<1>3. ASSUME NEW s \in Streams, Take(s) PROVE OrderInv'
  <2>1. UNCHANGED <<table, ipc, current, ahead>>
    BY <1>3 DEF Take, ingest
  <2>2. \A j \in Ingesters, t \in Streams : Pending(j, t)' => Pending(j, t)
    BY <2>1 DEF Pending
  <2> QED
    BY <1>3, <2>1, <2>2, TakeKeepsReceived, OrderFrame
<1>4. CASE UNCHANGED vars
  <2>1. UNCHANGED <<table, ipc, current, ahead, out, holding, channel>>
    BY <1>4 DEF vars, ingest, stream, history
  <2>2. \A j \in Ingesters, t \in Streams : Pending(j, t)' => Pending(j, t)
    BY <2>1 DEF Pending
  <2>3. \A t \in Streams : Received(t)' = Received(t)
    BY <2>1 DEF Received
  <2> QED
    BY <2>1, <2>2, <2>3, OrderFrame
<1> QED
  BY <1>1, <1>2, <1>3, <1>4, InsertKeepsOrder, OfferKeepsOrder, WriteKeepsOrder
  DEF Next, IngestStep, StreamStep, LockStep

(* broadcastLog: each stream gets the rows of one request in the order of  *)
(* their ids, and none twice, for any number of requests and streams.      *)
THEOREM RowsInOrder == Spec => []InOrder
<1>1. Init => OrderInv
  <2> SUFFICES ASSUME Init PROVE OrderInv
    OBVIOUS
  <2>1. \A s \in Streams : Received(s) = <<>>
    BY DEF Init, Received
  <2> QED
    BY <2>1 DEF OrderInv, InOrder, OldRows
<1>2. OrderInv => InOrder
  BY DEF OrderInv
<1> QED
  BY <1>1, <1>2, TypeInit, NextKeepsTypes, NextKeepsOrder, PTL DEF Spec

-----------------------------------------------------------------------------
(* The count in the answer                                                 *)

(* A request has counted each of its rows but the one that is on its way   *)
(* to the streams and the alert rules.                                     *)
StoredInv ==
  \A i \in Ingesters : Cardinality(Stored(i)) = ingested[i] + (IF ipc[i] \in Busy THEN 1 ELSE 0)

LEMMA StoredFinite == ASSUME TypeInv, NEW i \in Ingesters PROVE IsFiniteSet(Stored(i))
<1>1. DOMAIN table = 1..Len(table) /\ Len(table) \in Nat
  BY DEF TypeInv, TableType
<1>2. IsFiniteSet(1..Len(table))
  BY <1>1, FS_Interval
<1> QED
  BY <1>1, <1>2, FS_Subset DEF Stored

LEMMA InsertKeepsStored ==
  ASSUME TypeInv, StoredInv, NEW i \in Ingesters, Insert(i) PROVE StoredInv'
<1> DEFINE n == Len(table) + 1
<1>1. table \in Seq([by : Ingesters, entry : Entries])
  BY DEF TypeInv, TableType
<1>2. PICK row : row.by = i /\ table' = Append(table, row)
  BY DEF Insert
<1>3. /\ DOMAIN table = 1..Len(table) /\ Len(table) \in Nat
      /\ DOMAIN table' = 1..n /\ table'[n].by = i
      /\ \A id \in 1..Len(table) : table'[id] = table[id]
  BY <1>1, <1>2
<1>4. /\ ipc[i] = "next" /\ ipc' = [ipc EXCEPT ![i] = "rlock"] /\ ingested' = ingested
  BY DEF Insert, Goto
<1>5. Stored(i)' = Stored(i) \cup {n} /\ n \notin Stored(i)
  BY <1>3 DEF Stored
<1>6. Cardinality(Stored(i)') = Cardinality(Stored(i)) + 1
  BY <1>5, StoredFinite, FS_AddElement
<1>7. \A j \in Ingesters \ {i} : Stored(j)' = Stored(j)
  BY <1>3 DEF Stored
<1>8. ASSUME NEW j \in Ingesters
      PROVE  Cardinality(Stored(j)') = ingested'[j] + (IF ipc'[j] \in Busy THEN 1 ELSE 0)
  <2>1. CASE j = i
    <3>1. Cardinality(Stored(i)) = ingested[i] /\ ingested[i] \in Nat
      <4>1. ipc[i] \notin Busy /\ ingested[i] \in Nat
        BY <1>4 DEF Busy, TypeInv, RequestType
      <4> QED
        BY <4>1 DEF StoredInv
    <3>2. ipc'[i] \in Busy /\ ingested'[i] = ingested[i]
      BY <1>4 DEF TypeInv, RequestType, Busy
    <3>3. Cardinality(Stored(i)') = ingested'[i] + (IF ipc'[i] \in Busy THEN 1 ELSE 0)
      BY <1>6, <3>1, <3>2
    <3> QED
      BY <2>1, <3>3
  <2>2. CASE j # i
    BY <1>4, <1>7, <2>2 DEF StoredInv, TypeInv, RequestType
  <2> QED
    BY <2>1, <2>2
<1> QED
  BY <1>8 DEF StoredInv

LEMMA StoredFrame ==
  ASSUME StoredInv, table' = table, ingested' = ingested,
         \A i \in Ingesters : ipc'[i] \in Busy <=> ipc[i] \in Busy
  PROVE  StoredInv'
<1>1. \A i \in Ingesters : Stored(i)' = Stored(i)
  BY DEF Stored
<1> QED
  BY <1>1 DEF StoredInv

LEMMA NextKeepsStored == TypeInv /\ StoredInv /\ [Next]_vars => StoredInv'
<1> SUFFICES ASSUME TypeInv, StoredInv, [Next]_vars PROVE StoredInv'
  OBVIOUS
<1>1. ASSUME NEW i \in Ingesters,
             \/ \E body \in Batches[i] : Post(i, body)
             \/ Respond(i) \/ Skip(i) \/ RLock(i) \/ RUnlock(i)
             \/ \E s \in Streams : Offer(i, s)
      PROVE  StoredInv'
  <2>1. table' = table /\ ingested' = ingested
    BY <1>1 DEF Post, Respond, Skip, RLock, RUnlock, Offer
  <2>2. \/ ipc' = ipc
        \/ ipc[i] \in {"idle", "next"} /\ \E place \in {"next", "done"} : ipc' = [ipc EXCEPT ![i] = place]
        \/ ipc[i] \in {"rlock", "send"} /\ \E place \in Busy : ipc' = [ipc EXCEPT ![i] = place]
    BY <1>1 DEF Post, Respond, Skip, RLock, RUnlock, Offer, Goto, Busy
  <2>3. \A j \in Ingesters : ipc'[j] \in Busy <=> ipc[j] \in Busy
    BY <2>2 DEF TypeInv, RequestType, Busy
  <2> QED
    BY <2>1, <2>3, StoredFrame
<1>2. ASSUME NEW i \in Ingesters, Alert(i) PROVE StoredInv'
  <2>1. /\ ipc[i] = "alert" /\ ipc' = [ipc EXCEPT ![i] = "next"] /\ table' = table
        /\ ingested' = [ingested EXCEPT ![i] = @ + 1]
    BY <1>2 DEF Alert, Goto
  <2>2. \A j \in Ingesters : Stored(j)' = Stored(j)
    BY <2>1 DEF Stored
  <2>3. \A j \in Ingesters : ingested[j] \in Nat
    BY DEF TypeInv, RequestType
  <2> QED
    BY <2>1, <2>2, <2>3 DEF StoredInv, TypeInv, RequestType, Busy
<1>3. ASSUME (\E s \in Streams : StreamStep(s)) \/ UNCHANGED vars PROVE StoredInv'
  <2>1. table' = table /\ ingested' = ingested
    BY <1>3 DEF StreamStep, LockStep, Follow, Announce, Register, Unregister, Unlock, Take,
                Write, Disconnect, Quit, Close, ingest, vars
  <2>2. ipc' = ipc \/ ipc' = [i \in Ingesters |-> IF ipc[i] = "parked" THEN "send" ELSE ipc[i]]
    BY <1>3 DEF StreamStep, LockStep, Follow, Announce, Register, Unregister, Unlock, Take,
                Write, Disconnect, Quit, Close, ingest, vars
  <2>3. \A i \in Ingesters : ipc'[i] \in Busy <=> ipc[i] \in Busy
    BY <2>2 DEF Busy
  <2> QED
    BY <2>1, <2>3, StoredFrame
<1> QED
  BY <1>1, <1>2, <1>3, InsertKeepsStored DEF Next, IngestStep

(* logsIngestHandler: the answer {"ingested": n} is the number of rows the *)
(* request has stored, for any number of requests with any bodies, however *)
(* their rows are mixed in the table.                                      *)
THEOREM AnswerCounts == Spec => []IngestedAreStored
<1>1. Init => StoredInv
  <2> SUFFICES ASSUME Init PROVE StoredInv
    OBVIOUS
  <2>1. \A i \in Ingesters : Stored(i) = {}
    BY DEF Init, Stored
  <2>2. Cardinality({}) = 0
    BY FS_EmptySet
  <2>3. \A i \in Ingesters : ingested[i] = 0 /\ ipc[i] \notin Busy
    BY DEF Init, Busy
  <2> QED
    BY <2>1, <2>2, <2>3 DEF StoredInv
<1>2. TypeInv /\ StoredInv => IngestedAreStored
  <2> SUFFICES ASSUME TypeInv, StoredInv, NEW i \in Ingesters, ipc[i] = "done"
               PROVE  ingested[i] = Cardinality(Stored(i))
    BY DEF IngestedAreStored
  <2>1. ipc[i] \notin Busy /\ ingested[i] \in Nat
    BY DEF Busy, TypeInv, RequestType
  <2> QED
    BY <2>1 DEF StoredInv
<1> QED
  BY <1>1, <1>2, TypeInit, NextKeepsTypes, NextKeepsStored, PTL DEF Spec
=============================================================================
