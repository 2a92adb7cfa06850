----------------------- MODULE TelegramPollersProofs -----------------------
(***************************************************************************)
(* Proofs about TelegramPollers, for any number of bots, presses, changes  *)
(* and crashes.                                                            *)
(***************************************************************************)
EXTENDS TelegramPollers, TLAPS

ManagerTypes ==
  /\ token \in [Projects -> Tokens \cup {NoToken}]
  /\ active \subseteq Tokens /\ found \subseteq Tokens
  /\ ppc \in [Tokens -> {"off", "start", "poll"}]
  /\ \A t \in Tokens : ppc[t] # "off" => t \in active
  /\ changes \in 0..MaxChanges /\ crashes \in 0..MaxCrashes
PollerTypes ==
  /\ offset \in [Tokens -> Nat]
  /\ batch \in [Tokens -> SUBSET Updates]
  /\ times \in [Tokens -> [Updates -> Nat]]
  /\ resolved \subseteq Issues
TelegramTypes ==
  /\ sent \in [Tokens -> Seq(Issues)] /\ confirmed \in [Tokens -> Nat]
  /\ \A t \in Tokens : confirmed[t] <= Len(sent[t])

LEMMA TypesSplit == TypeOK <=> ManagerTypes /\ PollerTypes /\ TelegramTypes
  BY DEF TypeOK, ManagerTypes, PollerTypes, TelegramTypes

(* What a poller still has to process lies between its offset and what was *)
(* sent, and everything before it, and before the offset, was processed at *)
(* least once.                                                             *)
Span(t, lo, hi) ==
  /\ batch[t] = lo..hi
  /\ lo >= 1 /\ lo >= offset[t] /\ hi <= Len(sent[t])
  /\ \A u \in Updates : u < lo => times[t][u] > 0

Covered(t) ==
  /\ Len(sent[t]) <= MaxUpdates
  /\ offset[t] <= Len(sent[t]) + 1
  /\ \A u \in Updates : u < offset[t] => times[t][u] > 0
  /\ \A u \in Updates : u <= confirmed[t] => times[t][u] > 0
  /\ batch[t] # {} => \E lo, hi \in Nat : Span(t, lo, hi)

(* Since the process was started, the updates below the offset were        *)
(* processed once more at most, and the others not at all.                 *)
OncePerLife(t) ==
  \A u \in Updates : times[t][u] <= crashes + (IF u < offset[t] THEN 1 ELSE 0)

IInv == /\ ManagerTypes /\ PollerTypes /\ TelegramTypes
        /\ \A t \in Tokens : Covered(t) /\ OncePerLife(t)

-----------------------------------------------------------------------------
LEMMA InitHolds == Init => IInv
<1> SUFFICES ASSUME Init PROVE IInv
  OBVIOUS
<1> USE PollersAssumption
<1>1. ManagerTypes
  BY DEF Init, ManagerTypes
<1>2. PollerTypes
  BY DEF Init, PollerTypes
<1>3. TelegramTypes
  BY DEF Init, TelegramTypes
<1>4. \A t \in Tokens : Covered(t) /\ OncePerLife(t)
  BY DEF Init, Covered, OncePerLife, Updates
<1> QED BY <1>1, <1>2, <1>3, <1>4 DEF IInv

(* A step that concerns only the settings and the manager.                 *)
LEMMA PollersUntouched ==
  ASSUME IInv, ManagerTypes', UNCHANGED <<offset, batch, sent, confirmed, resolved, times, crashes>>
  PROVE  IInv'
<1>1. PollerTypes' /\ TelegramTypes'
  BY DEF IInv, PollerTypes, TelegramTypes
<1>2. ASSUME NEW t \in Tokens PROVE Covered(t)' /\ OncePerLife(t)'
  <2>1. Covered(t) /\ OncePerLife(t)
    BY DEF IInv
  <2>2. OncePerLife(t)'
    BY <2>1 DEF OncePerLife
  <2>3. ASSUME NEW lo \in Nat, NEW hi \in Nat, Span(t, lo, hi) PROVE Span(t, lo, hi)'
    BY <2>3 DEF Span
  <2> QED BY <2>1, <2>2, <2>3 DEF Covered
<1> QED BY <1>1, <1>2 DEF IInv

(* People: a press only adds an update that nobody has seen.               *)
LEMMA PeopleSteps ==
  ASSUME IInv,
         \/ \E t \in Tokens, i \in Issues : Press(t, i)
         \/ \E p \in Projects, t \in Tokens \cup {NoToken} : SetToken(p, t)
  PROVE  IInv'
<1> USE PollersAssumption
<1>1. ASSUME NEW t \in Tokens, NEW i \in Issues, Press(t, i) PROVE IInv'
  <2>1. /\ UNCHANGED <<token, active, found, ppc, offset, batch, confirmed, resolved, times, changes, crashes>>
        /\ Len(sent[t]) < MaxUpdates
    BY <1>1 DEF Press, manager, poller
  <2>2. /\ sent' \in [Tokens -> Seq(Issues)]
        /\ sent'[t] = Append(sent[t], i)
        /\ \A b \in Tokens : b # t => sent'[b] = sent[b]
    BY <1>1 DEF Press, IInv, TelegramTypes
  <2>3. /\ Len(sent'[t]) = Len(sent[t]) + 1
        /\ \A b \in Tokens : /\ Len(sent[b]) \in Nat /\ Len(sent'[b]) \in Nat
                             /\ Len(sent'[b]) >= Len(sent[b])
    <3>1. sent[t] \in Seq(Issues) /\ \A b \in Tokens : Len(sent[b]) \in Nat
      BY DEF IInv, TelegramTypes
    <3>2. Len(sent'[t]) = Len(sent[t]) + 1
      BY <2>2, <3>1
    <3> QED BY <2>2, <3>1, <3>2
  <2>4. ManagerTypes' /\ PollerTypes'
    BY <2>1 DEF IInv, ManagerTypes, PollerTypes
  <2>5. TelegramTypes'
    BY <2>1, <2>2, <2>3 DEF IInv, TelegramTypes
  <2>6. ASSUME NEW b \in Tokens PROVE Covered(b)' /\ OncePerLife(b)'
    <3>1. Covered(b) /\ OncePerLife(b) /\ offset[b] \in Nat /\ Len(sent[b]) \in Nat
      BY DEF IInv, PollerTypes, TelegramTypes
    <3>2. Len(sent'[b]) <= MaxUpdates
      BY <2>1, <2>2, <2>3, <3>1 DEF Covered
    <3>3. ASSUME NEW lo \in Nat, NEW hi \in Nat, Span(b, lo, hi) PROVE Span(b, lo, hi)'
      BY <2>1, <2>3, <3>1, <3>3 DEF Span
    <3>4. OncePerLife(b)'
      BY <2>1, <3>1 DEF OncePerLife
    <3> QED BY <2>1, <2>3, <3>1, <3>2, <3>3, <3>4 DEF Covered
  <2> QED BY <2>4, <2>5, <2>6 DEF IInv
<1>2. ASSUME NEW p \in Projects, NEW t \in Tokens \cup {NoToken}, SetToken(p, t) PROVE IInv'
  <2>1. UNCHANGED <<active, found, ppc, offset, batch, sent, confirmed, resolved, times, crashes>>
    BY <1>2 DEF SetToken, manager, poller, telegram
  <2>2. ManagerTypes'
    BY <1>2, <2>1 DEF SetToken, IInv, ManagerTypes
  <2> QED BY <2>1, <2>2, PollersUntouched
<1> QED BY <1>1, <1>2

(* The manager, and the start of a poller.                                 *)
LEMMA ManagerSteps ==
  ASSUME IInv, Manager \/ \E t \in Tokens : Begin(t)
  PROVE  IInv'
<1> USE PollersAssumption
<1>1. UNCHANGED <<offset, batch, sent, confirmed, resolved, times, crashes>>
  BY DEF Manager, Scan, ScanFails, Start, Begin, poller, telegram
<1>2. ManagerTypes'
  <2>1. CASE Scan
    BY <2>1 DEF Scan, IInv, ManagerTypes, poller
  <2>2. CASE ScanFails
    BY <2>2 DEF ScanFails, IInv, ManagerTypes, poller
  <2>3. ASSUME NEW t \in Tokens, Start(t) PROVE ManagerTypes'
    BY <2>3 DEF Start, IInv, ManagerTypes
  <2>4. ASSUME NEW t \in Tokens, Begin(t) PROVE ManagerTypes'
    BY <2>4 DEF Begin, IInv, ManagerTypes, manager
  <2> QED BY <2>1, <2>2, <2>3, <2>4 DEF Manager
<1> QED BY <1>1, <1>2, PollersUntouched

(* The process forgets its offsets, and each update may come once more.    *)
LEMMA DieStep ==
  ASSUME IInv, Die
  PROVE  IInv'
<1> USE PollersAssumption
<1>1. ManagerTypes'
  BY DEF Die, IInv, ManagerTypes
<1>2. PollerTypes' /\ TelegramTypes'
  BY DEF Die, IInv, PollerTypes, TelegramTypes, telegram
<1>3. ASSUME NEW t \in Tokens PROVE Covered(t)' /\ OncePerLife(t)'
  <2>1. /\ Covered(t) /\ OncePerLife(t) /\ Len(sent[t]) \in Nat /\ crashes \in Nat
        /\ times[t] \in [Updates -> Nat]
    BY DEF IInv, ManagerTypes, PollerTypes, TelegramTypes
  <2>2. offset'[t] = 0 /\ batch'[t] = {} /\ crashes' = crashes + 1
    BY DEF Die
  <2>3. UNCHANGED <<sent, confirmed, times>>
    BY DEF Die, telegram
  <2>4. \A u \in Updates : u \in Nat /\ u > 0
    BY DEF Updates
  <2>5. Covered(t)'
    BY <2>1, <2>2, <2>3, <2>4 DEF Covered
  <2>6. OncePerLife(t)'
    BY <2>1, <2>2, <2>3, <2>4 DEF OncePerLife
  <2> QED BY <2>5, <2>6
<1> QED BY <1>1, <1>2, <1>3 DEF IInv

(* What Telegram confirms lies below the offset, and was processed.        *)
LEMMA FetchSteps ==
  ASSUME IInv, NEW t \in Tokens, Fetch(t) \/ FetchFails(t)
  PROVE  IInv'
<1> USE PollersAssumption
<1> DEFINE c == confirmed'[t]
<1>1. UNCHANGED <<token, active, found, ppc, offset, sent, resolved, times, changes, crashes>>
  BY DEF Fetch, FetchFails, manager, poller
<1>2. /\ confirmed' = [confirmed EXCEPT ![t] = Bigger(@, offset[t] - 1)]
      /\ confirmed[t] \in Nat /\ offset[t] \in Nat /\ Len(sent[t]) \in Nat
      /\ confirmed[t] <= Len(sent[t]) /\ offset[t] <= Len(sent[t]) + 1
      /\ Len(sent[t]) <= MaxUpdates
  BY DEF Fetch, FetchFails, Confirm, IInv, PollerTypes, TelegramTypes, Covered
<1>3. /\ c \in Nat /\ c >= offset[t] - 1 /\ c <= Len(sent[t])
      /\ c = confirmed[t] \/ c = offset[t] - 1
      /\ \A b \in Tokens : b # t => confirmed'[b] = confirmed[b]
      /\ confirmed' \in [Tokens -> Nat]
  BY <1>2 DEF Bigger, IInv, TelegramTypes
<1>4. \A u \in Updates : u <= c => times[t][u] > 0
  BY <1>2, <1>3 DEF IInv, Covered, Updates
<1> HIDE DEF c
<1>5. \/ batch' = batch /\ batch[t] = {}
      \/ \E last \in c..Len(sent[t]) : batch' = [batch EXCEPT ![t] = (c + 1)..last]
  BY DEF Fetch, FetchFails, poller, c
<1>6. ManagerTypes' /\ TelegramTypes'
  BY <1>1, <1>3 DEF IInv, ManagerTypes, TelegramTypes, c
<1>7. PollerTypes'
  <2>1. \A last \in c..Len(sent[t]) : (c + 1)..last \subseteq Updates
    BY <1>2, <1>3 DEF Updates
  <2> QED BY <1>1, <1>5, <2>1 DEF IInv, PollerTypes
<1>8. OncePerLife(t)' /\ \A b \in Tokens : OncePerLife(b)'
  BY <1>1 DEF IInv, OncePerLife
<1>9. ASSUME NEW b \in Tokens, b # t PROVE Covered(b)'
  <2>1. batch'[b] = batch[b] /\ confirmed'[b] = confirmed[b]
    BY <1>3, <1>5, <1>9 DEF IInv, PollerTypes
  <2> QED BY <1>1, <2>1 DEF IInv, Covered, Span
<1>10. Covered(t)'
  <2>1. ASSUME NEW last \in c..Len(sent[t]), batch'[t] = (c + 1)..last
        PROVE  \E lo, hi \in Nat : Span(t, lo, hi)'
    <3>1. PICK lo \in Nat : lo = c + 1
      BY <1>3
    <3>2. last \in Nat
      BY <1>2, <1>3
    <3>3. \A u \in Updates : u \in Nat /\ (u < lo => u <= c)
      BY <1>3, <3>1 DEF Updates
    <3>4. Span(t, lo, last)'
      BY <1>1, <1>2, <1>3, <1>4, <2>1, <3>1, <3>3 DEF Span
    <3> QED BY <3>2, <3>4
  <2>2. batch'[t] # {} => \E last \in c..Len(sent[t]) : batch'[t] = (c + 1)..last
    BY <1>5 DEF IInv, PollerTypes
  <2>3. batch'[t] # {} => \E lo, hi \in Nat : Span(t, lo, hi)'
    BY <2>1, <2>2
  <2> QED BY <1>1, <1>4, <2>3 DEF IInv, Covered, c
<1> QED BY <1>6, <1>7, <1>8, <1>9, <1>10 DEF IInv

(* The first update of an answer is the first that was not processed, and  *)
(* in this life of the process it was not.                                 *)
LEMMA ProcessStep ==
  ASSUME IInv, NEW t \in Tokens, Process(t)
  PROVE  IInv'
<1> USE PollersAssumption
<1>1. /\ UNCHANGED <<token, active, found, ppc, sent, confirmed, changes, crashes>>
      /\ batch[t] # {}
  BY DEF Process, manager, telegram
<1>2. PICK lo \in Nat, hi \in Nat : Span(t, lo, hi)
  BY <1>1 DEF IInv, Covered
<1>3. /\ offset[t] \in Nat /\ Len(sent[t]) \in Nat /\ Len(sent[t]) <= MaxUpdates
      /\ times[t] \in [Updates -> Nat] /\ crashes \in Nat
  BY DEF IInv, ManagerTypes, PollerTypes, TelegramTypes, Covered
<1>4. Current(t) = lo /\ lo <= hi
  <2>1. batch[t] = lo..hi /\ lo <= hi
    BY <1>1, <1>2 DEF Span
  <2>2. lo \in batch[t] /\ \A v \in batch[t] : lo <= v
    BY <2>1
  <2>3. \A u \in batch[t] : (\A v \in batch[t] : u <= v) => u = lo
    BY <2>1, <2>2
  <2> QED BY <2>1, <2>2, <2>3 DEF Current
<1>5. lo \in Updates /\ lo >= 1 /\ lo >= offset[t] /\ hi <= Len(sent[t]) /\ batch[t] = lo..hi
  BY <1>2, <1>3, <1>4 DEF Span, Updates
<1>6. /\ offset' = [offset EXCEPT ![t] = lo + 1]
      /\ resolved' \in {resolved, resolved \cup {sent[t][lo]}}
      /\ times' = [times EXCEPT ![t][lo] = @ + 1]
      /\ batch' = [batch EXCEPT ![t] = {u \in batch[t] : u > lo}]
  <2>1. lo >= offset[t]
    BY <1>5
  <2> QED BY <1>4, <2>1 DEF Process, Rest, Advance
<1>7. /\ offset'[t] = lo + 1 /\ batch'[t] = (lo + 1)..hi
      /\ times'[t][lo] = times[t][lo] + 1
      /\ \A u \in Updates : u # lo => times'[t][u] = times[t][u]
      /\ times'[t] \in [Updates -> Nat]
  <2>1. {u \in lo..hi : u > lo} = (lo + 1)..hi
    OBVIOUS
  <2> QED BY <1>3, <1>5, <1>6, <2>1 DEF IInv, PollerTypes
<1>8. \A b \in Tokens : b # t =>
         offset'[b] = offset[b] /\ batch'[b] = batch[b] /\ times'[b] = times[b]
  BY <1>6 DEF IInv, PollerTypes
<1>9. ManagerTypes' /\ TelegramTypes'
  BY <1>1 DEF IInv, ManagerTypes, TelegramTypes
<1>10. PollerTypes'
  <2>1. sent[t][lo] \in Issues
    <3>1. sent[t] \in Seq(Issues) /\ lo \in 1..Len(sent[t])
      BY <1>4, <1>5 DEF IInv, TelegramTypes
    <3> QED BY <3>1
  <2>2. times' \in [Tokens -> [Updates -> Nat]]
    BY <1>5, <1>6, <1>7 DEF IInv, PollerTypes
  <2> QED BY <1>6, <2>1, <2>2 DEF IInv, PollerTypes
<1>11. ASSUME NEW b \in Tokens, b # t PROVE Covered(b)' /\ OncePerLife(b)'
  <2>1. Covered(b) /\ OncePerLife(b)
    BY DEF IInv
  <2>2. UNCHANGED <<sent, confirmed, crashes>>
    BY <1>1
  <2>3. offset'[b] = offset[b] /\ batch'[b] = batch[b] /\ times'[b] = times[b]
    BY <1>8, <1>11
  <2>4. ASSUME NEW l \in Nat, NEW h \in Nat, Span(b, l, h) PROVE Span(b, l, h)'
    BY <2>2, <2>3, <2>4 DEF Span
  <2>5. OncePerLife(b)'
    BY <2>1, <2>2, <2>3 DEF OncePerLife
  <2> QED BY <2>1, <2>2, <2>3, <2>4, <2>5 DEF Covered
<1>12. \A u \in Updates : u \in Nat /\ (u < lo + 1 => times'[t][u] > 0)
  <2>1. \A u \in Updates : u < lo => times[t][u] > 0
    BY <1>2 DEF Span
  <2>2. \A u \in Updates : u \in Nat /\ (u < lo + 1 => u < lo \/ u = lo)
    BY DEF Updates
  <2>3. times[t][lo] \in Nat
    BY <1>3, <1>5
  <2>4. times'[t][lo] > 0
    BY <1>7, <2>3
  <2> QED BY <1>7, <2>1, <2>2, <2>4
<1>13. OncePerLife(t)'
  <2>1. \A u \in Updates : u \in Nat /\ times[t][u] \in Nat
    BY <1>3 DEF Updates
  <2>2. \A u \in Updates : times[t][u] <= crashes + (IF u < offset[t] THEN 1 ELSE 0)
    BY DEF IInv, OncePerLife
  <2>3. \A u \in Updates : times'[t][u] <= crashes + (IF u < lo + 1 THEN 1 ELSE 0)
    BY <1>3, <1>5, <1>7, <2>1, <2>2
  <2> QED BY <1>1, <1>7, <2>3 DEF OncePerLife
<1>14. Covered(t)'
  <2>1. lo + 1 <= Len(sent[t]) + 1
    BY <1>3, <1>4, <1>5
  <2>2. PICK l \in Nat : l = lo + 1
    OBVIOUS
  <2>3. Span(t, l, hi)'
    BY <1>1, <1>3, <1>5, <1>7, <1>12, <2>2 DEF Span
  <2>4. \A u \in Updates : u <= confirmed[t] => times'[t][u] > 0
    <3>1. \A u \in Updates : times[t][u] \in Nat /\ (u <= confirmed[t] => times[t][u] > 0)
      BY <1>3 DEF IInv, Covered
    <3> QED BY <1>7, <3>1
  <2> QED BY <1>1, <1>3, <1>7, <1>12, <2>1, <2>3, <2>4 DEF Covered
<1> QED BY <1>9, <1>10, <1>11, <1>13, <1>14 DEF IInv

LEMMA StepHolds == IInv /\ [Next]_vars => IInv'
<1> SUFFICES ASSUME IInv, [Next]_vars PROVE IInv'
  OBVIOUS
<1>1. CASE \/ \E t \in Tokens, i \in Issues : Press(t, i)
           \/ \E p \in Projects, t \in Tokens \cup {NoToken} : SetToken(p, t)
  BY <1>1, PeopleSteps
<1>2. CASE Manager
  BY <1>2, ManagerSteps
<1>3. CASE Crash
  BY <1>3, DieStep DEF Crash
<1>4. ASSUME NEW t \in Tokens, Poller(t) PROVE IInv'
  BY <1>4, ManagerSteps, DieStep, FetchSteps, ProcessStep DEF Poller, Panic
<1>5. CASE UNCHANGED vars
  <2>1. UNCHANGED <<token, active, found, ppc, offset, batch, sent, confirmed, resolved, times, changes, crashes>>
    BY <1>5 DEF vars, manager, poller, telegram
  <2>2. ManagerTypes'
    BY <2>1 DEF IInv, ManagerTypes
  <2> QED BY <2>1, <2>2, PollersUntouched
<1> QED BY <1>1, <1>2, <1>3, <1>4, <1>5 DEF Next

THEOREM Invariant == Spec => []IInv
BY InitHolds, StepHolds, PTL DEF Spec

(* TypeOK: the variables of the pollers, of their manager and of           *)
(* Telegram keep their types.                                              *)
THEOREM TypeCorrect == Spec => []TypeOK
<1>1. IInv => TypeOK
  BY TypesSplit DEF IInv
<1> QED BY <1>1, Invariant, PTL

(* PressedOnce: once for each life of the process.                         *)
THEOREM PressesOnce == Spec => []PressedOnce
<1>1. IInv => PressedOnce
  <2> SUFFICES ASSUME IInv, NEW t \in Tokens, NEW u \in Updates PROVE times[t][u] <= 1 + crashes
    BY DEF PressedOnce
  <2>1. times[t][u] \in Nat /\ crashes \in Nat
    BY PollersAssumption DEF IInv, ManagerTypes, PollerTypes
  <2>2. times[t][u] <= crashes + (IF u < offset[t] THEN 1 ELSE 0)
    BY DEF IInv, OncePerLife
  <2> QED BY <2>1, <2>2
<1> QED BY <1>1, Invariant, PTL

(* NothingForgotten: Telegram forgets nothing that was not processed.      *)
THEOREM NoneForgotten == Spec => []NothingForgotten
<1>1. IInv => NothingForgotten
  <2> SUFFICES ASSUME IInv, NEW t \in Tokens, NEW u \in 1..confirmed[t] PROVE times[t][u] > 0
    BY DEF NothingForgotten
  <2>1. confirmed[t] \in Nat /\ confirmed[t] <= Len(sent[t]) /\ Len(sent[t]) \in Nat /\ Len(sent[t]) <= MaxUpdates
    BY DEF IInv, TelegramTypes, Covered
  <2>2. u \in Updates /\ u <= confirmed[t]
    BY <2>1, PollersAssumption DEF Updates
  <2> QED BY <2>2 DEF IInv, Covered
<1> QED BY <1>1, Invariant, PTL
=============================================================================
