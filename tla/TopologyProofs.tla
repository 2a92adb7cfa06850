--------------------------- MODULE TopologyProofs ---------------------------
(***************************************************************************)
(* Proofs about Topology, for any processes, addresses, names, sizes of    *)
(* the ring buffer and numbers of records.                                 *)
(***************************************************************************)
EXTENDS Topology, FiniteSetTheorems, WellFoundedInduction, TLAPS

RingTypes ==
  /\ world \in [Named -> Names]
  /\ ring \in Seq(Record) /\ Len(ring) <= RingSize
ReaderTypes ==
  /\ rpc \in {"read", "source", "target", "upsert"} /\ record \in Record
  /\ asked \in Nodes \cup {Nothing}
  /\ node \in [{"source", "target"} -> Nodes \cup {Nothing}]
  /\ hits \in [Nodes \X Nodes -> Nat]
  /\ rpc = "upsert" => Nothing \notin {node["source"], node["target"]}
CacheTypes ==
  /\ cache \in [Keys -> Nodes \cup {Nothing}]
  /\ age \in [Keys -> Nat]
  /\ fpc \in {"sleep", "range"} /\ unvisited \subseteq Keys /\ due \subseteq Keys

LEMMA TypesSplit == TypeOK <=> RingTypes /\ ReaderTypes /\ CacheTypes
  BY DEF TypeOK, RingTypes, ReaderTypes, CacheTypes

(* The reader has the name of the source when it asks for the target, and  *)
(* its record has a key for each end.                                      *)
HasSource == rpc = "target" => node["source"] # Nothing
HasRecord == rpc \in {"source", "target"} => Mapped(record)

(* An entry that has survived a flush was there before the next one began: *)
(* it is due, and the flusher has not come to it yet.  A key without an    *)
(* entry has no age.                                                       *)
AgeInv ==
  \A k \in Keys :
    /\ age[k] <= 1
    /\ age[k] > 0 => cache[k] # Nothing
    /\ age[k] > 0 /\ fpc = "range" => k \in due \cap unvisited

IInv == RingTypes /\ ReaderTypes /\ CacheTypes /\ HasSource /\ HasRecord /\ AgeInv

-----------------------------------------------------------------------------
LEMMA KeysOf ==
  /\ Nothing \notin Nodes /\ Keys \subseteq Nodes /\ Named \subseteq Keys
  /\ Names \subseteq Nodes
  /\ \A new \in Record : new.pid \in Keys /\ new.ip \in Keys
  /\ \A new \in Record : Mapped(new) => new.pid \in Named /\ new.ip \in Named
  BY TopologyAssumption DEF Nodes, Keys, Named, Record, Mapped

LEMMA InitHolds == Init => IInv
<1> SUFFICES ASSUME Init PROVE IInv
  OBVIOUS
<1>1. record \in Record
  <2>1. PICK p \in Pids, i \in Ips : TRUE
    BY TopologyAssumption
  <2>2. [kind |-> "http", pid |-> p, ip |-> i] \in Record
    BY DEF Record
  <2> QED BY <2>2 DEF Init
<1>2. RingTypes
  BY TopologyAssumption DEF Init, RingTypes
<1>3. ReaderTypes
  BY <1>1 DEF Init, ReaderTypes, NoNodes
<1>4. CacheTypes
  BY DEF Init, CacheTypes
<1>5. HasSource /\ HasRecord /\ AgeInv
  BY DEF Init, HasSource, HasRecord, AgeInv
<1> QED BY <1>2, <1>3, <1>4, <1>5 DEF IInv

(* The kernel, and what is called what.                                    *)
LEMMA OutsideSteps ==
  ASSUME IInv, Kernel \/ (\E k \in Named, name \in Names : Rename(k, name))
  PROVE  IInv'
<1>1. UNCHANGED <<rpc, record, asked, node, cache, age, fpc, unvisited, due, hits>>
  BY DEF Kernel, Trace, Rename, reader, flusher
<1>2. RingTypes'
  <2>1. ASSUME NEW new \in Record, Trace(new) PROVE RingTypes'
    <3>1. Len(ring') = Len(ring) + 1 /\ ring' \in Seq(Record) /\ Len(ring) \in Nat
      BY <2>1 DEF Trace, IInv, RingTypes
    <3> QED BY <2>1, <3>1, TopologyAssumption DEF Trace, IInv, RingTypes
  <2>2. ASSUME NEW k \in Named, NEW name \in Names, Rename(k, name) PROVE RingTypes'
    BY <2>2 DEF Rename, IInv, RingTypes
  <2> QED BY <2>1, <2>2 DEF Kernel
<1> QED BY <1>1, <1>2 DEF IInv, ReaderTypes, CacheTypes, HasSource, HasRecord, AgeInv, Mapped

(* Taking a record, and letting one go.                                    *)
LEMMA RecordSteps ==
  ASSUME IInv, Read \/ ReadFails \/ Count \/ CountFails
  PROVE  IInv'
<1>1. UNCHANGED <<world, asked, cache, age, fpc, unvisited, due>>
  BY DEF Read, ReadFails, Count, CountFails, flusher
<1>2. RingTypes'
  <2>1. CASE Read \/ ReadFails
    <3>1. ring \in Seq(Record) /\ ring # <<>> /\ ring' = Tail(ring)
      BY <2>1 DEF Read, ReadFails, IInv, RingTypes
    <3>2. ring' \in Seq(Record) /\ Len(ring') = Len(ring) - 1 /\ Len(ring) \in Nat
      BY <3>1
    <3> QED BY <1>1, <3>2, TopologyAssumption DEF IInv, RingTypes
  <2>2. CASE Count \/ CountFails
    BY <1>1, <2>2 DEF Count, CountFails, IInv, RingTypes
  <2> QED BY <2>1, <2>2
<1>3. ReaderTypes' /\ HasSource' /\ HasRecord'
  <2>1. CASE Read
    <3>1. Head(ring) \in Record
      BY <2>1 DEF Read, IInv, RingTypes
    <3> QED BY <2>1, <3>1 DEF Read, IInv, ReaderTypes, HasSource, HasRecord, Mapped
  <2>2. CASE ReadFails
    BY <2>2 DEF ReadFails, AfterError, IInv, ReaderTypes, HasSource, HasRecord, Mapped
  <2>3. CASE Count
    <3>1. <<node["source"], node["target"]>> \in Nodes \X Nodes
      BY <2>3 DEF Count, IInv, ReaderTypes
    <3> QED BY <2>3, <3>1 DEF Count, Hit, NoNodes, IInv, ReaderTypes, HasSource, HasRecord
  <2>4. CASE CountFails
    BY <2>4 DEF CountFails, NoNodes, IInv, ReaderTypes, HasSource, HasRecord
  <2> QED BY <2>1, <2>2, <2>3, <2>4
<1>4. CacheTypes' /\ AgeInv'
  BY <1>1 DEF IInv, CacheTypes, AgeInv
<1> QED BY <1>2, <1>3, <1>4 DEF IInv

(* Resolving one end: what is stored is new, and has no age.               *)
LEMMA ResolveSteps ==
  ASSUME IInv, NEW end \in {"source", "target"}, Resolve(end)
  PROVE  IInv'
<1> DEFINE k == KeyAt(end)
<1>1. /\ rpc = end /\ Mapped(record) /\ record \in Record
      /\ UNCHANGED <<world, ring, record, fpc, unvisited, due, hits>>
  BY DEF Resolve, Load, Query, Store, flusher, IInv, ReaderTypes, HasRecord
<1>2. k \in Keys /\ k \in Named /\ k \in Nodes
  BY <1>1, KeysOf DEF KeyAt
<1>3. RingTypes' /\ HasRecord'
  <2>1. HasRecord'
    BY <1>1 DEF HasRecord, Mapped
  <2> QED BY <1>1, <2>1 DEF IInv, RingTypes
<1> HIDE DEF k
<1>4. ASSUME NEW name \in Nodes, Take(end, name) PROVE
         /\ rpc' \in {"target", "upsert"}
         /\ node' \in [{"source", "target"} -> Nodes \cup {Nothing}]
         /\ rpc' = "upsert" => Nothing \notin {node'["source"], node'["target"]}
         /\ HasSource'
  BY <1>1, <1>4, KeysOf DEF Take, After, IInv, ReaderTypes, HasSource
<1>5. CASE Load(end)
  <2>1. Take(end, cache[k]) /\ cache[k] \in Nodes /\ UNCHANGED <<asked, cache, age>>
    BY <1>2, <1>5 DEF Load, IInv, CacheTypes, k
  <2> QED BY <1>1, <1>3, <1>4, <2>1 DEF IInv, ReaderTypes, CacheTypes, AgeInv
<1>6. CASE Query(end)
  <2>1. world[k] \in Nodes
    BY <1>2, KeysOf DEF IInv, RingTypes
  <2>2. asked' \in Nodes /\ UNCHANGED <<rpc, node, cache, age>>
    BY <1>2, <1>6, <2>1 DEF Query, Fallback, k
  <2> QED BY <1>1, <1>3, <2>2 DEF IInv, ReaderTypes, CacheTypes, AgeInv, HasSource
<1>7. CASE Store(end)
  <2>1. /\ cache' = [cache EXCEPT ![k] = asked] /\ age' = [age EXCEPT ![k] = 0]
        /\ Take(end, asked) /\ asked \in Nodes /\ asked' = Nothing
    BY <1>7 DEF Store, IInv, ReaderTypes, k
  <2>2. CacheTypes'
    BY <1>1, <1>2, <2>1 DEF IInv, CacheTypes
  <2>3. AgeInv'
    BY <1>1, <1>2, <2>1 DEF IInv, CacheTypes, AgeInv
  <2> QED BY <1>1, <1>3, <1>4, <2>1, <2>2, <2>3 DEF IInv, ReaderTypes
<1> QED BY <1>5, <1>6, <1>7 DEF Resolve

(* A flush begins with every entry due, and ends with none of those left.  *)
LEMMA FlusherSteps ==
  ASSUME IInv, Flusher
  PROVE  IInv'
<1>1. UNCHANGED <<world, ring, rpc, record, asked, node, hits>>
  BY DEF Flusher, Wake, Flush, Sleep, reader
<1>2. RingTypes' /\ ReaderTypes' /\ HasSource' /\ HasRecord'
  BY <1>1 DEF IInv, RingTypes, ReaderTypes, HasSource, HasRecord, Mapped
<1>3. CASE Wake
  BY <1>2, <1>3 DEF Wake, IInv, CacheTypes, AgeInv
<1>4. ASSUME NEW k \in Keys, Flush(k) PROVE IInv'
  <2>1. /\ cache' = [cache EXCEPT ![k] = Nothing] /\ age' = [age EXCEPT ![k] = 0]
        /\ unvisited' = unvisited \ {k} /\ UNCHANGED <<fpc, due>>
    BY <1>4 DEF Flush
  <2>2. CacheTypes'
    BY <2>1 DEF IInv, CacheTypes
  <2>3. AgeInv'
    BY <2>1 DEF IInv, CacheTypes, AgeInv
  <2> QED BY <1>2, <2>2, <2>3 DEF IInv
<1>5. CASE Sleep
  <2>1. /\ fpc = "range" /\ due \cap unvisited = {} /\ fpc' = "sleep"
        /\ cache' = cache /\ unvisited' = {} /\ due' = {}
        /\ age' = [k \in Keys |-> IF cache[k] = Nothing THEN 0 ELSE age[k] + 1]
    BY <1>5 DEF Sleep, RangeEnds, AfterFlush
  <2>2. \A k \in Keys : age[k] = 0
    BY <2>1 DEF IInv, CacheTypes, AgeInv
  <2>3. CacheTypes' /\ AgeInv'
    BY <2>1, <2>2 DEF IInv, CacheTypes, AgeInv
  <2> QED BY <1>2, <2>3 DEF IInv
<1> QED BY <1>3, <1>4, <1>5 DEF Flusher

LEMMA StepHolds == IInv /\ [Next]_vars => IInv'
<1> SUFFICES ASSUME IInv, [Next]_vars PROVE IInv'
  OBVIOUS
<1>1. CASE Kernel \/ (\E k \in Named, name \in Names : Rename(k, name))
  BY <1>1, OutsideSteps
<1>2. CASE Reader
  BY <1>2, RecordSteps, ResolveSteps DEF Reader
<1>3. CASE Flusher
  BY <1>3, FlusherSteps
<1>4. CASE UNCHANGED vars
  BY <1>4 DEF vars, reader, flusher, IInv, RingTypes, ReaderTypes, CacheTypes, HasSource, HasRecord, AgeInv, Mapped
<1> QED BY <1>1, <1>2, <1>3, <1>4 DEF Next

THEOREM Invariant == Spec => []IInv
BY InitHolds, StepHolds, PTL DEF Spec

(* TypeOK: the buffer, the reader, the cache and the edges keep their      *)
(* types, and an edge is counted only between two names.                   *)
THEOREM TypeCorrect == Spec => []TypeOK
<1>1. IInv => TypeOK
  BY TypesSplit DEF IInv
<1> QED BY <1>1, Invariant, PTL

(* OneFlushAtMost: container.go:212, no entry survives two flushes.        *)
THEOREM NoneSurvivesTwice == Spec => []OneFlushAtMost
<1>1. IInv => OneFlushAtMost
  BY DEF IInv, AgeInv, OneFlushAtMost
<1> QED BY <1>1, Invariant, PTL

-----------------------------------------------------------------------------
(* Sums over finite sets                                                   *)

(* Induction, with a set of numbers in place of a predicate: the smallest  *)
(* number outside of the set has a predecessor in it.                      *)
LEMMA NatSets ==
  ASSUME NEW S, 0 \in S, \A n \in Nat : n \in S => n + 1 \in S
  PROVE  \A n \in Nat : n \in S
<1> DEFINE R == OpToRel(<, Nat)
           T == Nat \ S
<1>1. SUFFICES ASSUME T # {} PROVE FALSE
  OBVIOUS
<1>2. IsWellFoundedOn(R, Nat)
  BY NatLessThanWellFounded
<1>3. \A x, y \in Nat : x < y => <<x, y>> \in R
  BY DEF OpToRel
<1>4. T \subseteq Nat
  OBVIOUS
<1> HIDE DEF R
<1>5. PICK x \in T : \A y \in T : ~(<<y, x>> \in R)
  <2> HIDE DEF T
  <2> QED BY <1>1, <1>2, <1>4, WFMin
<1>6. x \in Nat /\ x # 0
  OBVIOUS
<1>7. x - 1 \in Nat /\ x - 1 < x /\ x = (x - 1) + 1
  BY <1>6
<1>8. x - 1 \in S
  BY <1>3, <1>5, <1>6, <1>7
<1> QED BY <1>7, <1>8

(* The sum of a function over a finite set, as MapThenSumSet forms it: one *)
(* element after the other, in an order that depends on the set alone.     *)
Pick(s) == CHOOSE x \in s : TRUE
SumAt(g, h, s) == IF s = {} THEN 0 ELSE h[Pick(s)] + g[s \ {Pick(s)}]
Sums(g, h, S) == g = [s \in SUBSET S |-> SumAt(g, h, s)]
Sum(h, S) == MapThenSumSet(LAMBDA x : h[x], S)

LEMMA PickSmaller ==
  ASSUME NEW S, IsFiniteSet(S), NEW s \in SUBSET S, s # {}
  PROVE  /\ Pick(s) \in s /\ Pick(s) \in S /\ s \ {Pick(s)} \in SUBSET S
         /\ Cardinality(s) \in Nat /\ Cardinality(s \ {Pick(s)}) \in Nat
         /\ Cardinality(s) = Cardinality(s \ {Pick(s)}) + 1
<1>1. Pick(s) \in s
  BY DEF Pick
<1>2. IsFiniteSet(s) /\ IsFiniteSet(s \ {Pick(s)})
  BY FS_Subset
<1>3. Cardinality(s) \in Nat /\ Cardinality(s \ {Pick(s)}) \in Nat
  BY <1>2, FS_CardinalityType
<1>4. Cardinality(s \ {Pick(s)}) = Cardinality(s) - 1
  BY <1>1, <1>2, FS_RemoveElement
<1> QED BY <1>1, <1>3, <1>4

LEMMA SumsExist ==
  ASSUME NEW S, IsFiniteSet(S), NEW h \in [S -> Nat]
  PROVE  \E g \in [SUBSET S -> Nat] : Sums(g, h, S)
<1> DEFINE Upto(g, n) == \A s \in SUBSET S : Cardinality(s) <= n => g[s] = SumAt(g, h, s)
           N == {n \in Nat : \E g \in [SUBSET S -> Nat] : Upto(g, n)}
<1>1. \A s \in SUBSET S : IsFiniteSet(s) /\ Cardinality(s) \in Nat
  BY FS_Subset, FS_CardinalityType
<1>2. 0 \in N
  <2> DEFINE g == [s \in SUBSET S |-> 0]
  <2>1. \A s \in SUBSET S : Cardinality(s) <= 0 => s = {}
    BY <1>1, FS_EmptySet
  <2>2. g \in [SUBSET S -> Nat] /\ Upto(g, 0)
    BY <2>1 DEF SumAt
  <2> HIDE DEF g, Upto
  <2> QED BY <2>2
<1>3. ASSUME NEW n \in Nat, n \in N PROVE n + 1 \in N
  <2>1. PICK g \in [SUBSET S -> Nat] : Upto(g, n)
    BY <1>3
  <2> DEFINE f == [s \in SUBSET S |-> SumAt(g, h, s)]
  <2>2. f \in [SUBSET S -> Nat]
    <3> SUFFICES ASSUME NEW s \in SUBSET S PROVE SumAt(g, h, s) \in Nat
      OBVIOUS
    <3>1. CASE s = {}
      BY <3>1 DEF SumAt
    <3>2. CASE s # {}
      <4>1. h[Pick(s)] \in Nat /\ g[s \ {Pick(s)}] \in Nat
        BY <3>2, PickSmaller
      <4> QED BY <3>2, <4>1 DEF SumAt
    <3> QED BY <3>1, <3>2
  <2>3. ASSUME NEW s \in SUBSET S, Cardinality(s) <= n + 1 PROVE f[s] = SumAt(f, h, s)
    <3>1. CASE s = {}
      BY <3>1 DEF SumAt
    <3>2. CASE s # {}
      <4>1. s \ {Pick(s)} \in SUBSET S /\ Cardinality(s \ {Pick(s)}) <= n
        BY <2>3, <3>2, PickSmaller
      <4>2. f[s \ {Pick(s)}] = g[s \ {Pick(s)}]
        BY <2>1, <4>1
      <4>3. f[s] = SumAt(g, h, s)
        OBVIOUS
      <4> HIDE DEF f
      <4> QED BY <3>2, <4>2, <4>3 DEF SumAt
    <3> QED BY <3>1, <3>2
  <2> HIDE DEF f
  <2>4. Upto(f, n + 1)
    BY <2>3
  <2> HIDE DEF Upto
  <2> QED BY <2>2, <2>4
<1>4. Cardinality(S) \in N
  <2> HIDE DEF N
  <2> QED BY <1>1, <1>2, <1>3, NatSets
<1>5. PICK g \in [SUBSET S -> Nat] : Upto(g, Cardinality(S))
  BY <1>4
<1>6. \A s \in SUBSET S : g[s] = SumAt(g, h, s)
  BY <1>5, FS_Subset
<1> QED BY <1>6 DEF Sums

LEMMA SumIs ==
  ASSUME NEW S, IsFiniteSet(S), NEW h \in [S -> Nat]
  PROVE  \E g : Sums(g, h, S) /\ Sum(h, S) = g[S]
<1> DEFINE g == CHOOSE f : Sums(f, h, S)
<1>1. Sums(g, h, S)
  BY SumsExist
<1>2. Sum(h, S) = g[S]
  BY DEF Sum, MapThenSumSet, MapThenFoldSet, Sums, SumAt, Pick
<1> QED BY <1>1, <1>2

(* A function that is larger by one at one element, and the same elsewhere, *)
(* has a sum that is larger by one.                                        *)
OneMore(h, k, e, S) == \A x \in S : k[x] = IF x = e THEN h[x] + 1 ELSE h[x]
Grows(f, g, e, S) ==
  \A s \in SUBSET S : f[s] \in Nat /\ g[s] = IF e \in s THEN f[s] + 1 ELSE f[s]

LEMMA SumsCompare ==
  ASSUME NEW S, IsFiniteSet(S), NEW e,
         NEW h \in [S -> Nat], NEW k \in [S -> Nat], OneMore(h, k, e, S),
         NEW f, NEW g, Sums(f, h, S), Sums(g, k, S)
  PROVE  Grows(f, g, e, S)
<1> DEFINE Right(s) == f[s] \in Nat /\ g[s] = IF e \in s THEN f[s] + 1 ELSE f[s]
           N == {n \in Nat : \A s \in SUBSET S : Cardinality(s) = n => Right(s)}
<1>1. \A s \in SUBSET S : IsFiniteSet(s) /\ Cardinality(s) \in Nat
  BY FS_Subset, FS_CardinalityType
<1>2. \A s \in SUBSET S : f[s] = SumAt(f, h, s) /\ g[s] = SumAt(g, k, s)
  BY DEF Sums
<1>3. 0 \in N
  <2> SUFFICES ASSUME NEW s \in SUBSET S, Cardinality(s) = 0 PROVE Right(s)
    OBVIOUS
  <2>1. s = {}
    BY <1>1, FS_EmptySet
  <2>2. f[s] = 0 /\ g[s] = 0
    BY <1>2, <2>1 DEF SumAt
  <2> QED BY <2>1, <2>2
<1>4. ASSUME NEW n \in Nat, n \in N PROVE n + 1 \in N
  <2> SUFFICES ASSUME NEW s \in SUBSET S, Cardinality(s) = n + 1 PROVE Right(s)
    OBVIOUS
  <2> DEFINE x == Pick(s)
             t == s \ {x}
  <2>1. s # {}
    BY FS_EmptySet
  <2>2. x \in s /\ x \in S /\ t \in SUBSET S /\ Cardinality(t) = n
    BY <2>1, PickSmaller
  <2>3. Right(t)
    BY <1>4, <2>2
  <2>4. f[s] = h[x] + f[t] /\ g[s] = k[x] + g[t]
    BY <1>2, <2>1 DEF SumAt
  <2>5. h[x] \in Nat /\ k[x] = IF x = e THEN h[x] + 1 ELSE h[x]
    BY <2>2 DEF OneMore
  <2>6. e \in t <=> e \in s /\ e # x
    OBVIOUS
  <2> HIDE DEF x, t
  <2> QED BY <2>2, <2>3, <2>4, <2>5, <2>6
<1>5. ASSUME NEW s \in SUBSET S PROVE Right(s)
  <2>1. \A n \in Nat : n \in N
    <3> HIDE DEF N
    <3> QED BY <1>3, <1>4, NatSets
  <2> QED BY <1>1, <2>1
<1> QED BY <1>5 DEF Grows

LEMMA SumAfter ==
  ASSUME NEW S, IsFiniteSet(S), NEW h \in [S -> Nat], NEW e \in S
  PROVE  /\ Sum(h, S) \in Nat
         /\ Sum([h EXCEPT ![e] = @ + 1], S) = Sum(h, S) + 1
<1> DEFINE k == [h EXCEPT ![e] = @ + 1]
<1>1. k \in [S -> Nat] /\ OneMore(h, k, e, S)
  BY DEF OneMore
<1> HIDE DEF k
<1>2. PICK f : Sums(f, h, S) /\ Sum(h, S) = f[S]
  BY SumIs
<1>3. PICK g : Sums(g, k, S) /\ Sum(k, S) = g[S]
  BY <1>1, SumIs
<1>4. Grows(f, g, e, S)
  BY <1>1, <1>2, <1>3, SumsCompare
<1> QED BY <1>2, <1>3, <1>4 DEF Grows, k

LEMMA SumOfNothing ==
  ASSUME NEW S, IsFiniteSet(S)
  PROVE  Sum([x \in S |-> 0], S) = 0
<1> DEFINE h == [x \in S |-> 0]
<1>1. h \in [S -> Nat] /\ \A x \in S : h[x] = 0
  OBVIOUS
<1>2. \A s \in SUBSET S : IsFiniteSet(s) /\ Cardinality(s) \in Nat
  BY FS_Subset, FS_CardinalityType
<1> HIDE DEF h
<1>3. PICK g : Sums(g, h, S) /\ Sum(h, S) = g[S]
  BY <1>1, SumIs
<1>4. \A s \in SUBSET S : g[s] = SumAt(g, h, s)
  BY <1>3 DEF Sums
<1> DEFINE N == {n \in Nat : \A s \in SUBSET S : Cardinality(s) = n => g[s] = 0}
<1>5. 0 \in N
  <2>1. \A s \in SUBSET S : Cardinality(s) = 0 => s = {}
    BY <1>2, FS_EmptySet
  <2> QED BY <1>4, <2>1 DEF SumAt
<1>6. ASSUME NEW n \in Nat, n \in N PROVE n + 1 \in N
  <2> SUFFICES ASSUME NEW s \in SUBSET S, Cardinality(s) = n + 1 PROVE g[s] = 0
    OBVIOUS
  <2>1. s # {}
    BY FS_EmptySet
  <2>2. Pick(s) \in S /\ s \ {Pick(s)} \in SUBSET S /\ Cardinality(s \ {Pick(s)}) = n
    BY <2>1, PickSmaller
  <2>3. g[s \ {Pick(s)}] = 0
    BY <1>6, <2>2
  <2>4. g[s] = h[Pick(s)] + g[s \ {Pick(s)}]
    BY <1>4, <2>1 DEF SumAt
  <2> QED BY <1>1, <2>2, <2>3, <2>4
<1>7. g[S] = 0
  <2>1. \A n \in Nat : n \in N
    <3> HIDE DEF N
    <3> QED BY <1>5, <1>6, NatSets
  <2> QED BY <1>2, <2>1
<1> QED BY <1>3, <1>7 DEF h

-----------------------------------------------------------------------------
(* Every record is accounted for                                           *)

Edges == Nodes \X Nodes

LEMMA EdgesFinite == IsFiniteSet(Edges)
<1>1. IsFiniteSet(Keys)
  BY TopologyAssumption, FS_Union DEF Keys
<1>2. IsFiniteSet(Nodes)
  BY <1>1, TopologyAssumption, FS_Union DEF Nodes
<1> QED BY <1>2, FS_Product DEF Edges

CountInv == produced \in Nat /\ settled \in Nat /\ Accounted

LEMMA HitsAre ==
  ASSUME NEW h \in [Edges -> Nat]
  PROVE  MapThenSumSet(LAMBDA edge : h[edge], DOMAIN h) = Sum(h, Edges)
  BY DEF Sum

LEMMA HitsBefore == IInv => hits \in [Edges -> Nat] /\ Hits = Sum(hits, Edges) /\ Hits \in Nat
<1> SUFFICES ASSUME IInv PROVE hits \in [Edges -> Nat] /\ Hits = Sum(hits, Edges) /\ Hits \in Nat
  OBVIOUS
<1>1. hits \in [Edges -> Nat]
  BY DEF IInv, ReaderTypes, Edges
<1>2. Hits = Sum(hits, Edges)
  BY <1>1, HitsAre DEF Hits
<1>3. PICK p \in Nodes : TRUE
  BY TopologyAssumption DEF Nodes, Keys
<1> <<p, p>> \in Edges
  BY DEF Edges
<1>4. Sum(hits, Edges) \in Nat
  BY <1>1, EdgesFinite, SumAfter
<1> QED BY <1>1, <1>2, <1>4

LEMMA CountAtInit == Init => CountInv
<1> SUFFICES ASSUME Init PROVE CountInv
  OBVIOUS
<1>1. hits = [edge \in Edges |-> 0]
  BY DEF Init, Edges
<1>2. hits \in [Edges -> Nat]
  BY <1>1
<1>3. Hits = Sum(hits, Edges)
  BY <1>2, HitsAre DEF Hits
<1>4. Hits = 0
  BY <1>1, <1>3, EdgesFinite, SumOfNothing
<1> QED BY <1>4 DEF Init, CountInv, Accounted

(* One more of one edge is one more of all.                                *)
LEMMA CountAdds ==
  ASSUME IInv, IInv', Count
  PROVE  Hits' = Hits + 1
<1> DEFINE e == <<node["source"], node["target"]>>
<1>1. e \in Edges
  BY KeysOf DEF Count, IInv, ReaderTypes, Edges
<1>2. hits' = [hits EXCEPT ![e] = @ + 1]
  BY DEF Count, Hit
<1>3. hits \in [Edges -> Nat] /\ Hits = Sum(hits, Edges)
  BY HitsBefore
<1> HIDE DEF e
<1>4. Sum([hits EXCEPT ![e] = @ + 1], Edges) = Sum(hits, Edges) + 1
  BY <1>1, <1>3, EdgesFinite, SumAfter
<1>5. hits' \in [Edges -> Nat]
  BY DEF IInv, ReaderTypes, Edges
<1>6. Hits' = Sum(hits', Edges)
  BY <1>5 DEF Hits, Sum, MapThenSumSet, MapThenFoldSet
<1> QED BY <1>2, <1>3, <1>4, <1>6

(* Each step moves at most one record on.                                  *)
LEMMA NextCounts == IInv /\ CountInv /\ IInv' /\ [Next]_vars => CountInv'
<1> SUFFICES ASSUME IInv, CountInv, IInv', [Next]_vars PROVE CountInv'
  OBVIOUS
<1>1. Hits \in Nat /\ Len(ring) \in Nat /\ ring \in Seq(Record) /\ rpc \in {"read", "source", "target", "upsert"}
  BY HitsBefore DEF IInv, RingTypes, ReaderTypes
<1>2. hits' = hits => Hits' = Hits
  BY DEF Hits, MapThenSumSet, MapThenFoldSet
<1> DEFINE InHand == IF rpc = "read" THEN 0 ELSE 1
<1>3. produced \in Nat /\ settled \in Nat /\ produced = Len(ring) + InHand + Hits + settled
  BY DEF CountInv, Accounted
<1>4. SUFFICES /\ produced' \in Nat /\ settled' \in Nat
               /\ produced' = Len(ring') + InHand' + Hits' + settled'
  BY DEF CountInv, Accounted
<1>5. ASSUME NEW new \in Record, Trace(new)
      PROVE  Len(ring') = Len(ring) + 1 /\ produced' = produced + 1
             /\ rpc' = rpc /\ hits' = hits /\ settled' = settled
  BY <1>1, <1>5 DEF Trace, reader
<1>6. CASE Kernel
  BY <1>1, <1>2, <1>3, <1>5, <1>6 DEF Kernel
<1>7. CASE Read \/ ReadFails
  <2>1. Len(ring') = Len(ring) - 1 /\ produced' = produced /\ hits' = hits /\ rpc = "read"
    BY <1>1, <1>7 DEF Read, ReadFails
  <2>2. \/ rpc' = "source" /\ settled' = settled
        \/ rpc' = "read" /\ settled' = settled + 1
    BY <1>7, <2>1 DEF Read, ReadFails, AfterError
  <2> QED BY <1>1, <1>2, <1>3, <2>1, <2>2
<1>8. CASE Count
  <2>1. Hits' = Hits + 1
    BY <1>8, CountAdds
  <2> QED BY <1>1, <1>3, <1>8, <2>1 DEF Count
<1>9. CASE CountFails
  BY <1>1, <1>2, <1>3, <1>9 DEF CountFails
<1>10. ASSUME NEW end \in {"source", "target"}, Resolve(end)
       PROVE  /\ rpc # "read" /\ rpc' # "read"
              /\ UNCHANGED <<ring, hits, produced, settled>>
  BY <1>10 DEF Resolve, Load, Query, Store, Take, After
<1>11. CASE \E end \in {"source", "target"} : Resolve(end)
  BY <1>1, <1>2, <1>3, <1>10, <1>11
<1>12. CASE (\E k \in Named, name \in Names : Rename(k, name)) \/ Flusher \/ UNCHANGED vars
  <2>1. UNCHANGED <<ring, rpc, hits, produced, settled>>
    BY <1>12 DEF Rename, Flusher, Wake, Flush, Sleep, vars, reader
  <2> QED BY <1>2, <1>3, <2>1
<1> QED BY <1>6, <1>7, <1>8, <1>9, <1>11, <1>12 DEF Next, Reader

(* main.go:2906-2911.  No connection is counted twice or lost on its way   *)
(* from the kernel to its edge, for any ring buffer, any cache and any     *)
(* interleaving of the reader with the flusher and the kernel.             *)
THEOREM RecordsAccounted == Spec => []Accounted
<1>1. CountInv => Accounted
  BY DEF CountInv
<1> QED BY <1>1, Invariant, InitHolds, StepHolds, CountAtInit, NextCounts, PTL DEF Spec
=============================================================================
