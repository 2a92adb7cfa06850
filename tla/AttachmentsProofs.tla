-------------------------- MODULE AttachmentsProofs --------------------------
(***************************************************************************)
(* Proofs about Attachments, for any number of requests, envelopes, issues *)
(* and ids: first about the parsers, for every envelope, then the types,   *)
(* and last what the requests, the cleaner and crashes do to each other.   *)
(***************************************************************************)
EXTENDS Attachments, MCDrafts, FiniteSetTheorems, SequenceTheorems, WellFoundedInduction, TLAPS

-----------------------------------------------------------------------------
(* Induction, with a set in place of a predicate: a set without one number *)
(* would lack a smallest one.                                              *)
LEMMA NatSets ==
  ASSUME NEW S, 0 \in S, \A n \in Nat : n \in S => n + 1 \in S
  PROVE  \A n \in Nat : n \in S
<1> DEFINE R == OpToRel(<, Nat)
           T == Nat \ S
<1>1. SUFFICES ASSUME T # {} PROVE FALSE
  OBVIOUS
<1>2. IsWellFoundedOn(R, Nat)
  BY NatLessThanWellFounded
<1>3. \A x, y \in Nat : x < y => <<x, y>> \in R
  BY DEF OpToRel
<1>4. T \subseteq Nat
  OBVIOUS
<1> HIDE DEF R
<1>5. PICK x \in T : \A y \in T : ~(<<y, x>> \in R)
  <2> HIDE DEF T
  <2> QED BY <1>1, <1>2, <1>4, WFMin
<1>6. x \in Nat /\ x # 0
  OBVIOUS
<1>7. x - 1 \in Nat /\ x - 1 < x /\ x = (x - 1) + 1
  BY <1>6
<1>8. x - 1 \in S
  BY <1>3, <1>5, <1>6, <1>7
<1> QED BY <1>7, <1>8

(* A loop of n steps over the values X: f[i] is what it has after step i.  *)
Loop(f, n, X, base, step) ==
  f \in [0..n -> X] /\ f[0] = base /\ \A i \in 1..n : f[i] = step[i][f[i - 1]]
LoopExists(n, X, base, step) == \E f : Loop(f, n, X, base, step)

LEMMA LoopsExist ==
  ASSUME NEW n \in Nat, NEW X, NEW base \in X, NEW step \in [Nat -> [X -> X]]
  PROVE  LoopExists(n, X, base, step)
<1> DEFINE S == {m \in Nat : LoopExists(m, X, base, step)}
<1>1. 0 \in S
  <2> DEFINE f == [i \in 0..0 |-> base]
  <2>1. f \in [0..0 -> X] /\ f[0] = base /\ 1..0 = {}
    OBVIOUS
  <2> HIDE DEF f
  <2> QED BY <2>1 DEF LoopExists, Loop
<1>2. ASSUME NEW m \in Nat, m \in S PROVE m + 1 \in S
  <2>1. PICK f : Loop(f, m, X, base, step)
    BY <1>2 DEF LoopExists
  <2> DEFINE g == [i \in 0..(m + 1) |-> IF i = m + 1 THEN step[m + 1][f[m]] ELSE f[i]]
  <2>2. g \in [0..(m + 1) -> X] /\ g[0] = base
    BY <2>1 DEF Loop
  <2>3. ASSUME NEW i \in 1..(m + 1) PROVE g[i] = step[i][g[i - 1]]
    <3>1. g[i - 1] = f[i - 1] /\ i \in Nat
      OBVIOUS
    <3>2. CASE i = m + 1
      BY <3>1, <3>2
    <3>3. CASE i # m + 1
      <4>1. i \in 1..m /\ g[i] = f[i]
        BY <3>3
      <4> QED BY <2>1, <3>1, <4>1 DEF Loop
    <3> QED BY <3>2, <3>3
  <2> HIDE DEF g
  <2>4. Loop(g, m + 1, X, base, step)
    BY <2>2, <2>3 DEF Loop
  <2> QED BY <2>4 DEF LoopExists
<1>3. n \in S
  <2> HIDE DEF S
  <2> QED BY <1>1, <1>2, NatSets
<1> QED BY <1>3

(* Two functions that begin alike and go on alike are the same up to n.    *)
GoAlike(f, g, n) == \A i \in 1..n : f[i - 1] = g[i - 1] => f[i] = g[i]
SameUpTo(f, g, n) == \A i \in 0..n : f[i] = g[i]

LEMMA Determined ==
  ASSUME NEW n \in Nat, NEW f, NEW g, f[0] = g[0], GoAlike(f, g, n)
  PROVE  SameUpTo(f, g, n)
<1> DEFINE S == {i \in Nat : i \in 0..n => f[i] = g[i]}
<1>1. 0 \in S
  OBVIOUS
<1>2. ASSUME NEW i \in Nat, i \in S PROVE i + 1 \in S
  <2> SUFFICES ASSUME i + 1 \in 0..n PROVE f[i + 1] = g[i + 1]
    OBVIOUS
  <2>1. i \in 0..n /\ i + 1 \in 1..n /\ (i + 1) - 1 = i
    OBVIOUS
  <2>2. f[i] = g[i]
    BY <1>2, <2>1
  <2> QED BY <2>1, <2>2 DEF GoAlike
<1>3. \A i \in Nat : i \in S
  <2> HIDE DEF S
  <2> QED BY <1>1, <1>2, NatSets
<1> QED BY <1>3 DEF SameUpTo

(* Joining sequences is a loop.                                            *)
LEMMA FlattenIs ==
  ASSUME NEW X, NEW seqs \in Seq(Seq(X)), seqs # <<>>
  PROVE  \E f \in [0..Len(seqs) -> Seq(X)] :
           /\ f[0] = <<>> /\ \A i \in 1..Len(seqs) : f[i] = f[i - 1] \o seqs[i]
           /\ FlattenSeq(seqs) = f[Len(seqs)]
<1> DEFINE n == Len(seqs)
           Joins(g) == g = [i \in 1..n |-> IF i = 1 THEN seqs[i] ELSE g[i - 1] \o seqs[i]]
           step == [i \in Nat |-> [s \in Seq(X) |-> IF i \in 1..n THEN s \o seqs[i] ELSE s]]
<1>1. n \in Nat /\ n # 0 /\ \A i \in 1..n : seqs[i] \in Seq(X)
  OBVIOUS
<1>2. step \in [Nat -> [Seq(X) -> Seq(X)]]
  BY <1>1
<1>3. \A i \in 1..n : \A s \in Seq(X) : step[i][s] = s \o seqs[i]
  <2> HIDE DEF n
  <2>1. \A i \in 1..n : i \in Nat
    BY <1>1
  <2> QED BY <2>1
<1> HIDE DEF step, n
<1>4. PICK f \in [0..n -> Seq(X)] : f[0] = <<>> /\ \A i \in 1..n : f[i] = step[i][f[i - 1]]
  <2>1. <<>> \in Seq(X)
    OBVIOUS
  <2>2. LoopExists(n, Seq(X), <<>>, step)
    BY <1>1, <1>2, <2>1, LoopsExist
  <2> QED BY <2>2 DEF LoopExists, Loop
<1>5. \A i \in 1..n : f[i] = f[i - 1] \o seqs[i]
  <2> SUFFICES ASSUME NEW i \in 1..n PROVE f[i] = f[i - 1] \o seqs[i]
    OBVIOUS
  <2>1. i - 1 \in 0..n
    BY <1>1
  <2> QED BY <1>3, <1>4, <2>1
<1>6. f[1] = seqs[1]
  <2>1. 1 \in 1..n /\ 1 - 1 = 0
    BY <1>1
  <2>2. f[1] = <<>> \o seqs[1]
    BY <1>4, <1>5, <2>1
  <2> QED BY <1>1, <2>1, <2>2
<1> DEFINE h == [i \in 1..n |-> f[i]]
<1>7. Joins(h)
  <2>1. ASSUME NEW i \in 1..n PROVE h[i] = IF i = 1 THEN seqs[i] ELSE h[i - 1] \o seqs[i]
    <3>1. CASE i = 1
      BY <1>6, <3>1
    <3>2. CASE i # 1
      <4>1. i - 1 \in 1..n
        BY <1>1, <3>2
      <4> QED BY <1>5, <3>2, <4>1
    <3> QED BY <3>1, <3>2
  <2> QED BY <2>1
<1>8. ASSUME NEW g, Joins(g) PROVE g[n] = f[n]
  <2> DEFINE k == [i \in 0..n |-> IF i = 0 THEN <<>> ELSE g[i]]
  <2>1. k[0] = f[0]
    BY <1>1, <1>4
  <2>2. ASSUME NEW i \in 1..n, k[i - 1] = f[i - 1] PROVE k[i] = f[i]
    <3>1. k[i] = IF i = 1 THEN seqs[i] ELSE g[i - 1] \o seqs[i]
      <4>1. i \in 0..n /\ i # 0
        BY <1>1
      <4>2. k[i] = g[i]
        BY <4>1
      <4> HIDE DEF k
      <4> QED BY <1>8, <4>2
    <3>2. CASE i = 1
      BY <1>6, <3>1, <3>2
    <3>3. CASE i # 1
      <4>1. k[i - 1] = g[i - 1]
        BY <1>1, <3>3
      <4> HIDE DEF k
      <4> QED BY <1>5, <2>2, <3>1, <3>3, <4>1
    <3> QED BY <3>2, <3>3
  <2>3. k[n] = f[n]
    <3> HIDE DEF k
    <3>1. GoAlike(k, f, n)
      BY <2>2 DEF GoAlike
    <3>2. SameUpTo(k, f, n)
      BY <1>1, <2>1, <3>1, Determined
    <3> QED BY <1>1, <3>2 DEF SameUpTo
  <2> QED BY <1>1, <2>3
<1>9. (CHOOSE g : Joins(g))[n] = f[n]
  <2> HIDE DEF Joins, h
  <2>1. Joins(CHOOSE g : Joins(g))
    BY <1>7
  <2> QED BY <1>8, <2>1
<1>10. FlattenSeq(seqs) = (CHOOSE g : Joins(g))[n]
  BY <1>1 DEF FlattenSeq, n
<1> QED BY <1>4, <1>5, <1>9, <1>10 DEF n

-----------------------------------------------------------------------------
(* The loop over the pairs.                                                *)
Saved == [name : Names \cup {NoName}, data : Line]
SavedAt(rest, i) == [name |-> rest[i].name, data |-> rest[i + 1]]

LEMMA LineFields ==
  ASSUME NEW line \in Line
  PROVE  /\ line.json \in BOOLEAN /\ line.type \in Types /\ line.name \in Names \cup {NoName}
         /\ line.message => line.json
BY DEF Line

LEMMA WantedAre ==
  ASSUME NEW rest \in Seq(Line), NEW types, NEW i \in Wanted(rest, types)
  PROVE  i \in Nat /\ i \in 1..Len(rest) /\ i + 1 \in 1..Len(rest) /\ SavedAt(rest, i) \in Saved
<1>1. i \in 1..(Len(rest) - 1) /\ Len(rest) \in Nat
  BY DEF Wanted, Pairs
<1>2. i \in 1..Len(rest) /\ i + 1 \in 1..Len(rest)
  BY <1>1
<1>3. rest[i] \in Line /\ rest[i + 1] \in Line
  BY <1>2
<1> QED BY <1>2, <1>3, LineFields DEF SavedAt, Saved

LEMMA TakenIs ==
  ASSUME NEW rest \in Seq(Line), NEW types
  PROVE  \E f \in [0..Len(rest) -> Seq(Saved)] :
           /\ f[0] = <<>>
           /\ \A i \in 1..Len(rest) :
                f[i] = IF i \in Wanted(rest, types) THEN Append(f[i - 1], SavedAt(rest, i)) ELSE f[i - 1]
           /\ Taken(rest, types) = f[Len(rest)]
<1> DEFINE n == Len(rest)
           W == Wanted(rest, types)
           Takes(g) == g = [i \in 0..n |-> IF i = 0 THEN <<>>
                                           ELSE IF i \in W THEN Append(g[i - 1], SavedAt(rest, i)) ELSE g[i - 1]]
           step == [i \in Nat |-> [s \in Seq(Saved) |-> IF i \in W THEN Append(s, SavedAt(rest, i)) ELSE s]]
<1>1. n \in Nat /\ \A i \in W : SavedAt(rest, i) \in Saved
  BY WantedAre
<1> HIDE DEF n, W
<1>2. step \in [Nat -> [Seq(Saved) -> Seq(Saved)]]
  BY <1>1
<1>3. \A i \in 1..n : \A s \in Seq(Saved) : step[i][s] = IF i \in W THEN Append(s, SavedAt(rest, i)) ELSE s
  <2>1. \A i \in 1..n : i \in Nat
    BY <1>1
  <2> QED BY <2>1
<1> HIDE DEF step
<1>4. PICK f \in [0..n -> Seq(Saved)] : f[0] = <<>> /\ \A i \in 1..n : f[i] = step[i][f[i - 1]]
  <2>1. <<>> \in Seq(Saved)
    OBVIOUS
  <2>2. LoopExists(n, Seq(Saved), <<>>, step)
    BY <1>1, <1>2, <2>1, LoopsExist
  <2> QED BY <2>2 DEF LoopExists, Loop
<1>5. \A i \in 1..n : f[i] = IF i \in W THEN Append(f[i - 1], SavedAt(rest, i)) ELSE f[i - 1]
  <2> SUFFICES ASSUME NEW i \in 1..n
               PROVE f[i] = IF i \in W THEN Append(f[i - 1], SavedAt(rest, i)) ELSE f[i - 1]
    OBVIOUS
  <2>1. i - 1 \in 0..n
    BY <1>1
  <2> QED BY <1>3, <1>4, <2>1
<1>6. Takes(f)
  <2>1. ASSUME NEW i \in 0..n
        PROVE f[i] = IF i = 0 THEN <<>> ELSE IF i \in W THEN Append(f[i - 1], SavedAt(rest, i)) ELSE f[i - 1]
    <3>1. i = 0 \/ i \in 1..n
      BY <1>1
    <3> QED BY <1>4, <1>5, <3>1
  <2> QED BY <2>1
<1>7. ASSUME NEW g, Takes(g) PROVE g[n] = f[n]
  <2>1. g[0] = f[0]
    BY <1>1, <1>4, <1>7
  <2>2. GoAlike(g, f, n)
    <3>1. ASSUME NEW i \in 1..n, g[i - 1] = f[i - 1] PROVE g[i] = f[i]
      <4>1. i \in 0..n /\ i # 0
        BY <1>1
      <4>2. g[i] = IF i \in W THEN Append(g[i - 1], SavedAt(rest, i)) ELSE g[i - 1]
        BY <1>7, <4>1
      <4> QED BY <1>5, <3>1, <4>2
    <3> QED BY <3>1 DEF GoAlike
  <2>3. SameUpTo(g, f, n)
    BY <1>1, <2>1, <2>2, Determined
  <2> QED BY <1>1, <2>3 DEF SameUpTo
<1>8. (CHOOSE g : Takes(g))[n] = f[n]
  <2> HIDE DEF Takes
  <2>1. Takes(CHOOSE g : Takes(g))
    BY <1>6
  <2> QED BY <1>7, <2>1
<1>9. Taken(rest, types) = (CHOOSE g : Takes(g))[n]
  BY DEF Taken, n, W, SavedAt
<1> QED BY <1>4, <1>5, <1>8, <1>9 DEF n, W

(* What is saved has its types.                                            *)
LEMMA TakenTypes ==
  ASSUME NEW rest \in Seq(Line), NEW types
  PROVE  Taken(rest, types) \in Seq(Saved)
BY TakenIs

-----------------------------------------------------------------------------
(* The lines of an envelope.                                               *)
Header(item) == HeaderLine(item, CHOOSE t \in Texts : TRUE)
Lines(items) == [n \in DOMAIN items |-> <<Header(items[n])>> \o items[n].payload]

LEMMA HeaderIsLine ==
  ASSUME NEW item \in Item
  PROVE  Header(item) \in Line /\ item.payload \in Seq(Line)
<1>1. (CHOOSE t \in Texts : TRUE) \in Texts
  BY EnvelopeAssumption
<1> QED BY <1>1 DEF Header, HeaderLine, Line, Item

LEMMA LinesTypes ==
  ASSUME NEW items \in Seq(Item)
  PROVE  /\ Lines(items) \in Seq(Seq(Line)) /\ Len(Lines(items)) = Len(items)
         /\ \A n \in 1..Len(items) : Lines(items)[n] = <<Header(items[n])>> \o items[n].payload
         /\ Wire(items) = FlattenSeq(Lines(items))
<1>1. \A n \in DOMAIN items : <<Header(items[n])>> \o items[n].payload \in Seq(Line)
  <2> SUFFICES ASSUME NEW n \in DOMAIN items
               PROVE  <<Header(items[n])>> \o items[n].payload \in Seq(Line)
    OBVIOUS
  <2>1. Header(items[n]) \in Line /\ items[n].payload \in Seq(Line)
    BY HeaderIsLine
  <2> QED BY <2>1
<1>2. DOMAIN items = 1..Len(items) /\ Len(items) \in Nat
  OBVIOUS
<1>3. Lines(items) \in [1..Len(items) -> Seq(Line)]
  BY <1>1, <1>2 DEF Lines
<1>4. Lines(items) \in Seq(Seq(Line)) /\ Len(Lines(items)) = Len(items)
  <2> DEFINE Y == Seq(Line)
  <2> HIDE DEF Y
  <2>1. Lines(items) \in [1..Len(items) -> Y]
    BY <1>3 DEF Y
  <2>2. Lines(items) \in Seq(Y) /\ Len(Lines(items)) = Len(items)
    BY <1>2, <2>1
  <2> QED BY <2>2 DEF Y
<1>5. \A n \in 1..Len(items) : Lines(items)[n] = <<Header(items[n])>> \o items[n].payload
  BY <1>2 DEF Lines
<1>6. Wire(items) = FlattenSeq(Lines(items))
  BY DEF Wire, Lines, Header
<1> QED BY <1>4, <1>5, <1>6

LEMMA WireTypes ==
  ASSUME NEW items \in Seq(Item)
  PROVE  Wire(items) \in Seq(Line)
<1>1. CASE Lines(items) = <<>>
  <2>1. FlattenSeq(<<>>) = <<>>
    BY DEF FlattenSeq
  <2> QED BY <1>1, <2>1, LinesTypes
<1>2. CASE Lines(items) # <<>>
  <2> DEFINE l == Lines(items)
  <2>1. l \in Seq(Seq(Line)) /\ l # <<>> /\ Wire(items) = FlattenSeq(l)
    BY <1>2, LinesTypes
  <2> HIDE DEF l
  <2>2. Len(l) \in 0..Len(l)
    BY <2>1
  <2>3. PICK f \in [0..Len(l) -> Seq(Line)] : FlattenSeq(l) = f[Len(l)]
    BY <2>1, FlattenIs
  <2>4. FlattenSeq(l) \in Seq(Line)
    BY <2>2, <2>3
  <2> QED BY <2>1, <2>4
<1> QED BY <1>1, <1>2

(* As long as payloads are single lines, items and lines go in step.       *)
Fronts(w, items, n) ==
  \A m \in 1..n : w[2 * m - 1] = Header(items[m]) /\ w[2 * m] = items[m].payload[1]

LEMMA WireBegins ==
  ASSUME NEW items \in Seq(Item), NEW n \in 1..Len(items), Single(items, n)
  PROVE  /\ Len(Wire(items)) >= 2 * n /\ Fronts(Wire(items), items, n)
         /\ n = Len(items) => Len(Wire(items)) = 2 * n
<1> DEFINE N == Len(items)
           l == Lines(items)
           P(w, j) == /\ j <= n => Len(w) = 2 * j /\ Fronts(w, items, j)
                      /\ j >= n => Len(w) >= 2 * n /\ Fronts(w, items, n)
<1>1. N \in Nat /\ N # 0 /\ n \in 1..N /\ n \in Nat
  OBVIOUS
<1>2. l \in Seq(Seq(Line)) /\ Len(l) = N /\ l # <<>>
  BY <1>1, LinesTypes
<1>3. PICK f \in [0..N -> Seq(Line)] :
        /\ f[0] = <<>> /\ \A i \in 1..N : f[i] = f[i - 1] \o l[i]
        /\ Wire(items) = f[N]
  <2>1. \E f \in [0..Len(l) -> Seq(Line)] :
           /\ f[0] = <<>> /\ \A i \in 1..Len(l) : f[i] = f[i - 1] \o l[i]
           /\ FlattenSeq(l) = f[Len(l)]
    <3> HIDE DEF l
    <3> QED BY <1>2, FlattenIs
  <2> QED BY <1>2, <2>1, LinesTypes
<1> DEFINE S == {j \in Nat : j \in 0..N => P(f[j], j)}
<1>4. 0 \in S
  BY <1>1, <1>3 DEF Fronts
<1>5. ASSUME NEW j \in Nat, j \in S PROVE j + 1 \in S
  <2> SUFFICES ASSUME j + 1 \in 0..N PROVE P(f[j + 1], j + 1)
    OBVIOUS
  <2> DEFINE w == f[j]
             p == items[j + 1].payload
             x == <<Header(items[j + 1])>> \o p
  <2>1. w \in Seq(Line) /\ P(w, j) /\ j + 1 \in 1..N /\ j \in 0..N
    BY <1>1, <1>3, <1>5
  <2>2. f[j + 1] = w \o x
    <3>1. f[j + 1] = f[j] \o l[j + 1]
      <4> HIDE DEF l
      <4>1. (j + 1) - 1 = j
        OBVIOUS
      <4> QED BY <1>3, <2>1, <4>1
    <3>2. l[j + 1] = x
      BY <2>1, LinesTypes
    <3> QED BY <3>1, <3>2
  <2>3. x \in Seq(Line) /\ Header(items[j + 1]) \in Line /\ p \in Seq(Line)
    BY <2>1, HeaderIsLine
  <2> HIDE DEF w, p
  <2>4. x[1] = Header(items[j + 1]) /\ Len(x) = 1 + Len(p)
    BY <2>3
  <2>5. /\ Len(w \o x) = Len(w) + Len(x) /\ Len(w) \in Nat
        /\ \A i \in 1..Len(w) : (w \o x)[i] = w[i]
        /\ \A i \in 1..Len(x) : (w \o x)[Len(w) + i] = x[i]
    <3> HIDE DEF x
    <3>1. \A i \in 1..(Len(w) + Len(x)) : (w \o x)[i] = IF i <= Len(w) THEN w[i] ELSE x[i - Len(w)]
      BY <2>1, <2>3, ConcatProperties
    <3>2. Len(w \o x) = Len(w) + Len(x) /\ Len(w) \in Nat /\ Len(x) \in Nat
      BY <2>1, <2>3, ConcatProperties
    <3> QED BY <3>1, <3>2
  <2> HIDE DEF x
  <2>6. CASE j + 1 <= n
    <3>1. Len(p) = 1
      BY <1>1, <2>1, <2>6 DEF Single, p
    <3>2. Len(w) = 2 * j /\ Fronts(w, items, j)
      BY <2>1, <2>6
    <3>3. x[1] = Header(items[j + 1]) /\ x[2] = p[1] /\ Len(x) = 2
      BY <2>3, <2>4, <3>1 DEF x
    <3>4. Len(w \o x) = 2 * (j + 1)
      BY <2>5, <3>2, <3>3
    <3>5. (w \o x)[2 * (j + 1) - 1] = Header(items[j + 1]) /\ (w \o x)[2 * (j + 1)] = p[1]
      BY <2>5, <3>2, <3>3
    <3>6. Fronts(w \o x, items, j + 1)
      <4> SUFFICES ASSUME NEW m \in 1..(j + 1)
                   PROVE  (w \o x)[2 * m - 1] = Header(items[m]) /\ (w \o x)[2 * m] = items[m].payload[1]
        BY DEF Fronts
      <4>1. CASE m = j + 1
        BY <3>5, <4>1 DEF p
      <4>2. CASE m # j + 1
        <5>1. m \in 1..j /\ 2 * m - 1 \in 1..Len(w) /\ 2 * m \in 1..Len(w)
          BY <3>2, <4>2
        <5> QED BY <2>5, <3>2, <5>1 DEF Fronts
      <4> QED BY <4>1, <4>2
    <3>7. j + 1 >= n => j + 1 = n
      BY <1>1, <2>6
    <3> QED BY <2>2, <3>4, <3>6, <3>7
  <2>7. CASE ~(j + 1 <= n)
    <3>1. j >= n /\ Len(w) >= 2 * n /\ Fronts(w, items, n)
      BY <1>1, <2>1, <2>7
    <3>2. Len(w \o x) >= 2 * n
      BY <1>1, <2>3, <2>5, <3>1
    <3>3. Fronts(w \o x, items, n)
      <4> SUFFICES ASSUME NEW m \in 1..n
                   PROVE  (w \o x)[2 * m - 1] = Header(items[m]) /\ (w \o x)[2 * m] = items[m].payload[1]
        BY DEF Fronts
      <4>1. 2 * m - 1 \in 1..Len(w) /\ 2 * m \in 1..Len(w)
        BY <1>1, <2>1, <3>1
      <4> QED BY <2>5, <3>1, <4>1 DEF Fronts
    <3> QED BY <2>2, <2>7, <3>2, <3>3
  <2> QED BY <2>6, <2>7
<1>6. P(f[N], N)
  <2> HIDE DEF P, S
  <2>1. \A j \in Nat : j \in S
    BY <1>4, <1>5, NatSets
  <2> QED BY <1>1, <2>1 DEF S
<1> QED BY <1>1, <1>3, <1>6

LEMMA SingleLines ==
  ASSUME NEW items \in Seq(Item), Single(items, Len(items))
  PROVE  Len(Wire(items)) = 2 * Len(items) /\ Fronts(Wire(items), items, Len(items))
<1>1. CASE Len(items) = 0
  <2>1. Lines(items) = <<>>
    BY <1>1, LinesTypes, EmptySeq
  <2>2. FlattenSeq(<<>>) = <<>>
    BY DEF FlattenSeq
  <2>3. Len(Wire(items)) = 0
    BY <2>1, <2>2, LinesTypes
  <2> QED BY <1>1, <2>3 DEF Fronts
<1>2. CASE Len(items) # 0
  <2>1. Len(items) \in 1..Len(items)
    BY <1>2
  <2> QED BY <2>1, WireBegins
<1> QED BY <1>1, <1>2

-----------------------------------------------------------------------------
(* ParseEnvelope.                                                          *)
LEMMA MinIs ==
  ASSUME NEW S, NEW x \in S, S \subseteq Nat, \A y \in S : x <= y
  PROVE  Min(S) = x
<1>1. \A y \in S : (\A z \in S : y <= z) => y = x
  OBVIOUS
<1> QED BY <1>1 DEF Min

LEMMA HeaderFields ==
  ASSUME NEW item
  PROVE  /\ Header(item).json /\ ~Header(item).message
         /\ Header(item).type = item.type /\ Header(item).name = item.name
BY DEF Header, HeaderLine

(* Where the headers and the payloads of the items are.                    *)
LEMMA Parity ==
  ASSUME NEW i \in Nat, NEW n \in Nat, i \in 1..(2 * n)
  PROVE  \/ i % 2 = 1 /\ \E m \in 1..n : i = 2 * m - 1
         \/ i % 2 # 1 /\ \E m \in 1..n : i = 2 * m
<1>1. \E q \in Nat : i = 2 * q \/ i = 2 * q + 1
  <2> DEFINE q == i \div 2
  <2>1. q \in Nat /\ i % 2 \in 0..1 /\ i = 2 * q + (i % 2)
    OBVIOUS
  <2> HIDE DEF q
  <2>2. i = 2 * q \/ i = 2 * q + 1
    BY <2>1
  <2> QED BY <2>1, <2>2
<1>2. PICK q \in Nat : i = 2 * q \/ i = 2 * q + 1
  BY <1>1
<1>3. CASE i = 2 * q
  <2>1. q \in 1..n /\ i % 2 = 0
    BY <1>3
  <2> QED BY <1>3, <2>1
<1>4. CASE i = 2 * q + 1
  <2>1. q + 1 \in 1..n /\ i % 2 = 1 /\ i = 2 * (q + 1) - 1
    BY <1>4
  <2> QED BY <2>1
<1> QED BY <1>2, <1>3, <1>4

LEMMA OddOnes ==
  ASSUME NEW m \in Nat, m # 0
  PROVE  (2 * m - 1) % 2 = 1 /\ (2 * m) % 2 # 1
OBVIOUS

(* The first event item is found, whatever follows it.                     *)
LEMMA FirstEventIsFound ==
  ASSUME NEW items \in Seq(Item), NEW n \in DOMAIN items,
         Single(items, n), items[n].type \in EventTypes,
         \A m \in 1..(n - 1) : items[m].type \notin EventTypes
  PROVE  Parse(Wire(items)) = <<[type |-> items[n].type, payload |-> items[n].payload[1]]>>
<1> DEFINE w == Wire(items)
           at == 2 * n - 1
<1>1. /\ n \in Nat /\ n # 0 /\ n \in 1..Len(items) /\ at \in Nat
      /\ at = 2 * n - 1 /\ at + 1 = 2 * n
  OBVIOUS
<1>2. w \in Seq(Line) /\ Len(w) \in Nat /\ Len(w) >= 2 * n /\ Fronts(w, items, n)
  BY <1>1, WireTypes, WireBegins
<1> HIDE DEF w, at
<1>3. w[at] = Header(items[n]) /\ w[at + 1] = items[n].payload[1]
  <2>1. n \in 1..n
    BY <1>1
  <2> QED BY <1>1, <1>2, <2>1 DEF Fronts
<1>4. at \in Found(w)
  <2>1. at \in 1..(Len(w) - 1) /\ at % 2 = 1
    <3>1. at % 2 = 1
      BY <1>1, OddOnes
    <3>2. at \in 1..(Len(w) - 1)
      BY <1>1, <1>2
    <3> QED BY <3>1, <3>2
  <2> QED BY <1>3, <2>1, HeaderFields DEF Found, Pairs
<1>5. ASSUME NEW i \in Found(w) PROVE at <= i
  <2>1. i \in Nat /\ i # 0
    BY <1>2 DEF Found, Pairs
  <2>2. i % 2 = 1 /\ w[i].type \in EventTypes
    BY DEF Found, Pairs
  <2> SUFFICES ASSUME i < at PROVE FALSE
    BY <1>1, <2>1
  <2>3. i \in 1..(2 * n)
    BY <1>1, <2>1
  <2>4. PICK m \in 1..n : i = 2 * m - 1
    BY <1>1, <2>1, <2>2, <2>3, Parity
  <2>5. m \in 1..(n - 1)
    BY <1>1, <2>4
  <2>6. w[i] = Header(items[m])
    BY <1>2, <2>4 DEF Fronts
  <2> QED BY <2>2, <2>5, <2>6, HeaderFields
<1>6. Min(Found(w)) = at
  <2>1. Found(w) \subseteq Nat
    BY <1>2 DEF Found, Pairs
  <2> QED BY <1>4, <1>5, <2>1, MinIs
<1>7. Parse(w) = <<[type |-> w[at].type, payload |-> w[at + 1]]>>
  BY <1>4, <1>6 DEF Parse
<1> QED BY <1>3, <1>7, HeaderFields DEF w

(* FindsFirstEvent holds of whatever an SDK may send.                      *)
THEOREM FirstEventFound == \A items \in Seq(Item) : FindsFirstEvent(items)
BY FirstEventIsFound DEF FindsFirstEvent

(* RejectsEventless, too.                                                  *)
THEOREM EventlessRejected == \A items \in Seq(Item) : RejectsEventless(items)
<1> SUFFICES ASSUME NEW items \in Seq(Item), Single(items, Len(items)),
                    \A n \in DOMAIN items : items[n].type \notin EventTypes
             PROVE  Parse(Wire(items)) = <<>> <=> \A n \in DOMAIN items : ~items[n].payload[1].message
  BY DEF RejectsEventless
<1> DEFINE w == Wire(items)
           N == Len(items)
<1>1. N \in Nat /\ DOMAIN items = 1..N
  OBVIOUS
<1>2. w \in Seq(Line) /\ Len(w) = 2 * N /\ Fronts(w, items, N)
  BY SingleLines, WireTypes
<1> HIDE DEF w, N
<1>3. Found(w) = {}
  <2> SUFFICES ASSUME NEW i \in Found(w) PROVE FALSE
    OBVIOUS
  <2>1. i \in 1..(2 * N) /\ i \in Nat /\ i % 2 = 1 /\ w[i].type \in EventTypes
    BY <1>1, <1>2 DEF Found, Pairs
  <2>2. PICK m \in 1..N : i = 2 * m - 1
    BY <1>1, <2>1, Parity
  <2>3. w[i] = Header(items[m])
    BY <1>2, <2>2 DEF Fronts
  <2> QED BY <1>1, <2>1, <2>3, HeaderFields
<1>4. Parse(w) = <<>> <=> Loose(w) = {}
  <2>1. \A x : <<x>> # <<>>
    OBVIOUS
  <2> QED BY <1>3, <2>1 DEF Parse
<1>5. ASSUME NEW i \in Loose(w) PROVE \E m \in 1..N : items[m].payload[1].message
  <2>1. i \in 1..(2 * N) /\ i \in Nat /\ w[i].message
    BY <1>1, <1>2 DEF Loose
  <2>2. ~(\E m \in 1..N : i = 2 * m - 1)
    BY <1>2, <2>1, HeaderFields DEF Fronts
  <2>3. PICK m \in 1..N : i = 2 * m
    BY <1>1, <2>1, <2>2, Parity
  <2> QED BY <1>2, <2>1, <2>3 DEF Fronts
<1>6. ASSUME NEW m \in 1..N, items[m].payload[1].message PROVE Loose(w) # {}
  <2>1. 2 * m \in DOMAIN w /\ w[2 * m] = items[m].payload[1]
    BY <1>1, <1>2 DEF Fronts
  <2>2. w[2 * m] \in Line
    BY <1>2, <2>1
  <2>3. w[2 * m].json
    BY <1>6, <2>1, <2>2, LineFields
  <2> QED BY <1>6, <2>1, <2>3 DEF Loose
<1> QED BY <1>1, <1>4, <1>5, <1>6 DEF w

-----------------------------------------------------------------------------
(* extractAndSaveAttachments and extractAndSaveReplays.                    *)
UpTo(items, n, types) == {m \in Sent(items, types) : m <= n}

LEMMA Ranks ==
  ASSUME NEW types, NEW items \in Seq(Item), NEW n \in 0..Len(items)
  PROVE  /\ IsFiniteSet(UpTo(items, n, types)) /\ Cardinality(UpTo(items, n, types)) \in Nat
         /\ n = 0 => UpTo(items, n, types) = {}
         /\ n # 0 => UpTo(items, n, types) = UpTo(items, n - 1, types) \cup (Sent(items, types) \cap {n})
         /\ \A m \in UpTo(items, n, types) :
              Cardinality(UpTo(items, m, types)) \in 1..Cardinality(UpTo(items, n, types))
         /\ UpTo(items, Len(items), types) = Sent(items, types)
<1>1. Sent(items, types) \subseteq 1..Len(items) /\ Len(items) \in Nat /\ n \in Nat
  BY DEF Sent
<1>2. IsFiniteSet(1..Len(items))
  BY <1>1, FS_Interval
<1>3. \A m : UpTo(items, m, types) \in SUBSET (1..Len(items))
  BY <1>1 DEF UpTo
<1>4. \A m : IsFiniteSet(UpTo(items, m, types)) /\ Cardinality(UpTo(items, m, types)) \in Nat
  BY <1>2, <1>3, FS_Subset, FS_CardinalityType
<1>5. ASSUME NEW m \in UpTo(items, n, types)
      PROVE  Cardinality(UpTo(items, m, types)) \in 1..Cardinality(UpTo(items, n, types))
  <2>1. m \in UpTo(items, m, types) /\ UpTo(items, m, types) \in SUBSET UpTo(items, n, types)
    BY <1>1 DEF UpTo
  <2>2. Cardinality(UpTo(items, m, types)) # 0
    BY <1>4, <2>1, FS_EmptySet
  <2>3. Cardinality(UpTo(items, m, types)) <= Cardinality(UpTo(items, n, types))
    BY <1>4, <2>1, FS_Subset
  <2> QED BY <1>4, <2>2, <2>3
<1>6. n = 0 => UpTo(items, n, types) = {}
  BY <1>1 DEF UpTo
<1>7. n # 0 => UpTo(items, n, types) = UpTo(items, n - 1, types) \cup (Sent(items, types) \cap {n})
  BY <1>1 DEF UpTo
<1>8. UpTo(items, Len(items), types) = Sent(items, types)
  BY <1>1 DEF UpTo
<1> QED BY <1>4, <1>5, <1>6, <1>7, <1>8

LEMMA ItemsAreSaved ==
  ASSUME NEW types, NEW items \in Seq(Item), Single(items, Len(items))
  PROVE  SavesAll(items, types)
<1> DEFINE w == Wire(items)
           N == Len(items)
           Good(s, n) == /\ Len(s) = Cardinality(UpTo(items, n, types))
                         /\ \A m \in UpTo(items, n, types) :
                              s[Cardinality(UpTo(items, m, types))] =
                                [name |-> items[m].name, data |-> items[m].payload[1]]
<1>1. w \in Seq(Line) /\ Len(w) = 2 * N /\ Fronts(w, items, N) /\ N \in Nat
  BY SingleLines, WireTypes
<1> HIDE DEF w
<1>2. PICK f \in [0..Len(w) -> Seq(Saved)] :
         /\ f[0] = <<>>
         /\ \A i \in 1..Len(w) :
              f[i] = IF i \in Wanted(w, types) THEN Append(f[i - 1], SavedAt(w, i)) ELSE f[i - 1]
         /\ Taken(w, types) = f[Len(w)]
  BY <1>1, TakenIs
<1>3. ASSUME NEW m \in 1..N
      PROVE  /\ f[2 * m] = f[2 * m - 1]
             /\ f[2 * m - 1] = IF m \in Sent(items, types)
                               THEN Append(f[2 * (m - 1)], [name |-> items[m].name, data |-> items[m].payload[1]])
                               ELSE f[2 * (m - 1)]
  <2>1. m \in Nat /\ m # 0 /\ 2 * m \in 1..Len(w) /\ 2 * m - 1 \in 1..Len(w)
        /\ (2 * m - 1) - 1 = 2 * (m - 1) /\ (2 * m - 1) + 1 = 2 * m
        /\ 2 * m - 1 \in 1..(Len(w) - 1)
    BY <1>1
  <2>2. w[2 * m - 1] = Header(items[m]) /\ w[2 * m] = items[m].payload[1]
    BY <1>1 DEF Fronts
  <2>3. (2 * m - 1) % 2 = 1 /\ (2 * m) % 2 # 1
    BY <2>1, OddOnes
  <2>4. 2 * m \notin Wanted(w, types)
    BY <2>3 DEF Wanted, Pairs
  <2>5. 2 * m - 1 \in Wanted(w, types) <=> m \in Sent(items, types)
    <3>1. 2 * m - 1 \in Pairs(w)
      BY <2>1, <2>2, <2>3, HeaderFields DEF Pairs
    <3> QED BY <1>1, <2>2, <3>1, HeaderFields DEF Wanted, Sent
  <2>6. SavedAt(w, 2 * m - 1) = [name |-> items[m].name, data |-> items[m].payload[1]]
    BY <2>1, <2>2, HeaderFields DEF SavedAt
  <2>7. f[2 * m] = f[2 * m - 1]
    BY <1>2, <2>1, <2>4
  <2>8. f[2 * m - 1] = IF 2 * m - 1 \in Wanted(w, types)
                       THEN Append(f[2 * (m - 1)], SavedAt(w, 2 * m - 1)) ELSE f[2 * (m - 1)]
    BY <1>2, <2>1
  <2> QED BY <2>5, <2>6, <2>7, <2>8
<1> DEFINE S == {n \in Nat : n \in 0..N => Good(f[2 * n], n)}
<1>4. 0 \in S
  BY <1>1, <1>2, Ranks, FS_EmptySet
<1>5. ASSUME NEW n \in Nat, n \in S PROVE n + 1 \in S
  <2> SUFFICES ASSUME n + 1 \in 0..N PROVE Good(f[2 * (n + 1)], n + 1)
    <3> HIDE DEF Good
    <3> QED OBVIOUS
  <2> DEFINE m == n + 1
             s == f[2 * n]
             new == [name |-> items[m].name, data |-> items[m].payload[1]]
  <2>1. m \in 1..N /\ n \in 0..N /\ m \in 0..N /\ m - 1 = n /\ m # 0 /\ 2 * n \in 0..Len(w) /\ m \in Nat
    BY <1>1
  <2>2. Good(s, n) /\ s \in Seq(Saved)
    BY <1>2, <1>5, <2>1
  <2>3. f[2 * m] = IF m \in Sent(items, types) THEN Append(s, new) ELSE s
    <3> HIDE DEF m
    <3>1. /\ f[2 * m] = f[2 * m - 1]
          /\ f[2 * m - 1] = IF m \in Sent(items, types) THEN Append(f[2 * (m - 1)], new) ELSE f[2 * (m - 1)]
      BY <1>3, <2>1
    <3>2. 2 * (m - 1) = 2 * n
      BY <2>1
    <3> QED BY <3>1, <3>2
  <2>4. UpTo(items, m, types) = UpTo(items, n, types) \cup (Sent(items, types) \cap {m})
        /\ IsFiniteSet(UpTo(items, n, types))
        /\ Cardinality(UpTo(items, n, types)) \in Nat
    <3> HIDE DEF m
    <3> QED BY <2>1, Ranks
  <2>5. \A k \in UpTo(items, n, types) : Cardinality(UpTo(items, k, types)) \in 1..Len(s)
    BY <2>1, <2>2, Ranks
  <2> HIDE DEF m, s, new
  <2>6. CASE m \notin Sent(items, types)
    <3>1. UpTo(items, m, types) = UpTo(items, n, types) /\ f[2 * m] = s
      BY <2>3, <2>4, <2>6
    <3> QED BY <2>2, <3>1 DEF m
  <2>7. CASE m \in Sent(items, types)
    <3>1. /\ UpTo(items, m, types) = UpTo(items, n, types) \cup {m} /\ m \notin UpTo(items, n, types)
          /\ f[2 * m] = Append(s, new)
      BY <2>1, <2>3, <2>4, <2>7 DEF UpTo
    <3>2. Cardinality(UpTo(items, m, types)) = Cardinality(UpTo(items, n, types)) + 1
      BY <2>4, <3>1, FS_AddElement
    <3>3. /\ Len(Append(s, new)) = Len(s) + 1 /\ Append(s, new)[Len(s) + 1] = new
          /\ \A i \in 1..Len(s) : Append(s, new)[i] = s[i]
      BY <2>2, AppendProperties
    <3>4. Len(Append(s, new)) = Cardinality(UpTo(items, m, types))
      BY <2>2, <3>2, <3>3
    <3>5. ASSUME NEW k \in UpTo(items, m, types)
          PROVE  Append(s, new)[Cardinality(UpTo(items, k, types))] =
                    [name |-> items[k].name, data |-> items[k].payload[1]]
      <4>1. CASE k = m
        BY <2>2, <3>2, <3>3, <4>1 DEF new
      <4>2. CASE k # m
        <5>1. k \in UpTo(items, n, types)
          BY <3>1, <4>2
        <5>2. Append(s, new)[Cardinality(UpTo(items, k, types))] = s[Cardinality(UpTo(items, k, types))]
          BY <2>5, <3>3, <5>1
        <5> QED BY <2>2, <5>1, <5>2
      <4> QED BY <4>1, <4>2
    <3> QED BY <3>1, <3>4, <3>5 DEF m
  <2> QED BY <2>6, <2>7
<1>6. Good(f[2 * N], N)
  <2> HIDE DEF Good, S
  <2>1. \A n \in Nat : n \in S
    BY <1>4, <1>5, NatSets
  <2> QED BY <1>1, <2>1 DEF S
<1>7. Taken(Wire(items), types) = f[2 * N]
  BY <1>1, <1>2 DEF w
<1>8. ASSUME NEW n \in Sent(items, types)
      PROVE  <<items[n].payload[1]>> = items[n].payload
  <2>1. n \in DOMAIN items /\ items[n].payload \in Seq(Line) /\ Len(items[n].payload) = 1
    BY HeaderIsLine DEF Sent, Single
  <2> QED BY <2>1
<1>9. /\ UpTo(items, N, types) = Sent(items, types)
      /\ \A n : Rank(items, n, types) = Cardinality(UpTo(items, n, types))
  <2>1. N \in 0..Len(items)
    BY <1>1
  <2>2. UpTo(items, N, types) = Sent(items, types)
    BY <2>1, Ranks
  <2>3. \A n : Rank(items, n, types) = Cardinality(UpTo(items, n, types))
    BY DEF Rank, UpTo
  <2> QED BY <2>2, <2>3
<1>10. Len(f[2 * N]) = Cardinality(Sent(items, types))
  BY <1>6, <1>9
<1>11. ASSUME NEW n \in Sent(items, types)
       PROVE  /\ f[2 * N][Rank(items, n, types)].name = items[n].name
              /\ <<f[2 * N][Rank(items, n, types)].data>> = items[n].payload
  <2>1. f[2 * N][Rank(items, n, types)] = [name |-> items[n].name, data |-> items[n].payload[1]]
    BY <1>6, <1>9
  <2> QED BY <1>8, <2>1
<1> QED BY <1>7, <1>10, <1>11 DEF SavesAll

(* extractAndSaveAttachments and extractAndSaveReplays: if no payload has  *)
(* a line break, the loop over the pairs of lines saves the items of some  *)
(* types that an SDK has put in, each with its name and its payload, in    *)
(* their order, and nothing else.                                          *)
THEOREM ItemsSaved == \A items \in Seq(Item) : \A types : KeepsItems(items, types)
BY ItemsAreSaved DEF KeepsItems

(* A draft is an envelope that an SDK may send.                            *)
DraftType == draft \in Seq(Item)

LEMMA DraftsAreItems == DraftSpec => []DraftType
<1>1. DraftInit => DraftType
  BY DEF DraftInit, DraftType
<1>2. DraftType /\ [DraftNext]_draft => DraftType'
  <2> SUFFICES ASSUME DraftType, [DraftNext]_draft PROVE DraftType'
    OBVIOUS
  <2>1. CASE Draft
    <3>1. PICK part \in Item : draft' = Append(draft, part)
      BY <2>1, DraftAssumption DEF Draft
    <3>2. draft' \in Seq(Item)
      BY <3>1, AppendProperties DEF DraftType
    <3> QED BY <3>2 DEF DraftType
  <2>2. CASE Discard
    <3>1. draft' \in Seq(Item)
      BY <2>2, EmptySeq DEF Discard
    <3> QED BY <3>1 DEF DraftType
  <2>3. CASE UNCHANGED draft
    BY <2>3 DEF DraftType
  <2> QED BY <2>1, <2>2, <2>3 DEF DraftNext
<1> QED BY <1>1, <1>2, PTL DEF DraftSpec

(* EventRecognised: ParseEnvelope is right about every envelope that is    *)
(* put together of any parts.                                              *)
THEOREM EventsAreRecognised == DraftSpec => []EventRecognised
<1>1. DraftType => EventRecognised
  BY FirstEventFound, EventlessRejected DEF DraftType, EventRecognised
<1> QED BY <1>1, DraftsAreItems, PTL

(* ItemsKept: so are extractAndSaveAttachments and extractAndSaveReplays.  *)
THEOREM ItemsAreKept == DraftSpec => []ItemsKept
<1>1. DraftType => ItemsKept
  BY ItemsSaved DEF DraftType, ItemsKept
<1> QED BY <1>1, DraftsAreItems, PTL

-----------------------------------------------------------------------------
(* The types.  A request at "insert" has an attachment left, whose name    *)
(* and line are what the parser took from the envelope; the cleaner's list *)
(* is empty while it sleeps, so that revived starts empty with the list.   *)
TodoTypes ==
  /\ todo \in [Requests -> Seq(Saved)]
  /\ \A r \in Requests : rpc[r] = "insert" => todo[r] # <<>>
ListEmpty == cpc \in {"sleep", "list"} => listed = {}

TypeInv == TypeOK /\ TodoTypes /\ ListEmpty

LEMMA BodyTypes ==
  ASSUME TypeOK, NEW r \in Requests
  PROVE  /\ body[r].id \in EventIds /\ Rest(r) \in Seq(Line)
         /\ AttachmentsIn(Rest(r)) \in Seq(Saved) /\ ReplaysIn(Rest(r)) \in Seq(Saved)
<1>1. body[r].id \in EventIds /\ body[r].items \in Seq(Item)
  BY AttachmentsAssumption DEF TypeOK
<1>2. Rest(r) \in Seq(Line)
  BY <1>1, WireTypes DEF Rest
<1> QED BY <1>1, <1>2, TakenTypes DEF AttachmentsIn, ReplaysIn

LEMMA RowTypes ==
  ASSUME TypeOK, TodoTypes, NEW r \in Requests, todo[r] # <<>>
  PROVE  NewRow(r) \in Row /\ File(NewRow(r)) \in Paths
<1> DEFINE n == FileName(Head(todo[r]).name)
<1>1. Head(todo[r]) \in Saved /\ body[r].id \in EventIds /\ Len(todo[r]) \in Nat
  BY BodyTypes DEF TodoTypes
<1>2. n \in FileNames
  BY <1>1 DEF Saved, FileName, FileNames
<1>3. PathOf(body[r].id, n) \in Paths
  BY <1>1, <1>2, AttachmentsAssumption
<1> HIDE DEF n
<1>4. NewRow(r) = [id |-> <<r, Len(todo[r])>>, event |-> body[r].id, name |-> n]
  BY DEF NewRow, n
<1> QED BY <1>1, <1>2, <1>3, <1>4 DEF Row, File

LEMMA ReplayNames ==
  ASSUME TypeOK, NEW r \in Requests
  PROVE  ReplayFiles(r) \subseteq Names \cup EventIds
<1>1. \A n \in DOMAIN ReplaysIn(Rest(r)) : ReplaysIn(Rest(r))[n].name \in Names \cup {NoName}
  <2> DEFINE s == ReplaysIn(Rest(r))
  <2>1. s \in Seq(Saved)
    BY BodyTypes
  <2> HIDE DEF s
  <2>2. \A n \in DOMAIN s : s[n] \in Saved
    BY <2>1
  <2>3. \A n \in DOMAIN s : s[n].name \in Names \cup {NoName}
    BY <2>2 DEF Saved
  <2> QED BY <2>3 DEF s
<1>2. body[r].id \in EventIds
  BY BodyTypes
<1> QED BY <1>1, <1>2 DEF ReplayFiles

LEMMA RequestTypes ==
  ASSUME TypeInv, NEW r \in Requests, Request(r)
  PROVE  TypeInv'
<1> USE DEF TypeInv, TypeOK, TodoTypes, ListEmpty, cleaner
<1>1. CASE Refuse(r)
  BY <1>1 DEF Refuse
<1>2. CASE Accept(r)
  <2> DEFINE k == KeyOf[Parse(Rest(r))[1].payload.text]
             e == body[r].id
             as == AttachmentsIn(Rest(r))
  <2>1. /\ rpc' = [rpc EXCEPT ![r] = "attach"] /\ todo' = [todo EXCEPT ![r] = as]
        /\ UNCHANGED <<rows, files, replays, body, cpc, listed, suspects>>
        /\ \/ issues' = [issues EXCEPT ![k] = e] /\ revived' = revived \cup (EventsIn(listed) \cap {e})
           \/ UNCHANGED <<issues, revived>>
    BY <1>2 DEF Accept
  <2>2. e \in EventIds /\ as \in Seq(Saved)
    BY BodyTypes
  <2> HIDE DEF k, e, as
  <2>3. issues' \in [Keys -> EventIds \cup {NoRow}] /\ revived' \subseteq EventsIn(listed)'
    BY <2>1, <2>2 DEF EventsIn
  <2>4. TodoTypes'
    BY <2>1, <2>2
  <2>5. EventsIn(listed)' = EventsIn(listed)
    BY <2>1 DEF EventsIn
  <2> QED BY <2>1, <2>3, <2>4, <2>5
<1>3. CASE WriteFile(r)
  <2>1. File(NewRow(r)) \in Paths
    BY <1>3, RowTypes DEF WriteFile
  <2>2. files' \subseteq Paths
    BY <1>3, <2>1 DEF WriteFile
  <2> QED BY <1>3, <2>2 DEF WriteFile
<1>4. CASE WriteFails(r)
  BY <1>4 DEF WriteFails, NextAttachment
<1>5. CASE InsertRow(r)
  <2>1. NewRow(r) \in Row
    BY <1>5, RowTypes DEF InsertRow
  <2>2. rows' \subseteq Row
    BY <1>5, <2>1 DEF InsertRow
  <2>3. TodoTypes'
    BY <1>5 DEF InsertRow, NextAttachment
  <2> QED BY <1>5, <2>2, <2>3 DEF InsertRow
<1>6. CASE SaveReplays(r)
  <2>1. replays' \subseteq Names \cup EventIds
    BY <1>6, ReplayNames DEF SaveReplays
  <2> QED BY <1>6, <2>1 DEF SaveReplays
<1> QED BY <1>1, <1>2, <1>3, <1>4, <1>5, <1>6 DEF Request

LEMMA OtherTypes ==
  ASSUME TypeInv, Cleaner \/ (\E K \in SUBSET Keys : DeleteProject(K)) \/ Crash
  PROVE  TypeInv'
<1> USE DEF TypeInv, TypeOK, TodoTypes, ListEmpty, request, cleaner
<1>1. ASSUME NEW K \in SUBSET Keys, DeleteProject(K) \/ Expire(K) PROVE TypeInv'
  BY <1>1 DEF DeleteProject, Expire, RemoveIssues
<1>2. ASSUME NEW found \in SUBSET Orphans, Listing(found) PROVE TypeInv'
  <2>1. found \subseteq Row
    BY DEF Orphans
  <2>2. EventsIn(found) \subseteq EventIds
    BY <2>1 DEF EventsIn, Row
  <2>3. EventsIn(listed)' = EventsIn(found)
    BY <1>2 DEF Listing, EventsIn
  <2>4. revived = {}
    BY <1>2 DEF Listing, EventsIn
  <2> QED BY <1>2, <2>1, <2>2, <2>3, <2>4 DEF Listing
<1>3. CASE DeleteRows \/ DeleteRowsFails
  BY <1>3 DEF DeleteRows, DeleteRowsFails, Orphans, EventsIn
<1>4. ASSUME NEW a \in listed, Purge(a) PROVE TypeInv'
  <2>1. /\ files' \subseteq files /\ listed' \subseteq listed
        /\ revived' = revived \cap EventsIn(listed')
        /\ cpc' = IF listed' = {} THEN "sleep" ELSE "purge"
        /\ UNCHANGED <<issues, rows, replays, rpc, body, todo, suspects>>
    BY <1>4 DEF Purge
  <2>2. EventsIn(listed') \subseteq EventsIn(listed)
    BY <2>1 DEF EventsIn
  <2>3. EventsIn(listed)' = EventsIn(listed')
    BY DEF EventsIn
  <2> QED BY <2>1, <2>2, <2>3
<1>5. CASE Crash
  BY <1>5 DEF Crash, EventsIn
<1>6. List \/ ListFails => \E found \in SUBSET Orphans : Listing(found)
  BY DEF List, ListFails
<1> QED BY <1>1, <1>2, <1>3, <1>4, <1>5, <1>6 DEF Cleaner

(* TypeOK: names and lines of rows and files are those of the wire format, *)
(* and what the cleaner works through came from the table.                 *)
THEOREM TypeCorrect == Spec => []TypeOK
<1>1. Init => TypeInv
  BY DEF Init, TypeInv, TypeOK, TodoTypes, ListEmpty, EventsIn
<1>2. TypeInv /\ [Next]_vars => TypeInv'
  <2> SUFFICES ASSUME TypeInv, [Next]_vars PROVE TypeInv'
    OBVIOUS
  <2>1. CASE UNCHANGED vars
    BY <2>1 DEF vars, request, cleaner, TypeInv, TypeOK, TodoTypes, ListEmpty, EventsIn
  <2> QED BY <2>1, RequestTypes, OtherTypes DEF Next
<1>3. TypeInv => TypeOK
  BY DEF TypeInv
<1> QED BY <1>1, <1>2, <1>3, PTL DEF Spec

-----------------------------------------------------------------------------
(* The types the proofs need.                                              *)
Places ==
  /\ issues \in [Keys -> EventIds \cup {NoRow}]
  /\ rpc \in [Requests -> {"idle", "attach", "insert", "done"}]
  /\ DOMAIN todo = Requests
  /\ body \in [Requests -> Envelopes]
  /\ \A a \in rows : a.event \in EventIds

(* What the cleaner has on its list was an orphan when it looked, and has  *)
(* been delivered again since if it is none any more.                      *)
ListIsOld ==
  /\ EventsIn(listed) \subseteq suspects /\ EventsIn(listed) \subseteq EventIds
  /\ \A e \in EventsIn(listed) : ~Live(e) \/ e \in revived

(* The file is there, or below the directory of an event that was listed.  *)
Kept(f) == f \in files \/ \E e \in suspects : f \in Tree(e)

(* A request that is to insert a row has written the file.                 *)
FileFirst == \A r \in Requests : rpc[r] = "insert" => Kept(File(NewRow(r)))

IInv == Places /\ ListIsOld /\ FileFirst /\ RowsHaveFiles

LEMMA RowsKept == RowsHaveFiles <=> \A a \in rows : Kept(File(a))
BY DEF RowsHaveFiles, Kept

LEMMA EventOfRow == \A r : NewRow(r).event = body[r].id
BY DEF NewRow

LEMMA InitHolds == Init => IInv
<1> SUFFICES ASSUME Init PROVE IInv
  OBVIOUS
<1>1. Places /\ ListIsOld /\ RowsHaveFiles
  BY DEF Init, Places, ListIsOld, EventsIn, RowsHaveFiles
<1>2. FileFirst
  BY DEF Init, FileFirst
<1> QED BY <1>1, <1>2 DEF IInv

LEMMA SameRow ==
  ASSUME NEW r \in Requests, NEW f, f = File(NewRow(r)), Kept(f)',
         body' = body, todo'[r] = todo[r]
  PROVE  Kept(File(NewRow(r)))'
<1>1. NewRow(r)' = NewRow(r)
  BY DEF NewRow
<1>2. File(NewRow(r))' = f
  BY <1>1 DEF File
<1> QED BY <1>2 DEF Kept

(* Files are kept: those of the rows, and of the rows to come.             *)
LEMMA RowsStayKept ==
  ASSUME RowsHaveFiles, \A f : Kept(f) => Kept(f)',
         \A a \in rows' \ rows : \E f : f = File(a) /\ Kept(f)'
  PROVE  RowsHaveFiles'
<1> SUFFICES ASSUME NEW a \in rows'
             PROVE  (File(a) \in files \/ \E e \in suspects : File(a) \in Tree(e))'
  BY DEF RowsHaveFiles
<1>1. PICK f : f = File(a) /\ Kept(f)'
  <2>1. CASE a \in rows
    <3>1. PICK f : f = File(a)
      OBVIOUS
    <3>2. Kept(f)
      BY <2>1, <3>1 DEF RowsHaveFiles, Kept
    <3> QED BY <3>1, <3>2
  <2> QED BY <2>1
<1> QED BY <1>1 DEF Kept, File

(* A step that inserts no row, takes no file but those of listed events,   *)
(* and gives no request a file to insert a row for.                        *)
LEMMA KeepsFiles ==
  ASSUME IInv, Places', ListIsOld', rows' \subseteq rows, body' = body,
         suspects \subseteq suspects',
         \A f \in files \ files' : \E e \in suspects' : f \in Tree(e),
         \A r \in Requests : rpc'[r] = "insert" => rpc[r] = "insert" /\ todo'[r] = todo[r]
  PROVE  IInv'
<1>1. \A f : Kept(f) => Kept(f)'
  BY DEF Kept
<1>2. RowsHaveFiles'
  BY <1>1, RowsStayKept DEF IInv
<1>3. ASSUME NEW r \in Requests, rpc'[r] = "insert"
      PROVE  Kept(File(NewRow(r)))'
  <2>1. PICK f : f = File(NewRow(r))
    OBVIOUS
  <2>2. Kept(f)
    BY <1>3, <2>1 DEF IInv, FileFirst
  <2> QED BY <1>1, <1>3, <2>1, <2>2, SameRow
<1>4. FileFirst'
  BY <1>3 DEF FileFirst
<1> QED BY <1>2, <1>4 DEF IInv

LEMMA StartsStep ==
  ASSUME IInv, NEW r \in Requests, Refuse(r) \/ Accept(r)
  PROVE  IInv'
<1>1. /\ files' = files /\ rows' = rows /\ body' = body /\ UNCHANGED <<listed, suspects>>
      /\ \A q \in Requests : rpc'[q] = "insert" => rpc[q] = "insert" /\ todo'[q] = todo[q]
  <2>1. CASE Refuse(r)
    BY <2>1 DEF Refuse, cleaner, IInv, Places
  <2>2. CASE Accept(r)
    BY <2>2 DEF Accept, cleaner, IInv, Places
  <2> QED BY <2>1, <2>2
<1>2. \/ issues' = issues /\ revived \subseteq revived'
      \/ \E k \in Keys : /\ issues' = [issues EXCEPT ![k] = body[r].id]
                        /\ revived' = revived \cup (EventsIn(listed) \cap {body[r].id})
  <2>1. CASE Refuse(r)
    BY <2>1 DEF Refuse
  <2>2. CASE Accept(r)
    <3> DEFINE k == KeyOf[Parse(Rest(r))[1].payload.text]
    <3>1. \/ UNCHANGED <<issues, revived>>
          \/ /\ issues' = [issues EXCEPT ![k] = body[r].id]
             /\ revived' = revived \cup (EventsIn(listed) \cap {body[r].id})
      BY <2>2 DEF Accept
    <3> HIDE DEF k
    <3>2. k \in Keys \/ [issues EXCEPT ![k] = body[r].id] = issues
      BY DEF IInv, Places
    <3> QED BY <3>1, <3>2
  <2> QED BY <2>1, <2>2
<1>3. body[r].id \in EventIds /\ Requests = DOMAIN rpc
  BY AttachmentsAssumption DEF IInv, Places
<1>4. Places'
  <2>1. rpc' \in [Requests -> {"idle", "attach", "insert", "done"}] /\ DOMAIN todo' = Requests
    <3>1. CASE Refuse(r)
      BY <3>1 DEF Refuse, IInv, Places
    <3>2. CASE Accept(r)
      BY <3>2 DEF Accept, IInv, Places
    <3> QED BY <3>1, <3>2
  <2>2. issues' \in [Keys -> EventIds \cup {NoRow}]
    BY <1>2, <1>3 DEF IInv, Places
  <2> QED BY <1>1, <2>1, <2>2 DEF IInv, Places
<1>5. ListIsOld'
  <2>1. EventsIn(listed)' = EventsIn(listed)
    BY <1>1 DEF EventsIn
  <2>2. CASE issues' = issues /\ revived \subseteq revived'
    BY <1>1, <2>1, <2>2 DEF IInv, ListIsOld, Live
  <2>3. ASSUME NEW k \in Keys, issues' = [issues EXCEPT ![k] = body[r].id],
               revived' = revived \cup (EventsIn(listed) \cap {body[r].id})
        PROVE  ListIsOld'
    <3>1. \A e : e # body[r].id /\ Live(e)' => Live(e)
      BY <2>3 DEF Live, IInv, Places
    <3> QED BY <1>1, <2>1, <2>3, <3>1 DEF IInv, ListIsOld
  <2> QED BY <1>2, <2>2, <2>3
<1>6. \A f \in files \ files' : FALSE
  BY <1>1
<1> QED BY <1>1, <1>4, <1>5, <1>6, KeepsFiles

(* The three steps of one attachment: the file, then its row, or neither.  *)
LEMMA AttachSteps ==
  ASSUME IInv, NEW r \in Requests,
         WriteFile(r) \/ WriteFails(r) \/ InsertRow(r) \/ SaveReplays(r)
  PROVE  IInv'
<1>1. /\ UNCHANGED <<issues, body, listed, suspects, revived>>
      /\ rpc' \in [Requests -> {"idle", "attach", "insert", "done"}]
      /\ DOMAIN todo' = Requests
      /\ files \subseteq files'
  BY DEF WriteFile, WriteFails, InsertRow, SaveReplays, NextAttachment, cleaner, IInv, Places
<1>2. Places' /\ ListIsOld'
  <2>1. NewRow(r).event \in EventIds
    BY EventOfRow, AttachmentsAssumption DEF IInv, Places
  <2>2. rows' \subseteq rows \cup {NewRow(r)}
    BY DEF WriteFile, WriteFails, InsertRow, SaveReplays
  <2>3. \A a \in rows' : a.event \in EventIds
    BY <2>1, <2>2 DEF IInv, Places
  <2>4. EventsIn(listed)' = EventsIn(listed)
    BY <1>1 DEF EventsIn
  <2>5. \A e : Live(e)' <=> Live(e)
    BY <1>1 DEF Live
  <2>6. ListIsOld'
    BY <1>1, <2>4, <2>5 DEF IInv, ListIsOld
  <2> QED BY <1>1, <2>3, <2>6 DEF IInv, Places
<1>3. \A f : Kept(f) => Kept(f)'
  BY <1>1 DEF Kept
<1>4. CASE WriteFails(r) \/ SaveReplays(r)
  <2>1. /\ files' = files /\ rows' = rows
        /\ \A q \in Requests : rpc'[q] = "insert" => rpc[q] = "insert" /\ todo'[q] = todo[q]
    BY <1>4 DEF WriteFails, SaveReplays, NextAttachment, IInv, Places
  <2>2. \A f \in files \ files' : FALSE
    BY <2>1
  <2> QED BY <1>1, <1>2, <2>1, <2>2, KeepsFiles
<1>5. CASE WriteFile(r) \/ InsertRow(r)
  <2>1. PICK new, f : new = NewRow(r) /\ f = File(NewRow(r))
    OBVIOUS
  <2>2. f = File(new)
    BY <2>1
  <2>3. Kept(f)'
    <3>1. CASE WriteFile(r)
      BY <2>1, <3>1 DEF WriteFile, Kept
    <3>2. CASE InsertRow(r)
      <4>1. Kept(f)
        BY <2>1, <3>2 DEF InsertRow, IInv, FileFirst
      <4> QED BY <4>1, <1>3
    <3> QED BY <1>5, <3>1, <3>2
  <2>4. /\ rows' \subseteq rows \cup {new}
        /\ \A q \in Requests : q # r => rpc'[q] = rpc[q] /\ todo'[q] = todo[q]
        /\ rpc'[r] = "insert" => todo'[r] = todo[r]
    <3>1. CASE WriteFile(r)
      BY <3>1 DEF WriteFile, IInv, Places
    <3>2. CASE InsertRow(r)
      BY <2>1, <3>2 DEF InsertRow, NextAttachment, IInv, Places
    <3> QED BY <1>5, <3>1, <3>2
  <2>5. RowsHaveFiles'
    <3>1. \A a \in rows' \ rows : a = new
      BY <2>4
    <3>2. \A a \in rows' \ rows : \E g : g = File(a) /\ Kept(g)'
      BY <2>2, <2>3, <3>1
    <3> QED BY <1>3, <3>2, RowsStayKept DEF IInv
  <2>6. ASSUME NEW q \in Requests, rpc'[q] = "insert"
        PROVE  Kept(File(NewRow(q)))'
    <3>1. CASE q = r
      BY <1>1, <2>1, <2>3, <2>4, <2>6, <3>1, SameRow
    <3>2. CASE q # r
      <4>1. PICK g : g = File(NewRow(q))
        OBVIOUS
      <4>2. rpc[q] = "insert" /\ todo'[q] = todo[q]
        BY <2>4, <2>6, <3>2
      <4>3. Kept(g)
        BY <4>1, <4>2 DEF IInv, FileFirst
      <4> QED BY <1>1, <1>3, <4>1, <4>2, <4>3, SameRow
    <3> QED BY <3>1, <3>2
  <2>7. FileFirst'
    BY <2>6 DEF FileFirst
  <2> QED BY <1>2, <2>5, <2>7 DEF IInv
<1> QED BY <1>4, <1>5

LEMMA RemovedStayGone ==
  ASSUME NEW K \in SUBSET Keys, RemoveIssues(K), Places, ListIsOld, UNCHANGED <<listed, suspects, revived>>
  PROVE  issues' \in [Keys -> EventIds \cup {NoRow}] /\ ListIsOld'
<1>1. EventsIn(listed)' = EventsIn(listed)
  BY DEF EventsIn
<1> QED BY <1>1, AttachmentsAssumption DEF RemoveIssues, Places, ListIsOld, Live

(* The cleaner, the operator and the crash.                                *)
LEMMA OtherSteps ==
  ASSUME IInv, Cleaner \/ (\E K \in SUBSET Keys : DeleteProject(K)) \/ Crash
  PROVE  IInv'
<1>1. ASSUME NEW K \in SUBSET Keys, DeleteProject(K) \/ Expire(K) PROVE IInv'
  <2>1. RemoveIssues(K) /\ UNCHANGED <<files, rows, rpc, body, todo, listed, suspects, revived>>
    BY <1>1 DEF DeleteProject, Expire, request, cleaner
  <2>2. Places' /\ ListIsOld'
    BY <2>1, RemovedStayGone DEF IInv, Places
  <2>3. \A f \in files \ files' : FALSE
    BY <2>1
  <2> QED BY <2>1, <2>2, <2>3, KeepsFiles
<1>2. ASSUME NEW found \in SUBSET Orphans, Listing(found) PROVE IInv'
  <2>1. /\ UNCHANGED <<files, rows, rpc, body, todo, issues, revived>>
        /\ listed' = found /\ suspects' = suspects \cup EventsIn(found)
    BY <1>2 DEF Listing, request
  <2>2. EventsIn(listed)' = EventsIn(found)
    BY <2>1 DEF EventsIn
  <2>3. \A e \in EventsIn(found) : e \in EventIds /\ ~Live(e)
    BY DEF EventsIn, Orphans, IInv, Places
  <2>4. \A e : Live(e)' <=> Live(e)
    BY <2>1 DEF Live
  <2>5. ListIsOld'
    BY <2>1, <2>2, <2>3, <2>4 DEF IInv, ListIsOld
  <2>6. Places'
    BY <2>1 DEF IInv, Places
  <2>7. \A f \in files \ files' : FALSE
    BY <2>1
  <2> QED BY <2>1, <2>5, <2>6, <2>7, KeepsFiles
<1>3. CASE DeleteRows \/ DeleteRowsFails
  <2>1. /\ UNCHANGED <<files, rpc, body, todo, issues, listed, suspects, revived>>
        /\ rows' \subseteq rows
    BY <1>3 DEF DeleteRows, DeleteRowsFails, request
  <2>2. EventsIn(listed)' = EventsIn(listed) /\ \A e : Live(e)' <=> Live(e)
    BY <2>1 DEF EventsIn, Live
  <2>3. ListIsOld'
    BY <2>1, <2>2 DEF IInv, ListIsOld
  <2>4. Places'
    BY <2>1 DEF IInv, Places
  <2>5. \A f \in files \ files' : FALSE
    BY <2>1
  <2> QED BY <2>1, <2>3, <2>4, <2>5, KeepsFiles
<1>4. ASSUME NEW a \in listed, Purge(a) PROVE IInv'
  <2>1. /\ listed' = listed \ {a} /\ revived' = revived \cap EventsIn(listed')
        /\ \E left \in SUBSET Tree(a.event) : files' = files \ (Tree(a.event) \ left)
        /\ UNCHANGED <<issues, rows, rpc, body, todo, suspects>>
    BY <1>4 DEF Purge, request
  <2>2. EventsIn(listed)' = EventsIn(listed') /\ EventsIn(listed') \subseteq EventsIn(listed)
    BY <2>1 DEF EventsIn
  <2>3. \A e : Live(e)' <=> Live(e)
    BY <2>1 DEF Live
  <2>4. Places' /\ ListIsOld'
    BY <2>1, <2>2, <2>3 DEF IInv, Places, ListIsOld
  <2>5. a.event \in suspects
    BY DEF IInv, ListIsOld, EventsIn
  <2>6. \A f \in files \ files' : f \in Tree(a.event)
    BY <2>1
  <2> QED BY <2>1, <2>4, <2>5, <2>6, KeepsFiles
<1>5. CASE Crash
  <2>1. /\ UNCHANGED <<files, rows, body, issues, suspects>> /\ listed' = {}
        /\ DOMAIN todo' = Requests
        /\ rpc' \in [Requests -> {"idle", "done"}]
    BY <1>5 DEF Crash, IInv, Places
  <2>2. EventsIn(listed)' = {}
    BY <2>1 DEF EventsIn
  <2>3. Places' /\ ListIsOld'
    BY <2>1, <2>2 DEF IInv, Places, ListIsOld
  <2>4. \A f \in files \ files' : FALSE
    BY <2>1
  <2> QED BY <2>1, <2>3, <2>4, KeepsFiles
<1>6. List \/ ListFails => \E found \in SUBSET Orphans : Listing(found)
  BY DEF List, ListFails
<1> QED BY <1>1, <1>2, <1>3, <1>4, <1>5, <1>6 DEF Cleaner

LEMMA StepHolds == IInv /\ [Next]_vars => IInv'
<1> SUFFICES ASSUME IInv, [Next]_vars PROVE IInv'
  OBVIOUS
<1>1. ASSUME NEW r \in Requests, Request(r) PROVE IInv'
  BY <1>1, StartsStep, AttachSteps DEF Request
<1>2. CASE Cleaner \/ (\E K \in SUBSET Keys : DeleteProject(K)) \/ Crash
  BY <1>2, OtherSteps
<1>3. CASE UNCHANGED vars
  <2>1. UNCHANGED <<files, rows, rpc, body, todo, issues, listed, suspects, revived>>
    BY <1>3 DEF vars, request, cleaner
  <2>2. Places' /\ ListIsOld'
    BY <2>1 DEF IInv, Places, ListIsOld, EventsIn, Live
  <2>3. \A f \in files \ files' : FALSE
    BY <2>1
  <2> QED BY <2>1, <2>2, <2>3, KeepsFiles
<1> QED BY <1>1, <1>2, <1>3 DEF Next

THEOREM Invariant == Spec => []IInv
BY InitHolds, StepHolds, PTL DEF Spec

(* RowsHaveFiles: a row has its file, whatever fails or crashes, unless    *)
(* the file lies below the directory of an event the cleaner has listed,   *)
(* however the directories of events lie in each other.                    *)
THEOREM FilesComeFirst == Spec => []RowsHaveFiles
<1>1. IInv => RowsHaveFiles
  BY DEF IInv
<1> QED BY <1>1, Invariant, PTL

(* LiveAttachmentsKept: a file goes only on account of an event around it  *)
(* that does not exist, or came back after the cleaner had looked; and no  *)
(* row of an issue that exists is deleted.                                 *)
FilesTaken == \A f \in files \ files' :
                 \E e \in EventsIn(listed) : f \in Tree(e) /\ (~Live(e) \/ e \in revived)
RowsTaken  == \A a \in rows \ rows' : ~Live(a.event)

LEMMA StepTakes == IInv /\ [Next]_vars => [FilesTaken /\ RowsTaken]_vars
<1> SUFFICES ASSUME IInv, Next PROVE FilesTaken /\ RowsTaken
  OBVIOUS
<1>1. ASSUME NEW a \in listed, Purge(a) PROVE FilesTaken /\ RowsTaken
  <2>1. rows' = rows /\ \A f \in files \ files' : f \in Tree(a.event)
    BY <1>1 DEF Purge
  <2>2. a.event \in EventsIn(listed)
    BY DEF EventsIn
  <2>3. ~Live(a.event) \/ a.event \in revived
    BY <2>2 DEF IInv, ListIsOld
  <2>4. FilesTaken
    BY <2>1, <2>2, <2>3 DEF FilesTaken
  <2> QED BY <2>1, <2>4 DEF RowsTaken
<1>2. CASE DeleteRows
  BY <1>2 DEF DeleteRows, Orphans, FilesTaken, RowsTaken
<1>3. CASE files \subseteq files' /\ rows \subseteq rows'
  BY <1>3 DEF FilesTaken, RowsTaken
<1> QED BY <1>1, <1>2, <1>3
       DEF Next, Request, Cleaner, Refuse, Accept, WriteFile, WriteFails, InsertRow, SaveReplays,
           DeleteProject, Expire, List, ListFails, Listing, DeleteRowsFails, Crash

THEOREM LiveAreKept == Spec => LiveAttachmentsKept
<1>1. IInv /\ [Next]_vars
      => [/\ \A f \in files \ files' :
               \E e \in EventsIn(listed) : f \in Tree(e) /\ (~Live(e) \/ e \in revived)
          /\ \A a \in rows \ rows' : ~Live(a.event)]_vars
  BY StepTakes DEF FilesTaken, RowsTaken
<1> QED BY <1>1, Invariant, PTL DEF Spec, LiveAttachmentsKept

(* So an issue whose directory holds no other's and lies in no other's     *)
(* keeps its files while it exists, unless it came back under its id while *)
(* it was on the list.                                                     *)
OwnFilesKept(e) == [][Live(e) /\ e \notin revived => files \cap Tree(e) \subseteq files']_vars

THEOREM OwnFilesAreKept ==
  ASSUME NEW e \in EventIds, \A d \in EventIds \ {e} : Tree(d) \cap Tree(e) = {}
  PROVE  Spec => OwnFilesKept(e)
<1>1. IInv /\ [Next]_vars => [Live(e) /\ e \notin revived => files \cap Tree(e) \subseteq files']_vars
  <2> SUFFICES ASSUME IInv, [Next]_vars, Live(e), e \notin revived, NEW f \in files, f \in Tree(e)
               PROVE  f \in files'
    BY DEF vars
  <2>1. CASE UNCHANGED vars
    BY <2>1 DEF vars
  <2>2. CASE f \notin files'
    <3>1. PICK d \in EventsIn(listed) : f \in Tree(d) /\ (~Live(d) \/ d \in revived)
      BY <2>1, <2>2, StepTakes DEF FilesTaken, vars
    <3>2. d \in EventIds /\ d # e
      BY <3>1 DEF IInv, ListIsOld
    <3> QED BY <3>1, <3>2
  <2> QED BY <2>1, <2>2
<1> QED BY <1>1, Invariant, PTL DEF Spec, OwnFilesKept
=============================================================================
