--------------------------- MODULE EnvelopeFormat ---------------------------
(***************************************************************************)
(* The wire format of Sentry envelopes and how the code takes it apart:    *)
(* ParseEnvelope, extractAndSaveAttachments and extractAndSaveReplays, all *)
(* on the non-empty lines of the body (SplitEnvelopeLines).                *)
(*                                                                         *)
(* A line is what the parsers can tell of it.  The envelope header, the    *)
(* first line, is kept apart: it holds the event id, and "rest" below is   *)
(* the sequence of the lines after it.                                     *)
(***************************************************************************)
EXTENDS Naturals, Sequences, FiniteSets, SequencesExt

CONSTANTS
  Texts,      \* contents of lines
  Names,      \* values of "filename" or "replay_id"
  NoName      \* an item header without one

Types == {"", "event", "error", "transaction", "attachment",
          "replay_event", "replay_recording", "session"}
EventTypes  == {"", "event", "error", "transaction"}
ReplayTypes == {"replay_event", "replay_recording"}
AttachmentTypes == {"attachment"}

(* json: it is a JSON object; type and name: fields of that object, if     *)
(* any; message: it has a "message" that is not empty.                     *)
Line == {line \in [json : BOOLEAN, type : Types, name : Names \cup {NoName},
                   message : BOOLEAN, text : Texts] :
           line.json \/ (line.type = "" /\ line.name = NoName /\ ~line.message)}

(* What an SDK puts into an envelope: a payload has as many lines as it    *)
(* has line breaks in it, and none if it is empty.                         *)
Item == [type : Types, name : Names \cup {NoName}, payload : Seq(Line)]

ASSUME EnvelopeAssumption == NoName \notin Names /\ Texts # {}

HeaderLine(item, text) ==
  [json |-> TRUE, type |-> item.type, name |-> item.name, message |-> FALSE, text |-> text]

Wire(items) ==
  FlattenSeq([n \in DOMAIN items |->
    <<HeaderLine(items[n], CHOOSE t \in Texts : TRUE)>> \o items[n].payload])

-----------------------------------------------------------------------------
(* for i := 1; i+1 < len(lines); i += 2, skipping what is not JSON.        *)
Pairs_everyLine(rest) == {i \in 1..(Len(rest) - 1) : rest[i].json}     \* mutant: i++
Pairs_pastEnd(rest) == {i \in 1..(Len(rest) - 2) : i % 2 = 1 /\ rest[i].json} \* mutant
Pairs(rest) == {i \in 1..(Len(rest) - 1) : i % 2 = 1 /\ rest[i].json}

(* The first item of an event type; without one, the first line at all     *)
(* with a message; empty if there is neither.  The mutant tries the lines  *)
(* first.                                                                  *)
Found(rest) == {i \in Pairs(rest) : rest[i].type \in EventTypes}
Loose(rest) == {i \in DOMAIN rest : rest[i].json /\ rest[i].message}

Parse_looseFirst(rest) ==
  IF Loose(rest) # {} THEN <<[type |-> "event", payload |-> rest[Min(Loose(rest))]]>>
  ELSE IF Found(rest) # {} THEN <<[type |-> rest[Min(Found(rest))].type,
                                   payload |-> rest[Min(Found(rest)) + 1]]>>
  ELSE <<>>

Parse(rest) ==
  IF Found(rest) # {} THEN <<[type |-> rest[Min(Found(rest))].type,
                              payload |-> rest[Min(Found(rest)) + 1]]>>
  ELSE IF Loose(rest) # {} THEN <<[type |-> "event", payload |-> rest[Min(Loose(rest))]]>>
  ELSE <<>>

(* The items of some types, in their order, with the line after each: what *)
(* the loop over the pairs has appended when it has passed line i.         *)
Wanted(rest, types) == {i \in Pairs(rest) : rest[i].type \in types}

Taken(rest, types) ==
  LET taken[i \in 0..Len(rest)] ==
        IF i = 0 THEN <<>>
        ELSE IF i \in Wanted(rest, types)
        THEN Append(taken[i - 1], [name |-> rest[i].name, data |-> rest[i + 1]])
        ELSE taken[i - 1]
  IN  taken[Len(rest)]

AttachmentsIn(rest) == Taken(rest, AttachmentTypes)
ReplaysIn(rest)     == Taken(rest, ReplayTypes)

-----------------------------------------------------------------------------
(* Properties of the parsers, against the items that an SDK has put in     *)

Single(items, n) == \A m \in 1..n : Len(items[m].payload) = 1

(* If no payload up to the first event item contains a line break, that    *)
(* item is what ParseEnvelope returns, whatever follows it.                *)
FindsFirstEvent(items) ==
  \A n \in DOMAIN items :
     /\ Single(items, n) /\ items[n].type \in EventTypes
     /\ \A m \in 1..(n - 1) : items[m].type \notin EventTypes
     => Parse(Wire(items)) = <<[type |-> items[n].type, payload |-> items[n].payload[1]]>>

(* If no payload contains a line break, an envelope without an event item  *)
(* is taken for an event only for the message in one of its payloads.      *)
RejectsEventless(items) ==
  Single(items, Len(items)) /\ (\A n \in DOMAIN items : items[n].type \notin EventTypes)
  => (Parse(Wire(items)) = <<>> <=>
        \A n \in DOMAIN items : ~items[n].payload[1].message)

(* The items of some types that an SDK has put in, each with its rank.     *)
Sent(items, types) == {n \in DOMAIN items : items[n].type \in types}
Rank(items, n, types) == Cardinality({m \in Sent(items, types) : m <= n})

(* Exactly these are saved, in their order, with their names and payloads. *)
SavesAll(items, types) ==
  LET saved == Taken(Wire(items), types)
  IN  /\ Len(saved) = Cardinality(Sent(items, types))
      /\ \A n \in Sent(items, types) :
           /\ saved[Rank(items, n, types)].name = items[n].name
           /\ <<saved[Rank(items, n, types)].data>> = items[n].payload

(* If no payload contains a line break, all items of the types are saved.  *)
KeepsItems(items, types) == Single(items, Len(items)) => SavesAll(items, types)

(* README.md:250: "screenshots, logs, and other files" are stored, so also *)
(* those with line breaks in them.                                         *)
StoresAttachments(items) ==
  (\A n \in DOMAIN items : items[n].payload # <<>>) => SavesAll(items, AttachmentTypes)
=============================================================================
