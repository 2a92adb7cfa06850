------------------------------ MODULE MCDrafts ------------------------------
(***************************************************************************)
(* Every envelope of up to MaxItems of the Parts is put together once, for *)
(* the parsers alone.                                                      *)
(***************************************************************************)
EXTENDS EnvelopeFormat

CONSTANTS Parts, MaxItems

ASSUME DraftAssumption == Parts \subseteq Item /\ MaxItems \in Nat

VARIABLE draft     \* the items of an envelope that only the parsers see

DraftInit == draft = <<>>

Draft   == Len(draft) < MaxItems /\ \E part \in Parts : draft' = Append(draft, part)
Discard == draft # <<>> /\ draft' = <<>>

DraftNext == Draft \/ Discard
DraftSpec == DraftInit /\ [][DraftNext]_draft

(* ParseEnvelope returns the first event item, and invents none.           *)
EventRecognised == FindsFirstEvent(draft) /\ RejectsEventless(draft)

(* extractAndSaveAttachments saves what was attached, and no more, and     *)
(* extractAndSaveReplays the chunks of replays.                            *)
ItemsKept == KeepsItems(draft, AttachmentTypes) /\ KeepsItems(draft, ReplayTypes)

(* README.md:250: attachments are stored as they were sent.  The code does *)
(* not keep this.                                                          *)
AttachmentsWhole == StoresAttachments(draft)
=============================================================================
