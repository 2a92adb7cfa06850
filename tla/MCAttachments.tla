--------------------------- MODULE MCAttachments ---------------------------
(***************************************************************************)
(* Two requests with two envelopes of the same event id or of two, on one  *)
(* issue: an event with two attachments, another with one, an envelope     *)
(* with only a replay, and a transaction that carries an attachment.       *)
(* Beside them, before anything is sent, the drafts of MCDrafts.           *)
(***************************************************************************)
EXTENDS Attachments, MCDrafts

CONSTANTS r1, r2, a, b, k, log, shot, chunk, report, trace

MCTexts == {shot, report, trace}
MCKeyOf == [t \in MCTexts |-> k]

(* a is a plain id; b is one like ".", whose directory is around all.      *)
MCPaths        == EventIds \X FileNames
MCPathOf(e, n) == <<e, n>>
MCTree(e)      == IF e = b THEN MCPaths ELSE {e} \X FileNames

(* Bytes; JSON without a message; JSON with one.                           *)
L(j, y, m, t) == [json |-> j, type |-> y, name |-> NoName, message |-> m, text |-> t]
Bytes(t)   == L(FALSE, "", FALSE, t)
Object(t)  == L(TRUE, "", FALSE, t)
Message(t) == L(TRUE, "", TRUE, t)
Part(y, n, p) == [type |-> y, name |-> n, payload |-> p]

Report == Part("event", NoName, <<Object(report)>>)
Shot   == Part("attachment", NoName, <<Bytes(shot)>>)
Log    == Part("attachment", log, <<Bytes(shot)>>)
Chunk  == Part("replay_recording", chunk, <<Bytes(shot)>>)
Span   == Part("transaction", NoName, <<Object(trace)>>)

MCEnvelopes == {[id |-> a, items |-> <<Report, Shot, Log>>],
                [id |-> a, items |-> <<Report, Shot, Chunk>>],
                [id |-> b, items |-> <<Report, Log>>],
                [id |-> b, items |-> <<Span, Log>>],
                [id |-> b, items |-> <<Chunk>>]}

(* Empty payloads, payloads of one line, and of two.                       *)
MCLines  == {Bytes(shot), Object(trace), Message(report)}
Payloads == {<<>>} \cup {<<l>> : l \in MCLines} \cup {<<l, Bytes(shot)>> : l \in MCLines}
MCParts  == {Part(y, NoName, p) : y \in {"", "event", "attachment", "session"}, p \in Payloads}
              \cup {Part("attachment", log, p) : p \in Payloads}
              \cup {Part("replay_recording", chunk, p) : p \in Payloads}

-----------------------------------------------------------------------------
(* One of the initial states is enough to start from.                      *)
Unsent == /\ \A r \in Requests : rpc[r] = "idle" /\ body[r] = CHOOSE e \in Envelopes : TRUE
          /\ issues = [key \in Keys |-> NoRow] /\ cpc = "sleep"

MCNext == \/ Unsent /\ DraftNext /\ UNCHANGED vars
          \/ draft = <<>> /\ Next /\ UNCHANGED draft

MCInit == Init /\ DraftInit

MCSpec == /\ MCInit
          /\ [][MCNext]_<<vars, draft>>
          /\ Fairness
=============================================================================
