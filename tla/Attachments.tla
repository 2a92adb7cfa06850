---------------------------- MODULE Attachments ----------------------------
(***************************************************************************)
(* Attachments and replays: files on disk and rows in the database, which  *)
(* no transaction covers.  Envelope requests save the event, then each     *)
(* attachment (file first, then row), then the replay chunks; the hourly   *)
(* cleaner deletes expired issues, lists the attachments whose event is    *)
(* gone, deletes their rows and removes their directories; the operator    *)
(* deletes projects.  All of it interleaves, and the process may die.      *)
(*                                                                         *)
(* The directory of an event is filepath.Join("data", "attachments", id),  *)
(* and Join cleans the id, which a client chose: "./a" and "a" share one   *)
(* directory, and that of "a" lies in that of ".".  So PathOf and Tree are *)
(* any functions.  Ids that lead out of data/attachments ("..") are left   *)
(* out.                                                                    *)
(***************************************************************************)
EXTENDS EnvelopeFormat, FiniteSets

CONSTANTS
  Requests,     \* POST .../envelope/ requests, one goroutine each
  Keys,         \* identities of issues, see IssueStore
  KeyOf,        \* KeyOf[t]: the issue of an event payload with text t
  EventIds,     \* ids in envelope headers
  Envelopes,    \* what SDKs may send: an id and items
  Unnamed,      \* the file name "attachment"
  NoRow,
  Paths,        \* files below data/attachments
  PathOf(_, _), \* PathOf(e, n): the file that the name n has for event e
  Tree(_)       \* Tree(e): the files below the directory of e

FileNames == Names \cup {Unnamed}

ASSUME AttachmentsAssumption ==
  /\ KeyOf \in [Texts -> Keys]
  /\ Envelopes \subseteq [id : EventIds, items : Seq(Item)]
  /\ NoRow \notin EventIds /\ Unnamed \notin Names
  /\ \A e \in EventIds : /\ Tree(e) \subseteq Paths
                         /\ \A n \in FileNames : PathOf(e, n) \in Tree(e)

VARIABLES
  issues,    \* the id of each issue's row in events, or NoRow
  rows,      \* the table attachments
  files,     \* the files that exist below data/attachments
  replays,   \* data/replays/<name>.jsonl
  rpc,       \* where each request is
  body,      \* its envelope
  todo,      \* its attachments that are not saved yet
  cpc,       \* where the cleaner is
  listed,    \* the rows it found, as far as it has not removed the directories
  revived,   \* history: listed events that got a row in events since
  suspects   \* history: events that were ever listed

request == <<rpc, body, todo>>
cleaner == <<cpc, listed, suspects>>
vars    == <<issues, rows, files, replays, request, cleaner, revived>>

(* The id of a row is a fresh UUID: here, which attachment of which request. *)
Row == [id : Requests \X Nat, event : EventIds, name : FileNames]
EventsIn(R) == {a.event : a \in R}

Init ==
  /\ issues = [k \in Keys |-> NoRow]
  /\ rows = {} /\ files = {} /\ replays = {}
  /\ rpc = [r \in Requests |-> "idle"]
  /\ body \in [Requests -> Envelopes]
  /\ todo = [r \in Requests |-> <<>>]
  /\ cpc = "sleep" /\ listed = {} /\ suspects = {} /\ revived = {}

Live(e) == \E k \in Keys : issues[k] = e

-----------------------------------------------------------------------------
(* envelopeHandler                                                         *)

Rest(r) == Wire(body[r].items)

(* An envelope that ParseEnvelope refuses is answered, and that is all.    *)
Refuse(r) ==
  /\ rpc[r] = "idle" /\ Parse(Rest(r)) = <<>>
  /\ rpc' = [rpc EXCEPT ![r] = "done"]
  /\ UNCHANGED <<issues, rows, files, replays, body, todo, cleaner, revived>>

(* saveEvent inserts a row for a new issue only; a transaction, a payload  *)
(* that is no event, a taken id or a failing statement leave events alone. *)
Accept(r) ==
  LET e == body[r].id
      p == Parse(Rest(r))
  IN  /\ rpc[r] = "idle" /\ p # <<>>
      /\ rpc' = [rpc EXCEPT ![r] = "attach"]
      /\ todo' = [todo EXCEPT ![r] = AttachmentsIn(Rest(r))]
      /\ \/ /\ p[1].type # "transaction" /\ p[1].payload.json
            /\ issues[KeyOf[p[1].payload.text]] = NoRow /\ ~Live(e)
            /\ issues' = [issues EXCEPT ![KeyOf[p[1].payload.text]] = e]
            /\ revived' = revived \cup (EventsIn(listed) \cap {e})
         \/ UNCHANGED <<issues, revived>>
      /\ UNCHANGED <<rows, files, replays, body, cleaner>>

(* Mutant: the name of the item as it comes, which may be missing.         *)
FileName_asGiven(name) == name
FileName(name) == IF name = NoName THEN Unnamed ELSE name
NewRow(r) == [id |-> <<r, Len(todo[r])>>, event |-> body[r].id,
              name |-> FileName(Head(todo[r]).name)]
File(a) == PathOf(a.event, a.name)
NextAttachment(r) == todo' = [todo EXCEPT ![r] = Tail(@)]

(* os.WriteFile replaces a file of the same name.                          *)
WriteFile(r) ==
  /\ rpc[r] = "attach" /\ todo[r] # <<>>
  /\ files' = files \cup {File(NewRow(r))}
  /\ rpc' = [rpc EXCEPT ![r] = "insert"]
  /\ UNCHANGED <<issues, rows, replays, body, todo, cleaner, revived>>

(* Mutant: the error of os.WriteFile is ignored.                           *)
WriteFails_ignored(r) ==
  /\ rpc[r] = "attach" /\ todo[r] # <<>>
  /\ rpc' = [rpc EXCEPT ![r] = "insert"]
  /\ UNCHANGED <<issues, rows, files, replays, body, todo, cleaner, revived>>

(* An error of one attachment is logged; the next one is tried.            *)
WriteFails(r) ==
  /\ rpc[r] = "attach" /\ todo[r] # <<>>
  /\ NextAttachment(r)
  /\ UNCHANGED <<issues, rows, files, replays, rpc, body, cleaner, revived>>

InsertRow(r) ==
  /\ rpc[r] = "insert"
  /\ rows' \in {rows, rows \cup {NewRow(r)}}
  /\ NextAttachment(r)
  /\ rpc' = [rpc EXCEPT ![r] = "attach"]
  /\ UNCHANGED <<issues, files, replays, body, cleaner, revived>>

(* Replay chunks go to the file of the replay, else of the event.          *)
ReplayFiles(r) ==
  {IF name = NoName THEN body[r].id ELSE name :
     name \in {ReplaysIn(Rest(r))[n].name : n \in DOMAIN ReplaysIn(Rest(r))}}

SaveReplays(r) ==
  /\ rpc[r] = "attach" /\ todo[r] = <<>>
  /\ \E written \in SUBSET ReplayFiles(r) : replays' = replays \cup written
  /\ rpc' = [rpc EXCEPT ![r] = "done"]
  /\ UNCHANGED <<issues, rows, files, body, todo, cleaner, revived>>

-----------------------------------------------------------------------------
(* The cleaner, and the operator's deletion of a project                   *)

RemoveIssues(K) == issues' = [k \in Keys |-> IF k \in K THEN NoRow ELSE issues[k]]

DeleteProject(K) ==
  /\ \E k \in K : issues[k] # NoRow
  /\ RemoveIssues(K)
  /\ UNCHANGED <<rows, files, replays, request, cleaner, revived>>

(* DELETE FROM events: any issues may have expired, or the statement fails.*)
Expire(K) ==
  /\ cpc = "sleep"
  /\ RemoveIssues(K)
  /\ cpc' = "list"
  /\ UNCHANGED <<rows, files, replays, request, listed, suspects, revived>>

(* The attachments whose event has no row; the mutant takes them all.      *)
Orphans_all == rows
Orphans == {a \in rows : ~Live(a.event)}

(* One entry for each row, so that an event with two attachments is there  *)
(* twice.                                                                  *)
Listing(found) ==
  /\ cpc = "list"
  /\ listed' = found
  /\ suspects' = suspects \cup EventsIn(found)
  /\ cpc' = IF found = {} THEN "sleep" ELSE "delete"
  /\ UNCHANGED <<issues, rows, files, replays, request, revived>>

List == Listing(Orphans)

(* The query fails, or breaks off after some rows, which nobody looks at.  *)
ListFails == \E found \in SUBSET Orphans : Listing(found)

(* The subquery is evaluated again; the mutant deletes nothing.            *)
DeleteRows_never ==
  /\ cpc = "delete"
  /\ cpc' = "purge"
  /\ UNCHANGED <<issues, rows, files, replays, request, listed, suspects, revived>>

DeleteRows ==
  /\ cpc = "delete"
  /\ rows' = rows \ Orphans
  /\ cpc' = "purge"
  /\ UNCHANGED <<issues, files, replays, request, listed, suspects, revived>>

(* Its error is ignored.                                                   *)
DeleteRowsFails ==
  /\ cpc = "delete"
  /\ cpc' = "purge"
  /\ UNCHANGED <<issues, rows, files, replays, request, listed, suspects, revived>>

(* os.RemoveAll of one directory, once for each entry of the list.  Its    *)
(* error, and what it left in place, is ignored.                           *)
Purge(a) ==
  /\ cpc = "purge" /\ a \in listed
  /\ \E left \in SUBSET Tree(a.event) : files' = files \ (Tree(a.event) \ left)
  /\ listed' = listed \ {a}
  /\ revived' = revived \cap EventsIn(listed')
  /\ cpc' = IF listed' = {} THEN "sleep" ELSE "purge"
  /\ UNCHANGED <<issues, rows, replays, request, suspects>>

(* The process dies and is started again (docker-compose.yml:11).          *)
Crash ==
  /\ cpc # "sleep" \/ \E r \in Requests : rpc[r] \in {"attach", "insert"}
  /\ rpc' = [r \in Requests |-> IF rpc[r] \in {"attach", "insert"} THEN "done" ELSE rpc[r]]
  /\ todo' = [r \in Requests |-> <<>>]
  /\ cpc' = "sleep" /\ listed' = {} /\ revived' = {}
  /\ UNCHANGED <<issues, rows, files, replays, body, suspects>>

-----------------------------------------------------------------------------
Request(r) == Refuse(r) \/ Accept(r) \/ WriteFile(r) \/ WriteFails(r)
              \/ InsertRow(r) \/ SaveReplays(r)
Cleaner == (\E K \in SUBSET Keys : Expire(K)) \/ List \/ ListFails \/ DeleteRows
           \/ DeleteRowsFails \/ (\E a \in listed : Purge(a))

Next == \/ \E r \in Requests : Request(r)
        \/ Cleaner
        \/ \E K \in SUBSET Keys : DeleteProject(K)
        \/ Crash

Spec == Init /\ [][Next]_vars

(* The ticker wakes the cleaner every hour; a statement that is tried      *)
(* again each time succeeds in the end, and so does a process that is      *)
(* started again get through a whole round.                                *)
Fairness == /\ WF_vars(Cleaner)
            /\ SF_vars(List) /\ SF_vars(DeleteRows)

FairSpec == Spec /\ Fairness

-----------------------------------------------------------------------------
(* Properties                                                              *)

TypeOK ==
  /\ issues \in [Keys -> EventIds \cup {NoRow}]
  /\ rows \subseteq Row /\ files \subseteq Paths
  /\ replays \subseteq Names \cup EventIds
  /\ rpc \in [Requests -> {"idle", "attach", "insert", "done"}]
  /\ body \in [Requests -> Envelopes]
  /\ cpc \in {"sleep", "list", "delete", "purge"}
  /\ listed \subseteq Row /\ EventsIn(listed) \subseteq suspects
  /\ suspects \subseteq EventIds /\ revived \subseteq EventsIn(listed)

(* A file is written before its row, and an error skips the row: a row has *)
(* its file, whatever fails or crashes, unless the file lies below the     *)
(* directory of an event that the cleaner had on its list: the row's own   *)
(* event, or one whose id cleans to a directory around it.                 *)
RowsHaveFiles ==
  \A a \in rows : File(a) \in files \/ \E e \in suspects : File(a) \in Tree(e)

(* The cleaner works with three statements, and a listing that may be old  *)
(* and names an event once per row: still, a file is removed only on       *)
(* account of an event whose directory holds it and whose issue does not   *)
(* exist, or was gone when the cleaner looked and then came back under its *)
(* id.  So an issue whose directory is its own keeps its files.  No row of *)
(* an issue that exists is ever deleted.                                   *)
LiveAttachmentsKept ==
  [][/\ \A f \in files \ files' :
          \E e \in EventsIn(listed) : f \in Tree(e) /\ (~Live(e) \/ e \in revived)
     /\ \A a \in rows \ rows' : ~Live(a.event)]_vars

(* Rows of events that are gone do not pile up, in spite of failing        *)
(* queries and of crashes.                                                 *)
OrphanRowsGo ==
  \A e \in EventIds, n \in FileNames :
     (\E a \in Orphans : a.event = e /\ a.name = n)
       ~> \A a \in Orphans : ~(a.event = e /\ a.name = n)

-----------------------------------------------------------------------------
(* What the documents say and the code does not do                         *)

(* README.md:250: attachments are stored and displayed.  The page of an    *)
(* issue shows the attachments of the id of its row, so the row of an      *)
(* attachment that came with an occurrence of the issue has that id.       *)
IssueOf(r) == issues[KeyOf[Parse(Rest(r))[1].payload.text]]
AttachmentsShown ==
  [][\A r \in Requests :
        (rpc[r] = "insert" /\ rows' # rows /\ Parse(Rest(r))[1].type = "event"
         /\ IssueOf(r) # NoRow /\ rpc'[r] = "attach")
        => IssueOf(r) = body[r].id]_vars

(* README.md:242: session recordings are supported: an envelope that holds *)
(* replay chunks is not answered before it has reached the code that saves *)
(* them.                                                                   *)
ReplaysStored ==
  [][\A r \in Requests : rpc[r] = "idle" /\ rpc'[r] = "done" => ReplayFiles(r) = {}]_vars

(* README.md:237: "Automated cleanup for ... attachments, and replays".    *)
FilesGo ==
  \A e \in EventIds, n \in FileNames :
     PathOf(e, n) \in files /\ ~Live(e) ~> PathOf(e, n) \notin files \/ Live(e)
ReplaysGo ==
  \A name \in Names : name \in replays ~> name \notin replays
=============================================================================
