----------------------------- MODULE SelfUpdate -----------------------------
(***************************************************************************)
(* pocketsentry -checkupd: a process that downloads the latest binary to a *)
(* temporary file beside its own and renames it over that.  Several may    *)
(* run at once, next to a server that runs from the same binary; each may  *)
(* be killed at any point, every call may fail, and the machine may go     *)
(* down.                                                                   *)
(*                                                                         *)
(* Names are apart from files: a rename moves a name, and who has a file   *)
(* open writes to it under whatever name.  On Windows a file that runs or  *)
(* is open can be neither removed nor replaced, and one that runs can      *)
(* still be renamed.                                                       *)
(*                                                                         *)
(* Nothing is synced: the system takes a write and puts it on the disk     *)
(* some time later, and one that it cannot put there after all is reported *)
(* by Close at best, whose error is ignored.  If the machine goes down     *)
(* before, any part of a file may be lost, and the last renames and        *)
(* removals with it; they reach the disk in their order.  A disk that      *)
(* loses what it has, or a write it took after Close, is left out.         *)
(***************************************************************************)
EXTENDS Naturals

CONSTANTS
  Updaters,   \* processes started with -checkupd
  Files,      \* files, whatever their names
  First,      \* the file of the installed binary
  None

Parts   == 1..2                       \* a binary takes two writes, a page one
Names   == {"exe", "tmp", "old"}      \* exePath, tmpPath, oldPath
Content == [Parts -> {"hole", "old", "new", "page", "lost"}]

ASSUME FilesAssumption == First \in Files /\ None \notin Files

VARIABLES
  windows,    \* runtime.GOOS == "windows"
  name,       \* the file under each name, or None
  content,    \* what is in each file
  used,       \* the files that were ever created
  upc,        \* where each updater is
  image,      \* the file it runs from
  body,       \* what the server of the download answers with
  part,       \* the next part it writes
  fd,         \* the file it has open, or None
  server,     \* the file the server runs from, or None
  dirty,      \* the files that are not all on the disk yet
  onDisk,     \* the file under each name as the disk has it
  overlapped, \* history: two updaters were at work at the same time
  hasty       \* history: an update was started from a dirty file

disk    == <<name, content, used>>
pending == <<dirty, onDisk>>
updater == <<upc, image, body, part, fd>>
uhistory == <<overlapped, hasty>>
updateVars == <<windows, disk, pending, updater, server, uhistory>>

Whole(f) == f # None /\ (content[f] = [n \in Parts |-> "old"]
                         \/ content[f] = [n \in Parts |-> "new"])
Spoilt(f) == f # None /\ \E n \in Parts : content[f][n] \in {"page", "lost"}

UpdateInit ==
  /\ windows \in BOOLEAN
  /\ name = [n \in Names |-> IF n = "exe" THEN First ELSE None]
  /\ content = [f \in Files |-> [n \in Parts |-> IF f = First THEN "old" ELSE "hole"]]
  /\ used = {First}
  /\ upc = [u \in Updaters |-> "idle"]
  /\ image = [u \in Updaters |-> None]
  /\ body = [u \in Updaters |-> "new"]
  /\ part = [u \in Updaters |-> 1]
  /\ fd = [u \in Updaters |-> None]
  /\ server = None
  /\ dirty = {} /\ onDisk = name
  /\ overlapped = FALSE /\ hasty = FALSE

AtWork == {u \in Updaters : upc[u] \notin {"idle", "done"}}

(* What Windows refuses to remove or to replace.                           *)
Runs(f) == server = f \/ \E u \in AtWork : image[u] = f
Open(f) == \E u \in AtWork : fd[u] = f
Locked(f) == windows /\ f # None /\ (Runs(f) \/ Open(f))

(* What was copied, and how far, matters no longer.                        *)
Release(u) == /\ fd' = [fd EXCEPT ![u] = None]
              /\ body' = [body EXCEPT ![u] = "new"]
              /\ part' = [part EXCEPT ![u] = 1]

Finish(u) == /\ upc' = [upc EXCEPT ![u] = "done"]
             /\ image' = [image EXCEPT ![u] = None]
             /\ Release(u)

(* The system had taken these parts of the file, and cannot keep them.     *)
Losing(f, lost) ==
  [n \in Parts |-> IF n \in lost /\ content[f][n] # "hole" THEN "lost" ELSE content[f][n]]

(* The end of the open file: tmpFile.Close(), whose error is ignored.  It  *)
(* would be that of a write that was put off.                              *)
CloseTemp(u) ==
  /\ Release(u)
  /\ \E lost \in SUBSET Parts :
        content' = [f \in Files |-> IF f = fd[u] /\ f \in dirty THEN Losing(f, lost)
                                   ELSE content[f]]
  /\ UNCHANGED <<name, used, pending>>

Remove(n) == name' = IF Locked(name[n]) THEN name ELSE [name EXCEPT ![n] = None]

-----------------------------------------------------------------------------
(* CheckUpdate                                                             *)

(* What the system starts: a whole binary that nobody is writing to.       *)
Starts(f) == Whole(f) /\ ~Open(f)

(* Started from a binary that runs; GitHub has a newer release, the user   *)
(* agrees.  Until here nothing has changed.                                *)
Agree(u) ==
  /\ upc[u] = "idle" /\ Starts(name["exe"])
  /\ upc' = [upc EXCEPT ![u] = "open"]
  /\ image' = [image EXCEPT ![u] = name["exe"]]
  /\ overlapped' = (overlapped \/ AtWork # {})
  /\ hasty' = (hasty \/ name["exe"] \in dirty)
  /\ UNCHANGED <<windows, disk, pending, body, part, fd, server>>

(* client.Get does not look at the status: a page is as good as a binary.  *)
(* O_CREATE|O_TRUNC: a file that an earlier updater left is used again.    *)
OpenTemp(u, f, answer) ==
  /\ upc[u] = "open"
  /\ IF name["tmp"] = None THEN f \in Files \ used ELSE f = name["tmp"]
  /\ name' = [name EXCEPT !["tmp"] = f]
  /\ used' = used \cup {f}
  /\ content' = [content EXCEPT ![f] = [n \in Parts |-> "hole"]]
  /\ dirty' = dirty \cup {f}
  /\ fd' = [fd EXCEPT ![u] = f]
  /\ body' = [body EXCEPT ![u] = answer]
  /\ part' = [part EXCEPT ![u] = 1]
  /\ upc' = [upc EXCEPT ![u] = "copy"]
  /\ UNCHANGED <<windows, image, server, onDisk, overlapped, hasty>>

(* The request or the open fails.                                          *)
OpenFails(u) ==
  /\ upc[u] = "open"
  /\ Finish(u)
  /\ UNCHANGED <<windows, disk, pending, server, uhistory>>

Complete(u) == part[u] > 2 \/ (body[u] = "page" /\ part[u] > 1)

(* One write of io.Copy.                                                   *)
Copy(u) ==
  /\ upc[u] = "copy" /\ ~Complete(u)
  /\ content' = [content EXCEPT ![fd[u]][part[u]] = body[u]]
  /\ dirty' = dirty \cup {fd[u]}
  /\ part' = [part EXCEPT ![u] = @ + 1]
  /\ UNCHANGED <<windows, name, used, upc, image, body, fd, server, onDisk, uhistory>>

Copied(u) ==
  /\ upc[u] = "copy" /\ Complete(u)
  /\ CloseTemp(u)
  /\ upc' = [upc EXCEPT ![u] = IF windows THEN "discard" ELSE "replace"]
  /\ UNCHANGED <<windows, image, server, uhistory>>

(* Mutant: the error of io.Copy is not looked at.                          *)
CopyFails_unnoticed(u) ==
  /\ upc[u] = "copy"
  /\ CloseTemp(u)
  /\ upc' = [upc EXCEPT ![u] = IF windows THEN "discard" ELSE "replace"]
  /\ UNCHANGED <<windows, image, server, uhistory>>

(* The connection breaks, or the fifteen seconds of the client are over:   *)
(* the file is closed first, so that it can be removed.                    *)
CopyFails(u) ==
  /\ upc[u] = "copy"
  /\ CloseTemp(u)
  /\ upc' = [upc EXCEPT ![u] = "cleanup"]
  /\ UNCHANGED <<windows, image, server, uhistory>>

(* os.Remove(tmpPath), whose error is ignored.                             *)
RemoveTemp(u) ==
  /\ upc[u] = "cleanup"
  /\ Remove("tmp") \/ UNCHANGED name
  /\ Finish(u)
  /\ UNCHANGED <<windows, content, used, pending, server, uhistory>>

(* Windows: os.Remove(oldPath), whose error is ignored.                    *)
RemoveOld(u) ==
  /\ upc[u] = "discard"
  /\ Remove("old") \/ UNCHANGED name
  /\ upc' = [upc EXCEPT ![u] = "away"]
  /\ UNCHANGED <<windows, content, used, pending, image, body, part, fd, server, uhistory>>

(* Mutant: the wrong one of the two paths.                                 *)
MoveAway_toTemp(u) ==
  /\ upc[u] = "away" /\ name["exe"] # None /\ ~Locked(name["tmp"])
  /\ name' = [name EXCEPT !["exe"] = None, !["tmp"] = name["exe"]]
  /\ upc' = [upc EXCEPT ![u] = "replace"]
  /\ UNCHANGED <<windows, content, used, pending, image, body, part, fd, server, uhistory>>

(* Windows: os.Rename(exePath, oldPath), which replaces what it can.       *)
CanReplace(n) == ~Locked(name[n])
MoveAway(u) ==
  /\ upc[u] = "away" /\ name["exe"] # None /\ CanReplace("old")
  /\ name' = [name EXCEPT !["exe"] = None, !["old"] = name["exe"]]
  /\ upc' = [upc EXCEPT ![u] = "replace"]
  /\ UNCHANGED <<windows, content, used, pending, image, body, part, fd, server, uhistory>>

(* Mutant: the contents are copied into the binary.                        *)
Replace_copies(u) ==
  /\ upc[u] = "replace" /\ name["tmp"] # None /\ name["exe"] # None
  /\ content' = [content EXCEPT ![name["exe"]] = content[name["tmp"]]]
  /\ Finish(u)
  /\ UNCHANGED <<windows, name, used, pending, server, uhistory>>

(* os.Rename(tmpPath, exePath); a file that is open cannot be renamed on   *)
(* Windows.                                                                *)
Replace(u) ==
  /\ upc[u] = "replace" /\ name["tmp"] # None
  /\ CanReplace("exe") /\ ~(windows /\ Open(name["tmp"]))
  /\ name' = [name EXCEPT !["tmp"] = None, !["exe"] = name["tmp"]]
  /\ Finish(u)
  /\ UNCHANGED <<windows, content, used, pending, server, uhistory>>

(* Either rename fails: the temporary file is removed, and that is all.    *)
RenameFails(u) ==
  /\ upc[u] \in {"away", "replace"}
  /\ upc' = [upc EXCEPT ![u] = "cleanup"]
  /\ UNCHANGED <<windows, disk, pending, image, body, part, fd, server, uhistory>>

(* The user closes the window; the system closes the file.                 *)
Kill(u) ==
  /\ u \in AtWork
  /\ upc' = [upc EXCEPT ![u] = "done"]
  /\ image' = [image EXCEPT ![u] = None]
  /\ CloseTemp(u)
  /\ UNCHANGED <<windows, server, uhistory>>

Update(u) ==
  \/ Agree(u) \/ OpenFails(u) \/ Copy(u) \/ Copied(u) \/ CopyFails(u) \/ RemoveTemp(u)
  \/ RemoveOld(u) \/ MoveAway(u) \/ Replace(u) \/ RenameFails(u) \/ Kill(u)
  \/ \E f \in Files, answer \in {"new", "page"} : OpenTemp(u, f, answer)

(* The server is started from the binary, and ends (see Server).           *)
Launch == /\ server = None /\ Starts(name["exe"])
          /\ server' = name["exe"]
          /\ UNCHANGED <<windows, disk, pending, updater, uhistory>>
Leave  == /\ server # None /\ server' = None
          /\ UNCHANGED <<windows, disk, pending, updater, uhistory>>

-----------------------------------------------------------------------------
(* The system and the machine                                              *)

(* A file, or all that happened to the names so far, is put on the disk.   *)
SyncFile(f) ==
  /\ f \in dirty /\ dirty' = dirty \ {f}
  /\ UNCHANGED <<windows, disk, onDisk, updater, server, uhistory>>
SyncNames ==
  /\ onDisk # name /\ onDisk' = name
  /\ UNCHANGED <<windows, disk, dirty, updater, server, uhistory>>
WriteBack == SyncNames \/ \E f \in Files : SyncFile(f)

(* The machine goes down, and is started again.                            *)
PowerFails ==
  /\ \E lost \in [dirty -> SUBSET Parts] :
        content' = [f \in Files |-> IF f \in dirty THEN Losing(f, lost[f]) ELSE content[f]]
  /\ name' = onDisk /\ dirty' = {}
  /\ upc' = [u \in Updaters |-> IF u \in AtWork THEN "done" ELSE upc[u]]
  /\ image' = [u \in Updaters |-> None]
  /\ body' = [u \in Updaters |-> "new"]
  /\ part' = [u \in Updaters |-> 1]
  /\ fd' = [u \in Updaters |-> None]
  /\ server' = None
  /\ UNCHANGED <<windows, used, onDisk, uhistory>>

UpdateNext == (\E u \in Updaters : Update(u)) \/ Launch \/ Leave \/ WriteBack \/ PowerFails

UpdateSpec == UpdateInit /\ [][UpdateNext]_updateVars

-----------------------------------------------------------------------------
(* Properties                                                              *)

UpdateTypeOK ==
  /\ windows \in BOOLEAN
  /\ name \in [Names -> Files \cup {None}]
  /\ content \in [Files -> Content]
  /\ used \subseteq Files
  /\ upc \in [Updaters -> {"idle", "open", "copy", "cleanup", "discard", "away", "replace", "done"}]
  /\ image \in [Updaters -> Files \cup {None}]
  /\ body \in [Updaters -> {"new", "page"}]
  /\ part \in [Updaters -> 1..3]
  /\ fd \in [Updaters -> Files \cup {None}]
  /\ \A u \in Updaters : upc[u] = "copy" => fd[u] \in Files
  /\ server \in Files \cup {None}
  /\ dirty \subseteq Files
  /\ onDisk \in [Names -> Files \cup {None}]
  /\ overlapped \in BOOLEAN /\ hasty \in BOOLEAN

(* update.go:22, "atomically replaces the current executable": whichever   *)
(* calls fail, wherever updaters are killed or the machine goes down, and  *)
(* whatever they leave behind for the next one, there is a whole binary    *)
(* under its name.  The exceptions: two updaters were at work at once, the *)
(* download was not the binary, or the file lost a part that the system    *)
(* had taken, since nothing is synced before the rename.                   *)
BinaryKept ==
  ~windows /\ ~overlapped => Whole(name["exe"]) \/ Spoilt(name["exe"])

(* On Windows the binary may be gone or torn, but then the old one is      *)
(* beside it, even when several updaters work against each other and the   *)
(* new one lost parts: each runs from the file that the others would have  *)
(* to remove.  But an updater that runs from a file that is not on the     *)
(* disk yet removes an older one that is.                                  *)
BinaryRecoverable ==
  windows /\ ~hasty => Whole(name["exe"]) \/ Whole(name["old"])

(* What runs is not written to: the server goes on from the old file, and  *)
(* so do the updaters, until they are started again.                       *)
RunningUntouched ==
  [][\A f \in Files : Runs(f) /\ Runs(f)' => content'[f] = content[f]]_updateVars

-----------------------------------------------------------------------------
(* What the comments say and the code does not do                          *)

(* update.go:22, without the exceptions.                                   *)
ReplacesAtomically == Whole(name["exe"])
=============================================================================
