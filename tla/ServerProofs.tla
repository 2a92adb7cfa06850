---------------------------- MODULE ServerProofs ----------------------------
(***************************************************************************)
(* Proofs about SelfUpdate and Server, for any number of updaters, files,  *)
(* requests and streams.                                                   *)
(***************************************************************************)
EXTENDS Server, TLAPS

(* The type invariant in parts, so that a step opens what it touches.      *)
DiskTypes ==
  /\ windows \in BOOLEAN
  /\ name \in [Names -> Files \cup {None}]
  /\ content \in [Files -> Content]
  /\ used \subseteq Files
UpdaterTypes ==
  /\ upc \in [Updaters -> {"idle", "open", "copy", "cleanup", "discard", "away", "replace", "done"}]
  /\ image \in [Updaters -> Files \cup {None}]
  /\ body \in [Updaters -> {"new", "page"}]
  /\ part \in [Updaters -> 1..3]
  /\ fd \in [Updaters -> Files \cup {None}]
  /\ \A u \in Updaters : upc[u] = "copy" => fd[u] \in Files
RestTypes ==
  /\ server \in Files \cup {None}
  /\ overlapped \in BOOLEAN /\ hasty \in BOOLEAN
PendingTypes ==
  /\ dirty \subseteq Files
  /\ onDisk \in [Names -> Files \cup {None}]

LEMMA UpdateTypesSplit == UpdateTypeOK <=> DiskTypes /\ UpdaterTypes /\ RestTypes /\ PendingTypes
  BY DEF UpdateTypeOK, DiskTypes, UpdaterTypes, RestTypes, PendingTypes

(* A binary that is safe from a failure of the power.                      *)
Solid(f) == Whole(f) /\ f \notin dirty

(* A file has one name at most, and every file with a name was created;    *)
(* on Windows nobody writes to a file that has the name of a binary.       *)
NamesApart ==
  /\ \A m, n \in Names : name[m] # None /\ name[m] = name[n] => m = n
  /\ \A n \in Names : name[n] # None => name[n] \in used
  /\ windows => \A n \in {"exe", "old"} : name[n] # None => ~Open(name[n])

(* On Windows, BinaryRecoverable with what a failure of the power leaves.  *)
SolidKept == windows /\ ~hasty => Solid(name["exe"]) \/ Solid(name["old"])

(* All this holds of the names on the disk as well, so that it holds after *)
(* they are all that is left; and none of these binaries is written to.    *)
DiskSafe ==
  /\ \A m, n \in Names : onDisk[m] # None /\ onDisk[m] = onDisk[n] => m = n
  /\ \A n \in Names : onDisk[n] # None => onDisk[n] \in used
  /\ \A n \in {"exe", "old"} : onDisk[n] # None =>
        onDisk[n] # name["tmp"] /\ (windows => ~Open(onDisk[n]))
  /\ ~windows /\ ~overlapped => Whole(onDisk["exe"]) \/ Spoilt(onDisk["exe"])
  /\ windows /\ ~hasty => Solid(onDisk["exe"]) \/ Solid(onDisk["old"])

(* Only who copies has a file open, and an updater at work has an image.   *)
WhoHasWhat ==
  \A u \in Updaters :
    /\ fd[u] # None => upc[u] = "copy" /\ fd[u] \in used
    /\ u \in AtWork => image[u] \in Files /\ (~hasty => image[u] \notin dirty)
    /\ upc[u] \in {"discard", "away"} => windows

(* What runs is a whole binary that nobody writes to, and on Windows it    *)
(* keeps one of the names that the update gives to binaries.               *)
RunsSafely ==
  \A f \in Files : Runs(f) =>
    /\ f \in used /\ Whole(f) /\ ~Open(f)
    /\ f # name["tmp"]
    /\ windows => f \in {name["exe"], name["old"]}

(* While updaters do not overlap, the one at work has its download under   *)
(* the temporary name, and what it has written is what it was sent.        *)
Written(u) ==
  /\ upc[u] = "copy" =>
       /\ fd[u] = name["tmp"]
       /\ \A n \in Parts : n < part[u] => content[fd[u]][n] = body[u]
  /\ upc[u] = "replace" => Whole(name["tmp"]) \/ Spoilt(name["tmp"])

AloneIsSafe ==
  ~overlapped =>
     /\ \A u, v \in AtWork : u = v
     /\ ~windows => \A u \in Updaters : Written(u)

UpdateInv == /\ DiskTypes /\ UpdaterTypes /\ RestTypes /\ PendingTypes
             /\ NamesApart /\ WhoHasWhat /\ RunsSafely /\ AloneIsSafe
             /\ BinaryKept /\ SolidKept /\ DiskSafe

LEMMA InvMeansTypes == UpdateInv => UpdateTypeOK
  BY UpdateTypesSplit DEF UpdateInv

LEMMA InvMeansRecoverable == UpdateInv => BinaryRecoverable
  BY DEF UpdateInv, SolidKept, Solid, BinaryRecoverable

LEMMA PartsAre == Parts = {1, 2}
  BY DEF Parts

-----------------------------------------------------------------------------
(* Types                                                                   *)

LEMMA InitTypes == UpdateInit => DiskTypes /\ UpdaterTypes /\ RestTypes /\ PendingTypes
<1> SUFFICES ASSUME UpdateInit PROVE DiskTypes /\ UpdaterTypes /\ RestTypes /\ PendingTypes
  OBVIOUS
<1> USE FilesAssumption
<1>1. DiskTypes /\ PendingTypes
  BY DEF DiskTypes, PendingTypes, UpdateInit, Content, Names
<1>2. UpdaterTypes
  BY DEF UpdaterTypes, UpdateInit
<1>3. RestTypes
  BY DEF RestTypes, UpdateInit
<1> QED BY <1>1, <1>2, <1>3

LEMMA FinishTypes ==
  ASSUME UpdaterTypes, NEW u \in Updaters, Finish(u)
  PROVE  UpdaterTypes'
  BY FilesAssumption DEF UpdaterTypes, Finish, Release

LEMMA RemoveTypes ==
  ASSUME DiskTypes, NEW n \in Names, Remove(n) \/ UNCHANGED name, UNCHANGED <<windows, content, used>>
  PROVE  DiskTypes'
  BY DEF DiskTypes, Remove

LEMMA LosingTypes ==
  ASSUME DiskTypes, NEW f \in Files, NEW lost
  PROVE  Losing(f, lost) \in Content
<1>1. \A n \in Parts : content[f][n] \in {"hole", "old", "new", "page", "lost"}
  BY DEF DiskTypes, Content
<1> QED BY <1>1 DEF Losing, Content

LEMMA CloseTypes ==
  ASSUME DiskTypes, NEW u \in Updaters, CloseTemp(u), UNCHANGED windows
  PROVE  DiskTypes' /\ UNCHANGED <<name, used, pending>>
<1>1. PICK lost \in SUBSET Parts :
         content' = [f \in Files |-> IF f = fd[u] /\ f \in dirty THEN Losing(f, lost) ELSE content[f]]
  BY DEF CloseTemp
<1>2. content' \in [Files -> Content]
  BY <1>1, LosingTypes DEF DiskTypes
<1> QED BY <1>2 DEF CloseTemp, DiskTypes

LEMMA TypesStep ==
  ASSUME DiskTypes, UpdaterTypes, RestTypes, NEW u \in Updaters, Update(u)
  PROVE  DiskTypes' /\ UpdaterTypes' /\ RestTypes'
<1> USE FilesAssumption
<1>1. CASE Agree(u)
  <2>1. name["exe"] \in Files
    BY <1>1 DEF Agree, Starts, Whole, DiskTypes, Names
  <2> QED BY <1>1, <2>1 DEF Agree, DiskTypes, UpdaterTypes, RestTypes, disk
<1>2. ASSUME NEW f \in Files, NEW answer \in {"new", "page"}, OpenTemp(u, f, answer)
      PROVE  DiskTypes' /\ UpdaterTypes' /\ RestTypes'
  <2>1. DiskTypes'
    BY <1>2 DEF OpenTemp, DiskTypes, Content
  <2>2. UpdaterTypes'
    BY <1>2 DEF OpenTemp, UpdaterTypes
  <2>3. RestTypes'
    BY <1>2 DEF OpenTemp, RestTypes
  <2> QED BY <2>1, <2>2, <2>3
<1>3. CASE OpenFails(u)
  BY <1>3, FinishTypes DEF OpenFails, DiskTypes, RestTypes, disk, uhistory
<1>4. CASE Copy(u)
  <2>1. part[u] \in Parts
    BY <1>4 DEF Copy, Complete, UpdaterTypes, Parts
  <2>2. DiskTypes'
    BY <1>4, <2>1 DEF Copy, DiskTypes, UpdaterTypes, Content
  <2>3. UpdaterTypes'
    BY <1>4, <2>1, PartsAre DEF Copy, UpdaterTypes
  <2> QED BY <1>4, <2>2, <2>3 DEF Copy, RestTypes, uhistory
<1>5. CASE Copied(u) \/ CopyFails(u)
  <2>1. DiskTypes'
    BY <1>5, CloseTypes DEF Copied, CopyFails
  <2>2. UpdaterTypes'
    BY <1>5 DEF Copied, CopyFails, CloseTemp, Release, UpdaterTypes
  <2> QED BY <1>5, <2>1, <2>2 DEF Copied, CopyFails, RestTypes, uhistory
<1>6. CASE RemoveTemp(u)
  BY <1>6, FinishTypes, RemoveTypes DEF RemoveTemp, RestTypes, uhistory, Names
<1>7. CASE RemoveOld(u)
  <2>1. DiskTypes'
    BY <1>7, RemoveTypes DEF RemoveOld, Names
  <2> QED BY <1>7, <2>1 DEF RemoveOld, UpdaterTypes, RestTypes, uhistory
<1>8. CASE MoveAway(u)
  BY <1>8 DEF MoveAway, DiskTypes, UpdaterTypes, RestTypes, uhistory, Names
<1>9. CASE Replace(u)
  <2>1. DiskTypes'
    BY <1>9 DEF Replace, DiskTypes, Names
  <2> QED BY <1>9, <2>1, FinishTypes DEF Replace, RestTypes, uhistory
<1>10. CASE RenameFails(u)
  BY <1>10 DEF RenameFails, DiskTypes, UpdaterTypes, RestTypes, disk, uhistory
<1>11. CASE Kill(u)
  <2>1. DiskTypes'
    BY <1>11, CloseTypes DEF Kill
  <2>2. UpdaterTypes'
    BY <1>11 DEF Kill, CloseTemp, Release, UpdaterTypes
  <2> QED BY <1>11, <2>1, <2>2 DEF Kill, RestTypes, uhistory
<1> QED BY <1>1, <1>2, <1>3, <1>4, <1>5, <1>6, <1>7, <1>8, <1>9, <1>10, <1>11 DEF Update

LEMMA PendingTypesStep ==
  ASSUME PendingTypes, UpdaterTypes, NEW u \in Updaters, Update(u)
  PROVE  PendingTypes' /\ onDisk' = onDisk
<1> USE DEF PendingTypes
<1>1. CASE Agree(u)
  BY <1>1 DEF Agree, pending
<1>2. ASSUME NEW f \in Files, NEW answer \in {"new", "page"}, OpenTemp(u, f, answer)
      PROVE  PendingTypes' /\ onDisk' = onDisk
  BY <1>2 DEF OpenTemp
<1>3. CASE Copy(u)
  BY <1>3 DEF Copy, UpdaterTypes
<1>4. CASE Copied(u) \/ CopyFails(u) \/ Kill(u)
  BY <1>4 DEF Copied, CopyFails, Kill, CloseTemp, pending
<1>5. CASE OpenFails(u) \/ RemoveTemp(u) \/ RemoveOld(u) \/ MoveAway(u) \/ Replace(u) \/ RenameFails(u)
  BY <1>5 DEF OpenFails, RemoveTemp, RemoveOld, MoveAway, Replace, RenameFails, pending
<1> QED BY <1>1, <1>2, <1>3, <1>4, <1>5 DEF Update

-----------------------------------------------------------------------------
(* The binary                                                              *)

LEMMA InitInv == UpdateInit => UpdateInv
<1> SUFFICES ASSUME UpdateInit PROVE UpdateInv
  OBVIOUS
<1> USE FilesAssumption
<1>1. DiskTypes /\ UpdaterTypes /\ RestTypes /\ PendingTypes
  BY InitTypes
<1>2. AtWork = {}
  BY DEF UpdateInit, AtWork
<1>3. Whole(name["exe"]) /\ dirty = {} /\ onDisk = name
  BY DEF UpdateInit, Whole, Names
<1>4. NamesApart
  BY <1>2 DEF UpdateInit, NamesApart, Open
<1>5. WhoHasWhat
  BY <1>2 DEF UpdateInit, WhoHasWhat
<1>6. RunsSafely
  BY <1>2 DEF UpdateInit, RunsSafely, Runs
<1>7. AloneIsSafe
  BY <1>2 DEF UpdateInit, AloneIsSafe, Written
<1>8. BinaryKept /\ SolidKept
  BY <1>3 DEF BinaryKept, SolidKept, Solid
<1>9. DiskSafe
  BY <1>3, <1>4, <1>8 DEF DiskSafe, NamesApart, BinaryKept, SolidKept, Names
<1> QED BY <1>1, <1>4, <1>5, <1>6, <1>7, <1>8, <1>9 DEF UpdateInv

(* While updaters do not overlap, only the temporary file is open.         *)
LEMMA WrittenIsTemp ==
  ASSUME UpdateInv, NEW g \in Files, Open(g), ~windows, ~overlapped
  PROVE  g = name["tmp"]
<1>1. PICK u \in AtWork : fd[u] = g
  BY DEF Open
<1>2. u \in Updaters /\ upc[u] = "copy"
  BY <1>1, FilesAssumption DEF UpdateInv, WhoHasWhat, AtWork
<1> QED BY <1>1, <1>2 DEF UpdateInv, AloneIsSafe, Written

(* The binaries on the disk survive a step of an updater: it writes to one *)
(* file at most, which has the temporary name or is open.                  *)
LEMMA DiskStep ==
  ASSUME UpdateInv, NEW g,
         UNCHANGED <<windows, onDisk>>, used \subseteq used',
         overlapped => overlapped', hasty => hasty',
         name'["tmp"] = None \/ name'["tmp"] = name["tmp"] \/ name'["tmp"] \notin used,
         \A f \in Files : Open(f)' => Open(f) \/ f = name'["tmp"],
         \A f \in Files : f # g => content'[f] = content[f] /\ (f \in dirty' => f \in dirty),
         g \in Files => g = name'["tmp"] \/ Open(g)
  PROVE  DiskSafe'
<1> USE FilesAssumption
<1> DEFINE nm == onDisk
<1>1. onDisk' = onDisk /\ windows' = windows
  OBVIOUS
<1>2. \A n \in {"exe", "old"} : nm[n] # None =>
         nm[n] \in Files /\ nm[n] # name'["tmp"] /\ nm[n] # name["tmp"]
  BY DEF UpdateInv, DiskSafe, PendingTypes, Names
<1>3. \A n \in {"exe", "old"} : windows /\ nm[n] # None => nm[n] # g /\ ~Open(nm[n]) /\ ~Open(nm[n])'
  BY <1>2 DEF UpdateInv, DiskSafe
<1>4. ~windows /\ ~overlapped => nm["exe"] = None \/ nm["exe"] # g
  BY <1>2, WrittenIsTemp
<1>5. ~windows /\ ~overlapped' => Whole(nm["exe"])' \/ Spoilt(nm["exe"])'
  <2> SUFFICES ASSUME ~windows, ~overlapped PROVE Whole(nm["exe"])' \/ Spoilt(nm["exe"])'
    OBVIOUS
  <2>1. Whole(nm["exe"]) \/ Spoilt(nm["exe"])
    BY DEF UpdateInv, DiskSafe
  <2>2. nm["exe"] # None
    BY <2>1 DEF Whole, Spoilt
  <2>3. content'[nm["exe"]] = content[nm["exe"]]
    BY <2>2, <1>2, <1>4
  <2> QED BY <2>1, <2>3, <1>1 DEF Whole, Spoilt
<1>6. ASSUME NEW n \in {"exe", "old"}, windows, Solid(nm[n]) PROVE Solid(nm[n])'
  <2>1. nm[n] # None
    BY <1>6 DEF Solid, Whole
  <2>2. content'[nm[n]] = content[nm[n]] /\ nm[n] \notin dirty'
    BY <2>1, <1>2, <1>3, <1>6 DEF Solid
  <2> QED BY <2>2, <1>1, <1>6 DEF Solid, Whole
<1>7. windows /\ ~hasty' => Solid(nm["exe"])' \/ Solid(nm["old"])'
  BY <1>6 DEF UpdateInv, DiskSafe
<1>8. \A m, n \in Names : nm[m] # None /\ nm[m] = nm[n] => m = n
  BY DEF UpdateInv, DiskSafe
<1>9. \A n \in Names : nm[n] # None => nm[n] \in used'
  BY DEF UpdateInv, DiskSafe
<1> QED BY <1>1, <1>2, <1>3, <1>5, <1>7, <1>8, <1>9 DEF DiskSafe

(* A step of an updater that leaves the names alone, gives nobody          *)
(* anything, and changes an open file if it changes any.                   *)
LEMMA WriteStep ==
  ASSUME UpdateInv, DiskTypes', UpdaterTypes', RestTypes', PendingTypes', NEW u \in AtWork, NEW g,
         g \in Files => Open(g),
         \A f \in Files : f # g => content'[f] = content[f] /\ (f \in dirty' => f \in dirty),
         UNCHANGED <<windows, name, used, server, onDisk, uhistory>>,
         \A f \in Files : (Runs(f)' => Runs(f)) /\ (Open(f)' => Open(f)),
         WhoHasWhat', AloneIsSafe'
  PROVE  UpdateInv'
<1> USE FilesAssumption
<1>1. UNCHANGED <<windows, name, used, onDisk, overlapped, hasty>>
  BY DEF uhistory
<1>2. \A n \in Names : name[n] # None => name[n] \in Files
  BY DEF UpdateInv, DiskTypes
<1>3. NamesApart'
  BY <1>1, <1>2 DEF UpdateInv, NamesApart, Names
<1>4. \A f \in Files : Runs(f) => f # g /\ content'[f] = content[f]
  BY DEF UpdateInv, RunsSafely
<1>5. \A f \in Files : Runs(f) /\ Whole(f) => Whole(f)'
  BY <1>4 DEF Whole
<1>6. RunsSafely'
  BY <1>1, <1>5 DEF UpdateInv, RunsSafely
<1>7. BinaryKept'
  <2> SUFFICES ASSUME ~windows, ~overlapped PROVE Whole(name["exe"])' \/ Spoilt(name["exe"])'
    BY <1>1 DEF BinaryKept
  <2>1. Whole(name["exe"]) \/ Spoilt(name["exe"])
    BY DEF UpdateInv, BinaryKept
  <2>2. name["exe"] \in Files
    BY <2>1, <1>2 DEF Whole, Spoilt, Names
  <2>3. name["exe"] # g
    <3>1. g \in Files => g = name["tmp"]
      BY WrittenIsTemp
    <3> QED BY <2>2, <3>1 DEF UpdateInv, NamesApart, Names
  <2> QED BY <2>1, <2>2, <2>3, <1>1 DEF Whole, Spoilt
<1>8. SolidKept'
  <2> SUFFICES ASSUME windows, ~hasty PROVE Solid(name["exe"])' \/ Solid(name["old"])'
    BY <1>1 DEF SolidKept
  <2>1. image[u] \in Files /\ Runs(image[u]) /\ image[u] \notin dirty
    BY DEF UpdateInv, WhoHasWhat, Runs, AtWork
  <2>2. Whole(image[u]) /\ image[u] \in {name["exe"], name["old"]}
    BY <2>1 DEF UpdateInv, RunsSafely
  <2>3. PICK f \in Files : f = image[u]
    BY <2>1
  <2>4. Solid(f)'
    BY <2>1, <2>2, <2>3, <1>4, <1>5 DEF Solid
  <2> QED BY <2>2, <2>3, <2>4, <1>1 DEF Solid, Whole
<1>9. DiskSafe'
  BY <1>1, DiskStep
<1> QED BY <1>3, <1>6, <1>7, <1>8, <1>9 DEF UpdateInv

(* An updater that is through has nothing left.                            *)
LEMMA FinishedHasNothing ==
  ASSUME UpdateInv, NEW u \in Updaters, Finish(u), UNCHANGED server
  PROVE  /\ \A f \in Files : (Runs(f)' => Runs(f)) /\ (Open(f)' => Open(f))
         /\ AtWork' = AtWork \ {u}
         /\ UNCHANGED <<windows, used, dirty, hasty>> => WhoHasWhat'
<1>1. AtWork' = AtWork \ {u}
  BY DEF UpdateInv, UpdaterTypes, AtWork, Finish, Release
<1>2. \A v \in Updaters \ {u} : image'[v] = image[v] /\ fd'[v] = fd[v] /\ upc'[v] = upc[v]
  BY DEF UpdateInv, UpdaterTypes, Finish, Release
<1>3. fd'[u] = None /\ upc'[u] = "done"
  BY DEF UpdateInv, UpdaterTypes, Finish, Release
<1>4. UNCHANGED <<windows, used, dirty, hasty>> => WhoHasWhat'
  BY <1>1, <1>2, <1>3 DEF UpdateInv, WhoHasWhat
<1>5. \A f \in Files : (Runs(f)' => Runs(f)) /\ (Open(f)' => Open(f))
  BY <1>1, <1>2 DEF Runs, Open, AtWork
<1> QED BY <1>1, <1>4, <1>5

(* What the others have written does not depend on who is through.         *)
LEMMA FinishedIsSafe ==
  ASSUME UpdateInv, NEW u \in Updaters, Finish(u), u \in AtWork, UNCHANGED <<server, windows, overlapped>>
  PROVE  AloneIsSafe'
<1>1. AtWork' = AtWork \ {u}
  BY FinishedHasNothing
<1>2. ASSUME ~overlapped PROVE AtWork' = {}
  BY <1>1, <1>2 DEF UpdateInv, AloneIsSafe
<1>3. ASSUME ~overlapped, NEW v \in Updaters PROVE Written(v)'
  BY <1>2, <1>3 DEF Written, AtWork
<1> QED BY <1>2, <1>3 DEF AloneIsSafe

LEMMA AgreeStep ==
  ASSUME UpdateInv, DiskTypes', UpdaterTypes', RestTypes', PendingTypes', NEW u \in Updaters, Agree(u)
  PROVE  UpdateInv'
<1> USE FilesAssumption
<1>1. /\ upc[u] = "idle" /\ upc'[u] = "open" /\ image'[u] = name["exe"]
      /\ fd' = fd /\ Starts(name["exe"])
      /\ hasty' = (hasty \/ name["exe"] \in dirty)
      /\ UNCHANGED <<windows, name, content, used, dirty, onDisk, body, part, server>>
  BY DEF UpdateInv, UpdaterTypes, Agree, disk, pending
<1>2. AtWork' = AtWork \cup {u} /\ u \notin AtWork
  BY <1>1 DEF UpdateInv, UpdaterTypes, AtWork, Agree
<1>3. \A v \in Updaters \ {u} : image'[v] = image[v] /\ upc'[v] = upc[v]
  BY DEF UpdateInv, UpdaterTypes, Agree
<1>4. name["exe"] \in Files /\ name["exe"] \in used /\ name["exe"] # name["tmp"]
  BY <1>1 DEF UpdateInv, NamesApart, DiskTypes, Starts, Whole, Names
<1>5. fd[u] = None
  BY <1>1 DEF UpdateInv, WhoHasWhat
<1>6. \A f \in Files : Open(f)' <=> Open(f)
  BY <1>1, <1>2, <1>5 DEF Open
<1>7. NamesApart'
  <2>1. \A n \in Names : name[n] # None => name[n] \in Files
    BY DEF UpdateInv, DiskTypes
  <2> QED BY <1>1, <1>6, <2>1 DEF UpdateInv, NamesApart, Names
<1>8. WhoHasWhat'
  <2>1. ~hasty' => name["exe"] \notin dirty /\ ~hasty
    BY <1>1 DEF UpdateInv, RestTypes
  <2>2. ASSUME NEW v \in Updaters
        PROVE  /\ fd'[v] # None => upc'[v] = "copy" /\ fd'[v] \in used'
               /\ v \in AtWork' => image'[v] \in Files /\ (~hasty' => image'[v] \notin dirty')
               /\ upc'[v] \in {"discard", "away"} => windows'
    <3>1. CASE v = u
      BY <3>1, <2>1, <1>1, <1>4, <1>5
    <3>2. CASE v # u
      BY <3>2, <2>1, <1>1, <1>2, <1>3 DEF UpdateInv, WhoHasWhat
    <3> QED BY <3>1, <3>2
  <2> QED BY <2>2 DEF WhoHasWhat
<1>9. \A f : (Whole(f)' <=> Whole(f)) /\ (Spoilt(f)' <=> Spoilt(f)) /\ (Runs(f)' => Runs(f) \/ f = name["exe"])
  <2>1. \A f : (Whole(f)' <=> Whole(f)) /\ (Spoilt(f)' <=> Spoilt(f))
    BY <1>1 DEF Whole, Spoilt
  <2>2. ASSUME NEW f, Runs(f)' PROVE Runs(f) \/ f = name["exe"]
    BY <2>2, <1>1, <1>2, <1>3 DEF Runs, AtWork
  <2> QED BY <2>1, <2>2
<1>10. \A f \in Files : Runs(f) =>
          /\ f \in used /\ Whole(f) /\ ~Open(f) /\ f # name["tmp"]
          /\ windows => f \in {name["exe"], name["old"]}
  BY DEF UpdateInv, RunsSafely
<1>11. RunsSafely'
  <2> SUFFICES ASSUME NEW f \in Files, Runs(f)'
               PROVE  /\ f \in used' /\ Whole(f)' /\ ~Open(f)'
                      /\ f # name["tmp"]'
                      /\ windows' => f \in {name["exe"], name["old"]}'
    BY DEF RunsSafely
  <2>1. CASE Runs(f)
    BY <2>1, <1>1, <1>6, <1>9, <1>10
  <2>2. CASE f = name["exe"]
    BY <2>2, <1>1, <1>4, <1>6, <1>9 DEF Starts
  <2> QED BY <2>1, <2>2, <1>9
<1>12. AloneIsSafe'
  <2> SUFFICES ASSUME ~overlapped'
               PROVE  /\ \A v, w \in AtWork' : v = w
                      /\ ~windows => \A v \in Updaters : Written(v)'
    BY <1>1 DEF AloneIsSafe
  <2>1. AtWork = {} /\ ~overlapped
    BY DEF Agree, UpdateInv, RestTypes
  <2>2. ASSUME NEW v \in Updaters PROVE Written(v)'
    BY <2>1, <2>2, <1>1, <1>3 DEF Written, AtWork
  <2> QED BY <2>1, <2>2, <1>2
<1>13. BinaryKept'
  <2>1. Whole(name["exe"])'
    BY <1>1, <1>9 DEF Starts, Whole
  <2> QED BY <2>1 DEF BinaryKept
<1>14. SolidKept'
  <2>1. ~hasty' => Solid(name["exe"])
    BY <1>1 DEF Starts, Solid
  <2>2. Solid(name["exe"])' <=> Solid(name["exe"])
    BY <1>1 DEF Solid, Whole
  <2> QED BY <2>1, <2>2 DEF SolidKept
<1>15. DiskSafe'
  <2>1. (overlapped => overlapped') /\ (hasty => hasty')
    BY DEF Agree
  <2> QED BY <2>1, <1>1, <1>6, DiskStep
<1> QED BY <1>7, <1>8, <1>11, <1>12, <1>13, <1>14, <1>15 DEF UpdateInv

(* Nobody runs from the file that a download starts over.                  *)
LEMMA OpenTempStep ==
  ASSUME UpdateInv, DiskTypes', UpdaterTypes', RestTypes', PendingTypes',
         NEW u \in Updaters, NEW f \in Files, NEW answer \in {"new", "page"}, OpenTemp(u, f, answer)
  PROVE  UpdateInv'
<1> USE FilesAssumption
<1>1. /\ upc[u] = "open" /\ upc'[u] = "copy" /\ fd'[u] = f /\ body'[u] = answer /\ part'[u] = 1
      /\ f \in used' /\ used \subseteq used' /\ dirty' = dirty \cup {f}
      /\ name'["tmp"] = f /\ name'["exe"] = name["exe"] /\ name'["old"] = name["old"]
      /\ UNCHANGED <<windows, image, server, onDisk, overlapped, hasty>>
  BY DEF UpdateInv, UpdaterTypes, DiskTypes, OpenTemp, Names
<1>2. AtWork' = AtWork /\ u \in AtWork
  BY <1>1 DEF UpdateInv, UpdaterTypes, AtWork, OpenTemp
<1>3. \A v \in Updaters \ {u} :
         fd'[v] = fd[v] /\ upc'[v] = upc[v] /\ body'[v] = body[v] /\ part'[v] = part[v]
  BY DEF UpdateInv, UpdaterTypes, OpenTemp
<1>4. f \notin used \/ f = name["tmp"]
  BY DEF OpenTemp
<1>5. ~Runs(f) /\ f # name["exe"] /\ f # name["old"]
  BY <1>4 DEF UpdateInv, RunsSafely, NamesApart, Names
<1>6. \A g \in Files : g # f => content'[g] = content[g] /\ (Open(g)' <=> Open(g))
  <2>1. \A g \in Files : g # f => content'[g] = content[g]
    BY DEF UpdateInv, DiskTypes, OpenTemp
  <2>2. fd[u] = None
    BY <1>1 DEF UpdateInv, WhoHasWhat
  <2>3. ASSUME NEW g \in Files, g # f PROVE Open(g)' <=> Open(g)
    BY <2>2, <2>3, <1>1, <1>2, <1>3 DEF Open, AtWork
  <2> QED BY <2>1, <2>3
<1>7. NamesApart'
  <2>1. \A n \in {"exe", "old"} : name[n] # None => name[n] \in Files /\ name[n] # f
    BY <1>5 DEF UpdateInv, DiskTypes, Names
  <2>2. ASSUME windows, NEW n \in {"exe", "old"}, name'[n] # None PROVE ~Open(name[n])'
    <3>1. PICK g : g = name[n]
      OBVIOUS
    <3>2. g \in Files /\ g # f /\ name'[n] = g
      BY <2>1, <2>2, <3>1, <1>1
    <3>3. ~Open(g)
      BY <2>2, <3>1, <3>2, <1>1 DEF UpdateInv, NamesApart
    <3>4. ~Open(g)'
      BY <3>2, <3>3, <1>6
    <3> QED BY <3>2, <3>4 DEF Open
  <2>3. windows' => \A n \in {"exe", "old"} : name'[n] # None => ~Open(name[n])'
    BY <2>2, <1>1
  <2>4. \A m, n \in Names : name'[m] # None /\ name'[m] = name'[n] => m = n
    BY <1>1, <1>5 DEF UpdateInv, NamesApart, Names
  <2>5. \A n \in Names : name'[n] # None => name'[n] \in used'
    BY <1>1 DEF UpdateInv, NamesApart, Names
  <2> QED BY <2>3, <2>4, <2>5 DEF NamesApart
<1>8. WhoHasWhat'
  <2>1. \A v \in AtWork : image[v] \in Files /\ image[v] # f
    BY <1>5 DEF UpdateInv, WhoHasWhat, Runs, AtWork
  <2> QED BY <2>1, <1>1, <1>2, <1>3 DEF UpdateInv, WhoHasWhat
<1>9. \A g : Runs(g)' <=> Runs(g)
  BY <1>1, <1>2 DEF Runs
<1>10. RunsSafely'
  <2> SUFFICES ASSUME NEW g \in Files, Runs(g)'
               PROVE  /\ g \in used' /\ Whole(g)' /\ ~Open(g)'
                      /\ g # name["tmp"]'
                      /\ windows' => g \in {name["exe"], name["old"]}'
    BY DEF RunsSafely
  <2>1. Runs(g) /\ g # f
    BY <1>5, <1>9
  <2>2. Whole(g)' /\ ~Open(g)'
    BY <2>1, <1>6 DEF UpdateInv, RunsSafely, Whole
  <2> QED BY <2>1, <2>2, <1>1 DEF UpdateInv, RunsSafely
<1>11. AloneIsSafe'
  <2> SUFFICES ASSUME ~overlapped'
               PROVE  /\ \A v, w \in AtWork' : v = w
                      /\ ~windows => \A v \in Updaters : Written(v)'
    BY <1>1 DEF AloneIsSafe
  <2>1. AtWork = {u}
    BY <1>1, <1>2 DEF UpdateInv, AloneIsSafe
  <2>2. ASSUME NEW v \in Updaters \ {u} PROVE Written(v)'
    BY <2>1, <2>2, <1>3 DEF Written, AtWork
  <2>3. Written(u)'
    BY <1>1, PartsAre DEF Written
  <2> QED BY <2>1, <2>2, <2>3, <1>2
<1>12. ASSUME NEW n \in {"exe", "old"}
       PROVE  /\ Whole(name[n]) => Whole(name[n])'
              /\ Spoilt(name[n]) => Spoilt(name[n])'
              /\ Solid(name[n]) => Solid(name[n])'
  <2>1. name[n] # None => content'[name[n]] = content[name[n]] /\ name[n] # f
    BY <1>5, <1>6 DEF UpdateInv, DiskTypes, Names
  <2>2. name'[n] = name[n]
    BY <1>1
  <2> QED BY <2>1, <2>2, <1>1 DEF Whole, Spoilt, Solid
<1>13. BinaryKept' /\ SolidKept'
  BY <1>1, <1>12 DEF UpdateInv, BinaryKept, SolidKept
<1>14. DiskSafe'
  <2>1. name'["tmp"] = name["tmp"] \/ name'["tmp"] \notin used
    BY <1>1, <1>4
  <2>2. \A g \in Files : Open(g)' => Open(g) \/ g = name'["tmp"]
    BY <1>1, <1>6
  <2>3. \A g \in Files : g # f => content'[g] = content[g] /\ (g \in dirty' => g \in dirty)
    BY <1>1, <1>6
  <2> QED BY <2>1, <2>2, <2>3, <1>1, DiskStep
<1> QED BY <1>7, <1>8, <1>10, <1>11, <1>13, <1>14 DEF UpdateInv

(* A write goes to the file that is open, and nobody runs from that.       *)
LEMMA CopyStep ==
  ASSUME UpdateInv, DiskTypes', UpdaterTypes', RestTypes', PendingTypes', NEW u \in Updaters, Copy(u)
  PROVE  UpdateInv'
<1> USE FilesAssumption
<1> DEFINE f == fd[u]
<1>1. /\ upc[u] = "copy" /\ f \in Files /\ part[u] \in Parts
      /\ part'[u] = part[u] + 1 /\ dirty' = dirty \cup {f}
      /\ content'[f] = [content[f] EXCEPT ![part[u]] = body[u]]
      /\ UNCHANGED <<windows, name, used, upc, image, body, fd, server, onDisk, overlapped, hasty>>
  BY DEF UpdateInv, UpdaterTypes, DiskTypes, WhoHasWhat, Copy, Complete, Parts, uhistory
<1>2. AtWork' = AtWork /\ u \in AtWork
  BY <1>1 DEF AtWork
<1>3. \A g \in Files : g # f => content'[g] = content[g] /\ (g \in dirty' => g \in dirty)
  BY <1>1 DEF UpdateInv, DiskTypes, Copy
<1>4. Open(f)
  BY <1>2 DEF Open
<1>5. \A g \in Files : Runs(g) => g # f
  BY <1>4 DEF UpdateInv, RunsSafely
<1>6. \A g : (Runs(g)' <=> Runs(g)) /\ (Open(g)' <=> Open(g))
  BY <1>1, <1>2 DEF Runs, Open
<1>7. WhoHasWhat'
  <2>1. \A v \in AtWork : image[v] \in Files /\ image[v] # f
    BY <1>5 DEF UpdateInv, WhoHasWhat, Runs, AtWork
  <2> QED BY <2>1, <1>1, <1>2 DEF UpdateInv, WhoHasWhat
<1>8. AloneIsSafe'
  <2> SUFFICES ASSUME ~overlapped
               PROVE  /\ \A v, w \in AtWork' : v = w
                      /\ ~windows => \A v \in Updaters : Written(v)'
    BY <1>1 DEF AloneIsSafe
  <2>1. AtWork = {u}
    BY <1>2 DEF UpdateInv, AloneIsSafe
  <2>2. ASSUME NEW v \in Updaters \ {u} PROVE Written(v)'
    BY <2>1, <2>2, <1>1 DEF Written, AtWork
  <2>3. ASSUME ~windows PROVE Written(u)'
    <3>1. f = name["tmp"] /\ \A n \in Parts : n < part[u] => content[f][n] = body[u]
      BY <1>1, <2>3 DEF UpdateInv, AloneIsSafe, Written
    <3>2. DOMAIN content[f] = Parts
      BY <1>1 DEF UpdateInv, DiskTypes, Content
    <3>3. \A n \in Parts : n < part'[u] => content'[f][n] = body[u]
      BY <3>1, <3>2, <1>1, PartsAre
    <3> QED BY <3>1, <3>3, <1>1 DEF Written
  <2> QED BY <2>1, <2>2, <2>3, <1>2
<1> QED BY <1>1, <1>2, <1>3, <1>4, <1>6, <1>7, <1>8, WriteStep DEF uhistory

(* What was complete when it was closed is whole, or lost a part, or was   *)
(* not the binary.                                                         *)
LEMMA ClosedIsAccounted ==
  ASSUME DiskTypes, UpdaterTypes, NEW u \in Updaters, upc[u] = "copy", Complete(u), CloseTemp(u),
         \A n \in Parts : n < part[u] => content[fd[u]][n] = body[u],
         NEW f, f = fd[u]
  PROVE  Whole(f)' \/ Spoilt(f)'
<1>1. PICK lost \in SUBSET Parts :
         content' = [g \in Files |-> IF g = fd[u] /\ g \in dirty THEN Losing(g, lost) ELSE content[g]]
  BY DEF CloseTemp
<1>2. f \in Files /\ f # None /\ body[u] \in {"new", "page"} /\ part[u] \in 1..3
  BY FilesAssumption DEF UpdaterTypes
<1>3. content'[f] = Losing(f, lost) \/ content'[f] = content[f]
  BY <1>1, <1>2
<1>4. \A n \in Parts : n < part[u] => content'[f][n] \in {body[u], "lost"}
  BY <1>2, <1>3 DEF Losing
<1>5. CASE body[u] = "page"
  <2>1. 1 \in Parts /\ 1 < part[u]
    BY <1>2, <1>5, PartsAre DEF Complete
  <2>2. content'[f][1] \in {"page", "lost"}
    BY <2>1, <1>4, <1>5
  <2> QED BY <1>2, <2>1, <2>2 DEF Spoilt
<1>6. CASE body[u] = "new"
  <2>1. \A n \in Parts : content'[f][n] \in {"new", "lost"}
    BY <1>2, <1>4, <1>6, PartsAre DEF Complete
  <2>2. CASE \E n \in Parts : content'[f][n] = "lost"
    BY <1>2, <2>2 DEF Spoilt
  <2>3. CASE \A n \in Parts : content'[f][n] = "new"
    <3>1. DOMAIN content'[f] = Parts /\ content'[f] = [n \in DOMAIN content'[f] |-> content'[f][n]]
      BY <1>2, <1>3 DEF DiskTypes, Content, Losing
    <3>2. content'[f] = [n \in Parts |-> "new"]
      BY <3>1, <2>3
    <3> QED BY <1>2, <3>2 DEF Whole
  <2> QED BY <2>1, <2>2, <2>3
<1> QED BY <1>2, <1>5, <1>6

(* The steps that close the file.                                          *)
LEMMA CloseSteps ==
  ASSUME UpdateInv, DiskTypes', UpdaterTypes', RestTypes', PendingTypes', NEW u \in Updaters,
         Kill(u) \/ Copied(u) \/ CopyFails(u)
  PROVE  UpdateInv'
<1> USE FilesAssumption
<1>1. /\ CloseTemp(u) /\ u \in AtWork
      /\ UNCHANGED <<windows, name, used, server, dirty, onDisk, overlapped, hasty>>
  BY DEF Kill, Copied, CopyFails, CloseTemp, pending, uhistory, AtWork
<1>2. \A f \in Files : f # fd[u] => content'[f] = content[f]
  BY <1>1 DEF CloseTemp
<1>3. fd[u] \in Files => Open(fd[u])
  BY <1>1 DEF Open
<1>4. CASE Kill(u)
  <2>1. Finish(u)
    BY <1>4 DEF Kill, CloseTemp, Finish
  <2>2. WhoHasWhat' /\ \A f \in Files : (Runs(f)' => Runs(f)) /\ (Open(f)' => Open(f))
    BY <2>1, <1>1, FinishedHasNothing
  <2>3. AloneIsSafe'
    BY <2>1, <1>1, FinishedIsSafe
  <2> QED BY <2>2, <2>3, <1>1, <1>2, <1>3, WriteStep DEF uhistory
<1>5. CASE Copied(u) \/ CopyFails(u)
  <2>1. /\ upc[u] = "copy" /\ fd'[u] = None
        /\ upc'[u] \in {"discard", "replace", "cleanup"}
        /\ upc'[u] = "discard" => windows
        /\ upc'[u] = "replace" => Complete(u)
        /\ image' = image
    BY <1>5 DEF UpdateInv, UpdaterTypes, Copied, CopyFails, CloseTemp, Release
  <2>2. \A v \in Updaters \ {u} :
           fd'[v] = fd[v] /\ upc'[v] = upc[v] /\ body'[v] = body[v] /\ part'[v] = part[v]
    BY <1>5 DEF UpdateInv, UpdaterTypes, Copied, CopyFails, CloseTemp, Release
  <2>3. AtWork' = AtWork
    BY <2>1, <2>2 DEF UpdateInv, UpdaterTypes, AtWork
  <2>4. WhoHasWhat'
    BY <1>1, <2>1, <2>2, <2>3 DEF UpdateInv, WhoHasWhat
  <2>5. \A f \in Files : Runs(f)' => Runs(f)
    BY <1>1, <2>1, <2>3 DEF Runs
  <2>6. ASSUME NEW f \in Files, Open(f)' PROVE Open(f)
    BY <2>6, <2>1, <2>2, <2>3 DEF Open, AtWork
  <2>7. AloneIsSafe'
    <3> SUFFICES ASSUME ~overlapped
                 PROVE  /\ \A v, w \in AtWork' : v = w
                        /\ ~windows => \A v \in Updaters : Written(v)'
      BY <1>1 DEF AloneIsSafe
    <3>1. AtWork = {u}
      BY <1>1 DEF UpdateInv, AloneIsSafe
    <3>2. ASSUME NEW v \in Updaters \ {u} PROVE Written(v)'
      BY <3>1, <3>2, <2>2 DEF Written, AtWork
    <3>3. ASSUME ~windows PROVE Written(u)'
      <4>1. fd[u] = name["tmp"] /\ \A n \in Parts : n < part[u] => content[fd[u]][n] = body[u]
        BY <2>1, <3>3 DEF UpdateInv, AloneIsSafe, Written
      <4>2. PICK f : f = fd[u]
        OBVIOUS
      <4>3. Complete(u) => Whole(f)' \/ Spoilt(f)'
        BY <1>1, <2>1, <4>1, <4>2, ClosedIsAccounted DEF UpdateInv
      <4>4. name'["tmp"] = f
        BY <1>1, <4>1, <4>2
      <4>5. Complete(u) => Whole(name["tmp"])' \/ Spoilt(name["tmp"])'
        BY <4>3, <4>4 DEF Whole, Spoilt
      <4> QED BY <2>1, <4>5 DEF Written
    <3> QED BY <3>1, <3>2, <3>3, <2>3
  <2> QED BY <2>4, <2>5, <2>6, <2>7, <1>1, <1>2, <1>3, WriteStep DEF uhistory
<1> QED BY <1>4, <1>5

(* Steps that leave the disk alone.                                        *)
LEMMA QuietSteps ==
  ASSUME UpdateInv, DiskTypes', UpdaterTypes', RestTypes', PendingTypes', NEW u \in Updaters,
         OpenFails(u) \/ RenameFails(u)
  PROVE  UpdateInv'
<1>1. /\ u \in AtWork
      /\ UNCHANGED <<windows, name, content, used, server, dirty, onDisk, overlapped, hasty>>
  BY DEF OpenFails, RenameFails, disk, pending, uhistory, AtWork
<1>2. CASE OpenFails(u)
  <2>1. Finish(u)
    BY <1>2 DEF OpenFails
  <2>2. WhoHasWhat' /\ \A f \in Files : (Runs(f)' => Runs(f)) /\ (Open(f)' => Open(f))
    BY <2>1, <1>1, FinishedHasNothing
  <2>3. AloneIsSafe'
    BY <2>1, <1>1, FinishedIsSafe
  <2> QED BY <2>2, <2>3, <1>1, FilesAssumption, WriteStep DEF uhistory
<1>3. CASE RenameFails(u)
  <2>1. /\ upc[u] \in {"away", "replace"} /\ upc'[u] = "cleanup"
        /\ UNCHANGED <<image, body, part, fd>>
    BY <1>3 DEF UpdateInv, UpdaterTypes, RenameFails
  <2>2. \A v \in Updaters \ {u} : upc'[v] = upc[v]
    BY <1>3 DEF UpdateInv, UpdaterTypes, RenameFails
  <2>3. AtWork' = AtWork
    BY <2>1, <2>2 DEF UpdateInv, UpdaterTypes, AtWork
  <2>4. WhoHasWhat'
    BY <1>1, <2>1, <2>2, <2>3 DEF UpdateInv, WhoHasWhat
  <2>5. \A f : (Runs(f)' <=> Runs(f)) /\ (Open(f)' <=> Open(f))
    BY <1>1, <2>1, <2>3 DEF Runs, Open
  <2>6. ASSUME NEW v \in Updaters, Written(v) PROVE Written(v)'
    <3>1. CASE v = u
      BY <3>1, <2>1 DEF Written
    <3>2. CASE v # u
      BY <3>2, <2>6, <1>1, <2>1, <2>2 DEF Written, Whole, Spoilt
    <3> QED BY <3>1, <3>2
  <2>7. AloneIsSafe'
    BY <1>1, <2>3, <2>6 DEF UpdateInv, AloneIsSafe
  <2> QED BY <1>1, <2>4, <2>5, <2>7, FilesAssumption, WriteStep DEF uhistory
<1> QED BY <1>2, <1>3

(* A step that touches the server alone, if anything.                      *)
LEMMA SameButServer ==
  ASSUME UpdateInv,
         UNCHANGED <<windows, name, content, used, dirty, onDisk, upc, image, body, part, fd, overlapped, hasty>>
  PROVE  NamesApart' /\ WhoHasWhat' /\ AloneIsSafe' /\ BinaryKept' /\ SolidKept' /\ DiskSafe'
<1>1. AtWork' = AtWork /\ \A u \in Updaters : Written(u)' <=> Written(u)
  BY DEF AtWork, Written, Whole, Spoilt
<1>2. NamesApart'
  BY <1>1 DEF UpdateInv, NamesApart, Open
<1>3. BinaryKept' /\ SolidKept'
  BY DEF UpdateInv, BinaryKept, SolidKept, Solid, Whole, Spoilt
<1>4. DiskSafe'
  BY <1>1 DEF UpdateInv, DiskSafe, Solid, Whole, Spoilt, Open
<1>5. WhoHasWhat'
  BY <1>1 DEF UpdateInv, WhoHasWhat
<1>6. AloneIsSafe'
  BY <1>1 DEF UpdateInv, AloneIsSafe
<1> QED BY <1>2, <1>3, <1>4, <1>5, <1>6

(* Whoever removes or renames something on Windows runs from a file that   *)
(* he cannot take the last name of.                                        *)
LEMMA NameStep ==
  ASSUME UpdateInv, DiskTypes', UpdaterTypes', RestTypes', PendingTypes', NEW u \in AtWork,
         UNCHANGED <<windows, content, used, server, dirty, onDisk, uhistory>>,
         NamesApart', WhoHasWhat', AloneIsSafe', BinaryKept',
         name'["tmp"] = None \/ name'["tmp"] = name["tmp"],
         \A f \in Files : (Runs(f)' => Runs(f)) /\ (Open(f)' => Open(f)),
         \A f \in Files : Runs(f) =>
           /\ f # name'["tmp"]
           /\ windows => f \in {name'["exe"], name'["old"]}
  PROVE  UpdateInv'
<1> USE FilesAssumption
<1>1. \A f : Whole(f)' <=> Whole(f)
  BY DEF Whole
<1>2. RunsSafely'
  BY <1>1 DEF UpdateInv, RunsSafely
<1>3. PICK f \in Files : Runs(f) /\ (~hasty => f \notin dirty)
  BY DEF UpdateInv, WhoHasWhat, Runs, AtWork
<1>4. SolidKept'
  <2>1. Whole(f)' /\ (windows => f = name'["exe"] \/ f = name'["old"])
    BY <1>1, <1>3 DEF UpdateInv, RunsSafely
  <2>2. f = name'["exe"] /\ f \notin dirty => Solid(name["exe"])'
    BY <2>1 DEF Solid, Whole
  <2>3. f = name'["old"] /\ f \notin dirty => Solid(name["old"])'
    BY <2>1 DEF Solid, Whole
  <2> QED BY <1>3, <2>1, <2>2, <2>3 DEF SolidKept, uhistory
<1>5. DiskSafe'
  BY DiskStep DEF uhistory
<1> QED BY <1>2, <1>4, <1>5 DEF UpdateInv

(* On Windows, files that are open do not become binaries.                 *)
LEMMA ApartStep ==
  ASSUME UpdateInv, UNCHANGED <<windows, used>>,
         \A m, n \in Names : name'[m] # None /\ name'[m] = name'[n] => m = n,
         \A f \in Files : Open(f)' => Open(f),
         \A n \in Names : name'[n] # None =>
           \/ \E m \in Names : name'[n] = name[m] /\ (m = "tmp" => n = "tmp")
           \/ \E m \in Names : name'[n] = name[m] /\ (windows => ~Open(name[m]))
  PROVE  NamesApart'
<1>1. \A n \in Names : name[n] # None => name[n] \in Files /\ name[n] \in used
  BY DEF UpdateInv, DiskTypes, NamesApart
<1>2. \A n \in Names : name'[n] # None => name'[n] \in used'
  BY <1>1
<1>3. ASSUME windows, NEW n \in {"exe", "old"}, name'[n] # None PROVE ~Open(name[n])'
  <2>1. PICK f : f = name'[n]
    OBVIOUS
  <2>2. f \in Files /\ ~Open(f)
    BY <1>1, <1>3, <2>1 DEF UpdateInv, NamesApart, Names
  <2>3. ~Open(f)'
    BY <2>2
  <2> QED BY <2>1, <2>3 DEF Open
<1> QED BY <1>2, <1>3 DEF NamesApart

LEMMA RemoveTempStep ==
  ASSUME UpdateInv, DiskTypes', UpdaterTypes', RestTypes', PendingTypes', NEW u \in Updaters, RemoveTemp(u)
  PROVE  UpdateInv'
<1>1. /\ Finish(u) /\ u \in AtWork
      /\ name'["exe"] = name["exe"] /\ name'["old"] = name["old"]
      /\ name'["tmp"] \in {name["tmp"], None}
      /\ UNCHANGED <<windows, content, used, dirty, onDisk, server, uhistory>>
  BY DEF UpdateInv, DiskTypes, RemoveTemp, Remove, AtWork, Names, pending
<1>2. WhoHasWhat' /\ \A f \in Files : (Runs(f)' => Runs(f)) /\ (Open(f)' => Open(f))
  BY <1>1, FinishedHasNothing DEF uhistory
<1>3. NamesApart'
  <2>1. \A m, n \in Names : name'[m] # None /\ name'[m] = name'[n] => m = n
    BY <1>1 DEF UpdateInv, NamesApart, Names
  <2>2. \A n \in Names : name'[n] # None => name'[n] = name[n]
    BY <1>1 DEF Names
  <2> QED BY <1>1, <1>2, <2>1, <2>2, ApartStep
<1>4. AloneIsSafe'
  BY <1>1, FinishedIsSafe DEF uhistory
<1>5. BinaryKept'
  BY <1>1 DEF UpdateInv, BinaryKept, Whole, Spoilt, uhistory
<1>6. \A f \in Files : Runs(f) => /\ f # name'["tmp"]
                                  /\ windows => f \in {name'["exe"], name'["old"]}
  BY <1>1, FilesAssumption DEF UpdateInv, RunsSafely
<1> QED BY <1>1, <1>2, <1>3, <1>4, <1>5, <1>6, NameStep

(* The two steps before the rename on Windows: a file that is locked stays *)
(* under its name, or moves from the one to the other.                     *)
LEMMA MakeWayStep ==
  ASSUME UpdateInv, DiskTypes', UpdaterTypes', RestTypes', PendingTypes', NEW u \in Updaters,
         RemoveOld(u) \/ MoveAway(u)
  PROVE  UpdateInv'
<1>1. /\ upc[u] \in {"discard", "away"} /\ upc'[u] \in {"away", "replace"}
      /\ windows
      /\ UNCHANGED <<windows, content, used, dirty, onDisk, image, body, part, fd, server, uhistory>>
  BY DEF UpdateInv, UpdaterTypes, WhoHasWhat, RemoveOld, MoveAway, pending
<1>2. \A v \in Updaters \ {u} : upc'[v] = upc[v]
  BY DEF UpdateInv, UpdaterTypes, RemoveOld, MoveAway
<1>3. AtWork' = AtWork /\ u \in AtWork
  BY <1>1, <1>2 DEF UpdateInv, UpdaterTypes, AtWork
<1>4. /\ name'["tmp"] = name["tmp"]
      /\ \/ name'["exe"] = name["exe"] /\ name'["old"] \in {name["old"], None}
         \/ name'["exe"] = None /\ name'["old"] = name["exe"]
      /\ name'["old"] # name["old"] => ~Locked(name["old"])
  BY DEF UpdateInv, DiskTypes, RemoveOld, MoveAway, Remove, CanReplace, Names
<1>5. \A f : (Runs(f)' <=> Runs(f)) /\ (Open(f)' <=> Open(f))
  BY <1>1, <1>3 DEF Runs, Open
<1>6. NamesApart'
  <2>1. \A m, n \in Names : name'[m] # None /\ name'[m] = name'[n] => m = n
    BY <1>1, <1>4 DEF UpdateInv, NamesApart, Names
  <2>2. \A n \in Names : name'[n] # None => \E m \in Names : name'[n] = name[m] /\ (m = "tmp" => n = "tmp")
    BY <1>4 DEF Names
  <2> QED BY <1>1, <1>5, <2>1, <2>2, ApartStep
<1>7. WhoHasWhat'
  BY <1>1, <1>2, <1>3 DEF UpdateInv, WhoHasWhat, uhistory
<1>8. AloneIsSafe'
  BY <1>1, <1>3 DEF UpdateInv, AloneIsSafe, uhistory
<1>9. BinaryKept'
  BY <1>1 DEF BinaryKept
<1>10. \A f \in Files : Runs(f) => /\ f # name'["tmp"]
                                   /\ f \in {name'["exe"], name'["old"]}
  BY <1>1, <1>4, FilesAssumption DEF UpdateInv, RunsSafely, Locked
<1> QED BY <1>1, <1>3, <1>4, <1>5, <1>6, <1>7, <1>8, <1>9, <1>10, NameStep

LEMMA ReplaceStep ==
  ASSUME UpdateInv, DiskTypes', UpdaterTypes', RestTypes', PendingTypes', NEW u \in Updaters, Replace(u)
  PROVE  UpdateInv'
<1>1. /\ Finish(u) /\ u \in AtWork /\ upc[u] = "replace"
      /\ name["tmp"] # None /\ ~Locked(name["exe"]) /\ (windows => ~Open(name["tmp"]))
      /\ name'["exe"] = name["tmp"] /\ name'["old"] = name["old"] /\ name'["tmp"] = None
      /\ UNCHANGED <<windows, content, used, dirty, onDisk, server, uhistory>>
  BY DEF UpdateInv, DiskTypes, Replace, CanReplace, AtWork, Names, pending
<1>2. WhoHasWhat' /\ \A f \in Files : (Runs(f)' => Runs(f)) /\ (Open(f)' => Open(f))
  BY <1>1, FinishedHasNothing DEF uhistory
<1>3. NamesApart'
  <2>1. \A m, n \in Names : name'[m] # None /\ name'[m] = name'[n] => m = n
    BY <1>1 DEF UpdateInv, NamesApart, Names
  <2>2. \A n \in Names : name'[n] # None =>
           \/ \E m \in Names : name'[n] = name[m] /\ (m = "tmp" => n = "tmp")
           \/ \E m \in Names : name'[n] = name[m] /\ (windows => ~Open(name[m]))
    BY <1>1 DEF Names
  <2> QED BY <1>1, <1>2, <2>1, <2>2, ApartStep
<1>4. AloneIsSafe'
  BY <1>1, FinishedIsSafe DEF uhistory
<1>5. BinaryKept'
  <2> SUFFICES ASSUME ~windows, ~overlapped PROVE Whole(name["exe"])' \/ Spoilt(name["exe"])'
    BY <1>1 DEF BinaryKept, uhistory
  <2>1. Whole(name["tmp"]) \/ Spoilt(name["tmp"])
    BY <1>1 DEF UpdateInv, AloneIsSafe, Written
  <2> QED BY <1>1, <2>1 DEF Whole, Spoilt
<1>6. \A f \in Files : Runs(f) => /\ f # name'["tmp"]
                                  /\ windows => f \in {name'["exe"], name'["old"]}
  BY <1>1, FilesAssumption DEF UpdateInv, RunsSafely, Locked
<1> QED BY <1>1, <1>2, <1>3, <1>4, <1>5, <1>6, NameStep

LEMMA LaunchStep ==
  ASSUME UpdateInv, DiskTypes', UpdaterTypes', RestTypes', PendingTypes', Launch \/ Leave
  PROVE  UpdateInv'
<1>1. /\ UNCHANGED <<windows, name, content, used, dirty, onDisk, upc, image, body, part, fd, overlapped, hasty>>
      /\ server' = None \/ (server' = name["exe"] /\ Starts(name["exe"]))
  BY DEF Launch, Leave, disk, pending, updater, uhistory
<1>2. NamesApart' /\ WhoHasWhat' /\ AloneIsSafe' /\ BinaryKept' /\ SolidKept' /\ DiskSafe'
  BY <1>1, SameButServer
<1>3. RunsSafely'
  <2> SUFFICES ASSUME NEW f \in Files, Runs(f)'
               PROVE  /\ f \in used /\ Whole(f)' /\ ~Open(f)'
                      /\ f # name["tmp"]
                      /\ windows => f \in {name["exe"], name["old"]}
    BY <1>1 DEF RunsSafely
  <2>1. (Whole(f)' <=> Whole(f)) /\ (Open(f)' <=> Open(f))
    BY <1>1 DEF Whole, Open, AtWork
  <2>2. CASE Runs(f)
    BY <2>1, <2>2 DEF UpdateInv, RunsSafely
  <2>3. CASE f = name["exe"] /\ Starts(f)
    BY <2>1, <2>3, FilesAssumption DEF UpdateInv, NamesApart, Starts, Names
  <2>4. Runs(f) \/ (f = name["exe"] /\ Starts(f))
    BY <1>1, FilesAssumption DEF Runs, AtWork
  <2> QED BY <2>2, <2>3, <2>4
<1> QED BY <1>2, <1>3 DEF UpdateInv

(* What the system puts on the disk is safe from then on.                  *)
LEMMA WriteBackStep ==
  ASSUME UpdateInv, WriteBack
  PROVE  UpdateInv'
<1>1. /\ UNCHANGED <<windows, name, content, used, upc, image, body, part, fd, server, overlapped, hasty>>
      /\ dirty' \subseteq dirty
      /\ onDisk' = onDisk \/ onDisk' = name
  BY DEF WriteBack, SyncNames, SyncFile, disk, updater, uhistory
<1>2. DiskTypes' /\ UpdaterTypes' /\ RestTypes' /\ PendingTypes'
  BY <1>1 DEF UpdateInv, DiskTypes, UpdaterTypes, RestTypes, PendingTypes
<1>3. /\ AtWork' = AtWork
      /\ \A f : (Runs(f)' <=> Runs(f)) /\ (Open(f)' <=> Open(f)) /\ (Whole(f)' <=> Whole(f))
                /\ (Spoilt(f)' <=> Spoilt(f)) /\ (Solid(f) => Solid(f)')
  BY <1>1 DEF AtWork, Runs, Open, Whole, Spoilt, Solid
<1>4. NamesApart' /\ RunsSafely' /\ BinaryKept' /\ SolidKept'
  <2>1. NamesApart'
    BY <1>1 DEF UpdateInv, NamesApart, Open, AtWork
  <2>2. RunsSafely'
    BY <1>1, <1>3 DEF UpdateInv, RunsSafely
  <2>3. BinaryKept'
    BY <1>1 DEF UpdateInv, BinaryKept, Whole, Spoilt
  <2>4. SolidKept'
    BY <1>1 DEF UpdateInv, SolidKept, Solid, Whole
  <2> QED BY <2>1, <2>2, <2>3, <2>4
<1>5. WhoHasWhat' /\ AloneIsSafe'
  <2>1. WhoHasWhat'
    BY <1>1, <1>3 DEF UpdateInv, WhoHasWhat
  <2>2. \A u \in Updaters : Written(u)' <=> Written(u)
    BY <1>1 DEF Written, Whole, Spoilt
  <2> QED BY <1>1, <1>3, <2>1, <2>2 DEF UpdateInv, AloneIsSafe
<1>6. DiskSafe'
  <2>1. CASE onDisk' = onDisk
    BY <1>1, <2>1 DEF UpdateInv, DiskSafe, Solid, Whole, Spoilt, Open, AtWork
  <2>2. CASE onDisk' = name
    <3>1. /\ \A m, n \in Names : name[m] # None /\ name[m] = name[n] => m = n
          /\ \A n \in Names : name[n] # None => name[n] \in used
          /\ \A n \in {"exe", "old"} : name[n] # None =>
                name[n] # name["tmp"] /\ (windows => ~Open(name[n]))
          /\ ~windows /\ ~overlapped => Whole(name["exe"]) \/ Spoilt(name["exe"])
          /\ windows /\ ~hasty => Solid(name["exe"]) \/ Solid(name["old"])
      BY DEF UpdateInv, NamesApart, BinaryKept, SolidKept, Names
    <3> QED BY <1>1, <2>2, <3>1 DEF DiskSafe, Solid, Whole, Spoilt, Open, AtWork
  <2> QED BY <1>1, <2>1, <2>2
<1> QED BY <1>2, <1>4, <1>5, <1>6 DEF UpdateInv

(* After a failure of the power nobody runs, and what the disk has counts. *)
LEMMA PowerStep ==
  ASSUME UpdateInv, PowerFails
  PROVE  UpdateInv'
<1> USE FilesAssumption
<1>1. PICK lost \in [dirty -> SUBSET Parts] :
         content' = [f \in Files |-> IF f \in dirty THEN Losing(f, lost[f]) ELSE content[f]]
  BY DEF PowerFails
<1>2. /\ name' = onDisk /\ onDisk' = onDisk /\ dirty' = {} /\ server' = None
      /\ UNCHANGED <<windows, used, overlapped, hasty>>
      /\ \A u \in Updaters : /\ upc'[u] \notin {"copy", "replace", "discard", "away"}
                             /\ fd'[u] = None
  BY DEF PowerFails, uhistory, AtWork
<1>3. AtWork' = {}
  BY DEF PowerFails, AtWork
<1>4. \A f \in Files : ~Runs(f)' /\ ~Open(f)'
  BY <1>2, <1>3 DEF Runs, Open
<1>5. DiskTypes'
  <2>1. content' \in [Files -> Content]
    BY <1>1, LosingTypes DEF UpdateInv, DiskTypes
  <2> QED BY <1>2, <2>1 DEF UpdateInv, DiskTypes, PendingTypes
<1>6. UpdaterTypes'
  <2>1. upc' \in [Updaters -> {"idle", "open", "copy", "cleanup", "discard", "away", "replace", "done"}]
    BY DEF PowerFails, UpdateInv, UpdaterTypes
  <2>2. /\ image' \in [Updaters -> Files \cup {None}] /\ fd' \in [Updaters -> Files \cup {None}]
        /\ body' \in [Updaters -> {"new", "page"}] /\ part' \in [Updaters -> 1..3]
    BY DEF PowerFails
  <2> QED BY <1>2, <2>1, <2>2 DEF UpdaterTypes
<1>7. RestTypes' /\ PendingTypes'
  BY <1>2 DEF UpdateInv, RestTypes, PendingTypes
<1>8. \A n \in Names : onDisk[n] # None => onDisk[n] \in Files
  BY DEF UpdateInv, PendingTypes
<1>9. ASSUME NEW f \in Files, Whole(f) \/ Spoilt(f) PROVE Whole(f)' \/ Spoilt(f)'
  <2>1. CASE content'[f] = content[f]
    BY <2>1, <1>9 DEF Whole, Spoilt
  <2>2. CASE content'[f] # content[f]
    <3>1. content'[f] = Losing(f, lost[f])
      BY <1>1, <2>2
    <3>2. DOMAIN content[f] = Parts /\ DOMAIN content'[f] = Parts
      BY <3>1 DEF UpdateInv, DiskTypes, Content, Losing
    <3>3. \E n \in Parts : content'[f][n] # content[f][n]
      <4>1. content[f] = [n \in Parts |-> content[f][n]] /\ content'[f] = [n \in Parts |-> content'[f][n]]
        BY <3>1, <3>2 DEF UpdateInv, DiskTypes, Content, Losing
      <4> QED BY <4>1, <2>2
    <3>4. \E n \in Parts : content'[f][n] = "lost"
      BY <3>1, <3>3 DEF Losing
    <3> QED BY <3>4 DEF Spoilt
  <2> QED BY <2>1, <2>2
<1>10. ASSUME NEW f \in Files, Solid(f) PROVE Solid(f)'
  <2>1. content'[f] = content[f] /\ f \notin dirty'
    BY <1>1, <1>2, <1>10 DEF Solid
  <2> QED BY <2>1, <1>10 DEF Solid, Whole
<1>11. ~windows /\ ~overlapped => Whole(onDisk["exe"])' \/ Spoilt(onDisk["exe"])'
  <2> SUFFICES ASSUME ~windows, ~overlapped PROVE Whole(onDisk["exe"])' \/ Spoilt(onDisk["exe"])'
    OBVIOUS
  <2>1. PICK f : f = onDisk["exe"]
    OBVIOUS
  <2>2. Whole(f) \/ Spoilt(f)
    BY <2>1 DEF UpdateInv, DiskSafe
  <2>3. f \in Files
    BY <2>1, <2>2, <1>8 DEF Whole, Spoilt, Names
  <2>4. Whole(f)' \/ Spoilt(f)'
    BY <2>2, <2>3, <1>9
  <2> QED BY <2>1, <2>4, <1>2 DEF Whole, Spoilt
<1>12. windows /\ ~hasty => Solid(onDisk["exe"])' \/ Solid(onDisk["old"])'
  <2>1. ASSUME NEW n \in {"exe", "old"}, Solid(onDisk[n]) PROVE Solid(onDisk[n])'
    <3>1. PICK f : f = onDisk[n]
      OBVIOUS
    <3>2. f \in Files
      BY <2>1, <3>1, <1>8 DEF Solid, Whole, Names
    <3>3. Solid(f)'
      BY <2>1, <3>1, <3>2, <1>10
    <3> QED BY <3>1, <3>3, <1>2 DEF Solid, Whole
  <2> QED BY <2>1 DEF UpdateInv, DiskSafe
<1>13. BinaryKept' /\ SolidKept'
  BY <1>2, <1>11, <1>12 DEF BinaryKept, SolidKept, Solid, Whole, Spoilt
<1>14. NamesApart'
  <2>1. \A n \in {"exe", "old"} : ~Open(name[n])'
    BY <1>3 DEF Open
  <2> QED BY <1>2, <2>1 DEF UpdateInv, DiskSafe, NamesApart
<1>15. DiskSafe'
  <2>1. \A n \in {"exe", "old"} : onDisk[n] # None => onDisk[n] # onDisk["tmp"]
    BY DEF UpdateInv, DiskSafe, Names
  <2>2. \A n \in {"exe", "old"} : ~Open(onDisk[n])'
    BY <1>3 DEF Open
  <2> QED BY <1>2, <1>11, <1>12, <2>1, <2>2 DEF UpdateInv, DiskSafe
<1>16. WhoHasWhat' /\ RunsSafely' /\ AloneIsSafe'
  <2>1. WhoHasWhat'
    BY <1>2, <1>3 DEF WhoHasWhat
  <2>2. RunsSafely'
    BY <1>4 DEF RunsSafely
  <2>3. \A u \in Updaters : Written(u)'
    BY <1>2 DEF Written
  <2> QED BY <1>3, <2>1, <2>2, <2>3 DEF AloneIsSafe
<1> QED BY <1>5, <1>6, <1>7, <1>13, <1>14, <1>15, <1>16 DEF UpdateInv

LEMMA InvStep ==
  ASSUME UpdateInv, [UpdateNext]_updateVars
  PROVE  UpdateInv'
<1>1. ASSUME NEW u \in Updaters, Update(u) PROVE UpdateInv'
  <2>1. DiskTypes' /\ UpdaterTypes' /\ RestTypes' /\ PendingTypes'
    BY <1>1, TypesStep, PendingTypesStep DEF UpdateInv
  <2> QED BY <1>1, <2>1, AgreeStep, OpenTempStep, CopyStep, CloseSteps, QuietSteps, RemoveTempStep,
             MakeWayStep, ReplaceStep DEF Update
<1>2. CASE Launch \/ Leave
  <2>1. DiskTypes' /\ UpdaterTypes' /\ PendingTypes'
    BY <1>2 DEF Launch, Leave, UpdateInv, DiskTypes, UpdaterTypes, PendingTypes, disk, pending, updater
  <2>2. RestTypes'
    BY <1>2 DEF Launch, Leave, Starts, Whole, UpdateInv, DiskTypes, RestTypes, uhistory, Names
  <2> QED BY <1>2, <2>1, <2>2, LaunchStep
<1>3. CASE WriteBack \/ PowerFails
  BY <1>3, WriteBackStep, PowerStep
<1>4. CASE UNCHANGED updateVars
  <2>1. UNCHANGED <<windows, name, content, used, dirty, onDisk, upc, image, body, part, fd, server, overlapped, hasty>>
    BY <1>4 DEF updateVars, disk, pending, updater, uhistory
  <2>2. DiskTypes' /\ UpdaterTypes' /\ RestTypes' /\ PendingTypes'
    BY <2>1 DEF UpdateInv, DiskTypes, UpdaterTypes, RestTypes, PendingTypes
  <2>3. NamesApart' /\ WhoHasWhat' /\ AloneIsSafe' /\ BinaryKept' /\ SolidKept' /\ DiskSafe'
    BY <2>1, SameButServer
  <2>4. \A f : (Runs(f)' <=> Runs(f)) /\ (Open(f)' <=> Open(f)) /\ (Whole(f)' <=> Whole(f))
    BY <2>1 DEF Runs, Open, AtWork, Whole
  <2>5. RunsSafely'
    BY <2>1, <2>4 DEF UpdateInv, RunsSafely
  <2> QED BY <2>2, <2>3, <2>5 DEF UpdateInv
<1> QED BY <1>1, <1>2, <1>3, <1>4 DEF UpdateNext

LEMMA RunningStep ==
  ASSUME UpdateInv, UpdateNext
  PROVE  \A f \in Files : Runs(f) /\ Runs(f)' => content'[f] = content[f]
<1>1. ASSUME NEW u \in Updaters, NEW g \in Files, NEW answer \in {"new", "page"}, OpenTemp(u, g, answer)
      PROVE  \A f \in Files : Runs(f) => content'[f] = content[f]
  <2>1. g \notin used \/ g = name["tmp"]
    BY <1>1 DEF OpenTemp
  <2>2. \A f \in Files : f # g => content'[f] = content[f]
    BY <1>1 DEF UpdateInv, DiskTypes, OpenTemp
  <2> QED BY <2>1, <2>2 DEF UpdateInv, RunsSafely
<1>2. ASSUME NEW u \in Updaters, Copy(u) \/ Copied(u) \/ CopyFails(u) \/ Kill(u)
      PROVE  \A f \in Files : Runs(f) => content'[f] = content[f]
  <2>1. Open(fd[u])
    BY <1>2 DEF Copy, Copied, CopyFails, Kill, Open, AtWork
  <2>2. \A f \in Files : f # fd[u] => content'[f] = content[f]
    BY <1>2 DEF UpdateInv, DiskTypes, Copy, Copied, CopyFails, Kill, CloseTemp
  <2> QED BY <2>1, <2>2 DEF UpdateInv, RunsSafely
<1>3. CASE PowerFails
  <2>1. AtWork' = {} /\ server' = None
    BY <1>3 DEF PowerFails, AtWork
  <2> QED BY <2>1, FilesAssumption DEF Runs
<1>4. CASE UNCHANGED content
  BY <1>4
<1> QED BY <1>1, <1>2, <1>3, <1>4
       DEF UpdateNext, Update, Agree, OpenFails, RemoveTemp, RemoveOld, MoveAway, Replace,
           RenameFails, Launch, Leave, WriteBack, SyncFile, SyncNames, disk

-----------------------------------------------------------------------------
(* The server                                                              *)

LEMMA ServerStepUpdates ==
  ASSUME [ServerNext]_serverVars
  PROVE  [UpdateNext]_updateVars
<1>1. CASE Start \/ StartFails \/ Killed
  BY <1>1 DEF Start, StartFails, Killed, End, UpdateNext
<1>2. CASE Main
  BY <1>2 DEF Main, Listen, Shutdown, Drained, TimesUp, CloseDatabase, Exit, Go, End, UpdateNext
<1>3. CASE Signal
  BY <1>3 DEF Signal, Go
<1>4. ASSUME NEW r \in Handlers, Handler(r) PROVE UNCHANGED updateVars
  BY <1>4 DEF Handler, Accept, Statement, Refused, ClientLeaves, Move
<1>5. CASE (\E u \in Updaters : Update(u)) \/ WriteBack \/ PowerLost
  BY <1>5 DEF UpdateNext, PowerLost
<1>6. CASE UNCHANGED serverVars
  BY <1>6 DEF serverVars
<1> QED BY <1>1, <1>2, <1>3, <1>4, <1>5, <1>6 DEF ServerNext

(* The server is one of the worlds that SelfUpdate allows: what it does to *)
(* the binary is to start from it and to end, in main.go:2925-2963.  So    *)
(* whatever holds of UpdateSpec holds of ServerSpec.                       *)
THEOREM ServerImplementsUpdate == ServerSpec => UpdateSpec
<1>1. ServerInit => UpdateInit
  BY DEF ServerInit
<1>2. [ServerNext]_serverVars => [UpdateNext]_updateVars
  BY ServerStepUpdates
<1> QED BY <1>1, <1>2, PTL DEF ServerSpec, UpdateSpec

(* FinishedInTime for the moment before the database is closed, too: from  *)
(* there on nobody new comes, and who is still busy was seen to be late.   *)
LateInv ==
  /\ phase = "closing" => Busy \subseteq late
  /\ phase # "closed" => \A r \in Handlers : rpc[r] # "refused"

ServerInv == UpdateInv /\ ServerTypeOK /\ LateInv /\ FinishedInTime

LEMMA ServerInitInv == ServerInit => ServerInv
<1> SUFFICES ASSUME ServerInit PROVE ServerInv
  OBVIOUS
<1>1. UpdateInv
  BY InitInv DEF ServerInit
<1>2. ServerTypeOK
  BY DEF ServerInit, UpdateInit, ServerTypeOK
<1>3. LateInv /\ FinishedInTime
  BY DEF ServerInit, LateInv, FinishedInTime
<1> QED BY <1>1, <1>2, <1>3 DEF ServerInv

LEMMA ServerInvStep ==
  ASSUME ServerInv, [ServerNext]_serverVars
  PROVE  ServerInv'
<1> USE DEF ServerInv, ServerTypeOK, LateInv, FinishedInTime
<1>0. UpdateInv'
  BY ServerStepUpdates, InvStep
<1>1. CASE Start
  <2>1. server' # None
    BY <1>1, FilesAssumption DEF Start, Launch, Starts, Whole
  <2> QED BY <1>0, <1>1, <2>1 DEF Start
<1>2. CASE StartFails \/ Killed \/ Exit \/ PowerLost
  BY <1>0, <1>2 DEF StartFails, Killed, Exit, End, Leave, PowerLost, PowerFails
<1>3. CASE Listen \/ Signal \/ Shutdown \/ Drained \/ CloseDatabase
  <2>1. server' = server /\ UNCHANGED <<rpc, late>>
    BY <1>3 DEF Listen, Signal, Shutdown, Drained, CloseDatabase, Go, updateVars
  <2>2. Busy' = Busy
    BY <2>1 DEF Busy
  <2> QED BY <1>0, <1>3, <2>1, <2>2 DEF Listen, Signal, Shutdown, Drained, CloseDatabase, Go, Idle
<1>4. CASE TimesUp
  <2>1. server' = server /\ rpc' = rpc
    BY <1>4 DEF TimesUp, updateVars
  <2>2. Busy' = Busy /\ Busy \subseteq Handlers
    BY <2>1 DEF Busy
  <2> QED BY <1>0, <1>4, <2>1, <2>2 DEF TimesUp
<1>5. ASSUME NEW r \in Handlers, Handler(r) PROVE ServerInv'
  <2>1. server' = server /\ UNCHANGED <<phase, late>>
    BY <1>5 DEF Handler, Accept, Statement, Refused, ClientLeaves, Move, updateVars
  <2>2. \A q \in Handlers \ {r} : rpc'[q] = rpc[q]
    BY <1>5 DEF Handler, Accept, Statement, Refused, ClientLeaves, Move
  <2>3. rpc' \in [Handlers -> {"idle", "first", "second", "stream", "refused"}]
    BY <1>5 DEF Handler, Accept, Statement, Refused, ClientLeaves, Move
  <2>4. CASE Accept(r)
    <3>1. phase \in {"serving", "signalled"} /\ rpc'[r] # "refused"
      BY <2>4 DEF Accept, Move
    <3> QED BY <1>0, <2>1, <2>2, <2>3, <3>1
  <2>5. CASE Statement(r) \/ ClientLeaves(r)
    <3>1. r \in Busy /\ rpc'[r] \in {"second", "idle"}
      BY <2>5 DEF Statement, ClientLeaves, Move, Busy
    <3>2. Busy' \subseteq Busy
      BY <2>2, <3>1 DEF Busy
    <3> QED BY <1>0, <2>1, <2>2, <2>3, <3>1, <3>2
  <2>6. CASE Refused(r)
    <3>1. phase = "closed" /\ r \in Busy /\ rpc'[r] = "refused"
      BY <2>6 DEF Refused, Move, Busy
    <3>2. Busy' \subseteq Busy
      BY <2>2, <3>1 DEF Busy
    <3> QED BY <1>0, <2>1, <2>2, <2>3, <3>1, <3>2
  <2> QED BY <1>5, <2>4, <2>5, <2>6 DEF Handler
<1>6. CASE ((\E u \in Updaters : Update(u)) \/ WriteBack) /\ UNCHANGED life
  <2>1. server' = server
    BY <1>6 DEF Update, Agree, OpenTemp, OpenFails, Copy, Copied, CopyFails, RemoveTemp, RemoveOld,
                MoveAway, Replace, RenameFails, Kill, WriteBack, SyncFile, SyncNames
  <2> QED BY <1>0, <1>6, <2>1 DEF life, Busy
<1>7. CASE UNCHANGED serverVars
  BY <1>0, <1>7 DEF serverVars, updateVars, life, Busy
<1> QED BY <1>1, <1>2, <1>3, <1>4, <1>5, <1>6, <1>7 DEF ServerNext, Main

THEOREM ServerInvariant == ServerSpec => []ServerInv
BY ServerInitInv, ServerInvStep, PTL DEF ServerSpec

(* The variables of the updaters and of the server keep their types, and   *)
(* the server runs from a file exactly while its process is there.         *)
THEOREM ServerTypes == ServerSpec => [](UpdateTypeOK /\ ServerTypeOK)
<1>1. ServerInv => UpdateTypeOK /\ ServerTypeOK
  BY InvMeansTypes DEF ServerInv
<1> QED BY <1>1, ServerInvariant, PTL

(* BinaryKept: a whole binary has its name, wherever updaters are killed   *)
(* or the power fails and whatever of the names reached the disk, unless   *)
(* updaters overlapped, the download was not the binary, or that file lost *)
(* a part that the system had taken.                                       *)
THEOREM BinaryIsKept == ServerSpec => []BinaryKept
<1>1. ServerInv => BinaryKept
  BY DEF ServerInv, UpdateInv
<1> QED BY <1>1, ServerInvariant, PTL

(* BinaryRecoverable: on Windows one of two names has a whole binary, for  *)
(* any number of updaters that overlap.                                    *)
THEOREM BinaryIsRecoverable == ServerSpec => []BinaryRecoverable
<1>1. ServerInv => BinaryRecoverable
  BY InvMeansRecoverable DEF ServerInv
<1> QED BY <1>1, ServerInvariant, PTL

(* RunningUntouched: nobody writes to a file that runs.                    *)
THEOREM RunningIsUntouched == ServerSpec => RunningUntouched
<1>1. ServerInv /\ [ServerNext]_serverVars
      => [\A f \in Files : Runs(f) /\ Runs(f)' => content'[f] = content[f]]_updateVars
  BY ServerStepUpdates, RunningStep DEF ServerInv
<1> QED BY <1>1, ServerInvariant, PTL DEF ServerSpec, RunningUntouched

(* FinishedInTime: what the closed database interrupts was late.           *)
THEOREM RequestsFinish == ServerSpec => []FinishedInTime
<1>1. ServerInv => FinishedInTime
  BY DEF ServerInv
<1> QED BY <1>1, ServerInvariant, PTL
=============================================================================
