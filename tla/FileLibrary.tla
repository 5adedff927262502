---------------------------- MODULE FileLibrary -----------------------------
(***************************************************************************)
(* One area of the file library (menu/files.go, store/files.go): a row in  *)
(* file_entry and a sealed blob <id>.bin on disk for each file.            *)
(*                                                                         *)
(* Add works under uploadMu, Delete does not, and each is several steps:   *)
(* they overtake one another, they fail half way, and the daemon may die   *)
(* between any two of them.                                                *)
(***************************************************************************)
EXTENDS Integers, FiniteSetsExt

CONSTANTS
    Users,         \* members
    SysOps,        \* those at or above CoSysOpLevel
    Sessions,      \* live sessions
    Logins,        \* who may be behind them: one user twice, or several
    Names,         \* filenames, up to case
    Sizes,         \* sizes of uploaded contents
    MaxFileBytes,  \* cap of one upload
    MaxUserBytes,  \* cap of the bytes of one uploader
    MaxFiles,      \* bound: rows ever inserted
    Nobody         \* uploadMu is free

ASSUME FileLibraryConstants ==
    /\ SysOps \subseteq Users
    /\ Logins \subseteq [Sessions -> Users]
    /\ Sizes \subseteq Nat \ {0}
    /\ MaxFileBytes \in Nat /\ MaxUserBytes \in Nat /\ MaxFiles \in Nat
    /\ Nobody \notin Sessions

VARIABLES
    rows,      \* file_entry
    lastId,    \* the highest id given out (AUTOINCREMENT)
    blob,      \* what is in <id>.bin: nothing, a part, or the sealed content
    mu,        \* uploadMu: the session holding it
    at,        \* where each session is
    who,       \* the user of each session
    listed,    \* browseFileArea's search result, copies of rows; {}: nil
    file,      \* the file each session uploads, or the copy of the row it deletes
    cut,       \* history: uploads that ended between the INSERT and the last step
    stray      \* history: blobs whose removal failed, was cut off or came too early

vars == <<rows, lastId, blob, mu, at, who, listed, file, cut, stray>>

Ids == 1 .. MaxFiles

\* The download counter and the description are only shown, and left out.
Entry == [id : Ids, name : Names, size : Sizes, by : Users]
NoFile == [id |-> 0]

\* Where Add is, from the lock to the path, and Delete
Adding == {"lock", "check", "insert", "write", "writing", "path"}
Places == {"list", "view", "delete", "remove"} \cup Adding

TypeOK ==
    /\ rows \subseteq Entry
    /\ lastId \in 0 .. MaxFiles
    /\ blob \in [Ids -> {"none", "part", "whole"}]
    /\ mu \in Sessions \cup {Nobody}
    /\ at \in [Sessions -> Places]
    /\ who \in [Sessions -> Users]
    /\ listed \in [Sessions -> SUBSET Entry]
    /\ file \in [Sessions -> Entry \cup [id : {0}, name : Names, size : Sizes, by : Users]
                             \cup {NoFile}]
    /\ cut \subseteq Ids
    /\ stray \subseteq Ids

Init ==
    /\ rows = {}
    /\ lastId = 0
    /\ blob = [i \in Ids |-> "none"]
    /\ mu = Nobody
    /\ at = [s \in Sessions |-> "list"]
    /\ who \in Logins
    /\ listed = [s \in Sessions |-> {}]
    /\ file = [s \in Sessions |-> NoFile]
    /\ cut = {}
    /\ stray = {}

-----------------------------------------------------------------------------
GoTo(s, place) == at' = [at EXCEPT ![s] = place]

\* Back at the top of browseFileArea's loop
BackToList(s) ==
    /\ GoTo(s, "list")
    /\ file' = [file EXCEPT ![s] = NoFile]

\* What the list shows, in whatever order
Shown(s) == IF listed[s] = {} THEN rows ELSE listed[s]

\* [S]earch, for something every file has, and [B] by user; [C] and [R] drop the result.
Search(s) ==
    /\ at[s] = "list"
    /\ \E hits \in {{}, rows} \cup {{f \in rows : f.by = u} : u \in Users} :
        listed' = [listed EXCEPT ![s] = hits]
    /\ UNCHANGED <<rows, lastId, blob, mu, at, who, file, cut, stray>>

\* downloadFile: Content gives the bytes if the blob is there and opens; a part does not
\* open.  Any other outcome goes back to the list.
Download(s) ==
    /\ at[s] = "list"
    /\ \E f \in Shown(s) : blob[f.id] = "whole"
    /\ GoTo(s, "view")
    /\ UNCHANGED <<rows, lastId, blob, mu, who, listed, file, cut, stray>>

Viewed(s) ==
    /\ at[s] = "view"
    /\ GoTo(s, "list")
    /\ UNCHANGED <<rows, lastId, blob, mu, who, listed, file, cut, stray>>

\* uploadFile, as far as the received content.  Add refuses a large one before it locks.
Upload(s) ==
    /\ at[s] = "list"
    /\ \E n \in Names, z \in {z \in Sizes : z <= MaxFileBytes} :
        file' = [file EXCEPT ![s] = [id |-> 0, name |-> n, size |-> z, by |-> who[s]]]
    /\ listed' = [listed EXCEPT ![s] = {}]
    /\ GoTo(s, "lock")
    /\ UNCHANGED <<rows, lastId, blob, mu, who, cut, stray>>

\* Mutant: Add does not wait for the uploads before it.
MuFreeIgnored == TRUE

MuFree == mu = Nobody

AddLock(s) ==
    /\ at[s] = "lock"
    /\ MuFree
    /\ mu' = s
    /\ GoTo(s, "check")
    /\ UNCHANGED <<rows, lastId, blob, who, listed, file, cut, stray>>

Unlock(s) == mu' = IF mu = s THEN Nobody ELSE mu

\* Files.UserBytes
UserBytes(u) == MapThenSumSet(LAMBDA f : f.size, {f \in rows : f.by = u})

\* No duplicate name in the area, and room in the quota
Allowed(f) ==
    /\ \A g \in rows : g.name # f.name
    /\ UserBytes(f.by) + f.size <= MaxUserBytes

AddCheck(s) ==
    /\ at[s] = "check"
    /\ IF Allowed(file[s])
       THEN GoTo(s, "insert") /\ UNCHANGED <<mu, file>>
       ELSE BackToList(s) /\ Unlock(s)
    /\ UNCHANGED <<rows, lastId, blob, who, listed, cut, stray>>

\* Mutant: the row keeps the id it had before the INSERT, none.
AddInsertNoId(s) ==
    /\ at[s] = "insert"
    /\ lastId < MaxFiles
    /\ lastId' = lastId + 1
    /\ rows' = rows \cup {file[s]}
    /\ GoTo(s, "write")
    /\ UNCHANGED <<blob, mu, who, listed, file, cut, stray>>

\* From here on the file is in everybody's list.
AddInsert(s) ==
    /\ at[s] = "insert"
    /\ lastId < MaxFiles
    /\ lastId' = lastId + 1
    /\ LET f == [file[s] EXCEPT !.id = lastId'] IN
        /\ rows' = rows \cup {f}
        /\ file' = [file EXCEPT ![s] = f]
    /\ GoTo(s, "write")
    /\ UNCHANGED <<blob, mu, who, listed, cut, stray>>

\* os.WriteFile creates the file ...
AddCreate(s) ==
    /\ at[s] = "write"
    /\ blob' = [blob EXCEPT ![file[s].id] = "part"]
    /\ stray' = stray \cup {i \in {file[s].id} : \A f \in rows : f.id # i}
    /\ GoTo(s, "writing")
    /\ UNCHANGED <<rows, lastId, mu, who, listed, file, cut>>

\* ... and fills it, even if its name has been removed meanwhile.
AddWrite(s) ==
    /\ at[s] = "writing"
    /\ blob' = [blob EXCEPT ![file[s].id] = IF @ = "part" THEN "whole" ELSE @]
    /\ GoTo(s, "path")
    /\ UNCHANGED <<rows, lastId, mu, who, listed, file, cut, stray>>

\* The row gets its path, the upload is reported.
AddDone(s) ==
    /\ at[s] = "path"
    /\ BackToList(s)
    /\ Unlock(s)
    /\ UNCHANGED <<rows, lastId, blob, who, listed, cut, stray>>

\* A statement, Seal or the write fails: Add returns the error and leaves what is there.
AddFails(s) ==
    /\ at[s] \in {"check", "insert", "write", "writing", "path"}
    /\ cut' = cut \cup {i \in {file[s].id} : at[s] \in {"write", "writing"}}
    /\ BackToList(s)
    /\ Unlock(s)
    /\ UNCHANGED <<rows, lastId, blob, who, listed, stray>>

\* [K]: a number of the list, of a file of his own or asked by a SysOp
ChooseDelete(s) ==
    /\ at[s] = "list"
    /\ \E f \in Shown(s) :
        /\ f.by = who[s] \/ who[s] \in SysOps
        /\ file' = [file EXCEPT ![s] = f]
    /\ GoTo(s, "delete")
    /\ UNCHANGED <<rows, lastId, blob, mu, who, listed, cut, stray>>

\* Mutant: the blob goes first.
DeleteRowLast(s) ==
    /\ at[s] = "delete"
    /\ blob' = [blob EXCEPT ![file[s].id] = "none"]
    /\ GoTo(s, "remove")
    /\ UNCHANGED <<rows, lastId, mu, who, listed, file, cut, stray>>

\* Files.Delete: the row ...
DeleteRow(s) ==
    /\ at[s] = "delete"
    /\ rows' = {f \in rows : f.id # file[s].id}
    /\ GoTo(s, "remove")
    /\ UNCHANGED <<lastId, blob, mu, who, listed, file, cut, stray>>

\* ... then the blob.  With no blob there os.Remove fails: the delete is reported as
\* failed, and a search result stays.
DeleteBlob(s) ==
    /\ at[s] = "remove"
    /\ blob' = [blob EXCEPT ![file[s].id] = "none"]
    /\ listed' = [listed EXCEPT ![s] = IF blob[file[s].id] = "none" THEN @ ELSE {}]
    /\ BackToList(s)
    /\ UNCHANGED <<rows, lastId, mu, who, cut, stray>>

\* The statement or the removal fails.
DeleteFails(s) ==
    /\ at[s] \in {"delete", "remove"}
    /\ stray' = stray \cup {i \in {file[s].id} : at[s] = "remove"}
    /\ BackToList(s)
    /\ UNCHANGED <<rows, lastId, blob, mu, who, listed, cut>>

\* The daemon dies and is started again; the same people log in.
Crash ==
    /\ at' = [s \in Sessions |-> "list"]
    /\ mu' = Nobody
    /\ listed' = [s \in Sessions |-> {}]
    /\ file' = [s \in Sessions |-> NoFile]
    /\ cut' = cut \cup {file[s].id : s \in {t \in Sessions : at[t] \in {"write", "writing"}}}
    /\ stray' = stray \cup {file[s].id : s \in {t \in Sessions : at[t] = "remove"}}
    /\ UNCHANGED <<rows, lastId, blob, who>>

Next ==
    \/ \E s \in Sessions :
        \/ Search(s) \/ Download(s) \/ Viewed(s)
        \/ Upload(s) \/ AddLock(s) \/ AddCheck(s) \/ AddInsert(s)
        \/ AddCreate(s) \/ AddWrite(s) \/ AddDone(s) \/ AddFails(s)
        \/ ChooseDelete(s) \/ DeleteRow(s) \/ DeleteBlob(s) \/ DeleteFails(s)
    \/ Crash

Spec == Init /\ [][Next]_vars

-----------------------------------------------------------------------------
(* Properties.                                                             *)

\* What Add checks before its INSERT is true of the table after it: one file of a name,
\* and nobody above the quota, however many uploads and deletions run side by side
\* (store/files.go, Add: "so the quota check + insert is atomic").
LimitsHold ==
    /\ \A f, g \in rows : f.name = g.name => f = g
    /\ \A u \in Users : UserBytes(u) <= MaxUserBytes

\* The file i is being written by an upload that will finish.
BeingWritten(i) == \E s \in Sessions : file[s].id = i /\ at[s] \in {"write", "writing"}

\* Rows and blobs match.  A listed file can be downloaded as it was uploaded, except while
\* it is being written and when its upload was cut off: no deletion, however stale the
\* list it was chosen from, takes the blob of a file that stays.  And a blob without a row,
\* which no quota counts and nobody can delete, comes only from a removal that failed or
\* was cut off, or from an upload overtaken by the deletion of its row (store/files.go,
\* Add and Delete).
RowsMatchBlobs ==
    /\ \A f \in rows : blob[f.id] = "whole" \/ BeingWritten(f.id) \/ f.id \in cut
    /\ \A i \in Ids : blob[i] # "none" =>
        \/ \E f \in rows : f.id = i
        \/ \E s \in Sessions : file[s].id = i /\ at[s] = "remove"
        \/ i \in stray
=============================================================================
