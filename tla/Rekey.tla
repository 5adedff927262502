------------------------------- MODULE Rekey -------------------------------
(***************************************************************************)
(* Key rotation: cmd/rekey (src/cmd/rekey/main.go) re-sealing the database *)
(* (store.RekeyDB), the file-library blobs and the audit trail             *)
(* (audit.Rekey) under a new key and then writing the new KDF salt.  The   *)
(* operator knows both secrets, so a key is known exactly as long as its   *)
(* salt is on disk or in the running process; keys are named by their      *)
(* salt.  The process may fail or be killed between any two writes, and    *)
(* the operator may run it again.                                          *)
(***************************************************************************)
EXTENDS Naturals

CONSTANTS
  Blobs,    \* the *.bin files of the file library
  MaxRuns,  \* bound: how many times the operator runs the command
  Torn      \* a file cut short inside os.WriteFile

ASSUME RekeyAssumption == MaxRuns \in Nat /\ Torn \notin Nat

VARIABLES
  db,     \* the key every sealed column is under
  blob,   \* blob[b]: the key b is under, or Torn
  trail,  \* the key the audit trail is sealed and chained under
  salt,   \* the salt on disk, or Torn
  pc,     \* where the command is
  old,    \* the running command's oldVault
  new,    \* the running command's newVault
  todo,   \* blobs the running command has still to re-seal
  runs    \* commands started; each generates salt number `runs`

vars == <<db, blob, trail, salt, pc, old, new, todo, runs>>
disk == <<db, blob, trail, salt>>
keys == <<old, new, runs>>

PCs == {"idle", "db", "blobs", "blobWrite", "trail", "salt", "saltWrite", "done"}

TypeOK ==
  /\ db \in 0..runs /\ trail \in 0..runs
  /\ blob \in [Blobs -> 0..runs \cup {Torn}]
  /\ salt \in 0..runs \cup {Torn}
  /\ pc \in PCs
  /\ old \in 0..runs /\ new \in 0..runs
  /\ todo \subseteq Blobs
  /\ runs \in 0..MaxRuns

Init ==
  /\ db = 0
  /\ blob = [b \in Blobs |-> 0]
  /\ trail = 0
  /\ salt = 0
  /\ pc = "idle"
  /\ old = 0 /\ new = 0
  /\ todo = {}
  /\ runs = 0

-----------------------------------------------------------------------------

\* The command is started with the daemon stopped: read the salt, derive the
\* old vault, generate a salt and derive the new one.
Begin ==
  /\ pc \in {"idle", "done"}
  /\ runs < MaxRuns
  /\ salt # Torn
  /\ pc' = "db"
  /\ runs' = runs + 1
  /\ old' = salt
  /\ new' = runs + 1
  /\ todo' = Blobs
  /\ UNCHANGED disk

\* Mutant: the salt follows the database at once.
CommitDBThenSalt ==
  /\ pc = "db"
  /\ db = old
  /\ db' = new
  /\ pc' = "salt"
  /\ UNCHANGED <<blob, trail, salt, todo, keys>>

\* RekeyDB up to Commit: every sealed column, in one transaction.  A column the
\* old key does not open rolls it back.
CommitDB ==
  /\ pc = "db"
  /\ db = old
  /\ db' = new
  /\ pc' = "blobs"
  /\ UNCHANGED <<blob, trail, salt, todo, keys>>

\* RekeyDB, one blob: os.WriteFile truncates the file...
BlobOpen(b) ==
  /\ pc = "blobs" /\ b \in todo
  /\ blob[b] = old
  /\ blob' = [blob EXCEPT ![b] = Torn]
  /\ pc' = "blobWrite"
  /\ UNCHANGED <<db, trail, salt, todo, keys>>

\* ...and writes the blob sealed under the new key.
BlobWrite(b) ==
  /\ pc = "blobWrite" /\ b \in todo /\ blob[b] = Torn
  /\ blob' = [blob EXCEPT ![b] = new]
  /\ todo' = todo \ {b}
  /\ pc' = "blobs"
  /\ UNCHANGED <<db, trail, salt, keys>>

\* Mutant: RekeyDB returns after the first blob.
BlobsDoneEarly ==
  /\ pc = "blobs" /\ todo # Blobs
  /\ pc' = "trail"
  /\ UNCHANGED <<disk, todo, keys>>

\* RekeyDB returns once every blob is done.
BlobsDone ==
  /\ pc = "blobs" /\ todo = {}
  /\ pc' = "trail"
  /\ UNCHANGED <<disk, todo, keys>>

\* audit.Rekey: re-seal and re-chain into a temporary file, then rename it.
RekeyTrail ==
  /\ pc = "trail"
  /\ trail = old
  /\ trail' = new
  /\ pc' = "salt"
  /\ UNCHANGED <<db, blob, salt, todo, keys>>

\* os.WriteFile of the salt truncates it...
SaltOpen ==
  /\ pc = "salt"
  /\ salt' = Torn
  /\ pc' = "saltWrite"
  /\ UNCHANGED <<db, blob, trail, todo, keys>>

\* Mutant: a salt generated anew, not the one newVault was derived from.
SaltWriteFresh ==
  /\ pc = "saltWrite"
  /\ salt' = new + 1
  /\ pc' = "done"
  /\ UNCHANGED <<db, blob, trail, todo, keys>>

\* ...and writes the new one: the rotation is over.
SaltWrite ==
  /\ pc = "saltWrite"
  /\ salt' = new
  /\ pc' = "done"
  /\ UNCHANGED <<db, blob, trail, todo, keys>>

\* A step fails (log.Fatalf) or the process is killed; its salt dies with it.
Fail ==
  /\ pc \notin {"idle", "done"}
  /\ pc' = "idle"
  /\ UNCHANGED <<disk, todo, keys>>

Next ==
  \/ Begin \/ CommitDB \/ BlobsDone \/ RekeyTrail \/ SaltOpen \/ SaltWrite \/ Fail
  \/ \E b \in Blobs : BlobOpen(b) \/ BlobWrite(b)

Spec == Init /\ [][Next]_vars

-----------------------------------------------------------------------------
(* Properties *)

\* Everything at rest opens under the key of the salt on disk.
Readable ==
  /\ db = salt /\ trail = salt
  /\ \A b \in Blobs : blob[b] = salt

\* A rotation that reports success has moved everything, however many failed
\* attempts came before it.
DoneIsReadable == pc = "done" => Readable

\* With no rotation under way, a database that opens under the salt on disk
\* vouches for the blobs and the trail: the DB transaction is the first thing
\* to change and the salt the last, so a failure before Commit harms nothing
\* and no later run makes a mix that looks whole.
DBVouchesForRest == pc \in {"idle", "done"} /\ db = salt => Readable

\* "a mid-run failure leaves the old salt (and thus the recoverable old key) in
\* place": once the command has ended, well or not, everything opens under the
\* salt on disk.
FailureIsRecoverable == pc \in {"idle", "done"} => Readable
=============================================================================
