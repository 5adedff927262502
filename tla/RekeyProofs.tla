----------------------------- MODULE RekeyProofs -----------------------------
(* Proofs about Rekey, for any set of blobs and any number of runs. *)
EXTENDS Rekey, TLAPS

AllBlobs(k) == \A b \in Blobs : blob[b] = k

\* Where the keys are at each point of a rotation that has passed Commit.  A
\* fresh salt is larger than every earlier one, so new # old and a command that
\* stops here leaves a database that does not open under the salt on disk.
Progress ==
  /\ pc = "db" => /\ old = salt /\ old < new /\ todo = Blobs
                  /\ db = old => trail = old /\ AllBlobs(old)
  /\ pc \in {"blobs", "blobWrite", "trail", "salt"} => db = new /\ salt = old /\ old < new
  /\ pc \in {"blobs", "blobWrite", "trail"} => trail = old
  /\ pc = "blobs" => \A b \in Blobs : blob[b] = IF b \in todo THEN old ELSE new
  /\ pc = "blobWrite" =>
       \A b \in Blobs : /\ b \notin todo => blob[b] = new
                        /\ b \in todo => blob[b] \in {old, Torn}
  /\ pc = "blobWrite" =>
       \A b, c \in todo : blob[b] = Torn /\ blob[c] = Torn => b = c
  /\ pc \in {"trail", "salt", "saltWrite"} => AllBlobs(new)
  /\ pc \in {"salt", "saltWrite"} => trail = new
  /\ pc = "saltWrite" => db = new /\ salt = Torn
  /\ pc = "done" => db = salt

\* The inductive invariant.
RInv == TypeOK /\ Progress /\ DBVouchesForRest

\* Before the first rotation everything is under the first key.
LEMMA RekeyInit == Init => RInv
  BY RekeyAssumption DEF Init, RInv, TypeOK, PCs, Progress, AllBlobs, DBVouchesForRest, Readable

\* Any step keeps the inductive invariant.
LEMMA RekeyStep == RInv /\ [Next]_vars => RInv'
<1> SUFFICES ASSUME RInv, [Next]_vars PROVE RInv'
  OBVIOUS
<1> USE RekeyAssumption DEF RInv, TypeOK, PCs, Progress, AllBlobs, DBVouchesForRest,
                            Readable, disk, keys
<1>1. CASE UNCHANGED vars
  BY <1>1 DEF vars
<1>2. CASE Begin
  <2>1. TypeOK'            BY <1>2 DEF Begin
  <2>2. Progress'          BY <1>2 DEF Begin
  <2>3. DBVouchesForRest'  BY <1>2 DEF Begin
  <2> QED BY <2>1, <2>2, <2>3
<1>3. CASE CommitDB
  BY <1>3 DEF CommitDB
<1>4. ASSUME NEW b \in Blobs, BlobOpen(b) PROVE RInv'
  <2>1. TypeOK'            BY <1>4 DEF BlobOpen
  <2>2. Progress'          BY <1>4 DEF BlobOpen
  <2>3. DBVouchesForRest'  BY <1>4 DEF BlobOpen
  <2> QED BY <2>1, <2>2, <2>3
<1>5. ASSUME NEW b \in Blobs, BlobWrite(b) PROVE RInv'
  <2>1. TypeOK'            BY <1>5 DEF BlobWrite
  <2>2. Progress'          BY <1>5 DEF BlobWrite
  <2>3. DBVouchesForRest'  BY <1>5 DEF BlobWrite
  <2> QED BY <2>1, <2>2, <2>3
<1>6. CASE BlobsDone
  BY <1>6 DEF BlobsDone
<1>7. CASE RekeyTrail
  BY <1>7 DEF RekeyTrail
<1>8. CASE SaltOpen
  BY <1>8 DEF SaltOpen
<1>9. CASE SaltWrite
  BY <1>9 DEF SaltWrite
<1>10. CASE Fail
  BY <1>10 DEF Fail
<1> QED BY <1>1, <1>2, <1>3, <1>4, <1>5, <1>6, <1>7, <1>8, <1>9, <1>10 DEF Next

\* The inductive invariant of a rotation: what has moved to the new key at each point of
\* the command, and what a database under the salt on disk tells (cmd/rekey/main.go).
THEOREM RekeyInvariant == Spec => []RInv
  BY RekeyInit, RekeyStep, PTL DEF Spec

\* Every key on disk is one some run of the command generated, or the first one, and
\* nothing but a blob or the salt is ever cut short (cmd/rekey/main.go, os.WriteFile).
THEOREM RekeyTypeCorrect == Spec => []TypeOK
  BY RekeyInvariant, PTL DEF RInv

\* A rotation that reports success has moved the database, every blob and the
\* trail to the key whose salt is on disk.
THEOREM RotationComplete == Spec => []DoneIsReadable
<1>1. RInv => DoneIsReadable
  BY DEF RInv, Progress, DBVouchesForRest, DoneIsReadable
<1> QED BY <1>1, RekeyInvariant, PTL

\* A database that opens under the salt on disk vouches for everything else.
THEOREM DBVouches == Spec => []DBVouchesForRest
  BY RekeyInvariant, PTL DEF RInv
=============================================================================
