------------------------------- MODULE Xmodem -------------------------------
(***************************************************************************)
(* XMODEM (xfer/xmodem.go): Send on one end of a line, Receive on the      *)
(* other, as TestXmodemRoundTrip pairs them.  In a session one end is the  *)
(* caller's terminal program; what it does that the code's own half does   *)
(* not is here as well: it has timers, so it asks again unprompted, and    *)
(* its user may type, or give up, at any time.                             *)
(*                                                                         *)
(* The line keeps its order and loses nothing; a frame may arrive damaged. *)
(* A write and the read that waits for its answer are apart, so answers    *)
(* may queue up behind the sender's back.                                  *)
(***************************************************************************)
EXTENDS Integers, Sequences

CONSTANTS
    BlockMod,    \* block numbers are bytes: 256
    MaxRetries,  \* maxRetries
    MaxBlocks,   \* the longest file offered, in blocks; an empty file is one block
    MaxBytes,    \* Receive's size limit, in blocks
    MaxKeys,     \* bound: keys typed before the receiver was started
    MaxPokes,    \* bound: times the receiver's timer asks again
    MaxDamage    \* bound: frames that arrive damaged

ASSUME XmodemConstants ==
    /\ BlockMod \in Nat /\ BlockMod > 2
    /\ MaxRetries \in Nat \ {0} /\ MaxBlocks \in Nat \ {0} /\ MaxBytes \in Nat
    /\ MaxKeys \in Nat /\ MaxPokes \in Nat /\ MaxDamage \in Nat

VARIABLES
    size,      \* blocks of the file being sent
    spc,       \* where Send is, or how it ended
    block,     \* the block it is sending
    tries,     \* how often it wrote it
    rpc,       \* Receive is reading, or how it ended
    out,       \* the blocks it has appended
    expected,  \* the number of the block it expects
    toR,       \* frames and bytes on the way to the receiver
    toS,       \* bytes on the way to the sender
    pokes,     \* unprompted bytes so far
    damage     \* frames damaged so far

xmodemVars == <<size, spc, block, tries, rpc, out, expected, toR, toS, pokes, damage>>

SendEnds == {"ok", "canceled", "noack", "nostart"}
RecvEnds == {"ok", "canceled", "toobig"}

\* A frame carries the number and, for the model, which block it is.
Frame == [num : 0 .. BlockMod - 1, blk : 1 .. MaxBlocks]
Control(b) == [ctl |-> b]

XmodemTypeOK ==
    /\ size \in 1 .. MaxBlocks
    /\ spc \in {"start", "block", "eot"} \cup SendEnds
    /\ block \in 1 .. MaxBlocks
    /\ tries \in 0 .. MaxRetries
    /\ rpc \in {"read"} \cup RecvEnds
    /\ out \in Seq(1 .. MaxBlocks)
    /\ expected \in 0 .. BlockMod - 1
    /\ toR \in Seq(Frame \cup {Control("eot"), Control("can")})
    /\ toS \in Seq({"C", "ack", "nak", "can", "key"})
    /\ pokes \in 0 .. MaxPokes
    /\ damage \in 0 .. MaxDamage

\* Mutant: the number is not a byte.
PlusOneWide(n) == n + 1

\* Byte arithmetic
PlusOne(n) == (n + 1) % BlockMod

\* Receive has written its first 'C', behind what the user typed.
XmodemInit ==
    /\ size \in 1 .. MaxBlocks
    /\ spc = "start"
    /\ block = 1
    /\ tries = 0
    /\ rpc = "read"
    /\ out = <<>>
    /\ expected = PlusOne(0)
    /\ toR = <<>>
    /\ \E keys \in 0 .. MaxKeys : toS = Append([i \in 1 .. keys |-> "key"], "C")
    /\ pokes = 0
    /\ damage = 0

-----------------------------------------------------------------------------
FrameOf(k) == [num |-> k % BlockMod, blk |-> k]

receiver == <<rpc, out, expected, pokes, damage>>

\* Write block k for the t-th time.
Write(k, t) ==
    /\ block' = k /\ tries' = t
    /\ toR' = Append(toR, FrameOf(k))

WriteEOT(t) ==
    /\ spc' = "eot" /\ tries' = t
    /\ toR' = Append(toR, Control("eot"))

End(how) == spc' = how /\ UNCHANGED <<block, tries, toR>>

\* Send reads a byte.
Reads(b) == toS # <<>> /\ Head(toS) = b
ReadsOther(known) == toS # <<>> /\ Head(toS) \notin known

\* Waiting for 'C'.  (A NAK would start checksum mode, which Receive does not speak.)
SendStart ==
    /\ spc = "start"
    /\ \/ Reads("C") /\ spc' = "block" /\ Write(1, 1)
       \/ Reads("can") /\ End("canceled")
       \/ /\ ReadsOther({"C", "can"})
          /\ IF tries >= MaxRetries
             THEN End("nostart")
             ELSE tries' = tries + 1 /\ UNCHANGED <<spc, block, toR>>
    /\ toS' = Tail(toS)
    /\ UNCHANGED <<size, receiver>>

\* sendBlock: ACK moves on to the next block or to EOT; anything but CAN is a reason to
\* write the frame again.
SendBlock ==
    /\ spc = "block"
    /\ \/ /\ Reads("ack")
          /\ IF block < size
             THEN UNCHANGED spc /\ Write(block + 1, 1)
             ELSE UNCHANGED block /\ WriteEOT(1)
       \/ Reads("can") /\ End("canceled")
       \/ /\ ReadsOther({"ack", "can"})
          /\ IF tries < MaxRetries
             THEN UNCHANGED spc /\ Write(block, tries + 1)
             ELSE End("noack")
    /\ toS' = Tail(toS)
    /\ UNCHANGED <<size, receiver>>

\* EOT is repeated until it is acknowledged; CAN is no exception here.
SendEOT ==
    /\ spc = "eot"
    /\ \/ Reads("ack") /\ End("ok")
       \/ /\ ReadsOther({"ack"})
          /\ IF tries < MaxRetries
             THEN UNCHANGED block /\ WriteEOT(tries + 1)
             ELSE End("noack")
    /\ toS' = Tail(toS)
    /\ UNCHANGED <<size, receiver>>

-----------------------------------------------------------------------------
Answer(bytes) == toS' = toS \o bytes

sender == <<size, spc, block, tries>>

\* EOT: acknowledge and return what there is.  CAN: return an error.
RecvControl ==
    /\ rpc = "read" /\ toR # <<>>
    /\ \/ Head(toR) = Control("eot") /\ rpc' = "ok" /\ Answer(<<"ack">>)
       \/ Head(toR) = Control("can") /\ rpc' = "canceled" /\ UNCHANGED toS
    /\ toR' = Tail(toR)
    /\ UNCHANGED <<sender, out, expected, pokes, damage>>

\* The block expected, whole: append it, unless that makes the file too big.
RecvNew(f) ==
    /\ out' = Append(out, f.blk)
    /\ expected' = PlusOne(expected)
    /\ IF Len(out') > MaxBytes
       THEN rpc' = "toobig" /\ Answer(<<"can", "can">>)
       ELSE UNCHANGED rpc /\ Answer(<<"ack">>)

\* The block before it, again: acknowledge it once more.
RecvRepeated == Answer(<<"ack">>) /\ UNCHANGED <<rpc, out, expected>>

\* Mutant: a damaged frame is dropped without a word.
RecvBadSilent == UNCHANGED <<rpc, out, expected, toS>>

\* Damaged, or out of turn
RecvBad == Answer(<<"nak">>) /\ UNCHANGED <<rpc, out, expected>>

\* Mutant: the number is compared only with the one before it.
IsNewUnordered(f) == PlusOne(f.num) # expected

IsNew(f) == f.num = expected

IsRepeated(f) == PlusOne(f.num) = expected

\* A frame arrives, with its header or its data damaged perhaps.  A repeated block is
\* recognised by its header alone.
RecvFrame ==
    /\ rpc = "read" /\ toR # <<>> /\ Head(toR) \in Frame
    /\ \E goodHdr, goodCRC \in BOOLEAN :
        LET f == Head(toR) IN
        /\ damage' = IF goodHdr /\ goodCRC THEN damage ELSE damage + 1
        /\ damage' <= MaxDamage
        /\ CASE goodHdr /\ goodCRC /\ IsNew(f) -> RecvNew(f)
             [] goodHdr /\ IsRepeated(f) -> RecvRepeated
             [] OTHER -> RecvBad
    /\ toR' = Tail(toR)
    /\ UNCHANGED <<sender, pokes>>

-----------------------------------------------------------------------------
\* The terminal program at the receiving end has waited long enough: it asks for the
\* first block, or for the next one, again.
Poke ==
    /\ rpc = "read" /\ pokes < MaxPokes
    /\ pokes' = pokes + 1
    /\ Answer(<<IF out = <<>> THEN "C" ELSE "nak">>)
    /\ UNCHANGED <<sender, rpc, out, expected, toR, damage>>

\* The user at either end gives up.
RecvQuits ==
    /\ rpc = "read"
    /\ rpc' = "canceled"
    /\ Answer(<<"can">>)
    /\ UNCHANGED <<sender, out, expected, toR, pokes, damage>>

SendQuits ==
    /\ spc \in {"start", "block", "eot"}
    /\ spc' = "canceled"
    /\ toR' = Append(toR, Control("can"))
    /\ UNCHANGED <<size, block, tries, receiver, toS>>

Send == SendStart \/ SendBlock \/ SendEOT
Receive == RecvControl \/ RecvFrame
Terminal == Poke \/ RecvQuits \/ SendQuits

XmodemNext == Send \/ Receive \/ Terminal

\* Each end reads on as long as there is something to read.
XmodemSpec ==
    XmodemInit /\ [][XmodemNext]_xmodemVars /\ WF_xmodemVars(Send) /\ WF_xmodemVars(Receive)

-----------------------------------------------------------------------------
(* Properties.                                                             *)

\* What Receive has is what was sent, block for block, also where the numbers wrap, unless
\* a frame was damaged and a timer's extra answers put the sender as far ahead as there are
\* numbers; a file it returns is the whole file, unless such answers had put the sender
\* ahead of it when a frame was damaged; and without them Send reports success only for a
\* file that was received (xmodem.go, Send and Receive).
TransferFaithful ==
    /\ (damage = 0 \/ pokes + 2 <= BlockMod) => \A i \in 1 .. Len(out) : out[i] = i
    /\ rpc = "ok" => Len(out) = size \/ (pokes > 0 /\ damage > 0)
    /\ spc = "ok" /\ pokes = 0 => rpc = "ok" /\ Len(out) = size

\* The two ends never wait for each other: Send returns, unless the receiver went away
\* before it did, and so does Receive, unless Send gave up.  Neither has a timer of its
\* own (xmodem.go, readByte).
TransferEnds ==
    /\ <>(spc \in SendEnds \/ rpc \in {"canceled", "toobig"})
    /\ <>(rpc \in RecvEnds \/ spc \in {"noack", "nostart"})
=============================================================================
