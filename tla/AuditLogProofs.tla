--------------------------- MODULE AuditLogProofs ---------------------------
(* Proofs about AuditLog, for any events and any MAC function; the theorem that needs *)
(* a MAC without collisions says so. *)
EXTENDS AuditLog, SequenceTheorems, TLAPS

\* The MAC the next line must chain to, read off the file.
FileTip == IF Len(file) = 0 THEN Genesis ELSE file[Len(file)].mac

\* The file and the history of logged events run in step, line for line, each
\* line chained to the one before it.
Chained ==
  /\ Len(file) = Len(logged)
  /\ \A i \in 1..Len(file) :
       /\ file[i].ct = logged[i] /\ file[i].parses
       /\ file[i].mac = LineMAC(PrevMAC(file, i), file[i].ct)

\* Besides the chain itself, the MAC in the memory of a running logger is the
\* one at the end of the file.
Whole ==
  /\ \E S : file \in Seq(S)
  /\ logged \in Seq(Events)
  /\ torn = NotTorn
  /\ Chained
  /\ daemon \in {"up", "down"}
  /\ daemon = "up" => prevMAC = FileTip

\* The inductive invariant: the file is whole until a write is cut short or
\* somebody else changes it.
TrailInv == harm = {} => Whole

\* The empty file is a whole trail.
LEMMA TrailInit == Init => TrailInv
  BY DEF Init, TrailInv, Whole, Chained

\* chainTip recovers from the file the MAC a running logger would hold.
LEMMA TipRecovered == Whole => ChainTip = FileTip
  BY DEF Whole, ChainTip, FileTip, Empty, LastLine, NotTorn

\* Emit extends the chain by one line.
LEMMA AppendKeepsTrail ==
  ASSUME NEW e \in Events, Whole, AppendLine(e) PROVE Whole'
<1> DEFINE mac  == LineMAC(prevMAC, e)
           line == Line(e, mac)
           n    == Len(file)
<1>1. PICK S : file \in Seq(S)
  BY DEF Whole
<1>2. /\ file' = Append(file, line) /\ prevMAC' = mac /\ torn' = NotTorn
      /\ logged' = Append(logged, e) /\ daemon = "up" /\ daemon' = "up"
  BY DEF Whole, AppendLine, Landed, NotTorn
<1>3. file \in Seq(S \cup {line}) /\ file' \in Seq(S \cup {line})
  BY <1>1, <1>2
<1>4. /\ Len(file') = n + 1 /\ file'[n + 1] = line
      /\ \A i \in 1..n : file'[i] = file[i]
  BY <1>2, <1>3
<1>5. /\ logged' \in Seq(Events) /\ Len(logged') = Len(logged) + 1
      /\ logged'[Len(logged) + 1] = e
      /\ \A i \in 1..Len(logged) : logged'[i] = logged[i]
  BY <1>2 DEF Whole
<1>6. n \in Nat /\ Len(logged) = n /\ prevMAC = FileTip
  BY <1>1, <1>2 DEF Whole, Chained
<1>7. FileTip' = mac
  BY <1>4, <1>6 DEF FileTip, Line
<1>8. Chained'
  <2> SUFFICES ASSUME NEW i \in 1..(n + 1)
               PROVE  /\ file'[i].ct = logged'[i] /\ file'[i].parses
                      /\ file'[i].mac = LineMAC(PrevMAC(file', i), file'[i].ct)
    BY <1>4, <1>5, <1>6 DEF Chained
  <2>1. CASE i \in 1..n
    <3>1. file'[i] = file[i] /\ logged'[i] = logged[i]
      BY <1>4, <1>5, <1>6, <2>1
    <3>2. PrevMAC(file', i) = PrevMAC(file, i)
      BY <1>4, <1>6, <2>1 DEF PrevMAC
    <3> QED BY <1>6, <2>1, <3>1, <3>2 DEF Whole, Chained
  <2>2. CASE i = n + 1
    <3>1. PrevMAC(file', i) = prevMAC
      BY <1>4, <1>6, <2>2 DEF PrevMAC, FileTip
    <3> QED BY <1>4, <1>5, <1>6, <2>2, <3>1 DEF Line
  <2> QED BY <1>6, <2>1, <2>2
<1> QED BY <1>2, <1>3, <1>5, <1>7, <1>8 DEF Whole

\* A step keeps the trail whole unless it does harm.
LEMMA TrailStep == ASSUME TrailInv, [Next]_vars PROVE TrailInv'
<1> SUFFICES ASSUME harm' = {} PROVE Whole'
  BY DEF TrailInv
<1>1. CASE UNCHANGED vars
  BY <1>1 DEF vars, TrailInv, Whole, Chained, FileTip
<1>2. CASE Start
  BY <1>2, TipRecovered DEF Start, TrailInv, Whole, Chained, FileTip, history
<1>3. CASE CloseLog \/ Stop
  BY <1>3 DEF CloseLog, Stop, TrailInv, Whole, Chained, FileTip, history
<1>4. CASE Alter
  BY <1>4 DEF Alter
<1>5. ASSUME NEW e \in Events, AppendLine(e) PROVE Whole'
  BY <1>5, AppendKeepsTrail DEF AppendLine, TrailInv
<1>6. ASSUME NEW e \in Events, AppendCut(e) \/ StopMidAppend(e) PROVE FALSE
  BY <1>6 DEF AppendCut, StopMidAppend
<1>7. ASSUME NEW e \in Events, AppendClosed(e) \/ Mirror(e) PROVE Whole'
  BY <1>7 DEF AppendClosed, Mirror, TrailInv, Whole, Chained, FileTip, history
<1> QED BY <1>1, <1>2, <1>3, <1>4, <1>5, <1>6, <1>7 DEF Next

\* A whole trail verifies and holds what was logged.
LEMMA TrailInvImplies == TrailInv => TrailVerifies
<1> SUFFICES ASSUME Whole PROVE Verifies(Scanned) /\ EventsOf(Scanned) = logged
  BY DEF TrailInv, TrailVerifies
<1>1. PICK S : file \in Seq(S)
  BY DEF Whole
<1>2. Scanned = file /\ DOMAIN file = 1..Len(file) /\ DOMAIN logged = 1..Len(logged)
  BY <1>1 DEF Whole, Scanned, NotTorn
<1>3. Verifies(file)
  BY <1>2, AuditAssumption DEF Whole, Chained, Verifies
<1>4. EventsOf(file) = logged
  <2>1. EventsOf(file) = [i \in 1..Len(logged) |-> logged[i]]
    BY <1>2 DEF Whole, Chained, EventsOf
  <2> QED BY <2>1 DEF Whole
<1> QED BY <1>2, <1>3, <1>4

\* As long as lines reach the disk whole and nothing else writes the file, the
\* trail verifies and is complete, across any number of stops and restarts.
THEOREM TrailAlwaysVerifies == Spec => []TrailVerifies
  BY TrailInit, TrailStep, TrailInvImplies, PTL DEF Spec

-----------------------------------------------------------------------------
(* What an altered file may hold *)

\* The MACs the logger computed, and the one of a damaged line
Macs == {LineMAC(q[1], q[2]) : q \in issued} \cup {JunkMac}

Lines == [ct : Events \cup {JunkCt}, mac : Macs, parses : BOOLEAN]

\* Wherever a line of the file has been, its MAC is one the logger computed.
LinesInv == file \in Seq(Lines) /\ torn \in [kind : TornKinds, line : Lines]

StateTypes ==
  /\ daemon \in {"up", "down"}
  /\ fileOpen \in BOOLEAN /\ (fileOpen => daemon = "up")
  /\ emit \in [Events -> {"idle", "unmirrored", "done"}]
  /\ mirror \subseteq Events
  /\ logged \in Seq(Events)
  /\ harm \subseteq {"cut", "altered"}

\* Any step keeps the types.
LEMMA TypesStep == ASSUME StateTypes, [Next]_vars PROVE StateTypes'
<1> USE DEF StateTypes, history
<1>1. CASE UNCHANGED vars
  BY <1>1 DEF vars
<1>2. CASE Start \/ CloseLog \/ Stop
  BY <1>2 DEF Start, CloseLog, Stop
<1>3. CASE Alter
  <2>1. /\ harm' = harm \cup {"altered"}
        /\ UNCHANGED <<daemon, fileOpen, emit, mirror, logged>>
    BY <1>3 DEF Alter
  <2> QED BY <2>1
<1>4. ASSUME NEW e \in Events, AppendLine(e) PROVE StateTypes'
  BY <1>4 DEF AppendLine
<1>5. ASSUME NEW e \in Events,
             AppendCut(e) \/ AppendClosed(e) \/ Mirror(e) \/ StopMidAppend(e)
      PROVE  StateTypes'
  BY <1>5 DEF AppendCut, AppendClosed, Mirror, StopMidAppend
<1> QED BY <1>1, <1>2, <1>3, <1>4, <1>5 DEF Next

\* What the logger chained: events, each to some MAC
IssuedPairs == \A q \in issued : q[2] \in Events /\ q = <<q[1], q[2]>>

\* Only events are chained.
LEMMA IssuedStep == ASSUME IssuedPairs, [Next]_vars PROVE IssuedPairs'
<1>1. issued' = issued \/ \E e \in Events : issued' = issued \cup {<<prevMAC, e>>}
  <2>1. CASE UNCHANGED vars \/ Start \/ CloseLog \/ Stop
    BY <2>1 DEF vars, Start, CloseLog, Stop, history
  <2>2. CASE Alter
    BY <2>2 DEF Alter
  <2>3. ASSUME NEW e \in Events, AppendLine(e) \/ AppendCut(e) \/ StopMidAppend(e)
        PROVE  issued' = issued \cup {<<prevMAC, e>>}
    BY <2>3 DEF AppendLine, AppendCut, StopMidAppend
  <2>4. ASSUME NEW e \in Events, AppendClosed(e) \/ Mirror(e) PROVE issued' = issued
    BY <2>4 DEF AppendClosed, Mirror, history
  <2> QED BY <2>1, <2>2, <2>3, <2>4 DEF Next
<1>2. ASSUME NEW e \in Events, issued' = issued \cup {<<prevMAC, e>>}
      PROVE  IssuedPairs'
  <2> DEFINE new == <<prevMAC, e>>
  <2>1. new[2] \in Events /\ new = <<new[1], new[2]>> /\ issued' = issued \cup {new}
    BY <1>2
  <2> HIDE DEF new
  <2> QED BY <2>1 DEF IssuedPairs
<1> QED BY <1>1, <1>2 DEF IssuedPairs

\* Records of lines, one field replaced
LEMMA LineFields ==
  ASSUME NEW l \in Lines, NEW k \in Lines
  PROVE  [l EXCEPT !.ct = k.ct] \in Lines /\ [l EXCEPT !.mac = k.mac] \in Lines
  BY DEF Lines

\* What a line of a known MAC is
LEMMA LineMade ==
  ASSUME NEW ct \in Events \cup {JunkCt}, NEW mac \in Macs
  PROVE  Line(ct, mac) \in Lines /\ Malformed \in Lines
  BY DEF Lines, Line, Malformed, Macs

\* A sequence without one element
LEMMA RemovedIn ==
  ASSUME NEW S, NEW s \in Seq(S), NEW i \in DOMAIN s
  PROVE  RemoveAt(s, i) \in Seq(S)
<1>1. Len(s) \in Nat /\ DOMAIN s = 1..Len(s) /\ \A j \in 1..Len(s) : s[j] \in S
  BY LenProperties
<1>2. i - 1 \in Int /\ i + 1 \in Int /\ 1 \in Int /\ Len(s) \in Int
  BY <1>1
<1>3. SubSeq(s, 1, i - 1) \in Seq(S)
  <2>1. \A j \in 1..(i - 1) : s[j] \in S
    BY <1>1
  <2> QED BY <1>2, <2>1, SubSeqProperties
<1>4. SubSeq(s, i + 1, Len(s)) \in Seq(S)
  <2>1. \A j \in (i + 1)..Len(s) : s[j] \in S
    BY <1>1
  <2> QED BY <1>2, <2>1, SubSeqProperties
<1> QED BY <1>3, <1>4, ConcatProperties DEF RemoveAt

\* The logger chains another line: what was a line stays one.
LEMMA LinesGrow ==
  ASSUME issued \subseteq issued' PROVE Lines \subseteq Lines'
<1>1. Macs \subseteq Macs'
  BY DEF Macs
<1> QED BY <1>1 DEF Lines

\* The file and the fragment behind it keep their type when more is chained.
LEMMA LinesKept ==
  ASSUME LinesInv, Lines \subseteq Lines'
  PROVE  file \in Seq(Lines') /\ torn \in [kind : TornKinds, line : Lines']
<1>1. file \in Seq(Lines')
  BY SeqMonotonic DEF LinesInv
<1> QED BY <1>1 DEF LinesInv

\* The MAC of a line being written is among the logger's, wherever the line ends up.
LEMMA ChainedLine ==
  ASSUME NEW e \in Events, issued' = issued \cup {<<prevMAC, e>>}
  PROVE  /\ Lines \subseteq Lines' /\ LineMAC(prevMAC, e) \in Macs'
         /\ Line(e, LineMAC(prevMAC, e)) \in Lines'
         /\ Line(JunkCt, LineMAC(prevMAC, e)) \in Lines'
         /\ Malformed \in Lines' /\ NotTorn \in [kind : TornKinds, line : Lines']
<1>1. Lines \subseteq Lines'
  BY LinesGrow
<1>2. LineMAC(prevMAC, e) \in Macs'
  <2> DEFINE q == <<prevMAC, e>>
  <2>1. q \in issued' /\ q[1] = prevMAC /\ q[2] = e
    OBVIOUS
  <2>2. LineMAC(q[1], q[2]) = LineMAC(prevMAC, e)
    BY <2>1
  <2> HIDE DEF q
  <2>3. LineMAC(q[1], q[2]) \in Macs'
    BY <2>1 DEF Macs, LineMAC
  <2> QED BY <2>2, <2>3
<1>3. /\ Line(e, LineMAC(prevMAC, e)) \in Lines'
      /\ Line(JunkCt, LineMAC(prevMAC, e)) \in Lines'
  BY <1>2 DEF Lines, Line
<1>4. Malformed \in Lines'
  BY DEF Lines, Malformed, Macs
<1>5. NotTorn \in [kind : TornKinds, line : Lines']
  BY <1>4 DEF NotTorn, TornKinds
<1> QED BY <1>1, <1>2, <1>3, <1>4, <1>5

\* A line lands in the file whole, or as what landing behind a torn one makes of it.
LEMMA AppendLines ==
  ASSUME LinesInv, NEW e \in Events, AppendLine(e) PROVE LinesInv'
<1> DEFINE mac == LineMAC(prevMAC, e)
<1>1. /\ issued' = issued \cup {<<prevMAC, e>>} /\ torn' = NotTorn
      /\ \E line \in Landed(Line(e, mac)) : file' = Append(file, line)
  BY DEF AppendLine
<1>2. PICK line \in Landed(Line(e, mac)) : file' = Append(file, line)
  BY <1>1
<1>3. /\ Line(e, mac) \in Lines' /\ Line(JunkCt, mac) \in Lines' /\ Malformed \in Lines'
      /\ NotTorn \in [kind : TornKinds, line : Lines'] /\ Lines \subseteq Lines'
  BY <1>1, ChainedLine
<1>4. Line(e, mac).mac = mac
  BY DEF Line
<1> HIDE DEF mac
<1>5. line \in {Line(e, mac), Line(JunkCt, mac), Malformed}
  BY <1>2, <1>4 DEF Landed
<1>6. line \in Lines'
  BY <1>3, <1>5
<1>7. file \in Seq(Lines')
  BY <1>3, LinesKept
<1>8. file' \in Seq(Lines')
  BY <1>2, <1>6, <1>7
<1> QED BY <1>1, <1>3, <1>8 DEF LinesInv

\* A write cut short leaves a fragment of a line the logger chained.
LEMMA CutLines ==
  ASSUME LinesInv, NEW e \in Events, issued' = issued \cup {<<prevMAC, e>>}, file' = file,
         torn' \in Fragments(Line(e, LineMAC(prevMAC, e)))
  PROVE  LinesInv'
<1> DEFINE mac == LineMAC(prevMAC, e)
<1>1. /\ Line(e, mac) \in Lines' /\ Line(JunkCt, mac) \in Lines' /\ Malformed \in Lines'
      /\ NotTorn \in [kind : TornKinds, line : Lines'] /\ Lines \subseteq Lines'
  BY ChainedLine
<1>2. file' \in Seq(Lines') /\ torn \in [kind : TornKinds, line : Lines']
  BY <1>1, LinesKept
<1>3. Line(e, mac).mac = mac
  BY DEF Line
<1>4. torn' \in Fragments(Line(e, mac))
  OBVIOUS
<1> HIDE DEF mac
<1>5. \/ torn' \in {NotTorn, torn}
      \/ torn' \in [kind : TornKinds, line : {Line(e, mac), Line(JunkCt, mac), Malformed}]
  BY <1>3, <1>4 DEF Fragments, TornKinds
<1>6. torn' \in [kind : TornKinds, line : Lines']
  BY <1>1, <1>2, <1>5
<1> QED BY <1>2, <1>6 DEF LinesInv

\* Changes behind the logger's back move MACs about and make no new one.
LEMMA AlterLines ==
  ASSUME LinesInv, Alter PROVE LinesInv'
<1>1. UNCHANGED <<torn, issued>>
  BY DEF Alter
<1>2. Lines' = Lines
  BY <1>1 DEF Lines, Macs
<1>3. /\ file \in Seq(Lines) /\ DOMAIN file = 1..Len(file)
      /\ \A k \in DOMAIN file : file[k] \in Lines
  BY LenProperties DEF LinesInv
<1>4. PICK i \in DOMAIN file :
       \/ file' = RemoveAt(file, i)
       \/ \E j \in DOMAIN file : file' = [file EXCEPT ![i] = file[j], ![j] = file[i]]
       \/ \E j \in DOMAIN file : file' = [file EXCEPT ![i].ct = file[j].ct]
       \/ \E j \in DOMAIN file : file' = [file EXCEPT ![i].mac = file[j].mac]
  BY DEF Alter
<1>5. file' \in Seq(Lines)
  <2>1. CASE file' = RemoveAt(file, i)
    BY <1>3, <2>1, RemovedIn
  <2>2. ASSUME NEW j \in DOMAIN file, file' = [file EXCEPT ![i] = file[j], ![j] = file[i]]
        PROVE  file' \in Seq(Lines)
    BY <1>3, <2>2
  <2>3. ASSUME NEW j \in DOMAIN file, file' = [file EXCEPT ![i].ct = file[j].ct]
        PROVE  file' \in Seq(Lines)
    <3>1. [file[i] EXCEPT !.ct = file[j].ct] \in Lines
      BY <1>3, LineFields
    <3>2. file' = [file EXCEPT ![i] = [file[i] EXCEPT !.ct = file[j].ct]]
      BY <2>3
    <3> QED BY <1>3, <3>1, <3>2
  <2>4. ASSUME NEW j \in DOMAIN file, file' = [file EXCEPT ![i].mac = file[j].mac]
        PROVE  file' \in Seq(Lines)
    <3>1. [file[i] EXCEPT !.mac = file[j].mac] \in Lines
      BY <1>3, LineFields
    <3>2. file' = [file EXCEPT ![i] = [file[i] EXCEPT !.mac = file[j].mac]]
      BY <2>4
    <3> QED BY <1>3, <3>1, <3>2
  <2> QED BY <1>4, <2>1, <2>2, <2>3, <2>4
<1> QED BY <1>1, <1>2, <1>5 DEF LinesInv

\* Any step leaves the logger's MACs in the file, and no others.
LEMMA LinesStep == ASSUME LinesInv, [Next]_vars PROVE LinesInv'
<1>1. CASE UNCHANGED <<file, torn, issued>>
  BY <1>1 DEF LinesInv, Lines, Macs
<1>2. CASE UNCHANGED vars \/ Start \/ CloseLog \/ Stop
  BY <1>1, <1>2 DEF vars, Start, CloseLog, Stop, history
<1>3. CASE Alter
  BY <1>3, AlterLines
<1>4. ASSUME NEW e \in Events, AppendLine(e) PROVE LinesInv'
  BY <1>4, AppendLines
<1>5. ASSUME NEW e \in Events, AppendCut(e) \/ StopMidAppend(e) PROVE LinesInv'
  BY <1>5, CutLines DEF AppendCut, StopMidAppend
<1>6. ASSUME NEW e \in Events, AppendClosed(e) \/ Mirror(e) PROVE LinesInv'
  BY <1>1, <1>6 DEF AppendClosed, Mirror, history
<1> QED BY <1>2, <1>3, <1>4, <1>5, <1>6 DEF Next

\* Whatever becomes of the file, its MACs are the logger's, and the rest of the state
\* keeps its type (audit/log.go).
THEOREM AuditInvariant == Spec => [](LinesInv /\ IssuedPairs /\ StateTypes)
<1>1. Init => LinesInv /\ IssuedPairs /\ StateTypes
  <2> SUFFICES ASSUME Init PROVE LinesInv /\ IssuedPairs /\ StateTypes
    OBVIOUS
  <2>1. Malformed \in Lines
    BY DEF Malformed, Lines, Macs
  <2>2. <<>> \in Seq(Lines) /\ NotTorn \in [kind : TornKinds, line : Lines]
    BY <2>1 DEF NotTorn, TornKinds
  <2>3. LinesInv
    BY <2>2 DEF Init, LinesInv
  <2>4. <<>> \in Seq(Events)
    OBVIOUS
  <2>5. StateTypes
    BY <2>4 DEF Init, StateTypes
  <2> QED BY <2>3, <2>5 DEF Init, IssuedPairs
<1>2. LinesInv /\ IssuedPairs /\ StateTypes /\ [Next]_vars
        => (LinesInv /\ IssuedPairs /\ StateTypes)'
  BY LinesStep, IssuedStep, TypesStep
<1> QED BY <1>1, <1>2, PTL DEF Spec

\* The lines of the file are the logger's ciphertexts or damaged ones, an open log file
\* belongs to a running daemon, and every event is emitted once (audit/log.go, Emit).
THEOREM AuditTypeCorrect == Spec => []TypeOK
<1>1. LinesInv /\ StateTypes => TypeOK
  <2> SUFFICES ASSUME LinesInv, StateTypes PROVE TypeOK
    OBVIOUS
  <2>1. \A i \in DOMAIN file : file[i] \in Lines
    BY LenProperties DEF LinesInv
  <2>2. \A i \in DOMAIN file : file[i].ct \in Events \cup {JunkCt} /\ file[i].parses \in BOOLEAN
    BY <2>1 DEF Lines
  <2>3. torn.kind \in TornKinds
    BY DEF LinesInv
  <2> QED BY <2>2, <2>3 DEF TypeOK, StateTypes
<1> QED BY <1>1, AuditInvariant, PTL

\* ReadAll reads lines with the logger's MACs.
LEMMA ScannedLines == LinesInv => Scanned \in Seq(Lines)
<1> SUFFICES ASSUME LinesInv PROVE Scanned \in Seq(Lines)
  OBVIOUS
<1>1. JunkMac \in Macs
  BY DEF Macs
<1>2. Line(JunkCt, JunkMac) \in Lines /\ Malformed \in Lines
  BY <1>1, LineMade
<1>3. torn.line \in Lines /\ torn.kind \in TornKinds
  BY DEF LinesInv
<1>4. torn.kind # "none" => LastLine \in Lines
  BY <1>2, <1>3 DEF LastLine, TornKinds
<1> QED BY <1>4 DEF Scanned, LinesInv

\* What the vault's MAC is trusted for: no two lines the chain can hold have one MAC, and
\* a damaged MAC is nobody's.
CollisionFree ==
  \A p, c : c \in Events =>
    /\ MAC(p, c) # JunkMac
    /\ \A q, d : d \in Events /\ MAC(p, c) = MAC(q, d) => p = q /\ c = d

\* There is such a MAC: pairing.
LEMMA PairingIsCollisionFree ==
  \A p, c : c \in Events =>
    /\ <<p, c>> # <<Genesis, JunkCt>>
    /\ \A q, d : d \in Events /\ <<p, c>> = <<q, d>> => p = q /\ c = d
  BY AuditAssumption

\* With a MAC that does not collide, a trail that verifies is one the logger wrote, line
\* after line, whatever was lost, swapped or replaced in the file and whichever writes
\* were cut short (audit/log.go, ReadAll).
THEOREM VerifiedIsGenuineAlways ==
  ASSUME CollisionFree PROVE Spec => []VerifiedIsGenuine
<1>1. LinesInv /\ IssuedPairs => VerifiedIsGenuine
  <2> SUFFICES ASSUME LinesInv, IssuedPairs, Verifies(Scanned), NEW i \in DOMAIN Scanned
               PROVE  <<PrevMAC(Scanned, i), Scanned[i].ct>> \in issued
    BY DEF VerifiedIsGenuine
  <2> DEFINE l == Scanned[i]
             p == PrevMAC(Scanned, i)
  <2>1. l \in Lines
    BY ScannedLines, LenProperties
  <2>2. l.mac \in Macs /\ l.ct \in Events /\ l.mac = MAC(p, l.ct)
    BY <2>1 DEF Lines, Verifies, LineMAC
  <2> HIDE DEF l, p
  <2>3. PICK q \in issued : MAC(p, l.ct) = MAC(q[1], q[2])
    BY <2>2 DEF Macs, CollisionFree, LineMAC
  <2>4. q[2] \in Events /\ q = <<q[1], q[2]>>
    BY <2>3 DEF IssuedPairs
  <2>5. p = q[1] /\ l.ct = q[2]
    BY <2>2, <2>3, <2>4 DEF CollisionFree
  <2> QED BY <2>3, <2>4, <2>5 DEF l, p
<1> QED BY <1>1, AuditInvariant, PTL
=============================================================================
