------------------------------ MODULE AuditLog ------------------------------
(***************************************************************************)
(* The audit trail (src/audit/log.go) and its SQLite mirror                *)
(* (src/store/sessionlog.go).  Sessions call Logger.Emit concurrently: the *)
(* append to the hash-chained file is under the logger's mutex, the fan-   *)
(* out to the mirror after it.  The daemon may crash, be shut down and be  *)
(* restarted; a write may be cut short; the file may be changed behind the *)
(* logger's back.  Ciphertexts are identified with the event they seal and *)
(* the MAC is a parameter, so nothing here rests on how it is computed.    *)
(***************************************************************************)
EXTENDS Naturals, Sequences

CONSTANTS
  Events,       \* the events emitted, one per call of Emit
  MAC(_, _),    \* vault.MAC(prev, ct)
  Genesis,      \* vault.MAC(nil, genesis)
  JunkCt,       \* what base64 makes of a damaged ciphertext
  JunkMac       \* what base64 makes of a damaged MAC

ASSUME AuditAssumption == JunkCt \notin Events

VARIABLES
  file,      \* the complete lines of the audit file
  torn,      \* what follows the last newline
  daemon,    \* "up" or "down"
  fileOpen,  \* Logger.file has not been closed
  prevMAC,   \* Logger.prevMAC
  emit,      \* emit[e]: how far the Emit of e has got
  mirror,    \* events in session_log
  logged,    \* history: events whose whole line was written, in order
  issued,    \* history: the <<previous MAC, event>> pairs the logger chained
  harm       \* history: "cut" once a write stopped short, "altered" once the
             \* file was changed outside the logger

vars == <<file, torn, daemon, fileOpen, prevMAC, emit, mirror, logged, issued, harm>>
history == <<logged, issued, harm>>

\* A line of the file: what splitLine and Open make of it.
Line(ct, mac) == [ct |-> ct, mac |-> mac, parses |-> TRUE]
Malformed     == [ct |-> JunkCt, mac |-> JunkMac, parses |-> FALSE]

\* The unterminated end of the file: none, a ciphertext without its dot, a line
\* cut inside its MAC, a line without its newline, or two lines run together.
TornKinds == {"none", "noDot", "cutMac", "noNewline", "dots"}
NotTorn   == [kind |-> "none", line |-> Malformed]

Init ==
  /\ file = <<>>
  /\ torn = NotTorn
  /\ daemon = "down"
  /\ fileOpen = FALSE
  /\ prevMAC = Genesis
  /\ emit = [e \in Events |-> "idle"]
  /\ mirror = {}
  /\ logged = <<>>
  /\ issued = {}
  /\ harm = {}

-----------------------------------------------------------------------------
(* Start-up: New and chainTip *)

\* The line chainTip looks at: the last one, newline or not.
LastLine ==
  CASE torn.kind = "noNewline" -> torn.line
    [] torn.kind = "cutMac"    -> Line(JunkCt, JunkMac)
    [] torn.kind \in {"noDot", "dots"} -> Malformed
    [] OTHER -> file[Len(file)]

\* Mutant: the chain starts afresh at every start of the daemon.
ChainTipGenesis == Genesis

Empty == file = <<>> /\ torn.kind = "none"

ChainTip == IF Empty THEN Genesis ELSE LastLine.mac

\* New opens the file for append; it fails, and with it the daemon, when the
\* last line does not parse (a MAC cut mid-quantum may not decode either).
Start ==
  /\ daemon = "down"
  /\ ~ Empty => LastLine.parses
  /\ daemon' = "up"
  /\ fileOpen' = TRUE
  /\ prevMAC' = ChainTip
  /\ UNCHANGED <<file, torn, emit, mirror, history>>

-----------------------------------------------------------------------------
(* Emit *)

\* Mutant: the MAC covers the line alone.
LineMACUnchained(prev, ct) == MAC(Genesis, ct)

\* l.vault.MAC(l.prevMAC, ct), and the same in ReadAll
LineMAC(prev, ct) == MAC(prev, ct)

\* What a complete line becomes when it lands behind a torn one.
Landed(line) ==
  CASE torn.kind = "none"  -> {line}
    [] torn.kind = "noDot" -> {Line(JunkCt, line.mac), Malformed}
    [] OTHER               -> {Malformed}

\* Mutant: the error of Seal is not looked at, and a line without ciphertext
\* written.
AppendLineUnsealed(e) ==
  /\ daemon = "up" /\ fileOpen /\ emit[e] = "idle"
  /\ \E ct \in {e, ""} :
       LET mac == LineMAC(prevMAC, ct)
       IN /\ \E line \in Landed(Line(ct, mac)) : file' = Append(file, line)
          /\ prevMAC' = mac
          /\ issued' = issued \cup {<<prevMAC, ct>>}
  /\ torn' = NotTorn
  /\ logged' = Append(logged, e)
  /\ emit' = [emit EXCEPT ![e] = "unmirrored"]
  /\ UNCHANGED <<daemon, fileOpen, mirror, harm>>

\* Emit up to its Unlock: seal, chain and append the line, then sync.
AppendLine(e) ==
  /\ daemon = "up" /\ fileOpen /\ emit[e] = "idle"
  /\ LET mac == LineMAC(prevMAC, e)
     IN /\ \E line \in Landed(Line(e, mac)) : file' = Append(file, line)
        /\ prevMAC' = mac
        /\ issued' = issued \cup {<<prevMAC, e>>}
  /\ torn' = NotTorn
  /\ logged' = Append(logged, e)
  /\ emit' = [emit EXCEPT ![e] = "unmirrored"]
  /\ UNCHANGED <<daemon, fileOpen, mirror, harm>>

\* What part of a line leaves behind the last newline.
Fragments(line) ==
  CASE torn.kind = "none"  -> {NotTorn} \cup [kind : {"noDot", "cutMac", "noNewline"},
                                              line : {line}]
    [] torn.kind = "noDot" -> {torn} \cup [kind : {"cutMac"}, line : {line}]
                                \cup [kind : {"noNewline"},
                                      line : {Line(JunkCt, line.mac), Malformed}]
    [] OTHER               -> {torn} \cup [kind : {"dots"}, line : {line}]

\* The write fails part-way (a full disk): prevMAC stays, the mirror is still
\* served.
AppendCut(e) ==
  /\ daemon = "up" /\ fileOpen /\ emit[e] = "idle"
  /\ torn' \in Fragments(Line(e, LineMAC(prevMAC, e)))
  /\ emit' = [emit EXCEPT ![e] = "unmirrored"]
  /\ issued' = issued \cup {<<prevMAC, e>>}
  /\ harm' = harm \cup {"cut"}
  /\ UNCHANGED <<file, daemon, fileOpen, prevMAC, mirror, logged>>

\* The write fails outright: shutdown has closed the file already.
AppendClosed(e) ==
  /\ daemon = "up" /\ ~ fileOpen /\ emit[e] = "idle"
  /\ emit' = [emit EXCEPT ![e] = "unmirrored"]
  /\ UNCHANGED <<file, torn, daemon, fileOpen, prevMAC, mirror, history>>

\* Emit after its Unlock: the session_log row is inserted, best effort.
Mirror(e) ==
  /\ daemon = "up" /\ emit[e] = "unmirrored"
  /\ emit' = [emit EXCEPT ![e] = "done"]
  /\ mirror' \in {mirror, mirror \cup {e}}
  /\ UNCHANGED <<file, torn, daemon, fileOpen, prevMAC, history>>

-----------------------------------------------------------------------------
(* Shutdown, crashes and the world outside *)

\* logger.Close() in the signal handler, the sessions still running.
CloseLog ==
  /\ daemon = "up" /\ fileOpen
  /\ fileOpen' = FALSE
  /\ UNCHANGED <<file, torn, daemon, prevMAC, emit, mirror, history>>

\* The process ends, by os.Exit or by a crash: what was in flight is lost.
Stop ==
  /\ daemon = "up"
  /\ daemon' = "down"
  /\ fileOpen' = FALSE
  /\ emit' = [e \in Events |-> IF emit[e] = "unmirrored" THEN "done" ELSE emit[e]]
  /\ UNCHANGED <<file, torn, prevMAC, mirror, history>>

\* A crash in the middle of the append of e.
StopMidAppend(e) ==
  /\ daemon = "up" /\ fileOpen /\ emit[e] = "idle"
  /\ torn' \in Fragments(Line(e, LineMAC(prevMAC, e)))
  /\ daemon' = "down"
  /\ fileOpen' = FALSE
  /\ emit' = [d \in Events |-> IF d = e \/ emit[d] = "unmirrored" THEN "done" ELSE emit[d]]
  /\ issued' = issued \cup {<<prevMAC, e>>}
  /\ harm' = harm \cup {"cut"}
  /\ UNCHANGED <<file, prevMAC, mirror, logged>>

RemoveAt(s, i) == SubSeq(s, 1, i - 1) \o SubSeq(s, i + 1, Len(s))

\* One line of the file is lost, two change places, or one gets the ciphertext
\* or the MAC of another: a bad restore, a merge, an editor.
Alter ==
  /\ \E i \in DOMAIN file :
       \/ file' = RemoveAt(file, i)
       \/ \E j \in DOMAIN file : file' = [file EXCEPT ![i] = file[j], ![j] = file[i]]
       \/ \E j \in DOMAIN file : file' = [file EXCEPT ![i].ct = file[j].ct]
       \/ \E j \in DOMAIN file : file' = [file EXCEPT ![i].mac = file[j].mac]
  /\ harm' = harm \cup {"altered"}
  /\ UNCHANGED <<torn, daemon, fileOpen, prevMAC, emit, mirror, logged, issued>>

-----------------------------------------------------------------------------

Next ==
  \/ Start \/ CloseLog \/ Stop \/ Alter
  \/ \E e \in Events : \/ AppendLine(e) \/ AppendCut(e) \/ AppendClosed(e)
                       \/ Mirror(e) \/ StopMidAppend(e)

Spec == Init /\ [][Next]_vars

-----------------------------------------------------------------------------
(* Properties *)

TypeOK ==
  /\ \A i \in DOMAIN file : /\ file[i].ct \in Events \cup {JunkCt}
                            /\ file[i].parses \in BOOLEAN
  /\ torn.kind \in TornKinds
  /\ daemon \in {"up", "down"}
  /\ fileOpen \in BOOLEAN /\ (fileOpen => daemon = "up")
  /\ emit \in [Events -> {"idle", "unmirrored", "done"}]
  /\ mirror \subseteq Events
  /\ logged \in Seq(Events)
  /\ harm \subseteq {"cut", "altered"}

\* What ReadAll's scanner sees: the complete lines and the unterminated one.
Scanned == IF torn.kind = "none" THEN file ELSE Append(file, LastLine)

\* The MAC line i must chain to.
PrevMAC(f, i) == IF i = 1 THEN Genesis ELSE f[i - 1].mac

\* ReadAll returns no error.
Verifies(f) ==
  \A i \in DOMAIN f :
    /\ f[i].parses /\ f[i].ct # JunkCt
    /\ f[i].mac = LineMAC(PrevMAC(f, i), f[i].ct)

\* The events ReadAll returns for a trail that verifies.
EventsOf(f) == [i \in DOMAIN f |-> f[i].ct]

\* As long as every line reached the disk whole and nobody else changed the
\* file, the trail verifies from the genesis MAC on and holds exactly the events
\* that were logged, in order: no stop, restart or race breaks or forks the chain.
TrailVerifies == harm = {} => Verifies(Scanned) /\ EventsOf(Scanned) = logged

\* Whatever happens to the file, a trail that verifies is one the logger wrote:
\* each of its events was chained by the logger to just the line before it, so
\* an edit, a reordering, an insertion or a loss inside the trail shows.
VerifiedIsGenuine ==
  Verifies(Scanned) =>
    \A i \in DOMAIN Scanned : <<PrevMAC(Scanned, i), Scanned[i].ct>> \in issued
=============================================================================
