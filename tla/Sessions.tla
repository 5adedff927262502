------------------------------ MODULE Sessions ------------------------------
(***************************************************************************)
(* The life of a member session: the sshHandle closure of the daemon       *)
(* (src/cmd/admiralbbs/main.go) run concurrently by one goroutine per      *)
(* caller, over the three registries the callers share                     *)
(*   Presence  (src/session/presence.go)  one session per handle,          *)
(*   NodePool  (src/session/nodepool.go)  unique node numbers,             *)
(*   Roster    (src/session/roster.go)    who is on which node.            *)
(* Every registry method holds its own mutex, so it is one atomic step;    *)
(* nothing is held between two of them, so every interleaving of those     *)
(* steps, of the timers and of the callers' wires is allowed.              *)
(***************************************************************************)
EXTENDS Naturals, FiniteSets

CONSTANTS
  Callers,      \* one element per run of sshHandle, i.e. per session
  Handles,      \* member handles (Presence and Roster are keyed by handle/node)
  MaxNodes,     \* NodePool.max
  IdleEnabled,  \* whether WatchIdle got a positive duration
  Lapses,       \* which of "away" and "silent" callers may become
  NoCaller,     \* the nil *token of Presence
  NoHandle      \* a node that is absent from the roster

ASSUME ConstantsAssumption ==
  /\ MaxNodes \in Nat \ {0}
  /\ IdleEnabled \in BOOLEAN
  /\ Lapses \subseteq {"away", "silent"}
  /\ NoCaller \notin Callers
  /\ NoHandle \notin Handles

Nodes == 1..MaxNodes

VARIABLES
  pc,        \* pc[c]: where c's handler goroutine is
  user,      \* user[c]: the handle c authenticated as
  conn,      \* conn[c]: the state of c's SSH channel, see Wires
  budgeted,  \* callers whose WatchBudget timer is armed
  cur,       \* Presence.cur: handle -> current token (id 0 is nil)
  seq,       \* Presence.seq
  presID,    \* presID[c]: the token id Enter returned to c
  victim,    \* victim[c]: prev, the token Enter displaced, until it is closed
  used,      \* NodePool.used
  node,      \* node[c]: the node number Acquire returned to c
  roster     \* Roster.byNS: node -> handle listed on it

vars == <<pc, user, conn, budgeted, cur, seq, presID, victim,
          used, node, roster>>

presence == <<cur, seq, presID, victim>>
pool     == <<used, node>>
wire     == <<conn, budgeted>>

Token   == [id : Nat, sess : Callers \cup {NoCaller}]
NoToken == [id |-> 0, sess |-> NoCaller]

\* The points between two steps of sshHandle, in program order.  The last four
\* are its deferred calls, which Go runs in reverse order of their defer.
PCs == {"new", "login", "enter", "kick", "acquire", "busy", "join", "budget",
        "menu", "rosterLeave", "release", "presenceLeave", "close", "done"}

\* The states of an SSH channel: "open"; "away", open with nobody to type any
\* more; "silent", open with a client that has stopped (it neither reads nor
\* answers while its TCP connection stays up); "closing" and "stuck", the same
\* after our Close, which only sends CHANNEL_CLOSE; "closed", once the client has
\* answered that, hung up or lost its connection.  No step of a handler can tell
\* "away" and "silent" from "open", nor "stuck" from "closing": they differ in
\* what is bound to happen.
Wires == {"none", "open", "away", "silent", "closing", "stuck", "closed"}

TypeOK ==
  /\ pc \in [Callers -> PCs]
  /\ user \in [Callers -> Handles \cup {NoHandle}]
  /\ conn \in [Callers -> Wires]
  /\ budgeted \subseteq Callers
  /\ cur \in [Handles -> Token]
  /\ seq \in Nat
  /\ presID \in [Callers -> Nat]
  /\ victim \in [Callers -> Callers \cup {NoCaller}]
  /\ used \subseteq Nodes
  /\ node \in [Callers -> 0..MaxNodes]
  /\ roster \in [Nodes -> Handles \cup {NoHandle}]

Init ==
  /\ pc = [c \in Callers |-> "new"]
  /\ user = [c \in Callers |-> NoHandle]
  /\ conn = [c \in Callers |-> "none"]
  /\ budgeted = {}
  /\ cur = [h \in Handles |-> NoToken]
  /\ seq = 0
  /\ presID = [c \in Callers |-> 0]
  /\ victim = [c \in Callers |-> NoCaller]
  /\ used = {}
  /\ node = [c \in Callers |-> 0]
  /\ roster = [n \in Nodes |-> NoHandle]

Goto(c, from, to) ==
  /\ pc[c] = from
  /\ pc' = [pc EXCEPT ![c] = to]

\* Close has not been called on c's channel.
Open(c) == conn[c] \in {"open", "away", "silent"}

\* A write on c's channel is bound to return: the client takes what is sent, or
\* the channel is gone at both ends.  Nothing is promised of a stopped client,
\* before Close or after it: the write waits for window, or for room in TCP.
Responsive(c) == conn[c] \notin {"silent", "stuck"}

\* Conn.Close: sends CHANNEL_CLOSE.  Reads and writes go on waiting until the
\* client answers it.
CloseWire(c) ==
  conn' = [conn EXCEPT ![c] = CASE @ \in {"silent", "stuck"} -> "stuck"
                                [] @ = "closed" -> "closed"
                                [] OTHER -> "closing"]

-----------------------------------------------------------------------------
(* The handler, step by step. *)

\* mkSession on a "shell" request of an SSH channel authenticated as h: the
\* session starts with its wire open and the idle watchdog armed.
Start(c, h) ==
  /\ Goto(c, "new", "login")
  /\ user' = [user EXCEPT ![c] = h]
  /\ conn' = [conn EXCEPT ![c] = "open"]
  /\ UNCHANGED <<budgeted, presence, pool, roster>>

\* RunLogin accepts the second factor (what Session.r has in its buffer is
\* still read when the wire is closed).
LoginOK(c) ==
  /\ Goto(c, "login", "enter")
  /\ UNCHANGED <<user, wire, presence, pool, roster>>

\* RunLogin gives up (wrong password three times, bad token): only the
\* deferred s.Close is registered yet.
LoginRejected(c) ==
  /\ Goto(c, "login", "close")
  /\ UNCHANGED <<user, wire, presence, pool, roster>>

\* RunLogin's read fails: both ends have closed.
LoginEOF(c) ==
  /\ conn[c] = "closed"
  /\ Goto(c, "login", "close")
  /\ UNCHANGED <<user, wire, presence, pool, roster>>

\* Presence.Enter up to its Unlock: take a token, become current, remember
\* the token that was displaced.
Enter(c) ==
  LET h    == user[c]
      prev == cur[h].sess
  IN /\ Goto(c, "enter", IF prev = NoCaller THEN "acquire" ELSE "kick")
     /\ seq' = seq + 1
     /\ presID' = [presID EXCEPT ![c] = seq + 1]
     /\ victim' = [victim EXCEPT ![c] = prev]
     /\ cur' = [cur EXCEPT ![h] = [id |-> seq + 1, sess |-> c]]
     /\ UNCHANGED <<user, wire, pool, roster>>

\* Mutant: the displaced caller is only told, not disconnected.
KickNoClose(c) ==
  /\ Goto(c, "kick", "acquire")
  /\ victim' = [victim EXCEPT ![c] = NoCaller]
  /\ UNCHANGED <<user, wire, cur, seq, presID, pool, roster>>

\* Presence.Enter after its Unlock: prev.closeFn writes the notice to the
\* displaced session's wire and closes that.
Kick(c) ==
  /\ Goto(c, "kick", "acquire")
  /\ CloseWire(victim[c])
  /\ victim' = [victim EXCEPT ![c] = NoCaller]
  /\ UNCHANGED <<user, budgeted, cur, seq, presID, pool, roster>>

\* NodePool.Acquire scans 1..max for the first unused number.
FirstFree(n) == n \in Nodes \ used /\ \A m \in 1..(n - 1) : m \in used

\* Mutant: the number after the count of nodes in use.
AcquireByCount(c) ==
  /\ Goto(c, "acquire", "join")
  /\ LET n == Cardinality(used) + 1
     IN /\ n \in Nodes
        /\ used' = used \cup {n}
        /\ node' = [node EXCEPT ![c] = n]
  /\ UNCHANGED <<user, wire, presence, roster>>

\* Mutant: the scan starts at node 0.
AcquireFromZero(c) ==
  /\ Goto(c, "acquire", "join")
  /\ \E n \in 0..MaxNodes :
       /\ n \notin used /\ \A m \in 0..(n - 1) : m \in used
       /\ used' = used \cup {n}
       /\ node' = [node EXCEPT ![c] = n]
  /\ UNCHANGED <<user, wire, presence, roster>>

Acquire(c) ==
  /\ Goto(c, "acquire", "join")
  /\ \E n \in Nodes :
       /\ FirstFree(n)
       /\ used' = used \cup {n}
       /\ node' = [node EXCEPT ![c] = n]
  /\ UNCHANGED <<user, wire, presence, roster>>

\* NodePool.Acquire returns 0.
AcquireNone(c) ==
  /\ used = Nodes
  /\ Goto(c, "acquire", "busy")
  /\ UNCHANGED <<user, wire, presence, pool, roster>>

\* Mutant: presence.Leave is deferred only once a node is acquired.
AllBusyNoLeave(c) ==
  /\ Goto(c, "busy", "close")
  /\ UNCHANGED <<user, wire, presence, pool, roster>>

\* The notice "All nodes are busy" and the return: only the deferred
\* presence.Leave and s.Close are registered.
AllBusy(c) ==
  /\ Goto(c, "busy", "presenceLeave")
  /\ UNCHANGED <<user, wire, presence, pool, roster>>

\* Roster.Join
Join(c) ==
  /\ Goto(c, "join", "budget")
  /\ roster' = [roster EXCEPT ![node[c]] = user[c]]
  /\ UNCHANGED <<user, wire, presence, pool>>

\* enforceBudget goes by the access level and the minutes of the user row that
\* RunLogin read, which are any, and may differ between sessions of one member.
\* It arms the daily-time timer of a member who has minutes left...
BudgetArmed(c) ==
  /\ Goto(c, "budget", "menu")
  /\ budgeted' = budgeted \cup {c}
  /\ UNCHANGED <<user, conn, presence, pool, roster>>

\* ...closes the session of one who has none (its s.Close stops an idle timer
\* that has nothing left to do), the handler then running on into the menu...
BudgetSpent(c) ==
  /\ Goto(c, "budget", "menu")
  /\ CloseWire(c)
  /\ UNCHANGED <<user, budgeted, presence, pool, roster>>

\* ...and leaves a SysOp (AccessLevel >= sysopLevel) alone.
BudgetUnlimited(c) ==
  /\ Goto(c, "budget", "menu")
  /\ UNCHANGED <<user, wire, presence, pool, roster>>

\* The caller dismisses the MOTD and logs off from the menu.
Logoff(c) ==
  /\ Goto(c, "menu", "rosterLeave")
  /\ UNCHANGED <<user, wire, presence, pool, roster>>

\* Mutant: roster.Leave is a plain call after the menu, skipped on disconnect.
MenuEOFNoRosterLeave(c) ==
  /\ conn[c] = "closed"
  /\ Goto(c, "menu", "release")
  /\ UNCHANGED <<user, wire, presence, pool, roster>>

\* A read of the MOTD screen or of the menu fails: both ends have closed.
MenuEOF(c) ==
  /\ conn[c] = "closed"
  /\ Goto(c, "menu", "rosterLeave")
  /\ UNCHANGED <<user, wire, presence, pool, roster>>

\* defer roster.Leave(node)
RosterLeave(c) ==
  /\ Goto(c, "rosterLeave", "release")
  /\ roster' = [roster EXCEPT ![node[c]] = NoHandle]
  /\ UNCHANGED <<user, wire, presence, pool>>

\* defer nodePool.Release(node), the last use of node
Release(c) ==
  /\ Goto(c, "release", "presenceLeave")
  /\ used' = used \ {node[c]}
  /\ node' = [node EXCEPT ![c] = 0]
  /\ UNCHANGED <<user, wire, presence, roster>>

\* Mutant: Leave deletes the slot whoever holds it.
PresenceLeaveAny(c) ==
  /\ Goto(c, "presenceLeave", "close")
  /\ cur' = [cur EXCEPT ![user[c]] = NoToken]
  /\ presID' = [presID EXCEPT ![c] = 0]
  /\ UNCHANGED <<user, wire, seq, victim, pool, roster>>

\* defer presence.Leave(u.Handle, presID): the slot is released only if c is
\* still the current session (and presID has had its last use).
PresenceLeave(c) ==
  /\ Goto(c, "presenceLeave", "close")
  /\ cur' = IF cur[user[c]].id = presID[c]
            THEN [cur EXCEPT ![user[c]] = NoToken]
            ELSE cur
  /\ presID' = [presID EXCEPT ![c] = 0]
  /\ UNCHANGED <<user, wire, seq, victim, pool, roster>>

\* defer s.Close(): stop the timers, log the disconnect, close the wire.
Close(c) ==
  /\ Goto(c, "close", "done")
  /\ CloseWire(c)
  /\ budgeted' = budgeted \ {c}
  /\ UNCHANGED <<user, presence, pool, roster>>

-----------------------------------------------------------------------------
(* What happens to a session from outside its goroutine. *)

InService(c) == pc[c] \notin {"new", "done"}

\* Mutant: the watchdog only guards the login.
IdleFiresAtLogin(c) ==
  /\ IdleEnabled
  /\ pc[c] = "login" /\ Open(c)
  /\ CloseWire(c)
  /\ UNCHANGED <<pc, user, budgeted, presence, pool, roster>>

\* Mutant: activity postpones the budget timer as it does the idle one.
BudgetFiresWhenSilent(c) ==
  /\ c \in budgeted /\ conn[c] \in {"away", "silent"}
  /\ CloseWire(c)
  /\ UNCHANGED <<pc, user, budgeted, presence, pool, roster>>

\* The idle watchdog of WatchIdle closes the wire.
IdleFires(c) ==
  /\ IdleEnabled
  /\ InService(c) /\ Open(c)
  /\ CloseWire(c)
  /\ UNCHANGED <<pc, user, budgeted, presence, pool, roster>>

\* The timer of WatchBudget closes the wire.
BudgetFires(c) ==
  /\ c \in budgeted /\ Open(c)
  /\ CloseWire(c)
  /\ UNCHANGED <<pc, user, budgeted, presence, pool, roster>>

\* The peer moves c's wire along (after s.Close nothing depends on it but the
\* notice of a login that is late, which meets the wire as it was).
Moves(c, from, to) ==
  /\ InService(c)
  /\ conn[c] \in from
  /\ conn' = [conn EXCEPT ![c] = to]
  /\ UNCHANGED <<pc, user, budgeted, presence, pool, roster>>

\* The client answers our CHANNEL_CLOSE with its own.
Answer(c) == Moves(c, {"closing"}, "closed")

\* The caller hangs up, or the connection is lost.
HangUp(c) == Moves(c, {"open", "away", "silent", "closing", "stuck"}, "closed")

\* The caller walks off for good (an absence that ends is slow typing).
Leaves(c) == "away" \in Lapses /\ Moves(c, {"open"}, "away")

\* The client stops for good (one that resumes was slow): a ghost.
Stall(c) ==
  /\ "silent" \in Lapses
  /\ \/ Moves(c, {"open", "away"}, "silent")
     \/ Moves(c, {"closing"}, "stuck")

-----------------------------------------------------------------------------

\* Steps the goroutine of c takes without touching a wire, or once it is closed.
Runs(c) ==
  \/ LoginEOF(c) \/ Enter(c) \/ Acquire(c) \/ AcquireNone(c) \/ Join(c)
  \/ BudgetUnlimited(c) \/ MenuEOF(c)
  \/ RosterLeave(c) \/ Release(c) \/ PresenceLeave(c)

\* Steps that write to a wire, if only CHANNEL_CLOSE.
Writes(c) ==
  \/ Kick(c) \/ AllBusy(c) \/ BudgetArmed(c) \/ BudgetSpent(c) \/ Close(c)

\* The wire they write to.
WritesTo(c) == IF pc[c] = "kick" THEN victim[c] ELSE c

Timers(c) == IdleFires(c) \/ BudgetFires(c)

Peer(c) ==
  \/ \E h \in Handles : Start(c, h)
  \/ LoginOK(c) \/ LoginRejected(c) \/ Logoff(c)
  \/ Answer(c) \/ HangUp(c) \/ Leaves(c) \/ Stall(c)

Next == \E c \in Callers : Runs(c) \/ Writes(c) \/ Timers(c) \/ Peer(c)

Spec == Init /\ [][Next]_vars

\* The Go scheduler runs every runnable goroutine, and one that writes to a
\* responsive client is; a budget timer goes off whatever the caller does, the
\* idle watchdog once nobody types; a client that runs answers CHANNEL_CLOSE
\* (RFC 4254, 5.3).
Fairness ==
  \A c \in Callers :
    /\ WF_vars(Runs(c) \/ (Responsive(WritesTo(c)) /\ Writes(c)))
    /\ WF_vars(BudgetFires(c) \/ (conn[c] # "open" /\ IdleFires(c)))
    /\ WF_vars(Answer(c))

FairSpec == Spec /\ Fairness

-----------------------------------------------------------------------------
(* Properties *)

\* Between presence.Enter and presence.Leave.
Registered(c) == pc[c] \in {"kick", "acquire", "busy", "join", "budget", "menu",
                            "rosterLeave", "release", "presenceLeave"}

\* Between nodePool.Acquire and nodePool.Release.
Holding(c) == pc[c] \in {"join", "budget", "menu", "rosterLeave", "release"}

\* Between roster.Join and roster.Leave.
Listed(c) == pc[c] \in {"budget", "menu", "rosterLeave"}

\* A newer session of the same handle has taken c's place.
Displaced(c) == Registered(c) /\ cur[user[c]].sess # c

\* Node numbers are exclusive: no two sessions ever hold the same node, and
\* the pool's used map is exactly the set of nodes held, so none leaks and none
\* is handed out twice (the per-node door directories depend on it).
NodesExclusive ==
  /\ \A c, d \in Callers :
       Holding(c) /\ Holding(d) /\ node[c] = node[d] => c = d
  /\ \A n \in Nodes : n \in used <=> \E c \in Callers : Holding(c) /\ node[c] = n

\* Who's-online is exact: a session that joined is listed under its own handle
\* on its own node until its own roster.Leave, and nobody else is listed.
RosterExact ==
  /\ \A c \in Callers : Listed(c) => roster[node[c]] = user[c]
  /\ \A n \in Nodes : roster[n] # NoHandle =>
       \E c \in Callers : Listed(c) /\ node[c] = n

\* Presence never points at a session that has left, nor at another member's:
\* the current token of a handle belongs to a registered session of that handle.
PresenceSound ==
  \A h \in Handles : cur[h] # NoToken =>
    \E c \in Callers :
      /\ Registered(c) /\ user[c] = h
      /\ cur[h] = [id |-> presID[c], sess |-> c]

\* The pool and the roster, seen together, implement NodeLeases: what a session
\* holds between Acquire and Release is leased, what the roster lists is shown.
Leased == {p \in Nodes \X Handles :
             \E c \in Callers : Holding(c) /\ node[c] = p[1] /\ user[c] = p[2]}
Shown  == {p \in Nodes \X Handles : roster[p[1]] = p[2]}

Leases == INSTANCE NodeLeases WITH lease <- Leased, shown <- Shown

\* Under every interleaving of the handlers' deferred calls a node number goes
\* back to the pool only after its who's-online entry is gone, and the lowest
\* free number is the one handed out.
ImplementsLeases == Leases!Spec

\* Newest wins: a displaced session whose wire is still open has the login
\* that displaced it on its way to close it, so no session of a handle survives
\* beside the newest one, whatever order Enter, Leave and the closes happen in.
DisplacedIsBeingClosed ==
  \A c \in Callers : Displaced(c) /\ Open(c) =>
    \E d \in Callers : pc[d] = "kick" /\ victim[d] = c

\* c's handler, or the login that displaces c, waits for a stopped client.
BehindGhost(c) == ~ Responsive(c) \/ ~ Responsive(WritesTo(c))

\* A displaced session ends, whatever point its handler is at and whether or not
\* its client is at the other end, unless a stopped client holds it up again and again.
DisplacedEnds ==
  \A c \in Callers :
    (Displaced(c) ~> pc[c] = "done") \/ []<>BehindGhost(c)

\* A member's session ends when its daily minutes do, whatever the member does
\* with a client that runs.
BudgetedEnds ==
  \A c \in Callers :
    (c \in budgeted ~> pc[c] = "done") \/ []<>BehindGhost(c)

\* A session whose caller has walked off ends and gives back all it holds: the
\* watchdog is armed at every point of it, the login included.
IdleEnds ==
  \A c \in Callers :
    (conn[c] = "away" ~> pc[c] = "done") \/ []<>BehindGhost(c)
=============================================================================
