------------------------------ MODULE Listener ------------------------------
(***************************************************************************)
(* One listener of the daemon: the accept loop of ServeSSH or ServeTelnet  *)
(* (src/transport/ssh.go, telnet.go) admitting connections through its     *)
(* limiter (src/transport/limits.go), the goroutine per connection that    *)
(* returns the slot, and the session handlers a connection carries.        *)
(* The limiter's two halves, the channel sem and the mutex-guarded map     *)
(* perIP, are taken and given back in separate steps, so a release may     *)
(* come between any two steps of an acquire.                               *)
(***************************************************************************)
EXTENDS Naturals, FiniteSets

CONSTANTS
  Conns,        \* TCP connections, one element per accepted socket
  IPs,          \* remote hosts
  Channels,     \* session channels a client may open on one SSH connection
  MaxSessions,  \* capacity of limiter.sem
  MaxIP,        \* limiter.maxIP, 0 for no per-IP cap
  NoIP          \* the host of a socket not accepted yet

ASSUME ListenerAssumption ==
  /\ MaxSessions \in Nat \ {0}
  /\ MaxIP \in Nat
  /\ NoIP \notin IPs

VARIABLES
  telnet,    \* TRUE for ServeTelnet, FALSE for ServeSSH; never changes
  accepting, \* the accept loop has not returned
  stage,     \* stage[k]: where connection k is
  ip,        \* ip[k]: hostOf(raw.RemoteAddr())
  sem,       \* number of tokens in limiter.sem
  perIP,     \* limiter.perIP, an absent key being 0
  handler    \* handler[<<k, ch>>]: the channel ch of k and the goroutine running
             \* handle(c) on it, if any

vars == <<telnet, accepting, stage, ip, sem, perIP, handler>>

loop == <<telnet, accepting>>

\* "reserve", "count" and "undo" are points of the accept loop inside acquire;
\* "serving" is before the SSH handshake (or the start of the Telnet handler)
\* is over, "up" after; "uncount" and "unslot" are the two halves of release.
Stages == {"new", "reserve", "count", "undo", "serving", "up",
           "uncount", "unslot", "gone"}

TypeOK ==
  /\ telnet \in BOOLEAN
  /\ accepting \in BOOLEAN
  /\ stage \in [Conns -> Stages]
  /\ ip \in [Conns -> IPs \cup {NoIP}]
  /\ sem \in 0..MaxSessions
  /\ perIP \in [IPs -> Nat]
  /\ handler \in [Conns \X Channels -> {"none", "open", "running", "done"}]

Init ==
  /\ telnet \in BOOLEAN
  /\ accepting = TRUE
  /\ stage = [k \in Conns |-> "new"]
  /\ ip = [k \in Conns |-> NoIP]
  /\ sem = 0
  /\ perIP = [i \in IPs |-> 0]
  /\ handler = [p \in Conns \X Channels |-> "none"]

Goto(k, from, to) ==
  /\ stage[k] = from
  /\ stage' = [stage EXCEPT ![k] = to]

\* The accept loop is one goroutine: it handles one connection at a time.
LoopIdle == \A k \in Conns : stage[k] \notin {"reserve", "count", "undo"}

-----------------------------------------------------------------------------
(* The accept loop *)

\* ln.Accept fails and the loop returns: the connections there are go on.
AcceptFails ==
  /\ accepting /\ LoopIdle
  /\ accepting' = FALSE
  /\ UNCHANGED <<telnet, stage, ip, sem, perIP, handler>>

\* A connection from host i is accepted and not banned.
Accept(k, i) ==
  /\ accepting /\ LoopIdle
  /\ Goto(k, "new", "reserve")
  /\ ip' = [ip EXCEPT ![k] = i]
  /\ UNCHANGED <<loop, sem, perIP, handler>>

\* A banned source is dropped before the limiter is asked.
DropBanned(k, i) ==
  /\ accepting /\ LoopIdle
  /\ Goto(k, "new", "gone")
  /\ ip' = [ip EXCEPT ![k] = i]
  /\ UNCHANGED <<loop, sem, perIP, handler>>

\* Mutant: the global cap is not checked.
ReserveUnbounded(k) ==
  /\ Goto(k, "reserve", "count")
  /\ sem' = sem + 1
  /\ UNCHANGED <<loop, ip, perIP, handler>>

\* acquire: lm.sem <- struct{}{}
Reserve(k) ==
  /\ sem < MaxSessions
  /\ Goto(k, "reserve", "count")
  /\ sem' = sem + 1
  /\ UNCHANGED <<loop, ip, perIP, handler>>

\* Mutant: a plain send, which waits for room, instead of a select with default.
RefuseFullWaits(k) == FALSE /\ UNCHANGED <<loop, stage, ip, sem, perIP, handler>>

\* acquire: the global cap is reached; the loop closes the socket.
RefuseFull(k) ==
  /\ sem = MaxSessions
  /\ Goto(k, "reserve", "gone")
  /\ UNCHANGED <<loop, ip, sem, perIP, handler>>

OverIP(k) == MaxIP > 0 /\ perIP[ip[k]] >= MaxIP

\* acquire, under mu: count the connection; the loop starts its goroutine.
Count(k) ==
  /\ Goto(k, "count", "serving")
  /\ ~ OverIP(k)
  /\ perIP' = [perIP EXCEPT ![ip[k]] = @ + 1]
  /\ UNCHANGED <<loop, ip, sem, handler>>

\* acquire, under mu: the per-IP cap is reached.
RefuseIP(k) ==
  /\ Goto(k, "count", "undo")
  /\ OverIP(k)
  /\ UNCHANGED <<loop, ip, sem, perIP, handler>>

\* Mutant: the token taken for a connection over its per-IP cap is kept.
UndoKeepsToken(k) ==
  /\ Goto(k, "undo", "gone")
  /\ UNCHANGED <<loop, ip, sem, perIP, handler>>

\* Mutant: a refused connection goes through release as well.
UndoThenRelease(k) ==
  /\ Goto(k, "undo", "uncount")
  /\ sem > 0
  /\ sem' = sem - 1
  /\ UNCHANGED <<loop, ip, perIP, handler>>

\* acquire: <-lm.sem, which would block on an empty channel; then false.
Undo(k) ==
  /\ Goto(k, "undo", "gone")
  /\ sem > 0
  /\ sem' = sem - 1
  /\ UNCHANGED <<loop, ip, perIP, handler>>

-----------------------------------------------------------------------------
(* The goroutine of a connection *)

\* ServeTelnet: handle(newTelnetConn(raw)) runs in the connection's goroutine.
StartTelnet(k, ch) ==
  /\ telnet
  /\ Goto(k, "serving", "up")
  /\ handler' = [handler EXCEPT ![<<k, ch>>] = "running"]
  /\ UNCHANGED <<loop, ip, sem, perIP>>

\* ssh.NewServerConn fails: the key is refused, the peer is gone, or the
\* handshake deadline has passed.
HandshakeFails(k) ==
  /\ ~ telnet
  /\ Goto(k, "serving", "uncount")
  /\ UNCHANGED <<loop, ip, sem, perIP, handler>>

\* ssh.NewServerConn succeeds and the deadline is cleared.
HandshakeOK(k) ==
  /\ ~ telnet
  /\ Goto(k, "serving", "up")
  /\ UNCHANGED <<loop, ip, sem, perIP, handler>>

\* serveSSHConn accepts a session channel and starts its serviceRequests.
OpenChannel(k, ch) ==
  /\ ~ telnet
  /\ stage[k] = "up" /\ handler[<<k, ch>>] = "none"
  /\ handler' = [handler EXCEPT ![<<k, ch>>] = "open"]
  /\ UNCHANGED <<loop, stage, ip, sem, perIP>>

\* serviceRequests: the first "shell" request starts handle in a goroutine of
\* its own.  A request received before the connection went down is still served.
Shell(k, ch) ==
  /\ handler[<<k, ch>>] = "open"
  /\ handler' = [handler EXCEPT ![<<k, ch>>] = "running"]
  /\ UNCHANGED <<loop, stage, ip, sem, perIP>>

\* handle returns (logoff, hang-up or a watchdog).  It ends the goroutine of a
\* Telnet connection; on SSH it only closes the channel.
HandlerEnds(k, ch) ==
  /\ handler[<<k, ch>>] = "running"
  /\ handler' = [handler EXCEPT ![<<k, ch>>] = "done"]
  /\ stage' = IF telnet THEN [stage EXCEPT ![k] = "uncount"] ELSE stage
  /\ UNCHANGED <<loop, ip, sem, perIP>>

\* The SSH connection goes down: the range over chans ends and the goroutine
\* returns, its handlers finding out later.
ConnCloses(k) ==
  /\ ~ telnet
  /\ Goto(k, "up", "uncount")
  /\ UNCHANGED <<loop, ip, sem, perIP, handler>>

\* release, under mu: perIP[ip]--, guarded against going below zero.
Uncount(k) ==
  /\ Goto(k, "uncount", "unslot")
  /\ perIP' = [perIP EXCEPT ![ip[k]] = IF @ > 0 THEN @ - 1 ELSE 0]
  /\ UNCHANGED <<loop, ip, sem, handler>>

\* release: <-lm.sem, which would block on an empty channel.
Unslot(k) ==
  /\ Goto(k, "unslot", "gone")
  /\ sem > 0
  /\ sem' = sem - 1
  /\ UNCHANGED <<loop, ip, perIP, handler>>

-----------------------------------------------------------------------------

\* Steps of the server's own goroutines.
Server(k) ==
  \/ Reserve(k) \/ RefuseFull(k) \/ Count(k) \/ RefuseIP(k) \/ Undo(k)
  \/ Uncount(k) \/ Unslot(k)
  \/ \E ch \in Channels : StartTelnet(k, ch)

Peer(k) ==
  \/ \E i \in IPs : Accept(k, i) \/ DropBanned(k, i)
  \/ HandshakeFails(k) \/ HandshakeOK(k) \/ ConnCloses(k)
  \/ \E ch \in Channels : OpenChannel(k, ch) \/ Shell(k, ch) \/ HandlerEnds(k, ch)

Next == AcceptFails \/ \E k \in Conns : Server(k) \/ Peer(k)

Spec == Init /\ [][Next]_vars

\* Goroutines run and the handshake deadline (HandshakeTimeout > 0) goes off;
\* nothing is assumed of the peers, who may keep a connection up for ever.
Fairness ==
  \A k \in Conns :
    /\ WF_vars(Server(k))
    /\ WF_vars(HandshakeFails(k))

FairSpec == Spec /\ Fairness

-----------------------------------------------------------------------------
(* Properties *)

\* A token of sem is held for k.
HoldsToken(k) == stage[k] \in {"count", "undo", "serving", "up", "uncount", "unslot"}

\* perIP counts k.
Counted(k) == stage[k] \in {"serving", "up", "uncount"}

\* k is being served, from acquire's true to its goroutine's return.
Served(k) == stage[k] \in {"serving", "up"}

\* The limiter's books balance under every interleaving of acquire and release:
\* sem holds one token per connection between its reserve and its release, and
\* perIP[i] is the number of connections of i counted, so no refusal, failure or
\* race leaks a slot or frees one twice.  So no more than MaxSessions connections
\* are served at once, and no more than MaxIP of one host.
SlotsExact ==
  /\ sem = Cardinality({k \in Conns : HoldsToken(k)})
  /\ \A i \in IPs : perIP[i] = Cardinality({k \in Conns : Counted(k) /\ ip[k] = i})
  /\ Cardinality({k \in Conns : Served(k)}) <= MaxSessions
  /\ MaxIP > 0 =>
       \A i \in IPs : Cardinality({k \in Conns : Served(k) /\ ip[k] = i}) <= MaxIP

\* A slot comes back: release never blocks on a connection that is over, a peer
\* that stalls in its SSH handshake runs into the deadline, and on Telnet the end of
\* the handler is the end of the connection.
SlotReturned ==
  \A k \in Conns :
    /\ stage[k] = "uncount" ~> stage[k] = "gone"
    /\ stage[k] = "serving" ~> stage[k] # "serving"
    /\ \A ch \in Channels : telnet /\ handler[<<k, ch>>] = "done" ~> stage[k] = "gone"

\* The accept loop is never wedged inside acquire.
LoopNotWedged == []<>LoopIdle
=============================================================================
