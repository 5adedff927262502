--------------------------- MODULE ListenerProofs ---------------------------
(***************************************************************************)
(* Proofs about Listener: the limiter's books balance for every number of  *)
(* connections and hosts and every pair of caps.  Nothing is assumed about *)
(* the size of Conns: that finitely many connections hold a slot at a time *)
(* is part of what is proved.                                              *)
(***************************************************************************)
EXTENDS Listener, FiniteSetTheorems, TLAPS

\* The sets whose sizes the limiter keeps, as operators of a stage function.
Holding == {"count", "undo", "serving", "up", "uncount", "unslot"}
Counting == {"serving", "up", "uncount"}

At(st, S) == {k \in Conns : st[k] \in S}
AtFrom(st, addr, S, i) == {k \in Conns : st[k] \in S /\ addr[k] = i}

\* Finitely many connections hold a token, and sem is how many.
TokensBalance ==
  /\ IsFiniteSet(At(stage, Holding))
  /\ sem = Cardinality(At(stage, Holding))

\* perIP is how many connections of each host are counted, within the cap.
CountsBalance ==
  /\ \A i \in IPs : /\ IsFiniteSet(AtFrom(stage, ip, Counting, i))
                    /\ perIP[i] = Cardinality(AtFrom(stage, ip, Counting, i))
  /\ MaxIP > 0 => \A i \in IPs : perIP[i] <= MaxIP

\* The limiter only meets connections whose host is known.
HostKnown == \A k \in Conns : stage[k] # "new" => ip[k] \in IPs

\* On Telnet the one handler of a connection runs exactly while it is up: its
\* return releases the slot once.
TelnetHandler ==
  telnet => \A k \in Conns :
    /\ \A ch \in Channels : /\ handler[<<k, ch>>] # "open"
                            /\ handler[<<k, ch>>] = "running" => stage[k] = "up"
    /\ \A c, d \in Channels :
         handler[<<k, c>>] = "running" /\ handler[<<k, d>>] = "running" => c = d

\* The inductive invariant
LInv == TypeOK /\ TokensBalance /\ CountsBalance /\ HostKnown /\ TelnetHandler

-----------------------------------------------------------------------------
(* How a size changes with a member. *)

\* A new member adds one.
LEMMA OneMore ==
  ASSUME NEW A, NEW B, NEW k, IsFiniteSet(A), k \notin A, B = A \cup {k}
  PROVE  IsFiniteSet(B) /\ Cardinality(B) = Cardinality(A) + 1
BY FS_AddElement

\* A member leaving takes one away, and there was one to take.
LEMMA OneLess ==
  ASSUME NEW A, NEW B, NEW k, IsFiniteSet(A), k \in A, B = A \ {k}
  PROVE  IsFiniteSet(B) /\ Cardinality(B) = Cardinality(A) - 1 /\ Cardinality(A) > 0
<1>1. Cardinality(A) \in Nat /\ Cardinality(A) # 0
  BY FS_CardinalityType, FS_EmptySet
<1> QED  BY <1>1, FS_RemoveElement

-----------------------------------------------------------------------------

\* The limiter starts with balanced books.
LEMMA InitHolds == Init => LInv
<1> SUFFICES ASSUME Init PROVE LInv
  OBVIOUS
<1> USE ListenerAssumption
<1>1. TypeOK
  BY DEF Init, TypeOK, Stages
<1>2. At(stage, Holding) = {}
  BY DEF Init, At, Holding
<1>3. \A i \in IPs : AtFrom(stage, ip, Counting, i) = {}
  BY DEF Init, AtFrom, Counting
<1>4. TokensBalance
  BY <1>2, FS_EmptySet DEF Init, TokensBalance
<1>5. CountsBalance
  <2>1. IsFiniteSet({}) /\ Cardinality({}) = 0
    BY FS_EmptySet
  <2>2. \A i \in IPs : perIP[i] = 0
    BY DEF Init
  <2> QED  BY <1>3, <2>1, <2>2 DEF CountsBalance
<1>6. HostKnown /\ TelnetHandler
  BY DEF Init, HostKnown, TelnetHandler
<1> QED  BY <1>1, <1>4, <1>5, <1>6 DEF LInv

\* The accept loop takes a connection: no book is touched.
LEMMA AcceptHolds ==
  ASSUME LInv, NEW k \in Conns, NEW i \in IPs, Accept(k, i) \/ DropBanned(k, i)
  PROVE  LInv'
<1> USE DEF LInv, Goto, loop
<1>1. PICK to \in {"reserve", "gone"} :
        /\ stage[k] = "new" /\ stage' = [stage EXCEPT ![k] = to]
        /\ ip' = [ip EXCEPT ![k] = i]
        /\ UNCHANGED <<loop, sem, perIP, handler>>
  BY DEF Accept, DropBanned
<1>2. TypeOK'
  BY <1>1 DEF TypeOK, Stages
<1>3. TokensBalance'
  <2>1. At(stage', Holding) = At(stage, Holding)
    BY <1>1 DEF TypeOK, At, Holding
  <2> QED  BY <1>1, <2>1 DEF TokensBalance
<1>4. CountsBalance'
  <2>1. \A j \in IPs : AtFrom(stage', ip', Counting, j) = AtFrom(stage, ip, Counting, j)
    BY <1>1 DEF TypeOK, AtFrom, Counting
  <2> QED  BY <1>1, <2>1 DEF CountsBalance
<1>5. HostKnown'
  BY <1>1 DEF HostKnown, TypeOK
<1>6. TelnetHandler'
  BY <1>1 DEF TelnetHandler, TypeOK
<1> QED  BY <1>2, <1>3, <1>4, <1>5, <1>6

\* A token is taken, or given back, with no change to perIP.
LEMMA TokenHolds ==
  ASSUME LInv, NEW k \in Conns, Reserve(k) \/ RefuseFull(k) \/ Undo(k) \/ Unslot(k)
  PROVE  LInv'
<1> USE DEF LInv, Goto, loop
<1> USE ListenerAssumption
<1>1. PICK to \in {"count", "gone"} :
        /\ stage[k] \in {"reserve", "undo", "unslot"}
        /\ stage' = [stage EXCEPT ![k] = to]
        /\ UNCHANGED <<loop, ip, perIP, handler>>
  BY DEF Reserve, RefuseFull, Undo, Unslot
<1>2. TypeOK'
  BY <1>1 DEF TypeOK, Stages, Reserve, RefuseFull, Undo, Unslot
<1>3. TokensBalance'
  <2>1. CASE Reserve(k)
    <3>1. At(stage', Holding) = At(stage, Holding) \cup {k} /\ k \notin At(stage, Holding)
      BY <2>1 DEF Reserve, TypeOK, At, Holding
    <3>2. /\ IsFiniteSet(At(stage', Holding))
          /\ Cardinality(At(stage', Holding)) = Cardinality(At(stage, Holding)) + 1
      BY <3>1, OneMore DEF TokensBalance
    <3> QED  BY <2>1, <3>2 DEF Reserve, TokensBalance
  <2>2. CASE RefuseFull(k)
    <3>1. At(stage', Holding) = At(stage, Holding)
      BY <2>2 DEF RefuseFull, TypeOK, At, Holding
    <3> QED  BY <2>2, <3>1 DEF RefuseFull, TokensBalance
  <2>3. CASE Undo(k) \/ Unslot(k)
    <3>1. At(stage', Holding) = At(stage, Holding) \ {k} /\ k \in At(stage, Holding)
      BY <2>3 DEF Undo, Unslot, TypeOK, At, Holding
    <3>2. /\ IsFiniteSet(At(stage', Holding))
          /\ Cardinality(At(stage', Holding)) = Cardinality(At(stage, Holding)) - 1
      BY <3>1, OneLess DEF TokensBalance
    <3> QED  BY <2>3, <3>2 DEF Undo, Unslot, TokensBalance
  <2> QED  BY <2>1, <2>2, <2>3
<1>4. CountsBalance'
  <2>1. \A j \in IPs : AtFrom(stage', ip, Counting, j) = AtFrom(stage, ip, Counting, j)
    BY <1>1 DEF TypeOK, AtFrom, Counting
  <2> QED  BY <1>1, <2>1 DEF CountsBalance
<1>5. HostKnown'
  BY <1>1 DEF HostKnown, TypeOK
<1>6. TelnetHandler'
  BY <1>1 DEF TelnetHandler, TypeOK
<1> QED  BY <1>2, <1>3, <1>4, <1>5, <1>6

\* A connection is counted, refused for its host, or uncounted: its token stays.
LEMMA CountHolds ==
  ASSUME LInv, NEW k \in Conns, Count(k) \/ RefuseIP(k) \/ Uncount(k)
  PROVE  LInv'
<1> USE DEF LInv, Goto, loop
<1> USE ListenerAssumption
<1>1. PICK to \in {"serving", "undo", "unslot"} :
        /\ stage[k] \in {"count", "uncount"}
        /\ stage' = [stage EXCEPT ![k] = to]
        /\ UNCHANGED <<loop, ip, sem, handler>>
  BY DEF Count, RefuseIP, Uncount
<1>2. ip[k] \in IPs
  BY <1>1 DEF HostKnown
<1>3. TypeOK'
  BY <1>1, <1>2 DEF TypeOK, Stages, Count, RefuseIP, Uncount
<1>4. TokensBalance'
  <2>1. At(stage', Holding) = At(stage, Holding)
    BY <1>1 DEF TypeOK, At, Holding
  <2> QED  BY <1>1, <2>1 DEF TokensBalance
<1>5. CountsBalance'
  <2>0. \A j \in IPs : ip[k] # j =>
          AtFrom(stage', ip, Counting, j) = AtFrom(stage, ip, Counting, j)
    BY <1>1 DEF TypeOK, AtFrom
  <2>1. CASE Count(k)
    <3>1. /\ AtFrom(stage', ip, Counting, ip[k])
               = AtFrom(stage, ip, Counting, ip[k]) \cup {k}
          /\ k \notin AtFrom(stage, ip, Counting, ip[k])
      BY <2>1 DEF Count, TypeOK, AtFrom, Counting
    <3>2. /\ IsFiniteSet(AtFrom(stage', ip, Counting, ip[k]))
          /\ Cardinality(AtFrom(stage', ip, Counting, ip[k]))
               = Cardinality(AtFrom(stage, ip, Counting, ip[k])) + 1
      BY <1>2, <3>1, OneMore DEF CountsBalance
    <3>3. /\ perIP' = [perIP EXCEPT ![ip[k]] = perIP[ip[k]] + 1]
          /\ MaxIP > 0 => perIP[ip[k]] + 1 <= MaxIP
      BY <1>2, <2>1 DEF Count, OverIP, TypeOK
    <3>4. ASSUME NEW j \in IPs
          PROVE  /\ IsFiniteSet(AtFrom(stage', ip', Counting, j))
                 /\ perIP'[j] = Cardinality(AtFrom(stage', ip', Counting, j))
                 /\ MaxIP > 0 => perIP'[j] <= MaxIP
      <4>1. perIP[j] \in Nat /\ perIP \in [IPs -> Nat] /\ ip' = ip
        BY <1>1 DEF TypeOK
      <4>2. CASE j = ip[k]
        BY <1>2, <3>2, <3>3, <4>1, <4>2 DEF CountsBalance
      <4>3. CASE j # ip[k]
        BY <1>2, <2>0, <3>3, <4>1, <4>3 DEF CountsBalance
      <4> QED  BY <4>2, <4>3
    <3> QED  BY <3>4 DEF CountsBalance
  <2>2. CASE RefuseIP(k)
    <3>1. \A j \in IPs : AtFrom(stage', ip, Counting, j) = AtFrom(stage, ip, Counting, j)
      BY <2>2 DEF RefuseIP, TypeOK, AtFrom, Counting
    <3> QED  BY <2>2, <3>1 DEF RefuseIP, CountsBalance
  <2>3. CASE Uncount(k)
    <3>1. /\ AtFrom(stage', ip, Counting, ip[k])
               = AtFrom(stage, ip, Counting, ip[k]) \ {k}
          /\ k \in AtFrom(stage, ip, Counting, ip[k])
      BY <2>3 DEF Uncount, TypeOK, AtFrom, Counting
    <3>2. /\ IsFiniteSet(AtFrom(stage', ip, Counting, ip[k]))
          /\ Cardinality(AtFrom(stage', ip, Counting, ip[k]))
               = Cardinality(AtFrom(stage, ip, Counting, ip[k])) - 1
          /\ Cardinality(AtFrom(stage, ip, Counting, ip[k])) > 0
      <4>1. IsFiniteSet(AtFrom(stage, ip, Counting, ip[k]))
        BY <1>2 DEF CountsBalance
      <4> QED  BY <3>1, <4>1, OneLess
    <3>3. /\ perIP' = [perIP EXCEPT ![ip[k]] = perIP[ip[k]] - 1]
          /\ perIP[ip[k]] > 0
      BY <1>2, <2>3, <3>2 DEF Uncount, CountsBalance
    <3>4. ASSUME NEW j \in IPs
          PROVE  /\ IsFiniteSet(AtFrom(stage', ip', Counting, j))
                 /\ perIP'[j] = Cardinality(AtFrom(stage', ip', Counting, j))
                 /\ MaxIP > 0 => perIP'[j] <= MaxIP
      <4>1. perIP[j] \in Nat /\ perIP \in [IPs -> Nat] /\ ip' = ip
        BY <1>1 DEF TypeOK
      <4>2. CASE j = ip[k]
        BY <1>2, <3>2, <3>3, <4>1, <4>2 DEF CountsBalance
      <4>3. CASE j # ip[k]
        BY <1>2, <2>0, <3>3, <4>1, <4>3 DEF CountsBalance
      <4> QED  BY <4>2, <4>3
    <3> QED  BY <3>4 DEF CountsBalance
  <2> QED  BY <2>1, <2>2, <2>3
<1>6. HostKnown'
  BY <1>1 DEF HostKnown, TypeOK
<1>7. TelnetHandler'
  BY <1>1 DEF TelnetHandler, TypeOK
<1> QED  BY <1>3, <1>4, <1>5, <1>6, <1>7

\* The connection's own goroutine, and the handlers of its channels.
LEMMA ServingHolds ==
  ASSUME LInv, NEW k \in Conns, NEW ch,
         \/ HandshakeFails(k) \/ HandshakeOK(k) \/ ConnCloses(k)
         \/ /\ ch \in Channels
            /\ \/ StartTelnet(k, ch) \/ OpenChannel(k, ch)
               \/ Shell(k, ch) \/ HandlerEnds(k, ch)
  PROVE  LInv'
<1> USE DEF LInv, Goto, loop
<1> USE ListenerAssumption
<1>1. PICK to \in Stages :
        /\ stage' = [stage EXCEPT ![k] = to]
        /\ stage[k] \in Counting => to \in Counting
        /\ stage[k] \notin Counting => to = stage[k]
        /\ UNCHANGED <<loop, ip, sem, perIP>>
  <2>1. CASE StartTelnet(k, ch) \/ HandshakeFails(k) \/ HandshakeOK(k) \/ ConnCloses(k)
    BY <2>1 DEF StartTelnet, HandshakeFails, HandshakeOK, ConnCloses, Counting, Stages
  <2>2. CASE OpenChannel(k, ch) \/ Shell(k, ch) \/ (HandlerEnds(k, ch) /\ ~ telnet)
    <3>1. stage' = [stage EXCEPT ![k] = stage[k]] /\ stage[k] \in Stages
      BY <2>2 DEF OpenChannel, Shell, HandlerEnds, TypeOK
    <3> QED  BY <2>2, <3>1 DEF OpenChannel, Shell, HandlerEnds
  <2>3. CASE ch \in Channels /\ HandlerEnds(k, ch) /\ telnet
    <3>1. stage[k] = "up"
      BY <2>3 DEF HandlerEnds, TelnetHandler
    <3> QED  BY <2>3, <3>1 DEF HandlerEnds, Counting, Stages
  <2> QED  BY <2>1, <2>2, <2>3
<1>2. TypeOK'
  <2>1. handler' \in [Conns \X Channels -> {"none", "open", "running", "done"}]
    BY DEF TypeOK, StartTelnet, HandshakeFails, HandshakeOK, ConnCloses, OpenChannel,
           Shell, HandlerEnds
  <2> QED  BY <1>1, <2>1 DEF TypeOK
<1>3. TokensBalance'
  <2>1. stage[k] \in Holding <=> to \in Holding
    BY <1>1 DEF Holding, Counting
  <2>2. At(stage', Holding) = At(stage, Holding)
    BY <1>1, <2>1 DEF TypeOK, At
  <2> QED  BY <1>1, <2>2 DEF TokensBalance
<1>4. CountsBalance'
  <2>1. \A j \in IPs : AtFrom(stage', ip, Counting, j) = AtFrom(stage, ip, Counting, j)
    BY <1>1 DEF TypeOK, AtFrom
  <2> QED  BY <1>1, <2>1 DEF CountsBalance
<1>5. HostKnown'
  BY <1>1 DEF HostKnown, TypeOK, Counting
<1>6. TelnetHandler'
  <2>1. CASE ch \in Channels /\ StartTelnet(k, ch)
    BY <2>1 DEF StartTelnet, TelnetHandler, TypeOK
  <2>2. CASE ch \in Channels /\ HandlerEnds(k, ch)
    BY <2>2 DEF HandlerEnds, TelnetHandler, TypeOK
  <2>3. CASE ch \in Channels /\ Shell(k, ch)
    BY <2>3 DEF Shell, TelnetHandler, TypeOK
  <2>4. CASE HandshakeFails(k) \/ HandshakeOK(k) \/ ConnCloses(k) \/ OpenChannel(k, ch)
    BY <2>4 DEF HandshakeFails, HandshakeOK, ConnCloses, OpenChannel, TelnetHandler
  <2> QED  BY <2>1, <2>2, <2>3, <2>4
<1> QED  BY <1>2, <1>3, <1>4, <1>5, <1>6

\* Any step keeps them balanced.
LEMMA StepHolds == LInv /\ [Next]_vars => LInv'
<1> SUFFICES ASSUME LInv, [Next]_vars PROVE LInv'
  OBVIOUS
<1>1. CASE UNCHANGED vars
  BY <1>1 DEF vars, LInv, TypeOK, TokensBalance, CountsBalance, HostKnown,
              TelnetHandler, At, AtFrom
<1>2. CASE AcceptFails
  BY <1>2 DEF AcceptFails, LInv, TypeOK, TokensBalance, CountsBalance, HostKnown,
              TelnetHandler, At, AtFrom
<1>3. CASE \E k \in Conns : Server(k) \/ Peer(k)
  <2>1. PICK k \in Conns : Server(k) \/ Peer(k)
    BY <1>3
  <2>2. CASE \E i \in IPs : Accept(k, i) \/ DropBanned(k, i)
    BY <2>2, AcceptHolds
  <2>3. CASE Reserve(k) \/ RefuseFull(k) \/ Undo(k) \/ Unslot(k)
    BY <2>3, TokenHolds
  <2>4. CASE Count(k) \/ RefuseIP(k) \/ Uncount(k)
    BY <2>4, CountHolds
  <2>5. CASE \E ch \in Channels : StartTelnet(k, ch) \/ OpenChannel(k, ch)
                                    \/ Shell(k, ch) \/ HandlerEnds(k, ch)
    BY <2>5, ServingHolds
  <2>6. CASE HandshakeFails(k) \/ HandshakeOK(k) \/ ConnCloses(k)
    BY <2>6, ServingHolds
  <2> QED  BY <2>1, <2>2, <2>3, <2>4, <2>5, <2>6 DEF Server, Peer
<1> QED  BY <1>1, <1>2, <1>3 DEF Next

\* The inductive invariant holds of every behaviour of the listener.
THEOREM ListenerInvariant == Spec => []LInv
BY InitHolds, StepHolds, PTL DEF Spec

\* Every variable keeps its type; sem never goes over the channel's capacity.
THEOREM ListenerTypeCorrect == Spec => []TypeOK
<1>1. LInv => TypeOK
  BY DEF LInv
<1> QED  BY <1>1, ListenerInvariant, PTL

\* Balanced books are what SlotsExact asks for, caps included.
LEMMA BalanceIsExact == LInv => SlotsExact
<1> SUFFICES ASSUME LInv PROVE SlotsExact
  OBVIOUS
<1> USE DEF LInv
<1> USE ListenerAssumption
<1>1. {k \in Conns : HoldsToken(k)} = At(stage, Holding)
  BY DEF HoldsToken, At, Holding
<1>2. \A i \in IPs : {k \in Conns : Counted(k) /\ ip[k] = i} = AtFrom(stage, ip, Counting, i)
  BY DEF Counted, AtFrom, Counting
<1>3. Cardinality({k \in Conns : Served(k)}) <= MaxSessions
  <2>1. {k \in Conns : Served(k)} \subseteq At(stage, Holding)
    BY DEF Served, At, Holding
  <2>2. /\ Cardinality({k \in Conns : Served(k)}) \in Nat
        /\ Cardinality({k \in Conns : Served(k)}) <= Cardinality(At(stage, Holding))
    BY <2>1, FS_Subset, FS_CardinalityType DEF TokensBalance
  <2> QED  BY <2>2 DEF TokensBalance, TypeOK
<1>4. MaxIP > 0 =>
        \A i \in IPs : Cardinality({k \in Conns : Served(k) /\ ip[k] = i}) <= MaxIP
  <2> SUFFICES ASSUME MaxIP > 0, NEW i \in IPs
               PROVE  Cardinality({k \in Conns : Served(k) /\ ip[k] = i}) <= MaxIP
    OBVIOUS
  <2>1. {k \in Conns : Served(k) /\ ip[k] = i} \subseteq AtFrom(stage, ip, Counting, i)
    BY DEF Served, AtFrom, Counting
  <2>2. /\ Cardinality({k \in Conns : Served(k) /\ ip[k] = i}) \in Nat
        /\ Cardinality({k \in Conns : Served(k) /\ ip[k] = i})
             <= Cardinality(AtFrom(stage, ip, Counting, i))
    BY <2>1, FS_Subset, FS_CardinalityType DEF CountsBalance
  <2>3. perIP[i] = Cardinality(AtFrom(stage, ip, Counting, i)) /\ perIP[i] <= MaxIP
    BY DEF CountsBalance
  <2>4. perIP[i] \in Nat
    BY DEF TypeOK
  <2> QED  BY <2>2, <2>3, <2>4
<1> QED  BY <1>1, <1>2, <1>3, <1>4 DEF SlotsExact, TokensBalance, CountsBalance

\* The limiter's books balance under every interleaving of acquire and release
\* (limits.go), and the two caps hold: for any number of connections.
THEOREM SlotsExactAlways == Spec => []SlotsExact
BY BalanceIsExact, ListenerInvariant, PTL
=============================================================================
