--------------------------- MODULE SessionsProofs ---------------------------
(* Proofs about Sessions, for any callers, handles and number of nodes. *)
EXTENDS Sessions, TLAPS

\* A session carries a token id exactly while it is registered; ids are handed
\* out by a counter, so no two registered sessions share one.
TokensDistinct ==
  /\ \A c \in Callers : Registered(c) <=> presID[c] # 0
  /\ \A c \in Callers : presID[c] <= seq
  /\ \A c, d \in Callers : presID[c] = presID[d] /\ presID[c] # 0 => c = d

\* A session carries a node number exactly between Acquire and Release.
NodeHeld == \A c \in Callers : Holding(c) <=> node[c] # 0

\* A session has an authenticated handle from its start on.
UserKnown == \A c \in Callers : pc[c] # "new" => user[c] \in Handles

\* The inductive invariant: the safety properties of Sessions and the three
\* facts above, without which none of them is preserved.
IInv ==
  /\ TypeOK
  /\ TokensDistinct
  /\ NodeHeld
  /\ UserKnown
  /\ NodesExclusive
  /\ RosterExact
  /\ PresenceSound
  /\ DisplacedIsBeingClosed

-----------------------------------------------------------------------------
(* Preservation, action by action *)

\* What the control points say of a session: the only thing the invariant
\* reads of pc, besides who is in "kick" and who has not started.
SameStanding(c) ==
  /\ Registered(c)' <=> Registered(c)
  /\ Holding(c)' <=> Holding(c)
  /\ Listed(c)' <=> Listed(c)

\* A step of c that leaves the registries alone, opens no wire and crosses no
\* Enter, Acquire, Join or deferred call preserves the invariant.
LEMMA QuietStep ==
  ASSUME NEW c \in Callers, IInv, TypeOK',
         \A d \in Callers \ {c} : pc'[d] = pc[d],
         SameStanding(c),
         pc'[c] = "kick" <=> pc[c] = "kick",
         pc'[c] # "new" => pc[c] # "new",
         \A d \in Callers : Open(d)' => Open(d),
         UNCHANGED <<user, presence, pool, roster>>
  PROVE  IInv'
<1> USE DEF IInv, TypeOK, SameStanding, presence, pool
<1>0. \A d \in Callers : SameStanding(d)
  BY DEF Registered, Holding, Listed
<1>1. TokensDistinct' /\ NodeHeld' /\ UserKnown'
  BY <1>0 DEF TokensDistinct, NodeHeld, UserKnown
<1>2. NodesExclusive'
  BY <1>0 DEF NodesExclusive
<1>3. RosterExact'
  BY <1>0 DEF RosterExact
<1>4. PresenceSound'
  BY <1>0 DEF PresenceSound
<1>5. DisplacedIsBeingClosed'
  BY <1>0 DEF DisplacedIsBeingClosed, Displaced
<1> QED BY <1>1, <1>2, <1>3, <1>4, <1>5

\* The handler starts, its wire open.
LEMMA Start_IInv ==
  ASSUME NEW c \in Callers, NEW h \in Handles, IInv, Start(c, h) PROVE IInv'
<1> USE DEF IInv, TypeOK, Start, Goto, presence, pool
<1>1. TypeOK'
  BY DEF PCs, Wires
<1>2. TokensDistinct' /\ NodeHeld' /\ UserKnown'
  BY DEF TokensDistinct, Registered, NodeHeld, Holding, UserKnown
<1>3. NodesExclusive'
  BY DEF NodesExclusive, Holding
<1>4. RosterExact'
  BY DEF RosterExact, Listed
<1>5. PresenceSound'
  BY DEF PresenceSound, Registered
<1>6. DisplacedIsBeingClosed'
  BY DEF DisplacedIsBeingClosed, Displaced, Registered, Open
<1> QED BY <1>1, <1>2, <1>3, <1>4, <1>5, <1>6

\* The displaced session is the one PresenceSound names, it is not c, and c is
\* the login that is about to close it.
LEMMA Enter_IInv ==
  ASSUME NEW c \in Callers, IInv, Enter(c) PROVE IInv'
<1> DEFINE h == user[c]
<1>0. /\ h \in Handles /\ ~ Registered(c) /\ pc[c] = "enter"
      /\ cur[h] \in Token
      /\ cur[h] # NoToken => cur[h].sess \in Callers /\ Registered(cur[h].sess)
      /\ cur[h].sess = NoCaller => cur[h] = NoToken
  BY ConstantsAssumption
  DEF IInv, TypeOK, UserKnown, Enter, Goto, Registered, PresenceSound, NoToken
<1>1. /\ pc' = [pc EXCEPT ![c] = IF cur[h].sess = NoCaller THEN "acquire" ELSE "kick"]
      /\ presID' = [presID EXCEPT ![c] = seq + 1]
      /\ seq' = seq + 1
      /\ cur' = [cur EXCEPT ![h] = [id |-> seq + 1, sess |-> c]]
      /\ victim' = [victim EXCEPT ![c] = cur[h].sess]
      /\ user' = user /\ conn' = conn /\ budgeted' = budgeted /\ used' = used
      /\ node' = node /\ roster' = roster
  BY DEF Enter, Goto, wire, pool
<1>2. TypeOK'
  <2>1. [id |-> seq + 1, sess |-> c] \in Token
    BY DEF IInv, TypeOK, Token
  <2>2. cur' \in [Handles -> Token]
    BY <1>0, <1>1, <2>1 DEF IInv, TypeOK
  <2>3. pc' \in [Callers -> PCs]
    BY <1>1 DEF IInv, TypeOK, PCs
  <2>4. cur[h].sess \in Callers \cup {NoCaller}
    BY <1>0 DEF Token
  <2> QED BY <1>1, <2>2, <2>3, <2>4 DEF IInv, TypeOK
<1>3. Registered(c)' /\ (\A d \in Callers \ {c} : Registered(d)' <=> Registered(d))
  BY <1>0, <1>1 DEF IInv, TypeOK, Registered
<1>4. \A d \in Callers : (Holding(d)' <=> Holding(d)) /\ (Listed(d)' <=> Listed(d))
  BY <1>0, <1>1 DEF IInv, TypeOK, Holding, Listed
<1>5. TokensDistinct'
  BY <1>1, <1>3 DEF IInv, TypeOK, TokensDistinct
<1>6. NodeHeld' /\ UserKnown'
  BY <1>0, <1>1, <1>4 DEF IInv, TypeOK, NodeHeld, UserKnown
<1>7. NodesExclusive'
  BY <1>1, <1>4 DEF IInv, NodesExclusive
<1>8. RosterExact'
  BY <1>1, <1>4 DEF IInv, RosterExact
<1>9. PresenceSound'
  <2> SUFFICES ASSUME NEW g \in Handles, cur'[g] # NoToken
               PROVE  \E d \in Callers :
                        /\ Registered(d)' /\ user'[d] = g
                        /\ cur'[g] = [id |-> presID'[d], sess |-> d]
    BY DEF PresenceSound
  <2>1. CASE g = h
    <3>1. cur'[g] = [id |-> presID'[c], sess |-> c] /\ user'[c] = g
      BY <1>0, <1>1, <2>1 DEF IInv, TypeOK
    <3> QED BY <3>1, <1>3
  <2>2. CASE g # h
    <3>1. cur'[g] = cur[g]
      BY <1>0, <1>1, <2>2 DEF IInv, TypeOK
    <3>2. PICK d \in Callers : /\ Registered(d) /\ user[d] = g
                               /\ cur[g] = [id |-> presID[d], sess |-> d]
      BY <3>1 DEF IInv, PresenceSound
    <3>3. d # c /\ presID'[d] = presID[d]
      BY <1>0, <1>1, <3>2 DEF IInv, TypeOK
    <3> QED BY <1>1, <1>3, <3>1, <3>2, <3>3
  <2> QED BY <2>1, <2>2
<1>10. DisplacedIsBeingClosed'
  <2> SUFFICES ASSUME NEW d \in Callers, Displaced(d)', Open(d)'
               PROVE  \E e \in Callers : pc'[e] = "kick" /\ victim'[e] = d
    BY DEF DisplacedIsBeingClosed
  <2>1. d # c /\ Registered(d)
    BY <1>0, <1>1, <1>3 DEF IInv, TypeOK, Displaced
  <2>2. CASE Displaced(d)
    <3>1. PICK e \in Callers : pc[e] = "kick" /\ victim[e] = d
      BY <1>1, <2>2 DEF IInv, DisplacedIsBeingClosed, Open
    <3>2. e # c
      BY <1>0, <3>1
    <3> QED BY <1>1, <3>1, <3>2 DEF IInv, TypeOK
  <2>3. CASE cur[h].sess = d /\ user[d] = h
    <3>1. pc'[c] = "kick" /\ victim'[c] = d
      BY ConstantsAssumption, <1>1, <2>3 DEF IInv, TypeOK
    <3> QED BY <3>1
  <2>4. cur[user[d]].sess = d => Displaced(d) \/ user[d] = h
    BY <1>0, <1>1 DEF Displaced, IInv, TypeOK
  <2> QED BY <2>1, <2>2, <2>3, <2>4 DEF Displaced
<1> QED BY <1>2, <1>5, <1>6, <1>7, <1>8, <1>9, <1>10 DEF IInv

\* The displaced session's wire is closed.
LEMMA Kick_IInv ==
  ASSUME NEW c \in Callers, IInv, Kick(c) PROVE IInv'
<1> USE DEF IInv, TypeOK, Kick, Goto, CloseWire, pool
<1>1. TypeOK'
  BY DEF PCs, Wires
<1>2. TokensDistinct' /\ NodeHeld' /\ UserKnown'
  BY DEF TokensDistinct, Registered, NodeHeld, Holding, UserKnown
<1>3. NodesExclusive'
  BY DEF NodesExclusive, Holding
<1>4. RosterExact'
  BY DEF RosterExact, Listed
<1>5. PresenceSound'
  BY DEF PresenceSound, Registered
<1>6. DisplacedIsBeingClosed'
  BY DEF DisplacedIsBeingClosed, Displaced, Registered, Open
<1> QED BY <1>1, <1>2, <1>3, <1>4, <1>5, <1>6

\* The number handed out is free, so by NodesExclusive nobody holds it and by
\* RosterExact nobody is listed on it.
LEMMA Acquire_IInv ==
  ASSUME NEW c \in Callers, IInv, Acquire(c) PROVE IInv'
<1>1. PICK n \in Nodes : /\ FirstFree(n)
                         /\ used' = used \cup {n}
                         /\ node' = [node EXCEPT ![c] = n]
  BY DEF Acquire
<1>2. /\ pc[c] = "acquire" /\ pc' = [pc EXCEPT ![c] = "join"]
      /\ UNCHANGED <<user, conn, budgeted, cur, seq, presID, victim, roster>>
  BY DEF Acquire, Goto, wire, presence
<1>3. n \notin used /\ n # 0 /\ n \in 0..MaxNodes
  BY <1>1, ConstantsAssumption DEF FirstFree, Nodes
<1> USE DEF IInv
<1>4. TypeOK'
  BY <1>1, <1>2, <1>3 DEF TypeOK, PCs
<1>5. TokensDistinct' /\ NodeHeld' /\ UserKnown'
  BY <1>1, <1>2, <1>3 DEF TypeOK, TokensDistinct, Registered, NodeHeld, Holding, UserKnown
<1>6. ~ Holding(c) /\ Holding(c)'
  BY <1>2 DEF TypeOK, Holding
<1>7. \A d \in Callers \ {c} : (Holding(d)' <=> Holding(d)) /\ node'[d] = node[d]
  BY <1>1, <1>2 DEF TypeOK, Holding
<1>8. node'[c] = n /\ \A d \in Callers : Holding(d) => node[d] # n
  BY <1>1, <1>3 DEF TypeOK, NodesExclusive
<1>9. NodesExclusive'
  BY <1>1, <1>6, <1>7, <1>8 DEF NodesExclusive
<1>10. RosterExact'
  <2>1. \A d \in Callers : (Listed(d)' <=> Listed(d)) /\ (Listed(d) => d # c)
    BY <1>2 DEF TypeOK, Listed
  <2> QED BY <1>2, <1>7, <2>1 DEF RosterExact
<1>11. PresenceSound'
  BY <1>2 DEF TypeOK, PresenceSound, Registered
<1>12. DisplacedIsBeingClosed'
  BY <1>2 DEF TypeOK, DisplacedIsBeingClosed, Displaced, Registered, Open
<1> QED BY <1>4, <1>5, <1>9, <1>10, <1>11, <1>12

\* What Join and the three deferred calls that touch the pool and the roster
\* leave alone.
LEMMA NodeStep ==
  ASSUME NEW c \in Callers, IInv, TypeOK',
         \A d \in Callers \ {c} : pc'[d] = pc[d],
         Registered(c), Registered(c)', pc[c] # "kick",
         UNCHANGED <<user, conn, presence>>
  PROVE  TokensDistinct' /\ UserKnown' /\ PresenceSound' /\ DisplacedIsBeingClosed'
<1> USE DEF IInv, TypeOK, presence
<1>1. \A d \in Callers : Registered(d)' <=> Registered(d)
  BY DEF Registered
<1>2. TokensDistinct' /\ UserKnown'
  BY <1>1 DEF TokensDistinct, UserKnown, Registered
<1>3. PresenceSound'
  BY <1>1 DEF PresenceSound
<1>4. DisplacedIsBeingClosed'
  BY <1>1 DEF DisplacedIsBeingClosed, Displaced, Open
<1> QED BY <1>2, <1>3, <1>4

\* Roster.Join
LEMMA Join_IInv ==
  ASSUME NEW c \in Callers, IInv, Join(c) PROVE IInv'
<1>1. /\ pc[c] = "join" /\ pc' = [pc EXCEPT ![c] = "budget"]
      /\ roster' = [roster EXCEPT ![node[c]] = user[c]]
      /\ UNCHANGED <<user, conn, budgeted, presence, used, node>>
  BY DEF Join, Goto, wire, pool
<1>2. node[c] \in Nodes /\ user[c] \in Handles /\ Holding(c)
  BY <1>1, ConstantsAssumption DEF IInv, TypeOK, NodeHeld, Holding, Nodes, UserKnown
<1>3. TypeOK'
  BY <1>1, <1>2 DEF IInv, TypeOK, PCs, presence
<1>4. TokensDistinct' /\ UserKnown' /\ PresenceSound' /\ DisplacedIsBeingClosed'
  BY <1>1, <1>3, NodeStep DEF IInv, TypeOK, Registered
<1>5. \A d \in Callers : Holding(d)' <=> Holding(d)
  BY <1>1 DEF IInv, TypeOK, Holding
<1>6. NodeHeld' /\ NodesExclusive'
  BY <1>1, <1>5 DEF IInv, NodeHeld, NodesExclusive
<1>7. Listed(c)' /\ \A d \in Callers \ {c} : Listed(d)' <=> Listed(d)
  BY <1>1 DEF IInv, TypeOK, Listed
<1>8. \A d \in Callers \ {c} : Listed(d) => node[d] # node[c] /\ node[d] \in Nodes
  BY <1>2, ConstantsAssumption
  DEF IInv, TypeOK, Listed, Holding, NodesExclusive, NodeHeld, Nodes
<1>9. RosterExact'
  <2>1. \A d \in Callers : Listed(d)' => roster'[node'[d]] = user'[d]
    BY <1>1, <1>2, <1>7, <1>8 DEF IInv, TypeOK, RosterExact
  <2>2. \A n \in Nodes : roster'[n] # NoHandle =>
          \E d \in Callers : Listed(d)' /\ node'[d] = n
    BY <1>1, <1>2, <1>7 DEF IInv, TypeOK, RosterExact
  <2> QED BY <2>1, <2>2 DEF RosterExact
<1> QED BY <1>3, <1>4, <1>6, <1>9 DEF IInv

\* Roster.Leave
LEMMA RosterLeave_IInv ==
  ASSUME NEW c \in Callers, IInv, RosterLeave(c) PROVE IInv'
<1>1. /\ pc[c] = "rosterLeave" /\ pc' = [pc EXCEPT ![c] = "release"]
      /\ roster' = [roster EXCEPT ![node[c]] = NoHandle]
      /\ UNCHANGED <<user, conn, budgeted, presence, used, node>>
  BY DEF RosterLeave, Goto, wire, pool
<1>2. node[c] \in Nodes /\ Holding(c) /\ Listed(c)
  BY <1>1, ConstantsAssumption DEF IInv, TypeOK, NodeHeld, Holding, Listed, Nodes
<1>3. TypeOK'
  BY <1>1, <1>2 DEF IInv, TypeOK, PCs, presence
<1>4. TokensDistinct' /\ UserKnown' /\ PresenceSound' /\ DisplacedIsBeingClosed'
  BY <1>1, <1>3, NodeStep DEF IInv, TypeOK, Registered
<1>5. \A d \in Callers : Holding(d)' <=> Holding(d)
  BY <1>1 DEF IInv, TypeOK, Holding
<1>6. NodeHeld' /\ NodesExclusive'
  BY <1>1, <1>5 DEF IInv, NodeHeld, NodesExclusive
<1>7. ~ Listed(c)' /\ \A d \in Callers \ {c} : Listed(d)' <=> Listed(d)
  BY <1>1 DEF IInv, TypeOK, Listed
<1>8. \A d \in Callers \ {c} : Listed(d) => node[d] # node[c] /\ node[d] \in Nodes
  BY <1>2, ConstantsAssumption
  DEF IInv, TypeOK, Listed, Holding, NodesExclusive, NodeHeld, Nodes
<1>9. RosterExact'
  <2>1. \A d \in Callers : Listed(d)' => roster'[node'[d]] = user'[d]
    BY <1>1, <1>2, <1>7, <1>8 DEF IInv, TypeOK, RosterExact
  <2>2. \A n \in Nodes : roster'[n] # NoHandle =>
          \E d \in Callers : Listed(d)' /\ node'[d] = n
    BY <1>1, <1>2, <1>7 DEF IInv, TypeOK, RosterExact
  <2> QED BY <2>1, <2>2 DEF RosterExact
<1> QED BY <1>3, <1>4, <1>6, <1>9 DEF IInv

\* NodePool.Release
LEMMA Release_IInv ==
  ASSUME NEW c \in Callers, IInv, Release(c) PROVE IInv'
<1>1. /\ pc[c] = "release" /\ pc' = [pc EXCEPT ![c] = "presenceLeave"]
      /\ used' = used \ {node[c]} /\ node' = [node EXCEPT ![c] = 0]
      /\ UNCHANGED <<user, conn, budgeted, presence, roster>>
  BY DEF Release, Goto, wire
<1>2. 0 \in 0..MaxNodes /\ Holding(c) /\ ~ Listed(c)
  BY <1>1, ConstantsAssumption DEF Holding, Listed
<1>3. TypeOK'
  BY <1>1, <1>2 DEF IInv, TypeOK, PCs, presence
<1>4. TokensDistinct' /\ UserKnown' /\ PresenceSound' /\ DisplacedIsBeingClosed'
  BY <1>1, <1>3, NodeStep DEF IInv, TypeOK, Registered
<1>5. /\ ~ Holding(c)'
      /\ \A d \in Callers \ {c} : (Holding(d)' <=> Holding(d)) /\ node'[d] = node[d]
  BY <1>1 DEF IInv, TypeOK, Holding
<1>6. NodeHeld' /\ NodesExclusive'
  BY <1>1, <1>2, <1>5 DEF IInv, TypeOK, NodeHeld, NodesExclusive
<1>7. \A d \in Callers : (Listed(d)' <=> Listed(d)) /\ (Listed(d) => d # c)
  BY <1>1, <1>2 DEF IInv, TypeOK, Listed
<1>8. RosterExact'
  BY <1>1, <1>5, <1>7 DEF IInv, RosterExact
<1> QED BY <1>3, <1>4, <1>6, <1>8 DEF IInv

\* Ids are distinct, so if the slot carries c's id it is c's own token, and
\* every other session of the handle was displaced already.
LEMMA PresenceLeave_IInv ==
  ASSUME NEW c \in Callers, IInv, PresenceLeave(c) PROVE IInv'
<1> DEFINE h == user[c]
<1>1. /\ pc[c] = "presenceLeave" /\ pc' = [pc EXCEPT ![c] = "close"]
      /\ cur' = IF cur[h].id = presID[c] THEN [cur EXCEPT ![h] = NoToken] ELSE cur
      /\ presID' = [presID EXCEPT ![c] = 0]
      /\ UNCHANGED <<user, conn, budgeted, seq, victim, used, node, roster>>
  BY DEF PresenceLeave, Goto, wire, pool
<1>2. h \in Handles /\ Registered(c) /\ presID[c] # 0
  BY <1>1 DEF IInv, TypeOK, UserKnown, Registered, TokensDistinct
<1>3. TypeOK'
  <2>1. NoToken \in Token
    BY DEF NoToken, Token
  <2>2. cur' \in [Handles -> Token]
    BY <1>1, <1>2, <2>1 DEF IInv, TypeOK
  <2> QED BY <1>1, <2>2 DEF IInv, TypeOK, PCs
<1>4. ~ Registered(c)' /\ \A d \in Callers \ {c} : Registered(d)' <=> Registered(d)
  BY <1>1 DEF IInv, TypeOK, Registered
<1>5. cur[h].id = presID[c] => cur[h].sess = c
  <2> SUFFICES ASSUME cur[h].id = presID[c] PROVE cur[h].sess = c
    OBVIOUS
  <2>1. cur[h] # NoToken
    BY <1>2 DEF NoToken
  <2>2. PICK d \in Callers : cur[h] = [id |-> presID[d], sess |-> d]
    BY <1>2, <2>1 DEF IInv, PresenceSound
  <2>3. presID[d] = presID[c]
    BY <2>2
  <2>4. d = c
    BY <1>2, <2>3 DEF IInv, TokensDistinct
  <2> QED BY <2>2, <2>4
<1>6. TokensDistinct' /\ UserKnown'
  BY <1>1, <1>2, <1>4 DEF IInv, TypeOK, TokensDistinct, UserKnown
<1>7. \A d \in Callers : (Holding(d)' <=> Holding(d)) /\ (Listed(d)' <=> Listed(d))
  BY <1>1 DEF IInv, TypeOK, Holding, Listed
<1>8. NodeHeld' /\ NodesExclusive'
  BY <1>1, <1>7 DEF IInv, NodeHeld, NodesExclusive
<1>9. RosterExact'
  BY <1>1, <1>7 DEF IInv, RosterExact
<1>10. PresenceSound'
  <2> SUFFICES ASSUME NEW g \in Handles, cur'[g] # NoToken
               PROVE  \E d \in Callers :
                        /\ Registered(d)' /\ user'[d] = g
                        /\ cur'[g] = [id |-> presID'[d], sess |-> d]
    BY DEF PresenceSound
  <2>1. cur'[g] = cur[g] /\ (g = h => cur[g].id # presID[c])
    BY <1>1, <1>2 DEF IInv, TypeOK
  <2>2. PICK d \in Callers : /\ Registered(d) /\ user[d] = g
                             /\ cur[g] = [id |-> presID[d], sess |-> d]
    BY <2>1 DEF IInv, PresenceSound
  <2>3. d # c
    BY <2>1, <2>2
  <2>4. presID'[d] = presID[d]
    BY <1>1, <2>3 DEF IInv, TypeOK
  <2> QED BY <1>1, <1>4, <2>1, <2>2, <2>3, <2>4
<1>11. DisplacedIsBeingClosed'
  <2> SUFFICES ASSUME NEW d \in Callers, Displaced(d)', Open(d)'
               PROVE  \E e \in Callers : pc'[e] = "kick" /\ victim'[e] = d
    BY DEF DisplacedIsBeingClosed
  <2>1. d # c /\ Registered(d) /\ Open(d) /\ user[d] \in Handles
    BY <1>1, <1>4 DEF Displaced, Open, IInv, UserKnown, Registered
  <2>2. Displaced(d)
    BY <1>1, <1>2, <1>5, <2>1 DEF Displaced, IInv, TypeOK
  <2>3. PICK e \in Callers : pc[e] = "kick" /\ victim[e] = d
    BY <2>1, <2>2 DEF IInv, DisplacedIsBeingClosed
  <2>4. e # c
    BY <1>1, <2>3
  <2> QED BY <1>1, <2>3, <2>4 DEF IInv, TypeOK
<1> QED BY <1>3, <1>6, <1>8, <1>9, <1>10, <1>11 DEF IInv

-----------------------------------------------------------------------------
(* The theorems *)

\* Before the first call nobody holds anything.
LEMMA Init_IInv == Init => IInv
<1> SUFFICES ASSUME Init PROVE IInv
  OBVIOUS
<1>1. TypeOK
  BY ConstantsAssumption DEF Init, TypeOK, PCs, Wires, Token, NoToken
<1>2. \A c \in Callers : pc[c] = "new" /\ presID[c] = 0 /\ node[c] = 0
  BY DEF Init
<1>3. TokensDistinct /\ NodeHeld /\ UserKnown
  BY <1>2 DEF Init, TokensDistinct, NodeHeld, UserKnown, Registered, Holding
<1>4. NodesExclusive /\ RosterExact
  BY <1>2 DEF Init, NodesExclusive, RosterExact, Holding, Listed, Nodes
<1>5. PresenceSound /\ DisplacedIsBeingClosed
  BY <1>2 DEF Init, PresenceSound, DisplacedIsBeingClosed, Displaced, Registered
<1> QED BY <1>1, <1>3, <1>4, <1>5 DEF IInv

\* Any step keeps the inductive invariant.
LEMMA Next_IInv == IInv /\ [Next]_vars => IInv'
<1> SUFFICES ASSUME IInv, [Next]_vars PROVE IInv'
  OBVIOUS
<1>1. CASE UNCHANGED vars
  <2>1. /\ TypeOK' /\ TokensDistinct' /\ NodeHeld' /\ UserKnown'
        /\ NodesExclusive' /\ RosterExact'
    BY <1>1 DEF vars, IInv, TypeOK, TokensDistinct, NodeHeld, UserKnown,
                NodesExclusive, RosterExact, Registered, Holding, Listed
  <2>2. PresenceSound' /\ DisplacedIsBeingClosed'
    BY <1>1 DEF vars, IInv, PresenceSound, DisplacedIsBeingClosed, Displaced,
                Registered, Open
  <2> QED BY <2>1, <2>2 DEF IInv
<1>2. CASE Next
  <2> PICK c \in Callers : Runs(c) \/ Writes(c) \/ Timers(c) \/ Peer(c)
    BY <1>2 DEF Next
  <2> USE DEF Goto, wire, TypeOK, PCs, Wires, SameStanding, Registered, Holding, Listed,
              Open, CloseWire, presence, pool
  <2>1. CASE \E h \in Handles : Start(c, h)
    BY <2>1, Start_IInv
  <2>2. CASE LoginOK(c)          BY <2>2, QuietStep DEF LoginOK, IInv
  <2>3. CASE LoginRejected(c)    BY <2>3, QuietStep DEF LoginRejected, IInv
  <2>4. CASE LoginEOF(c)         BY <2>4, QuietStep DEF LoginEOF, IInv
  <2>5. CASE Enter(c)            BY <2>5, Enter_IInv
  <2>6. CASE Kick(c)             BY <2>6, Kick_IInv
  <2>7. CASE Acquire(c)          BY <2>7, Acquire_IInv
  <2>8. CASE AllBusy(c)          BY <2>8, QuietStep DEF AllBusy, IInv
  <2>9. CASE Join(c)             BY <2>9, Join_IInv
  <2>10. CASE BudgetArmed(c)     BY <2>10, QuietStep DEF BudgetArmed, IInv
  <2>11. CASE BudgetSpent(c)     BY <2>11, QuietStep DEF BudgetSpent, IInv
  <2>12. CASE BudgetUnlimited(c) BY <2>12, QuietStep DEF BudgetUnlimited, IInv
  <2>13. CASE Logoff(c)          BY <2>13, QuietStep DEF Logoff, IInv
  <2>14. CASE MenuEOF(c)         BY <2>14, QuietStep DEF MenuEOF, IInv
  <2>15. CASE RosterLeave(c)     BY <2>15, RosterLeave_IInv
  <2>16. CASE Release(c)         BY <2>16, Release_IInv
  <2>17. CASE PresenceLeave(c)   BY <2>17, PresenceLeave_IInv
  <2>18. CASE Close(c)           BY <2>18, QuietStep DEF Close, IInv
  <2>19. CASE IdleFires(c)       BY <2>19, QuietStep DEF IdleFires, InService, IInv
  <2>20. CASE BudgetFires(c)     BY <2>20, QuietStep DEF BudgetFires, IInv
  <2>21. CASE HangUp(c)          BY <2>21, QuietStep DEF HangUp, Moves, InService, IInv
  <2>22. CASE Stall(c)           BY <2>22, QuietStep DEF Stall, Moves, InService, IInv
  <2>23. CASE Answer(c)          BY <2>23, QuietStep DEF Answer, Moves, InService, IInv
  <2>24. CASE Leaves(c)          BY <2>24, QuietStep DEF Leaves, Moves, InService, IInv
  <2>25. CASE AcquireNone(c)     BY <2>25, QuietStep DEF AcquireNone, IInv
  <2> QED BY <2>1, <2>2, <2>3, <2>4, <2>5, <2>6, <2>7, <2>8, <2>9, <2>10, <2>11,
             <2>12, <2>13, <2>14, <2>15, <2>16, <2>17, <2>18, <2>19, <2>20,
             <2>21, <2>22, <2>23, <2>24, <2>25 DEF Runs, Writes, Timers, Peer
<1> QED BY <1>1, <1>2

\* The inductive invariant holds of every reachable state.
THEOREM Invariant == Spec => []IInv
  BY Init_IInv, Next_IInv, PTL DEF Spec

\* Type correctness: the registries and every handler's local state keep their
\* types, so a token always names a session and a held node is one of 1..max.
THEOREM TypeCorrect == Spec => []TypeOK
  BY Invariant, PTL DEF IInv

\* The pool's book-keeping is exact and no node number is ever held twice.
THEOREM NodesExclusiveAlways == Spec => []NodesExclusive
  BY Invariant, PTL DEF IInv

\* Who's-online lists every session on its own node and nobody else.
THEOREM RosterExactAlways == Spec => []RosterExact
  BY Invariant, PTL DEF IInv

\* Presence never points at a session that has left.
THEOREM PresenceSoundAlways == Spec => []PresenceSound
  BY Invariant, PTL DEF IInv

\* Newest wins: no displaced session survives beside the login that replaced it.
THEOREM NewestWins == Spec => []DisplacedIsBeingClosed
  BY Invariant, PTL DEF IInv

-----------------------------------------------------------------------------
(* Sessions implements NodeLeases *)

\* Steps that hand no node over and leave the roster alone do not show.
LEMMA LeasesStutter ==
  ASSUME IInv, UNCHANGED roster,
         \A d \in Callers : Holding(d)' <=> Holding(d),
         \A d \in Callers : Holding(d) => node'[d] = node[d] /\ user'[d] = user[d]
  PROVE  UNCHANGED Leases!vars
  BY DEF Leases!vars, Leased, Shown

\* Acquire takes a lease.
LEMMA LeasesSeize ==
  ASSUME NEW c \in Callers, IInv, IInv', Acquire(c) PROVE Leases!Next
<1>1. PICK n \in Nodes : /\ FirstFree(n)
                         /\ used' = used \cup {n}
                         /\ node' = [node EXCEPT ![c] = n]
  BY DEF Acquire
<1>2. /\ pc[c] = "acquire" /\ pc' = [pc EXCEPT ![c] = "join"]
      /\ user' = user /\ roster' = roster
  BY DEF Acquire, Goto
<1> DEFINE h == user[c]
<1>3. h \in Handles
  BY <1>2 DEF IInv, UserKnown
<1>4. \A m \in Nodes : m \in used <=> Leases!Taken(m)
  <2> SUFFICES ASSUME NEW m \in Nodes PROVE m \in used <=> Leases!Taken(m)
    OBVIOUS
  <2>1. m \in used <=> \E d \in Callers : Holding(d) /\ node[d] = m
    BY DEF IInv, NodesExclusive
  <2>2. \A d \in Callers : Holding(d) => user[d] \in Handles
    BY DEF IInv, UserKnown, Holding
  <2> QED BY <2>1, <2>2 DEF Leases!Taken, Leased
<1>5. ~ Leases!Taken(n) /\ \A m \in 1..(n - 1) : Leases!Taken(m)
  <2>1. \A m \in 1..(n - 1) : m \in Nodes
    BY ConstantsAssumption DEF Nodes
  <2> QED BY <1>1, <1>4, <2>1 DEF FirstFree
<1>6. Leased' = Leased \cup {<<n, h>>}
  <2>1. ~ Holding(c) /\ Holding(c)' /\ node'[c] = n
    BY <1>1, <1>2 DEF IInv, TypeOK, Holding
  <2>2. \A d \in Callers \ {c} : (Holding(d)' <=> Holding(d)) /\ node'[d] = node[d]
    BY <1>1, <1>2 DEF IInv, TypeOK, Holding
  <2> QED BY <1>2, <1>3, <2>1, <2>2 DEF Leased
<1>7. Leases!Seize(n, h)
  BY <1>2, <1>5, <1>6 DEF Leases!Seize, Shown
<1> QED BY <1>3, <1>7 DEF Leases!Next, Leases!Nodes, Nodes

\* Join shows it.
LEMMA LeasesShow ==
  ASSUME NEW c \in Callers, IInv, IInv', Join(c) PROVE Leases!Next
<1> DEFINE n == node[c]  h == user[c]
<1>1. /\ pc[c] = "join" /\ pc' = [pc EXCEPT ![c] = "budget"]
      /\ roster' = [roster EXCEPT ![n] = h]
      /\ user' = user /\ node' = node
  BY DEF Join, Goto, pool
<1>2. n \in Nodes /\ h \in Handles /\ Holding(c) /\ ~ Listed(c)
  BY <1>1, ConstantsAssumption
  DEF IInv, TypeOK, NodeHeld, Holding, Listed, Nodes, UserKnown
<1>3. roster[n] = NoHandle
  <2>1. \A d \in Callers : Listed(d) => node[d] # n
    BY <1>2 DEF IInv, NodesExclusive, Holding, Listed
  <2> QED BY <1>2, <2>1 DEF IInv, RosterExact
<1>4. <<n, h>> \in Leased \ Shown
  BY <1>2, <1>3, ConstantsAssumption DEF Leased, Shown
<1>5. Shown' = Shown \cup {<<n, h>>}
  BY <1>1, <1>2, <1>3, ConstantsAssumption DEF IInv, TypeOK, Shown
<1>6. Leased' = Leased
  <2>1. \A d \in Callers : Holding(d)' <=> Holding(d)
    BY <1>1 DEF IInv, TypeOK, Holding
  <2> QED BY <1>1, <2>1 DEF Leased
<1>7. Leases!Show(n, h)
  BY <1>4, <1>5, <1>6 DEF Leases!Show
<1> QED BY <1>2, <1>7 DEF Leases!Next, Leases!Nodes, Nodes

\* RosterLeave hides it.
LEMMA LeasesHide ==
  ASSUME NEW c \in Callers, IInv, IInv', RosterLeave(c) PROVE Leases!Next
<1> DEFINE n == node[c]  h == user[c]
<1>1. /\ pc[c] = "rosterLeave" /\ pc' = [pc EXCEPT ![c] = "release"]
      /\ roster' = [roster EXCEPT ![n] = NoHandle]
      /\ user' = user /\ node' = node
  BY DEF RosterLeave, Goto, pool
<1>2. n \in Nodes /\ h \in Handles /\ Listed(c)
  BY <1>1, ConstantsAssumption
  DEF IInv, TypeOK, NodeHeld, Holding, Listed, Nodes, UserKnown
<1>3. roster[n] = h
  BY <1>2 DEF IInv, RosterExact
<1>4. <<n, h>> \in Shown /\ Shown' = Shown \ {<<n, h>>}
  BY <1>1, <1>2, <1>3, ConstantsAssumption DEF IInv, TypeOK, Shown
<1>5. Leased' = Leased
  <2>1. \A d \in Callers : Holding(d)' <=> Holding(d)
    BY <1>1 DEF IInv, TypeOK, Holding
  <2> QED BY <1>1, <2>1 DEF Leased
<1>6. Leases!Hide(n, h)
  BY <1>4, <1>5 DEF Leases!Hide
<1> QED BY <1>2, <1>6 DEF Leases!Next, Leases!Nodes, Nodes

\* Release gives it up.
LEMMA LeasesFree ==
  ASSUME NEW c \in Callers, IInv, IInv', Release(c) PROVE Leases!Next
<1> DEFINE n == node[c]  h == user[c]
<1>1. /\ pc[c] = "release" /\ pc' = [pc EXCEPT ![c] = "presenceLeave"]
      /\ node' = [node EXCEPT ![c] = 0]
      /\ user' = user /\ roster' = roster
  BY DEF Release, Goto
<1>2. n \in Nodes /\ h \in Handles /\ Holding(c) /\ ~ Listed(c)
  BY <1>1, ConstantsAssumption
  DEF IInv, TypeOK, NodeHeld, Holding, Listed, Nodes, UserKnown
<1>3. \A d \in Callers \ {c} : Holding(d) => node[d] # n
  BY <1>2 DEF IInv, NodesExclusive
<1>4. roster[n] = NoHandle
  BY <1>2, <1>3 DEF IInv, RosterExact, Holding, Listed
<1>5. <<n, h>> \in Leased \ Shown
  BY <1>2, <1>4, ConstantsAssumption DEF Leased, Shown
<1>6. Leased' = Leased \ {<<n, h>>}
  <2>1. ~ Holding(c)'
    BY <1>1 DEF IInv, TypeOK, Holding
  <2>2. \A d \in Callers \ {c} : (Holding(d)' <=> Holding(d)) /\ node'[d] = node[d]
    BY <1>1 DEF IInv, TypeOK, Holding
  <2> QED BY <1>1, <1>2, <1>3, <2>1, <2>2 DEF Leased
<1>7. Shown' = Shown
  BY <1>1 DEF Shown
<1>8. Leases!Free(n, h)
  BY <1>5, <1>6, <1>7 DEF Leases!Free
<1> QED BY <1>2, <1>8 DEF Leases!Next, Leases!Nodes, Nodes

\* Every step of the handlers is a step of NodeLeases or does not show in it.
LEMMA LeasesStep == IInv /\ IInv' /\ [Next]_vars => [Leases!Next]_(Leases!vars)
<1> SUFFICES ASSUME IInv, IInv', [Next]_vars PROVE [Leases!Next]_(Leases!vars)
  OBVIOUS
<1>1. CASE UNCHANGED vars
  BY <1>1, LeasesStutter DEF vars, Holding
<1>2. CASE Next
  <2> PICK c \in Callers : Runs(c) \/ Writes(c) \/ Timers(c) \/ Peer(c)
    BY <1>2 DEF Next
  <2>1. CASE Acquire(c)      BY <2>1, LeasesSeize
  <2>2. CASE Join(c)         BY <2>2, LeasesShow
  <2>3. CASE RosterLeave(c)  BY <2>3, LeasesHide
  <2>4. CASE Release(c)      BY <2>4, LeasesFree
  <2> USE LeasesStutter DEF IInv, TypeOK, Goto, pool, Holding
  <2>5. CASE \E h \in Handles : Start(c, h)
    BY <2>5 DEF Start
  <2>6. CASE LoginOK(c) \/ LoginRejected(c) \/ LoginEOF(c)
    BY <2>6 DEF LoginOK, LoginRejected, LoginEOF
  <2>7. CASE Enter(c)
    BY <2>7 DEF Enter
  <2>8. CASE Kick(c) \/ AcquireNone(c) \/ AllBusy(c)
    BY <2>8 DEF Kick, AcquireNone, AllBusy
  <2>9. CASE BudgetArmed(c) \/ BudgetSpent(c) \/ BudgetUnlimited(c)
    BY <2>9 DEF BudgetArmed, BudgetSpent, BudgetUnlimited
  <2>10. CASE Logoff(c) \/ MenuEOF(c)
    BY <2>10 DEF Logoff, MenuEOF
  <2>11. CASE PresenceLeave(c) \/ Close(c)
    BY <2>11 DEF PresenceLeave, Close
  <2>12. CASE \/ IdleFires(c) \/ BudgetFires(c)
              \/ Answer(c) \/ HangUp(c) \/ Leaves(c) \/ Stall(c)
    BY <2>12 DEF IdleFires, BudgetFires, Answer, HangUp, Leaves, Stall, Moves
  <2> QED BY <2>1, <2>2, <2>3, <2>4, <2>5, <2>6, <2>7, <2>8, <2>9, <2>10, <2>11,
             <2>12 DEF Runs, Writes, Timers, Peer
<1> QED BY <1>1, <1>2

\* No lease is held at the start.
LEMMA LeasesInit == Init => Leases!Init
  BY ConstantsAssumption DEF Init, Leases!Init, Leased, Shown, Holding, Nodes

\* The pool and the roster implement the lease discipline of NodeLeases.
THEOREM Refinement == Spec => ImplementsLeases
<1>1. Init /\ [][Next]_vars /\ []IInv => Leases!Init /\ [][Leases!Next]_(Leases!vars)
  BY LeasesInit, LeasesStep, PTL
<1> QED BY <1>1, Invariant, PTL DEF Spec, ImplementsLeases, Leases!Spec

=============================================================================
