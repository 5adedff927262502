--------------------------- MODULE AccountsProofs ---------------------------
(***************************************************************************)
(* Proofs about Accounts, for any number of handles, keys, connections and *)
(* sysopctl processes.                                                     *)
(***************************************************************************)
EXTENDS Accounts, TLAPS

-----------------------------------------------------------------------------
(* Types *)

\* What a session holds of a token: a number of one of the account's rows.
RedeemsARow == \A c \in Callers : caller[c].pc = "redeem" => caller[c].tok \in 1 .. MaxTokens

CallerPcs == {"new", "authed", "token", "redeem", "newpw", "password", "in",
              "queue", "review", "issue", "deny", "manage", "out"}
CtlPcs == {"new", "approve", "issue", "create", "setpw", "grant", "keys", "out"}

\* A record keeps its type when one field is overwritten.
LEMMA UserFields ==
  \A u \in User :
    /\ u.status \in Statuses /\ u.sysop \in BOOLEAN /\ u.pw \in BOOLEAN
    /\ \A s \in Statuses : [u EXCEPT !.status = s] \in User
    /\ \A b \in BOOLEAN : [u EXCEPT !.sysop = b] \in User /\ [u EXCEPT !.pw = b] \in User
BY DEF User

\* A session's record: its fields, and overwriting one of them
LEMMA CallerFields ==
  \A r \in Caller :
    /\ r.pc \in CallerPcs /\ r.acct \in Handles /\ r.tgt \in Handles
    /\ r.sysop \in BOOLEAN /\ r.tok \in 0 .. MaxTokens /\ r.snap \in User
    /\ \A p \in CallerPcs : [r EXCEPT !.pc = p] \in Caller
    /\ \A h \in Handles : [r EXCEPT !.acct = h] \in Caller /\ [r EXCEPT !.tgt = h] \in Caller
    /\ \A b \in BOOLEAN : [r EXCEPT !.sysop = b] \in Caller
    /\ \A t \in 0 .. MaxTokens : [r EXCEPT !.tok = t] \in Caller
    /\ \A u \in User : [r EXCEPT !.snap = u] \in Caller
BY DEF Caller, CallerPcs

\* The same for a sysopctl run
LEMMA CtlFields ==
  \A r \in Ctl :
    /\ r.pc \in CtlPcs /\ r.acct \in Handles /\ r.issue \in BOOLEAN /\ r.todo \in SUBSET Keys
    /\ \A p \in CtlPcs : [r EXCEPT !.pc = p] \in Ctl
    /\ \A h \in Handles : [r EXCEPT !.acct = h] \in Ctl
    /\ \A b \in BOOLEAN : [r EXCEPT !.issue = b] \in Ctl
    /\ \A ks \in SUBSET Keys : [r EXCEPT !.todo = ks] \in Ctl
BY DEF Ctl, CtlPcs

\* The same for an applicant
LEMMA ApplicantFields ==
  \A r \in Applicant :
    /\ r.acct \in Handles /\ r.todo \in SUBSET Keys
    /\ \A p \in {"new", "typing", "keys", "out"} : [r EXCEPT !.pc = p] \in Applicant
    /\ \A ks \in SUBSET Keys : [r EXCEPT !.todo = ks] \in Applicant
BY DEF Applicant

\* The records that steps build afresh have their types.
LEMMA Constructed ==
  /\ NoUser \in User /\ [NoUser EXCEPT !.status = "pending"] \in User
  /\ \A s \in Statuses, a, b \in BOOLEAN : [status |-> s, sysop |-> a, pw |-> b] \in User
  /\ Idle \in Caller
  /\ [Idle EXCEPT !.pc = "in", !.sysop = TRUE] \in Caller
  /\ \A h \in Handles, t \in 0 .. MaxTokens :
       [Idle EXCEPT !.pc = "out", !.acct = h, !.tok = t] \in Caller
  /\ [Idle EXCEPT !.pc = "out"] \in Caller
  /\ \A p \in CtlPcs :
       [pc |-> p, acct |-> Operator, issue |-> FALSE, todo |-> {}] \in Ctl
  /\ \A p \in {"new", "typing", "out"}, h \in Handles, ks \in SUBSET Keys :
       [pc |-> p, acct |-> h, todo |-> ks] \in Applicant
<1> USE AccountsConstants
<1>1. NoUser \in User /\ [NoUser EXCEPT !.status = "pending"] \in User
  BY DEF NoUser, User, Statuses
<1>2. \A s \in Statuses, a, b \in BOOLEAN : [status |-> s, sysop |-> a, pw |-> b] \in User
  BY DEF User
<1>3. Idle \in Caller
  BY <1>1 DEF Idle, Caller
<1>4. /\ [Idle EXCEPT !.pc = "in", !.sysop = TRUE] \in Caller
      /\ [Idle EXCEPT !.pc = "out"] \in Caller
  BY <1>3, CallerFields DEF CallerPcs
<1>5. \A h \in Handles, t \in 0 .. MaxTokens :
        [Idle EXCEPT !.pc = "out", !.acct = h, !.tok = t] \in Caller
  BY <1>3, CallerFields DEF CallerPcs
<1>6. \A p \in CtlPcs : [pc |-> p, acct |-> Operator, issue |-> FALSE, todo |-> {}] \in Ctl
  BY DEF Ctl, CtlPcs
<1>7. \A p \in {"new", "typing", "out"}, h \in Handles, ks \in SUBSET Keys :
        [pc |-> p, acct |-> h, todo |-> ks] \in Applicant
  BY DEF Applicant
<1> QED  BY <1>1, <1>2, <1>3, <1>4, <1>5, <1>6, <1>7

\* What the helpers that write one record leave.
LEMMA UserWrites ==
  ASSUME TypeOK, NEW h \in Handles
  PROVE  /\ Create(h) => user' \in [Handles -> User]
         /\ \A b \in BOOLEAN : SetPassword(h, b) => user' \in [Handles -> User]
         /\ \A s \in Statuses, b \in BOOLEAN :
              SetStatus(h, s, b) => user' \in [Handles -> User] /\ moved' \in SUBSET Handles
<1>0. user \in [Handles -> User] /\ moved \in SUBSET Handles
  BY DEF TypeOK
<1>1. Create(h) => user' \in [Handles -> User]
  BY <1>0, Constructed DEF Create
<1>2. ASSUME NEW b \in BOOLEAN, SetPassword(h, b) PROVE user' \in [Handles -> User]
  <2>1. [user[h] EXCEPT !.pw = b] \in User
    BY <1>0, UserFields
  <2> QED  BY <1>0, <1>2, <2>1 DEF SetPassword
<1>3. ASSUME NEW s \in Statuses, NEW b \in BOOLEAN, SetStatus(h, s, b)
      PROVE  user' \in [Handles -> User] /\ moved' \in SUBSET Handles
  <2>1. [[user[h] EXCEPT !.status = s] EXCEPT !.sysop = b] \in User
    BY <1>0, UserFields
  <2>2. user' \in [Handles -> User]
    BY <1>0, <1>3, <2>1 DEF SetStatus
  <2> QED  BY <1>0, <1>3, <2>2 DEF SetStatus
<1> QED  BY <1>1, <1>2, <1>3

\* Moving a session on, out or back to its menu keeps the type of the sessions.
LEMMA CallerWrites ==
  ASSUME TypeOK, NEW c \in Callers
  PROVE  /\ \A p \in CallerPcs : CallerTo(c, p) => caller' \in [Callers -> Caller]
         /\ CallerOut(c) => caller' \in [Callers -> Caller]
         /\ CallerBack(c) => caller' \in [Callers -> Caller]
<1>0. caller \in [Callers -> Caller]
  BY DEF TypeOK
<1>1. \A p \in CallerPcs : CallerTo(c, p) => caller' \in [Callers -> Caller]
  BY <1>0, CallerFields DEF CallerTo
<1>2. CallerOut(c) => caller' \in [Callers -> Caller]
  <2> DEFINE h == IF caller[c].tok = 0 THEN Operator ELSE caller[c].acct
             r == [Idle EXCEPT !.pc = "out", !.acct = h, !.tok = caller[c].tok]
  <2>1. h \in Handles /\ caller[c].tok \in 0 .. MaxTokens
    BY <1>0, CallerFields, AccountsConstants
  <2>2. r \in Caller
    <3> HIDE DEF h
    <3> QED  BY <2>1, Constructed
  <2>3. CallerOut(c) => caller' = [caller EXCEPT ![c] = r]
    BY DEF CallerOut
  <2> HIDE DEF r
  <2> QED  BY <1>0, <2>2, <2>3
<1>3. CallerBack(c) => caller' \in [Callers -> Caller]
  <2>1. NoUser \in User /\ Operator \in Handles
    BY Constructed, AccountsConstants
  <2>2. [[[caller[c] EXCEPT !.pc = "in"] EXCEPT !.tgt = Operator] EXCEPT !.snap = NoUser]
          \in Caller
    BY <1>0, <2>1, CallerFields DEF CallerPcs
  <2> QED  BY <1>0, <2>2 DEF CallerBack
<1> QED  BY <1>1, <1>2, <1>3

\* Moving a sysopctl run on or out keeps the type of the runs.
LEMMA CtlWrites ==
  ASSUME TypeOK, NEW x \in Ctls
  PROVE  /\ \A p \in CtlPcs : CtlTo(x, p) => ctl' \in [Ctls -> Ctl]
         /\ CtlOut(x) => ctl' \in [Ctls -> Ctl]
<1>1. \A p \in CtlPcs : CtlTo(x, p) => ctl' \in [Ctls -> Ctl]
  BY CtlFields DEF TypeOK, CtlTo
<1>2. CtlOut(x) => ctl' \in [Ctls -> Ctl]
  BY Constructed DEF TypeOK, CtlOut, CtlPcs
<1> QED  BY <1>1, <1>2

\* Tokens.Issue stays within the rows the model allows.
LEMMA IssueWrites ==
  ASSUME TypeOK, NEW h \in Handles, Issue(h)
  PROVE  issued' \in [Handles -> 0 .. MaxTokens] /\ excused' \in SUBSET Handles
BY AccountsConstants DEF TypeOK, Issue

\* A key addition that begins is one of an actor, for the account's tier.
LEMMA AddStartWrites ==
  ASSUME TypeOK, NEW a \in Actors, NEW h \in Handles, NEW k \in Keys, AddStart(a, h, k)
  PROVE  adding' \in SUBSET Addition
<1>1. user[h].sysop \in BOOLEAN /\ adding \in SUBSET Addition
  BY UserFields DEF TypeOK
<1>2. [by |-> a, acct |-> h, key |-> k, sysop |-> user[h].sysop, checked |-> FALSE] \in Addition
  BY <1>1 DEF Addition, Actors, Daemon
<1> QED  BY <1>1, <1>2 DEF AddStart

-----------------------------------------------------------------------------

\* The tables start with their types, on a new board and on one with its SysOp online.
LEMMA InitTypes == Init => TypeOK /\ RedeemsARow
<1> SUFFICES ASSUME Init PROVE TypeOK /\ RedeemsARow
  OBVIOUS
<1> USE AccountsConstants DEF Init
<1>1. user \in [Handles -> User]
  BY Constructed DEF Statuses
<1>2. caller \in [Callers -> Caller]
  BY Constructed
<1>3. activeKeys \in [Handles -> [Keys -> 0 .. MaxRows]]
  OBVIOUS
<1>4. applicant \in [Applicants -> Applicant] /\ ctl \in [Ctls -> Ctl]
  BY Constructed DEF CtlPcs
<1>5. RedeemsARow
  <2>0. Idle.pc = "new" /\ [Idle EXCEPT !.pc = "in", !.sysop = TRUE].pc = "in"
    BY DEF Idle
  <2>1. \A c \in Callers : caller[c].pc \in {"new", "in"}
    BY <2>0
  <2> QED  BY <2>1 DEF RedeemsARow
<1>6. /\ decision \in [Handles -> Decisions] /\ issued \in [Handles -> 0 .. MaxTokens]
      /\ used \in [Handles -> SUBSET (1 .. MaxTokens)] /\ commands \in 0 .. MaxCommands
      /\ expired \in [Handles -> SUBSET (1 .. MaxTokens)]
      /\ adding = {} /\ moved = {} /\ raced = {} /\ excused = {}
  BY DEF Decisions
<1> QED  BY <1>1, <1>2, <1>3, <1>4, <1>5, <1>6 DEF TypeOK

\* Types, steps of RunApply
LEMMA ApplicantTypes ==
  ASSUME TypeOK, RedeemsARow, NEW p \in Applicants, ApplicantStep(p)
  PROVE  TypeOK' /\ RedeemsARow'
<1> USE AccountsConstants DEF tables, tokens, history
<1>0. p \in Actors /\ applicant[p] \in Applicant /\ applicant[p].acct \in Handles
  BY ApplicantFields DEF TypeOK, Actors, Daemon
<1>1. CASE ApplyHandle(p)
  <2>1. applicant' \in [Applicants -> Applicant]
    <3>1. PICK h \in Handles, ks \in SUBSET Keys :
            applicant' = [applicant EXCEPT ![p] = [pc |-> "typing", acct |-> h, todo |-> ks]]
      BY <1>1 DEF ApplyHandle
    <3>2. [pc |-> "typing", acct |-> h, todo |-> ks] \in Applicant
      BY Constructed
    <3> QED  BY <3>1, <3>2 DEF TypeOK
  <2> QED  BY <1>1, <2>1 DEF ApplyHandle, TypeOK, RedeemsARow
<1>2. CASE ApplyCreate(p)
  <2>1. user' \in [Handles -> User]
    BY <1>0, <1>2, UserWrites DEF ApplyCreate, TypeOK
  <2>2. applicant' \in [Applicants -> Applicant]
    <3>1. [applicant[p] EXCEPT !.pc = "keys"] \in Applicant
      BY <1>0, ApplicantFields
    <3>2. [pc |-> "out", acct |-> Operator, todo |-> {}] \in Applicant
      BY Constructed
    <3> QED  BY <1>2, <3>1, <3>2 DEF ApplyCreate, ApplicantOut, ApplicantTo, TypeOK
  <2> QED  BY <1>2, <2>1, <2>2 DEF ApplyCreate, TypeOK, RedeemsARow
<1>3. CASE ApplyKey(p)
  <2>1. adding' \in SUBSET Addition
    BY <1>0, <1>3, AddStartWrites, ApplicantFields DEF ApplyKey, TypeOK
  <2>2. applicant' \in [Applicants -> Applicant]
    <3>1. PICK k : applicant' = [applicant EXCEPT ![p].todo = @ \ {k}]
      BY <1>3 DEF ApplyKey
    <3>2. applicant[p].todo \ {k} \in SUBSET Keys
      BY <1>0, ApplicantFields
    <3> QED  BY <1>0, <3>1, <3>2, ApplicantFields DEF TypeOK
  <2> QED  BY <1>3, <2>1, <2>2 DEF ApplyKey, TypeOK, RedeemsARow
<1>4. CASE ApplyRecord(p)
  <2>1. decision' \in [Handles -> Decisions]
    BY <1>0, <1>4 DEF ApplyRecord, TypeOK, Decisions
  <2> QED  BY <1>0, <1>4, <2>1, Constructed DEF ApplyRecord, ApplicantOut, TypeOK, RedeemsARow
<1>5. CASE ApplyEnds(p)
  BY <1>0, <1>5, Constructed DEF ApplyEnds, ApplicantOut, TypeOK, RedeemsARow
<1> QED  BY <1>1, <1>2, <1>3, <1>4, <1>5 DEF ApplicantStep

\* Types, steps of sysopctl
LEMMA CtlTypes ==
  ASSUME TypeOK, RedeemsARow, NEW x \in Ctls, CtlStep(x)
  PROVE  TypeOK' /\ RedeemsARow'
<1> USE AccountsConstants DEF tables, tokens, history
<1>0. /\ x \in Actors /\ ctl[x] \in Ctl /\ ctl[x].acct \in Handles
      /\ ctl[x].todo \in SUBSET Keys
  BY CtlFields DEF TypeOK, Actors
<1>1. CASE CtlApprove(x) \/ CtlBootstrap(x) \/ CtlAddKey(x)
  <2>1. ctl' \in [Ctls -> Ctl]
    <3>1. PICK pc \in CtlPcs, h \in Handles, b \in BOOLEAN, ks \in SUBSET Keys :
            \/ ctl' = [ctl EXCEPT ![x].pc = pc, ![x].acct = h, ![x].issue = b]
            \/ ctl' = [ctl EXCEPT ![x].pc = pc, ![x].acct = h, ![x].todo = ks]
      <4>1. CASE CtlApprove(x)
        <5>1. PICK h \in Handles, approve \in BOOLEAN :
                ctl' = [ctl EXCEPT ![x].pc = "approve", ![x].acct = h,
                                   ![x].issue = approve \/ ~ user[h].pw]
          BY <4>1 DEF CtlApprove
        <5>2. (approve \/ ~ user[h].pw) \in BOOLEAN
          OBVIOUS
        <5> QED  BY <5>1, <5>2 DEF CtlPcs
      <4>2. CASE CtlBootstrap(x)
        <5>1. PICK h \in Handles, k \in Keys, pc \in {"setpw", "create"} :
                ctl' = [ctl EXCEPT ![x].pc = pc, ![x].acct = h, ![x].todo = {k}]
          BY <4>2 DEF CtlBootstrap
        <5>2. {k} \in SUBSET Keys
          OBVIOUS
        <5> QED  BY <5>1, <5>2 DEF CtlPcs
      <4>3. CASE CtlAddKey(x)
        <5>1. PICK h \in Handles, k \in Keys :
                ctl' = [ctl EXCEPT ![x].pc = "keys", ![x].acct = h, ![x].todo = {k}]
          BY <4>3 DEF CtlAddKey
        <5>2. {k} \in SUBSET Keys
          OBVIOUS
        <5> QED  BY <5>1, <5>2 DEF CtlPcs
      <4> QED  BY <1>1, <4>1, <4>2, <4>3
    <3>2. /\ [[[ctl[x] EXCEPT !.pc = pc] EXCEPT !.acct = h] EXCEPT !.issue = b] \in Ctl
          /\ [[[ctl[x] EXCEPT !.pc = pc] EXCEPT !.acct = h] EXCEPT !.todo = ks] \in Ctl
      BY <1>0, CtlFields
    <3>3. ctl \in [Ctls -> Ctl]
      BY DEF TypeOK
    <3> QED  BY <3>1, <3>2, <3>3
  <2> QED  BY <1>1, <2>1 DEF CtlApprove, CtlBootstrap, CtlAddKey, TypeOK, RedeemsARow
<1>2. CASE CtlCreate(x)
  <2>1. user' \in [Handles -> User]
    BY <1>0, <1>2, UserWrites DEF CtlCreate, TypeOK
  <2>2. ctl' \in [Ctls -> Ctl]
    BY <1>2, CtlWrites DEF CtlCreate, CtlPcs
  <2> QED  BY <1>2, <2>1, <2>2 DEF CtlCreate, TypeOK, RedeemsARow
<1>3. CASE CtlSetPassword(x)
  <2>1. user' \in [Handles -> User]
    BY <1>0, <1>3, UserWrites DEF CtlSetPassword
  <2>2. ctl' \in [Ctls -> Ctl]
    BY <1>3, CtlWrites DEF CtlSetPassword, CtlPcs
  <2> QED  BY <1>3, <2>1, <2>2 DEF CtlSetPassword, TypeOK, RedeemsARow
<1>4. CASE CtlGrant(x)
  <2>1. user' \in [Handles -> User] /\ moved' \in SUBSET Handles
    BY <1>0, <1>4, UserWrites DEF CtlGrant, Statuses
  <2>2. ctl' \in [Ctls -> Ctl]
    BY <1>4, CtlWrites DEF CtlGrant, CtlPcs
  <2> QED  BY <1>4, <2>1, <2>2 DEF CtlGrant, TypeOK, RedeemsARow
<1>5. CASE CtlIssue(x)
  <2>1. ctl' \in [Ctls -> Ctl]
    BY <1>5, CtlWrites DEF CtlIssue
  <2>2. issued' \in [Handles -> 0 .. MaxTokens] /\ excused' \in SUBSET Handles
    BY <1>0, <1>5, IssueWrites DEF CtlIssue
  <2> QED  BY <1>5, <2>1, <2>2 DEF CtlIssue, TypeOK, RedeemsARow
<1>6. CASE CtlKey(x)
  <2>1. PICK k \in ctl[x].todo : /\ AddStart(x, ctl[x].acct, k)
                                 /\ ctl' = [ctl EXCEPT ![x].todo = @ \ {k}]
    BY <1>6 DEF CtlKey
  <2>2. adding' \in SUBSET Addition
    BY <1>0, <2>1, AddStartWrites
  <2>3. ctl[x].todo \ {k} \in SUBSET Keys
    BY <1>0
  <2>4. ctl' \in [Ctls -> Ctl]
    BY <1>0, <2>1, <2>3, CtlFields DEF TypeOK
  <2> QED  BY <1>6, <2>2, <2>4 DEF CtlKey, TypeOK, RedeemsARow
<1>7. CASE CtlEnds(x)
  <2>1. ctl' \in [Ctls -> Ctl]
    BY <1>7, CtlWrites DEF CtlEnds
  <2> QED  BY <1>0, <1>7, <2>1 DEF CtlEnds, TypeOK, RedeemsARow
<1> QED  BY <1>1, <1>2, <1>3, <1>4, <1>5, <1>6, <1>7 DEF CtlStep

\* A token that can be redeemed is one of the account's rows.
LEMMA UsableTyped ==
  ASSUME TypeOK, NEW h \in Handles
  PROVE  \A t \in Usable(h) : t \in 1 .. MaxTokens /\ t \in 0 .. MaxTokens
<1>1. issued[h] \in 0 .. MaxTokens
  BY DEF TypeOK
<1> QED  BY <1>1, AccountsConstants DEF Usable

\* What the helpers that move a caller leave in its record.
LEMMA CallerEffects ==
  ASSUME TypeOK, NEW c \in Callers
  PROVE  /\ \A p \in CallerPcs : CallerTo(c, p) =>
              /\ caller'[c].pc = p /\ caller'[c].acct = caller[c].acct
              /\ caller'[c].tok = caller[c].tok /\ caller'[c].tgt = caller[c].tgt
              /\ caller'[c].snap = caller[c].snap
         /\ CallerOut(c) =>
              /\ caller'[c].pc = "out" /\ caller'[c].tok = caller[c].tok
              /\ caller[c].tok # 0 => caller'[c].acct = caller[c].acct
         /\ CallerBack(c) =>
              /\ caller'[c].pc = "in" /\ caller'[c].acct = caller[c].acct
              /\ caller'[c].tok = caller[c].tok
<1>0. caller \in [Callers -> Caller] /\ caller[c] \in Caller
  BY DEF TypeOK
<1>1. ASSUME NEW p \in CallerPcs, CallerTo(c, p)
      PROVE  /\ caller'[c].pc = p /\ caller'[c].acct = caller[c].acct
             /\ caller'[c].tok = caller[c].tok /\ caller'[c].tgt = caller[c].tgt
             /\ caller'[c].snap = caller[c].snap
  <2>1. caller'[c] = [caller[c] EXCEPT !.pc = p]
    BY <1>0, <1>1 DEF CallerTo
  <2> QED  BY <1>0, <2>1 DEF Caller
<1>2. ASSUME CallerOut(c)
      PROVE  /\ caller'[c].pc = "out" /\ caller'[c].tok = caller[c].tok
             /\ caller[c].tok # 0 => caller'[c].acct = caller[c].acct
  BY <1>0, <1>2 DEF CallerOut, Idle
<1>3. ASSUME CallerBack(c)
      PROVE  /\ caller'[c].pc = "in" /\ caller'[c].acct = caller[c].acct
             /\ caller'[c].tok = caller[c].tok
  <2>1. caller'[c] = [caller[c] EXCEPT !.pc = "in", !.tgt = Operator, !.snap = NoUser]
    BY <1>0, <1>3 DEF CallerBack
  <2> QED  BY <1>0, <2>1 DEF Caller
<1> QED  BY <1>1, <1>2, <1>3

\* A session's step leaves the other sessions' records alone.
LEMMA CallerFrame ==
  ASSUME TypeOK, NEW c \in Callers, CallerStep(c)
  PROVE  \A d \in Callers : d # c => caller'[d] = caller[d]
<1> DEFINE Frame == \A d \in Callers : d # c => caller'[d] = caller[d]
<1>0. caller \in [Callers -> Caller]
  BY DEF TypeOK
<1>1. \A p : CallerTo(c, p) => Frame
  BY <1>0 DEF CallerTo
<1>2. CallerOut(c) \/ CallerBack(c) \/ UNCHANGED caller => Frame
  BY <1>0 DEF CallerOut, CallerBack
<1>3. Authenticate(c) => Frame
  BY <1>0 DEF Authenticate
<1>4. RunLogin(c) => Frame
  BY <1>0, <1>2 DEF RunLogin
<1>5. RedeemSelect(c) => Frame
  BY <1>0 DEF RedeemSelect
<1>6. RedeemUpdate(c) => Frame
  BY <1>0, <1>1 DEF RedeemUpdate
<1>7. QueueChoose(c) => Frame
  BY <1>0 DEF QueueChoose
<1>8. ManageChoose(c) => Frame
  BY <1>0 DEF ManageChoose
<1> HIDE DEF Frame
<1>9. Frame
  BY <1>1, <1>2, <1>3, <1>4, <1>5, <1>6, <1>7, <1>8
     DEF CallerStep, Onboarded, Verify, SessionEnds, ProfileAddKey, ProfileRevoke,
         ChangePassword, QueueApprove, QueueReview, QueueIssue, QueueDeny, QueueDenied,
         ManageStatus, ManageClear, PanelBack
<1> QED  BY <1>9 DEF Frame

\* Only Redeem's SELECT leads to its UPDATE.
LEMMA CallerPcNext ==
  ASSUME TypeOK, NEW c \in Callers, CallerStep(c), ~ RedeemSelect(c)
  PROVE  caller'[c].pc # "redeem" \/ UNCHANGED caller
<1> DEFINE Elsewhere == caller'[c].pc # "redeem"
<1>0. caller \in [Callers -> Caller] /\ caller[c] \in Caller
  BY DEF TypeOK
<1>1. \A p \in CallerPcs \ {"redeem"} : CallerTo(c, p) => Elsewhere
  BY CallerEffects
<1>2. CallerOut(c) \/ CallerBack(c) => Elsewhere
  BY CallerEffects
<1>3. Authenticate(c) => Elsewhere
  <2>1. ASSUME NEW h, caller' = [caller EXCEPT ![c].pc = "authed", ![c].acct = h]
        PROVE  Elsewhere
    BY <1>0, <2>1 DEF Caller
  <2> QED  BY <2>1 DEF Authenticate
<1>4. RunLogin(c) => Elsewhere
  <2>1. ASSUME NEW b, NEW p \in {"password", "token"},
               caller' = [caller EXCEPT ![c].sysop = b, ![c].pc = p]
        PROVE  Elsewhere
    BY <1>0, <2>1 DEF Caller
  <2> QED  BY <1>2, <2>1 DEF RunLogin
<1>6. RedeemUpdate(c) => Elsewhere
  BY <1>0, <1>1 DEF RedeemUpdate, Idle, CallerPcs
<1>7. QueueChoose(c) => Elsewhere
  <2>1. ASSUME NEW h, caller' = [caller EXCEPT ![c].pc = "queue", ![c].tgt = h]
        PROVE  Elsewhere
    BY <1>0, <2>1 DEF Caller
  <2> QED  BY <2>1 DEF QueueChoose
<1>8. ManageChoose(c) => Elsewhere
  <2>1. ASSUME NEW h, NEW u,
               caller' = [caller EXCEPT ![c].pc = "manage", ![c].tgt = h, ![c].snap = u]
        PROVE  Elsewhere
    BY <1>0, <2>1 DEF Caller
  <2> QED  BY <2>1 DEF ManageChoose
<1> HIDE DEF Elsewhere
<1>9. Elsewhere \/ UNCHANGED caller
  BY <1>1, <1>2, <1>3, <1>4, <1>6, <1>7, <1>8
     DEF CallerStep, Onboarded, Verify, SessionEnds, ProfileAddKey, ProfileRevoke,
         ChangePassword, QueueApprove, QueueReview, QueueIssue, QueueDeny, QueueDenied,
         ManageStatus, ManageClear, PanelBack, CallerPcs
<1> QED  BY <1>9 DEF Elsewhere

\* Types, steps of an SSH session
LEMMA CallerTypes ==
  ASSUME TypeOK, RedeemsARow, NEW c \in Callers, CallerStep(c)
  PROVE  TypeOK' /\ RedeemsARow'
<1> USE AccountsConstants DEF tables, tokens, history, Command, PanelCommand
<1>0. /\ c \in Actors /\ caller \in [Callers -> Caller] /\ caller[c] \in Caller
      /\ caller[c].acct \in Handles /\ caller[c].tgt \in Handles /\ caller[c].snap \in User
  BY CallerFields DEF TypeOK, Actors, Daemon
\* The caller's own record
<1>1. caller' \in [Callers -> Caller]
  <2>1. CASE \E p \in CallerPcs : CallerTo(c, p)
    BY <2>1, CallerWrites
  <2>2. CASE CallerOut(c) \/ CallerBack(c) \/ UNCHANGED caller
    BY <1>0, <2>2, CallerWrites
  <2>3. CASE Authenticate(c) \/ QueueChoose(c)
    <3>1. PICK p \in CallerPcs, h \in Handles :
            \/ caller' = [caller EXCEPT ![c].pc = p, ![c].acct = h]
            \/ caller' = [caller EXCEPT ![c].pc = p, ![c].tgt = h]
      BY <2>3 DEF Authenticate, QueueChoose, CallerPcs
    <3>2. /\ [[caller[c] EXCEPT !.pc = p] EXCEPT !.acct = h] \in Caller
          /\ [[caller[c] EXCEPT !.pc = p] EXCEPT !.tgt = h] \in Caller
      BY <1>0, CallerFields
    <3> QED  BY <1>0, <3>1, <3>2
  <2>4. CASE RunLogin(c) /\ ~ CallerOut(c)
    <3> DEFINE b == user[caller[c].acct].sysop
               p == IF user[caller[c].acct].pw THEN "password" ELSE "token"
    <3>1. caller' = [caller EXCEPT ![c].sysop = b, ![c].pc = p]
      BY <2>4 DEF RunLogin
    <3>2. b \in BOOLEAN /\ p \in CallerPcs
      BY <1>0, UserFields DEF TypeOK, CallerPcs
    <3> HIDE DEF b, p
    <3>3. [[caller[c] EXCEPT !.sysop = b] EXCEPT !.pc = p] \in Caller
      BY <1>0, <3>2, CallerFields
    <3> QED  BY <1>0, <3>1, <3>3
  <2>5. CASE RedeemSelect(c)
    <3>1. PICK t \in 0 .. MaxTokens : caller' = [caller EXCEPT ![c].pc = "redeem", ![c].tok = t]
      BY <1>0, <2>5, UsableTyped DEF RedeemSelect
    <3>2. [[caller[c] EXCEPT !.pc = "redeem"] EXCEPT !.tok = t] \in Caller
      BY <1>0, CallerFields DEF CallerPcs
    <3> QED  BY <1>0, <3>1, <3>2
  <2>6. CASE RedeemUpdate(c)
    <3>1. \/ CallerTo(c, "newpw")
          \/ caller' = [caller EXCEPT ![c] = [Idle EXCEPT !.pc = "out"]]
      BY <2>6 DEF RedeemUpdate
    <3>2. [Idle EXCEPT !.pc = "out"] \in Caller
      BY Constructed
    <3> QED  BY <1>0, <3>1, <3>2, CallerWrites DEF CallerPcs
  <2>7. CASE ManageChoose(c)
    <3>1. PICK h \in Handles :
            caller' = [caller EXCEPT ![c].pc = "manage", ![c].tgt = h, ![c].snap = user[h]]
      BY <2>7 DEF ManageChoose
    <3>2. user[h] \in User
      BY DEF TypeOK
    <3>3. [[[caller[c] EXCEPT !.pc = "manage"] EXCEPT !.tgt = h] EXCEPT !.snap = user[h]]
            \in Caller
      BY <1>0, <3>2, CallerFields DEF CallerPcs
    <3> QED  BY <1>0, <3>1, <3>3
  <2> QED
    BY <2>1, <2>2, <2>3, <2>4, <2>5, <2>6, <2>7
       DEF CallerStep, RunLogin, Onboarded, Verify, SessionEnds, ProfileAddKey, ProfileRevoke,
           ChangePassword, QueueApprove, QueueReview, QueueIssue, QueueDeny, QueueDenied,
           ManageStatus, ManageClear, PanelBack, CallerPcs
\* A session comes to Redeem's UPDATE with the number of a row.
<1>2. RedeemsARow'
  <2>1. CASE RedeemSelect(c)
    <3>1. PICK t \in 1 .. MaxTokens : caller' = [caller EXCEPT ![c].pc = "redeem", ![c].tok = t]
      BY <1>0, <2>1, UsableTyped DEF RedeemSelect
    <3>2. caller'[c].tok = t
      BY <1>0, <3>1 DEF Caller
    <3> QED  BY <1>0, <3>1, <3>2 DEF RedeemsARow
  <2>2. CASE ~ RedeemSelect(c)
    <3>1. caller'[c].pc # "redeem" \/ UNCHANGED caller
      BY <2>2, CallerPcNext
    <3> QED  BY <3>1, CallerFrame DEF RedeemsARow
  <2> QED  BY <2>1, <2>2
\* The tables
<1>c. (UNCHANGED commands \/ Command(c)) => commands' \in 0 .. MaxCommands
  BY DEF TypeOK
<1>3. CASE Authenticate(c) \/ RunLogin(c) \/ Verify(c) \/ RedeemSelect(c) \/ PanelBack(c)
  BY <1>1, <1>2, <1>3 DEF Authenticate, RunLogin, Verify, RedeemSelect, PanelBack, TypeOK
<1>4. CASE RedeemUpdate(c)
  <2>1. used' \in [Handles -> SUBSET (1 .. MaxTokens)]
    <3>1. /\ caller[c].tok \in 1 .. MaxTokens
          /\ \/ used' = [used EXCEPT ![caller[c].acct] = @ \cup {caller[c].tok}]
             \/ UNCHANGED used
      BY <1>4 DEF RedeemUpdate, RedeemsARow
    <3>2. used \in [Handles -> SUBSET (1 .. MaxTokens)]
      BY DEF TypeOK
    <3> QED  BY <1>0, <3>1, <3>2
  <2> QED  BY <1>1, <1>2, <1>4, <2>1 DEF RedeemUpdate, TypeOK
<1>5. CASE Onboarded(c) \/ ChangePassword(c)
  <2>1. user' \in [Handles -> User]
    BY <1>0, <1>5, UserWrites DEF Onboarded, ChangePassword
  <2> QED  BY <1>1, <1>2, <1>c, <1>5, <2>1 DEF Onboarded, ChangePassword, TypeOK
<1>6. CASE SessionEnds(c)
  BY <1>0, <1>1, <1>2, <1>6 DEF SessionEnds, TypeOK
<1>7. CASE ProfileAddKey(c)
  <2>1. adding' \in SUBSET Addition
    BY <1>0, <1>7, AddStartWrites DEF ProfileAddKey
  <2> QED  BY <1>1, <1>2, <1>7, <2>1 DEF ProfileAddKey, TypeOK
<1>8. CASE ProfileRevoke(c)
  <2>1. activeKeys' \in [Handles -> [Keys -> 0 .. MaxRows]]
    BY <1>0, <1>8 DEF ProfileRevoke, TypeOK
  <2> QED  BY <1>1, <1>2, <1>8, <2>1 DEF ProfileRevoke, TypeOK
<1>9. CASE QueueChoose(c) \/ ManageChoose(c)
  BY <1>1, <1>2, <1>c, <1>9 DEF QueueChoose, ManageChoose, TypeOK
<1>10. CASE QueueApprove(c) \/ QueueDeny(c)
  <2>1. user' \in [Handles -> User] /\ moved' \in SUBSET Handles
    BY <1>0, <1>10, UserWrites DEF QueueApprove, QueueDeny, Statuses
  <2> QED  BY <1>1, <1>2, <1>10, <2>1 DEF QueueApprove, QueueDeny, TypeOK
<1>11. CASE QueueReview(c) \/ QueueDenied(c)
  <2>1. decision' \in [Handles -> Decisions]
    BY <1>0, <1>11 DEF QueueReview, QueueDenied, TypeOK, Decisions
  <2> QED  BY <1>1, <1>2, <1>11, <2>1 DEF QueueReview, QueueDenied, TypeOK
<1>12. CASE QueueIssue(c)
  <2>1. issued' \in [Handles -> 0 .. MaxTokens] /\ excused' \in SUBSET Handles
    BY <1>0, <1>12, IssueWrites DEF QueueIssue
  <2> QED  BY <1>1, <1>2, <1>12, <2>1 DEF QueueIssue, TypeOK
<1>13. CASE ManageStatus(c)
  <2>1. PICK s \in Statuses, b \in BOOLEAN : SetStatus(caller[c].tgt, s, b)
    <3>1. PICK u \in
              {[status |-> caller[c].snap.status, sysop |-> s] : s \in BOOLEAN} \cup
              {[status |-> s, sysop |-> caller[c].snap.sysop] : s \in {"suspended", "approved"}} :
            SetStatus(caller[c].tgt, u.status, u.sysop)
      BY <1>13 DEF ManageStatus
    <3>2. /\ caller[c].snap.status \in Statuses /\ caller[c].snap.sysop \in BOOLEAN
          /\ {"suspended", "approved"} \subseteq Statuses
      BY <1>0, UserFields DEF Statuses
    <3>3. u.status \in Statuses /\ u.sysop \in BOOLEAN
      <4>1. CASE u \in {[status |-> caller[c].snap.status, sysop |-> s] : s \in BOOLEAN}
        BY <3>2, <4>1
      <4>2. CASE u \in {[status |-> s, sysop |-> caller[c].snap.sysop] :
                          s \in {"suspended", "approved"}}
        BY <3>2, <4>2
      <4> QED  BY <3>1, <4>1, <4>2
    <3> QED  BY <3>1, <3>3
  <2>2. user' \in [Handles -> User] /\ moved' \in SUBSET Handles
    BY <1>0, <2>1, UserWrites
  <2>3. excused' \in SUBSET Handles
    BY <1>0, <1>13 DEF ManageStatus, TypeOK
  <2> QED  BY <1>1, <1>2, <1>13, <2>2, <2>3 DEF ManageStatus, TypeOK
<1>14. CASE ManageClear(c)
  <2>1. user' \in [Handles -> User]
    BY <1>0, <1>14, UserWrites DEF ManageClear
  <2> QED  BY <1>0, <1>1, <1>2, <1>14, <2>1 DEF ManageClear, TypeOK
<1> QED  BY <1>3, <1>4, <1>5, <1>6, <1>7, <1>8, <1>9, <1>10, <1>11, <1>12, <1>13, <1>14
         DEF CallerStep

\* Types, the second SELECT and the INSERT of a key
LEMMA AddTypes ==
  ASSUME TypeOK, RedeemsARow, NEW a \in Actors, AddStep(a)
  PROVE  TypeOK' /\ RedeemsARow'
<1>0. /\ adding \in SUBSET Addition /\ activeKeys \in [Handles -> [Keys -> 0 .. MaxRows]]
      /\ MaxRows \in Nat /\ raced \in SUBSET Keys
  BY AccountsConstants DEF TypeOK
<1>1. CASE AddCheck(a)
  <2>1. PICK r \in adding :
          adding' = (adding \ {r}) \cup
            (IF KeyTaken(r) THEN {} ELSE {[r EXCEPT !.checked = TRUE]})
    BY <1>1 DEF AddCheck
  <2>2. [r EXCEPT !.checked = TRUE] \in Addition
    BY <1>0 DEF Addition
  <2>3. adding' \in SUBSET Addition
    BY <1>0, <2>1, <2>2
  <2> QED  BY <1>1, <2>3 DEF AddStep, AddCheck, TypeOK, RedeemsARow, tables, tokens, history
<1>2. CASE AddInsert(a)
  <2>1. PICK r \in adding :
          /\ activeKeys[r.acct][r.key] < MaxRows
          /\ activeKeys' = [activeKeys EXCEPT ![r.acct][r.key] = @ + 1]
          /\ adding' = adding \ {r}
          /\ raced' = raced \cup {r.key} \/ raced' = raced
    BY <1>2 DEF AddInsert
  <2>2. r.acct \in Handles /\ r.key \in Keys
    BY <1>0 DEF Addition
  <2>3. activeKeys' \in [Handles -> [Keys -> 0 .. MaxRows]]
    BY <1>0, <2>1, <2>2
  <2>4. adding' \in SUBSET Addition /\ raced' \in SUBSET Keys
    BY <1>0, <2>1, <2>2
  <2> QED  BY <1>2, <2>3, <2>4 DEF AddStep, AddInsert, TypeOK, RedeemsARow, tokens
<1> QED  BY <1>1, <1>2 DEF AddStep

\* Types, the end of a token's life
LEMMA ExpireTypes ==
  ASSUME TypeOK, RedeemsARow, NEW h \in Handles, Expire(h)
  PROVE  TypeOK' /\ RedeemsARow'
<1>1. PICK t \in Usable(h) :
        /\ expired' = [expired EXCEPT ![h] = @ \cup {t}]
        /\ excused' = excused \cup {h} \/ excused' = excused
  BY DEF Expire
<1>2. t \in 1 .. MaxTokens
  BY <1>1, UsableTyped
<1>3. expired' \in [Handles -> SUBSET (1 .. MaxTokens)] /\ excused' \in SUBSET Handles
  BY <1>1, <1>2 DEF TypeOK
<1> QED  BY <1>3 DEF Expire, TypeOK, RedeemsARow

\* Types, any step
LEMMA StepTypes == TypeOK /\ RedeemsARow /\ [Next]_vars => TypeOK' /\ RedeemsARow'
<1> SUFFICES ASSUME TypeOK, RedeemsARow, [Next]_vars PROVE TypeOK' /\ RedeemsARow'
  OBVIOUS
<1>1. CASE UNCHANGED vars
  BY <1>1 DEF vars, TypeOK, RedeemsARow
<1>2. CASE Next
  BY <1>2, ApplicantTypes, CallerTypes, CtlTypes, AddTypes, ExpireTypes DEF Next
<1> QED  BY <1>1, <1>2

-----------------------------------------------------------------------------
(* Tokens *)

\* Only rows that exist are marked used; a session past Redeem has its token among
\* the used ones of its account, and one before it has none.
TokensTracked ==
  /\ \A h \in Handles : used[h] \subseteq 1 .. issued[h]
  /\ \A c \in Callers :
       /\ caller[c].pc \in {"new", "authed", "token"} => caller[c].tok = 0
       /\ caller[c].pc = "redeem" => caller[c].tok \in 1 .. issued[caller[c].acct]
       /\ caller[c].pc # "redeem" /\ caller[c].tok # 0 =>
            caller[c].tok \in used[caller[c].acct]

\* Only rows that exist expire.
ExpiredRows == \A h \in Handles : expired[h] \subseteq 1 .. issued[h]

TInv == TypeOK /\ RedeemsARow /\ TokensTracked /\ ExpiredRows /\ TokenOnce

\* A step that neither looks a token up nor marks it keeps what the session holds.
Keeps(c) ==
  /\ caller'[c].tok = caller[c].tok
  /\ caller[c].tok # 0 => caller'[c].acct = caller[c].acct
  /\ caller[c].pc # "redeem" /\ caller'[c].pc # "redeem"
  /\ caller'[c].pc \in {"new", "authed", "token"} => caller[c].pc \in {"new", "authed", "token"}

\* Every step of a session but Redeem's two statements keeps its token.
LEMMA CallerKeeps ==
  ASSUME TypeOK, TokensTracked, NEW c \in Callers, CallerStep(c),
         ~ RedeemSelect(c), ~ RedeemUpdate(c)
  PROVE  Keeps(c) \/ UNCHANGED caller
<1>0. caller \in [Callers -> Caller] /\ caller[c] \in Caller /\ caller[c].pc \in CallerPcs
  BY CallerFields DEF TypeOK
<1>1. \A p \in CallerPcs \ {"new", "authed", "token", "redeem"} :
        CallerTo(c, p) /\ caller[c].pc # "redeem" => Keeps(c)
  BY CallerEffects DEF Keeps
<1>2. (CallerOut(c) \/ CallerBack(c)) /\ caller[c].pc # "redeem" => Keeps(c)
  BY CallerEffects DEF Keeps
<1>3. Authenticate(c) => Keeps(c)
  <2>1. ASSUME NEW h, caller' = [caller EXCEPT ![c].pc = "authed", ![c].acct = h],
               caller[c].pc = "new"
        PROVE  Keeps(c)
    <3>1. caller'[c].pc = "authed" /\ caller'[c].tok = caller[c].tok
      BY <1>0, <2>1 DEF Caller
    <3> QED  BY <2>1, <3>1 DEF Keeps, TokensTracked
  <2> QED  BY <2>1 DEF Authenticate
<1>4. RunLogin(c) => Keeps(c)
  <2>1. ASSUME NEW b, NEW p \in {"password", "token"}, caller[c].pc = "authed",
               caller' = [caller EXCEPT ![c].sysop = b, ![c].pc = p]
        PROVE  Keeps(c)
    <3>1. caller'[c].pc = p /\ caller'[c].tok = caller[c].tok
      BY <1>0, <2>1 DEF Caller
    <3> QED  BY <2>1, <3>1 DEF Keeps, TokensTracked
  <2> QED  BY <1>2, <2>1 DEF RunLogin
<1>5. QueueChoose(c) => Keeps(c)
  <2>1. ASSUME NEW h, caller' = [caller EXCEPT ![c].pc = "queue", ![c].tgt = h],
               caller[c].pc = "in"
        PROVE  Keeps(c)
    <3>1. /\ caller'[c].pc = "queue" /\ caller'[c].tok = caller[c].tok
          /\ caller'[c].acct = caller[c].acct
      BY <1>0, <2>1 DEF Caller
    <3> QED  BY <2>1, <3>1 DEF Keeps
  <2> QED  BY <2>1 DEF QueueChoose, PanelCommand, Command
<1>6. ManageChoose(c) => Keeps(c)
  <2>1. ASSUME NEW h, NEW u, caller[c].pc = "in",
               caller' = [caller EXCEPT ![c].pc = "manage", ![c].tgt = h, ![c].snap = u]
        PROVE  Keeps(c)
    <3>1. /\ caller'[c].pc = "manage" /\ caller'[c].tok = caller[c].tok
          /\ caller'[c].acct = caller[c].acct
      BY <1>0, <2>1 DEF Caller
    <3> QED  BY <2>1, <3>1 DEF Keeps
  <2> QED  BY <2>1 DEF ManageChoose, PanelCommand, Command
<1> QED
  BY <1>1, <1>2, <1>3, <1>4, <1>5, <1>6
     DEF CallerStep, Onboarded, Verify, SessionEnds, ProfileAddKey, ProfileRevoke,
         ChangePassword, QueueApprove, QueueReview, QueueIssue, QueueDeny, QueueDenied,
         ManageStatus, ManageClear, PanelBack, CallerPcs

\* Nobody but Redeem marks a token, only time expires one, and rows of approval_token are never deleted.
LEMMA TokenTables ==
  ASSUME TypeOK, Next
  PROVE  /\ UNCHANGED used \/ \E c \in Callers : RedeemUpdate(c)
         /\ UNCHANGED expired \/ \E h \in Handles : Expire(h)
         /\ \A h \in Handles : issued'[h] \in Nat /\ issued'[h] >= issued[h]
<1> USE DEF tables, tokens
<1>0. issued \in [Handles -> 0 .. MaxTokens] /\ MaxTokens \in Nat
  BY AccountsConstants DEF TypeOK
<1> DEFINE Grows == \A h \in Handles : issued'[h] \in Nat /\ issued'[h] >= issued[h]
<1>1. UNCHANGED issued => Grows
  BY <1>0
<1>2. \A h \in Handles : Issue(h) => Grows
  BY <1>0 DEF Issue
<1> HIDE DEF Grows
<1>3. ASSUME NEW p \in Applicants, ApplicantStep(p) PROVE UNCHANGED <<used, expired>> /\ Grows
  BY <1>1, <1>3 DEF ApplicantStep, ApplyHandle, ApplyCreate, ApplyKey, ApplyRecord, ApplyEnds
<1>4. ASSUME NEW x \in Ctls, CtlStep(x) PROVE UNCHANGED <<used, expired>> /\ Grows
  <2>1. ctl[x].acct \in Handles
    BY CtlFields DEF TypeOK
  <2> QED
    BY <1>1, <1>2, <1>4, <2>1
       DEF CtlStep, CtlApprove, CtlBootstrap, CtlAddKey, CtlCreate, CtlSetPassword,
           CtlGrant, CtlIssue, CtlKey, CtlEnds
<1>5. ASSUME NEW c \in Callers, CallerStep(c)
      PROVE  (UNCHANGED used \/ RedeemUpdate(c)) /\ UNCHANGED expired /\ Grows
  <2>1. caller[c].tgt \in Handles
    BY CallerFields DEF TypeOK
  <2>2. RedeemUpdate(c) => UNCHANGED <<issued, expired>>
    BY DEF RedeemUpdate
  <2> QED
    BY <1>1, <1>2, <1>5, <2>1, <2>2
       DEF CallerStep, Authenticate, RunLogin, RedeemSelect, Onboarded, Verify, SessionEnds,
           ProfileAddKey, ProfileRevoke, ChangePassword, QueueChoose, QueueApprove,
           QueueReview, QueueIssue, QueueDeny, QueueDenied, ManageChoose, ManageStatus,
           ManageClear, PanelBack
<1>6. ASSUME NEW a \in Actors, AddStep(a) PROVE UNCHANGED <<used, expired>> /\ Grows
  BY <1>1, <1>6 DEF AddStep, AddCheck, AddInsert
<1>7. ASSUME NEW h \in Handles, Expire(h) PROVE UNCHANGED used /\ Grows
  BY <1>1, <1>7 DEF Expire
<1>8. /\ Grows /\ (UNCHANGED used \/ \E c \in Callers : RedeemUpdate(c))
      /\ UNCHANGED expired \/ \E h \in Handles : Expire(h)
  BY <1>3, <1>4, <1>5, <1>6, <1>7 DEF Next
<1> QED  BY <1>8 DEF Grows

\* Sessions are moved by their own steps only.
LEMMA CallerOwner ==
  ASSUME Next
  PROVE  UNCHANGED caller \/ \E c \in Callers : CallerStep(c)
BY DEF Next, ApplicantStep, ApplyHandle, ApplyCreate, ApplyKey, ApplyRecord, ApplyEnds,
       CtlStep, CtlApprove, CtlBootstrap, CtlAddKey, CtlCreate, CtlSetPassword,
       CtlGrant, CtlIssue, CtlKey, CtlEnds, AddStep, Expire

\* A token is marked by one session: the UPDATE wants it unmarked (tokens.go, Redeem).
LEMMA StepTokens ==
  ASSUME TInv, Next
  PROVE  TokensTracked' /\ TokenOnce'
<1> USE DEF TInv
<1>0. /\ caller \in [Callers -> Caller] /\ issued \in [Handles -> 0 .. MaxTokens]
      /\ used \in [Handles -> SUBSET (1 .. MaxTokens)] /\ MaxTokens \in Nat
      /\ \A d \in Callers : caller[d] \in Caller /\ caller[d].acct \in Handles
  BY CallerFields, AccountsConstants DEF TypeOK
<1>00. \A d \in Callers : caller'[d].acct \in Handles
  BY StepTypes, CallerFields DEF TypeOK
<1>g. \A h \in Handles : issued'[h] \in Nat /\ issued'[h] >= issued[h]
  BY TokenTables
<1>1. CASE UNCHANGED <<caller, used>>
  BY <1>0, <1>g, <1>1 DEF TokensTracked, TokenOnce
<1>2. CASE UNCHANGED used /\ \E c \in Callers : CallerStep(c) /\ ~ RedeemUpdate(c)
  <2>1. PICK c \in Callers : CallerStep(c) /\ ~ RedeemUpdate(c)
    BY <1>2
  <2>2. \A d \in Callers : d # c => caller'[d] = caller[d]
    BY <2>1, CallerFrame
  <2>3. CASE RedeemSelect(c)
    <3>1. PICK t \in Usable(caller[c].acct) :
            caller' = [caller EXCEPT ![c].pc = "redeem", ![c].tok = t]
      BY <2>3 DEF RedeemSelect
    <3>2. /\ caller'[c].pc = "redeem" /\ caller'[c].tok = t
          /\ caller'[c].acct = caller[c].acct
      BY <1>0, <3>1 DEF Caller
    <3>3. t \in 1 .. issued'[caller[c].acct]
      BY <1>0, <1>g, <3>1 DEF Usable
    <3>4. TokensTracked'
      BY <1>0, <1>g, <1>2, <2>2, <3>2, <3>3 DEF TokensTracked
    <3>5. TokenOnce'
      BY <2>2, <3>2 DEF TokenOnce
    <3> QED  BY <3>4, <3>5
  <2>4. CASE Keeps(c)
    <3>1. TokensTracked'
      BY <1>0, <1>00, <1>g, <1>2, <2>2, <2>4 DEF TokensTracked, Keeps
    <3>2. TokenOnce'
      BY <2>2, <2>4 DEF TokenOnce, Keeps
    <3> QED  BY <3>1, <3>2
  <2> QED  BY <1>1, <1>2, <2>1, <2>3, <2>4, CallerKeeps
<1>3. CASE \E c \in Callers : RedeemUpdate(c)
  <2>1. PICK c \in Callers : RedeemUpdate(c)
    BY <1>3
  <2>2. \A d \in Callers : d # c => caller'[d] = caller[d]
    BY <2>1, CallerFrame DEF CallerStep
  <2> DEFINE h == caller[c].acct
             t == caller[c].tok
  <2>3. t \in 1 .. issued[h] /\ UNCHANGED issued
    BY <2>1 DEF RedeemUpdate, TokensTracked
  <2>4. CASE t \notin used[h] /\ CallerTo(c, "newpw")
               /\ used' = [used EXCEPT ![h] = @ \cup {t}]
    <3>1. caller'[c].pc = "newpw" /\ caller'[c].acct = h /\ caller'[c].tok = t
      BY <2>4, CallerEffects DEF CallerPcs
    <3>2. TokensTracked'
      BY <1>0, <2>2, <2>3, <2>4, <3>1 DEF TokensTracked
    <3>3. \A d \in Callers :
            d # c /\ caller[d].acct = h /\ caller[d].tok = t /\ t # 0 => caller[d].pc = "redeem"
      BY <2>4 DEF TokensTracked
    <3>4. TokenOnce'
      BY <2>2, <3>1, <3>3 DEF TokenOnce
    <3> QED  BY <3>2, <3>4
  <2>5. CASE caller' = [caller EXCEPT ![c] = [Idle EXCEPT !.pc = "out"]] /\ UNCHANGED used
    <3>1. caller'[c].pc = "out" /\ caller'[c].tok = 0
      BY <1>0, <2>5 DEF Idle
    <3>2. TokensTracked'
      BY <1>0, <2>2, <2>3, <2>5, <3>1 DEF TokensTracked
    <3>3. TokenOnce'
      BY <2>2, <3>1 DEF TokenOnce
    <3> QED  BY <3>2, <3>3
  <2> QED  BY <2>1, <2>4, <2>5 DEF RedeemUpdate
<1> QED  BY <1>1, <1>2, <1>3, TokenTables, CallerOwner

\* A token that expires is one of the account's rows, which stay.
LEMMA StepExpired ==
  ASSUME TInv, Next
  PROVE  ExpiredRows'
<1>0. /\ issued \in [Handles -> 0 .. MaxTokens] /\ MaxTokens \in Nat
      /\ expired \in [Handles -> SUBSET (1 .. MaxTokens)]
      /\ \A h \in Handles : expired[h] \subseteq 1 .. issued[h]
  BY AccountsConstants DEF TInv, TypeOK, ExpiredRows
<1>1. \A h \in Handles : issued'[h] \in Nat /\ issued'[h] >= issued[h]
  BY TokenTables DEF TInv
<1>2. CASE UNCHANGED expired
  BY <1>0, <1>1, <1>2 DEF ExpiredRows
<1>3. ASSUME NEW g \in Handles, Expire(g) PROVE ExpiredRows'
  <2>1. PICK t \in 1 .. issued[g] : expired' = [expired EXCEPT ![g] = @ \cup {t}]
    BY <1>3 DEF Expire, Usable
  <2> QED  BY <1>0, <1>1, <2>1 DEF ExpiredRows
<1> QED  BY <1>2, <1>3, TokenTables DEF TInv

\* No token is used before the first session.
LEMMA InitTokens == Init => TokensTracked /\ ExpiredRows /\ TokenOnce
<1> SUFFICES ASSUME Init PROVE TokensTracked /\ ExpiredRows /\ TokenOnce
  OBVIOUS
<1>1. Idle.tok = 0 /\ [Idle EXCEPT !.pc = "in", !.sysop = TRUE].tok = 0
  BY DEF Idle
<1>2. \A c \in Callers : caller[c].tok = 0
  BY <1>1 DEF Init
<1>3. Idle.pc = "new" /\ [Idle EXCEPT !.pc = "in", !.sysop = TRUE].pc = "in"
  BY DEF Idle
<1>4. \A c \in Callers : caller[c].pc # "redeem"
  BY <1>3 DEF Init
<1> QED  BY <1>2, <1>4 DEF TokensTracked, ExpiredRows, TokenOnce, Init

-----------------------------------------------------------------------------
(* The user table *)

\* A handle without a row has no tier and no password, and whoever is about to write
\* to a row, or to write back the status it read, has seen that there is one.
RowsReal ==
  /\ \A h \in Handles : ~ Exists(h) => user[h].sysop = FALSE /\ user[h].pw = FALSE
  /\ \A c \in Callers :
       /\ caller[c].pc \notin {"new", "out"} => Exists(caller[c].acct)
       /\ caller[c].pc = "manage" => caller[c].snap.status # "none"
  /\ \A x \in Ctls : ctl[x].pc = "setpw" => Exists(ctl[x].acct)

\* What a step may do to the user table.
Creates(h) == ~ Exists(h) /\ Create(h) /\ UNCHANGED moved
SetsPassword(h, b) == (Exists(h) \/ b = FALSE) /\ SetPassword(h, b) /\ UNCHANGED moved

UserStep ==
  \/ UNCHANGED <<user, moved>>
  \/ \E h \in Handles : Creates(h)
  \/ \E h \in Handles, b \in BOOLEAN : SetsPassword(h, b)
  \/ \E h \in Handles, s \in Statuses \ {"none"}, b \in BOOLEAN : SetStatus(h, s, b)

\* Every step does one of these things to the user table.
LEMMA UserSteps ==
  ASSUME TypeOK, RowsReal, Next
  PROVE  UserStep
<1> USE DEF tables, tokens, history
<1>1. ASSUME NEW p \in Applicants, ApplicantStep(p) PROVE UserStep
  <2>1. applicant[p].acct \in Handles
    BY ApplicantFields DEF TypeOK
  <2> QED  BY <1>1, <2>1 DEF ApplicantStep, ApplyHandle, ApplyCreate, ApplyKey, ApplyRecord,
                             ApplyEnds, UserStep, Creates
<1>2. ASSUME NEW x \in Ctls, CtlStep(x) PROVE UserStep
  <2>1. ctl[x].acct \in Handles
    BY CtlFields DEF TypeOK
  <2>2. CASE CtlCreate(x)
    BY <2>1, <2>2 DEF CtlCreate, UserStep, Creates
  <2>3. CASE CtlSetPassword(x)
    BY <2>1, <2>3 DEF CtlSetPassword, UserStep, SetsPassword, RowsReal
  <2>4. CASE CtlGrant(x)
    BY <2>1, <2>4 DEF CtlGrant, UserStep, Statuses
  <2>5. CASE CtlApprove(x) \/ CtlBootstrap(x) \/ CtlAddKey(x) \/ CtlIssue(x) \/ CtlKey(x)
               \/ CtlEnds(x)
    BY <2>5 DEF CtlApprove, CtlBootstrap, CtlAddKey, CtlIssue, CtlKey, CtlEnds, UserStep
  <2> QED  BY <1>2, <2>2, <2>3, <2>4, <2>5 DEF CtlStep
<1>3. ASSUME NEW c \in Callers, CallerStep(c) PROVE UserStep
  <2>1. caller[c].acct \in Handles /\ caller[c].tgt \in Handles /\ caller[c].snap \in User
    BY CallerFields DEF TypeOK
  <2>2. CASE Onboarded(c) \/ ChangePassword(c)
    BY <2>1, <2>2 DEF Onboarded, ChangePassword, Command, UserStep, SetsPassword, RowsReal
  <2>3. CASE ManageClear(c)
    BY <2>1, <2>3 DEF ManageClear, UserStep, SetsPassword
  <2>4. CASE QueueApprove(c) \/ QueueDeny(c)
    BY <2>1, <2>4 DEF QueueApprove, QueueDeny, UserStep, Statuses
  <2>5. CASE ManageStatus(c)
    <3>1. PICK u \in
              {[status |-> caller[c].snap.status, sysop |-> s] : s \in BOOLEAN} \cup
              {[status |-> s, sysop |-> caller[c].snap.sysop] : s \in {"suspended", "approved"}} :
            SetStatus(caller[c].tgt, u.status, u.sysop)
      BY <2>5 DEF ManageStatus
    <3>2. /\ caller[c].snap.status \in Statuses \ {"none"} /\ caller[c].snap.sysop \in BOOLEAN
          /\ {"suspended", "approved"} \subseteq Statuses \ {"none"}
      BY <2>1, <2>5, UserFields DEF Statuses, RowsReal, ManageStatus
    <3>3. u.status \in Statuses \ {"none"} /\ u.sysop \in BOOLEAN
      <4>1. CASE u \in {[status |-> caller[c].snap.status, sysop |-> s] : s \in BOOLEAN}
        BY <3>2, <4>1
      <4>2. CASE u \in {[status |-> s, sysop |-> caller[c].snap.sysop] :
                          s \in {"suspended", "approved"}}
        BY <3>2, <4>2
      <4> QED  BY <3>1, <4>1, <4>2
    <3> QED  BY <2>1, <3>1, <3>3 DEF UserStep
  <2>6. CASE \/ Authenticate(c) \/ RunLogin(c) \/ RedeemSelect(c) \/ RedeemUpdate(c)
             \/ Verify(c) \/ SessionEnds(c) \/ ProfileAddKey(c) \/ ProfileRevoke(c)
             \/ QueueChoose(c) \/ QueueReview(c) \/ QueueIssue(c) \/ QueueDenied(c)
             \/ ManageChoose(c) \/ PanelBack(c)
    BY <2>6 DEF Authenticate, RunLogin, RedeemSelect, RedeemUpdate, Verify, SessionEnds,
                ProfileAddKey, ProfileRevoke, QueueChoose, QueueReview, QueueIssue,
                QueueDenied, ManageChoose, PanelBack, UserStep
  <2> QED  BY <1>3, <2>2, <2>3, <2>4, <2>5, <2>6 DEF CallerStep
<1>4. ASSUME NEW a \in Actors, AddStep(a) PROVE UserStep
  BY <1>4 DEF AddStep, AddCheck, AddInsert, UserStep
<1>5. ASSUME NEW h \in Handles, Expire(h) PROVE UserStep
  BY <1>5 DEF Expire, UserStep
<1> QED  BY <1>1, <1>2, <1>3, <1>4, <1>5 DEF Next

\* Field by field: a row stays, a handle without a row has no tier and no password,
\* and a tier that changes with a key on file, or on its way, is noted.
RowEffects ==
  \A g \in Handles :
    /\ user'[g].status = "none" => user[g].status = "none"
    /\ user'[g].status = "none" => user'[g].sysop = FALSE /\ user'[g].pw = FALSE
    /\ \/ user'[g].sysop = user[g].sysop
       \/ g \in moved'
       \/ ~ HasKey(g) /\ ~ \E r \in adding : r.acct = g

\* ... with this effect, row by row.
LEMMA RowEffectsHold ==
  ASSUME TypeOK, RowsReal, UserStep
  PROVE  RowEffects /\ moved \subseteq moved'
<1>0. user \in [Handles -> User] /\ \A g \in Handles : user[g] \in User
  BY DEF TypeOK
<1>r. \A g \in Handles :
        user[g].status = "none" => user[g].sysop = FALSE /\ user[g].pw = FALSE
  BY DEF RowsReal, Exists
<1>1. CASE UNCHANGED <<user, moved>>
  BY <1>1, <1>r DEF RowEffects
<1>2. ASSUME NEW h \in Handles, Creates(h) PROVE RowEffects /\ moved \subseteq moved'
  <2>1. /\ user' = [user EXCEPT ![h] = [NoUser EXCEPT !.status = "pending"]]
        /\ UNCHANGED moved /\ ~ Exists(h)
    BY <1>2 DEF Creates, Create
  <2>2. user'[h].status = "pending" /\ user'[h].sysop = FALSE
    BY <1>0, <2>1 DEF NoUser
  <2>3. \A g \in Handles : g # h => user'[g] = user[g]
    BY <1>0, <2>1
  <2> QED  BY <1>r, <2>1, <2>2, <2>3 DEF RowEffects, Exists
<1>3. ASSUME NEW h \in Handles, NEW b \in BOOLEAN, SetsPassword(h, b)
      PROVE  RowEffects /\ moved \subseteq moved'
  <2>1. user' = [user EXCEPT ![h].pw = b] /\ UNCHANGED moved /\ (Exists(h) \/ b = FALSE)
    BY <1>3 DEF SetsPassword, SetPassword
  <2>2. /\ user'[h].status = user[h].status /\ user'[h].sysop = user[h].sysop
        /\ user'[h].pw = b
    BY <1>0, <2>1 DEF User
  <2>3. \A g \in Handles : g # h => user'[g] = user[g]
    BY <1>0, <2>1
  <2> QED  BY <1>r, <2>1, <2>2, <2>3 DEF RowEffects, Exists
<1>4. ASSUME NEW h \in Handles, NEW s \in Statuses \ {"none"}, NEW b \in BOOLEAN,
             SetStatus(h, s, b)
      PROVE  RowEffects /\ moved \subseteq moved'
  <2>1. /\ user' = [user EXCEPT ![h].status = s, ![h].sysop = b]
        /\ moved' = IF user[h].sysop # b /\ (HasKey(h) \/ \E r \in adding : r.acct = h)
                    THEN moved \cup {h} ELSE moved
    BY <1>4 DEF SetStatus
  <2>2. user'[h].status = s /\ user'[h].sysop = b
    BY <1>0, <2>1 DEF User
  <2>3. \A g \in Handles : g # h => user'[g] = user[g]
    BY <1>0, <2>1
  <2> QED  BY <1>r, <2>1, <2>2, <2>3 DEF RowEffects, Exists
<1> QED  BY <1>1, <1>2, <1>3, <1>4 DEF UserStep

\* A session acts on an account it has seen approved, and in the user list on a row
\* it has read.
SeenRow(c) ==
  /\ caller'[c].pc \notin {"new", "out"} =>
       \/ caller[c].pc \notin {"new", "out"} /\ caller'[c].acct = caller[c].acct
       \/ caller'[c].acct \in Handles /\ Exists(caller'[c].acct)
  /\ caller'[c].pc = "manage" => caller'[c].snap.status # "none"

\* A session comes to an account by finding its row.
LEMMA CallerSeen ==
  ASSUME TypeOK, NEW c \in Callers, CallerStep(c)
  PROVE  SeenRow(c) \/ UNCHANGED caller
<1>0. caller \in [Callers -> Caller] /\ caller[c] \in Caller /\ caller[c].pc \in CallerPcs
  BY CallerFields DEF TypeOK
<1>1. \A p \in CallerPcs \ {"manage"} :
        CallerTo(c, p) /\ caller[c].pc \notin {"new", "out"} => SeenRow(c)
  BY CallerEffects DEF SeenRow
<1>2. CallerOut(c) => SeenRow(c)
  BY CallerEffects DEF SeenRow
<1>3. CallerBack(c) /\ caller[c].pc \notin {"new", "out"} => SeenRow(c)
  BY CallerEffects DEF SeenRow
<1>4. Authenticate(c) => SeenRow(c)
  <2>1. ASSUME NEW h \in Handles, user[h].status = "approved",
               caller' = [caller EXCEPT ![c].pc = "authed", ![c].acct = h]
        PROVE  SeenRow(c)
    <3>1. caller'[c].pc = "authed" /\ caller'[c].acct = h
      BY <1>0, <2>1 DEF Caller
    <3> QED  BY <2>1, <3>1 DEF SeenRow, Exists
  <2> QED  BY <2>1 DEF Authenticate
<1>5. RunLogin(c) => SeenRow(c)
  <2>1. ASSUME NEW b, NEW p \in {"password", "token"}, caller[c].pc = "authed",
               caller' = [caller EXCEPT ![c].sysop = b, ![c].pc = p]
        PROVE  SeenRow(c)
    <3>1. caller'[c].pc = p /\ caller'[c].acct = caller[c].acct
      BY <1>0, <2>1 DEF Caller
    <3> QED  BY <2>1, <3>1 DEF SeenRow
  <2> QED  BY <1>2, <2>1 DEF RunLogin
<1>6. RedeemSelect(c) => SeenRow(c)
  <2>1. ASSUME NEW t, caller' = [caller EXCEPT ![c].pc = "redeem", ![c].tok = t],
               caller[c].pc = "token"
        PROVE  SeenRow(c)
    <3>1. caller'[c].pc = "redeem" /\ caller'[c].acct = caller[c].acct
      BY <1>0, <2>1 DEF Caller
    <3> QED  BY <2>1, <3>1 DEF SeenRow
  <2> QED  BY <2>1 DEF RedeemSelect
<1>7. RedeemUpdate(c) => SeenRow(c)
  <2>1. ASSUME caller' = [caller EXCEPT ![c] = [Idle EXCEPT !.pc = "out"]] PROVE SeenRow(c)
    BY <1>0, <2>1 DEF SeenRow, Idle
  <2> QED  BY <1>1, <2>1 DEF RedeemUpdate, CallerPcs
<1>8. QueueChoose(c) => SeenRow(c)
  <2>1. ASSUME NEW h, caller' = [caller EXCEPT ![c].pc = "queue", ![c].tgt = h],
               caller[c].pc = "in"
        PROVE  SeenRow(c)
    <3>1. caller'[c].pc = "queue" /\ caller'[c].acct = caller[c].acct
      BY <1>0, <2>1 DEF Caller
    <3> QED  BY <2>1, <3>1 DEF SeenRow
  <2> QED  BY <2>1 DEF QueueChoose, PanelCommand, Command
<1>9. ManageChoose(c) => SeenRow(c)
  <2>1. ASSUME NEW h, Exists(h), caller[c].pc = "in",
               caller' = [caller EXCEPT ![c].pc = "manage", ![c].tgt = h, ![c].snap = user[h]]
        PROVE  SeenRow(c)
    <3>1. /\ caller'[c].pc = "manage" /\ caller'[c].acct = caller[c].acct
          /\ caller'[c].snap = user[h]
      BY <1>0, <2>1 DEF Caller
    <3> QED  BY <2>1, <3>1 DEF SeenRow, Exists
  <2> QED  BY <2>1 DEF ManageChoose, PanelCommand, Command
<1> QED
  BY <1>1, <1>2, <1>3, <1>4, <1>5, <1>6, <1>7, <1>8, <1>9
     DEF CallerStep, Onboarded, Verify, SessionEnds, ProfileAddKey, ProfileRevoke,
         ChangePassword, QueueApprove, QueueReview, QueueIssue, QueueDeny, QueueDenied,
         ManageStatus, ManageClear, PanelBack, CallerPcs

\* A sysopctl process moves its own record only.
LEMMA CtlFrame ==
  ASSUME TypeOK, NEW x \in Ctls, CtlStep(x)
  PROVE  \A y \in Ctls : y # x => ctl'[y] = ctl[y]
<1> DEFINE Frame == \A y \in Ctls : y # x => ctl'[y] = ctl[y]
<1>0. ctl \in [Ctls -> Ctl]
  BY DEF TypeOK
<1>1. \A p : CtlTo(x, p) => Frame
  BY <1>0 DEF CtlTo
<1>2. CtlOut(x) => Frame
  BY <1>0 DEF CtlOut
<1>3. CtlApprove(x) => Frame
  BY <1>0 DEF CtlApprove
<1>4. CtlBootstrap(x) => Frame
  BY <1>0 DEF CtlBootstrap
<1>5. CtlAddKey(x) \/ CtlKey(x) => Frame
  BY <1>0 DEF CtlAddKey, CtlKey
<1> HIDE DEF Frame
<1>6. Frame
  BY <1>1, <1>2, <1>3, <1>4, <1>5
     DEF CtlStep, CtlCreate, CtlSetPassword, CtlGrant, CtlIssue, CtlEnds
<1> QED  BY <1>6 DEF Frame

\* What the helpers that move a sysopctl process leave in its record.
LEMMA CtlEffects ==
  ASSUME TypeOK, NEW x \in Ctls
  PROVE  /\ \A p \in CtlPcs : CtlTo(x, p) => /\ ctl'[x].pc = p /\ ctl'[x].acct = ctl[x].acct
                                             /\ ctl'[x].issue = ctl[x].issue
         /\ CtlOut(x) => ctl'[x].pc = "out"
         /\ CtlApprove(x) =>
              /\ ctl'[x].pc = "approve" /\ ctl'[x].acct \in Handles
              /\ ctl'[x].issue \/ user[ctl'[x].acct].pw
         /\ CtlBootstrap(x) =>
              /\ ctl'[x].pc \in {"setpw", "create"} /\ ctl'[x].acct \in Handles
              /\ ctl'[x].pc = "setpw" => Exists(ctl'[x].acct)
         /\ CtlAddKey(x) \/ CtlKey(x) => ctl'[x].pc = "keys"
<1>0. ctl \in [Ctls -> Ctl] /\ ctl[x] \in Ctl
  BY DEF TypeOK
<1>1. ASSUME NEW p \in CtlPcs, CtlTo(x, p)
      PROVE  /\ ctl'[x].pc = p /\ ctl'[x].acct = ctl[x].acct
             /\ ctl'[x].issue = ctl[x].issue
  BY <1>0, <1>1 DEF CtlTo, Ctl
<1>2. CtlOut(x) => ctl'[x].pc = "out"
  BY <1>0 DEF CtlOut
<1>3. ASSUME CtlApprove(x)
      PROVE  /\ ctl'[x].pc = "approve" /\ ctl'[x].acct \in Handles
             /\ ctl'[x].issue \/ user[ctl'[x].acct].pw
  <2>1. PICK h \in Handles, b \in BOOLEAN :
          ctl' = [ctl EXCEPT ![x].pc = "approve", ![x].acct = h, ![x].issue = b \/ ~ user[h].pw]
    BY <1>3 DEF CtlApprove
  <2>2. /\ ctl'[x].pc = "approve" /\ ctl'[x].acct = h
        /\ ctl'[x].issue = (b \/ ~ user[h].pw)
    BY <1>0, <2>1 DEF Ctl
  <2> QED  BY <2>2
<1>4. ASSUME CtlBootstrap(x)
      PROVE  /\ ctl'[x].pc \in {"setpw", "create"} /\ ctl'[x].acct \in Handles
             /\ ctl'[x].pc = "setpw" => Exists(ctl'[x].acct)
  <2>1. PICK h \in Handles, k \in Keys :
          ctl' = [ctl EXCEPT ![x].pc = IF Exists(h) THEN "setpw" ELSE "create",
                             ![x].acct = h, ![x].todo = {k}]
    BY <1>4 DEF CtlBootstrap
  <2>2. /\ ctl'[x].pc = IF Exists(h) THEN "setpw" ELSE "create"
        /\ ctl'[x].acct = h
    BY <1>0, <2>1 DEF Ctl
  <2> QED  BY <2>2
<1>5. CtlAddKey(x) => ctl'[x].pc = "keys"
  BY <1>0 DEF CtlAddKey, Ctl
<1>6. CtlKey(x) => ctl'[x].pc = "keys"
  BY <1>0 DEF CtlKey, Ctl
<1> QED  BY <1>1, <1>2, <1>3, <1>4, <1>5, <1>6

\* Only sysopctl's own steps move a sysopctl run.
LEMMA CtlOwner ==
  ASSUME Next
  PROVE  UNCHANGED ctl \/ \E x \in Ctls : CtlStep(x)
BY DEF Next, ApplicantStep, ApplyHandle, ApplyCreate, ApplyKey, ApplyRecord, ApplyEnds,
       CallerStep, Authenticate, RunLogin, RedeemSelect, RedeemUpdate, Onboarded, Verify,
       SessionEnds, ProfileAddKey, ProfileRevoke, ChangePassword, QueueChoose, QueueApprove,
       QueueReview, QueueIssue, QueueDeny, QueueDenied, ManageChoose, ManageStatus,
       ManageClear, PanelBack, AddStep, Expire

\* Rows that were seen stay: nothing deletes a user.
LEMMA StepRows ==
  ASSUME TypeOK, RowsReal, Next, TypeOK'
  PROVE  RowsReal'
<1>1. RowEffects
  BY UserSteps, RowEffectsHold
<1>2. \A h \in Handles : user[h].status # "none" => user'[h].status # "none"
  BY <1>1 DEF RowEffects
<1>3. \A h \in Handles : user'[h].status = "none" => user'[h].sysop = FALSE /\ user'[h].pw = FALSE
  BY <1>1 DEF RowEffects
<1>4. ASSUME NEW d \in Callers
      PROVE  /\ caller'[d].pc \notin {"new", "out"} => user'[caller'[d].acct].status # "none"
             /\ caller'[d].pc = "manage" => caller'[d].snap.status # "none"
  <2>1. caller[d].acct \in Handles
    BY CallerFields DEF TypeOK
  <2>2. CASE UNCHANGED caller
    BY <1>2, <2>1, <2>2 DEF RowsReal, Exists
  <2>3. CASE \E c \in Callers : CallerStep(c) /\ c # d
    BY <1>2, <2>1, <2>3, CallerFrame DEF RowsReal, Exists
  <2>4. CASE SeenRow(d)
    BY <1>2, <2>1, <2>4 DEF SeenRow, RowsReal, Exists
  <2> QED  BY <2>2, <2>3, <2>4, CallerOwner, CallerSeen
<1>5. ASSUME NEW y \in Ctls, ctl'[y].pc = "setpw"
      PROVE  user'[ctl'[y].acct].status # "none"
  <2>1. ctl[y].acct \in Handles
    BY CtlFields DEF TypeOK
  <2>2. CASE UNCHANGED ctl
    BY <1>2, <1>5, <2>1, <2>2 DEF RowsReal, Exists
  <2>3. CASE \E x \in Ctls : CtlStep(x) /\ x # y
    BY <1>2, <1>5, <2>1, <2>3, CtlFrame DEF RowsReal, Exists
  <2>4. CASE CtlStep(y)
    <3>1. CASE CtlBootstrap(y)
      BY <1>2, <1>5, <3>1, CtlEffects DEF Exists
    <3>2. CASE CtlCreate(y)
      <4>1. CtlTo(y, "setpw") /\ Create(ctl[y].acct)
        BY <1>5, <3>2, CtlEffects DEF CtlCreate
      <4>2. user'[ctl[y].acct].status = "pending"
        BY <2>1, <4>1 DEF Create, NoUser, TypeOK
      <4> QED  BY <4>1, <4>2, CtlEffects DEF CtlPcs
    <3>3. ~ (CtlStep(y) /\ ~ CtlBootstrap(y) /\ ~ CtlCreate(y))
      BY <1>5, CtlEffects
         DEF CtlStep, CtlSetPassword, CtlGrant, CtlIssue, CtlEnds, CtlPcs
    <3> QED  BY <2>4, <3>1, <3>2, <3>3
  <2> QED  BY <2>2, <2>3, <2>4, CtlOwner
<1> QED  BY <1>3, <1>4, <1>5 DEF RowsReal, Exists

\* No session has seen a row before the first step but that of the SysOp online.
LEMMA InitRows == Init => RowsReal
<1> SUFFICES ASSUME Init PROVE RowsReal
  OBVIOUS
<1>1. \A h \in Handles : ~ Exists(h) => user[h].sysop = FALSE /\ user[h].pw = FALSE
  BY DEF Init, Exists, NoUser
<1>2. /\ Idle.pc = "new" /\ [Idle EXCEPT !.pc = "in", !.sysop = TRUE].pc = "in"
      /\ [Idle EXCEPT !.pc = "in", !.sysop = TRUE].acct = Operator
  BY DEF Idle
<1>3. \A c \in Callers : caller[c].pc = "new" \/
                         (caller[c].pc = "in" /\ caller[c].acct = Operator /\ Exists(Operator))
  <2>1. CASE caller = [c \in Callers |-> Idle]
    BY <1>2, <2>1
  <2>2. CASE /\ caller = [c \in Callers |-> IF c = Console
                            THEN [Idle EXCEPT !.pc = "in", !.sysop = TRUE] ELSE Idle]
             /\ user = [h \in Handles |-> IF h = Operator
                          THEN [status |-> "approved", sysop |-> TRUE, pw |-> TRUE]
                          ELSE NoUser]
    <3>1. Exists(Operator)
      BY <2>2, AccountsConstants DEF Exists
    <3>2. \A c \in Callers : caller[c] \in {Idle, [Idle EXCEPT !.pc = "in", !.sysop = TRUE]}
      BY <2>2
    <3> QED  BY <1>2, <3>1, <3>2
  <2> QED  BY <2>1, <2>2 DEF Init
<1> QED  BY <1>1, <1>3 DEF RowsReal, Init

-----------------------------------------------------------------------------
(* Keys *)

\* keyMu: one key addition at a time in each process, the daemon being one.
OneAdder ==
  \A r, o \in adding : r # o => r.by # o.by /\ ~ {r.by, o.by} \subseteq Daemon

\* The tier check of an addition still holds when its INSERT runs, or the reason why
\* not is on record.
CheckStillGood ==
  \A r \in adding, g \in Handles :
    (/\ r.checked /\ g # r.acct /\ activeKeys[g][r.key] > 0
     /\ user[g].sysop = user[r.acct].sysop)
    => g \in moved \/ r.acct \in moved \/ r.key \in raced

\* The tier an addition read is still the account's, or the reason why not is on record.
TierRead == \A r \in adding : r.sysop = user[r.acct].sysop \/ r.acct \in moved

KInv == OneAdder /\ TierRead /\ CheckStillGood /\ KeyPerTier

\* What a step may do to the keys.
Begins(a, h, k) == AddStart(a, h, k) /\ UNCHANGED <<activeKeys, raced, user, moved>>
Checks(r) ==
  /\ ~ KeyTaken(r) /\ adding' = (adding \ {r}) \cup {[r EXCEPT !.checked = TRUE]}
  /\ UNCHANGED <<activeKeys, raced, user, moved>>
Revokes(h, k) ==
  /\ activeKeys' = [activeKeys EXCEPT ![h][k] = @ - 1]
  /\ UNCHANGED <<raced, adding, user, moved>>

KeyStep ==
  \/ UNCHANGED <<activeKeys, raced>> /\ adding' \subseteq adding
  \/ \E a \in Actors, h \in Handles, k \in Keys : Begins(a, h, k)
  \/ \E r \in adding : Checks(r)
  \/ \E a \in Actors : AddInsert(a)
  \/ \E h \in Handles, k \in Keys : Revokes(h, k)

\* Every step does one of these things to the keys.
LEMMA KeySteps ==
  ASSUME TypeOK, Next
  PROVE  KeyStep
<1> USE DEF tables, tokens, history
<1>1. ASSUME NEW p \in Applicants, ApplicantStep(p) PROVE KeyStep
  <2>1. applicant[p].acct \in Handles /\ p \in Actors /\ applicant[p].todo \in SUBSET Keys
    BY ApplicantFields DEF TypeOK, Actors, Daemon
  <2>2. CASE ApplyKey(p)
    BY <2>1, <2>2 DEF ApplyKey, KeyStep, Begins
  <2>3. CASE ApplyHandle(p) \/ ApplyCreate(p) \/ ApplyRecord(p) \/ ApplyEnds(p)
    BY <2>3 DEF ApplyHandle, ApplyCreate, ApplyRecord, ApplyEnds, KeyStep
  <2> QED  BY <1>1, <2>2, <2>3 DEF ApplicantStep
<1>2. ASSUME NEW x \in Ctls, CtlStep(x) PROVE KeyStep
  <2>1. ctl[x].acct \in Handles /\ x \in Actors /\ ctl[x].todo \in SUBSET Keys
    BY CtlFields DEF TypeOK, Actors
  <2>2. CASE CtlKey(x)
    BY <2>1, <2>2 DEF CtlKey, KeyStep, Begins
  <2>3. CASE CtlStep(x) /\ ~ CtlKey(x)
    BY <2>3 DEF CtlStep, CtlApprove, CtlBootstrap, CtlAddKey, CtlCreate, CtlSetPassword,
                CtlGrant, CtlIssue, CtlEnds, KeyStep
  <2> QED  BY <1>2, <2>2, <2>3
<1>3. ASSUME NEW c \in Callers, CallerStep(c) PROVE KeyStep
  <2>1. caller[c].acct \in Handles /\ c \in Actors
    BY CallerFields DEF TypeOK, Actors, Daemon
  <2>2. CASE ProfileAddKey(c)
    BY <2>1, <2>2 DEF ProfileAddKey, KeyStep, Begins
  <2>3. CASE ProfileRevoke(c)
    BY <2>1, <2>3 DEF ProfileRevoke, KeyStep, Revokes
  <2>4. CASE CallerStep(c) /\ ~ ProfileAddKey(c) /\ ~ ProfileRevoke(c)
    BY <2>4
       DEF CallerStep, Authenticate, RunLogin, RedeemSelect, RedeemUpdate, Onboarded, Verify,
           SessionEnds, ChangePassword, QueueChoose, QueueApprove, QueueReview, QueueIssue,
           QueueDeny, QueueDenied, ManageChoose, ManageStatus, ManageClear, PanelBack, KeyStep
  <2> QED  BY <1>3, <2>2, <2>3, <2>4
<1>4. ASSUME NEW a \in Actors, AddStep(a) PROVE KeyStep
  <2>1. CASE AddCheck(a)
    <3>1. PICK r \in adding :
            adding' = (adding \ {r}) \cup
              (IF KeyTaken(r) THEN {} ELSE {[r EXCEPT !.checked = TRUE]})
      BY <2>1 DEF AddCheck
    <3>2. UNCHANGED <<activeKeys, raced, user, moved>>
      BY <2>1 DEF AddCheck
    <3>3. CASE KeyTaken(r)
      BY <3>1, <3>2, <3>3 DEF KeyStep
    <3>4. CASE ~ KeyTaken(r)
      <4>1. Checks(r)
        BY <3>1, <3>2, <3>4 DEF Checks
      <4> QED  BY <4>1 DEF KeyStep
    <3> QED  BY <3>3, <3>4
  <2> QED  BY <1>4, <2>1 DEF AddStep, KeyStep
<1>5. ASSUME NEW h \in Handles, Expire(h) PROVE KeyStep
  BY <1>5 DEF Expire, KeyStep
<1> QED  BY <1>1, <1>2, <1>3, <1>4, <1>5 DEF Next

\* The tier check holds until its INSERT, unless a promotion or a second process intervenes.
LEMMA StepKeys ==
  ASSUME TypeOK, RowsReal, KInv, Next
  PROVE  KInv'
<1> USE DEF KInv
<1>0. /\ activeKeys \in [Handles -> [Keys -> 0 .. MaxRows]] /\ MaxRows \in Nat
      /\ adding \in SUBSET Addition
      /\ \A h \in Handles, k \in Keys : activeKeys[h][k] \in 0 .. MaxRows
  BY AccountsConstants DEF TypeOK
<1>00. \A r \in adding : r.acct \in Handles /\ r.key \in Keys
  BY <1>0 DEF Addition
<1>1. RowEffects /\ moved \subseteq moved'
  BY UserSteps, RowEffectsHold
<1>2. CASE UNCHANGED <<activeKeys, raced>> /\ adding' \subseteq adding
  <2>1. \A g \in Handles : \/ user'[g].sysop = user[g].sysop
                           \/ g \in moved'
                           \/ /\ \A k \in Keys : ~ activeKeys[g][k] > 0
                              /\ \A r \in adding : r.acct # g
    BY <1>1 DEF RowEffects, HasKey
  <2>2. OneAdder'
    BY <1>2 DEF OneAdder, Daemon
  <2>t. TierRead'
    BY <1>00, <1>1, <1>2, <2>1 DEF TierRead
  <2>3. CheckStillGood'
    BY <1>00, <1>1, <1>2, <2>1 DEF CheckStillGood
  <2>4. KeyPerTier'
    BY <1>1, <1>2, <2>1 DEF KeyPerTier
  <2> QED  BY <2>2, <2>t, <2>3, <2>4
<1>3. CASE \E a \in Actors, h \in Handles, k \in Keys : Begins(a, h, k)
  <2>1. PICK a \in Actors, h \in Handles, k \in Keys : Begins(a, h, k)
    BY <1>3
  <2> DEFINE new == [by |-> a, acct |-> h, key |-> k, sysop |-> user[h].sysop,
                     checked |-> FALSE]
  <2>2. /\ adding' = adding \cup {new} /\ UNCHANGED <<activeKeys, raced, user, moved>>
        /\ KeyMuFree(a)
    BY <2>1 DEF Begins, AddStart
  <2>3. new.by = a /\ new.acct = h /\ new.sysop = user[h].sysop /\ new.checked = FALSE
    OBVIOUS
  <2> HIDE DEF new
  <2>4. OneAdder'
    BY <2>2, <2>3 DEF OneAdder, KeyMuFree
  <2>t. TierRead'
    BY <2>2, <2>3 DEF TierRead
  <2>5. CheckStillGood'
    BY <2>2, <2>3 DEF CheckStillGood
  <2>6. KeyPerTier'
    BY <2>2 DEF KeyPerTier
  <2> QED  BY <2>4, <2>t, <2>5, <2>6
<1>s. CASE \E r \in adding : Checks(r)
  <2>1. PICK r \in adding : Checks(r)
    BY <1>s
  <2> DEFINE new == [r EXCEPT !.checked = TRUE]
  <2>2. /\ ~ KeyTaken(r) /\ adding' = (adding \ {r}) \cup {new}
        /\ UNCHANGED <<activeKeys, raced, user, moved>>
    BY <2>1 DEF Checks
  <2>3. new.by = r.by /\ new.acct = r.acct /\ new.key = r.key /\ new.sysop = r.sysop
    BY <1>0 DEF Addition
  <2> HIDE DEF new
  <2>4. OneAdder'
    BY <2>2, <2>3 DEF OneAdder
  <2>t. TierRead'
    BY <2>2, <2>3 DEF TierRead
  <2>5. CheckStillGood'
    BY <2>2, <2>3 DEF CheckStillGood, TierRead, KeyTaken
  <2>6. KeyPerTier'
    BY <2>2 DEF KeyPerTier
  <2> QED  BY <2>4, <2>t, <2>5, <2>6
<1>4. CASE \E a \in Actors : AddInsert(a)
  <2>1. PICK a \in Actors, r \in adding :
          /\ r.by = a /\ r.checked
          /\ activeKeys' = [activeKeys EXCEPT ![r.acct][r.key] = @ + 1]
          /\ adding' = adding \ {r}
          /\ raced' = IF \E o \in adding \ {r} :
                            o.key = r.key /\ o.checked /\ ~ {o.by, a} \subseteq Daemon
                      THEN raced \cup {r.key} ELSE raced
          /\ UNCHANGED <<user, moved>>
    BY <1>4 DEF AddInsert
  <2>2. r.acct \in Handles /\ r.key \in Keys
    BY <1>00
  <2>3. \A g \in Handles, k \in Keys :
          activeKeys'[g][k] > 0 => activeKeys[g][k] > 0 \/ (g = r.acct /\ k = r.key)
    BY <1>0, <2>1, <2>2
  <2>4. raced \subseteq raced'
    BY <2>1
  <2>5. OneAdder'
    BY <2>1 DEF OneAdder, Daemon
  <2>t. TierRead'
    BY <2>1 DEF TierRead
  <2>6. \A o \in adding \ {r} : o.key = r.key /\ o.checked => r.key \in raced'
    BY <2>1 DEF OneAdder
  <2>7. CheckStillGood'
    BY <1>00, <2>1, <2>3, <2>4, <2>6 DEF CheckStillGood
  <2>8. KeyPerTier'
    BY <2>1, <2>2, <2>3, <2>4 DEF KeyPerTier, CheckStillGood
  <2> QED  BY <2>5, <2>t, <2>7, <2>8
<1>5. CASE \E h \in Handles, k \in Keys : Revokes(h, k)
  <2>1. PICK h \in Handles, k \in Keys : Revokes(h, k)
    BY <1>5
  <2>2. \A g \in Handles, m \in Keys : activeKeys'[g][m] > 0 => activeKeys[g][m] > 0
    BY <1>0, <2>1 DEF Revokes
  <2>3. UNCHANGED <<raced, adding, user, moved>>
    BY <2>1 DEF Revokes
  <2>4. OneAdder'
    BY <2>3 DEF OneAdder, Daemon
  <2>t. TierRead'
    BY <2>3 DEF TierRead
  <2>5. CheckStillGood'
    BY <1>00, <2>2, <2>3 DEF CheckStillGood
  <2>6. KeyPerTier'
    BY <2>2, <2>3 DEF KeyPerTier
  <2> QED  BY <2>4, <2>t, <2>5, <2>6
<1> QED  BY <1>2, <1>3, <1>s, <1>4, <1>5, KeySteps DEF KeyStep

\* Nobody adds a key before the first step, and one account at most has one.
LEMMA InitKeys == Init => KInv
<1> SUFFICES ASSUME Init PROVE KInv
  OBVIOUS
<1>1. \A h \in Handles, k \in Keys : activeKeys[h][k] > 0 => h = Operator
  BY DEF Init
<1> QED  BY <1>1 DEF KInv, OneAdder, TierRead, CheckStillGood, KeyPerTier, Init

-----------------------------------------------------------------------------
(* Stranded accounts *)

\* Somebody is about to set the account's password or to issue it a token.
InProgress(h) ==
  \/ \E c \in Callers : \/ caller[c].pc = "newpw" /\ caller[c].acct = h
                        \/ caller[c].pc \in {"review", "issue"} /\ caller[c].tgt = h
  \/ \E x \in Ctls : ctl[x].pc = "issue" /\ ctl[x].acct = h

\* The account can be logged in to, will be, or the reason why not is on record.
Provided(h) == user[h].pw \/ Usable(h) # {} \/ InProgress(h) \/ h \in excused

\* A sysopctl run that will approve without a token does so for a provided account.
GrantsProvided ==
  \A x \in Ctls, h \in Handles :
    (/\ ctl[x].pc = "grant" \/ (ctl[x].pc = "approve" /\ ~ ctl[x].issue)
     /\ ctl[x].acct = h) => Provided(h)

SInv == GrantsProvided /\ StrandedHasCause

\* The property in terms of what an account needs
LEMMA StrandedMeansNotProvided ==
  StrandedHasCause <=> \A h \in Handles : user[h].status = "approved" => Provided(h)
BY DEF StrandedHasCause, Stranded, Provided, InProgress

\* A token that expires leaves another one, or it is noted that it was the last.
LEMMA ExpiryNoted ==
  ASSUME TypeOK, NEW h \in Handles, Expire(h)
  PROVE  Usable(h)' # {} \/ h \in excused'
<1>1. PICK t \in Usable(h) :
        /\ expired' = [expired EXCEPT ![h] = @ \cup {t}]
        /\ Usable(h) = {t} => h \in excused'
  BY DEF Expire
<1>2. UNCHANGED <<issued, used>> /\ expired \in [Handles -> SUBSET (1 .. MaxTokens)]
  BY DEF Expire, TypeOK
<1>3. ASSUME NEW s \in Usable(h), s # t PROVE s \in Usable(h)'
  BY <1>1, <1>2, <1>3 DEF Usable
<1> QED  BY <1>1, <1>3

\* Marking a token used puts a session between Redeem and its new password.
LEMMA TokenLasts ==
  ASSUME TInv, Next, TypeOK', NEW h \in Handles, Usable(h) # {}
  PROVE  Provided(h)'
<1> USE DEF TInv
<1>0. /\ issued \in [Handles -> 0 .. MaxTokens] /\ MaxTokens \in Nat
      /\ used \in [Handles -> SUBSET (1 .. MaxTokens)]
  BY AccountsConstants DEF TypeOK
<1>1. PICK t \in 1 .. issued[h] : t \notin used[h] /\ t \notin expired[h]
  BY DEF Usable
<1>2. t \in 1 .. issued'[h]
  BY <1>0, <1>1, TokenTables
<1>3. CASE t \notin used'[h] /\ t \notin expired'[h]
  BY <1>2, <1>3 DEF Provided, Usable
<1>5. CASE t \in expired'[h]
  <2>1. PICK g \in Handles : Expire(g)
    BY <1>1, <1>5, TokenTables
  <2>2. g = h
    BY <1>1, <1>5, <2>1 DEF Expire, TypeOK
  <2> QED  BY <2>1, <2>2, ExpiryNoted DEF Provided
<1>4. CASE t \in used'[h]
  <2>1. PICK c \in Callers : RedeemUpdate(c)
    BY <1>1, <1>4, TokenTables
  <2>2. /\ CallerTo(c, "newpw")
        /\ used' = [used EXCEPT ![caller[c].acct] = @ \cup {caller[c].tok}]
    BY <1>1, <1>4, <2>1 DEF RedeemUpdate
  <2>3. caller[c].acct = h
    BY <1>0, <1>1, <1>4, <2>2
  <2>4. caller'[c].pc = "newpw" /\ caller'[c].acct = h
    BY <2>2, <2>3, CallerEffects DEF CallerPcs
  <2> QED  BY <2>4 DEF Provided, InProgress
<1> QED  BY <1>3, <1>4, <1>5

\* Issuing a token provides for the account, or its failure is noted.
LEMMA IssueProvides ==
  ASSUME TInv, NEW h \in Handles, Issue(h), UNCHANGED <<used, expired>>
  PROVE  Usable(h)' # {} \/ h \in excused'
<1>0. /\ issued \in [Handles -> 0 .. MaxTokens] /\ MaxTokens \in Nat
      /\ used[h] \subseteq 1 .. issued[h] /\ expired[h] \subseteq 1 .. issued[h]
      /\ issued[h] \in Nat
  BY AccountsConstants DEF TInv, TypeOK, TokensTracked, ExpiredRows
<1>1. CASE issued' = [issued EXCEPT ![h] = @ + 1]
  <2>1. issued'[h] = issued[h] + 1 /\ issued[h] + 1 \notin used[h] \cup expired[h]
    BY <1>0, <1>1
  <2>2. issued[h] + 1 \in (1 .. issued'[h]) \ (used'[h] \cup expired'[h])
    BY <1>0, <2>1
  <2> QED  BY <2>2 DEF Usable
<1>2. CASE h \in excused'
  BY <1>2
<1> QED  BY <1>1, <1>2 DEF Issue

\* An entry of excused goes away only when a token is issued.
LEMMA ExcusedLasts ==
  ASSUME TInv, Next, NEW h \in excused
  PROVE  h \in excused' \/ Usable(h)' # {}
<1> USE DEF tables, tokens, history
<1>0. h \in Handles
  BY DEF TInv, TypeOK
<1> DEFINE Kept == h \in excused' \/ Usable(h)' # {}
<1>1. ASSUME NEW g \in Handles, Issue(g), UNCHANGED <<used, expired>> PROVE Kept
  <2>1. CASE g = h
    BY <1>0, <1>1, <2>1, IssueProvides
  <2>2. CASE g # h
    BY <1>1, <2>2 DEF Issue
  <2> QED  BY <2>1, <2>2
<1>2. excused \subseteq excused' => Kept
  OBVIOUS
<1> HIDE DEF Kept
<1>3. ASSUME NEW p \in Applicants, ApplicantStep(p) PROVE Kept
  BY <1>2, <1>3 DEF ApplicantStep, ApplyHandle, ApplyCreate, ApplyKey, ApplyRecord, ApplyEnds
<1>4. ASSUME NEW x \in Ctls, CtlStep(x) PROVE Kept
  <2>1. ctl[x].acct \in Handles
    BY CtlFields DEF TInv, TypeOK
  <2> QED
    BY <1>1, <1>2, <1>4, <2>1
       DEF CtlStep, CtlApprove, CtlBootstrap, CtlAddKey, CtlCreate, CtlSetPassword,
           CtlGrant, CtlIssue, CtlKey, CtlEnds
<1>5. ASSUME NEW c \in Callers, CallerStep(c) PROVE Kept
  <2>1. caller[c].tgt \in Handles
    BY CallerFields DEF TInv, TypeOK
  <2>2. CASE QueueIssue(c)
    BY <1>1, <2>1, <2>2 DEF QueueIssue
  <2>3. CASE ManageStatus(c)
    BY <1>2, <2>3 DEF ManageStatus
  <2>4. CASE CallerStep(c) /\ ~ QueueIssue(c) /\ ~ ManageStatus(c)
    BY <1>2, <2>4
       DEF CallerStep, Authenticate, RunLogin, RedeemSelect, RedeemUpdate, Onboarded, Verify,
           SessionEnds, ProfileAddKey, ProfileRevoke, ChangePassword, QueueChoose,
           QueueApprove, QueueReview, QueueDeny, QueueDenied, ManageChoose, ManageClear,
           PanelBack
  <2> QED  BY <1>5, <2>2, <2>3, <2>4
<1>6. ASSUME NEW a \in Actors, AddStep(a) PROVE Kept
  BY <1>2, <1>6 DEF AddStep, AddCheck, AddInsert
<1>7. ASSUME NEW g \in Handles, Expire(g) PROVE Kept
  BY <1>2, <1>7 DEF Expire
<1>8. Kept
  BY <1>3, <1>4, <1>5, <1>6, <1>7 DEF Next
<1> QED  BY <1>8 DEF Kept

\* A password goes away only when a SysOp clears it, which is noted.
LEMMA PasswordLasts ==
  ASSUME TInv, RowsReal, Next, NEW h \in Handles, user[h].pw
  PROVE  user'[h].pw \/ h \in excused'
<1> USE DEF tables, tokens, history
<1>0. user \in [Handles -> User] /\ user[h] \in User
  BY DEF TInv, TypeOK
<1> DEFINE Kept == user'[h].pw \/ h \in excused'
<1>1. UNCHANGED user => Kept
  OBVIOUS
<1>2. ASSUME NEW g \in Handles, Create(g), ~ Exists(g) PROVE Kept
  <2>1. g # h
    BY <1>2 DEF RowsReal
  <2> QED  BY <1>0, <1>2, <2>1 DEF Create
<1>3. ASSUME NEW g \in Handles, SetPassword(g, TRUE) PROVE Kept
  BY <1>0, <1>3 DEF SetPassword, User
<1>4. ASSUME NEW g \in Handles, NEW s, NEW b, SetStatus(g, s, b) PROVE Kept
  BY <1>0, <1>4 DEF SetStatus, User
<1>5. ASSUME NEW g \in Handles, SetPassword(g, FALSE), excused' = excused \cup {g} PROVE Kept
  BY <1>0, <1>5 DEF SetPassword, User
<1> HIDE DEF Kept
<1>6. ASSUME NEW p \in Applicants, ApplicantStep(p) PROVE Kept
  <2>1. applicant[p].acct \in Handles
    BY ApplicantFields DEF TInv, TypeOK
  <2> QED  BY <1>1, <1>2, <1>6, <2>1
           DEF ApplicantStep, ApplyHandle, ApplyCreate, ApplyKey, ApplyRecord, ApplyEnds
<1>7. ASSUME NEW x \in Ctls, CtlStep(x) PROVE Kept
  <2>1. ctl[x].acct \in Handles
    BY CtlFields DEF TInv, TypeOK
  <2> QED
    BY <1>1, <1>2, <1>3, <1>4, <1>7, <2>1
       DEF CtlStep, CtlApprove, CtlBootstrap, CtlAddKey, CtlCreate, CtlSetPassword,
           CtlGrant, CtlIssue, CtlKey, CtlEnds
<1>8. ASSUME NEW c \in Callers, CallerStep(c) PROVE Kept
  <2>1. caller[c].acct \in Handles /\ caller[c].tgt \in Handles
    BY CallerFields DEF TInv, TypeOK
  <2>2. CASE Onboarded(c) \/ ChangePassword(c)
    BY <1>3, <2>1, <2>2 DEF Onboarded, ChangePassword
  <2>3. CASE ManageClear(c)
    BY <1>5, <2>1, <2>3 DEF ManageClear
  <2>4. CASE QueueApprove(c) \/ QueueDeny(c) \/ ManageStatus(c)
    BY <1>4, <2>1, <2>4 DEF QueueApprove, QueueDeny, ManageStatus
  <2>5. CASE \/ Authenticate(c) \/ RunLogin(c) \/ RedeemSelect(c) \/ RedeemUpdate(c)
             \/ Verify(c) \/ SessionEnds(c) \/ ProfileAddKey(c) \/ ProfileRevoke(c)
             \/ QueueChoose(c) \/ QueueReview(c) \/ QueueIssue(c) \/ QueueDenied(c)
             \/ ManageChoose(c) \/ PanelBack(c)
    BY <1>1, <2>5
       DEF Authenticate, RunLogin, RedeemSelect, RedeemUpdate, Verify, SessionEnds,
           ProfileAddKey, ProfileRevoke, QueueChoose, QueueReview, QueueIssue,
           QueueDenied, ManageChoose, PanelBack
  <2> QED  BY <1>8, <2>2, <2>3, <2>4, <2>5 DEF CallerStep
<1>9. ASSUME NEW a \in Actors, AddStep(a) PROVE Kept
  BY <1>1, <1>9 DEF AddStep, AddCheck, AddInsert
<1>10. ASSUME NEW g \in Handles, Expire(g) PROVE Kept
  BY <1>1, <1>10 DEF Expire
<1>11. Kept
  BY <1>6, <1>7, <1>8, <1>9, <1>10 DEF Next
<1> QED  BY <1>11 DEF Kept

\* Whoever is about to provide for the account does so, or its failure is noted.
LEMMA ProgressLasts ==
  ASSUME TInv, Next, TypeOK', NEW h \in Handles, InProgress(h)
  PROVE  Provided(h)'
<1>0. TypeOK
  BY DEF TInv
<1>1. ASSUME NEW c \in Callers,
             \/ caller[c].pc = "newpw" /\ caller[c].acct = h
             \/ caller[c].pc \in {"review", "issue"} /\ caller[c].tgt = h
      PROVE  Provided(h)'
  <2>1. CASE caller'[c] = caller[c]
    BY <1>1, <2>1 DEF Provided, InProgress
  <2>2. CASE CallerStep(c)
    <3>1. CASE Onboarded(c)
      <4>1. caller[c].acct = h
        BY <1>1, <3>1 DEF Onboarded
      <4>2. user'[h].pw
        BY <1>0, <3>1, <4>1 DEF Onboarded, SetPassword, TypeOK, User
      <4> QED  BY <4>2 DEF Provided
    <3>2. CASE SessionEnds(c)
      BY <1>1, <3>2 DEF SessionEnds, Provided
    <3>3. CASE QueueReview(c)
      <4>1. caller'[c].pc = "issue" /\ caller'[c].tgt = h
        BY <1>0, <1>1, <3>3, CallerEffects DEF QueueReview, CallerPcs
      <4> QED  BY <4>1 DEF Provided, InProgress
    <3>4. CASE QueueIssue(c)
      <4>1. Issue(h) /\ UNCHANGED <<used, expired>>
        BY <1>1, <3>4 DEF QueueIssue
      <4> QED  BY <4>1, IssueProvides DEF Provided
    <3>5. \/ Onboarded(c) \/ SessionEnds(c) \/ QueueReview(c) \/ QueueIssue(c)
      BY <1>1, <2>2
         DEF CallerStep, Authenticate, RunLogin, RedeemSelect, RedeemUpdate, Verify,
             ProfileAddKey, ProfileRevoke, ChangePassword, QueueChoose, QueueApprove,
             QueueDeny, QueueDenied, ManageChoose, ManageStatus, ManageClear, PanelBack,
             PanelCommand, Command
    <3> QED  BY <3>1, <3>2, <3>3, <3>4, <3>5
  <2> QED  BY <1>0, <2>1, <2>2, CallerOwner, CallerFrame
<1>2. ASSUME NEW x \in Ctls, ctl[x].pc = "issue", ctl[x].acct = h
      PROVE  Provided(h)'
  <2>1. CASE ctl'[x] = ctl[x]
    BY <1>2, <2>1 DEF Provided, InProgress
  <2>2. CASE CtlStep(x)
    <3>1. CASE CtlIssue(x)
      <4>1. Issue(h) /\ UNCHANGED <<used, expired>>
        BY <1>2, <3>1 DEF CtlIssue
      <4> QED  BY <4>1, IssueProvides DEF Provided
    <3>2. CASE CtlEnds(x)
      BY <1>2, <3>2 DEF CtlEnds, Provided
    <3>3. CtlIssue(x) \/ CtlEnds(x)
      BY <1>2, <2>2
         DEF CtlStep, CtlApprove, CtlBootstrap, CtlAddKey, CtlCreate, CtlSetPassword,
             CtlGrant, CtlKey
    <3> QED  BY <3>1, <3>2, <3>3
  <2> QED  BY <1>0, <2>1, <2>2, CtlOwner, CtlFrame
<1> QED  BY <1>1, <1>2 DEF InProgress

\* Once provided for, an account stays provided for.
LEMMA ProvidedLasts ==
  ASSUME TInv, RowsReal, Next, TypeOK', NEW h \in Handles, Provided(h)
  PROVE  Provided(h)'
<1>1. CASE user[h].pw
  BY <1>1, PasswordLasts DEF Provided
<1>2. CASE Usable(h) # {}
  BY <1>2, TokenLasts
<1>3. CASE InProgress(h)
  BY <1>3, ProgressLasts
<1>4. CASE h \in excused
  BY <1>4, ExcusedLasts DEF Provided
<1> QED  BY <1>1, <1>2, <1>3, <1>4 DEF Provided

\* An account becomes approved by the queue, by sysopctl or in the user list.
LEMMA ApprovedBy ==
  ASSUME TInv, Next, NEW h \in Handles,
         user[h].status # "approved", user'[h].status = "approved"
  PROVE  \/ \E c \in Callers : caller[c].tgt = h /\ (QueueApprove(c) \/ ManageStatus(c))
         \/ \E x \in Ctls : ctl[x].acct = h /\ CtlGrant(x)
<1> USE DEF tables, tokens, history
<1>0. user \in [Handles -> User] /\ \A g \in Handles : user[g] \in User
  BY DEF TInv, TypeOK
<1>1. ~ UNCHANGED user
  OBVIOUS
<1>2. \A g \in Handles : ~ Create(g)
  BY <1>0 DEF Create, NoUser
<1>3. \A g \in Handles, b \in BOOLEAN : ~ SetPassword(g, b)
  BY <1>0 DEF SetPassword, User
<1>4. \A g, s, b : g \in Handles /\ SetStatus(g, s, b) => g = h /\ s = "approved"
  BY <1>0 DEF SetStatus, User
<1>5. ASSUME NEW p \in Applicants, ApplicantStep(p) PROVE FALSE
  <2>1. applicant[p].acct \in Handles
    BY ApplicantFields DEF TInv, TypeOK
  <2> QED  BY <1>1, <1>2, <1>5, <2>1
           DEF ApplicantStep, ApplyHandle, ApplyCreate, ApplyKey, ApplyRecord, ApplyEnds
<1>6. ASSUME NEW x \in Ctls, CtlStep(x) PROVE CtlGrant(x) /\ ctl[x].acct = h
  <2>1. ctl[x].acct \in Handles
    BY CtlFields DEF TInv, TypeOK
  <2> QED
    BY <1>1, <1>2, <1>3, <1>4, <1>6, <2>1
       DEF CtlStep, CtlApprove, CtlBootstrap, CtlAddKey, CtlCreate, CtlSetPassword,
           CtlGrant, CtlIssue, CtlKey, CtlEnds
<1>7. ASSUME NEW c \in Callers, CallerStep(c)
      PROVE  caller[c].tgt = h /\ (QueueApprove(c) \/ ManageStatus(c))
  <2>1. caller[c].acct \in Handles /\ caller[c].tgt \in Handles
    BY CallerFields DEF TInv, TypeOK
  <2>2. ~ Onboarded(c) /\ ~ ChangePassword(c) /\ ~ ManageClear(c)
    BY <1>3, <2>1 DEF Onboarded, ChangePassword, ManageClear
  <2>3. ~ QueueDeny(c)
    <3> SUFFICES ASSUME SetStatus(caller[c].tgt, "denied", FALSE) PROVE FALSE
      BY DEF QueueDeny
    <3>1. user' = [user EXCEPT ![caller[c].tgt].status = "denied",
                               ![caller[c].tgt].sysop = FALSE]
      BY DEF SetStatus
    <3>2. user'[caller[c].tgt].status = "denied"
      BY <1>0, <2>1, <3>1 DEF User
    <3>3. caller[c].tgt # h => user'[h] = user[h]
      BY <1>0, <3>1
    <3> QED  BY <3>2, <3>3
  <2>4. ~ (\/ Authenticate(c) \/ RunLogin(c) \/ RedeemSelect(c) \/ RedeemUpdate(c)
           \/ Verify(c) \/ SessionEnds(c) \/ ProfileAddKey(c) \/ ProfileRevoke(c)
           \/ QueueChoose(c) \/ QueueReview(c) \/ QueueIssue(c) \/ QueueDenied(c)
           \/ ManageChoose(c) \/ PanelBack(c))
    BY <1>1
       DEF Authenticate, RunLogin, RedeemSelect, RedeemUpdate, Verify, SessionEnds,
           ProfileAddKey, ProfileRevoke, QueueChoose, QueueReview, QueueIssue,
           QueueDenied, ManageChoose, PanelBack
  <2>5. (QueueApprove(c) \/ ManageStatus(c)) => caller[c].tgt = h
    BY <1>4, <2>1 DEF QueueApprove, ManageStatus
  <2> QED  BY <1>7, <2>2, <2>3, <2>4, <2>5 DEF CallerStep
<1>8. ASSUME NEW a \in Actors, AddStep(a) PROVE FALSE
  BY <1>1, <1>8 DEF AddStep, AddCheck, AddInsert
<1>9. ASSUME NEW g \in Handles, Expire(g) PROVE FALSE
  BY <1>1, <1>9 DEF Expire
<1> QED  BY <1>5, <1>6, <1>7, <1>8, <1>9 DEF Next

\* An approved account keeps a way in, or the reason why not is on record.
LEMMA StepStranded ==
  ASSUME TInv, RowsReal, SInv, Next, TypeOK'
  PROVE  SInv'
<1> USE DEF tables, tokens, history
<1>0. TypeOK
  BY DEF TInv
<1>1. GrantsProvided'
  <2> SUFFICES ASSUME NEW y \in Ctls, NEW h \in Handles, ctl'[y].acct = h,
                      ctl'[y].pc = "grant" \/ (ctl'[y].pc = "approve" /\ ~ ctl'[y].issue)
               PROVE  Provided(h)'
    BY DEF GrantsProvided
  <2>1. ctl[y].acct \in Handles
    BY <1>0, CtlFields DEF TypeOK
  <2>2. CASE ctl'[y] = ctl[y]
    <3>1. Provided(ctl[y].acct)
      BY <2>2 DEF SInv, GrantsProvided
    <3> QED  BY <2>2, <3>1, ProvidedLasts
  <2>3. CASE CtlStep(y)
    <3>1. CASE CtlApprove(y)
      <4>1. user'[h].pw
        BY <1>0, <3>1, CtlEffects DEF CtlApprove
      <4> QED  BY <4>1 DEF Provided
    <3>2. CASE CtlSetPassword(y)
      <4>1. h = ctl[y].acct
        BY <1>0, <3>2, CtlEffects DEF CtlSetPassword, CtlPcs
      <4>2. user'[ctl[y].acct].pw
        BY <1>0, <2>1, <3>2 DEF CtlSetPassword, SetPassword, TypeOK, User
      <4> QED  BY <4>1, <4>2 DEF Provided
    <3>3. CtlApprove(y) \/ CtlSetPassword(y)
      BY <1>0, <2>3, CtlEffects
         DEF CtlStep, CtlCreate, CtlGrant, CtlIssue, CtlEnds, CtlPcs
    <3> QED  BY <3>1, <3>2, <3>3
  <2> QED  BY <1>0, <2>2, <2>3, CtlOwner, CtlFrame
<1>2. ASSUME NEW h \in Handles, user'[h].status = "approved"
      PROVE  Provided(h)'
  <2>1. CASE user[h].status = "approved"
    BY <2>1, ProvidedLasts, StrandedMeansNotProvided DEF SInv
  <2>2. ASSUME NEW c \in Callers, caller[c].tgt = h, QueueApprove(c)
        PROVE  Provided(h)'
    <3>1. caller'[c].pc = "review" /\ caller'[c].tgt = h
      BY <1>0, <2>2, CallerEffects DEF QueueApprove, CallerPcs
    <3> QED  BY <3>1 DEF Provided, InProgress
  <2>3. ASSUME NEW c \in Callers, caller[c].tgt = h, ManageStatus(c),
               user[h].status # "approved"
        PROVE  Provided(h)'
    <3>1. PICK u : /\ SetStatus(h, u.status, u.sysop)
                   /\ excused' = IF u.status = "approved" /\ user[h].status # "approved"
                                    /\ ~ user[h].pw /\ Usable(h) = {}
                                 THEN excused \cup {h} ELSE excused
      BY <2>3 DEF ManageStatus
    <3>2. u.status = "approved"
      <4>1. user'[h].status = u.status
        BY <1>0, <3>1 DEF SetStatus, TypeOK, User
      <4> QED  BY <1>2, <4>1
    <3>3. CASE user[h].pw \/ Usable(h) # {}
      BY <3>3, ProvidedLasts DEF Provided
    <3>4. CASE ~ user[h].pw /\ Usable(h) = {}
      BY <2>3, <3>1, <3>2, <3>4 DEF Provided
    <3> QED  BY <3>3, <3>4
  <2>4. ASSUME NEW x \in Ctls, ctl[x].acct = h, CtlGrant(x)
        PROVE  Provided(h)'
    <3>1. CASE ctl[x].pc = "grant" \/ ~ ctl[x].issue
      BY <2>4, <3>1, ProvidedLasts DEF SInv, GrantsProvided, CtlGrant
    <3>2. CASE ctl[x].pc = "approve" /\ ctl[x].issue
      <4>1. CtlTo(x, "issue")
        BY <2>4, <3>2 DEF CtlGrant
      <4>2. ctl'[x].pc = "issue" /\ ctl'[x].acct = h
        BY <1>0, <2>4, <4>1, CtlEffects DEF CtlPcs
      <4> QED  BY <4>2 DEF Provided, InProgress
    <3> QED  BY <2>4, <3>1, <3>2 DEF CtlGrant
  <2> QED  BY <1>2, <2>1, <2>2, <2>3, <2>4, ApprovedBy
<1>3. StrandedHasCause'
  BY <1>2 DEF StrandedHasCause, Stranded, Provided, InProgress
<1> QED  BY <1>1, <1>3 DEF SInv

\* No account is approved at the start but the SysOp's, who has a password.
LEMMA InitStranded == Init => SInv
<1> SUFFICES ASSUME Init PROVE SInv
  OBVIOUS
<1>1. \A h \in Handles : user[h].status = "approved" => user[h].pw
  BY DEF Init, NoUser
<1> QED  BY <1>1 DEF SInv, GrantsProvided, StrandedHasCause, Stranded, Init

-----------------------------------------------------------------------------

\* The inductive invariant
AInv == TInv /\ RowsReal /\ KInv /\ SInv

\* Any step keeps the inductive invariant.
LEMMA StepAccounts == AInv /\ [Next]_vars => AInv'
<1> SUFFICES ASSUME AInv, [Next]_vars PROVE AInv'
  OBVIOUS
<1>1. CASE Next
  <2>1. TypeOK' /\ RedeemsARow'
    BY <1>1, StepTypes DEF AInv, TInv
  <2>2. TInv'
    BY <1>1, <2>1, StepTokens, StepExpired DEF AInv, TInv
  <2>3. RowsReal' /\ KInv' /\ SInv'
    BY <1>1, <2>1, StepRows, StepKeys, StepStranded DEF AInv, TInv
  <2> QED  BY <2>2, <2>3 DEF AInv
<1>2. CASE UNCHANGED vars
  <2>1. TInv'
    BY <1>2 DEF AInv, TInv, TypeOK, RedeemsARow, TokensTracked, ExpiredRows, TokenOnce, vars
  <2>2. RowsReal' /\ KInv'
    BY <1>2 DEF AInv, RowsReal, Exists, KInv, OneAdder, TierRead, CheckStillGood, KeyPerTier, vars
  <2>3. SInv'
    BY <1>2 DEF AInv, SInv, GrantsProvided, StrandedHasCause, Stranded, Provided, InProgress,
                Usable, vars
  <2> QED  BY <2>1, <2>2, <2>3 DEF AInv
<1> QED  BY <1>1, <1>2

\* The inductive invariant holds of every behaviour of the account tables and their
\* writers.
THEOREM AccountsInvariant == Spec => []AInv
<1>1. Init => AInv
  BY InitTypes, InitTokens, InitRows, InitKeys, InitStranded DEF AInv, TInv
<1> QED  BY <1>1, StepAccounts, PTL DEF Spec

\* Every row and every session's copy of one keeps its type.
THEOREM AccountsTypeCorrect == Spec => []TypeOK
<1>1. AInv => TypeOK
  BY DEF AInv, TInv
<1> QED  BY <1>1, AccountsInvariant, PTL

\* A one-time token lets one session through (tokens.go, Redeem), however many
\* sessions found it unused at the same time.
THEOREM TokenOnceAlways == Spec => []TokenOnce
<1>1. AInv => TokenOnce
  BY DEF AInv, TInv
<1> QED  BY <1>1, AccountsInvariant, PTL

\* A key is active on one account of a tier (keys.go, Add), unless an account moved
\* between the tiers with a key on file or two processes inserted the key at one time.
THEOREM KeyPerTierAlways == Spec => []KeyPerTier
<1>1. AInv => KeyPerTier
  BY DEF AInv, KInv
<1> QED  BY <1>1, AccountsInvariant, PTL

\* An approved account is without password and token only for one of the reasons
\* StrandedHasCause lists, whatever the queue, the user list and sysopctl do at once.
THEOREM StrandedHasCauseAlways == Spec => []StrandedHasCause
<1>1. AInv => StrandedHasCause
  BY DEF AInv, SInv
<1> QED  BY <1>1, AccountsInvariant, PTL
=============================================================================
