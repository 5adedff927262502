------------------------------ MODULE Accounts ------------------------------
(***************************************************************************)
(* Accounts, from application to login: the user, membership, user_key and *)
(* approval_token tables and everyone who writes them.                     *)
(*                                                                         *)
(*   Applicants  Telnet connections in menu/apply.go                       *)
(*   Callers     SSH connections: the key authenticator, menu/login.go,    *)
(*               then the profile and, for a SysOp, the control panel      *)
(*   Ctls        runs of cmd/sysopctl, a separate process on the same file *)
(*                                                                         *)
(* Each SQL statement is a step.  What a person types between two          *)
(* statements takes time, so rows read before a prompt are snapshots that  *)
(* every other actor may overtake.  A statement may fail and a connection  *)
(* may drop: the handler returns and what it has written stays.            *)
(***************************************************************************)
EXTENDS Integers

CONSTANTS
    Handles,     \* handles; user.handle is UNIQUE, so one account for each
    Keys,        \* fingerprints of SSH public keys
    Applicants,  \* Telnet connections
    Callers,     \* SSH connections
    Ctls,        \* sysopctl processes
    Operator,    \* the handle of the SysOp of an established board
    Console,     \* the SSH connection at which that SysOp sits
    MaxTokens,   \* bound: tokens issued to one account
    MaxRows,     \* bound: active user_key rows of one account for one key
    MaxCommands  \* bound: commands typed in profiles and control panels

ASSUME AccountsConstants ==
    /\ Operator \in Handles
    /\ Console \in Callers
    /\ MaxTokens \in Nat \ {0}
    /\ MaxRows \in Nat \ {0}
    /\ MaxCommands \in Nat
    /\ Applicants \cap Callers = {}
    /\ Ctls \cap (Applicants \cup Callers) = {}

VARIABLES
    user,        \* user row of each handle; status "none" when there is none
    decision,    \* membership.decision of the account's application, or "none"
    activeKeys,  \* how many unrevoked user_key rows an account has for a key
    issued,      \* approval_token rows of an account: 1 .. issued[h]
    used,        \* those with used_at set
    expired,     \* those whose expires_at has passed
    applicant,   \* where each Telnet connection is in RunApply
    caller,      \* where each SSH connection is, with the row it read at login
    ctl,         \* where each sysopctl process is
    commands,    \* commands typed in profiles and control panels so far
    adding,      \* key additions between the first SELECT and the INSERT
    moved,       \* history: accounts whose tier changed with a key on file
    raced,       \* history: keys two processes were inserting at one time
    excused      \* history: accounts left without a token, see StrandedHasCause

vars == <<user, decision, activeKeys, issued, used, expired, applicant, caller, ctl,
          commands, adding, moved, raced, excused>>

tokens == <<issued, used, expired>>
tables == <<user, decision, activeKeys, tokens>>
history == <<moved, raced, excused>>

Statuses == {"none", "pending", "approved", "denied", "suspended"}
Decisions == {"none", "pending", "approved", "denied"}

\* Access levels matter here only by tier: at or above store.SysOpLevel, or below.
User == [status : Statuses, sysop : BOOLEAN, pw : BOOLEAN]
NoUser == [status |-> "none", sysop |-> FALSE, pw |-> FALSE]

\* acct: whose session this is; sysop: its tier as read at login (u.AccessLevel);
\* tok: the token it redeems; tgt, snap: the row the control panel acts on.
Caller ==
    [pc : {"new", "authed", "token", "redeem", "newpw", "password", "in",
           "queue", "review", "issue", "deny", "manage", "out"},
     acct : Handles, sysop : BOOLEAN, tok : 0 .. MaxTokens,
     tgt : Handles, snap : User]

\* todo: the keys still to be saved; issue: a token follows the approval.
Applicant == [pc : {"new", "typing", "keys", "out"}, acct : Handles, todo : SUBSET Keys]
Ctl == [pc : {"new", "approve", "issue", "create", "setpw", "grant", "keys", "out"},
        acct : Handles, issue : BOOLEAN, todo : SUBSET Keys]

\* A run of Keys.Add: the tier it read, and whether it has found the key free.
Addition == [by : Applicants \cup Callers \cup Ctls, acct : Handles, key : Keys,
             sysop : BOOLEAN, checked : BOOLEAN]

Daemon == Applicants \cup Callers
Actors == Daemon \cup Ctls

TypeOK ==
    /\ user \in [Handles -> User]
    /\ decision \in [Handles -> Decisions]
    /\ activeKeys \in [Handles -> [Keys -> 0 .. MaxRows]]
    /\ issued \in [Handles -> 0 .. MaxTokens]
    /\ used \in [Handles -> SUBSET (1 .. MaxTokens)]
    /\ expired \in [Handles -> SUBSET (1 .. MaxTokens)]
    /\ applicant \in [Applicants -> Applicant]
    /\ caller \in [Callers -> Caller]
    /\ ctl \in [Ctls -> Ctl]
    /\ commands \in 0 .. MaxCommands
    /\ adding \in SUBSET Addition
    /\ moved \in SUBSET Handles
    /\ raced \in SUBSET Keys
    /\ excused \in SUBSET Handles

Idle == [pc |-> "new", acct |-> Operator, sysop |-> FALSE, tok |-> 0,
         tgt |-> Operator, snap |-> NoUser]

(* A new board, or an established one: its SysOp bootstrapped with one key *)
(* and online.                                                             *)
Init ==
    /\ \/ /\ user = [h \in Handles |-> NoUser]
          /\ activeKeys = [h \in Handles |-> [k \in Keys |-> 0]]
          /\ caller = [c \in Callers |-> Idle]
       \/ /\ user = [h \in Handles |-> IF h = Operator
                        THEN [status |-> "approved", sysop |-> TRUE, pw |-> TRUE]
                        ELSE NoUser]
          /\ \E key \in Keys : activeKeys = [h \in Handles |-> [k \in Keys |->
                        IF h = Operator /\ k = key THEN 1 ELSE 0]]
          /\ caller = [c \in Callers |-> IF c = Console
                        THEN [Idle EXCEPT !.pc = "in", !.sysop = TRUE] ELSE Idle]
    /\ decision = [h \in Handles |-> "none"]
    /\ issued = [h \in Handles |-> 0]
    /\ used = [h \in Handles |-> {}]
    /\ expired = [h \in Handles |-> {}]
    /\ applicant = [p \in Applicants |-> [pc |-> "new", acct |-> Operator, todo |-> {}]]
    /\ ctl = [x \in Ctls |-> [pc |-> "new", acct |-> Operator, issue |-> FALSE, todo |-> {}]]
    /\ commands = 0
    /\ adding = {}
    /\ moved = {}
    /\ raced = {}
    /\ excused = {}

-----------------------------------------------------------------------------
(* Repository operations.                                                  *)

Exists(h) == user[h].status # "none"

\* The tokens Redeem accepts: unused, and not past their expires_at
Usable(h) == (1 .. issued[h]) \ (used[h] \cup expired[h])

HasKey(h) == \E k \in Keys : activeKeys[h][k] > 0

\* Users.Create: the UNIQUE handle makes a second INSERT fail (guard of the callers).
Create(h) == user' = [user EXCEPT ![h] = [NoUser EXCEPT !.status = "pending"]]

\* Users.SetStatus writes status and level together, whatever the row holds now.
SetStatus(h, status, sysop) ==
    /\ user' = [user EXCEPT ![h].status = status, ![h].sysop = sysop]
    /\ moved' = IF user[h].sysop # sysop /\ (HasKey(h) \/ \E r \in adding : r.acct = h)
                THEN moved \cup {h} ELSE moved

\* Users.SetPassword
SetPassword(h, set) == user' = [user EXCEPT ![h].pw = set]

\* Tokens.Issue: the INSERT, which may fail
Issue(h) ==
    \/ /\ issued[h] < MaxTokens
       /\ issued' = [issued EXCEPT ![h] = @ + 1]
       /\ excused' = excused \ {h}
    \/ /\ excused' = excused \cup {h}
       /\ UNCHANGED issued

\* Keys.Add refuses a key active on ANOTHER account of the same tier.
KeyTaken(r) ==
    \E o \in Handles \ {r.acct} : activeKeys[o][r.key] > 0 /\ user[o].sysop = r.sysop

\* Mutant: the tier check and the INSERT are not serialised.
KeyMuDropped(a) == ~ \E r \in adding : r.by = a

\* Store.keyMu, one for each process
KeyMuFree(a) ==
    ~ \E r \in adding : r.by = a \/ (a \in Daemon /\ r.by \in Daemon)

\* Keys.Add: the SELECT of the account's level ...
AddStart(a, h, k) ==
    /\ KeyMuFree(a)
    /\ activeKeys[h][k] < MaxRows
    /\ adding' = adding \cup {[by |-> a, acct |-> h, key |-> k,
                               sysop |-> user[h].sysop, checked |-> FALSE]}

\* ... the SELECT of the levels that hold the key, ErrKeyTaken if one is that tier's ...
AddCheck(a) ==
    \E r \in adding :
        /\ r.by = a /\ ~ r.checked
        /\ adding' = (adding \ {r}) \cup
                (IF KeyTaken(r) THEN {} ELSE {[r EXCEPT !.checked = TRUE]})
        /\ UNCHANGED <<tables, history>>

\* ... and the INSERT
AddInsert(a) ==
    \E r \in adding :
        /\ r.by = a /\ r.checked
        /\ activeKeys[r.acct][r.key] < MaxRows
        /\ activeKeys' = [activeKeys EXCEPT ![r.acct][r.key] = @ + 1]
        /\ adding' = adding \ {r}
        /\ raced' = IF \E o \in adding \ {r} :
                          o.key = r.key /\ o.checked /\ ~ {o.by, a} \subseteq Daemon
                    THEN raced \cup {r.key} ELSE raced
        /\ UNCHANGED <<user, decision, tokens, moved, excused>>

Adding(a) == \E r \in adding : r.by = a

-----------------------------------------------------------------------------
(* Telnet: RunApply.                                                       *)

ApplicantTo(p, pc) == applicant' = [applicant EXCEPT ![p].pc = pc]

\* The connection is over and its locals are gone.
ApplicantOut(p) ==
    applicant' = [applicant EXCEPT ![p] = [pc |-> "out", acct |-> Operator, todo |-> {}]]

\* The handle was free when asked; the keys parsed; the caller types on.
ApplyHandle(p) ==
    /\ applicant[p].pc = "new"
    /\ \E h \in Handles, ks \in SUBSET Keys \ {{}} :
        /\ ~ Exists(h)
        /\ applicant' = [applicant EXCEPT ![p] = [pc |-> "typing", acct |-> h, todo |-> ks]]
    /\ UNCHANGED <<tables, caller, ctl, adding, history, commands>>

\* The pending user, or the failure of its INSERT
ApplyCreate(p) ==
    /\ applicant[p].pc = "typing"
    /\ IF Exists(applicant[p].acct)
       THEN ApplicantOut(p) /\ UNCHANGED user
       ELSE ApplicantTo(p, "keys") /\ Create(applicant[p].acct)
    /\ UNCHANGED <<decision, activeKeys, tokens, caller, ctl, adding, history, commands>>

\* One key of the list: Keys.Add begins, or one of its statements fails (a message, as
\* for a key that is taken, and the loop goes on)
ApplyKey(p) ==
    /\ applicant[p].pc = "keys"
    /\ KeyMuFree(p)
    /\ \E k \in applicant[p].todo :
        /\ applicant' = [applicant EXCEPT ![p].todo = @ \ {k}]
        /\ \/ AddStart(p, applicant[p].acct, k)
           \/ UNCHANGED adding
    /\ UNCHANGED <<tables, caller, ctl, history, commands>>

\* Memberships.Apply
ApplyRecord(p) ==
    /\ applicant[p].pc = "keys" /\ applicant[p].todo = {} /\ ~ Adding(p)
    /\ decision' = [decision EXCEPT ![applicant[p].acct] = "pending"]
    /\ ApplicantOut(p)
    /\ UNCHANGED <<user, activeKeys, tokens, caller, ctl, adding, history, commands>>

\* The caller hangs up, or a statement fails: RunApply returns with what it wrote.
ApplyEnds(p) ==
    /\ applicant[p].pc \in {"typing", "keys"}
    /\ ApplicantOut(p)
    /\ adding' = {r \in adding : r.by # p}
    /\ UNCHANGED <<tables, caller, ctl, history, commands>>

-----------------------------------------------------------------------------
(* SSH: the key authenticator, RunLogin, onboard and verify.               *)

Command(c) ==
    /\ caller[c].pc = "in" /\ ~ Adding(c)
    /\ commands < MaxCommands
    /\ commands' = commands + 1

CallerTo(c, pc) == caller' = [caller EXCEPT ![c].pc = pc]

\* The connection is over; which token it redeemed, if any, is kept for TokenOnce.
CallerOut(c) ==
    caller' = [caller EXCEPT ![c] = [Idle EXCEPT !.pc = "out",
                  !.acct = IF caller[c].tok = 0 THEN Operator ELSE caller[c].acct,
                  !.tok = caller[c].tok]]

\* Back at a menu, the rows the panel listed are forgotten.
CallerBack(c) ==
    caller' = [caller EXCEPT ![c].pc = "in", ![c].tgt = Operator, ![c].snap = NoUser]

\* The first factor: an approved handle and one of its active keys
Authenticate(c) ==
    /\ caller[c].pc = "new"
    /\ \E h \in Handles :
        /\ user[h].status = "approved"
        /\ HasKey(h)
        /\ caller' = [caller EXCEPT ![c].pc = "authed", ![c].acct = h]
    /\ UNCHANGED <<tables, applicant, ctl, adding, history, commands>>

\* RunLogin reads the row the whole session will use.
RunLogin(c) ==
    /\ caller[c].pc = "authed"
    /\ LET u == user[caller[c].acct] IN
       \/ u.status # "approved" /\ CallerOut(c)
       \/ /\ u.status = "approved"
          /\ caller' = [caller EXCEPT ![c].sysop = u.sysop,
                           ![c].pc = IF u.pw THEN "password" ELSE "token"]
    /\ UNCHANGED <<tables, applicant, ctl, adding, history, commands>>

\* Mutant: that no row matched (matchID is -1) is not noticed.
RedeemSelectUnmatched(c) ==
    /\ caller[c].pc = "token"
    /\ \E t \in Usable(caller[c].acct) \cup {-1} :
        caller' = [caller EXCEPT ![c].pc = "redeem", ![c].tok = t]
    /\ UNCHANGED <<tables, applicant, ctl, adding, history, commands>>

\* Tokens.Redeem, its SELECT: the token typed is an unused one that has not expired
RedeemSelect(c) ==
    /\ caller[c].pc = "token"
    /\ \E t \in Usable(caller[c].acct) :
        caller' = [caller EXCEPT ![c].pc = "redeem", ![c].tok = t]
    /\ UNCHANGED <<tables, applicant, ctl, adding, history, commands>>

\* Mutant: the UPDATE does not ask for used_at IS NULL.
RedeemUpdateAny(c) ==
    /\ caller[c].pc = "redeem"
    /\ CallerTo(c, "newpw")
    /\ used' = [used EXCEPT ![caller[c].acct] = @ \cup {caller[c].tok}]
    /\ UNCHANGED <<user, decision, activeKeys, issued, expired, applicant, ctl, adding, history, commands>>

\* Its UPDATE ... AND used_at IS NULL, which must have changed one row: Redeem fails if
\* the token was used meanwhile, or if the statement fails, but not if it expired
RedeemUpdate(c) ==
    /\ caller[c].pc = "redeem"
    /\ LET h == caller[c].acct  t == caller[c].tok IN
       \/ /\ t \notin used[h]
          /\ CallerTo(c, "newpw")
          /\ used' = [used EXCEPT ![h] = @ \cup {t}]
       \/ /\ caller' = [caller EXCEPT ![c] = [Idle EXCEPT !.pc = "out"]]
          /\ UNCHANGED used
    /\ UNCHANGED <<user, decision, activeKeys, issued, expired, applicant, ctl, adding, history, commands>>

\* Both passwords were typed and agree.
Onboarded(c) ==
    /\ caller[c].pc = "newpw"
    /\ SetPassword(caller[c].acct, TRUE)
    /\ CallerTo(c, "in")
    /\ UNCHANGED <<decision, activeKeys, tokens, applicant, ctl, adding, history, commands>>

\* The second factor, checked against the hash of the row read at login
Verify(c) ==
    /\ caller[c].pc = "password"
    /\ CallerTo(c, "in")
    /\ UNCHANGED <<tables, applicant, ctl, adding, history, commands>>

\* A wrong or expired token, passwords that differ, three wrong ones, a failed
\* statement, a hangup: the session ends.  After Redeem the token stays used; inside
\* the panel an approval may stay without its Review or its token.
SessionEnds(c) ==
    /\ caller[c].pc \notin {"new", "redeem", "out"}
    /\ CallerOut(c)
    /\ adding' = {r \in adding : r.by # c}
    /\ excused' = excused \cup
            (IF caller[c].pc = "newpw" THEN {caller[c].acct} ELSE {}) \cup
            (IF caller[c].pc \in {"review", "issue"} THEN {caller[c].tgt} ELSE {})
    /\ UNCHANGED <<tables, applicant, ctl, moved, raced, commands>>

-----------------------------------------------------------------------------
(* A member's profile: keys and password.                                  *)

ProfileAddKey(c) ==
    /\ Command(c)
    /\ \E k \in Keys : AddStart(c, caller[c].acct, k)
    /\ UNCHANGED <<tables, applicant, caller, ctl, history>>

\* Keys.Revoke of one row of the list
ProfileRevoke(c) ==
    /\ Command(c)
    /\ \E k \in Keys :
        /\ activeKeys[caller[c].acct][k] > 0
        /\ activeKeys' = [activeKeys EXCEPT ![caller[c].acct][k] = @ - 1]
    /\ UNCHANGED <<user, decision, tokens, applicant, caller, ctl, adding, history>>

\* changePassword verifies against the session's own copy of the hash, so it also
\* puts a password back that a SysOp has cleared meanwhile.
ChangePassword(c) ==
    /\ Command(c)
    /\ SetPassword(caller[c].acct, TRUE)
    /\ UNCHANGED <<decision, activeKeys, tokens, applicant, caller, ctl, adding, history>>

-----------------------------------------------------------------------------
(* The control panel.  The tier is the one read at login.                  *)

PanelCommand(c) == Command(c) /\ caller[c].sysop

\* The membership queue is listed and one application chosen.
QueueChoose(c) ==
    /\ PanelCommand(c)
    /\ \E h \in Handles :
        /\ decision[h] = "pending"
        /\ caller' = [caller EXCEPT ![c].pc = "queue", ![c].tgt = h]
    /\ UNCHANGED <<tables, applicant, ctl, adding, history>>

QueueApprove(c) ==
    /\ caller[c].pc = "queue"
    /\ \E sysop \in BOOLEAN : SetStatus(caller[c].tgt, "approved", sysop)
    /\ CallerTo(c, "review")
    /\ UNCHANGED <<decision, activeKeys, tokens, applicant, ctl, adding, raced, excused, commands>>

QueueReview(c) ==
    /\ caller[c].pc = "review"
    /\ decision' = [decision EXCEPT ![caller[c].tgt] = "approved"]
    /\ CallerTo(c, "issue")
    /\ UNCHANGED <<user, activeKeys, tokens, applicant, ctl, adding, history, commands>>

QueueIssue(c) ==
    /\ caller[c].pc = "issue"
    /\ Issue(caller[c].tgt)
    /\ CallerBack(c)
    /\ UNCHANGED <<user, decision, activeKeys, used, expired, applicant, ctl, adding, moved, raced, commands>>

QueueDeny(c) ==
    /\ caller[c].pc = "queue"
    /\ SetStatus(caller[c].tgt, "denied", FALSE)
    /\ CallerTo(c, "deny")
    /\ UNCHANGED <<decision, activeKeys, tokens, applicant, ctl, adding, raced, excused, commands>>

\* The Review of a denial; its error is ignored.
QueueDenied(c) ==
    /\ caller[c].pc = "deny"
    /\ decision' \in {[decision EXCEPT ![caller[c].tgt] = "denied"], decision}
    /\ CallerBack(c)
    /\ UNCHANGED <<user, activeKeys, tokens, applicant, ctl, adding, history, commands>>

\* The user list (or an abuse report's target) is read and one row chosen.
ManageChoose(c) ==
    /\ PanelCommand(c)
    /\ \E h \in Handles :
        /\ Exists(h)
        /\ caller' = [caller EXCEPT ![c].pc = "manage", ![c].tgt = h, ![c].snap = user[h]]
    /\ UNCHANGED <<tables, applicant, ctl, adding, history>>

\* [L]evel writes the status it read, [S]uspend and [R]einstate the level they read;
\* none of them issues a token.
ManageStatus(c) ==
    /\ caller[c].pc = "manage"
    /\ LET h == caller[c].tgt  snap == caller[c].snap IN
       /\ \E u \in {[status |-> snap.status, sysop |-> s] : s \in BOOLEAN} \cup
                   {[status |-> s, sysop |-> snap.sysop] : s \in {"suspended", "approved"}} :
            /\ SetStatus(h, u.status, u.sysop)
            /\ excused' = IF u.status = "approved" /\ user[h].status # "approved"
                             /\ ~ user[h].pw /\ Usable(h) = {}
                          THEN excused \cup {h} ELSE excused
       /\ CallerBack(c)
    /\ UNCHANGED <<decision, activeKeys, tokens, applicant, ctl, adding, raced, commands>>

\* [P] clear password: no token is issued either.
ManageClear(c) ==
    /\ caller[c].pc = "manage"
    /\ SetPassword(caller[c].tgt, FALSE)
    /\ excused' = excused \cup {caller[c].tgt}
    /\ CallerBack(c)
    /\ UNCHANGED <<decision, activeKeys, tokens, applicant, ctl, adding, moved, raced, commands>>

\* [Q], or a key that does nothing
PanelBack(c) ==
    /\ caller[c].pc \in {"queue", "manage"}
    /\ CallerBack(c)
    /\ UNCHANGED <<tables, applicant, ctl, adding, history, commands>>

-----------------------------------------------------------------------------
(* sysopctl.                                                               *)

CtlTo(x, pc) == ctl' = [ctl EXCEPT ![x].pc = pc]

CtlOut(x) ==
    ctl' = [ctl EXCEPT ![x] = [pc |-> "out", acct |-> Operator, issue |-> FALSE, todo |-> {}]]

\* Mutant: promote never issues a token.
CtlApproveNoToken(x) ==
    /\ ctl[x].pc = "new"
    /\ \E h \in Handles, approve \in BOOLEAN :
        /\ Exists(h)
        /\ ctl' = [ctl EXCEPT ![x].pc = "approve", ![x].acct = h, ![x].issue = approve]
    /\ UNCHANGED <<tables, applicant, caller, adding, history, commands>>

\* approve | promote <handle>: a token follows for approve, or when the row read here
\* has no password.
CtlApprove(x) ==
    /\ ctl[x].pc = "new"
    /\ \E h \in Handles, approve \in BOOLEAN :
        /\ Exists(h)
        /\ ctl' = [ctl EXCEPT ![x].pc = "approve", ![x].acct = h,
                              ![x].issue = approve \/ ~ user[h].pw]
    /\ UNCHANGED <<tables, applicant, caller, adding, history, commands>>

\* bootstrap <handle> <key>: look the handle up
CtlBootstrap(x) ==
    /\ ctl[x].pc = "new"
    /\ \E h \in Handles, k \in Keys :
        ctl' = [ctl EXCEPT ![x].pc = IF Exists(h) THEN "setpw" ELSE "create",
                           ![x].acct = h, ![x].todo = {k}]
    /\ UNCHANGED <<tables, applicant, caller, adding, history, commands>>

\* addkey <handle> <key>
CtlAddKey(x) ==
    /\ ctl[x].pc = "new"
    /\ \E h \in Handles, k \in Keys :
        /\ Exists(h)
        /\ ctl' = [ctl EXCEPT ![x].pc = "keys", ![x].acct = h, ![x].todo = {k}]
    /\ UNCHANGED <<tables, applicant, caller, adding, history, commands>>

CtlCreate(x) ==
    /\ ctl[x].pc = "create"
    /\ IF Exists(ctl[x].acct)
       THEN CtlOut(x) /\ UNCHANGED user
       ELSE CtlTo(x, "setpw") /\ Create(ctl[x].acct)
    /\ UNCHANGED <<decision, activeKeys, tokens, applicant, caller, adding, history, commands>>

CtlSetPassword(x) ==
    /\ ctl[x].pc = "setpw"
    /\ SetPassword(ctl[x].acct, TRUE)
    /\ CtlTo(x, "grant")
    /\ UNCHANGED <<decision, activeKeys, tokens, applicant, caller, adding, history, commands>>

\* Users.Approve, of approve and promote ("approve") or of bootstrap ("grant")
CtlGrant(x) ==
    /\ ctl[x].pc \in {"approve", "grant"}
    /\ \E sysop \in BOOLEAN : SetStatus(ctl[x].acct, "approved", sysop)
    /\ IF ctl[x].pc = "approve" /\ ~ ctl[x].issue
       THEN CtlOut(x)
       ELSE CtlTo(x, IF ctl[x].pc = "grant" THEN "keys" ELSE "issue")
    /\ UNCHANGED <<decision, activeKeys, tokens, applicant, caller, adding, raced, excused, commands>>

CtlIssue(x) ==
    /\ ctl[x].pc = "issue"
    /\ Issue(ctl[x].acct)
    /\ CtlOut(x)
    /\ UNCHANGED <<user, decision, activeKeys, used, expired, applicant, caller, adding, moved, raced, commands>>

\* Keys.Add in this process; a key taken ends it (as does bootstrap's "already has")
CtlKey(x) ==
    /\ ctl[x].pc = "keys"
    /\ \E k \in ctl[x].todo :
        /\ AddStart(x, ctl[x].acct, k)
        /\ ctl' = [ctl EXCEPT ![x].todo = @ \ {k}]
    /\ UNCHANGED <<tables, applicant, caller, history, commands>>

\* The process ends: done, log.Fatal, or killed between two statements
CtlEnds(x) ==
    /\ ctl[x].pc \notin {"new", "out"}
    /\ CtlOut(x)
    /\ adding' = {r \in adding : r.by # x}
    /\ excused' = IF ctl[x].pc = "issue" THEN excused \cup {ctl[x].acct} ELSE excused
    /\ UNCHANGED <<tables, applicant, caller, moved, raced, commands>>

\* Keys.Add goes on, in whichever process
AddStep(a) == (AddCheck(a) \/ AddInsert(a)) /\ UNCHANGED <<applicant, caller, ctl, commands>>

-----------------------------------------------------------------------------
(* Time.                                                                   *)

\* A token nobody has used reaches its expires_at, TokenTTL after its Issue.
Expire(h) ==
    /\ \E t \in Usable(h) :
        /\ expired' = [expired EXCEPT ![h] = @ \cup {t}]
        /\ excused' = IF Usable(h) = {t} THEN excused \cup {h} ELSE excused
    /\ UNCHANGED <<user, decision, activeKeys, issued, used, applicant, caller, ctl,
                   commands, adding, moved, raced>>

-----------------------------------------------------------------------------

ApplicantStep(p) ==
    \/ ApplyHandle(p) \/ ApplyCreate(p) \/ ApplyKey(p) \/ ApplyRecord(p) \/ ApplyEnds(p)

CallerStep(c) ==
    \/ Authenticate(c) \/ RunLogin(c) \/ RedeemSelect(c) \/ RedeemUpdate(c)
    \/ Onboarded(c) \/ Verify(c) \/ SessionEnds(c)
    \/ ProfileAddKey(c) \/ ProfileRevoke(c) \/ ChangePassword(c)
    \/ QueueChoose(c) \/ QueueApprove(c) \/ QueueReview(c) \/ QueueIssue(c)
    \/ QueueDeny(c) \/ QueueDenied(c)
    \/ ManageChoose(c) \/ ManageStatus(c) \/ ManageClear(c) \/ PanelBack(c)

CtlStep(x) ==
    \/ CtlApprove(x) \/ CtlBootstrap(x) \/ CtlAddKey(x) \/ CtlCreate(x)
    \/ CtlSetPassword(x) \/ CtlGrant(x) \/ CtlIssue(x) \/ CtlKey(x) \/ CtlEnds(x)

Next ==
    \/ \E p \in Applicants : ApplicantStep(p)
    \/ \E c \in Callers : CallerStep(c)
    \/ \E x \in Ctls : CtlStep(x)
    \/ \E a \in Actors : AddStep(a)
    \/ \E h \in Handles : Expire(h)

Spec == Init /\ [][Next]_vars

-----------------------------------------------------------------------------
(* Properties.                                                             *)

\* A one-time token lets one session through: of two logins that both found it
\* unused (tokens.go's SELECT), the UPDATE ... AND used_at IS NULL refuses the later.
TokenOnce ==
    \A c, d \in Callers :
        (/\ c # d /\ caller[c].acct = caller[d].acct
         /\ caller[c].tok # 0 /\ caller[c].tok = caller[d].tok)
        => "redeem" \in {caller[c].pc, caller[d].pc}

\* A key is active on at most one SysOp and one regular account (keys.go, ErrKeyTaken),
\* whoever registers at the same moment, as long as neither account has changed tier
\* with a key on file and no second process was inserting the same key.
KeyPerTier ==
    \A k \in Keys, g, h \in Handles :
        (/\ g # h /\ activeKeys[g][k] > 0 /\ activeKeys[h][k] > 0
         /\ user[g].sysop = user[h].sysop)
        => g \in moved \/ h \in moved \/ k \in raced

\* An approved account without a password and without a token that still lets its owner
\* set one: nobody can log in to it, and it is on no queue.
Stranded(h) ==
    /\ user[h].status = "approved" /\ ~ user[h].pw /\ Usable(h) = {}
    /\ ~ \E c \in Callers : \/ caller[c].pc = "newpw" /\ caller[c].acct = h
                            \/ caller[c].pc \in {"review", "issue"} /\ caller[c].tgt = h
    /\ ~ \E x \in Ctls : ctl[x].pc = "issue" /\ ctl[x].acct = h

\* Approval leads to a usable token.  An account is stranded only after, since its last
\* token, a SysOp cleared its password, an approval was cut before the token, a
\* redeemed token was not followed by a password, the user list made it approved, or
\* that token expired (or an older one did, as the last).
StrandedHasCause == \A h \in Handles : Stranded(h) => h \in excused
=============================================================================
