------------------------------ MODULE Members -------------------------------
(***************************************************************************)
(* What the member-facing screens share: the sessions with the user row    *)
(* each one read at login, and the private block lists (store/blocks.go).  *)
(* Boards and Mail extend this module; Content puts them together.         *)
(*                                                                         *)
(* One user may have two sessions for a while: a session displaced by a    *)
(* newer login runs until it next reads from its caller.                   *)
(***************************************************************************)
EXTENDS Integers, Sequences

CONSTANTS
    Users,       \* members
    SysOps,      \* those at or above CoSysOpLevel
    Sessions,    \* live sessions
    Logins,      \* who may be behind them: one user twice, or several
    MaxRows      \* bound: rows written to the board, mail and block lists, together

ASSUME MembersConstants ==
    /\ SysOps \subseteq Users
    /\ Logins \subseteq [Sessions -> Users]
    /\ MaxRows \in Nat

VARIABLES
    at,          \* the prompt each session is at
    who,         \* the user of each session
    blocks,      \* user_block rows: <<blocker, blocked>>
    rows         \* rows written so far

memberVars == <<at, who, blocks, rows>>

Prompts == {"menu", "list", "read", "mark", "inbox", "get", "mail", "send"}

MembersTypeOK ==
    /\ at \in [Sessions -> Prompts]
    /\ who \in [Sessions -> Users]
    /\ blocks \subseteq Users \X Users
    /\ rows \in 0 .. MaxRows

MembersInit ==
    /\ at = [s \in Sessions |-> "menu"]
    /\ who \in Logins
    /\ blocks = {}
    /\ rows = 0

GoTo(s, prompt) == at' = [at EXCEPT ![s] = prompt]

OneMoreRow == rows < MaxRows /\ rows' = rows + 1

BlockedBy(u) == {v \in Users : <<u, v>> \in blocks}

\* Blocks.Block: INSERT OR IGNORE, and nobody blocks himself
Block(u, v) ==
    IF u = v \/ <<u, v>> \in blocks
    THEN UNCHANGED <<blocks, rows>>
    ELSE OneMoreRow /\ blocks' = blocks \cup {<<u, v>>}

\* The profile's block list: add by handle, or unblock one of the list
ManageBlocks(s) ==
    /\ at[s] = "menu"
    /\ \E v \in Users \ {who[s]} :
        \/ Block(who[s], v)
        \/ blocks' = blocks \ {<<who[s], v>>} /\ UNCHANGED rows
    /\ UNCHANGED <<at, who>>

MembersNext == \E s \in Sessions : ManageBlocks(s)
=============================================================================
