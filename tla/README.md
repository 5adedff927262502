# AdmiralBBS: formal models

TLA+ models of AdmiralBBS, a multi-user bulletin board server in Go, with TLC
runs on small instances and TLAPS proofs for every instance. Paths below are
relative to the repository; the Go code is under `src/`.

## 1. The system

One daemon (`src/cmd/admiralbbs`) serves callers over SSH (members) and Telnet
(membership applications only). Each caller is a goroutine running a handler;
the handlers share in-memory registries, a SQLite database and an audit file.
Two further commands work on the same data: `sysopctl` (accounts, while the
daemon runs) and `rekey` (key rotation, with the daemon stopped).

| Component | State it keeps | Operations | What makes it correct |
|---|---|---|---|
| Session handler (`main.go` sshHandle, `session/session.go`) | program point, wire, idle and budget timers | login, registration, menu, deferred clean-up | every resource taken is given back, in an order that never shows a wrong state; sessions end |
| Presence (`session/presence.go`) | handle -> token, sequence number | Enter, Leave | one live session per handle, the newest; nobody evicts a newer one |
| NodePool, Roster (`session/nodepool.go`, `roster.go`) | used numbers; node -> caller | Acquire, Release; Join, Leave, List | numbers exclusive, none leaked; the list is exact |
| Listeners (`transport/ssh.go`, `telnet.go`, `limits.go`) | semaphore, per-host counts, connections, channels | accept, acquire, release, channel and handler start | caps hold, slots balance and come back, the loop never blocks |
| Audit trail (`audit/log.go`, `store/sessionlog.go`) | chained file, tip in memory, SQLite mirror | New, Emit, Close, ReadAll, VerifyAuditChain | the chain survives restarts; what verifies is genuine |
| Key rotation (`cmd/rekey`, `store/rekey.go`, `audit.Rekey`) | database, blobs, trail, salt | one rotation, re-run | a reported success is complete; a failure is recoverable |
| Time budget (`main.go` enforceBudget, `sessionlog.go` MinutesToday) | disconnect rows | sum at login, timer | a member never exceeds the daily minutes |
| Accounts (`store/users.go`, `membership.go`, `keys.go`, `tokens.go`, `menu/apply.go`, `login.go`, `cmd/sysopctl`) | users, applications, keys, tokens | apply, review, issue, redeem, onboard, add and revoke keys | a token is used once; a key stays with one account per tier; approval ends in an account its owner can log in to |
| SysOp panel (`menu/sysop.go`) | snapshots of tables while the SysOp types | review, promote, ban, moderate, settings | decisions apply to what was shown |
| Doors (`doors/*`, `menu/doors.go`, `doorinstall.go`) | supervised processes, registry, bridges | install, launch, supervise, stop, relay | a door stopped stays stopped; a bridge reaches the running door; a caller's keys go where the caller is |
| Boards, mail (`store/messages.go`, `readptr.go`, `mail.go`, `menu/boards.go`, `mail.go`) | posts, threads, read pointers, letters | post, edit, delete, read, mark | what counts as new is what came since the last visit; deletion keeps threads whole and reaches nobody else's posts and no mail its owner has not seen; the list shown is the one asked for |
| File library (`store/files.go`, `menu/files.go`) | rows and sealed blobs | add, delete, read, quota | row and blob agree; quota and names hold under concurrent uploads |
| XMODEM (`xfer/xmodem.go`) | block counters | send, receive | what arrives is what was sent; neither end waits for ever |
| Telnet parser, input sanitiser (`transport/telnet.go`, `session/input.go`) | parser state | feed, read | no control bytes get through, whatever the split into reads |
| Vault, store opening, screen, menus, pager, bans, blocks, profile | | | see "Not modelled" |

What is hard here: handlers of different callers interleave between any two
registry calls; a displaced session and the login that displaces it clean up
concurrently; timers and hang-ups close a wire at any moment; peers go silent
without closing; the daemon crashes or is shut down under running sessions; the
audit write and the rotation may stop part-way; the limiter is taken and given
back in two steps; screens act on rows they listed before the caller typed; a
file is a row and a blob, an approval three statements, and `sysopctl` writes the
same tables from another process. `PROJECT.json` lists these hazards line by line with the
properties that cover them.

## 2. Modules

| Module | Models | Kind |
|---|---|---|
| `Sessions` | sshHandle over Presence, NodePool and Roster | specification |
| `NodeLeases` | what pool and roster promise together | abstract specification, implemented by `Sessions` |
| `SessionsProofs` | | proofs |
| `Listener` | accept loop, limiter, connections, channels, handlers | specification |
| `ListenerProofs` | | proofs |
| `AuditLog` | the chained file, its logger and the mirror | specification |
| `AuditLogProofs` | | proofs |
| `Rekey` | the rotation command, write by write | specification |
| `RekeyProofs` | | proofs |
| `Doors` | installer, supervisor and the two door tables, over boots and crashes | specification |
| `DoorsProofs` | | proofs |
| `Accounts` | user, membership, key and token tables with everyone who writes them | specification |
| `AccountsProofs` | | proofs |
| `Members` | sessions at prompts and block lists, shared by the next two | component |
| `Boards`, `Mail` | one message board; private mail | components |
| `Content` | `Boards` and `Mail` over one set of sessions | composition |
| `ContentProofs` | | proofs, of both components |
| `FileLibrary` | one file area: rows, blobs, the upload lock | specification |
| `Xmodem` | Send and Receive on a line that damages frames | specification |
| `FilesProofs` | | proofs, of `FileLibrary` and `Xmodem` |
| `MC...` | instances of the above for TLC | model checking |

Operators whose comment begins with "Mutant" are deliberate bugs: each replaces
the definition that follows it and shows that a property notices. No
specification uses them.

### Sessions

One element of `Callers` per run of sshHandle; `pc[c]` is the point between two
of its steps, the last four being the deferred calls in the order Go runs them
(roster.Leave, nodePool.Release, presence.Leave, s.Close). A registry method
holds its mutex throughout, so it is one action: `Enter` (up to the Unlock),
`Acquire`, `AcquireNone`, `Join`, `RosterLeave`, `Release`, `PresenceLeave`. `Kick`
is the call of the displaced session's closeFn after the Unlock: it writes a
notice and closes that wire; `AllBusy` is the notice to a caller who got no node.
`LoginOK`, `LoginRejected` and `LoginEOF` are the three outcomes of RunLogin;
the `Budget...` actions those of enforceBudget; `Logoff` and `MenuEOF` the two
ways out of the MOTD and the menu. `IdleFires` and `BudgetFires` act on the wire from
outside, and so does the client: `Answer`, `HangUp`, `Leaves`, `Stall`.

`conn[c]` is the SSH channel of the session. Close of an SSH channel sends
CHANNEL_CLOSE and returns; a read, or a write that waits for window, comes back only when
the client has answered it, has hung up, or its TCP connection is gone. So `CloseWire`
leads to `closing`, and the client's `Answer` or `HangUp` to `closed`, where reads fail
(`LoginEOF`, `MenuEOF`; a read may still deliver what the session's buffer holds, so
`LoginOK` and `Logoff` are possible there). A client that has stopped while its TCP
connection stays up is `silent`, and `stuck` once Close was called on it: neither timers
nor a newer login release what waits for it. A caller who has walked off from a client
that runs is `away`. Both lapses are for good: one that ends is slow typing or a slow
client, which every step may be anyway. The constant `Lapses` says which of them may
happen.

### Listener

A connection passes through `reserve`, `count` (and `undo`) inside acquire, then
`serving`, `up`, and `uncount`, `unslot` inside release. sem and perIP are
separate steps because acquire and release touch them under separate
synchronisation. `telnet` is chosen initially: both accept loops have the same
shape, and differ in what runs on an admitted connection. An error of Accept ends the loop
(`AcceptFails`), while the connections it has admitted go on. On SSH a handler is
started per session channel by its first shell request, possibly after the
connection has gone down, and outlives the connection's slot.

### AuditLog

A line is the event it seals and its MAC; the MAC is an operator parameter.
`torn` is what follows the last newline: nothing, part of a ciphertext, a line
cut inside its MAC, a line without its newline, or lines run together. It
decides what chainTip recovers at the next start (`LastLine`) and what becomes
of the next line appended behind it (`Landed`). `harm` records whether a write
was ever cut short and whether the file was ever changed outside the logger, so
that each property says under which of the two it holds. `Stop` is both the
os.Exit of the shutdown and a crash; `CloseLog` is the logger.Close that
precedes os.Exit while sessions still emit.

### Rekey

A key is named by the salt it is derived with; the operator knows the secrets,
so a key is lost exactly when its salt is neither on disk nor in the process.
Every os.WriteFile is an open that truncates and a write; `Fail` is log.Fatalf
or a kill at any point. A database without sealed columns opens under any key;
the model takes one that has some.

### Doors

A thread (a SysOp session in Install, or the main goroutine in RelaunchAll) goes
through `persist`, `launch` and `register`; any of them may fail (`GiveUp`), and
the daemon may be shut down (`StopAll`, then `Exit`) or crash (`Exit` alone)
between any two. Installs start once RelaunchAll has returned, and may still
start while StopAll's daemon is about to exit. `spc[x]` is the point of a
supervise goroutine: `top` and `exited` are its two looks at the stop channel,
`start` lies between publishing the command and cmd.Start, in `wait` the door's
process runs, `backoff` is the last select. StopAll kills processes that have
been started; one about to start survives it, which is why the goroutine's next
look matters. A process that runs when the daemon exits stays behind as an
orphan and keeps its port until it ends. FreeLocalPort names any port nobody
listens on, so two installs may be given the same one. The constant `Sups` needs
two goroutines per name: StopAll runs once in a life of the daemon and Launch
refuses a second one otherwise. Only names that were installed are modelled:
doors a SysOp adds by hand, or by `-door`, live in the registry alone.

### Accounts

Three kinds of actors work on four tables: Telnet applicants (RunApply), SSH
callers (key authentication, RunLogin, profile, control panel) and `sysopctl`
processes. Every SQL statement is an action, because a person or another process
comes between any two. A caller's record holds what its session remembers: the
tier read at login and the row the panel listed (`snap`), which `ManageStatus`
writes back although others may have changed it. Keys.Add is three statements: the tier
of the account, the tiers of the accounts that hold the key, and the INSERT (`AddStart`,
`AddCheck`, `AddInsert`); `KeyMuFree` is Store.keyMu, which serialises
the daemon's sessions but not `sysopctl`. Access levels are reduced to the two
tiers that decide anything here. `ApplyEnds`, `SessionEnds` and `CtlEnds` are a
hangup, a failed statement or a killed process at any point. Three history
variables record why a property may be excused: `moved`, `raced`, `excused`.
A token that is unused may pass its expires_at at any moment (`Expire`), even between
the two statements of Redeem, the second of which does not look at the time again; what
Redeem accepts is `Usable`. `raced` records that two processes had both found the key
free when one of them inserted it.

### Members, Boards, Mail, Content

A session is at one prompt; what it listed or opened is a copy. `Boards` keeps
browseArea's cached search result as a sequence, because hideBlocked filters it
in place: `Kept` is what is shown, `Overwritten` what that leaves in the cache. A list
is drawn from a set of rows by their ids (`ById`) and filtered by position, both
through the k-th smallest of a set of numbers (`Nth`).
`QuitArea` and `Mark` are the two statements of markRead; a caller who hangs up, or for
whom one of them fails, leaves without a mark (`LeaveBoards`). Two history variables say
what a mark is about: `there`, the posts that were on the board when the session asked
for maxID, and `news`, for each user the posts that were not there at any visit he has
marked. `Without` is the DELETE
with the foreign key on parent_id: it removes a post and its direct replies, or
nothing if a reply to a reply would lose its parent. `Mail` sends a composed
message row by row (`Send`), and deletes by the id of the copy on the screen. Mail.Get is
two statements: `Get` fetches a row for the screen (history field `shown`), `GetMarks`
sets read_at of that id, or fails, which the code ignores.
Texts are left out, and so are failing statements other than those named. A
search is for a word every post has, or by author.

### FileLibrary

Files.Add holds uploadMu from `AddLock` to its return; in between lie the check,
the INSERT, the creation of the blob, its content and the path UPDATE. Delete is
two steps and takes no lock, so it can overtake an upload in progress. `AddFails`,
`DeleteFails` and `Crash` end these anywhere. `cut` and `stray` remember uploads
and removals that ended half way: those are the only excuses `RowsMatchBlobs`
accepts.

### Xmodem

A frame is its number and, for the properties, the block it carries. The line
keeps its order; a frame may arrive with a bad header or a bad CRC. The code's two
halves are paired as its round-trip test pairs them; the terminal program at the
far end may also ask again on a timer (`Poke`), and its user may cancel. Neither
Send nor Receive has a timer, so a lost frame start or a lost EOT is left to the
session's idle watchdog.

`TransferFaithful` has three parts. The blocks received are the first blocks of the file,
unless a frame was damaged and the timer answered at least `BlockMod - 1` times. A file
returned is whole, unless both a frame was damaged and a timer answered. Without timer
answers Send reports success only for a file that was received. The first exception is
where the block number, a byte, stops telling blocks apart: every answer nobody asked for
may put the sender a block ahead, a damaged frame keeps the receiver where it is, and a
frame a whole round of numbers ahead is taken for an older one. With 256 numbers that
takes 255 such answers in one transfer.

## 3. Runs

| Run | Instance | Shows |
|---|---|---|
| `sessions_safety` | 3 callers, 2 members, 2 nodes | `NodesExclusive`, `RosterExact`, `PresenceSound`, `DisplacedIsBeingClosed`, and `ImplementsLeases` (refinement of `NodeLeases`) |
| `sessions_liveness` | 2 sessions of one member, 1 node, callers who walk off and clients that stop | `DisplacedEnds`, `IdleEnds`, `BudgetedEnds` |
| `listener_slots` | 3 connections, 2 hosts, 2 slots, 1 per host, either kind | `SlotsExact` (with the caps), `SlotReturned`, `LoopNotWedged` |
| `audit_trail` | 3 events | `TrailVerifies`, `VerifiedIsGenuine` |
| `rekey_rotation` | 3 blobs, 4 runs of the command | `DoneIsReadable`, `DBVouchesForRest` |
| `rekey_failure` | 2 blobs, 1 run | violation: `FailureIsRecoverable` |
| `doors_life` | 1 door, 2 SysOps, 2 ports, 2 goroutines, any number of lives | `OneSupervisor`, `ShownIsRecorded`, `BootSettles`, `StopEndsRelaunching`, `KeptAlive` |
| `accounts` | 2 accounts, 1 key, 2 applicants, 2 callers, 1 `sysopctl`, 2 tokens each, 2 menu commands (applications and commands at most 3); a new board or one with its SysOp online | `TokenOnce`, `KeyPerTier`, `StrandedHasCause` |
| `content` | 2 users (one a SysOp), 2 sessions of one or of both, 3 rows | `ThreadsIntact`, `OthersPostsKept`, `NewSinceVisit`, `ReadBeforeDeleted` |
| `content_search` | the same | violation: `ListedOnce` |
| `files` | 2 users (one a SysOp), 2 sessions, 2 names, 3 uploads, quota of 2 | `LimitsHold`, `RowsMatchBlobs` |
| `xmodem` | 1 to 8 blocks, numbers wrap at 4, 4 tries, limit of 7 blocks, 3 unprompted answers, 2 damaged frames | `TransferFaithful`, `TransferEnds` |

Every module's `TypeOK` (`XmodemTypeOK` in `Xmodem`) is checked by one of its passing
runs as well.

Bounds. Three callers are a session, the login that displaces it and a third
that displaces the second while the first still cleans up, or another member
competing for a node; two nodes make both the first-free scan and the full pool
happen. The safety run needs no lapses: no step of a handler or a timer tells `away` and
`silent` from `open`, nor `stuck` from `closing`, so they differ in what is bound to
happen and in nothing a safety property sees (the proofs cover them all the same). For
liveness, two sessions with lapses are a ghost and the login that displaces it; the chain
of three, where the login that displaces is displaced in turn, is in the safety run and
in the proofs only. Three connections over two slots and one slot per host reach both
refusals, with a release in between. Three events let the logger append before, at and after
a torn line or a restart. Four runs of the rotation let failed attempts precede
and follow a successful one. Doors do not interact with each other except
through ports, so one door, two installs racing for it, two ports and unlimited
restarts cover the mixtures of old and new addresses. Two accounts are one in each
tier, or two in one; two callers are two logins with one token, or a SysOp acting on
a member who is logging in; two commands let a panel action follow another session's,
and one lets a SysOp add a key, or promote, while two applicants and `sysopctl` add
theirs (`MaxLoad` in `MCAccounts` cuts what exceeds both).
Three rows are a post, a reply and a reply to it, or a post, a block and a second
post, or mail deleted and sent again; one user behind both sessions happens while a
displaced session lives on. Three uploads under a quota of two reach the quota, a
name given up and taken again, and an id after a deletion. Eight blocks with numbers
modulo four wrap twice, and exceed the receiver's limit by one; four tries stand for the
code's ten, and five keys are one too many for them. Two unprompted answers are as many as
four numbers can bear and the third is one more: on this instance TLC refutes the first
part of `TransferFaithful` without its exception; three tries would be too few to see it.

Bounds inside a specification are named constants: `MaxRuns` (`Rekey`), `MaxTokens`,
`MaxRows` and `MaxCommands` (`Accounts`), `MaxRows` (`Members`: posts, mail and blocks
together), `MaxFiles` (`FileLibrary`), `MaxKeys`, `MaxPokes` and `MaxDamage`
(`Xmodem`). Every other specification is finite because its constants are.

Callers and members of `Sessions`, applicants, sessions of `Content`, filenames, events
and blobs are interchangeable, and the safety runs use that symmetry (none of them checks
a liveness property); the liveness runs do not. Deadlock checking is on for `Doors`, `Content` and
`FileLibrary`, which never stop, and off elsewhere: the other systems may come to
rest, all callers gone, all events logged, the transfer over.

Fairness. Weak fairness of each goroutine's own steps is what the Go scheduler
gives; a goroutine that writes to a client is fair only while that client takes what is
sent. The budget timer fires whatever the caller does. The idle watchdog is bound to fire
only once nobody types, since input postpones it. A client that runs answers
CHANNEL_CLOSE, as RFC 4254 (5.3) demands and the ssh package relies on; a stopped one owes
nothing, and neither TCP keepalive nor a hang-up is assumed to end it. So `DisplacedEnds`,
`IdleEnds` and `BudgetedEnds` except a session that is behind a stopped client again and
again: its own, or, for a login in Enter, the one it displaces. Callers owe nothing either:
`LoginOK`, `Logoff`, `HangUp` and the like are not fair. In
`Listener` the SSH handshake ends because of the deadline on the raw connection
(`HandshakeTimeout` is 10 s in `main.go`); nothing else is assumed of peers.
In `Doors` only the supervise goroutines are fair (a backoff ends); SysOps, boot,
door processes and the operator owe nothing.
In `Xmodem` each end reads as long as there is something to read; terminal and users
owe nothing.

### What the violations show

- `rekey_failure`: `cmd/rekey/main.go:66` says "a mid-run failure leaves the old
  salt (and thus the recoverable old key) in place"; after the database commit the
  old key opens the database no more, and the new salt is only in memory.
- `content_search`: `menu/boards.go:328` filters blocked authors into the array of
  the slice it was given, which for a search result is the cached one. Drawn a second
  time (any key that changes nothing will do), the list shows a post twice.

### Other disagreements met while modelling

The models contain these behaviours; no run asserts the sentences they contradict.

- `session/presence.go:8` says newest-wins "self-heals stale/ghost
  sessions, since a fresh login always kicks a lingering dead one". The login writes its
  notice (`main.go:260`) to the dead one before it closes it; if that client has stopped
  with its TCP connection up, the write waits, and the Close of the ghost's own timers,
  a CHANNEL_CLOSE nobody answers (`transport/ssh.go:181`), does not release it.
- `transport/limits.go:12` calls MaxSessions "total concurrent callers"; it bounds TCP
  connections, and each session channel of an SSH connection is a caller.
- `audit/log.go:8` says "any edit, deletion, or truncation is detectable"; a file that
  lost its last lines verifies.
- `store/sessionlog.go:88` says "a non-nil error means tampering was detected"; a crash
  or a full disk in the middle of a write has the same effect, and for good, since
  later lines chain behind the torn one.
- `menu/sysop.go:188` says "Installed + launched ... callers can play it now"; a second
  install of a supervised door moves the record and the bridge to a new port while the
  running goroutine keeps the old one. `BootSettles` shows that the next restart
  repairs it.
- `menu/sysop.go:342` says "Password cleared — they re-onboard on next login"; no token
  is issued, so they cannot until a SysOp issues one (`StrandedHasCause` has to excuse
  it).
- `store/keys.go:119` calls a fingerprint "unique among active keys"; Add allows one
  account per tier, and a promotion may bring two of one tier together
  (`KeyPerTier` has to excuse it).
- A blob whose row is gone counts against nobody's quota and can be deleted by nobody
  (`RowsMatchBlobs` says when that happens).
- XMODEM with answers from a timer and a damaged last frame: the sender may be a block
  ahead, and EOT then ends a file without its last block (`TransferFaithful` has to
  excuse it).

## 4. Proofs

All theorems hold for every value of the constants allowed by the named assumptions
(`ConstantsAssumption`, `ListenerAssumption`, `AuditAssumption`, `RekeyAssumption`,
`DoorsAssumption`, `AccountsConstants`, `MembersConstants`, `FileLibraryConstants`,
`XmodemConstants`): any number of callers, connections, doors, accounts, posts, files,
blocks, and any value of the bounds. The one theorem with a hypothesis of its own is
`VerifiedIsGenuineAlways`.
None of the properties is inductive by itself. Each proof module defines an invariant
that is, shows that Init implies it and that every action keeps it (one step or lemma per
action), and derives the properties; every invariant was checked with TLC on the
instances of section 3 before it was proved.

`SessionsProofs`. That a node is held once needs the pool's book-keeping, the presence
slot needs tokens to be numbered below `seq` and distinct, and newest-wins needs to know
where every displaced token went. The invariant `IInv` is the conjunction of `TypeOK`,
the properties themselves and these facts. `Next_IInv` shows each action keeps it;
actions that touch only the wire are handled together by one lemma (`QuietStep`).
From `Invariant` follow `TypeCorrect`, `NodesExclusiveAlways`, `RosterExactAlways`,
`PresenceSoundAlways` and `NewestWins`. `Refinement` (Sessions implements
`NodeLeases`) maps what a session holds between Acquire and Release to a lease
and the roster to what is shown, and shows every step to be a step of
`NodeLeases` or a stutter under `IInv`.

`ListenerProofs`. `SlotsExactAlways`: `LInv` says that the connections holding a token
form a finite set whose size is `sem`, the same for each host's count, that the limiter
only meets connections whose host is known, and that on Telnet the one handler runs while
its connection is up (its return is what releases). The set changes by one element with
each acquire and release; nothing is assumed of the number of connections.

`AuditLogProofs`. `TrailAlwaysVerifies`: the invariant says the file and the
history of logged events run in step, each line chained to the one before, and
that a running logger's `prevMAC` is the MAC at the end of the file; the last
part is what a restart must re-establish (`TipRecovered`). Nothing is assumed of
the MAC. `VerifiedIsGenuineAlways` is about files that were cut and altered: the
invariant (`LinesInv`) says that wherever lines and parts of lines have gone, every MAC
in the file is one the logger computed or a damaged one. Under `CollisionFree` (two
different links of a chain never have one MAC, and a damaged MAC is nobody's; the usual
idealisation of HMAC, satisfied by pairing as `PairingIsCollisionFree` shows) a line
that verifies can then only be the link the logger made. `AuditTypeCorrect` comes with it.

`RekeyProofs`. `RotationComplete` and `DBVouches`: the invariant follows the
command's progress (what has moved to the new key at each point) and says that a
database under the salt on disk implies everything is. `RekeyTypeCorrect` is part of it.

`DoorsProofs`. `OneSupervisorAlways`, `ShownIsRecordedAlways`, `BootSettlesAlways` and
the action property `StopIsFinal`. `DInv` adds what the code relies on without saying so:
a thread past its record has one (`PersistedFirst`), stopped goroutines are alive ones,
a daemon that is down has neither threads nor goroutines, RelaunchAll runs alone, and an
install that has written its record is remembered as unsettled. `BootProgress` carries
`BootSettles` through the boot, door by door.

`AccountsProofs`. `AInv` has one part per table. Tokens (`TokensTracked`): a session past
Redeem has its token among the used ones, one before it has none, so the conditional
UPDATE decides (`TokenOnceAlways`), whatever expires meanwhile. Users (`RowsReal`): whoever writes to a row has seen
it. Keys: with one addition at a time per process (`OneAdder`) the tier check made before
an INSERT is still true at the INSERT, or a promotion or a second process is on record
(`CheckStillGood`), hence `KeyPerTierAlways`. Approval: an account approved or about to
be approved has a password, a token that is unused and unexpired, somebody on the way to
giving it one, or an excuse (`GrantsProvided`), hence `StrandedHasCauseAlways`; the last
such token's expiry is an excuse (`ExpiryNoted`). To keep the case analysis
small, lemmas first reduce Next to what a step may do to one table (`UserSteps`,
`KeySteps`), and the invariant's parts are shown from those.

`ContentProofs`. The copies of posts that sessions hold are `Genuine`: their ids were
given out, and a row that still has the id is the copy itself. Ids are never reused, so
a copy stays genuine whatever is posted or deleted meanwhile. `OthersPostsKeptAlways`
follows: the post that Delete finds under the copy's id has the copy's author, and by
`ThreadsIntactAlways` a reply that goes with it has that post for its parent. That a list
drawn and filtered in place holds genuine posts only is lemmas on `Nth`, `ById`, `Kept`
and `Overwritten`. For mail, the row of the id a session has open, if there is one, was
shown, again because ids are not reused: hence `ReadBeforeDeletedAlways`, and
`UnreadIsNewAlways` for the mark that comes late or not at all. `NewSinceVisitAlways` has
an invariant of its own on top (`NewsInv`): no pointer is ahead of the ids given out, and
between markRead's two statements maxID separates the posts that were there from those
written since, so that after the mark the larger of the two numbers separates what the
user has left behind from what he has not.

`FilesProofs`, file library. `LimitsHoldAlways`: uploadMu is held from the check to the return, so
what the check found is still true at the INSERT (`StillAllowed`); deletions without the
lock only lower the sums. `RowsMatchBlobsAlways` needs that a blob is removed after its row
(`RowFirst`), that ids are not given out twice, and that nobody removes the blob of an
upload in progress while its row stays (`PartStays`).

`FilesProofs`, XMODEM. `XmodemTypeCorrect` and `TransferFaithfulAlways`, for files of any
length, any number of tries, damaged frames and timer answers, and any modulus above two.
The property compares the two ends, which only meet through the line, so the invariant
`XInv` says what is on the line. Every frame has a place, its block, and EOT has the place
after the last block. In the order of the line places never fall and rise by at most one
(`LineOrdered`); the last one is what Send wrote last (`LatestLast`). Every read of either
end is answered by one write, so frames and answers under way number at most one, and one
more for each timer answer. What bounds the sender's lead is `LeadBounded`: its place and
all the ACKs under way together are at most one beyond the blocks received, and one more
for each timer answer. An ACK of a new block keeps that, because a block was received; an
ACK of a repeated one keeps it because the frame is at the receiver's place, the places
behind it rise one by one, and their number is bounded. Without damage no place is skipped
(`KeepsUp`). So a frame that arrives is less than `BlockMod` ahead, and its number says
whether it is the block expected or the one before (`SameRemainder`). All of it is claimed
as long as `NumbersSuffice` (no damage, or few enough timer answers), which once false
stays false (`SufficedBefore`). The case analysis is over what a step amounts to
(`SendStep`, `ReceiveStep`), to which lemmas reduce the actions first.

Facts about sums over a set and about the k-th smallest number, which are inductions over
finite sets, are proved by smallest counterexample: the strict subsets of a finite set
are well founded (`FS_StrictSubsetOrderingWellFounded`, `WFMin`), and the set of
counterexamples is an ordinary set.

Model-checked only: the liveness properties (`DisplacedEnds`, `IdleEnds`, `BudgetedEnds`,
`SlotReturned`, `LoopNotWedged`, `KeptAlive`, `TransferEnds`), which need fairness and are
out of the prover's reach. Every safety property of a passing run is proved. The two
violations are counterexamples.

## 5. Not modelled

- Vault primitives: external; the models rest on what they promise.
- Store opening and migrations: run once, before any session.
- Screen rendering, menu layout, pager, formatting: no state the properties
  speak of.
- The daily minutes: sums over calendar time with times compared as strings. `Sessions`
  has the timer; a model of the sum would be about clock values, not steps.
- The Telnet option parser and the input sanitiser: byte-level machines.
- The door launcher and the resident bridge: drop-file formats and a byte relay.
- Bans, points, colours, branding, timeouts, reports, the creation and visibility of
  areas and the download counter: single-statement updates nothing else depends on;
  `Listener` takes the verdict of IsBanned as an input.
- Texts and their editing, sort orders and pages.
- XMODEM's checksum mode, the bytes of a frame, and the trimming of padding, which
  also removes SUB bytes that end a file.

## 6. Plan

The safety that the runs of section 3 show on small instances is proved. Next come the
parts of section 5 whose control is worth a model: the resident bridge, whose two copying
goroutines end in either order, and the daily minutes.
