------------------------------- MODULE Doors -------------------------------
(***************************************************************************)
(* Doors installed from a release URL: the installer                       *)
(* (src/menu/doorinstall.go), run by SysOp sessions and, as RelaunchAll,   *)
(* by the daemon at boot; the supervisor (src/doors/install.go) with one   *)
(* goroutine per door that keeps its process alive; and the two tables     *)
(* that say where a door is, installed_door (what boot relaunches) and     *)
(* door (what callers are bridged to).  The daemon may be shut down or     *)
(* crash at any moment; processes it leaves behind outlive it.             *)
(***************************************************************************)

CONSTANTS
  Names,       \* door names
  Installers,  \* SysOp sessions that install doors
  Boot,        \* the daemon's main goroutine, running RelaunchAll
  Ports,       \* localhost addresses
  Sups,        \* supervise goroutines, enough for one life of the daemon
  NoName, NoPort, NoSup

ASSUME DoorsAssumption ==
  /\ Boot \notin Installers
  /\ NoName \notin Names /\ NoPort \notin Ports /\ NoSup \notin Sups

VARIABLES
  daemon,     \* "down", "boot", "up" or "stopping"
  record,     \* installed_door: name -> address
  registry,   \* door: name -> address
  procs,      \* Supervisor.procs: name -> goroutine
  toBoot,     \* names RelaunchAll has still to do
  pc,         \* pc[t]: where thread t is in Install or RelaunchAll
  door,       \* door[t]: the name t works on
  port,       \* port[t]: the address t works with
  spc,        \* spc[x]: where goroutine x is; "wait": its process runs
  sname,      \* sname[x]: the door x keeps alive
  saddr,      \* saddr[x]: the address x starts it with
  stopped,    \* goroutines whose stop channel is closed
  orphans,    \* addresses of processes left behind by an earlier daemon
  unsettled   \* history: names installed, or given up at boot, in this life

vars == <<daemon, record, registry, procs, toBoot, pc, door, port,
          spc, sname, saddr, stopped, orphans, unsettled>>
tables    == <<record, registry>>
threads   == <<pc, door, port>>
goroutine == <<spc, sname, saddr>>

Threads == Installers \cup {Boot}

TypeOK ==
  /\ daemon \in {"down", "boot", "up", "stopping"}
  /\ record \in [Names -> Ports \cup {NoPort}]
  /\ registry \in [Names -> Ports \cup {NoPort}]
  /\ procs \in [Names -> Sups \cup {NoSup}]
  /\ toBoot \subseteq Names
  /\ pc \in [Threads -> {"idle", "persist", "launch", "register", "done"}]
  /\ door \in [Threads -> Names \cup {NoName}]
  /\ port \in [Threads -> Ports \cup {NoPort}]
  /\ spc \in [Sups -> {"free", "top", "start", "wait", "exited", "backoff"}]
  /\ sname \in [Sups -> Names \cup {NoName}]
  /\ saddr \in [Sups -> Ports \cup {NoPort}]
  /\ stopped \subseteq Sups
  /\ orphans \subseteq Ports
  /\ unsettled \subseteq Names
  /\ \A t \in Threads : pc[t] # "idle" => door[t] \in Names /\ port[t] \in Ports
  /\ \A x \in Sups : spc[x] # "free" => sname[x] \in Names /\ saddr[x] \in Ports

NoThreads ==
  /\ pc' = [t \in Threads |-> "idle"]
  /\ door' = [t \in Threads |-> NoName]
  /\ port' = [t \in Threads |-> NoPort]

Init ==
  /\ daemon = "down"
  /\ record = [n \in Names |-> NoPort]
  /\ registry = [n \in Names |-> NoPort]
  /\ procs = [n \in Names |-> NoSup]
  /\ toBoot = {}
  /\ pc = [t \in Threads |-> "idle"]
  /\ door = [t \in Threads |-> NoName]
  /\ port = [t \in Threads |-> NoPort]
  /\ spc = [x \in Sups |-> "free"]
  /\ sname = [x \in Sups |-> NoName]
  /\ saddr = [x \in Sups |-> NoPort]
  /\ stopped = {}
  /\ orphans = {}
  /\ unsettled = {}

-----------------------------------------------------------------------------
(* Boot *)

\* Mutant: boot goes by names it should look up, recorded or not.
BootUpAll ==
  /\ daemon = "down"
  /\ daemon' = "boot"
  /\ toBoot' = Names
  /\ unsettled' = {}
  /\ UNCHANGED <<tables, procs, threads, goroutine, stopped, orphans>>

\* The daemon starts; RelaunchAll lists the installed doors before any
\* listener is up, or gives them all up when the query fails.
BootUp ==
  /\ daemon = "down"
  /\ daemon' = "boot"
  /\ \/ toBoot' = {n \in Names : record[n] # NoPort} /\ unsettled' = {}
     \/ toBoot' = {} /\ unsettled' = Names
  /\ UNCHANGED <<tables, procs, threads, goroutine, stopped, orphans>>

\* RelaunchAll takes the next door, whose binary is there or downloaded again...
Relaunch(n) ==
  /\ daemon # "down" /\ n \in toBoot /\ pc[Boot] = "idle"
  /\ toBoot' = toBoot \ {n}
  /\ pc' = [pc EXCEPT ![Boot] = "launch"]
  /\ door' = [door EXCEPT ![Boot] = n]
  /\ port' = [port EXCEPT ![Boot] = record[n]]
  /\ UNCHANGED <<daemon, tables, procs, goroutine, stopped, orphans, unsettled>>

\* ...or skips one whose download fails.
SkipDoor(n) ==
  /\ daemon # "down" /\ n \in toBoot /\ pc[Boot] = "idle"
  /\ toBoot' = toBoot \ {n}
  /\ unsettled' = unsettled \cup {n}
  /\ UNCHANGED <<daemon, tables, procs, threads, goroutine, stopped, orphans>>

\* RelaunchAll returns and the listeners start.
BootDone ==
  /\ daemon = "boot" /\ toBoot = {} /\ pc[Boot] = "idle"
  /\ daemon' = "up"
  /\ UNCHANGED <<tables, procs, toBoot, threads, goroutine, stopped, orphans, unsettled>>

-----------------------------------------------------------------------------
(* Install *)

\* Addresses some door's process listens on.
Bound == orphans \cup {saddr[x] : x \in {y \in Sups : spc[y] = "wait"}}

\* A SysOp asks for a door: the release is fetched and the system names a port
\* that is free at this moment.  Sessions exist once RelaunchAll has returned.
PickPort(s, n, p) ==
  /\ daemon \in {"up", "stopping"} /\ toBoot = {} /\ pc[Boot] = "idle"
  /\ pc[s] \in {"idle", "done"}
  /\ p \notin Bound
  /\ pc' = [pc EXCEPT ![s] = "persist"]
  /\ door' = [door EXCEPT ![s] = n]
  /\ port' = [port EXCEPT ![s] = p]
  /\ UNCHANGED <<daemon, tables, procs, toBoot, goroutine, stopped, orphans, unsettled>>

\* Mutant: the record is left for the end, which a crash may never reach.
UpsertNothing(s) ==
  /\ pc[s] = "persist"
  /\ pc' = [pc EXCEPT ![s] = "launch"]
  /\ UNCHANGED <<daemon, tables, procs, toBoot, door, port, goroutine, stopped,
                 orphans, unsettled>>

\* The binary is downloaded and InstalledDoors.Upsert records the door.
Upsert(s) ==
  /\ pc[s] = "persist"
  /\ pc' = [pc EXCEPT ![s] = "launch"]
  /\ record' = [record EXCEPT ![door[s]] = port[s]]
  /\ unsettled' = unsettled \cup {door[s]}
  /\ UNCHANGED <<daemon, registry, procs, toBoot, door, port, goroutine, stopped, orphans>>

\* Supervisor.Launch adds a goroutine for a door...
Spawn(x, n, a) ==
  /\ spc[x] = "free"
  /\ procs' = [procs EXCEPT ![n] = x]
  /\ spc' = [spc EXCEPT ![x] = "top"]
  /\ sname' = [sname EXCEPT ![x] = n]
  /\ saddr' = [saddr EXCEPT ![x] = a]

\* Mutant: a door already supervised is launched again.
LaunchAlways(t) ==
  /\ pc[t] = "launch"
  /\ \E x \in Sups : Spawn(x, door[t], port[t])
  /\ pc' = [pc EXCEPT ![t] = "register"]
  /\ UNCHANGED <<daemon, tables, toBoot, door, port, stopped, orphans, unsettled>>

\* ...unless one supervises it already, whatever address that one has.
Launch(t) ==
  /\ pc[t] = "launch"
  /\ IF procs[door[t]] = NoSup
     THEN \E x \in Sups : Spawn(x, door[t], port[t])
     ELSE UNCHANGED <<procs, goroutine>>
  /\ pc' = [pc EXCEPT ![t] = "register"]
  /\ UNCHANGED <<daemon, tables, toBoot, door, port, stopped, orphans, unsettled>>

\* RelaunchAll goes on to the next door; an installer reports success.
Finished(t) == IF t = Boot THEN "idle" ELSE "done"

\* Mutant: the bridge of a door that is registered already is left as it is.
RegisterNewOnly(t) ==
  /\ pc[t] = "register"
  /\ registry' = [registry EXCEPT ![door[t]] = IF @ = NoPort THEN port[t] ELSE @]
  /\ pc' = [pc EXCEPT ![t] = Finished(t)]
  /\ UNCHANGED <<daemon, record, procs, toBoot, door, port, goroutine, stopped,
                 orphans, unsettled>>

\* Doors.EnsureResidentDoor points the bridge at the address.
Register(t) ==
  /\ pc[t] = "register"
  /\ registry' = [registry EXCEPT ![door[t]] = port[t]]
  /\ pc' = [pc EXCEPT ![t] = Finished(t)]
  /\ UNCHANGED <<daemon, record, procs, toBoot, door, port, goroutine, stopped,
                 orphans, unsettled>>

\* The download, a new door's directory or a statement fails: Install returns
\* the error, RelaunchAll continues with the next door.
GiveUp(t) ==
  /\ pc[t] \in {"persist", "launch", "register"}
  /\ pc[t] = "launch" => procs[door[t]] = NoSup
  /\ pc' = [pc EXCEPT ![t] = "idle"]
  /\ unsettled' = IF t = Boot THEN unsettled \cup {door[t]} ELSE unsettled
  /\ UNCHANGED <<daemon, tables, procs, toBoot, door, port, goroutine, stopped, orphans>>

-----------------------------------------------------------------------------
(* The supervise goroutine *)

SupGoto(x, from, to) ==
  /\ spc[x] = from
  /\ spc' = [spc EXCEPT ![x] = to]
  /\ UNCHANGED <<daemon, tables, procs, toBoot, threads, sname, saddr, stopped,
                 orphans, unsettled>>

\* The goroutine finds its stop channel closed and returns.
SupReturn(x) ==
  /\ x \in stopped /\ spc[x] \in {"top", "exited", "backoff"}
  /\ spc' = [spc EXCEPT ![x] = "free"]
  /\ sname' = [sname EXCEPT ![x] = NoName]
  /\ saddr' = [saddr EXCEPT ![x] = NoPort]
  /\ stopped' = stopped \ {x}
  /\ UNCHANGED <<daemon, tables, procs, toBoot, threads, orphans, unsettled>>

\* Mutant: the stop channel is not looked at before a relaunch.
SupTopUnchecked(x) == SupGoto(x, "top", "start")

\* Not stopped: the command is built and published in sp.cmd.
SupTop(x) == x \notin stopped /\ SupGoto(x, "top", "start")

SupStart(x) == SupGoto(x, "start", "wait")

SupStartFails(x) == SupGoto(x, "start", "exited")

\* The door's process ends, so cmd.Wait returns.
DoorExits(x) == SupGoto(x, "wait", "exited")

SupCheck(x) == x \notin stopped /\ SupGoto(x, "exited", "backoff")

\* Mutant: the backoff select has lost its timer case.
SupBackoffForever(x) == x \in stopped /\ SupGoto(x, "backoff", "top")

\* The backoff is over; a stop that comes at the same time may lose the select.
SupBackoff(x) == SupGoto(x, "backoff", "top")

-----------------------------------------------------------------------------
(* Shutdown, crashes and what they leave *)

\* The signal handler's StopAll: stop every goroutine, kill every process that
\* has been started (one about to start has none yet), forget them all.
StopAll ==
  /\ daemon \in {"boot", "up"}
  /\ daemon' = "stopping"
  /\ LET all == {procs[n] : n \in Names} \ {NoSup}
     IN /\ stopped' = stopped \cup all
        /\ spc' = [x \in Sups |-> IF x \in all /\ spc[x] = "wait"
                                  THEN "exited" ELSE spc[x]]
  /\ procs' = [n \in Names |-> NoSup]
  /\ UNCHANGED <<tables, toBoot, threads, sname, saddr, orphans, unsettled>>

\* os.Exit, or a crash without StopAll: every goroutine is gone, processes that
\* run are not.
Exit ==
  /\ daemon # "down"
  /\ daemon' = "down"
  /\ procs' = [n \in Names |-> NoSup]
  /\ toBoot' = {}
  /\ NoThreads
  /\ spc' = [x \in Sups |-> "free"]
  /\ sname' = [x \in Sups |-> NoName]
  /\ saddr' = [x \in Sups |-> NoPort]
  /\ stopped' = {}
  /\ orphans' = Bound
  /\ unsettled' = {}
  /\ UNCHANGED tables

OrphanExits(p) ==
  /\ p \in orphans
  /\ orphans' = orphans \ {p}
  /\ UNCHANGED <<daemon, tables, procs, toBoot, threads, goroutine, stopped, unsettled>>

-----------------------------------------------------------------------------

Supervise(x) ==
  \/ SupTop(x) \/ SupStart(x) \/ SupStartFails(x)
  \/ SupCheck(x) \/ SupBackoff(x) \/ SupReturn(x)

Install(t) == Launch(t) \/ Register(t) \/ GiveUp(t)

Next ==
  \/ BootUp \/ BootDone \/ StopAll \/ Exit
  \/ \E n \in Names : Relaunch(n) \/ SkipDoor(n)
  \/ \E s \in Installers :
       \/ \E n \in Names, p \in Ports : PickPort(s, n, p)
       \/ Upsert(s)
  \/ \E t \in Threads : Install(t)
  \/ \E x \in Sups : Supervise(x) \/ DoorExits(x)
  \/ \E p \in Ports : OrphanExits(p)

Spec == Init /\ [][Next]_vars

\* Goroutines run and a backoff ends; nothing is assumed of SysOps, of door
\* processes or of the operator.
Fairness == \A x \in Sups : WF_vars(Supervise(x))

FairSpec == Spec /\ Fairness

-----------------------------------------------------------------------------
(* Properties *)

\* A door never has two goroutines relaunching it against each other: the one
\* in procs is alive, unstopped and of that name, and every other goroutine of
\* the door has been stopped.
OneSupervisor ==
  /\ \A x \in Sups : spc[x] # "free" /\ x \notin stopped =>
       sname[x] \in Names /\ procs[sname[x]] = x
  /\ \A n \in Names : procs[n] # NoSup =>
       /\ spc[procs[n]] # "free" /\ procs[n] \notin stopped
       /\ sname[procs[n]] = n

\* Wherever the daemon dies, a door that callers can see or that is running is
\* one the next boot knows of.
ShownIsRecorded ==
  \A n \in Names : registry[n] # NoPort \/ procs[n] # NoSup => record[n] # NoPort

\* A restart settles whatever earlier installs left: until the next install, a
\* door that boot did not give up is bridged to the address it is supervised
\* at, which is the recorded one.
BootSettles ==
  daemon = "up" =>
    \A n \in Names \ unsettled : record[n] # NoPort =>
      /\ registry[n] = record[n]
      /\ procs[n] # NoSup /\ saddr[procs[n]] = record[n]

\* A stopped goroutine never starts its door again, only finishes a start it
\* had begun.
StopEndsRelaunching ==
  [][\A x \in stopped \cap stopped' : spc'[x] = "start" => spc[x] = "start"]_vars

\* A door that exits is started again, unless it has been stopped.
KeptAlive == \A x \in Sups : spc[x] = "exited" ~> spc[x] \in {"start", "free"}
=============================================================================
