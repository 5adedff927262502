---------------------------- MODULE DoorsProofs ----------------------------
(* Proofs about Doors, for any doors, installers, ports and goroutines. *)
EXTENDS Doors, TLAPS

\* What RelaunchAll has listed has an address to relaunch it at.
ListedHasAddress == \A n \in toBoot : record[n] # NoPort

\* A door is launched and registered only once it is recorded.
PersistedFirst ==
  \A t \in Threads : pc[t] \in {"launch", "register"} => record[door[t]] # NoPort

\* A goroutine with a closed stop channel has not returned yet.
StoppedAlive == \A x \in stopped : spc[x] # "free"

\* A daemon that is down has no threads and no goroutines.
DownIsEmpty ==
  daemon = "down" =>
    /\ toBoot = {} /\ stopped = {}
    /\ \A t \in Threads : pc[t] = "idle"
    /\ \A n \in Names : procs[n] = NoSup
    /\ \A x \in Sups : spc[x] = "free"

\* RelaunchAll runs alone: sessions come after it, and it is over once the
\* listeners are up.  The door it is at is off its list.
BootAlone ==
  /\ daemon = "boot" => \A s \in Installers : pc[s] = "idle"
  /\ daemon = "up" => toBoot = {} /\ pc[Boot] = "idle"
  /\ pc[Boot] # "idle" => door[Boot] \notin toBoot

\* An install that has reached the record is remembered as unsettled.
InstallUnsettles ==
  \A s \in Installers : pc[s] \in {"launch", "register"} => door[s] \in unsettled

\* n is supervised at its recorded address.
Supervised(n) == procs[n] # NoSup /\ saddr[procs[n]] = record[n]

\* Where RelaunchAll is with a recorded door that it has not given up: not
\* there yet, at its launch, at its registration, or done with it.
BootAt(n) ==
  \/ n \in toBoot /\ procs[n] = NoSup
  \/ pc[Boot] = "launch" /\ door[Boot] = n /\ procs[n] = NoSup
  \/ pc[Boot] = "register" /\ door[Boot] = n /\ Supervised(n)
  \/ registry[n] = record[n] /\ Supervised(n)

BootProgress ==
  daemon = "boot" =>
    /\ pc[Boot] # "idle" => port[Boot] = record[door[Boot]]
    /\ \A n \in Names \ unsettled : record[n] # NoPort => BootAt(n)

\* The inductive invariant.
DInv ==
  /\ TypeOK
  /\ OneSupervisor /\ ShownIsRecorded /\ BootSettles
  /\ ListedHasAddress /\ PersistedFirst /\ StoppedAlive /\ DownIsEmpty
  /\ BootAlone /\ InstallUnsettles /\ BootProgress

\* Before the first boot nothing is recorded or running.
LEMMA DoorsInit == Init => DInv
  BY DoorsAssumption
  DEF Init, DInv, TypeOK, OneSupervisor, ShownIsRecorded, BootSettles, ListedHasAddress,
      PersistedFirst, StoppedAlive, DownIsEmpty, BootAlone, InstallUnsettles, BootProgress,
      Threads

-----------------------------------------------------------------------------
(* Preservation, action by action *)

\* RelaunchAll: start, one door, end
LEMMA BootSteps ==
  ASSUME DInv, BootUp \/ BootDone \/ (\E n \in Names : Relaunch(n) \/ SkipDoor(n))
  PROVE  DInv'
<1> USE DoorsAssumption DEF DInv, tables, threads, goroutine, Threads
<1>1. CASE BootUp
  <2> USE <1>1 DEF BootUp
  <2>1. TypeOK'  BY DEF TypeOK
  <2>2. OneSupervisor' /\ ShownIsRecorded' /\ BootSettles'
    BY DEF OneSupervisor, ShownIsRecorded, BootSettles
  <2>3. ListedHasAddress' /\ PersistedFirst' /\ StoppedAlive' /\ DownIsEmpty'
    BY DEF ListedHasAddress, PersistedFirst, StoppedAlive, DownIsEmpty
  <2>4. BootAlone' /\ InstallUnsettles'
    BY DEF BootAlone, InstallUnsettles, DownIsEmpty
  <2>5. BootProgress'  BY DEF BootProgress, BootAt, DownIsEmpty
  <2> QED BY <2>1, <2>2, <2>3, <2>4, <2>5
<1>2. CASE BootDone
  <2> USE <1>2 DEF BootDone
  <2>1. TypeOK'  BY DEF TypeOK
  <2>2. OneSupervisor' /\ ShownIsRecorded'
    BY DEF OneSupervisor, ShownIsRecorded
  <2>3. BootSettles'  BY DEF BootSettles, BootProgress, BootAt, Supervised
  <2>4. ListedHasAddress' /\ PersistedFirst' /\ StoppedAlive' /\ DownIsEmpty'
    BY DEF ListedHasAddress, PersistedFirst, StoppedAlive, DownIsEmpty
  <2>5. BootAlone' /\ InstallUnsettles' /\ BootProgress'
    BY DEF BootAlone, InstallUnsettles, BootProgress
  <2> QED BY <2>1, <2>2, <2>3, <2>4, <2>5
<1>3. ASSUME NEW n \in Names, Relaunch(n) PROVE DInv'
  <2> USE <1>3 DEF Relaunch
  <2>1. TypeOK'  BY DEF TypeOK, ListedHasAddress
  <2>2. OneSupervisor' /\ ShownIsRecorded' /\ BootSettles'
    BY DEF OneSupervisor, ShownIsRecorded, BootSettles
  <2>3. ListedHasAddress' /\ StoppedAlive' /\ DownIsEmpty'
    BY DEF ListedHasAddress, StoppedAlive, DownIsEmpty
  <2>4. PersistedFirst'  BY DEF PersistedFirst, ListedHasAddress, TypeOK
  <2>5. BootAlone' /\ InstallUnsettles'
    BY DEF BootAlone, InstallUnsettles, TypeOK
  <2>6. BootProgress'  BY DEF BootProgress, BootAt, Supervised, TypeOK
  <2> QED BY <2>1, <2>2, <2>3, <2>4, <2>5, <2>6
<1>4. ASSUME NEW n \in Names, SkipDoor(n) PROVE DInv'
  <2> USE <1>4 DEF SkipDoor
  <2>1. TypeOK'  BY DEF TypeOK
  <2>2. OneSupervisor' /\ ShownIsRecorded' /\ BootSettles'
    BY DEF OneSupervisor, ShownIsRecorded, BootSettles
  <2>3. ListedHasAddress' /\ PersistedFirst' /\ StoppedAlive' /\ DownIsEmpty'
    BY DEF ListedHasAddress, PersistedFirst, StoppedAlive, DownIsEmpty
  <2>4. BootAlone' /\ InstallUnsettles'
    BY DEF BootAlone, InstallUnsettles
  <2>5. BootProgress'  BY DEF BootProgress, BootAt, Supervised
  <2> QED BY <2>1, <2>2, <2>3, <2>4, <2>5
<1> QED BY <1>1, <1>2, <1>3, <1>4

\* Install up to its record: the port, the row
LEMMA InstallSteps ==
  ASSUME DInv, NEW s \in Installers,
         Upsert(s) \/ (\E n \in Names, p \in Ports : PickPort(s, n, p))
  PROVE  DInv'
<1> USE DoorsAssumption DEF DInv, tables, threads, goroutine, Threads
<1>1. ASSUME NEW n \in Names, NEW p \in Ports, PickPort(s, n, p) PROVE DInv'
  <2> USE <1>1 DEF PickPort
  <2>1. TypeOK'  BY DEF TypeOK
  <2>2. OneSupervisor' /\ ShownIsRecorded' /\ BootSettles'
    BY DEF OneSupervisor, ShownIsRecorded, BootSettles
  <2>3. ListedHasAddress' /\ StoppedAlive' /\ DownIsEmpty'
    BY DEF ListedHasAddress, StoppedAlive, DownIsEmpty
  <2>4. PersistedFirst' /\ InstallUnsettles'
    BY DEF PersistedFirst, InstallUnsettles, TypeOK
  <2>5. BootAlone' /\ BootProgress'
    BY DEF BootAlone, BootProgress, TypeOK
  <2> QED BY <2>1, <2>2, <2>3, <2>4, <2>5
<1>2. CASE Upsert(s)
  <2> USE <1>2 DEF Upsert
  <2>0. door[s] \in Names /\ port[s] \in Ports
    BY DEF TypeOK
  <2>1. TypeOK'  BY <2>0 DEF TypeOK
  <2>2. OneSupervisor'  BY DEF OneSupervisor
  <2>3. ShownIsRecorded' /\ ListedHasAddress' /\ PersistedFirst'
    BY <2>0 DEF ShownIsRecorded, ListedHasAddress, PersistedFirst, TypeOK
  <2>4. BootSettles'  BY <2>0 DEF BootSettles, TypeOK
  <2>5. StoppedAlive' /\ DownIsEmpty'  BY DEF StoppedAlive, DownIsEmpty
  <2>6. InstallUnsettles'  BY DEF InstallUnsettles, TypeOK
  <2>7. BootAlone' /\ BootProgress'
    BY DEF BootAlone, BootProgress, TypeOK
  <2> QED BY <2>1, <2>2, <2>3, <2>4, <2>5, <2>6, <2>7
<1> QED BY <1>1, <1>2

\* The step Supervisor.Launch takes when nobody supervises the door.
LEMMA SpawnStep ==
  ASSUME DInv, NEW t \in Threads, NEW x \in Sups, Launch(t),
         procs[door[t]] = NoSup, Spawn(x, door[t], port[t])
  PROVE  DInv'
<1> USE DoorsAssumption DEF DInv, tables, Threads, Launch, Spawn
<1>0. door[t] \in Names /\ port[t] \in Ports /\ x \notin stopped
  BY DEF TypeOK, StoppedAlive
<1>1. TypeOK'  BY <1>0 DEF TypeOK
<1>2. OneSupervisor'
  <2>1. ASSUME NEW y \in Sups, spc'[y] # "free", y \notin stopped
        PROVE  sname'[y] \in Names /\ procs'[sname'[y]] = y
    <3>1. CASE y = x  BY <1>0, <3>1 DEF TypeOK
    <3>2. CASE y # x
      <4>1. spc[y] # "free" /\ sname'[y] = sname[y]  BY <2>1, <3>2 DEF TypeOK
      <4>2. sname[y] \in Names /\ procs[sname[y]] = y  BY <2>1, <4>1 DEF OneSupervisor
      <4> QED BY <1>0, <4>1, <4>2 DEF TypeOK
    <3> QED BY <3>1, <3>2
  <2>2. ASSUME NEW n \in Names, procs'[n] # NoSup
        PROVE  /\ spc'[procs'[n]] # "free" /\ procs'[n] \notin stopped
               /\ sname'[procs'[n]] = n
    <3>1. CASE n = door[t]  BY <1>0, <3>1 DEF TypeOK
    <3>2. CASE n # door[t]
      <4>1. procs'[n] = procs[n] /\ procs[n] # x
        BY <2>2, <3>2 DEF TypeOK, OneSupervisor
      <4> QED BY <2>2, <4>1 DEF TypeOK, OneSupervisor
    <3> QED BY <3>1, <3>2
  <2> QED BY <2>1, <2>2 DEF OneSupervisor
<1>3. ShownIsRecorded'
  BY <1>0 DEF ShownIsRecorded, PersistedFirst, TypeOK
<1>4. \A n \in Names \ {door[t]} :
        procs'[n] = procs[n] /\ (procs[n] # NoSup => saddr'[procs[n]] = saddr[procs[n]])
  BY <1>0 DEF TypeOK, OneSupervisor
<1>5. BootSettles'
  BY <1>0, <1>4 DEF BootSettles, TypeOK
<1>6. ListedHasAddress' /\ PersistedFirst' /\ InstallUnsettles'
  BY DEF ListedHasAddress, PersistedFirst, InstallUnsettles, TypeOK
<1>7. StoppedAlive' /\ DownIsEmpty' /\ BootAlone'
  BY <1>0 DEF StoppedAlive, DownIsEmpty, BootAlone, TypeOK
<1>8. BootProgress'
  <2> SUFFICES ASSUME daemon = "boot", NEW n \in Names \ unsettled, record[n] # NoPort
               PROVE  BootAt(n)'
    BY DEF BootProgress, BootAlone
  <2>1. t = Boot /\ BootAt(n)
    BY DEF BootAlone, BootProgress
  <2>2. CASE n = door[t]
    <3>1. pc'[Boot] = "register" /\ procs'[n] = x /\ saddr'[x] = port[t]
      BY <1>0, <2>1, <2>2 DEF TypeOK
    <3>2. port[t] = record[n]
      BY <2>1, <2>2 DEF BootProgress
    <3> QED BY <2>1, <2>2, <3>1, <3>2 DEF BootAt, Supervised, TypeOK
  <2>3. CASE n # door[t]
    BY <1>4, <2>1, <2>3 DEF BootAt, Supervised
  <2> QED BY <2>2, <2>3
<1> QED BY <1>1, <1>2, <1>3, <1>5, <1>6, <1>7, <1>8

\* Install and RelaunchAll from Launch on
LEMMA ThreadSteps ==
  ASSUME DInv, NEW t \in Threads, Install(t) PROVE DInv'
<1> USE DoorsAssumption DEF DInv, tables, threads, goroutine, Threads
<1>1. CASE Launch(t)
  <2>1. CASE procs[door[t]] = NoSup
    BY <1>1, <2>1, SpawnStep DEF Launch
  <2>2. CASE procs[door[t]] # NoSup
    <3> USE <1>1, <2>2 DEF Launch
    <3>1. TypeOK' /\ OneSupervisor' /\ ShownIsRecorded' /\ BootSettles'
      BY DEF TypeOK, OneSupervisor, ShownIsRecorded, BootSettles
    <3>2. ListedHasAddress' /\ StoppedAlive' /\ DownIsEmpty'
      BY DEF ListedHasAddress, StoppedAlive, DownIsEmpty
    <3>3. PersistedFirst' /\ InstallUnsettles'
      BY DEF PersistedFirst, InstallUnsettles, TypeOK
    <3>4. BootAlone'  BY DEF BootAlone, TypeOK
    <3>5. BootProgress'
      BY DEF BootProgress, BootAt, Supervised, BootAlone, TypeOK
    <3> QED BY <3>1, <3>2, <3>3, <3>4, <3>5
  <2> QED BY <2>1, <2>2
<1>2. CASE Register(t)
  <2> USE <1>2 DEF Register, Finished
  <2>0. door[t] \in Names /\ port[t] \in Ports
    BY DEF TypeOK
  <2>1. TypeOK' /\ OneSupervisor'  BY <2>0 DEF TypeOK, OneSupervisor
  <2>2. ShownIsRecorded'  BY <2>0 DEF ShownIsRecorded, PersistedFirst, TypeOK
  <2>3. BootSettles'  BY <2>0 DEF BootSettles, BootAlone, InstallUnsettles, TypeOK
  <2>4. ListedHasAddress' /\ StoppedAlive' /\ DownIsEmpty'
    BY DEF ListedHasAddress, StoppedAlive, DownIsEmpty
  <2>5. PersistedFirst' /\ InstallUnsettles' /\ BootAlone'
    BY DEF PersistedFirst, InstallUnsettles, BootAlone, TypeOK
  <2>6. BootProgress'
    BY <2>0 DEF BootProgress, BootAt, Supervised, BootAlone, TypeOK
  <2> QED BY <2>1, <2>2, <2>3, <2>4, <2>5, <2>6
<1>3. CASE GiveUp(t)
  <2> USE <1>3 DEF GiveUp
  <2>1. TypeOK' /\ OneSupervisor' /\ ShownIsRecorded' /\ BootSettles'
    BY DEF TypeOK, OneSupervisor, ShownIsRecorded, BootSettles
  <2>2. ListedHasAddress' /\ StoppedAlive' /\ DownIsEmpty'
    BY DEF ListedHasAddress, StoppedAlive, DownIsEmpty
  <2>3. PersistedFirst' /\ InstallUnsettles' /\ BootAlone'
    BY DEF PersistedFirst, InstallUnsettles, BootAlone, TypeOK
  <2>4. BootProgress'
    BY DEF BootProgress, BootAt, Supervised, BootAlone, TypeOK
  <2> QED BY <2>1, <2>2, <2>3, <2>4
<1> QED BY <1>1, <1>2, <1>3 DEF Install

\* A supervise goroutine and its process
LEMMA GoroutineSteps ==
  ASSUME DInv, NEW x \in Sups, Supervise(x) \/ DoorExits(x) PROVE DInv'
<1> USE DoorsAssumption DEF DInv, tables, threads, Threads
<1>1. ASSUME NEW from, NEW to \in {"top", "start", "wait", "exited", "backoff"},
             from # "free", SupGoto(x, from, to)
      PROVE  DInv'
  <2> USE <1>1 DEF SupGoto
  <2>1. TypeOK' /\ OneSupervisor'  BY DEF TypeOK, OneSupervisor
  <2>2. ShownIsRecorded' /\ BootSettles' /\ ListedHasAddress' /\ PersistedFirst'
    BY DEF ShownIsRecorded, BootSettles, ListedHasAddress, PersistedFirst
  <2>3. StoppedAlive' /\ DownIsEmpty'
    BY DEF StoppedAlive, DownIsEmpty, TypeOK
  <2>4. BootAlone' /\ InstallUnsettles' /\ BootProgress'
    BY DEF BootAlone, InstallUnsettles, BootProgress, BootAt, Supervised
  <2> QED BY <2>1, <2>2, <2>3, <2>4
<1>2. CASE SupReturn(x)
  <2> USE <1>2 DEF SupReturn
  <2>0. \A n \in Names : procs[n] # x
    BY DEF OneSupervisor, TypeOK
  <2>1. TypeOK' /\ OneSupervisor'  BY <2>0 DEF TypeOK, OneSupervisor
  <2>2. ShownIsRecorded' /\ ListedHasAddress' /\ PersistedFirst'
    BY DEF ShownIsRecorded, ListedHasAddress, PersistedFirst
  <2>3. BootSettles'  BY <2>0 DEF BootSettles, TypeOK
  <2>4. StoppedAlive' /\ DownIsEmpty'
    BY DEF StoppedAlive, DownIsEmpty, TypeOK
  <2>5. BootAlone' /\ InstallUnsettles'
    BY DEF BootAlone, InstallUnsettles
  <2>6. BootProgress'
    BY <2>0 DEF BootProgress, BootAt, Supervised, TypeOK
  <2> QED BY <2>1, <2>2, <2>3, <2>4, <2>5, <2>6
<1> QED BY <1>1, <1>2 DEF Supervise, SupTop, SupStart, SupStartFails, SupCheck,
                          SupBackoff, DoorExits

\* StopAll, the end of the daemon, the end of an orphan
LEMMA StopSteps ==
  ASSUME DInv, StopAll \/ Exit \/ (\E p \in Ports : OrphanExits(p)) PROVE DInv'
<1> USE DoorsAssumption DEF DInv, tables, threads, goroutine, Threads
<1>1. CASE StopAll
  <2> DEFINE all == {procs[n] : n \in Names} \ {NoSup}
  <2>0. /\ daemon' = "stopping" /\ stopped' = stopped \cup all
        /\ spc' = [x \in Sups |-> IF x \in all /\ spc[x] = "wait" THEN "exited" ELSE spc[x]]
        /\ procs' = [n \in Names |-> NoSup]
        /\ UNCHANGED <<record, registry, toBoot, pc, door, port, sname, saddr, orphans,
                       unsettled>>
    BY <1>1 DEF StopAll
  <2>1. all \subseteq Sups /\ \A x \in all : spc[x] # "free"
    BY DEF TypeOK, OneSupervisor
  <2> HIDE DEF all
  <2>2. TypeOK'  BY <2>0, <2>1 DEF TypeOK
  <2>3. OneSupervisor'
    <3>1. ASSUME NEW x \in Sups, spc[x] # "free", x \notin stopped PROVE x \in all
      BY <3>1 DEF OneSupervisor, all
    <3> QED BY <2>0, <3>1 DEF OneSupervisor, TypeOK
  <2>4. ShownIsRecorded' /\ BootSettles' /\ ListedHasAddress' /\ PersistedFirst'
    BY <2>0 DEF ShownIsRecorded, BootSettles, ListedHasAddress, PersistedFirst
  <2>5. StoppedAlive' /\ DownIsEmpty'
    BY <2>0, <2>1 DEF StoppedAlive, DownIsEmpty, TypeOK
  <2>6. BootAlone' /\ InstallUnsettles' /\ BootProgress'
    BY <2>0 DEF BootAlone, InstallUnsettles, BootProgress
  <2> QED BY <2>2, <2>3, <2>4, <2>5, <2>6
<1>2. CASE Exit
  <2> USE <1>2 DEF Exit, NoThreads
  <2>1. TypeOK'  BY DEF TypeOK, Bound
  <2>2. OneSupervisor' /\ ShownIsRecorded' /\ BootSettles'
    BY DEF OneSupervisor, ShownIsRecorded, BootSettles
  <2>3. ListedHasAddress' /\ PersistedFirst' /\ StoppedAlive' /\ DownIsEmpty'
    BY DEF ListedHasAddress, PersistedFirst, StoppedAlive, DownIsEmpty
  <2>4. BootAlone' /\ InstallUnsettles' /\ BootProgress'
    BY DEF BootAlone, InstallUnsettles, BootProgress
  <2> QED BY <2>1, <2>2, <2>3, <2>4
<1>3. ASSUME NEW p \in Ports, OrphanExits(p) PROVE DInv'
  BY <1>3 DEF OrphanExits, TypeOK, OneSupervisor, ShownIsRecorded, BootSettles,
              ListedHasAddress, PersistedFirst, StoppedAlive, DownIsEmpty, BootAlone,
              InstallUnsettles, BootProgress, BootAt, Supervised
<1> QED BY <1>1, <1>2, <1>3

\* Any step keeps the inductive invariant.
LEMMA DoorsStep == ASSUME DInv, [Next]_vars PROVE DInv'
<1>1. CASE UNCHANGED vars
  BY <1>1 DEF vars, DInv, TypeOK, OneSupervisor, ShownIsRecorded, BootSettles,
              ListedHasAddress, PersistedFirst, StoppedAlive, DownIsEmpty, BootAlone,
              InstallUnsettles, BootProgress, BootAt, Supervised
<1>2. CASE Next
  BY <1>2, BootSteps, InstallSteps, ThreadSteps, GoroutineSteps, StopSteps DEF Next
<1> QED BY <1>1, <1>2

-----------------------------------------------------------------------------
(* Theorems *)

\* The inductive invariant of installer, supervisor and door tables, over any number of
\* boots and crashes (doors/install.go, menu/doorinstall.go).
THEOREM DoorsInvariant == Spec => []DInv
  BY DoorsInit, DoorsStep, PTL DEF Spec

\* Every variable keeps its type; in particular RelaunchAll never starts a door
\* without an address, and a live goroutine has a door and an address.
THEOREM DoorsTypeCorrect == Spec => []TypeOK
  BY DoorsInvariant, PTL DEF DInv

\* However installs, boots, stops and crashes interleave, at most one goroutine that
\* has not been stopped keeps a door alive, and it is the one Launch goes by.
THEOREM OneSupervisorAlways == Spec => []OneSupervisor
  BY DoorsInvariant, PTL DEF DInv

\* Wherever the daemon dies, the next boot knows every door that is shown or runs.
THEOREM ShownIsRecordedAlways == Spec => []ShownIsRecorded
  BY DoorsInvariant, PTL DEF DInv

\* Once the listeners are up, a door that boot did not give up and nobody has
\* installed since is bridged to the address it runs at.
THEOREM BootSettlesAlways == Spec => []BootSettles
  BY DoorsInvariant, PTL DEF DInv

\* A goroutine whose stop channel is closed never builds another command.
THEOREM StopIsFinal == Spec => StopEndsRelaunching
<1> DEFINE A == \A x \in stopped \cap stopped' : spc'[x] = "start" => spc[x] = "start"
<1>1. ASSUME TypeOK, [Next]_vars PROVE A
  <2> SUFFICES ASSUME NEW x \in stopped, x \in stopped', spc'[x] = "start"
               PROVE  spc[x] = "start"
    OBVIOUS
  <2>1. x \in Sups /\ spc \in [Sups -> {"free", "top", "start", "wait", "exited", "backoff"}]
    BY <1>1 DEF TypeOK
  <2>2. CASE UNCHANGED spc
    BY <2>2
  <2>3. CASE Exit \/ StopAll
    BY <2>1, <2>3 DEF Exit, StopAll
  <2>4. ASSUME NEW t \in Threads, Launch(t) PROVE spc[x] = "start"
    BY <2>1, <2>4 DEF Launch, Spawn, goroutine
  <2>5. ASSUME NEW y \in Sups, Supervise(y) \/ DoorExits(y) PROVE spc[x] = "start"
    BY <2>1, <2>5 DEF Supervise, SupTop, SupStart, SupStartFails, SupCheck, SupBackoff,
                      SupReturn, DoorExits, SupGoto
  <2> QED BY <1>1, <2>2, <2>3, <2>4, <2>5
          DEF Next, vars, goroutine, BootUp, BootDone, Relaunch, SkipDoor, PickPort,
              Upsert, Install, Register, GiveUp, OrphanExits
<1> QED BY <1>1, DoorsTypeCorrect, PTL DEF Spec, StopEndsRelaunching
=============================================================================
