------------------------ MODULE LocalTransportProofs ------------------------
(***************************************************************************)
(* The two singletons of the daemon, proved for every number of processes, *)
(* clients, requests and faults, and for every number of times the runtime *)
(* root is cleared by hand.                                                *)
(***************************************************************************)
EXTENDS LocalTransport, TLAPS

\* The phases in which a process has the lock on the file it opened.
Leasing == {"leased", "stale", "removing", "cleared", "bound", "refused", "recovering", "serving",
            "draining", "dropping", "unlinking", "releasing"}

Phases == Leasing \cup {"off", "starting", "admitted", "opened", "closing"}

TransportTypeOK ==
    /\ phase \in [Daemons -> Phases]
    /\ held \in [Daemons -> Epochs]
    /\ asked \in [Daemons -> Epochs]
    /\ flock \in [Epochs -> Daemons \cup {Nobody}]
    /\ token \in Daemons \cup {Nobody}
    /\ epoch \in Epochs
    /\ socket \in Daemons \cup {Nobody}
    /\ daemonLock \in Daemons \cup {Nobody, Ghost}
    /\ broken \subseteq Daemons

\* A process past the lease has the lock of its own file ...
LeaseHeld == \A d \in Daemons : phase[d] \in Leasing => flock[held[d]] = d

\* ... and the lock of a file has only a process that is past the lease on it.
LeaseOwned ==
    \A e \in Epochs : flock[e] \in Daemons => phase[flock[e]] \in Leasing /\ held[flock[e]] = e

\* A resident process has the advisory lock, or lost the session that held it.
DatabaseHeld == \A d \in Daemons : Resident(d) => daemonLock = d \/ d \in broken

\* A process that is about to unlink a path asked while its own lock file was the
\* one at the path.
AskedOwned ==
    \A d \in Daemons : phase[d] \in {"removing", "unlinking"} => asked[d] = held[d]

TransportInv == TransportTypeOK /\ LeaseHeld /\ LeaseOwned /\ DatabaseHeld /\ AskedOwned

\* The program's steps that only the daemon d takes part in.
DaemonStep(d) ==
    StartDaemon(d) \/ StartupStep(d) \/ ShutdownStep(d) \/ KillDaemon(d) \/ AcceptFails(d)

\* The exchanges touch neither of the locks nor the phase of a daemon.
LEMMA ExchangesApart ==
    ASSUME NEW c \in Clients,
           SendCommand(c) \/ SendShutdown(c) \/ HandlerStep(c) \/ ClientGivesUp(c)
             \/ CloseExchange(c)
    PROVE  UNCHANGED <<phase, locks, socket, daemonLock, broken>>
BY DEF SendCommand, SendShutdown, SendRequest, HandlerStep, AcceptRequest, ResetQueued,
       DispatchCommand, OperationDeadline, Answer, ClientGivesUp, CloseExchange

\* What the locks are about is a function of these variables alone.
LEMMA TransportFrame ==
    ASSUME TransportInv, UNCHANGED <<phase, locks, socket, daemonLock, broken>>
    PROVE  TransportInv'
BY DEF TransportInv, TransportTypeOK, LeaseHeld, LeaseOwned, DatabaseHeld, AskedOwned,
       Resident, locks

\* A process that ends without a lease leaves every lock as it is.
LEMMA GoneWithoutLease ==
    ASSUME TransportInv, NEW d \in Daemons, phase[d] \notin Leasing,
           Gone(d), UNCHANGED <<flock, token, epoch, socket>>,
           UNCHANGED daemonLock \/ LeaveSession(d)
    PROVE  TransportInv'
<1>1. \A x \in Daemons : x # d => phase'[x] = phase[x] /\ held'[x] = held[x]
    BY DEF Gone, TransportInv, TransportTypeOK
<1>2. phase'[d] = "off" /\ broken' = broken \ {d}
    BY DEF Gone, TransportInv, TransportTypeOK
<1>3. \A e \in Epochs : flock[e] # d
    BY DEF TransportInv, LeaseOwned
<1>4. \A x \in Daemons : x # d /\ daemonLock = x => daemonLock' = x
    BY DEF LeaveSession
<1>5. 0 \in Epochs
    BY DaemonsAssumption DEF Epochs
<1>6. TransportTypeOK'
    BY <1>5 DEF Gone, LeaveSession, TransportInv, TransportTypeOK, Phases
<1>7. LeaseHeld'
    BY <1>1, <1>2 DEF TransportInv, LeaseHeld, Leasing
<1>8. LeaseOwned'
    BY <1>1, <1>3 DEF TransportInv, TransportTypeOK, LeaseOwned
<1>9. DatabaseHeld'
    BY <1>1, <1>2, <1>4 DEF TransportInv, DatabaseHeld, Resident
<1>10. AskedOwned'
    BY <1>1, <1>2 DEF Gone, TransportInv, TransportTypeOK, AskedOwned
<1> QED BY <1>6, <1>7, <1>8, <1>9, <1>10 DEF TransportInv

\* A process that ends with its lease frees the lock of its own file only.
LEMMA GoneWithLease ==
    ASSUME TransportInv, NEW d \in Daemons,
           Gone(d), Unflock(d), UNCHANGED <<token, epoch, socket>>,
           UNCHANGED daemonLock \/ LeaveSession(d)
    PROVE  TransportInv'
<1>1. \A x \in Daemons : x # d => phase'[x] = phase[x] /\ held'[x] = held[x]
    BY DEF Gone, TransportInv, TransportTypeOK
<1>2. phase'[d] = "off" /\ broken' = broken \ {d}
    BY DEF Gone, TransportInv, TransportTypeOK
<1>3. \A e \in Epochs : flock'[e] = IF flock[e] = d THEN Nobody ELSE flock[e]
    BY DEF Unflock
<1>4. \A x \in Daemons : x # d /\ daemonLock = x => daemonLock' = x
    BY DEF LeaveSession
<1>5. 0 \in Epochs
    BY DaemonsAssumption DEF Epochs
<1>6. TransportTypeOK'
    BY <1>5 DEF Gone, Unflock, LeaveSession, TransportInv, TransportTypeOK, Phases
<1>7. LeaseHeld'
    BY <1>1, <1>2, <1>3 DEF TransportInv, TransportTypeOK, LeaseHeld, Leasing
<1>8. LeaseOwned'
    BY <1>1, <1>3, DaemonsAssumption DEF TransportInv, TransportTypeOK, LeaseOwned
<1>9. DatabaseHeld'
    BY <1>1, <1>2, <1>4 DEF TransportInv, DatabaseHeld, Resident
<1>10. AskedOwned'
    BY <1>1, <1>2 DEF Gone, TransportInv, TransportTypeOK, AskedOwned
<1> QED BY <1>6, <1>7, <1>8, <1>9, <1>10 DEF TransportInv

\* A process that only moves to its next phase: it neither takes nor leaves the
\* lease, it becomes resident only with the advisory lock, and it unlinks a path
\* only when it asked and its lock file was the path's own.
LEMMA PhaseStep ==
    ASSUME TransportInv, NEW d \in Daemons, NEW next \in Phases, NEW at \in Epochs,
           phase' = [phase EXCEPT ![d] = next],
           asked' = asked \/ asked' = [asked EXCEPT ![d] = at],
           next \in {"removing", "unlinking"} => asked'[d] = held[d],
           phase[d] \in Leasing <=> next \in Leasing,
           next \in {"recovering", "serving", "draining"} => Resident(d) \/ daemonLock' = d,
           \A x \in Daemons : x # d /\ daemonLock = x => daemonLock' = x,
           next \in {"recovering", "serving", "draining"} /\ daemonLock = d => daemonLock' = d,
           daemonLock' \in Daemons \cup {Nobody, Ghost},
           socket' \in Daemons \cup {Nobody},
           UNCHANGED <<held, flock, token, epoch, broken>>
    PROVE  TransportInv'
<1>1. \A x \in Daemons : x # d => phase'[x] = phase[x] /\ asked'[x] = asked[x]
    BY DEF TransportInv, TransportTypeOK
<1>2. phase'[d] = next
    BY DEF TransportInv, TransportTypeOK
<1>3. TransportTypeOK'
    BY DEF TransportInv, TransportTypeOK
<1>4. LeaseHeld'
    BY <1>1, <1>2 DEF TransportInv, LeaseHeld
<1>5. LeaseOwned'
    BY <1>1, <1>2 DEF TransportInv, TransportTypeOK, LeaseOwned
<1>6. DatabaseHeld'
    BY <1>1, <1>2 DEF TransportInv, DatabaseHeld, Resident
<1>7. AskedOwned'
    BY <1>1, <1>2 DEF TransportInv, AskedOwned
<1> QED BY <1>3, <1>4, <1>5, <1>6, <1>7 DEF TransportInv

\* The steps that move a process to its next phase and nothing else of it.
LEMMA ReachStep ==
    ASSUME TransportInv, NEW d \in Daemons, NEW next \in Phases \ {"removing", "unlinking"},
           Reaches(d, next),
           phase[d] \in Leasing <=> next \in Leasing,
           next \in {"recovering", "serving", "draining"} => Resident(d),
           socket' \in Daemons \cup {Nobody},
           UNCHANGED <<flock, token, epoch, daemonLock>>
    PROVE  TransportInv'
<1>1. 0 \in Epochs
    BY DaemonsAssumption DEF Epochs
<1> QED BY <1>1, PhaseStep DEF Reaches, TransportInv, TransportTypeOK

\* The steps at which a process asks whether a path is its own.
LEMMA DecideStep ==
    ASSUME TransportInv, NEW d \in Daemons, NEW next \in Leasing, phase[d] \in Leasing,
           Decides(d, next),
           next \in {"removing", "unlinking"} => StillOwned(d),
           next \notin {"recovering", "serving", "draining"},
           UNCHANGED <<flock, token, epoch, socket, daemonLock>>
    PROVE  TransportInv'
<1>1. epoch \in Epochs /\ socket \in Daemons \cup {Nobody}
      /\ daemonLock \in Daemons \cup {Nobody, Ghost} /\ asked'[d] = epoch
    BY DEF Decides, TransportInv, TransportTypeOK
<1> QED BY <1>1, PhaseStep DEF Decides, StillOwned, Phases

\* The lease is taken on a file nobody has locked.
LEMMA LeaseStep ==
    ASSUME TransportInv, NEW d \in Daemons, AcquireLease(d)
    PROVE  TransportInv'
<1>1. CASE flock[held[d]] = Nobody
  <2>1. /\ flock' = [flock EXCEPT ![held[d]] = d]
        /\ token' \in {d, token}
        /\ phase[d] = "opened" /\ phase' = [phase EXCEPT ![d] = "leased"]
        /\ asked' = [asked EXCEPT ![d] = 0]
        /\ UNCHANGED <<held, broken, epoch, socket, daemonLock>>
    BY <1>1 DEF AcquireLease, Reaches
  <2>z. 0 \in Epochs
    BY DaemonsAssumption DEF Epochs
  <2>2. \A x \in Daemons : x # d => phase'[x] = phase[x] /\ asked'[x] = asked[x]
    BY <2>1 DEF TransportInv, TransportTypeOK
  <2>3. phase'[d] = "leased" /\ held[d] \in Epochs /\ flock'[held[d]] = d
    BY <2>1 DEF TransportInv, TransportTypeOK
  <2>4. \A e \in Epochs : e # held[d] => flock'[e] = flock[e]
    BY <2>1 DEF TransportInv, TransportTypeOK
  <2>5. TransportTypeOK'
    BY <2>1, <2>z DEF TransportInv, TransportTypeOK, Phases, Leasing
  <2>6. LeaseHeld'
    BY <1>1, <2>1, <2>2, <2>3, <2>4, DaemonsAssumption
    DEF TransportInv, TransportTypeOK, LeaseHeld, Leasing
  <2>7. \A e \in Epochs : flock[e] # d
    BY <2>1 DEF TransportInv, LeaseOwned, Leasing
  <2>8. LeaseOwned'
    BY <2>1, <2>2, <2>3, <2>4, <2>7 DEF TransportInv, TransportTypeOK, LeaseOwned, Leasing
  <2>9. DatabaseHeld'
    BY <2>1, <2>2, <2>3 DEF TransportInv, DatabaseHeld, Resident
  <2>10. AskedOwned'
    BY <2>1, <2>2, <2>3 DEF TransportInv, AskedOwned
  <2> QED BY <2>5, <2>6, <2>8, <2>9, <2>10 DEF TransportInv
<1>2. CASE flock[held[d]] # Nobody
  <2>1. phase[d] \notin Leasing /\ Gone(d) /\ UNCHANGED <<flock, token, epoch, socket, daemonLock>>
    BY <1>2 DEF AcquireLease, Leasing
  <2> QED BY <2>1, GoneWithoutLease
<1> QED BY <1>1, <1>2

\* Every step of a startup keeps the two singletons.
LEMMA StartupKeeps ==
    ASSUME TransportInv, NEW d \in Daemons, StartDaemon(d) \/ StartupStep(d)
    PROVE  TransportInv'
<1> USE DEF Leasing, Phases, locks
<1>t. TransportTypeOK
    BY DEF TransportInv
<1>1. CASE StartDaemon(d)
    BY <1>1, <1>t, PhaseStep DEF StartDaemon, TransportTypeOK
<1>2. CASE Preflight(d)
  <2>1. CASE Reaches(d, "admitted")
    BY <1>2, <2>1, <1>t, ReachStep DEF Preflight, TransportTypeOK
  <2>2. CASE Gone(d)
    BY <1>2, <2>2, GoneWithoutLease DEF Preflight
  <2> QED BY <1>2, <2>1, <2>2 DEF Preflight
<1>3. CASE OpenLockFile(d)
  <2>1. \A x \in Daemons : x # d => phase'[x] = phase[x] /\ held'[x] = held[x]
    BY <1>3, <1>t DEF OpenLockFile, TransportTypeOK
  <2>2. phase'[d] = "opened" /\ phase[d] = "admitted"
    BY <1>3, <1>t DEF OpenLockFile, TransportTypeOK
  <2>3. UNCHANGED <<flock, token, epoch, socket, daemonLock, broken>>
    BY <1>3 DEF OpenLockFile
  <2>8. AskedOwned'
    BY <1>3, <2>1, <2>2 DEF OpenLockFile, TransportInv, AskedOwned
  <2>4. TransportTypeOK'
    BY <1>3, <1>t DEF OpenLockFile, TransportTypeOK
  <2>5. LeaseHeld'
    BY <2>1, <2>2, <2>3 DEF TransportInv, LeaseHeld
  <2>6. LeaseOwned'
    BY <2>1, <2>2, <2>3, <1>t DEF TransportInv, TransportTypeOK, LeaseOwned
  <2>7. DatabaseHeld'
    BY <2>1, <2>2, <2>3 DEF TransportInv, DatabaseHeld, Resident
  <2> QED BY <2>4, <2>5, <2>6, <2>7, <2>8 DEF TransportInv
<1>4. CASE AcquireLease(d)
    BY <1>4, LeaseStep
<1>5. CASE FindStaleSocket(d)
    BY <1>5, <1>t, ReachStep DEF FindStaleSocket, TransportTypeOK
<1>9. CASE CheckStaleSocket(d)
  <2>1. CASE StillOwned(d)
    BY <1>9, <2>1, DecideStep DEF CheckStaleSocket
  <2>2. CASE ~StillOwned(d)
    BY <1>9, <2>2, GoneWithLease DEF CheckStaleSocket
  <2> QED BY <2>1, <2>2
<1>10. CASE RemoveStaleSocket(d)
  <2>1. CASE socket # Nobody
    BY <1>10, <2>1, ReachStep DEF RemoveStaleSocket
  <2>2. CASE socket = Nobody
    BY <1>10, <2>2, GoneWithLease DEF RemoveStaleSocket
  <2> QED BY <2>1, <2>2
<1>6. CASE BindSocket(d)
  <2>1. CASE socket = Nobody
    BY <1>6, <2>1, ReachStep DEF BindSocket
  <2>2. CASE socket # Nobody
    BY <1>6, <2>2, GoneWithLease DEF BindSocket
  <2> QED BY <2>1, <2>2
<1>7. CASE AcquireDaemonLock(d)
  <2>1. CASE daemonLock = Nobody
    BY <1>7, <2>1, <1>t, PhaseStep, DaemonsAssumption DEF AcquireDaemonLock, TransportTypeOK
  <2>2. CASE daemonLock # Nobody
    BY <1>7, <2>2, <1>t, PhaseStep DEF AcquireDaemonLock, TransportTypeOK
  <2> QED BY <2>1, <2>2
<1>8. CASE Reconcile(d)
    BY <1>8, <1>t, PhaseStep DEF Reconcile, TransportTypeOK, Resident
<1> QED
    BY <1>1, <1>2, <1>3, <1>4, <1>5, <1>6, <1>7, <1>8, <1>9, <1>10 DEF StartupStep

\* An orderly stop and a kill keep them.
LEMMA ShutdownKeeps ==
    ASSUME TransportInv, NEW d \in Daemons, ShutdownStep(d) \/ KillDaemon(d) \/ AcceptFails(d)
    PROVE  TransportInv'
<1> USE DEF Leasing, Phases, locks
<1>t. TransportTypeOK
    BY DEF TransportInv
<1>1. CASE StopServing(d)
    BY <1>1, <1>t, PhaseStep DEF StopServing, TransportTypeOK, Resident
<1>2. CASE ReleaseDaemonLock(d)
    BY <1>2, <1>t, PhaseStep DEF ReleaseDaemonLock, TransportTypeOK
<1>3. CASE CheckRuntimeSocket(d)
    BY <1>3, DecideStep DEF CheckRuntimeSocket
<1>6. CASE UnlinkRuntimeSocket(d)
    BY <1>6, ReachStep DEF UnlinkRuntimeSocket
<1>7. CASE DropRuntimeLease(d)
  <2>1. \A x \in Daemons : x # d => phase'[x] = phase[x] /\ asked'[x] = asked[x]
    BY <1>7, <1>t DEF DropRuntimeLease, Reaches, TransportTypeOK
  <2>2. phase'[d] = "closing" /\ UNCHANGED <<held, token, epoch, daemonLock, broken>>
    BY <1>7, <1>t DEF DropRuntimeLease, Reaches, TransportTypeOK
  <2>3. \A e \in Epochs : flock'[e] = IF flock[e] = d THEN Nobody ELSE flock[e]
    BY <1>7 DEF DropRuntimeLease, Unflock
  <2>z. 0 \in Epochs
    BY DaemonsAssumption DEF Epochs
  <2>4. TransportTypeOK'
    BY <1>7, <2>z, <1>t DEF DropRuntimeLease, Reaches, Unflock, TransportTypeOK
  <2>5. LeaseHeld'
    BY <2>1, <2>2, <2>3, <1>t DEF TransportInv, TransportTypeOK, LeaseHeld
  <2>6. LeaseOwned'
    BY <2>1, <2>2, <2>3, <1>t, DaemonsAssumption DEF TransportInv, TransportTypeOK, LeaseOwned
  <2>7. DatabaseHeld'
    BY <2>1, <2>2 DEF TransportInv, DatabaseHeld, Resident
  <2>8. AskedOwned'
    BY <2>1, <2>2 DEF TransportInv, AskedOwned
  <2> QED BY <2>4, <2>5, <2>6, <2>7, <2>8 DEF TransportInv
<1>8. CASE AcceptFails(d)
    BY <1>8, <1>t, ReachStep DEF AcceptFails, TransportTypeOK, Resident
<1>4. CASE ExitProcess(d)
    BY <1>4, GoneWithoutLease DEF ExitProcess
<1>5. CASE KillDaemon(d)
    BY <1>5, GoneWithLease DEF KillDaemon
<1> QED BY <1>1, <1>2, <1>3, <1>4, <1>5, <1>6, <1>7, <1>8 DEF ShutdownStep

\* So do the faults of the database and of the runtime root.
LEMMA FaultsKeep ==
    ASSUME TransportInv, SessionOfDeadEnds \/ LoseDatabaseSession \/ ClearRuntimeRoot
    PROVE  TransportInv'
<1>1. CASE SessionOfDeadEnds
    BY <1>1, DaemonsAssumption
    DEF SessionOfDeadEnds, TransportInv, TransportTypeOK, LeaseHeld, LeaseOwned, DatabaseHeld,
        AskedOwned, Resident, locks
<1>2. CASE LoseDatabaseSession
    BY <1>2
    DEF LoseDatabaseSession, TransportInv, TransportTypeOK, LeaseHeld, LeaseOwned, DatabaseHeld,
        AskedOwned, Resident, locks
<1>3. CASE ClearRuntimeRoot
  <2>1. epoch + 1 \in Epochs
    BY <1>3, DaemonsAssumption DEF ClearRuntimeRoot, TransportInv, TransportTypeOK, Epochs
  <2> QED
    BY <1>3, <2>1
    DEF ClearRuntimeRoot, TransportInv, TransportTypeOK, LeaseHeld, LeaseOwned, DatabaseHeld,
        AskedOwned, Resident
<1> QED BY <1>1, <1>2, <1>3

\* The inductive invariant of the two singletons: who has which lock in which phase.
THEOREM TransportInvariant == TransportSpec => []TransportInv
<1>1. TransportInit => TransportInv
  <2>1. 0 \in Epochs
    BY DaemonsAssumption DEF Epochs
  <2> QED
    BY <2>1, DaemonsAssumption
    DEF TransportInit, TransportInv, TransportTypeOK, LeaseHeld, LeaseOwned, DatabaseHeld,
        AskedOwned, Resident, Leasing, Phases
<1>2. TransportInv /\ [TransportNext]_transportVars => TransportInv'
  <2> SUFFICES ASSUME TransportInv, [TransportNext]_transportVars
               PROVE  TransportInv'
    OBVIOUS
  <2>1. ASSUME NEW d \in Daemons, DaemonStep(d) PROVE TransportInv'
    BY <2>1, StartupKeeps, ShutdownKeeps DEF DaemonStep
  <2>2. CASE SessionOfDeadEnds \/ LoseDatabaseSession \/ ClearRuntimeRoot
    BY <2>2, FaultsKeep
  <2>3. ASSUME NEW c \in Clients,
               SendCommand(c) \/ SendShutdown(c) \/ HandlerStep(c) \/ ClientGivesUp(c)
                 \/ CloseExchange(c)
        PROVE  TransportInv'
    BY <2>3, ExchangesApart, TransportFrame
  <2>4. CASE UNCHANGED transportVars
    BY <2>4, TransportFrame DEF transportVars, locks
  <2> QED BY <2>1, <2>2, <2>3, <2>4 DEF TransportNext, DaemonStep
<1> QED BY <1>1, <1>2, PTL DEF TransportSpec

\* One resident daemon: of two processes past LocalDaemon::bind, one opened a lock
\* file that has since been unlinked and one lost its singleton session, whoever is
\* killed, stopped and restarted in between.
THEOREM OneResidentDaemon == TransportSpec => []SingleServer
<1>1. TransportInv => SingleServer
  <2> SUFFICES ASSUME TransportInv, NEW d \in Daemons, NEW e \in Daemons,
                      Resident(d), Resident(e), d # e
               PROVE  held[d] # held[e] /\ {d, e} \cap broken # {}
    BY DEF SingleServer
  <2>1. flock[held[d]] = d /\ flock[held[e]] = e
    BY DEF TransportInv, LeaseHeld, Resident, Leasing
  <2>2. d \in broken \/ e \in broken
    BY DEF TransportInv, DatabaseHeld
  <2> QED BY <2>1, <2>2
<1> QED BY <1>1, TransportInvariant, PTL

\* The socket of a serving daemon whose lease is its own is taken from it only by
\* clearing the runtime root and by an unlink that was decided before the root was
\* cleared: whoever else starts, fails to start, stops or is killed leaves it.
THEOREM ServingSocketKept == TransportSpec => SocketKept
<1> DEFINE Overtaken(x) ==
             /\ phase[x] \in {"removing", "unlinking"} /\ asked[x] # epoch
             /\ phase'[x] \in {"cleared", "releasing"}
<1>1. ASSUME TransportInv, [TransportNext]_transportVars, NEW d \in Daemons,
             phase[d] = "serving", phase'[d] = "serving", StillOwned(d), socket = d
      PROVE  socket' = d \/ epoch' # epoch \/ \E x \in Daemons : Overtaken(x)
  <2>n. d # Nobody
    BY DaemonsAssumption
  <2>o. ASSUME NEW x \in Daemons, phase[x] \in {"removing", "unlinking"} PROVE asked[x] # epoch
    <3>1. x # d /\ phase[x] \in Leasing /\ asked[x] = held[x]
      BY <1>1, <2>o DEF Leasing, TransportInv, AskedOwned
    <3>2. flock[held[x]] = x /\ flock[held[d]] = d
      BY <1>1, <3>1 DEF Leasing, TransportInv, LeaseHeld
    <3> QED BY <1>1, <3>1, <3>2 DEF StillOwned
  <2>1. ASSUME NEW x \in Daemons, RemoveStaleSocket(x) PROVE Overtaken(x)
    BY <1>1, <2>1, <2>n, <2>o DEF RemoveStaleSocket, Reaches, TransportInv, TransportTypeOK
  <2>2. ASSUME NEW x \in Daemons, BindSocket(x) PROVE socket' = d
    BY <1>1, <2>2, <2>n DEF BindSocket
  <2>3. ASSUME NEW x \in Daemons, UnlinkRuntimeSocket(x) PROVE Overtaken(x)
    BY <1>1, <2>3, <2>o DEF UnlinkRuntimeSocket, Reaches, TransportInv, TransportTypeOK
  <2>4. ASSUME NEW x \in Daemons, DaemonStep(x) PROVE socket' = d \/ Overtaken(x)
    BY <1>1, <2>1, <2>2, <2>3, <2>4
    DEF DaemonStep, StartupStep, ShutdownStep, StartDaemon, Preflight, OpenLockFile, AcquireLease,
        FindStaleSocket, CheckStaleSocket, AcquireDaemonLock, Reconcile, StopServing, AcceptFails,
        ReleaseDaemonLock, CheckRuntimeSocket, DropRuntimeLease, ExitProcess, KillDaemon
  <2>5. CASE SessionOfDeadEnds \/ LoseDatabaseSession
    BY <1>1, <2>5 DEF SessionOfDeadEnds, LoseDatabaseSession
  <2>6. ASSUME NEW c \in Clients,
               SendCommand(c) \/ SendShutdown(c) \/ HandlerStep(c) \/ ClientGivesUp(c)
                 \/ CloseExchange(c)
        PROVE  socket' = d
    BY <1>1, <2>6, ExchangesApart
  <2>7. CASE UNCHANGED transportVars
    BY <1>1, <2>7 DEF transportVars
  <2>8. CASE ClearRuntimeRoot
    BY <1>1, <2>8, DaemonsAssumption DEF ClearRuntimeRoot, TransportInv, TransportTypeOK, Epochs
  <2> QED BY <1>1, <2>4, <2>5, <2>6, <2>7, <2>8 DEF TransportNext, DaemonStep
<1>2. TransportInv /\ [TransportNext]_transportVars
        => [\A d \in Daemons :
              /\ phase[d] = "serving" /\ phase'[d] = "serving" /\ StillOwned(d) /\ socket = d
              => \/ socket' = d
                 \/ epoch' # epoch
                 \/ \E other \in Daemons :
                      /\ phase[other] \in {"removing", "unlinking"} /\ asked[other] # epoch
                      /\ phase'[other] \in {"cleared", "releasing"}]_transportVars
    BY <1>1
<1> QED BY <1>2, TransportInvariant, PTL DEF TransportSpec, SocketKept
=============================================================================
