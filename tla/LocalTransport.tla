--------------------------- MODULE LocalTransport ---------------------------
(***************************************************************************)
(* The daemon's two singletons and its operator socket: RuntimeLease,      *)
(* RuntimeSocket and LocalDaemon of local_transport.rs, DaemonLock of      *)
(* storage.rs, run_serve of factoryd, and the one-request exchanges of     *)
(* OperatorClient.  Several daemon processes are started on one runtime    *)
(* root and one database, are killed, and are stopped by request.          *)
(*                                                                         *)
(* The lock file is one inode per epoch: an operator who clears the        *)
(* runtime root starts a new epoch, and the processes of the old one keep  *)
(* their locks on an unlinked file.                                        *)
(***************************************************************************)
EXTENDS Naturals, FiniteSets

CONSTANTS
    Daemons,      \* factoryd processes
    Clients,      \* factoryctl invocations
    MaxClears,    \* bound: how often the runtime root is cleared by hand
    MaxFaults,    \* bound: kills and lost database sessions
    MaxRequests   \* bound: how many requests are sent

Nobody == "nobody"
Ghost == "ghost"  \* a database session whose process is gone
Epochs == 0..MaxClears

\* Neither a missing holder nor the session of a dead process is a daemon.
ASSUME DaemonsAssumption == {Nobody, Ghost} \cap Daemons = {} /\ MaxClears \in Nat

VARIABLES
    phase,        \* phase[d]: how far run_serve of daemon d has come
    held,         \* held[d]: the epoch of the lock file daemon d has open
    asked,        \* asked[d]: history, the epoch at which d asked whether a path is its own
    flock,        \* flock[e]: who holds the lock on the file of epoch e
    token,        \* whose token the current lock file contains
    epoch,        \* the current lock file
    socket,       \* whose socket is at the operator path
    daemonLock,   \* whose session holds the PostgreSQL advisory lock
    broken,       \* the daemons whose singleton session broke under them
    stopSignal,   \* stopSignal[d]: the message in the shutdown channel
    exchange,     \* exchange[c]: the connection of client c
    faults, requests

transportVars == <<phase, held, asked, flock, token, epoch, socket, daemonLock, broken, stopSignal,
                   exchange, faults, requests>>
locks == <<held, asked, flock, token, epoch>>
traffic == <<exchange, requests>>

\* LocalDaemon::bind has returned and the process still owns the value.
Resident(d) == phase[d] \in {"recovering", "serving", "draining"}

\* The listener exists from bind to the drop of RuntimeSocket.
Listening(d) ==
    phase[d] \in {"bound", "refused", "recovering", "serving", "draining", "dropping",
                  "unlinking", "releasing"}

\* RuntimeLease::still_owned: the file at the path is the one that was locked,
\* and holds the token this process wrote.
StillOwned(d) == held[d] = epoch /\ token = d

Idle == [at |-> "idle", to |-> Nobody, asks |-> "command", waiting |-> FALSE]

TransportInit ==
    /\ phase = [d \in Daemons |-> "off"] /\ held = [d \in Daemons |-> 0]
    /\ asked = [d \in Daemons |-> 0]
    /\ flock = [e \in Epochs |-> Nobody] /\ token = Nobody
    /\ epoch = 0 /\ socket = Nobody /\ daemonLock = Nobody /\ broken = {}
    /\ stopSignal = [d \in Daemons |-> FALSE]
    /\ exchange = [c \in Clients |-> Idle]
    /\ faults = 0 /\ requests = 0

(* --------------------------------- startup -------------------------------- *)

\* spawn_factoryd and the start of run_serve.
StartDaemon(d) ==
    /\ phase[d] = "off"
    /\ phase' = [phase EXCEPT ![d] = "starting"]
    /\ UNCHANGED <<locks, socket, daemonLock, broken, stopSignal, traffic, faults>>

\* The process ends, and its descriptors and its channel with it.
Gone(d) ==
    /\ phase' = [phase EXCEPT ![d] = "off"]
    /\ held' = [held EXCEPT ![d] = 0] /\ asked' = [asked EXCEPT ![d] = 0]
    /\ broken' = broken \ {d}
    /\ stopSignal' = [stopSignal EXCEPT ![d] = FALSE]

\* The process is past that step of its startup.
Reaches(d, next) ==
    /\ phase' = [phase EXCEPT ![d] = next] /\ asked' = [asked EXCEPT ![d] = 0]
    /\ UNCHANGED <<held, broken, stopSignal>>

\* ... or at a step that depends on whether a path is its own.
Decides(d, next) ==
    /\ phase' = [phase EXCEPT ![d] = next]
    /\ asked' = [asked EXCEPT ![d] = epoch]
    /\ UNCHANGED <<held, broken, stopSignal>>

\* Before anything is bound: the schema, the restore gate, the installed build
\* of this binary and the credential, each of which may refuse the start.
Preflight(d) ==
    /\ phase[d] = "starting"
    /\ Reaches(d, "admitted") \/ Gone(d)
    /\ UNCHANGED <<flock, token, epoch, socket, daemonLock, traffic, faults>>

\* RuntimeLease::acquire opens the lock file, creating it when it is missing.
OpenLockFile(d) ==
    /\ phase[d] = "admitted"
    /\ held' = [held EXCEPT ![d] = epoch]
    /\ phase' = [phase EXCEPT ![d] = "opened"]
    /\ UNCHANGED <<asked, flock, token, epoch, socket, daemonLock, broken, stopSignal, traffic,
                   faults>>

\* ... takes the non-blocking exclusive lock and writes its token, or fails
\* with RuntimeAlreadyLocked.
AcquireLease(d) ==
    /\ phase[d] = "opened"
    /\ IF flock[held[d]] = Nobody
         THEN /\ flock' = [flock EXCEPT ![held[d]] = d]
              /\ token' = IF held[d] = epoch THEN d ELSE token
              /\ Reaches(d, "leased")
         ELSE Gone(d) /\ UNCHANGED <<flock, token>>
    /\ UNCHANGED <<epoch, socket, daemonLock, traffic, faults>>

\* Drop of RuntimeLease: the lock this process holds is released.
Unflock(d) == flock' = [e \in Epochs |-> IF flock[e] = d THEN Nobody ELSE flock[e]]

\* remove_stale_socket, one system call after the other.  Is anything there?
FindStaleSocket(d) ==
    /\ phase[d] = "leased"
    /\ Reaches(d, IF socket = Nobody THEN "cleared" ELSE "stale")
    /\ UNCHANGED <<flock, token, epoch, socket, daemonLock, traffic, faults>>

\* ... a lease that is no longer the path's own refuses to touch it ...
CheckStaleSocket(d) ==
    /\ phase[d] = "stale"
    /\ IF StillOwned(d) THEN Decides(d, "removing") /\ UNCHANGED flock
                        ELSE Gone(d) /\ Unflock(d)
    /\ UNCHANGED <<token, epoch, socket, daemonLock, traffic, faults>>

\* ... and whatever is at the path by then is unlinked; a path that is gone is
\* an error.
RemoveStaleSocket(d) ==
    /\ phase[d] = "removing"
    /\ IF socket # Nobody THEN socket' = Nobody /\ Reaches(d, "cleared") /\ UNCHANGED flock
                          ELSE Gone(d) /\ Unflock(d) /\ UNCHANGED socket
    /\ UNCHANGED <<token, epoch, daemonLock, traffic, faults>>

\* UnixListener::bind, mode 0600, and the identity of the new inode.  A path
\* that appeared meanwhile makes it fail.
BindSocket(d) ==
    /\ phase[d] = "cleared"
    /\ IF socket = Nobody
         THEN socket' = d /\ Reaches(d, "bound") /\ UNCHANGED flock
         ELSE Gone(d) /\ Unflock(d) /\ UNCHANGED socket
    /\ UNCHANGED <<token, epoch, daemonLock, traffic, faults>>

\* A bind that does not ask PostgreSQL.
AcquireDaemonLockNever(d) ==
    /\ phase[d] = "bound"
    /\ phase' = [phase EXCEPT ![d] = "recovering"]
    /\ UNCHANGED <<locks, socket, daemonLock, broken, stopSignal, traffic, faults>>

\* LocalDaemon::bind: pg_try_advisory_lock, or DaemonAlreadyRunning.
AcquireDaemonLock(d) ==
    /\ phase[d] = "bound"
    /\ IF daemonLock = Nobody
         THEN daemonLock' = d /\ phase' = [phase EXCEPT ![d] = "recovering"]
         ELSE phase' = [phase EXCEPT ![d] = "refused"] /\ UNCHANGED daemonLock
    /\ UNCHANGED <<locks, socket, broken, stopSignal, traffic, faults>>

\* reconcile_daemon_restart settles every interrupted session before the
\* listener is served; an error drops the daemon.
Reconcile(d) ==
    /\ phase[d] = "recovering"
    /\ \E after \in {"serving", "refused"} : phase' = [phase EXCEPT ![d] = after]
    /\ UNCHANGED <<locks, socket, daemonLock, broken, stopSignal, traffic, faults>>

(* -------------------------------- shutdown -------------------------------- *)

\* serve returns when the shutdown channel has a message.
StopServing(d) ==
    /\ phase[d] = "serving" /\ stopSignal[d]
    /\ phase' = [phase EXCEPT ![d] = "draining"]
    /\ UNCHANGED <<locks, socket, daemonLock, broken, stopSignal, traffic, faults>>

\* cancel_active_sessions has waited, the driver is cancelled, and shutdown
\* releases the PostgreSQL lock; a lost lock is an error that changes nothing.
ReleaseDaemonLock(d) ==
    /\ phase[d] = "draining"
    /\ daemonLock' = IF daemonLock = d THEN Nobody ELSE daemonLock
    /\ phase' = [phase EXCEPT ![d] = "dropping"]
    /\ UNCHANGED <<locks, socket, broken, stopSignal, traffic, faults>>

\* A drop that does not ask whether the path is still its own.
CheckRuntimeSocketNever(d) ==
    /\ phase[d] \in {"dropping", "refused"}
    /\ Decides(d, "unlinking")
    /\ UNCHANGED <<flock, token, epoch, socket, daemonLock, traffic, faults>>

\* Drop of RuntimeSocket asks first: is the lease still owned, and is the inode
\* at the path the one this daemon bound?
CheckRuntimeSocket(d) ==
    /\ phase[d] \in {"dropping", "refused"}
    /\ Decides(d, IF StillOwned(d) /\ socket = d THEN "unlinking" ELSE "releasing")
    /\ UNCHANGED <<flock, token, epoch, socket, daemonLock, traffic, faults>>

\* ... and then unlinks by path, whatever is there by then.
UnlinkRuntimeSocket(d) ==
    /\ phase[d] = "unlinking"
    /\ socket' = Nobody
    /\ Reaches(d, "releasing")
    /\ UNCHANGED <<flock, token, epoch, daemonLock, traffic, faults>>

\* Its fields are dropped after it: the lease, and with it the lock, and the
\* listener.
DropRuntimeLease(d) ==
    /\ phase[d] = "releasing"
    /\ Unflock(d)
    /\ Reaches(d, "closing")
    /\ UNCHANGED <<token, epoch, socket, daemonLock, traffic, faults>>

\* A process that ends leaves its session for PostgreSQL to notice.
LeaveSession(d) == daemonLock' = IF daemonLock = d THEN Ghost ELSE daemonLock

\* store.close waits for the connections in use, that is for the detached
\* handlers inside a transaction; the process exits, and its other handlers,
\* its database sessions and its connections end with it.
ExitProcess(d) ==
    /\ phase[d] = "closing"
    /\ \A c \in Clients : exchange[c].to = d => exchange[c].at # "dispatching"
    /\ Gone(d) /\ LeaveSession(d)
    /\ exchange' = [c \in Clients |-> IF exchange[c].to = d THEN Idle ELSE exchange[c]]
    /\ UNCHANGED <<flock, token, epoch, socket, requests, faults>>

(* ---------------------------------- faults -------------------------------- *)

\* accept fails: serve returns the error, and the process stops as after a
\* request.
AcceptFails(d) ==
    /\ phase[d] = "serving" /\ faults < MaxFaults
    /\ faults' = faults + 1
    /\ Reaches(d, "draining")
    /\ UNCHANGED <<flock, token, epoch, socket, daemonLock, traffic>>

\* kill -9: the kernel frees the file lock and closes the descriptors; the
\* socket file stays, and PostgreSQL has yet to notice.
KillDaemon(d) ==
    /\ phase[d] # "off" /\ faults < MaxFaults
    /\ faults' = faults + 1
    /\ Gone(d) /\ Unflock(d) /\ LeaveSession(d)
    /\ exchange' = [c \in Clients |-> IF exchange[c].to = d THEN Idle ELSE exchange[c]]
    /\ UNCHANGED <<token, epoch, socket, requests>>

\* PostgreSQL ends the session of a process that is gone.
SessionOfDeadEnds ==
    /\ daemonLock = Ghost
    /\ daemonLock' = Nobody
    /\ UNCHANGED <<phase, locks, socket, broken, stopSignal, traffic, faults>>

\* The singleton connection breaks: PostgreSQL frees the lock, and nothing
\* tells the daemon, which asks only when it releases it.
LoseDatabaseSession ==
    /\ daemonLock \in Daemons /\ faults < MaxFaults
    /\ faults' = faults + 1
    /\ daemonLock' = Nobody /\ broken' = broken \cup {daemonLock}
    /\ UNCHANGED <<phase, locks, socket, stopSignal, traffic>>

\* An operator clears the runtime root by hand under a running daemon.
ClearRuntimeRoot ==
    /\ epoch < MaxClears
    /\ epoch' = epoch + 1 /\ socket' = Nobody /\ token' = Nobody
    /\ UNCHANGED <<phase, held, asked, flock, daemonLock, broken, stopSignal, traffic, faults>>

(* -------------------------------- exchanges ------------------------------- *)

\* OperatorClient connects to the path and writes its frame.  Nobody listens
\* on the socket of a dead process.
SendRequest(c, asks) ==
    /\ exchange[c] = Idle /\ requests < MaxRequests
    /\ socket # Nobody /\ Listening(socket)
    /\ requests' = requests + 1
    /\ exchange' = [exchange EXCEPT ![c] = [at |-> "queued", to |-> socket, asks |-> asks,
                                            waiting |-> TRUE]]
    /\ UNCHANGED <<phase, locks, socket, daemonLock, broken, stopSignal, faults>>

\* The exchanges of OperatorClient: every command is one request and one
\* answer, which echoes the identity of the request; a shutdown likewise.
SendCommand(c) == SendRequest(c, "command")
SendShutdown(c) == SendRequest(c, "shutdown")

\* serve accepts; the detached handler reads the frame, checks its envelope and
\* enters the operation.
AcceptRequest(c) ==
    /\ exchange[c].at = "queued" /\ phase[exchange[c].to] = "serving"
    /\ exchange' = [exchange EXCEPT ![c].at = IF exchange[c].asks = "command"
                                                THEN "dispatching" ELSE "answering"]
    /\ UNCHANGED <<phase, locks, socket, daemonLock, broken, stopSignal, requests, faults>>

\* A listener that is dropped resets the connections nobody accepted.
ResetQueued(c) ==
    /\ exchange[c].at = "queued" /\ ~Listening(exchange[c].to)
    /\ exchange' = [exchange EXCEPT ![c] = Idle]
    /\ UNCHANGED <<phase, locks, socket, daemonLock, broken, stopSignal, requests, faults>>

\* dispatch has committed the command, or refuses it with a typed error.
DispatchCommand(c) ==
    /\ exchange[c].at = "dispatching"
    /\ exchange' = [exchange EXCEPT ![c].at = "answering"]
    /\ UNCHANGED <<phase, locks, socket, daemonLock, broken, stopSignal, requests, faults>>

\* with_operation_deadline drops the dispatch: no answer is written.
OperationDeadline(c) ==
    /\ exchange[c].at = "dispatching"
    /\ exchange' = [exchange EXCEPT ![c] = Idle]
    /\ UNCHANGED <<phase, locks, socket, daemonLock, broken, stopSignal, requests, faults>>

\* The client's own read deadline: it closes the connection and reports an
\* error, while the handler goes on.
ClientGivesUp(c) ==
    /\ exchange[c].waiting /\ exchange[c].at # "answered"
    /\ exchange' = [exchange EXCEPT ![c].waiting = FALSE]
    /\ UNCHANGED <<phase, locks, socket, daemonLock, broken, stopSignal, requests, faults>>

\* A shutdown that is acknowledged and then forgotten.
AnswerOnly(c) ==
    /\ exchange[c].at = "answering"
    /\ exchange' = [exchange EXCEPT ![c] = IF exchange[c].waiting
                                              THEN [exchange[c] EXCEPT !.at = "answered"] ELSE Idle]
    /\ UNCHANGED <<phase, locks, socket, daemonLock, broken, stopSignal, requests, faults>>

\* The handler writes the answer.  A shutdown request is signalled only after
\* its acknowledgement could be written.
Answer(c) ==
    /\ exchange[c].at = "answering"
    /\ exchange' = [exchange EXCEPT ![c] = IF exchange[c].waiting
                                              THEN [exchange[c] EXCEPT !.at = "answered"] ELSE Idle]
    /\ stopSignal' = IF exchange[c].waiting /\ exchange[c].asks = "shutdown"
                       THEN [stopSignal EXCEPT ![exchange[c].to] = TRUE] ELSE stopSignal
    /\ UNCHANGED <<phase, locks, socket, daemonLock, broken, requests, faults>>

\* The invocation ends and the connection is closed.
CloseExchange(c) ==
    /\ exchange[c].at = "answered"
    /\ exchange' = [exchange EXCEPT ![c] = Idle]
    /\ UNCHANGED <<phase, locks, socket, daemonLock, broken, stopSignal, requests, faults>>

(* ------------------------------ specification ----------------------------- *)

StartupStep(d) ==
    \/ Preflight(d) \/ OpenLockFile(d) \/ AcquireLease(d)
    \/ FindStaleSocket(d) \/ CheckStaleSocket(d) \/ RemoveStaleSocket(d)
    \/ BindSocket(d) \/ AcquireDaemonLock(d) \/ Reconcile(d)
ShutdownStep(d) ==
    \/ StopServing(d) \/ ReleaseDaemonLock(d)
    \/ CheckRuntimeSocket(d) \/ UnlinkRuntimeSocket(d) \/ DropRuntimeLease(d) \/ ExitProcess(d)
HandlerStep(c) ==
    AcceptRequest(c) \/ ResetQueued(c) \/ DispatchCommand(c) \/ OperationDeadline(c) \/ Answer(c)

TransportNext ==
    \/ \E d \in Daemons : StartDaemon(d) \/ StartupStep(d) \/ ShutdownStep(d)
    \/ \E d \in Daemons : KillDaemon(d) \/ AcceptFails(d)
    \/ SessionOfDeadEnds \/ LoseDatabaseSession \/ ClearRuntimeRoot
    \/ \E c \in Clients : SendCommand(c) \/ SendShutdown(c) \/ HandlerStep(c) \/ ClientGivesUp(c) \/ CloseExchange(c)

\* The daemon's own tasks and its detached handlers keep running; starting a
\* daemon, sending a request and every fault are up to the outside.
TransportFairness ==
    /\ \A d \in Daemons : WF_transportVars(StartupStep(d)) /\ WF_transportVars(ShutdownStep(d))
    /\ \A c \in Clients : WF_transportVars(HandlerStep(c)) /\ WF_transportVars(CloseExchange(c))

TransportSpec == TransportInit /\ [][TransportNext]_transportVars /\ TransportFairness

(* ------------------------------- properties ------------------------------- *)

\* One resident daemon: two daemons are never past the bind together on one
\* lock file, nor on one database unless the singleton session of one broke,
\* whoever is killed, stopped and restarted and even if the runtime root is
\* cleared in between (local_transport.rs LocalDaemon: "only a value holding
\* both can accept operator or create actor connections").
SingleServer ==
    \A d, e \in Daemons :
      Resident(d) /\ Resident(e) /\ d # e
        => held[d] # held[e] /\ {d, e} \cap broken # {}

\* A serving daemon with its own lease keeps its socket: no start, failed start
\* or orderly stop of another process unlinks or replaces it.  Only two things
\* take it away: clearing the runtime root by hand, and the unlink of a process
\* whose lock file was cleared away after that process had asked whether the
\* path was its own (Drop of RuntimeSocket, remove_stale_socket: both ask before
\* they unlink by path, so the comment at local_transport.rs:1691 claims more).
SocketKept ==
    [][\A d \in Daemons :
         /\ phase[d] = "serving" /\ phase'[d] = "serving" /\ StillOwned(d) /\ socket = d
         => \/ socket' = d
            \/ epoch' # epoch
            \/ \E other \in Daemons :
                 /\ phase[other] \in {"removing", "unlinking"} /\ asked[other] # epoch
                 /\ phase'[other] \in {"cleared", "releasing"}]_transportVars

\* An acknowledged shutdown ends in the exit of that daemon process, with the
\* handlers it has running (OperatorClient::shutdown, LocalDaemon::serve).
ShutdownHonoured ==
    \A d \in Daemons :
      (\E c \in Clients : exchange[c].at = "answered" /\ exchange[c].asks = "shutdown"
                            /\ exchange[c].to = d)
        ~> (phase[d] = "off")
=============================================================================
