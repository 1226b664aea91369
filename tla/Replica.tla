------------------------------ MODULE Replica ------------------------------
(***************************************************************************)
(* SE_REPLICA_MODE=replicated: Storage Elements over one NFS directory.    *)
(* flock on .leader.lock elects the leader; a follower sends writes to the *)
(* address it last read from .leader.info, rebuilds its index and takes    *)
(* its mode from mode.json now and then, and keeps trying the lock.        *)
(*                                                                         *)
(* The requests, GC and reconciliation are those of StorageElement; this   *)
(* module says which process runs them.                                    *)
(***************************************************************************)
EXTENDS StorageElement

CONSTANTS
  NoNode,     \* no process, no address
  DeadNode    \* the lock of a dead host, until the NFS lease runs out

ASSUME ReplicaOK == {NoNode, DeadNode} \intersect Nodes = {} /\ NoNode # DeadNode

VARIABLES
  lock,       \* the holder of flock on .leader.lock
  leaderInfo, \* .leader.info
  role,       \* Election.role of each process
  leaderAddr, \* Election.leaderAddr
  phase,      \* how far main and the election have come in each process
  refresh,    \* FollowerRefreshService: its next step
  loaded      \* the mode LoadMode returned to refresh and to onBecomeLeader

electionVars == <<lock, leaderInfo, role, leaderAddr, phase, refresh, loaded>>

storageVars == vars

allVars == <<storageVars, electionVars>>

Phases == {"down", "elect", "follow", "won", "info", "load", "force", "lead",
           "stopped"}

RefreshSteps == {"off", "rebuild", "load", "force"}

To(n, p) == phase' = [phase EXCEPT ![n] = p]

-----------------------------------------------------------------------------
(* Election (replica/election) and what main hangs on it                   *)

\* main up to NewElection.
Boot(n) ==
  /\ Start(n)
  /\ phase[n] = "down"
  /\ To(n, "elect")
  /\ role' = [role EXCEPT ![n] = "follower"]
  /\ leaderAddr' = [leaderAddr EXCEPT ![n] = NoNode]
  /\ UNCHANGED <<lock, leaderInfo, refresh, loaded>>

\* Election.Start and retryLoop: tryAcquireLock succeeds.
TryLock(n) ==
  /\ phase[n] \in {"elect", "follow"}
  /\ lock = NoNode
  /\ lock' = n
  /\ To(n, "won")
  /\ leaderAddr' = [leaderAddr EXCEPT ![n] = IF phase[n] = "follow" THEN leaderInfo
                                             ELSE leaderAddr[n]]
  /\ UNCHANGED <<storageVars, leaderInfo, role, refresh, loaded>>

\* Mutant of BecomeFollower: the address is that of the holder of the lock.
FollowHolder(n) ==
  /\ phase[n] = "elect"
  /\ lock # NoNode
  /\ To(n, "follow")
  /\ role' = [role EXCEPT ![n] = "follower"]
  /\ leaderAddr' = [leaderAddr EXCEPT ![n] = lock]
  /\ refresh' = [refresh EXCEPT ![n] = "rebuild"]
  /\ UNCHANGED <<storageVars, lock, leaderInfo, loaded>>

\* The lock is taken: becomeFollower, and main starts the refresh.
BecomeFollower(n) ==
  /\ phase[n] = "elect"
  /\ lock # NoNode
  /\ To(n, "follow")
  /\ role' = [role EXCEPT ![n] = "follower"]
  /\ leaderAddr' = [leaderAddr EXCEPT ![n] = leaderInfo]
  /\ refresh' = [refresh EXCEPT ![n] = "rebuild"]
  /\ UNCHANGED <<storageVars, lock, leaderInfo, loaded>>

\* Mutant of Retry: the address is read once, in becomeFollower.
RetryKeepsAddr(n) == phase[n] = "follow" /\ lock # NoNode /\ UNCHANGED allVars

\* One turn of retryLoop while another process holds the lock.
Retry(n) ==
  /\ phase[n] = "follow"
  /\ lock # NoNode
  /\ leaderAddr' = [leaderAddr EXCEPT ![n] = leaderInfo]
  /\ UNCHANGED <<storageVars, lock, leaderInfo, role, phase, refresh, loaded>>

\* becomeLeader: role and address first ...
BecomeLeader(n) ==
  /\ phase[n] = "won"
  /\ role' = [role EXCEPT ![n] = "leader"]
  /\ leaderAddr' = [leaderAddr EXCEPT ![n] = n]
  /\ To(n, "info")
  /\ UNCHANGED <<storageVars, lock, leaderInfo, refresh, loaded>>

\* ... then .leader.info, and onBecomeLeader starts GC and reconciliation ...
WriteLeaderInfo(n) ==
  /\ phase[n] = "info"
  /\ \/ leaderInfo' = n
     \/ Fails /\ UNCHANGED leaderInfo
  /\ To(n, "load")
  /\ UNCHANGED <<storageVars, lock, role, leaderAddr, refresh, loaded>>

\* ... and takes the mode from mode.json, in two steps: LoadMode, ForceMode.
LeaderLoadMode(n) ==
  /\ phase[n] = "load"
  /\ IF modeFile \in Modes
     THEN To(n, "force") /\ loaded' = [loaded EXCEPT ![n].leader = modeFile]
     ELSE To(n, "lead") /\ UNCHANGED loaded
  /\ UNCHANGED <<storageVars, lock, leaderInfo, role, leaderAddr, refresh>>

ForceMode(n, m) ==
  /\ mode' = [mode EXCEPT ![n] = m]
  /\ UNCHANGED <<diskVars, up, index, total, req, gc, rec, report, overdue,
                 clientVars>>

LeaderForceMode(n) ==
  /\ phase[n] = "force"
  /\ ForceMode(n, loaded[n].leader)
  /\ To(n, "lead")
  /\ loaded' = [loaded EXCEPT ![n].leader = NoMode]
  /\ UNCHANGED <<lock, leaderInfo, role, leaderAddr, refresh>>

-----------------------------------------------------------------------------
(* FollowerRefreshService (replica/refresh).  It is started by main when   *)
(* the process begins as a follower and stopped by main on the way out; a  *)
(* promotion does not stop it.                                             *)

RefreshTo(n, s) == refresh' = [refresh EXCEPT ![n] = s]

\* Mutant of RefreshIndex: the index stays what it was at the start.
RefreshKeepsIndex(n) ==
  /\ up[n]
  /\ refresh[n] = "rebuild"
  /\ RefreshTo(n, "load")
  /\ UNCHANGED <<storageVars, lock, leaderInfo, role, leaderAddr, phase, loaded>>

RefreshIndex(n) ==
  /\ up[n]
  /\ refresh[n] = "rebuild"
  /\ IndexRebuild(n)
  /\ RefreshTo(n, "load")
  /\ UNCHANGED <<diskVars, up, mode, req, gc, rec, report, overdue, clientVars,
                 lock, leaderInfo, role, leaderAddr, phase, loaded>>

RefreshLoadMode(n) ==
  /\ refresh[n] = "load"
  /\ IF modeFile \in Modes
     THEN RefreshTo(n, "force") /\ loaded' = [loaded EXCEPT ![n].refresh = modeFile]
     ELSE RefreshTo(n, "rebuild") /\ UNCHANGED loaded
  /\ UNCHANGED <<storageVars, lock, leaderInfo, role, leaderAddr, phase>>

\* Mutant of RefreshForceMode: the mode is left alone.
RefreshSkipsMode(n) ==
  /\ refresh[n] = "force"
  /\ RefreshTo(n, "rebuild")
  /\ loaded' = [loaded EXCEPT ![n].refresh = NoMode]
  /\ UNCHANGED <<storageVars, lock, leaderInfo, role, leaderAddr, phase>>

RefreshForceMode(n) ==
  /\ refresh[n] = "force"
  /\ ForceMode(n, loaded[n].refresh)
  /\ RefreshTo(n, "rebuild")
  /\ loaded' = [loaded EXCEPT ![n].refresh = NoMode]
  /\ UNCHANGED <<lock, leaderInfo, role, leaderAddr, phase>>

Refresh(n) == RefreshIndex(n) \/ RefreshLoadMode(n) \/ RefreshForceMode(n)

-----------------------------------------------------------------------------
(* Requests and daemons                                                    *)

\* The HTTP server runs once election.Start has returned: for a process that
\* began as a follower, also while it is being promoted.
Serving(n) ==
  up[n] /\ (phase[n] = "lead" \/ (refresh[n] # "off" /\ phase[n] # "stopped"))

\* LeaderProxy: a write is handled here by a leader, else sent to leaderAddr.
Accepts(n) == Serving(n) /\ role[n] = "leader"

Arrive(w) ==
  \/ \E f \in Files, d \in Descs : UploadStart(w, f, d)
  \/ Patch(w) \/ Delete(w) \/ TransitionMode(w)

\* GC and reconciliation begin their passes between Start and Stop, which comes
\* after election.Stop; a pass that is under way is not interrupted.
DaemonsOn(n) ==
  \/ phase[n] \in {"load", "force", "lead"}
  \/ phase[n] = "stopped" /\ role[n] = "leader"

Collect(n) == (gc[n].step = "idle" => DaemonsOn(n)) /\ Gc(n)

\* A pass may also be asked for by POST /maintenance/reconcile.
Check(n) == (~rec[n].busy => DaemonsOn(n) \/ Accepts(n)) /\ Reconcile(n)

\* What StorageElement does without taking part in the election.
Work ==
  /\ \/ \E w \in Workers : Arrive(w) /\ Accepts(Home[w])
     \/ \E w \in Workers : Continue(w)
     \/ \E n \in Nodes : Collect(n) \/ Check(n)
     \/ \E f \in Files : TtlPasses(f) \/ AttrOverwritten(f)
  /\ UNCHANGED electionVars

Drained(n) == \A w \in Workers : Home[w] = n => req[w] = Idle

\* Mutant of Shutdown: the lock is given up before the server is drained.
ShutdownUndrained(n) ==
  /\ "crash" \in Activities
  /\ phase[n] \in {"lead", "follow"}
  /\ To(n, "stopped")
  /\ lock' = IF lock = n THEN NoNode ELSE lock
  /\ UNCHANGED <<storageVars, leaderInfo, role, leaderAddr, refresh, loaded>>

\* SIGTERM: the server is drained, then election.Stop gives up the lock; the
\* daemons are told to stop afterwards.  The role stays what it was.
Shutdown(n) ==
  /\ "crash" \in Activities
  /\ phase[n] \in {"lead", "follow"}
  /\ Drained(n)
  /\ To(n, "stopped")
  /\ lock' = IF lock = n THEN NoNode ELSE lock
  /\ UNCHANGED <<storageVars, leaderInfo, role, leaderAddr, refresh, loaded>>

\* The process ends: after a shutdown, by a signal, or with its host, whose
\* lock the NFS server keeps for the time of the lease.
Die(n) ==
  /\ Crash(n)
  /\ To(n, "down")
  /\ role' = [role EXCEPT ![n] = "follower"]
  /\ leaderAddr' = [leaderAddr EXCEPT ![n] = NoNode]
  /\ RefreshTo(n, "off")
  /\ loaded' = [loaded EXCEPT ![n] = [leader |-> NoMode, refresh |-> NoMode]]
  /\ lock' \in IF lock = n THEN {NoNode, DeadNode} ELSE {lock}
  /\ UNCHANGED leaderInfo

LeaseExpires ==
  /\ lock = DeadNode
  /\ lock' = NoNode
  /\ UNCHANGED <<storageVars, leaderInfo, role, leaderAddr, phase, refresh, loaded>>

-----------------------------------------------------------------------------

ReplicaInit ==
  /\ Init
  /\ lock = NoNode
  /\ leaderInfo = NoNode
  /\ role = [n \in Nodes |-> "follower"]
  /\ leaderAddr = [n \in Nodes |-> NoNode]
  /\ phase = [n \in Nodes |-> "down"]
  /\ refresh = [n \in Nodes |-> "off"]
  /\ loaded = [n \in Nodes |-> [leader |-> NoMode, refresh |-> NoMode]]

Elect(n) ==
  \/ TryLock(n) \/ BecomeFollower(n) \/ Retry(n) \/ BecomeLeader(n)
  \/ WriteLeaderInfo(n) \/ LeaderLoadMode(n) \/ LeaderForceMode(n)

ReplicaNext ==
  \/ \E n \in Nodes : Boot(n) \/ Elect(n) \/ Refresh(n) \/ Shutdown(n) \/ Die(n)
  \/ LeaseExpires
  \/ Work

ReplicaSpec == ReplicaInit /\ [][ReplicaNext]_allVars

\* Scheduling: dead processes are started again, the election, the refresh, the
\* leader's reconciliation and the requests under way go on, a process that is
\* shut down ends, and an NFS lease runs out.
ReplicaFairness ==
  /\ \A n \in Nodes : /\ WF_allVars(Boot(n)) /\ WF_allVars(Elect(n))
                      /\ WF_allVars(Refresh(n))
                      /\ WF_allVars(phase[n] = "stopped" /\ Die(n))
                      /\ WF_allVars(UNCHANGED electionVars /\ Check(n))
  /\ \A w \in Workers : WF_allVars(UNCHANGED electionVars /\ Continue(w))
  /\ WF_allVars(LeaseExpires)

FairReplicaSpec == ReplicaSpec /\ ReplicaFairness

-----------------------------------------------------------------------------
(* Properties                                                              *)

\* Every variable of the election holds a value of its kind.
ElectionTypeOK ==
  /\ lock \in Nodes \union {NoNode, DeadNode}
  /\ leaderInfo \in Nodes \union {NoNode}
  /\ role \in [Nodes -> {"leader", "follower"}]
  /\ leaderAddr \in [Nodes -> Nodes \union {NoNode}]
  /\ phase \in [Nodes -> Phases]
  /\ refresh \in [Nodes -> RefreshSteps]
  /\ loaded \in [Nodes -> [leader : Modes \union {NoMode},
                           refresh : Modes \union {NoMode}]]

\* A write request only ever runs on the process that holds the lock, through
\* promotions, crashes and shutdowns: no two processes write (becomeLeader,
\* LeaderProxy, the order of the shutdown in main).
WritesUnderLock ==
  \A w \in Workers : req[w] # Idle => lock = Home[w]

\* Whatever was uploaded through one process is known to all of them in the
\* end, wherever the lock went meanwhile, but for files that were deleted or that
\* two operations worked on at the same time (refresh, BuildFromDir).
KnownEverywhere ==
  <>[]AllUp =>
    \A f \in Files :
      (f \in Acked \ doomed) ~>
        (f \in doomed \union crossed \/ \A n \in Nodes : index[n][f] # NoMeta)

\* When the transitions are over, every process works in the mode mode.json
\* holds, unless two of them have overlapped on a process that still runs
\* (TransitionMode, refresh, onBecomeLeader).
ModesConverge ==
  <>[](AllUp /\ raced = {} /\ \A n \in Nodes : Saving(n) = {}) =>
    <>[](modeFile \in Modes => \A n \in Nodes : mode[n] = modeFile)

\* In the end one process accepts writes, and the others send theirs there.
LeaderFound ==
  <>[]AllUp =>
    <>[](\E n \in Nodes : /\ Accepts(n)
                          /\ \A m \in Nodes : leaderAddr[m] = n)

=============================================================================
