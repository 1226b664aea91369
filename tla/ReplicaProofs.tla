---------------------------- MODULE ReplicaProofs ----------------------------
(***************************************************************************)
(* Proofs about Replica: only the holder of the lock writes, an upload     *)
(* that was acknowledged survives every failover, and what one process     *)
(* promises about its index, its reports, its write-ahead log and the life *)
(* of its files, it promises beside the others as well.                    *)
(***************************************************************************)
EXTENDS Replica, StorageElementBounds

Leading == {"info", "load", "force", "lead"}

\* The mode about to be forced is one LoadMode returned.
Loaded ==
  \A n \in Nodes : /\ phase[n] = "force" => loaded[n].leader \in Modes
                   /\ refresh[n] = "force" => loaded[n].refresh \in Modes

\* The lock is held from tryAcquireLock to election.Stop or the end.
Holding == \A n \in Nodes : phase[n] \in Leading \union {"won"} => lock = n

\* The role outlives the lock only in a process that was shut down.
Leads == \A n \in Nodes : role[n] = "leader" => phase[n] \in Leading \union {"stopped"}

\* Requests run only in a process that leads: shutdown drains them first.
Working == \A w \in Workers : req[w] # Idle => phase[Home[w]] \in Leading

Running == \A n \in Nodes : phase[n] # "down" => up[n]

ElectionInv ==
  ElectionTypeOK /\ Loaded /\ Holding /\ Leads /\ Working /\ Running

\* The initial states.
LEMMA ElectionInit == ReplicaInit => ElectionInv
  BY DEF ReplicaInit, Init, ElectionInv, ElectionTypeOK, Loaded, Holding, Leads, Working,
     Running, Phases, RefreshSteps, Leading

\* A request starts only on a process that accepts writes; work starts and ends
\* no process.
LEMMA WorkFrame ==
  ASSUME TypeInv, Work
  PROVE  /\ UNCHANGED up
         /\ \A w \in Workers : req'[w] # Idle => req[w] # Idle \/ Accepts(Home[w])
<1> USE DEF TypeInv, ReqType, diskVars, clientVars
<1>1. ASSUME NEW w \in Workers, Arrive(w)
      PROVE  UNCHANGED up /\ \A v \in Workers \ {w} : req'[v] # Idle => req[v] # Idle
  <2>1. CASE TransitionMode(w)
    <3>1. PICK t \in Modes, c \in BOOLEAN : TransitionTo(w, t, c)
      BY <2>1 DEF TransitionMode
    <3>2. ASSUME NEW v \in Workers \ {w}, req[v] = Idle PROVE req'[v] = req[v]
      <4>1. v \notin Saving(Home[w])
        BY <3>2 DEF Saving, SaveSteps, Idle
      <4> QED  BY <3>1, <4>1 DEF TransitionTo
    <3> QED  BY <3>1, <3>2 DEF TransitionTo
  <2>2. CASE ~TransitionMode(w)
    BY <1>1, <2>2 DEF Arrive, UploadStart, Patch, PatchStart, Delete, DeleteStart, Begin
  <2> QED  BY <2>1, <2>2
<1>2. ASSUME NEW w \in Workers, Continue(w)
      PROVE  /\ UNCHANGED up
             /\ req[w].step # "idle"
             /\ \A v \in Workers : v # w => req'[v] = req[v]
  BY <1>2 DEF Continue, UploadSave, UploadReject, UploadAttr, UploadUndo, UploadIndex,
     UploadCommit, WriteMeta, UpdateMeta, SaveMode, At, Goto, Finish
<1>3. ASSUME NEW n \in Nodes, Gc(n) \/ Reconcile(n)
      PROVE  UNCHANGED <<up, req>>
  BY <1>3 DEF Gc, GcMarkBegin, GcMarkAttr, GcMarkIndex, GcSweepBegin, GcSweepData,
     GcSweepAttr, GcSweepIndex, GcEnd, Reconcile, ReconcileBegin, ReconcileEnd
<1>4. ASSUME NEW f \in Files, TtlPasses(f) \/ AttrOverwritten(f)
      PROVE  UNCHANGED <<up, req>>
  BY <1>4 DEF TtlPasses, AttrOverwritten
<1>5. Idle.step = "idle"
  BY DEF Idle
<1> QED  BY <1>1, <1>2, <1>3, <1>4, <1>5 DEF Work, Collect, Check

\* Every step keeps the election in order.
LEMMA ElectionStep ==
  ASSUME TypeInv, ElectionInv, [ReplicaNext]_allVars
  PROVE  ElectionInv'
<1> USE DEF ElectionInv, ElectionTypeOK, Loaded, Holding, Leads, Working, Running, To,
        Leading, Phases, RefreshSteps
<1> USE ReplicaOK
<1>0. Home \in [Workers -> Nodes]
  BY ConstantsOK
<1>1. ASSUME NEW n \in Nodes, Boot(n)
      PROVE  ElectionInv'
  BY <1>0, <1>1 DEF Boot, Start, TypeInv, ProcType
<1>2. UNCHANGED storageVars => UNCHANGED <<up, req, modeFile>>
  BY DEF storageVars, vars, diskVars
<1>3. ASSUME NEW n \in Nodes, TryLock(n)
      PROVE  ElectionInv'
  BY <1>0, <1>2, <1>3 DEF TryLock
<1>4. ASSUME NEW n \in Nodes, BecomeFollower(n)
      PROVE  ElectionInv'
  BY <1>0, <1>2, <1>4 DEF BecomeFollower
<1>5. ASSUME NEW n \in Nodes, Retry(n)
      PROVE  ElectionInv'
  BY <1>0, <1>2, <1>5 DEF Retry
<1>6. ASSUME NEW n \in Nodes, BecomeLeader(n)
      PROVE  ElectionInv'
  BY <1>0, <1>2, <1>6 DEF BecomeLeader
<1>7. ASSUME NEW n \in Nodes, WriteLeaderInfo(n)
      PROVE  ElectionInv'
  BY <1>0, <1>2, <1>7 DEF WriteLeaderInfo
<1>9. ASSUME NEW n \in Nodes, LeaderLoadMode(n)
      PROVE  ElectionInv'
  <2>1. CASE modeFile \notin Modes
    <3>1. /\ UNCHANGED <<up, req, lock, leaderInfo, role, leaderAddr, refresh, loaded>>
          /\ phase' = [phase EXCEPT ![n] = "lead"]
          /\ phase[n] = "load"
      BY <1>2, <1>9, <2>1 DEF LeaderLoadMode
    <3>2. ElectionTypeOK' /\ Loaded'
      BY <3>1
    <3>3. Holding' /\ Leads' /\ Working' /\ Running'
      BY <1>0, <3>1
    <3> QED  BY <3>2, <3>3
  <2>2. CASE modeFile \in Modes
    <3>1. /\ loaded' \in [Nodes -> [leader : Modes \union {NoMode},
                                   refresh : Modes \union {NoMode}]]
          /\ \A k \in Nodes : /\ loaded'[k].refresh = loaded[k].refresh
                              /\ k # n => loaded'[k] = loaded[k]
          /\ loaded'[n].leader \in Modes
      BY <1>9, <2>2 DEF LeaderLoadMode
    <3>2. /\ UNCHANGED <<up, req, lock, leaderInfo, role, leaderAddr, refresh>>
          /\ phase' = [phase EXCEPT ![n] = "force"]
          /\ phase[n] = "load"
      BY <1>2, <1>9, <2>2 DEF LeaderLoadMode
    <3>3. ElectionTypeOK' /\ Loaded'
      BY <3>1, <3>2
    <3>4. Holding' /\ Leads' /\ Working' /\ Running'
      BY <1>0, <3>2
    <3> QED  BY <3>3, <3>4
  <2> QED  BY <2>1, <2>2
<1>10. ASSUME NEW n \in Nodes, LeaderForceMode(n)
       PROVE  ElectionInv'
  BY <1>0, <1>10 DEF LeaderForceMode, ForceMode, diskVars, clientVars
<1>11. ASSUME NEW n \in Nodes, RefreshIndex(n)
       PROVE  ElectionInv'
  BY <1>0, <1>11 DEF RefreshIndex, RefreshTo, diskVars, clientVars
<1>12. ASSUME NEW n \in Nodes, RefreshLoadMode(n)
       PROVE  ElectionInv'
  <2>1. CASE modeFile \notin Modes
    BY SMTT(20), <1>0, <1>2, <1>12, <2>1 DEF RefreshLoadMode, RefreshTo
  <2>2. CASE modeFile \in Modes
    <3>1. /\ loaded' \in [Nodes -> [leader : Modes \union {NoMode},
                                   refresh : Modes \union {NoMode}]]
          /\ \A k \in Nodes : /\ loaded'[k].leader = loaded[k].leader
                              /\ k # n => loaded'[k] = loaded[k]
          /\ loaded'[n].refresh \in Modes
      BY <1>12, <2>2 DEF RefreshLoadMode
    <3>2. /\ UNCHANGED <<up, req, lock, leaderInfo, role, leaderAddr, phase>>
          /\ refresh' = [refresh EXCEPT ![n] = "force"]
      BY <1>2, <1>12, <2>2 DEF RefreshLoadMode, RefreshTo
    <3>3. ElectionTypeOK' /\ Loaded'
      BY <3>1, <3>2
    <3>4. Holding' /\ Leads' /\ Working' /\ Running'
      BY <1>0, <3>2
    <3> QED  BY <3>3, <3>4
  <2> QED  BY <2>1, <2>2
<1>13. ASSUME NEW n \in Nodes, RefreshForceMode(n)
       PROVE  ElectionInv'
  BY <1>0, <1>13 DEF RefreshForceMode, RefreshTo, ForceMode, diskVars, clientVars
<1>14. ASSUME NEW n \in Nodes, Shutdown(n)
       PROVE  ElectionInv'
  BY <1>0, <1>2, <1>14 DEF Shutdown, Drained
<1>15. ASSUME NEW n \in Nodes, Die(n)
       PROVE  ElectionInv'
  BY <1>0, <1>15 DEF Die, Crash, RefreshTo, diskVars, clientVars, TypeInv, ProcType
<1>16. CASE LeaseExpires
  BY <1>2, <1>16 DEF LeaseExpires
<1>17. CASE Work
  <2>1. UNCHANGED electionVars
    BY <1>17 DEF Work
  <2>2. \A w \in Workers : Accepts(Home[w]) => phase[Home[w]] \in Leading
    BY <1>0 DEF Accepts, Serving
  <2> QED  BY <1>0, <1>17, <2>1, <2>2, WorkFrame DEF electionVars
<1>18. CASE UNCHANGED allVars
  BY <1>2, <1>18 DEF allVars, electionVars
<1> QED BY <1>1, <1>3, <1>4, <1>5, <1>6, <1>7, <1>9, <1>10, <1>11, <1>12, <1>13, <1>14,
           <1>15, <1>16, <1>17, <1>18 DEF ReplicaNext, Elect, Refresh

-----------------------------------------------------------------------------
(* The invariants of StorageElement hold under the election as well: Boot, *)
(* Die and Work are steps of StorageElement, and beside them the election  *)
(* only touches the index and the mode of a process.                       *)

LEMMA StorageStep ==
  ASSUME [ReplicaNext]_allVars
  PROVE  \/ [Next]_vars
         \/ \E n \in Nodes : RefreshIndex(n) \/ RefreshForceMode(n) \/ LeaderForceMode(n)
<1>1. Work => Next
  BY DEF Work, Arrive, Continue, Collect, Check, Next, Request, Upload
<1>2. ASSUME NEW n \in Nodes, Boot(n) \/ Die(n)
      PROVE  Next
  BY <1>2 DEF Boot, Die, Next
<1>3. ASSUME NEW n \in Nodes, Elect(n) \/ RefreshLoadMode(n) \/ Shutdown(n), ~LeaderForceMode(n)
      PROVE  UNCHANGED vars
  BY <1>3 DEF Elect, TryLock, BecomeFollower, Retry, BecomeLeader, WriteLeaderInfo,
     LeaderLoadMode, RefreshLoadMode, Shutdown, storageVars
<1>4. LeaseExpires \/ UNCHANGED allVars => UNCHANGED vars
  BY DEF LeaseExpires, allVars, storageVars
<1> QED BY <1>1, <1>2, <1>3, <1>4 DEF ReplicaNext, Refresh

\* The refresh replaces the index of its process by what is on disk.
LEMMA RefreshIndexKeeps ==
  ASSUME TypeInv, DurInv, NEW n \in Nodes, RefreshIndex(n)
  PROVE  (TypeInv /\ DurInv)'
<1>1. TypeInv'
  BY IndexRebuildType, Frame DEF TypeInv, RefreshIndex
<1> USE DEF diskVars, clientVars
<1>2. ASSUME NEW f \in Files, DurParts(f)
      PROVE  DurParts(f)'
  <2>1. \A k \in Nodes : index'[k][f] = IF k = n THEN ScanDir[f] ELSE index[k][f]
    BY DEF RefreshIndex, IndexRebuild, IndexType, TypeInv
  <2>2. ScanDir[f] = IF attr[f] = Torn THEN NoMeta ELSE attr[f]
    BY DEF ScanDir
  <2>3. Backed(f)'
    BY <1>2, <2>1, <2>2 DEF DurParts, Backed, Known, RefreshIndex
  <2>4. DeletedMeans(f)'
    BY <1>2, <2>1, <2>2 DEF DurParts, DeletedMeans, Complete, RefreshIndex
  <2>5. Indexed(f)'
    BY <1>2, <2>1, <2>2 DEF DurParts, Indexed, Backed, Known, Clean, RefreshIndex,
       UploadSteps, EarlySteps, FileSteps, RequestSteps, SaveSteps
  <2> QED  BY <1>2, <2>3, <2>4, <2>5, DurFrame DEF DurParts, RefreshIndex
<1> QED BY <1>1, <1>2 DEF DurInv

\* A mode that is forced is one that was read from mode.json, and the process
\* that forces it is running: the modes of its files are not touched.
LEMMA ForceModeKeeps ==
  ASSUME TypeInv, DurInv, NEW n \in Nodes, NEW m \in Modes, ForceMode(n, m)
  PROVE  (TypeInv /\ DurInv)'
<1>1. ProcType'
  BY DEF ForceMode, TypeInv, ProcType
<1>2. TypeInv'
  BY <1>1, Frame DEF TypeInv, ForceMode
<1>3. ASSUME NEW f \in Files, DurParts(f)
      PROVE  DurParts(f)'
  BY <1>3, DurFrame DEF DurParts, ForceMode, diskVars, clientVars
<1> QED BY <1>2, <1>3 DEF DurInv

ReplicaInv == TypeInv /\ DurInv /\ ElectionInv

LEMMA ReplicaInvariant == ReplicaSpec => []ReplicaInv
<1>1. ReplicaInit => ReplicaInv
  BY InitType, InitDur, ElectionInit DEF ReplicaInit, ReplicaInv
<1>2. ReplicaInv /\ [ReplicaNext]_allVars => ReplicaInv'
  <2> SUFFICES ASSUME ReplicaInv, [ReplicaNext]_allVars
               PROVE  (TypeInv /\ DurInv)'
    BY ElectionStep DEF ReplicaInv
  <2>1. ASSUME NEW n \in Nodes, LeaderForceMode(n)
        PROVE  (TypeInv /\ DurInv)'
    <3>1. loaded[n].leader \in Modes
      BY <2>1 DEF LeaderForceMode, ReplicaInv, ElectionInv, Loaded
    <3> QED  BY <2>1, <3>1, ForceModeKeeps DEF LeaderForceMode, ReplicaInv
  <2>2. ASSUME NEW n \in Nodes, RefreshForceMode(n)
        PROVE  (TypeInv /\ DurInv)'
    <3>1. loaded[n].refresh \in Modes
      BY <2>2 DEF RefreshForceMode, ReplicaInv, ElectionInv, Loaded
    <3> QED  BY <2>2, <3>1, ForceModeKeeps DEF RefreshForceMode, ReplicaInv
  <2>3. ASSUME NEW n \in Nodes, RefreshIndex(n)
        PROVE  (TypeInv /\ DurInv)'
    BY <2>3, RefreshIndexKeeps DEF ReplicaInv
  <2>4. CASE [Next]_vars
    BY <2>4, NextType, NextDur DEF ReplicaInv
  <2> QED  BY <2>1, <2>2, <2>3, <2>4, StorageStep
<1> QED BY <1>1, <1>2, PTL DEF ReplicaSpec

-----------------------------------------------------------------------------

\* The variables of the election and of the refresh stay in their types (election,
\* refresh, main).
THEOREM ElectionTypeCorrect == ReplicaSpec => []ElectionTypeOK
<1>1. ReplicaInv => ElectionTypeOK
  BY DEF ReplicaInv, ElectionInv
<1> QED BY <1>1, ReplicaInvariant, PTL

\* However many processes share the directory, and however they are started, shut
\* down and killed, a write request only runs on the holder of the lock: the role
\* LeaderProxy asks for is never older than the lock (becomeLeader, Stop, main).
THEOREM OneWriterAtATime == ReplicaSpec => []WritesUnderLock
<1>1. ReplicaInv => WritesUnderLock
  <2>1. Home \in [Workers -> Nodes]
    BY ConstantsOK
  <2> QED  BY <2>1 DEF ReplicaInv, ElectionInv, Holding, Working, WritesUnderLock
<1> QED BY <1>1, ReplicaInvariant, PTL

\* An acknowledged upload survives every failover: promotions, refreshes and forced
\* modes included, it stays on disk until a DELETE of it was accepted.
THEOREM DurableThroughFailover == ReplicaSpec => []AckedOnDisk
<1>1. ReplicaInv => AckedOnDisk
  BY DurableMeans DEF ReplicaInv
<1> QED BY <1>1, ReplicaInvariant, PTL

\* The process that acknowledged an upload goes on serving it, refreshes and
\* promotions included: BuildFromDir never loses a file it had.
THEOREM ServedThroughFailover == ReplicaSpec => []AckedServed
<1>1. ReplicaInv => AckedServed
  BY DurableMeans DEF ReplicaInv
<1> QED BY <1>1, ReplicaInvariant, PTL

-----------------------------------------------------------------------------
(* The promises of a single process.  Beside the steps of StorageElement   *)
(* they meet a refresh, which rebuilds the index of a running process, and *)
(* a mode that is forced.                                                  *)

SharedInv ==
  TotalIsSum /\ ReportInv /\ LifeInv /\ (~IOErrors => WalInv)

LEMMA SharedInit == ReplicaInit => SharedInv
<1> SUFFICES ASSUME Init PROVE SharedInv
  BY DEF ReplicaInit
<1>1. TotalIsSum
  <2>1. ActiveFiles(NoFiles) = {} /\ Bytes({}) = {}
    BY DEF ActiveFiles, NoFiles, IsActive, Bytes
  <2>2. SizeOf(ActiveFiles(NoFiles)) = 0
    BY <2>1, FS_EmptySet DEF SizeOf
  <2> QED
    BY <2>2 DEF Init, TotalIsSum
<1>2. ReportInv
  BY DEF Init, ReportInv, ListedOnce, Cleared, RecIdle, NoReport
<1>3. WalInv
  BY DEF Init, WalInv, DownIdle, Tracked, Underway, Uploading, UploadSteps, Idle
<1> QED
  BY <1>1, <1>2, <1>3, InitLife DEF SharedInv

\* The refresh of a follower is a rebuild like that of reconciliation.
LEMMA RefreshIndexShared ==
  ASSUME TypeInv, DurInv, SharedInv, NEW n \in Nodes, RefreshIndex(n)
  PROVE  SharedInv' /\ Lifecycle!Next
<1> USE DEF diskVars, clientVars
<1>1. /\ IndexRebuild(n) /\ up[n]
      /\ UNCHANGED <<data, attr, scraps, modeFile, wal, up, mode, req, gc, rec, report, overdue,
                     acked, doomed, gone, crossed>>
  BY DEF RefreshIndex
<1>2. TotalIsSum'
  BY <1>1, IndexRebuildTotal DEF TypeInv, SharedInv
<1>3. ReportInv'
  BY <1>1 DEF SharedInv, ReportInv, ListedOnce, Cleared
<1>4. LifeInv'
  BY <1>1, RebuildAnswered, LifeFrame DEF SharedInv, LifeInv
<1>5. ~IOErrors => WalInv'
  BY <1>1 DEF SharedInv, WalInv, DownIdle, Tracked, Underway, Uploading
<1>6. Lifecycle!Next
  <2>1. up' = [up EXCEPT ![n] = TRUE]
    BY <1>1 DEF TypeInv, ProcType
  <2>2. \A f \in Files : FreshFile(f)' <=> FreshFile(f)
    BY <1>1 DEF FreshFile
  <2>3. LifeInv
    BY DEF SharedInv
  <2> QED
    BY <1>1, <2>1, <2>2, <2>3, RebuildRefines
<1> QED
  BY <1>2, <1>3, <1>4, <1>5, <1>6 DEF SharedInv

\* A mode that is forced changes nothing else.
LEMMA ForceModeShared ==
  ASSUME SharedInv, NEW n \in Nodes, RefreshForceMode(n) \/ LeaderForceMode(n)
  PROVE  SharedInv' /\ UNCHANGED Lifecycle!vars
<1>1. UNCHANGED <<data, attr, modeFile, wal, up, index, total, req, gc, rec, report,
                  overdue, acked, doomed, gone, crossed>>
  BY DEF RefreshForceMode, LeaderForceMode, ForceMode, diskVars, clientVars
<1>2. TotalIsSum' /\ ReportInv' /\ LifeInv'
  BY <1>1 DEF SharedInv, TotalIsSum, ReportInv, ListedOnce, Cleared, LifeInv, Swept,
     Whole, Answered
<1>3. ~IOErrors => WalInv'
  BY <1>1 DEF SharedInv, WalInv, DownIdle, Tracked, Underway, Uploading
<1>4. \A f \in Files : Steady(f)
  BY <1>1 DEF Steady, InTransit, FreshFile
<1>5. UNCHANGED Lifecycle!vars
  BY <1>1, <1>4, AllSteady, Stutters DEF Knows, UpNodes
<1> QED
  BY <1>2, <1>3, <1>5 DEF SharedInv

LEMMA SharedStep ==
  ASSUME ReplicaInv, SharedInv, [ReplicaNext]_allVars
  PROVE  SharedInv' /\ [Lifecycle!Next]_(Lifecycle!vars)
<1>1. CASE [Next]_vars
  <2>1. TotalIsSum' /\ ReportInv' /\ LifeInv'
    BY <1>1, NextTotal, ReportStep, LifeStep DEF ReplicaInv, SharedInv
  <2>2. ~IOErrors => WalInv'
    BY <1>1, WalStep DEF ReplicaInv, SharedInv
  <2>3. [Lifecycle!Next]_(Lifecycle!vars)
    BY <1>1, NextRefines DEF ReplicaInv, SharedInv
  <2> QED
    BY <2>1, <2>2, <2>3 DEF SharedInv
<1>2. ASSUME NEW n \in Nodes, RefreshIndex(n)
      PROVE  SharedInv' /\ [Lifecycle!Next]_(Lifecycle!vars)
  BY <1>2, RefreshIndexShared DEF ReplicaInv
<1>3. ASSUME NEW n \in Nodes, RefreshForceMode(n) \/ LeaderForceMode(n)
      PROVE  SharedInv' /\ [Lifecycle!Next]_(Lifecycle!vars)
  BY <1>3, ForceModeShared
<1> QED
  BY <1>1, <1>2, <1>3, StorageStep

LEMMA SharedInvariant == ReplicaSpec => []SharedInv
<1>1. ReplicaInv /\ SharedInv /\ [ReplicaNext]_allVars => SharedInv'
  BY SharedStep
<1> QED
  BY <1>1, SharedInit, ReplicaInvariant, PTL DEF ReplicaSpec

\* Through elections, refreshes and failovers each file goes through the one life
\* of FileLifecycle: a promotion revives nothing, a refresh forgets nothing that is
\* there, a new leader's GC removes only what was deleted (refresh, becomeLeader,
\* BuildFromDir, RunOnce).
THEOREM FilesLiveOnceThroughFailover == ReplicaSpec => IsFileLifecycle
<1>1. ReplicaInit => Lifecycle!Init
  BY InitRefines DEF ReplicaInit
<1>2. ReplicaInv /\ SharedInv /\ [ReplicaNext]_allVars => [Lifecycle!Next]_(Lifecycle!vars)
  BY SharedStep
<1> QED
  BY <1>1, <1>2, ReplicaInvariant, SharedInvariant, PTL
     DEF ReplicaSpec, IsFileLifecycle, Lifecycle!Spec

\* On every replica the running total of the index is the sum of its active files,
\* although a refresh may rebuild it between any two steps of a request (refresh,
\* BuildFromDir, Add, Update, Remove).
THEOREM TotalExactOnReplicas == ReplicaSpec => []TotalIsSum
<1>1. SharedInv => TotalIsSum
  BY DEF SharedInv
<1> QED
  BY <1>1, SharedInvariant, PTL

\* No attr.json ever outlives its data file while the file is not deleted, whoever
\* was the leader when it was written and whoever is now (Upload, deleteFiles).
THEOREM NoGhostMetadataThroughFailover == ReplicaSpec => []AttrHasData
<1>1. ReplicaInv => AttrHasData
  BY DEF ReplicaInv, DurInv, DurParts, Complete, AttrHasData, TypeInv, DiskType
<1> QED
  BY <1>1, ReplicaInvariant, PTL

\* The reconciliation of a leader, which runs while the leadership may be changing,
\* raises no false alarm about a file that another process acknowledged (reconcile).
THEOREM ReportsAreFairThroughFailover == ReplicaSpec => []NoFalseAlarm
<1>1. SharedInv => NoFalseAlarm
  BY DEF SharedInv, ReportInv, Cleared, NoFalseAlarm
<1> QED
  BY <1>1, SharedInvariant, PTL

\* Each replica's own log is pending for exactly the uploads it works under, also
\* when it was killed, another process took over and it was started again (wal.go,
\* main).
THEOREM WalIsExactThroughFailover == ReplicaSpec => []WalTracksUploads
<1>1. SharedInv => WalTracksUploads
  BY DEF SharedInv, WalInv, Tracked, Underway, Uploading, WalTracksUploads
<1> QED
  BY <1>1, SharedInvariant, PTL

=============================================================================
