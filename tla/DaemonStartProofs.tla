-------------------------- MODULE DaemonStartProofs --------------------------
(***************************************************************************)
(* Proofs about DaemonStart for any number of processes and volumes.       *)
(***************************************************************************)
EXTENDS DaemonStart, TLAPS

-----------------------------------------------------------------------------
\* What is unmounted keeps the types; nothing becomes anybody's.
LEMMA UnmountTyped ==
    ASSUME TypeOK, NEW V, Unmount(V)
    PROVE  /\ volume' \in [Volumes -> Daemons \cup {None}]
           /\ faults' \in 0..MaxFaults
           /\ \A v \in Volumes : volume'[v] # None => volume'[v] = volume[v]
           /\ faults' = 0 => faults = 0 /\ \A v \in V \cap Volumes : volume'[v] = None
<1>1. PICK failed \in SUBSET V :
         /\ failed # {} => faults < MaxFaults
         /\ faults' = IF failed = {} THEN faults ELSE faults + 1
         /\ volume' = [v \in Volumes |-> IF v \in V \ failed THEN None ELSE volume[v]]
  BY DEF Unmount
<1>2. faults \in 0..MaxFaults /\ MaxFaults \in Nat
  BY DaemonStartAssumption DEF TypeOK
<1>3. faults' \in 0..MaxFaults /\ (faults' = 0 => faults = 0 /\ failed = {})
  BY <1>1, <1>2
<1>4. /\ volume' \in [Volumes -> Daemons \cup {None}]
      /\ \A v \in Volumes : volume'[v] # None => volume'[v] = volume[v]
      /\ failed = {} => \A v \in V \cap Volumes : volume'[v] = None
  BY <1>1 DEF TypeOK
<1> QED BY <1>3, <1>4

LEMMA InitTyped == Init => TypeOK
<1> SUFFICES ASSUME Init PROVE TypeOK
  OBVIOUS
<1>1. faults \in 0..MaxFaults
  BY DaemonStartAssumption DEF Init
<1>2. raced \in BOOLEAN
  BY DEF Init
<1> QED BY <1>1, <1>2 DEF Init, TypeOK

\* The types are kept by every step.
LEMMA StepTyped == TypeOK /\ [Next]_vars => TypeOK'
<1> SUFFICES ASSUME TypeOK, [Next]_vars PROVE TypeOK'
  OBVIOUS
<1> USE DEF TypeOK, Goto, DropSession, Alive, Starting, Stopping, Ended
<1>1. CASE UNCHANGED vars
  BY <1>1 DEF vars
<1>2. ASSUME NEW d \in Daemons, Start(d) \/ ReadStale(d) \/ ClearStale(d)
      PROVE  TypeOK'
  BY <1>2 DEF Start, ReadStale, ClearStale
<1>3. ASSUME NEW d \in Daemons, CheckPid(d)
      PROVE  TypeOK'
  <2>1. raced' \in BOOLEAN
    BY <1>3, Zenon DEF CheckPid, InWindow
  <2>2. pc' \in [Daemons -> Alive \cup Ended \cup {"off"}]
    BY <1>3 DEF CheckPid
  <2> QED BY <1>3, <2>1, <2>2 DEF CheckPid
<1>4. ASSUME NEW d \in Daemons, WritePid(d) \/ UnlinkSocket(d) \/ Bind(d)
      PROVE  TypeOK'
  BY <1>4 DEF WritePid, UnlinkSocket, Bind
<1>5. ASSUME NEW d \in Daemons, NEW v \in Volumes, UnmountStale(d, v)
      PROVE  TypeOK'
  <2>1. volume' \in [Volumes -> Daemons \cup {None}] /\ faults' \in 0..MaxFaults
    BY <1>5, UnmountTyped DEF UnmountStale
  <2> QED BY <1>5, <2>1 DEF UnmountStale
<1>6. ASSUME NEW d \in Daemons, NEW v \in Volumes, MountVolume(d, v)
      PROVE  TypeOK'
  BY <1>6, DaemonStartAssumption DEF MountVolume
<1>7. ASSUME NEW d \in Daemons, UnmountMount(d) \/ Exit(d)
      PROVE  TypeOK'
  <2>1. volume' \in [Volumes -> Daemons \cup {None}] /\ faults' \in 0..MaxFaults
    BY <1>7, UnmountTyped DEF UnmountMount, Exit
  <2> QED BY <1>7, <2>1 DEF UnmountMount, Exit
<1>8. ASSUME NEW d \in Daemons, StopMounts(d)
      PROVE  TypeOK'
  <2>1. volume' \in [Volumes -> Daemons \cup {None}] /\ faults' \in 0..MaxFaults
    BY <1>8, UnmountTyped DEF StopMounts
  <2> QED BY <1>8, <2>1 DEF StopMounts
<1>9. ASSUME NEW d \in Daemons, Collect(d) \/ ClearEntries(d) \/ RemovePid(d)
                                \/ RemoveSocket(d)
      PROVE  TypeOK'
  BY <1>9 DEF Collect, ClearEntries, RemovePid, RemoveSocket
<1>10. ASSUME NEW d \in Daemons, FinishMount(d)
       PROVE  TypeOK'
  <2>1. CASE AddEntry(d)
    <3>1. session[d] \in Volumes
      BY <2>1 DEF AddEntry
    <3> QED BY <2>1, <3>1 DEF AddEntry
  <2>2. CASE InsertHandle(d)
    BY <2>2 DEF InsertHandle
  <2> QED BY <1>10, <2>1, <2>2 DEF FinishMount
<1>11. ASSUME NEW d \in Daemons, Crash(d) \/ ReusePid(d)
       PROVE  TypeOK'
  BY <1>11 DEF Crash, ReusePid
<1>12. CASE Stop
  <2>1. PICK s \in Daemons :
           /\ pidFile # None
           /\ pc' = [pc EXCEPT ![pidFile] = "collected"]
              \/ pc' = [pc EXCEPT ![pidFile] = "dead"]
    BY <1>12 DEF Stop
  <2> QED BY <1>12, <2>1 DEF Stop
<1> QED
  BY <1>1, <1>2, <1>3, <1>4, <1>5, <1>6, <1>7, <1>8, <1>9, <1>10, <1>11, <1>12
     DEF Next, Cleanup

\* The processes and the files keep their types.
THEOREM TypeCorrect == Spec => []TypeOK
BY InitTyped, StepTyped, PTL DEF Spec

-----------------------------------------------------------------------------
\* A daemon that is past the PID check and has not let go of its files.
Owning == {"passed", "unlinking", "binding", "serving", "collected", "stopped",
           "cleared", "unpidded"}

\* Unless there was a race, one daemon at most is past the check; its PID is in
\* the file from its write to its removal, and its socket at the path from its
\* bind to its removal.
Sole ==
    ~raced =>
       /\ \A d, e \in Daemons : pc[d] \in Owning /\ pc[e] \in Owning => d = e
       /\ \A d \in Daemons : pc[d] \in Owning \ {"passed", "unpidded"} => pidFile = d
       /\ \A d \in Daemons :
             pc[d] \in Owning \ {"passed", "unlinking", "binding"} => sock = d

\* A process stays where it is, leaves Owning, or goes on inside it with the files
\* it has.
Onward(old, new) ==
    \/ new = old
    \/ new \notin Owning
    \/ old = "serving" /\ new = "collected"
    \/ old = "collected" /\ new = "stopped"
    \/ old = "stopped" /\ new = "cleared"

\* A step that moves no process into Owning, and touches neither file, keeps it.
LEMMA SoleKept ==
    ASSUME TypeOK, Sole, raced' = raced, pidFile' = pidFile, sock' = sock,
           \A d \in Daemons : Onward(pc[d], pc'[d])
    PROVE  Sole'
BY DEF Sole, Owning, Onward

LEMMA SoleStep == TypeOK /\ Sole /\ [Next]_vars => Sole'
<1> SUFFICES ASSUME TypeOK, Sole, [Next]_vars PROVE Sole'
  OBVIOUS
<1>1. CASE UNCHANGED vars
  BY <1>1 DEF vars, Sole
<1>2. ASSUME NEW d \in Daemons, Start(d) \/ ReadStale(d) \/ ClearStale(d)
                                \/ Collect(d) \/ StopMounts(d) \/ ClearEntries(d)
                                \/ Exit(d) \/ Crash(d)
      PROVE  Sole'
  <2>1. /\ raced' = raced /\ pidFile' = pidFile /\ sock' = sock
    BY <1>2 DEF Start, ReadStale, ClearStale, Collect, StopMounts, ClearEntries,
                Exit, Crash
  <2>2. \A e \in Daemons : Onward(pc[e], pc'[e])
    BY <1>2 DEF Start, ReadStale, ClearStale, Collect, StopMounts, ClearEntries,
                Exit, Crash, Goto, Owning, Onward, TypeOK
  <2> QED BY <2>1, <2>2, SoleKept
<1>3. ASSUME NEW d \in Daemons, FinishMount(d) \/ UnmountMount(d) \/ ReusePid(d)
      PROVE  Sole'
  BY <1>3 DEF FinishMount, AddEntry, InsertHandle, UnmountMount, ReusePid, Sole
<1>4. ASSUME NEW d \in Daemons, NEW v \in Volumes, UnmountStale(d, v) \/ MountVolume(d, v)
      PROVE  Sole'
  BY <1>4 DEF UnmountStale, MountVolume, Sole
<1>5. ASSUME NEW d \in Daemons, CheckPid(d)
      PROVE  Sole'
  <2>1. CASE Answers(pidFile)
    <3>1. /\ raced' = raced /\ pidFile' = pidFile /\ sock' = sock
          /\ pc' = [pc EXCEPT ![d] = "refused"]
      BY <1>5, <2>1 DEF CheckPid, Goto
    <3>2. \A e \in Daemons : Onward(pc[e], pc'[e])
      BY <3>1 DEF TypeOK, Owning, Onward
    <3> QED BY <3>1, <3>2, SoleKept
  <2>2. CASE ~Answers(pidFile) /\ ~raced'
    <3>1. /\ pc[d] = "checking"
          /\ pc' = [pc EXCEPT ![d] = "passed"]
          /\ ~raced /\ ~InWindow(d)
          /\ pidFile' = pidFile /\ sock' = sock
      BY <1>5, <2>2 DEF CheckPid, Goto
    <3>2. \A e \in Daemons \ {d} : pc[e] \notin Owning
      <4> SUFFICES ASSUME NEW e \in Daemons \ {d}, pc[e] \in Owning PROVE FALSE
        OBVIOUS
      <4>1. pc[e] \notin {"passed", "unpidded"}
        BY <3>1 DEF InWindow
      <4>2. pidFile = e
        BY <3>1, <4>1 DEF Sole
      <4>3. pc[e] \in Alive
        BY <4>1 DEF Owning, Alive, Starting, Stopping
      <4> QED BY <2>2, <4>2, <4>3, DaemonStartAssumption DEF Answers
    <3> QED BY <3>1, <3>2 DEF Sole, Owning, TypeOK
  <2>3. CASE raced'
    BY <2>3 DEF Sole
  <2> QED BY <2>1, <2>2, <2>3
<1>6. ASSUME NEW d \in Daemons, WritePid(d)
      PROVE  Sole'
  BY <1>6 DEF WritePid, Goto, Sole, Owning, TypeOK
<1>7. ASSUME NEW d \in Daemons, UnlinkSocket(d)
      PROVE  Sole'
  BY <1>7 DEF UnlinkSocket, Goto, Sole, Owning, TypeOK
<1>8. ASSUME NEW d \in Daemons, Bind(d)
      PROVE  Sole'
  BY <1>8 DEF Bind, Goto, Sole, Owning, TypeOK
<1>9. ASSUME NEW d \in Daemons, RemovePid(d)
      PROVE  Sole'
  BY <1>9 DEF RemovePid, Goto, Sole, Owning, TypeOK
<1>10. ASSUME NEW d \in Daemons, RemoveSocket(d)
       PROVE  Sole'
  BY <1>10 DEF RemoveSocket, Goto, Sole, Owning, TypeOK
<1>11. CASE Stop
  <2>1. /\ raced' = raced /\ pidFile' = pidFile /\ sock' = sock
        /\ \/ pc[pidFile] = "serving" /\ pc' = [pc EXCEPT ![pidFile] = "collected"]
           \/ pc' = [pc EXCEPT ![pidFile] = "dead"]
    BY <1>11 DEF Stop, Goto
  <2>2. \A e \in Daemons : Onward(pc[e], pc'[e])
    BY <2>1 DEF TypeOK, Owning, Onward
  <2> QED BY <2>1, <2>2, SoleKept
<1> QED
  BY <1>1, <1>2, <1>3, <1>4, <1>5, <1>6, <1>7, <1>8, <1>9, <1>10, <1>11
     DEF Next, Cleanup

\* Unless a start went through one of the windows of the PID check, a serving
\* daemon is the only one and owns the PID file and the socket.
THEOREM ServingCorrect == Spec => []ServingOwnsFiles
<1>1. Init => Sole
  BY DEF Init, Sole, Owning
<1>2. Sole => ServingOwnsFiles
  BY DEF Sole, ServingOwnsFiles, Owning
<1> QED BY <1>1, <1>2, TypeCorrect, SoleStep, PTL DEF Spec

-----------------------------------------------------------------------------
\* A volume is that of its daemon's session, unless the daemon was killed; a
\* daemon that has exited has none.
Held ==
    /\ faults = 0 => \A v \in Volumes, d \in Daemons :
                        volume[v] = d => session[d] = v \/ pc[d] = "dead"
    /\ \A d \in Daemons :
          session[d] # None => pc[d] \in {"serving", "draining"} \cup Stopping

LEMMA HeldStep == TypeOK /\ Held /\ [Next]_vars => Held'
<1> SUFFICES ASSUME TypeOK, Held, [Next]_vars PROVE Held'
  OBVIOUS
<1> USE DEF Goto, DropSession
<1>1. CASE UNCHANGED vars
  BY <1>1 DEF vars, Held
<1>2. ASSUME NEW d \in Daemons, Start(d) \/ ReadStale(d) \/ ClearStale(d)
                                \/ WritePid(d) \/ UnlinkSocket(d) \/ CheckPid(d)
      PROVE  Held'
  BY <1>2 DEF Start, ReadStale, ClearStale, CheckPid, WritePid, UnlinkSocket, Held,
              TypeOK, Stopping
<1>3. ASSUME NEW d \in Daemons, Bind(d) \/ Collect(d) \/ ClearEntries(d)
                                \/ RemovePid(d) \/ RemoveSocket(d)
      PROVE  Held'
  BY <1>3 DEF Bind, Collect, ClearEntries, RemovePid, RemoveSocket, Held, TypeOK,
              Stopping
<1>4. ASSUME NEW d \in Daemons, NEW v \in Volumes, UnmountStale(d, v)
      PROVE  Held'
  <2>1. /\ \A w \in Volumes : volume'[w] # None => volume'[w] = volume[w]
        /\ faults' = 0 => faults = 0
    BY <1>4, UnmountTyped DEF UnmountStale
  <2> QED BY <1>4, <2>1, DaemonStartAssumption DEF UnmountStale, Held
<1>5. ASSUME NEW d \in Daemons, NEW v \in Volumes, MountVolume(d, v)
      PROVE  Held'
  BY <1>5, DaemonStartAssumption DEF MountVolume, Held, TypeOK, Stopping
<1>6. ASSUME NEW d \in Daemons, FinishMount(d) \/ ReusePid(d)
      PROVE  Held'
  BY <1>6 DEF FinishMount, AddEntry, InsertHandle, ReusePid, Held
<1>7. ASSUME NEW d \in Daemons, Unmount(Mine(d)), session' = [session EXCEPT ![d] = None],
             \A e \in Daemons \ {d} : pc'[e] = pc[e], pc[d] # "dead"
      PROVE  Held'
  <2>1. /\ \A w \in Volumes : volume'[w] # None => volume'[w] = volume[w]
        /\ faults' = 0 => faults = 0 /\ \A w \in Mine(d) : volume'[w] = None
    BY <1>7, UnmountTyped DEF Mine
  <2>2. ASSUME faults' = 0, NEW w \in Volumes, NEW e \in Daemons, volume'[w] = e
        PROVE  session'[e] = w \/ pc'[e] = "dead"
    <3>1. volume[w] = e /\ (session[e] = w \/ pc[e] = "dead")
      BY <2>1, <2>2, DaemonStartAssumption DEF Held
    <3>2. CASE e = d
      <4>1. session[e] # w
        BY <2>1, <2>2, <3>1, <3>2, DaemonStartAssumption DEF Mine
      <4> QED BY <1>7, <3>1, <3>2, <4>1
    <3> QED BY <1>7, <3>1, <3>2 DEF TypeOK
  <2>3. \A e \in Daemons :
           session'[e] # None => pc'[e] \in {"serving", "draining"} \cup Stopping
    BY <1>7 DEF Held, TypeOK
  <2> QED BY <2>2, <2>3 DEF Held
<1>8. ASSUME NEW d \in Daemons, UnmountMount(d) \/ Exit(d)
      PROVE  Held'
  BY <1>8, <1>7 DEF UnmountMount, Exit, TypeOK
<1>9. ASSUME NEW d \in Daemons, StopMounts(d)
      PROVE  Held'
  <2>1. CASE step[d] = "listed"
    BY <1>9, <2>1, <1>7 DEF StopMounts, TypeOK
  <2>2. CASE step[d] # "listed"
    BY <1>9, <2>2 DEF StopMounts, Held, TypeOK, Stopping
  <2> QED BY <2>1, <2>2
<1>10. ASSUME NEW d \in Daemons, Crash(d)
       PROVE  Held'
  BY <1>10, DaemonStartAssumption DEF Crash, Held, TypeOK
<1>11. CASE Stop
  <2>1. /\ UNCHANGED <<volume, session, faults>>
        /\ \/ pc[pidFile] = "serving" /\ pc' = [pc EXCEPT ![pidFile] = "collected"]
           \/ pc[pidFile] \in Starting /\ pc' = [pc EXCEPT ![pidFile] = "dead"]
    BY <1>11 DEF Stop
  <2> QED BY <2>1 DEF Held, TypeOK, Stopping, Starting
<1> QED
  BY <1>1, <1>2, <1>3, <1>4, <1>5, <1>6, <1>8, <1>9, <1>10, <1>11
     DEF Next, Cleanup

\* A daemon that stopped orderly leaves no volume of its own mounted.
THEOREM StoppedCorrect == Spec => []StoppedLeavesNothing
<1>1. Init => Held
  BY DaemonStartAssumption DEF Init, Held
<1>2. TypeOK /\ Held => StoppedLeavesNothing
  BY DaemonStartAssumption DEF Held, StoppedLeavesNothing, Stopping
<1> QED BY <1>1, <1>2, TypeCorrect, HeldStep, PTL DEF Spec
=============================================================================
