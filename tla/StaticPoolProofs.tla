-------------------------- MODULE StaticPoolProofs --------------------------
(* Types of StaticPool, who has a worker and which processes run at once, for every set of slots and clients and every
   bound. *)
EXTENDS StaticPool, TLAPS

(* What the program counters say about the data the goroutines hold. *)
Control ==
  /\ \A w \in Worker : watch[w] \in {"list", "push"} => w[2] < MaxGen
  /\ npc \in {"list", "push"} => nw \in Worker
  /\ \A c \in Client : cw[c] = NoWorker <=> pc[c] \in {"idle", "call", "alloc", "select", "select2"}
  /\ ctl # "idle" => ctlW \in Worker

\* A worker is a slot and a generation, and the heir of one that is not the last is a worker.
LEMMA WorkerShape ==
  ASSUME NEW w \in Worker
  PROVE  /\ w = <<w[1], w[2]>> /\ w[1] \in Slot /\ w[2] \in 1..MaxGen
         /\ w[2] < MaxGen => Heir(w) \in Worker
         /\ Heir(w)[1] = w[1] /\ Heir(w)[2] = w[2] + 1
         /\ w # NoWorker
BY PoolAssumption DEF Worker, Slot, Heir

\* The workers NewPool creates are workers.
LEMMA FirstWorker == \A s \in Slot : <<s, 1>> \in Worker
BY PoolAssumption DEF Worker, Slot

\* What sending to p.free does to a queue that is not full.
LEMMA PushFree ==
  ASSUME NEW q \in Seq(Worker), NEW w \in Worker, Len(q) < NumWorkers
  PROVE  /\ Append(q, w) \in Seq(Worker) /\ Len(Append(q, w)) <= NumWorkers
         /\ Len(Append(q, w)) = Len(q) + 1
         /\ \A i \in 1..Len(q) : Append(q, w)[i] = q[i]
         /\ Append(q, w)[Len(q) + 1] = w
BY PoolAssumption

\* What receiving from p.free does to a queue that is not empty.
LEMMA PopFree ==
  ASSUME NEW q \in Seq(Worker), Len(q) <= NumWorkers, q # <<>>
  PROVE  /\ Head(q) \in Worker /\ Head(q) = q[1] /\ Len(q) \in Nat /\ Len(q) >= 1
         /\ Tail(q) \in Seq(Worker) /\ Len(Tail(q)) <= NumWorkers
         /\ Len(Tail(q)) = Len(q) - 1
         /\ \A i \in 1..Len(Tail(q)) : Tail(q)[i] = q[i + 1]
BY PoolAssumption

\* Past the receive in allocateWorker and before release or discardWorker a client has a worker.
LEMMA HolderHasWorker ==
  ASSUME TypeOK, Control, NEW c \in Client,
         pc[c] \notin {"idle", "call", "alloc", "select", "select2"}
  PROVE  cw[c] \in Worker
BY Zenon DEF TypeOK, ClientTypes, Control

\* The initial state is typed.
LEMMA InitTyped == Init => TypeOK /\ Control
<1> SUFFICES ASSUME Init PROVE TypeOK /\ Control
  BY Zenon
<1>1. WorkerTypes BY Zenon DEF Init, WorkerTypes
<1>2. PoolTypes
  <2>1. free \in Seq(Worker) /\ Len(free) = 0 BY DEF Init
  <2>2. Len(free) <= NumWorkers BY <2>1, PoolAssumption
  <2>3. numDead \in Int /\ workers \subseteq Worker /\ remove \subseteq Worker BY DEF Init
  <2>4. inDestroy \in BOOLEAN /\ closed \in BOOLEAN BY Zenon DEF Init
  <2> QED BY <2>1, <2>2, <2>3, <2>4, Zenon DEF PoolTypes
<1>3. ClientTypes BY Zenon DEF Init, ClientTypes
<1>4. GoroutineTypes BY Zenon DEF Init, GoroutineTypes
<1>5. EnvironmentTypes BY Zenon DEF Init, EnvironmentTypes
<1>6. Control BY Zenon DEF Init, Control
<1> QED BY <1>1, <1>2, <1>3, <1>4, <1>5, <1>6, Zenon DEF TypeOK

\* The steps of NewPool keep the types.
LEMMA NewPoolTyped == TypeOK /\ Control /\ NewPool => TypeOK' /\ Control'
<1> SUFFICES ASSUME TypeOK, Control, NewPool PROVE TypeOK' /\ Control'
  BY Zenon
<1> USE DEF TypeOK, workerVars, poolVars, clientVars, destroyVars, mainVars, ctlVars,
            WorkerTypes, PoolTypes, ClientTypes, GoroutineTypes, EnvironmentTypes, Control
<1>1. CASE NewPoolCreate
  <2> USE <1>1 DEF NewPoolCreate
  <2>1. PICK s \in Slot : Spawn(<<s, 1>>) /\ nw' = <<s, 1>> BY ZenonT(60) DEF Unfilled
  <2> QED BY <2>1, FirstWorker DEF Spawn
<1>2. CASE NewPoolFail
  BY <1>2, ZenonT(60) DEF NewPoolFail
<1>3. CASE NewPoolList
  BY <1>3 DEF NewPoolList
<1>4. CASE NewPoolPush
  <2>1. free' \in Seq(Worker) /\ Len(free') <= NumWorkers
    BY <1>4, PushFree, Zenon DEF NewPoolPush
  <2> QED BY <1>4, <2>1 DEF NewPoolPush
<1> QED BY <1>1, <1>2, <1>3, <1>4, Zenon DEF NewPool

\* The steps of allocateWorker keep the types.
LEMMA AllocateTyped ==
  ASSUME NEW c \in Client, TypeOK, Control, Invoke(c) \/ ExecEnter(c) \/ AllocateStep(c)
  PROVE  TypeOK' /\ Control'
<1> USE DEF TypeOK, workerVars, poolVars, clientVars, destroyVars, mainVars, ctlVars,
            WorkerTypes, PoolTypes, ClientTypes, GoroutineTypes, EnvironmentTypes, Control, Goto
<1>1. CASE Invoke(c)
  BY <1>1 DEF Invoke
<1>2. CASE ExecEnter(c)
  BY <1>2 DEF ExecEnter
<1>3. CASE AllocateBegin(c)
  BY <1>3 DEF AllocateBegin
<1>4. CASE AllocateAllDead(c)
  BY <1>4 DEF AllocateAllDead, Return
<1>5. CASE Receive(c)
  <2>1. free' \in Seq(Worker) /\ Len(free') <= NumWorkers /\ Head(free) \in Worker
    BY <1>5, PopFree, Zenon DEF Receive
  <2>2. Head(free) # NoWorker BY <2>1, WorkerShape, Zenon
  <2> QED BY <1>5, <2>1, <2>2, SMTT(30) DEF Receive
<1>6. CASE AllocateReady(c)
  BY <1>6 DEF AllocateReady
<1>12. CASE AllocateDead(c)
  BY <1>12 DEF AllocateDead
<1>7. CASE AllocateStopped(c)
  BY <1>7 DEF AllocateStopped, Return
<1>8. CASE AllocateBlock(c)
  BY <1>8 DEF AllocateBlock
<1>9. CASE AllocateTimeout(c)
  BY <1>9 DEF AllocateTimeout, Return
<1>10. CASE AllocateAccept(c)
  BY <1>10 DEF AllocateAccept
<1>11. CASE AllocateReject(c)
  <2>1. cw[c] \in Worker BY <1>11, HolderHasWorker, Zenon DEF AllocateReject
  <2> QED BY <1>11, <2>1 DEF AllocateReject, DiscardWorker, StartDestroy, Cause
<1> QED BY <1>1, <1>2, <1>3, <1>4, <1>5, <1>6, <1>7, <1>8, <1>9, <1>10, <1>11, <1>12, ZenonT(60) DEF AllocateStep

\* The steps of Exec keep the types.
LEMMA ExecTyped ==
  ASSUME NEW c \in Client, TypeOK, Control, ExecStep(c)
  PROVE  TypeOK' /\ Control'
<1> USE DEF TypeOK, workerVars, poolVars, clientVars, destroyVars, mainVars, ctlVars,
            WorkerTypes, PoolTypes, ClientTypes, GoroutineTypes, EnvironmentTypes, Control, Goto
<1>1. CASE ExecEnter(c) \/ AllocateStep(c)
  BY <1>1, AllocateTyped, Zenon
<1>2. CASE WorkerExecBegin(c)
  <2>1. cw[c] \in Worker BY <1>2, HolderHasWorker, Zenon DEF WorkerExecBegin
  <2> QED BY <1>2, <2>1 DEF WorkerExecBegin
<1>3. CASE WorkerExecRefuse(c)
  BY <1>3 DEF WorkerExecRefuse
<1>4. CASE WorkerExecPayload(c)
  BY <1>4, PoolAssumption DEF WorkerExecPayload
<1>5. CASE WorkerExecEnd(c)
  <2>1. cw[c] \in Worker BY <1>5, HolderHasWorker, Zenon DEF WorkerExecEnd
  <2>2. WorkerTypes' BY <1>5, <2>1 DEF WorkerExecEnd
  <2>3. PoolTypes' /\ ClientTypes' /\ GoroutineTypes' /\ EnvironmentTypes' BY <1>5 DEF WorkerExecEnd
  <2>4. Control' BY <1>5 DEF WorkerExecEnd
  <2> QED BY <2>2, <2>3, <2>4, Zenon
<1>6. CASE ExecDiscard(c)
  <2>1. cw[c] \in Worker BY <1>6, HolderHasWorker, Zenon DEF ExecDiscard
  <2> QED BY <1>6, <2>1 DEF ExecDiscard, DiscardWorker, StartDestroy, Cause, Return
<1>7. CASE ExecRestart(c)
  <2>1. cw[c] \in Worker BY <1>7, HolderHasWorker, Zenon DEF ExecRestart
  <2> QED BY <1>7, <2>1 DEF ExecRestart, DiscardWorker, StartDestroy, Cause
<1>8. CASE ExecRelease(c)
  BY <1>8 DEF ExecRelease
<1>9. CASE ReleasePush(c)
  <2>1. cw[c] \in Worker BY <1>9, HolderHasWorker, Zenon DEF ReleasePush
  <2>2. free' \in Seq(Worker) /\ Len(free') <= NumWorkers
    BY <1>9, <2>1, PushFree, Zenon DEF ReleasePush
  <2> QED BY <1>9, <2>2 DEF ReleasePush, Return
<1> QED BY <1>1, <1>2, <1>3, <1>4, <1>5, <1>6, <1>7, <1>8, <1>9, Zenon DEF ExecStep

\* The steps of watchWorker keep the types.
LEMMA WatchTyped ==
  ASSUME NEW w \in Worker, TypeOK, Control, WatchStep(w)
  PROVE  TypeOK' /\ Control'
<1> USE DEF TypeOK, workerVars, poolVars, clientVars, destroyVars, mainVars, ctlVars,
            WorkerTypes, PoolTypes, ClientTypes, GoroutineTypes, EnvironmentTypes, Control, Watch
<1>1. CASE WatchWait(w)
  BY <1>1 DEF WatchWait
<1>2. CASE WatchDetach(w)
  BY <1>2 DEF WatchDetach
<1>3. CASE WatchCount(w)
  BY <1>3 DEF WatchCount
<1>4. CASE WatchCheck(w)
  BY <1>4 DEF WatchCheck
<1>5. CASE WatchSpawn(w)
  BY <1>5, WorkerShape, SMTT(30) DEF WatchSpawn, Spawn
<1>6. CASE WatchSpawnFail(w)
  BY <1>6 DEF WatchSpawnFail
<1>7. CASE WatchList(w)
  <2>1. Heir(w) \in Worker BY <1>7, WorkerShape, Zenon DEF WatchList
  <2>2. PoolTypes' BY <1>7, <2>1, Zenon DEF WatchList
  <2>3. GoroutineTypes' BY <1>7, <2>1, Zenon DEF WatchList
  <2>4. WorkerTypes' /\ ClientTypes' /\ EnvironmentTypes' BY <1>7, Zenon DEF WatchList
  <2>5. Control' BY <1>7, <2>1 DEF WatchList
  <2> QED BY <2>2, <2>3, <2>4, <2>5, Zenon
<1>8. CASE WatchPush(w)
  <2>1. free' \in Seq(Worker) /\ Len(free') <= NumWorkers
    BY <1>8, PushFree, WorkerShape, Zenon DEF WatchPush
  <2> QED BY <1>8, <2>1 DEF WatchPush
<1> QED BY <1>1, <1>2, <1>3, <1>4, <1>5, <1>6, <1>7, <1>8, ZenonT(60) DEF WatchStep

\* The steps of destroyWorker keep the types.
LEMMA DestroyWorkerTyped ==
  ASSUME NEW k \in Cause, NEW w \in Worker, TypeOK, Control, DestroyWorkerStep(k, w)
  PROVE  TypeOK' /\ Control'
<1> USE DEF TypeOK, workerVars, poolVars, clientVars, destroyVars, mainVars, ctlVars,
            WorkerTypes, PoolTypes, ClientTypes, GoroutineTypes, EnvironmentTypes, Control, Exit, Kill
<1>1. CASE StopTest(k, w)
  BY <1>1 DEF StopTest
<1>2. CASE Stop(k, w)
  BY <1>2 DEF Stop
<1>3. CASE DestroyTimeout(k, w)
  BY <1>3 DEF DestroyTimeout
<1>4. CASE DestroyKill(k, w)
  BY <1>4, SMTT(30) DEF DestroyKill
<1> QED BY <1>1, <1>2, <1>3, <1>4, ZenonT(60) DEF DestroyWorkerStep

\* The steps of a process keep the types.
LEMMA ProcessTyped ==
  ASSUME NEW w \in Worker, TypeOK, Control, RemoveCheck(w) \/ Crash(w) \/ ObeyStop(w) \/ Reap(w)
  PROVE  TypeOK' /\ Control'
<1> USE DEF TypeOK, workerVars, poolVars, clientVars, destroyVars, mainVars, ctlVars,
            WorkerTypes, PoolTypes, ClientTypes, GoroutineTypes, EnvironmentTypes, Control, Exit, Kill
<1>1. CASE RemoveCheck(w)
  BY <1>1 DEF RemoveCheck
<1>2. CASE Crash(w)
  BY <1>2 DEF Crash
<1>3. CASE ObeyStop(w)
  BY <1>3 DEF ObeyStop
<1>4. CASE Reap(w)
  BY <1>4 DEF Reap
<1> QED BY <1>1, <1>2, <1>3, <1>4, Zenon

\* The steps of the controller that calls Remove and Kill keep the types.
LEMMA ControllerTyped ==
  ASSUME TypeOK, Control, Controller
  PROVE  TypeOK' /\ Control'
<1> USE DEF TypeOK, workerVars, poolVars, clientVars, destroyVars, mainVars, ctlVars,
            WorkerTypes, PoolTypes, ClientTypes, GoroutineTypes, EnvironmentTypes, Control, Exit, Kill
<1>0. CASE RemoveLoad
  BY <1>0 DEF RemoveLoad
<1>1. CASE RemoveStore
  BY <1>1 DEF RemoveStore
<1>2. CASE ControllerKillTest
  BY <1>2 DEF ControllerKillTest
<1>3. CASE ControllerKill
  BY <1>3 DEF ControllerKill
<1>4. CASE ControllerDone
  BY <1>4 DEF ControllerDone
<1> QED BY <1>0, <1>1, <1>2, <1>3, <1>4, Zenon DEF Controller

\* The steps of Destroy keep the types.
LEMMA DestroyTyped == TypeOK /\ Control /\ (DestroyCall \/ Destroy) => TypeOK' /\ Control'
<1> SUFFICES ASSUME TypeOK, Control, DestroyCall \/ Destroy PROVE TypeOK' /\ Control'
  BY Zenon
<1> USE DEF TypeOK, workerVars, poolVars, clientVars, destroyVars, mainVars, ctlVars,
            WorkerTypes, PoolTypes, ClientTypes, GoroutineTypes, EnvironmentTypes, Control
<1>1. CASE DestroyMark
  BY <1>1 DEF DestroyMark, StartDestroy, Cause
<1>2. CASE DestroyCall \/ DestroyLock
  BY <1>2 DEF DestroyCall, DestroyLock
<1>4. CASE DestroyBegin
  BY <1>4 DEF DestroyBegin
<1>5. CASE DestroyClose
  BY <1>5 DEF DestroyClose
<1>3. CASE DestroyList \/ DestroyMarked \/ DestroyJoin
  BY <1>3, SMTT(30) DEF DestroyList, DestroyMarked, DestroyJoin
<1> QED BY <1>1, <1>2, <1>3, <1>4, <1>5, Zenon DEF Destroy

\* Every step keeps the types.
LEMMA NextTyped == TypeOK /\ Control /\ [Next]_vars => TypeOK' /\ Control'
<1> SUFFICES ASSUME TypeOK, Control, [Next]_vars PROVE TypeOK' /\ Control'
  BY SMTT(60)
<1>1. CASE UNCHANGED vars
  BY <1>1 DEF vars, TypeOK, workerVars, poolVars, clientVars, destroyVars, mainVars, ctlVars, Control,
     WorkerTypes, PoolTypes, ClientTypes, GoroutineTypes, EnvironmentTypes
<1>2. CASE NewPool
  BY <1>2, NewPoolTyped, Zenon
<1>3. CASE DestroyCall \/ Destroy
  BY <1>3, DestroyTyped, Zenon
<1>4. ASSUME NEW c \in Client, Invoke(c) \/ ExecStep(c) PROVE TypeOK' /\ Control'
  BY <1>4, AllocateTyped, ExecTyped, Zenon
<1>5. ASSUME NEW w \in Worker, WatchStep(w) PROVE TypeOK' /\ Control'
  BY <1>5, WatchTyped, Zenon
<1>6. ASSUME NEW w \in Worker, RemoveCheck(w) \/ Crash(w) \/ ObeyStop(w) \/ Reap(w)
      PROVE  TypeOK' /\ Control'
  BY <1>6, ProcessTyped, Zenon
<1>7. ASSUME NEW k \in Cause, NEW w \in Worker, DestroyWorkerStep(k, w)
      PROVE  TypeOK' /\ Control'
  BY <1>7, DestroyWorkerTyped, Zenon
<1>8. CASE Controller
  BY <1>8, ControllerTyped, Zenon
<1> QED BY <1>1, <1>2, <1>3, <1>4, <1>5, <1>6, <1>7, <1>8, Zenon DEF Next

\* Every reachable state is well typed: p.free never exceeds its capacity, a client at a program
\* point of Exec that uses a worker holds one, and replacements stay within the bound.
THEOREM TypeCorrect == Spec => []TypeOK
<1>1. Init => TypeOK /\ Control
  BY InitTyped, Zenon
<1>2. (TypeOK /\ Control) /\ [Next]_vars => (TypeOK /\ Control)'
  BY NextTyped, Zenon
<1> QED BY <1>1, <1>2, PTL DEF Spec
-----------------------------------------------------------------------------
(* Who has a worker *)

(* A worker that was never spawned has left no trace. *)
Unborn ==
  \A w \in Worker : proc[w] = "none" =>
    /\ watch[w] = "none" /\ ~waitDone[w] /\ numExecs[w] = 0
    /\ dtor["discard"][w] = "none"

(* waitDone is closed only for a process that is gone, and the watcher passes Wait only then. *)
Reaped ==
  \A w \in Worker :
    /\ waitDone[w] => proc[w] \in {"exit0", "exit1"}
    /\ watch[w] \notin {"none", "wait"} => waitDone[w]

(* The heir of a worker exists exactly once its watcher has spawned it. *)
Succession ==
  \A w \in Worker : w[2] < MaxGen =>
    /\ proc[Heir(w)] # "none" => watch[w] \in {"list", "push", "done"}
    /\ watch[w] \in {"list", "push"} => proc[Heir(w)] # "none"
    /\ watch[w] = "list" => watch[Heir(w)] = "none"

(* Of the workers of one slot, all but the last spawned are reaped. *)
Generations ==
  \A v, w \in Worker : (v[1] = w[1] /\ v[2] < w[2] /\ proc[w] # "none") => waitDone[v]

(* NewPool holds a first-generation worker that has been spawned. *)
Creating ==
  npc \in {"list", "push"} =>
    /\ nw[2] = 1 /\ proc[nw] # "none"
    /\ npc = "list" => watch[nw] = "none"

(* Workers in circulation have been spawned. *)
Born ==
  /\ \A w \in Queued : proc[w] # "none"
  /\ \A c \in Client : cw[c] # NoWorker => proc[cw[c]] # "none"

Lineage == Unborn /\ Reaped /\ Succession /\ Generations /\ Creating /\ Born

(* No worker is queued twice. *)
Distinct == \A i, j \in 1..Len(free) : free[i] = free[j] => i = j

\* Sending a worker that is not queued adds it and keeps the queue free of duplicates.
LEMMA QueuedPush ==
  ASSUME TypeOK, Distinct, NEW w \in Worker, w \notin Queued, Len(free) < NumWorkers,
         free' = Append(free, w)
  PROVE  Queued' = Queued \cup {w} /\ Distinct'
<1> DEFINE n == Len(free)
<1>1. free \in Seq(Worker) /\ n \in Nat
  BY DEF TypeOK, PoolTypes
<1>2. /\ Len(free') = n + 1 /\ free'[n + 1] = w
      /\ \A i \in 1..n : free'[i] = free[i]
  BY <1>1, PushFree, Zenon
<1> HIDE DEF n
<1>3. \A i \in 1..(n + 1) : i \in 1..n \/ i = n + 1
  BY <1>1
<1>4. Queued' = Queued \cup {w}
  BY <1>1, <1>2, <1>3 DEF Queued, n
<1>5. \A i \in 1..n : free[i] # w
  BY Zenon DEF Queued, n
<1>6. Distinct'
  BY <1>1, <1>2, <1>3, <1>5 DEF Distinct, n
<1> QED BY <1>4, <1>6, Zenon

\* The queue holds workers.
LEMMA QueuedWorkers ==
  ASSUME TypeOK PROVE Queued \subseteq Worker
BY DEF Queued, TypeOK, PoolTypes

\* Receiving takes the first worker out of the queue.
LEMMA QueuedPop ==
  ASSUME TypeOK, Distinct, free # <<>>, free' = Tail(free)
  PROVE  /\ Head(free) \in Queued /\ Head(free) \in Worker
         /\ Queued' = Queued \ {Head(free)} /\ Distinct'
<1> DEFINE n == Len(free)
<1>1. /\ free \in Seq(Worker) /\ Len(free) <= NumWorkers
  BY Zenon DEF TypeOK, PoolTypes
<1>2. /\ Head(free) \in Worker /\ Head(free) = free[1] /\ n \in Nat /\ n >= 1
      /\ Len(free') = n - 1
      /\ \A i \in 1..(n - 1) : free'[i] = free[i + 1]
  BY <1>1, PopFree, Zenon
<1> HIDE DEF n
<1>3. Head(free) \in Queued
  BY <1>2 DEF Queued, n
<1>4. \A i \in 1..(n - 1) : i + 1 \in 1..n /\ free[i + 1] # free[1]
  BY <1>2 DEF Distinct, n
<1>5. \A i \in 1..n : i = 1 \/ (i - 1 \in 1..(n - 1) /\ free'[i - 1] = free[i])
  BY <1>2
<1>6. Queued' = Queued \ {Head(free)}
  <2>1. \A x : x \in Queued' <=> \E i \in 1..(n - 1) : x = free[i + 1]
    BY <1>2 DEF Queued
  <2>2. \A x : x \in Queued <=> \E i \in 1..n : x = free[i]
    BY Zenon DEF Queued, n
  <2>3. ASSUME NEW x \in Queued' PROVE x \in Queued /\ x # Head(free)
    BY <2>1, <2>2, <2>3, <1>2, <1>4
  <2>4. ASSUME NEW x \in Queued, x # Head(free) PROVE x \in Queued'
    <3>1. PICK i \in 1..n : x = free[i]
      BY <2>2, Zenon
    <3>2. i - 1 \in 1..(n - 1) /\ free'[i - 1] = x
      BY <3>1, <2>4, <1>5, <1>2, Zenon
    <3> QED BY <3>2, <1>2, Zenon DEF Queued
  <2> QED BY <2>3, <2>4, Zenon
<1>7. Distinct'
  <2> SUFFICES ASSUME NEW i \in 1..(n - 1), NEW j \in 1..(n - 1), free[i + 1] = free[j + 1]
               PROVE  i = j
    BY <1>2 DEF Distinct
  <2>1. i + 1 \in 1..n /\ j + 1 \in 1..n
    BY <1>2
  <2>2. i + 1 = j + 1
    BY <2>1, Zenon DEF Distinct, n
  <2> QED BY <2>2, <1>2
<1> QED BY <1>2, <1>3, <1>6, <1>7, Zenon

\* Membership in Fresh, spelled out.
LEMMA FreshMembers ==
  \A x : x \in Fresh <=> \/ \E v \in Worker : watch[v] \in {"list", "push"} /\ x = Heir(v)
                         \/ npc \in {"list", "push"} /\ x = nw
BY Zenon DEF Fresh

\* No two workers have the same heir.
LEMMA HeirInjective ==
  ASSUME NEW v \in Worker, NEW w \in Worker, Heir(v) = Heir(w)
  PROVE  v = w
<1>1. v[1] = w[1] /\ v[2] + 1 = w[2] + 1
  BY Zenon DEF Heir
<1>2. v[2] = w[2]
  BY <1>1, WorkerShape
<1> QED BY <1>1, <1>2, WorkerShape, Zenon

\* A worker about to be queued is a worker and has been spawned.
LEMMA FreshBorn ==
  ASSUME TypeOK, Control, Lineage
  PROVE  \A x \in Fresh : x \in Worker /\ proc[x] # "none"
<1> SUFFICES ASSUME NEW x \in Fresh PROVE x \in Worker /\ proc[x] # "none"
  BY Zenon
<1>1. CASE npc \in {"list", "push"} /\ x = nw
  BY <1>1, Zenon DEF Lineage, Creating, Control
<1>2. ASSUME NEW v \in Worker, watch[v] \in {"list", "push"}, x = Heir(v)
      PROVE  x \in Worker /\ proc[x] # "none"
  BY <1>2, WorkerShape, Zenon DEF Lineage, Succession, Control
<1> QED BY <1>1, <1>2, FreshMembers, Zenon
-----------------------------------------------------------------------------
(* Lineage is inductive *)

(* A step discards no worker. *)
SameDiscards ==
  \A w \in Worker : (dtor'["discard"][w] = "none") <=> (dtor["discard"][w] = "none")

\* A step that moves spawned workers between the queue and the clients, and touches the counters
\* of spawned workers only, preserves Lineage.
LEMMA CirculationLineage ==
  ASSUME TypeOK, Lineage, UNCHANGED <<proc, waitDone, watch, npc, nw>>,
         \A w \in Worker : proc[w] = "none" =>
           numExecs'[w] = numExecs[w] /\ dtor'["discard"][w] = "none",
         \A w \in Queued' : proc[w] # "none",
         \A c \in Client : cw'[c] # NoWorker => proc[cw'[c]] # "none"
  PROVE  Lineage'
<1>1. Unborn' BY Zenon DEF Lineage, Unborn
<1>2. Reaped' BY Zenon DEF Lineage, Reaped
<1>3. Succession' BY Zenon DEF Lineage, Succession
<1>4. Generations' BY Zenon DEF Lineage, Generations
<1>5. Creating' BY Zenon DEF Lineage, Creating
<1>6. Born' BY Zenon DEF Lineage, Born
<1> QED BY <1>1, <1>2, <1>3, <1>4, <1>5, <1>6, Zenon DEF Lineage

\* So does a step that touches none of the variables of Lineage.
LEMMA IdleLineage ==
  ASSUME TypeOK, Lineage, UNCHANGED <<proc, waitDone, watch, npc, nw, numExecs, free, cw>>,
         SameDiscards
  PROVE  Lineage'
<1>1. Queued' = Queued BY Zenon DEF Queued
<1> QED BY <1>1, CirculationLineage, Zenon DEF Lineage, Born, Unborn, SameDiscards

\* Lineage holds initially.
LEMMA InitLineage == Init => Lineage
<1> SUFFICES ASSUME Init PROVE Lineage
  BY Zenon
<1>1. Queued = {} BY DEF Init, Queued
<1>2. Unborn BY Zenon DEF Init, Unborn, Cause
<1>3. Reaped BY Zenon DEF Init, Reaped
<1>4. Succession BY WorkerShape, Zenon DEF Init, Succession
<1>5. Generations BY Zenon DEF Init, Generations
<1>6. Creating /\ Born BY <1>1, Zenon DEF Init, Creating, Born
<1> QED BY <1>2, <1>3, <1>4, <1>5, <1>6, Zenon DEF Lineage

\* The process of w was never spawned and all earlier processes of its slot are reaped: spawning it
\* keeps the generations of the slot in order.
LEMMA SpawnGenerations ==
  ASSUME TypeOK, Lineage, NEW w \in Worker, proc[w] = "none", Spawn(w),
         \A v \in Worker : v[1] = w[1] /\ v[2] < w[2] => waitDone[v]
  PROVE  Generations'
BY Zenon DEF Spawn, TypeOK, WorkerTypes, Lineage, Generations

\* The steps of NewPool keep Lineage.
LEMMA NewPoolLineage ==
  ASSUME TypeOK, Control, Lineage, Distinct, Queued \cap Fresh = {}, NewPool
  PROVE  Lineage'
<1> USE DEF workerVars, poolVars, clientVars, destroyVars, mainVars, ctlVars
<1>1. CASE NewPoolCreate
  <2>1. PICK s \in Slot : proc[<<s, 1>>] = "none" /\ Spawn(<<s, 1>>) /\ nw' = <<s, 1>>
    BY <1>1, Zenon DEF NewPoolCreate, Unfilled
  <2> DEFINE w == <<s, 1>>
  <2>2. w \in Worker /\ w[1] = s /\ w[2] = 1
    BY FirstWorker, Zenon
  <2> HIDE DEF w
  <2>3. /\ proc' = [proc EXCEPT ![w] = "running"] /\ proc[w] = "none" /\ nw' = w /\ npc' = "list"
        /\ UNCHANGED <<waitDone, numExecs, dtor, watch, free, cw>>
    BY <1>1, <2>1, ZenonT(60) DEF w, Spawn, NewPoolCreate
  <2>4. Unborn' BY <2>2, <2>3, Zenon DEF Lineage, Unborn, TypeOK, WorkerTypes
  <2>5. Reaped' BY <2>2, <2>3, Zenon DEF Lineage, Reaped, Unborn, TypeOK, WorkerTypes
  <2>6. Succession'
    <3>1. \A v \in Worker : v[2] < MaxGen => Heir(v) \in Worker /\ Heir(v)[2] # 1
      BY WorkerShape
    <3>2. \A v \in Worker : v[2] < MaxGen => proc'[Heir(v)] = proc[Heir(v)]
      BY <2>2, <2>3, <3>1, Zenon DEF TypeOK, WorkerTypes
    <3> QED BY <2>3, <3>2, Zenon DEF Lineage, Succession
  <2>7. Generations'
    <3>1. \A v \in Worker : ~(v[2] < 1)
      BY WorkerShape
    <3> QED BY <2>1, <2>2, <3>1, SpawnGenerations, Zenon DEF w
  <2>8. Creating' BY <2>2, <2>3, Zenon DEF Lineage, Unborn, Creating, TypeOK, WorkerTypes
  <2>9. Born'
    <3>1. Queued' = Queued BY <2>3, Zenon DEF Queued
    <3> QED BY <2>2, <2>3, <3>1 DEF Lineage, Born, TypeOK, WorkerTypes, ClientTypes
  <2> QED BY <2>4, <2>5, <2>6, <2>7, <2>8, <2>9, Zenon DEF Lineage
<1>2. CASE NewPoolFail
  <2>1. Queued' = Queued BY <1>2, Zenon DEF NewPoolFail, Queued
  <2>2. Creating' BY <1>2, Zenon DEF NewPoolFail, Creating
  <2> QED BY <1>2, <2>1, <2>2, Zenon
      DEF NewPoolFail, Lineage, Unborn, Reaped, Succession, Generations, Born
<1>3. CASE NewPoolList
  <2>1. /\ nw \in Worker /\ watch[nw] = "none" /\ proc[nw] # "none"
        /\ watch' = [watch EXCEPT ![nw] = "wait"] /\ npc' = "push"
        /\ nw[2] = 1
        /\ UNCHANGED <<proc, waitDone, numExecs, dtor, free, cw, nw>>
    BY <1>3, Zenon DEF NewPoolList, Control, Lineage, Creating
  <2>2. Queued' = Queued BY <2>1, Zenon DEF Queued
  <2>3. Unborn' BY <2>1, Zenon DEF Lineage, Unborn, TypeOK, GoroutineTypes
  <2>4. Reaped' BY <2>1, Zenon DEF Lineage, Reaped, TypeOK, GoroutineTypes
  <2>5. Succession'
    <3>1. \A v \in Worker : v[2] < MaxGen => Heir(v) \in Worker /\ Heir(v)[2] # 1
      BY WorkerShape
    <3>2. \A v \in Worker : v[2] < MaxGen => watch'[Heir(v)] = watch[Heir(v)]
      BY <2>1, <3>1, Zenon DEF TypeOK, GoroutineTypes
    <3>3. \A v \in Worker : v[2] < MaxGen /\ v = nw => proc[Heir(v)] = "none"
      BY <2>1, <3>1, Zenon DEF Lineage, Succession
    <3> QED BY <2>1, <3>2, <3>3, Zenon DEF Lineage, Succession, TypeOK, GoroutineTypes
  <2>6. Generations' BY <2>1, Zenon DEF Lineage, Generations
  <2>7. Creating' BY <2>1, Zenon DEF Lineage, Creating
  <2>8. Born' BY <2>1, <2>2, Zenon DEF Lineage, Born
  <2> QED BY <2>3, <2>4, <2>5, <2>6, <2>7, <2>8, Zenon DEF Lineage
<1>4. CASE NewPoolPush
  <2>1. /\ nw \in Worker /\ proc[nw] # "none" /\ npc' \notin {"list", "push"}
        /\ free' = Append(free, nw) /\ Len(free) < NumWorkers
        /\ UNCHANGED <<proc, waitDone, numExecs, dtor, watch, cw>>
    BY <1>4, Zenon DEF NewPoolPush, Control, Lineage, Creating
  <2>2. nw \notin Queued
    BY <1>4, FreshMembers, Zenon DEF NewPoolPush
  <2>3. Queued' = Queued \cup {nw} BY <2>1, <2>2, QueuedPush, Zenon
  <2>4. Creating' BY <2>1, Zenon DEF Creating
  <2>5. Born' BY <2>1, <2>3, Zenon DEF Lineage, Born
  <2> QED BY <2>1, <2>4, <2>5 DEF Lineage, Unborn, Reaped, Succession, Generations
<1> QED BY <1>1, <1>2, <1>3, <1>4, Zenon DEF NewPool

\* The steps of Exec keep Lineage.
LEMMA ExecLineage ==
  ASSUME TypeOK, Control, Lineage, OneOwner, NEW c \in Client, Invoke(c) \/ ExecStep(c)
  PROVE  Lineage'
<1> USE DEF workerVars, poolVars, clientVars, destroyVars, mainVars, ctlVars, Goto
<1>0. Distinct
  BY Zenon DEF OneOwner, Distinct
<1>1. CASE \/ Invoke(c) \/ ExecEnter(c) \/ AllocateBegin(c) \/ AllocateBlock(c) \/ AllocateReady(c)
           \/ AllocateAccept(c)
  <2>1. UNCHANGED <<proc, waitDone, watch, npc, nw, numExecs, free, cw>> /\ SameDiscards
    BY <1>1, Zenon
       DEF SameDiscards, Invoke, ExecEnter, AllocateBegin, AllocateBlock, AllocateReady, AllocateAccept
  <2> QED BY <2>1, IdleLineage, Zenon
<1>2. CASE \/ WorkerExecBegin(c) \/ WorkerExecRefuse(c) \/ WorkerExecPayload(c) \/ ExecRelease(c)
  <2>1. UNCHANGED <<proc, waitDone, watch, npc, nw, numExecs, free, cw>> /\ SameDiscards
    BY <1>2, Zenon DEF SameDiscards, WorkerExecBegin, WorkerExecRefuse, WorkerExecPayload, ExecRelease
  <2> QED BY <2>1, IdleLineage, Zenon
<1>3. CASE \/ AllocateAllDead(c) \/ AllocateStopped(c) \/ AllocateTimeout(c) \/ AllocateDead(c)
  <2>1. /\ cw' = [cw EXCEPT ![c] = NoWorker]
        /\ UNCHANGED <<proc, waitDone, watch, npc, nw, numExecs, dtor, free>>
    BY <1>3, Zenon DEF AllocateAllDead, AllocateStopped, AllocateTimeout, AllocateDead, Return
  <2>2. Queued' = Queued BY <2>1, Zenon DEF Queued
  <2> QED BY <2>1, <2>2, CirculationLineage, Zenon DEF Lineage, Born, Unborn, TypeOK, ClientTypes
<1>4. CASE Receive(c)
  <2>1. /\ free # <<>> /\ free' = Tail(free) /\ cw' = [cw EXCEPT ![c] = Head(free)]
        /\ UNCHANGED <<proc, waitDone, watch, npc, nw, numExecs, dtor>>
    BY <1>4, Zenon DEF Receive
  <2>2. Head(free) \in Queued /\ Queued' = Queued \ {Head(free)}
    BY <2>1, <1>0, QueuedPop, Zenon
  <2> QED BY <2>1, <2>2, CirculationLineage, Zenon DEF Lineage, Born, Unborn, TypeOK, ClientTypes
<1>5. CASE WorkerExecEnd(c)
  <2>1. cw[c] \in Worker BY <1>5, HolderHasWorker, Zenon DEF WorkerExecEnd
  <2>2. proc[cw[c]] # "none" BY <2>1, WorkerShape, Zenon DEF Lineage, Born
  <2>3. Queued' = Queued BY <1>5, Zenon DEF WorkerExecEnd, Queued
  <2>4. /\ numExecs' = [numExecs EXCEPT ![cw[c]] = @ + 1]
        /\ UNCHANGED <<proc, waitDone, watch, npc, nw, dtor, cw>>
    BY <1>5, Zenon DEF WorkerExecEnd
  <2> QED BY <2>1, <2>2, <2>3, <2>4, CirculationLineage, Zenon DEF Lineage, Born, Unborn, TypeOK, WorkerTypes
<1>6. CASE AllocateReject(c) \/ ExecDiscard(c) \/ ExecRestart(c)
  <2>1. cw[c] \in Worker
    BY <1>6, HolderHasWorker, Zenon DEF AllocateReject, ExecDiscard, ExecRestart
  <2>2. proc[cw[c]] # "none" BY <2>1, WorkerShape, Zenon DEF Lineage, Born
  <2>3. /\ cw' = [cw EXCEPT ![c] = NoWorker]
        /\ dtor' = [dtor EXCEPT !["discard"][cw[c]] = "select"]
        /\ UNCHANGED <<proc, waitDone, watch, npc, nw, numExecs, free>>
    BY <1>6, Zenon DEF AllocateReject, ExecDiscard, ExecRestart, DiscardWorker, StartDestroy, Return
  <2>4. Queued' = Queued BY <2>3, Zenon DEF Queued
  <2>5. \A w \in Worker : proc[w] = "none" => dtor'["discard"][w] = "none"
    BY <2>1, <2>2, <2>3, Zenon DEF Lineage, Unborn, TypeOK, GoroutineTypes, Cause
  <2> QED BY <2>3, <2>4, <2>5, CirculationLineage DEF Lineage, Born, Unborn, TypeOK, ClientTypes
<1>7. CASE ReleasePush(c)
  <2>1. cw[c] \in Worker BY <1>7, HolderHasWorker, Zenon DEF ReleasePush
  <2>2. proc[cw[c]] # "none" /\ cw[c] \notin Queued
    BY <2>1, WorkerShape, Zenon DEF Lineage, Born, OneOwner
  <2>3. /\ free' = Append(free, cw[c]) /\ Len(free) < NumWorkers /\ cw' = [cw EXCEPT ![c] = NoWorker]
        /\ UNCHANGED <<proc, waitDone, watch, npc, nw, numExecs, dtor>>
    BY <1>7, Zenon DEF ReleasePush, Return
  <2>4. Queued' = Queued \cup {cw[c]} BY <1>0, <2>1, <2>2, <2>3, QueuedPush, Zenon
  <2> QED BY <2>2, <2>3, <2>4, CirculationLineage DEF Lineage, Born, Unborn, TypeOK, ClientTypes
<1> QED BY <1>1, <1>2, <1>3, <1>4, <1>5, <1>6, <1>7, Zenon DEF ExecStep, AllocateStep

\* The steps of Destroy and Remove keep Lineage.
LEMMA DestroyLineage ==
  ASSUME TypeOK, Lineage, DestroyCall \/ Destroy \/ RemoveLoad \/ RemoveStore \/ ControllerKillTest \/ ControllerDone
  PROVE  Lineage'
<1> USE DEF workerVars, poolVars, clientVars, destroyVars, mainVars, ctlVars
<1>1. CASE DestroyMark
  <2>1. PICK w \in snap : StartDestroy("destroy", w)
    BY <1>1, Zenon DEF DestroyMark
  <2>2. SameDiscards
    BY <2>1, Zenon DEF SameDiscards, StartDestroy, TypeOK, GoroutineTypes, Cause
  <2>3. UNCHANGED <<proc, waitDone, watch, npc, nw, numExecs, free, cw>> BY <1>1, Zenon DEF DestroyMark
  <2> QED BY <2>2, <2>3, IdleLineage, Zenon
<1>2. CASE DestroyCall \/ DestroyBegin \/ DestroyLock \/ DestroyClose
  <2>1. UNCHANGED <<proc, waitDone, watch, npc, nw, numExecs, free, cw>> /\ SameDiscards
    BY <1>2, Zenon DEF SameDiscards, DestroyCall, DestroyBegin, DestroyLock, DestroyClose
  <2> QED BY <2>1, IdleLineage, Zenon
<1>3. CASE DestroyList \/ DestroyMarked \/ DestroyJoin
  <2>1. UNCHANGED <<proc, waitDone, watch, npc, nw, numExecs, free, cw>> /\ SameDiscards
    BY <1>3, Zenon DEF SameDiscards, DestroyList, DestroyMarked, DestroyJoin
  <2> QED BY <2>1, IdleLineage, Zenon
<1>4. CASE RemoveLoad \/ RemoveStore \/ ControllerKillTest \/ ControllerDone
  <2>1. UNCHANGED <<proc, waitDone, watch, npc, nw, numExecs, free, cw>> /\ SameDiscards
    BY <1>4, Zenon DEF SameDiscards, RemoveLoad, RemoveStore, ControllerKillTest, ControllerDone
  <2> QED BY <2>1, IdleLineage, Zenon
<1> QED BY <1>1, <1>2, <1>3, <1>4, Zenon DEF Destroy

\* A process that exits, and one that is reaped.
LEMMA ExitLineage ==
  ASSUME TypeOK, Lineage, NEW w \in Worker, NEW status \in {"exit0", "exit1"}, Exit(w, status),
         UNCHANGED <<waitDone, watch, npc, nw, numExecs, free, cw>>,
         SameDiscards
  PROVE  Lineage'
<1>1. \A v \in Worker : /\ (proc'[v] = "none") <=> (proc[v] = "none")
                        /\ proc[v] \in {"exit0", "exit1"} => proc'[v] = proc[v]
  BY Zenon DEF Exit, TypeOK, WorkerTypes
<1>2. Queued' = Queued BY Zenon DEF Queued
<1>3. Queued \subseteq Worker BY QueuedWorkers, Zenon
<1>4. Unborn' BY <1>1, Zenon DEF SameDiscards, Lineage, Unborn
<1>5. Reaped' BY <1>1, Zenon DEF Lineage, Reaped
<1>6. Succession' BY <1>1, WorkerShape, Zenon DEF Lineage, Succession
<1>7. Generations' BY <1>1, Zenon DEF Lineage, Generations
<1>8. Creating'
  <2> SUFFICES ASSUME npc \in {"list", "push"} PROVE nw[2] = 1 /\ proc'[nw] # "none" /\ (npc = "list" => watch[nw] = "none")
    BY Zenon DEF Creating
  <2>1. proc[nw] # "none" BY Zenon DEF Lineage, Creating
  <2>2. proc'[nw] # "none" BY <2>1 DEF Exit, TypeOK, WorkerTypes, GoroutineTypes
  <2> QED BY <2>2, Zenon DEF Lineage, Creating
<1>9. Born' BY <1>1, <1>2, <1>3 DEF Lineage, Born, TypeOK, ClientTypes
<1> QED BY <1>4, <1>5, <1>6, <1>7, <1>8, <1>9, Zenon DEF Lineage

\* The steps of a process keep Lineage.
LEMMA ProcessLineage ==
  ASSUME TypeOK, Lineage, NEW w \in Worker, RemoveCheck(w) \/ Crash(w) \/ ObeyStop(w) \/ Reap(w)
  PROVE  Lineage'
<1> USE DEF workerVars, poolVars, clientVars, destroyVars, mainVars, ctlVars
<1>1. CASE RemoveCheck(w)
  <2>1. UNCHANGED <<proc, waitDone, watch, npc, nw, numExecs, free, cw>> /\ SameDiscards
    BY <1>1, Zenon DEF SameDiscards, RemoveCheck
  <2> QED BY <2>1, IdleLineage, Zenon
<1>2. CASE Crash(w)
  <2>1. UNCHANGED <<waitDone, watch, npc, nw, numExecs, free, cw>> /\ SameDiscards BY <1>2, Zenon DEF Crash, SameDiscards
  <2>2. Exit(w, "exit0") \/ Exit(w, "exit1") BY <1>2, Zenon DEF Crash
  <2> QED BY <2>1, <2>2, ExitLineage, Zenon
<1>3. CASE ObeyStop(w)
  <2>1. UNCHANGED <<waitDone, watch, npc, nw, numExecs, free, cw>> /\ SameDiscards BY <1>3, Zenon DEF ObeyStop, SameDiscards
  <2>2. Exit(w, "exit0") \/ Exit(w, "exit1") BY <1>3, Zenon DEF ObeyStop
  <2> QED BY <2>1, <2>2, ExitLineage, Zenon
<1>4. CASE Reap(w)
  <2>1. /\ proc[w] \in {"exit0", "exit1"} /\ waitDone' = [waitDone EXCEPT ![w] = TRUE]
        /\ UNCHANGED <<proc, watch, npc, nw, numExecs, dtor, free, cw>>
    BY <1>4, Zenon DEF Reap
  <2>2. Queued' = Queued BY <2>1, Zenon DEF Queued
  <2>3. Unborn' BY <2>1, Zenon DEF Lineage, Unborn, TypeOK, WorkerTypes
  <2>4. Reaped' BY <2>1, Zenon DEF Lineage, Reaped, TypeOK, WorkerTypes
  <2>5. Succession' BY <2>1, Zenon DEF Lineage, Succession
  <2>6. Generations' BY <2>1, Zenon DEF Lineage, Generations, TypeOK, WorkerTypes
  <2>7. Creating' /\ Born' BY <2>1, <2>2, Zenon DEF Lineage, Creating, Born
  <2> QED BY <2>3, <2>4, <2>5, <2>6, <2>7, Zenon DEF Lineage
<1> QED BY <1>1, <1>2, <1>3, <1>4, Zenon

\* Kill, by the controller or by destroyWorker, keeps Lineage.
LEMMA KillLineage ==
  ASSUME TypeOK, Control, Lineage,
         ControllerKill \/ \E k \in Cause, w \in Worker : DestroyWorkerStep(k, w)
  PROVE  Lineage'
<1> USE DEF workerVars, poolVars, clientVars, destroyVars, mainVars, ctlVars
<1>1. CASE ControllerKill
  <2>1. ctlW \in Worker /\ Exit(ctlW, "exit1") BY <1>1, Zenon DEF ControllerKill, Kill, Control
  <2>2. UNCHANGED <<waitDone, watch, npc, nw, numExecs, free, cw>> /\ SameDiscards BY <1>1, Zenon DEF ControllerKill, Kill, SameDiscards
  <2> QED BY <2>1, <2>2, ExitLineage, Zenon
<1>2. ASSUME NEW k \in Cause, NEW w \in Worker, DestroyWorkerStep(k, w) PROVE Lineage'
  <2>1. CASE StopTest(k, w) \/ Stop(k, w)
    <3>1. UNCHANGED <<proc, waitDone, watch, npc, nw, numExecs, free, cw>> /\ SameDiscards
      BY <2>1, Zenon DEF SameDiscards, StopTest, Stop
    <3> QED BY <3>1, IdleLineage, Zenon
  <2>2. CASE DestroyTimeout(k, w)
    <3>1. SameDiscards
      BY <2>2, Zenon DEF DestroyTimeout, SameDiscards, TypeOK, GoroutineTypes, Cause
    <3>2. UNCHANGED <<proc, waitDone, watch, npc, nw, numExecs, free, cw>> BY <2>2, Zenon DEF DestroyTimeout
    <3> QED BY <3>1, <3>2, IdleLineage, Zenon
  <2>3. CASE DestroyKill(k, w)
    <3>1. SameDiscards
      BY <2>3, Zenon DEF DestroyKill, SameDiscards, TypeOK, GoroutineTypes, Cause
    <3>2. Exit(w, "exit1") /\ UNCHANGED <<waitDone, watch, npc, nw, numExecs, free, cw>> BY <2>3, Zenon DEF DestroyKill, Kill
    <3> QED BY <3>1, <3>2, ExitLineage, Zenon
  <2> QED BY <1>2, <2>1, <2>2, <2>3, Zenon DEF DestroyWorkerStep
<1> QED BY <1>1, <1>2, Zenon

\* The watcher of w moves on without spawning.
LEMMA WatchMoveLineage ==
  ASSUME TypeOK, Lineage, NEW w \in Worker, waitDone[w], watch[w] \in {"wait", "detach", "count", "check", "spawn"},
         NEW to \in {"detach", "count", "check", "spawn", "done"}, watch' = [watch EXCEPT ![w] = to],
         UNCHANGED <<proc, waitDone, npc, nw, numExecs, dtor, free, cw>>
  PROVE  Lineage'
<1>1. \A v \in Worker : watch'[v] = IF v = w THEN to ELSE watch[v]
  BY Zenon DEF TypeOK, GoroutineTypes
<1>2. Queued' = Queued BY Zenon DEF Queued
<1>3. Unborn' BY <1>1, Zenon DEF Lineage, Unborn
<1>4. Reaped' BY <1>1, Zenon DEF Lineage, Reaped
<1>5. Succession'
  <2> SUFFICES ASSUME NEW v \in Worker, v[2] < MaxGen
               PROVE  /\ proc[Heir(v)] # "none" => watch'[v] \in {"list", "push", "done"}
                      /\ watch'[v] \in {"list", "push"} => proc[Heir(v)] # "none"
                      /\ watch'[v] = "list" => watch'[Heir(v)] = "none"
    BY Zenon DEF Succession
  <2>1. Heir(v) \in Worker BY WorkerShape, Zenon
  <2> QED BY <1>1, <2>1 DEF Lineage, Succession
<1>6. Generations' BY Zenon DEF Lineage, Generations
<1>7. Creating' BY <1>1 DEF Lineage, Creating, TypeOK, GoroutineTypes
<1>8. Born' BY <1>2, Zenon DEF Lineage, Born
<1> QED BY <1>3, <1>4, <1>5, <1>6, <1>7, <1>8, Zenon DEF Lineage

\* Spawning the heir keeps Lineage, and the heir is new.
LEMMA WatchSpawnLineage ==
  ASSUME TypeOK, Control, Lineage, NEW w \in Worker, WatchSpawn(w)
  PROVE  Lineage' /\ proc[Heir(w)] = "none" /\ Heir(w) \in Worker
<1> USE DEF workerVars, poolVars, clientVars, destroyVars, mainVars, ctlVars
<1> DEFINE h == Heir(w)
<1>1. h \in Worker /\ h[1] = w[1] /\ h[2] = w[2] + 1 /\ w[2] \in Nat /\ h # w
  BY WorkerShape DEF WatchSpawn
<1>2. /\ watch[w] = "spawn" /\ w[2] < MaxGen /\ Spawn(h)
      /\ watch' = [watch EXCEPT ![w] = "list"] /\ proc' = [proc EXCEPT ![h] = "running"]
      /\ UNCHANGED <<waitDone, npc, nw, numExecs, dtor, free, cw>>
  BY Zenon DEF WatchSpawn, Watch, Spawn
<1>3. proc[h] = "none" /\ waitDone[w] /\ proc[w] # "none"
  BY <1>2, Zenon DEF Lineage, Succession, Reaped
<1> HIDE DEF h
<1>4. \A v \in Worker : /\ watch'[v] = IF v = w THEN "list" ELSE watch[v]
                        /\ proc'[v] = IF v = h THEN "running" ELSE proc[v]
  BY <1>2, Zenon DEF TypeOK, GoroutineTypes, WorkerTypes
<1>5. Unborn' BY <1>2, <1>3, <1>4 DEF Lineage, Unborn
<1>6. Reaped' BY <1>2, <1>3, <1>4 DEF Lineage, Reaped, Unborn
<1>7. Succession'
  <2> SUFFICES ASSUME NEW v \in Worker, v[2] < MaxGen
               PROVE  /\ proc'[Heir(v)] # "none" => watch'[v] \in {"list", "push", "done"}
                      /\ watch'[v] \in {"list", "push"} => proc'[Heir(v)] # "none"
                      /\ watch'[v] = "list" => watch'[Heir(v)] = "none"
    BY Zenon DEF Succession
  <2>1. Heir(v) \in Worker BY WorkerShape, Zenon
  <2>2. CASE v = w
    BY <1>1, <1>3, <1>4, <2>2 DEF h, Lineage, Unborn
  <2>3. CASE v # w
    <3>1. Heir(v) # h BY <2>3, HeirInjective, Zenon DEF h
    <3>2. watch[v] = "list" => Heir(v) # w
      BY <1>2, Zenon DEF Lineage, Succession
    <3> QED BY <1>4, <2>1, <2>3, <3>1, <3>2, Zenon DEF Lineage, Succession
  <2> QED BY <2>2, <2>3, Zenon
<1>8. Generations'
  <2>1. \A v \in Worker : v[1] = h[1] /\ v[2] < h[2] => waitDone[v]
    <3> SUFFICES ASSUME NEW v \in Worker, v[1] = h[1], v[2] < h[2] PROVE waitDone[v]
      BY Zenon
    <3>1. CASE v[2] = w[2]
      <4>1. v = w BY <1>1, <3>1, WorkerShape, Zenon
      <4> QED BY <1>3, <4>1, Zenon
    <3>2. CASE v[2] < w[2]
      BY <1>1, <1>3, <3>2, Zenon DEF Lineage, Generations
    <3>3. v[2] \in Nat BY WorkerShape
    <3> QED BY <1>1, <3>1, <3>2, <3>3
  <2> QED BY <1>1, <1>2, <1>3, <2>1, SpawnGenerations, Zenon
<1>9. Creating'
  BY <1>2, <1>4 DEF Lineage, Creating, Control, TypeOK, GoroutineTypes
<1>10. Born'
  <2>1. Queued' = Queued /\ Queued \subseteq Worker
    BY <1>2, QueuedWorkers, Zenon DEF Queued
  <2> QED BY <1>2, <1>4, <2>1 DEF Lineage, Born, TypeOK, ClientTypes
<1>11. Lineage' BY <1>5, <1>6, <1>7, <1>8, <1>9, <1>10, Zenon DEF Lineage
<1> QED BY <1>1, <1>3, <1>11, Zenon DEF h

\* Listing the heir and starting its watcher keep Lineage.
LEMMA WatchListLineage ==
  ASSUME TypeOK, Control, Lineage, NEW w \in Worker, WatchList(w)
  PROVE  Lineage' /\ watch[Heir(w)] = "none" /\ Heir(w) \in Worker /\ Heir(w) # w
<1> USE DEF workerVars, poolVars, clientVars, destroyVars, mainVars, ctlVars
<1> DEFINE h == Heir(w)
<1>1. w[2] < MaxGen /\ watch[w] = "list"
  BY Zenon DEF WatchList, Control
<1>2. h \in Worker /\ h # w /\ h[2] # 1
  BY <1>1, WorkerShape
<1>3. proc[h] # "none" /\ watch[h] = "none"
  BY <1>1, Zenon DEF Lineage, Succession
<1>4. /\ watch' = [watch EXCEPT ![w] = "push", ![h] = "wait"]
      /\ UNCHANGED <<proc, waitDone, npc, nw, numExecs, dtor, free, cw>>
  BY Zenon DEF WatchList
<1> HIDE DEF h
<1>5. \A v \in Worker : watch'[v] = IF v = h THEN "wait" ELSE IF v = w THEN "push" ELSE watch[v]
  BY <1>2, <1>4, Zenon DEF TypeOK, GoroutineTypes
<1>6. Unborn' BY <1>1, <1>3, <1>4, <1>5, Zenon DEF Lineage, Unborn
<1>7. Reaped' BY <1>1, <1>4, <1>5, ZenonT(60) DEF Lineage, Reaped
<1>8. Succession'
  <2> SUFFICES ASSUME NEW v \in Worker, v[2] < MaxGen
               PROVE  /\ proc[Heir(v)] # "none" => watch'[v] \in {"list", "push", "done"}
                      /\ watch'[v] \in {"list", "push"} => proc[Heir(v)] # "none"
                      /\ watch'[v] = "list" => watch'[Heir(v)] = "none"
    BY <1>4, Zenon DEF Succession
  <2>1. Heir(v) \in Worker BY WorkerShape, Zenon
  <2>2. v # w => Heir(v) # h BY HeirInjective, Zenon DEF h
  <2> QED BY <1>1, <1>3, <1>5, <2>1, <2>2, Zenon DEF Lineage, Succession
<1>9. Generations' BY <1>4, Zenon DEF Lineage, Generations
<1>10. Creating'
  <2> SUFFICES ASSUME npc \in {"list", "push"}
               PROVE  nw[2] = 1 /\ proc[nw] # "none" /\ (npc = "list" => watch'[nw] = "none")
    BY <1>4, Zenon DEF Creating
  <2>1. nw[2] = 1 /\ proc[nw] # "none" /\ (npc = "list" => watch[nw] = "none") /\ nw \in Worker
    BY Zenon DEF Lineage, Creating, Control
  <2> QED BY <1>1, <1>2, <1>5, <2>1, Zenon
<1>11. Born'
  <2>1. Queued' = Queued BY <1>4, Zenon DEF Queued
  <2> QED BY <1>4, <2>1, Zenon DEF Lineage, Born
<1>12. Lineage' BY <1>6, <1>7, <1>8, <1>9, <1>10, <1>11, Zenon DEF Lineage
<1> QED BY <1>2, <1>3, <1>12, Zenon DEF h

\* The steps of watchWorker keep Lineage.
LEMMA WatchLineage ==
  ASSUME TypeOK, Control, Lineage, OneOwner, NEW w \in Worker, WatchStep(w)
  PROVE  Lineage'
<1> USE DEF workerVars, poolVars, clientVars, destroyVars, mainVars, ctlVars, Watch
<1>1. CASE WatchWait(w)
  BY <1>1, WatchMoveLineage, ZenonT(60) DEF WatchWait
<1>2. CASE WatchDetach(w) \/ WatchCount(w) \/ WatchCheck(w) \/ WatchSpawnFail(w)
  <2>1. waitDone[w]
    BY <1>2, Zenon DEF WatchDetach, WatchCount, WatchCheck, WatchSpawnFail, Lineage, Reaped
  <2> QED BY <1>2, <2>1, WatchMoveLineage, Zenon DEF WatchDetach, WatchCount, WatchCheck, WatchSpawnFail
<1>3. CASE WatchSpawn(w)
  BY <1>3, WatchSpawnLineage, Zenon
<1>4. CASE WatchList(w)
  BY <1>4, WatchListLineage, Zenon
<1>5. CASE WatchPush(w)
  <2>1. w[2] < MaxGen /\ watch[w] = "push"
    BY <1>5, Zenon DEF WatchPush, Control
  <2>2. Heir(w) \in Worker /\ proc[Heir(w)] # "none" /\ Heir(w) \in Fresh
    BY <2>1, WorkerShape, FreshMembers, Zenon DEF Lineage, Succession
  <2>3. Distinct /\ Heir(w) \notin Queued
    BY <2>2, Zenon DEF OneOwner, Distinct
  <2>4. /\ free' = Append(free, Heir(w)) /\ Len(free) < NumWorkers
        /\ watch' = [watch EXCEPT ![w] = "done"]
        /\ UNCHANGED <<proc, waitDone, npc, nw, numExecs, dtor, cw>>
    BY <1>5, Zenon DEF WatchPush
  <2>5. Queued' = Queued \cup {Heir(w)}
    BY <2>2, <2>3, <2>4, QueuedPush, Zenon
  <2>6. \A v \in Worker : watch'[v] = IF v = w THEN "done" ELSE watch[v]
    BY <2>4, Zenon DEF TypeOK, GoroutineTypes
  <2>7. Unborn' BY <2>1, <2>4, <2>6, ZenonT(60) DEF Lineage, Unborn
  <2>8. Reaped' BY <2>1, <2>4, <2>6, ZenonT(60) DEF Lineage, Reaped
  <2>9. Succession'
    <3> SUFFICES ASSUME NEW v \in Worker, v[2] < MaxGen
                 PROVE  /\ proc[Heir(v)] # "none" => watch'[v] \in {"list", "push", "done"}
                        /\ watch'[v] \in {"list", "push"} => proc[Heir(v)] # "none"
                        /\ watch'[v] = "list" => watch'[Heir(v)] = "none"
      BY <2>4, Zenon DEF Succession
    <3>1. Heir(v) \in Worker BY WorkerShape, Zenon
    <3> QED BY <2>1, <2>6, <3>1, Zenon DEF Lineage, Succession
  <2>10. Generations' BY <2>4, Zenon DEF Lineage, Generations
  <2>11. Creating' BY <2>1, <2>4, <2>6, Zenon DEF Lineage, Creating, Control
  <2>12. Born' BY <2>2, <2>4, <2>5, Zenon DEF Lineage, Born
  <2> QED BY <2>7, <2>8, <2>9, <2>10, <2>11, <2>12, Zenon DEF Lineage
<1> QED BY <1>1, <1>2, <1>3, <1>4, <1>5, Zenon DEF WatchStep

\* Every step preserves Lineage, given the types and OneOwner.
LEMMA NextLineage ==
  ASSUME TypeOK, Control, OneOwner, Lineage, [Next]_vars
  PROVE  Lineage'
<1>1. CASE UNCHANGED vars
  <2>1. UNCHANGED <<proc, waitDone, watch, npc, nw, numExecs, free, cw>> /\ SameDiscards
    BY <1>1, Zenon DEF vars, workerVars, poolVars, clientVars, destroyVars, mainVars, ctlVars, SameDiscards
  <2> QED BY <2>1, IdleLineage, Zenon
<1>2. CASE NewPool
  BY <1>2, NewPoolLineage, Zenon DEF OneOwner, Distinct
<1>3. CASE DestroyCall \/ Destroy
  BY <1>3, DestroyLineage, Zenon
<1>4. ASSUME NEW c \in Client, Invoke(c) \/ ExecStep(c) PROVE Lineage'
  BY <1>4, ExecLineage, Zenon
<1>5. ASSUME NEW w \in Worker, WatchStep(w) PROVE Lineage'
  BY <1>5, WatchLineage, Zenon
<1>6. ASSUME NEW w \in Worker, RemoveCheck(w) \/ Crash(w) \/ ObeyStop(w) \/ Reap(w) PROVE Lineage'
  BY <1>6, ProcessLineage, Zenon
<1>7. CASE \E k \in Cause, w \in Worker : DestroyWorkerStep(k, w)
  BY <1>7, KillLineage, Zenon
<1>8. CASE Controller
  BY <1>8, KillLineage, DestroyLineage, Zenon DEF Controller
<1> QED BY <1>1, <1>2, <1>3, <1>4, <1>5, <1>6, <1>7, <1>8, Zenon DEF Next
-----------------------------------------------------------------------------
(* What one step does to the places a worker can be in *)

SameBorn == \A w \in Worker : (proc'[w] = "none") <=> (proc[w] = "none")

Stay == Queued' = Queued /\ Fresh' = Fresh /\ cw' = cw /\ SameBorn

Hired(w) ==
  /\ proc[w] = "none" /\ \A v \in Worker : (proc'[v] = "none") <=> (proc[v] = "none" /\ v # w)
  /\ Queued' = Queued /\ Fresh' = Fresh \cup {w} /\ cw' = cw

Enqueued(w) ==
  /\ w \in Fresh /\ SameBorn
  /\ Queued' = Queued \cup {w} /\ Fresh' = Fresh \ {w} /\ cw' = cw

Taken(c, w) ==
  /\ cw[c] = NoWorker /\ w \in Queued /\ SameBorn
  /\ Queued' = Queued \ {w} /\ Fresh' = Fresh /\ cw' = [cw EXCEPT ![c] = w]

Returned(c) ==
  /\ cw[c] \in Worker /\ SameBorn
  /\ Queued' = Queued \cup {cw[c]} /\ Fresh' = Fresh /\ cw' = [cw EXCEPT ![c] = NoWorker]

Dropped(c) ==
  /\ SameBorn
  /\ Queued' = Queued /\ Fresh' = Fresh /\ cw' = [cw EXCEPT ![c] = NoWorker]

Moved ==
  \/ Stay
  \/ \E w \in Worker : Hired(w) \/ Enqueued(w)
  \/ \E c \in Client : Returned(c) \/ Dropped(c) \/ \E w \in Worker : Taken(c, w)

\* A step that touches neither the queue, the clients' workers nor the creators stays.
LEMMA StepStays ==
  ASSUME UNCHANGED <<free, cw, npc, nw, watch>>, SameBorn, Distinct
  PROVE  Distinct' /\ Moved
<1>1. Queued' = Queued /\ Distinct' BY Zenon DEF Queued, Distinct
<1>2. Fresh' = Fresh BY Zenon DEF Fresh
<1> QED BY <1>1, <1>2, Zenon DEF Moved, Stay

\* The steps of NewPool move workers as Moved says.
LEMMA NewPoolMoves ==
  ASSUME TypeOK, Control, Lineage, OneOwner, NewPool
  PROVE  Distinct' /\ Moved
<1> USE DEF workerVars, poolVars, clientVars, destroyVars, mainVars, ctlVars
<1>0. Distinct BY Zenon DEF OneOwner, Distinct
<1>1. CASE NewPoolCreate
  <2>1. PICK s \in Slot : proc[<<s, 1>>] = "none" /\ Spawn(<<s, 1>>) /\ nw' = <<s, 1>>
    BY <1>1, Zenon DEF NewPoolCreate, Unfilled
  <2> DEFINE w == <<s, 1>>
  <2>2. w \in Worker BY FirstWorker, Zenon
  <2> HIDE DEF w
  <2>3. /\ proc' = [proc EXCEPT ![w] = "running"] /\ proc[w] = "none" /\ nw' = w
        /\ npc = "create" /\ npc' = "list" /\ UNCHANGED <<watch, free, cw>>
    BY <1>1, <2>1, ZenonT(60) DEF w, Spawn, NewPoolCreate
  <2>4. Queued' = Queued /\ Distinct' BY <1>0, <2>3, Zenon DEF Queued, Distinct
  <2>5. Fresh' = Fresh \cup {w} BY <2>3, Zenon DEF Fresh
  <2>6. \A v \in Worker : (proc'[v] = "none") <=> (proc[v] = "none" /\ v # w)
    BY <2>2, <2>3, Zenon DEF TypeOK, WorkerTypes
  <2> QED BY <2>2, <2>3, <2>4, <2>5, <2>6, Zenon DEF Moved, Hired
<1>2. CASE NewPoolFail
  <2>1. Queued' = Queued /\ Distinct' BY <1>0, <1>2, Zenon DEF NewPoolFail, Queued, Distinct
  <2>2. Fresh' = Fresh BY <1>2, Zenon DEF NewPoolFail, Fresh
  <2> QED BY <1>2, <2>1, <2>2, Zenon DEF NewPoolFail, Moved, Stay, SameBorn
<1>3. CASE NewPoolList
  <2>1. /\ nw \in Worker /\ watch[nw] = "none" /\ npc = "list" /\ npc' = "push"
        /\ watch' = [watch EXCEPT ![nw] = "wait"] /\ UNCHANGED <<proc, free, cw, nw>>
    BY <1>3, Zenon DEF NewPoolList, Control, Lineage, Creating
  <2>2. Queued' = Queued /\ Distinct' BY <1>0, <2>1, Zenon DEF Queued, Distinct
  <2>3. \A v \in Worker : watch'[v] \in {"list", "push"} <=> watch[v] \in {"list", "push"}
    BY <2>1, Zenon DEF TypeOK, GoroutineTypes
  <2>4. Fresh' = Fresh BY <2>1, <2>3, Zenon DEF Fresh
  <2> QED BY <2>1, <2>2, <2>4, Zenon DEF Moved, Stay, SameBorn
<1>4. CASE NewPoolPush
  <2>1. /\ nw \in Worker /\ npc = "push" /\ npc' \notin {"list", "push"} /\ nw[2] = 1
        /\ free' = Append(free, nw) /\ Len(free) < NumWorkers
        /\ UNCHANGED <<proc, watch, cw>>
    BY <1>4, Zenon DEF NewPoolPush, Control, Lineage, Creating
  <2>2. nw \in Fresh /\ nw \notin Queued
    BY <2>1, FreshMembers, Zenon DEF OneOwner
  <2>3. Queued' = Queued \cup {nw} /\ Distinct' BY <1>0, <2>1, <2>2, QueuedPush, Zenon
  <2>4. Fresh' = Fresh \ {nw}
    <3>1. \A v \in Worker : Heir(v) # nw
      BY <2>1, WorkerShape
    <3> QED BY <2>1, <3>1, Zenon DEF Fresh
  <2> QED BY <2>1, <2>2, <2>3, <2>4, Zenon DEF Moved, Enqueued, SameBorn
<1> QED BY <1>1, <1>2, <1>3, <1>4, Zenon DEF NewPool

\* The steps of Exec move workers as Moved says.
LEMMA ExecMoves ==
  ASSUME TypeOK, Control, Lineage, OneOwner, NEW c \in Client, Invoke(c) \/ ExecStep(c)
  PROVE  Distinct' /\ Moved
<1> USE DEF workerVars, poolVars, clientVars, destroyVars, mainVars, ctlVars, Goto
<1>0. Distinct BY Zenon DEF OneOwner, Distinct
<1>1. CASE \/ Invoke(c) \/ ExecEnter(c) \/ AllocateBegin(c) \/ AllocateBlock(c) \/ AllocateReady(c)
           \/ AllocateAccept(c)
  <2>1. UNCHANGED <<free, cw, npc, nw, watch>> /\ SameBorn
    BY <1>1, ZenonT(60)
       DEF SameBorn, Invoke, ExecEnter, AllocateBegin, AllocateBlock, AllocateReady, AllocateAccept
  <2> QED BY <1>0, <2>1, StepStays, Zenon
<1>2. CASE \/ WorkerExecBegin(c) \/ WorkerExecRefuse(c) \/ WorkerExecPayload(c) \/ WorkerExecEnd(c)
           \/ ExecRelease(c)
  <2>1. UNCHANGED <<free, cw, npc, nw, watch>> /\ SameBorn
    BY <1>2, Zenon
       DEF SameBorn, WorkerExecBegin, WorkerExecRefuse, WorkerExecPayload, WorkerExecEnd, ExecRelease
  <2> QED BY <1>0, <2>1, StepStays, Zenon
<1>3. CASE \/ AllocateAllDead(c) \/ AllocateStopped(c) \/ AllocateTimeout(c) \/ AllocateDead(c)
           \/ AllocateReject(c) \/ ExecDiscard(c) \/ ExecRestart(c)
  <2>1. /\ cw' = [cw EXCEPT ![c] = NoWorker] /\ UNCHANGED <<proc, watch, npc, nw, free>>
    BY <1>3, Zenon DEF AllocateAllDead, AllocateStopped, AllocateTimeout, AllocateDead, Return,
                AllocateReject, ExecDiscard, ExecRestart, DiscardWorker
  <2>2. Queued' = Queued /\ Distinct' /\ Fresh' = Fresh BY <1>0, <2>1, Zenon DEF Queued, Distinct, Fresh
  <2> QED BY <2>1, <2>2, ZenonT(60) DEF Moved, Dropped, SameBorn
<1>4. CASE Receive(c)
  <2>1. /\ free # <<>> /\ free' = Tail(free) /\ cw' = [cw EXCEPT ![c] = Head(free)]
        /\ cw[c] = NoWorker /\ UNCHANGED <<proc, watch, npc, nw>>
    BY <1>4, Zenon DEF Receive, Control
  <2>2. Head(free) \in Worker /\ Head(free) \in Queued /\ Queued' = Queued \ {Head(free)} /\ Distinct'
    BY <2>1, <1>0, QueuedPop, Zenon
  <2>3. Fresh' = Fresh BY <2>1, Zenon DEF Fresh
  <2> QED BY <2>1, <2>2, <2>3, Zenon DEF Moved, Taken, SameBorn
<1>5. CASE ReleasePush(c)
  <2>1. cw[c] \in Worker BY <1>5, HolderHasWorker, Zenon DEF ReleasePush
  <2>2. cw[c] \notin Queued BY <2>1, WorkerShape, Zenon DEF OneOwner
  <2>3. /\ free' = Append(free, cw[c]) /\ Len(free) < NumWorkers /\ cw' = [cw EXCEPT ![c] = NoWorker]
        /\ UNCHANGED <<proc, watch, npc, nw>>
    BY <1>5, Zenon DEF ReleasePush, Return
  <2>4. Queued' = Queued \cup {cw[c]} /\ Distinct' BY <1>0, <2>1, <2>2, <2>3, QueuedPush, Zenon
  <2>5. Fresh' = Fresh BY <2>3, Zenon DEF Fresh
  <2> QED BY <2>1, <2>3, <2>4, <2>5, Zenon DEF Moved, Returned, SameBorn
<1> QED BY <1>1, <1>2, <1>3, <1>4, <1>5, Zenon DEF ExecStep, AllocateStep

\* The steps of watchWorker move workers as Moved says.
LEMMA WatchMoves ==
  ASSUME TypeOK, Control, Lineage, OneOwner, NEW w \in Worker, WatchStep(w)
  PROVE  Distinct' /\ Moved
<1> USE DEF workerVars, poolVars, clientVars, destroyVars, mainVars, ctlVars, Watch
<1>0. Distinct BY Zenon DEF OneOwner, Distinct
<1>1. CASE WatchWait(w) \/ WatchDetach(w) \/ WatchCount(w) \/ WatchCheck(w) \/ WatchSpawnFail(w)
  <2>1. /\ watch[w] \notin {"list", "push"} /\ UNCHANGED <<proc, free, cw, npc, nw>>
        /\ \E to \in {"detach", "count", "check", "spawn", "done"} : watch' = [watch EXCEPT ![w] = to]
    BY <1>1, Zenon DEF WatchWait, WatchDetach, WatchCount, WatchCheck, WatchSpawnFail
  <2>2. \A v \in Worker : watch'[v] \in {"list", "push"} <=> watch[v] \in {"list", "push"}
    BY <2>1, Zenon DEF TypeOK, GoroutineTypes
  <2>3. Fresh' = Fresh BY <2>1, <2>2, Zenon DEF Fresh
  <2>4. Queued' = Queued /\ Distinct' BY <1>0, <2>1, Zenon DEF Queued, Distinct
  <2> QED BY <2>1, <2>3, <2>4, Zenon DEF Moved, Stay, SameBorn
<1>2. CASE WatchSpawn(w)
  <2>1. proc[Heir(w)] = "none" /\ Heir(w) \in Worker BY <1>2, WatchSpawnLineage, Zenon
  <2>2. /\ watch[w] = "spawn" /\ watch' = [watch EXCEPT ![w] = "list"]
        /\ proc' = [proc EXCEPT ![Heir(w)] = "running"] /\ UNCHANGED <<free, cw, npc, nw>>
    BY <1>2, Zenon DEF WatchSpawn, Spawn
  <2>3. \A v \in Worker : watch'[v] \in {"list", "push"} <=> (watch[v] \in {"list", "push"} \/ v = w)
    BY <2>2, Zenon DEF TypeOK, GoroutineTypes
  <2>4. Fresh' = Fresh \cup {Heir(w)} BY <2>2, <2>3, Zenon DEF Fresh
  <2>5. Queued' = Queued /\ Distinct' BY <1>0, <2>2, Zenon DEF Queued, Distinct
  <2>6. \A v \in Worker : (proc'[v] = "none") <=> (proc[v] = "none" /\ v # Heir(w))
    BY <2>1, <2>2, Zenon DEF TypeOK, WorkerTypes
  <2> QED BY <2>1, <2>2, <2>4, <2>5, <2>6, Zenon DEF Moved, Hired
<1>3. CASE WatchList(w)
  <2>1. watch[Heir(w)] = "none" /\ Heir(w) \in Worker /\ Heir(w) # w BY <1>3, WatchListLineage, Zenon
  <2>2. /\ watch[w] = "list" /\ watch' = [watch EXCEPT ![w] = "push", ![Heir(w)] = "wait"]
        /\ UNCHANGED <<proc, free, cw, npc, nw>>
    BY <1>3, Zenon DEF WatchList
  <2>3. \A v \in Worker : watch'[v] \in {"list", "push"} <=> watch[v] \in {"list", "push"}
    BY <2>1, <2>2, Zenon DEF TypeOK, GoroutineTypes
  <2>4. Fresh' = Fresh BY <2>2, <2>3, Zenon DEF Fresh
  <2>5. Queued' = Queued /\ Distinct' BY <1>0, <2>2, Zenon DEF Queued, Distinct
  <2> QED BY <2>2, <2>4, <2>5, Zenon DEF Moved, Stay, SameBorn
<1>4. CASE WatchPush(w)
  <2>1. w[2] < MaxGen /\ watch[w] = "push"
    BY <1>4, Zenon DEF WatchPush, Control
  <2>2. Heir(w) \in Worker /\ Heir(w) \in Fresh /\ Heir(w)[2] # 1
    BY <2>1, WorkerShape, FreshMembers
  <2>3. Heir(w) \notin Queued BY <2>2, Zenon DEF OneOwner
  <2>4. /\ free' = Append(free, Heir(w)) /\ Len(free) < NumWorkers
        /\ watch' = [watch EXCEPT ![w] = "done"] /\ UNCHANGED <<proc, npc, nw, cw>>
    BY <1>4, Zenon DEF WatchPush
  <2>5. Queued' = Queued \cup {Heir(w)} /\ Distinct' BY <1>0, <2>2, <2>3, <2>4, QueuedPush, Zenon
  <2>6. \A v \in Worker : watch'[v] \in {"list", "push"} <=> (watch[v] \in {"list", "push"} /\ v # w)
    BY <2>4, Zenon DEF TypeOK, GoroutineTypes
  <2>7. npc \in {"list", "push"} => nw # Heir(w) BY <2>2, Zenon DEF Lineage, Creating
  <2>8. Fresh' = Fresh \ {Heir(w)}
    BY <2>1, <2>4, <2>6, <2>7, HeirInjective, Zenon DEF Fresh
  <2> QED BY <2>2, <2>4, <2>5, <2>8, Zenon DEF Moved, Enqueued, SameBorn
<1> QED BY <1>1, <1>2, <1>3, <1>4, Zenon DEF WatchStep

\* Exits keep the set of spawned workers.
LEMMA ExitBorn ==
  ASSUME TypeOK, NEW w \in Worker, NEW status \in {"exit0", "exit1"}, Exit(w, status)
  PROVE  SameBorn
BY Zenon DEF Exit, SameBorn, TypeOK, WorkerTypes

\* Every step moves workers as Moved says.
LEMMA NextMoves ==
  ASSUME TypeOK, Control, Lineage, OneOwner, [Next]_vars
  PROVE  Distinct' /\ Moved
<1> USE DEF workerVars, poolVars, clientVars, destroyVars, mainVars, ctlVars
<1>0. Distinct BY Zenon DEF OneOwner, Distinct
<1>1. CASE UNCHANGED vars
  <2>1. UNCHANGED <<free, cw, npc, nw, watch>> /\ SameBorn
    BY <1>1, Zenon DEF vars, SameBorn
  <2> QED BY <1>0, <2>1, StepStays, Zenon
<1>2. CASE NewPool
  BY <1>2, NewPoolMoves, Zenon
<1>3. CASE DestroyCall \/ DestroyBegin \/ DestroyLock \/ DestroyClose
  <2>1. UNCHANGED <<free, cw, npc, nw, watch>> /\ SameBorn
    BY <1>3, Zenon DEF SameBorn, DestroyCall, DestroyBegin, DestroyLock, DestroyClose
  <2> QED BY <1>0, <2>1, StepStays, Zenon
<1>4. CASE DestroyList \/ DestroyMark \/ DestroyMarked \/ DestroyJoin
  <2>1. UNCHANGED <<free, cw, npc, nw, watch>> /\ SameBorn
    BY <1>4, Zenon DEF SameBorn, DestroyList, DestroyMark, DestroyMarked, DestroyJoin
  <2> QED BY <1>0, <2>1, StepStays, Zenon
<1>5. ASSUME NEW c \in Client, Invoke(c) \/ ExecStep(c) PROVE Distinct' /\ Moved
  BY <1>5, ExecMoves, Zenon
<1>6. ASSUME NEW w \in Worker, WatchStep(w) PROVE Distinct' /\ Moved
  BY <1>6, WatchMoves, Zenon
<1>7. ASSUME NEW w \in Worker, RemoveCheck(w) \/ Reap(w) PROVE Distinct' /\ Moved
  <2>1. UNCHANGED <<free, cw, npc, nw, watch>> /\ SameBorn
    BY <1>7, Zenon DEF SameBorn, RemoveCheck, Reap
  <2> QED BY <1>0, <2>1, StepStays, Zenon
<1>8. ASSUME NEW w \in Worker, Crash(w) \/ ObeyStop(w) PROVE Distinct' /\ Moved
  <2>1. SameBorn BY <1>8, ExitBorn, ZenonT(60) DEF Crash, ObeyStop
  <2>2. UNCHANGED <<free, cw, npc, nw, watch>> BY <1>8, Zenon DEF Crash, ObeyStop
  <2> QED BY <1>0, <2>1, <2>2, StepStays, Zenon
<1>9. ASSUME NEW k \in Cause, NEW w \in Worker, DestroyWorkerStep(k, w) PROVE Distinct' /\ Moved
  <2>1. CASE StopTest(k, w) \/ Stop(k, w) \/ DestroyTimeout(k, w)
    <3>1. UNCHANGED <<free, cw, npc, nw, watch>> /\ SameBorn
      BY <2>1, Zenon DEF SameBorn, StopTest, Stop, DestroyTimeout
    <3> QED BY <1>0, <3>1, StepStays, Zenon
  <2>2. CASE DestroyKill(k, w)
    <3>1. SameBorn BY <2>2, ExitBorn, Zenon DEF DestroyKill, Kill
    <3>2. UNCHANGED <<free, cw, npc, nw, watch>> BY <2>2, Zenon DEF DestroyKill
    <3> QED BY <1>0, <3>1, <3>2, StepStays, Zenon
  <2> QED BY <1>9, <2>1, <2>2, Zenon DEF DestroyWorkerStep
<1>10. CASE RemoveLoad \/ RemoveStore \/ ControllerKillTest \/ ControllerDone
  <2>1. UNCHANGED <<free, cw, npc, nw, watch>> /\ SameBorn
    BY <1>10, Zenon DEF SameBorn, RemoveLoad, RemoveStore, ControllerKillTest, ControllerDone
  <2> QED BY <1>0, <2>1, StepStays, Zenon
<1>11. CASE ControllerKill
  <2>1. SameBorn BY <1>11, ExitBorn, ZenonT(60) DEF ControllerKill, Kill, Control
  <2>2. UNCHANGED <<free, cw, npc, nw, watch>> BY <1>11, Zenon DEF ControllerKill
  <2> QED BY <1>0, <2>1, <2>2, StepStays, Zenon
<1> QED BY <1>1, <1>2, <1>3, <1>4, <1>5, <1>6, <1>7, <1>8, <1>9, <1>10, <1>11
    DEF Next, Destroy, Controller

\* However a worker moves, it ends up in one place only.
LEMMA MovedOneOwner ==
  ASSUME TypeOK, Control, Lineage, OneOwner, Distinct', Moved
  PROVE  OneOwner'
<1>1. \A x \in Queued \cup Fresh : x # NoWorker
  <2>1. Queued \subseteq Worker BY QueuedWorkers, Zenon
  <2> QED BY <2>1, FreshBorn, WorkerShape, Zenon
<1> SUFFICES /\ Queued' \cap Fresh' = {}
             /\ \A c \in Client : cw'[c] # NoWorker =>
                  /\ cw'[c] \notin Queued' \cup Fresh'
                  /\ \A d \in Client : cw'[d] = cw'[c] => d = c
  BY Zenon DEF OneOwner, Distinct
<1>2. CASE Stay
  BY <1>2, Zenon DEF Stay, OneOwner
<1>3. ASSUME NEW w \in Worker, Hired(w)
      PROVE  /\ Queued' \cap Fresh' = {}
             /\ \A c \in Client : cw'[c] # NoWorker =>
                  /\ cw'[c] \notin Queued' \cup Fresh'
                  /\ \A d \in Client : cw'[d] = cw'[c] => d = c
  <2>1. w \notin Queued /\ \A c \in Client : cw[c] # NoWorker => cw[c] # w
    BY <1>3, Zenon DEF Hired, Lineage, Born
  <2> QED BY <1>3, <2>1, Zenon DEF Hired, OneOwner
<1>4. ASSUME NEW w \in Worker, Enqueued(w)
      PROVE  /\ Queued' \cap Fresh' = {}
             /\ \A c \in Client : cw'[c] # NoWorker =>
                  /\ cw'[c] \notin Queued' \cup Fresh'
                  /\ \A d \in Client : cw'[d] = cw'[c] => d = c
  BY <1>4, Zenon DEF Enqueued, OneOwner
<1>5. ASSUME NEW c \in Client, NEW w \in Worker, Taken(c, w)
      PROVE  /\ Queued' \cap Fresh' = {}
             /\ \A d \in Client : cw'[d] # NoWorker =>
                  /\ cw'[d] \notin Queued' \cup Fresh'
                  /\ \A e \in Client : cw'[e] = cw'[d] => d = e
  <2>1. \A d \in Client : cw'[d] = IF d = c THEN w ELSE cw[d]
    BY <1>5, Zenon DEF Taken, TypeOK, ClientTypes
  <2>2. w \notin Fresh /\ \A d \in Client : cw[d] # w
    BY <1>1, <1>5, Zenon DEF Taken, OneOwner
  <2> QED BY <1>5, <2>1, <2>2 DEF Taken, OneOwner
<1>6. ASSUME NEW c \in Client, Returned(c) \/ Dropped(c)
      PROVE  /\ Queued' \cap Fresh' = {}
             /\ \A d \in Client : cw'[d] # NoWorker =>
                  /\ cw'[d] \notin Queued' \cup Fresh'
                  /\ \A e \in Client : cw'[e] = cw'[d] => d = e
  <2>1. \A d \in Client : cw'[d] = IF d = c THEN NoWorker ELSE cw[d]
    BY <1>6, Zenon DEF Returned, Dropped, TypeOK, ClientTypes
  <2>2. CASE Dropped(c)
    BY <2>1, <2>2 DEF Dropped, OneOwner
  <2>3. CASE Returned(c)
    <3>1. cw[c] # NoWorker BY <2>3, WorkerShape, Zenon DEF Returned
    <3>2. cw[c] \notin Fresh /\ \A d \in Client : cw[d] = cw[c] => d = c
      BY <3>1, Zenon DEF OneOwner
    <3> QED BY <2>1, <2>3, <3>1, <3>2 DEF Returned, OneOwner
  <2> QED BY <1>6, <2>2, <2>3, Zenon
<1> QED BY <1>2, <1>3, <1>4, <1>5, <1>6, Zenon DEF Moved
-----------------------------------------------------------------------------
(* The theorems *)

(* The inductive invariant. *)
Owned == TypeOK /\ Control /\ Lineage /\ OneOwner

\* Nobody has a worker at first.
LEMMA InitOwned == Init => Owned
<1> SUFFICES ASSUME Init PROVE Owned
  BY Zenon
<1>1. Queued = {} /\ Len(free) = 0 BY DEF Init, Queued
<1>2. OneOwner BY <1>1 DEF Init, OneOwner
<1> QED BY <1>2, InitTyped, InitLineage, Zenon DEF Owned

\* Every step keeps the inductive invariant.
LEMMA NextOwned == Owned /\ [Next]_vars => Owned'
BY NextTyped, NextLineage, NextMoves, MovedOneOwner, Zenon DEF Owned

\* Owned is an invariant of the pool.
LEMMA SpecOwned == Spec => []Owned
BY InitOwned, NextOwned, PTL DEF Spec

\* No worker is ever in two places: queued twice in p.free, taken by two Exec calls, or taken while
\* it is still queued or about to be.
THEOREM ExclusiveWorkers == Spec => []OneOwner
<1>1. Owned => OneOwner BY Zenon DEF Owned
<1> QED BY <1>1, SpecOwned, PTL
=============================================================================
