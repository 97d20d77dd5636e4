----------------------------- MODULE StaticPool -----------------------------
(***************************************************************************)
(* The worker pool of static_pool.go together with the part of worker.go   *)
(* the pool drives: NewPool, Exec (allocateWorker, Worker.Exec, release,   *)
(* discardWorker), Remove, Destroy, and one watchWorker and up to two      *)
(* destroyWorker goroutines for every worker process.                      *)
(*                                                                         *)
(* A step is what runs between two points where another goroutine can      *)
(* observe or change shared state: a channel operation, a lock, an atomic. *)
(* tmu and Worker.mu are not variables: they are held exactly at the       *)
(* program points TmuHeld and MuFree name.  p.mul is left out: the         *)
(* listeners are assumed to return.                                        *)
(***************************************************************************)
EXTENDS Integers, Sequences, FiniteSets

CONSTANTS
  NumWorkers,    \* cfg.NumWorkers, also the capacity of the channel p.free
  Client,        \* goroutines that call Exec
  MaxJobs,       \* cfg.MaxJobs, 0 for no limit
  Replies,       \* what a live process may answer to a job
  NoWorker,      \* nil
  MaxGen,        \* bound: workers spawned in turn for one slot
  MaxCalls,      \* bound: Exec calls of one client
  MaxNested,     \* bound: Exec frames on the stack of one client
  MaxCrashes,    \* bound: processes that exit of their own accord
  MaxRemovals,   \* bound: Remove calls that find the worker ready or working
  MayDestroy     \* bound: whether a finished pool is destroyed

\* Valid() in config.go refuses NumWorkers = 0.
ASSUME PoolAssumption ==
  /\ NumWorkers \in Nat \ {0}
  /\ MaxJobs \in Nat /\ MaxGen \in Nat \ {0}
  /\ MaxCalls \in Nat /\ MaxNested \in Nat /\ MaxCrashes \in Nat /\ MaxRemovals \in Nat
  /\ MayDestroy \in BOOLEAN
  /\ Replies \subseteq {"ok", "jobError", "broken", "stop"}
  /\ NoWorker \notin (1..NumWorkers) \X (1..MaxGen)

\* One slot per worker the pool is configured for.
Slot == 1..NumWorkers

\* <<s, g>> is the g-th process of slot s: the watcher of <<s, g>> spawns <<s, g + 1>>.
Worker == Slot \X (1..MaxGen)

\* The worker that replaces w.
Heir(w) == <<w[1], w[2] + 1>>

\* The two callers of destroyWorker: discardWorker and Destroy.
Cause == {"discard", "destroy"}

VARIABLES
  state,     \* Worker.state.value ("none" before the process is spawned)
  numExecs,  \* Worker.state.numExecs
  proc,      \* the process: "none", "running", "exit0" or "exit1"
  waitDone,  \* Worker.waitDone is closed
  free,      \* p.free, a channel of capacity NumWorkers
  numDead,   \* p.numDead
  workers,   \* p.workers
  remove,    \* p.remove
  inDestroy, \* p.inDestroy # 0
  closed,    \* p.destroy is closed
  pc,        \* program counter of each client
  cw,        \* the worker the client has taken out of p.free
  rsp,       \* what Worker.Exec gave the client
  tasks,     \* Exec frames of the client counted in p.tasks
  calls,     \* Exec calls of the client so far
  watch,     \* program counter of each watchWorker goroutine
  stopper,   \* program counter of the w.Stop() goroutine of each destroyWorker
  dtor,      \* program counter of each destroyWorker goroutine
  npc,       \* program counter of NewPool
  nw,        \* the worker NewPool has created last
  dpc,       \* program counter of Destroy
  snap,      \* workers Destroy has listed and not reached yet
  ctl,       \* program counter of the controller that calls Remove and Kill
  ctlW,      \* the worker the controller looks at
  quota,     \* history: executions a worker may reach once Remove has first stored it, or -1
  removals,  \* Remove calls so far
  crashes,   \* spontaneous exits so far
  poolError  \* EventPoolError has been thrown

workerVars == <<state, numExecs, proc, waitDone>>
poolVars == <<free, numDead, workers, remove, inDestroy, closed>>
clientVars == <<pc, cw, rsp, tasks, calls>>
destroyVars == <<stopper, dtor>>
mainVars == <<npc, nw, dpc, snap>>
ctlVars == <<ctl, ctlW, quota, removals>>
vars == <<workerVars, poolVars, clientVars, watch, destroyVars, mainVars, ctlVars,
          crashes, poolError>>

WorkerTypes ==
  /\ state \in [Worker -> {"none", "ready", "working", "invalid", "stopping", "stopped", "errored"}]
  /\ numExecs \in [Worker -> Nat]
  /\ proc \in [Worker -> {"none", "running", "exit0", "exit1"}]
  /\ waitDone \in [Worker -> BOOLEAN]

PoolTypes ==
  /\ free \in Seq(Worker) /\ Len(free) <= NumWorkers
  /\ numDead \in Int
  /\ workers \subseteq Worker /\ remove \subseteq Worker
  /\ inDestroy \in BOOLEAN /\ closed \in BOOLEAN

ClientTypes ==
  /\ pc \in [Client -> {"idle", "call", "alloc", "select", "select2", "taken", "check", "exec",
                        "working", "replied", "finish", "push"}]
  /\ cw \in [Client -> Worker \cup {NoWorker}]
  /\ rsp \in [Client -> {"none", "ok", "jobError", "broken", "stop"}]
  /\ tasks \in [Client -> Nat] /\ calls \in [Client -> Nat]

GoroutineTypes ==
  /\ watch \in [Worker -> {"none", "wait", "detach", "count", "check", "spawn", "list", "push", "done"}]
  /\ stopper \in [Cause -> [Worker -> {"none", "begin", "lock", "stopping"}]]
  /\ dtor \in [Cause -> [Worker -> {"none", "select", "kill", "killed"}]]
  /\ npc \in {"create", "list", "push", "up", "failed"}
  /\ nw \in Worker \cup {NoWorker}
  /\ dpc \in {"idle", "start", "lock", "wait", "list", "mark", "join", "done"}
  /\ snap \subseteq Worker

EnvironmentTypes ==
  /\ ctl \in {"idle", "load", "store", "stored", "kill"} /\ ctlW \in Worker \cup {NoWorker}
  /\ quota \in [Worker -> Nat \cup {-1}]
  /\ removals \in Nat /\ crashes \in Nat /\ poolError \in BOOLEAN

\* Every variable has its type; in particular p.free never holds more than its capacity.
TypeOK == WorkerTypes /\ PoolTypes /\ ClientTypes /\ GoroutineTypes /\ EnvironmentTypes

Init ==
  /\ state = [w \in Worker |-> "none"] /\ numExecs = [w \in Worker |-> 0]
  /\ proc = [w \in Worker |-> "none"] /\ waitDone = [w \in Worker |-> FALSE]
  /\ free = <<>> /\ numDead = 0 /\ workers = {} /\ remove = {}
  /\ inDestroy = FALSE /\ closed = FALSE
  /\ pc = [c \in Client |-> "idle"] /\ cw = [c \in Client |-> NoWorker]
  /\ rsp = [c \in Client |-> "none"] /\ tasks = [c \in Client |-> 0]
  /\ calls = [c \in Client |-> 0]
  /\ watch = [w \in Worker |-> "none"]
  /\ stopper = [k \in Cause |-> [w \in Worker |-> "none"]]
  /\ dtor = [k \in Cause |-> [w \in Worker |-> "none"]]
  /\ npc = "create" /\ nw = NoWorker /\ dpc = "idle" /\ snap = {}
  /\ ctl = "idle" /\ ctlW = NoWorker
  /\ quota = [w \in Worker |-> -1] /\ removals = 0 /\ crashes = 0
  /\ poolError = FALSE
-----------------------------------------------------------------------------
(* Locks and helpers *)

\* Worker.mu is held by a client inside Worker.Exec and by Worker.Stop until the process is gone.
MuFree(w) ==
  /\ \A c \in Client : cw[c] = w => pc[c] \notin {"working", "replied"}
  /\ waitDone[w] \/ \A k \in Cause : stopper[k][w] # "stopping"

\* p.tmu is held by Destroy while it waits for p.tasks.
TmuHeld == dpc = "wait"

\* A worker may be given to a client only in StateReady.
Ready(w) == state[w] = "ready"

\* The process of w exits with the given status; the goroutine of Worker.start reaps it later.
Exit(w, status) == proc' = [proc EXCEPT ![w] = IF @ = "running" THEN status ELSE @]

\* factory.SpawnWorker has returned w: its process runs and the worker is ready.
Spawn(w) ==
  /\ proc' = [proc EXCEPT ![w] = "running"]
  /\ state' = [state EXCEPT ![w] = "ready"]
  /\ UNCHANGED <<numExecs, waitDone>>

\* destroyWorker(w) is started: its goroutine for Stop and its select.
StartDestroy(k, w) ==
  /\ stopper' = [stopper EXCEPT ![k][w] = "begin"]
  /\ dtor' = [dtor EXCEPT ![k][w] = "select"]

\* discardWorker: mark the worker invalid, destroy it in the background.
DiscardWorker(w) ==
  /\ state' = [state EXCEPT ![w] = "invalid"]
  /\ StartDestroy("discard", w)
  /\ UNCHANGED <<numExecs, proc, waitDone>>

\* Exec of client c returns: every frame on its stack runs tasks.Done.
Return(c) ==
  /\ pc' = [pc EXCEPT ![c] = "idle"]
  /\ cw' = [cw EXCEPT ![c] = NoWorker]
  /\ rsp' = [rsp EXCEPT ![c] = "none"]
  /\ tasks' = [tasks EXCEPT ![c] = 0]
  /\ UNCHANGED calls

\* Client c moves to program point l.
Goto(c, l) == pc' = [pc EXCEPT ![c] = l]
-----------------------------------------------------------------------------
(* NewPool: create and queue one worker for every slot *)

\* The slots NewPool has not filled yet.
Unfilled == {s \in Slot : proc[<<s, 1>>] = "none"}

NewPoolCreate ==
  /\ npc = "create"
  /\ \E s \in Unfilled : Spawn(<<s, 1>>) /\ nw' = <<s, 1>>
  /\ npc' = "list"
  /\ UNCHANGED <<poolVars, clientVars, watch, destroyVars, dpc, snap, ctlVars, crashes, poolError>>

\* SpawnWorker fails: the pool is destroyed and never handed out.
NewPoolFail ==
  /\ npc = "create" /\ Unfilled # {}
  /\ npc' = "failed" /\ nw' = NoWorker /\ dpc' = "start"
  /\ UNCHANGED <<workerVars, poolVars, clientVars, watch, destroyVars, snap, ctlVars, crashes, poolError>>

NewPoolList ==
  /\ npc = "list" /\ npc' = "push"
  /\ workers' = workers \cup {nw}
  /\ watch' = [watch EXCEPT ![nw] = "wait"]
  /\ UNCHANGED <<workerVars, free, numDead, remove, inDestroy, closed, clientVars, destroyVars,
                 nw, dpc, snap, ctlVars, crashes, poolError>>

\* p.free <- w, which blocks while the channel is full.
NewPoolPush ==
  /\ npc = "push" /\ Len(free) < NumWorkers
  /\ free' = Append(free, nw)
  /\ nw' = NoWorker
  /\ npc' = IF Unfilled = {} THEN "up" ELSE "create"
  /\ UNCHANGED <<workerVars, numDead, workers, remove, inDestroy, closed, clientVars, watch,
                 destroyVars, dpc, snap, ctlVars, crashes, poolError>>

NewPool == NewPoolCreate \/ NewPoolFail \/ NewPoolList \/ NewPoolPush
-----------------------------------------------------------------------------
(* Exec *)

\* A client calls Exec.
Invoke(c) ==
  /\ npc = "up" /\ pc[c] = "idle" /\ calls[c] < MaxCalls
  /\ Goto(c, "call")
  /\ calls' = [calls EXCEPT ![c] = @ + 1]
  /\ UNCHANGED <<workerVars, poolVars, cw, rsp, tasks, watch, destroyVars, mainVars, ctlVars,
                 crashes, poolError>>

\* tmu.Lock, tasks.Add(1), tmu.Unlock.
ExecEnter(c) ==
  /\ pc[c] = "call" /\ ~TmuHeld
  /\ tasks' = [tasks EXCEPT ![c] = @ + 1]
  /\ Goto(c, "alloc")
  /\ UNCHANGED <<workerVars, poolVars, cw, rsp, calls, watch, destroyVars, mainVars,
                 ctlVars, crashes, poolError>>

\* The loop of allocateWorker starts at i = numDead and only counts up, so i >= 0 is decided here.
AllocateBegin(c) ==
  /\ pc[c] = "alloc" /\ numDead >= 0
  /\ Goto(c, "select")
  /\ UNCHANGED <<workerVars, poolVars, cw, rsp, tasks, calls, watch, destroyVars, mainVars, ctlVars,
                 crashes, poolError>>

\* "all workers are dead".
AllocateAllDead(c) ==
  /\ pc[c] = "alloc" /\ numDead < 0
  /\ Return(c)
  /\ UNCHANGED <<workerVars, poolVars, watch, destroyVars, mainVars, ctlVars, crashes, poolError>>

\* w = <-p.free, in the first select or, once the timer runs, in the second.
Receive(c) ==
  /\ pc[c] \in {"select", "select2"} /\ free # <<>>
  /\ free' = Tail(free)
  /\ cw' = [cw EXCEPT ![c] = Head(free)]
  /\ Goto(c, "taken")
  /\ UNCHANGED <<workerVars, numDead, workers, remove, inDestroy, closed, rsp, tasks, calls, watch,
                 destroyVars, mainVars, ctlVars, crashes, poolError>>

AllocateReady(c) ==
  /\ pc[c] = "taken" /\ Ready(cw[c])
  /\ Goto(c, "check")
  /\ UNCHANGED <<workerVars, poolVars, cw, rsp, tasks, calls, watch, destroyVars, mainVars, ctlVars,
                 crashes, poolError>>

\* A worker that is not ready is a dead one left in the ring: drop it and try the next one.
AllocateDead(c) ==
  /\ pc[c] = "taken" /\ ~Ready(cw[c])
  /\ numDead' = numDead - 1
  /\ cw' = [cw EXCEPT ![c] = NoWorker]
  /\ Goto(c, "select")
  /\ UNCHANGED <<workerVars, free, workers, remove, inDestroy, closed, rsp, tasks, calls, watch,
                 destroyVars, mainVars, ctlVars, crashes, poolError>>

\* case <-p.destroy: "pool has been stopped".
AllocateStopped(c) ==
  /\ pc[c] \in {"select", "select2"} /\ closed
  /\ Return(c)
  /\ UNCHANGED <<workerVars, poolVars, watch, destroyVars, mainVars, ctlVars, crashes, poolError>>

\* The first select takes its default branch when nothing else is ready.
AllocateBlock(c) ==
  /\ pc[c] = "select" /\ free = <<>> /\ ~closed
  /\ Goto(c, "select2")
  /\ UNCHANGED <<workerVars, poolVars, cw, rsp, tasks, calls, watch, destroyVars, mainVars, ctlVars,
                 crashes, poolError>>

\* Mutant: the second select has no timer.
AllocateNoTimeout(c) == FALSE /\ UNCHANGED vars

\* AllocateTimeout fires: "worker timeout".
AllocateTimeout(c) ==
  /\ pc[c] = "select2"
  /\ Return(c)
  /\ UNCHANGED <<workerVars, poolVars, watch, destroyVars, mainVars, ctlVars, crashes, poolError>>

\* Mutant: allocateWorker does not look at p.remove.
AllocateUnchecked(c) ==
  /\ pc[c] = "check"
  /\ Goto(c, "exec")
  /\ UNCHANGED <<workerVars, poolVars, cw, rsp, tasks, calls, watch, destroyVars, mainVars, ctlVars,
                 crashes, poolError>>

\* p.remove.Load(w) finds nothing: the worker is allocated.
AllocateAccept(c) ==
  /\ pc[c] = "check" /\ cw[c] \notin remove
  /\ Goto(c, "exec")
  /\ UNCHANGED <<workerVars, poolVars, cw, rsp, tasks, calls, watch, destroyVars, mainVars, ctlVars,
                 crashes, poolError>>

\* A worker to be removed is discarded and the next one is tried.
AllocateReject(c) ==
  /\ pc[c] = "check" /\ cw[c] \in remove
  /\ DiscardWorker(cw[c])
  /\ cw' = [cw EXCEPT ![c] = NoWorker]
  /\ Goto(c, "select")
  /\ UNCHANGED <<poolVars, rsp, tasks, calls, watch, mainVars, ctlVars, crashes, poolError>>

\* Worker.Exec takes mu and sends the job.
WorkerExecBegin(c) ==
  /\ pc[c] = "exec" /\ MuFree(cw[c]) /\ Ready(cw[c])
  /\ state' = [state EXCEPT ![cw[c]] = "working"]
  /\ Goto(c, "working")
  /\ UNCHANGED <<numExecs, proc, waitDone, poolVars, cw, rsp, tasks, calls, watch, destroyVars,
                 mainVars, ctlVars, crashes, poolError>>

\* Worker.Exec refuses the job of a worker that is no longer ready.
WorkerExecRefuse(c) ==
  /\ pc[c] = "exec" /\ MuFree(cw[c]) /\ ~Ready(cw[c])
  /\ rsp' = [rsp EXCEPT ![c] = "broken"]
  /\ Goto(c, "finish")
  /\ UNCHANGED <<workerVars, poolVars, cw, tasks, calls, watch, destroyVars, mainVars, ctlVars,
                 crashes, poolError>>

\* execPayload: a live process answers, a dead one breaks the relay.  "stop" is the StopRequest
\* payload (MaxNested bounds how often one call meets it), "broken" any error but JobError.
WorkerExecPayload(c) ==
  /\ pc[c] = "working"
  /\ \E r \in IF proc[cw[c]] = "running" THEN Replies ELSE {"broken"} :
       /\ r = "stop" => tasks[c] < MaxNested
       /\ rsp' = [rsp EXCEPT ![c] = r]
  /\ Goto(c, "replied")
  /\ UNCHANGED <<workerVars, poolVars, cw, tasks, calls, watch, destroyVars, mainVars,
                 ctlVars, crashes, poolError>>

\* The end of Worker.Exec: set the state, register the execution, unlock.
WorkerExecEnd(c) ==
  /\ pc[c] = "replied"
  /\ state' = [state EXCEPT ![cw[c]] = IF rsp[c] = "broken" THEN "errored" ELSE "ready"]
  /\ numExecs' = [numExecs EXCEPT ![cw[c]] = @ + 1]
  /\ Goto(c, "finish")
  /\ UNCHANGED <<proc, waitDone, poolVars, cw, rsp, tasks, calls, watch, destroyVars,
                 mainVars, ctlVars, crashes, poolError>>

\* Mutant: one execution too many.
ReleaseReplacesLate(w) == (MaxJobs # 0 /\ numExecs[w] > MaxJobs) \/ w \in remove

\* release replaces the worker instead of queueing it.
ReleaseReplaces(w) == (MaxJobs # 0 /\ numExecs[w] >= MaxJobs) \/ w \in remove

\* Exec discards a worker that failed, release one that is used up or to be removed.
ExecDiscard(c) ==
  /\ pc[c] = "finish"
  /\ rsp[c] = "broken" \/ (rsp[c] # "stop" /\ ReleaseReplaces(cw[c]))
  /\ DiscardWorker(cw[c])
  /\ Return(c)
  /\ UNCHANGED <<poolVars, watch, mainVars, ctlVars, crashes, poolError>>

\* StopRequest: the worker is discarded and Exec calls itself, its own task still counted.
ExecRestart(c) ==
  /\ pc[c] = "finish" /\ rsp[c] = "stop"
  /\ DiscardWorker(cw[c])
  /\ cw' = [cw EXCEPT ![c] = NoWorker] /\ rsp' = [rsp EXCEPT ![c] = "none"]
  /\ Goto(c, "call")
  /\ UNCHANGED <<poolVars, tasks, calls, watch, mainVars, ctlVars, crashes, poolError>>

\* release is about to queue the worker again.
ExecRelease(c) ==
  /\ pc[c] = "finish" /\ rsp[c] \in {"ok", "jobError"} /\ ~ReleaseReplaces(cw[c])
  /\ Goto(c, "push")
  /\ UNCHANGED <<workerVars, poolVars, cw, rsp, tasks, calls, watch, destroyVars, mainVars, ctlVars,
                 crashes, poolError>>

\* p.free <- w at the end of release, which blocks while the channel is full.
ReleasePush(c) ==
  /\ pc[c] = "push" /\ Len(free) < NumWorkers
  /\ free' = Append(free, cw[c])
  /\ Return(c)
  /\ UNCHANGED <<workerVars, numDead, workers, remove, inDestroy, closed, watch, destroyVars,
                 mainVars, ctlVars, crashes, poolError>>

\* The steps of allocateWorker, and those of an Exec call in progress.
AllocateStep(c) ==
  \/ AllocateBegin(c) \/ AllocateAllDead(c) \/ AllocateStopped(c) \/ AllocateBlock(c) \/ AllocateTimeout(c)
  \/ Receive(c) \/ AllocateReady(c) \/ AllocateDead(c) \/ AllocateAccept(c) \/ AllocateReject(c)

ExecStep(c) ==
  \/ ExecEnter(c) \/ AllocateStep(c)
  \/ WorkerExecBegin(c) \/ WorkerExecRefuse(c) \/ WorkerExecPayload(c) \/ WorkerExecEnd(c)
  \/ ExecDiscard(c) \/ ExecRestart(c) \/ ExecRelease(c) \/ ReleasePush(c)
-----------------------------------------------------------------------------
(* watchWorker *)

\* The watcher of w moves from one program point to the next.
Watch(w, from, to) == watch[w] = from /\ watch' = [watch EXCEPT ![w] = to]

\* Mutant: the watcher does not wait for the process to be gone.
WatchNoWait(w) ==
  /\ Watch(w, "wait", "detach") /\ MuFree(w)
  /\ state' = [state EXCEPT ![w] = "errored"]
  /\ UNCHANGED <<numExecs, proc, waitDone, poolVars, clientVars, destroyVars, mainVars, ctlVars,
                 crashes, poolError>>

\* Worker.Wait: the process is gone and no Exec or Stop holds mu.
WatchWait(w) ==
  /\ Watch(w, "wait", "detach")
  /\ waitDone[w] /\ MuFree(w)
  /\ state' = [state EXCEPT ![w] =
                 IF proc[w] = "exit0" \/ @ = "stopping" THEN "stopped" ELSE "errored"]
  /\ UNCHANGED <<numExecs, proc, waitDone, poolVars, clientVars, destroyVars, mainVars, ctlVars,
                 crashes, poolError>>

WatchDetach(w) ==
  /\ Watch(w, "detach", "count")
  /\ workers' = workers \ {w} /\ remove' = remove \ {w}
  /\ UNCHANGED <<workerVars, free, numDead, inDestroy, closed, clientVars, destroyVars, mainVars,
                 ctlVars, crashes, poolError>>

\* Mutant: the watcher does not register the dead worker.
WatchUncounted(w) ==
  /\ Watch(w, "count", "check")
  /\ UNCHANGED <<workerVars, poolVars, clientVars, destroyVars, mainVars, ctlVars, crashes, poolError>>

WatchCount(w) ==
  /\ Watch(w, "count", "check")
  /\ numDead' = numDead + 1
  /\ UNCHANGED <<workerVars, free, workers, remove, inDestroy, closed, clientVars, destroyVars,
                 mainVars, ctlVars, crashes, poolError>>

\* Mutant: the watcher replaces whatever has died.
WatchCheckBlind(w) ==
  /\ Watch(w, "check", "spawn")
  /\ UNCHANGED <<workerVars, poolVars, clientVars, destroyVars, mainVars, ctlVars, crashes, poolError>>

\* if !p.destroyed().
WatchCheck(w) ==
  /\ Watch(w, "check", IF inDestroy THEN "done" ELSE "spawn")
  /\ UNCHANGED <<workerVars, poolVars, clientVars, destroyVars, mainVars, ctlVars, crashes, poolError>>

\* createWorker for the replacement; MaxGen bounds how many there are.
WatchSpawn(w) ==
  /\ Watch(w, "spawn", "list") /\ w[2] < MaxGen
  /\ Spawn(Heir(w))
  /\ UNCHANGED <<poolVars, clientVars, destroyVars, mainVars, ctlVars, crashes, poolError>>

\* Mutant: the worker being replaced is taken to be still listed.
WatchSpawnFailOffByOne(w) ==
  /\ Watch(w, "spawn", "done")
  /\ poolError' = (poolError \/ Cardinality(workers) = 1)
  /\ UNCHANGED <<workerVars, poolVars, clientVars, destroyVars, mainVars, ctlVars, crashes>>

\* SpawnWorker fails: the slot is lost; EventPoolError if it was the last one.
WatchSpawnFail(w) ==
  /\ Watch(w, "spawn", "done")
  /\ poolError' = (poolError \/ workers = {})
  /\ UNCHANGED <<workerVars, poolVars, clientVars, destroyVars, mainVars, ctlVars, crashes>>

\* The end of createWorker: list the new worker and watch it.
WatchList(w) ==
  /\ watch[w] = "list"
  /\ watch' = [watch EXCEPT ![w] = "push", ![Heir(w)] = "wait"]
  /\ workers' = workers \cup {Heir(w)}
  /\ UNCHANGED <<workerVars, free, numDead, remove, inDestroy, closed, clientVars, destroyVars,
                 mainVars, ctlVars, crashes, poolError>>

\* Mutant: the watcher queues the dead worker instead of the new one.
WatchPushOld(w) ==
  /\ Watch(w, "push", "done") /\ Len(free) < NumWorkers
  /\ free' = Append(free, w)
  /\ UNCHANGED <<workerVars, numDead, workers, remove, inDestroy, closed, clientVars, destroyVars,
                 mainVars, ctlVars, crashes, poolError>>

\* Mutant: p.free is made with one place too many.
WatchPushUnbounded(w) ==
  /\ Watch(w, "push", "done") /\ Len(free) <= NumWorkers
  /\ free' = Append(free, Heir(w))
  /\ UNCHANGED <<workerVars, numDead, workers, remove, inDestroy, closed, clientVars, destroyVars,
                 mainVars, ctlVars, crashes, poolError>>

\* p.free <- nw, which blocks while the channel is full.
WatchPush(w) ==
  /\ Watch(w, "push", "done") /\ Len(free) < NumWorkers
  /\ free' = Append(free, Heir(w))
  /\ UNCHANGED <<workerVars, numDead, workers, remove, inDestroy, closed, clientVars, destroyVars,
                 mainVars, ctlVars, crashes, poolError>>

WatchStep(w) ==
  \/ WatchWait(w) \/ WatchDetach(w) \/ WatchCount(w) \/ WatchCheck(w)
  \/ WatchSpawn(w) \/ WatchSpawnFail(w) \/ WatchList(w) \/ WatchPush(w)
-----------------------------------------------------------------------------
(* destroyWorker and Worker.Stop, Worker.Kill *)

\* Stop: nothing is left to do once waitDone is closed, and destroyWorker only reports then:
\* neither needs a step.
StopTest(k, w) ==
  /\ stopper[k][w] = "begin" /\ ~waitDone[w]
  /\ stopper' = [stopper EXCEPT ![k][w] = "lock"]
  /\ UNCHANGED <<workerVars, poolVars, clientVars, watch, dtor, mainVars, ctlVars, crashes, poolError>>

\* Take mu and send the stop command; mu is kept until waitDone is closed.
Stop(k, w) ==
  /\ stopper[k][w] = "lock" /\ MuFree(w)
  /\ stopper' = [stopper EXCEPT ![k][w] = "stopping"]
  /\ state' = [state EXCEPT ![w] = "stopping"]
  /\ UNCHANGED <<numExecs, proc, waitDone, poolVars, clientVars, watch, dtor, mainVars, ctlVars,
                 crashes, poolError>>

\* Kill, past its test of waitDone: mark the worker without taking mu and signal the process.
Kill(w) ==
  /\ state' = [state EXCEPT ![w] = "stopping"]
  /\ Exit(w, "exit1")
  /\ UNCHANGED <<numExecs, waitDone>>

\* DestroyTimeout fires before waitDone is closed, and Kill finds it open.
DestroyTimeout(k, w) ==
  /\ dtor[k][w] = "select" /\ ~waitDone[w]
  /\ dtor' = [dtor EXCEPT ![k][w] = "kill"]
  /\ UNCHANGED <<workerVars, poolVars, clientVars, watch, stopper, mainVars, ctlVars, crashes, poolError>>

\* Mutant: the timeout is reported but the process is not killed.
DestroyNoKill(k, w) ==
  /\ dtor[k][w] = "kill"
  /\ dtor' = [dtor EXCEPT ![k][w] = "killed"]
  /\ UNCHANGED <<workerVars, poolVars, clientVars, watch, stopper, mainVars, ctlVars, crashes, poolError>>

DestroyKill(k, w) ==
  /\ dtor[k][w] = "kill"
  /\ dtor' = [dtor EXCEPT ![k][w] = "killed"]
  /\ Kill(w)
  /\ UNCHANGED <<poolVars, clientVars, watch, stopper, mainVars, ctlVars, crashes, poolError>>

DestroyWorkerStep(k, w) == StopTest(k, w) \/ Stop(k, w) \/ DestroyTimeout(k, w) \/ DestroyKill(k, w)
-----------------------------------------------------------------------------
(* Destroy *)

\* A caller of Destroy (a second call would close p.destroy twice and is not made here).
DestroyCall ==
  /\ MayDestroy /\ npc = "up" /\ dpc = "idle" /\ dpc' = "start"
  /\ UNCHANGED <<workerVars, poolVars, clientVars, watch, destroyVars, npc, nw, snap, ctlVars, crashes, poolError>>

DestroyBegin ==
  /\ dpc = "start" /\ dpc' = "lock" /\ inDestroy' = TRUE
  /\ UNCHANGED <<workerVars, free, numDead, workers, remove, closed, clientVars, watch, destroyVars,
                 npc, nw, snap, ctlVars, crashes, poolError>>

DestroyLock ==
  /\ dpc = "lock" /\ dpc' = "wait"
  /\ UNCHANGED <<workerVars, poolVars, clientVars, watch, destroyVars, npc, nw, snap, ctlVars, crashes, poolError>>

\* tasks.Wait returns: close(p.destroy), tmu.Unlock.
DestroyClose ==
  /\ dpc = "wait" /\ \A c \in Client : tasks[c] = 0
  /\ dpc' = "list" /\ closed' = TRUE
  /\ UNCHANGED <<workerVars, free, numDead, workers, remove, inDestroy, clientVars, watch, destroyVars,
                 npc, nw, snap, ctlVars, crashes, poolError>>

\* range p.Workers().
DestroyList ==
  /\ dpc = "list" /\ dpc' = "mark" /\ snap' = workers
  /\ UNCHANGED <<workerVars, poolVars, clientVars, watch, destroyVars, npc, nw, ctlVars, crashes, poolError>>

\* markInvalid and a destroyWorker goroutine for the next worker of the list.
DestroyMark ==
  /\ dpc = "mark" /\ UNCHANGED dpc
  /\ \E w \in snap :
       /\ snap' = snap \ {w}
       /\ state' = [state EXCEPT ![w] = "invalid"]
       /\ StartDestroy("destroy", w)
  /\ UNCHANGED <<numExecs, proc, waitDone, poolVars, clientVars, watch, npc, nw, ctlVars, crashes, poolError>>

DestroyMarked ==
  /\ dpc = "mark" /\ snap = {} /\ dpc' = "join"
  /\ UNCHANGED <<workerVars, poolVars, clientVars, watch, destroyVars, npc, nw, snap, ctlVars, crashes, poolError>>

\* wg.Wait().
DestroyJoin ==
  /\ dpc = "join" /\ \A w \in Worker : dtor["destroy"][w] = "none" \/ waitDone[w]
  /\ dpc' = "done"
  /\ UNCHANGED <<workerVars, poolVars, clientVars, watch, destroyVars, npc, nw, snap, ctlVars, crashes, poolError>>

Destroy ==
  \/ DestroyBegin \/ DestroyLock \/ DestroyClose \/ DestroyList \/ DestroyMark \/ DestroyMarked \/ DestroyJoin
-----------------------------------------------------------------------------
(* Remove, as the controllers call it, and the processes *)

\* A client is past the test of p.remove with w and has not finished its job on it.
Engaged(w) == \E c \in Client : cw[c] = w /\ pc[c] \in {"exec", "working", "replied"}

\* Remove of a worker of the list finds it ready or working.
RemoveCheck(w) ==
  /\ npc = "up" /\ ctl = "idle" /\ removals < MaxRemovals
  /\ w \in workers /\ state[w] \in {"ready", "working"}
  /\ ctl' = "load" /\ ctlW' = w /\ removals' = removals + 1
  /\ UNCHANGED <<workerVars, poolVars, clientVars, watch, destroyVars, mainVars, quota, crashes, poolError>>

\* p.remove.Load: a worker that is marked already is left alone.
RemoveLoad ==
  /\ ctl = "load"
  /\ IF ctlW \in remove THEN ctl' = "idle" /\ ctlW' = NoWorker
                        ELSE ctl' = "store" /\ UNCHANGED ctlW
  /\ UNCHANGED <<workerVars, poolVars, clientVars, watch, destroyVars, mainVars, quota, removals,
                 crashes, poolError>>

\* p.remove.Store.
RemoveStore ==
  /\ ctl = "store" /\ ctl' = "stored"
  /\ remove' = remove \cup {ctlW}
  /\ quota' = [quota EXCEPT ![ctlW] = IF @ # -1 THEN @ ELSE numExecs[ctlW] + IF Engaged(ctlW) THEN 1 ELSE 0]
  /\ UNCHANGED <<workerVars, free, numDead, workers, inDestroy, closed, clientVars, watch, destroyVars,
                 mainVars, ctlW, removals, crashes, poolError>>

\* A controller that enforces ExecTTL calls Kill next, which tests waitDone.  The goroutine that
\* runs Kill shares the loop variable of control, so it may see another worker by then.
ControllerKillTest ==
  /\ ctl = "stored" /\ ctl' = "kill"
  /\ \E w \in Worker : proc[w] # "none" /\ ~waitDone[w] /\ ctlW' = w
  /\ UNCHANGED <<workerVars, poolVars, clientVars, watch, destroyVars, mainVars, quota, removals,
                 crashes, poolError>>

ControllerKill ==
  /\ ctl = "kill" /\ ctl' = "idle" /\ ctlW' = NoWorker
  /\ Kill(ctlW)
  /\ UNCHANGED <<poolVars, clientVars, watch, destroyVars, mainVars, quota, removals, crashes, poolError>>

\* Any other controller is done.
ControllerDone ==
  /\ ctl = "stored" /\ ctl' = "idle" /\ ctlW' = NoWorker
  /\ UNCHANGED <<workerVars, poolVars, clientVars, watch, destroyVars, mainVars, quota, removals,
                 crashes, poolError>>

Controller == RemoveLoad \/ RemoveStore \/ ControllerKillTest \/ ControllerKill \/ ControllerDone

\* A process exits of its own accord, at any time.
Crash(w) ==
  /\ proc[w] = "running" /\ crashes < MaxCrashes
  /\ crashes' = crashes + 1
  /\ \E status \in {"exit0", "exit1"} : Exit(w, status)
  /\ UNCHANGED <<state, numExecs, waitDone, poolVars, clientVars, watch, destroyVars, mainVars, ctlVars, poolError>>

\* A process obeys the stop command.
ObeyStop(w) ==
  /\ proc[w] = "running" /\ \E k \in Cause : stopper[k][w] = "stopping"
  /\ Exit(w, "exit0")
  /\ UNCHANGED <<state, numExecs, waitDone, poolVars, clientVars, watch, destroyVars, mainVars, ctlVars,
                 crashes, poolError>>

\* The goroutine of Worker.start: Process.Wait returns, waitDone is closed.
Reap(w) ==
  /\ proc[w] \in {"exit0", "exit1"} /\ ~waitDone[w]
  /\ waitDone' = [waitDone EXCEPT ![w] = TRUE]
  /\ UNCHANGED <<state, numExecs, proc, poolVars, clientVars, watch, destroyVars, mainVars, ctlVars,
                 crashes, poolError>>
-----------------------------------------------------------------------------
Next ==
  \/ NewPool \/ DestroyCall \/ Destroy \/ Controller
  \/ \E c \in Client : Invoke(c) \/ ExecStep(c)
  \/ \E w \in Worker : WatchStep(w) \/ RemoveCheck(w) \/ Crash(w) \/ ObeyStop(w) \/ Reap(w)
  \/ \E k \in Cause, w \in Worker : DestroyWorkerStep(k, w)

Spec == Init /\ [][Next]_vars

(* Every goroutine that can run eventually runs, timers fire, a running job is eventually        *)
(* answered and the kernel reports an exit.  Nothing obliges a client to call, a process to obey *)
(* the stop command or a controller to act.                                                      *)
Fairness ==
  /\ WF_vars(NewPool) /\ WF_vars(Destroy) /\ WF_vars(Controller)
  /\ \A c \in Client : WF_vars(ExecStep(c))
  /\ \A w \in Worker : WF_vars(WatchStep(w)) /\ WF_vars(Reap(w))
  /\ \A k \in Cause, w \in Worker :
       WF_vars(StopTest(k, w) \/ Stop(k, w)) /\ WF_vars(DestroyTimeout(k, w) \/ DestroyKill(k, w))

FairSpec == Spec /\ Fairness
-----------------------------------------------------------------------------
(* Properties *)

\* Workers in p.free.
Queued == {free[i] : i \in 1..Len(free)}

\* Workers created but not queued yet.
Fresh == {Heir(w) : w \in {v \in Worker : watch[v] \in {"list", "push"}}}
         \cup (IF npc \in {"list", "push"} THEN {nw} ELSE {})

\* Every worker is in at most one place: queued once in p.free, or taken by one client, or
\* still with the goroutine that created it.  So no two Exec calls ever share a worker,
\* whatever order release, discardWorker and the watchers run in.
OneOwner ==
  /\ \A i, j \in 1..Len(free) : free[i] = free[j] => i = j
  /\ Queued \cap Fresh = {}
  /\ \A c \in Client : cw[c] # NoWorker =>
       /\ cw[c] \notin Queued \cup Fresh
       /\ \A d \in Client : cw[d] = cw[c] => d = c

\* config.go: "NumWorkers defines how many sub-processes can be run at once".  A replacement
\* is spawned only after the process it replaces is gone, also when several die at once.
ProcessBound == Cardinality({w \in Worker : proc[w] = "running"}) <= NumWorkers

\* A discarded worker is never queued, handed to a client or ready again, although Stop, Kill,
\* Wait and Worker.Exec all write its state without knowing of each other.
DiscardIsFinal ==
  \A w \in Worker : dtor["discard"][w] # "none" =>
    /\ state[w] \notin {"ready", "working"}
    /\ w \notin Queued
    /\ \A c \in Client : cw[c] # w

\* config.go: "MaxJobs defines how many executions is allowed for the worker until it's destruction".
MaxJobsRespected == MaxJobs # 0 => \A w \in Worker : numExecs[w] <= MaxJobs

\* Once Remove has stored a worker it starts no further job; only the one already on its way is
\* served.  allocateWorker and release both look at p.remove, neither under a lock.
RemovedServesNoNewJob ==
  \A w \in Worker : quota[w] # -1 => numExecs[w] <= quota[w]

\* A worker that was taken out of service, by Remove or by discardWorker, stays out.
OutOfService == RemovedServesNoNewJob /\ DiscardIsFinal

\* The counter numDead runs below zero only while some worker that allocateWorker found dead has
\* not been registered by its watcher yet.
NumDeadDebt ==
  numDead < 0 =>
    \E w \in Worker : /\ watch[w] \in {"wait", "detach", "count"}
                      /\ ~Ready(w)
                      /\ w \notin Queued

\* When the last worker is gone and no watcher is left to replace one, EventPoolError has been
\* thrown: the server learns that the pool is dead even when the last workers die together.
PoolDeathReported ==
  (npc = "up" /\ ~inDestroy /\ \A w \in Worker : watch[w] \in {"none", "done"}) => poolError

\* What still runs when Destroy has returned is not in the list of Destroy and replaces a worker that
\* is not there either: its watcher had tested destroyed() before Destroy began.  So the workers of
\* NewPool are gone, and none that Destroy stopped, or that died meanwhile, is replaced.
SurvivorsAreLate ==
  dpc = "done" => \A w \in DOMAIN proc : proc[w] = "running" =>
    /\ dtor["destroy"][w] = "none"
    /\ \E v \in DOMAIN proc : w = Heir(v) /\ dtor["destroy"][v] = "none"

\* The pool as a rotation of workers: offered are those queued or about to be.
Offered == Queued \cup Fresh
Gone == {w \in Worker : proc[w] # "none"} \ (Offered \cup {cw[c] : c \in Client})

Rotation == INSTANCE WorkerRotation WITH offered <- Offered, serving <- cw, gone <- Gone

\* The pool implements WorkerRotation: whatever crashes, removals and shutdowns do, a worker is
\* handed from p.free to one client and back, and one that was dropped or discarded stays away.
ImplementsRotation == Rotation!Spec

\* Exec: "returns result or error".
ExecReturns == \A c \in Client : pc[c] = "call" ~> pc[c] = "idle"

\* "Destroy all underlying workers (but let them to complete the task)": Destroy returns.
DestroyReturns == dpc = "start" ~> dpc = "done"

\* "Destroy all underlying workers": no process is left when Destroy has returned.
DestroyLeavesNone == dpc = "done" => \A w \in Worker : proc[w] # "running"

\* allocateWorker reports "all workers are dead" only when they are.
AllDeadIsTrue ==
  [][\A c \in Client : (pc[c] = "alloc" /\ pc'[c] = "idle") =>
       \A w \in workers : proc[w] # "running"]_vars
=============================================================================
