------------------------------- MODULE Server -------------------------------
(***************************************************************************)
(* server.go: the server owns one pool at a time, replaces it on Reset and *)
(* Reconfigure, rebuilds it when the pool reports that all its workers are *)
(* dead, and starts and stops it.  A pool is reduced to what the server    *)
(* sees of it; StaticPool is the pool in detail.                           *)
(*                                                                         *)
(* A step is what runs between two acquisitions of s.mu, s.mup or a pool's *)
(* mul, or between two accesses outside of them.  The locks are not        *)
(* variables: MuFree, MupFree and MulFree name the program points at which *)
(* they are held.  s.mul is left out: the listener of the server returns.  *)
(***************************************************************************)
EXTENDS Integers

CONSTANTS
  Resetter,     \* goroutines that call Reconfigure: RPC, the reload service
  Client,       \* goroutines that call Exec
  Relays,       \* relay settings a configuration may have
  NilPool,      \* a nil *StaticPool in the interface s.pool
  MaxPools,     \* bound: pools created
  MaxStarts,    \* bound: calls of Start
  MaxResets,    \* bound: Reconfigure calls of one goroutine
  MaxFails,     \* bound: times a pool loses all its workers
  MaxAttach,    \* bound: calls of Attach after the first
  MayFail,      \* bound: whether NewPool may return an error
  MayStop       \* bound: whether Stop is called

ASSUME ServerAssumption ==
  /\ MaxPools \in Nat /\ MaxStarts \in Nat /\ MaxResets \in Nat /\ MaxFails \in Nat /\ MaxAttach \in Nat
  /\ MayFail \in BOOLEAN /\ MayStop \in BOOLEAN
  /\ Relays # {} /\ NilPool \notin Nat
  /\ Resetter \cap (1..MaxPools) = {}

Pool == 1..MaxPools
Watcher == 1..(MaxPools + MaxAttach)

\* A Reconfigure call runs in a resetter, or in the poolListener of a pool, under the pool's mul.
Thread == Resetter \cup Pool

VARIABLES
  cfg,         \* the relay settings of s.cfg
  started,     \* s.started
  factory,     \* s.factory: the number of the Start that made it, or 0 for nil
  pool,        \* s.pool, 0 for nil
  controller,  \* s.controller # nil
  pController, \* s.pController, 0 for nil
  spc,         \* program counter of the goroutine that calls Start and Stop
  starts,      \* calls of Start so far
  rpc,         \* program counter of each Reconfigure
  arg,         \* the relay settings each Reconfigure is called with
  prev,        \* previous and pWatcher in each Reconfigure
  made,        \* the pool each Reconfigure has created
  resets,      \* calls of Reconfigure so far
  cpc,         \* program counter of each client
  cpool,       \* the pool each client calls
  status,      \* of each pool: "none", "up", "waiting" (tasks.Wait), "closed", "gone"
  workers,     \* pools that have workers
  heard,       \* pools whose events reach poolListener
  lpc,         \* the watcher of each pool that finds all workers dead
  dpc,         \* the goroutine of Reconfigure that destroys each pool
  dwatch,      \* the controller it detaches
  numPools, numFails, numAttach,
  on,          \* the pool each controller observes, 0 before Attach
  off,         \* controllers detached
  failed,      \* history: pools that still had workers at the last EventServerFailure
  panic        \* what made the process panic, "none" otherwise

serverVars == <<cfg, started, factory, pool, controller, pController>>
mainVars == <<spc, starts>>
resetVars == <<rpc, arg, prev, made, resets>>
clientVars == <<cpc, cpool>>
poolVars == <<status, workers, heard, lpc, numPools, numFails>>
destroyVars == <<dpc, dwatch>>
watchVars == <<on, off, numAttach>>
vars == <<serverVars, mainVars, resetVars, clientVars, poolVars, destroyVars, watchVars, failed, panic>>

\* Every variable has its type.
TypeOK ==
  /\ cfg \in Relays /\ started \in BOOLEAN /\ factory \in 0..MaxStarts /\ pool \in 0..MaxPools \cup {NilPool}
  /\ controller \in BOOLEAN /\ pController \in {0} \cup Watcher
  /\ spc \in {"down", "starting", "up", "detach", "destroy", "close", "join"} /\ starts \in 0..MaxStarts
  /\ rpc \in [Thread -> {"idle", "reset", "lock", "check", "differs", "read", "create", "install", "fail"}]
  /\ arg \in [Thread -> Relays]
  /\ prev \in [Thread -> (0..MaxPools \cup {NilPool}) \X ({0} \cup Watcher)]
  /\ made \in [Thread -> 0..MaxPools] /\ resets \in [Resetter -> 0..MaxResets]
  /\ cpc \in [Client -> {"idle", "call", "exec"}] /\ cpool \in [Client -> 0..MaxPools \cup {NilPool}]
  /\ status \in [Pool -> {"none", "up", "waiting", "closed", "gone"}]
  /\ workers \subseteq Pool /\ heard \subseteq Pool
  /\ lpc \in [Pool -> {"idle", "throw", "listener"}]
  /\ dpc \in [Pool -> {"none", "detach", "destroy", "close", "join", "done"}] /\ dwatch \in [Pool -> {0} \cup Watcher]
  /\ numPools \in 0..MaxPools /\ numFails \in 0..MaxFails /\ numAttach \in 0..MaxAttach
  /\ on \in [Watcher -> 0..MaxPools \cup {NilPool}] /\ off \subseteq Watcher
  /\ failed \subseteq Pool
  /\ panic \in {"none", "destroy", "detach", "factory", "pool"}

Init ==
  /\ cfg \in Relays /\ started = FALSE /\ factory = 0 /\ pool = 0
  /\ controller \in BOOLEAN /\ pController = 0
  /\ spc = "down" /\ starts = 0
  /\ rpc = [t \in Thread |-> "idle"] /\ arg = [t \in Thread |-> cfg]
  /\ prev = [t \in Thread |-> <<0, 0>>] /\ made = [t \in Thread |-> 0]
  /\ resets = [r \in Resetter |-> 0]
  /\ cpc = [c \in Client |-> "idle"] /\ cpool = [c \in Client |-> 0]
  /\ status = [p \in Pool |-> "none"] /\ workers = {} /\ heard = {}
  /\ lpc = [p \in Pool |-> "idle"]
  /\ dpc = [p \in Pool |-> "none"] /\ dwatch = [p \in Pool |-> 0]
  /\ numPools = 0 /\ numFails = 0 /\ numAttach = 0
  /\ on = [w \in Watcher |-> 0] /\ off = {}
  /\ failed = {} /\ panic = "none"
-----------------------------------------------------------------------------
(* Locks *)

\* Mutant: Reset keeps s.mu while it calls Reconfigure.
MuHeldByReset ==
  spc \in {"down", "up"} /\ \A t \in Thread : rpc[t] \in {"idle", "reset", "fail"}

\* s.mu is held by Start and by Stop, which wait while they hold it.
MuFree == spc \in {"down", "up"}

\* s.mup is held by Reconfigure until it returns.
MupFree == \A t \in Thread : rpc[t] \notin {"check", "differs", "read", "create", "install"}

\* The mul of pool p is held while poolListener handles EventPoolError.
MulFree(p) == lpc[p] # "listener"
-----------------------------------------------------------------------------
(* Pools and controllers *)

\* NewPool returns pool p, all of whose workers are up.
NewPool(p) ==
  /\ p = numPools + 1 /\ numPools' = p
  /\ status' = [status EXCEPT ![p] = "up"]
  /\ workers' = workers \cup {p}
  /\ UNCHANGED <<lpc, numFails>>

\* Number of controllers attached so far: they are numbered in the order of creation.
NumWatchers == CHOOSE n \in 0..(MaxPools + MaxAttach) : \A w \in Watcher : on[w] # 0 <=> w <= n

\* s.pController = s.controller.Attach(p).
AttachTo(p) ==
  /\ on' = [on EXCEPT ![NumWatchers + 1] = p]
  /\ pController' = NumWatchers + 1

\* Detach closes a channel, which panics the second time.
Detach(w) ==
  /\ off' = off \cup {w}
  /\ panic' = IF w \in off THEN "detach" ELSE panic

\* Exec calls counted in tasks of pool p.
Busy(p) == \E c \in Client : cpc[c] = "exec" /\ cpool[c] = p

\* Destroy takes tmu and waits for the tasks; the second time close(p.destroy) panics.
DestroyBegin(p) ==
  /\ status[p] # "waiting"
  /\ status' = [status EXCEPT ![p] = IF @ = "up" THEN "waiting" ELSE @]
  /\ panic' = IF status[p] = "up" THEN panic ELSE "destroy"
  /\ UNCHANGED <<workers, heard, lpc, numPools, numFails>>

\* The tasks are done: close(p.destroy).
DestroyClose(p) ==
  /\ ~Busy(p)
  /\ status' = [status EXCEPT ![p] = "closed"]
  /\ UNCHANGED <<workers, heard, lpc, numPools, numFails>>

\* Destroy returns once every destroyWorker has thrown its event, which takes the mul of the pool.
DestroyJoin(p) ==
  /\ p \in workers => MulFree(p)
  /\ status' = [status EXCEPT ![p] = "gone"]
  /\ workers' = workers \ {p}
  /\ UNCHANGED <<heard, lpc, numPools, numFails>>
-----------------------------------------------------------------------------
(* Start and Stop *)

\* Start: makeFactory fails.
StartNoFactory ==
  /\ spc = "down" /\ starts < MaxStarts /\ MayFail
  /\ starts' = starts + 1 /\ factory' = 0
  /\ UNCHANGED <<cfg, started, pool, controller, pController, spc, resetVars, clientVars, poolVars,
                 destroyVars, watchVars, failed, panic>>

\* Start takes s.mu and makes the factory.
StartFactory ==
  /\ spc = "down" /\ starts < MaxStarts
  /\ spc' = "starting" /\ starts' = starts + 1 /\ factory' = starts + 1
  /\ UNCHANGED <<cfg, started, pool, controller, pController, resetVars, clientVars, poolVars,
                 destroyVars, watchVars, failed, panic>>

\* NewPool fails: s.pool holds a nil *StaticPool, the factory stays open.
StartFail ==
  /\ spc = "starting" /\ MayFail
  /\ spc' = "down" /\ pool' = NilPool
  /\ UNCHANGED <<cfg, started, factory, controller, pController, starts, resetVars, clientVars,
                 poolVars, destroyVars, watchVars, failed, panic>>

StartDone ==
  /\ spc = "starting" /\ spc' = "up"
  /\ \E p \in Pool : NewPool(p) /\ pool' = p /\ heard' = heard \cup {p}
  /\ IF controller THEN AttachTo(pool') ELSE UNCHANGED <<on, pController>>
  /\ started' = TRUE
  /\ UNCHANGED <<cfg, factory, controller, starts, resetVars, clientVars, destroyVars, off, numAttach,
                 failed, panic>>

\* Stop takes s.mu and has nothing to do, or goes on.
StopLock ==
  /\ spc = "up" /\ MayStop
  /\ spc' = IF started THEN "detach" ELSE "down"
  /\ UNCHANGED <<serverVars, starts, resetVars, clientVars, poolVars, destroyVars, watchVars, failed, panic>>

\* Mutant: Stop forgets the controller without detaching it.
StopForgets ==
  /\ spc = "detach" /\ spc' = "destroy"
  /\ pController' = 0
  /\ UNCHANGED <<cfg, started, factory, pool, controller, starts, resetVars, clientVars, poolVars,
                 destroyVars, watchVars, failed, panic>>

StopDetach ==
  /\ spc = "detach" /\ spc' = "destroy"
  /\ IF pController # 0 THEN Detach(pController) ELSE UNCHANGED <<off, panic>>
  /\ pController' = 0
  /\ UNCHANGED <<cfg, started, factory, pool, controller, starts, resetVars, clientVars, poolVars,
                 destroyVars, on, numAttach, failed>>

\* s.pool.Destroy() up to close(p.destroy), and up to the closing.
StopDestroy ==
  /\ \/ spc = "destroy" /\ DestroyBegin(pool) /\ spc' = "close"
     \/ spc = "close" /\ DestroyClose(pool) /\ spc' = "join" /\ UNCHANGED panic
  /\ UNCHANGED <<serverVars, starts, resetVars, clientVars, destroyVars, watchVars, failed>>

\* Destroy returns; Stop closes the factory and releases s.mu.
StopDone ==
  /\ spc = "join" /\ DestroyJoin(pool) /\ spc' = "down"
  /\ factory' = 0 /\ pool' = 0 /\ started' = FALSE
  /\ UNCHANGED <<cfg, controller, pController, starts, resetVars, clientVars, destroyVars, watchVars,
                 failed, panic>>

Serve ==
  \/ StartNoFactory \/ StartFactory \/ StartFail \/ StartDone
  \/ StopLock \/ StopDetach \/ StopDestroy \/ StopDone

\* Attach while nobody holds s.mu.
Attach ==
  /\ MuFree /\ numAttach < MaxAttach
  /\ numAttach' = numAttach + 1 /\ controller' = TRUE
  /\ IF pController # 0 /\ pool # 0 THEN Detach(pController) /\ AttachTo(pool)
                                    ELSE UNCHANGED <<pController, on, off, panic>>
  /\ UNCHANGED <<cfg, started, factory, pool, mainVars, resetVars, clientVars, poolVars, destroyVars,
                 failed>>
-----------------------------------------------------------------------------
(* Reconfigure and Reset *)

\* Thread t moves on inside Reconfigure.
At(t, from, to) == rpc[t] = from /\ rpc' = [rpc EXCEPT ![t] = to]

\* Reconfigure returns nil; a listener releases the mul of its pool.
Finish(t) ==
  /\ rpc' = [rpc EXCEPT ![t] = "idle"]
  /\ lpc' = [p \in Pool |-> IF p = t THEN "idle" ELSE lpc[p]]

\* Reconfigure returns an error, which only poolListener looks at.
ReturnError(t) ==
  /\ rpc' = [rpc EXCEPT ![t] = IF t \in Pool THEN "fail" ELSE "idle"]
  /\ UNCHANGED lpc

\* A resetter calls Reconfigure with its own settings, or Reset.
Call(r) ==
  /\ rpc[r] = "idle" /\ resets[r] < MaxResets
  /\ resets' = [resets EXCEPT ![r] = @ + 1]
  /\ \/ rpc' = [rpc EXCEPT ![r] = "reset"] /\ UNCHANGED arg
     \/ rpc' = [rpc EXCEPT ![r] = "lock"] /\ \E relay \in Relays : arg' = [arg EXCEPT ![r] = relay]
  /\ UNCHANGED <<serverVars, mainVars, prev, made, clientVars, poolVars, destroyVars, watchVars,
                 failed, panic>>

\* Reset reads s.cfg under s.mu.
Reset(t) ==
  /\ At(t, "reset", "lock") /\ MuFree
  /\ arg' = [arg EXCEPT ![t] = cfg]
  /\ UNCHANGED <<serverVars, mainVars, prev, made, resets, clientVars, poolVars, destroyVars,
                 watchVars, failed, panic>>

\* Mutant: Reconfigure does not take s.mup.
LockNothing(t) ==
  /\ At(t, "lock", "check")
  /\ UNCHANGED <<serverVars, mainVars, arg, prev, made, resets, clientVars, poolVars, destroyVars,
                 watchVars, failed, panic>>

\* s.mup.Lock().
Lock(t) ==
  /\ At(t, "lock", "check") /\ MupFree
  /\ UNCHANGED <<serverVars, mainVars, arg, prev, made, resets, clientVars, poolVars, destroyVars,
                 watchVars, failed, panic>>

\* The server is down: only the configuration changes.
NotStarted(t) ==
  /\ rpc[t] = "check" /\ MuFree /\ ~started
  /\ cfg' = arg[t] /\ Finish(t)
  /\ UNCHANGED <<started, factory, pool, controller, pController, mainVars, arg, prev, made, resets,
                 clientVars, status, workers, heard, numPools, numFails, destroyVars, watchVars, failed, panic>>

Started(t) ==
  /\ At(t, "check", "differs") /\ MuFree /\ started
  /\ UNCHANGED <<serverVars, mainVars, arg, prev, made, resets, clientVars, poolVars, destroyVars,
                 watchVars, failed, panic>>

\* s.cfg.Differs(cfg), without s.mu.
Differs(t) ==
  /\ rpc[t] = "differs"
  /\ IF cfg # arg[t] THEN ReturnError(t) ELSE At(t, "differs", "read") /\ UNCHANGED lpc
  /\ UNCHANGED <<serverVars, mainVars, arg, prev, made, resets, clientVars, status, workers, heard,
                 numPools, numFails, destroyVars, watchVars, failed, panic>>

\* previous and pWatcher are read under s.mu.
ReadPrevious(t) ==
  /\ At(t, "read", "create") /\ MuFree
  /\ prev' = [prev EXCEPT ![t] = <<pool, pController>>]
  /\ UNCHANGED <<serverVars, mainVars, arg, made, resets, clientVars, poolVars, destroyVars,
                 watchVars, failed, panic>>

\* Mutant: the new pool is assigned to a shadowed variable.
CreateShadowed(t) ==
  /\ At(t, "create", "install") /\ factory # 0
  /\ \E p \in Pool : NewPool(p)
  /\ UNCHANGED <<serverVars, mainVars, arg, prev, made, resets, clientVars, heard, destroyVars, watchVars,
                 failed, panic>>

\* NewPool reads s.factory without s.mu and succeeds.
Create(t) ==
  /\ At(t, "create", "install") /\ factory # 0
  /\ \E p \in Pool : NewPool(p) /\ made' = [made EXCEPT ![t] = p]
  /\ UNCHANGED <<serverVars, mainVars, arg, prev, resets, clientVars, heard, destroyVars, watchVars,
                 failed, panic>>

\* NewPool fails, or panics because s.factory is nil.
CreateFail(t) ==
  /\ rpc[t] = "create" /\ (MayFail \/ factory = 0)
  /\ ReturnError(t)
  /\ panic' = IF factory = 0 THEN "factory" ELSE panic
  /\ UNCHANGED <<serverVars, mainVars, arg, prev, made, resets, clientVars, status, workers, heard,
                 numPools, numFails, destroyVars, watchVars, failed>>

\* The new pool is listened to and becomes the pool of the server under s.mu; its controller is
\* attached; a goroutine is left to destroy pool old.
Swap(t, old, attach) ==
  /\ rpc[t] = "install" /\ MuFree /\ Finish(t)
  /\ pool' = made[t] /\ heard' = heard \cup {made[t]}
  /\ IF attach THEN AttachTo(made[t]) ELSE UNCHANGED <<on, pController>>
  /\ dpc' = [p \in Pool |-> IF p = old THEN "detach" ELSE dpc[p]]
  /\ dwatch' = [p \in Pool |-> IF p = old THEN prev[t][2] ELSE dwatch[p]]
  /\ panic' = IF old = NilPool THEN "pool" ELSE panic
  /\ UNCHANGED <<cfg, started, factory, controller, mainVars, arg, prev, made, resets, clientVars,
                 status, workers, numPools, numFails, off, numAttach, failed>>

\* Mutant: the controller is not attached to the new pool.
InstallUnwatched(t) == Swap(t, prev[t][1], FALSE)

\* Mutant: the previous pool is not destroyed.
InstallOnly(t) == Swap(t, 0, controller)

\* The end of Reconfigure.
Install(t) == Swap(t, prev[t][1], controller)

Reconfigure(t) ==
  \/ Reset(t) \/ Lock(t) \/ NotStarted(t) \/ Started(t) \/ Differs(t)
  \/ ReadPrevious(t) \/ Create(t) \/ CreateFail(t) \/ Install(t)

\* The goroutine of Reconfigure detaches the controller of the previous pool and destroys the pool.
DestroyDetach(p) ==
  /\ dpc[p] = "detach" /\ dpc' = [dpc EXCEPT ![p] = "destroy"]
  /\ IF dwatch[p] # 0 THEN Detach(dwatch[p]) ELSE UNCHANGED <<off, panic>>
  /\ UNCHANGED <<serverVars, mainVars, resetVars, clientVars, poolVars, dwatch, on, numAttach, failed>>

DestroyPrevious(p) ==
  /\ \/ dpc[p] = "destroy" /\ DestroyBegin(p) /\ dpc' = [dpc EXCEPT ![p] = "close"]
     \/ dpc[p] = "close" /\ DestroyClose(p) /\ dpc' = [dpc EXCEPT ![p] = "join"] /\ UNCHANGED panic
     \/ dpc[p] = "join" /\ DestroyJoin(p) /\ dpc' = [dpc EXCEPT ![p] = "done"] /\ UNCHANGED panic
  /\ UNCHANGED <<serverVars, mainVars, resetVars, clientVars, dwatch, watchVars, failed>>
-----------------------------------------------------------------------------
(* Events of a pool *)

\* The last worker of pool p is gone, and its watcher fails to replace it.
PoolDies(p) ==
  /\ status[p] = "up" /\ p \in workers /\ lpc[p] = "idle" /\ numFails < MaxFails
  /\ workers' = workers \ {p} /\ numFails' = numFails + 1
  /\ lpc' = [lpc EXCEPT ![p] = "throw"]
  /\ UNCHANGED <<serverVars, mainVars, resetVars, clientVars, status, heard, numPools, destroyVars,
                 watchVars, failed, panic>>

\* Another watcher of pool p replaces its worker before EventPoolError is thrown.
PoolRevives(p) ==
  /\ lpc[p] = "throw" /\ p \notin workers /\ status[p] \in {"up", "waiting"}
  /\ workers' = workers \cup {p}
  /\ UNCHANGED <<serverVars, mainVars, resetVars, clientVars, status, heard, lpc, numPools, numFails,
                 destroyVars, watchVars, failed, panic>>

\* throw(EventPoolError): poolListener calls Reset, if it is attached yet.
PoolThrow(p) ==
  /\ lpc[p] = "throw"
  /\ IF p \in heard
       THEN lpc' = [lpc EXCEPT ![p] = "listener"] /\ rpc' = [rpc EXCEPT ![p] = "reset"]
       ELSE lpc' = [lpc EXCEPT ![p] = "idle"] /\ UNCHANGED rpc
  /\ UNCHANGED <<serverVars, mainVars, arg, prev, made, resets, clientVars, status, workers, heard,
                 numPools, numFails, destroyVars, watchVars, failed, panic>>

\* Reset has failed in poolListener: EventServerFailure.
PoolListenerFail(p) ==
  /\ rpc[p] = "fail" /\ MuFree /\ Finish(p)
  /\ started' = FALSE /\ pool' = 0 /\ factory' = 0
  /\ failed' = {q \in workers : status[q] = "up" /\ dpc[q] = "none"}
  /\ UNCHANGED <<cfg, controller, pController, mainVars, arg, prev, made, resets, clientVars, status,
                 workers, heard, numPools, numFails, destroyVars, watchVars, panic>>
-----------------------------------------------------------------------------
(* Exec *)

\* s.Pool() under s.mu; requests come in while the server is up.
ExecPool(c) ==
  /\ cpc[c] = "idle" /\ spc = "up" /\ pool # 0
  /\ cpool' = [cpool EXCEPT ![c] = pool] /\ cpc' = [cpc EXCEPT ![c] = "call"]
  /\ UNCHANGED <<serverVars, mainVars, resetVars, poolVars, destroyVars, watchVars, failed, panic>>

\* pool.Exec counts the task under tmu, and then runs the job or finds the pool stopped.
ExecEnter(c) ==
  /\ cpc[c] = "call" /\ status[cpool[c]] # "waiting"
  /\ cpc' = [cpc EXCEPT ![c] = IF status[cpool[c]] = "up" THEN "exec" ELSE "idle"]
  /\ UNCHANGED <<serverVars, mainVars, resetVars, cpool, poolVars, destroyVars, watchVars, failed, panic>>

ExecReturn(c) ==
  /\ cpc[c] = "exec" /\ cpc' = [cpc EXCEPT ![c] = "idle"]
  /\ UNCHANGED <<serverVars, mainVars, resetVars, cpool, poolVars, destroyVars, watchVars, failed, panic>>
-----------------------------------------------------------------------------
Next ==
  /\ panic = "none"
  /\ \/ Serve \/ Attach
     \/ \E r \in Resetter : Call(r)
     \/ \E t \in Thread : Reconfigure(t)
     \/ \E p \in Pool : \/ DestroyDetach(p) \/ DestroyPrevious(p) \/ PoolDies(p) \/ PoolRevives(p)
                        \/ PoolThrow(p) \/ PoolListenerFail(p)
     \/ \E c \in Client : ExecPool(c) \/ ExecEnter(c) \/ ExecReturn(c)

Spec == Init /\ [][Next]_vars

\* Goroutines that can run do run, and jobs end.  Nobody has to call Start, Stop, Reconfigure, Attach
\* or Exec, and pools need not die.
Fairness ==
  /\ WF_vars(panic = "none" /\ (StartFail \/ StartDone \/ StopDetach \/ StopDestroy \/ StopDone))
  /\ \A t \in Thread : WF_vars(panic = "none" /\ Reconfigure(t))
  /\ \A p \in Pool : /\ WF_vars(panic = "none" /\ (DestroyDetach(p) \/ DestroyPrevious(p)))
                     /\ WF_vars(panic = "none" /\ (PoolThrow(p) \/ PoolListenerFail(p)))
  /\ \A c \in Client : WF_vars(panic = "none" /\ (ExecEnter(c) \/ ExecReturn(c)))

FairSpec == Spec /\ Fairness
-----------------------------------------------------------------------------
\* The process never panics: no pool is destroyed twice, no controller detached twice, and NewPool
\* is not called with a nil factory, although Reconfigure reads s.factory without s.mu.
NoPanic == panic = "none"

\* While the server is started and not stopping, its pool accepts jobs: Reconfigure destroys only
\* pools that have been replaced.
ActivePool == (started /\ MuFree) => pool \in Pool /\ status[pool] = "up"

\* The controller of the server observes the pool of the server (pController and pool are replaced
\* together).
Watched ==
  (started /\ MuFree /\ controller) => /\ pController # 0 /\ pController \notin off
                                       /\ on[pController] = pool

\* The pool of a started server accepts jobs and is the one its controller observes, whatever
\* Reconfigure, Reset and poolListener replace.
ActiveAndWatched == ActivePool /\ Watched

\* No pool is forgotten: one that is up is the pool of the server, or about to become it, or about to
\* be destroyed by the goroutine of Reconfigure.
PoolsAccounted ==
  \A p \in Pool : status[p] = "up" =>
    \/ p = pool
    \/ \E t \in Thread : rpc[t] = "install" /\ made[t] = p
    \/ dpc[p] \in {"detach", "destroy"}

\* Once Stop has returned no pool is up and no controller observes one.
StopLeavesNone ==
  spc = "down" => /\ \A p \in Pool : status[p] \in {"none", "gone"}
                  /\ {w \in DOMAIN on : on[w] # 0} \subseteq off

\* poolListener reports EventServerFailure only when no pool with workers is left behind.
FailureMeansDead == failed = {}

\* s.pool is nil or a pool, so that Exec on a server without pool reports it.
PoolIsReal == pool # NilPool

\* Stop returns.
StopReturns == spc = "detach" ~> spc = "down"

\* A pool that has lost all its workers does not stay the pool of a started server.
DeadPoolRebuilt == \A p \in Pool : (p = pool /\ p \notin workers) ~> (p # pool \/ p \in workers)
=============================================================================
