# Verification of RoadRunner

RoadRunner runs a set of PHP processes, hands jobs to them over pipes or sockets, replaces the ones
that die and restarts all of them on demand.  This directory holds TLA+ models of the parts of that
program whose correctness depends on the order of concurrent steps, TLC configurations that check
them on small instances, and TLAPS proofs for instances of any size.

## The system and its models

`rr serve` registers ten services in a container, configures them, and serves them until a signal, a failure or
`rr stop`.  The http service owns a server, the server owns a pool of workers, a worker owns a PHP process and talks to it
over a relay.  The other services act on that chain: limit removes workers, reload resets the server, metrics and rpc are
called from PHP.

| Part | Module | What makes it hard |
|---|---|---|
| Static pool, and the worker as the pool drives it (`static_pool.go`, `worker.go`) | `StaticPool`, `WorkerRotation` | processes die at any time; a dead worker stays in the ring until somebody takes it; the watcher, the client and Destroy write the same worker |
| Making a worker (`pipe_factory.go`, `socket_factory.go`) | `Spawn` | a process connects late, answers wrongly or not at all; the accept loop delivers on an unbuffered channel |
| Talking to it (`protocol.go`, `execPayload`, `src/*.php`) | `Frames` | one process serves many jobs; it may die between the two frames of an answer |
| Its error output (`error_buffer.go`) | `ErrorBuffer` | Write, the timer, Listen, Wait and Close meet in one buffer |
| Server (`server.go`) | `Server` | Reconfigure and Stop overlap; a dead pool is reset from a callback of that pool |
| Limits (`service/limit`) | `Limit` | decisions from a snapshot of worker states |
| Start of the program (`main.go`, Init of the container and of every service) | `Startup` | what a service is given depends on the order of registration and on what is enabled |
| Its run and its end (`service/container.go`, Serve and Stop of the services) | `Container` | a service fails or stops while others are still starting |
| Reload (`service/reload`) | `Reload` | polls overlap; events come during a reset; Stop meets both |
| HTTP handler (`service/http`, headers, static) | `Http` | uploads are opened in parallel and fail one by one; forms are walked in the order of a map |
| Metrics (`service/metrics`) | `Metrics` | calls declare the same name at once, and beside Serve |

A module is checked by itself; where two meet, the one reduces the other to what it observes: `Server` has pools that are
up, ending or gone, `Limit` has workers with a state and a count, `Container` has services that listen and stop.
`MCPoolEnd` and `MCServerLife` check two instances of a module in one run, `MCWorkers` and `MCServices` four modules each;
`Services` is `Reload` with instances of `Http` and `Metrics` beside it, and `MCServices` adds `Startup`.
Such modules share no variable: a behaviour belongs to the part chosen in its initial state, and fairness is that of
the part.

`PROJECT.json` maps every definition to its lines and lists the hazards.

## StaticPool

`StaticPool.tla` models `static_pool.go` and the part of `worker.go` that the pool drives.  A step is
what a goroutine does between two accesses to shared state.

* **Workers.** A worker is `<<slot, generation>>`: the watcher of `<<s, g>>` spawns `<<s, g + 1>>`.
  `state`, `numExecs` and `waitDone` are the fields of the same name; `proc` is the process.
* **Pool.** `free`, `numDead`, `workers`, `remove`, `inDestroy` are the fields; `closed` says that
  `p.destroy` is closed; `tasks[c]` counts the Exec frames of client `c` in `p.tasks`.
* **Locks.** `tmu` is held exactly while Destroy is in `tasks.Wait` (`TmuHeld`); `Worker.mu` is held by a
  client inside `Worker.Exec` and by `Worker.Stop` until the process is reaped (`MuFree`).  Sections
  that only touch memory under a lock are one step.
* **Clients** run `Invoke`, `ExecEnter`, the `Allocate...` actions and `Receive` (allocateWorker), the
  `WorkerExec...` actions (`Worker.Exec`), and `ExecDiscard`, `ExecRestart` (the stop request),
  `ExecRelease`, `ReleasePush`.
* **Goroutines.** `Watch...` is watchWorker; `StopTest`, `Stop`, `DestroyTimeout`, `DestroyKill` are
  destroyWorker, started either by discardWorker or by Destroy; `Destroy...` and `NewPool...` are the
  functions of these names; `Reap` is the goroutine of `Worker.start`.
* **Environment.** A process may exit at any time (`Crash`), obey the stop command (`ObeyStop`) or not.
  A controller calls Remove and perhaps Kill, as the limit service does; Remove tests the state, looks into `p.remove`
  and stores in three steps (`RemoveCheck`, `RemoveLoad`, `RemoveStore`).

Left out: the event listeners (`p.mul`, `Listen`, `throw`), which are assumed to return, except that
`poolError` records EventPoolError; the payloads; a nil payload; a second call of Destroy, which
panics by closing a closed channel.  Once `waitDone` is closed, Stop and destroyWorker only report,
so they take no further step.

`WorkerRotation.tla` is the abstract specification: a worker is hired once, offered, serves one client
at a time and, once gone, never comes back.  `StaticPool` implements it with `offered` = queued or about to
be queued, `serving` = the workers of the clients.

### Runs

| Run | Instance | Shows |
|---|---|---|
| `pool_exec` | 1 worker, 2 clients, MaxJobs 1, every answer, 1 removal and kill, 1 replacement | `TypeOK`, `OneOwner`, `MaxJobsRespected` |
| `pool_slots` | 2 workers, 2 clients, 1 crash, replacements may fail | `ProcessBound`, `NumDeadDebt`, `PoolDeathReported`, refinement of `WorkerRotation` |
| `pool_remove` (`MCPoolEnd`) | 1 worker, 1 client with 2 calls, 1 crash, 2 removals, perhaps a kill; and 2 workers, 1 crash, Destroy | `OutOfService` (a removed worker starts no new job, a discarded one never returns); `SurvivorsAreLate` (what runs after Destroy replaces a worker that Destroy did not list) |
| `pool_live` | 1 worker, 2 clients, MaxJobs 1, Destroy, fair | `ExecReturns`, `DestroyReturns` |

Bounds.  Two clients are enough for two calls to compete for one worker and one to wait; one crash and
one replacement per slot put a dead worker and its heir into the ring together, which is where the
ring overflows and `numDead` goes wrong; two slots are needed for workers that die together.
`MaxGen`, `MaxCalls`, `MaxNested`, `MaxCrashes`, `MaxRemovals`, `MayDestroy` are the bounds; beyond `MaxGen` a
replacement can only fail.  Deadlock is not checked: with bounded calls every behaviour ends, and the
blocked states of interest are covered by the liveness properties.

Fairness.  Every goroutine that can run runs eventually (the Go scheduler), timers fire, a job that was
sent is answered, an exit is reported.  Nothing is assumed of clients, of processes asked to stop, or
of crashes.

### Where the code departs from what it says

Run `pool_full_queue`: a worker dies while it is in the hands of a client, or is taken when dead, and its replacement
takes its place in `p.free`.  The channel is full, and the next `release` blocks for good.

TLC refutes three more expectations.  They have no configuration of their own; to reproduce one, change
`pool_live.cfg` as the table says (with `Spec` for the last two).

| Property | Instance | What happens |
|---|---|---|
| `DestroyReturns` | `FairSpec`, 1 worker, 1 client, MaxJobs 0, Replies ok and stop, MaxGen 1, MaxNested 2, Destroy | A worker answers with the stop request while Destroy waits in `tasks.Wait` with `tmu` held. Exec calls itself with its own task still counted and waits for `tmu`: both wait for ever. |
| `AllDeadIsTrue` (a `PROPERTY`) | 2 workers, 2 clients, MaxCalls 1, 1 crash, no Destroy | A client takes a dead worker before its watcher has counted it, `numDead` is -1, and a concurrent call fails at once with "all workers are dead". |
| `DestroyLeavesNone` | 1 worker, 1 crash, Destroy | The watcher of a dead worker tests `destroyed()`, Destroy runs to the end, and the watcher then starts a process nobody will stop. |

The instance of `pool_live` has neither crashes nor stop requests, because `ExecReturns` and
`DestroyReturns` fail with them as described.

### Proofs

`StaticPoolProofs.tla` and `StaticPoolTheorems.tla` prove every invariant of the pool that a run checks, and the refinement,
for any number of workers, clients, crashes and replacements.  They assume `PoolAssumption`: there is at least one worker
(Valid in config.go), the bounds are naturals.

| Theorem | States | Inductive invariant |
|---|---|---|
| `TypeCorrect` | `TypeOK` | `Control` |
| `ExclusiveWorkers` | `OneOwner` | `Owned` |
| `BoundedProcesses` | `ProcessBound` | `Owned` |
| `PoolRotates` | `ImplementsRotation` | `Owned` |
| `JobsAreBounded` | `MaxJobsRespected` | `Owned`, `Service` |
| `RemovedStaysOut` | `OutOfService` | `Owned`, `Service` |
| `DeathIsReported` | `PoolDeathReported` | `Owned`, `Watchers` |
| `DestroyLeavesLate` | `SurvivorsAreLate` | `Owned`, `Watchers`, `Ended` |
| `DebtIsTransient` | `NumDeadDebt` | `Owned`, `DeathsCovered` |

* The types are not inductive alone; `Control` adds what the program counters say: a client past `Receive` holds a worker, a
  watcher that spawned has an heir within bounds.
* `Owned` is types, `OneOwner` and `Lineage`.  `Lineage` is needed because `OneOwner` breaks if a watcher could spawn an heir
  that exists already: it says that the heir of `w` exists exactly once the watcher of `w` has spawned it (`Succession`), that
  all but the last generation of a slot are reaped (`Generations`), and that only spawned workers are in circulation (`Born`).
  Every step is then shown to be one of six moves of a worker (`Moved`), and each move preserves `OneOwner` (`MovedOneOwner`)
  and is a step or a stutter of the rotation (`MovedRotates`).  `ProcessBound` follows because the slot is an injective function
  of the running workers.
* `Service` says what a worker in circulation still may do: it has a job left unless its client is about to release it
  (`JobsLeft`), it is not one that was discarded (`Discarded`), and if it was removed it has at most the job it was in
  (`RemovedQuota`).
* `Watchers`: `p.workers` holds only workers whose watcher has not taken them out (`Listed`), and until EventPoolError is
  thrown or Destroy begins some worker is watched or being replaced (`Guarded`).
* `Ended`: `p.workers` holds every worker whose watcher has not taken it out (`Complete`), `inDestroy` is set before the list
  is made (`Begun`), so that no worker of the list is replaced (`Unreplaced`); a process that runs is in the list or replaces a
  worker that is not (`Late`), and those of the list are gone when Destroy returns (`ListedGone`).
* `DeathsCovered` is the sum behind `numDead`: the workers that were counted are no more than `numDead` and the workers out of
  circulation together.  It is the one invariant about cardinalities.

Only model-checked: `ExecReturns` and `DestroyReturns`, since liveness under fairness is out of the prover's reach.

## Server

`Server.tla` models `server.go` over pools reduced to what the server observes of them: whether a pool is
up, waiting in Destroy, closed or gone (`status`), whether it has workers, who listens to it (`heard`).

* **State.** `cfg` (the relay, all that Differs compares), `started`, `factory`, `pool`, `controller`,
  `pController` are the fields.  `NilPool` is the nil `*StaticPool` that a failed Start stores in the
  interface `s.pool`.
* **Locks.** `s.mu` is held by Start and Stop across their waits (`MuFree`) and for single steps elsewhere;
  `s.mup` by Reconfigure until it returns (`MupFree`); the `mul` of a pool while `poolListener` runs.
* **Threads.** `Start...` and `Stop...` belong to the goroutine that serves; `Call`, `Reset` and the steps of
  Reconfigure to every resetter and to the event listener of every pool; `DestroyDetach` and
  `DestroyPrevious` to the goroutine that destroys the replaced pool; `Exec...` to the clients.
* **Environment.** A pool loses all its workers (`PoolDies`) and may get one back before it reports
  (`PoolRevives`); making a pool fails if `MayFail`.

| Run | Instance | Shows |
|---|---|---|
| `server_reset` | 2 resetters, 1 client, 2 relays, 4 pools, 1 death; no Stop | `TypeOK`, `NoPanic`, `ActiveAndWatched`, `PoolsAccounted` |
| `server_live` (`MCServerLife`) | 1 resetter, 1 client, 1 death, fair; and 2 clients, 3 Starts, failing Starts, Stop, 2 Attach, no resets | `ResetsEnd`; `StopLeavesNone` |
| `server_stop_reset` | 1 resetter and Stop | `NoPanic` is violated |

Two resetters and a dying pool are three calls of Reconfigure at once; four pools let each of them
replace one.  Fairness: goroutines that can run do run, jobs end.  Deadlock is not checked, as the
server may stay down.

`server_stop_reset`: Reconfigure releases `mu` while it makes the new pool.  Stop destroys the old one in
the meantime, and the process panics when Reconfigure goes on.  `server_reset` has no Stop for that
reason.  TLC refutes four more expectations and one instance of `Watched`; they have no configuration of
their own, and start from `server_stop_reset.cfg` without `SYMMETRY`, with `MayStop` FALSE but for `StopReturns`, and with `FairSpec`
where the table says fair:

| Property | Constants that matter | What happens |
|---|---|---|
| `FailureMeansDead` | 1 resetter, MaxFails 1, MayFail | The failure of a replaced or recovered pool makes the server give up the pool that runs. |
| `PoolIsReal` | no resetter, MayFail | Start fails in NewPool and leaves a nil pool that is not a nil interface. |
| `Watched` | no resetter, MaxAttach 1 | Attach on a server started without a controller attaches nothing. |
| `StopReturns` | no resetter, MaxFails 1, MayStop, fair | Stop holds `mu` and waits for the pool's `mul`; the pool listener holds `mul` and waits for `mu`. |
| `DeadPoolRebuilt` | 1 resetter, MaxFails 1, fair | A pool that dies before Reconfigure listens to it reports to nobody and stays. |

### Proofs

`ServerTypeProofs.tla` proves `TypeOK` (`ServerTypes`) whatever is called; `ServerProofs.tla` proves the rest, each theorem
under what the runs assume and the table above shows to be necessary.  Relays, resetters, clients and all bounds are arbitrary.

| Theorem | States | If | Inductive invariant |
|---|---|---|---|
| `ServerTypes` | `TypeOK` | | `Calls` |
| `PoolsAreAccounted` | `PoolsAccounted` | no Stop, NewPool does not fail | `Pools` |
| `PoolIsActive` | `ActivePool`, the first half of `ActiveAndWatched` | the same | `Pools` |
| `ResetsDoNotPanic` | `NoPanic` | the same, and Attach is not called again | `Pools`, `Controllers` |
| `PoolIsWatched` | `ActiveAndWatched` | the same | `Pools`, `Controllers` |
| `StopIsClean` | `StopLeavesNone` | no Reset, and no pool dies | `Lifetime` |
| `StopDoesNotPanic` | `NoPanic` | the same | `Lifetime` |

* `Calls`: `s.mup` lets one Reconfigure through, and the pool it has made is unknown to the server and has no controller
  yet.  It also bounds the controllers by the calls that attach one, without which their number has no type.
* `Pools` follows a pool from `create` to its destruction: the one a Reconfigure has made, the server's, the ones replaced.  It
  is about `s.factory`, too, which Reconfigure reads without `s.mu`.
* `Controllers`: the last controller is the server's, the earlier ones are detached or about to be, each by one goroutine.  A
  second Attach would leave one without a goroutine; that is why it is excluded.
* `Lifetime`: one pool at a time, and all controllers but the last detached.

The hypotheses of `StopIsClean` are those of the second instance of `server_live`; in the first, which is never stopped,
`StopLeavesNone` says nothing after Start.  `NoPanic` needs its hypothesis: `server_stop_reset` violates it.

Only model-checked: `ResetsEnd`.

## Container

`Container.tla` models `service/container.go`, `serveHandler` and the Serve and Stop methods of the services.

* **State.** `status` is `entry.status`, `errc` the channel.  `gpc` is the goroutine of a service: started,
  running, being set up with the lock held (http), about to listen, open, sending its result, done.
* **Services** differ in what Stop finds.  rpc, metrics, health and http do nothing in Stop before Serve
  has made what it looks at (`ready`); rpc then closes a channel, which panics the second time; http needs
  the lock its Serve holds during the setup and keeps when that fails; reload hands over two messages
  and waits for the receivers.  Shutdown of a net/http server is assumed to end, and so is a Reset that
  reload has begun.
  http stops itself when its workers are lost (`ServerFailure`); its Serve then returns nil, and so does that of the
  container, which reads no later failure.
* **Stoppers.** Stop is run by Serve after a failure, by the signal handler and by `rr stop`; its test and
  its two writes of the status are separate steps.
* **End.** `Exit` is the return of `serveHandler`: nothing runs after it, nor after a panic.

| Run | Instance | Shows |
|---|---|---|
| `container_stop` | rpc, http, reload, each perhaps disabled; each may fail, and http may lose its workers; a signal or `rr stop` | `TypeOK`, `StoppingHasStopper`, `StopIsFinal`, `SignalEnds`, `FailureEnds` |
| `container_rpc_stop` | rpc and http, `rr stop` | `RpcStopEnds` is violated |

The three services have the three kinds of Stop; metrics and health are as rpc without the panic.
`MaxOutside` 1 lets one call of Stop from outside meet the one of Serve.  Fairness: goroutines that can run do run; nothing
need fail and nobody need stop the program.  Deadlock is not checked: the program ends.

`SignalEnds` and `FailureEnds` say what they assume: one caller of Stop, and no service that failed in
such a way that its Stop blocks (`Stuck`).  `SignalEnds` further needs all services up.  `FailureEnds` allows one failure that nobody reads, the one that comes
after the nil of an http service that has stopped itself: Serve has returned nil, and `serveHandler` waits for a
signal.  That this could not happen is `AnyFailureEnds`, which TLC refutes on this instance.  All of these
assumptions are needed: an early signal is lost, two callers can close the channel of rpc twice or wait
for reload for ever, and Stop of a failed http or reload service blocks.  The hazards in `PROJECT.json`
give the lines.

`ContainerProofs.tla` proves `StoppingHasStopper` (`NoneLeftStopping`) and `StopIsFinal` (`StoppedForGood`) for any number of
services of any kind, from `ContainerAssumption`: every service is of one kind.  The invariant adds that only
a goroutine past setStatus(StatusServing) leads to the later states (`Started`), that Stop works only on services it found
there (`Found`), that Serve has no goroutine for the services ahead of its loop (`Ahead`), and that it calls Stop once
(`Once`).  `ContainerTypes` is `TypeOK`, which needs `Told`: a goroutine that is about to send into `errc` has a result.
`SignalEnds` and `FailureEnds` are only model-checked.

`container_rpc_stop`: after `rr stop` every service ends and Serve returns nil, but `serveHandler` then waits
for a signal; the process stays.

## Workers: Spawn, Frames, ErrorBuffer, Limit

One run, `workers`, checks the four.

**`Spawn`** is SpawnWorker of both factories, with the reaper and the goroutine that kills a process whose handshake
failed.  A worker stands for its process and its pid.  The process boots, connects, answers `fetchPID` with its pid,
with another, with something else or not at all, and exits when it likes.  `relays` holds the keys of `f.relays`, `backlog`
the connections the listener has not accepted, `loop` is the goroutine of `listen`.  Instance: one worker over pipes,
two over a socket, at most two calls, so that one call can find what another has left.

* `SpawnOutcome`: who becomes a worker has introduced itself; a failed call leaves no process; every channel in `f.relays`
  has an owner or is what a failed call left.
* `SocketSpawnReturns`, if goroutines run, the timer fires and a killed process is reaped; nothing is assumed of the process
  or of the accept loop.

**`Frames`** is the relay between Worker and process: `fetchPID`, `Exec` with the steps of `execPayload`, and `Stop` on one
side; `receive`, `handleControl`, `acceptRequest`, `respond`, `error`, `stop` and `send` of the PHP classes on the other,
in the loop that the repository's worker scripts have.  A frame is its flags, its kind and the job it was made for.
The two frames of an answer go out in one step or in two, as the relay allows; the process may die at every step.
Instance: three jobs.

* `JobIsolated`: PHP handles a job with its own context, body and `$_SERVER`; what Exec returns was made for that job;
  between two jobs the relay is empty.

**`ErrorBuffer`** is the buffer with the copier of os/exec, the loop and its timer, createWorker, Wait and the reaper.
Writes are numbered, at most three: one before Listen, one flushed, one still in the buffer when Wait looks.

* `OutputKept`: the listener gets output in order and once; what neither it nor the buffer has was written before
  Listen; what a Wait without output keeps silent about was heard, or written before Listen.
* `OutputHeard`, under fair goroutines and timer: what was written after Listen is heard, unless the buffer is closed.

**`Limit`** is the controller and its state filter beside the jobs of one worker, which may die.  Time
is kept as ages up to `Horizon` 3, one more than the largest limit; it passes between rounds.  The Remove that a limit calls
tests the state of the worker in the step that calls it, looks into `p.remove` (`RemoveLoad`) and stores (`RemoveStore`),
while the worker may die; the round waits for it (`call`).  Two configurations: all
limits, and those that leave a worker to the filter.

With one worker the variable of the loop that a kill goroutine captures always names the right one; the proofs of
`PickedWasQuiet` and `ReportedOnce` are for any number of workers.

* `PickedWasQuiet`: the filter picks a worker only if it completed nothing for longer than the limit.
* `ReportedOnce`, however many limits a worker exceeds.  A second report is possible, and only so: a Remove has found the
  worker active, the worker dies and the watcher deletes its key, and Remove, which looks for the key after that,
  returns true again (`torn`).
* `OverdueIsRemoved`, when time passes and the ticker is served: a worker that stays idle, or in one job, is removed.
  When both channels of the controller stay ready, its select takes stop in the end.

`PartTypes` are the types of all four.

### Proofs

`WorkersProofs.tla` proves every invariant of the run, for any number of workers, calls, writes, jobs and frames.  It
assumes that pids are told apart (`SpawnAssumption`), that the bounds are numbers and that the limits of the two configurations
lie within the horizon at which ages saturate (`BoundsAssumption`).

| Theorem | States | Inductive invariant |
|---|---|---|
| `JobsAreIsolated` | `JobIsolated` | `IInv` |
| `SpawnsAreSound` | `SpawnOutcome` | `Spawned` |
| `OutputIsKept` | `OutputKept` | `Kept` |
| `PicksAreQuiet` | `PickedWasQuiet` | `Filtered` of `LimitProofs` |
| `ReportsAreSingle` | `ReportedOnce` | `IInv`, `AtWorker`, `Due` of `LimitProofs` |
| `PartsAreTyped` | `PartTypes` | `Typed` here and in `LimitProofs`, `Spawned`, `Kept` |

* **Frames.**  `JobIsolated` is not inductive, since it says nothing of frames that are under way.  `IInv` says for every place the
  Worker can be at what may be on the relay and where the process may be (`AtPid`, `AtBody`, `Unread`, `Handled`, `AtAnswer`), and
  what Exec has returned (`Returned`).  One lemma per action shows that it is kept.  The point that is easily missed: a
  request to stop has no body (`Answers`), or `IsStop` would take it for an answer.
* **Spawn.**  `Spawned` adds to the outcome that the pid the accept loop delivers was sent by the process itself
  (`Connection`), that a call that failed has waited for its process (`Reaped`), and whose the channels in `f.relays` are
  while a pid is being delivered (`Delivered`).
* **ErrorBuffer.**  `Kept` adds that what is on its way is a run of consecutive writes (`Consecutive`), and that nothing but what came
  before Listen is dropped (`Dropped`).
* **Limit**, in `LimitProofs.tla`, for the module by itself and any set of configurations (`Configured`): `ReportsAreUnique`, `LimitTypes`,
  `PicksWereQuiet`.  What makes `ReportedOnce`
  inductive: a worker that was reported is in `p.remove` or gone (`Marked`); a process that is gone runs no job, so that no
  Exec makes its worker active again (`Settled`); and while a Remove or its report is under way, the worker has not been
  reported, or died during this Remove (`Fresh`, `Due`).  For `PickedWasQuiet`, `Filtered` says of a worker in the filter that its record is not older than
  what it has completed since (`Aged`), also while push is between its two reads (`Pushed`).

A behaviour of `MCWorkers` is one of a single part, so a part's invariant is kept by the steps of the others; what is
shown of Limit is carried over by `LimitBehaves`.

Only model-checked: `SocketSpawnReturns`, `OutputHeard` and `OverdueIsRemoved`.

## Services: Startup, Reload, Http, Metrics

One run, `services`, checks the four.

**`Startup`** is Init of the container for the services of `main`, one step per service, with every choice of sections,
up to the environment http gives to its first worker.  A service is given those it depends on that are configured by
then (`resolveValue`).  The keys of env that come from the configuration are in lower case and are put in upper case for
the worker, so that a configured `rr_rpc` and the one of rpc collide and the order of a map decides.

* `Wired`: every enabled middleware is in the chain of an enabled http, once and in order; rpc has the methods of exactly the
  enabled services; when rpc is enabled the workers are told its address, unless the configuration sets one.

**`Reload`** is the watcher with two polls at a time, the goroutine that forwards events, the one that collects and resets,
and Stop.  `Cap` 1 stands for the capacity 100 of `treshholdc`: what matters is that it can be full.  Two edits of one
file, and one failure: a list that cannot be retrieved, which looks like the removal of every file, or a Reset that the
server cannot make.  The service logs such a Reset and forgets the change; `missed` records what it was made for.

* `NotedIsLoaded`: a change the watcher has noted is loaded, or an event is on its way, or a Reset for it has failed.
* `ChangeReloads` and `StopEnds`, under fair goroutines, tickers and Reset: a change is loaded in the end, unless the Reset
  made for it fails; Stop returns and the polls end.

**`Http`** is one request: redirect, middleware, the form and the uploads, the worker, the response, and every error path.
A name of a field is a sequence of characters, as `fetchIndexes` is a loop over them.  The instance has a field, fields below
and beside it, a list, a name with more than `MaxLevel` indexes (2 here, 127 in the code), and two files, one of them too deep.

* `UploadsHandled`: when the worker is called every upload has its file or its error, and a request that is over leaves no temporary
  file, whatever failed, but one that os.Remove failed for.
* `FormTree`: `fetchIndexes` is checked against the names it should split, for all names of up to three short keys; fields that do
  not conflict are in the tree, whatever the order of the map; a multipart form whose fields conflict is refused.
* `EndIsReported`: unless the handler panics, a request ends with a status, and one that reached the handler with an event.

**`Metrics`** is Declare in its three steps, Add, Sub, Set, Observe, and Serve, with two declarers, two names, one of them
perhaps configured, and two full names.  rpc finds a
collector by its name; the registry refuses one by its full name, of which namespace and subsystem are parts, so that every
collector has a full name of its own choice (`full`) and two names may collide in it, or one name have two.

* `AckedIsExported`: what was acknowledged is exported, but for names that are declared at once or whose registration failed
  (`spoiled`), and one declaration of a full name is acknowledged at most.

`PartTypes` are the types of all four.  Deadlock is not checked in either run: a request, a spawn or Init ends.

### Proofs

`ServicesProofs.tla` proves, for any number of files, polls, edits, uploads, metrics and calls, any fields and either kind of
watcher:

| Theorem | States | Inductive invariant |
|---|---|---|
| `NotedChangesLoad` | `NotedIsLoaded` | `Noted` |
| `UploadsAreHandled` | `UploadsHandled` | `Filed` |
| `EndsAreReported` | `EndIsReported` | `Reported` |
| `AcknowledgedIsExported` | `AckedIsExported` | `Measured` |

* `Noted` says that what a poll has read and the watcher has noted are versions the files have had (`Seen`), so that a Reset
  loads, or misses, nothing older, and that what is noted while a Reset runs has an event that comes after it (`Announced`).
* `Filed`: before Open there is no file; a goroutine that still writes one belongs to a request that waits for it (`Written`).
* `Reported`: up to the answer there is no status and no event, and after it there are both.
* `Measured`, from `CollectorAssumption` (a collector tells who made it): what holds of every name (`Stored`), so that one
  declaration of a full name at most is acknowledged, and what holds of a name that is not spoiled (`Orderly`): the
  collector rpc finds is the registered one, or the one about to be, and has all that was acknowledged.

Only model-checked: `ChangeReloads` and `StopEnds`, which are liveness.  `FormTree`, and with it the types of `Http`, is about what the
recursive functions that walk names and fields compute; that takes induction over sequences, which the
installed provers cannot do.  The types of `Reload` need that there is a last directory with a
file of a name (`LastDir`), an induction too.  `Wired` has no
constants: TLC's check of `Startup` is exhaustive.

## Expectations of the code that TLC refutes

They are stated in the modules, are part of no run, and fail on the instances of `workers.cfg`, `services.cfg` and
`container_stop.cfg` (for an instantiated module through a definition such as `Limits!HungIsKilled`).

| Property | What happens |
|---|---|
| `Spawn!WorkerOrError` | The process answers with another pid and exits: SpawnWorker over pipes returns neither worker nor error. |
| `Spawn!ListensAgain` | A relay that comes after the timeout, or for a pid nobody waits for, blocks the accept loop for good. |
| `ErrorBuffer!WaitCarriesStderr` | `waitDone` is closed before the copier has passed on the last output: Wait returns an ExitError (worker.go:94 says the output is wrapped). |
| `Limit!HungIsKilled` | TTL or MaxMemory marks a worker in its job; the rounds then skip it, and ExecTTL never kills it. |
| `Limit!KilledOnInitialRequest` | NumExecs is read after `find`, not with the record: the job may be another one. |
| `Limit!TrueOnce` | The watcher deletes the key of a dead worker between two steps of Remove, which returns true again (pool.go:37 says "Return true is this is first remove request on given worker"). |
| `Container!AnyFailureEnds` | http loses its workers and stops itself; Serve reads its nil, returns nil, and nobody reads the failure of another service. |
| `Reload!FailedResetIsRepeated` | A Reset that fails is logged, the collected changes are dropped, and the old workers serve on until the next change. |
| `Reload!ResetsOnlyForChanges` | A list that cannot be retrieved looks like the removal of every file, and resets the workers although nothing changed. |
| `Reload!ChangeReloads` with Recursive FALSE and two directories | Files are known by their bare names; two with the same name hide each other. |
| `Http!CountedOnce` | handleError throws a second EventError when its message cannot be written, and a response that cannot be written throws EventResponse and EventError; the request counter counts both. |
| `Http!FormConflictAborts` | An urlencoded form with `a` and `a[b]` panics in one order of the map and loses a field in the other. |
| `Metrics!ServedIsExported` | A Declare that the registry refuses, for its name or its full name, leaves its collector where rpc finds it. |
| `Metrics!ServeComesUp` | A worker declares a configured name, or its full name, before Serve registers it. |
| `Startup!WatchedRuns` | reload, and limit, take http by name, enabled or not. |

## Not modelled

* Bytes: JSON, the goridge prefix, headers, cookies and multipart bodies; the resolution of client addresses.
* TLS, HTTP/2 and FCGI set-up, compression, process isolation and users: calls of libraries and of the system.
* Parsing of commands, flags and addresses, tables, colours and log lines of the command line.
* Event listeners, except where a module names the event: they are assumed to return.
