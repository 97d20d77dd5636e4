-------------------------------- MODULE MCWorkers --------------------------------
(* Spawn, ErrorBuffer, Limit and Frames checked in one run.  They share no variable: a behaviour is one of the part
   chosen in the initial state, the other parts stay in theirs. *)
EXTENDS Frames, TLC

CONSTANTS Piped, Socketed, Stranger, MaxSpawns, MaxWrites, Limited, Horizon, MaxExecs

ASSUME SpawnAssumption == Piped \cap Socketed = {} /\ Stranger \notin Piped \cup Socketed
ASSUME BoundsAssumption == MaxFrames \in Nat /\ MaxWrites \in Nat /\ MaxExecs \in Nat /\ Horizon \in Nat /\ Horizon >= 2

VARIABLES
  part,
  sent, copied, writer, buf, last, armed, tick, running, lsn, lsnAt, heard, closed, process, wait, waitAt,
  cfg, state, numExecs, exec, age, doneAge, removed, call, callW, torn, ctl, prev, next, quiet, kills, reports, detached,
  spawn, proc, waitDone, rl, fetchErr, killer, relays, backlog, loop, listening, introduced

\* All limits, and those that leave a worker to the state filter.
Configs ==
  {[TTL |-> 2, IdleTTL |-> 1, ExecTTL |-> 1, MaxMemory |-> TRUE],
   [TTL |-> 0, IdleTTL |-> 1, ExecTTL |-> 1, MaxMemory |-> FALSE]}

Buffer == INSTANCE ErrorBuffer
Limits == INSTANCE Limit WITH Worker <- Limited
Spawning == INSTANCE Spawn

bufferVars == <<sent, copied, writer, buf, last, armed, tick, running, lsn, lsnAt, heard, closed, process,
                wait, waitAt>>
limitVars == <<cfg, state, numExecs, exec, age, doneAge, removed, call, callW, torn, ctl, prev, next, quiet, kills,
               reports, detached>>
spawnVars == <<spawn, proc, waitDone, rl, fetchErr, killer, relays, backlog, loop, listening, introduced>>
mcVars == <<part, spawnVars, bufferVars, limitVars, framesVars>>

MCInit ==
  /\ part \in {"spawn", "buffer", "limit", "frames"} /\ Init /\ Buffer!Init /\ Limits!Init /\ Spawning!Init
  /\ part # "limit" => cfg = CHOOSE c \in Configs : TRUE
  /\ part # "frames" => package

SpawnNext == part = "spawn" /\ Spawning!Next /\ UNCHANGED <<part, bufferVars, limitVars, framesVars>>
BufferNext == part = "buffer" /\ Buffer!Next /\ UNCHANGED <<part, spawnVars, limitVars, framesVars>>
LimitNext == part = "limit" /\ Limits!Next /\ UNCHANGED <<part, spawnVars, bufferVars, framesVars>>
FramesNext == part = "frames" /\ Next /\ UNCHANGED <<part, spawnVars, bufferVars, limitVars>>

MCNext == SpawnNext \/ BufferNext \/ LimitNext \/ FramesNext

\* The fairness of each part, for the behaviours that are its own.
SpawnFairness ==
  \A w \in Piped \cup Socketed :
    /\ WF_spawnVars(part = "spawn" /\ Spawning!FindRelay(w)) /\ WF_spawnVars(part = "spawn" /\ Spawning!FindTimeout(w))
    /\ WF_spawnVars(part = "spawn" /\ Spawning!Bind(w)) /\ WF_spawnVars(part = "spawn" /\ Spawning!Kill(w))
    /\ WF_spawnVars(part = "spawn" /\ Spawning!Reap(w)) /\ WF_spawnVars(part = "spawn" /\ Spawning!WaitReturn(w))
BufferFairness ==
  /\ WF_bufferVars(part = "buffer" /\ Buffer!Write) /\ WF_bufferVars(part = "buffer" /\ Buffer!Update)
  /\ WF_bufferVars(part = "buffer" /\ Buffer!TimerFires) /\ WF_bufferVars(part = "buffer" /\ Buffer!Tick)
  /\ WF_bufferVars(part = "buffer" /\ Buffer!StopLoop)
LimitFairness ==
  /\ SF_limitVars(part = "limit" /\ Limits!Pass) /\ WF_limitVars(part = "limit" /\ Limits!Control)
  /\ SF_limitVars(part = "limit" /\ Limits!Stop)
  /\ \A w \in Limited : WF_limitVars(part = "limit" /\ Limits!RegisterExec(w))

MCSpec == MCInit /\ [][MCNext]_mcVars /\ SpawnFairness /\ BufferFairness /\ LimitFairness

\* Every variable has its type: of Spawn, ErrorBuffer, Limit and Frames.
PartTypes == TypeOK /\ Buffer!TypeOK /\ Limits!TypeOK /\ Spawning!TypeOK

\* No error output is lost or repeated, but what was written before Listen (newErrBuffer, Write, Wait).
OutputKept == Buffer!OutputKept

\* Error output written after Listen reaches the listener, unless the buffer is closed first.
OutputHeard == Buffer!OutputHeard

\* A worker picked by ExecTTL or IdleTTL had completed nothing for longer than that (find, sync).
PickedWasQuiet == Limits!PickedWasQuiet

\* A worker is reported once, by the limit that removes it, but for a Remove that its death interrupts (control,
\* loadWorkers, Remove).
ReportedOnce == Limits!ReportedOnce

\* A worker that stays idle, or in one job, is removed while the controller is attached (IdleTTL, ExecTTL).
OverdueIsRemoved == Limits!OverdueIsRemoved

\* A call of SpawnWorker leaves a worker that has introduced itself, or no process, and no relay that is not accounted
\* for (SpawnWorker of both factories).
SpawnOutcome == Spawning!SpawnOutcome

\* SpawnWorker of a SocketFactory returns, whatever the process and the accept loop do (findRelay).
SocketSpawnReturns == Spawning!SocketSpawnReturns
==================================================================================
