------------------------------- MODULE LimitProofs -------------------------------
(* What Limit promises, for any number of workers, jobs, rounds and configurations: a worker is reported
   once (ReportedOnce), the types, and a worker is picked after a quiet time only (PickedWasQuiet). *)
EXTENDS Limit, TLAPS

\* A worker that was reported stays in p.remove until its process is gone, and is then never active again.
Marked(w) == w \in removed \/ state[w] = "gone"

\* Nobody runs a job on a process that is gone, so no Exec sets its state again.
Settled == \A w \in Worker : state[w] = "gone" => exec[w] = "none"

\* Only a worker that is gone has interrupted a Remove, and only such a worker is reported twice.
IInv ==
  /\ state \in [Worker -> States]
  /\ exec \in [Worker -> {"none", "running", "ended"}]
  /\ reports \in [Worker -> {0, 1, 2}]
  /\ Settled
  /\ torn \subseteq Worker /\ \A w \in torn : state[w] = "gone"
  /\ \A w \in Worker : /\ reports[w] # 0 => Marked(w)
                       /\ reports[w] = 2 => w \in torn

\* The controller compares executions of a worker of the pool (the loop over find), and one of its loops has called the
\* Remove that runs.
AtWorker ==
  /\ ctl = [at |-> ctl.at, todo |-> ctl.todo, w |-> ctl.w, val |-> ctl.val, eID |-> ctl.eID]
  /\ ctl.at \in {"kill", "compare"} => ctl.w \in Worker
  /\ call # "none" => callW \in Worker /\ ctl.at \in {"load", "kill", "idle"} /\ (ctl.at = "kill" => callW = ctl.w)

\* A worker that may be reported: it never was, or once before the death that has interrupted this Remove.
Fresh(w) == reports[w] = 0 \/ (reports[w] = 1 /\ w \in torn)

\* A Remove reports a fresh worker or returns false: one that was reported before is in p.remove until it dies.
Due ==
  /\ call = "load" => Fresh(callW) \/ (reports[callW] = 1 /\ callW \in removed)
  /\ call = "store" => Fresh(callW)
  /\ ctl.at = "compare" => Fresh(ctl.w) /\ Marked(ctl.w)

----------------------------------------------------------------------------------
\* A worker that was created stays so, and one that is gone too (newWorker, watchWorker).
LEMMA NeverNew ==
  ASSUME IInv, [Next]_vars, NEW w \in Worker
  PROVE  /\ state[w] # "new" => state'[w] # "new"
         /\ state[w] = "gone" => state'[w] = "gone"
<1>1. CASE \E v \in Worker : Create(v) \/ Begin(v) \/ EndJob(v)
  BY <1>1 DEF IInv, Settled, Create, Begin, EndJob, SetState
<1>2. CASE \E v \in Worker : RegisterExec(v) \/ Die(v)
  BY <1>2 DEF IInv, Settled, RegisterExec, Die, SetState
<1>3. CASE \E v \in Worker : KillRun(v)
  <2>1. state \in [Worker -> States]
    BY Zenon DEF IInv
  <2> QED
    BY <1>3, <2>1, Zenon DEF KillRun, SetState
<1>4. CASE UNCHANGED state
  BY <1>4, Zenon
<1> QED
  BY <1>1, <1>2, <1>3, <1>4, Zenon DEF Next, vars, Control, Round, RemoveLoad, RemoveStore, Tick, Push, Sync, ExecRemove,
     ExecKill, ExecDone, RoundDone, LoadSkip, LoadRemove, LoadState, ExecID, IdleRemove, Detach, Stop, Pass, poolVars

\* A step of the controller, and the passing of time, leave the workers alone (control, loadWorkers).
LEMMA RoundLeaves ==
  ASSUME Control \/ Detach \/ Stop \/ Pass \/ UNCHANGED vars
  PROVE  UNCHANGED <<state, exec, torn>> /\ (removed' = removed \/ (RemoveStore /\ removed' = removed \cup {callW}))
BY Zenon DEF vars, Control, Round, RemoveLoad, RemoveStore, Tick, Push, Sync, ExecRemove, ExecKill, ExecDone, RoundDone,
   LoadSkip, LoadRemove, LoadState, ExecID, IdleRemove, Remove, Detach, Stop, Pass, poolVars, removeVars

\* The pool leaves the controller alone, but for the key of a worker that dies (Exec, Kill, watchWorker).
LEMMA PoolLeaves ==
  ASSUME NEW w \in Worker, Create(w) \/ Begin(w) \/ EndJob(w) \/ RegisterExec(w) \/ Die(w) \/ KillRun(w)
  PROVE  /\ UNCHANGED <<ctl, call, callW, reports>>
         /\ \/ UNCHANGED <<removed, torn>>
            \/ /\ state'= [state EXCEPT ![w] = "gone"] /\ removed' = removed \ {w}
               /\ torn' = IF call = "load" /\ callW = w THEN torn \cup {w} ELSE torn
BY Zenon DEF Create, Begin, EndJob, RegisterExec, Die, KillRun, SetState, removeVars

\* The states of the workers and their jobs (Exec, Kill, watchWorker).
LEMMA StatesKeep ==
  ASSUME IInv, NEW w \in Worker,
         Create(w) \/ Begin(w) \/ EndJob(w) \/ RegisterExec(w) \/ Die(w) \/ KillRun(w)
  PROVE  state' \in [Worker -> States] /\ exec' \in [Worker -> {"none", "running", "ended"}] /\ Settled'
<1>1. CASE Create(w)
  BY <1>1, Zenon DEF IInv, Settled, Create, SetState, States, Active
<1>2. CASE Begin(w)
  BY <1>2 DEF IInv, Settled, Begin, SetState, States, Active
<1>3. CASE EndJob(w)
  BY <1>3 DEF IInv, Settled, EndJob, SetState, States, Active
<1>4. CASE RegisterExec(w)
  BY <1>4, Zenon DEF IInv, Settled, RegisterExec, SetState, States, Active
<1>5. CASE Die(w)
  BY <1>5, Zenon DEF IInv, Settled, Die, SetState, States, Active
<1>6. CASE KillRun(w)
  <2>1. UNCHANGED exec
    BY <1>6, Zenon DEF KillRun
  <2>2. state' \in [Worker -> States] /\ \A v \in Worker : state'[v] = "gone" <=> state[v] = "gone"
    BY <1>6, Zenon DEF IInv, KillRun, SetState, States, Active
  <2> QED
    BY <2>1, <2>2, Zenon DEF IInv, Settled
<1> QED
  BY <1>1, <1>2, <1>3, <1>4, <1>5, <1>6, Zenon

\* A worker that is marked stays so until it is gone (Remove, watchWorker).
LEMMA MarkedStays ==
  ASSUME IInv, [Next]_vars, NEW w \in Worker, Marked(w)
  PROVE  Marked(w)'
<1>1. ASSUME NEW v \in Worker, Create(v) \/ Begin(v) \/ EndJob(v) \/ RegisterExec(v) \/ Die(v) \/ KillRun(v)
      PROVE  Marked(w)'
  <2>1. CASE removed' = removed
    BY <2>1, NeverNew, Zenon DEF Marked
  <2>2. CASE removed' = removed \ {v} /\ state' = [state EXCEPT ![v] = "gone"]
    BY <2>2, Zenon DEF Marked, IInv
  <2> QED
    BY <1>1, <2>1, <2>2, PoolLeaves, Zenon
<1>2. CASE Control \/ Detach \/ Stop \/ Pass \/ UNCHANGED vars
  BY <1>2, RoundLeaves, Zenon DEF Marked
<1> QED
  BY <1>1, <1>2, Zenon DEF Next

\* A report is of a worker that is fresh, and marked by the Remove (control, loadWorkers).
LEMMA Reports ==
  ASSUME IInv, AtWorker, Due, [Next]_vars
  PROVE  \/ UNCHANGED reports
         \/ \E w \in Worker : Fresh(w) /\ Marked(w)' /\ reports' = [reports EXCEPT ![w] = @ + 1] /\ torn' = torn
<1>1. CASE RemoveStore
  BY <1>1, Zenon DEF RemoveStore, AtWorker, Due, Marked
<1>2. CASE ExecKill
  <2>1. ctl.w \in Worker /\ Fresh(ctl.w) /\ Marked(ctl.w) /\ UNCHANGED <<state, removed, torn>>
    BY <1>2, Zenon DEF ExecKill, AtWorker, Due, poolVars, removeVars
  <2>2. reports' = reports \/ reports' = [reports EXCEPT ![ctl.w] = @ + 1]
    BY <1>2, Zenon DEF ExecKill
  <2> QED
    BY <2>1, <2>2, Zenon DEF Marked
<1>3. CASE UNCHANGED reports
  BY <1>3, Zenon
<1> QED
  BY <1>1, <1>2, <1>3, PoolLeaves, Zenon DEF Next, vars, Control, Round, RemoveLoad, Tick, Push, Sync, ExecRemove,
     ExecDone, RoundDone, LoadSkip, LoadRemove, LoadState, ExecID, IdleRemove, Detach, Stop, Pass

\* The comparison is made for a worker of the pool, in every step.
LEMMA AtWorkerKeeps ==
  ASSUME AtWorker, [Next]_vars
  PROVE  AtWorker'
<1>1. CASE Round /\ call = "none"
  <2>1. CASE UNCHANGED call
    <3>1. CASE \E w \in Worker : ExecID(w)
      BY <1>1, <2>1, <3>1, Zenon DEF AtWorker, ExecID
    <3>2. CASE Tick
      BY <1>1, <2>1, <3>2, Zenon DEF AtWorker, Tick
    <3>3. CASE Push
      BY <1>1, <2>1, <3>3, Zenon DEF AtWorker, Push
    <3>4. CASE ExecRemove
      BY <1>1, <2>1, <3>4, Zenon DEF AtWorker, ExecRemove
    <3>5. CASE ExecKill
      BY <1>1, <2>1, <3>5, Zenon DEF AtWorker, ExecKill
    <3>6. CASE Sync
      BY <1>1, <2>1, <3>6, Zenon DEF AtWorker, Sync
    <3>7. CASE ExecDone
      BY <1>1, <2>1, <3>7, Zenon DEF AtWorker, ExecDone, Waiting
    <3>8. CASE RoundDone
      BY <1>1, <2>1, <3>8, Zenon DEF AtWorker, RoundDone, Waiting
    <3>9. CASE \E w \in Worker : LoadSkip(w) \/ LoadRemove(w) \/ LoadState(w) \/ IdleRemove(w)
      BY <1>1, <2>1, <3>9, Zenon DEF AtWorker, LoadSkip, LoadRemove, LoadState, IdleRemove
    <3> QED
      BY <1>1, <3>1, <3>2, <3>3, <3>4, <3>5, <3>6, <3>7, <3>8, <3>9, Zenon DEF Round
  <2>2. CASE ExecRemove /\ call' # call
    <3>1. callW' = ctl.w /\ ctl' = [ctl EXCEPT !.at = "kill"] /\ ctl.at = "kill"
      BY <1>1, <2>2, Zenon DEF ExecRemove, Remove
    <3> QED
      BY <3>1, Zenon DEF AtWorker
  <2>3. ASSUME NEW w \in Worker, LoadRemove(w) \/ IdleRemove(w), call' # call
        PROVE  AtWorker'
    <3>1. callW' = w /\ ctl' = [ctl EXCEPT !.todo = @ \ {w}] /\ ctl.at \in {"load", "idle"}
      BY <1>1, <2>3, Zenon DEF LoadRemove, IdleRemove, Remove
    <3> QED
      BY <3>1, Zenon DEF AtWorker
  <2> QED
    BY <1>1, <2>1, <2>2, <2>3, Zenon DEF Round, Tick, Push, Sync, ExecKill, ExecDone, RoundDone, LoadSkip, LoadState,
       ExecID, removeVars
<1>2. CASE RemoveLoad
  <2>1. CASE callW \in removed
    BY <1>2, <2>1, Zenon DEF RemoveLoad, AtWorker
  <2>2. CASE callW \notin removed
    BY <1>2, <2>2, Zenon DEF RemoveLoad, AtWorker
  <2> QED
    BY <2>1, <2>2, Zenon
<1>3. CASE RemoveStore
  BY <1>3, Zenon DEF RemoveStore, AtWorker
<1>4. CASE Stop
  BY <1>4, Zenon DEF AtWorker, Stop, removeVars
<1>5. CASE UNCHANGED <<ctl, call, callW>>
  BY <1>5, Zenon DEF AtWorker
<1> QED
  BY <1>1, <1>2, <1>3, <1>4, <1>5, PoolLeaves, Zenon DEF Next, Control, vars, Detach, Pass, removeVars

\* Within a round only the end of Remove leads to the comparison of executions, and a Remove begins with a worker that is
\* active (control, loadWorkers).
LEMMA RoundCalls ==
  ASSUME AtWorker, Round, call = "none"
  PROVE  /\ ctl'.at # "compare"
         /\ \/ call' = "none"
            \/ call' = "load" /\ callW' \in Worker /\ state[callW'] \in Active /\ UNCHANGED <<reports, removed, torn>>
<1>1. CASE Tick \/ Push
  BY <1>1, Zenon DEF AtWorker, Tick, Push, removeVars
<1>2. CASE Sync
  BY <1>2, Zenon DEF AtWorker, Sync, removeVars
<1>3. CASE ExecKill
  BY <1>3, Zenon DEF AtWorker, ExecKill, removeVars
<1>4. CASE ExecDone
  BY <1>4, Zenon DEF AtWorker, ExecDone, Waiting, removeVars
<1>5. CASE RoundDone
  BY <1>5 DEF AtWorker, RoundDone, Waiting, removeVars
<1>6. CASE \E w \in Worker : LoadSkip(w) \/ LoadState(w) \/ ExecID(w)
  BY <1>6, Zenon DEF AtWorker, LoadSkip, LoadState, ExecID, removeVars
<1>7. CASE ExecRemove
  <2>1. ctl'.at # "compare"
    BY <1>7, Zenon DEF AtWorker, ExecRemove
  <2> QED
    BY <1>7, <2>1, Zenon DEF AtWorker, ExecRemove, Remove
<1>8. ASSUME NEW w \in Worker, LoadRemove(w) \/ IdleRemove(w)
      PROVE  /\ ctl'.at # "compare"
             /\ \/ call' = "none"
                \/ call' = "load" /\ callW' \in Worker /\ state[callW'] \in Active /\ UNCHANGED <<reports, removed, torn>>
  <2>1. ctl'.at # "compare"
    BY <1>8, Zenon DEF AtWorker, LoadRemove, IdleRemove
  <2> QED
    BY <1>8, <2>1, Zenon DEF LoadRemove, IdleRemove, Remove
<1> QED
  BY <1>1, <1>2, <1>3, <1>4, <1>5, <1>6, <1>7, <1>8, Zenon DEF Round

\* No step comes between the steps of a Remove and its report that would report the worker first (control, Remove).
LEMMA DueKeeps ==
  ASSUME IInv, AtWorker, Due, [Next]_vars
  PROVE  Due'
<1>0. \A w \in Worker : Marked(w) => Marked(w)'
  BY MarkedStays, Zenon
<1>1. CASE Round /\ call = "none"
  <2>1. CASE call' = "none"
    BY <1>1, <2>1, RoundCalls, Zenon DEF Due
  <2>2. CASE call' = "load" /\ callW' \in Worker /\ state[callW'] \in Active /\ UNCHANGED <<reports, removed, torn>>
    <3>1. reports[callW'] \in {0, 1, 2} /\ state[callW'] # "gone"
      BY <2>2, Zenon DEF IInv, Active
    <3>2. reports[callW'] = 0 \/ (reports[callW'] = 1 /\ callW' \in removed)
      BY <2>2, <3>1, Zenon DEF IInv, Marked
    <3> QED
      BY <1>1, <2>2, <3>2, RoundCalls, Zenon DEF Due, Fresh
  <2> QED
    BY <1>1, <2>1, <2>2, RoundCalls, Zenon
<1>2. CASE RemoveLoad
  <2>1. UNCHANGED <<state, removed, torn, reports>>
    BY <1>2, Zenon DEF RemoveLoad, poolVars
  <2>2. ctl'.at # "compare"
    <3>1. ctl.at # "compare"
      BY <1>2, Zenon DEF RemoveLoad, AtWorker
    <3> QED
      BY <1>2, <3>1, Zenon DEF RemoveLoad, AtWorker
  <2>3. call' = "none" \/ (call' = "store" /\ callW' = callW /\ callW \notin removed /\ call = "load")
    BY <1>2, Zenon DEF RemoveLoad
  <2> QED
    BY <2>1, <2>2, <2>3, Zenon DEF Due, Fresh
<1>3. CASE RemoveStore
  <2>1. call' = "none" /\ callW \in Worker /\ Fresh(callW) /\ callW \in removed' /\ torn' = torn
    BY <1>3, Zenon DEF RemoveStore, AtWorker, Due
  <2>2. ctl'.at = "compare" => ctl.at = "kill" /\ ctl'.w = ctl.w /\ ctl.w = callW /\ reports' = reports
    <3>1. ctl.at # "compare"
      BY <1>3, Zenon DEF RemoveStore, AtWorker
    <3> QED
      BY <1>3, <3>1, Zenon DEF RemoveStore, AtWorker
  <2> QED
    BY <2>1, <2>2, Zenon DEF Due, Fresh, Marked
<1>4. CASE Stop
  <2>1. ctl'.at # "compare" /\ UNCHANGED <<call, callW, reports, removed, torn>>
    BY <1>4, Zenon DEF AtWorker, Stop, removeVars
  <2> QED
    BY <2>1, Zenon DEF Due, Fresh
<1>5. CASE UNCHANGED <<ctl, call, callW, reports, removed, torn>>
  BY <1>0, <1>5, Zenon DEF Due, Fresh, AtWorker
<1>6. ASSUME NEW w \in Worker, Create(w) \/ Begin(w) \/ EndJob(w) \/ RegisterExec(w) \/ Die(w) \/ KillRun(w)
      PROVE  Due'
  <2>1. UNCHANGED <<ctl, call, callW, reports>>
    BY <1>6, PoolLeaves, Zenon
  <2>2. CASE UNCHANGED <<removed, torn>>
    BY <2>1, <2>2, <1>5, Zenon
  <2>3. CASE removed' = removed \ {w} /\ torn' = IF call = "load" /\ callW = w THEN torn \cup {w} ELSE torn
    <3>1. \A v \in Worker : Fresh(v) => Fresh(v)'
      BY <2>1, <2>3, Zenon DEF Fresh
    <3>2. call = "load" /\ callW \in removed => callW \in removed' \/ callW \in torn'
      BY <2>3, Zenon
    <3> QED
      BY <1>0, <2>1, <3>1, <3>2, Zenon DEF Due, Fresh, AtWorker
  <2> QED
    BY <1>6, <2>2, <2>3, PoolLeaves, Zenon
<1> QED
  BY <1>1, <1>2, <1>3, <1>4, <1>5, <1>6, Zenon DEF Next, Control, vars, Detach, Pass, removeVars

\* Every step keeps the invariant.
LEMMA Inductive ==
  ASSUME IInv, AtWorker, Due, [Next]_vars
  PROVE  IInv'
<1>1. state' \in [Worker -> States] /\ exec' \in [Worker -> {"none", "running", "ended"}] /\ Settled'
  <2>1. CASE UNCHANGED <<state, exec>>
    BY <2>1, Zenon DEF IInv, Settled
  <2> QED
    BY <2>1, StatesKeep, RoundLeaves, Zenon DEF Next
<1>2. torn \subseteq torn' /\ torn' \subseteq Worker /\ \A w \in torn' : state'[w] = "gone"
  <2>1. CASE UNCHANGED torn
    BY <2>1, NeverNew, Zenon DEF IInv
  <2>2. ASSUME NEW w \in Worker, state' = [state EXCEPT ![w] = "gone"], torn' \in {torn, torn \cup {w}}
        PROVE  torn \subseteq torn' /\ torn' \subseteq Worker /\ \A v \in torn' : state'[v] = "gone"
    BY <2>2, Zenon DEF IInv
  <2> QED
    BY <2>1, <2>2, PoolLeaves, RoundLeaves, Zenon DEF Next
<1>3. \A w \in Worker : Marked(w) => Marked(w)'
  BY MarkedStays, Zenon
<1>4. CASE UNCHANGED reports
  BY <1>1, <1>2, <1>3, <1>4, Zenon DEF IInv
<1>5. ASSUME NEW w \in Worker, Fresh(w), Marked(w)', reports' = [reports EXCEPT ![w] = @ + 1], torn' = torn
      PROVE  IInv'
  <2>1. /\ reports' \in [Worker -> {0, 1, 2}] /\ (reports'[w] = 2 => w \in torn)
        /\ \A v \in Worker : v # w => reports'[v] = reports[v]
    BY <1>5 DEF IInv, Fresh
  <2>2. \A v \in Worker : v # w => (reports[v] # 0 => Marked(v)) /\ (reports[v] = 2 => v \in torn)
    BY Zenon DEF IInv
  <2>3. \A v \in Worker : reports'[v] # 0 => Marked(v)'
    BY <1>3, <1>5, <2>1, <2>2, Zenon
  <2>4. \A v \in Worker : reports'[v] = 2 => v \in torn'
    BY <1>5, <2>1, <2>2, Zenon
  <2> QED
    BY <1>1, <1>2, <2>1, <2>3, <2>4, Zenon DEF IInv
<1> QED
  BY <1>4, <1>5, Reports, Zenon

\* A worker is reported at most once by the controller, and a second time only by a Remove that has found it active and
\* looks into p.remove after it has died, however many limits it exceeds, however rounds, jobs and deaths interleave, and
\* however many workers there are (control, loadWorkers, Remove).
THEOREM ReportsAreUnique == Spec => []ReportedOnce
<1>1. Init => IInv /\ AtWorker /\ Due
  BY DEF Init, IInv, AtWorker, Due, Settled, Marked, Waiting, States
<1>2. IInv /\ AtWorker /\ Due /\ [Next]_vars => (IInv /\ AtWorker /\ Due)'
  BY Inductive, AtWorkerKeeps, DueKeeps, Zenon
<1>3. IInv => ReportedOnce
  BY DEF IInv, ReportedOnce
<1> QED
  BY <1>1, <1>2, <1>3, PTL DEF Spec

----------------------------------------------------------------------------------
(* Types *)

\* The bounds are numbers, the limits are numbers, and an age that saturates does so beyond TTL.
Configured ==
  /\ MaxExecs \in Nat /\ Horizon \in Nat
  /\ \A c \in Configs : c.TTL \in 0..Horizon /\ c.IdleTTL \in Nat /\ c.ExecTTL \in Nat

CtlType ==
  [at : {"wait", "load", "push", "exec", "kill", "compare", "idle", "ended"}, todo : SUBSET Worker,
   w : Worker \cup {None}, val : States, eID : 0..MaxExecs]

\* A job is counted once, at its end; push reads a worker that was created and not discarded when its state was read.
Reading ==
  /\ \A w \in Worker : exec[w] # "none" => numExecs[w] < MaxExecs
  /\ ctl.at = "push" => ctl.w \in Worker /\ ctl.val \in States \ {"new", "invalid", "gone"} /\ state[ctl.w] # "new"
  /\ ctl.at \in {"load", "push"} => \A w \in ctl.todo : state[w] # "new"

\* Everything the limit service keeps, with its type.
Typed == TypeOK /\ IInv /\ AtWorker /\ Due /\ Reading

\* The workers of the pool.
LEMMA PoolTyped ==
  ASSUME Configured, Typed, [Next]_vars
  PROVE  /\ numExecs' \in [Worker -> 0..MaxExecs] /\ age' \in [Worker -> Ages] /\ doneAge' \in [Worker -> Ages]
         /\ removed' \subseteq Worker /\ cfg' = cfg
         /\ \A w \in Worker : exec'[w] # "none" => numExecs'[w] < MaxExecs
<1> USE DEF Typed, TypeOK, Reading
<1>1. CASE \E v \in Worker : Create(v) \/ Begin(v) \/ EndJob(v) \/ Die(v) \/ KillRun(v)
  <2>1. UNCHANGED <<cfg, numExecs, age, doneAge>> /\ removed' \subseteq Worker
    BY <1>1, Zenon DEF Create, Begin, EndJob, Die, KillRun, removeVars
  <2>2. \A w \in Worker : exec'[w] # "none" => exec[w] # "none" \/ numExecs[w] < MaxExecs
    BY <1>1 DEF Create, Begin, EndJob, Die, KillRun
  <2> QED
    BY <2>1, <2>2, Zenon
<1>2. CASE \E v \in Worker : RegisterExec(v)
  <2>1. PICK v \in Worker : RegisterExec(v)
    BY <1>2, Zenon
  <2>2. /\ exec[v] = "ended" /\ exec' = [exec EXCEPT ![v] = "none"] /\ numExecs' = [numExecs EXCEPT ![v] = @ + 1]
        /\ doneAge' = [doneAge EXCEPT ![v] = 0] /\ UNCHANGED <<cfg, age, removed>>
    BY <2>1, Zenon DEF RegisterExec, removeVars
  <2>3. numExecs[v] \in 0..MaxExecs /\ numExecs[v] + 1 \in 0..MaxExecs /\ 0 \in Ages
    BY <2>2 DEF Configured, Ages
  <2> QED
    BY <2>2, <2>3, Zenon
<1>3. CASE Pass
  <2>1. \A n, max : n \in Ages /\ max \in 0..Horizon => Older(n, max) \in Ages
    BY DEF Configured, Ages, Older
  <2>2. cfg.TTL \in 0..Horizon /\ Horizon \in 0..Horizon /\ 0 \in Ages
    BY DEF Configured, Ages
  <2>3. age' \in [Worker -> Ages] /\ doneAge' \in [Worker -> Ages]
    BY <1>3, <2>1, <2>2, Zenon DEF Pass
  <2> QED
    BY <1>3, <2>3, Zenon DEF Pass, removeVars
<1>4. CASE Control \/ Detach \/ Stop \/ UNCHANGED vars
  <2>1. UNCHANGED <<cfg, numExecs, exec, age, doneAge>>
    BY <1>4, Zenon DEF vars, Control, Round, RemoveLoad, RemoveStore, Tick, Push, Sync, ExecRemove, ExecKill, ExecDone,
       RoundDone, LoadSkip, LoadRemove, LoadState, ExecID, IdleRemove, Detach, Stop, poolVars
  <2>2. removed' \subseteq Worker
    BY <1>4, RoundLeaves, Zenon DEF RemoveStore, AtWorker
  <2> QED
    BY <2>1, <2>2, Zenon
<1> QED
  BY <1>1, <1>2, <1>3, <1>4, Zenon DEF Next

\* The call of Remove.
LEMMA CallTyped ==
  ASSUME Typed, [Next]_vars
  PROVE  call' \in {"none", "load", "store"} /\ callW' \in Worker \cup {None}
<1>1. CASE RemoveLoad \/ RemoveStore
  BY <1>1, Zenon DEF Typed, TypeOK, RemoveLoad, RemoveStore
<1>2. CASE ExecRemove
  BY <1>2, Zenon DEF Typed, TypeOK, ExecRemove, Remove, AtWorker
<1>3. CASE \E w \in Worker : LoadRemove(w) \/ IdleRemove(w)
  BY <1>3, Zenon DEF LoadRemove, IdleRemove, Remove
<1>4. CASE UNCHANGED <<call, callW>>
  BY <1>4, Zenon DEF Typed, TypeOK
<1> QED
  BY <1>1, <1>2, <1>3, <1>4, PoolLeaves, Zenon DEF Next, vars, Control, Round, Tick, Push, Sync, ExecKill, ExecDone,
     RoundDone, LoadSkip, LoadState, ExecID, Detach, Stop, Pass, removeVars

\* The goroutine of the controller.
LEMMA CtlTyped ==
  ASSUME Configured, Typed, [Next]_vars
  PROVE  ctl' \in CtlType
<1> USE DEF CtlType
<1>0. ctl \in CtlType /\ DOMAIN prev \subseteq Worker /\ DOMAIN next \subseteq Worker
  BY Zenon DEF Typed, TypeOK
<1>1. CASE UNCHANGED ctl
  BY <1>0, <1>1, Zenon
<1>2. CASE \E w \in Worker : LoadSkip(w) \/ LoadRemove(w) \/ IdleRemove(w)
  BY <1>0, <1>2, ZenonT(60) DEF LoadSkip, LoadRemove, IdleRemove
<1>3. CASE \E w \in Worker : LoadState(w)
  <2>1. PICK w \in Worker : ctl' = [ctl EXCEPT !.at = "push", !.w = w, !.val = state[w], !.todo = @ \ {w}]
    BY <1>3, Zenon DEF LoadState
  <2>2. state[w] \in States
    BY Zenon DEF Typed, TypeOK
  <2> QED
    BY <1>0, <2>1, <2>2, Zenon
<1>4. CASE \E w \in Worker : ExecID(w)
  <2>1. PICK w \in Worker : ctl' = [ctl EXCEPT !.at = "kill", !.w = w, !.eID = numExecs[w], !.todo = @ \ {w}]
    BY <1>4, Zenon DEF ExecID
  <2>2. numExecs[w] \in 0..MaxExecs
    BY Zenon DEF Typed, TypeOK
  <2> QED
    BY <1>0, <2>1, <2>2, Zenon
<1>5. CASE Tick \/ ExecRemove \/ ExecKill \/ Stop
  <2>1. CASE Tick
    BY <1>0, <2>1, Zenon DEF Tick
  <2>2. CASE ExecRemove
    BY <1>0, <2>2, Zenon DEF ExecRemove
  <2>3. CASE ExecKill
    BY <1>0, <2>3, Zenon DEF ExecKill
  <2>4. CASE Stop
    BY <1>0, <2>4, Zenon DEF Stop
  <2> QED
    BY <1>5, <2>1, <2>2, <2>3, <2>4, Zenon
<1>6. CASE Push
  BY <1>0, <1>6, Zenon DEF Push, States
<1>7. CASE Sync
  <2>1. Find(Synced, "working", cfg.ExecTTL) \subseteq Worker
    BY <1>0, Zenon DEF Find, Synced
  <2> QED
    BY <1>0, <1>7, <2>1, Zenon DEF Sync
<1>8. CASE ExecDone
  <2>1. Find(prev, "ready", cfg.IdleTTL) \subseteq Worker /\ 0 \in 0..MaxExecs
    BY <1>0 DEF Find, Configured
  <2>2. ctl' = [at |-> "idle", todo |-> Find(prev, "ready", cfg.IdleTTL), w |-> None, val |-> "new", eID |-> 0]
    BY <1>8, Zenon DEF ExecDone, Waiting
  <2> QED
    BY <2>1, <2>2, Zenon DEF States
<1>9. CASE RoundDone
  <2>1. 0 \in 0..MaxExecs
    BY DEF Configured
  <2> QED
    BY <1>9, <2>1, Zenon DEF RoundDone, Waiting, States
<1>10. CASE RemoveLoad \/ RemoveStore
  <2>1. ctl' \in {ctl, [ctl EXCEPT !.at = "exec"], [ctl EXCEPT !.at = "compare"]}
    BY <1>10, Zenon DEF RemoveLoad, RemoveStore
  <2> QED
    BY <1>0, <2>1, Zenon
<1> QED
  BY <1>1, <1>2, <1>3, <1>4, <1>5, <1>6, <1>7, <1>8, <1>9, <1>10, Zenon
  DEF Next, Control, Round, vars, Create, Begin, EndJob, RegisterExec, Die, KillRun, Detach, Pass

\* How a round loads the workers: it takes those that were created, one at a time (loadWorkers).
LEMMA LoadMoves ==
  ASSUME AtWorker, [Next]_vars, ctl'.at \in {"load", "push"}
  PROVE  \/ UNCHANGED ctl
         \/ ctl'.at = "load" /\ Tick
         \/ ctl'.at = "load" /\ ctl.at \in {"load", "push"} /\ ctl'.todo \subseteq ctl.todo
         \/ \E w \in ctl.todo \cap Worker : LoadState(w)
<1>1. ~Sync
  BY Zenon DEF AtWorker, Sync
<1>2. ~ExecRemove /\ ~ExecKill
  <2>1. ~ExecRemove
    BY Zenon DEF AtWorker, ExecRemove
  <2> QED
    BY <2>1, Zenon DEF AtWorker, ExecKill
<1>3. ~ExecDone
  BY Zenon DEF AtWorker, ExecDone, Waiting
<1>10. ~RoundDone
  BY DEF AtWorker, RoundDone, Waiting
<1>4. ~Stop
  BY Zenon DEF AtWorker, Stop
<1>5. ~\E w \in Worker : ExecID(w) \/ IdleRemove(w)
  BY Zenon DEF AtWorker, ExecID, IdleRemove
<1>11. CASE RemoveLoad \/ RemoveStore
  <2>1. ctl' \in {ctl, [ctl EXCEPT !.at = "exec"], [ctl EXCEPT !.at = "compare"]}
    BY <1>11, Zenon DEF RemoveLoad, RemoveStore
  <2> QED
    BY <2>1, Zenon DEF AtWorker
<1>6. CASE Tick
  BY <1>6, Zenon DEF AtWorker, Tick
<1>7. CASE Push
  BY <1>7, Zenon DEF AtWorker, Push
<1>8. CASE \E w \in Worker : LoadSkip(w) \/ LoadRemove(w)
  BY <1>8, Zenon DEF AtWorker, LoadSkip, LoadRemove
<1>9. CASE \E w \in Worker : LoadState(w)
  BY <1>9, Zenon DEF LoadState
<1> QED
  BY <1>1, <1>2, <1>3, <1>10, <1>4, <1>5, <1>6, <1>7, <1>8, <1>9, <1>11, Zenon
  DEF Next, Control, Round, vars, Create, Begin, EndJob, RegisterExec, Die, KillRun, Detach, Pass

\* What push reads is a worker that was created (push).
LEMMA ReadingKeeps ==
  ASSUME Configured, Typed, [Next]_vars
  PROVE  Reading'
<1>1. \A w \in Worker : exec'[w] # "none" => numExecs'[w] < MaxExecs
  BY PoolTyped, Zenon
<1>2. ASSUME ctl'.at \in {"load", "push"}
      PROVE  /\ \A w \in ctl'.todo : state'[w] # "new"
             /\ ctl'.at = "push" => /\ ctl'.w \in Worker /\ state'[ctl'.w] # "new"
                                   /\ ctl'.val \in States \ {"new", "invalid", "gone"}
  <2>0. ctl.todo \subseteq Worker /\ \A w \in Worker : state[w] # "new" => state'[w] # "new"
    BY NeverNew, Zenon DEF Typed, TypeOK
  <2>1. CASE UNCHANGED ctl
    BY <1>2, <2>0, <2>1, Zenon DEF Typed, Reading
  <2>2. CASE ctl'.at = "load" /\ Tick
    BY <2>2, Zenon DEF Tick, Typed, AtWorker, poolVars
  <2>3. CASE ctl'.at = "load" /\ ctl.at \in {"load", "push"} /\ ctl'.todo \subseteq ctl.todo
    BY <2>0, <2>3, Zenon DEF Typed, Reading
  <2>4. ASSUME NEW w \in ctl.todo \cap Worker, LoadState(w)
        PROVE  /\ ctl'.w \in Worker /\ ctl'.val \in States \ {"new", "invalid", "gone"} /\ state'[ctl'.w] # "new"
               /\ \A v \in ctl'.todo : state'[v] # "new"
    <3>1. /\ ctl.at = "load" /\ state' = state /\ state[w] \notin {"invalid", "gone"} /\ state[w] \in States
          /\ ctl'.w = w /\ ctl'.val = state[w] /\ ctl'.todo = ctl.todo \ {w}
      BY <2>4, Zenon DEF LoadState, Assessed, poolVars, Typed, TypeOK, AtWorker
    <3>2. \A v \in ctl.todo : state[v] # "new"
      BY <3>1, Zenon DEF Typed, Reading
    <3> QED
      BY <3>1, <3>2, Zenon
  <2>5. AtWorker
    BY Zenon DEF Typed
  <2> QED
    BY <1>2, <2>1, <2>2, <2>3, <2>4, <2>5, LoadMoves, Zenon
<1> QED
  BY <1>1, <1>2, Zenon DEF Reading

\* The records of the state filter, and when push read them.
LEMMA FilterTyped ==
  ASSUME Configured, Typed, [Next]_vars
  PROVE  /\ quiet' \in [Worker -> Ages]
         /\ DOMAIN prev' \subseteq Worker /\ \A w \in DOMAIN prev' : prev'[w] \in Records
         /\ DOMAIN next' \subseteq Worker /\ \A w \in DOMAIN next' : next'[w] \in Records
<1>0. /\ quiet \in [Worker -> Ages] /\ doneAge \in [Worker -> Ages] /\ 0 \in Ages
      /\ DOMAIN prev \subseteq Worker /\ \A w \in DOMAIN prev : prev[w] \in Records
      /\ DOMAIN next \subseteq Worker /\ \A w \in DOMAIN next : next[w] \in Records
  BY DEF Typed, TypeOK, Configured, Ages
<1>1. CASE Push
  <2> DEFINE s == [state |-> ctl.val, numExecs |-> numExecs[ctl.w], since |-> 0]
  <2>1. ctl.w \in Worker /\ numExecs[ctl.w] \in 0..MaxExecs /\ ctl.val \in States \ {"new", "invalid", "gone"}
    BY <1>1, Zenon DEF Push, Typed, TypeOK, Reading
  <2>2. s \in Records
    BY <1>0, <2>1, Zenon DEF Records
  <2>3. /\ next' = [v \in DOMAIN next \cup {ctl.w} |-> IF v = ctl.w THEN s ELSE next[v]] /\ prev' = prev
        /\ quiet' = [quiet EXCEPT ![ctl.w] = doneAge[ctl.w]]
    BY <1>1, Zenon DEF Push
  <2> HIDE DEF s
  <2> QED
    BY <1>0, <2>1, <2>2, <2>3, Zenon
<1>2. CASE Sync
  BY <1>0, <1>2, Zenon DEF Sync, Synced, NoRecord
<1>3. CASE RoundDone
  BY <1>0, <1>3, Zenon DEF RoundDone
<1>4. CASE Pass
  <2>1. \A w \in DOMAIN prev : [prev[w] EXCEPT !.since = Older(@, Horizon)] \in Records
    <3> TAKE w \in DOMAIN prev
    <3>1. prev[w] \in Records /\ Older(prev[w].since, Horizon) \in Ages
      BY <1>0 DEF Records, Ages, Older, Configured
    <3> QED
      BY <3>1, Zenon DEF Records
  <2>2. /\ prev' = [w \in DOMAIN prev |-> [prev[w] EXCEPT !.since = Older(@, Horizon)]]
        /\ UNCHANGED <<next, quiet>>
    BY <1>4, Zenon DEF Pass
  <2>3. DOMAIN prev' = DOMAIN prev /\ \A w \in DOMAIN prev : prev'[w] = [prev[w] EXCEPT !.since = Older(@, Horizon)]
    BY <2>2, Zenon
  <2> QED
    BY <1>0, <2>1, <2>2, <2>3, Zenon
<1>5. CASE UNCHANGED filterVars
  BY <1>0, <1>5, Zenon DEF filterVars
<1> QED
  BY <1>1, <1>2, <1>3, <1>4, <1>5, ZenonT(60) DEF Next, vars, Control, Round, RemoveLoad, RemoveStore, Tick,
     ExecRemove, ExecKill, ExecDone, LoadSkip, LoadRemove, LoadState, ExecID, IdleRemove, Detach, Stop, Create, Begin, EndJob, RegisterExec, Die, KillRun, filterVars

\* The kill goroutines and the controller's stop channel.
LEMMA KillsTyped ==
  ASSUME Typed, [Next]_vars
  PROVE  kills' \in [Worker -> Worker \cup {None, "loop", "done"}] /\ detached' \in BOOLEAN
<1>1. kills' \in [Worker -> Worker \cup {None, "loop", "done"}]
  <2>0. kills \in [Worker -> Worker \cup {None, "loop", "done"}] /\ ctl.w \in Worker \cup {None}
    BY Zenon DEF Typed, TypeOK
  <2>1. \/ UNCHANGED kills
        \/ \E w \in Worker : kills' = [kills EXCEPT ![w] = "done"]
        \/ kills' = [kills EXCEPT ![ctl.w] = "loop"]
        \/ kills' = [w \in Worker |-> IF kills[w] = "loop" THEN ctl.w ELSE kills[w]]
    BY Zenon DEF Next, vars, Control, Round, RemoveLoad, RemoveStore, Tick, Push, Sync, ExecRemove, ExecKill, ExecDone,
       RoundDone, LoadSkip, LoadRemove, LoadState, ExecID, IdleRemove, Detach, Stop, Create, Begin, EndJob, RegisterExec, Die, KillRun, Pass
  <2> QED
    BY <2>0, <2>1, Zenon
<1>2. detached' = detached \/ detached' = TRUE
  BY Zenon DEF Next, vars, Control, Round, RemoveLoad, RemoveStore, Tick, Push, Sync, ExecRemove, ExecKill, ExecDone,
     RoundDone, LoadSkip, LoadRemove, LoadState, ExecID, IdleRemove, Detach, Stop, Create, Begin, EndJob, RegisterExec, Die, KillRun, Pass
<1>3. detached' \in BOOLEAN
  BY <1>2, Zenon DEF Typed, TypeOK
<1> QED
  BY <1>1, <1>3, Zenon

\* Every step keeps the types and what they rest on.
LEMMA NextTyped ==
  ASSUME Configured, Typed, [Next]_vars
  PROVE  Typed'
<1>1. IInv' /\ AtWorker' /\ Due'
  BY Inductive, AtWorkerKeeps, DueKeeps, Zenon DEF Typed
<1>2. cfg' \in Configs
  BY PoolTyped, Zenon DEF Typed, TypeOK
<1>3. reports' \in [Worker -> 0..2]
  BY <1>1 DEF IInv
<1>4. \A f \in {prev', next'} : DOMAIN f \subseteq Worker /\ \A w \in DOMAIN f : f[w] \in Records
  BY FilterTyped, Zenon
<1>5. TypeOK'
  BY <1>1, <1>2, <1>3, <1>4, PoolTyped, CallTyped, CtlTyped, FilterTyped, KillsTyped, Zenon DEF TypeOK, IInv, CtlType
<1> QED
  BY <1>1, <1>5, ReadingKeeps, Zenon DEF Typed

\* Types in the initial state.
LEMMA InitTyped == ASSUME Configured, Init PROVE Typed
<1>1. 0 \in Ages /\ 0 \in 0..MaxExecs
  BY DEF Configured, Ages
<1>2. TypeOK
  <2>1. ctl \in CtlType
    BY <1>1, Zenon DEF Init, CtlType, Waiting, States
  <2>2. \A f \in {prev, next} : DOMAIN f = {}
    BY Zenon DEF Init, NoRecord
  <2>3. detached \in BOOLEAN
    BY Zenon DEF Init
  <2> QED
    BY <1>1, <2>1, <2>2, <2>3 DEF Init, TypeOK, CtlType, States
<1>3. IInv /\ AtWorker /\ Due /\ Reading
  BY DEF Init, IInv, AtWorker, Due, Settled, Marked, Reading, Waiting, States
<1> QED
  BY <1>2, <1>3, Zenon DEF Typed

\* Every variable of the controller, its state filter and the workers it watches keeps its type (controller.go,
\* state_filter.go).
THEOREM LimitTypes == ASSUME Configured PROVE Spec => []TypeOK
<1>1. Typed => TypeOK
  BY Zenon DEF Typed
<1>2. Init => Typed
  BY InitTyped, Zenon
<1>3. Typed /\ [Next]_vars => Typed'
  BY NextTyped, Zenon
<1> QED
  BY <1>1, <1>2, <1>3, PTL DEF Spec

----------------------------------------------------------------------------------
(* The state filter *)

\* push is about to read the executions of w, whose process was there when its state was read.
AtPush(w) == ctl.at = "push" /\ ctl.w = w

\* A record is not older than the last execution of its worker, unless there has been another since; the process of a
\* worker that is gone has no age.
Aged ==
  \A w \in DOMAIN prev :
    /\ state[w] # "new" /\ prev[w].numExecs <= numExecs[w]
    /\ prev[w].numExecs = numExecs[w] /\ (state[w] # "gone" \/ AtPush(w)) => prev[w].since <= doneAge[w]

\* The records of the round that is being loaded: sync keeps an old one only if it is not older than what push saw.
Pushed ==
  /\ ctl.at \notin {"load", "push"} => DOMAIN next = {}
  /\ \A w \in DOMAIN next :
       /\ state[w] # "new" /\ next[w].since = 0 /\ next[w].numExecs <= numExecs[w]
       /\ w \in DOMAIN prev /\ prev[w].numExecs = next[w].numExecs => prev[w].since <= quiet[w]

\* After sync, every record is that of a worker that has been quiet as long, and find has picked by it.
Picked ==
  ctl.at \in {"exec", "kill", "compare", "idle"} =>
    /\ \A w \in DOMAIN prev : prev[w].since <= quiet[w]
    /\ \A w \in ctl.todo : /\ w \in DOMAIN prev
                           /\ IF ctl.at = "idle" THEN prev[w].since > cfg.IdleTTL ELSE prev[w].since > cfg.ExecTTL

\* The state filter over the rounds of the controller.
Filtered == Typed /\ Aged /\ Pushed /\ Picked

\* The numbers the comparisons are about.
LEMMA Numbers ==
  ASSUME Configured, Typed
  PROVE  /\ \A w \in Worker : numExecs[w] \in Nat /\ doneAge[w] \in 0..Horizon /\ quiet[w] \in Nat
         /\ DOMAIN prev \subseteq Worker /\ \A w \in DOMAIN prev : prev[w].numExecs \in Nat /\ prev[w].since \in 0..Horizon
         /\ DOMAIN next \subseteq Worker /\ \A w \in DOMAIN next : next[w].numExecs \in Nat
         /\ Horizon \in Nat /\ cfg.IdleTTL \in Nat /\ cfg.ExecTTL \in Nat
BY DEF Configured, Typed, TypeOK, Records, Ages

\* The pool goes on without a step of the controller: jobs begin and end, workers die and are killed.
LEMMA PoolFiltered ==
  ASSUME Filtered, UNCHANGED <<cfg, numExecs, doneAge, ctl, prev, next, quiet>>,
         \A w \in Worker : /\ state[w] # "new" => state'[w] # "new"
                           /\ state[w] = "gone" => state'[w] = "gone"
  PROVE  Aged' /\ Pushed' /\ Picked'
<1>1. DOMAIN prev \subseteq Worker /\ DOMAIN next \subseteq Worker
  BY Zenon DEF Filtered, Typed, TypeOK
<1>2. Aged'
  BY <1>1, Zenon DEF Filtered, Aged, AtPush
<1>3. Pushed'
  BY <1>1, Zenon DEF Filtered, Pushed
<1>4. Picked'
  BY Zenon DEF Filtered, Picked
<1> QED
  BY <1>2, <1>3, <1>4, Zenon

\* The controller goes on in a round without a change of the records.
LEMMA RoundFiltered ==
  ASSUME Filtered, UNCHANGED <<cfg, state, numExecs, doneAge, prev, next, quiet>>,
         ctl'.at = "push" => ctl' = ctl \/ state[ctl'.w] # "gone",
         ctl.at \in {"load", "push"} => ctl'.at \in {"load", "push"},
         ctl'.at \in {"exec", "kill", "compare", "idle"} =>
           /\ ctl.at \in {"exec", "kill", "compare", "idle"}
           /\ \/ ctl'.todo \subseteq ctl.todo /\ (ctl'.at = "idle" <=> ctl.at = "idle")
              \/ ctl'.at = "idle" /\ ctl'.todo = Find(prev, "ready", cfg.IdleTTL)
  PROVE  Aged' /\ Pushed' /\ Picked'
<1>1. Aged'
  BY Zenon DEF Filtered, Aged, AtPush
<1>2. Pushed'
  BY Zenon DEF Filtered, Pushed
<1>3. Picked'
  BY Zenon DEF Filtered, Picked, Find
<1> QED
  BY <1>1, <1>2, <1>3, Zenon

\* registerExec: the record of the worker is of an earlier execution from now on.
LEMMA RegisterFiltered ==
  ASSUME Configured, Filtered, NEW w \in Worker, RegisterExec(w)
  PROVE  Aged' /\ Pushed' /\ Picked'
<1>1. /\ UNCHANGED <<cfg, ctl, prev, next, quiet>>
      /\ numExecs' = [numExecs EXCEPT ![w] = @ + 1] /\ doneAge' = [doneAge EXCEPT ![w] = 0]
      /\ state' = state \/ (state[w] = "ready" /\ state' = [state EXCEPT ![w] = "invalid"])
  BY Zenon DEF RegisterExec, filterVars, SetState
<1>2. Typed /\ numExecs \in [Worker -> 0..MaxExecs] /\ doneAge \in [Worker -> Ages] /\ state \in [Worker -> States]
  BY Zenon DEF Filtered, Typed, TypeOK
<1>3. \A v \in Worker : /\ numExecs'[v] = IF v = w THEN numExecs[v] + 1 ELSE numExecs[v]
                        /\ doneAge'[v] = IF v = w THEN 0 ELSE doneAge[v]
                        /\ state[v] # "new" => state'[v] # "new"
                        /\ state'[v] # "gone" => state[v] # "gone"
  BY <1>1, <1>2, Zenon
<1>4. Aged'
  BY <1>1, <1>2, <1>3, Numbers DEF Filtered, Aged, AtPush
<1>5. Pushed'
  BY <1>1, <1>2, <1>3, Numbers DEF Filtered, Pushed
<1>6. Picked'
  BY <1>1, Zenon DEF Filtered, Picked
<1> QED
  BY <1>4, <1>5, <1>6, Zenon

\* Between two rounds time passes, for a record as for its worker.
LEMMA PassFiltered ==
  ASSUME Configured, Filtered, Pass
  PROVE  Aged' /\ Pushed' /\ Picked'
<1>1. /\ UNCHANGED <<cfg, state, numExecs, ctl, next, quiet>> /\ ctl.at \in {"wait", "ended"}
      /\ prev' = [w \in DOMAIN prev |-> [prev[w] EXCEPT !.since = Older(@, Horizon)]]
      /\ \A w \in Worker : state[w] \notin {"new", "gone"} => doneAge'[w] = Older(doneAge[w], Horizon)
  BY Zenon DEF Pass
<1>2. \A w \in DOMAIN prev : prev[w] \in Records
  BY Zenon DEF Filtered, Typed, TypeOK
<1>3. DOMAIN prev' = DOMAIN prev
  BY <1>1, Zenon
<1>4. \A w \in DOMAIN prev : prev'[w].numExecs = prev[w].numExecs /\ prev'[w].since = Older(prev[w].since, Horizon)
  BY <1>1, <1>2, Zenon DEF Records
<1>5. \A m, n \in 0..Horizon : m <= n => Older(m, Horizon) <= Older(n, Horizon)
  BY DEF Configured, Older
<1>6. Aged'
  <2> SUFFICES ASSUME NEW w \in DOMAIN prev
               PROVE  /\ state[w] # "new" /\ prev[w].numExecs <= numExecs[w]
                      /\ prev[w].numExecs = numExecs[w] /\ state[w] # "gone" => prev'[w].since <= doneAge'[w]
    BY <1>1, <1>3, <1>4 DEF Aged, AtPush
  <2>1. /\ state[w] # "new" /\ prev[w].numExecs <= numExecs[w]
        /\ prev[w].numExecs = numExecs[w] /\ state[w] # "gone" => prev[w].since <= doneAge[w]
    BY Zenon DEF Filtered, Aged
  <2>2. w \in Worker /\ prev[w].since \in 0..Horizon /\ doneAge[w] \in 0..Horizon
    BY Numbers, Zenon DEF Filtered
  <2> QED
    BY <1>1, <1>4, <1>5, <2>1, <2>2, Zenon
<1>7. Pushed'
  BY <1>1, Zenon DEF Filtered, Pushed
<1>8. Picked'
  BY <1>1, Zenon DEF Picked
<1> QED
  BY <1>6, <1>7, <1>8, Zenon

\* push writes down how long the worker has been quiet (state_filter.go).
LEMMA PushFiltered ==
  ASSUME Configured, Filtered, Push
  PROVE  Aged' /\ Pushed' /\ Picked'
<1> DEFINE s == [state |-> ctl.val, numExecs |-> numExecs[ctl.w], since |-> 0]
<1>1. /\ UNCHANGED <<cfg, state, numExecs, doneAge, prev>> /\ ctl.at = "push" /\ ctl'.at = "load"
      /\ next' = [v \in DOMAIN next \cup {ctl.w} |-> IF v = ctl.w THEN s ELSE next[v]]
      /\ quiet' = [quiet EXCEPT ![ctl.w] = doneAge[ctl.w]]
  BY Zenon DEF Push, poolVars, Filtered, Typed, AtWorker
<1>2. /\ DOMAIN next' = DOMAIN next \cup {ctl.w} /\ next'[ctl.w].since = 0 /\ next'[ctl.w].numExecs = numExecs[ctl.w]
      /\ \A v \in DOMAIN next : v # ctl.w => next'[v] = next[v]
  BY <1>1, Zenon
<1> HIDE DEF s
<1>3. ctl.w \in Worker /\ state[ctl.w] # "new" /\ quiet \in [Worker -> Ages]
  BY <1>1, Zenon DEF Filtered, Typed, TypeOK, Reading
<1>4. quiet'[ctl.w] = doneAge[ctl.w] /\ \A v \in Worker : v # ctl.w => quiet'[v] = quiet[v]
  BY <1>1, <1>3, Zenon
<1>5. Aged'
  BY <1>1, Zenon DEF Filtered, Aged, AtPush
<1>6. Pushed'
  <2> SUFFICES ASSUME NEW v \in DOMAIN next'
               PROVE  /\ state[v] # "new" /\ next'[v].since = 0 /\ next'[v].numExecs <= numExecs[v]
                      /\ v \in DOMAIN prev /\ prev[v].numExecs = next'[v].numExecs => prev[v].since <= quiet'[v]
    BY <1>1, Zenon DEF Pushed
  <2>1. CASE v = ctl.w
    BY <1>1, <1>2, <1>3, <1>4, <2>1, Numbers DEF Filtered, Aged, AtPush
  <2>2. CASE v # ctl.w
    BY <1>2, <1>4, <2>2, Numbers, Zenon DEF Filtered, Pushed
  <2> QED
    BY <2>1, <2>2, Zenon
<1>7. Picked'
  BY <1>1, Zenon DEF Picked
<1> QED
  BY <1>5, <1>6, <1>7, Zenon

\* sync keeps an old record only for a worker that has been quiet since, and find picks from what it keeps.
LEMMA SyncFiltered ==
  ASSUME Configured, Filtered, Sync
  PROVE  Aged' /\ Pushed' /\ Picked'
<1>1. /\ UNCHANGED <<cfg, state, numExecs, doneAge, quiet>> /\ prev' = Synced /\ DOMAIN next' = {}
      /\ ctl'.at = "exec" /\ ctl'.todo = Find(Synced, "working", cfg.ExecTTL)
  BY Zenon DEF Sync, poolVars, NoRecord, Filtered, Typed, AtWorker
<1>2. /\ DOMAIN prev' = DOMAIN next
      /\ \A w \in DOMAIN next : \/ prev'[w] = next[w]
                                \/ w \in DOMAIN prev /\ prev[w].numExecs = next[w].numExecs /\ prev'[w] = prev[w]
  BY <1>1, Zenon DEF Synced
<1>3. \A w \in DOMAIN next : w \in Worker /\ doneAge[w] \in 0..Horizon /\ quiet[w] \in Nat
  BY Numbers, Zenon DEF Filtered
<1>4. \A w \in DOMAIN next : 0 <= doneAge[w] /\ 0 <= quiet[w]
  BY <1>3, Numbers DEF Filtered
<1>5. Aged'
  BY <1>1, <1>2, <1>4 DEF Filtered, Aged, Pushed, AtPush
<1>6. Pushed'
  BY <1>1, Zenon DEF Pushed
<1>7. Picked'
  <2>1. \A w \in DOMAIN prev' : prev'[w].since <= quiet[w]
    BY <1>2, <1>4, Zenon DEF Filtered, Pushed
  <2>2. \A w \in ctl'.todo : w \in DOMAIN prev' /\ prev'[w].since > cfg.ExecTTL
    BY <1>1, Zenon DEF Find
  <2> QED
    BY <1>1, <2>1, <2>2, Zenon DEF Picked
<1> QED
  BY <1>5, <1>6, <1>7, Zenon

\* A round of the controller keeps what the filter promises.
LEMMA ControlFiltered ==
  ASSUME Configured, Filtered, Control \/ Stop
  PROVE  Aged' /\ Pushed' /\ Picked'
<1> USE DEF Filtered, Typed, AtWorker, poolVars, filterVars
<1>1. CASE Push
  BY <1>1, PushFiltered, Zenon
<1>2. CASE Sync
  BY <1>2, SyncFiltered, Zenon
<1>3. CASE RoundDone
  <2>1. /\ UNCHANGED <<cfg, state, numExecs, doneAge, prev, next>> /\ ctl'.at = "wait" /\ ctl.at = "idle"
    BY <1>3, Zenon DEF RoundDone, Waiting
  <2> QED
    BY <2>1, Zenon DEF Aged, AtPush, Pushed, Picked
<1>4. CASE Tick
  <2>1. UNCHANGED <<cfg, state, numExecs, doneAge, prev, next, quiet>> /\ ctl'.at = "load" /\ ctl.at = "wait"
    BY <1>4, Zenon DEF Tick
  <2> QED
    BY <2>1, RoundFiltered, Zenon
<1>5. CASE Stop
  <2>1. UNCHANGED <<cfg, state, numExecs, doneAge, prev, next, quiet>> /\ ctl'.at = "ended" /\ ctl.at = "wait"
    BY <1>5, Zenon DEF Stop
  <2> QED
    BY <2>1, RoundFiltered, Zenon
<1>6. CASE \E w \in Worker : LoadSkip(w) \/ LoadRemove(w)
  <2>1. UNCHANGED <<cfg, state, numExecs, doneAge, prev, next, quiet>> /\ ctl'.at = "load" /\ ctl.at = "load"
    BY <1>6, Zenon DEF LoadSkip, LoadRemove
  <2> QED
    BY <2>1, RoundFiltered, Zenon
<1>7. CASE \E w \in Worker : LoadState(w)
  <2>1. /\ UNCHANGED <<cfg, state, numExecs, doneAge, prev, next, quiet>> /\ ctl'.at = "push" /\ ctl.at = "load"
        /\ state[ctl'.w] # "gone"
    BY <1>7, Zenon DEF LoadState, Assessed
  <2> QED
    BY <2>1, RoundFiltered, Zenon
<1>8. CASE \E w \in Worker : ExecID(w)
  <2>1. /\ UNCHANGED <<cfg, state, numExecs, doneAge, prev, next, quiet>> /\ ctl'.at = "kill" /\ ctl.at = "exec"
        /\ ctl'.todo \subseteq ctl.todo
    BY <1>8 DEF ExecID
  <2> QED
    BY <2>1, RoundFiltered, Zenon
<1>9. CASE ExecRemove
  <2>1. /\ UNCHANGED <<cfg, state, numExecs, doneAge, prev, next, quiet>> /\ ctl'.at \in {"kill", "exec"}
        /\ ctl.at = "kill" /\ ctl'.todo = ctl.todo
    BY <1>9, Zenon DEF ExecRemove
  <2> QED
    BY <2>1, RoundFiltered, Zenon
<1>10. CASE ExecKill
  <2>1. /\ UNCHANGED <<cfg, state, numExecs, doneAge, prev, next, quiet>> /\ ctl'.at = "exec" /\ ctl.at = "compare"
        /\ ctl'.todo = ctl.todo
    BY <1>10, Zenon DEF ExecKill
  <2> QED
    BY <2>1, RoundFiltered, Zenon
<1>11. CASE ExecDone
  <2>1. /\ UNCHANGED <<cfg, state, numExecs, doneAge, prev, next, quiet>> /\ ctl'.at = "idle" /\ ctl.at = "exec"
        /\ ctl'.todo = Find(prev, "ready", cfg.IdleTTL)
    BY <1>11, Zenon DEF ExecDone, Waiting
  <2> QED
    BY <2>1, RoundFiltered, Zenon
<1>12. CASE \E w \in Worker : IdleRemove(w)
  <2>1. /\ UNCHANGED <<cfg, state, numExecs, doneAge, prev, next, quiet>> /\ ctl'.at = "idle" /\ ctl.at = "idle"
        /\ ctl'.todo \subseteq ctl.todo
    BY <1>12, Zenon DEF IdleRemove
  <2> QED
    BY <2>1, RoundFiltered, Zenon
<1>13. CASE RemoveLoad \/ RemoveStore
  <2>1. /\ UNCHANGED <<cfg, state, numExecs, doneAge, prev, next, quiet>> /\ ctl.at \in {"load", "kill", "idle"}
        /\ \/ ctl' = ctl
           \/ ctl.at = "kill" /\ ctl' \in {[ctl EXCEPT !.at = "exec"], [ctl EXCEPT !.at = "compare"]}
    BY <1>13, Zenon DEF RemoveLoad, RemoveStore
  <2>2. CASE ctl' = ctl
    BY <2>1, <2>2, RoundFiltered, Zenon
  <2>3. CASE ctl.at = "kill" /\ ctl' \in {[ctl EXCEPT !.at = "exec"], [ctl EXCEPT !.at = "compare"]}
    <3>1. ctl'.at \in {"exec", "compare"} /\ ctl'.todo = ctl.todo
      BY <2>3, Zenon
    <3> QED
      BY <2>1, <2>3, <3>1, RoundFiltered, Zenon
  <2> QED
    BY <2>1, <2>2, <2>3, Zenon
<1> QED
  BY <1>1, <1>2, <1>3, <1>4, <1>5, <1>6, <1>7, <1>8, <1>9, <1>10, <1>11, <1>12, <1>13, Zenon DEF Control, Round

\* Every step keeps what the filter promises.
LEMMA NextFiltered ==
  ASSUME Configured, Filtered, [Next]_vars
  PROVE  Filtered'
<1>1. Typed'
  BY NextTyped, Zenon DEF Filtered
<1>2. Aged' /\ Pushed' /\ Picked'
  <2>1. CASE Control \/ Stop
    BY <2>1, ControlFiltered, Zenon
  <2>2. CASE Pass
    BY <2>2, PassFiltered, Zenon
  <2>3. CASE \E w \in Worker : RegisterExec(w)
    BY <2>3, RegisterFiltered, Zenon
  <2>4. CASE UNCHANGED <<cfg, numExecs, doneAge, ctl, prev, next, quiet>>
    BY <2>4, NeverNew, PoolFiltered, Zenon DEF Filtered, Typed
  <2> QED
    BY <2>1, <2>2, <2>3, <2>4, Zenon DEF Next, vars, Create, Begin, EndJob, Die, KillRun, Detach, filterVars, poolVars
<1> QED
  BY <1>1, <1>2, Zenon DEF Filtered

\* A worker is picked by ExecTTL or IdleTTL only if it had completed nothing for longer than that, over any number of
\* rounds, workers and jobs, and although push reads the state and the number of executions apart (push, sync, find).
THEOREM PicksWereQuiet == ASSUME Configured PROVE Spec => []PickedWasQuiet
<1>1. Init => Filtered
  <2> SUFFICES ASSUME Init PROVE Filtered
    BY Zenon
  <2>1. DOMAIN prev = {} /\ DOMAIN next = {} /\ ctl.at = "wait"
    BY Zenon DEF Init, NoRecord, Waiting
  <2> QED
    BY <2>1, InitTyped, Zenon DEF Filtered, Aged, Pushed, Picked
<1>2. Filtered /\ [Next]_vars => Filtered'
  BY NextFiltered, Zenon
<1>3. Filtered => PickedWasQuiet
  <2> SUFFICES ASSUME Filtered, NEW w \in ctl.todo, ctl.at \in {"exec", "idle"}
               PROVE  /\ ctl.at = "exec" => quiet[w] > cfg.ExecTTL
                      /\ ctl.at = "idle" => quiet[w] > cfg.IdleTTL
    BY Zenon DEF PickedWasQuiet
  <2>1. w \in DOMAIN prev /\ prev[w].since <= quiet[w]
    BY Zenon DEF Filtered, Picked
  <2>2. /\ w \in Worker /\ prev[w].since \in Nat /\ quiet[w] \in Nat
        /\ cfg.ExecTTL \in Nat /\ cfg.IdleTTL \in Nat
    BY <2>1, Numbers DEF Filtered
  <2> QED
    BY <2>1, <2>2 DEF Filtered, Picked
<1> QED
  BY <1>1, <1>2, <1>3, PTL DEF Spec
==================================================================================
