---------------------------------- MODULE Limit ----------------------------------
(* The limit service: the controller that watches the workers of a pool (service/limit/controller.go,
   state_filter.go), with the pool reduced to what the controller reads and changes.  Time is kept as
   ages, which saturate at Horizon; it passes between two rounds of the controller. *)
EXTENDS Naturals, FiniteSets

CONSTANTS
  Worker,
  Configs,   \* configurations: TTL, IdleTTL and ExecTTL (0 when not set), and whether MaxMemory is set
  Horizon,   \* bound: age at which an age stays
  MaxExecs   \* bound: jobs of a worker

VARIABLES
  cfg,       \* c.cfg
  state,     \* w.State().Value(); "gone" when the process is gone
  numExecs,  \* w.State().NumExecs()
  exec,      \* Exec: running, or ended between the set of the state and registerExec
  age,       \* time since w.Created
  doneAge,   \* time since the last registerExec, or since w.Created
  removed,   \* the keys of p.remove
  call,      \* p.Remove: none is running, it is about to look into p.remove, or to store
  callW,     \* the worker it is about
  torn,      \* history: workers that died after a Remove had found them active and before it looked
  ctl,       \* the goroutine of the controller: where it is, workers left, worker and values at hand
  prev,      \* sw.prev, with the age of since
  next,      \* sw.next
  quiet,     \* doneAge when push read NumExecs
  kills,     \* the goroutine ExecTTL started for a worker: whose process its w is
  reports,   \* events reported for a worker
  detached   \* c.stop is closed

vars == <<cfg, state, numExecs, exec, age, doneAge, removed, call, callW, torn, ctl, prev, next, quiet, kills, reports,
          detached>>
poolVars == <<cfg, state, numExecs, exec, age, doneAge>>
removeVars == <<removed, call, callW, torn>>
filterVars == <<prev, next, quiet>>

None == "none"
Active == {"ready", "working"}
States == Active \cup {"new", "invalid", "stopping", "gone"}
Ages == 0..Horizon
Records == [state : States \ {"new", "invalid", "gone"}, numExecs : 0..MaxExecs, since : Ages]

\* Every variable has its type.
TypeOK ==
  /\ cfg \in Configs
  /\ state \in [Worker -> States]
  /\ numExecs \in [Worker -> 0..MaxExecs] /\ exec \in [Worker -> {"none", "running", "ended"}]
  /\ age \in [Worker -> Ages] /\ doneAge \in [Worker -> Ages] /\ quiet \in [Worker -> Ages]
  /\ removed \subseteq Worker /\ torn \subseteq Worker
  /\ call \in {"none", "load", "store"} /\ callW \in Worker \cup {None}
  /\ ctl \in [at : {"wait", "load", "push", "exec", "kill", "compare", "idle", "ended"}, todo : SUBSET Worker,
              w : Worker \cup {None}, val : States, eID : 0..MaxExecs]
  /\ \A f \in {prev, next} : DOMAIN f \subseteq Worker /\ \A w \in DOMAIN f : f[w] \in Records
  /\ kills \in [Worker -> Worker \cup {None, "loop", "done"}]
  /\ reports \in [Worker -> 0..2]
  /\ detached \in BOOLEAN

NoRecord == [w \in {} |-> 0]
Waiting == [at |-> "wait", todo |-> {}, w |-> None, val |-> "new", eID |-> 0]

Init ==
  /\ cfg \in Configs
  /\ state = [w \in Worker |-> "new"]
  /\ numExecs = [w \in Worker |-> 0] /\ exec = [w \in Worker |-> "none"]
  /\ age = [w \in Worker |-> 0] /\ doneAge = [w \in Worker |-> 0] /\ quiet = [w \in Worker |-> 0]
  /\ removed = {} /\ call = "none" /\ callW = None /\ torn = {}
  /\ ctl = Waiting /\ prev = NoRecord /\ next = NoRecord
  /\ kills = [w \in Worker |-> None] /\ reports = [w \in Worker |-> 0] /\ detached = FALSE

----------------------------------------------------------------------------------
(* The pool *)

SetState(w, s) == state' = [state EXCEPT ![w] = s]

Create(w) ==
  /\ state[w] = "new"
  /\ SetState(w, "ready")
  /\ UNCHANGED <<cfg, numExecs, exec, age, doneAge, removeVars, ctl, filterVars, kills, reports, detached>>

\* allocateWorker discards a worker in p.remove; Exec sets StateWorking.
Begin(w) ==
  /\ state[w] = "ready" /\ exec[w] = "none" /\ numExecs[w] < MaxExecs
  /\ IF w \in removed THEN SetState(w, "invalid") /\ UNCHANGED exec
     ELSE SetState(w, "working") /\ exec' = [exec EXCEPT ![w] = "running"]
  /\ UNCHANGED <<cfg, numExecs, age, doneAge, removeVars, ctl, filterVars, kills, reports, detached>>

\* The state is set first, over that of a Kill, then the execution is registered.  A worker that errored is taken
\* for the discarded one it is about to become: the controller acts on neither.
EndJob(w) ==
  /\ exec[w] = "running"
  /\ \E s \in {"ready", "invalid"} : SetState(w, s)
  /\ exec' = [exec EXCEPT ![w] = "ended"]
  /\ UNCHANGED <<cfg, numExecs, age, doneAge, removeVars, ctl, filterVars, kills, reports, detached>>

RegisterExec(w) ==
  /\ exec[w] = "ended"
  /\ exec' = [exec EXCEPT ![w] = "none"]
  /\ numExecs' = [numExecs EXCEPT ![w] = @ + 1] /\ doneAge' = [doneAge EXCEPT ![w] = 0]
  /\ IF state[w] = "ready" /\ w \in removed THEN SetState(w, "invalid") ELSE UNCHANGED state
  /\ UNCHANGED <<cfg, age, removeVars, ctl, filterVars, kills, reports, detached>>

\* The process of a worker ends; watchWorker drops the worker and its entry of p.remove.
Die(w) ==
  /\ state[w] \in Active \cup {"invalid", "stopping"} /\ exec[w] # "ended"
  /\ SetState(w, "gone") /\ exec' = [exec EXCEPT ![w] = "none"]
  /\ removed' = removed \ {w}
  /\ torn' = IF call = "load" /\ callW = w THEN torn \cup {w} ELSE torn
  /\ UNCHANGED <<cfg, numExecs, age, doneAge, call, callW, ctl, filterVars, kills, reports, detached>>

\* w.Kill() of the goroutine of an ExecTTL: w is the variable of the loop, as it is when the goroutine runs.
KillRun(v) ==
  LET w == IF kills[v] = "loop" THEN ctl.w ELSE kills[v] IN
  /\ kills[v] \in Worker \cup {"loop"}
  /\ kills' = [kills EXCEPT ![v] = "done"]
  /\ IF state[w] = "gone" THEN UNCHANGED state ELSE SetState(w, "stopping")
  /\ UNCHANGED <<cfg, numExecs, exec, age, doneAge, removeVars, ctl, filterVars, reports, detached>>

----------------------------------------------------------------------------------
(* The controller *)

\* p.Remove is called: a worker that is not active is left alone.
Remove(w) ==
  /\ call' = IF state[w] \in Active THEN "load" ELSE "none"
  /\ callW' = IF state[w] \in Active THEN w ELSE None
  /\ UNCHANGED <<removed, torn>>

\* Mutant: Remove does not look whether the worker is marked already.
RemoveLoadBlind ==
  /\ call = "load" /\ call' = "store"
  /\ UNCHANGED <<poolVars, removed, callW, torn, ctl, filterVars, kills, reports, detached>>

\* p.remove.Load: Remove returns false when the worker is marked already.
RemoveLoad ==
  /\ call = "load"
  /\ IF callW \in removed
     THEN /\ call' = "none" /\ callW' = None
          /\ ctl' = IF ctl.at = "kill" THEN [ctl EXCEPT !.at = "exec"] ELSE ctl
     ELSE call' = "store" /\ UNCHANGED <<callW, ctl>>
  /\ UNCHANGED <<poolVars, removed, torn, filterVars, kills, reports, detached>>

\* p.remove.Store: Remove returns true; ExecTTL compares before it reports, the other limits report.
RemoveStore ==
  /\ call = "store" /\ call' = "none" /\ callW' = None
  /\ removed' = removed \cup {callW}
  /\ IF ctl.at = "kill" THEN ctl' = [ctl EXCEPT !.at = "compare"] /\ UNCHANGED reports
                        ELSE reports' = [reports EXCEPT ![callW] = @ + 1] /\ UNCHANGED ctl
  /\ UNCHANGED <<poolVars, torn, filterVars, kills, detached>>

Tick ==
  /\ ctl.at = "wait"
  /\ ctl' = [ctl EXCEPT !.at = "load", !.todo = {w \in Worker : state[w] \notin {"new", "gone"}}]
  /\ UNCHANGED <<poolVars, removeVars, filterVars, kills, reports, detached>>

Assessed(w) == state[w] \notin {"invalid", "gone"}

\* A discarded worker is skipped, and one whose process cannot be read.
LoadSkip(w) ==
  /\ ctl.at = "load" /\ w \in ctl.todo /\ ~Assessed(w)
  /\ ctl' = [ctl EXCEPT !.todo = @ \ {w}]
  /\ UNCHANGED <<poolVars, removeVars, filterVars, kills, reports, detached>>

Expired(w) == cfg.TTL # 0 /\ age[w] >= cfg.TTL

\* A worker over its TTL or its memory is removed, and not pushed.
LoadRemove(w) ==
  /\ ctl.at = "load" /\ w \in ctl.todo /\ Assessed(w)
  /\ Expired(w) \/ cfg.MaxMemory
  /\ Remove(w)
  /\ ctl' = [ctl EXCEPT !.todo = @ \ {w}]
  /\ UNCHANGED <<poolVars, filterVars, kills, reports, detached>>

\* push reads the state and then the number of executions.
LoadState(w) ==
  /\ ctl.at = "load" /\ w \in ctl.todo /\ Assessed(w)
  /\ ~Expired(w)
  /\ ctl' = [ctl EXCEPT !.at = "push", !.w = w, !.val = state[w], !.todo = @ \ {w}]
  /\ UNCHANGED <<poolVars, removeVars, filterVars, kills, reports, detached>>

Push ==
  LET w == ctl.w
      s == [state |-> ctl.val, numExecs |-> numExecs[w], since |-> 0] IN
  /\ ctl.at = "push"
  /\ next' = [v \in DOMAIN next \cup {w} |-> IF v = w THEN s ELSE next[v]]
  /\ quiet' = [quiet EXCEPT ![w] = doneAge[w]]
  /\ ctl' = [ctl EXCEPT !.at = "load", !.w = None, !.val = "new"]
  /\ UNCHANGED <<poolVars, removeVars, prev, kills, reports, detached>>

\* Mutant: a change of the number of executions is no change.
SyncedByState ==
  [w \in DOMAIN next |->
     IF w \in DOMAIN prev /\ prev[w].state = next[w].state THEN prev[w] ELSE next[w]]

\* Mutant: every round starts anew.
SyncedFresh == next

\* sync: the records of next, those that say what they said before with their old since.
Synced ==
  [w \in DOMAIN next |->
     IF w \in DOMAIN prev /\ prev[w].state = next[w].state /\ prev[w].numExecs = next[w].numExecs
     THEN prev[w] ELSE next[w]]

Find(records, s, ttl) ==
  {w \in DOMAIN records : ttl # 0 /\ records[w].state = s /\ records[w].since > ttl}

Sync ==
  /\ ctl.at = "load" /\ ctl.todo = {}
  /\ prev' = Synced /\ next' = NoRecord
  /\ ctl' = [ctl EXCEPT !.at = "exec", !.todo = Find(Synced, "working", cfg.ExecTTL)]
  /\ UNCHANGED <<poolVars, removeVars, quiet, kills, reports, detached>>

ExecID(w) ==
  /\ ctl.at = "exec" /\ w \in ctl.todo
  /\ ctl' = [ctl EXCEPT !.at = "kill", !.w = w, !.eID = numExecs[w], !.todo = @ \ {w}]
  /\ UNCHANGED <<poolVars, removeVars, filterVars, kills, reports, detached>>

ExecRemove ==
  /\ ctl.at = "kill"
  /\ Remove(ctl.w)
  /\ ctl' = [ctl EXCEPT !.at = IF state[ctl.w] \in Active THEN "kill" ELSE "exec"]
  /\ UNCHANGED <<poolVars, filterVars, kills, reports, detached>>

\* The comparison of NumExecs, the kill goroutine and the report.
ExecKill ==
  LET w == ctl.w
      same == numExecs[w] = ctl.eID IN
  /\ ctl.at = "compare"
  /\ kills' = IF same THEN [kills EXCEPT ![w] = "loop"] ELSE kills
  /\ reports' = IF same THEN [reports EXCEPT ![w] = @ + 1] ELSE reports
  /\ ctl' = [ctl EXCEPT !.at = "exec"]
  /\ UNCHANGED <<poolVars, removeVars, filterVars, detached>>

\* The loop is over; a goroutine that has not run yet finds the last worker of the loop.
ExecDone ==
  /\ ctl.at = "exec" /\ ctl.todo = {}
  /\ kills' = [w \in Worker |-> IF kills[w] = "loop" THEN ctl.w ELSE kills[w]]
  /\ ctl' = [Waiting EXCEPT !.at = "idle", !.todo = Find(prev, "ready", cfg.IdleTTL)]
  /\ UNCHANGED <<poolVars, removeVars, filterVars, reports, detached>>

IdleRemove(w) ==
  /\ ctl.at = "idle" /\ w \in ctl.todo
  /\ Remove(w)
  /\ ctl' = [ctl EXCEPT !.todo = @ \ {w}]
  /\ UNCHANGED <<poolVars, filterVars, kills, reports, detached>>

RoundDone ==
  /\ ctl.at = "idle" /\ ctl.todo = {}
  /\ ctl' = Waiting /\ quiet' = [w \in Worker |-> 0]
  /\ UNCHANGED <<poolVars, removeVars, prev, next, kills, reports, detached>>

Detach ==
  /\ ~detached
  /\ detached' = TRUE
  /\ UNCHANGED <<poolVars, removeVars, ctl, filterVars, kills, reports>>

Stop ==
  /\ ctl.at = "wait" /\ detached
  /\ ctl' = [ctl EXCEPT !.at = "ended"]
  /\ UNCHANGED <<poolVars, removeVars, filterVars, kills, reports, detached>>

Older(n, max) == IF n < max THEN n + 1 ELSE n

Pass ==
  /\ ctl.at \in {"wait", "ended"}
  /\ age' = [w \in Worker |-> IF state[w] \in {"new", "gone"} THEN 0 ELSE Older(age[w], cfg.TTL)]
  /\ doneAge' = [w \in Worker |-> IF state[w] \in {"new", "gone"} THEN 0 ELSE Older(doneAge[w], Horizon)]
  /\ prev' = [w \in DOMAIN prev |-> [prev[w] EXCEPT !.since = Older(@, Horizon)]]
  /\ UNCHANGED <<cfg, state, numExecs, exec, removeVars, ctl, next, quiet, kills, reports, detached>>

Round ==
  \/ Tick \/ Push \/ Sync \/ ExecRemove \/ ExecKill \/ ExecDone \/ RoundDone
  \/ \E w \in Worker : LoadSkip(w) \/ LoadRemove(w) \/ LoadState(w) \/ ExecID(w) \/ IdleRemove(w)

\* A round goes on when the Remove it has called returns.
Control == (call = "none" /\ Round) \/ RemoveLoad \/ RemoveStore

Next ==
  \/ \E w \in Worker : Create(w) \/ Begin(w) \/ EndJob(w) \/ RegisterExec(w) \/ Die(w) \/ KillRun(w)
  \/ Control \/ Detach \/ Stop \/ Pass

\* Time passes and the ticker ticks; select takes stop in the end when both channels stay ready.
Fairness ==
  /\ SF_vars(Pass) /\ WF_vars(Control) /\ SF_vars(Stop)
  /\ \A w \in Worker : WF_vars(RegisterExec(w))

Spec == Init /\ [][Next]_vars
FairSpec == Spec /\ Fairness

----------------------------------------------------------------------------------
\* The controller picks a worker for ExecTTL or IdleTTL only if the worker had completed nothing for longer
\* than that when push read it, whatever state and count the rounds in between have seen.
PickedWasQuiet ==
  \A w \in ctl.todo : /\ ctl.at = "exec" => quiet[w] > cfg.ExecTTL
                      /\ ctl.at = "idle" => quiet[w] > cfg.IdleTTL

\* A worker is reported once, by the limit that removes it, however many limits it exceeds and although a
\* round goes on with workers that have died since it began.  A second report comes only from a Remove that has found the
\* worker active and looks into p.remove after the watcher has deleted its key.
ReportedOnce == \A w \in Worker : reports[w] <= 1 \/ (reports[w] = 2 /\ w \in torn)

\* Not so: "Return true is this is first remove request on given worker" (pool.go:37).
TrueOnce == \A w \in Worker : reports[w] <= 1

\* While the controller is attached, a worker that stays idle is removed.
IdleIsRemoved ==
  \A w \in Worker : <>[](cfg.IdleTTL # 0 /\ state[w] = "ready" /\ ~detached) => <>(w \in removed)

\* While the controller is attached, a worker that stays in one job is removed.
HungIsRemoved ==
  \A w \in Worker : <>[](cfg.ExecTTL # 0 /\ state[w] = "working" /\ ~detached) => <>(w \in removed)

\* While the controller is attached, a worker that stays over a limit is removed, whether idle or in a job.
OverdueIsRemoved == IdleIsRemoved /\ HungIsRemoved

\* "ExecTTL defines maximum lifetime per job."
HungIsKilled ==
  \A w \in Worker : <>[](cfg.ExecTTL # 0 /\ state[w] = "working" /\ ~detached) => <>(kills[w] # None)

\* "make sure worker still on initial request" (control)
KilledOnInitialRequest ==
  [][ExecKill /\ kills' # kills => numExecs[ctl.w] = prev[ctl.w].numExecs]_vars
==================================================================================
