------------------------- MODULE StaticPoolTheorems -------------------------
(***************************************************************************)
(* What follows from the inductive invariant Owned of StaticPoolProofs:    *)
(* the bound on the number of processes, the refinement of WorkerRotation, *)
(* the workers in service, the count of dead workers and the end of pools. *)
(***************************************************************************)
EXTENDS StaticPoolProofs
-----------------------------------------------------------------------------
(* The pool implements WorkerRotation *)

\* Every move of a worker is a step of the rotation or none.
LEMMA MovedRotates ==
  ASSUME Owned, Owned', Moved
  PROVE  [Rotation!Next]_(Rotation!rotation)
<1> USE DEF Owned
<1>1. /\ \A x \in Queued \cup Fresh : x \in Worker /\ x # NoWorker /\ proc[x] # "none"
      /\ \A x : x \in Gone <=> x \in Worker /\ proc[x] # "none" /\ x \notin Queued \cup Fresh
                                            /\ \A c \in Client : cw[c] # x
      /\ \A x : x \in Gone' <=> x \in Worker /\ proc'[x] # "none" /\ x \notin Queued' \cup Fresh'
                                             /\ \A c \in Client : cw'[c] # x
  <2>1. Queued \subseteq Worker BY QueuedWorkers, Zenon
  <2>2. \A x \in Queued \cup Fresh : x \in Worker /\ x # NoWorker /\ proc[x] # "none"
    BY <2>1, FreshBorn, WorkerShape, Zenon DEF Lineage, Born
  <2> QED BY <2>2, Zenon DEF Gone, Offered
<1>2. CASE Stay
  <2>1. Offered' = Offered /\ cw' = cw BY <1>2, Zenon DEF Stay, Offered
  <2>2. \A x : x \in Gone' <=> x \in Gone BY <1>1, <1>2, Zenon DEF Stay, SameBorn
  <2>3. Gone' = Gone BY <2>2, Zenon DEF Gone
  <2> QED BY <2>1, <2>3, Zenon DEF Rotation!rotation
<1>3. ASSUME NEW w \in Worker, Hired(w) PROVE Rotation!Next
  <2>1. Offered' = Offered \cup {w} /\ cw' = cw BY <1>3, Zenon DEF Hired, Offered
  <2>2. w \notin Offered /\ w \notin Gone /\ \A c \in Client : cw[c] # w
    BY <1>1, <1>3, WorkerShape DEF Hired, Offered, Lineage, Born
  <2>5. \A x : x \in Gone' <=> x \in Gone BY <1>1, <1>3, Zenon DEF Hired
  <2>3. Gone' = Gone BY <2>5, Zenon DEF Gone
  <2>4. w \notin Offered \cup Rotation!Held \cup Gone BY <2>2, Zenon DEF Rotation!Held
  <2> QED BY <2>1, <2>3, <2>4, Zenon DEF Rotation!Next, Rotation!Hire
<1>4. ASSUME NEW w \in Worker, Enqueued(w) PROVE UNCHANGED Rotation!rotation
  <2>1. Offered' = Offered /\ cw' = cw BY <1>4, Zenon DEF Enqueued, Offered
  <2>3. \A x : x \in Gone' <=> x \in Gone BY <1>1, <1>4 DEF Enqueued, SameBorn
  <2>2. Gone' = Gone BY <2>3, Zenon DEF Gone
  <2> QED BY <2>1, <2>2, Zenon DEF Rotation!rotation
<1>5. ASSUME NEW c \in Client, NEW w \in Worker, Taken(c, w) PROVE Rotation!Next
  <2>1. w \in Offered /\ w \notin Fresh BY <1>5, Zenon DEF Taken, Offered, OneOwner
  <2>2. Offered' = Offered \ {w} BY <1>5, <2>1, Zenon DEF Taken, Offered
  <2>3. \A d \in Client : cw'[d] = IF d = c THEN w ELSE cw[d]
    BY <1>5, Zenon DEF Taken, TypeOK, ClientTypes
  <2>4. \A x \in Worker : (\A d \in Client : cw'[d] # x) <=> (x # w /\ \A d \in Client : cw[d] # x)
    BY <1>5, <2>3, WorkerShape DEF Taken
  <2>5. w \notin Gone /\ w \in Queued /\ Queued' = Queued \ {w} /\ Fresh' = Fresh
    BY <1>1, <1>5, Zenon DEF Taken
  <2>6. \A x : x \in Gone' <=> x \in Gone
    BY <1>1, <1>5, <2>4, <2>5, Zenon DEF Taken, SameBorn
  <2>7. Gone' = Gone BY <2>6, Zenon DEF Gone
  <2> QED BY <1>5, <2>1, <2>2, <2>7, Zenon DEF Taken, Rotation!Next, Rotation!Take
<1>6. ASSUME NEW c \in Client, Returned(c) PROVE Rotation!Next
  <2>1. cw[c] # NoWorker BY <1>6, WorkerShape, Zenon DEF Returned
  <2>2. Offered' = Offered \cup {cw[c]} BY <1>6, Zenon DEF Returned, Offered
  <2>3. \A d \in Client : cw'[d] = IF d = c THEN NoWorker ELSE cw[d]
    BY <1>6, Zenon DEF Returned, TypeOK, ClientTypes
  <2>4. \A x \in Worker : (\A d \in Client : cw'[d] # x) <=> (x = cw[c] \/ \A d \in Client : cw[d] # x)
    BY <2>1, <2>3, WorkerShape DEF OneOwner
  <2>5. cw[c] \notin Gone /\ Queued' = Queued \cup {cw[c]} /\ Fresh' = Fresh
    BY <1>1, <1>6, Zenon DEF Returned
  <2>6. \A x : x \in Gone' <=> x \in Gone
    BY <1>1, <1>6, <2>4, <2>5, Zenon DEF Returned, SameBorn
  <2>7. Gone' = Gone BY <2>6, Zenon DEF Gone
  <2> QED BY <1>6, <2>1, <2>2, <2>7, Zenon DEF Returned, Rotation!Next, Rotation!GiveBack
<1>7. ASSUME NEW c \in Client, Dropped(c) PROVE [Rotation!Next]_(Rotation!rotation)
  <2>1. Offered' = Offered BY <1>7, Zenon DEF Dropped, Offered
  <2>2. \A d \in Client : cw'[d] = IF d = c THEN NoWorker ELSE cw[d]
    BY <1>7, Zenon DEF Dropped, TypeOK, ClientTypes
  <2>3. CASE cw[c] = NoWorker
    <3>1. cw' = cw BY <1>7, <2>2, <2>3, Zenon DEF Dropped, TypeOK, ClientTypes
    <3>3. \A x : x \in Gone' <=> x \in Gone BY <1>1, <1>7, <3>1, Zenon DEF Dropped, SameBorn
    <3>2. Gone' = Gone BY <3>3, Zenon DEF Gone
    <3> QED BY <2>1, <3>1, <3>2, Zenon DEF Rotation!rotation
  <2>4. CASE cw[c] # NoWorker
    <3>1. cw[c] \in Worker BY <2>4, Zenon DEF TypeOK, ClientTypes
    <3>2. /\ cw[c] \notin Queued \cup Fresh /\ proc[cw[c]] # "none"
          /\ \A d \in Client : cw[d] = cw[c] => d = c
      BY <2>4, Zenon DEF OneOwner, Lineage, Born
    <3>3. Gone' = Gone \cup {cw[c]}
      BY <1>1, <1>7, <2>2, <3>1, <3>2, WorkerShape DEF Dropped, SameBorn
    <3> QED BY <1>7, <2>1, <2>4, <3>3, Zenon DEF Dropped, Rotation!Next, Rotation!Dismiss
  <2> QED BY <2>3, <2>4, Zenon
<1> QED BY <1>2, <1>3, <1>4, <1>5, <1>6, <1>7, Zenon DEF Moved

\* The pool implements WorkerRotation: a worker is hired once, offered, serves one client at a
\* time, and never comes back once it has been dropped or discarded.
THEOREM PoolRotates == Spec => ImplementsRotation
<1>1. Init => Rotation!Init
  <2> SUFFICES ASSUME Init PROVE Rotation!Init
    BY Zenon
  <2>1. Queued = {} /\ Fresh = {} BY DEF Init, Queued, Fresh
  <2> QED BY <2>1, Zenon DEF Init, Rotation!Init, Offered, Gone
<1>2. Owned /\ Owned' /\ [Next]_vars => [Rotation!Next]_(Rotation!rotation)
  BY NextMoves, MovedRotates, Zenon DEF Owned
<1> QED BY <1>1, <1>2, SpecOwned, PTL DEF Spec, ImplementsRotation, Rotation!Spec
-----------------------------------------------------------------------------
(* Workers in service *)

(* A worker is marked working only by the client that is in Worker.Exec with it, and one that is out *)
(* of circulation is never ready.                                                                    *)
Retired ==
  /\ \A w \in Worker : state[w] = "working" =>
       \E c \in Client : cw[c] = w /\ pc[c] \in {"working", "replied"}
  /\ \A w \in Gone : state[w] # "ready"

(* A discarded worker is out of circulation. *)
Discarded == \A w \in Worker : dtor["discard"][w] # "none" => w \in Gone

(* A worker in circulation has a job left, unless its client is about to release it. *)
JobsLeft ==
  MaxJobs # 0 =>
    /\ \A w \in Worker : numExecs[w] <= MaxJobs
    /\ \A w \in Offered : numExecs[w] < MaxJobs
    /\ \A c \in Client : (cw[c] # NoWorker /\ pc[c] # "finish") => numExecs[cw[c]] < MaxJobs

(* Once Wait has returned the worker accepts no job, and no job is running on it. *)
Waited ==
  \A w \in Worker : watch[w] \notin {"none", "wait"} =>
    /\ state[w] \notin {"ready", "working"}
    /\ \A c \in Client : cw[c] = w => pc[c] \notin {"working", "replied"}

(* Client c runs a job on w, or will. *)
Pending(c, w) ==
  /\ cw[c] = w
  /\ pc[c] \in {"working", "replied"} \/ (pc[c] = "exec" /\ Ready(w))

(* A removed worker stays in p.remove until its watcher is past Wait, and its quota covers the job *)
(* that is pending.                                                                                *)
RemovedQuota ==
  \A w \in Worker : quota[w] # -1 =>
    /\ numExecs[w] <= quota[w]
    /\ w \in remove \/ watch[w] \notin {"none", "wait", "detach"}
    /\ \A c \in Client : Pending(c, w) => numExecs[w] < quota[w]

Service == Retired /\ Discarded /\ JobsLeft /\ Waited /\ RemovedQuota

\* Membership in Gone, spelled out.
LEMMA GoneMembers ==
  \A x : x \in Gone <=> /\ x \in Worker /\ proc[x] # "none" /\ x \notin Offered
                        /\ \A c \in Client : cw[c] # x
BY Zenon DEF Gone

\* Nobody has a worker, and none was discarded, at first.
LEMMA InitService == Init => Service
<1> SUFFICES ASSUME Init PROVE Service
  BY Zenon
<1>1. Offered = {} /\ Gone = {} BY DEF Init, Offered, Queued, Fresh, Gone
<1>2. Retired /\ Discarded BY <1>1, Zenon DEF Init, Retired, Discarded, Cause
<1>3. JobsLeft BY <1>1, PoolAssumption DEF Init, JobsLeft
<1>4. Waited BY Zenon DEF Init, Waited
<1>5. RemovedQuota BY Zenon DEF Init, RemovedQuota
<1> QED BY <1>2, <1>3, <1>4, <1>5, Zenon DEF Service

(* A watcher, Destroy, destroyWorker, a controller or a process moves: it may take a worker out of *)
(* use, and its watcher past Wait, but touches neither the calls nor who has which worker.         *)
Behind ==
  /\ UNCHANGED <<pc, cw, numExecs, quota, Offered>> /\ SameBorn /\ SameDiscards
  /\ \A w \in Worker :
       /\ state'[w] \in {state[w], "invalid", "stopping", "stopped", "errored"}
       /\ watch'[w] \notin {"none", "wait"} =>
            \/ watch[w] \notin {"none", "wait"}
            \/ MuFree(w) /\ state'[w] \in {"stopped", "errored"}
       /\ (w \in remove \/ watch[w] \notin {"none", "wait", "detach"}) =>
            (w \in remove' \/ watch'[w] \notin {"none", "wait", "detach"})

\* Such a step keeps workers in service.
LEMMA BehindService ==
  ASSUME Owned, Service, Behind
  PROVE  Service'
<1> USE DEF Owned
<1>1. \A x : x \in Gone' <=> x \in Gone
  <2>1. \A x : x \in Gone' <=> /\ x \in Worker /\ proc'[x] # "none" /\ x \notin Offered'
                               /\ \A c \in Client : cw'[c] # x
    BY Zenon DEF Gone
  <2> QED BY <2>1, GoneMembers DEF Behind, SameBorn
<1>2. Retired' BY <1>1, GoneMembers DEF Behind, Service, Retired
<1>3. Discarded' BY <1>1, Zenon DEF Behind, Service, Discarded, SameDiscards
<1>4. JobsLeft' BY Zenon DEF Behind, Service, JobsLeft
<1>5. Waited'
  <2> SUFFICES ASSUME NEW w \in Worker, watch'[w] \notin {"none", "wait"}
               PROVE  /\ state'[w] \notin {"ready", "working"}
                      /\ \A c \in Client : cw[c] = w => pc[c] \notin {"working", "replied"}
    BY Zenon DEF Waited, Behind
  <2>1. CASE watch[w] \notin {"none", "wait"} BY <2>1, Zenon DEF Behind, Service, Waited
  <2>2. CASE MuFree(w) /\ state'[w] \in {"stopped", "errored"} BY <2>2, Zenon DEF MuFree
  <2> QED BY <2>1, <2>2, Zenon DEF Behind
<1>6. RemovedQuota'
  <2> SUFFICES ASSUME NEW w \in Worker, quota[w] # -1
               PROVE  /\ numExecs[w] <= quota[w]
                      /\ w \in remove' \/ watch'[w] \notin {"none", "wait", "detach"}
                      /\ \A c \in Client : Pending(c, w)' => numExecs[w] < quota[w]
    BY Zenon DEF RemovedQuota, Behind
  <2>1. \A c \in Client : Pending(c, w)' => Pending(c, w) BY Zenon DEF Pending, Ready, Behind
  <2> QED BY <2>1, Zenon DEF Behind, Service, RemovedQuota
<1> QED BY <1>2, <1>3, <1>4, <1>5, <1>6, Zenon DEF Service

\* A spawned worker enters service with no execution behind it.
LEMMA HireService ==
  ASSUME Owned, Service, NEW h \in Worker, proc[h] = "none", Spawn(h),
         Offered' = Offered \cup {h}, UNCHANGED <<pc, cw, dtor, quota, remove>>,
         \A w \in Worker : /\ watch'[w] \notin {"none", "wait"} => watch[w] \notin {"none", "wait"}
                           /\ watch[w] \notin {"none", "wait", "detach"} =>
                                watch'[w] \notin {"none", "wait", "detach"}
  PROVE  Service'
<1> USE DEF Owned
<1>1. /\ \A w \in Worker : (proc'[w] = "none") <=> (proc[w] = "none" /\ w # h)
      /\ \A w \in Worker : state'[w] = IF w = h THEN "ready" ELSE state[w]
      /\ numExecs' = numExecs
  BY Zenon DEF Spawn, TypeOK, WorkerTypes
<1>2. /\ numExecs[h] = 0 /\ watch[h] = "none" /\ h \notin Gone /\ \A c \in Client : cw[c] # h
  BY GoneMembers, WorkerShape DEF Lineage, Unborn, Born
<1>3. \A x : x \in Gone' <=> x \in Gone
  <2>1. \A x : x \in Gone' <=> /\ x \in Worker /\ proc'[x] # "none" /\ x \notin Offered'
                               /\ \A c \in Client : cw'[c] # x
    BY Zenon DEF Gone
  <2> QED BY <1>1, <1>2, <2>1, GoneMembers
<1>4. Retired' BY <1>1, <1>2, <1>3, GoneMembers DEF Service, Retired
<1>5. Discarded' BY <1>3, Zenon DEF Service, Discarded
<1>6. JobsLeft' BY <1>1, <1>2, PoolAssumption DEF Service, JobsLeft
<1>7. Waited' BY <1>1, <1>2, Zenon DEF Service, Waited
<1>8. RemovedQuota'
  <2>1. \A c \in Client, w \in Worker : Pending(c, w)' => Pending(c, w)
    BY <1>1, <1>2 DEF Pending, Ready
  <2> QED BY <1>1, <2>1, Zenon DEF Service, RemovedQuota
<1> QED BY <1>4, <1>5, <1>6, <1>7, <1>8, Zenon DEF Service

(* A call of client c moves to another program point and keeps its worker, if it has one. *)
Proceeds(c) ==
  /\ UNCHANGED <<state, numExecs, proc, dtor, quota, remove, watch, free, npc, nw, cw>>
  /\ \E to \in {"idle", "call", "alloc", "select", "select2", "check", "exec", "replied", "finish", "push"} :
       /\ pc' = [pc EXCEPT ![c] = to]
       /\ to = "exec" => cw[c] \notin remove
       /\ to = "replied" <=> pc[c] = "working"
       /\ pc[c] # "replied"
       /\ pc[c] = "finish" => ~ReleaseReplaces(cw[c])

\* Such a step keeps workers in service.
LEMMA ProceedsService ==
  ASSUME Owned, Service, NEW c \in Client, Proceeds(c)
  PROVE  Service'
<1> USE DEF Owned
<1>1. UNCHANGED <<state, numExecs, proc, dtor, quota, remove, watch, free, npc, nw, cw>>
  BY Zenon DEF Proceeds
<1>2. PICK to \in {"idle", "call", "alloc", "select", "select2", "check", "exec", "replied", "finish", "push"} :
        /\ pc' = [pc EXCEPT ![c] = to]
        /\ to = "exec" => cw[c] \notin remove
        /\ to = "replied" <=> pc[c] = "working"
        /\ pc[c] # "replied"
        /\ pc[c] = "finish" => ~ReleaseReplaces(cw[c])
  BY Zenon DEF Proceeds
<1>3. Offered' = Offered /\ Gone' = Gone
  BY <1>1 DEF Offered, Gone, Queued, Fresh
<1>4. /\ \A d \in Client : pc'[d] = IF d = c THEN to ELSE pc[d]
      /\ \A d \in Client : pc'[d] \in {"working", "replied"} <=> pc[d] \in {"working", "replied"}
  BY <1>2, Zenon DEF TypeOK, ClientTypes
<1>5. Retired' BY <1>1, <1>3, <1>4, Zenon DEF Service, Retired
<1>6. Discarded' BY <1>1, <1>3, Zenon DEF Service, Discarded
<1>7. JobsLeft'
  <2> SUFFICES ASSUME MaxJobs # 0, NEW d \in Client, cw[d] # NoWorker, pc'[d] # "finish"
               PROVE  numExecs[cw[d]] < MaxJobs
    BY <1>1, <1>3, Zenon DEF Service, JobsLeft
  <2>1. CASE pc[d] # "finish" BY <2>1, Zenon DEF Service, JobsLeft
  <2>2. CASE pc[d] = "finish"
    <3>1. d = c BY <1>4, <2>2, Zenon
    <3>2. numExecs[cw[c]] \in Nat BY <3>1, Zenon DEF TypeOK, ClientTypes, WorkerTypes
    <3> QED BY <1>2, <2>2, <3>1, <3>2, PoolAssumption DEF ReleaseReplaces
  <2> QED BY <2>1, <2>2, Zenon
<1>8. Waited' BY <1>1, <1>4, Zenon DEF Service, Waited
<1>9. RemovedQuota'
  <2> SUFFICES ASSUME NEW w \in Worker, quota[w] # -1, NEW d \in Client, Pending(d, w)'
               PROVE  numExecs[w] < quota[w]
    BY <1>1, Zenon DEF Service, RemovedQuota
  <2>1. CASE Pending(d, w) BY <2>1, Zenon DEF Service, RemovedQuota
  <2>2. CASE ~Pending(d, w)
    <3>1. d = c /\ to = "exec" /\ cw[c] = w /\ state[w] = "ready"
      BY <1>1, <1>4, <2>2, Zenon DEF Pending, Ready
    <3>2. watch[w] \notin {"none", "wait"} BY <1>2, <3>1, Zenon DEF Service, RemovedQuota
    <3> QED BY <3>1, <3>2, Zenon DEF Service, Waited
  <2> QED BY <2>1, <2>2, Zenon
<1> QED BY <1>5, <1>6, <1>7, <1>8, <1>9, Zenon DEF Service

\* Worker.Exec starts a job.
LEMMA BeginService ==
  ASSUME Owned, Service, NEW c \in Client, WorkerExecBegin(c)
  PROVE  Service'
<1> USE DEF Owned, workerVars, poolVars, clientVars, destroyVars, mainVars, ctlVars
<1> DEFINE v == cw[c]
<1>1. /\ pc[c] = "exec" /\ Ready(v) /\ state' = [state EXCEPT ![v] = "working"]
      /\ pc' = [pc EXCEPT ![c] = "working"]
      /\ UNCHANGED <<numExecs, proc, dtor, quota, remove, watch, free, npc, nw, cw>>
  BY Zenon DEF WorkerExecBegin, Goto
<1>2. v \in Worker BY <1>1, HolderHasWorker, Zenon
<1>3. Offered' = Offered /\ Gone' = Gone
  BY <1>1 DEF Offered, Gone, Queued, Fresh
<1> HIDE DEF v
<1>4. /\ \A d \in Client : pc'[d] = IF d = c THEN "working" ELSE pc[d]
      /\ \A w \in Worker : state'[w] = IF w = v THEN "working" ELSE state[w]
  BY <1>1, <1>2, Zenon DEF TypeOK, ClientTypes, WorkerTypes
<1>5. Retired' BY <1>1, <1>3, <1>4 DEF Service, Retired, v
<1>6. Discarded' BY <1>1, <1>3, Zenon DEF Service, Discarded
<1>7. JobsLeft' BY <1>1, <1>3, <1>4, Zenon DEF Service, JobsLeft
<1>8. Waited' BY <1>1, <1>2, <1>4 DEF Service, Waited, Ready, v
<1>9. RemovedQuota'
  <2>1. \A d \in Client, w \in Worker : Pending(d, w)' => Pending(d, w)
    BY <1>1, <1>4 DEF Pending, Ready, v
  <2> QED BY <1>1, <2>1, Zenon DEF Service, RemovedQuota
<1> QED BY <1>5, <1>6, <1>7, <1>8, <1>9, Zenon DEF Service

\* Worker.Exec registers the execution and sets the state.
LEMMA EndService ==
  ASSUME Owned, Service, NEW c \in Client, WorkerExecEnd(c)
  PROVE  Service'
<1> USE DEF Owned, workerVars, poolVars, clientVars, destroyVars, mainVars, ctlVars
<1> DEFINE v == cw[c]
<1>1. /\ pc[c] = "replied" /\ pc' = [pc EXCEPT ![c] = "finish"]
      /\ state' = [state EXCEPT ![v] = IF rsp[c] = "broken" THEN "errored" ELSE "ready"]
      /\ numExecs' = [numExecs EXCEPT ![v] = @ + 1]
      /\ UNCHANGED <<proc, dtor, quota, remove, watch, free, npc, nw, cw>>
  BY Zenon DEF WorkerExecEnd, Goto
<1>2. v \in Worker BY <1>1, HolderHasWorker, Zenon
<1>3. Offered' = Offered /\ Gone' = Gone
  BY <1>1 DEF Offered, Gone, Queued, Fresh
<1>10. /\ v \notin Offered /\ v \notin Gone /\ \A d \in Client : cw[d] = v => d = c
  BY <1>2, GoneMembers, WorkerShape, Zenon DEF OneOwner, Offered
<1>11. v = cw[c] BY Zenon
<1> HIDE DEF v
<1>4. /\ \A d \in Client : pc'[d] = IF d = c THEN "finish" ELSE pc[d]
      /\ \A w \in Worker : w # v => state'[w] = state[w] /\ numExecs'[w] = numExecs[w]
      /\ state'[v] \in {"errored", "ready"} /\ numExecs'[v] = numExecs[v] + 1
      /\ \A w \in Worker : numExecs[w] \in Nat
  BY <1>1, <1>2, Zenon DEF TypeOK, ClientTypes, WorkerTypes
<1>5. Retired'
  <2>1. \A w \in Gone : state'[w] # "ready" BY <1>4, <1>10, GoneMembers, Zenon DEF Service, Retired
  <2>2. \A w \in Worker : state'[w] = "working" =>
          \E d \in Client : cw[d] = w /\ pc'[d] \in {"working", "replied"}
    BY <1>4, <1>10, <1>11 DEF Service, Retired
  <2> QED BY <1>1, <1>3, <2>1, <2>2, Zenon DEF Retired
<1>6. Discarded' BY <1>1, <1>3, Zenon DEF Service, Discarded
<1>7. JobsLeft'
  <2> SUFFICES ASSUME MaxJobs # 0
               PROVE  /\ \A w \in Worker : numExecs'[w] <= MaxJobs
                      /\ \A w \in Offered : numExecs'[w] < MaxJobs
                      /\ \A d \in Client : (cw[d] # NoWorker /\ pc'[d] # "finish") => numExecs'[cw[d]] < MaxJobs
    BY <1>1, <1>3, Zenon DEF JobsLeft
  <2>1. Offered \subseteq Worker BY QueuedWorkers, FreshBorn, Zenon DEF Offered
  <2>2. numExecs[v] < MaxJobs BY <1>1, <1>2, <1>11, WorkerShape, Zenon DEF Service, JobsLeft
  <2>3. \A w \in Worker : numExecs'[w] <= MaxJobs BY <1>4, <2>2, PoolAssumption DEF Service, JobsLeft
  <2>4. \A w \in Offered : numExecs'[w] < MaxJobs BY <1>4, <1>10, <2>1, Zenon DEF Service, JobsLeft
  <2>5. \A d \in Client : (cw[d] # NoWorker /\ pc'[d] # "finish") => numExecs'[cw[d]] < MaxJobs
    BY <1>4, <1>10 DEF Service, JobsLeft, TypeOK, ClientTypes
  <2> QED BY <2>3, <2>4, <2>5, Zenon
<1>8. Waited' BY <1>1, <1>2, <1>4, <1>11 DEF Service, Waited
<1>9. RemovedQuota'
  <2> SUFFICES ASSUME NEW w \in Worker, quota[w] # -1
               PROVE  /\ numExecs'[w] <= quota[w]
                      /\ \A d \in Client : Pending(d, w)' => numExecs'[w] < quota[w]
    BY <1>1, Zenon DEF Service, RemovedQuota
  <2>1. CASE w = v
    <3>1. Pending(c, v) BY <1>1, <1>11, Zenon DEF Pending
    <3>2. quota[v] \in Int BY <1>2 DEF TypeOK, EnvironmentTypes
    <3>3. \A d \in Client : ~Pending(d, w)' BY <1>1, <1>4, <1>10, <2>1 DEF Pending
    <3> QED BY <1>2, <1>4, <2>1, <3>1, <3>2, <3>3 DEF Service, RemovedQuota
  <2>2. CASE w # v
    <3>1. \A d \in Client : Pending(d, w)' => Pending(d, w) BY <1>1, <1>4, <1>11, <2>2 DEF Pending, Ready
    <3> QED BY <1>4, <2>2, <3>1, ZenonT(60) DEF Service, RemovedQuota
  <2> QED BY <2>1, <2>2, Zenon
<1> QED BY <1>5, <1>6, <1>7, <1>8, <1>9, Zenon DEF Service

\* The client drops its worker, which is not ready (AllocateDead) or marked invalid and discarded.
LEMMA DropService ==
  ASSUME Owned, Owned', Service, NEW c \in Client, cw[c] \in Worker,
         NEW to \in {"idle", "call", "select"}, pc' = [pc EXCEPT ![c] = to],
         cw' = [cw EXCEPT ![c] = NoWorker], pc[c] \notin {"working", "replied"},
         \A w \in Worker : w # cw[c] => state'[w] = state[w],
         state'[cw[c]] \in {state[cw[c]], "invalid"} /\ state'[cw[c]] # "ready",
         \A w \in Worker : dtor'["discard"][w] # "none" => dtor["discard"][w] # "none" \/ w = cw[c],
         UNCHANGED <<numExecs, proc, quota, remove, watch, free, npc, nw>>
  PROVE  Service'
<1> USE DEF Owned
<1> DEFINE v == cw[c]
<1>1. Offered' = Offered BY DEF Offered, Queued, Fresh
<1>2. /\ v \in Worker /\ v \notin Offered /\ v # NoWorker /\ proc[v] # "none"
      /\ \A d \in Client : cw[d] = v => d = c
  BY WorkerShape, Zenon DEF OneOwner, Offered, Lineage, Born
<1>3. v = cw[c] BY Zenon
<1> HIDE DEF v
<1>4. \A d \in Client : /\ pc'[d] = IF d = c THEN to ELSE pc[d]
                        /\ cw'[d] = IF d = c THEN NoWorker ELSE cw[d]
  BY DEF TypeOK, ClientTypes
<1>5. \A x : x \in Gone' <=> x \in Gone \/ x = v
  <2>1. \A x : x \in Gone' <=> /\ x \in Worker /\ proc'[x] # "none" /\ x \notin Offered'
                               /\ \A d \in Client : cw'[d] # x
    BY Zenon DEF Gone
  <2>2. \A x \in Worker : (\A d \in Client : cw'[d] # x) <=> (x = v \/ \A d \in Client : cw[d] # x)
    BY <1>2, <1>3, <1>4, WorkerShape
  <2> QED BY <1>1, <1>2, <2>1, <2>2, GoneMembers
<1>6. Retired'
  <2>1. state[v] # "working" BY <1>2, <1>3, Zenon DEF Service, Retired
  <2>2. \A w \in Gone' : state'[w] # "ready" BY <1>3, <1>5, GoneMembers DEF Service, Retired
  <2>3. \A w \in Worker : state'[w] = "working" =>
          \E d \in Client : cw'[d] = w /\ pc'[d] \in {"working", "replied"}
    BY <1>2, <1>3, <1>4, <2>1 DEF Service, Retired
  <2> QED BY <2>2, <2>3, Zenon DEF Retired
<1>7. Discarded' BY <1>3, <1>5, ZenonT(60) DEF Service, Discarded
<1>8. JobsLeft' BY <1>1, <1>4 DEF Service, JobsLeft
<1>9. Waited' BY <1>3, <1>4, WorkerShape DEF Service, Waited
<1>10. RemovedQuota'
  <2>1. \A d \in Client, w \in Worker : Pending(d, w)' => Pending(d, w)
    BY <1>2, <1>3, <1>4, WorkerShape DEF Pending, Ready
  <2> QED BY <2>1, ZenonT(60) DEF Service, RemovedQuota
<1> QED BY <1>6, <1>7, <1>8, <1>9, <1>10, ZenonT(60) DEF Service

\* allocateWorker receives a worker from p.free, release queues one.
LEMMA QueueService ==
  ASSUME Owned, Service, NEW c \in Client, NEW v \in Worker,
         \/ /\ cw[c] = NoWorker /\ v \in Offered /\ Offered' = Offered \ {v}
            /\ cw' = [cw EXCEPT ![c] = v] /\ pc' = [pc EXCEPT ![c] = "taken"]
         \/ /\ cw[c] = v /\ pc[c] = "push" /\ Offered' = Offered \cup {v}
            /\ cw' = [cw EXCEPT ![c] = NoWorker] /\ pc' = [pc EXCEPT ![c] = "idle"],
         UNCHANGED <<state, numExecs, proc, dtor, quota, remove, watch>>
  PROVE  Service'
<1> USE DEF Owned
<1> DEFINE to == IF cw[c] = v THEN "idle" ELSE "taken"
<1>1. /\ v # NoWorker
      /\ v \in Offered => \A d \in Client : cw[d] # v
      /\ cw[c] = v => v \notin Offered /\ \A d \in Client : cw[d] = v => d = c
  BY WorkerShape DEF OneOwner, Offered
<1>2. \A d \in Client : /\ pc'[d] = IF d = c THEN to ELSE pc[d]
                        /\ cw'[d] = IF d # c THEN cw[d] ELSE IF cw[c] = v THEN NoWorker ELSE v
  BY <1>1, Zenon DEF TypeOK, ClientTypes
<1>3. \A x : x \in Gone' <=> x \in Gone
  <2>1. \A x : x \in Gone' <=> /\ x \in Worker /\ proc'[x] # "none" /\ x \notin Offered'
                               /\ \A d \in Client : cw'[d] # x
    BY Zenon DEF Gone
  <2>2. \A x \in Worker : x # v => /\ x \in Offered' <=> x \in Offered
                                   /\ (\A d \in Client : cw'[d] # x) <=> (\A d \in Client : cw[d] # x)
    BY <1>1, <1>2, WorkerShape
  <2>3. v \notin Gone /\ v \notin Gone' BY <1>1, <1>2, <2>1, GoneMembers
  <2> QED BY <2>1, <2>2, <2>3, GoneMembers, Zenon
<1>4. pc[c] \notin {"working", "replied"}
  BY <1>1, Zenon DEF Control
<1>5. Retired' BY <1>2, <1>3, <1>4, WorkerShape DEF Service, Retired
<1>6. Discarded' BY <1>3, Zenon DEF Service, Discarded
<1>7. JobsLeft'
  <2> SUFFICES ASSUME MaxJobs # 0
               PROVE  /\ \A w \in Offered' : numExecs[w] < MaxJobs
                      /\ \A d \in Client : (cw'[d] # NoWorker /\ pc'[d] # "finish") => numExecs[cw'[d]] < MaxJobs
    BY Zenon DEF Service, JobsLeft
  <2>1. numExecs[v] < MaxJobs
    <3>1. CASE v \in Offered BY <3>1, Zenon DEF Service, JobsLeft
    <3>2. CASE cw[c] = v /\ pc[c] = "push" BY <1>1, <3>2, Zenon DEF Service, JobsLeft
    <3> QED BY <3>1, <3>2, Zenon
  <2>2. \A w \in Offered' : w \in Offered \/ w = v OBVIOUS
  <2>3. \A w \in Offered' : numExecs[w] < MaxJobs BY <2>1, <2>2, Zenon DEF Service, JobsLeft
  <2>4. ASSUME NEW d \in Client, cw'[d] # NoWorker, pc'[d] # "finish" PROVE numExecs[cw'[d]] < MaxJobs
    BY <1>2, <2>1, <2>4, Zenon DEF Service, JobsLeft
  <2> QED BY <2>3, <2>4, Zenon
<1>8. Waited' BY <1>2 DEF Service, Waited
<1>9. RemovedQuota'
  <2>1. \A d \in Client, w \in Worker : Pending(d, w)' => Pending(d, w)
    BY <1>2, WorkerShape, Zenon DEF Pending, Ready
  <2> QED BY <2>1, Zenon DEF Service, RemovedQuota
<1> QED BY <1>5, <1>6, <1>7, <1>8, <1>9, Zenon DEF Service

\* Remove stores the worker: its quota covers the job on its way.
LEMMA StoreService ==
  ASSUME Owned, Service, RemoveStore
  PROVE  Service'
<1> USE DEF Owned, workerVars, poolVars, clientVars, destroyVars, mainVars, ctlVars
<1>1. /\ ctlW \in Worker /\ remove' = remove \cup {ctlW}
      /\ quota' = [quota EXCEPT ![ctlW] = IF @ # -1 THEN @ ELSE numExecs[ctlW] + IF Engaged(ctlW) THEN 1 ELSE 0]
      /\ UNCHANGED <<state, numExecs, proc, dtor, watch, free, npc, nw, pc, cw>>
  BY Zenon DEF RemoveStore, Control
<1>2. Offered' = Offered /\ Gone' = Gone BY <1>1 DEF Offered, Gone, Queued, Fresh
<1>3. Retired' BY <1>1, <1>2, Zenon DEF Service, Retired
<1>4. Discarded' BY <1>1, <1>2, Zenon DEF Service, Discarded
<1>5. JobsLeft' BY <1>1, <1>2, Zenon DEF Service, JobsLeft
<1>6. Waited' BY <1>1, Zenon DEF Service, Waited
<1>7. RemovedQuota'
  <2> SUFFICES ASSUME NEW w \in Worker, quota'[w] # -1
               PROVE  /\ numExecs[w] <= quota'[w]
                      /\ w \in remove' \/ watch[w] \notin {"none", "wait", "detach"}
                      /\ \A c \in Client : Pending(c, w) => numExecs[w] < quota'[w]
    BY <1>1, Zenon DEF RemovedQuota, Pending, Ready
  <2>1. numExecs[w] \in Nat BY Zenon DEF TypeOK, WorkerTypes
  <2>2. CASE w = ctlW /\ quota[w] = -1
    <3>1. quota'[w] = numExecs[w] + IF Engaged(w) THEN 1 ELSE 0
      BY <1>1, <2>2, Zenon DEF TypeOK, EnvironmentTypes
    <3>2. \A c \in Client : Pending(c, w) => Engaged(w) BY Zenon DEF Pending, Engaged
    <3> QED BY <1>1, <2>1, <2>2, <3>1, <3>2
  <2>3. CASE w # ctlW \/ quota[w] # -1
    <3>1. quota'[w] = quota[w] BY <1>1, <2>3, Zenon DEF TypeOK, EnvironmentTypes
    <3> QED BY <1>1, <3>1, Zenon DEF Service, RemovedQuota
  <2> QED BY <2>2, <2>3, Zenon
<1> QED BY <1>3, <1>4, <1>5, <1>6, <1>7, Zenon DEF Service

\* The steps of Exec keep workers in service.
LEMMA ExecService ==
  ASSUME Owned, Owned', Service, NEW c \in Client, Invoke(c) \/ ExecStep(c)
  PROVE  Service'
<1> USE DEF workerVars, poolVars, clientVars, destroyVars, mainVars, ctlVars, Goto
<1>1. CASE \/ Invoke(c) \/ ExecEnter(c) \/ AllocateBegin(c) \/ AllocateBlock(c) \/ AllocateReady(c)
  <2>1. Proceeds(c)
    BY <1>1, Zenon DEF Proceeds, Invoke, ExecEnter, AllocateBegin, AllocateBlock, AllocateReady
  <2> QED BY <2>1, ProceedsService, Zenon
<1>2. CASE \/ AllocateAccept(c) \/ WorkerExecRefuse(c) \/ WorkerExecPayload(c) \/ ExecRelease(c)
  <2>1. Proceeds(c)
    BY <1>2, Zenon DEF Proceeds, AllocateAccept, WorkerExecRefuse, WorkerExecPayload, ExecRelease
  <2> QED BY <2>1, ProceedsService, Zenon
<1>3. CASE AllocateAllDead(c) \/ AllocateStopped(c) \/ AllocateTimeout(c)
  <2>1. /\ pc[c] \in {"alloc", "select", "select2"} /\ pc' = [pc EXCEPT ![c] = "idle"]
        /\ cw' = [cw EXCEPT ![c] = NoWorker]
        /\ UNCHANGED <<state, numExecs, proc, dtor, quota, remove, watch, free, npc, nw>>
    BY <1>3, Zenon DEF AllocateAllDead, AllocateStopped, AllocateTimeout, Return
  <2>2. cw' = cw BY <2>1 DEF Owned, TypeOK, ClientTypes, Control
  <2>3. Proceeds(c) BY <2>1, <2>2, Zenon DEF Proceeds
  <2> QED BY <2>3, ProceedsService, Zenon
<1>4. CASE Receive(c)
  <2>1. /\ free # <<>> /\ free' = Tail(free) /\ cw' = [cw EXCEPT ![c] = Head(free)] /\ cw[c] = NoWorker
        /\ pc' = [pc EXCEPT ![c] = "taken"]
        /\ UNCHANGED <<state, numExecs, proc, dtor, quota, remove, watch, npc, nw>>
    BY <1>4, Zenon DEF Receive, Owned, Control
  <2>2. Head(free) \in Worker /\ Head(free) \in Queued /\ Queued' = Queued \ {Head(free)}
    BY <2>1, QueuedPop, Zenon DEF Owned, OneOwner, Distinct
  <2>3. Head(free) \notin Fresh /\ Fresh' = Fresh BY <2>1, <2>2 DEF Owned, OneOwner, Fresh
  <2>4. Head(free) \in Offered /\ Offered' = Offered \ {Head(free)} BY <2>2, <2>3, Zenon DEF Offered
  <2> QED BY <2>1, <2>2, <2>4, QueueService, Zenon
<1>5. CASE AllocateDead(c)
  <2>1. cw[c] \in Worker BY <1>5, HolderHasWorker, Zenon DEF AllocateDead, Owned
  <2>2. /\ pc[c] = "taken" /\ pc' = [pc EXCEPT ![c] = "select"] /\ cw' = [cw EXCEPT ![c] = NoWorker]
        /\ state[cw[c]] # "ready" /\ UNCHANGED <<state, dtor>>
        /\ UNCHANGED <<numExecs, proc, quota, remove, watch, free, npc, nw>>
    BY <1>5, Zenon DEF AllocateDead, Ready
  <2>3. \A w \in Worker : /\ state'[w] = state[w] /\ dtor'["discard"][w] = dtor["discard"][w]
    BY <2>2, Zenon
  <2> QED BY <2>1, <2>2, <2>3, DropService, Zenon
<1>6. CASE AllocateReject(c) \/ ExecDiscard(c) \/ ExecRestart(c)
  <2>1. cw[c] \in Worker
    BY <1>6, HolderHasWorker, Zenon DEF AllocateReject, ExecDiscard, ExecRestart, Owned
  <2>2. /\ pc[c] \in {"check", "finish"} /\ cw' = [cw EXCEPT ![c] = NoWorker]
        /\ \E to \in {"idle", "call", "select"} : pc' = [pc EXCEPT ![c] = to]
        /\ state' = [state EXCEPT ![cw[c]] = "invalid"]
        /\ dtor' = [dtor EXCEPT !["discard"][cw[c]] = "select"]
        /\ UNCHANGED <<numExecs, proc, quota, remove, watch, free, npc, nw>>
    BY <1>6, Zenon DEF AllocateReject, ExecDiscard, ExecRestart, DiscardWorker, StartDestroy, Return
  <2>3. /\ state'[cw[c]] = "invalid" /\ \A w \in Worker : w # cw[c] => state'[w] = state[w]
        /\ \A w \in Worker : dtor'["discard"][w] = IF w = cw[c] THEN "select" ELSE dtor["discard"][w]
    BY <2>1, <2>2 DEF Owned, TypeOK, WorkerTypes, GoroutineTypes, Cause
  <2>4. PICK to \in {"idle", "call", "select"} : pc' = [pc EXCEPT ![c] = to]
    BY <2>2, Zenon
  <2>5. \A w \in Worker : dtor'["discard"][w] # "none" => dtor["discard"][w] # "none" \/ w = cw[c]
    BY <2>3, Zenon
  <2>6. state'[cw[c]] \in {state[cw[c]], "invalid"} /\ state'[cw[c]] # "ready" BY <2>3, Zenon
  <2> QED BY <2>1, <2>2, <2>3, <2>4, <2>5, <2>6, DropService, Zenon
<1>7. CASE WorkerExecBegin(c) BY <1>7, BeginService, Zenon
<1>8. CASE WorkerExecEnd(c) BY <1>8, EndService, Zenon
<1>9. CASE ReleasePush(c)
  <2>1. cw[c] \in Worker BY <1>9, HolderHasWorker, Zenon DEF ReleasePush, Owned
  <2>2. cw[c] \notin Queued /\ cw[c] \notin Fresh BY <2>1, WorkerShape, Zenon DEF Owned, OneOwner
  <2>3. /\ pc[c] = "push" /\ pc' = [pc EXCEPT ![c] = "idle"]
        /\ free' = Append(free, cw[c]) /\ Len(free) < NumWorkers /\ cw' = [cw EXCEPT ![c] = NoWorker]
        /\ UNCHANGED <<state, numExecs, proc, dtor, quota, remove, watch, npc, nw>>
    BY <1>9, Zenon DEF ReleasePush, Return
  <2>4. Queued' = Queued \cup {cw[c]} BY <2>1, <2>2, <2>3, QueuedPush, Zenon DEF Owned, OneOwner, Distinct
  <2>5. Fresh' = Fresh BY <2>3, Zenon DEF Fresh
  <2>6. Offered' = Offered \cup {cw[c]} BY <2>4, <2>5, Zenon DEF Offered
  <2> QED BY <2>1, <2>3, <2>6, QueueService, Zenon
<1> QED BY <1>1, <1>2, <1>3, <1>4, <1>5, <1>6, <1>7, <1>8, <1>9 DEF ExecStep, AllocateStep

\* A step that spawns nothing and changes no client's worker offers no other workers than before.
LEMMA SameOffered ==
  ASSUME Owned, Moved, cw' = cw, SameBorn
  PROVE  Offered' = Offered
<1> USE DEF Owned
<1>1. CASE Stay BY <1>1, Zenon DEF Stay, Offered
<1>2. ASSUME NEW w \in Worker, Hired(w) PROVE Offered' = Offered
  BY <1>2, Zenon DEF Hired, SameBorn
<1>3. ASSUME NEW w \in Worker, Enqueued(w) PROVE Offered' = Offered
  BY <1>3, Zenon DEF Enqueued, Offered
<1>4. ASSUME NEW c \in Client, Returned(c) PROVE Offered' = Offered
  <2>1. cw'[c] = NoWorker BY <1>4, Zenon DEF Returned, TypeOK, ClientTypes
  <2> QED BY <1>4, <2>1, WorkerShape, Zenon DEF Returned
<1>5. ASSUME NEW c \in Client, Dropped(c) PROVE Offered' = Offered
  BY <1>5, Zenon DEF Dropped, Offered
<1>6. ASSUME NEW c \in Client, NEW w \in Worker, Taken(c, w) PROVE Offered' = Offered
  <2>1. cw'[c] = w BY <1>6, Zenon DEF Taken, TypeOK, ClientTypes
  <2> QED BY <1>6, <2>1, WorkerShape, Zenon DEF Taken
<1> QED BY <1>1, <1>2, <1>3, <1>4, <1>5, <1>6, Zenon DEF Moved

\* A step that spawns a worker offers it and changes nothing else about who has which worker.
LEMMA SpawnOffers ==
  ASSUME Owned, Moved, NEW h \in Worker, proc[h] = "none", Spawn(h)
  PROVE  Offered' = Offered \cup {h}
<1>1. proc'[h] # "none" BY Zenon DEF Spawn, Owned, TypeOK, WorkerTypes
<1>2. ~SameBorn BY <1>1, Zenon DEF SameBorn
<1>3. PICK w \in Worker : Hired(w)
  BY <1>2, Zenon DEF Moved, Stay, Enqueued, Returned, Dropped, Taken
<1>4. w = h BY <1>1, <1>3, Zenon DEF Hired
<1> QED BY <1>3, <1>4, Zenon DEF Hired, Offered

\* The steps of watchWorker keep workers in service.
LEMMA WatchService ==
  ASSUME Owned, Moved, Service, NEW w \in Worker, WatchStep(w)
  PROVE  Service'
<1> USE DEF Owned, workerVars, poolVars, clientVars, destroyVars, mainVars, ctlVars, Watch
<1>1. ASSUME UNCHANGED <<proc, cw, pc, numExecs, quota, dtor>>,
             \A v \in Worker :
               /\ state'[v] \in {state[v], "invalid", "stopping", "stopped", "errored"}
               /\ watch'[v] \notin {"none", "wait"} =>
                    \/ watch[v] \notin {"none", "wait"}
                    \/ MuFree(v) /\ state'[v] \in {"stopped", "errored"}
               /\ (v \in remove \/ watch[v] \notin {"none", "wait", "detach"}) =>
                    (v \in remove' \/ watch'[v] \notin {"none", "wait", "detach"})
      PROVE  Service'
  <2>1. SameBorn /\ SameDiscards BY <1>1, Zenon DEF SameBorn, SameDiscards
  <2>2. Offered' = Offered BY <1>1, <2>1, SameOffered, Zenon
  <2> QED BY <1>1, <2>1, <2>2, BehindService, Zenon DEF Behind
<1>2. CASE WatchWait(w)
  <2>1. /\ watch[w] = "wait" /\ watch' = [watch EXCEPT ![w] = "detach"] /\ MuFree(w)
        /\ state' = [state EXCEPT ![w] = IF proc[w] = "exit0" \/ @ = "stopping" THEN "stopped" ELSE "errored"]
        /\ UNCHANGED <<proc, cw, pc, numExecs, quota, dtor, remove>>
    BY <1>2, Zenon DEF WatchWait
  <2>2. \A v \in Worker : /\ watch'[v] = IF v = w THEN "detach" ELSE watch[v]
                          /\ v # w => state'[v] = state[v]
                          /\ state'[w] \in {"stopped", "errored"}
    BY <2>1, Zenon DEF TypeOK, GoroutineTypes, WorkerTypes
  <2> QED BY <1>1, <2>1, <2>2
<1>3. CASE WatchDetach(w)
  <2>1. /\ watch[w] = "detach" /\ watch' = [watch EXCEPT ![w] = "count"] /\ remove' = remove \ {w}
        /\ UNCHANGED <<state, proc, cw, pc, numExecs, quota, dtor>>
    BY <1>3, Zenon DEF WatchDetach
  <2>2. \A v \in Worker : watch'[v] = IF v = w THEN "count" ELSE watch[v]
    BY <2>1, Zenon DEF TypeOK, GoroutineTypes
  <2> QED BY <1>1, <2>1, <2>2
<1>4. CASE WatchCount(w) \/ WatchCheck(w) \/ WatchSpawnFail(w) \/ WatchPush(w)
  <2>1. /\ watch[w] \in {"count", "check", "spawn", "push"}
        /\ \E to \in {"check", "done", "spawn"} : watch' = [watch EXCEPT ![w] = to]
        /\ UNCHANGED <<state, proc, cw, pc, numExecs, quota, dtor, remove>>
    BY <1>4, Zenon DEF WatchCount, WatchCheck, WatchSpawnFail, WatchPush
  <2>2. \A v \in Worker : /\ v # w => watch'[v] = watch[v]
                          /\ watch'[w] \in {"check", "done", "spawn"}
    BY <2>1, Zenon DEF TypeOK, GoroutineTypes
  <2> QED BY <1>1, <2>1, <2>2, Zenon
<1>5. CASE WatchList(w)
  <2>1. watch[Heir(w)] = "none" /\ Heir(w) \in Worker /\ Heir(w) # w BY <1>5, WatchListLineage, Zenon
  <2>2. /\ watch[w] = "list" /\ watch' = [watch EXCEPT ![w] = "push", ![Heir(w)] = "wait"]
        /\ UNCHANGED <<state, proc, cw, pc, numExecs, quota, dtor, remove>>
    BY <1>5, Zenon DEF WatchList
  <2>3. \A v \in Worker : watch'[v] = IF v = w THEN "push" ELSE IF v = Heir(w) THEN "wait" ELSE watch[v]
    BY <2>1, <2>2, Zenon DEF TypeOK, GoroutineTypes
  <2>4. \A v \in Worker :
          /\ watch'[v] \notin {"none", "wait"} => watch[v] \notin {"none", "wait"}
          /\ watch[v] \notin {"none", "wait", "detach"} => watch'[v] \notin {"none", "wait", "detach"}
    <3> TAKE v \in Worker
    <3>1. CASE v = w
      <4>1. watch[v] = "list" /\ watch'[v] = "push" BY <2>2, <2>3, <3>1, Zenon
      <4> QED BY <4>1, Zenon
    <3>2. CASE v # w /\ v = Heir(w) BY <2>1, <2>3, <3>2, Zenon
    <3>3. CASE v # w /\ v # Heir(w) BY <2>3, <3>3, Zenon
    <3> QED BY <3>1, <3>2, <3>3, Zenon
  <2> QED BY <1>1, <2>2, <2>4, Zenon
<1>6. CASE WatchSpawn(w)
  <2>1. proc[Heir(w)] = "none" /\ Heir(w) \in Worker BY <1>6, WatchSpawnLineage, Zenon
  <2>2. /\ watch[w] = "spawn" /\ watch' = [watch EXCEPT ![w] = "list"] /\ Spawn(Heir(w))
        /\ UNCHANGED <<pc, cw, dtor, quota, remove>>
    BY <1>6, Zenon DEF WatchSpawn
  <2>3. \A v \in Worker : watch'[v] = IF v = w THEN "list" ELSE watch[v]
    BY <2>2, Zenon DEF TypeOK, GoroutineTypes
  <2>4. Offered' = Offered \cup {Heir(w)} BY <2>1, <2>2, SpawnOffers, Zenon
  <2> QED BY <2>1, <2>2, <2>3, <2>4, HireService
<1> QED BY <1>2, <1>3, <1>4, <1>5, <1>6, Zenon DEF WatchStep

\* The steps of NewPool keep workers in service.
LEMMA NewPoolService ==
  ASSUME Owned, Moved, Service, NewPool
  PROVE  Service'
<1> USE DEF Owned, workerVars, poolVars, clientVars, destroyVars, mainVars, ctlVars
<1>1. CASE NewPoolCreate
  <2>1. PICK s \in Slot : proc[<<s, 1>>] = "none" /\ Spawn(<<s, 1>>)
    BY <1>1, Zenon DEF NewPoolCreate, Unfilled
  <2>2. <<s, 1>> \in Worker BY FirstWorker, Zenon
  <2>3. UNCHANGED <<pc, cw, dtor, quota, remove, watch>> BY <1>1, Zenon DEF NewPoolCreate
  <2>4. Offered' = Offered \cup {<<s, 1>>} BY <2>1, <2>2, SpawnOffers, Zenon
  <2> QED BY <2>1, <2>2, <2>3, <2>4, HireService, Zenon
<1>2. CASE NewPoolFail \/ NewPoolList \/ NewPoolPush
  <2>1. /\ UNCHANGED <<proc, cw, pc, numExecs, quota, dtor, remove, state>>
        /\ \/ watch' = watch
           \/ nw \in Worker /\ watch[nw] = "none" /\ watch' = [watch EXCEPT ![nw] = "wait"]
    BY <1>2, Zenon DEF NewPoolFail, NewPoolList, NewPoolPush, Control, Lineage, Creating
  <2>2. SameBorn /\ SameDiscards BY <2>1, Zenon DEF SameBorn, SameDiscards
  <2>3. Offered' = Offered BY <2>1, <2>2, SameOffered, Zenon
  <2>4. \A v \in Worker : watch'[v] = watch[v] \/ (watch[v] = "none" /\ watch'[v] = "wait")
    BY <2>1, Zenon DEF TypeOK, GoroutineTypes
  <2> QED BY <2>1, <2>2, <2>3, <2>4, BehindService, Zenon DEF Behind
<1> QED BY <1>1, <1>2, Zenon DEF NewPool

\* Every other step is taken behind the calls, or is a Remove.
LEMMA BackgroundService ==
  ASSUME Owned, Moved, Service,
         \/ DestroyCall \/ Destroy \/ Controller
         \/ \E w \in Worker : RemoveCheck(w) \/ Crash(w) \/ ObeyStop(w) \/ Reap(w)
         \/ \E k \in Cause, w \in Worker : DestroyWorkerStep(k, w)
  PROVE  Service'
<1> USE DEF Owned, workerVars, poolVars, clientVars, destroyVars, mainVars, ctlVars
<1>1. ASSUME UNCHANGED <<cw, pc, numExecs, quota, watch, remove>>, SameBorn, SameDiscards,
             \A v \in Worker : state'[v] \in {state[v], "invalid", "stopping", "stopped", "errored"}
      PROVE  Service'
  <2>1. Offered' = Offered BY <1>1, SameOffered, Zenon
  <2> QED BY <1>1, <2>1, BehindService, Zenon DEF Behind
<1>2. CASE DestroyCall \/ DestroyBegin \/ DestroyLock \/ DestroyClose
  <2>1. UNCHANGED <<cw, pc, numExecs, quota, watch, remove, proc, dtor, state>>
    BY <1>2, Zenon DEF DestroyCall, DestroyBegin, DestroyLock, DestroyClose
  <2> QED BY <1>1, <2>1, Zenon DEF SameBorn, SameDiscards
<1>3. CASE DestroyList \/ DestroyMarked \/ DestroyJoin
  <2>1. UNCHANGED <<cw, pc, numExecs, quota, watch, remove, proc, dtor, state>>
    BY <1>3, Zenon DEF DestroyList, DestroyMarked, DestroyJoin
  <2> QED BY <1>1, <2>1, Zenon DEF SameBorn, SameDiscards
<1>4. CASE DestroyMark
  <2>1. PICK w \in snap : state' = [state EXCEPT ![w] = "invalid"] /\ StartDestroy("destroy", w)
    BY <1>4, Zenon DEF DestroyMark
  <2>2. SameDiscards BY <2>1, Zenon DEF SameDiscards, StartDestroy, TypeOK, GoroutineTypes, Cause
  <2>3. UNCHANGED <<cw, pc, numExecs, quota, watch, remove, proc>> BY <1>4, Zenon DEF DestroyMark
  <2>4. \A v \in Worker : state'[v] \in {state[v], "invalid"} BY <2>1, Zenon DEF TypeOK, WorkerTypes
  <2> QED BY <1>1, <2>2, <2>3, <2>4, Zenon DEF SameBorn
<1>5. CASE RemoveStore BY <1>5, StoreService, Zenon
<1>6. CASE RemoveLoad \/ ControllerKillTest \/ ControllerDone
  <2>1. UNCHANGED <<cw, pc, numExecs, quota, watch, remove, proc, dtor, state>>
    BY <1>6, Zenon DEF RemoveLoad, ControllerKillTest, ControllerDone
  <2> QED BY <1>1, <2>1, Zenon DEF SameBorn, SameDiscards
<1>7. ASSUME NEW w \in Worker, Kill(w), UNCHANGED <<cw, pc, quota, watch, remove>>, SameDiscards
      PROVE  Service'
  <2>1. SameBorn BY <1>7, ExitBorn, Zenon DEF Kill
  <2>2. \A v \in Worker : state'[v] \in {state[v], "stopping"} BY <1>7, Zenon DEF Kill, TypeOK, WorkerTypes
  <2>3. numExecs' = numExecs BY <1>7, Zenon DEF Kill
  <2> QED BY <1>1, <1>7, <2>1, <2>2, <2>3, Zenon
<1>8. CASE ControllerKill
  <2>1. ctlW \in Worker /\ Kill(ctlW) BY <1>8, Zenon DEF ControllerKill, Control
  <2>2. UNCHANGED <<cw, pc, quota, watch, remove, dtor>> BY <1>8, Zenon DEF ControllerKill
  <2> QED BY <1>7, <2>1, <2>2, Zenon DEF SameDiscards
<1>9. ASSUME NEW w \in Worker, RemoveCheck(w) \/ Reap(w) PROVE Service'
  <2>1. UNCHANGED <<cw, pc, numExecs, quota, watch, remove, proc, dtor, state>>
    BY <1>9, Zenon DEF RemoveCheck, Reap
  <2> QED BY <1>1, <2>1, Zenon DEF SameBorn, SameDiscards
<1>10. ASSUME NEW w \in Worker, Crash(w) \/ ObeyStop(w) PROVE Service'
  <2>1. Exit(w, "exit0") \/ Exit(w, "exit1") BY <1>10, Zenon DEF Crash, ObeyStop
  <2>2. SameBorn BY <2>1, ExitBorn, Zenon
  <2>3. UNCHANGED <<cw, pc, numExecs, quota, watch, remove, dtor, state>> BY <1>10, Zenon DEF Crash, ObeyStop
  <2> QED BY <1>1, <2>2, <2>3, Zenon DEF SameDiscards
<1>11. ASSUME NEW k \in Cause, NEW w \in Worker, DestroyWorkerStep(k, w) PROVE Service'
  <2>1. CASE StopTest(k, w)
    <3>1. UNCHANGED <<cw, pc, numExecs, quota, watch, remove, proc, dtor, state>> BY <2>1, Zenon DEF StopTest
    <3> QED BY <1>1, <3>1, Zenon DEF SameBorn, SameDiscards
  <2>2. CASE Stop(k, w)
    <3>1. UNCHANGED <<cw, pc, numExecs, quota, watch, remove, proc, dtor>> BY <2>2, Zenon DEF Stop
    <3>2. \A v \in Worker : state'[v] \in {state[v], "stopping"} BY <2>2, Zenon DEF Stop, TypeOK, WorkerTypes
    <3> QED BY <1>1, <3>1, <3>2, Zenon DEF SameBorn, SameDiscards
  <2>3. ASSUME dtor[k][w] # "none", NEW to \in {"kill", "killed"}, dtor' = [dtor EXCEPT ![k][w] = to]
        PROVE  SameDiscards
    BY <1>11, <2>3, Zenon DEF SameDiscards, TypeOK, GoroutineTypes, Cause
  <2>4. CASE DestroyTimeout(k, w)
    <3>1. UNCHANGED <<cw, pc, numExecs, quota, watch, remove, proc, state>> BY <2>4, Zenon DEF DestroyTimeout
    <3>2. SameDiscards BY <2>3, <2>4, Zenon DEF DestroyTimeout
    <3> QED BY <1>1, <3>1, <3>2, Zenon DEF SameBorn
  <2>5. CASE DestroyKill(k, w)
    <3>1. Kill(w) /\ UNCHANGED <<cw, pc, quota, watch, remove>> BY <2>5, Zenon DEF DestroyKill
    <3>2. SameDiscards BY <2>3, <2>5, Zenon DEF DestroyKill
    <3> QED BY <1>7, <3>1, <3>2, Zenon
  <2> QED BY <1>11, <2>1, <2>2, <2>4, <2>5, Zenon DEF DestroyWorkerStep
<1> QED BY <1>2, <1>3, <1>4, <1>5, <1>6, <1>8, <1>9, <1>10, <1>11 DEF Destroy, Controller

\* Every step keeps workers in service.
LEMMA NextService ==
  ASSUME Owned, Owned', Service, [Next]_vars
  PROVE  Service'
<1>1. Moved BY NextMoves, Zenon DEF Owned
<1>2. CASE UNCHANGED vars
  <2>1. Offered' = Offered /\ Gone' = Gone
    BY <1>2, ZenonT(60) DEF vars, workerVars, poolVars, clientVars, mainVars, Offered, Gone, Queued, Fresh
  <2> QED BY <1>2, <2>1, SMTT(30) DEF vars, workerVars, poolVars, clientVars, destroyVars, ctlVars,
            Service, Retired, Discarded, JobsLeft, Waited, RemovedQuota, Pending, Ready
<1>3. CASE NewPool BY <1>1, <1>3, NewPoolService, Zenon
<1>4. ASSUME NEW c \in Client, Invoke(c) \/ ExecStep(c) PROVE Service'
  BY <1>4, ExecService, Zenon
<1>5. ASSUME NEW w \in Worker, WatchStep(w) PROVE Service'
  BY <1>1, <1>5, WatchService, Zenon
<1>6. CASE \/ DestroyCall \/ Destroy \/ Controller
           \/ \E w \in Worker : RemoveCheck(w) \/ Crash(w) \/ ObeyStop(w) \/ Reap(w)
           \/ \E k \in Cause, w \in Worker : DestroyWorkerStep(k, w)
  BY <1>1, <1>6, BackgroundService, Zenon
<1> QED BY <1>2, <1>3, <1>4, <1>5, <1>6, Zenon DEF Next

\* Workers are in service as Service says, in every state of the pool.
LEMMA SpecService == Spec => []Service
<1>1. Owned /\ Owned' /\ Service /\ [Next]_vars => Service' BY NextService, Zenon
<1> QED BY <1>1, InitService, SpecOwned, PTL DEF Spec

\* No worker ever serves more than MaxJobs executions.
THEOREM JobsAreBounded == Spec => []MaxJobsRespected
<1>1. Service => MaxJobsRespected BY Zenon DEF Service, JobsLeft, MaxJobsRespected
<1> QED BY <1>1, SpecService, PTL

\* A worker taken out of service stays out.
THEOREM RemovedStaysOut == Spec => []OutOfService
<1>1. Owned /\ Service => OutOfService
  <2> SUFFICES ASSUME Owned, Service PROVE OutOfService
    BY Zenon
  <2>1. RemovedServesNoNewJob BY Zenon DEF Service, RemovedQuota, RemovedServesNoNewJob
  <2>2. DiscardIsFinal
    <3> SUFFICES ASSUME NEW w \in Worker, w \in Gone
                 PROVE  /\ state[w] \notin {"ready", "working"} /\ w \notin Queued
                        /\ \A c \in Client : cw[c] # w
      BY Zenon DEF Service, Discarded, DiscardIsFinal
    <3> QED BY GoneMembers DEF Service, Retired, Offered
  <2> QED BY <2>1, <2>2, Zenon DEF OutOfService
<1> QED BY <1>1, SpecOwned, SpecService, PTL
-----------------------------------------------------------------------------
(* Dead workers and dead pools *)

(* A worker that was spawned but has no watcher yet is the one its creator is about to list. *)
Unlisted ==
  \A w \in Worker : (proc[w] # "none" /\ watch[w] = "none") =>
    \/ npc = "list" /\ w = nw
    \/ \E v \in Worker : watch[v] = "list" /\ w = Heir(v)

(* p.workers holds only workers whose watcher has not taken them out. *)
Listed == \A w \in workers : watch[w] \in {"wait", "detach"}

(* Some watcher before the push of a replacement. *)
Replacing == \E w \in Worker : watch[w] \in {"wait", "detach", "count", "check", "spawn", "list"}

(* Until EventPoolError is thrown or Destroy begins, some worker is watched or being replaced. *)
Guarded == (npc \in {"push", "up"} /\ ~inDestroy /\ ~poolError) => Replacing

Watchers == Unlisted /\ Listed /\ Guarded

\* Nothing is listed at first.
LEMMA InitWatchers == Init => Watchers
BY Zenon DEF Init, Watchers, Unlisted, Listed, Guarded

\* A step that spawns, lists and reports nothing keeps the watchers.
LEMMA IdleWatchers ==
  ASSUME Owned, Watchers, UNCHANGED <<watch, workers, npc, nw, poolError>>, SameBorn, inDestroy => inDestroy'
  PROVE  Watchers'
<1>1. Unlisted' BY Zenon DEF Watchers, Unlisted, SameBorn
<1>2. Listed' BY Zenon DEF Watchers, Listed
<1>3. Guarded' BY Zenon DEF Watchers, Guarded, Replacing
<1> QED BY <1>1, <1>2, <1>3, Zenon DEF Watchers

\* The steps of NewPool keep the watchers.
LEMMA NewPoolWatchers ==
  ASSUME Owned, Watchers, NewPool
  PROVE  Watchers'
<1> USE DEF Owned, workerVars, poolVars, clientVars, destroyVars, mainVars, ctlVars
<1>1. CASE NewPoolCreate
  <2>1. PICK s \in Slot : Spawn(<<s, 1>>) /\ nw' = <<s, 1>>
    BY <1>1, Zenon DEF NewPoolCreate, Unfilled
  <2>2. /\ npc = "create" /\ npc' = "list" /\ UNCHANGED <<watch, workers, inDestroy, poolError>>
    BY <1>1, Zenon DEF NewPoolCreate
  <2>3. \A w \in Worker : proc'[w] # "none" => proc[w] # "none" \/ w = nw'
    BY <2>1, Zenon DEF Spawn, TypeOK, WorkerTypes
  <2>4. Unlisted' BY <2>2, <2>3, Zenon DEF Watchers, Unlisted
  <2> QED BY <2>2, <2>4, Zenon DEF Watchers, Listed, Guarded
<1>2. CASE NewPoolFail
  <2>1. npc = "create" /\ npc' = "failed" /\ UNCHANGED <<proc, watch, workers>>
    BY <1>2, Zenon DEF NewPoolFail
  <2> QED BY <2>1, Zenon DEF Watchers, Unlisted, Listed, Guarded
<1>3. CASE NewPoolList
  <2>1. /\ npc = "list" /\ npc' = "push" /\ nw \in Worker /\ workers' = workers \cup {nw}
        /\ watch' = [watch EXCEPT ![nw] = "wait"] /\ UNCHANGED <<proc, nw>>
        /\ watch[nw] = "none"
    BY <1>3, Zenon DEF NewPoolList, Control, Lineage, Creating
  <2>2. \A w \in Worker : watch'[w] = IF w = nw THEN "wait" ELSE watch[w]
    BY <2>1, Zenon DEF TypeOK, GoroutineTypes
  <2>3. Unlisted' BY <2>1, <2>2 DEF Watchers, Unlisted
  <2>4. Listed' BY <2>1, <2>2, Zenon DEF Watchers, Listed, TypeOK, PoolTypes
  <2>5. Guarded' BY <2>1, <2>2, Zenon DEF Guarded, Replacing
  <2> QED BY <2>3, <2>4, <2>5, Zenon DEF Watchers
<1>4. CASE NewPoolPush
  <2>1. npc = "push" /\ npc' \in {"up", "create"} /\ UNCHANGED <<proc, watch, workers, inDestroy, poolError>>
    BY <1>4, Zenon DEF NewPoolPush
  <2>2. Unlisted' BY <2>1, Zenon DEF Watchers, Unlisted
  <2> QED BY <2>1, <2>2, Zenon DEF Watchers, Listed, Guarded, Replacing
<1> QED BY <1>1, <1>2, <1>3, <1>4, Zenon DEF NewPool

\* The steps of watchWorker keep the watchers: one that gives up leaves another or reports.
LEMMA WatchWatchers ==
  ASSUME Owned, Watchers, NEW w \in Worker, WatchStep(w)
  PROVE  Watchers'
<1> USE DEF Owned, workerVars, poolVars, clientVars, destroyVars, mainVars, ctlVars, Watch
<1>1. ASSUME NEW to \in {"detach", "count", "check", "spawn"}, watch' = [watch EXCEPT ![w] = to],
             watch[w] \in {"wait", "detach", "count", "check"}, w \in workers' => to = "detach", workers' \subseteq workers,
             UNCHANGED <<proc, npc, nw, inDestroy, poolError>>
      PROVE  Watchers'
  <2>1. \A v \in Worker : watch'[v] = IF v = w THEN to ELSE watch[v]
    BY <1>1, Zenon DEF TypeOK, GoroutineTypes
  <2>2. Unlisted' BY <1>1, <2>1 DEF Watchers, Unlisted
  <2>3. Listed' BY <1>1, <2>1, Zenon DEF Watchers, Listed, TypeOK, PoolTypes
  <2>4. Guarded' BY <1>1, <2>1, Zenon DEF Guarded, Replacing
  <2> QED BY <2>2, <2>3, <2>4, Zenon DEF Watchers
<1>2. CASE WatchWait(w) BY <1>1, <1>2, Zenon DEF WatchWait
<1>3. CASE WatchDetach(w) BY <1>1, <1>3, Zenon DEF WatchDetach
<1>4. CASE WatchCount(w)
  <2>1. w \notin workers BY <1>4, Zenon DEF WatchCount, Watchers, Listed
  <2> QED BY <1>1, <1>4, <2>1, Zenon DEF WatchCount
<1>5. CASE WatchCheck(w)
  <2>1. w \notin workers BY <1>5, Zenon DEF WatchCheck, Watchers, Listed
  <2>2. CASE ~inDestroy BY <1>1, <1>5, <2>1, <2>2, Zenon DEF WatchCheck
  <2>3. CASE inDestroy
    <3>1. /\ watch[w] = "check" /\ watch' = [watch EXCEPT ![w] = "done"]
          /\ UNCHANGED <<proc, npc, nw, inDestroy, poolError, workers>>
      BY <1>5, <2>3, Zenon DEF WatchCheck
    <3>2. \A v \in Worker : watch'[v] = IF v = w THEN "done" ELSE watch[v]
      BY <3>1, Zenon DEF TypeOK, GoroutineTypes
    <3>3. Unlisted' BY <3>1, <3>2 DEF Watchers, Unlisted
    <3>4. Listed' BY <2>1, <3>1, <3>2, Zenon DEF Watchers, Listed, TypeOK, PoolTypes
    <3> QED BY <2>3, <3>1, <3>3, <3>4, Zenon DEF Watchers, Guarded
  <2> QED BY <2>2, <2>3, Zenon DEF TypeOK, PoolTypes
<1>6. CASE WatchSpawn(w)
  <2>1. proc[Heir(w)] = "none" /\ Heir(w) \in Worker BY <1>6, WatchSpawnLineage, Zenon
  <2>2. /\ watch[w] = "spawn" /\ watch' = [watch EXCEPT ![w] = "list"] /\ Spawn(Heir(w))
        /\ UNCHANGED <<workers, npc, nw, inDestroy, poolError>>
    BY <1>6, Zenon DEF WatchSpawn
  <2>3. /\ \A v \in Worker : watch'[v] = IF v = w THEN "list" ELSE watch[v]
        /\ \A v \in Worker : proc'[v] # "none" => proc[v] # "none" \/ v = Heir(w)
    BY <2>2, ZenonT(60) DEF TypeOK, GoroutineTypes, WorkerTypes, Spawn
  <2>4. Unlisted' BY <2>2, <2>3 DEF Watchers, Unlisted
  <2>5. Listed' BY <2>2, <2>3, Zenon DEF Watchers, Listed, TypeOK, PoolTypes
  <2>6. Guarded' BY <2>3, Zenon DEF Guarded, Replacing
  <2> QED BY <2>4, <2>5, <2>6, Zenon DEF Watchers
<1>7. CASE WatchSpawnFail(w)
  <2>1. /\ watch[w] = "spawn" /\ watch' = [watch EXCEPT ![w] = "done"] /\ poolError' = (poolError \/ workers = {})
        /\ UNCHANGED <<proc, workers, npc, nw, inDestroy>>
    BY <1>7, Zenon DEF WatchSpawnFail
  <2>2. \A v \in Worker : watch'[v] = IF v = w THEN "done" ELSE watch[v]
    BY <2>1, Zenon DEF TypeOK, GoroutineTypes
  <2>3. Unlisted' BY <2>1, <2>2 DEF Watchers, Unlisted
  <2>4. Listed' BY <2>1, <2>2, Zenon DEF Watchers, Listed, TypeOK, PoolTypes
  <2>5. Guarded'
    <3>1. CASE workers = {} BY <2>1, <3>1, Zenon DEF Guarded
    <3>2. ASSUME NEW v \in workers PROVE Replacing'
      BY <2>1, <2>2, <3>2, Zenon DEF Watchers, Listed, Replacing, TypeOK, PoolTypes
    <3> QED BY <3>1, <3>2, Zenon DEF Guarded
  <2> QED BY <2>3, <2>4, <2>5, Zenon DEF Watchers
<1>8. CASE WatchList(w)
  <2>1. watch[Heir(w)] = "none" /\ Heir(w) \in Worker /\ Heir(w) # w BY <1>8, WatchListLineage, Zenon
  <2>2. /\ watch[w] = "list" /\ watch' = [watch EXCEPT ![w] = "push", ![Heir(w)] = "wait"]
        /\ workers' = workers \cup {Heir(w)} /\ UNCHANGED <<proc, npc, nw>>
    BY <1>8, Zenon DEF WatchList
  <2>3. \A v \in Worker : watch'[v] = IF v = w THEN "push" ELSE IF v = Heir(w) THEN "wait" ELSE watch[v]
    BY <2>1, <2>2, Zenon DEF TypeOK, GoroutineTypes
  <2>4. Unlisted'
    <3> SUFFICES ASSUME NEW x \in Worker, proc[x] # "none", watch'[x] = "none"
                 PROVE  \/ npc = "list" /\ x = nw
                        \/ \E v \in Worker : watch'[v] = "list" /\ x = Heir(v)
      BY <2>2, Zenon DEF Unlisted
    <3>1. watch[x] = "none" /\ x # Heir(w) BY <2>3, Zenon
    <3>2. ASSUME NEW v \in Worker, watch[v] = "list", x = Heir(v) PROVE watch'[v] = "list"
      BY <2>1, <2>3, <3>1, <3>2, Zenon
    <3> QED BY <3>1, <3>2, Zenon DEF Watchers, Unlisted
  <2>5. Listed' BY <2>1, <2>2, <2>3, Zenon DEF Watchers, Listed, TypeOK, PoolTypes
  <2>6. Guarded' BY <2>1, <2>3 DEF Guarded, Replacing
  <2> QED BY <2>4, <2>5, <2>6, Zenon DEF Watchers
<1>9. CASE WatchPush(w)
  <2>1. /\ watch[w] = "push" /\ watch' = [watch EXCEPT ![w] = "done"]
        /\ UNCHANGED <<proc, workers, npc, nw, inDestroy, poolError>>
    BY <1>9, Zenon DEF WatchPush
  <2>2. \A v \in Worker : watch'[v] = IF v = w THEN "done" ELSE watch[v]
    BY <2>1, Zenon DEF TypeOK, GoroutineTypes
  <2>3. Unlisted' BY <2>1, <2>2 DEF Watchers, Unlisted
  <2>4. Listed' BY <2>1, <2>2, Zenon DEF Watchers, Listed, TypeOK, PoolTypes
  <2>5. Guarded' BY <2>1, <2>2, ZenonT(60) DEF Watchers, Guarded, Replacing
  <2> QED BY <2>3, <2>4, <2>5, Zenon DEF Watchers
<1> QED BY <1>2, <1>3, <1>4, <1>5, <1>6, <1>7, <1>8, <1>9 DEF WatchStep

\* A step of an Exec call leaves the processes, the list of workers, NewPool and Destroy alone, and
\* counts a dead worker only in allocateWorker.
LEMMA ExecLeaves ==
  ASSUME NEW c \in Client, TypeOK, Invoke(c) \/ ExecStep(c)
  PROVE  /\ UNCHANGED <<proc, watch, workers, inDestroy, npc, nw, dpc, snap, poolError>>
         /\ AllocateDead(c) \/ UNCHANGED numDead
         /\ \A w \in Worker : dtor'["destroy"][w] = dtor["destroy"][w]
<1> USE DEF workerVars, poolVars, clientVars, destroyVars, mainVars, ctlVars
<1>1. CASE \/ Invoke(c) \/ ExecEnter(c) \/ AllocateBegin(c) \/ AllocateBlock(c) \/ AllocateReady(c)
           \/ AllocateAccept(c)
  BY <1>1, Zenon DEF Invoke, ExecEnter, AllocateBegin, AllocateBlock, AllocateReady, AllocateAccept
<1>2. CASE \/ WorkerExecBegin(c) \/ WorkerExecRefuse(c) \/ WorkerExecPayload(c) \/ WorkerExecEnd(c)
           \/ ExecRelease(c)
  BY <1>2, Zenon DEF WorkerExecBegin, WorkerExecRefuse, WorkerExecPayload, WorkerExecEnd, ExecRelease
<1>3. CASE AllocateAllDead(c) \/ AllocateStopped(c) \/ AllocateTimeout(c) \/ Receive(c)
  BY <1>3, Zenon DEF AllocateAllDead, AllocateStopped, AllocateTimeout, Receive
<1>4. CASE AllocateDead(c)
  BY <1>4, Zenon DEF AllocateDead
<1>5. CASE AllocateReject(c) \/ ExecDiscard(c) \/ ExecRestart(c)
  <2>1. /\ UNCHANGED <<proc, watch, workers, inDestroy, npc, nw, dpc, snap, poolError, numDead>>
        /\ dtor' = [dtor EXCEPT !["discard"][cw[c]] = "select"]
    BY <1>5, Zenon DEF AllocateReject, ExecDiscard, ExecRestart, DiscardWorker, StartDestroy
  <2> QED BY <2>1, Zenon DEF TypeOK, GoroutineTypes, Cause
<1>6. CASE ReleasePush(c)
  BY <1>6, Zenon DEF ReleasePush
<1> QED BY <1>1, <1>2, <1>3, <1>4, <1>5, <1>6 DEF ExecStep, AllocateStep

\* So do the steps behind the calls, but for the exit of a process and the steps of Destroy itself.
LEMMA BackgroundLeaves ==
  ASSUME TypeOK, Control,
         \/ DestroyCall \/ Destroy \/ Controller
         \/ \E w \in Worker : RemoveCheck(w) \/ Crash(w) \/ ObeyStop(w) \/ Reap(w)
         \/ \E k \in Cause, w \in Worker : DestroyWorkerStep(k, w)
  PROVE  /\ UNCHANGED <<watch, workers, npc, nw, numDead, poolError>>
         /\ inDestroy => inDestroy'
         /\ \A w \in Worker : /\ (proc'[w] = "none") <=> (proc[w] = "none")
                              /\ proc'[w] = "running" => proc[w] = "running"
<1> USE DEF workerVars, poolVars, clientVars, destroyVars, mainVars, ctlVars
<1>1. CASE DestroyCall \/ DestroyBegin \/ DestroyLock \/ DestroyClose
  BY <1>1 DEF DestroyCall, DestroyBegin, DestroyLock, DestroyClose
<1>2. CASE DestroyList \/ DestroyMark \/ DestroyMarked \/ DestroyJoin
  <2>1. CASE DestroyList
    BY <2>1, Zenon DEF DestroyList
  <2>2. CASE DestroyMark
    BY <2>2, Zenon DEF DestroyMark
  <2>3. CASE DestroyMarked
    BY <2>3, Zenon DEF DestroyMarked
  <2>4. CASE DestroyJoin
    BY <2>4, Zenon DEF DestroyJoin
  <2> QED
    BY <1>2, <2>1, <2>2, <2>3, <2>4, Zenon
<1>3. CASE RemoveLoad \/ RemoveStore \/ ControllerKillTest \/ ControllerDone
  <2>1. CASE RemoveLoad
    BY <2>1 DEF RemoveLoad
  <2>2. CASE ControllerKillTest
    BY <2>2, Zenon DEF ControllerKillTest
  <2>3. CASE ControllerDone
    BY <2>3, Zenon DEF ControllerDone
  <2>4. CASE RemoveStore
    BY <2>4, Zenon DEF RemoveStore
  <2> QED
    BY <1>3, <2>1, <2>2, <2>3, <2>4, Zenon
<1>4. ASSUME NEW w \in Worker, NEW status \in {"exit0", "exit1"}, Exit(w, status)
      PROVE  \A v \in Worker : /\ (proc'[v] = "none") <=> (proc[v] = "none")
                               /\ proc'[v] = "running" => proc[v] = "running"
  BY <1>4, Zenon DEF Exit, TypeOK, WorkerTypes
<1>5. CASE ControllerKill
  <2>1. ctlW \in Worker /\ Exit(ctlW, "exit1") BY <1>5, Zenon DEF ControllerKill, Kill, Control
  <2> QED BY <1>4, <1>5, <2>1, Zenon DEF ControllerKill
<1>6. ASSUME NEW w \in Worker, RemoveCheck(w) \/ Reap(w)
      PROVE  UNCHANGED <<proc, watch, workers, npc, nw, numDead, poolError, inDestroy>>
  BY <1>6, Zenon DEF RemoveCheck, Reap
<1>7. ASSUME NEW w \in Worker, Crash(w) \/ ObeyStop(w)
      PROVE  /\ UNCHANGED <<watch, workers, npc, nw, numDead, poolError, inDestroy>>
             /\ Exit(w, "exit0") \/ Exit(w, "exit1")
  BY <1>7, Zenon DEF Crash, ObeyStop
<1>8. ASSUME NEW k \in Cause, NEW w \in Worker, DestroyWorkerStep(k, w)
      PROVE  /\ UNCHANGED <<watch, workers, npc, nw, numDead, poolError, inDestroy>>
             /\ UNCHANGED proc \/ Exit(w, "exit1")
  BY <1>8, Zenon DEF DestroyWorkerStep, StopTest, Stop, DestroyTimeout, DestroyKill, Kill
<1> QED BY <1>1, <1>2, <1>3, <1>4, <1>5, <1>6, <1>7, <1>8 DEF Destroy, Controller

\* Every step keeps the watchers.
LEMMA NextWatchers ==
  ASSUME Owned, Watchers, [Next]_vars
  PROVE  Watchers'
<1>1. CASE UNCHANGED vars
  BY <1>1, IdleWatchers, Zenon DEF vars, workerVars, poolVars, mainVars, SameBorn
<1>2. CASE NewPool BY <1>2, NewPoolWatchers, Zenon
<1>3. ASSUME NEW c \in Client, Invoke(c) \/ ExecStep(c) PROVE Watchers'
  BY <1>3, ExecLeaves, IdleWatchers, Zenon DEF Owned, SameBorn
<1>4. ASSUME NEW w \in Worker, WatchStep(w) PROVE Watchers'
  BY <1>4, WatchWatchers, Zenon
<1>5. CASE \/ DestroyCall \/ Destroy \/ Controller
           \/ \E w \in Worker : RemoveCheck(w) \/ Crash(w) \/ ObeyStop(w) \/ Reap(w)
           \/ \E k \in Cause, w \in Worker : DestroyWorkerStep(k, w)
  BY <1>5, BackgroundLeaves, IdleWatchers, Zenon DEF Owned, SameBorn
<1> QED BY <1>1, <1>2, <1>3, <1>4, <1>5, Zenon DEF Next

\* The watchers are as Watchers says, in every state of the pool.
LEMMA SpecWatchers == Spec => []Watchers
<1>1. Owned /\ Watchers /\ [Next]_vars => Watchers' BY NextWatchers, Zenon
<1> QED BY <1>1, InitWatchers, SpecOwned, PTL DEF Spec

\* When the last watcher has given up, EventPoolError has been thrown.
THEOREM DeathIsReported == Spec => []PoolDeathReported
<1>1. Watchers => PoolDeathReported
  BY Zenon DEF Watchers, Guarded, Replacing, PoolDeathReported
<1> QED BY <1>1, SpecWatchers, PTL
-----------------------------------------------------------------------------
(* Destroy *)

(* Destroy has listed w. *)
Reached(w) == w \in snap \/ dtor["destroy"][w] # "none"

(* p.workers holds every worker whose watcher has not taken it out. *)
Complete == \A w \in Worker : watch[w] \in {"wait", "detach"} => w \in workers

(* Destroy runs on a finished or failed NewPool, sets inDestroy first and lists workers later. *)
Begun ==
  /\ dpc # "idle" => npc \in {"up", "failed"}
  /\ dpc \notin {"idle", "start"} => inDestroy
  /\ dpc \notin {"mark", "join", "done"} => \A w \in Worker : ~Reached(w)
  /\ dpc \in {"join", "done"} => snap = {}

(* No worker that Destroy has listed is replaced. *)
Unreplaced ==
  \A w \in Worker : Reached(w) =>
    /\ watch[w] \in {"wait", "detach", "count", "check", "done"}
    /\ w[2] < MaxGen => proc[Heir(w)] = "none"

(* A process that runs is in the list of Destroy, or replaces one that is not. *)
Late ==
  dpc \in {"mark", "join", "done"} =>
    \A w \in Worker : proc[w] = "running" => Reached(w) \/ \E v \in Worker : w = Heir(v) /\ ~Reached(v)

(* The goroutines of Destroy have ended the workers of the list. *)
ListedGone == dpc = "done" => \A w \in Worker : dtor["destroy"][w] # "none" => proc[w] # "running"

Ended == Complete /\ Begun /\ Unreplaced /\ Late /\ ListedGone

\* Before Destroy there is nothing to end.
LEMMA InitEnded == Init => Ended
<1> SUFFICES ASSUME Init PROVE Ended
  BY Zenon
<1>1. Complete /\ Late /\ ListedGone BY Zenon DEF Init, Complete, Late, ListedGone
<1>2. \A w \in Worker : ~Reached(w) BY Zenon DEF Init, Reached, Cause
<1> QED BY <1>1, <1>2, Zenon DEF Init, Ended, Begun, Unreplaced

\* A step that lists and spawns nothing keeps what Destroy has achieved.
LEMMA IdleEnded ==
  ASSUME Ended, UNCHANGED <<watch, workers, npc, snap, dpc>>, inDestroy => inDestroy',
         \A w \in Worker : /\ (dtor'["destroy"][w] = "none") <=> (dtor["destroy"][w] = "none")
                           /\ (proc'[w] = "none") <=> (proc[w] = "none")
                           /\ proc'[w] = "running" => proc[w] = "running"
  PROVE  Ended'
<1>1. \A w \in Worker : Reached(w)' <=> Reached(w) BY Zenon DEF Reached
<1>2. Complete' BY Zenon DEF Ended, Complete
<1>3. Begun' BY <1>1, Zenon DEF Ended, Begun
<1>4. Unreplaced' BY <1>1, WorkerShape, Zenon DEF Ended, Unreplaced
<1>5. Late' BY <1>1, Zenon DEF Ended, Late
<1>6. ListedGone' BY Zenon DEF Ended, ListedGone
<1> QED BY <1>2, <1>3, <1>4, <1>5, <1>6, Zenon DEF Ended

\* NewPool runs before Destroy.
LEMMA NewPoolEnded ==
  ASSUME Owned, Ended, NewPool
  PROVE  Ended'
<1> USE DEF Owned, workerVars, poolVars, clientVars, destroyVars, mainVars, ctlVars
<1>1. /\ npc \in {"create", "list", "push"} /\ UNCHANGED <<snap, dtor>>
      /\ UNCHANGED dpc \/ (npc' = "failed" /\ dpc' = "start")
  BY Zenon DEF NewPool, NewPoolCreate, NewPoolFail, NewPoolList, NewPoolPush
<1>2. dpc = "idle" BY <1>1, Zenon DEF Ended, Begun
<1>3. \A w \in Worker : ~Reached(w)' BY <1>1, <1>2, Zenon DEF Ended, Begun, Reached
<1>4. Complete'
  <2>1. CASE NewPoolList
    <3>1. nw \in Worker /\ workers' = workers \cup {nw} /\ watch' = [watch EXCEPT ![nw] = "wait"]
      BY <2>1, Zenon DEF NewPoolList, Control
    <3>2. \A w \in Worker : w # nw => watch'[w] = watch[w] BY <3>1, Zenon DEF TypeOK, GoroutineTypes
    <3> QED BY <3>1, <3>2, Zenon DEF Ended, Complete
  <2>2. CASE NewPoolCreate \/ NewPoolFail \/ NewPoolPush
    BY <2>2, Zenon DEF NewPoolCreate, NewPoolFail, NewPoolPush, Ended, Complete
  <2> QED BY <2>1, <2>2, Zenon DEF NewPool
<1>5. dpc' \in {"idle", "start"} /\ (dpc' = "start" => npc' = "failed") BY <1>1, <1>2, Zenon
<1>6. Begun' BY <1>3, <1>5, Zenon DEF Begun
<1>7. Unreplaced' /\ Late' /\ ListedGone' BY <1>3, <1>5, Zenon DEF Unreplaced, Late, ListedGone
<1> QED BY <1>4, <1>6, <1>7, Zenon DEF Ended

\* A watcher takes its worker out before it tests destroyed(), and does not replace one that Destroy has listed.
LEMMA WatchEnded ==
  ASSUME Owned, Watchers, Ended, NEW w \in Worker, WatchStep(w)
  PROVE  Ended'
<1> USE DEF Owned, workerVars, poolVars, clientVars, destroyVars, mainVars, ctlVars, Watch
<1>1. UNCHANGED <<snap, dpc, npc, dtor, inDestroy>>
  BY Zenon DEF WatchStep, WatchWait, WatchDetach, WatchCount, WatchCheck, WatchSpawn, WatchSpawnFail, WatchList, WatchPush
<1>2. \A v \in Worker : Reached(v)' <=> Reached(v) BY <1>1, Zenon DEF Reached
<1>3. Begun' BY <1>1, <1>2, Zenon DEF Ended, Begun
<1>4. ASSUME UNCHANGED proc PROVE Late' /\ ListedGone'
  BY <1>1, <1>2, <1>4, Zenon DEF Ended, Late, ListedGone
<1>5. Reached(w) => inDestroy /\ watch[w] \notin {"none", "spawn", "list", "push"}
  BY Zenon DEF Ended, Begun, Unreplaced
<1>6. ASSUME NEW to \in {"detach", "count", "check", "spawn", "done"}, watch' = [watch EXCEPT ![w] = to],
             UNCHANGED proc, Reached(w) => to # "spawn", workers' \in {workers, workers \ {w}},
             to = "detach" => watch[w] = "wait" /\ workers' = workers
      PROVE  Ended'
  <2>1. \A v \in Worker : watch'[v] = IF v = w THEN to ELSE watch[v]
    BY <1>6, Zenon DEF TypeOK, GoroutineTypes
  <2>2. Complete'
    <3> SUFFICES ASSUME NEW v \in Worker, watch'[v] \in {"wait", "detach"} PROVE v \in workers'
      BY Zenon DEF Complete
    <3>1. CASE v = w BY <1>6, <2>1, <3>1 DEF Ended, Complete
    <3>2. CASE v # w BY <1>6, <2>1, <3>2 DEF Ended, Complete
    <3> QED BY <3>1, <3>2, Zenon
  <2>3. Unreplaced' BY <1>2, <1>6, <2>1 DEF Ended, Unreplaced
  <2> QED BY <1>3, <1>4, <1>6, <2>2, <2>3, Zenon DEF Ended
<1>7. CASE WatchWait(w) BY <1>6, <1>7, Zenon DEF WatchWait
<1>8. CASE WatchDetach(w) BY <1>6, <1>8, Zenon DEF WatchDetach
<1>9. CASE WatchCount(w) BY <1>6, <1>9, Zenon DEF WatchCount
<1>10. CASE WatchCheck(w) BY <1>5, <1>6, <1>10, Zenon DEF WatchCheck
<1>11. CASE WatchSpawnFail(w) \/ WatchPush(w)
  BY <1>6, <1>11, Zenon DEF WatchSpawnFail, WatchPush
<1>12. CASE WatchList(w)
  <2>1. watch[Heir(w)] = "none" /\ Heir(w) \in Worker /\ Heir(w) # w BY <1>12, WatchListLineage, Zenon
  <2>2. /\ watch[w] = "list" /\ watch' = [watch EXCEPT ![w] = "push", ![Heir(w)] = "wait"]
        /\ workers' = workers \cup {Heir(w)} /\ UNCHANGED proc
    BY <1>12, Zenon DEF WatchList
  <2>3. \A v \in Worker : watch'[v] = IF v = w THEN "push" ELSE IF v = Heir(w) THEN "wait" ELSE watch[v]
    BY <2>1, <2>2, Zenon DEF TypeOK, GoroutineTypes
  <2>4. Complete' BY <2>2, <2>3 DEF Ended, Complete
  <2>5. Unreplaced' BY <1>2, <2>1, <2>2, <2>3, Zenon DEF Ended, Unreplaced
  <2> QED BY <1>3, <1>4, <2>2, <2>4, <2>5, Zenon DEF Ended
<1>13. CASE WatchSpawn(w)
  <2>1. proc[Heir(w)] = "none" /\ Heir(w) \in Worker BY <1>13, WatchSpawnLineage, Zenon
  <2>2. watch[w] = "spawn" /\ watch' = [watch EXCEPT ![w] = "list"] /\ Spawn(Heir(w)) /\ UNCHANGED workers
    BY <1>13, Zenon DEF WatchSpawn
  <2>3. /\ \A v \in Worker : watch'[v] = IF v = w THEN "list" ELSE watch[v]
        /\ \A v \in Worker : v # Heir(w) => proc'[v] = proc[v]
    BY <2>2, ZenonT(60) DEF TypeOK, GoroutineTypes, WorkerTypes, Spawn
  <2>4. ~Reached(w) BY <1>5, <2>2, Zenon
  <2>5. ~Reached(Heir(w)) BY <2>1, Zenon DEF Ended, Unreplaced, Lineage, Unborn
  <2>6. Complete' BY <2>2, <2>3 DEF Ended, Complete
  <2>7. Unreplaced'
    <3> SUFFICES ASSUME NEW v \in Worker, Reached(v)
                 PROVE  /\ watch'[v] \in {"wait", "detach", "count", "check", "done"}
                        /\ v[2] < MaxGen => proc'[Heir(v)] = "none"
      BY <1>2, Zenon DEF Unreplaced
    <3>1. v # w /\ Heir(v) # Heir(w) BY <2>4, HeirInjective, Zenon
    <3> QED BY <2>3, <3>1, WorkerShape, Zenon DEF Ended, Unreplaced
  <2>8. Late' BY <1>1, <1>2, <2>3, <2>4, Zenon DEF Ended, Late
  <2>9. ListedGone' BY <1>1, <2>3, <2>5, Zenon DEF Ended, ListedGone, Reached
  <2> QED BY <1>3, <2>6, <2>7, <2>8, <2>9, Zenon DEF Ended
<1> QED BY <1>7, <1>8, <1>9, <1>10, <1>11, <1>12, <1>13 DEF WatchStep

\* A process that runs when Destroy lists the workers is in the list, or its predecessor was taken out before.
LEMMA ListEnded ==
  ASSUME Owned, Watchers, Ended, DestroyList
  PROVE  Ended'
<1> USE DEF Owned, workerVars, poolVars, clientVars, destroyVars, mainVars, ctlVars
<1>1. /\ dpc = "list" /\ dpc' = "mark" /\ snap' = workers
      /\ UNCHANGED <<dtor, proc, watch, workers, npc, inDestroy>>
  BY Zenon DEF DestroyList
<1>2. \A w \in Worker : Reached(w)' <=> w \in workers BY <1>1, Zenon DEF Reached, Ended, Begun
<1>3. Complete' BY <1>1, Zenon DEF Ended, Complete
<1>4. Begun' BY <1>1, Zenon DEF Ended, Begun
<1>5. Unreplaced'
  <2> SUFFICES ASSUME NEW w \in Worker, w \in workers
               PROVE  watch[w] \in {"wait", "detach"} /\ (w[2] < MaxGen => proc[Heir(w)] = "none")
    BY <1>1, <1>2, Zenon DEF Unreplaced
  <2>1. watch[w] \in {"wait", "detach"} BY Zenon DEF Watchers, Listed
  <2> QED BY <2>1, Zenon DEF Lineage, Succession
<1>6. Late'
  <2> SUFFICES ASSUME NEW w \in Worker, proc[w] = "running", w \notin workers
               PROVE  \E v \in Worker : w = Heir(v) /\ v \notin workers
    BY <1>1, <1>2, Zenon DEF Late
  <2>1. watch[w] = "none"
    <3>1. watch[w] \notin {"wait", "detach"} BY Zenon DEF Ended, Complete
    <3>2. watch[w] # "none" => waitDone[w] BY <3>1, Zenon DEF Lineage, Reaped
    <3> QED BY <3>2 DEF Lineage, Reaped
  <2>2. npc # "list" BY <1>1, Zenon DEF Ended, Begun
  <2>3. PICK v \in Worker : watch[v] = "list" /\ w = Heir(v) BY <2>1, <2>2, Zenon DEF Watchers, Unlisted
  <2>4. v \notin workers BY <2>3, Zenon DEF Watchers, Listed
  <2> QED BY <2>3, <2>4, Zenon
<1>7. ListedGone' BY <1>1, Zenon DEF ListedGone
<1> QED BY <1>3, <1>4, <1>5, <1>6, <1>7, Zenon DEF Ended

\* The other steps of Destroy.
LEMMA DestroyEnded ==
  ASSUME Owned, Watchers, Ended, DestroyCall \/ Destroy
  PROVE  Ended'
<1> USE DEF Owned, workerVars, poolVars, clientVars, destroyVars, mainVars, ctlVars
<1>1. ASSUME UNCHANGED <<watch, workers, proc, npc>>, \A w \in Worker : Reached(w)' <=> Reached(w)
      PROVE  Complete' /\ Unreplaced'
  BY <1>1, Zenon DEF Ended, Complete, Unreplaced
<1>2. ASSUME UNCHANGED <<watch, workers, proc, npc, snap, dtor>>,
             \/ dpc = "idle" /\ dpc' = "start" /\ npc = "up" /\ UNCHANGED inDestroy
             \/ dpc \in {"start", "lock", "wait"} /\ dpc' \in {"lock", "wait", "list"} /\ (inDestroy' \/ (inDestroy /\ UNCHANGED inDestroy))
      PROVE  Ended'
  <2>1. \A w \in Worker : Reached(w)' <=> Reached(w) BY <1>2, Zenon DEF Reached
  <2>2. Begun' BY <1>2, <2>1 DEF Ended, Begun
  <2>3. Late' /\ ListedGone' BY <1>2, Zenon DEF Late, ListedGone
  <2> QED BY <1>1, <1>2, <2>1, <2>2, <2>3, Zenon DEF Ended
<1>3. CASE DestroyCall BY <1>2, <1>3, Zenon DEF DestroyCall
<1>4. CASE DestroyBegin BY <1>2, <1>4, Zenon DEF DestroyBegin
<1>5. CASE DestroyLock \/ DestroyClose
  <2>1. inDestroy BY <1>5, Zenon DEF DestroyLock, DestroyClose, Ended, Begun
  <2> QED BY <1>2, <1>5, <2>1, Zenon DEF DestroyLock, DestroyClose
<1>6. CASE DestroyMark
  <2>1. PICK w \in snap : snap' = snap \ {w} /\ StartDestroy("destroy", w) BY <1>6, Zenon DEF DestroyMark
  <2>2. dpc = "mark" /\ UNCHANGED <<dpc, watch, workers, proc, npc, inDestroy>> BY <1>6, Zenon DEF DestroyMark
  <2>3. \A v \in Worker : dtor'["destroy"][v] = IF v = w THEN "select" ELSE dtor["destroy"][v]
    BY <2>1, Zenon DEF StartDestroy, TypeOK, GoroutineTypes, Cause
  <2>4. \A v \in Worker : Reached(v)' <=> Reached(v) BY <2>1, <2>3 DEF Reached
  <2>5. Begun' BY <2>2, Zenon DEF Ended, Begun
  <2>6. Late' /\ ListedGone' BY <2>2, <2>4, Zenon DEF Ended, Late, ListedGone
  <2> QED BY <1>1, <2>2, <2>4, <2>5, <2>6, Zenon DEF Ended
<1>7. CASE DestroyMarked
  <2>1. dpc = "mark" /\ dpc' = "join" /\ snap = {} /\ UNCHANGED <<watch, workers, proc, npc, inDestroy, snap, dtor>>
    BY <1>7, Zenon DEF DestroyMarked
  <2>2. \A v \in Worker : Reached(v)' <=> Reached(v) BY <2>1, Zenon DEF Reached
  <2>3. Begun' /\ Late' /\ ListedGone' BY <2>1, <2>2, Zenon DEF Ended, Begun, Late, ListedGone
  <2> QED BY <1>1, <2>1, <2>2, <2>3, Zenon DEF Ended
<1>8. CASE DestroyJoin
  <2>1. /\ dpc = "join" /\ dpc' = "done" /\ UNCHANGED <<watch, workers, proc, npc, inDestroy, snap, dtor>>
        /\ \A w \in Worker : dtor["destroy"][w] = "none" \/ waitDone[w]
    BY <1>8, Zenon DEF DestroyJoin
  <2>2. \A v \in Worker : Reached(v)' <=> Reached(v) BY <2>1, Zenon DEF Reached
  <2>3. \A w \in Worker : dtor["destroy"][w] # "none" => proc[w] # "running"
    BY <2>1, ZenonT(60) DEF Lineage, Reaped
  <2>4. Begun' /\ Late' BY <2>1, <2>2, Zenon DEF Ended, Begun, Late
  <2>5. ListedGone' BY <2>1, <2>3, Zenon DEF ListedGone
  <2> QED BY <1>1, <2>1, <2>2, <2>4, <2>5, Zenon DEF Ended
<1>9. CASE DestroyList BY <1>9, ListEnded, Zenon
<1> QED BY <1>3, <1>4, <1>5, <1>6, <1>7, <1>8, <1>9, Zenon DEF Destroy

\* Every step keeps what Destroy has achieved.
LEMMA NextEnded ==
  ASSUME Owned, Watchers, Ended, [Next]_vars
  PROVE  Ended'
<1> USE DEF Owned, workerVars, poolVars, clientVars, destroyVars, mainVars, ctlVars
<1>1. CASE UNCHANGED vars BY <1>1, IdleEnded, Zenon DEF vars
<1>2. CASE NewPool BY <1>2, NewPoolEnded, Zenon
<1>3. ASSUME NEW c \in Client, Invoke(c) \/ ExecStep(c) PROVE Ended'
  BY <1>3, ExecLeaves, IdleEnded, Zenon
<1>4. ASSUME NEW w \in Worker, WatchStep(w) PROVE Ended' BY <1>4, WatchEnded, Zenon
<1>5. CASE DestroyCall \/ Destroy BY <1>5, DestroyEnded, Zenon
<1>6. CASE Controller \/ \E w \in Worker : RemoveCheck(w) \/ Crash(w) \/ ObeyStop(w) \/ Reap(w)
  <2>1. UNCHANGED <<dtor, snap, dpc>>
    BY <1>6, Zenon DEF Controller, RemoveLoad, RemoveStore, ControllerKillTest, ControllerKill, ControllerDone,
                 RemoveCheck, Crash, ObeyStop, Reap
  <2> QED BY <1>6, <2>1, BackgroundLeaves, IdleEnded, ZenonT(60)
<1>7. ASSUME NEW k \in Cause, NEW w \in Worker, DestroyWorkerStep(k, w) PROVE Ended'
  <2>1. UNCHANGED <<snap, dpc>>
    BY <1>7, Zenon DEF DestroyWorkerStep, StopTest, Stop, DestroyTimeout, DestroyKill
  <2>2. \/ UNCHANGED dtor
        \/ dtor[k][w] # "none" /\ \E to \in {"kill", "killed"} : dtor' = [dtor EXCEPT ![k][w] = to]
    BY <1>7, Zenon DEF DestroyWorkerStep, StopTest, Stop, DestroyTimeout, DestroyKill
  <2>3. \A v \in Worker : (dtor'["destroy"][v] = "none") <=> (dtor["destroy"][v] = "none")
    BY <2>2 DEF TypeOK, GoroutineTypes, Cause
  <2> QED BY <1>7, <2>1, <2>3, BackgroundLeaves, IdleEnded, ZenonT(60)
<1> QED BY <1>1, <1>2, <1>3, <1>4, <1>5, <1>6, <1>7 DEF Next

\* What Destroy (static_pool.go) leaves running replaces a worker that died before Destroy took its list: the workers
\* of the list are gone, and no watcher has replaced one of them, whatever dies, is removed or obeys in the meantime.
THEOREM DestroyLeavesLate == Spec => []SurvivorsAreLate
<1>1. Owned /\ Watchers /\ Ended /\ [Next]_vars => Ended' BY NextEnded, Zenon
<1>2. Owned /\ Ended => SurvivorsAreLate
  <2> SUFFICES ASSUME Owned, Ended, dpc = "done", NEW w \in Worker, proc[w] = "running"
               PROVE  dtor["destroy"][w] = "none" /\ \E v \in Worker : w = Heir(v) /\ dtor["destroy"][v] = "none"
    <3>1. Owned => DOMAIN proc = Worker BY Zenon DEF Owned, TypeOK, WorkerTypes
    <3> QED BY <3>1, Zenon DEF SurvivorsAreLate
  <2>1. dtor["destroy"][w] = "none" /\ snap = {} BY Zenon DEF Ended, ListedGone, Begun
  <2>2. ~Reached(w) BY <2>1, Zenon DEF Reached
  <2> QED BY <2>1, <2>2, Zenon DEF Ended, Late, Reached
<1> QED BY <1>1, <1>2, InitEnded, SpecOwned, SpecWatchers, PTL DEF Spec
-----------------------------------------------------------------------------
(* How many processes run *)

INSTANCE FiniteSetTheorems

\* At most one process of every slot runs.
LEMMA OneProcessPerSlot ==
  ASSUME Owned, NEW v \in Worker, NEW w \in Worker, proc[v] = "running", proc[w] = "running", v[1] = w[1]
  PROVE  v = w
<1>1. v[2] \in Nat /\ w[2] \in Nat BY WorkerShape
<1>2. ~(v[2] < w[2]) /\ ~(w[2] < v[2])
  BY Zenon DEF Owned, Lineage, Generations, Reaped
<1>3. v[2] = w[2] BY <1>1, <1>2
<1> QED BY <1>3, WorkerShape

\* The pool never runs more processes than it is configured for, whatever crashes, discards,
\* replacements and shutdowns do.
THEOREM BoundedProcesses == Spec => []ProcessBound
<1>1. Owned => ProcessBound
  <2> SUFFICES ASSUME Owned PROVE ProcessBound
    BY Zenon
  <2> DEFINE R == {w \in Worker : proc[w] = "running"}
             f == [w \in R |-> w[1]]
  <2>1. f \in [R -> Slot] BY WorkerShape
  <2>2. \A v, w \in R : f[v] = f[w] => v = w BY OneProcessPerSlot
  <2>3. f \in Injection(R, Slot)
    <3>1. DOMAIN f = R BY Zenon
    <3> HIDE DEF f, R
    <3> QED BY <2>1, <2>2, <3>1 DEF Injection, IsInjective
  <2>4. Cardinality(R) <= NumWorkers
    <3> HIDE DEF f, R
    <3>1. IsFiniteSet(Slot) /\ Cardinality(Slot) = NumWorkers
      BY PoolAssumption, FS_Interval DEF Slot
    <3> QED BY <2>3, <3>1, FS_Injection
  <2> QED BY <2>4 DEF ProcessBound
<1> QED BY <1>1, SpecOwned, PTL
-----------------------------------------------------------------------------
(* The count of dead workers *)

(* Workers whose watcher has counted them dead. *)
Counted == {w \in Worker : watch[w] \in {"check", "spawn", "list", "push", "done"}}

(* Every counted worker is covered by numDead or by a worker out of circulation. *)
DeathsCovered == Cardinality(Counted) <= numDead + Cardinality(Gone)

\* There are finitely many workers.
LEMMA WorkersFinite ==
  /\ \A S : S \subseteq Worker => IsFiniteSet(S)
  /\ IsFiniteSet(Counted) /\ IsFiniteSet(Gone)
<1>1. IsFiniteSet(Slot) /\ IsFiniteSet(1..MaxGen)
  BY PoolAssumption, FS_Interval DEF Slot
<1>2. IsFiniteSet(Worker) BY <1>1, FS_Product, Zenon DEF Worker
<1>3. \A S : S \subseteq Worker => IsFiniteSet(S) BY <1>2, FS_Subset, Zenon
<1> QED BY <1>3, Zenon DEF Counted, Gone

\* A worker out of circulation never comes back.
LEMMA GoneGrows ==
  ASSUME Owned, Owned', [Next]_vars
  PROVE  Gone \subseteq Gone'
<1>1. [Rotation!Next]_(Rotation!rotation) BY NextMoves, MovedRotates DEF Owned
<1>2. CASE Rotation!Next
  BY <1>2 DEF Rotation!Next, Rotation!Hire, Rotation!Take, Rotation!GiveBack, Rotation!Dismiss
<1>3. CASE UNCHANGED Rotation!rotation BY <1>3, Zenon DEF Rotation!rotation
<1> QED BY <1>1, <1>2, <1>3

\* A step that counts nobody keeps DeathsCovered.
LEMMA QuietCovered ==
  ASSUME DeathsCovered, numDead' = numDead, numDead \in Int, Counted' = Counted, Gone \subseteq Gone'
  PROVE  DeathsCovered'
<1>1. IsFiniteSet(Gone) /\ IsFiniteSet(Counted) BY WorkersFinite, Zenon
<1>2. IsFiniteSet(Gone') BY WorkersFinite DEF Gone
<1>3. Cardinality(Gone) <= Cardinality(Gone') BY <1>2, FS_Subset
<1>4. Cardinality(Gone) \in Nat /\ Cardinality(Gone') \in Nat /\ Cardinality(Counted) \in Nat
  BY <1>1, <1>2, FS_CardinalityType
<1> QED BY <1>3, <1>4 DEF DeathsCovered

\* Every step keeps DeathsCovered.
LEMMA NextCovered ==
  ASSUME Owned, Owned', DeathsCovered, [Next]_vars
  PROVE  DeathsCovered'
<1> USE DEF workerVars, poolVars, clientVars, destroyVars, mainVars, ctlVars, Watch
<1>0. /\ numDead \in Int /\ Gone \subseteq Gone' /\ IsFiniteSet(Gone) /\ IsFiniteSet(Counted)
      /\ Cardinality(Gone) \in Nat /\ Cardinality(Counted) \in Nat
  BY GoneGrows, WorkersFinite, FS_CardinalityType DEF Owned, TypeOK, PoolTypes
<1>1. CASE UNCHANGED vars
  <2>1. numDead' = numDead /\ Counted' = Counted BY <1>1 DEF vars, Counted
  <2> QED BY <1>0, <2>1, QuietCovered
<1>2. CASE NewPool
  <2>1. numDead' = numDead /\ (watch' = watch \/ (nw \in Worker /\ watch[nw] = "none" /\ watch' = [watch EXCEPT ![nw] = "wait"]))
    BY <1>2 DEF NewPool, NewPoolCreate, NewPoolFail, NewPoolList, NewPoolPush, Owned, Control, Lineage, Creating
  <2>2. Counted' = Counted BY <2>1 DEF Counted, Owned, TypeOK, GoroutineTypes
  <2> QED BY <1>0, <2>1, <2>2, QuietCovered, SMTT(30)
<1>3. ASSUME NEW c \in Client, AllocateDead(c) PROVE DeathsCovered'
  <2>1. /\ cw[c] \in Worker /\ numDead' = numDead - 1 /\ UNCHANGED <<watch, proc, free, npc, nw>>
        /\ cw' = [cw EXCEPT ![c] = NoWorker]
    BY <1>3, HolderHasWorker DEF AllocateDead, Owned
  <2>2. Offered' = Offered /\ Counted' = Counted BY <2>1 DEF Offered, Queued, Fresh, Counted
  <2>3. /\ cw[c] \notin Gone /\ cw[c] \notin Offered /\ proc[cw[c]] # "none"
        /\ \A d \in Client : cw[d] = cw[c] => d = c
    BY <2>1, GoneMembers, WorkerShape, Zenon DEF Owned, OneOwner, Offered, Lineage, Born
  <2>4. cw[c] \in Gone'
    <3>1. \A d \in Client : cw'[d] = IF d = c THEN NoWorker ELSE cw[d]
      BY <2>1 DEF Owned, TypeOK, ClientTypes
    <3>2. \A d \in Client : cw'[d] # cw[c] BY <2>1, <2>3, <3>1, WorkerShape
    <3>3. \A x : x \in Gone' <=> /\ x \in Worker /\ proc'[x] # "none" /\ x \notin Offered'
                                 /\ \A d \in Client : cw'[d] # x
      BY Zenon DEF Gone
    <3> QED BY <2>1, <2>2, <2>3, <3>2, <3>3
  <2>5. IsFiniteSet(Gone') BY WorkersFinite, Zenon DEF Gone
  <2>6. Cardinality(Gone \cup {cw[c]}) = Cardinality(Gone) + 1 BY <1>0, <2>3, FS_AddElement, Zenon
  <2>7. Cardinality(Gone \cup {cw[c]}) <= Cardinality(Gone')
    BY <1>0, <2>4, <2>5, FS_Subset
  <2>8. Cardinality(Gone') \in Nat BY <2>5, FS_CardinalityType
  <2> QED BY <1>0, <2>1, <2>2, <2>6, <2>7, <2>8 DEF DeathsCovered
<1>4. ASSUME NEW c \in Client, Invoke(c) \/ ExecStep(c) PROVE DeathsCovered'
  <2>1. CASE AllocateDead(c) BY <1>3, <2>1
  <2>2. CASE numDead' = numDead
    <3>1. Counted' = Counted BY <1>4, ExecLeaves DEF Counted, Owned
    <3> QED BY <1>0, <2>2, <3>1, QuietCovered
  <2> QED BY <1>4, <2>1, <2>2, ExecLeaves DEF Owned
<1>5. ASSUME NEW w \in Worker, WatchCount(w) PROVE DeathsCovered'
  <2>1. /\ watch[w] = "count" /\ watch' = [watch EXCEPT ![w] = "check"] /\ numDead' = numDead + 1
        /\ UNCHANGED <<proc, cw, free, npc, nw>>
    BY <1>5 DEF WatchCount
  <2>2. Counted' = Counted \cup {w} /\ w \notin Counted
    BY <2>1 DEF Counted, Owned, TypeOK, GoroutineTypes
  <2>3. Cardinality(Counted') = Cardinality(Counted) + 1 BY <1>0, <2>2, FS_AddElement, ZenonT(60)
  <2>4. IsFiniteSet(Gone') BY WorkersFinite, Zenon DEF Gone
  <2>5. Cardinality(Gone) <= Cardinality(Gone') /\ Cardinality(Gone') \in Nat
    BY <1>0, <2>4, FS_Subset, FS_CardinalityType, ZenonT(60)
  <2> QED BY <1>0, <2>1, <2>3, <2>5 DEF DeathsCovered
<1>6. ASSUME NEW w \in Worker, WatchStep(w), ~WatchCount(w) PROVE DeathsCovered'
  <2>1. CASE WatchList(w)
    <3>1. watch[Heir(w)] = "none" /\ Heir(w) \in Worker /\ Heir(w) # w
      BY <2>1, WatchListLineage DEF Owned
    <3>2. /\ watch[w] = "list" /\ watch' = [watch EXCEPT ![w] = "push", ![Heir(w)] = "wait"] /\ numDead' = numDead
      BY <2>1 DEF WatchList
    <3>3. \A v \in Worker : watch'[v] = IF v = w THEN "push" ELSE IF v = Heir(w) THEN "wait" ELSE watch[v]
      BY <3>1, <3>2 DEF Owned, TypeOK, GoroutineTypes
    <3>5. watch[w] = "list" /\ watch'[w] = "push" /\ watch'[Heir(w)] = "wait" BY <3>1, <3>2, <3>3, Zenon
    <3>4. Counted' = Counted BY <3>1, <3>3, <3>5 DEF Counted
    <3> QED BY <1>0, <3>2, <3>4, QuietCovered, ZenonT(60)
  <2>2. CASE WatchWait(w) \/ WatchDetach(w)
    <3>1. /\ watch[w] \in {"wait", "detach"} /\ numDead' = numDead
          /\ \E to \in {"detach", "count"} : watch' = [watch EXCEPT ![w] = to]
      BY <2>2 DEF WatchWait, WatchDetach
    <3>2. Counted' = Counted BY <3>1 DEF Counted, Owned, TypeOK, GoroutineTypes
    <3> QED BY <1>0, <3>1, <3>2, QuietCovered, SMTT(30)
  <2>3. CASE WatchCheck(w) \/ WatchSpawn(w) \/ WatchSpawnFail(w) \/ WatchPush(w)
    <3>1. /\ watch[w] \in {"check", "spawn", "push"} /\ numDead' = numDead
          /\ \E to \in {"spawn", "list", "done"} : watch' = [watch EXCEPT ![w] = to]
      BY <2>3 DEF WatchCheck, WatchSpawn, WatchSpawnFail, WatchPush
    <3>2. Counted' = Counted BY <3>1 DEF Counted, Owned, TypeOK, GoroutineTypes
    <3> QED BY <1>0, <3>1, <3>2, QuietCovered, SMTT(30)
  <2> QED BY <1>6, <2>1, <2>2, <2>3, Zenon DEF WatchStep
<1>7. CASE \/ DestroyCall \/ Destroy \/ Controller
           \/ \E w \in Worker : RemoveCheck(w) \/ Crash(w) \/ ObeyStop(w) \/ Reap(w)
           \/ \E k \in Cause, w \in Worker : DestroyWorkerStep(k, w)
  <2>1. UNCHANGED <<watch, numDead>> BY <1>7, BackgroundLeaves DEF Owned
  <2>2. Counted' = Counted BY <2>1, Zenon DEF Counted
  <2> QED BY <1>0, <2>1, <2>2, QuietCovered
<1> QED BY <1>1, <1>2, <1>4, <1>5, <1>6, <1>7 DEF Next

\* numDead runs below zero only while a worker found dead is not registered yet.
THEOREM DebtIsTransient == Spec => []NumDeadDebt
<1>1. Init => DeathsCovered
  <2> SUFFICES ASSUME Init PROVE DeathsCovered
    BY Zenon
  <2>1. Counted = {} /\ Gone = {} /\ numDead = 0 BY Zenon DEF Init, Counted, Gone
  <2>2. Cardinality(Counted) = 0 /\ Cardinality(Gone) = 0 BY <2>1, FS_EmptySet
  <2> QED BY <2>1, <2>2 DEF DeathsCovered
<1>2. Owned /\ Owned' /\ DeathsCovered /\ [Next]_vars => DeathsCovered' BY NextCovered, Zenon
<1>3. Spec => []DeathsCovered BY <1>1, <1>2, SpecOwned, PTL DEF Spec
<1>4. Owned /\ Service /\ Watchers /\ DeathsCovered => NumDeadDebt
  <2> SUFFICES ASSUME Owned, Service, Watchers, DeathsCovered, numDead < 0
               PROVE  \E w \in Worker : /\ watch[w] \in {"wait", "detach", "count"}
                                        /\ ~Ready(w) /\ w \notin Queued
    BY Zenon DEF NumDeadDebt
  <2>1. numDead \in Int /\ IsFiniteSet(Gone) /\ IsFiniteSet(Counted)
    BY WorkersFinite DEF Owned, TypeOK, PoolTypes
  <2>2. Cardinality(Gone) \in Nat /\ Cardinality(Counted) \in Nat BY <2>1, FS_CardinalityType
  <2>3. Cardinality(Gone) > Cardinality(Counted) BY <2>1, <2>2 DEF DeathsCovered
  <2>4. ~(Gone \subseteq Counted) BY <2>1, <2>2, <2>3, FS_Subset
  <2>5. PICK w \in Gone : w \notin Counted BY <2>4, Zenon
  <2>6. /\ w \in Worker /\ proc[w] # "none" /\ w \notin Queued /\ w \notin Fresh /\ state[w] # "ready"
    BY <2>5, GoneMembers, Zenon DEF Offered, Service, Retired
  <2>7. watch[w] # "none" BY <2>6, FreshMembers, Zenon DEF Watchers, Unlisted
  <2> QED BY <2>5, <2>6, <2>7 DEF Counted, Ready, Owned, TypeOK, GoroutineTypes
<1> QED BY <1>3, <1>4, SpecOwned, SpecService, SpecWatchers, PTL
=============================================================================
