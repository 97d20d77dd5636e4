---------------------------- MODULE ServerProofs ----------------------------
(***************************************************************************)
(* Theorems about the pools and the controllers of Server.                 *)
(*                                                                         *)
(* A server that nobody stops and whose NewPool does not fail keeps its    *)
(* pools (Pools), and if nobody calls Attach again either, its controllers *)
(* too (Controllers).  A server that is started and stopped, but never     *)
(* reconfigured, leaves nothing behind (Lifetime).                         *)
(***************************************************************************)
EXTENDS ServerTypeProofs

\* What a pool's status is while the goroutine of Reconfigure works on it.
Stage ==
  \A p \in Pool : /\ dpc[p] = "none" => status[p] \in {"none", "up"}
                  /\ dpc[p] \in {"detach", "destroy"} => status[p] = "up"
                  /\ dpc[p] = "close" => status[p] = "waiting"
                  /\ dpc[p] = "join" => status[p] = "closed"
                  /\ dpc[p] = "done" => status[p] = "gone"
                  /\ p > numPools => status[p] = "none"

\* A pool that is up and not being destroyed is the server's, or is about to be.
Kept ==
  \A p \in Pool : status[p] = "up" /\ dpc[p] = "none" =>
    p = pool \/ \E t \in Thread : rpc[t] = "install" /\ made[t] = p

\* What Reconfigure knows at each of its program points stays true while it holds s.mup.
Replacement ==
  \A t \in Thread : /\ rpc[t] \in {"differs", "read", "create", "install"} => started
                    /\ rpc[t] \in {"create", "install"} => prev[t][1] = pool
                    /\ rpc[t] = "install" => status[made[t]] = "up" /\ dpc[made[t]] = "none"

\* A listener runs while the server is up, with the configuration of the server, and its Reset succeeds.
Listening ==
  \A p \in Pool : /\ rpc[p] # "idle" => started
                  /\ rpc[p] \notin {"idle", "reset"} => arg[p] = cfg
                  /\ rpc[p] # "fail"

\* The server and its pools, when nobody calls Stop and NewPool does not fail.
Pools ==
  /\ spc \in {"down", "starting", "up"}
  /\ started = (spc = "up")
  /\ spc # "down" => factory # 0
  /\ started => pool \in heard /\ status[pool] = "up" /\ dpc[pool] = "none"
  /\ ~started => heard = {} /\ pool = 0
  /\ Stage /\ Kept /\ Replacement /\ Listening
  /\ panic \in {"none", "detach"}

\* The controllers, when Attach is not called again either: the last one is the server's, the earlier
\* ones are detached, or are each about to be by one goroutine of Reconfigure.
Controllers ==
  /\ Attached = 1..pController
  /\ off \subseteq 1..(pController - 1)
  /\ started /\ controller => pController # 0 /\ on[pController] = pool
  /\ ~started \/ ~controller => pController = 0
  /\ \A t \in Thread : rpc[t] \in {"create", "install"} => prev[t][2] = pController
  /\ \A p \in Pool : dpc[p] = "detach" /\ dwatch[p] # 0 =>
       /\ dwatch[p] \in 1..(pController - 1) /\ dwatch[p] \notin off
       /\ \A q \in Pool : dpc[q] = "detach" /\ dwatch[q] = dwatch[p] => q = p
  /\ panic = "none"

\* A server that is never reconfigured: one pool at a time, and the controllers but the last detached.
Lifetime ==
  /\ \A t \in Thread : rpc[t] = "idle"
  /\ \A p \in Pool : lpc[p] = "idle" /\ dpc[p] = "none"
  /\ started = (spc \notin {"down", "starting"})
  /\ started => pool \in Pool
  /\ spc \in {"up", "detach", "destroy"} => status[pool] = "up"
  /\ \A p \in Pool : (started /\ p = pool) \/ status[p] \in {"none", "gone"}
  /\ spc \notin {"up", "detach"} => pController = 0
  /\ Attached \subseteq off \cup {pController} /\ off \subseteq Attached
  /\ pController \notin off /\ (pController # 0 => pController \in Attached)
  /\ panic = "none"
-----------------------------------------------------------------------------
(* The pools of a server that is not stopped *)

\* Before Start there is no pool.
LEMMA InitPools == Init => Pools
<1>1. Pool \subseteq Thread
  BY Zenon DEF Thread
<1> QED
  BY <1>1, ZenonT(60) DEF Init, Pools, Stage, Kept, Replacement, Listening

\* Steps that touch no pool and no Reconfigure.
LEMMA OtherPools ==
  ASSUME Pools, panic' \in {panic, "detach"},
         UNCHANGED <<spc, started, factory, pool, heard, status, dpc, numPools, rpc, made, prev, arg, cfg>>
  PROVE  Pools'
BY DEF Pools, Stage, Kept, Replacement, Listening

\* Thread t moves to program point x, which is not one of those where it has a new pool.
LEMMA MovePools ==
  ASSUME TypeOK, Pools, NEW t \in Thread, NEW x,
         \A u \in Thread : rpc'[u] = IF u = t THEN x ELSE rpc[u],
         rpc[t] # "install", x # "install",
         x \in {"differs", "read", "create"} => started,
         x = "create" => prev'[t][1] = pool,
         \A u \in Thread : u # t => prev'[u] = prev[u] /\ arg'[u] = arg[u],
         t \in Pool => /\ x # "idle" => started
                       /\ x \notin {"idle", "reset"} => arg'[t] = cfg
                       /\ x # "fail",
         UNCHANGED <<spc, started, factory, pool, heard, status, dpc, numPools, made, cfg, panic>>
  PROVE  Pools'
<1>1. Stage'
  BY Zenon DEF Pools, Stage
<1>2. Kept'
  <2> SUFFICES ASSUME NEW p \in Pool, status[p] = "up", dpc[p] = "none", p # pool
               PROVE  \E u \in Thread : rpc'[u] = "install" /\ made'[u] = p
    BY Zenon DEF Kept
  <2>1. PICK u \in Thread : rpc[u] = "install" /\ made[u] = p
    BY Zenon DEF Pools, Kept
  <2> QED
    BY <2>1, Zenon
<1>3. Replacement'
  BY DEF Pools, Replacement
<1>4. Listening'
  BY Zenon DEF Pools, Listening, Thread
<1> QED
  BY <1>1, <1>2, <1>3, <1>4, Zenon DEF Pools

\* Start: the first pool.
LEMMA StartPools ==
  ASSUME TypeOK, Calls, Pools, ~MayStop, ~MayFail, Serve
  PROVE  Pools'
<1> USE ServerAssumption
<1>1. CASE StartFactory
  <2>1. factory' # 0 /\ ~started
    BY <1>1 DEF StartFactory, TypeOK, Pools
  <2> QED
    BY <1>1, <2>1 DEF StartFactory, Pools, Stage, Kept, Replacement, Listening, resetVars, poolVars, destroyVars
<1>2. CASE StartDone
  <2>1. PICK p \in Pool : NewPool(p) /\ pool' = p /\ heard' = heard \cup {p}
    BY <1>2, Zenon DEF StartDone
  <2>2. /\ p = numPools + 1 /\ numPools' = p /\ numPools \in Nat
        /\ \A q \in Pool : status'[q] = IF q = p THEN "up" ELSE status[q]
    BY <2>1, NewPoolTypes DEF TypeOK
  <2>3. ~started /\ started' /\ spc' = "up" /\ factory' # 0 /\ UNCHANGED <<rpc, arg, prev, made, dpc, cfg, panic>>
    BY <1>2, Zenon DEF StartDone, Pools, resetVars, destroyVars
  <2>4. status[p] = "none"
    BY <2>2 DEF Pools, Stage, Pool
  <2>5. dpc[p] = "none"
    BY <2>4 DEF Pools, Stage, TypeOK
  <2>6. Stage'
    <3>1. \A q \in Pool : q > numPools' => q # p /\ q > numPools
      BY <2>2 DEF Pool
    <3> QED
      BY <2>2, <2>3, <2>5, <3>1 DEF Pools, Stage
  <2>7. \A t \in Thread : rpc[t] \notin {"differs", "read", "create", "install"}
    BY <2>3, Zenon DEF Pools, Replacement
  <2>8. \A q \in Pool : q # 0
    BY DEF Pool
  <2>9. Kept'
    BY <2>1, <2>2, <2>3, <2>7, <2>8, Zenon DEF Pools, Kept
  <2>10. Replacement' /\ Listening'
    BY <2>3, <2>7, Zenon DEF Pools, Replacement, Listening
  <2> QED
    BY <2>1, <2>2, <2>3, <2>5, <2>6, <2>9, <2>10, Zenon DEF Pools
<1> QED
  BY <1>1, <1>2, Zenon DEF Serve, Pools, StartNoFactory, StartFail, StopLock, StopDetach, StopDestroy, StopDone

\* Reconfigure creates a pool and installs it in the place of the one it has read.
LEMMA ReconfigurePools ==
  ASSUME TypeOK, Calls, Pools, ~MayFail, NEW t \in Thread, Reconfigure(t)
  PROVE  Pools'
<1> USE ServerAssumption
<1>1. CASE Reset(t)
  <2>1. /\ rpc[t] = "reset" /\ \A u \in Thread : rpc'[u] = IF u = t THEN "lock" ELSE rpc[u]
        /\ \A u \in Thread : arg'[u] = IF u = t THEN cfg ELSE arg[u]
    BY <1>1, Zenon DEF Reset, At, TypeOK
  <2>2. UNCHANGED <<spc, started, factory, pool, heard, status, dpc, numPools, made, cfg, panic, prev>>
    BY <1>1, Zenon DEF Reset, serverVars, mainVars, poolVars, destroyVars
  <2>3. t \in Pool => started
    BY <2>1, Zenon DEF Pools, Listening
  <2> QED
    BY <2>1, <2>2, <2>3, MovePools, Zenon
<1>2. CASE Lock(t)
  <2>1. rpc[t] = "lock" /\ \A u \in Thread : rpc'[u] = IF u = t THEN "check" ELSE rpc[u]
    BY <1>2, Zenon DEF Lock, At, TypeOK
  <2>2. UNCHANGED <<spc, started, factory, pool, heard, status, dpc, numPools, made, cfg, panic, prev, arg>>
    BY <1>2, Zenon DEF Lock, serverVars, mainVars, poolVars, destroyVars
  <2>3. t \in Pool => started /\ arg[t] = cfg
    BY <2>1, Zenon DEF Pools, Listening
  <2> QED
    BY <2>1, <2>2, <2>3, MovePools, Zenon
<1>3. CASE NotStarted(t)
  <2>1. ~started /\ rpc[t] = "check" /\ Finish(t)
    BY <1>3, Zenon DEF NotStarted
  <2>2. UNCHANGED <<spc, started, factory, pool, heard, status, dpc, numPools, made, panic, prev, arg>>
    BY <1>3, Zenon DEF NotStarted, mainVars, destroyVars
  <2>3. \A u \in Thread : rpc'[u] = IF u = t THEN "idle" ELSE rpc[u]
    BY <2>1, FinishTypes, Zenon
  <2>4. \A p \in Pool : rpc'[p] = "idle"
    BY <2>1, <2>3, Zenon DEF Pools, Listening, Thread
  <2>5. Stage' /\ Replacement' /\ Listening'
    BY <2>1, <2>2, <2>3, <2>4 DEF Pools, Stage, Replacement, Listening
  <2>6. Kept'
    BY <2>1, <2>2, <2>3, Zenon DEF Pools, Kept, Replacement
  <2> QED
    BY <2>2, <2>5, <2>6, Zenon DEF Pools
<1>4. CASE Started(t)
  <2>1. started /\ rpc[t] = "check" /\ \A u \in Thread : rpc'[u] = IF u = t THEN "differs" ELSE rpc[u]
    BY <1>4, Zenon DEF Started, At, TypeOK
  <2>2. UNCHANGED <<spc, started, factory, pool, heard, status, dpc, numPools, made, cfg, panic, prev, arg>>
    BY <1>4, Zenon DEF Started, serverVars, mainVars, poolVars, destroyVars
  <2>3. t \in Pool => arg[t] = cfg
    BY <2>1, Zenon DEF Pools, Listening
  <2> QED
    BY <2>1, <2>2, <2>3, MovePools, Zenon
<1>5. CASE Differs(t)
  <2>1. UNCHANGED <<spc, started, factory, pool, heard, status, dpc, numPools, made, cfg, panic, prev, arg>>
    BY <1>5, Zenon DEF Differs, serverVars, mainVars, destroyVars
  <2>2. rpc[t] = "differs" /\ started /\ (t \in Pool => arg[t] = cfg)
    BY <1>5, Zenon DEF Differs, Pools, Listening, Replacement
  <2>3. CASE cfg = arg[t]
    <3>1. \A u \in Thread : rpc'[u] = IF u = t THEN "read" ELSE rpc[u]
      BY <1>5, <2>3, ZenonT(60) DEF Differs, At, TypeOK
    <3> QED
      BY <2>1, <2>2, <3>1, MovePools, Zenon
  <2>4. CASE cfg # arg[t]
    <3>1. t \notin Pool /\ \A u \in Thread : rpc'[u] = IF u = t THEN "idle" ELSE rpc[u]
      BY <1>5, <2>2, <2>4 DEF Differs, ReturnError, TypeOK
    <3> QED
      BY <2>1, <2>2, <3>1, MovePools, Zenon
  <2> QED
    BY <2>3, <2>4, Zenon
<1>6. CASE ReadPrevious(t)
  <2>1. /\ rpc[t] = "read" /\ \A u \in Thread : rpc'[u] = IF u = t THEN "create" ELSE rpc[u]
        /\ \A u \in Thread : prev'[u] = IF u = t THEN <<pool, pController>> ELSE prev[u]
    BY <1>6, Zenon DEF ReadPrevious, At, TypeOK
  <2>2. UNCHANGED <<spc, started, factory, pool, heard, status, dpc, numPools, made, cfg, panic, arg>>
    BY <1>6, Zenon DEF ReadPrevious, serverVars, mainVars, poolVars, destroyVars
  <2>3. started /\ (t \in Pool => arg[t] = cfg)
    BY <2>1, Zenon DEF Pools, Listening, Replacement
  <2>4. prev'[t][1] = pool
    BY <2>1
  <2> QED
    BY <2>1, <2>2, <2>3, <2>4, MovePools
<1>7. CASE Create(t)
  <2>1. PICK p \in Pool : NewPool(p) /\ made' = [made EXCEPT ![t] = p]
    BY <1>7, Zenon DEF Create
  <2>2. /\ p = numPools + 1 /\ numPools' = p /\ numPools \in Nat
        /\ \A q \in Pool : status'[q] = IF q = p THEN "up" ELSE status[q]
    BY <2>1, NewPoolTypes DEF TypeOK
  <2>3. /\ rpc[t] = "create" /\ \A u \in Thread : rpc'[u] = IF u = t THEN "install" ELSE rpc[u]
        /\ made'[t] = p
    BY <1>7, <2>1, Zenon DEF Create, At, TypeOK
  <2>4. UNCHANGED <<spc, started, factory, pool, heard, dpc, cfg, panic, prev, arg>>
    BY <1>7, Zenon DEF Create, serverVars, mainVars, destroyVars
  <2>5. status[p] = "none"
    BY <2>2 DEF Pools, Stage, Pool
  <2>6. dpc[p] = "none"
    BY <2>5, SMTT(30) DEF Pools, Stage, TypeOK
  <2>7. Stage'
    <3>1. \A q \in Pool : q > numPools' => q # p /\ q > numPools
      BY <2>2 DEF Pool
    <3> QED
      BY <2>2, <2>4, <2>6, <3>1 DEF Pools, Stage
  <2>8. \A u \in Thread : u # t => rpc[u] \notin Held
    BY <2>3, Zenon DEF Calls, Held
  <2>9. Kept'
    BY <2>2, <2>3, <2>4, <2>8, ZenonT(60) DEF Pools, Kept, Held
  <2>10. Replacement'
    BY <2>2, <2>3, <2>4, <2>6, <2>8 DEF Pools, Replacement, Held
  <2>11. Listening'
    BY <2>3, <2>4, Zenon DEF Pools, Listening, Thread
  <2>12. started /\ pool \in Pool /\ pool # p
    BY <2>3, <2>5, Zenon DEF Pools, Replacement, TypeOK
  <2> QED
    BY <2>2, <2>4, <2>7, <2>9, <2>10, <2>11, <2>12, Zenon DEF Pools
<1>8. CASE CreateFail(t)
  <2>1. rpc[t] = "create" /\ factory = 0
    BY <1>8, Zenon DEF CreateFail
  <2> QED
    BY <2>1, Zenon DEF Pools, Replacement
<1>9. CASE Install(t)
  <2>1. /\ rpc[t] = "install" /\ Finish(t) /\ pool' = made[t] /\ heard' = heard \cup {made[t]}
        /\ dpc' = [p \in Pool |-> IF p = prev[t][1] THEN "detach" ELSE dpc[p]]
        /\ panic' = IF prev[t][1] = NilPool THEN "pool" ELSE panic
    BY <1>9, Zenon DEF Install, Swap
  <2>2. UNCHANGED <<spc, started, factory, cfg, arg, prev, made, status, numPools>>
    BY <1>9, Zenon DEF Install, Swap, mainVars
  <2>3. \A u \in Thread : rpc'[u] = IF u = t THEN "idle" ELSE rpc[u]
    BY <2>1, FinishTypes, Zenon
  <2>4. /\ started /\ prev[t][1] = pool /\ status[made[t]] = "up" /\ dpc[made[t]] = "none"
        /\ pool \in heard /\ status[pool] = "up"
    BY <2>1, Zenon DEF Pools, Replacement
  <2>5. made[t] \notin heard /\ made[t] \in Pool /\ pool \in Pool /\ made[t] # pool /\ pool # NilPool
    BY <2>1, <2>4 DEF Calls, TypeOK, Pool
  <2>6. \A p \in Pool : dpc'[p] = IF p = pool THEN "detach" ELSE dpc[p]
    BY <2>1, <2>4, Zenon
  <2>7. Stage'
    BY <2>2, <2>4, <2>6 DEF Pools, Stage
  <2>8. \A u \in Thread : rpc'[u] \notin Held
    BY <2>1, <2>3, Zenon DEF Calls, Held
  <2>9. Kept'
    BY <2>1, <2>2, <2>6, <2>8 DEF Pools, Kept, Calls, Held
  <2>10. Replacement'
    BY <2>8, Zenon DEF Replacement, Held
  <2>11. Listening'
    BY <2>2, <2>3, Zenon DEF Pools, Listening, Thread
  <2>12. dpc'[pool'] = "none" /\ status'[pool'] = "up"
    BY <2>1, <2>2, <2>4, <2>5, <2>6, Zenon
  <2> QED
    BY <2>1, <2>2, <2>4, <2>5, <2>7, <2>9, <2>10, <2>11, <2>12, Zenon DEF Pools
<1> QED
  BY <1>1, <1>2, <1>3, <1>4, <1>5, <1>6, <1>7, <1>8, <1>9, Zenon DEF Reconfigure

\* The goroutine of Reconfigure works on a pool that has been replaced.
LEMMA DestroyPools ==
  ASSUME TypeOK, Calls, Pools, NEW p \in Pool, DestroyDetach(p) \/ DestroyPrevious(p)
  PROVE  Pools'
<1>1. UNCHANGED <<spc, started, factory, pool, heard, numPools, rpc, made, prev, arg, cfg>>
  BY Zenon DEF DestroyDetach, DestroyPrevious, DestroyBegin, DestroyClose, DestroyJoin,
         serverVars, mainVars, resetVars, poolVars
<1>2. /\ dpc[p] # "none" /\ dpc'[p] # "none" /\ \A q \in Pool : q # p => dpc'[q] = dpc[q] /\ status'[q] = status[q]
      /\ dpc' \in [Pool -> {"none", "detach", "destroy", "close", "join", "done"}]
  BY SMTT(30) DEF DestroyDetach, DestroyPrevious, DestroyBegin, DestroyClose, DestroyJoin, TypeOK, poolVars
<1>3. status[p] # "none" /\ p <= numPools
  <2>1. status[p] # "none"
    BY <1>2 DEF Pools, Stage, TypeOK
  <2>2. ~(p > numPools)
    BY <2>1, Zenon DEF Pools, Stage
  <2> QED
    BY <2>1, <2>2, ServerAssumption DEF TypeOK, Pool
<1>4. Stage' /\ panic' \in {panic, "detach"}
  <2>1. CASE DestroyDetach(p)
    BY <1>1, <1>2, <1>3, <2>1 DEF DestroyDetach, Detach, Pools, Stage, poolVars, TypeOK
  <2>2. CASE DestroyPrevious(p)
    <3>1. /\ dpc'[p] = "close" => status'[p] = "waiting"
          /\ dpc'[p] = "join" => status'[p] = "closed"
          /\ dpc'[p] = "done" => status'[p] = "gone"
          /\ dpc'[p] \in {"close", "join", "done"} /\ panic' = panic
      BY <2>2 DEF DestroyPrevious, DestroyBegin, DestroyClose, DestroyJoin, Pools, Stage, TypeOK
    <3> QED
      BY <1>1, <1>2, <1>3, <3>1 DEF Pools, Stage, TypeOK, Pool
  <2> QED
    BY <2>1, <2>2, Zenon
<1>5. Kept'
  BY <1>1, <1>2 DEF Pools, Kept
<1>6. Replacement'
  <2> SUFFICES ASSUME NEW t \in Thread, rpc[t] = "install"
               PROVE  status'[made[t]] = "up" /\ dpc'[made[t]] = "none"
    BY <1>1, Zenon DEF Pools, Replacement
  <2>1. made[t] \in Pool /\ status[made[t]] = "up" /\ dpc[made[t]] = "none"
    BY DEF Pools, Replacement, Calls, TypeOK, Pool
  <2> QED
    BY <1>2, <2>1, Zenon
<1>7. Listening'
  BY <1>1, Zenon DEF Pools, Listening
<1>8. started => pool \in Pool /\ pool # p
  BY <1>2, Zenon DEF Pools, TypeOK
<1> QED
  BY <1>1, <1>2, <1>4, <1>5, <1>6, <1>7, <1>8, Zenon DEF Pools

\* Every step of a server that is not stopped and whose NewPool does not fail keeps Pools.
LEMMA NextPools ==
  ASSUME ~MayStop, ~MayFail
  PROVE  TypeOK /\ Calls /\ Pools /\ [Next]_vars => Pools'
<1> SUFFICES ASSUME TypeOK, Calls, Pools, [Next]_vars PROVE Pools'
  BY Zenon
<1>1. CASE Attach
  <2>1. UNCHANGED <<spc, started, factory, pool, heard, status, dpc, numPools, rpc, made, prev, arg, cfg>>
    BY <1>1, Zenon DEF Attach, mainVars, resetVars, poolVars, destroyVars
  <2>2. panic' \in {panic, "detach"}
    BY <1>1, Zenon DEF Attach, Detach
  <2> QED
    BY <2>1, <2>2, OtherPools, Zenon
<1>2. ASSUME NEW r \in Resetter, Call(r) PROVE Pools'
  <2>1. r \in Thread /\ r \notin Pool /\ rpc[r] = "idle"
    BY <1>2, ServerAssumption, Zenon DEF Thread, Pool, Call
  <2>2. PICK x \in {"reset", "lock"} : rpc' = [rpc EXCEPT ![r] = x]
    BY <1>2, Zenon DEF Call
  <2>3. \A u \in Thread : rpc'[u] = IF u = r THEN x ELSE rpc[u]
    BY <2>1, <2>2, Zenon DEF TypeOK
  <2>4. UNCHANGED <<spc, started, factory, pool, heard, status, dpc, numPools, made, cfg, panic, prev>>
    BY <1>2, Zenon DEF Call, serverVars, mainVars, poolVars, destroyVars
  <2>5. \A u \in Thread : u # r => arg'[u] = arg[u]
    BY <1>2, <2>1, Zenon DEF Call, TypeOK
  <2> QED
    BY <2>1, <2>2, <2>3, <2>4, <2>5, MovePools, Zenon
<1>3. ASSUME NEW p \in Pool, PoolDies(p) \/ PoolRevives(p) PROVE Pools'
  <2>1. UNCHANGED <<spc, started, factory, pool, heard, status, dpc, numPools, rpc, made, prev, arg, cfg, panic>>
    BY <1>3, Zenon DEF PoolDies, PoolRevives, serverVars, mainVars, resetVars, destroyVars
  <2> QED
    BY <2>1, OtherPools, Zenon
<1>4. ASSUME NEW p \in Pool, PoolThrow(p) PROVE Pools'
  <2>1. UNCHANGED <<spc, started, factory, pool, heard, status, dpc, numPools, made, prev, arg, cfg, panic>>
    BY <1>4, Zenon DEF PoolThrow, serverVars, mainVars, destroyVars
  <2>2. p \in Thread /\ rpc[p] = "idle"
    BY <1>4, Zenon DEF PoolThrow, Calls, Thread, TypeOK
  <2>3. CASE p \in heard
    <3>1. \A u \in Thread : rpc'[u] = IF u = p THEN "reset" ELSE rpc[u]
      BY <1>4, <2>2, <2>3, Zenon DEF PoolThrow, TypeOK
    <3>2. started
      BY <2>3, Zenon DEF Pools
    <3> QED
      BY <2>1, <2>2, <3>1, <3>2, MovePools, Zenon
  <2>4. CASE p \notin heard
    <3>1. rpc' = rpc
      BY <1>4, <2>4, Zenon DEF PoolThrow
    <3> QED
      BY <2>1, <3>1, OtherPools, Zenon
  <2> QED
    BY <2>3, <2>4, Zenon
<1>5. ASSUME NEW p \in Pool, PoolListenerFail(p) PROVE Pools'
  BY <1>5, Zenon DEF PoolListenerFail, Pools, Listening
<1>6. ASSUME NEW c \in Client, ExecPool(c) \/ ExecEnter(c) \/ ExecReturn(c) PROVE Pools'
  <2>1. UNCHANGED <<spc, started, factory, pool, heard, status, dpc, numPools, rpc, made, prev, arg, cfg, panic>>
    BY <1>6, Zenon DEF ExecPool, ExecEnter, ExecReturn, serverVars, mainVars, resetVars, poolVars, destroyVars
  <2> QED
    BY <2>1, OtherPools, Zenon
<1>7. CASE UNCHANGED vars
  <2>1. UNCHANGED <<spc, started, factory, pool, heard, status, dpc, numPools, rpc, made, prev, arg, cfg, panic>>
    BY <1>7, Zenon DEF vars, serverVars, mainVars, resetVars, poolVars, destroyVars
  <2> QED
    BY <2>1, OtherPools, Zenon
<1> QED
  BY <1>1, <1>2, <1>3, <1>4, <1>5, <1>6, <1>7, StartPools, ReconfigurePools, DestroyPools, Zenon DEF Next

\* The pools of such a server are always as Pools says.
LEMMA SpecPools ==
  ASSUME ~MayStop, ~MayFail
  PROVE  Spec => [](TypeOK /\ Calls /\ Pools)
<1>1. TypeOK /\ Calls /\ Pools /\ [Next]_vars => (TypeOK /\ Calls /\ Pools)'
  BY NextTyped, NextCalls, NextPools, Zenon
<1> QED
  BY <1>1, InitTyped, InitPools, PTL DEF Spec

\* No pool is forgotten by a server that is not stopped and whose NewPool does not fail: one that is up is
\* the pool of the server, or about to become it, or about to be destroyed by the goroutine Reconfigure
\* leaves behind (server.go, Reconfigure), however Reset, Reconfigure, poolListener, Exec and Attach interleave.
THEOREM PoolsAreAccounted ==
  ASSUME ~MayStop, ~MayFail
  PROVE  Spec => []PoolsAccounted
<1>1. TypeOK /\ Calls /\ Pools => PoolsAccounted
  BY DEF Pools, Stage, Kept, PoolsAccounted, TypeOK
<1> QED
  BY <1>1, SpecPools, PTL

\* Such a server always has a pool that accepts jobs, once it is started.
THEOREM PoolIsActive ==
  ASSUME ~MayStop, ~MayFail
  PROVE  Spec => []ActivePool
<1>1. TypeOK /\ Calls /\ Pools => ActivePool
  BY Zenon DEF Pools, ActivePool, TypeOK
<1> QED
  BY <1>1, SpecPools, PTL
-----------------------------------------------------------------------------
(* The controllers of a server that is not stopped and not attached to again *)

\* Before Start there is no controller.
LEMMA InitControllers == Init => Controllers
<1> SUFFICES ASSUME Init PROVE Controllers
  BY Zenon
<1>1. Attached = 1..pController
  BY DEF Init, Attached
<1> QED
  BY <1>1, Zenon DEF Init, Controllers

\* Steps that attach and detach nothing.
LEMMA OtherControllers ==
  ASSUME Controllers,
         UNCHANGED <<on, pController, off, started, controller, pool, panic, dwatch>>,
         \A p \in Pool : dpc'[p] = "detach" => dpc[p] = "detach",
         \A t \in Thread : rpc'[t] \in {"create", "install"} => prev'[t][2] = pController
  PROVE  Controllers'
<1>1. Attached' = Attached
  BY Zenon DEF Attached
<1> QED
  BY <1>1, Zenon DEF Controllers

\* Start attaches the first controller to the first pool.
LEMMA ServeControllers ==
  ASSUME TypeOK, Calls, Pools, Controllers, ~MayStop, ~MayFail, Serve
  PROVE  Controllers'
<1> USE ServerAssumption
<1>1. CASE StartFactory
  <2>1. UNCHANGED <<on, pController, off, started, controller, pool, panic, dwatch, dpc, rpc, prev>>
    BY <1>1, Zenon DEF StartFactory, resetVars, destroyVars, watchVars
  <2> QED
    BY <2>1, OtherControllers, Zenon DEF Controllers
<1>2. CASE StartDone
  <2>1. PICK p \in Pool : NewPool(p) /\ pool' = p
    BY <1>2, Zenon DEF StartDone
  <2>2. ~started /\ started' /\ UNCHANGED <<rpc, prev, dpc, dwatch, off, panic, controller>>
    BY <1>2, Zenon DEF StartDone, Pools, resetVars, destroyVars
  <2>3. pController = 0 /\ off = {} /\ Attached = 1..0
    BY <2>2 DEF Controllers
  <2>4. NumWatchers = 0
    BY <2>3, Numbered, ServerAssumption
  <2>5. \A t \in Thread : rpc'[t] \notin {"create", "install"}
    BY <2>2, Zenon DEF Pools, Replacement
  <2>6. \A q \in Pool : dpc[q] = "detach" => dwatch[q] = 0
    BY <2>3 DEF Controllers, TypeOK
  <2>7. CASE controller
    <3>1. AttachTo(p) /\ p \in (0..MaxPools \cup {NilPool}) \ {0} /\ MaxPools > 0
      BY <1>2, <2>1, <2>7 DEF StartDone, AttachTo, Pool
    <3>2. NumWatchers < MaxPools + MaxAttach
      BY <2>4, <3>1
    <3>3. pController' = 1 /\ Attached' = 1..1 /\ on'[1] = p
      BY <2>4, <3>1, <3>2, AttachNumbers
    <3> QED
      BY <2>1, <2>2, <2>3, <2>5, <2>6, <2>7, <3>3 DEF Controllers
  <2>8. CASE ~controller
    <3>1. pController' = pController /\ Attached' = Attached
      BY <1>2, <2>8, Zenon DEF StartDone, Attached
    <3> QED
      BY <2>2, <2>3, <2>5, <2>6, <2>8, <3>1, Zenon DEF Controllers
  <2> QED
    BY <2>7, <2>8, Zenon
<1> QED
  BY <1>1, <1>2, Zenon DEF Serve, Pools, StartNoFactory, StartFail, StopLock, StopDetach, StopDestroy, StopDone

\* Reconfigure attaches a controller to the new pool and leaves the previous one to its goroutine.
LEMMA ReconfigureControllers ==
  ASSUME TypeOK, Calls, Pools, Controllers, NEW t \in Thread, Reconfigure(t)
  PROVE  Controllers'
<1> USE ServerAssumption
<1>1. CASE Reset(t) \/ Lock(t) \/ Started(t)
  <2>1. PICK x \in {"lock", "check", "differs"} : rpc' = [rpc EXCEPT ![t] = x]
    BY <1>1, Zenon DEF Reset, Lock, Started, At
  <2>2. UNCHANGED <<on, pController, off, started, controller, pool, panic, dwatch, dpc, prev>>
    BY <1>1, Zenon DEF Reset, Lock, Started, serverVars, destroyVars, watchVars
  <2>3. \A u \in Thread : rpc'[u] \in {"create", "install"} => rpc[u] \in {"create", "install"}
    BY <2>1, Zenon DEF TypeOK
  <2>4. \A u \in Thread : rpc'[u] \in {"create", "install"} => prev'[u][2] = pController
    BY <2>2, <2>3, Zenon DEF Controllers
  <2> QED
    BY <2>2, <2>4, OtherControllers, Zenon
<1>2. CASE NotStarted(t)
  <2>1. Finish(t) /\ UNCHANGED <<on, pController, off, started, controller, pool, panic, dwatch, dpc, prev>>
    BY <1>2, Zenon DEF NotStarted, destroyVars, watchVars
  <2>2. \A u \in Thread : rpc'[u] \in {"create", "install"} => rpc[u] \in {"create", "install"}
    BY <2>1, FinishTypes, Zenon
  <2>3. \A u \in Thread : rpc'[u] \in {"create", "install"} => prev'[u][2] = pController
    BY <2>1, <2>2, Zenon DEF Controllers
  <2> QED
    BY <2>1, <2>3, OtherControllers, Zenon
<1>3. CASE Differs(t) \/ CreateFail(t)
  <2>1. PICK x \in {"fail", "idle", "read"} : rpc' = [rpc EXCEPT ![t] = x]
    BY <1>3, Zenon DEF Differs, CreateFail, ReturnError, At
  <2>2. panic' = panic
    BY <1>3, Zenon DEF Differs, CreateFail, Pools, Replacement
  <2>3. UNCHANGED <<on, pController, off, started, controller, pool, panic, dwatch, dpc, prev>>
    BY <1>3, <2>2, Zenon DEF Differs, CreateFail, serverVars, destroyVars, watchVars
  <2>4. \A u \in Thread : rpc'[u] \in {"create", "install"} => rpc[u] \in {"create", "install"}
    BY <2>1, Zenon DEF TypeOK
  <2>5. \A u \in Thread : rpc'[u] \in {"create", "install"} => prev'[u][2] = pController
    BY <2>3, <2>4, Zenon DEF Controllers
  <2> QED
    BY <2>3, <2>5, OtherControllers, Zenon
<1>4. CASE ReadPrevious(t)
  <2>1. /\ \A u \in Thread : rpc'[u] = IF u = t THEN "create" ELSE rpc[u]
        /\ \A u \in Thread : prev'[u] = IF u = t THEN <<pool, pController>> ELSE prev[u]
    BY <1>4, Zenon DEF ReadPrevious, At, TypeOK
  <2>2. UNCHANGED <<on, pController, off, started, controller, pool, panic, dwatch, dpc>>
    BY <1>4, Zenon DEF ReadPrevious, serverVars, destroyVars, watchVars
  <2>3. \A u \in Thread : rpc'[u] \in {"create", "install"} => prev'[u][2] = pController
    <3>1. prev'[t][2] = pController
      BY <2>1
    <3>2. \A u \in Thread : u # t /\ rpc'[u] \in {"create", "install"} => prev'[u][2] = pController
      BY <2>1, Zenon DEF Controllers
    <3> QED
      BY <3>1, <3>2, Zenon
  <2> QED
    BY <2>2, <2>3, OtherControllers, Zenon
<1>5. CASE Create(t)
  <2>1. rpc[t] = "create" /\ \A u \in Thread : rpc'[u] = IF u = t THEN "install" ELSE rpc[u]
    BY <1>5, Zenon DEF Create, At, TypeOK
  <2>2. UNCHANGED <<on, pController, off, started, controller, pool, panic, dwatch, dpc, prev>>
    BY <1>5, Zenon DEF Create, serverVars, destroyVars, watchVars
  <2>3. \A u \in Thread : rpc'[u] \in {"create", "install"} => prev'[u][2] = pController
    BY <2>1, <2>2, Zenon DEF Controllers
  <2> QED
    BY <2>2, <2>3, OtherControllers, Zenon
<1>6. CASE Install(t)
  <2>1. /\ rpc[t] = "install" /\ Finish(t) /\ pool' = made[t]
        /\ dpc' = [p \in Pool |-> IF p = prev[t][1] THEN "detach" ELSE dpc[p]]
        /\ dwatch' = [p \in Pool |-> IF p = prev[t][1] THEN prev[t][2] ELSE dwatch[p]]
        /\ panic' = IF prev[t][1] = NilPool THEN "pool" ELSE panic
        /\ UNCHANGED <<started, controller, off>>
    BY <1>6, Zenon DEF Install, Swap
  <2>2. started /\ prev[t][1] = pool /\ prev[t][2] = pController /\ pool \in Pool
    BY <2>1, Zenon DEF Pools, Replacement, Controllers, TypeOK
  <2>3. panic' = "none"
    BY <2>1, <2>2 DEF Controllers, Pool
  <2>4. \A p \in Pool : /\ dpc'[p] = IF p = pool THEN "detach" ELSE dpc[p]
                        /\ dwatch'[p] = IF p = pool THEN pController ELSE dwatch[p]
    BY <2>1, <2>2, Zenon
  <2>5. \A u \in Thread : rpc'[u] \notin {"create", "install"}
    <3>1. \A u \in Thread : rpc'[u] = IF u = t THEN "idle" ELSE rpc[u]
      BY <2>1, FinishTypes, Zenon
    <3> QED
      BY <2>1, <3>1, Zenon DEF Calls, Held
  <2>6. pController \in Nat /\ off \subseteq 1..(pController - 1) /\ NumWatchers = pController
    <3>1. pController \in 0..(MaxPools + MaxAttach)
      BY ServerAssumption DEF TypeOK, Watcher
    <3> QED
      BY <3>1, Numbered DEF Controllers
  <2>7. CASE controller
    <3>1. made[t] \in (0..MaxPools \cup {NilPool}) \ {0}
      BY <2>1 DEF Calls, TypeOK, Pool
    <3>2. AttachTo(made[t])
      BY <1>6, <2>7, Zenon DEF Install, Swap
    <3>3. NumWatchers < MaxPools + MaxAttach
      BY <2>1, RoomLeft, Zenon
    <3>4. pController' = pController + 1 /\ Attached' = 1..(pController + 1) /\ on'[pController + 1] = made[t]
      BY <2>6, <3>1, <3>2, <3>3, AttachNumbers, Zenon
    <3>5. off' \subseteq 1..(pController' - 1)
      BY <2>1, <2>6, <3>4
    <3>6. ASSUME NEW p \in Pool, dpc'[p] = "detach", dwatch'[p] # 0
          PROVE  /\ dwatch'[p] \in 1..(pController' - 1) /\ dwatch'[p] \notin off'
                 /\ \A q \in Pool : dpc'[q] = "detach" /\ dwatch'[q] = dwatch'[p] => q = p
      <4>1. CASE p = pool
        <5>1. dwatch'[p] = pController /\ pController # 0
          BY <2>4, <3>6, <4>1, Zenon
        <5>2. \A q \in Pool : q # pool /\ dpc[q] = "detach" => dwatch[q] # pController
          BY <2>6, <5>1 DEF Controllers
        <5>3. \A q \in Pool : dpc'[q] = "detach" /\ dwatch'[q] = dwatch'[p] => q = p
          BY <2>4, <4>1, <5>1, <5>2, Zenon
        <5>4. dwatch'[p] \in 1..(pController' - 1) /\ dwatch'[p] \notin off'
          BY <2>1, <2>6, <3>4, <5>1
        <5> QED
          BY <5>3, <5>4, Zenon
      <4>2. CASE p # pool
        <5>1. dpc[p] = "detach" /\ dwatch[p] # 0 /\ dwatch'[p] = dwatch[p]
          BY <2>4, <3>6, <4>2, Zenon
        <5>2. /\ dwatch[p] \in 1..(pController - 1) /\ dwatch[p] \notin off
              /\ \A q \in Pool : dpc[q] = "detach" /\ dwatch[q] = dwatch[p] => q = p
          BY <5>1, Zenon DEF Controllers
        <5>3. dwatch[p] # pController /\ dwatch[p] \in 1..(pController' - 1)
          BY <2>6, <3>4, <5>2
        <5> QED
          BY <2>1, <2>4, <5>1, <5>2, <5>3
      <4> QED
        BY <4>1, <4>2, Zenon
    <3>7. pController' # 0 /\ on'[pController'] = pool'
      BY <2>1, <2>6, <3>4
    <3> QED
      BY <2>1, <2>2, <2>3, <2>5, <2>7, <3>4, <3>5, <3>6, <3>7, ZenonT(60) DEF Controllers
  <2>8. CASE ~controller
    <3>1. pController = 0 /\ pController' = 0 /\ Attached' = Attached
      BY <1>6, <2>8, Zenon DEF Install, Swap, Attached, Controllers
    <3>2. \A p \in Pool : dpc'[p] = "detach" => dwatch'[p] = 0
      BY <2>4, <3>1 DEF Controllers
    <3> QED
      BY <2>1, <2>3, <2>5, <2>8, <3>1, <3>2, Zenon DEF Controllers
  <2> QED
    BY <2>7, <2>8, Zenon
<1> QED
  BY <1>1, <1>2, <1>3, <1>4, <1>5, <1>6, Zenon DEF Reconfigure

\* The goroutine of Reconfigure detaches its controller, which nobody else does.
LEMMA DetachControllers ==
  ASSUME TypeOK, Controllers, NEW p \in Pool, DestroyDetach(p)
  PROVE  Controllers'
<1>1. /\ dpc[p] = "detach" /\ \A q \in Pool : dpc'[q] = IF q = p THEN "destroy" ELSE dpc[q]
      /\ UNCHANGED <<on, pController, started, controller, pool, dwatch, rpc, prev>>
  BY Zenon DEF DestroyDetach, TypeOK, serverVars, resetVars
<1>2. Attached' = Attached
  BY <1>1, Zenon DEF Attached
<1>3. CASE dwatch[p] = 0
  <2>1. UNCHANGED <<off, panic>>
    BY <1>3, Zenon DEF DestroyDetach
  <2> QED
    BY <1>1, <1>2, <2>1 DEF Controllers
<1>4. CASE dwatch[p] # 0
  <2>1. /\ dwatch[p] \in 1..(pController - 1) /\ dwatch[p] \notin off
        /\ \A q \in Pool : dpc[q] = "detach" /\ dwatch[q] = dwatch[p] => q = p
    BY <1>1, <1>4, Zenon DEF Controllers
  <2>2. off' = off \cup {dwatch[p]} /\ panic' = panic
    BY <1>4, <2>1, Zenon DEF DestroyDetach, Detach
  <2>3. off' \subseteq 1..(pController' - 1) /\ panic' = "none"
    BY <1>1, <2>1, <2>2, Zenon DEF Controllers
  <2>4. ASSUME NEW q \in Pool, dpc'[q] = "detach", dwatch'[q] # 0
        PROVE  /\ dwatch'[q] \in 1..(pController' - 1) /\ dwatch'[q] \notin off'
               /\ \A r \in Pool : dpc'[r] = "detach" /\ dwatch'[r] = dwatch'[q] => r = q
    <3>1. dpc[q] = "detach" /\ dwatch[q] # 0 /\ q # p
      BY <1>1, <2>4, Zenon
    <3>2. /\ dwatch[q] \in 1..(pController - 1) /\ dwatch[q] \notin off
          /\ \A r \in Pool : dpc[r] = "detach" /\ dwatch[r] = dwatch[q] => r = q
      BY <3>1, Zenon DEF Controllers
    <3>3. dwatch[q] # dwatch[p]
      BY <2>1, <3>1, Zenon
    <3> QED
      BY <1>1, <2>2, <3>2, <3>3, Zenon
  <2> QED
    BY <1>1, <1>2, <2>3, <2>4, Zenon DEF Controllers
<1> QED
  BY <1>3, <1>4, Zenon

\* Every step of a server that is not stopped, whose NewPool does not fail and that is not attached to
\* again keeps Controllers.
LEMMA NextControllers ==
  ASSUME ~MayStop, ~MayFail, MaxAttach = 0
  PROVE  TypeOK /\ Calls /\ Pools /\ Controllers /\ [Next]_vars => Controllers'
<1> SUFFICES ASSUME TypeOK, Calls, Pools, Controllers, [Next]_vars PROVE Controllers'
  BY Zenon
<1>1. ~Attach
  BY DEF Attach, TypeOK
<1>2. ASSUME NEW r \in Resetter, Call(r) PROVE Controllers'
  <2>1. UNCHANGED <<on, pController, off, started, controller, pool, panic, dwatch, dpc, prev>>
    BY <1>2, Zenon DEF Call, serverVars, destroyVars, watchVars
  <2>2. \A u \in Thread : rpc'[u] \in {"create", "install"} => rpc[u] \in {"create", "install"}
    BY <1>2 DEF Call, TypeOK, Thread
  <2>3. \A u \in Thread : rpc'[u] \in {"create", "install"} => prev'[u][2] = pController
    BY <2>1, <2>2, Zenon DEF Controllers
  <2> QED
    BY <2>1, <2>3, OtherControllers, Zenon
<1>3. ASSUME NEW p \in Pool, DestroyPrevious(p) PROVE Controllers'
  <2>1. UNCHANGED <<on, pController, off, started, controller, pool, dwatch, rpc, prev>>
    BY <1>3, Zenon DEF DestroyPrevious, serverVars, resetVars, watchVars
  <2>2. \A q \in Pool : dpc'[q] = "detach" => dpc[q] = "detach"
    BY <1>3 DEF DestroyPrevious, TypeOK
  <2>3. panic' = panic
    BY <1>3, Zenon DEF DestroyPrevious, DestroyBegin, Pools, Stage
  <2> QED
    BY <2>1, <2>2, <2>3, OtherControllers, Zenon DEF Controllers
<1>4. ASSUME NEW p \in Pool, PoolDies(p) \/ PoolRevives(p) \/ PoolThrow(p) PROVE Controllers'
  <2>1. UNCHANGED <<on, pController, off, started, controller, pool, panic, dwatch, dpc, prev>>
    BY <1>4, ZenonT(60) DEF PoolDies, PoolRevives, PoolThrow, serverVars, resetVars, destroyVars, watchVars
  <2>2. \A u \in Thread : rpc'[u] \in {"create", "install"} => rpc[u] \in {"create", "install"}
    BY <1>4 DEF PoolDies, PoolRevives, PoolThrow, resetVars, TypeOK
  <2>3. \A u \in Thread : rpc'[u] \in {"create", "install"} => prev'[u][2] = pController
    BY <2>1, <2>2, Zenon DEF Controllers
  <2> QED
    BY <2>1, <2>3, OtherControllers, Zenon
<1>5. ASSUME NEW p \in Pool, PoolListenerFail(p) PROVE Controllers'
  BY <1>5, Zenon DEF PoolListenerFail, Pools, Listening
<1>6. ASSUME NEW c \in Client, ExecPool(c) \/ ExecEnter(c) \/ ExecReturn(c) PROVE Controllers'
  <2>1. UNCHANGED <<on, pController, off, started, controller, pool, panic, dwatch, dpc, rpc, prev>>
    BY <1>6, Zenon DEF ExecPool, ExecEnter, ExecReturn, serverVars, resetVars, destroyVars, watchVars
  <2> QED
    BY <2>1, OtherControllers, Zenon DEF Controllers
<1>7. CASE UNCHANGED vars
  <2>1. UNCHANGED <<on, pController, off, started, controller, pool, panic, dwatch, dpc, rpc, prev>>
    BY <1>7, Zenon DEF vars, serverVars, resetVars, destroyVars, watchVars
  <2> QED
    BY <2>1, OtherControllers, Zenon DEF Controllers
<1> QED
  BY <1>1, <1>2, <1>3, <1>4, <1>5, <1>6, <1>7, ServeControllers, ReconfigureControllers, DetachControllers, Zenon
     DEF Next

\* The pools and the controllers of such a server.
LEMMA SpecControllers ==
  ASSUME ~MayStop, ~MayFail, MaxAttach = 0
  PROVE  Spec => [](TypeOK /\ Calls /\ Pools /\ Controllers)
<1>1. TypeOK /\ Calls /\ Pools /\ Controllers /\ [Next]_vars => (TypeOK /\ Calls /\ Pools /\ Controllers)'
  BY NextTyped, NextCalls, NextPools, NextControllers, Zenon
<1> QED
  BY <1>1, InitTyped, InitPools, InitControllers, PTL DEF Spec

\* A server that is not stopped, whose NewPool does not fail and that is not attached to again never
\* panics: Reconfigure destroys every pool once and detaches every controller once, and finds s.factory,
\* which it reads without s.mu, set (server.go, Reconfigure).
THEOREM ResetsDoNotPanic ==
  ASSUME ~MayStop, ~MayFail, MaxAttach = 0
  PROVE  Spec => []NoPanic
<1>1. Controllers => NoPanic
  BY Zenon DEF Controllers, NoPanic
<1> QED
  BY <1>1, SpecControllers, PTL

\* The pool of such a server accepts jobs and is observed by its controller, whatever Reset, Reconfigure and
\* poolListener replace (server.go, Reconfigure replaces s.pool and s.pController together).
THEOREM PoolIsWatched ==
  ASSUME ~MayStop, ~MayFail, MaxAttach = 0
  PROVE  Spec => []ActiveAndWatched
<1>1. TypeOK /\ Pools => ActivePool
  BY Zenon DEF Pools, ActivePool, TypeOK
<1>2. TypeOK /\ Controllers => Watched
  <2> SUFFICES ASSUME TypeOK, Controllers, started, controller
               PROVE  pController # 0 /\ pController \notin off /\ on[pController] = pool
    BY Zenon DEF Watched
  <2>1. pController \in Nat
    BY ServerAssumption DEF TypeOK, Watcher
  <2>2. pController \notin 1..(pController - 1)
    BY <2>1
  <2> QED
    BY <2>2, Zenon DEF Controllers
<1> QED
  BY <1>1, <1>2, SpecControllers, PTL DEF ActiveAndWatched
-----------------------------------------------------------------------------
(* A server that is started and stopped *)

\* Before Start there is nothing.
LEMMA InitLifetime == Init => Lifetime
<1>1. Pool \subseteq Thread
  BY Zenon DEF Thread
<1>2. Init => Attached = {}
  BY Zenon DEF Init, Attached
<1>3. Init => started = (spc \notin {"down", "starting"})
  BY Zenon DEF Init
<1> QED
  BY <1>1, <1>2, <1>3 DEF Init, Lifetime

\* Steps outside the goroutine that calls Start, Stop and Attach.
LEMMA OtherLifetime ==
  ASSUME Lifetime,
         UNCHANGED <<rpc, lpc, dpc, started, spc, pool, status, pController, on, off, panic>>
  PROVE  Lifetime'
<1>1. Attached' = Attached
  BY Zenon DEF Attached
<1> QED
  BY <1>1, Zenon DEF Lifetime

\* Start and Stop.
LEMMA ServeLifetime ==
  ASSUME TypeOK, Calls, Lifetime, Serve
  PROVE  Lifetime'
<1> USE ServerAssumption
<1>0. ~StartDone => Attached' = Attached
  BY Zenon DEF Serve, StartNoFactory, StartFactory, StartFail, StopLock, StopDetach, StopDestroy, StopDone,
               Attached, watchVars
<1>1. CASE StartNoFactory
  BY <1>0, <1>1, Zenon DEF StartNoFactory, StartDone, Lifetime, resetVars, poolVars, destroyVars, watchVars
<1>2. CASE StartFactory
  BY <1>0, <1>2, Zenon DEF StartFactory, StartDone, Lifetime, resetVars, poolVars, destroyVars, watchVars
<1>3. CASE StartFail
  <2>1. UNCHANGED <<rpc, lpc, dpc, started, status, pController, off, panic>> /\ spc' = "down" /\ ~started
    BY <1>3, Zenon DEF StartFail, Lifetime, resetVars, poolVars, destroyVars, watchVars
  <2>2. Attached' = Attached
    BY <1>3, Zenon DEF StartFail, Attached, watchVars
  <2> QED
    BY <1>3, <2>1, <2>2, Zenon DEF StartFail, Lifetime
<1>4. CASE StartDone
  <2>1. PICK p \in Pool : NewPool(p) /\ pool' = p /\ heard' = heard \cup {p}
    BY <1>4, Zenon DEF StartDone
  <2>2. /\ p \in 1..MaxPools /\ p = numPools + 1 /\ lpc' = lpc
        /\ \A q \in Pool : status'[q] = IF q = p THEN "up" ELSE status[q]
    BY <2>1, NewPoolTypes, Zenon DEF Pool
  <2>3. UNCHANGED <<rpc, dpc, off, panic>> /\ started' /\ spc' = "up" /\ ~started /\ pController = 0
    BY <1>4, Zenon DEF StartDone, resetVars, destroyVars, Lifetime
  <2>4. /\ Attached' \subseteq off \cup {pController'} /\ off \subseteq Attached'
        /\ pController' \notin off /\ (pController' # 0 => pController' \in Attached')
    <3>1. 0 \notin Attached
      BY DEF Attached, Watcher
    <3>2. CASE controller
      <4>1. AttachTo(p) /\ p \in (0..MaxPools \cup {NilPool}) \ {0}
        BY <1>4, <2>1, <2>2, <3>2 DEF StartDone, AttachTo
      <4>2. NumWatchers < MaxPools + MaxAttach
        BY <2>2, RoomLeft
      <4>3. pController' = NumWatchers + 1 /\ Attached' = 1..(NumWatchers + 1) /\ Attached = 1..NumWatchers
        BY <4>1, <4>2, AttachNumbers, Zenon DEF Calls
      <4>4. Attached' = Attached \cup {pController'} /\ pController' \notin Attached
        BY <4>3, RoomLeft
      <4> QED
        BY <2>3, <3>1, <4>4, Zenon DEF Lifetime
    <3>3. CASE ~controller
      <4>1. pController' = pController /\ Attached' = Attached
        BY <1>4, <3>3, Zenon DEF StartDone, Attached
      <4> QED
        BY <4>1, Zenon DEF Lifetime
    <3> QED
      BY <3>2, <3>3, Zenon
  <2>5. \A q \in Pool : q = p \/ status'[q] \in {"none", "gone"}
    BY <2>2, <2>3, Zenon DEF Lifetime
  <2> QED
    BY <2>1, <2>2, <2>3, <2>4, <2>5, Zenon DEF Lifetime
<1>5. CASE StopLock
  <2>1. UNCHANGED <<rpc, lpc, dpc, started, pool, status, pController, on, off, panic>> /\ spc = "up" /\ started /\ spc' = "detach"
    BY <1>5, Zenon DEF StopLock, Lifetime, serverVars, resetVars, poolVars, destroyVars, watchVars
  <2>2. Attached' = Attached
    BY <2>1, Zenon DEF Attached
  <2> QED
    BY <2>1, <2>2, Zenon DEF Lifetime
<1>6. CASE StopDetach
  <2>1. /\ UNCHANGED <<rpc, lpc, dpc, started, pool, status>> /\ spc = "detach" /\ spc' = "destroy"
        /\ pController' = 0 /\ Attached' = Attached /\ started
    BY <1>6, Zenon DEF StopDetach, Lifetime, resetVars, poolVars, destroyVars, Attached
  <2>2. panic' = "none" /\ off' = IF pController # 0 THEN off \cup {pController} ELSE off
    BY <1>6, Zenon DEF StopDetach, Detach, Lifetime
  <2>3. 0 \notin Attached
    BY DEF Attached, Watcher
  <2> QED
    BY <2>1, <2>2, <2>3, Zenon DEF Lifetime
<1>7. CASE StopDestroy
  <2>1. /\ UNCHANGED <<rpc, lpc, dpc, started, pool, pController, off>> /\ started
        /\ spc \notin {"up", "detach"} /\ spc' \in {"close", "join"} /\ pool \in Pool
    BY <1>7, Zenon DEF StopDestroy, DestroyBegin, DestroyClose, Lifetime, serverVars, resetVars, destroyVars,
                       watchVars
  <2>2. panic' = panic
    BY <1>7, Zenon DEF StopDestroy, DestroyBegin, Lifetime
  <2>3. \A p \in Pool : p # pool => status'[p] = status[p]
    BY <1>7, <2>1 DEF StopDestroy, DestroyBegin, DestroyClose, TypeOK
  <2>4. Attached' = Attached
    BY <1>7, Zenon DEF StopDestroy, Attached, watchVars
  <2> QED
    BY <2>1, <2>2, <2>3, <2>4, Zenon DEF Lifetime
<1>8. CASE StopDone
  <2>1. /\ UNCHANGED <<rpc, lpc, dpc, pController, off, panic>> /\ started /\ started' = FALSE /\ spc = "join" /\ spc' = "down" /\ pool \in Pool
    BY <1>8, Zenon DEF StopDone, DestroyJoin, Lifetime, resetVars, destroyVars, watchVars
  <2>2. \A p \in Pool : status'[p] = IF p = pool THEN "gone" ELSE status[p]
    BY <1>8, <2>1, Zenon DEF StopDone, DestroyJoin, TypeOK
  <2>3. Attached' = Attached
    BY <1>8, Zenon DEF StopDone, Attached, watchVars
  <2>4. \A p \in Pool : status'[p] \in {"none", "gone"}
    BY <2>1, <2>2, Zenon DEF Lifetime
  <2> QED
    BY <2>1, <2>3, <2>4, Zenon DEF Lifetime
<1> QED
  BY <1>1, <1>2, <1>3, <1>4, <1>5, <1>6, <1>7, <1>8, Zenon DEF Serve

\* Attach replaces the controller.
LEMMA AttachLifetime ==
  ASSUME TypeOK, Calls, Lifetime, Attach
  PROVE  Lifetime'
<1> USE ServerAssumption
<1>1. UNCHANGED <<rpc, lpc, dpc, started, spc, pool, status>>
  BY Zenon DEF Attach, mainVars, resetVars, poolVars, destroyVars
<1>2. CASE pController # 0 /\ pool # 0
  <2>1. AttachTo(pool) /\ Detach(pController) /\ pool \in (0..MaxPools \cup {NilPool}) \ {0}
    BY <1>2, Zenon DEF Attach, TypeOK
  <2>2. NumWatchers < MaxPools + MaxAttach
    BY RoomLeft, Zenon DEF Attach
  <2>3. pController' = NumWatchers + 1 /\ Attached' = 1..(NumWatchers + 1) /\ Attached = 1..NumWatchers
    BY <2>1, <2>2, AttachNumbers, Zenon DEF Calls
  <2>4. Attached' = Attached \cup {pController'} /\ pController' \notin Attached
    BY <2>3, RoomLeft
  <2>5. off' = off \cup {pController} /\ panic' = "none"
    BY <2>1, Zenon DEF Detach, Lifetime
  <2> QED
    BY <1>1, <1>2, <2>4, <2>5, Zenon DEF Lifetime
<1>3. CASE ~(pController # 0 /\ pool # 0)
  <2>1. UNCHANGED <<pController, on, off, panic>>
    BY <1>3, Zenon DEF Attach
  <2> QED
    BY <1>1, <2>1, OtherLifetime, Zenon
<1> QED
  BY <1>2, <1>3, Zenon

\* Every step of a server that is not reconfigured, and whose pools do not die, keeps Lifetime.
LEMMA NextLifetime ==
  ASSUME MaxResets = 0, MaxFails = 0
  PROVE  TypeOK /\ Calls /\ Lifetime /\ [Next]_vars => Lifetime'
<1> SUFFICES ASSUME TypeOK, Calls, Lifetime, [Next]_vars PROVE Lifetime'
  BY Zenon
<1>1. \A r \in Resetter : ~Call(r)
  BY DEF Call, TypeOK
<1>2. \A t \in Thread : ~Reconfigure(t)
  BY DEF Lifetime, Reconfigure, Reset, Lock, NotStarted, Started, Differs, ReadPrevious, Create, CreateFail,
         Install, Swap, At
<1>3. ASSUME NEW p \in Pool
      PROVE  ~(DestroyDetach(p) \/ DestroyPrevious(p) \/ PoolDies(p) \/ PoolRevives(p) \/ PoolThrow(p) \/ PoolListenerFail(p))
  <2>1. dpc[p] = "none" /\ lpc[p] = "idle" /\ rpc[p] = "idle" /\ ~(numFails < MaxFails)
    BY DEF Lifetime, Thread, TypeOK
  <2> QED
    BY <2>1, Zenon DEF DestroyDetach, DestroyPrevious, PoolDies, PoolRevives, PoolThrow, PoolListenerFail
<1>4. ASSUME NEW c \in Client, ExecPool(c) \/ ExecEnter(c) \/ ExecReturn(c) PROVE Lifetime'
  <2>1. UNCHANGED <<rpc, lpc, dpc, started, spc, pool, status, pController, on, off, panic>>
    BY <1>4, Zenon DEF ExecPool, ExecEnter, ExecReturn, serverVars, mainVars, resetVars, poolVars, destroyVars,
                       watchVars
  <2> QED
    BY <2>1, OtherLifetime, Zenon
<1>5. CASE UNCHANGED vars
  <2>1. UNCHANGED <<rpc, lpc, dpc, started, spc, pool, status, pController, on, off, panic>>
    BY <1>5, Zenon DEF vars, serverVars, mainVars, resetVars, poolVars, destroyVars, watchVars
  <2> QED
    BY <2>1, OtherLifetime, Zenon
<1> QED
  BY <1>1, <1>2, <1>3, <1>4, <1>5, ServeLifetime, AttachLifetime, Zenon DEF Next

\* The pools and controllers of such a server.
LEMMA SpecLifetime ==
  ASSUME MaxResets = 0, MaxFails = 0
  PROVE  Spec => [](TypeOK /\ Calls /\ Lifetime)
<1>1. TypeOK /\ Calls /\ Lifetime /\ [Next]_vars => (TypeOK /\ Calls /\ Lifetime)'
  BY NextTyped, NextCalls, NextLifetime, Zenon
<1> QED
  BY <1>1, InitTyped, InitLifetime, PTL DEF Spec

\* A server that is not reconfigured and whose pools do not die is left without a pool that is up and
\* without a controller that observes one whenever Stop has returned, however often it is started, with
\* or without success, stopped and attached to (server.go, Start, Stop and Attach).
THEOREM StopIsClean ==
  ASSUME MaxResets = 0, MaxFails = 0
  PROVE  Spec => []StopLeavesNone
<1>1. TypeOK /\ Lifetime => StopLeavesNone
  <2> SUFFICES ASSUME TypeOK, Lifetime, spc = "down"
               PROVE  Attached \subseteq off /\ \A p \in Pool : status[p] \in {"none", "gone"}
    <3>1. TypeOK => DOMAIN on = Watcher
      BY Zenon DEF TypeOK
    <3> QED
      BY <3>1, Zenon DEF StopLeavesNone, Attached
  <2>1. 0 \notin Attached
    BY DEF Attached, Watcher
  <2> QED
    BY <2>1, Zenon DEF Lifetime
<1> QED
  BY <1>1, SpecLifetime, PTL

\* Such a server does not panic either: the controller is detached once, by Attach or by Stop, and Stop
\* destroys the pool that Start has made.
THEOREM StopDoesNotPanic ==
  ASSUME MaxResets = 0, MaxFails = 0
  PROVE  Spec => []NoPanic
<1>1. Lifetime => NoPanic
  BY Zenon DEF Lifetime, NoPanic
<1> QED
  BY <1>1, SpecLifetime, PTL
=============================================================================
