------------------------- MODULE ServerTypeProofs -------------------------
(***************************************************************************)
(* The types of Server, whatever is called.  They rest on Calls, which     *)
(* bounds the controllers by the calls that attach one; ServerProofs goes  *)
(* on from here.                                                           *)
(***************************************************************************)
EXTENDS Server, TLAPS

\* Program points at which Reconfigure holds s.mup.
Held == {"check", "differs", "read", "create", "install"}

\* Controllers attached so far.
Attached == {w \in Watcher : on[w] # 0}

\* s.mup lets one Reconfigure through; the pool it has made is not known to the server yet, and has no
\* controller; a listener runs under the mul of its pool; and every controller comes from a pool that was
\* made, or from a call of Attach.
Calls ==
  /\ \A t, u \in Thread : rpc[t] \in Held /\ rpc[u] \in Held => t = u
  /\ \A t \in Thread : rpc[t] = "install" =>
       made[t] \in 1..numPools /\ made[t] \notin heard /\ NumWatchers < numAttach + numPools
  /\ heard \subseteq 1..numPools
  /\ \A p \in Pool : rpc[p] # "idle" => lpc[p] = "listener"
  /\ Attached = 1..NumWatchers
  /\ NumWatchers \in 0..(numAttach + numPools)

-----------------------------------------------------------------------------
\* As long as controllers are numbered without gaps, the number of controllers is the last of them.
LEMMA Numbered ==
  ASSUME NEW n \in 0..(MaxPools + MaxAttach), Attached = 1..n
  PROVE  NumWatchers = n
<1>1. \A w \in Watcher : on[w] # 0 <=> w <= n
  BY ServerAssumption DEF Attached, Watcher
<1>2. ASSUME NEW m \in 0..(MaxPools + MaxAttach), \A w \in Watcher : on[w] # 0 <=> w <= m
      PROVE  m = n
  <2>1. m < n => n \in Watcher
    BY ServerAssumption DEF Watcher
  <2>2. n < m => m \in Watcher
    BY ServerAssumption DEF Watcher
  <2> QED
    BY <1>1, <1>2, <2>1, <2>2, ServerAssumption
<1> QED
  BY <1>1, <1>2, Zenon DEF NumWatchers

\* The same in the next state.
LEMMA NumberedNext ==
  ASSUME NEW n \in 0..(MaxPools + MaxAttach), Attached' = 1..n
  PROVE  NumWatchers' = n
<1>1. \A w \in Watcher : on'[w] # 0 <=> w <= n
  BY ServerAssumption DEF Attached, Watcher
<1>2. ASSUME NEW m \in 0..(MaxPools + MaxAttach), \A w \in Watcher : on'[w] # 0 <=> w <= m
      PROVE  m = n
  <2>1. m < n => n \in Watcher
    BY ServerAssumption DEF Watcher
  <2>2. n < m => m \in Watcher
    BY ServerAssumption DEF Watcher
  <2> QED
    BY <1>1, <1>2, <2>1, <2>2, ServerAssumption
<1> QED
  BY <1>1, <1>2, Zenon DEF NumWatchers

\* The bounds on pools and on calls of Attach leave room for the controller of a pool that is made, or was made
\* but is not known to the server yet, and for the controller of another call of Attach.
LEMMA RoomLeft ==
  ASSUME TypeOK, Calls
  PROVE  /\ NumWatchers \in Nat /\ numAttach \in 0..MaxAttach /\ numPools \in 0..MaxPools
         /\ numPools < MaxPools \/ numAttach < MaxAttach \/ (\E t \in Thread : rpc[t] = "install")
              => NumWatchers < MaxPools + MaxAttach
BY ServerAssumption DEF TypeOK, Calls

\* s.controller.Attach makes the next controller.
LEMMA AttachNumbers ==
  ASSUME TypeOK, Calls, NumWatchers < MaxPools + MaxAttach,
         NEW p \in (0..MaxPools \cup {NilPool}) \ {0}, AttachTo(p)
  PROVE  /\ NumWatchers + 1 \in Watcher /\ pController' = NumWatchers + 1
         /\ on' \in [Watcher -> 0..MaxPools \cup {NilPool}]
         /\ Attached' = 1..(NumWatchers + 1) /\ NumWatchers' = NumWatchers + 1
         /\ on'[NumWatchers + 1] = p
<1>1. NumWatchers \in Nat /\ Attached = 1..NumWatchers
  BY RoomLeft, Zenon DEF Calls
<1>2. NumWatchers + 1 \in Watcher
  BY <1>1, ServerAssumption DEF Watcher
<1>3. /\ on' \in [Watcher -> 0..MaxPools \cup {NilPool}]
      /\ \A w \in Watcher : on'[w] = IF w = NumWatchers + 1 THEN p ELSE on[w]
  BY <1>2, Zenon DEF AttachTo, TypeOK
<1>4. Attached' = Attached \cup {NumWatchers + 1}
  BY <1>2, <1>3, Zenon DEF Attached
<1>5. Attached' = 1..(NumWatchers + 1)
  BY <1>1, <1>4
<1>6. NumWatchers' = NumWatchers + 1
  BY <1>1, <1>5, NumberedNext, ServerAssumption
<1> QED
  BY <1>2, <1>3, <1>5, <1>6, Zenon DEF AttachTo

\* Types of what NewPool leaves.
LEMMA NewPoolTypes ==
  ASSUME TypeOK, NEW p \in Pool, NewPool(p)
  PROVE  /\ numPools' \in 0..MaxPools /\ numPools' = numPools + 1 /\ p = numPools + 1
         /\ status' \in [Pool -> {"none", "up", "waiting", "closed", "gone"}]
         /\ workers' \subseteq Pool /\ lpc' = lpc /\ numFails' = numFails
         /\ \A q \in Pool : status'[q] = IF q = p THEN "up" ELSE status[q]
BY ServerAssumption DEF TypeOK, NewPool, Pool

\* Types of what Reconfigure leaves when it returns.
LEMMA FinishTypes ==
  ASSUME TypeOK, NEW t \in Thread, Finish(t)
  PROVE  /\ rpc' \in [Thread -> {"idle", "reset", "lock", "check", "differs", "read", "create", "install", "fail"}]
         /\ lpc' \in [Pool -> {"idle", "throw", "listener"}]
         /\ \A u \in Thread : rpc'[u] = IF u = t THEN "idle" ELSE rpc[u]
         /\ \A p \in Pool : lpc'[p] = IF p = t THEN "idle" ELSE lpc[p]
BY Zenon DEF TypeOK, Finish

-----------------------------------------------------------------------------
(* Types *)

\* Init gives every variable its type.
LEMMA InitTyped == Init => TypeOK /\ Calls
<1> SUFFICES ASSUME Init PROVE TypeOK /\ Calls
  BY Zenon
<1>1. TypeOK
  <2>1. 0 \in 0..MaxPools /\ 0 \in 0..MaxStarts /\ 0 \in 0..MaxResets /\ 0 \in 0..MaxFails /\ 0 \in 0..MaxAttach
    BY ServerAssumption
  <2>2. prev \in [Thread -> (0..MaxPools \cup {NilPool}) \X ({0} \cup Watcher)]
    BY <2>1, Zenon DEF Init
  <2>3. resets \in [Resetter -> 0..MaxResets] /\ made \in [Thread -> 0..MaxPools] /\ arg \in [Thread -> Relays]
    BY <2>1, Zenon DEF Init
  <2> QED
    BY <2>1, <2>2, <2>3, Zenon DEF Init, TypeOK
<1>2. Attached = 1..0
  BY DEF Init, Attached
<1>3. NumWatchers = 0
  BY <1>2, Numbered, ServerAssumption
<1>4. numAttach = 0 /\ numPools = 0
  BY Zenon DEF Init
<1>5. Pool \subseteq Thread
  BY Zenon DEF Thread
<1> QED
  BY <1>1, <1>2, <1>3, <1>4, <1>5 DEF Init, Calls, Held

\* Start and Stop.
LEMMA ServeTyped == TypeOK /\ Calls /\ Serve => TypeOK'
<1> SUFFICES ASSUME TypeOK, Calls, Serve PROVE TypeOK'
  BY Zenon
<1> USE ServerAssumption
<1>1. CASE StartNoFactory
  BY <1>1 DEF TypeOK, StartNoFactory, resetVars, clientVars, poolVars, destroyVars, watchVars
<1>2. CASE StartFactory
  BY <1>2 DEF TypeOK, StartFactory, resetVars, clientVars, poolVars, destroyVars, watchVars
<1>3. CASE StartFail
  BY <1>3, Zenon DEF TypeOK, StartFail, resetVars, clientVars, poolVars, destroyVars, watchVars
<1>4. CASE StartDone
  <2>1. PICK p \in Pool : NewPool(p) /\ pool' = p /\ heard' = heard \cup {p}
    BY <1>4, Zenon DEF StartDone
  <2>2. p \in 1..MaxPools /\ p = numPools + 1
    BY <2>1, NewPoolTypes, Zenon DEF Pool
  <2>3. NumWatchers < MaxPools + MaxAttach
    BY <2>2, RoomLeft
  <2>4. on' \in [Watcher -> 0..MaxPools \cup {NilPool}] /\ pController' \in {0} \cup Watcher
    <3>1. CASE controller
      <4>1. AttachTo(p) /\ p \in (0..MaxPools \cup {NilPool}) \ {0}
        BY <1>4, <2>1, <2>2, <3>1 DEF StartDone, AttachTo
      <4> QED
        BY <2>3, <4>1, AttachNumbers, Zenon
    <3>2. CASE ~controller
      BY <1>4, <3>2 DEF StartDone, TypeOK
    <3> QED
      BY <3>1, <3>2, Zenon
  <2> QED
    BY <1>4, <2>1, <2>2, <2>4, NewPoolTypes DEF TypeOK, StartDone, resetVars, clientVars, destroyVars
<1>5. CASE StopLock
  BY <1>5, ZenonT(60) DEF TypeOK, StopLock, serverVars, resetVars, clientVars, poolVars, destroyVars, watchVars
<1>6. CASE StopDetach
  BY <1>6 DEF TypeOK, StopDetach, Detach, resetVars, clientVars, poolVars, destroyVars
<1>7. CASE StopDestroy
  <2>1. status' \in [Pool -> {"none", "up", "waiting", "closed", "gone"}]
    BY <1>7 DEF TypeOK, StopDestroy, DestroyBegin, DestroyClose
  <2> QED
    BY <1>7, <2>1 DEF TypeOK, StopDestroy, DestroyBegin, DestroyClose, serverVars, resetVars, clientVars,
                      destroyVars, watchVars
<1>8. CASE StopDone
  <2>1. status' \in [Pool -> {"none", "up", "waiting", "closed", "gone"}] /\ workers' \subseteq Pool
    BY <1>8, Zenon DEF TypeOK, StopDone, DestroyJoin
  <2> QED
    BY <1>8, <2>1, 0 \in 0..MaxStarts, 0 \in 0..MaxPools, Zenon
    DEF TypeOK, StopDone, DestroyJoin, resetVars, clientVars, destroyVars, watchVars
<1> QED
  BY <1>1, <1>2, <1>3, <1>4, <1>5, <1>6, <1>7, <1>8, Zenon DEF Serve

\* Attach.
LEMMA AttachTyped == TypeOK /\ Calls /\ Attach => TypeOK'
<1> SUFFICES ASSUME TypeOK, Calls, Attach PROVE TypeOK'
  BY Zenon
<1> USE ServerAssumption
<1>1. numAttach' \in 0..MaxAttach
  BY DEF TypeOK, Attach
<1>2. CASE pController # 0 /\ pool # 0
  <2>1. AttachTo(pool) /\ Detach(pController) /\ pool \in (0..MaxPools \cup {NilPool}) \ {0}
    BY <1>2, Zenon DEF Attach, TypeOK
  <2>2. NumWatchers < MaxPools + MaxAttach
    BY RoomLeft, Zenon DEF Attach
  <2>3. on' \in [Watcher -> 0..MaxPools \cup {NilPool}] /\ pController' \in {0} \cup Watcher
    BY <2>1, <2>2, AttachNumbers, Zenon
  <2> QED
    BY <1>1, <1>2, <2>1, <2>3, Zenon DEF TypeOK, Attach, Detach, mainVars, resetVars, clientVars, poolVars,
                                         destroyVars
<1>3. CASE ~(pController # 0 /\ pool # 0)
  BY <1>1, <1>3 DEF TypeOK, Attach, mainVars, resetVars, clientVars, poolVars, destroyVars
<1> QED
  BY <1>2, <1>3, Zenon

\* Reconfigure and Reset.
LEMMA ReconfigureTyped == ASSUME TypeOK, Calls, NEW t \in Thread, Reconfigure(t) PROVE TypeOK'
<1> USE ServerAssumption DEF At
<1>1. CASE Reset(t)
  BY <1>1 DEF TypeOK, Reset, serverVars, mainVars, clientVars, poolVars, destroyVars, watchVars
<1>2. CASE Lock(t)
  BY <1>2 DEF TypeOK, Lock, serverVars, mainVars, clientVars, poolVars, destroyVars, watchVars
<1>3. CASE NotStarted(t)
  <2>1. cfg' \in Relays
    BY <1>3, Zenon DEF TypeOK, NotStarted
  <2> QED
    BY <1>3, <2>1, FinishTypes DEF TypeOK, NotStarted, mainVars, clientVars, destroyVars, watchVars
<1>4. CASE Started(t)
  BY <1>4 DEF TypeOK, Started, serverVars, mainVars, clientVars, poolVars, destroyVars, watchVars
<1>5. CASE Differs(t)
  BY <1>5 DEF TypeOK, Differs, ReturnError, serverVars, mainVars, clientVars, destroyVars, watchVars
<1>6. CASE ReadPrevious(t)
  <2>1. prev' \in [Thread -> (0..MaxPools \cup {NilPool}) \X ({0} \cup Watcher)]
    BY <1>6, ZenonT(60) DEF TypeOK, ReadPrevious
  <2> QED
    BY <1>6, <2>1 DEF TypeOK, ReadPrevious, serverVars, mainVars, clientVars, poolVars, destroyVars, watchVars
<1>7. CASE Create(t)
  <2>1. PICK p \in Pool : NewPool(p) /\ made' = [made EXCEPT ![t] = p]
    BY <1>7, Zenon DEF Create
  <2>2. made' \in [Thread -> 0..MaxPools]
    BY <2>1 DEF TypeOK, Pool
  <2>3. rpc' \in [Thread -> {"idle", "reset", "lock", "check", "differs", "read", "create", "install", "fail"}]
    BY <1>7, Zenon DEF TypeOK, Create
  <2> QED
    BY <1>7, <2>1, <2>2, <2>3, NewPoolTypes DEF TypeOK, Create, serverVars, mainVars, clientVars, destroyVars,
                                                watchVars
<1>8. CASE CreateFail(t)
  BY <1>8 DEF TypeOK, CreateFail, ReturnError, serverVars, mainVars, clientVars, destroyVars, watchVars
<1>9. CASE Install(t)
  <2>1. made[t] \in 1..MaxPools /\ made[t] \in Pool /\ rpc[t] = "install"
    BY <1>9 DEF Install, Swap, Calls, TypeOK, Pool
  <2>2. NumWatchers < MaxPools + MaxAttach
    BY <2>1, RoomLeft, Zenon
  <2>3. on' \in [Watcher -> 0..MaxPools \cup {NilPool}] /\ pController' \in {0} \cup Watcher
    <3>1. CASE controller
      <4>1. AttachTo(made[t]) /\ made[t] \in (0..MaxPools \cup {NilPool}) \ {0}
        BY <1>9, <2>1, <3>1 DEF Install, Swap
      <4> QED
        BY <2>2, <4>1, AttachNumbers, Zenon
    <3>2. CASE ~controller
      BY <1>9, <3>2, Zenon DEF Install, Swap, TypeOK
    <3> QED
      BY <3>1, <3>2, Zenon
  <2>4. pool' \in 0..MaxPools \cup {NilPool} /\ heard' \subseteq Pool
    BY <1>9, <2>1, Zenon DEF Install, Swap, TypeOK
  <2>5. prev[t][2] \in {0} \cup Watcher
    BY Zenon DEF TypeOK
  <2>6. /\ dpc' \in [Pool -> {"none", "detach", "destroy", "close", "join", "done"}]
        /\ dwatch' \in [Pool -> {0} \cup Watcher]
    BY <1>9, <2>5, Zenon DEF Install, Swap, TypeOK
  <2>7. Finish(t) /\ panic' \in {"none", "destroy", "detach", "factory", "pool"}
    BY <1>9, Zenon DEF Install, Swap, TypeOK
  <2> QED
    BY <1>9, <2>3, <2>4, <2>6, <2>7, FinishTypes, Zenon DEF TypeOK, Install, Swap, mainVars, clientVars
<1> QED
  BY <1>1, <1>2, <1>3, <1>4, <1>5, <1>6, <1>7, <1>8, <1>9, ZenonT(60) DEF Reconfigure

\* The goroutines of Reconfigure that destroy pools, and the events of pools.
LEMMA PoolTyped ==
  ASSUME TypeOK, NEW p \in Pool,
         \/ DestroyDetach(p) \/ DestroyPrevious(p) \/ PoolDies(p) \/ PoolRevives(p)
         \/ PoolThrow(p) \/ PoolListenerFail(p)
  PROVE  TypeOK'
<1> USE ServerAssumption
<1>0. p \in Thread
  BY Zenon DEF Thread
<1>1. CASE DestroyDetach(p)
  BY <1>1 DEF TypeOK, DestroyDetach, Detach, serverVars, mainVars, resetVars, clientVars, poolVars
<1>2. CASE DestroyPrevious(p)
  <2>1. \E s \in {"none", "up", "waiting", "closed", "gone"}, d \in {"close", "join", "done"} :
          status' = [status EXCEPT ![p] = s] /\ dpc' = [dpc EXCEPT ![p] = d]
    <3>1. status[p] \in {"none", "up", "waiting", "closed", "gone"}
      BY Zenon DEF TypeOK
    <3> QED
      BY <1>2, <3>1, Zenon DEF DestroyPrevious, DestroyBegin, DestroyClose, DestroyJoin
  <2>2. /\ status' \in [Pool -> {"none", "up", "waiting", "closed", "gone"}]
        /\ dpc' \in [Pool -> {"none", "detach", "destroy", "close", "join", "done"}]
    BY <2>1 DEF TypeOK
  <2>3. /\ workers' \subseteq Pool /\ UNCHANGED <<heard, lpc, numPools, numFails, dwatch>>
        /\ panic' \in {panic, "destroy"}
    BY <1>2, Zenon DEF DestroyPrevious, DestroyBegin, DestroyClose, DestroyJoin, TypeOK
  <2> QED
    BY <1>2, <2>2, <2>3, ZenonT(60) DEF TypeOK, DestroyPrevious, serverVars, mainVars, resetVars, clientVars, watchVars
<1>3. CASE PoolDies(p)
  BY <1>3 DEF TypeOK, PoolDies, serverVars, mainVars, resetVars, clientVars, destroyVars, watchVars
<1>4. CASE PoolRevives(p)
  BY <1>4 DEF TypeOK, PoolRevives, serverVars, mainVars, resetVars, clientVars, destroyVars, watchVars
<1>5. CASE PoolThrow(p)
  BY <1>0, <1>5, ZenonT(60) DEF TypeOK, PoolThrow, serverVars, mainVars, clientVars, destroyVars, watchVars
<1>6. CASE PoolListenerFail(p)
  <2>1. failed' \subseteq Pool /\ Finish(p)
    BY <1>6, Zenon DEF TypeOK, PoolListenerFail
  <2> QED
    BY <1>0, <1>6, <2>1, FinishTypes, 0 \in 0..MaxStarts, 0 \in 0..MaxPools, ZenonT(60)
    DEF TypeOK, PoolListenerFail, mainVars, clientVars, destroyVars, watchVars
<1> QED
  BY <1>1, <1>2, <1>3, <1>4, <1>5, <1>6, Zenon

\* Every step keeps the types.
LEMMA NextTyped == TypeOK /\ Calls /\ [Next]_vars => TypeOK'
<1> SUFFICES ASSUME TypeOK, Calls, [Next]_vars PROVE TypeOK'
  BY Zenon
<1>1. ASSUME NEW r \in Resetter, Call(r) PROVE TypeOK'
  <2>1. resets' \in [Resetter -> 0..MaxResets]
    BY <1>1, ServerAssumption DEF TypeOK, Call
  <2>0. r \in Thread
    BY Zenon DEF Thread
  <2>2. arg' \in [Thread -> Relays]
    BY <1>1, <2>0 DEF TypeOK, Call
  <2>3. rpc' \in [Thread -> {"idle", "reset", "lock", "check", "differs", "read", "create", "install", "fail"}]
    BY <1>1, <2>0 DEF TypeOK, Call
  <2> QED
    BY <1>1, <2>1, <2>2, <2>3 DEF TypeOK, Call, serverVars, mainVars, clientVars, poolVars, destroyVars, watchVars
<1>2. ASSUME NEW c \in Client, ExecPool(c) \/ ExecEnter(c) \/ ExecReturn(c) PROVE TypeOK'
  BY <1>2, SMTT(30) DEF TypeOK, ExecPool, ExecEnter, ExecReturn, serverVars, mainVars, resetVars, poolVars, destroyVars,
              watchVars
<1>3. CASE UNCHANGED vars
  BY <1>3 DEF TypeOK, vars, serverVars, mainVars, resetVars, clientVars, poolVars, destroyVars, watchVars
<1> QED
  BY <1>1, <1>2, <1>3, ServeTyped, AttachTyped, ReconfigureTyped, PoolTyped, Zenon DEF Next

\* The count of controllers does not change with the rest.
LEMMA SameCount ==
  ASSUME Calls, on' = on
  PROVE  Attached' = 1..NumWatchers' /\ NumWatchers' = NumWatchers
BY Zenon DEF Attached, NumWatchers, Calls

\* Thread t moves to program point x, not with a new pool, and takes s.mup only if it is free.
LEMMA MoveCalls ==
  ASSUME TypeOK, Calls, NEW t \in Thread, NEW x,
         \A u \in Thread : rpc'[u] = IF u = t THEN x ELSE rpc[u],
         x \in Held => rpc[t] \in Held \/ MupFree,
         x # "install",
         UNCHANGED <<made, heard, numPools, on, numAttach>>,
         \A p \in Pool : p # t => lpc'[p] = lpc[p],
         t \in Pool /\ x # "idle" => lpc'[t] = "listener"
  PROVE  Calls'
<1>1. \A u, v \in Thread : rpc'[u] \in Held /\ rpc'[v] \in Held => u = v
  BY DEF Calls, MupFree, Held
<1>2. \A u \in Thread : rpc'[u] = "install" =>
        made'[u] \in 1..numPools' /\ made'[u] \notin heard' /\ NumWatchers' < numAttach' + numPools'
  BY SameCount, Zenon DEF Calls
<1>3. \A p \in Pool : rpc'[p] # "idle" => lpc'[p] = "listener"
  BY Zenon DEF Calls, Thread
<1> QED
  BY <1>1, <1>2, <1>3, SameCount, Zenon DEF Calls

\* Steps outside Reconfigure leave s.mup and the new pool of a Reconfigure alone.
LEMMA OtherCalls ==
  ASSUME TypeOK, Calls, UNCHANGED <<rpc, made, heard, numPools, on, numAttach>>,
         \A p \in Pool : lpc[p] = "listener" => lpc'[p] = "listener"
  PROVE  Calls'
<1>1. \A p \in Pool : rpc'[p] # "idle" => lpc'[p] = "listener"
  BY Zenon DEF Calls
<1> QED
  BY <1>1, SameCount, Zenon DEF Calls

\* Start, Stop and Attach keep Calls.
LEMMA ServeCalls == TypeOK /\ Calls /\ (Serve \/ Attach) => Calls'
<1> SUFFICES ASSUME TypeOK, Calls, Serve \/ Attach PROVE Calls'
  BY Zenon
<1> USE ServerAssumption
<1>1. CASE StartDone
  <2>1. PICK p \in Pool : NewPool(p) /\ pool' = p /\ heard' = heard \cup {p}
    BY <1>1, ZenonT(60) DEF StartDone
  <2>2. p = numPools + 1 /\ numPools' = p /\ p \in 1..MaxPools /\ p \in Pool \ heard /\ numPools \in Nat /\ lpc' = lpc
    BY <2>1, NewPoolTypes DEF Calls, TypeOK, Pool
  <2>3. UNCHANGED <<rpc, made, numAttach>>
    BY <1>1, Zenon DEF StartDone, resetVars
  <2>4. NumWatchers \in 0..(numAttach + numPools) /\ numAttach \in Nat /\ NumWatchers < MaxPools + MaxAttach
    BY <2>2, RoomLeft DEF Calls
  <2>5. Attached' = 1..NumWatchers' /\ NumWatchers' \in {NumWatchers, NumWatchers + 1}
    <3>1. CASE controller
      <4>1. AttachTo(p) /\ p \in (0..MaxPools \cup {NilPool}) \ {0}
        BY <1>1, <2>1, <2>2, <3>1 DEF StartDone, AttachTo
      <4> QED
        BY <2>4, <4>1, AttachNumbers, Zenon
    <3>2. CASE ~controller
      <4>1. on' = on
        BY <1>1, <3>2, Zenon DEF StartDone
      <4> QED
        BY <4>1, SameCount, Zenon
    <3> QED
      BY <3>1, <3>2, Zenon
  <2>6. NumWatchers' \in 0..(numAttach' + numPools')
    BY <2>2, <2>3, <2>4, <2>5
  <2>7. \A t \in Thread : rpc'[t] = "install" =>
          made'[t] \in 1..numPools' /\ made'[t] \notin heard' /\ NumWatchers' < numAttach' + numPools'
    BY <2>1, <2>2, <2>3, <2>4, <2>5 DEF Calls
  <2>8. heard' \subseteq 1..numPools'
    BY <2>1, <2>2 DEF Calls
  <2> QED
    BY <2>2, <2>3, <2>5, <2>6, <2>7, <2>8, Zenon DEF Calls
<1>2. CASE Attach
  <2>1. UNCHANGED <<rpc, made, heard, numPools, lpc>> /\ numAttach' = numAttach + 1
    BY <1>2, ZenonT(60) DEF Attach, resetVars, poolVars
  <2>2. /\ NumWatchers \in 0..(numAttach + numPools) /\ numAttach \in Nat /\ numPools \in Nat
        /\ NumWatchers < MaxPools + MaxAttach
    BY <1>2, RoomLeft DEF Calls, Attach
  <2>3. Attached' = 1..NumWatchers' /\ NumWatchers' \in {NumWatchers, NumWatchers + 1}
    <3>1. CASE pController # 0 /\ pool # 0
      <4>1. AttachTo(pool) /\ pool \in (0..MaxPools \cup {NilPool}) \ {0}
        BY <1>2, <3>1, Zenon DEF Attach, TypeOK
      <4> QED
        BY <2>2, <4>1, AttachNumbers, Zenon
    <3>2. CASE ~(pController # 0 /\ pool # 0)
      <4>1. on' = on
        BY <1>2, <3>2, Zenon DEF Attach
      <4> QED
        BY <4>1, SameCount, Zenon
    <3> QED
      BY <3>1, <3>2, Zenon
  <2>4. NumWatchers' \in 0..(numAttach' + numPools')
    BY <2>1, <2>2, <2>3
  <2>5. \A t \in Thread : rpc'[t] = "install" =>
          made'[t] \in 1..numPools' /\ made'[t] \notin heard' /\ NumWatchers' < numAttach' + numPools'
    BY <2>1, <2>2, <2>3 DEF Calls
  <2> QED
    BY <2>1, <2>3, <2>4, <2>5, Zenon DEF Calls
<1>3. CASE StartNoFactory \/ StartFactory \/ StartFail \/ StopLock \/ StopDetach \/ StopDestroy \/ StopDone
  <2>1. UNCHANGED <<rpc, made, heard, numPools, on, numAttach, lpc>>
    BY <1>3, Zenon DEF StartNoFactory, StartFactory, StartFail, StopLock, StopDetach, StopDestroy, StopDone,
                DestroyBegin, DestroyClose, DestroyJoin, resetVars, poolVars, watchVars
  <2> QED
    BY <2>1, OtherCalls, Zenon
<1> QED
  BY <1>1, <1>2, <1>3, Zenon DEF Serve

\* Reconfigure keeps Calls.
LEMMA ReconfigureCalls == ASSUME TypeOK, Calls, NEW t \in Thread, Reconfigure(t) PROVE Calls'
<1> USE ServerAssumption
<1>1. CASE Reset(t) \/ Lock(t) \/ Started(t) \/ ReadPrevious(t)
  <2>1. PICK x \in {"lock", "check", "differs", "create"} :
          rpc' = [rpc EXCEPT ![t] = x] /\ (x \in Held => rpc[t] \in Held \/ MupFree)
    BY <1>1, Zenon DEF Reset, Lock, Started, ReadPrevious, At, Held
  <2>2. rpc[t] # "idle" /\ UNCHANGED <<made, heard, numPools, on, numAttach, lpc>>
    BY <1>1, Zenon DEF Reset, Lock, Started, ReadPrevious, At, Held, poolVars, watchVars
  <2>3. \A u \in Thread : rpc'[u] = IF u = t THEN x ELSE rpc[u]
    BY <2>1, Zenon DEF TypeOK
  <2>4. t \in Pool => lpc'[t] = "listener"
    BY <2>2, Zenon DEF Calls
  <2> QED
    BY <2>1, <2>2, <2>3, <2>4, MoveCalls, Zenon
<1>2. CASE NotStarted(t)
  <2>1. Finish(t) /\ UNCHANGED <<made, heard, numPools, on, numAttach>>
    BY <1>2, Zenon DEF NotStarted, watchVars
  <2>2. \A u \in Thread : rpc'[u] = IF u = t THEN "idle" ELSE rpc[u]
    BY <2>1, FinishTypes, Zenon
  <2>3. \A p \in Pool : p # t => lpc'[p] = lpc[p]
    BY <2>1, FinishTypes, Zenon
  <2>4. "idle" \notin Held
    BY Zenon DEF Held
  <2> QED
    BY <2>1, <2>2, <2>3, <2>4, MoveCalls, Zenon
<1>3. CASE Differs(t) \/ CreateFail(t)
  <2>1. PICK x \in {"fail", "idle", "read"} : rpc' = [rpc EXCEPT ![t] = x]
    BY <1>3, Zenon DEF Differs, CreateFail, ReturnError, At
  <2>2. rpc[t] \in Held /\ rpc[t] # "idle" /\ UNCHANGED <<made, heard, numPools, on, numAttach, lpc>>
    BY <1>3, Zenon DEF Differs, CreateFail, ReturnError, Held, watchVars
  <2>3. \A u \in Thread : rpc'[u] = IF u = t THEN x ELSE rpc[u]
    BY <2>1, ZenonT(60) DEF TypeOK
  <2>4. t \in Pool => lpc'[t] = "listener"
    BY <2>2, Zenon DEF Calls
  <2> QED
    BY <2>1, <2>2, <2>3, <2>4, MoveCalls, Zenon
<1>4. CASE Create(t)
  <2>1. PICK p \in Pool : NewPool(p) /\ made' = [made EXCEPT ![t] = p]
    BY <1>4, Zenon DEF Create
  <2>2. p = numPools + 1 /\ numPools' = p /\ p \in 1..MaxPools /\ p \notin heard /\ numPools \in Nat /\ lpc' = lpc
    BY <2>1, NewPoolTypes, SMTT(30) DEF Calls, TypeOK, Pool
  <2>3. /\ rpc[t] = "create" /\ UNCHANGED <<heard, on, numAttach>>
        /\ \A u \in Thread : rpc'[u] = IF u = t THEN "install" ELSE rpc[u]
    BY <1>4, Zenon DEF Create, At, TypeOK, watchVars
  <2>4. \A u, v \in Thread : rpc'[u] \in Held /\ rpc'[v] \in Held => u = v
    BY <2>3, Zenon DEF Calls, Held
  <2>5. Attached' = 1..NumWatchers' /\ NumWatchers' = NumWatchers
    BY <2>3, SameCount, Zenon
  <2>8. NumWatchers' \in 0..(numAttach' + numPools') /\ NumWatchers' < numAttach' + numPools'
    <3>1. NumWatchers \in 0..(numAttach + numPools) /\ numAttach \in Nat
      BY RoomLeft DEF Calls
    <3> QED
      BY <2>2, <2>3, <2>5, <3>1
  <2>9. \A u \in Thread : rpc'[u] = "install" => made'[u] \in 1..numPools' /\ made'[u] \notin heard'
    BY <2>1, <2>2, <2>3 DEF Calls, TypeOK, Held
  <2>6. heard' \subseteq 1..numPools'
    BY <2>2, <2>3 DEF Calls
  <2>7. \A q \in Pool : rpc'[q] # "idle" => lpc'[q] = "listener"
    BY <2>2, <2>3, Zenon DEF Calls, Thread
  <2> QED
    BY <2>4, <2>5, <2>6, <2>7, <2>8, <2>9, Zenon DEF Calls
<1>5. CASE Install(t)
  <2>1. /\ rpc[t] = "install" /\ Finish(t) /\ heard' = heard \cup {made[t]}
        /\ UNCHANGED <<made, numPools, numAttach>>
    BY <1>5, Zenon DEF Install, Swap
  <2>2. made[t] \in 1..MaxPools /\ made[t] \in 1..numPools
    BY <2>1 DEF Calls, TypeOK, Pool
  <2>3. /\ \A u \in Thread : rpc'[u] = IF u = t THEN "idle" ELSE rpc[u]
        /\ \A p \in Pool : lpc'[p] = IF p = t THEN "idle" ELSE lpc[p]
    BY <2>1, FinishTypes, Zenon
  <2>4. /\ NumWatchers \in Nat /\ NumWatchers < numAttach + numPools
        /\ NumWatchers < MaxPools + MaxAttach /\ numAttach \in Nat /\ numPools \in Nat
    <3>1. NumWatchers < numAttach + numPools
      BY <2>1, Zenon DEF Calls
    <3>2. /\ NumWatchers \in Nat /\ numAttach \in 0..MaxAttach /\ numPools \in 0..MaxPools
          /\ NumWatchers < MaxPools + MaxAttach
      BY <2>1, RoomLeft, Zenon
    <3> QED
      BY <3>1, <3>2
  <2>5. Attached' = 1..NumWatchers' /\ NumWatchers' \in {NumWatchers, NumWatchers + 1}
    <3>1. CASE controller
      <4>1. made[t] \in (0..MaxPools \cup {NilPool}) \ {0}
        BY <2>2
      <4>2. AttachTo(made[t])
        BY <1>5, <3>1, Zenon DEF Install, Swap
      <4> QED
        BY <2>4, <4>1, <4>2, AttachNumbers, Zenon
    <3>2. CASE ~controller
      <4>1. on' = on
        BY <1>5, <3>2, Zenon DEF Install, Swap
      <4> QED
        BY <4>1, SameCount, Zenon
    <3> QED
      BY <3>1, <3>2, Zenon
  <2>6. NumWatchers' \in 0..(numAttach' + numPools')
    BY <2>1, <2>4, <2>5
  <2>7. \A u, v \in Thread : rpc'[u] \in Held /\ rpc'[v] \in Held => u = v
    BY <2>3 DEF Calls, Held
  <2>8. \A u \in Thread : rpc'[u] # "install"
    BY <2>1, <2>3, Zenon DEF Calls, Held
  <2>9. \A p \in Pool : rpc'[p] # "idle" => lpc'[p] = "listener"
    BY <2>3, Zenon DEF Calls, Thread
  <2>10. heard' \subseteq 1..numPools'
    BY <2>1, <2>2, Zenon DEF Calls
  <2> QED
    BY <2>5, <2>6, <2>7, <2>8, <2>9, <2>10, Zenon DEF Calls
<1> QED
  BY <1>1, <1>2, <1>3, <1>4, <1>5, Zenon DEF Reconfigure

\* Every step keeps Calls.
LEMMA NextCalls == TypeOK /\ Calls /\ [Next]_vars => Calls'
<1> SUFFICES ASSUME TypeOK, Calls, [Next]_vars PROVE Calls'
  BY Zenon
<1>1. ASSUME NEW r \in Resetter, Call(r) PROVE Calls'
  <2>1. PICK x \in {"reset", "lock"} : rpc' = [rpc EXCEPT ![r] = x]
    BY <1>1, Zenon DEF Call
  <2>2. r \in Thread /\ r \notin Pool
    BY ServerAssumption, Zenon DEF Thread, Pool
  <2>3. UNCHANGED <<made, heard, numPools, on, numAttach, lpc>> /\ x \notin Held
    BY <1>1, Zenon DEF Call, poolVars, watchVars, Held
  <2>4. \A u \in Thread : rpc'[u] = IF u = r THEN x ELSE rpc[u]
    BY <2>1, <2>2, Zenon DEF TypeOK
  <2> QED
    BY <2>1, <2>2, <2>3, <2>4, MoveCalls, Zenon
<1>2. ASSUME NEW p \in Pool, PoolThrow(p) PROVE Calls'
  <2>1. p \in Thread
    BY Zenon DEF Thread
  <2>2. UNCHANGED <<made, heard, numPools, on, numAttach>>
    BY <1>2, Zenon DEF PoolThrow, watchVars
  <2>3. CASE p \in heard
    <3>1. /\ \A u \in Thread : rpc'[u] = IF u = p THEN "reset" ELSE rpc[u]
          /\ \A q \in Pool : lpc'[q] = IF q = p THEN "listener" ELSE lpc[q]
      BY <1>2, <2>1, <2>3 DEF PoolThrow, TypeOK
    <3>2. "reset" \notin Held
      BY Zenon DEF Held
    <3> QED
      BY <2>1, <2>2, <3>1, <3>2, MoveCalls
  <2>4. CASE p \notin heard
    <3>1. rpc' = rpc /\ lpc[p] = "throw" /\ \A q \in Pool : lpc'[q] = IF q = p THEN "idle" ELSE lpc[q]
      BY <1>2, <2>4 DEF PoolThrow, TypeOK
    <3> QED
      BY <2>2, <3>1, OtherCalls, Zenon
  <2> QED
    BY <2>3, <2>4, Zenon
<1>3. ASSUME NEW p \in Pool, PoolListenerFail(p) PROVE Calls'
  <2>1. Finish(p) /\ UNCHANGED <<made, heard, numPools, on, numAttach>> /\ p \in Thread
    BY <1>3, Zenon DEF PoolListenerFail, watchVars, Thread
  <2>2. \A u \in Thread : rpc'[u] = IF u = p THEN "idle" ELSE rpc[u]
    BY <2>1, FinishTypes, Zenon
  <2>3. \A q \in Pool : q # p => lpc'[q] = lpc[q]
    BY <2>1, FinishTypes, Zenon
  <2>4. "idle" \notin Held
    BY Zenon DEF Held
  <2> QED
    BY <2>1, <2>2, <2>3, <2>4, MoveCalls, Zenon
<1>4. ASSUME NEW p \in Pool, DestroyDetach(p) \/ DestroyPrevious(p) \/ PoolDies(p) \/ PoolRevives(p) PROVE Calls'
  <2>1. UNCHANGED <<rpc, made, heard, numPools, on, numAttach>>
    BY <1>4, Zenon DEF DestroyDetach, DestroyPrevious, PoolDies, PoolRevives, DestroyBegin, DestroyClose, DestroyJoin,
                resetVars, poolVars, watchVars
  <2>2. \A q \in Pool : lpc[q] = "listener" => lpc'[q] = "listener"
    BY <1>4, Zenon DEF DestroyDetach, DestroyPrevious, PoolDies, PoolRevives, DestroyBegin, DestroyClose, DestroyJoin,
                poolVars, TypeOK
  <2> QED
    BY <2>1, <2>2, OtherCalls, Zenon
<1>5. ASSUME NEW c \in Client, ExecPool(c) \/ ExecEnter(c) \/ ExecReturn(c) PROVE Calls'
  <2>1. UNCHANGED <<rpc, made, heard, numPools, on, numAttach, lpc>>
    BY <1>5, Zenon DEF ExecPool, ExecEnter, ExecReturn, resetVars, poolVars, watchVars
  <2> QED
    BY <2>1, OtherCalls, Zenon
<1>6. CASE UNCHANGED vars
  <2>1. UNCHANGED <<rpc, made, heard, numPools, on, numAttach, lpc>>
    BY <1>6, Zenon DEF vars, resetVars, poolVars, watchVars
  <2> QED
    BY <2>1, OtherCalls, Zenon
<1> QED
  BY <1>1, <1>2, <1>3, <1>4, <1>5, <1>6, ServeCalls, ReconfigureCalls, Zenon DEF Next

\* Whatever is called in whatever order, every variable of the server keeps its type (server.go); in
\* particular s.controller.Attach is called at most once for a pool that becomes the pool of the server and
\* once for a call of Attach.
THEOREM ServerTypes == Spec => []TypeOK
<1>1. TypeOK /\ Calls /\ [Next]_vars => (TypeOK /\ Calls)'
  BY NextTyped, NextCalls, Zenon
<1> QED
  BY <1>1, InitTyped, PTL DEF Spec

\* s.mup admits one Reconfigure at a time.
LEMMA SpecCalls == Spec => [](TypeOK /\ Calls)
<1>1. TypeOK /\ Calls /\ [Next]_vars => (TypeOK /\ Calls)'
  BY NextTyped, NextCalls, Zenon
<1> QED
  BY <1>1, InitTyped, PTL DEF Spec
===========================================================================
