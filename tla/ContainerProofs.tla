----------------------------- MODULE ContainerProofs -----------------------------
(* StoppingHasStopper, StopIsFinal and TypeOK for any number of services of any kind. *)
EXTENDS Container, TLAPS

Busy == {"mark", "call", "loop", "set"}

\* The goroutine of s has reached setStatus(StatusServing).
Served(s) == gpc[s] \notin {"none", "start"}

Types ==
  /\ status \in [Service -> {"inactive", "ok", "serving", "stopping", "stopped"}]
  /\ gpc \in [Service -> {"none", "start", "run", "setup", "listen", "open", "send", "sent", "done"}]
  /\ stop \in [Stopper -> {"idle", "check", "done"} \cup Busy]
  /\ at \in [Stopper -> Nat \ {0}]
  /\ next \in Nat \ {0}

\* The services that the loop of Serve has not come to have no goroutine.
Ahead == \A s \in Service : mpc = "init" \/ (mpc = "serve" /\ next <= s) => gpc[s] = "none"

\* Only the goroutine of a service leads to the later states, ...
Started == \A s \in Service : status[s] \in {"serving", "stopping", "stopped"} => Served(s)

\* ... and Stop works only on services it has found in StatusServing.
Found == \A a \in Stopper : stop[a] \in Busy => at[a] \in Service /\ Served(at[a])

\* Serve calls Stop once, after the first failure.
Once == mpc \in {"init", "serve", "wait"} => stop["serve"] = "idle"

IInv == Types /\ Ahead /\ Started /\ Found /\ Once /\ StoppingHasStopper

\* A goroutine that is about to send has something to send.
Told == \A s \in Service : gpc[s] = "send" => outcome[s] \in {"nil", "error"}

----------------------------------------------------------------------------------
\* Init, Serve and serveHandler keep the invariant (Init, Serve).
LEMMA MainKeeps ==
  ASSUME IInv, Main
  PROVE  IInv'
<1> USE ContainerAssumption DEF Service
<1>1. CASE InitService
  <2>1. UNCHANGED <<gpc, mpc, stop, at>> /\ next \in Service /\ next' = next + 1 /\ mpc = "init"
    BY <1>1 DEF InitService, IInv, Types, service, stopper
  <2>2. PICK to \in {"ok", "inactive"} : status' = [status EXCEPT ![next] = to]
    BY <1>1, Zenon DEF InitService
  <2>3. Types' /\ Ahead' /\ Started' /\ Found' /\ Once'
    BY <2>1, <2>2 DEF IInv, Types, Ahead, Started, Found, Once, Served
  <2>4. StoppingHasStopper'
    BY <2>1, <2>2 DEF IInv, Types, StoppingHasStopper
  <2> QED
    BY <2>3, <2>4, Zenon DEF IInv
<1>2. CASE InitDone
  BY <1>2 DEF InitDone, IInv, Types, Ahead, Started, Found, Once, Served, StoppingHasStopper, service, stopper
<1>3. CASE ServeService
  <2>1. UNCHANGED <<status, mpc, stop, at>> /\ next \in Service /\ next' = next + 1 /\ mpc = "serve"
    BY <1>3 DEF ServeService, IInv, Types, stopper
  <2>2. gpc[next] = "none"
    BY <2>1 DEF IInv, Types, Ahead
  <2>3. /\ gpc' \in [Service -> {"none", "start", "run", "setup", "listen", "open", "send", "sent", "done"}]
        /\ \A s \in Service : s # next => gpc'[s] = gpc[s]
    BY <1>3, <2>1, Zenon DEF ServeService, IInv, Types
  <2>4. Types'
    BY <2>1, <2>3 DEF IInv, Types
  <2>5. Ahead' /\ Started' /\ Found' /\ Once'
    BY <2>1, <2>2, <2>3 DEF IInv, Types, Ahead, Started, Found, Once, Served
  <2>6. StoppingHasStopper'
    BY <2>1, Zenon DEF IInv, StoppingHasStopper
  <2> QED
    BY <2>4, <2>5, <2>6, Zenon DEF IInv
<1>4. CASE ServeReceive
  <2>1. /\ UNCHANGED <<status, gpc, next, at>> /\ mpc = "wait" /\ mpc' \in {"returned", "stop"}
        /\ stop' = stop \/ stop' = [stop EXCEPT !["serve"] = "check"]
    BY <1>4, Zenon DEF ServeReceive, service
  <2>2. stop["serve"] \notin Busy
    BY <2>1, Zenon DEF IInv, Once, Busy
  <2> QED
    BY <2>1, <2>2 DEF IInv, Types, Ahead, Started, Found, Once, Served, StoppingHasStopper, Busy, Stopper
<1>5. CASE InitError \/ ServeWait \/ ServeReturn \/ Exit
  <2>1. /\ UNCHANGED <<status, gpc, next, stop, at>> /\ mpc' \notin {"init", "serve"}
        /\ mpc' = "wait" => mpc = "serve"
    BY <1>5, Zenon DEF InitError, ServeWait, ServeReturn, Exit, service, stopper
  <2> QED
    BY <2>1 DEF IInv, Types, Ahead, Started, Found, Once, Served, StoppingHasStopper
<1> QED
  BY <1>1, <1>2, <1>3, <1>4, <1>5, Zenon DEF Main

\* The goroutine of a service keeps the invariant (Serve of the container and of the services).
LEMMA ServiceKeeps ==
  ASSUME IInv, NEW s \in Service, Proceed(s) \/ Fail(s)
  PROVE  IInv'
<1>1. UNCHANGED <<mpc, next, stop, at>>
  BY Zenon DEF Proceed, Fail, SetServing, Prepare, HttpLock, HttpUnlock, Listen, End, Send, SetStopped, HttpFail,
               FailEarly,
     FailListen, FailOpen, main, stopper
<1>2. /\ gpc[s] # "none"
      /\ \E to \in {"run", "setup", "listen", "open", "send", "sent", "done"} : gpc' = [gpc EXCEPT ![s] = to]
  BY Zenon DEF Proceed, Fail, SetServing, Prepare, HttpLock, HttpUnlock, Listen, End, Send, SetStopped, HttpFail,
               FailEarly,
     FailListen, FailOpen, Go, Returns
<1>3. status' = status \/ \E to \in {"serving", "stopped"} : status' = [status EXCEPT ![s] = to]
  BY Zenon DEF Proceed, Fail, SetServing, Prepare, HttpLock, HttpUnlock, Listen, End, Send, SetStopped, HttpFail,
               FailEarly,
     FailListen, FailOpen
<1>4. Types'
  BY <1>1, <1>2, <1>3 DEF IInv, Types
<1>5. /\ \A t \in Service : gpc[t] = "none" => gpc'[t] = "none"
      /\ \A t \in Service : gpc[t] \notin {"none", "start"} => gpc'[t] \notin {"none", "start"}
      /\ gpc'[s] \notin {"none", "start"}
  BY <1>2, Zenon DEF IInv, Types
<1>6. Ahead'
  <2> SUFFICES ASSUME NEW t \in Service, mpc = "init" \/ (mpc = "serve" /\ next <= t)
               PROVE  gpc'[t] = "none"
    BY <1>1, Zenon DEF Ahead
  <2> QED
    BY <1>5, Zenon DEF IInv, Ahead
<1>7. Once'
  BY <1>1, Zenon DEF IInv, Once
<1>8. Started'
  <2> SUFFICES ASSUME NEW t \in Service, status'[t] \in {"serving", "stopping", "stopped"}
               PROVE  gpc'[t] \notin {"none", "start"}
    BY Zenon DEF Started, Served
  <2>1. t = s \/ status'[t] = status[t]
    BY <1>3, Zenon DEF IInv, Types
  <2> QED
    BY <1>5, <2>1, Zenon DEF IInv, Started, Served
<1>9. Found'
  BY <1>1, <1>5, Zenon DEF IInv, Found, Served
<1>10. StoppingHasStopper'
  BY <1>1, <1>3 DEF IInv, Types, StoppingHasStopper
<1> QED
  BY <1>4, <1>6, <1>7, <1>8, <1>9, <1>10, Zenon DEF IInv

\* Stop keeps the invariant, whoever runs it and whoever else does (Stop).
LEMMA StopKeeps ==
  ASSUME IInv, NEW a \in Stopper, Stop(a)
  PROVE  IInv'
<1> USE ContainerAssumption
<1>1. UNCHANGED <<mpc, next, gpc>>
  BY Zenon DEF Stop, StopCheck, StopMark, StopCall, StopPolling, StopLoop, StopSet, StopDone, main, service
<1>2. Ahead'
  BY <1>1, Zenon DEF IInv, Ahead
<1>3. stop[a] # "idle" /\ \A b \in Stopper : b # a => stop'[b] = stop[b]
  BY DEF Stop, StopCheck, StopMark, StopCall, StopPolling, StopLoop, StopSet, StopDone, StopAt, IInv, Types
<1>4. Once'
  BY <1>1, <1>3, Zenon DEF IInv, Once, Stopper
<1>5. CASE StopCheck(a)
  <2>1. stop[a] = "check" /\ status' = status /\ at[a] \in Service
    BY <1>5 DEF StopCheck, IInv, Types, Service
  <2>2. CASE status[at[a]] = "serving"
    <3>1. stop' = [stop EXCEPT ![a] = "mark"] /\ at' = at
      BY <1>5, <2>2, Zenon DEF StopCheck, StopAt
    <3> QED
      BY <1>1, <1>2, <1>4, <2>1, <2>2, <3>1
      DEF IInv, Types, Started, Found, Served, StoppingHasStopper, Busy
  <2>3. CASE status[at[a]] # "serving"
    <3>1. stop' = stop /\ at' = [at EXCEPT ![a] = @ + 1]
      BY <1>5, <2>3, Zenon DEF StopCheck
    <3> QED
      BY <1>1, <1>2, <1>4, <2>1, <3>1
      DEF IInv, Types, Started, Found, Served, StoppingHasStopper, Busy
  <2> QED
    BY <2>2, <2>3, Zenon
<1>6. CASE StopMark(a)
  <2>1. stop[a] = "mark" /\ stop' = [stop EXCEPT ![a] = "call"] /\ at' = at
        /\ status' = [status EXCEPT ![at[a]] = "stopping"]
    BY <1>6, Zenon DEF StopMark, StopAt
  <2>2. at[a] \in Service /\ Served(at[a])
    BY <2>1, Zenon DEF IInv, Found, Busy
  <2>3. Types' /\ Started' /\ Found'
    BY <1>1, <2>1, <2>2 DEF IInv, Types, Started, Found, Served, Busy
  <2>4. StoppingHasStopper'
    BY <2>1, <2>2 DEF IInv, Types, StoppingHasStopper
  <2> QED
    BY <1>2, <1>4, <2>3, <2>4, Zenon DEF IInv
<1>7. CASE StopCall(a) \/ StopPolling(a) \/ StopLoop(a)
  <2>1. /\ stop[a] \in {"call", "loop"} /\ UNCHANGED <<status, at>>
        /\ \E to \in {"loop", "set"} : stop' = [stop EXCEPT ![a] = to]
    BY <1>7, Zenon DEF StopCall, StopPolling, StopLoop, StopAt
  <2>2. Types' /\ Started' /\ Found'
    BY <1>1, <2>1 DEF IInv, Types, Started, Found, Served, Busy
  <2>3. StoppingHasStopper'
    BY <2>1 DEF IInv, Types, StoppingHasStopper
  <2> QED
    BY <1>2, <1>4, <2>2, <2>3, Zenon DEF IInv
<1>8. CASE StopSet(a)
  <2>1. /\ stop[a] = "set" /\ stop' = [stop EXCEPT ![a] = "check"] /\ at' = [at EXCEPT ![a] = @ + 1]
        /\ status' = [status EXCEPT ![at[a]] = "stopped"]
    BY <1>8, Zenon DEF StopSet, StopAt
  <2>2. at[a] \in Service /\ Served(at[a])
    BY <2>1, Zenon DEF IInv, Found, Busy
  <2>3. Types' /\ Started' /\ Found'
    BY <1>1, <2>1, <2>2 DEF IInv, Types, Started, Found, Served, Busy
  <2>4. StoppingHasStopper'
    BY <2>1, <2>2 DEF IInv, Types, StoppingHasStopper
  <2> QED
    BY <1>2, <1>4, <2>3, <2>4, Zenon DEF IInv
<1>9. CASE StopDone(a)
  <2>1. stop[a] = "check" /\ stop' = [stop EXCEPT ![a] = "done"] /\ UNCHANGED <<status, at>>
    BY <1>9, Zenon DEF StopDone, StopAt
  <2> QED
    BY <1>1, <1>2, <1>4, <2>1 DEF IInv, Types, Started, Found, Served, StoppingHasStopper, Busy
<1> QED
  BY <1>5, <1>6, <1>7, <1>8, <1>9, Zenon DEF Stop

\* Every step keeps the invariant.
LEMMA Inductive ==
  ASSUME IInv, [Next]_vars
  PROVE  IInv'
<1>1. CASE Signal \/ RpcStop
  <2>1. /\ UNCHANGED <<status, gpc, mpc, next, at>>
        /\ \E a \in {"signal", "rpc"} : stop[a] = "idle" /\ stop' = [stop EXCEPT ![a] = "check"]
    BY <1>1, Zenon DEF Signal, RpcStop, StopAt, main, service
  <2> QED
    BY <2>1 DEF IInv, Types, Ahead, Started, Found, Once, Served, StoppingHasStopper, Busy, Stopper
<1>2. CASE UNCHANGED vars
  BY <1>2 DEF IInv, Types, Ahead, Started, Found, Once, Served, StoppingHasStopper, vars, main, service, stopper
<1>3. ASSUME NEW s \in Service, ServerFailure(s)
      PROVE  IInv'
  BY <1>3 DEF ServerFailure, IInv, Types, Ahead, Started, Found, Once, Served, StoppingHasStopper, main, stopper
<1> QED
  BY <1>1, <1>2, <1>3, MainKeeps, ServiceKeeps, StopKeeps, Zenon DEF Next

\* The initial state satisfies the invariant.
LEMMA Initial == Init => IInv
  BY DEF Init, IInv, Types, Ahead, Started, Found, Once, StoppingHasStopper, Busy, Stopper

\* However many services there are, and however calls of Stop overlap with each other and with services that start, fail
\* or end, no service is left in StatusStopping (Stop, setStatus).
THEOREM NoneLeftStopping == Spec => []StoppingHasStopper
<1>1. IInv => StoppingHasStopper
  BY Zenon DEF IInv
<1> QED
  BY <1>1, Initial, Inductive, PTL DEF Spec

\* However many services there are, one that was stopped is never in StatusServing again: the goroutine that would set
\* it has done so before Stop could find the service (Serve, Stop).
THEOREM StoppedForGood == Spec => StopIsFinal
<1> DEFINE Final == \A s \in Service : status[s] = "stopped" => status'[s] # "serving"
<1>1. IInv /\ [Next]_vars => [Final]_vars
  <2> SUFFICES ASSUME IInv, Next
               PROVE  Final
    BY Zenon
  <2>1. CASE Main \/ Signal \/ RpcStop
    BY <2>1, Zenon DEF IInv, Types, Main, InitService, InitError, InitDone, ServeService, ServeWait, ServeReceive,
                       ServeReturn,
       Exit, Signal, RpcStop
  <2>2. ASSUME NEW s \in Service, Proceed(s) \/ Fail(s)
        PROVE  Final
    <3>1. CASE SetServing(s)
      <4>1. status[s] # "stopped" /\ status' = [status EXCEPT ![s] = "serving"]
        BY <3>1, Zenon DEF SetServing, Go, IInv, Started, Served
      <4> QED
        BY <4>1, Zenon DEF IInv, Types
    <3>2. CASE ~SetServing(s)
      <4>1. status' = status \/ status' = [status EXCEPT ![s] = "stopped"]
        BY <2>2, <3>2, Zenon DEF Proceed, Fail, Prepare, HttpLock, HttpUnlock, Listen, End, Send, SetStopped,
                                 HttpFail,
           FailEarly, FailListen, FailOpen
      <4> QED
        BY <4>1, Zenon DEF IInv, Types
    <3> QED
      BY <3>1, <3>2, Zenon
  <2>3. ASSUME NEW a \in Stopper, Stop(a)
        PROVE  Final
    <3>1. status' = status \/ \E to \in {"stopping", "stopped"} : status' = [status EXCEPT ![at[a]] = to]
      BY <2>3, Zenon DEF Stop, StopCheck, StopMark, StopCall, StopPolling, StopLoop, StopSet, StopDone
    <3> QED
      BY <3>1, Zenon DEF IInv, Types
  <2>4. ASSUME NEW s \in Service, ServerFailure(s)
        PROVE  Final
    BY <2>4, Zenon DEF ServerFailure
  <2> QED
    BY <2>1, <2>2, <2>3, <2>4, Zenon DEF Next
<1> QED
  BY <1>1, Initial, Inductive, PTL DEF Spec, StopIsFinal

----------------------------------------------------------------------------------
(* Types *)

\* Init, Serve and serveHandler keep the types.
LEMMA MainTyped ==
  ASSUME IInv, TypeOK, Told, Main
  PROVE  TypeOK' /\ Told'
<1> USE ContainerAssumption
<1>1. CASE InitService
  <2>1. next \in 1..N /\ next' \in 1..(N + 1)
    BY <1>1 DEF InitService, TypeOK
  <2>2. status' \in [Service -> {"inactive", "ok", "serving", "stopping", "stopped"}]
    BY <1>1, <2>1, ZenonT(60) DEF InitService, TypeOK
  <2> QED
    BY <1>1, <2>1, <2>2, Zenon DEF InitService, TypeOK, Told, service, stopper
<1>2. CASE InitError \/ InitDone \/ ServeWait \/ ServeReturn \/ Exit
  <2>1. next' \in 1..(N + 1) /\ result' \in {"none", "nil", "error"}
    BY <1>2 DEF InitError, InitDone, ServeWait, ServeReturn, Exit, TypeOK
  <2>2. mpc' \in {"init", "serve", "wait", "stop", "returned", "exit"}
    BY <1>2, Zenon DEF InitError, InitDone, ServeWait, ServeReturn, Exit
  <2>3. UNCHANGED <<status, errc, service, stopper>>
    BY <1>2, Zenon DEF InitError, InitDone, ServeWait, ServeReturn, Exit
  <2> QED
    BY <2>1, <2>2, <2>3, Zenon DEF TypeOK, Told, service, stopper
<1>3. CASE ServeService
  <2>1. next \in 1..N /\ next' \in 1..(N + 1)
    BY <1>3 DEF ServeService, TypeOK
  <2>2. /\ gpc' \in [Service -> {"none", "start", "run", "setup", "listen", "open", "send", "sent", "done"}]
        /\ \A s \in Service : gpc'[s] = "send" => gpc[s] = "send"
    BY <1>3, <2>1, Zenon DEF ServeService, TypeOK
  <2> QED
    BY <1>3, <2>1, <2>2, Zenon DEF ServeService, TypeOK, Told, stopper
<1>4. CASE ServeReceive
  <2>1. errc # <<>> /\ errc \in Seq({"nil", "error"}) /\ Len(errc) <= 1
    BY <1>4, Zenon DEF ServeReceive, TypeOK, Capacity
  <2>2. Head(errc) \in {"nil", "error"} /\ Tail(errc) \in Seq({"nil", "error"}) /\ Len(Tail(errc)) <= 1
    BY <2>1
  <2>3. stop' \in [Stopper -> {"idle", "check", "mark", "call", "loop", "set", "done"}]
    BY <1>4, Zenon DEF ServeReceive, TypeOK
  <2> QED
    BY <1>4, <2>2, <2>3, Zenon DEF ServeReceive, TypeOK, Told, Capacity, service
<1> QED
  BY <1>1, <1>2, <1>3, <1>4, Zenon DEF Main

\* The goroutine of a service keeps the types; it sends only while errc has room.
LEMMA ServiceTyped ==
  ASSUME IInv, TypeOK, Told, NEW s \in Service, Proceed(s) \/ Fail(s)
  PROVE  TypeOK' /\ Told'
<1>1. UNCHANGED <<mpc, next, result, stop, at, panic, asked>>
  BY Zenon DEF Proceed, Fail, SetServing, Prepare, HttpLock, HttpUnlock, Listen, End, Send, SetStopped, HttpFail,
               FailEarly,
     FailListen, FailOpen, main, stopper
<1>2. status' \in [Service -> {"inactive", "ok", "serving", "stopping", "stopped"}]
  BY Zenon DEF Proceed, Fail, SetServing, Prepare, HttpLock, HttpUnlock, Listen, End, Send, SetStopped, HttpFail,
               FailEarly,
     FailListen, FailOpen, TypeOK
<1>3. ready \in [Service -> BOOLEAN] /\ locked \in [Service -> BOOLEAN] /\ asked \in [Service -> BOOLEAN]
  BY Zenon DEF TypeOK
<1>4. ready' \in [Service -> BOOLEAN] /\ locked' \in [Service -> BOOLEAN]
  BY <1>3, Zenon DEF Proceed, Fail, SetServing, Prepare, HttpLock, HttpUnlock, Listen, End, Send, SetStopped,
                     HttpFail, FailEarly,
     FailListen, FailOpen
<1>5. CASE Send(s)
  <2>1. outcome[s] \in {"nil", "error"} /\ errc \in Seq({"nil", "error"}) /\ Len(errc) < 1
    BY <1>5, Zenon DEF Send, Go, Told, TypeOK, Capacity
  <2>2. errc' \in Seq({"nil", "error"}) /\ Len(errc') <= 1
    BY <1>5, <2>1 DEF Send
  <2>3. /\ gpc' \in [Service -> {"none", "start", "run", "setup", "listen", "open", "send", "sent", "done"}]
        /\ \A t \in Service : gpc'[t] = "send" => gpc[t] = "send"
    BY <1>5, Zenon DEF Send, Go, TypeOK
  <2>4. outcome' = outcome
    BY <1>5, Zenon DEF Send
  <2> QED
    BY <1>1, <1>2, <1>3, <1>4, <2>2, <2>3, <2>4 DEF TypeOK, Told, Capacity
<1>6. CASE ~Send(s)
  <2>1. errc' = errc
    BY <1>6, Zenon DEF Proceed, Fail, SetServing, Prepare, HttpLock, HttpUnlock, Listen, End, SetStopped, HttpFail,
                       FailEarly,
       FailListen, FailOpen
  <2>2. \/ /\ outcome' = outcome
           /\ \E to \in {"run", "setup", "listen", "open", "done"} : gpc' = [gpc EXCEPT ![s] = to]
        \/ /\ gpc' = [gpc EXCEPT ![s] = "send"]
           /\ \E out \in {"nil", "error"} : outcome' = [outcome EXCEPT ![s] = out]
    BY <1>6, Zenon DEF Proceed, Fail, SetServing, Prepare, HttpLock, HttpUnlock, Listen, End, SetStopped, HttpFail,
                       FailEarly,
       FailListen, FailOpen, Go, Returns
  <2>3. /\ gpc' \in [Service -> {"none", "start", "run", "setup", "listen", "open", "send", "sent", "done"}]
        /\ outcome' \in [Service -> {"none", "nil", "error"}] /\ Told'
    BY <2>2, SMTT(30) DEF TypeOK, Told
  <2> QED
    BY <1>1, <1>2, <1>3, <1>4, <2>1, <2>3 DEF TypeOK
<1> QED
  BY <1>5, <1>6, Zenon

\* Stop keeps the types.
LEMMA StopTyped ==
  ASSUME IInv, TypeOK, Told, NEW a \in Stopper, Stop(a)
  PROVE  TypeOK' /\ Told'
<1> USE ContainerAssumption
<1>1. UNCHANGED <<main, errc, gpc, outcome, locked>>
  BY Zenon DEF Stop, StopCheck, StopMark, StopCall, StopPolling, StopLoop, StopSet, StopDone, service
<1>2. status' \in [Service -> {"inactive", "ok", "serving", "stopping", "stopped"}]
  BY Zenon DEF Stop, StopCheck, StopMark, StopCall, StopPolling, StopLoop, StopSet, StopDone, TypeOK
<1>3. ready \in [Service -> BOOLEAN] /\ locked \in [Service -> BOOLEAN] /\ asked \in [Service -> BOOLEAN]
  BY Zenon DEF TypeOK
<1>4. ready' \in [Service -> BOOLEAN]
  BY <1>3, Zenon DEF Stop, StopCheck, StopMark, StopCall, StopPolling, StopLoop, StopSet, StopDone, service
<1>5. asked' \in [Service -> BOOLEAN] /\ panic' \in BOOLEAN
  <2>1. CASE StopCall(a)
    <3>1. asked' = [asked EXCEPT ![at[a]] = @ \/ ready[at[a]]]
      BY <2>1, Zenon DEF StopCall
    <3>2. at[a] \in Service
      BY <2>1, Zenon DEF StopCall, StopAt, IInv, Found, Busy
    <3>3. (asked[at[a]] \/ ready[at[a]]) \in BOOLEAN
      BY <1>3, <3>2, Zenon
    <3>4. asked' \in [Service -> BOOLEAN]
      BY <1>3, <3>1, <3>2, <3>3, Zenon
    <3>5. panic' \in BOOLEAN
      BY <2>1, Zenon DEF StopCall
    <3> QED
      BY <3>4, <3>5, Zenon
  <2>2. CASE ~StopCall(a)
    BY <1>3, <2>2, Zenon DEF Stop, StopCheck, StopMark, StopPolling, StopLoop, StopSet, StopDone, service, TypeOK
  <2> QED
    BY <2>1, <2>2, Zenon
<1>6. stop' \in [Stopper -> {"idle", "check", "mark", "call", "loop", "set", "done"}]
  BY ZenonT(60) DEF Stop, StopCheck, StopMark, StopCall, StopPolling, StopLoop, StopSet, StopDone, StopAt, TypeOK
<1>7. at' \in [Stopper -> 1..(N + 1)]
  <2>1. CASE StopCheck(a)
    <3>1. at[a] + 1 \in 1..(N + 1)
      BY <2>1 DEF StopCheck, TypeOK
    <3> QED
      BY <2>1, <3>1, Zenon DEF StopCheck, TypeOK
  <2>2. CASE StopSet(a)
    <3>1. at[a] \in 1..N
      BY <2>2, Zenon DEF StopSet, StopAt, IInv, Found, Busy, Service
    <3>2. at[a] + 1 \in 1..(N + 1)
      BY <3>1
    <3> QED
      BY <2>2, <3>2, Zenon DEF StopSet, TypeOK
  <2>3. CASE ~StopCheck(a) /\ ~StopSet(a)
    BY <2>3, Zenon DEF Stop, StopMark, StopCall, StopPolling, StopLoop, StopDone, TypeOK
  <2> QED
    BY <2>1, <2>2, <2>3, Zenon
<1> QED
  BY <1>1, <1>2, <1>3, <1>4, <1>5, <1>6, <1>7 DEF TypeOK, Told, main

\* However many services there are, every variable of the container keeps its type, and no Serve method that has ended
\* is put into errc, make(chan ..., 1), while another one's result is in it (Serve).
THEOREM ContainerTypes == Spec => []TypeOK
<1>1. Init => TypeOK /\ Told
  <2> SUFFICES ASSUME Init PROVE TypeOK /\ Told
    BY Zenon
  <2>1. ready \in [Service -> BOOLEAN] /\ asked = ready /\ locked = ready
    BY Zenon DEF Init
  <2>2. next \in 1..(N + 1) /\ at \in [Stopper -> 1..(N + 1)]
    BY ContainerAssumption DEF Init
  <2>3. errc \in Seq({"nil", "error"}) /\ Len(errc) <= Capacity
    BY DEF Init, Capacity
  <2> QED
    BY <2>1, <2>2, <2>3, Zenon DEF Init, TypeOK, Told
<1>2. IInv /\ TypeOK /\ Told /\ [Next]_vars => (TypeOK /\ Told)'
  <2> SUFFICES ASSUME IInv, TypeOK, Told, [Next]_vars PROVE TypeOK' /\ Told'
    BY Zenon
  <2>1. CASE Signal \/ RpcStop
    <3>1. stop' \in [Stopper -> {"idle", "check", "mark", "call", "loop", "set", "done"}]
      BY <2>1, Zenon DEF Signal, RpcStop, StopAt, TypeOK
    <3>2. UNCHANGED <<status, errc, main, service, at, panic>>
      BY <2>1, Zenon DEF Signal, RpcStop
    <3> QED
      BY <3>1, <3>2, Zenon DEF TypeOK, Told, main, service
  <2>2. CASE UNCHANGED vars
    BY <2>2, Zenon DEF TypeOK, Told, vars, main, service, stopper
  <2>3. ASSUME NEW s \in Service, ServerFailure(s)
        PROVE  TypeOK' /\ Told'
    <3>1. asked \in [Service -> BOOLEAN] /\ asked' = [asked EXCEPT ![s] = TRUE]
      BY <2>3, Zenon DEF ServerFailure, TypeOK
    <3>2. asked' \in [Service -> BOOLEAN]
      BY <3>1, Zenon
    <3>3. UNCHANGED <<status, errc, main, gpc, outcome, ready, locked, stopper>>
      BY <2>3, Zenon DEF ServerFailure
    <3> QED
      BY <3>2, <3>3, Zenon DEF TypeOK, Told, main, stopper
  <2> QED
    BY <2>1, <2>2, <2>3, MainTyped, ServiceTyped, StopTyped, Zenon DEF Next
<1>3. IInv /\ [Next]_vars => IInv'
  BY Inductive, Zenon
<1> QED
  BY <1>1, <1>2, <1>3, Initial, PTL DEF Spec
==================================================================================
