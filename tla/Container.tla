----------------------------- MODULE Container ------------------------------
(***************************************************************************)
(* service/container.go: the container initialises the registered services *)
(* in order, runs the Serve method of each in a goroutine, waits for the   *)
(* first to end and stops the others.  cmd/rr/cmd/serve.go runs it and     *)
(* stops it on a signal; `rr stop` stops it through the rpc service.  The  *)
(* services differ in how their Serve and Stop synchronise.                *)
(***************************************************************************)
EXTENDS Naturals, Sequences, FiniteSets

CONSTANTS
  N,           \* number of services, in the order of registration
  Plain,       \* services without Serve and Stop: env, headers, static, ...
  Rpc, Http, Metrics, Health, Reload, \* the others, by their kind
  MayFail,     \* bound: the services that may fail
  Outside,     \* the calls of Stop from outside: "signal", and "rpc" for `rr stop`
  MaxOutside   \* bound: how many of them there are

Kinds == <<Plain, Rpc, Http, Metrics, Health, Reload>>

ASSUME ContainerAssumption ==
  /\ N \in Nat \ {0}
  /\ UNION {Kinds[k] : k \in DOMAIN Kinds} = 1..N
  /\ \A j, k \in DOMAIN Kinds : j # k => Kinds[j] \cap Kinds[k] = {}
  /\ MayFail \subseteq 1..N
  /\ Outside \subseteq {"signal", "rpc"} /\ MaxOutside \in Nat

Service == 1..N

\* The goroutines that run Stop: Serve after a failure, the signal handler, a call of rpc.
Stopper == {"serve", "signal", "rpc"}

\* Capacity of the channel errc.
Capacity == 1

VARIABLES
  status,   \* entry.status
  mpc,      \* the main goroutine: Init, Serve, serveHandler
  next,     \* the service it looks at in its loops
  result,   \* what Serve returns
  errc,     \* the channel: what the Serve methods that ended have returned
  gpc,      \* the goroutine of each service
  outcome,  \* what the Serve method of each service has returned
  ready,    \* rpc: serving; http, metrics, health: http # nil; reload: its loop runs
  asked,    \* rpc: stop is closed; http, metrics, health: Shutdown; reload: polling has been told
  locked,   \* http: Serve holds the lock of the service
  stop,     \* program counter of each stopper
  at,       \* the service it looks at
  panic     \* a closed channel has been closed

service == <<gpc, outcome, ready, asked, locked>>
main == <<mpc, next, result>>
stopper == <<stop, at, panic>>
vars == <<status, errc, main, service, stopper>>

\* Every variable has its type, and errc holds no more than its capacity (make(chan ..., 1)).
TypeOK ==
  /\ status \in [Service -> {"inactive", "ok", "serving", "stopping", "stopped"}]
  /\ mpc \in {"init", "serve", "wait", "stop", "returned", "exit"} /\ next \in 1..(N + 1)
  /\ result \in {"none", "nil", "error"}
  /\ errc \in Seq({"nil", "error"}) /\ Len(errc) <= Capacity
  /\ gpc \in [Service -> {"none", "start", "run", "setup", "listen", "open", "send", "sent", "done"}]
  /\ outcome \in [Service -> {"none", "nil", "error"}]
  /\ {ready, asked, locked} \subseteq [Service -> BOOLEAN]
  /\ stop \in [Stopper -> {"idle", "check", "mark", "call", "loop", "set", "done"}]
  /\ at \in [Stopper -> 1..(N + 1)]
  /\ panic \in BOOLEAN

Init ==
  /\ status = [s \in Service |-> "inactive"] /\ errc = <<>>
  /\ mpc = "init" /\ next = 1 /\ result = "none"
  /\ gpc = [s \in Service |-> "none"] /\ outcome = [s \in Service |-> "none"]
  /\ ready = [s \in Service |-> FALSE] /\ asked = ready /\ locked = ready
  /\ stop = [a \in Stopper |-> "idle"] /\ at = [a \in Stopper |-> 1] /\ panic = FALSE
-----------------------------------------------------------------------------
(* Init, Serve and serveHandler *)

\* One round of the loop of Init: the service is configured, or it is disabled.
InitService ==
  /\ mpc = "init" /\ next <= N /\ next' = next + 1
  /\ \E to \in {"ok", "inactive"} : status' = [status EXCEPT ![next] = to]
  /\ UNCHANGED <<mpc, result, errc, service, stopper>>

\* The Init method of a service returns an error: util.ExitWithError.
InitError ==
  /\ mpc = "init" /\ next <= N /\ mpc' = "exit" /\ result' = "error"
  /\ UNCHANGED <<status, next, errc, service, stopper>>

InitDone ==
  /\ mpc = "init" /\ next > N /\ mpc' = "serve" /\ next' = 1
  /\ UNCHANGED <<status, result, errc, service, stopper>>

\* One round of the first loop of Serve: go func(e *entry).
ServeService ==
  /\ mpc = "serve" /\ next <= N /\ next' = next + 1
  /\ gpc' = IF status[next] = "ok" /\ next \notin Plain THEN [gpc EXCEPT ![next] = "start"] ELSE gpc
  /\ UNCHANGED <<status, mpc, result, errc, outcome, ready, asked, locked, stopper>>

\* All goroutines are started; with none there is nothing to wait for.
ServeWait ==
  /\ mpc = "serve" /\ next > N
  /\ IF \A s \in Service : gpc[s] = "none" THEN mpc' = "returned" /\ result' = "nil"
                                           ELSE mpc' = "wait" /\ UNCHANGED result
  /\ UNCHANGED <<status, next, errc, service, stopper>>

\* Mutant: Serve goes on reading after errTempFix223.
ServeReceiveContinue ==
  /\ mpc = "wait" /\ errc # <<>> /\ errc' = Tail(errc)
  /\ IF Head(errc) = "nil" THEN UNCHANGED <<mpc, result, stop>>
       ELSE mpc' = "stop" /\ result' = "error" /\ stop' = [stop EXCEPT !["serve"] = "check"]
  /\ UNCHANGED <<status, next, service, at, panic>>

\* A service has ended: after errTempFix223 Serve returns nil, after an error it calls Stop.
ServeReceive ==
  /\ mpc = "wait" /\ errc # <<>> /\ errc' = Tail(errc) /\ result' = Head(errc)
  /\ IF result' = "nil" THEN mpc' = "returned" /\ UNCHANGED stop
                        ELSE mpc' = "stop" /\ stop' = [stop EXCEPT !["serve"] = "check"]
  /\ UNCHANGED <<status, next, service, at, panic>>

\* Mutant: Serve goes on reading after it has stopped the services.
ServeReturnLoop ==
  /\ mpc = "stop" /\ stop["serve"] = "done" /\ mpc' = "wait"
  /\ UNCHANGED <<status, next, result, errc, service, stopper>>

\* c.Stop() has returned and Serve returns the error.
ServeReturn ==
  /\ mpc = "stop" /\ stop["serve"] = "done" /\ mpc' = "returned"
  /\ UNCHANGED <<status, next, result, errc, service, stopper>>

\* serveHandler returns: at once with an error, else after wg.Wait().
Exit ==
  /\ mpc = "returned" /\ (result = "error" \/ stop["signal"] = "done") /\ mpc' = "exit"
  /\ UNCHANGED <<status, next, result, errc, service, stopper>>

Main ==
  \/ InitService \/ InitError \/ InitDone
  \/ ServeService \/ ServeWait \/ ServeReceive \/ ServeReturn \/ Exit
-----------------------------------------------------------------------------
(* The goroutine of a service *)

\* The goroutine of s moves on.
Go(s, from, to) == gpc[s] = from /\ gpc' = [gpc EXCEPT ![s] = to]

\* The Serve method of s returns.
Returns(s, from, out) == Go(s, from, "send") /\ outcome' = [outcome EXCEPT ![s] = out]

\* e.setStatus(StatusServing).
SetServing(s) ==
  /\ Go(s, "start", "run") /\ status' = [status EXCEPT ![s] = "serving"]
  /\ UNCHANGED <<errc, main, outcome, ready, asked, locked, stopper>>

\* Stop finds the service from here on: rpc sets serving and makes stop, metrics and health
\* set http, reload starts its loop.
Prepare(s) ==
  /\ s \in Rpc \cup Metrics \cup Health \cup Reload
  /\ Go(s, "run", "listen") /\ ready' = [ready EXCEPT ![s] = TRUE]
  /\ UNCHANGED <<status, errc, main, outcome, asked, locked, stopper>>

\* Serve of http makes its servers with the lock of the service held.
HttpLock(s) ==
  /\ s \in Http /\ Go(s, "run", "setup") /\ locked' = [locked EXCEPT ![s] = TRUE]
  /\ UNCHANGED <<status, errc, main, outcome, ready, asked, stopper>>

HttpUnlock(s) ==
  /\ Go(s, "setup", "listen")
  /\ ready' = [ready EXCEPT ![s] = TRUE] /\ locked' = [locked EXCEPT ![s] = FALSE]
  /\ UNCHANGED <<status, errc, main, outcome, asked, stopper>>

\* appendRootCa or initHTTP2 fails, and Serve returns with the lock held.
HttpFail(s) ==
  /\ s \in MayFail /\ Returns(s, "setup", "error")
  /\ UNCHANGED <<status, errc, main, ready, asked, locked, stopper>>

\* Metrics cannot make or register a collector; the interval of reload is too short.
FailEarly(s) ==
  /\ s \in MayFail \cap (Metrics \cup Reload) /\ Returns(s, "run", "error")
  /\ UNCHANGED <<status, errc, main, ready, asked, locked, stopper>>

\* The address cannot be bound, or the workers of http do not start.
FailListen(s) ==
  /\ s \in MayFail \ Reload /\ Returns(s, "listen", "error")
  /\ UNCHANGED <<status, errc, main, ready, asked, locked, stopper>>

\* The service listens (reload: polls).
Listen(s) ==
  /\ Go(s, "listen", "open")
  /\ UNCHANGED <<status, errc, main, outcome, ready, asked, locked, stopper>>

\* A server of net/http fails while it accepts connections.
FailOpen(s) ==
  /\ s \in MayFail \ (Rpc \cup Reload) /\ Returns(s, "open", "error")
  /\ UNCHANGED <<status, errc, main, ready, asked, locked, stopper>>

\* EventServerFailure, the workers of http are lost: http calls its own Stop.
ServerFailure(s) ==
  /\ s \in MayFail \cap Http /\ gpc[s] \in {"listen", "open"} /\ ~locked[s] /\ ~asked[s]
  /\ asked' = [asked EXCEPT ![s] = TRUE]
  /\ UNCHANGED <<status, errc, main, gpc, outcome, ready, locked, stopper>>

\* The service has been told to stop, and its Serve returns nil; rpc clears serving.
End(s) ==
  /\ asked[s] /\ Returns(s, "open", "nil")
  /\ ready' = IF s \in Rpc THEN [ready EXCEPT ![s] = FALSE] ELSE ready
  /\ UNCHANGED <<status, errc, main, asked, locked, stopper>>

\* Mutant: errc never blocks.
SendUnbounded(s) ==
  /\ Go(s, "send", "sent") /\ errc' = Append(errc, outcome[s])
  /\ UNCHANGED <<status, main, outcome, ready, asked, locked, stopper>>

\* c.errc <- ..., which blocks while the channel is full.
Send(s) ==
  /\ Len(errc) < Capacity
  /\ Go(s, "send", "sent") /\ errc' = Append(errc, outcome[s])
  /\ UNCHANGED <<status, main, outcome, ready, asked, locked, stopper>>

\* defer e.setStatus(StatusStopped).
SetStopped(s) ==
  /\ Go(s, "sent", "done") /\ status' = [status EXCEPT ![s] = "stopped"]
  /\ UNCHANGED <<errc, main, outcome, ready, asked, locked, stopper>>

\* What the goroutine of s does unless something fails.
Proceed(s) ==
  \/ SetServing(s) \/ Prepare(s) \/ HttpLock(s) \/ HttpUnlock(s) \/ Listen(s) \/ End(s)
  \/ Send(s) \/ SetStopped(s)

Fail(s) == HttpFail(s) \/ FailEarly(s) \/ FailListen(s) \/ FailOpen(s)
-----------------------------------------------------------------------------
(* Stop *)

\* Stopper a moves on.
StopAt(a, from, to) == stop[a] = from /\ stop' = [stop EXCEPT ![a] = to]

\* The bound on the calls of Stop from outside.
MayStop(a) == a \in Outside /\ Cardinality({b \in Outside : stop[b] # "idle"}) < MaxOutside

\* <-c in serveHandler.
Signal ==
  /\ MayStop("signal") /\ mpc # "init" /\ StopAt("signal", "idle", "check")
  /\ UNCHANGED <<status, errc, main, service, at, panic>>

\* `rr stop`: a connection the rpc service has accepted calls system.Stop.
RpcStop ==
  /\ MayStop("rpc") /\ \E s \in Rpc : gpc[s] = "open"
  /\ StopAt("rpc", "idle", "check")
  /\ UNCHANGED <<status, errc, main, service, at, panic>>

\* Mutant: Stop does not pass over services that are only configured.
StopCheckAny(a) ==
  /\ stop[a] = "check" /\ at[a] <= N
  /\ IF status[at[a]] \in {"ok", "serving"} /\ at[a] \notin Plain
       THEN StopAt(a, "check", "mark") /\ UNCHANGED at
       ELSE at' = [at EXCEPT ![a] = @ + 1] /\ UNCHANGED stop
  /\ UNCHANGED <<status, errc, main, service, panic>>

\* e.hasStatus(StatusServing): the other services are passed over.
StopCheck(a) ==
  /\ stop[a] = "check" /\ at[a] <= N
  /\ IF status[at[a]] = "serving"
       THEN StopAt(a, "check", "mark") /\ UNCHANGED at
       ELSE at' = [at EXCEPT ![a] = @ + 1] /\ UNCHANGED stop
  /\ UNCHANGED <<status, errc, main, service, panic>>

\* e.setStatus(StatusStopping).
StopMark(a) ==
  /\ StopAt(a, "mark", "call") /\ status' = [status EXCEPT ![at[a]] = "stopping"]
  /\ UNCHANGED <<errc, main, service, at, panic>>

\* Stop of rpc, http, metrics and health: a service that is not ready is not told.
StopCall(a) ==
  LET s == at[a] IN
  /\ StopAt(a, "call", "set") /\ s \notin Reload /\ ~locked[s]
  /\ asked' = [asked EXCEPT ![s] = @ \/ ready[s]]
  /\ panic' = (s \in Rpc /\ ready[s] /\ asked[s])
  /\ UNCHANGED <<status, errc, main, gpc, outcome, ready, locked, at>>

\* Stop of reload: w.close <- waits for the polling to take it, ...
StopPolling(a) ==
  LET s == at[a] IN
  /\ StopAt(a, "call", "loop") /\ s \in Reload /\ gpc[s] = "open" /\ ~asked[s]
  /\ asked' = [asked EXCEPT ![s] = TRUE]
  /\ UNCHANGED <<status, errc, main, gpc, outcome, ready, locked, at, panic>>

\* ... and s.stopc <- for the loop that resets the servers.
StopLoop(a) ==
  LET s == at[a] IN
  /\ StopAt(a, "loop", "set") /\ ready[s] /\ ready' = [ready EXCEPT ![s] = FALSE]
  /\ UNCHANGED <<status, errc, main, gpc, outcome, asked, locked, at, panic>>

\* Mutant: Stop does not set StatusStopped.
StopSetOnlyMoves(a) ==
  /\ StopAt(a, "set", "check") /\ at' = [at EXCEPT ![a] = @ + 1]
  /\ UNCHANGED <<status, errc, main, service, panic>>

\* e.setStatus(StatusStopped).
StopSet(a) ==
  /\ StopAt(a, "set", "check") /\ at' = [at EXCEPT ![a] = @ + 1]
  /\ status' = [status EXCEPT ![at[a]] = "stopped"]
  /\ UNCHANGED <<errc, main, service, panic>>

StopDone(a) ==
  /\ at[a] > N /\ StopAt(a, "check", "done")
  /\ UNCHANGED <<status, errc, main, service, at, panic>>

Stop(a) ==
  \/ StopCheck(a) \/ StopMark(a) \/ StopCall(a) \/ StopPolling(a) \/ StopLoop(a) \/ StopSet(a)
  \/ StopDone(a)
-----------------------------------------------------------------------------
\* The process runs: it has neither ended nor panicked.
Running == mpc # "exit" /\ ~panic

Next ==
  /\ Running
  /\ \/ Main \/ Signal \/ RpcStop
     \/ \E s \in Service : Proceed(s) \/ Fail(s) \/ ServerFailure(s)
     \/ \E a \in Stopper : Stop(a)

Spec == Init /\ [][Next]_vars

\* Goroutines that can run do run.  Services need not fail, and nobody need stop the program.
Fairness ==
  /\ WF_vars(Running /\ Main)
  /\ \A s \in Service : WF_vars(Running /\ Proceed(s))
  /\ \A a \in Stopper : WF_vars(Running /\ Stop(a))

FairSpec == Spec /\ Fairness
-----------------------------------------------------------------------------
(* Properties *)

\* A service that has been stopped is never again reported as serving: Stop passes over the
\* services whose goroutine has not called setStatus(StatusServing) yet.
StopIsFinal == [][\A s \in Service : status[s] = "stopped" => status'[s] # "serving"]_vars

\* A service is in StatusStopping only while some Stop is working on it: whatever the order
\* of concurrent calls of Stop and of the deferred setStatus, none is left in that state.
StoppingHasStopper ==
  \A s \in Service :
    status[s] = "stopping" => \E a \in Stopper : at[a] = s /\ stop[a] \in {"call", "loop", "set"}

\* Only a runs Stop.
Alone(a) == \A b \in Stopper \ {a} : stop[b] = "idle"

\* Every service that has been started listens, or its Serve has returned.
AllUp ==
  /\ mpc \notin {"init", "serve"}
  /\ \A s \in Service : gpc[s] \notin {"start", "run", "setup"}

\* A service whose Stop blocks for good after its failure: http holds its lock, and nobody
\* receives from the channels of reload.
Stuck(s) == outcome[s] = "error" /\ (locked[s] \/ s \in Reload)

\* A signal that finds all services up ends the program, if nothing else stops it: every Stop
\* reaches its service and Serve and serveHandler return.  No service is one whose Stop blocks.
SignalEnds ==
  [](Alone("signal") /\ \A s \in Service : ~Stuck(s))
    => ((stop["signal"] = "check" /\ at["signal"] = 1 /\ AllUp) ~> mpc = "exit")

\* When a service fails, Serve stops the others, returns the error and the program ends,
\* although services are still starting or fail too; none of them is one whose Stop blocks.
\* The one failure that may go unread comes after http has ended by itself (ServerFailure): the
\* loop of Serve breaks at errTempFix223, and Serve has returned nil.
FailureEnds ==
  [](Alone("serve") /\ \A s \in Service : ~Stuck(s))
    => ((\E s \in Service : outcome[s] = "error") ~> (mpc = "exit" \/ result = "nil"))

\* Not so: a failure ends the program, whichever services have ended before.
AnyFailureEnds ==
  [](Alone("serve") /\ \A s \in Service : ~Stuck(s))
    => ((\E s \in Service : outcome[s] = "error") ~> mpc = "exit")

\* `rr stop`, "Stop RoadRunner server" (cmd/rr/cmd/stop.go:31), ends the program: the process
\* does not run on after system.Stop has returned.
RpcStopEnds == stop["rpc"] = "done" ~> ~Running
=============================================================================
