---------------------------------- MODULE Spawn ----------------------------------
(* pipe_factory.go, socket_factory.go and the handshake of protocol.go and Worker.php: how a process
   becomes a worker.  A worker stands for its process and its pid; a pid is not given out twice while
   the factory lives.  The worker object of a failed call is dropped, so its state is not kept. *)
EXTENDS Naturals, Sequences, FiniteSets

CONSTANTS
  Piped,     \* workers spawned by a PipeFactory
  Socketed,  \* workers spawned by a SocketFactory
  Stranger,  \* a pid no SpawnWorker waits for
  MaxSpawns  \* bound: calls of SpawnWorker

VARIABLES
  spawn,     \* where the call of SpawnWorker is
  proc,      \* the process: none, boot, connected, answered, exited
  waitDone,  \* w.waitDone is closed
  rl,        \* w.rl: none, open, closed
  fetchErr,  \* fetchPID of a PipeFactory returned an error
  killer,    \* the goroutine that calls Kill
  relays,    \* the keys of f.relays
  backlog,   \* connections the listener has not accepted
  loop,      \* the accept loop
  listening, \* f.ls is open
  introduced \* processes that have sent their own pid

vars == <<spawn, proc, waitDone, rl, fetchErr, killer, relays, backlog, loop, listening,
          introduced>>
workerVars == <<waitDone, rl, fetchErr, killer>>
factoryVars == <<relays, backlog, loop, listening>>

Worker == Piped \cup Socketed
Running == {"boot", "connected", "answered"}
Returned == {"worker", "error", "nil"}

\* Every variable has its type.
TypeOK ==
  /\ spawn \in [Worker -> {"idle", "started", "find", "bind", "failing"} \cup Returned]
  /\ proc \in [Worker -> {"none", "exited"} \cup Running]
  /\ waitDone \in [Worker -> BOOLEAN]
  /\ rl \in [Worker -> {"none", "open", "closed"}]
  /\ fetchErr \in [Worker -> BOOLEAN]
  /\ killer \in [Worker -> {"none", "test"}]
  /\ relays \subseteq Worker \cup {Stranger}
  /\ backlog \in Seq(Socketed)
  /\ loop \in [at : {"accept", "fetch", "offer", "ended"}, pid : Worker \cup {Stranger}]
  /\ listening \in BOOLEAN
  /\ introduced \subseteq Worker

Accepting == [at |-> "accept", pid |-> Stranger]

Init ==
  /\ spawn = [w \in Worker |-> "idle"] /\ proc = [w \in Worker |-> "none"]
  /\ rl = [w \in Worker |-> "none"]
  /\ waitDone = [w \in Worker |-> FALSE]
  /\ fetchErr = [w \in Worker |-> FALSE] /\ killer = [w \in Worker |-> "none"]
  /\ relays = {} /\ backlog = <<>> /\ loop = Accepting /\ listening = TRUE /\ introduced = {}

----------------------------------------------------------------------------------
(* The process *)

\* Mutant: a worker of the pipes connects to the socket.
ConnectAny(w) ==
  /\ proc[w] = "boot"
  /\ proc' = [proc EXCEPT ![w] = "connected"]
  /\ backlog' = Append(backlog, w)
  /\ UNCHANGED <<spawn, workerVars, relays, loop, listening, introduced>>

\* PHP connects to the socket, or reads from its standard input.
Connect(w) ==
  /\ proc[w] = "boot"
  /\ proc' = [proc EXCEPT ![w] = "connected"]
  /\ w \in Socketed => listening
  /\ backlog' = IF w \in Socketed THEN Append(backlog, w) ELSE backlog
  /\ UNCHANGED <<spawn, workerVars, relays, loop, listening, introduced>>

Exit(w) ==
  /\ proc[w] \in Running
  /\ proc' = [proc EXCEPT ![w] = "exited"]
  /\ UNCHANGED <<spawn, waitDone, rl, fetchErr, killer, factoryVars, introduced>>

\* handleControl answers {"pid": N} with getmypid(): the pid of w, unless the command is a wrapper that
\* started another process, or something that is not the protocol.
Answers(w, reply) ==
  /\ proc[w] = "connected"
  /\ proc' = [proc EXCEPT ![w] = "answered"]
  /\ introduced' = IF reply = "pid" THEN introduced \cup {w} ELSE introduced

\* The goroutine of Worker.start: Process.Wait returns, waitDone is closed, and so is the relay it finds.
Reap(w) ==
  /\ proc[w] = "exited" /\ ~waitDone[w]
  /\ waitDone' = [waitDone EXCEPT ![w] = TRUE]
  /\ rl' = [rl EXCEPT ![w] = IF @ = "open" THEN "closed" ELSE @]
  /\ UNCHANGED <<spawn, proc, fetchErr, killer, factoryVars, introduced>>

----------------------------------------------------------------------------------
(* SpawnWorker *)

\* A PipeFactory sets w.rl first; both start the process, or return "process error" with waitDone closed.
Start(w) ==
  /\ spawn[w] = "idle" /\ Cardinality({v \in Worker : spawn[v] # "idle"}) < MaxSpawns
  /\ rl' = [rl EXCEPT ![w] = IF w \in Piped THEN "open" ELSE @]
  /\ \/ /\ spawn' = [spawn EXCEPT ![w] = "started"] /\ proc' = [proc EXCEPT ![w] = "boot"]
        /\ UNCHANGED waitDone
     \/ /\ spawn' = [spawn EXCEPT ![w] = "error"] /\ waitDone' = [waitDone EXCEPT ![w] = TRUE]
        /\ UNCHANGED proc
  /\ UNCHANGED <<fetchErr, killer, factoryVars, introduced>>

\* The call gives up: Kill in a goroutine of its own, then Wait.
Fails(w) ==
  /\ spawn' = [spawn EXCEPT ![w] = "failing"]
  /\ killer' = [killer EXCEPT ![w] = "test"]

\* Mutant: any pid will do.
MatchesAny(reply) == reply # "bad"

\* fetchPID returned the pid of the process.
Matches(reply) == reply = "pid"

\* What fetchPID makes of an answer: the pid of the process, another one, or an error.
fetchPID == {"pid", "other", "bad"}

\* fetchPID over the pipes has no timeout: it returns when the process answers or is gone.
FetchPID(w) ==
  /\ w \in Piped /\ spawn[w] = "started"
  /\ \/ \E reply \in fetchPID :
          /\ Answers(w, reply)
          /\ fetchErr' = [fetchErr EXCEPT ![w] = reply = "bad"]
          /\ IF Matches(reply)
             THEN spawn' = [spawn EXCEPT ![w] = "worker"] /\ UNCHANGED killer
             ELSE Fails(w)
     \/ /\ proc[w] = "exited" /\ Fails(w) /\ fetchErr' = [fetchErr EXCEPT ![w] = TRUE]
        /\ UNCHANGED <<proc, introduced>>
  /\ UNCHANGED <<waitDone, rl, factoryVars>>

\* The channel of a pid is made when it is first asked for.
relayChan(pid) == relays \cup {pid}

cleanChan(w) == relays \ {w}

FindRelay(w) ==
  /\ w \in Socketed /\ spawn[w] = "started"
  /\ spawn' = [spawn EXCEPT ![w] = "find"]
  /\ relays' = relayChan(w)
  /\ UNCHANGED <<proc, workerVars, backlog, loop, listening, introduced>>

FindReceive(w) ==
  /\ spawn[w] = "find" /\ loop = [at |-> "offer", pid |-> w]
  /\ spawn' = [spawn EXCEPT ![w] = "bind"]
  /\ relays' = cleanChan(w) /\ loop' = Accepting
  /\ UNCHANGED <<proc, workerVars, backlog, listening, introduced>>

\* Mutant: findRelay has no timer.
FindNoTimeout(w) == FALSE /\ UNCHANGED vars

FindTimeout(w) ==
  /\ spawn[w] = "find"
  /\ Fails(w)
  /\ UNCHANGED <<proc, waitDone, rl, fetchErr, factoryVars, introduced>>

FindGone(w) ==
  /\ spawn[w] = "find" /\ waitDone[w]
  /\ Fails(w)
  /\ relays' = cleanChan(w)
  /\ UNCHANGED <<proc, waitDone, rl, fetchErr, backlog, loop, listening, introduced>>

Bind(w) ==
  /\ spawn[w] = "bind"
  /\ spawn' = [spawn EXCEPT ![w] = "worker"]
  /\ rl' = [rl EXCEPT ![w] = "open"]
  /\ UNCHANGED <<proc, waitDone, fetchErr, killer, factoryVars, introduced>>

Kill(w) ==
  /\ killer[w] = "test"
  /\ killer' = [killer EXCEPT ![w] = "none"]
  /\ proc' = [proc EXCEPT ![w] = IF @ \in Running THEN "exited" ELSE @]
  /\ UNCHANGED <<spawn, waitDone, rl, fetchErr, factoryVars, introduced>>

WaitOver(w) == waitDone[w]

\* Wait returns nil, the error output, or an ExitError.  A PipeFactory wraps an ExitError only into an error it
\* has already, and errors.Wrap of nil is nil.
WaitReturn(w) ==
  /\ spawn[w] = "failing" /\ WaitOver(w)
  /\ \E wErr \in {"nil", "exit", "stderr"} :
       spawn' = [spawn EXCEPT ![w] = IF w \in Socketed \/ fetchErr[w] \/ wErr = "stderr"
                                     THEN "error" ELSE "nil"]
  /\ UNCHANGED <<proc, workerVars, factoryVars, introduced>>

----------------------------------------------------------------------------------
(* SocketFactory.listen *)

Accept ==
  /\ loop.at = "accept"
  /\ \/ /\ listening /\ backlog # <<>>
        /\ loop' = [at |-> "fetch", pid |-> Head(backlog)] /\ backlog' = Tail(backlog)
     \/ ~listening /\ loop' = [loop EXCEPT !.at = "ended"] /\ UNCHANGED backlog
  /\ UNCHANGED <<spawn, proc, workerVars, relays, listening, introduced>>

\* fetchPID on the accepted connection; the loop waits in it for this one process.
ListenFetch ==
  LET w == loop.pid IN
  /\ loop.at = "fetch"
  /\ \/ \E p \in {w, Stranger} :
          /\ Answers(w, IF p = w THEN "pid" ELSE "other")
          /\ loop' = [at |-> "offer", pid |-> p] /\ relays' = relayChan(p)
     \/ Answers(w, "bad") /\ loop' = Accepting /\ UNCHANGED relays
     \/ proc[w] = "exited" /\ loop' = Accepting /\ UNCHANGED <<proc, introduced, relays>>
  /\ UNCHANGED <<spawn, workerVars, backlog, listening>>

Close ==
  /\ listening
  /\ listening' = FALSE
  /\ UNCHANGED <<spawn, proc, workerVars, relays, backlog, loop, introduced>>

SpawnWorker(w) ==
  \/ Start(w) \/ FetchPID(w) \/ FindRelay(w) \/ FindReceive(w) \/ FindTimeout(w) \/ FindGone(w)
  \/ Bind(w) \/ WaitReturn(w)

Next ==
  \/ \E w \in Worker : SpawnWorker(w) \/ Kill(w) \/ Connect(w) \/ Exit(w) \/ Reap(w)
  \/ Accept \/ ListenFetch \/ Close

\* Goroutines run, the relay timer fires, a kill and an exit are noticed; nothing is assumed of the process.
Fairness ==
  \A w \in Worker : /\ WF_vars(FindRelay(w)) /\ WF_vars(FindTimeout(w)) /\ WF_vars(Bind(w))
                    /\ WF_vars(Kill(w)) /\ WF_vars(Reap(w)) /\ WF_vars(WaitReturn(w))

Spec == Init /\ [][Next]_vars
FairSpec == Spec /\ Fairness

----------------------------------------------------------------------------------
\* SpawnWorker returns a worker only if the process has sent the pid it was started with: neither a
\* process that speaks another protocol nor a stranger on the socket becomes a worker.
WorkerIntroduced == \A w \in Worker : spawn[w] \in {"bind", "worker"} => w \in introduced

\* A call that returns without a worker leaves no process: it was killed and reaped.
FailureLeavesNone ==
  \A w \in Worker : spawn[w] \in {"error", "nil"} => waitDone[w] /\ proc[w] \notin Running

\* f.relays holds a channel only for a call that waits, for the pid the accept loop is delivering, or for
\* what is left behind: a call that failed, a pid nobody waits for.
RelaysAccounted ==
  relays \subseteq {w \in Socketed : spawn[w] \in {"find", "failing", "error"}} \cup {loop.pid, Stranger}

\* What a call of SpawnWorker leaves: a worker that has introduced itself, or no process, and no channel in
\* f.relays that is not accounted for.
SpawnOutcome == WorkerIntroduced /\ FailureLeavesNone /\ RelaysAccounted

\* The timer of findRelay bounds SpawnWorker of a SocketFactory, whatever process and accept loop do.
SocketSpawnReturns == \A w \in Socketed : spawn[w] = "started" ~> spawn[w] \in Returned

\* SpawnWorker returns a worker or an error.
WorkerOrError == \A w \in Worker : spawn[w] # "nil"

\* listen goes on to the next connection.
ListensAgain == loop.at = "offer" ~> loop.at \in {"accept", "ended"}
==================================================================================
