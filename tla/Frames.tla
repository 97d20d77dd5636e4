---------------------------------- MODULE Frames ----------------------------------
(* The conversation of a Worker and its PHP process: frames in both directions, in order.  On one side the
   handshake, Exec and Stop of worker.go, on the other Worker, HttpClient and PSR7Client in the loop of a worker script,
       while ($req = $psr7->acceptRequest()) { try { respond or stop } catch { error } }
   What a frame carries is reduced to what it is and the job it was made for.  The process may die at any
   step, also between the two frames of an answer. *)
EXTENDS Naturals, Sequences

CONSTANTS
  MaxFrames \* bound on the number of calls of Exec

VARIABLES
  package,  \* the relay of the process is a SendPackageRelayInterface
  toWorker, \* frames the process has not read
  toServer, \* frames the Worker has not read
  side,     \* Worker: where fetchPID, Exec or Stop is
  job,      \* number of the job, 0 before the first
  rsp,      \* what execPayload has read
  result,   \* how the last call of Exec ended
  php,      \* process: where its loop is
  header,   \* $ctx of acceptRequest
  request,  \* the request that is handled
  pending,  \* the body of an answer whose context is out
  server    \* $_SERVER: the jobs whose headers are in it

framesVars == <<package, toWorker, toServer, side, job, rsp, result, php, header, request, pending, server>>
goVars == <<side, job, rsp, result>>

Job == 1..MaxFrames
Data(is, j) == [is |-> is, job |-> j]
Null == Data("null", 0) \* no payload: nil in Go, null in PHP
Frame(flags, data) == [flags |-> flags, data |-> data]
Alive == php # "exit"

\* Every variable has its type.
TypeOK ==
  /\ package \in BOOLEAN
  /\ \A q \in {toWorker, toServer} : \A i \in DOMAIN q :
       q[i].flags \subseteq {"control", "raw", "error", "none"} /\ q[i].data.job \in 0..MaxFrames
  /\ side \in {"hello", "pid", "idle", "header", "body", "context", "answer", "errored", "stopping"}
  /\ job \in 0..MaxFrames
  /\ result \in {"none", "answer", "stop", "jobError", "fatal"}
  /\ php \in {"accept", "handle", "respond", "exit"}
  /\ server \subseteq Job /\ request.server \subseteq Job

Init ==
  /\ package \in BOOLEAN
  /\ toWorker = <<>> /\ toServer = <<>>
  /\ side = "hello" /\ job = 0 /\ rsp = [ctx |-> Null, body |-> Null] /\ result = "none"
  /\ php = "accept" /\ header = Null /\ request = [ctx |-> Null, body |-> Null, server |-> {}]
  /\ pending = Null /\ server = {}

-----------------------------------------------------------------------------------
(* The Worker *)

\* Bytes are sent raw; a command is encoded.
sendControl(data) ==
  toWorker' = Append(toWorker, Frame(IF data.is \in {"pid", "stop"} THEN {"control"} ELSE {"control", "raw"}, data))

\* A call that finds the process gone fails; a write may also go unnoticed until the answer is read.
Breaks(res) ==
  /\ ~Alive
  /\ side' = "errored" /\ result' = res
  /\ UNCHANGED <<toWorker, toServer, job, rsp>>

fetchPID ==
  \/ /\ side = "hello" /\ sendControl(Data("pid", 0)) /\ side' = "pid"
     /\ UNCHANGED <<toServer, job, rsp, result>>
  \/ /\ side = "pid" /\ toServer # <<>>
     /\ side' = IF "control" \in Head(toServer).flags THEN "idle" ELSE "errored"
     /\ toServer' = Tail(toServer) /\ UNCHANGED <<toWorker, job, rsp, result>>
  \/ side \in {"hello", "pid"} /\ toServer = <<>> /\ Breaks("none")

\* A worker that asked for its end is given no other job.
Exec ==
  /\ side = "idle" /\ result # "stop" /\ job < MaxFrames
  /\ side' = "header" /\ job' = job + 1 /\ result' = "none" /\ rsp' = [ctx |-> Null, body |-> Null]
  /\ UNCHANGED <<toWorker, toServer>>

\* A context may be empty, or something PHP cannot decode.
SendHeader ==
  /\ side = "header"
  /\ \/ /\ \E c \in {Data("json", job), Data("text", job), Null} : sendControl(c)
        /\ side' = "body" /\ UNCHANGED <<toServer, job, rsp, result>>
     \/ Breaks("fatal")

SendBody ==
  /\ side = "body"
  /\ \/ /\ \E b \in {Data("body", job), Null} : toWorker' = Append(toWorker, Frame({}, b))
        /\ side' = "context" /\ UNCHANGED <<toServer, job, rsp, result>>
     \/ Breaks("fatal")

\* An error is the only frame of its answer.
ReceiveContext ==
  /\ side = "context" /\ toServer # <<>>
  /\ LET f == Head(toServer)
         end == CASE "control" \notin f.flags -> <<"errored", "fatal">>
                  [] {"control", "error"} \subseteq f.flags -> <<"idle", "jobError">>
                  [] OTHER -> <<"answer", result>>
     IN rsp' = [rsp EXCEPT !.ctx = f.data] /\ side' = end[1] /\ result' = end[2]
  /\ toServer' = Tail(toServer) /\ UNCHANGED <<toWorker, job>>

\* The process wants to be terminated.
IsStop(r) == r.body = Null /\ r.ctx.is = "stopRequest"

ReceiveBody ==
  /\ side = "answer" /\ toServer # <<>>
  /\ rsp' = [rsp EXCEPT !.body = Head(toServer).data]
  /\ side' = "idle" /\ result' = IF IsStop(rsp') THEN "stop" ELSE "answer"
  /\ toServer' = Tail(toServer) /\ UNCHANGED <<toWorker, job>>

ReceiveFails == side \in {"context", "answer"} /\ toServer = <<>> /\ Breaks("fatal")

execPayload == SendHeader \/ SendBody \/ ReceiveContext \/ ReceiveBody \/ ReceiveFails

\* Worker.Stop: the command may be written to a process that is gone.
Stop ==
  /\ side \in {"idle", "errored"} /\ sendControl(Data("stop", 0))
  /\ side' = "stopping" /\ UNCHANGED <<toServer, job, rsp, result>>

-----------------------------------------------------------------------------------
(* The process *)

\* Mutant: the headers are put into the $_SERVER of the request before.
configureServerAgain(ctx) == server \cup {ctx.job}

\* A copy of the original $_SERVER, with the headers of the request.
configureServer(ctx) == {ctx.job}

\* Every upload without error is opened from its temporary file, which throws when the file is gone.
wrapUploads == {"handle", "exit"}

\* HttpClient: a termination request, or a context that is none, ends the loop.
acceptable(ctx) == ctx.is = "json"

\* PSR7Client: what it throws is outside of the try of the loop.
acceptRequest(body) ==
  /\ IF acceptable(header)
     THEN /\ server' = configureServer(header)
          /\ request' = [ctx |-> header, body |-> body, server |-> configureServer(header)]
          /\ php' \in wrapUploads
     ELSE php' = "exit" /\ UNCHANGED <<request, server>>
  /\ header' = Null /\ UNCHANGED toServer

\* A raw frame, or one without payload, is the context of the next; the commands are pid and stop.
handleControl(f) ==
  /\ header' = IF f.data.is = "stop" THEN Null ELSE f.data
  /\ toServer' = IF f.data.is = "pid" THEN Append(toServer, Frame({"control"}, Data("pid", 0))) ELSE toServer
  /\ php' = IF f.data.is = "stop" THEN "exit" ELSE php
  /\ UNCHANGED <<request, server>>

receive ==
  /\ php = "accept" /\ toWorker # <<>>
  /\ IF "control" \in Head(toWorker).flags THEN handleControl(Head(toWorker)) ELSE acceptRequest(Head(toWorker).data)
  /\ toWorker' = Tail(toWorker) /\ UNCHANGED <<package, pending, goVars>>

\* The two frames of an answer go out as one package, or one after the other.
send(h, p) ==
  IF package
  THEN toServer' = toServer \o <<Frame({"control", "raw"}, h), Frame({}, p)>> /\ php' = "accept" /\ UNCHANGED pending
  ELSE toServer' = Append(toServer, Frame({"control", "raw"}, h)) /\ php' = "respond" /\ pending' = p

sendPayload ==
  /\ php = "respond"
  /\ toServer' = Append(toServer, Frame({}, pending)) /\ php' = "accept" /\ pending' = Null
  /\ UNCHANGED <<package, toWorker, header, request, server, goVars>>

\* Status and headers that json_encode refuses make an empty context; the body may be empty.
respond ==
  /\ php = "handle"
  /\ \E h \in {Data("head", request.ctx.job), Null}, p \in {Data("reply", request.ctx.job), Null} : send(h, p)
  /\ UNCHANGED <<package, toWorker, header, request, server, goVars>>

error ==
  /\ php = "handle"
  /\ toServer' = Append(toServer, Frame({"control", "raw", "error"}, Data("error", request.ctx.job)))
  /\ php' = "accept" /\ UNCHANGED <<package, toWorker, header, request, pending, server, goVars>>

stop ==
  /\ php = "handle" /\ send(Data("stopRequest", request.ctx.job), Null)
  /\ UNCHANGED <<package, toWorker, header, request, server, goVars>>

\* A fatal error, exit in a script, or Kill.
Dies == Alive /\ php' = "exit" /\ UNCHANGED <<package, toWorker, toServer, header, request, pending, server, goVars>>

-----------------------------------------------------------------------------------
WorkerStep == (fetchPID \/ Exec \/ execPayload \/ Stop) /\ UNCHANGED <<package, php, header, request, pending, server>>
ProcessStep == receive \/ sendPayload \/ respond \/ error \/ stop \/ Dies

Next == WorkerStep \/ ProcessStep
Spec == Init /\ [][Next]_framesVars

-----------------------------------------------------------------------------------
(* What the two sides promise *)

Of(data, kinds) == data = Null \/ (data.is \in kinds /\ data.job = job)

\* A job is answered for itself: the request PHP handles has the context, the body and the $_SERVER of the job Exec
\* waits for, whatever jobs came before (receive, acceptRequest, configureServer); what Exec returns was made from
\* that request (execPayload); and between two jobs no frame is left on the relay (send, error, stop).
JobIsolated ==
  /\ php \in {"handle", "respond"} =>
       request.ctx.job = job /\ Of(request.body, {"body"}) /\ request.server = {job}
  /\ result = "answer" => Of(rsp.ctx, {"head"}) /\ Of(rsp.body, {"reply"})
  /\ result = "jobError" => rsp.ctx = Data("error", job)
  /\ result = "stop" => rsp.ctx = Data("stopRequest", job)
  /\ side = "idle" => toWorker = <<>> /\ toServer = <<>>
===================================================================================
