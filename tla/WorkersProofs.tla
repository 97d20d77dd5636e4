------------------------------ MODULE WorkersProofs ------------------------------
(* Frames, Spawn, ErrorBuffer and Limit for any number of workers, writes, jobs and frames, over the behaviours
   MCWorkers puts together.  What is shown of the controller is taken from LimitProofs.

   For the relay the invariant says, for every place the Worker can be at, what can be on it and where the process
   can be: the two take turns, and a frame that is out belongs to the current job. *)
EXTENDS MCWorkers, TLAPS

----------------------------------------------------------------------------------
(* The relay *)

Contexts == {Data("json", job), Data("text", job), Null}
Bodies == {Data("body", job), Null}

\* What an answer may consist of: a request to stop has no body.
Answers == ({Data("head", job), Null} \X {Data("reply", job), Null}) \cup {<<Data("stopRequest", job), Null>>}

CtxFrame(c) == Frame({"control", "raw"}, c)
BodyFrame(b) == Frame({}, b)
PidFrame == Frame({"control"}, Data("pid", 0))
StopFrame == Frame({"control"}, Data("stop", 0))
ErrorFrame == Frame({"control", "raw", "error"}, Data("error", job))

Asleep == php \in {"accept", "exit"}
Quiet == toWorker = <<>> /\ toServer = <<>> /\ Asleep

\* The request that is handled is the one of the current job.
Own == request.ctx = Data("json", job) /\ request.body \in Bodies /\ request.server = {job}

\* Handshake: the command is out, or its answer.
AtPid ==
  /\ Asleep
  /\ \/ toWorker = <<PidFrame>> /\ toServer = <<>>
     \/ toWorker = <<>> /\ toServer = <<PidFrame>>

\* The context is out and not read, or read.
AtBody ==
  /\ Asleep /\ toServer = <<>>
  /\ \/ \E c \in Contexts : toWorker = <<CtxFrame(c)>>
     \/ toWorker = <<>> /\ header \in Contexts

\* The process has not read the request.
Unread ==
  /\ Asleep /\ toServer = <<>>
  /\ \E b \in Bodies :
       \/ \E c \in Contexts : toWorker = <<CtxFrame(c), BodyFrame(b)>>
       \/ toWorker = <<BodyFrame(b)>> /\ header \in Contexts

\* The process has read it, and its answer is out as far as the process is.
Handled ==
  /\ toWorker = <<>>
  /\ \/ php = "handle" /\ Own /\ toServer = <<>>
     \/ php = "respond" /\ Own /\ \E a \in Answers : toServer = <<CtxFrame(a[1])>> /\ pending = a[2]
     \/ Asleep /\ \E a \in Answers : toServer = <<CtxFrame(a[1]), BodyFrame(a[2])>>
     \/ Asleep /\ toServer = <<ErrorFrame>>
     \/ php = "exit" /\ toServer = <<>>
     \/ php = "exit" /\ \E a \in Answers : toServer = <<CtxFrame(a[1])>>

\* The context of the answer is read, its body is to come or never will.
AtAnswer ==
  /\ toWorker = <<>>
  /\ \/ php = "respond" /\ Own /\ toServer = <<>> /\ <<rsp.ctx, pending>> \in Answers
     \/ Asleep /\ \E b \in {Data("reply", job), Null} : toServer = <<BodyFrame(b)>> /\ <<rsp.ctx, b>> \in Answers
     \/ php = "exit" /\ toServer = <<>>

\* What Exec has returned.
Returned ==
  /\ result = "answer" => rsp.ctx \in {Data("head", job), Null} /\ rsp.body \in {Data("reply", job), Null}
  /\ result = "jobError" => rsp.ctx = Data("error", job)
  /\ result = "stop" => rsp.ctx = Data("stopRequest", job)

\* Where the Worker is, and what goes with it.
Place ==
  \/ side \in {"hello", "header"} /\ result = "none" /\ Quiet
  \/ side = "idle" /\ Quiet
  \/ side = "pid" /\ result = "none" /\ AtPid
  \/ side = "body" /\ result = "none" /\ AtBody
  \/ side = "context" /\ result = "none" /\ (Unread \/ Handled)
  \/ side = "answer" /\ result = "none" /\ AtAnswer
  \/ side = "errored" /\ result \in {"none", "fatal"} /\ php = "exit"
  \/ side = "stopping" /\ Asleep /\ (php = "accept" => toWorker = <<StopFrame>>)

IInv == Place /\ Returned /\ rsp = [ctx |-> rsp.ctx, body |-> rsp.body]

----------------------------------------------------------------------------------
(* Short queues *)

\* What Append does to a queue of one frame.
LEMMA AppendSecond ==
  ASSUME NEW x, NEW y
  PROVE  Append(<<x>>, y) = <<x, y>>
<1> DEFINE s == Append(<<x>>, y)
<1>1. <<x>> \in Seq({x, y}) /\ Len(<<x>>) = 1 /\ <<x>>[1] = x
  OBVIOUS
<1>2. s \in Seq({x, y}) /\ Len(s) = 2 /\ s[1] = x /\ s[2] = y
  BY <1>1
<1>3. <<x, y>> \in Seq({x, y}) /\ Len(<<x, y>>) = 2 /\ \A i \in 1..Len(s) : s[i] = <<x, y>>[i]
  BY <1>2
<1> HIDE DEF s
<1>4. s = <<x, y>>
  BY <1>2, <1>3
<1> QED
  BY <1>4, Zenon DEF s

\* What the operations do to the queues of the relay, which never hold more than two frames.
LEMMA Queues ==
  /\ \A x : Append(<<>>, x) = <<x>> /\ Head(<<x>>) = x /\ Tail(<<x>>) = <<>> /\ <<x>> # <<>>
  /\ \A x, y : Append(<<x>>, y) = <<x, y>> /\ <<>> \o <<x, y>> = <<x, y>>
  /\ \A x, y : Head(<<x, y>>) = x /\ Tail(<<x, y>>) = <<y>> /\ <<x, y>> # <<>>
<1>1. \A x, y : Append(<<x>>, y) = <<x, y>>
  BY AppendSecond, Zenon
<1>2. \A x : Append(<<>>, x) = <<x>> /\ Head(<<x>>) = x /\ Tail(<<x>>) = <<>> /\ <<x>> # <<>>
  OBVIOUS
<1>3. \A x, y : Head(<<x, y>>) = x /\ Tail(<<x, y>>) = <<y>> /\ <<x, y>> # <<>>
  OBVIOUS
<1>4. \A x, y : <<>> \o <<x, y>> = <<x, y>>
  OBVIOUS
<1> QED
  BY <1>1, <1>2, <1>3, <1>4, Zenon

\* Two equal frames have the same flags and the same data, and so have two equal data the same kind and job.
LEMMA Fields ==
  /\ \A f, d : Frame(f, d).flags = f /\ Frame(f, d).data = d
  /\ \A k, j : Data(k, j).is = k /\ Data(k, j).job = j
  /\ Null.is = "null"
  BY Zenon DEF Frame, Data, Null

----------------------------------------------------------------------------------
(* The Worker *)

\* The handshake keeps the invariant (fetchPID).
LEMMA FetchPIDKeeps ==
  ASSUME IInv, fetchPID, UNCHANGED <<package, php, header, request, pending, server>>
  PROVE  IInv'
<1>1. CASE side = "hello" /\ sendControl(Data("pid", 0)) /\ side' = "pid" /\ UNCHANGED <<toServer, job, rsp, result>>
  <2>1. Quiet /\ result = "none"
    BY <1>1, Zenon DEF IInv, Place
  <2>2. toWorker' = <<PidFrame>>
    BY <1>1, <2>1, Queues, Fields, Zenon DEF Quiet, sendControl, PidFrame
  <2>3. AtPid'
    BY <1>1, <2>1, <2>2, Zenon DEF AtPid, Quiet, Asleep, PidFrame
  <2> QED
    BY <1>1, <2>1, <2>3, Zenon DEF IInv, Place, Returned
<1>2. CASE side = "pid" /\ toServer # <<>> /\ toServer' = Tail(toServer) /\ UNCHANGED <<toWorker, job, rsp, result>>
           /\ side' = IF "control" \in Head(toServer).flags THEN "idle" ELSE "errored"
  <2>1. AtPid /\ result = "none"
    BY <1>2, Zenon DEF IInv, Place
  <2>2. Head(toServer) = PidFrame /\ toServer' = <<>> /\ toWorker = <<>> /\ Asleep
    BY <1>2, <2>1, Queues, Zenon DEF AtPid
  <2>3. side' = "idle"
    BY <1>2, <2>2, Fields DEF PidFrame
  <2> QED
    BY <1>2, <2>1, <2>2, <2>3 DEF IInv, Place, Returned, Quiet, Asleep
<1>3. CASE side \in {"hello", "pid"} /\ Breaks("none")
  BY <1>3, Zenon DEF IInv, Place, Returned, Breaks, Alive
<1> QED
  BY <1>1, <1>2, <1>3, Zenon DEF fetchPID

\* A call that finds the process gone keeps the invariant.
LEMMA BreaksKeeps ==
  ASSUME IInv, Breaks("fatal"), UNCHANGED <<package, php, header, request, pending, server>>
  PROVE  IInv'
  BY Zenon DEF IInv, Place, Returned, Breaks, Alive

\* Exec finds an empty relay (Exec).
LEMMA ExecKeeps ==
  ASSUME IInv, Exec, UNCHANGED <<package, php, header, request, pending, server>>
  PROVE  IInv'
<1>1. Quiet
  BY Zenon DEF IInv, Place, Exec
<1> QED
  BY <1>1, Zenon DEF Exec, IInv, Place, Returned, Quiet, Asleep

\* The context and the body of the request are the frames the process will read (execPayload).
LEMMA SendKeeps ==
  ASSUME IInv, SendHeader \/ SendBody, UNCHANGED <<package, php, header, request, pending, server>>
  PROVE  IInv'
<1>1. ASSUME NEW c \in Contexts, side = "header", sendControl(c), side' = "body", UNCHANGED <<toServer, job, rsp, result>>
      PROVE  IInv'
  <2>1. Quiet /\ result = "none"
    BY <1>1, Zenon DEF IInv, Place
  <2>2. c.is \notin {"pid", "stop"}
    BY Fields DEF Contexts
  <2>3. toWorker' = <<CtxFrame(c)>>
    BY <1>1, <2>1, <2>2, Queues, Zenon DEF Quiet, sendControl, CtxFrame
  <2>4. Contexts' = Contexts
    BY <1>1, Zenon DEF Contexts
  <2>5. AtBody'
    BY <1>1, <2>1, <2>3, <2>4, Zenon DEF AtBody, Quiet, Asleep, CtxFrame, Frame
  <2> QED
    BY <1>1, <2>1, <2>5 DEF IInv, Place, Returned
<1>2. ASSUME NEW b \in Bodies, side = "body", toWorker' = Append(toWorker, BodyFrame(b)), side' = "context",
             UNCHANGED <<toServer, job, rsp, result>>
      PROVE  IInv'
  <2>1. AtBody /\ result = "none"
    BY <1>2, Zenon DEF IInv, Place
  <2>2. Contexts' = Contexts /\ Bodies' = Bodies
    BY <1>2, Zenon DEF Contexts, Bodies
  <2>3. CASE \E c \in Contexts : toWorker = <<CtxFrame(c)>>
    <3>1. PICK c \in Contexts : toWorker = <<CtxFrame(c)>>
      BY <2>3, Zenon
    <3>2. toWorker' = <<CtxFrame(c), BodyFrame(b)>>
      BY <1>2, <3>1, Queues, Zenon
    <3> QED
      BY <1>2, <2>1, <2>2, <3>2, ZenonT(60) DEF AtBody, Unread, Asleep, CtxFrame, BodyFrame, Frame, IInv, Place, Returned
  <2>4. CASE toWorker = <<>> /\ header \in Contexts
    <3>1. toWorker' = <<BodyFrame(b)>>
      BY <1>2, <2>4, Queues, Zenon
    <3> QED
      BY <1>2, <2>1, <2>2, <2>4, <3>1, Zenon DEF AtBody, Unread, Asleep, BodyFrame, Frame, IInv, Place, Returned
  <2> QED
    BY <2>1, <2>3, <2>4, Zenon DEF AtBody
<1> QED
  BY <1>1, <1>2, BreaksKeeps, ZenonT(60) DEF SendHeader, SendBody, Contexts, Bodies, BodyFrame

\* An answer is read frame by frame; an error ends it at once (execPayload).
LEMMA ReceiveContextKeeps ==
  ASSUME IInv, ReceiveContext, UNCHANGED <<package, php, header, request, pending, server>>
  PROVE  IInv'
<1> DEFINE f == Head(toServer)
<1>1. result = "none" /\ Handled
  BY Zenon DEF ReceiveContext, IInv, Place, Unread
<1>2. /\ rsp' = [rsp EXCEPT !.ctx = f.data] /\ toServer' = Tail(toServer) /\ toServer # <<>>
      /\ toWorker' = toWorker /\ job' = job
  BY Zenon DEF ReceiveContext
<1>3. rsp'.ctx = f.data /\ rsp' = [ctx |-> rsp'.ctx, body |-> rsp'.body]
  BY <1>2, Zenon DEF IInv
<1>4. Answers' = Answers
  BY <1>2, Zenon DEF Answers
<1>5. ASSUME NEW a \in Answers, f = CtxFrame(a[1])
      PROVE  side' = "answer" /\ result' = "none" /\ rsp'.ctx = a[1]
  <2>1. f.flags = {"control", "raw"} /\ f.data = a[1]
    BY <1>5, Fields DEF CtxFrame
  <2> QED
    BY <1>1, <1>3, <2>1, Zenon DEF ReceiveContext
<1>6. CASE php = "respond" /\ Own /\ \E a \in Answers : toServer = <<CtxFrame(a[1])>> /\ pending = a[2]
  <2>1. PICK a \in Answers : toServer = <<CtxFrame(a[1])>> /\ pending = a[2]
    BY <1>6, Zenon
  <2>2. f = CtxFrame(a[1]) /\ toServer' = <<>>
    BY <1>2, <2>1, Queues, Zenon
  <2>3. <<a[1], a[2]>> \in Answers
    BY DEF Answers
  <2>4. AtAnswer'
    BY <1>1, <1>2, <1>4, <1>5, <1>6, <2>1, <2>2, <2>3 DEF AtAnswer, Handled, Own, Bodies
  <2> QED
    BY <1>3, <1>5, <2>2, <2>4, Zenon DEF IInv, Place, Returned
<1>7. CASE Asleep /\ \E a \in Answers : toServer = <<CtxFrame(a[1]), BodyFrame(a[2])>>
  <2>1. PICK a \in Answers : toServer = <<CtxFrame(a[1]), BodyFrame(a[2])>>
    BY <1>7, Zenon
  <2>2. f = CtxFrame(a[1]) /\ toServer' = <<BodyFrame(a[2])>>
    BY <1>2, <2>1, Queues, Zenon
  <2>3. <<a[1], a[2]>> \in Answers /\ a[2] \in {Data("reply", job), Null}
    BY DEF Answers
  <2>4. AtAnswer'
    BY <1>1, <1>2, <1>4, <1>5, <1>7, <2>2, <2>3 DEF AtAnswer, Handled, Asleep, BodyFrame
  <2> QED
    BY <1>3, <1>5, <2>2, <2>4, Zenon DEF IInv, Place, Returned
<1>8. CASE Asleep /\ toServer = <<ErrorFrame>>
  <2>1. f = ErrorFrame /\ toServer' = <<>>
    BY <1>2, <1>8, Queues, Zenon
  <2>2. f.flags = {"control", "raw", "error"} /\ f.data = Data("error", job)
    BY <2>1, Fields DEF ErrorFrame
  <2>3. side' = "idle" /\ result' = "jobError"
    BY <2>2, Zenon DEF ReceiveContext
  <2> QED
    BY <1>1, <1>2, <1>3, <1>8, <2>1, <2>2, <2>3, ZenonT(60) DEF IInv, Place, Returned, Quiet, Asleep, Handled
<1>9. CASE php = "exit" /\ \E a \in Answers : toServer = <<CtxFrame(a[1])>>
  <2>1. PICK a \in Answers : toServer = <<CtxFrame(a[1])>>
    BY <1>9, Zenon
  <2>2. f = CtxFrame(a[1]) /\ toServer' = <<>>
    BY <1>2, <2>1, Queues, Zenon
  <2>3. AtAnswer'
    BY <1>1, <1>2, <1>9, <2>2, Zenon DEF AtAnswer, Handled
  <2> QED
    BY <1>3, <1>5, <2>2, <2>3, Zenon DEF IInv, Place, Returned
<1> QED
  BY <1>1, <1>2, <1>6, <1>7, <1>8, <1>9 DEF Handled

\* The second frame completes the answer; one without a body may be the request to stop (execPayload).
LEMMA ReceiveBodyKeeps ==
  ASSUME IInv, ReceiveBody, UNCHANGED <<package, php, header, request, pending, server>>
  PROVE  IInv'
<1>1. toServer # <<>> /\ side' = "idle" /\ toServer' = Tail(toServer) /\ toWorker' = toWorker /\ job' = job
  BY Zenon DEF ReceiveBody
<1>2. AtAnswer
  BY Zenon DEF ReceiveBody, IInv, Place
<1>3. PICK b \in {Data("reply", job), Null} : Asleep /\ toServer = <<BodyFrame(b)>> /\ <<rsp.ctx, b>> \in Answers
  BY <1>1, <1>2, Zenon DEF AtAnswer
<1>4. Head(toServer).data = b /\ toServer' = <<>>
  BY <1>1, <1>3, Queues, Fields DEF BodyFrame
<1>5. rsp' = [ctx |-> rsp.ctx, body |-> b]
  BY <1>4, Zenon DEF ReceiveBody, IInv
<1>6. result' = IF b = Null /\ rsp.ctx.is = "stopRequest" THEN "stop" ELSE "answer"
  BY <1>5 DEF ReceiveBody, IsStop
<1>7. Returned'
  <2>1. CASE rsp.ctx \in {Data("head", job), Null}
    <3>1. rsp.ctx.is # "stopRequest"
      BY <2>1, Fields
    <3> QED
      BY <1>1, <1>5, <1>6, <2>1, <3>1 DEF Returned
  <2>2. CASE rsp.ctx = Data("stopRequest", job) /\ b = Null
    <3>1. rsp.ctx.is = "stopRequest"
      BY <2>2, Fields
    <3> QED
      BY <1>1, <1>5, <1>6, <2>2, <3>1, Zenon DEF Returned
  <2> QED
    BY <1>3, <2>1, <2>2, Zenon DEF Answers
<1> QED
  BY <1>1, <1>2, <1>3, <1>4, <1>5, <1>7 DEF IInv, Place, Quiet, Asleep, AtAnswer

\* The stop command is all a living process can still read (Stop).
LEMMA StopKeeps ==
  ASSUME IInv, Stop, UNCHANGED <<package, php, header, request, pending, server>>
  PROVE  IInv'
<1>1. Asleep /\ (php = "accept" => toWorker = <<>>)
  BY Zenon DEF IInv, Place, Stop, Quiet, Asleep
<1>2. toWorker = <<>> => toWorker' = <<StopFrame>>
  BY Queues, Fields DEF Stop, sendControl, StopFrame
<1> QED
  BY <1>1, <1>2, Zenon DEF Stop, IInv, Place, Returned, Asleep, StopFrame

----------------------------------------------------------------------------------
(* The process *)

\* A frame that is read is the next the process expects: a command, the context or the body of the current job
\* (receive, handleControl, acceptRequest).
LEMMA ReceiveKeeps ==
  ASSUME IInv, receive
  PROVE  IInv'
<1>1. /\ php = "accept" /\ toWorker # <<>> /\ toWorker' = Tail(toWorker) /\ UNCHANGED <<pending, goVars>>
      /\ "control" \in Head(toWorker).flags => handleControl(Head(toWorker))
      /\ "control" \notin Head(toWorker).flags => acceptRequest(Head(toWorker).data)
  BY Zenon DEF receive
<1>2. Contexts' = Contexts /\ Bodies' = Bodies /\ Returned' /\ (rsp = [ctx |-> rsp.ctx, body |-> rsp.body])'
  BY <1>1, Zenon DEF goVars, Contexts, Bodies, Returned, IInv
<1>3. ASSUME NEW c \in Contexts, Head(toWorker) = CtxFrame(c)
      PROVE  header' = c /\ toServer' = toServer /\ php' = php
  <2>1. c.is \notin {"pid", "stop"}
    BY Fields DEF Contexts
  <2> QED
    BY <1>1, <1>3, <2>1, Fields DEF CtxFrame, handleControl
<1>4. CASE side = "pid" /\ AtPid
  <2>1. Head(toWorker) = PidFrame /\ toWorker' = <<>> /\ toServer = <<>>
    BY <1>1, <1>4, Queues, Zenon DEF AtPid
  <2>2. toServer' = <<PidFrame>> /\ php' = php
    BY <1>1, <2>1, Queues, Fields DEF handleControl, PidFrame
  <2> QED
    BY <1>1, <1>2, <1>4, <2>1, <2>2, Zenon DEF IInv, Place, AtPid, Asleep, goVars, PidFrame
<1>5. CASE side = "body" /\ AtBody
  <2>1. PICK c \in Contexts : toWorker = <<CtxFrame(c)>>
    BY <1>1, <1>5, Zenon DEF AtBody
  <2>2. Head(toWorker) = CtxFrame(c) /\ toWorker' = <<>>
    BY <1>1, <2>1, Queues, Zenon
  <2> QED
    BY <1>1, <1>2, <1>3, <1>5, <2>2, Zenon DEF IInv, Place, AtBody, Asleep, goVars
<1>6. CASE side = "context" /\ Unread
  <2>1. PICK b \in Bodies : \/ \E c \in Contexts : toWorker = <<CtxFrame(c), BodyFrame(b)>>
                            \/ toWorker = <<BodyFrame(b)>> /\ header \in Contexts
    BY <1>6, Zenon DEF Unread
  <2>2. CASE \E c \in Contexts : toWorker = <<CtxFrame(c), BodyFrame(b)>>
    <3>1. PICK c \in Contexts : toWorker = <<CtxFrame(c), BodyFrame(b)>>
      BY <2>2, Zenon
    <3>2. Head(toWorker) = CtxFrame(c) /\ toWorker' = <<BodyFrame(b)>>
      BY <1>1, <3>1, Queues, Zenon
    <3>3. Unread'
      BY <1>1, <1>2, <1>3, <1>6, <3>2, ZenonT(60) DEF Unread, Asleep, BodyFrame
    <3> QED
      BY <1>1, <1>2, <1>6, <3>3, Zenon DEF IInv, Place, goVars
  <2>3. CASE toWorker = <<BodyFrame(b)>> /\ header \in Contexts
    <3>1. Head(toWorker) = BodyFrame(b) /\ toWorker' = <<>>
      BY <1>1, <2>3, Queues, Zenon
    <3>2. acceptRequest(b)
      BY <1>1, <3>1, Fields DEF BodyFrame
    <3>3. CASE header = Data("json", job)
      <4>1. request' = [ctx |-> header, body |-> b, server |-> {job}] /\ php' \in {"handle", "exit"}
        BY <3>2, <3>3, Fields DEF acceptRequest, acceptable, configureServer, wrapUploads
      <4>2. Own'
        BY <1>1, <1>2, <3>3, <4>1, Zenon DEF Own, goVars
      <4>3. Handled'
        BY <1>6, <3>1, <3>2, <4>1, <4>2, ZenonT(60) DEF Handled, acceptRequest, Unread
      <4> QED
        BY <1>1, <1>2, <1>6, <4>3, ZenonT(60) DEF IInv, Place, goVars
    <3>4. CASE header # Data("json", job)
      <4>1. ~acceptable(header)
        BY <2>3, <3>4, Fields DEF Contexts, acceptable
      <4>2. Handled'
        BY <1>6, <3>1, <3>2, <4>1, Zenon DEF Handled, acceptRequest, Unread
      <4> QED
        BY <1>1, <1>2, <1>6, <4>2, Zenon DEF IInv, Place, goVars
    <3> QED
      BY <3>3, <3>4, Zenon
  <2> QED
    BY <2>1, <2>2, <2>3, Zenon
<1>7. CASE side = "stopping" /\ toWorker = <<StopFrame>>
  <2>1. Head(toWorker) = StopFrame
    BY <1>7, Queues, Zenon
  <2>2. php' = "exit"
    BY <1>1, <2>1, Fields DEF handleControl, StopFrame
  <2> QED
    BY <1>1, <1>2, <1>7, <2>2, Zenon DEF IInv, Place, Asleep, goVars
<1>8. \/ side = "pid" /\ AtPid
      \/ side = "body" /\ AtBody
      \/ side = "context" /\ Unread
      \/ side = "stopping" /\ toWorker = <<StopFrame>>
  <2>1. php = "accept" /\ toWorker # <<>> /\ Place
    BY <1>1, Zenon DEF IInv
  <2>2. ~Quiet /\ ~Handled /\ ~AtAnswer
    BY <2>1, Zenon DEF Quiet, Handled, AtAnswer
  <2> QED
    BY <2>1, <2>2, Zenon DEF Place
<1> QED
  BY <1>4, <1>5, <1>6, <1>7, <1>8, Zenon

\* The process answers only while Exec waits for the first frame of the answer.
LEMMA HandlingIsAwaited ==
  ASSUME IInv, php = "handle"
  PROVE  side = "context" /\ result = "none" /\ toWorker = <<>> /\ toServer = <<>> /\ Own
  BY Zenon DEF IInv, Place, Quiet, Asleep, AtPid, AtBody, Unread, Handled, AtAnswer

\* An answer goes out as two frames at once, or as one with the second to follow (send).
LEMMA SendAnswerKeeps ==
  ASSUME IInv, php = "handle", NEW a \in Answers, send(a[1], a[2]),
         UNCHANGED <<package, toWorker, header, request, server, goVars>>
  PROVE  IInv'
<1>1. side = "context" /\ result = "none" /\ toWorker = <<>> /\ toServer = <<>> /\ Own
  BY HandlingIsAwaited, Zenon
<1>2. Answers' = Answers /\ Own' /\ Returned' /\ (rsp = [ctx |-> rsp.ctx, body |-> rsp.body])'
  BY <1>1, Zenon DEF goVars, Answers, Own, Bodies, Returned, IInv
<1>3. CASE package
  <2>1. toServer' = <<CtxFrame(a[1]), BodyFrame(a[2])>> /\ php' = "accept"
    BY <1>1, <1>3, Queues, Zenon DEF send, CtxFrame, BodyFrame
  <2>2. Handled'
    BY <1>1, <1>2, <2>1 DEF Handled, Asleep, CtxFrame, BodyFrame
  <2> QED
    BY <1>1, <1>2, <2>2, Zenon DEF IInv, Place, goVars
<1>4. CASE ~package
  <2>1. toServer' = <<CtxFrame(a[1])>> /\ php' = "respond" /\ pending' = a[2]
    BY <1>1, <1>4, Queues, Zenon DEF send, CtxFrame
  <2>2. Handled'
    BY <1>1, <1>2, <2>1, Zenon DEF Handled, CtxFrame
  <2> QED
    BY <1>1, <1>2, <2>2, Zenon DEF IInv, Place, goVars
<1> QED
  BY <1>3, <1>4, Zenon

\* Every way to end a job sends one answer (respond, stop, error).
LEMMA AnswerKeeps ==
  ASSUME IInv, respond \/ stop \/ error
  PROVE  IInv'
<1>1. php = "handle"
  BY Zenon DEF respond, stop, error
<1>2. side = "context" /\ result = "none" /\ toWorker = <<>> /\ toServer = <<>> /\ request.ctx.job = job
  BY <1>1, HandlingIsAwaited, Fields DEF Own
<1>3. CASE respond
  <2>1. PICK h \in {Data("head", job), Null}, p \in {Data("reply", job), Null} : send(h, p)
    BY <1>2, <1>3, Zenon DEF respond
  <2>2. <<h, p>> \in Answers /\ <<h, p>>[1] = h /\ <<h, p>>[2] = p
    BY Zenon DEF Answers
  <2> QED
    BY <1>1, <1>3, <2>1, <2>2, SendAnswerKeeps, Zenon DEF respond
<1>4. CASE stop
  <2> DEFINE a == <<Data("stopRequest", job), Null>>
  <2>1. a \in Answers /\ a[1] = Data("stopRequest", job) /\ a[2] = Null
    BY Zenon DEF Answers
  <2> QED
    BY <1>1, <1>2, <1>4, <2>1, SendAnswerKeeps, Zenon DEF stop
<1>5. CASE error
  <2>1. toServer' = <<ErrorFrame>> /\ php' = "accept"
    BY <1>2, <1>5, Queues, Zenon DEF error, ErrorFrame
  <2>2. Handled'
    BY <1>2, <1>5, <2>1, Zenon DEF error, goVars, Handled, Asleep, ErrorFrame
  <2> QED
    BY <1>2, <1>5, <2>2, Zenon DEF error, goVars, IInv, Place, Returned
<1> QED
  BY <1>3, <1>4, <1>5, Zenon

\* The second frame of an answer follows the first, whether that has been read or not (send).
LEMMA SendPayloadKeeps ==
  ASSUME IInv, sendPayload
  PROVE  IInv'
<1>1. /\ php = "respond" /\ toServer' = Append(toServer, BodyFrame(pending)) /\ php' = "accept"
      /\ UNCHANGED <<toWorker, header, request, goVars>>
  BY Zenon DEF sendPayload, BodyFrame
<1>2. Answers' = Answers /\ Returned' /\ (rsp = [ctx |-> rsp.ctx, body |-> rsp.body])'
  BY <1>1, Zenon DEF goVars, Answers, Returned, IInv
<1>3. \/ side = "context" /\ Handled
      \/ side = "answer" /\ AtAnswer
  <2>1. php = "respond" /\ Place
    BY <1>1, Zenon DEF IInv
  <2>2. ~Asleep /\ ~Quiet /\ ~AtPid /\ ~AtBody /\ ~Unread
    BY <2>1, Zenon DEF Asleep, Quiet, AtPid, AtBody, Unread
  <2> QED
    BY <2>1, <2>2, Zenon DEF Place
<1>4. result = "none"
  BY <1>3, Zenon DEF IInv, Place
<1>5. CASE side = "context" /\ Handled
  <2>1. PICK a \in Answers : toServer = <<CtxFrame(a[1])>> /\ pending = a[2] /\ toWorker = <<>>
    BY <1>1, <1>5, Zenon DEF Handled, Asleep
  <2>2. toServer' = <<CtxFrame(a[1]), BodyFrame(a[2])>>
    BY <1>1, <2>1, Queues, Zenon
  <2>3. Handled'
    BY <1>1, <1>2, <2>1, <2>2, Zenon DEF Handled, Asleep, CtxFrame, BodyFrame
  <2> QED
    BY <1>1, <1>2, <1>4, <1>5, <2>3, Zenon DEF IInv, Place, goVars
<1>6. CASE side = "answer" /\ AtAnswer
  <2>1. toServer = <<>> /\ <<rsp.ctx, pending>> \in Answers /\ toWorker = <<>>
    BY <1>1, <1>6, Zenon DEF AtAnswer, Asleep
  <2>2. toServer' = <<BodyFrame(pending)>> /\ pending \in {Data("reply", job), Null}
    BY <1>1, <2>1, Queues, Zenon DEF Answers
  <2>3. AtAnswer'
    BY <1>1, <1>2, <2>1, <2>2, Zenon DEF AtAnswer, Asleep, BodyFrame, goVars
  <2> QED
    BY <1>1, <1>2, <1>4, <1>6, <2>3, Zenon DEF IInv, Place, goVars
<1> QED
  BY <1>3, <1>5, <1>6, Zenon

\* The process may die anywhere.
LEMMA DiesKeeps ==
  ASSUME IInv, Dies
  PROVE  IInv'
<1>1. php' = "exit" /\ UNCHANGED <<toWorker, toServer, header, request, pending, goVars>>
  BY Zenon DEF Dies
<1>2. Contexts' = Contexts /\ Bodies' = Bodies /\ Answers' = Answers /\ ErrorFrame' = ErrorFrame
  BY <1>1, Zenon DEF goVars, Contexts, Bodies, Answers, ErrorFrame
<1>3. /\ Returned' /\ (rsp = [ctx |-> rsp.ctx, body |-> rsp.body])' /\ Asleep'
      /\ Quiet => Quiet'
      /\ AtPid => AtPid'
      /\ AtBody => AtBody'
  BY <1>1, <1>2, Zenon DEF goVars, Returned, IInv, Quiet, Asleep, AtPid, AtBody, CtxFrame, PidFrame
<1>4. Unread => Unread'
  BY <1>1, <1>2, Zenon DEF goVars, Unread, Asleep, CtxFrame, BodyFrame
<1>5. Handled => Handled'
  BY <1>1, <1>2, Zenon DEF goVars, Handled, Asleep, CtxFrame, BodyFrame
<1>6. AtAnswer => AtAnswer'
  BY <1>1, <1>2, Zenon DEF goVars, AtAnswer, Asleep, BodyFrame
<1> QED
  BY <1>1, <1>3, <1>4, <1>5, <1>6, Zenon DEF IInv, Place, goVars

----------------------------------------------------------------------------------
(* The theorem *)

\* The invariant holds at first and is kept by every step.
LEMMA Inductive == Spec => []IInv
<1>1. Init => IInv
  BY Zenon DEF Init, IInv, Place, Returned, Quiet, Asleep
<1>2. ASSUME IInv, [Next]_framesVars
      PROVE  IInv'
  <2>1. CASE WorkerStep
    BY <1>2, <2>1, FetchPIDKeeps, ExecKeeps, SendKeeps, ReceiveContextKeeps, ReceiveBodyKeeps, BreaksKeeps, StopKeeps
       DEF WorkerStep, execPayload, ReceiveFails
  <2>2. CASE ProcessStep
    BY <1>2, <2>2, ReceiveKeeps, AnswerKeeps, SendPayloadKeeps, DiesKeeps, SMTT(30) DEF ProcessStep
  <2>3. CASE UNCHANGED framesVars
    BY <1>2, <2>3 DEF framesVars, IInv, Place, Returned, Quiet, Asleep, AtPid, AtBody, Unread, Handled, AtAnswer, Own,
       Contexts, Bodies, Answers, CtxFrame, BodyFrame, PidFrame, StopFrame, ErrorFrame
  <2> QED
    BY <1>2, <2>1, <2>2, <2>3, Zenon DEF Next
<1> QED
  BY <1>1, <1>2, PTL DEF Spec

\* However many jobs a worker is given, each is handled with its own request and answered for itself, and between two
\* jobs nothing is left on the relay (execPayload, Worker.php, PSR7Client.php).
THEOREM JobsAreIsolated == Spec => []JobIsolated
<1>1. ASSUME IInv
      PROVE  JobIsolated
  <2>1. php \in {"handle", "respond"} => Own
    BY <1>1, Zenon DEF IInv, Place, Quiet, Asleep, AtPid, AtBody, Unread, Handled, AtAnswer
  <2>2. Own => request.ctx.job = job /\ Of(request.body, {"body"}) /\ request.server = {job}
    BY Fields DEF Own, Bodies, Of
  <2>3. result = "answer" => Of(rsp.ctx, {"head"}) /\ Of(rsp.body, {"reply"})
    BY <1>1, Fields DEF IInv, Returned, Of
  <2>4. side = "idle" => toWorker = <<>> /\ toServer = <<>>
    BY <1>1, Zenon DEF IInv, Place, Quiet
  <2> QED
    BY <1>1, <2>1, <2>2, <2>3, <2>4 DEF IInv, Returned, JobIsolated
<1> QED
  BY <1>1, Inductive, PTL

----------------------------------------------------------------------------------
(* Types *)

Kinds == {"pid", "stop", "null", "json", "text", "body", "head", "reply", "error", "stopRequest"}

\* A context that PHP accepts is that of a job.
DataType == {d \in [is : Kinds, job : 0..MaxFrames] : d.is = "json" => d.job \in Job}
FrameType == [flags : SUBSET {"control", "raw", "error", "none"}, data : DataType]

\* What is on the relay and what the two sides keep, with its type.
Typed ==
  /\ package \in BOOLEAN /\ toWorker \in Seq(FrameType) /\ toServer \in Seq(FrameType)
  /\ side \in {"hello", "pid", "idle", "header", "body", "context", "answer", "errored", "stopping"}
  /\ job \in 0..MaxFrames /\ (side \in {"header", "body", "context", "answer"} => job \in Job)
  /\ rsp \in [ctx : DataType, body : DataType]
  /\ result \in {"none", "answer", "stop", "jobError", "fatal"}
  /\ php \in {"accept", "handle", "respond", "exit"}
  /\ header \in DataType /\ pending \in DataType
  /\ request \in [ctx : DataType, body : DataType, server : SUBSET Job] /\ server \subseteq Job

\* What may be sent for a job.
LEMMA Sendable ==
  ASSUME MaxFrames \in Nat
  PROVE  /\ Null \in DataType
         /\ \A k \in Kinds \ {"json"}, j \in 0..MaxFrames : Data(k, j) \in DataType
         /\ \A j \in Job : Data("json", j) \in DataType
         /\ \A flags \in SUBSET {"control", "raw", "error", "none"}, d \in DataType : Frame(flags, d) \in FrameType
<1>1. \A k \in Kinds \ {"json"}, j \in 0..MaxFrames : Data(k, j) \in DataType
  BY Zenon DEF DataType, Data
<1>2. 0 \in 0..MaxFrames /\ "null" \in Kinds \ {"json"}
  BY DEF Kinds
<1>3. \A j \in Job : Data("json", j) \in DataType
  BY DEF DataType, Data, Job, Kinds
<1>4. \A flags \in SUBSET {"control", "raw", "error", "none"}, d \in DataType : Frame(flags, d) \in FrameType
  BY Zenon DEF FrameType, Frame
<1> QED
  BY <1>1, <1>2, <1>3, <1>4 DEF Null

\* What is read from a relay.
LEMMA Readable ==
  ASSUME NEW q \in Seq(FrameType), q # <<>>
  PROVE  Tail(q) \in Seq(FrameType) /\ Head(q) \in FrameType /\ Head(q).data \in DataType
<1>1. Tail(q) \in Seq(FrameType) /\ Head(q) \in FrameType
  OBVIOUS
<1> QED
  BY <1>1, Zenon DEF FrameType

\* fetchPID, Exec and Stop keep the types.
LEMMA WorkerTyped ==
  ASSUME MaxFrames \in Nat, Typed, WorkerStep
  PROVE  Typed'
<1> USE DEF Typed
<1>0. UNCHANGED <<package, php, header, request, pending, server>> /\ 0 \in 0..MaxFrames
  BY DEF WorkerStep
<1>1. ASSUME NEW res \in {"none", "fatal"}, Breaks(res)
      PROVE  Typed'
  BY <1>0, <1>1, Zenon DEF Breaks
<1>2. CASE fetchPID
  <2>1. CASE side = "hello" /\ sendControl(Data("pid", 0)) /\ side' = "pid" /\ UNCHANGED <<toServer, job, rsp, result>>
    <3>1. Frame({"control"}, Data("pid", 0)) \in FrameType
      BY <1>0, Sendable, Zenon DEF Kinds
    <3>2. toWorker' = Append(toWorker, Frame({"control"}, Data("pid", 0)))
      BY <2>1, Zenon DEF sendControl, Data
    <3>3. toWorker' \in Seq(FrameType)
      BY <3>1, <3>2
    <3> QED
      BY <1>0, <2>1, <3>3, Zenon
  <2>2. CASE side = "pid" /\ toServer # <<>> /\ side' \in {"idle", "errored"} /\ toServer' = Tail(toServer)
             /\ UNCHANGED <<toWorker, job, rsp, result>>
    <3>1. toServer' \in Seq(FrameType)
      BY <2>2, Readable, Zenon
    <3> QED
      BY <1>0, <2>2, <3>1, Zenon
  <2> QED
    BY <1>1, <1>2, <2>1, <2>2, Zenon DEF fetchPID
<1>3. CASE Exec
  <2>1. job' \in Job /\ job' \in 0..MaxFrames
    BY <1>3 DEF Exec, Job
  <2>2. rsp' \in [ctx : DataType, body : DataType]
    BY <1>3, Sendable, Zenon DEF Exec
  <2> QED
    BY <1>0, <1>3, <2>1, <2>2, Zenon DEF Exec
<1>4. CASE SendHeader
  <2>1. CASE Breaks("fatal")
    BY <1>1, <2>1, Zenon
  <2>2. CASE ~Breaks("fatal")
    <3>1. PICK c \in {Data("json", job), Data("text", job), Null} : sendControl(c)
      BY <1>4, <2>2, Zenon DEF SendHeader
    <3>2. side = "header" /\ side' = "body" /\ UNCHANGED <<toServer, job, rsp, result>>
      BY <1>4, <2>2, Zenon DEF SendHeader
    <3>3. c \in DataType
      BY <3>2, Sendable DEF Kinds
    <3>4. \E f \in FrameType : toWorker' = Append(toWorker, f)
      BY <3>1, <3>3, Sendable, Zenon DEF sendControl
    <3>5. toWorker' \in Seq(FrameType)
      BY <3>4
    <3> QED
      BY <1>0, <3>2, <3>5, Zenon
  <2> QED
    BY <2>1, <2>2, Zenon
<1>5. CASE SendBody
  <2>1. CASE Breaks("fatal")
    BY <1>1, <2>1, Zenon
  <2>2. CASE ~Breaks("fatal")
    <3>1. PICK b \in {Data("body", job), Null} : toWorker' = Append(toWorker, Frame({}, b))
      BY <1>5, <2>2, Zenon DEF SendBody
    <3>2. side = "body" /\ side' = "context" /\ UNCHANGED <<toServer, job, rsp, result>>
      BY <1>5, <2>2, Zenon DEF SendBody
    <3>3. b \in DataType
      BY Sendable DEF Kinds
    <3>4. Frame({}, b) \in FrameType
      BY <3>3, Sendable, Zenon
    <3>5. toWorker' \in Seq(FrameType)
      BY <3>1, <3>4
    <3> QED
      BY <1>0, <3>2, <3>5, Zenon
  <2> QED
    BY <2>1, <2>2, Zenon
<1>6. CASE ReceiveContext
  <2>1. Tail(toServer) \in Seq(FrameType) /\ Head(toServer).data \in DataType
    BY <1>6, Readable, Zenon DEF ReceiveContext
  <2>2. /\ side = "context" /\ side' \in {"errored", "idle", "answer"} /\ result' \in {"fatal", "jobError", result}
        /\ toServer' = Tail(toServer) /\ UNCHANGED <<toWorker, job>> /\ rsp' = [rsp EXCEPT !.ctx = Head(toServer).data]
    BY <1>6, Zenon DEF ReceiveContext
  <2>3. rsp' \in [ctx : DataType, body : DataType]
    BY <2>1, <2>2, Zenon
  <2> QED
    BY <1>0, <2>1, <2>2, <2>3, Zenon
<1>7. CASE ReceiveBody
  <2>1. Tail(toServer) \in Seq(FrameType) /\ Head(toServer).data \in DataType
    BY <1>7, Readable, Zenon DEF ReceiveBody
  <2>2. /\ side' = "idle" /\ result' \in {"stop", "answer"} /\ toServer' = Tail(toServer) /\ UNCHANGED <<toWorker, job>>
        /\ rsp' = [rsp EXCEPT !.body = Head(toServer).data]
    BY <1>7, Zenon DEF ReceiveBody
  <2>3. rsp' \in [ctx : DataType, body : DataType]
    BY <2>1, <2>2, Zenon
  <2> QED
    BY <1>0, <2>1, <2>2, <2>3, Zenon
<1>8. CASE Stop
  <2>1. Frame({"control"}, Data("stop", 0)) \in FrameType
    BY <1>0, Sendable, Zenon DEF Kinds
  <2>2. toWorker' = Append(toWorker, Frame({"control"}, Data("stop", 0)))
    BY <1>8, Zenon DEF Stop, sendControl, Data
  <2>3. toWorker' \in Seq(FrameType)
    BY <2>1, <2>2
  <2> QED
    BY <1>0, <1>8, <2>3 DEF Stop
<1> QED
  BY <1>1, <1>2, <1>3, <1>4, <1>5, <1>6, <1>7, <1>8 DEF WorkerStep, execPayload, ReceiveFails

\* The process keeps the types: it answers with the number of the job it handles.
LEMMA ProcessTyped ==
  ASSUME MaxFrames \in Nat, Typed, ProcessStep
  PROVE  Typed'
<1> USE DEF Typed, goVars
<1>0. 0 \in 0..MaxFrames /\ request.ctx.job \in 0..MaxFrames
  BY DEF DataType
<1>1. ASSUME NEW h \in DataType, NEW p \in DataType, send(h, p),
             UNCHANGED <<package, toWorker, header, request, server, goVars>>
      PROVE  Typed'
  <2>1. Frame({"control", "raw"}, h) \in FrameType /\ Frame({}, p) \in FrameType
    BY Sendable, Zenon
  <2>2. \/ toServer' = toServer \o <<Frame({"control", "raw"}, h), Frame({}, p)>>
        \/ toServer' = Append(toServer, Frame({"control", "raw"}, h))
    BY <1>1, Zenon DEF send
  <2>3. /\ toServer \o <<Frame({"control", "raw"}, h), Frame({}, p)>> \in Seq(FrameType)
        /\ Append(toServer, Frame({"control", "raw"}, h)) \in Seq(FrameType)
    <3>1. <<Frame({"control", "raw"}, h), Frame({}, p)>> \in Seq(FrameType)
      BY <2>1
    <3>2. toServer \in Seq(FrameType)
      BY Zenon
    <3> QED
      BY <2>1, <3>1, <3>2
  <2>4. toServer' \in Seq(FrameType)
    BY <2>2, <2>3, Zenon
  <2> QED
    BY <1>1, <2>4, Zenon DEF send
<1>2. CASE receive
  <2>1. Tail(toWorker) \in Seq(FrameType) /\ Head(toWorker).data \in DataType
    BY <1>2, Readable, Zenon DEF receive
  <2>2. toWorker' = Tail(toWorker) /\ UNCHANGED <<package, pending, side, job, rsp, result>>
    BY <1>2, Zenon DEF receive
  <2>3. CASE acceptRequest(Head(toWorker).data)
    <3>1. header' = Null /\ toServer' = toServer /\ Null \in DataType
      BY <2>3, Sendable, Zenon DEF acceptRequest
    <3>2. CASE acceptable(header)
      <4>1. header.job \in Job
        BY <3>2, Zenon DEF acceptable, DataType
      <4>2. /\ server' = {header.job} /\ php' \in {"handle", "exit"}
            /\ request' = [ctx |-> header, body |-> Head(toWorker).data, server |-> {header.job}]
        BY <2>3, <3>2, Zenon DEF acceptRequest, configureServer, wrapUploads
      <4> QED
        BY <2>1, <2>2, <3>1, <4>1, <4>2, Zenon
    <3>3. CASE ~acceptable(header)
      BY <2>1, <2>2, <2>3, <3>1, <3>3, Zenon DEF acceptRequest
    <3> QED
      BY <3>2, <3>3, Zenon
  <2>4. CASE handleControl(Head(toWorker))
    <3>1. Frame({"control"}, Data("pid", 0)) \in FrameType /\ Null \in DataType
      BY <1>0, Sendable, Zenon DEF Kinds
    <3>2. toServer' = toServer \/ toServer' = Append(toServer, Frame({"control"}, Data("pid", 0)))
      BY <2>4, Zenon DEF handleControl
    <3>3. toServer' \in Seq(FrameType)
      <4>1. toServer \in Seq(FrameType)
        BY Zenon
      <4>2. Append(toServer, Frame({"control"}, Data("pid", 0))) \in Seq(FrameType)
        BY <3>1, <4>1
      <4> QED
        BY <3>2, <4>1, <4>2, Zenon
    <3>4. header' \in DataType
      BY <2>1, <2>4, <3>1, Zenon DEF handleControl
    <3> QED
      BY <2>1, <2>2, <2>4, <3>3, <3>4 DEF handleControl
  <2> QED
    BY <1>2, <2>3, <2>4, Zenon DEF receive
<1>3. CASE sendPayload
  <2>1. Frame({}, pending) \in FrameType /\ Null \in DataType
    BY Sendable, Zenon
  <2>2. toServer' \in Seq(FrameType)
    BY <1>3, <2>1 DEF sendPayload
  <2> QED
    BY <1>3, <2>1, <2>2, Zenon DEF sendPayload
<1>4. CASE respond
  <2>1. {Data("head", request.ctx.job), Null} \subseteq DataType /\ {Data("reply", request.ctx.job), Null} \subseteq DataType
    BY <1>0, Sendable DEF Kinds
  <2> QED
    BY <1>1, <1>4, <2>1, Zenon DEF respond
<1>5. CASE error
  <2>1. Frame({"control", "raw", "error"}, Data("error", request.ctx.job)) \in FrameType
    BY <1>0, Sendable, Zenon DEF Kinds
  <2>2. toServer' \in Seq(FrameType)
    BY <1>5, <2>1 DEF error
  <2> QED
    BY <1>5, <2>2, Zenon DEF error
<1>6. CASE stop
  <2>1. Data("stopRequest", request.ctx.job) \in DataType /\ Null \in DataType
    BY <1>0, Sendable, Zenon DEF Kinds
  <2> QED
    BY <1>1, <1>6, <2>1, Zenon DEF stop
<1>7. CASE Dies
  BY <1>7, Zenon DEF Dies
<1> QED
  BY <1>2, <1>3, <1>4, <1>5, <1>6, <1>7 DEF ProcessStep

\* The types hold at first, are kept by every step, and are those TypeOK asks for.
LEMMA InitTyped == ASSUME MaxFrames \in Nat, Init PROVE Typed
<1>1. 0 \in 0..MaxFrames /\ Null \in DataType
  BY Sendable
<1> QED
  BY <1>1 DEF Init, Typed

\* The inductive invariant contains the types of Frames.
LEMMA TypedIsTypeOK == Typed => TypeOK
<1> SUFFICES ASSUME Typed PROVE TypeOK
  BY Zenon
<1>1. \A q \in {toWorker, toServer} : \A i \in DOMAIN q :
        q[i].flags \subseteq {"control", "raw", "error", "none"} /\ q[i].data.job \in 0..MaxFrames
  <2>1. \A q \in {toWorker, toServer} : \A i \in DOMAIN q : q[i] \in FrameType
    BY DEF Typed
  <2> QED
    BY <2>1, Zenon DEF FrameType, DataType
<1> QED
  BY <1>1, Zenon DEF Typed, TypeOK

\* Every variable of the conversation keeps its type: in particular a frame and $_SERVER only name jobs that there are
\* (worker.go, Worker.php, PSR7Client.php).
THEOREM FramesTypes == ASSUME MaxFrames \in Nat PROVE Spec => []TypeOK
<1>1. Init => Typed
  BY InitTyped, Zenon
<1>2. Typed /\ [Next]_framesVars => Typed'
  <2> SUFFICES ASSUME Typed, [Next]_framesVars PROVE Typed'
    BY Zenon
  <2>1. CASE UNCHANGED framesVars
    BY <2>1, Zenon DEF framesVars, Typed
  <2> QED
    BY <2>1, WorkerTyped, ProcessTyped, Zenon DEF Next
<1> QED
  BY <1>1, <1>2, TypedIsTypeOK, PTL DEF Spec

----------------------------------------------------------------------------------
(* SpawnWorker and the accept loop *)

\* A connection the accept loop works on comes from a worker of the socket, and the pid it delivers has been sent by the
\* process itself.
Connection ==
  /\ loop.at \in {"accept", "ended"} => loop.pid = Stranger
  /\ loop.at = "fetch" => loop.pid \in Socketed
  /\ loop.at = "offer" /\ loop.pid # Stranger => loop.pid \in introduced

\* A process is there only after Start and until it is reaped; a call that has returned without a worker has waited for
\* that.
Reaped ==
  \A w \in Spawning!Worker :
    /\ spawn[w] = "idle" => proc[w] = "none" /\ ~waitDone[w]
    /\ waitDone[w] => proc[w] \notin Spawning!Running
    /\ spawn[w] \in {"error", "nil"} => waitDone[w]

\* RelaysAccounted, but a connection whose pid is not known yet accounts for nothing.
Delivered ==
  \A w \in relays : \/ w \in Socketed /\ spawn[w] \in {"find", "failing", "error"}
                    \/ w = Stranger
                    \/ loop.at = "offer" /\ w = loop.pid

\* The calls of SpawnWorker and the accept loop.
Spawned == Spawning!TypeOK /\ Connection /\ Reaped /\ Delivered /\ Spawning!WorkerIntroduced

\* Before the first call.
LEMMA InitSpawned == Spawning!Init => Spawned
BY SpawnAssumption DEF Spawning!Init, Spawned, Spawning!TypeOK, Connection, Reaped, Delivered,
                       Spawning!WorkerIntroduced,
   Spawning!Accepting, Spawning!Running, Spawning!Returned

\* The process, and the goroutine that waits for it.
LEMMA ProcessSpawned ==
  ASSUME Spawned, NEW w \in Spawning!Worker,
         Spawning!Connect(w) \/ Spawning!Exit(w) \/ Spawning!Reap(w) \/ Spawning!Kill(w)
  PROVE  Spawned'
<1> USE DEF Spawned, Spawning!TypeOK, Spawning!Running
<1>1. UNCHANGED <<spawn, relays, loop, introduced, fetchErr, listening>>
  BY Zenon DEF Spawning!Connect, Spawning!Exit, Spawning!Reap, Spawning!Kill, Spawning!workerVars,
               Spawning!factoryVars
<1>2. Connection' /\ Delivered' /\ Spawning!WorkerIntroduced'
  BY <1>1, Zenon DEF Connection, Delivered, Spawning!WorkerIntroduced
<1>3. Reaped'
  BY <1>1 DEF Reaped, Spawning!Connect, Spawning!Exit, Spawning!Reap, Spawning!Kill, Spawning!workerVars
<1>4. Spawning!TypeOK'
  <2>1. CASE Spawning!Connect(w)
    BY <1>1, <2>1 DEF Spawning!Connect, Spawning!workerVars
  <2>2. CASE Spawning!Exit(w)
    BY <1>1, <2>2, Zenon DEF Spawning!Exit, Spawning!factoryVars
  <2>3. CASE Spawning!Reap(w)
    BY <1>1, <2>3, Zenon DEF Spawning!Reap, Spawning!factoryVars
  <2>4. CASE Spawning!Kill(w)
    BY <1>1, <2>4, ZenonT(60) DEF Spawning!Kill, Spawning!factoryVars
  <2> QED
    BY <2>1, <2>2, <2>3, <2>4, Zenon
<1> QED
  BY <1>2, <1>3, <1>4, Zenon

\* The call of SpawnWorker.
LEMMA CallSpawned ==
  ASSUME Spawned, NEW w \in Spawning!Worker, Spawning!SpawnWorker(w)
  PROVE  Spawned'
<1> USE SpawnAssumption DEF Spawned, Spawning!TypeOK
<1>1. CASE Spawning!Start(w)
  <2>1. UNCHANGED <<fetchErr, killer, relays, backlog, loop, listening, introduced>> /\ spawn[w] = "idle"
    BY <1>1, Zenon DEF Spawning!Start, Spawning!factoryVars
  <2>2. \/ /\ spawn' = [spawn EXCEPT ![w] = "started"] /\ proc' = [proc EXCEPT ![w] = "boot"]
           /\ waitDone' = waitDone
        \/ /\ spawn' = [spawn EXCEPT ![w] = "error"] /\ waitDone' = [waitDone EXCEPT ![w] = TRUE]
           /\ proc' = proc
    BY <1>1, Zenon DEF Spawning!Start
  <2>3. Spawning!TypeOK'
    <3>1. rl' \in [Spawning!Worker -> {"none", "open", "closed"}]
      BY <1>1, Zenon DEF Spawning!Start
    <3>2. /\ spawn' \in [Spawning!Worker -> {"idle", "started", "find", "bind", "failing"} \cup Spawning!Returned]
          /\ proc' \in [Spawning!Worker -> {"none", "exited"} \cup Spawning!Running]
      BY <2>2 DEF Spawning!Returned, Spawning!Running
    <3>3. waitDone' = waitDone \/ waitDone' = [waitDone EXCEPT ![w] = TRUE]
      BY <2>2, Zenon
    <3>4. waitDone' \in [Spawning!Worker -> BOOLEAN]
      BY <3>3, Zenon
    <3> QED
      BY <2>1, <3>1, <3>2, <3>4, Zenon
  <2>4. Connection' /\ Spawning!WorkerIntroduced'
    BY <2>1, <2>2 DEF Connection, Spawning!WorkerIntroduced
  <2>5. Reaped'
    BY <2>1, <2>2 DEF Reaped, Spawning!Running
  <2>6. Delivered'
    BY <2>1, <2>2 DEF Delivered
  <2> QED
    BY <2>3, <2>4, <2>5, <2>6
<1>2. CASE Spawning!FetchPID(w)
  <2>1. /\ UNCHANGED <<waitDone, rl, relays, backlog, loop, listening>> /\ spawn[w] = "started" /\ w \in Piped
        /\ \A v \in Spawning!Worker : v # w => spawn'[v] = spawn[v] /\ proc'[v] = proc[v]
    BY <1>2 DEF Spawning!FetchPID, Spawning!factoryVars, Spawning!Fails, Spawning!Answers
  <2>2. \/ spawn'[w] = "worker" /\ introduced' = introduced \cup {w} /\ proc[w] = "connected" /\ proc'[w] = "answered"
        \/ spawn'[w] = "failing" /\ introduced \subseteq introduced' /\ proc[w] = "connected" /\ proc'[w] = "answered"
        \/ spawn'[w] = "failing" /\ introduced' = introduced /\ proc'[w] = proc[w]
    BY <1>2 DEF Spawning!FetchPID, Spawning!Fails, Spawning!Answers, Spawning!Matches
  <2>3. Spawning!TypeOK'
    <3>1. /\ spawn' \in [Spawning!Worker -> {"idle", "started", "find", "bind", "failing"} \cup Spawning!Returned]
          /\ proc' \in [Spawning!Worker -> {"none", "exited"} \cup Spawning!Running]
          /\ killer' \in [Spawning!Worker -> {"none", "test"}]
      BY <1>2 DEF Spawning!FetchPID, Spawning!Fails, Spawning!Answers, Spawning!Returned, Spawning!Running
    <3>2. \E err \in BOOLEAN : fetchErr' = [fetchErr EXCEPT ![w] = err]
      BY <1>2, Zenon DEF Spawning!FetchPID
    <3>3. fetchErr' \in [Spawning!Worker -> BOOLEAN]
      BY <3>2, Zenon
    <3>4. introduced' \subseteq Spawning!Worker
      BY <1>2 DEF Spawning!FetchPID, Spawning!Answers
    <3> QED
      BY <2>1, <3>1, <3>3, <3>4, Zenon
  <2>4. Connection' /\ Spawning!WorkerIntroduced'
    BY <2>1, <2>2, ZenonT(60) DEF Connection, Spawning!WorkerIntroduced
  <2>5. Reaped'
    BY <2>1, <2>2 DEF Reaped, Spawning!Running
  <2>6. Delivered'
    BY <2>1, Zenon DEF Delivered, Spawning!Worker
  <2> QED
    BY <2>3, <2>4, <2>5, <2>6, Zenon
<1>3. CASE Spawning!FindRelay(w)
  <2>1. /\ UNCHANGED <<proc, waitDone, rl, fetchErr, killer, backlog, loop, listening, introduced>>
        /\ spawn[w] = "started" /\ w \in Socketed /\ relays' = relays \cup {w}
        /\ spawn' = [spawn EXCEPT ![w] = "find"]
    BY <1>3, Zenon DEF Spawning!FindRelay, Spawning!relayChan, Spawning!workerVars
  <2>2. Spawning!TypeOK'
    BY <2>1, Zenon
  <2>3. Connection' /\ Spawning!WorkerIntroduced'
    BY <2>1, Zenon DEF Connection, Spawning!WorkerIntroduced
  <2>4. Reaped'
    BY <2>1, Zenon DEF Reaped
  <2>5. Delivered'
    BY <2>1 DEF Delivered, Spawning!Worker
  <2> QED
    BY <2>2, <2>3, <2>4, <2>5, Zenon
<1>4. CASE Spawning!FindReceive(w)
  <2>1. /\ UNCHANGED <<proc, waitDone, rl, fetchErr, killer, backlog, listening, introduced>>
        /\ spawn[w] = "find" /\ relays' = relays \ {w} /\ loop = [at |-> "offer", pid |-> w]
        /\ loop' = [at |-> "accept", pid |-> Stranger] /\ spawn' = [spawn EXCEPT ![w] = "bind"]
    BY <1>4, Zenon DEF Spawning!FindReceive, Spawning!cleanChan, Spawning!workerVars, Spawning!Accepting
  <2>2. w \in introduced
    BY <2>1, Zenon DEF Connection, Spawning!Worker
  <2>3. Spawning!TypeOK'
    BY <2>1, Zenon
  <2>4. Connection' /\ Spawning!WorkerIntroduced' /\ Reaped'
    BY <2>1, <2>2 DEF Connection, Spawning!WorkerIntroduced, Reaped
  <2>5. Delivered'
    BY <2>1, Zenon DEF Delivered, Spawning!Worker
  <2> QED
    BY <2>3, <2>4, <2>5, Zenon
<1>5. CASE Spawning!FindTimeout(w) \/ Spawning!FindGone(w)
  <2>1. /\ UNCHANGED <<proc, waitDone, rl, fetchErr, backlog, loop, listening, introduced>>
        /\ spawn[w] = "find" /\ relays' \subseteq relays
        /\ spawn' = [spawn EXCEPT ![w] = "failing"] /\ killer' = [killer EXCEPT ![w] = "test"]
    BY <1>5, Zenon DEF Spawning!FindTimeout, Spawning!FindGone, Spawning!Fails, Spawning!cleanChan,
                       Spawning!factoryVars
  <2> QED
    BY <2>1, Zenon DEF Connection, Reaped, Delivered, Spawning!WorkerIntroduced, Spawning!Worker
<1>6. CASE Spawning!Bind(w)
  <2>1. /\ UNCHANGED <<proc, waitDone, fetchErr, killer, relays, backlog, loop, listening, introduced>>
        /\ spawn[w] = "bind" /\ spawn' = [spawn EXCEPT ![w] = "worker"] /\ rl' = [rl EXCEPT ![w] = "open"]
    BY <1>6, ZenonT(60) DEF Spawning!Bind, Spawning!factoryVars
  <2> QED
    BY <2>1, Zenon DEF Connection, Reaped, Delivered, Spawning!WorkerIntroduced, Spawning!Worker, Spawning!Returned
<1>7. CASE Spawning!WaitReturn(w)
  <2>1. /\ UNCHANGED <<proc, waitDone, rl, fetchErr, killer, relays, backlog, loop, listening, introduced>>
        /\ spawn[w] = "failing" /\ waitDone[w]
        /\ \E to \in {"error", "nil"} : spawn' = [spawn EXCEPT ![w] = to] /\ (w \in Socketed => to = "error")
    BY <1>7, Zenon DEF Spawning!WaitReturn, Spawning!WaitOver, Spawning!workerVars, Spawning!factoryVars
  <2> QED
    BY <2>1 DEF Connection, Reaped, Delivered, Spawning!WorkerIntroduced, Spawning!Worker, Spawning!Returned
<1> QED
  BY <1>1, <1>2, <1>3, <1>4, <1>5, <1>6, <1>7 DEF Spawning!SpawnWorker

\* The accept loop.
LEMMA ListenSpawned ==
  ASSUME Spawned, Spawning!Accept \/ Spawning!ListenFetch \/ Spawning!Close
  PROVE  Spawned'
<1> USE SpawnAssumption DEF Spawned, Spawning!TypeOK
<1>1. CASE Spawning!Accept
  <2>1. /\ UNCHANGED <<spawn, proc, waitDone, rl, fetchErr, killer, relays, listening, introduced>> /\ loop.at = "accept"
        /\ \/ /\ backlog # <<>> /\ loop' = [at |-> "fetch", pid |-> Head(backlog)] /\ backlog' = Tail(backlog)
           \/ loop' = [loop EXCEPT !.at = "ended"] /\ backlog' = backlog
    BY <1>1, Zenon DEF Spawning!Accept, Spawning!workerVars
  <2>2. backlog' \in Seq(Socketed) /\ loop'.at \in {"fetch", "ended"}
        /\ loop' \in [at : {"accept", "fetch", "offer", "ended"}, pid : Spawning!Worker \cup {Stranger}]
    BY <2>1 DEF Spawning!Worker
  <2>3. Connection'
    BY <2>1 DEF Connection
  <2>4. Delivered'
    BY <2>1, <2>2, Zenon DEF Delivered
  <2> QED
    BY <2>1, <2>2, <2>3, <2>4 DEF Reaped, Spawning!WorkerIntroduced
<1>2. CASE Spawning!ListenFetch
  <2>1. UNCHANGED <<spawn, waitDone, rl, fetchErr, killer, backlog, listening>> /\ loop.pid \in Socketed /\ loop.at = "fetch"
    BY <1>2, Zenon DEF Spawning!ListenFetch, Spawning!workerVars, Connection
  <2> DEFINE w == loop.pid
  <2>2. \/ /\ proc[w] = "connected" /\ proc' = [proc EXCEPT ![w] = "answered"]
           /\ \/ introduced' = introduced \cup {w} /\ loop' = [at |-> "offer", pid |-> w] /\ relays' = relays \cup {w}
              \/ introduced' = introduced /\ loop' = [at |-> "offer", pid |-> Stranger] /\ relays' = relays \cup {Stranger}
              \/ introduced' = introduced /\ loop' = [at |-> "accept", pid |-> Stranger] /\ relays' = relays
        \/ /\ loop' = [at |-> "accept", pid |-> Stranger] /\ UNCHANGED <<proc, introduced, relays>>
    BY <1>2, <2>1, Zenon DEF Spawning!ListenFetch, Spawning!Answers, Spawning!relayChan, Spawning!Accepting,
                             Spawning!Worker
  <2>3. w \in Spawning!Worker
    BY <2>1, Zenon DEF Spawning!Worker
  <2>4. Spawning!TypeOK'
    BY <2>1, <2>2, <2>3 DEF Spawning!Running
  <2>5. Connection'
    BY <2>1, <2>2 DEF Connection
  <2>6. Reaped'
    BY <2>1, <2>2, <2>3 DEF Reaped, Spawning!Running
  <2>7. Delivered'
    BY <2>1, <2>2 DEF Delivered
  <2>8. Spawning!WorkerIntroduced'
    BY <2>1, <2>2, Zenon DEF Spawning!WorkerIntroduced
  <2> QED
    BY <2>4, <2>5, <2>6, <2>7, <2>8
<1>3. CASE Spawning!Close
  <2>1. UNCHANGED <<spawn, proc, waitDone, rl, fetchErr, killer, relays, backlog, loop, introduced>> /\ listening' = FALSE
    BY <1>3, Zenon DEF Spawning!Close, Spawning!workerVars
  <2> QED
    BY <2>1, Zenon DEF Connection, Reaped, Delivered, Spawning!WorkerIntroduced
<1> QED
  BY <1>1, <1>2, <1>3, Zenon

\* Every step keeps Spawned.
LEMMA NextSpawned == Spawned /\ [MCNext]_mcVars => Spawned'
<1> SUFFICES ASSUME Spawned, [MCNext]_mcVars PROVE Spawned'
  BY Zenon
<1>1. CASE Spawning!Next
  BY <1>1, ProcessSpawned, CallSpawned, ListenSpawned, Zenon DEF Spawning!Next
<1>2. CASE UNCHANGED spawnVars
  BY <1>2, Zenon DEF spawnVars, Spawned, Spawning!TypeOK, Connection, Reaped, Delivered, Spawning!WorkerIntroduced
<1>3. Spawning!Next \/ UNCHANGED spawnVars
  BY Zenon DEF MCNext, SpawnNext, BufferNext, LimitNext, FramesNext, mcVars
<1> QED
  BY <1>1, <1>2, <1>3, Zenon

\* SpawnWorker of both factories, for any number of workers and calls: it returns a worker only if the process has sent
\* its own pid, it leaves no process when it returns without a worker, and the relays of a SocketFactory are those of
\* calls that wait or have failed, of the pid the accept loop is delivering, and of a stranger (pipe_factory.go,
\* socket_factory.go).
THEOREM SpawnsAreSound == MCSpec => []SpawnOutcome
<1>1. MCInit => Spawned
  BY InitSpawned, Zenon DEF MCInit
<1>2. Spawned => SpawnOutcome
  <2> SUFFICES ASSUME Spawned PROVE Spawning!FailureLeavesNone /\ Spawning!RelaysAccounted
    BY Zenon DEF SpawnOutcome, Spawning!SpawnOutcome, Spawned
  <2>1. Spawning!FailureLeavesNone
    BY Zenon DEF Spawned, Reaped, Spawning!FailureLeavesNone
  <2>2. Spawning!RelaysAccounted
    BY Zenon DEF Spawned, Delivered, Spawning!RelaysAccounted
  <2> QED
    BY <2>1, <2>2, Zenon
<1> QED
  BY <1>1, <1>2, NextSpawned, PTL DEF MCSpec

----------------------------------------------------------------------------------
(* The error buffer *)

\* The buffer holds the last writes, and the listener has been given none that the loop has not seen.
Consecutive ==
  /\ \A i \in 1..Len(buf) : buf[i] = (copied - Len(buf)) + i
  /\ \A k \in 1..Len(heard) : heard[k] <= (copied - Len(buf)) + last

\* What the next flush drops without giving it to the listener was written before there was one.
Dropped == running /\ lsn => \A i \in 1..last : buf[i] <= lsnAt

\* The error output on its way from Write to the listener and to Wait.
Kept == Buffer!TypeOK /\ Consecutive /\ Dropped /\ (~lsn => lsnAt = 0) /\ Buffer!OutputKept

\* What heard is after an append.
LEMMA Appended ==
  ASSUME NEW S, NEW s \in Seq(S), NEW t \in Seq(S)
  PROVE  /\ s \o t \in Seq(S) /\ Len(s \o t) = Len(s) + Len(t)
         /\ \A k \in 1..(Len(s) + Len(t)) : (s \o t)[k] = IF k <= Len(s) THEN s[k] ELSE t[k - Len(s)]
OBVIOUS

\* The numbers of a sequence are those at its indices.
LEMMA RangeIs == ASSUME NEW S, NEW s \in Seq(S), NEW x PROVE x \in Buffer!Range(s) <=> \E i \in 1..Len(s) : s[i] = x
BY DEF Buffer!Range

\* Writes are numbers.
LEMMA NumbersIn == ASSUME NEW s \in Seq(Buffer!Writes) PROVE \A k \in 1..Len(s) : s[k] \in Nat
<1>1. \A k \in 1..Len(s) : s[k] \in Buffer!Writes
  OBVIOUS
<1> QED
  BY <1>1, BoundsAssumption DEF Buffer!Writes

\* What a flush takes from the buffer.
LEMMA UnreadIs ==
  ASSUME Buffer!TypeOK, Consecutive
  PROVE  /\ Buffer!Unread \in Seq(Buffer!Writes) /\ Len(Buffer!Unread) = Len(buf) - last
         /\ \A i \in 1..Len(buf) - last : Buffer!Unread[i] = (copied - Len(buf)) + last + i
<1>1. last \in 0..Len(buf) /\ buf \in Seq(Buffer!Writes) /\ Len(buf) \in Nat
  BY DEF Buffer!TypeOK
<1>2. Buffer!Unread = [i \in 1..Len(buf) - last |-> buf[last + i]]
  BY <1>1 DEF Buffer!Unread
<1> QED
  BY <1>1, <1>2 DEF Consecutive, Buffer!TypeOK

\* A flush: the listener is given what is new, in order.
LEMMA FlushKeeps ==
  ASSUME Kept, heard' = heard \o Buffer!Unread
  PROVE  /\ heard' \in Seq(Buffer!Writes) /\ Buffer!HeardInOrder'
         /\ \A k \in 1..Len(heard') : heard'[k] <= copied
         /\ \A x : x \in Buffer!Range(heard) => x \in Buffer!Range(heard')
         /\ \A i \in last + 1..Len(buf) : buf[i] \in Buffer!Range(heard')
<1> DEFINE u == Buffer!Unread
           d == Len(buf) - last
<1>0. /\ heard \in Seq(Buffer!Writes) /\ Len(heard) \in Nat /\ copied \in Nat /\ Len(buf) \in Nat
      /\ last \in 0..Len(buf) /\ d \in Nat /\ u \in Seq(Buffer!Writes) /\ Len(u) = d
      /\ \A k \in 1..Len(heard) : heard[k] \in Nat /\ heard[k] <= (copied - Len(buf)) + last
      /\ \A i \in 1..d : u[i] = (copied - Len(buf)) + last + i
  <2>1. /\ heard \in Seq(Buffer!Writes) /\ copied \in Nat /\ buf \in Seq(Buffer!Writes) /\ last \in 0..Len(buf)
    BY BoundsAssumption DEF Kept, Buffer!TypeOK
  <2>2. Len(heard) \in Nat /\ Len(buf) \in Nat /\ \A k \in 1..Len(heard) : heard[k] \in Buffer!Writes
    BY <2>1
  <2>3. \A k \in 1..Len(heard) : heard[k] \in Nat
    BY <2>1, NumbersIn, Zenon
  <2>4. /\ u \in Seq(Buffer!Writes) /\ Len(u) = d
        /\ \A i \in 1..d : u[i] = (copied - Len(buf)) + last + i
    BY UnreadIs, Zenon DEF Kept
  <2>5. \A k \in 1..Len(heard) : heard[k] <= (copied - Len(buf)) + last
    BY Zenon DEF Kept, Consecutive
  <2>6. d \in Nat
    BY <2>1, <2>2
  <2> HIDE DEF u, d
  <2> QED
    BY <2>1, <2>2, <2>3, <2>4, <2>5, <2>6
<1>1. /\ heard' \in Seq(Buffer!Writes) /\ Len(heard') = Len(heard) + d
      /\ \A k \in 1..Len(heard') : heard'[k] = IF k <= Len(heard) THEN heard[k] ELSE u[k - Len(heard)]
  <2> HIDE DEF u, d
  <2>1. heard' = heard \o u
    BY Zenon DEF u
  <2>2. /\ heard \o u \in Seq(Buffer!Writes) /\ Len(heard \o u) = Len(heard) + Len(u)
        /\ \A k \in 1..Len(heard) + Len(u) : (heard \o u)[k] = IF k <= Len(heard) THEN heard[k] ELSE u[k - Len(heard)]
    BY <1>0, Appended, Zenon
  <2> QED
    BY <1>0, <2>1, <2>2, Zenon
<1> HIDE DEF u
<1>8. /\ Len(heard) \in Nat /\ copied \in Nat /\ Len(buf) \in Nat /\ last \in 0..Len(buf)
      /\ \A k \in 1..Len(heard) : heard[k] \in Nat /\ heard[k] <= (copied - Len(buf)) + last
  BY <1>0, Zenon
<1>2. \A k \in 1..Len(heard') : k > Len(heard) => heard'[k] = ((copied - Len(buf)) + last + k) - Len(heard)
  BY <1>0, <1>1
<1>3. \A i, j \in 1..Len(heard') : i < j => heard'[i] < heard'[j]
  <2>1. \A i, j \in 1..Len(heard) : i < j => heard[i] < heard[j]
    BY <1>0 DEF Kept, Buffer!OutputKept, Buffer!HeardInOrder
  <2> TAKE i, j \in 1..Len(heard')
  <2>2. CASE j <= Len(heard)
    BY <1>8, <1>1, <2>1, <2>2
  <2>3. CASE i <= Len(heard) /\ j > Len(heard)
    <3>1. heard'[i] = heard[i] /\ heard'[j] = ((copied - Len(buf)) + last + j) - Len(heard)
      BY <1>8, <1>1, <1>2, <2>3
    <3> QED
      BY <1>8, <2>3, <3>1
  <2>4. CASE i > Len(heard) /\ j > Len(heard)
    BY <1>8, <1>2, <2>4
  <2> QED
    BY <1>8, <2>2, <2>3, <2>4
<1>4. Buffer!HeardInOrder'
  BY <1>1, <1>3 DEF Buffer!HeardInOrder
<1>5. \A k \in 1..Len(heard') : heard'[k] <= copied
  <2> TAKE k \in 1..Len(heard')
  <2>1. CASE k <= Len(heard)
    BY <1>8, <1>1, <2>1
  <2>2. CASE k > Len(heard)
    BY <1>8, <1>0, <1>1, <1>2, <2>2
  <2> QED
    BY <1>8, <2>1, <2>2
<1>6. ASSUME NEW x, x \in Buffer!Range(heard) PROVE x \in Buffer!Range(heard')
  <2>1. PICK i \in 1..Len(heard) : heard[i] = x
    BY <1>0, <1>6, RangeIs, Zenon
  <2>2. i \in 1..Len(heard') /\ heard'[i] = x
    BY <1>0, <1>1, <2>1
  <2> QED
    BY <1>1, <2>2, RangeIs, Zenon
<1>7. ASSUME NEW i \in last + 1..Len(buf) PROVE buf[i] \in Buffer!Range(heard')
  <2>1. (Len(heard) + i) - last \in 1..Len(heard') /\ (Len(heard) + i) - last > Len(heard)
    BY <1>0, <1>1
  <2>2. heard'[(Len(heard) + i) - last] = (copied - Len(buf)) + i
    BY <1>8, <1>2, <2>1, SMTT(30)
  <2>3. buf[i] = (copied - Len(buf)) + i
    BY <1>0 DEF Kept, Consecutive
  <2> QED
    BY <1>1, <2>1, <2>2, <2>3, RangeIs, ZenonT(60)
<1> QED
  BY <1>1, <1>4, <1>5, <1>6, <1>7

\* The steps that leave the buffer and what the listener was given alone.
LEMMA OtherKept ==
  ASSUME Kept, UNCHANGED <<copied, buf, last, lsn, lsnAt, heard, running>>, Buffer!TypeOK',
         wait' \in {"exit", "empty"} => \A n \in 1..waitAt' : n \in Buffer!Range(heard) \/ n <= lsnAt
  PROVE  Kept'
BY Zenon DEF Kept, Consecutive, Dropped, Buffer!OutputKept, Buffer!HeardInOrder, Buffer!LostOnlyUnheard,
   Buffer!SilentWaitWasHeard

\* Every step of the buffer and of its users keeps Kept.
LEMMA StepKept == ASSUME Kept, Buffer!Next PROVE Kept'
<1> USE DEF Buffer!userVars
<1>0. /\ copied \in Nat /\ sent \in Nat /\ Len(buf) \in Nat /\ last \in 0..Len(buf) /\ buf \in Seq(Buffer!Writes)
      /\ heard \in Seq(Buffer!Writes) /\ lsnAt \in 0..copied /\ waitAt \in 0..copied /\ copied <= sent /\ sent <= MaxWrites
      /\ MaxWrites \in Nat
  BY BoundsAssumption DEF Kept, Buffer!TypeOK
<1>1. CASE Buffer!Emit \/ Buffer!Exit \/ Buffer!Update \/ Buffer!TimerFires \/ Buffer!Reap \/ Buffer!Close
  <2>1. UNCHANGED <<copied, buf, last, lsn, lsnAt, heard, running, wait, waitAt>>
    BY <1>1, Zenon DEF Buffer!Emit, Buffer!Exit, Buffer!Update, Buffer!TimerFires, Buffer!Reap, Buffer!Close
  <2>2. Buffer!TypeOK'
    <3>1. /\ sent' \in 0..MaxWrites /\ copied' \in 0..sent' /\ writer' \in {"read", "update"}
          /\ process' \in {"started", "exited", "reaped"}
      BY <1>0, <1>1, <2>1 DEF Kept, Buffer!TypeOK, Buffer!Emit, Buffer!Exit, Buffer!Update, Buffer!TimerFires,
         Buffer!Reap, Buffer!Close
    <3>2. armed' \in BOOLEAN /\ tick' \in BOOLEAN /\ closed' \in BOOLEAN
      BY <1>1, Zenon DEF Kept, Buffer!TypeOK, Buffer!Emit, Buffer!Exit, Buffer!Update, Buffer!TimerFires, Buffer!Reap,
         Buffer!Close
    <3> QED
      BY <2>1, <3>1, <3>2 DEF Kept, Buffer!TypeOK
  <2> QED
    BY <2>1, <2>2, OtherKept, Zenon DEF Kept, Buffer!OutputKept, Buffer!SilentWaitWasHeard
<1>2. CASE Buffer!Write
  <2>1. /\ copied' = copied + 1 /\ buf' = Append(buf, copied + 1) /\ copied < sent
        /\ UNCHANGED <<sent, last, armed, tick, running, lsn, lsnAt, heard, closed, process, wait, waitAt>>
    BY <1>2, Zenon DEF Buffer!Write
  <2>2. copied + 1 \in Buffer!Writes
    BY <1>0, <2>1 DEF Buffer!Writes
  <2>3. /\ buf' \in Seq(Buffer!Writes) /\ Len(buf') = Len(buf) + 1
        /\ \A i \in 1..Len(buf) : buf'[i] = buf[i]
        /\ buf'[Len(buf) + 1] = copied + 1
    BY <1>0, <2>1, <2>2
  <2>4. Buffer!TypeOK'
    BY <1>0, <1>2, <2>1, <2>3 DEF Kept, Buffer!TypeOK, Buffer!Write
  <2>5. Consecutive'
    BY <1>0, <2>1, <2>3 DEF Kept, Consecutive
  <2>6. Dropped'
    BY <1>0, <2>1, <2>3 DEF Kept, Dropped
  <2>7. \A n \in 1..copied' : \/ n \in Buffer!Range(heard') \cup Buffer!Range(buf')
                              \/ lsn' /\ n <= lsnAt'
    <3> TAKE n \in 1..copied'
    <3>1. CASE n = copied + 1
      <4>1. Len(buf) + 1 \in 1..Len(buf') /\ buf'[Len(buf) + 1] = n
        BY <1>0, <2>3, <3>1
      <4> QED
        BY <2>3, <4>1, RangeIs, Zenon
    <3>2. CASE n \in 1..copied
      <4>1. CASE n \in Buffer!Range(buf)
        <5>1. PICK i \in 1..Len(buf) : buf[i] = n
          BY <1>0, <4>1, RangeIs, Zenon
        <5>2. i \in 1..Len(buf') /\ buf'[i] = n
          BY <1>0, <2>3, <5>1
        <5> QED
          BY <2>3, <5>2, RangeIs, Zenon
      <4>2. CASE n \notin Buffer!Range(buf)
        BY <2>1, <3>2, <4>2, Zenon DEF Kept, Buffer!OutputKept, Buffer!LostOnlyUnheard
      <4> QED
        BY <4>1, <4>2, Zenon
    <3> QED
      BY <1>0, <2>1, <3>1, <3>2
  <2>8. Buffer!OutputKept'
    BY <2>1, <2>7, Zenon DEF Kept, Buffer!OutputKept, Buffer!HeardInOrder, Buffer!LostOnlyUnheard,
                             Buffer!SilentWaitWasHeard
  <2> QED
    BY <2>1, <2>4, <2>5, <2>6, <2>8, Zenon DEF Kept
<1>3. CASE Buffer!Tick /\ lsn /\ Buffer!Unread # <<>>
  <2>1. /\ heard' = heard \o Buffer!Unread /\ buf' = <<>> /\ last' = 0 /\ tick' = FALSE /\ running
        /\ UNCHANGED <<sent, copied, writer, armed, running, lsn, lsnAt, closed, process, wait, waitAt>>
    BY <1>3, Zenon DEF Buffer!Tick, Buffer!LastAfter
  <2>2. /\ heard' \in Seq(Buffer!Writes) /\ Buffer!HeardInOrder'
        /\ \A k \in 1..Len(heard') : heard'[k] <= copied
        /\ \A x : x \in Buffer!Range(heard) => x \in Buffer!Range(heard')
        /\ \A i \in last + 1..Len(buf) : buf[i] \in Buffer!Range(heard')
    BY <2>1, FlushKeeps, Zenon
  <2>3. Buffer!TypeOK'
    <3>1. armed' \in BOOLEAN /\ tick' \in BOOLEAN /\ running' \in BOOLEAN
      BY <2>1, Zenon DEF Kept, Buffer!TypeOK
    <3>2. last' \in 0..Len(buf') /\ buf' \in Seq(Buffer!Writes) /\ heard' \in Seq(Buffer!Writes)
      BY <1>0, <2>1, <2>2
    <3> QED
      BY <2>1, <3>1, <3>2 DEF Kept, Buffer!TypeOK
  <2>4. Consecutive' /\ Dropped'
    BY <1>0, <2>1, <2>2 DEF Consecutive, Dropped
  <2>5. Buffer!LostOnlyUnheard'
    <3> SUFFICES ASSUME NEW n \in 1..copied PROVE n \in Buffer!Range(heard') \/ (lsn /\ n <= lsnAt)
      BY <2>1, Zenon DEF Buffer!LostOnlyUnheard
    <3>1. CASE n \in Buffer!Range(buf)
      <4>1. PICK i \in 1..Len(buf) : buf[i] = n
        BY <1>0, <3>1, RangeIs
      <4>2. CASE i <= last
        BY <1>0, <1>3, <2>1, <4>1, <4>2 DEF Kept, Dropped
      <4>3. CASE i > last
        BY <1>0, <2>2, <4>1, <4>3
      <4> QED
        BY <1>0, <4>2, <4>3
    <3>2. CASE n \notin Buffer!Range(buf)
      BY <2>2, <3>2, Zenon DEF Kept, Buffer!OutputKept, Buffer!LostOnlyUnheard
    <3> QED
      BY <3>1, <3>2, Zenon
  <2>6. Buffer!SilentWaitWasHeard'
    BY <2>1, <2>2, Zenon DEF Kept, Buffer!OutputKept, Buffer!SilentWaitWasHeard
  <2> QED
    BY <2>1, <2>2, <2>3, <2>4, <2>5, <2>6 DEF Kept, Buffer!OutputKept
<1>4. CASE Buffer!Tick /\ ~(lsn /\ Buffer!Unread # <<>>)
  <2>1. /\ last' = Len(buf) /\ tick' = FALSE
        /\ UNCHANGED <<sent, copied, writer, buf, armed, running, lsn, lsnAt, heard, closed, process, wait, waitAt>>
    BY <1>4, Zenon DEF Buffer!Tick, Buffer!LastAfter
  <2>2. Buffer!TypeOK'
    <3>1. armed' \in BOOLEAN /\ tick' \in BOOLEAN /\ running' \in BOOLEAN
      BY <2>1, Zenon DEF Kept, Buffer!TypeOK
    <3>2. last' \in 0..Len(buf') /\ buf' \in Seq(Buffer!Writes) /\ heard' \in Seq(Buffer!Writes)
      BY <1>0, <2>1
    <3> QED
      BY <2>1, <3>1, <3>2 DEF Kept, Buffer!TypeOK
  <2>3. Consecutive'
    <3>1. \A k \in 1..Len(heard) : heard[k] \in Nat
      BY <1>0, NumbersIn, Zenon
    <3> QED
      BY <1>0, <2>1, <3>1 DEF Kept, Consecutive
  <2>4. Dropped'
    <3>1. CASE ~lsn
      BY <2>1, <3>1, Zenon DEF Dropped
    <3>2. CASE Buffer!Unread = <<>>
      <4>1. Len(buf) = last
        BY <1>0, <3>2, UnreadIs DEF Kept
      <4> QED
        BY <2>1, <4>1, Zenon DEF Kept, Dropped
    <3> QED
      BY <1>4, <3>1, <3>2, Zenon
  <2>5. Buffer!OutputKept'
    BY <2>1, Zenon DEF Kept, Buffer!OutputKept, Buffer!HeardInOrder, Buffer!LostOnlyUnheard, Buffer!SilentWaitWasHeard
  <2> QED
    BY <2>1, <2>2, <2>3, <2>4, <2>5 DEF Kept
<1>5. CASE Buffer!StopLoop
  <2>1. /\ running' = FALSE /\ armed' = FALSE /\ last' = Len(buf)
        /\ UNCHANGED <<sent, copied, writer, buf, tick, lsn, lsnAt, closed, process, wait, waitAt>>
    BY <1>5, Zenon DEF Buffer!StopLoop
  <2>2. /\ heard' \in Seq(Buffer!Writes) /\ Buffer!HeardInOrder'
        /\ \A k \in 1..Len(heard') : heard'[k] <= copied
        /\ \A x : x \in Buffer!Range(heard) => x \in Buffer!Range(heard')
    <3>1. CASE lsn
      BY <1>5, <3>1, FlushKeeps, Zenon DEF Buffer!StopLoop
    <3>2. CASE ~lsn
      <4>1. heard' = heard
        BY <1>5, <3>2 DEF Buffer!StopLoop
      <4>2. \A k \in 1..Len(heard) : heard[k] \in Nat
        BY <1>0, NumbersIn, Zenon
      <4> QED
        BY <1>0, <4>1, <4>2 DEF Kept, Consecutive, Buffer!OutputKept, Buffer!HeardInOrder
    <3> QED
      BY <3>1, <3>2, Zenon
  <2>3. Buffer!TypeOK'
    <3>1. armed' \in BOOLEAN /\ tick' \in BOOLEAN /\ running' \in BOOLEAN
      BY <2>1, Zenon DEF Kept, Buffer!TypeOK
    <3>2. last' \in 0..Len(buf') /\ buf' \in Seq(Buffer!Writes) /\ heard' \in Seq(Buffer!Writes)
      BY <1>0, <2>1, <2>2
    <3> QED
      BY <2>1, <3>1, <3>2 DEF Kept, Buffer!TypeOK
  <2>4. Consecutive' /\ Dropped'
    <3>1. \A k \in 1..Len(heard') : heard'[k] \in Nat
      BY <2>2, NumbersIn, Zenon
    <3> QED
      BY <1>0, <2>1, <2>2, <3>1 DEF Kept, Consecutive, Dropped
  <2>5. Buffer!LostOnlyUnheard' /\ Buffer!SilentWaitWasHeard'
    BY <2>1, <2>2, Zenon DEF Kept, Buffer!OutputKept, Buffer!LostOnlyUnheard, Buffer!SilentWaitWasHeard
  <2> QED
    BY <2>1, <2>2, <2>3, <2>4, <2>5 DEF Kept, Buffer!OutputKept
<1>6. CASE Buffer!Listen
  <2>1. /\ ~lsn /\ lsn' = TRUE /\ lsnAt' = copied
        /\ UNCHANGED <<sent, copied, writer, buf, last, armed, tick, running, heard, closed, process, wait, waitAt>>
    BY <1>6, Zenon DEF Buffer!Listen
  <2>2. Buffer!TypeOK' /\ Consecutive'
    BY <1>0, <2>1 DEF Kept, Buffer!TypeOK, Consecutive
  <2>3. Dropped'
    BY <1>0, <2>1 DEF Kept, Dropped, Consecutive
  <2>4. Buffer!OutputKept'
    BY <1>0, <2>1 DEF Kept, Buffer!OutputKept, Buffer!HeardInOrder, Buffer!LostOnlyUnheard, Buffer!SilentWaitWasHeard
  <2> QED
    BY <2>1, <2>2, <2>3, <2>4 DEF Kept
<1>7. CASE Buffer!WaitLen \/ Buffer!WaitString
  <2>1. UNCHANGED <<sent, copied, writer, buf, last, armed, tick, running, lsn, lsnAt, heard, closed, process>>
    BY <1>7, ZenonT(60) DEF Buffer!WaitLen, Buffer!WaitString
  <2>2. Buffer!TypeOK'
    BY <1>0, <1>7, <2>1 DEF Kept, Buffer!TypeOK, Buffer!WaitLen, Buffer!WaitString
  <2>3. buf = <<>> => \A n \in 1..copied : n \in Buffer!Range(heard) \/ n <= lsnAt
    <3>1. buf = <<>> => \A n : n \notin Buffer!Range(buf)
      BY <1>0 DEF Buffer!Range
    <3> QED
      BY <3>1, Zenon DEF Kept, Buffer!OutputKept, Buffer!LostOnlyUnheard
  <2>4. CASE Buffer!WaitLen
    <3>1. waitAt' = copied /\ (wait' \in {"exit", "empty"} => buf = <<>>)
      BY <1>0, <2>4 DEF Buffer!WaitLen, Buffer!BufLen
    <3> QED
      BY <2>1, <2>2, <2>3, <3>1, OtherKept, Zenon
  <2>5. CASE Buffer!WaitString
    <3>1. waitAt' = waitAt /\ (wait' \in {"exit", "empty"} => buf = <<>>)
      BY <2>5, Zenon DEF Buffer!WaitString
    <3>2. wait' \in {"exit", "empty"} => \A n \in 1..waitAt' : n \in Buffer!Range(heard) \/ n <= lsnAt
      BY <1>0, <2>3, <3>1
    <3> QED
      BY <2>1, <2>2, <3>2, OtherKept
  <2> QED
    BY <1>7, <2>4, <2>5, Zenon
<1> QED
  BY <1>1, <1>2, <1>3, <1>4, <1>5, <1>6, <1>7 DEF Buffer!Next

\* Before the process has written anything.
LEMMA InitKept == Buffer!Init => Kept
<1> SUFFICES ASSUME Buffer!Init PROVE Kept
  BY Zenon
<1>1. /\ copied = 0 /\ sent = 0 /\ buf = <<>> /\ last = 0 /\ lsn = FALSE /\ lsnAt = 0 /\ heard = <<>> /\ wait = "none"
      /\ waitAt = 0 /\ 0 \in 0..MaxWrites
  BY BoundsAssumption DEF Buffer!Init
<1>2. Buffer!TypeOK
  <2>1. armed \in BOOLEAN /\ tick \in BOOLEAN /\ running \in BOOLEAN /\ lsn \in BOOLEAN /\ closed \in BOOLEAN
    BY Zenon DEF Buffer!Init
  <2> QED
    BY <1>1, <2>1 DEF Buffer!Init, Buffer!TypeOK
<1>3. Consecutive /\ Dropped
  BY <1>1 DEF Consecutive, Dropped
<1>4. Buffer!OutputKept
  BY <1>1 DEF Buffer!OutputKept, Buffer!HeardInOrder, Buffer!LostOnlyUnheard, Buffer!SilentWaitWasHeard
<1> QED
  BY <1>1, <1>2, <1>3, <1>4 DEF Kept

\* Every step keeps Kept.
LEMMA NextKept == Kept /\ [MCNext]_mcVars => Kept'
<1> SUFFICES ASSUME Kept, [MCNext]_mcVars PROVE Kept'
  BY Zenon
<1>1. CASE Buffer!Next
  BY <1>1, StepKept, ZenonT(60)
<1>2. CASE UNCHANGED bufferVars
  BY <1>2 DEF bufferVars, Kept, Consecutive, Dropped, Buffer!TypeOK, Buffer!OutputKept, Buffer!HeardInOrder,
     Buffer!LostOnlyUnheard, Buffer!SilentWaitWasHeard
<1>3. Buffer!Next \/ UNCHANGED bufferVars
  BY Zenon DEF MCNext, SpawnNext, BufferNext, LimitNext, FramesNext, mcVars
<1> QED
  BY <1>1, <1>2, <1>3, Zenon

\* The error output of a process, however much it writes: the listener is given it in order and once, nothing is lost
\* but what was written before Listen, and Wait leaves out only what the listener was given or was lost so
\* (error_buffer.go, Worker.Wait).
THEOREM OutputIsKept == MCSpec => []OutputKept
<1>1. MCInit => Kept
  BY InitKept, Zenon DEF MCInit
<1>2. Kept => OutputKept
  BY Zenon DEF Kept, OutputKept
<1> QED
  BY <1>1, <1>2, NextKept, PTL DEF MCSpec

----------------------------------------------------------------------------------
(* The controller and the relay *)

LimitP == INSTANCE LimitProofs WITH Worker <- Limited

\* The controller of MCWorkers is the one LimitProofs is about.
LEMMA LimitBehaves == MCSpec => LimitP!Spec
<1>1. Limits!Init => LimitP!Init
  BY ZenonT(60) DEF Limits!Init, LimitP!Init, Limits!Waiting, LimitP!Waiting, Limits!None, LimitP!None, Limits!NoRecord,
     LimitP!NoRecord
<1>2. Limits!Next => LimitP!Next
  BY ZenonT(60) DEF Limits!Next, Limits!Control, Limits!Tick, Limits!Push, Limits!Sync, Limits!ExecRemove,
     Limits!ExecKill, Limits!ExecDone, Limits!RoundDone, Limits!LoadSkip, Limits!LoadRemove, Limits!LoadState,
     Limits!ExecID, Limits!IdleRemove, Limits!Detach, Limits!Stop, Limits!Pass, Limits!Create, Limits!Begin,
     Limits!EndJob, Limits!RegisterExec, Limits!Die, Limits!KillRun, Limits!Older, Limits!Find, Limits!Synced,
     Limits!Remove, Limits!RemoveLoad, Limits!RemoveStore, Limits!Round, Limits!Expired, Limits!Assessed,
     Limits!SetState, Limits!NoRecord, Limits!Waiting, Limits!None, Limits!Active, Limits!poolVars, Limits!removeVars,
     Limits!filterVars, LimitP!Next, LimitP!Control, LimitP!Tick, LimitP!Push, LimitP!Sync, LimitP!ExecRemove,
     LimitP!ExecKill, LimitP!ExecDone, LimitP!RoundDone, LimitP!LoadSkip, LimitP!LoadRemove, LimitP!LoadState,
     LimitP!ExecID, LimitP!IdleRemove, LimitP!Detach, LimitP!Stop, LimitP!Pass, LimitP!Create, LimitP!Begin,
     LimitP!EndJob, LimitP!RegisterExec, LimitP!Die, LimitP!KillRun, LimitP!Older, LimitP!Find, LimitP!Synced,
     LimitP!Remove, LimitP!RemoveLoad, LimitP!RemoveStore, LimitP!Round, LimitP!Expired, LimitP!Assessed,
     LimitP!SetState, LimitP!NoRecord, LimitP!Waiting, LimitP!None, LimitP!Active, LimitP!poolVars, LimitP!removeVars,
     LimitP!filterVars
<1>3. [MCNext]_mcVars => [LimitP!Next]_LimitP!vars
  BY <1>2 DEF MCNext, SpawnNext, BufferNext, LimitNext, FramesNext, mcVars, limitVars, LimitP!vars
<1> QED
  BY <1>1, <1>3, PTL DEF MCSpec, MCInit, LimitP!Spec

\* The limits of Configs are below the age at which ages stay.
LEMMA LimitConfigured == LimitP!Configured
BY BoundsAssumption DEF LimitP!Configured, Configs

\* A worker picked by ExecTTL or IdleTTL had completed nothing for longer than that, over any number of rounds, workers
\* and jobs (push, sync, find).
THEOREM PicksAreQuiet == MCSpec => []PickedWasQuiet
<1>1. LimitP!Spec => []LimitP!PickedWasQuiet
  BY LimitConfigured, LimitP!PicksWereQuiet
<1>2. LimitP!PickedWasQuiet => PickedWasQuiet
  BY ZenonT(60) DEF LimitP!PickedWasQuiet, PickedWasQuiet, Limits!PickedWasQuiet
<1> QED
  BY <1>1, <1>2, LimitBehaves, PTL

\* A worker is reported at most once, and twice only when it dies between two steps of a Remove, however many limits it
\* exceeds (control, loadWorkers, Remove).
THEOREM ReportsAreSingle == MCSpec => []ReportedOnce
<1>1. LimitP!Spec => []LimitP!ReportedOnce
  BY LimitP!ReportsAreUnique
<1>2. LimitP!ReportedOnce => ReportedOnce
  BY Zenon DEF LimitP!ReportedOnce, ReportedOnce, Limits!ReportedOnce
<1> QED
  BY <1>1, <1>2, LimitBehaves, PTL

\* Every variable of the four parts keeps its type (the factories, error_buffer.go, the limit service, the relay).
THEOREM PartsAreTyped == MCSpec => []PartTypes
<1>1. MCSpec => []Spawning!TypeOK
  <2>1. MCInit => Spawned
    BY InitSpawned, Zenon DEF MCInit
  <2>2. Spawned => Spawning!TypeOK
    BY DEF Spawned
  <2> QED
    BY <2>1, <2>2, NextSpawned, PTL DEF MCSpec
<1>2. MCSpec => []Buffer!TypeOK
  <2>1. MCInit => Kept
    BY InitKept, Zenon DEF MCInit
  <2>2. Kept => Buffer!TypeOK
    BY DEF Kept
  <2> QED
    BY <2>1, <2>2, NextKept, PTL DEF MCSpec
<1>3. MCSpec => []Limits!TypeOK
  <2>1. LimitP!Spec => []LimitP!TypeOK
    BY LimitConfigured, LimitP!LimitTypes, SMTT(30)
  <2>2. LimitP!TypeOK => Limits!TypeOK
    BY ZenonT(60) DEF LimitP!TypeOK, Limits!TypeOK, LimitP!States, Limits!States, LimitP!Active, Limits!Active, LimitP!Ages,
       Limits!Ages, LimitP!Records, Limits!Records, LimitP!None, Limits!None
  <2> QED
    BY <2>1, <2>2, LimitBehaves, PTL
<1>4. MCSpec => []TypeOK
  <2>1. [MCNext]_mcVars => [Next]_framesVars
    BY Zenon DEF MCNext, SpawnNext, BufferNext, LimitNext, FramesNext, mcVars
  <2>2. MCSpec => Spec
    BY <2>1, PTL DEF MCSpec, MCInit, Spec
  <2>3. Spec => []TypeOK
    BY FramesTypes, BoundsAssumption
  <2> QED
    BY <2>2, <2>3, PTL
<1>5. TypeOK /\ Buffer!TypeOK /\ Limits!TypeOK /\ Spawning!TypeOK => PartTypes
  BY Zenon DEF PartTypes
<1> QED
  BY <1>1, <1>2, <1>3, <1>4, <1>5, PTL
==================================================================================
