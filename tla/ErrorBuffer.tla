------------------------------- MODULE ErrorBuffer -------------------------------
(* error_buffer.go and its users: the goroutine of os/exec that copies the standard error of the process
   (Write), createWorker (Listen), Worker.Wait (Len, String) and the reaper of worker.go (Close).  Writes
   of the process are numbered; a write is what one Write call appends. *)
EXTENDS Naturals, Sequences, Functions

CONSTANT MaxWrites  \* bound: writes of the process to its standard error

VARIABLES
  sent,      \* writes the process has made
  copied,    \* of these, what the copier has passed to Write
  writer,    \* the copier: reading, or blocked in "eb.update <- nil"
  buf,       \* eb.buf
  last,      \* eb.last
  armed,     \* eb.wait is running
  tick,      \* eb.wait.C holds a tick
  running,   \* the goroutine of newErrBuffer is running
  lsn,       \* eb.lsn is set
  lsnAt,     \* value of copied when it was set
  heard,     \* what the listener was given
  closed,    \* eb.stop is closed
  process,   \* the process: running, exited, reaped (waitDone is closed)
  wait,      \* Worker.Wait: not returned, past Len, or what it returned
  waitAt     \* value of copied when Wait called Len

vars == <<sent, copied, writer, buf, last, armed, tick, running, lsn, lsnAt, heard, closed, process, wait, waitAt>>
userVars == <<process, wait, waitAt>>

Writes == 1..MaxWrites

\* Every variable has its type.
TypeOK ==
  /\ sent \in 0..MaxWrites /\ copied \in 0..sent
  /\ writer \in {"read", "update"}
  /\ buf \in Seq(Writes) /\ last \in 0..Len(buf)
  /\ armed \in BOOLEAN /\ tick \in BOOLEAN /\ running \in BOOLEAN
  /\ lsn \in BOOLEAN /\ lsnAt \in 0..copied /\ heard \in Seq(Writes)
  /\ closed \in BOOLEAN
  /\ process \in {"started", "exited", "reaped"}
  /\ wait \in {"none", "len", "nil", "exit", "stderr", "empty"} /\ waitAt \in 0..copied

Init ==
  /\ sent = 0 /\ copied = 0 /\ writer = "read" /\ buf = <<>> /\ last = 0
  /\ armed = TRUE /\ tick = FALSE /\ running = TRUE
  /\ lsn = FALSE /\ lsnAt = 0 /\ heard = <<>> /\ closed = FALSE
  /\ process = "started" /\ wait = "none" /\ waitAt = 0

----------------------------------------------------------------------------------
(* The process and the copier *)

Emit ==
  /\ process = "started" /\ sent < MaxWrites
  /\ sent' = sent + 1
  /\ UNCHANGED <<copied, writer, buf, last, armed, tick, running, lsn, lsnAt, heard, closed, userVars>>

Exit ==
  /\ process = "started"
  /\ process' = "exited"
  /\ UNCHANGED <<sent, copied, writer, buf, last, armed, tick, running, lsn, lsnAt, heard, closed, wait, waitAt>>

\* Write appends under eb.mu and then sends on eb.update.
Write ==
  /\ writer = "read" /\ copied < sent
  /\ copied' = copied + 1 /\ buf' = Append(buf, copied + 1)
  /\ writer' = "update"
  /\ UNCHANGED <<sent, last, armed, tick, running, lsn, lsnAt, heard, closed, userVars>>

----------------------------------------------------------------------------------
(* The goroutine of newErrBuffer *)

\* Mutant: the timer is not started again.
UpdateNoReset ==
  /\ running /\ writer = "update"
  /\ writer' = "read"
  /\ UNCHANGED <<sent, copied, buf, last, armed, tick, running, lsn, lsnAt, heard, closed, userVars>>

\* Reset starts the timer again; a tick that is in the channel stays there.
Update ==
  /\ running /\ writer = "update"
  /\ writer' = "read" /\ armed' = TRUE
  /\ UNCHANGED <<sent, copied, buf, last, tick, running, lsn, lsnAt, heard, closed, userVars>>

TimerFires ==
  /\ armed
  /\ armed' = FALSE /\ tick' = TRUE
  /\ UNCHANGED <<sent, copied, writer, buf, last, running, lsn, lsnAt, heard, closed, userVars>>

Unread == SubSeq(buf, last + 1, Len(buf))

LastAfter(b) == Len(b)

\* The buffer is emptied only when a listener has been given what is new in it.
Tick ==
  LET flush == lsn /\ Unread # <<>>
      b == IF flush THEN <<>> ELSE buf IN
  /\ running /\ tick
  /\ tick' = FALSE
  /\ heard' = IF flush THEN heard \o Unread ELSE heard
  /\ buf' = b /\ last' = LastAfter(b)
  /\ UNCHANGED <<sent, copied, writer, armed, running, lsn, lsnAt, closed, userVars>>

StopLoop ==
  /\ running /\ closed
  /\ running' = FALSE /\ armed' = FALSE
  /\ heard' = IF lsn THEN heard \o Unread ELSE heard
  /\ last' = Len(buf)
  /\ UNCHANGED <<sent, copied, writer, buf, tick, lsn, lsnAt, closed, userVars>>

----------------------------------------------------------------------------------
(* The users *)

\* createWorker attaches the listener of the pool once SpawnWorker has returned.
Listen ==
  /\ ~lsn
  /\ lsn' = TRUE /\ lsnAt' = copied
  /\ UNCHANGED <<sent, copied, writer, buf, last, armed, tick, running, heard, closed, userVars>>

\* Process.Wait returns and waitDone is closed; the copier is not waited for.
Reap ==
  /\ process = "exited"
  /\ process' = "reaped"
  /\ UNCHANGED <<sent, copied, writer, buf, last, armed, tick, running, lsn, lsnAt, heard, closed, wait, waitAt>>

\* Under w.mu, which Wait holds from Len to String.
Close ==
  /\ process = "reaped" /\ ~closed /\ wait # "len"
  /\ closed' = TRUE
  /\ UNCHANGED <<sent, copied, writer, buf, last, armed, tick, running, lsn, lsnAt, heard, userVars>>

\* Mutant: only what no flush has seen.
BufLenUnread == Len(Unread)

BufLen == Len(buf)

\* Worker.Wait: nil on success, else w.err.Len() and then w.err.String(), each under eb.mu.
WaitLen ==
  /\ process = "reaped" /\ wait = "none"
  /\ waitAt' = copied
  /\ wait' \in {"nil", IF BufLen = 0 THEN "exit" ELSE "len"}
  /\ UNCHANGED <<sent, copied, writer, buf, last, armed, tick, running, lsn, lsnAt, heard, closed, process>>

WaitString ==
  /\ wait = "len"
  /\ wait' = IF buf = <<>> THEN "empty" ELSE "stderr"
  /\ UNCHANGED <<sent, copied, writer, buf, last, armed, tick, running, lsn, lsnAt, heard, closed, process, waitAt>>

Next ==
  \/ Emit \/ Exit \/ Write \/ Update \/ TimerFires \/ Tick \/ StopLoop
  \/ Listen \/ Reap \/ Close \/ WaitLen \/ WaitString

\* The copier and the goroutines run, the timer fires.
Fairness ==
  /\ WF_vars(Write) /\ WF_vars(Update) /\ WF_vars(TimerFires) /\ WF_vars(Tick) /\ WF_vars(StopLoop)

Spec == Init /\ [][Next]_vars
FairSpec == Spec /\ Fairness

----------------------------------------------------------------------------------
\* The listener gets the error output in the order it was written and nothing twice, although the buffer
\* is emptied by one case of the loop and kept by the others.
HeardInOrder == \A i, j \in DOMAIN heard : i < j => heard[i] < heard[j]

\* What was written is in the buffer or was given to the listener, unless it was written before there
\* was a listener: the tick that finds none moves last past it, and the next one drops it.
LostOnlyUnheard ==
  \A n \in 1..copied : \/ n \in Range(heard) \cup Range(buf)
                       \/ lsn /\ n <= lsnAt

\* When Wait answers with a bare ExitError or an empty message, the error output written by then was
\* given to the listener, or dropped as above.
SilentWaitWasHeard ==
  wait \in {"exit", "empty"} => \A n \in 1..waitAt : n \in Range(heard) \/ n <= lsnAt

\* No error output is lost or repeated between Write, the flush of the loop, Listen and Wait, but what was
\* written before Listen.
OutputKept == HeardInOrder /\ LostOnlyUnheard /\ SilentWaitWasHeard

\* Output written after Listen reaches the listener, unless the buffer is closed first.
OutputHeard ==
  \A n \in Writes : (lsn /\ n \in Range(buf) /\ n > lsnAt) ~> (n \in Range(heard) \/ ~running)

\* "if stderr is presented it's value will be wrapped as WorkerError" (Wait)
WaitCarriesStderr == wait \in {"exit", "empty"} => sent = 0
==================================================================================
