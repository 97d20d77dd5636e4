--------------------------- MODULE WorkerRotation ---------------------------
(***************************************************************************)
(* What a pool of workers promises about handing them out, without saying  *)
(* how: a worker is hired once, offered to clients, serves one client at a *)
(* time, and once it is gone it never comes back.  StaticPool implements   *)
(* this specification.                                                     *)
(***************************************************************************)
CONSTANTS Worker, Client, NoWorker

VARIABLES
  offered,  \* workers a client may take
  serving,  \* the worker each client holds, or NoWorker
  gone      \* workers that left the pool for good

rotation == <<offered, serving, gone>>

Held == {serving[c] : c \in Client} \ {NoWorker}

Init ==
  /\ offered = {}
  /\ serving = [c \in Client |-> NoWorker]
  /\ gone = {}

\* A new worker joins the pool.
Hire(w) ==
  /\ w \notin offered \cup Held \cup gone
  /\ offered' = offered \cup {w}
  /\ UNCHANGED <<serving, gone>>

\* A client without a worker takes one that is offered.
Take(c, w) ==
  /\ serving[c] = NoWorker /\ w \in offered
  /\ offered' = offered \ {w}
  /\ serving' = [serving EXCEPT ![c] = w]
  /\ UNCHANGED gone

\* A client offers its worker again.
GiveBack(c) ==
  /\ serving[c] # NoWorker
  /\ offered' = offered \cup {serving[c]}
  /\ serving' = [serving EXCEPT ![c] = NoWorker]
  /\ UNCHANGED gone

\* A client's worker leaves the pool.
Dismiss(c) ==
  /\ serving[c] # NoWorker
  /\ gone' = gone \cup {serving[c]}
  /\ serving' = [serving EXCEPT ![c] = NoWorker]
  /\ UNCHANGED offered

Next ==
  \/ \E w \in Worker : Hire(w)
  \/ \E c \in Client : GiveBack(c) \/ Dismiss(c) \/ \E w \in Worker : Take(c, w)

Spec == Init /\ [][Next]_rotation
=============================================================================
