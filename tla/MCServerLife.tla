---------------------------- MODULE MCServerLife ----------------------------
(* Two instances of Server checked in one run: a server that is reset, and one that is started and stopped
   several times.  A behaviour is one of the instance chosen in the initial state. *)
EXTENDS Server, TLC

CONSTANT Clients

VARIABLE part

Life == INSTANCE Server WITH Client <- Clients, MaxResets <- 0, MaxStarts <- 3, MaxFails <- 0, MaxAttach <- 2,
                             MayFail <- TRUE, MayStop <- TRUE

MCInit == \/ part = "reset" /\ Init
          \/ part = "life" /\ Life!Init

ResetNext == part = "reset" /\ Next /\ UNCHANGED part
LifeNext == part = "life" /\ Life!Next /\ UNCHANGED part

\* The fairness of Server, for the behaviours of the first instance.
ResetFairness ==
  /\ \A t \in Thread : WF_vars(part = "reset" /\ panic = "none" /\ Reconfigure(t))
  /\ \A p \in Pool : /\ WF_vars(part = "reset" /\ panic = "none" /\ (DestroyDetach(p) \/ DestroyPrevious(p)))
                     /\ WF_vars(part = "reset" /\ panic = "none" /\ (PoolThrow(p) \/ PoolListenerFail(p)))
  /\ \A c \in Client : WF_vars(part = "reset" /\ panic = "none" /\ (ExecEnter(c) \/ ExecReturn(c)))
  /\ WF_vars(part = "reset" /\ panic = "none" /\ (StartFail \/ StartDone))

MCSpec == MCInit /\ [][ResetNext \/ LifeNext]_<<part, vars>> /\ ResetFairness

\* Every Reconfigure returns, the one poolListener calls included, and the pool it replaces is destroyed
\* in the end.
ResetsEnd ==
  /\ \A t \in Thread : (part = "reset" /\ rpc[t] # "idle") ~> (rpc[t] = "idle")
  /\ \A p \in Pool : (part = "reset" /\ p \in heard /\ p # pool) ~> (status[p] = "gone")
=============================================================================
