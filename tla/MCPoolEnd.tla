------------------------------ MODULE MCPoolEnd ------------------------------
(* Two instances of StaticPool checked in one run: one worker that a controller removes, and two workers
   of a pool that is destroyed.  A behaviour is one of the instance chosen in the initial state. *)
EXTENDS StaticPool, TLC

VARIABLE part

Ending == INSTANCE StaticPool WITH NumWorkers <- 2, Replies <- {"ok"}, MaxCalls <- 0, MaxRemovals <- 0,
                                   MayDestroy <- TRUE

MCInit == \/ part = "remove" /\ Init
          \/ part = "destroy" /\ Ending!Init

RemoveNext == part = "remove" /\ Next /\ UNCHANGED part
EndingNext == part = "destroy" /\ Ending!Next /\ UNCHANGED part

MCSpec == MCInit /\ [][RemoveNext \/ EndingNext]_<<part, vars>>
==============================================================================
