-------------------------------- MODULE Services ---------------------------------
(* The services around the pool that share no variable with one another: Reload by itself, and a request (Http) and the
   collectors (Metrics) beside it. *)
EXTENDS Reload

CONSTANTS Fields, Uploads, MaxLevel, Metric, FullName, Declarer, MaxValue, NoCollector

VARIABLES
  at, kind, form, sent, todo, pass, tree, ftree, list, up, named, temp, stuck, status, nErr, nRsp, panicked,
  collect, full, serve, call, collectors, registry, value, acked, spoiled

\* Calls of Declare, the configuration and an entry that is missing are told apart.
ASSUME CollectorAssumption ==
  /\ \A m \in Metric : <<m>> \notin Declarer /\ <<m>> # NoCollector
  /\ NoCollector \notin Declarer

Request == INSTANCE Http
Stats == INSTANCE Metrics

httpVars == <<at, kind, form, sent, todo, pass, tree, ftree, list, up, named, temp, stuck, status, nErr, nRsp,
              panicked>>
metricsVars == <<collect, full, serve, call, collectors, registry, value, acked, spoiled>>

\* Temporary files are there while the worker needs them and gone when the request is over (Open, Clear).
UploadsHandled == Request!UploadsHandled

\* A request that reached the handler ends with a status and an event, unless the handler panicked.
EndIsReported == Request!EndIsReported

\* A metric is exported with every operation rpc has acknowledged, and of those who declare it at most one is told that
\* it did: unless two declare its name at once, Serve registers it again, or it could not be registered (Declare, Serve).
AckedIsExported == Stats!AckedIsExported
==================================================================================
