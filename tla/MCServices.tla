------------------------------- MODULE MCServices --------------------------------
(* Reload, Http, Metrics and Startup checked in one run.  They share no variable: a behaviour is one of the part chosen
   in the initial state, the other parts stay in theirs. *)
EXTENDS Services, TLC

VARIABLES part, next, booted, active, values, mdwr, rpcNames, attached, watches, exported, workerEnv

MCDirs == <<"d">>

\* A field, fields below and beside it, a list of the same name, and one that is too deep.
MCFields == {<<"a">>, <<"a", "[", "b", "]">>, <<"a", "[", "]">>, <<"c", "[", "b", "]">>,
             <<"c", "[", "b", "]", "[", "d", "]">>}

\* A file, and one that is too deep for the tree.
MCUploads == {<<"f">>, <<"g", "[", "b", "]", "[", "]">>}

Boot == INSTANCE Startup

startVars == <<next, booted, active, values, mdwr, rpcNames, attached, watches, exported, workerEnv>>
mcVars == <<part, vars, httpVars, metricsVars, startVars>>

\* Names, full names and declarers are interchangeable: one declarer may have any.  A metric that is not configured
\* has no collector of Serve.  Bound: one metric is not configured.
AFullName == CHOOSE n \in FullName : TRUE
AMetric == CHOOSE m \in Metric : TRUE
ADeclarer == CHOOSE d \in Declarer : TRUE

MCInit ==
  /\ part \in {"reload", "http", "metrics", "startup"} /\ Init /\ Request!Init /\ Stats!Init /\ Boot!Init
  /\ part # "http" => kind = "none"
  /\ part # "metrics" => /\ collect = {} /\ full = [c \in Stats!Collector |-> AFullName]
                         /\ \A d \in Declarer : call[d].metric = AMetric
  /\ full[ADeclarer] = AFullName /\ call[ADeclarer].metric = AMetric
  /\ collect # Metric /\ \A m \in Metric \ collect : full[<<m>>] = AFullName

ReloadNext == part = "reload" /\ Next /\ UNCHANGED <<part, httpVars, metricsVars, startVars>>
HttpNext == part = "http" /\ Request!Next /\ UNCHANGED <<part, vars, metricsVars, startVars>>
MetricsNext == part = "metrics" /\ Stats!Next /\ UNCHANGED <<part, vars, httpVars, startVars>>
StartNext == part = "startup" /\ Boot!Next /\ UNCHANGED <<part, vars, httpVars, metricsVars>>

MCNext == ReloadNext \/ HttpNext \/ MetricsNext \/ StartNext

\* The fairness of each part, for the behaviours that are its own.
ReloadFairness ==
  /\ \A p \in Poll :
       /\ WF_vars(part = "reload" /\ StartPoll(p)) /\ WF_vars(part = "reload" /\ Retrieve(p))
       /\ WF_vars(part = "reload" /\ Apply(p)) /\ WF_vars(part = "reload" /\ Send(p))
       /\ WF_vars(part = "reload" /\ EndPoll(p))
  /\ WF_vars(part = "reload" /\ Forward) /\ WF_vars(part = "reload" /\ Collect)
  /\ WF_vars(part = "reload" /\ Ticks) /\ WF_vars(part = "reload" /\ Reset)
  /\ WF_vars(part = "reload" /\ ResetDone) /\ WF_vars(part = "reload" /\ StopWatcher)
  /\ WF_vars(part = "reload" /\ StopPump) /\ WF_vars(part = "reload" /\ Drain)

MCSpec == MCInit /\ [][MCNext]_mcVars /\ ReloadFairness

\* Every variable has its type: of Reload, Http, Metrics and Startup.
PartTypes == TypeOK /\ Request!TypeOK /\ Stats!TypeOK /\ Boot!TypeOK

\* In whatever order the map is walked, fields that do not conflict reach the worker under the indexes of their names, and
\* a multipart form whose fields conflict does not reach it (parseData, push, mount).
FormTree == part = "http" => Request!FormTree

\* When Init has succeeded the services are wired with one another (Init, resolveValue, Serve of http).
Wired == Boot!Wired
==================================================================================
