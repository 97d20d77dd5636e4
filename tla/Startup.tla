--------------------------------- MODULE Startup ---------------------------------
(* From main to the first worker.  The services are registered; container.Init configures them one after the other,
   in that order, and hands each the services it depends on that are configured by then.  What they leave with one
   another is what http, rpc and the workers have when they start.  The sections of the configuration are chosen when
   they are read; what Init does for a service is one step, since nothing else runs. *)
EXTENDS Naturals, Sequences, Functions

VARIABLES
  next,      \* Init: index of the service it configures
  booted,    \* Init: "running", "done" or "error"; "serving" when the workers of http are started
  active,    \* services with StatusOK
  values,    \* env: the keys of the values for workers
  mdwr,      \* http: the middleware
  rpcNames,  \* rpc: the names methods are registered for
  attached,  \* http: a controller is attached
  watches,   \* reload: the services it resets
  exported,  \* the collectors of http are registered in metrics and listen to http
  workerEnv  \* workers of http: the keys of their environment, and what RR_RPC is

startVars == <<next, booted, active, values, mdwr, rpcNames, attached, watches, exported, workerEnv>>
initVars == <<values, mdwr, rpcNames, attached, watches>>

\* Mutant: env is registered after rpc.
RegisteredLate == <<"rpc", "env", "http", "metrics", "headers", "static", "limit", "health", "gzip", "reload">>

Registered == <<"env", "rpc", "http", "metrics", "headers", "static", "limit", "health", "gzip", "reload">>

Name == Range(Registered)

\* Every variable has its type.
TypeOK ==
  /\ next \in 1..Len(Registered) + 1
  /\ booted \in {"running", "done", "error", "serving"}
  /\ active \subseteq Name
  /\ values \subseteq {"RR", "RR_RPC", "rr_rpc"}
  /\ Range(mdwr) \subseteq {"headers", "static", "gzip"} /\ rpcNames \subseteq {"system", "http", "metrics"}
  /\ attached \in BOOLEAN /\ watches \subseteq {"http"} /\ exported \in BOOLEAN
  /\ workerEnv \in [keys : SUBSET {"RR", "RR_RPC", "RR_HTTP"}, rpc : {"none", "listen", "configured"}]

Init ==
  /\ next = 1 /\ booted = "running" /\ active = {} /\ values = {} /\ mdwr = <<>> /\ rpcNames = {}
  /\ attached = FALSE /\ watches = {} /\ exported = FALSE
  /\ workerEnv = [keys |-> {}, rpc |-> "none"]

----------------------------------------------------------------------------------
(* container.Init *)

At(s) == booted = "running" /\ next <= Len(Registered) /\ Registered[next] = s

\* The service is enabled, or it is not; Init goes on with the next.
Configured(s, ok) ==
  /\ active' = IF ok THEN active \cup {s} ELSE active
  /\ next' = next + 1 /\ UNCHANGED <<booted, exported, workerEnv>>

\* An error of Hydrate or of the service's Init ends the Init of all.
Fails(s) ==
  /\ At(s) /\ booted' = "error"
  /\ UNCHANGED <<next, active, exported, workerEnv, initVars>>

\* A dependency is a service that is configured already, or nil.
resolveValue(d) == d \in active

\* Without a section a configuration has its defaults.
DefaultsConfig == {"env", "rpc", "limit", "gzip", "reload"}

\* Without a section and defaults the service is skipped.
errNoConfig(s) == At(s) /\ s \notin DefaultsConfig /\ Configured(s, FALSE) /\ UNCHANGED initVars

----------------------------------------------------------------------------------
(* Init of the services *)

\* The keys of the configuration come in lower case.
initEnv ==
  /\ At("env") /\ \E keys \in SUBSET {"rr_rpc"} : values' = {"RR"} \cup keys
  /\ Configured("env", TRUE) /\ UNCHANGED <<mdwr, rpcNames, attached, watches>>

initRpc ==
  /\ At("rpc")
  /\ \E enable \in BOOLEAN :
       /\ Configured("rpc", enable)
       /\ values' = IF enable /\ resolveValue("env") THEN values \cup {"RR_RPC"} ELSE values
       /\ rpcNames' = IF enable THEN {"system"} ELSE {}
  /\ UNCHANGED <<mdwr, attached, watches>>

Register(s) == rpcNames' = IF resolveValue("rpc") THEN rpcNames \cup {s} ELSE rpcNames

\* A configuration of http: what it listens for, and whether the files of TLS exist.
HttpConfig == [methods : SUBSET {"http", "https", "fcgi"}, files : BOOLEAN]
Valid(c) == c.methods # {} /\ ("https" \in c.methods => c.files)

initHttp ==
  /\ At("http") /\ \E c \in HttpConfig : Valid(c) /\ Configured("http", c.methods # {})
  /\ Register("http") /\ UNCHANGED <<values, mdwr, attached, watches>>

initMetrics ==
  /\ At("metrics") /\ Configured("metrics", TRUE) /\ Register("metrics")
  /\ UNCHANGED <<values, mdwr, attached, watches>>

AddMiddleware(s, ok) ==
  /\ Configured(s, ok)
  /\ mdwr' = IF ok THEN Append(mdwr, s) ELSE mdwr
  /\ UNCHANGED <<values, rpcNames, attached, watches>>

initHeaders == At("headers") /\ AddMiddleware("headers", resolveValue("http"))

initStatic == At("static") /\ AddMiddleware("static", resolveValue("http"))

\* The controller is attached to what is registered, enabled or not.
initLimit ==
  /\ At("limit") /\ \E on \in BOOLEAN : attached' = on
  /\ Configured("limit", TRUE) /\ UNCHANGED <<values, mdwr, rpcNames, watches>>

initHealth == At("health") /\ Configured("health", resolveValue("http")) /\ UNCHANGED initVars

\* An enabled gzip without http is an error.
initGzip ==
  /\ At("gzip")
  /\ \E enable \in BOOLEAN : (enable => resolveValue("http")) /\ AddMiddleware("gzip", enable)

\* Reload watches for what is registered, enabled or not.
initReload ==
  /\ At("reload") /\ \E on \in BOOLEAN : Configured("reload", on) /\ watches' = IF on THEN {"http"} ELSE {}
  /\ UNCHANGED <<values, mdwr, rpcNames, attached>>

initService ==
  \/ initEnv \/ initRpc \/ initHttp \/ initMetrics \/ initHeaders \/ initStatic \/ initLimit \/ initHealth
  \/ initGzip \/ initReload
  \/ \E s \in Name : errNoConfig(s) \/ Fails(s)

----------------------------------------------------------------------------------
(* After Init *)

\* The collectors of http are registered when metrics has a configuration.
RegisterCollectors ==
  /\ booted = "running" /\ next > Len(Registered)
  /\ booted' = "done" /\ exported' = ("metrics" \in active)
  /\ UNCHANGED <<next, active, workerEnv, initVars>>

\* Keys are put in upper case: of two that are the same the order of the map decides.
GetEnv(keys) ==
  {[keys |-> {IF k = "rr_rpc" THEN "RR_RPC" ELSE k : k \in keys} , rpc |-> r] :
     r \in IF {"RR_RPC", "rr_rpc"} \cap keys = {} THEN {"none"}
           ELSE {IF k = "RR_RPC" THEN "listen" ELSE "configured" : k \in {"RR_RPC", "rr_rpc"} \cap keys}}

\* Serve of http copies the values of env before the first worker is started.
ServeHttp ==
  /\ booted = "done" /\ "http" \in active
  /\ booted' = "serving"
  /\ workerEnv' \in GetEnv((IF "env" \in active THEN values ELSE {}) \cup {"RR_HTTP"})
  /\ UNCHANGED <<next, active, exported, initVars>>

Next == initService \/ RegisterCollectors \/ ServeHttp
Spec == Init /\ [][Next]_startVars

----------------------------------------------------------------------------------
(* What the order of registration has to give *)

Chain == SelectSeq(Registered, LAMBDA s : s \in active \cap {"headers", "static", "gzip"})

\* When Init has succeeded the services are wired with one another: every middleware that is enabled is in the chain of an
\* enabled http, once and in the order of registration; rpc has the methods of exactly the services that
\* are enabled; and when rpc is enabled the workers of http are told its address, unless the configuration sets one (Init,
\* resolveValue, Serve).
Wired ==
  booted \in {"done", "serving"} =>
    /\ mdwr = Chain
    /\ (mdwr # <<>> \/ "health" \in active) => "http" \in active
    /\ rpcNames = IF "rpc" \in active THEN {"system"} \cup (active \cap {"http", "metrics"}) ELSE {}
    /\ booted = "serving" /\ "rpc" \in active => workerEnv.rpc = "listen" \/ "rr_rpc" \in values
    /\ "rpc" \notin active => workerEnv.rpc # "listen"

\* Reload resets only services that run.  Not so: c.Get finds http whatever its status is (reload, Init), and a
\* server that was never made is reset.
WatchedRuns == booted = "done" => watches \subseteq active
==================================================================================
