--------------------------------- MODULE Metrics ---------------------------------
(* Application metrics: the collectors of the configuration, which Serve registers, and those that workers declare
   and update through rpc, each call in a goroutine of its own.  s.collectors has them by name; the registry is what is
   exported, and has them by the full name, which their namespace and subsystem are part of.  A vector is reduced to the
   child of one list of labels; an operation without labels on a vector, like every other operation a collector does not
   take, is an error and changes nothing. *)
EXTENDS Integers

CONSTANTS
  Metric,     \* names of metrics
  FullName,   \* namespace, subsystem and name in one
  Declarer,   \* calls of Declare
  MaxValue,   \* bound on the value of a collector
  NoCollector \* no entry in s.collectors

Types == {"gauge", "counter", "histogram", "summary"}

VARIABLES
  collect,    \* cfg.Collect: the names that are configured, all of one type
  full,       \* full name a collector is made with
  serve,      \* Serve: where it is, and the collectors it has still to register and is about to store
  call,       \* Declare: where each call is, and its arguments
  collectors, \* s.collectors
  registry,   \* collectors of the registry
  value,      \* value of a collector: of its gauge or counter, or the observations it has
  acked,      \* what the operations on a name that were answered with true add up to
  spoiled     \* names a Declare stored and could not register, that two Declares, or a Declare and Serve, have handled
              \* at once, or that Serve has registered again

mvars == <<collect, full, serve, call, collectors, registry, value, acked, spoiled>>

\* A collector is known by who made it.
Collector == Declarer \cup {<<m>> : m \in Metric}
NameOf(c) == IF c \in Declarer THEN call[c].metric ELSE c[1]
TypeOf(c) == IF c \in Declarer THEN call[c].type ELSE "gauge"

\* Every variable has its type.
TypeOK ==
  /\ collect \subseteq Metric /\ full \in [Collector -> FullName]
  /\ serve \in [at : {"start", "register", "store", "listen", "failed"}, todo : SUBSET Metric, got : SUBSET Metric]
  /\ call \in [Declarer -> [at : {"idle", "build", "register", "true", "false", "error"},
                            metric : Metric, type : Types]]
  /\ collectors \in [Metric -> Collector \cup {NoCollector}]
  /\ registry \subseteq Collector
  /\ \A c, d \in registry : full[c] = full[d] => c = d
  /\ value \in [Collector -> -MaxValue..MaxValue] /\ acked \in [Metric -> -MaxValue..MaxValue]
  /\ spoiled \subseteq Metric

Init ==
  /\ collect \in SUBSET Metric /\ full \in [Collector -> FullName]
  /\ serve = [at |-> "start", todo |-> {}, got |-> {}]
  /\ call \in [Declarer -> [at : {"idle"}, metric : Metric, type : {"gauge"}]]
  /\ collectors = [m \in Metric |-> NoCollector]
  /\ registry = {}
  /\ value = [c \in Collector |-> 0] /\ acked = [m \in Metric |-> 0]
  /\ spoiled = {}

\* registry.Register refuses a second collector of a full name, whatever name it is stored under.
Taken(c) == \E e \in registry : full[e] = full[c]

Known(m) == collectors[m] # NoCollector

\* A Declare of the name has begun, or Serve is about to store it.
Busy(m) == \/ \E d \in Declarer : call[d].metric = m /\ call[d].at \in {"build", "register"}
           \/ serve.got = {m}

----------------------------------------------------------------------------------
(* Serve *)

\* A type that is none fails before anything is registered.
getCollectors ==
  /\ serve.at = "start"
  /\ serve' \in {[serve EXCEPT !.at = "register", !.todo = collect], [serve EXCEPT !.at = "failed"]}
  /\ UNCHANGED <<collect, full, call, collectors, registry, value, acked, spoiled>>

\* One round of the loop, in the order of the map; a full name that is taken fails.
ServeRegister(m) ==
  /\ serve.at = "register" /\ m \in serve.todo
  /\ IF Taken(<<m>>)
     THEN serve' = [serve EXCEPT !.at = "failed"] /\ UNCHANGED <<registry, spoiled>>
     ELSE /\ serve' = [at |-> "store", todo |-> serve.todo \ {m}, got |-> {m}]
          /\ registry' = registry \cup {<<m>>}
          /\ spoiled' = IF Known(m) \/ Busy(m) THEN spoiled \cup {m} ELSE spoiled
  /\ UNCHANGED <<collect, full, call, collectors, value, acked>>

ServeStore ==
  /\ serve.at = "store"
  /\ collectors' = [m \in Metric |-> IF m \in serve.got THEN <<m>> ELSE collectors[m]]
  /\ serve' = [serve EXCEPT !.at = "register", !.got = {}]
  /\ UNCHANGED <<collect, full, call, registry, value, acked, spoiled>>

ServeListen ==
  /\ serve.at = "register" /\ serve.todo = {}
  /\ serve' = [serve EXCEPT !.at = "listen"]
  /\ UNCHANGED <<collect, full, call, collectors, registry, value, acked, spoiled>>

----------------------------------------------------------------------------------
(* Declare *)

\* Mutant: a name may be declared again.
DeclareAgain(d) ==
  /\ call[d].at = "idle"
  /\ \E t \in Types : call' = [call EXCEPT ![d].at = "build", ![d].type = t]
  /\ spoiled' = IF Busy(call[d].metric) THEN spoiled \cup {call[d].metric} ELSE spoiled
  /\ UNCHANGED <<collect, full, serve, collectors, registry, value, acked>>

\* A name that has a collector is answered with false.
Declare(d) ==
  /\ call[d].at = "idle"
  /\ \E t \in Types :
       call' = [call EXCEPT ![d].at = IF Known(call[d].metric) THEN "false" ELSE "build",
                            ![d].type = t]
  /\ spoiled' = IF Busy(call[d].metric) THEN spoiled \cup {call[d].metric} ELSE spoiled
  /\ UNCHANGED <<collect, full, serve, collectors, registry, value, acked>>

\* A type that is none is an error; a constructor that panics is one, or goes unnoticed when it panics with a text.
BuildFails(d) ==
  /\ call[d].at = "build"
  /\ \E a \in {"error", "false"} : call' = [call EXCEPT ![d].at = a]
  /\ UNCHANGED <<collect, full, serve, collectors, registry, value, acked, spoiled>>

\* Store, before the collector is registered.
Build(d) ==
  /\ call[d].at = "build"
  /\ collectors' = [collectors EXCEPT ![call[d].metric] = d]
  /\ call' = [call EXCEPT ![d].at = "register"]
  /\ UNCHANGED <<collect, full, serve, registry, value, acked, spoiled>>

\* MustRegister: a full name that is taken, or a description that is not valid, panics, and what is stored stays.
Register(d) ==
  /\ call[d].at = "register"
  /\ \/ /\ ~Taken(d)
        /\ registry' = registry \cup {d}
        /\ call' = [call EXCEPT ![d].at = "true"]
        /\ UNCHANGED spoiled
     \/ /\ call' = [call EXCEPT ![d].at = "error"]
        /\ spoiled' = spoiled \cup {call[d].metric}
        /\ UNCHANGED registry
  /\ UNCHANGED <<collect, full, serve, collectors, value, acked>>

----------------------------------------------------------------------------------
(* Add, Sub, Set and Observe *)

\* An operation of a metric that its collector takes, and the value it leaves.
Operates(m, c, v) ==
  /\ v \in -MaxValue..MaxValue
  /\ value' = [value EXCEPT ![c] = v]
  /\ acked' = [acked EXCEPT ![m] = @ + (v - value[c])]
  /\ acked' \in [Metric -> -MaxValue..MaxValue]
  /\ UNCHANGED <<collect, full, serve, call, collectors, registry, spoiled>>

\* A counter panics at a negative value, which is answered with an error.
Add(m, n) ==
  LET c == collectors[m] IN
    /\ Known(m) /\ TypeOf(c) \in {"gauge"} \cup (IF n >= 0 THEN {"counter"} ELSE {})
    /\ Operates(m, c, value[c] + n)

Sub(m, n) ==
  LET c == collectors[m] IN Known(m) /\ TypeOf(c) = "gauge" /\ Operates(m, c, value[c] - n)

Set(m, n) ==
  LET c == collectors[m] IN Known(m) /\ TypeOf(c) = "gauge" /\ Operates(m, c, n)

\* One more observation; a summary without labels passes for a histogram.
Observe(m) ==
  LET c == collectors[m] IN Known(m) /\ TypeOf(c) \in {"histogram", "summary"} /\ Operates(m, c, value[c] + 1)

Next ==
  \/ getCollectors \/ ServeStore \/ ServeListen
  \/ \E d \in Declarer : Declare(d) \/ BuildFails(d) \/ Build(d) \/ Register(d)
  \/ \E m \in Metric : ServeRegister(m) \/ Observe(m) \/ \E n \in {-1, 1} : Add(m, n) \/ Sub(m, n) \/ Set(m, n)

Spec == Init /\ [][Next]_mvars

----------------------------------------------------------------------------------
\* A metric shows what its operations were acknowledged for: unless its name is spoiled, the collector rpc finds is the
\* one that is exported, and it has every operation that was answered with true.
ExportedIsAcked ==
  \A m \in Metric \ spoiled :
    Known(m) /\ ~Busy(m) => collectors[m] \in registry /\ value[collectors[m]] = acked[m]

\* Of all that declare a full name, rpc calls that race each other and the configuration included, at most one is told
\* that it did; and of all that declare a name that is not spoiled, whatever the full name.
DeclaredOnce ==
  \A d \in Declarer : call[d].at = "true" =>
    /\ \A c \in registry : full[c] = full[d] => c = d
    /\ call[d].metric \notin spoiled =>
         /\ <<call[d].metric>> \notin registry
         /\ \A e \in Declarer : call[e].at = "true" /\ call[e].metric = call[d].metric => e = d

\* What rpc has acknowledged is exported, but for the names that are spoiled, and one declaration of a name is
\* acknowledged at most.
AckedIsExported == ExportedIsAcked /\ DeclaredOnce

\* "add collector to sync.Map" (rpc.go): what rpc finds is exported once no call is running.
ServedIsExported == \A m \in Metric : Known(m) /\ ~Busy(m) => collectors[m] \in registry

\* Serve fails for its own configuration only.
ServeComesUp == [][serve.at = "register" => serve'.at # "failed"]_mvars
==================================================================================
