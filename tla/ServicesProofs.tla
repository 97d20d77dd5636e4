------------------------------ MODULE ServicesProofs -----------------------------
(* What the services around the pool promise, for any number of files, polls, uploads, metrics and calls: the watcher of
   reload.service, the request of http.service, the collectors of metrics.service.  Their inductive
   invariants are Noted, Filed and Reported, Measured. *)
EXTENDS Services, Integers, TLAPS

-----------------------------------------------------------------------------
(* Metrics *)

\* The variables of the metrics service that the argument reads.
Counted ==
  /\ serve \in [at : {"start", "register", "store", "listen", "failed"}, todo : SUBSET Metric, got : SUBSET Metric]
  /\ call \in [Declarer -> [at : {"idle", "build", "register", "true", "false", "error"},
                            metric : Metric, type : Stats!Types]]
  /\ collect \subseteq Metric
  /\ collectors \in [Metric -> Stats!Collector \cup {NoCollector}] /\ registry \subseteq Stats!Collector
  /\ value \in [Stats!Collector -> Int] /\ acked \in [Metric -> Int]

\* Declare of a name that has been let past the look into s.collectors and has not returned.
Declaring(d, m) == call[d].metric = m /\ call[d].at \in {"build", "register"}

\* What holds of every name, spoiled or not: a collector is stored under its own name, the registry has one of a full
\* name, and a collector that is not stored yet has no value.
Stored ==
  /\ serve.at = "store" <=> serve.got # {}
  /\ serve.got = {} \/ \E m \in Metric : serve.got = {m}
  /\ \A c, d \in registry : full[c] = full[d] => c = d
  /\ \A m \in Metric : Stats!Known(m) => Stats!NameOf(collectors[m]) = m
  /\ \A d \in Declarer : /\ call[d].at = "true" => d \in registry
                         /\ call[d].at \in {"idle", "build"} =>
                              value[d] = 0 /\ \A m \in Metric : collectors[m] # d
  /\ \A m \in Metric : /\ <<m>> \notin registry \/ serve.got = {m} => value[<<m>>] = 0 /\ collectors[m] # <<m>>
                       /\ serve.got = {m} => <<m>> \in registry

\* What holds of a name that is not spoiled.
Orderly(m) ==
  /\ \A d, e \in Declarer : Declaring(d, m) /\ Declaring(e, m) => d = e
  /\ \A d \in Declarer : Declaring(d, m) => serve.got # {m}
  /\ \A d \in Declarer : /\ Declaring(d, m) /\ call[d].at = "build" => ~Stats!Known(m)
                         /\ Declaring(d, m) /\ call[d].at = "register" => collectors[m] = d
  /\ \A c \in registry : Stats!NameOf(c) = m => collectors[m] = c \/ (serve.got = {m} /\ c = <<m>>)
  /\ ~Stats!Known(m) => acked[m] = 0
  /\ Stats!Known(m) => /\ value[collectors[m]] = acked[m]
                 /\ \/ collectors[m] \in registry
                    \/ \E d \in Declarer : collectors[m] = d /\ Declaring(d, m) /\ call[d].at = "register"
  /\ serve.got = {m} => ~Stats!Known(m)

\* The collectors, the registry and the values.
Measured == Counted /\ Stored /\ \A m \in Metric \ spoiled : Orderly(m)

\* Collectors are told apart by who made them.
LEMMA CollectorsDiffer ==
  /\ \A d \in Declarer : d \in Stats!Collector /\ d # NoCollector /\ Stats!NameOf(d) = call[d].metric
  /\ \A m \in Metric : /\ <<m>> \in Stats!Collector /\ <<m>> \notin Declarer /\ <<m>> # NoCollector
                       /\ Stats!NameOf(<<m>>) = m
  /\ \A m, n \in Metric : <<m>> = <<n>> => m = n
  /\ NoCollector \notin Stats!Collector
BY CollectorAssumption, Zenon DEF Stats!Collector, Stats!NameOf

\* What rpc has acknowledged, the collector it finds has.
LEMMA OrderlyValue == ASSUME NEW m, Orderly(m), Stats!Known(m) PROVE value[collectors[m]] = acked[m]
BY Zenon DEF Orderly

\* A step of a call changes that call only, and no name.
LEMMA CallMoves ==
  ASSUME Counted, NEW d \in Declarer, NEW t \in Stats!Types,
         NEW a \in {"idle", "build", "register", "true", "false", "error"},
         call' = [call EXCEPT ![d] = [at |-> a, metric |-> call[d].metric, type |-> t]]
  PROVE  /\ call' \in [Declarer -> [at : {"idle", "build", "register", "true", "false", "error"},
                                    metric : Metric, type : Stats!Types]]
         /\ call'[d].at = a /\ \A e \in Declarer : call'[e].metric = call[e].metric /\ (e # d => call'[e] = call[e])
         /\ \A c : Stats!NameOf(c)' = Stats!NameOf(c)
<1>1. call[d].metric \in Metric
  BY Zenon DEF Counted
<1>2. call' \in [Declarer -> [at : {"idle", "build", "register", "true", "false", "error"},
                              metric : Metric, type : Stats!Types]]
  BY <1>1, Zenon DEF Counted
<1>3. call'[d].at = a /\ \A e \in Declarer : call'[e].metric = call[e].metric /\ (e # d => call'[e] = call[e])
  BY Zenon DEF Counted
<1>4. \A c : Stats!NameOf(c)' = Stats!NameOf(c)
  BY <1>3, Zenon DEF Stats!NameOf
<1> QED
  BY <1>2, <1>3, <1>4, Zenon

\* Steps of Serve that register and store nothing.
LEMMA ServeMeasured ==
  ASSUME Measured,
         \/ Stats!getCollectors \/ Stats!ServeListen
         \/ \E m \in Metric : Stats!ServeRegister(m) /\ Stats!Taken(<<m>>)
  PROVE  Measured'
<1>1. /\ UNCHANGED <<call, collectors, registry, value, acked, spoiled, collect, full>>
      /\ \E a \in {"register", "listen", "failed"}, T \in SUBSET Metric :
           serve' = [at |-> a, todo |-> T, got |-> serve.got]
      /\ serve.at # "store"
  <2>1. serve = [at |-> serve.at, todo |-> serve.todo, got |-> serve.got] /\ serve.todo \in SUBSET Metric
    BY Zenon DEF Measured, Counted
  <2>2. CASE Stats!getCollectors
    <3>1. \/ serve' = [at |-> "register", todo |-> collect, got |-> serve.got]
          \/ serve' = [at |-> "failed", todo |-> serve.todo, got |-> serve.got]
      BY <2>1, <2>2, Zenon DEF Stats!getCollectors
    <3> QED
      BY <2>1, <2>2, <3>1, Zenon DEF Stats!getCollectors, Measured, Counted
  <2>3. CASE Stats!ServeListen
    <3>1. serve' = [at |-> "listen", todo |-> serve.todo, got |-> serve.got]
      BY <2>1, <2>3, Zenon DEF Stats!ServeListen
    <3> QED
      BY <2>1, <2>3, <3>1, Zenon DEF Stats!ServeListen
  <2>4. CASE \E m \in Metric : Stats!ServeRegister(m) /\ Stats!Taken(<<m>>)
    <3>1. serve' = [at |-> "failed", todo |-> serve.todo, got |-> serve.got]
      BY <2>1, <2>4, Zenon DEF Stats!ServeRegister
    <3> QED
      BY <2>1, <2>4, <3>1, Zenon DEF Stats!ServeRegister
  <2> QED
    BY <2>2, <2>3, <2>4, Zenon
<1>2. serve'.got = serve.got /\ serve'.at # "store" /\ serve.got = {}
  BY <1>1 DEF Measured, Stored
<1>3. Counted'
  BY <1>1 DEF Measured, Counted
<1>4. \A c : Stats!NameOf(c)' = Stats!NameOf(c)
  BY <1>1, Zenon DEF Stats!NameOf
<1>5. Stored'
  BY <1>1, <1>2, <1>4, Zenon DEF Measured, Stored, Stats!Known
<1>6. ASSUME NEW m \in Metric \ spoiled' PROVE Orderly(m)'
  BY <1>1, <1>2, <1>4, <1>6 DEF Measured, Orderly, Declaring, Stats!Known
<1> QED
  BY <1>3, <1>5, <1>6, Zenon DEF Measured

\* Serve registers a collector of the configuration.
LEMMA RegisterMeasured ==
  ASSUME Measured, NEW n \in Metric, Stats!ServeRegister(n), ~Stats!Taken(<<n>>)
  PROVE  Measured'
<1>1. /\ UNCHANGED <<call, collectors, value, acked, collect, full>>
      /\ spoiled \subseteq spoiled' /\ spoiled' \subseteq spoiled \cup {n}
      /\ serve' = [at |-> "store", todo |-> serve.todo \ {n}, got |-> {n}] /\ serve.at = "register"
      /\ registry' = registry \cup {<<n>>}
      /\ Stats!Known(n) \/ (\E d \in Declarer : Declaring(d, n)) => n \in spoiled'
  BY Zenon DEF Stats!ServeRegister, Stats!Busy, Declaring
<1>2. serve'.got = {n} /\ serve'.at = "store" /\ serve.got = {}
  BY <1>1, Zenon DEF Measured, Stored
<1>3. Counted'
  BY <1>1, CollectorsDiffer DEF Measured, Counted
<1>4. \A c : Stats!NameOf(c)' = Stats!NameOf(c)
  BY <1>1, Zenon DEF Stats!NameOf
<1>5. \A c \in registry : full[c] # full[<<n>>]
  BY Zenon DEF Stats!Taken
<1>6. Stored'
  <2>1. \A c, d \in registry' : full'[c] = full'[d] => c = d
    BY <1>1, <1>5, Zenon DEF Measured, Stored
  <2>2. <<n>> \notin registry
    BY <1>5, Zenon
  <2>3. \A m \in Metric : <<m>> \notin registry' \/ serve'.got = {m} => value'[<<m>>] = 0 /\ collectors'[m] # <<m>>
    BY <1>1, <1>2, <2>2, Zenon DEF Measured, Stored
  <2> QED
    BY <1>1, <1>2, <1>4, <2>1, <2>3, Zenon DEF Measured, Stored, Stats!Known
<1>7. ASSUME NEW m \in Metric \ spoiled', m # n PROVE Orderly(m)'
  <2>1. Orderly(m) /\ serve'.got # {m}
    BY <1>1, <1>2, <1>7, Zenon DEF Measured
  <2>2. \A c \in registry' : Stats!NameOf(c)' = m => c \in registry
    BY <1>1, <1>4, <1>7, CollectorsDiffer, Zenon
  <2> QED
    BY <1>1, <1>2, <1>4, <2>1, <2>2, Zenon DEF Orderly, Declaring, Stats!Known
<1>8. ASSUME n \notin spoiled' PROVE Orderly(n)'
  <2>1. Orderly(n) /\ ~Stats!Known(n) /\ \A d \in Declarer : ~Declaring(d, n)
    BY <1>1, <1>8, Zenon DEF Measured
  <2>2. \A d \in Declarer : ~Declaring(d, n)'
    BY <1>1, <2>1, Zenon DEF Declaring
  <2>3. \A c \in registry : c # NoCollector
    BY CollectorsDiffer, Zenon DEF Measured, Counted
  <2>4. \A c \in registry' : Stats!NameOf(c)' = n => c = <<n>>
    BY <1>1, <1>2, <1>4, <2>1, <2>3, Zenon DEF Orderly, Stats!Known
  <2> QED
    BY <1>1, <1>2, <2>1, <2>2, <2>4, Zenon DEF Orderly, Stats!Known
<1> QED
  BY <1>3, <1>6, <1>7, <1>8, Zenon DEF Measured

\* Serve stores what it has registered.
LEMMA StoreMeasured == ASSUME Measured, Stats!ServeStore PROVE Measured'
<1>1. PICK n \in Metric : serve.got = {n}
  BY Zenon DEF Stats!ServeStore, Measured, Stored
<1>2. /\ UNCHANGED <<call, registry, value, acked, spoiled, collect, full>>
      /\ serve' = [at |-> "register", todo |-> serve.todo, got |-> {}] /\ serve.todo \in SUBSET Metric
      /\ collectors' = [m \in Metric |-> IF m = n THEN <<m>> ELSE collectors[m]]
  BY <1>1, Zenon DEF Stats!ServeStore, Measured, Counted
<1>3. /\ serve'.got = {} /\ serve'.at = "register"
      /\ \A m \in Metric : collectors'[m] = IF m = n THEN <<n>> ELSE collectors[m]
  BY <1>2, Zenon
<1>4. Counted'
  BY <1>2, CollectorsDiffer, Zenon DEF Measured, Counted
<1>5. \A c : Stats!NameOf(c)' = Stats!NameOf(c)
  BY <1>2, Zenon DEF Stats!NameOf
<1>6. Stored'
  <2>1. \A m \in Metric : Stats!Known(m)' => Stats!NameOf(collectors[m])' = m
    BY <1>3, <1>5, CollectorsDiffer DEF Measured, Stored, Stats!Known, Stats!NameOf
  <2>2. \A d \in Declarer : call'[d].at \in {"idle", "build"} => value'[d] = 0 /\ \A m \in Metric : collectors'[m] # d
    BY <1>2, <1>3, CollectorsDiffer, ZenonT(60) DEF Measured, Stored
  <2>3. \A m \in Metric : <<m>> \notin registry => value[<<m>>] = 0 /\ collectors'[m] # <<m>>
    BY <1>1, <1>3, Zenon DEF Measured, Stored
  <2> QED
    BY <1>2, <1>3, <1>5, <2>1, <2>2, <2>3, Zenon DEF Measured, Stored
<1>7. ASSUME NEW m \in Metric \ spoiled', m # n PROVE Orderly(m)'
  <2>1. Orderly(m) /\ collectors'[m] = collectors[m] /\ serve.got # {m} /\ serve'.got # {m}
    BY <1>1, <1>2, <1>3, <1>7, Zenon DEF Measured
  <2> QED
    BY <1>2, <1>5, <2>1, Zenon DEF Orderly, Declaring, Stats!Known
<1>8. ASSUME n \notin spoiled' PROVE Orderly(n)'
  <2>1. Orderly(n) /\ collectors'[n] = <<n>> /\ <<n>> \in registry /\ value[<<n>>] = 0 /\ serve'.got # {n}
    BY <1>1, <1>2, <1>3, <1>8, Zenon DEF Measured, Stored
  <2>2. ~Stats!Known(n) /\ acked[n] = 0 /\ \A d \in Declarer : ~Declaring(d, n)
    BY <1>1, <2>1, Zenon DEF Orderly
  <2>3. \A d \in Declarer : ~Declaring(d, n)'
    BY <1>2, <2>2, Zenon DEF Declaring
  <2>4. \A c \in registry' : Stats!NameOf(c)' = n => c = <<n>>
    <3>1. \A c \in registry : c # NoCollector
      BY CollectorsDiffer, Zenon DEF Measured, Counted
    <3> QED
      BY <1>2, <1>5, <2>1, <2>2, <3>1, Zenon DEF Orderly, Stats!Known
  <2> QED
    BY <1>2, <2>1, <2>2, <2>3, <2>4, CollectorsDiffer, Zenon DEF Orderly, Stats!Known
<1> QED
  BY <1>4, <1>6, <1>7, <1>8, Zenon DEF Measured

\* Declare is let past the look into s.collectors, or it is answered with false.
LEMMA DeclareMeasured == ASSUME Measured, NEW d \in Declarer, Stats!Declare(d) PROVE Measured'
<1>n. PICK n \in Metric : n = call[d].metric
  BY Zenon DEF Measured, Counted
<1>0. call[d] = [at |-> call[d].at, metric |-> n, type |-> call[d].type] /\ n \in Metric /\ Counted
  BY <1>n, Zenon DEF Measured, Counted
<1>1. PICK a \in {"false", "build"}, t \in Stats!Types :
        /\ call' = [call EXCEPT ![d] = [at |-> a, metric |-> n, type |-> t]]
        /\ a = "build" => ~Stats!Known(n)
  <2>1. PICK t \in Stats!Types :
          call' = [call EXCEPT ![d].at = IF Stats!Known(n) THEN "false" ELSE "build", ![d].type = t]
    BY <1>n, Zenon DEF Stats!Declare
  <2>2. PICK a \in {"false", "build"} : a = IF Stats!Known(n) THEN "false" ELSE "build"
    BY Zenon
  <2>3. call' = [call EXCEPT ![d] = [[call[d] EXCEPT !.at = a] EXCEPT !.type = t]]
    BY <1>n, <2>1, <2>2, Zenon DEF Measured, Counted
  <2>4. [[call[d] EXCEPT !.at = a] EXCEPT !.type = t] = [at |-> a, metric |-> n, type |-> t]
    <3>1. [call[d] EXCEPT !.at = a] = [at |-> a, metric |-> n, type |-> call[d].type]
      BY <1>n, <1>0
    <3>2. [[at |-> a, metric |-> n, type |-> call[d].type] EXCEPT !.type = t] = [at |-> a, metric |-> n, type |-> t]
      OBVIOUS
    <3> QED
      BY <3>1, <3>2, Zenon
  <2> QED
    BY <1>n, <2>2, <2>3, <2>4, Zenon
<1>2. /\ UNCHANGED <<serve, collectors, registry, value, acked, collect, full>> /\ call[d].at = "idle"
      /\ spoiled \subseteq spoiled' /\ (Stats!Busy(n) => n \in spoiled')
  BY <1>n, Zenon DEF Stats!Declare
<1>3. /\ call' \in [Declarer -> [at : {"idle", "build", "register", "true", "false", "error"},
                                 metric : Metric, type : Stats!Types]]
      /\ call'[d].at = a /\ \A e \in Declarer : call'[e].metric = call[e].metric /\ (e # d => call'[e] = call[e])
      /\ \A c : Stats!NameOf(c)' = Stats!NameOf(c)
  BY <1>n, <1>0, <1>1, CallMoves, Zenon
<1>4. Counted'
  BY <1>n, <1>2, <1>3, Zenon DEF Measured, Counted
<1>5. Stored'
  BY <1>n, <1>2, <1>3 DEF Measured, Stored, Stats!Known
<1>6. ASSUME NEW m \in Metric \ spoiled' PROVE Orderly(m)'
  <2>1. Orderly(m)
    BY <1>n, <1>2, <1>6, Zenon DEF Measured
  <2>2. CASE m # n
    <3>1. \A e \in Declarer : Declaring(e, m)' => Declaring(e, m) /\ call'[e].at = call[e].at
      BY <1>n, <1>3, <2>2, Zenon DEF Declaring
    <3>2. \A e \in Declarer : Declaring(e, m) => Declaring(e, m)' /\ call'[e].at = call[e].at
      BY <1>n, <1>3, <2>2, ZenonT(60) DEF Declaring
    <3> QED
      BY <1>n, <1>2, <1>3, <2>1, <3>1, <3>2 DEF Orderly, Stats!Known
  <2>3. CASE m = n
    <3>1. \A e \in Declarer : ~Declaring(e, n) /\ serve.got # {n}
      BY <1>n, <1>2, <1>6, <2>3, Zenon DEF Stats!Busy, Declaring
    <3>2. \A e \in Declarer : Declaring(e, n)' => e = d /\ call'[d].at = "build" /\ ~Stats!Known(n)
      BY <1>n, <1>1, <1>3, <3>1, Zenon DEF Declaring
    <3> QED
      BY <1>n, <1>2, <1>3, <2>1, <2>3, <3>1, <3>2 DEF Orderly, Stats!Known
  <2> QED
    BY <1>n, <2>2, <2>3, Zenon
<1> QED
  BY <1>n, <1>4, <1>5, <1>6, Zenon DEF Measured

\* A collector that cannot be made.
LEMMA BuildFailsMeasured == ASSUME Measured, NEW d \in Declarer, Stats!BuildFails(d) PROVE Measured'
<1>n. PICK n \in Metric : n = call[d].metric
  BY Zenon DEF Measured, Counted
<1>0. call[d] = [at |-> call[d].at, metric |-> n, type |-> call[d].type] /\ n \in Metric /\ Counted
      /\ call[d].type \in Stats!Types
  BY <1>n, Zenon DEF Measured, Counted
<1>1. PICK a \in {"error", "false"} : call' = [call EXCEPT ![d] = [at |-> a, metric |-> n, type |-> call[d].type]]
  <2>1. PICK a \in {"error", "false"} : call' = [call EXCEPT ![d] = [call[d] EXCEPT !.at = a]]
    BY <1>n, Zenon DEF Stats!BuildFails
  <2>2. [call[d] EXCEPT !.at = a] = [at |-> a, metric |-> n, type |-> call[d].type]
    BY <1>n, <1>0
  <2> QED
    BY <1>n, <2>1, <2>2, Zenon
<1>2. UNCHANGED <<serve, collectors, registry, value, acked, spoiled, collect, full>> /\ call[d].at = "build"
  BY <1>n, Zenon DEF Stats!BuildFails
<1>3. /\ call' \in [Declarer -> [at : {"idle", "build", "register", "true", "false", "error"},
                                 metric : Metric, type : Stats!Types]]
      /\ call'[d].at = a /\ \A e \in Declarer : call'[e].metric = call[e].metric /\ (e # d => call'[e] = call[e])
      /\ \A c : Stats!NameOf(c)' = Stats!NameOf(c)
  BY <1>n, <1>0, <1>1, CallMoves, Zenon
<1>4. Counted'
  BY <1>n, <1>2, <1>3, Zenon DEF Measured, Counted
<1>5. Stored'
  BY <1>n, <1>2, <1>3 DEF Measured, Stored, Stats!Known
<1>6. ASSUME NEW m \in Metric \ spoiled' PROVE Orderly(m)'
  <2>1. Orderly(m)
    BY <1>n, <1>2, <1>6, Zenon DEF Measured
  <2>2. \A e \in Declarer : Declaring(e, m)' => Declaring(e, m) /\ call'[e].at = call[e].at
    BY <1>n, <1>3, Zenon DEF Declaring
  <2>3. \A e \in Declarer : Declaring(e, m) /\ e # d => Declaring(e, m)' /\ call'[e].at = call[e].at
    BY <1>n, <1>3, Zenon DEF Declaring
  <2> QED
    BY <1>n, <1>2, <1>3, <2>1, <2>2, <2>3 DEF Orderly, Stats!Known
<1> QED
  BY <1>n, <1>4, <1>5, <1>6, Zenon DEF Measured

\* Declare stores its collector.
LEMMA BuildMeasured == ASSUME Measured, NEW d \in Declarer, Stats!Build(d) PROVE Measured'
<1>n. PICK n \in Metric : n = call[d].metric
  BY Zenon DEF Measured, Counted
<1>0. /\ call[d] = [at |-> call[d].at, metric |-> n, type |-> call[d].type] /\ n \in Metric /\ Counted
      /\ call[d].type \in Stats!Types
  BY <1>n, Zenon DEF Measured, Counted
<1>1. call' = [call EXCEPT ![d] = [at |-> "register", metric |-> n, type |-> call[d].type]]
  <2>1. call' = [call EXCEPT ![d] = [call[d] EXCEPT !.at = "register"]]
    BY <1>n, Zenon DEF Stats!Build
  <2>2. [call[d] EXCEPT !.at = "register"] = [at |-> "register", metric |-> n, type |-> call[d].type]
    BY <1>n, <1>0
  <2> QED
    BY <1>n, <2>1, <2>2, Zenon
<1>2. /\ UNCHANGED <<serve, registry, value, acked, spoiled, collect, full>> /\ call[d].at = "build"
      /\ collectors' = [collectors EXCEPT ![n] = d]
  BY <1>n, Zenon DEF Stats!Build
<1>3. /\ call' \in [Declarer -> [at : {"idle", "build", "register", "true", "false", "error"},
                                 metric : Metric, type : Stats!Types]]
      /\ call'[d].at = "register"
      /\ \A e \in Declarer : call'[e].metric = call[e].metric /\ (e # d => call'[e] = call[e])
      /\ \A c : Stats!NameOf(c)' = Stats!NameOf(c)
  BY <1>n, <1>0, <1>1, CallMoves, Zenon
<1>4. \A m \in Metric : collectors'[m] = IF m = n THEN d ELSE collectors[m]
  BY <1>n, <1>2, Zenon DEF Measured, Counted
<1>5. Counted'
  BY <1>n, <1>0, <1>2, <1>3, CollectorsDiffer, Zenon DEF Measured, Counted
<1>6. Stored'
  <2>1. \A m \in Metric : Stats!Known(m)' => Stats!NameOf(collectors[m])' = m
    <3>1. ASSUME NEW m \in Metric, collectors'[m] # NoCollector PROVE Stats!NameOf(collectors'[m]) = m
      BY <1>n, <1>4, <3>1, CollectorsDiffer, Zenon DEF Measured, Stored, Stats!Known
    <3>2. \A m \in Metric : Stats!NameOf(collectors[m])' = Stats!NameOf(collectors'[m])
      BY <1>n, <1>3, Zenon DEF Stats!NameOf
    <3> QED
      BY <1>n, <3>1, <3>2, Zenon DEF Stats!Known
  <2>2. \A e \in Declarer : call'[e].at \in {"idle", "build"} => value'[e] = 0 /\ \A m \in Metric : collectors'[m] # e
    <3>1. ASSUME NEW e \in Declarer, call'[e].at \in {"idle", "build"}
          PROVE  e # d /\ value[e] = 0 /\ \A m \in Metric : collectors[m] # e
      BY <1>3, <3>1, Zenon DEF Measured, Stored
    <3> QED
      BY <1>2, <1>4, <3>1
  <2>3. \A m \in Metric : <<m>> \notin registry \/ serve.got = {m} => value[<<m>>] = 0 /\ collectors'[m] # <<m>>
    BY <1>n, <1>4, CollectorsDiffer DEF Measured, Stored
  <2>4. \A e \in Declarer : call'[e].at = "true" => e \in registry'
    BY <1>n, <1>2, <1>3, ZenonT(60) DEF Measured, Stored
  <2> QED
    BY <1>n, <1>2, <1>3, <2>1, <2>2, <2>3, <2>4 DEF Measured, Stored
<1>7. ASSUME NEW m \in Metric \ spoiled', m # n PROVE Orderly(m)'
  <2>1. Orderly(m) /\ collectors'[m] = collectors[m]
    BY <1>n, <1>2, <1>4, <1>7, Zenon DEF Measured
  <2>2. \A e \in Declarer : Declaring(e, m)' => Declaring(e, m) /\ call'[e].at = call[e].at
    BY <1>n, <1>3, <1>7, Zenon DEF Declaring
  <2>3. \A e \in Declarer : Declaring(e, m) => Declaring(e, m)' /\ call'[e].at = call[e].at
    BY <1>n, <1>3, <1>7, Zenon DEF Declaring
  <2> QED
    BY <1>n, <1>2, <1>3, <2>1, <2>2, <2>3 DEF Orderly, Stats!Known
<1>8. ASSUME n \notin spoiled' PROVE Orderly(n)'
  <2>1. Orderly(n) /\ collectors'[n] = d /\ value[d] = 0 /\ Declaring(d, n)
    BY <1>n, <1>0, <1>2, <1>4, <1>8, Zenon DEF Measured, Stored, Declaring
  <2>2. ~Stats!Known(n) /\ acked[n] = 0 /\ serve.got # {n} /\ \A e \in Declarer : Declaring(e, n) => e = d
    BY <1>n, <1>2, <2>1, Zenon DEF Orderly
  <2>3. \A c \in registry : Stats!NameOf(c) # n
    <3>1. \A c \in registry : c # NoCollector
      BY <1>n, CollectorsDiffer DEF Measured, Counted
    <3> QED
      BY <1>n, <2>1, <2>2, <3>1, Zenon DEF Orderly, Stats!Known
  <2>4. \A e \in Declarer : Declaring(e, n)' => e = d
    BY <1>n, <1>3, <2>2, Zenon DEF Declaring
  <2>5. Declaring(d, n)'
    BY <1>n, <1>3, Zenon DEF Declaring
  <2>6. Stats!Known(n)' /\ \A c \in registry' : Stats!NameOf(c)' # n
    BY <1>n, <1>2, <1>3, <2>1, <2>3, CollectorsDiffer, Zenon DEF Stats!Known
  <2> QED
    BY <1>n, <1>2, <1>3, <2>1, <2>2, <2>4, <2>5, <2>6, Zenon DEF Orderly
<1> QED
  BY <1>n, <1>5, <1>6, <1>7, <1>8, Zenon DEF Measured

\* MustRegister.
LEMMA MustRegisterMeasured == ASSUME Measured, NEW d \in Declarer, Stats!Register(d) PROVE Measured'
<1>n. PICK n \in Metric : n = call[d].metric
  BY Zenon DEF Measured, Counted
<1>0. /\ call[d] = [at |-> call[d].at, metric |-> n, type |-> call[d].type] /\ n \in Metric /\ Counted
      /\ call[d].type \in Stats!Types /\ Stats!NameOf(d) = n
  BY <1>n, CollectorsDiffer, Zenon DEF Measured, Counted
<1>1. PICK a \in {"true", "error"} :
        /\ call' = [call EXCEPT ![d] = [at |-> a, metric |-> n, type |-> call[d].type]]
        /\ a = "true" => ~Stats!Taken(d) /\ registry' = registry \cup {d} /\ spoiled' = spoiled
        /\ a = "error" => registry' = registry /\ n \in spoiled'
  <2>1. PICK a \in {"true", "error"} :
          /\ call' = [call EXCEPT ![d] = [call[d] EXCEPT !.at = a]]
          /\ a = "true" => ~Stats!Taken(d) /\ registry' = registry \cup {d} /\ spoiled' = spoiled
          /\ a = "error" => registry' = registry /\ n \in spoiled'
    BY <1>n, Zenon DEF Stats!Register
  <2>2. [call[d] EXCEPT !.at = a] = [at |-> a, metric |-> n, type |-> call[d].type]
    BY <1>n, <1>0
  <2> QED
    BY <1>n, <2>1, <2>2, Zenon
<1>2. /\ UNCHANGED <<serve, collectors, value, acked, collect, full>> /\ call[d].at = "register"
      /\ spoiled \subseteq spoiled' /\ registry \subseteq registry' /\ registry' \subseteq registry \cup {d}
  BY <1>n, Zenon DEF Stats!Register
<1>3. /\ call' \in [Declarer -> [at : {"idle", "build", "register", "true", "false", "error"},
                                 metric : Metric, type : Stats!Types]]
      /\ call'[d].at = a /\ \A e \in Declarer : call'[e].metric = call[e].metric /\ (e # d => call'[e] = call[e])
      /\ \A c : Stats!NameOf(c)' = Stats!NameOf(c)
  BY <1>n, <1>0, <1>1, CallMoves, Zenon
<1>4. Counted'
  BY <1>n, <1>2, <1>3, CollectorsDiffer, Zenon DEF Measured, Counted
<1>5. Stored'
  <2>1. \A b, c \in registry' : full'[b] = full'[c] => b = c
    <3>1. \A b, c \in registry : full[b] = full[c] => b = c
      BY Zenon DEF Measured, Stored
    <3>2. a = "true" => \A c \in registry : full[c] # full[d]
      BY <1>1, Zenon DEF Stats!Taken
    <3> QED
      BY <1>1, <1>2, <3>1, <3>2, Zenon
  <2>2. \A e \in Declarer : /\ call'[e].at = "true" => e \in registry'
                            /\ call'[e].at \in {"idle", "build"} =>
                                 value'[e] = 0 /\ \A m \in Metric : collectors'[m] # e
    <3>1. ASSUME NEW e \in Declarer, e # d
          PROVE  /\ call'[e].at = "true" => e \in registry
                 /\ call'[e].at \in {"idle", "build"} => value[e] = 0 /\ \A m \in Metric : collectors[m] # e
      BY <1>3, <3>1, Zenon DEF Measured, Stored
    <3> QED
      BY <1>1, <1>2, <1>3, <3>1
  <2>3. \A m \in Metric : <<m>> \notin registry' => <<m>> \notin registry
    BY <1>n, <1>2, Zenon
  <2>4. \A m \in Metric : serve.got = {m} => <<m>> \in registry'
    BY <1>n, <1>2, ZenonT(60) DEF Measured, Stored
  <2> QED
    BY <1>n, <1>2, <1>3, <2>1, <2>2, <2>3, <2>4, Zenon DEF Measured, Stored, Stats!Known
<1>6. ASSUME NEW m \in Metric \ spoiled', m # n PROVE Orderly(m)'
  <2>1. Orderly(m)
    BY <1>n, <1>2, <1>6, Zenon DEF Measured
  <2>2. \A e \in Declarer : Declaring(e, m)' => Declaring(e, m) /\ call'[e].at = call[e].at
    BY <1>n, <1>3, <1>6, Zenon DEF Declaring
  <2>3. \A e \in Declarer : Declaring(e, m) => Declaring(e, m)' /\ call'[e].at = call[e].at
    BY <1>n, <1>3, <1>6, Zenon DEF Declaring
  <2>4. \A c \in registry' : Stats!NameOf(c)' = m => c \in registry
    BY <1>n, <1>0, <1>2, <1>3, <1>6, Zenon
  <2> QED
    BY <1>n, <1>2, <1>3, <2>1, <2>2, <2>3, <2>4 DEF Orderly, Stats!Known
<1>7. ASSUME n \notin spoiled' PROVE Orderly(n)'
  <2>1. Orderly(n) /\ Declaring(d, n)
    BY <1>n, <1>0, <1>2, <1>7, Zenon DEF Measured, Declaring
  <2>2. /\ collectors[n] = d /\ serve.got # {n} /\ \A e \in Declarer : Declaring(e, n) => e = d
    BY <1>n, <1>2, <2>1, Zenon DEF Orderly
  <2>3. registry' = registry \cup {d} /\ a = "true"
    BY <1>n, <1>1, <1>7, <2>2, Zenon
  <2>4. \A e \in Declarer : ~Declaring(e, n)'
    BY <1>n, <1>3, <2>2, <2>3, Zenon DEF Declaring
  <2>5. \A c \in registry' : Stats!NameOf(c)' = n => c = d
    BY <1>n, <1>3, <2>1, <2>2, <2>3, Zenon DEF Orderly
  <2>6. Stats!Known(n) /\ value[d] = acked[n]
    <3>1. Stats!Known(n)
      BY <2>2, CollectorsDiffer, Zenon DEF Stats!Known
    <3> QED
      BY <2>1, <2>2, <3>1, OrderlyValue, Zenon
  <2> QED
    BY <1>n, <1>2, <2>2, <2>3, <2>4, <2>5, <2>6, Zenon DEF Orderly, Stats!Known
<1> QED
  BY <1>n, <1>4, <1>5, <1>6, <1>7, Zenon DEF Measured

\* An operation on a metric reaches the collector that is stored under its name.
LEMMA OperatesMeasured ==
  ASSUME Measured, NEW n \in Metric, NEW v, Stats!Known(n), Stats!Operates(n, collectors[n], v)
  PROVE  Measured'
<1> DEFINE c == collectors[n]
<1>1. /\ UNCHANGED <<collect, full, serve, call, collectors, registry, spoiled>> /\ v \in Int
      /\ value' = [value EXCEPT ![c] = v] /\ acked' = [acked EXCEPT ![n] = acked[n] + (v - value[c])]
  BY DEF Stats!Operates
<1>2. c \in Stats!Collector /\ Stats!NameOf(c) = n /\ value[c] \in Int /\ acked[n] \in Int
  BY ZenonT(60) DEF Measured, Counted, Stored, Stats!Known
<1>3. /\ \A b \in Stats!Collector : value'[b] = IF b = c THEN v ELSE value[b]
      /\ \A m \in Metric : acked'[m] = IF m = n THEN acked[n] + (v - value[c]) ELSE acked[m]
  BY <1>1, <1>2, Zenon DEF Measured, Counted
<1>4. Counted'
  BY <1>1, <1>2 DEF Measured, Counted
<1>5. \A b : Stats!NameOf(b)' = Stats!NameOf(b)
  BY <1>1, Zenon DEF Stats!NameOf
<1>6. Stored'
  <2>1. \A d \in Declarer : call'[d].at \in {"idle", "build"} => value'[d] = 0 /\ \A m \in Metric : collectors'[m] # d
    BY <1>1, <1>3, CollectorsDiffer DEF Measured, Stored
  <2>2. \A m \in Metric : <<m>> \notin registry' \/ serve'.got = {m} => value'[<<m>>] = 0 /\ collectors'[m] # <<m>>
    BY <1>1, <1>2, <1>3, CollectorsDiffer DEF Measured, Stored
  <2> QED
    BY <1>1, <1>5, <2>1, <2>2, Zenon DEF Measured, Stored, Stats!Known
<1>7. ASSUME NEW m \in Metric \ spoiled' PROVE Orderly(m)'
  <2>1. Orderly(m)
    BY <1>1, <1>7, Zenon DEF Measured
  <2>2. Stats!Known(m) => value'[collectors[m]] = acked'[m]
    <3>1. CASE m = n
      <4>1. value[c] = acked[n] /\ value'[c] = v /\ acked'[n] = acked[n] + (v - value[c])
        BY <1>2, <1>3, <2>1, <3>1, OrderlyValue, Zenon
      <4> QED
        BY <1>1, <1>2, <3>1, <4>1
    <3>2. CASE m # n /\ Stats!Known(m)
      <4>1. collectors[m] \in Stats!Collector /\ collectors[m] # c
        BY <1>2, <3>2, ZenonT(60) DEF Measured, Counted, Stored, Stats!Known
      <4> QED
        BY <1>3, <2>1, <3>2, <4>1, OrderlyValue, Zenon
    <3> QED
      BY <3>1, <3>2, Zenon
  <2>3. ~Stats!Known(m) => acked'[m] = 0
    BY <1>3, <2>1, Zenon DEF Orderly
  <2> QED
    BY <1>1, <1>5, <2>1, <2>2, <2>3, Zenon DEF Orderly, Declaring, Stats!Known
<1> QED
  BY <1>4, <1>6, <1>7, Zenon DEF Measured

\* At most one call of Declare is told that it declared a full name, and at most one for a name that is not spoiled.
LEMMA MeasuredDeclaredOnce == ASSUME Measured PROVE Stats!DeclaredOnce
<1> SUFFICES ASSUME NEW d \in Declarer, call[d].at = "true"
             PROVE  /\ \A c \in registry : full[c] = full[d] => c = d
                    /\ call[d].metric \notin spoiled =>
                         /\ <<call[d].metric>> \notin registry
                         /\ \A e \in Declarer : call[e].at = "true" /\ call[e].metric = call[d].metric => e = d
  BY Zenon DEF Stats!DeclaredOnce
<1>1. d \in registry /\ \A c \in registry : full[c] = full[d] => c = d
  BY Zenon DEF Measured, Stored
<1>2. PICK m \in Metric : m = call[d].metric
  BY Zenon DEF Measured, Counted
<1>3. ASSUME m \notin spoiled, NEW c \in registry, Stats!NameOf(c) = m PROVE c = d
  <2>1. Orderly(m)
    BY <1>3, Zenon DEF Measured
  <2>2. collectors[m] = d /\ Stats!Known(m) /\ serve.got # {m}
    BY <1>1, <1>2, <2>1, CollectorsDiffer, Zenon DEF Orderly, Stats!Known
  <2> QED
    BY <1>3, <2>1, <2>2, Zenon DEF Orderly
<1>4. ASSUME m \notin spoiled PROVE <<m>> \notin registry
  BY <1>3, <1>4, CollectorsDiffer, Zenon
<1>5. ASSUME m \notin spoiled, NEW e \in Declarer, call[e].at = "true", call[e].metric = m PROVE e = d
  <2>1. e \in registry /\ Stats!NameOf(e) = m
    BY <1>5, CollectorsDiffer, Zenon DEF Measured, Stored
  <2> QED
    BY <1>3, <1>5, <2>1, Zenon
<1> QED
  BY <1>1, <1>2, <1>4, <1>5, Zenon

\* A metric is exported with every operation that was acknowledged, and one declaration of it is acknowledged at most,
\* unless its name is spoiled: for any number of metrics, full names and calls (Declare, Serve, Add, Sub, Set, Observe).
THEOREM AcknowledgedIsExported == Stats!Spec => []AckedIsExported
<1>1. Stats!Init => Measured
  <2> SUFFICES ASSUME Stats!Init PROVE Measured
    BY Zenon
  <2>1. Counted
    BY DEF Stats!Init, Counted, Stats!Types
  <2>2. Stored
    BY CollectorsDiffer, Zenon DEF Stats!Init, Stored, Stats!Known
  <2>3. ASSUME NEW m \in Metric PROVE Orderly(m)
    BY Zenon DEF Stats!Init, Orderly, Declaring, Stats!Known
  <2> QED
    BY <2>1, <2>2, <2>3, Zenon DEF Measured
<1>2. Measured /\ [Stats!Next]_(Stats!mvars) => Measured'
  <2> SUFFICES ASSUME Measured, [Stats!Next]_(Stats!mvars) PROVE Measured'
    BY Zenon
  <2>1. CASE Stats!Next
    <3>1. CASE Stats!getCollectors \/ Stats!ServeListen \/ \E m \in Metric : Stats!ServeRegister(m)
      BY <3>1, ServeMeasured, RegisterMeasured, Zenon
    <3>2. CASE Stats!ServeStore
      BY <3>2, StoreMeasured, Zenon
    <3>3. CASE \E d \in Declarer : Stats!Declare(d) \/ Stats!BuildFails(d) \/ Stats!Build(d) \/ Stats!Register(d)
      BY <3>3, DeclareMeasured, BuildFailsMeasured, BuildMeasured, MustRegisterMeasured, Zenon
    <3>4. CASE \E m \in Metric : \/ Stats!Observe(m)
                                 \/ \E k \in {-1, 1} : Stats!Add(m, k) \/ Stats!Sub(m, k) \/ Stats!Set(m, k)
      BY <3>4, OperatesMeasured, Zenon DEF Stats!Observe, Stats!Add, Stats!Sub, Stats!Set
    <3> QED
      BY <2>1, <3>1, <3>2, <3>3, <3>4, Zenon DEF Stats!Next
  <2>2. CASE UNCHANGED Stats!mvars
    <3>1. UNCHANGED <<serve, call, collect, full, collectors, registry, value, acked, spoiled>>
      BY <2>2, Zenon DEF Stats!mvars
    <3>2. \A c : Stats!NameOf(c)' = Stats!NameOf(c)
      BY <3>1, Zenon DEF Stats!NameOf
    <3>3. Counted' /\ Stored'
      BY <3>1, <3>2, ZenonT(60) DEF Measured, Counted, Stored, Stats!Known
    <3>4. ASSUME NEW m \in Metric \ spoiled' PROVE Orderly(m)'
      BY <3>1, <3>2, <3>4 DEF Measured, Orderly, Declaring, Stats!Known
    <3> QED
      BY <3>3, <3>4, Zenon DEF Measured
  <2> QED
    BY <2>1, <2>2, Zenon
<1>3. Measured => AckedIsExported
  <2> SUFFICES ASSUME Measured PROVE AckedIsExported
    BY Zenon
  <2>1. Stats!DeclaredOnce
    BY MeasuredDeclaredOnce, Zenon
  <2>2. Stats!ExportedIsAcked
    <3>1. ASSUME NEW m \in Metric \ spoiled, Stats!Known(m), ~Stats!Busy(m)
          PROVE  collectors[m] \in registry /\ value[collectors[m]] = acked[m]
      BY <3>1, Zenon DEF Measured, Orderly, Declaring, Stats!Busy
    <3> QED
      BY <3>1, Zenon DEF Stats!ExportedIsAcked
  <2> QED
    BY <2>1, <2>2, Zenon DEF AckedIsExported, Stats!AckedIsExported
<1> QED
  BY <1>1, <1>2, <1>3, PTL DEF Stats!Spec

-----------------------------------------------------------------------------
(* Reload *)

\* What a poll has read, and what the watcher has noted, the files have had.
Seen(read) == DOMAIN read \subseteq Keys /\ (Recursive => \A k \in DOMAIN read : read[k] \in Nat /\ read[k] <= fs[k])

\* A poll, and what it has read.
Polling ==
  /\ poll = [p \in Poll |-> [at |-> poll[p].at, list |-> poll[p].list, left |-> poll[p].left]]
  /\ \A p \in Poll : Seen(poll[p].list) /\ poll[p].left \in Nat

\* An edit makes a newer version, and workers are started with a version there has been.
Versioned ==
  /\ edits \in Nat /\ fs \in [File -> Nat] /\ (\A f \in File : fs[f] <= edits)
  /\ loaded \in [File -> Nat] /\ missed \in [File -> Nat]
  /\ Seen(files)

\* An event is on its way that a Reset which is running has not been for.
Ahead ==
  \/ \E p \in Poll : poll[p].at = "send" /\ poll[p].left > 0
  \/ fwd \/ queue > 0

\* The workers were started with what the watcher has noted, or with something newer, or a Reset that came later failed.
NotedLoaded == \A k \in DOMAIN files : Recursive => files[k] <= loaded[k] \/ files[k] <= missed[k]

\* Nothing that was noted is lost: also what is noted while a Reset is running has an event that comes after it.
Announced ==
  /\ queue \in Nat /\ fwd \in BOOLEAN /\ updated \in BOOLEAN
  /\ drain \/ Ahead \/ NotedLoaded \/ (updated /\ pump # "reset")

\* The watcher, its polls and the goroutine that resets.
Noted == Polling /\ Versioned /\ Announced

\* The keys of a recursive watcher are files (retrieveFilesRecursive).
LEMMA KeysAreFiles == Recursive => Keys \subseteq File
BY Zenon DEF Keys, Key

\* A list that is retrieved holds what the files are.
LEMMA RetrievedIsSeen == ASSUME Versioned PROVE Seen(retrieveFileList) /\ Seen(NoList)
<1>1. Seen(NoList)
  BY Zenon DEF Seen, NoList
<1>2. DOMAIN retrieveFileList = Keys /\ \A k \in Keys : Recursive => retrieveFileList[k] = fs[k]
  BY Zenon DEF retrieveFileList
<1>3. ASSUME Recursive, NEW k \in Keys PROVE retrieveFileList[k] \in Nat /\ retrieveFileList[k] <= fs[k]
  <2>1. fs[k] \in Nat
    BY <1>3, KeysAreFiles, Zenon DEF Versioned
  <2> QED
    BY <1>2, <1>3, <2>1
<1>4. Seen(retrieveFileList)
  BY <1>2, <1>3, Zenon DEF Seen
<1> QED
  BY <1>1, <1>4, Zenon

\* What a poll does to itself leaves the others alone.
LEMMA PollMoves ==
  ASSUME Polling, NEW p \in Poll, NEW a, NEW l, NEW n \in Nat, Seen(l), fs' = fs,
         poll' = [poll EXCEPT ![p] = [at |-> a, list |-> l, left |-> n]]
  PROVE  /\ Polling' /\ poll'[p].at = a /\ poll'[p].left = n
         /\ \A q \in Poll : q # p => poll'[q] = poll[q]
<1>1. DOMAIN poll = Poll
  BY Zenon DEF Polling
<1>2. \A q \in Poll : poll'[q] = IF q = p THEN [at |-> a, list |-> l, left |-> n] ELSE poll[q]
  BY <1>1, Zenon
<1>3. poll' = [q \in Poll |-> [at |-> poll'[q].at, list |-> poll'[q].list, left |-> poll'[q].left]]
  <2>1. \A q \in Poll : poll'[q] = [at |-> poll'[q].at, list |-> poll'[q].list, left |-> poll'[q].left]
    BY <1>2, Zenon DEF Polling
  <2>2. poll' = [q \in Poll |-> poll'[q]]
    BY <1>1, Zenon
  <2> QED
    BY <2>1, <2>2, Zenon
<1>4. \A q \in Poll : Seen(poll[q].list)' /\ poll'[q].left \in Nat
  BY <1>2, Zenon DEF Polling, Seen
<1> QED
  BY <1>2, <1>3, <1>4, Zenon DEF Polling

\* An edit of a file.
LEMMA EditNoted == ASSUME Noted, NEW f \in File, Edit(f) PROVE Noted'
<1>1. /\ fs' = [fs EXCEPT ![f] = edits + 1] /\ edits' = edits + 1
      /\ UNCHANGED <<files, poll, fwd, queue, pump, updated, loaded, missed, drain>>
  BY Zenon DEF Edit, pumpVars, stopVars
<1>2. fs' \in [File -> Nat] /\ \A g \in File : fs[g] <= fs'[g] /\ fs'[g] <= edits'
  BY <1>1 DEF Noted, Versioned
<1>3. ASSUME NEW l, Seen(l)
      PROVE  DOMAIN l \subseteq Keys /\ (Recursive => \A k \in DOMAIN l : l[k] \in Nat /\ l[k] <= fs'[k])
  BY <1>2, <1>3, KeysAreFiles DEF Seen, Noted, Versioned
<1>4. Polling'
  BY <1>1, <1>3, Zenon DEF Noted, Polling, Seen
<1>5. Versioned'
  BY <1>1, <1>2, <1>3, Zenon DEF Noted, Versioned, Seen
<1>6. Announced'
  BY <1>1, Zenon DEF Noted, Announced, Ahead, NotedLoaded
<1> QED
  BY <1>4, <1>5, <1>6, Zenon DEF Noted

\* A poll: what it notes it also announces.
LEMMA PollNoted ==
  ASSUME Noted, NEW p \in Poll, StartPoll(p) \/ Retrieve(p) \/ Apply(p) \/ Send(p) \/ EndPoll(p)
  PROVE  Noted'
<1>0. /\ poll[p] = [at |-> poll[p].at, list |-> poll[p].list, left |-> poll[p].left] /\ DOMAIN poll = Poll
      /\ Seen(poll[p].list) /\ poll[p].left \in Nat /\ Polling /\ Versioned
  BY Zenon DEF Noted, Polling
<1>1. UNCHANGED <<fs, edits, queue, pump, updated, loaded, missed, drain>>
  BY Zenon DEF StartPoll, Retrieve, Apply, Send, EndPoll, fileVars, pumpVars, stopVars
<1>2. CASE StartPoll(p) \/ Retrieve(p) \/ EndPoll(p)
  <2>1. /\ UNCHANGED <<files, fwd>>
        /\ poll[p].at = "send" => poll[p].left = 0
    BY <1>2, Zenon DEF StartPoll, Retrieve, EndPoll
  <2>2. \E a, l : \E n \in Nat : /\ Seen(l) /\ poll' = [poll EXCEPT ![p] = [at |-> a, list |-> l, left |-> n]]
    <3>1. CASE StartPoll(p)
      <4>1. poll' = [poll EXCEPT ![p] = [poll[p] EXCEPT !.at = "retrieve"]]
        BY <3>1, Zenon DEF StartPoll
      <4>2. [poll[p] EXCEPT !.at = "retrieve"] = [at |-> "retrieve", list |-> poll[p].list, left |-> poll[p].left]
        BY <1>0
      <4> QED
        BY <1>0, <4>1, <4>2, Zenon
    <3>2. CASE Retrieve(p)
      <4>1. \E l \in {retrieveFileList, NoList} :
              poll' = [poll EXCEPT ![p] = [at |-> "apply", list |-> l, left |-> poll[p].left]]
        BY <1>0, <3>2, Zenon DEF Retrieve
      <4> QED
        BY <1>0, <4>1, RetrievedIsSeen, Zenon
    <3>3. CASE EndPoll(p)
      BY <1>0, <3>3, RetrievedIsSeen, Zenon DEF EndPoll, Idle
    <3> QED
      BY <1>2, <3>1, <3>2, <3>3, Zenon
  <2>3. Polling' /\ \A q \in Poll : q # p => poll'[q] = poll[q]
    BY <1>0, <1>1, <2>2, PollMoves, Zenon
  <2>4. Versioned'
    BY <1>1, <2>1, Zenon DEF Noted, Versioned, Seen
  <2>5. Ahead => Ahead'
    <3>1. ASSUME NEW q \in Poll, poll[q].at = "send", poll[q].left > 0
          PROVE  poll'[q] = poll[q]
      BY <2>1, <2>3, <3>1
    <3> QED
      BY <1>1, <2>1, <3>1, Zenon DEF Ahead
  <2>6. Announced'
    BY <1>1, <2>1, <2>5, Zenon DEF Noted, Announced, NotedLoaded
  <2> QED
    BY <2>3, <2>4, <2>6, Zenon DEF Noted
<1>3. CASE Apply(p)
  <2>1. PICK n \in Events(files, poll[p].list) :
               poll' = [poll EXCEPT ![p] = [at |-> "send", list |-> NoList, left |-> n]]
    BY <1>3, Zenon DEF Apply
  <2>2. files' = poll[p].list /\ fwd' = fwd /\ poll[p].at = "apply" /\ n \in Nat
    BY <1>3 DEF Apply, Events
  <2>3. /\ Polling' /\ poll'[p].at = "send" /\ poll'[p].left = n
        /\ \A q \in Poll : q # p => poll'[q] = poll[q]
    BY <1>0, <1>1, <2>1, <2>2, PollMoves, RetrievedIsSeen, Zenon
  <2>4. Versioned'
    BY <1>0, <1>1, <2>2, Zenon DEF Noted, Versioned, Seen
  <2>5. CASE Differing(files, poll[p].list) = {}
    <3>1. NotedLoaded => NotedLoaded'
      BY <1>1, <2>2, <2>5, Zenon DEF Differing, NotedLoaded
    <3>2. Ahead => Ahead'
      BY <1>1, <2>2, <2>3, Zenon DEF Ahead
    <3>3. Announced'
      BY <1>1, <2>2, <3>1, <3>2, Zenon DEF Noted, Announced
    <3> QED
      BY <2>3, <2>4, <3>3, Zenon DEF Noted
  <2>6. CASE Differing(files, poll[p].list) # {}
    <3>1. n > 0
      BY <2>6 DEF Events
    <3>2. Announced'
      BY <1>1, <2>2, <2>3, <3>1, Zenon DEF Noted, Announced, Ahead
    <3> QED
      BY <2>3, <2>4, <3>2, Zenon DEF Noted
  <2> QED
    BY <2>5, <2>6, Zenon
<1>4. CASE Send(p)
  <2>0. poll' = [poll EXCEPT ![p] = [poll[p] EXCEPT !.left = poll[p].left - 1]]
    BY <1>4, Zenon DEF Send
  <2>1. /\ files' = files /\ fwd' = TRUE /\ poll[p].left - 1 \in Nat
        /\ poll' = [poll EXCEPT ![p] = [at |-> poll[p].at, list |-> poll[p].list, left |-> poll[p].left - 1]]
    <3>1. [poll[p] EXCEPT !.left = poll[p].left - 1]
            = [at |-> poll[p].at, list |-> poll[p].list, left |-> poll[p].left - 1]
      BY <1>0
    <3>2. files' = files /\ fwd' = TRUE /\ poll[p].left - 1 \in Nat
      BY <1>0, <1>4 DEF Send
    <3> QED
      BY <2>0, <3>1, <3>2, Zenon
  <2>2. Polling'
    BY <1>0, <1>1, <2>1, PollMoves, Zenon
  <2>3. Versioned'
    BY <1>1, <2>1, Zenon DEF Noted, Versioned, Seen
  <2>4. Announced'
    BY <1>1, <2>1, Zenon DEF Noted, Announced, Ahead
  <2> QED
    BY <2>2, <2>3, <2>4, Zenon DEF Noted
<1> QED
  BY <1>2, <1>3, <1>4, Zenon

\* The goroutines of Serve, and Stop: an event is passed on, and a Reset loads what has been noted before it.
LEMMA ServeNoted ==
  ASSUME Noted,
         Forward \/ Collect \/ Ticks \/ Reset \/ ResetDone \/ StopCall \/ StopWatcher \/ StopPump \/ Drain
  PROVE  Noted'
<1> USE DEF fileVars, pumpVars, stopVars
<1>1. UNCHANGED <<fs, edits, files, poll>> /\ (loaded' = loaded \/ loaded' = fs) /\ (missed' = missed \/ missed' = fs)
  BY Zenon DEF Forward, Collect, Ticks, Reset, ResetDone, StopCall, StopWatcher, StopPump, Drain
<1>2. Polling' /\ Versioned'
  BY <1>1, Zenon DEF Noted, Polling, Versioned, Seen
<1>3. /\ queue \in Nat /\ fwd \in BOOLEAN /\ updated \in BOOLEAN
      /\ drain \/ Ahead \/ NotedLoaded \/ (updated /\ pump # "reset")
  BY Zenon DEF Noted, Announced
<1>4. Announced'
  <2>1. CASE Forward
    <3>1. fwd' = FALSE /\ updated' = updated /\ queue' \in Nat /\ queue' > 0
      BY <1>3, <2>1 DEF Forward
    <3> QED
      BY <1>3, <3>1, Zenon DEF Announced, Ahead
  <2>2. CASE Collect
    BY <1>1, <1>3, <2>2 DEF Collect, Announced
  <2>3. CASE Ticks \/ StopCall
    BY <1>1, <1>3, <2>3, Zenon DEF Ticks, StopCall, Announced, Ahead, NotedLoaded
  <2>4. CASE Reset
    <3>1. CASE updated
      <4>1. (loaded' = fs \/ missed' = fs) /\ UNCHANGED <<files, queue, fwd, updated>>
        BY <1>1, <2>4, <3>1, Zenon DEF Reset
      <4>2. NotedLoaded'
        BY <4>1, Zenon DEF NotedLoaded, Noted, Versioned, Seen
      <4> QED
        BY <1>3, <4>1, <4>2, Zenon DEF Announced
    <3>2. CASE ~updated
      BY <1>1, <1>3, <2>4, <3>2, Zenon DEF Reset, Announced, Ahead, NotedLoaded
    <3> QED
      BY <3>1, <3>2, Zenon
  <2>5. CASE ResetDone
    BY <1>1, <1>3, <2>5, Zenon DEF ResetDone, Announced, Ahead, NotedLoaded
  <2>6. CASE StopWatcher
    BY <1>1, <1>3, <2>6, Zenon DEF StopWatcher, Announced
  <2>7. CASE StopPump
    BY <1>1, <1>3, <2>7, Zenon DEF StopPump, Announced, Ahead, NotedLoaded
  <2>8. CASE Drain
    BY <1>1, <1>3, <2>8 DEF Drain, Announced
  <2> QED
    BY <2>1, <2>2, <2>3, <2>4, <2>5, <2>6, <2>7, <2>8, Zenon
<1> QED
  BY <1>2, <1>4, Zenon DEF Noted

\* What the watcher has noted is loaded, or announced, or a Reset for it has failed, whatever polls, debounced events and
\* Resets run at once: for any number of files, polls and edits (pollEvents, Serve).
THEOREM NotedChangesLoad == Spec => []NotedIsLoaded
<1>1. Init => Noted
  <2> SUFFICES ASSUME Init PROVE Noted
    BY Zenon
  <2>1. Versioned
    <3>1. edits \in Nat /\ fs \in [File -> Nat] /\ (\A f \in File : fs[f] <= edits) /\ loaded = fs /\ missed = fs
      BY DEF Init
    <3>2. Seen(files)
      BY <3>1, KeysAreFiles, Zenon DEF Init, Seen, retrieveFileList
    <3> QED
      BY <3>1, <3>2, Zenon DEF Versioned
  <2>2. Polling
    BY <2>1, RetrievedIsSeen, Zenon DEF Init, Polling, Idle
  <2>3. Announced
    <3>1. NotedLoaded
      BY KeysAreFiles DEF Init, NotedLoaded, retrieveFileList
    <3> QED
      BY <3>1, Zenon DEF Init, Announced
  <2> QED
    BY <2>1, <2>2, <2>3, Zenon DEF Noted
<1>2. Noted /\ [Next]_vars => Noted'
  <2> SUFFICES ASSUME Noted, [Next]_vars PROVE Noted'
    BY Zenon
  <2>1. CASE UNCHANGED vars
    BY <2>1, Zenon DEF vars, Noted, Polling, Versioned, Announced, Seen, Ahead, NotedLoaded
  <2> QED
    BY <2>1, EditNoted, PollNoted, ServeNoted, Zenon DEF Next
<1>3. Noted => NotedIsLoaded
  BY Zenon DEF Noted, Announced, Ahead, NotedLoaded, NotedIsLoaded, InFlight
<1> QED
  BY <1>1, <1>2, <1>3, PTL DEF Spec

-----------------------------------------------------------------------------
(* Http *)

\* Where ServeHTTP is before Open.
Early == {"arrive", "middleware", "size", "parse", "open"}

\* What Open leaves of an upload: a file that is being written is one of a request that waits for it.
Written(u) ==
  /\ up[u].at \in {"open", "copy"} => at = "payload" /\ u \in list
  /\ up[u].at = "copy" => u \in named
  /\ up[u].at = "end" /\ up[u].error = "ok" => u \in named

\* Temporary files and the goroutines of Open.
Filed ==
  /\ up \in [Uploads -> [at : {"idle", "open", "copy", "end"}, error : Request!Errors]]
  /\ list \subseteq Uploads /\ named \subseteq list /\ temp \subseteq named
  /\ at \in Request!Places
  /\ at \in Early => temp = {} /\ named = {} /\ \A u \in Uploads : up[u].at = "idle"
  /\ \A u \in Uploads : Written(u)
  /\ UploadsHandled

\* An event and the status that goes with it.
Told == status \in {"error", "php"} /\ nErr + nRsp > 0

\* What has been answered and thrown so far.
Reported ==
  /\ nErr \in Nat /\ nRsp \in Nat
  /\ at \in Early \cup {"payload", "exec", "decode", "write"} =>
       status = "none" /\ nErr = 0 /\ ~panicked /\ nRsp = IF at = "write" THEN 1 ELSE 0
  /\ at = "close" => panicked \/ Told
  /\ at = "done" => \/ panicked \/ Told
                    \/ status \in {"redirect", "preflight", "static"} /\ nErr + nRsp = 0

\* A step that leaves the uploads alone and does not go back.
LEMMA UploadsStay ==
  ASSUME Filed, UNCHANGED <<list, up, named, temp, stuck>>, at' \in Request!Places,
         at' \in Early => at \in Early,
         at = "payload" /\ at' # "payload" => Request!Opened,
         at' = "exec" => at \in {"payload", "exec"},
         at' = "done" => at \in Early \cup {"done"} \/ (at = "close" /\ Request!ToClear = {})
  PROVE  Filed'
<1>1. at' \in Early => temp' = {} /\ named' = {} /\ \A u \in Uploads : up'[u].at = "idle"
  BY Zenon DEF Filed
<1>2. ASSUME NEW u \in Uploads PROVE Written(u)'
  <2>1. up[u].at \in {"open", "copy"} => at' = "payload"
    BY Zenon DEF Filed, Written, Request!Opened
  <2> QED
    BY <2>1, Zenon DEF Filed, Written
<1>3. temp' \subseteq stuck' \/ at' # "done"
  BY Zenon DEF Filed, UploadsHandled, Request!UploadsHandled, Request!NoTempLeft, Request!ToClear
<1>4. at' = "exec" => \A u \in list' : up'[u].at = "end" /\ (up'[u].error = "ok" => u \in named')
  BY Zenon DEF Filed, Written, UploadsHandled, Request!UploadsHandled, Request!ExecSeesFiles, Request!Opened
<1>5. UploadsHandled'
  BY <1>3, <1>4, Zenon DEF UploadsHandled, Request!UploadsHandled, Request!NoTempLeft, Request!ExecSeesFiles
<1> QED
  BY <1>1, <1>2, <1>5, Zenon DEF Filed

\* The steps of ServeHTTP that do not touch the uploads.
LEMMA HandlerFiled ==
  ASSUME Filed,
         \/ Request!Redirect \/ Request!Chain \/ Request!Preflight \/ Request!handleStatic \/ Request!Pass
         \/ Request!TooLarge \/ Request!NewRequest \/ Request!BadRequest \/ Request!Parsed \/ Request!Payload
         \/ Request!Exec \/ Request!NewResponse \/ Request!Write \/ Request!Close
         \/ \E k \in Fields : Request!Push(k)
  PROVE  Filed'
<1> USE DEF Request!Go, Request!uploadVars, Request!formVars, Request!Places, Early
<1>0. at \in Request!Places
  BY Zenon DEF Filed
<1>1. CASE Request!Redirect \/ Request!Chain \/ Request!Preflight \/ Request!handleStatic \/ Request!Pass
  <2>1. UNCHANGED <<list, up, named, temp, stuck>> /\ at \in Early /\ at # "payload" /\ at' \in Early \cup {"done"}
    BY <1>1, Zenon DEF Request!Redirect, Request!Chain, Request!Preflight, Request!handleStatic, Request!Pass
  <2> QED
    BY <2>1, UploadsStay, Zenon
<1>2. CASE Request!TooLarge \/ Request!NewRequest \/ Request!BadRequest \/ Request!Parsed
  <2>1. UNCHANGED <<list, up, named, temp, stuck>> /\ at \in Early /\ at' \in Early \cup {"done"}
    BY <1>2, Zenon DEF Request!TooLarge, Request!NewRequest, Request!BadRequest, Request!Parsed
  <2> QED
    BY <2>1, UploadsStay, Zenon
<1>3. CASE Request!Payload
  <2>1. UNCHANGED <<list, up, named, temp, stuck>> /\ at = "payload" /\ at' \in {"exec", "close"} /\ Request!Opened
    BY <1>3, Zenon DEF Request!Payload
  <2> QED
    BY <2>1, UploadsStay, Zenon
<1>4. CASE Request!Exec \/ Request!NewResponse \/ Request!Write
  <2>1. /\ UNCHANGED <<list, up, named, temp, stuck>>
        /\ at \in {"exec", "decode", "write"} /\ at' \in {"decode", "write", "close"}
    BY <1>4, Zenon DEF Request!Exec, Request!NewResponse, Request!Write, Request!Panics
  <2> QED
    BY <2>1, UploadsStay, Zenon
<1>5. CASE Request!Close
  <2>1. UNCHANGED <<list, up, named, temp, stuck>> /\ at = "close" /\ at' = "done" /\ Request!ToClear = {}
    BY <1>5, Zenon DEF Request!Close
  <2> QED
    BY <2>1, UploadsStay, Zenon
<1>6. CASE \E k \in Fields : Request!Push(k)
  <2>1. UNCHANGED <<list, up, named, temp, stuck>> /\ at = "parse" /\ at' \in {"parse", "done"}
    BY <1>6, Zenon DEF Request!Push, Request!PushEnds, Request!Panics
  <2> QED
    BY <2>1, UploadsStay, Zenon
<1> QED
  BY <1>1, <1>2, <1>3, <1>4, <1>5, <1>6, Zenon

\* A file is listed before Open.
LEMMA PushFileFiled == ASSUME Filed, NEW k \in Uploads, Request!PushFile(k) PROVE Filed'
<1>1. /\ at = "parse" /\ at' \in {"parse", "done"} /\ list' = list \cup {k}
      /\ UNCHANGED <<up, named, temp, stuck>>
  BY Zenon DEF Request!PushFile, Request!PushEnds, Request!Panics
<1>2. temp = {} /\ named = {} /\ \A u \in Uploads : up[u].at = "idle"
  BY <1>1, Zenon DEF Filed, Early
<1>3. \A u \in Uploads : Written(u)'
  BY <1>1, <1>2, Zenon DEF Written
<1>4. UploadsHandled'
  BY <1>1, <1>2, Zenon DEF UploadsHandled, Request!UploadsHandled, Request!NoTempLeft, Request!ExecSeesFiles
<1> QED
  BY <1>1, <1>2, <1>3, <1>4, Zenon DEF Filed, Request!Places

\* Open starts the goroutines, and the handler waits for them.
LEMMA OpenFiled == ASSUME Filed, Request!Open PROVE Filed'
<1>1. /\ at = "open" /\ at' = "payload" /\ UNCHANGED <<list, named, temp, stuck>>
      /\ up' = [u \in Uploads |-> IF u \in list THEN [up[u] EXCEPT !.at = "open"] ELSE up[u]]
  BY Zenon DEF Request!Open, Request!Go
<1>2. temp = {} /\ named = {} /\ \A u \in Uploads : up[u].at = "idle"
  BY <1>1, Zenon DEF Filed, Early
<1>3. \A u \in Uploads : /\ up'[u] \in [at : {"idle", "open", "copy", "end"}, error : Request!Errors]
                         /\ up'[u].at \in {"idle", "open"} /\ (up'[u].at = "open" => u \in list)
  BY <1>1, <1>2, Zenon DEF Filed
<1>4. up' \in [Uploads -> [at : {"idle", "open", "copy", "end"}, error : Request!Errors]]
  BY <1>1, <1>3, Zenon
<1>5. \A u \in Uploads : Written(u)'
  BY <1>1, <1>3, Zenon DEF Written
<1>6. UploadsHandled'
  BY <1>1, Zenon DEF UploadsHandled, Request!UploadsHandled, Request!NoTempLeft, Request!ExecSeesFiles
<1> QED
  BY <1>1, <1>4, <1>5, <1>6, Zenon DEF Filed, Request!Places, Early

\* The goroutine of an upload.
LEMMA UploadFiled ==
  ASSUME Filed, NEW u \in Uploads, Request!OpenFails(u) \/ Request!OpenTemp(u) \/ Request!Copy(u)
  PROVE  Filed'
<1>0. /\ at = "payload" /\ u \in list /\ at' = at /\ list' = list
      /\ up[u].at = "copy" => u \in named
  BY Zenon DEF Filed, Written, Request!OpenFails, Request!OpenTemp, Request!Copy
<1>1. \E a \in {"copy", "end"}, e \in Request!Errors :
         /\ up' = [up EXCEPT ![u] = [at |-> a, error |-> e]]
         /\ a = "copy" \/ e = "ok" => u \in named'
  <2>1. CASE Request!OpenFails(u)
    BY <2>1, Zenon DEF Request!OpenFails, Request!EndUpload, Request!Errors
  <2>2. CASE Request!OpenTemp(u)
    <3>1. up' = [up EXCEPT ![u] = [up[u] EXCEPT !.at = "copy"]] /\ u \in named'
      BY <2>2, Zenon DEF Request!OpenTemp
    <3>2. [up[u] EXCEPT !.at = "copy"] = [at |-> "copy", error |-> up[u].error] /\ up[u].error \in Request!Errors
      BY DEF Filed
    <3> QED
      BY <3>1, <3>2, Zenon
  <2>3. CASE Request!Copy(u)
    BY <1>0, <2>3, Zenon DEF Request!Copy, Request!EndUpload, Request!Errors
  <2> QED
    BY <2>1, <2>2, <2>3, Zenon
<1>2. PICK a \in {"copy", "end"}, e \in Request!Errors :
         /\ up' = [up EXCEPT ![u] = [at |-> a, error |-> e]]
         /\ a = "copy" \/ e = "ok" => u \in named'
  BY <1>1, Zenon
<1>3. /\ named \subseteq named' /\ named' \subseteq list /\ temp' \subseteq named'
  BY <1>0, Zenon DEF Filed, Request!OpenFails, Request!OpenTemp, Request!Copy
<1>4. up' \in [Uploads -> [at : {"idle", "open", "copy", "end"}, error : Request!Errors]]
  BY <1>2, Zenon DEF Filed
<1>5. \A v \in Uploads : Written(v)'
  BY <1>0, <1>2, <1>3, Zenon DEF Filed, Written
<1>6. UploadsHandled'
  BY <1>0, Zenon DEF UploadsHandled, Request!UploadsHandled, Request!NoTempLeft, Request!ExecSeesFiles
<1> QED
  BY <1>0, <1>3, <1>4, <1>5, <1>6, Zenon DEF Filed, Early

\* The worker moves a file, or Clear removes it.
LEMMA RemoveFiled ==
  ASSUME Filed, NEW u \in Uploads, Request!Move(u) \/ Request!Clear(u)
  PROVE  Filed'
<1>1. /\ at \in {"exec", "close"} /\ temp' \subseteq temp /\ UNCHANGED <<at, list, up, named>>
  BY Zenon DEF Request!Move, Request!Clear
<1>2. UploadsHandled'
  BY <1>1, Zenon DEF Filed, UploadsHandled, Request!UploadsHandled, Request!NoTempLeft, Request!ExecSeesFiles
<1>3. \A v \in Uploads : Written(v)'
  BY <1>1, Zenon DEF Filed, Written
<1> QED
  BY <1>1, <1>2, <1>3, Zenon DEF Filed, Early

\* When a worker is called every upload has its file or its error, and a request that is over leaves no temporary file
\* that could be removed, whatever fails on the way: for any fields and uploads (Open, Clear).
THEOREM UploadsAreHandled == Request!Spec => []UploadsHandled
<1>1. Request!Init => Filed
  <2> SUFFICES ASSUME Request!Init PROVE Filed
    BY Zenon
  <2>1. /\ up \in [Uploads -> [at : {"idle", "open", "copy", "end"}, error : Request!Errors]]
        /\ \A u \in Uploads : up[u].at = "idle"
    BY Zenon DEF Request!Init, Request!Errors
  <2>2. at = "arrive" /\ list = {} /\ named = {} /\ temp = {}
    BY Zenon DEF Request!Init
  <2>3. UploadsHandled
    BY <2>2, Zenon DEF UploadsHandled, Request!UploadsHandled, Request!NoTempLeft, Request!ExecSeesFiles
  <2>4. \A u \in Uploads : Written(u)
    BY <2>1, Zenon DEF Written
  <2> QED
    BY <2>1, <2>2, <2>3, <2>4, Zenon DEF Filed, Request!Places
<1>2. Filed /\ [Request!Next]_(Request!vars) => Filed'
  <2> SUFFICES ASSUME Filed, [Request!Next]_(Request!vars) PROVE Filed'
    BY Zenon
  <2>1. CASE Request!Next
    BY <2>1, HandlerFiled, PushFileFiled, OpenFiled, UploadFiled, RemoveFiled, Zenon DEF Request!Next
  <2>2. CASE UNCHANGED Request!vars
    BY <2>2, Zenon DEF Request!vars, Filed, Written, UploadsHandled, Request!UploadsHandled, Request!NoTempLeft,
                Request!ExecSeesFiles
  <2> QED
    BY <2>1, <2>2, Zenon
<1>3. Filed => UploadsHandled
  BY Zenon DEF Filed
<1> QED
  BY <1>1, <1>2, <1>3, PTL DEF Request!Spec

\* A request is counted when it has thrown an event of either kind.
LEMMA SumPositive == \A m, n \in Nat : m + n > 0 <=> m > 0 \/ n > 0
OBVIOUS

\* handleError throws an event and answers.
LEMMA ErrorTold ==
  ASSUME Reported, Request!handleError, at' \in {"close", "done"}, nErr = 0, status = "none" PROVE Reported'
<1>1. nErr' \in Nat /\ nErr' > 0 /\ nRsp' = nRsp /\ nRsp \in Nat /\ status' = "error"
  BY DEF Reported, Request!handleError, Request!Answer
<1>2. Told'
  BY <1>1, SumPositive, Zenon DEF Told
<1> QED
  BY <1>1, <1>2, Zenon DEF Reported, Early

\* Each step of the handler keeps account of what was answered and thrown.
LEMMA StepReported == ASSUME Reported, Request!Next PROVE Reported'
<1> USE DEF Request!Go, Request!answerVars, Request!formVars, Request!uploadVars
<1>0. /\ nErr \in Nat /\ nRsp \in Nat
      /\ at \in Early \cup {"payload", "exec", "decode", "write"} =>
           status = "none" /\ nErr = 0 /\ ~panicked /\ nRsp = IF at = "write" THEN 1 ELSE 0
  BY Zenon DEF Reported
<1>1. CASE Request!Redirect \/ Request!Preflight \/ Request!handleStatic
  <2>1. /\ at \in Early /\ at' = "done" /\ UNCHANGED <<nErr, nRsp, panicked>>
        /\ status' \in {"redirect", "preflight", "static"}
    BY <1>0, <1>1, Zenon DEF Request!Redirect, Request!Preflight, Request!handleStatic, Request!Answer, Early
  <2> QED
    BY <1>0, <2>1 DEF Reported, Early
<1>2. CASE Request!Chain \/ Request!Pass \/ Request!NewRequest \/ Request!Parsed \/ Request!Open
  <2>1. at \in Early /\ at' \in Early \cup {"payload"} /\ UNCHANGED <<status, nErr, nRsp, panicked>>
    BY <1>2, Zenon DEF Request!Chain, Request!Pass, Request!NewRequest, Request!Parsed, Request!Open, Early
  <2> QED
    BY <1>0, <2>1, Zenon DEF Reported, Early
<1>3. CASE Request!TooLarge \/ Request!BadRequest
  BY <1>0, <1>3, ErrorTold, Zenon DEF Request!TooLarge, Request!BadRequest, Early
<1>4. CASE Request!Payload
  BY <1>0, <1>4, ErrorTold DEF Request!Payload, Reported, Early
<1>5. CASE Request!Exec
  BY <1>0, <1>5, ErrorTold DEF Request!Exec, Reported, Early
<1>6. CASE Request!NewResponse
  BY <1>0, <1>6, ErrorTold DEF Request!NewResponse, Reported, Early
<1>7. CASE Request!Write
  <2>1. /\ at = "write" /\ at' = "close" /\ nRsp = 1 /\ nRsp' = 1 /\ nErr' \in Nat
        /\ panicked' \/ status' \in {"php", "error"}
    BY <1>0, <1>7 DEF Request!Write, Request!Panics, Request!Answer, Early
  <2>2. panicked' \/ Told'
    <3>1. nRsp' \in Nat /\ nRsp' > 0
      BY <2>1
    <3> QED
      BY <2>1, <3>1, SumPositive, Zenon DEF Told
  <2> QED
    BY <2>1, <2>2, Zenon DEF Reported, Early
<1>8. CASE Request!Close
  BY <1>0, <1>8, Zenon DEF Request!Close, Reported, Told, Early
<1>9. CASE (\E k \in Fields : Request!Push(k)) \/ (\E u \in Uploads : Request!PushFile(u))
  <2>1. /\ at = "parse" /\ UNCHANGED <<nErr, nRsp, status>>
        /\ (at' = "done" /\ panicked') \/ (at' = at /\ panicked' = panicked)
    BY <1>9, Zenon DEF Request!Push, Request!PushFile, Request!PushEnds, Request!Panics
  <2> QED
    BY <1>0, <2>1 DEF Reported, Early
<1>10. CASE \E u \in Uploads : \/ Request!OpenFails(u) \/ Request!OpenTemp(u) \/ Request!Copy(u)
                               \/ Request!Move(u) \/ Request!Clear(u)
  <2>1. UNCHANGED <<at, nErr, nRsp, status, panicked>>
    BY <1>10, Zenon DEF Request!OpenFails, Request!OpenTemp, Request!Copy, Request!Move, Request!Clear
  <2> QED
    BY <2>1, Zenon DEF Reported, Told, Early
<1> QED
  BY <1>1, <1>2, <1>3, <1>4, <1>5, <1>6, <1>7, <1>8, <1>9, <1>10, Zenon DEF Request!Next

\* Every way through ServeHTTP that does not panic ends with a status, and with an event unless the middleware answered: for
\* any fields and uploads (handleError, Write).
THEOREM EndsAreReported == Request!Spec => []EndIsReported
<1>1. Request!Init => Reported
  BY DEF Request!Init, Reported, Early
<1>2. Reported /\ [Request!Next]_(Request!vars) => Reported'
  <2> SUFFICES ASSUME Reported, [Request!Next]_(Request!vars) PROVE Reported'
    BY Zenon
  <2>1. CASE Request!Next
    BY <2>1, StepReported, Zenon
  <2>2. CASE UNCHANGED Request!vars
    BY <2>2, Zenon DEF Request!vars, Reported, Told
  <2> QED
    BY <2>1, <2>2, Zenon
<1>3. Reported => EndIsReported
  BY DEF Reported, Told, EndIsReported, Request!EndIsReported
<1> QED
  BY <1>1, <1>2, <1>3, PTL DEF Request!Spec
=============================================================================
