--------------------------------- MODULE Reload ----------------------------------
(* The reload service: service/reload/watcher.go polls the files of a service, service.go collects the
   events and resets the server of that service.  A file is a directory and a name; its version is what
   os.FileInfo tells of it, and an edit makes a new one.  The service reloaded is one. *)
EXTENDS Naturals, Sequences

CONSTANTS
  Dirs,       \* config.directories
  Names,      \* names of files
  Patterned,  \* names some pattern is part of
  Ignored,    \* ignored directories and files
  Recursive,  \* config.recursive
  Poll,       \* bound: goroutines that poll at a time
  Cap,        \* capacity of treshholdc
  MaxEdits,   \* bound: changes of files
  MaxErrors   \* bound: lists that cannot be retrieved and Resets that fail

VARIABLES
  fs,        \* version of every file
  edits, errors,
  files,     \* watcherConfigs[service].files
  poll,      \* the polls: where they are, the list retrieved, events left to send
  mu,        \* holder of w.mu across steps
  fwd,       \* the goroutine that forwards holds an event
  queue,     \* events in treshholdc
  pump,      \* the goroutine that resets: select, reset, ended
  updated,   \* the service is in the map updated
  tick,      \* ticker.C holds a tick
  loaded,    \* versions the workers of the server were started with
  missed,    \* history: versions there were at the last Reset that failed
  watching,  \* waitEvent is running
  drain,     \* Serve has returned
  stop       \* Stop: none, close, stopc, done

vars == <<fs, edits, errors, files, poll, mu, fwd, queue, pump, updated, tick, loaded, missed, watching, drain, stop>>
fileVars == <<fs, edits, errors>>
pumpVars == <<pump, updated, tick, loaded, missed>>
stopVars == <<watching, drain, stop>>

Nobody == "nobody"
File == {Dirs[i] : i \in DOMAIN Dirs} \X Names
Versions == 0..MaxEdits

----------------------------------------------------------------------------------
(* What a list holds *)

\* filepath.Walk gives the path of a file; retrieveFilesSingle keeps its bare name.
Key(f) == IF Recursive THEN f ELSE f[2]

\* Walk skips an ignored directory or file; retrieveFilesSingle looks up the directory only.
Listed(f) == f[2] \in Patterned /\ f[1] \notin Ignored /\ (Recursive => f \notin Ignored)

Keys == {Key(f) : f \in {g \in File : Listed(g)}}

\* The directories are walked in turn, and a key takes the file of the last.
LastDir(n) == CHOOSE i \in DOMAIN Dirs :
  /\ Listed(<<Dirs[i], n>>)
  /\ \A j \in DOMAIN Dirs : Listed(<<Dirs[j], n>>) => j <= i

retrieveFileList == [k \in Keys |-> IF Recursive THEN fs[k] ELSE fs[<<Dirs[LastDir(k)], k>>]]

NoList == [k \in {} |-> 0]
Lists == {[k \in K |-> v[k]] : K \in {{}, Keys}, v \in [Keys -> Versions]}

Idle == [at |-> "idle", list |-> NoList, left |-> 0]

\* Every variable has its type.
TypeOK ==
  /\ {fs, loaded, missed} \subseteq [File -> Versions]
  /\ edits \in 0..MaxEdits /\ errors \in 0..MaxErrors
  /\ files \in Lists
  /\ \A p \in Poll : /\ poll[p].at \in {"idle", "retrieve", "apply", "send"}
                     /\ poll[p].list \in Lists /\ poll[p].left \in Nat
  /\ mu \in Poll \cup {Nobody}
  /\ fwd \in BOOLEAN /\ queue \in 0..Cap
  /\ pump \in {"select", "reset", "ended"} /\ updated \in BOOLEAN /\ tick \in BOOLEAN
  /\ watching \in BOOLEAN /\ drain \in BOOLEAN /\ stop \in {"none", "close", "stopc", "done"}

\* NewWatcher has listed the files; Serve has started its goroutines.
Init ==
  /\ fs = [f \in File |-> 0] /\ loaded = fs /\ missed = fs /\ edits = 0 /\ errors = 0
  /\ files = retrieveFileList
  /\ poll = [p \in Poll |-> Idle] /\ mu = Nobody
  /\ fwd = FALSE /\ queue = 0 /\ pump = "select" /\ updated = FALSE /\ tick = FALSE
  /\ watching = TRUE /\ drain = FALSE /\ stop = "none"

----------------------------------------------------------------------------------
(* The watcher *)

Edit(f) ==
  /\ edits < MaxEdits
  /\ edits' = edits + 1 /\ fs' = [fs EXCEPT ![f] = edits + 1]
  /\ UNCHANGED <<errors, files, poll, mu, fwd, queue, pumpVars, stopVars>>

\* waitEvent: every tick starts a goroutine, whether or not the last one has finished.
StartPoll(p) ==
  /\ watching /\ poll[p].at = "idle"
  /\ poll' = [poll EXCEPT ![p].at = "retrieve"]
  /\ UNCHANGED <<fileVars, files, mu, fwd, queue, pumpVars, stopVars>>

\* The error is dropped: a list that cannot be retrieved is nil.
Retrieve(p) ==
  /\ poll[p].at = "retrieve" /\ mu = Nobody
  /\ \/ poll' = [poll EXCEPT ![p] = [@ EXCEPT !.at = "apply", !.list = retrieveFileList]] /\ UNCHANGED errors
     \/ /\ errors < MaxErrors /\ errors' = errors + 1
        /\ poll' = [poll EXCEPT ![p] = [@ EXCEPT !.at = "apply", !.list = NoList]]
  /\ UNCHANGED <<fs, edits, files, mu, fwd, queue, pumpVars, stopVars>>

\* Keys pollEvents finds created, removed or written.
Differing(old, new) ==
  {k \in DOMAIN old \cup DOMAIN new :
     ~(k \in DOMAIN old /\ k \in DOMAIN new /\ old[k] = new[k])}

\* Mutant: files that were written are recorded without an event.
EventsOfCreates(old, new) ==
  IF DOMAIN old = DOMAIN new THEN 0..0 ELSE 1..2

\* One event for each of them, a second for one that changed its mode as well or was renamed; from the
\* second on their number is immaterial.
Events(old, new) == IF Differing(old, new) = {} THEN 0..0 ELSE 1..2

\* pollEvents under w.mu: what differs goes into files, and an event is sent for each.
Apply(p) ==
  /\ poll[p].at = "apply" /\ mu = Nobody
  /\ files' = poll[p].list /\ mu' = p
  /\ \E n \in Events(files, poll[p].list) : poll' = [poll EXCEPT ![p] = [at |-> "send", list |-> NoList, left |-> n]]
  /\ UNCHANGED <<fileVars, fwd, queue, pumpVars, stopVars>>

\* "w.Event <- ..." is taken by the goroutine that forwards.
Send(p) ==
  /\ poll[p].at = "send" /\ poll[p].left > 0 /\ ~fwd
  /\ poll' = [poll EXCEPT ![p].left = @ - 1] /\ fwd' = TRUE
  /\ UNCHANGED <<fileVars, files, mu, queue, pumpVars, stopVars>>

EndPoll(p) ==
  /\ poll[p].at = "send" /\ poll[p].left = 0
  /\ poll' = [poll EXCEPT ![p] = Idle] /\ mu' = Nobody
  /\ UNCHANGED <<fileVars, files, fwd, queue, pumpVars, stopVars>>

----------------------------------------------------------------------------------
(* Serve *)

\* Mutant: the channel takes one more than its capacity.
HasRoomOver == queue <= Cap

HasRoom == queue < Cap

Forward ==
  /\ fwd /\ HasRoom
  /\ fwd' = FALSE /\ queue' = queue + 1
  /\ UNCHANGED <<fileVars, files, poll, mu, pumpVars, stopVars>>

\* An event: the service is marked and the ticker starts anew.
Collect ==
  /\ pump = "select" /\ queue > 0
  /\ queue' = queue - 1 /\ updated' = TRUE /\ tick' = FALSE
  /\ UNCHANGED <<fileVars, files, poll, mu, fwd, pump, loaded, missed, stopVars>>

Ticks ==
  /\ pump # "ended" /\ ~tick
  /\ tick' = TRUE
  /\ UNCHANGED <<fileVars, files, poll, mu, fwd, queue, pump, updated, loaded, missed, stopVars>>

\* Mutant: one service in the map is not enough.
ResetOffByOne ==
  /\ pump = "select" /\ tick
  /\ tick' = FALSE
  /\ UNCHANGED <<fileVars, files, poll, mu, fwd, queue, pump, updated, loaded, missed, stopVars>>

\* Server().Reset() starts workers with the files there are, or fails and keeps the workers it has.
Reset ==
  /\ pump = "select" /\ tick
  /\ tick' = FALSE
  /\ \/ updated /\ pump' = "reset" /\ loaded' = fs /\ UNCHANGED <<missed, errors>>
     \/ /\ updated /\ pump' = "reset" /\ missed' = fs /\ UNCHANGED loaded
        /\ errors < MaxErrors /\ errors' = errors + 1
     \/ ~updated /\ UNCHANGED <<pump, loaded, missed, errors>>
  /\ UNCHANGED <<fs, edits, files, poll, mu, fwd, queue, updated, stopVars>>

\* Reset has returned; an error is only logged, and the map is made anew.
ResetDone ==
  /\ pump = "reset"
  /\ pump' = "select" /\ updated' = FALSE
  /\ UNCHANGED <<fileVars, files, poll, mu, fwd, queue, tick, loaded, missed, stopVars>>

StopCall ==
  /\ stop = "none"
  /\ stop' = "close"
  /\ UNCHANGED <<fileVars, files, poll, mu, fwd, queue, pumpVars, watching, drain>>

\* "w.close <-" is taken by waitEvent, and Serve returns.
StopWatcher ==
  /\ stop = "close" /\ watching
  /\ stop' = "stopc" /\ watching' = FALSE /\ drain' = TRUE
  /\ UNCHANGED <<fileVars, files, poll, mu, fwd, queue, pumpVars>>

\* "s.stopc <-" is taken by the goroutine that resets, not before it is back from Reset.
StopPump ==
  /\ stop = "stopc" /\ pump = "select"
  /\ stop' = "done" /\ pump' = "ended"
  /\ UNCHANGED <<fileVars, files, poll, mu, fwd, queue, updated, tick, loaded, missed, watching, drain>>

\* Mutant: Serve leaves nobody to drain the channel.
DrainNothing == FALSE /\ UNCHANGED vars

Drain ==
  /\ drain /\ queue > 0
  /\ queue' = queue - 1
  /\ UNCHANGED <<fileVars, files, poll, mu, fwd, pumpVars, stopVars>>

Next ==
  \/ \E f \in File : Edit(f)
  \/ \E p \in Poll : StartPoll(p) \/ Retrieve(p) \/ Apply(p) \/ Send(p) \/ EndPoll(p)
  \/ Forward \/ Collect \/ Ticks \/ Reset \/ ResetDone
  \/ StopCall \/ StopWatcher \/ StopPump \/ Drain

\* Goroutines run, the tickers tick and Reset returns.
Fairness ==
  /\ \A p \in Poll : /\ WF_vars(StartPoll(p)) /\ WF_vars(Retrieve(p)) /\ WF_vars(Apply(p))
                     /\ WF_vars(Send(p)) /\ WF_vars(EndPoll(p))
  /\ WF_vars(Forward) /\ WF_vars(Collect) /\ WF_vars(Ticks) /\ WF_vars(Reset) /\ WF_vars(ResetDone)
  /\ WF_vars(StopWatcher) /\ WF_vars(StopPump) /\ WF_vars(Drain)

Spec == Init /\ [][Next]_vars
FairSpec == Spec /\ Fairness

----------------------------------------------------------------------------------
\* An event is on its way to Reset.
InFlight ==
  \/ \E p \in Poll : poll[p].at = "send" /\ poll[p].left > 0
  \/ fwd \/ queue > 0 \/ updated

\* What the watcher has taken note of is what the workers were started with or newer, or an event is on its
\* way: no interleaving of two polls, a debounced event and a Reset that is already running loses a change.
\* Only a Reset that came after the change and failed does.
NotedIsLoaded ==
  drain \/ InFlight \/ \A k \in DOMAIN files : Recursive => files[k] <= loaded[k] \/ files[k] <= missed[k]

\* A watched file that has been changed is loaded in the end, unless the service is stopped or the Reset made for
\* the change fails.
ChangeReloads ==
  \A f \in File : Listed(f) => (fs[f] = MaxEdits ~> (loaded[f] = fs[f] \/ missed[f] = fs[f] \/ drain))

\* Not so: a change whose Reset has failed is loaded later.
FailedResetIsRepeated ==
  \A f \in File : Listed(f) => (fs[f] = MaxEdits ~> (loaded[f] = fs[f] \/ drain))

\* Stop returns, although it hands over to a goroutine that may be in Reset, and the polls end with w.mu free,
\* whatever events are left in the channel.
StopEnds == stop = "close" ~> (stop = "done" /\ mu = Nobody /\ \A p \in Poll : poll[p].at = "idle")

\* "If there is no more events, we restart service only once" (Serve)
ResetsOnlyForChanges == [][pump' = "reset" /\ pump # "reset" => loaded # fs]_vars
==================================================================================
