---------------------------------- MODULE Http -----------------------------------
(* One request through the http service: redirect and middleware (service.go, headers, static), the request
   with its form and uploads (request.go, parse.go, uploads.go), the worker, and the response (handler.go,
   response.go).  A field is named by the characters of its name. *)
EXTENDS Naturals, Sequences

CONSTANTS
  Fields,    \* names of form fields
  Uploads,   \* names of upload fields, a file each
  MaxLevel   \* deepest field name that is kept

VARIABLES
  at,        \* where ServeHTTP is
  kind,      \* contentType: none, stream, form, multipart
  form,      \* names of the fields of the request
  sent,      \* names of the files of the request
  todo,      \* names that are still to be pushed by the running loop
  pass,      \* which loop that is: over the files, PostForm or MultipartForm.Value
  tree,      \* dataTree: its leaves by their path
  ftree,     \* fileTree
  list,      \* u.list
  up,        \* the goroutine of Open for an upload, and FileUpload.Error
  named,     \* uploads with a TempFilename
  temp,      \* temporary files there are
  stuck,     \* temporary files os.Remove failed for
  status,    \* status sent
  nErr, nRsp,\* EventError and EventResponse thrown
  panicked   \* a handler panicked, net/http has recovered

vars == <<at, kind, form, sent, todo, pass, tree, ftree, list, up, named, temp, stuck, status, nErr, nRsp, panicked>>
formVars == <<kind, form, sent, todo, pass, tree, ftree>>
uploadVars == <<list, up, named, temp, stuck>>
answerVars == <<status, nErr, nRsp, panicked>>

----------------------------------------------------------------------------------
(* Form trees *)

\* One character of fetchIndexes: pos is 1 after "[", 2 after "]", and 0 inside of a key.
IndexesStep(s, c) ==
  CASE c = " " -> s
    [] c = "[" -> [s EXCEPT !.pos = 1]
    [] c = "]" -> [keys |-> IF s.pos = 1 THEN Append(s.keys, <<>>) ELSE s.keys, pos |-> 2]
    [] OTHER -> [keys |-> LET k == IF s.pos = 0 THEN s.keys ELSE Append(s.keys, <<>>)
                          IN  [k EXCEPT ![Len(k)] = Append(@, c)],
                 pos |-> 0]

fetchIndexes(name) ==
  LET scan[n \in 0..Len(name)] == IF n = 0 THEN [keys |-> <<<<>>>>, pos |-> 0] ELSE IndexesStep(scan[n - 1], name[n])
  IN  scan[Len(name)].keys

\* A name that ends in [] is a list.
IsList(name) == LET keys == fetchIndexes(name) IN Len(keys) >= 2 /\ keys[Len(keys)] = <<>>

\* Where mount puts the value of a name.
Path(name) == LET keys == fetchIndexes(name) IN IF IsList(name) THEN SubSeq(keys, 1, Len(keys) - 1) ELSE keys

\* Path q is path p, or below it.
IsBelow(q, p) == Len(p) <= Len(q) /\ SubSeq(q, 1, Len(p)) = p

\* mount descends through values that are trees: "p.(dataTree)" panics when it meets one that is not.
InTheWay(t, path) == \E n \in 1..(Len(path) - 1) : SubSeq(path, 1, n) \in DOMAIN t

\* Mutant: what is below the name stays.
mountKeeps(t, name) ==
  [p \in DOMAIN t \cup {Path(name)} |->
     IF p = Path(name) THEN [of |-> name, all |-> IsList(name)] ELSE t[p]]

\* The last value of a name, of the files the first, or all of them; they replace what was there.
mount(t, name) ==
  [p \in {q \in DOMAIN t : ~IsBelow(q, Path(name))} \cup {Path(name)} |->
     IF p = Path(name) THEN [of |-> name, all |-> IsList(name)] ELSE t[p]]

NoTree == [p \in {} |-> 0]

----------------------------------------------------------------------------------
Errors == {"ok", "nofile", "notmp", "cantwrite", "extension"}
Places == {"arrive", "middleware", "size", "parse", "open", "payload", "exec", "decode", "write",
           "close", "done"}

\* Every variable has its type.
TypeOK ==
  /\ at \in Places /\ kind \in {"none", "stream", "form", "multipart"}
  /\ form \subseteq Fields /\ sent \subseteq Uploads /\ pass \in {"files", "post", "multi"}
  /\ todo \subseteq IF pass = "files" THEN sent ELSE form
  /\ \A p \in DOMAIN tree : Len(p) \in 1..MaxLevel /\ tree[p].of \in form
  /\ \A p \in DOMAIN ftree : Len(p) \in 1..MaxLevel /\ ftree[p].of \in list
  /\ list \subseteq sent
  /\ up \in [Uploads -> [at : {"idle", "open", "copy", "end"}, error : Errors]]
  /\ named \subseteq list /\ temp \subseteq named /\ stuck \subseteq temp
  /\ status \in {"none", "redirect", "preflight", "static", "error", "php"}
  /\ nErr \in 0..2 /\ nRsp \in 0..1 /\ panicked \in BOOLEAN

Init ==
  /\ at = "arrive"
  /\ kind \in {"none", "stream", "form", "multipart"}
  /\ form \in IF kind \in {"form", "multipart"} THEN SUBSET Fields ELSE {{}}
  /\ sent \in IF kind = "multipart" THEN SUBSET Uploads ELSE {{}}
  /\ todo = {} /\ pass = "files" /\ tree = NoTree /\ ftree = NoTree /\ list = {}
  /\ up = [u \in Uploads |-> [at |-> "idle", error |-> "ok"]]
  /\ named = {} /\ temp = {} /\ stuck = {}
  /\ status = "none" /\ nErr = 0 /\ nRsp = 0 /\ panicked = FALSE

Go(from, to) == at = from /\ at' = to

\* WriteHeader: the first one counts.
Answer(s) == status' = IF status = "none" THEN s ELSE status

\* handleError: an event, status 500, and one more event when the message cannot be written.
handleError == /\ \E n \in 1..2 : nErr' = nErr + n
               /\ Answer("error")
               /\ UNCHANGED <<nRsp, panicked>>

----------------------------------------------------------------------------------
(* Service.ServeHTTP and the middleware *)

Redirect ==
  /\ Go("arrive", "done") /\ Answer("redirect")
  /\ UNCHANGED <<formVars, uploadVars, nErr, nRsp, panicked>>

Chain ==
  /\ Go("arrive", "middleware")
  /\ UNCHANGED <<formVars, uploadVars, answerVars>>

\* headers: with CORS an OPTIONS request is answered.
Preflight ==
  /\ Go("middleware", "done") /\ kind = "none" /\ Answer("preflight")
  /\ UNCHANGED <<formVars, uploadVars, nErr, nRsp, panicked>>

\* static: a file is served, or its absence; anything else goes on.
handleStatic ==
  /\ Go("middleware", "done") /\ Answer("static")
  /\ UNCHANGED <<formVars, uploadVars, nErr, nRsp, panicked>>

Pass ==
  /\ Go("middleware", "size")
  /\ UNCHANGED <<formVars, uploadVars, answerVars>>

----------------------------------------------------------------------------------
(* Handler.ServeHTTP *)

\* Mutant: the request is dropped.
TooLargeSilent ==
  /\ Go("size", "done")
  /\ UNCHANGED <<formVars, uploadVars, answerVars>>

\* content-length is not a number, or more than MaxRequestSize.
TooLarge ==
  /\ Go("size", "done") /\ handleError
  /\ UNCHANGED <<formVars, uploadVars>>

\* The body cannot be read, or its form cannot be parsed.
BadRequest ==
  /\ Go("size", "done") /\ kind # "none" /\ handleError
  /\ UNCHANGED <<formVars, uploadVars>>

\* By the type of its content a request has files, a form, a body or nothing.
NewRequest ==
  /\ Go("size", IF kind \in {"form", "multipart"} THEN "parse" ELSE "open")
  /\ todo' = IF kind = "multipart" THEN sent ELSE form
  /\ pass' = IF kind = "multipart" THEN "files" ELSE "post"
  /\ UNCHANGED <<kind, form, sent, tree, ftree, uploadVars, answerVars>>

\* A handler panics; what ServeHTTP has deferred still runs.
Panics(to) == at' = to /\ panicked' = TRUE /\ UNCHANGED <<status, nErr, nRsp>>

\* push drops a name of more than MaxLevel indexes.
TooDeep(k) == Len(fetchIndexes(k)) > MaxLevel

PushInto(t, k) == IF TooDeep(k) \/ InTheWay(t, Path(k)) THEN t ELSE mount(t, k)

PushEnds(t, k) == IF ~TooDeep(k) /\ InTheWay(t, Path(k)) THEN Panics("done") ELSE UNCHANGED <<at, answerVars>>

\* parseUploads, in the order of the map: every file is listed, whether it has a place in the tree or not.
PushFile(k) ==
  /\ at = "parse" /\ pass = "files" /\ k \in todo
  /\ todo' = todo \ {k} /\ list' = list \cup {k}
  /\ ftree' = PushInto(ftree, k) /\ PushEnds(ftree, k)
  /\ UNCHANGED <<kind, form, sent, pass, tree, up, named, temp, stuck>>

\* parseData, in the order of the map.
Push(k) ==
  /\ at = "parse" /\ pass # "files" /\ k \in todo
  /\ todo' = todo \ {k}
  /\ tree' = PushInto(tree, k) /\ PushEnds(tree, k)
  /\ UNCHANGED <<kind, form, sent, pass, ftree, uploadVars>>

\* ParseMultipartForm has copied the values to PostForm, so that parseData pushes them twice.
Parsed ==
  /\ at = "parse" /\ todo = {}
  /\ IF kind = "multipart" /\ pass # "multi"
     THEN /\ todo' = form /\ UNCHANGED at
          /\ pass' = IF pass = "files" THEN "post" ELSE "multi"
     ELSE at' = "open" /\ UNCHANGED <<todo, pass>>
  /\ UNCHANGED <<kind, form, sent, tree, ftree, uploadVars, answerVars>>

\* Uploads.Open starts a goroutine for every file of the list.
Open ==
  /\ Go("open", "payload")
  /\ up' = [u \in Uploads |-> IF u \in list THEN [up[u] EXCEPT !.at = "open"] ELSE up[u]]
  /\ UNCHANGED <<formVars, list, named, temp, stuck, answerVars>>

EndUpload(u, error) == up' = [up EXCEPT ![u] = [at |-> "end", error |-> error]]

\* The extension is forbidden, the part cannot be opened, or there is no temporary directory.
OpenFails(u) ==
  /\ up[u].at = "open"
  /\ \E e \in {"extension", "nofile", "notmp"} : EndUpload(u, e)
  /\ UNCHANGED <<at, formVars, list, named, temp, stuck, answerVars>>

OpenTemp(u) ==
  /\ up[u].at = "open"
  /\ up' = [up EXCEPT ![u].at = "copy"]
  /\ temp' = temp \cup {u} /\ named' = named \cup {u}
  /\ UNCHANGED <<at, formVars, list, stuck, answerVars>>

Copy(u) ==
  /\ up[u].at = "copy"
  /\ \E e \in {"ok", "cantwrite"} : EndUpload(u, e)
  /\ UNCHANGED <<at, formVars, list, named, temp, stuck, answerVars>>

\* wg.Wait
Opened == \A u \in list : up[u].at = "end"

Payload ==
  /\ Opened
  /\ \/ Go("payload", "exec") /\ UNCHANGED answerVars
     \/ Go("payload", "close") /\ handleError
  /\ UNCHANGED <<formVars, uploadVars>>

\* The worker may move a file it is given.
Move(u) ==
  /\ at = "exec" /\ u \in temp /\ up[u] = [at |-> "end", error |-> "ok"]
  /\ temp' = temp \ {u}
  /\ UNCHANGED <<at, formVars, list, up, named, stuck, answerVars>>

Exec ==
  /\ \/ Go("exec", "decode") /\ UNCHANGED answerVars
     \/ Go("exec", "close") /\ handleError
  /\ UNCHANGED <<formVars, uploadVars>>

\* NewResponse and the event; a context that is no response is an error.
NewResponse ==
  /\ \/ Go("decode", "write") /\ nRsp' = nRsp + 1 /\ UNCHANGED <<status, nErr, panicked>>
     \/ Go("decode", "close") /\ handleError
  /\ UNCHANGED <<formVars, uploadVars>>

\* Response.Write: the status and the body; a push or the body fails; WriteHeader panics at a status that is none.
Write ==
  /\ \/ Go("write", "close") /\ Answer("php") /\ UNCHANGED <<nErr, nRsp, panicked>>
     \/ /\ Go("write", "close") /\ \E n \in 1..2 : nErr' = nErr + n
        /\ status' \in {"php", "error"} /\ UNCHANGED <<nRsp, panicked>>
     \/ at = "write" /\ Panics("close")
  /\ UNCHANGED <<formVars, uploadVars>>

\* Mutant: a file that failed to be copied is left.
ToClearComplete == {u \in list : u \in named /\ u \in temp \ stuck /\ up[u].error = "ok"}

\* Files Clear has to remove.
ToClear == {u \in list : u \in named /\ u \in temp \ stuck}

Clear(u) ==
  /\ at = "close" /\ u \in ToClear
  /\ \/ temp' = temp \ {u} /\ UNCHANGED stuck
     \/ stuck' = stuck \cup {u} /\ UNCHANGED temp
  /\ UNCHANGED <<at, formVars, list, up, named, answerVars>>

Close ==
  /\ Go("close", "done") /\ ToClear = {}
  /\ UNCHANGED <<formVars, uploadVars, answerVars>>

Next ==
  \/ Redirect \/ Chain \/ Preflight \/ handleStatic \/ Pass
  \/ TooLarge \/ NewRequest \/ BadRequest \/ Parsed \/ Open \/ Payload \/ Exec \/ NewResponse \/ Write \/ Close
  \/ \E k \in Fields : Push(k)
  \/ \E u \in Uploads : PushFile(u) \/ OpenFails(u) \/ OpenTemp(u) \/ Copy(u) \/ Move(u) \/ Clear(u)

\* Every step of the handler ends, the call of the worker included.
Fairness == WF_vars(Next)

Spec == Init /\ [][Next]_vars
FairSpec == Spec /\ Fairness

----------------------------------------------------------------------------------
\* A request that is over leaves no temporary file, whatever failed on the way, but one that os.Remove
\* failed for.
NoTempLeft == at = "done" => temp \subseteq stuck

\* When the worker is called no file is still being written, and an upload without an error has its file, unless the
\* worker has moved it.
ExecSeesFiles == at = "exec" => \A u \in list : up[u].at = "end" /\ (up[u].error = "ok" => u \in named)

\* Temporary files are there while the worker needs them and gone when the request is over.
UploadsHandled == NoTempLeft /\ ExecSeesFiles

\* Keys written the way PHP names fields: first[second][third].
Named(keys) ==
  LET name[n \in 1..Len(keys)] == IF n = 1 THEN keys[1] ELSE name[n - 1] \o <<"[">> \o keys[n] \o <<"]">>
  IN  name[Len(keys)]

\* fetchIndexes gives back the indexes a name is written from, empty ones included.
IndexesSplit ==
  at = "arrive" => \A n \in 1..(MaxLevel + 1) : \A keys \in [1..n -> {<<>>, <<"a">>, <<"a", "b">>}] :
                     fetchIndexes(Named(keys)) = keys

Related(j, k) == IsBelow(Path(k), Path(j)) \/ IsBelow(Path(j), Path(k))

\* In whatever order the map is walked, a field that is not too deep and not above, below or at another one is in the
\* tree with its own value, and no leaf of the tree is below another.
TreeComplete ==
  at \in {"open", "payload"} /\ kind \in {"form", "multipart"} =>
    /\ \A k \in form : ~TooDeep(k) /\ (\A j \in form \ {k} : ~Related(j, k)) =>
         Path(k) \in DOMAIN tree /\ tree[Path(k)] = [of |-> k, all |-> IsList(k)]
    /\ \A p, q \in DOMAIN tree : IsBelow(q, p) => p = q

\* A multipart form with a field below another one never reaches the worker: the second loop of parseData
\* meets what the first has put in the way.
ConflictAborts ==
  at = "exec" /\ kind = "multipart" =>
    \A k \in form : ~TooDeep(k) => Path(k) \in DOMAIN tree

\* Fields that do not conflict reach the worker under the indexes of their names (fetchIndexes, push, mount); a multipart
\* form whose fields conflict does not reach it.
FormTree == IndexesSplit /\ TreeComplete /\ ConflictAborts

\* A request that reached the handler ends with an event, so that it is logged and counted, and with a
\* status, unless the handler panicked.
EndIsReported ==
  at = "done" /\ ~panicked => /\ status # "none"
                              /\ status \in {"error", "php"} <=> nErr + nRsp > 0

\* "Total number of handled http requests after server restart." (cmd/rr/http/metrics.go)
CountedOnce == nErr + nRsp <= 1

\* The same for a form that is not multipart: here the order of the map decides.
FormConflictAborts ==
  at = "exec" /\ kind = "form" =>
    \A k \in form : ~TooDeep(k) => Path(k) \in DOMAIN tree
==================================================================================
