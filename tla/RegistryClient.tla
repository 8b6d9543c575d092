--------------------------- MODULE RegistryClient ---------------------------
(***************************************************************************)
(* The HTTP client of the registry server (registry/server/client): calls  *)
(* of any number of processes against a server whose definitions change,   *)
(* over a network that loses requests and answers, with a directory of     *)
(* cached answers that all of them share and that serves as a fallback     *)
(* while the server is unreachable.  A process that ends within a call is  *)
(* one whose call takes no further step.                                   *)
(*                                                                         *)
(* A URL is the sequence of the parts of its path and query, each the      *)
(* sequence of its words: "a_b" and "?a=b" are << "a", "b" >>.  A body is  *)
(* the URL it answers and the number of the edit that it shows; those of   *)
(* ListAllEvents are JSON arrays, those of GetEvent objects.               *)
(***************************************************************************)
EXTENDS Naturals, Sequences, SequencesExt, FiniteSets

CONSTANTS
  Cached,      \* calls of the methods that use getWithCache, with a CacheDir, in any process
  Direct,      \* calls of the others, which use get, post, put and delete
  Urls,        \* what they ask for
  Foreign,     \* calls that something else than the registry may answer, such as a proxy
  Lists,       \* those of ListAllEvents, with its filter in the query
  MaxEdits     \* bound on the changes of the server's definitions

ASSUME ClientAssumption ==
  /\ Cached \cap Direct = {}
  /\ Lists \subseteq Urls
  /\ Foreign \subseteq Cached \cup Direct
  /\ MaxEdits \in Nat \ {0}

VARIABLES
  content,     \* the server: the edit each URL shows, 0 where it answers "not found"
  edits,       \* how many changes there were
  files,       \* the cache directory, by key
  call         \* the calls and what became of them

vars == << content, edits, files, call >>

\* sanitizeForFS: every separator becomes "_", which also stands between the
\* words of one part.
urlCacheKey(u) == FlattenSeq(u)

Keys == {urlCacheKey(u) : u \in Urls}

NoBody == [url |-> << >>, ver |-> 0]
Bodies == [url : Urls, ver : 0..MaxEdits] \cup {NoBody}

NoFile == [is |-> "absent", body |-> NoBody]
Empty == [is |-> "empty", body |-> NoBody]
Torn == [is |-> "torn", body |-> NoBody]
Whole(body) == [is |-> "whole", body |-> body]

Calls == Cached \cup Direct

\* json.Unmarshal takes a list for a list and an event for an event; NoBody stands for a
\* body that is neither, such as the page of a proxy.
Decodes(u, body) == body # NoBody /\ (u \in Lists <=> body.url \in Lists)

\* PublishEvent, CreateApp, UpdateApp and so on change what the server has; the others
\* read it.  Without a CacheDir a read of getWithCache is one of get.
OpsOf(c) == IF c \in Cached THEN {"read"} ELSE {"read", "change"}

NoCall ==
  [pc |-> "idle", op |-> "read", url |-> << >>, status |-> "none", body |-> NoBody,
   res |-> "none", out |-> NoBody, before |-> {}, opened |-> FALSE, spoilt |-> FALSE]

Init ==
  /\ content = [u \in Urls |-> 1]
  /\ edits = 1
  /\ files = [k \in Keys |-> NoFile]
  /\ call = [c \in Calls |-> NoCall]

Key(c) == urlCacheKey(call[c].url)
Returned == {c \in Calls : call[c].pc = "done"}

-----------------------------------------------------------------------------
(* The server and the network.                                             *)

\* A method is called, and asks the server.
Begin(c) ==
  /\ call[c].pc = "idle"
  /\ \E op \in OpsOf(c), u \in Urls :
       call' = [call EXCEPT ![c] = [NoCall EXCEPT !.pc = "sent", !.op = op, !.url = u,
                                                 !.before = Returned]]
  /\ UNCHANGED << content, edits, files >>

Answer(c, status, body) ==
  call' = [call EXCEPT ![c].pc = "answered", ![c].status = status, ![c].body = body]

\* handleListEvents, handleGetEvent, handleGetEventVersion: what is stored now, or
\* "not found", whose JSON object would decode into an event; or a foreign page with
\* status 200.  Refusals and failures are in Fails.
ServeGet(c) ==
  /\ call[c].pc = "sent" /\ call[c].op = "read"
  /\ LET now == content[call[c].url]
     IN  \/ now > 0 /\ Answer(c, "ok", [url |-> call[c].url, ver |-> now])
         \/ now = 0 /\ Answer(c, "not_found", [url |-> call[c].url, ver |-> 0])
         \/ c \in Foreign /\ Answer(c, "ok", NoBody)
  /\ UNCHANGED << content, edits, files >>

\* A publication shows in what the URL of its event answers; one that makes a version
\* inactive can leave that without an answer, while a list always has one.  The server
\* may fail after it.
ServeChange(c) ==
  /\ call[c].pc = "sent" /\ call[c].op = "change"
  /\ \/ /\ edits < MaxEdits
        /\ edits' = edits + 1
        /\ \E shown \in {edits + 1} \cup (IF call[c].url \in Lists THEN {} ELSE {0}) :
             content' = [content EXCEPT ![call[c].url] = shown]
        /\ Answer(c, "ok", NoBody) \/ Answer(c, "error", NoBody)
     \/ /\ \E status \in {"error", "not_found"} : Answer(c, status, NoBody)
        /\ UNCHANGED << content, edits >>
  /\ UNCHANGED files

-----------------------------------------------------------------------------
(* The client.                                                             *)

Return(c, res, out) ==
  call' = [call EXCEPT ![c].pc = "done", ![c].res = res, ![c].out = out]

\* http.Do fails: the server was not reached, or its answer was lost.
Unreachable(c) ==
  /\ call[c].pc \in {"sent", "answered"}
  /\ call' = [call EXCEPT ![c].status = "none", ![c].body = NoBody,
                          ![c].pc = IF c \in Cached THEN "fallback" ELSE "done",
                          ![c].res = IF c \in Cached THEN "none" ELSE "unreachable"]
  /\ UNCHANGED << content, edits, files >>

\* The request cannot be built, or the answer breaks off, or its status is that of a
\* refusal or a failure: there is no fallback.
Fails(c) ==
  /\ call[c].pc \in {"sent", "answered"}
  /\ call' = [call EXCEPT ![c].pc = "done", ![c].res = "error", ![c].status = "error",
                          ![c].body = NoBody]
  /\ UNCHANGED << content, edits, files >>

\* Mutant: whatever the server answers is kept for later.
KeepsAny(status) == TRUE

\* The statuses whose body is written to the cache.
Keeps(status) == status = "ok"

\* A body that does not decode is an error, but for the callers that want none.
Reply(c) ==
  IF /\ call[c].status = "ok" /\ call[c].op = "read"
     /\ ~Decodes(call[c].url, call[c].body)
  THEN "error"
  ELSE call[c].status

\* decode, and the switch of getWithCache, which caches the body before it is decoded.
Receive(c) ==
  /\ call[c].pc = "answered"
  /\ IF c \in Cached /\ Keeps(call[c].status)
     THEN call' = [call EXCEPT ![c].pc = "open"]
     ELSE Return(c, Reply(c), call[c].body)
  /\ UNCHANGED << content, edits, files >>

\* The first half of writeCache: os.WriteFile creates the file or empties it; an error is
\* ignored and leaves the file alone.
Open(c) ==
  /\ call[c].pc = "open"
  /\ \/ /\ files' = [files EXCEPT ![Key(c)] = Empty]
        /\ call' = [call EXCEPT ![c].pc = "write", ![c].opened = TRUE]
     \/ Return(c, Reply(c), call[c].body) /\ UNCHANGED files
  /\ UNCHANGED << content, edits >>

\* Writing at offset 0 of a file that another call has filled since leaves that
\* one's end behind the shorter of the two.
Over(file, body) ==
  IF file \in {Empty, Whole(body)} THEN {Whole(body)} ELSE {Whole(body), Torn}

\* The second half: the bytes, or only some of them, and that error is ignored.
Write(c) ==
  /\ call[c].pc = "write"
  /\ \E file \in Over(files[Key(c)], call[c].body) \cup {Torn}, short \in BOOLEAN :
       /\ IF short THEN file = Torn ELSE file \in Over(files[Key(c)], call[c].body)
       /\ files' = [files EXCEPT ![Key(c)] = file]
       /\ call' = [call EXCEPT ![c].pc = "done", ![c].spoilt = short,
                               ![c].res = Reply(c), ![c].out = call[c].body]
  /\ UNCHANGED << content, edits >>

\* Mutant: the fallback decodes every file into a list.
UsableAsList(file, u) == file.is = "whole" /\ file.body.url \in Lists

\* The file can be decoded into what the caller of u wants.
Usable(file, u) == file.is = "whole" /\ Decodes(u, file.body)

\* readCache: the answer if the file is there and can be decoded.  If it is not there, or
\* cannot be read ("unread"), the call returns the error of http.Do.
Fallback(c) ==
  /\ call[c].pc = "fallback"
  /\ LET file == files[Key(c)]
     IN  \/ /\ file.is = "absent"
            /\ Return(c, "unreachable", NoBody)
         \/ /\ file.is # "absent"
            /\ Return(c, "unread", NoBody)
         \/ /\ Usable(file, call[c].url)
            /\ Return(c, "ok", file.body)
         \/ /\ file.is # "absent" /\ ~Usable(file, call[c].url)
            /\ Return(c, "corrupt", NoBody)
  /\ UNCHANGED << content, edits, files >>

Serve(c) == ServeGet(c) \/ ServeChange(c)
getWithCache(c) == Receive(c) \/ Open(c) \/ Write(c) \/ Fallback(c)

Next ==
  \E c \in Calls :
    Begin(c) \/ Serve(c) \/ Unreachable(c) \/ Fails(c) \/ getWithCache(c)

Spec == Init /\ [][Next]_vars

-----------------------------------------------------------------------------
\* The types of the variables.
TypeOK ==
  /\ content \in [Urls -> 0..MaxEdits]
  /\ edits \in 0..MaxEdits
  /\ files \in [Keys -> [is : {"absent", "empty", "torn", "whole"}, body : Bodies]]
  /\ \A c \in Calls :
       /\ call[c].pc \in {"idle", "sent", "answered", "open", "write", "fallback", "done"}
       /\ call[c].op \in {"read", "change"} /\ call[c].url \in Urls \cup {<< >>}
       /\ {call[c].body, call[c].out} \subseteq Bodies
       /\ call[c].before \subseteq Calls

\* Answers of the server that an answer of call c may come from: its own, and for one
\* that was not answered those of calls with the same cache key.
Origins(c) ==
  {d \in Calls : /\ call[d].status = "ok"
                 /\ IF call[c].status = "ok" THEN d = c
                    ELSE d \in Cached /\ Key(d) = Key(c)}

\* client.go:438: a definition the client returns was sent by the server with success,
\* to this call or, while the server is unreachable, to one of the same cache key, and
\* it is not older than anything that had been returned for its URL when that call
\* began: neither an error, nor a torn file, nor a slow write is ever taken for one.
AnswerGiven ==
  \A c \in Calls :
    call[c].res = "ok" /\ call[c].op = "read" =>
      \E d \in Origins(c) :
        /\ call[d].body = call[c].out
        /\ \A e \in call[d].before :
             call[e].res = "ok" /\ call[e].out.url = call[c].out.url
             => call[e].out.ver <= call[c].out.ver

Writers(c) == {d \in Calls : call[d].opened /\ Key(d) = Key(c)}
Apart(d, e) == d \in call[e].before \/ e \in call[d].before

\* What writer d may have left in the file of call c that c cannot use: a write that failed
\* halfway, one that was interrupted or still going on when c began, one that overlapped
\* with another, or the answer to a URL of another shape.
Spoils(d, c) ==
  \/ call[d].spoilt
  \/ d \notin call[c].before
  \/ \E e \in Writers(c) \ {d} : ~Apart(d, e)
  \/ ~Decodes(call[c].url, call[d].body)

\* client.go:80: without the server a call that can read the cache is refused only if no
\* call of its key had written its answer before, or if a writer of that key spoilt it.
OfflineServed ==
  \A c \in Calls :
    /\ c \in Cached /\ call[c].res = "unreachable" =>
         Writers(c) \cap call[c].before = {}
    /\ call[c].res = "corrupt" => \E d \in Writers(c) : Spoils(d, c)
=============================================================================
