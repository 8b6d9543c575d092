------------------------ MODULE RegistryClientProofs ------------------------
(***************************************************************************)
(* Proofs about RegistryClient, for any number of calls and processes, any *)
(* URLs and however their cache keys collide, and any number of changes.   *)
(***************************************************************************)
EXTENDS RegistryClient, TLAPS

-----------------------------------------------------------------------------
(* Types. *)

PCs == {"idle", "sent", "answered", "open", "write", "fallback", "done"}
Statuses == {"none", "ok", "not_found", "error"}
Results == Statuses \cup {"unreachable", "unread", "corrupt"}

CallRecord ==
  [pc : PCs, op : {"read", "change"}, url : Urls \cup {<< >>}, status : Statuses, body : Bodies,
   res : Results, out : Bodies, before : SUBSET Calls, opened : BOOLEAN, spoilt : BOOLEAN]

FileRecord == [is : {"absent", "empty", "torn", "whole"}, body : Bodies]

TypeInv ==
  /\ content \in [Urls -> 0..MaxEdits]
  /\ edits \in 0..MaxEdits
  /\ files \in [Keys -> FileRecord]
  /\ call \in [Calls -> CallRecord]

LEMMA BodyFacts ==
    /\ NoBody \in Bodies /\ NoBody.ver = 0
    /\ \A b \in Bodies : b.ver \in 0..MaxEdits
    /\ \A u \in Urls, v \in 0..MaxEdits : [url |-> u, ver |-> v] \in Bodies
  BY ClientAssumption DEF ClientAssumption, NoBody, Bodies

LEMMA FileFacts ==
    /\ NoFile \in FileRecord /\ Empty \in FileRecord /\ Torn \in FileRecord
    /\ \A b \in Bodies : Whole(b) \in FileRecord /\ Whole(b).is = "whole" /\ Whole(b).body = b
    /\ NoFile.is = "absent" /\ Empty.is = "empty" /\ Torn.is = "torn"
  BY BodyFacts DEF NoFile, Empty, Torn, Whole, FileRecord

LEMMA NoCallFacts ==
    /\ NoCall \in CallRecord
    /\ NoCall.pc = "idle" /\ NoCall.op = "read" /\ NoCall.status = "none" /\ NoCall.body = NoBody
    /\ NoCall.res = "none" /\ NoCall.out = NoBody /\ NoCall.before = {}
    /\ NoCall.opened = FALSE /\ NoCall.spoilt = FALSE
  BY BodyFacts DEF NoCall, CallRecord, PCs, Statuses, Results

LEMMA InitType == Init => TypeInv
  BY ClientAssumption, FileFacts, NoCallFacts DEF ClientAssumption, Init, TypeInv

\* What each action does to the call that takes it.
LEMMA BeginEffect ==
    ASSUME TypeInv, NEW c \in Calls, Begin(c)
    PROVE  \E op \in OpsOf(c), u \in Urls :
             /\ call' \in [Calls -> CallRecord]
             /\ call'[c].pc = "sent" /\ call'[c].op = op /\ call'[c].url = u
             /\ call'[c].before = Returned /\ call'[c].status = "none" /\ call'[c].body = NoBody
             /\ call'[c].res = "none" /\ call'[c].out = NoBody
             /\ call'[c].opened = FALSE /\ call'[c].spoilt = FALSE
             /\ \A d \in Calls \ {c} : call'[d] = call[d]
  <1>1. PICK op \in OpsOf(c), u \in Urls :
          call' = [call EXCEPT ![c] = [NoCall EXCEPT !.pc = "sent", !.op = op, !.url = u,
                                                     !.before = Returned]]
    BY DEF Begin
  <1> DEFINE new == [NoCall EXCEPT !.pc = "sent", !.op = op, !.url = u, !.before = Returned]
  <1>2. op \in {"read", "change"} /\ Returned \in SUBSET Calls
    BY DEF OpsOf, Returned
  <1>3. /\ new \in CallRecord
        /\ new.pc = "sent" /\ new.op = op /\ new.url = u /\ new.before = Returned
        /\ new.status = "none" /\ new.body = NoBody /\ new.res = "none" /\ new.out = NoBody
        /\ new.opened = FALSE /\ new.spoilt = FALSE
    BY <1>2, BodyFacts DEF NoCall, CallRecord, PCs, Statuses, Results
  <1> HIDE DEF new
  <1>4. call' = [call EXCEPT ![c] = new]
    BY <1>1 DEF new
  <1> QED BY <1>3, <1>4 DEF TypeInv

\* A call goes on: what it asked for, and what had returned before, stay.
Becomes(c, pc, status, body) ==
  /\ call' \in [Calls -> CallRecord]
  /\ call'[c].pc = pc /\ call'[c].status = status /\ call'[c].body = body
  /\ call'[c].op = call[c].op /\ call'[c].url = call[c].url /\ call'[c].before = call[c].before
  /\ \A d \in Calls \ {c} : call'[d] = call[d]

Keeping(c) ==
  /\ call'[c].res = call[c].res /\ call'[c].out = call[c].out
  /\ call'[c].opened = call[c].opened /\ call'[c].spoilt = call[c].spoilt

Returning(c, res, out) ==
  /\ call'[c].res = res /\ call'[c].out = out
  /\ call'[c].opened = call[c].opened /\ call'[c].spoilt = call[c].spoilt

LEMMA CallIsRecord == ASSUME TypeInv, NEW c \in Calls PROVE call[c] \in CallRecord
  BY DEF TypeInv

LEMMA AnswerEffect ==
    ASSUME TypeInv, NEW c \in Calls, NEW status \in Statuses, NEW body \in Bodies,
           Answer(c, status, body)
    PROVE  Becomes(c, "answered", status, body) /\ Keeping(c)
  <1>1. [call[c] EXCEPT !.pc = "answered", !.status = status, !.body = body] \in CallRecord
    <2>1. call[c] \in CallRecord
      BY CallIsRecord
    <2> QED BY <2>1 DEF CallRecord, PCs
  <1>2. call' = [call EXCEPT ![c] = [call[c] EXCEPT !.pc = "answered", !.status = status,
                                                    !.body = body]]
    BY DEF Answer, TypeInv
  <1>3. call' \in [Calls -> CallRecord]
    BY <1>1, <1>2 DEF TypeInv
  <1> QED BY <1>3 DEF TypeInv, CallRecord, Answer, Becomes, Keeping

LEMMA ReturnEffect ==
    ASSUME TypeInv, NEW c \in Calls, NEW res \in Results, NEW out \in Bodies, Return(c, res, out)
    PROVE  Becomes(c, "done", call[c].status, call[c].body) /\ Returning(c, res, out)
  <1>1. [call[c] EXCEPT !.pc = "done", !.res = res, !.out = out] \in CallRecord
    <2>1. call[c] \in CallRecord
      BY CallIsRecord
    <2> QED BY <2>1 DEF CallRecord, PCs
  <1>2. call' = [call EXCEPT ![c] = [call[c] EXCEPT !.pc = "done", !.res = res, !.out = out]]
    BY DEF Return, TypeInv
  <1>3. call' \in [Calls -> CallRecord]
    BY <1>1, <1>2 DEF TypeInv
  <1> QED BY <1>3 DEF TypeInv, CallRecord, Return, Becomes, Returning

\* A call that gives its answer up.
LEMMA DropEffect ==
    ASSUME TypeInv, NEW c \in Calls, NEW pc \in PCs, NEW res \in Results, NEW status \in Statuses,
           call' = [call EXCEPT ![c].status = status, ![c].body = NoBody, ![c].pc = pc,
                                ![c].res = res]
    PROVE  Becomes(c, pc, status, NoBody) /\ Returning(c, res, call[c].out)
  <1>1. [call[c] EXCEPT !.status = status, !.body = NoBody, !.pc = pc, !.res = res] \in CallRecord
    <2>1. call[c] \in CallRecord /\ NoBody \in Bodies
      BY CallIsRecord, BodyFacts
    <2> QED BY <2>1 DEF CallRecord
  <1>2. call' = [call EXCEPT ![c] = [call[c] EXCEPT !.status = status, !.body = NoBody, !.pc = pc,
                                                    !.res = res]]
    BY DEF TypeInv
  <1>3. call' \in [Calls -> CallRecord]
    BY <1>1, <1>2 DEF TypeInv
  <1> QED BY <1>3 DEF TypeInv, CallRecord, Becomes, Returning

LEMMA UnreachableEffect ==
    ASSUME TypeInv, NEW c \in Calls, Unreachable(c)
    PROVE  \/ c \in Cached /\ Becomes(c, "fallback", "none", NoBody) /\ Returning(c, "none", call[c].out)
           \/ c \notin Cached /\ Becomes(c, "done", "none", NoBody)
                /\ Returning(c, "unreachable", call[c].out)
  <1>1. CASE c \in Cached
    <2>1. call' = [call EXCEPT ![c].status = "none", ![c].body = NoBody, ![c].pc = "fallback",
                               ![c].res = "none"]
      BY <1>1 DEF Unreachable
    <2> QED BY <1>1, <2>1, DropEffect DEF PCs, Results, Statuses
  <1>2. CASE c \notin Cached
    <2>1. call' = [call EXCEPT ![c].status = "none", ![c].body = NoBody, ![c].pc = "done",
                               ![c].res = "unreachable"]
      BY <1>2 DEF Unreachable
    <2> QED BY <1>2, <2>1, DropEffect DEF PCs, Results, Statuses
  <1> QED BY <1>1, <1>2

LEMMA FailsEffect ==
    ASSUME TypeInv, NEW c \in Calls, Fails(c)
    PROVE  Becomes(c, "done", "error", NoBody) /\ Returning(c, "error", call[c].out)
  <1>1. call' = [call EXCEPT ![c].status = "error", ![c].body = NoBody, ![c].pc = "done",
                             ![c].res = "error"]
    BY DEF Fails, TypeInv, CallRecord
  <1> QED BY <1>1, DropEffect DEF PCs, Results, Statuses

\* What a call returns is its status, or "error" for a body that does not decode.
LEMMA ReplyFacts ==
    ASSUME TypeInv, NEW c \in Calls
    PROVE  /\ Reply(c) \in {call[c].status, "error"}
           /\ Reply(c) \in Results /\ call[c].body \in Bodies
           /\ Reply(c) = "ok" => call[c].status = "ok"
           /\ Reply(c) = "ok" /\ call[c].op = "read" => Decodes(call[c].url, call[c].body)
  <1>1. call[c].status \in Statuses /\ call[c].body \in Bodies
    BY DEF TypeInv, CallRecord
  <1> QED BY <1>1 DEF Reply, Results, Statuses

LEMMA ReceiveEffect ==
    ASSUME TypeInv, NEW c \in Calls, Receive(c)
    PROVE  \/ c \in Cached /\ call[c].status = "ok"
                /\ Becomes(c, "open", call[c].status, call[c].body) /\ Keeping(c)
           \/ ~(c \in Cached /\ call[c].status = "ok")
                /\ Becomes(c, "done", call[c].status, call[c].body)
                /\ Returning(c, Reply(c), call[c].body)
  <1>1. CASE c \in Cached /\ Keeps(call[c].status)
    <2>1. call' = [call EXCEPT ![c].pc = "open"]
      BY <1>1 DEF Receive
    <2> QED BY <1>1, <2>1 DEF Keeps, TypeInv, CallRecord, PCs, Becomes, Keeping
  <1>2. CASE ~(c \in Cached /\ Keeps(call[c].status))
    <2>1. Reply(c) \in Results /\ call[c].body \in Bodies
      BY ReplyFacts
    <2>2. Return(c, Reply(c), call[c].body)
      BY <1>2 DEF Receive
    <2> QED BY <1>2, <2>1, <2>2, ReturnEffect DEF Keeps
  <1> QED BY <1>1, <1>2

LEMMA OpenEffect ==
    ASSUME TypeInv, NEW c \in Calls, Open(c)
    PROVE  \/ /\ Becomes(c, "write", call[c].status, call[c].body)
              /\ call'[c].res = call[c].res /\ call'[c].out = call[c].out
              /\ call'[c].opened = TRUE /\ call'[c].spoilt = call[c].spoilt
              /\ files' = [files EXCEPT ![Key(c)] = Empty]
           \/ /\ Becomes(c, "done", call[c].status, call[c].body)
              /\ Returning(c, Reply(c), call[c].body) /\ UNCHANGED files
  <1>1. CASE /\ files' = [files EXCEPT ![Key(c)] = Empty]
             /\ call' = [call EXCEPT ![c].pc = "write", ![c].opened = TRUE]
    <2>1. [call[c] EXCEPT !.pc = "write", !.opened = TRUE] \in CallRecord
      <3>1. call[c] \in CallRecord
        BY CallIsRecord
      <3> QED BY <3>1 DEF CallRecord, PCs
    <2>2. call' = [call EXCEPT ![c] = [call[c] EXCEPT !.pc = "write", !.opened = TRUE]]
      BY <1>1 DEF TypeInv
    <2>3. call' \in [Calls -> CallRecord]
      BY <2>1, <2>2 DEF TypeInv
    <2>4. /\ Becomes(c, "write", call[c].status, call[c].body)
          /\ call'[c].res = call[c].res /\ call'[c].out = call[c].out
          /\ call'[c].opened = TRUE /\ call'[c].spoilt = call[c].spoilt
      BY <1>1, <2>3 DEF TypeInv, CallRecord, Becomes
    <2> QED BY <1>1, <2>4
  <1>2. CASE Return(c, Reply(c), call[c].body) /\ UNCHANGED files
    <2>1. Reply(c) \in Results /\ call[c].body \in Bodies
      BY ReplyFacts
    <2> QED BY <1>2, <2>1, ReturnEffect
  <1> QED BY <1>1, <1>2 DEF Open

LEMMA WriteEffect ==
    ASSUME TypeInv, NEW c \in Calls, Write(c)
    PROVE  \E short \in BOOLEAN :
             /\ Becomes(c, "done", call[c].status, call[c].body)
             /\ call'[c].res = Reply(c) /\ call'[c].out = call[c].body
             /\ call'[c].opened = call[c].opened /\ call'[c].spoilt = short
             /\ \E file \in {Torn, Whole(call[c].body)} :
                  /\ files' = [files EXCEPT ![Key(c)] = file]
                  /\ file = Torn => short \/ files[Key(c)] # Empty
  <1>1. PICK file \in Over(files[Key(c)], call[c].body) \cup {Torn}, short \in BOOLEAN :
          /\ IF short THEN file = Torn ELSE file \in Over(files[Key(c)], call[c].body)
          /\ files' = [files EXCEPT ![Key(c)] = file]
          /\ call' = [call EXCEPT ![c].pc = "done", ![c].spoilt = short,
                                  ![c].res = Reply(c), ![c].out = call[c].body]
    BY DEF Write
  <1>2. /\ Becomes(c, "done", call[c].status, call[c].body)
        /\ call'[c].res = Reply(c) /\ call'[c].out = call[c].body
        /\ call'[c].opened = call[c].opened /\ call'[c].spoilt = short
    <2>1. PICK st \in Results, b \in Bodies : st = Reply(c) /\ b = call[c].body
      BY ReplyFacts
    <2>2. [call[c] EXCEPT !.pc = "done", !.spoilt = short, !.res = st, !.out = b] \in CallRecord
      <3>1. call[c] \in CallRecord
        BY CallIsRecord
      <3> QED BY <3>1 DEF CallRecord, PCs
    <2>3. call' = [call EXCEPT ![c].pc = "done", ![c].spoilt = short, ![c].res = st, ![c].out = b]
      BY <1>1, <2>1
    <2>4. call' = [call EXCEPT ![c] = [call[c] EXCEPT !.pc = "done", !.spoilt = short, !.res = st,
                                                      !.out = b]]
      BY <2>3 DEF TypeInv
    <2>5. call' \in [Calls -> CallRecord]
      BY <2>2, <2>4 DEF TypeInv
    <2> QED BY <2>1, <2>3, <2>5 DEF TypeInv, CallRecord, Becomes
  <1>3. Torn # Whole(call[c].body)
    BY DEF Torn, Whole
  <1>4. file \in {Torn, Whole(call[c].body)} /\ (file = Torn => short \/ files[Key(c)] # Empty)
    BY <1>1, <1>3 DEF Over
  <1> QED BY <1>1, <1>2, <1>4

FallbackResult(c, res, out) ==
  /\ res = "unreachable" => files[Key(c)].is = "absent"
  /\ res = "ok" => /\ files[Key(c)].is = "whole" /\ out = files[Key(c)].body
                   /\ Decodes(call[c].url, out)
  /\ res = "corrupt" => \/ files[Key(c)].is \in {"empty", "torn"}
                        \/ /\ files[Key(c)].is = "whole"
                           /\ ~Decodes(call[c].url, files[Key(c)].body)

LEMMA FallbackEffect ==
    ASSUME TypeInv, NEW c \in Calls, Fallback(c), Key(c) \in Keys
    PROVE  \E res \in {"unreachable", "unread", "ok", "corrupt"}, out \in Bodies :
             /\ Becomes(c, "done", call[c].status, call[c].body) /\ Returning(c, res, out)
             /\ FallbackResult(c, res, out)
  <1>1. files[Key(c)].is \in {"absent", "empty", "torn", "whole"} /\ files[Key(c)].body \in Bodies
    BY DEF TypeInv, FileRecord
  <1>2. PICK res \in {"unreachable", "unread", "ok", "corrupt"}, out \in Bodies :
             Return(c, res, out) /\ FallbackResult(c, res, out)
    BY <1>1, BodyFacts DEF Fallback, Usable, FallbackResult
  <1>3. Becomes(c, "done", call[c].status, call[c].body) /\ Returning(c, res, out)
    <2>1. res \in Results
      BY DEF Results, Statuses
    <2> QED BY <1>2, <2>1, ReturnEffect
  <1> QED BY <1>2, <1>3

-----------------------------------------------------------------------------
(* Where a call is tells what it holds: a status and a body from the       *)
(* server's answer on, a result at the end, an opened file from Open on.   *)

StepOK(c) ==
  /\ call[c].pc # "done" => call[c].res = "none" /\ ~call[c].spoilt
  /\ call[c].pc = "fallback" => c \in Cached /\ call[c].status = "none"
  /\ call[c].pc \in {"open", "write"} => c \in Cached /\ call[c].status = "ok"
  /\ call[c].pc = "write" => call[c].opened
  /\ call[c].opened => c \in Cached /\ call[c].status = "ok" /\ call[c].pc \in {"write", "done"}
  /\ call[c].status # "none" => call[c].pc \in {"answered", "open", "write", "done"}
  /\ call[c].pc # "idle" => call[c].url \in Urls
  /\ c \in Cached => call[c].op = "read"
  /\ call[c].op = "change" => call[c].body = NoBody /\ call[c].out = NoBody
  /\ call[c].before \subseteq Returned

StepInv == \A c \in Calls : StepOK(c)

\* A call that has returned stays as it is, and a call that was made stays the same call.
Onward ==
  \A d \in Calls :
    /\ call[d].pc = "done" => call'[d] = call[d]
    /\ call[d].pc # "idle" => /\ call'[d].pc # "idle" /\ call'[d].op = call[d].op
                              /\ call'[d].url = call[d].url /\ call'[d].before = call[d].before

LEMMA KeyType == ASSUME StepInv, NEW c \in Calls, call[c].pc # "idle" PROVE Key(c) \in Keys
  BY DEF StepInv, StepOK, Key, Keys

\* A call that goes on.
LEMMA BecomesOnward ==
    ASSUME TypeInv, NEW c \in Calls, NEW pc \in PCs \ {"idle"}, NEW status, NEW body,
           Becomes(c, pc, status, body), call[c].pc \notin {"idle", "done"}
    PROVE  Onward
  BY DEF Onward, Becomes

LEMMA OnwardReturned == ASSUME TypeInv, Onward PROVE Returned \subseteq Returned'
  BY DEF Onward, Returned

\* The calls that a step does not concern.
LEMMA OtherStep ==
    ASSUME TypeInv, StepInv, Onward, NEW d \in Calls, call'[d] = call[d]
    PROVE  StepOK(d)'
  <1>1. StepOK(d) /\ Returned \subseteq Returned'
    BY OnwardReturned DEF StepInv
  <1> QED BY <1>1 DEF StepOK

LEMMA BeginStep ==
    ASSUME TypeInv, StepInv, NEW c \in Calls, Begin(c)
    PROVE  TypeInv' /\ StepInv' /\ Onward
  <1>1. PICK op \in OpsOf(c), u \in Urls :
          /\ call' \in [Calls -> CallRecord]
          /\ call'[c].pc = "sent" /\ call'[c].op = op /\ call'[c].url = u
          /\ call'[c].before = Returned /\ call'[c].status = "none" /\ call'[c].body = NoBody
          /\ call'[c].res = "none" /\ call'[c].out = NoBody
          /\ call'[c].opened = FALSE /\ call'[c].spoilt = FALSE
          /\ \A d \in Calls \ {c} : call'[d] = call[d]
    BY BeginEffect
  <1>2. UNCHANGED << content, edits, files >> /\ call[c].pc = "idle"
    BY DEF Begin
  <1>3. TypeInv'
    BY <1>1, <1>2 DEF TypeInv
  <1>4. Onward
    BY <1>1, <1>2 DEF Onward
  <1>5. StepOK(c)'
    <2>1. c \in Cached => op = "read"
      BY DEF OpsOf
    <2>2. Returned \subseteq Returned'
      BY <1>4, OnwardReturned
    <2> QED BY <1>1, <2>1, <2>2 DEF StepOK
  <1> QED BY <1>1, <1>3, <1>4, <1>5, OtherStep DEF StepInv

LEMMA ServeStep ==
    ASSUME TypeInv, StepInv, NEW c \in Calls, Serve(c)
    PROVE  TypeInv' /\ StepInv' /\ Onward
  <1>1. call[c].pc = "sent" /\ UNCHANGED files
    BY DEF Serve, ServeGet, ServeChange
  <1>2. call[c].url \in Urls
    BY <1>1 DEF StepInv, StepOK
  <1>3. PICK status \in {"ok", "error", "not_found"}, body \in Bodies :
          Answer(c, status, body) /\ (call[c].op = "change" => body = NoBody)
    <2>1. CASE ServeGet(c)
      <3>1. [url |-> call[c].url, ver |-> content[call[c].url]] \in Bodies
        BY <1>2, BodyFacts DEF TypeInv
      <3> QED BY <2>1, <3>1, BodyFacts DEF ServeGet
    <2>2. CASE ServeChange(c)
      BY <2>2, BodyFacts DEF ServeChange
    <2> QED BY <2>1, <2>2 DEF Serve
  <1>4. Becomes(c, "answered", status, body) /\ Keeping(c)
    BY <1>3, AnswerEffect DEF Statuses
  <1>5. content' \in [Urls -> 0..MaxEdits] /\ edits' \in 0..MaxEdits
    <2>1. CASE UNCHANGED << content, edits >>
      BY <2>1 DEF TypeInv
    <2>2. CASE /\ edits < MaxEdits /\ edits' = edits + 1
               /\ \E shown \in {0, edits + 1} : content' = [content EXCEPT ![call[c].url] = shown]
      <3>1. edits + 1 \in 0..MaxEdits /\ 0 \in 0..MaxEdits
        BY <2>2, ClientAssumption DEF TypeInv, ClientAssumption
      <3> QED BY <2>2, <3>1 DEF TypeInv
    <2> QED BY <2>1, <2>2 DEF Serve, ServeGet, ServeChange
  <1>6. TypeInv'
    BY <1>1, <1>4, <1>5 DEF TypeInv, Becomes
  <1>7. Onward
    BY <1>1, <1>4, BecomesOnward DEF PCs
  <1>8. StepOK(c)'
    <2>1. Returned \subseteq Returned'
      BY <1>7, OnwardReturned
    <2>2. StepOK(c)
      BY DEF StepInv
    <2> QED BY <1>1, <1>3, <1>4, <2>1, <2>2 DEF StepOK, Becomes, Keeping
  <1> QED BY <1>4, <1>6, <1>7, <1>8, OtherStep DEF StepInv, Becomes

\* A call that returns, or waits for what the cache has.
LEMMA EndStep ==
    ASSUME TypeInv, StepInv, NEW c \in Calls, NEW pc \in {"done", "fallback"},
           NEW status \in Statuses, NEW body, NEW res, NEW out,
           Becomes(c, pc, status, body), Returning(c, res, out),
           call[c].pc \notin {"idle", "done"},
           UNCHANGED << content, edits, files >>,
           pc = "fallback" => c \in Cached /\ status = "none" /\ res = "none" /\ ~call[c].opened,
           call[c].opened => status = "ok",
           call[c].op = "change" => body = NoBody /\ out = NoBody
    PROVE  TypeInv' /\ StepInv' /\ Onward
  <1>1. TypeInv'
    BY DEF TypeInv, Becomes
  <1>2. Onward
    BY BecomesOnward DEF PCs
  <1>3. StepOK(c)'
    <2>1. Returned \subseteq Returned'
      BY <1>2, OnwardReturned
    <2>2. StepOK(c)
      BY DEF StepInv
    <2> QED BY <2>1, <2>2 DEF StepOK, Becomes, Returning
  <1> QED BY <1>1, <1>2, <1>3, OtherStep DEF StepInv, Becomes

\* The actions of the client.
LEMMA ClientStep ==
    ASSUME TypeInv, StepInv, NEW c \in Calls, Unreachable(c) \/ Fails(c) \/ getWithCache(c)
    PROVE  TypeInv' /\ StepInv' /\ Onward
  <1>1. StepOK(c)
    BY DEF StepInv
  <1>2. call[c].status \in Statuses
    BY DEF TypeInv, CallRecord
  <1>3. CASE Unreachable(c)
    <2>1. call[c].pc \in {"sent", "answered"} /\ UNCHANGED << content, edits, files >>
      BY <1>3 DEF Unreachable
    <2>2. ~call[c].opened /\ "none" \in Statuses
      BY <1>1, <2>1 DEF StepOK, Statuses
    <2>3. \/ c \in Cached /\ Becomes(c, "fallback", "none", NoBody) /\ Returning(c, "none", call[c].out)
          \/ Becomes(c, "done", "none", NoBody) /\ Returning(c, "unreachable", call[c].out)
      BY <1>3, UnreachableEffect
    <2> QED BY <1>1, <2>1, <2>2, <2>3, EndStep DEF StepOK
  <1>4. CASE Fails(c)
    <2>1. call[c].pc \in {"sent", "answered"} /\ UNCHANGED << content, edits, files >>
      BY <1>4 DEF Fails
    <2>2. ~call[c].opened /\ "error" \in Statuses
      BY <1>1, <2>1 DEF StepOK, Statuses
    <2>3. Becomes(c, "done", "error", NoBody) /\ Returning(c, "error", call[c].out)
      BY <1>4, FailsEffect
    <2> QED BY <1>1, <2>1, <2>2, <2>3, EndStep DEF StepOK
  <1>5. ASSUME call[c].pc \notin {"idle", "done"}, UNCHANGED << content, edits, files >>,
               NEW res, NEW out,
               Becomes(c, "done", call[c].status, call[c].body), Returning(c, res, out),
               call[c].op = "change" => out = NoBody
        PROVE  TypeInv' /\ StepInv' /\ Onward
    BY <1>1, <1>2, <1>5, EndStep DEF StepOK
  \* A call that goes on with its answer.
  <1>6. ASSUME NEW pc \in {"open", "write", "done"},
               Becomes(c, pc, call[c].status, call[c].body), c \in Cached,
               call[c].status = "ok", call[c].pc \notin {"idle", "done"},
               UNCHANGED << content, edits >>, files' \in [Keys -> FileRecord],
               pc # "done" => call'[c].res = "none" /\ ~call'[c].spoilt,
               pc = "open" => ~call'[c].opened, pc = "write" => call'[c].opened
        PROVE  TypeInv' /\ StepInv' /\ Onward
    <2>1. TypeInv'
      BY <1>6 DEF TypeInv, Becomes
    <2>2. Onward
      BY <1>6, BecomesOnward DEF PCs
    <2>3. Returned \subseteq Returned'
      BY <2>2, OnwardReturned
    <2>4. StepOK(c)'
      BY <1>1, <1>6, <2>3 DEF StepOK, Becomes
    <2> QED BY <1>6, <2>1, <2>2, <2>4, OtherStep DEF StepInv, Becomes
  <1>7. CASE Receive(c)
    <2>1. call[c].pc = "answered" /\ UNCHANGED << content, edits, files >>
      BY <1>7 DEF Receive
    <2>2. \/ c \in Cached /\ call[c].status = "ok"
               /\ Becomes(c, "open", call[c].status, call[c].body) /\ Keeping(c)
          \/ Becomes(c, "done", call[c].status, call[c].body)
               /\ Returning(c, Reply(c), call[c].body)
      BY <1>7, ReceiveEffect
    <2>3. files' \in [Keys -> FileRecord]
      BY <2>1 DEF TypeInv
    <2>4. call[c].res = "none" /\ ~call[c].spoilt /\ ~call[c].opened
      BY <1>1, <2>1 DEF StepOK
    <2>5. call[c].op = "change" => call[c].body = NoBody
      BY <1>1 DEF StepOK
    <2> QED BY <1>5, <1>6, <2>1, <2>2, <2>3, <2>4, <2>5 DEF Keeping
  <1>8. CASE Open(c)
    <2>1. call[c].pc = "open" /\ UNCHANGED << content, edits >> /\ c \in Cached
          /\ call[c].status = "ok" /\ call[c].res = "none" /\ ~call[c].spoilt
      BY <1>1, <1>8 DEF Open, StepOK
    <2>2. \/ /\ Becomes(c, "write", call[c].status, call[c].body)
             /\ call'[c].res = call[c].res /\ call'[c].opened = TRUE
             /\ call'[c].spoilt = call[c].spoilt
             /\ files' = [files EXCEPT ![Key(c)] = Empty]
          \/ Becomes(c, "done", call[c].status, call[c].body) /\ UNCHANGED files
      BY <1>8, OpenEffect
    <2>3. files' \in [Keys -> FileRecord]
      BY <2>2, FileFacts DEF TypeInv
    <2> QED BY <1>6, <2>1, <2>2, <2>3
  <1>9. CASE Write(c)
    <2>1. call[c].pc = "write" /\ UNCHANGED << content, edits >> /\ c \in Cached
          /\ call[c].status = "ok"
      BY <1>1, <1>9 DEF Write, StepOK
    <2>2. PICK file \in {Torn, Whole(call[c].body)} :
            /\ Becomes(c, "done", call[c].status, call[c].body)
            /\ files' = [files EXCEPT ![Key(c)] = file]
      BY <1>9, WriteEffect
    <2>3. files' \in [Keys -> FileRecord]
      <3>1. call[c].body \in Bodies
        BY DEF TypeInv, CallRecord
      <3>2. file \in FileRecord
        BY <3>1, FileFacts
      <3> QED BY <2>2, <3>2 DEF TypeInv
    <2> QED BY <1>6, <2>1, <2>2, <2>3
  <1>10. CASE Fallback(c)
    <2>1. call[c].pc = "fallback" /\ UNCHANGED << content, edits, files >> /\ c \in Cached
      BY <1>1, <1>10 DEF Fallback, StepOK
    <2>2. PICK res, out : /\ Becomes(c, "done", call[c].status, call[c].body)
                          /\ Returning(c, res, out)
      BY <1>10, <2>1, FallbackEffect, KeyType
    <2>3. call[c].op # "change"
      BY <1>1, <2>1 DEF StepOK
    <2> QED BY <1>5, <2>1, <2>2, <2>3
  <1> QED BY <1>3, <1>4, <1>7, <1>8, <1>9, <1>10 DEF getWithCache

LEMMA NextStep == TypeInv /\ StepInv /\ [Next]_vars => TypeInv' /\ StepInv' /\ Onward
  <1> SUFFICES ASSUME TypeInv, StepInv, [Next]_vars PROVE TypeInv' /\ StepInv' /\ Onward
    OBVIOUS
  <1>1. CASE UNCHANGED vars
    BY <1>1 DEF vars, TypeInv, StepInv, StepOK, Onward, Returned
  <1> QED BY <1>1, BeginStep, ServeStep, ClientStep DEF Next

LEMMA InitStep == Init => StepInv
  BY NoCallFacts DEF Init, StepInv, StepOK

\* Every variable keeps its type, the cached files included.
THEOREM TypeCorrect == Spec => []TypeOK
  <1>1. TypeInv => TypeOK
    BY DEF TypeInv, TypeOK, CallRecord, FileRecord, PCs
  <1> QED BY <1>1, InitType, InitStep, NextStep, PTL DEF Spec

-----------------------------------------------------------------------------
(* Answers.  A body that a call holds with success is the newest of its    *)
(* URL that the server can have shown: it is not older than what had been  *)
(* returned when the call began, nor newer than what is stored, unless the *)
(* server has none.  Whatever a file or a result holds is such a body.     *)

Kept(c) == call[c].status = "ok" /\ call[c].op = "read" /\ call[c].body # NoBody

VersionOK(c) ==
  Kept(c) =>
    /\ call[c].body.url \in Urls /\ call[c].body.ver <= edits
    /\ content[call[c].body.url] > 0 => call[c].body.ver <= content[call[c].body.url]
    /\ \A e \in call[c].before :
         call[e].res = "ok" /\ call[e].out.url = call[c].body.url
           => call[e].out.ver <= call[c].body.ver

\* Some call of key k was given the body, and is past the point where it could drop it.
Source(k, body) ==
  \E d \in Cached : /\ call[d].status = "ok" /\ Key(d) = k /\ call[d].body = body
                    /\ call[d].pc \in {"write", "done"} /\ call[d].opened

FileOK(k) == files[k].is = "whole" => Source(k, files[k].body)

OutOK(c) ==
  call[c].res = "ok" /\ call[c].op = "read" =>
    /\ call[c].out # NoBody
    /\ IF call[c].status = "ok" THEN call[c].out = call[c].body ELSE Source(Key(c), call[c].out)

AnswerInv ==
  /\ \A c \in Calls : VersionOK(c) /\ OutOK(c)
  /\ \A k \in Keys : FileOK(k)
  /\ \A u \in Urls : content[u] <= edits

\* From its write on, a call keeps what it holds; it is the only one to decide that it
\* opened a file, or that its write failed.
Settles ==
  \A d \in Calls :
    /\ call[d].pc \in {"write", "done"} =>
         /\ call'[d].pc \in {"write", "done"} /\ call'[d].url = call[d].url
         /\ call'[d].status = call[d].status /\ call'[d].body = call[d].body
         /\ call'[d].opened = call[d].opened
    /\ call[d].opened => call'[d].opened
    /\ call[d].spoilt => call'[d].spoilt

LEMMA SettlesStep == TypeInv /\ StepInv /\ [Next]_vars => Settles
  <1> SUFFICES ASSUME TypeInv, StepInv, [Next]_vars PROVE Settles
    OBVIOUS
  <1>1. CASE UNCHANGED vars
    BY <1>1 DEF vars, Settles
  <1>2. ASSUME NEW c \in Calls, call[c].pc \notin {"write", "done"},
               \A d \in Calls \ {c} : call'[d] = call[d]
        PROVE  Settles
    <2>1. ~call[c].opened /\ ~call[c].spoilt
      BY <1>2 DEF StepInv, StepOK
    <2> QED BY <1>2, <2>1 DEF Settles
  <1>3. ASSUME NEW c \in Calls, Begin(c) PROVE Settles
    BY <1>2, <1>3 DEF Begin
  <1>4. ASSUME NEW c \in Calls, Serve(c) PROVE Settles
    <2>1. call[c].pc = "sent"
      BY <1>4 DEF Serve, ServeGet, ServeChange
    <2>2. PICK status, body : Answer(c, status, body)
      BY <1>4 DEF Serve, ServeGet, ServeChange
    <2>3. \A d \in Calls \ {c} : call'[d] = call[d]
      BY <2>2 DEF Answer, TypeInv
    <2> QED BY <1>2, <2>1, <2>3
  <1>5. ASSUME NEW c \in Calls, Unreachable(c) \/ Fails(c) PROVE Settles
    <2>1. call[c].pc \notin {"write", "done"}
      BY <1>5 DEF Unreachable, Fails
    <2>2. \A d \in Calls \ {c} : call'[d] = call[d]
      BY <1>5, UnreachableEffect, FailsEffect DEF Becomes
    <2> QED BY <1>2, <2>1, <2>2
  <1>6. ASSUME NEW c \in Calls, Receive(c) \/ Open(c) \/ Fallback(c) PROVE Settles
    <2>1. call[c].pc \notin {"write", "done"}
      BY <1>6 DEF Receive, Open, Fallback
    <2>2. \A d \in Calls \ {c} : call'[d] = call[d]
      <3>1. CASE Receive(c) \/ Open(c)
        BY <3>1, ReceiveEffect, OpenEffect DEF Becomes
      <3>2. CASE Fallback(c)
        <4>1. Key(c) \in Keys
          BY <3>2, KeyType DEF Fallback
        <4> QED BY <3>2, <4>1, FallbackEffect DEF Becomes
      <3> QED BY <1>6, <3>1, <3>2
    <2> QED BY <1>2, <2>1, <2>2
  <1>7. ASSUME NEW c \in Calls, Write(c) PROVE Settles
    <2>1. /\ Becomes(c, "done", call[c].status, call[c].body)
          /\ call'[c].opened = call[c].opened /\ call[c].pc = "write"
      BY <1>7, WriteEffect DEF Write
    <2>2. ~call[c].spoilt
      BY <2>1 DEF StepInv, StepOK
    <2> QED BY <2>1, <2>2 DEF Settles, Becomes
  <1> QED BY <1>1, <1>3, <1>4, <1>5, <1>6, <1>7 DEF Next, getWithCache

LEMMA SourceStays ==
    ASSUME Settles, NEW k, NEW body, Source(k, body)
    PROVE  Source(k, body)'
  <1>1. PICK d \in Cached : /\ call[d].status = "ok" /\ Key(d) = k /\ call[d].body = body
                            /\ call[d].pc \in {"write", "done"} /\ call[d].opened
    BY DEF Source
  <1>2. /\ call'[d].pc \in {"write", "done"} /\ call'[d].url = call[d].url /\ call'[d].opened
        /\ call'[d].status = "ok" /\ call'[d].body = body
    BY <1>1 DEF Settles, Calls
  <1>3. Key(d)' = k
    BY <1>1, <1>2 DEF Key
  <1> QED BY <1>2, <1>3 DEF Source

\* What was returned with success is some call's body.
LEMMA OutIsKept ==
    ASSUME StepInv, AnswerInv, NEW e \in Calls, call[e].res = "ok", call[e].op = "read"
    PROVE  \E d \in Calls : Kept(d) /\ call[d].body = call[e].out
  <1>1. CASE call[e].status = "ok"
    BY <1>1 DEF AnswerInv, OutOK, Kept
  <1>2. CASE call[e].status # "ok"
    <2>1. PICK d \in Cached : call[d].status = "ok" /\ call[d].body = call[e].out
      BY <1>2 DEF AnswerInv, OutOK, Source
    <2>2. call[e].out # NoBody
      BY DEF AnswerInv, OutOK
    <2>3. d \in Calls /\ call[d].op = "read"
      BY DEF Calls, StepInv, StepOK
    <2> QED BY <2>1, <2>2, <2>3 DEF Kept
  <1> QED BY <1>1, <1>2

\* A body that is held on to stays in order while the server changes nothing of its URL,
\* or something newer than all.
LEMMA SameVersion ==
    ASSUME TypeInv, StepInv, Onward, AnswerInv, NEW d \in Calls,
           Kept(d)' => Kept(d) /\ call'[d].body = call[d].body,
           edits' \in Nat, edits <= edits',
           \A u \in Urls : content'[u] \in {content[u], 0} \/ content'[u] = edits + 1
    PROVE  VersionOK(d)'
  <1> SUFFICES ASSUME Kept(d)' PROVE VersionOK(d)'
    BY DEF VersionOK
  <1>1. Kept(d) /\ call'[d].body = call[d].body /\ VersionOK(d) /\ call[d].pc # "idle"
    BY DEF AnswerInv, Kept, StepInv, StepOK
  <1>2. call'[d].before = call[d].before /\ \A e \in call[d].before : call'[e] = call[e]
    BY <1>1 DEF Onward, StepInv, StepOK, Returned
  <1>3. call[d].body.ver \in Nat /\ edits \in Nat
    BY BodyFacts, ClientAssumption DEF TypeInv, CallRecord, ClientAssumption
  <1>4. call[d].body.url \in Urls /\ content[call[d].body.url] \in Nat
    BY <1>1, ClientAssumption DEF VersionOK, TypeInv, ClientAssumption
  <1>5. call[d].body.ver <= edits'
    BY <1>1, <1>3 DEF VersionOK
  <1>6. content'[call[d].body.url] > 0 => call[d].body.ver <= content'[call[d].body.url]
    BY <1>1, <1>3, <1>4 DEF VersionOK
  <1> QED BY <1>1, <1>2, <1>4, <1>5, <1>6 DEF VersionOK


\* Every step but the server's leaves the definitions alone, and no body is given out.
LEMMA ClientVersions ==
    ASSUME TypeInv, StepInv, Onward, AnswerInv, UNCHANGED << content, edits >>,
           \A d \in Calls : Kept(d)' => Kept(d) /\ call'[d].body = call[d].body
    PROVE  /\ \A d \in Calls : VersionOK(d)'
           /\ \A u \in Urls : content'[u] <= edits'
  <1>1. edits' \in Nat /\ edits <= edits'
    BY ClientAssumption DEF TypeInv, ClientAssumption
  <1>2. \A u \in Urls : content'[u] \in {content[u], 0} \/ content'[u] = edits + 1
    OBVIOUS
  <1> QED BY <1>1, <1>2, SameVersion DEF AnswerInv

\* What the calls other than c have returned stays in order.
LEMMA OutsStay ==
    ASSUME Settles, AnswerInv, NEW c \in Calls, \A d \in Calls \ {c} : call'[d] = call[d],
           OutOK(c)'
    PROVE  \A d \in Calls : OutOK(d)'
  <1> SUFFICES ASSUME NEW d \in Calls \ {c} PROVE OutOK(d)'
    OBVIOUS
  <1>1. OutOK(d) /\ call'[d] = call[d] /\ Key(d)' = Key(d)
    BY DEF AnswerInv, Key
  <1>2. PICK k, out : k = Key(d) /\ out = call[d].out
    OBVIOUS
  <1>3. Source(k, out) => Source(k, out)'
    BY SourceStays
  <1>4. Source(Key(d), call[d].out) => Source(Key(d), call[d].out)'
    BY <1>1, <1>2, <1>3 DEF Source
  <1> QED BY <1>1, <1>4 DEF OutOK

LEMMA FileStays ==
    ASSUME Settles, AnswerInv, NEW k \in Keys, files'[k] = files[k] \/ files'[k].is # "whole"
    PROVE  FileOK(k)'
  <1> SUFFICES ASSUME files'[k] = files[k], files[k].is = "whole" PROVE FileOK(k)'
    BY DEF FileOK
  <1>1. Source(k, files[k].body)
    BY DEF AnswerInv, FileOK
  <1> QED BY <1>1, SourceStays DEF FileOK, Source

\* The server's step.
LEMMA ServeAnswers ==
    ASSUME TypeInv, StepInv, Onward, Settles, AnswerInv, NEW c \in Calls, Serve(c)
    PROVE  AnswerInv'
  <1>1. /\ call[c].pc = "sent" /\ UNCHANGED files /\ call[c].url \in Urls
        /\ call[c].res = "none" /\ call[c].before \subseteq Returned
    BY DEF Serve, ServeGet, ServeChange, StepInv, StepOK
  <1>2. edits \in Nat /\ content[call[c].url] \in Nat /\ \A u \in Urls : content[u] \in Nat
    BY <1>1, ClientAssumption DEF TypeInv, ClientAssumption
  <1>3. PICK status \in {"ok", "error", "not_found"}, body \in Bodies :
          /\ Answer(c, status, body)
          /\ status = "ok" /\ call[c].op = "read" /\ body # NoBody =>
               /\ body = [url |-> call[c].url, ver |-> content[call[c].url]]
               /\ content[call[c].url] > 0 /\ UNCHANGED << content, edits >>
    <2>1. CASE ServeGet(c)
      <3>1. [url |-> call[c].url, ver |-> content[call[c].url]] \in Bodies
        BY <1>1, BodyFacts DEF TypeInv
      <3> QED BY <2>1, <3>1, BodyFacts DEF ServeGet
    <2>2. CASE ServeChange(c)
      BY <2>2, BodyFacts DEF ServeChange
    <2> QED BY <2>1, <2>2 DEF Serve
  <1>4. Becomes(c, "answered", status, body) /\ Keeping(c)
    BY <1>3, AnswerEffect DEF Statuses
  <1>5. /\ edits' \in Nat /\ edits <= edits'
        /\ \A u \in Urls : content'[u] \in {content[u], 0} \/ content'[u] = edits + 1
        /\ \A u \in Urls : content'[u] <= edits'
    <2>1. CASE UNCHANGED << content, edits >>
      BY <1>2, <2>1 DEF AnswerInv
    <2>2. CASE /\ edits < MaxEdits /\ edits' = edits + 1
               /\ \E shown \in {0, edits + 1} : content' = [content EXCEPT ![call[c].url] = shown]
      <3>1. PICK shown \in {0, edits + 1} : content' = [content EXCEPT ![call[c].url] = shown]
        BY <2>2
      <3>2. \A u \in Urls : content'[u] = content[u] \/ content'[u] = shown
        BY <3>1 DEF TypeInv
      <3>3. \A u \in Urls : content[u] <= edits
        BY DEF AnswerInv
      <3> QED BY <1>2, <2>2, <3>2, <3>3
    <2> QED BY <2>1, <2>2 DEF Serve, ServeGet, ServeChange
  <1>6. ASSUME NEW d \in Calls \ {c} PROVE VersionOK(d)'
    BY <1>4, <1>5, SameVersion DEF Becomes, Kept
  <1>7. VersionOK(c)'
    <2> SUFFICES ASSUME status = "ok", call[c].op = "read", body # NoBody PROVE VersionOK(c)'
      BY <1>4 DEF VersionOK, Kept, Becomes
    <2>1. /\ body.url = call[c].url /\ body.ver = content[call[c].url]
          /\ content[call[c].url] > 0 /\ UNCHANGED << content, edits >>
      BY <1>3
    <2>2. ASSUME NEW e \in call[c].before, call[e].res = "ok", call[e].out.url = body.url
          PROVE  call[e].out.ver <= body.ver
      <3>1. e \in Calls
        BY <1>1 DEF Returned
      <3>2. CASE call[e].op = "read"
        <4>1. PICK d \in Calls : Kept(d) /\ call[d].body = call[e].out
          BY <2>2, <3>1, <3>2, OutIsKept
        <4>2. VersionOK(d)
          BY <4>1 DEF AnswerInv
        <4> QED BY <2>1, <2>2, <4>1, <4>2 DEF VersionOK
      <3>3. CASE call[e].op # "read"
        <4>1. call[e].out = NoBody
          BY <3>1, <3>3 DEF StepInv, StepOK, TypeInv, CallRecord
        <4> QED BY <1>2, <2>1, <4>1, BodyFacts
      <3> QED BY <3>2, <3>3
    <2>3. \A e \in call[c].before : e \in Calls /\ call'[e] = call[e]
      BY <1>1 DEF Onward, Returned
    <2>4. call'[c].body = body /\ call'[c].before = call[c].before
      BY <1>4 DEF Becomes
    <2>5. content[call[c].url] <= edits
      BY <1>1 DEF AnswerInv
    <2> QED BY <1>1, <1>2, <2>1, <2>2, <2>3, <2>4, <2>5 DEF VersionOK
  <1>8. OutOK(c)'
    BY <1>1, <1>4 DEF OutOK, Keeping
  <1>9. \A d \in Calls : OutOK(d)'
    BY <1>4, <1>8, OutsStay DEF Becomes
  <1>10. \A k \in Keys : FileOK(k)'
    BY <1>1, FileStays
  <1> QED BY <1>5, <1>6, <1>7, <1>9, <1>10 DEF AnswerInv

\* A step of the client that keeps or drops what the call holds.
LEMMA ClientAnswers ==
    ASSUME TypeInv, StepInv, Onward, Settles, AnswerInv, NEW c \in Calls,
           \A d \in Calls \ {c} : call'[d] = call[d],
           UNCHANGED << content, edits >>, OutOK(c)', \A k \in Keys : FileOK(k)',
           Kept(c)' => Kept(c) /\ call'[c].body = call[c].body
    PROVE  AnswerInv'
  <1>1. \A d \in Calls : Kept(d)' => Kept(d) /\ call'[d].body = call[d].body
    BY DEF Kept
  <1>2. (\A d \in Calls : VersionOK(d)') /\ \A u \in Urls : content'[u] <= edits'
    BY <1>1, ClientVersions
  <1> QED BY <1>2, OutsStay DEF AnswerInv

LEMMA GetAnswers ==
    ASSUME TypeInv, StepInv, Onward, Settles, AnswerInv, NEW c \in Calls,
           Unreachable(c) \/ Fails(c) \/ getWithCache(c)
    PROVE  AnswerInv'
  <1>1. StepOK(c)
    BY DEF StepInv
  <1>2. ASSUME NEW pc, NEW status, NEW body, Becomes(c, pc, status, body),
               status = "ok" => status = call[c].status /\ body = call[c].body,
               UNCHANGED << content, edits >>, OutOK(c)', \A k \in Keys : FileOK(k)'
        PROVE  AnswerInv'
    BY <1>2, ClientAnswers DEF Becomes, Kept
  <1>3. ASSUME UNCHANGED files PROVE \A k \in Keys : FileOK(k)'
    BY <1>3, FileStays
  <1>4. CASE Unreachable(c) \/ Fails(c)
    <2>1. UNCHANGED << content, edits, files >>
      BY <1>4 DEF Unreachable, Fails
    <2>2. PICK pc \in {"fallback", "done"}, status \in {"none", "error"} :
            Becomes(c, pc, status, NoBody) /\ call'[c].res # "ok"
      BY <1>4, UnreachableEffect, FailsEffect DEF Returning
    <2>3. OutOK(c)'
      BY <2>2 DEF OutOK
    <2> QED BY <1>2, <1>3, <2>1, <2>2, <2>3
  <1>5. CASE Receive(c)
    <2>1. UNCHANGED << content, edits, files >> /\ call[c].res = "none"
      BY <1>1, <1>5 DEF Receive, StepOK
    <2>2. PICK pc : /\ Becomes(c, pc, call[c].status, call[c].body)
                    /\ \/ call'[c].res = "none"
                       \/ call'[c].res = Reply(c) /\ call'[c].out = call[c].body
      BY <1>5, <2>1, ReceiveEffect DEF Returning, Keeping
    <2>3. OutOK(c)'
      BY <2>2, ReplyFacts DEF OutOK, Becomes, Decodes
    <2> QED BY <1>2, <1>3, <2>1, <2>2, <2>3
  <1>6. CASE Open(c)
    <2>1. UNCHANGED << content, edits >> /\ call[c].res = "none" /\ Key(c) \in Keys
      BY <1>1, <1>6, KeyType DEF Open, StepOK
    <2>2. PICK pc : /\ Becomes(c, pc, call[c].status, call[c].body)
                    /\ \/ call'[c].res = "none"
                       \/ call'[c].res = Reply(c) /\ call'[c].out = call[c].body
                    /\ UNCHANGED files \/ files' = [files EXCEPT ![Key(c)] = Empty]
      BY <1>6, <2>1, OpenEffect DEF Returning
    <2>3. OutOK(c)'
      BY <2>2, ReplyFacts DEF OutOK, Becomes, Decodes
    <2>4. ASSUME NEW k \in Keys PROVE FileOK(k)'
      <3>1. files'[k] = files[k] \/ files'[k] = Empty
        BY <2>2 DEF TypeInv
      <3> QED BY <3>1, FileStays, FileFacts
    <2> QED BY <1>2, <2>1, <2>2, <2>3, <2>4
  <1>7. CASE Write(c)
    <2>1. /\ UNCHANGED << content, edits >> /\ call[c].status = "ok" /\ Key(c) \in Keys
          /\ c \in Cached /\ call[c].opened
      BY <1>1, <1>7, KeyType DEF Write, StepOK
    <2>2. PICK file \in {Torn, Whole(call[c].body)} :
            /\ Becomes(c, "done", call[c].status, call[c].body)
            /\ call'[c].res = Reply(c) /\ call'[c].out = call[c].body
            /\ call'[c].opened = call[c].opened
            /\ files' = [files EXCEPT ![Key(c)] = file]
      BY <1>7, WriteEffect
    <2>3. OutOK(c)'
      BY <2>1, <2>2, ReplyFacts DEF OutOK, Becomes, Decodes
    <2>4. ASSUME NEW k \in Keys PROVE FileOK(k)'
      <3>1. CASE files'[k] = files[k] \/ files'[k] = Torn
        BY <3>1, FileStays, FileFacts
      <3>2. CASE k = Key(c) /\ files'[k] = Whole(call[c].body)
        <4>1. call[c].body \in Bodies
          BY DEF TypeInv, CallRecord
        <4>2. files'[k].body = call[c].body
          BY <3>2, <4>1, FileFacts
        <4>3. Key(c)' = k
          BY <2>2, <3>2 DEF Key, Becomes
        <4>4. Source(k, call[c].body)'
          BY <2>1, <2>2, <4>3 DEF Source, Becomes
        <4>5. \E d \in Cached : /\ call'[d].status = "ok" /\ Key(d)' = k
                                /\ call'[d].body = files'[k].body
                                /\ call'[d].pc \in {"write", "done"} /\ call'[d].opened
          BY <2>1, <2>2, <4>2, <4>3 DEF Becomes
        <4> QED BY <4>5 DEF FileOK, Source
      <3> QED BY <2>1, <2>2, <3>1, <3>2 DEF TypeInv
    <2> QED BY <1>2, <2>1, <2>2, <2>3, <2>4
  <1>8. CASE Fallback(c)
    <2>1. UNCHANGED << content, edits, files >> /\ Key(c) \in Keys
      BY <1>8, KeyType DEF Fallback
    <2>2. PICK res, out :
             /\ Becomes(c, "done", call[c].status, call[c].body) /\ Returning(c, res, out)
             /\ res = "ok" => /\ files[Key(c)].is = "whole" /\ out = files[Key(c)].body
                              /\ out # NoBody
      BY <1>8, <2>1, FallbackEffect DEF FallbackResult, Decodes
    <2>3. OutOK(c)'
      <3> SUFFICES ASSUME res = "ok" PROVE Source(Key(c), call[c].out)' /\ call'[c].status # "ok"
        BY <2>2 DEF OutOK, Returning
      <3>1. call'[c].status # "ok"
        BY <1>1, <1>8, <2>2 DEF Fallback, StepOK, Becomes
      <3>2. PICK k : k = Key(c)
        OBVIOUS
      <3>3. Source(k, out)
        BY <2>1, <2>2, <3>2 DEF AnswerInv, FileOK
      <3>4. Source(k, out)' /\ Key(c)' = k
        BY <2>2, <3>2, <3>3, SourceStays DEF Becomes, Key
      <3> QED BY <2>2, <3>1, <3>4 DEF Returning, Source
    <2> QED BY <1>2, <1>3, <2>1, <2>2, <2>3
  <1> QED BY <1>4, <1>5, <1>6, <1>7, <1>8 DEF getWithCache

LEMMA BeginAnswers ==
    ASSUME TypeInv, StepInv, Onward, Settles, AnswerInv, NEW c \in Calls, Begin(c)
    PROVE  AnswerInv'
  <1>1. /\ call'[c].status = "none" /\ call'[c].res = "none"
        /\ \A d \in Calls \ {c} : call'[d] = call[d]
    BY BeginEffect
  <1>2. UNCHANGED << content, edits, files >>
    BY DEF Begin
  <1>3. OutOK(c)' /\ (Kept(c)' => Kept(c) /\ call'[c].body = call[c].body)
    BY <1>1 DEF OutOK, Kept
  <1>4. \A k \in Keys : FileOK(k)'
    BY <1>2, FileStays
  <1> QED BY <1>1, <1>2, <1>3, <1>4, ClientAnswers

LEMMA AnswersStep == TypeInv /\ StepInv /\ AnswerInv /\ [Next]_vars => AnswerInv'
  <1> SUFFICES ASSUME TypeInv, StepInv, AnswerInv, [Next]_vars PROVE AnswerInv'
    OBVIOUS
  <1>1. Onward /\ Settles
    BY NextStep, SettlesStep
  <1>2. CASE UNCHANGED vars
    BY <1>2 DEF vars, AnswerInv, VersionOK, Kept, OutOK, FileOK, Source, Key
  <1> QED BY <1>1, <1>2, BeginAnswers, ServeAnswers, GetAnswers DEF Next

LEMMA InitAnswers == Init => AnswerInv
  BY NoCallFacts, FileFacts DEF Init, AnswerInv, VersionOK, Kept, OutOK, FileOK

\* A definition the client returns was sent by the server with success, to this call or, while
\* the server is unreachable, to one of the same cache key, and it is not older than anything
\* that had been returned for its URL when that call began: client.go:438, for every number of
\* calls and processes that share the directory and however the keys of URLs collide.
THEOREM AnswersGiven == Spec => []AnswerGiven
  <1>1. TypeInv /\ StepInv /\ AnswerInv => AnswerGiven
    <2> SUFFICES ASSUME TypeInv, StepInv, AnswerInv, NEW c \in Calls,
                        call[c].res = "ok", call[c].op = "read"
                 PROVE  \E d \in Origins(c) :
                          /\ call[d].body = call[c].out
                          /\ \A e \in call[d].before :
                               call[e].res = "ok" /\ call[e].out.url = call[c].out.url
                               => call[e].out.ver <= call[c].out.ver
      BY DEF AnswerGiven
    <2>1. PICK d \in Origins(c) : call[d].body = call[c].out /\ Kept(d)
      <3>1. CASE call[c].status = "ok"
        BY <3>1 DEF AnswerInv, OutOK, Origins, Kept
      <3>2. CASE call[c].status # "ok"
        <4>1. PICK d \in Cached : /\ call[d].status = "ok" /\ Key(d) = Key(c)
                                  /\ call[d].body = call[c].out
          BY <3>2 DEF AnswerInv, OutOK, Source
        <4>2. d \in Calls /\ call[d].op = "read"
          BY DEF Calls, StepInv, StepOK
        <4>3. call[c].out # NoBody
          BY DEF AnswerInv, OutOK
        <4> QED BY <3>2, <4>1, <4>2, <4>3 DEF Origins, Kept
      <3> QED BY <3>1, <3>2
    <2>2. d \in Calls
      BY DEF Origins
    <2>3. VersionOK(d)
      BY <2>2 DEF AnswerInv
    <2> QED BY <2>1, <2>3 DEF VersionOK
  <1> QED BY <1>1, InitType, InitStep, InitAnswers, NextStep, AnswersStep, PTL DEF Spec

-----------------------------------------------------------------------------
(* The cache directory.  A file that was opened is there; one that is      *)
(* empty is being written, and one that a writer did not find empty, or    *)
(* that is torn, is the work of two writers that overlapped, or of one     *)
(* that failed.                                                            *)

Overlaps(d) == \E e \in Writers(d) \ {d} : ~Apart(d, e)

OpenedOK(d) ==
  /\ call[d].opened => files[Key(d)].is # "absent"
  /\ call[d].pc = "write" /\ files[Key(d)].is # "empty" => Overlaps(d)

DirtyOK(k) ==
  /\ files[k].is = "empty" =>
       files[k] = Empty /\ \E d \in Calls : call[d].pc = "write" /\ Key(d) = k
  /\ files[k].is = "torn" =>
       \E d \in Calls : /\ call[d].opened /\ Key(d) = k
                        /\ call[d].spoilt \/ Overlaps(d)

OfflineInv ==
  /\ \A d \in Calls : OpenedOK(d)
  /\ \A k \in Keys : DirtyOK(k)
  /\ OfflineServed

\* The writers of a key stay, and one of them that has returned was one before it returned.
LEMMA WritersStay ==
    ASSUME TypeInv, StepInv, Onward, Settles, NEW c \in Calls, call[c].pc # "idle"
    PROVE  /\ Key(c)' = Key(c)
           /\ \A d \in Calls : d \in Writers(c) => d \in Writers(c)'
           /\ \A d \in Returned : d \in Writers(c)' => d \in Writers(c)
  <1>1. Key(c)' = Key(c)
    BY DEF Onward, Key
  <1>2. ASSUME NEW d \in Calls, d \in Writers(c) PROVE d \in Writers(c)'
    <2>1. call[d].opened /\ Key(d) = Key(c) /\ call[d].pc # "idle"
      BY <1>2 DEF Writers, StepInv, StepOK
    <2>2. call'[d].opened /\ Key(d)' = Key(d)
      BY <2>1 DEF Settles, Onward, Key
    <2> QED BY <1>1, <2>1, <2>2 DEF Writers
  <1>3. ASSUME NEW d \in Returned, d \in Writers(c)' PROVE d \in Writers(c)
    <2>1. d \in Calls /\ call'[d] = call[d]
      BY DEF Returned, Onward
    <2>2. Key(d)' = Key(d) /\ call'[d].opened /\ Key(d)' = Key(c)'
      BY <1>3, <2>1 DEF Writers, Key
    <2> QED BY <1>1, <2>1, <2>2 DEF Writers
  <1> QED BY <1>1, <1>2, <1>3

\* Writers that overlap stay so: neither will ever have returned before the other began.
LEMMA OverlapsStay ==
    ASSUME TypeInv, StepInv, Onward, Settles, NEW d \in Calls, call[d].opened, Overlaps(d)
    PROVE  Overlaps(d)'
  <1>1. PICK e \in Calls : e \in Writers(d) /\ e # d /\ ~Apart(d, e)
    BY DEF Overlaps, Writers
  <1>2. call[d].pc # "idle" /\ call[e].pc # "idle"
    BY <1>1 DEF Writers, StepInv, StepOK
  <1>3. e \in Writers(d)'
    BY <1>1, <1>2, WritersStay
  <1>4. ~Apart(d, e)'
    BY <1>1, <1>2 DEF Apart, Onward
  <1> QED BY <1>1, <1>3, <1>4 DEF Overlaps

\* A writer that spoils a call's file stays so.
LEMMA SpoilsStays ==
    ASSUME TypeInv, StepInv, Onward, Settles, NEW c \in Calls, call[c].pc # "idle",
           NEW d \in Writers(c), Spoils(d, c)
    PROVE  d \in Writers(c)' /\ Spoils(d, c)'
  <1>1. d \in Calls /\ call[d].opened /\ d \in Writers(c)'
    BY WritersStay DEF Writers
  <1>2. /\ call'[c].before = call[c].before /\ call'[c].url = call[c].url
        /\ call[d].spoilt => call'[d].spoilt
        /\ call'[d].body = call[d].body
    BY <1>1 DEF Onward, Settles, StepInv, StepOK
  <1>3. CASE call[d].spoilt \/ d \notin call[c].before \/ ~Decodes(call[c].url, call[d].body)
    BY <1>1, <1>2, <1>3 DEF Spoils
  <1>4. CASE \E e \in Writers(c) \ {d} : ~Apart(d, e)
    <2>1. PICK e \in Writers(c) \ {d} : ~Apart(d, e)
      BY <1>4
    <2>2. e \in Calls /\ e \in Writers(c)'
      BY <2>1, WritersStay DEF Writers
    <2>3. call[d].pc # "idle" /\ call[e].pc # "idle"
      BY <1>1, <2>1 DEF Writers, StepInv, StepOK
    <2>4. ~Apart(d, e)'
      BY <1>1, <2>1, <2>2, <2>3 DEF Apart, Onward
    <2> QED BY <1>1, <2>1, <2>2, <2>4 DEF Spoils
  <1> QED BY <1>3, <1>4 DEF Spoils

LEMMA OfflineStays ==
    ASSUME TypeInv, StepInv, Onward, Settles, NEW c \in Calls, call[c].pc = "done",
           OfflineServed
    PROVE  /\ c \in Cached /\ call'[c].res = "unreachable" =>
                (Writers(c) \cap call[c].before)' = {}
           /\ call'[c].res = "corrupt" => \E d \in Writers(c)' : Spoils(d, c)'
  <1>1. call'[c] = call[c] /\ call[c].before \subseteq Returned
    BY DEF Onward, StepInv, StepOK
  <1>2. ASSUME c \in Cached, call[c].res = "unreachable"
        PROVE  (Writers(c) \cap call[c].before)' = {}
    <2>1. Writers(c) \cap call[c].before = {}
      BY <1>2 DEF OfflineServed
    <2>2. ASSUME NEW d \in call[c].before, d \in Writers(c)' PROVE FALSE
      BY <1>1, <2>1, <2>2, WritersStay
    <2> QED BY <1>1, <2>2
  <1>3. ASSUME call[c].res = "corrupt" PROVE \E d \in Writers(c)' : Spoils(d, c)'
    <2>1. PICK d \in Writers(c) : Spoils(d, c)
      BY <1>3 DEF OfflineServed
    <2> QED BY <2>1, SpoilsStays
  <1> QED BY <1>1, <1>2, <1>3

\* Only a call that returns now, from the cache, can disturb OfflineServed.
LEMMA ServedStep ==
    ASSUME TypeInv, StepInv, StepInv', Onward, Settles, OfflineServed, NEW c \in Calls,
           \A d \in Calls \ {c} : call'[d] = call[d],
           call[c].pc # "done",
           call'[c].res = "unreachable" => c \notin Cached, call'[c].res # "corrupt"
    PROVE  OfflineServed'
  <1> SUFFICES ASSUME NEW d \in Calls
               PROVE  /\ d \in Cached /\ call'[d].res = "unreachable" =>
                           (Writers(d) \cap call[d].before)' = {}
                      /\ call'[d].res = "corrupt" => \E f \in Writers(d)' : Spoils(f, d)'
    BY DEF OfflineServed
  <1>1. CASE d = c
    BY <1>1
  <1>2. CASE d # c /\ call[d].pc # "done"
    BY <1>2 DEF StepInv, StepOK
  <1>3. CASE call[d].pc = "done"
    BY <1>3, OfflineStays
  <1> QED BY <1>1, <1>2, <1>3

\* A step of one call that leaves the files alone and is not a write.
LEMMA FilesStay ==
    ASSUME TypeInv, StepInv, StepInv', Onward, Settles, OfflineInv, NEW c \in Calls,
           \A d \in Calls \ {c} : call'[d] = call[d], call[c].pc # "write",
           call'[c].pc # "write", ~call'[c].opened \/ call'[c].opened = call[c].opened,
           UNCHANGED files
    PROVE  (\A d \in Calls : OpenedOK(d)') /\ (\A k \in Keys : DirtyOK(k)')
  <1>1. ASSUME NEW d \in Calls PROVE OpenedOK(d)'
    <2>1. OpenedOK(d)
      BY DEF OfflineInv
    <2>2. (call'[d].opened => call[d].opened) /\ (call'[d].pc = "write" => call[d].pc = "write")
      OBVIOUS
    <2>3. call[d].opened => Key(d)' = Key(d)
      BY DEF StepInv, StepOK, Onward, Key
    <2>4. call[d].pc = "write" => call[d].opened
      BY DEF StepInv, StepOK
    <2>5. call[d].opened /\ Overlaps(d) => Overlaps(d)'
      BY OverlapsStay
    <2> QED BY <2>1, <2>2, <2>3, <2>4, <2>5 DEF OpenedOK
  <1>2. ASSUME NEW k \in Keys PROVE DirtyOK(k)'
    <2>1. DirtyOK(k) /\ files'[k] = files[k]
      BY DEF OfflineInv
    <2>2. ASSUME NEW d \in Calls, call[d].pc = "write", Key(d) = k
          PROVE  call'[d].pc = "write" /\ Key(d)' = k
      BY <2>2 DEF Key
    <2>3. ASSUME NEW d \in Calls, call[d].opened, Key(d) = k, call[d].spoilt \/ Overlaps(d)
          PROVE  call'[d].opened /\ Key(d)' = k /\ (call'[d].spoilt \/ Overlaps(d)')
      <3>1. call'[d].opened /\ Key(d)' = k
        BY <2>3 DEF Settles, Onward, StepInv, StepOK, Key
      <3> QED BY <2>3, <3>1, OverlapsStay DEF Settles
    <2>4. files[k].is = "empty" =>
            files[k] = Empty /\ \E d \in Calls : call'[d].pc = "write" /\ Key(d)' = k
      BY <2>1, <2>2 DEF DirtyOK
    <2>5. files[k].is = "torn" =>
            \E d \in Calls : /\ call'[d].opened /\ Key(d)' = k
                             /\ call'[d].spoilt \/ Overlaps(d)'
      BY <2>1, <2>3 DEF DirtyOK
    <2> QED BY <2>1, <2>4, <2>5 DEF DirtyOK
  <1> QED BY <1>1, <1>2

\* A call that opens or writes a file: what the other keys hold stays in order.
LEMMA OtherKeys ==
    ASSUME TypeInv, StepInv, Onward, Settles, OfflineInv, NEW c \in Calls, call[c].pc # "idle",
           \A d \in Calls \ {c} : call'[d] = call[d],
           NEW k \in Keys, k # Key(c), files'[k] = files[k]
    PROVE  /\ DirtyOK(k)'
           /\ \A d \in Calls : Key(d)' = k => OpenedOK(d)'
  <1>1. DirtyOK(k) /\ Key(c)' = Key(c)
    BY WritersStay DEF OfflineInv
  <1>2. ASSUME NEW d \in Calls, Key(d) = k PROVE d # c /\ call'[d] = call[d] /\ Key(d)' = k
    <2>1. d # c
      BY <1>2
    <2> QED BY <1>2, <2>1 DEF Key
  <1>3. ASSUME NEW d \in Calls, call[d].opened, Overlaps(d) PROVE Overlaps(d)'
    BY <1>3, OverlapsStay
  <1>4. files'[k].is = "empty" =>
          files'[k] = Empty /\ \E d \in Calls : call'[d].pc = "write" /\ Key(d)' = k
    BY <1>1, <1>2 DEF DirtyOK
  <1>5. files'[k].is = "torn" =>
          \E d \in Calls : call'[d].opened /\ Key(d)' = k /\ (call'[d].spoilt \/ Overlaps(d)')
    BY <1>1, <1>2, <1>3 DEF DirtyOK
  <1>6. ASSUME NEW d \in Calls, Key(d)' = k PROVE OpenedOK(d)'
    <2>1. d # c /\ call'[d] = call[d]
      BY <1>1, <1>6
    <2>2. Key(d) = k /\ OpenedOK(d)
      BY <1>6, <2>1 DEF Key, OfflineInv
    <2>3. call[d].pc = "write" => call[d].opened
      BY DEF StepInv, StepOK
    <2> QED BY <1>3, <1>6, <2>1, <2>2, <2>3 DEF OpenedOK
  <1> QED BY <1>4, <1>5, <1>6 DEF DirtyOK

LEMMA OpenOffline ==
    ASSUME TypeInv, StepInv, StepInv', Onward, Settles, OfflineInv, NEW c \in Calls,
           call[c].pc = "open", Becomes(c, "write", call[c].status, call[c].body),
           call'[c].res = call[c].res,
           files' = [files EXCEPT ![Key(c)] = Empty]
    PROVE  OfflineInv'
  <1>1. Key(c) \in Keys /\ Key(c)' = Key(c) /\ call[c].res = "none"
    BY KeyType, WritersStay DEF StepInv, StepOK
  <1>2. OfflineServed'
    BY <1>1, ServedStep DEF OfflineInv, Becomes
  <1>3. files'[Key(c)] = Empty /\ \A k \in Keys \ {Key(c)} : files'[k] = files[k]
    BY <1>1 DEF TypeInv
  <1>4. ASSUME NEW k \in Keys PROVE DirtyOK(k)'
    <2>1. CASE k = Key(c)
      <3>1. files'[k] = Empty /\ files'[k].is = "empty"
        BY <1>3, <2>1, FileFacts
      <3>2. call'[c].pc = "write" /\ Key(c)' = k
        BY <1>1, <2>1 DEF Becomes
      <3> QED BY <3>1, <3>2 DEF DirtyOK
    <2>2. CASE k # Key(c)
      BY <1>3, <2>2, OtherKeys DEF Becomes
    <2> QED BY <2>1, <2>2
  <1>5. ASSUME NEW d \in Calls PROVE OpenedOK(d)'
    <2>1. CASE Key(d)' = Key(c)
      <3>1. files'[Key(d)'] = Empty
        BY <1>3, <2>1
      <3> QED BY <3>1, FileFacts DEF OpenedOK
    <2>2. CASE Key(d)' # Key(c) /\ call'[d].opened
      <3>1. PICK k \in Keys : k = Key(d)'
        <4>1. call'[d].pc # "idle" /\ call'[d].url \in Urls
          BY <2>2 DEF StepInv, StepOK
        <4> QED BY <4>1 DEF Key, Keys
      <3> QED BY <1>3, <2>2, <3>1, OtherKeys DEF Becomes
    <2>3. CASE ~call'[d].opened
      BY <2>3 DEF OpenedOK, StepInv, StepOK
    <2> QED BY <2>1, <2>2, <2>3
  <1> QED BY <1>2, <1>4, <1>5 DEF OfflineInv

LEMMA WriteOffline ==
    ASSUME TypeInv, StepInv, StepInv', Onward, Settles, OfflineInv, NEW c \in Calls, Write(c)
    PROVE  OfflineInv'
  <1>1. /\ call[c].pc = "write" /\ call[c].opened /\ call[c].status = "ok"
        /\ Key(c) \in Keys /\ Key(c)' = Key(c) /\ call[c].body \in Bodies
    BY KeyType, WritersStay DEF Write, StepInv, StepOK, TypeInv, CallRecord
  <1>2. PICK short \in BOOLEAN, file \in {Torn, Whole(call[c].body)} :
             /\ Becomes(c, "done", call[c].status, call[c].body)
             /\ call'[c].res \in {"ok", "error"}
             /\ call'[c].opened = call[c].opened /\ call'[c].spoilt = short
             /\ files' = [files EXCEPT ![Key(c)] = file]
             /\ file = Torn => short \/ files[Key(c)] # Empty
    BY <1>1, WriteEffect, ReplyFacts
  <1>3. OfflineServed'
    BY <1>1, <1>2, ServedStep DEF OfflineInv, Becomes
  <1>4. files'[Key(c)] = file /\ \A k \in Keys \ {Key(c)} : files'[k] = files[k]
    BY <1>1, <1>2 DEF TypeInv
  <1>5. file.is \in {"torn", "whole"} /\ (file.is = "torn" => file = Torn)
    BY <1>1, FileFacts
  <1>6. ASSUME NEW k \in Keys PROVE DirtyOK(k)'
    <2>1. CASE k = Key(c)
      <3> SUFFICES ASSUME file = Torn PROVE call'[c].spoilt \/ Overlaps(c)'
        BY <1>1, <1>2, <1>4, <1>5, <2>1 DEF DirtyOK
      <3>1. CASE short
        BY <1>2, <3>1
      <3>2. CASE files[Key(c)] # Empty
        <4>1. files[Key(c)].is # "empty"
          BY <1>1, <3>2 DEF OfflineInv, DirtyOK
        <4>2. Overlaps(c)
          BY <1>1, <4>1 DEF OfflineInv, OpenedOK
        <4> QED BY <1>1, <4>2, OverlapsStay
      <3> QED BY <1>2, <3>1, <3>2
    <2>2. CASE k # Key(c)
      BY <1>1, <1>2, <1>4, <2>2, OtherKeys DEF Becomes
    <2> QED BY <2>1, <2>2
  <1>7. ASSUME NEW d \in Calls PROVE OpenedOK(d)'
    <2>1. CASE Key(d)' = Key(c)
      <3>1. files'[Key(d)'] = file
        BY <1>4, <2>1
      <3>2. ASSUME call'[d].pc = "write" PROVE Overlaps(d)'
        <4>1. d # c /\ call'[d] = call[d]
          BY <1>2, <3>2 DEF Becomes
        <4>2. c \in Writers(d)'
          BY <1>1, <1>2, <2>1 DEF Writers
        <4>3. ~Apart(d, c)
          BY <1>1, <3>2, <4>1 DEF Apart, StepInv, StepOK, Returned
        <4>4. ~Apart(d, c)'
          BY <1>2, <4>1, <4>3 DEF Apart, Becomes
        <4> QED BY <4>1, <4>2, <4>4 DEF Overlaps
      <3> QED BY <1>5, <3>1, <3>2 DEF OpenedOK
    <2>2. CASE Key(d)' # Key(c) /\ call'[d].opened
      <3>1. PICK k \in Keys : k = Key(d)'
        <4>1. call'[d].pc # "idle" /\ call'[d].url \in Urls
          BY <2>2 DEF StepInv, StepOK
        <4> QED BY <4>1 DEF Key, Keys
      <3> QED BY <1>1, <1>2, <1>4, <2>2, <3>1, OtherKeys DEF Becomes
    <2>3. CASE ~call'[d].opened
      BY <2>3 DEF OpenedOK, StepInv, StepOK
    <2> QED BY <2>1, <2>2, <2>3
  <1> QED BY <1>3, <1>6, <1>7 DEF OfflineInv

LEMMA FallbackOffline ==
    ASSUME TypeInv, StepInv, StepInv', Onward, Settles, AnswerInv, OfflineInv,
           NEW c \in Calls, Fallback(c)
    PROVE  OfflineInv'
  <1>1. /\ call[c].pc = "fallback" /\ UNCHANGED files /\ Key(c) \in Keys /\ ~call[c].opened
        /\ call[c].before \subseteq Returned
    BY KeyType DEF Fallback, StepInv, StepOK
  <1>2. PICK res, out :
             /\ Becomes(c, "done", call[c].status, call[c].body) /\ Returning(c, res, out)
             /\ FallbackResult(c, res, out)
    BY <1>1, FallbackEffect
  <1>3. (\A d \in Calls : OpenedOK(d)') /\ (\A k \in Keys : DirtyOK(k)')
    BY <1>1, <1>2, FilesStay DEF Becomes, Returning
  <1>4. ASSUME res = "unreachable" PROVE (Writers(c) \cap call[c].before)' = {}
    <2>1. Writers(c) = {}
      <3> SUFFICES ASSUME NEW d \in Calls, call[d].opened, Key(d) = Key(c) PROVE FALSE
        BY DEF Writers
      <3> QED BY <1>2, <1>4 DEF OfflineInv, OpenedOK, FallbackResult
    <2>2. ASSUME NEW d \in call[c].before PROVE d \notin Writers(c)'
      BY <1>1, <2>1, WritersStay
    <2> QED BY <1>2, <2>2 DEF Becomes
  <1>5. ASSUME res = "corrupt" PROVE \E d \in Writers(c)' : Spoils(d, c)'
    <2> SUFFICES \E d \in Writers(c) : Spoils(d, c)
      BY <1>1, SpoilsStays
    <2>1. CASE files[Key(c)].is = "empty"
      <3>1. PICK d \in Calls : call[d].pc = "write" /\ Key(d) = Key(c)
        BY <1>1, <2>1 DEF OfflineInv, DirtyOK
      <3>2. d \in Writers(c) /\ d \notin call[c].before
        BY <1>1, <3>1 DEF Writers, StepInv, StepOK, Returned
      <3> QED BY <3>2 DEF Spoils
    <2>2. CASE files[Key(c)].is = "torn"
      <3>1. PICK d \in Calls : /\ call[d].opened /\ Key(d) = Key(c)
                               /\ call[d].spoilt \/ Overlaps(d)
        BY <1>1, <2>2 DEF OfflineInv, DirtyOK
      <3>2. d \in Writers(c) /\ Writers(d) = Writers(c)
        BY <3>1 DEF Writers
      <3> QED BY <3>1, <3>2 DEF Overlaps, Spoils
    <2>3. CASE files[Key(c)].is = "whole" /\ ~Decodes(call[c].url, files[Key(c)].body)
      <3>1. PICK d \in Cached : call[d].opened /\ Key(d) = Key(c) /\ call[d].body = files[Key(c)].body
        BY <1>1, <2>3 DEF AnswerInv, FileOK, Source
      <3>2. d \in Writers(c)
        BY <3>1 DEF Writers, Calls
      <3> QED BY <2>3, <3>1, <3>2 DEF Spoils
    <2> QED BY <1>2, <1>5, <2>1, <2>2, <2>3 DEF FallbackResult
  <1>6. OfflineServed'
    <2> SUFFICES ASSUME NEW d \in Calls
                 PROVE  /\ d \in Cached /\ call'[d].res = "unreachable" =>
                             (Writers(d) \cap call[d].before)' = {}
                        /\ call'[d].res = "corrupt" => \E f \in Writers(d)' : Spoils(f, d)'
      BY DEF OfflineServed
    <2>1. CASE d = c
      BY <1>2, <1>4, <1>5, <2>1 DEF Returning
    <2>2. CASE d # c /\ call[d].pc # "done"
      BY <1>2, <2>2 DEF Becomes, StepInv, StepOK
    <2>3. CASE call[d].pc = "done"
      BY <2>3, OfflineStays DEF OfflineInv
    <2> QED BY <2>1, <2>2, <2>3
  <1> QED BY <1>3, <1>6 DEF OfflineInv

\* The other steps leave the files alone.
LEMMA IdleOffline ==
    ASSUME TypeInv, StepInv, StepInv', Onward, Settles, OfflineInv, NEW c \in Calls,
           call[c].pc \notin {"write", "done"}, call'[c].pc # "write",
           ~call'[c].opened \/ call'[c].opened = call[c].opened,
           \A d \in Calls \ {c} : call'[d] = call[d],
           call'[c].res = "unreachable" => c \notin Cached, call'[c].res # "corrupt",
           UNCHANGED files
    PROVE  OfflineInv'
  BY FilesStay, ServedStep DEF OfflineInv

LEMMA OfflineStep ==
    TypeInv /\ StepInv /\ StepInv' /\ Onward /\ Settles /\ AnswerInv /\ OfflineInv /\ [Next]_vars
      => OfflineInv'
  <1> SUFFICES ASSUME TypeInv, StepInv, StepInv', Onward, Settles, AnswerInv, OfflineInv, [Next]_vars
               PROVE  OfflineInv'
    OBVIOUS
  <1>1. CASE UNCHANGED vars
    BY <1>1 DEF vars, OfflineInv, OpenedOK, DirtyOK, OfflineServed, Overlaps, Writers, Apart, Key,
              Spoils
  <1>2. ASSUME NEW c \in Calls, Begin(c) PROVE OfflineInv'
    <2>1. /\ call'[c].pc = "sent" /\ call'[c].res = "none" /\ call'[c].opened = FALSE
          /\ \A d \in Calls \ {c} : call'[d] = call[d]
      BY <1>2, BeginEffect
    <2>2. call[c].pc = "idle" /\ UNCHANGED files
      BY <1>2 DEF Begin
    <2> QED BY <2>1, <2>2, IdleOffline
  <1>3. ASSUME NEW c \in Calls, Serve(c) PROVE OfflineInv'
    <2>1. call[c].pc = "sent" /\ UNCHANGED files
      BY <1>3 DEF Serve, ServeGet, ServeChange
    <2>2. PICK status \in {"ok", "error", "not_found"}, body \in Bodies : Answer(c, status, body)
      <3>1. [url |-> call[c].url, ver |-> content[call[c].url]] \in Bodies
        BY <2>1, BodyFacts DEF TypeInv, StepInv, StepOK
      <3> QED BY <1>3, <3>1, BodyFacts DEF Serve, ServeGet, ServeChange
    <2>3. Becomes(c, "answered", status, body) /\ Keeping(c)
      BY <2>2, AnswerEffect DEF Statuses
    <2>4. call[c].res = "none"
      BY <2>1 DEF StepInv, StepOK
    <2> QED BY <2>1, <2>3, <2>4, IdleOffline DEF Becomes, Keeping
  <1>4. ASSUME NEW c \in Calls, Unreachable(c) \/ Fails(c) PROVE OfflineInv'
    <2>1. call[c].pc \in {"sent", "answered"} /\ UNCHANGED files
      BY <1>4 DEF Unreachable, Fails
    <2>2. /\ call'[c].pc # "write" /\ call'[c].opened = call[c].opened
          /\ call'[c].res = "unreachable" => c \notin Cached
          /\ call'[c].res # "corrupt"
          /\ \A d \in Calls \ {c} : call'[d] = call[d]
      BY <1>4, UnreachableEffect, FailsEffect DEF Becomes, Returning
    <2> QED BY <2>1, <2>2, IdleOffline
  <1>5. ASSUME NEW c \in Calls, Receive(c) PROVE OfflineInv'
    <2>1. call[c].pc = "answered" /\ UNCHANGED files /\ call[c].res = "none"
      BY <1>5 DEF Receive, StepInv, StepOK
    <2>2. call[c].status \in Statuses
      BY DEF TypeInv, CallRecord
    <2>3. /\ call'[c].pc # "write" /\ call'[c].opened = call[c].opened
          /\ call'[c].res \in {"none", call[c].status, "error"}
          /\ \A d \in Calls \ {c} : call'[d] = call[d]
      BY <1>5, <2>1, ReceiveEffect, ReplyFacts DEF Becomes, Returning, Keeping
    <2> QED BY <2>1, <2>2, <2>3, IdleOffline DEF Statuses
  <1>6. ASSUME NEW c \in Calls, Open(c) PROVE OfflineInv'
    <2>1. call[c].pc = "open" /\ call[c].status = "ok"
      BY <1>6 DEF Open, StepInv, StepOK
    <2>2. CASE /\ Becomes(c, "write", call[c].status, call[c].body) /\ call'[c].res = call[c].res
               /\ files' = [files EXCEPT ![Key(c)] = Empty]
      BY <2>1, <2>2, OpenOffline
    <2>3. CASE /\ Becomes(c, "done", call[c].status, call[c].body)
               /\ Returning(c, Reply(c), call[c].body) /\ UNCHANGED files
      BY <2>1, <2>3, IdleOffline, ReplyFacts DEF Becomes, Returning
    <2> QED BY <1>6, <2>2, <2>3, OpenEffect
  <1> QED BY <1>1, <1>2, <1>3, <1>4, <1>5, <1>6, WriteOffline, FallbackOffline
          DEF Next, getWithCache

\* Without the server a call of getWithCache that can read its cache file is refused only if no
\* call of its key had written its answer before, or if a write failed halfway, or was
\* interrupted or still going on when this call began, or overlapped with another write, or
\* stored what this call cannot decode: client.go:80, for every number of calls and processes
\* that share the directory, and however the keys of lists and events collide.
THEOREM OfflineIsServed == Spec => []OfflineServed
  <1>1. Init => OfflineInv
    BY NoCallFacts, FileFacts
       DEF Init, OfflineInv, OpenedOK, DirtyOK, OfflineServed, Keys
  <1>2. OfflineInv => OfflineServed
    BY DEF OfflineInv
  <1> QED BY <1>1, <1>2, InitType, InitStep, InitAnswers, NextStep, SettlesStep, AnswersStep,
             OfflineStep, PTL DEF Spec

=============================================================================
