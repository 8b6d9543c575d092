--------------------------- MODULE DeliveryProofs ---------------------------
(***************************************************************************)
(* Proofs about Delivery, for any number of calls, any rate, burst, number *)
(* of retries and backoff.                                                 *)
(***************************************************************************)
EXTENDS Delivery, FiniteSetTheorems, TLAPS

-----------------------------------------------------------------------------
(* Types. *)

CallRecord ==
    [op : Ops \cup {"none"}, pc : {"idle", "limit", "send", "sent", "sleep", "done"},
     att : Nat, backoff : Nat, timer : Nat, res : Results \cup {"none"}]

LEMMA Multiples ==
    ASSUME NEW a \in Nat, NEW b \in Nat
    PROVE  a * b \in Nat /\ (a # 0 /\ b # 0 => a * b # 0)
  OBVIOUS

LEMMA SleepsType == ASSUME NEW d \in Nat PROVE Sleeps(d) \subseteq Nat
  <1>1. d \div 2 \in Nat
    OBVIOUS
  <1> QED BY <1>1 DEF Sleeps

LEMMA InitType == Init => TypeOK
  <1> SUFFICES ASSUME Init PROVE TypeOK
    OBVIOUS
  <1> USE DeliveryAssumption DEF DeliveryAssumption
  <1>1. \A r \in Retries : MaxRetries(r) \in Nat
    BY DEF MaxRetries, defaultMaxRetries
  <1>2. \A b \in Bursts : b * TokenCost \in Nat \ {0}
    <2> TAKE b \in Bursts
    <2>1. b \in Nat /\ b # 0 /\ TokenCost \in Nat /\ TokenCost # 0
      OBVIOUS
    <2> QED BY <2>1, Multiples
  <1>3. conf \in [kind : Kinds, maxRetries : Nat, burst : Nat \ {0}]
    BY <1>1, <1>2 DEF Init
  <1>4. tokens \in 0..conf.burst /\ elapsed \in 0..conf.burst
    BY <1>3 DEF Init
  <1>5. Idle \in CallRecord
    BY DEF Idle, CallRecord
  <1> QED BY <1>3, <1>4, <1>5 DEF Init, TypeOK, CallRecord

\* What becomes of a call: a method is entered, or the call goes on, or returns.
LEMMA MoveType ==
    ASSUME TypeOK, NEW k \in Calls, NEW op \in Ops, NEW r \in Results \cup {"none"},
           NEW s \in {"idle", "limit", "send", "sent", "sleep", "done"},
           Enter(k, op, s, r) \/ Goto(k, s) \/ Return(k, r)
    PROVE  call' \in [Calls -> CallRecord]
  BY DEF TypeOK, CallRecord, Enter, Goto, Return

LEMMA RetryType ==
    ASSUME TypeOK, NEW k \in Calls, NEW e \in Results, Retry(k, e)
    PROVE  call' \in [Calls -> CallRecord]
  <1>1. call[k] \in CallRecord /\ call \in [Calls -> CallRecord]
    BY DEF TypeOK, CallRecord
  <1>2. CASE Return(k, e)
    BY <1>2, MoveType DEF Ops
  <1>3. ASSUME NEW d \in Sleeps(call[k].backoff),
               call' = [call EXCEPT ![k].pc = "sleep", ![k].att = @ + 1, ![k].timer = d,
                                    ![k].backoff = Min2(@ * Multiplier, MaxBackoff)]
        PROVE  call' \in [Calls -> CallRecord]
    <2>1. d \in Nat
      BY <1>1, SleepsType DEF CallRecord
    <2>2. PICK b \in Nat : b = Min2(call[k].backoff * Multiplier, MaxBackoff)
      BY <1>1, DeliveryAssumption, Multiples DEF CallRecord, Min2, DeliveryAssumption
    <2>3. PICK a \in Nat : a = call[k].att + 1
      BY <1>1 DEF CallRecord
    <2>4. call' = [call EXCEPT ![k].pc = "sleep", ![k].att = a, ![k].timer = d, ![k].backoff = b]
      BY <1>3, <2>2, <2>3
    <2> QED BY <1>1, <2>1, <2>4 DEF CallRecord
  <1> QED BY <1>2, <1>3 DEF Retry

LEMMA MethodType == ASSUME TypeOK, NEW k \in Calls, Method(k) PROVE TypeOK'
  <1>1. UNCHANGED <<conf, Bucket, Backend, cancelled>> /\ closed' \in BOOLEAN
    BY DEF Method, Post, SendBatch, Shutdown, Ping, Page, Provider, TypeOK
  <1>2. PICK op \in Ops, s \in {"limit", "send", "done"},
             r \in {"none", "ErrShutdown", "ErrUnsupportedOperation"} : Enter(k, op, s, r)
    BY DEF Method, Post, SendBatch, Shutdown, Ping, Page, Ops
  <1>3. call' \in [Calls -> CallRecord]
    BY <1>2, MoveType DEF Results
  <1> QED BY <1>1, <1>3 DEF TypeOK, CallRecord, Bucket, Backend

LEMMA ProgressType == ASSUME TypeOK, NEW k \in Calls, Progress(k) PROVE TypeOK'
  <1> USE DeliveryAssumption DEF DeliveryAssumption
  <1>1. call \in [Calls -> CallRecord]
    BY DEF TypeOK, CallRecord
  <1>2. CASE WaitTurn(k)
    <2>1. Refilled \in 0..conf.burst
      BY DEF TypeOK, Refilled, Min2
    <2>2. /\ elapsed' \in 0..conf.burst /\ tokens' \in 0..conf.burst /\ level' \in Nat
          /\ UNCHANGED <<Provider, Backend, cancelled>>
      BY <1>2, <2>1 DEF TypeOK, WaitTurn, HasToken
    <2>3. call' \in [Calls -> CallRecord]
      <3>1. CASE HasToken
        BY <1>2, <3>1, MoveType DEF WaitTurn, Ops
      <3>2. CASE ~HasToken
        <4>1. TokenCost - Refilled \in Nat
          BY <2>1, <3>2 DEF HasToken, TypeOK
        <4> QED BY <1>1, <1>2, <3>2, <4>1 DEF WaitTurn, CallRecord
      <3> QED BY <3>1, <3>2
    <2> QED BY <2>2, <2>3 DEF TypeOK, CallRecord, Provider, Backend
  <1>3. CASE GiveUp(k)
    <2>1. call' \in [Calls -> CallRecord]
      BY <1>3, MoveType DEF GiveUp, Ops, Results
    <2> QED BY <1>3, <2>1 DEF GiveUp, TypeOK, CallRecord, Provider, Bucket, Backend
  <1>4. CASE Send(k)
    <2>1. call' \in [Calls -> CallRecord]
      BY <1>4, MoveType DEF Send, Ops, Results
    <2>2. wire' \subseteq Calls \X Nat
      BY <1>1, <1>4 DEF Send, TypeOK, CallRecord
    <2> QED BY <1>4, <2>1, <2>2 DEF Send, TypeOK, CallRecord, Provider, Bucket
  <1>5. CASE Arrive(k)
    <2>1. call' \in [Calls -> CallRecord]
      BY <1>1, <1>5, MoveType, RetryType DEF Arrive, Respond, Ops, Results
    <2>2. wire' \subseteq Calls \X Nat /\ acted' \in [Calls -> Nat]
      BY <1>5 DEF Arrive, TypeOK
    <2> QED BY <1>5, <2>1, <2>2 DEF Arrive, TypeOK, CallRecord, Provider, Bucket
  <1>6. CASE Lose(k)
    <2>1. wire' \subseteq Calls \X Nat /\ acted' \in [Calls -> Nat]
      BY <1>6 DEF Lose, TypeOK
    <2> QED BY <1>6, <2>1 DEF Lose, TypeOK, Provider, Bucket
  <1>7. CASE Fail(k)
    <2>1. call' \in [Calls -> CallRecord]
      BY <1>7, MoveType, RetryType DEF Fail, Ops, Results
    <2> QED BY <1>7, <2>1 DEF Fail, TypeOK, CallRecord, Provider, Bucket, Backend
  <1> QED BY <1>2, <1>3, <1>4, <1>5, <1>6, <1>7 DEF Progress

LEMMA NextType == TypeOK /\ [Next]_vars => TypeOK'
  <1> SUFFICES ASSUME TypeOK, [Next]_vars PROVE TypeOK'
    OBVIOUS
  <1>1. CASE UNCHANGED vars
    BY <1>1 DEF TypeOK, vars
  <1>2. CASE Tick
    <2>1. call' \in [Calls -> CallRecord]
      <3>1. ASSUME NEW k \in Calls
            PROVE  [call[k] EXCEPT !.timer = Max2(@ - 1, 0)] \in CallRecord
        BY DEF TypeOK, CallRecord, Max2
      <3> QED BY <1>2, <3>1 DEF Tick
    <2>2. elapsed' \in 0..conf.burst /\ level' \in Nat
      BY <1>2 DEF TypeOK, Tick, Min2, Max2
    <2> QED BY <1>2, <2>1, <2>2 DEF TypeOK, Tick, CallRecord, Provider, Backend
  <1>3. ASSUME NEW k \in Calls, Cancel(k) PROVE TypeOK'
    BY <1>3 DEF TypeOK, Cancel, Provider, Bucket, Backend
  <1> QED BY <1>1, <1>2, <1>3, MethodType, ProgressType DEF Next

\* Every variable keeps its type; the bucket never holds more than its burst, and
\* never less than nothing.
THEOREM TypeCorrect == Spec => []TypeOK
  BY InitType, NextType, PTL DEF Spec

-----------------------------------------------------------------------------
(* The rate.  What the meter holds and what the bucket could still grant   *)
(* never exceed the burst together, unless the meter has run empty: the    *)
(* clock fills one as fast as it drains the other.                         *)

RateInv == level = 0 \/ level + tokens + elapsed <= conf.burst

LEMMA RateStep == TypeOK /\ RateInv /\ [Next]_vars => RateInv'
  <1> SUFFICES ASSUME TypeOK, RateInv, [Next]_vars PROVE RateInv'
    OBVIOUS
  <1> USE DeliveryAssumption DEF TypeOK, DeliveryAssumption
  <1>1. CASE UNCHANGED <<conf, Bucket>>
    BY <1>1 DEF RateInv, Bucket
  <1>2. CASE Tick
    BY <1>2 DEF Tick, Provider, RateInv, Min2, Max2
  <1>3. ASSUME NEW k \in Calls, WaitTurn(k) PROVE RateInv'
    <2>1. Refilled \in Nat /\ level + Refilled <= conf.burst
      BY DEF Refilled, Min2, RateInv
    <2>2. /\ elapsed' = 0 /\ UNCHANGED conf
          /\ \/ tokens' = Refilled - TokenCost /\ level' = level + TokenCost
             \/ tokens' = Refilled /\ level' = level
      BY <1>3 DEF WaitTurn, Provider
    <2> QED BY <2>1, <2>2 DEF RateInv
  <1>4. ASSUME NEW k \in Calls, Method(k) \/ Cancel(k) \/ GiveUp(k) \/ Send(k) \/ Arrive(k)
                                  \/ Lose(k) \/ Fail(k)
        PROVE  UNCHANGED <<conf, Bucket>>
    BY <1>4 DEF Method, Post, SendBatch, Shutdown, Ping, Page, Cancel, GiveUp, Send, Arrive,
                Lose, Fail, Provider
  <1> QED BY <1>1, <1>2, <1>3, <1>4 DEF Next, Progress, vars, Bucket

\* Wait grants no more than the configured rate and burst allow, in any window of time,
\* for every rate and burst and any number of waiters.
THEOREM RateHolds == Spec => []RateConforms
  <1>1. Init => RateInv
    BY DEF Init, RateInv
  <1>2. TypeOK /\ RateInv => RateConforms
    BY DEF TypeOK, RateInv, RateConforms
  <1> QED BY <1>1, <1>2, InitType, NextType, RateStep, PTL DEF Spec

-----------------------------------------------------------------------------
(* Attempts.  The attempt number counts what was put on the wire: one less *)
(* while a call sleeps before the attempt, and a call that has yet to send *)
(* is at the first.                                                        *)

Used(k) == acted[k] + Cardinality(Copies(k))

AttemptOK(k) ==
    /\ call[k].att <= conf.maxRetries
    /\ Used(k) <= call[k].att + 1
    /\ call[k].pc = "sleep" => Used(k) <= call[k].att
    /\ call[k].pc \in {"idle", "limit", "send"}
         => acted[k] = 0 /\ Copies(k) = {} /\ call[k].att = 0

AttemptInv == IsFiniteSet(wire) /\ \A k \in Calls : AttemptOK(k)

LEMMA CopiesType ==
    ASSUME TypeOK, AttemptInv, NEW k \in Calls
    PROVE  IsFiniteSet(Copies(k)) /\ Cardinality(Copies(k)) \in Nat
  BY FS_Subset, FS_CardinalityType DEF AttemptInv, Copies

\* What Enter, Goto and Return do to a call, and to no other.
LEMMA MoveEffect ==
    ASSUME TypeOK, NEW k \in Calls, NEW op, NEW s, NEW r
    PROVE  /\ Enter(k, op, s, r) =>
                /\ call'[k].op = op /\ call'[k].pc = s /\ call'[k].res = r
                /\ call'[k].att = call[k].att
           /\ Goto(k, s) =>
                /\ call'[k].op = call[k].op /\ call'[k].pc = s /\ call'[k].res = call[k].res
                /\ call'[k].att = call[k].att
           /\ Return(k, r) =>
                /\ call'[k].op = call[k].op /\ call'[k].pc = "done" /\ call'[k].res = r
                /\ call'[k].att = call[k].att
           /\ Enter(k, op, s, r) \/ Goto(k, s) \/ Return(k, r)
                => \A j \in Calls \ {k} : call'[j] = call[j]
  BY DEF TypeOK, Enter, Goto, Return

LEMMA RetryEffect ==
    ASSUME TypeOK, NEW k \in Calls, NEW e, Retry(k, e)
    PROVE  /\ call'[k].op = call[k].op
           /\ \/ call'[k].pc = "done" /\ call'[k].res = e /\ call'[k].att = call[k].att
              \/ /\ call[k].att # conf.maxRetries
                 /\ call'[k].pc = "sleep" /\ call'[k].res = call[k].res
                 /\ call'[k].att = call[k].att + 1
           /\ \A j \in Calls \ {k} : call'[j] = call[j]
  <1>1. CASE call[k].att = LastAttempt
    <2>1. Return(k, e)
      BY <1>1 DEF Retry
    <2>2. /\ call'[k].op = call[k].op /\ call'[k].pc = "done" /\ call'[k].res = e
          /\ call'[k].att = call[k].att
          /\ \A j \in Calls \ {k} : call'[j] = call[j]
      BY <2>1, MoveEffect, Zenon
    <2> QED BY <2>2
  <1>2. CASE call[k].att # LastAttempt
    <2>1. PICK d, a, b :
            /\ a = call[k].att + 1
            /\ call' = [call EXCEPT ![k].pc = "sleep", ![k].att = a, ![k].timer = d,
                                    ![k].backoff = b]
      BY <1>2 DEF Retry
    <2>2. /\ call'[k].op = call[k].op /\ call'[k].pc = "sleep" /\ call'[k].res = call[k].res
          /\ call'[k].att = a
          /\ \A j \in Calls \ {k} : call'[j] = call[j]
      BY <2>1 DEF TypeOK
    <2> QED BY <1>2, <2>1, <2>2 DEF LastAttempt
  <1> QED BY <1>1, <1>2

\* A request leaves the wire, acted on or not: it was one of this call's copies.
LEMMA OneLess ==
    ASSUME TypeOK, AttemptInv, NEW k \in Calls, NEW n \in Nat, NEW act \in BOOLEAN,
           <<k, n>> \in wire, wire' = wire \ {<<k, n>>},
           acted' = [acted EXCEPT ![k] = IF act THEN @ + 1 ELSE @]
    PROVE  /\ IsFiniteSet(wire') /\ Used(k)' <= Used(k) /\ Copies(k) # {} /\ Used(k)' \in Nat
           /\ acted'[k] >= acted[k] /\ (act => acted'[k] > 0)
           /\ \A j \in Calls \ {k} : Copies(j)' = Copies(j) /\ acted'[j] = acted[j]
  <1>1. <<k, n>> \in Copies(k) /\ Copies(k)' = Copies(k) \ {<<k, n>>}
    BY DEF Copies
  <1>2. Cardinality(Copies(k)') = Cardinality(Copies(k)) - 1 /\ Cardinality(Copies(k)) \in Nat
        /\ Cardinality(Copies(k)') \in Nat
    BY <1>1, CopiesType, FS_RemoveElement, FS_CardinalityType
  <1>3. acted'[k] \in acted[k]..acted[k] + 1 /\ acted[k] \in Nat /\ (act => acted'[k] = acted[k] + 1)
    BY DEF TypeOK
  <1>4. \A j \in Calls \ {k} : Copies(j)' = Copies(j) /\ acted'[j] = acted[j]
    BY DEF Copies, TypeOK
  <1>5. IsFiniteSet(wire')
    BY FS_RemoveElement DEF AttemptInv
  <1> QED BY <1>1, <1>2, <1>3, <1>4, <1>5 DEF Used

\* A request is put on the wire.
LEMMA OneMore ==
    ASSUME TypeOK, AttemptInv, NEW k \in Calls, NEW n \in Nat,
           wire' = wire \cup {<<k, n>>}, UNCHANGED acted
    PROVE  /\ IsFiniteSet(wire') /\ Used(k)' <= Used(k) + 1
           /\ \A j \in Calls \ {k} : Copies(j)' = Copies(j)
  <1>1. Copies(k)' = Copies(k) \cup {<<k, n>>}
    BY DEF Copies
  <1>2. /\ Cardinality(Copies(k)') <= Cardinality(Copies(k)) + 1
        /\ Cardinality(Copies(k)) \in Nat /\ Cardinality(Copies(k)') \in Nat
    <2>1. IsFiniteSet(Copies(k)) /\ Cardinality(Copies(k)) \in Nat
      BY CopiesType
    <2>2. Cardinality(Copies(k) \cup {<<k, n>>})
            \in {Cardinality(Copies(k)), Cardinality(Copies(k)) + 1}
      BY <2>1, FS_AddElement
    <2> QED BY <1>1, <2>1, <2>2
  <1>3. \A j \in Calls \ {k} : Copies(j)' = Copies(j)
    BY DEF Copies
  <1>4. IsFiniteSet(wire')
    BY FS_AddElement DEF AttemptInv
  <1> QED BY <1>2, <1>3, <1>4 DEF Used, TypeOK

\* A call that a step does not concern: its timer may run, and that is all.
Same(j) ==
    /\ call'[j].op = call[j].op /\ call'[j].pc = call[j].pc
    /\ call'[j].att = call[j].att /\ call'[j].res = call[j].res
    /\ Copies(j)' = Copies(j) /\ acted'[j] = acted[j]

LEMMA SameAttempt ==
    ASSUME UNCHANGED conf, NEW j \in Calls, Same(j), AttemptOK(j)
    PROVE  AttemptOK(j)'
  BY DEF Same, AttemptOK, Used

LEMMA NobodyMoves ==
    ASSUME TypeOK, Tick \/ UNCHANGED vars
    PROVE  UNCHANGED <<conf, closed, wire, acted>> /\ \A j \in Calls : Same(j)
  <1>1. CASE Tick
    BY <1>1 DEF TypeOK, Tick, Provider, Backend, Same, Copies
  <1>2. CASE UNCHANGED vars
    BY <1>2 DEF vars, Same, Copies
  <1> QED BY <1>1, <1>2

\* A method is entered, with what it finds.
LEMMA MethodEffect ==
    ASSUME TypeOK, NEW k \in Calls, Method(k)
    PROVE  /\ UNCHANGED <<conf, wire, acted>> /\ call[k].pc = "idle"
           /\ call'[k].att = call[k].att
           /\ \/ /\ call'[k].op # "Shutdown" /\ UNCHANGED closed
                 /\ call'[k].pc \in {"limit", "send", "done"}
                 /\ call'[k].res \in {"none", "ErrShutdown", "ErrUnsupportedOperation"}
                 /\ call'[k].res = "ErrShutdown" => closed /\ call'[k].pc = "done"
              \/ /\ call'[k].op = "Shutdown" /\ closed'
                 /\ IF closed THEN call'[k].pc = "done" /\ call'[k].res = "ErrShutdown"
                    ELSE call'[k].pc = "limit" /\ call'[k].res = "none"
           /\ \A j \in Calls \ {k} : Same(j)
  <1>1. UNCHANGED <<conf, wire, acted>> /\ call[k].pc = "idle"
    BY DEF Method, Post, SendBatch, Shutdown, Ping, Page, Provider, Backend
  <1>2. PICK op \in Ops, s \in {"limit", "send", "done"},
             r \in {"none", "ErrShutdown", "ErrUnsupportedOperation"} :
          /\ Enter(k, op, s, r)
          /\ \/ /\ op # "Shutdown" /\ UNCHANGED closed
                /\ r = "ErrShutdown" => closed /\ s = "done"
             \/ /\ op = "Shutdown" /\ closed'
                /\ IF closed THEN s = "done" /\ r = "ErrShutdown" ELSE s = "limit" /\ r = "none"
    BY DEF Method, Post, SendBatch, Shutdown, Ping, Page, Ops, Provider, LosesSwap
  <1>3. /\ call'[k].op = op /\ call'[k].pc = s /\ call'[k].res = r /\ call'[k].att = call[k].att
        /\ \A j \in Calls \ {k} : call'[j] = call[j]
    <2>1. Enter(k, op, s, r)
      BY <1>2
    <2> QED BY <2>1 DEF Enter, TypeOK
  <1>4. \A j \in Calls \ {k} : Same(j)
    BY <1>1, <1>3 DEF Same, Copies
  <1> QED BY <1>1, <1>2, <1>3, <1>4

\* What becomes of a call once its method was entered: it keeps its operation and ends
\* at most once, its requests reach the backend from the wire only, and nil is said of
\* an answered request.
Moves(k) ==
    /\ UNCHANGED <<conf, closed>>
    /\ call'[k].op = call[k].op
    /\ call[k].pc = "done" => call'[k].pc = "done"
    /\ call[k].pc = "idle" <=> call'[k].pc = "idle"
    /\ \/ call'[k].res = call[k].res
       \/ call[k].pc # "done" /\ call'[k].res \in Results \ {"ErrShutdown", "nil"}
       \/ call[k].pc # "done" /\ call'[k].res = "nil"
            /\ (call[k].op # "Ping" => acted'[k] > 0)
    /\ acted'[k] >= acted[k]
    /\ acted'[k] # acted[k] \/ Copies(k)' # Copies(k)
         => Copies(k) # {} \/ call[k].pc \in {"send", "sleep"}
    /\ IsFiniteSet(wire') /\ AttemptOK(k)'
    /\ \A j \in Calls \ {k} : Same(j)

LEMMA ProgressEffect ==
    ASSUME TypeOK, AttemptInv, NEW k \in Calls, Progress(k) \/ Cancel(k)
    PROVE  Moves(k)
  <1>1. /\ AttemptOK(k) /\ IsFiniteSet(wire)
        /\ acted[k] \in Nat /\ call[k].att \in Nat /\ conf.maxRetries \in Nat /\ Used(k) \in Nat
    BY CopiesType DEF AttemptInv, TypeOK, Used
  <1>2. ASSUME UNCHANGED <<conf, closed, wire, acted>>,
               call'[k].op = call[k].op, call'[k].att = call[k].att,
               call'[k].res = call[k].res,
               call'[k].pc = call[k].pc \/ (call[k].pc = "limit" /\ call'[k].pc = "send"),
               \A j \in Calls \ {k} : call'[j] = call[j]
        PROVE  Moves(k)
    <2>1. \A j \in Calls : Copies(j)' = Copies(j)
      BY <1>2 DEF Copies
    <2>2. \A j \in Calls \ {k} : Same(j)
      BY <1>2, <2>1 DEF Same
    <2>3. AttemptOK(k)'
      BY <1>1, <1>2, <2>1 DEF AttemptOK, Used
    <2> QED BY <1>1, <1>2, <2>1, <2>2, <2>3 DEF Moves
  <1>3. ASSUME UNCHANGED <<conf, closed, wire, acted>>, NEW e \in {"ctx", "HTTP", "network"},
               call[k].pc \notin {"idle", "done"},
               Return(k, e) \/ (call[k].pc = "sent" /\ Retry(k, e))
        PROVE  Moves(k)
    <2>1. \A j \in Calls : Copies(j)' = Copies(j)
      BY <1>3 DEF Copies
    <2>2. CASE Return(k, e)
      <3>1. /\ call'[k].op = call[k].op /\ call'[k].pc = "done" /\ call'[k].res = e
            /\ call'[k].att = call[k].att
            /\ \A j \in Calls \ {k} : call'[j] = call[j]
        BY <2>2, MoveEffect, Zenon
      <3>2. \A j \in Calls \ {k} : Same(j)
        BY <1>3, <2>1, <3>1 DEF Same
      <3>3. AttemptOK(k)'
        BY <1>1, <1>3, <2>1, <3>1 DEF AttemptOK, Used
      <3> QED BY <1>1, <1>3, <2>1, <3>1, <3>2, <3>3 DEF Moves, Results
    <2>3. CASE call[k].pc = "sent" /\ Retry(k, e)
      <3>1. /\ call'[k].op = call[k].op
            /\ \/ call'[k].pc = "done" /\ call'[k].res = e /\ call'[k].att = call[k].att
               \/ /\ call[k].att # conf.maxRetries
                  /\ call'[k].pc = "sleep" /\ call'[k].res = call[k].res
                  /\ call'[k].att = call[k].att + 1
            /\ \A j \in Calls \ {k} : call'[j] = call[j]
        BY <2>3, RetryEffect
      <3>2. \A j \in Calls \ {k} : Same(j)
        BY <1>3, <2>1, <3>1 DEF Same
      <3>3. AttemptOK(k)'
        BY <1>1, <1>3, <2>1, <2>3, <3>1 DEF AttemptOK, Used
      <3> QED BY <1>1, <1>3, <2>1, <2>3, <3>1, <3>2, <3>3 DEF Moves, Results
    <2> QED BY <1>3, <2>2, <2>3
  <1>4. CASE WaitTurn(k)
    <2>1. UNCHANGED <<conf, closed, wire, acted>> /\ call[k].pc = "limit"
      BY <1>4 DEF WaitTurn, Provider, Backend
    <2>2. CASE HasToken
      <3>1. Goto(k, "send")
        BY <1>4, <2>2 DEF WaitTurn
      <3>2. /\ call'[k].op = call[k].op /\ call'[k].pc = "send" /\ call'[k].res = call[k].res
            /\ call'[k].att = call[k].att
            /\ \A j \in Calls \ {k} : call'[j] = call[j]
        BY <3>1, MoveEffect, Zenon
      <3> QED BY <1>2, <2>1, <3>2
    <2>3. CASE ~HasToken
      <3>1. PICK t : call' = [call EXCEPT ![k].timer = t]
        BY <1>4, <2>3 DEF WaitTurn
      <3>2. /\ call'[k].op = call[k].op /\ call'[k].pc = call[k].pc /\ call'[k].res = call[k].res
            /\ call'[k].att = call[k].att
            /\ \A j \in Calls \ {k} : call'[j] = call[j]
        BY <3>1 DEF TypeOK
      <3> QED BY <1>2, <2>1, <3>2
    <2> QED BY <2>2, <2>3
  <1>5. CASE Cancel(k)
    BY <1>2, <1>5 DEF Cancel, Provider, Backend
  <1>6. CASE GiveUp(k)
    BY <1>3, <1>6 DEF GiveUp, Provider, Backend
  <1>7. CASE Fail(k)
    BY <1>3, <1>7 DEF Fail, Provider, Backend
  <1>8. CASE Send(k)
    <2>1. UNCHANGED <<conf, closed, acted>> /\ call[k].pc \in {"send", "sleep"}
      BY <1>8 DEF Send, Provider
    <2>2. CASE k \in cancelled
      BY <1>3, <1>8, <2>1, <2>2 DEF Send
    <2>3. CASE k \notin cancelled
      <3>1. Goto(k, "sent") /\ wire' = wire \cup {<<k, call[k].att>>}
        BY <1>8, <2>3 DEF Send
      <3>2. /\ call'[k].op = call[k].op /\ call'[k].pc = "sent" /\ call'[k].res = call[k].res
            /\ call'[k].att = call[k].att
            /\ \A j \in Calls \ {k} : call'[j] = call[j]
        BY <3>1, MoveEffect, Zenon
      <3>3. /\ IsFiniteSet(wire') /\ Used(k)' <= Used(k) + 1
            /\ \A j \in Calls \ {k} : Copies(j)' = Copies(j)
        BY <1>1, <2>1, <3>1, OneMore
      <3>4. \A j \in Calls \ {k} : Same(j)
        BY <2>1, <3>2, <3>3 DEF Same
      <3>5. Used(k) <= call[k].att
        <4>1. CASE call[k].pc = "send"
          <5>1. acted[k] = 0 /\ Copies(k) = {} /\ call[k].att = 0
            BY <1>1, <4>1 DEF AttemptOK
          <5>2. Cardinality(Copies(k)) = 0
            BY <5>1, FS_EmptySet
          <5> QED BY <5>1, <5>2 DEF Used
        <4> QED BY <1>1, <2>1, <4>1 DEF AttemptOK
      <3>6. Used(k)' <= call[k].att + 1
        <4>1. Used(k)' \in Nat
          <5>1. IsFiniteSet(Copies(k)')
            BY <3>3, FS_Subset DEF Copies
          <5> QED BY <1>1, <2>1, <5>1, FS_CardinalityType DEF Used
        <4> QED BY <1>1, <3>3, <3>5, <4>1
      <3>7. AttemptOK(k)'
        BY <1>1, <2>1, <3>2, <3>6 DEF AttemptOK
      <3> QED BY <1>1, <2>1, <3>2, <3>3, <3>4, <3>7 DEF Moves
    <2> QED BY <2>2, <2>3
  <1>9. ASSUME NEW n \in Nat, NEW act \in BOOLEAN, UNCHANGED <<conf, closed>>,
               <<k, n>> \in wire, wire' = wire \ {<<k, n>>},
               acted' = [acted EXCEPT ![k] = IF act THEN @ + 1 ELSE @],
               call'[k].op = call[k].op,
               \/ call'[k].pc = call[k].pc /\ call'[k].res = call[k].res
                    /\ call'[k].att = call[k].att
               \/ call[k].pc = "sent" /\ call'[k].pc = "done"
                    /\ call'[k].att = call[k].att
                    /\ call'[k].res \in {"nil", "status", "HTTP"}
                    /\ (call'[k].res = "nil" /\ call[k].op # "Ping" => act)
               \/ call[k].pc = "sent" /\ call'[k].pc = "sleep" /\ call'[k].res = call[k].res
                    /\ call[k].att # conf.maxRetries /\ call'[k].att = call[k].att + 1,
               \A j \in Calls \ {k} : call'[j] = call[j]
        PROVE  Moves(k)
    <2>1. /\ IsFiniteSet(wire') /\ Used(k)' <= Used(k) /\ Copies(k) # {} /\ Used(k)' \in Nat
          /\ acted'[k] >= acted[k] /\ (act => acted'[k] > 0)
          /\ \A j \in Calls \ {k} : Copies(j)' = Copies(j) /\ acted'[j] = acted[j]
      BY <1>9, OneLess
    <2>2. \A j \in Calls \ {k} : Same(j)
      BY <1>9, <2>1 DEF Same
    <2>3. call[k].pc \notin {"idle", "limit", "send"}
      BY <1>1, <2>1 DEF AttemptOK
    <2>4. AttemptOK(k)'
      <3>1. Used(k)' <= call[k].att + 1 /\ (call[k].pc = "sleep" => Used(k)' <= call[k].att)
        BY <1>1, <2>1 DEF AttemptOK
      <3> QED BY <1>1, <1>9, <2>1, <2>3, <3>1 DEF AttemptOK
    <2> QED BY <1>9, <2>1, <2>2, <2>3, <2>4 DEF Moves, Results
  <1>10. CASE Lose(k)
    BY <1>9, <1>10 DEF Lose, Provider, TypeOK
  <1>11. CASE Arrive(k)
    <2>1. PICK n \in Nat, a \in Answers, act \in BOOLEAN :
            /\ <<k, n>> \in wire
            /\ a \in {"200", "2xx"} => act
            /\ wire' = wire \ {<<k, n>>}
            /\ acted' = [acted EXCEPT ![k] = IF act THEN @ + 1 ELSE @]
            /\ (call[k].pc = "sent" /\ Respond(k, a)) \/ UNCHANGED call
            /\ UNCHANGED <<conf, closed>>
      <3>1. PICK n \in 0..call[k].att, a \in Answers, act \in BOOLEAN :
              /\ <<k, n>> \in wire
              /\ a \in {"200", "2xx"} => act
              /\ wire' = wire \ {<<k, n>>}
              /\ acted' = [acted EXCEPT ![k] = IF act THEN @ + 1 ELSE @]
              /\ (call[k].pc = "sent" /\ Respond(k, a)) \/ UNCHANGED call
              /\ UNCHANGED <<conf, closed>>
        BY <1>11 DEF Arrive, Provider
      <3>2. n \in Nat
        BY <1>1
      <3> QED BY <3>1, <3>2
    <2>2. CASE UNCHANGED call
      BY <1>9, <2>1, <2>2
    <2>3. CASE call[k].pc = "sent" /\ Respond(k, a) /\ a = "retryable"
      <3>1. /\ call'[k].op = call[k].op
            /\ \/ call'[k].pc = "done" /\ call'[k].res = "HTTP" /\ call'[k].att = call[k].att
               \/ /\ call[k].att # conf.maxRetries
                  /\ call'[k].pc = "sleep" /\ call'[k].res = call[k].res
                  /\ call'[k].att = call[k].att + 1
            /\ \A j \in Calls \ {k} : call'[j] = call[j]
        BY <2>3, RetryEffect DEF Respond
      <3> QED BY <1>9, <2>1, <2>3, <3>1
    <2>4. CASE call[k].pc = "sent" /\ Respond(k, a) /\ a # "retryable"
      <3>1. PICK r \in {"nil", "status"} :
              Return(k, r) /\ (r = "nil" /\ call[k].op # "Ping" => act)
        BY <2>1, <2>4 DEF Respond, Succeeds
      <3>2. /\ call'[k].op = call[k].op /\ call'[k].pc = "done" /\ call'[k].res = r
            /\ call'[k].att = call[k].att
            /\ \A j \in Calls \ {k} : call'[j] = call[j]
        BY <3>1, MoveEffect, Zenon
      <3> QED BY <1>9, <2>1, <2>4, <3>1, <3>2
    <2> QED BY <2>1, <2>2, <2>3, <2>4
  <1> QED BY <1>4, <1>5, <1>6, <1>7, <1>8, <1>10, <1>11 DEF Progress

LEMMA AttemptStep == TypeOK /\ AttemptInv /\ [Next]_vars => AttemptInv'
  <1> SUFFICES ASSUME TypeOK, AttemptInv, [Next]_vars PROVE AttemptInv'
    OBVIOUS
  <1>1. CASE Tick \/ UNCHANGED vars
    <2>1. UNCHANGED <<conf, closed, wire, acted>> /\ \A j \in Calls : Same(j)
      BY <1>1, NobodyMoves
    <2> QED BY <2>1, SameAttempt DEF AttemptInv
  <1>2. ASSUME NEW k \in Calls, Method(k) PROVE AttemptInv'
    <2>1. /\ UNCHANGED <<conf, wire, acted>> /\ call[k].pc = "idle"
          /\ call'[k].att = call[k].att
          /\ \A j \in Calls \ {k} : Same(j)
          /\ call'[k].pc \in {"limit", "send", "done"}
      BY <1>2, MethodEffect
    <2>2. \A j \in Calls \ {k} : AttemptOK(j)'
      BY <2>1, SameAttempt DEF AttemptInv
    <2>3. AttemptOK(k)'
      <3>1. Copies(k)' = Copies(k) /\ AttemptOK(k)
        BY <2>1 DEF Copies, AttemptInv
      <3> QED BY <2>1, <3>1 DEF AttemptOK, Used
    <2> QED BY <2>1, <2>2, <2>3 DEF AttemptInv
  <1>3. ASSUME NEW k \in Calls, Progress(k) \/ Cancel(k) PROVE AttemptInv'
    <2>1. Moves(k)
      BY <1>3, ProgressEffect
    <2>2. \A j \in Calls \ {k} : AttemptOK(j)'
      BY <2>1, SameAttempt DEF AttemptInv, Moves
    <2> QED BY <2>1, <2>2 DEF AttemptInv, Moves
  <1> QED BY <1>1, <1>2, <1>3 DEF Next

LEMMA InitAttempt == Init => AttemptInv
  <1> SUFFICES ASSUME Init PROVE AttemptInv
    OBVIOUS
  <1>1. TypeOK
    BY InitType
  <1>2. IsFiniteSet(wire) /\ \A k \in Calls : Copies(k) = {} /\ Cardinality(Copies(k)) = 0
    BY FS_EmptySet DEF Init, Copies
  <1>3. \A k \in Calls : call[k].att = 0 /\ acted[k] = 0 /\ call[k].pc = "idle"
    BY DEF Init, Idle
  <1>4. conf.maxRetries \in Nat
    BY <1>1 DEF TypeOK
  <1> QED BY <1>2, <1>3, <1>4 DEF AttemptInv, AttemptOK, Used

\* The backend acts on a call at most once per attempt, MaxRetries + 1 times in all,
\* however late requests arrive and whatever becomes of them and their answers.
THEOREM ActsPerAttempt == Spec => []AtMostPerAttempt
  <1>1. TypeOK /\ AttemptInv => AtMostPerAttempt
    <2> SUFFICES ASSUME TypeOK, AttemptInv, NEW k \in Calls
                 PROVE  /\ acted[k] + Cardinality(Copies(k)) <= call[k].att + 1
                        /\ acted[k] <= conf.maxRetries + 1
                        /\ call[k].pc \in {"idle", "limit"} => acted[k] = 0 /\ Copies(k) = {}
      BY DEF AtMostPerAttempt
    <2>1. AttemptOK(k) /\ Cardinality(Copies(k)) \in Nat
      BY CopiesType DEF AttemptInv
    <2> QED BY <2>1 DEF AttemptOK, Used, TypeOK
  <1> QED BY <1>1, InitAttempt, AttemptStep, InitType, NextType, PTL DEF Spec

-----------------------------------------------------------------------------
(* Results.  A call that has not begun has no operation, and one that was  *)
(* answered ErrShutdown is over before it sent anything.                   *)

Winner(k) == call[k].op = "Shutdown" /\ call[k].res # "ErrShutdown"

ResultInv ==
    /\ NilMeansActed
    /\ \A k \in Calls : call[k].pc = "idle" => call[k].op = "none"
    /\ ~closed => \A k \in Calls : call[k].op # "Shutdown"
    /\ closed => \E k \in Calls : \A j \in Calls : Winner(j) <=> j = k
    /\ \A k \in Calls : call[k].res = "ErrShutdown" =>
          closed /\ call[k].pc = "done" /\ acted[k] = 0 /\ Copies(k) = {}

LEMMA ResultStep == TypeOK /\ AttemptInv /\ ResultInv /\ [Next]_vars => ResultInv'
  <1> SUFFICES ASSUME TypeOK, AttemptInv, ResultInv, [Next]_vars PROVE ResultInv'
    OBVIOUS
  <1>1. CASE Tick \/ UNCHANGED vars
    <2>1. UNCHANGED <<conf, closed, wire, acted>> /\ \A j \in Calls : Same(j)
      BY <1>1, NobodyMoves
    <2> QED BY <2>1 DEF ResultInv, NilMeansActed, Same, Winner
  <1>2. ASSUME NEW k \in Calls, Method(k) PROVE ResultInv'
    <2>1. /\ UNCHANGED <<conf, wire, acted>> /\ call[k].pc = "idle"
          /\ \/ /\ call'[k].op # "Shutdown" /\ UNCHANGED closed
                /\ call'[k].pc \in {"limit", "send", "done"}
                /\ call'[k].res \in {"none", "ErrShutdown", "ErrUnsupportedOperation"}
                /\ call'[k].res = "ErrShutdown" => closed /\ call'[k].pc = "done"
             \/ /\ call'[k].op = "Shutdown" /\ closed'
                /\ IF closed THEN call'[k].pc = "done" /\ call'[k].res = "ErrShutdown"
                   ELSE call'[k].pc = "limit" /\ call'[k].res = "none"
          /\ \A j \in Calls \ {k} : Same(j)
      BY <1>2, MethodEffect
    <2>2. /\ call[k].op = "none" /\ acted[k] = 0 /\ Copies(k) = {} /\ Copies(k)' = Copies(k)
          /\ call'[k].pc # "idle" /\ call'[k].res # "nil"
      BY <2>1 DEF ResultInv, AttemptInv, AttemptOK, Copies
    <2>3. \A j \in Calls \ {k} : Winner(j)' <=> Winner(j)
      BY <2>1 DEF Same, Winner
    <2>4. NilMeansActed' /\ \A j \in Calls : call'[j].pc = "idle" => call'[j].op = "none"
      BY <2>1, <2>2 DEF ResultInv, NilMeansActed, Same
    <2>5. ~closed' => \A j \in Calls : call'[j].op # "Shutdown"
      BY <2>1 DEF ResultInv, Same
    <2>6. closed' => \E m \in Calls : \A j \in Calls : Winner(j)' <=> j = m
      <3>1. CASE closed
        <4>1. ~Winner(k)' /\ ~Winner(k)
          BY <2>1, <2>2, <3>1 DEF Winner
        <4> QED BY <2>3, <3>1, <4>1 DEF ResultInv
      <3>2. CASE ~closed /\ closed'
        <4>1. Winner(k)'
          BY <2>1, <3>2 DEF Winner
        <4>2. \A j \in Calls : ~Winner(j)
          BY <3>2 DEF ResultInv, Winner
        <4> QED BY <2>3, <4>1, <4>2
      <3> QED BY <3>1, <3>2
    <2>7. \A j \in Calls : call'[j].res = "ErrShutdown" =>
            closed' /\ call'[j].pc = "done" /\ acted'[j] = 0 /\ Copies(j)' = {}
      BY <2>1, <2>2 DEF ResultInv, Same
    <2> QED BY <2>4, <2>5, <2>6, <2>7 DEF ResultInv
  <1>3. ASSUME NEW k \in Calls, Progress(k) \/ Cancel(k) PROVE ResultInv'
    <2>1. Moves(k)
      BY <1>3, ProgressEffect
    <2>2. /\ UNCHANGED <<conf, closed>> /\ \A j \in Calls \ {k} : Same(j)
          /\ call'[k].op = call[k].op /\ acted'[k] >= acted[k]
          /\ acted'[k] \in Nat /\ acted[k] \in Nat
      BY <2>1, NextType DEF Moves, TypeOK
    <2>3. \A j \in Calls : call'[j].res = "ErrShutdown" <=> call[j].res = "ErrShutdown"
      BY <2>1, <2>2 DEF Moves, Same, ResultInv
    <2>4. \A j \in Calls : Winner(j)' <=> Winner(j)
      BY <2>2, <2>3 DEF Winner, Same
    <2>5. NilMeansActed'
      BY <2>1, <2>2 DEF NilMeansActed, ResultInv, Moves, Same
    <2>6. \A j \in Calls : call'[j].pc = "idle" => call'[j].op = "none"
      <3>1. call'[k].pc = "idle" => call'[k].op = "none"
        BY <2>1, <2>2 DEF Moves, ResultInv
      <3> QED BY <2>2, <3>1 DEF Same, ResultInv
    <2>7. \A j \in Calls : call'[j].res = "ErrShutdown" =>
            closed' /\ call'[j].pc = "done" /\ acted'[j] = 0 /\ Copies(j)' = {}
      BY <2>1, <2>2, <2>3 DEF Moves, Same, ResultInv
    <2> QED BY <2>2, <2>4, <2>5, <2>6, <2>7 DEF ResultInv, Same
  <1> QED BY <1>1, <1>2, <1>3 DEF Next

LEMMA InitResult == Init => ResultInv
  BY DEF Init, ResultInv, NilMeansActed, Idle

\* A call that returned nil was acted on by the backend, whatever was lost, retried or
\* answered late before.
THEOREM NilIsActed == Spec => []NilMeansActed
  <1>1. ResultInv => NilMeansActed
    BY DEF ResultInv
  <1> QED BY <1>1, InitResult, ResultStep, InitAttempt, AttemptStep, InitType, NextType, PTL
          DEF Spec

\* Of all Shutdown calls exactly one goes on to the last flush, and a call that was
\* answered ErrShutdown never reached the server.
THEOREM OneShutdown == Spec => []ShutdownOnce
  <1>1. ResultInv => ShutdownOnce
    BY DEF ResultInv, ShutdownOnce, Winner
  <1> QED BY <1>1, InitResult, ResultStep, InitAttempt, AttemptStep, InitType, NextType, PTL
          DEF Spec

=============================================================================
