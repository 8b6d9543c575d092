------------------------- MODULE ProviderQueueProofs -------------------------
(***************************************************************************)
(* Proofs about ProviderQueue, for any number of messages and callers and  *)
(* every configuration.                                                    *)
(***************************************************************************)
EXTENDS ProviderQueue, TLAPS, SequenceTheorems

-----------------------------------------------------------------------------
(* What the actions do, stated once.                                       *)

\* One turn of Enqueue under mu either leaves the buffer alone, appends where
\* there is room, or evicts the head of a full buffer and appends.
EnqueueEffect(m) ==
    \/ \E o \in {"rejected", "dropped", "cancelled", "parking"} : EnqueueWithout(m, o)
    \/ ~closed /\ AppendIfRoom(m)
    \/ /\ ~closed
       /\ Full
       /\ AppendTo(m, Tail(buf))
       /\ fate' = [fate EXCEPT ![Head(buf)] = "evicted"]

\* EnqueueEnter and EnqueueWake have no other effect on the buffer.
LEMMA EnqueueSteps ==
    ASSUME NEW m \in Msgs, EnqueueEnter(m) \/ EnqueueWake(m)
    PROVE  /\ enq[m] \in {"idle", "woken"}
           /\ EnqueueEffect(m)
           /\ UNCHANGED <<conf, closed, stopped, cancelled, runVars, allCallVars>>
           /\ watch' \in {watch, watch \cup ({m} \cap Cancellable)}
  BY Zenon DEF EnqueueEnter, EnqueueWake, EnqueueEffect, EnqueueDropOldest,
         EnqueueDropNewest, EnqueueBlock

\* The configuration that NewQueue builds is usable.
LEMMA NewQueueType ==
    ASSUME NEW b \in BatchSizes, NEW n \in MaxQueueSizes, NEW p \in Policies
    PROVE  NewQueue(b, n, p) \in
             [batch : Nat \ {0}, max : Nat \ {0}, overflow : OverflowPolicies]
  <1>1. b \in Int /\ n \in Int /\ p \in OverflowPolicies \cup {""}
    BY ConfigAssumption DEF ConfigAssumption
  <1>2. ASSUME NEW i \in Int, NEW d \in Nat \ {0} PROVE OrDefault(i, d) \in Nat \ {0}
    BY DEF OrDefault
  <1>3. defaultBatchSize \in Nat \ {0} /\ defaultMaxQueueSize \in Nat \ {0}
    BY DEF defaultBatchSize, defaultMaxQueueSize
  <1>4. (IF p = "" THEN "drop_oldest" ELSE p) \in OverflowPolicies
    BY <1>1 DEF OverflowPolicies
  <1> QED BY <1>1, <1>2, <1>3, <1>4 DEF NewQueue

-----------------------------------------------------------------------------
(* Types.                                                                  *)

LEMMA InitType == Init => TypeOK
  <1> SUFFICES ASSUME Init PROVE TypeOK
    OBVIOUS
  <1>1. conf \in [batch : Nat \ {0}, max : Nat \ {0}, overflow : OverflowPolicies]
    BY NewQueueType, Zenon DEF Init
  <1>2. buf \in Seq(Msgs) /\ batch \in Seq(Msgs) /\ log \in Seq(Msgs)
    BY EmptySeq DEF Init
  <1> QED BY <1>1, <1>2 DEF Init, TypeOK, Callers, Blocked, EnqReturned, Results

LEMMA BroadcastType ==
    ASSUME TypeOK
    PROVE  Broadcast(enq) \in [Msgs -> {"idle"} \cup Blocked \cup EnqReturned]
  BY DEF TypeOK, Broadcast, Blocked, EnqReturned

\* The buffer after overflow handling is a sequence of messages.
LEMMA KeptType ==
    ASSUME TypeOK
    PROVE  /\ buf # << >> => Tail(buf) \in Seq(Msgs) /\ Len(Tail(buf)) = Len(buf) - 1
           /\ buf # << >> => Head(buf) \in Msgs
           /\ Full => buf # << >>
           /\ Len(buf) \in Nat
  BY DEF TypeOK, Full

LEMMA EnqueueType ==
    ASSUME TypeOK, NEW m \in Msgs, EnqueueEnter(m) \/ EnqueueWake(m)
    PROVE  TypeOK'
  <1>1. /\ EnqueueEffect(m)
        /\ UNCHANGED <<conf, closed, stopped, cancelled, runVars, allCallVars>>
        /\ watch' \in {watch, watch \cup ({m} \cap Cancellable)}
    BY EnqueueSteps, Zenon
  <1>2. CASE \E o \in {"rejected", "dropped", "cancelled", "parking"} : EnqueueWithout(m, o)
    BY <1>1, <1>2 DEF TypeOK, EnqueueWithout, bufVars, runVars, allCallVars, Blocked, EnqReturned
  <1>3. ASSUME NEW kept \in Seq(Msgs), AppendTo(m, kept)
        PROVE  /\ buf' \in Seq(Msgs)
               /\ log' \in Seq(Msgs)
               /\ enq' \in [Msgs -> {"idle"} \cup Blocked \cup EnqReturned]
               /\ flushCh' \in Callers \cup {"empty", "signal"}
    BY <1>3 DEF TypeOK, AppendTo, Appended, SignalAtBatch, Blocked, EnqReturned
  <1>4. CASE ~closed /\ AppendIfRoom(m)
    <2>1. AppendTo(m, buf) /\ fate' = fate
      BY <1>4 DEF AppendIfRoom
    <2>2. /\ buf' \in Seq(Msgs)
          /\ log' \in Seq(Msgs)
          /\ enq' \in [Msgs -> {"idle"} \cup Blocked \cup EnqReturned]
          /\ flushCh' \in Callers \cup {"empty", "signal"}
      BY <2>1, <1>3 DEF TypeOK
    <2> QED BY <1>1, <2>1, <2>2 DEF TypeOK, runVars, allCallVars
  <1>5. CASE /\ Full
             /\ AppendTo(m, Tail(buf))
             /\ fate' = [fate EXCEPT ![Head(buf)] = "evicted"]
    <2>1. Tail(buf) \in Seq(Msgs)
      BY <1>5, KeptType
    <2>2. /\ buf' \in Seq(Msgs)
          /\ log' \in Seq(Msgs)
          /\ enq' \in [Msgs -> {"idle"} \cup Blocked \cup EnqReturned]
          /\ flushCh' \in Callers \cup {"empty", "signal"}
      BY <2>1, <1>3, <1>5
    <2>3. fate' \in [Msgs -> {"none", "evicted", "delivered", "failed"}]
      BY <1>5 DEF TypeOK
    <2> QED BY <1>1, <2>2, <2>3 DEF TypeOK, runVars, allCallVars
  <1> QED BY <1>1, <1>2, <1>4, <1>5, Zenon DEF EnqueueEffect

LEMMA FlushBeginType ==
    ASSUME TypeOK, NEW c \in Callers, FlushBegin(c)
    PROVE  /\ call' \in [Callers -> {"idle", "request", "await", "mark", "stop", "join",
                                     "once", "returned"}]
           /\ owed' \in [Callers -> SUBSET Msgs]
  <1>1. Range(buf) \subseteq Msgs /\ Range(batch) \subseteq Msgs
    BY DEF TypeOK, Range
  <1> QED BY <1>1 DEF TypeOK, FlushBegin

\* Every step keeps every variable in its type.
LEMMA NextType == TypeOK /\ [Next]_vars => TypeOK'
  <1> SUFFICES ASSUME TypeOK, [Next]_vars PROVE TypeOK'
    OBVIOUS
  <1>1. ASSUME NEW m \in Msgs, EnqueueEnter(m) PROVE TypeOK'
    BY <1>1, EnqueueType
  <1>2. ASSUME NEW m \in Msgs, EnqueuePark(m) PROVE TypeOK'
    BY <1>2 DEF TypeOK, EnqueuePark, bufVars, runVars, allCallVars, Blocked
  <1>3. ASSUME NEW m \in Msgs, EnqueueWake(m) PROVE TypeOK'
    BY <1>3, EnqueueType
  <1>4. ASSUME NEW m \in Msgs, Watcher(m) PROVE TypeOK'
    BY <1>4, BroadcastType
       DEF TypeOK, Watcher, WatcherBroadcast, WatcherStop, bufVars, runVars, allCallVars
  <1>5. ASSUME NEW x \in Cancellable, Cancel(x) PROVE TypeOK'
    BY <1>5 DEF TypeOK, Cancel, bufVars, runVars, allCallVars
  <1>6. CASE RunTick
    BY <1>6 DEF TypeOK, RunTick, FlushOnTick, bufVars, enqVars, allCallVars
  <1>7. CASE RunRecv
    BY <1>7 DEF TypeOK, RunRecv, bufVars, enqVars, allCallVars
  <1>8. CASE RunStop
    BY <1>8 DEF TypeOK, RunStop, bufVars, enqVars, allCallVars
  <1>9. CASE RunTake
    <2>1. done' \in [Callers -> {"none", "nil", "err"}]
      BY <1>9 DEF TypeOK, RunTake, ReplyOnEmpty, NoReplyOnTake, Reply
    <2>2. enq' \in [Msgs -> {"idle"} \cup Blocked \cup EnqReturned]
      BY <1>9, BroadcastType DEF TypeOK, RunTake, WakeBlocked
    <2>3. buf' \in Seq(Msgs) /\ batch' \in Seq(Msgs)
      BY <1>9, EmptySeq DEF TypeOK, RunTake, FreshBuf
    <2> QED BY <1>9, <2>1, <2>2, <2>3 DEF TypeOK, RunTake, callVars
  <1>10. ASSUME NEW r \in {"nil", "err"}, RunSend(r) PROVE TypeOK'
    <2>1. done' \in [Callers -> {"none", "nil", "err"}]
      BY <1>10 DEF TypeOK, RunSend, Reply
    <2>2. fate' \in [Msgs -> {"none", "evicted", "delivered", "failed"}]
      BY <1>10 DEF TypeOK, RunSend
    <2> QED BY <1>10, <2>1, <2>2 DEF TypeOK, RunSend, enqVars, callVars
  <1>11. ASSUME NEW c \in Callers, FlushCall(c) PROVE TypeOK'
    <2>1. FlushBegin(c) BY <1>11 DEF FlushCall
    <2> QED BY <1>11, <2>1, FlushBeginType
            DEF TypeOK, FlushCall, bufVars, enqVars, runVars
  <1>12. ASSUME NEW c \in Callers, FlushRequest(c) PROVE TypeOK'
    BY <1>12 DEF TypeOK, FlushRequest, FlushEnd, Results, bufVars, enqVars, runVars
  <1>13. ASSUME NEW c \in Callers, FlushAwait(c) PROVE TypeOK'
    <2>1. \E r \in Results : FlushEnd(c, r)
      BY <1>13 DEF TypeOK, FlushAwait, Results
    <2>2. res' \in [Callers -> Results]
      BY <2>1 DEF TypeOK, FlushEnd
    <2> QED BY <1>13, <2>1, <2>2 DEF TypeOK, FlushAwait, FlushEnd, bufVars, enqVars, runVars
  <1>14. ASSUME NEW c \in Callers, ShutdownCall(c) PROVE TypeOK'
    <2>1. CASE once = "fresh"
      <3>1. FlushBegin(c) BY <1>14, <2>1 DEF ShutdownCall
      <3> QED BY <1>14, <2>1, <3>1, FlushBeginType
              DEF TypeOK, ShutdownCall, bufVars, enqVars, runVars
    <2>2. CASE once # "fresh"
      BY <1>14, <2>2 DEF TypeOK, ShutdownCall, bufVars, enqVars, runVars
    <2> QED BY <2>1, <2>2
  <1>15. ASSUME NEW c \in Callers, ShutdownAgain(c) PROVE TypeOK'
    BY <1>15 DEF TypeOK, ShutdownAgain, Results, bufVars, enqVars, runVars
  <1>16. ASSUME NEW c \in Callers, ShutdownMark(c) PROVE TypeOK'
    BY <1>16, BroadcastType DEF TypeOK, ShutdownMark, Close, bufVars, runVars
  <1>17. ASSUME NEW c \in Callers, ShutdownStop(c) PROVE TypeOK'
    BY <1>17 DEF TypeOK, ShutdownStop, CloseStopCh, bufVars, enqVars, runVars
  <1>18. ASSUME NEW c \in Callers, ShutdownJoin(c) PROVE TypeOK'
    BY <1>18 DEF TypeOK, ShutdownJoin, bufVars, enqVars, runVars
  <1>19. CASE UNCHANGED vars
    BY <1>19 DEF TypeOK, vars
  <1> QED BY <1>1, <1>2, <1>3, <1>4, <1>5, <1>6, <1>7, <1>8, <1>9, <1>10, <1>11, <1>12,
             <1>13, <1>14, <1>15, <1>16, <1>17, <1>18, <1>19, Zenon
          DEF Next, Enqueue, Run, Fn, Flush, Shutdown

\* Every reachable state is well typed: in particular the configuration keeps
\* positive sizes, and run answers and calls end in states the code has.
THEOREM TypeCorrect == Spec => []TypeOK
  BY InitType, NextType, PTL DEF Spec

-----------------------------------------------------------------------------
(* Sequences.                                                              *)

LEMMA AppendFacts ==
    ASSUME NEW kept \in Seq(Msgs), NEW m \in Msgs
    PROVE  /\ Append(kept, m) \in Seq(Msgs)
           /\ Len(Append(kept, m)) = Len(kept) + 1
           /\ Len(kept) \in Nat
           /\ \A i \in 1..Len(kept) : Append(kept, m)[i] = kept[i]
           /\ Append(kept, m)[Len(kept) + 1] = m
           /\ Range(Append(kept, m)) = Range(kept) \cup {m}
  <1>1. /\ Append(kept, m) \in Seq(Msgs)
        /\ Len(Append(kept, m)) = Len(kept) + 1
        /\ Len(kept) \in Nat
        /\ \A i \in 1..Len(kept) : Append(kept, m)[i] = kept[i]
        /\ Append(kept, m)[Len(kept) + 1] = m
    OBVIOUS
  <1>2. DOMAIN kept = 1..Len(kept) /\ DOMAIN Append(kept, m) = 1..(Len(kept) + 1)
    BY <1>1
  <1>3. Range(Append(kept, m)) \subseteq Range(kept) \cup {m}
    BY <1>1, <1>2 DEF Range
  <1>4. Range(kept) \subseteq Range(Append(kept, m))
    BY <1>1, <1>2 DEF Range
  <1>5. m \in Range(Append(kept, m))
    BY <1>1, <1>2 DEF Range
  <1> QED BY <1>1, <1>3, <1>4, <1>5

LEMMA RangeFacts ==
    ASSUME NEW s \in Seq(Msgs)
    PROVE  /\ Len(s) \in Nat
           /\ DOMAIN s = 1..Len(s)
           /\ Range(s) \subseteq Msgs
           /\ \A i \in 1..Len(s) : s[i] \in Range(s)
           /\ \A x \in Range(s) : \E i \in 1..Len(s) : s[i] = x
           /\ s = << >> <=> Range(s) = {}
           /\ s = << >> <=> Len(s) = 0
  <1>1. Len(s) \in Nat /\ DOMAIN s = 1..Len(s)
    OBVIOUS
  <1>2. \A i \in 1..Len(s) : s[i] \in Range(s)
    BY <1>1 DEF Range
  <1>3. \A x \in Range(s) : \E i \in 1..Len(s) : s[i] = x
    BY <1>1 DEF Range
  <1>4. s = << >> <=> Len(s) = 0
    BY EmptySeq
  <1>5. Range(s) \subseteq Msgs
    BY <1>1, <1>3
  <1>6. s = << >> <=> Range(s) = {}
    BY <1>1, <1>2, <1>3, <1>4
  <1> QED BY <1>1, <1>2, <1>3, <1>4, <1>5, <1>6

\* Removing the head of a sequence without repetitions removes that element.
LEMMA TailFacts ==
    ASSUME NEW s \in Seq(Msgs), s # << >>,
           \A i, j \in 1..Len(s) : s[i] = s[j] => i = j
    PROVE  /\ Tail(s) \in Seq(Msgs)
           /\ Len(Tail(s)) = Len(s) - 1
           /\ \A i \in 1..(Len(s) - 1) : Tail(s)[i] = s[i + 1]
           /\ Head(s) \in Range(s)
           /\ Range(Tail(s)) = Range(s) \ {Head(s)}
  <1>1. /\ Tail(s) \in Seq(Msgs)
        /\ Len(s) \in Nat \ {0}
        /\ Len(Tail(s)) = Len(s) - 1
        /\ \A i \in 1..(Len(s) - 1) : Tail(s)[i] = s[i + 1]
        /\ Head(s) = s[1]
    BY EmptySeq
  <1>2. Head(s) \in Range(s)
    BY <1>1, RangeFacts
  <1>3. ASSUME NEW x \in Range(Tail(s)) PROVE x \in Range(s) \ {Head(s)}
    <2>1. PICK i \in 1..(Len(s) - 1) : Tail(s)[i] = x
      BY <1>1, RangeFacts
    <2>2. i + 1 \in 1..Len(s) /\ s[i + 1] = x /\ i + 1 # 1 /\ 1 \in 1..Len(s)
      BY <1>1, <2>1
    <2> QED BY <1>1, <2>2, RangeFacts
  <1>4. ASSUME NEW x \in Range(s), x # Head(s) PROVE x \in Range(Tail(s))
    <2>1. PICK i \in 1..Len(s) : s[i] = x
      BY RangeFacts
    <2>2. i - 1 \in 1..(Len(s) - 1) /\ Tail(s)[i - 1] = x
      BY <1>1, <1>4, <2>1
    <2> QED BY <1>1, <2>2, RangeFacts
  <1> QED BY <1>1, <1>2, <1>3, <1>4

-----------------------------------------------------------------------------
(* The size of the buffer and the batch signal.                            *)

\* What an append leaves: at most one message more than was kept, and a signal
\* in flushCh if that makes a batch.
LEMMA AppendSize ==
    ASSUME TypeOK, NEW m \in Msgs, NEW kept \in Seq(Msgs), AppendTo(m, kept)
    PROVE  /\ Len(buf') = Len(kept) + 1
           /\ Len(buf') >= conf.batch => flushCh' # "empty"
           /\ flushCh # "empty" => flushCh' # "empty"
  BY AppendFacts DEF TypeOK, AppendTo, Appended, SignalAtBatch

SizeInv == BoundedBuffer /\ ThresholdArmed

LEMMA EnqueueSize ==
    ASSUME TypeOK, SizeInv, NEW m \in Msgs, EnqueueEnter(m) \/ EnqueueWake(m)
    PROVE  SizeInv'
  <1>1. /\ EnqueueEffect(m)
        /\ conf' = conf /\ runPc' = runPc
    BY EnqueueSteps, Zenon DEF runVars
  <1>2. CASE \E o \in {"rejected", "dropped", "cancelled", "parking"} : EnqueueWithout(m, o)
    BY <1>1, <1>2 DEF SizeInv, BoundedBuffer, ThresholdArmed, EnqueueWithout, bufVars
  <1>3. CASE AppendIfRoom(m)
    <2>1. AppendTo(m, buf) /\ Len(buf) < conf.max /\ Len(buf) \in Nat
      BY <1>3 DEF AppendIfRoom, Full, TypeOK
    <2>2. Len(buf') = Len(buf) + 1 /\ (Len(buf') >= conf.batch => flushCh' # "empty")
      BY <2>1, AppendSize DEF TypeOK
    <2> QED BY <1>1, <2>1, <2>2 DEF SizeInv, BoundedBuffer, ThresholdArmed, TypeOK
  <1>4. CASE Full /\ AppendTo(m, Tail(buf))
    <2>1. Tail(buf) \in Seq(Msgs) /\ Len(Tail(buf)) = Len(buf) - 1 /\ Len(buf) \in Nat
      BY <1>4, KeptType
    <2>2. Len(buf') = Len(Tail(buf)) + 1 /\ (Len(buf') >= conf.batch => flushCh' # "empty")
      BY <1>4, <2>1, AppendSize
    <2> QED BY <1>1, <2>1, <2>2 DEF SizeInv, BoundedBuffer, ThresholdArmed
  <1> QED BY <1>1, <1>2, <1>3, <1>4, Zenon DEF EnqueueEffect

LEMMA NextSize == TypeOK /\ SizeInv /\ [Next]_vars => SizeInv'
  <1> SUFFICES ASSUME TypeOK, SizeInv, [Next]_vars PROVE SizeInv'
    OBVIOUS
  <1> USE DEF SizeInv, BoundedBuffer, ThresholdArmed
  <1>1. ASSUME NEW m \in Msgs, EnqueueEnter(m) \/ EnqueueWake(m) PROVE SizeInv'
    BY <1>1, EnqueueSize
  <1>2. ASSUME NEW m \in Msgs, EnqueuePark(m) \/ Watcher(m) PROVE SizeInv'
    BY <1>2 DEF EnqueuePark, Watcher, WatcherBroadcast, WatcherStop, bufVars, runVars
  <1>3. ASSUME NEW x \in Cancellable, Cancel(x) PROVE SizeInv'
    BY <1>3 DEF Cancel, bufVars, runVars
  <1>4. CASE RunTick \/ RunRecv \/ RunStop
    BY <1>4 DEF RunTick, RunRecv, RunStop, FlushOnTick, bufVars
  <1>5. CASE RunTake
    <2>1. buf' = << >> /\ conf' = conf /\ Len(buf') = 0
      BY <1>5, EmptySeq DEF RunTake, FreshBuf
    <2> QED BY <2>1 DEF TypeOK
  <1>6. ASSUME NEW r \in {"nil", "err"}, RunSend(r) PROVE SizeInv'
    BY <1>6 DEF RunSend
  <1>7. ASSUME NEW c \in Callers, FlushRequest(c) PROVE SizeInv'
    <2>1. c # "empty" BY CallsAssumption DEF CallsAssumption
    <2> QED BY <1>7, <2>1 DEF FlushRequest, bufVars, runVars
  <1>8. ASSUME NEW c \in Callers, FlushCall(c) \/ FlushAwait(c) PROVE SizeInv'
    BY <1>8 DEF FlushCall, FlushAwait, bufVars, runVars
  <1>9. ASSUME NEW c \in Callers, Shutdown(c) PROVE SizeInv'
    BY <1>9 DEF Shutdown, ShutdownCall, ShutdownAgain, ShutdownMark, ShutdownStop,
                ShutdownJoin, bufVars, runVars
  <1>10. CASE UNCHANGED vars
    BY <1>10 DEF vars
  <1> HIDE DEF SizeInv, BoundedBuffer, ThresholdArmed
  <1> QED BY <1>1, <1>2, <1>3, <1>4, <1>5, <1>6, <1>7, <1>8, <1>9, <1>10, Zenon
          DEF Next, Enqueue, Run, Fn, Flush

\* The buffer respects MaxQueueSize and the batch signal is never lost, under
\* every policy and every interleaving.
THEOREM BufferBounded == Spec => [](BoundedBuffer /\ ThresholdArmed)
  <1>1. Init => SizeInv
    <2> SUFFICES ASSUME Init PROVE SizeInv OBVIOUS
    <2>1. TypeOK /\ Len(buf) = 0 BY InitType, EmptySeq DEF Init
    <2> QED BY <2>1 DEF SizeInv, BoundedBuffer, ThresholdArmed, TypeOK
  <1>2. SizeInv => BoundedBuffer /\ ThresholdArmed
    BY DEF SizeInv
  <1> QED BY <1>1, <1>2, NextSize, TypeCorrect, PTL DEF Spec

\* A buffer that has reached the batch size has a flush on its way: the signal that Enqueue
\* sends at BatchSize is never lost, whatever the buffered channel held.
THEOREM ThresholdStaysArmed == Spec => []ThresholdArmed
  BY BufferBounded, PTL

-----------------------------------------------------------------------------
(* Shutdown.                                                               *)

\* Once shutdownOnce is over, the queue is closed and run has returned; only
\* then does a Shutdown call return.
ShutdownInv ==
    /\ once = "over" => closed /\ runPc = "exited"
    /\ \A c \in Callers : call[c] \in {"stop", "join"} => closed
    /\ \A c \in Closers : call[c] = "returned" => once = "over"

LEMMA NextShutdown == TypeOK /\ ShutdownInv /\ [Next]_vars => ShutdownInv'
  <1> SUFFICES ASSUME TypeOK, ShutdownInv, [Next]_vars PROVE ShutdownInv'
    OBVIOUS
  <1>0. Closers \subseteq Callers /\ Flushers \cap Closers = {}
    BY CallsAssumption DEF CallsAssumption, Callers
  <1>1. ASSUME NEW m \in Msgs, EnqueueEnter(m) \/ EnqueueWake(m) PROVE ShutdownInv'
    <2>1. UNCHANGED <<closed, runVars, allCallVars>>
      BY <1>1, EnqueueSteps, Zenon
    <2> QED BY <2>1 DEF ShutdownInv, runVars, allCallVars
  <1>2. ASSUME NEW m \in Msgs, EnqueuePark(m) \/ Watcher(m) PROVE ShutdownInv'
    BY <1>2 DEF ShutdownInv, EnqueuePark, Watcher, WatcherBroadcast, WatcherStop,
                runVars, allCallVars
  <1>3. ASSUME NEW x \in Cancellable, Cancel(x) PROVE ShutdownInv'
    BY <1>3 DEF ShutdownInv, Cancel, runVars, allCallVars
  <1>4. CASE RunTick \/ RunRecv \/ RunStop
    BY <1>4 DEF ShutdownInv, RunTick, RunRecv, RunStop, allCallVars
  <1>5. CASE RunTake
    BY <1>5 DEF ShutdownInv, RunTake, callVars
  <1>6. ASSUME NEW r \in {"nil", "err"}, RunSend(r) PROVE ShutdownInv'
    BY <1>6 DEF ShutdownInv, RunSend, callVars
  <1>7. ASSUME NEW c \in Callers, FlushCall(c) PROVE ShutdownInv'
    BY <1>7 DEF ShutdownInv, TypeOK, FlushCall, FlushBegin, runVars
  <1>8. ASSUME NEW c \in Callers, FlushRequest(c) PROVE ShutdownInv'
    BY <1>0, <1>8 DEF ShutdownInv, TypeOK, FlushRequest, FlushEnd, runVars
  <1>9. ASSUME NEW c \in Callers, FlushAwait(c) PROVE ShutdownInv'
    BY <1>0, <1>9 DEF ShutdownInv, TypeOK, FlushAwait, FlushEnd, runVars
  <1>10. ASSUME NEW c \in Callers, ShutdownCall(c) PROVE ShutdownInv'
    BY <1>0, <1>10 DEF ShutdownInv, TypeOK, ShutdownCall, FlushBegin, runVars
  <1>11. ASSUME NEW c \in Callers, ShutdownAgain(c) PROVE ShutdownInv'
    BY <1>0, <1>11 DEF ShutdownInv, TypeOK, ShutdownAgain, runVars
  <1>12. ASSUME NEW c \in Callers, ShutdownMark(c) PROVE ShutdownInv'
    BY <1>0, <1>12 DEF ShutdownInv, TypeOK, ShutdownMark, Close, runVars
  <1>13. ASSUME NEW c \in Callers, ShutdownStop(c) PROVE ShutdownInv'
    BY <1>0, <1>13 DEF ShutdownInv, TypeOK, ShutdownStop, runVars
  <1>14. ASSUME NEW c \in Callers, ShutdownJoin(c) PROVE ShutdownInv'
    BY <1>0, <1>14 DEF ShutdownInv, TypeOK, ShutdownJoin, Joined, runVars
  <1>15. CASE UNCHANGED vars
    BY <1>15 DEF ShutdownInv, vars
  <1> QED BY <1>1, <1>2, <1>3, <1>4, <1>5, <1>6, <1>7, <1>8, <1>9, <1>10, <1>11, <1>12,
             <1>13, <1>14, <1>15, Zenon
          DEF Next, Enqueue, Run, Fn, Flush, Shutdown

\* A queue that is closed and whose run goroutine has returned does not move.
LEMMA ClosedAtRest ==
    ASSUME [Next]_vars, closed, runPc = "exited"
    PROVE  UNCHANGED <<buf, batch, fate, log>>
  <1>1. ASSUME NEW m \in Msgs, EnqueueEnter(m) \/ EnqueueWake(m)
        PROVE  UNCHANGED <<buf, batch, fate, log>>
    <2>1. EnqueueEffect(m) /\ batch' = batch
      BY <1>1, EnqueueSteps, Zenon DEF runVars
    <2> QED BY <2>1 DEF EnqueueEffect, EnqueueWithout, bufVars
  <1>2. ASSUME NEW m \in Msgs, EnqueuePark(m) \/ Watcher(m)
        PROVE  UNCHANGED <<buf, batch, fate, log>>
    BY <1>2 DEF EnqueuePark, Watcher, WatcherBroadcast, WatcherStop, bufVars, runVars
  <1>3. ASSUME NEW x \in Cancellable, Cancel(x) PROVE UNCHANGED <<buf, batch, fate, log>>
    BY <1>3 DEF Cancel, bufVars, runVars
  <1>4. ~Run
    BY DEF Run, Fn, RunTick, RunRecv, RunStop, RunTake, RunSend
  <1>5. ASSUME NEW c \in Callers, Flush(c) \/ Shutdown(c)
        PROVE  UNCHANGED <<buf, batch, fate, log>>
    BY <1>5 DEF Flush, FlushCall, FlushRequest, FlushAwait, Shutdown, ShutdownCall,
                ShutdownAgain, ShutdownMark, ShutdownStop, ShutdownJoin, bufVars, runVars
  <1>6. CASE UNCHANGED vars
    BY <1>6 DEF vars
  <1> QED BY <1>1, <1>2, <1>3, <1>4, <1>5, <1>6, Zenon DEF Next, Enqueue

LEMMA InitShutdown == Init => ShutdownInv
  BY DEF Init, ShutdownInv, Callers

\* After any Shutdown call has returned, nothing is accepted and fn is never
\* called again, whatever the other callers go on to do.
THEOREM QuiescedAfterShutdown == Spec => Quiesced
  <1>1. ShutdownInv /\ [Next]_vars
          => [(\E c \in Closers : call[c] = "returned")
                 => UNCHANGED <<buf, batch, fate, log>>]_vars
    <2> SUFFICES ASSUME ShutdownInv, [Next]_vars, NEW c \in Closers, call[c] = "returned"
                 PROVE  UNCHANGED <<buf, batch, fate, log>>
      OBVIOUS
    <2>1. closed /\ runPc = "exited"
      BY DEF ShutdownInv
    <2> QED BY <2>1, ClosedAtRest
  <1> QED BY <1>1, InitShutdown, NextShutdown, TypeCorrect, PTL DEF Spec, Quiesced

-----------------------------------------------------------------------------
(* Where the accepted messages are, and in which order.                    *)

\* kept is the end of the acceptance order.
SuffixOfLog(kept) ==
    /\ Len(kept) <= Len(log)
    /\ \A i \in 1..Len(kept) : kept[i] = log[Len(log) - Len(kept) + i]

\* The strengthening that makes Conservation and OrderKept inductive: a batch
\* exists only while fn runs, and the log holds each accepted message once.
StoreInv ==
    /\ batch # << >> => runPc = "send"
    /\ \A i, j \in 1..Len(log) : log[i] = log[j] => i = j
    /\ \A m \in Msgs : m \in Range(log) <=> enq[m] = "accepted"
    /\ OrderKept
    /\ Conservation

\* Why FlushDrains holds: a request is only in flushCh, in the hands of run or
\* answered after its call began; what it owes had been accepted by then; when
\* fn has the batch, nothing it owes is left in the buffer.
Drained(c) == owed[c] \cap (Range(buf) \cup Range(batch)) = {}

FlushInv ==
    /\ \A c \in Callers : \A m \in owed[c] : m \in Msgs /\ enq[m] = "accepted"
    /\ \A c \in Callers :
          call[c] \in {"idle", "once"}
             => /\ owed[c] = {} /\ done[c] = "none" /\ res[c] = "none"
                /\ flushCh # c /\ runReq # c
    /\ \A c \in Callers :
          call[c] = "request" => done[c] = "none" /\ flushCh # c /\ runReq # c
    /\ \A c \in Callers : done[c] # "none" \/ res[c] = "nil" => Drained(c)
    /\ runReq \in Callers /\ runPc = "send" => owed[runReq] \cap Range(buf) = {}

SameAccepted == \A m \in Msgs : enq'[m] = "accepted" <=> enq[m] = "accepted"

\* Steps that move no message keep StoreInv.
LEMMA StoreFrame ==
    ASSUME StoreInv, UNCHANGED <<buf, batch, fate, log>>, SameAccepted,
           batch # << >> => runPc' = "send"
    PROVE  StoreInv'
  BY DEF StoreInv, SameAccepted, OrderKept, Conservation

LEMMA BroadcastSame ==
    ASSUME enq' = Broadcast(enq) PROVE SameAccepted
  BY DEF Broadcast, SameAccepted

LEMMA BufOnce ==
    ASSUME TypeOK, StoreInv
    PROVE  \A i, j \in 1..Len(buf) : buf[i] = buf[j] => i = j
  <1>1. SUFFICES ASSUME NEW i \in 1..Len(buf), NEW j \in 1..Len(buf), buf[i] = buf[j]
                 PROVE  i = j
    OBVIOUS
  <1>2. Len(buf) \in Nat /\ Len(log) \in Nat /\ Len(buf) <= Len(log)
    BY DEF TypeOK, StoreInv, OrderKept
  <1> DEFINE at(k) == Len(log) - Len(buf) + k
  <1>3. at(i) \in 1..Len(log) /\ at(j) \in 1..Len(log)
    BY <1>2
  <1>4. log[at(i)] = log[at(j)]
    BY <1>1 DEF StoreInv, OrderKept
  <1>5. at(i) = at(j)
    BY <1>3, <1>4 DEF StoreInv
  <1> QED BY <1>2, <1>5

\* Appending m behind a suffix of the log keeps the order, and m is new.
LEMMA AppendOrder ==
    ASSUME TypeOK, StoreInv, NEW m \in Msgs, enq[m] # "accepted",
           NEW kept \in Seq(Msgs), SuffixOfLog(kept), Len(kept) <= Len(buf),
           AppendTo(m, kept), batch' = batch, runPc' = runPc
    PROVE  /\ OrderKept'
           /\ \A i, j \in 1..Len(log') : log'[i] = log'[j] => i = j
           /\ \A n \in Msgs : n \in Range(log') <=> enq'[n] = "accepted"
  <1>1. /\ log' = Append(log, m) /\ buf' = Append(kept, m)
        /\ log \in Seq(Msgs) /\ batch \in Seq(Msgs) /\ buf \in Seq(Msgs)
    BY DEF AppendTo, Appended, TypeOK
  <1>2. /\ Len(log') = Len(log) + 1
        /\ Len(log) \in Nat
        /\ \A i \in 1..Len(log) : log'[i] = log[i]
        /\ log'[Len(log) + 1] = m
        /\ Range(log') = Range(log) \cup {m}
    BY <1>1, AppendFacts
  <1>3. /\ Len(buf') = Len(kept) + 1
        /\ Len(kept) \in Nat
        /\ \A i \in 1..Len(kept) : buf'[i] = kept[i]
        /\ buf'[Len(kept) + 1] = m
    BY <1>1, AppendFacts
  <1>4. m \notin Range(log)
    BY DEF StoreInv
  <1>5. \A i \in 1..Len(log) : log[i] # m
    BY <1>1, <1>4, RangeFacts
  <1>6. \A i, j \in 1..Len(log') : log'[i] = log'[j] => i = j
    BY <1>2, <1>5 DEF StoreInv
  <1>7. \A n \in Msgs : n \in Range(log') <=> enq'[n] = "accepted"
    BY <1>2 DEF StoreInv, AppendTo, TypeOK
  <1>8. Len(buf') <= Len(log')
    BY <1>2, <1>3 DEF SuffixOfLog
  <1>9. ASSUME NEW i \in 1..Len(buf') PROVE buf'[i] = log'[Len(log') - Len(buf') + i]
    <2>1. CASE i = Len(kept) + 1
      BY <1>2, <1>3, <2>1
    <2>2. CASE i \in 1..Len(kept)
      <3>1. Len(log) - Len(kept) + i \in 1..Len(log)
        BY <1>2, <1>3, <2>2 DEF SuffixOfLog
      <3>2. buf'[i] = log[Len(log) - Len(kept) + i]
        BY <1>3, <2>2 DEF SuffixOfLog
      <3>3. Len(log') - Len(buf') + i = Len(log) - Len(kept) + i
        BY <1>2, <1>3
      <3> QED BY <1>2, <3>1, <3>2, <3>3
    <2> QED BY <1>3, <2>1, <2>2
  <1>10. \E k \in 0..(Len(log') - Len(buf') - Len(batch)) :
            \A i \in 1..Len(batch) : batch[i] = log'[k + i]
    <2>1. PICK k \in 0..(Len(log) - Len(buf) - Len(batch)) :
             \A i \in 1..Len(batch) : batch[i] = log[k + i]
      BY DEF StoreInv, OrderKept
    <2>2. Len(batch) \in Nat /\ Len(buf) \in Nat
      BY <1>1
    <2>3. k \in 0..(Len(log') - Len(buf') - Len(batch))
      BY <1>2, <1>3, <2>1, <2>2
    <2>4. \A i \in 1..Len(batch) : k + i \in 1..Len(log)
      BY <1>2, <2>1, <2>2
    <2>5. \A i \in 1..Len(batch) : batch[i] = log'[k + i]
      BY <1>2, <2>1, <2>4
    <2> QED BY <2>3, <2>5
  <1> QED BY <1>6, <1>7, <1>8, <1>9, <1>10 DEF OrderKept

LEMMA EnqueueStore ==
    ASSUME TypeOK, StoreInv, NEW m \in Msgs, EnqueueEnter(m) \/ EnqueueWake(m)
    PROVE  StoreInv'
  <1>1. /\ enq[m] # "accepted"
        /\ EnqueueEffect(m)
        /\ batch' = batch /\ runPc' = runPc
    <2>1. /\ enq[m] \in {"idle", "woken"}
          /\ EnqueueEffect(m)
          /\ UNCHANGED runVars
      BY EnqueueSteps, Zenon
    <2> QED BY <2>1 DEF runVars
  <1>2. CASE \E o \in {"rejected", "dropped", "cancelled", "parking"} : EnqueueWithout(m, o)
    <2>1. SameAccepted /\ UNCHANGED <<buf, fate, log>>
      BY <1>1, <1>2 DEF EnqueueWithout, bufVars, SameAccepted, TypeOK
    <2> QED BY <1>1, <2>1, StoreFrame DEF StoreInv
  <1>3. CASE AppendIfRoom(m)
    <2>1. AppendTo(m, buf) /\ fate' = fate /\ buf \in Seq(Msgs) /\ batch \in Seq(Msgs)
      BY <1>3 DEF AppendIfRoom, TypeOK
    <2>2. SuffixOfLog(buf) /\ Len(buf) <= Len(buf)
      BY <2>1 DEF SuffixOfLog, StoreInv, OrderKept
    <2>3. /\ OrderKept'
          /\ \A i, j \in 1..Len(log') : log'[i] = log'[j] => i = j
          /\ \A n \in Msgs : n \in Range(log') <=> enq'[n] = "accepted"
      BY <1>1, <2>1, <2>2, AppendOrder
    <2>4. /\ Range(buf') = Range(buf) \cup {m}
          /\ \A n \in Msgs : enq'[n] = IF n = m THEN "accepted" ELSE enq[n]
      BY <2>1, AppendFacts DEF AppendTo, Appended, TypeOK
    <2>5. Conservation'
      BY <1>1, <2>1, <2>4 DEF StoreInv, Conservation
    <2> QED BY <1>1, <2>3, <2>5 DEF StoreInv
  <1>4. CASE /\ Full
             /\ AppendTo(m, Tail(buf))
             /\ fate' = [fate EXCEPT ![Head(buf)] = "evicted"]
    <2>1. buf \in Seq(Msgs) /\ buf # << >> /\ batch \in Seq(Msgs)
      BY <1>4, KeptType DEF TypeOK
    <2>2. /\ Tail(buf) \in Seq(Msgs)
          /\ Len(Tail(buf)) = Len(buf) - 1
          /\ \A i \in 1..(Len(buf) - 1) : Tail(buf)[i] = buf[i + 1]
          /\ Head(buf) \in Range(buf)
          /\ Range(Tail(buf)) = Range(buf) \ {Head(buf)}
      BY <2>1, BufOnce, TailFacts
    <2>3. Len(buf) \in Nat /\ Len(log) \in Nat
      BY <2>1 DEF TypeOK
    <2>4. SuffixOfLog(Tail(buf)) /\ Len(Tail(buf)) <= Len(buf)
      <3>1. ASSUME NEW i \in 1..(Len(buf) - 1)
            PROVE  Tail(buf)[i] = log[Len(log) - (Len(buf) - 1) + i]
        <4>1. i + 1 \in 1..Len(buf)
          BY <2>3
        <4>2. buf[i + 1] = log[Len(log) - Len(buf) + (i + 1)]
          BY <4>1 DEF StoreInv, OrderKept
        <4>3. Len(log) - Len(buf) + (i + 1) = Len(log) - (Len(buf) - 1) + i
          BY <2>3
        <4> QED BY <2>2, <4>2, <4>3
      <3>2. Len(buf) <= Len(log)
        BY DEF StoreInv, OrderKept
      <3> QED BY <2>2, <2>3, <3>1, <3>2 DEF SuffixOfLog
    <2>5. /\ OrderKept'
          /\ \A i, j \in 1..Len(log') : log'[i] = log'[j] => i = j
          /\ \A n \in Msgs : n \in Range(log') <=> enq'[n] = "accepted"
      BY <1>1, <1>4, <2>2, <2>4, AppendOrder
    <2>6. /\ Range(buf') = (Range(buf) \ {Head(buf)}) \cup {m}
          /\ \A n \in Msgs : enq'[n] = IF n = m THEN "accepted" ELSE enq[n]
          /\ \A n \in Msgs : fate'[n] = IF n = Head(buf) THEN "evicted" ELSE fate[n]
      <3>1. Range(Append(Tail(buf), m)) = Range(Tail(buf)) \cup {m}
        BY <2>2, AppendFacts
      <3>2. Range(buf') = (Range(buf) \ {Head(buf)}) \cup {m}
        BY <1>4, <2>2, <3>1 DEF AppendTo, Appended
      <3>3. \A n \in Msgs : enq'[n] = IF n = m THEN "accepted" ELSE enq[n]
        BY <1>4 DEF AppendTo, TypeOK
      <3>4. \A n \in Msgs : fate'[n] = IF n = Head(buf) THEN "evicted" ELSE fate[n]
        BY <1>4 DEF TypeOK
      <3> QED BY <3>2, <3>3, <3>4
    <2>7. Conservation'
      BY <1>1, <2>2, <2>6 DEF StoreInv, Conservation
    <2> QED BY <1>1, <2>5, <2>7 DEF StoreInv
  <1> QED BY <1>1, <1>2, <1>3, <1>4, Zenon DEF EnqueueEffect

LEMMA RunTakeStore ==
    ASSUME TypeOK, StoreInv, RunTake PROVE StoreInv'
  <1>1. batch = << >> /\ buf \in Seq(Msgs) /\ log' = log /\ fate' = fate
    BY DEF RunTake, StoreInv, TypeOK
  <1>2. CASE buf = << >>
    <2>1. UNCHANGED <<buf, batch, enq>>
      BY <1>2 DEF RunTake
    <2> QED BY <1>1, <2>1, StoreFrame DEF SameAccepted
  <1>3. CASE buf # << >>
    <2>1. batch' = buf /\ buf' = << >> /\ runPc' = "send"
      BY <1>3 DEF RunTake, FreshBuf
    <2>2. SameAccepted
      BY <1>3, BroadcastSame DEF RunTake, WakeBlocked, SameAccepted
    <2>3. Len(buf') = 0 /\ Range(buf') = {} /\ Range(batch) = {} /\ Range(batch') = Range(buf)
      BY <1>1, <2>1, RangeFacts, EmptySeq
    <2>4. Conservation'
      BY <1>1, <2>2, <2>3 DEF StoreInv, Conservation, SameAccepted
    <2>5. Len(log) \in Nat /\ Len(buf) \in Nat /\ Len(buf) <= Len(log)
      BY <1>1 DEF TypeOK, StoreInv, OrderKept
    <2>6. OrderKept'
      <3>1. Len(log) - Len(buf) \in 0..(Len(log') - Len(buf') - Len(batch'))
        BY <1>1, <2>1, <2>3, <2>5
      <3>2. \A i \in 1..Len(batch') : batch'[i] = log'[(Len(log) - Len(buf)) + i]
        BY <1>1, <2>1 DEF StoreInv, OrderKept
      <3>3. Len(buf') <= Len(log') /\ 1..Len(buf') = {}
        BY <1>1, <2>3, <2>5
      <3> QED BY <3>1, <3>2, <3>3 DEF OrderKept
    <2> QED BY <1>1, <2>1, <2>2, <2>4, <2>6 DEF StoreInv, SameAccepted
  <1> QED BY <1>2, <1>3

LEMMA RunSendStore ==
    ASSUME TypeOK, StoreInv, NEW r \in {"nil", "err"}, RunSend(r) PROVE StoreInv'
  <1>1. batch' = << >> /\ buf' = buf /\ log' = log /\ enq' = enq
    BY DEF RunSend, enqVars
  <1>2. Len(batch') = 0 /\ Range(batch') = {}
    BY <1>1, EmptySeq, RangeFacts
  <1>3. \A m \in Msgs : IF m \in Range(batch) THEN fate'[m] \in {"delivered", "failed"}
                                              ELSE fate'[m] = fate[m]
    BY DEF RunSend, SentByFn
  <1>4. Conservation'
    BY <1>1, <1>2, <1>3 DEF StoreInv, Conservation
  <1>5. OrderKept'
    <2>1. Len(buf) \in Nat /\ Len(log) \in Nat /\ Len(buf) <= Len(log)
      BY DEF TypeOK, StoreInv, OrderKept
    <2>2. 0 \in 0..(Len(log') - Len(buf') - Len(batch')) /\ 1..Len(batch') = {}
      BY <1>1, <1>2, <2>1
    <2> QED BY <1>1, <2>2 DEF StoreInv, OrderKept
  <1> QED BY <1>1, <1>4, <1>5 DEF StoreInv

LEMMA NextStore == TypeOK /\ StoreInv /\ [Next]_vars => StoreInv'
  <1> SUFFICES ASSUME TypeOK, StoreInv, [Next]_vars PROVE StoreInv'
    OBVIOUS
  <1>0. batch # << >> => runPc = "send"
    BY DEF StoreInv
  <1>1. ASSUME NEW m \in Msgs, EnqueueEnter(m) \/ EnqueueWake(m) PROVE StoreInv'
    BY <1>1, EnqueueStore
  <1>2. ASSUME NEW m \in Msgs, EnqueuePark(m) PROVE StoreInv'
    <2>1. SameAccepted /\ UNCHANGED <<buf, batch, fate, log, runPc>>
      BY <1>2 DEF EnqueuePark, SameAccepted, TypeOK, bufVars, runVars
    <2> QED BY <1>0, <2>1, StoreFrame
  <1>3. ASSUME NEW m \in Msgs, Watcher(m) PROVE StoreInv'
    <2>1. SameAccepted /\ UNCHANGED <<buf, batch, fate, log, runPc>>
      BY <1>3, BroadcastSame
         DEF Watcher, WatcherBroadcast, WatcherStop, SameAccepted, bufVars, runVars
    <2> QED BY <1>0, <2>1, StoreFrame
  <1>4. ASSUME NEW x \in Cancellable, Cancel(x) PROVE StoreInv'
    <2>1. SameAccepted /\ UNCHANGED <<buf, batch, fate, log, runPc>>
      BY <1>4 DEF Cancel, SameAccepted, bufVars, runVars
    <2> QED BY <1>0, <2>1, StoreFrame
  <1>5. CASE RunTick \/ RunRecv \/ RunStop
    <2>1. SameAccepted /\ UNCHANGED <<buf, batch, fate, log>> /\ runPc = "select"
      BY <1>5 DEF RunTick, RunRecv, RunStop, SameAccepted, bufVars, enqVars
    <2> QED BY <1>0, <2>1, StoreFrame
  <1>6. CASE RunTake
    BY <1>6, RunTakeStore
  <1>7. ASSUME NEW r \in {"nil", "err"}, RunSend(r) PROVE StoreInv'
    BY <1>7, RunSendStore
  <1>8. ASSUME NEW c \in Callers, Flush(c) PROVE StoreInv'
    <2>1. SameAccepted /\ UNCHANGED <<buf, batch, fate, log, runPc>>
      BY <1>8 DEF Flush, FlushCall, FlushRequest, FlushAwait, SameAccepted, bufVars,
                  enqVars, runVars
    <2> QED BY <1>0, <2>1, StoreFrame
  <1>9. ASSUME NEW c \in Callers, Shutdown(c) PROVE StoreInv'
    <2>1. SameAccepted /\ UNCHANGED <<buf, batch, fate, log, runPc>>
      BY <1>9, BroadcastSame
         DEF Shutdown, ShutdownCall, ShutdownAgain, ShutdownMark, Close, ShutdownStop,
             ShutdownJoin, SameAccepted, bufVars, enqVars, runVars
    <2> QED BY <1>0, <2>1, StoreFrame
  <1>10. CASE UNCHANGED vars
    <2>1. SameAccepted /\ UNCHANGED <<buf, batch, fate, log, runPc>>
      BY <1>10 DEF vars, SameAccepted
    <2> QED BY <1>0, <2>1, StoreFrame
  <1> QED BY <1>1, <1>2, <1>3, <1>4, <1>5, <1>6, <1>7, <1>8, <1>9, <1>10, Zenon
          DEF Next, Enqueue, Run, Fn

LEMMA InitStore == Init => StoreInv
  <1> SUFFICES ASSUME Init PROVE StoreInv OBVIOUS
  <1>1. /\ Len(buf) = 0 /\ Len(log) = 0 /\ Len(batch) = 0
        /\ Range(buf) = {} /\ Range(log) = {} /\ Range(batch) = {}
    BY EmptySeq, RangeFacts DEF Init
  <1>2. OrderKept
    <2>1. 0 \in 0..(Len(log) - Len(buf) - Len(batch)) /\ 1..Len(batch) = {} /\ 1..Len(buf) = {}
      BY <1>1
    <2> QED BY <1>1, <2>1 DEF OrderKept
  <1>3. Conservation
    BY <1>1 DEF Init, Conservation
  <1> QED BY <1>1, <1>2, <1>3 DEF Init, StoreInv

\* No accepted message is lost inside the queue, kept twice or overtaken.
THEOREM MessagesConserved == Spec => [](Conservation /\ OrderKept)
  <1>1. StoreInv => Conservation /\ OrderKept
    BY DEF StoreInv
  <1> QED BY <1>1, InitStore, NextStore, TypeCorrect, PTL DEF Spec

\* Messages leave the queue in the order in which they were accepted: neither
\* concurrent calls of Enqueue, nor an eviction, nor a batch in flight lets one overtake.
THEOREM MessagesInOrder == Spec => []OrderKept
  BY MessagesConserved, PTL

-----------------------------------------------------------------------------
(* A Flush that returns nil has drained.                                   *)

\* Accepted messages stay accepted, and a message that enters the buffer in a
\* step was not accepted before it.
LEMMA EnqueueGrows ==
    ASSUME TypeOK, StoreInv, NEW m \in Msgs, EnqueueEnter(m) \/ EnqueueWake(m)
    PROVE  /\ \A n \in Msgs : enq[n] = "accepted" => enq'[n] = "accepted"
           /\ enq[m] # "accepted"
           /\ Range(buf') \subseteq Range(buf) \cup {m}
           /\ flushCh' \in {flushCh, "signal"}
           /\ UNCHANGED <<runVars, allCallVars>>
  <1>1. /\ enq[m] \in {"idle", "woken"}
        /\ EnqueueEffect(m)
        /\ UNCHANGED <<runVars, allCallVars>>
    BY EnqueueSteps, Zenon
  <1>2. buf \in Seq(Msgs)
    BY DEF TypeOK
  <1>3. CASE \E o \in {"rejected", "dropped", "cancelled", "parking"} : EnqueueWithout(m, o)
    BY <1>1, <1>3 DEF EnqueueWithout, bufVars, TypeOK
  <1>4. ASSUME NEW kept \in Seq(Msgs), Range(kept) \subseteq Range(buf), AppendTo(m, kept)
        PROVE  /\ \A n \in Msgs : enq[n] = "accepted" => enq'[n] = "accepted"
               /\ Range(buf') \subseteq Range(buf) \cup {m}
               /\ flushCh' \in {flushCh, "signal"}
    BY <1>4, AppendFacts DEF AppendTo, Appended, SignalAtBatch, TypeOK
  <1>5. CASE AppendIfRoom(m)
    BY <1>1, <1>2, <1>4, <1>5 DEF AppendIfRoom
  <1>6. CASE Full /\ AppendTo(m, Tail(buf))
    <2>1. buf # << >>
      BY <1>6, KeptType
    <2>2. Tail(buf) \in Seq(Msgs) /\ Range(Tail(buf)) \subseteq Range(buf)
      BY <1>2, <2>1, BufOnce, TailFacts
    <2> QED BY <1>1, <1>4, <1>6, <2>2
  <1> QED BY <1>1, <1>3, <1>5, <1>6, Zenon DEF EnqueueEffect

\* Steps outside the queue's data and the callers keep FlushInv.
LEMMA FlushFrame ==
    ASSUME FlushInv, SameAccepted, UNCHANGED <<buf, batch, flushCh, runVars, allCallVars>>
    PROVE  FlushInv'
  BY DEF FlushInv, Drained, SameAccepted, runVars, allCallVars

LEMMA EnqueueFlush ==
    ASSUME TypeOK, StoreInv, FlushInv, NEW m \in Msgs, EnqueueEnter(m) \/ EnqueueWake(m)
    PROVE  FlushInv'
  <1>1. /\ \A n \in Msgs : enq[n] = "accepted" => enq'[n] = "accepted"
        /\ enq[m] # "accepted"
        /\ Range(buf') \subseteq Range(buf) \cup {m}
        /\ flushCh' \in {flushCh, "signal"}
        /\ UNCHANGED <<runVars, allCallVars>>
    BY EnqueueGrows, Zenon
  <1>2. UNCHANGED <<runPc, runReq, batch, call, res, once, owed, done>>
    BY <1>1 DEF runVars, allCallVars
  <1>3. \A c \in Callers : m \notin owed[c]
    BY <1>1 DEF FlushInv
  <1>4. \A c \in Callers : flushCh' = c => flushCh = c
    BY <1>1, CallsAssumption DEF CallsAssumption
  <1>5. \A c \in Callers : Drained(c) => Drained(c)'
    BY <1>1, <1>2, <1>3 DEF Drained
  <1>6. runReq \in Callers /\ runPc = "send" => owed[runReq] \cap Range(buf') = {}
    BY <1>1, <1>3 DEF FlushInv
  <1> QED BY <1>1, <1>2, <1>4, <1>5, <1>6 DEF FlushInv

LEMMA RunTakeFlush ==
    ASSUME TypeOK, StoreInv, FlushInv, RunTake PROVE FlushInv'
  <1>1. /\ batch = << >> /\ buf \in Seq(Msgs)
        /\ UNCHANGED <<flushCh, runReq, call, res, once, owed>>
    BY DEF RunTake, StoreInv, TypeOK, callVars
  <1>2. Range(batch) = {}
    BY <1>1, EmptySeq, RangeFacts
  <1>3. CASE buf = << >>
    <2>1. UNCHANGED <<buf, batch, enq>> /\ runPc' = "select" /\ Reply("nil")
      BY <1>3 DEF RunTake, ReplyOnEmpty
    <2>2. Range(buf) = {}
      BY <1>1, <1>3, RangeFacts
    <2>3. \A c \in Callers : Drained(c)'
      BY <1>1, <1>2, <2>1, <2>2 DEF Drained
    <2>4. \A c \in Callers : call[c] \in {"idle", "once", "request"} => done'[c] = "none"
      BY <2>1 DEF Reply, FlushInv, TypeOK
    <2> QED BY <1>1, <2>1, <2>3, <2>4 DEF FlushInv
  <1>4. CASE buf # << >>
    <2>1. batch' = buf /\ buf' = << >> /\ runPc' = "send" /\ done' = done
      BY <1>4 DEF RunTake, FreshBuf, NoReplyOnTake
    <2>2. SameAccepted
      BY <1>4, BroadcastSame DEF RunTake, WakeBlocked, SameAccepted
    <2>3. Range(buf') = {} /\ Range(batch') = Range(buf)
      BY <2>1, EmptySeq, RangeFacts
    <2>4. \A c \in Callers : Drained(c) => Drained(c)'
      BY <1>1, <2>3 DEF Drained
    <2> QED BY <1>1, <2>1, <2>2, <2>3, <2>4 DEF FlushInv, SameAccepted
  <1> QED BY <1>3, <1>4

LEMMA RunSendFlush ==
    ASSUME TypeOK, StoreInv, FlushInv, NEW r \in {"nil", "err"}, RunSend(r)
    PROVE  FlushInv'
  <1>1. /\ batch' = << >> /\ runPc = "send" /\ runPc' = "select" /\ Reply(r)
        /\ UNCHANGED <<buf, flushCh, runReq, enq, call, res, once, owed>>
    BY DEF RunSend, enqVars, callVars
  <1>2. Range(batch') = {}
    BY <1>1, EmptySeq, RangeFacts
  <1>3. \A c \in Callers : Drained(c) => Drained(c)'
    BY <1>1, <1>2 DEF Drained
  <1>4. runReq \in Callers => Drained(runReq)'
    BY <1>1, <1>2 DEF Drained, FlushInv
  <1>5. \A c \in Callers : done'[c] # done[c] => c = runReq
    BY <1>1 DEF Reply, TypeOK
  <1> QED BY <1>1, <1>3, <1>4, <1>5 DEF FlushInv

LEMMA FlushBeginFlush ==
    ASSUME TypeOK, StoreInv, FlushInv, NEW c \in Callers, call[c] = "idle", FlushBegin(c),
           UNCHANGED <<buf, batch, flushCh, enq, done, res, runPc, runReq>>
    PROVE  FlushInv'
  <1>1. \A n \in Range(buf) \cup Range(batch) : n \in Msgs /\ enq[n] = "accepted"
    BY RangeFacts DEF StoreInv, Conservation, TypeOK
  <1>2. /\ \A d \in Callers : d # c => owed'[d] = owed[d] /\ call'[d] = call[d]
        /\ owed'[c] = Range(buf) \cup Range(batch) /\ call'[c] = "request"
    BY DEF FlushBegin, TypeOK
  <1>3. \A d \in Callers : \A n \in owed'[d] : n \in Msgs /\ enq[n] = "accepted"
    BY <1>1, <1>2 DEF FlushInv
  <1>4. done[c] = "none" /\ res[c] = "none" /\ flushCh # c /\ runReq # c
    BY DEF FlushInv
  <1>5. \A d \in Callers : d # c /\ Drained(d) => Drained(d)'
    BY <1>2 DEF Drained
  <1> QED BY <1>2, <1>3, <1>4, <1>5 DEF FlushInv

LEMMA NextFlush == TypeOK /\ StoreInv /\ FlushInv /\ [Next]_vars => FlushInv'
  <1> SUFFICES ASSUME TypeOK, StoreInv, FlushInv, [Next]_vars PROVE FlushInv'
    OBVIOUS
  <1>1. ASSUME NEW m \in Msgs, EnqueueEnter(m) \/ EnqueueWake(m) PROVE FlushInv'
    BY <1>1, EnqueueFlush
  <1>2. ASSUME NEW m \in Msgs, EnqueuePark(m) PROVE FlushInv'
    <2>1. SameAccepted /\ UNCHANGED <<buf, batch, flushCh, runVars, allCallVars>>
      BY <1>2 DEF EnqueuePark, SameAccepted, TypeOK, bufVars, runVars
    <2> QED BY <2>1, FlushFrame
  <1>3. ASSUME NEW m \in Msgs, Watcher(m) PROVE FlushInv'
    <2>1. SameAccepted /\ UNCHANGED <<buf, batch, flushCh, runVars, allCallVars>>
      BY <1>3, BroadcastSame
         DEF Watcher, WatcherBroadcast, WatcherStop, SameAccepted, bufVars, runVars
    <2> QED BY <2>1, FlushFrame
  <1>4. ASSUME NEW x \in Cancellable, Cancel(x) PROVE FlushInv'
    <2>1. SameAccepted /\ UNCHANGED <<buf, batch, flushCh, runVars, allCallVars>>
      BY <1>4 DEF Cancel, SameAccepted, bufVars, runVars
    <2> QED BY <2>1, FlushFrame
  <1>5. CASE RunTick
    <2>1. "signal" \notin Callers BY CallsAssumption DEF CallsAssumption
    <2> QED BY <1>5, <2>1
            DEF FlushInv, Drained, RunTick, FlushOnTick, bufVars, enqVars, allCallVars
  <1>6. CASE RunRecv
    <2>1. "empty" \notin Callers BY CallsAssumption DEF CallsAssumption
    <2> QED BY <1>6, <2>1 DEF FlushInv, Drained, RunRecv, bufVars, enqVars, allCallVars
  <1>7. CASE RunStop
    BY <1>7 DEF FlushInv, Drained, RunStop, bufVars, enqVars, allCallVars
  <1>8. CASE RunTake
    BY <1>8, RunTakeFlush
  <1>9. ASSUME NEW r \in {"nil", "err"}, RunSend(r) PROVE FlushInv'
    BY <1>9, RunSendFlush
  <1>10. ASSUME NEW c \in Callers, FlushCall(c) PROVE FlushInv'
    BY <1>10, FlushBeginFlush DEF FlushCall, bufVars, enqVars, runVars
  <1>11. ASSUME NEW c \in Callers, FlushRequest(c) PROVE FlushInv'
    BY <1>11 DEF FlushInv, Drained, FlushRequest, FlushEnd, TypeOK, bufVars, enqVars, runVars
  <1>12. ASSUME NEW c \in Callers, FlushAwait(c) PROVE FlushInv'
    BY <1>12 DEF FlushInv, Drained, FlushAwait, FlushEnd, TypeOK, bufVars, enqVars, runVars
  <1>13. ASSUME NEW c \in Callers, ShutdownCall(c) PROVE FlushInv'
    <2>1. CASE once = "fresh"
      BY <1>13, <2>1, FlushBeginFlush DEF ShutdownCall, bufVars, enqVars, runVars
    <2>2. CASE once # "fresh"
      BY <1>13, <2>2 DEF FlushInv, Drained, ShutdownCall, TypeOK, bufVars, enqVars, runVars
    <2> QED BY <2>1, <2>2
  <1>14. ASSUME NEW c \in Callers, ShutdownAgain(c) PROVE FlushInv'
    BY <1>14 DEF FlushInv, Drained, ShutdownAgain, TypeOK, bufVars, enqVars, runVars
  <1>15. ASSUME NEW c \in Callers, ShutdownMark(c) PROVE FlushInv'
    <2>1. /\ SameAccepted
          /\ UNCHANGED <<buf, batch, flushCh, runPc, runReq, done, res, owed>>
          /\ call' = [call EXCEPT ![c] = "stop"]
      BY <1>15, BroadcastSame DEF ShutdownMark, Close, bufVars, runVars
    <2> QED BY <2>1 DEF FlushInv, Drained, TypeOK, SameAccepted
  <1>16. ASSUME NEW c \in Callers, ShutdownStop(c) \/ ShutdownJoin(c) PROVE FlushInv'
    <2>1. /\ UNCHANGED <<buf, batch, flushCh, enq, runPc, runReq, done, res, owed>>
          /\ \/ call' = [call EXCEPT ![c] = "join"]
             \/ call' = [call EXCEPT ![c] = "returned"]
      BY <1>16 DEF ShutdownStop, ShutdownJoin, bufVars, enqVars, runVars
    <2> QED BY <2>1 DEF FlushInv, Drained, TypeOK
  <1>17. CASE UNCHANGED vars
    BY <1>17 DEF FlushInv, Drained, vars
  <1> QED BY <1>1, <1>2, <1>3, <1>4, <1>5, <1>6, <1>7, <1>8, <1>9, <1>10, <1>11, <1>12,
             <1>13, <1>14, <1>15, <1>16, <1>17, Zenon
          DEF Next, Enqueue, Run, Fn, Flush, Shutdown

LEMMA InitFlush == Init => FlushInv
  <1> SUFFICES ASSUME Init PROVE FlushInv OBVIOUS
  <1>1. "empty" \notin Callers /\ "signal" \notin Callers
    BY CallsAssumption DEF CallsAssumption
  <1> QED BY <1>1 DEF Init, FlushInv

\* When Flush, or the flush inside Shutdown, returns nil, everything that was
\* buffered or being sent when it was called has been settled.
THEOREM FlushIsDrain == Spec => []FlushDrains
  <1>1. FlushInv => FlushDrains
    BY DEF FlushInv, FlushDrains, Drained
  <1> QED BY <1>1, InitFlush, NextFlush, InitStore, NextStore, TypeCorrect, PTL DEF Spec

-----------------------------------------------------------------------------
(* ProviderQueue implements EventOutbox: the initial state maps to the     *)
(* initial state and every step to a step of the outbox or to a stutter.   *)
(* StoreInv and TypeOK rule out a message in two places at once.           *)

Refused == {"dropped", "rejected", "cancelled"}

\* The places the mapping looks at agree with the fate it reports.
LEMMA OutboxPlaces ==
    ASSUME TypeOK, StoreInv
    PROVE  \A m \in Msgs :
              /\ outboxState[m] = "offered" <=> enq[m] \notin Refused \cup {"accepted"}
              /\ outboxState[m] = "pending" <=> m \in Range(buf)
              /\ outboxState[m] = "sending" <=> m \in Range(batch)
  <1> SUFFICES ASSUME NEW m \in Msgs
               PROVE  /\ outboxState[m] = "offered" <=> enq[m] \notin Refused \cup {"accepted"}
                      /\ outboxState[m] = "pending" <=> m \in Range(buf)
                      /\ outboxState[m] = "sending" <=> m \in Range(batch)
    OBVIOUS
  <1>1. fate[m] \in {"none", "evicted", "delivered", "failed"}
    BY DEF TypeOK
  <1>2. /\ enq[m] = "accepted" <=> m \in Range(buf) \cup Range(batch) \/ fate[m] # "none"
        /\ m \in Range(buf) => m \notin Range(batch)
    BY DEF StoreInv, Conservation
  <1> QED BY <1>1, <1>2 DEF outboxState, Refused

LEMMA OutboxInit == Init => Outbox!Init
  <1> SUFFICES ASSUME Init PROVE Outbox!Init OBVIOUS
  <1>1. \A m \in Msgs : enq[m] = "idle"
    BY DEF Init
  <1> QED BY <1>1 DEF Outbox!Init, outboxState

\* Steps that move no message and end no Enqueue leave the outbox as it is.
LEMMA OutboxStutter ==
    ASSUME UNCHANGED <<buf, batch, fate>>,
           \A m \in Msgs : \/ enq'[m] = enq[m]
                           \/ /\ enq[m] \notin Refused \cup {"accepted"}
                              /\ enq'[m] \notin Refused \cup {"accepted"}
    PROVE  outboxState' = outboxState
  BY DEF outboxState, Refused

LEMMA OutboxEnqueue ==
    ASSUME TypeOK, StoreInv, StoreInv', TypeOK', NEW m \in Msgs,
           EnqueueEnter(m) \/ EnqueueWake(m)
    PROVE  Outbox!Next \/ outboxState' = outboxState
  <1>1. /\ enq[m] \notin Refused \cup {"accepted"}
        /\ EnqueueEffect(m)
        /\ batch' = batch
    <2>1. /\ enq[m] \in {"idle", "woken"}
          /\ EnqueueEffect(m)
          /\ UNCHANGED runVars
      BY EnqueueSteps, Zenon
    <2> QED BY <2>1 DEF runVars, Refused
  <1>2. outboxState[m] = "offered" /\ m \notin Range(buf) /\ m \notin Range(batch)
    BY <1>1, OutboxPlaces
  <1>3. ASSUME NEW o \in {"rejected", "dropped", "cancelled", "parking"}, EnqueueWithout(m, o)
        PROVE  Outbox!Next \/ outboxState' = outboxState
    <2>1. UNCHANGED <<buf, batch, fate>> /\ enq' = [enq EXCEPT ![m] = o]
      BY <1>1, <1>3 DEF EnqueueWithout, bufVars
    <2>2. CASE o = "parking"
      BY <1>1, <2>1, <2>2, OutboxStutter DEF TypeOK, Refused
    <2>3. CASE o \in Refused
      <3>1. outboxState' = [outboxState EXCEPT ![m] = "refused"]
        BY <2>1, <2>3 DEF outboxState, Refused, TypeOK
      <3>2. Outbox!Refuse(m)
        BY <1>2, <3>1 DEF Outbox!Refuse
      <3> QED BY <3>2 DEF Outbox!Next
    <2> QED BY <2>2, <2>3 DEF Refused
  <1>4. CASE AppendIfRoom(m)
    <2>1. /\ buf' = Append(buf, m) /\ buf \in Seq(Msgs)
          /\ fate' = fate /\ enq' = [enq EXCEPT ![m] = "accepted"]
      BY <1>4 DEF AppendIfRoom, AppendTo, Appended, TypeOK
    <2>2. Range(buf') = Range(buf) \cup {m}
      BY <2>1, AppendFacts
    <2>3. outboxState' = [outboxState EXCEPT ![m] = "pending"]
      BY <1>1, <2>1, <2>2 DEF outboxState, Refused, TypeOK
    <2>4. Outbox!Accept(m)
      BY <1>2, <2>3 DEF Outbox!Accept
    <2> QED BY <2>4 DEF Outbox!Next
  <1>5. CASE /\ Full
             /\ AppendTo(m, Tail(buf))
             /\ fate' = [fate EXCEPT ![Head(buf)] = "evicted"]
    <2>1. buf \in Seq(Msgs) /\ buf # << >>
      BY <1>5, KeptType DEF TypeOK
    <2> DEFINE old == Head(buf)
    <2>2. /\ Tail(buf) \in Seq(Msgs)
          /\ old \in Range(buf)
          /\ Range(Tail(buf)) = Range(buf) \ {old}
      BY <2>1, BufOnce, TailFacts
    <2>3. old \in Msgs /\ old # m /\ outboxState[old] = "pending"
      BY <1>2, <2>1, <2>2, KeptType, OutboxPlaces
    <2> HIDE DEF old
    <2>4. Range(Append(Tail(buf), m)) = Range(Tail(buf)) \cup {m}
      BY <2>2, AppendFacts
    <2>5. /\ Range(buf') = (Range(buf) \ {old}) \cup {m}
          /\ enq' = [enq EXCEPT ![m] = "accepted"]
          /\ fate' = [fate EXCEPT ![old] = "evicted"]
      BY <1>5, <2>2, <2>4 DEF AppendTo, Appended, old
    <2>6. enq[old] = "accepted" /\ old \notin Range(batch)
      BY <2>2, <2>3 DEF StoreInv, Conservation
    <2>7. \A n \in Msgs : outboxState'[n] = IF n = m THEN "pending"
                                            ELSE IF n = old THEN "evicted" ELSE outboxState[n]
      BY <1>1, <2>3, <2>5, <2>6 DEF outboxState, Refused, TypeOK
    <2>8. outboxState' = [outboxState EXCEPT ![m] = "pending", ![old] = "evicted"]
      BY <2>3, <2>7 DEF outboxState
    <2>9. Outbox!AcceptEvicting(m, old)
      BY <1>2, <2>3, <2>8 DEF Outbox!AcceptEvicting
    <2> QED BY <2>3, <2>9 DEF Outbox!Next
  <1> QED BY <1>1, <1>3, <1>4, <1>5, Zenon DEF EnqueueEffect

LEMMA BroadcastOutbox ==
    ASSUME enq' = Broadcast(enq), UNCHANGED <<buf, batch, fate>>
    PROVE  outboxState' = outboxState
  <1>1. \A m \in Msgs : \/ enq'[m] = enq[m]
                        \/ /\ enq[m] \notin Refused \cup {"accepted"}
                           /\ enq'[m] \notin Refused \cup {"accepted"}
    BY DEF Broadcast, Refused
  <1> QED BY <1>1, OutboxStutter

LEMMA OutboxTake ==
    ASSUME TypeOK, StoreInv, RunTake
    PROVE  Outbox!Next \/ outboxState' = outboxState
  <1>1. batch = << >> /\ buf \in Seq(Msgs) /\ fate' = fate
    BY DEF RunTake, StoreInv, TypeOK
  <1>2. CASE buf = << >>
    BY <1>1, <1>2, OutboxStutter DEF RunTake
  <1>3. CASE buf # << >>
    <2>1. /\ batch' = buf /\ buf' = << >>
          /\ enq' = enq \/ enq' = Broadcast(enq)
      BY <1>3 DEF RunTake, FreshBuf, WakeBlocked
    <2>2. Range(buf') = {} /\ Range(batch) = {} /\ Range(batch') = Range(buf) /\ Range(buf) # {}
      BY <1>1, <1>3, <2>1, RangeFacts, EmptySeq
    <2>3. \A m \in Msgs : /\ enq'[m] \in Refused <=> enq[m] \in Refused
                          /\ enq'[m] = "accepted" <=> enq[m] = "accepted"
      BY <2>1 DEF Broadcast, Refused
    <2>4. \A m \in Range(buf) : m \in Msgs /\ outboxState[m] = "pending" /\ enq[m] = "accepted"
      BY <1>1, RangeFacts, OutboxPlaces DEF StoreInv, Conservation
    <2>5. \A m \in Msgs : outboxState[m] # "sending"
      BY <2>2, OutboxPlaces
    <2>6. \A m \in Msgs : m \notin Range(buf) => outboxState[m] # "pending"
      BY OutboxPlaces
    <2>7. \A m \in Msgs : outboxState'[m] = IF outboxState[m] = "pending" THEN "sending"
                                            ELSE outboxState[m]
      <3>1. ASSUME NEW m \in Msgs, m \in Range(buf) PROVE outboxState'[m] = "sending"
        BY <2>2, <2>3, <2>4, <3>1 DEF outboxState, Refused
      <3>2. ASSUME NEW m \in Msgs, m \notin Range(buf) PROVE outboxState'[m] = outboxState[m]
        BY <1>1, <2>2, <2>3, <3>2 DEF outboxState, Refused
      <3> QED BY <2>4, <2>6, <3>1, <3>2
    <2>8. outboxState' = Outbox!Move("pending", "sending")
      BY <2>7 DEF outboxState, Outbox!Move
    <2>9. Outbox!HandOver
      BY <2>2, <2>4, <2>5, <2>8 DEF Outbox!HandOver
    <2> QED BY <2>9 DEF Outbox!Next
  <1> QED BY <1>2, <1>3

LEMMA OutboxSend ==
    ASSUME TypeOK, StoreInv, NEW r \in {"nil", "err"}, RunSend(r)
    PROVE  Outbox!Next \/ outboxState' = outboxState
  <1> DEFINE outcome == IF r = "nil" THEN "delivered" ELSE "failed"
  <1>1. batch' = << >> /\ buf' = buf /\ enq' = enq /\ batch \in Seq(Msgs)
    BY DEF RunSend, enqVars, TypeOK
  <1>2. Range(batch') = {}
    BY <1>1, EmptySeq, RangeFacts
  <1>3. \A m \in Msgs : fate'[m] = IF m \in Range(batch) THEN outcome ELSE fate[m]
    BY DEF RunSend, SentByFn
  <1>4. outcome \in {"delivered", "failed"}
    OBVIOUS
  <1> HIDE DEF outcome
  <1>5. \A m \in Range(batch) : m \in Msgs /\ enq[m] = "accepted" /\ m \notin Range(buf)
    BY <1>1, RangeFacts DEF StoreInv, Conservation
  <1>6. \A m \in Msgs : outboxState'[m] = IF m \in Range(batch) THEN outcome ELSE outboxState[m]
    BY <1>1, <1>2, <1>3, <1>5 DEF outboxState
  <1>7. \A m \in Msgs : outboxState[m] = "sending" <=> m \in Range(batch)
    BY OutboxPlaces
  <1>8. outboxState' = Outbox!Move("sending", outcome)
    BY <1>6, <1>7 DEF outboxState, Outbox!Move
  <1>9. CASE Range(batch) = {}
    BY <1>6, <1>9 DEF outboxState
  <1>10. CASE Range(batch) # {}
    <2>1. Outbox!Settle(outcome)
      BY <1>5, <1>7, <1>8, <1>10 DEF Outbox!Settle
    <2> QED BY <1>4, <2>1 DEF Outbox!Next
  <1> QED BY <1>9, <1>10

LEMMA OutboxNext ==
    TypeOK /\ TypeOK' /\ StoreInv /\ StoreInv' /\ [Next]_vars => [Outbox!Next]_outboxState
  <1> SUFFICES ASSUME TypeOK, TypeOK', StoreInv, StoreInv', [Next]_vars
               PROVE  Outbox!Next \/ outboxState' = outboxState
    BY Zenon
  <1>1. ASSUME NEW m \in Msgs, EnqueueEnter(m) \/ EnqueueWake(m)
        PROVE  Outbox!Next \/ outboxState' = outboxState
    BY <1>1, OutboxEnqueue
  <1>2. ASSUME NEW m \in Msgs, EnqueuePark(m) PROVE outboxState' = outboxState
    BY <1>2, OutboxStutter DEF EnqueuePark, TypeOK, Refused, bufVars, runVars
  <1>3. ASSUME NEW m \in Msgs, Watcher(m) PROVE outboxState' = outboxState
    <2>1. UNCHANGED <<buf, batch, fate>> /\ (enq' = enq \/ enq' = Broadcast(enq))
      BY <1>3 DEF Watcher, WatcherBroadcast, WatcherStop, bufVars, runVars
    <2> QED BY <2>1, OutboxStutter, BroadcastOutbox
  <1>4. ASSUME NEW x \in Cancellable, Cancel(x) PROVE outboxState' = outboxState
    BY <1>4, OutboxStutter DEF Cancel, bufVars, runVars
  <1>5. CASE RunTick \/ RunRecv \/ RunStop
    BY <1>5, OutboxStutter DEF RunTick, RunRecv, RunStop, bufVars, enqVars
  <1>6. CASE RunTake
    BY <1>6, OutboxTake
  <1>7. ASSUME NEW r \in {"nil", "err"}, RunSend(r)
        PROVE  Outbox!Next \/ outboxState' = outboxState
    BY <1>7, OutboxSend
  <1>8. ASSUME NEW c \in Callers, Flush(c) PROVE outboxState' = outboxState
    <2>1. UNCHANGED <<buf, batch, fate, enq>>
      BY <1>8 DEF Flush, FlushCall, FlushRequest, FlushAwait, bufVars, enqVars, runVars
    <2> QED BY <2>1, OutboxStutter
  <1>9. ASSUME NEW c \in Callers, Shutdown(c) PROVE outboxState' = outboxState
    <2>1. UNCHANGED <<buf, batch, fate>> /\ (enq' = enq \/ enq' = Broadcast(enq))
      BY <1>9 DEF Shutdown, ShutdownCall, ShutdownAgain, ShutdownMark, Close, ShutdownStop,
                  ShutdownJoin, bufVars, enqVars, runVars
    <2> QED BY <2>1, OutboxStutter, BroadcastOutbox
  <1>10. CASE UNCHANGED vars
    BY <1>10, OutboxStutter DEF vars
  <1> QED BY <1>1, <1>2, <1>3, <1>4, <1>5, <1>6, <1>7, <1>8, <1>9, <1>10, Zenon
          DEF Next, Enqueue, Run, Fn

\* The queue of provider/queue.go implements the outbox for any set of messages
\* and callers: at most once, whole batches, one at a time, final outcomes.
THEOREM QueueImplementsOutbox == Spec => ImplementsOutbox
  BY OutboxInit, OutboxNext, InitStore, NextStore, TypeCorrect, PTL
     DEF Spec, ImplementsOutbox, Outbox!Spec

=============================================================================
