---------------------------- MODULE ProviderQueue ----------------------------
(***************************************************************************)
(* The per-provider event buffer of provider/queue.go.                     *)
(*                                                                         *)
(* Any number of goroutines call Enqueue, Flush and Shutdown; one          *)
(* background goroutine (run) empties the buffer and hands it to fn, the   *)
(* provider's FlushFunc.  They share a mutex mu with its condition         *)
(* variable cond, a channel flushCh of capacity 1 and a channel stopCh     *)
(* that is only ever closed.                                               *)
(*                                                                         *)
(* A step is what one goroutine does while it holds mu, or one channel     *)
(* operation.  A message stands for the one Enqueue call that offers it,   *)
(* so message and caller share a name.                                     *)
(***************************************************************************)
EXTENDS Integers, Sequences, FiniteSets, Functions

CONSTANTS
    Msgs,           \* messages, each offered by one call of Enqueue
    Flushers,       \* calls of Flush
    Closers,        \* calls of Shutdown
    Cancellable,    \* the calls whose ctx can be cancelled (ctx.Done() # nil)
    BatchSizes,     \* values ProviderConfig.BatchSize may have; 0 is unset
    MaxQueueSizes,  \* values ProviderConfig.MaxQueueSize may have; 0 is unset
    Policies        \* values ProviderConfig.OverflowPolicy may have

Callers == Flushers \cup Closers

OverflowPolicies == {"drop_oldest", "drop_newest", "block"}

ASSUME CallsAssumption ==
    /\ Msgs \cap Callers = {}
    /\ Flushers \cap Closers = {}
    /\ Callers \cap {"empty", "signal", "none"} = {}
    /\ Cancellable \subseteq Msgs \cup Callers

ASSUME ConfigAssumption ==
    /\ BatchSizes \subseteq Int
    /\ MaxQueueSizes \subseteq Int
    /\ Policies \subseteq OverflowPolicies \cup {""}

defaultBatchSize == 100

defaultMaxQueueSize == 10000

VARIABLES
    conf,       \* the queue's batchSize, maxSize and overflow
    buf,        \* q.buf, oldest message first
    closed,     \* q.closed
    stopped,    \* stopCh has been closed
    flushCh,    \* "empty", a fire-and-forget "signal", or a caller's request
    runPc,      \* where the run goroutine is
    runReq,     \* the request it serves; "signal" when nobody waits for it
    batch,      \* the slice doFlush took and handed to fn
    enq,        \* progress of each Enqueue call
    watch,      \* Enqueue calls whose watcher goroutine is alive
    cancelled,  \* calls whose ctx is done
    call,       \* progress of each Flush and Shutdown call
    done,       \* the reply channel of each flush request
    res,        \* what the queue.Flush inside each call returned
    once,       \* state of shutdownOnce
    fate,       \* history: what became of a message that left the buffer
    log,        \* history: the accepted messages in the order of acceptance
    owed        \* history: what was buffered or in flight when a flush began

vars == <<conf, buf, closed, stopped, flushCh, runPc, runReq, batch, enq, watch,
          cancelled, call, done, res, once, fate, log, owed>>

\* Groups of variables that the actions leave alone together.
bufVars == <<buf, fate, log>>
enqVars == <<enq, watch, cancelled>>
runVars == <<runPc, runReq, batch>>
callVars == <<call, res, once, owed>>
allCallVars == <<call, res, once, owed, done>>

Blocked == {"parking", "waiting", "woken"}
EnqReturned == {"accepted", "dropped", "rejected", "cancelled"}
Results == {"none", "nil", "err", "ctx", "closed"}

TypeOK ==
    /\ conf \in [batch : Nat \ {0}, max : Nat \ {0}, overflow : OverflowPolicies]
    /\ buf \in Seq(Msgs)
    /\ closed \in BOOLEAN
    /\ stopped \in BOOLEAN
    /\ flushCh \in Callers \cup {"empty", "signal"}
    /\ runPc \in {"select", "take", "send", "exited"}
    /\ runReq \in Callers \cup {"signal"}
    /\ batch \in Seq(Msgs)
    /\ enq \in [Msgs -> {"idle"} \cup Blocked \cup EnqReturned]
    /\ watch \subseteq Msgs \cap Cancellable
    /\ cancelled \subseteq Cancellable
    /\ call \in [Callers -> {"idle", "request", "await", "mark", "stop", "join",
                             "once", "returned"}]
    /\ done \in [Callers -> {"none", "nil", "err"}]
    /\ res \in [Callers -> Results]
    /\ once \in {"fresh", "running", "over"}
    /\ fate \in [Msgs -> {"none", "evicted", "delivered", "failed"}]
    /\ log \in Seq(Msgs)
    /\ owed \in [Callers -> SUBSET Msgs]

-----------------------------------------------------------------------------
(* NewQueue: unset fields take the package defaults, run starts.           *)

OrDefault(n, default) == IF n <= 0 THEN default ELSE n

NewQueue(batchSize, maxQueueSize, policy) ==
    [batch    |-> OrDefault(batchSize, defaultBatchSize),
     max      |-> OrDefault(maxQueueSize, defaultMaxQueueSize),
     overflow |-> IF policy = "" THEN "drop_oldest" ELSE policy]

Init ==
    /\ \E b \in BatchSizes, n \in MaxQueueSizes, p \in Policies :
            conf = NewQueue(b, n, p)
    /\ buf = << >>
    /\ closed = FALSE
    /\ stopped = FALSE
    /\ flushCh = "empty"
    /\ runPc = "select"
    /\ runReq = "signal"
    /\ batch = << >>
    /\ enq = [m \in Msgs |-> "idle"]
    /\ watch = {}
    /\ cancelled = {}
    /\ call = [c \in Callers |-> "idle"]
    /\ done = [c \in Callers |-> "none"]
    /\ res = [c \in Callers |-> "none"]
    /\ once = "fresh"
    /\ fate = [m \in Msgs |-> "none"]
    /\ log = << >>
    /\ owed = [c \in Callers |-> {}]

-----------------------------------------------------------------------------
(* The mutex is held across steps in one place only: by an Enqueue between *)
(* its last look at ctx.Err() and the moment cond.Wait() has put it on the *)
(* notify list.                                                            *)

MuFree == \A m \in Msgs : enq[m] # "parking"

\* cond.Broadcast(): everyone on the notify list will compete for mu again.
Broadcast(e) == [m \in Msgs |-> IF e[m] = "waiting" THEN "woken" ELSE e[m]]

\* Mutant: full is one message too late.
FullLate == Len(buf) > conf.max

Full == Len(buf) >= conf.max

\* Enqueue goes on, or returns, without appending.
EnqueueWithout(m, outcome) ==
    /\ enq' = [enq EXCEPT ![m] = outcome]
    /\ UNCHANGED <<bufVars, flushCh>>

\* Mutant: signals only when the buffer has outgrown the batch size.
SignalPastBatch(n) == IF n > conf.batch /\ flushCh = "empty" THEN "signal" ELSE flushCh

\* The non-blocking send that follows an append which reaches the batch size.
SignalAtBatch(n) == IF n >= conf.batch /\ flushCh = "empty" THEN "signal" ELSE flushCh

\* Mutant: the new message overtakes the ones already buffered.
InFront(m, kept) == <<m>> \o kept

Appended(m, kept) == Append(kept, m)

\* append(q.buf, msg) to what overflow handling kept of the buffer.
AppendTo(m, kept) ==
    /\ buf' = Appended(m, kept)
    /\ log' = Append(log, m)
    /\ enq' = [enq EXCEPT ![m] = "accepted"]
    /\ flushCh' = SignalAtBatch(Len(kept) + 1)

AppendIfRoom(m) ==
    /\ ~Full
    /\ AppendTo(m, buf)
    /\ UNCHANGED fate

EnqueueDropOldest(m) ==
    \/ /\ Full
       /\ AppendTo(m, Tail(buf))
       /\ fate' = [fate EXCEPT ![Head(buf)] = "evicted"]
    \/ AppendIfRoom(m)

EnqueueDropNewest(m) ==
    \/ Full /\ EnqueueWithout(m, "dropped")
    \/ AppendIfRoom(m)

\* One turn of the OverflowBlock loop and, when it ends, what follows it.
EnqueueBlock(m) ==
    \/ m \in cancelled /\ EnqueueWithout(m, "cancelled")
    \/ m \notin cancelled /\ Full /\ EnqueueWithout(m, "parking")
    \/ m \notin cancelled /\ AppendIfRoom(m)

\* Enqueue from q.mu.Lock() to its return, or to cond.Wait().
EnqueueEnter(m) ==
    /\ enq[m] = "idle"
    /\ MuFree
    /\ \/ closed /\ EnqueueWithout(m, "rejected")
       \/ /\ ~closed
          /\ \/ conf.overflow = "drop_oldest" /\ EnqueueDropOldest(m)
             \/ conf.overflow = "drop_newest" /\ EnqueueDropNewest(m)
             \/ conf.overflow = "block" /\ EnqueueBlock(m)
    /\ watch' = IF ~closed /\ conf.overflow = "block" /\ m \in Cancellable
                THEN watch \cup {m} ELSE watch
    /\ UNCHANGED <<conf, closed, stopped, cancelled, runVars, allCallVars>>

\* cond.Wait() joins the notify list and releases mu.
EnqueuePark(m) ==
    /\ enq[m] = "parking"
    /\ enq' = [enq EXCEPT ![m] = "waiting"]
    /\ UNCHANGED <<conf, bufVars, closed, stopped, flushCh, watch, cancelled,
                   runVars, allCallVars>>

\* cond.Wait() has reacquired mu: the loop condition is evaluated again.
EnqueueWake(m) ==
    /\ enq[m] = "woken"
    /\ MuFree
    /\ \/ closed /\ EnqueueWithout(m, "rejected")
       \/ ~closed /\ EnqueueBlock(m)
    /\ UNCHANGED <<conf, closed, stopped, watch, cancelled, runVars, allCallVars>>

\* The watcher goroutine sees ctx.Done() and broadcasts, without holding mu.
WatcherBroadcast(m) ==
    /\ m \in watch \cap cancelled
    /\ watch' = watch \ {m}
    /\ enq' = Broadcast(enq)
    /\ UNCHANGED <<conf, bufVars, closed, stopped, flushCh, cancelled, runVars,
                   allCallVars>>

\* The watcher goroutine sees watchStop, which the returning Enqueue closed.
WatcherStop(m) ==
    /\ m \in watch
    /\ enq[m] \in EnqReturned
    /\ watch' = watch \ {m}
    /\ UNCHANGED <<conf, bufVars, closed, stopped, flushCh, enq, cancelled, runVars,
                   allCallVars>>

\* The context of a call is cancelled or reaches its deadline.
Cancel(x) ==
    /\ x \in Cancellable \ cancelled
    /\ cancelled' = cancelled \cup {x}
    /\ UNCHANGED <<conf, bufVars, closed, stopped, flushCh, enq, watch, runVars,
                   allCallVars>>

-----------------------------------------------------------------------------
(* run and doFlush.  Go's select takes any of the ready cases.             *)

\* Mutant: the ticker fires and nothing is flushed.
NoFlushOnTick == "select"

FlushOnTick == "take"

RunTick ==
    /\ runPc = "select"
    /\ runPc' = FlushOnTick
    /\ runReq' = "signal"
    /\ UNCHANGED <<conf, bufVars, closed, stopped, flushCh, batch, enqVars, allCallVars>>

RunRecv ==
    /\ runPc = "select"
    /\ flushCh # "empty"
    /\ runPc' = "take"
    /\ runReq' = flushCh
    /\ flushCh' = "empty"
    /\ UNCHANGED <<conf, bufVars, closed, stopped, batch, enqVars, allCallVars>>

RunStop ==
    /\ runPc = "select"
    /\ stopped
    /\ runPc' = "exited"
    /\ UNCHANGED <<conf, bufVars, closed, stopped, flushCh, runReq, batch, enqVars,
                   allCallVars>>

\* req.done <- err, when the request has a done channel.
Reply(r) == done' = IF runReq \in Callers THEN [done EXCEPT ![runReq] = r] ELSE done

\* Mutant: a request that finds the buffer empty is not answered.
NoReplyOnEmpty == UNCHANGED done

ReplyOnEmpty == Reply("nil")

\* Mutant: the waiter is answered as soon as the buffer has been taken.
ReplyOnTake == Reply("nil")

NoReplyOnTake == UNCHANGED done

\* Mutant: the callers waiting for room are not told that there is some.
WakeNobody == enq

WakeBlocked == IF conf.overflow = "block" THEN Broadcast(enq) ELSE enq

\* Mutant: the buffer is handed over without being replaced by a new one.
SameBuf == buf

FreshBuf == << >>

\* doFlush up to the call of fn: nothing to send, or the whole buffer is taken.
RunTake ==
    /\ runPc = "take"
    /\ MuFree
    /\ \/ /\ buf = << >>
          /\ runPc' = "select"
          /\ ReplyOnEmpty
          /\ UNCHANGED <<buf, batch, enq>>
       \/ /\ buf # << >>
          /\ runPc' = "send"
          /\ batch' = buf
          /\ buf' = FreshBuf
          /\ enq' = WakeBlocked
          /\ NoReplyOnTake
    /\ UNCHANGED <<conf, fate, log, closed, stopped, flushCh, runReq, watch, cancelled,
                   callVars>>

\* Mutant: fn sends no more than BatchSize messages and forgets the others.
SentByFnCapped == {batch[i] : i \in {j \in DOMAIN batch : j <= conf.batch}}

\* The messages fn answers for.
SentByFn == Range(batch)

\* fn returns: nil, or an error after which the batch is gone.
RunSend(r) ==
    /\ runPc = "send"
    /\ runPc' = "select"
    /\ batch' = << >>
    /\ fate' = [m \in Msgs |-> IF m \in SentByFn
                               THEN IF r = "nil" THEN "delivered" ELSE "failed"
                               ELSE fate[m]]
    /\ Reply(r)
    /\ UNCHANGED <<conf, buf, log, closed, stopped, flushCh, runReq, enqVars, callVars>>

-----------------------------------------------------------------------------
(* Flush, called by itself or from Shutdown.                               *)

\* A call enters Flush; what it owes its caller is what it finds unsent.
FlushBegin(c) ==
    /\ call' = [call EXCEPT ![c] = "request"]
    /\ owed' = [owed EXCEPT ![c] = Range(buf) \cup Range(batch)]

\* Flush returns r: to its caller, or into the rest of Shutdown.
FlushEnd(c, r) ==
    /\ res' = [res EXCEPT ![c] = r]
    /\ call' = [call EXCEPT ![c] = IF c \in Flushers THEN "returned" ELSE "mark"]
    /\ UNCHANGED <<once, owed>>

FlushCall(c) ==
    /\ c \in Flushers
    /\ call[c] = "idle"
    /\ FlushBegin(c)
    /\ UNCHANGED <<conf, bufVars, closed, stopped, flushCh, enqVars, runVars, done,
                   res, once>>

\* The first select of Flush: the request is sent, ctx is done, or stopCh is closed.
FlushRequest(c) ==
    /\ call[c] = "request"
    /\ \/ /\ flushCh = "empty"
          /\ flushCh' = c
          /\ call' = [call EXCEPT ![c] = "await"]
          /\ UNCHANGED <<res, once, owed>>
       \/ c \in cancelled /\ FlushEnd(c, "ctx") /\ UNCHANGED flushCh
       \/ stopped /\ FlushEnd(c, "closed") /\ UNCHANGED flushCh
    /\ UNCHANGED <<conf, bufVars, closed, stopped, enqVars, runVars, done>>

\* The second select of Flush: the reply arrives, or ctx is done.
FlushAwait(c) ==
    /\ call[c] = "await"
    /\ \/ done[c] # "none" /\ FlushEnd(c, done[c])
       \/ c \in cancelled /\ FlushEnd(c, "ctx")
    /\ UNCHANGED <<conf, bufVars, closed, stopped, flushCh, enqVars, runVars, done>>

-----------------------------------------------------------------------------
(* Shutdown.                                                               *)

\* shutdownOnce.Do: the first caller flushes, the others wait for it.
ShutdownCall(c) ==
    /\ c \in Closers
    /\ call[c] = "idle"
    /\ \/ /\ once = "fresh"
          /\ once' = "running"
          /\ FlushBegin(c)
       \/ /\ once # "fresh"
          /\ call' = [call EXCEPT ![c] = "once"]
          /\ UNCHANGED <<once, owed>>
    /\ UNCHANGED <<conf, bufVars, closed, stopped, flushCh, enqVars, runVars, done, res>>

ShutdownAgain(c) ==
    /\ call[c] = "once"
    /\ once = "over"
    /\ call' = [call EXCEPT ![c] = "returned"]
    /\ res' = [res EXCEPT ![c] = "nil"]
    /\ UNCHANGED <<conf, bufVars, closed, stopped, flushCh, enqVars, runVars, done,
                   once, owed>>

Close == closed' = TRUE /\ enq' = Broadcast(enq)

\* q.closed = true and cond.Broadcast(), under mu.
ShutdownMark(c) ==
    /\ call[c] = "mark"
    /\ MuFree
    /\ Close
    /\ call' = [call EXCEPT ![c] = "stop"]
    /\ UNCHANGED <<conf, bufVars, stopped, flushCh, watch, cancelled, runVars, done,
                   res, once, owed>>

\* Mutant: stopCh is not closed.
LeaveStopCh == UNCHANGED stopped

CloseStopCh == stopped' = TRUE

ShutdownStop(c) ==
    /\ call[c] = "stop"
    /\ CloseStopCh
    /\ call' = [call EXCEPT ![c] = "join"]
    /\ UNCHANGED <<conf, bufVars, closed, flushCh, enqVars, runVars, done, res, once,
                   owed>>

\* Mutant: nobody waits for the run goroutine.
NotJoined == TRUE

\* wg.Wait() lets its caller pass.
Joined == runPc = "exited"

ShutdownJoin(c) ==
    /\ call[c] = "join"
    /\ Joined
    /\ once' = "over"
    /\ call' = [call EXCEPT ![c] = "returned"]
    /\ UNCHANGED <<conf, bufVars, closed, stopped, flushCh, enqVars, runVars, done,
                   res, owed>>

-----------------------------------------------------------------------------
Enqueue(m) == EnqueueEnter(m) \/ EnqueuePark(m) \/ EnqueueWake(m)

Watcher(m) == WatcherBroadcast(m) \/ WatcherStop(m)

Fn == \E r \in {"nil", "err"} : RunSend(r)

Run == RunTick \/ RunRecv \/ RunStop \/ RunTake \/ Fn

Flush(c) == FlushCall(c) \/ FlushRequest(c) \/ FlushAwait(c)

Shutdown(c) ==
    \/ ShutdownCall(c) \/ ShutdownAgain(c) \/ ShutdownMark(c)
    \/ ShutdownStop(c) \/ ShutdownJoin(c)

Next ==
    \/ \E m \in Msgs : Enqueue(m) \/ Watcher(m)
    \/ \E x \in Cancellable : Cancel(x)
    \/ Run
    \/ \E c \in Callers : Flush(c) \/ Shutdown(c)

Spec == Init /\ [][Next]_vars

(***************************************************************************)
(* Fairness.  Goroutines that can run do run; a mutex is not withheld for  *)
(* ever; select is random among its ready cases and the ticker fires again *)
(* and again, so no case of the run loop that is ready again and again is  *)
(* passed over for ever.  Nothing obliges a call to be made or a context   *)
(* to be cancelled.                                                        *)
(***************************************************************************)
SchedulerFairness ==
    /\ \A m \in Msgs :
          /\ WF_vars(EnqueuePark(m))
          /\ WF_vars(EnqueueWake(m))
          /\ WF_vars(WatcherBroadcast(m))
          /\ WF_vars(WatcherStop(m))
    /\ SF_vars(RunTick)
    /\ SF_vars(RunRecv)
    /\ SF_vars(RunStop)
    /\ WF_vars(RunTake)
    /\ \A c \in Callers :
          /\ WF_vars(FlushRequest(c))
          /\ WF_vars(FlushAwait(c))
          /\ WF_vars(ShutdownAgain(c))
          /\ WF_vars(ShutdownMark(c))
          /\ WF_vars(ShutdownStop(c))
          /\ WF_vars(ShutdownJoin(c))

\* FairSpec also assumes that fn returns.
FairSpec == Spec /\ SchedulerFairness /\ WF_vars(Fn)

-----------------------------------------------------------------------------
(* Safety.                                                                 *)

\* However the calls interleave, the buffer never holds more than MaxQueueSize
\* messages: a caller that was woken because there was room finds it gone when
\* another caller was faster.
BoundedBuffer == Len(buf) <= conf.max

\* A message that Enqueue accepted is in exactly one place: buffered, in the
\* batch fn is sending, or settled (delivered, failed with its batch, evicted).
\* A message that was not accepted is in none of them.
Conservation ==
    \A m \in Msgs :
       /\ enq[m] = "accepted" <=> m \in Range(buf) \cup Range(batch) \/ fate[m] # "none"
       /\ m \in Range(buf) => m \notin Range(batch) /\ fate[m] = "none"
       /\ m \in Range(batch) => fate[m] = "none"

\* No message overtakes another: the buffer is the tail of the messages in the
\* order Enqueue accepted them, and the batch in flight is an unbroken piece of
\* that order from before the buffer.
OrderKept ==
    /\ Len(buf) <= Len(log)
    /\ \A i \in 1..Len(buf) : buf[i] = log[Len(log) - Len(buf) + i]
    /\ \E k \in 0..(Len(log) - Len(buf) - Len(batch)) :
          \A i \in 1..Len(batch) : batch[i] = log[k + i]

\* The batch-size signal is never lost: whenever a full batch is waiting, a
\* request is pending in flushCh or the run loop is about to take the buffer.
\* The send in Enqueue is non-blocking and shares the one slot with Flush.
ThresholdArmed == Len(buf) >= conf.batch => flushCh # "empty" \/ runPc = "take"

\* A Flush (or the flush in Shutdown) that returned nil has drained: nothing
\* that was buffered or in flight when it began is still buffered or in flight,
\* even if a ticker or a threshold signal took the buffer first.
FlushDrains ==
    \A c \in Callers :
       res[c] = "nil" => owed[c] \cap (Range(buf) \cup Range(batch)) = {}

\* Once any Shutdown call has returned, the queue is at rest: nothing is
\* accepted and fn is neither running nor called again.
Quiesced ==
    [][(\E c \in Closers : call[c] = "returned")
          => UNCHANGED <<buf, batch, fate, log>>]_vars

\* The outbox a caller sees: what has become of the message it offered.
outboxState ==
    [m \in Msgs |->
        IF enq[m] \in {"dropped", "rejected", "cancelled"} THEN "refused"
        ELSE IF enq[m] # "accepted" THEN "offered"
        ELSE IF m \in Range(buf) THEN "pending"
        ELSE IF m \in Range(batch) THEN "sending"
        ELSE fate[m]]

Outbox == INSTANCE EventOutbox WITH state <- outboxState

\* The queue implements the event outbox: with all its goroutines, locks and
\* channels it delivers at most once, all or none of a batch, one batch at a
\* time, and evicts only in the step that accepts another message.
ImplementsOutbox == Outbox!Spec

-----------------------------------------------------------------------------
(* Liveness, under FairSpec.                                               *)

\* Every accepted message leaves the buffer, unless Shutdown stops run first: it
\* is sent by the ticker if no threshold or Flush sends it before, or evicted.
EventuallySettled ==
    \A m \in Msgs : enq[m] = "accepted" ~> fate[m] # "none" \/ stopped

\* A Flush call is answered, unless Shutdown stops run first.
FlushAnswered ==
    \A c \in Flushers : call[c] = "request" ~> call[c] = "returned" \/ stopped

\* A caller blocked in Enqueue by a full buffer gets room, or is sent away by
\* Shutdown or its context; it is not forgotten on the condition variable.
EnqueueReturns == \A m \in Msgs : enq[m] \in Blocked ~> enq[m] \in EnqReturned

\* Every Shutdown call returns, the ones that only wait for the first too.
ShutdownReturns == \A c \in Closers : call[c] # "idle" ~> call[c] = "returned"

-----------------------------------------------------------------------------
(* What comments in the source say and the code does not do.               *)

\* "Shutdown flushes remaining buffered events": when Shutdown has returned
\* nil, no accepted message is left in the buffer.
ShutdownFlushesAccepted ==
    (\E c \in Closers : call[c] = "returned" /\ res[c] = "nil") => buf = << >>
=============================================================================
