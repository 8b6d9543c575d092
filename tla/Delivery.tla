------------------------------ MODULE Delivery ------------------------------
(***************************************************************************)
(* How a provider's requests reach its backend: the rate limiter           *)
(* (provider/ratelimit.go), Transport.Do with its retries                  *)
(* (provider/transport.go), and the two providers that are built on them:  *)
(* the server provider (provider/event-spec) and Amplitude                 *)
(* (provider/amplitude), whose Track goes through ProviderQueue and comes  *)
(* here as the batches its run goroutine sends.                            *)
(*                                                                         *)
(* Time is discrete.  A tick earns the bucket one credit and a token costs *)
(* TokenCost credits, so the rate is 1 / TokenCost tokens per tick.        *)
(***************************************************************************)
EXTENDS Integers, FiniteSets

CONSTANTS
    Calls,      \* calls of the provider's methods
    Cancellable,\* calls whose context may be cancelled
    Kinds,      \* the providers: "event-spec", "amplitude"
    Retries,    \* values of RetryConfig.MaxRetries
    Initial, MaxBackoff, Multiplier, Jitter,
    TokenCost, Bursts

ASSUME DeliveryAssumption ==
    /\ Retries \subseteq Nat
    /\ Kinds \subseteq {"event-spec", "amplitude"}
    /\ Initial \in Nat \ {0} /\ MaxBackoff \in Nat \ {0} /\ Multiplier \in Nat \ {0}
    /\ Jitter \in BOOLEAN
    /\ TokenCost \in Nat \ {0}
    /\ Bursts \subseteq Nat \ {0}
    /\ IsFiniteSet(Calls)

VARIABLES
    conf,       \* the provider, its retries and the capacity of its bucket
    closed,     \* ServerProvider.closed
    tokens,     \* RateLimiter.tokens, in credits
    elapsed,    \* time since RateLimiter.lastTime, as far as refill can tell
    call,       \* every call: where it is, attempt, backoff, timer, result
    cancelled,  \* calls whose context is done
    wire,       \* requests on their way to the backend: <<call, attempt>>
    acted,      \* history: how often the backend acted on a call
    level       \* history: an independent meter of the granted requests

vars == <<conf, closed, tokens, elapsed, call, cancelled, wire, acted, level>>

Answers == {"200", "2xx", "4xx", "retryable"}
Results == {"nil", "ErrShutdown", "ErrUnsupportedOperation", "ctx", "status", "HTTP", "network"}

\* What is asked of the provider.  "post" is what ends in the server provider's
\* post and in Amplitude's sendBatch.
Ops == {"post", "Shutdown", "Ping", "Page"}

Idle == [op |-> "none", pc |-> "idle", att |-> 0, backoff |-> Initial, timer |-> 0, res |-> "none"]

defaultMaxRetries == 3
MaxRetries(r) == IF r = 0 THEN defaultMaxRetries ELSE r

Min2(a, b) == IF a < b THEN a ELSE b
Max2(a, b) == IF a > b THEN a ELSE b

Init ==
    /\ conf \in [kind : Kinds, maxRetries : {MaxRetries(r) : r \in Retries},
                 burst : {b * TokenCost : b \in Bursts}]
    /\ closed = FALSE
    /\ tokens = conf.burst /\ elapsed = 0
    /\ call = [k \in Calls |-> Idle]
    /\ cancelled = {} /\ wire = {}
    /\ acted = [k \in Calls |-> 0]
    /\ level = 0

Enter(k, op, s, r) == call' = [call EXCEPT ![k].op = op, ![k].pc = s, ![k].res = r]
Goto(k, s) == call' = [call EXCEPT ![k].pc = s]
Return(k, r) == call' = [call EXCEPT ![k].pc = "done", ![k].res = r]
Provider == <<conf, closed>>
Bucket == <<tokens, elapsed, level>>
Backend == <<wire, acted>>

-----------------------------------------------------------------------------
(* The providers' methods up to the rate limiter. *)

\* Track, Identify, Group, Page, Alias and Flush of the server provider read
\* closed once and post.
Post(k) ==
    /\ conf.kind = "event-spec"
    /\ call[k].pc = "idle"
    /\ IF closed THEN Enter(k, "post", "done", "ErrShutdown")
                 ELSE Enter(k, "post", "limit", "none")
    /\ UNCHANGED <<Provider, Bucket, Backend, cancelled>>

\* Identify, Group and Alias of Amplitude, and flushBatch in the run goroutine
\* of its queue, end in sendBatch.
SendBatch(k) ==
    /\ conf.kind = "amplitude"
    /\ call[k].pc = "idle"
    /\ Enter(k, "post", "limit", "none")
    /\ UNCHANGED <<Provider, Bucket, Backend, cancelled>>

\* Mutant: Shutdown stores true without comparing.
LosesSwapStore == FALSE

\* CompareAndSwap fails for every Shutdown but the first.
LosesSwap == closed

Shutdown(k) ==
    /\ conf.kind = "event-spec"
    /\ call[k].pc = "idle"
    /\ closed' = TRUE
    /\ IF LosesSwap THEN Enter(k, "Shutdown", "done", "ErrShutdown")
                    ELSE Enter(k, "Shutdown", "limit", "none")
    /\ UNCHANGED <<conf, Bucket, Backend, cancelled>>

\* Ping takes no token.
Ping(k) ==
    /\ conf.kind = "amplitude"
    /\ call[k].pc = "idle"
    /\ Enter(k, "Ping", "send", "none")
    /\ UNCHANGED <<Provider, Bucket, Backend, cancelled>>

Page(k) ==
    /\ conf.kind = "amplitude"
    /\ call[k].pc = "idle"
    /\ Enter(k, "Page", "done", "ErrUnsupportedOperation")
    /\ UNCHANGED <<Provider, Bucket, Backend, cancelled>>

-----------------------------------------------------------------------------
(* RateLimiter.Wait. *)

\* Mutant: refill does not cap.
RefilledUncapped == tokens + elapsed

\* refill adds what was earned since lastTime, up to the burst.
Refilled == Min2(tokens + elapsed, conf.burst)

\* Mutant: a token is taken only when more than one is there.
HasTokenAbove == Refilled > TokenCost

HasToken == Refilled >= TokenCost

\* One turn of the loop, under mu: a token, or the time until there is one.
WaitTurn(k) ==
    /\ call[k].pc = "limit" /\ call[k].timer = 0
    /\ elapsed' = 0
    /\ IF HasToken
       THEN /\ tokens' = Refilled - TokenCost
            /\ level' = level + TokenCost
            /\ Goto(k, "send")
       ELSE /\ tokens' = Refilled
            /\ call' = [call EXCEPT ![k].timer = TokenCost - Refilled]
            /\ UNCHANGED level
    /\ UNCHANGED <<Provider, Backend, cancelled>>

\* ctx.Done() in Wait's select or in the select before a retry.
GiveUp(k) ==
    /\ k \in cancelled
    /\ \/ call[k].pc = "limit" /\ call[k].timer > 0
       \/ call[k].pc = "sleep"
    /\ Return(k, "ctx")
    /\ UNCHANGED <<Provider, Bucket, Backend, cancelled>>

-----------------------------------------------------------------------------
(* Transport.Do. *)

\* The limiter or the sleep is over: client.Do puts a request on the wire,
\* unless its context is done.
Send(k) ==
    /\ \/ call[k].pc = "send"
       \/ call[k].pc = "sleep" /\ call[k].timer = 0
    /\ IF k \in cancelled
       THEN Return(k, "ctx") /\ UNCHANGED wire
       ELSE Goto(k, "sent") /\ wire' = wire \cup {<<k, call[k].att>>}
    /\ UNCHANGED <<Provider, Bucket, acted, cancelled>>

\* jitteredBackoff: between half of d and d.
Sleeps(d) == IF Jitter THEN (d \div 2)..(2 * (d \div 2)) ELSE {d}

\* Mutant: the loop ends one attempt later.
LastAttemptLate == conf.maxRetries + 1

LastAttempt == conf.maxRetries

\* An attempt failed with lastErr: sleep and try again, or return it.
Retry(k, lastErr) ==
    IF call[k].att = LastAttempt
    THEN Return(k, lastErr)
    ELSE \E d \in Sleeps(call[k].backoff) :
            call' = [call EXCEPT ![k].pc = "sleep", ![k].att = @ + 1, ![k].timer = d,
                                 ![k].backoff = Min2(@ * Multiplier, MaxBackoff)]

\* Mutant: sendBatch refuses server errors only.
SucceedsBelow500(k, a) == a # "retryable"

\* What post, sendBatch and Ping make of a response Do returned.
Succeeds(k, a) ==
    \/ call[k].op = "Ping"
    \/ a = "200"
    \/ a = "2xx" /\ conf.kind = "event-spec"

\* Do returns the first response that is not retryable.
Respond(k, a) ==
    IF a = "retryable" THEN Retry(k, "HTTP")
    ELSE Return(k, IF Succeeds(k, a) THEN "nil" ELSE "status")

\* A request reaches the backend, or a proxy before it: it is acted on and
\* answered; refused; or answered with a retryable status, acted on or not.
\* The answer counts only while the call waits for this attempt.
Arrive(k) ==
    \E n \in 0..call[k].att, a \in Answers, act \in BOOLEAN :
        /\ <<k, n>> \in wire
        /\ a \in {"200", "2xx"} => act
        /\ a = "4xx" => ~act
        /\ wire' = wire \ {<<k, n>>}
        /\ acted' = [acted EXCEPT ![k] = IF act THEN @ + 1 ELSE @]
        /\ IF call[k].pc = "sent" /\ call[k].att = n
           THEN Respond(k, a)
           ELSE UNCHANGED call
        /\ UNCHANGED <<Provider, Bucket, cancelled>>

\* A request is lost, or acted on and its answer lost.
Lose(k) ==
    \E n \in 0..call[k].att, act \in BOOLEAN :
        /\ <<k, n>> \in wire
        /\ wire' = wire \ {<<k, n>>}
        /\ acted' = [acted EXCEPT ![k] = IF act THEN @ + 1 ELSE @]
        /\ UNCHANGED <<Provider, Bucket, cancelled, call>>

\* client.Do fails (connection, timeout or context), whether the request was
\* lost or is still under way.
Fail(k) ==
    /\ call[k].pc = "sent"
    /\ IF k \in cancelled THEN Return(k, "ctx") ELSE Retry(k, "network")
    /\ UNCHANGED <<Provider, Bucket, Backend, cancelled>>

-----------------------------------------------------------------------------
(* The environment. *)

Cancel(k) ==
    /\ k \in Cancellable \ cancelled
    /\ call[k].pc \notin {"idle", "done"}
    /\ cancelled' = cancelled \cup {k}
    /\ UNCHANGED <<Provider, Bucket, Backend, call>>

\* Time passes: timers run, credits accrue (no more than fill the bucket), and
\* the meter drains at the configured rate.
Tick ==
    /\ elapsed' = Min2(elapsed + 1, conf.burst)
    /\ level' = Max2(level - 1, 0)
    /\ call' = [k \in Calls |-> [call[k] EXCEPT !.timer = Max2(@ - 1, 0)]]
    /\ UNCHANGED <<Provider, Backend, cancelled, tokens>>

Method(k) == Post(k) \/ SendBatch(k) \/ Shutdown(k) \/ Ping(k) \/ Page(k)
Progress(k) == WaitTurn(k) \/ GiveUp(k) \/ Send(k) \/ Arrive(k) \/ Lose(k) \/ Fail(k)

Next == Tick \/ \E k \in Calls : Method(k) \/ Progress(k) \/ Cancel(k)

Spec == Init /\ [][Next]_vars

\* Time passes, goroutines run, and the client's timeout ends a request nobody
\* answers.
FairSpec ==
    /\ Spec
    /\ WF_vars(Tick)
    /\ \A k \in Calls : /\ WF_vars(WaitTurn(k)) /\ WF_vars(Send(k)) /\ WF_vars(Fail(k))

-----------------------------------------------------------------------------
(* Properties. *)

\* The types of the variables; the bucket holds at most its burst.
TypeOK ==
    /\ conf \in [kind : Kinds, maxRetries : Nat, burst : Nat \ {0}]
    /\ closed \in BOOLEAN
    /\ tokens \in 0..conf.burst /\ elapsed \in 0..conf.burst
    /\ call \in [Calls -> [op : Ops \cup {"none"},
                           pc : {"idle", "limit", "send", "sent", "sleep", "done"},
                           att : Nat, backoff : Nat, timer : Nat,
                           res : Results \cup {"none"}]]
    /\ cancelled \subseteq Cancellable
    /\ wire \subseteq Calls \X Nat
    /\ acted \in [Calls -> Nat]
    /\ level \in Nat

\* The requests granted by Wait conform to the configured rate and burst in
\* every window of time: a leaky bucket of the same capacity, filled by each
\* grant and drained by the clock alone, never overflows, whatever the
\* interleaving of waiters and refills (provider/ratelimit.go:58).
RateConforms == level <= conf.burst

Copies(k) == {w \in wire : w[1] = k}

\* The backend acts on a call at most once per attempt that was made, however
\* late its copies arrive: MaxRetries + 1 times in all, and never for a call
\* that has not left the limiter (provider/transport.go:123).
AtMostPerAttempt ==
    \A k \in Calls :
        /\ acted[k] + Cardinality(Copies(k)) <= call[k].att + 1
        /\ acted[k] <= conf.maxRetries + 1
        /\ call[k].pc \in {"idle", "limit"} => acted[k] = 0 /\ Copies(k) = {}

\* A call that returned nil was acted on: retries never turn a lost or refused
\* request into a success (provider/amplitude/provider.go:184,
\* provider/event-spec/provider.go:205).
NilMeansActed ==
    \A k \in Calls : call[k].res = "nil" /\ call[k].op # "Ping" => acted[k] > 0

\* Of all racing Shutdown calls exactly one sends the last flush, and what is
\* answered ErrShutdown leaves no trace at the server, however long requests
\* that saw the provider open are still under way
\* (provider/event-spec/provider.go:167).
ShutdownOnce ==
    /\ closed => \E k \in Calls :
          \A j \in Calls :
             (call[j].op = "Shutdown" /\ call[j].res # "ErrShutdown") <=> j = k
    /\ \A k \in Calls : call[k].res = "ErrShutdown" =>
          closed /\ acted[k] = 0 /\ Copies(k) = {}

\* Every call returns: waiters get their token or their context ends, attempts
\* are bounded (provider/ratelimit.go:58, provider/transport.go:103).
CallReturns == \A k \in Calls : call[k].pc # "idle" ~> call[k].pc = "done"
=============================================================================
