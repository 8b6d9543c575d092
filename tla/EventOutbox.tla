----------------------------- MODULE EventOutbox -----------------------------
(***************************************************************************)
(* What an event buffer promises to the code that offers events to it,     *)
(* with no buffer, lock, channel or goroutine in sight.                    *)
(*                                                                         *)
(* Every event is accepted or refused, once.  An accepted event is pending *)
(* until it is handed over together with everything else that is pending,  *)
(* or is evicted to make room for an event accepted in that very step.     *)
(* One hand-over is under way at a time, and its events share one outcome. *)
(* An outcome is final: delivery is at most once.                          *)
(***************************************************************************)
CONSTANT Msgs

VARIABLE state

Init == state = [m \in Msgs |-> "offered"]

\* All events in one state go to another.
Move(from, to) == [m \in Msgs |-> IF state[m] = from THEN to ELSE state[m]]

Refuse(m) ==
    /\ state[m] = "offered"
    /\ state' = [state EXCEPT ![m] = "refused"]

Accept(m) ==
    /\ state[m] = "offered"
    /\ state' = [state EXCEPT ![m] = "pending"]

AcceptEvicting(m, old) ==
    /\ state[m] = "offered"
    /\ state[old] = "pending"
    /\ state' = [state EXCEPT ![m] = "pending", ![old] = "evicted"]

HandOver ==
    /\ \E m \in Msgs : state[m] = "pending"
    /\ \A m \in Msgs : state[m] # "sending"
    /\ state' = Move("pending", "sending")

Settle(outcome) ==
    /\ \E m \in Msgs : state[m] = "sending"
    /\ state' = Move("sending", outcome)

Next ==
    \/ \E m \in Msgs : Refuse(m) \/ Accept(m)
    \/ \E m, old \in Msgs : AcceptEvicting(m, old)
    \/ HandOver
    \/ \E outcome \in {"delivered", "failed"} : Settle(outcome)

Spec == Init /\ [][Next]_state
=============================================================================
