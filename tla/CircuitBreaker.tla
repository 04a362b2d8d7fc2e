--------------------------- MODULE CircuitBreaker ---------------------------
(***************************************************************************)
(* What the per-provider circuit breaker promises, with no counters: the   *)
(* life cycle of one breaker per provider.                                 *)
(*                                                                         *)
(*   "closed"  requests pass                                               *)
(*   "open"    the provider is skipped until its window elapses            *)
(*   "ready"   the window elapsed and the single probe slot is free        *)
(*   "probing" the probe slot is taken                                     *)
(*                                                                         *)
(* Results of requests that hold no slot (sent before the trip, or sent    *)
(* because every candidate was refused) still arrive in any phase.         *)
(***************************************************************************)
CONSTANT Providers

VARIABLE status

Phases == {"closed", "open", "ready", "probing"}

TypeOK == status \in [Providers -> Phases]

Init == status = [p \in Providers |-> "closed"]

Move(p, from, to) == /\ status[p] \in from
                     /\ status' = [status EXCEPT ![p] = to]

\* A failure without the slot trips the breaker or restarts its window.
Trip(p) == Move(p, {"closed", "open", "ready"}, "open")

\* Time passes.
Elapse(p) == Move(p, {"open"}, "ready")

\* The one probe of this window is let through.
Admit(p) == Move(p, {"ready"}, "probing")

\* A result arrives while the slot is taken: it frees the slot.
Settle(p) == Move(p, {"probing"}, "closed") \/ Move(p, {"probing"}, "open")

\* A success without the slot closes the breaker.
Recover(p) == Move(p, {"open", "ready"}, "closed")

Next == \E p \in Providers : Trip(p) \/ Elapse(p) \/ Admit(p) \/ Settle(p) \/ Recover(p)

Spec == Init /\ [][Next]_status
=============================================================================
