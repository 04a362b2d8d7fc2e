------------------------------- MODULE Breaker -------------------------------
(***************************************************************************)
(* The in-process circuit breaker of service/breaker.rs: one ProviderBreaker*)
(* record per provider id, every method a critical section of one mutex.   *)
(*                                                                         *)
(* Instants are abstracted to what the code compares: open_until is absent,*)
(* in the future or reached; window_start is absent, or younger or older   *)
(* than window_secs.  OpenElapses and WindowElapses are the clock.         *)
(***************************************************************************)
EXTENDS Integers

CONSTANTS
    Providers,           \* provider ids
    FailureThreshold,    \* cfg.failure_threshold (u32, zero accepted)
    SuccessThreshold,    \* cfg.success_threshold (u32, zero refused at start-up)
    MinRequests,         \* cfg.min_requests
    RateNum, RateDen,    \* cfg.failure_rate as a fraction in [0, 1]
    MaxWindow            \* bound: results counted in one statistics window

ASSUME ConfigAssumption ==
    /\ FailureThreshold \in Nat
    /\ SuccessThreshold \in Nat \ {0}
    /\ MinRequests \in Nat
    /\ RateNum \in Nat /\ RateDen \in Nat \ {0} /\ RateNum <= RateDen
    /\ MaxWindow \in Nat \ {0}

VARIABLES
    states,  \* keys of the map `states`: providers that have an entry
    pb       \* the entry of each provider (the default where it has none)

breakerVars == <<states, pb>>

ProviderBreaker ==
    [consec_failures           : Nat,
     open_until                : {"none", "future", "reached"},
     half_open_probe_in_flight : BOOLEAN,
     half_open_successes       : Nat,
     window_requests           : Nat,
     window_failures           : Nat,
     window_start              : {"none", "recent", "old"}]

Default ==
    [consec_failures           |-> 0,
     open_until                |-> "none",
     half_open_probe_in_flight |-> FALSE,
     half_open_successes       |-> 0,
     window_requests           |-> 0,
     window_failures           |-> 0,
     window_start              |-> "none"]

-----------------------------------------------------------------------------
(* The methods, as functions of one entry.                                  *)

\* The answer of allow: closed, or window reached and slot free.
Allowed(b) == \/ b.open_until = "none"
              \/ b.open_until = "reached" /\ ~b.half_open_probe_in_flight

MutAfterAllowAnyOpen(b) ==
    [b EXCEPT !.half_open_probe_in_flight = @ \/ b.open_until # "none"]

\* What allow leaves behind: a reached window has its slot taken from now on.
AfterAllow(b) == [b EXCEPT !.half_open_probe_in_flight = @ \/ b.open_until = "reached"]

decay_window(b) ==
    IF b.window_start = "old"
    THEN [b EXCEPT !.window_requests = 0, !.window_failures = 0, !.window_start = "recent"]
    ELSE [b EXCEPT !.window_start = "recent"]

Counted(b, failures) ==
    LET d == decay_window(b)
    IN  [d EXCEPT !.window_requests = @ + 1, !.window_failures = @ + failures]

MutAfterSuccessKeepsCount(b) ==
    LET closes == b.half_open_probe_in_flight => b.half_open_successes + 1 >= SuccessThreshold
    IN  Counted([b EXCEPT !.open_until = IF closes THEN "none" ELSE "future",
                          !.half_open_probe_in_flight = FALSE,
                          !.half_open_successes = IF closes THEN 0 ELSE @ + 1], 0)

MutAfterSuccessDecays(b) ==
    Counted([b EXCEPT !.consec_failures = @ - 1, !.open_until = "none",
                      !.half_open_probe_in_flight = FALSE], 0)

\* record_success on an existing entry.  With the slot taken the success counts
\* for the probe, whoever reports it; without, the breaker closes at once and
\* the probe successes counted so far stay.
AfterSuccess(b) ==
    LET probe  == b.half_open_probe_in_flight
        closes == probe => b.half_open_successes + 1 >= SuccessThreshold
    IN  Counted([b EXCEPT
                   !.consec_failures = 0,
                   !.open_until = IF closes THEN "none" ELSE "future",
                   !.half_open_probe_in_flight = FALSE,
                   !.half_open_successes =
                        IF ~probe THEN @ ELSE IF closes THEN 0 ELSE @ + 1], 0)

\* consec_failures >= failure_threshold, or the window's error rate with enough samples
Trips(b) ==
    \/ b.consec_failures >= FailureThreshold
    \/ /\ b.window_requests >= MinRequests
       /\ b.window_failures * RateDen >= b.window_requests * RateNum

\* record_failure: a failed probe reopens the window; any other failure is counted.
AfterFailure(b) ==
    IF b.half_open_probe_in_flight
    THEN [b EXCEPT !.half_open_probe_in_flight = FALSE, !.half_open_successes = 0,
                   !.open_until = "future", !.consec_failures = FailureThreshold]
    ELSE LET c == Counted([b EXCEPT !.consec_failures = @ + 1], 1)
         IN  IF Trips(c)
             THEN [c EXCEPT !.open_until = "future", !.consec_failures = 0,
                            !.window_requests = 0, !.window_failures = 0,
                            !.window_start = "none"]
             ELSE c

-----------------------------------------------------------------------------
(* The methods, as steps.                                                   *)

\* Bound: at most MaxWindow results are counted before the window elapses.
WindowRoom(p) == pb[p].window_start = "old" \/ pb[p].window_requests < MaxWindow

allow(p) == /\ states' = states \cup {p}
            /\ pb' = [pb EXCEPT ![p] = AfterAllow(@)]

record_success(p) ==
    /\ WindowRoom(p)
    /\ pb' = IF p \in states THEN [pb EXCEPT ![p] = AfterSuccess(@)] ELSE pb
    /\ UNCHANGED states

record_failure(p) ==
    /\ WindowRoom(p)
    /\ states' = states \cup {p}
    /\ pb' = [pb EXCEPT ![p] = AfterFailure(@)]

\* The clock reaches open_until.
OpenElapses(p) == /\ pb[p].open_until = "future"
                  /\ pb' = [pb EXCEPT ![p].open_until = "reached"]
                  /\ UNCHANGED states

\* window_secs have passed since window_start.
WindowElapses(p) == /\ pb[p].window_start = "recent"
                    /\ pb' = [pb EXCEPT ![p].window_start = "old"]
                    /\ UNCHANGED states

BreakerInit == /\ states = {}
               /\ pb = [p \in Providers |-> Default]

BreakerNext == \E p \in Providers : \/ allow(p)
                                    \/ record_success(p)
                                    \/ record_failure(p)
                                    \/ OpenElapses(p)
                                    \/ WindowElapses(p)

BreakerSpec == BreakerInit /\ [][BreakerNext]_breakerVars

-----------------------------------------------------------------------------
BreakerTypeOK == /\ states \subseteq Providers
                 /\ pb \in [Providers -> ProviderBreaker]

\* The slot of a provider is taken only while its window is reached: no result
\* and no clock step can leave the slot of a closed, or freshly opened, breaker
\* taken, which would make allow refuse it for ever (breaker.rs 91-101).
SlotOnlyWhenReached ==
    \A p \in Providers :
        pb[p].half_open_probe_in_flight => pb[p].open_until = "reached"

\* A breaker that lets everything through has not used up its failures: the
\* count a failed probe leaves behind never survives the closing of the breaker
\* (breaker.rs 129, 157, 167-169).
ClosedBelowThreshold ==
    \A p \in Providers :
        pb[p].open_until = "none" =>
            pb[p].consec_failures = 0 \/ pb[p].consec_failures < FailureThreshold

\* The counters stay in the ranges the decisions read them in: a stored failure
\* count is at most the threshold, stored probe successes are below theirs, and
\* a window has no more failures than results (breaker.rs 136, 161-167).
CountersInRange ==
    \A p \in Providers :
        /\ pb[p].consec_failures <= FailureThreshold
        /\ pb[p].half_open_successes < SuccessThreshold
        /\ pb[p].window_failures <= pb[p].window_requests
        /\ pb[p].window_requests <= MaxWindow
        /\ p \notin states => pb[p] = Default

BreakerInv == SlotOnlyWhenReached /\ ClosedBelowThreshold /\ CountersInRange

\* The life cycle the counters implement.
Phase(b) == IF b.open_until = "none" THEN "closed"
            ELSE IF b.half_open_probe_in_flight THEN "probing"
            ELSE IF b.open_until = "reached" THEN "ready" ELSE "open"

CB == INSTANCE CircuitBreaker WITH status <- [p \in Providers |-> Phase(pb[p])]

\* Every step of the breaker is a step of the abstract life cycle.
ImplementsCircuitBreaker == CB!Spec
=============================================================================
