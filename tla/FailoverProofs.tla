--------------------------- MODULE FailoverProofs ---------------------------
(***************************************************************************)
(* The circuit breaker, for every configuration and any number of          *)
(* providers, that it implements its life cycle, and the candidate loop,   *)
(* for every set of chains and requests.                                   *)
(*                                                                         *)
(* A method of the breaker works on one entry, so that argument is about   *)
(* one entry: EntryInv is the conjunction of the type and of what          *)
(* BreakerInv says of one provider, and each method keeps it.              *)
(*                                                                         *)
(* A request holds three lists, each picked in order from the one before:  *)
(* its chain, which routing made without repetitions, the candidates the   *)
(* breaker granted, and the providers tried.  Position i bounds how far    *)
(* each pick has come (PickedUpTo), so the next element is a new one.      *)
(* What a request does to the breaker is one of the breaker's methods, so  *)
(* the breaker's invariants hold under any number of handlers.             *)
(***************************************************************************)
EXTENDS Failover, TLAPS

-----------------------------------------------------------------------------
(* The circuit breaker.                                                     *)

EntryInv(b) ==
    /\ b \in ProviderBreaker
    /\ b.half_open_probe_in_flight => b.open_until = "reached"
    /\ b.open_until = "none" => b.consec_failures = 0 \/ b.consec_failures < FailureThreshold
    /\ b.consec_failures <= FailureThreshold
    /\ b.half_open_successes < SuccessThreshold
    /\ b.window_failures <= b.window_requests
    /\ b.window_requests <= MaxWindow

IInv == /\ states \subseteq Providers
        /\ pb \in [Providers -> ProviderBreaker]
        /\ \A p \in Providers : EntryInv(pb[p]) /\ (p \notin states => pb[p] = Default)

\* Counting a result: an elapsed window starts again from it.
LEMMA CountedFields ==
    ASSUME NEW b \in ProviderBreaker, NEW f \in Nat
    PROVE  LET c   == Counted(b, f)
               old == b.window_start = "old"
           IN  /\ c \in ProviderBreaker
               /\ c.consec_failures = b.consec_failures
               /\ c.open_until = b.open_until
               /\ c.half_open_probe_in_flight = b.half_open_probe_in_flight
               /\ c.half_open_successes = b.half_open_successes
               /\ c.window_requests = IF old THEN 1 ELSE b.window_requests + 1
               /\ c.window_failures = IF old THEN f ELSE b.window_failures + f
  <1> DEFINE d == decay_window(b)
             x == d.window_requests + 1
             y == d.window_failures + f
  <1>1. /\ d \in ProviderBreaker
        /\ d.consec_failures = b.consec_failures
        /\ d.open_until = b.open_until
        /\ d.half_open_probe_in_flight = b.half_open_probe_in_flight
        /\ d.half_open_successes = b.half_open_successes
        /\ d.window_requests = IF b.window_start = "old" THEN 0 ELSE b.window_requests
        /\ d.window_failures = IF b.window_start = "old" THEN 0 ELSE b.window_failures
    BY DEF ProviderBreaker, decay_window
  <1>2. Counted(b, f) = [d EXCEPT !.window_requests = x, !.window_failures = y]
    BY DEF Counted
  <1>3. b.window_requests \in Nat /\ b.window_failures \in Nat
    BY DEF ProviderBreaker
  <1>4. /\ x \in Nat /\ y \in Nat
        /\ x = IF b.window_start = "old" THEN 1 ELSE b.window_requests + 1
        /\ y = IF b.window_start = "old" THEN f ELSE b.window_failures + f
    BY <1>1, <1>3
  <1> HIDE DEF d, x, y
  <1> QED BY <1>1, <1>2, <1>4 DEF ProviderBreaker

\* allow keeps an entry well-formed: it takes the slot of a reached window only.
LEMMA AllowKeeps == ASSUME NEW b, EntryInv(b) PROVE EntryInv(AfterAllow(b))
  BY DEF EntryInv, AfterAllow, ProviderBreaker

\* The passing of time keeps an entry well-formed.
LEMMA ClockKeeps ==
    ASSUME NEW b, EntryInv(b)
    PROVE  /\ b.open_until = "future" => EntryInv([b EXCEPT !.open_until = "reached"])
           /\ EntryInv([b EXCEPT !.window_start = "old"])
  BY DEF EntryInv, ProviderBreaker

\* record_success keeps an entry well-formed.
LEMMA SuccessKeeps ==
    ASSUME NEW b, EntryInv(b), b.window_start = "old" \/ b.window_requests < MaxWindow
    PROVE  EntryInv(AfterSuccess(b))
  <1> DEFINE probe  == b.half_open_probe_in_flight
             closes == probe => b.half_open_successes + 1 >= SuccessThreshold
             u == IF closes THEN "none" ELSE "future"
             n == IF ~probe THEN b.half_open_successes
                  ELSE IF closes THEN 0 ELSE b.half_open_successes + 1
             s == [b EXCEPT !.consec_failures = 0, !.open_until = u,
                            !.half_open_probe_in_flight = FALSE, !.half_open_successes = n]
  <1>1. b \in ProviderBreaker /\ b.half_open_successes \in Nat
    BY DEF EntryInv, ProviderBreaker
  <1>2. n \in Nat /\ n < SuccessThreshold /\ u \in {"none", "future"}
    BY <1>1, ConfigAssumption DEF EntryInv
  <1>3. AfterSuccess(b) = Counted(s, 0)
    BY DEF AfterSuccess
  <1> HIDE DEF u, n
  <1>4. /\ s \in ProviderBreaker
        /\ s.consec_failures = 0
        /\ s.half_open_successes = n
        /\ s.window_requests = b.window_requests
        /\ s.window_failures = b.window_failures
        /\ s.window_start = b.window_start
    BY <1>1, <1>2 DEF ProviderBreaker
  <1>4b. ~s.half_open_probe_in_flight
    BY <1>1, <1>2 DEF ProviderBreaker
  <1> HIDE DEF s
  <1>5. b.window_requests \in Nat /\ b.window_failures \in Nat
    BY <1>1 DEF ProviderBreaker
  <1> DEFINE c == Counted(s, 0)
  <1>6. /\ c \in ProviderBreaker
        /\ c.consec_failures = s.consec_failures
        /\ c.half_open_probe_in_flight = s.half_open_probe_in_flight
        /\ c.half_open_successes = s.half_open_successes
        /\ c.window_requests = IF s.window_start = "old" THEN 1 ELSE s.window_requests + 1
        /\ c.window_failures = IF s.window_start = "old" THEN 0 ELSE s.window_failures + 0
    <2>1. s \in ProviderBreaker /\ 0 \in Nat
      BY <1>4
    <2> QED BY <2>1, CountedFields, Zenon
  <1> HIDE DEF c
  <1>7. c.window_failures <= c.window_requests /\ c.window_requests <= MaxWindow
    BY <1>4, <1>5, <1>6, ConfigAssumption DEF EntryInv
  <1>8. EntryInv(c)
    BY <1>2, <1>4, <1>4b, <1>6, <1>7, ConfigAssumption DEF EntryInv
  <1> QED BY <1>3, <1>8 DEF c

\* record_failure keeps an entry well-formed.
LEMMA FailureKeeps ==
    ASSUME NEW b, EntryInv(b), b.window_start = "old" \/ b.window_requests < MaxWindow
    PROVE  EntryInv(AfterFailure(b))
  <1>1. /\ b \in ProviderBreaker /\ b.consec_failures \in Nat
        /\ b.window_requests \in Nat /\ b.window_failures \in Nat
    BY DEF EntryInv, ProviderBreaker
  <1>2. CASE b.half_open_probe_in_flight
    <2> DEFINE t == [b EXCEPT !.half_open_probe_in_flight = FALSE, !.half_open_successes = 0,
                              !.open_until = "future", !.consec_failures = FailureThreshold]
    <2>1. AfterFailure(b) = t
      BY <1>2 DEF AfterFailure
    <2>2. /\ t \in ProviderBreaker
          /\ t.half_open_probe_in_flight = FALSE
          /\ t.half_open_successes = 0
          /\ t.open_until = "future"
          /\ t.consec_failures = FailureThreshold
          /\ t.window_requests = b.window_requests
          /\ t.window_failures = b.window_failures
      BY <1>1, ConfigAssumption DEF ProviderBreaker
    <2> HIDE DEF t
    <2>3. EntryInv(t)
      BY <1>1, <2>2, ConfigAssumption DEF EntryInv
    <2> QED BY <2>1, <2>3
  <1>3. CASE ~b.half_open_probe_in_flight
    <2> DEFINE k == b.consec_failures + 1
               d == [b EXCEPT !.consec_failures = k]
               c == Counted(d, 1)
               t == [c EXCEPT !.open_until = "future", !.consec_failures = 0,
                              !.window_requests = 0, !.window_failures = 0,
                              !.window_start = "none"]
    <2>1. AfterFailure(b) = IF Trips(c) THEN t ELSE c
      BY <1>3 DEF AfterFailure
    <2>2. k \in Nat
      BY <1>1
    <2>3. /\ d \in ProviderBreaker
          /\ d.consec_failures = b.consec_failures + 1
          /\ d.open_until = b.open_until
          /\ d.half_open_probe_in_flight = b.half_open_probe_in_flight
          /\ d.half_open_successes = b.half_open_successes
          /\ d.window_requests = b.window_requests
          /\ d.window_failures = b.window_failures
          /\ d.window_start = b.window_start
      <3> HIDE DEF k
      <3>1. d.consec_failures = k
        BY <1>1, <2>2 DEF ProviderBreaker
      <3> QED BY <1>1, <2>2, <3>1 DEF ProviderBreaker, k
    <2> HIDE DEF d
    <2>4. /\ c \in ProviderBreaker
          /\ c.consec_failures = b.consec_failures + 1
          /\ c.open_until = b.open_until
          /\ c.half_open_probe_in_flight = b.half_open_probe_in_flight
          /\ c.half_open_successes = b.half_open_successes
          /\ c.window_requests = IF b.window_start = "old" THEN 1 ELSE b.window_requests + 1
          /\ c.window_failures = IF b.window_start = "old" THEN 1 ELSE b.window_failures + 1
      BY <2>3, CountedFields
    <2> HIDE DEF c
    <2>5. CASE Trips(c)
      <3>1. /\ t \in ProviderBreaker
            /\ t.half_open_probe_in_flight = c.half_open_probe_in_flight
            /\ t.half_open_successes = c.half_open_successes
            /\ t.open_until = "future"
            /\ t.consec_failures = 0
            /\ t.window_requests = 0
            /\ t.window_failures = 0
        BY <2>4 DEF ProviderBreaker
      <3> HIDE DEF t
      <3>2. EntryInv(t)
        BY <1>3, <2>4, <3>1, ConfigAssumption DEF EntryInv
      <3> QED BY <2>1, <2>5, <3>2
    <2>6. CASE ~Trips(c)
      <3>1. b.consec_failures + 1 < FailureThreshold
        BY <1>1, <2>4, <2>6, ConfigAssumption DEF Trips
      <3>2. EntryInv(c)
        BY <1>1, <1>3, <2>4, <3>1, ConfigAssumption DEF EntryInv
      <3> QED BY <2>1, <2>6, <3>2
    <2> QED BY <2>5, <2>6
  <1> QED BY <1>2, <1>3

\* The invariant is inductive.
LEMMA IInvStep == IInv /\ [BreakerNext]_breakerVars => IInv'
  <1> SUFFICES ASSUME IInv, [BreakerNext]_breakerVars PROVE IInv'
    OBVIOUS
  <1>1. ASSUME NEW p \in Providers, NEW v, EntryInv(v), pb' = [pb EXCEPT ![p] = v],
               states \subseteq states', states' \subseteq Providers,
               p \in states' \/ v = pb[p]
        PROVE  IInv'
    <2>1. v \in ProviderBreaker
      BY <1>1 DEF EntryInv
    <2>2. \A q \in Providers : pb'[q] = IF q = p THEN v ELSE pb[q]
      BY <1>1 DEF IInv
    <2>3. pb' \in [Providers -> ProviderBreaker]
      BY <1>1, <2>1 DEF IInv
    <2> QED BY <1>1, <2>2, <2>3 DEF IInv
  <1>2. ASSUME NEW p \in Providers, allow(p) PROVE IInv'
    BY <1>1, <1>2, AllowKeeps DEF allow, IInv
  <1>3. ASSUME NEW p \in Providers, record_success(p) PROVE IInv'
    <2>1. CASE p \in states
      BY <1>1, <1>3, <2>1, SuccessKeeps DEF record_success, IInv, WindowRoom
    <2>2. CASE p \notin states
      BY <1>3, <2>2 DEF record_success, IInv
    <2> QED BY <2>1, <2>2
  <1>4. ASSUME NEW p \in Providers, record_failure(p) PROVE IInv'
    BY <1>1, <1>4, FailureKeeps DEF record_failure, IInv, WindowRoom
  <1>5. ASSUME NEW p \in Providers, OpenElapses(p) PROVE IInv'
    <2>1. p \in states
      BY <1>5 DEF OpenElapses, IInv, Default
    <2> QED BY <1>1, <1>5, <2>1, ClockKeeps DEF OpenElapses, IInv
  <1>6. ASSUME NEW p \in Providers, WindowElapses(p) PROVE IInv'
    <2>1. p \in states
      BY <1>6 DEF WindowElapses, IInv, Default
    <2> QED BY <1>1, <1>6, <2>1, ClockKeeps DEF WindowElapses, IInv
  <1>7. CASE UNCHANGED breakerVars
    BY <1>7 DEF breakerVars, IInv
  <1> QED BY <1>2, <1>3, <1>4, <1>5, <1>6, <1>7 DEF BreakerNext

\* Every provider starts with the default entry.
LEMMA IInvInit == BreakerInit => IInv
  <1>1. EntryInv(Default)
    BY ConfigAssumption DEF EntryInv, Default, ProviderBreaker
  <1>2. Default \in ProviderBreaker
    BY <1>1 DEF EntryInv
  <1> QED BY <1>1, <1>2 DEF BreakerInit, IInv

\* The invariant is what the runs check.
LEMMA IInvImplies == IInv => BreakerTypeOK /\ BreakerInv
  BY DEF IInv, EntryInv, BreakerTypeOK, BreakerInv, SlotOnlyWhenReached,
         ClosedBelowThreshold, CountersInRange

\* The invariant holds in every reachable state.
LEMMA Inductive == BreakerSpec => []IInv
  BY IInvInit, IInvStep, PTL DEF BreakerSpec

\* The type invariant of the breaker map (breaker.rs 49-66).
THEOREM BreakerTypes == BreakerSpec => []BreakerTypeOK
  BY Inductive, IInvImplies, PTL

\* For every configuration the start-up code accepts: no closed or freshly opened
\* breaker has its slot taken, a closed breaker is below its threshold, and the
\* counters stay in range (breaker.rs 88-190).
THEOREM BreakerSafe == BreakerSpec => []BreakerInv
  BY Inductive, IInvImplies, PTL

\* The phases before and after a result.
LEMMA ProbePhase ==
    ASSUME NEW b, EntryInv(b)
    PROVE  /\ b.half_open_probe_in_flight => Phase(b) = "probing"
           /\ ~b.half_open_probe_in_flight => Phase(b) \in {"closed", "open", "ready"}
  BY DEF EntryInv, Phase

\* The phase a success leads to, with and without the slot.
LEMMA SuccessPhase ==
    ASSUME NEW b, EntryInv(b)
    PROVE  /\ Phase(AfterSuccess(b)) \in {"closed", "open"}
           /\ ~b.half_open_probe_in_flight => Phase(AfterSuccess(b)) = "closed"
  <1> DEFINE closes == b.half_open_probe_in_flight => b.half_open_successes + 1 >= SuccessThreshold
             u == IF closes THEN "none" ELSE "future"
             n == IF ~b.half_open_probe_in_flight THEN b.half_open_successes
                  ELSE IF closes THEN 0 ELSE b.half_open_successes + 1
             s == [b EXCEPT !.consec_failures = 0, !.open_until = u,
                            !.half_open_probe_in_flight = FALSE, !.half_open_successes = n]
             c == Counted(s, 0)
  <1>1. b \in ProviderBreaker /\ b.half_open_successes \in Nat
    BY DEF EntryInv, ProviderBreaker
  <1>2. n \in Nat /\ u \in {"none", "future"} /\ (~b.half_open_probe_in_flight => u = "none")
    BY <1>1
  <1>3. AfterSuccess(b) = c
    BY DEF AfterSuccess
  <1> HIDE DEF u, n
  <1>4. s \in ProviderBreaker /\ s.open_until = u
    BY <1>1, <1>2 DEF ProviderBreaker
  <1>5. ~s.half_open_probe_in_flight
    BY <1>1, <1>2 DEF ProviderBreaker
  <1> HIDE DEF s
  <1>6. /\ c.open_until = s.open_until
        /\ c.half_open_probe_in_flight = s.half_open_probe_in_flight
    <2>1. s \in ProviderBreaker /\ 0 \in Nat
      BY <1>4
    <2> QED BY <2>1, CountedFields, Zenon
  <1> HIDE DEF c
  <1> QED BY <1>2, <1>3, <1>4, <1>5, <1>6 DEF Phase

\* The phase a failure leads to, with and without the slot.
LEMMA FailurePhase ==
    ASSUME NEW b, EntryInv(b)
    PROVE  /\ b.half_open_probe_in_flight => Phase(AfterFailure(b)) = "open"
           /\ ~b.half_open_probe_in_flight =>
                \/ Phase(AfterFailure(b)) = "open"
                \/ Phase(AfterFailure(b)) = Phase(b)
  <1>1. b \in ProviderBreaker /\ b.consec_failures \in Nat
    BY DEF EntryInv, ProviderBreaker
  <1>2. CASE b.half_open_probe_in_flight
    BY <1>1, <1>2 DEF AfterFailure, Phase, ProviderBreaker
  <1>3. CASE ~b.half_open_probe_in_flight
    <2> DEFINE k == b.consec_failures + 1
               d == [b EXCEPT !.consec_failures = k]
               c == Counted(d, 1)
    <2>1. k \in Nat
      BY <1>1
    <2> HIDE DEF k
    <2>2. /\ d \in ProviderBreaker
          /\ d.open_until = b.open_until
          /\ d.half_open_probe_in_flight = b.half_open_probe_in_flight
      BY <1>1, <2>1 DEF ProviderBreaker
    <2> HIDE DEF d
    <2>3. /\ c \in ProviderBreaker
          /\ c.open_until = b.open_until
          /\ c.half_open_probe_in_flight = b.half_open_probe_in_flight
      BY <2>2, CountedFields
    <2>4. AfterFailure(b) = IF Trips(c)
             THEN [c EXCEPT !.open_until = "future", !.consec_failures = 0,
                            !.window_requests = 0, !.window_failures = 0,
                            !.window_start = "none"]
             ELSE c
      BY <1>3 DEF AfterFailure, d, k
    <2> HIDE DEF c
    <2>5. CASE Trips(c)
      BY <1>3, <2>3, <2>4, <2>5 DEF Phase, ProviderBreaker
    <2>6. CASE ~Trips(c)
      BY <1>3, <2>3, <2>4, <2>6 DEF Phase
    <2> QED BY <1>3, <2>5, <2>6
  <1> QED BY <1>2, <1>3

\* The counters implement the life cycle of CircuitBreaker: a slot is given only
\* after the window elapsed and is free again only when a result arrives.
THEOREM BreakerRefines == BreakerSpec => ImplementsCircuitBreaker
  <1> DEFINE st == [p \in Providers |-> Phase(pb[p])]
  <1>1. BreakerInit => CB!Init
    BY DEF BreakerInit, CB!Init, Default, Phase
  <1>2. IInv /\ [BreakerNext]_breakerVars => [CB!Next]_st
    <2> SUFFICES ASSUME IInv, [BreakerNext]_breakerVars PROVE [CB!Next]_st
      OBVIOUS
    <2>1. ASSUME NEW p \in Providers, NEW v, pb' = [pb EXCEPT ![p] = v]
          PROVE  st' = [st EXCEPT ![p] = Phase(v)]
      BY <2>1 DEF IInv
    <2>2. \A p \in Providers : st[p] = Phase(pb[p]) /\ pb[p] \in ProviderBreaker
      BY DEF IInv
    <2>3. ASSUME NEW p \in Providers, NEW v, pb' = [pb EXCEPT ![p] = v],
                 Phase(v) = Phase(pb[p])
          PROVE  UNCHANGED st
      BY <2>1, <2>2, <2>3
    <2>4. ASSUME NEW p \in Providers, allow(p) PROVE [CB!Next]_st
      <3> DEFINE v == AfterAllow(pb[p])
      <3>1. pb' = [pb EXCEPT ![p] = v]
        BY <2>4 DEF allow
      <3>2. CASE pb[p].open_until = "reached" /\ ~pb[p].half_open_probe_in_flight
        <4>1. Phase(pb[p]) = "ready" /\ Phase(v) = "probing"
          BY <2>2, <3>2 DEF Phase, AfterAllow, ProviderBreaker
        <4>2. CB!Admit(p)
          BY <2>1, <2>2, <3>1, <4>1 DEF CB!Admit, CB!Move
        <4> QED BY <4>2 DEF CB!Next
      <3>3. CASE ~(pb[p].open_until = "reached" /\ ~pb[p].half_open_probe_in_flight)
        <4>1. Phase(v) = Phase(pb[p])
          BY <2>2, <3>3 DEF Phase, AfterAllow, ProviderBreaker
        <4> QED BY <2>3, <3>1, <4>1
      <3> QED BY <3>2, <3>3
    <2>5. ASSUME NEW p \in Providers, record_success(p) PROVE [CB!Next]_st
      <3> DEFINE v == AfterSuccess(pb[p])
      <3>1. CASE p \notin states
        BY <2>5, <3>1 DEF record_success
      <3>2. CASE p \in states
        <4>1. pb' = [pb EXCEPT ![p] = v]
          BY <2>5, <3>2 DEF record_success
        <4>2. CASE pb[p].half_open_probe_in_flight
          <5>1. Phase(pb[p]) = "probing" /\ Phase(v) \in {"closed", "open"}
            BY <2>2, <4>2, SuccessPhase, ProbePhase DEF IInv
          <5>2. CB!Settle(p)
            BY <2>1, <2>2, <4>1, <5>1 DEF CB!Settle, CB!Move
          <5> QED BY <5>2 DEF CB!Next
        <4>3. CASE ~pb[p].half_open_probe_in_flight
          <5>1. Phase(pb[p]) \in {"closed", "open", "ready"} /\ Phase(v) = "closed"
            BY <2>2, <4>3, SuccessPhase, ProbePhase DEF IInv
          <5>2. CASE Phase(pb[p]) = "closed"
            BY <2>3, <4>1, <5>1, <5>2
          <5>3. CASE Phase(pb[p]) \in {"open", "ready"}
            <6>1. CB!Recover(p)
              BY <2>1, <2>2, <4>1, <5>1, <5>3 DEF CB!Recover, CB!Move
            <6> QED BY <6>1 DEF CB!Next
          <5> QED BY <5>1, <5>2, <5>3
        <4> QED BY <4>2, <4>3
      <3> QED BY <3>1, <3>2
    <2>6. ASSUME NEW p \in Providers, record_failure(p) PROVE [CB!Next]_st
      <3> DEFINE v == AfterFailure(pb[p])
      <3>1. pb' = [pb EXCEPT ![p] = v]
        BY <2>6 DEF record_failure
      <3>2. CASE pb[p].half_open_probe_in_flight
        <4>1. Phase(pb[p]) = "probing" /\ Phase(v) = "open"
          BY <2>2, <3>2, FailurePhase, ProbePhase DEF IInv
        <4>2. CB!Settle(p)
          BY <2>1, <2>2, <3>1, <4>1 DEF CB!Settle, CB!Move
        <4> QED BY <4>2 DEF CB!Next
      <3>3. CASE ~pb[p].half_open_probe_in_flight
        <4>1. /\ Phase(pb[p]) \in {"closed", "open", "ready"}
              /\ Phase(v) = "open" \/ Phase(v) = Phase(pb[p])
          BY <2>2, <3>3, FailurePhase, ProbePhase DEF IInv
        <4>2. CASE Phase(v) = Phase(pb[p])
          BY <2>3, <3>1, <4>2
        <4>3. CASE Phase(v) = "open"
          <5>1. CB!Trip(p)
            BY <2>1, <2>2, <3>1, <4>1, <4>3 DEF CB!Trip, CB!Move
          <5> QED BY <5>1 DEF CB!Next
        <4> QED BY <4>1, <4>2, <4>3
      <3> QED BY <3>2, <3>3
    <2>7. ASSUME NEW p \in Providers, OpenElapses(p) PROVE [CB!Next]_st
      <3> DEFINE v == [pb[p] EXCEPT !.open_until = "reached"]
      <3>1. pb' = [pb EXCEPT ![p] = v]
        BY <2>7 DEF OpenElapses
      <3>2. ~pb[p].half_open_probe_in_flight
        BY <2>7 DEF OpenElapses, IInv, EntryInv
      <3>3. Phase(pb[p]) = "open" /\ Phase(v) = "ready"
        BY <2>2, <2>7, <3>2 DEF OpenElapses, Phase, ProviderBreaker
      <3>4. CB!Elapse(p)
        BY <2>1, <2>2, <3>1, <3>3 DEF CB!Elapse, CB!Move
      <3> QED BY <3>4 DEF CB!Next
    <2>8. ASSUME NEW p \in Providers, WindowElapses(p) PROVE [CB!Next]_st
      <3> DEFINE v == [pb[p] EXCEPT !.window_start = "old"]
      <3>1. pb' = [pb EXCEPT ![p] = v]
        BY <2>8 DEF WindowElapses
      <3>2. Phase(v) = Phase(pb[p])
        BY <2>2 DEF Phase, ProviderBreaker
      <3> QED BY <2>3, <3>1, <3>2
    <2>9. CASE UNCHANGED breakerVars
      BY <2>9 DEF breakerVars
    <2> QED BY <2>4, <2>5, <2>6, <2>7, <2>8, <2>9 DEF BreakerNext
  <1> QED BY <1>1, <1>2, Inductive, PTL DEF BreakerSpec, ImplementsCircuitBreaker, CB!Spec

-----------------------------------------------------------------------------
(* The candidate loop.                                                      *)

Distinct(s) == \A i, j \in 1..Len(s) : s[i] = s[j] => i = j

\* The elements of s are among the first n of t.
PickedUpTo(s, t, n) == \A k \in 1..Len(s) : \E j \in 1..n : j <= Len(t) /\ s[k] = t[j]

Bound(q) == Lesser(Len(q.cand), Greater(MaxAttempts, 1))

\* The progress of one request.
Progress(q) ==
    /\ q.pc = "idle" => q.sent = <<>>
    /\ q.pc = "filter" => /\ q.chain \in Chains /\ q.i \in 1..Len(q.chain) /\ q.sent = <<>>
                          /\ Distinct(q.cand) /\ PickedUpTo(q.cand, q.chain, q.i - 1)
    /\ q.pc \in {"loop", "await", "resent"} =>
            /\ Len(q.cand) > 0 /\ Distinct(q.cand) /\ Distinct(q.sent) /\ q.i >= 1
    /\ q.pc = "loop" => /\ q.i <= Bound(q) + 1 /\ Len(q.sent) <= q.i - 1
                        /\ PickedUpTo(q.sent, q.cand, q.i - 1)
    /\ q.pc \in {"await", "resent"} => /\ q.i <= Bound(q) /\ Len(q.sent) <= q.i
                                       /\ PickedUpTo(q.sent, q.cand, q.i)

RequestsInv == req \in [Requests -> RequestType] /\ \A r \in Requests : Progress(req[r])

-----------------------------------------------------------------------------
(* Lists.                                                                   *)

\* The next element of a list without repetitions is not among those picked before.
LEMMA PickNext ==
    ASSUME NEW s \in Seq(Providers), NEW t \in Seq(Providers), NEW n \in Nat, n + 1 <= Len(t),
           Distinct(s), Distinct(t), PickedUpTo(s, t, n)
    PROVE  /\ t[n + 1] \in Providers
           /\ Append(s, t[n + 1]) \in Seq(Providers)
           /\ Len(Append(s, t[n + 1])) = Len(s) + 1
           /\ Distinct(Append(s, t[n + 1]))
           /\ PickedUpTo(Append(s, t[n + 1]), t, n + 1)
  <1> DEFINE x == t[n + 1]
             a == Append(s, x)
  <1>1. n + 1 \in 1..Len(t) /\ x \in Providers
    OBVIOUS
  <1>2. /\ a \in Seq(Providers) /\ Len(a) = Len(s) + 1 /\ Len(s) \in Nat
        /\ a[Len(s) + 1] = x /\ \A k \in 1..Len(s) : a[k] = s[k]
    BY <1>1
  <1>3. \A k \in 1..Len(s) : s[k] # x
    <2> SUFFICES ASSUME NEW k \in 1..Len(s), s[k] = x PROVE FALSE
      OBVIOUS
    <2>1. PICK j \in 1..n : j <= Len(t) /\ s[k] = t[j]
      BY DEF PickedUpTo
    <2>2. j \in 1..Len(t) /\ t[j] = t[n + 1] /\ j # n + 1
      BY <2>1
    <2> QED BY <2>2, <1>1 DEF Distinct
  <1> HIDE DEF x, a
  <1>4. Distinct(a)
    <2> SUFFICES ASSUME NEW i \in 1..Len(a), NEW j \in 1..Len(a), a[i] = a[j] PROVE i = j
      BY DEF Distinct
    <2>1. i \in 1..Len(s) \/ i = Len(s) + 1
      BY <1>2
    <2>2. j \in 1..Len(s) \/ j = Len(s) + 1
      BY <1>2
    <2> QED BY <2>1, <2>2, <1>2, <1>3 DEF Distinct
  <1>5. PickedUpTo(a, t, n + 1)
    <2> SUFFICES ASSUME NEW k \in 1..Len(a) PROVE \E j \in 1..(n + 1) : j <= Len(t) /\ a[k] = t[j]
      BY DEF PickedUpTo
    <2>1. CASE k \in 1..Len(s)
      <3>1. PICK j \in 1..n : j <= Len(t) /\ s[k] = t[j]
        BY <2>1 DEF PickedUpTo
      <3> QED BY <3>1, <2>1, <1>2
    <2>2. CASE k = Len(s) + 1
      BY <2>2, <1>1, <1>2 DEF x
    <2> QED BY <2>1, <2>2, <1>2
  <1> QED BY <1>1, <1>2, <1>4, <1>5 DEF x, a

\* What was picked from a shorter part was picked from a longer one.
LEMMA PickLonger ==
    ASSUME NEW s, NEW t, NEW n \in Int, PickedUpTo(s, t, n)
    PROVE  PickedUpTo(s, t, n + 1)
  BY DEF PickedUpTo

\* The empty list.
LEMMA PickNothing ==
    /\ <<>> \in Seq(Providers) /\ Len(<<>>) = 0
    /\ Distinct(<<>>) /\ \A t, n : PickedUpTo(<<>>, t, n)
  BY DEF Distinct, PickedUpTo

\* Chains have no repetitions.
LEMMA ChainsDistinct ==
    ASSUME NEW c \in Chains PROVE c \in Seq(Providers) /\ Len(c) > 0 /\ Distinct(c)
  BY FailoverAssumption DEF Distinct

\* The number of attempts.
LEMMA BoundRange ==
    ASSUME NEW q \in RequestType
    PROVE  /\ Bound(q) \in Nat /\ Bound(q) <= Len(q.cand) /\ Bound(q) <= Greater(MaxAttempts, 1)
           /\ Greater(MaxAttempts, 1) \in Nat
           /\ Len(q.cand) > 0 => Bound(q) >= 1
  <1>1. Len(q.cand) \in Nat /\ MaxAttempts \in Nat
    BY FailoverAssumption DEF RequestType
  <1> QED BY <1>1 DEF Bound, Lesser, Greater

-----------------------------------------------------------------------------
(* Requests.                                                                *)

\* A step of one request that leaves it in a good state.
LEMMA OneRequest ==
    ASSUME RequestsInv, NEW r \in Requests, NEW q \in RequestType, Progress(q),
           req' = [req EXCEPT ![r] = q]
    PROVE  RequestsInv'
  <1>1. req' \in [Requests -> RequestType]
    BY DEF RequestsInv
  <1>2. \A x \in Requests : req'[x] = IF x = r THEN q ELSE req[x]
    BY DEF RequestsInv
  <1> QED BY <1>1, <1>2 DEF RequestsInv

\* An empty slot.
LEMMA IdleSlot ==
    Idle \in RequestType /\ Progress(Idle) /\ Idle.pc = "idle" /\ Idle.sent = <<>> /\ Idle.cand = <<>>
  <1>1. Idle \in RequestType /\ Idle.pc = "idle" /\ Idle.sent = <<>>
    BY PickNothing DEF Idle, RequestType, Marks, NoMark, Outcomes
  <1>2. Idle.cand = <<>>
    BY DEF Idle
  <1> QED BY <1>1, <1>2 DEF Progress

\* A slot without a request, whatever the last one came to.
LEMMA FinishedSlot ==
    ASSUME NEW o \in Outcomes PROVE Finished(o) \in RequestType /\ Progress(Finished(o))
  <1>1. Finished(o) \in RequestType /\ Finished(o).pc = "idle" /\ Finished(o).sent = <<>>
    BY IdleSlot DEF Finished, RequestType
  <1> QED BY <1>1 DEF Progress

\* Who may look at the current candidate has one.
LEMMA CurrentProvider ==
    ASSUME RequestsInv, NEW r \in Requests,
           Waits(r) \/ (req[r].pc = "loop" /\ req[r].i <= AttemptBound(r))
    PROVE  /\ req[r].i \in 1..Len(req[r].cand) /\ Current(r) \in Providers
           /\ req[r].i <= Bound(req[r])
  <1>1. req[r] \in RequestType /\ Progress(req[r])
    BY DEF RequestsInv
  <1>2. req[r].i \in Nat /\ req[r].cand \in Seq(Providers)
    BY <1>1 DEF RequestType
  <1>3. req[r].i >= 1 /\ req[r].i <= Bound(req[r])
    BY <1>1 DEF Progress, Waits, AttemptBound, Bound
  <1>4. req[r].i \in 1..Len(req[r].cand)
    BY <1>1, <1>2, <1>3, BoundRange
  <1> QED BY <1>2, <1>3, <1>4 DEF Current

\* A slot whose chain the breaker is asked about makes progress and tries nobody.
LEMMA FilteredSlot ==
    ASSUME NEW old \in RequestType, Progress(old), old.pc = "filter"
    PROVE  /\ Filtered(old) \in RequestType /\ Progress(Filtered(old))
           /\ Filtered(old).sent = old.sent /\ old.chain[old.i] \in Providers
  <1> DEFINE p == old.chain[old.i]
             granted == IF Allowed(pb[p]) THEN Append(old.cand, p) ELSE old.cand
             chosen == Bypass(granted, old.chain)
             next == old.i + 1
             more == [old EXCEPT !.cand = granted, !.i = next]
             last == [old EXCEPT !.pc = "loop", !.i = 1, !.cand = chosen.list,
                                 !.bypassed = chosen.bypassed]
  <1>1. /\ old.chain \in Chains /\ old.i \in 1..Len(old.chain) /\ old.sent = <<>>
        /\ Distinct(old.cand) /\ PickedUpTo(old.cand, old.chain, old.i - 1)
    BY DEF Progress
  <1>2. /\ old.chain \in Seq(Providers) /\ Len(old.chain) > 0 /\ Distinct(old.chain)
        /\ old.cand \in Seq(Providers) /\ Len(old.chain) \in Nat
    BY <1>1, ChainsDistinct DEF RequestType
  <1>3. /\ old.i < Len(old.chain) => Filtered(old) = more
        /\ ~(old.i < Len(old.chain)) => Filtered(old) = last
    BY DEF Filtered
  <1>4. p \in Providers
    BY <1>1, <1>2
  <1> HIDE DEF p
  <1>5. /\ granted \in Seq(Providers) /\ Distinct(granted)
        /\ PickedUpTo(granted, old.chain, old.i)
    <2> DEFINE n == old.i - 1
    <2>1. n \in Nat /\ n + 1 = old.i /\ n + 1 <= Len(old.chain) /\ p = old.chain[n + 1]
      BY <1>1, <1>2 DEF p
    <2> HIDE DEF n
    <2>2. PickedUpTo(old.cand, old.chain, n)
      BY <1>1 DEF n
    <2>3. CASE Allowed(pb[p])
      BY <1>1, <1>2, <2>1, <2>2, <2>3, PickNext
    <2>4. CASE ~Allowed(pb[p])
      BY <1>1, <1>2, <2>1, <2>2, <2>4, PickLonger
    <2> QED BY <2>3, <2>4
  <1> HIDE DEF granted
  <1>6. /\ chosen.list \in Seq(Providers) /\ Len(chosen.list) > 0 /\ Distinct(chosen.list)
        /\ chosen.bypassed \in BOOLEAN
    BY <1>2, <1>5 DEF Bypass
  <1> HIDE DEF chosen
  <1>7. CASE old.i < Len(old.chain)
    <2>0. next \in Nat /\ next \in 1..Len(old.chain) /\ next - 1 = old.i
      BY <1>1, <1>2, <1>7
    <2> HIDE DEF next
    <2>1. /\ more \in RequestType /\ more.pc = "filter" /\ more.chain = old.chain
          /\ more.i = next /\ more.sent = <<>> /\ more.cand = granted
      BY <1>1, <1>5, <2>0 DEF RequestType
    <2>2. Filtered(old) = more
      BY <1>3, <1>7
    <2> HIDE DEF more
    <2>3. more.i \in 1..Len(more.chain) /\ more.i - 1 = old.i
      BY <2>0, <2>1
    <2>4. Progress(more)
      BY <2>1, <2>3, <1>1, <1>5 DEF Progress
    <2> QED BY <1>1, <1>4, <2>1, <2>2, <2>4 DEF p
  <1>8. CASE ~(old.i < Len(old.chain))
    <2>1. /\ last \in RequestType /\ last.pc = "loop" /\ last.i = 1 /\ last.sent = <<>>
          /\ last.cand = chosen.list
      BY <1>1, <1>6 DEF RequestType
    <2>2. Filtered(old) = last
      BY <1>3, <1>8
    <2> HIDE DEF last
    <2>3. Bound(last) \in Nat /\ 1 <= Bound(last) + 1
      BY <2>1, BoundRange
    <2>4. Progress(last)
      BY <2>1, <2>3, <1>6, PickNothing DEF Progress
    <2> QED BY <1>1, <1>4, <2>1, <2>2, <2>4 DEF p
  <1> QED BY <1>7, <1>8

\* A request arrives, is filtered, and gets its candidates.
LEMMA EnterStep ==
    ASSUME RequestsInv, NEW r \in Requests, Arrive(r) \/ Filter(r)
    PROVE  RequestsInv' /\ [BreakerNext]_breakerVars
  <1>0. req[r] \in RequestType /\ Progress(req[r])
    BY DEF RequestsInv
  <1>1. CASE Arrive(r)
    <2>1. PICK c \in Chains :
            req' = [req EXCEPT ![r] = [Idle EXCEPT !.pc = "filter", !.chain = c, !.i = 1]]
      BY <1>1 DEF Arrive
    <2> DEFINE q == [Idle EXCEPT !.pc = "filter", !.chain = c, !.i = 1]
    <2>2. c \in Seq(Providers) /\ Len(c) > 0 /\ Len(c) \in Nat
      BY ChainsDistinct
    <2>3. /\ q \in RequestType /\ q.pc = "filter" /\ q.chain = c /\ q.i = 1 /\ q.sent = <<>>
          /\ q.cand = <<>>
      BY <2>2, IdleSlot DEF RequestType
    <2> HIDE DEF q
    <2>4. Progress(q)
      BY <2>2, <2>3, PickNothing DEF Progress
    <2>5. RequestsInv'
      BY <2>1, <2>3, <2>4, OneRequest DEF q
    <2> QED BY <1>1, <2>5 DEF Arrive, breakerVars
  <1>2. CASE Filter(r)
    <2> DEFINE q == Filtered(req[r])
    <2>1. allow(req[r].chain[req[r].i]) /\ req' = [req EXCEPT ![r] = q] /\ req[r].pc = "filter"
      BY <1>2 DEF Filter
    <2>2. /\ q \in RequestType /\ Progress(q) /\ q.sent = req[r].sent
          /\ req[r].chain[req[r].i] \in Providers
      BY <1>0, <2>1, FilteredSlot
    <2> HIDE DEF q
    <2>3. RequestsInv'
      BY <2>1, <2>2, OneRequest
    <2> QED BY <2>1, <2>2, <2>3 DEF BreakerNext
  <1> QED BY <1>1, <1>2

\* The loop passes over a candidate or tries it.
LEMMA LoopStep ==
    ASSUME RequestsInv, NEW r \in Requests, Skip(r) \/ Attempt(r)
    PROVE  RequestsInv' /\ [BreakerNext]_breakerVars
  <1> DEFINE old == req[r]
  <1>1. old \in RequestType /\ Progress(old) /\ old.pc = "loop" /\ old.i <= AttemptBound(r)
    BY DEF RequestsInv, Skip, Attempt
  <1>2. old.i \in 1..Len(old.cand) /\ Current(r) \in Providers /\ old.i <= Bound(old)
    BY <1>1, CurrentProvider
  <1>3. /\ Distinct(old.cand) /\ Distinct(old.sent) /\ old.i >= 1 /\ Len(old.cand) > 0
        /\ Len(old.sent) <= old.i - 1 /\ PickedUpTo(old.sent, old.cand, old.i - 1)
    BY <1>1 DEF Progress
  <1>4. /\ old.cand \in Seq(Providers) /\ old.sent \in Seq(Providers) /\ old.i \in Nat
        /\ Len(old.cand) \in Nat /\ Len(old.sent) \in Nat /\ Bound(old) \in Nat
    BY <1>1, BoundRange DEF RequestType
  <1>5. CASE Skip(r)
    <2> DEFINE next == old.i + 1
               q == [old EXCEPT !.i = next]
    <2>1. allow(Current(r)) /\ req' = [req EXCEPT ![r] = q]
      BY <1>5 DEF Skip, RequestsInv
    <2>1a. next \in Nat /\ next = old.i + 1
      BY <1>4
    <2> HIDE DEF next
    <2>2. /\ q \in RequestType /\ q.pc = "loop" /\ q.i = old.i + 1 /\ q.sent = old.sent
          /\ q.cand = old.cand
      BY <1>1, <2>1a DEF RequestType
    <2> HIDE DEF q
    <2>3. Bound(q) = Bound(old)
      BY <2>2 DEF Bound
    <2>4. PickedUpTo(q.sent, q.cand, old.i)
      <3>1. PickedUpTo(q.sent, q.cand, (old.i - 1) + 1)
        BY <1>3, <1>4, <2>2, PickLonger
      <3> QED BY <3>1, <1>4
    <2>5. q.i >= 1 /\ q.i <= Bound(q) + 1 /\ Len(q.sent) <= q.i - 1 /\ q.i - 1 = old.i
      BY <1>2, <1>3, <1>4, <2>2, <2>3
    <2>6. Progress(q)
      BY <1>3, <2>2, <2>4, <2>5 DEF Progress
    <2> QED BY <1>2, <2>1, <2>2, <2>6, OneRequest DEF BreakerNext
  <1>6. CASE Attempt(r)
    <2> DEFINE s == Append(old.sent, Current(r))
               q == [old EXCEPT !.pc = "await", !.sent = s]
    <2>1. req' = [req EXCEPT ![r] = q] /\ (allow(Current(r)) \/ UNCHANGED breakerVars)
      BY <1>6 DEF Attempt, RequestsInv
    <2>2. /\ s \in Seq(Providers) /\ Len(s) = Len(old.sent) + 1 /\ Distinct(s)
          /\ PickedUpTo(s, old.cand, old.i)
      <3> DEFINE n == old.i - 1
      <3>0. n \in Nat /\ n + 1 = old.i /\ n + 1 <= Len(old.cand)
        BY <1>2, <1>4
      <3>1. Current(r) = old.cand[n + 1]
        BY <3>0 DEF Current
      <3> HIDE DEF n
      <3>2. PickedUpTo(old.sent, old.cand, n)
        BY <1>3 DEF n
      <3> QED BY <1>3, <1>4, <3>0, <3>1, <3>2, PickNext
    <2> HIDE DEF s
    <2>3. /\ q \in RequestType /\ q.pc = "await" /\ q.i = old.i /\ q.sent = s
          /\ q.cand = old.cand
      BY <1>1, <2>2 DEF RequestType
    <2> HIDE DEF q
    <2>4. Bound(q) = Bound(old)
      BY <2>3 DEF Bound
    <2>5. Progress(q)
      BY <1>2, <1>3, <1>4, <2>2, <2>3, <2>4 DEF Progress
    <2> QED BY <1>2, <2>1, <2>3, <2>5, OneRequest DEF BreakerNext
  <1> QED BY <1>5, <1>6

\* An attempt ends, is repaired, or is given up.
LEMMA SettleStep ==
    ASSUME RequestsInv, NEW r \in Requests, Settle(r)
    PROVE  RequestsInv' /\ [BreakerNext]_breakerVars
  <1> DEFINE old == req[r]
  <1>1. old \in RequestType /\ Progress(old)
    BY DEF RequestsInv
  <1>2. Waits(r) => /\ old.pc \in {"await", "resent"} /\ Current(r) \in Providers
                    /\ old.i \in Nat /\ old.i >= 1 /\ old.i <= Bound(old) /\ Bound(old) \in Nat
    BY <1>1, CurrentProvider, BoundRange DEF Waits, RequestType
  <1>3. ASSUME NEW m \in Marks, NextProvider(r, m)
        PROVE  RequestsInv' /\ [BreakerNext]_breakerVars
    <2> DEFINE next == old.i + 1
               mark == Greater(old.mark, m)
               q == [old EXCEPT !.pc = "loop", !.i = next, !.mark = mark]
    <2>1. Waits(r) /\ record_failure(Current(r)) /\ req' = [req EXCEPT ![r] = q]
      BY <1>3 DEF NextProvider, RequestsInv
    <2>2. mark \in Marks /\ next \in Nat /\ next = old.i + 1
      BY <1>1 DEF RequestType, Greater
    <2> HIDE DEF next, mark
    <2>3. /\ q \in RequestType /\ q.pc = "loop" /\ q.i = old.i + 1 /\ q.sent = old.sent
          /\ q.cand = old.cand
      BY <1>1, <2>2 DEF RequestType
    <2> HIDE DEF q
    <2>4. Bound(q) = Bound(old)
      BY <2>3 DEF Bound
    <2>5. q.i >= 1 /\ q.i <= Bound(q) + 1 /\ q.i - 1 = old.i
      BY <1>2, <2>1, <2>3, <2>4
    <2>6. Progress(q)
      BY <1>1, <1>2, <2>1, <2>3, <2>5 DEF Progress
    <2> QED BY <1>2, <2>1, <2>3, <2>6, OneRequest DEF BreakerNext
  <1>4. CASE AttemptFails(r)
    <2>1. {NoMark, SawConnectError, SawTimeout, LastReply} \subseteq Marks
      BY DEF NoMark, SawConnectError, SawTimeout, LastReply, Marks
    <2>2. \E m \in Marks : NextProvider(r, m)
      BY <1>4, <2>1 DEF AttemptFails, KeyFails, SendFails, StatusFails, StreamFails, BodyFails
    <2> QED BY <1>3, <2>2
  <1>5. CASE AttemptSucceeds(r) \/ PreRead(r)
    <2>1. /\ Waits(r) /\ record_success(Current(r))
          /\ req' = [req EXCEPT ![r] = Finished("served")]
      BY <1>5 DEF AttemptSucceeds, PreRead, Waits
    <2>2. "served" \in Outcomes
      BY DEF Outcomes
    <2> QED BY <1>2, <2>1, <2>2, FinishedSlot, OneRequest DEF BreakerNext
  <1>6. CASE Rectify(r)
    <2> DEFINE q == [old EXCEPT !.pc = "resent"]
    <2>1. old.pc = "await" /\ req' = [req EXCEPT ![r] = q] /\ UNCHANGED breakerVars
      BY <1>6 DEF Rectify, RequestsInv
    <2>2. /\ q \in RequestType /\ q.pc = "resent" /\ q.i = old.i /\ q.sent = old.sent
          /\ q.cand = old.cand
      BY <1>1 DEF RequestType
    <2> HIDE DEF q
    <2>3. Progress(q)
      BY <1>1, <2>1, <2>2 DEF Progress, Bound
    <2> QED BY <2>1, <2>2, <2>3, OneRequest
  <1>7. CASE BuildRejected(r)
    <2>1. "rejected" \in Outcomes
      BY DEF Outcomes
    <2> QED BY <1>7, <2>1, FinishedSlot, OneRequest DEF BuildRejected
  <1>8. CASE Disconnect(r)
    BY <1>8, IdleSlot, OneRequest DEF Disconnect
  <1> QED BY <1>4, <1>5, <1>6, <1>7, <1>8 DEF Settle

\* The end of the loop.
LEMMA ExhaustedStep ==
    ASSUME RequestsInv, NEW r \in Requests, Exhausted(r)
    PROVE  RequestsInv' /\ [BreakerNext]_breakerVars
  <1>1. req[r].mark \in Marks
    BY DEF RequestsInv, RequestType
  <1>2. TailOutcome(r) \in Outcomes
    BY <1>1 DEF TailOutcome, Marks, NoMark, SawConnectError, SawTimeout, LastReply, Outcomes
  <1> QED BY <1>2, FinishedSlot, OneRequest DEF Exhausted

\* Every step keeps the requests in order and is a step of the breaker.
LEMMA FailoverStep ==
    RequestsInv /\ [Next]_vars => RequestsInv' /\ [BreakerNext]_breakerVars
  <1> SUFFICES ASSUME RequestsInv, [Next]_vars PROVE RequestsInv' /\ [BreakerNext]_breakerVars
    OBVIOUS
  <1>1. CASE UNCHANGED vars
    BY <1>1 DEF vars, breakerVars, RequestsInv
  <1>2. CASE Clock
    BY <1>2 DEF Clock, RequestsInv, BreakerNext
  <1>3. ASSUME NEW r \in Requests, Arrive(r) \/ Handle(r) \/ Settle(r)
        PROVE  RequestsInv' /\ [BreakerNext]_breakerVars
    BY <1>3, EnterStep, LoopStep, SettleStep, ExhaustedStep DEF Handle
  <1> QED BY <1>1, <1>2, <1>3 DEF Next

\* At the start every slot is empty.
LEMMA FailoverInit == Init => RequestsInv /\ BreakerInit
  BY IdleSlot DEF Init, RequestsInv

\* One request tries no provider twice and no more of them than max_attempts allows,
\* for every chain and every answer of breaker and upstream (proxy.rs 1108, 1118, 1681).
THEOREM FailoverNoRepeatedAttempt == Spec => []NoRepeatedAttempt
  <1>1. RequestsInv => NoRepeatedAttempt
    <2> SUFFICES ASSUME RequestsInv, NEW r \in Requests
                 PROVE  Len(req[r].sent) <= Greater(MaxAttempts, 1) /\ Distinct(req[r].sent)
      BY DEF NoRepeatedAttempt, Distinct
    <2>1. req[r] \in RequestType /\ Progress(req[r])
      BY DEF RequestsInv
    <2>2. /\ Len(req[r].sent) \in Nat /\ req[r].i \in Nat
          /\ req[r].pc \in {"idle", "filter", "loop", "await", "resent"}
      BY <2>1 DEF RequestType
    <2>3. Bound(req[r]) \in Nat /\ Bound(req[r]) <= Greater(MaxAttempts, 1)
            /\ Greater(MaxAttempts, 1) \in Nat
      BY <2>1, BoundRange
    <2>4. CASE req[r].pc \in {"idle", "filter"}
      BY <2>1, <2>3, <2>4, PickNothing DEF Progress
    <2>5. CASE req[r].pc \in {"loop", "await", "resent"}
      BY <2>1, <2>2, <2>3, <2>5 DEF Progress
    <2> QED BY <2>2, <2>4, <2>5
  <1> QED BY <1>1, FailoverInit, FailoverStep, PTL DEF Spec

\* A provider inside its open window gets a new attempt only from a handler that was
\* refused every candidate or has a single one (proxy.rs 921-933, 1123, 1685).
THEOREM FailoverOpenProviderProtected == Spec => OpenProviderProtected
  <1> DEFINE Guarded ==
        \A r \in Requests, p \in Providers :
          /\ pb[p].open_until = "future"
          /\ req'[r].sent = Append(req[r].sent, p)
          => req[r].bypassed \/ Len(req[r].cand) = 1
  <1>1. RequestsInv /\ [Next]_vars => [Guarded]_vars
    <2> SUFFICES ASSUME RequestsInv, Next, NEW r \in Requests, NEW p \in Providers,
                        pb[p].open_until = "future", req'[r].sent = Append(req[r].sent, p)
                 PROVE  req[r].bypassed \/ Len(req[r].cand) = 1
      BY DEF Guarded
    <2>1. req[r].sent \in Seq(Providers) /\ Len(req[r].sent) \in Nat
      BY DEF RequestsInv, RequestType
    <2>2. req'[r].sent # req[r].sent /\ req'[r].sent # <<>>
      <3>1. Len(Append(req[r].sent, p)) = Len(req[r].sent) + 1
        BY <2>1
      <3> QED BY <3>1, <2>1
    <2>3. Attempt(r)
      <3>1. ASSUME NEW x \in Requests, Arrive(x) \/ Filter(x) \/ Skip(x) \/ Exhausted(x) \/ Settle(x)
            PROVE  req'[r].sent = req[r].sent \/ req'[r].sent = <<>>
        <4>1. CASE x # r
          BY <3>1, <4>1 DEF RequestsInv, Arrive, Filter, Skip, Exhausted, Settle, AttemptFails, KeyFails,
                SendFails, StatusFails, StreamFails, BodyFails, NextProvider, AttemptSucceeds,
                Rectify, PreRead, BuildRejected, Disconnect
        <4>2. CASE x = r
          <5>1. CASE Arrive(r)
            BY <5>1 DEF Arrive, Idle, RequestsInv
          <5>2. CASE Filter(r) \/ Skip(r)
            <6>1. req[r] \in RequestType /\ Progress(req[r])
              BY DEF RequestsInv
            <6>2. CASE Skip(r)
              BY <6>1, <6>2 DEF Skip, RequestsInv, RequestType
            <6>3. CASE Filter(r)
              <7>1. req'[r] = Filtered(req[r]) /\ req[r].pc = "filter"
                BY <6>3 DEF Filter, RequestsInv
              <7> QED BY <6>1, <7>1, FilteredSlot
            <6> QED BY <5>2, <6>2, <6>3
          <5>3. CASE Exhausted(r) \/ AttemptSucceeds(r) \/ PreRead(r) \/ BuildRejected(r) \/ Disconnect(r)
            BY <5>3 DEF Exhausted, AttemptSucceeds, PreRead, BuildRejected, Disconnect, Finished, Idle,
                  RequestsInv
          <5>4. CASE AttemptFails(r) \/ Rectify(r)
            <6>1. (\E m : NextProvider(r, m)) \/ Rectify(r)
              BY <5>4 DEF AttemptFails, KeyFails, SendFails, StatusFails, StreamFails, BodyFails
            <6> QED BY <6>1 DEF NextProvider, Rectify, RequestsInv, RequestType
          <5> QED BY <3>1, <4>2, <5>1, <5>2, <5>3, <5>4 DEF Settle
        <4> QED BY <4>1, <4>2
      <3>2. ASSUME NEW x \in Requests, Attempt(x), x # r PROVE req'[r] = req[r]
        BY <3>2 DEF Attempt, RequestsInv
      <3>3. Clock => req' = req
        BY DEF Clock
      <3> QED BY <2>2, <3>1, <3>2, <3>3 DEF Next, Handle
    <2>4. req'[r].sent = Append(req[r].sent, Current(r))
      BY <2>3 DEF Attempt, RequestsInv, RequestType
    <2>5. p = Current(r)
      <3> DEFINE s == req[r].sent
                 c == Current(r)
      <3>1. Append(s, p) = Append(s, c)
        BY <2>4
      <3> HIDE DEF s, c
      <3>2. s \in Seq(Providers)
        BY <2>1 DEF s
      <3>3. Append(s, p)[Len(s) + 1] = p /\ Append(s, c)[Len(s) + 1] = c
        BY <3>2
      <3>4. p = c
        BY <3>1, <3>3
      <3> QED BY <3>4 DEF c
    <2>6. ~CheckBreaker(r)
      BY <2>3, <2>5 DEF Attempt, Allowed
    <2>7. Len(req[r].cand) \in Nat /\ Len(req[r].cand) > 0
      BY <2>3 DEF RequestsInv, RequestType, Attempt, Progress
    <2>8. Len(req[r].cand) = 1 \/ Len(req[r].cand) > 1
      <3> DEFINE n == Len(req[r].cand)
      <3>1. n \in Nat /\ n > 0
        BY <2>7
      <3> HIDE DEF n
      <3>2. n = 1 \/ n > 1
        BY <3>1
      <3> QED BY <3>2 DEF n
    <2> QED BY <2>6, <2>8, Zenon DEF CheckBreaker
  <1>2. Init => RequestsInv
    BY FailoverInit
  <1>3. RequestsInv /\ [Next]_vars => RequestsInv'
    BY FailoverStep
  <1> QED BY <1>1, <1>2, <1>3, PTL DEF Spec, OpenProviderProtected, Guarded

\* However many handlers share the breaker and however their requests end, they only
\* ever do to it what its methods do; its invariants hold in the gateway (breaker.rs).
THEOREM FailoverBreakerSafe == Spec => []BreakerInv
  <1>1. Spec => BreakerSpec
    BY FailoverInit, FailoverStep, PTL DEF Spec, BreakerSpec
  <1> QED BY <1>1, BreakerSafe, PTL
=============================================================================
