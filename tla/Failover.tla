------------------------------ MODULE Failover ------------------------------
(***************************************************************************)
(* The candidate loop of service/proxy.rs (proxy_authed from the breaker   *)
(* filter on), run by concurrent requests that share the breaker.          *)
(*                                                                         *)
(* A request enters with its chain: the enabled, permitted, dialect-       *)
(* compatible providers in route order.  It asks the breaker about every   *)
(* candidate, one lock acquisition each, then walks the granted ones.  The *)
(* upstream and the client are the environment: an attempt ends in any way *)
(* the code tells apart, and the client may leave while it waits.          *)
(***************************************************************************)
EXTENDS Breaker, Sequences, FiniteSets

CONSTANTS
    Requests,      \* request slots, each used again and again
    Streaming,     \* the slots whose requests ask for a stream
    Chains,        \* the candidate chains routing can produce
    MaxAttempts,   \* cfg.max_attempts
    RectifyEnabled,\* cfg.rectify_enabled
    Repairable     \* the slots whose requests hold what rectify_outbound can take
                   \* out or raise: images, thinking blocks, a thinking budget

ASSUME FailoverAssumption ==
    /\ Streaming \subseteq Requests /\ Repairable \subseteq Requests
    /\ MaxAttempts \in Nat
    /\ RectifyEnabled \in BOOLEAN
    /\ \A c \in Chains : /\ c \in Seq(Providers) /\ Len(c) > 0
                         /\ \A i, j \in 1..Len(c) : c[i] = c[j] => i = j

VARIABLE req    \* the progress of each request slot

vars == <<states, pb, req>>

\* What the failed attempts left for the end of the loop, weakest first: nothing,
\* saw_connect_error, saw_timeout, an upstream error to pass on (last_failure /
\* last_response).  The end of the loop looks for the strongest.
Marks == 0..3
NoMark == 0
SawConnectError == 1
SawTimeout == 2
LastReply == 3

Outcomes == {"none", "served", "reply", "timeout", "bad_gateway", "exhausted", "rejected"}

Idle == [pc |-> "idle", chain |-> <<>>, cand |-> <<>>, i |-> 0, bypassed |-> FALSE,
         sent |-> <<>>, mark |-> NoMark, outcome |-> "none"]

Finished(outcome) == [Idle EXCEPT !.outcome = outcome]

Lesser(m, n) == IF m <= n THEN m ELSE n
Greater(m, n) == IF m >= n THEN m ELSE n

\* max_attempts: the granted candidates, capped by the configuration, at least one
AttemptBound(r) == Lesser(Len(req[r].cand), Greater(MaxAttempts, 1))

MutCheckBreakerNever(r) == FALSE

\* check_breaker
CheckBreaker(r) == ~req[r].bypassed /\ Len(req[r].cand) > 1

Current(r) == req[r].cand[req[r].i]

-----------------------------------------------------------------------------
\* Routing found a non-empty chain.  The slot's previous request is over.
Arrive(r) ==
    /\ req[r].pc = "idle"
    /\ \E c \in Chains :
         req' = [req EXCEPT ![r] = [Idle EXCEPT !.pc = "filter", !.chain = c, !.i = 1]]
    /\ UNCHANGED breakerVars

MutBypass(granted, chain) == [list |-> granted, bypassed |-> FALSE]

\* filter_candidates returned None: fall back to the full set.
Bypass(granted, chain) ==
    IF granted = <<>> THEN [list |-> chain, bypassed |-> TRUE]
                      ELSE [list |-> granted, bypassed |-> FALSE]

\* The breaker's answer about the next element of the chain, and after the last one
\* the decision between the granted subset and the whole chain.
Filtered(q) ==
    LET p       == q.chain[q.i]
        granted == IF Allowed(pb[p]) THEN Append(q.cand, p) ELSE q.cand
        chosen  == Bypass(granted, q.chain)
    IN  IF q.i < Len(q.chain)
        THEN [q EXCEPT !.cand = granted, !.i = q.i + 1]
        ELSE [q EXCEPT !.pc = "loop", !.i = 1, !.cand = chosen.list,
                       !.bypassed = chosen.bypassed]

\* One element of filter_candidates.
Filter(r) ==
    /\ req[r].pc = "filter"
    /\ allow(req[r].chain[req[r].i])
    /\ req' = [req EXCEPT ![r] = Filtered(req[r])]

\* The loop asks the breaker again and is refused: on to the next candidate.
Skip(r) ==
    /\ req[r].pc = "loop" /\ req[r].i <= AttemptBound(r)
    /\ CheckBreaker(r) /\ ~Allowed(pb[Current(r)])
    /\ allow(Current(r))
    /\ req' = [req EXCEPT ![r].i = @ + 1]

\* The candidate is tried; the request now waits for it.
Attempt(r) ==
    /\ req[r].pc = "loop" /\ req[r].i <= AttemptBound(r)
    /\ IF CheckBreaker(r)
       THEN Allowed(pb[Current(r)]) /\ allow(Current(r))
       ELSE UNCHANGED breakerVars
    /\ req' = [req EXCEPT ![r].pc = "await", ![r].sent = Append(@, Current(r))]

\* The handler waits for the upstream: for its first answer, or, "resent", for
\* the answer to the repaired request.
Waits(r) == req[r].pc \in {"await", "resent"}

MutNextProvider(r, m) ==
    /\ Waits(r)
    /\ record_failure(Current(r))
    /\ req' = [req EXCEPT ![r].pc = "loop", ![r].mark = Greater(@, m)]

\* A failed attempt: the breaker is told, and the loop goes on with its mark.
NextProvider(r, m) ==
    /\ Waits(r)
    /\ record_failure(Current(r))
    /\ req' = [req EXCEPT ![r].pc = "loop", ![r].i = @ + 1, ![r].mark = Greater(@, m)]

\* The provider's key does not decrypt; nothing is sent.
KeyFails(r) == req[r].pc = "await" /\ NextProvider(r, NoMark)

\* send_upstream: no connection, or no header in time.  Only the streaming loop
\* keeps which of the two it was.
SendFails(r) == \E m \in IF r \in Streaming THEN {SawTimeout, SawConnectError} ELSE {NoMark} :
                    NextProvider(r, m)

\* A retryable status; its body is kept for the end of the loop.
StatusFails(r) == NextProvider(r, LastReply)

\* The stream dies, or reports an error, before its first productive event.
StreamFails(r) == r \in Streaming /\ NextProvider(r, LastReply)

\* The body of a plain answer cannot be read to its end.
BodyFails(r) == r \notin Streaming /\ NextProvider(r, NoMark)

AttemptFails(r) == \/ KeyFails(r) \/ SendFails(r) \/ StatusFails(r)
                   \/ StreamFails(r) \/ BodyFails(r)

\* A non-retryable answer, a complete body, or a stream that became productive.
AttemptSucceeds(r) ==
    /\ Waits(r)
    /\ record_success(Current(r))
    /\ req' = [req EXCEPT ![r] = Finished("served")]

\* rectify_outbound has something to repair in the request, given the right error.
rectify_outbound(r) == r \in Repairable

\* send_with_rectify: the provider refuses the request with a status and a text
\* that a repair may cure, and the repaired request goes to the same provider,
\* once and without another question to the breaker.
Rectify(r) ==
    /\ RectifyEnabled /\ rectify_outbound(r) /\ req[r].pc = "await"
    /\ req' = [req EXCEPT ![r].pc = "resent"]
    /\ UNCHANGED breakerVars

\* The same refusal without a repair (SentOutcome::PreRead) is the answer; the
\* provider is alive.  After a resend a refusal is an answer like any other.
PreRead(r) ==
    /\ RectifyEnabled /\ req[r].pc = "await"
    /\ record_success(Current(r))
    /\ req' = [req EXCEPT ![r] = Finished("served")]

\* build_outbound refuses the request for this candidate: the handler returns,
\* nothing is reported to the breaker.
BuildRejected(r) ==
    /\ req[r].pc = "await"
    /\ req' = [req EXCEPT ![r] = Finished("rejected")]
    /\ UNCHANGED breakerVars

\* The client disconnects: the handler's future is dropped where it waits.
Disconnect(r) ==
    /\ Waits(r)
    /\ req' = [req EXCEPT ![r] = Idle]
    /\ UNCHANGED breakerVars

\* All candidates failed or were skipped: pass the last upstream error on, else
\* 504, 502 or 503.
TailOutcome(r) == CASE req[r].mark = LastReply       -> "reply"
                    [] req[r].mark = SawTimeout      -> "timeout"
                    [] req[r].mark = SawConnectError -> "bad_gateway"
                    [] req[r].mark = NoMark          -> "exhausted"

Exhausted(r) ==
    /\ req[r].pc = "loop" /\ req[r].i > AttemptBound(r)
    /\ req' = [req EXCEPT ![r] = Finished(TailOutcome(r))]
    /\ UNCHANGED breakerVars

Clock == /\ \E p \in Providers : OpenElapses(p) \/ WindowElapses(p)
         /\ UNCHANGED req

\* What the handler does by itself once its request is in.
Handle(r) == Filter(r) \/ Skip(r) \/ Attempt(r) \/ Exhausted(r)

\* How a wait ends.
Settle(r) == \/ AttemptFails(r) \/ AttemptSucceeds(r) \/ Rectify(r) \/ PreRead(r)
             \/ BuildRejected(r) \/ Disconnect(r)

Init == BreakerInit /\ req = [r \in Requests |-> Idle]

Next == \/ \E r \in Requests : Arrive(r) \/ Handle(r) \/ Settle(r)
        \/ Clock

Spec == Init /\ [][Next]_vars

\* Handlers run, waits end (every await of an attempt has a deadline: the header
\* timeout, the first-byte and idle timeouts, the client timeout) and time passes.
Fairness == /\ \A r \in Requests : WF_vars(Handle(r)) /\ WF_vars(Settle(r))
            /\ \A p \in Providers : /\ WF_vars(OpenElapses(p) /\ UNCHANGED req)
                                    /\ WF_vars(WindowElapses(p) /\ UNCHANGED req)

FairSpec == Spec /\ Fairness

\* A service under load: clients keep coming.
LoadedSpec == FairSpec /\ \A r \in Requests : WF_vars(Arrive(r))
-----------------------------------------------------------------------------
RequestType ==
    [pc : {"idle", "filter", "loop", "await", "resent"}, chain : Seq(Providers),
     cand : Seq(Providers), i : Nat, bypassed : BOOLEAN, sent : Seq(Providers),
     mark : Marks, outcome : Outcomes]

TypeOK == BreakerTypeOK /\ req \in [Requests -> RequestType]

\* One request never tries the same provider twice and never more providers than
\* max_attempts allows, whatever the breaker answered meanwhile and however the
\* attempts ended: the loop only moves forward (proxy.rs 1108, 1118, 1681).  The
\* repaired request of Rectify belongs to the attempt it repairs.
NoRepeatedAttempt ==
    \A r \in Requests :
        /\ Len(req[r].sent) <= Greater(MaxAttempts, 1)
        /\ \A i, j \in 1..Len(req[r].sent) : req[r].sent[i] = req[r].sent[j] => i = j

\* A provider inside its open window gets a new attempt only from a handler that
\* was refused every candidate, or was left with a single one (proxy.rs 921-933,
\* 1123, 1685); a trip between a handler's filter and its turn is noticed.
OpenProviderProtected ==
    [][\A r \in Requests, p \in Providers :
          /\ pb[p].open_until = "future"
          /\ req'[r].sent = Append(req[r].sent, p)
          => req[r].bypassed \/ Len(req[r].cand) = 1]_vars

Setback == \E r \in Requests : AttemptFails(r) \/ BuildRejected(r) \/ Disconnect(r)

\* Once upstreams answer and clients stay, every client is answered by one again
\* and again: no combination of open windows and taken slots left behind by the bad
\* times locks the service up (the fall-back of proxy.rs 924-930).
NoPermanentOutage ==
    <>[][~Setback]_vars => \A r \in Requests : []<>(req[r].outcome = "served")

\* What the comments of proxy.rs 921-923 and breaker.rs 6-7 promise of the
\* fall-back: a request is not failed by the breaker alone, without one attempt.
FailedOnlyAfterAttempt ==
    \A r \in Requests :
        req[r].pc = "loop" /\ req[r].i > AttemptBound(r) => req[r].sent # <<>>
=============================================================================
