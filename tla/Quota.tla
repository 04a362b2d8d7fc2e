-------------------------------- MODULE Quota --------------------------------
(***************************************************************************)
(* The quota of one plan for one user: the check before a request, the     *)
(* accounting after it, the in-process cache between them and the database *)
(* (service/usage.rs, service/plans.rs), and the threshold alerts          *)
(* (service/notify.rs).                                                    *)
(*                                                                         *)
(* The counters in the database are exact.  The cache is moved by          *)
(* incr_plan after each commit and by a periodic reload whose query and    *)
(* whose application are apart; the check reads only the cache.  A request *)
(* is billed to the period in which it was routed, however late it ends.   *)
(***************************************************************************)
EXTENDS Integers, FiniteSets

CONSTANTS
    Requests,        \* request slots, each used again and again
    TokenLimit,      \* plan.token_limit
    OverageAction,   \* plan.overage_action
    Amounts,         \* the token totals a request can end with
    MaxPeriod,       \* bound: the last statistics period
    MaxTokens        \* bound: tokens billed to one period

ASSUME QuotaAssumption ==
    /\ TokenLimit \in Nat
    /\ OverageAction \in {"block", "downgrade", "log"}
    /\ Amounts \subseteq Nat
    /\ MaxPeriod \in Nat /\ MaxTokens \in Nat

VARIABLES
    now,          \* the current period
    counters,     \* plan_usage_counters: tokens by period
    rows,         \* the periods that have a row there
    cache,        \* the entry of UsageCache.plan_usage, or NoEntry
    snap,         \* what the running reload_from_db has read
    req,          \* the progress of each request
    seen,         \* plan_alerts_seen
    dispatching,  \* running dispatch tasks, by alert
    plan_alerts   \* the alerts on record

vars == <<now, counters, rows, cache, snap, req, seen, dispatching, plan_alerts>>

Periods == 0..MaxPeriod
Levels == {80, 95, 100}
Alerts == Periods \X Levels

NoEntry == [key |-> -1, tokens |-> 0]
NoReload == [step |-> "rest"]
ReadNothing == [step |-> "empty"]
ReadRow(p, n) == [step |-> "row", key |-> p, used |-> n]

Idle == [pc |-> "idle"]
Checked == [pc |-> "checked"]
Running(p) == [pc |-> "run", bill |-> p]
Committed(p, n) == [pc |-> "committed", bill |-> p, tokens |-> n]
Counted(p) == [pc |-> "counted", bill |-> p]

-----------------------------------------------------------------------------
(* usage.rs, notify.rs: the functions.                                      *)

\* Tokens used in period p as far as the cache knows.
get_plan(p) == IF cache.key = p THEN cache.tokens ELSE 0

\* An entry of another period is replaced by this increment.
incr_plan(p, n) == [key |-> p, tokens |-> get_plan(p) + n]

MutReloadedOnlyWhenAbsent(s) ==
    IF cache.key # -1 THEN cache ELSE [key |-> s.key, tokens |-> s.used]

\* A row of the entry's own period only ever raises it.
Reloaded(s) == IF cache.key = s.key /\ cache.tokens >= s.used
               THEN cache ELSE [key |-> s.key, tokens |-> s.used]

\* The highest threshold reached, as a set of at most one level.
crossed_level(used) ==
    IF TokenLimit <= 0 THEN {}
    ELSE IF used >= TokenLimit THEN {100}
    ELSE IF used * 100 >= 95 * TokenLimit THEN {95}
    ELSE IF used * 100 >= 80 * TokenLimit THEN {80}
    ELSE {}

prune_stale_periods(p) == {a \in seen : a[1] = p}

\* An alert that was not seen yet is marked and its dispatch started.
check_and_dispatch(used, p) ==
    LET new == {p} \X crossed_level(used)
    IN  IF new = {}
        THEN UNCHANGED <<seen, dispatching>>
        ELSE /\ seen' = prune_stale_periods(p) \cup new
             /\ dispatching' = [a \in Alerts |-> IF a \in new \ seen
                                                 THEN dispatching[a] + 1 ELSE dispatching[a]]

-----------------------------------------------------------------------------
(* Requests.                                                                *)

Over(p) == get_plan(p) >= TokenLimit

\* check_plan lets the request on: within the limit, or over it with a policy
\* that does not block (a downgrade blocks when the model is already the target).
Admit(r) == /\ req[r].pc = "idle"
            /\ Over(now) => OverageAction \in {"downgrade", "log"}
            /\ check_and_dispatch(get_plan(now), now)
            /\ req' = [req EXCEPT ![r] = Checked]
            /\ UNCHANGED <<now, counters, rows, cache, snap, plan_alerts>>

\* check_plan refuses it: 429.
Block(r) == /\ req[r].pc = "idle"
            /\ Over(now) /\ OverageAction \in {"block", "downgrade"}
            /\ check_and_dispatch(get_plan(now), now)
            /\ UNCHANGED <<now, counters, rows, cache, snap, req, plan_alerts>>

\* plan_bill: the clock is read again, the period is fixed for the accounting.
Bill(r) == /\ req[r].pc = "checked"
           /\ req' = [req EXCEPT ![r] = Running(now)]
           /\ UNCHANGED <<now, counters, rows, cache, snap, seen, dispatching, plan_alerts>>

\* record_usage commits the log row and the counters in one transaction.
Commit(r) ==
    /\ req[r].pc = "run"
    /\ \E n \in Amounts :
         /\ counters[req[r].bill] + n <= MaxTokens
         /\ counters' = [counters EXCEPT ![req[r].bill] = @ + n]
         /\ req' = [req EXCEPT ![r] = Committed(req[r].bill, n)]
    /\ rows' = rows \cup {req[r].bill}
    /\ UNCHANGED <<now, cache, snap, seen, dispatching, plan_alerts>>

\* After the commit the cache follows.
Incr(r) == /\ req[r].pc = "committed"
           /\ cache' = incr_plan(req[r].bill, req[r].tokens)
           /\ req' = [req EXCEPT ![r] = Counted(req[r].bill)]
           /\ UNCHANGED <<now, counters, rows, snap, seen, dispatching, plan_alerts>>

\* after_usage_record_with_key: alerts for the billed period.
After(r) == /\ req[r].pc = "counted"
            /\ check_and_dispatch(get_plan(req[r].bill), req[r].bill)
            /\ req' = [req EXCEPT ![r] = Idle]
            /\ UNCHANGED <<now, counters, rows, cache, snap, plan_alerts>>

\* The request ends without being recorded: it fails before the accounting, the
\* transaction fails (logged only), or the client leaves while the handler waits,
\* possibly for a commit that the database has already made.
Abandon(r) == /\ req[r].pc \in {"checked", "run", "committed"}
              /\ req' = [req EXCEPT ![r] = Idle]
              /\ UNCHANGED <<now, counters, rows, cache, snap, seen, dispatching, plan_alerts>>

-----------------------------------------------------------------------------
(* The periodic reload, the alert tasks, the clock and restarts.            *)

\* load_usage_snapshots: the row of the period that is current in the database.
LoadSnapshots == /\ snap = NoReload
                 /\ snap' = IF now \in rows THEN ReadRow(now, counters[now]) ELSE ReadNothing
                 /\ UNCHANGED <<now, counters, rows, cache, req, seen, dispatching, plan_alerts>>

ApplySnapshots == /\ snap # NoReload
                  /\ cache' = IF snap.step = "row" THEN Reloaded(snap) ELSE cache
                  /\ snap' = NoReload
                  /\ UNCHANGED <<now, counters, rows, req, seen, dispatching, plan_alerts>>

\* dispatch: on record, also when it was there already.
DispatchDone(a) ==
    /\ dispatching[a] > 0
    /\ dispatching' = [dispatching EXCEPT ![a] = @ - 1]
    /\ plan_alerts' = plan_alerts \cup {a}
    /\ UNCHANGED <<now, counters, rows, cache, snap, req, seen>>

MutDispatchFailsKeepsSeen(a) ==
    /\ dispatching[a] > 0
    /\ dispatching' = [dispatching EXCEPT ![a] = @ - 1]
    /\ UNCHANGED <<now, counters, rows, cache, snap, req, seen, plan_alerts>>

\* dispatch fails: the mark is taken back so that a later check tries again.
DispatchFails(a) ==
    /\ dispatching[a] > 0
    /\ dispatching' = [dispatching EXCEPT ![a] = @ - 1]
    /\ seen' = seen \ {a}
    /\ UNCHANGED <<now, counters, rows, cache, snap, req, plan_alerts>>

Tick == /\ now < MaxPeriod
        /\ now' = now + 1
        /\ UNCHANGED <<counters, rows, cache, snap, req, seen, dispatching, plan_alerts>>

\* The process is restarted: only the database survives.
Restart == /\ cache' = NoEntry
           /\ snap' = NoReload
           /\ req' = [r \in Requests |-> Idle]
           /\ seen' = {}
           /\ dispatching' = [a \in Alerts |-> 0]
           /\ UNCHANGED <<now, counters, rows, plan_alerts>>

Init == /\ now = 0
        /\ counters = [p \in Periods |-> 0]
        /\ rows = {}
        /\ cache = NoEntry
        /\ snap = NoReload
        /\ req = [r \in Requests |-> Idle]
        /\ seen = {}
        /\ dispatching = [a \in Alerts |-> 0]
        /\ plan_alerts = {}

Proceed(r) == Commit(r) \/ Incr(r) \/ After(r) \/ Bill(r) \/ Abandon(r)

Next == \/ \E r \in Requests : Admit(r) \/ Block(r) \/ Proceed(r)
        \/ LoadSnapshots \/ ApplySnapshots
        \/ \E a \in Alerts : DispatchDone(a) \/ DispatchFails(a)
        \/ Tick \/ Restart

Spec == Init /\ [][Next]_vars

\* Requests end, tasks run, and the periodic task keeps reloading.
FairSpec == /\ Spec
            /\ \A r \in Requests : WF_vars(Proceed(r))
            /\ \A a \in Alerts : WF_vars(DispatchDone(a) \/ DispatchFails(a))
            /\ WF_vars(LoadSnapshots) /\ WF_vars(ApplySnapshots)
-----------------------------------------------------------------------------
RequestType ==
    {Idle, Checked} \cup {Running(p) : p \in Periods} \cup {Counted(p) : p \in Periods}
        \cup {Committed(p, n) : p \in Periods, n \in Amounts}

TypeOK == /\ now \in Periods
          /\ counters \in [Periods -> Nat]
          /\ rows \subseteq Periods
          /\ cache \in [key : Periods \cup {-1}, tokens : Nat]
          /\ snap \in {NoReload, ReadNothing} \cup [step : {"row"}, key : Periods, used : Nat]
          /\ req \in [Requests -> RequestType]
          /\ seen \subseteq Alerts
          /\ dispatching \in [Alerts -> Nat]
          /\ plan_alerts \subseteq Alerts

\* An alert that is marked as seen is on record or on its way there: no failed,
\* overtaken or repeated dispatch silences a level for the rest of its period
\* (notify.rs 66-81).
AlertNotSilenced == \A a \in seen : a \in plan_alerts \/ dispatching[a] > 0

\* A used-up quota is noticed: while the period lasts and the process stays up,
\* the check comes to see it and never loses sight of it again, however late
\* requests of earlier periods, abandoned requests and reloads interleave
\* (usage.rs 41-58, plans.rs 44-47).
UsedUpIsNoticed ==
    <>[][~Tick /\ ~Restart]_vars =>
        <>[](counters[now] >= TokenLimit => Over(now))

\* What the doc comments of get_plan (usage.rs 20) and check_plan (plans.rs 26)
\* say: what the check compares with the limit is what was used in the period,
\* so that only a used-up quota blocks.
BlockedOnlyWhenUsedUp ==
    [][\A r \in Requests : Block(r) => counters[now] >= TokenLimit]_vars
=============================================================================
