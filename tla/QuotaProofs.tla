----------------------------- MODULE QuotaProofs -----------------------------
(***************************************************************************)
(* The threshold alerts of the quota, for every limit, every set of        *)
(* requests and any number of periods.                                     *)
(*                                                                         *)
(* A mark in `seen` and the dispatch it stands for are made in one step    *)
(* (Dispatched), and a dispatch that ends without a record takes the mark  *)
(* with it, also when several dispatches of one alert overlap.             *)
(***************************************************************************)
EXTENDS Quota, TLAPS

IInv == TypeOK /\ AlertNotSilenced

requestParts == <<now, counters, rows, cache, snap, req>>

AlertTypes == seen \subseteq Alerts /\ dispatching \in [Alerts -> Nat] /\ plan_alerts \subseteq Alerts

\* crossed_level names at most one of the levels.
LEMMA LevelsCrossed == ASSUME NEW used PROVE crossed_level(used) \subseteq Levels
  BY DEF crossed_level, Levels

\* What the cache answers is a number.
LEMMA CachedTokens == ASSUME TypeOK, NEW p PROVE get_plan(p) \in Nat
  BY DEF TypeOK, get_plan

\* check_and_dispatch: every mark it sets comes with a dispatch.
LEMMA Dispatched ==
    ASSUME AlertTypes, AlertNotSilenced, NEW used, NEW p \in Periods,
           check_and_dispatch(used, p), UNCHANGED plan_alerts
    PROVE  AlertTypes' /\ AlertNotSilenced'
  <1> DEFINE new == {p} \X crossed_level(used)
  <1>1. new \subseteq Alerts
    BY LevelsCrossed DEF Alerts
  <1>2. CASE new = {}
    BY <1>2 DEF check_and_dispatch, AlertTypes, AlertNotSilenced
  <1>3. CASE new # {}
    <2>1. /\ seen' = prune_stale_periods(p) \cup new
          /\ dispatching' = [a \in Alerts |-> IF a \in new \ seen
                                              THEN dispatching[a] + 1 ELSE dispatching[a]]
      BY <1>3 DEF check_and_dispatch
    <2> HIDE DEF new
    <2>2. prune_stale_periods(p) \subseteq seen
      BY DEF prune_stale_periods
    <2>3. AlertTypes'
      BY <1>1, <2>1, <2>2 DEF AlertTypes
    <2>4. ASSUME NEW a \in seen' PROVE a \in plan_alerts \/ dispatching'[a] > 0
      <3>1. a \in Alerts /\ dispatching[a] \in Nat
        BY <2>3, <2>4 DEF AlertTypes
      <3>2. CASE a \in seen
        BY <3>1, <3>2, <2>1 DEF AlertNotSilenced
      <3>3. CASE a \notin seen
        BY <3>1, <3>3, <2>1, <2>2
      <3> QED BY <3>2, <3>3
    <2> QED BY <2>3, <2>4 DEF AlertNotSilenced
  <1> QED BY <1>2, <1>3

\* The steps of a request that move no alert.
LEMMA QuietStep ==
    ASSUME IInv, NEW r \in Requests, Commit(r) \/ Incr(r) \/ Bill(r) \/ Abandon(r)
    PROVE  IInv'
  <1>1. UNCHANGED <<seen, dispatching, plan_alerts>>
    BY DEF Commit, Incr, Bill, Abandon
  <1>2. AlertNotSilenced'
    BY <1>1 DEF IInv, AlertNotSilenced
  <1>3. TypeOK
    BY DEF IInv
  <1>4. req[r] \in RequestType
    BY <1>3 DEF TypeOK
  <1>5. /\ req[r].pc \in {"run", "committed"} => req[r].bill \in Periods
        /\ req[r].pc = "committed" => req[r].tokens \in Amounts
    BY <1>4 DEF RequestType, Idle, Checked, Running, Counted, Committed
  <1>6. CASE Commit(r)
    <2>1. PICK n \in Amounts :
            /\ counters' = [counters EXCEPT ![req[r].bill] = @ + n]
            /\ req' = [req EXCEPT ![r] = Committed(req[r].bill, n)]
      BY <1>6 DEF Commit
    <2>2. req[r].bill \in Periods
      BY <1>5, <1>6 DEF Commit
    <2>3. counters' \in [Periods -> Nat]
      BY <1>3, <2>1, <2>2, QuotaAssumption DEF TypeOK
    <2>4. Committed(req[r].bill, n) \in RequestType
      BY <2>2 DEF RequestType
    <2>5. req' \in [Requests -> RequestType]
      BY <1>3, <2>1, <2>4 DEF TypeOK
    <2>6. /\ rows' \subseteq Periods /\ now' = now /\ cache' = cache /\ snap' = snap
      BY <1>3, <1>6, <2>2 DEF Commit, TypeOK
    <2> QED BY <1>1, <1>2, <1>3, <2>3, <2>5, <2>6 DEF IInv, TypeOK
  <1>7. CASE Incr(r)
    <2>1. req[r].bill \in Periods /\ req[r].tokens \in Nat
      BY <1>5, <1>7, QuotaAssumption DEF Incr
    <2>2. cache' \in [key : Periods \cup {-1}, tokens : Nat]
      BY <1>3, <1>7, <2>1, CachedTokens DEF Incr, incr_plan
    <2>3. Counted(req[r].bill) \in RequestType
      BY <2>1 DEF RequestType
    <2> QED BY <1>1, <1>2, <1>3, <1>7, <2>2, <2>3 DEF IInv, TypeOK, Incr
  <1>8. CASE Bill(r)
    <2>1. Running(now) \in RequestType
      BY <1>3 DEF RequestType, TypeOK
    <2> QED BY <1>1, <1>2, <1>3, <1>8, <2>1 DEF IInv, TypeOK, Bill
  <1>9. CASE Abandon(r)
    <2>1. Idle \in RequestType
      BY DEF RequestType
    <2> QED BY <1>1, <1>2, <1>3, <1>9, <2>1 DEF IInv, TypeOK, Abandon
  <1> QED BY <1>6, <1>7, <1>8, <1>9

\* The steps of a request that look at the thresholds.
LEMMA AlertingStep ==
    ASSUME IInv, NEW r \in Requests, Admit(r) \/ Block(r) \/ After(r)
    PROVE  IInv'
  <1>1. TypeOK /\ AlertTypes /\ AlertNotSilenced
    BY DEF IInv, TypeOK, AlertTypes
  <1>2. \E p \in Periods : check_and_dispatch(get_plan(p), p)
    <2>1. CASE Admit(r) \/ Block(r)
      BY <1>1, <2>1 DEF Admit, Block, TypeOK
    <2>2. CASE After(r)
      <3>1. req[r] \in RequestType /\ req[r].pc = "counted"
        BY <1>1, <2>2 DEF TypeOK, After
      <3>2. req[r].bill \in Periods
        BY <3>1 DEF RequestType, Idle, Checked, Running, Counted, Committed
      <3> QED BY <2>2, <3>2 DEF After
    <2> QED BY <2>1, <2>2
  <1>3. UNCHANGED <<now, counters, rows, cache, snap, plan_alerts>>
    BY DEF Admit, Block, After
  <1>4. AlertTypes' /\ AlertNotSilenced'
    BY <1>1, <1>2, <1>3, Dispatched
  <1>5. req' \in [Requests -> RequestType]
    <2>1. {Idle, Checked} \subseteq RequestType
      BY DEF RequestType
    <2> QED BY <1>1, <2>1 DEF TypeOK, Admit, Block, After
  <1> QED BY <1>1, <1>3, <1>4, <1>5 DEF IInv, TypeOK, AlertTypes

\* The periodic reload, the clock and restarts.
LEMMA TaskStep ==
    ASSUME IInv, LoadSnapshots \/ ApplySnapshots \/ Tick \/ Restart
    PROVE  IInv'
  <1>1. TypeOK /\ AlertNotSilenced
    BY DEF IInv
  <1>2. CASE LoadSnapshots
    <2>1. snap' \in {NoReload, ReadNothing} \cup [step : {"row"}, key : Periods, used : Nat]
      BY <1>1, <1>2 DEF LoadSnapshots, TypeOK, ReadRow
    <2> QED BY <1>1, <1>2, <2>1 DEF LoadSnapshots, IInv, TypeOK, AlertNotSilenced
  <1>3. CASE ApplySnapshots
    <2>1. snap.step = "row" => snap.key \in Periods /\ snap.used \in Nat
      BY <1>1 DEF TypeOK, NoReload, ReadNothing
    <2>2. cache' \in [key : Periods \cup {-1}, tokens : Nat]
      BY <1>1, <1>3, <2>1 DEF ApplySnapshots, TypeOK, Reloaded
    <2> QED BY <1>1, <1>3, <2>2 DEF ApplySnapshots, IInv, TypeOK, AlertNotSilenced
  <1>4. CASE Tick
    <2>1. now' \in Periods
      BY <1>1, <1>4, QuotaAssumption DEF Tick, TypeOK, Periods
    <2> QED BY <1>1, <1>4, <2>1 DEF Tick, IInv, TypeOK, AlertNotSilenced
  <1>5. CASE Restart
    <2>1. Idle \in RequestType /\ NoEntry \in [key : Periods \cup {-1}, tokens : Nat]
      BY DEF RequestType, NoEntry
    <2> QED BY <1>1, <1>5, <2>1 DEF Restart, IInv, TypeOK, AlertNotSilenced
  <1> QED BY <1>2, <1>3, <1>4, <1>5

\* A dispatch ends: on record, or without its mark.
LEMMA DispatchStep ==
    ASSUME IInv, NEW a \in Alerts, DispatchDone(a) \/ DispatchFails(a)
    PROVE  IInv'
  <1>1. TypeOK /\ AlertNotSilenced /\ dispatching[a] \in Nat /\ dispatching[a] > 0
    BY DEF IInv, TypeOK, DispatchDone, DispatchFails
  <1>2. /\ dispatching' = [dispatching EXCEPT ![a] = dispatching[a] - 1]
        /\ UNCHANGED requestParts
    BY DEF DispatchDone, DispatchFails, requestParts
  <1>3. /\ dispatching' \in [Alerts -> Nat]
        /\ \A b \in Alerts : b # a => dispatching'[b] = dispatching[b]
    BY <1>1, <1>2 DEF TypeOK
  <1>4. seen' \subseteq Alerts /\ plan_alerts' \subseteq Alerts
    BY <1>1 DEF TypeOK, DispatchDone, DispatchFails
  <1>5. seen' \subseteq seen /\ plan_alerts \subseteq plan_alerts' /\ (a \in plan_alerts' \/ a \notin seen')
    BY DEF DispatchDone, DispatchFails
  <1>6. AlertNotSilenced'
    BY <1>1, <1>3, <1>4, <1>5 DEF AlertNotSilenced
  <1> QED BY <1>1, <1>2, <1>3, <1>4, <1>6 DEF IInv, TypeOK, requestParts

\* At the start nothing is marked.
LEMMA IInvInit == Init => IInv
  BY QuotaAssumption DEF Init, IInv, TypeOK, AlertNotSilenced, Periods, NoEntry, RequestType

\* Every step keeps the invariant.
LEMMA IInvStep == IInv /\ [Next]_vars => IInv'
  <1> SUFFICES ASSUME IInv, [Next]_vars PROVE IInv'
    OBVIOUS
  <1>1. CASE UNCHANGED vars
    BY <1>1 DEF vars, IInv, TypeOK, AlertNotSilenced
  <1> QED BY <1>1, QuietStep, AlertingStep, TaskStep, DispatchStep DEF Next, Proceed

\* The types hold for every limit and any number of periods.
THEOREM QuotaTypes == Spec => []TypeOK
  <1>1. IInv => TypeOK
    BY DEF IInv
  <1> QED BY <1>1, IInvInit, IInvStep, PTL DEF Spec

\* No alert is silenced: what is marked as seen is on record or on its way there,
\* whatever failed, overtook or repeated it (notify.rs 66-81).
THEOREM QuotaAlertNotSilenced == Spec => []AlertNotSilenced
  <1>1. IInv => AlertNotSilenced
    BY DEF IInv
  <1> QED BY <1>1, IInvInit, IInvStep, PTL DEF Spec
=============================================================================
