------------------------------- MODULE Ledger -------------------------------
(***************************************************************************)
(* From a response to the usage tables: the billing of a stream            *)
(* (service/proxy.rs: wrap_stream, BillingOnDrop), the accounting          *)
(* transaction (store/usage.rs: record_usage) and the daily aggregation    *)
(* that follows it (aggregate_daily, run by the aggregator task).          *)
(*                                                                         *)
(* A stream's record is awaited inside the stream: while it runs no frame  *)
(* moves, and whoever drops the stream drops the record with it.  The      *)
(* record of a dropped stream runs as a task of its own.  A transaction    *)
(* takes its row id when it inserts and becomes visible when it commits.   *)
(***************************************************************************)
EXTENDS Integers, FiniteSets

CONSTANTS
    Requests,      \* served requests
    Streams,       \* those answered with a stream; the others are recorded in their handler
    Anonymous,     \* those without a user (auth_mode none)
    Aggregators    \* aggregator tasks, one per instance

ASSUME LedgerAssumption == /\ IsFiniteSet(Requests)
                           /\ Streams \subseteq Requests /\ Anonymous \subseteq Requests

VARIABLES
    response,     \* the response of each request
    recorded,     \* the flag `recorded` of its billing context
    record,       \* its calls of usage::record, by who awaits them
    nextId,       \* the sequence behind usage_logs.id
    usage_logs,   \* committed rows: id and request
    aggregated,   \* how often each row went into usage_daily
    watermark,    \* aggregation_state.watermark_id
    aggregator    \* the transaction of each aggregator

vars == <<response, recorded, record, nextId, usage_logs, aggregated, watermark, aggregator>>
billingVars == <<response, recorded, record, nextId, usage_logs>>
dailyVars == <<aggregated, watermark, aggregator>>

\* In the handler or stream, or in a task spawned for a dropped stream.
Awaiters == {"stream", "task"}

Ids == 1..Cardinality(Requests)

NoCall == [step |-> "none"]
Begun == [step |-> "begun"]
Inserted(i) == [step |-> "inserted", id |-> i]
Done == [step |-> "done"]
Lost == [step |-> "lost"]

Pending(c) == c.step \in {"begun", "inserted"}

\* The stream is suspended in its own record.
Suspended(r) == Pending(record[r]["stream"])

-----------------------------------------------------------------------------
(* Responses.                                                               *)

\* The stream reaches the client.
Open(r) == /\ response[r] = "none" /\ r \in Streams
           /\ response' = [response EXCEPT ![r] = "open"]
           /\ UNCHANGED <<recorded, record, nextId, usage_logs>>

\* Not a stream: the body is complete, the handler records it and then answers.
Answer(r) == /\ response[r] = "none" /\ r \notin Streams
             /\ response' = [response EXCEPT ![r] = "open"]
             /\ recorded' = [recorded EXCEPT ![r] = TRUE]
             /\ record' = [record EXCEPT ![r]["stream"] = Begun]
             /\ UNCHANGED <<nextId, usage_logs>>

MutFinishKeepsFlag(r) ==
    /\ response[r] = "open" /\ r \in Streams /\ ~Suspended(r) /\ ~recorded[r]
    /\ record' = [record EXCEPT ![r]["stream"] = Begun]
    /\ UNCHANGED <<response, recorded, nextId, usage_logs>>

\* A terminal event, or the end of the upstream: recorded unless it already was.
Finish(r) == /\ response[r] = "open" /\ r \in Streams /\ ~Suspended(r) /\ ~recorded[r]
             /\ recorded' = [recorded EXCEPT ![r] = TRUE]
             /\ record' = [record EXCEPT ![r]["stream"] = Begun]
             /\ UNCHANGED <<response, nextId, usage_logs>>

MutDropForgets(r) ==
    /\ response[r] = "open"
    /\ response' = [response EXCEPT ![r] = "closed"]
    /\ record' = [record EXCEPT ![r]["stream"] = IF Pending(@) THEN Lost ELSE @]
    /\ UNCHANGED <<recorded, nextId, usage_logs>>

\* The response is dropped: it ended, it broke, or the client left.  A record it
\* is suspended in goes with it; without one, a task records what was captured.
Drop(r) == /\ response[r] = "open"
           /\ response' = [response EXCEPT ![r] = "closed"]
           /\ recorded' = [recorded EXCEPT ![r] = TRUE]
           /\ record' = [record EXCEPT
                ![r]["stream"] = IF Pending(@) THEN Lost ELSE @,
                ![r]["task"] = IF recorded[r] THEN @ ELSE Begun]
           /\ UNCHANGED <<nextId, usage_logs>>

-----------------------------------------------------------------------------
(* record_usage                                                             *)

\* INSERT INTO usage_logs: the row has its id.
Insert(r, w) == /\ record[r][w].step = "begun"
                /\ record' = [record EXCEPT ![r][w] = Inserted(nextId)]
                /\ nextId' = nextId + 1
                /\ UNCHANGED <<response, recorded, usage_logs>>

CommitRow(r, w) == /\ record[r][w].step = "inserted"
                   /\ usage_logs' = usage_logs \cup {<<record[r][w].id, r>>}
                   /\ record' = [record EXCEPT ![r][w] = Done]
                   /\ UNCHANGED <<response, recorded, nextId>>

\* The database refuses: logged, nothing else.
RecordFails(r, w) == /\ Pending(record[r][w])
                     /\ record' = [record EXCEPT ![r][w] = Lost]
                     /\ UNCHANGED <<response, recorded, nextId, usage_logs>>

-----------------------------------------------------------------------------
(* aggregate_daily                                                          *)

AtRest == [step |-> "rest"]
Locked(w) == [step |-> "locked", from |-> w]
Ran(rows, w) == [step |-> "ran", rows |-> rows, to |-> w]

RowIds == {row[1] : row \in usage_logs}

MutHighestNoFloor(S, floor) == IF S = {} THEN -1 ELSE CHOOSE i \in S : \A j \in S : i >= j

\* COALESCE(MAX(id), floor)
Highest(S, floor) == IF S = {} THEN floor ELSE CHOOSE i \in S : \A j \in S : i >= j

MutLockWatermarkShared(a) == /\ aggregator[a].step = "rest"
                             /\ aggregator' = [aggregator EXCEPT ![a] = Locked(watermark)]
                             /\ UNCHANGED <<aggregated, watermark>>

\* SELECT watermark_id ... FOR UPDATE: one aggregator at a time.
LockWatermark(a) == /\ \A b \in Aggregators : aggregator[b].step = "rest"
                    /\ aggregator' = [aggregator EXCEPT ![a] = Locked(watermark)]
                    /\ UNCHANGED <<aggregated, watermark>>

\* One statement, one snapshot: the rows above the watermark, up to the highest.
Aggregate(a) ==
    /\ aggregator[a].step = "locked"
    /\ LET from == aggregator[a].from
           to   == Highest(RowIds, from)
           rows == {row[1] : row \in {x \in usage_logs : /\ x[1] > from /\ x[1] <= to
                                                         /\ x[2] \notin Anonymous}}
       IN  aggregator' = [aggregator EXCEPT ![a] = Ran(rows, to)]
    /\ UNCHANGED <<aggregated, watermark>>

CommitAggregate(a) ==
    /\ aggregator[a].step = "ran"
    /\ aggregated' = [i \in Ids |-> IF i \in aggregator[a].rows
                                    THEN aggregated[i] + 1 ELSE aggregated[i]]
    /\ watermark' = aggregator[a].to
    /\ aggregator' = [aggregator EXCEPT ![a] = AtRest]

\* The aggregation fails: its transaction leaves nothing behind.
AggregateFails(a) == /\ aggregator[a].step # "rest"
                     /\ aggregator' = [aggregator EXCEPT ![a] = AtRest]
                     /\ UNCHANGED <<aggregated, watermark>>

-----------------------------------------------------------------------------
\* The process dies: open responses and pending records are gone.
Restart == /\ response' = [r \in Requests |-> IF response[r] = "open" THEN "dead" ELSE response[r]]
           /\ record' = [r \in Requests |-> [w \in Awaiters |->
                            IF Pending(record[r][w]) THEN Lost ELSE record[r][w]]]
           /\ aggregator' = [a \in Aggregators |-> AtRest]
           /\ UNCHANGED <<recorded, nextId, usage_logs, aggregated, watermark>>

Init == /\ response = [r \in Requests |-> "none"]
        /\ recorded = [r \in Requests |-> FALSE]
        /\ record = [r \in Requests |-> [w \in Awaiters |-> NoCall]]
        /\ nextId = 1
        /\ usage_logs = {}
        /\ aggregated = [i \in Ids |-> 0]
        /\ watermark = 0
        /\ aggregator = [a \in Aggregators |-> AtRest]

Respond(r) == Open(r) \/ Answer(r) \/ Finish(r) \/ Drop(r)
Write(r, w) == Insert(r, w) \/ CommitRow(r, w) \/ RecordFails(r, w)
Daily(a) == LockWatermark(a) \/ Aggregate(a) \/ CommitAggregate(a) \/ AggregateFails(a)

Next == \/ \E r \in Requests : Respond(r) /\ UNCHANGED dailyVars
        \/ \E r \in Requests, w \in Awaiters : Write(r, w) /\ UNCHANGED dailyVars
        \/ \E a \in Aggregators : Daily(a) /\ UNCHANGED billingVars
        \/ Restart

Spec == Init /\ [][Next]_vars

\* The database answers: a record that is awaited comes to an end.
FairSpec == /\ Spec
            /\ \A r \in Requests, w \in Awaiters : WF_vars(Write(r, w) /\ UNCHANGED dailyVars)
-----------------------------------------------------------------------------
TypeOK == /\ response \in [Requests -> {"none", "open", "closed", "dead"}]
          /\ recorded \in [Requests -> BOOLEAN]
          /\ record \in [Requests -> [Awaiters ->
                {NoCall, Begun, Done, Lost} \cup {Inserted(i) : i \in Ids}]]
          /\ nextId \in Ids \cup {Cardinality(Requests) + 1}
          /\ usage_logs \subseteq Ids \X Requests
          /\ aggregated \in [Ids -> Nat]
          /\ watermark \in Ids \cup {0}
          /\ aggregator \in [Aggregators ->
                {AtRest} \cup [step : {"locked"}, from : Ids \cup {0}]
                         \cup [step : {"ran"}, rows : SUBSET Ids, to : Ids \cup {0}]]

Calls(r) == {w \in Awaiters : record[r][w] # NoCall}

\* A response is handed to the accounting exactly once, by the time it is over,
\* whether it ends, breaks or is abandoned at any point: the flag decides between
\* the stream and its drop, never for both, never for neither (proxy.rs 2828-2852,
\* 2915-2935).
HandedOverOnce ==
    \A r \in Requests : /\ Cardinality(Calls(r)) <= 1
                        /\ response[r] = "closed" => Cardinality(Calls(r)) = 1
                        /\ recorded[r] <=> Calls(r) # {}

\* A row enters the daily totals at most once, committed and from below the
\* watermark, with several aggregators and with rollbacks (store/usage.rs 232-276).
AggregatedOnce ==
    \A i \in Ids : /\ aggregated[i] <= 1
                   /\ aggregated[i] = 1 => i \in RowIds /\ i <= watermark

\* Every response that is over comes to its row, or its record was cut short.
ClosedIsSettled ==
    \A r \in Requests :
        response[r] = "closed" ~> \E w \in Awaiters : record[r][w] \in {Done, Lost}

\* What the comment of aggregate_daily says of the watermark (store/usage.rs
\* 234-237): it never passes a row that was not aggregated.
NothingBelowWatermarkMissed ==
    \A row \in usage_logs :
        row[2] \notin Anonymous /\ row[1] <= watermark => aggregated[row[1]] = 1
=============================================================================
