---------------------------- MODULE LedgerProofs ----------------------------
(***************************************************************************)
(* Accounting and aggregation, for every set of requests and aggregators.  *)
(*                                                                         *)
(* Two arguments.  The flag `recorded` is up exactly when a call of        *)
(* usage::record was made, and it goes up together with the call, so there *)
(* is never a second one (OneCall); hence no more ids are drawn than there *)
(* are requests (IdsLast).  The watermark's row lock lets one aggregator   *)
(* run, so what it read of the watermark is still true when it commits,    *)
(* and what it adds lies above it (Window).                                *)
(***************************************************************************)
EXTENDS Ledger, FiniteSetTheorems, WellFoundedInduction, TLAPS

\* The flag and the calls of one request.
OneCall ==
    \A r \in Requests :
        /\ recorded[r] <=> \E w \in Awaiters : record[r][w] # NoCall
        /\ record[r]["stream"] = NoCall \/ record[r]["task"] = NoCall
        /\ response[r] = "closed" => recorded[r]
        /\ response[r] = "none" => ~recorded[r]

\* The requests that have not drawn an id.
Unwritten == {r \in Requests : \A w \in Awaiters : record[r][w].step \in {"none", "begun"}}

IdsLast == nextId + Cardinality(Unwritten) <= Cardinality(Requests) + 1

\* What a transaction of the aggregation has seen lies between the watermark and
\* the highest row, and nobody moves the watermark under it.
Window ==
    /\ watermark \in RowIds \cup {0}
    /\ \A a, b \in Aggregators : a # b => aggregator[a] = AtRest \/ aggregator[b] = AtRest
    /\ \A a \in Aggregators :
        /\ aggregator[a].step = "locked" => aggregator[a].from = watermark
        /\ aggregator[a].step = "ran" =>
                /\ aggregator[a].to \in RowIds \cup {0}
                /\ aggregator[a].to >= watermark
                /\ \A i \in aggregator[a].rows :
                        i \in RowIds /\ i > watermark /\ i <= aggregator[a].to

IInv == TypeOK /\ OneCall /\ IdsLast /\ Window /\ AggregatedOnce

-----------------------------------------------------------------------------
(* Calls, ids and maxima.                                                   *)

CallType == {NoCall, Begun, Done, Lost} \cup {Inserted(i) : i \in Ids}

\* The states of a call are told apart by their step.
LEMMA CallSteps ==
    /\ \A c \in CallType :
        /\ c.step \in {"none", "begun", "inserted", "done", "lost"}
        /\ c.step = "none" <=> c = NoCall
        /\ c.step = "inserted" => c.id \in Ids
        /\ Pending(c) <=> c.step \in {"begun", "inserted"}
    /\ NoCall.step = "none" /\ Begun.step = "begun" /\ Done.step = "done" /\ Lost.step = "lost"
    /\ \A i \in Ids : Inserted(i) \in CallType /\ Inserted(i).step = "inserted"
    /\ {NoCall, Begun, Done, Lost} \subseteq CallType
  <1> USE DEF CallType, NoCall, Begun, Done, Lost, Inserted, Pending
  <1>1. ASSUME NEW c \in CallType
        PROVE  /\ c.step \in {"none", "begun", "inserted", "done", "lost"}
               /\ c.step = "none" <=> c = NoCall
               /\ c.step = "inserted" => c.id \in Ids
    <2>1. CASE c \in {NoCall, Begun, Done, Lost}
      BY <2>1
    <2>2. ASSUME NEW i \in Ids, c = Inserted(i) PROVE c.step = "inserted" /\ c.id \in Ids /\ c # NoCall
      BY <2>2
    <2> QED BY <2>1, <2>2
  <1>2. /\ NoCall.step = "none" /\ Begun.step = "begun" /\ Done.step = "done" /\ Lost.step = "lost"
        /\ \A i \in Ids : Inserted(i) \in CallType /\ Inserted(i).step = "inserted"
        /\ {NoCall, Begun, Done, Lost} \subseteq CallType
    OBVIOUS
  <1> QED BY <1>1, <1>2

\* There are as many ids as requests.
LEMMA IdsType == Cardinality(Requests) \in Nat /\ Ids = 1..Cardinality(Requests) /\ IsFiniteSet(Ids)
  BY LedgerAssumption, FS_CardinalityType, FS_Interval DEF Ids

\* A non-empty set of ids has a highest one.
LEMMA HighestId ==
    ASSUME NEW S \in SUBSET Ids, S # {}
    PROVE  \E i \in S : \A j \in S : i >= j
  <1> DEFINE n == Cardinality(Requests)
             T == {k \in Nat : n - k \in S}
  <1>1. n \in Nat /\ \A i \in S : i \in Nat /\ i <= n
    BY IdsType
  <1>2. T \subseteq Nat /\ \A i \in S : n - i \in T
    <2> SUFFICES ASSUME NEW i \in S PROVE n - i \in Nat /\ n - (n - i) = i
      OBVIOUS
    <2> QED BY <1>1
  <1>3. T # {}
    BY <1>2
  <1> HIDE DEF n
  <1>4. \E x \in T : \A y \in T : ~(<<y, x>> \in OpToRel(<, Nat))
    BY <1>2, <1>3, NatLessThanWellFounded, WFMin
  <1>5. ASSUME NEW x \in Nat, NEW y \in Nat, y < x PROVE <<y, x>> \in OpToRel(<, Nat)
    BY <1>5, Zenon DEF OpToRel
  <1>6. PICK x \in T : \A y \in T : ~(<<y, x>> \in OpToRel(<, Nat))
    BY <1>4
  <1>7. \A y \in T : ~(y < x)
    BY <1>2, <1>5, <1>6
  <1>8. n - x \in S /\ x \in Nat
    BY <1>6
  <1>9. \A j \in S : n - j \in T /\ n - j \in Nat /\ ~(n - j < x)
    BY <1>2, <1>7
  <1>10. \A j \in S : n - x >= j
    BY <1>1, <1>8, <1>9
  <1> QED BY <1>8, <1>10

\* COALESCE(MAX(id), floor), for a set of ids.
LEMMA HighestOf ==
    ASSUME NEW S \in SUBSET Ids, NEW floor
    PROVE  /\ S = {} => Highest(S, floor) = floor
           /\ S # {} => Highest(S, floor) \in S /\ \A j \in S : Highest(S, floor) >= j
  BY HighestId DEF Highest

-----------------------------------------------------------------------------
(* Responses and their records.                                             *)

BillingType == /\ response \in [Requests -> {"none", "open", "closed", "dead"}]
               /\ recorded \in [Requests -> BOOLEAN]
               /\ record \in [Requests -> [Awaiters -> CallType]]
               /\ nextId \in Ids \cup {Cardinality(Requests) + 1}
               /\ usage_logs \subseteq Ids \X Requests

DailyType == /\ aggregated \in [Ids -> Nat]
             /\ watermark \in Ids \cup {0}
             /\ aggregator \in [Aggregators ->
                    {AtRest} \cup [step : {"locked"}, from : Ids \cup {0}]
                             \cup [step : {"ran"}, rows : SUBSET Ids, to : Ids \cup {0}]]

\* The type of the state is that of the billing and that of the daily aggregation.
LEMMA TypeParts == TypeOK <=> BillingType /\ DailyType
  BY DEF TypeOK, BillingType, DailyType, CallType

\* The set of requests without an id can be counted.
LEMMA UnwrittenCount ==
    /\ IsFiniteSet(Unwritten) /\ Cardinality(Unwritten) \in Nat
    /\ IsFiniteSet(Unwritten') /\ Cardinality(Unwritten') \in Nat
  <1>1. Unwritten \subseteq Requests /\ Unwritten' \subseteq Requests
    BY DEF Unwritten
  <1>2. IsFiniteSet(Unwritten) /\ IsFiniteSet(Unwritten')
    BY <1>1, LedgerAssumption, FS_Subset
  <1> QED BY <1>2, FS_CardinalityType

\* A step that draws no id and moves calls forward only.
LEMMA NoIdDrawn ==
    ASSUME IdsLast, BillingType, nextId' = nextId, Unwritten' \subseteq Unwritten
    PROVE  IdsLast'
  <1>1. Cardinality(Unwritten') <= Cardinality(Unwritten)
    BY UnwrittenCount, FS_Subset
  <1>2. nextId \in Nat
    BY IdsType DEF BillingType
  <1> QED BY <1>1, <1>2, UnwrittenCount, IdsType DEF IdsLast

\* The response and its billing flag: open, answer, finish, drop.
LEMMA RespondStep ==
    ASSUME BillingType, OneCall, IdsLast, NEW r \in Requests, Respond(r)
    PROVE  BillingType' /\ OneCall' /\ IdsLast' /\ usage_logs' = usage_logs
  <1> USE DEF Awaiters
  <1>1. CASE Open(r)
    <2>1. BillingType' /\ OneCall' /\ usage_logs' = usage_logs
      BY <1>1 DEF Open, BillingType, OneCall
    <2>2. Unwritten' = Unwritten /\ nextId' = nextId
      BY <1>1 DEF Open, Unwritten
    <2> QED BY <2>1, <2>2, NoIdDrawn
  <1>2. CASE Answer(r) \/ Finish(r)
    <2>0. /\ recorded' = [recorded EXCEPT ![r] = TRUE]
          /\ record' = [record EXCEPT ![r]["stream"] = Begun]
          /\ nextId' = nextId /\ usage_logs' = usage_logs
          /\ ~recorded[r]
          /\ response'[r] = "open"
          /\ response' \in [Requests -> {"none", "open", "closed", "dead"}]
          /\ \A x \in Requests : x # r => response'[x] = response[x]
      BY <1>2 DEF Answer, Finish, OneCall, BillingType
    <2>1. /\ record' \in [Requests -> [Awaiters -> CallType]]
          /\ \A x \in Requests, w \in Awaiters :
                record'[x][w] = IF x = r /\ w = "stream" THEN Begun ELSE record[x][w]
      BY <2>0, CallSteps DEF BillingType
    <2>2. record[r]["task"] = NoCall
      BY <2>0 DEF OneCall
    <2>3. Begun # NoCall /\ Begun.step = "begun"
      BY CallSteps DEF Begun, NoCall
    <2>4. BillingType'
      BY <2>0, <2>1 DEF BillingType
    <2>5. OneCall'
      <3> SUFFICES ASSUME NEW x \in Requests
                   PROVE  /\ recorded'[x] <=> \E w \in Awaiters : record'[x][w] # NoCall
                          /\ record'[x]["stream"] = NoCall \/ record'[x]["task"] = NoCall
                          /\ response'[x] = "closed" => recorded'[x]
                          /\ response'[x] = "none" => ~recorded'[x]
        BY DEF OneCall
      <3>1. CASE x = r
        BY <3>1, <2>0, <2>1, <2>2, <2>3 DEF BillingType
      <3>2. CASE x # r
        BY <3>2, <2>0, <2>1 DEF OneCall, BillingType
      <3> QED BY <3>1, <3>2
    <2>6. Unwritten' \subseteq Unwritten
      BY <2>0, <2>1, <2>2, CallSteps DEF Unwritten, BillingType, OneCall
    <2> QED BY <2>0, <2>4, <2>5, <2>6, NoIdDrawn
  <1>3. CASE Drop(r)
    <2> DEFINE s == IF Pending(record[r]["stream"]) THEN Lost ELSE record[r]["stream"]
               t == IF recorded[r] THEN record[r]["task"] ELSE Begun
    <2>0. /\ response' = [response EXCEPT ![r] = "closed"]
          /\ recorded' = [recorded EXCEPT ![r] = TRUE]
          /\ record' = [record EXCEPT ![r]["stream"] = s, ![r]["task"] = t]
          /\ nextId' = nextId /\ usage_logs' = usage_logs
      BY <1>3 DEF Drop
    <2>1. /\ s \in CallType /\ t \in CallType
          /\ s = NoCall <=> record[r]["stream"] = NoCall
          /\ recorded[r] => t = record[r]["task"]
          /\ ~recorded[r] => t # NoCall /\ s = NoCall
      BY CallSteps DEF BillingType, OneCall, Lost, NoCall, Begun
    <2> HIDE DEF s, t
    <2>2. /\ record' \in [Requests -> [Awaiters -> CallType]]
          /\ \A x \in Requests, w \in Awaiters :
                record'[x][w] = IF x # r THEN record[x][w] ELSE IF w = "stream" THEN s ELSE t
      BY <2>0, <2>1 DEF BillingType
    <2>4. BillingType'
      BY <2>0, <2>2 DEF BillingType
    <2>5. OneCall'
      <3> SUFFICES ASSUME NEW x \in Requests
                   PROVE  /\ recorded'[x] <=> \E w \in Awaiters : record'[x][w] # NoCall
                          /\ record'[x]["stream"] = NoCall \/ record'[x]["task"] = NoCall
                          /\ response'[x] = "closed" => recorded'[x]
                          /\ response'[x] = "none" => ~recorded'[x]
        BY DEF OneCall
      <3>1. CASE x = r
        BY <3>1, <2>0, <2>1, <2>2 DEF BillingType, OneCall
      <3>2. CASE x # r
        BY <3>2, <2>0, <2>2 DEF OneCall, BillingType
      <3> QED BY <3>1, <3>2
    <2>6. Unwritten' \subseteq Unwritten
      <3>1. r \in Unwritten' => record[r]["stream"].step \in {"none", "begun"}
        BY <2>2, CallSteps DEF Unwritten, BillingType, s
      <3>2. r \in Unwritten' => record[r]["task"].step \in {"none", "begun"}
        BY <2>2, CallSteps DEF Unwritten, BillingType, t, OneCall
      <3> QED BY <3>1, <3>2, <2>2 DEF Unwritten
    <2> QED BY <2>0, <2>4, <2>5, <2>6, NoIdDrawn
  <1> QED BY <1>1, <1>2, <1>3 DEF Respond

\* The accounting transaction: it draws an id for a request that has none, and its
\* row appears with the commit.
LEMMA WriteStep ==
    ASSUME BillingType, OneCall, IdsLast, NEW r \in Requests, NEW w \in Awaiters, Write(r, w)
    PROVE  BillingType' /\ OneCall' /\ IdsLast' /\ usage_logs \subseteq usage_logs'
  <1> DEFINE moved(c) == record' = [record EXCEPT ![r][w] = c]
  <1>0. record[r][w] \in CallType /\ record[r][w] # NoCall
    BY CallSteps DEF BillingType, Write, Insert, CommitRow, RecordFails
  <1>1. ASSUME NEW c \in CallType, c # NoCall, moved(c), response' = response, recorded' = recorded
        PROVE  /\ record' \in [Requests -> [Awaiters -> CallType]]
               /\ \A x \in Requests, v \in Awaiters :
                    record'[x][v] = IF x = r /\ v = w THEN c ELSE record[x][v]
               /\ OneCall'
    <2>1. /\ record' \in [Requests -> [Awaiters -> CallType]]
          /\ \A x \in Requests, v \in Awaiters :
                record'[x][v] = IF x = r /\ v = w THEN c ELSE record[x][v]
      BY <1>1 DEF BillingType
    <2>2. \A x \in Requests, v \in Awaiters : record'[x][v] = NoCall <=> record[x][v] = NoCall
      BY <1>0, <1>1, <2>1
    <2> QED BY <1>1, <2>1, <2>2 DEF OneCall, Awaiters
  <1>2. CASE Insert(r, w)
    <2>1. nextId \in Nat /\ Cardinality(Requests) \in Nat
      BY IdsType DEF BillingType
    <2>2. r \in Unwritten
      BY <1>2, CallSteps DEF Insert, Unwritten, OneCall, BillingType, Awaiters
    <2>3. Cardinality(Unwritten \ {r}) = Cardinality(Unwritten) - 1 /\ Cardinality(Unwritten) > 0
      <3>1. Cardinality(Unwritten \ {r}) = Cardinality(Unwritten) - 1
        BY <2>2, UnwrittenCount, FS_RemoveElement
      <3>2. IsFiniteSet(Unwritten \ {r})
        BY UnwrittenCount, FS_RemoveElement
      <3>3. Cardinality(Unwritten \ {r}) \in Nat
        BY <3>2, FS_CardinalityType
      <3> QED BY <3>1, <3>3, UnwrittenCount
    <2>4. nextId \in Ids /\ nextId + 1 \in Ids \cup {Cardinality(Requests) + 1}
      <3>1. nextId <= Cardinality(Requests)
        BY <2>1, <2>3, UnwrittenCount DEF IdsLast
      <3> QED BY <2>1, <3>1, IdsType DEF BillingType
    <2> DEFINE c == Inserted(nextId)
    <2>5. c \in CallType /\ c.step = "inserted" /\ c # NoCall
      BY <2>4, CallSteps
    <2>6. moved(c) /\ response' = response /\ recorded' = recorded /\ usage_logs' = usage_logs
            /\ nextId' = nextId + 1
      BY <1>2 DEF Insert
    <2> HIDE DEF c
    <2>7. BillingType' /\ OneCall'
      BY <1>1, <2>4, <2>5, <2>6 DEF BillingType
    <2>8. Unwritten' = Unwritten \ {r}
      <3>1. \A x \in Requests, v \in Awaiters :
                record'[x][v] = IF x = r /\ v = w THEN c ELSE record[x][v]
        BY <1>1, <2>5, <2>6
      <3>2. r \notin Unwritten'
        BY <3>1, <2>5 DEF Unwritten
      <3> QED BY <3>1, <3>2 DEF Unwritten
    <2>9. IdsLast'
      BY <2>1, <2>3, <2>6, <2>8, UnwrittenCount DEF IdsLast
    <2> QED BY <2>6, <2>7, <2>9
  <1>3. CASE CommitRow(r, w)
    <2>1. record[r][w].id \in Ids
      BY <1>0, <1>3, CallSteps DEF CommitRow
    <2>2. /\ moved(Done) /\ response' = response /\ recorded' = recorded /\ nextId' = nextId
          /\ usage_logs' = usage_logs \cup {<<record[r][w].id, r>>}
      BY <1>3 DEF CommitRow
    <2>3. Done \in CallType /\ Done # NoCall /\ Done.step = "done"
      BY CallSteps
    <2>4. BillingType' /\ OneCall'
      <3>1. record' \in [Requests -> [Awaiters -> CallType]] /\ OneCall'
        BY <1>1, <2>2, <2>3
      <3>2. usage_logs' \subseteq Ids \X Requests
        BY <2>1, <2>2 DEF BillingType
      <3> QED BY <3>1, <3>2, <2>2 DEF BillingType
    <2>5. Unwritten' \subseteq Unwritten
      BY <1>1, <2>2, <2>3 DEF Unwritten
    <2> QED BY <2>2, <2>4, <2>5, NoIdDrawn
  <1>4. CASE RecordFails(r, w)
    <2>2. /\ moved(Lost) /\ response' = response /\ recorded' = recorded /\ nextId' = nextId
          /\ usage_logs' = usage_logs
      BY <1>4 DEF RecordFails
    <2>3. Lost \in CallType /\ Lost # NoCall /\ Lost.step = "lost"
      BY CallSteps
    <2>4. BillingType' /\ OneCall'
      BY <1>1, <2>2, <2>3 DEF BillingType
    <2>5. Unwritten' \subseteq Unwritten
      BY <1>1, <2>2, <2>3 DEF Unwritten
    <2> QED BY <2>2, <2>4, <2>5, NoIdDrawn
  <1> QED BY <1>2, <1>3, <1>4 DEF Write

-----------------------------------------------------------------------------
(* The aggregation.                                                         *)

\* The states of an aggregator.
LEMMA AggregatorSteps ==
    ASSUME DailyType, NEW a \in Aggregators
    PROVE  /\ aggregator[a].step \in {"rest", "locked", "ran"}
           /\ aggregator[a].step = "rest" <=> aggregator[a] = AtRest
           /\ aggregator[a].step = "locked" => aggregator[a].from \in Ids \cup {0}
           /\ aggregator[a].step = "ran" => /\ aggregator[a].rows \subseteq Ids
                                            /\ aggregator[a].to \in Ids \cup {0}
  BY DEF DailyType, AtRest

\* New rows do not disturb what was aggregated or what a transaction has read.
LEMMA RowsAppear ==
    ASSUME Window, AggregatedOnce, usage_logs \subseteq usage_logs', UNCHANGED dailyVars
    PROVE  Window' /\ AggregatedOnce'
  <1>1. RowIds \subseteq RowIds'
    BY DEF RowIds
  <1> QED BY <1>1 DEF Window, AggregatedOnce, dailyVars

\* The row lock: whoever takes it finds the others at rest.
LEMMA LockStep ==
    ASSUME DailyType, Window, AggregatedOnce, NEW a \in Aggregators, LockWatermark(a),
           UNCHANGED billingVars
    PROVE  DailyType' /\ Window' /\ AggregatedOnce'
  <1>1. /\ aggregator' = [aggregator EXCEPT ![a] = Locked(watermark)]
        /\ aggregated' = aggregated /\ watermark' = watermark /\ usage_logs' = usage_logs
        /\ \A b \in Aggregators : aggregator[b] = AtRest
    BY AggregatorSteps DEF LockWatermark, billingVars
  <1>2. /\ Locked(watermark) \in [step : {"locked"}, from : Ids \cup {0}]
        /\ Locked(watermark).step = "locked" /\ Locked(watermark).from = watermark
    BY DEF Locked, DailyType
  <1>3. DailyType'
    BY <1>1, <1>2 DEF DailyType
  <1>4. \A b \in Aggregators :
            aggregator'[b] = IF b = a THEN Locked(watermark) ELSE AtRest
    BY <1>1 DEF DailyType
  <1>5. AtRest.step = "rest"
    BY DEF AtRest
  <1>6. RowIds' = RowIds
    BY <1>1 DEF RowIds
  <1> QED BY <1>1, <1>2, <1>3, <1>4, <1>5, <1>6 DEF Window, AggregatedOnce

\* One statement reads the rows between the watermark and the highest one.
LEMMA AggregateStep ==
    ASSUME BillingType, DailyType, Window, AggregatedOnce, NEW a \in Aggregators, Aggregate(a),
           UNCHANGED billingVars
    PROVE  DailyType' /\ Window' /\ AggregatedOnce'
  <1> DEFINE to == Highest(RowIds, watermark)
             rows == {row[1] : row \in {x \in usage_logs : /\ x[1] > watermark /\ x[1] <= to
                                                           /\ x[2] \notin Anonymous}}
  <1>1. aggregator[a].from = watermark /\ aggregator[a] # AtRest
    BY AggregatorSteps DEF Aggregate, Window, AtRest
  <1>2. /\ aggregator' = [aggregator EXCEPT ![a] = Ran(rows, to)]
        /\ aggregated' = aggregated /\ watermark' = watermark /\ usage_logs' = usage_logs
    BY <1>1 DEF Aggregate, billingVars
  <1>3. RowIds \in SUBSET Ids
    BY DEF RowIds, BillingType
  <1>4. /\ to \in RowIds \cup {0} /\ to \in Ids \cup {0}
        /\ to >= watermark
    <2>1. watermark \in Int /\ watermark >= watermark
      BY IdsType DEF DailyType
    <2>2. CASE RowIds = {}
      BY <2>1, <2>2, <1>3, HighestOf DEF Window, DailyType
    <2>3. CASE RowIds # {}
      <3>1. to \in RowIds /\ \A j \in RowIds : to >= j
        BY <2>3, <1>3, HighestOf
      <3>2. to \in Ids
        BY <3>1, <1>3
      <3>3. \A i \in Ids : i >= 0
        BY IdsType
      <3> QED BY <3>1, <3>2, <3>3 DEF Window
    <2> QED BY <2>2, <2>3
  <1>5. /\ rows \subseteq Ids
        /\ \A i \in rows : i \in RowIds /\ i > watermark /\ i <= to
    BY <1>3 DEF RowIds
  <1> HIDE DEF to, rows
  <1>6. /\ Ran(rows, to) \in [step : {"ran"}, rows : SUBSET Ids, to : Ids \cup {0}]
        /\ Ran(rows, to).step = "ran" /\ Ran(rows, to).rows = rows /\ Ran(rows, to).to = to
    BY <1>4, <1>5 DEF Ran
  <1>7. DailyType'
    BY <1>2, <1>6 DEF DailyType
  <1>8. \A b \in Aggregators : aggregator'[b] = IF b = a THEN Ran(rows, to) ELSE aggregator[b]
    BY <1>2 DEF DailyType
  <1>9. \A b \in Aggregators : b # a => aggregator[b] = AtRest
    BY <1>1 DEF Window
  <1>10. AtRest.step = "rest"
    BY DEF AtRest
  <1>11. RowIds' = RowIds
    BY <1>2 DEF RowIds
  <1>12. Window'
    BY <1>2, <1>4, <1>5, <1>6, <1>8, <1>9, <1>10, <1>11 DEF Window
  <1> QED BY <1>2, <1>7, <1>11, <1>12 DEF AggregatedOnce

\* The commit adds rows from above the watermark only, and moves it over them.
LEMMA CommitStep ==
    ASSUME BillingType, DailyType, Window, AggregatedOnce, NEW a \in Aggregators,
           CommitAggregate(a), UNCHANGED billingVars
    PROVE  DailyType' /\ Window' /\ AggregatedOnce'
  <1> DEFINE rows == aggregator[a].rows
             to == aggregator[a].to
  <1>1. /\ rows \subseteq Ids /\ to \in Ids \cup {0} /\ to \in RowIds \cup {0} /\ to >= watermark
        /\ \A i \in rows : i \in RowIds /\ i > watermark /\ i <= to
        /\ aggregator[a] # AtRest
    BY AggregatorSteps DEF CommitAggregate, Window, AtRest
  <1>2. /\ aggregated' = [i \in Ids |-> IF i \in rows THEN aggregated[i] + 1 ELSE aggregated[i]]
        /\ watermark' = to /\ aggregator' = [aggregator EXCEPT ![a] = AtRest]
        /\ usage_logs' = usage_logs
    BY DEF CommitAggregate, billingVars
  <1> HIDE DEF rows, to
  <1>3. DailyType'
    BY <1>1, <1>2 DEF DailyType
  <1>4. RowIds' = RowIds
    BY <1>2 DEF RowIds
  <1>5. \A b \in Aggregators : aggregator'[b] = AtRest
    BY <1>1, <1>2 DEF DailyType, Window
  <1>6. Window'
    BY <1>1, <1>2, <1>4, <1>5 DEF Window, AtRest
  <1>7. AggregatedOnce'
    <2> SUFFICES ASSUME NEW i \in Ids
                 PROVE  /\ aggregated'[i] <= 1
                        /\ aggregated'[i] = 1 => i \in RowIds /\ i <= to
      BY <1>2, <1>4 DEF AggregatedOnce
    <2>1. i \in Int /\ watermark \in Int /\ to \in Int /\ aggregated[i] \in Nat
      BY <1>1, IdsType DEF DailyType
    <2>2. CASE i \in rows
      <3>1. aggregated[i] # 1
        BY <2>1, <2>2, <1>1 DEF AggregatedOnce
      <3>2. aggregated[i] = 0
        BY <2>1, <3>1 DEF AggregatedOnce
      <3> QED BY <1>1, <1>2, <2>2, <3>2
    <2>3. CASE i \notin rows
      BY <1>1, <1>2, <2>1, <2>3 DEF AggregatedOnce
    <2> QED BY <2>2, <2>3
  <1> QED BY <1>3, <1>6, <1>7

\* A transaction that fails leaves nothing behind.
LEMMA FailStep ==
    ASSUME DailyType, Window, AggregatedOnce, NEW a \in Aggregators, AggregateFails(a),
           UNCHANGED billingVars
    PROVE  DailyType' /\ Window' /\ AggregatedOnce'
  <1>1. /\ aggregator' = [aggregator EXCEPT ![a] = AtRest] /\ aggregated' = aggregated
        /\ watermark' = watermark /\ usage_logs' = usage_logs
    BY DEF AggregateFails, billingVars
  <1>2. DailyType'
    BY <1>1 DEF DailyType
  <1>3. \A b \in Aggregators : aggregator'[b] = IF b = a THEN AtRest ELSE aggregator[b]
    BY <1>1 DEF DailyType
  <1>4. RowIds' = RowIds
    BY <1>1 DEF RowIds
  <1> QED BY <1>1, <1>2, <1>3, <1>4 DEF Window, AggregatedOnce, AtRest

\* After a restart nobody aggregates and no call is pending; the tables stay.
LEMMA RestartStep ==
    ASSUME IInv, Restart
    PROVE  IInv'
  <1>1. BillingType /\ DailyType
    BY TypeParts DEF IInv
  <1>2. \A r \in Requests, w \in Awaiters :
            /\ record'[r][w] = IF Pending(record[r][w]) THEN Lost ELSE record[r][w]
            /\ record'[r][w] \in CallType
            /\ record'[r][w] = NoCall <=> record[r][w] = NoCall
    BY <1>1, CallSteps DEF Restart, BillingType
  <1>3. BillingType'
    BY <1>1, <1>2 DEF Restart, BillingType
  <1>4. DailyType'
    BY <1>1 DEF Restart, DailyType
  <1>5. OneCall'
    BY <1>1, <1>2 DEF IInv, OneCall, Restart, BillingType, Awaiters
  <1>6. Unwritten' \subseteq Unwritten
    BY <1>1, <1>2, CallSteps DEF Unwritten, BillingType
  <1>7. IdsLast'
    BY <1>1, <1>6, NoIdDrawn DEF IInv, Restart
  <1>8. RowIds' = RowIds
    BY DEF RowIds, Restart
  <1>9. \A a \in Aggregators : aggregator'[a] = AtRest
    BY DEF Restart
  <1>10. Window' /\ AggregatedOnce'
    BY <1>8, <1>9 DEF IInv, Window, AggregatedOnce, Restart, AtRest
  <1> QED BY <1>3, <1>4, <1>5, <1>7, <1>10, TypeParts DEF IInv, TypeOK, BillingType, DailyType, CallType

-----------------------------------------------------------------------------
(* The invariant.                                                           *)

\* At the start nothing is recorded and nothing aggregated.
LEMMA IInvInit == Init => IInv
  <1> SUFFICES ASSUME Init PROVE IInv
    OBVIOUS
  <1>1. BillingType
    BY CallSteps, IdsType DEF Init, BillingType
  <1>2. DailyType
    BY DEF Init, DailyType
  <1>3. OneCall
    BY DEF Init, OneCall, Awaiters
  <1>4. Unwritten = Requests
    BY CallSteps DEF Init, Unwritten
  <1>5. IdsLast
    BY <1>4, IdsType DEF Init, IdsLast
  <1>6. Window /\ AggregatedOnce
    BY DEF Init, Window, AggregatedOnce, AtRest
  <1> QED BY <1>1, <1>2, <1>3, <1>5, <1>6, TypeParts DEF IInv

\* Every step keeps it.
LEMMA IInvStep == IInv /\ [Next]_vars => IInv'
  <1> SUFFICES ASSUME IInv, [Next]_vars PROVE IInv'
    OBVIOUS
  <1>0. BillingType /\ DailyType
    BY TypeParts DEF IInv
  <1>1. (BillingType' /\ DailyType') => TypeOK'
    BY DEF TypeOK, BillingType, DailyType, CallType
  <1>2. ASSUME NEW r \in Requests, Respond(r), UNCHANGED dailyVars PROVE IInv'
    <2>1. BillingType' /\ OneCall' /\ IdsLast' /\ usage_logs \subseteq usage_logs'
      BY <1>0, <1>2, RespondStep DEF IInv
    <2>2. DailyType'
      BY <1>0, <1>2 DEF dailyVars, DailyType
    <2>3. Window' /\ AggregatedOnce'
      BY <1>2, <2>1, RowsAppear DEF IInv
    <2> QED BY <1>1, <2>1, <2>2, <2>3 DEF IInv
  <1>3. ASSUME NEW r \in Requests, NEW w \in Awaiters, Write(r, w), UNCHANGED dailyVars PROVE IInv'
    <2>1. BillingType' /\ OneCall' /\ IdsLast' /\ usage_logs \subseteq usage_logs'
      BY <1>0, <1>3, WriteStep DEF IInv
    <2>2. DailyType'
      BY <1>0, <1>3 DEF dailyVars, DailyType
    <2>3. Window' /\ AggregatedOnce'
      BY <1>3, <2>1, RowsAppear DEF IInv
    <2> QED BY <1>1, <2>1, <2>2, <2>3 DEF IInv
  <1>4. ASSUME NEW a \in Aggregators, Daily(a), UNCHANGED billingVars PROVE IInv'
    <2>1. DailyType' /\ Window' /\ AggregatedOnce'
      BY <1>0, <1>4, LockStep, AggregateStep, CommitStep, FailStep DEF IInv, Daily
    <2>2. BillingType' /\ OneCall' /\ IdsLast'
      BY <1>0, <1>4 DEF IInv, billingVars, BillingType, OneCall, IdsLast, Unwritten
    <2> QED BY <1>1, <2>1, <2>2 DEF IInv
  <1>5. CASE Restart
    BY <1>5, RestartStep
  <1>6. CASE UNCHANGED vars
    BY <1>6 DEF IInv, vars, TypeOK, OneCall, IdsLast, Unwritten, Window, AggregatedOnce, RowIds
  <1> QED BY <1>2, <1>3, <1>4, <1>5, <1>6 DEF Next

\* The invariant holds in every reachable state.
LEMMA Inductive == Spec => []IInv
  BY IInvInit, IInvStep, PTL DEF Spec

\* The types hold for any number of requests; above all, no more ids are drawn
\* than there are requests (store/usage.rs: record_usage).
THEOREM LedgerTypes == Spec => []TypeOK
  <1>1. IInv => TypeOK
    BY DEF IInv
  <1> QED BY <1>1, Inductive, PTL

\* Every response is handed to the accounting exactly once by the time it is over,
\* for any number of streams, drops and restarts (proxy.rs 2828-2852, 2915-2935).
THEOREM LedgerHandedOverOnce == Spec => []HandedOverOnce
  <1>1. IInv => HandedOverOnce
    <2> SUFFICES ASSUME IInv, NEW r \in Requests
                 PROVE  /\ Cardinality(Calls(r)) <= 1
                        /\ response[r] = "closed" => Cardinality(Calls(r)) = 1
                        /\ recorded[r] <=> Calls(r) # {}
      BY DEF HandedOverOnce
    <2>1. Calls(r) = {} \/ \E w \in Awaiters : Calls(r) = {w}
      BY DEF IInv, OneCall, Calls, Awaiters
    <2>2. /\ Cardinality({}) = 0 /\ \A w : Cardinality({w}) = 1
      BY FS_EmptySet, FS_Singleton
    <2>3. recorded[r] <=> Calls(r) # {}
      BY DEF IInv, OneCall, Calls
    <2>4. response[r] = "closed" => recorded[r]
      BY DEF IInv, OneCall
    <2>5. CASE Calls(r) = {}
      BY <2>2, <2>3, <2>4, <2>5
    <2>6. ASSUME NEW w \in Awaiters, Calls(r) = {w} PROVE Cardinality(Calls(r)) = 1
      BY <2>2, <2>6
    <2>7. Cardinality(Calls(r)) <= 1
      BY <2>1, <2>2, <2>6
    <2> QED BY <2>1, <2>3, <2>4, <2>6, <2>7
  <1> QED BY <1>1, Inductive, PTL

\* A row enters the daily totals at most once, for any number of aggregators, of
\* failures and of restarts (store/usage.rs 232-276).
THEOREM LedgerAggregatedOnce == Spec => []AggregatedOnce
  <1>1. IInv => AggregatedOnce
    BY DEF IInv
  <1> QED BY <1>1, Inductive, PTL
=============================================================================
