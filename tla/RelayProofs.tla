----------------------------- MODULE RelayProofs -----------------------------
(***************************************************************************)
(* What holds of Relay whatever the upstreams send, in how many reads, from  *)
(* how many candidates, and whatever the sizes of the history: a request is *)
(* billed once, a ping never falls into a line, and the history keeps and   *)
(* hands out the earlier answer as its capacity promises; a converted       *)
(* stream has one end, and that does not claim more than the upstream sent. *)
(***************************************************************************)
EXTENDS Relay, FiniteSetTheorems, SequenceTheorems, TLAPS

-----------------------------------------------------------------------------
(* Billing.                                                                 *)

(* `recorded` is the bill; who finishes has billed; before the commit nobody has. *)
BillInv ==
    /\ finished \in BOOLEAN /\ recorded \in BOOLEAN
    /\ bills = IF recorded THEN 1 ELSE 0
    /\ finished => recorded
    /\ client = "reading" /\ phase \in {"building", "priming"} => ~recorded
    /\ client = "ended" \/ phase = "refused" \/ (client = "gone" /\ phase = "relaying") => recorded

\* Whoever calls it, and whether or not somebody billed before: afterwards there is one bill.
LEMMA BillOnceBills ==
    ASSUME BillInv, BillOnce PROVE recorded' = TRUE /\ bills' = 1
  <1>1. CASE recorded = TRUE
    BY <1>1 DEF BillOnce, BillInv
  <1>2. CASE recorded = FALSE
    BY <1>2 DEF BillOnce, BillInv
  <1> QED BY <1>1, <1>2 DEF BillInv

\* Finishing bills.
LEMMA FinishBills ==
    ASSUME BillInv, NEW s, NEW tee, FinishOnce(s, tee)
    PROVE  finished' = TRUE /\ recorded' = TRUE /\ bills' = 1
  BY BillOnceBills DEF FinishOnce

\* Converted bytes leave the bill alone or finish.
LEMMA ConversionBills ==
    ASSUME BillInv, NEW b, ConvertBytes(b)
    PROVE  \/ UNCHANGED <<finished, recorded, bills>>
           \/ finished' = TRUE /\ recorded' = TRUE /\ bills' = 1
  <1> DEFINE s == FoldLeft(ProcessChunk, conv, ChunksOf(b.frames))
  <1> HIDE DEF s
  <1>1. CASE proto = "chat"
    <2>1. FinishOnce(conv, FALSE) \/ UNCHANGED billVars
      BY <1>1 DEF ConvertBytes, PassThrough
    <2> QED BY <2>1, FinishBills DEF billVars
  <1>2. CASE proto # "chat"
    <2>1. AfterChunks(s, b.done)
      BY <1>2 DEF ConvertBytes, s
    <2>2. FinishOnce(Finalize(s, FALSE), TRUE) \/ UNCHANGED billVars
      BY <2>1 DEF AfterChunks, End
    <2> QED BY <2>2, FinishBills DEF billVars
  <1> QED BY <1>1, <1>2

\* Every step of the relay keeps the bill right.
LEMMA BillStep ==
    ASSUME BillInv, [RelayNext]_vars PROVE BillInv'
  <1> USE DEF BillInv
  <1>1. CASE \E b \in Links[link].batches : Arrive(b)
    BY <1>1 DEF Arrive, billVars
  <1>2. CASE \E end \in {Eof, Err} : Close(end)
    BY <1>2 DEF Close, billVars
  <1>3. CASE Build
    BY <1>3 DEF Build
  <1>4. CASE OtherRecords \/ \E id \in 1..others : OtherRestores(id)
    BY <1>4 DEF OtherRecords, OtherRestores, historyFrame
  <1>5. CASE Expire
    BY <1>5 DEF Expire, billVars
  <1>6. CASE \E b \in Links[link].batches : b.frames # <<>> /\ WholeBody(b.frames[1].chunk)
    BY <1>6, BillOnceBills DEF WholeBody, Live
  <1>7. CASE PrimeFails
    <2>1. recorded = FALSE /\ finished = FALSE /\ bills = 0 /\ client = "reading"
      BY <1>7 DEF PrimeFails, Live
    <2>2. CASE phase' = "building" /\ UNCHANGED <<recorded, bills, finished, client>>
      BY <2>1, <2>2
    <2>3. CASE phase' = "refused" /\ recorded' = TRUE /\ bills' = bills + 1
                /\ UNCHANGED <<finished, client>>
      BY <2>1, <2>3
    <2> QED BY <1>7, <2>2, <2>3 DEF PrimeFails, NextCandidate, AllFailed
  <1>8. CASE PrimeBytes
    BY <1>8 DEF PrimeBytes, billVars, Live
  <1>9. CASE PrimeWhole
    BY <1>9, BillOnceBills DEF PrimeWhole
  <1>10. CASE RelayReplayed
    <2>1. UNCHANGED <<phase, client>> /\ ConvertBytes(Head(buffered)) /\ phase = "relaying"
            /\ client = "reading"
      BY <1>10 DEF RelayReplayed, Live
    <2> QED BY <2>1, ConversionBills
  <1>11. CASE RelayBytes
    <2>1. UNCHANGED <<phase, client>> /\ ConvertBytes(ready) /\ phase = "relaying"
            /\ client = "reading"
      BY <1>11 DEF RelayBytes, Live
    <2> QED BY <2>1, ConversionBills
  <1>12. CASE RelayError
    <2>1. ConvertError /\ client = "reading" /\ phase = "relaying" /\ phase' = phase
      BY <1>12 DEF RelayError, Live
    <2>2. CASE BillOnce /\ client' = "ended" /\ UNCHANGED finished
      BY <2>1, <2>2, BillOnceBills
    <2>3. CASE UNCHANGED billVars /\ UNCHANGED client
      BY <2>1, <2>3 DEF billVars
    <2>4. CASE FinishOnce(TransportError(conv), FALSE) /\ UNCHANGED client
      BY <2>1, <2>4, FinishBills
    <2> QED BY <2>1, <2>2, <2>3, <2>4 DEF ConvertError, End
  <1>13. CASE RelayTail
    <2>1. client' = "ended" /\ phase = "relaying" /\ phase' = phase
      BY <1>13 DEF RelayTail
    <2>2. CASE finished /\ UNCHANGED billVars
      BY <2>1, <2>2 DEF billVars
    <2>3. CASE FinishOnce(Finalize(conv, TRUE), TRUE)
      BY <2>1, <2>3, FinishBills
    <2> QED BY <1>13, <2>2, <2>3 DEF RelayTail, End
  <1>14. CASE Ping
    BY <1>14 DEF Ping, billVars
  <1>15. CASE Leave
    BY <1>15, BillOnceBills DEF Leave, Live
  <1>16. CASE UNCHANGED vars
    BY <1>16 DEF vars, billVars
  <1> QED BY <1>1, <1>2, <1>3, <1>4, <1>5, <1>6, <1>7, <1>8, <1>9, <1>10, <1>11, <1>12, <1>13,
             <1>14, <1>15, <1>16 DEF RelayNext

\* A request that was answered is billed, and once, however the end of its stream, a broken
\* connection, an expired window and a client that leaves fall together (proxy.rs: the
\* `recorded` flag of the stream wrappers, BillingOnDrop, and the fail-over's last failure).
THEOREM RelayBilledOnce == RelaySpec => []BilledOnce
  <1>1. RelayInit => BillInv
    BY DEF RelayInit, BillInv
  <1>2. BillInv /\ [RelayNext]_vars => BillInv'
    BY BillStep
  <1>3. BillInv => BilledOnce
    BY DEF BillInv, BilledOnce
  <1> QED BY <1>1, <1>2, <1>3, PTL DEF RelaySpec

-----------------------------------------------------------------------------
(* The keep-alive.                                                          *)

(* The keep-alive knows when the wire is in the middle of a line. *)
PingInv == wire \in {"line", "half"} /\ (wire = "half" => ~at_line_start)

\* What is delivered leaves the keep-alive's view of the wire right.
LEMMA DeliverKeeps ==
    ASSUME PingInv, NEW empty, NEW whole, Deliver(empty, whole) PROVE PingInv'
  BY DEF PingInv, Deliver

\* So do the conversion's events.
LEMMA ConversionDelivers ==
    ASSUME NEW b, ConvertBytes(b)
    PROVE  \E empty, whole : Deliver(empty, whole)
  <1> DEFINE s == FoldLeft(ProcessChunk, conv, ChunksOf(b.frames))
  <1> HIDE DEF s
  <1>1. CASE proto = "chat"
    BY <1>1 DEF ConvertBytes, PassThrough
  <1>2. CASE proto # "chat"
    <2>1. AfterChunks(s, b.done)
      BY <1>2 DEF ConvertBytes, s
    <2>2. Convert(s) \/ Convert(Finalize(s, FALSE))
      BY <2>1 DEF AfterChunks, End
    <2> QED BY <2>2 DEF Convert
  <1> QED BY <1>1, <1>2

\* Every step of the relay keeps the keep-alive's view of the wire right.
LEMMA PingStep ==
    ASSUME PingInv, [RelayNext]_vars PROVE PingInv'
  <1>1. CASE UNCHANGED <<at_line_start, wire>>
    BY <1>1 DEF PingInv
  <1>2. CASE \E empty, whole : Deliver(empty, whole)
    BY <1>2, DeliverKeeps
  <1>3. CASE Ping
    BY <1>3 DEF Ping, PingInv
  <1>4. CASE \/ \E b \in Links[link].batches : Arrive(b)
             \/ \E end \in {Eof, Err} : Close(end)
             \/ Build \/ OtherRecords \/ (\E id \in 1..others : OtherRestores(id))
             \/ Expire
             \/ \E b \in Links[link].batches : b.frames # <<>> /\ WholeBody(b.frames[1].chunk)
             \/ PrimeFails \/ PrimeBytes \/ PrimeWhole \/ Leave
    <2>1. UNCHANGED pingVars
      BY <1>4 DEF Arrive, Close, Build, OtherRecords, OtherRestores, historyFrame, Expire,
            WholeBody, PrimeFails, NextCandidate, AllFailed, PrimeBytes, PrimeWhole, Leave
    <2> QED BY <1>1, <2>1 DEF pingVars
  <1>5. CASE RelayReplayed \/ RelayBytes
    BY <1>2, <1>5, ConversionDelivers DEF RelayReplayed, RelayBytes
  <1>6. CASE RelayError
    <2>1. ConvertError
      BY <1>6 DEF RelayError
    <2>2. \E empty, whole : Deliver(empty, whole)
      BY <2>1 DEF ConvertError, End, Convert
    <2> QED BY <1>2, <2>2
  <1>7. CASE RelayTail
    <2>1. \E empty, whole : Deliver(empty, whole)
      BY <1>7 DEF RelayTail, End, Convert
    <2> QED BY <1>2, <2>1
  <1>8. CASE UNCHANGED vars
    BY <1>1, <1>8 DEF vars, pingVars
  <1> QED BY <1>3, <1>4, <1>5, <1>6, <1>7, <1>8 DEF RelayNext

\* The keep-alive of a passed-through stream never puts its comment into the middle of a
\* line, wherever the reads cut the events (proxy.rs PingKeepaliveStream::poll_next).
THEOREM RelayPingsBetweenLines == RelaySpec => []PingsBetweenLines
  <1>1. RelayInit => PingInv
    BY DEF RelayInit, PingInv
  <1>2. PingInv /\ [RelayNext]_vars => PingInv'
    BY PingStep
  <1>3. PingInv => PingsBetweenLines
    BY DEF PingInv, PingsBetweenLines
  <1> QED BY <1>1, <1>2, <1>3, PTL DEF RelaySpec

-----------------------------------------------------------------------------
(* The history.                                                             *)

Distinct(order) == \A i, j \in 1..Len(order) : order[i] = order[j] => i = j

(* A well-formed history of ids: both parts have the same ids, and not too many. *)
Kept(h) ==
    /\ h = [order |-> h.order, map |-> h.map]
    /\ h.order \in Seq(Int) /\ Distinct(h.order) /\ Len(h.order) <= MaxEntries
    /\ DOMAIN h.map = {h.order[i] : i \in 1..Len(h.order)}

(* Only the answers in S are younger than the earlier one. *)
YoungerIn(order, S) ==
    \A i, j \in 1..Len(order) : order[i] = Earlier /\ i < j => order[j] \in S

(* The earlier answer is there with what was recorded, or as many others came after it. *)
EarlierIn(h, S) ==
    /\ IsFiniteSet(S) /\ Earlier \notin S
    /\ IF Earlier \in DOMAIN h.map
       THEN h.map[Earlier] = EarlierOutput /\ YoungerIn(h.order, S)
       ELSE Cardinality(S) >= MaxEntries

HistoryInv ==
    /\ Kept(history) /\ others \in Nat
    /\ Refers => EarlierIn(history, since)
    /\ Refers /\ phase \in {"priming", "relaying"} => context = EarlierOutput

\* An id that is in the order has a position there.
LEMMA PositionOfId ==
    ASSUME NEW order \in Seq(Int), NEW id, Contains(order, id), Distinct(order)
    PROVE  Position(order, id) \in 1..Len(order) /\ order[Position(order, id)] = id
  <1>1. PICK i \in 1..Len(order) : order[i] = id
    BY DEF Contains
  <1>2. \A j \in 1..(i - 1) : order[j] # id
    BY <1>1 DEF Distinct
  <1> QED BY <1>1, <1>2 DEF Position

\* What moving an id to the end does to the others: they keep their order.
LEMMA MovedToEnd ==
    ASSUME NEW order \in Seq(Int), NEW n \in 1..Len(order)
    PROVE  LET moved == Append(RemoveAt(order, n), order[n])
           IN  /\ moved \in Seq(Int) /\ Len(moved) = Len(order)
               /\ \A k \in 1..Len(order) :
                    moved[k] = IF k < n THEN order[k]
                               ELSE IF k < Len(order) THEN order[k + 1] ELSE order[n]
  <1> DEFINE front == SubSeq(order, 1, n - 1)
             back  == SubSeq(order, n + 1, Len(order))
             rest  == front \o back
  <1>1. /\ front \in Seq(Int) /\ Len(front) = n - 1
        /\ \A k \in 1..(n - 1) : front[k] = order[k]
    OBVIOUS
  <1>2. /\ back \in Seq(Int) /\ Len(back) = Len(order) - n
        /\ \A k \in 1..(Len(order) - n) : back[k] = order[n + k]
    OBVIOUS
  <1> HIDE DEF front, back
  <1>3. /\ rest \in Seq(Int) /\ Len(rest) = Len(order) - 1
        /\ \A k \in 1..(Len(order) - 1) : rest[k] = IF k < n THEN order[k] ELSE order[k + 1]
    <2>1. /\ rest \in Seq(Int) /\ Len(rest) = Len(front) + Len(back)
          /\ \A k \in 1..Len(front) + Len(back) :
                rest[k] = IF k <= Len(front) THEN front[k] ELSE back[k - Len(front)]
      <3>1. front \in Seq(Int) /\ back \in Seq(Int)
        BY <1>1, <1>2
      <3> QED BY <3>1, ConcatProperties, Zenon
    <2> HIDE DEF rest
    <2>3. Len(order) \in Nat /\ n \in Int /\ Len(rest) = Len(order) - 1
      BY <1>1, <1>2, <2>1, LenProperties
    <2>2. ASSUME NEW k \in 1..(Len(order) - 1)
          PROVE  rest[k] = IF k < n THEN order[k] ELSE order[k + 1]
      <3>0. k \in 1..Len(front) + Len(back) /\ Len(front) = n - 1 /\ k \in Int
        BY <1>1, <2>1, <2>3
      <3>1. CASE k < n
        <4>1. k <= Len(front) /\ k \in 1..(n - 1)
          BY <2>3, <3>0, <3>1
        <4> QED BY <1>1, <2>1, <3>0, <3>1, <4>1
      <3>2. CASE k >= n
        <4>1. rest[k] = back[k - (n - 1)]
          <5>1. ~(k <= Len(front))
            BY <2>3, <3>0, <3>2
          <5> QED BY <2>1, <3>0, <5>1
        <4>2. k - (n - 1) \in 1..(Len(order) - n) /\ n + (k - (n - 1)) = k + 1
          BY <2>3, <3>2
        <4>3. back[k - (n - 1)] = order[n + (k - (n - 1))]
          BY <1>2, <4>2
        <4> QED BY <3>2, <4>1, <4>2, <4>3
      <3> QED BY <2>3, <3>1, <3>2
    <2> QED BY <2>1, <2>2, <2>3
  <1> HIDE DEF rest
  <1>4. order[n] \in Int /\ RemoveAt(order, n) = rest
    BY DEF RemoveAt, rest, front, back
  <1>5. Len(order) \in Nat /\ n \in Int
    BY LenProperties
  <1>6. /\ Append(rest, order[n]) \in Seq(Int)
        /\ Len(Append(rest, order[n])) = Len(rest) + 1
        /\ \A k \in 1..Len(rest) : Append(rest, order[n])[k] = rest[k]
        /\ Append(rest, order[n])[Len(rest) + 1] = order[n]
    BY <1>3, <1>4, AppendProperties
  <1>7. ASSUME NEW k \in 1..Len(order)
        PROVE  Append(rest, order[n])[k]
                 = IF k < n THEN order[k] ELSE IF k < Len(order) THEN order[k + 1] ELSE order[n]
    <2>1. CASE k = Len(order)
      BY <1>3, <1>5, <1>6, <2>1
    <2>2. CASE k < Len(order)
      <3>1. k \in 1..(Len(order) - 1)
        BY <1>5, <2>2
      <3> QED BY <1>3, <1>5, <1>6, <2>2, <3>1
    <2>3. k = Len(order) \/ k < Len(order)
      BY <1>5
    <2> QED BY <2>1, <2>2, <2>3
  <1> QED BY <1>3, <1>4, <1>5, <1>6, <1>7

\* Touching keeps the history well-formed and forgets nothing.
LEMMA TouchedKept ==
    ASSUME NEW h, Kept(h), NEW id \in Int
    PROVE  /\ Kept(Touched(h, id)) /\ Touched(h, id).map = h.map
           /\ \A S : YoungerIn(h.order, S) /\ id # Earlier
                        => YoungerIn(Touched(h, id).order, S \cup {id})
           /\ id = Earlier => YoungerIn(Touched(h, id).order, {})
  <1>1. CASE ~Contains(h.order, id)
    <2>1. Touched(h, id) = h
      BY <1>1 DEF Touched
    <2>2. id = Earlier => YoungerIn(h.order, {})
      BY <1>1 DEF YoungerIn, Contains
    <2> QED BY <2>1, <2>2 DEF YoungerIn
  <1>2. CASE Contains(h.order, id)
    <2>1. h.order \in Seq(Int) /\ Distinct(h.order)
      BY DEF Kept
    <2>2. PICK n \in 1..Len(h.order) : n = Position(h.order, id) /\ h.order[n] = id
      BY <1>2, <2>1, PositionOfId
    <2> DEFINE moved == Append(RemoveAt(h.order, n), id)
    <2>3. /\ moved \in Seq(Int) /\ Len(moved) = Len(h.order)
          /\ \A k \in 1..Len(h.order) :
                moved[k] = IF k < n THEN h.order[k]
                           ELSE IF k < Len(h.order) THEN h.order[k + 1] ELSE id
      <3>1. LET m == Append(RemoveAt(h.order, n), h.order[n])
            IN  /\ m \in Seq(Int) /\ Len(m) = Len(h.order)
                /\ \A k \in 1..Len(h.order) :
                     m[k] = IF k < n THEN h.order[k]
                            ELSE IF k < Len(h.order) THEN h.order[k + 1] ELSE h.order[n]
        BY <2>1, MovedToEnd
      <3> QED BY <2>2, <3>1
    <2>4. /\ Touched(h, id).order = moved /\ Touched(h, id).map = h.map
          /\ Touched(h, id) = [order |-> Touched(h, id).order, map |-> Touched(h, id).map]
      BY <1>2, <2>2 DEF Touched, Kept
    <2> HIDE DEF moved
    <2> DEFINE From(k) == IF k < n THEN k ELSE IF k < Len(h.order) THEN k + 1 ELSE n
    <2>5. Len(h.order) \in Nat
      BY <2>1
    <2>6. \A k \in 1..Len(h.order) : From(k) \in 1..Len(h.order) /\ moved[k] = h.order[From(k)]
      <3> SUFFICES ASSUME NEW k \in 1..Len(h.order)
                   PROVE  From(k) \in 1..Len(h.order) /\ moved[k] = h.order[From(k)]
        OBVIOUS
      <3>1. moved[k] = IF k < n THEN h.order[k]
                       ELSE IF k < Len(h.order) THEN h.order[k + 1] ELSE h.order[n]
        BY <2>2, <2>3
      <3> QED BY <2>5, <3>1
    <2>7. \A k, l \in 1..Len(h.order) : From(k) = From(l) => k = l
      BY <2>5
    <2> HIDE DEF From
    <2>8. Distinct(moved)
      <3> SUFFICES ASSUME NEW k \in 1..Len(h.order), NEW l \in 1..Len(h.order), moved[k] = moved[l]
                   PROVE  k = l
        BY <2>3 DEF Distinct
      <3>1. /\ From(k) \in 1..Len(h.order) /\ moved[k] = h.order[From(k)]
            /\ From(l) \in 1..Len(h.order) /\ moved[l] = h.order[From(l)]
        BY <2>6
      <3>2. From(k) = From(l)
        BY <2>1, <3>1 DEF Distinct
      <3> QED BY <2>7, <3>2
    <2>9. \A k \in 1..Len(h.order) : \E l \in 1..Len(h.order) : From(l) = k
      <3> SUFFICES ASSUME NEW k \in 1..Len(h.order)
                   PROVE  \E l \in 1..Len(h.order) : From(l) = k
        OBVIOUS
      <3>1. CASE k < n
        BY <2>5, <3>1 DEF From
      <3>2. CASE k = n
        <4>1. Len(h.order) \in 1..Len(h.order) /\ From(Len(h.order)) = k
          BY <2>5, <3>2 DEF From
        <4> QED BY <4>1
      <3>3. CASE k > n
        <4>1. k - 1 \in 1..Len(h.order) /\ From(k - 1) = k
          BY <2>5, <3>3 DEF From
        <4> QED BY <4>1
      <3> QED BY <2>5, <3>1, <3>2, <3>3
    <2>10. {moved[i] : i \in 1..Len(moved)} = {h.order[i] : i \in 1..Len(h.order)}
      <3>1. ASSUME NEW i \in 1..Len(moved) PROVE \E j \in 1..Len(h.order) : moved[i] = h.order[j]
        BY <2>3, <2>6
      <3>2. ASSUME NEW j \in 1..Len(h.order) PROVE \E i \in 1..Len(moved) : moved[i] = h.order[j]
        <4>1. PICK l \in 1..Len(h.order) : From(l) = j
          BY <2>9
        <4> QED BY <2>3, <2>6, <4>1
      <3>3. {moved[i] : i \in 1..Len(moved)} \subseteq {h.order[i] : i \in 1..Len(h.order)}
        BY <3>1
      <3>4. {h.order[i] : i \in 1..Len(h.order)} \subseteq {moved[i] : i \in 1..Len(moved)}
        BY <3>2
      <3> QED BY <3>3, <3>4
    <2>11. Kept(Touched(h, id))
      BY <2>3, <2>4, <2>8, <2>10 DEF Kept
    <2>12. ASSUME NEW S, YoungerIn(h.order, S), id # Earlier
           PROVE  YoungerIn(moved, S \cup {id})
      <3> SUFFICES ASSUME NEW k \in 1..Len(h.order), NEW l \in 1..Len(h.order),
                          moved[k] = Earlier, k < l
                   PROVE  moved[l] \in S \cup {id}
        BY <2>3 DEF YoungerIn
      <3>1. CASE l = Len(h.order)
        <4>1. moved[Len(h.order)] = id /\ Len(h.order) \in 1..Len(h.order)
          BY <2>3, <2>5
        <4> QED BY <3>1, <4>1
      <3>2. CASE l < Len(h.order)
        <4>1. From(k) < From(l)
          <5>1. k \in Int /\ l \in Int /\ n \in Int
            BY <2>5
          <5> QED BY <2>5, <3>2, <5>1 DEF From
        <4> QED BY <2>6, <2>12, <4>1 DEF YoungerIn
      <3> QED BY <2>5, <3>1, <3>2
    <2>13. ASSUME id = Earlier PROVE YoungerIn(moved, {})
      <3> SUFFICES ASSUME NEW k \in 1..Len(h.order), NEW l \in 1..Len(h.order),
                          moved[k] = id, k < l
                   PROVE  FALSE
        BY <2>3, <2>13 DEF YoungerIn
      <3>1. moved[Len(h.order)] = id /\ Len(h.order) \in 1..Len(h.order)
        BY <2>2, <2>3, <2>5
      <3> QED BY <2>3, <2>5, <2>8, <3>1 DEF Distinct
    <2> QED BY <2>4, <2>11, <2>12, <2>13
  <1> QED BY <1>1, <1>2

\* A longer sequence of distinct elements of S needs a larger S.
LEMMA DistinctBounds ==
    ASSUME NEW order \in Seq(Int), Distinct(order), NEW S, IsFiniteSet(S),
           \A j \in 2..Len(order) : order[j] \in S
    PROVE  Cardinality(S) >= Len(order) - 1
  <1> DEFINE f == [j \in 2..Len(order) |-> order[j]]
  <1>1. Len(order) \in Nat
    BY LenProperties
  <1>2. f \in Injection(2..Len(order), S)
    <2>1. f \in [2..Len(order) -> S]
      OBVIOUS
    <2>2. IsInjective(f)
      BY <1>1 DEF IsInjective, Distinct
    <2> QED BY <2>1, <2>2 DEF Injection
  <1>3. Cardinality(2..Len(order)) <= Cardinality(S)
    BY <1>2, FS_Injection
  <1>4. Cardinality(2..Len(order)) = IF 2 > Len(order) THEN 0 ELSE Len(order) - 2 + 1
    BY <1>1, FS_Interval
  <1>5. Cardinality(S) \in Nat
    BY FS_CardinalityType
  <1> QED BY <1>1, <1>3, <1>4, <1>5

\* A new entry comes last; over capacity it drives out the oldest one only.
LEMMA InsertedOrder ==
    ASSUME NEW h, Kept(h), NEW id \in Int, id \notin DOMAIN h.map, NEW items
    PROVE  LET all == Append(h.order, id)
               new == Inserted(h, id, items)
           IN  /\ all \in Seq(Int) /\ Distinct(all) /\ Len(all) = Len(h.order) + 1
               /\ new = [order |-> new.order, map |-> new.map]
               /\ new.order = IF Len(all) > MaxEntries
                              THEN SubSeq(all, Len(all) - MaxEntries + 1, Len(all)) ELSE all
               /\ DOMAIN new.map = {new.order[i] : i \in 1..Len(new.order)}
               /\ \A x \in DOMAIN new.map : new.map[x] = IF x = id THEN items ELSE h.map[x]
  <1> DEFINE all == Append(h.order, id)
  <1>1. h.order \in Seq(Int) /\ Distinct(h.order) /\ Len(h.order) \in Nat
    BY LenProperties DEF Kept
  <1>2. /\ all \in Seq(Int) /\ Len(all) = Len(h.order) + 1
        /\ \A i \in 1..Len(h.order) : all[i] = h.order[i]
        /\ all[Len(h.order) + 1] = id
    BY <1>1, AppendProperties
  <1>3. \A i \in 1..Len(h.order) : h.order[i] # id
    BY DEF Kept
  <1> HIDE DEF all
  <1>4. Distinct(all)
    <2> SUFFICES ASSUME NEW i \in 1..Len(all), NEW j \in 1..Len(all), all[i] = all[j]
                 PROVE  i = j
      BY DEF Distinct
    <2>1. /\ i \in 1..Len(h.order) \/ i = Len(h.order) + 1
          /\ j \in 1..Len(h.order) \/ j = Len(h.order) + 1
      BY <1>1, <1>2
    <2> QED BY <1>1, <1>2, <1>3, <2>1 DEF Distinct
  <1> DEFINE order == IF Len(all) > MaxEntries
                      THEN SubSeq(all, Len(all) - MaxEntries + 1, Len(all)) ELSE all
             map   == [i \in DOMAIN h.map \cup {id} |-> IF i = id THEN items ELSE h.map[i]]
             new   == Inserted(h, id, items)
  <1>5. new = [order |-> order, map |-> Restrict(map, ToSet(order))]
    BY DEF Inserted, Evicted, all
  <1>6. order \in Seq(Int) /\ \A i \in 1..Len(order) : order[i] \in DOMAIN map
    <2>1. ASSUME NEW i \in 1..Len(all) PROVE all[i] \in DOMAIN map
      <3>1. i \in 1..Len(h.order) \/ i = Len(h.order) + 1
        BY <1>1, <1>2
      <3> QED BY <1>2, <3>1 DEF Kept
    <2>2. CASE Len(all) > MaxEntries
      <3>1. Len(all) \in Nat /\ Len(all) - MaxEntries + 1 \in 1..(Len(all) + 1)
        BY <1>1, <1>2, <2>2, HistoryAssumption
      <3>2. /\ order \in Seq(Int) /\ Len(order) = MaxEntries
            /\ \A i \in 1..MaxEntries : order[i] = all[Len(all) - MaxEntries + i]
        BY <1>2, <2>2, <3>1, HistoryAssumption
      <3>3. \A i \in 1..MaxEntries : Len(all) - MaxEntries + i \in 1..Len(all)
        BY <2>2, <3>1, HistoryAssumption
      <3> QED BY <2>1, <3>2, <3>3
    <2>3. CASE ~(Len(all) > MaxEntries)
      BY <1>2, <2>1, <2>3
    <2> QED BY <2>2, <2>3
  <1> HIDE DEF order, map
  <1>7. ToSet(order) = {order[i] : i \in 1..Len(order)}
    <2>1. DOMAIN order = 1..Len(order)
      BY <1>6, LenProperties
    <2> QED BY <2>1 DEF ToSet
  <1>8. /\ new.order = order /\ new.map = Restrict(map, ToSet(order))
        /\ new = [order |-> new.order, map |-> new.map]
    BY <1>5
  <1> HIDE DEF new
  <1>9. /\ DOMAIN new.map = {new.order[i] : i \in 1..Len(new.order)}
        /\ \A x \in DOMAIN new.map : new.map[x] = map[x] /\ x \in DOMAIN map
    BY <1>6, <1>7, <1>8 DEF Restrict
  <1>10. \A x \in DOMAIN map : map[x] = IF x = id THEN items ELSE h.map[x]
    BY DEF map
  <1> QED BY <1>2, <1>4, <1>8, <1>9, <1>10 DEF order, all, new

\* A set with one more element is not smaller.
LEMMA LargerSet ==
    ASSUME NEW S, IsFiniteSet(S), NEW x
    PROVE  /\ IsFiniteSet(S \cup {x}) /\ Cardinality(S \cup {x}) >= Cardinality(S)
           /\ Cardinality(S) \in Nat /\ Cardinality(S \cup {x}) \in Nat
  <1>1. Cardinality(S) \in Nat
    BY FS_CardinalityType
  <1>2. /\ IsFiniteSet(S \cup {x})
        /\ Cardinality(S \cup {x}) = IF x \in S THEN Cardinality(S) ELSE Cardinality(S) + 1
    BY FS_AddElement
  <1> QED BY <1>1, <1>2

\* Inserting keeps the history well-formed, and the earlier answer unless there are enough others.
LEMMA InsertedKept ==
    ASSUME NEW h, Kept(h), NEW id \in Int, NEW items
    PROVE  /\ Kept(Inserted(h, id, items))
           /\ \A S : EarlierIn(h, S) /\ id # Earlier => EarlierIn(Inserted(h, id, items), S \cup {id})
  <1> DEFINE new == Inserted(h, id, items)
  <1>1. CASE id \in DOMAIN h.map
    <2>1. new = [order |-> h.order, map |-> [h.map EXCEPT ![id] = items]]
      BY <1>1 DEF Inserted, Kept
    <2>2. /\ new.order = h.order /\ DOMAIN new.map = DOMAIN h.map
          /\ \A x \in DOMAIN h.map : x # id => new.map[x] = h.map[x]
          /\ new = [order |-> new.order, map |-> new.map]
      BY <2>1
    <2> HIDE DEF new
    <2>3. Kept(new)
      BY <2>2 DEF Kept
    <2>4. ASSUME NEW S, EarlierIn(h, S), id # Earlier PROVE EarlierIn(new, S \cup {id})
      <3>1. /\ IsFiniteSet(S \cup {id}) /\ Cardinality(S \cup {id}) >= Cardinality(S)
            /\ Cardinality(S) \in Nat /\ Cardinality(S \cup {id}) \in Nat
        BY <2>4, LargerSet DEF EarlierIn
      <3>2. YoungerIn(h.order, S) => YoungerIn(new.order, S \cup {id})
        BY <2>2 DEF YoungerIn
      <3> QED BY <2>2, <2>4, <3>1, <3>2, HistoryAssumption DEF EarlierIn
    <2> QED BY <2>3, <2>4 DEF new
  <1>2. CASE id \notin DOMAIN h.map
    <2> DEFINE all == Append(h.order, id)
    <2>1. /\ all \in Seq(Int) /\ Distinct(all) /\ Len(all) = Len(h.order) + 1
          /\ new = [order |-> new.order, map |-> new.map]
          /\ new.order = IF Len(all) > MaxEntries
                         THEN SubSeq(all, Len(all) - MaxEntries + 1, Len(all)) ELSE all
          /\ DOMAIN new.map = {new.order[i] : i \in 1..Len(new.order)}
          /\ \A x \in DOMAIN new.map : new.map[x] = IF x = id THEN items ELSE h.map[x]
      BY <1>2, InsertedOrder
    <2>2. /\ Len(h.order) \in Nat /\ Len(h.order) <= MaxEntries /\ MaxEntries \in Nat \ {0}
          /\ h.order \in Seq(Int)
      BY HistoryAssumption, LenProperties DEF Kept
    <2>3. (\A i \in 1..Len(h.order) : all[i] = h.order[i]) /\ all[Len(h.order) + 1] = id
      BY <2>2, AppendProperties
    <2> HIDE DEF new, all
    <2>4. PICK gone \in {0, 1} : /\ gone = 0 <=> ~(Len(all) > MaxEntries)
                                 /\ gone = 1 => Len(all) = MaxEntries + 1
      BY <2>1, <2>2
    <2>5. /\ new.order \in Seq(Int) /\ Len(new.order) = Len(all) - gone
          /\ \A i \in 1..Len(new.order) : new.order[i] = all[i + gone]
      <3>1. CASE gone = 0
        BY <2>1, <2>4, <3>1
      <3>2. CASE gone = 1
        <4>1. Len(all) - MaxEntries + 1 = 2 /\ Len(all) > MaxEntries
          BY <2>1, <2>2, <2>4, <3>2
        <4>2. new.order = SubSeq(all, 2, Len(all)) /\ Len(all) \in Nat
          <5>1. new.order = SubSeq(all, Len(all) - MaxEntries + 1, Len(all))
            BY <2>1, <4>1, Zenon
          <5>2. Len(all) \in Nat
            BY <2>1, <2>2
          <5> QED BY <4>1, <5>1, <5>2
        <4>3. /\ SubSeq(all, 2, Len(all)) \in Seq(Int)
              /\ Len(SubSeq(all, 2, Len(all))) = Len(all) - 1
              /\ \A i \in 1..(Len(all) - 1) : SubSeq(all, 2, Len(all))[i] = all[i + 1]
          <5>1. Len(all) \in Nat /\ Len(all) >= 1 /\ all \in Seq(Int)
            BY <2>1, <2>2
          <5>2. \A i \in 2..Len(all) : all[i] \in Int
            BY <5>1
          <5>3. /\ SubSeq(all, 2, Len(all)) \in Seq(Int)
                /\ Len(SubSeq(all, 2, Len(all))) = IF 2 <= Len(all) THEN Len(all) - 2 + 1 ELSE 0
                /\ \A i \in 1..(Len(all) - 2 + 1) : SubSeq(all, 2, Len(all))[i] = all[2 + i - 1]
            BY <5>1, <5>2, SubSeqProperties
          <5>4. \A i \in 1..(Len(all) - 1) :
                    i \in 1..(Len(all) - 2 + 1) /\ 2 + i - 1 = i + 1
            BY <5>1
          <5>5. \A n \in Nat : n >= 1 => (IF 2 <= n THEN n - 2 + 1 ELSE 0) = n - 1
            OBVIOUS
          <5>6. Len(SubSeq(all, 2, Len(all))) = Len(all) - 1
            BY <5>1, <5>3, <5>5, Zenon
          <5> QED BY <5>3, <5>4, <5>6
        <4> QED BY <3>2, <4>2, <4>3
      <3> QED BY <3>1, <3>2
    <2>6. Len(new.order) \in Nat /\ Len(new.order) <= MaxEntries /\ Len(all) \in Nat
      BY <2>1, <2>2, <2>4, <2>5
    <2>7. Distinct(new.order)
      <3> SUFFICES ASSUME NEW i \in 1..Len(new.order), NEW j \in 1..Len(new.order),
                          new.order[i] = new.order[j]
                   PROVE  i = j
        BY DEF Distinct
      <3>1. i + gone \in 1..Len(all) /\ j + gone \in 1..Len(all)
        BY <2>5, <2>6
      <3>2. i + gone = j + gone
        BY <2>1, <2>5, <3>1 DEF Distinct
      <3> QED BY <3>2
    <2>8. Kept(new)
      BY <2>1, <2>5, <2>6, <2>7 DEF Kept
    <2>9. ASSUME NEW S, EarlierIn(h, S), id # Earlier PROVE EarlierIn(new, S \cup {id})
      <3>1. /\ IsFiniteSet(S \cup {id}) /\ Cardinality(S \cup {id}) >= Cardinality(S)
            /\ Cardinality(S) \in Nat /\ Cardinality(S \cup {id}) \in Nat
            /\ Earlier \notin S \cup {id}
        BY <2>9, LargerSet DEF EarlierIn
      <3>2. ASSUME NEW i \in 1..Len(all), NEW j \in 1..Len(all), all[i] = Earlier, i < j
            PROVE  all[j] \in S \cup {id} /\ Earlier \in DOMAIN h.map
        <4>1. i \in 1..Len(h.order) /\ h.order[i] = Earlier
          <5>1. i \in 1..Len(h.order)
            BY <2>1, <2>2, <3>2
          <5> QED BY <2>3, <3>2, <5>1
        <4>2. Earlier \in DOMAIN h.map
          BY <4>1 DEF Kept
        <4>3. CASE j = Len(h.order) + 1
          BY <2>3, <4>2, <4>3
        <4>4. CASE j \in 1..Len(h.order)
          <5>1. h.order[j] \in S
            BY <2>9, <3>2, <4>1, <4>2, <4>4 DEF EarlierIn, YoungerIn
          <5> QED BY <2>3, <4>2, <4>4, <5>1
        <4> QED BY <2>1, <2>2, <4>3, <4>4
      <3>3. CASE Earlier \in DOMAIN new.map
        <4>1. PICK k \in 1..Len(new.order) : new.order[k] = Earlier
          BY <2>1, <3>3
        <4>2. k + gone \in 1..Len(all) /\ all[k + gone] = Earlier
          BY <2>5, <2>6, <4>1
        <4>3. k + gone < Len(h.order) + 1
          BY <2>1, <2>2, <2>3, <2>9, <4>2
        <4>4. Earlier \in DOMAIN h.map
          <5>1. Len(all) \in 1..Len(all) /\ k + gone < Len(all)
            BY <2>1, <2>2, <4>3
          <5> QED BY <3>2, <4>2, <5>1
        <4>5. YoungerIn(new.order, S \cup {id})
          <5> SUFFICES ASSUME NEW i \in 1..Len(new.order), NEW j \in 1..Len(new.order),
                              new.order[i] = Earlier, i < j
                       PROVE  new.order[j] \in S \cup {id}
            BY DEF YoungerIn
          <5>1. /\ i + gone \in 1..Len(all) /\ j + gone \in 1..Len(all) /\ i + gone < j + gone
                /\ all[i + gone] = Earlier /\ new.order[j] = all[j + gone]
            <6>1. i + gone \in 1..Len(all) /\ j + gone \in 1..Len(all) /\ i + gone < j + gone
              BY <2>5, <2>6
            <6> QED BY <2>5, <6>1
          <5> QED BY <3>2, <5>1
        <4>6. new.map[Earlier] = EarlierOutput
          BY <2>1, <2>9, <3>3, <4>4 DEF EarlierIn
        <4> QED BY <3>1, <3>3, <4>5, <4>6 DEF EarlierIn
      <3>4. CASE Earlier \notin DOMAIN new.map /\ Earlier \notin DOMAIN h.map
        BY <2>2, <2>9, <3>1, <3>4 DEF EarlierIn
      <3>5. CASE Earlier \notin DOMAIN new.map /\ Earlier \in DOMAIN h.map
        <4>1. PICK k \in 1..Len(h.order) : h.order[k] = Earlier
          BY <3>5 DEF Kept
        <4>2. k \in 1..Len(all) /\ all[k] = Earlier
          <5>1. Len(all) = Len(h.order) + 1
            BY <2>1
          <5> QED BY <2>2, <2>3, <4>1, <5>1
        <4>3. ~(k - gone \in 1..Len(new.order))
          <5> SUFFICES ASSUME k - gone \in 1..Len(new.order) PROVE FALSE
            OBVIOUS
          <5>1. new.order[k - gone] = all[(k - gone) + gone] /\ (k - gone) + gone = k
            BY <2>5
          <5> QED BY <2>1, <3>5, <4>2, <5>1
        <4>4. k = 1 /\ gone = 1
          BY <2>4, <2>5, <2>6, <4>2, <4>3
        <4>5. \A j \in 2..Len(all) : all[j] \in S \cup {id}
          BY <2>6, <3>2, <4>2, <4>4
        <4>6. Cardinality(S \cup {id}) >= Len(all) - 1
          BY <2>1, <3>1, <4>5, DistinctBounds
        <4>7. Len(all) - 1 = MaxEntries
          BY <2>2, <2>4, <4>4
        <4> QED BY <3>1, <3>5, <4>6, <4>7 DEF EarlierIn
      <3> QED BY <3>3, <3>4, <3>5
    <2> QED BY <2>8, <2>9 DEF new
  <1> QED BY <1>1, <1>2

\* Recording another answer.
LEMMA RecordKept ==
    ASSUME NEW h, Kept(h), NEW id \in Int, NEW items
    PROVE  /\ Kept(Record(h, id, items))
           /\ \A S : EarlierIn(h, S) /\ id # Earlier => EarlierIn(Record(h, id, items), S \cup {id})
  <1> DEFINE new == Inserted(h, id, items)
  <1>1. CASE Recordable(items)
    <2>1. Kept(new) /\ Record(h, id, items) = Touched(new, id)
      BY <1>1, InsertedKept DEF Record
    <2> HIDE DEF new
    <2>2. /\ Kept(Touched(new, id)) /\ Touched(new, id).map = new.map
          /\ \A S : YoungerIn(new.order, S) /\ id # Earlier
                        => YoungerIn(Touched(new, id).order, S \cup {id})
      BY <2>1, TouchedKept
    <2>3. ASSUME NEW S, EarlierIn(h, S), id # Earlier
          PROVE  EarlierIn(Touched(new, id), S \cup {id})
      <3>1. EarlierIn(new, S \cup {id})
        BY <2>3, InsertedKept DEF new
      <3>2. (S \cup {id}) \cup {id} = S \cup {id}
        OBVIOUS
      <3>3. YoungerIn(new.order, S \cup {id}) => YoungerIn(Touched(new, id).order, S \cup {id})
        BY <2>2, <2>3, <3>2
      <3> QED BY <2>2, <3>1, <3>3 DEF EarlierIn
    <2> QED BY <2>1, <2>2, <2>3
  <1>2. CASE ~Recordable(items)
    <2>1. Record(h, id, items) = h
      BY <1>2 DEF Record
    <2>2. ASSUME NEW S, EarlierIn(h, S), id # Earlier PROVE EarlierIn(h, S \cup {id})
      <3>1. /\ IsFiniteSet(S \cup {id}) /\ Cardinality(S \cup {id}) >= Cardinality(S)
            /\ Cardinality(S) \in Nat /\ Cardinality(S \cup {id}) \in Nat
        BY <2>2, LargerSet DEF EarlierIn
      <3>2. YoungerIn(h.order, S) => YoungerIn(h.order, S \cup {id})
        BY DEF YoungerIn
      <3> QED BY <2>2, <3>1, <3>2, HistoryAssumption DEF EarlierIn
    <2> QED BY <2>1, <2>2
  <1> QED BY <1>1, <1>2

\* The history at the start: empty, or with the earlier answer alone.
LEMMA FirstHistory ==
    /\ Kept(EmptyHistory)
    /\ Kept(Record(EmptyHistory, Earlier, EarlierOutput))
    /\ EarlierIn(Record(EmptyHistory, Earlier, EarlierOutput), {})
  <1>1. Kept(EmptyHistory)
    <2>1. /\ EmptyHistory.order = <<>> /\ EmptyHistory.map = <<>>
          /\ EmptyHistory = [order |-> EmptyHistory.order, map |-> EmptyHistory.map]
      BY DEF EmptyHistory
    <2>2. <<>> \in Seq(Int) /\ Len(<<>>) = 0 /\ DOMAIN <<>> = {}
      OBVIOUS
    <2> QED BY <2>1, <2>2, HistoryAssumption DEF Kept, Distinct
  <1>2. Earlier \in Int
    BY DEF Earlier
  <1>3. ASSUME NEW h, h = EmptyHistory, NEW id \in Int, NEW items
        PROVE  /\ id \in DOMAIN Inserted(h, id, items).map
               /\ Inserted(h, id, items).map[id] = items
    <2> DEFINE new == Inserted(h, id, items)
               all == Append(h.order, id)
    <2>0. Kept(h) /\ id \notin DOMAIN h.map
      BY <1>1, <1>3 DEF EmptyHistory
    <2>1. h.order = <<>>
      BY <1>3 DEF EmptyHistory
    <2>2. /\ all \in Seq(Int) /\ Distinct(all) /\ Len(all) = Len(h.order) + 1
          /\ new = [order |-> new.order, map |-> new.map]
          /\ new.order = IF Len(all) > MaxEntries
                         THEN SubSeq(all, Len(all) - MaxEntries + 1, Len(all)) ELSE all
          /\ DOMAIN new.map = {new.order[i] : i \in 1..Len(new.order)}
          /\ \A x \in DOMAIN new.map : new.map[x] = IF x = id THEN items ELSE h.map[x]
      BY <2>0, InsertedOrder
    <2>3. Len(all) = 1 /\ all[1] = id
      BY <2>1
    <2> HIDE DEF new, all
    <2>4. new.order = all
      <3>1. ~(Len(all) > MaxEntries)
        BY <2>3, HistoryAssumption
      <3> QED BY <2>2, <3>1
    <2>5. \E i \in 1..Len(new.order) : new.order[i] = id
      BY <2>3, <2>4
    <2>6. id \in DOMAIN new.map
      BY <2>2, <2>5, Zenon
    <2>7. new.map[id] = items
      BY <2>2, <2>6, Zenon
    <2> QED BY <2>6, <2>7 DEF new
  <1> DEFINE new == Inserted(EmptyHistory, Earlier, EarlierOutput)
  <1>4. Earlier \in DOMAIN new.map /\ new.map[Earlier] = EarlierOutput
    BY <1>2, <1>3
  <1>5. Record(EmptyHistory, Earlier, EarlierOutput) = Touched(new, Earlier) /\ Kept(new)
    BY <1>1, <1>2, InsertedKept, EarlierAssumption DEF Record
  <1> HIDE DEF new
  <1>6. /\ Kept(Touched(new, Earlier)) /\ Touched(new, Earlier).map = new.map
        /\ YoungerIn(Touched(new, Earlier).order, {})
    BY <1>2, <1>5, TouchedKept
  <1> QED BY <1>1, <1>4, <1>5, <1>6, FS_EmptySet DEF EarlierIn

\* The final response's tee adds this answer to the history, or leaves it alone.
LEMMA TeeKeeps ==
    ASSUME HistoryInv, NEW s, Tee(s) \/ UNCHANGED teeVars, UNCHANGED link
    PROVE  Kept(history') /\ (Refers => EarlierIn(history', since'))
  <1>1. Self \in Int /\ Self # Earlier
    BY DEF Self, Earlier
  <1>2. CASE history' = Record(history, Self, s.output) /\ since' = since \cup {Self}
    BY <1>1, <1>2, RecordKept DEF HistoryInv
  <1>3. CASE UNCHANGED <<history, since>>
    BY <1>3 DEF HistoryInv
  <1> QED BY <1>2, <1>3 DEF Tee, teeVars

\* Every step of the relay keeps the history and what the candidate was told.
LEMMA HistoryStep ==
    ASSUME HistoryInv, [RelayNext]_vars PROVE HistoryInv'
  <1>1. ASSUME UNCHANGED <<link, others, context>>, phase' \in {"priming", "relaying"} => phase' = phase
                    \/ phase = "priming",
               Kept(history'), Refers => EarlierIn(history', since')
        PROVE  HistoryInv'
    BY <1>1 DEF HistoryInv, Refers
  <1>2. ASSUME UNCHANGED <<link, others, context, teeVars>>,
               phase' = phase \/ phase = "priming" \/ phase' \notin {"priming", "relaying"}
        PROVE  HistoryInv'
    BY <1>2 DEF HistoryInv, Refers, teeVars
  <1>3. CASE \E b \in Links[link].batches : Arrive(b)
    BY <1>2, <1>3 DEF Arrive, billVars
  <1>4. CASE \E end \in {Eof, Err} : Close(end)
    BY <1>2, <1>4 DEF Close, billVars, upVars
  <1>5. CASE Build
    <2>1. UNCHANGED <<link, others>>
      BY <1>5 DEF Build
    <2>2. CASE ~Refers
      BY <1>5, <2>1, <2>2 DEF Build, HistoryInv, Refers
    <2>3. CASE Refers /\ Earlier \in DOMAIN history.map
      <3>1. /\ context' = history.map[Earlier] /\ since' = {}
            /\ history' = Touched(history, Earlier)
        BY <1>5, <2>3 DEF Build, Restore
      <3>2. Earlier \in Int /\ Kept(history) /\ EarlierIn(history, since)
        BY <2>3 DEF Earlier, HistoryInv
      <3>3. /\ Kept(Touched(history, Earlier)) /\ Touched(history, Earlier).map = history.map
            /\ YoungerIn(Touched(history, Earlier).order, {})
        BY <3>2, TouchedKept
      <3>4. context' = EarlierOutput /\ EarlierIn(Touched(history, Earlier), {})
        BY <2>3, <3>1, <3>2, <3>3, FS_EmptySet DEF EarlierIn
      <3> QED BY <2>1, <3>1, <3>3, <3>4 DEF HistoryInv
    <2>4. CASE Refers /\ Earlier \notin DOMAIN history.map
      BY <1>2, <1>5, <2>1, <2>4 DEF Build, teeVars
    <2> QED BY <2>2, <2>3, <2>4
  <1>6. CASE OtherRecords
    <2>1. /\ UNCHANGED <<context, link, phase>> /\ others' = others + 1
          /\ history' = Record(history, others', OtherOutput) /\ since' = since \cup {others'}
      BY <1>6 DEF OtherRecords, historyFrame
    <2>2. others' \in Nat /\ others' \in Int /\ others' # Earlier
      BY <2>1 DEF HistoryInv, Earlier
    <2>3. /\ Kept(Record(history, others', OtherOutput))
          /\ Refers => EarlierIn(Record(history, others', OtherOutput), since \cup {others'})
      BY <2>2, RecordKept DEF HistoryInv
    <2> QED BY <2>1, <2>2, <2>3 DEF HistoryInv, Refers
  <1>7. ASSUME NEW id \in 1..others, OtherRestores(id) PROVE HistoryInv'
    <2>1. /\ UNCHANGED <<context, link, phase, others>>
          /\ history' = Touched(history, id) /\ since' = since \cup {id}
      BY <1>7 DEF OtherRestores, historyFrame, Restore
    <2>2. id \in Int /\ id # Earlier /\ Kept(history)
      BY DEF HistoryInv, Earlier
    <2>3. /\ Kept(Touched(history, id)) /\ Touched(history, id).map = history.map
          /\ YoungerIn(history.order, since) => YoungerIn(Touched(history, id).order, since \cup {id})
      BY <2>2, TouchedKept
    <2>4. ASSUME Refers PROVE EarlierIn(Touched(history, id), since \cup {id})
      <3>1. EarlierIn(history, since)
        BY <2>4 DEF HistoryInv
      <3>2. /\ IsFiniteSet(since \cup {id}) /\ Cardinality(since \cup {id}) >= Cardinality(since)
            /\ Cardinality(since) \in Nat /\ Cardinality(since \cup {id}) \in Nat
        BY <3>1, LargerSet DEF EarlierIn
      <3> QED BY <2>2, <2>3, <3>1, <3>2, HistoryAssumption DEF EarlierIn
    <2> QED BY <2>1, <2>3, <2>4 DEF HistoryInv, Refers
  <1>8. CASE Expire
    BY <1>2, <1>8 DEF Expire, billVars, upVars
  <1>9. CASE \E b \in Links[link].batches : b.frames # <<>> /\ WholeBody(b.frames[1].chunk)
    BY <1>2, <1>9 DEF WholeBody
  <1>10. CASE PrimeFails
    BY <1>2, <1>10 DEF PrimeFails, NextCandidate, AllFailed
  <1>11. CASE PrimeBytes
    BY <1>2, <1>11 DEF PrimeBytes, billVars, upVars
  <1>12. CASE PrimeWhole \/ Ping \/ Leave
    BY <1>2, <1>12 DEF PrimeWhole, Ping, Leave, billVars, upVars
  <1>13. ASSUME NEW b, ConvertBytes(b), UNCHANGED <<phase, upVars>> PROVE HistoryInv'
    <2> DEFINE s == FoldLeft(ProcessChunk, conv, ChunksOf(b.frames))
    <2>1. \E x : Tee(x) \/ UNCHANGED teeVars
      <3>1. CASE proto = "chat"
        BY <1>13, <3>1 DEF ConvertBytes, PassThrough, FinishOnce, billVars
      <3>2. CASE proto # "chat"
        <4>1. AfterChunks(s, b.done)
          BY <1>13, <3>2 DEF ConvertBytes
        <4> HIDE DEF s
        <4> QED BY <4>1 DEF AfterChunks, End, FinishOnce, billVars
      <3> QED BY <3>1, <3>2
    <2> QED BY <1>1, <1>13, <2>1, TeeKeeps DEF upVars
  <1>14. CASE RelayReplayed \/ RelayBytes
    BY <1>13, <1>14 DEF RelayReplayed, RelayBytes
  <1>15. CASE RelayError
    <2>1. UNCHANGED teeVars
      BY <1>15 DEF RelayError, ConvertError, End, FinishOnce, billVars
    <2> QED BY <1>2, <1>15, <2>1 DEF RelayError, upVars
  <1>16. CASE RelayTail
    <2>1. \E x : Tee(x) \/ UNCHANGED teeVars
      BY <1>16 DEF RelayTail, End, FinishOnce, billVars
    <2> QED BY <1>1, <1>16, <2>1, TeeKeeps DEF RelayTail, upVars
  <1>17. CASE UNCHANGED vars
    BY <1>2, <1>17 DEF vars, upVars, billVars
  <1> QED BY <1>3, <1>4, <1>5, <1>6, <1>7, <1>8, <1>9, <1>10, <1>11, <1>12, <1>14, <1>15, <1>16,
             <1>17 DEF RelayNext

\* The earlier answer is in the history until MAX_ENTRIES others were recorded or restored
\* after it, every candidate is told all of it, also the one a fail-over brings, and the two
\* parts of the history agree and stay within its capacity (history.rs record, restore and
\* enrich_request_with_history).
THEOREM RelayContextKept == RelaySpec => []ContextKept
  <1>1. RelayInit => HistoryInv
    BY FirstHistory DEF RelayInit, HistoryInv
  <1>2. HistoryInv /\ [RelayNext]_vars => HistoryInv'
    BY HistoryStep
  <1>3. HistoryInv => ContextKept
    <2> SUFFICES ASSUME HistoryInv PROVE ContextKept
      OBVIOUS
    <2>1. ToSet(history.order) = DOMAIN history.map /\ Len(history.order) <= MaxEntries
      <3>1. DOMAIN history.order = 1..Len(history.order)
        BY LenProperties DEF HistoryInv, Kept
      <3> QED BY <3>1 DEF HistoryInv, Kept, ToSet
    <2>2. Refers /\ Live => context = EarlierOutput
      BY DEF HistoryInv, Live
    <2>3. Refers /\ Cardinality(since) < MaxEntries => Earlier \in DOMAIN history.map
      <3> SUFFICES ASSUME Refers, Cardinality(since) < MaxEntries, Earlier \notin DOMAIN history.map
                   PROVE  FALSE
        OBVIOUS
      <3>1. IsFiniteSet(since) /\ Cardinality(since) >= MaxEntries
        BY DEF HistoryInv, EarlierIn
      <3> QED BY <3>1, FS_CardinalityType, HistoryAssumption
    <2> QED BY <2>1, <2>2, <2>3 DEF ContextKept
  <1> QED BY <1>1, <1>2, <1>3, PTL DEF RelaySpec

-----------------------------------------------------------------------------
(* Folds.  A converter folds over reads, chunks, frames and calls; what such *)
(* a fold keeps is shown along the chain of its steps.                      *)

\* A set of numbers has a least one.
LEMMA LeastNumber ==
    ASSUME NEW T, T \subseteq Nat, T # {}
    PROVE  \E x \in T : \A y \in T : x <= y
  <1>1. PICK x \in T : \A y \in T : ~(<<y, x>> \in OpToRel(<, Nat))
    BY NatLessThanWellFounded, WFMin
  <1>2. ASSUME NEW m \in Nat, NEW n \in Nat, n < m PROVE <<n, m>> \in OpToRel(<, Nat)
    BY <1>2, Zenon DEF OpToRel
  <1>3. \A y \in T : ~(y < x)
    BY <1>1, <1>2
  <1> QED BY <1>3

\* What holds at 0 and is handed on up to n holds at n.
LEMMA Climb ==
    ASSUME NEW n \in Nat, NEW T, 0 \in T, \A k \in 1..n : k - 1 \in T => k \in T
    PROVE  n \in T
  <1> DEFINE Missing == {k \in 0..n : k \notin T}
  <1> SUFFICES ASSUME Missing # {} PROVE FALSE
    OBVIOUS
  <1>0. Missing \subseteq Nat
    OBVIOUS
  <1>1. PICK x \in Missing : \A y \in Missing : x <= y
    <2> HIDE DEF Missing
    <2> QED BY <1>0, LeastNumber
  <1>2. x \in 1..n /\ x - 1 \in 0..n /\ ~(x <= x - 1)
    BY <1>1
  <1> QED BY <1>1, <1>2

\* The operators the converters fold with, by name.
Applied(do, s, x) ==
    CASE do = "parse"   -> Parse(s, x)
      [] do = "chunk"   -> ProcessChunk(s, x)
      [] do = "frame"   -> ToolFrameDelta(s, x)
      [] do = "release" -> Release(s, x)
      [] do = "close"   -> CloseTool(s, x)
      [] do = "delta"   -> AppendToolDelta(s, x)
      [] OTHER          -> CloseToolBlock(s, x)

\* The folds of the converters.
ParseAll(base, q) == FoldLeft(Parse, base, q)
ProcessAll(base, q) == FoldLeft(ProcessChunk, base, q)
FrameAll(base, q) == FoldLeft(ToolFrameDelta, base, q)
ReleaseAll(base, q) == FoldLeft(Release, base, q)
CloseAll(base, q) == FoldLeft(CloseTool, base, q)
AppendAll(base, q) == FoldLeft(AppendToolDelta, base, q)
StopAll(base, q) == FoldLeft(CloseToolBlock, base, q)

\* h is the function by which FoldLeft is defined.
Folds(h, do, base, q, n) ==
    h = [S \in SUBSET (1..n) |-> IF S = {} THEN base ELSE Applied(do, h[S \ {Max(S)}], q[Max(S)])]

\* The largest of a set that reaches up to n.
LEMMA Top ==
    ASSUME NEW n \in Nat, NEW S \in SUBSET (1..n), n \in S
    PROVE  Max(S) = n
  <1>1. \A y \in S : n >= y
    OBVIOUS
  <1>2. \A x \in S : (\A y \in S : x >= y) => x = n
    OBVIOUS
  <1> QED BY <1>1, <1>2 DEF Max

\* There is such a function.
LEMMA FoldExists ==
    ASSUME NEW do, NEW base, NEW q, NEW n \in Nat
    PROVE  \E h : Folds(h, do, base, q, n)
  <1> DEFINE T == {k \in 0..n : \E h : Folds(h, do, base, q, k)}
  <1>1. 0 \in T
    <2> DEFINE h == [S \in SUBSET (1..0) |-> base]
    <2>1. Folds(h, do, base, q, 0)
      <3>1. \A S \in SUBSET (1..0) : S = {}
        OBVIOUS
      <3> QED BY <3>1 DEF Folds
    <2> QED BY <2>1
  <1>2. ASSUME NEW k \in 1..n, k - 1 \in T PROVE k \in T
    <2>1. PICK g : Folds(g, do, base, q, k - 1)
      BY <1>2
    <2> DEFINE h == [S \in SUBSET (1..k) |-> IF k \in S THEN Applied(do, g[S \ {k}], q[k]) ELSE g[S]]
    <2>2. ASSUME NEW S \in SUBSET (1..k)
          PROVE  h[S] = IF S = {} THEN base ELSE Applied(do, h[S \ {Max(S)}], q[Max(S)])
      <3>1. CASE k \in S
        <4>1. Max(S) = k /\ S # {} /\ S \ {k} \in SUBSET (1..k) /\ k \notin S \ {k}
          BY <3>1, Top
        <4>2. h[S] = Applied(do, g[S \ {k}], q[k]) /\ h[S \ {k}] = g[S \ {k}]
          BY <3>1, <4>1
        <4> QED BY <4>1, <4>2
      <3>2. CASE k \notin S
        <4>1. S \in SUBSET (1..(k - 1))
          BY <3>2
        <4>2. h[S] = g[S]
          BY <3>2
        <4>3. g[S] = IF S = {} THEN base ELSE Applied(do, g[S \ {Max(S)}], q[Max(S)])
          BY <2>1, <4>1 DEF Folds
        <4>4. S \ {Max(S)} \in SUBSET (1..k) /\ k \notin S \ {Max(S)}
          BY <3>2
        <4>5. h[S \ {Max(S)}] = g[S \ {Max(S)}]
          BY <4>4
        <4> QED BY <4>2, <4>3, <4>5
      <3> QED BY <3>1, <3>2
    <2>3. Folds(h, do, base, q, k)
      <3>1. h = [S \in SUBSET (1..k) |-> h[S]]
        OBVIOUS
      <3> HIDE DEF h
      <3> QED BY <2>2, <3>1 DEF Folds
    <2> QED BY <2>3
  <1> QED BY <1>1, <1>2, Climb

\* A fold as the chain of its steps.
Chain(g, do, base, q, n, result) ==
    /\ g[0] = base /\ g[n] = result
    /\ \A k \in 1..n : g[k] = Applied(do, g[k - 1], q[k])

\* The values of that function on 1..k are the chain.
LEMMA FoldChain ==
    ASSUME NEW do, NEW base, NEW q, NEW n \in Nat, NEW h, Folds(h, do, base, q, n)
    PROVE  \E g : Chain(g, do, base, q, n, h[1..n])
  <1> DEFINE g == [k \in 0..n |-> h[1..k]]
  <1>1. g[0] = base
    BY DEF Folds
  <1>2. ASSUME NEW k \in 1..n PROVE g[k] = Applied(do, g[k - 1], q[k])
    <2>1. 1..k \in SUBSET (1..n) /\ 1..k # {} /\ Max(1..k) = k /\ (1..k) \ {k} = 1..(k - 1)
      BY Top
    <2>2. h[1..k] = Applied(do, h[(1..k) \ {k}], q[k])
      BY <2>1 DEF Folds
    <2>3. k \in 0..n /\ k - 1 \in 0..n
      OBVIOUS
    <2>4. g[k] = h[1..k] /\ g[k - 1] = h[1..(k - 1)]
      BY <2>3
    <2> QED BY <2>1, <2>2, <2>4
  <1>3. g[n] = h[1..n]
    OBVIOUS
  <1> HIDE DEF g
  <1> QED BY <1>1, <1>2, <1>3 DEF Chain

\* Each fold of the converters is such a chain: over the frames of a read,
LEMMA ParseChain ==
    ASSUME NEW base, NEW q, NEW n \in Nat, DOMAIN q = 1..n
    PROVE  \E g : Chain(g, "parse", base, q, n, ParseAll(base, q))
  <1> DEFINE h == CHOOSE h : h = [S \in SUBSET DOMAIN q |->
                                    IF S = {} THEN base ELSE Parse(h[S \ {Max(S)}], q[Max(S)])]
  <1>1. \A s, x : Applied("parse", s, x) = Parse(s, x)
    BY DEF Applied
  <1>2. PICK f : Folds(f, "parse", base, q, n)
    BY FoldExists
  <1>3. f = [S \in SUBSET DOMAIN q |-> IF S = {} THEN base ELSE Parse(f[S \ {Max(S)}], q[Max(S)])]
    BY <1>1, <1>2 DEF Folds
  <1>4. h = [S \in SUBSET DOMAIN q |-> IF S = {} THEN base ELSE Parse(h[S \ {Max(S)}], q[Max(S)])]
    BY <1>3
  <1>5. h[1..n] = ParseAll(base, q)
    BY DEF ParseAll, FoldLeft, MapThenFoldSet
  <1> HIDE DEF h
  <1>6. Folds(h, "parse", base, q, n)
    BY <1>1, <1>4 DEF Folds
  <1> QED BY <1>5, <1>6, FoldChain

\* over the chunks of a read,
LEMMA ProcessChunkChain ==
    ASSUME NEW base, NEW q, NEW n \in Nat, DOMAIN q = 1..n
    PROVE  \E g : Chain(g, "chunk", base, q, n, ProcessAll(base, q))
  <1> DEFINE h == CHOOSE h : h = [S \in SUBSET DOMAIN q |->
                                    IF S = {} THEN base ELSE ProcessChunk(h[S \ {Max(S)}], q[Max(S)])]
  <1>1. \A s, x : Applied("chunk", s, x) = ProcessChunk(s, x)
    BY DEF Applied
  <1>2. PICK f : Folds(f, "chunk", base, q, n)
    BY FoldExists
  <1>3. f = [S \in SUBSET DOMAIN q |-> IF S = {} THEN base ELSE ProcessChunk(f[S \ {Max(S)}], q[Max(S)])]
    BY <1>1, <1>2 DEF Folds
  <1>4. h = [S \in SUBSET DOMAIN q |-> IF S = {} THEN base ELSE ProcessChunk(h[S \ {Max(S)}], q[Max(S)])]
    BY <1>3
  <1>5. h[1..n] = ProcessAll(base, q)
    BY DEF ProcessAll, FoldLeft, MapThenFoldSet
  <1> HIDE DEF h
  <1>6. Folds(h, "chunk", base, q, n)
    BY <1>1, <1>4 DEF Folds
  <1> QED BY <1>5, <1>6, FoldChain

\* over the tool frames of a chunk,
LEMMA ToolFrameDeltaChain ==
    ASSUME NEW base, NEW q, NEW n \in Nat, DOMAIN q = 1..n
    PROVE  \E g : Chain(g, "frame", base, q, n, FrameAll(base, q))
  <1> DEFINE h == CHOOSE h : h = [S \in SUBSET DOMAIN q |->
                                    IF S = {} THEN base ELSE ToolFrameDelta(h[S \ {Max(S)}], q[Max(S)])]
  <1>1. \A s, x : Applied("frame", s, x) = ToolFrameDelta(s, x)
    BY DEF Applied
  <1>2. PICK f : Folds(f, "frame", base, q, n)
    BY FoldExists
  <1>3. f = [S \in SUBSET DOMAIN q |-> IF S = {} THEN base ELSE ToolFrameDelta(f[S \ {Max(S)}], q[Max(S)])]
    BY <1>1, <1>2 DEF Folds
  <1>4. h = [S \in SUBSET DOMAIN q |-> IF S = {} THEN base ELSE ToolFrameDelta(h[S \ {Max(S)}], q[Max(S)])]
    BY <1>3
  <1>5. h[1..n] = FrameAll(base, q)
    BY DEF FrameAll, FoldLeft, MapThenFoldSet
  <1> HIDE DEF h
  <1>6. Folds(h, "frame", base, q, n)
    BY <1>1, <1>4 DEF Folds
  <1> QED BY <1>5, <1>6, FoldChain

\* over the calls that are ready,
LEMMA ReleaseChain ==
    ASSUME NEW base, NEW q, NEW n \in Nat, DOMAIN q = 1..n
    PROVE  \E g : Chain(g, "release", base, q, n, ReleaseAll(base, q))
  <1> DEFINE h == CHOOSE h : h = [S \in SUBSET DOMAIN q |->
                                    IF S = {} THEN base ELSE Release(h[S \ {Max(S)}], q[Max(S)])]
  <1>1. \A s, x : Applied("release", s, x) = Release(s, x)
    BY DEF Applied
  <1>2. PICK f : Folds(f, "release", base, q, n)
    BY FoldExists
  <1>3. f = [S \in SUBSET DOMAIN q |-> IF S = {} THEN base ELSE Release(f[S \ {Max(S)}], q[Max(S)])]
    BY <1>1, <1>2 DEF Folds
  <1>4. h = [S \in SUBSET DOMAIN q |-> IF S = {} THEN base ELSE Release(h[S \ {Max(S)}], q[Max(S)])]
    BY <1>3
  <1>5. h[1..n] = ReleaseAll(base, q)
    BY DEF ReleaseAll, FoldLeft, MapThenFoldSet
  <1> HIDE DEF h
  <1>6. Folds(h, "release", base, q, n)
    BY <1>1, <1>4 DEF Folds
  <1> QED BY <1>5, <1>6, FoldChain

\* over the calls that are closed,
LEMMA CloseToolChain ==
    ASSUME NEW base, NEW q, NEW n \in Nat, DOMAIN q = 1..n
    PROVE  \E g : Chain(g, "close", base, q, n, CloseAll(base, q))
  <1> DEFINE h == CHOOSE h : h = [S \in SUBSET DOMAIN q |->
                                    IF S = {} THEN base ELSE CloseTool(h[S \ {Max(S)}], q[Max(S)])]
  <1>1. \A s, x : Applied("close", s, x) = CloseTool(s, x)
    BY DEF Applied
  <1>2. PICK f : Folds(f, "close", base, q, n)
    BY FoldExists
  <1>3. f = [S \in SUBSET DOMAIN q |-> IF S = {} THEN base ELSE CloseTool(f[S \ {Max(S)}], q[Max(S)])]
    BY <1>1, <1>2 DEF Folds
  <1>4. h = [S \in SUBSET DOMAIN q |-> IF S = {} THEN base ELSE CloseTool(h[S \ {Max(S)}], q[Max(S)])]
    BY <1>3
  <1>5. h[1..n] = CloseAll(base, q)
    BY DEF CloseAll, FoldLeft, MapThenFoldSet
  <1> HIDE DEF h
  <1>6. Folds(h, "close", base, q, n)
    BY <1>1, <1>4 DEF Folds
  <1> QED BY <1>5, <1>6, FoldChain

\* over the tool frames of a chunk for an Anthropic client,
LEMMA AppendToolDeltaChain ==
    ASSUME NEW base, NEW q, NEW n \in Nat, DOMAIN q = 1..n
    PROVE  \E g : Chain(g, "delta", base, q, n, AppendAll(base, q))
  <1> DEFINE h == CHOOSE h : h = [S \in SUBSET DOMAIN q |->
                                    IF S = {} THEN base ELSE AppendToolDelta(h[S \ {Max(S)}], q[Max(S)])]
  <1>1. \A s, x : Applied("delta", s, x) = AppendToolDelta(s, x)
    BY DEF Applied
  <1>2. PICK f : Folds(f, "delta", base, q, n)
    BY FoldExists
  <1>3. f = [S \in SUBSET DOMAIN q |-> IF S = {} THEN base ELSE AppendToolDelta(f[S \ {Max(S)}], q[Max(S)])]
    BY <1>1, <1>2 DEF Folds
  <1>4. h = [S \in SUBSET DOMAIN q |-> IF S = {} THEN base ELSE AppendToolDelta(h[S \ {Max(S)}], q[Max(S)])]
    BY <1>3
  <1>5. h[1..n] = AppendAll(base, q)
    BY DEF AppendAll, FoldLeft, MapThenFoldSet
  <1> HIDE DEF h
  <1>6. Folds(h, "delta", base, q, n)
    BY <1>1, <1>4 DEF Folds
  <1> QED BY <1>5, <1>6, FoldChain

\* and over the tool blocks that are closed.
LEMMA CloseToolBlockChain ==
    ASSUME NEW base, NEW q, NEW n \in Nat, DOMAIN q = 1..n
    PROVE  \E g : Chain(g, "stop", base, q, n, StopAll(base, q))
  <1> DEFINE h == CHOOSE h : h = [S \in SUBSET DOMAIN q |->
                                    IF S = {} THEN base ELSE CloseToolBlock(h[S \ {Max(S)}], q[Max(S)])]
  <1>1. \A s, x : Applied("stop", s, x) = CloseToolBlock(s, x)
    BY DEF Applied
  <1>2. PICK f : Folds(f, "stop", base, q, n)
    BY FoldExists
  <1>3. f = [S \in SUBSET DOMAIN q |-> IF S = {} THEN base ELSE CloseToolBlock(f[S \ {Max(S)}], q[Max(S)])]
    BY <1>1, <1>2 DEF Folds
  <1>4. h = [S \in SUBSET DOMAIN q |-> IF S = {} THEN base ELSE CloseToolBlock(h[S \ {Max(S)}], q[Max(S)])]
    BY <1>3
  <1>5. h[1..n] = StopAll(base, q)
    BY DEF StopAll, FoldLeft, MapThenFoldSet
  <1> HIDE DEF h
  <1>6. Folds(h, "stop", base, q, n)
    BY <1>1, <1>4 DEF Folds
  <1> QED BY <1>5, <1>6, FoldChain


-----------------------------------------------------------------------------
(* One end.                                                                 *)

\* What was sent so far, without an end or with one, at the end.
Running(o) == o \in Seq(ToSet(o)) /\ \A i \in 1..Len(o) : o[i].ev \notin Ends
Ended(o) == o \in Seq(ToSet(o)) /\ o # <<>> /\ \A i \in 1..Len(o) : o[i].ev \in Ends <=> i = Len(o)

\* A tool call was announced.
ToolShown(o) == \E i \in 1..Len(o) : o[i].ev = "added" /\ o[i].data = <<"tool_use">>

\* A converter at work: Responses events go on until the response is final, also after a
\* failure; Anthropic events until a failure.  It has seen a finish only if one was sent, and
\* an Anthropic one knows whether it has shown a tool call.
Responding(s, failed, seen) ==
    /\ {"out", "finalized", "failed_error", "status", "finish_seen", "tools"} \subseteq DOMAIN s
    /\ s.finalized = FALSE /\ s.failed_error = failed
    /\ s.status \in {"completed", "incomplete"}
    /\ s.finish_seen \in BOOLEAN /\ (seen \/ s.finish_seen = FALSE)
    /\ IsFiniteSet(DOMAIN s.tools)
    /\ Running(s.out)

Messaging(s, final, seen) ==
    /\ {"out", "finalized", "failed", "has_tool_use", "stop_reason", "reported", "tools"} \subseteq DOMAIN s
    /\ s.finalized = final /\ s.failed = FALSE /\ s.reported = None
    /\ s.stop_reason \in {None, "max_tokens", "end_turn", "tool_use"} /\ (seen \/ s.stop_reason = None)
    /\ s.stop_reason = "tool_use" => s.has_tool_use = TRUE
    /\ s.has_tool_use \in BOOLEAN /\ (s.has_tool_use = TRUE <=> ToolShown(s.out))
    /\ IsFiniteSet(DOMAIN s.tools)
    /\ Running(s.out)

Broken(s) ==
    /\ {"out", "finalized", "failed", "reported"} \subseteq DOMAIN s
    /\ s.finalized = FALSE /\ s.failed = TRUE /\ s.reported = None
    /\ Ended(s.out) /\ Last(s.out).ev = "error"

\* An end that says of itself that it came too early.
Early(s) == \/ Last(s.out).ev \in {"incomplete", "failed", "error"}
            \/ (proto = "anthropic" /\ s.reported = "max_tokens")

\* The stop reason speaks of tools exactly when there was one.
Truthful(s) == s.reported \notin {None, "max_tokens"} => (s.reported = "tool_use" <=> ToolShown(s.out))

\* Appending keeps what is there.
LEMMA Grown ==
    ASSUME NEW o, o \in Seq(ToSet(o)), NEW e
    PROVE  LET p == Append(o, e)
           IN  /\ p \in Seq(ToSet(p)) /\ p # <<>> /\ Len(o) \in Nat /\ Len(p) = Len(o) + 1
               /\ \A i \in 1..Len(o) : p[i] = o[i]
               /\ p[Len(p)] = e
  <1> DEFINE S == ToSet(o) \cup {e}
             p == Append(o, e)
  <1>1. o \in Seq(S) /\ e \in S
    OBVIOUS
  <1>2. /\ p \in Seq(S) /\ Len(p) = Len(o) + 1 /\ p # <<>> /\ Len(o) \in Nat
        /\ \A i \in 1..Len(o) : p[i] = o[i]
        /\ p[Len(p)] = e
    BY <1>1, AppendProperties, LenProperties
  <1> HIDE DEF p
  <1>3. p \in [1..Len(p) -> S] /\ Len(p) \in Nat /\ DOMAIN p = 1..Len(p)
    BY <1>2, LenProperties
  <1>4. \A i \in 1..Len(p) : p[i] \in ToSet(p)
    BY <1>3 DEF ToSet
  <1>5. p \in Seq(ToSet(p))
    BY <1>3, <1>4, SeqDef
  <1> QED BY <1>2, <1>5 DEF p

\* An event more: the stream goes on or has ended.
LEMMA Appended ==
    ASSUME NEW o, Running(o), NEW e
    PROVE  /\ e.ev \notin Ends => Running(Append(o, e))
           /\ e.ev \in Ends => Ended(Append(o, e))
  BY Grown DEF Running, Ended

\* The event is the last one, and may announce a tool call.
LEMMA LastAppended ==
    ASSUME NEW o, o \in Seq(ToSet(o)), NEW e
    PROVE  /\ Last(Append(o, e)) = e
           /\ ToolShown(Append(o, e)) <=> ToolShown(o) \/ (e.ev = "added" /\ e.data = <<"tool_use">>)
  <1> DEFINE p == Append(o, e)
  <1>1. /\ Len(o) \in Nat /\ Len(p) = Len(o) + 1
        /\ \A i \in 1..Len(o) : p[i] = o[i]
        /\ p[Len(p)] = e
    BY Grown
  <1> HIDE DEF p
  <1>2. Last(p) = e
    BY <1>1 DEF Last
  <1>3. ASSUME ToolShown(p) PROVE ToolShown(o) \/ (e.ev = "added" /\ e.data = <<"tool_use">>)
    BY <1>1, <1>3 DEF ToolShown
  <1>4. ASSUME ToolShown(o) PROVE ToolShown(p)
    <2>1. PICK i \in 1..Len(o) : o[i].ev = "added" /\ o[i].data = <<"tool_use">>
      BY <1>4 DEF ToolShown
    <2>2. i \in 1..Len(p) /\ p[i] = o[i]
      BY <1>1
    <2> QED BY <2>1, <2>2 DEF ToolShown
  <1>5. ASSUME e.ev = "added" /\ e.data = <<"tool_use">> PROVE ToolShown(p)
    <2>1. Len(p) \in 1..Len(p)
      BY <1>1
    <2> QED BY <1>1, <1>5, <2>1 DEF ToolShown
  <1> QED BY <1>2, <1>3, <1>4, <1>5 DEF p

-----------------------------------------------------------------------------
(* The Responses converter.                                                 *)

\* An event that is no end.
LEMMA EmitResponding ==
    ASSUME NEW s, NEW f, NEW seen, Responding(s, f, seen), NEW ev, ev \notin Ends, NEW at, NEW data
    PROVE  Responding(Emit(s, ev, at, data), f, seen)
  <1> DEFINE e == [ev |-> ev, at |-> at, data |-> data]
  <1>1. Running(Append(s.out, e))
    <2>1. e.ev = ev
      OBVIOUS
    <2> HIDE DEF e
    <2> QED BY <2>1, Appended DEF Responding
  <1> HIDE DEF e
  <1> QED BY <1>1 DEF Responding, Emit, e

\* Text, opened first if it has to be.
LEMMA TextResponding ==
    ASSUME NEW s, NEW f, NEW seen, Responding(s, f, seen), NEW delta
    PROVE  Responding(AppendTextDelta(s, delta), f, seen)
  <1>1. Responding(OpenText(s), f, seen)
    <2> DEFINE t == [Place(s, Message) EXCEPT !.text_index = Len(s.output_order)]
    <2>1. Responding(t, f, seen)
      BY DEF Responding, Place
    <2> HIDE DEF t
    <2>2. Responding(Emit(t, "added", Len(s.output_order), <<"text">>), f, seen)
      BY <2>1, EmitResponding DEF Ends
    <2> QED BY <2>2 DEF OpenText, t
  <1>2. ASSUME NEW r, Responding(r, f, seen) PROVE Responding(ExtendText(r, delta), f, seen)
    <2> DEFINE t == [r EXCEPT !.text = @ \o delta]
    <2>1. Responding(t, f, seen)
      BY <1>2 DEF Responding
    <2> HIDE DEF t
    <2> QED BY <2>1, EmitResponding DEF Ends, ExtendText, t
  <1> QED BY <1>1, <1>2 DEF AppendTextDelta

\* Reasoning, opened first or again.
LEMMA ReasoningResponding ==
    ASSUME NEW s, NEW f, NEW seen, Responding(s, f, seen), NEW delta
    PROVE  Responding(AppendReasoningDelta(s, delta), f, seen)
  <1>1. Responding(OpenReasoning(s), f, seen)
    <2> DEFINE t == [Place(s, Reasoning) EXCEPT !.reasoning_index = Len(s.output_order)]
               u == [s EXCEPT !.reasoning_done = FALSE]
    <2>1. Responding(t, f, seen) /\ Responding(u, f, seen)
      BY DEF Responding, Place
    <2> HIDE DEF t, u
    <2>2. /\ Responding(Emit(t, "added", Len(s.output_order), <<"thinking">>), f, seen)
          /\ Responding(Emit(u, "added", s.reasoning_index, <<"thinking">>), f, seen)
      BY <2>1, EmitResponding DEF Ends
    <2> QED BY <2>2 DEF OpenReasoning, t, u
  <1>2. ASSUME NEW r, Responding(r, f, seen) PROVE Responding(ExtendReasoning(r, delta), f, seen)
    <2> DEFINE tools == [k \in DOMAIN r.tools |-> [r.tools[k] EXCEPT
                            !.reasoning = IF r.tools[k].started THEN @ \o delta ELSE @]]
               t == [r EXCEPT !.reasoning = @ \o delta, !.tools = tools]
    <2>1. DOMAIN tools = DOMAIN r.tools
      OBVIOUS
    <2> HIDE DEF tools
    <2>2. Responding(t, f, seen)
      BY <1>2, <2>1 DEF Responding
    <2> HIDE DEF t
    <2>3. Responding(Emit(t, "delta", r.reasoning_index, delta), f, seen)
      BY <2>2, EmitResponding DEF Ends
    <2> QED BY <2>3 DEF ExtendReasoning, t, tools
  <1> QED BY <1>1, <1>2 DEF AppendReasoningDelta

\* What the think separator lets through.
LEMMA SplitResponding ==
    ASSUME NEW s, NEW f, NEW seen, Responding(s, f, seen), NEW parts
    PROVE  Responding(Split(s, parts), f, seen)
  <1> DEFINE t == AppendTextDelta(AppendReasoningDelta(s, parts.r), parts.t)
  <1>1. Responding(t, f, seen)
    BY ReasoningResponding, TextResponding
  <1> HIDE DEF t
  <1>2. Responding([t EXCEPT !.think = parts.st], f, seen)
    BY <1>1 DEF Responding
  <1> QED BY <1>2 DEF Split, t

\* Reasoning or text is closed.
LEMMA ClosedResponding ==
    ASSUME NEW s, NEW f, NEW seen, Responding(s, f, seen)
    PROVE  Responding(CloseReasoning(s), f, seen) /\ Responding(CloseText(s), f, seen)
  <1> DEFINE t == [s EXCEPT !.reasoning_done = TRUE]
             u == [s EXCEPT !.text_done = TRUE]
  <1>1. Responding(t, f, seen) /\ Responding(u, f, seen)
    BY DEF Responding
  <1> HIDE DEF t, u
  <1>2. /\ Responding(Emit(t, "done", s.reasoning_index, s.reasoning), f, seen)
        /\ Responding(Emit(u, "done", s.text_index, s.text), f, seen)
    BY <1>1, EmitResponding DEF Ends
  <1> QED BY <1>2 DEF CloseReasoning, CloseText, t, u

\* A call gets its place.
LEMMA ReleaseResponding ==
    ASSUME NEW s, NEW f, NEW seen, Responding(s, f, seen), NEW k
    PROVE  Responding(Release(s, k), f, seen)
  <1> DEFINE t == [s EXCEPT !.tools[k] =
                    [@ EXCEPT !.output_index = Len(s.output_order), !.released = TRUE,
                              !.arguments = @ \o s.tools[k].pending_args,
                              !.pending_args = <<>>]]
             p == Place(t, Tool(k))
             e == Emit(p, "added", Len(s.output_order), <<"tool_use">>)
  <1>1. Responding(t, f, seen)
    BY DEF Responding
  <1> HIDE DEF t
  <1>2. Responding(p, f, seen)
    BY <1>1 DEF Responding, Place
  <1> HIDE DEF p
  <1>3. Responding(e, f, seen)
    BY <1>2, EmitResponding DEF Ends
  <1> HIDE DEF e
  <1>4. Responding(Emit(e, "delta", Len(s.output_order), s.tools[k].pending_args), f, seen)
    BY <1>3, EmitResponding DEF Ends
  <1> QED BY <1>3, <1>4 DEF Release, EmitIf, e, p, t

\* InOrder lists a finite set.
LEMMA Listed ==
    ASSUME NEW S, IsFiniteSet(S) PROVE \E n \in Nat : DOMAIN InOrder(S) = 1..n
  BY FS_CardinalityType DEF InOrder

\* All calls that are ready get theirs.
LEMMA ReadyResponding ==
    ASSUME NEW s, NEW f, NEW seen, Responding(s, f, seen), NEW force
    PROVE  Responding(ReleaseReadyTools(s, force), f, seen)
  <1> DEFINE waiting == {k \in DOMAIN s.tools : ~s.tools[k].released}
             ready_ == {k \in waiting : /\ s.tools[k].started
                                        /\ force \/ \A j \in waiting : j < k => s.tools[j].started}
             q == InOrder(ready_)
  <1>1. ReleaseReadyTools(s, force) = ReleaseAll(s, q)
    BY DEF ReleaseReadyTools, ReleaseAll
  <1>2. PICK n \in Nat : DOMAIN q = 1..n
    <2>1. IsFiniteSet(ready_)
      BY FS_Subset DEF Responding
    <2> HIDE DEF ready_
    <2> QED BY <2>1, Listed
  <1> HIDE DEF q
  <1>3. PICK g : Chain(g, "release", s, q, n, ReleaseAll(s, q))
    BY <1>2, ReleaseChain
  <1> DEFINE T == {k \in 0..n : Responding(g[k], f, seen)}
  <1>4. 0 \in T
    BY <1>3 DEF Chain
  <1>5. ASSUME NEW k \in 1..n, k - 1 \in T PROVE k \in T
    BY <1>3, <1>5, ReleaseResponding DEF Chain, Applied
  <1>6. n \in T
    <2> HIDE DEF T
    <2> QED BY <1>4, <1>5, Climb
  <1> QED BY <1>1, <1>3, <1>6 DEF Chain

\* A tool frame.
LEMMA FrameResponding ==
    ASSUME NEW s, NEW f, NEW seen, Responding(s, f, seen), NEW x
    PROVE  Responding(ToolFrameDelta(s, x), f, seen)
  <1>1. ASSUME NEW r, Responding(r, f, seen), NEW k, NEW thought
        PROVE  Responding(MergeAt(r, k, x, thought), f, seen)
    <2> DEFINE tools == [j \in DOMAIN r.tools \cup {k} |->
                            IF j = k THEN Merge(ToolAt(r, k), x, thought) ELSE r.tools[j]]
               t == [r EXCEPT !.last_tool_key = k, !.tools = tools]
    <2>1. IsFiniteSet(DOMAIN tools)
      <3>1. DOMAIN tools = DOMAIN r.tools \cup {k}
        OBVIOUS
      <3> HIDE DEF tools
      <3> QED BY <1>1, <3>1, FS_AddElement DEF Responding
    <2> HIDE DEF tools
    <2>2. Responding(t, f, seen)
      BY <1>1, <2>1 DEF Responding
    <2> HIDE DEF t
    <2>3. Responding(Emit(t, "delta", ToolAt(r, k).output_index, x.args), f, seen)
      BY <2>2, EmitResponding DEF Ends
    <2> QED BY <2>2, <2>3 DEF MergeAt, EmitIf, t, tools
  <1>2. Responding(CloseReasoning(s), f, seen)
    BY ClosedResponding
  <1> QED BY <1>1, <1>2, ReadyResponding DEF ToolFrameDelta, AppendToolCallDelta

\* A call is closed or dropped.
LEMMA ToolClosedResponding ==
    ASSUME NEW s, NEW f, NEW seen, Responding(s, f, seen), NEW k
    PROVE  Responding(CloseTool(s, k), f, seen)
  <1>1. Responding(CloseNamed(s, k, s.tools[k]), f, seen)
    <2> DEFINE t == [s EXCEPT !.tools[k] = [s.tools[k] EXCEPT !.done = TRUE, !.id = Given(@, "fallback")]]
               e == EmitIf(ToolContext[s.tools[k].name] = "custom" /\ s.tools[k].arguments # <<>>, t,
                           "delta", s.tools[k].output_index, s.tools[k].arguments)
    <2>1. Responding(t, f, seen)
      BY DEF Responding
    <2> HIDE DEF t
    <2>2. Responding(e, f, seen)
      BY <2>1, EmitResponding DEF Ends, EmitIf
    <2> HIDE DEF e
    <2>3. Responding(Emit(e, "done", s.tools[k].output_index, s.tools[k].arguments), f, seen)
      BY <2>2, EmitResponding DEF Ends
    <2> QED BY <2>3 DEF CloseNamed, e, t
  <1>2. Responding([s EXCEPT !.tools[k].done = TRUE, !.dropped_tools = @ + 1], f, seen)
    BY DEF Responding
  <1> QED BY <1>1, <1>2 DEF CloseTool

\* All calls are.
LEMMA ToolsClosedResponding ==
    ASSUME NEW s, NEW f, NEW seen, Responding(s, f, seen), NEW q, NEW n \in Nat, DOMAIN q = 1..n
    PROVE  Responding(CloseAll(s, q), f, seen)
  <1>1. PICK g : Chain(g, "close", s, q, n, CloseAll(s, q))
    BY CloseToolChain
  <1> DEFINE T == {k \in 0..n : Responding(g[k], f, seen)}
  <1>2. 0 \in T
    BY <1>1 DEF Chain
  <1>3. ASSUME NEW k \in 1..n, k - 1 \in T PROVE k \in T
    BY <1>1, <1>3, ToolClosedResponding DEF Chain, Applied
  <1>4. n \in T
    <2> HIDE DEF T
    <2> QED BY <1>2, <1>3, Climb
  <1> QED BY <1>1, <1>4 DEF Chain

\* Everything is closed.
LEMMA DoneResponding ==
    ASSUME NEW s, NEW f, NEW seen, Responding(s, f, seen)
    PROVE  Responding(DoneDeltaEvents(s), f, seen)
  <1>1. ASSUME NEW r, Responding(r, f, seen) PROVE Responding(CloseTools(r), f, seen)
    <2>1. PICK n \in Nat : DOMAIN Keys(r.tools) = 1..n
      BY <1>1, Listed DEF Keys, Responding
    <2>2. Responding(CloseAll(r, Keys(r.tools)), f, seen)
      BY <1>1, <2>1, ToolsClosedResponding
    <2> QED BY <2>2 DEF CloseTools, CloseAll
  <1> QED BY <1>1, ReadyResponding, ClosedResponding DEF DoneDeltaEvents

\* A chunk: a finish in it is one that was sent.
LEMMA ConvertResponding ==
    ASSUME NEW s, NEW f, NEW seen, Responding(s, f, seen), NEW c,
           c.tools \in Seq(ToSet(c.tools)), c.finish # None => seen
    PROVE  Responding(ConvertChunk(s, c), f, seen)
  <1> DEFINE a == CreateResponse(s)
             b == AppendTextDelta(FeedContent(AppendReasoningDelta(a, c.reasoning), c.content), Trim(c.refusal))
             d == FrameAll(b, c.tools)
  <1>1. Responding(a, f, seen)
    <2> DEFINE t == [s EXCEPT !.created = TRUE]
    <2>1. Responding(t, f, seen)
      BY DEF Responding
    <2> HIDE DEF t
    <2>2. Responding(Emit(t, "created", NoIndex, <<>>), f, seen)
      BY <2>1, EmitResponding DEF Ends
    <2> QED BY <2>2 DEF CreateResponse, t
  <1> HIDE DEF a
  <1>2. Responding(b, f, seen)
    BY <1>1, ReasoningResponding, SplitResponding, TextResponding DEF FeedContent
  <1> HIDE DEF b
  <1>3. Responding(d, f, seen)
    <2> DEFINE q == c.tools
               n == Len(q)
    <2>1. n \in Nat /\ DOMAIN q = 1..n
      BY LenProperties
    <2> HIDE DEF q, n
    <2>2. PICK g : Chain(g, "frame", b, q, n, FrameAll(b, q))
      BY <2>1, ToolFrameDeltaChain
    <2> DEFINE T == {k \in 0..n : Responding(g[k], f, seen)}
    <2>3. 0 \in T
      BY <1>2, <2>1, <2>2 DEF Chain
    <2>4. ASSUME NEW k \in 1..n, k - 1 \in T PROVE k \in T
      BY <2>1, <2>2, <2>4, FrameResponding DEF Chain, Applied
    <2>5. n \in T
      <3> HIDE DEF T
      <3> QED BY <2>1, <2>3, <2>4, Climb
    <2> QED BY <2>2, <2>5 DEF q, Chain
  <1> HIDE DEF d
  <1>4. ASSUME c.finish # None PROVE Responding(ApplyFinishReason(d, c.finish), f, seen)
    BY <1>3, <1>4 DEF Responding, ApplyFinishReason
  <1>5. Responding(FinishChunk(d, c.finish), f, seen)
    BY <1>3, <1>4, DoneResponding DEF FinishChunk
  <1> QED BY <1>5 DEF ConvertChunk, FrameAll, a, b, d

\* However the response ends, it has one end, and that admits a failure or a missing finish.
LEMMA ResponseEnds ==
    ASSUME NEW s, NEW f \in BOOLEAN, NEW seen \in BOOLEAN, Responding(s, f, seen),
           NEW truncated \in BOOLEAN
    PROVE  LET o == ResponsesFinalize(s, truncated).out
           IN  Ended(o) /\ (f \/ (truncated /\ ~seen) => Last(o).ev \in {"incomplete", "failed"})
  <1> DEFINE t == DoneDeltaEvents(Split(s, Flush(s.think)))
             status == FinalStatus(t, truncated)
             u == [t EXCEPT !.finalized = TRUE, !.status = status, !.output = FinalOutput(t)]
             e == [ev |-> status, at |-> NoIndex, data |-> <<>>]
  <1>1. Responding(t, f, seen)
    BY SplitResponding, DoneResponding
  <1> HIDE DEF t
  <1>2. status \in Ends /\ (f \/ (truncated /\ ~seen) => status \in {"incomplete", "failed"})
    <2>1. t.failed_error = f /\ t.status \in {"completed", "incomplete"} /\ (seen \/ t.finish_seen = FALSE)
      BY <1>1 DEF Responding
    <2>2. CASE f
      BY <2>1, <2>2 DEF FinalStatus, Ends
    <2>3. CASE ~f /\ truncated /\ ~HasAnyOutput(t)
      BY <2>1, <2>3 DEF FinalStatus, Ends
    <2>4. CASE ~f /\ truncated /\ HasAnyOutput(t) /\ ~t.finish_seen
      BY <2>1, <2>4 DEF FinalStatus, Ends
    <2>5. CASE ~f /\ (truncated => HasAnyOutput(t) /\ t.finish_seen)
      <3>1. f \/ (truncated /\ ~seen) => FALSE
        BY <2>1, <2>5
      <3>2. status \in {"failed", t.status}
        BY <2>1, <2>5 DEF FinalStatus
      <3> QED BY <2>1, <3>1, <3>2 DEF Ends
    <2> QED BY <2>2, <2>3, <2>4, <2>5
  <1> HIDE DEF status
  <1>3. u.out = t.out /\ "out" \in DOMAIN u /\ Running(t.out)
    BY <1>1 DEF Responding
  <1> HIDE DEF u
  <1>4. Emit(u, status, NoIndex, <<>>).out = Append(t.out, e)
    BY <1>3 DEF Emit
  <1>5. e.ev = status
    OBVIOUS
  <1> HIDE DEF e
  <1>6. Ended(Append(t.out, e)) /\ Last(Append(t.out, e)).ev = status
    BY <1>2, <1>3, <1>5, Appended, LastAppended DEF Running
  <1>7. ResponsesFinalize(s, truncated).out = Append(t.out, e)
    BY <1>4 DEF ResponsesFinalize, EndClosed, EndWith, Responding, u, status, t
  <1> QED BY <1>2, <1>6, <1>7

-----------------------------------------------------------------------------
(* The Anthropic converter.                                                 *)

\* An event that neither ends the message nor announces a tool call.
LEMMA FrameMessaging ==
    ASSUME NEW s, NEW z, NEW seen, Messaging(s, z, seen), NEW ev, ev \notin Ends, NEW at, NEW data,
           ~(ev = "added" /\ data = <<"tool_use">>)
    PROVE  Messaging(Frame(s, ev, at, data), z, seen)
  <1> DEFINE e == [ev |-> ev, at |-> at, data |-> data]
             o == Append(s.out, e)
             t == [s EXCEPT !.out = o]
  <1>1. Running(o) /\ (ToolShown(o) <=> ToolShown(s.out))
    <2>1. e.ev = ev /\ e.data = data
      OBVIOUS
    <2> HIDE DEF e
    <2> QED BY <2>1, Appended, LastAppended DEF Messaging, Running
  <1> HIDE DEF o
  <1>2. Messaging(t, z, seen)
    BY <1>1 DEF Messaging
  <1> QED BY <1>2 DEF Frame, t, o, e

\* An ending frame.
LEMMA LastFrame ==
    ASSUME NEW s, "out" \in DOMAIN s, Running(s.out), NEW ev, ev \in Ends
    PROVE  LET o == Frame(s, ev, NoIndex, <<>>).out
           IN  Ended(o) /\ Last(o).ev = ev /\ (ToolShown(o) <=> ToolShown(s.out))
  <1> DEFINE e == [ev |-> ev, at |-> NoIndex, data |-> <<>>]
             o == Append(s.out, e)
  <1>1. Ended(o) /\ Last(o).ev = ev /\ (ToolShown(o) <=> ToolShown(s.out))
    <2>1. e.ev = ev /\ "added" \notin Ends
      BY DEF Ends
    <2> HIDE DEF e
    <2> QED BY <2>1, Appended, LastAppended DEF Running
  <1> HIDE DEF o
  <1>2. Frame(s, ev, NoIndex, <<>>).out = o
    BY DEF Frame, o, e
  <1> QED BY <1>1, <1>2

\* The message starts.
LEMMA StartMessaging ==
    ASSUME NEW s, NEW z, NEW seen, Messaging(s, z, seen) PROVE Messaging(MessageStart(s), z, seen)
  <1> DEFINE t == [s EXCEPT !.started = TRUE]
  <1>1. Messaging(t, z, seen)
    BY DEF Messaging
  <1> HIDE DEF t
  <1>2. Messaging(Frame(t, "message_start", NoIndex, <<>>), z, seen)
    BY <1>1, FrameMessaging DEF Ends
  <1> QED BY <1>2 DEF MessageStart, t

\* A text or thinking block is closed.
LEMMA ClosedMessaging ==
    ASSUME NEW s, NEW z, NEW seen, Messaging(s, z, seen) PROVE Messaging(CloseOpenNonTool(s), z, seen)
  <1> DEFINE t == [s EXCEPT !.open_non_tool = NoBlock, !.had_text = TRUE]
  <1>1. Messaging(t, z, seen)
    BY DEF Messaging
  <1> HIDE DEF t
  <1>2. Messaging(Frame(t, "done", s.open_non_tool.index, <<>>), z, seen)
    BY <1>1, FrameMessaging DEF Ends
  <1> QED BY <1>2 DEF CloseOpenNonTool, t

\* Text or thinking, in a block of its own.
LEMMA DeltaMessaging ==
    ASSUME NEW s, NEW z, NEW seen, Messaging(s, z, seen), NEW kind, kind # "tool_use", NEW delta
    PROVE  Messaging(AppendDelta(s, kind, delta), z, seen)
  <1>1. ASSUME NEW r, Messaging(r, z, seen) PROVE Messaging(OpenBlock(r, kind), z, seen)
    <2> DEFINE t == [r EXCEPT !.open_non_tool = [kind |-> kind, index |-> r.next_block_index],
                              !.next_block_index = @ + 1]
    <2>1. Messaging(t, z, seen)
      BY <1>1 DEF Messaging
    <2> HIDE DEF t
    <2>2. Messaging(Frame(t, "added", r.next_block_index, <<kind>>), z, seen)
      BY <2>1, FrameMessaging DEF Ends
    <2> QED BY <2>2 DEF OpenBlock, t
  <1>2. ASSUME NEW r, Messaging(r, z, seen) PROVE Messaging(ExtendBlock(r, delta), z, seen)
    BY <1>2, FrameMessaging DEF Ends, ExtendBlock
  <1> QED BY <1>1, <1>2, ClosedMessaging DEF AppendDelta

\* What the think separator lets through.
LEMMA SplitMessaging ==
    ASSUME NEW s, NEW z, NEW seen, Messaging(s, z, seen), NEW parts
    PROVE  Messaging(SplitBlocks(s, parts), z, seen)
  <1> DEFINE t == AppendDelta(AppendDelta(s, "thinking", parts.r), "text", parts.t)
  <1>1. Messaging(t, z, seen)
    BY DeltaMessaging
  <1> HIDE DEF t
  <1>2. Messaging([t EXCEPT !.think = parts.st], z, seen)
    BY <1>1 DEF Messaging
  <1> QED BY <1>2 DEF SplitBlocks, t

\* A tool block starts: it is announced and noted in one step.
LEMMA ToolStartMessaging ==
    ASSUME NEW s, NEW z, NEW seen, Messaging(s, z, seen), NEW k
    PROVE  Messaging(StartTool(s, k), z, seen)
  <1> DEFINE t == [s EXCEPT !.has_tool_use = TRUE,
                            !.tools[k] = [@ EXCEPT !.started = TRUE, !.pending_args = <<>>,
                                                   !.arguments = @ \o s.tools[k].pending_args]]
             x == [ev |-> "added", at |-> s.tools[k].index, data |-> <<"tool_use">>]
             o == Append(s.out, x)
             e == [t EXCEPT !.out = o]
  <1>0. Frame(t, "added", s.tools[k].index, <<"tool_use">>) = e
    BY DEF Frame, Messaging
  <1>1. Running(o) /\ ToolShown(o)
    <2>1. x.ev = "added" /\ x.data = <<"tool_use">>
      OBVIOUS
    <2> HIDE DEF x
    <2> QED BY <2>1, Appended, LastAppended DEF Messaging, Running, Ends
  <1> HIDE DEF o
  <1>2. Messaging(e, z, seen)
    BY <1>1 DEF Messaging
  <1> HIDE DEF e
  <1>3. Messaging(Frame(e, "delta", s.tools[k].index, s.tools[k].pending_args), z, seen)
    BY <1>2, FrameMessaging DEF Ends
  <1> HIDE DEF t
  <1>4. StartTool(s, k) = FrameIf(s.tools[k].pending_args # <<>>, e, "delta",
                                s.tools[k].index, s.tools[k].pending_args)
    BY <1>0 DEF StartTool, t
  <1> QED BY <1>2, <1>3, <1>4 DEF FrameIf

\* Arguments are passed on, held back or dropped.
LEMMA ArgumentsMessaging ==
    ASSUME NEW s, NEW z, NEW seen, Messaging(s, z, seen), NEW k, NEW args
    PROVE  Messaging(AppendArguments(s, k, args), z, seen)
  <1>1. ASSUME NEW spaces PROVE Messaging(TakeArguments(s, k, args, spaces), z, seen)
    <2> DEFINE t == [s EXCEPT !.tools[k] = [@ EXCEPT !.spaces = spaces, !.aborted = TRUE]]
               u == [s EXCEPT !.tools[k] = [@ EXCEPT !.spaces = spaces, !.arguments = @ \o args]]
               v == [s EXCEPT !.tools[k] = [@ EXCEPT !.spaces = spaces, !.pending_args = @ \o args]]
    <2>1. Messaging(t, z, seen)
      BY DEF Messaging
    <2>2. Messaging(u, z, seen)
      BY DEF Messaging
    <2>3. Messaging(v, z, seen)
      BY DEF Messaging
    <2> HIDE DEF t, u, v
    <2>4. Messaging(Frame(u, "delta", s.tools[k].index, args), z, seen)
      BY <2>2, FrameMessaging DEF Ends
    <2> QED BY <2>1, <2>3, <2>4 DEF TakeArguments, t, u, v
  <1> QED BY <1>1 DEF AppendArguments

\* A tool frame.
LEMMA ToolMessaging ==
    ASSUME NEW s, NEW z, NEW seen, Messaging(s, z, seen), NEW x
    PROVE  Messaging(AppendToolDelta(s, x), z, seen)
  <1>1. ASSUME NEW r, Messaging(r, z, seen), NEW k PROVE Messaging(KeepFrame(r, k, x), z, seen)
    <2> DEFINE tools == [j \in DOMAIN r.tools \cup {k} |->
                            IF j = k THEN [BlockAt(r, k) EXCEPT !.id = Given(x.id, @),
                                                                !.name = Given(x.name, @)]
                            ELSE r.tools[j]]
    <2>1. IsFiniteSet(DOMAIN tools)
      <3>1. DOMAIN tools = DOMAIN r.tools \cup {k}
        OBVIOUS
      <3> HIDE DEF tools
      <3> QED BY <1>1, <3>1, FS_AddElement DEF Messaging
    <2> HIDE DEF tools
    <2>2. Messaging([r EXCEPT !.last_tool_key = k,
                              !.next_block_index = IF k \in DOMAIN r.tools THEN @ ELSE @ + 1,
                              !.tools = tools], z, seen)
      BY <1>1, <2>1 DEF Messaging
    <2> QED BY <2>2 DEF KeepFrame, tools
  <1>2. ASSUME NEW r, Messaging(r, z, seen), NEW k PROVE Messaging(StartWhenKnown(r, k), z, seen)
    BY <1>2, ToolStartMessaging DEF StartWhenKnown
  <1>3. Messaging(CloseOpenNonTool(s), z, seen)
    BY ClosedMessaging
  <1> QED BY <1>1, <1>2, <1>3, ArgumentsMessaging DEF AppendToolDelta, FeedTool

\* A tool block is closed, started late or dropped.
LEMMA BlockMessaging ==
    ASSUME NEW s, NEW z, NEW seen, Messaging(s, z, seen), NEW k
    PROVE  Messaging(CloseToolBlock(s, k), z, seen)
  <1>1. Messaging(StopBlock(s, k), z, seen)
    BY DEF Messaging, StopBlock
  <1>2. Messaging(StartTool(StopBlock(s, k), k), z, seen)
    BY <1>1, ToolStartMessaging
  <1>3. /\ Messaging(Frame(StopBlock(s, k), "done", s.tools[k].index, <<>>), z, seen)
        /\ Messaging(Frame(StartTool(StopBlock(s, k), k), "done", s.tools[k].index, <<>>), z, seen)
    BY <1>1, <1>2, FrameMessaging DEF Ends
  <1>4. Messaging([s EXCEPT !.dropped_tools = @ + 1], z, seen)
    BY DEF Messaging
  <1> QED BY <1>3, <1>4 DEF CloseToolBlock

\* All tool blocks are.
LEMMA BlocksMessaging ==
    ASSUME NEW s, NEW z, NEW seen, Messaging(s, z, seen), NEW q, NEW n \in Nat, DOMAIN q = 1..n
    PROVE  Messaging(StopAll(s, q), z, seen)
  <1>1. PICK g : Chain(g, "stop", s, q, n, StopAll(s, q))
    BY CloseToolBlockChain
  <1> DEFINE T == {k \in 0..n : Messaging(g[k], z, seen)}
  <1>2. 0 \in T
    BY <1>1 DEF Chain
  <1>3. ASSUME NEW k \in 1..n, k - 1 \in T PROVE k \in T
    BY <1>1, <1>3, BlockMessaging DEF Chain, Applied
  <1>4. n \in T
    <2> HIDE DEF T
    <2> QED BY <1>2, <1>3, Climb
  <1> QED BY <1>1, <1>4 DEF Chain

\* The tool frames of a chunk.
LEMMA ToolsMessaging ==
    ASSUME NEW s, NEW z, NEW seen, Messaging(s, z, seen), NEW q, NEW n \in Nat, DOMAIN q = 1..n
    PROVE  Messaging(AppendAll(s, q), z, seen)
  <1>1. PICK g : Chain(g, "delta", s, q, n, AppendAll(s, q))
    BY AppendToolDeltaChain
  <1> DEFINE T == {k \in 0..n : Messaging(g[k], z, seen)}
  <1>2. 0 \in T
    BY <1>1 DEF Chain
  <1>3. ASSUME NEW k \in 1..n, k - 1 \in T PROVE k \in T
    BY <1>1, <1>3, ToolMessaging DEF Chain, Applied
  <1>4. n \in T
    <2> HIDE DEF T
    <2> QED BY <1>2, <1>3, Climb
  <1> QED BY <1>1, <1>4 DEF Chain

\* A chunk: it says tool_use only after a tool block.
LEMMA ConvertMessaging ==
    ASSUME NEW s, NEW z, NEW seen, Messaging(s, z, seen), NEW c,
           c.tools \in Seq(ToSet(c.tools)), c.finish # None => seen
    PROVE  Messaging(AnthropicConvertChunk(s, c), z, seen)
  <1> DEFINE b == AppendDelta(FeedBlocks(AppendDelta(MessageStart(s), "thinking", c.reasoning), c.content),
                              "text", Trim(c.refusal))
             d == AppendAll(b, c.tools)
  <1>1. Messaging(b, z, seen)
    BY StartMessaging, DeltaMessaging, SplitMessaging DEF FeedBlocks
  <1> HIDE DEF b
  <1>2. Messaging(d, z, seen)
    <2>1. Len(c.tools) \in Nat /\ DOMAIN c.tools = 1..Len(c.tools)
      BY LenProperties
    <2> QED BY <1>1, <2>1, ToolsMessaging
  <1> HIDE DEF d
  <1>3. Messaging(SetStopReason(d, c.finish), z, seen)
    <2> DEFINE why == StopReasonFromFinish(c.finish, d.has_tool_use)
    <2>1. /\ why \in {"max_tokens", "tool_use", "end_turn"}
          /\ why = "tool_use" => d.has_tool_use = TRUE
      BY <1>2 DEF StopReasonFromFinish, Messaging
    <2> HIDE DEF why
    <2>2. c.finish # None => Messaging([d EXCEPT !.stop_reason = why], z, seen)
      BY <1>2, <2>1 DEF Messaging
    <2> QED BY <1>2, <2>2 DEF SetStopReason, why
  <1> QED BY <1>3 DEF AnthropicConvertChunk, AppendAll, b, d

\* However the message ends, it has one end, that tells whether there was a tool call and
\* admits a missing finish.
LEMMA MessageEnds ==
    ASSUME NEW s, NEW seen \in BOOLEAN, Messaging(s, FALSE, seen), NEW truncated \in BOOLEAN
    PROVE  LET m == AnthropicFinalize(s, truncated)
           IN  /\ Ended(m.out) /\ Truthful(m)
               /\ truncated /\ ~seen => Last(m.out).ev = "error" \/ m.reported = "max_tokens"
  <1> DEFINE t == [s EXCEPT !.finalized = TRUE]
             u == SplitBlocks(MessageStart(t), Flush(s.think))
             v == CloseOpenBlocks(u)
             Good(m) == /\ Ended(m.out) /\ Truthful(m)
                        /\ truncated /\ ~seen => Last(m.out).ev = "error" \/ m.reported = "max_tokens"
  <1>0. ASSUME NEW r, {"out", "reported"} \subseteq DOMAIN r, r.reported = None, Running(r.out)
        PROVE  Good(Frame(r, "error", NoIndex, <<>>))
    <2> DEFINE m == Frame(r, "error", NoIndex, <<>>)
    <2>1. Ended(m.out) /\ Last(m.out).ev = "error"
      BY <1>0, LastFrame DEF Ends
    <2>2. m.reported = None
      BY <1>0 DEF Frame
    <2> HIDE DEF m
    <2>3. Good(m)
      BY <2>1, <2>2 DEF Truthful
    <2> QED BY <2>3 DEF m
  <1>1. Messaging(t, TRUE, seen) /\ t.out = s.out
    BY DEF Messaging
  <1> HIDE DEF t
  <1>2. Good(Frame(t, "error", NoIndex, <<>>))
    BY <1>0, <1>1 DEF Messaging
  <1>3. Messaging(u, TRUE, seen)
    BY <1>1, StartMessaging, SplitMessaging
  <1> HIDE DEF u
  <1>4. Messaging(v, TRUE, seen)
    <2>1. PICK n \in Nat : DOMAIN Keys(u.tools) = 1..n
      BY <1>3, Listed DEF Keys, Messaging
    <2>2. Messaging(StopAll(CloseOpenNonTool(u), Keys(u.tools)), TRUE, seen)
      BY <1>3, <2>1, ClosedMessaging, BlocksMessaging
    <2> QED BY <2>2 DEF CloseOpenBlocks, StopAll
  <1> HIDE DEF v
  <1>5. Good(Frame([v EXCEPT !.out = s.out], "error", NoIndex, <<>>))
    <2> DEFINE w == [v EXCEPT !.out = s.out]
    <2>1. {"out", "reported"} \subseteq DOMAIN w /\ w.reported = None /\ w.out = s.out
      BY <1>4 DEF Messaging
    <2> HIDE DEF w
    <2>2. Good(Frame(w, "error", NoIndex, <<>>))
      BY <1>0, <2>1 DEF Messaging
    <2> QED BY <2>2 DEF w
  <1>6. LET why == StopReason(v, truncated)
        IN  Good(Frame(Frame([v EXCEPT !.reported = why], "message_delta", NoIndex, <<why>>),
                       "message_stop", NoIndex, <<>>))
    <2> DEFINE why == StopReason(v, truncated)
               w == [v EXCEPT !.reported = why]
               x == Frame(v, "message_delta", NoIndex, <<why>>)
               y == [x EXCEPT !.reported = why]
               m == Frame(y, "message_stop", NoIndex, <<>>)
    <2>1. /\ why \notin {"max_tokens"} => (why = "tool_use" <=> v.has_tool_use = TRUE)
          /\ truncated /\ ~seen => why = "max_tokens"
      <3> USE DEF StopReason
      <3>1. /\ v.stop_reason \in {None, "max_tokens", "end_turn", "tool_use"}
            /\ seen \/ v.stop_reason = None
            /\ v.stop_reason = "tool_use" => v.has_tool_use = TRUE
            /\ v.has_tool_use \in BOOLEAN
        BY <1>4 DEF Messaging
      <3>2. CASE v.stop_reason \in {"max_tokens", "tool_use"}
        BY <3>1, <3>2 DEF None
      <3>3. CASE v.stop_reason = None /\ truncated
        BY <3>1, <3>3 DEF None
      <3>4. CASE v.stop_reason = "end_turn" \/ (v.stop_reason = None /\ ~truncated)
        <4>1. why = IF v.has_tool_use THEN "tool_use" ELSE "end_turn"
          BY <3>1, <3>4 DEF None
        <4>2. ~(truncated /\ ~seen)
          BY <3>1, <3>4 DEF None
        <4> QED BY <3>1, <4>1, <4>2
      <3> QED BY <3>1, <3>2, <3>3, <3>4
    <2> HIDE DEF why
    <2>2. Messaging(x, TRUE, seen)
      BY <1>4, FrameMessaging DEF Ends
    <2>3. x.has_tool_use = v.has_tool_use
      BY <1>4 DEF Frame, Messaging
    <2>4. Frame(w, "message_delta", NoIndex, <<why>>) = y
      BY <1>4 DEF Frame, Messaging
    <2> HIDE DEF x, w
    <2>5. /\ {"out", "reported"} \subseteq DOMAIN y /\ y.reported = why
          /\ y.out = x.out /\ Running(y.out)
      BY <2>2 DEF Messaging
    <2> HIDE DEF y
    <2>6. Ended(m.out) /\ (ToolShown(m.out) <=> ToolShown(x.out))
      BY <2>5, LastFrame DEF Ends
    <2>7. m.reported = why
      BY <2>5 DEF Frame
    <2> HIDE DEF m
    <2>8. ToolShown(m.out) <=> v.has_tool_use = TRUE
      BY <2>2, <2>3, <2>6 DEF Messaging
    <2>9. Good(m)
      BY <2>1, <2>6, <2>7, <2>8 DEF Truthful
    <2> QED BY <2>4, <2>9 DEF m, w, why
  <1>7. Good(EndMessage(v, truncated, s.out))
    BY <1>5, <1>6 DEF EndMessage
  <1>8. AnthropicFinalize(s, truncated) \in
            {Frame(t, "error", NoIndex, <<>>), EndMessage(v, truncated, s.out)}
    BY DEF AnthropicFinalize, Messaging, t, u, v
  <1> HIDE DEF Good
  <1>9. Good(AnthropicFinalize(s, truncated))
    BY <1>2, <1>7, <1>8
  <1> QED BY <1>9 DEF Good

\* A broken message has its end already.
LEMMA BrokenEnds ==
    ASSUME NEW s, Broken(s), NEW truncated
    PROVE  LET m == AnthropicFinalize(s, truncated)
           IN  Ended(m.out) /\ Last(m.out).ev = "error" /\ m.reported = None
  BY DEF Broken, AnthropicFinalize

\* A failure breaks the message and is its end.
LEMMA BreakingFrame ==
    ASSUME NEW s, NEW seen, Messaging(s, FALSE, seen)
    PROVE  Broken(Frame([s EXCEPT !.failed = TRUE], "error", NoIndex, <<>>))
  <1> DEFINE t == [s EXCEPT !.failed = TRUE]
             e == Frame(t, "error", NoIndex, <<>>)
  <1>1. /\ {"out", "finalized", "failed", "reported"} \subseteq DOMAIN t
        /\ t.finalized = FALSE /\ t.failed = TRUE /\ t.reported = None /\ Running(t.out)
    BY DEF Messaging
  <1> HIDE DEF t
  <1>2. Ended(e.out) /\ Last(e.out).ev = "error"
    BY <1>1, LastFrame DEF Ends
  <1>3. /\ {"out", "finalized", "failed", "reported"} \subseteq DOMAIN e
        /\ e.finalized = FALSE /\ e.failed = TRUE /\ e.reported = None
    BY <1>1 DEF Frame
  <1> HIDE DEF e
  <1>4. Broken(e)
    BY <1>2, <1>3 DEF Broken
  <1> QED BY <1>4 DEF e, t

-----------------------------------------------------------------------------
(* Chunks, and what the converter in use makes of them.                     *)

\* A sequence of chunks, each with its tool frames in a sequence.
Readable(q) == q \in Seq(ToSet(q)) /\ \A i \in 1..Len(q) : q[i].tools \in Seq(ToSet(q[i].tools))

\* The converter in use: at work, or stopped by a failure.
Working(s, seen) == IF proto = "responses" THEN Responding(s, FALSE, seen) ELSE Messaging(s, FALSE, seen)
Stopped(s, seen) == IF proto = "responses" THEN Responding(s, TRUE, seen) ELSE Broken(s)

\* A read with a failure or a finish in it; a failure among what was sent.
Failing(b) == b.kind = "bytes" /\ \E i \in 1..Len(ChunksOf(b.frames)) : ChunksOf(b.frames)[i].error
Finishing(b) == b.kind = "bytes" /\ \E i \in 1..Len(ChunksOf(b.frames)) : ChunksOf(b.frames)[i].finish # None
FailureSent == \E i \in 1..Len(sent) : sent[i].error

\* What is still to be converted was sent: a failure ends what the upstream sends, [DONE] is
\* the last of what is buffered, and a failure is never buffered.
Intake ==
    /\ link \in DOMAIN Links
    /\ finished \in BOOLEAN /\ expired \in BOOLEAN /\ timed_out \in BOOLEAN /\ (timed_out => expired)
    /\ done_sent \in BOOLEAN /\ reads \in Nat
    /\ sent \in Seq(ToSet(sent))
    /\ ready \in {Nothing, Eof, Err} \cup Links[link].batches
    /\ (Failing(ready) => FailureSent) /\ (Finishing(ready) => FinishSent)
    /\ ready.kind = "bytes" /\ ready.done => done_sent
    /\ buffered \in Seq(Links[link].batches)
    /\ reads = 0 => buffered = <<>> /\ ready.kind # "bytes"
    /\ \A i \in 1..Len(buffered) :
            /\ ~Failing(buffered[i]) /\ (Finishing(buffered[i]) => FinishSent)
            /\ buffered[i].done => i = Len(buffered) /\ ready = Eof /\ done_sent

\* Nothing is converted any more once the stream is finished.
Silence ==
    /\ finished => phase = "relaying"
    /\ finished /\ proto # "chat" =>
            buffered = <<>> /\ (expired \/ ready = Eof \/ (ready.kind # "bytes" /\ FailureSent))

\* The converter is new until a candidate is chosen and at work until the stream is finished.
Output ==
    /\ proto = "chat" => conv.out = <<>>
    /\ proto # "chat" /\ (finished \/ client = "ended") => Ended(conv.out)
    /\ proto # "chat" /\ ~finished /\ client # "ended" => Working(conv, FinishSent)
    /\ phase # "relaying" /\ client # "ended" => conv = ConverterNew(proto)

\* A stream that has ended saw a finish or [DONE], or says that it came too early.
Honest ==
    /\ proto = "anthropic" => Truthful(conv)
    /\ proto # "chat" /\ client = "ended" /\ phase = "relaying" => finished
    /\ proto # "chat" /\ finished => FinishSent \/ (done_sent /\ ready = Eof) \/ Early(conv)

EndInv == Intake /\ Silence /\ Output /\ Honest

\* The chunks of a read are readable.
LEMMA ChunksReadable ==
    ASSUME NEW n \in DOMAIN Links, NEW b \in Links[n].batches
    PROVE  Readable(ChunksOf(b.frames))
  <1> DEFINE q == b.frames
             m == Len(q)
  <1>1. /\ q \in Seq(ToSet(q)) /\ m \in Nat /\ DOMAIN q = 1..m
        /\ \A k \in 1..m : /\ DOMAIN q[k].chunk = DOMAIN EmptyChunk
                           /\ q[k].chunk.tools \in Seq(ToSet(q[k].chunk.tools))
    <2>1. /\ q \in Seq(ToSet(q))
          /\ \A f \in ToSet(q) : /\ DOMAIN f.chunk = DOMAIN EmptyChunk
                                 /\ f.chunk.tools \in Seq(ToSet(f.chunk.tools))
      BY LinksAssumption
    <2> HIDE DEF q
    <2>2. m \in Nat /\ DOMAIN q = 1..m
      BY <2>1, LenProperties
    <2>3. \A k \in 1..m : q[k] \in ToSet(q)
      BY <2>2 DEF ToSet
    <2> QED BY <2>1, <2>2, <2>3
  <1> HIDE DEF q, m
  <1>2. PICK g : Chain(g, "parse", <<>>, q, m, ParseAll(<<>>, q))
    BY <1>1, ParseChain
  <1> DEFINE T == {k \in 0..m : Readable(g[k])}
  <1>3. 0 \in T
    <2>1. Readable(<<>>)
      <3>1. <<>> \in Seq(ToSet(<<>>)) /\ Len(<<>>) = 0
        OBVIOUS
      <3> QED BY <3>1 DEF Readable
    <2> QED BY <1>1, <1>2, <2>1 DEF Chain
  <1>4. ASSUME NEW k \in 1..m, k - 1 \in T PROVE k \in T
    <2> DEFINE o == g[k - 1]
               c == [q[k].chunk EXCEPT !.error = @ \/ q[k].named_error]
    <2>1. Readable(o) /\ g[k] = Parse(o, q[k])
      BY <1>2, <1>4 DEF Chain, Applied
    <2>2. c.tools \in Seq(ToSet(c.tools))
      <3>1. "tools" \in DOMAIN q[k].chunk
        BY <1>1 DEF EmptyChunk
      <3>2. c.tools = q[k].chunk.tools
        BY <3>1
      <3> QED BY <1>1, <3>2
    <2> HIDE DEF o, c
    <2>3. Readable(Append(o, c))
      BY <2>1, <2>2, Grown DEF Readable
    <2>4. Readable(g[k])
      BY <2>1, <2>3 DEF Parse, c
    <2> QED BY <2>4
  <1>5. m \in T
    <2> HIDE DEF T
    <2> QED BY <1>1, <1>3, <1>4, Climb
  <1> QED BY <1>2, <1>5 DEF Chain, ParseAll, ChunksOf, q

\* One chunk: the converter stays at work unless the chunk is a failure.
LEMMA ChunkConverted ==
    ASSUME proto \in {"responses", "anthropic"}, NEW s, NEW seen, NEW c,
           c.tools \in Seq(ToSet(c.tools)), c.finish # None => seen
    PROVE  /\ Working(s, seen) => \/ Working(ProcessChunk(s, c), seen)
                                  \/ c.error /\ Stopped(ProcessChunk(s, c), seen)
           /\ Stopped(s, seen) => ProcessChunk(s, c) = s
  <1>1. CASE proto = "responses"
    <2>1. Responding(s, FALSE, seen) => Responding([s EXCEPT !.failed_error = TRUE], TRUE, seen)
      BY DEF Responding
    <2>2. Responding(s, FALSE, seen) => Responding(ConvertChunk(s, c), FALSE, seen)
      BY ConvertResponding
    <2>3. ProcessChunk(s, c) = ResponsesProcessChunk(s, c)
      BY <1>1 DEF ProcessChunk
    <2>4. Responding(s, TRUE, seen) => ResponsesProcessChunk(s, c) = s
      BY DEF Responding, ResponsesProcessChunk
    <2>5. Responding(s, FALSE, seen) => ResponsesProcessChunk(s, c) =
                IF c.error THEN [s EXCEPT !.failed_error = TRUE] ELSE ConvertChunk(s, c)
      BY DEF Responding, ResponsesProcessChunk
    <2> QED BY <1>1, <2>1, <2>2, <2>3, <2>4, <2>5 DEF Working, Stopped
  <1>2. CASE proto = "anthropic"
    <2>1. Messaging(s, FALSE, seen) => Broken(Frame([s EXCEPT !.failed = TRUE], "error", NoIndex, <<>>))
      BY BreakingFrame
    <2>2. Messaging(s, FALSE, seen) => Messaging(AnthropicConvertChunk(s, c), FALSE, seen)
      BY ConvertMessaging
    <2>3. ProcessChunk(s, c) = AnthropicProcessChunk(s, c)
      BY <1>2 DEF ProcessChunk
    <2>4. Broken(s) => AnthropicProcessChunk(s, c) = s
      BY DEF Broken, AnthropicProcessChunk
    <2>5. Messaging(s, FALSE, seen) => AnthropicProcessChunk(s, c) =
                IF c.error THEN Frame([s EXCEPT !.failed = TRUE], "error", NoIndex, <<>>)
                ELSE AnthropicConvertChunk(s, c)
      BY DEF Messaging, AnthropicProcessChunk
    <2> QED BY <1>2, <2>1, <2>2, <2>3, <2>4, <2>5 DEF Working, Stopped
  <1> QED BY <1>1, <1>2

\* The chunks of a read.
LEMMA ChunksConverted ==
    ASSUME proto \in {"responses", "anthropic"}, NEW s, NEW seen, Working(s, seen), NEW q, Readable(q),
           \A i \in 1..Len(q) : q[i].finish # None => seen
    PROVE  \/ Working(ProcessAll(s, q), seen)
           \/ Stopped(ProcessAll(s, q), seen) /\ \E i \in 1..Len(q) : q[i].error
  <1> DEFINE n == Len(q)
             Fine(r) == Working(r, seen) \/ (Stopped(r, seen) /\ \E i \in 1..n : q[i].error)
  <1>1. n \in Nat /\ DOMAIN q = 1..n
    BY LenProperties DEF Readable
  <1> HIDE DEF n
  <1>2. PICK g : Chain(g, "chunk", s, q, n, ProcessAll(s, q))
    BY <1>1, ProcessChunkChain
  <1> DEFINE T == {k \in 0..n : Fine(g[k])}
  <1>3. 0 \in T
    BY <1>1, <1>2 DEF Chain
  <1>4. ASSUME NEW k \in 1..n, k - 1 \in T PROVE k \in T
    <2> DEFINE r == g[k - 1]
    <2>1. Fine(r) /\ g[k] = ProcessChunk(r, q[k])
      BY <1>1, <1>2, <1>4 DEF Chain, Applied
    <2>2. q[k].tools \in Seq(ToSet(q[k].tools)) /\ (q[k].finish # None => seen)
      BY DEF Readable, n
    <2> HIDE DEF r
    <2>3. Fine(ProcessChunk(r, q[k]))
      BY <2>1, <2>2, ChunkConverted
    <2> QED BY <1>1, <2>1, <2>3
  <1>5. n \in T
    <2> HIDE DEF T
    <2> QED BY <1>1, <1>3, <1>4, Climb
  <1> QED BY <1>2, <1>5 DEF Chain, n

\* However a converter ends, it tells a failure and a missing finish.
LEMMA ConverterEnds ==
    ASSUME proto \in {"responses", "anthropic"}, NEW s, NEW seen \in BOOLEAN,
           Working(s, seen) \/ Stopped(s, seen), NEW truncated \in BOOLEAN
    PROVE  LET m == Finalize(s, truncated)
           IN  /\ Ended(m.out) /\ (proto = "anthropic" => Truthful(m))
               /\ Stopped(s, seen) \/ (truncated /\ ~seen) => Early(m)
  <1> DEFINE m == Finalize(s, truncated)
  <1>1. CASE proto = "responses"
    <2>1. m = ResponsesFinalize(s, truncated)
      BY <1>1 DEF Finalize
    <2> HIDE DEF m
    <2>2. CASE Responding(s, TRUE, seen)
      <3>1. Ended(m.out) /\ Last(m.out).ev \in {"incomplete", "failed"}
        BY <2>1, <2>2, ResponseEnds
      <3> QED BY <1>1, <3>1 DEF Early, m
    <2>3. CASE Responding(s, FALSE, seen)
      <3>1. Ended(m.out) /\ (truncated /\ ~seen => Last(m.out).ev \in {"incomplete", "failed"})
        BY <2>1, <2>3, ResponseEnds
      <3>2. ~Stopped(s, seen)
        BY <1>1, <2>3 DEF Stopped, Responding
      <3> QED BY <1>1, <3>1, <3>2 DEF Early, m
    <2> QED BY <1>1, <2>2, <2>3 DEF Working, Stopped
  <1>2. CASE proto = "anthropic"
    <2>1. m = AnthropicFinalize(s, truncated)
      BY <1>2 DEF Finalize
    <2> HIDE DEF m
    <2>2. CASE Broken(s)
      <3>1. Ended(m.out) /\ Last(m.out).ev = "error" /\ m.reported = None
        BY <2>1, <2>2, BrokenEnds
      <3> QED BY <3>1 DEF Early, Truthful, m
    <2>3. CASE Messaging(s, FALSE, seen)
      <3>1. /\ Ended(m.out) /\ Truthful(m)
            /\ truncated /\ ~seen => Last(m.out).ev = "error" \/ m.reported = "max_tokens"
        BY <2>1, <2>3, MessageEnds
      <3>2. ~Stopped(s, seen)
        BY <1>2, <2>3 DEF Stopped, Messaging, Broken
      <3> QED BY <1>2, <3>1, <3>2 DEF Early, m
    <2> QED BY <1>2, <2>2, <2>3 DEF Working, Stopped
  <1> QED BY <1>1, <1>2

\* A broken connection or a time limit is told.
LEMMA ErrorEnds ==
    ASSUME proto \in {"responses", "anthropic"}, NEW s, NEW seen \in BOOLEAN, Working(s, seen)
    PROVE  LET m == TransportError(s)
           IN  Ended(m.out) /\ (proto = "anthropic" => Truthful(m)) /\ Early(m)
  <1>1. CASE proto = "responses"
    <2> DEFINE t == [s EXCEPT !.failed_error = TRUE]
    <2>1. Responding(t, TRUE, seen)
      BY <1>1 DEF Working, Responding
    <2> HIDE DEF t
    <2>2. /\ Ended(ResponsesFinalize(t, FALSE).out)
          /\ Last(ResponsesFinalize(t, FALSE).out).ev \in {"incomplete", "failed"}
      BY <2>1, ResponseEnds
    <2>3. TransportError(s) = ResponsesFinalize(t, FALSE)
      BY <1>1 DEF TransportError, ResponsesTransportError, t
    <2> QED BY <1>1, <2>2, <2>3 DEF Early
  <1>2. CASE proto = "anthropic"
    <2>1. Broken(Frame([s EXCEPT !.failed = TRUE], "error", NoIndex, <<>>))
      BY <1>2, BreakingFrame DEF Working
    <2>2. s.failed = FALSE
      BY <1>2 DEF Working, Messaging
    <2>3. Broken(TransportError(s))
      BY <1>2, <2>1, <2>2 DEF TransportError, AnthropicTransportError
    <2> QED BY <2>3 DEF Broken, Early, Truthful
  <1> QED BY <1>1, <1>2

\* A new converter works, and a finish that is sent later does not disturb it.
LEMMA FreshWorks ==
    ASSUME proto \in {"responses", "anthropic"}, NEW seen PROVE Working(ConverterNew(proto), seen)
  <1>1. Running(<<>>) /\ IsFiniteSet(DOMAIN <<>>) /\ ~ToolShown(<<>>)
    <2>1. <<>> \in Seq(ToSet(<<>>)) /\ Len(<<>>) = 0 /\ DOMAIN <<>> = {}
      OBVIOUS
    <2> QED BY <2>1, FS_EmptySet DEF Running, ToolShown
  <1>2. Responding(ResponsesNew, FALSE, seen)
    BY <1>1 DEF Responding, ResponsesNew
  <1>3. Messaging(AnthropicNew, FALSE, seen)
    BY <1>1 DEF Messaging, AnthropicNew, None
  <1> QED BY <1>2, <1>3 DEF Working, ConverterNew

\* Neither does it disturb one at work.
LEMMA StillWorks ==
    ASSUME NEW s, NEW seen, Working(s, seen), NEW later, seen => later PROVE Working(s, later)
  BY DEF Working, Responding, Messaging

\* Bytes of a stream that is not finished: it is at work, or it has ended because of [DONE]
\* or a failure in these bytes.
LEMMA BytesConverted ==
    ASSUME EndInv, proto # "chat", ~finished, client # "ended",
           NEW b \in Links[link].batches, ConvertBytes(b),
           Finishing(b) => FinishSent
    PROVE  /\ finished' \in BOOLEAN
           /\ ~finished' => Working(conv', FinishSent)
           /\ finished' => Ended(conv'.out) /\ (b.done \/ (Failing(b) /\ Early(conv')))
           /\ proto = "anthropic" => Truthful(conv')
  <1> DEFINE q == ChunksOf(b.frames)
             s == ProcessAll(conv, q)
             seen == FinishSent
  <1>1. proto \in {"responses", "anthropic"} /\ b.kind = "bytes"
    BY LinksAssumption DEF EndInv, Intake, proto, Bytes
  <1>2. Working(conv, seen) /\ Readable(q)
    BY ChunksReadable DEF EndInv, Intake, Output
  <1>9. seen \in BOOLEAN /\ \A i \in 1..Len(q) : q[i].finish # None => seen
    BY <1>1 DEF Finishing, FinishSent
  <1> HIDE DEF q, seen
  <1>3. Working(s, seen) \/ (Stopped(s, seen) /\ \E i \in 1..Len(q) : q[i].error)
    BY <1>1, <1>2, <1>9, ChunksConverted
  <1>4. AfterChunks(s, b.done)
    BY DEF ConvertBytes, ProcessAll, q
  <1> HIDE DEF s
  <1>5. Working(s, seen) => ~HasFailed(s)
    BY <1>1 DEF Working, HasFailed, Responding, Messaging
  <1>6. Stopped(s, seen) => HasFailed(s)
    BY <1>1 DEF Stopped, HasFailed, Responding, Broken
  <1>7. CASE b.done \/ HasFailed(s)
    <2> DEFINE m == Finalize(s, FALSE)
    <2>1. conv' = m /\ finished' = TRUE
      BY <1>4, <1>7 DEF AfterChunks, End, Convert, FinishOnce
    <2>2. Ended(m.out) /\ (proto = "anthropic" => Truthful(m)) /\ (Stopped(s, seen) => Early(m))
      BY <1>1, <1>3, <1>9, ConverterEnds
    <2> HIDE DEF m
    <2>3. b.done \/ (Failing(b) /\ Stopped(s, seen))
      BY <1>1, <1>3, <1>5, <1>7 DEF Failing, q
    <2> QED BY <2>1, <2>2, <2>3
  <1>8. CASE ~(b.done \/ HasFailed(s))
    <2>1. conv' = s /\ finished' = finished
      BY <1>4, <1>8 DEF AfterChunks, Convert, billVars
    <2>2. finished' = FALSE
      BY <2>1 DEF EndInv, Intake
    <2>3. Working(s, seen)
      BY <1>3, <1>6, <1>8
    <2>4. proto = "anthropic" => Truthful(s)
      BY <2>3 DEF Working, Messaging, Truthful
    <2> QED BY <2>1, <2>2, <2>3, <2>4 DEF seen
  <1> QED BY <1>7, <1>8

\* Two sequences, one after the other.
LEMMA Joined ==
    ASSUME NEW p, p \in Seq(ToSet(p)), NEW q, q \in Seq(ToSet(q))
    PROVE  /\ p \o q \in Seq(ToSet(p \o q))
           /\ Len(p \o q) = Len(p) + Len(q) /\ Len(p) \in Nat /\ Len(q) \in Nat
           /\ \A i \in 1..Len(p) : (p \o q)[i] = p[i]
           /\ \A i \in 1..Len(q) : (p \o q)[Len(p) + i] = q[i]
  <1> DEFINE S == ToSet(p) \cup ToSet(q)
             r == p \o q
  <1>1. p \in Seq(S) /\ q \in Seq(S)
    OBVIOUS
  <1> HIDE DEF S
  <1>2. /\ r \in Seq(S) /\ Len(r) = Len(p) + Len(q) /\ Len(p) \in Nat /\ Len(q) \in Nat
        /\ \A i \in 1..Len(r) : r[i] = IF i <= Len(p) THEN p[i] ELSE q[i - Len(p)]
    BY <1>1, ConcatProperties, LenProperties
  <1> HIDE DEF r
  <1>3. r \in [1..Len(r) -> S] /\ Len(r) \in Nat /\ DOMAIN r = 1..Len(r)
    BY <1>2, LenProperties
  <1>4. \A i \in 1..Len(r) : r[i] \in ToSet(r)
    BY <1>3 DEF ToSet
  <1>5. r \in Seq(ToSet(r))
    BY <1>3, <1>4, SeqDef
  <1>6. \A i \in 1..Len(q) : Len(p) + i \in 1..Len(r) /\ ~(Len(p) + i <= Len(p)) /\ Len(p) + i - Len(p) = i
    BY <1>2
  <1> QED BY <1>2, <1>5, <1>6 DEF r

\* Steps that leave the converter alone.
LEMMA OutputStays ==
    ASSUME Output, UNCHANGED <<link, finished, conv, client>>, FinishSent => FinishSent',
           phase = "relaying" => phase' = "relaying"
    PROVE  Output'
  <1>1. proto' = proto
    BY DEF proto
  <1>2. Working(conv, FinishSent) => Working(conv, FinishSent')
    BY StillWorks
  <1>3. Working(conv, FinishSent') => Working(conv, FinishSent)'
    BY <1>1 DEF Working
  <1> QED BY <1>1, <1>2, <1>3 DEF Output

\* Nor do they disturb what is known of the end.
LEMMA HonestStays ==
    ASSUME Honest, UNCHANGED <<link, finished, conv, client>>,
           client = "ended" /\ phase' = "relaying" => phase = "relaying",
           finished /\ proto # "chat" => /\ FinishSent => FinishSent'
                                         /\ done_sent /\ ready = Eof => done_sent' /\ ready' = Eof
    PROVE  Honest'
  <1>1. proto' = proto
    BY DEF proto
  <1> QED BY <1>1 DEF Honest, Early

\* The polls that bring no bytes.
LEMMA Kinds == /\ Nothing.kind = "nothing" /\ Eof.kind = "eof" /\ Err.kind = "err"
               /\ \A x \in {Nothing, Eof, Err} : ~Failing(x) /\ ~Finishing(x) /\ x.kind # "bytes"
               /\ Nothing # Eof /\ Nothing # Err /\ Eof # Err
  BY DEF Nothing, Eof, Err, Failing, Finishing

\* A read brings bytes.
LEMMA BatchKind == ASSUME NEW n \in DOMAIN Links, NEW b \in Links[n].batches
                   PROVE  b.kind = "bytes" /\ b.done \in BOOLEAN
  BY LinksAssumption DEF Bytes

\* What the upstream and the clock do.
LEMMA UpstreamStep ==
    ASSUME EndInv, \/ \E b \in Links[link].batches : Arrive(b)
                   \/ \E end \in {Eof, Err} : Close(end)
                   \/ Expire
    PROVE  EndInv'
  <1>1. ASSUME NEW b \in Links[link].batches, Arrive(b) PROVE EndInv'
    <2>1. /\ ready' = b /\ sent' = sent \o ChunksOf(b.frames) /\ ready = Nothing /\ ~FailureSent
          /\ done_sent' = b.done /\ reads' = reads + 1
          /\ UNCHANGED <<phase, link, buffered, expired, timed_out, conv, finished, client>>
      BY <1>1 DEF Arrive, FailureSent, billVars
    <2>2. /\ sent' \in Seq(ToSet(sent')) /\ (Failing(b) => FailureSent')
          /\ (Finishing(b) => FinishSent') /\ (FinishSent => FinishSent')
      <3> DEFINE q == ChunksOf(b.frames)
      <3>1. q \in Seq(ToSet(q)) /\ sent \in Seq(ToSet(sent))
        BY ChunksReadable DEF Readable, EndInv, Intake
      <3> HIDE DEF q
      <3>2. /\ sent' \in Seq(ToSet(sent')) /\ Len(sent') = Len(sent) + Len(q)
            /\ Len(sent) \in Nat /\ Len(q) \in Nat
            /\ \A i \in 1..Len(sent) : sent'[i] = sent[i]
            /\ \A i \in 1..Len(q) : sent'[Len(sent) + i] = q[i]
        BY <2>1, <3>1, Joined DEF q
      <3>3. \A i \in 1..Len(q) : Len(sent) + i \in 1..Len(sent')
        BY <3>2
      <3>4. \A i \in 1..Len(sent) : i \in 1..Len(sent')
        BY <3>2
      <3> QED BY <3>2, <3>3, <3>4 DEF Failing, Finishing, FailureSent, FinishSent, q
    <2>3. Intake'
      <3>1. b.done \in BOOLEAN
        BY BatchKind DEF EndInv, Intake
      <3>2. \A i \in 1..Len(buffered) : ~buffered[i].done
        BY <2>1, Kinds DEF EndInv, Intake
      <3> QED BY <2>1, <2>2, <3>1, <3>2, Kinds DEF EndInv, Intake, Failing, Finishing
    <2>4. Silence'
      BY <2>1, Kinds DEF EndInv, Silence, proto
    <2> QED BY <2>1, <2>2, <2>3, <2>4, Kinds, OutputStays, HonestStays DEF EndInv
  <1>2. ASSUME NEW end \in {Eof, Err}, Close(end) PROVE EndInv'
    <2>1. /\ ready' = end /\ ready = Nothing
          /\ UNCHANGED <<phase, link, buffered, sent, done_sent, reads, expired, timed_out, conv,
                         finished, client>>
      BY <1>2 DEF Close, billVars, upVars
    <2>2. FinishSent' <=> FinishSent
      BY <2>1 DEF FinishSent
    <2>3. Intake'
      BY <2>1, <2>2, Kinds DEF EndInv, Intake, Failing, Finishing
    <2>4. Silence'
      BY <2>1, Kinds DEF EndInv, Silence, proto, FailureSent
    <2> QED BY <2>1, <2>2, <2>3, <2>4, Kinds, OutputStays, HonestStays DEF EndInv
  <1>3. CASE Expire
    <2>1. /\ expired' = TRUE
          /\ UNCHANGED <<phase, link, buffered, sent, done_sent, reads, ready, timed_out, conv,
                         finished, client>>
      BY <1>3 DEF Expire, billVars, upVars
    <2>2. FinishSent' <=> FinishSent
      BY <2>1 DEF FinishSent
    <2>3. Intake'
      BY <2>1, <2>2 DEF EndInv, Intake, Failing, Finishing, FailureSent
    <2>4. Silence'
      BY <2>1 DEF EndInv, Silence, proto
    <2> QED BY <2>1, <2>2, <2>3, <2>4, OutputStays, HonestStays DEF EndInv
  <1> QED BY <1>1, <1>2, <1>3

\* Priming: the converter is still new, so that the next candidate's finish is its first.
LEMMA PrimingStep ==
    ASSUME EndInv, PrimeFails \/ PrimeBytes \/ PrimeWhole PROVE EndInv'
  <1>1. CASE PrimeFails
    <2>1. /\ buffered' = <<>> /\ sent' = <<>> /\ ready' = Nothing /\ expired' = FALSE /\ done_sent' = FALSE
          /\ reads' = 0
          /\ timed_out' = FALSE /\ phase = "priming" /\ phase' # "relaying" /\ client = "reading"
          /\ UNCHANGED <<link, conv, finished, client>>
      BY <1>1 DEF PrimeFails, NextCandidate, AllFailed, Live
    <2>2. finished = FALSE /\ conv = ConverterNew(proto) /\ proto' = proto
      BY <2>1 DEF EndInv, Intake, Silence, Output, proto
    <2>3. Intake'
      <3>1. <<>> \in Seq(ToSet(<<>>)) /\ <<>> \in Seq(Links[link].batches) /\ Len(<<>>) = 0
        OBVIOUS
      <3>2. sent' \in Seq(ToSet(sent')) /\ buffered' \in Seq(Links[link].batches) /\ Len(buffered') = 0
        BY <2>1, <3>1
      <3>3. ~Failing(ready') /\ ~Finishing(ready') /\ ready'.kind # "bytes" /\ ready' \in {Nothing, Eof, Err}
        BY <2>1, Kinds
      <3>4. \A i \in 1..Len(buffered') : FALSE
        BY <3>2
      <3> QED BY <2>1, <2>2, <3>2, <3>3, <3>4 DEF EndInv, Intake, Failing, Finishing
    <2>4. Silence'
      BY <2>1, <2>2 DEF Silence
    <2>5. Output'
      <3>1. CASE proto = "chat"
        BY <2>1, <2>2, <3>1 DEF EndInv, Output
      <3>2. CASE proto # "chat"
        <4>1. proto \in {"responses", "anthropic"}
          BY <3>2, LinksAssumption DEF EndInv, Intake, proto
        <4>2. Working(conv, FinishSent')
          BY <2>2, <4>1, FreshWorks
        <4>3. Working(conv, FinishSent)'
          BY <2>1, <2>2, <4>2 DEF Working
        <4> QED BY <2>1, <2>2, <3>2, <4>3 DEF Output
      <3> QED BY <3>1, <3>2
    <2> QED BY <2>1, <2>2, <2>3, <2>4, <2>5, HonestStays DEF EndInv
  <1>2. CASE PrimeBytes
    <2>1. /\ phase = "priming" /\ ~expired /\ ready.kind = "bytes" /\ PrimeSignal(ready) # "error"
          /\ buffered' = Append(buffered, ready) /\ ready' = (IF ready.done THEN Eof ELSE Nothing)
          /\ client = "reading"
          /\ UNCHANGED <<link, sent, done_sent, reads, expired, timed_out, conv, finished, client>>
      BY <1>2 DEF PrimeBytes, BytesPolled, TakeBytes, upVars, billVars, Live
    <2>2. finished = FALSE /\ (FinishSent' <=> FinishSent)
      BY <2>1 DEF EndInv, Intake, Silence, FinishSent
    <2>3. ready \in Links[link].batches /\ ready.done \in BOOLEAN /\ ready # Eof
      BY <2>1, Kinds, BatchKind DEF EndInv, Intake
    <2>4. ~Failing(ready) /\ (Finishing(ready) => FinishSent) /\ (ready.done => done_sent)
      <3>1. ~Failing(ready)
        BY <2>1 DEF PrimeSignal, StrongestOf, Signals, SignalOf, Failing
      <3> QED BY <2>1, <3>1 DEF EndInv, Intake
    <2>5. /\ buffered' \in Seq(Links[link].batches) /\ Len(buffered') = Len(buffered) + 1
          /\ Len(buffered) \in Nat /\ buffered'[Len(buffered')] = ready
          /\ \A i \in 1..Len(buffered) : buffered'[i] = buffered[i]
      BY <2>1, <2>3, AppendProperties, LenProperties DEF EndInv, Intake
    <2>6. ASSUME NEW i \in 1..Len(buffered')
          PROVE  /\ ~Failing(buffered'[i]) /\ (Finishing(buffered'[i]) => FinishSent)
                 /\ buffered'[i].done => i = Len(buffered') /\ ready' = Eof /\ done_sent
      <3>1. CASE i = Len(buffered')
        BY <2>1, <2>4, <2>5, <3>1
      <3>2. CASE i # Len(buffered')
        <4>1. i \in 1..Len(buffered) /\ buffered'[i] = buffered[i]
          BY <2>5, <3>2
        <4> QED BY <2>3, <4>1 DEF EndInv, Intake
      <3> QED BY <3>1, <3>2
    <2>7. Intake'
      <3>1. ~Failing(ready') /\ ~Finishing(ready') /\ ready'.kind # "bytes"
        BY <2>1, <2>3, Kinds
      <3> QED BY <2>1, <2>2, <2>3, <2>5, <2>6, <3>1 DEF EndInv, Intake, Failing, Finishing
    <2>8. Silence'
      BY <2>1, <2>2 DEF Silence
    <2> QED BY <2>1, <2>2, <2>7, <2>8, OutputStays, HonestStays DEF EndInv
  <1>3. CASE PrimeWhole
    <2>1. /\ phase = "priming" /\ proto = "chat"
          /\ UNCHANGED <<phase, link, buffered, sent, done_sent, reads, ready, expired, timed_out,
                         conv, finished>>
          /\ client = "reading"
      BY <1>3 DEF PrimeWhole, upVars, timeVars, Live
    <2>2. Intake' /\ Silence' /\ Output'
      BY <2>1 DEF EndInv, Intake, Silence, Output, proto, Failing, Finishing, FailureSent, FinishSent
    <2>3. Honest'
      BY <2>1 DEF EndInv, Honest, proto
    <2> QED BY <2>2, <2>3 DEF EndInv
  <1> QED BY <1>1, <1>2, <1>3

\* Bytes, replayed or live: if they end the stream, nothing follows them.
LEMMA BytesStep ==
    ASSUME EndInv, NEW b \in Links[link].batches, ConvertBytes(b),
           Live, phase = "relaying", UNCHANGED <<phase, link, sent, done_sent, reads, expired,
                                                 timed_out, client>>,
           finished => proto = "chat", Intake', Finishing(b) => FinishSent,
           b.done => buffered' = <<>> /\ ready' = Eof /\ done_sent,
           Failing(b) => buffered' = <<>> /\ ready'.kind # "bytes" /\ FailureSent
    PROVE  EndInv'
  <1>0. client = "reading" /\ link \in DOMAIN Links /\ proto' = proto
    BY DEF Live, EndInv, Intake, proto
  <1>1. CASE proto = "chat"
    <2>1. conv' = conv
      BY <1>1 DEF ConvertBytes, PassThrough
    <2> QED BY <1>0, <1>1, <2>1 DEF EndInv, Silence, Output, Honest
  <1>2. CASE proto # "chat"
    <2>1. /\ finished = FALSE /\ finished' \in BOOLEAN
          /\ ~finished' => Working(conv', FinishSent)
          /\ finished' => Ended(conv'.out) /\ (b.done \/ (Failing(b) /\ Early(conv')))
          /\ proto = "anthropic" => Truthful(conv')
      <3>1. finished = FALSE
        BY <1>2 DEF EndInv, Intake
      <3> QED BY <1>0, <1>2, <3>1, BytesConverted
    <2>2. Silence'
      BY <1>0, <1>2, <2>1 DEF Silence, FailureSent
    <2>3. Working(conv', FinishSent) => Working(conv, FinishSent)'
      BY <1>0 DEF Working, FinishSent
    <2>4. Output'
      BY <1>0, <1>2, <2>1, <2>3 DEF Output
    <2>5. Early(conv') => Early(conv)'
      BY <1>0 DEF Early
    <2>6. Honest'
      BY <1>0, <1>2, <2>1, <2>5 DEF Honest
    <2> QED BY <2>2, <2>4, <2>6 DEF EndInv
  <1> QED BY <1>1, <1>2

\* Replayed bytes come from the buffer, live ones from the upstream.
LEMMA RelayBytesStep ==
    ASSUME EndInv, RelayReplayed \/ RelayBytes PROVE EndInv'
  <1>1. CASE RelayReplayed
    <2>1. /\ Live /\ phase = "relaying" /\ buffered # <<>> /\ ConvertBytes(Head(buffered))
          /\ buffered' = Tail(buffered)
          /\ UNCHANGED <<phase, link, sent, done_sent, reads, ready, expired, timed_out, client>>
      BY <1>1 DEF RelayReplayed, upVars, timeVars
    <2> DEFINE b == Head(buffered)
               n == Len(buffered)
    <2>2. /\ b \in Links[link].batches /\ b = buffered[1] /\ n \in Nat /\ n >= 1
          /\ buffered' \in Seq(Links[link].batches) /\ Len(buffered') = n - 1
          /\ \A i \in 1..(n - 1) : buffered'[i] = buffered[i + 1]
      BY <2>1, HeadTailProperties, LenProperties DEF EndInv, Intake
    <2>3. finished => proto = "chat"
      BY <2>1 DEF EndInv, Silence
    <2>4. finished' \in BOOLEAN
      BY <2>1 DEF EndInv, Intake, ConvertBytes, PassThrough, AfterChunks, End, FinishOnce, billVars
    <2>5. ~Failing(b) /\ (Finishing(b) => FinishSent) /\ (b.done => n = 1 /\ ready = Eof /\ done_sent)
      BY <2>2 DEF EndInv, Intake
    <2>6. n = 1 => buffered' = <<>>
      BY <2>2, EmptySeq
    <2>7. Intake'
      <3>1. ASSUME NEW i \in 1..Len(buffered')
            PROVE  /\ ~Failing(buffered'[i]) /\ (Finishing(buffered'[i]) => FinishSent)
                   /\ buffered'[i].done => i = Len(buffered') /\ ready' = Eof /\ done_sent
        <4>1. i + 1 \in 1..n /\ buffered'[i] = buffered[i + 1]
          BY <2>2
        <4>2. /\ ~Failing(buffered[i + 1]) /\ (Finishing(buffered[i + 1]) => FinishSent)
              /\ buffered[i + 1].done => i + 1 = n /\ ready = Eof /\ done_sent
          BY <4>1 DEF EndInv, Intake
        <4> QED BY <2>1, <2>2, <4>1, <4>2
      <3>2. (FinishSent' <=> FinishSent) /\ (FailureSent' <=> FailureSent)
        BY <2>1 DEF FinishSent, FailureSent
      <3> QED BY <2>1, <2>2, <2>4, <3>1, <3>2 DEF EndInv, Intake, Failing, Finishing
    <2> HIDE DEF b, n
    <2> QED BY <2>1, <2>2, <2>3, <2>5, <2>6, <2>7, BytesStep DEF b
  <1>2. CASE RelayBytes
    <2>1. /\ Live /\ phase = "relaying" /\ buffered = <<>> /\ ConvertBytes(ready)
          /\ ~expired /\ ready.kind = "bytes" /\ ready' = (IF ready.done THEN Eof ELSE Nothing)
          /\ UNCHANGED <<phase, link, buffered, sent, done_sent, reads, expired, timed_out, client>>
      BY <1>2 DEF RelayBytes, BytesPolled, TakeBytes, upVars
    <2>2. ready \in Links[link].batches /\ ready # Eof
      BY <2>1, Kinds DEF EndInv, Intake
    <2>3. finished => proto = "chat"
      BY <2>1, <2>2 DEF EndInv, Silence
    <2>4. finished' \in BOOLEAN
      BY <2>1 DEF EndInv, Intake, ConvertBytes, PassThrough, AfterChunks, End, FinishOnce, billVars
    <2>5. (Failing(ready) => FailureSent) /\ (Finishing(ready) => FinishSent) /\ (ready.done => done_sent)
      BY <2>1 DEF EndInv, Intake
    <2>6. ~Failing(ready') /\ ~Finishing(ready') /\ ready'.kind # "bytes" /\ ready' \in {Nothing, Eof, Err}
      BY <2>1, Kinds
    <2>7. Intake'
      <3>1. \A i \in 1..Len(buffered') : FALSE
        BY <2>1
      <3> QED BY <2>1, <2>4, <2>6, <3>1 DEF EndInv, Intake, Failing, Finishing
    <2> QED BY <2>1, <2>2, <2>3, <2>5, <2>6, <2>7, BytesStep
  <1> QED BY <1>1, <1>2

\* An error, the tail, a whole body: the end that is missing is made up for.
LEMMA LastStep ==
    ASSUME EndInv, \/ RelayError \/ RelayTail
                   \/ \E b \in Links[link].batches : b.frames # <<>> /\ WholeBody(b.frames[1].chunk)
    PROVE  EndInv'
  <1>0. proto # "chat" => proto \in {"responses", "anthropic"}
    BY LinksAssumption DEF EndInv, Intake, proto
  <1>1. CASE RelayError
    <2>1. /\ client = "reading" /\ phase = "relaying" /\ buffered = <<>> /\ ConvertError
          /\ UNCHANGED <<phase, link, buffered, sent, done_sent, reads>>
      BY <1>1 DEF RelayError, Live, upVars
    <2>2. \/ expired /\ timed_out' = TRUE /\ UNCHANGED <<ready, expired>>
          \/ ~expired /\ ready.kind = "err" /\ ready' = Eof /\ UNCHANGED <<expired, timed_out>>
      BY <1>1 DEF RelayError, TimerRings, TakeTimeout, ErrorPolled, TakeError
    <2>3. finished' \in BOOLEAN
      BY <2>1 DEF EndInv, Intake, ConvertError, End, FinishOnce, billVars
    <2>4. /\ proto' = proto /\ (FinishSent' <=> FinishSent) /\ (FailureSent' <=> FailureSent)
          /\ ready = Eof => ready' = Eof
      BY <2>1, <2>2, Kinds DEF proto, FinishSent, FailureSent
    <2>5. Intake'
      <3>1. /\ ready' \in {Nothing, Eof, Err} \cup Links[link].batches
            /\ (Failing(ready') => FailureSent) /\ (Finishing(ready') => FinishSent)
            /\ ready'.kind = "bytes" /\ ready'.done => done_sent
            /\ reads = 0 => ready'.kind # "bytes"
        BY <2>2, Kinds DEF EndInv, Intake
      <3>2. \A i \in 1..Len(buffered') : FALSE
        BY <2>1
      <3>3. expired' \in BOOLEAN /\ timed_out' \in BOOLEAN /\ (timed_out' => expired')
        <4>1. CASE expired = TRUE /\ timed_out' = TRUE /\ expired' = expired
          BY <4>1
        <4>2. CASE expired' = expired /\ timed_out' = timed_out
          BY <4>2 DEF EndInv, Intake
        <4> QED BY <2>2, <4>1, <4>2 DEF EndInv, Intake
      <3>4. (Failing(ready)' => FailureSent') /\ (Finishing(ready)' => FinishSent')
        BY <2>4, <3>1 DEF Failing, Finishing
      <3> QED BY <2>1, <2>3, <3>1, <3>2, <3>3, <3>4 DEF EndInv, Intake
    <2>6. Silence'
      BY <2>1, <2>2 DEF EndInv, Intake, Silence
    <2>7. Output' /\ Honest'
      <3>1. CASE proto = "chat"
        BY <2>1, <2>4, <3>1 DEF EndInv, Output, Honest, ConvertError
      <3>2. CASE proto # "chat" /\ finished
        <4>1. UNCHANGED <<link, finished, conv, client>>
          BY <2>1, <3>2 DEF ConvertError, billVars
        <4> QED BY <2>1, <2>4, <4>1, OutputStays, HonestStays DEF EndInv
      <3>3. CASE proto # "chat" /\ ~finished
        <4>1. conv' = TransportError(conv) /\ finished' = TRUE /\ client' = client
          BY <2>1, <3>3 DEF ConvertError, End, Convert, FinishOnce
        <4>2. Working(conv, FinishSent) /\ FinishSent \in BOOLEAN
          BY <2>1, <3>3 DEF EndInv, Output, FinishSent
        <4>3. /\ Ended(TransportError(conv).out) /\ (proto = "anthropic" => Truthful(TransportError(conv)))
              /\ Early(TransportError(conv))
          BY <1>0, <3>3, <4>2, ErrorEnds
        <4>4. Ended(conv'.out) /\ (proto = "anthropic" => Truthful(conv')) /\ Early(conv')
          BY <4>1, <4>3
        <4>5. Early(conv)'
          BY <2>4, <4>4 DEF Early
        <4> QED BY <2>1, <2>4, <3>3, <4>1, <4>4, <4>5 DEF Output, Honest
      <3> QED BY <3>1, <3>2, <3>3
    <2> QED BY <2>5, <2>6, <2>7 DEF EndInv
  <1>2. CASE RelayTail
    <2>1. /\ client = "reading" /\ phase = "relaying" /\ buffered = <<>> /\ client' = "ended" /\ EndPolled
          /\ UNCHANGED <<phase, link, buffered, sent, done_sent, reads, ready, expired, timed_out>>
          /\ IF finished THEN UNCHANGED <<conv, billVars>> ELSE End(Finalize(conv, TRUE), TRUE)
      BY <1>2 DEF RelayTail, Live, upVars, timeVars
    <2>2. finished' \in BOOLEAN /\ finished'
      BY <2>1 DEF EndInv, Intake, End, FinishOnce, billVars
    <2>3. proto' = proto /\ (FinishSent' <=> FinishSent) /\ (FailureSent' <=> FailureSent)
      BY <2>1 DEF proto, FinishSent, FailureSent
    <2>4. Intake'
      BY <2>1, <2>2, <2>3 DEF EndInv, Intake, Failing, Finishing
    <2>5. Silence'
      <3>1. expired \/ ready = Eof
        BY <2>1, Kinds, BatchKind DEF EndPolled, EndInv, Intake
      <3> QED BY <2>1, <3>1 DEF Silence
    <2>6. Output' /\ Honest'
      <3>1. CASE proto = "chat"
        BY <2>1, <2>3, <3>1 DEF EndInv, Output, Honest, End, Convert, Finalize
      <3>2. CASE proto # "chat" /\ finished
        <4>1. conv' = conv /\ finished' = finished
          BY <2>1, <3>2 DEF billVars
        <4>2. Early(conv) => Early(conv)'
          BY <2>3, <4>1 DEF Early
        <4> QED BY <2>1, <2>3, <3>2, <4>1, <4>2 DEF EndInv, Output, Honest
      <3>3. CASE proto # "chat" /\ ~finished
        <4> DEFINE m == Finalize(conv, TRUE)
        <4>1. conv' = m
          BY <2>1, <3>3 DEF End, Convert
        <4>2. Working(conv, FinishSent) /\ FinishSent \in BOOLEAN
          BY <2>1, <3>3 DEF EndInv, Output, FinishSent
        <4>3. Ended(m.out) /\ (proto = "anthropic" => Truthful(m)) /\ (~FinishSent => Early(m))
          BY <1>0, <3>3, <4>2, ConverterEnds
        <4> HIDE DEF m
        <4>4. Ended(conv'.out) /\ (proto = "anthropic" => Truthful(conv')) /\ (~FinishSent => Early(conv'))
          BY <4>1, <4>3
        <4>5. Early(conv') => Early(conv)'
          BY <2>3 DEF Early
        <4> QED BY <2>1, <2>2, <2>3, <3>3, <4>4, <4>5 DEF Output, Honest
      <3> QED BY <3>1, <3>2, <3>3
    <2> QED BY <2>4, <2>5, <2>6 DEF EndInv
  <1>3. ASSUME NEW b \in Links[link].batches, b.frames # <<>>, WholeBody(b.frames[1].chunk) PROVE EndInv'
    <2> DEFINE c == b.frames[1].chunk
    <2>1. /\ client = "reading" /\ phase = "priming" /\ ready = Nothing /\ proto # "chat" /\ reads = 0
          /\ sent' = <<c>> /\ UNCHANGED <<link, buffered, ready, expired, timed_out, finished,
                                          done_sent, reads>>
          /\ \/ /\ proto = "responses" /\ ~c.error /\ conv' = SynthesizedStream(c)
                /\ client' = "ended" /\ UNCHANGED phase
             \/ UNCHANGED <<conv, client>> /\ phase' = "refused"
      BY <1>3 DEF WholeBody, Live, timeVars
    <2>2. c.tools \in Seq(ToSet(c.tools))
      <3>1. /\ b.frames \in Seq(ToSet(b.frames))
            /\ \A f \in ToSet(b.frames) : f.chunk.tools \in Seq(ToSet(f.chunk.tools))
        BY LinksAssumption DEF EndInv, Intake
      <3>2. 1 \in DOMAIN b.frames
        BY <1>3, <3>1
      <3>3. b.frames[1] \in ToSet(b.frames)
        BY <3>2 DEF ToSet
      <3> QED BY <3>1, <3>3
    <2> HIDE DEF c
    <2>3. /\ finished = FALSE /\ conv = ConverterNew(proto) /\ proto' = proto
          /\ proto \in {"responses", "anthropic"}
      BY <1>0, <2>1 DEF EndInv, Intake, Silence, Output, proto
    <2>4. Intake'
      <3>1. sent' \in Seq(ToSet(sent'))
        <4>1. <<c>> \in Seq({c}) /\ ToSet(<<c>>) = {c}
          BY DEF ToSet
        <4> QED BY <2>1, <4>1
      <3>2. buffered = <<>> /\ \A i \in 1..Len(<<>>) : FALSE
        BY <2>1 DEF EndInv, Intake
      <3> QED BY <2>1, <3>1, <3>2, Kinds DEF EndInv, Intake, Failing, Finishing
    <2>5. Silence'
      BY <2>1, <2>3 DEF Silence
    <2>6. Working(conv, FinishSent') /\ FinishSent' \in BOOLEAN /\ (c.finish # None => FinishSent')
      <3>1. Working(conv, FinishSent')
        BY <2>3, FreshWorks
      <3>2. c.finish # None => FinishSent'
        BY <2>1 DEF FinishSent
      <3> QED BY <3>1, <3>2 DEF FinishSent
    <2>7. Output' /\ Honest'
      <3>1. CASE UNCHANGED <<conv, client>> /\ phase' = "refused"
        <4>1. Working(conv, FinishSent)'
          BY <2>3, <2>6, <3>1 DEF Working
        <4>2. Output'
          BY <2>1, <2>3, <3>1, <4>1 DEF Output
        <4>3. Honest'
          BY <2>1, <2>3, <3>1 DEF EndInv, Honest
        <4> QED BY <4>2, <4>3
      <3>2. CASE /\ proto = "responses" /\ ~c.error /\ conv' = SynthesizedStream(c)
                 /\ client' = "ended" /\ UNCHANGED phase
        <4> DEFINE seen == FinishSent'
        <4>1. Responding(conv, FALSE, seen) /\ seen \in BOOLEAN /\ (c.finish # None => seen)
          BY <2>6, <3>2 DEF Working
        <4> HIDE DEF seen
        <4>2. Responding(ResponsesProcessChunk(conv, c), FALSE, seen)
          <5>1. Responding(ConvertChunk(conv, c), FALSE, seen)
            BY <2>2, <4>1, ConvertResponding
          <5> QED BY <3>2, <4>1, <5>1 DEF ResponsesProcessChunk, Responding
        <4>3. Ended(SynthesizedStream(c).out)
          BY <4>1, <4>2, ResponseEnds DEF SynthesizedStream
        <4>4. Output' /\ Honest'
          BY <2>1, <2>3, <3>2, <4>3 DEF Output, Honest
        <4> QED BY <4>4
      <3> QED BY <2>1, <3>1, <3>2
    <2> QED BY <2>4, <2>5, <2>7 DEF EndInv
  <1> QED BY <1>1, <1>2, <1>3

\* Every step keeps the stream on its way to its one end.
LEMMA EndStep ==
    ASSUME EndInv, [RelayNext]_vars PROVE EndInv'
  <1>1. CASE Build \/ OtherRecords \/ (\E id \in 1..others : OtherRestores(id)) \/ Ping \/ UNCHANGED vars
    <2>1. UNCHANGED <<link, buffered, sent, done_sent, reads, ready, expired, timed_out, finished,
                      conv, client>>
      BY <1>1 DEF Build, OtherRecords, OtherRestores, Ping, historyFrame, vars, upVars, timeVars, billVars
    <2>2. /\ finished => phase' = phase
          /\ phase = "relaying" => phase' = "relaying"
          /\ phase' = "relaying" => phase = "relaying"
      BY <1>1 DEF Build, OtherRecords, OtherRestores, Ping, historyFrame, vars, EndInv, Silence
    <2>3. (FinishSent' <=> FinishSent) /\ (FailureSent' <=> FailureSent)
      BY <2>1 DEF FinishSent, FailureSent
    <2>4. Intake'
      BY <2>1, <2>3 DEF EndInv, Intake, Failing, Finishing
    <2>5. Silence'
      BY <2>1, <2>2, <2>3 DEF EndInv, Silence, proto
    <2> QED BY <2>1, <2>2, <2>3, <2>4, <2>5, OutputStays, HonestStays DEF EndInv
  <1>2. CASE Leave
    <2>1. /\ client = "reading" /\ client' = "gone"
          /\ UNCHANGED <<phase, link, buffered, sent, done_sent, reads, ready, expired, timed_out,
                         finished, conv>>
      BY <1>2 DEF Leave, Live, upVars, timeVars
    <2>2. proto' = proto /\ (FinishSent' <=> FinishSent) /\ (FailureSent' <=> FailureSent)
      BY <2>1 DEF FinishSent, FailureSent, proto
    <2>3. Intake'
      BY <2>1, <2>2 DEF EndInv, Intake, Failing, Finishing
    <2>4. Silence'
      BY <2>1, <2>2 DEF EndInv, Silence
    <2>5. Working(conv, FinishSent) => Working(conv, FinishSent)'
      BY <2>1 DEF Working, proto, FinishSent
    <2>6. Output'
      BY <2>1, <2>2, <2>5 DEF EndInv, Output
    <2>7. Honest'
      BY <2>1, <2>2 DEF EndInv, Honest, Early
    <2> QED BY <2>3, <2>4, <2>6, <2>7 DEF EndInv
  <1> QED BY <1>1, <1>2, UpstreamStep, PrimingStep, RelayBytesStep, LastStep DEF RelayNext

\* At the start there is nothing.
LEMMA EndStart ==
    ASSUME RelayInit PROVE EndInv
  <1>1. link \in DOMAIN Links
    BY DEF RelayInit
  <1>2. Intake
    <2>1. <<>> \in Seq(ToSet(<<>>)) /\ <<>> \in Seq(Links[link].batches) /\ Len(<<>>) = 0
      OBVIOUS
    <2>2. /\ sent \in Seq(ToSet(sent)) /\ buffered \in Seq(Links[link].batches)
          /\ \A i \in 1..Len(buffered) : FALSE
      BY <2>1 DEF RelayInit
    <2> QED BY <1>1, <2>2, Kinds DEF RelayInit, Intake
  <1>3. Silence
    BY DEF RelayInit, Silence
  <1>4. conv = ConverterNew(proto) /\ client = "reading" /\ finished = FALSE
    BY DEF RelayInit
  <1>5. Output
    <2>1. proto \in {"chat", "responses", "anthropic"}
      BY <1>1, LinksAssumption DEF proto
    <2>2. proto = "chat" => ConverterNew(proto).out = <<>>
      BY DEF ConverterNew, ResponsesNew
    <2> QED BY <1>4, <2>1, <2>2, FreshWorks DEF Output
  <1>6. Honest
    <2>1. proto = "anthropic" => ConverterNew(proto).reported = None
      BY DEF ConverterNew, AnthropicNew
    <2> QED BY <1>4, <2>1 DEF Honest, Truthful
  <1> QED BY <1>2, <1>3, <1>5, <1>6 DEF EndInv

\* An end is there once the stream is over, and only then.
LEMMA EndOnlyWhenOver ==
    ASSUME EndInv
    PROVE  /\ HasEnded => proto # "chat" /\ (finished \/ client = "ended")
           /\ proto # "chat" /\ (finished \/ client = "ended") => Ended(Out)
           /\ proto = "chat" \/ ~(finished \/ client = "ended") => Running(Out)
  <1>1. CASE proto # "chat" /\ (finished \/ client = "ended")
    BY <1>1 DEF EndInv, Output, Out
  <1>2. CASE proto = "chat" \/ ~(finished \/ client = "ended")
    <2>1. CASE proto = "chat"
      <3>1. <<>> \in Seq(ToSet(<<>>)) /\ Len(<<>>) = 0
        OBVIOUS
      <3>2. Running(<<>>)
        BY <3>1 DEF Running
      <3> QED BY <2>1, <3>2 DEF EndInv, Output, HasEnded, Out
    <2>2. CASE proto # "chat"
      <3>1. Working(conv, FinishSent)
        BY <1>2, <2>2 DEF EndInv, Output
      <3>2. Running(Out)
        BY <3>1 DEF Working, Responding, Messaging, Out
      <3>3. Out # <<>> => Last(Out).ev \notin Ends
        BY <3>2, LenProperties, EmptySeq DEF Running, Last
      <3> QED BY <1>2, <2>2, <3>2, <3>3 DEF HasEnded
    <2> QED BY <2>1, <2>2
  <1> QED BY <1>1, <1>2

\* A converted stream has one end, it is the last event, and a client that read to the end
\* of the body has it, whatever the upstream sends, breaks off or delays (the `finished` flag
\* of wrap_chat_stream_to_responses and wrap_chat_stream_to_anthropic, finalize,
\* record_transport_error and transport_error of the two converters).
THEOREM RelayOneEnd == RelaySpec => []OneEnd
  <1>1. EndInv => OneEnd
    <2> SUFFICES ASSUME EndInv PROVE OneEnd
      OBVIOUS
    <2>1. ASSUME Ended(Out) PROVE OneEnd
      <3>1. Out # <<>> /\ Len(Out) \in Nat /\ Len(Out) > 0
        BY <2>1, LenProperties, EmptySeq DEF Ended
      <3>2. Out[Len(Out)].ev \in Ends
        BY <2>1, <3>1 DEF Ended
      <3> QED BY <2>1, <3>1, <3>2 DEF OneEnd, HasEnded, Last, Ended
    <2>2. ASSUME Running(Out), proto = "chat" \/ client # "ended" PROVE OneEnd
      BY <2>2 DEF OneEnd, Running
    <2> QED BY <2>1, <2>2, EndOnlyWhenOver
  <1>2. EndInv /\ [RelayNext]_vars => EndInv'
    BY EndStep
  <1>3. RelayInit => EndInv
    BY EndStart
  <1> QED BY <1>1, <1>2, <1>3, PTL DEF RelaySpec

\* An answer that was cut off is not passed off as a complete one, and an Anthropic message
\* says tool_use exactly when it holds a tool call, unless it ran out of tokens: for all that
\* the upstreams may send, wherever a stream breaks off (determine_final_status,
\* message_delta_events, and what set finish_seen and stop_reason before).
THEOREM RelayHonestEnd == RelaySpec => []HonestEnd
  <1>1. EndInv => HonestEnd
    <2> SUFFICES ASSUME EndInv PROVE HonestEnd
      OBVIOUS
    <2>1. ASSUME HasEnded, phase = "relaying", ~FinishSent, ~done_sent PROVE Early(conv)
      <3>1. proto # "chat" /\ (finished \/ client = "ended")
        BY <2>1, EndOnlyWhenOver
      <3>2. finished
        BY <2>1, <3>1 DEF EndInv, Honest
      <3> QED BY <2>1, <3>1, <3>2 DEF EndInv, Honest
    <2>2. IndicesOf("tool_use") # {} <=> ToolShown(Out)
      BY DEF IndicesOf, ToolShown
    <2>3. proto = "anthropic" => Truthful(conv)
      BY DEF EndInv, Honest
    <2> QED BY <2>1, <2>2, <2>3 DEF HonestEnd, Early, Truthful, Out
  <1>2. EndInv /\ [RelayNext]_vars => EndInv'
    BY EndStep
  <1>3. RelayInit => EndInv
    BY EndStart
  <1> QED BY <1>1, <1>2, <1>3, PTL DEF RelaySpec
=============================================================================
