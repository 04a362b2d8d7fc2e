--------------------------------- MODULE Relay ---------------------------------
(***************************************************************************)
(* A streamed answer from the candidates' upstreams to the client.         *)
(*                                                                         *)
(* A request that refers to an earlier answer gets its context from the    *)
(* history, anew for every candidate, while other requests use the history *)
(* too.  Priming (proxy.rs): the gateway reads a candidate's stream into a       *)
(* buffer until it brings output or a regular end, and goes on to the next *)
(* candidate when it breaks before that.  Then the buffer and the rest of  *)
(* the stream pass a converter to the client's protocol that also bills    *)
(* the request (wrap_chat_stream_to_responses,                             *)
(* wrap_chat_stream_to_anthropic; "chat" is passed through by wrap_stream) *)
(* and the keep-alive (PingKeepaliveStream).  The stream itself is under   *)
(* the time limits of StreamTimeoutStream.  Upstream, clock and client     *)
(* move on their own: bytes, an expired window and a client that leaves    *)
(* are ready in any order, and a poll takes them in the code's.            *)
(*                                                                         *)
(* The upstream is assumed to send nothing after [DONE], only its finish   *)
(* again after a finish_reason, and not both content and a refusal.        *)
(***************************************************************************)
EXTENDS ResponsesStream, AnthropicStream, History

CONSTANTS
    Links,        \* name -> [proto, candidates, reads, batches, others]: the client's
                  \* protocol, the number of candidates, the bound on the reads of one,
                  \* what a read may bring; and, if the request refers to an earlier
                  \* answer, how many other answers are recorded meanwhile (else 0)
    PrimeLimit,   \* STREAM_PRIME_MAX_BYTES, in reads
    CallOf        \* argument symbol -> the tool call it belongs to

ASSUME RelayAssumption == /\ PrimeLimit \in Nat \ {0}
                          /\ \A n \in DOMAIN Links : Links[n].candidates \in Nat \ {0}

VARIABLES
    link,         \* the link in use
    phase,        \* "building" | "priming" | "relaying" | "refused" (every candidate
                  \* failed) | "rejected" (the earlier answer is unknown)
    candidate,    \* the candidate being read
    buffered,     \* reads not yet passed on: primed, then replayed
    sent,         \* history: the chunks the candidate has sent
    done_sent,    \* history: it has sent [DONE]
    reads,        \* how many reads they came in
    ready,        \* the upstream's next item, waiting to be polled
    expired,      \* the current window has run out
    timed_out,    \* StreamTimeoutStream.timed_out
    conv,         \* the converter's state machine
    finished,     \* ConvertCtx.finished
    recorded,     \* ConvertCtx.recorded
    bills,        \* calls of usage::record
    snapshot,     \* what the Responses history took of this answer
    context,      \* what the candidate was told of the earlier answer
    others,       \* how many other answers were recorded
    since,        \* history: the answers recorded or restored since the earlier one was
    at_line_start,\* PingKeepaliveStream.at_line_start
    wire,         \* history: the delivered bytes end with a "line" or a "half" one;
                  \* "torn" once a ping fell into a line
    client        \* "reading" | "gone" | "ended"

upVars   == <<link, candidate, sent, done_sent, reads, context, others>>
timeVars == <<ready, expired, timed_out>>
teeVars  == <<snapshot, history, since>>
billVars == <<finished, recorded, bills, teeVars>>
pingVars == <<at_line_start, wire>>
vars == <<phase, buffered, conv, client, upVars, timeVars, billVars, pingVars>>

Nothing == [kind |-> "nothing"]
Eof     == [kind |-> "eof"]
Err     == [kind |-> "err"]
Bytes(frames, done, whole) ==
    [kind |-> "bytes", frames |-> frames, done |-> done, whole |-> whole]

(* A client has one of the three protocols, and a read brings frames whose chunks
   have all parts. *)
ASSUME LinksAssumption ==
    \A n \in DOMAIN Links :
        /\ Links[n].proto \in {"chat", "responses", "anthropic"}
        /\ \A b \in Links[n].batches :
                /\ b = Bytes(b.frames, b.done, b.whole) /\ b.done \in BOOLEAN
                /\ b.frames \in Seq(ToSet(b.frames))
                /\ \A f \in ToSet(b.frames) : /\ DOMAIN f.chunk = DOMAIN EmptyChunk
                                              /\ f.chunk.tools \in Seq(ToSet(f.chunk.tools))

NoSnapshot == [status |-> None, output |-> <<>>]

proto == Links[link].proto

(* The ids: of this answer, of the one it refers to, and of the others (1, 2, ...). *)
Self    == -1
Earlier == 0
Refers  == Links[link].others > 0

EarlierOutput == <<[item |-> "message", data |-> <<"e">>]>>
OtherOutput   == <<[item |-> "message", data |-> <<"x">>]>>

(* The earlier answer is one the history took. *)
ASSUME EarlierAssumption == Recordable(EarlierOutput)

ConverterNew(p) == IF p = "anthropic" THEN AnthropicNew ELSE ResponsesNew

RelayInit ==
    /\ link \in DOMAIN Links
    /\ phase = "building" /\ candidate = 1 /\ buffered = <<>>
    /\ sent = <<>> /\ done_sent = FALSE /\ reads = 0 /\ ready = Nothing
    /\ expired = FALSE /\ timed_out = FALSE
    /\ conv = ConverterNew(proto)
    /\ finished = FALSE /\ recorded = FALSE /\ bills = 0 /\ snapshot = NoSnapshot
    /\ history = IF Refers THEN Record(EmptyHistory, Earlier, EarlierOutput) ELSE EmptyHistory
    /\ context = <<>> /\ others = 0 /\ since = {}
    /\ at_line_start = TRUE /\ wire = "line" /\ client = "reading"

-----------------------------------------------------------------------------
(* The history and its other users.                                         *)

historyFrame == <<phase, link, candidate, sent, done_sent, reads, buffered, timeVars, conv,
                  finished, recorded, bills, snapshot, pingVars, client>>

(* Another answer is recorded, or restored for the next turn of its conversation. *)
OtherRecords ==
    /\ others < Links[link].others
    /\ others' = others + 1
    /\ history' = Record(history, others', OtherOutput) /\ since' = since \cup {others'}
    /\ UNCHANGED <<context, historyFrame>>

OtherRestores(id) ==
    /\ id \in DOMAIN history.map
    /\ history' = Restore(history, id) /\ since' = since \cup {id}
    /\ UNCHANGED <<context, others, historyFrame>>

(* build_outbound, enrich_request_with_history: for every candidate the earlier
   output is restored and put before the input; an unknown one is a 400. *)
Build ==
    /\ client = "reading" /\ phase = "building"
    /\ IF ~Refers
       THEN phase' = "priming" /\ UNCHANGED <<context, history, since>>
       ELSE IF Earlier \in DOMAIN history.map
       THEN /\ phase' = "priming" /\ context' = history.map[Earlier]
            /\ history' = Restore(history, Earlier) /\ since' = {}
       ELSE phase' = "rejected" /\ UNCHANGED <<context, history, since>>
    /\ UNCHANGED <<buffered, link, candidate, sent, done_sent, reads, others, timeVars, conv,
                   finished, recorded, bills, snapshot, pingVars, client>>

-----------------------------------------------------------------------------
(* The upstream and the clock.                                              *)

Live == client = "reading" /\ phase \in {"priming", "relaying"}

FinishSent == \E i \in 1..Len(sent) : sent[i].finish # None

FinishAgain(b) == \A i \in 1..Len(b.frames) :
    b.frames[i].chunk = [EmptyChunk EXCEPT !.finish = b.frames[i].chunk.finish]

Arrive(b) ==
    /\ Live /\ ready = Nothing /\ reads < Links[link].reads
    /\ FinishSent => FinishAgain(b)
    /\ ~\E i \in 1..Len(sent) : sent[i].error
    /\ ready' = b /\ reads' = reads + 1
    /\ sent' = sent \o ChunksOf(b.frames) /\ done_sent' = b.done
    /\ UNCHANGED <<phase, link, candidate, context, others, buffered, expired, timed_out, conv,
                   billVars, pingVars, client>>

(* The connection ends, in order or not. *)
Close(end) ==
    /\ Live /\ ready = Nothing
    /\ ready' = end
    /\ UNCHANGED <<phase, buffered, upVars, expired, timed_out, conv, billVars, pingVars, client>>

(* The window runs out; it is looked at when the stream is polled next. *)
Expire ==
    /\ Live /\ ~expired /\ ready.kind # "eof"
    /\ expired' = TRUE
    /\ UNCHANGED <<phase, buffered, upVars, ready, timed_out, conv, billVars, pingVars, client>>

(* StreamTimeoutStream::poll_next: the timer first, then the bytes; after its
   error the stream is over.  Every item starts the idle window anew. *)
TimerRings   == expired /\ ~timed_out
BytesPolled  == ~expired /\ ready.kind = "bytes"
ErrorPolled  == ~expired /\ ready.kind = "err"
EndPolled    == timed_out \/ (~expired /\ ready.kind = "eof")

(* Taking the bytes: behind [DONE] there is only the end. *)
TakeBytes == ready' = (IF ready.done THEN Eof ELSE Nothing) /\ UNCHANGED <<expired, timed_out>>
TakeError == ready' = Eof /\ UNCHANGED <<expired, timed_out>>
TakeTimeout == timed_out' = TRUE /\ UNCHANGED <<ready, expired>>

-----------------------------------------------------------------------------
(* Priming.                                                                 *)

(* prime_signal_of, frame_error_message: what one chunk says. *)
SignalOf(c) ==
    CASE c.error -> "error"
      [] ~c.error /\ c.finish # None -> "terminal"
      [] ~c.error /\ c.finish = None /\ (c.content # <<>> \/ c.reasoning # <<>> \/ c.tools # <<>>)
            -> "productive"
      [] OTHER -> "neutral"

(* PrimeState::feed: the strongest signal of the read. *)
Signals(chunks, signal) == \E i \in 1..Len(chunks) : SignalOf(chunks[i]) = signal

StrongestOf(chunks, done) ==
    CASE Signals(chunks, "error") -> "error"
      [] ~Signals(chunks, "error") /\ Signals(chunks, "productive") -> "productive"
      [] OTHER -> IF Signals(chunks, "terminal") \/ done THEN "terminal" ELSE "neutral"

PrimeSignal(b) == StrongestOf(ChunksOf(b.frames), b.done)

(* first_chunk_error: the read begins with an error. *)
FirstChunkError(b) == \E i \in 1..Len(ChunksOf(b.frames)) : i = 1 /\ ChunksOf(b.frames)[i].error

(* The tail of the loop: the last failure is the answer, and is billed. *)
AllFailed ==
    /\ phase' = "refused" /\ recorded' = TRUE /\ bills' = bills + 1
    /\ UNCHANGED candidate

(* record_failure and the next candidate, or the failure as the answer. *)
NextCandidate ==
    /\ buffered' = <<>> /\ sent' = <<>> /\ done_sent' = FALSE /\ reads' = 0
    /\ ready' = Nothing /\ expired' = FALSE /\ timed_out' = FALSE
    /\ IF candidate < Links[link].candidates
       THEN /\ candidate' = candidate + 1 /\ phase' = "building"
            /\ UNCHANGED <<recorded, bills>>
       ELSE AllFailed
    /\ UNCHANGED <<link, context, others, conv, finished, teeVars, pingVars, client>>

PrimeFails ==
    /\ Live /\ phase = "priming"
    /\ \/ TimerRings
       \/ ErrorPolled
       \/ EndPolled
       \/ BytesPolled /\ (FirstChunkError(ready) \/ PrimeSignal(ready) = "error")
    /\ NextCandidate

(* Output, a regular end or a full buffer commits to the candidate. *)
PrimeBytes ==
    /\ Live /\ phase = "priming" /\ BytesPolled /\ PrimeSignal(ready) # "error"
    /\ buffered' = Append(buffered, ready)
    /\ phase' = IF PrimeSignal(ready) # "neutral" \/ Len(buffered') >= PrimeLimit
                THEN "relaying" ELSE phase
    /\ TakeBytes
    /\ UNCHANGED <<upVars, conv, billVars, pingVars, client>>

-----------------------------------------------------------------------------
(* The conversion.                                                          *)

ProcessChunk(s, c) == CASE proto = "responses" -> ResponsesProcessChunk(s, c)
                        [] proto = "anthropic" -> AnthropicProcessChunk(s, c)
                        [] OTHER -> s

(* Mutant: a failed Anthropic stream is ended like a good one. *)
MutFinalize(s, truncated) == CASE proto = "responses" -> ResponsesFinalize(s, truncated)
                               [] proto = "anthropic" ->
                                    AnthropicFinalize([s EXCEPT !.failed = FALSE], truncated)
                               [] OTHER -> s

Finalize(s, truncated) == CASE proto = "responses" -> ResponsesFinalize(s, truncated)
                            [] proto = "anthropic" -> AnthropicFinalize(s, truncated)
                            [] OTHER -> s

TransportError(s) == CASE proto = "responses" -> ResponsesTransportError(s)
                       [] proto = "anthropic" -> AnthropicTransportError(s)
                       [] OTHER -> s

HasFailed(s) == CASE proto = "responses" -> s.failed_error
                  [] proto = "anthropic" -> s.failed
                  [] OTHER -> FALSE

(* snapshot_from_events_typed: the final response's output, if the history takes it *)
Snapshot(s) == IF proto = "responses" /\ Recordable(s.output)
               THEN [status |-> s.status, output |-> s.output] ELSE NoSnapshot

(* The tee of the final response into the history. *)
Tee(s) ==
    /\ snapshot' = Snapshot(s)
    /\ IF snapshot' = NoSnapshot THEN UNCHANGED <<history, since>>
       ELSE history' = Record(history, Self, s.output) /\ since' = since \cup {Self}

(* Mutant: the flag is not set. *)
MutBillOnce == UNCHANGED recorded /\ bills' = IF recorded THEN bills ELSE bills + 1

(* Whoever sets `recorded` first bills. *)
BillOnce == recorded' = TRUE /\ bills' = IF recorded THEN bills ELSE bills + 1

(* Whoever sets `finished` first ends the converted stream. *)
FinishOnce(s, tee) ==
    /\ finished' = TRUE /\ BillOnce
    /\ IF tee THEN Tee(s) ELSE UNCHANGED teeVars

(* Mutant: every read counts as ending its line. *)
MutDeliver(empty, whole) ==
    /\ at_line_start' = TRUE
    /\ wire' = IF wire = "torn" \/ empty THEN wire ELSE IF whole THEN "line" ELSE "half"

(* What the poll returns goes to the client through the keep-alive. *)
Deliver(empty, whole) ==
    /\ at_line_start' = (~empty /\ whole)
    /\ wire' = IF wire = "torn" \/ empty THEN wire ELSE IF whole THEN "line" ELSE "half"

(* The converter's next state, and the frames that lead to it to the client. *)
Convert(s) == conv' = s /\ Deliver(s.out = conv.out, TRUE)

End(s, tee) == Convert(s) /\ FinishOnce(s, tee)

(* The body of `main` for bytes: every frame is converted, then [DONE] or a
   failed conversion finishes the stream. *)
AfterChunks(s, done) ==
    IF (done \/ HasFailed(s)) /\ ~finished THEN End(Finalize(s, FALSE), TRUE)
    ELSE Convert(s) /\ UNCHANGED billVars

(* Passed through, the bytes stay as they are; [DONE] bills. *)
PassThrough(b) ==
    /\ Deliver(FALSE, b.whole)
    /\ IF b.done /\ ~finished THEN FinishOnce(conv, FALSE) ELSE UNCHANGED billVars
    /\ UNCHANGED conv

ConvertBytes(b) ==
    IF proto = "chat" THEN PassThrough(b)
    ELSE AfterChunks(FoldLeft(ProcessChunk, conv, ChunksOf(b.frames)), b.done)

(* The body of `main` for an error: one failed end instead of a cut connection.
   Passed through, the error breaks the connection and the drop bills. *)
ConvertError ==
    CASE proto = "chat" ->
            /\ BillOnce /\ client' = "ended" /\ Deliver(TRUE, TRUE)
            /\ UNCHANGED <<conv, finished, teeVars>>
      [] proto # "chat" /\ finished ->
            Deliver(TRUE, TRUE) /\ UNCHANGED <<conv, billVars, client>>
      [] OTHER -> End(TransportError(conv), FALSE) /\ UNCHANGED client

(* synthesize_sse_from_chat_body: the completion as one chunk, and its end. *)
SynthesizedStream(c) == ResponsesFinalize(ResponsesProcessChunk(conv, c), FALSE)

(* The candidate answers with a whole body instead of a stream.  A completion for
   a Responses client becomes a stream at once;
   anything else, and all of it for an Anthropic client, is an error answer. *)
WholeBody(c) ==
    /\ Live /\ phase = "priming" /\ reads = 0 /\ ready = Nothing /\ ~expired /\ proto # "chat"
    /\ sent' = <<c>> /\ BillOnce
    /\ IF proto = "responses" /\ c # EmptyChunk /\ ~c.error
       THEN /\ conv' = SynthesizedStream(c)
            /\ client' = "ended" /\ UNCHANGED phase
       ELSE phase' = "refused" /\ UNCHANGED <<conv, client>>
    /\ UNCHANGED <<link, candidate, done_sent, reads, context, others, buffered, timeVars,
                   finished, teeVars, pingVars>>

(* Passed through, a body that is no event stream ends without a signal: it is
   the answer, billed and returned as it is. *)
PrimeWhole ==
    /\ Live /\ phase = "priming" /\ proto = "chat" /\ ~expired /\ ready = Eof /\ buffered # <<>>
    /\ BillOnce /\ client' = "ended"
    /\ UNCHANGED <<phase, buffered, upVars, timeVars, conv, finished, teeVars, pingVars>>

RelayReplayed ==
    /\ Live /\ phase = "relaying" /\ buffered # <<>>
    /\ ConvertBytes(Head(buffered))
    /\ buffered' = Tail(buffered)
    /\ UNCHANGED <<phase, upVars, timeVars, client>>

RelayBytes ==
    /\ Live /\ phase = "relaying" /\ buffered = <<>> /\ BytesPolled
    /\ ConvertBytes(ready)
    /\ TakeBytes
    /\ UNCHANGED <<phase, buffered, upVars, client>>

RelayError ==
    /\ Live /\ phase = "relaying" /\ buffered = <<>>
    /\ \/ TimerRings /\ TakeTimeout
       \/ ErrorPolled /\ TakeError
    /\ ConvertError
    /\ UNCHANGED <<phase, buffered, upVars>>

(* The chained tail: without a finish before it the stream was cut off. *)
RelayTail ==
    /\ Live /\ phase = "relaying" /\ buffered = <<>> /\ EndPolled
    /\ IF finished THEN UNCHANGED <<conv, billVars>> /\ Deliver(TRUE, TRUE)
       ELSE End(Finalize(conv, TRUE), TRUE)
    /\ client' = "ended"
    /\ UNCHANGED <<phase, buffered, upVars, timeVars>>

(* Silence for an interval: a comment line, but only between lines. *)
Ping ==
    /\ Live /\ phase = "relaying" /\ buffered = <<>> /\ ready = Nothing /\ ~expired
    /\ at_line_start
    /\ wire' = IF wire = "half" THEN "torn" ELSE wire
    /\ UNCHANGED <<phase, buffered, upVars, timeVars, conv, billVars, at_line_start, client>>

(* The client leaves: BillingOnDrop bills what nobody billed.  Before the
   commit there is no response yet, and nothing to bill. *)
Leave ==
    /\ Live
    /\ client' = "gone"
    /\ IF phase = "relaying" THEN BillOnce ELSE UNCHANGED <<recorded, bills>>
    /\ UNCHANGED <<phase, buffered, upVars, timeVars, conv, finished, teeVars, pingVars>>

RelayNext ==
    \/ \E b \in Links[link].batches : Arrive(b)
    \/ \E end \in {Eof, Err} : Close(end)
    \/ Build \/ OtherRecords
    \/ \E id \in 1..others : OtherRestores(id)
    \/ Expire
    \/ \E b \in Links[link].batches : b.frames # <<>> /\ WholeBody(b.frames[1].chunk)
    \/ PrimeFails \/ PrimeBytes \/ PrimeWhole
    \/ RelayReplayed \/ RelayBytes \/ RelayError \/ RelayTail
    \/ Ping \/ Leave

RelaySpec == RelayInit /\ [][RelayNext]_vars

-----------------------------------------------------------------------------
(* What the client can rely on.  Out is what it was sent so far.            *)

Out == conv.out
Ends == {"completed", "incomplete", "failed", "message_stop", "error"}
HasEnded == Out # <<>> /\ Last(Out).ev \in Ends

(* Item x is open after the first n events. *)
OpenAfter(x, n) ==
    LET marks == {i \in 1..n : Out[i].at = x /\ Out[i].ev \in {"added", "done"}}
    IN  marks # {} /\ Out[Max(marks)].ev = "added"

OpenedBefore(x, n) == \E i \in 1..n : Out[i].at = x /\ Out[i].ev = "added"

IndicesOf(kind) == {Out[i].at : i \in {j \in 1..Len(Out) : Out[j].ev = "added" /\ Out[j].data = <<kind>>}}

(* What the client puts together from the deltas of the items in S. *)
Assembled(S) ==
    FlattenSeq([i \in 1..Len(Out) |->
        IF Out[i].ev = "delta" /\ Out[i].at \in S THEN Out[i].data ELSE <<>>])

(* The items of a converted stream are properly bracketed: opened before they
   are extended or closed, opened again only by reasoning of a Responses stream
   that goes on after a tool call, and all closed when the answer is complete.
   A call that never had an id (index -1) is not an item. *)
ItemsBracketed ==
    /\ \A i \in 1..Len(Out) : Out[i].at # NoIndex =>
        IF Out[i].ev = "added"
        THEN /\ ~OpenAfter(Out[i].at, i - 1)
             /\ OpenedBefore(Out[i].at, i - 1) => proto = "responses" /\ Out[i].data = <<"thinking">>
        ELSE OpenAfter(Out[i].at, i - 1)
    /\ HasEnded /\ Last(Out).ev # "error" => \A i \in 1..Len(Out) : ~OpenAfter(Out[i].at, Len(Out))

(* A converted stream has one end, it is the last event, and a client that read
   to the end of the body has it: no failure, time limit or cut leaves it out. *)
OneEnd ==
    /\ \A i \in 1..Len(Out) : Out[i].ev \in Ends => i = Len(Out)
    /\ client = "ended" /\ proto # "chat" => HasEnded

(* The chunks the converter has to account for: those before an error. *)
Told == LET bad == {i \in 1..Len(sent) : sent[i].error}
        IN  IF bad = {} THEN sent ELSE SubSeq(sent, 1, Min(bad) - 1)

Column(field) == FlattenSeq([i \in 1..Len(Told) |-> Told[i][field]])
IsThought(x)  == x = "r"

(* The refusal as it is passed on: every delta trimmed, as the code does it. *)
Refusal == FlattenSeq([i \in 1..Len(Told) |-> Trim(Told[i].refusal)])

(* When the answer ends with everything read, the client has put together exactly
   what the committed candidate sent: replayed and live reads in order, each
   symbol once, the think block split off however the reads cut it; of a refusal
   only the white space at the ends of each delta is lost. *)
ContentConserved ==
    HasEnded /\ Last(Out).ev # "error" /\ ~timed_out =>
        LET whole   == SplitWhole(Column("content"))
            thought == Assembled(IndicesOf("thinking"))
        IN  /\ Assembled(IndicesOf("text")) = whole.t \o Refusal
            /\ SelectSeq(thought, IsThought) = Column("reasoning")
            /\ SelectSeq(thought, LAMBDA x : ~IsThought(x)) = whole.r

SentArguments(call) ==
    LET args == FlattenSeq([i \in 1..Len(Column("tools")) |-> Column("tools")[i].args])
    IN  SelectSeq(args, LAMBDA x : CallOf[x] = call)

ToolArguments(k) == LET t == conv.tools[k]
                    IN  IF proto = "responses" THEN t.arguments \o t.pending_args ELSE t.arguments

(* When an answer ends with everything read, every tool call has the arguments of
   one of the upstream's calls, whole and in order, whichever of its frames
   brought id and name and whether or not the frames carried an index; no two
   share one; and what was streamed of it is what it has. *)
ToolsIntact ==
    HasEnded /\ Last(Out).ev # "error" /\ ~timed_out =>
        LET Aborted(k) == proto = "anthropic" /\ conv.tools[k].aborted
            At(k) == IF proto = "responses" THEN conv.tools[k].output_index ELSE conv.tools[k].index
            Silent(k) == proto = "responses" /\ conv.tools[k].name # None
                            /\ ToolContext[conv.tools[k].name] \in {"bridged", "tool_search"}
            calls == {k \in DOMAIN conv.tools : conv.tools[k].name # None /\ ~Aborted(k)}
        IN  /\ \A k \in calls : \E c \in Range(CallOf) :
                    /\ ToolArguments(k) = SentArguments(c)
                    /\ \A j \in calls \ {k} : ToolArguments(j) # <<>> =>
                            ToolArguments(j) # SentArguments(c)
            /\ \A k \in calls : At(k) # NoIndex /\ ~Silent(k) =>
                    Assembled({At(k)}) = ToolArguments(k)

(* An answer that was cut off is not passed off as a complete one: without a
   finish or [DONE] it is incomplete or failed, and an Anthropic message says
   tool_use exactly when it holds a tool call, unless it ran out of tokens. *)
HonestEnd ==
    /\ HasEnded /\ phase = "relaying" /\ ~FinishSent /\ ~done_sent =>
            \/ Last(Out).ev \in {"incomplete", "failed", "error"}
            \/ proto = "anthropic" /\ conv.reported = "max_tokens"
    /\ proto = "anthropic" /\ conv.reported \notin {None, "max_tokens"} =>
            (conv.reported = "tool_use" <=> IndicesOf("tool_use") # {})

(* What is kept for the next turn of the conversation is what the client got, as
   it ended, item by item.  Whether it should be kept is FailedNotRecorded's
   question. *)
SnapshotIsTheAnswer ==
    snapshot # NoSnapshot =>
        /\ Self \in DOMAIN history.map => history.map[Self] = snapshot.output
        /\ HasEnded /\ snapshot.status = Last(Out).ev
        /\ \A i \in 1..Len(snapshot.output) :
                snapshot.output[i].item \in {"message", "reasoning", "function", "custom"} =>
                    snapshot.output[i].data = Assembled({i - 1})

(* "failed" and interrupted streams are not recorded (history.rs 16: half an
   answer would pollute the next turn; stream.rs 1534-1535, 1571-1572): what the
   history holds of this answer is an answer that did not fail. *)
FailedNotRecorded == Self \in DOMAIN history.map => HasEnded /\ Last(Out).ev # "failed"

(* An answer that was recorded is there for the next turn until as many others
   were recorded or restored since it was last used; every candidate is told all
   of it, also the one a fail-over brings; and the history is never larger than
   it may be (history.rs 53-101, 147-195). *)
ContextKept ==
    /\ Refers /\ Cardinality(since) < MaxEntries => Earlier \in DOMAIN history.map
    /\ Refers /\ Live => context = EarlierOutput
    /\ ToSet(history.order) = DOMAIN history.map
    /\ Len(history.order) <= MaxEntries

(* A request that was answered is billed, and once: by the event that ended it,
   by the tail, by the drop of a stream whose client left, or by the handler that
   ran out of candidates. *)
BilledOnce ==
    /\ bills <= 1
    /\ client = "ended" \/ phase = "refused" \/ (client = "gone" /\ phase = "relaying") => bills = 1

(* The keep-alive never falls into the middle of a line of a passed-through event. *)
PingsBetweenLines == wire # "torn"
================================================================================
