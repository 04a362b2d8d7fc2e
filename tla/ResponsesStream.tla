---------------------------- MODULE ResponsesStream ----------------------------
(***************************************************************************)
(* service/responses/stream.rs: ChatToResponsesStreamState, the machine    *)
(* that turns Chat chunks into Responses events.  Its state is a record,   *)
(* its methods are operators from state to state, and the events they      *)
(* return are appended to `out` as [ev, at, data]: an item is opened       *)
(* ("added", with its kind), extended ("delta") and closed ("done") at its *)
(* output index, and the response ends with one "completed", "incomplete"  *)
(* or "failed".  The part events that always come with these are folded    *)
(* into them; created stands for created and in_progress.                  *)
(***************************************************************************)
EXTENDS InlineThink

CONSTANT ToolContext    \* tool name -> "function" | "custom" | "bridged" | "tool_search"

Message   == [item |-> "message", key |-> NoKey]
Reasoning == [item |-> "reasoning", key |-> NoKey]
Tool(k)   == [item |-> "tool", key |-> k]

ResponsesNew ==
    [created |-> FALSE, finalized |-> FALSE, failed_error |-> FALSE,
     finish_seen |-> FALSE, status |-> "completed", dropped_tools |-> 0,
     text |-> <<>>, text_index |-> NoIndex, text_done |-> FALSE,
     reasoning |-> <<>>, reasoning_index |-> NoIndex, reasoning_done |-> FALSE,
     tools |-> <<>>, last_tool_key |-> NoKey, output_order |-> <<>>,
     think |-> InlineThinkNew, output |-> <<>>, out |-> <<>>]

ChatToolNew == [output_index |-> NoIndex, id |-> None, name |-> None,
                arguments |-> <<>>, pending_args |-> <<>>, reasoning |-> <<>>,
                started |-> FALSE, released |-> FALSE, done |-> FALSE]

Emit(s, ev, at, data) ==
    [s EXCEPT !.out = Append(@, [ev |-> ev, at |-> at, data |-> data])]

(* next_index: the item gets the next position of the output. *)
Place(s, ref) == [s EXCEPT !.output_order = Append(@, ref)]

(* Mutant: every kind streams its arguments. *)
MutStreamsArguments(t) == TRUE

(* Only plain functions stream their arguments. *)
StreamsArguments(t) == ToolContext[t.name] = "function"

-----------------------------------------------------------------------------

OpenText(s) ==
    IF s.text_index # NoIndex THEN s
    ELSE Emit([Place(s, Message) EXCEPT !.text_index = Len(s.output_order)],
              "added", Len(s.output_order), <<"text">>)

ExtendText(s, delta) == Emit([s EXCEPT !.text = @ \o delta], "delta", s.text_index, delta)

AppendTextDelta(s, delta) == IF delta = <<>> THEN s ELSE ExtendText(OpenText(s), delta)

(* A reasoning item that a tool call closed is opened again at its old index. *)
OpenReasoning(s) ==
    CASE s.reasoning_index = NoIndex ->
            Emit([Place(s, Reasoning) EXCEPT !.reasoning_index = Len(s.output_order)],
                 "added", Len(s.output_order), <<"thinking">>)
      [] s.reasoning_index # NoIndex /\ s.reasoning_done ->
            Emit([s EXCEPT !.reasoning_done = FALSE], "added", s.reasoning_index, <<"thinking">>)
      [] OTHER -> s

(* It also belongs to the calls that are under way. *)
ExtendReasoning(s, delta) ==
    Emit([s EXCEPT !.reasoning = @ \o delta,
                   !.tools = [k \in DOMAIN s.tools |-> [s.tools[k] EXCEPT
                        !.reasoning = IF s.tools[k].started THEN @ \o delta ELSE @]]],
         "delta", s.reasoning_index, delta)

AppendReasoningDelta(s, delta) ==
    IF delta = <<>> THEN s ELSE ExtendReasoning(OpenReasoning(s), delta)

Split(s, parts) ==
    [AppendTextDelta(AppendReasoningDelta(s, parts.r), parts.t) EXCEPT !.think = parts.st]

ReasoningOpen(s) == s.reasoning_index # NoIndex /\ ~s.reasoning_done

(* Mutant: the closed item is not marked as closed. *)
MutCloseReasoning(s) ==
    IF ReasoningOpen(s) THEN Emit(s, "done", s.reasoning_index, s.reasoning) ELSE s

CloseReasoning(s) ==
    IF ReasoningOpen(s)
    THEN Emit([s EXCEPT !.reasoning_done = TRUE], "done", s.reasoning_index, s.reasoning)
    ELSE s

CloseText(s) ==
    IF s.text_index # NoIndex /\ ~s.text_done
    THEN Emit([s EXCEPT !.text_done = TRUE], "done", s.text_index, s.text)
    ELSE s

-----------------------------------------------------------------------------

EmitIf(cond, s, ev, at, data) == IF cond THEN Emit(s, ev, at, data) ELSE s

(* Mutant: the arguments held back are passed on but not taken out. *)
MutRelease(s, k) ==
    EmitIf(s.tools[k].pending_args # <<>> /\ StreamsArguments(s.tools[k]),
           Emit(Place([s EXCEPT !.tools[k] =
                    [@ EXCEPT !.output_index = Len(s.output_order), !.released = TRUE,
                              !.arguments = @ \o s.tools[k].pending_args]], Tool(k)),
                "added", Len(s.output_order), <<"tool_use">>),
           "delta", Len(s.output_order), s.tools[k].pending_args)

(* The call gets its place, is announced, and what was held back follows. *)
Release(s, k) ==
    EmitIf(s.tools[k].pending_args # <<>> /\ StreamsArguments(s.tools[k]),
           Emit(Place([s EXCEPT !.tools[k] =
                    [@ EXCEPT !.output_index = Len(s.output_order), !.released = TRUE,
                              !.arguments = @ \o s.tools[k].pending_args,
                              !.pending_args = <<>>]], Tool(k)),
                "added", Len(s.output_order), <<"tool_use">>),
           "delta", Len(s.output_order), s.tools[k].pending_args)

(* A call waits for every lower one to be known, unless forced at the end. *)
ReleaseReadyTools(s, force) ==
    LET waiting == {k \in DOMAIN s.tools : ~s.tools[k].released}
        ready   == {k \in waiting : /\ s.tools[k].started
                                    /\ force \/ \A j \in waiting : j < k => s.tools[j].started}
    IN  FoldLeft(Release, s, InOrder(ready))

(* The call with what the frame brings; `thought` is the reasoning it closed. *)
Merge(t, f, thought) ==
    [t EXCEPT !.id = Given(f.id, @), !.name = Given(f.name, @),
              !.reasoning = IF @ = <<>> THEN thought ELSE @,
              !.started = @ \/ (Given(f.id, t.id) # None /\ Given(f.name, t.name) # None),
              !.arguments = IF t.released THEN @ \o f.args ELSE @,
              !.pending_args = IF t.released THEN @ ELSE @ \o f.args]

ToolAt(s, k) == IF k \in DOMAIN s.tools THEN s.tools[k] ELSE ChatToolNew

MergeAt(s, k, f, thought) ==
    EmitIf(ToolAt(s, k).released /\ f.args # <<>> /\ StreamsArguments(ToolAt(s, k)),
           [s EXCEPT !.last_tool_key = k,
                     !.tools = [j \in DOMAIN s.tools \cup {k} |->
                                    IF j = k THEN Merge(ToolAt(s, k), f, thought) ELSE s.tools[j]]],
           "delta", ToolAt(s, k).output_index, f.args)

AppendToolCallDelta(s, f, thought) ==
    ReleaseReadyTools(MergeAt(s, ToolKey(s.tools, s.last_tool_key, f), f, thought), FALSE)

ToolFrameDelta(s, f) ==
    AppendToolCallDelta(CloseReasoning(s), f, IF ReasoningOpen(s) THEN s.reasoning ELSE <<>>)

(* A call without a name is dropped; one without an id gets one here. *)
CloseNamed(s, k, t) ==
    Emit(EmitIf(ToolContext[t.name] = "custom" /\ t.arguments # <<>>,
                [s EXCEPT !.tools[k] = [t EXCEPT !.done = TRUE, !.id = Given(@, "fallback")]],
                "delta", t.output_index, t.arguments),
         "done", t.output_index, t.arguments)

CloseTool(s, k) ==
    CASE s.tools[k].done -> s
      [] ~s.tools[k].done /\ s.tools[k].name = None ->
            [s EXCEPT !.tools[k].done = TRUE, !.dropped_tools = @ + 1]
      [] OTHER -> CloseNamed(s, k, s.tools[k])

CloseTools(s) == FoldLeft(CloseTool, s, Keys(s.tools))

DoneDeltaEvents(s) ==
    CloseTools(CloseReasoning(CloseText(ReleaseReadyTools(ReleaseReadyTools(s, FALSE), TRUE))))

(* finish_reason_to_status: only an incomplete status overwrites. *)
ApplyFinishReason(s, finish) ==
    [s EXCEPT !.finish_seen = TRUE,
              !.status = IF finish \in {"length", "content_filter"} THEN "incomplete" ELSE @]

-----------------------------------------------------------------------------

CreateResponse(s) ==
    IF s.created THEN s ELSE Emit([s EXCEPT !.created = TRUE], "created", NoIndex, <<>>)

FeedContent(s, content) == IF content = <<>> THEN s ELSE Split(s, Feed(s.think, content))

FinishChunk(s, finish) ==
    IF finish = None THEN s ELSE DoneDeltaEvents(ApplyFinishReason(s, finish))

(* The parts of a chunk, in the order the code looks at them. *)
ConvertChunk(s, c) ==
    FinishChunk(FoldLeft(ToolFrameDelta,
                         AppendTextDelta(FeedContent(AppendReasoningDelta(CreateResponse(s),
                                                                          c.reasoning),
                                                     c.content),
                                         Trim(c.refusal)),
                         c.tools),
                c.finish)

ResponsesProcessChunk(s, c) ==
    CASE s.failed_error -> s
      [] ~s.failed_error /\ c.error -> [s EXCEPT !.failed_error = TRUE]
      [] OTHER -> ConvertChunk(s, c)

HasAnyOutput(s) == \/ s.text_index # NoIndex \/ s.reasoning_index # NoIndex
                   \/ \E k \in DOMAIN s.tools : s.tools[k].started /\ s.tools[k].name # None

ItemOutput(s, ref) ==
    CASE ref.item = "message"   -> [item |-> "message", data |-> s.text]
      [] ref.item = "reasoning" -> [item |-> "reasoning", data |-> s.reasoning]
      [] OTHER -> [item |-> ToolContext[s.tools[ref.key].name], data |-> s.tools[ref.key].arguments]

(* final_response: every placed item has a name, so none is left out. *)
FinalOutput(s) == [i \in 1..Len(s.output_order) |-> ItemOutput(s, s.output_order[i])]

(* Mutant: a stream that was cut off keeps its status. *)
MutFinalStatus(s, truncated) ==
    IF s.failed_error \/ (truncated /\ ~HasAnyOutput(s)) THEN "failed" ELSE s.status

FinalStatus(s, truncated) ==
    CASE s.failed_error -> "failed"
      [] ~s.failed_error /\ truncated /\ ~HasAnyOutput(s) -> "failed"
      [] ~s.failed_error /\ truncated /\ HasAnyOutput(s) /\ ~s.finish_seen -> "incomplete"
      [] ~s.failed_error /\ ~HasAnyOutput(s) /\ ~truncated /\ s.dropped_tools > 0
            /\ s.status # "incomplete" -> "failed"
      [] OTHER -> s.status

EndWith(s, status) ==
    Emit([s EXCEPT !.finalized = TRUE, !.status = status, !.output = FinalOutput(s)],
         status, NoIndex, <<>>)

EndClosed(s, truncated) == EndWith(s, FinalStatus(s, truncated))

ResponsesFinalize(s, truncated) ==
    IF s.finalized THEN s ELSE EndClosed(DoneDeltaEvents(Split(s, Flush(s.think))), truncated)

(* record_transport_error *)
ResponsesTransportError(s) == ResponsesFinalize([s EXCEPT !.failed_error = TRUE], FALSE)
================================================================================
