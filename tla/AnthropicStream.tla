---------------------------- MODULE AnthropicStream ----------------------------
(***************************************************************************)
(* service/anthropic/stream.rs: ChatToAnthropicState, the machine that     *)
(* turns Chat chunks into Anthropic Messages events.  State and events are *)
(* represented as in ResponsesStream: a content block is opened ("added"), *)
(* extended ("delta") and closed ("done") at its index; "message_start"    *)
(* comes first and "message_stop" or "error" last.                         *)
(***************************************************************************)
EXTENDS InlineThink

CONSTANT WhitespaceThreshold    \* INFINITE_WHITESPACE_THRESHOLD, 500 in the code

ASSUME WhitespaceAssumption == WhitespaceThreshold \in Nat \ {0}

NoBlock == [kind |-> "none", index |-> NoIndex]

AnthropicNew ==
    [started |-> FALSE, finalized |-> FALSE, failed |-> FALSE,
     open_non_tool |-> NoBlock, had_text |-> FALSE,
     stop_reason |-> None, has_tool_use |-> FALSE, dropped_tools |-> 0,
     next_block_index |-> 0, tools |-> <<>>, last_tool_key |-> NoKey,
     think |-> InlineThinkNew, reported |-> None, out |-> <<>>]

ToolBlockNew(index) ==
    [index |-> index, id |-> None, name |-> None, arguments |-> <<>>, pending_args |-> <<>>,
     started |-> FALSE, stopped |-> FALSE, spaces |-> 0, aborted |-> FALSE]

Frame(s, ev, at, data) ==
    [s EXCEPT !.out = Append(@, [ev |-> ev, at |-> at, data |-> data])]

MessageStart(s) ==
    IF s.started THEN s ELSE Frame([s EXCEPT !.started = TRUE], "message_start", NoIndex, <<>>)

-----------------------------------------------------------------------------

(* thinking_stopped or text_stopped: a block that was open counts as output. *)
CloseOpenNonTool(s) ==
    IF s.open_non_tool = NoBlock THEN s
    ELSE Frame([s EXCEPT !.open_non_tool = NoBlock, !.had_text = TRUE],
               "done", s.open_non_tool.index, <<>>)

(* append_thinking_delta, append_text_delta: one slot for both kinds. *)
OpenBlock(s, kind) ==
    Frame([s EXCEPT !.open_non_tool = [kind |-> kind, index |-> s.next_block_index],
                    !.next_block_index = @ + 1], "added", s.next_block_index, <<kind>>)

ExtendBlock(s, delta) == Frame(s, "delta", s.open_non_tool.index, delta)

AppendDelta(s, kind, delta) ==
    IF delta = <<>> THEN s
    ELSE ExtendBlock(IF s.open_non_tool.kind = kind THEN s
                     ELSE OpenBlock(CloseOpenNonTool(s), kind), delta)

SplitBlocks(s, parts) ==
    [AppendDelta(AppendDelta(s, "thinking", parts.r), "text", parts.t) EXCEPT !.think = parts.st]

-----------------------------------------------------------------------------

FrameIf(cond, s, ev, at, data) == IF cond THEN Frame(s, ev, at, data) ELSE s

(* content_block_start of a tool, and the arguments that were held back. *)
StartTool(s, k) ==
    FrameIf(s.tools[k].pending_args # <<>>,
            Frame([s EXCEPT !.has_tool_use = TRUE,
                            !.tools[k] = [@ EXCEPT !.started = TRUE, !.pending_args = <<>>,
                                                   !.arguments = @ \o s.tools[k].pending_args]],
                  "added", s.tools[k].index, <<"tool_use">>),
            "delta", s.tools[k].index, s.tools[k].pending_args)

(* White space at the end of the arguments seen so far, `before` of it old. *)
TrailingSpaces(before, args) ==
    LET solid == {i \in 1..Len(args) : args[i] # Space}
    IN  IF solid = {} THEN before + Len(args) ELSE Len(args) - Max(solid)

(* Arguments: dropped once the block only sends white space, held until it starts. *)
TakeArguments(s, k, args, spaces) ==
    CASE spaces >= WhitespaceThreshold ->
            [s EXCEPT !.tools[k] = [@ EXCEPT !.spaces = spaces, !.aborted = TRUE]]
      [] spaces < WhitespaceThreshold /\ s.tools[k].started ->
            Frame([s EXCEPT !.tools[k] = [@ EXCEPT !.spaces = spaces, !.arguments = @ \o args]],
                  "delta", s.tools[k].index, args)
      [] OTHER -> [s EXCEPT !.tools[k] = [@ EXCEPT !.spaces = spaces, !.pending_args = @ \o args]]

AppendArguments(s, k, args) ==
    IF args = <<>> \/ s.tools[k].aborted THEN s
    ELSE TakeArguments(s, k, args, TrailingSpaces(s.tools[k].spaces, args))

(* A new call reserves its block at once; id and name are kept as they come. *)
BlockAt(s, k) == IF k \in DOMAIN s.tools THEN s.tools[k] ELSE ToolBlockNew(s.next_block_index)

KeepFrame(s, k, f) ==
    [s EXCEPT !.last_tool_key = k,
              !.next_block_index = IF k \in DOMAIN s.tools THEN @ ELSE @ + 1,
              !.tools = [j \in DOMAIN s.tools \cup {k} |->
                            IF j = k THEN [BlockAt(s, k) EXCEPT !.id = Given(f.id, @),
                                                                !.name = Given(f.name, @)]
                            ELSE s.tools[j]]]

StartWhenKnown(s, k) ==
    IF ~s.tools[k].started /\ s.tools[k].id # None /\ s.tools[k].name # None
    THEN StartTool(s, k) ELSE s

FeedTool(s, k, f) == AppendArguments(StartWhenKnown(KeepFrame(s, k, f), k), k, f.args)

AppendToolDelta(s, f) ==
    FeedTool(CloseOpenNonTool(s), ToolKey(s.tools, s.last_tool_key, f), f)

(* A call whose id or name never came is started late; an empty one is dropped. *)
StopBlock(s, k) ==
    [s EXCEPT !.tools[k] = [@ EXCEPT !.stopped = TRUE, !.id = Given(@, "tool_call"),
                                     !.name = Given(@, "unknown_tool")]]

HoldsAnything(b) == b.id # None \/ b.name # None \/ b.pending_args # <<>>

CloseToolBlock(s, k) ==
    CASE s.tools[k].started /\ s.tools[k].stopped -> s
      [] s.tools[k].started /\ ~s.tools[k].stopped ->
            Frame(StopBlock(s, k), "done", s.tools[k].index, <<>>)
      [] ~s.tools[k].started /\ HoldsAnything(s.tools[k]) ->
            Frame(StartTool(StopBlock(s, k), k), "done", s.tools[k].index, <<>>)
      [] OTHER -> [s EXCEPT !.dropped_tools = @ + 1]

CloseOpenBlocks(s) == FoldLeft(CloseToolBlock, CloseOpenNonTool(s), Keys(s.tools))

-----------------------------------------------------------------------------

(* stop_reason_from_finish, with what is known of tools when it arrives *)
StopReasonFromFinish(finish, hasToolUse) ==
    CASE finish = "length" -> "max_tokens"
      [] finish \in {"stop", "tool_calls"} /\ hasToolUse -> "tool_use"
      [] OTHER -> "end_turn"

FeedBlocks(s, content) == IF content = <<>> THEN s ELSE SplitBlocks(s, Feed(s.think, content))

SetStopReason(s, finish) ==
    IF finish = None THEN s
    ELSE [s EXCEPT !.stop_reason = StopReasonFromFinish(finish, s.has_tool_use)]

(* The parts of a chunk, in the order the code looks at them. *)
AnthropicConvertChunk(s, c) ==
    SetStopReason(FoldLeft(AppendToolDelta,
                           AppendDelta(FeedBlocks(AppendDelta(MessageStart(s), "thinking",
                                                              c.reasoning),
                                                  c.content),
                                       "text", Trim(c.refusal)),
                           c.tools),
                  c.finish)

AnthropicProcessChunk(s, c) ==
    CASE s.failed -> s
      [] ~s.failed /\ c.error -> Frame([s EXCEPT !.failed = TRUE], "error", NoIndex, <<>>)
      [] OTHER -> AnthropicConvertChunk(s, c)

(* message_delta_events: an end_turn that a late tool overtook is corrected. *)
StopReason(s, truncated) ==
    CASE s.stop_reason \notin {None, "end_turn"} -> s.stop_reason
      [] s.stop_reason = None /\ truncated -> "max_tokens"
      [] OTHER -> IF s.has_tool_use THEN "tool_use" ELSE "end_turn"

(* Everything is closed in `s`; `before` is what was sent until then.  A message
   of nothing but dropped calls is an error, and its closing events are not sent. *)
NothingOut(s) == ~s.had_text /\ \A k \in DOMAIN s.tools : ~s.tools[k].started

EndMessage(s, truncated, before) ==
    IF s.dropped_tools > 0 /\ NothingOut(s)
    THEN Frame([s EXCEPT !.out = before], "error", NoIndex, <<>>)
    ELSE Frame(Frame([s EXCEPT !.reported = StopReason(s, truncated)],
                     "message_delta", NoIndex, <<StopReason(s, truncated)>>),
               "message_stop", NoIndex, <<>>)

AnthropicFinalize(s, truncated) ==
    CASE s.finalized -> s
      [] ~s.finalized /\ s.failed -> [s EXCEPT !.finalized = TRUE]
      [] ~s.finalized /\ ~s.failed /\ truncated /\ ~s.started ->
            Frame([s EXCEPT !.finalized = TRUE], "error", NoIndex, <<>>)
      [] OTHER -> EndMessage(CloseOpenBlocks(SplitBlocks(MessageStart([s EXCEPT !.finalized = TRUE]),
                                                         Flush(s.think))),
                             truncated, s.out)

(* transport_error *)
AnthropicTransportError(s) ==
    IF s.failed THEN s ELSE Frame([s EXCEPT !.failed = TRUE], "error", NoIndex, <<>>)
================================================================================
