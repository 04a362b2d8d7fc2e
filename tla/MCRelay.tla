-------------------------------- MODULE MCRelay --------------------------------
(* Small upstreams for Relay: what cuts a think block, what comes between       *)
(* parallel tool calls, how a stream ends, and what priming sees.               *)
EXTENDS Relay

Read(c)      == Bytes(<<SseEvent(c, TRUE, FALSE)>>, FALSE, TRUE)
ReadDone(c)  == Bytes(<<SseEvent(c, TRUE, FALSE)>>, TRUE, TRUE)
OnlyDone     == Bytes(<<>>, TRUE, TRUE)
Says(x)      == [EmptyChunk EXCEPT !.content = x]
Thinks       == [EmptyChunk EXCEPT !.reasoning = <<"r">>]
Refuses(x)   == [EmptyChunk EXCEPT !.refusal = x]
Ends_(why)   == [EmptyChunk EXCEPT !.finish = why]
Calls(frames) == [EmptyChunk EXCEPT !.tools = frames]
Fails        == [EmptyChunk EXCEPT !.error = TRUE]
Garbage      == Bytes(<<SseEvent(EmptyChunk, FALSE, FALSE)>>, FALSE, TRUE)
NamedError   == Bytes(<<SseEvent(Says(<<"x">>), TRUE, FALSE),
                        SseEvent(EmptyChunk, TRUE, TRUE), SseEvent(Says(<<"x">>), TRUE, FALSE)>>,
                      FALSE, TRUE)

(* A think block cut anywhere, and a second one that is text. *)
ThinkReads ==
    {Read(Says(x)) : x \in {<<"o1">>, <<"o2">>, <<"c1">>, <<"c2">>, <<"x">>, <<"_">>,
                            <<"o1", "o2">>, <<"o1", "o2", "x", "c1">>}}
    \cup {Read(Ends_("stop")), OnlyDone}

(* Two calls whose ids, names and arguments come in any order. *)
CallReads ==
    {Read(Calls(<<f>>)) : f \in {ToolFrame(0, "a", None, <<>>), ToolFrame(0, None, "f", <<"a1">>),
                                 ToolFrame(0, None, None, <<"a2">>),
                                 ToolFrame(1, "b", "c", <<"b1">>), ToolFrame(1, None, None, <<"_">>)}}
    \cup {Read(Thinks), Read(Says(<<"x">>)), Read(Ends_("tool_calls")), OnlyDone}

(* Calls without an index, several in one read, and the hosted kinds. *)
BareReads ==
    {Read(Calls(<<ToolFrame(NoIndex, "a", "f", <<>>), ToolFrame(NoIndex, None, None, <<"a1">>)>>)),
     Read(Calls(<<ToolFrame(NoIndex, "a", None, <<"a2">>)>>)),
     Read(Calls(<<ToolFrame(NoIndex, "b", "w", <<"b1">>)>>)),
     Read(Calls(<<ToolFrame(NoIndex, None, None, <<>>)>>)),
     Read(Refuses(<<"_", "x", "_">>)), Read(Refuses(<<"_">>)), ReadDone(Ends_("stop"))}

(* How streams end, and what priming sees before they do. *)
EndReads ==
    {Read(EmptyChunk), Read(Says(<<"x">>)), Read(Fails), Garbage, NamedError,
     Read(Ends_("length")), ReadDone(Ends_("stop")), OnlyDone}

(* Passed through: reads that stop in the middle of a line. *)
ChatReads == {Read(Says(<<"x">>)), Bytes(<<>>, FALSE, FALSE),
              Bytes(<<SseEvent(Says(<<"x">>), TRUE, FALSE)>>, FALSE, FALSE), OnlyDone}

(* The next turn of a conversation. *)
TurnReads == {Read(Says(<<"x">>)), Read(Fails), ReadDone(Ends_("stop"))}

Upstream(p, cands, n, bs) ==
    [proto |-> p, candidates |-> cands, reads |-> n, batches |-> bs, others |-> 0]

MCLinks ==
       ("rThink" :> Upstream("responses", 1, 4, ThinkReads)) @@ ("aThink" :> Upstream("anthropic", 1, 3, ThinkReads))
    @@ ("rCalls" :> Upstream("responses", 1, 4, CallReads))  @@ ("aCalls" :> Upstream("anthropic", 1, 4, CallReads))
    @@ ("rBare"  :> Upstream("responses", 1, 4, BareReads))  @@ ("aBare"  :> Upstream("anthropic", 1, 4, BareReads))
    @@ ("rEnds"  :> Upstream("responses", 2, 3, EndReads))   @@ ("aEnds"  :> Upstream("anthropic", 2, 3, EndReads))
    @@ ("rTurn"  :> [Upstream("responses", 2, 2, TurnReads) EXCEPT !.others = 3])
    @@ ("chat"   :> Upstream("chat", 2, 3, ChatReads))

(* For the answer that fails after some of it was sent. *)
TurnLinks == "rTurn" :> Upstream("responses", 1, 2, TurnReads)

MCToolContext == ("f" :> "function") @@ ("c" :> "custom") @@ ("w" :> "bridged")
MCCallOf == ("a1" :> "a") @@ ("a2" :> "a") @@ ("b1" :> "b") @@ ("_" :> "b")
================================================================================
