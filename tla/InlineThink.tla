------------------------------ MODULE InlineThink ------------------------------
(***************************************************************************)
(* service/inline_think.rs: the separator that takes a leading             *)
(* <think>...</think> block out of the text of a stream whose chunks may   *)
(* cut the tags anywhere.  Text is a sequence of symbols; a tag is two     *)
(* symbols long, enough for it to be cut, and white space is one symbol.   *)
(* A think state is a record [mode, buf]; feed and flush return            *)
(* [st, r, t]: the next state and the reasoning and the text let through.  *)
(***************************************************************************)
EXTENDS ChatChunk

ThinkOpen  == <<"o1", "o2">>
ThinkClose == <<"c1", "c2">>

InlineThinkNew == [mode |-> "detecting", buf |-> <<>>]

LOCAL Starts(tag, b) == {i \in 1..Len(b) : IsPrefix(tag, SubSeq(b, i, Len(b)))}

(* Everything from position i on, the tag that starts there left out. *)
LOCAL After(tag, b, i) == SubSeq(b, i + Len(tag), Len(b))

TrimStart(b) == 
    LET solid == {i \in 1..Len(b) : b[i] # Space}
    IN  IF solid = {} THEN <<>> ELSE SubSeq(b, Min(solid), Len(b))

(* A refusal as the converters pass it on: each delta without the white space at
   its ends, and nothing of one that is all white space. *)
Trim(b) ==
    LET solid == {i \in 1..Len(b) : b[i] # Space}
    IN  IF solid = {} THEN <<>> ELSE SubSeq(b, Min(solid), Max(solid))

(* leading_think_prefix_decision *)
PrefixDecision(b) ==
    LET trimmed == TrimStart(b)
    IN  CASE IsPrefix(trimmed, ThinkOpen) -> "need_more"
          [] IsStrictPrefix(ThinkOpen, trimmed) -> "reasoning"
          [] OTHER -> "text"

(* Mutant: no half tag is held back. *)
MutPartialCloseSuffixLen(b) == 0

(* partial_close_suffix_len: the longest tail that may be the start of the tag *)
PartialCloseSuffixLen(b) ==
    Max({k \in 0..Min({Len(ThinkClose), Len(b)}) :
            SubSeq(b, Len(b) - k + 1, Len(b)) = SubSeq(ThinkClose, 1, k)})

(* emit_reasoning, and with it the half tag it holds back *)
EmitReasoning(b) ==
    LET ends == Starts(ThinkClose, b)
        cut  == Len(b) - PartialCloseSuffixLen(b)
    IN  IF ends # {}
        THEN [st |-> [mode |-> "text", buf |-> <<>>],
              r  |-> SubSeq(b, 1, Min(ends) - 1),
              t  |-> After(ThinkClose, b, Min(ends))]
        ELSE [st |-> [mode |-> "reasoning", buf |-> SubSeq(b, cut + 1, Len(b))],
              r  |-> SubSeq(b, 1, cut),
              t  |-> <<>>]

(* strip_open_tag: the tag is there when this is called *)
StripOpenTag(b) == After(ThinkOpen, b, Min(Starts(ThinkOpen, b)))

Feed(st, delta) ==
    LET b == st.buf \o delta
    IN  CASE st.mode = "text"      -> [st |-> st, r |-> <<>>, t |-> delta]
          [] st.mode = "reasoning" -> EmitReasoning(b)
          [] st.mode = "detecting" /\ PrefixDecision(b) = "need_more" ->
                [st |-> [st EXCEPT !.buf = b], r |-> <<>>, t |-> <<>>]
          [] st.mode = "detecting" /\ PrefixDecision(b) = "reasoning" ->
                EmitReasoning(StripOpenTag(b))
          [] OTHER -> [st |-> [mode |-> "text", buf |-> <<>>], r |-> <<>>, t |-> b]

(* flush at the end of the stream: what is held back goes where the mode says *)
Flush(st) ==
    [st |-> [mode |-> "text", buf |-> <<>>],
     r  |-> IF st.mode = "reasoning" THEN st.buf ELSE <<>>,
     t  |-> IF st.mode = "detecting" THEN st.buf ELSE <<>>]

(***************************************************************************)
(* The reference: the whole text at once, white space before the block     *)
(* dropped with its tags; no closing tag makes the rest reasoning.         *)
(***************************************************************************)
SplitWhole(text) ==
    LET body == StripOpenTag(text)
        ends == Starts(ThinkClose, body)
    IN  IF ~IsStrictPrefix(ThinkOpen, TrimStart(text))
        THEN [r |-> <<>>, t |-> text]
        ELSE IF ends = {} THEN [r |-> body, t |-> <<>>]
        ELSE [r |-> SubSeq(body, 1, Min(ends) - 1),
              t |-> After(ThinkClose, body, Min(ends))]
================================================================================
