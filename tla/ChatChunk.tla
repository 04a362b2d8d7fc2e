------------------------------- MODULE ChatChunk -------------------------------
(***************************************************************************)
(* The Chat Completions stream as both converters read it: the chunk, what *)
(* responses/dto.rs keeps of it, and the frame parser of                   *)
(* responses/stream.rs.  Text and tool arguments are sequences of symbols. *)
(***************************************************************************)
EXTENDS Integers, Sequences, SequencesExt, FiniteSets, FiniteSetsExt

NoIndex == -1       \* a tool frame without "index"; also: no output index yet
NoKey   == -1       \* no tool call seen yet
None    == ""       \* a string field that is absent
Space   == "_"      \* the symbol for white space

(* A chunk with one choice; the parts that are absent are empty. *)
EmptyChunk == [reasoning |-> <<>>, content |-> <<>>, refusal |-> <<>>,
               tools |-> <<>>, finish |-> None, error |-> FALSE]

(* A finite set of numbers, the smallest first. *)
InOrder(S) == [i \in 1..Cardinality(S) |-> CHOOSE n \in S : Cardinality({m \in S : m < n}) = i - 1]

(* One element of delta.tool_calls (lenient_tool_call). *)
ToolFrame(index, id, name, args) ==
    [index |-> index, id |-> id, name |-> name, args |-> args]

(***************************************************************************)
(* A frame of the SSE parser: its payload, whether that is JSON at all and *)
(* whether the frame is named "event: error".  A frame that is not JSON is *)
(* dropped; a named error is one even without an error field.              *)
(***************************************************************************)
SseEvent(chunk, json, named_error) ==
    [chunk |-> chunk, json |-> json, named_error |-> named_error]

Parse(chunks, f) ==
    IF f.json THEN Append(chunks, [f.chunk EXCEPT !.error = @ \/ f.named_error]) ELSE chunks

ChunksOf(frames) == FoldLeft(Parse, <<>>, frames)

(* resolve_no_index_tool_key: keyForId, lastKey and maxKey are NoKey if absent *)
ResolveNoIndexToolKey(id, keyForId, lastKey, maxKey) ==
    CASE id # None /\ keyForId # NoKey -> keyForId
      [] id # None /\ keyForId = NoKey -> Max({maxKey, lastKey}) + 1
      [] OTHER -> Max({lastKey, 0})

(* The key of a tool frame among the calls known so far. *)
ToolKey(tools, lastKey, frame) ==
    LET same == {k \in DOMAIN tools : tools[k].id = frame.id}
    IN  IF frame.index # NoIndex THEN frame.index
        ELSE ResolveNoIndexToolKey(frame.id,
                                   IF same = {} THEN NoKey ELSE Min(same),
                                   lastKey,
                                   Max(DOMAIN tools \cup {NoKey}))

(* A value given by a frame, or the one known before it. *)
Given(new, old) == IF new = None THEN old ELSE new

Keys(tools) == InOrder(DOMAIN tools)
================================================================================
