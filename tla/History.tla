-------------------------------- MODULE History --------------------------------
(***************************************************************************)
(* The in-process history of Responses answers (service/responses/         *)
(* history.rs): the outputs of the last answers under their ids, from      *)
(* which a request with previous_response_id gets its context back.  Both  *)
(* methods hold one mutex, so each is one step of its caller.              *)
(*                                                                         *)
(* An output is a sequence of items; the bytes of an item are the symbols  *)
(* of its data, and one for the item itself.                               *)
(***************************************************************************)
EXTENDS Integers, Sequences, FiniteSets, SequencesExt, Functions

CONSTANTS
    MaxEntries,      \* MAX_ENTRIES
    MaxEntryBytes    \* MAX_ENTRY_BYTES

ASSUME HistoryAssumption == MaxEntries \in Nat \ {0} /\ MaxEntryBytes \in Nat

VARIABLE history    \* HistoryInner: [order : ids, oldest first; map : id -> output]

EmptyHistory == [order |-> <<>>, map |-> <<>>]

SizeOf(items) == FoldLeft(LAMBDA n, item : n + 1 + Len(item.data), 0, items)

(* What `record` accepts: some output, and not too much of it. *)
Recordable(items) == items # <<>> /\ SizeOf(items) <= MaxEntryBytes

(* Where the id comes first. *)
Position(order, id) ==
    CHOOSE i \in 1..Len(order) : order[i] = id /\ \A j \in 1..(i - 1) : order[j] # id

(* The entry becomes the youngest. *)
Touched(h, id) ==
    IF Contains(h.order, id)
    THEN [h EXCEPT !.order = Append(RemoveAt(@, Position(@, id)), id)] ELSE h

(* Over capacity the oldest entries go, from both parts. *)
Evicted(h) ==
    LET n     == Len(h.order)
        order == IF n > MaxEntries THEN SubSeq(h.order, n - MaxEntries + 1, n) ELSE h.order
    IN  [order |-> order, map |-> Restrict(h.map, ToSet(order))]

Inserted(h, id, items) ==
    IF id \in DOMAIN h.map
    THEN [h EXCEPT !.map[id] = items]
    ELSE Evicted([order |-> Append(h.order, id),
                  map |-> [i \in DOMAIN h.map \cup {id} |-> IF i = id THEN items ELSE h.map[i]]])

(* ResponseHistoryStore::record *)
Record(h, id, items) ==
    IF Recordable(items) THEN Touched(Inserted(h, id, items), id) ELSE h

(* Mutant: reading an entry does not make it younger. *)
MutRestore(h, id) == h

(* ResponseHistoryStore::restore, without the output it returns: h.map[id]. *)
Restore(h, id) == Touched(h, id)
================================================================================
