------------------------------- MODULE Config -------------------------------
(***************************************************************************)
(* The reload of the configuration as admission sees it: AppState::reload  *)
(* (state.rs), run by the periodic task and by every admin write handler   *)
(* after its own database write.  The contents of a section are opaque     *)
(* here; Catalog has the tables, the handlers that edit them and what a    *)
(* section's query makes of them.                                          *)
(*                                                                         *)
(* reload walks the sections in order; each is read from the database, an  *)
(* await, and then written to memory under that section's lock.  Nothing   *)
(* keeps two reloads apart, so a reload may write what it read before a    *)
(* later reload's write.                                                   *)
(***************************************************************************)
EXTENDS Integers, Sequences

CONSTANTS
    Sections,    \* the names of the sections, in reload's order
    Values,      \* what each section of the database can hold
    Periodic,    \* the task of spawn_reload_tasks
    Admins       \* admin write handlers (of this instance or, cancelled, another)

SectionNames == {Sections[i] : i \in DOMAIN Sections}

ASSUME ConfigSectionsAssumption ==
    /\ Sections \in Seq(STRING) /\ Len(Sections) > 0
    /\ \A s \in SectionNames : Values[s] # {}
    /\ Periodic \notin Admins

VARIABLES
    db,       \* the stored sections
    mem,      \* AppState: the section copies the proxy reads
    loader    \* the progress of each reload: section index and what it read

configVars == <<db, mem, loader>>

Loaders == Admins \cup {Periodic}

Contents == UNION {Values[s] : s \in SectionNames}

NotRead == [read |-> FALSE]
Read(v) == [read |-> TRUE, value |-> v]

AtRest == [i |-> 0, snap |-> NotRead]
Starting == [i |-> 1, snap |-> NotRead]

Running(l) == loader[l].i > 0
Section(l) == Sections[loader[l].i]

\* On to the next section, or done.
Advanced(l) ==
    IF loader[l].i < Len(Sections) THEN [i |-> loader[l].i + 1, snap |-> NotRead] ELSE AtRest

-----------------------------------------------------------------------------
\* The periodic task wakes up.
Tick == /\ ~Running(Periodic)
        /\ loader' = [loader EXCEPT ![Periodic] = Starting]
        /\ UNCHANGED <<db, mem>>

\* An admin handler's database write; its reload follows.
Edit(a) ==
    /\ ~Running(a)
    /\ \E s \in SectionNames : \E v \in Values[s] \ {db[s]} : db' = [db EXCEPT ![s] = v]
    /\ loader' = [loader EXCEPT ![a] = Starting]
    /\ UNCHANGED mem

\* The section's query runs in the database.
Load(l) == /\ Running(l) /\ ~loader[l].snap.read
           /\ loader' = [loader EXCEPT ![l].snap = Read(db[Section(l)])]
           /\ UNCHANGED <<db, mem>>

\* The query fails: the section keeps its previous value, the others go on.
LoadFails(l) == /\ Running(l) /\ ~loader[l].snap.read
                /\ loader' = [loader EXCEPT ![l] = Advanced(l)]
                /\ UNCHANGED <<db, mem>>

\* The answer arrives and replaces the section in memory.
Apply(l) == /\ Running(l) /\ loader[l].snap.read
            /\ mem' = [mem EXCEPT ![Section(l)] = loader[l].snap.value]
            /\ loader' = [loader EXCEPT ![l] = Advanced(l)]
            /\ UNCHANGED db

\* The admin's connection closes: the handler is dropped where it waits.
Cancel(a) == /\ Running(a)
             /\ loader' = [loader EXCEPT ![a] = AtRest]
             /\ UNCHANGED <<db, mem>>

\* init loads every section or does not start.
ConfigInit == /\ db \in [SectionNames -> Contents] /\ \A s \in SectionNames : db[s] \in Values[s]
              /\ mem = db
              /\ loader = [l \in Loaders |-> AtRest]

ConfigNext == \/ Tick
              \/ \E a \in Admins : Edit(a) \/ Cancel(a)
              \/ \E l \in Loaders : Load(l) \/ LoadFails(l) \/ Apply(l)
-----------------------------------------------------------------------------
LoaderType == [i : 0..Len(Sections), snap : {NotRead} \cup {Read(v) : v \in Contents}]

ConfigTypeOK == /\ db \in [SectionNames -> Contents]
                /\ mem \in [SectionNames -> Contents]
                /\ loader \in [Loaders -> LoaderType]

\* Memory and what a reload holds are contents of the right section: a section
\* never receives what was read for another one (state.rs 229-303).
RightSection ==
    /\ \A s \in SectionNames : db[s] \in Values[s] /\ mem[s] \in Values[s]
    /\ \A l \in Loaders : loader[l].snap.read =>
            Running(l) /\ loader[l].snap.value \in Values[Section(l)]
=============================================================================
