------------------------------ MODULE TraceLog ------------------------------
(***************************************************************************)
(* What the ingest path promises of the events it has accepted, whatever   *)
(* goroutines, processes and faults are behind it: an accepted entry stays *)
(* outstanding until its event has a row; a row is written once; an event  *)
(* is reported to the realtime counters at most once, after its row.       *)
(***************************************************************************)
EXTENDS Naturals

CONSTANTS Event, Malformed

VARIABLES
    entries,      \* accepted entries: <<position, event>>
    outstanding,  \* positions that will be delivered, perhaps again
    stored,       \* events with a row
    reported      \* events the realtime counters have seen

vars == <<entries, outstanding, stored, reported>>

Init == entries = {} /\ outstanding = {} /\ stored = {} /\ reported = {}

\* The next entry y = <<position, event>>, after all the others.
Accept(y) ==
    /\ y[1] \in Nat /\ y[2] \in Event
    /\ \A x \in entries : x[1] < y[1]
    /\ entries' = entries \cup {y}
    /\ outstanding' = outstanding \cup {y[1]}
    /\ UNCHANGED <<stored, reported>>

\* New rows, each of them of an outstanding entry.
Store(E) ==
    /\ E \cap (stored \cup Malformed) = {}
    /\ \A e \in E : \E x \in entries : x[2] = e /\ x[1] \in outstanding
    /\ stored' = stored \cup E
    /\ UNCHANGED <<entries, outstanding, reported>>

Report(E) ==
    /\ E \subseteq stored \ reported
    /\ reported' = reported \cup E
    /\ UNCHANGED <<entries, outstanding, stored>>

\* Nothing is settled before it is stored, unless there is nothing to store.
Settle(S) ==
    /\ S \subseteq outstanding
    /\ \A x \in entries : x[1] \in S => x[2] \in stored \cup Malformed
    /\ outstanding' = outstanding \ S
    /\ UNCHANGED <<entries, stored, reported>>

Next ==
    \/ \E y \in entries' : Accept(y)
    \/ \E E \in SUBSET Event : Store(E) \/ Report(E)
    \/ \E S \in SUBSET outstanding : Settle(S)

Spec == Init /\ [][Next]_vars

=============================================================================
