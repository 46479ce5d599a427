--------------------------- MODULE CollectorProofs ---------------------------
(***************************************************************************)
(* Theorems about Collector, for any number of events and processes, any   *)
(* batch size and any number of faults.                                    *)
(***************************************************************************)
EXTENDS Collector, TLAPS

\* The stream only grows, and what is in it stays where it is.
StreamGrows ==
    /\ stream' \in Seq(Event)
    /\ Len(stream) <= Len(stream')
    /\ \A i \in 1..Len(stream) : stream'[i] = stream[i]

\* Append adds one element and moves none.
LEMMA AppendKeeps ==
    ASSUME NEW S, NEW s \in Seq(S), NEW x \in S
    PROVE  /\ Append(s, x) \in Seq(S)
           /\ Len(Append(s, x)) = Len(s) + 1
           /\ \A i \in 1..Len(s) : Append(s, x)[i] = s[i]
           /\ Append(s, x)[Len(s) + 1] = x
    OBVIOUS

\* No step removes an entry from the Redis stream or changes one: nothing trims it.
LEMMA StreamOnlyGrows == TypeOK /\ [Next]_vars => StreamGrows
<1> SUFFICES ASSUME TypeOK, [Next]_vars PROVE StreamGrows
    OBVIOUS
<1>1. ASSUME UNCHANGED stream PROVE StreamGrows
    BY <1>1 DEF StreamGrows, TypeOK
<1>2. ASSUME NEW e \in Event, stream' = Append(stream, e) PROVE StreamGrows
    BY <1>2, AppendKeeps DEF StreamGrows, TypeOK
<1>3. ASSUME NEW e \in Event, Submit(e) \/ SubmitFails(e) \/ Resend(e) PROVE StreamGrows
    BY <1>1, <1>2, <1>3 DEF Submit, SubmitFails, Resend, redis
<1>4. ASSUME NEW c \in Collector, Start(c) \/ Stop(c) \/ Exit(c) \/ Crash(c) PROVE StreamGrows
    BY <1>1, <1>4 DEF Start, Stop, Exit, Crash, redis
<1>5. ASSUME NEW t \in Thread, Work(t) \/ Disturbed(t) PROVE StreamGrows
    BY <1>1, <1>5 DEF Work, Disturbed, Leave, ReadGroup, Reclaim, Insert, InsertRejected,
        RecordBatch, Ack, ReadGroupLost, InsertFails, RecordBatchFails, AckFails, Deliver, redis
<1>6. ASSUME TimePasses PROVE StreamGrows
    BY <1>1, <1>6 DEF TimePasses
<1>7. CASE UNCHANGED vars
    BY <1>1, <1>7 DEF vars, redis
<1> QED BY <1>3, <1>4, <1>5, <1>6, <1>7 DEF Next

----------------------------------------------------------------------------
(* Type correctness *)

\* The initial state is of the types.
LEMMA InitTypeOK == Init => TypeOK
<1>1. <<>> \in Seq(Event) /\ Len(<<>>) = 0
    OBVIOUS
<1> SUFFICES ASSUME Init PROVE TypeOK
    OBVIOUS
<1>2. stream \in Seq(Event) /\ last <= Len(stream)
    BY <1>1 DEF Init
<1>3. pending \subseteq 1..last /\ idle \subseteq pending
    BY DEF Init
<1>4. faults \in 0..MaxFaults /\ stops \in 0..MaxStops
    BY ConstantsOK DEF Init
<1> QED BY <1>2, <1>3, <1>4 DEF Init, TypeOK

\* What Deliver hands over lies between the old and the new read position.
LEMMA DeliverRange ==
    ASSUME TypeOK, Deliver
    PROVE  /\ last' \in Nat /\ last < last' /\ last' <= Len(stream)
           /\ NextEntries = (last + 1)..last'
    BY ConstantsOK DEF TypeOK, Deliver, NextEntries

\* The part of TypeOK that is about the goroutines.
ThreadsOK ==
    /\ pc \in [Thread -> {"loop", "insert", "count", "ack", "out"}]
    /\ batch \in [Thread -> SUBSET (1..last)]
    /\ detached \in [Thread -> BOOLEAN]

\* A goroutine that returns to its loop holds no entries.
LEMMA ReturnType ==
    ASSUME TypeOK, NEW t \in Thread, Return(t), last' \in Nat, last <= last'
    PROVE  ThreadsOK'
    BY DEF TypeOK, ThreadsOK, Return

\* A goroutine takes a batch only of delivered entries.
LEMMA ProcessBatchType ==
    ASSUME TypeOK, NEW t \in Thread, NEW B, ProcessBatch(t, B),
           last' \in Nat, last <= last', B \subseteq 1..last'
    PROVE  ThreadsOK'
    BY DEF TypeOK, ThreadsOK, ProcessBatch

\* The fault budget stays within its bound.
LEMMA FaultType == TypeOK /\ Fault => faults' \in 0..MaxFaults /\ stops' \in 0..MaxStops
    BY ConstantsOK DEF TypeOK, Fault

\* Every step keeps the types.
LEMMA StepTypeOK == TypeOK /\ [Next]_vars => TypeOK'
<1> SUFFICES ASSUME TypeOK, [Next]_vars PROVE TypeOK'
    OBVIOUS
<1>0. StreamGrows
    BY StreamOnlyGrows
<1>1. ASSUME NEW e \in Event, Submit(e) PROVE TypeOK'
    BY <1>0, <1>1 DEF Submit, TypeOK, StreamGrows, threads, budget
<1>2. ASSUME NEW e \in Event, SubmitFails(e) PROVE TypeOK'
    BY <1>0, <1>2, FaultType DEF SubmitFails, TypeOK, StreamGrows, threads, redis
<1>3. ASSUME NEW e \in Event, Resend(e) PROVE TypeOK'
    <2>1. faults' \in 0..MaxFaults /\ stops' \in 0..MaxStops
        BY <1>3, FaultType DEF Resend
    <2>2. UNCHANGED <<submitted, group, start, last, pending, idle, rows, counted, up, threads>>
        BY <1>3 DEF Resend, threads
    <2>3. stream' \in Seq(Event) /\ last' <= Len(stream')
        BY <1>0, <2>2 DEF TypeOK, StreamGrows
    <2> QED BY <2>1, <2>2, <2>3 DEF TypeOK, threads
<1>4. ASSUME NEW c \in Collector, Start(c) PROVE TypeOK'
    <2>1. CASE group
        BY <1>4, <2>1 DEF Start, TypeOK, budget
    <2>2. CASE ~group
        BY <1>4, <2>2 DEF Start, TypeOK, budget
    <2> QED BY <2>1, <2>2
<1>5. ASSUME NEW c \in Collector, Stop(c) PROVE TypeOK'
    BY <1>5, ConstantsOK DEF Stop, TypeOK, redis, threads
<1>6. ASSUME NEW c \in Collector, Exit(c) PROVE TypeOK'
    BY <1>6 DEF Exit, TypeOK, redis, threads, budget
<1>7. ASSUME NEW c \in Collector, Crash(c) PROVE TypeOK'
    BY <1>7, FaultType DEF Crash, TypeOK, redis
<1>8. ASSUME NEW t \in Thread, Leave(t) PROVE TypeOK'
    <2>1. ThreadsOK'
        BY <1>8, ReturnType DEF Leave, TypeOK, redis
    <2> QED BY <1>8, <2>1 DEF Leave, TypeOK, ThreadsOK, redis, budget
<1>9. ASSUME NEW t \in Thread, ReadGroup(t) PROVE TypeOK'
    <2>1. Deliver
        BY <1>9 DEF ReadGroup
    <2>2. NextEntries \subseteq 1..last'
        BY <2>1, DeliverRange DEF TypeOK
    <2>3. ThreadsOK'
        <3>1. ProcessBatch(t, NextEntries)
            BY <1>9 DEF ReadGroup
        <3>2. last' \in Nat /\ last <= last'
            BY <2>1, DeliverRange DEF TypeOK
        <3> QED BY <2>2, <3>1, <3>2, ProcessBatchType
    <2>4. last' \in Nat /\ last < last' /\ last' <= Len(stream)
        BY <2>1, DeliverRange
    <2>5. pending' \subseteq 1..last' /\ idle' \subseteq pending'
        BY <2>1, <2>2, <2>4 DEF Deliver, TypeOK
    <2> QED BY <1>9, <2>1, <2>3, <2>4, <2>5
            DEF ReadGroup, Deliver, TypeOK, ThreadsOK, budget
<1>10. ASSUME NEW t \in Thread, ReadGroupLost(t) PROVE TypeOK'
    <2>1. Deliver
        BY <1>10 DEF ReadGroupLost
    <2>2. NextEntries \subseteq 1..last'
        BY <2>1, DeliverRange DEF TypeOK
    <2>3. faults' \in 0..MaxFaults /\ stops' \in 0..MaxStops
        BY <1>10, FaultType DEF ReadGroupLost
    <2>4. last' \in Nat /\ last < last' /\ last' <= Len(stream)
        BY <2>1, DeliverRange
    <2>5. ThreadsOK'
        BY <1>10, <2>4, ReturnType DEF ReadGroupLost, TypeOK
    <2>6. pending' \subseteq 1..last' /\ idle' \subseteq pending'
        BY <2>1, <2>2, <2>4 DEF Deliver, TypeOK
    <2> QED BY <2>1, <2>3, <2>4, <2>5, <2>6 DEF Deliver, TypeOK, ThreadsOK
<1>11. ASSUME NEW t \in Thread, Reclaim(t) PROVE TypeOK'
    <2>1. Claimable \subseteq 1..last
        BY DEF Claimable, TypeOK
    <2>2. ThreadsOK'
        <3>1. ProcessBatch(t, Claimable) /\ last' = last
            BY <1>11 DEF Reclaim
        <3>2. last' \in Nat /\ last <= last' /\ Claimable \subseteq 1..last'
            BY <2>1, <3>1 DEF TypeOK
        <3> QED BY <3>1, <3>2, ProcessBatchType
    <2> QED BY <1>11, <2>2 DEF Reclaim, TypeOK, ThreadsOK, budget
<1>12. ASSUME TimePasses PROVE TypeOK'
    BY <1>12 DEF TimePasses, TypeOK, threads, budget
<1>13. ASSUME NEW t \in Thread, Insert(t) PROVE TypeOK'
    BY <1>13 DEF Insert, TypeOK, Rows, Decoded, redis, budget
<1>14. ASSUME NEW t \in Thread, InsertRejected(t) PROVE TypeOK'
    <2>1. ThreadsOK'
        BY <1>14, ReturnType DEF InsertRejected, TypeOK, redis
    <2> QED BY <1>14, <2>1 DEF InsertRejected, TypeOK, ThreadsOK, redis, budget
<1>15. ASSUME NEW t \in Thread, InsertFails(t) PROVE TypeOK'
    <2>1. faults' \in 0..MaxFaults /\ stops' \in 0..MaxStops
        BY <1>15, FaultType DEF InsertFails, TypeOK, budget
    <2>2. rows' \subseteq Event
        BY <1>15 DEF InsertFails, Rows, Decoded, TypeOK
    <2>3. ThreadsOK'
        BY <1>15, ReturnType DEF InsertFails, TypeOK, redis
    <2> QED BY <1>15, <2>1, <2>2, <2>3 DEF InsertFails, TypeOK, ThreadsOK, redis
<1>16. ASSUME NEW t \in Thread, RecordBatch(t) PROVE TypeOK'
    BY <1>16 DEF RecordBatch, Bump, TypeOK, redis, budget
<1>17. ASSUME NEW t \in Thread, RecordBatchFails(t) PROVE TypeOK'
    <2>1. faults' \in 0..MaxFaults /\ stops' \in 0..MaxStops
        BY <1>17, FaultType DEF RecordBatchFails, TypeOK, budget
    <2> QED BY <1>17, <2>1 DEF RecordBatchFails, Bump, TypeOK, redis
<1>18. ASSUME NEW t \in Thread, Ack(t) PROVE TypeOK'
    <2>1. ThreadsOK'
        BY <1>18, ReturnType DEF Ack, TypeOK
    <2> QED BY <1>18, <2>1 DEF Ack, TypeOK, ThreadsOK, budget
<1>19. ASSUME NEW t \in Thread, AckFails(t) PROVE TypeOK'
    <2>1. faults' \in 0..MaxFaults /\ stops' \in 0..MaxStops
        BY <1>19, FaultType DEF AckFails, TypeOK, budget
    <2>2. ThreadsOK'
        BY <1>19, ReturnType DEF AckFails, TypeOK, redis
    <2> QED BY <1>19, <2>1, <2>2 DEF AckFails, TypeOK, ThreadsOK, redis
<1>20. CASE UNCHANGED vars
    BY <1>20 DEF vars, TypeOK, redis, threads, budget
<1> QED
    BY <1>1, <1>2, <1>3, <1>4, <1>5, <1>6, <1>7, <1>8, <1>9, <1>10, <1>11, <1>12, <1>13,
       <1>14, <1>15, <1>16, <1>17, <1>18, <1>19, <1>20 DEF Next, Work, Disturbed

\* The state of the stream, the pending list, the processes and their goroutines
\* stays within its types: positions never run past what was delivered.
THEOREM TypeCorrect == Spec => []TypeOK
<1> QED BY InitTypeOK, StepTypeOK, PTL DEF Spec

----------------------------------------------------------------------------
(* The inductive invariant *)

\* The rows a batch becomes, as a function of the stream.
RowsOf(s, B) == {s[i] : i \in {j \in B : s[j] \notin Malformed}}

\* Rows, as a function of the stream it is read from.
LEMMA RowsAreRowsOf == \A B : Rows(B) = RowsOf(stream, B)
    BY DEF Rows, Decoded, RowsOf

\* A batch of delivered entries means the same rows in a longer stream.
LEMMA RowsOfStable ==
    ASSUME TypeOK, StreamGrows, NEW B, B \subseteq 1..last
    PROVE  RowsOf(stream', B) = RowsOf(stream, B)
<1>1. \A i \in B : stream'[i] = stream[i]
    BY DEF TypeOK, StreamGrows
<1> QED BY <1>1 DEF RowsOf

\* Phases with Rows spelt out, so that it can be read in the next state.
PhasesOf(s, r, n, p, b) ==
    /\ \A t \in Thread : p[t] \in {"count", "ack"} => RowsOf(s, b[t]) \subseteq r
    /\ \A t \in Thread : p[t] = "count" => \A e \in RowsOf(s, b[t]) : n[e] = 0
    /\ \A t, u \in Thread :
           t # u /\ p[t] = "count" /\ p[u] = "count"
               => RowsOf(s, b[t]) \cap RowsOf(s, b[u]) = {}

\* Phases, as a function of what it depends on.
LEMMA PhasesArePhasesOf ==
    /\ Phases = PhasesOf(stream, rows, counted, pc, batch)
    /\ Phases' = PhasesOf(stream', rows', counted', pc', batch')
    BY DEF Phases, PhasesOf, Rows, Decoded, RowsOf

\* A goroutine the step leaves alone, or that has no row to answer for.
Quiet(u) ==
    \/ pc'[u] = pc[u] /\ batch'[u] = batch[u]
    \/ pc'[u] \notin {"count", "ack"}
    \/ pc'[u] = "ack" /\ RowsOf(stream', batch'[u]) = {}

\* Phases survive a step in which nobody enters "count", no row goes and no counter moves.
LEMMA QuietPhases ==
    ASSUME TypeOK, Phases, StreamGrows, rows \subseteq rows', counted' = counted,
           \A u \in Thread : Quiet(u)
    PROVE  Phases'
<1>1. PhasesOf(stream, rows, counted, pc, batch)
    BY PhasesArePhasesOf
<1>2. \A u \in Thread : RowsOf(stream', batch[u]) = RowsOf(stream, batch[u])
    BY RowsOfStable DEF TypeOK
<1>3. PhasesOf(stream', rows', counted', pc', batch')
    BY <1>1, <1>2 DEF PhasesOf, Quiet
<1> QED BY <1>3, PhasesArePhasesOf

\* Going back to the loop is such a step for the goroutine that does it.
LEMMA ReturnQuiet ==
    ASSUME TypeOK, NEW t \in Thread, Return(t)
    PROVE  \A u \in Thread : Quiet(u)
    BY DEF Return, TypeOK, Quiet

\* So is taking a new batch.
LEMMA ProcessBatchQuiet ==
    ASSUME TypeOK, NEW t \in Thread, NEW B, ProcessBatch(t, B), UNCHANGED stream
    PROVE  \A u \in Thread : Quiet(u)
<1>1. \A u \in Thread \ {t} : pc'[u] = pc[u] /\ batch'[u] = batch[u]
    BY DEF ProcessBatch, TypeOK
<1>2. batch'[t] = B /\ pc'[t] = IF Decoded(B) = {} THEN "ack" ELSE "insert"
    BY DEF ProcessBatch, TypeOK
<1>3. Decoded(B) = {} => RowsOf(stream', B) = {}
    BY DEF Decoded, RowsOf
<1> QED BY <1>1, <1>2, <1>3 DEF Quiet

\* Every step but Insert and the two RecordBatch steps leaves each goroutine alone or
\* takes it away from "count" and "ack".
LEMMA StepQuiet ==
    ASSUME TypeOK, [Next]_vars,
           \A t \in Thread : ~Insert(t) /\ ~RecordBatch(t) /\ ~RecordBatchFails(t)
    PROVE  (\A u \in Thread : Quiet(u)) /\ counted' = counted /\ rows \subseteq rows'
<1> DEFINE Goal == (\A u \in Thread : Quiet(u)) /\ counted' = counted /\ rows \subseteq rows'
<1>1. ASSUME NEW e \in Event, Submit(e) \/ SubmitFails(e) \/ Resend(e) PROVE Goal
    BY <1>1 DEF Submit, SubmitFails, Resend, threads, Quiet
<1>2. ASSUME NEW c \in Collector, Start(c) PROVE Goal
    BY <1>2 DEF Start, Quiet, TypeOK
<1>3. ASSUME NEW c \in Collector, Stop(c) \/ Exit(c) PROVE Goal
    BY <1>3 DEF Stop, Exit, threads, Quiet
<1>4. ASSUME NEW c \in Collector, Crash(c) PROVE Goal
    BY <1>4 DEF Crash, Quiet, TypeOK
<1>5. ASSUME NEW t \in Thread,
             Leave(t) \/ InsertRejected(t) \/ InsertFails(t) \/ Ack(t) \/ AckFails(t) \/ ReadGroupLost(t)
      PROVE  Goal
    <2>1. Return(t) /\ counted' = counted /\ rows \subseteq rows'
        BY <1>5 DEF Leave, InsertRejected, InsertFails, Ack, AckFails, ReadGroupLost, Deliver
    <2> QED BY <2>1, ReturnQuiet
<1>6. ASSUME NEW t \in Thread, ReadGroup(t) PROVE Goal
    <2>1. ProcessBatch(t, NextEntries) /\ UNCHANGED stream /\ counted' = counted /\ rows' = rows
        BY <1>6 DEF ReadGroup, Deliver
    <2> QED BY <2>1, ProcessBatchQuiet
<1>7. ASSUME NEW t \in Thread, Reclaim(t) PROVE Goal
    <2>1. ProcessBatch(t, Claimable) /\ UNCHANGED stream /\ counted' = counted /\ rows' = rows
        BY <1>7 DEF Reclaim
    <2> QED BY <2>1, ProcessBatchQuiet
<1>8. CASE TimePasses
    BY <1>8 DEF TimePasses, threads, Quiet
<1>9. CASE UNCHANGED vars
    BY <1>9 DEF vars, threads, Quiet
<1> QED
    BY <1>1, <1>2, <1>3, <1>4, <1>5, <1>6, <1>7, <1>8, <1>9 DEF Next, Work, Disturbed

\* Between its COPY and its XACK a goroutine holds stored rows that only it will count.
LEMMA StepPhases == IngestInv /\ [Next]_vars => Phases'
<1> SUFFICES ASSUME IngestInv, [Next]_vars PROVE Phases'
    OBVIOUS
<1> USE DEF IngestInv
<1>0. StreamGrows
    BY StreamOnlyGrows
<1>1. PhasesOf(stream, rows, counted, pc, batch)
    BY PhasesArePhasesOf
<1>2. ASSUME NEW t \in Thread, Insert(t) PROVE Phases'
    <2> DEFINE R == RowsOf(stream, batch[t])
    <2>1. /\ stream' = stream /\ counted' = counted /\ batch' = batch
          /\ rows' = rows \cup R /\ R \cap rows = {}
          /\ pc' = [pc EXCEPT ![t] = "count"]
        BY <1>2, RowsAreRowsOf DEF Insert, CopyAccepts, redis
    <2>2. R \subseteq Event
        BY DEF RowsOf, TypeOK
    <2>3. \A e \in R : counted[e] = 0
        BY <2>1, <2>2 DEF CountedOnce, TypeOK
    <2>4. \A u \in Thread \ {t} : pc'[u] = pc[u]
        BY <2>1 DEF TypeOK
    <2>5. \A u \in Thread : pc[u] = "count" => RowsOf(stream, batch[u]) \cap R = {}
        BY <1>1, <2>1 DEF PhasesOf
    <2>6. PhasesOf(stream', rows', counted', pc', batch')
        BY <1>1, <2>1, <2>3, <2>4, <2>5 DEF PhasesOf
    <2> QED BY <2>6, PhasesArePhasesOf
<1>3. ASSUME NEW t \in Thread, RecordBatch(t) \/ RecordBatchFails(t) PROVE Phases'
    <2> DEFINE R == RowsOf(stream, batch[t])
    <2>1. /\ stream' = stream /\ rows' = rows /\ batch' = batch
          /\ pc[t] = "count" /\ pc' = [pc EXCEPT ![t] = "ack"]
        BY <1>3 DEF RecordBatch, RecordBatchFails, redis
    <2>2. PICK S \in SUBSET R : Bump(S)
        BY <1>3, RowsAreRowsOf DEF RecordBatch, RecordBatchFails
    <2>3. \A e \in Event \ R : counted'[e] = counted[e]
        BY <2>2 DEF Bump
    <2>4. \A u \in Thread \ {t} : pc'[u] = pc[u]
        BY <2>1 DEF TypeOK
    <2>5. \A u \in Thread \ {t} : pc[u] = "count" =>
              RowsOf(stream, batch[u]) \cap R = {} /\ RowsOf(stream, batch[u]) \subseteq Event
        <3>1. \A u \in Thread : RowsOf(stream, batch[u]) \subseteq Event
            BY DEF RowsOf, TypeOK
        <3> QED BY <1>1, <2>1, <3>1 DEF PhasesOf
    <2>6. PhasesOf(stream', rows', counted', pc', batch')
        <3>1. ASSUME NEW u \in Thread, pc'[u] \in {"count", "ack"}
              PROVE  RowsOf(stream', batch'[u]) \subseteq rows'
            BY <1>1, <2>1, <2>4, <3>1 DEF PhasesOf
        <3>2. ASSUME NEW u \in Thread, pc'[u] = "count"
              PROVE  u # t /\ pc[u] = "count"
            BY <2>1, <2>4, <3>2 DEF TypeOK
        <3>3. ASSUME NEW u \in Thread, pc'[u] = "count", NEW e \in RowsOf(stream', batch'[u])
              PROVE  counted'[e] = 0
            BY <1>1, <2>1, <2>3, <2>5, <3>2, <3>3 DEF PhasesOf
        <3>4. ASSUME NEW u \in Thread, NEW v \in Thread, u # v, pc'[u] = "count", pc'[v] = "count"
              PROVE  RowsOf(stream', batch'[u]) \cap RowsOf(stream', batch'[v]) = {}
            BY <1>1, <2>1, <3>2, <3>4 DEF PhasesOf
        <3> QED BY <3>1, <3>3, <3>4 DEF PhasesOf
    <2> QED BY <2>6, PhasesArePhasesOf
<1>4. ASSUME \A t \in Thread : ~Insert(t) /\ ~RecordBatch(t) /\ ~RecordBatchFails(t)
      PROVE  Phases'
    BY <1>0, <1>4, StepQuiet, QuietPhases
<1> QED BY <1>2, <1>3, <1>4

\* No step counts an event a second time, or without its row.
LEMMA StepCountedOnce == IngestInv /\ [Next]_vars => CountedOnce'
<1> SUFFICES ASSUME IngestInv, [Next]_vars PROVE CountedOnce'
    OBVIOUS
<1> USE DEF IngestInv
<1>1. ASSUME NEW t \in Thread, Insert(t) PROVE CountedOnce'
    BY <1>1 DEF Insert, CountedOnce, TypeOK
<1>2. ASSUME NEW t \in Thread, RecordBatch(t) \/ RecordBatchFails(t) PROVE CountedOnce'
    <2>1. PICK S \in SUBSET Rows(batch[t]) : Bump(S)
        BY <1>2 DEF RecordBatch, RecordBatchFails
    <2>2. pc[t] = "count" /\ rows' = rows
        BY <1>2 DEF RecordBatch, RecordBatchFails
    <2>3. \A e \in S : e \in rows /\ counted[e] = 0
        BY <2>2 DEF Phases
    <2>4. \A e \in Event : counted'[e] = IF e \in S THEN counted[e] + 1 ELSE counted[e]
        BY <2>1 DEF Bump
    <2> QED BY <2>2, <2>3, <2>4 DEF CountedOnce, TypeOK
<1>3. ASSUME \A t \in Thread : ~Insert(t) /\ ~RecordBatch(t) /\ ~RecordBatchFails(t)
      PROVE  CountedOnce'
    <2>1. counted' = counted /\ rows \subseteq rows'
        BY <1>3, StepQuiet
    <2> QED BY <2>1 DEF CountedOnce, TypeOK
<1> QED BY <1>1, <1>2, <1>3

\* The pending list is left alone, extended by what is delivered, or shortened by the
\* batch a goroutine acknowledges.
LEMMA PendingStep ==
    ASSUME TypeOK, [Next]_vars
    PROVE  \/ UNCHANGED <<group, start, last, pending>>
           \/ ~group /\ group' /\ start' = last' /\ last' = Len(stream) /\ UNCHANGED pending
           \/ Deliver
           \/ /\ UNCHANGED <<stream, rows, group, start, last>>
              /\ \E t \in Thread : pc[t] = "ack" /\ pending' = pending \ batch[t]
<1> DEFINE Goal == \/ UNCHANGED <<group, start, last, pending>>
                   \/ ~group /\ group' /\ start' = last' /\ last' = Len(stream) /\ UNCHANGED pending
                   \/ Deliver
                   \/ /\ UNCHANGED <<stream, rows, group, start, last>>
                      /\ \E t \in Thread : pc[t] = "ack" /\ pending' = pending \ batch[t]
<1>1. ASSUME NEW e \in Event, Submit(e) \/ SubmitFails(e) \/ Resend(e) PROVE Goal
    BY <1>1 DEF Submit, SubmitFails, Resend, redis
<1>2. ASSUME NEW c \in Collector, Start(c) PROVE Goal
    <2>1. CASE group
        BY <1>2, <2>1 DEF Start, TypeOK
    <2>2. CASE ~group
        BY <1>2, <2>2 DEF Start, TypeOK
    <2> QED BY <2>1, <2>2
<1>3. ASSUME NEW c \in Collector, Stop(c) \/ Exit(c) \/ Crash(c) PROVE Goal
    BY <1>3 DEF Stop, Exit, Crash, redis
<1>4. ASSUME NEW t \in Thread, ReadGroup(t) \/ ReadGroupLost(t) PROVE Goal
    BY <1>4 DEF ReadGroup, ReadGroupLost
<1>5. ASSUME NEW t \in Thread, Ack(t) PROVE Goal
    BY <1>5 DEF Ack
<1>6. ASSUME NEW t \in Thread,
             Leave(t) \/ Reclaim(t) \/ Insert(t) \/ InsertRejected(t) \/ RecordBatch(t)
             \/ InsertFails(t) \/ RecordBatchFails(t) \/ AckFails(t)
      PROVE  Goal
    BY <1>6 DEF Leave, Reclaim, Insert, InsertRejected, RecordBatch, InsertFails,
        RecordBatchFails, AckFails, redis
<1>7. CASE TimePasses
    BY <1>7 DEF TimePasses
<1>8. CASE UNCHANGED vars
    BY <1>8 DEF vars, redis
<1> QED BY <1>1, <1>2, <1>3, <1>4, <1>5, <1>6, <1>7, <1>8 DEF Next, Work, Disturbed

\* No step removes a row.
LEMMA RowsGrow == ASSUME TypeOK, [Next]_vars PROVE rows \subseteq rows'
<1>1. ASSUME NEW t \in Thread, Insert(t) \/ RecordBatch(t) \/ RecordBatchFails(t)
      PROVE  rows \subseteq rows'
    BY <1>1 DEF Insert, RecordBatch, RecordBatchFails
<1> QED BY <1>1, StepQuiet

\* No step takes an entry off the pending list before it is stored or known as malformed.
LEMMA StepNothingLost == IngestInv /\ [Next]_vars => NothingLost'
<1> SUFFICES ASSUME IngestInv, [Next]_vars,
                    NEW i \in (start' + 1)..last', i \notin pending'
             PROVE  stream'[i] \in Malformed \cup rows'
    BY DEF NothingLost
<1> USE DEF IngestInv
<1>0. StreamGrows /\ TypeOK' /\ rows \subseteq rows'
    BY StreamOnlyGrows, StepTypeOK, RowsGrow
<1>1. CASE UNCHANGED <<group, start, last, pending>>
    <2>1. stream[i] \in Malformed \cup rows /\ i \in 1..Len(stream)
        BY <1>1 DEF NothingLost, TypeOK
    <2> QED BY <1>0, <2>1 DEF StreamGrows
<1>2. CASE ~group /\ group' /\ start' = last' /\ last' = Len(stream) /\ UNCHANGED pending
    BY <1>0, <1>2 DEF TypeOK
<1>3. CASE Deliver
    <2>1. NextEntries = (last + 1)..last' /\ pending' = pending \cup NextEntries /\ start' = start
        BY <1>3, DeliverRange DEF Deliver
    <2>2. i \in (start + 1)..last /\ i \notin pending
        BY <1>0, <2>1 DEF TypeOK
    <2>3. stream[i] \in Malformed \cup rows /\ i \in 1..Len(stream)
        BY <2>2 DEF NothingLost, TypeOK
    <2> QED BY <1>0, <2>3 DEF StreamGrows
<1>4. ASSUME NEW t \in Thread, UNCHANGED <<stream, rows, group, start, last>>,
             pc[t] = "ack", pending' = pending \ batch[t]
      PROVE  stream'[i] \in Malformed \cup rows'
    <2>1. Rows(batch[t]) \subseteq rows
        BY <1>4 DEF Phases
    <2>2. CASE i \in batch[t]
        BY <1>4, <2>1, <2>2 DEF Rows, Decoded
    <2>3. CASE i \notin pending
        BY <1>4, <2>3 DEF NothingLost
    <2> QED BY <1>4, <2>2, <2>3
<1> QED BY <1>1, <1>2, <1>3, <1>4, PendingStep

\* A goroutine changes what it holds only by getting a batch or dropping it, and it
\* runs only once the group exists.
LEMMA BatchStep ==
    ASSUME IngestInv, [Next]_vars
    PROVE  /\ \A u \in Thread :
                  \/ batch'[u] = batch[u]
                  \/ batch'[u] = {}
                  \/ Deliver /\ batch'[u] = NextEntries
                  \/ batch'[u] \subseteq pending
           /\ group \/ group' \/ pc' = pc
           /\ group => group'
<1> USE DEF IngestInv
<1> DEFINE Held(u) ==
               \/ batch'[u] = batch[u]
               \/ batch'[u] = {}
               \/ Deliver /\ batch'[u] = NextEntries
               \/ batch'[u] \subseteq pending
           Goal == (\A u \in Thread : Held(u)) /\ (group \/ group' \/ pc' = pc) /\ (group => group')
<1> HIDE DEF Held
<1>0. ASSUME NEW t \in Thread, pc[t] # "out" PROVE group
    BY <1>0 DEF InGroup, TypeOK
<1>1. ASSUME NEW e \in Event, Submit(e) \/ SubmitFails(e) \/ Resend(e) PROVE Goal
    BY <1>1 DEF Submit, SubmitFails, Resend, redis, threads, Held
<1>2. ASSUME NEW c \in Collector, Start(c) PROVE Goal
    BY <1>2 DEF Start, Held
<1>3. ASSUME NEW c \in Collector, Stop(c) \/ Exit(c) PROVE Goal
    BY <1>3 DEF Stop, Exit, threads, redis, Held
<1>4. ASSUME NEW c \in Collector, Crash(c) PROVE Goal
    <2>1. \A u \in Thread : Held(u)
        BY <1>4 DEF Crash, Held, TypeOK
    <2>2. ~group => pc' = pc
        BY <1>4 DEF Crash, InGroup, TypeOK
    <2> QED BY <1>4, <2>1, <2>2 DEF Crash, redis
<1>5. ASSUME NEW t \in Thread,
             \/ Leave(t) \/ InsertRejected(t) \/ InsertFails(t) \/ Ack(t) \/ AckFails(t)
             \/ ReadGroupLost(t)
      PROVE  Goal
    <2>1. Return(t) /\ pc[t] # "out" /\ UNCHANGED group
        BY <1>5 DEF Leave, InsertRejected, InsertFails, Ack, AckFails, ReadGroupLost, Deliver, redis
    <2>2. \A u \in Thread : Held(u)
        BY <2>1 DEF Return, TypeOK, Held
    <2> QED BY <1>0, <2>1, <2>2
<1>6. ASSUME NEW t \in Thread, NEW B, ProcessBatch(t, B), pc[t] # "out", UNCHANGED group,
             (Deliver /\ B = NextEntries) \/ B \subseteq pending
      PROVE  Goal
    <2>1. \A u \in Thread : Held(u)
        BY <1>6 DEF ProcessBatch, TypeOK, Held
    <2> QED BY <1>0, <1>6, <2>1
<1>7. ASSUME NEW t \in Thread, ReadGroup(t) PROVE Goal
    <2>1. ProcessBatch(t, NextEntries) /\ pc[t] # "out" /\ UNCHANGED group /\ Deliver
        BY <1>7 DEF ReadGroup, Deliver
    <2> QED BY <1>6, <2>1
<1>8. ASSUME NEW t \in Thread, Reclaim(t) PROVE Goal
    <2>1. ProcessBatch(t, Claimable) /\ pc[t] # "out" /\ UNCHANGED group
        BY <1>8 DEF Reclaim
    <2>2. Claimable \subseteq pending
        BY DEF Claimable, TypeOK
    <2> QED BY <1>6, <2>1, <2>2
<1>9. ASSUME NEW t \in Thread, Insert(t) \/ RecordBatch(t) \/ RecordBatchFails(t) PROVE Goal
    BY <1>0, <1>9 DEF Insert, RecordBatch, RecordBatchFails, redis, Held
<1>10. ASSUME TimePasses PROVE Goal
    BY <1>10 DEF TimePasses, threads, Held
<1>11. ASSUME UNCHANGED vars PROVE Goal
    BY <1>11 DEF vars, threads, redis, Held
<1>12. Goal
    BY <1>1, <1>2, <1>3, <1>4, <1>5, <1>7, <1>8, <1>9, <1>10, <1>11 DEF Next, Work, Disturbed
<1>13. ASSUME NEW u \in Thread
       PROVE  \/ batch'[u] = batch[u]
              \/ batch'[u] = {}
              \/ Deliver /\ batch'[u] = NextEntries
              \/ batch'[u] \subseteq pending
    BY <1>12 DEF Held
<1> QED BY <1>12, <1>13

\* Nobody holds, and the list does not contain, what the group has not delivered.
LEMMA StepInGroup == IngestInv /\ [Next]_vars => InGroup'
<1> SUFFICES ASSUME IngestInv, [Next]_vars PROVE InGroup'
    OBVIOUS
<1> USE DEF IngestInv
<1>1. TypeOK /\ TypeOK'
    BY StepTypeOK
<1>2. ASSUME ~group' PROVE last' = 0 /\ \A t \in Thread : pc'[t] = "out"
    <2>1. ~group /\ pc' = pc
        BY <1>2, BatchStep
    <2>2. last = 0 /\ \A t \in Thread : pc[t] = "out"
        BY <2>1 DEF InGroup
    <2>3. last' = last \/ Deliver
        BY <1>2, <2>1, PendingStep
    <2>4. ~Deliver
        <3>1. ASSUME Deliver PROVE FALSE
            <4>1. last' # last /\ UNCHANGED up
                <5>1. last < last' /\ last \in Nat /\ last' \in Nat
                    BY <3>1, DeliverRange, <1>1 DEF TypeOK
                <5> QED BY <3>1, <5>1 DEF Deliver
            <4>2. \E t \in Thread : ReadGroup(t) \/ ReadGroupLost(t)
                BY <4>1, <2>1, <1>2 DEF Next, vars, redis, Submit, SubmitFails, Resend, Start, Stop, Exit, Crash,
                    Work, Disturbed, Leave, Reclaim, Insert, InsertRejected, RecordBatch, Ack,
                    InsertFails, RecordBatchFails, AckFails, TimePasses
            <4> QED BY <4>2, <2>2 DEF ReadGroup, ReadGroupLost
        <3> QED BY <3>1
    <2> QED BY <2>1, <2>2, <2>3, <2>4
<1>3. CASE UNCHANGED <<group, start, last, pending>>
    <2>1. ~Deliver
        <3>1. ASSUME Deliver PROVE FALSE
            <4>1. last < last' /\ last \in Nat /\ last' \in Nat
                BY <3>1, DeliverRange, <1>1 DEF TypeOK
            <4> QED BY <1>3, <4>1
        <3> QED BY <3>1
    <2> QED BY <1>2, <1>3, <2>1, BatchStep DEF InGroup
<1>4. CASE ~group /\ group' /\ start' = last' /\ last' = Len(stream) /\ UNCHANGED pending
    <2>1. pending = {} /\ \A t \in Thread : batch[t] = {}
        BY <1>1, <1>4 DEF InGroup, TypeOK
    <2>2. ~Deliver
        BY <1>4 DEF Deliver
    <2> QED BY <1>2, <1>4, <2>1, <2>2, BatchStep DEF InGroup
<1>5. CASE Deliver
    <2>1. /\ NextEntries = (last + 1)..last' /\ pending' = pending \cup NextEntries /\ start' = start
          /\ last' \in Nat /\ last < last'
        BY <1>1, <1>5, DeliverRange DEF Deliver
    <2>2. NextEntries \subseteq (start + 1)..last' /\ (start + 1)..last \subseteq (start + 1)..last'
        BY <1>1, <2>1 DEF TypeOK
    <2> QED BY <1>2, <2>1, <2>2, BatchStep DEF InGroup
<1>6. CASE /\ UNCHANGED <<stream, rows, group, start, last>>
           /\ \E t \in Thread : pc[t] = "ack" /\ pending' = pending \ batch[t]
    <2>1. ~Deliver
        BY <1>1, <1>6, DeliverRange DEF TypeOK
    <2> QED BY <1>2, <1>6, <2>1, BatchStep DEF InGroup
<1> QED BY <1>1, <1>3, <1>4, <1>5, <1>6, PendingStep

\* The invariant holds before the first XADD.
LEMMA InitIngestInv == Init => IngestInv
<1> SUFFICES ASSUME Init PROVE IngestInv
    OBVIOUS
<1>1. TypeOK
    BY InitTypeOK
<1>2. NothingLost /\ CountedOnce /\ Phases /\ InGroup
    BY DEF Init, NothingLost, CountedOnce, Phases, InGroup
<1> QED BY <1>1, <1>2 DEF IngestInv

\* Every step keeps the invariant.
LEMMA StepIngestInv == IngestInv /\ [Next]_vars => IngestInv'
    BY StepTypeOK, StepNothingLost, StepCountedOnce, StepPhases, StepInGroup DEF IngestInv

\* The inductive invariant: the ingest properties, the phases of processBatch and the
\* range of the pending list.
THEOREM IngestInvariant == Spec => []IngestInv
    BY InitIngestInv, StepIngestInv, PTL DEF Spec

\* An entry leaves the pending list only with its row in Postgres, or malformed.
THEOREM IngestLosesNothing == Spec => []NothingLost
<1>1. IngestInv => NothingLost
    BY DEF IngestInv
<1> QED BY <1>1, IngestInvariant, PTL

\* Redeliveries, claims and re-sent XADDs never count an event twice.
THEOREM RealtimeCountsOnce == Spec => []CountedOnce
<1>1. IngestInv => CountedOnce
    BY DEF IngestInv
<1> QED BY <1>1, IngestInvariant, PTL

\* What has been acknowledged is never delivered again.
THEOREM AcknowledgedForGood == Spec => SettledForGood
<1>1. IngestInv /\ [Next]_vars => [\A i \in 1..last : i \notin pending => i \notin pending']_vars
    <2> SUFFICES ASSUME IngestInv, [Next]_vars, NEW i \in 1..last, i \notin pending
                 PROVE  i \notin pending'
        OBVIOUS
    <2>1. TypeOK
        BY DEF IngestInv
    <2>2. CASE Deliver
        BY <2>1, <2>2, DeliverRange DEF Deliver, TypeOK
    <2>3. pending' \subseteq pending \/ Deliver
        BY <2>1, PendingStep
    <2> QED BY <2>2, <2>3
<1> QED BY <1>1, IngestInvariant, PTL DEF Spec, SettledForGood

----------------------------------------------------------------------------
(* Collector implements TraceLog *)

Entries     == {<<i, stream[i]>> : i \in Accepted}
Outstanding == pending \cup {i \in Accepted : last < i}
Reported    == {e \in Event : counted[e] > 0}
LogStep     == [Log!Next]_<<Entries, Outstanding, rows, Reported>>

\* The empty stream is the empty log.
LEMMA InitLog == Init => Log!Init
    BY DEF Init, Log!Init, Accepted

\* An appended entry is accepted, if the group is there to see it.
LEMMA AppendLog ==
    ASSUME IngestInv, NEW e \in Event, stream' = Append(stream, e),
           UNCHANGED <<group, start, last, pending, rows, counted>>
    PROVE  LogStep
<1> USE DEF IngestInv
<1> DEFINE n == Len(stream) + 1
<1>1. /\ Len(stream) \in Nat /\ Len(stream') = n /\ stream'[n] = e
      /\ \A i \in 1..Len(stream) : stream'[i] = stream[i]
    BY AppendKeeps DEF TypeOK
<1>2. Reported' = Reported
    BY DEF Reported
<1>3. CASE ~group
    BY <1>2, <1>3 DEF LogStep, Entries, Outstanding, Accepted
<1>4. CASE group
    <2>1. Accepted = (start + 1)..Len(stream) /\ Accepted' = (start + 1)..n
        BY <1>1, <1>4 DEF Accepted
    <2>2. Accepted' = Accepted \cup {n} /\ Accepted \subseteq 1..Len(stream)
        BY <1>1, <2>1 DEF TypeOK
    <2>3. Entries' = Entries \cup {<<n, e>>}
        BY <1>1, <2>2 DEF Entries
    <2>4. Outstanding' = Outstanding \cup {n}
        BY <1>1, <2>2 DEF Outstanding, TypeOK
    <2>5. \A x \in Entries : x[1] < n
        BY <1>1, <2>2 DEF Entries
    <2>6. <<n, e>>[1] = n /\ <<n, e>>[2] = e /\ n \in Nat
        BY <1>1
    <2> DEFINE y == <<n, e>>
    <2> HIDE DEF n
    <2>7. y[1] \in Nat /\ y[2] \in Event /\ y[1] = n
        BY <2>6
    <2> HIDE DEF y
    <2>8. Entries' = Entries \cup {y}
        BY <2>3 DEF y
    <2>9. Log!Accept(y)
        BY <1>2, <2>4, <2>5, <2>7, <2>8 DEF Log!Accept, Entries, Outstanding, Reported
    <2>10. y \in Entries'
        BY <2>8
    <2>11. Log!Next
        BY <2>9, <2>10 DEF Log!Next, Log!Accept, Entries
    <2> QED BY <2>11 DEF LogStep
<1> QED BY <1>3, <1>4

\* The rows of a batch that Postgres accepts belong to outstanding entries.
LEMMA StoreLog ==
    ASSUME IngestInv, NEW t \in Thread, CopyAccepts(batch[t]),
           rows' = rows \cup Rows(batch[t]),
           UNCHANGED <<stream, group, start, last, pending, counted>>
    PROVE  LogStep
<1> USE DEF IngestInv
<1> DEFINE R == Rows(batch[t])
<1>1. Entries' = Entries /\ Outstanding' = Outstanding /\ Reported' = Reported
    BY DEF Entries, Outstanding, Reported, Accepted
<1>2. R \in SUBSET Event /\ R \cap (rows \cup Malformed) = {}
    BY DEF Rows, Decoded, TypeOK, CopyAccepts
<1>3. ASSUME NEW e \in R PROVE \E x \in Entries : x[2] = e /\ x[1] \in Outstanding
    <2>1. PICK i \in batch[t] : stream[i] = e /\ e \notin Malformed
        BY DEF Rows, Decoded
    <2>2. i \in (start + 1)..last
        BY DEF InGroup
    <2>3. i \in pending
        BY <1>2, <2>1, <2>2 DEF NothingLost
    <2>4. group /\ i \in (start + 1)..Len(stream)
        BY <2>2 DEF InGroup, TypeOK
    <2>5. <<i, e>> \in Entries
        BY <2>1, <2>4 DEF Entries, Accepted
    <2> QED BY <2>3, <2>5 DEF Outstanding
<1>4. Log!Store(R)
    BY <1>1, <1>2, <1>3 DEF Log!Store, Entries, Outstanding, Reported
<1> QED BY <1>2, <1>4 DEF LogStep, Log!Next

\* The counters are bumped for stored events nobody has reported.
LEMMA ReportLog ==
    ASSUME IngestInv, NEW t \in Thread, pc[t] = "count", NEW S \in SUBSET Rows(batch[t]), Bump(S),
           UNCHANGED <<stream, group, start, last, pending, rows>>
    PROVE  LogStep
<1> USE DEF IngestInv
<1>1. Entries' = Entries /\ Outstanding' = Outstanding
    BY DEF Entries, Outstanding, Accepted
<1>2. \A e \in S : e \in rows /\ e \in Event /\ counted[e] = 0
    BY DEF Phases, TypeOK
<1>3. \A e \in Event : counted'[e] = IF e \in S THEN counted[e] + 1 ELSE counted[e]
    BY DEF Bump
<1>4. Reported' = Reported \cup S /\ S \in SUBSET Event /\ S \subseteq rows \ Reported
    BY <1>2, <1>3 DEF Reported, TypeOK
<1>5. Log!Report(S)
    BY <1>1, <1>4 DEF Log!Report, Entries, Outstanding, Reported
<1> QED BY <1>4, <1>5 DEF LogStep, Log!Next

\* XACK settles entries that are stored or malformed.
LEMMA SettleLog ==
    ASSUME IngestInv, NEW t \in Thread, pc[t] = "ack", pending' = pending \ batch[t],
           UNCHANGED <<stream, group, start, last, rows, counted>>
    PROVE  LogStep
<1> USE DEF IngestInv
<1> DEFINE S == pending \cap batch[t]
<1>1. Entries' = Entries /\ Reported' = Reported
    BY DEF Entries, Reported, Accepted
<1>2. Outstanding' = Outstanding \ S
    <2>1. \A i \in Accepted : last < i => i \notin S
        BY DEF TypeOK, Accepted
    <2> QED BY <2>1 DEF Outstanding, Accepted
<1>3. S \in SUBSET Outstanding
    BY DEF Outstanding
<1>4. \A x \in Entries : x[1] \in S => x[2] \in rows \cup Malformed
    BY DEF Entries, Phases, Rows, Decoded
<1>5. Log!Settle(S)
    BY <1>1, <1>2, <1>3, <1>4 DEF Log!Settle, Entries, Outstanding, Reported
<1> HIDE DEF S
<1>6. Log!Next
    BY <1>3, <1>5 DEF Log!Next, Log!Settle, Outstanding
<1> QED BY <1>6 DEF LogStep

\* Delivery moves entries to the pending list; to the log they are outstanding as before.
LEMMA DeliverLog == ASSUME IngestInv, group, Deliver PROVE LogStep
<1> USE DEF IngestInv
<1>1. NextEntries = (last + 1)..last' /\ last' \in Nat /\ last < last' /\ last' <= Len(stream)
    BY DeliverRange
<1>2. Entries' = Entries /\ Reported' = Reported /\ rows' = rows /\ Accepted' = Accepted
    BY DEF Deliver, Entries, Reported, Accepted
<1>4. Outstanding' = Outstanding
    <2>1. Accepted = (start + 1)..Len(stream) /\ pending' = pending \cup NextEntries
        BY DEF Accepted, Deliver
    <2> QED BY <1>1, <1>2, <2>1 DEF Outstanding, TypeOK
<1> QED BY <1>2, <1>4 DEF LogStep

\* A step that changes none of what the log is made of.
LEMMA StutterLog ==
    ASSUME IngestInv, UNCHANGED <<stream, group, start, last, pending, rows, counted>>
    PROVE  LogStep
    BY DEF LogStep, Entries, Outstanding, Reported, Accepted

\* Every step of the collectors, proxies and faults is a step of the log or a stutter.
LEMMA StepLog == IngestInv /\ [Next]_vars => LogStep
<1> SUFFICES ASSUME IngestInv, [Next]_vars PROVE LogStep
    OBVIOUS
<1>0. ASSUME NEW t \in Thread, pc[t] # "out" PROVE group
    BY <1>0 DEF IngestInv, InGroup
<1>1. ASSUME NEW e \in Event, Submit(e) \/ Resend(e) PROVE LogStep
    <2>1. stream' = Append(stream, e) /\ UNCHANGED <<group, start, last, pending, rows, counted>>
        BY <1>1 DEF Submit, Resend
    <2> QED BY <2>1, AppendLog
<1>2. ASSUME NEW e \in Event, SubmitFails(e) PROVE LogStep
    BY <1>2, StutterLog DEF SubmitFails, redis
<1>3. ASSUME NEW c \in Collector, Start(c) PROVE LogStep
    <2>1. CASE group
        <3>1. group' = group
            BY <1>3, <2>1 DEF Start, IngestInv, TypeOK
        <3> QED BY <1>3, <2>1, <3>1, StutterLog DEF Start
    <2>2. CASE ~group
        <3>1. pending = {} /\ Accepted = {} /\ Len(stream) \in Nat
            BY <2>2 DEF IngestInv, InGroup, TypeOK, Accepted
        <3>2. Accepted' = {}
            BY <1>3, <2>2, <3>1 DEF Start, Accepted
        <3>3. Entries' = Entries /\ Outstanding' = Outstanding
            BY <1>3, <3>1, <3>2 DEF Start, Entries, Outstanding
        <3>4. rows' = rows /\ Reported' = Reported
            BY <1>3 DEF Start, Reported
        <3> QED BY <3>3, <3>4 DEF LogStep
    <2> QED BY <2>1, <2>2
<1>4. ASSUME NEW c \in Collector, Stop(c) \/ Exit(c) \/ Crash(c) PROVE LogStep
    BY <1>4, StutterLog DEF Stop, Exit, Crash, redis
<1>5. ASSUME NEW t \in Thread, ReadGroup(t) \/ ReadGroupLost(t) PROVE LogStep
    <2>1. Deliver /\ pc[t] # "out"
        BY <1>5 DEF ReadGroup, ReadGroupLost
    <2> QED BY <1>0, <2>1, DeliverLog
<1>6. ASSUME NEW t \in Thread, Leave(t) \/ Reclaim(t) \/ InsertRejected(t) \/ AckFails(t)
      PROVE  LogStep
    BY <1>6, StutterLog DEF Leave, Reclaim, InsertRejected, AckFails, redis
<1>7. CASE TimePasses
    BY <1>7, StutterLog DEF TimePasses
<1>8. ASSUME NEW t \in Thread, Insert(t) PROVE LogStep
    <2>1. /\ CopyAccepts(batch[t]) /\ rows' = rows \cup Rows(batch[t])
          /\ UNCHANGED <<stream, group, start, last, pending, counted>>
        BY <1>8 DEF Insert, redis
    <2> QED BY <2>1, StoreLog
<1>9. ASSUME NEW t \in Thread, InsertFails(t) PROVE LogStep
    <2>1. UNCHANGED <<stream, group, start, last, pending, counted>>
        BY <1>9 DEF InsertFails, redis
    <2>2. CASE UNCHANGED rows
        BY <2>1, <2>2, StutterLog
    <2>3. CASE CopyAccepts(batch[t]) /\ rows' = rows \cup Rows(batch[t])
        BY <2>1, <2>3, StoreLog
    <2> QED BY <1>9, <2>2, <2>3 DEF InsertFails
<1>10. ASSUME NEW t \in Thread, RecordBatch(t) \/ RecordBatchFails(t) PROVE LogStep
    <2>1. pc[t] = "count" /\ UNCHANGED <<stream, group, start, last, pending, rows>>
        BY <1>10 DEF RecordBatch, RecordBatchFails, redis
    <2>2. PICK S \in SUBSET Rows(batch[t]) : Bump(S)
        BY <1>10 DEF RecordBatch, RecordBatchFails
    <2> QED BY <2>1, <2>2, ReportLog
<1>11. ASSUME NEW t \in Thread, Ack(t) PROVE LogStep
    <2>1. /\ pc[t] = "ack" /\ pending' = pending \ batch[t]
          /\ UNCHANGED <<stream, group, start, last, rows, counted>>
        BY <1>11 DEF Ack
    <2> QED BY <2>1, SettleLog
<1>12. CASE UNCHANGED vars
    BY <1>12, StutterLog DEF vars, redis
<1> QED BY <1>1, <1>2, <1>3, <1>4, <1>5, <1>6, <1>7, <1>8, <1>9, <1>10, <1>11, <1>12
        DEF Next, Work, Disturbed

\* Two loops per process, any number of processes, crashes, shutdowns and lost
\* replies: to the outside it is one log that stores each accepted event once.
THEOREM CollectorImplementsTraceLog == Spec => ImplementsLog
<1>1. LogStep => [Log!Next]_(Log!vars)
    BY DEF LogStep, Log!vars, Entries, Outstanding, Reported
<1> QED BY <1>1, InitLog, StepLog, IngestInvariant, PTL DEF Spec, ImplementsLog, Log!Spec

=============================================================================
