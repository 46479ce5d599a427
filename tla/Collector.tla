------------------------------ MODULE Collector ------------------------------
(***************************************************************************)
(* The ingest path of ailens360: proxies XADD finalized events to a Redis  *)
(* stream; collector processes of one consumer group read them, COPY the   *)
(* rows into Postgres, bump the realtime counters and XACK.                *)
(*                                                                         *)
(* A collector runs two goroutines that share its context: readLoop        *)
(* (XREADGROUP ">") and claimLoop (XAUTOCLAIM of entries idle for longer   *)
(* than PendingIdleMax).  Both hand their messages to processBatch, whose  *)
(* COPY, realtime pipeline and XACK are separate steps here: every other   *)
(* goroutine, a shutdown or a crash may come between two of them.          *)
(*                                                                         *)
(* An entry of the stream is known by its position, which is the order of  *)
(* its stream ID.  Who owns a pending entry is left out: XAUTOCLAIM and    *)
(* XACK never ask.                                                         *)
(***************************************************************************)
EXTENDS Naturals, Sequences, FiniteSets

CONSTANTS
    Event,       \* the trace events the proxies submit, each with its own ID
    Malformed,   \* events whose stream entry decodeEvent rejects
    Unstorable,  \* events whose row Postgres rejects (no partition for its month...)
    Collector,   \* the collector processes
    BatchSize,   \* COUNT of XREADGROUP and XAUTOCLAIM
    MaxFaults,   \* bound: crashes and failed calls in one behaviour
    MaxStops     \* bound: graceful shutdowns in one behaviour

ASSUME ConstantsOK ==
    /\ IsFiniteSet(Event)
    /\ Malformed \subseteq Event
    /\ Unstorable \subseteq Event
    /\ BatchSize \in Nat \ {0}
    /\ MaxFaults \in Nat
    /\ MaxStops \in Nat

VARIABLES
    submitted,  \* events whose Submit has run its first XADD
    stream,     \* the entries of the Redis stream; nothing ever trims it
    group,      \* the consumer group exists
    start,      \* stream length when the group was created at "$"
    last,       \* last-delivered position of the group
    pending,    \* the group's Pending Entries List
    idle,       \* pending entries idle for longer than PendingIdleMax
    rows,       \* events with a row in traces
    counted,    \* how often the realtime counters were bumped for an event
    up,         \* state of each collector process
    pc,         \* where each goroutine is
    batch,      \* the entries a goroutine is processing
    detached,   \* opCtx of that batch is the background context
    faults,     \* faults spent
    stops       \* shutdowns spent

redis    == <<stream, group, start, last, pending, idle>>
postgres == <<rows>>
threads  == <<pc, batch, detached>>
budget   == <<faults, stops>>
vars == <<submitted, redis, rows, counted, up, threads, budget>>

Loop   == {"read", "claim"}
Thread == Collector \X Loop

TypeOK ==
    /\ submitted \subseteq Event
    /\ stream \in Seq(Event)
    /\ group \in BOOLEAN
    /\ start \in Nat /\ last \in Nat
    /\ start <= last /\ last <= Len(stream)
    /\ pending \subseteq 1..last
    /\ idle \subseteq pending
    /\ rows \subseteq Event
    /\ counted \in [Event -> Nat]
    /\ up \in [Collector -> {"down", "running", "stopping"}]
    /\ pc \in [Thread -> {"loop", "insert", "count", "ack", "out"}]
    /\ batch \in [Thread -> SUBSET (1..last)]
    /\ detached \in [Thread -> BOOLEAN]
    /\ faults \in 0..MaxFaults
    /\ stops \in 0..MaxStops

Init ==
    /\ submitted = {}
    /\ stream = <<>>
    /\ group = FALSE
    /\ start = 0
    /\ last = 0
    /\ pending = {}
    /\ idle = {}
    /\ rows = {}
    /\ counted = [e \in Event |-> 0]
    /\ up = [c \in Collector |-> "down"]
    /\ pc = [t \in Thread |-> "out"]
    /\ batch = [t \in Thread |-> {}]
    /\ detached = [t \in Thread |-> FALSE]
    /\ faults = 0
    /\ stops = 0

\* One more call may fail, or one more process crash.
Fault ==
    /\ faults < MaxFaults
    /\ faults' = faults + 1
    /\ UNCHANGED stops

----------------------------------------------------------------------------
(* StreamSink.Submit in the proxy *)

Submit(e) ==
    /\ e \notin submitted
    /\ submitted' = submitted \cup {e}
    /\ stream' = Append(stream, e)
    /\ UNCHANGED <<group, start, last, pending, idle, rows, counted, up, threads, budget>>

\* XADD fails: logged, and the trace is gone.
SubmitFails(e) ==
    /\ e \notin submitted
    /\ submitted' = submitted \cup {e}
    /\ Fault
    /\ UNCHANGED <<redis, rows, counted, up, threads>>

\* The reply of an XADD that was applied is lost and the Redis client sends it
\* again: the same event under a second stream ID.
Resend(e) ==
    /\ \E i \in 1..Len(stream) :
           /\ stream[i] = e
           /\ \A j \in 1..Len(stream) : stream[j] = e => j = i
    /\ stream' = Append(stream, e)
    /\ Fault
    /\ UNCHANGED <<submitted, group, start, last, pending, idle, rows, counted, up, threads>>

----------------------------------------------------------------------------
(* The process: Start, Stop, crash *)

\* ensureGroup creates the group at "$", the end of the stream; a group that is
\* there already (BUSYGROUP) is left as it is.
Start(c) ==
    /\ up[c] = "down"
    /\ up' = [up EXCEPT ![c] = "running"]
    /\ pc' = [t \in Thread |-> IF t[1] = c THEN "loop" ELSE pc[t]]
    /\ group' = TRUE
    /\ IF group THEN UNCHANGED <<start, last>>
                ELSE start' = Len(stream) /\ last' = Len(stream)
    /\ UNCHANGED <<submitted, stream, pending, idle, rows, counted, batch, detached, budget>>

\* Stop cancels the context both goroutines run under...
Stop(c) ==
    /\ up[c] = "running"
    /\ stops < MaxStops
    /\ stops' = stops + 1
    /\ up' = [up EXCEPT ![c] = "stopping"]
    /\ UNCHANGED <<submitted, redis, rows, counted, threads, faults>>

\* ... and returns when they have.
Exit(c) ==
    /\ up[c] = "stopping"
    /\ \A l \in Loop : pc[<<c, l>>] = "out"
    /\ up' = [up EXCEPT ![c] = "down"]
    /\ UNCHANGED <<submitted, redis, rows, counted, threads, budget>>

\* A crash forgets what the goroutines hold; Redis and Postgres keep theirs.
Crash(c) ==
    /\ up[c] # "down"
    /\ Fault
    /\ up' = [up EXCEPT ![c] = "down"]
    /\ pc' = [t \in Thread |-> IF t[1] = c THEN "out" ELSE pc[t]]
    /\ batch' = [t \in Thread |-> IF t[1] = c THEN {} ELSE batch[t]]
    /\ detached' = [t \in Thread |-> IF t[1] = c THEN FALSE ELSE detached[t]]
    /\ UNCHANGED <<submitted, redis, rows, counted>>

----------------------------------------------------------------------------
(* readLoop and claimLoop *)

\* The part of a batch that decodes, and the rows it becomes.
Decoded(B) == {i \in B : stream[i] \notin Malformed}
Rows(B)    == {stream[i] : i \in Decoded(B)}

\* The goroutine is back at the top of its loop, where it looks at the context.
Return(t) ==
    /\ pc' = [pc EXCEPT ![t] = IF up[t[1]] = "stopping" THEN "out" ELSE "loop"]
    /\ batch' = [batch EXCEPT ![t] = {}]
    /\ detached' = [detached EXCEPT ![t] = FALSE]

\* "loop" spans the check of the context and the Redis call.  When Stop cancels, the
\* goroutine leaves; a call in flight at that moment may still bring messages back.
Leave(t) ==
    /\ pc[t] = "loop"
    /\ up[t[1]] = "stopping"
    /\ Return(t)
    /\ UNCHANGED <<submitted, redis, rows, counted, up, budget>>

\* processBatch decodes (malformed messages are only acknowledged) and picks opCtx:
\* a fresh background context if the loop's context is cancelled by now.
ProcessBatch(t, B) ==
    /\ batch' = [batch EXCEPT ![t] = B]
    /\ detached' = [detached EXCEPT ![t] = up[t[1]] = "stopping"]
    /\ pc' = [pc EXCEPT ![t] = IF Decoded(B) = {} THEN "ack" ELSE "insert"]

\* Mutant: the read position is taken as inclusive.
NextEntriesInclusive == {i \in 1..Len(stream) : last <= i /\ i <= last + BatchSize}

\* The undelivered entries XREADGROUP ">" returns, at most BatchSize.
NextEntries == {i \in 1..Len(stream) : last < i /\ i <= last + BatchSize}

\* Mutant: the read position is advanced by COUNT, not by what was returned.
DeliverPastEnd ==
    /\ NextEntries # {}
    /\ last' = last + BatchSize
    /\ pending' = pending \cup NextEntries
    /\ UNCHANGED <<submitted, stream, group, start, idle, rows, counted, up>>

Deliver ==
    /\ NextEntries # {}
    /\ last' = IF last + BatchSize <= Len(stream) THEN last + BatchSize ELSE Len(stream)
    /\ pending' = pending \cup NextEntries
    /\ UNCHANGED <<submitted, stream, group, start, idle, rows, counted, up>>

ReadGroup(t) ==
    /\ pc[t] = "loop" /\ t[2] = "read"
    /\ Deliver
    /\ ProcessBatch(t, NextEntries)
    /\ UNCHANGED budget

\* XREADGROUP was served and its reply lost: the entries are pending, nobody has them.
ReadGroupLost(t) ==
    /\ pc[t] = "loop" /\ t[2] = "read"
    /\ Deliver
    /\ Fault
    /\ Return(t)

\* Mutant: XAUTOCLAIM starts at the group's last position instead of "0-0".
ClaimableFromLast == {i \in idle : i >= last}

\* The first BatchSize idle entries: XAUTOCLAIM always starts at "0-0".
Claimable == {i \in idle : Cardinality({j \in idle : j < i}) < BatchSize}

Reclaim(t) ==
    /\ pc[t] = "loop" /\ t[2] = "claim"
    /\ Claimable # {}
    /\ idle' = idle \ Claimable
    /\ ProcessBatch(t, Claimable)
    /\ UNCHANGED <<submitted, stream, group, start, last, pending, rows, counted, up, budget>>

\* PendingIdleMax passes without a delivery, whatever is being done about the entries.
TimePasses ==
    /\ idle # pending
    /\ idle' = pending
    /\ UNCHANGED <<submitted, stream, group, start, last, pending, rows, counted, up, threads, budget>>

----------------------------------------------------------------------------
(* processBatch: COPY, then the realtime counters, then XACK *)

\* opCtx is not cancelled.
Live(t) == up[t[1]] = "running" \/ detached[t]

\* Mutant: duplicates are swallowed (ON CONFLICT DO NOTHING) but still counted.
CopyAcceptsDuplicates(B) == Rows(B) \cap Unstorable = {}

\* COPY is all or nothing, under PRIMARY KEY (id, created_at).
CopyAccepts(B) ==
    /\ \A i, j \in Decoded(B) : stream[i] = stream[j] => i = j
    /\ Rows(B) \cap (rows \cup Unstorable) = {}

Insert(t) ==
    /\ pc[t] = "insert"
    /\ Live(t)
    /\ CopyAccepts(batch[t])
    /\ rows' = rows \cup Rows(batch[t])
    /\ pc' = [pc EXCEPT ![t] = "count"]
    /\ UNCHANGED <<submitted, redis, counted, up, batch, detached, budget>>

\* Mutant: processBatch carries on to XACK after a failed insert.
RejectedThenAcked(t) ==
    /\ pc[t] = "insert"
    /\ ~CopyAccepts(batch[t])
    /\ pc' = [pc EXCEPT ![t] = "ack"]
    /\ UNCHANGED <<submitted, redis, rows, counted, up, batch, detached, budget>>

\* Postgres refuses the COPY: no counters, no XACK, the entries stay pending.
InsertRejected(t) ==
    /\ pc[t] = "insert"
    /\ ~CopyAccepts(batch[t])
    /\ Return(t)
    /\ UNCHANGED <<submitted, redis, rows, counted, up, budget>>

\* The COPY returns an error (database away, context cancelled); it may have been
\* committed all the same.
InsertFails(t) ==
    /\ pc[t] = "insert"
    /\ IF Live(t) THEN Fault ELSE UNCHANGED budget
    /\ \/ UNCHANGED rows
       \/ CopyAccepts(batch[t]) /\ rows' = rows \cup Rows(batch[t])
    /\ Return(t)
    /\ UNCHANGED <<submitted, redis, counted, up>>

Bump(S) == counted' = [e \in Event |-> IF e \in S THEN counted[e] + 1 ELSE counted[e]]

\* Mutant: RecordBatch is called before the insert is known to have worked.
CountedWhateverHappens(t) ==
    /\ pc[t] \in {"insert", "count"}
    /\ Bump(Rows(batch[t]))
    /\ pc' = [pc EXCEPT ![t] = IF pc[t] = "count" THEN "ack" ELSE "insert"]
    /\ UNCHANGED <<submitted, redis, rows, up, batch, detached, budget>>

RecordBatch(t) ==
    /\ pc[t] = "count"
    /\ Live(t)
    /\ Bump(Rows(batch[t]))
    /\ pc' = [pc EXCEPT ![t] = "ack"]
    /\ UNCHANGED <<submitted, redis, rows, up, batch, detached, budget>>

\* The pipeline fails, wholly or part way: logged, and the batch is still acknowledged.
RecordBatchFails(t) ==
    /\ pc[t] = "count"
    /\ IF Live(t) THEN Fault ELSE UNCHANGED budget
    /\ \E S \in SUBSET Rows(batch[t]) : Bump(S)
    /\ pc' = [pc EXCEPT ![t] = "ack"]
    /\ UNCHANGED <<submitted, redis, rows, up, batch, detached>>

Ack(t) ==
    /\ pc[t] = "ack"
    /\ Live(t)
    /\ pending' = pending \ batch[t]
    /\ idle' = idle \ batch[t]
    /\ Return(t)
    /\ UNCHANGED <<submitted, stream, group, start, last, rows, counted, up, budget>>

\* A failed XACK is only logged.
AckFails(t) ==
    /\ pc[t] = "ack"
    /\ IF Live(t) THEN Fault ELSE UNCHANGED budget
    /\ Return(t)
    /\ UNCHANGED <<submitted, redis, rows, counted, up>>

----------------------------------------------------------------------------

\* What a goroutine does when nothing disturbs it.
Work(t) ==
    \/ Leave(t) \/ ReadGroup(t) \/ Reclaim(t)
    \/ Insert(t) \/ InsertRejected(t) \/ RecordBatch(t) \/ Ack(t)

Disturbed(t) ==
    \/ ReadGroupLost(t) \/ InsertFails(t) \/ RecordBatchFails(t) \/ AckFails(t)

Next ==
    \/ \E e \in Event : Submit(e) \/ SubmitFails(e) \/ Resend(e)
    \/ \E c \in Collector : Start(c) \/ Stop(c) \/ Exit(c) \/ Crash(c)
    \/ \E t \in Thread : Work(t) \/ Disturbed(t)
    \/ TimePasses

Spec == Init /\ [][Next]_vars

(***************************************************************************)
(* Fairness.  Goroutines are scheduled and their calls return, so a        *)
(* goroutine always takes its next step (a call on a cancelled context     *)
(* fails, which is a step too); time passes for pending entries; a stopped *)
(* process exits; the compose file restarts a process that is down         *)
(* (restart: unless-stopped).  Faults and shutdowns happen or do not.      *)
(***************************************************************************)
Fairness ==
    /\ \A t \in Thread :
           /\ WF_vars(Work(t))
           /\ WF_vars(~Live(t) /\ Disturbed(t))
    /\ \A c \in Collector : WF_vars(Start(c)) /\ WF_vars(Exit(c))
    /\ WF_vars(TimePasses)

FairSpec == Spec /\ Fairness

----------------------------------------------------------------------------
(* Properties *)

\* Every entry the group has delivered is pending, or it was malformed, or its row
\* is in Postgres: processBatch never acknowledges what it did not store.
NothingLost ==
    \A i \in (start + 1)..last :
        i \in pending \/ stream[i] \in Malformed \cup rows

\* However often an entry is redelivered, claimed from a slow collector or sent
\* twice, the realtime counters are bumped at most once for an event, and never for
\* an event without a row ("so we don't double-count later", consumer.go).
CountedOnce ==
    \A e \in Event : counted[e] <= (IF e \in rows THEN 1 ELSE 0)

\* Once an entry has been acknowledged it is never delivered again.
SettledForGood == [][\A i \in 1..last : i \notin pending => i \notin pending']_vars

\* A pending entry whose row Postgres will always refuse: its event is stored
\* already, or unstorable, or pending a second time.
Poisoned(i) ==
    /\ stream[i] \notin Malformed
    /\ \/ stream[i] \in rows \cup Unstorable
       \/ \E j \in pending : j # i /\ stream[j] = stream[i]

Wedged == \E i \in pending : Poisoned(i)

Covered(e) == group /\ \E i \in 1..Len(stream) : i > start /\ stream[i] = e

\* Unless the pending list holds a poisoned entry for good, every event the group
\* covers gets its row and every entry is acknowledged, through crashes, shutdowns,
\* lost replies and claims of entries that are still being processed.
StoredUnlessWedged ==
    \/ <>[]Wedged
    \/ /\ \A e \in Event \ (Malformed \cup Unstorable) : Covered(e) ~> e \in rows
       /\ <>[](pending = {})

\* What the comment in processBatch and docs/architecture.md promise of the pending
\* list: an entry whose insert failed gets another shot until it is stored.  Not true of
\* this code, TLC shows it: see the README.
EveryDeliveredStored ==
    \A e \in Event \ (Malformed \cup Unstorable) : Covered(e) ~> e \in rows

----------------------------------------------------------------------------
(* The inductive invariant behind NothingLost, CountedOnce and ImplementsLog *)

\* Whoever is past its COPY holds stored rows; before the counters are bumped nobody
\* has bumped them, and no second goroutine is about to.
Phases ==
    /\ \A t \in Thread : pc[t] \in {"count", "ack"} => Rows(batch[t]) \subseteq rows
    /\ \A t \in Thread : pc[t] = "count" => \A e \in Rows(batch[t]) : counted[e] = 0
    /\ \A t, u \in Thread :
           t # u /\ pc[t] = "count" /\ pc[u] = "count"
               => Rows(batch[t]) \cap Rows(batch[u]) = {}

\* Only what the group has delivered is pending or in somebody's hands.
InGroup ==
    /\ ~group => last = 0 /\ \A t \in Thread : pc[t] = "out"
    /\ pending \subseteq (start + 1)..last
    /\ \A t \in Thread : batch[t] \subseteq (start + 1)..last

IngestInv == TypeOK /\ NothingLost /\ CountedOnce /\ Phases /\ InGroup

----------------------------------------------------------------------------
(* The group as an exactly-once log: see TraceLog *)

Accepted == IF group THEN (start + 1)..Len(stream) ELSE {}

Log == INSTANCE TraceLog WITH
    entries     <- {<<i, stream[i]>> : i \in Accepted},
    outstanding <- pending \cup {i \in Accepted : last < i},
    stored      <- rows,
    reported    <- {e \in Event : counted[e] > 0}

\* Every step of readLoop, claimLoop, processBatch, a crash or a shutdown is a step
\* of that log or changes nothing of it.
ImplementsLog == Log!Spec

=============================================================================
