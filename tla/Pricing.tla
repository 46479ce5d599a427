-------------------------------- MODULE Pricing --------------------------------
(***************************************************************************)
(* The price tables.  Every api and every collector has a catalog, filled  *)
(* with seed prices, and a refresher: one load when the process starts,    *)
(* then one at each tick of a ticker.  A load takes the copy of the table  *)
(* in Redis, if it is there; else an api fetches the table from models.dev *)
(* and writes it to Redis with a TTL, and a collector, which has no        *)
(* source, keeps what it has.                                              *)
(*                                                                         *)
(* A table is the time at which the source gave it out.                    *)
(***************************************************************************)
EXTENDS Integers

CONSTANTS
    Api, Collector, \* the processes
    Interval,       \* between two ticks
    TTL,            \* of the copy in Redis
    LoadTime,       \* what a load takes at most: its context's timeout
    MaxTime,        \* bound: the clock
    MaxFaults       \* bound: failing calls, and stops of an api

Process == Api \cup Collector

ASSUME ProcessesOK == Api \cap Collector = {}

\* The timeout is 30 s and the interval 12 h by default, the TTL twice that or more.
ASSUME TimesOK ==
    /\ Interval \in Nat /\ TTL \in Nat /\ LoadTime \in Nat
    /\ LoadTime < Interval /\ 2 * Interval <= TTL
    /\ MaxTime \in Nat /\ MaxFaults \in Nat

VARIABLES
    now,
    pc,         \* where a process's refresher is
    began,      \* when its load began; 0 when there is none
    due,        \* when its ticker fires; 0: there is no ticker yet
    catalog,    \* its table
    warm,       \* the copy in Redis
    missed,     \* history: its loads in a row that got no table, or could not keep it
    faults      \* calls that failed, and stops of an api

vars == <<now, pc, began, due, catalog, warm, missed, faults>>

\* The seed prices are older than any table.
Seed == -1

TypeOK ==
    /\ now \in Nat /\ faults \in 0..MaxFaults
    /\ pc \in [Process -> {"down", "get", "fetch", "put", "idle"}]
    /\ began \in [Process -> Nat] /\ due \in [Process -> Nat]
    /\ catalog \in [Process -> Nat \cup {Seed}]
    /\ warm \in [table : Nat, until : Nat]
    /\ missed \in [Process -> Nat]
    /\ \A p \in Process : /\ catalog[p] <= now /\ began[p] <= now
                          /\ pc[p] = "idle" => now <= due[p]
                          /\ pc[p] \in {"fetch", "put"} => p \in Api

Init ==
    /\ now = 0
    /\ pc = [p \in Process |-> IF p \in Api THEN "get" ELSE "down"]
    /\ began = [p \in Process |-> 0] /\ due = [p \in Process |-> 0]
    /\ catalog = [p \in Process |-> Seed]
    /\ warm = [table |-> 0, until |-> 0]
    /\ missed = [p \in Process |-> 0]
    /\ faults = 0

----------------------------------------------------------------------------

Fault == faults < MaxFaults /\ faults' = faults + 1

Warm       == now < warm.until
Loading(p) == pc[p] \in {"get", "fetch", "put"}

\* NewCatalog and Refresher.Start.
Start(p) ==
    /\ pc[p] = "down"
    /\ pc' = [pc EXCEPT ![p] = "get"]
    /\ began' = [began EXCEPT ![p] = now]
    /\ UNCHANGED <<now, due, catalog, warm, missed, faults>>

\* Stop, or the process dies, in a load or between two.
Stop(p) ==
    /\ pc[p] # "down"
    /\ pc' = [pc EXCEPT ![p] = "down"]
    /\ began' = [began EXCEPT ![p] = 0] /\ due' = [due EXCEPT ![p] = 0]
    /\ catalog' = [catalog EXCEPT ![p] = Seed]
    /\ missed' = [missed EXCEPT ![p] = 0]
    /\ IF p \in Api THEN Fault ELSE UNCHANGED faults
    /\ UNCHANGED <<now, warm>>

\* loop: the ticker goes on while a load runs.
TickerFires(p) ==
    /\ pc[p] = "idle" /\ due[p] = now
    /\ pc' = [pc EXCEPT ![p] = "get"]
    /\ began' = [began EXCEPT ![p] = now]
    /\ due' = [due EXCEPT ![p] = now + Interval]
    /\ UNCHANGED <<now, catalog, warm, missed, faults>>

\* Mutant: Start creates no ticker.
LoadedForGood(p, ok) ==
    /\ pc' = [pc EXCEPT ![p] = "idle"]
    /\ began' = [began EXCEPT ![p] = 0]
    /\ missed' = [missed EXCEPT ![p] = IF ok THEN 0 ELSE @ + 1]
    /\ UNCHANGED <<now, due>>

\* loadOnce returns.  After the first load the ticker is created.
Loaded(p, ok) ==
    /\ pc' = [pc EXCEPT ![p] = "idle"]
    /\ due' = [due EXCEPT ![p] = IF @ = 0 THEN now + Interval ELSE @]
    /\ began' = [began EXCEPT ![p] = 0]
    /\ missed' = [missed EXCEPT ![p] = IF ok THEN 0 ELSE @ + 1]
    /\ UNCHANGED now

\* Mutant: a copy that was read lives on.
WarmHitRenews(p) ==
    /\ pc[p] = "get" /\ Warm
    /\ catalog' = [catalog EXCEPT ![p] = warm.table]
    /\ warm' = [warm EXCEPT !.until = now + TTL]
    /\ Loaded(p, TRUE)
    /\ UNCHANGED faults

WarmHit(p) ==
    /\ pc[p] = "get" /\ Warm
    /\ catalog' = [catalog EXCEPT ![p] = warm.table]
    /\ Loaded(p, TRUE)
    /\ UNCHANGED <<warm, faults>>

\* Mutant: a collector that finds no copy goes back to its seed prices.
FallbackToSeed(p) ==
    /\ IF p \in Api
       THEN pc' = [pc EXCEPT ![p] = "fetch"]
            /\ UNCHANGED <<now, began, due, catalog, missed>>
       ELSE Loaded(p, FALSE) /\ catalog' = [catalog EXCEPT ![p] = Seed]
    /\ UNCHANGED warm

\* An api goes on to its source; a collector has none.
Fallback(p) ==
    /\ IF p \in Api
       THEN pc' = [pc EXCEPT ![p] = "fetch"] /\ UNCHANGED <<now, began, due, missed>>
       ELSE Loaded(p, FALSE)
    /\ UNCHANGED <<catalog, warm>>

WarmMiss(p) ==
    /\ pc[p] = "get" /\ ~Warm
    /\ Fallback(p)
    /\ UNCHANGED faults

\* GET fails, or the copy does not decode.
WarmFails(p) ==
    /\ pc[p] = "get"
    /\ Fallback(p)
    /\ Fault

\* Mutant: an api whose fetch is done leaves Redis alone.
FetchOnly(p) ==
    /\ pc[p] = "fetch"
    /\ catalog' = [catalog EXCEPT ![p] = now]
    /\ Loaded(p, TRUE)
    /\ UNCHANGED <<warm, faults>>

Fetch(p) ==
    /\ pc[p] = "fetch"
    /\ catalog' = [catalog EXCEPT ![p] = now]
    /\ pc' = [pc EXCEPT ![p] = "put"]
    /\ UNCHANGED <<now, began, due, warm, missed, faults>>

\* No answer, no 2xx, no JSON, or no priced model in it: the catalog stays.
FetchFails(p) ==
    /\ pc[p] = "fetch"
    /\ Fault
    /\ Loaded(p, FALSE)
    /\ UNCHANGED <<catalog, warm>>

\* Mutant: the copy lives for half an interval.
WriteBackBriefly(p) ==
    /\ pc[p] = "put"
    /\ warm' = [table |-> catalog[p], until |-> now + (Interval \div 2)]
    /\ Loaded(p, TRUE)
    /\ UNCHANGED <<catalog, faults>>

WriteBack(p) ==
    /\ pc[p] = "put"
    /\ warm' = [table |-> catalog[p], until |-> now + TTL]
    /\ Loaded(p, TRUE)
    /\ UNCHANGED <<catalog, faults>>

WriteBackFails(p) ==
    /\ pc[p] = "put"
    /\ Fault
    /\ Loaded(p, FALSE)
    /\ UNCHANGED <<catalog, warm>>

\* Time passes while nobody's ticker is due and no load is at its timeout.
Tick ==
    /\ now < MaxTime
    /\ \A p \in Process : /\ pc[p] = "idle" => now < due[p]
                          /\ Loading(p) => now < began[p] + LoadTime
    /\ now' = now + 1
    /\ UNCHANGED <<pc, began, due, catalog, warm, missed, faults>>

Step(p) ==
    \/ Start(p) \/ Stop(p) \/ TickerFires(p)
    \/ WarmHit(p) \/ WarmMiss(p) \/ WarmFails(p)
    \/ Fetch(p) \/ FetchFails(p) \/ WriteBack(p) \/ WriteBackFails(p)

Next == Tick \/ \E p \in Process : Step(p)

Spec == Init /\ [][Next]_vars

----------------------------------------------------------------------------
(* Properties *)

Sound(p) == missed[p] = 0 /\ due[p] # 0

\* Prices are no older than the copy's TTL, an interval and two loads, in every process
\* whose last load got a table: a hit never prolongs the copy's life, and so what an api
\* wrote once is fetched anew.
PricesCurrent ==
    \A p \in Process : Sound(p) => now < catalog[p] + TTL + Interval + 2 * LoadTime

\* The copy in Redis is missing for less than an interval and a load while the loads of
\* one api work: the collectors, which have no other source, find it again.
WarmReturns ==
    \A a \in Api : Sound(a) => now < warm.until + Interval + LoadTime

\* Two apis that fetch at one time may write their tables in either order; still, while no
\* call fails, no catalog is replaced by one that is more than a load older.
NeverRollsBack ==
    [][\A p \in Process :
          faults' = 0 /\ pc'[p] # "down" => catalog[p] <= catalog'[p] + LoadTime]_vars

\* While no call fails and no api stops, no collector misses the copy three times in a
\* row: it bills seed prices for two intervals at most, and outdated ones for two more
\* than an api.
CollectorsCatchUp == faults = 0 => \A c \in Collector : missed[c] <= 2

----------------------------------------------------------------------------
(* The inductive invariant behind PricesCurrent, WarmReturns and NeverRollsBack *)

\* A load is not late, and the ticker is an interval ahead of it.
OnTime ==
    \A p \in Process :
        /\ Loading(p) => now <= began[p] + LoadTime /\ due[p] \in {0, began[p] + Interval}
        /\ pc[p] = "idle" => due[p] # 0
        /\ pc[p] = "down" => due[p] = 0
        /\ pc[p] = "put" => began[p] <= catalog[p]

\* The copy expires a TTL after it was written, which was in the load that fetched it.
CopyAge ==
    /\ warm.table <= now
    /\ warm.until <= now + TTL /\ warm.until <= warm.table + TTL + LoadTime

\* The end of the interval that began with the last load that is over.
IntervalEnd(p) == IF pc[p] = "idle" THEN due[p] ELSE began[p]

\* That load left a table that was not too old, and an api's load left a copy.
LeftByLoad ==
    /\ \A p \in Process : Sound(p) => IntervalEnd(p) < catalog[p] + TTL + LoadTime + Interval
    /\ \A a \in Api : Sound(a) => IntervalEnd(a) < warm.until + Interval

\* The copy is about as new as the newest catalog, but for the one being written.
CopyIsNew ==
    faults = 0 => \A p \in Process : pc[p] # "put" => catalog[p] <= warm.table + LoadTime

PricingInv == TypeOK /\ OnTime /\ CopyAge /\ LeftByLoad /\ CopyIsNew

----------------------------------------------------------------------------
(* The inductive invariant behind CollectorsCatchUp *)

\* What it takes: an api, and an interval of two timeouts (it is 12 h to 30 s by default).
\* Else the collector may load thrice while one load of the api is late.
LoadsAreApart == Api # {} /\ 2 * LoadTime <= Interval

\* The apis have their table since the first load.
ApisLoad ==
    faults = 0 => \A a \in Api : /\ pc[a] # "down" /\ missed[a] = 0
                                 /\ due[a] = 0 => began[a] = 0

\* A collector that has missed the copy finds it in its next load, or the copy was gone
\* already when it first looked for it, that many intervals before the next load.
FoundNext ==
    faults = 0 =>
        \A c \in Collector : missed[c] > 0 =>
            /\ missed[c] <= 2 /\ due[c] # 0
            /\ IntervalEnd(c) <= now + Interval
            /\ \/ IntervalEnd(c) + LoadTime < warm.until
               \/ warm.until + missed[c] * Interval <= IntervalEnd(c) + LoadTime

CatchUpInv == ApisLoad /\ FoundNext

=============================================================================
