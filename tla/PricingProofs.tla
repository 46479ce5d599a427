----------------------------- MODULE PricingProofs -----------------------------
(***************************************************************************)
(* Theorems of Pricing, for any processes, interval, TTL and timeout: how  *)
(* old prices get, how long the copy in Redis is missing, and that tables  *)
(* are not replaced by much older ones; and that the collectors find it.   *)
(***************************************************************************)
EXTENDS Pricing, TLAPS

\* The invariant holds at the start, when there is neither a ticker nor a copy.
LEMMA InitInv == Init => PricingInv
<1>1. SUFFICES ASSUME Init PROVE PricingInv
  OBVIOUS
<1>2. TypeOK
  <2>1. now \in Nat /\ faults \in 0..MaxFaults /\ warm \in [table : Nat, until : Nat]
    BY <1>1, TimesOK DEF Init
  <2>2. pc \in [Process -> {"down", "get", "fetch", "put", "idle"}]
    BY <1>1 DEF Init
  <2>3. /\ began \in [Process -> Nat] /\ due \in [Process -> Nat] /\ missed \in [Process -> Nat]
        /\ catalog \in [Process -> Nat \cup {Seed}]
    BY <1>1 DEF Init
  <2>4. \A p \in Process : catalog[p] <= now /\ began[p] <= now /\ pc[p] \in {"down", "get"}
    BY <1>1 DEF Init, Seed
  <2>5. QED
    BY <2>1, <2>2, <2>3, <2>4 DEF TypeOK
<1>3. OnTime
  BY <1>1, TimesOK DEF Init, OnTime, Loading, Process
<1>4. CopyAge
  BY <1>1, TimesOK DEF Init, CopyAge
<1>5. LeftByLoad
  BY <1>1, ProcessesOK DEF Init, LeftByLoad, Sound, Process
<1>6. CopyIsNew
  BY <1>1, TimesOK DEF Init, CopyIsNew, Seed
<1>7. QED
  BY <1>2, <1>3, <1>4, <1>5, <1>6 DEF PricingInv

\* A load that is over, with a table no older than the copy's, or without one.
LEMMA LoadedInv ==
  ASSUME PricingInv, NEW p \in Process, Loading(p), NEW ok \in BOOLEAN, Loaded(p, ok),
         catalog' \in [Process -> Nat \cup {Seed}],
         \A q \in Process : q # p => catalog'[q] = catalog[q],
         catalog'[p] <= now,
         ok => now < catalog'[p] + TTL + LoadTime,
         warm' = warm \/ (warm'.until = now + TTL /\ warm' \in [table : Nat, until : Nat]),
         ok => now < warm'.until,
         faults' \in 0..MaxFaults
  PROVE  TypeOK' /\ OnTime' /\ LeftByLoad'
<1> USE TimesOK
<1>1. TypeOK /\ OnTime /\ CopyAge /\ LeftByLoad
  BY DEF PricingInv
<1>2. now' = now /\ now \in Nat
  BY <1>1 DEF Loaded, TypeOK
<1>3. /\ pc'[p] = "idle" /\ began'[p] = 0
      /\ due'[p] = IF due[p] = 0 THEN now + Interval ELSE due[p]
      /\ missed'[p] = IF ok THEN 0 ELSE missed[p] + 1
  BY <1>1 DEF Loaded, TypeOK
<1>4. \A q \in Process : q # p => /\ pc'[q] = pc[q] /\ began'[q] = began[q]
                                  /\ due'[q] = due[q] /\ missed'[q] = missed[q]
  BY <1>1 DEF Loaded, TypeOK
<1>5. began[p] \in Nat /\ due[p] \in Nat /\ began[p] <= now /\ now <= began[p] + LoadTime
      /\ due[p] \in {0, began[p] + Interval} /\ missed[p] \in Nat
  BY <1>1 DEF TypeOK, OnTime
<1>6. due'[p] \in Nat /\ due'[p] # 0 /\ now <= due'[p] /\ due'[p] <= now + Interval
  BY <1>2, <1>3, <1>5
<1>7. TypeOK'
  <2>1. pc' \in [Process -> {"down", "get", "fetch", "put", "idle"}]
    BY <1>1 DEF Loaded, TypeOK
  <2>2. began' \in [Process -> Nat] /\ due' \in [Process -> Nat] /\ missed' \in [Process -> Nat]
    BY <1>1, <1>2 DEF Loaded, TypeOK
  <2>3. warm' \in [table : Nat, until : Nat]
    BY <1>1 DEF TypeOK
  <2>4. ASSUME NEW q \in Process
        PROVE  /\ catalog'[q] <= now' /\ began'[q] <= now'
               /\ pc'[q] = "idle" => now' <= due'[q]
               /\ pc'[q] \in {"fetch", "put"} => q \in Api
    <3>1. CASE q = p
      BY <3>1, <1>2, <1>3, <1>6
    <3>2. CASE q # p
      BY <3>2, <1>1, <1>2, <1>4 DEF TypeOK
    <3>3. QED
      BY <3>1, <3>2
  <2>5. QED
    BY <2>1, <2>2, <2>3, <2>4, <1>2 DEF TypeOK
<1>8. OnTime'
  <2>1. ASSUME NEW q \in Process
        PROVE  /\ Loading(q)' => now' <= began'[q] + LoadTime /\ due'[q] \in {0, began'[q] + Interval}
               /\ pc'[q] = "idle" => due'[q] # 0
               /\ pc'[q] = "down" => due'[q] = 0
               /\ pc'[q] = "put" => began'[q] <= catalog'[q]
    <3>1. CASE q = p
      BY <3>1, <1>3, <1>6 DEF Loading
    <3>2. CASE q # p
      BY <3>2, <1>1, <1>2, <1>4 DEF OnTime, Loading
    <3>3. QED
      BY <3>1, <3>2
  <2>2. QED
    BY <2>1 DEF OnTime
<1>9. warm.until <= warm'.until /\ warm.until \in Nat /\ warm'.until \in Nat
  BY <1>1 DEF CopyAge, TypeOK
<1>10. LeftByLoad'
  <2>1. ASSUME NEW q \in Process, Sound(q)'
        PROVE  IntervalEnd(q)' < catalog'[q] + TTL + LoadTime + Interval
    <3>1. CASE q = p
      <4>1. ok /\ catalog'[p] \in Int
        BY <3>1, <2>1, <1>3, <1>5 DEF Sound, Seed
      <4>2. QED
        BY <4>1, <3>1, <1>2, <1>3, <1>6 DEF IntervalEnd
    <3>2. CASE q # p
      BY <3>2, <2>1, <1>1, <1>4 DEF Sound, IntervalEnd, LeftByLoad
    <3>3. QED
      BY <3>1, <3>2
  <2>2. ASSUME NEW a \in Api, Sound(a)'
        PROVE  IntervalEnd(a)' < warm'.until + Interval
    <3>0. a \in Process
      BY DEF Process
    <3>1. CASE a = p
      <4>1. ok
        BY <3>1, <2>2, <1>3, <1>5 DEF Sound
      <4>2. QED
        BY <4>1, <3>1, <1>2, <1>3, <1>6, <1>9 DEF IntervalEnd
    <3>2. CASE a # p
      <4>1. IntervalEnd(a) < warm.until + Interval /\ IntervalEnd(a)' = IntervalEnd(a)
        BY <3>0, <3>2, <2>2, <1>1, <1>4 DEF Sound, IntervalEnd, LeftByLoad
      <4>2. IntervalEnd(a) \in Nat
        BY <3>0, <1>1 DEF IntervalEnd, TypeOK
      <4>3. QED
        BY <4>1, <4>2, <1>9
    <3>3. QED
      BY <3>1, <3>2
  <2>3. QED
    BY <2>1, <2>2 DEF LeftByLoad
<1>11. QED
  BY <1>7, <1>8, <1>10

\* A step of p that is not the end of a load leaves the others and the copy alone.
Quiet(p) ==
    /\ now' = now /\ warm' = warm
    /\ \A q \in Process : q # p =>
           /\ pc'[q] = pc[q] /\ began'[q] = began[q] /\ due'[q] = due[q]
           /\ catalog'[q] = catalog[q] /\ missed'[q] = missed[q]

\* What such a step has to keep is what it says of p.
LEMMA QuietInv ==
  ASSUME PricingInv, NEW p \in Process, Quiet(p),
         pc' \in [Process -> {"down", "get", "fetch", "put", "idle"}],
         began' \in [Process -> Nat], due' \in [Process -> Nat],
         catalog' \in [Process -> Nat \cup {Seed}], missed' \in [Process -> Nat],
         faults' \in 0..MaxFaults, faults' = 0 => faults = 0,
         catalog'[p] <= now, began'[p] <= now,
         pc'[p] # "idle", pc'[p] \in {"fetch", "put"} => p \in Api,
         Loading(p)' => now <= began'[p] + LoadTime /\ due'[p] \in {0, began'[p] + Interval},
         pc'[p] = "down" => due'[p] = 0,
         pc'[p] = "put" => began'[p] <= catalog'[p],
         pc'[p] # "put" => catalog'[p] = Seed \/ (catalog'[p] = catalog[p] /\ pc[p] # "put"),
         Sound(p)' => Sound(p) /\ IntervalEnd(p)' <= IntervalEnd(p) /\ catalog[p] <= catalog'[p]
  PROVE  PricingInv'
<1> USE TimesOK
<1>1. TypeOK /\ OnTime /\ CopyAge /\ LeftByLoad /\ CopyIsNew
  BY DEF PricingInv
<1>2. now \in Nat /\ warm \in [table : Nat, until : Nat]
  BY <1>1 DEF TypeOK
<1>3. TypeOK'
  <2>1. ASSUME NEW q \in Process
        PROVE  /\ catalog'[q] <= now' /\ began'[q] <= now'
               /\ pc'[q] = "idle" => now' <= due'[q]
               /\ pc'[q] \in {"fetch", "put"} => q \in Api
    BY <1>1 DEF Quiet, TypeOK
  <2>2. QED
    BY <2>1, <1>2 DEF TypeOK, Quiet
<1>4. OnTime'
  BY <1>1 DEF OnTime, Loading, Quiet
<1>5. CopyAge'
  BY <1>1 DEF CopyAge, Quiet
<1>6. LeftByLoad'
  <2>1. ASSUME NEW q \in Process, Sound(q)'
        PROVE  /\ Sound(q) /\ IntervalEnd(q)' <= IntervalEnd(q) /\ catalog[q] <= catalog'[q]
               /\ IntervalEnd(q)' \in Nat /\ IntervalEnd(q) \in Nat
               /\ catalog[q] \in Int /\ catalog'[q] \in Int
    <3>1. IntervalEnd(q)' \in Nat /\ IntervalEnd(q) \in Nat
      BY <1>1 DEF IntervalEnd, TypeOK
    <3>2. catalog[q] \in Int /\ catalog'[q] \in Int
      BY <1>1 DEF TypeOK, Seed
    <3>3. CASE q = p
      BY <3>1, <3>2, <3>3, <2>1
    <3>4. CASE q # p
      BY <3>1, <3>2, <3>4, <2>1 DEF Quiet, Sound, IntervalEnd
    <3>5. QED
      BY <3>3, <3>4
  <2>2. \A q \in Process : Sound(q)' => IntervalEnd(q)' < catalog'[q] + TTL + LoadTime + Interval
    BY <2>1, <1>1 DEF LeftByLoad
  <2>3. \A a \in Api : Sound(a)' => IntervalEnd(a)' < warm'.until + Interval
    BY <2>1, <1>1, <1>2 DEF LeftByLoad, Quiet, Process
  <2>4. QED
    BY <2>2, <2>3 DEF LeftByLoad
<1>7. CopyIsNew'
  BY <1>1, <1>2 DEF CopyIsNew, Quiet, Seed, TypeOK
<1>8. QED
  BY <1>3, <1>4, <1>5, <1>6, <1>7 DEF PricingInv

\* Every step keeps the invariant.
LEMMA NextInv == PricingInv /\ [Next]_vars => PricingInv'
<1> USE TimesOK
<1>1. SUFFICES ASSUME PricingInv, [Next]_vars PROVE PricingInv'
  OBVIOUS
<1>2. TypeOK /\ OnTime /\ CopyAge /\ LeftByLoad /\ CopyIsNew
  BY <1>1 DEF PricingInv
<1>3. /\ now \in Nat /\ warm \in [table : Nat, until : Nat] /\ faults \in 0..MaxFaults
      /\ \A p \in Process : catalog[p] \in Int /\ began[p] \in Nat /\ due[p] \in Nat /\ missed[p] \in Nat
  BY <1>2 DEF TypeOK, Seed
<1>4. CASE UNCHANGED vars
  BY <1>2, <1>4 DEF vars, PricingInv, TypeOK, OnTime, Loading, CopyAge, LeftByLoad, Sound,
                    IntervalEnd, CopyIsNew
<1>5. CASE Tick
  <2>1. TypeOK'
    BY <1>2, <1>3, <1>5 DEF Tick, TypeOK
  <2>2. OnTime'
    BY <1>2, <1>3, <1>5 DEF Tick, OnTime, Loading
  <2>3. CopyAge'
    BY <1>2, <1>3, <1>5 DEF Tick, CopyAge
  <2>4. LeftByLoad' /\ CopyIsNew'
    BY <1>2, <1>5 DEF Tick, LeftByLoad, CopyIsNew, Sound, IntervalEnd
  <2>5. QED
    BY <2>1, <2>2, <2>3, <2>4 DEF PricingInv
<1>6. ASSUME NEW p \in Process, Step(p)
      PROVE  PricingInv'
  <2>0. Fault => faults' \in 0..MaxFaults /\ faults' # 0
    BY <1>3 DEF Fault
  <2>1. CASE Start(p)
    <3>1. Quiet(p) /\ pc'[p] = "get" /\ began'[p] = now /\ due'[p] = 0 /\ catalog'[p] = catalog[p]
      BY <1>2, <2>1 DEF Start, Quiet, TypeOK, OnTime
    <3>2. ~Sound(p)'
      BY <3>1 DEF Sound
    <3>3. QED
      BY <1>1, <1>2, <1>3, <2>1, <3>1, <3>2, QuietInv DEF Start, TypeOK, Loading
  <2>2. CASE Stop(p)
    <3>1. Quiet(p) /\ pc'[p] = "down" /\ began'[p] = 0 /\ due'[p] = 0 /\ catalog'[p] = Seed
      BY <1>2, <2>2 DEF Stop, Quiet, TypeOK
    <3>2. ~Sound(p)'
      BY <3>1 DEF Sound
    <3>3. /\ pc' \in [Process -> {"down", "get", "fetch", "put", "idle"}]
          /\ began' \in [Process -> Nat] /\ due' \in [Process -> Nat]
          /\ catalog' \in [Process -> Nat \cup {Seed}] /\ missed' \in [Process -> Nat]
      BY <1>2, <2>2 DEF Stop, TypeOK
    <3>4. faults' \in 0..MaxFaults /\ (faults' = 0 => faults = 0)
      BY <1>3, <2>0, <2>2 DEF Stop
    <3>5. Seed <= now
      BY <1>3 DEF Seed
    <3>6. QED
      BY <1>1, <1>3, <3>1, <3>2, <3>3, <3>4, <3>5, QuietInv DEF Loading
  <2>3. CASE TickerFires(p)
    <3>1. Quiet(p) /\ pc'[p] = "get" /\ began'[p] = now /\ due'[p] = now + Interval
          /\ catalog'[p] = catalog[p] /\ missed'[p] = missed[p] /\ pc[p] = "idle" /\ due[p] = now
      BY <1>2, <2>3 DEF TickerFires, Quiet, TypeOK
    <3>2. Sound(p)' => Sound(p) /\ IntervalEnd(p)' <= IntervalEnd(p) /\ catalog[p] <= catalog'[p]
      BY <1>2, <1>3, <3>1 DEF Sound, IntervalEnd, OnTime
    <3>3. QED
      BY <1>1, <1>2, <1>3, <2>3, <3>1, <3>2, QuietInv DEF TickerFires, TypeOK, Loading
  <2>4. CASE WarmHit(p)
    <3>1. /\ Loading(p) /\ pc[p] = "get" /\ now < warm.until /\ warm' = warm /\ faults' = faults
          /\ catalog'[p] = warm.table /\ Loaded(p, TRUE)
          /\ \A q \in Process : q # p => catalog'[q] = catalog[q]
          /\ catalog' \in [Process -> Nat \cup {Seed}]
      BY <1>2, <2>4 DEF WarmHit, Warm, Loading, TypeOK
    <3>2. warm.table <= now /\ now < warm.table + TTL + LoadTime
      BY <1>2, <1>3, <3>1 DEF CopyAge
    <3>3. TypeOK' /\ OnTime' /\ LeftByLoad'
      BY <1>1, <1>3, <3>1, <3>2, LoadedInv
    <3>4. CopyAge'
      BY <1>2, <3>1 DEF CopyAge, Loaded
    <3>5. CopyIsNew'
      <4>1. \A q \in Process : q # p => pc'[q] = pc[q]
        BY <1>2, <3>1 DEF Loaded, TypeOK
      <4>2. QED
        BY <1>2, <1>3, <3>1, <4>1 DEF CopyIsNew
    <3>6. QED
      BY <3>3, <3>4, <3>5 DEF PricingInv
  <2>5. ASSUME Loaded(p, FALSE), Loading(p), UNCHANGED <<catalog, warm>>,
               faults' \in 0..MaxFaults, faults' = 0 => faults = 0 /\ pc[p] # "put"
        PROVE  PricingInv'
    <3>1. TypeOK' /\ OnTime' /\ LeftByLoad'
      BY <1>1, <1>2, <1>3, <2>5, LoadedInv DEF TypeOK
    <3>2. CopyAge'
      BY <1>2, <2>5 DEF CopyAge, Loaded
    <3>3. CopyIsNew'
      BY <1>2, <2>5 DEF CopyIsNew, Loaded, TypeOK
    <3>4. QED
      BY <3>1, <3>2, <3>3 DEF PricingInv
  <2>6. ASSUME pc[p] = "get", Fallback(p), faults' \in 0..MaxFaults, faults' = 0 => faults = 0
        PROVE  PricingInv'
    <3>1. CASE p \in Api
      <4>1. Quiet(p) /\ pc'[p] = "fetch" /\ UNCHANGED <<now, began, due, catalog, missed>>
        BY <1>2, <2>6, <3>1 DEF Fallback, Quiet, TypeOK
      <4>2. Sound(p)' => Sound(p) /\ IntervalEnd(p)' <= IntervalEnd(p) /\ catalog[p] <= catalog'[p]
        BY <1>3, <2>6, <4>1 DEF Sound, IntervalEnd
      <4>3. pc' \in [Process -> {"down", "get", "fetch", "put", "idle"}]
        BY <1>2, <2>6, <3>1 DEF Fallback, TypeOK
      <4>4. QED
        BY <1>1, <1>2, <1>3, <2>6, <3>1, <4>1, <4>2, <4>3, QuietInv DEF TypeOK, OnTime, Loading
    <3>2. CASE p \notin Api
      BY <2>5, <2>6, <3>2 DEF Fallback, Loading
    <3>3. QED
      BY <3>1, <3>2
  <2>7. CASE WarmMiss(p)
    BY <1>3, <2>6, <2>7 DEF WarmMiss
  <2>8. CASE WarmFails(p)
    BY <2>0, <2>6, <2>8 DEF WarmFails
  <2>9. CASE Fetch(p)
    <3>1. Quiet(p) /\ pc[p] = "fetch" /\ pc'[p] = "put" /\ catalog'[p] = now
          /\ UNCHANGED <<now, began, due, missed>> /\ p \in Api
      BY <1>2, <2>9 DEF Fetch, Quiet, TypeOK
    <3>2. Sound(p)' => Sound(p) /\ IntervalEnd(p)' <= IntervalEnd(p) /\ catalog[p] <= catalog'[p]
      BY <1>2, <1>3, <3>1 DEF Sound, IntervalEnd, TypeOK
    <3>3. QED
      BY <1>1, <1>2, <1>3, <2>9, <3>1, <3>2, QuietInv DEF Fetch, TypeOK, OnTime, Loading
  <2>10. CASE FetchFails(p)
    BY <2>0, <2>5, <2>10 DEF FetchFails, Loading
  <2>11. CASE WriteBack(p)
    <3>1. /\ Loading(p) /\ pc[p] = "put" /\ Loaded(p, TRUE) /\ UNCHANGED <<catalog, faults>>
          /\ warm' = [table |-> catalog[p], until |-> now + TTL]
      BY <2>11 DEF WriteBack, Loading
    <3>2. /\ catalog[p] \in Nat /\ catalog[p] <= now /\ now <= catalog[p] + LoadTime
      BY <1>2, <1>3, <3>1 DEF OnTime, TypeOK
    <3>3. warm' \in [table : Nat, until : Nat] /\ warm'.until = now + TTL /\ warm'.table = catalog[p]
      BY <1>3, <3>1, <3>2
    <3>4. /\ catalog' = catalog /\ catalog \in [Process -> Nat \cup {Seed}]
          /\ now < catalog[p] + TTL + LoadTime /\ now < now + TTL
          /\ faults' \in 0..MaxFaults
      BY <1>2, <1>3, <3>1, <3>2 DEF TypeOK
    <3>5. TypeOK' /\ OnTime' /\ LeftByLoad'
      BY <1>1, <3>1, <3>2, <3>3, <3>4, LoadedInv
    <3>6. CopyAge'
      BY <1>3, <3>1, <3>2, <3>3 DEF CopyAge, Loaded
    <3>7. CopyIsNew'
      <4>1. \A q \in Process : catalog[q] <= now
        BY <1>2 DEF TypeOK
      <4>2. QED
        BY <1>3, <3>1, <3>2, <3>3, <4>1 DEF CopyIsNew
    <3>8. QED
      BY <3>5, <3>6, <3>7 DEF PricingInv
  <2>12. CASE WriteBackFails(p)
    BY <2>0, <2>5, <2>12 DEF WriteBackFails, Loading
  <2>13. QED
    BY <1>6, <2>1, <2>2, <2>3, <2>4, <2>7, <2>8, <2>9, <2>10, <2>11, <2>12 DEF Step
<1>7. QED
  BY <1>1, <1>4, <1>5, <1>6 DEF Next

\* The inductive invariant holds always.
THEOREM PricingInvariant == Spec => []PricingInv
<1>1. QED
  BY InitInv, NextInv, PTL DEF Spec

\* Types: nobody without a source fetches, and no table is of the future.
THEOREM TypeCorrect == Spec => []TypeOK
<1>1. PricingInv => TypeOK
  BY DEF PricingInv
<1>2. QED
  BY <1>1, PricingInvariant, PTL

\* In every process whose last load got a table, prices are no older than the copy's TTL,
\* an interval and two loads (loadOnce, loop).
THEOREM PricesAreCurrent == Spec => []PricesCurrent
<1>1. PricingInv => PricesCurrent
  <2>1. ASSUME PricingInv, NEW p \in Process, Sound(p)
        PROVE  now < catalog[p] + TTL + Interval + 2 * LoadTime
    <3>1. /\ now \in Nat /\ catalog[p] \in Int /\ began[p] \in Nat /\ due[p] \in Nat
          /\ pc[p] \in {"down", "get", "fetch", "put", "idle"}
      BY <2>1 DEF PricingInv, TypeOK, Seed
    <3>2. IntervalEnd(p) < catalog[p] + TTL + LoadTime + Interval
      BY <2>1 DEF PricingInv, LeftByLoad
    <3>3. now <= IntervalEnd(p) + LoadTime
      BY <2>1, <3>1, TimesOK DEF PricingInv, TypeOK, OnTime, IntervalEnd, Loading, Sound
    <3>4. IntervalEnd(p) \in Nat
      BY <3>1 DEF IntervalEnd
    <3>5. QED
      BY <3>1, <3>2, <3>3, <3>4, TimesOK
  <2>2. QED
    BY <2>1 DEF PricesCurrent
<1>2. QED
  BY <1>1, PricingInvariant, PTL

\* An api whose last load got a table left the copy, for an interval and a load to come.
LEMMA CopyWasThere ==
  ASSUME PricingInv, NEW a \in Api, Sound(a)
  PROVE  now < warm.until + Interval + LoadTime
<1>0. a \in Process
  BY DEF Process
<1>1. /\ now \in Nat /\ warm.until \in Nat /\ began[a] \in Nat /\ due[a] \in Nat
      /\ pc[a] \in {"down", "get", "fetch", "put", "idle"}
  BY <1>0 DEF PricingInv, TypeOK
<1>2. IntervalEnd(a) < warm.until + Interval
  BY DEF PricingInv, LeftByLoad
<1>3. now <= IntervalEnd(a) + LoadTime
  BY <1>0, <1>1, TimesOK DEF PricingInv, TypeOK, OnTime, IntervalEnd, Loading, Sound
<1>4. IntervalEnd(a) \in Nat
  BY <1>1 DEF IntervalEnd
<1>5. QED
  BY <1>1, <1>2, <1>3, <1>4, TimesOK

\* While the loads of one api work the copy in Redis is missing for less than an interval
\* and a load (WriteBack's TTL against the ticker).
THEOREM TheCopyReturns == Spec => []WarmReturns
<1>1. PricingInv => WarmReturns
  BY CopyWasThere DEF WarmReturns
<1>2. QED
  BY <1>1, PricingInvariant, PTL

\* While no call fails, no catalog is replaced by one more than a load older, whichever of
\* two apis writes its table last.
THEOREM TablesDoNotRollBack == Spec => NeverRollsBack
<1> DEFINE Kept == \A p \in Process :
               faults' = 0 /\ pc'[p] # "down" => catalog[p] <= catalog'[p] + LoadTime
<1>1. PricingInv /\ [Next]_vars => [Kept]_vars
  <2>1. SUFFICES ASSUME PricingInv, Next, NEW p \in Process, faults' = 0, pc'[p] # "down"
                 PROVE  catalog[p] <= catalog'[p] + LoadTime
    BY DEF Kept
  <2>2. /\ now \in Nat /\ warm.table \in Nat /\ catalog \in [Process -> Nat \cup {Seed}]
        /\ catalog[p] \in Int /\ catalog[p] <= now /\ faults \in Nat
        /\ pc \in [Process -> {"down", "get", "fetch", "put", "idle"}]
    BY <2>1, TimesOK DEF PricingInv, TypeOK, Seed
  <2>3. CASE catalog'[p] = catalog[p]
    BY <2>2, <2>3, TimesOK
  <2>4. ASSUME NEW q \in Process, Step(q) PROVE catalog[p] <= catalog'[p] + LoadTime
    <3>1. CASE WarmHit(q)
      <4>1. CASE p = q
        BY <2>1, <2>2, <3>1, <4>1, TimesOK DEF WarmHit, PricingInv, CopyIsNew
      <4>2. CASE p # q
        BY <2>2, <2>3, <3>1, <4>2 DEF WarmHit
      <4>3. QED
        BY <4>1, <4>2
    <3>2. CASE Fetch(q)
      BY <2>2, <2>3, <3>2, TimesOK DEF Fetch
    <3>3. CASE Stop(q)
      <4>1. p # q
        BY <2>1, <2>2, <3>3 DEF Stop
      <4>2. QED
        BY <2>2, <2>3, <3>3, <4>1 DEF Stop
    <3>4. CASE ~WarmHit(q) /\ ~Fetch(q) /\ ~Stop(q)
      BY <2>3, <2>4, <3>4 DEF Step, Start, TickerFires, WarmMiss, WarmFails, Fallback, FetchFails,
                              WriteBack, WriteBackFails
    <3>5. QED
      BY <3>1, <3>2, <3>3, <3>4
  <2>5. CASE Tick
    BY <2>3, <2>5 DEF Tick
  <2>6. QED
    BY <2>1, <2>4, <2>5 DEF Next
<1>2. QED
  BY <1>1, PricingInvariant, PTL DEF Spec, NeverRollsBack

\* A step of p leaves the other processes alone; the copy is kept, or written anew.
LEMMA StepOthers ==
  ASSUME TypeOK, NEW p \in Process, Step(p), NEW q \in Process, q # p
  PROVE  /\ pc'[q] = pc[q] /\ began'[q] = began[q] /\ due'[q] = due[q] /\ missed'[q] = missed[q]
         /\ now' = now
         /\ warm' = warm \/ warm'.until = now + TTL
<1> USE DEF TypeOK
<1>1. CASE Start(p) \/ Stop(p) \/ TickerFires(p)
  BY <1>1 DEF Start, Stop, TickerFires
<1>2. CASE WarmHit(p)
  BY <1>2 DEF WarmHit, Loaded
<1>3. CASE WarmMiss(p) \/ WarmFails(p)
  BY <1>3 DEF WarmMiss, WarmFails, Fallback, Loaded
<1>4. CASE Fetch(p) \/ FetchFails(p) \/ WriteBackFails(p)
  BY <1>4 DEF Fetch, FetchFails, WriteBackFails, Loaded
<1>5. CASE WriteBack(p)
  BY <1>5 DEF WriteBack, Loaded
<1>6. QED
  BY <1>1, <1>2, <1>3, <1>4, <1>5 DEF Step

\* Faults are never taken back.
LEMMA StepFaults ==
  ASSUME TypeOK, [Next]_vars, faults' = 0
  PROVE  faults = 0
<1>1. faults \in Nat
  BY TimesOK DEF TypeOK
<1>2. ~Fault
  BY <1>1 DEF Fault
<1>3. CASE UNCHANGED vars
  BY <1>3 DEF vars
<1>4. CASE Tick
  BY <1>4 DEF Tick
<1>5. ASSUME NEW p \in Process, Step(p) PROVE faults = 0
  BY <1>2, <1>5 DEF Step, Start, Stop, TickerFires, WarmHit, WarmMiss, WarmFails, Fetch,
                    FetchFails, WriteBack, WriteBackFails
<1>6. QED
  BY <1>3, <1>4, <1>5 DEF Next

\* No load of an api ends without a table while no call fails.
LEMMA StepApisLoad ==
  ASSUME PricingInv, ApisLoad, [Next]_vars
  PROVE  ApisLoad'
<1>1. TypeOK /\ OnTime
  BY DEF PricingInv
<1>2. SUFFICES ASSUME faults' = 0, NEW a \in Api
               PROVE  pc'[a] # "down" /\ missed'[a] = 0 /\ (due'[a] = 0 => began'[a] = 0)
  BY DEF ApisLoad
<1> DEFINE Loads == pc'[a] # "down" /\ missed'[a] = 0 /\ (due'[a] = 0 => began'[a] = 0)
<1>3. a \in Process /\ now \in Nat /\ due[a] \in Nat /\ faults \in Nat
  BY <1>1, TimesOK DEF Process, TypeOK
<1>4. ~Fault
  BY <1>2, <1>3 DEF Fault
<1>5. pc[a] # "down" /\ missed[a] = 0 /\ (due[a] = 0 => began[a] = 0)
  BY <1>1, <1>2, StepFaults DEF ApisLoad
<1>6. CASE UNCHANGED <<pc, missed, due, began>>
  BY <1>5, <1>6
<1>7. ASSUME NEW p \in Process, p # a, Step(p) PROVE Loads
  <2>1. pc'[a] = pc[a] /\ began'[a] = began[a] /\ due'[a] = due[a] /\ missed'[a] = missed[a]
    BY <1>1, <1>3, <1>7, StepOthers
  <2>2. QED
    BY <1>5, <2>1
<1>8. ASSUME Loaded(a, TRUE) PROVE Loads
  BY <1>1, <1>3, <1>5, <1>8, TimesOK DEF Loaded, TypeOK
<1>9. CASE TickerFires(a)
  BY <1>1, <1>3, <1>5, <1>9, TimesOK DEF TickerFires, TypeOK
<1>10. CASE WarmMiss(a) \/ Fetch(a)
  BY <1>1, <1>3, <1>5, <1>10 DEF WarmMiss, Fallback, Fetch, TypeOK
<1>11. CASE Step(a)
  BY <1>4, <1>5, <1>8, <1>9, <1>10, <1>11 DEF Step, Start, Stop, WarmHit, WarmFails, FetchFails,
                                              WriteBack, WriteBackFails
<1>12. QED
  BY <1>6, <1>7, <1>11 DEF Next, Tick, vars

\* So the copy is never missing for an interval and a load, from the first load on.
LEMMA CopyIsBack ==
  ASSUME PricingInv, ApisLoad, LoadsAreApart, faults = 0
  PROVE  now < warm.until + Interval + LoadTime
<1>1. PICK a \in Api : a \in Process
  BY DEF LoadsAreApart, Process
<1>2. /\ now \in Nat /\ warm.until \in Nat /\ began[a] \in Nat /\ due[a] \in Nat
      /\ pc[a] \in {"down", "get", "fetch", "put", "idle"}
  BY <1>1 DEF PricingInv, TypeOK
<1>3. pc[a] # "down" /\ missed[a] = 0 /\ (due[a] = 0 => began[a] = 0)
  BY <1>1 DEF ApisLoad
<1>4. CASE due[a] = 0
  <2>1. now <= LoadTime
    BY <1>1, <1>2, <1>3, <1>4, TimesOK DEF PricingInv, OnTime, Loading
  <2>2. QED
    BY <1>2, <2>1, TimesOK
<1>5. CASE due[a] # 0
  BY <1>1, <1>3, <1>5, CopyWasThere DEF Sound
<1>6. QED
  BY <1>4, <1>5

\* A load of the collector misses the copy a second time at most.
LEMMA MissAgain ==
  ASSUME PricingInv, ApisLoad, FoundNext, LoadsAreApart, faults = 0,
         NEW c \in Collector, WarmMiss(c)
  PROVE  /\ missed'[c] = missed[c] + 1 /\ missed[c] <= 1 /\ due'[c] # 0
         /\ IntervalEnd(c)' <= now + Interval
         /\ warm.until + missed'[c] * Interval <= IntervalEnd(c)' + LoadTime
<1> DEFINE b == began[c]
           u == warm.until
<1>1. c \in Process /\ c \notin Api
  BY ProcessesOK DEF Process
<1>2. /\ now \in Nat /\ u \in Nat /\ b \in Nat /\ due[c] \in Nat /\ missed[c] \in Nat
      /\ Interval \in Nat /\ LoadTime \in Nat /\ Interval > 0
  BY <1>1, TimesOK DEF PricingInv, TypeOK
<1>3. /\ pc[c] = "get" /\ u <= now /\ b <= now /\ now <= b + LoadTime
      /\ due[c] \in {0, b + Interval}
  BY <1>1, <1>2 DEF WarmMiss, Warm, PricingInv, OnTime, TypeOK, Loading
<1>4. /\ pc'[c] = "idle" /\ missed'[c] = missed[c] + 1
      /\ due'[c] = IF due[c] = 0 THEN now + Interval ELSE due[c]
  BY <1>1 DEF WarmMiss, Fallback, Loaded, PricingInv, TypeOK
<1>5. IntervalEnd(c)' = due'[c] /\ IntervalEnd(c) = b
  BY <1>3, <1>4 DEF IntervalEnd
<1>6. now < u + Interval + LoadTime
  BY CopyIsBack
<1>7. ASSUME missed[c] > 0
      PROVE  /\ missed[c] <= 2 /\ due[c] = b + Interval
             /\ u + missed[c] * Interval <= b + LoadTime
  <2>1. /\ missed[c] <= 2 /\ due[c] # 0
        /\ \/ b + LoadTime < u
           \/ u + missed[c] * Interval <= b + LoadTime
    BY <1>5, <1>7 DEF FoundNext
  <2>2. QED
    BY <1>2, <1>3, <2>1
<1> HIDE DEF b, u
<1>8. CASE missed[c] = 0
  <2>1. u + Interval <= due'[c] + LoadTime /\ due'[c] <= now + Interval /\ due'[c] # 0
    BY <1>2, <1>3, <1>4
  <2>2. missed'[c] = 1
    BY <1>4, <1>8
  <2>3. QED
    BY <1>2, <1>4, <1>5, <1>8, <2>1, <2>2 DEF u
<1>9. CASE missed[c] = 1
  <2>1. u + 2 * Interval <= due'[c] + LoadTime /\ due'[c] <= now + Interval /\ due'[c] # 0
    BY <1>2, <1>3, <1>4, <1>7, <1>9
  <2>2. missed'[c] = 2
    BY <1>4, <1>9
  <2>3. QED
    BY <1>2, <1>4, <1>5, <1>9, <2>1, <2>2 DEF u
<1>10. CASE missed[c] = 2
  BY <1>2, <1>3, <1>6, <1>7, <1>10 DEF LoadsAreApart
<1>11. QED
  BY <1>2, <1>7, <1>8, <1>9, <1>10

\* A collector finds the copy in the load after its miss, or in the one after that.
LEMMA StepFoundNext ==
  ASSUME PricingInv, ApisLoad, FoundNext, LoadsAreApart, [Next]_vars
  PROVE  FoundNext'
<1>1. TypeOK /\ OnTime /\ TypeOK'
  BY NextInv DEF PricingInv
<1>2. SUFFICES ASSUME faults' = 0, NEW c \in Collector, missed'[c] > 0
               PROVE  /\ missed'[c] <= 2 /\ due'[c] # 0
                      /\ IntervalEnd(c)' <= now' + Interval
                      /\ \/ IntervalEnd(c)' + LoadTime < warm'.until
                         \/ warm'.until + missed'[c] * Interval <= IntervalEnd(c)' + LoadTime
  BY DEF FoundNext
<1> DEFINE Found == /\ missed'[c] <= 2 /\ due'[c] # 0
                    /\ IntervalEnd(c)' <= now' + Interval
                    /\ \/ IntervalEnd(c)' + LoadTime < warm'.until
                       \/ warm'.until + missed'[c] * Interval <= IntervalEnd(c)' + LoadTime
<1>3. /\ c \in Process /\ c \notin Api /\ now \in Nat /\ now' \in Nat /\ faults = 0
      /\ began[c] \in Nat /\ due[c] \in Nat /\ missed[c] \in Nat /\ missed'[c] \in Nat
      /\ IntervalEnd(c) \in Nat
  BY <1>1, <1>2, ProcessesOK, StepFaults DEF Process, TypeOK, IntervalEnd
<1>4. ~Fault
  BY <1>2, <1>3 DEF Fault
<1>5. ASSUME missed[c] > 0
      PROVE  /\ missed[c] <= 2 /\ due[c] # 0
             /\ IntervalEnd(c) <= now + Interval
             /\ \/ IntervalEnd(c) + LoadTime < warm.until
                \/ warm.until + missed[c] * Interval <= IntervalEnd(c) + LoadTime
  BY <1>3, <1>5 DEF FoundNext
<1>6. ASSUME missed'[c] = missed[c], due'[c] # 0, IntervalEnd(c)' = IntervalEnd(c), now <= now',
             warm' = warm \/ warm'.until = now + TTL
      PROVE  Found
  <2>1. CASE warm' = warm
    BY <1>2, <1>3, <1>5, <1>6, <2>1, TimesOK
  <2>2. CASE warm'.until = now + TTL
    <3>1. IntervalEnd(c) + LoadTime < warm'.until
      BY <1>2, <1>3, <1>5, <1>6, <2>2, TimesOK
    <3>2. QED
      BY <1>2, <1>3, <1>5, <1>6, <3>1, TimesOK
  <2>3. QED
    BY <1>6, <2>1, <2>2
<1>7. CASE Tick \/ UNCHANGED vars
  <2>1. /\ missed' = missed /\ due' = due /\ pc' = pc /\ began' = began /\ warm' = warm
        /\ now <= now'
    BY <1>3, <1>7 DEF Tick, vars
  <2>2. missed[c] > 0
    BY <1>2, <2>1
  <2>3. QED
    BY <1>5, <1>6, <2>1, <2>2 DEF IntervalEnd
<1>8. ASSUME NEW p \in Process, p # c, Step(p) PROVE Found
  <2>1. /\ pc'[c] = pc[c] /\ began'[c] = began[c] /\ due'[c] = due[c] /\ missed'[c] = missed[c]
        /\ now' = now /\ (warm' = warm \/ warm'.until = now + TTL)
    BY <1>1, <1>3, <1>8, StepOthers
  <2>2. missed[c] > 0
    BY <1>2, <2>1
  <2>3. QED
    BY <1>3, <1>5, <1>6, <2>1, <2>2 DEF IntervalEnd
<1>9. CASE TickerFires(c)
  <2>1. /\ missed'[c] = missed[c] /\ due'[c] = now + Interval /\ began'[c] = now /\ pc'[c] = "get"
        /\ pc[c] = "idle" /\ due[c] = now /\ now' = now /\ warm' = warm
    BY <1>1, <1>3, <1>9 DEF TickerFires, TypeOK
  <2>2. IntervalEnd(c)' = IntervalEnd(c) /\ due'[c] # 0
    BY <1>3, <2>1, TimesOK DEF IntervalEnd
  <2>3. QED
    BY <1>3, <1>6, <2>1, <2>2
<1>10. CASE WarmMiss(c)
  <2>1. warm' = warm /\ now' = now
    BY <1>3, <1>10 DEF WarmMiss, Fallback, Loaded
  <2>2. QED
    BY <1>3, <1>10, <2>1, MissAgain
<1>11. CASE Step(c)
  <2>1. ~Start(c)
    BY <1>1, <1>2, <1>3, <1>5 DEF Start, OnTime
  <2>2. ~Stop(c) /\ ~WarmHit(c)
    BY <1>1, <1>2, <1>3 DEF Stop, WarmHit, Loaded, TypeOK
  <2>3. ~Fetch(c) /\ ~WriteBack(c)
    BY <1>1, <1>3 DEF Fetch, WriteBack, TypeOK
  <2>4. QED
    BY <1>4, <1>9, <1>10, <1>11, <2>1, <2>2, <2>3 DEF Step, WarmFails, FetchFails, WriteBackFails
<1>12. QED
  BY <1>7, <1>8, <1>11 DEF Next

\* Where loads are apart, the invariant of the collectors holds always.
THEOREM CatchUpInvariant ==
  ASSUME LoadsAreApart
  PROVE  Spec => []CatchUpInv
<1>1. Init => CatchUpInv
  BY ProcessesOK DEF Init, CatchUpInv, ApisLoad, FoundNext, Process
<1>2. PricingInv /\ CatchUpInv /\ [Next]_vars => CatchUpInv'
  BY StepApisLoad, StepFoundNext DEF CatchUpInv
<1>3. QED
  BY <1>1, <1>2, PricingInvariant, PTL DEF Spec

\* While no call fails and no api stops, no collector misses the copy three times in a row
\* (loadOnce without a Source, against WriteBack's TTL and the ticker of an api), if there
\* is an api and an interval is two timeouts or more.
THEOREM CollectorsFindTheCopy ==
  ASSUME LoadsAreApart
  PROVE  Spec => []CollectorsCatchUp
<1>1. PricingInv /\ CatchUpInv => CollectorsCatchUp
  <2>1. ASSUME TypeOK, FoundNext, faults = 0, NEW c \in Collector
        PROVE  missed[c] <= 2
    <3>1. missed[c] \in Nat
      BY <2>1 DEF TypeOK, Process
    <3>2. QED
      BY <2>1, <3>1 DEF FoundNext
  <2>2. QED
    BY <2>1 DEF PricingInv, CatchUpInv, CollectorsCatchUp
<1>2. QED
  BY <1>1, PricingInvariant, CatchUpInvariant, PTL

=============================================================================
