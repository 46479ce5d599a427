----------------------------- MODULE ProjectCache -----------------------------
(***************************************************************************)
(* How long does a project key that was rotated or deleted go on           *)
(* resolving?  Proxies resolve keys through a two-tier cache: an LRU in    *)
(* each process (L1), Redis (L2), then the projects table.  The api        *)
(* process changes the table first and invalidates the cache afterwards:   *)
(* DEL on L2, then a Pub/Sub broadcast to the L1s.  Every Redis or         *)
(* database call is a step of its own, so a resolve may read before a      *)
(* rotation and write to the caches after its invalidation.                *)
(*                                                                         *)
(* This is the life of ONE key: no call relates the entries of two keys,   *)
(* and a key is never given out twice.  An L1 hit changes nothing and is   *)
(* no step.  Entries carry their remaining lifetime and are absent at 0    *)
(* (Get removes an expired one, Redis drops it).  LRU eviction only ever   *)
(* takes an entry away and is left out.                                    *)
(***************************************************************************)
EXTENDS Naturals

CONSTANTS
    Replica,       \* proxy processes
    Thread,        \* concurrent resolves of the key in one proxy
    Admin,         \* concurrent requests to the api about the project
    L1TTL, L2TTL,  \* in ticks
    MaxHold        \* assumed: most ticks between reading a value and caching it

ASSUME TTLsPositive ==
    L1TTL \in Nat \ {0} /\ L2TTL \in Nat \ {0} /\ MaxHold \in Nat

VARIABLES
    status,     \* of the key: it may still become, is, or was (or never will be) the
                \* key of the project's row
    l1, l2,     \* remaining lifetime of the key's entry: in each proxy, in Redis
    inbox,      \* proxies with a broadcast about the key on its way to them
    wpc, held,  \* the resolves: next step, ticks since the value was read
    apc, aop,   \* the admin requests: next step, operation
    mine,       \* whether the key is the one the request read, and will invalidate
    revokedFor, \* ticks since the key was replaced or deleted
    cleared,    \* what a DEL on L2 after that met
    clearedFor  \* ticks since a DEL that met no resolve halfway

workers == <<wpc, held>>
admins  == <<apc, aop, mine>>
history == <<revokedFor, cleared, clearedFor>>
cacheVars == <<status, l1, l2, inbox, workers, admins, history>>

Worker == Replica \X Thread

\* The longest a revoked key can live: a resolve that read the table just before
\* writes L2 after MaxHold; a tick before that entry expires another one reads it, and
\* writes its L1 after MaxHold.
StaleBound == MaxHold + (L2TTL - 1) + MaxHold + L1TTL

Old == StaleBound + 1  \* older than anything here remembers

CacheTypeOK ==
    /\ status \in {"unborn", "current", "revoked"}
    /\ l1 \in [Replica -> 0..L1TTL]
    /\ l2 \in 0..L2TTL
    /\ inbox \subseteq Replica
    /\ wpc \in [Worker -> {"idle", "l2", "fill", "db", "set1", "set2"}]
    /\ held \in [Worker -> 0..MaxHold]
    /\ apc \in [Admin -> {"idle", "write", "del", "publish"}]
    /\ aop \in [Admin -> {"reset", "delete", "update"}]
    /\ mine \in [Admin -> BOOLEAN]
    /\ revokedFor \in 0..Old
    /\ cleared \in {"no", "straddled", "clean"}
    /\ clearedFor \in 0..Old

\* Create has given the project this key, or an earlier one.
CacheInit ==
    /\ status \in {"unborn", "current"}
    /\ l1 = [p \in Replica |-> 0]
    /\ l2 = 0
    /\ inbox = {}
    /\ wpc = [w \in Worker |-> "idle"]
    /\ held = [w \in Worker |-> 0]
    /\ apc = [a \in Admin |-> "idle"]
    /\ aop = [a \in Admin |-> "update"]
    /\ mine = [a \in Admin |-> FALSE]
    /\ revokedFor = 0
    /\ cleared = "no"
    /\ clearedFor = 0

----------------------------------------------------------------------------
(* Resolver.Resolve in a proxy *)

Step(w, to) == wpc' = [wpc EXCEPT ![w] = to]
Keep(w, to) == Step(w, to) /\ held' = [held EXCEPT ![w] = 0]

\* A request comes in with the key, which is not in this proxy's L1.
Lookup(w) ==
    /\ wpc[w] = "idle"
    /\ l1[w[1]] = 0
    /\ Step(w, "l2")
    /\ UNCHANGED <<status, l1, l2, inbox, held, admins, history>>

L2Hit(w) ==
    /\ wpc[w] = "l2"
    /\ l2 # 0
    /\ Keep(w, "fill")
    /\ UNCHANGED <<status, l1, l2, inbox, admins, history>>

\* No entry, or Redis does not answer: on to the table.
L2Miss(w) ==
    /\ wpc[w] = "l2"
    /\ Step(w, "db")
    /\ UNCHANGED <<status, l1, l2, inbox, held, admins, history>>

Fill(w) ==
    /\ wpc[w] = "fill"
    /\ l1' = [l1 EXCEPT ![w[1]] = L1TTL]
    /\ Keep(w, "idle")
    /\ UNCHANGED <<status, l2, inbox, admins, history>>

\* Mutant: the query also finds keys that have been replaced or deleted.
DbHitWhateverStatus(w) ==
    /\ wpc[w] = "db"
    /\ status # "unborn"
    /\ Keep(w, "set1")
    /\ UNCHANGED <<status, l1, l2, inbox, admins, history>>

DbHit(w) ==
    /\ wpc[w] = "db"
    /\ status = "current"
    /\ Keep(w, "set1")
    /\ UNCHANGED <<status, l1, l2, inbox, admins, history>>

\* ErrProjectNotFound, or the query fails: nothing is cached.
DbMiss(w) ==
    /\ wpc[w] = "db"
    /\ Step(w, "idle")
    /\ UNCHANGED <<status, l1, l2, inbox, held, admins, history>>

SetL1(w) ==
    /\ wpc[w] = "set1"
    /\ l1' = [l1 EXCEPT ![w[1]] = L1TTL]
    /\ Step(w, "set2")
    /\ UNCHANGED <<status, l2, inbox, held, admins, history>>

SetL2(w) ==
    /\ wpc[w] = "set2"
    /\ l2' = L2TTL
    /\ Keep(w, "idle")
    /\ UNCHANGED <<status, l1, inbox, admins, history>>

\* The error of Set is ignored.
SetL2Fails(w) ==
    /\ wpc[w] = "set2"
    /\ Keep(w, "idle")
    /\ UNCHANGED <<status, l1, l2, inbox, admins, history>>

----------------------------------------------------------------------------
(* UpdateProject, ResetProjectKey and DeleteProject in the api *)

AStep(a, pc) == apc' = [apc EXCEPT ![a] = pc]
AFinish(a) ==
    /\ AStep(a, "idle")
    /\ aop' = [aop EXCEPT ![a] = "update"]
    /\ mine' = [mine EXCEPT ![a] = FALSE]

\* GetByID: the key it reads is the key to invalidate in the end.  (When the project is
\* gone the answer is 404, or 200 to a delete, and that is all; the requests that read
\* another key than this one stand for those too, for they change nothing here.)
Read(a, op) ==
    /\ apc[a] = "idle"
    /\ AStep(a, "write")
    /\ aop' = [aop EXCEPT ![a] = op]
    /\ mine' = [mine EXCEPT ![a] = (status = "current")]
    /\ UNCHANGED <<status, l1, l2, inbox, workers, history>>

\* The table's key is replaced, by this key or by another.
Replace(new) ==
    /\ status' \in IF status = "unborn" THEN new ELSE {"revoked"}
    /\ UNCHANGED history

\* UpdateProjectKey by id: it replaces whatever key the row has by now.
Rotate(a) ==
    /\ apc[a] = "write" /\ aop[a] = "reset"
    /\ Replace({"unborn", "current"})
    /\ AStep(a, "del")
    /\ UNCHANGED <<l1, l2, inbox, workers, aop, mine>>

\* Traces and bodies are gone by now; then the row.
Remove(a) ==
    /\ apc[a] = "write" /\ aop[a] = "delete"
    /\ Replace({"revoked"})
    /\ AStep(a, "del")
    /\ UNCHANGED <<l1, l2, inbox, workers, aop, mine>>

Rename(a) ==
    /\ apc[a] = "write" /\ aop[a] = "update"
    /\ AStep(a, "del")
    /\ UNCHANGED <<status, l1, l2, inbox, workers, aop, mine, history>>

\* The write fails, and so does the request; nothing has changed.
WriteFails(a) ==
    /\ apc[a] = "write"
    /\ AFinish(a)
    /\ UNCHANGED <<status, l1, l2, inbox, workers, history>>

\* Some resolve has the key from the table and has not yet written it to L2.
Halfway == \E w \in Worker : wpc[w] \in {"set1", "set2"}

\* Mutant: Delete leaves the L2 entry to its TTL and only broadcasts.
DelSkipped(a) ==
    /\ apc[a] = "del"
    /\ cleared' = IF mine[a] /\ status = "revoked" /\ ~Halfway THEN "clean" ELSE cleared
    /\ AStep(a, "publish")
    /\ UNCHANGED <<status, l1, l2, inbox, workers, aop, mine, revokedFor, clearedFor>>

\* Tiered.Delete: the api's own L1 never holds anything; DEL on L2...
Del(a) ==
    /\ apc[a] = "del"
    /\ IF mine[a]
       THEN /\ l2' = 0
            /\ cleared' = IF status # "revoked" \/ cleared = "clean" THEN cleared
                          ELSE IF Halfway THEN "straddled" ELSE "clean"
       ELSE UNCHANGED <<l2, cleared>>
    /\ AStep(a, "publish")
    /\ UNCHANGED <<status, l1, inbox, workers, aop, mine, revokedFor, clearedFor>>

\* ... an error ends it before the broadcast (the handler answers 50002).
DelFails(a) ==
    /\ apc[a] = "del"
    /\ AFinish(a)
    /\ UNCHANGED <<status, l1, l2, inbox, workers, history>>

\* PUBLISH reaches the proxies that are subscribed just now; a failure, which reaches
\* none, is only logged.
Publish(a) ==
    /\ apc[a] = "publish"
    /\ \E S \in SUBSET Replica : inbox' = IF mine[a] THEN inbox \cup S ELSE inbox
    /\ AFinish(a)
    /\ UNCHANGED <<status, l1, l2, workers, history>>

\* subscribe in a proxy.
Apply(p) ==
    /\ p \in inbox
    /\ inbox' = inbox \ {p}
    /\ l1' = [l1 EXCEPT ![p] = 0]
    /\ UNCHANGED <<status, l2, workers, admins, history>>

----------------------------------------------------------------------------

Holding(w) == wpc[w] \in {"fill", "set1", "set2"}

\* Mutant: a lifetime is counted down beyond its end.
LessAtZero(n) == n - 1

Less(n) == IF n = 0 THEN 0 ELSE n - 1
More(n) == IF n = Old THEN Old ELSE n + 1

\* Time passes, but no resolve sits on a value for longer than MaxHold.
Tick ==
    /\ \A w \in Worker : Holding(w) => held[w] < MaxHold
    /\ l1' = [p \in Replica |-> Less(l1[p])]
    /\ l2' = Less(l2)
    /\ held' = [w \in Worker |-> IF Holding(w) THEN held[w] + 1 ELSE held[w]]
    /\ revokedFor' = IF status = "revoked" THEN More(revokedFor) ELSE revokedFor
    /\ clearedFor' = IF cleared = "clean" THEN More(clearedFor) ELSE clearedFor
    /\ UNCHANGED <<status, inbox, wpc, admins, cleared>>

Resolve(w) ==
    \/ Lookup(w) \/ L2Hit(w) \/ L2Miss(w) \/ Fill(w) \/ DbHit(w) \/ DbMiss(w)
    \/ SetL1(w) \/ SetL2(w) \/ SetL2Fails(w)

Administer(a) ==
    \/ \E op \in {"reset", "delete", "update"} : Read(a, op)
    \/ Rotate(a) \/ Remove(a) \/ Rename(a) \/ WriteFails(a)
    \/ Del(a) \/ DelFails(a) \/ Publish(a)

CacheNext ==
    \/ \E w \in Worker : Resolve(w)
    \/ \E a \in Admin : Administer(a)
    \/ \E p \in Replica : Apply(p)
    \/ Tick

CacheSpec == CacheInit /\ [][CacheNext]_cacheVars

----------------------------------------------------------------------------
(* Properties *)

Within(life, age, bound) == life # 0 => age + life <= bound

\* However many invalidations fail or get lost, and whatever resolves, rotations and
\* deletions overlap, a revoked key is out of every cache StaleBound after the table
\* changed: Set gives each entry its TTL, and an L1 copy of an L2 entry is at most one
\* L1 TTL younger.
RevokedKeyDies ==
    status = "revoked" =>
        /\ Within(l2, revokedFor, MaxHold + L2TTL)
        /\ \A p \in Replica : Within(l1[p], revokedFor, StaleBound)

\* When no resolve straddles the DEL, Redis never holds the revoked key again, and a
\* proxy whose broadcast was lost forgets it one L1 TTL later (tiered.go:26, "Missed
\* messages are caught by L1 TTL").
ClearedStaysOut ==
    cleared = "clean" =>
        /\ l2 = 0
        /\ \A p \in Replica : Within(l1[p], clearedFor, MaxHold + L1TTL)

\* What the comment on ResetProjectKey says: "The old key stops resolving as soon as
\* the cache is invalidated".  Redis, at least, should never hold it again.  Not true of
\* this code: see the README.
OldKeyStopsResolving == cleared # "no" => l2 = 0

\* What the two hang on: a resolve halfway read the key before it was revoked, or from
\* an L2 entry that had not outlived its bound.
HeldIsYoung ==
    \A w \in Worker :
        /\ wpc[w] \in {"set1", "set2"} => revokedFor <= held[w]
        /\ wpc[w] = "fill" => revokedFor <= held[w] + MaxHold + (L2TTL - 1)

HeldAtClear ==
    \A w \in Worker :
        /\ wpc[w] \notin {"set1", "set2"}
        /\ wpc[w] = "fill" => clearedFor <= held[w]

CacheInv ==
    /\ CacheTypeOK
    /\ RevokedKeyDies /\ ClearedStaysOut
    /\ IF status = "revoked" THEN HeldIsYoung ELSE revokedFor = 0 /\ cleared = "no"
    /\ IF cleared = "clean" THEN HeldAtClear ELSE clearedFor = 0

=============================================================================
