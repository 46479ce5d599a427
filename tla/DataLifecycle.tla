---------------------------- MODULE DataLifecycle ----------------------------
(***************************************************************************)
(* How long do traces live?  A request leaves a row in the month's         *)
(* partition of traces (Postgres) and bodies under                         *)
(* {project}/{YYYYMM}/{trace}/ (MinIO).  Two things take them away again:  *)
(* the maintainers in the collectors, which create the partitions of the   *)
(* coming months, drop those older than the retention and purge the bodies *)
(* of the dropped months; and DeleteProject in the api.  Every statement   *)
(* to Postgres and every DeletePrefix is a step of its own.                *)
(*                                                                         *)
(* A request has one body here: what is said of it holds of each of its    *)
(* bodies.  Its event waits in the Redis stream until the collector        *)
(* inserts it (see Collector), which may take any time.                    *)
(***************************************************************************)
EXTENDS Naturals, FiniteSets

CONSTANTS
    Project,
    Request,
    Maintainer,  \* one in each collector process
    PreCreate,   \* partitions made ahead
    Retention,   \* RetentionMonths; not positive switches dropping off
    MaxMonth,    \* bound: last month of a behaviour
    MaxFaults    \* bound: failures and crashes

ASSUME ConfigOK ==
    /\ PreCreate \in Nat /\ Retention \in Nat
    /\ MaxMonth \in Nat /\ MaxFaults \in Nat

VARIABLES
    month,       \* now
    projects,    \* rows of the projects table
    partitions,  \* months with a partition of traces
    stage,       \* of each request
    of,          \* its project
    created,     \* month of its row (RequestIn)
    bodyMonth,   \* month in the key of its body
    key,         \* its event names the body
    body,        \* requests whose body is in MinIO
    rows,        \* requests whose row is in Postgres
    mpc, mnow,   \* each maintainer: where Ensure is, and the month it began in
    todo,        \* months its current loop has left
    targets,     \* prefixes {project}/{YYYYMM}/ it has left to purge
    dropped,     \* months it has dropped in this pass
    dpc,         \* DeleteProject of each project
    touched,     \* projects somebody has begun to delete
    settled,     \* requests that were over when that began
    ensured,     \* latest month for which an Ensure has made its partitions
    faults       \* faults spent

requests    == <<stage, of, created, bodyMonth, key>>
maintainers == <<mpc, mnow, todo, targets, dropped, ensured>>
deletes     == <<dpc, touched, settled>>
vars == <<month, projects, partitions, requests, body, rows, maintainers, deletes, faults>>

Month == 0..(MaxMonth + PreCreate)

TypeOK ==
    /\ month \in 0..MaxMonth
    /\ projects \subseteq Project
    /\ partitions \subseteq Month
    /\ stage \in [Request -> {"new", "open", "queued", "stored", "lost"}]
    /\ of \in [Request -> Project]
    /\ created \in [Request -> 0..month]
    /\ bodyMonth \in [Request -> 0..month]
    /\ key \in [Request -> BOOLEAN]
    /\ body \subseteq Request
    /\ rows \subseteq {r \in Request : stage[r] = "stored" /\ created[r] \in partitions}
    /\ mpc \in [Maintainer -> {"idle", "create", "list", "drop", "purge"}]
    /\ mnow \in [Maintainer -> 0..month]
    /\ todo \in [Maintainer -> SUBSET Month]
    /\ targets \in [Maintainer -> SUBSET (Project \X Month)]
    /\ dropped \in [Maintainer -> SUBSET Month]
    /\ dpc \in [Project -> {"idle", "traces", "bodies", "row"}]
    /\ touched \subseteq Project
    /\ settled \subseteq Request
    /\ ensured \in 0..month
    /\ faults \in 0..MaxFaults

\* The first collector has made its partitions; whose request is whose is open.
Init ==
    /\ month = 0
    /\ projects = Project
    /\ partitions = 0..PreCreate
    /\ stage = [r \in Request |-> "new"]
    /\ of \in [Request -> Project]
    /\ created = [r \in Request |-> 0]
    /\ bodyMonth = [r \in Request |-> 0]
    /\ key = [r \in Request |-> FALSE]
    /\ body = {}
    /\ rows = {}
    /\ mpc = [m \in Maintainer |-> "idle"]
    /\ mnow = [m \in Maintainer |-> 0]
    /\ todo = [m \in Maintainer |-> {}]
    /\ targets = [m \in Maintainer |-> {}]
    /\ dropped = [m \in Maintainer |-> {}]
    /\ dpc = [p \in Project |-> "idle"]
    /\ touched = {}
    /\ settled = {}
    /\ ensured = 0
    /\ faults = 0

Fault ==
    /\ faults < MaxFaults
    /\ faults' = faults + 1

----------------------------------------------------------------------------
(* A request: Handler.serve, then the collector *)

\* Its key resolves.  (A key cached beyond the deletion, as in ProjectCache, makes no
\* other difference than a request that came in before it.)
Open(r) ==
    /\ stage[r] = "new"
    /\ of[r] \in projects
    /\ stage' = [stage EXCEPT ![r] = "open"]
    /\ created' = [created EXCEPT ![r] = month]
    /\ bodyMonth' = [bodyMonth EXCEPT ![r] = month]
    /\ UNCHANGED <<month, projects, partitions, of, key, body, rows, maintainers, deletes, faults>>

\* The key of the response's body is made when the upstream answers.
Answer(r) ==
    /\ stage[r] = "open" /\ ~key[r]
    /\ bodyMonth' = [bodyMonth EXCEPT ![r] = month]
    /\ key' = [key EXCEPT ![r] = TRUE]
    /\ body' = body \cup {r}
    /\ UNCHANGED <<month, projects, partitions, stage, of, created, rows, maintainers, deletes,
                   faults>>

\* Submit; without a body when its upload failed.
Enqueue(r) ==
    /\ stage[r] = "open"
    /\ stage' = [stage EXCEPT ![r] = "queued"]
    /\ UNCHANGED <<month, projects, partitions, of, created, bodyMonth, key, body, rows,
                   maintainers, deletes, faults>>

\* XADD fails, the body stays.
Lose(r) ==
    /\ stage[r] = "open"
    /\ Fault
    /\ stage' = [stage EXCEPT ![r] = "lost"]
    /\ UNCHANGED <<month, projects, partitions, of, created, bodyMonth, key, body, rows,
                   maintainers, deletes>>

\* Mutant: rows go to the partition of the month they are inserted in.
InsertByToday(r) ==
    /\ stage[r] = "queued"
    /\ month \in partitions
    /\ stage' = [stage EXCEPT ![r] = "stored"]
    /\ rows' = rows \cup {r}
    /\ UNCHANGED <<month, projects, partitions, of, created, bodyMonth, key, body, maintainers,
                   deletes, faults>>

\* Without a partition for its month the row is refused and the event stays queued.
Insert(r) ==
    /\ stage[r] = "queued"
    /\ created[r] \in partitions
    /\ stage' = [stage EXCEPT ![r] = "stored"]
    /\ rows' = rows \cup {r}
    /\ UNCHANGED <<month, projects, partitions, of, created, bodyMonth, key, body, maintainers,
                   deletes, faults>>

----------------------------------------------------------------------------
(* Maintainer.Ensure *)

Data == <<month, projects, requests, deletes>>

\* Ensure returns: its local variables are gone.
Return(m) ==
    /\ mpc' = [mpc EXCEPT ![m] = "idle"]
    /\ mnow' = [mnow EXCEPT ![m] = 0]
    /\ todo' = [todo EXCEPT ![m] = {}]
    /\ targets' = [targets EXCEPT ![m] = {}]
    /\ dropped' = [dropped EXCEPT ![m] = {}]

\* Mutant: the loop over the months ends before PreCreate.
EnsureOneShort(m) ==
    /\ mpc[m] = "idle"
    /\ mpc' = [mpc EXCEPT ![m] = "create"]
    /\ mnow' = [mnow EXCEPT ![m] = month]
    /\ todo' = [todo EXCEPT ![m] = {t \in Month : month <= t /\ t < month + PreCreate}]
    /\ UNCHANGED <<Data, partitions, body, rows, targets, dropped, ensured, faults>>

\* At the start of the collector and with every tick of CheckInterval.
Ensure(m) ==
    /\ mpc[m] = "idle"
    /\ mpc' = [mpc EXCEPT ![m] = "create"]
    /\ mnow' = [mnow EXCEPT ![m] = month]
    /\ todo' = [todo EXCEPT ![m] = month..(month + PreCreate)]
    /\ UNCHANGED <<Data, partitions, body, rows, targets, dropped, ensured, faults>>

\* createMonth, in the order of the months.
CreateMonth(m) ==
    /\ mpc[m] = "create"
    /\ \E t \in todo[m] :
           /\ \A u \in todo[m] : t <= u
           /\ partitions' = partitions \cup {t}
           /\ todo' = [todo EXCEPT ![m] = @ \ {t}]
    /\ UNCHANGED <<Data, body, rows, mpc, mnow, targets, dropped, ensured, faults>>

\* Without a retention nothing is dropped, and nothing is left to purge.
Created(m) ==
    /\ mpc[m] = "create" /\ todo[m] = {}
    /\ ensured' = IF ensured < mnow[m] THEN mnow[m] ELSE ensured
    /\ mpc' = [mpc EXCEPT ![m] = IF Retention > 0 THEN "list" ELSE "purge"]
    /\ UNCHANGED <<Data, partitions, body, rows, mnow, todo, targets, dropped, faults>>

\* Mutant: a month is dropped as soon as it has Retention months after it.
ListUpToThreshold(m) ==
    /\ mpc[m] = "list"
    /\ todo' = [todo EXCEPT ![m] = {t \in partitions : t + Retention <= mnow[m]}]
    /\ mpc' = [mpc EXCEPT ![m] = "drop"]
    /\ UNCHANGED <<Data, partitions, body, rows, mnow, targets, dropped, ensured, faults>>

\* dropOlderThan reads the partitions: those that start before the threshold.
List(m) ==
    /\ mpc[m] = "list"
    /\ todo' = [todo EXCEPT ![m] = {t \in partitions : t + Retention < mnow[m]}]
    /\ mpc' = [mpc EXCEPT ![m] = "drop"]
    /\ UNCHANGED <<Data, partitions, body, rows, mnow, targets, dropped, ensured, faults>>

\* DROP TABLE IF EXISTS succeeds too when another collector was faster.
Drop(m) ==
    /\ mpc[m] = "drop"
    /\ \E t \in todo[m] :
           /\ partitions' = partitions \ {t}
           /\ rows' = {r \in rows : created[r] # t}
           /\ todo' = [todo EXCEPT ![m] = @ \ {t}]
           /\ dropped' = [dropped EXCEPT ![m] = @ \cup {t}]
    /\ UNCHANGED <<Data, body, mpc, mnow, targets, ensured, faults>>

\* Mutant: a partition that could not be dropped is purged with the others.
DropFailsUnnoticed(m) ==
    /\ mpc[m] = "drop"
    /\ Fault
    /\ \E t \in todo[m] :
           /\ todo' = [todo EXCEPT ![m] = @ \ {t}]
           /\ dropped' = [dropped EXCEPT ![m] = @ \cup {t}]
    /\ UNCHANGED <<Data, partitions, body, rows, mpc, mnow, targets, ensured>>

\* A partition that cannot be dropped is skipped.
DropFails(m) ==
    /\ mpc[m] = "drop"
    /\ Fault
    /\ \E t \in todo[m] : todo' = [todo EXCEPT ![m] = @ \ {t}]
    /\ UNCHANGED <<Data, partitions, body, rows, mpc, mnow, targets, dropped, ensured>>

\* purgeBodiesForMonths lists the projects.
Dropped(m) ==
    /\ mpc[m] = "drop" /\ todo[m] = {}
    /\ targets' = [targets EXCEPT ![m] = projects \X dropped[m]]
    /\ mpc' = [mpc EXCEPT ![m] = "purge"]
    /\ dropped' = [dropped EXCEPT ![m] = {}]
    /\ UNCHANGED <<Data, partitions, body, rows, mnow, todo, ensured, faults>>

Under(p, t) == {r \in Request : of[r] = p /\ bodyMonth[r] = t}

Purge(m) ==
    /\ mpc[m] = "purge"
    /\ \E x \in targets[m] :
           /\ body' = body \ Under(x[1], x[2])
           /\ targets' = [targets EXCEPT ![m] = @ \ {x}]
    /\ UNCHANGED <<Data, partitions, rows, mpc, mnow, todo, dropped, ensured, faults>>

\* Some objects may be gone all the same; nobody will come back for the rest.
PurgeFails(m) ==
    /\ mpc[m] = "purge"
    /\ Fault
    /\ \E x \in targets[m] :
           /\ \E S \in SUBSET Under(x[1], x[2]) : body' = body \ S
           /\ targets' = [targets EXCEPT ![m] = @ \ {x}]
    /\ UNCHANGED <<Data, partitions, rows, mpc, mnow, todo, dropped, ensured>>

Purged(m) ==
    /\ mpc[m] = "purge" /\ targets[m] = {}
    /\ Return(m)
    /\ UNCHANGED <<Data, partitions, body, rows, ensured, faults>>

\* createMonth, the listing of partitions or that of projects fails and Ensure gives up;
\* or the collector crashes, wherever it is.
GiveUp(m) ==
    /\ mpc[m] # "idle"
    /\ Fault
    /\ Return(m)
    /\ UNCHANGED <<Data, partitions, body, rows, ensured>>

----------------------------------------------------------------------------
(* DeleteProject in the api *)

Mine(p) == {r \in Request : of[r] = p}

DStep(p, pc) == dpc' = [dpc EXCEPT ![p] = pc]

DeleteProject(p) ==
    /\ dpc[p] = "idle"
    /\ p \in projects
    /\ DStep(p, "traces")
    /\ touched' = touched \cup {p}
    /\ settled' = settled \cup {r \in Mine(p) : stage[r] \in {"stored", "lost"}}
    /\ UNCHANGED <<month, projects, partitions, requests, body, rows, maintainers, faults>>

DeleteTraces(p) ==
    /\ dpc[p] = "traces"
    /\ rows' = rows \ Mine(p)
    /\ DStep(p, "bodies")
    /\ UNCHANGED <<month, projects, partitions, requests, body, maintainers, touched, settled,
                   faults>>

DeleteBodies(p) ==
    /\ dpc[p] = "bodies"
    /\ body' = body \ Mine(p)
    /\ DStep(p, "row")
    /\ UNCHANGED <<month, projects, partitions, requests, rows, maintainers, touched, settled,
                   faults>>

\* Mutant: an error of DeletePrefix is only logged.
BodiesFailUnnoticed(p) ==
    /\ dpc[p] = "bodies"
    /\ Fault
    /\ \E S \in SUBSET Mine(p) : body' = body \ S
    /\ DStep(p, "row")
    /\ UNCHANGED <<month, projects, partitions, requests, rows, maintainers, touched, settled>>

\* DeletePrefix removes what it can and reports the first error: the handler stops.
BodiesFail(p) ==
    /\ dpc[p] = "bodies"
    /\ Fault
    /\ \E S \in SUBSET Mine(p) : body' = body \ S
    /\ DStep(p, "idle")
    /\ UNCHANGED <<month, projects, partitions, requests, rows, maintainers, touched, settled>>

DeleteRow(p) ==
    /\ dpc[p] = "row"
    /\ projects' = projects \ {p}
    /\ DStep(p, "idle")
    /\ UNCHANGED <<month, partitions, requests, body, rows, maintainers, touched, settled, faults>>

\* A statement fails, or the api crashes; the caller may try again.
DeleteFails(p) ==
    /\ dpc[p] # "idle"
    /\ Fault
    /\ DStep(p, "idle")
    /\ UNCHANGED <<month, projects, partitions, requests, body, rows, maintainers, touched, settled>>

----------------------------------------------------------------------------

\* The next month begins.  Neither a request in the proxy nor a pass of Ensure lasts
\* long enough to see two month's ends.
NextMonth ==
    /\ month < MaxMonth
    /\ \A r \in Request : stage[r] = "open" => created[r] = month
    /\ \A m \in Maintainer : mpc[m] # "idle" => mnow[m] = month
    /\ month' = month + 1
    /\ UNCHANGED <<projects, partitions, requests, body, rows, maintainers, deletes, faults>>

Handle(r) == Open(r) \/ Answer(r) \/ Enqueue(r) \/ Lose(r) \/ Insert(r)

Maintain(m) ==
    \/ CreateMonth(m) \/ Created(m) \/ List(m) \/ Drop(m) \/ Dropped(m) \/ Purge(m) \/ Purged(m)
    \/ DropFails(m) \/ PurgeFails(m) \/ GiveUp(m)

Delete(p) ==
    \/ DeleteProject(p) \/ DeleteTraces(p) \/ DeleteBodies(p) \/ DeleteRow(p)
    \/ BodiesFail(p) \/ DeleteFails(p)

Next ==
    \/ \E r \in Request : Handle(r)
    \/ \E m \in Maintainer : Ensure(m) \/ Maintain(m)
    \/ \E p \in Project : Delete(p)
    \/ NextMonth

Spec == Init /\ [][Next]_vars

(***************************************************************************)
(* Fairness.  The ticker of each maintainer goes off again and again and a *)
(* pass of Ensure goes on once begun.                                      *)
(***************************************************************************)
FairSpec ==
    Spec /\ \A m \in Maintainer : WF_vars(Ensure(m)) /\ WF_vars(Maintain(m))

----------------------------------------------------------------------------
(* Properties *)

Alive(r) == of[r] \notin touched

Expired(t) == t + Retention < month

\* What has been stored stays for Retention full months after its own, however many
\* maintainers are at work, and whatever they make of a month's end.
KeptForRetention ==
    Retention > 0 =>
        \A r \in Request : stage[r] = "stored" /\ Alive(r) /\ ~Expired(created[r]) => r \in rows

\* A row that can still be seen has the body it names.  (Only a body that was begun a
\* month after its row may go before a row whose partition could not be dropped.)
RowKeepsBody ==
    \A r \in rows :
        key[r] /\ Alive(r) /\ (bodyMonth[r] = created[r] \/ ~Expired(created[r])) => r \in body

\* As long as no PreCreate months pass without a successful Ensure, a row of this month
\* finds its partition; none is dropped under it.
MonthHasPartition == month <= ensured + PreCreate => month \in partitions

\* What keeps these two true: what a pass drops is expired already, a pass that is still
\* creating has what it has not made yet in todo, and only a touched project is deleted.
DropsExpired ==
    \A m \in Maintainer : mpc[m] = "drop" => \A t \in todo[m] : t + Retention < mnow[m]

CreatesAhead ==
    \A m \in Maintainer : mpc[m] = "create" =>
        \A t \in mnow[m]..(mnow[m] + PreCreate) : t < month \/ t \in partitions \cup todo[m]

PartitionsAhead ==
    \A t \in month..(ensured + PreCreate) : t \in partitions

DeletesTouched == \A p \in Project : dpc[p] # "idle" => p \in touched

LifecycleInv ==
    TypeOK /\ DropsExpired /\ CreatesAhead /\ PartitionsAhead /\ DeletesTouched
        /\ KeptForRetention

\* Of a project that is gone no trace is left that was complete when its deletion was
\* last begun, however often it failed half way and was begun again.
DeletedWithItsTraces ==
    \A p \in Project \ projects :
        \A r \in Mine(p) \cap settled : r \notin rows /\ r \notin body

\* What keeps RowKeepsBody true.  A month dropped for good: expired, and no pass of Ensure
\* creates it again.
Gone(t) == Retention > 0 /\ Expired(t) /\ t \notin partitions

\* A pass sees one month's end at most, and creates months from its own on.
PassIsRecent ==
    \A m \in Maintainer : mpc[m] # "idle" =>
        /\ month <= mnow[m] + 1
        /\ mpc[m] = "create" => \A t \in todo[m] : mnow[m] <= t

\* What it drops and purges, it purges because the partition is gone.
PurgesGone ==
    \A m \in Maintainer :
        /\ mpc[m] \in {"list", "drop"} => Retention > 0
        /\ \A t \in dropped[m] : Gone(t)
        /\ \A x \in targets[m] : Gone(x[2])

\* The key of a body is made after the row's month is known, and a body that is named and
\* missing went with its month, or its project.
BodiesFollow ==
    \A r \in Request :
        /\ key[r] => stage[r] # "new"
        /\ created[r] <= bodyMonth[r]
        /\ key[r] /\ Alive(r) => r \in body \/ Gone(bodyMonth[r])

BodyInv == PassIsRecent /\ PurgesGone /\ BodiesFollow

\* What keeps DeletedWithItsTraces true.  A request that was over when a deletion began
\* stays over; the deletion leaves none of its rows, then none of its bodies.
DeletesSettled ==
    /\ \A r \in settled : stage[r] \in {"stored", "lost"}
    /\ \A p \in Project : \A r \in Mine(p) \cap settled :
           /\ dpc[p] \in {"bodies", "row"} \/ p \notin projects => r \notin rows
           /\ dpc[p] = "row" \/ p \notin projects => r \notin body

\* docs/deployment.md of the bodies: purged month by month together with the partitions,
\* "no extra Lifecycle policy needed".
BodiesExpire ==
    \A r \in Request :
        r \in body /\ Alive(r) /\ Expired(bodyMonth[r]) ~> r \notin body \/ ~Alive(r)

=============================================================================
