-------------------------- MODULE DataLifecycleProofs --------------------------
(***************************************************************************)
(* Theorems about DataLifecycle, for any number of requests, projects,     *)
(* maintainers and months.                                                 *)
(***************************************************************************)
EXTENDS DataLifecycle, TLAPS

\* No step of a request, of Ensure or of DeleteProject leaves the types.
LEMMA StepTypeOK ==
    ASSUME LifecycleInv, Next
    PROVE  TypeOK'
<1> USE ConfigOK DEF TypeOK, Month, requests, maintainers, deletes, Data, Fault
<1>0. TypeOK
    BY DEF LifecycleInv
<1>1. ASSUME NEW r \in Request, Handle(r) PROVE TypeOK'
  <2>1. CASE Open(r)
    BY <1>0, <2>1 DEF Open
  <2>2. CASE Answer(r)
    BY <1>0, <2>2 DEF Answer
  <2>3. CASE Enqueue(r)
    BY <1>0, <2>3 DEF Enqueue
  <2>4. CASE Lose(r)
    BY <1>0, <2>4 DEF Lose
  <2>5. CASE Insert(r)
    BY <1>0, <2>5 DEF Insert
  <2> QED BY <1>1, <2>1, <2>2, <2>3, <2>4, <2>5 DEF Handle
<1>2. ASSUME NEW m \in Maintainer, Ensure(m) \/ Maintain(m) PROVE TypeOK'
  <2>1. CASE Ensure(m)
    BY <1>0, <2>1 DEF Ensure
  <2>2. CASE CreateMonth(m)
    BY <1>0, <2>2 DEF CreateMonth
  <2>3. CASE Created(m)
    BY <1>0, <2>3 DEF Created
  <2>4. CASE List(m)
    BY <1>0, <2>4 DEF List
  <2>5. CASE Drop(m)
    BY <1>0, <2>5 DEF Drop
  <2>6. CASE Dropped(m)
    BY <1>0, <2>6 DEF Dropped
  <2>7. CASE Purge(m)
    BY <1>0, <2>7 DEF Purge
  <2>8. CASE Purged(m)
    BY <1>0, <2>8 DEF Purged, Return
  <2>9. CASE DropFails(m)
    BY <1>0, <2>9 DEF DropFails
  <2>10. CASE PurgeFails(m)
    BY <1>0, <2>10 DEF PurgeFails
  <2>11. CASE GiveUp(m)
    BY <1>0, <2>11 DEF GiveUp, Return
  <2> QED BY <1>2, <2>1, <2>2, <2>3, <2>4, <2>5, <2>6, <2>7, <2>8, <2>9, <2>10, <2>11 DEF Maintain
<1>3. ASSUME NEW p \in Project, Delete(p) PROVE TypeOK'
  <2>1. CASE DeleteProject(p)
    BY <1>0, <2>1 DEF DeleteProject, DStep, Mine
  <2>2. CASE DeleteTraces(p)
    BY <1>0, <2>2 DEF DeleteTraces, DStep
  <2>3. CASE DeleteBodies(p)
    BY <1>0, <2>3 DEF DeleteBodies, DStep
  <2>4. CASE DeleteRow(p)
    BY <1>0, <2>4 DEF DeleteRow, DStep
  <2>5. CASE BodiesFail(p)
    BY <1>0, <2>5 DEF BodiesFail, DStep
  <2>6. CASE DeleteFails(p)
    BY <1>0, <2>6 DEF DeleteFails, DStep
  <2> QED BY <1>3, <2>1, <2>2, <2>3, <2>4, <2>5, <2>6 DEF Delete
<1>4. CASE NextMonth
    BY <1>0, <1>4 DEF NextMonth
<1> QED BY <1>1, <1>2, <1>3, <1>4 DEF Next

\* A pass lists only months that are expired, and time does not make them younger.
LEMMA StepDropsExpired ==
    ASSUME LifecycleInv, Next
    PROVE  DropsExpired'
<1>0. TypeOK /\ DropsExpired
    BY DEF LifecycleInv
<1>1. SUFFICES ASSUME NEW m \in Maintainer, mpc'[m] = "drop", NEW t \in todo'[m]
               PROVE  t + Retention < mnow'[m]
    BY DEF DropsExpired
<1>2. CASE mpc[m] = "drop" /\ mnow'[m] = mnow[m] /\ todo'[m] \subseteq todo[m]
    BY <1>0, <1>1, <1>2 DEF DropsExpired
<1>3. CASE List(m)
    BY <1>0, <1>1, <1>3 DEF List, TypeOK
<1>4. \/ mpc[m] = "drop" /\ mnow'[m] = mnow[m] /\ todo'[m] \subseteq todo[m]
      \/ List(m)
  <2>1. ASSUME NEW n \in Maintainer, Ensure(n) \/ Maintain(n) PROVE <1>4!:
    BY <1>0, <1>1, <2>1 DEF TypeOK, Maintain, Ensure, CreateMonth, Created, List, Drop, Dropped,
                            Purge, Purged, DropFails, PurgeFails, GiveUp, Return
  <2>2. ASSUME NEW r \in Request, Handle(r) PROVE <1>4!:
    BY <1>1, <2>2 DEF Handle, Open, Answer, Enqueue, Lose, Insert, maintainers
  <2>3. ASSUME NEW p \in Project, Delete(p) PROVE <1>4!:
    BY <1>1, <2>3 DEF Delete, DeleteProject, DeleteTraces, DeleteBodies, DeleteRow, BodiesFail,
                      DeleteFails, maintainers
  <2>4. CASE NextMonth
    BY <1>1, <2>4 DEF NextMonth, maintainers
  <2> QED BY <2>1, <2>2, <2>3, <2>4 DEF Next
<1> QED BY <1>2, <1>3, <1>4

\* A partition leaves only when it is older than this month.
LEMMA StepPartitions ==
    ASSUME LifecycleInv, Next
    PROVE  \A t \in partitions : t \in partitions' \/ t + Retention < month
<1>0. TypeOK /\ DropsExpired
    BY DEF LifecycleInv
<1>1. ASSUME NEW r \in Request, Handle(r) PROVE partitions' = partitions
    BY <1>1 DEF Handle, Open, Answer, Enqueue, Lose, Insert
<1>2. ASSUME NEW p \in Project, Delete(p) PROVE partitions' = partitions
    BY <1>2 DEF Delete, DeleteProject, DeleteTraces, DeleteBodies, DeleteRow, BodiesFail,
                DeleteFails
<1>3. ASSUME NEW m \in Maintainer, Ensure(m) \/ Maintain(m)
      PROVE  partitions \subseteq partitions' \/ Drop(m)
    BY <1>3 DEF Maintain, Ensure, CreateMonth, Created, List, Drop, Dropped, Purge, Purged,
                DropFails, PurgeFails, GiveUp
<1>4. ASSUME NEW m \in Maintainer, Drop(m)
      PROVE  \A t \in partitions : t \in partitions' \/ t + Retention < month
  <2>1. PICK u \in todo[m] : partitions' = partitions \ {u}
    BY <1>4 DEF Drop
  <2>2. u + Retention < mnow[m] /\ mnow[m] <= month /\ mnow[m] \in Nat /\ u \in Nat
    BY <1>0, <1>4 DEF Drop, DropsExpired, TypeOK, Month
  <2> QED BY <1>0, <2>1, <2>2, ConfigOK DEF TypeOK
<1>5. CASE NextMonth
    BY <1>5 DEF NextMonth
<1> QED BY <1>1, <1>2, <1>3, <1>4, <1>5 DEF Next

\* Months go by one at a time, and ensured only grows.
LEMMA StepMonth ==
    ASSUME LifecycleInv, Next
    PROVE  month' \in {month, month + 1} /\ ensured' >= ensured
<1>0. TypeOK
    BY DEF LifecycleInv
<1> USE DEF TypeOK
<1>1. ASSUME NEW r \in Request, Handle(r) PROVE month' = month /\ ensured' = ensured
    BY <1>1 DEF Handle, Open, Answer, Enqueue, Lose, Insert, maintainers
<1>2. ASSUME NEW p \in Project, Delete(p) PROVE month' = month /\ ensured' = ensured
    BY <1>2 DEF Delete, DeleteProject, DeleteTraces, DeleteBodies, DeleteRow, BodiesFail,
                DeleteFails, maintainers
<1>3. ASSUME NEW m \in Maintainer, Ensure(m) \/ Maintain(m)
      PROVE  month' = month /\ ensured' \in {ensured, mnow[m]} /\ ensured' >= ensured
    BY <1>0, <1>3 DEF Maintain, Ensure, CreateMonth, Created, List, Drop, Dropped, Purge, Purged,
                DropFails, PurgeFails, GiveUp, Data
<1>4. CASE NextMonth
    BY <1>0, <1>4 DEF NextMonth, maintainers
<1> QED BY <1>0, <1>1, <1>2, <1>3, <1>4 DEF Next
\* What a pass of Ensure has still to create stays in todo until it is created.
LEMMA StepCreatesAhead ==
    ASSUME LifecycleInv, Next
    PROVE  CreatesAhead'
<1>0. TypeOK /\ CreatesAhead /\ TypeOK'
    BY StepTypeOK DEF LifecycleInv
<1>1. SUFFICES ASSUME NEW m \in Maintainer, mpc'[m] = "create",
                      NEW t \in mnow'[m]..(mnow'[m] + PreCreate)
               PROVE  t < month' \/ t \in partitions' \cup todo'[m]
    BY DEF CreatesAhead
<1>2. CASE Ensure(m)
    BY <1>0, <1>1, <1>2 DEF Ensure, Data, TypeOK
<1>3. CASE CreateMonth(m)
    BY <1>0, <1>1, <1>3 DEF CreateMonth, CreatesAhead, Data, TypeOK
<1>4. CASE mpc[m] = "create" /\ mnow'[m] = mnow[m] /\ todo'[m] = todo[m]
  <2>1. t < month \/ t \in partitions \cup todo[m]
    BY <1>0, <1>1, <1>4 DEF CreatesAhead
  <2>2. t \in Nat /\ Retention \in Nat
    BY <1>0, <1>1, <1>4, ConfigOK DEF TypeOK
  <2>3. t \in partitions => t \in partitions' \/ t + Retention < month
    BY StepPartitions
  <2>4. month' >= month /\ month \in Nat /\ month' \in Nat
    BY <1>0, StepMonth DEF TypeOK
  <2> QED BY <1>4, <2>1, <2>2, <2>3, <2>4
<1>5. \/ mpc[m] = "create" /\ mnow'[m] = mnow[m] /\ todo'[m] = todo[m]
      \/ Ensure(m)
      \/ CreateMonth(m)
  <2>1. ASSUME NEW n \in Maintainer, Ensure(n) \/ Maintain(n) PROVE <1>5!:
    <3>1. CASE n # m
      BY <1>0, <1>1, <2>1, <3>1 DEF TypeOK, Maintain, Ensure, CreateMonth, Created, List, Drop,
                            Dropped, Purge, Purged, DropFails, PurgeFails, GiveUp, Return
    <3>2. CASE n = m /\ ~Ensure(m) /\ ~CreateMonth(m)
      <4>1. \/ Created(m) \/ List(m) \/ Drop(m) \/ Dropped(m) \/ Purge(m) \/ Purged(m)
            \/ DropFails(m) \/ PurgeFails(m) \/ GiveUp(m)
        BY <2>1, <3>2 DEF Maintain
      <4>2. mpc'[m] # "create"
        BY <1>0, <4>1 DEF TypeOK, Created, List, Drop, Dropped, Purge, Purged, DropFails,
                          PurgeFails, GiveUp, Return
      <4> QED BY <1>1, <4>2
    <3> QED BY <3>1, <3>2
  <2>2. ASSUME NEW r \in Request, Handle(r) PROVE <1>5!:
    BY <1>1, <2>2 DEF Handle, Open, Answer, Enqueue, Lose, Insert, maintainers
  <2>3. ASSUME NEW p \in Project, Delete(p) PROVE <1>5!:
    BY <1>1, <2>3 DEF Delete, DeleteProject, DeleteTraces, DeleteBodies, DeleteRow, BodiesFail,
                      DeleteFails, maintainers
  <2>4. CASE NextMonth
    BY <1>1, <2>4 DEF NextMonth, maintainers
  <2> QED BY <2>1, <2>2, <2>3, <2>4 DEF Next
<1> QED BY <1>2, <1>3, <1>4, <1>5

\* Once a pass has created its months, every month from now on up to PreCreate months after
\* its beginning has a partition, and keeps it until it is past.
LEMMA StepPartitionsAhead ==
    ASSUME LifecycleInv, Next
    PROVE  PartitionsAhead'
<1>0. TypeOK /\ TypeOK' /\ PartitionsAhead /\ CreatesAhead
    BY StepTypeOK DEF LifecycleInv
<1>1. /\ month \in Nat /\ month' \in Nat /\ ensured \in Nat /\ ensured' \in Nat
      /\ PreCreate \in Nat /\ Retention \in Nat /\ month' >= month
    BY <1>0, ConfigOK, StepMonth DEF TypeOK
<1>2. SUFFICES ASSUME NEW t \in month'..(ensured' + PreCreate)
               PROVE  t \in partitions'
    BY DEF PartitionsAhead
<1>3. t \in partitions => t \in partitions'
    BY <1>1, <1>2, StepPartitions
<1>4. CASE ensured' = ensured
    BY <1>0, <1>1, <1>2, <1>3, <1>4 DEF PartitionsAhead
<1>5. ASSUME NEW m \in Maintainer, Created(m), ensured' = mnow[m] PROVE t \in partitions'
  <2>1. mnow[m] \in Nat /\ month >= mnow[m] /\ mpc[m] = "create" /\ todo[m] = {}
    BY <1>0, <1>5 DEF TypeOK, Created
  <2>2. t \in mnow[m]..(mnow[m] + PreCreate) /\ t >= month
    BY <1>1, <1>2, <1>5, <2>1
  <2>3. t < month \/ t \in partitions
    BY <1>0, <2>1, <2>2 DEF CreatesAhead
  <2> QED BY <1>1, <1>2, <1>3, <2>2, <2>3
<1>6. \/ ensured' = ensured
      \/ \E m \in Maintainer : Created(m) /\ ensured' = mnow[m]
  <2>1. ASSUME NEW n \in Maintainer, Ensure(n) \/ Maintain(n) PROVE <1>6!:
    BY <1>0, <2>1 DEF Maintain, Ensure, CreateMonth, Created, List, Drop, Dropped, Purge, Purged,
                      DropFails, PurgeFails, GiveUp
  <2>2. ASSUME NEW r \in Request, Handle(r) PROVE <1>6!:
    BY <2>2 DEF Handle, Open, Answer, Enqueue, Lose, Insert, maintainers
  <2>3. ASSUME NEW p \in Project, Delete(p) PROVE <1>6!:
    BY <2>3 DEF Delete, DeleteProject, DeleteTraces, DeleteBodies, DeleteRow, BodiesFail,
                DeleteFails, maintainers
  <2>4. CASE NextMonth
    BY <2>4 DEF NextMonth, maintainers
  <2> QED BY <2>1, <2>2, <2>3, <2>4 DEF Next
<1> QED BY <1>4, <1>5, <1>6

\* DeleteProject works on projects that somebody has begun to delete.
LEMMA StepDeletesTouched ==
    ASSUME LifecycleInv, Next
    PROVE  DeletesTouched' /\ touched \subseteq touched'
<1>0. TypeOK /\ DeletesTouched
    BY DEF LifecycleInv
<1> USE DEF DeletesTouched
<1>1. ASSUME NEW p \in Project, Delete(p) PROVE DeletesTouched' /\ touched \subseteq touched'
    BY <1>0, <1>1 DEF TypeOK, Delete, DeleteProject, DeleteTraces, DeleteBodies, DeleteRow,
                      BodiesFail, DeleteFails, DStep
<1>2. ASSUME NEW r \in Request, Handle(r) PROVE UNCHANGED deletes
    BY <1>2 DEF Handle, Open, Answer, Enqueue, Lose, Insert
<1>3. ASSUME NEW m \in Maintainer, Ensure(m) \/ Maintain(m) PROVE UNCHANGED deletes
    BY <1>3 DEF Maintain, Ensure, CreateMonth, Created, List, Drop, Dropped, Purge, Purged,
                DropFails, PurgeFails, GiveUp, Data
<1>4. CASE NextMonth
    BY <1>0, <1>4 DEF NextMonth, deletes
<1> QED BY <1>0, <1>1, <1>2, <1>3, <1>4 DEF Next, deletes
\* A stored row goes with its expired partition or with its project, and in no other way.
LEMMA StepRows ==
    ASSUME LifecycleInv, Next,
           NEW r \in rows
    PROVE  r \in rows' \/ Expired(created[r]) \/ ~Alive(r)
<1>0. TypeOK /\ DropsExpired /\ DeletesTouched
    BY DEF LifecycleInv
<1>1. ASSUME NEW q \in Request, Handle(q) PROVE r \in rows'
    BY <1>1 DEF Handle, Open, Answer, Enqueue, Lose, Insert
<1>2. ASSUME NEW p \in Project, Delete(p) PROVE r \in rows' \/ ~Alive(r)
    BY <1>0, <1>2 DEF Delete, DeleteProject, DeleteTraces, DeleteBodies, DeleteRow, BodiesFail,
                      DeleteFails, Mine, Alive, DeletesTouched
<1>3. ASSUME NEW m \in Maintainer, Ensure(m) \/ Maintain(m) PROVE r \in rows' \/ Drop(m)
    BY <1>3 DEF Maintain, Ensure, CreateMonth, Created, List, Drop, Dropped, Purge, Purged,
                DropFails, PurgeFails, GiveUp
<1>4. ASSUME NEW m \in Maintainer, Drop(m) PROVE r \in rows' \/ Expired(created[r])
  <2>1. PICK t \in todo[m] : rows' = {q \in rows : created[q] # t}
    BY <1>4 DEF Drop
  <2>2. t + Retention < mnow[m] /\ mnow[m] <= month /\ mnow[m] \in Nat /\ t \in Nat
    BY <1>0, <1>4, ConfigOK DEF Drop, DropsExpired, TypeOK, Month
  <2> QED BY <1>0, <2>1, <2>2, ConfigOK DEF TypeOK, Expired
<1>5. CASE NextMonth
    BY <1>5 DEF NextMonth
<1> QED BY <1>1, <1>2, <1>3, <1>4, <1>5 DEF Next

\* A request gets its row when it becomes stored; its month and its project do not change.
LEMMA StepStored ==
    ASSUME LifecycleInv, Next,
           NEW r \in Request, stage'[r] = "stored"
    PROVE  /\ of'[r] = of[r] /\ created'[r] = created[r]
           /\ stage[r] = "stored" \/ r \in rows'
<1>0. TypeOK
    BY DEF LifecycleInv
<1> DEFINE Same == /\ of'[r] = of[r] /\ created'[r] = created[r]
                   /\ stage[r] = "stored" \/ r \in rows'
<1>1. ASSUME NEW q \in Request, Open(q) \/ Answer(q) \/ Enqueue(q) \/ Lose(q)
      PROVE  Same
    BY <1>0, <1>1 DEF TypeOK, Open, Answer, Enqueue, Lose
<1>2. ASSUME NEW q \in Request, Insert(q) PROVE Same
    BY <1>0, <1>2 DEF TypeOK, Insert
<1>3. ASSUME NEW p \in Project, Delete(p) PROVE UNCHANGED requests
    BY <1>3 DEF Delete, DeleteProject, DeleteTraces, DeleteBodies, DeleteRow, BodiesFail,
                DeleteFails, requests
<1>4. ASSUME NEW m \in Maintainer, Ensure(m) \/ Maintain(m) PROVE UNCHANGED requests
    BY <1>4 DEF Maintain, Ensure, CreateMonth, Created, List, Drop, Dropped, Purge, Purged,
                DropFails, PurgeFails, GiveUp, Data
<1>5. ASSUME NextMonth PROVE UNCHANGED requests
    BY <1>5 DEF NextMonth, requests
<1>6. ASSUME NEW q \in Request, Handle(q) PROVE Same
    BY <1>1, <1>2, <1>6 DEF Handle
<1>7. ASSUME UNCHANGED requests PROVE Same
    BY <1>7 DEF requests
<1> HIDE DEF Same
<1>8. Same
    BY <1>3, <1>4, <1>5, <1>6, <1>7 DEF Next
<1> QED BY <1>8 DEF Same

\* What is stored, alive and not expired keeps its row across a step.
LEMMA StepKept ==
    ASSUME LifecycleInv, Next
    PROVE  KeptForRetention'
<1>0. TypeOK /\ TypeOK' /\ KeptForRetention
    BY StepTypeOK DEF LifecycleInv
<1>1. SUFFICES ASSUME Retention > 0, NEW r \in Request, stage'[r] = "stored", Alive(r)',
                      ~Expired(created[r])'
               PROVE  r \in rows'
    BY DEF KeptForRetention, Expired
<1>2. of'[r] = of[r] /\ created'[r] = created[r] /\ (stage[r] = "stored" \/ r \in rows')
    BY <1>1, StepStored
<1>3. Alive(r)
    BY <1>1, <1>2, StepDeletesTouched DEF Alive
<1>4. ~Expired(created[r])
    BY <1>0, <1>1, <1>2, StepMonth, ConfigOK DEF Expired, TypeOK
<1>5. CASE stage[r] = "stored"
  <2>1. r \in rows
    BY <1>0, <1>1, <1>3, <1>4, <1>5 DEF KeptForRetention
  <2> QED BY <1>3, <1>4, <2>1, StepRows
<1> QED BY <1>2, <1>5

\* The invariant of any number of collectors, whatever fails and whenever months end.
THEOREM LifecycleInvariant == Spec => []LifecycleInv
<1>1. Init => LifecycleInv
    BY ConfigOK DEF Init, LifecycleInv, TypeOK, Month, DropsExpired, CreatesAhead,
                    PartitionsAhead, DeletesTouched, KeptForRetention
<1>2. LifecycleInv /\ [Next]_vars => LifecycleInv'
  <2>1. ASSUME LifecycleInv, Next PROVE LifecycleInv'
    BY <2>1, StepTypeOK, StepDropsExpired, StepCreatesAhead, StepPartitionsAhead,
       StepDeletesTouched, StepKept DEF LifecycleInv
  <2>2. ASSUME LifecycleInv, UNCHANGED vars PROVE LifecycleInv'
    BY <2>2 DEF LifecycleInv, TypeOK, Month, DropsExpired, CreatesAhead, PartitionsAhead,
                DeletesTouched, KeptForRetention, Alive, Expired, vars, requests, maintainers,
                deletes
  <2> QED BY <2>1, <2>2
<1> QED BY <1>1, <1>2, PTL DEF Spec

\* Every variable keeps its type; no row sits in a partition that is gone.
THEOREM TypeCorrect == Spec => []TypeOK
<1>1. LifecycleInv => TypeOK
    BY DEF LifecycleInv
<1> QED BY <1>1, LifecycleInvariant, PTL

\* The maintainers never delete a trace within its retention.
THEOREM RetentionIsKept == Spec => []KeptForRetention
<1>1. LifecycleInv => KeptForRetention
    BY DEF LifecycleInv
<1> QED BY <1>1, LifecycleInvariant, PTL

\* Traces of this month find their partition while Ensure succeeded PreCreate months ago.
THEOREM RowsFindTheirPartition == Spec => []MonthHasPartition
<1>1. LifecycleInv => MonthHasPartition
    BY ConfigOK DEF LifecycleInv, MonthHasPartition, PartitionsAhead, TypeOK
<1> QED BY <1>1, LifecycleInvariant, PTL
----------------------------------------------------------------------------
(* RowKeepsBody: bodies go with their months *)

\* A pass of Ensure makes no month older than the last one.
LEMMA StepPartitionsNew ==
    ASSUME LifecycleInv, PassIsRecent, Next
    PROVE  \A t \in partitions' : t \in partitions \/ month <= t + 1
<1>0. TypeOK
    BY DEF LifecycleInv
<1>1. ASSUME NEW r \in Request, Handle(r) PROVE partitions' = partitions
    BY <1>1 DEF Handle, Open, Answer, Enqueue, Lose, Insert
<1>2. ASSUME NEW p \in Project, Delete(p) PROVE partitions' = partitions
    BY <1>2 DEF Delete, DeleteProject, DeleteTraces, DeleteBodies, DeleteRow, BodiesFail,
                DeleteFails
<1>3. ASSUME NEW m \in Maintainer, Ensure(m) \/ Maintain(m)
      PROVE  partitions' \subseteq partitions \/ CreateMonth(m)
    BY <1>3 DEF Maintain, Ensure, CreateMonth, Created, List, Drop, Dropped, Purge, Purged,
                DropFails, PurgeFails, GiveUp
<1>4. ASSUME NEW m \in Maintainer, CreateMonth(m)
      PROVE  \A t \in partitions' : t \in partitions \/ month <= t + 1
  <2>1. PICK u \in todo[m] : partitions' = partitions \cup {u}
    BY <1>4 DEF CreateMonth
  <2>2. month <= mnow[m] + 1 /\ mnow[m] <= u
    BY <1>4, <2>1 DEF PassIsRecent, CreateMonth
  <2>3. month \in Nat /\ mnow[m] \in Nat /\ u \in Nat
    BY <1>0, <2>1, ConfigOK DEF TypeOK, Month
  <2> QED BY <2>1, <2>2, <2>3
<1>5. CASE NextMonth
    BY <1>5 DEF NextMonth
<1> QED BY <1>1, <1>2, <1>3, <1>4, <1>5 DEF Next

\* What was dropped for good stays so.
LEMMA StepGone ==
    ASSUME LifecycleInv, PassIsRecent, Next, NEW t \in Nat, Gone(t)
    PROVE  Gone(t)'
<1>0. TypeOK /\ TypeOK'
    BY StepTypeOK DEF LifecycleInv
<1>1. month \in Nat /\ month' \in Nat /\ Retention \in Nat
    BY <1>0, ConfigOK DEF TypeOK
<1>2. Retention > 0 /\ t + Retention < month /\ t \notin partitions
    BY DEF Gone, Expired
<1>3. t \notin partitions'
    BY <1>1, <1>2, StepPartitionsNew
<1>4. t + Retention < month'
    BY <1>1, <1>2, StepMonth
<1> QED BY <1>2, <1>3, <1>4 DEF Gone, Expired

\* A pass begins in this month, and creates nothing older.
LEMMA StepPassIsRecent ==
    ASSUME LifecycleInv, PassIsRecent, Next
    PROVE  PassIsRecent'
<1>0. TypeOK
    BY DEF LifecycleInv
<1> DEFINE Recent(m) == /\ month' <= mnow'[m] + 1
                        /\ mpc'[m] = "create" => \A t \in todo'[m] : mnow'[m] <= t
<1>1. SUFFICES ASSUME NEW m \in Maintainer, mpc'[m] # "idle"
               PROVE  Recent(m)
    BY DEF PassIsRecent
<1>2. ASSUME mpc[m] # "idle", mnow'[m] = mnow[m], month' = month,
             mpc'[m] = "create" => mpc[m] = "create" /\ todo'[m] \subseteq todo[m]
      PROVE  Recent(m)
    BY <1>2 DEF PassIsRecent
<1>3. ASSUME NEW n \in Maintainer, Ensure(n) \/ Maintain(n), n # m PROVE Recent(m)
  <2>1. /\ mpc'[m] = mpc[m] /\ mnow'[m] = mnow[m] /\ todo'[m] = todo[m] /\ month' = month
    BY <1>0, <1>3 DEF TypeOK, Maintain, Ensure, CreateMonth, Created, List, Drop, Dropped, Purge,
                      Purged, DropFails, PurgeFails, GiveUp, Return, Data
  <2> QED BY <1>1, <1>2, <2>1
<1>4. CASE Ensure(m)
    BY <1>0, <1>4, ConfigOK DEF Ensure, Data, TypeOK
<1>5. ASSUME Maintain(m) PROVE Recent(m)
  <2>1. month' = month /\ mpc[m] # "idle"
    BY <1>5 DEF Maintain, CreateMonth, Created, List, Drop, Dropped, Purge, Purged, DropFails,
                PurgeFails, GiveUp, Data
  <2>2. mnow'[m] = mnow[m]
    BY <1>0, <1>1, <1>5 DEF TypeOK, Maintain, CreateMonth, Created, List, Drop, Dropped, Purge,
                            Purged, DropFails, PurgeFails, GiveUp, Return
  <2>3. mpc'[m] = "create" => mpc[m] = "create" /\ todo'[m] \subseteq todo[m]
    BY <1>0, <1>5 DEF TypeOK, Maintain, CreateMonth, Created, List, Drop, Dropped, Purge, Purged,
                      DropFails, PurgeFails, GiveUp, Return
  <2> QED BY <1>2, <2>1, <2>2, <2>3
<1>6. ASSUME UNCHANGED <<month, maintainers>> PROVE Recent(m)
    BY <1>1, <1>6 DEF maintainers, PassIsRecent
<1>7. ASSUME NEW r \in Request, Handle(r) PROVE UNCHANGED <<month, maintainers>>
    BY <1>7 DEF Handle, Open, Answer, Enqueue, Lose, Insert
<1>8. ASSUME NEW p \in Project, Delete(p) PROVE UNCHANGED <<month, maintainers>>
    BY <1>8 DEF Delete, DeleteProject, DeleteTraces, DeleteBodies, DeleteRow, BodiesFail,
                DeleteFails
<1>9. CASE NextMonth
  <2>1. mnow[m] = month /\ mpc'[m] = mpc[m] /\ mnow'[m] = mnow[m] /\ todo'[m] = todo[m]
    BY <1>1, <1>9 DEF NextMonth, maintainers
  <2>2. month' = month + 1 /\ month \in Nat
    BY <1>0, <1>9 DEF NextMonth, TypeOK
  <2>3. mpc[m] # "idle" /\ (mpc[m] = "create" => \A t \in todo[m] : mnow[m] <= t)
    BY <1>1, <2>1 DEF PassIsRecent
  <2> QED BY <2>1, <2>2, <2>3
<1> QED BY <1>3, <1>4, <1>5, <1>6, <1>7, <1>8, <1>9 DEF Next
\* What a pass has dropped is gone, and it purges nothing else.
LEMMA StepPurgesGone ==
    ASSUME LifecycleInv, PassIsRecent, PurgesGone, Next
    PROVE  PurgesGone'
<1>0. TypeOK /\ DropsExpired
    BY DEF LifecycleInv
<1> DEFINE Purges(m) == /\ mpc'[m] \in {"list", "drop"} => Retention > 0
                        /\ \A t \in dropped'[m] : Gone(t)'
                        /\ \A x \in targets'[m] : Gone(x[2])'
<1>1. SUFFICES ASSUME NEW m \in Maintainer
               PROVE  Purges(m)
    BY DEF PurgesGone
<1>2. /\ mpc[m] \in {"list", "drop"} => Retention > 0
      /\ \A t \in dropped[m] : t \in Nat /\ Gone(t)
      /\ \A x \in targets[m] : x[2] \in Nat /\ Gone(x[2])
    BY <1>0, ConfigOK DEF PurgesGone, TypeOK, Month
<1>3. /\ \A t \in dropped[m] : Gone(t)'
      /\ \A x \in targets[m] : Gone(x[2])'
    BY <1>2, StepGone
<1>4. ASSUME dropped'[m] = dropped[m], targets'[m] \subseteq targets[m],
             mpc'[m] \in {"list", "drop"} => mpc[m] \in {"list", "drop"} \/ Retention > 0
      PROVE  Purges(m)
    BY <1>2, <1>3, <1>4
<1>5. ASSUME NEW n \in Maintainer, Ensure(n) \/ Maintain(n), n # m PROVE Purges(m)
  <2>1. /\ mpc'[m] = mpc[m] /\ dropped'[m] = dropped[m] /\ targets'[m] = targets[m]
    BY <1>0, <1>5 DEF TypeOK, Maintain, Ensure, CreateMonth, Created, List, Drop, Dropped, Purge,
                      Purged, DropFails, PurgeFails, GiveUp, Return
  <2> QED BY <1>4, <2>1
<1>6. CASE Drop(m)
  <2>1. PICK t \in todo[m] : /\ dropped'[m] = dropped[m] \cup {t}
                             /\ partitions' = partitions \ {t}
    BY <1>0, <1>6 DEF Drop, TypeOK
  <2>2. /\ mpc[m] = "drop" /\ t + Retention < mnow[m] /\ mnow[m] <= month
        /\ mnow[m] \in Nat /\ month \in Nat /\ t \in Nat /\ Retention \in Nat
    BY <1>0, <1>6, ConfigOK DEF Drop, DropsExpired, TypeOK, Month
  <2>3. Gone(t)'
    BY <1>2, <1>6, <2>1, <2>2 DEF Gone, Expired, Drop, Data
  <2>4. targets' = targets
    BY <1>6 DEF Drop
  <2> QED BY <1>2, <1>3, <2>1, <2>2, <2>3, <2>4
<1>7. CASE Dropped(m)
  <2>1. targets'[m] = projects \X dropped[m] /\ dropped'[m] = {} /\ mpc'[m] = "purge"
    BY <1>0, <1>7 DEF Dropped, TypeOK
  <2> QED BY <1>3, <2>1
<1>8. ASSUME Ensure(m) \/ CreateMonth(m) \/ Created(m) \/ List(m) \/ Purge(m) \/ DropFails(m)
                \/ PurgeFails(m)
      PROVE  Purges(m)
  <2>1. dropped'[m] = dropped[m]
    BY <1>8 DEF Ensure, CreateMonth, Created, List, Purge, DropFails, PurgeFails
  <2>2. targets'[m] \subseteq targets[m]
    BY <1>0, <1>8 DEF TypeOK, Ensure, CreateMonth, Created, List, Purge, DropFails, PurgeFails
  <2>3. mpc'[m] \in {"list", "drop"} => mpc[m] \in {"list", "drop"} \/ Retention > 0
    BY <1>0, <1>8, ConfigOK DEF TypeOK, Ensure, CreateMonth, Created, List, Purge, DropFails,
                                PurgeFails
  <2> QED BY <1>4, <2>1, <2>2, <2>3
<1>9. ASSUME Purged(m) \/ GiveUp(m) PROVE Purges(m)
  <2>1. mpc'[m] = "idle" /\ dropped'[m] = {} /\ targets'[m] = {}
    BY <1>0, <1>9 DEF TypeOK, Purged, GiveUp, Return
  <2> QED BY <2>1
<1>10. ASSUME Ensure(m) \/ Maintain(m) PROVE Purges(m)
    BY <1>6, <1>7, <1>8, <1>9, <1>10 DEF Maintain
<1>11. ASSUME UNCHANGED maintainers PROVE Purges(m)
    BY <1>2, <1>3, <1>11 DEF maintainers
<1>12. ASSUME NEW r \in Request, Handle(r) PROVE UNCHANGED maintainers
    BY <1>12 DEF Handle, Open, Answer, Enqueue, Lose, Insert
<1>13. ASSUME NEW p \in Project, Delete(p) PROVE UNCHANGED maintainers
    BY <1>13 DEF Delete, DeleteProject, DeleteTraces, DeleteBodies, DeleteRow, BodiesFail,
                 DeleteFails
<1>14. NextMonth => UNCHANGED maintainers
    BY DEF NextMonth
<1> HIDE DEF Purges
<1> QED BY <1>5, <1>10, <1>11, <1>12, <1>13, <1>14 DEF Next

\* A body leaves with its month, or with its project.
LEMMA StepBody ==
    ASSUME LifecycleInv, PurgesGone, Next, NEW r \in body
    PROVE  r \in body' \/ Gone(bodyMonth[r]) \/ ~Alive(r)
<1>0. TypeOK /\ DeletesTouched
    BY DEF LifecycleInv
<1>1. ASSUME NEW q \in Request, Handle(q) PROVE r \in body'
    BY <1>1 DEF Handle, Open, Answer, Enqueue, Lose, Insert
<1>2. ASSUME NEW p \in Project, Delete(p) PROVE r \in body' \/ ~Alive(r)
    BY <1>0, <1>2 DEF Delete, DeleteProject, DeleteTraces, DeleteBodies, DeleteRow, BodiesFail,
                      DeleteFails, Mine, Alive, DeletesTouched
<1>3. ASSUME NEW m \in Maintainer, Purge(m) \/ PurgeFails(m)
      PROVE  r \in body' \/ Gone(bodyMonth[r])
  <2>1. PICK x \in targets[m] : body \ Under(x[1], x[2]) \subseteq body'
    BY <1>3 DEF Purge, PurgeFails
  <2>2. Gone(x[2])
    BY <2>1 DEF PurgesGone
  <2> QED BY <2>1, <2>2 DEF Under
<1>4. ASSUME NEW m \in Maintainer, Ensure(m) \/ Maintain(m)
      PROVE  body' = body \/ Purge(m) \/ PurgeFails(m)
    BY <1>4 DEF Maintain, Ensure, CreateMonth, Created, List, Drop, Dropped, Purged, DropFails,
                GiveUp
<1>5. CASE NextMonth
    BY <1>5 DEF NextMonth
<1> QED BY <1>1, <1>2, <1>3, <1>4, <1>5 DEF Next

\* Keys are made by Answer, with the body, in the month it is then.
LEMMA StepKeys ==
    ASSUME LifecycleInv, Next, NEW r \in Request
    PROVE  /\ of' = of
           /\ \/ /\ created'[r] = created[r] /\ bodyMonth'[r] = bodyMonth[r] /\ key'[r] = key[r]
                 /\ stage[r] # "new" => stage'[r] # "new"
              \/ stage[r] = "new" /\ created'[r] = month /\ bodyMonth'[r] = month /\ key' = key
                 /\ stage'[r] # "new"
              \/ /\ created'[r] = created[r] /\ bodyMonth'[r] = month /\ r \in body'
                 /\ stage'[r] # "new"
<1>0. TypeOK
    BY DEF LifecycleInv
<1> DEFINE Kept == /\ of' = of
                   /\ \/ /\ created'[r] = created[r] /\ bodyMonth'[r] = bodyMonth[r] /\ key'[r] = key[r]
                         /\ stage[r] # "new" => stage'[r] # "new"
                      \/ stage[r] = "new" /\ created'[r] = month /\ bodyMonth'[r] = month
                         /\ key' = key /\ stage'[r] # "new"
                      \/ /\ created'[r] = created[r] /\ bodyMonth'[r] = month /\ r \in body'
                         /\ stage'[r] # "new"
<1>1. ASSUME NEW q \in Request, Open(q) PROVE Kept
    BY <1>0, <1>1 DEF TypeOK, Open
<1>2. ASSUME NEW q \in Request, Answer(q) PROVE Kept
    BY <1>0, <1>2 DEF TypeOK, Answer
<1>3. ASSUME NEW q \in Request, Enqueue(q) \/ Lose(q) \/ Insert(q) PROVE Kept
    BY <1>0, <1>3 DEF TypeOK, Enqueue, Lose, Insert
<1>4. ASSUME UNCHANGED requests PROVE Kept
    BY <1>4 DEF requests
<1>5. ASSUME NEW p \in Project, Delete(p) PROVE UNCHANGED requests
    BY <1>5 DEF Delete, DeleteProject, DeleteTraces, DeleteBodies, DeleteRow, BodiesFail,
                DeleteFails
<1>6. ASSUME NEW m \in Maintainer, Ensure(m) \/ Maintain(m) PROVE UNCHANGED requests
    BY <1>6 DEF Maintain, Ensure, CreateMonth, Created, List, Drop, Dropped, Purge, Purged,
                DropFails, PurgeFails, GiveUp, Data
<1>7. NextMonth => UNCHANGED requests
    BY DEF NextMonth
<1> HIDE DEF Kept
<1>8. Kept
    BY <1>1, <1>2, <1>3, <1>4, <1>5, <1>6, <1>7 DEF Next, Handle
<1> QED BY <1>8 DEF Kept

\* A body that is named and missing went with its month, or its project.
LEMMA StepBodiesFollow ==
    ASSUME LifecycleInv, BodyInv, Next
    PROVE  BodiesFollow'
<1>0. TypeOK /\ TypeOK' /\ PassIsRecent /\ PurgesGone /\ BodiesFollow
    BY StepTypeOK DEF LifecycleInv, BodyInv
<1>1. SUFFICES ASSUME NEW r \in Request
               PROVE  /\ key'[r] => stage'[r] # "new"
                      /\ created'[r] <= bodyMonth'[r]
                      /\ key'[r] /\ Alive(r)' => r \in body' \/ Gone(bodyMonth[r])'
    BY DEF BodiesFollow
<1>2. /\ key[r] => stage[r] # "new"
      /\ created[r] <= bodyMonth[r]
      /\ key[r] /\ Alive(r) => r \in body \/ Gone(bodyMonth[r])
    BY <1>0 DEF BodiesFollow
<1>3. /\ month \in Nat /\ created[r] \in Nat /\ created[r] <= month /\ bodyMonth[r] \in Nat
    BY <1>0 DEF TypeOK
<1>4. Alive(r)' => Alive(r)
    BY StepDeletesTouched, StepKeys DEF Alive
<1>5. CASE /\ created'[r] = created[r] /\ bodyMonth'[r] = bodyMonth[r] /\ key'[r] = key[r]
           /\ stage[r] # "new" => stage'[r] # "new"
  <2>1. ASSUME Gone(bodyMonth[r]) PROVE Gone(bodyMonth[r])'
    <3>1. ASSUME NEW u \in Nat, Gone(u)
          PROVE  Retention > 0 /\ u + Retention < month' /\ u \notin partitions'
      BY <1>0, <3>1, StepGone DEF Gone, Expired
    <3>2. /\ Retention > 0 /\ bodyMonth[r] + Retention < month'
          /\ bodyMonth[r] \notin partitions'
      BY <1>3, <2>1, <3>1
    <3>3. /\ Retention > 0 /\ bodyMonth'[r] + Retention < month'
          /\ bodyMonth'[r] \notin partitions'
      BY <1>5, <3>2
    <3> QED BY <3>3 DEF Gone, Expired
  <2>2. key[r] /\ Alive(r) => r \in body' \/ Gone(bodyMonth[r])
    BY <1>0, <1>2, StepBody
  <2>3. key'[r] /\ Alive(r)' => r \in body' \/ Gone(bodyMonth[r])'
    BY <1>4, <1>5, <2>1, <2>2
  <2> QED BY <1>2, <1>5, <2>3
<1>6. CASE stage[r] = "new" /\ created'[r] = month /\ bodyMonth'[r] = month /\ key' = key
           /\ stage'[r] # "new"
    BY <1>2, <1>3, <1>6
<1>7. CASE /\ created'[r] = created[r] /\ bodyMonth'[r] = month /\ r \in body'
           /\ stage'[r] # "new"
    BY <1>3, <1>7
<1> QED BY <1>5, <1>6, <1>7, StepKeys

\* The invariant of the bodies, with any number of maintainers and deletions.
THEOREM BodiesInvariant == Spec => []BodyInv
<1>1. Init => BodyInv
    BY DEF Init, BodyInv, PassIsRecent, PurgesGone, BodiesFollow
<1>2. LifecycleInv /\ BodyInv /\ [Next]_vars => BodyInv'
  <2>1. ASSUME LifecycleInv, BodyInv, Next PROVE BodyInv'
    BY <2>1, StepPassIsRecent, StepPurgesGone, StepBodiesFollow DEF BodyInv
  <2>2. ASSUME BodyInv, UNCHANGED vars PROVE BodyInv'
    BY <2>2 DEF BodyInv, PassIsRecent, PurgesGone, BodiesFollow, Gone, Alive, Expired, vars,
                requests, maintainers, deletes
  <2> QED BY <2>1, <2>2
<1> QED BY <1>1, <1>2, LifecycleInvariant, PTL DEF Spec

\* A row that can still be seen has the body it names, whichever of two months' partitions
\* was dropped and wherever passes, purges and deletions fail.
THEOREM RowsKeepTheirBodies == Spec => []RowKeepsBody
<1>1. LifecycleInv /\ BodyInv => RowKeepsBody
  <2>1. SUFFICES ASSUME LifecycleInv, BodyInv, NEW r \in rows, key[r], Alive(r),
                        bodyMonth[r] = created[r] \/ ~Expired(created[r]), r \notin body
                 PROVE  FALSE
    BY DEF RowKeepsBody
  <2>2. /\ r \in Request /\ created[r] \in partitions /\ created[r] \in Nat
        /\ bodyMonth[r] \in Nat /\ month \in Nat /\ Retention \in Nat
    BY <2>1, ConfigOK DEF LifecycleInv, TypeOK
  <2>3. Gone(bodyMonth[r]) /\ created[r] <= bodyMonth[r]
    BY <2>1, <2>2 DEF BodyInv, BodiesFollow
  <2> QED BY <2>1, <2>2, <2>3 DEF Gone, Expired
<1> QED BY <1>1, LifecycleInvariant, BodiesInvariant, PTL
--------------------------------------------------------------------------------
(* DeletedWithItsTraces: a deletion that came to its end left nothing *)

\* A request that is over gets no new row, no new body and no other stage.
LEMMA StepOver ==
    ASSUME LifecycleInv, Next, NEW q \in Request, stage[q] \in {"stored", "lost"}
    PROVE  /\ of' = of /\ stage'[q] = stage[q]
           /\ q \notin rows => q \notin rows'
           /\ q \notin body => q \notin body'
<1>0. TypeOK
    BY DEF LifecycleInv
<1>1. of' = of
    BY StepKeys
<1> DEFINE Over == /\ stage'[q] = stage[q]
                   /\ q \notin rows => q \notin rows'
                   /\ q \notin body => q \notin body'
<1>2. ASSUME NEW r \in Request, Handle(r) PROVE Over
  <2>1. CASE Open(r)
    BY <1>0, <2>1 DEF TypeOK, Open
  <2>2. CASE Answer(r)
    BY <1>0, <2>2 DEF TypeOK, Answer
  <2>3. CASE Enqueue(r)
    BY <1>0, <2>3 DEF TypeOK, Enqueue
  <2>4. CASE Lose(r)
    BY <1>0, <2>4 DEF TypeOK, Lose
  <2>5. CASE Insert(r)
    BY <1>0, <2>5 DEF TypeOK, Insert
  <2> QED BY <1>2, <2>1, <2>2, <2>3, <2>4, <2>5 DEF Handle
<1>3. ASSUME NEW m \in Maintainer, Ensure(m) \/ Maintain(m) PROVE Over
    BY <1>3 DEF Maintain, Ensure, CreateMonth, Created, List, Drop, Dropped, Purge, Purged,
                DropFails, PurgeFails, GiveUp, Data, requests
<1>4. ASSUME NEW p \in Project, Delete(p) PROVE Over
    BY <1>4 DEF Delete, DeleteProject, DeleteTraces, DeleteBodies, DeleteRow, BodiesFail,
                DeleteFails, requests
<1>5. NextMonth => Over
    BY DEF NextMonth, requests
<1> HIDE DEF Over
<1>6. Over
    BY <1>2, <1>3, <1>4, <1>5 DEF Next
<1> QED BY <1>1, <1>6 DEF Over

\* What a deletion of p settles when it begins, and which of p's rows and bodies are gone
\* when it has come to its next statement.
LEMMA StepDeletion ==
    ASSUME LifecycleInv, Next, NEW p \in Project, NEW q \in Mine(p)
    PROVE  /\ \/ q \in settled' => q \in settled
              \/ stage[q] \in {"stored", "lost"} /\ dpc'[p] = "traces" /\ p \in projects'
           /\ dpc'[p] = "bodies" => dpc[p] = "bodies" \/ q \notin rows'
           /\ dpc'[p] = "row" => dpc[p] = "row" \/ (dpc[p] = "bodies" /\ q \notin body')
           /\ p \notin projects' => p \notin projects \/ dpc[p] = "row"
<1>0. TypeOK /\ q \in Request /\ of[q] = p
    BY DEF LifecycleInv, Mine
<1> DEFINE Steps ==
           /\ \/ q \in settled' => q \in settled
              \/ stage[q] \in {"stored", "lost"} /\ dpc'[p] = "traces" /\ p \in projects'
           /\ dpc'[p] = "bodies" => dpc[p] = "bodies" \/ q \notin rows'
           /\ dpc'[p] = "row" => dpc[p] = "row" \/ (dpc[p] = "bodies" /\ q \notin body')
           /\ p \notin projects' => p \notin projects \/ dpc[p] = "row"
<1>1. ASSUME UNCHANGED <<projects, dpc, settled>> PROVE Steps
    BY <1>1
<1>2. ASSUME NEW r \in Request, Handle(r) PROVE UNCHANGED <<projects, dpc, settled>>
    BY <1>2 DEF Handle, Open, Answer, Enqueue, Lose, Insert, deletes
<1>3. ASSUME NEW m \in Maintainer, Ensure(m) \/ Maintain(m)
      PROVE  UNCHANGED <<projects, dpc, settled>>
    BY <1>3 DEF Maintain, Ensure, CreateMonth, Created, List, Drop, Dropped, Purge, Purged,
                DropFails, PurgeFails, GiveUp, Data, deletes
<1>4. NextMonth => UNCHANGED <<projects, dpc, settled>>
    BY DEF NextMonth, deletes
<1>5. ASSUME NEW o \in Project, Delete(o) PROVE Steps
  <2> USE <1>0 DEF TypeOK, DStep, Mine
  <2>1. CASE DeleteProject(o)
    BY <2>1 DEF DeleteProject
  <2>2. CASE DeleteTraces(o)
    BY <2>2 DEF DeleteTraces
  <2>3. CASE DeleteBodies(o)
    BY <2>3 DEF DeleteBodies
  <2>4. CASE DeleteRow(o)
    BY <2>4 DEF DeleteRow
  <2>5. CASE BodiesFail(o) \/ DeleteFails(o)
    BY <2>5 DEF BodiesFail, DeleteFails
  <2> QED BY <1>5, <2>1, <2>2, <2>3, <2>4, <2>5 DEF Delete
<1> HIDE DEF Steps
<1>6. Steps
    BY <1>1, <1>2, <1>3, <1>4, <1>5 DEF Next
<1> QED BY <1>6 DEF Steps

\* However deletions fail and begin anew, what was over stays as it was left.
LEMMA StepDeletesSettled ==
    ASSUME LifecycleInv, DeletesSettled, Next
    PROVE  DeletesSettled'
<1>0. TypeOK /\ TypeOK'
    BY StepTypeOK DEF LifecycleInv
<1>1. ASSUME NEW q \in Request, q \in settled' PROVE stage[q] \in {"stored", "lost"}
    BY <1>0, <1>1, StepDeletion DEF DeletesSettled, TypeOK, Mine
<1>2. \A q \in settled' : stage'[q] \in {"stored", "lost"}
    BY <1>0, <1>1, StepOver DEF TypeOK
<1>3. ASSUME NEW p \in Project, NEW q \in Request, of'[q] = p, q \in settled'
      PROVE  /\ dpc'[p] \in {"bodies", "row"} \/ p \notin projects' => q \notin rows'
             /\ dpc'[p] = "row" \/ p \notin projects' => q \notin body'
  <2>1. stage[q] \in {"stored", "lost"} /\ of' = of /\ q \in Mine(p)
    BY <1>1, <1>3, StepOver DEF Mine
  <2>2. CASE q \in settled
    <3>1. /\ dpc[p] \in {"bodies", "row"} \/ p \notin projects => q \notin rows
          /\ dpc[p] = "row" \/ p \notin projects => q \notin body
      BY <2>1, <2>2 DEF DeletesSettled
    <3> QED BY <2>1, <3>1, StepOver, StepDeletion
  <2>3. CASE q \notin settled
    BY <1>3, <2>1, <2>3, StepDeletion
  <2> QED BY <2>2, <2>3
<1> QED BY <1>2, <1>3 DEF DeletesSettled, Mine

\* The invariant of deletions.
THEOREM DeletionInvariant == Spec => []DeletesSettled
<1>1. Init => DeletesSettled
    BY DEF Init, DeletesSettled
<1>2. LifecycleInv /\ DeletesSettled /\ [Next]_vars => DeletesSettled'
  <2>1. ASSUME DeletesSettled, UNCHANGED vars PROVE DeletesSettled'
    BY <2>1 DEF DeletesSettled, Mine, vars, requests, deletes
  <2> QED BY <2>1, StepDeletesSettled
<1> QED BY <1>1, <1>2, LifecycleInvariant, PTL DEF Spec

\* Of a project that is gone nothing is left that was complete when its deletion was last
\* begun, however often it failed half way, and whatever requests and passes did meanwhile.
THEOREM DeletedProjectsLeaveNothing == Spec => []DeletedWithItsTraces
<1>1. DeletesSettled => DeletedWithItsTraces
    BY DEF DeletesSettled, DeletedWithItsTraces
<1> QED BY <1>1, DeletionInvariant, PTL
================================================================================
