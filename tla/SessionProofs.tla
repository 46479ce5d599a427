---------------------------- MODULE SessionProofs ----------------------------
(***************************************************************************)
(* Theorems about Session, for any set of tabs and any bounds.             *)
(***************************************************************************)
EXTENDS Session, TLAPS

\* The initial state is of the types.
LEMMA InitTypeOK == Init => TypeOK
    BY BoundsNat DEF Init, TypeOK, Path, Protected, Landing

\* A subscriber that hears of token s keeps the types of its tab's flags.
LEMMA HearsTypes ==
    ASSUME TypeOK, NEW t \in Tab, NEW s, Hears(t, s)
    PROVE  /\ authed' \in [Tab -> BOOLEAN] /\ listening' \in [Tab -> BOOLEAN]
           /\ due' \in [Tab -> BOOLEAN] /\ missed' \in [Tab -> BOOLEAN]
    BY DEF TypeOK, Hears

\* So does a component that mounts.
LEMMA MountsTypes ==
    ASSUME TypeOK, NEW t \in Tab, NEW s, NEW l \in BOOLEAN, Mounts(t, s, l)
    PROVE  /\ authed' \in [Tab -> BOOLEAN] /\ listening' \in [Tab -> BOOLEAN]
           /\ due' \in [Tab -> BOOLEAN] /\ missed' \in [Tab -> BOOLEAN]
    BY DEF TypeOK, Mounts

\* A write tells of it in one flag per tab.
LEMMA WriteTypes ==
    ASSUME TypeOK, NEW t \in Tab, NEW s, Write(t, s)
    PROVE  note' \in [Tab -> BOOLEAN]
    BY DEF TypeOK, Write

\* A click keeps the types of page and flags.
LEMMA GoesTypes ==
    ASSUME TypeOK, NEW t \in Tab, NEW p \in Path, Goes(t, p)
    PROVE  /\ loc' \in [Tab -> Path]
           /\ authed' \in [Tab -> BOOLEAN] /\ listening' \in [Tab -> BOOLEAN]
           /\ due' \in [Tab -> BOOLEAN] /\ missed' \in [Tab -> BOOLEAN]
<1>1. loc' \in [Tab -> Path]
    BY DEF TypeOK, Goes
<1>2. CASE (loc[t] \in Protected) = (p \in Protected)
    BY <1>1, <1>2 DEF TypeOK, Goes
<1>3. CASE ~((loc[t] \in Protected) = (p \in Protected))
    <2>1. Mounts(t, store, TRUE)
        BY <1>3 DEF Goes
    <2> QED BY <1>1, <2>1, MountsTypes
<1> QED BY <1>2, <1>3

\* A step of a tab keeps the types.
LEMMA TabTypeOK ==
    ASSUME TypeOK, NEW t \in Tab, TabStep(t)
    PROVE  TypeOK'
<1> USE DEF TypeOK, server, page, flag
<1>0. Protected \subseteq Path /\ Landing \subseteq Path
    BY DEF Path
<1>1. CASE Deliver(t)
    <2>1. Hears(t, store) /\ note' = [note EXCEPT ![t] = FALSE]
          /\ UNCHANGED <<store, server, page, flight>>
        BY <1>1 DEF Deliver
    <2> QED BY <2>1, HearsTypes
<1>2. CASE Redirect(t)
    <2>1. Mounts(t, store, FALSE) /\ loc' = [loc EXCEPT ![t] = "/login"]
          /\ modal' = [modal EXCEPT ![t] = FALSE] /\ busy' = [busy EXCEPT ![t] = FALSE]
          /\ from' = [from EXCEPT ![t] = loc[t]] /\ loc[t] \in Protected
          /\ UNCHANGED <<store, server, note, flight>>
        BY <1>2 DEF Redirect, MovesOn
    <2> QED BY <1>0, <2>1, MountsTypes DEF Landing
<1>3. CASE Guarded(t)
    BY <1>3 DEF Guarded
<1>4. CASE SkipLogin(t)
    <2>1. Mounts(t, store, FALSE) /\ loc' = [loc EXCEPT ![t] = "/projects"]
          /\ modal' = [modal EXCEPT ![t] = FALSE] /\ busy' = [busy EXCEPT ![t] = FALSE]
          /\ from' = [from EXCEPT ![t] = "/projects"]
          /\ UNCHANGED <<store, server, note, flight>>
        BY <1>4 DEF SkipLogin, MovesOn
    <2> QED BY <1>0, <2>1, MountsTypes DEF Protected
<1>5. CASE SyncModal(t)
    <2>1. (busy[t] /\ loc[t] = "/login") \in BOOLEAN /\ (loc[t] = "/login") \in BOOLEAN
        OBVIOUS
    <2> QED BY <1>5, <2>1 DEF SyncModal
<1>6. CASE OpenConsole(t)
    <2>1. \E p \in Path : Goes(t, p)
        BY <1>0, <1>6 DEF OpenConsole, Protected, Landing
    <2> QED BY <1>6, <2>1, GoesTypes DEF OpenConsole, Protected
<1>7. CASE CloseLogin(t)
    <2>1. "/" \in Path /\ Goes(t, "/")
        BY <1>0, <1>7 DEF CloseLogin, Landing
    <2> QED BY <1>7, <2>1, GoesTypes DEF CloseLogin, Protected
<1>8. CASE Submit(t)
    <2>1. [tab |-> t, for |-> "login", from |-> from[t]] \in Request
        BY DEF Request
    <2> QED BY <1>8, <2>1 DEF Submit, Send
<1>9. CASE Ask(t)
    <2>1. [tab |-> t, for |-> "page", token |-> store] \in Request
        BY BoundsNat DEF Request
    <2> QED BY <1>9, <2>1 DEF Ask, Send
<1>10. CASE Logout(t)
    <2>1. Mounts(t, 0, TRUE) /\ Write(t, 0) /\ store' = 0 /\ loc' = [loc EXCEPT ![t] = "/login"]
          /\ from' = [from EXCEPT ![t] = "/projects"]
          /\ UNCHANGED <<server, modal, busy, flight>>
        BY <1>10 DEF Logout, Write
    <2>2. store' \in 0..issued' /\ issued' = issued /\ expired' = expired
        BY <2>1, BoundsNat
    <2>3. note' \in [Tab -> BOOLEAN]
        BY <2>1, WriteTypes
    <2>4. /\ authed' \in [Tab -> BOOLEAN] /\ listening' \in [Tab -> BOOLEAN]
          /\ due' \in [Tab -> BOOLEAN] /\ missed' \in [Tab -> BOOLEAN]
        BY <2>1, MountsTypes
    <2> QED BY <1>0, <2>1, <2>2, <2>3, <2>4 DEF Protected, Landing
<1>11. ASSUME NEW p \in Path, Follow(t, p) PROVE TypeOK'
    BY <1>11, GoesTypes DEF Follow, Protected
<1>12. ASSUME NEW p \in Path, Open(t, p) PROVE TypeOK'
    <2>1. Mounts(t, store, FALSE)
        BY <1>12 DEF Open
    <2> QED BY <1>12, <2>1, MountsTypes DEF Open, Protected
<1> QED BY <1>1, <1>2, <1>3, <1>4, <1>5, <1>6, <1>7, <1>8, <1>9, <1>10, <1>11, <1>12
        DEF TabStep, Effects

\* An answer keeps the types.
LEMMA AnswerTypeOK ==
    ASSUME TypeOK, NEW r \in flight, LoggedIn(r) \/ Refused(r) \/ Settled(r)
    PROVE  TypeOK'
<1> USE DEF TypeOK, server, page, flag
<1>0. r \in Request /\ r.tab \in Tab /\ (r.for = "login" => r.from \in Protected)
    BY DEF Request
<1>a. (busy[r.tab] /\ r.for # "login") \in BOOLEAN
    OBVIOUS
<1>1. CASE LoggedIn(r)
    <2>1. issued' = issued + 1 /\ issued' \in 0..MaxToken /\ store' = issued' /\ expired' = expired
        BY <1>1, BoundsNat DEF LoggedIn, Write
    <2>2. store' \in 0..issued' /\ expired' \in 0..issued'
        BY <2>1, BoundsNat
    <2>3. note' \in [Tab -> BOOLEAN]
        BY <1>0, <1>1, WriteTypes DEF LoggedIn
    <2>4. Hears(r.tab, issued') \/ Mounts(r.tab, issued', FALSE)
        BY <1>1 DEF LoggedIn
    <2>5. /\ authed' \in [Tab -> BOOLEAN] /\ listening' \in [Tab -> BOOLEAN]
          /\ due' \in [Tab -> BOOLEAN] /\ missed' \in [Tab -> BOOLEAN]
        BY <1>0, <2>4, HearsTypes, MountsTypes
    <2> QED BY <1>0, <1>1, <2>1, <2>2, <2>3, <2>5 DEF LoggedIn, Path, Protected
<1>2. CASE Refused(r)
    <2>1. Write(r.tab, 0) /\ Hears(r.tab, 0) /\ store' = 0
        BY <1>2 DEF Refused, Write
    <2>2. note' \in [Tab -> BOOLEAN]
        BY <1>0, <2>1, WriteTypes
    <2>3. /\ authed' \in [Tab -> BOOLEAN] /\ listening' \in [Tab -> BOOLEAN]
          /\ due' \in [Tab -> BOOLEAN] /\ missed' \in [Tab -> BOOLEAN]
        BY <1>0, <2>1, HearsTypes
    <2>4. store' \in 0..issued' /\ issued' = issued /\ expired' = expired
        BY <1>2, <2>1, BoundsNat DEF Refused
    <2>5. /\ busy' \in [Tab -> BOOLEAN] /\ flight' \subseteq Request
          /\ UNCHANGED <<loc, from, modal>>
        BY <1>0, <1>a, <1>2 DEF Refused
    <2> QED BY <2>2, <2>3, <2>4, <2>5
<1>3. CASE Settled(r)
    BY <1>0, <1>a, <1>3 DEF Settled
<1> QED BY <1>1, <1>2, <1>3

\* Every step keeps the types.
LEMMA StepTypeOK == TypeOK /\ [Next]_vars => TypeOK'
<1> SUFFICES ASSUME TypeOK, [Next]_vars PROVE TypeOK'
    OBVIOUS
<1>1. ASSUME NEW t \in Tab, TabStep(t) PROVE TypeOK'
    BY <1>1, TabTypeOK
<1>2. ASSUME NEW r \in flight, LoggedIn(r) \/ Refused(r) \/ Settled(r) PROVE TypeOK'
    BY <1>2, AnswerTypeOK
<1>3. CASE Expire
    BY <1>3, BoundsNat DEF Expire, TypeOK, page, flag
<1>4. CASE UNCHANGED vars
    BY <1>4 DEF vars, server, page, flag, TypeOK
<1> QED BY <1>1, <1>2, <1>3, <1>4 DEF Next

\* Token, pages, flags and requests are of the types whatever the tabs do.
THEOREM TypeCorrect == Spec => []TypeOK
<1> QED BY InitTypeOK, StepTypeOK, PTL DEF Spec

----------------------------------------------------------------------------
(* FlagAgrees *)

\* Whoever hears of token s has a flag that agrees with it, or has missed it; nobody
\* else's is touched.
LEMMA HearsAgrees ==
    ASSUME TypeOK, NEW t \in Tab, NEW s, Hears(t, s)
    PROVE  /\ ~missed'[t] => (authed'[t] <=> s # 0)
           /\ \A u \in Tab \ {t} : authed'[u] = authed[u] /\ missed'[u] = missed[u]
<1> USE DEF TypeOK
<1>0. authed[t] \in BOOLEAN /\ (s # 0) \in BOOLEAN
    OBVIOUS
<1>1. CASE listening[t]
    BY <1>0, <1>1 DEF Hears
<1>2. CASE ~listening[t]
    <2>1. missed'[t] = (authed[t] # (s # 0)) /\ authed' = authed
        BY <1>2 DEF Hears
    <2>2. ~missed'[t] => (authed'[t] <=> s # 0)
        BY <1>0, <2>1
    <2> QED BY <1>2, <2>2 DEF Hears
<1> QED BY <1>1, <1>2

\* So has whoever mounts with it.
LEMMA MountsAgrees ==
    ASSUME TypeOK, NEW t \in Tab, NEW s, NEW l \in BOOLEAN, Mounts(t, s, l)
    PROVE  /\ authed'[t] <=> s # 0
           /\ \A u \in Tab \ {t} : authed'[u] = authed[u] /\ missed'[u] = missed[u]
    BY DEF TypeOK, Mounts

\* Tab t writes a token and takes note of it; the others are told.
LEMMA Told ==
    ASSUME TypeOK, FlagAgrees, NEW t \in Tab, NEW s, NEW l \in BOOLEAN, Write(t, s),
           Hears(t, s) \/ Mounts(t, s, l)
    PROVE  FlagAgrees'
<1>1. ~missed'[t] => (authed'[t] <=> s # 0)
    BY HearsAgrees, MountsAgrees
<1>2. \A u \in Tab \ {t} : authed'[u] = authed[u] /\ missed'[u] = missed[u]
    BY HearsAgrees, MountsAgrees
<1>3. store' = s /\ \A u \in Tab \ {t} : ~note'[u] => ~note[u] /\ s = store
    BY DEF Write, TypeOK
<1> QED BY <1>1, <1>2, <1>3 DEF FlagAgrees

\* Tab t reads the token there is.
LEMMA Looked ==
    ASSUME TypeOK, FlagAgrees, NEW t \in Tab, NEW l \in BOOLEAN, UNCHANGED store,
           \A u \in Tab \ {t} : note'[u] = note[u],
           Hears(t, store) \/ Mounts(t, store, l)
    PROVE  FlagAgrees'
<1>1. ~missed'[t] => (authed'[t] <=> store # 0)
    BY HearsAgrees, MountsAgrees
<1>2. \A u \in Tab \ {t} : authed'[u] = authed[u] /\ missed'[u] = missed[u]
    BY HearsAgrees, MountsAgrees
<1> QED BY <1>1, <1>2 DEF FlagAgrees

\* Nothing of what FlagAgrees speaks of changes.
LEMMA Untouched ==
    ASSUME FlagAgrees, UNCHANGED <<store, note, authed, missed>>
    PROVE  FlagAgrees'
    BY DEF FlagAgrees

\* A click leaves the flag alone or mounts it anew.
LEMMA GoesAgrees ==
    ASSUME TypeOK, FlagAgrees, NEW t \in Tab, NEW p \in Path, Goes(t, p), UNCHANGED <<store, note>>
    PROVE  FlagAgrees'
<1>1. Mounts(t, store, TRUE) \/ UNCHANGED <<authed, missed>>
    BY DEF Goes
<1> QED BY <1>1, Looked, Untouched

\* Every step keeps the flags in agreement.
LEMMA StepFlagAgrees == TypeOK /\ FlagAgrees /\ [Next]_vars => FlagAgrees'
<1> SUFFICES ASSUME TypeOK, FlagAgrees, [Next]_vars PROVE FlagAgrees'
    OBVIOUS
<1>0. Protected \subseteq Path /\ Landing \subseteq Path
    BY DEF Path
<1>1. ASSUME NEW t \in Tab, Deliver(t) PROVE FlagAgrees'
    BY <1>1, Looked DEF Deliver, TypeOK
<1>2. ASSUME NEW t \in Tab, Effects(t) PROVE FlagAgrees'
    <2>1. CASE Redirect(t) \/ SkipLogin(t)
        <3>1. Mounts(t, store, FALSE) /\ UNCHANGED <<store, note>>
            BY <2>1 DEF Redirect, SkipLogin, MovesOn
        <3> QED BY <3>1, Looked
    <2>2. CASE Guarded(t) \/ SyncModal(t)
        BY <2>2, Untouched DEF Guarded, SyncModal
    <2> QED BY <1>2, <2>1, <2>2 DEF Effects
<1>3. ASSUME NEW t \in Tab, OpenConsole(t) PROVE FlagAgrees'
    <2>1. \E p \in Path : Goes(t, p)
        BY <1>0, <1>3 DEF OpenConsole, Protected, Landing
    <2> QED BY <1>3, <2>1, GoesAgrees DEF OpenConsole
<1>4. ASSUME NEW t \in Tab, CloseLogin(t) PROVE FlagAgrees'
    <2>1. "/" \in Path
        BY <1>0 DEF Landing
    <2> QED BY <1>4, <2>1, GoesAgrees DEF CloseLogin
<1>5. ASSUME NEW t \in Tab, Submit(t) \/ Ask(t) PROVE FlagAgrees'
    BY <1>5, Untouched DEF Submit, Ask, flag
<1>6. ASSUME NEW t \in Tab, Logout(t) PROVE FlagAgrees'
    BY <1>6, Told DEF Logout
<1>7. ASSUME NEW t \in Tab, NEW p \in Path, Follow(t, p) PROVE FlagAgrees'
    BY <1>7, GoesAgrees DEF Follow
<1>8. ASSUME NEW t \in Tab, NEW p \in Path, Open(t, p) PROVE FlagAgrees'
    <2>1. Mounts(t, store, FALSE) /\ UNCHANGED store /\ note' = [note EXCEPT ![t] = FALSE]
        BY <1>8 DEF Open
    <2>2. \A u \in Tab \ {t} : note'[u] = note[u]
        BY <2>1 DEF TypeOK
    <2> QED BY <2>1, <2>2, Looked
<1>9. ASSUME NEW r \in flight, LoggedIn(r) PROVE FlagAgrees'
    <2>1. r.tab \in Tab
        BY DEF TypeOK, Request
    <2>2. Write(r.tab, issued') /\ (Hears(r.tab, issued') \/ Mounts(r.tab, issued', FALSE))
        BY <1>9 DEF LoggedIn
    <2> QED BY <2>1, <2>2, Told
<1>10. ASSUME NEW r \in flight, Refused(r) PROVE FlagAgrees'
    <2>1. r.tab \in Tab
        BY DEF TypeOK, Request
    <2>2. Write(r.tab, 0) /\ Hears(r.tab, 0)
        BY <1>10 DEF Refused
    <2> QED BY <2>1, <2>2, Told
<1>11. ASSUME NEW r \in flight, Settled(r) PROVE FlagAgrees'
    BY <1>11, Untouched DEF Settled, flag
<1>12. CASE Expire
    BY <1>12, Untouched DEF Expire, flag
<1>13. CASE UNCHANGED vars
    BY <1>13, Untouched DEF vars, flag
<1> QED BY <1>1, <1>2, <1>3, <1>4, <1>5, <1>6, <1>7, <1>8, <1>9, <1>10, <1>11, <1>12, <1>13
        DEF Next, TabStep

\* However many tabs write the token, and however their events are delayed, a component
\* is out of step with it only while word is on its way or if it was not listening yet.
THEOREM FlagsAgree == Spec => []FlagAgrees
<1>1. Init => FlagAgrees
    BY DEF Init, FlagAgrees
<1> QED BY <1>1, TypeCorrect, StepFlagAgrees, PTL DEF Spec

----------------------------------------------------------------------------
(* ShowsItsPath *)

\* What ShowsItsPath says of one tab; and that a tab whose component does not listen yet
\* has effects to run, so that a login cannot find it at rest with an old flag.
Shows(t) ==
    ~due[t] =>
        /\ loc[t] \in Protected => authed[t]
        /\ loc[t] \in Landing => (modal[t] <=> loc[t] = "/login")
        /\ loc[t] = "/login" => ~authed[t]

Settles == \A t \in Tab : Shows(t) /\ (~listening[t] => due[t])

LEMMA SettlesShows == Settles <=> ShowsItsPath /\ \A t \in Tab : ~listening[t] => due[t]
    BY DEF Settles, Shows, ShowsItsPath

\* It is enough to look at the tab that moves, if no other's page or flags change.
LEMMA OneTab ==
    ASSUME Settles, NEW t \in Tab,
           \A u \in Tab \ {t} : /\ loc'[u] = loc[u] /\ modal'[u] = modal[u]
                                /\ authed'[u] = authed[u] /\ due'[u] = due[u]
                                /\ listening'[u] = listening[u],
           Shows(t)', ~listening'[t] => due'[t]
    PROVE  Settles'
    BY DEF Settles, Shows

\* A subscriber whose flag changes renders anew; another keeps its flag.
LEMMA HearsSettles ==
    ASSUME TypeOK, NEW t \in Tab, NEW s, Hears(t, s), ~listening[t] => due[t]
    PROVE  /\ ~listening'[t] => due'[t]
           /\ ~due'[t] => ~due[t] /\ authed'[t] = authed[t] /\ (authed'[t] <=> s # 0)
           /\ \A u \in Tab \ {t} : /\ authed'[u] = authed[u] /\ due'[u] = due[u]
                                   /\ listening'[u] = listening[u]
<1> USE DEF TypeOK
<1>0. authed[t] \in BOOLEAN /\ due[t] \in BOOLEAN /\ (s # 0) \in BOOLEAN
    OBVIOUS
<1>1. CASE listening[t]
    <2>1. /\ authed'[t] = (s # 0) /\ listening' = listening
          /\ due'[t] = (due[t] \/ authed[t] # (s # 0))
        BY <1>1 DEF Hears
    <2>2. ~due'[t] => ~due[t] /\ authed'[t] = authed[t]
        BY <1>0, <2>1
    <2> QED BY <1>0, <1>1, <2>1, <2>2 DEF Hears
<1>2. CASE ~listening[t]
    BY <1>2 DEF Hears
<1> QED BY <1>1, <1>2

\* A fresh component has effects to run.
LEMMA MountsSettles ==
    ASSUME TypeOK, NEW t \in Tab, NEW s, NEW l \in BOOLEAN, Mounts(t, s, l)
    PROVE  /\ due'[t]
           /\ \A u \in Tab \ {t} : /\ authed'[u] = authed[u] /\ due'[u] = due[u]
                                   /\ listening'[u] = listening[u]
    BY DEF TypeOK, Mounts

\* So has the page a click leads to.
LEMMA GoesSettles ==
    ASSUME TypeOK, NEW t \in Tab, NEW p, Goes(t, p)
    PROVE  /\ due'[t]
           /\ \A u \in Tab \ {t} : /\ authed'[u] = authed[u] /\ due'[u] = due[u]
                                   /\ listening'[u] = listening[u] /\ loc'[u] = loc[u]
<1>1. \A u \in Tab \ {t} : loc'[u] = loc[u]
    BY DEF Goes, TypeOK
<1>2. CASE (loc[t] \in Protected) = (p \in Protected)
    BY <1>1, <1>2 DEF Goes, TypeOK
<1>3. CASE ~((loc[t] \in Protected) = (p \in Protected))
    <2>1. Mounts(t, store, TRUE)
        BY <1>3 DEF Goes
    <2> QED BY <1>1, <2>1, MountsSettles
<1> QED BY <1>2, <1>3

\* A step of a tab.
LEMMA TabSettles ==
    ASSUME TypeOK, Settles, NEW t \in Tab, TabStep(t)
    PROVE  Settles'
<1>0. Shows(t) /\ (~listening[t] => due[t])
    BY DEF Settles
<1>1. CASE Deliver(t)
    <2>1. Hears(t, store) /\ UNCHANGED <<loc, modal>>
        BY <1>1 DEF Deliver, page
    <2>2. Shows(t)'
        BY <1>0, <2>1, HearsSettles DEF Shows
    <2> QED BY <1>0, <2>1, <2>2, HearsSettles, OneTab
<1>2. CASE Redirect(t) \/ SkipLogin(t)
    <2>1. \E p : MovesOn(t, p)
        BY <1>2 DEF Redirect, SkipLogin
    <2>2. /\ Mounts(t, store, FALSE)
          /\ \A u \in Tab \ {t} : loc'[u] = loc[u] /\ modal'[u] = modal[u]
        BY <2>1 DEF MovesOn, TypeOK
    <2> QED BY <2>2, MountsSettles, OneTab DEF Shows
<1>3. CASE Guarded(t)
    <2>1. /\ authed[t] /\ loc[t] \in Protected /\ UNCHANGED <<loc, modal, authed>>
          /\ listening' = [listening EXCEPT ![t] = TRUE] /\ due' = [due EXCEPT ![t] = FALSE]
        BY <1>3 DEF Guarded, page
    <2>2. Shows(t)' /\ listening'[t]
        BY <2>1 DEF Shows, TypeOK, Protected, Landing
    <2> QED BY <2>1, <2>2, OneTab DEF TypeOK
<1>4. CASE SyncModal(t)
    <2>1. /\ loc[t] \in Landing /\ ~(loc[t] = "/login" /\ authed[t]) /\ UNCHANGED <<loc, authed>>
          /\ listening' = [listening EXCEPT ![t] = TRUE] /\ due' = [due EXCEPT ![t] = FALSE]
          /\ modal' = [modal EXCEPT ![t] = (loc[t] = "/login")]
        BY <1>4 DEF SyncModal
    <2>2. modal'[t] = (loc[t] = "/login") /\ loc[t] \notin Protected
        BY <2>1 DEF TypeOK, Protected, Landing
    <2>3. Shows(t)' /\ listening'[t]
        BY <2>1, <2>2 DEF Shows, TypeOK
    <2> QED BY <2>1, <2>3, OneTab DEF TypeOK
<1>5. CASE OpenConsole(t) \/ CloseLogin(t) \/ \E p \in Path : Follow(t, p)
    <2>1. \E p : Goes(t, p)
        BY <1>5 DEF OpenConsole, CloseLogin, Follow
    <2>2. \A u \in Tab \ {t} : modal'[u] = modal[u]
        BY <1>5 DEF OpenConsole, CloseLogin, Follow, TypeOK
    <2> QED BY <2>1, <2>2, GoesSettles, OneTab DEF Shows
<1>6. CASE Submit(t) \/ Ask(t)
    BY <1>6 DEF Submit, Ask, flag, page, Settles, Shows
<1>7. CASE Logout(t)
    <2>1. /\ Mounts(t, 0, TRUE)
          /\ \A u \in Tab \ {t} : loc'[u] = loc[u] /\ modal'[u] = modal[u]
        BY <1>7 DEF Logout, TypeOK
    <2> QED BY <2>1, MountsSettles, OneTab DEF Shows
<1>8. ASSUME NEW p \in Path, Open(t, p) PROVE Settles'
    <2>1. /\ Mounts(t, store, FALSE)
          /\ \A u \in Tab \ {t} : loc'[u] = loc[u] /\ modal'[u] = modal[u]
        BY <1>8 DEF Open, TypeOK
    <2> QED BY <2>1, MountsSettles, OneTab DEF Shows
<1> QED BY <1>1, <1>2, <1>3, <1>4, <1>5, <1>6, <1>7, <1>8 DEF TabStep, Effects

\* An answer.  A late login finds a guard that listens, or one that has yet to run.
LEMMA AnswerSettles ==
    ASSUME TypeOK, Settles, NEW r \in flight, LoggedIn(r) \/ Refused(r) \/ Settled(r)
    PROVE  Settles'
<1>0. /\ r.tab \in Tab /\ (r.for = "login" => r.from \in Protected)
      /\ Shows(r.tab) /\ (~listening[r.tab] => due[r.tab])
    BY DEF TypeOK, Request, Settles
<1>1. CASE LoggedIn(r)
    <2>1. \A u \in Tab \ {r.tab} : loc'[u] = loc[u] /\ modal'[u] = modal[u]
        BY <1>1 DEF LoggedIn, TypeOK
    <2>2. loc'[r.tab] = r.from /\ r.from \in Protected /\ issued' # 0
        BY <1>0, <1>1, BoundsNat DEF LoggedIn, TypeOK
    <2>3. CASE loc[r.tab] \in Protected
        <3>1. Hears(r.tab, issued')
            BY <1>1, <2>3 DEF LoggedIn
        <3>2. Shows(r.tab)'
            BY <1>0, <2>2, <3>1, HearsSettles DEF Shows, Protected, Landing
        <3> QED BY <1>0, <2>1, <3>1, <3>2, HearsSettles, OneTab
    <2>4. CASE loc[r.tab] \notin Protected
        <3>1. Mounts(r.tab, issued', FALSE)
            BY <1>1, <2>4 DEF LoggedIn
        <3> QED BY <1>0, <2>1, <3>1, MountsSettles, OneTab DEF Shows
    <2> QED BY <2>3, <2>4
<1>2. CASE Refused(r)
    <2>1. Hears(r.tab, 0) /\ UNCHANGED <<loc, modal>>
        BY <1>2 DEF Refused
    <2>2. Shows(r.tab)'
        BY <1>0, <2>1, HearsSettles DEF Shows
    <2> QED BY <1>0, <2>1, <2>2, HearsSettles, OneTab
<1>3. CASE Settled(r)
    BY <1>3 DEF Settled, flag, Settles, Shows
<1> QED BY <1>1, <1>2, <1>3

\* A tab whose effects have run shows what its flag and path say, whatever the order of
\* its clicks, its answers and the other tabs' events.
THEOREM PathsAreShown == Spec => []ShowsItsPath
<1>1. Init => Settles
    BY DEF Init, Settles, Shows
<1>2. TypeOK /\ Settles /\ [Next]_vars => Settles'
    <2> SUFFICES ASSUME TypeOK, Settles, [Next]_vars PROVE Settles'
        OBVIOUS
    <2>1. ASSUME NEW t \in Tab, TabStep(t) PROVE Settles'
        BY <2>1, TabSettles
    <2>2. ASSUME NEW r \in flight, LoggedIn(r) \/ Refused(r) \/ Settled(r) PROVE Settles'
        BY <2>2, AnswerSettles
    <2>3. CASE Expire \/ UNCHANGED vars
        BY <2>3 DEF Expire, vars, flag, page, Settles, Shows
    <2> QED BY <2>1, <2>2, <2>3 DEF Next
<1>3. Settles => ShowsItsPath
    BY SettlesShows
<1> QED BY <1>1, <1>2, <1>3, TypeCorrect, PTL DEF Spec

----------------------------------------------------------------------------
(* EndsForCause *)

\* No step takes a good token away but a logout, a refused login and a 401 to a request
\* that was sent with an older token.
THEOREM SessionsEndForCause == Spec => EndsForCause
<1>1. ASSUME TypeOK, Next, Valid(store), store' = 0
      PROVE  \/ \E t \in Tab : authed[t] /\ loc[t] \in Protected /\ loc'[t] = "/login"
             \/ \E r \in flight \ flight' : r.for = "login" \/ r.token < store
    <2>0. store # 0 /\ store \in Nat /\ expired \in Nat /\ expired < store
        BY <1>1, BoundsNat DEF Valid, TypeOK
    <2>1. ASSUME NEW t \in Tab, TabStep(t)
          PROVE  authed[t] /\ loc[t] \in Protected /\ loc'[t] = "/login"
        <3>1. CASE Logout(t)
            BY <1>1, <3>1 DEF Logout, TypeOK
        <3>2. CASE ~Logout(t)
            <4>1. UNCHANGED store
                BY <2>1, <3>2 DEF TabStep, Deliver, Effects, Redirect, Guarded, SkipLogin,
                                  SyncModal, OpenConsole, CloseLogin, Submit, Ask, Follow, Open
            <4> QED BY <1>1, <2>0, <4>1
        <3> QED BY <3>1, <3>2
    <2>2. ASSUME NEW r \in flight, LoggedIn(r) PROVE FALSE
        BY <1>1, <2>2, BoundsNat DEF LoggedIn, Write, TypeOK
    <2>3. ASSUME NEW r \in flight, Refused(r)
          PROVE  r \in flight \ flight' /\ (r.for = "login" \/ r.token < store)
        <3>1. r.for = "login" \/ (r.for = "page" /\ r.token \in Nat)
            BY <1>1, BoundsNat DEF TypeOK, Request
        <3> QED BY <2>0, <2>3, <3>1 DEF Refused, Valid
    <2>4. ASSUME NEW r \in flight, Settled(r) PROVE FALSE
        BY <1>1, <2>0, <2>4 DEF Settled
    <2>5. CASE Expire
        BY <1>1, <2>0, <2>5 DEF Expire
    <2> QED BY <1>1, <2>1, <2>2, <2>3, <2>4, <2>5 DEF Next
<1>2. TypeOK /\ [Next]_vars =>
        [Valid(store) /\ store' = 0 =>
            \/ \E t \in Tab : authed[t] /\ loc[t] \in Protected /\ loc'[t] = "/login"
            \/ \E r \in flight \ flight' : r.for = "login" \/ r.token < store]_vars
    BY <1>1
<1> QED BY <1>2, TypeCorrect, PTL DEF Spec, EndsForCause
=============================================================================
