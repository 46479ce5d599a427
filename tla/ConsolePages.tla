----------------------------- MODULE ConsolePages -----------------------------
(***************************************************************************)
(* The console's pages about projects.  The home page creates projects;    *)
(* Setup and Settings show one, rename it, reset its key, delete it; the   *)
(* sidebar, mounted on every page, names them.  All of them read one       *)
(* react-query entry, ['projects'], and every change ends in its           *)
(* invalidation, so that what the pages show follows from which answer of  *)
(* the server's list landed last.                                          *)
(*                                                                         *)
(* The server's table is the log of its changes: a list of the projects is *)
(* known by how many changes it has seen.  The model is of one document; a *)
(* colleague, or another tab, changes projects as well.  What is typed     *)
(* into the forms, and their confirmations, are left out.                  *)
(***************************************************************************)
EXTENDS Integers, Sequences, FiniteSets

CONSTANTS
    Project,     \* the ids there may be
    First,       \* the project that is there from the start
    None,        \* no project, no list
    MaxChange,   \* bound: changes of the table
    MaxCall      \* bound: calls of this document under way

ASSUME FirstIsOne == First \in Project /\ None \notin Project
ASSUME Bounds == MaxChange \in Nat /\ MaxCall \in Nat

ASSUME NoneIsNoList == None \notin Nat

VARIABLES
    log,       \* the changes of the projects table
    page,      \* [at, of]: the route
    list,      \* the cached list: changes it has seen, or None
    age,       \* 0: fresh; 1: older than 5 s; 2: older than 30 s, or invalidated
    fetching,  \* "no", "sent", or "read": answered, the answer on its way
    readAt,    \* changes that answer has seen
    failed,    \* the last fetch failed
    overtaken, \* the answer was read before a change whose invalidation has joined it
    calls,     \* mutations: [op, of, st, at, live]
    mine       \* the latest of this document's changes whose success was handled

query == <<list, age, fetching, readAt, failed, overtaken>>
vars  == <<log, page, query, calls, mine>>

Op == {"create", "rename", "reset", "delete"}
Page == [at : {"home"}, of : {None}] \cup [at : {"setup", "settings", "other"}, of : Project]

\* "waiting": its onSuccess returned the promise of the refetch it has begun.
Call == [op : Op, of : Project \cup {None}, st : {"sent", "applied", "waiting"}, at : Nat,
         live : BOOLEAN]

TypeOK ==
    /\ log \in Seq([op : Op, of : Project])
    /\ page \in Page
    /\ list \in Nat \cup {None}
    /\ age \in 0..2
    /\ fetching \in {"no", "sent", "read"}
    /\ readAt \in Nat
    /\ failed \in BOOLEAN /\ overtaken \in BOOLEAN
    /\ calls \in SUBSET Call
    /\ mine \in Nat

Change(op, p) == [op |-> op, of |-> p]

\* The projects of a list that has seen n changes.
Having(op, n) == {p \in Project : \E i \in 1..n : log[i] = Change(op, p)}
Known(n) == Having("create", n) \ Having("delete", n)
Listed == IF list = None THEN {} ELSE Known(list)

\* A document opens: everybody's useQuery asks for the list.
Init ==
    /\ log = <<Change("create", First)>>
    /\ page \in {p \in Page : p.of \in {None, First}}
    /\ list = None /\ age = 2
    /\ fetching = "sent" /\ readAt = 0
    /\ failed = FALSE /\ overtaken = FALSE
    /\ calls = {} /\ mine = 0

----------------------------------------------------------------------------
(* The list *)

\* Home's query is stale after the client's default of 5 s, that of Setup and Settings, and
\* the sidebar's, after 30 s.
Stale(at) ==
    \/ list = None
    \/ at = "home" /\ age > 0
    \/ at \in {"setup", "settings"} /\ age = 2

\* A page mounts: a fetch under way serves for it.
Mount(at) ==
    IF fetching = "no" /\ Stale(at)
    THEN fetching' = "sent" /\ overtaken' = FALSE
    ELSE UNCHANGED <<fetching, overtaken>>

\* The server reads its table.
Read ==
    /\ fetching = "sent"
    /\ fetching' = "read"
    /\ readAt' = Len(log)
    /\ UNCHANGED <<log, page, list, age, failed, overtaken, calls, mine>>

\* Whoever waited for the refetch has succeeded.
Resumed == {c \in calls : c.st # "waiting"}

Answer ==
    /\ fetching = "read"
    /\ fetching' = "no"
    /\ list' = readAt /\ age' = 0 /\ failed' = FALSE
    /\ calls' = Resumed
    /\ UNCHANGED <<log, page, readAt, overtaken, mine>>

\* No retry: the old list stays, as old as it is.
Fail ==
    /\ fetching \in {"sent", "read"}
    /\ fetching' = "no" /\ failed' = TRUE
    /\ calls' = Resumed
    /\ UNCHANGED <<log, page, list, age, readAt, overtaken, mine>>

Age ==
    /\ age < 2
    /\ age' = age + 1
    /\ UNCHANGED <<log, page, list, fetching, readAt, failed, overtaken, calls, mine>>

\* Back online: react-query asks again for what is stale, to the page or to the sidebar.
Reconnect ==
    /\ fetching = "no"
    /\ Stale(page.at) \/ age = 2
    /\ fetching' = "sent" /\ overtaken' = FALSE
    /\ UNCHANGED <<log, page, list, age, readAt, failed, calls, mine>>

\* Mutant: a fetch that is under way serves for the invalidation too.
InvalidateJoins ==
    /\ age' = 2
    /\ IF fetching # "no" THEN UNCHANGED <<fetching, overtaken>>
       ELSE fetching' = "sent" /\ overtaken' = FALSE

\* invalidateQueries: a fetch under way is cancelled and another begun; but the very
\* first, without data to go back to, is not, and its answer passes for fresh.
Invalidate ==
    /\ age' = 2
    /\ IF fetching # "no" /\ list = None
       THEN fetching' = fetching /\ overtaken' = (overtaken \/ fetching = "read")
       ELSE fetching' = "sent" /\ overtaken' = FALSE

----------------------------------------------------------------------------
(* Moving about *)

\* The mutations go on without their page.
Left(cs) == {[c EXCEPT !.live = FALSE] : c \in cs}

\* A link: the sidebar's to the sections of the project at hand, its switcher's and the
\* home page's cards to the overview of any listed one.
Follow(to) ==
    /\ to # page
    /\ \/ to.at = "home"
       \/ to.of = page.of
       \/ to.at = "other" /\ to.of \in Listed
    /\ page' = to
    /\ Mount(to.at)
    /\ calls' = Left(calls)
    /\ UNCHANGED <<log, list, age, readAt, failed, mine>>

\* Another document: the page anew, or the gear of a card, which assigns to
\* window.location.  Calls under way are forgotten.
Reload(to) ==
    /\ \/ to = page
       \/ page.at = "home" /\ to.at = "settings" /\ to.of \in Listed
    /\ page' = to
    /\ list' = None /\ age' = 2 /\ fetching' = "sent"
    /\ failed' = FALSE /\ overtaken' = FALSE
    /\ calls' = {} /\ mine' = 0
    /\ UNCHANGED <<log, readAt>>

----------------------------------------------------------------------------
(* Changes *)

\* The page's button for op is there, and not disabled: isPending is per mounted page.
Offered(op) ==
    /\ op = "create" => page.at = "home"
    /\ op = "reset" => page.at \in {"setup", "settings"}
    /\ op \in {"rename", "delete"} => page.at = "settings"
    /\ page.at # "home" => page.of \in Listed
    /\ ~ \E c \in calls : c.live /\ c.op = op

Submit(op) ==
    /\ Offered(op)
    /\ Cardinality(calls) < MaxCall
    /\ calls' = calls \cup {[op |-> op, of |-> page.of, st |-> "sent", at |-> 0, live |-> TRUE]}
    /\ UNCHANGED <<log, page, query, mine>>

\* The table accepts a change of a project that is there, or of an id that is new.
Accepts(op, p) ==
    /\ Len(log) < MaxChange
    /\ IF op = "create" THEN p \notin Having("create", Len(log)) ELSE p \in Known(Len(log))

Apply(c, p) ==
    /\ c.st = "sent"
    /\ c.op # "create" => p = c.of
    /\ Accepts(c.op, p)
    /\ log' = Append(log, Change(c.op, p))
    /\ calls' = (calls \ {c}) \cup {[c EXCEPT !.st = "applied", !.of = p, !.at = Len(log')]}
    /\ UNCHANGED <<page, query, mine>>

\* An error for an answer, whether or not the change was made: isError, nothing else.
Refuse(c) ==
    /\ c.st \in {"sent", "applied"}
    /\ calls' = calls \ {c}
    /\ UNCHANGED <<log, page, query, mine>>

Later(m, n) == IF m < n THEN n ELSE m

\* rename, resetKey: onSuccess returns what invalidateQueries does, so the button is
\* pending until the list is there.  Whoever waited for the fetch this cancels goes on.
Renewed(c) ==
    /\ c.st = "applied" /\ c.op \in {"rename", "reset"}
    /\ Invalidate
    /\ calls' = (Resumed \ {c}) \cup {[c EXCEPT !.st = "waiting"]}
    /\ mine' = Later(mine, c.at)
    /\ UNCHANGED <<log, page, list, readAt, failed>>

\* Mutant: the new project is taken from the form, which knows no id.
MovedOnNowhere(c) ==
    /\ c.st = "applied" /\ c.op \in {"create", "delete"}
    /\ Invalidate
    /\ page' = IF c.op = "create" THEN [at |-> "setup", of |-> page.of]
               ELSE [at |-> "home", of |-> None]
    /\ calls' = IF page' = page THEN Resumed \ {c} ELSE Left(Resumed \ {c})
    /\ mine' = Later(mine, c.at)
    /\ UNCHANGED <<log, list, readAt, failed>>

\* create jumps straight into the new project, del goes home, wherever the user has got
\* to in the meantime; neither waits for the list.
MovedOn(c) ==
    /\ c.st = "applied" /\ c.op \in {"create", "delete"}
    /\ Invalidate
    /\ page' = IF c.op = "create" THEN [at |-> "setup", of |-> c.of]
               ELSE [at |-> "home", of |-> None]
    /\ calls' = IF page' = page THEN Resumed \ {c} ELSE Left(Resumed \ {c})
    /\ mine' = Later(mine, c.at)
    /\ UNCHANGED <<log, list, readAt, failed>>

\* A colleague's change, or one that a forgotten call still makes.
Elsewhere(op, p) ==
    /\ Accepts(op, p)
    /\ log' = Append(log, Change(op, p))
    /\ UNCHANGED <<page, query, calls, mine>>

Next ==
    \/ Read \/ Answer \/ Fail \/ Age \/ Reconnect
    \/ \E to \in Page : Follow(to) \/ Reload(to)
    \/ \E op \in Op : Submit(op) \/ \E p \in Project : Elsewhere(op, p)
    \/ \E c \in calls : Refuse(c) \/ Renewed(c) \/ MovedOn(c) \/ \E p \in Project : Apply(c, p)

Spec == Init /\ [][Next]_vars

----------------------------------------------------------------------------
(* Properties *)

\* ProjectsHome.tsx:53, Settings.tsx:27-40, Setup.tsx:38: whatever is fetched, cancelled,
\* changed and left in between, once no fetch is under way the pages show every change
\* this document knows to have succeeded: the new project, the new key.  Only a fetch that
\* failed, and a first load that a creation has overtaken, leave the old list on show.
FreshOnceSettled ==
    list # None /\ fetching = "no" /\ ~failed /\ ~overtaken => list >= mine
=============================================================================
