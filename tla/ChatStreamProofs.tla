--------------------------- MODULE ChatStreamProofs ---------------------------
(***************************************************************************)
(* Theorems about ChatStream, for any choices, any number of blocks and    *)
(* any number of fragments: whatever frames have come, the viewer's loop   *)
(* has built what was said, so the screen shows every fragment once, and   *)
(* reads like the same answer sent in one piece.                           *)
(***************************************************************************)
EXTENDS ChatStream, FiniteSetTheorems, SequenceTheorems, WellFoundedInduction, TLAPS

----------------------------------------------------------------------------
(* Numbers in order *)

\* What holds at 0 and goes on from each number to the next holds up to n.
LEMMA CountingUp ==
    ASSUME NEW n \in Nat, NEW S, 0 \in S, \A i \in 1..n : i - 1 \in S => i \in S
    PROVE  \A i \in 0..n : i \in S
<1> DEFINE missing == (0..n) \ S
<1>1. SUFFICES ASSUME missing # {} PROVE FALSE
  OBVIOUS
<1>2. missing \subseteq Nat
  OBVIOUS
<1> HIDE DEF missing
<1>3. PICK g \in missing : \A h \in missing : <<h, g>> \notin OpToRel(<, Nat)
  BY <1>1, <1>2, NatLessThanWellFounded, WFMin
<1>4. ASSUME NEW h \in missing PROVE ~(h < g)
  <2>1. <<h, g>> \in Nat \X Nat /\ <<h, g>>[1] = h /\ <<h, g>>[2] = g
    BY <1>2
  <2> QED
    BY <1>3, <2>1, Zenon DEF OpToRel
<1>5. g \in 1..n /\ g \notin S /\ g - 1 \in 0..n /\ g - 1 < g
  BY DEF missing
<1>6. g - 1 \in S
  BY <1>4, <1>5 DEF missing
<1> QED
  BY <1>5, <1>6

\* A set of numbers that has one has a least one.
LEMMA LeastThere ==
    ASSUME NEW T \in SUBSET Nat, T # {}
    PROVE  \E m \in T : \A x \in T : m <= x
<1>1. PICK m \in T : \A x \in T : <<x, m>> \notin OpToRel(<, Nat)
  BY NatLessThanWellFounded, WFMin
<1>2. ASSUME NEW x \in T PROVE m <= x
  <2>1. <<x, m>> \in Nat \X Nat /\ <<x, m>>[1] = x /\ <<x, m>>[2] = m
    OBVIOUS
  <2>2. ~(x < m)
    BY <1>1, <2>1, Zenon DEF OpToRel
  <2> QED
    BY <2>2
<1> QED
  BY <1>2

\* A sequence of numbers that only grow.
Rising(s) == \A i, j \in DOMAIN s : i < j => s[i] < s[j]

\* A set of n numbers can be lined up.
LEMMA LinedUp ==
    ASSUME NEW S \in SUBSET Nat, IsFiniteSet(S)
    PROVE  \E q \in [1..Cardinality(S) -> S] : Rising(q)
<1> DEFINE Lines(n) == \A T \in SUBSET Nat :
               IsFiniteSet(T) /\ Cardinality(T) = n => \E q \in [1..n -> T] : Rising(q)
           able == {n \in Nat : Lines(n)}
<1>0. Cardinality(S) \in Nat
  BY FS_CardinalityType
<1>1. 0 \in able
  <2> SUFFICES ASSUME NEW T \in SUBSET Nat, IsFiniteSet(T), Cardinality(T) = 0
               PROVE  \E q \in [1..0 -> T] : Rising(q)
    OBVIOUS
  <2>1. [i \in 1..0 |-> i] \in [1..0 -> T] /\ Rising([i \in 1..0 |-> i])
    BY DEF Rising
  <2> QED
    BY <2>1
<1>2. ASSUME NEW n \in 1..Cardinality(S), n - 1 \in able PROVE n \in able
  <2> SUFFICES ASSUME NEW T \in SUBSET Nat, IsFiniteSet(T), Cardinality(T) = n
               PROVE  \E q \in [1..n -> T] : Rising(q)
    BY <1>0
  <2>1. T # {}
    BY <1>0, FS_EmptySet
  <2>2. PICK m \in T : \A x \in T : m <= x
    BY <2>1, LeastThere
  <2>3. IsFiniteSet(T \ {m}) /\ Cardinality(T \ {m}) = n - 1
    BY FS_RemoveElement
  <2>4. PICK q \in [1..(n - 1) -> T \ {m}] : Rising(q)
    BY <1>2, <2>3
  <2> DEFINE r == [i \in 1..n |-> IF i = 1 THEN m ELSE q[i - 1]]
  <2>5. n \in Nat /\ n >= 1
    BY <1>0
  <2>6. ASSUME NEW i \in 1..n, i # 1 PROVE i - 1 \in 1..(n - 1) /\ q[i - 1] \in T /\ m < q[i - 1]
    <3>1. i - 1 \in 1..(n - 1)
      BY <2>5, <2>6
    <3>2. q[i - 1] \in T /\ q[i - 1] # m
      BY <2>4, <3>1
    <3>3. q[i - 1] \in Nat /\ m \in Nat /\ m <= q[i - 1]
      BY <2>2, <3>2
    <3> QED
      BY <3>1, <3>2, <3>3
  <2>7. r \in [1..n -> T]
    BY <2>6
  <2>8. ASSUME NEW i \in 1..n, NEW j \in 1..n, i < j PROVE r[i] < r[j]
    <3>1. j # 1 /\ r[j] = q[j - 1]
      BY <2>5, <2>8
    <3>2. CASE i = 1
      BY <2>6, <3>1, <3>2
    <3>3. CASE i # 1
      <4>1. i - 1 \in 1..(n - 1) /\ j - 1 \in 1..(n - 1) /\ i - 1 < j - 1
        BY <2>5, <2>6, <2>8, <3>1, <3>3
      <4> QED
        BY <2>4, <3>1, <3>3, <4>1 DEF Rising
    <3> QED
      BY <3>2, <3>3
  <2> QED
    BY <2>7, <2>8 DEF Rising
<1> HIDE DEF able
<1>3. \A n \in 0..Cardinality(S) : n \in able
  BY <1>0, <1>1, <1>2, CountingUp
<1>4. Cardinality(S) \in able
  BY <1>0, <1>3
<1> QED
  BY <1>4 DEF able

\* Ascending lists every number of the set, the smaller before the larger.
LEMMA AscendingLists ==
    ASSUME NEW S \in SUBSET Nat, IsFiniteSet(S)
    PROVE  /\ Cardinality(S) \in Nat
           /\ Ascending(S) \in [1..Cardinality(S) -> S]
           /\ Rising(Ascending(S))
           /\ \A x \in S : \E i \in 1..Cardinality(S) : Ascending(S)[i] = x
<1> DEFINE n == Cardinality(S)
           q == Ascending(S)
<1>1. n \in Nat
  BY FS_CardinalityType
<1>2. \E r \in [1..n -> S] : \A i, j \in 1..n : i < j => r[i] < r[j]
  <2>1. PICK r \in [1..n -> S] : Rising(r)
    BY LinedUp
  <2> QED
    BY <2>1 DEF Rising
<1>3. q \in [1..n -> S] /\ \A i, j \in 1..n : i < j => q[i] < q[j]
  BY <1>2, Zenon DEF Ascending
<1>4. Rising(q)
  BY <1>3 DEF Rising
<1>5. q \in Injection(1..n, S)
  <2>1. ASSUME NEW i \in 1..n, NEW j \in 1..n, q[i] = q[j] PROVE i = j
    <3>1. ~(i < j) /\ ~(j < i)
      <4>1. q[i] \in Nat /\ q[j] \in Nat
        BY <1>3
      <4> QED
        BY <1>3, <2>1, <4>1
    <3> QED
      BY <1>1, <3>1
  <2> QED
    BY <1>3, <2>1 DEF Injection, IsInjective
<1>6. Cardinality(1..n) = n
  BY <1>1, FS_Interval
<1>7. q \in Surjection(1..n, S)
  BY <1>5, <1>6, FS_Injection
<1> QED
  BY <1>1, <1>3, <1>4, <1>7 DEF Surjection

\* There is one way only to list a set of numbers in order.
LEMMA OnlyAscending ==
    ASSUME NEW S \in SUBSET Nat, NEW n \in Nat, NEW f \in [1..n -> S], Rising(f),
           \A x \in S : \E i \in 1..n : f[i] = x
    PROVE  IsFiniteSet(S) /\ Cardinality(S) = n /\ f = Ascending(S)
<1>1. IsFiniteSet(S) /\ Cardinality(S) = n
  <2>1. ASSUME NEW i \in 1..n, NEW j \in 1..n, f[i] = f[j] PROVE i = j
    <3>1. f[i] \in Nat /\ f[j] \in Nat
      OBVIOUS
    <3> QED
      BY <2>1, <3>1 DEF Rising
  <2>2. f \in Bijection(1..n, S)
    BY <2>1 DEF Bijection, Injection, Surjection, IsInjective
  <2>3. IsFiniteSet(1..n) /\ Cardinality(1..n) = n
    BY FS_Interval
  <2>4. ExistsBijection(1..n, S)
    BY <2>2 DEF ExistsBijection
  <2> QED
    BY <2>3, <2>4, FS_Bijection
<1> DEFINE g == Ascending(S)
           same == {i \in 0..n : \A j \in 1..i : f[j] = g[j]}
<1>2. g \in [1..n -> S] /\ Rising(g) /\ \A x \in S : \E i \in 1..n : g[i] = x
  BY <1>1, AscendingLists
<1> HIDE DEF g
<1>3. 0 \in same
  OBVIOUS
<1>4. ASSUME NEW i \in 1..n, i - 1 \in same PROVE i \in same
  <2>1. f[i] \in Nat /\ g[i] \in Nat /\ f[i] \in S /\ g[i] \in S
    BY <1>2
  <2>2. \A j \in 1..n : j < i => f[j] = g[j]
    BY <1>4
  <2>3. f[i] <= g[i]
    <3>1. PICK a \in 1..n : f[a] = g[i]
      BY <2>1
    <3>2. ~(a < i)
      <4> SUFFICES ASSUME a < i PROVE FALSE
        OBVIOUS
      <4>1. g[a] = g[i] /\ g[a] < g[i]
        BY <1>2, <2>2, <3>1 DEF Rising
      <4> QED
        BY <2>1, <4>1
    <3>3. a = i \/ i < a
      BY <3>2
    <3> QED
      BY <2>1, <3>1, <3>3 DEF Rising
  <2>4. g[i] <= f[i]
    <3>1. PICK a \in 1..n : g[a] = f[i]
      BY <1>2, <2>1
    <3>2. ~(a < i)
      <4> SUFFICES ASSUME a < i PROVE FALSE
        OBVIOUS
      <4>1. f[a] = f[i] /\ f[a] < f[i]
        BY <2>2, <3>1 DEF Rising
      <4> QED
        BY <2>1, <4>1
    <3>3. a = i \/ i < a
      BY <3>2
    <3> QED
      BY <1>2, <2>1, <3>1, <3>3 DEF Rising
  <2>5. f[i] = g[i]
    BY <2>1, <2>3, <2>4
  <2>6. \A j \in 1..i : j = i \/ j \in 1..(i - 1)
    OBVIOUS
  <2>7. \A j \in 1..i : f[j] = g[j]
    BY <1>4, <2>5, <2>6
  <2> QED
    BY <2>7
<1> HIDE DEF same
<1>5. \A i \in 0..n : i \in same
  BY <1>3, <1>4, CountingUp
<1>6. \A j \in 1..n : f[j] = g[j]
  BY <1>5 DEF same
<1>7. f = g
  BY <1>2, <1>6
<1> QED
  BY <1>1, <1>7 DEF g

\* One more number, larger than all the others, comes last.
LEMMA AscendingGrows ==
    ASSUME NEW S \in SUBSET Nat, IsFiniteSet(S), NEW x \in Nat, \A y \in S : y < x
    PROVE  /\ IsFiniteSet(S \cup {x}) /\ Cardinality(S \cup {x}) = Cardinality(S) + 1
           /\ \A i \in 1..Cardinality(S) : Ascending(S \cup {x})[i] = Ascending(S)[i]
           /\ Ascending(S \cup {x})[Cardinality(S) + 1] = x
<1> DEFINE n == Cardinality(S)
           q == Ascending(S)
           f == [i \in 1..(n + 1) |-> IF i = n + 1 THEN x ELSE q[i]]
<1>1. /\ n \in Nat /\ q \in [1..n -> S] /\ Rising(q)
      /\ \A y \in S : \E i \in 1..n : q[i] = y
  BY AscendingLists
<1> HIDE DEF n, q
<1>2. /\ f \in [1..(n + 1) -> S \cup {x}] /\ f[n + 1] = x
      /\ \A i \in 1..n : f[i] = q[i] /\ i \in 1..(n + 1)
  <2>1. \A i \in 1..(n + 1) : i # n + 1 => i \in 1..n
    BY <1>1
  <2> QED
    BY <1>1, <2>1
<1>3. Rising(f)
  <2> SUFFICES ASSUME NEW i \in 1..(n + 1), NEW j \in 1..(n + 1), i < j PROVE f[i] < f[j]
    BY <1>2 DEF Rising
  <2>1. i \in 1..n /\ f[i] = q[i] /\ q[i] \in S
    BY <1>1
  <2>2. CASE j = n + 1
    BY <1>2, <2>1, <2>2
  <2>3. CASE j # n + 1
    <3>1. j \in 1..n /\ f[j] = q[j]
      BY <1>1, <2>3
    <3> QED
      BY <1>1, <2>1, <3>1 DEF Rising
  <2> QED
    BY <2>2, <2>3
<1>4. \A y \in S \cup {x} : \E i \in 1..(n + 1) : f[i] = y
  <2> SUFFICES ASSUME NEW y \in S \cup {x} PROVE \E i \in 1..(n + 1) : f[i] = y
    OBVIOUS
  <2>1. CASE y = x
    BY <1>1, <1>2, <2>1
  <2>2. CASE y \in S
    <3>1. PICK i \in 1..n : q[i] = y
      BY <1>1, <2>2
    <3> QED
      BY <1>2, <3>1
  <2> QED
    BY <2>1, <2>2
<1> HIDE DEF f
<1>5. IsFiniteSet(S \cup {x}) /\ Cardinality(S \cup {x}) = n + 1 /\ f = Ascending(S \cup {x})
  BY <1>1, <1>2, <1>3, <1>4, OnlyAscending
<1> QED
  BY <1>2, <1>5 DEF n, q

\* As many numbers as come before it in the list are smaller.
LEMMA AscendingCounts ==
    ASSUME NEW S \in SUBSET Nat, IsFiniteSet(S), NEW p \in 1..Cardinality(S)
    PROVE  Cardinality({x \in S : x < Ascending(S)[p]}) = p - 1
<1> DEFINE n == Cardinality(S)
           q == Ascending(S)
           below == {x \in S : x < q[p]}
           f == [i \in 1..(p - 1) |-> q[i]]
<1>1. /\ n \in Nat /\ q \in [1..n -> S] /\ Rising(q)
      /\ \A y \in S : \E i \in 1..n : q[i] = y
  BY AscendingLists
<1>2. p \in 1..n /\ p - 1 \in Nat /\ \A i \in 1..(p - 1) : i \in 1..n /\ i < p
  BY <1>1
<1> HIDE DEF n, q
<1>3. f \in [1..(p - 1) -> below] /\ Rising(f)
  BY <1>1, <1>2 DEF Rising
<1>4. \A y \in below : \E i \in 1..(p - 1) : f[i] = y
  <2> SUFFICES ASSUME NEW y \in below PROVE \E i \in 1..(p - 1) : f[i] = y
    OBVIOUS
  <2>1. PICK i \in 1..n : q[i] = y
    BY <1>1
  <2>2. i < p
    <3>1. q[i] < q[p] /\ q[i] \in Nat /\ q[p] \in Nat
      BY <1>1, <1>2, <2>1
    <3>2. ~(p < i) /\ p # i
      BY <1>1, <1>2, <3>1 DEF Rising
    <3> QED
      BY <1>2, <3>2
  <2>3. i \in 1..(p - 1)
    BY <1>2, <2>2
  <2> QED
    BY <2>1, <2>3
<1>5. below \in SUBSET Nat
  OBVIOUS
<1> HIDE DEF f, below
<1>6. Cardinality(below) = p - 1
  BY <1>2, <1>3, <1>4, <1>5, OnlyAscending
<1> QED
  BY <1>6 DEF below, q

----------------------------------------------------------------------------
(* What has been said *)

\* The fragments of one block.
TextAt(n) == ToSet(said[n].text)

\* What the upstream has sent, but for its fragments.
Types ==
    /\ dialect \in Dialect
    /\ said \in Seq(Block) /\ Len(said) <= MaxBlock
    /\ opened \subseteq Choice /\ ended \subseteq Choice

\* The fragments are the first numbers, each in one place, in order.
Numbered == Sent \in 0..MaxFragment /\ Uttered = 1..Sent

\* No fragment is in two blocks, and none after a later one.
Apart ==
    /\ \A n \in DOMAIN said : Rising(said[n].text)
    /\ \A n, m \in DOMAIN said : n # m => TextAt(n) \cap TextAt(m) = {}

\* Where blocks come one after the other, so do their fragments.
InTurn ==
    dialect # "openai" =>
        /\ \A n \in DOMAIN said : said[n].choice = 0
        /\ \A n, m \in DOMAIN said : n < m => \A f \in TextAt(n), g \in TextAt(m) : f < g

\* A greater number at the end.
LEMMA NumbersGrow ==
    ASSUME NEW S \in SUBSET Nat, NEW t \in Seq(S), NEW x \in S
    PROVE  /\ Append(t, x) \in Seq(S) /\ Append(t, x) # <<>>
           /\ ToSet(Append(t, x)) = ToSet(t) \cup {x}
           /\ Rising(t) /\ (\A f \in ToSet(t) : f < x) => Rising(Append(t, x))
<1> DEFINE s == Append(t, x)
<1>1. /\ Len(t) \in Nat /\ DOMAIN t = 1..Len(t) /\ DOMAIN s = 1..(Len(t) + 1)
      /\ s \in Seq(S) /\ s # <<>>
      /\ \A i \in 1..Len(t) : s[i] = t[i] /\ t[i] \in S
      /\ s[Len(t) + 1] = x
  OBVIOUS
<1> HIDE DEF s
<1>2. ToSet(s) = ToSet(t) \cup {x}
  <2>1. \A i \in 1..(Len(t) + 1) : i \in 1..Len(t) \/ i = Len(t) + 1
    BY <1>1
  <2>2. \A i \in 1..Len(t) : i \in 1..(Len(t) + 1)
    BY <1>1
  <2>3. Len(t) + 1 \in 1..(Len(t) + 1)
    BY <1>1
  <2> QED
    BY <1>1, <2>1, <2>2, <2>3 DEF ToSet
<1>3. ASSUME Rising(t), \A f \in ToSet(t) : f < x PROVE Rising(s)
  <2> SUFFICES ASSUME NEW i \in 1..(Len(t) + 1), NEW j \in 1..(Len(t) + 1), i < j
               PROVE  s[i] < s[j]
    BY <1>1 DEF Rising
  <2>1. i \in 1..Len(t) /\ s[i] = t[i] /\ t[i] \in ToSet(t)
    BY <1>1 DEF ToSet
  <2>2. CASE j = Len(t) + 1
    BY <1>1, <1>3, <2>1, <2>2
  <2>3. CASE j # Len(t) + 1
    <3>1. j \in 1..Len(t) /\ s[j] = t[j]
      BY <1>1, <2>3
    <3> QED
      BY <1>1, <1>3, <2>1, <3>1 DEF Rising
  <2> QED
    BY <2>2, <2>3
<1> QED
  BY <1>1, <1>2, <1>3 DEF s

\* The same for a text.
LEMMA TextGrows ==
    ASSUME NEW t \in Fragments, NEW x \in 1..MaxFragment
    PROVE  /\ Append(t, x) \in Fragments /\ Append(t, x) # <<>>
           /\ ToSet(Append(t, x)) = ToSet(t) \cup {x}
           /\ Rising(t) /\ (\A f \in ToSet(t) : f < x) => Rising(Append(t, x))
<1>1. 1..MaxFragment \in SUBSET Nat /\ t \in Seq(1..MaxFragment)
  BY DEF Fragments
<1> QED
  BY <1>1, NumbersGrow, Zenon DEF Fragments

\* What is known of each block.
LEMMA Spans ==
    ASSUME Types
    PROVE  /\ Len(said) \in Nat /\ DOMAIN said = 1..Len(said)
           /\ \A n \in DOMAIN said : /\ said[n] \in Block /\ said[n].text \in Fragments
                                     /\ said[n].choice \in Choice /\ said[n].kind \in Kind
           /\ \A n \in DOMAIN said : TextAt(n) \subseteq 1..MaxFragment
<1>1. /\ Len(said) \in Nat /\ DOMAIN said = 1..Len(said)
      /\ \A n \in DOMAIN said : said[n] \in Block
  BY DEF Types
<1>2. ASSUME NEW n \in DOMAIN said
      PROVE  /\ said[n].text \in Fragments /\ said[n].choice \in Choice /\ said[n].kind \in Kind
             /\ TextAt(n) \subseteq 1..MaxFragment
  <2>1. said[n] \in Block
    BY <1>1
  <2>2. /\ said[n].text \in Fragments /\ said[n].choice \in Choice /\ said[n].kind \in Kind
    BY <2>1 DEF Block
  <2>3. DOMAIN said[n].text = 1..Len(said[n].text)
    BY <2>2, LenProperties DEF Fragments
  <2> QED
    BY <2>2, <2>3, ElementOfSeq DEF TextAt, ToSet, Fragments
<1> QED
  BY <1>1, <1>2

\* A fragment of a block has been counted.
LEMMA UtteredAt ==
    ASSUME Numbered, NEW n \in DOMAIN said, NEW f \in TextAt(n)
    PROVE  f \in 1..Sent
BY DEF Numbered, Uttered, TextAt

\* One more fragment: the next number, at the end of one text.
LEMMA SayStep ==
    ASSUME Types, Numbered, Apart, MaySay, NEW i \in DOMAIN said, Says(i)
    PROVE  /\ said' \in Seq(Block) /\ Len(said') = Len(said) /\ DOMAIN said' = DOMAIN said
           /\ \A n \in DOMAIN said :
                 /\ said'[n].kind = said[n].kind /\ said'[n].choice = said[n].choice
                 /\ said'[n].text = IF n = i THEN Append(said[n].text, Sent + 1) ELSE said[n].text
                 /\ TextAt(n)' = IF n = i THEN TextAt(n) \cup {Sent + 1} ELSE TextAt(n)
                 /\ \A f \in TextAt(n) : f \in Nat /\ f < Sent + 1
           /\ Sent + 1 \in 1..MaxFragment
           /\ Numbered' /\ Apart'
<1>1. Sent \in Nat /\ MaxFragment \in Nat /\ Sent + 1 \in 1..MaxFragment
  BY Bounds DEF Numbered, MaySay
<1> DEFINE x == Sent + 1
           b == [said[i] EXCEPT !.text = Append(@, x)]
<1> HIDE DEF x
<1>2. /\ x \in 1..MaxFragment /\ x = Sent + 1
  BY <1>1 DEF x
<1>3. b \in Block /\ b.kind = said[i].kind /\ b.choice = said[i].choice
      /\ b.text = Append(said[i].text, x)
  <2>1. said[i] \in Block /\ Append(said[i].text, x) \in Fragments
    BY <1>2, Spans, TextGrows
  <2> QED
    BY <2>1 DEF Block
<1>4. said' = [said EXCEPT ![i] = b]
  BY DEF Says, x
<1> HIDE DEF b
<1>5. /\ said' \in Seq(Block) /\ Len(said') = Len(said) /\ DOMAIN said' = DOMAIN said
      /\ \A n \in DOMAIN said : said'[n] = IF n = i THEN b ELSE said[n]
  BY <1>3, <1>4, Spans DEF Types
<1>6. \A n \in DOMAIN said : \A f \in TextAt(n) : f \in Nat /\ f < x
  BY <1>2, <1>1, UtteredAt
<1>7. ASSUME NEW n \in DOMAIN said
      PROVE  /\ said'[n].kind = said[n].kind /\ said'[n].choice = said[n].choice
             /\ said'[n].text = IF n = i THEN Append(said[n].text, x) ELSE said[n].text
             /\ TextAt(n)' = IF n = i THEN TextAt(n) \cup {x} ELSE TextAt(n)
             /\ Rising(said'[n].text)
  <2>1. CASE n = i
    <3>1. said'[n] = b /\ Rising(said[n].text)
      BY <1>5, <2>1 DEF Apart
    <3>2. ToSet(b.text) = TextAt(n) \cup {x} /\ Rising(b.text)
      BY <1>2, <1>3, <1>6, <2>1, <3>1, Spans, TextGrows DEF TextAt
    <3>3. TextAt(n)' = ToSet(b.text)
      BY <3>1 DEF TextAt
    <3> QED
      BY <1>3, <2>1, <3>1, <3>2, <3>3
  <2>2. CASE n # i
    BY <1>5, <2>2 DEF TextAt, Apart
  <2> QED
    BY <2>1, <2>2
<1>8. Uttered' = Uttered \cup {x}
  <2>1. Uttered' = UNION {TextAt(n)' : n \in DOMAIN said}
    BY <1>5 DEF Uttered, TextAt
  <2>2. Uttered = UNION {TextAt(n) : n \in DOMAIN said}
    BY DEF Uttered, TextAt
  <2> QED
    BY <1>7, <2>1, <2>2
<1>9. Numbered'
  <2>1. Uttered' = 1..x
    BY <1>1, <1>2, <1>8 DEF Numbered
  <2>2. Sent' = x
    <3>1. Cardinality(1..x) = x
      BY <1>2, FS_Interval
    <3> QED
      BY <2>1, <3>1 DEF Sent
  <2> QED
    BY <1>2, <1>1, <2>1, <2>2 DEF Numbered
<1>10. Apart'
  <2>1. ASSUME NEW n \in DOMAIN said, NEW m \in DOMAIN said, n # m
        PROVE  TextAt(n)' \cap TextAt(m)' = {}
    <3>1. TextAt(n) \cap TextAt(m) = {} /\ x \notin TextAt(n) /\ x \notin TextAt(m)
      <4>1. ~(x < x)
        BY <1>2
      <4> QED
        BY <1>6, <2>1, <4>1 DEF Apart
    <3> QED
      BY <1>7, <2>1, <3>1
  <2>2. \A n \in DOMAIN said : Rising(said'[n].text)
    BY <1>7
  <2>3. \A n, m \in DOMAIN said : n # m => TextAt(n)' \cap TextAt(m)' = {}
    BY <2>1
  <2> QED
    BY <1>5, <2>2, <2>3 DEF Apart, TextAt
<1> QED
  BY <1>2, <1>5, <1>6, <1>7, <1>9, <1>10

\* One more block, with no text yet.
LEMMA BeginStep ==
    ASSUME Types, Numbered, Apart, MayBegin, NEW c \in Choice, NEW kind \in Kind, Begins(c, kind)
    PROVE  /\ said' \in Seq(Block) /\ Len(said') = Len(said) + 1 /\ Len(said') <= MaxBlock
           /\ DOMAIN said' = DOMAIN said \cup {Len(said) + 1} /\ Len(said) + 1 \notin DOMAIN said
           /\ \A n \in DOMAIN said : said'[n] = said[n]
           /\ said'[Len(said) + 1] = [choice |-> c, kind |-> kind, text |-> <<>>]
           /\ \A n \in DOMAIN said : TextAt(n)' = TextAt(n)
           /\ \A n \in DOMAIN said' \ DOMAIN said : TextAt(n)' = {}
           /\ Numbered' /\ Apart'
<1> DEFINE b == [choice |-> c, kind |-> kind, text |-> <<>>]
<1>0. PICK l : l = Len(said) + 1
  OBVIOUS
<1>1. b \in Block /\ b.text = <<>>
  BY DEF Block, Fragments
<1>2. l \in Nat /\ DOMAIN said = 1..(l - 1) /\ l - 1 = Len(said) /\ Len(said) + 1 <= MaxBlock
  BY <1>0, Bounds, Spans DEF MayBegin
<1>3. said' = Append(said, b)
  BY DEF Begins
<1> HIDE DEF b
<1>4. /\ said' \in Seq(Block) /\ Len(said') = l /\ said'[l] = b
      /\ \A n \in 1..(l - 1) : said'[n] = said[n]
      /\ DOMAIN said' = 1..l
  BY <1>1, <1>2, <1>3, AppendProperties DEF Types
<1>5. 1..l = 1..(l - 1) \cup {l} /\ l \notin 1..(l - 1)
  BY <1>2
<1>6. \A n \in DOMAIN said : TextAt(n)' = TextAt(n)
  BY <1>2, <1>4 DEF TextAt
<1>7. TextAt(l)' = {}
  <2>1. TextAt(l)' = ToSet(<<>>)
    BY <1>1, <1>4 DEF TextAt
  <2> QED
    BY <2>1 DEF ToSet
<1>8. Uttered' = Uttered
  <2>1. Uttered' = UNION {TextAt(n)' : n \in DOMAIN said'}
    BY DEF Uttered, TextAt
  <2>2. Uttered = UNION {TextAt(n) : n \in DOMAIN said}
    BY DEF Uttered, TextAt
  <2> QED
    BY <1>2, <1>4, <1>5, <1>6, <1>7, <2>1, <2>2
<1>9. Numbered'
  BY <1>8 DEF Numbered, Sent
<1>10. Apart'
  <2>1. \A n \in DOMAIN said' : Rising(said'[n].text)
    BY <1>1, <1>2, <1>4, <1>5 DEF Apart, Rising
  <2>2. \A n, m \in DOMAIN said' : n # m => TextAt(n)' \cap TextAt(m)' = {}
    BY <1>2, <1>4, <1>5, <1>6, <1>7 DEF Apart
  <2> QED
    BY <2>1, <2>2 DEF Apart, TextAt
<1> QED
  BY <1>0, <1>2, <1>4, <1>5, <1>6, <1>7, <1>9, <1>10 DEF b

\* Frames that say nothing new.
LEMMA QuietStep ==
    ASSUME Numbered, Apart, UNCHANGED said
    PROVE  Numbered' /\ Apart' /\ \A n : TextAt(n)' = TextAt(n)
BY DEF Numbered, Apart, Uttered, Sent, TextAt

----------------------------------------------------------------------------
(* Blocks, and the entries made of them *)

\* The blocks of one kind are finitely many.
LEMMA BlocksAre ==
    ASSUME Types, NEW c, NEW kind
    PROVE  /\ BlocksOf(c, kind) \subseteq DOMAIN said
           /\ BlocksOf(c, kind) \in SUBSET Nat /\ IsFiniteSet(BlocksOf(c, kind))
<1>1. BlocksOf(c, kind) \subseteq 1..Len(said) /\ Len(said) \in Nat
  BY Spans DEF BlocksOf
<1>2. IsFiniteSet(1..Len(said))
  BY <1>1, FS_Interval
<1>3. IsFiniteSet(BlocksOf(c, kind))
  BY <1>1, <1>2, FS_Subset
<1> QED
  BY <1>1, <1>3, Spans

\* A fragment more leaves the blocks where they are.
LEMMA BlocksStay ==
    ASSUME DOMAIN said' = DOMAIN said, NEW c, NEW kind,
           \A n \in DOMAIN said : said'[n].kind = said[n].kind /\ said'[n].choice = said[n].choice
    PROVE  BlocksOf(c, kind)' = BlocksOf(c, kind)
BY DEF BlocksOf

\* A new block is the last of its own, and no other.
LEMMA BlocksGrow ==
    ASSUME Types, NEW c, NEW kind, NEW of, NEW as,
           DOMAIN said' = DOMAIN said \cup {Len(said) + 1}, Len(said) + 1 \notin DOMAIN said,
           \A n \in DOMAIN said : said'[n] = said[n],
           said'[Len(said) + 1] = [choice |-> c, kind |-> kind, text |-> <<>>]
    PROVE  BlocksOf(of, as)' = IF of = c /\ as = kind THEN BlocksOf(of, as) \cup {Len(said) + 1}
                               ELSE BlocksOf(of, as)
<1>1. PICK l : l = Len(said) + 1
  OBVIOUS
<1>2. said'[l].choice = c /\ said'[l].kind = kind
  BY <1>1
<1> QED
  BY <1>1, <1>2 DEF BlocksOf

\* Entries have keys of their own.
OneEach(list) == \A i, j \in DOMAIN list : list[i].key = list[j].key => i = j

\* An entry is found by its key.
LEMMA FoundAt ==
    ASSUME NEW list, OneEach(list), NEW i \in DOMAIN list
    PROVE  At(list, list[i].key) = i /\ Has(list, list[i].key)
BY DEF OneEach, At, Has

\* The newest block goes on, and is still after the others.
LEMMA TurnSay ==
    ASSUME Types, Numbered, Apart, InTurn, dialect # "openai", dialect' = dialect,
           said # <<>>, MaySay, Says(Newest)
    PROVE  InTurn' /\ Newest \in DOMAIN said /\ Newest \in Nat
<1>1. Newest \in DOMAIN said /\ Newest \in Nat /\ \A n \in DOMAIN said : n \in Nat /\ n <= Newest
  BY Spans DEF Newest, Types
<1>2. /\ DOMAIN said' = DOMAIN said
      /\ \A n \in DOMAIN said :
            /\ said'[n].choice = said[n].choice
            /\ TextAt(n)' = IF n = Newest THEN TextAt(n) \cup {Sent + 1} ELSE TextAt(n)
            /\ \A f \in TextAt(n) : f \in Nat /\ f < Sent + 1
  BY <1>1, SayStep
<1>3. ASSUME NEW n \in DOMAIN said, NEW m \in DOMAIN said, n < m,
             NEW f \in TextAt(n)', NEW g \in TextAt(m)'
      PROVE  f < g
  <2>1. n # Newest /\ f \in TextAt(n)
    BY <1>1, <1>2, <1>3
  <2>2. g \in TextAt(m) \/ g = Sent + 1
    BY <1>2, <1>3
  <2>3. CASE g \in TextAt(m)
    BY <1>3, <2>1, <2>3 DEF InTurn
  <2> QED
    BY <1>2, <2>1, <2>2, <2>3
<1> QED
  BY <1>1, <1>2, <1>3 DEF InTurn, TextAt

\* A new block comes after the others.
LEMMA TurnBegin ==
    ASSUME Types, Numbered, Apart, InTurn, dialect # "openai", dialect' = dialect,
           MayBegin, NEW kind \in Kind, Begins(0, kind)
    PROVE  InTurn'
<1>1. PICK l \in Nat : l = Len(said) + 1 /\ DOMAIN said = 1..(l - 1)
  BY Spans
<1>2. /\ DOMAIN said' = DOMAIN said \cup {l}
      /\ \A n \in DOMAIN said : said'[n] = said[n] /\ TextAt(n)' = TextAt(n)
      /\ said'[l].choice = 0
      /\ TextAt(l)' = {}
  <2>1. 0 \in Choice
    BY Bounds
  <2>2. /\ DOMAIN said' = DOMAIN said \cup {l} /\ l \notin DOMAIN said
        /\ \A n \in DOMAIN said : said'[n] = said[n] /\ TextAt(n)' = TextAt(n)
        /\ said'[l] = [choice |-> 0, kind |-> kind, text |-> <<>>]
        /\ \A n \in DOMAIN said' \ DOMAIN said : TextAt(n)' = {}
    BY <1>1, <2>1, BeginStep
  <2> QED
    BY <2>2
<1> QED
  BY <1>2 DEF InTurn, TextAt

----------------------------------------------------------------------------
(* Anthropic: one entry for each block *)

\* What content_block_start and the deltas have made of the n-th block.
PartOf(n) ==
    [key |-> n - 1,
     kind |-> IF said[n].kind = "call" THEN "call" ELSE "text",
     text |-> IF said[n].kind = "thinking" THEN <<>> ELSE said[n].text]

\* The viewer's parts are the blocks, one each and in their order.
AnthropicMirror ==
    dialect = "anthropic" =>
        /\ \A n \in DOMAIN said : said[n].kind # "refusal"
        /\ acc = [n \in DOMAIN said |-> PartOf(n)]

\* An entry of partFor.
Part == [key : Nat, kind : {"text", "call"}, text : Fragments]

\* So keys, kinds and texts of the parts are known.
LEMMA PartsAre ==
    ASSUME Types, AnthropicMirror, dialect = "anthropic"
    PROVE  /\ acc \in Seq(Part) /\ Len(acc) = Len(said) /\ DOMAIN acc = DOMAIN said
           /\ OneEach(acc)
<1>1. Len(said) \in Nat /\ DOMAIN said = 1..Len(said) /\ \A n \in 1..Len(said) : n - 1 \in Nat
  BY Spans
<1>2. \A n \in 1..Len(said) : PartOf(n) \in Part
  <2>1. <<>> \in Fragments
    BY DEF Fragments
  <2>2. \A n \in 1..Len(said) : said[n].text \in Fragments
    BY <1>1, Spans
  <2> QED
    BY <1>1, <2>1, <2>2 DEF PartOf, Part
<1>3. acc = [n \in 1..Len(said) |-> PartOf(n)]
  BY <1>1 DEF AnthropicMirror
<1>4. \A n \in 1..Len(said) : acc[n].key = n - 1
  BY <1>3 DEF PartOf
<1> QED
  BY <1>1, <1>2, <1>3, <1>4 DEF OneEach

\* content_block_start: a part for the new block.
LEMMA AnthropicBeginStep ==
    ASSUME Types, Numbered, Apart, InTurn, AnthropicMirror,
           NEW kind \in {"text", "thinking", "call"}, AnthropicBegin(kind)
    PROVE  Types' /\ Numbered' /\ Apart' /\ InTurn' /\ AnthropicMirror'
<1>1. /\ dialect = "anthropic" /\ MayBegin /\ Begins(0, kind)
      /\ dialect' = dialect /\ opened' = opened /\ ended' = ended
      /\ kind \in Kind /\ 0 \in Choice
  BY Bounds DEF AnthropicBegin, Kind
<1>2. PICK l \in Nat : l = Len(said) + 1 /\ DOMAIN said = 1..(l - 1)
  BY Spans
<1>3. /\ said' \in Seq(Block) /\ Len(said') <= MaxBlock
      /\ DOMAIN said' = DOMAIN said \cup {l} /\ l \notin DOMAIN said
      /\ \A n \in DOMAIN said : said'[n] = said[n]
      /\ said'[l] = [choice |-> 0, kind |-> kind, text |-> <<>>]
      /\ Numbered' /\ Apart'
  BY <1>1, <1>2, BeginStep
<1>4. Types' /\ InTurn'
  BY <1>1, <1>3, TurnBegin DEF Types
<1> DEFINE new == [key |-> l - 1, text |-> <<>>,
                   kind |-> IF kind = "call" THEN "call" ELSE "text"]
<1>5. new \in Part
  BY <1>2 DEF Part, Fragments
<1>6. acc' = Append(acc, new)
  <2>1. CASE kind = "call"
    BY <1>2, <2>1 DEF AnthropicBegin, Newest
  <2>2. CASE kind # "call"
    <3>1. ~Has(acc, l - 1)
      BY <1>1, <1>2, PartsAre DEF Has, AnthropicMirror, PartOf
    <3> QED
      BY <1>2, <2>2, <3>1 DEF AnthropicBegin, Newest, For, NewPart
  <2> QED
    BY <2>1, <2>2
<1> HIDE DEF new
<1>7. /\ acc' \in Seq(Part) /\ Len(acc) = l - 1 /\ DOMAIN acc' = 1..l
      /\ \A n \in 1..(l - 1) : acc'[n] = acc[n]
      /\ acc'[l] = new
  BY <1>1, <1>2, <1>5, <1>6, PartsAre
<1>8. \A n \in 1..(l - 1) : acc'[n] = PartOf(n)'
  BY <1>1, <1>2, <1>3, <1>7 DEF AnthropicMirror, PartOf
<1>9. acc'[l] = PartOf(l)'
  BY <1>3, <1>7 DEF PartOf, new
<1>10. acc' = [n \in 1..l |-> PartOf(n)']
  BY <1>2, <1>7, <1>8, <1>9
<1>11. \A n \in DOMAIN said' : said'[n].kind # "refusal"
  BY <1>1, <1>3 DEF AnthropicMirror
<1>12. 1..l = DOMAIN said'
  BY <1>2, <1>3
<1>13. AnthropicMirror'
  BY <1>10, <1>11, <1>12 DEF AnthropicMirror
<1> QED
  BY <1>3, <1>4, <1>13

\* content_block_delta: the newest part goes on like its block.
LEMMA AnthropicSaysStep ==
    ASSUME Types, Numbered, Apart, InTurn, AnthropicMirror, AnthropicSays
    PROVE  Types' /\ Numbered' /\ Apart' /\ InTurn' /\ AnthropicMirror'
<1>1. /\ dialect = "anthropic" /\ MaySay /\ Says(Newest) /\ said # <<>>
      /\ dialect' = dialect /\ opened' = opened /\ ended' = ended
  BY DEF AnthropicSays
<1>2. InTurn' /\ Newest \in DOMAIN said
  BY <1>1, TurnSay
<1>3. PICK l \in DOMAIN said : l = Newest
  BY <1>2
<1>4. PICK x \in 1..MaxFragment : x = Sent + 1
  BY <1>1, <1>2, SayStep
<1>5. /\ said' \in Seq(Block) /\ Len(said') = Len(said) /\ DOMAIN said' = DOMAIN said
      /\ \A n \in DOMAIN said :
            /\ said'[n].kind = said[n].kind
            /\ said'[n].text = IF n = l THEN Append(said[n].text, x) ELSE said[n].text
      /\ Numbered' /\ Apart'
  BY <1>1, <1>3, <1>4, SayStep
<1>6. Types'
  BY <1>1, <1>5 DEF Types
<1>7. /\ acc \in Seq(Part) /\ DOMAIN acc = DOMAIN said /\ l \in DOMAIN acc
      /\ OneEach(acc) /\ acc = [n \in DOMAIN said |-> PartOf(n)] /\ acc[l].key = l - 1
  BY <1>1, <1>3, PartsAre DEF AnthropicMirror, PartOf
<1>8. For(acc, NewPart(l - 1)) = acc /\ At(acc, l - 1) = l
  BY <1>7, FoundAt DEF For, NewPart
<1>9. \A n \in DOMAIN said : said'[n].kind # "refusal"
  BY <1>1, <1>5 DEF AnthropicMirror
<1>10. acc' = [n \in DOMAIN said |-> PartOf(n)']
  <2>1. CASE said[l].kind \in {"text", "call"}
    <3>1. acc' = [acc EXCEPT ![l].kind = said[l].kind, ![l].text = Append(@, x)]
      BY <1>3, <1>4, <1>8, <2>1 DEF AnthropicSays
    <3>2. acc[l] = [key |-> l - 1, kind |-> said[l].kind, text |-> said[l].text]
      BY <1>7, <2>1 DEF PartOf
    <3>3. acc'[l] = [key |-> l - 1, kind |-> said[l].kind, text |-> Append(said[l].text, x)]
      <4>1. PICK e : e = acc[l]
        OBVIOUS
      <4>2. acc'[l] = [e EXCEPT !.kind = said[l].kind, !.text = Append(@, x)]
        BY <1>7, <3>1, <4>1
      <4>3. e = [key |-> l - 1, kind |-> said[l].kind, text |-> said[l].text]
        BY <3>2, <4>1
      <4> QED
        BY <4>2, <4>3
    <3>4. acc'[l] = PartOf(l)'
      BY <1>3, <1>5, <2>1, <3>3 DEF PartOf
    <3>5. \A n \in DOMAIN said : n # l => acc'[n] = PartOf(n)'
      BY <1>5, <1>7, <3>1 DEF PartOf
    <3>6. acc' = [n \in DOMAIN said |-> acc'[n]]
      BY <1>7, <3>1
    <3> QED
      BY <3>4, <3>5, <3>6
  <2>2. CASE said[l].kind \notin {"text", "call"}
    <3>1. acc' = acc
      BY <1>3, <2>2 DEF AnthropicSays
    <3>2. said[l].kind = "thinking"
      BY <1>1, <1>3, <2>2, Spans DEF Kind, AnthropicMirror
    <3>3. \A n \in DOMAIN said : PartOf(n)' = PartOf(n)
      BY <1>5, <3>2 DEF PartOf
    <3> QED
      BY <1>7, <3>1, <3>3
  <2> QED
    BY <2>1, <2>2
<1>11. AnthropicMirror'
  BY <1>5, <1>9, <1>10 DEF AnthropicMirror
<1> QED
  BY <1>2, <1>5, <1>6, <1>11

\* message_stop changes nothing of it.
LEMMA AnthropicStopStep ==
    ASSUME Types, Numbered, Apart, InTurn, AnthropicMirror, AnthropicStop
    PROVE  Types' /\ Numbered' /\ Apart' /\ InTurn' /\ AnthropicMirror'
<1>1. UNCHANGED <<dialect, said, opened, acc>> /\ ended' = {0} /\ 0 \in Choice
  BY Bounds DEF AnthropicStop
<1> QED
  BY <1>1, QuietStep DEF Types, InTurn, AnthropicMirror, PartOf, TextAt

----------------------------------------------------------------------------
(* Responses: one text, and one entry for each call *)

\* An entry of toolFor, and what a Responses stream is folded into.
Call == [key : Nat, text : Fragments]
Answer == [text : Fragments, calls : Seq(Call)]

\* The blocks that are told as text.
Spoken == {n \in DOMAIN said : said[n].kind \in {"text", "refusal"}}

\* The calls as the upstream made them, each with its place for a key.
CallsSaid ==
    LET places == BlocksOf(0, "call")
    IN [p \in 1..Cardinality(places) |->
           [key |-> Ascending(places)[p], text |-> said[Ascending(places)[p]].text]]

\* The viewer has every fragment of a text or refusal, in order, and every call.
ResponsesMirror ==
    dialect = "responses" =>
        /\ acc \in Answer
        /\ Rising(acc.text) /\ ToSet(acc.text) = UNION {TextAt(n) : n \in Spoken}
        /\ acc.calls = CallsSaid

\* A text is empty when no fragment is in it.
LEMMA NoNumbers ==
    ASSUME NEW t \in Fragments
    PROVE  ToSet(t) = {} <=> t = <<>>
<1>1. Len(t) \in Nat /\ DOMAIN t = 1..Len(t)
  BY DEF Fragments
<1>2. t # <<>> => 1 \in 1..Len(t)
  BY <1>1 DEF Fragments
<1>3. t # <<>> => t[1] \in ToSet(t)
  BY <1>1, <1>2 DEF ToSet
<1> QED
  BY <1>3 DEF ToSet

\* Appended and then replaced is appended.
LEMMA LastReplaced ==
    ASSUME NEW S, NEW s \in Seq(S), NEW a \in S, NEW b \in S
    PROVE  [Append(s, a) EXCEPT ![Len(s) + 1] = b] = Append(s, b)
<1> DEFINE u == Append(s, a)
           v == Append(s, b)
           w == [u EXCEPT ![Len(s) + 1] = b]
<1>1. /\ Len(s) \in Nat /\ u \in Seq(S) /\ v \in Seq(S)
      /\ Len(u) = Len(s) + 1 /\ Len(v) = Len(s) + 1
      /\ \A i \in 1..Len(s) : u[i] = s[i] /\ v[i] = s[i]
      /\ v[Len(s) + 1] = b
  OBVIOUS
<1> HIDE DEF u, v
<1>2. Len(s) + 1 \in 1..Len(u)
  BY <1>1
<1>3. /\ w \in Seq(S) /\ Len(w) = Len(u)
      /\ \A j \in 1..Len(u) : w[j] = IF j = Len(s) + 1 THEN b ELSE u[j]
  BY <1>1, <1>2, ExceptSeq
<1> HIDE DEF w
<1>4. \A j \in 1..Len(w) : w[j] = v[j]
  <2>1. \A j \in 1..Len(u) : j = Len(s) + 1 \/ j \in 1..Len(s)
    BY <1>1
  <2> QED
    BY <1>1, <1>3, <2>1
<1>5. w = v
  BY <1>1, <1>3, <1>4, SeqEqual
<1> QED
  BY <1>5 DEF u, v, w

\* toolFor under a new key puts the entry at the end.
LEMMA NewEntry ==
    ASSUME NEW list \in Seq(Call), NEW key \in Nat, ~Has(list, key), NEW text \in Fragments
    PROVE  SetCall(list, key, text) = Append(list, [key |-> key, text |-> text])
<1> DEFINE k == Len(list) + 1
           one == [key |-> key, text |-> <<>>]
           longer == Append(list, one)
<1>1. one \in Call
  BY DEF Call, Fragments
<1>2. For(list, NewCall(key)) = longer
  BY DEF For, NewCall
<1>3. /\ Len(list) \in Nat /\ longer \in Seq(Call) /\ longer[k] = one
      /\ DOMAIN longer = 1..k /\ DOMAIN list = 1..Len(list)
      /\ \A i \in 1..Len(list) : longer[i] = list[i]
  BY <1>1
<1> HIDE DEF longer
<1>4. \A i \in 1..k : longer[i].key = key <=> i = k
  <2>1. \A i \in 1..k : i = k \/ i \in 1..Len(list)
    BY <1>3
  <2>2. \A i \in 1..Len(list) : list[i].key # key
    BY <1>3 DEF Has
  <2> QED
    BY <1>3, <2>1, <2>2
<1>5. At(longer, key) = k
  <2>1. k \in 1..k
    BY <1>3
  <2> QED
    BY <1>3, <1>4, <2>1 DEF At
<1>6. SetCall(list, key, text) = [longer EXCEPT ![k].text = text]
  BY <1>2, <1>5 DEF SetCall
<1> DEFINE other == [key |-> key, text |-> text]
<1>7. [one EXCEPT !.text = text] = other /\ other \in Call
  BY DEF Call
<1> HIDE DEF one, other
<1>8. [longer EXCEPT ![k].text = text] = [longer EXCEPT ![k] = other]
  BY <1>3, <1>7
<1>9. [longer EXCEPT ![k] = other] = Append(list, other)
  BY <1>1, <1>7, LastReplaced DEF longer
<1> QED
  BY <1>6, <1>8, <1>9 DEF other

\* toolFor under a known key finds the entry, and the text it has changes nothing.
LEMMA OldEntry ==
    ASSUME NEW list \in Seq(Call), OneEach(list), NEW p \in DOMAIN list, NEW text
    PROVE  /\ SetCall(list, list[p].key, text) = [list EXCEPT ![p].text = text]
           /\ text = list[p].text => SetCall(list, list[p].key, text) = list
           /\ For(list, NewCall(list[p].key)) = list /\ At(list, list[p].key) = p
<1>1. For(list, NewCall(list[p].key)) = list /\ At(list, list[p].key) = p
  BY FoundAt DEF For, NewCall
<1>2. SetCall(list, list[p].key, text) = [list EXCEPT ![p].text = text]
  BY <1>1 DEF SetCall
<1>3. ASSUME text = list[p].text PROVE [list EXCEPT ![p].text = text] = list
  <2>1. PICK e \in Call : e = list[p]
    OBVIOUS
  <2>2. [e EXCEPT !.text = text] = e
    BY <1>3, <2>1 DEF Call
  <2>3. [list EXCEPT ![p].text = text] = [list EXCEPT ![p] = e]
    BY <2>1, <2>2
  <2> QED
    BY <2>1, <2>3
<1> QED
  BY <1>1, <1>2, <1>3

\* The entries: each is of one call, each call has one.
LEMMA CallsAre ==
    ASSUME Types
    PROVE  /\ CallsSaid \in Seq(Call) /\ OneEach(CallsSaid)
           /\ Len(CallsSaid) = Cardinality(BlocksOf(0, "call"))
           /\ DOMAIN CallsSaid = 1..Len(CallsSaid)
           /\ \A p \in DOMAIN CallsSaid :
                 /\ CallsSaid[p].key \in BlocksOf(0, "call")
                 /\ CallsSaid[p].text = said[CallsSaid[p].key].text
           /\ \A n \in BlocksOf(0, "call") : \E p \in DOMAIN CallsSaid : CallsSaid[p].key = n
<1> DEFINE places == BlocksOf(0, "call")
           k == Cardinality(places)
           q == Ascending(places)
<1>1. /\ k \in Nat /\ q \in [1..k -> places] /\ Rising(q)
      /\ \A n \in places : \E p \in 1..k : q[p] = n
  BY BlocksAre, AscendingLists
<1>2. places \subseteq Nat /\ \A n \in places : said[n].text \in Fragments
  BY BlocksAre, Spans
<1>3. CallsSaid = [p \in 1..k |-> [key |-> q[p], text |-> said[q[p]].text]]
  BY DEF CallsSaid
<1> HIDE DEF places, k, q
<1>4. \A p \in 1..k : CallsSaid[p].key = q[p] /\ CallsSaid[p].text = said[q[p]].text
  BY <1>3
<1>5. CallsSaid \in Seq(Call) /\ Len(CallsSaid) = k /\ DOMAIN CallsSaid = 1..k
  <2>1. \A p \in 1..k : [key |-> q[p], text |-> said[q[p]].text] \in Call
    BY <1>1, <1>2 DEF Call
  <2> QED
    BY <1>1, <1>3, <2>1
<1>6. OneEach(CallsSaid)
  <2> SUFFICES ASSUME NEW i \in 1..k, NEW j \in 1..k, q[i] = q[j] PROVE i = j
    BY <1>4, <1>5 DEF OneEach
  <2>1. q[i] \in Nat /\ q[j] \in Nat
    BY <1>1, <1>2
  <2> QED
    BY <1>1, <2>1 DEF Rising
<1> QED
  BY <1>1, <1>4, <1>5, <1>6 DEF places, k

\* The next fragment is greater than any in the text.
LEMMA SpokenBelow ==
    ASSUME Numbered
    PROVE  \A f \in UNION {TextAt(n) : n \in Spoken} : f \in Nat /\ f < Sent + 1
BY UtteredAt DEF Spoken, Numbered

\* response.output_item.added: an entry for a call, nothing for a text.
LEMMA ResponsesBeginStep ==
    ASSUME Types, Numbered, Apart, InTurn, ResponsesMirror, NEW kind \in Kind, ResponsesBegin(kind)
    PROVE  Types' /\ Numbered' /\ Apart' /\ InTurn' /\ ResponsesMirror'
<1>1. /\ dialect = "responses" /\ MayBegin /\ Begins(0, kind)
      /\ dialect' = dialect /\ opened' = opened /\ ended' = ended /\ 0 \in Choice
  BY Bounds DEF ResponsesBegin
<1>2. PICK l \in Nat : l = Len(said) + 1 /\ DOMAIN said = 1..(l - 1)
  BY Spans
<1>3. /\ said' \in Seq(Block) /\ Len(said') <= MaxBlock
      /\ DOMAIN said' = DOMAIN said \cup {l} /\ l \notin DOMAIN said
      /\ \A n \in DOMAIN said : said'[n] = said[n]
      /\ said'[l] = [choice |-> 0, kind |-> kind, text |-> <<>>]
      /\ \A n \in DOMAIN said : TextAt(n)' = TextAt(n)
      /\ TextAt(l)' = {}
      /\ Numbered' /\ Apart'
  <2>1. \A n \in DOMAIN said' \ DOMAIN said : TextAt(n)' = {}
    BY <1>1, BeginStep
  <2> QED
    BY <1>1, <1>2, <2>1, BeginStep
<1>4. Types' /\ InTurn'
  BY <1>1, <1>3, TurnBegin DEF Types
<1>5. UNION {TextAt(n)' : n \in Spoken'} = UNION {TextAt(n) : n \in Spoken}
  <2>1. Spoken' = IF kind \in {"text", "refusal"} THEN Spoken \cup {l} ELSE Spoken
    BY <1>3 DEF Spoken
  <2>2. Spoken \subseteq DOMAIN said
    BY DEF Spoken
  <2> HIDE DEF Spoken
  <2> QED
    BY <1>3, <2>1, <2>2
<1>6. PICK text \in Fragments, calls \in Seq(Call) : acc = [text |-> text, calls |-> calls]
  BY <1>1 DEF ResponsesMirror, Answer
<1>7. Rising(text) /\ ToSet(text) = UNION {TextAt(n) : n \in Spoken} /\ calls = CallsSaid
  BY <1>1, <1>6 DEF ResponsesMirror
<1> DEFINE places == BlocksOf(0, "call")
           k == Cardinality(places)
<1>8. /\ places \in SUBSET Nat /\ IsFiniteSet(places) /\ places \subseteq DOMAIN said /\ k \in Nat
      /\ Ascending(places) \in [1..k -> places]
  BY BlocksAre, AscendingLists
<1>9. places' = IF kind = "call" THEN places \cup {l} ELSE places
  BY <1>2, <1>3, BlocksGrow
<1>10. /\ calls \in Seq(Call) /\ OneEach(calls) /\ Len(calls) = k /\ DOMAIN calls = 1..k
       /\ \A p \in 1..k : calls[p].key \in places
       /\ calls = [p \in 1..k |-> [key |-> Ascending(places)[p],
                                   text |-> said[Ascending(places)[p]].text]]
  BY <1>7, CallsAre DEF CallsSaid
<1>11. PICK new \in Seq(Call) : acc' = [text |-> text, calls |-> new] /\ new = CallsSaid'
  <2>1. CASE kind = "call"
    <3>1. ~Has(calls, l)
      BY <1>3, <1>8, <1>10 DEF Has
    <3> DEFINE one == [key |-> l, text |-> <<>>]
    <3>2. one \in Call /\ <<>> \in Fragments
      BY <1>2 DEF Call, Fragments
    <3>3. SetCall(calls, l, <<>>) = Append(calls, one)
      BY <3>1, <3>2, NewEntry
    <3>4. acc' = [text |-> text, calls |-> Append(calls, one)]
      BY <1>2, <1>6, <2>1, <3>3 DEF ResponsesBegin, Newest
    <3>5. \A y \in places : y < l
      BY <1>2, <1>8
    <3>6. /\ Cardinality(places \cup {l}) = k + 1
          /\ \A i \in 1..k : Ascending(places \cup {l})[i] = Ascending(places)[i]
          /\ Ascending(places \cup {l})[k + 1] = l
      BY <1>8, <3>5, AscendingGrows
    <3> DEFINE all == Append(calls, one)
    <3>7. /\ all \in Seq(Call) /\ DOMAIN all = 1..(k + 1)
          /\ \A p \in 1..k : all[p] = calls[p]
          /\ all[k + 1] = one
      <4> HIDE DEF one, k
      <4> QED
        BY <1>8, <1>10, <3>2
    <3> DEFINE row(p) == [key |-> Ascending(places \cup {l})[p],
                          text |-> said'[Ascending(places \cup {l})[p]].text]
    <3>8. CallsSaid' = [p \in 1..(k + 1) |-> row(p)]
      BY <1>9, <2>1, <3>6 DEF CallsSaid
    <3> HIDE DEF all, places, k, one
    <3>9. ASSUME NEW p \in 1..k PROVE all[p] = row(p)
      <4>1. PICK n \in DOMAIN said : n = Ascending(places)[p]
        BY <1>8
      <4>2. all[p] = [key |-> n, text |-> said[n].text]
        BY <1>10, <3>7, <4>1
      <4>3. Ascending(places \cup {l})[p] = n /\ said'[n] = said[n]
        BY <1>3, <3>6, <4>1
      <4> QED
        BY <4>2, <4>3
    <3>10. all[k + 1] = row(k + 1)
      BY <1>3, <3>6, <3>7 DEF one
    <3>11. \A p \in 1..(k + 1) : p \in 1..k \/ p = k + 1
      BY <1>8
    <3>12. \A p \in 1..(k + 1) : all[p] = row(p)
      BY <3>9, <3>10, <3>11
    <3> HIDE DEF row
    <3>13. all = CallsSaid'
      BY <3>7, <3>8, <3>12
    <3> QED
      BY <3>4, <3>7, <3>13 DEF all
  <2>2. CASE kind # "call"
    <3>1. acc' = acc
      BY <2>2 DEF ResponsesBegin
    <3>2. \A p \in 1..k : Ascending(places)[p] \in DOMAIN said
      BY <1>8
    <3>3. CallsSaid' = CallsSaid
      BY <1>3, <1>9, <2>2, <3>2 DEF CallsSaid
    <3> QED
      BY <1>6, <1>7, <3>1, <3>3
  <2> QED
    BY <2>1, <2>2
<1>12. acc' \in Answer /\ acc'.text = text /\ acc'.calls = CallsSaid'
  BY <1>11 DEF Answer
<1>13. ResponsesMirror'
  <2>1. ToSet(acc'.text) = UNION {TextAt(n)' : n \in Spoken'}
    BY <1>5, <1>7, <1>12
  <2> QED
    BY <1>7, <1>12, <2>1 DEF ResponsesMirror, TextAt
<1> QED
  BY <1>3, <1>4, <1>13

\* A delta goes to the text, to the newest call, or nowhere.
LEMMA ResponsesSaysStep ==
    ASSUME Types, Numbered, Apart, InTurn, ResponsesMirror, ResponsesSays
    PROVE  Types' /\ Numbered' /\ Apart' /\ InTurn' /\ ResponsesMirror'
<1>1. /\ dialect = "responses" /\ MaySay /\ Says(Newest) /\ said # <<>>
      /\ dialect' = dialect /\ opened' = opened /\ ended' = ended
  BY DEF ResponsesSays
<1>2. InTurn' /\ Newest \in DOMAIN said
  BY <1>1, TurnSay
<1>3. PICK l \in DOMAIN said : l = Newest
  BY <1>2
<1>4. PICK x \in 1..MaxFragment : x = Sent + 1
  BY <1>1, <1>2, SayStep
<1>5. /\ said' \in Seq(Block) /\ Len(said') = Len(said) /\ DOMAIN said' = DOMAIN said
      /\ \A n \in DOMAIN said :
            /\ said'[n].kind = said[n].kind /\ said'[n].choice = said[n].choice
            /\ said'[n].text = IF n = l THEN Append(said[n].text, x) ELSE said[n].text
            /\ TextAt(n)' = IF n = l THEN TextAt(n) \cup {x} ELSE TextAt(n)
      /\ Numbered' /\ Apart'
  BY <1>1, <1>3, <1>4, SayStep
<1>6. Types'
  BY <1>1, <1>5 DEF Types
<1>7. PICK text \in Fragments, calls \in Seq(Call) : acc = [text |-> text, calls |-> calls]
  BY <1>1 DEF ResponsesMirror, Answer
<1>8. Rising(text) /\ ToSet(text) = UNION {TextAt(n) : n \in Spoken} /\ calls = CallsSaid
  BY <1>1, <1>7 DEF ResponsesMirror
<1>9. Spoken' = Spoken /\ Spoken \subseteq DOMAIN said
  BY <1>5 DEF Spoken
<1>10. said[l].kind \in Kind
  BY Spans
<1> DEFINE places == BlocksOf(0, "call")
           k == Cardinality(places)
           q == Ascending(places)
<1>11. places' = places
  BY <1>5, BlocksStay
<1>12. k \in Nat /\ q \in [1..k -> places] /\ Rising(q) /\ places \subseteq DOMAIN said
       /\ \A n \in places : said[n].kind = "call"
  <2>1. places \in SUBSET Nat /\ IsFiniteSet(places) /\ places \subseteq DOMAIN said
    BY BlocksAre
  <2>2. k \in Nat /\ q \in [1..k -> places] /\ Rising(q)
    BY <2>1, AscendingLists
  <2>3. \A n \in places : said[n].kind = "call"
    BY DEF BlocksOf
  <2> QED
    BY <2>1, <2>2, <2>3
<1>13. /\ calls \in Seq(Call) /\ OneEach(calls) /\ Len(calls) = k /\ DOMAIN calls = 1..k
       /\ calls = [p \in 1..k |-> [key |-> q[p], text |-> said[q[p]].text]]
       /\ \A n \in places : \E p \in 1..k : calls[p].key = n
  BY <1>8, CallsAre DEF CallsSaid
<1>14. CallsSaid' = [p \in 1..k |-> [key |-> q[p], text |-> said'[q[p]].text]]
  BY <1>11 DEF CallsSaid
<1> HIDE DEF places, k, q
<1>15. CASE said[l].kind \in {"text", "refusal"}
  <2>1. acc' = [text |-> Append(text, x), calls |-> calls]
    BY <1>3, <1>4, <1>7, <1>15 DEF ResponsesSays
  <2>2. /\ Append(text, x) \in Fragments
        /\ ToSet(Append(text, x)) = ToSet(text) \cup {x}
        /\ Rising(Append(text, x))
    BY <1>4, <1>8, TextGrows, SpokenBelow
  <2>3. UNION {TextAt(n)' : n \in Spoken} = (UNION {TextAt(n) : n \in Spoken}) \cup {x}
    <3>1. l \in Spoken
      BY <1>15 DEF Spoken
    <3>2. \A n \in Spoken : TextAt(n)' = IF n = l THEN TextAt(n) \cup {x} ELSE TextAt(n)
      BY <1>5, <1>9
    <3> HIDE DEF Spoken
    <3>3. ASSUME NEW n \in Spoken
          PROVE  TextAt(n)' \subseteq (UNION {TextAt(m) : m \in Spoken}) \cup {x}
      BY <3>2
    <3>4. ASSUME NEW n \in Spoken
          PROVE  TextAt(n) \subseteq UNION {TextAt(m)' : m \in Spoken}
      BY <3>2
    <3>5. x \in UNION {TextAt(m)' : m \in Spoken}
      BY <3>1, <3>2
    <3> QED
      BY <3>3, <3>4, <3>5
  <2>4. CallsSaid' = calls
    <3>1. \A p \in 1..k : q[p] # l /\ q[p] \in DOMAIN said
      BY <1>12, <1>15
    <3> QED
      BY <1>5, <1>13, <1>14, <3>1
  <2>5. acc' \in Answer /\ acc'.text = Append(text, x) /\ acc'.calls = CallsSaid'
    BY <2>1, <2>2, <2>4 DEF Answer
  <2>6. ToSet(acc'.text) = UNION {TextAt(n)' : n \in Spoken'}
    <3>1. ToSet(acc'.text) = UNION {TextAt(n)' : n \in Spoken}
      BY <1>8, <2>2, <2>3, <2>5
    <3> QED
      BY <1>9, <3>1
  <2>7. ResponsesMirror'
    BY <2>2, <2>5, <2>6 DEF ResponsesMirror, TextAt
  <2> QED
    BY <1>2, <1>5, <1>6, <2>7
<1>16. CASE said[l].kind = "call"
  <2>1. l \in places
    BY <1>1, <1>16 DEF places, BlocksOf, InTurn
  <2>2. PICK p \in 1..k : calls[p].key = l
    BY <1>13, <2>1
  <2>3. For(calls, NewCall(l)) = calls /\ At(calls, l) = p
    BY <1>13, <2>2, OldEntry
  <2>4. acc' = [text |-> text, calls |-> [calls EXCEPT ![p].text = Append(@, x)]]
    BY <1>3, <1>4, <1>7, <1>16, <2>3 DEF ResponsesSays
  <2> DEFINE new == [calls EXCEPT ![p].text = Append(@, x)]
             row(i) == [key |-> q[i], text |-> said'[q[i]].text]
  <2>5. calls[p] = [key |-> l, text |-> said[l].text] /\ q[p] = l
    BY <1>13, <2>2
  <2>6. new[p] = row(p) /\ new \in Seq(Call)
    <3>1. calls[p] \in Call
      <4>1. p \in 1..Len(calls)
        BY <1>13
      <4> QED
        BY <4>1, ElementOfSeq
    <3>2. PICK e \in Call : e = calls[p]
      BY <3>1
    <3> DEFINE f == [e EXCEPT !.text = Append(@, x)]
    <3>3. new = [calls EXCEPT ![p] = f]
      BY <3>2
    <3>4. f = [key |-> l, text |-> Append(said[l].text, x)]
      <4>1. PICK t : t = said[l].text
        OBVIOUS
      <4>2. e = [key |-> l, text |-> t]
        BY <2>5, <3>2, <4>1
      <4>3. f = [key |-> l, text |-> Append(t, x)]
        BY <4>2
      <4> QED
        BY <4>1, <4>3
    <3>5. f \in Call
      <4>1. l \in Nat /\ Append(said[l].text, x) \in Fragments
        BY TextGrows, Spans
      <4> QED
        BY <3>4, <4>1 DEF Call
    <3> HIDE DEF f, new
    <3>6. new[p] = f /\ new \in Seq(Call)
      <4>1. p \in 1..Len(calls) /\ calls \in Seq(Call)
        BY <1>13
      <4> QED
        BY <3>3, <3>5, <4>1, ExceptSeq
    <3> QED
      BY <1>5, <2>5, <3>4, <3>6
  <2>7. ASSUME NEW i \in 1..k, i # p PROVE new[i] = row(i)
    <3>1. new[i] = calls[i] /\ calls[i] = [key |-> q[i], text |-> said[q[i]].text]
      BY <1>13, <2>7
    <3>2. q[i] # l /\ q[i] \in DOMAIN said
      <4>1. calls[i].key = q[i]
        BY <3>1
      <4> QED
        BY <1>12, <1>13, <2>2, <2>7, <4>1 DEF OneEach
    <3> QED
      BY <1>5, <3>1, <3>2
  <2>8. new = [i \in 1..k |-> new[i]]
    BY <1>13
  <2> HIDE DEF new
  <2>9. new = CallsSaid'
    BY <1>14, <2>6, <2>7, <2>8
  <2>10. CallsSaid' \in Seq(Call)
    BY <2>6, <2>9
  <2>11. acc' \in Answer /\ acc'.text = text /\ acc'.calls = CallsSaid'
    BY <2>4, <2>9, <2>10 DEF Answer, new
  <2>12. UNION {TextAt(n)' : n \in Spoken} = UNION {TextAt(n) : n \in Spoken}
    <3>1. l \notin Spoken
      BY <1>16 DEF Spoken
    <3> HIDE DEF Spoken
    <3> QED
      BY <1>5, <1>9, <3>1
  <2>13. ToSet(acc'.text) = UNION {TextAt(n)' : n \in Spoken'}
    BY <1>8, <1>9, <2>11, <2>12
  <2>14. ResponsesMirror'
    BY <1>8, <2>11, <2>13 DEF ResponsesMirror, TextAt
  <2> QED
    BY <1>2, <1>5, <1>6, <2>14
<1>17. CASE said[l].kind = "thinking"
  <2>1. acc' = acc
    BY <1>3, <1>17 DEF ResponsesSays
  <2>2. UNION {TextAt(n)' : n \in Spoken} = UNION {TextAt(n) : n \in Spoken}
    <3>1. l \notin Spoken
      BY <1>17 DEF Spoken
    <3> HIDE DEF Spoken
    <3> QED
      BY <1>5, <1>9, <3>1
  <2>3. CallsSaid' = calls
    <3>1. \A p \in 1..k : q[p] # l /\ q[p] \in DOMAIN said
      BY <1>12, <1>17
    <3> QED
      BY <1>5, <1>13, <1>14, <3>1
  <2>4. acc' \in Answer /\ acc'.text = text /\ acc'.calls = CallsSaid'
    BY <1>7, <2>1, <2>3 DEF Answer
  <2>5. ToSet(acc'.text) = UNION {TextAt(n)' : n \in Spoken'}
    BY <1>8, <1>9, <2>2, <2>4
  <2>6. ResponsesMirror'
    BY <1>8, <2>4, <2>5 DEF ResponsesMirror, TextAt
  <2> QED
    BY <1>2, <1>5, <1>6, <2>6
<1> QED
  BY <1>10, <1>15, <1>16, <1>17 DEF Kind

\* Texts that are all empty make an empty text.
LEMMA NothingFlat ==
    ASSUME NEW n \in Nat
    PROVE  FlattenSeq([i \in 1..n |-> <<>>]) = <<>>
<1> DEFINE seqs == [i \in 1..n |-> <<>>]
           Flat(f) == f = [i \in 1..Len(seqs) |-> IF i = 1 THEN seqs[i] ELSE f[i - 1] \o seqs[i]]
           flat == CHOOSE f : Flat(f)
<1>1. Len(seqs) = n /\ \A i \in 1..n : seqs[i] = <<>>
  OBVIOUS
<1>2. CASE n = 0
  <2>1. seqs = <<>>
    BY <1>2
  <2> QED
    BY <1>1, <1>2, <2>1 DEF FlattenSeq
<1>3. CASE n # 0
  <2>1. FlattenSeq(seqs) = flat[n]
    BY <1>1, <1>3 DEF FlattenSeq
  <2>2. Flat([i \in 1..n |-> <<>>])
    <3>1. \A i \in 1..n : i # 1 => i - 1 \in 1..n
      BY <1>3
    <3>2. <<>> \o <<>> = <<>>
      OBVIOUS
    <3> QED
      BY <1>1, <3>1, <3>2
  <2>3. \E f : Flat(f)
    BY <2>2
  <2> HIDE DEF Flat
  <2>4. Flat(flat)
    BY <2>3, Zenon
  <2> HIDE DEF flat
  <2>5. /\ \A i \in 1..n : flat[i] = IF i = 1 THEN seqs[i] ELSE flat[i - 1] \o seqs[i]
    BY <1>1, <2>4 DEF Flat
  <2> DEFINE empty == {i \in 0..n : i # 0 => flat[i] = <<>>}
  <2>6. 0 \in empty
    OBVIOUS
  <2>7. ASSUME NEW i \in 1..n, i - 1 \in empty PROVE i \in empty
    <3>1. <<>> \o <<>> = <<>>
      OBVIOUS
    <3>2. flat[i] = <<>>
      BY <1>1, <2>5, <2>7, <3>1
    <3> QED
      BY <3>2
  <2> HIDE DEF empty
  <2>8. \A i \in 0..n : i \in empty
    BY <2>6, <2>7, CountingUp
  <2>9. n \in empty
    BY <2>8
  <2> QED
    BY <1>3, <2>1, <2>9 DEF empty
<1> QED
  BY <1>2, <1>3

\* The whole output, read at the end, has no call that is not already there as it is.
LEMMA CapturedAlready ==
    ASSUME Types, InTurn, dialect = "responses"
    PROVE  CaptureCalls(CallsSaid) = CallsSaid
<1> DEFINE n == Len(said)
           calls == CallsSaid
           Captures(f) ==
               f = [i \in 0..n |-> IF i = 0 THEN calls
                                   ELSE IF said[i].kind = "call"
                                        THEN SetCall(f[i - 1], i, said[i].text)
                                        ELSE f[i - 1]]
           captured == CHOOSE f : Captures(f)
<1>1. n \in Nat /\ DOMAIN said = 1..n
  BY Spans
<1>2. CaptureCalls(calls) = captured[n]
  BY DEF CaptureCalls
<1>3. ASSUME NEW i \in 1..n, said[i].kind = "call"
      PROVE  SetCall(calls, i, said[i].text) = calls
  <2>1. i \in BlocksOf(0, "call")
    BY <1>1, <1>3 DEF BlocksOf, InTurn
  <2>2. PICK p \in DOMAIN calls : calls[p].key = i /\ calls[p].text = said[i].text
    BY <2>1, CallsAre
  <2>3. calls \in Seq(Call) /\ OneEach(calls)
    BY CallsAre
  <2> QED
    BY <2>2, <2>3, OldEntry
<1> HIDE DEF calls
<1>4. Captures([i \in 0..n |-> calls])
  BY <1>1, <1>3
<1>5. \E f : Captures(f)
  BY <1>4
<1> HIDE DEF Captures
<1>6. Captures(captured)
  BY <1>5, Zenon
<1> HIDE DEF captured
<1>7. \A i \in 0..n : captured[i] =
           IF i = 0 THEN calls
           ELSE IF said[i].kind = "call" THEN SetCall(captured[i - 1], i, said[i].text)
                ELSE captured[i - 1]
  BY <1>6 DEF Captures
<1> DEFINE same == {i \in 0..n : captured[i] = calls}
<1>8. 0 \in same
  BY <1>1, <1>7
<1>9. ASSUME NEW i \in 1..n, i - 1 \in same PROVE i \in same
  <2>1. i \in 0..n /\ i # 0
    BY <1>1
  <2> QED
    BY <1>3, <1>7, <1>9, <2>1
<1> HIDE DEF same, n
<1>10. \A i \in 0..n : i \in same
  BY <1>1, <1>8, <1>9, CountingUp
<1>11. n \in same
  BY <1>1, <1>10
<1> QED
  BY <1>2, <1>11 DEF same, calls

\* Responses says everything again when an item ends, and once more when the answer does:
\* by then the viewer has all of it.
LEMMA NothingNew ==
    ASSUME Types, InTurn, ResponsesMirror, ResponsesItemDone \/ ResponsesCompleted
    PROVE  UNCHANGED <<dialect, said, opened, acc>> /\ ended' \subseteq Choice
<1>0. dialect = "responses"
  BY DEF ResponsesItemDone, ResponsesCompleted
<1>1. PICK text \in Fragments, calls \in Seq(Call) : acc = [text |-> text, calls |-> calls]
  BY <1>0 DEF ResponsesMirror, Answer
<1>2. ToSet(text) = UNION {TextAt(n) : n \in Spoken} /\ calls = CallsSaid
  BY <1>0, <1>1 DEF ResponsesMirror
<1>3. \A n \in DOMAIN said : said[n].kind = "text" /\ text = <<>> => said[n].text = <<>>
  <2> SUFFICES ASSUME NEW n \in DOMAIN said, said[n].kind = "text", text = <<>>
               PROVE  said[n].text = <<>>
    OBVIOUS
  <2>1. ToSet(text) = {}
    BY NoNumbers
  <2>2. n \in Spoken
    BY DEF Spoken
  <2>3. TextAt(n) = {}
    BY <1>2, <2>1, <2>2
  <2> QED
    BY <2>3, NoNumbers, Spans DEF TextAt
<1>4. CASE ResponsesItemDone
  <2>1. /\ said # <<>> /\ UNCHANGED <<dialect, said, opened, ended>>
    BY <1>4 DEF ResponsesItemDone
  <2>2. PICK l \in DOMAIN said : l = Newest
    BY <2>1, Spans DEF Newest, Types
  <2>3. CASE said[l].kind = "text"
    <3>1. acc' = IF text = <<>> THEN [text |-> said[l].text, calls |-> calls] ELSE acc
      BY <1>1, <1>4, <2>2, <2>3 DEF ResponsesItemDone
    <3>2. acc' = acc
      BY <1>1, <1>3, <2>3, <3>1
    <3> QED
      BY <2>1, <3>2 DEF Types
  <2>4. CASE said[l].kind = "call"
    <3>1. acc' = [text |-> text, calls |-> SetCall(calls, l, said[l].text)]
      BY <1>1, <1>4, <2>2, <2>4 DEF ResponsesItemDone
    <3>2. l \in BlocksOf(0, "call")
      BY <1>0, <2>4 DEF BlocksOf, InTurn
    <3>3. PICK p \in DOMAIN calls : calls[p].key = l /\ calls[p].text = said[l].text
      BY <1>2, <3>2, CallsAre
    <3>4. SetCall(calls, l, said[l].text) = calls
      <4>1. calls \in Seq(Call) /\ OneEach(calls)
        BY <1>2, CallsAre
      <4> QED
        BY <3>3, <4>1, OldEntry
    <3>5. acc' = acc
      BY <1>1, <3>1, <3>4
    <3> QED
      BY <2>1, <3>5 DEF Types
  <2>5. CASE said[l].kind \notin {"text", "call"}
    <3>1. acc' = acc
      BY <1>4, <2>2, <2>5 DEF ResponsesItemDone
    <3> QED
      BY <2>1, <3>1 DEF Types
  <2> QED
    BY <2>3, <2>4, <2>5
<1>5. CASE ResponsesCompleted
  <2>1. /\ UNCHANGED <<dialect, said, opened>> /\ ended' = {0} /\ 0 \in Choice
        /\ acc' = [text |-> IF text = <<>> THEN OutputText ELSE text,
                   calls |-> CaptureCalls(calls)]
    BY <1>1, <1>5, Bounds DEF ResponsesCompleted
  <2>2. CaptureCalls(calls) = calls
    BY <1>0, <1>2, CapturedAlready
  <2>3. ASSUME text = <<>> PROVE OutputText = <<>>
    <3>1. Newest \in Nat /\ DOMAIN said = 1..Newest
      BY Spans DEF Newest
    <3>2. [i \in 1..Newest |-> IF said[i].kind = "text" THEN said[i].text ELSE <<>>]
              = [i \in 1..Newest |-> <<>>]
      BY <1>3, <2>3, <3>1
    <3> QED
      BY <3>1, <3>2, NothingFlat DEF OutputText
  <2>4. acc' = acc
    BY <1>1, <2>1, <2>2, <2>3
  <2> QED
    BY <2>1, <2>4
<1> QED
  BY <1>4, <1>5

\* The events that repeat what was said say nothing new (NothingNew).
LEMMA ResponsesAgainStep ==
    ASSUME Types, Numbered, Apart, InTurn, ResponsesMirror, ResponsesItemDone \/ ResponsesCompleted
    PROVE  Types' /\ Numbered' /\ Apart' /\ InTurn' /\ ResponsesMirror'
<1>1. UNCHANGED <<dialect, said, opened, acc>> /\ ended' \subseteq Choice
  BY NothingNew
<1>2. Types' /\ Numbered' /\ Apart'
  BY <1>1, QuietStep DEF Types
<1>3. InTurn'
  BY <1>1 DEF InTurn, TextAt
<1>4. CallsSaid' = CallsSaid /\ Spoken' = Spoken
  BY <1>1 DEF CallsSaid, Spoken, BlocksOf
<1>5. ResponsesMirror'
  BY <1>1, <1>4 DEF ResponsesMirror, TextAt
<1> QED
  BY <1>2, <1>3, <1>5

----------------------------------------------------------------------------
(* OpenAI: one entry for each choice *)

\* A ChoiceBuilder.
Entry ==
    [key : Choice, text : Fragments, seen : BOOLEAN, thinking : Fragments,
     calls : Seq(Call), finish : BOOLEAN]

\* t is the text of c's one block of this kind, if it has one.
IsText(t, c, kind) ==
    /\ \A n \in BlocksOf(c, kind) : t = said[n].text
    /\ BlocksOf(c, kind) = {} => t = <<>>

\* The calls of a choice as the upstream made them, by index.
CallsOf(c) ==
    LET places == BlocksOf(c, "call")
    IN [p \in 1..Cardinality(places) |->
           [key |-> p - 1, text |-> said[Ascending(places)[p]].text]]

\* The viewer has what was said in the choice.
Mirrors(cb) ==
    /\ cb.seen
    /\ IsText(cb.text, cb.key, "text") /\ IsText(cb.thinking, cb.key, "thinking")
    /\ cb.calls = CallsOf(cb.key)

\* One entry for each choice that has been opened.
Entries ==
    /\ acc \in Seq(Entry) /\ OneEach(acc)
    /\ opened = {acc[k].key : k \in DOMAIN acc}

\* Only an opened choice speaks, and has one text and one reasoning.
Owned ==
    /\ \A n \in DOMAIN said : said[n].choice \in opened /\ said[n].kind # "refusal"
    /\ \A n, m \in DOMAIN said :
          said[n].choice = said[m].choice /\ said[n].kind = said[m].kind /\ said[n].kind # "call"
              => n = m

\* Every choice's entry has what was said in it, however the chunks came.
OpenAIMirror ==
    dialect = "openai" => Entries /\ Owned /\ \A k \in DOMAIN acc : Mirrors(acc[k])

\* Calls are numbered from 0 in the order they were begun.
LEMMA CallIndexCounts ==
    ASSUME Types, NEW c
    PROVE  /\ CallIndex(c, Len(said)) = Cardinality(BlocksOf(c, "call"))
           /\ \A p \in 1..Cardinality(BlocksOf(c, "call")) :
                 CallIndex(c, Ascending(BlocksOf(c, "call"))[p] - 1) = p - 1
<1> DEFINE places == BlocksOf(c, "call")
           k == Cardinality(places)
           q == Ascending(places)
<1>1. Len(said) \in Nat /\ DOMAIN said = 1..Len(said)
  BY Spans
<1>2. places = {j \in 1..Len(said) : said[j].kind = "call" /\ said[j].choice = c}
  BY <1>1 DEF BlocksOf
<1>3. places \in SUBSET Nat /\ IsFiniteSet(places)
  BY BlocksAre
<1>4. k \in Nat /\ q \in [1..k -> places]
  BY <1>3, AscendingLists
<1>5. CallIndex(c, Len(said)) = k
  BY <1>2 DEF CallIndex
<1>6. ASSUME NEW p \in 1..k PROVE CallIndex(c, q[p] - 1) = p - 1
  <2>1. PICK i \in places : i = q[p]
    BY <1>4
  <2>2. i \in 1..Len(said)
    BY <1>2
  <2>3. {j \in 1..(i - 1) : said[j].kind = "call" /\ said[j].choice = c} = {x \in places : x < i}
    BY <1>1, <1>2, <2>2
  <2>4. Cardinality({x \in places : x < i}) = p - 1
    BY <1>3, <2>1, AscendingCounts
  <2> QED
    BY <2>1, <2>3, <2>4 DEF CallIndex
<1> QED
  BY <1>5, <1>6

\* The entries of a choice's calls.
LEMMA CallsOfAre ==
    ASSUME Types, NEW c
    PROVE  /\ CallsOf(c) \in Seq(Call) /\ OneEach(CallsOf(c))
           /\ Len(CallsOf(c)) = Cardinality(BlocksOf(c, "call"))
           /\ DOMAIN CallsOf(c) = 1..Cardinality(BlocksOf(c, "call"))
           /\ Cardinality(BlocksOf(c, "call")) \in Nat
           /\ \A p \in DOMAIN CallsOf(c) :
                 /\ CallsOf(c)[p].key = p - 1
                 /\ CallsOf(c)[p].text = said[Ascending(BlocksOf(c, "call"))[p]].text
<1> DEFINE places == BlocksOf(c, "call")
           k == Cardinality(places)
           q == Ascending(places)
<1>1. places \in SUBSET Nat /\ IsFiniteSet(places) /\ places \subseteq DOMAIN said
  BY BlocksAre
<1>2. k \in Nat /\ q \in [1..k -> places]
  BY <1>1, AscendingLists
<1>3. CallsOf(c) = [p \in 1..k |-> [key |-> p - 1, text |-> said[q[p]].text]]
  BY DEF CallsOf
<1>4. ASSUME NEW p \in 1..k PROVE [key |-> p - 1, text |-> said[q[p]].text] \in Call
  <2>1. said[q[p]].text \in Fragments /\ p - 1 \in Nat
    BY <1>1, <1>2, Spans
  <2> QED
    BY <2>1 DEF Call
<1> HIDE DEF places, k, q
<1>5. CallsOf(c) \in Seq(Call) /\ Len(CallsOf(c)) = k /\ DOMAIN CallsOf(c) = 1..k
  BY <1>2, <1>3, <1>4
<1>6. \A p \in 1..k : CallsOf(c)[p].key = p - 1 /\ CallsOf(c)[p].text = said[q[p]].text
  BY <1>3
<1>7. OneEach(CallsOf(c))
  BY <1>2, <1>5, <1>6 DEF OneEach
<1> QED
  BY <1>2, <1>5, <1>6, <1>7 DEF places, k, q

\* Nothing changes where nothing is said.
LEMMA KindStays ==
    ASSUME Types, NEW c, NEW kind, BlocksOf(c, kind)' = BlocksOf(c, kind),
           \A n \in BlocksOf(c, kind) : said'[n].text = said[n].text
    PROVE  /\ \A t : IsText(t, c, kind) => IsText(t, c, kind)'
           /\ kind = "call" => CallsOf(c)' = CallsOf(c)
<1>1. ASSUME NEW t, IsText(t, c, kind) PROVE IsText(t, c, kind)'
  BY <1>1 DEF IsText
<1>2. ASSUME kind = "call" PROVE CallsOf(c)' = CallsOf(c)
  <2> DEFINE places == BlocksOf(c, "call")
  <2>1. Ascending(places) \in [1..Cardinality(places) -> places]
    BY BlocksAre, AscendingLists
  <2>2. places' = places /\ \A n \in places : said'[n].text = said[n].text
    BY <1>2
  <2>3. \A p \in 1..Cardinality(places) :
            said'[Ascending(places)[p]].text = said[Ascending(places)[p]].text
    BY <2>1, <2>2
  <2>4. /\ CallsOf(c) = [p \in 1..Cardinality(places) |->
                            [key |-> p - 1, text |-> said[Ascending(places)[p]].text]]
        /\ CallsOf(c)' = [p \in 1..Cardinality(places) |->
                             [key |-> p - 1, text |-> said'[Ascending(places)[p]].text]]
    BY <2>2 DEF CallsOf
  <2> HIDE DEF places
  <2> QED
    BY <2>3, <2>4
<1> QED
  BY <1>1, <1>2

\* A choice that says nothing stays as it is.
LEMMA ChoiceStays ==
    ASSUME Types, NEW cb, Mirrors(cb),
           \A kind : BlocksOf(cb.key, kind)' = BlocksOf(cb.key, kind),
           \A n \in DOMAIN said : said[n].choice = cb.key => said'[n].text = said[n].text
    PROVE  Mirrors(cb)'
<1>1. \A kind : \A n \in BlocksOf(cb.key, kind) : said'[n].text = said[n].text
  BY DEF BlocksOf
<1>2. IsText(cb.text, cb.key, "text")' /\ IsText(cb.thinking, cb.key, "thinking")'
  BY <1>1, KindStays DEF Mirrors
<1>3. CallsOf(cb.key)' = CallsOf(cb.key)
  BY <1>1, KindStays
<1> QED
  BY <1>2, <1>3 DEF Mirrors

\* One entry is replaced by another of the same key.
LEMMA OneChanges ==
    ASSUME Entries, NEW k \in DOMAIN acc, NEW e \in Entry, e.key = acc[k].key,
           acc' = [acc EXCEPT ![k] = e], opened' = opened
    PROVE  /\ Entries' /\ DOMAIN acc' = DOMAIN acc /\ acc'[k] = e
           /\ \A i \in DOMAIN acc : i # k => acc'[i] = acc[i]
           /\ \A i \in DOMAIN acc : acc'[i].key = acc[i].key
<1>1. acc \in Seq(Entry) /\ k \in 1..Len(acc) /\ DOMAIN acc = 1..Len(acc)
  BY DEF Entries
<1>2. /\ acc' \in Seq(Entry) /\ Len(acc') = Len(acc)
      /\ \A i \in 1..Len(acc) : acc'[i] = IF i = k THEN e ELSE acc[i]
  BY <1>1, ExceptSeq
<1>3. DOMAIN acc' = DOMAIN acc /\ \A i \in DOMAIN acc : acc'[i].key = acc[i].key
  <2>1. DOMAIN acc' = 1..Len(acc')
    BY <1>2, LenProperties
  <2> QED
    BY <1>1, <1>2, <2>1
<1>4. Entries'
  BY <1>2, <1>3 DEF Entries, OneEach
<1> QED
  BY <1>1, <1>2, <1>3, <1>4

\* A chunk for a choice that has been opened.
LEMMA ChunkStep ==
    ASSUME Entries, NEW k \in DOMAIN acc, NEW delta, OpenAIChunk(acc[k].key, delta)
    PROVE  acc' = [acc EXCEPT ![k] = Heard(acc[k], delta)]
<1>1. At(acc, acc[k].key) = k /\ Has(acc, acc[k].key)
  BY FoundAt DEF Entries
<1>2. For(acc, NewChoice(acc[k].key)) = acc
  BY <1>1 DEF For, NewChoice
<1> QED
  BY <1>1, <1>2 DEF OpenAIChunk

\* An opened choice has an entry.
LEMMA OpenedAt ==
    ASSUME Entries, NEW c \in opened
    PROVE  \E k \in DOMAIN acc : acc[k].key = c
BY DEF Entries

\* The first chunk of a choice: its entry.
LEMMA OpenAIRoleStep ==
    ASSUME Types, Numbered, Apart, InTurn, OpenAIMirror, NEW c \in Choice, OpenAIRole(c)
    PROVE  Types' /\ Numbered' /\ Apart' /\ InTurn' /\ OpenAIMirror'
<1>1. /\ dialect = "openai" /\ c \notin opened /\ opened' = opened \cup {c}
      /\ OpenAIChunk(c, Delta("role", 0, 0))
      /\ dialect' = dialect /\ said' = said /\ ended' = ended
  BY DEF OpenAIRole
<1>2. Entries /\ Owned /\ \A k \in DOMAIN acc : Mirrors(acc[k])
  BY <1>1 DEF OpenAIMirror
<1>3. Types' /\ Numbered' /\ Apart' /\ InTurn'
  BY <1>1, QuietStep DEF Types, InTurn
<1> DEFINE e == [NewChoice(c) EXCEPT !.seen = TRUE]
<1>4. /\ NewChoice(c) \in Entry /\ e \in Entry /\ e.key = c /\ e.seen
      /\ e.text = <<>> /\ e.thinking = <<>> /\ e.calls = <<>>
  <2>1. <<>> \in Fragments /\ <<>> \in Seq(Call)
    BY DEF Fragments
  <2>2. NewChoice(c) \in Entry
    BY <2>1 DEF NewChoice, Entry
  <2>3. PICK n \in Entry : n = NewChoice(c)
    BY <2>2
  <2>4. n.key = c /\ n.text = <<>> /\ n.thinking = <<>> /\ n.calls = <<>>
    BY <2>3 DEF NewChoice
  <2>5. /\ [n EXCEPT !.seen = TRUE] \in Entry /\ [n EXCEPT !.seen = TRUE].seen
        /\ [n EXCEPT !.seen = TRUE].key = n.key /\ [n EXCEPT !.seen = TRUE].text = n.text
        /\ [n EXCEPT !.seen = TRUE].thinking = n.thinking
        /\ [n EXCEPT !.seen = TRUE].calls = n.calls
    BY DEF Entry
  <2> QED
    BY <2>2, <2>3, <2>4, <2>5
<1>5. PICK l \in Nat : l = Len(acc) + 1 /\ acc \in Seq(Entry) /\ DOMAIN acc = 1..(l - 1)
  BY <1>2 DEF Entries
<1> DEFINE list == Append(acc, NewChoice(c))
<1>6. ~Has(acc, c) /\ For(acc, NewChoice(c)) = list
  BY <1>1, <1>2 DEF Has, Entries, For, NewChoice
<1>7. /\ list[l] = NewChoice(c) /\ DOMAIN list = 1..l
      /\ \A i \in 1..(l - 1) : list[i] = acc[i]
  BY <1>4, <1>5
<1>8. At(list, c) = l
  <2>1. NewChoice(c).key = c
    BY DEF NewChoice
  <2>2. \A i \in 1..l : list[i].key = c <=> i = l
    <3>1. \A i \in 1..l : i = l \/ i \in 1..(l - 1)
      BY <1>5
    <3> HIDE DEF list
    <3> QED
      BY <1>5, <1>6, <1>7, <2>1, <3>1 DEF Has
  <2>3. l \in 1..l
    BY <1>5
  <2> HIDE DEF list
  <2> QED
    BY <1>7, <2>2, <2>3 DEF At
<1>9. acc' = [list EXCEPT ![l] = e]
  <2>1. acc' = [list EXCEPT ![l] = Heard(@, Delta("role", 0, 0))]
    BY <1>1, <1>6, <1>8 DEF OpenAIChunk
  <2>2. Heard(NewChoice(c), Delta("role", 0, 0)) = e
    BY DEF Heard, Delta
  <2> HIDE DEF list, e
  <2> QED
    BY <1>7, <2>1, <2>2
<1>10. acc' = Append(acc, e)
  <2>1. acc' = [Append(acc, NewChoice(c)) EXCEPT ![Len(acc) + 1] = e]
    BY <1>5, <1>9
  <2> HIDE DEF e, list
  <2> QED
    BY <1>4, <1>5, <2>1, LastReplaced
<1> HIDE DEF e
<1>11. /\ acc' \in Seq(Entry) /\ DOMAIN acc' = 1..l /\ acc'[l] = e
       /\ \A i \in 1..(l - 1) : acc'[i] = acc[i]
  BY <1>4, <1>5, <1>10
<1>12. \A i \in 1..l : i = l \/ i \in 1..(l - 1)
  BY <1>5
<1>13. Entries'
  <2>1. OneEach(acc')
    BY <1>2, <1>4, <1>5, <1>6, <1>11, <1>12 DEF Entries, OneEach, Has
  <2>2. l \in 1..l /\ 1..(l - 1) \subseteq 1..l
    BY <1>5
  <2>3. opened' = {acc'[k].key : k \in 1..l}
    BY <1>1, <1>2, <1>4, <1>5, <1>11, <1>12, <2>2 DEF Entries
  <2> QED
    BY <1>11, <2>1, <2>3 DEF Entries
<1>14. Owned'
  BY <1>1, <1>2 DEF Owned
<1>15. \A kind : BlocksOf(c, kind) = {}
  BY <1>1, <1>2 DEF Owned, BlocksOf
<1>16. CallsOf(c) = <<>>
  <2>1. Cardinality(BlocksOf(c, "call")) = 0
    BY <1>15, FS_EmptySet
  <2>2. CallsOf(c) \in Seq(Call) /\ Len(CallsOf(c)) = 0
    BY <2>1, CallsOfAre
  <2> QED
    BY <2>2, EmptySeq
<1>17. Mirrors(e)
  BY <1>4, <1>15, <1>16 DEF Mirrors, IsText
<1>18. \A k \in DOMAIN acc' : Mirrors(acc'[k])
  BY <1>2, <1>5, <1>11, <1>12, <1>17
<1>19. (\A k \in DOMAIN acc : Mirrors(acc[k]))'
  BY <1>1, <1>18 DEF Mirrors, IsText, CallsOf, BlocksOf
<1> QED
  BY <1>3, <1>13, <1>14, <1>19 DEF OpenAIMirror

\* finish_reason is noted.
LEMMA OpenAIFinishStep ==
    ASSUME Types, Numbered, Apart, InTurn, OpenAIMirror, NEW c \in Choice, OpenAIFinish(c)
    PROVE  Types' /\ Numbered' /\ Apart' /\ InTurn' /\ OpenAIMirror'
<1>1. /\ dialect = "openai" /\ c \in opened /\ ended' = ended \cup {c}
      /\ OpenAIChunk(c, Delta("finish", 0, 0))
      /\ dialect' = dialect /\ said' = said /\ opened' = opened
  BY DEF OpenAIFinish
<1>2. Entries /\ Owned /\ \A k \in DOMAIN acc : Mirrors(acc[k])
  BY <1>1 DEF OpenAIMirror
<1>3. Types' /\ Numbered' /\ Apart' /\ InTurn'
  BY <1>1, QuietStep DEF Types, InTurn
<1>4. PICK k \in DOMAIN acc : acc[k].key = c
  BY <1>1, <1>2, OpenedAt
<1>5. PICK cb \in Entry : cb = acc[k]
  BY <1>2, <1>4 DEF Entries
<1> DEFINE e == [cb EXCEPT !.finish = TRUE]
<1>6. /\ e \in Entry /\ e.key = cb.key /\ e.text = cb.text /\ e.thinking = cb.thinking
      /\ e.calls = cb.calls /\ e.seen = cb.seen
  BY DEF Entry
<1>7. acc' = [acc EXCEPT ![k] = e]
  <2>1. acc' = [acc EXCEPT ![k] = Heard(cb, Delta("finish", 0, 0))]
    BY <1>1, <1>2, <1>4, <1>5, ChunkStep
  <2> QED
    BY <2>1 DEF Heard, Delta
<1> HIDE DEF e
<1>8. /\ Entries' /\ DOMAIN acc' = DOMAIN acc /\ acc'[k] = e
      /\ \A i \in DOMAIN acc : i # k => acc'[i] = acc[i]
  BY <1>1, <1>2, <1>4, <1>5, <1>6, <1>7, OneChanges
<1>9. Mirrors(e)
  <2>1. Mirrors(cb)
    BY <1>2, <1>5
  <2> QED
    BY <1>6, <2>1 DEF Mirrors
<1>10. \A i \in DOMAIN acc' : Mirrors(acc'[i])
  BY <1>2, <1>8, <1>9
<1>11. (\A i \in DOMAIN acc : Mirrors(acc[i]))'
  BY <1>1, <1>10 DEF Mirrors, IsText, CallsOf, BlocksOf
<1>12. Owned'
  BY <1>1, <1>2 DEF Owned
<1> QED
  BY <1>3, <1>8, <1>11, <1>12 DEF OpenAIMirror


\* All choices but one are left alone.
LEMMA OneSpeaks ==
    ASSUME Types, Entries, \A i \in DOMAIN acc : Mirrors(acc[i]),
           NEW k \in DOMAIN acc, NEW e, e.key = acc[k].key, acc'[k] = e, Mirrors(e)',
           DOMAIN acc' = DOMAIN acc, \A i \in DOMAIN acc : i # k => acc'[i] = acc[i],
           \A of, kind : of # e.key => BlocksOf(of, kind)' = BlocksOf(of, kind),
           \A n \in DOMAIN said : said[n].choice # e.key => said'[n].text = said[n].text
    PROVE  (\A i \in DOMAIN acc : Mirrors(acc[i]))'
<1>1. ASSUME NEW i \in DOMAIN acc' PROVE Mirrors(acc[i])'
  <2>1. CASE i = k
    <3>1. acc'[i] = e /\ Mirrors(e)'
      BY <2>1
    <3> QED
      BY ONLY <3>1 DEF Mirrors, IsText, CallsOf, BlocksOf
  <2>2. CASE i # k
    <3>1. PICK cb : cb = acc[i]
      OBVIOUS
    <3>2. Mirrors(cb) /\ cb.key # e.key /\ acc'[i] = cb
      BY <2>2, <3>1 DEF Entries, OneEach
    <3>3. Mirrors(cb)'
      BY <3>2, ChoiceStays
    <3> QED
      BY <3>2, <3>3 DEF Mirrors, IsText, CallsOf, BlocksOf
  <2> QED
    BY <2>1, <2>2
<1> QED
  BY <1>1

\* A new call of a choice is the last of its calls.
LEMMA CallsGrow ==
    ASSUME Types, NEW c, NEW l \in Nat, l = Len(said) + 1,
           BlocksOf(c, "call")' = BlocksOf(c, "call") \cup {l},
           \A n \in DOMAIN said : said'[n] = said[n], said'[l].text = <<>>
    PROVE  CallsOf(c)' = Append(CallsOf(c), NewCall(Cardinality(BlocksOf(c, "call"))))
<1> DEFINE places == BlocksOf(c, "call")
           k == Cardinality(places)
           q == Ascending(places)
           r == Ascending(places \cup {l})
<1>1. places \in SUBSET Nat /\ IsFiniteSet(places) /\ places \subseteq DOMAIN said
  BY BlocksAre
<1>2. \A n \in places : n < l
  BY <1>1, Spans
<1>3. k \in Nat /\ q \in [1..k -> places]
  BY <1>1, AscendingLists
<1>4. Cardinality(places \cup {l}) = k + 1 /\ r[k + 1] = l /\ \A p \in 1..k : r[p] = q[p]
  BY <1>1, <1>2, AscendingGrows
<1>5. CallsOf(c)' = [p \in 1..(k + 1) |-> [key |-> p - 1, text |-> said'[r[p]].text]]
  BY <1>4 DEF CallsOf
<1>6. CallsOf(c) = [p \in 1..k |-> [key |-> p - 1, text |-> said[q[p]].text]]
  BY DEF CallsOf
<1>7. CallsOf(c) \in Seq(Call) /\ Len(CallsOf(c)) = k
  BY CallsOfAre
<1>8. \A p \in 1..k : said'[r[p]].text = said[q[p]].text
  BY <1>1, <1>3, <1>4
<1>9. NewCall(k) = [key |-> k, text |-> <<>>] /\ NewCall(k) \in Call
  BY <1>3 DEF NewCall, Call, Fragments
<1>10. (k + 1) - 1 = k /\ \A p \in 1..(k + 1) : p = k + 1 \/ p \in 1..k
  BY <1>3
<1>11. said'[r[k + 1]].text = <<>>
  BY <1>4
<1> HIDE DEF k, q, r, places
<1>12. Append(CallsOf(c), NewCall(k)) =
          [p \in 1..(k + 1) |-> IF p = k + 1 THEN NewCall(k) ELSE CallsOf(c)[p]]
  <2> DEFINE longer == Append(CallsOf(c), NewCall(k))
  <2>1. /\ longer = [p \in 1..(k + 1) |-> longer[p]] /\ longer[k + 1] = NewCall(k)
        /\ \A p \in 1..k : longer[p] = CallsOf(c)[p]
    BY <1>3, <1>7, <1>9
  <2> HIDE DEF longer
  <2>2. \A p \in 1..(k + 1) : longer[p] = IF p = k + 1 THEN NewCall(k) ELSE CallsOf(c)[p]
    BY <1>10, <2>1
  <2> QED
    BY <2>1, <2>2 DEF longer
<1>13. \A p \in 1..k : [key |-> p - 1, text |-> said'[r[p]].text] = CallsOf(c)[p]
  BY <1>6, <1>8
<1> QED
  BY <1>5, <1>9, <1>10, <1>11, <1>12, <1>13 DEF k, places

\* A call is begun under the next index; a text is begun unheard.
LEMMA OpenAIBeginStep ==
    ASSUME Types, Numbered, Apart, InTurn, OpenAIMirror, NEW c \in Choice,
           NEW kind \in {"text", "thinking", "call"}, OpenAIBegin(c, kind)
    PROVE  Types' /\ Numbered' /\ Apart' /\ InTurn' /\ OpenAIMirror'
<1>1. /\ dialect = "openai" /\ c \in opened /\ MayBegin /\ Begins(c, kind) /\ kind \in Kind
      /\ kind = "call" \/ \A i \in DOMAIN said : said[i].choice # c \/ said[i].kind # kind
      /\ dialect' = dialect /\ opened' = opened /\ ended' = ended
  BY DEF OpenAIBegin, Kind
<1>2. Entries /\ Owned /\ \A k \in DOMAIN acc : Mirrors(acc[k])
  BY <1>1 DEF OpenAIMirror
<1>3. PICK l \in Nat : l = Len(said) + 1 /\ DOMAIN said = 1..(l - 1)
  BY Spans
<1>4. /\ said' \in Seq(Block) /\ Len(said') <= MaxBlock
      /\ DOMAIN said' = DOMAIN said \cup {l} /\ l \notin DOMAIN said
      /\ \A n \in DOMAIN said : said'[n] = said[n]
      /\ said'[l] = [choice |-> c, kind |-> kind, text |-> <<>>]
      /\ Numbered' /\ Apart'
  BY <1>1, <1>3, BeginStep
<1>5. Types' /\ InTurn'
  BY <1>1, <1>4 DEF Types, InTurn
<1>6. PICK k \in DOMAIN acc : acc[k].key = c
  BY <1>1, <1>2, OpenedAt
<1>7. PICK cb \in Entry : cb = acc[k]
  BY <1>2, <1>6 DEF Entries
<1>8. cb.key = c /\ Mirrors(cb)
  BY <1>2, <1>6, <1>7
<1>9. \A of, as : BlocksOf(of, as)' =
          IF of = c /\ as = kind THEN BlocksOf(of, as) \cup {l} ELSE BlocksOf(of, as)
  <2> SUFFICES ASSUME NEW of, NEW as
               PROVE  BlocksOf(of, as)' = IF of = c /\ as = kind THEN BlocksOf(of, as) \cup {l}
                                          ELSE BlocksOf(of, as)
    OBVIOUS
  <2>1. said'[l].choice = c /\ said'[l].kind = kind
    BY <1>4
  <2> QED
    BY <1>4, <2>1 DEF BlocksOf
<1>10. said'[l].choice = c /\ said'[l].kind = kind /\ said'[l].text = <<>>
  BY <1>4
<1>11. Owned'
  BY <1>1, <1>2, <1>4, <1>10 DEF Owned
<1>12. \A as : \A n \in BlocksOf(c, as) : said'[n].text = said[n].text
  BY <1>4 DEF BlocksOf
<1>13. ASSUME NEW t, NEW as, IsText(t, c, as), as = kind => BlocksOf(c, as) = {}
       PROVE  IsText(t, c, as)'
  <2>1. CASE as = kind
    BY <1>9, <1>10, <1>13, <2>1 DEF IsText
  <2>2. CASE as # kind
    BY <1>9, <1>12, <1>13, <2>2, KindStays
  <2> QED
    BY <2>1, <2>2
<1>14. kind # "call" => BlocksOf(c, kind) = {}
  BY <1>1 DEF BlocksOf
<1>15. IsText(cb.text, c, "text")' /\ IsText(cb.thinking, c, "thinking")'
  BY <1>8, <1>13, <1>14 DEF Mirrors
<1>16. PICK e \in Entry :
          /\ e.key = c /\ Mirrors(e)' /\ Entries' /\ acc'[k] = e
          /\ DOMAIN acc' = DOMAIN acc /\ \A i \in DOMAIN acc : i # k => acc'[i] = acc[i]
  <2>1. CASE kind # "call"
    <3>1. acc' = acc
      BY <2>1 DEF OpenAIBegin
    <3>2. CallsOf(c)' = CallsOf(c)
      BY <1>9, <1>12, <2>1, KindStays
    <3>3. Mirrors(cb)'
      BY <1>8, <1>15, <3>2 DEF Mirrors
    <3>4. Entries'
      BY <1>1, <1>2, <3>1 DEF Entries, OneEach
    <3> QED
      BY <1>7, <1>8, <3>1, <3>3, <3>4
  <2>2. CASE kind = "call"
    <3>1. PICK m \in Nat : m = Cardinality(BlocksOf(c, "call"))
      BY CallsOfAre
    <3>2. OpenAIChunk(c, Delta("begin", m, 0))
      BY <2>2, <3>1, CallIndexCounts DEF OpenAIBegin
    <3> DEFINE calls == Append(cb.calls, NewCall(m))
               e == [cb EXCEPT !.calls = calls]
    <3>3. cb.calls = CallsOf(c)
      BY <1>8 DEF Mirrors
    <3>4. ~Has(cb.calls, m)
      BY <3>1, <3>3, CallsOfAre DEF Has
    <3>5. For(cb.calls, NewCall(m)) = calls
      BY <3>4 DEF For, NewCall
    <3>6. calls \in Seq(Call)
      <4>1. NewCall(m) \in Call
        BY DEF NewCall, Call, Fragments
      <4> QED
        BY <3>3, <4>1, CallsOfAre
    <3>7. acc' = [acc EXCEPT ![k] = e]
      <4>1. acc' = [acc EXCEPT ![k] = Heard(cb, Delta("begin", m, 0))]
        BY <1>2, <1>6, <1>7, <3>2, ChunkStep
      <4>2. Heard(cb, Delta("begin", m, 0)) = e
        BY <3>5 DEF Heard, Delta
      <4> QED
        BY <4>1, <4>2
    <3> HIDE DEF calls
    <3>8. /\ e \in Entry /\ e.key = cb.key /\ e.text = cb.text /\ e.thinking = cb.thinking
          /\ e.calls = calls /\ e.seen = cb.seen
      BY <3>6 DEF Entry
    <3> HIDE DEF e
    <3>9. CallsOf(c)' = calls
      BY <1>3, <1>4, <1>9, <1>10, <2>2, <3>1, <3>3, CallsGrow DEF calls
    <3>10. Mirrors(e)'
      BY <1>8, <1>15, <3>8, <3>9 DEF Mirrors
    <3>11. /\ Entries' /\ DOMAIN acc' = DOMAIN acc /\ acc'[k] = e
           /\ \A i \in DOMAIN acc : i # k => acc'[i] = acc[i]
      BY <1>1, <1>2, <1>7, <3>7, <3>8, OneChanges
    <3> QED
      BY <1>8, <3>8, <3>10, <3>11
  <2> QED
    BY <2>1, <2>2
<1>17. (\A i \in DOMAIN acc : Mirrors(acc[i]))'
  BY <1>2, <1>4, <1>6, <1>9, <1>16, OneSpeaks
<1> QED
  BY <1>1, <1>4, <1>5, <1>11, <1>16, <1>17 DEF OpenAIMirror

\* A delta goes to its choice, and there to its text or to the call of its index.
LEMMA OpenAISaysStep ==
    ASSUME Types, Numbered, Apart, InTurn, OpenAIMirror, NEW i \in DOMAIN said, OpenAISays(i)
    PROVE  Types' /\ Numbered' /\ Apart' /\ InTurn' /\ OpenAIMirror'
<1>1. /\ dialect = "openai" /\ MaySay /\ Says(i)
      /\ dialect' = dialect /\ opened' = opened /\ ended' = ended
  BY DEF OpenAISays
<1>2. Entries /\ Owned /\ \A k \in DOMAIN acc : Mirrors(acc[k])
  BY <1>1 DEF OpenAIMirror
<1>3. PICK x \in 1..MaxFragment : x = Sent + 1
  BY <1>1, SayStep
<1>4. /\ said' \in Seq(Block) /\ Len(said') = Len(said) /\ DOMAIN said' = DOMAIN said
      /\ \A n \in DOMAIN said :
            /\ said'[n].kind = said[n].kind /\ said'[n].choice = said[n].choice
            /\ said'[n].text = IF n = i THEN Append(said[n].text, x) ELSE said[n].text
      /\ Numbered' /\ Apart'
  BY <1>1, <1>3, SayStep
<1>5. Types' /\ InTurn'
  BY <1>1, <1>4 DEF Types, InTurn
<1>6. PICK c \in Choice, kind \in Kind :
          /\ c = said[i].choice /\ kind = said[i].kind /\ c \in opened /\ kind # "refusal"
  BY <1>2, Spans DEF Owned
<1>7. PICK k \in DOMAIN acc : acc[k].key = c
  BY <1>2, <1>6, OpenedAt
<1>8. PICK cb \in Entry : cb = acc[k]
  BY <1>2, <1>7 DEF Entries
<1>9. cb.key = c /\ Mirrors(cb)
  BY <1>2, <1>7, <1>8
<1>10. \A of, as : BlocksOf(of, as)' = BlocksOf(of, as)
  BY <1>4, BlocksStay
<1>11. Owned'
  BY <1>1, <1>2, <1>4 DEF Owned
<1>12. i \in BlocksOf(c, kind) /\ \A as : as # kind => i \notin BlocksOf(c, as)
  BY <1>6 DEF BlocksOf
<1>13. \A as : as # kind => \A n \in BlocksOf(c, as) : said'[n].text = said[n].text
  BY <1>4, <1>12, BlocksAre
<1>14. ASSUME NEW as, as # kind
       PROVE  /\ \A t : IsText(t, c, as) => IsText(t, c, as)'
              /\ as = "call" => CallsOf(c)' = CallsOf(c)
  BY <1>10, <1>13, <1>14, KindStays
<1>15. ASSUME kind # "call", NEW t, IsText(t, c, kind)
       PROVE  IsText(Append(t, x), c, kind)'
  <2>1. BlocksOf(c, kind) = {i}
    BY <1>2, <1>6, <1>12, <1>15 DEF Owned, BlocksOf
  <2>2. t = said[i].text
    BY <2>1, <1>15 DEF IsText
  <2> QED
    BY <1>4, <1>10, <2>1, <2>2 DEF IsText
<1>16. PICK m : m = CallIndex(c, i - 1)
  OBVIOUS
<1>17. acc' = [acc EXCEPT ![k] = Heard(cb, Delta(kind, m, x))]
  <2>1. OpenAIChunk(c, Delta(kind, m, x))
    BY <1>3, <1>6, <1>16 DEF OpenAISays
  <2> QED
    BY <1>2, <1>7, <1>8, <2>1, ChunkStep
<1>18. PICK e \in Entry : e.key = cb.key /\ Mirrors(e)' /\ acc' = [acc EXCEPT ![k] = e]
  <2>1. CASE kind = "text"
    <3> DEFINE t == Append(cb.text, x)
               e == [cb EXCEPT !.seen = TRUE, !.text = t]
    <3>1. Heard(cb, Delta(kind, m, x)) = e
      BY <2>1 DEF Heard, Delta
    <3>2. t \in Fragments
      BY TextGrows DEF Entry
    <3>3. IsText(t, c, "text")' /\ IsText(cb.thinking, c, "thinking")' /\ CallsOf(c)' = CallsOf(c)
      BY <1>9, <1>14, <1>15, <2>1 DEF Mirrors
    <3> HIDE DEF t
    <3>4. /\ e \in Entry /\ e.key = cb.key /\ e.seen /\ e.text = t
          /\ e.thinking = cb.thinking /\ e.calls = cb.calls
      BY <3>2 DEF Entry
    <3> HIDE DEF e
    <3>5. Mirrors(e)'
      BY <1>9, <3>3, <3>4 DEF Mirrors
    <3> QED
      BY <1>17, <3>1, <3>4, <3>5
  <2>2. CASE kind = "thinking"
    <3> DEFINE t == Append(cb.thinking, x)
               e == [cb EXCEPT !.thinking = t]
    <3>1. Heard(cb, Delta(kind, m, x)) = e
      BY <2>2 DEF Heard, Delta
    <3>2. t \in Fragments
      BY TextGrows DEF Entry
    <3>3. IsText(cb.text, c, "text")' /\ IsText(t, c, "thinking")' /\ CallsOf(c)' = CallsOf(c)
      BY <1>9, <1>14, <1>15, <2>2 DEF Mirrors
    <3> HIDE DEF t
    <3>4. /\ e \in Entry /\ e.key = cb.key /\ e.seen = cb.seen /\ e.text = cb.text
          /\ e.thinking = t /\ e.calls = cb.calls
      BY <3>2 DEF Entry
    <3> HIDE DEF e
    <3>5. Mirrors(e)'
      BY <1>9, <3>3, <3>4 DEF Mirrors
    <3> QED
      BY <1>17, <3>1, <3>4, <3>5
  <2>3. CASE kind = "call"
    <3> DEFINE places == BlocksOf(c, "call")
    <3>1. places \in SUBSET Nat /\ IsFiniteSet(places) /\ i \in places
      BY <1>12, <2>3, BlocksAre
    <3>2. PICK p \in 1..Cardinality(places) : Ascending(places)[p] = i
      BY <3>1, AscendingLists
    <3>3. /\ cb.calls \in Seq(Call) /\ OneEach(cb.calls) /\ cb.calls = CallsOf(c)
          /\ p \in DOMAIN cb.calls /\ cb.calls[p].key = p - 1 /\ cb.calls[p].text = said[i].text
      BY <1>9, <3>2, CallsOfAre DEF Mirrors
    <3>4. m = p - 1
      BY <1>16, <3>2, CallIndexCounts
    <3>5. For(cb.calls, NewCall(m)) = cb.calls /\ At(cb.calls, m) = p
      BY <3>3, <3>4, OldEntry
    <3>6. PICK t \in Fragments, u \in Call, v \in Call :
              /\ t = said'[i].text /\ u = cb.calls[p] /\ v = [u EXCEPT !.text = Append(@, x)]
              /\ v.key = p - 1 /\ v.text = t
      <4>1. said'[i].text = Append(said[i].text, x) /\ Append(said[i].text, x) \in Fragments
        BY <1>4, Spans, TextGrows
      <4>2. PICK u \in Call : u = cb.calls[p]
        BY <3>3
      <4>3. u.key = p - 1 /\ u.text = said[i].text
        BY <3>3, <4>2
      <4>4. /\ [u EXCEPT !.text = Append(@, x)] \in Call
            /\ [u EXCEPT !.text = Append(@, x)].key = p - 1
            /\ [u EXCEPT !.text = Append(@, x)].text = Append(said[i].text, x)
        BY <4>1, <4>3 DEF Call
      <4> QED
        BY <4>1, <4>2, <4>4
    <3> DEFINE calls == [cb.calls EXCEPT ![p] = v]
               e == [cb EXCEPT !.calls = calls]
    <3>7. Heard(cb, Delta(kind, m, x)) = e
      <4>1. Heard(cb, Delta(kind, m, x)) =
                [cb EXCEPT !.calls = [cb.calls EXCEPT ![p].text = Append(@, x)]]
        BY <2>3, <3>5 DEF Heard, Delta
      <4>2. [cb.calls EXCEPT ![p].text = Append(@, x)] = calls
        BY <3>3, <3>6
      <4> QED
        BY <4>1, <4>2
    <3>8. /\ calls \in Seq(Call) /\ DOMAIN calls = DOMAIN cb.calls /\ calls[p] = v
          /\ \A j \in DOMAIN calls : j # p => calls[j] = cb.calls[j]
      BY <3>3
    <3> HIDE DEF calls
    <3>9. /\ e \in Entry /\ e.key = cb.key /\ e.seen = cb.seen /\ e.text = cb.text
          /\ e.thinking = cb.thinking /\ e.calls = calls
      BY <3>8 DEF Entry
    <3> HIDE DEF e
    <3>10. CallsOf(c)' = calls
      <4> DEFINE row(j) == [key |-> j - 1, text |-> said'[Ascending(places)[j]].text]
      <4>1. CallsOf(c)' = [j \in 1..Cardinality(places) |-> row(j)]
        <5>1. places' = places
          BY <1>10
        <5> QED
          BY <5>1 DEF CallsOf
      <4>2. v = row(p)
        <5>1. v = [key |-> v.key, text |-> v.text]
          BY DEF Call
        <5> QED
          BY <3>2, <3>6, <5>1
      <4>3. Ascending(places) \in [1..Cardinality(places) -> places] /\ Rising(Ascending(places))
        BY <3>1, AscendingLists
      <4>4. ASSUME NEW j \in 1..Cardinality(places), j # p PROVE cb.calls[j] = row(j)
        <5>1. cb.calls[j] = [key |-> j - 1, text |-> said[Ascending(places)[j]].text]
          BY <3>3 DEF CallsOf
        <5>2. Ascending(places)[j] \in places /\ Ascending(places)[j] # i
          <6>1. j < p \/ p < j
            BY <4>4, <3>1, FS_CardinalityType
          <6> QED
            <7> DEFINE q == Ascending(places)
            <7> HIDE DEF q
            <7>1. q[j] \in places /\ q[p] \in places /\ (q[j] < q[p] \/ q[p] < q[j])
              BY <4>3, <6>1 DEF Rising, q
            <7>2. q[j] \in Nat /\ q[p] \in Nat /\ q[p] = i
              BY <3>1, <3>2, <7>1 DEF q
            <7> QED
              BY <7>1, <7>2 DEF q
        <5>3. said'[Ascending(places)[j]].text = said[Ascending(places)[j]].text
          BY <1>4, <5>2, BlocksAre
        <5> QED
          BY <5>1, <5>3
      <4>5. DOMAIN calls = 1..Cardinality(places) /\ calls = [j \in DOMAIN calls |-> calls[j]]
        BY <3>3, <3>8, CallsOfAre
      <4> HIDE DEF row, places
      <4>6. \A j \in 1..Cardinality(places) : calls[j] = row(j)
        BY <3>8, <4>2, <4>4, <4>5
      <4> QED
        BY <4>1, <4>5, <4>6
    <3>11. IsText(cb.text, c, "text")' /\ IsText(cb.thinking, c, "thinking")'
      BY <1>9, <1>14, <2>3 DEF Mirrors
    <3>12. Mirrors(e)'
      BY <1>9, <3>9, <3>10, <3>11 DEF Mirrors
    <3> QED
      BY <1>17, <3>7, <3>9, <3>12
  <2> QED
    BY <1>6, <2>1, <2>2, <2>3 DEF Kind
<1>19. /\ Entries' /\ DOMAIN acc' = DOMAIN acc /\ acc'[k] = e
       /\ \A j \in DOMAIN acc : j # k => acc'[j] = acc[j]
  BY <1>1, <1>2, <1>8, <1>18, OneChanges
<1>20. (\A j \in DOMAIN acc : Mirrors(acc[j]))'
  <2>1. e.key = c /\ e.key = acc[k].key /\ Mirrors(e)'
    BY <1>7, <1>9, <1>18
  <2>2. \A n \in DOMAIN said : said[n].choice # e.key => said'[n].text = said[n].text
    BY <1>4, <1>6, <2>1
  <2> QED
    BY <1>2, <1>10, <1>19, <2>1, <2>2, OneSpeaks
<1> QED
  BY <1>1, <1>4, <1>5, <1>11, <1>19, <1>20 DEF OpenAIMirror

----------------------------------------------------------------------------
(* The invariant *)

\* What holds after every frame: the viewer's loop has folded back what was said.
IInv ==
    Types /\ Numbered /\ Apart /\ InTurn /\ OpenAIMirror /\ ResponsesMirror /\ AnthropicMirror

\* Before the first frame nothing was said and nothing was built.
LEMMA InvInit ==
    ASSUME Init
    PROVE  IInv
<1>1. said = <<>> /\ DOMAIN said = {} /\ Len(said) = 0
  BY DEF Init
<1>2. dialect \in Dialect /\ opened = {} /\ ended = {}
  BY DEF Init
<1>3. Types
  BY <1>1, <1>2, Bounds DEF Types
<1>4. Uttered = {} /\ Sent = 0
  <2>1. Uttered = {}
    BY <1>1 DEF Uttered
  <2> QED
    BY <2>1, FS_EmptySet DEF Sent
<1>5. Numbered
  BY <1>4, Bounds DEF Numbered
<1>6. Apart /\ InTurn
  BY <1>1 DEF Apart, InTurn
<1>7. OpenAIMirror
  <2> SUFFICES ASSUME dialect = "openai"
               PROVE  Entries /\ Owned /\ \A k \in DOMAIN acc : Mirrors(acc[k])
    BY DEF OpenAIMirror
  <2>1. acc = <<>> /\ DOMAIN acc = {} /\ acc \in Seq(Entry)
    BY DEF Init
  <2> QED
    BY <1>1, <1>2, <2>1 DEF Entries, OneEach, Owned
<1>8. ResponsesMirror
  <2> SUFFICES ASSUME dialect = "responses"
               PROVE  /\ acc \in Answer
                      /\ Rising(acc.text) /\ ToSet(acc.text) = UNION {TextAt(n) : n \in Spoken}
                      /\ acc.calls = CallsSaid
    BY DEF ResponsesMirror
  <2>1. acc = [text |-> <<>>, calls |-> <<>>]
    BY DEF Init, NewAnswer
  <2>2. acc.text = <<>> /\ acc.calls = <<>> /\ acc \in Answer
    BY <2>1 DEF Answer, Fragments
  <2>3. Spoken = {} /\ BlocksOf(0, "call") = {}
    BY <1>1 DEF Spoken, BlocksOf
  <2>4. Rising(acc.text) /\ ToSet(acc.text) = {}
    BY <2>2 DEF Rising, ToSet
  <2>5. CallsSaid = <<>>
    <3>1. Cardinality(BlocksOf(0, "call")) = 0
      BY <2>3, FS_EmptySet
    <3>2. CallsSaid \in Seq(Call) /\ Len(CallsSaid) = 0
      BY <1>3, <3>1, CallsAre
    <3> QED
      BY <3>2, EmptySeq
  <2> QED
    BY <2>2, <2>3, <2>4, <2>5
<1>9. AnthropicMirror
  <2> SUFFICES ASSUME dialect = "anthropic"
               PROVE  acc = [n \in DOMAIN said |-> PartOf(n)]
    BY <1>1 DEF AnthropicMirror
  <2>1. acc = <<>>
    BY DEF Init
  <2> QED
    BY <1>1, <2>1
<1> QED
  BY <1>3, <1>5, <1>6, <1>7, <1>8, <1>9 DEF IInv

\* A frame of one dialect does not disturb what is said of the others.
LEMMA OneDialect ==
    ASSUME dialect' = dialect
    PROVE  /\ dialect # "openai" => OpenAIMirror'
           /\ dialect # "responses" => ResponsesMirror'
           /\ dialect # "anthropic" => AnthropicMirror'
BY DEF OpenAIMirror, ResponsesMirror, AnthropicMirror

\* Every frame keeps it, by the lemma of that frame.
LEMMA InvNext ==
    ASSUME IInv, [Next]_vars
    PROVE  IInv'
<1> USE DEF IInv
<1>1. ASSUME NEW c \in Choice, OpenAIRole(c) PROVE IInv'
  <2>1. dialect = "openai" /\ dialect' = dialect
    BY <1>1 DEF OpenAIRole
  <2> QED
    BY <1>1, <2>1, OpenAIRoleStep, OneDialect
<1>2. ASSUME NEW c \in Choice, OpenAIFinish(c) PROVE IInv'
  <2>1. dialect = "openai" /\ dialect' = dialect
    BY <1>2 DEF OpenAIFinish
  <2> QED
    BY <1>2, <2>1, OpenAIFinishStep, OneDialect
<1>3. ASSUME NEW c \in Choice, NEW kind \in {"text", "thinking", "call"}, OpenAIBegin(c, kind)
      PROVE  IInv'
  <2>1. dialect = "openai" /\ dialect' = dialect
    BY <1>3 DEF OpenAIBegin
  <2> QED
    BY <1>3, <2>1, OpenAIBeginStep, OneDialect
<1>4. ASSUME NEW i \in DOMAIN said, OpenAISays(i) PROVE IInv'
  <2>1. dialect = "openai" /\ dialect' = dialect
    BY <1>4 DEF OpenAISays
  <2> QED
    BY <1>4, <2>1, OpenAISaysStep, OneDialect
<1>5. ASSUME NEW kind \in Kind, ResponsesBegin(kind) PROVE IInv'
  <2>1. dialect = "responses" /\ dialect' = dialect
    BY <1>5 DEF ResponsesBegin
  <2> QED
    BY <1>5, <2>1, ResponsesBeginStep, OneDialect
<1>6. CASE ResponsesSays
  <2>1. dialect = "responses" /\ dialect' = dialect
    BY <1>6 DEF ResponsesSays
  <2> QED
    BY <1>6, <2>1, ResponsesSaysStep, OneDialect
<1>7. CASE ResponsesItemDone \/ ResponsesCompleted
  <2>1. dialect = "responses" /\ dialect' = dialect
    BY <1>7 DEF ResponsesItemDone, ResponsesCompleted
  <2> QED
    BY <1>7, <2>1, ResponsesAgainStep, OneDialect
<1>8. ASSUME NEW kind \in {"text", "thinking", "call"}, AnthropicBegin(kind) PROVE IInv'
  <2>1. dialect = "anthropic" /\ dialect' = dialect
    BY <1>8 DEF AnthropicBegin
  <2> QED
    BY <1>8, <2>1, AnthropicBeginStep, OneDialect
<1>9. CASE AnthropicSays
  <2>1. dialect = "anthropic" /\ dialect' = dialect
    BY <1>9 DEF AnthropicSays
  <2> QED
    BY <1>9, <2>1, AnthropicSaysStep, OneDialect
<1>10. CASE AnthropicStop
  <2>1. dialect = "anthropic" /\ dialect' = dialect
    BY <1>10 DEF AnthropicStop
  <2> QED
    BY <1>10, <2>1, AnthropicStopStep, OneDialect
<1>11. CASE UNCHANGED vars
  <2>1. UNCHANGED <<dialect, said, opened, ended, acc>>
    BY <1>11 DEF vars
  <2>2. Types' /\ Numbered' /\ Apart' /\ InTurn'
    BY <2>1, QuietStep DEF Types, InTurn
  <2>3. OpenAIMirror'
    BY <2>1 DEF OpenAIMirror, Entries, OneEach, Owned, Mirrors, IsText, CallsOf, BlocksOf
  <2>4. ResponsesMirror'
    BY <2>1 DEF ResponsesMirror, Spoken, CallsSaid, BlocksOf, TextAt
  <2>5. AnthropicMirror'
    BY <2>1 DEF AnthropicMirror, PartOf
  <2> QED
    BY <2>2, <2>3, <2>4, <2>5
<1> QED
  BY <1>1, <1>2, <1>3, <1>4, <1>5, <1>6, <1>7, <1>8, <1>9, <1>10, <1>11 DEF Next

\* assembleStream's loop, after any frames of any dialect in any order the upstream may
\* send them, has built exactly what was said: entry by entry and fragment by fragment
\* (ChatViewer.tsx:354, 436, 535).
THEOREM Mirrored == Spec => []IInv
<1>1. Init => IInv
  BY InvInit
<1>2. IInv /\ [Next]_vars => IInv'
  BY InvNext
<1> QED
  BY <1>1, <1>2, PTL DEF Spec

\* choiceFor, toolFor and partFor never make two entries for one key, and blocks, choices
\* and fragments stay within their types.
THEOREM TypeCorrect == Spec => []TypeOK
<1>1. ASSUME IInv PROVE TypeOK
  <2> DEFINE list == IF dialect = "responses" THEN acc.calls ELSE acc
  <2>1. OneEach(list)
    <3>1. CASE dialect = "openai"
      BY <1>1, <3>1 DEF IInv, OpenAIMirror, Entries
    <3>2. CASE dialect = "responses"
      BY <1>1, <3>2, CallsAre DEF IInv, ResponsesMirror
    <3>3. CASE dialect = "anthropic"
      BY <1>1, <3>3, PartsAre DEF IInv
    <3> QED
      BY <1>1, <3>1, <3>2, <3>3 DEF IInv, Types, Dialect
  <2>2. Sent <= MaxFragment
    BY <1>1, Bounds DEF IInv, Numbered
  <2> QED
    BY <1>1, <2>1, <2>2 DEF TypeOK, IInv, Types, OneEach
<1> QED
  BY <1>1, Mirrored, PTL

----------------------------------------------------------------------------
(* What is on the screen *)

\* Where each block is shown, place by place.
Arranged(from) ==
    /\ \A pl \in Places :
          /\ Rising(ItemAt(pl).text)
          /\ ToSet(ItemAt(pl).text) = UNION {TextAt(n) : n \in from[pl]}
          /\ \A n \in from[pl] : n \in DOMAIN said /\ ItemAt(pl).as = ShownAs(said[n].kind)
          /\ ItemAt(pl).as # "nowhere"
    /\ \A pl, at \in Places : from[pl] \cap from[at] # {} => pl = at
    /\ \A n \in DOMAIN said :
          ShownAs(said[n].kind) # "nowhere" /\ said[n].text # <<>>
              => \E pl \in Places : n \in from[pl]

\* If such an arrangement exists, every fragment is on the screen once.
LEMMA ArrangedShows ==
    ASSUME IInv, NEW from, Arranged(from)
    PROVE  ShownOnce
<1>1. ASSUME NEW i \in DOMAIN said, NEW f \in ToSet(said[i].text)
      PROVE  IF ShownAs(said[i].kind) = "nowhere" THEN PlacesOf(f) = {}
             ELSE /\ Cardinality(PlacesOf(f)) = 1
                  /\ \A pl \in PlacesOf(f) : ItemAt(pl).as = ShownAs(said[i].kind)
  <2>1. ASSUME NEW pl \in PlacesOf(f)
        PROVE  /\ pl \in Places /\ i \in from[pl] /\ ItemAt(pl).as = ShownAs(said[i].kind)
               /\ ItemAt(pl).as # "nowhere"
    <3>1. pl \in Places /\ f \in ToSet(ItemAt(pl).text)
      BY <2>1 DEF PlacesOf
    <3>2. PICK n \in from[pl] : f \in TextAt(n)
      BY <3>1 DEF Arranged
    <3>3. n \in DOMAIN said
      BY <3>1, <3>2 DEF Arranged
    <3>4. n = i
      BY <3>2, <3>3 DEF IInv, Apart, TextAt
    <3> QED
      BY <3>1, <3>2, <3>4 DEF Arranged
  <2>2. CASE ShownAs(said[i].kind) = "nowhere"
    BY <2>1, <2>2
  <2>3. CASE ShownAs(said[i].kind) # "nowhere"
    <3>1. said[i].text # <<>>
      BY DEF ToSet
    <3>2. PICK at \in Places : i \in from[at]
      BY <2>3, <3>1 DEF Arranged
    <3>3. at \in PlacesOf(f)
      <4>1. f \in TextAt(i)
        BY DEF TextAt
      <4>2. f \in ToSet(ItemAt(at).text)
        BY <3>2, <4>1 DEF Arranged
      <4> QED
        BY <4>2 DEF PlacesOf
    <3>4. \A pl \in PlacesOf(f) : pl = at
      BY <2>1, <3>2 DEF Arranged
    <3>5. PlacesOf(f) = {at}
      BY <3>3, <3>4
    <3> QED
      BY <2>1, <2>3, <3>5, FS_Singleton
  <2> QED
    BY <2>2, <2>3
<1>2. \A pl \in Places : \A i, j \in DOMAIN ItemAt(pl).text :
          i < j => ItemAt(pl).text[i] < ItemAt(pl).text[j]
  BY DEF Arranged, Rising
<1> QED
  BY <1>1, <1>2 DEF ShownOnce

\* A part of a message's content, and an item of a bubble.
Piece == [kind : Kind, text : Fragments]
Shown == [as : {"text", "call", "thinking", "json"}, text : Fragments]

Message(content, thinking, calls) == [content |-> content, thinking |-> thinking, calls |-> calls]

\* One list after another.
LEMMA Concatenated ==
    ASSUME NEW S, NEW s \in Seq(S), NEW t \in Seq(S)
    PROVE  /\ s \o t \in Seq(S) /\ Len(s \o t) = Len(s) + Len(t)
           /\ DOMAIN (s \o t) = 1..(Len(s) + Len(t))
           /\ \A i \in 1..Len(s) : (s \o t)[i] = s[i]
           /\ \A i \in 1..Len(t) : (s \o t)[Len(s) + i] = t[i]
<1>1. Len(s) \in Nat /\ Len(t) \in Nat
  OBVIOUS
<1>2. /\ s \o t \in Seq(S) /\ Len(s \o t) = Len(s) + Len(t)
      /\ \A i \in 1..(Len(s) + Len(t)) : (s \o t)[i] = IF i <= Len(s) THEN s[i] ELSE t[i - Len(s)]
  BY ConcatProperties
<1>3. \A i \in 1..Len(s) : i \in 1..(Len(s) + Len(t)) /\ i <= Len(s)
  BY <1>1
<1>4. \A i \in 1..Len(t) : /\ Len(s) + i \in 1..(Len(s) + Len(t)) /\ ~(Len(s) + i <= Len(s))
                           /\ (Len(s) + i) - Len(s) = i
  BY <1>1
<1>5. DOMAIN (s \o t) = 1..(Len(s) + Len(t))
  BY <1>2, LenProperties
<1> QED
  BY <1>2, <1>3, <1>4, <1>5

\* What is shown in a bubble.
LEMMA BubbleList ==
    ASSUME NEW thinking \in Fragments, NEW content \in Seq(Piece), NEW calls \in Seq(Call),
           content # <<>> \/ thinking # <<>> \/ calls # <<>>
    PROVE  Bubble(Message(content, thinking, calls)) \in Seq(Shown)
<1> DEFINE first == IF thinking = <<>> THEN <<>> ELSE <<ThinkingBlock(thinking)>>
           second == [i \in DOMAIN content |-> PartView(content[i])]
           third == [i \in DOMAIN calls |-> ToolCallCard(calls[i])]
<1>1. Bubble(Message(content, thinking, calls)) = first \o second \o third
  BY DEF Bubble, Message
<1>2. first \in Seq(Shown)
  <2>1. ThinkingBlock(thinking) \in Shown
    BY DEF ThinkingBlock, Item, Shown
  <2> QED
    BY <2>1
<1>3. second \in Seq(Shown)
  <2>1. \A p \in Piece : PartView(p) \in Shown
    BY DEF Piece, PartView, ToolCallCard, Item, Shown
  <2>2. DOMAIN content = 1..Len(content) /\ Len(content) \in Nat
    OBVIOUS
  <2> QED
    BY <2>1, <2>2
<1>4. third \in Seq(Shown)
  <2>1. \A c \in Call : ToolCallCard(c) \in Shown
    BY DEF Call, ToolCallCard, Item, Shown
  <2>2. DOMAIN calls = 1..Len(calls) /\ Len(calls) \in Nat
    OBVIOUS
  <2> QED
    BY <2>1, <2>2
<1> HIDE DEF first, second, third
<1>5. first \o second \in Seq(Shown)
  BY <1>2, <1>3, Concatenated
<1>6. (first \o second) \o third \in Seq(Shown)
  BY <1>4, <1>5, Concatenated
<1> QED
  BY <1>1, <1>6

\* A bubble: the reasoning, the content, the calls.
LEMMA BubbleIs ==
    ASSUME NEW thinking \in Fragments, NEW content \in Seq(Piece), NEW calls \in Seq(Call),
           NEW a \in {0, 1}, a = 0 <=> thinking = <<>>,
           content # <<>> \/ thinking # <<>> \/ calls # <<>>,
           NEW b, b = Bubble(Message(content, thinking, calls))
    PROVE  /\ DOMAIN b = 1..(a + Len(content) + Len(calls))
           /\ a = 1 => b[1] = Item("thinking", thinking)
           /\ \A i \in 1..Len(content) : b[a + i] = PartView(content[i])
           /\ \A i \in 1..Len(calls) : b[a + Len(content) + i] = Item("call", calls[i].text)
<1> DEFINE first == IF thinking = <<>> THEN <<>> ELSE <<ThinkingBlock(thinking)>>
           second == [i \in DOMAIN content |-> PartView(content[i])]
           third == [i \in DOMAIN calls |-> ToolCallCard(calls[i])]
<1>1. Bubble(Message(content, thinking, calls)) = first \o second \o third
  BY DEF Bubble, Message
<1>2. first \in Seq(Shown) /\ Len(first) = a /\ (a = 1 => first[1] = Item("thinking", thinking))
  <2>1. ThinkingBlock(thinking) = Item("thinking", thinking) /\ Item("thinking", thinking) \in Shown
    BY DEF ThinkingBlock, Item, Shown
  <2> QED
    BY <2>1
<1>3. second \in Seq(Shown) /\ Len(second) = Len(content)
  <2>1. \A p \in Piece : PartView(p) \in Shown
    BY DEF Piece, PartView, ToolCallCard, Item, Shown
  <2>2. \A i \in DOMAIN content : content[i] \in Piece
    OBVIOUS
  <2>3. DOMAIN content = 1..Len(content) /\ Len(content) \in Nat
    OBVIOUS
  <2> QED
    BY <2>1, <2>2, <2>3
<1>4. third \in Seq(Shown) /\ Len(third) = Len(calls)
  <2>1. \A c \in Call : ToolCallCard(c) \in Shown
    BY DEF Call, ToolCallCard, Item, Shown
  <2>2. \A i \in DOMAIN calls : calls[i] \in Call
    OBVIOUS
  <2>3. DOMAIN calls = 1..Len(calls) /\ Len(calls) \in Nat
    OBVIOUS
  <2> QED
    BY <2>1, <2>2, <2>3
<1>5. \A i \in 1..Len(content) : second[i] = PartView(content[i])
  OBVIOUS
<1>6. \A i \in 1..Len(calls) : third[i] = Item("call", calls[i].text)
  BY DEF ToolCallCard
<1>7. a \in {0, 1} /\ Len(content) \in Nat /\ Len(calls) \in Nat
  OBVIOUS
<1> HIDE DEF first, second, third
<1>8. /\ first \o second \in Seq(Shown) /\ Len(first \o second) = a + Len(content)
      /\ \A i \in 1..a : (first \o second)[i] = first[i]
      /\ \A i \in 1..Len(content) : (first \o second)[a + i] = second[i]
  BY <1>2, <1>3, Concatenated
<1>9. PICK front \in Seq(Shown) : front = first \o second /\ Len(front) = a + Len(content)
  BY <1>8
<1>10. /\ DOMAIN (front \o third) = 1..(a + Len(content) + Len(calls))
       /\ front \o third \in Seq(Shown)
       /\ \A i \in 1..(a + Len(content)) : (front \o third)[i] = front[i]
       /\ \A i \in 1..Len(calls) : (front \o third)[a + Len(content) + i] = third[i]
  <2>1. front \in Seq(Shown) /\ third \in Seq(Shown)
    BY <1>4, <1>9
  <2>2. /\ DOMAIN (front \o third) = 1..(Len(front) + Len(third))
        /\ front \o third \in Seq(Shown)
        /\ \A i \in 1..Len(front) : (front \o third)[i] = front[i]
        /\ \A i \in 1..Len(third) : (front \o third)[Len(front) + i] = third[i]
    BY <2>1, Concatenated
  <2> QED
    BY <1>4, <1>9, <2>2
<1>11. b = front \o third
  BY <1>1, <1>9
<1>12. a = 1 => b[1] = Item("thinking", thinking)
  BY <1>2, <1>7, <1>8, <1>9, <1>10, <1>11
<1>13. \A i \in 1..Len(content) : b[a + i] = PartView(content[i])
  <2>1. \A i \in 1..Len(content) : a + i \in 1..(a + Len(content))
    BY <1>7
  <2> QED
    BY <1>5, <1>8, <1>9, <1>10, <1>11, <2>1
<1>14. \A i \in 1..Len(calls) : b[a + Len(content) + i] = Item("call", calls[i].text)
  BY <1>6, <1>10, <1>11
<1> QED
  BY <1>10, <1>12, <1>13, <1>14, <1>11

\* Without reasoning, as the other two dialects have it.
LEMMA PlainBubble ==
    ASSUME NEW content \in Seq(Piece), NEW calls \in Seq(Call), content # <<>> \/ calls # <<>>,
           NEW b, b = Bubble(Message(content, <<>>, calls))
    PROVE  /\ b \in Seq(Shown) /\ Len(b) = Len(content) + Len(calls)
           /\ \A i \in 1..Len(content) : b[i] = PartView(content[i])
           /\ \A i \in 1..Len(calls) : b[Len(content) + i] = Item("call", calls[i].text)
<1>1. PICK thinking \in Fragments, a \in {0} : thinking = <<>>
  <2>1. <<>> \in Fragments
    BY DEF Fragments
  <2> QED
    BY <2>1
<1>2. /\ a \in {0, 1} /\ (a = 0 <=> thinking = <<>>)
      /\ content # <<>> \/ thinking # <<>> \/ calls # <<>>
      /\ b = Bubble(Message(content, thinking, calls))
  BY <1>1
<1>3. /\ DOMAIN b = 1..(a + Len(content) + Len(calls))
      /\ \A i \in 1..Len(content) : b[a + i] = PartView(content[i])
      /\ \A i \in 1..Len(calls) : b[a + Len(content) + i] = Item("call", calls[i].text)
  BY <1>2, BubbleIs
<1>4. b \in Seq(Shown)
  BY <1>2, BubbleList
<1>5. Len(b) = Len(content) + Len(calls)
  <2>1. DOMAIN b = 1..Len(b) /\ Len(b) \in Nat
    BY <1>4
  <2> QED
    BY <1>1, <1>3, <2>1
<1> QED
  BY <1>1, <1>3, <1>4, <1>5

\* The places of a screen with one bubble.
LEMMA OneBubble ==
    ASSUME NEW b, Bubbles = <<b>>
    PROVE  /\ Places = {<<1, p>> : p \in DOMAIN b}
           /\ \A p : ItemAt(<<1, p>>) = b[p]
<1>1. DOMAIN Bubbles = {1} /\ Bubbles[1] = b
  OBVIOUS
<1> QED
  BY <1>1 DEF Places, ItemAt

\* A screen of no message, and of one.
LEMMA ScreenIs ==
    /\ Screen(<<>>) = <<>>
    /\ \A m : Screen(<<m>>) = <<Bubble(m)>>
BY DEF Screen

\* One bubble with the parts that are not empty texts.
LEMMA AnthropicShown ==
    ASSUME IInv, dialect = "anthropic"
    PROVE  ShownOnce
<1> DEFINE kept == {i \in DOMAIN acc : acc[i].kind # "text" \/ acc[i].text # <<>>}
           k == Cardinality(kept)
           q == Ascending(kept)
           parts == Picked(acc, kept)
           content == [i \in DOMAIN parts |-> [kind |-> parts[i].kind, text |-> parts[i].text]]
<1> HIDE DEF k, q, parts, content
<1>1. /\ acc \in Seq(Part) /\ DOMAIN acc = DOMAIN said /\ DOMAIN said = 1..Len(said)
      /\ Len(said) \in Nat
  BY PartsAre, Spans DEF IInv
<1>2. /\ \A n \in DOMAIN said : acc[n] = PartOf(n) /\ acc[n] \in Part
      /\ \A n \in DOMAIN said : said[n].kind \in Kind \ {"refusal"} /\ Rising(said[n].text)
  BY <1>1, Spans DEF IInv, AnthropicMirror, Apart
<1>3. kept \in SUBSET Nat /\ IsFiniteSet(kept) /\ kept \subseteq DOMAIN said
  <2>1. kept \subseteq 1..Len(said) /\ IsFiniteSet(1..Len(said))
    BY <1>1, FS_Interval
  <2> QED
    BY <1>1, <2>1, FS_Subset
<1>4. ASSUME NEW n \in kept
      PROVE  /\ acc[n].text = said[n].text /\ acc[n].text \in Fragments
             /\ acc[n].kind = ShownAs(said[n].kind) /\ acc[n].kind \in {"text", "call"}
  <2>1. n \in DOMAIN said /\ said[n].kind \in {"text", "call"}
    <3>1. n \in DOMAIN said /\ (acc[n].kind # "text" \/ acc[n].text # <<>>)
      BY <1>3
    <3>2. acc[n] = PartOf(n) /\ said[n].kind \in Kind \ {"refusal"}
      BY <1>2, <3>1
    <3>3. said[n].kind = "thinking" => acc[n].kind = "text" /\ acc[n].text = <<>>
      BY <3>2 DEF PartOf
    <3> QED
      BY <3>1, <3>2, <3>3 DEF Kind
  <2>2. acc[n].text = said[n].text /\ acc[n].kind = said[n].kind
    <3>1. acc[n] = PartOf(n)
      BY <1>2, <2>1
    <3>2. PartOf(n).text = said[n].text /\ PartOf(n).kind = said[n].kind
      BY <2>1 DEF PartOf
    <3> QED
      BY <3>1, <3>2
  <2> QED
    BY <2>1, <2>2, Spans DEF ShownAs, IInv
<1>5. k \in Nat /\ q \in [1..k -> kept] /\ Rising(q) /\ \A x \in kept : \E i \in 1..k : q[i] = x
  BY <1>3, AscendingLists DEF k, q
<1>6. parts = [p \in 1..k |-> acc[q[p]]]
  BY DEF Picked, parts, k, q
<1>7. /\ content \in Seq(Piece) /\ Len(content) = k
      /\ \A p \in 1..k : content[p] = [kind |-> acc[q[p]].kind, text |-> acc[q[p]].text]
  <2>1. \A p \in 1..k : [kind |-> acc[q[p]].kind, text |-> acc[q[p]].text] \in Piece
    BY <1>4, <1>5 DEF Piece, Kind
  <2> HIDE DEF kept, parts
  <2>2. content = [p \in 1..k |-> [kind |-> acc[q[p]].kind, text |-> acc[q[p]].text]]
    BY <1>6 DEF content
  <2> QED
    BY <1>5, <2>1, <2>2
<1>8. Assembled = IF parts = <<>> THEN <<>> ELSE <<Message(content, <<>>, <<>>)>>
  BY DEF Assembled, AnthropicMessages, Message, content, parts
<1>9. parts = <<>> <=> k = 0
  BY <1>5, <1>6
<1> DEFINE from == [pl \in Places |-> {q[pl[2]]}]
<1>10. ASSUME NEW n \in DOMAIN said, ShownAs(said[n].kind) # "nowhere", said[n].text # <<>>
       PROVE  n \in kept
  BY <1>1, <1>2, <1>10 DEF ShownAs, PartOf
<1> HIDE DEF kept
<1>11. CASE k = 0
  <2>1. Bubbles = <<>>
    BY <1>8, <1>9, <1>11, ScreenIs DEF Bubbles
  <2>2. Places = {}
    BY <2>1 DEF Places
  <2>3. Arranged(from)
    BY <1>5, <1>10, <1>11, <2>2 DEF Arranged
  <2> QED
    BY <2>3, ArrangedShows
<1>12. CASE k # 0
  <2>1. PICK b : b = Bubble(Message(content, <<>>, <<>>))
    OBVIOUS
  <2>2. Bubbles = <<b>>
    BY <1>8, <1>9, <1>12, <2>1, ScreenIs DEF Bubbles
  <2>3. content # <<>> /\ <<>> \in Fragments /\ <<>> \in Seq(Call) /\ Len(<<>>) = 0
    BY <1>7, <1>12 DEF Fragments
  <2>4. /\ DOMAIN b = 1..(0 + Len(content) + Len(<<>>))
        /\ \A i \in 1..Len(content) : b[0 + i] = PartView(content[i])
    <3>1. content \in Seq(Piece)
      BY <1>7
    <3>2. PICK thinking \in Fragments, calls \in Seq(Call), a \in {0} :
               thinking = <<>> /\ calls = <<>>
      BY <2>3
    <3>3. /\ (a = 0 <=> thinking = <<>>)
          /\ content # <<>> \/ thinking # <<>> \/ calls # <<>>
          /\ b = Bubble(Message(content, thinking, calls))
      BY <2>1, <2>3, <3>2
    <3>4. /\ DOMAIN b = 1..(a + Len(content) + Len(calls))
          /\ \A i \in 1..Len(content) : b[a + i] = PartView(content[i])
      BY <3>1, <3>3, BubbleIs
    <3> QED
      BY <3>2, <3>4
  <2>5. DOMAIN b = 1..k /\ \A p \in 1..k : b[p] = PartView(content[p])
    BY <1>5, <1>7, <2>4
  <2>6. ASSUME NEW p \in 1..k
        PROVE  /\ q[p] \in kept /\ b[p].text = said[q[p]].text
               /\ b[p].as = ShownAs(said[q[p]].kind) /\ b[p].as # "nowhere"
    <3>1. q[p] \in kept
      BY <1>5
    <3>2. b[p] = Item(acc[q[p]].kind, acc[q[p]].text)
      BY <1>4, <1>7, <2>5, <3>1 DEF PartView, ToolCallCard
    <3> QED
      BY <1>4, <3>1, <3>2 DEF Item
  <2>7. Places = {<<1, p>> : p \in 1..k} /\ \A p : ItemAt(<<1, p>>) = b[p]
    BY <2>2, <2>5, OneBubble
  <2>8. ASSUME NEW pl \in Places
        PROVE  \E p \in 1..k : pl = <<1, p>> /\ from[pl] = {q[p]} /\ ItemAt(pl) = b[p]
    BY <2>7
  <2> HIDE DEF from
  <2>9. ASSUME NEW pl \in Places
        PROVE  /\ Rising(ItemAt(pl).text)
               /\ ToSet(ItemAt(pl).text) = UNION {TextAt(n) : n \in from[pl]}
               /\ \A n \in from[pl] : n \in DOMAIN said /\ ItemAt(pl).as = ShownAs(said[n].kind)
               /\ ItemAt(pl).as # "nowhere"
    <3>1. PICK p \in 1..k : from[pl] = {q[p]} /\ ItemAt(pl) = b[p]
      BY <2>8
    <3> QED
      BY <1>2, <1>3, <2>6, <3>1 DEF TextAt
  <2>10. ASSUME NEW pl \in Places, NEW at \in Places, from[pl] \cap from[at] # {} PROVE pl = at
    <3>1. PICK p \in 1..k : from[pl] = {q[p]} /\ pl = <<1, p>>
      BY <2>8
    <3>2. PICK r \in 1..k : from[at] = {q[r]} /\ at = <<1, r>>
      BY <2>8
    <3>3. q[p] = q[r] /\ q[p] \in Nat /\ q[r] \in Nat
      BY <1>3, <1>5, <2>10, <3>1, <3>2
    <3>4. p = r
      BY <1>5, <3>3 DEF Rising
    <3> QED
      BY <3>1, <3>2, <3>4
  <2>11. ASSUME NEW n \in DOMAIN said, ShownAs(said[n].kind) # "nowhere", said[n].text # <<>>
         PROVE  \E pl \in Places : n \in from[pl]
    <3>1. PICK p \in 1..k : q[p] = n
      BY <1>5, <1>10, <2>11
    <3>2. <<1, p>> \in Places
      BY <2>7
    <3>3. PICK r \in 1..k : <<1, p>> = <<1, r>> /\ from[<<1, p>>] = {q[r]}
      BY <2>8, <3>2
    <3> QED
      BY <3>1, <3>2, <3>3
  <2>12. Arranged(from)
    BY <2>9, <2>10, <2>11 DEF Arranged
  <2> QED
    BY <2>12, ArrangedShows
<1> QED
  BY <1>11, <1>12

\* One bubble: the text, if there is one, and the calls.
LEMMA ResponsesShown ==
    ASSUME IInv, dialect = "responses"
    PROVE  ShownOnce
<1>1. PICK text \in Fragments, calls \in Seq(Call) : acc = [text |-> text, calls |-> calls]
  BY DEF IInv, ResponsesMirror, Answer
<1>2. /\ Rising(text) /\ ToSet(text) = UNION {TextAt(n) : n \in Spoken}
      /\ calls = CallsSaid
  BY <1>1 DEF IInv, ResponsesMirror
<1>3. PICK k \in Nat : k = Len(calls) /\ DOMAIN calls = 1..k
  OBVIOUS
<1>4. /\ OneEach(calls)
      /\ \A j \in 1..k : /\ calls[j].key \in BlocksOf(0, "call")
                         /\ calls[j].text = said[calls[j].key].text
      /\ \A n \in BlocksOf(0, "call") : \E j \in 1..k : calls[j].key = n
  BY <1>2, <1>3, CallsAre DEF IInv
<1>5. /\ BlocksOf(0, "call") = {n \in DOMAIN said : said[n].kind = "call"}
      /\ \A n \in DOMAIN said : said[n].kind \in Kind /\ said[n].text \in Fragments
      /\ \A n \in DOMAIN said : Rising(said[n].text)
  BY Spans DEF BlocksOf, IInv, InTurn, Apart
<1>6. ASSUME NEW n \in DOMAIN said, ShownAs(said[n].kind) # "nowhere", said[n].text # <<>>
      PROVE  (n \in Spoken /\ text # <<>>) \/ \E j \in 1..k : calls[j].key = n
  <2>1. CASE said[n].kind = "call"
    BY <1>4, <1>5, <2>1
  <2>2. CASE said[n].kind # "call"
    <3>1. n \in Spoken
      BY <1>5, <1>6, <2>2 DEF ShownAs, Kind, Spoken
    <3>2. TextAt(n) # {}
      BY <1>5, <1>6, NoNumbers DEF TextAt
    <3>3. ToSet(text) # {}
      BY <1>2, <3>1, <3>2
    <3> QED
      BY <3>1, <3>3, NoNumbers
  <2> QED
    BY <2>1, <2>2
<1> DEFINE content == IF text = <<>> THEN <<>> ELSE <<[kind |-> "text", text |-> text]>>
<1>7. Assembled = IF text = <<>> /\ calls = <<>> THEN <<>> ELSE <<Message(content, <<>>, calls)>>
  BY <1>1 DEF Assembled, ResponsesMessages, Message
<1>8. CASE text = <<>> /\ calls = <<>>
  <2>1. Bubbles = <<>>
    BY <1>7, <1>8, ScreenIs DEF Bubbles
  <2>2. Places = {} /\ k = 0
    BY <1>3, <1>8, <2>1 DEF Places
  <2>3. Arranged(<<>>)
    BY <1>6, <1>8, <2>2 DEF Arranged
  <2> QED
    BY <2>3, ArrangedShows
<1>9. CASE text # <<>> \/ calls # <<>>
  <2>1. PICK b : b = Bubble(Message(content, <<>>, calls))
    OBVIOUS
  <2>2. Bubbles = <<b>>
    BY <1>7, <1>9, <2>1, ScreenIs DEF Bubbles
  <2>3. PICK e \in {0, 1} : (e = 0 <=> text = <<>>)
    OBVIOUS
  <2>4. /\ content \in Seq(Piece) /\ Len(content) = e
        /\ e = 1 => content[1] = [kind |-> "text", text |-> text]
    <3>1. [kind |-> "text", text |-> text] \in Piece
      BY DEF Piece, Kind
    <3> QED
      BY <2>3, <3>1
  <2>5. content # <<>> \/ calls # <<>>
    BY <1>9
  <2> HIDE DEF content
  <2>6. /\ DOMAIN b = 1..(e + k)
        /\ e = 1 => b[1] = Item("text", text)
        /\ \A j \in 1..k : b[e + j] = Item("call", calls[j].text)
    <3>1. content \in Seq(Piece)
      BY <2>4
    <3>2. PICK thinking \in Fragments, a \in {0} : thinking = <<>>
      <4>1. <<>> \in Fragments
        BY DEF Fragments
      <4> QED
        BY <4>1
    <3>3. /\ (a = 0 <=> thinking = <<>>)
          /\ content # <<>> \/ thinking # <<>> \/ calls # <<>>
          /\ b = Bubble(Message(content, thinking, calls))
      BY <2>1, <2>5, <3>2
    <3>4. /\ DOMAIN b = 1..(a + Len(content) + Len(calls))
          /\ \A i \in 1..Len(content) : b[a + i] = PartView(content[i])
          /\ \A i \in 1..Len(calls) : b[a + Len(content) + i] = Item("call", calls[i].text)
      BY <3>1, <3>3, BubbleIs
    <3>5. e = 1 => b[1] = PartView([kind |-> "text", text |-> text])
      BY <2>4, <3>2, <3>4
    <3>6. PartView([kind |-> "text", text |-> text]) = Item("text", text)
      BY DEF PartView
    <3>7. DOMAIN b = 1..(e + k) /\ \A j \in 1..k : b[e + j] = Item("call", calls[j].text)
      BY <1>3, <2>4, <3>2, <3>4
    <3> QED
      BY <3>5, <3>6, <3>7
  <2>7. Places = {<<1, p>> : p \in 1..(e + k)} /\ \A p : ItemAt(<<1, p>>) = b[p]
    BY <2>2, <2>6, OneBubble
  <2> DEFINE from == [pl \in Places |-> IF pl[2] <= e THEN Spoken ELSE {calls[pl[2] - e].key}]
             Main(pl) == /\ e = 1 /\ pl = <<1, 1>> /\ from[pl] = Spoken
                         /\ ItemAt(pl) = Item("text", text)
             Side(pl, j) == /\ pl = <<1, e + j>> /\ from[pl] = {calls[j].key}
                            /\ ItemAt(pl) = Item("call", calls[j].text)
  <2>8. ASSUME NEW pl \in Places
        PROVE  Main(pl) \/ \E j \in 1..k : Side(pl, j)
    <3>1. PICK p \in 1..(e + k) : pl = <<1, p>> /\ ItemAt(pl) = b[p]
      BY <2>7
    <3>2. CASE p <= e
      <4>1. e = 1 /\ p = 1
        BY <3>2
      <4> QED
        BY <2>6, <3>1, <4>1
    <3>3. CASE ~(p <= e)
      <4>1. p - e \in 1..k /\ e + (p - e) = p
        BY <3>3
      <4>2. b[e + (p - e)] = Item("call", calls[p - e].text)
        BY <2>6, <4>1
      <4>3. from[pl] = {calls[p - e].key}
        BY <3>1, <3>3
      <4>4. Side(pl, p - e)
        BY <3>1, <4>1, <4>2, <4>3
      <4> QED
        BY <4>1, <4>4
    <3> QED
      BY <3>2, <3>3
  <2>9. e = 1 => <<1, 1>> \in Places /\ from[<<1, 1>>] = Spoken
    <3>1. e = 1 => 1 \in 1..(e + k)
      OBVIOUS
    <3>2. e = 1 => <<1, 1>> \in Places
      BY <2>7, <3>1
    <3> QED
      BY <3>2
  <2>10. ASSUME NEW j \in 1..k
         PROVE  <<1, e + j>> \in Places /\ from[<<1, e + j>>] = {calls[j].key}
    <3>1. e + j \in 1..(e + k) /\ ~(e + j <= e) /\ (e + j) - e = j
      OBVIOUS
    <3>2. <<1, e + j>> \in Places
      BY <2>7, <3>1
    <3> QED
      BY <3>1, <3>2
  <2> HIDE DEF from
  <2>11. ASSUME NEW pl \in Places
         PROVE  /\ Rising(ItemAt(pl).text)
                /\ ToSet(ItemAt(pl).text) = UNION {TextAt(n) : n \in from[pl]}
                /\ \A n \in from[pl] : n \in DOMAIN said /\ ItemAt(pl).as = ShownAs(said[n].kind)
                /\ ItemAt(pl).as # "nowhere"
    <3>1. CASE Main(pl)
      <4>1. ItemAt(pl).text = text /\ ItemAt(pl).as = "text" /\ from[pl] = Spoken
        BY <3>1 DEF Item
      <4> QED
        BY <1>2, <4>1 DEF Spoken, ShownAs
    <3>2. ASSUME NEW j \in 1..k, Side(pl, j)
          PROVE  /\ Rising(ItemAt(pl).text)
                 /\ ToSet(ItemAt(pl).text) = UNION {TextAt(n) : n \in from[pl]}
                 /\ \A n \in from[pl] :
                        n \in DOMAIN said /\ ItemAt(pl).as = ShownAs(said[n].kind)
                 /\ ItemAt(pl).as # "nowhere"
      <4>1. /\ ItemAt(pl).text = calls[j].text /\ ItemAt(pl).as = "call"
            /\ from[pl] = {calls[j].key}
        BY <3>2 DEF Item
      <4> QED
        BY <1>4, <1>5, <4>1 DEF TextAt, ShownAs
    <3> QED
      BY <2>8, <3>1, <3>2
  <2>12. ASSUME NEW pl \in Places, NEW at \in Places, from[pl] \cap from[at] # {}
         PROVE  pl = at
    <3>1. \A j \in 1..k : calls[j].key \notin Spoken
      BY <1>4, <1>5 DEF Spoken
    <3>2. CASE Main(pl) /\ Main(at)
      BY <3>2
    <3>3. ASSUME NEW j \in 1..k, Side(pl, j), NEW i \in 1..k, Side(at, i) PROVE pl = at
      <4>1. calls[j].key = calls[i].key
        BY <2>12, <3>3
      <4> QED
        BY <1>3, <1>4, <3>3, <4>1 DEF OneEach
    <3> QED
      BY <2>8, <2>12, <3>1, <3>2, <3>3
  <2>13. ASSUME NEW n \in DOMAIN said, ShownAs(said[n].kind) # "nowhere", said[n].text # <<>>
         PROVE  \E pl \in Places : n \in from[pl]
    BY <1>6, <2>3, <2>9, <2>10, <2>13
  <2>14. Arranged(from)
    BY <2>11, <2>12, <2>13 DEF Arranged
  <2> QED
    BY <2>14, ArrangedShows
<1> QED
  BY <1>8, <1>9

\* The content of a message that has one text or none.
TextPart(text) == IF text = <<>> THEN <<>> ELSE <<[kind |-> "text", text |-> text]>>

\* One message for each opened choice, by index, with what was said in it.
LEMMA OneMessageEach ==
    ASSUME IInv, dialect = "openai"
    PROVE  /\ opened \in SUBSET Nat /\ IsFiniteSet(opened)
           /\ DOMAIN Assembled = 1..Cardinality(opened)
           /\ \A m \in DOMAIN Assembled : \E text, thinking \in Fragments :
                 /\ IsText(text, Ascending(opened)[m], "text")
                 /\ IsText(thinking, Ascending(opened)[m], "thinking")
                 /\ Assembled[m] = Message(TextPart(text), thinking, CallsOf(Ascending(opened)[m]))
<1> DEFINE told == {i \in DOMAIN acc : \/ acc[i].text # <<>> \/ acc[i].seen
                                      \/ acc[i].thinking # <<>> \/ acc[i].calls # <<>>
                                      \/ acc[i].finish}
           order == Ascending(opened)
<1>1. Entries /\ \A k \in DOMAIN acc : Mirrors(acc[k])
  BY DEF IInv, OpenAIMirror
<1>2. opened \in SUBSET Nat
  BY Bounds DEF IInv, Types
<1>3. IsFiniteSet(opened)
  <2>1. DOMAIN acc = 1..Len(acc) /\ Len(acc) \in Nat
    BY <1>1 DEF Entries
  <2>2. IsFiniteSet(DOMAIN acc)
    BY <2>1, FS_Interval
  <2>3. IsFiniteSet({acc[k].key : k \in DOMAIN acc})
    <3> DEFINE f == [k \in DOMAIN acc |-> acc[k].key]
    <3>1. f \in Surjection(DOMAIN acc, {acc[k].key : k \in DOMAIN acc})
      BY DEF Surjection
    <3> QED
      BY <2>2, <3>1, FS_Surjection
  <2> QED
    BY <1>1, <2>3 DEF Entries
<1>4. {acc[i].key : i \in told} = opened
  <2>1. told = DOMAIN acc
    BY <1>1 DEF Mirrors
  <2> QED
    BY <1>1, <2>1 DEF Entries
<1>5. Assembled = [m \in DOMAIN order |-> OpenAIMessage(acc[At(acc, order[m])])]
  BY <1>4 DEF Assembled, OpenAIMessages
<1>6. order \in [1..Cardinality(opened) -> opened]
  BY <1>2, <1>3, AscendingLists
<1> HIDE DEF told, order
<1>7. ASSUME NEW m \in 1..Cardinality(opened)
      PROVE  \E text, thinking \in Fragments :
                 /\ IsText(text, order[m], "text") /\ IsText(thinking, order[m], "thinking")
                 /\ Assembled[m] = Message(TextPart(text), thinking, CallsOf(order[m]))
  <2>1. PICK k \in DOMAIN acc : acc[k].key = order[m]
    BY <1>1, <1>6, OpenedAt
  <2>2. At(acc, order[m]) = k
    BY <1>1, <2>1, FoundAt DEF Entries
  <2>3. PICK cb \in Entry : cb = acc[k]
    BY <1>1, <2>1 DEF Entries
  <2>4. Assembled[m] = OpenAIMessage(cb)
    BY <1>5, <1>6, <2>2, <2>3
  <2>5. cb.text \in Fragments /\ cb.thinking \in Fragments
    BY DEF Entry
  <2>6. /\ IsText(cb.text, order[m], "text") /\ IsText(cb.thinking, order[m], "thinking")
        /\ cb.calls = CallsOf(order[m])
    BY <1>1, <2>1, <2>3 DEF Mirrors
  <2>7. OpenAIMessage(cb) = Message(TextPart(cb.text), cb.thinking, CallsOf(order[m]))
    BY <2>6 DEF OpenAIMessage, Message, TextPart
  <2> QED
    BY <2>4, <2>5, <2>6, <2>7
<1> QED
  BY <1>2, <1>3, <1>5, <1>6, <1>7 DEF order

\* Which blocks of choice c each item of its bubble shows.
Sources(b, c, src) ==
    /\ \A i \in DOMAIN b :
          /\ Rising(b[i].text) /\ ToSet(b[i].text) = UNION {TextAt(n) : n \in src[i]}
          /\ \A n \in src[i] : /\ n \in DOMAIN said /\ said[n].choice = c
                               /\ b[i].as = ShownAs(said[n].kind)
          /\ b[i].as # "nowhere"
    /\ \A i, j \in DOMAIN b : src[i] \cap src[j] # {} => i = j
    /\ \A n \in DOMAIN said :
          said[n].choice = c /\ said[n].text # <<>> => \E i \in DOMAIN b : n \in src[i]

\* Each block of a choice is in one item of its bubble.
LEMMA ChoiceShown ==
    ASSUME IInv, dialect = "openai", NEW c, NEW text \in Fragments, NEW thinking \in Fragments,
           IsText(text, c, "text"), IsText(thinking, c, "thinking"),
           NEW b, b = Bubble(Message(TextPart(text), thinking, CallsOf(c)))
    PROVE  \E src : Sources(b, c, src)
<1> DEFINE places == BlocksOf(c, "call")
           q == Ascending(places)
           of(kind) == BlocksOf(c, kind)
<1>1. PICK calls \in Seq(Call), k \in Nat : calls = CallsOf(c) /\ k = Cardinality(places)
  BY CallsOfAre DEF IInv
<1>2. /\ Len(calls) = k /\ DOMAIN calls = 1..k
      /\ \A p \in 1..k : calls[p].text = said[q[p]].text
  BY <1>1, CallsOfAre DEF IInv
<1>3. /\ places \in SUBSET Nat
      /\ q \in [1..k -> places] /\ Rising(q) /\ \A x \in places : \E i \in 1..k : q[i] = x
  BY <1>1, BlocksAre, AscendingLists DEF IInv
<1>4. \A n \in DOMAIN said : /\ said[n].kind \in Kind \ {"refusal"} /\ said[n].text \in Fragments
                             /\ Rising(said[n].text)
  BY Spans DEF IInv, Apart, OpenAIMirror, Owned
<1>5. \A kind : \A n \in of(kind) : n \in DOMAIN said /\ said[n].choice = c /\ said[n].kind = kind
  BY DEF BlocksOf
<1>6. ASSUME NEW n \in DOMAIN said, said[n].choice = c
      PROVE  n \in of("text") \/ n \in of("thinking") \/ n \in places
  BY <1>4, <1>6 DEF BlocksOf, Kind
<1>7. ASSUME NEW t \in Fragments, NEW kind, IsText(t, c, kind)
      PROVE  /\ Rising(t) /\ ToSet(t) = UNION {TextAt(n) : n \in of(kind)}
             /\ \A n \in of(kind) : said[n].text = t
  <2>1. CASE of(kind) = {}
    <3>1. t = <<>>
      BY <1>7, <2>1 DEF IsText
    <3>2. Rising(t) /\ ToSet(t) = {}
      BY <3>1 DEF Rising, ToSet
    <3> QED
      BY <2>1, <3>2
  <2>2. CASE of(kind) # {}
    <3>1. PICK n \in of(kind) : TRUE
      BY <2>2
    <3>2. \A m \in of(kind) : said[m].text = t /\ TextAt(m) = ToSet(t)
      BY <1>7 DEF IsText, TextAt
    <3>3. Rising(t)
      BY <1>4, <1>5, <3>1, <3>2
    <3> HIDE DEF of
    <3> QED
      BY <3>1, <3>2, <3>3
  <2> QED
    BY <2>1, <2>2
<1> HIDE DEF places, q, of
<1>8. CASE text = <<>> /\ thinking = <<>> /\ calls = <<>>
  <2>1. b = <<Item("empty", <<>>)>>
    BY <1>1, <1>8 DEF Bubble, Message, TextPart
  <2>2. DOMAIN b = {1} /\ b[1].as = "empty" /\ b[1].text = <<>>
    BY <2>1 DEF Item
  <2>3. Rising(<<>>) /\ ToSet(<<>>) = {}
    BY DEF Rising, ToSet
  <2> DEFINE src == [i \in {1} |-> {}]
  <2>4. ASSUME NEW n \in DOMAIN said, said[n].choice = c PROVE said[n].text = <<>>
    <3>1. k = 0
      BY <1>2, <1>8
    <3>2. n \notin places
      BY <1>3, <3>1
    <3> QED
      BY <1>6, <1>7, <1>8, <2>4, <3>2
  <2>5. Sources(b, c, src)
    BY <2>2, <2>3, <2>4 DEF Sources
  <2> QED
    BY <2>5
<1>9. CASE text # <<>> \/ thinking # <<>> \/ calls # <<>>
  <2>1. PICK a \in {0, 1}, e \in {0, 1} :
           (a = 0 <=> thinking = <<>>) /\ (e = 0 <=> text = <<>>)
    OBVIOUS
  <2>2. PICK content \in Seq(Piece) :
            /\ content = TextPart(text) /\ Len(content) = e
            /\ e = 1 => content[1] = [kind |-> "text", text |-> text]
    <3>1. [kind |-> "text", text |-> text] \in Piece
      BY DEF Piece, Kind
    <3>2. TextPart(text) \in Seq(Piece)
      BY <3>1 DEF TextPart
    <3>3. /\ Len(TextPart(text)) = e
          /\ e = 1 => TextPart(text)[1] = [kind |-> "text", text |-> text]
      BY <2>1 DEF TextPart
    <3> QED
      BY <3>2, <3>3
  <2>3. content # <<>> \/ thinking # <<>> \/ calls # <<>>
    BY <1>9, <2>2 DEF TextPart
  <2>4. /\ DOMAIN b = 1..(a + e + k)
        /\ a = 1 => b[1] = Item("thinking", thinking)
        /\ e = 1 => b[a + 1] = Item("text", text)
        /\ \A p \in 1..k : b[a + e + p] = Item("call", said[q[p]].text)
    <3>1. (a = 0 <=> thinking = <<>>)
      BY <2>1
    <3>2. b = Bubble(Message(content, thinking, calls))
      BY <1>1, <2>2
    <3>3. /\ DOMAIN b = 1..(a + Len(content) + Len(calls))
          /\ a = 1 => b[1] = Item("thinking", thinking)
          /\ \A i \in 1..Len(content) : b[a + i] = PartView(content[i])
          /\ \A i \in 1..Len(calls) : b[a + Len(content) + i] = Item("call", calls[i].text)
      BY <2>3, <3>1, <3>2, BubbleIs
    <3>4. e = 1 => b[a + 1] = PartView([kind |-> "text", text |-> text])
      BY <2>2, <3>3
    <3>5. PartView([kind |-> "text", text |-> text]) = Item("text", text)
      BY DEF PartView
    <3>6. DOMAIN b = 1..(a + e + k) /\ \A p \in 1..k : b[a + e + p] = Item("call", said[q[p]].text)
      BY <1>2, <2>2, <3>3
    <3> QED
      BY <3>3, <3>4, <3>5, <3>6
  <2> DEFINE src == [i \in 1..(a + e + k) |-> IF i <= a THEN of("thinking")
                                              ELSE IF i <= a + e THEN of("text")
                                              ELSE {q[i - (a + e)]}]
             First(i) == /\ a = 1 /\ i = 1 /\ src[i] = of("thinking")
                         /\ b[i] = Item("thinking", thinking)
             Second(i) == /\ e = 1 /\ i = a + 1 /\ src[i] = of("text") /\ b[i] = Item("text", text)
             Third(i, p) == /\ i = a + e + p /\ src[i] = {q[p]}
                            /\ b[i] = Item("call", said[q[p]].text)
  <2>5. a = 1 => First(1) /\ 1 \in 1..(a + e + k)
    BY <2>4
  <2>6. e = 1 => Second(a + 1) /\ a + 1 \in 1..(a + e + k)
    BY <2>4
  <2>7. ASSUME NEW p \in 1..k PROVE Third(a + e + p, p) /\ a + e + p \in 1..(a + e + k)
    <3>1. /\ a + e + p \in 1..(a + e + k) /\ ~(a + e + p <= a) /\ ~(a + e + p <= a + e)
          /\ (a + e + p) - (a + e) = p
      OBVIOUS
    <3> QED
      BY <2>4, <3>1
  <2> HIDE DEF src
  <2>8. ASSUME NEW i \in DOMAIN b PROVE First(i) \/ Second(i) \/ \E p \in 1..k : Third(i, p)
    <3>1. i \in 1..(a + e + k)
      BY <2>4
    <3>2. \/ i = 1 /\ a = 1
          \/ i = a + 1 /\ e = 1
          \/ i - (a + e) \in 1..k /\ a + e + (i - (a + e)) = i
      <4>1. CASE i <= a
        <5>1. i = 1 /\ a = 1
          BY <3>1, <4>1
        <5> QED
          BY <5>1
      <4>2. CASE ~(i <= a) /\ i <= a + e
        BY <3>1, <4>2
      <4>3. CASE ~(i <= a + e)
        BY <3>1, <4>3
      <4> QED
        BY <4>1, <4>2, <4>3
    <3> QED
      BY <2>5, <2>6, <2>7, <3>2
  <2>9. ASSUME NEW i \in DOMAIN b
        PROVE  /\ Rising(b[i].text) /\ ToSet(b[i].text) = UNION {TextAt(n) : n \in src[i]}
               /\ \A n \in src[i] : /\ n \in DOMAIN said /\ said[n].choice = c
                                    /\ b[i].as = ShownAs(said[n].kind)
               /\ b[i].as # "nowhere"
    <3>1. CASE First(i)
      <4>1. b[i].as = "thinking" /\ b[i].text = thinking /\ src[i] = of("thinking")
        BY <3>1 DEF Item
      <4> QED
        BY <1>5, <1>7, <4>1 DEF ShownAs
    <3>2. CASE Second(i)
      <4>1. b[i].as = "text" /\ b[i].text = text /\ src[i] = of("text")
        BY <3>2 DEF Item
      <4> QED
        BY <1>5, <1>7, <4>1 DEF ShownAs
    <3>3. ASSUME NEW p \in 1..k, Third(i, p)
          PROVE  /\ Rising(b[i].text) /\ ToSet(b[i].text) = UNION {TextAt(n) : n \in src[i]}
                 /\ \A n \in src[i] : /\ n \in DOMAIN said /\ said[n].choice = c
                                      /\ b[i].as = ShownAs(said[n].kind)
                 /\ b[i].as # "nowhere"
      <4>1. /\ b[i].as = "call" /\ b[i].text = said[q[p]].text
            /\ src[i] = {q[p]} /\ q[p] \in of("call")
        BY <1>3, <3>3 DEF Item, places, of
      <4> QED
        BY <1>4, <1>5, <4>1 DEF ShownAs, TextAt
    <3> QED
      BY <2>8, <3>1, <3>2, <3>3
  <2>10. ASSUME NEW i \in DOMAIN b, NEW j \in DOMAIN b, src[i] \cap src[j] # {} PROVE i = j
    <3>1. PICK n \in src[i] : n \in src[j]
      BY <2>10
    <3>2. \A m \in {i, j} : /\ First(m) => said[n].kind = "thinking"
                            /\ Second(m) => said[n].kind = "text"
                            /\ \A p \in 1..k : Third(m, p) => said[n].kind = "call" /\ q[p] = n
      <4>1. \A p \in 1..k : q[p] \in of("call")
        BY <1>3 DEF places, of
      <4> QED
        BY <1>5, <3>1, <4>1
    <3>3. \A p, r \in 1..k : q[p] = q[r] => p = r
      <4>1. \A p \in 1..k : q[p] \in Nat
        BY <1>3
      <4> QED
        BY <1>3, <4>1 DEF Rising
    <3>4. First(i) \/ Second(i) \/ \E p \in 1..k : Third(i, p)
      BY <2>8
    <3>5. First(j) \/ Second(j) \/ \E p \in 1..k : Third(j, p)
      BY <2>8
    <3>6. CASE First(i)
      BY <3>2, <3>5, <3>6
    <3>7. CASE Second(i)
      BY <3>2, <3>5, <3>7
    <3>8. ASSUME NEW p \in 1..k, Third(i, p) PROVE i = j
      <4>1. ~First(j) /\ ~Second(j) /\ q[p] = n
        BY <3>2, <3>8
      <4>2. PICK r \in 1..k : Third(j, r)
        BY <3>5, <4>1
      <4>3. q[r] = n
        BY <3>2, <4>2
      <4> QED
        BY <3>3, <3>8, <4>1, <4>2, <4>3
    <3> QED
      BY <3>4, <3>6, <3>7, <3>8
  <2>11. ASSUME NEW n \in DOMAIN said, said[n].choice = c, said[n].text # <<>>
         PROVE  \E i \in DOMAIN b : n \in src[i]
    <3>1. CASE n \in of("text")
      <4>1. e = 1
        BY <1>7, <2>1, <2>11, <3>1
      <4> QED
        BY <2>4, <2>6, <3>1, <4>1
    <3>2. CASE n \in of("thinking")
      <4>1. a = 1
        BY <1>7, <2>1, <2>11, <3>2
      <4> QED
        BY <2>4, <2>5, <3>2, <4>1
    <3>3. CASE n \in places
      <4>1. PICK p \in 1..k : q[p] = n
        BY <1>3, <3>3
      <4> QED
        BY <2>4, <2>7, <4>1
    <3> QED
      BY <1>6, <2>11, <3>1, <3>2, <3>3
  <2>12. Sources(b, c, src)
    BY <2>9, <2>10, <2>11 DEF Sources
  <2> QED
    BY <2>12
<1> QED
  BY <1>8, <1>9

\* So each block of the answer is in one item of one bubble.
LEMMA OpenAIShown ==
    ASSUME IInv, dialect = "openai"
    PROVE  ShownOnce
<1> DEFINE k == Cardinality(opened)
           q == Ascending(opened)
           Of(m, src) == Sources(Bubbles[m], q[m], src)
           srcs == [m \in 1..k |-> CHOOSE src : Of(m, src)]
           from == [pl \in Places |-> srcs[pl[1]][pl[2]]]
<1>1. /\ k \in Nat /\ q \in [1..k -> opened] /\ Rising(q)
      /\ \A x \in opened : \E i \in 1..k : q[i] = x
      /\ opened \in SUBSET Nat
  BY OneMessageEach, AscendingLists
<1>2. DOMAIN Bubbles = 1..k /\ \A m \in 1..k : Bubbles[m] = Bubble(Assembled[m])
  BY OneMessageEach DEF Bubbles, Screen
<1>3. ASSUME NEW m \in 1..k
      PROVE  \E src : Of(m, src)
  <2>1. PICK text \in Fragments, thinking \in Fragments :
            /\ IsText(text, q[m], "text") /\ IsText(thinking, q[m], "thinking")
            /\ Assembled[m] = Message(TextPart(text), thinking, CallsOf(q[m]))
    BY OneMessageEach
  <2>2. PICK b, c : b = Bubbles[m] /\ c = q[m]
    OBVIOUS
  <2> HIDE DEF k, q
  <2>3. b = Bubble(Message(TextPart(text), thinking, CallsOf(c)))
    BY <1>2, <2>1, <2>2
  <2>4. \E src : Sources(b, c, src)
    BY <2>1, <2>2, <2>3, ChoiceShown
  <2> QED
    BY <2>2, <2>4
<1> HIDE DEF k, q
<1>4. ASSUME NEW m \in 1..k
      PROVE  Sources(Bubbles[m], q[m], srcs[m])
  <2>1. Of(m, CHOOSE src : Of(m, src))
    BY <1>3
  <2> QED
    BY <2>1
<1> HIDE DEF srcs
<1>5. \A m \in 1..k : \A i \in DOMAIN Bubbles[m] :
          <<m, i>> \in Places /\ ItemAt(<<m, i>>) = Bubbles[m][i] /\ from[<<m, i>>] = srcs[m][i]
  BY <1>2 DEF Places, ItemAt
<1>6. ASSUME NEW pl \in Places
      PROVE  \E m \in 1..k : \E i \in DOMAIN Bubbles[m] : pl = <<m, i>>
  BY <1>2 DEF Places
<1> HIDE DEF from
<1>7. ASSUME NEW pl \in Places
      PROVE  /\ Rising(ItemAt(pl).text)
             /\ ToSet(ItemAt(pl).text) = UNION {TextAt(n) : n \in from[pl]}
             /\ \A n \in from[pl] : n \in DOMAIN said /\ ItemAt(pl).as = ShownAs(said[n].kind)
             /\ ItemAt(pl).as # "nowhere"
  <2>1. PICK m \in 1..k : \E i \in DOMAIN Bubbles[m] : pl = <<m, i>>
    BY <1>6
  <2>2. PICK i \in DOMAIN Bubbles[m] : pl = <<m, i>>
    BY <2>1
  <2>3. ItemAt(pl) = Bubbles[m][i] /\ from[pl] = srcs[m][i]
    BY <1>5, <2>2
  <2> QED
    BY <1>4, <2>3 DEF Sources
<1>8. ASSUME NEW pl \in Places, NEW at \in Places, from[pl] \cap from[at] # {} PROVE pl = at
  <2>1. PICK m \in 1..k : \E i \in DOMAIN Bubbles[m] : pl = <<m, i>>
    BY <1>6
  <2>2. PICK i \in DOMAIN Bubbles[m] : pl = <<m, i>>
    BY <2>1
  <2>3. PICK l \in 1..k : \E j \in DOMAIN Bubbles[l] : at = <<l, j>>
    BY <1>6
  <2>4. PICK j \in DOMAIN Bubbles[l] : at = <<l, j>>
    BY <2>3
  <2>5. from[pl] = srcs[m][i] /\ from[at] = srcs[l][j]
    BY <1>5, <2>2, <2>4
  <2>6. PICK n : n \in srcs[m][i] /\ n \in srcs[l][j]
    BY <1>8, <2>5
  <2>7. said[n].choice = q[m] /\ said[n].choice = q[l]
    BY <1>4, <2>6 DEF Sources
  <2>8. m = l
    <3>1. q[m] = q[l] /\ q[m] \in Nat /\ q[l] \in Nat
      BY <1>1, <2>7
    <3> QED
      BY <1>1, <3>1 DEF Rising
  <2>9. i = j
    BY <1>4, <2>6, <2>8 DEF Sources
  <2> QED
    BY <2>2, <2>4, <2>8, <2>9
<1>9. ASSUME NEW n \in DOMAIN said, said[n].text # <<>>
      PROVE  \E pl \in Places : n \in from[pl]
  <2>1. PICK m \in 1..k : q[m] = said[n].choice
    BY <1>1 DEF IInv, OpenAIMirror, Owned
  <2>2. PICK i \in DOMAIN Bubbles[m] : n \in srcs[m][i]
    BY <1>4, <1>9, <2>1 DEF Sources
  <2> QED
    BY <1>5, <2>2
<1>10. Arranged(from)
  BY <1>7, <1>8, <1>9 DEF Arranged
<1> QED
  BY <1>10, ArrangedShows

\* However deltas are interleaved, wherever the stream is cut and however often closing
\* events repeat what was said (ChatViewer.tsx:457, 468, 505, 510), every fragment is on
\* the screen exactly once, as what it is and in the order it was sent.
THEOREM EveryFragmentOnce == Spec => []ShownOnce
<1>1. IInv => ShownOnce
  BY OpenAIShown, ResponsesShown, AnthropicShown DEF IInv, Types, Dialect
<1> QED
  BY <1>1, Mirrored, PTL

----------------------------------------------------------------------------
(* The same answer in one piece *)

\* A call is shown by its text, whatever its key.
LEMMA SameBubble ==
    ASSUME NEW content, NEW thinking, NEW k \in Nat, NEW these, NEW those,
           these = [p \in 1..k |-> these[p]], those = [p \in 1..k |-> those[p]],
           \A p \in 1..k : these[p].text = those[p].text
    PROVE  Bubble(Message(content, thinking, these)) = Bubble(Message(content, thinking, those))
<1>1. (these = <<>> <=> k = 0) /\ (those = <<>> <=> k = 0)
  OBVIOUS
<1>2. [p \in DOMAIN these |-> ToolCallCard(these[p])]
          = [p \in DOMAIN those |-> ToolCallCard(those[p])]
  <2>1. \A p \in 1..k : ToolCallCard(these[p]) = ToolCallCard(those[p])
    BY DEF ToolCallCard
  <2>2. DOMAIN these = 1..k /\ DOMAIN those = 1..k
    OBVIOUS
  <2> QED
    BY <2>1, <2>2
<1> QED
  BY <1>1, <1>2 DEF Bubble, Message

\* The calls of a choice as they stand in the body.
LEMMA CallsPicked ==
    ASSUME Types, NEW c, NEW k, k = Cardinality(BlocksOf(c, "call"))
    PROVE  /\ k \in Nat /\ InChoice(c, "call") = [p \in 1..k |-> InChoice(c, "call")[p]]
           /\ \A p \in 1..k :
                 InChoice(c, "call")[p].text = said[Ascending(BlocksOf(c, "call"))[p]].text
           /\ InChoice(c, "call") = <<>> <=> k = 0
<1>1. k \in Nat
  BY BlocksAre, FS_CardinalityType
<1>2. InChoice(c, "call") = [p \in 1..k |-> said[Ascending(BlocksOf(c, "call"))[p]]]
  BY DEF InChoice, Picked
<1> QED
  BY <1>1, <1>2

\* One element picked, and none.
LEMMA OnePicked ==
    ASSUME NEW list, NEW n \in Nat
    PROVE  Picked(list, {n}) = <<list[n]>> /\ Picked(list, {}) = <<>>
<1>1. Cardinality({n}) = 1 /\ IsFiniteSet({n}) /\ {n} \in SUBSET Nat
  BY FS_Singleton
<1>2. Ascending({n}) \in [1..1 -> {n}]
  BY <1>1, AscendingLists
<1>3. Picked(list, {n}) = [i \in 1..1 |-> list[n]]
  BY <1>1, <1>2 DEF Picked
<1>4. Picked(list, {}) = <<>>
  BY FS_EmptySet DEF Picked
<1> QED
  BY <1>3, <1>4

\* One list flattened, and none.
LEMMA OneFlat ==
    ASSUME NEW t
    PROVE  FlattenSeq(<<t>>) = t /\ FlattenSeq(<<>>) = <<>>
<1> DEFINE seqs == <<t>>
           Flat(f) == f = [i \in 1..Len(seqs) |-> IF i = 1 THEN seqs[i] ELSE f[i - 1] \o seqs[i]]
           flat == CHOOSE f : Flat(f)
<1>1. Len(seqs) = 1 /\ seqs[1] = t
  OBVIOUS
<1>2. FlattenSeq(seqs) = flat[1]
  BY <1>1 DEF FlattenSeq
<1>3. Flat([i \in 1..1 |-> t])
  BY <1>1
<1>4. \E f : Flat(f)
  BY <1>3
<1> HIDE DEF Flat
<1>5. Flat(flat)
  BY <1>4, Zenon
<1> HIDE DEF flat
<1>6. flat[1] = t
  BY <1>1, <1>5 DEF Flat
<1> QED
  BY <1>2, <1>6 DEF FlattenSeq

\* No parts, no text.
LEMMA NoParts ==
    AsParts(<<>>) = <<>> /\ TextOf(<<>>) = <<>>
<1>1. DOMAIN <<>> = {}
  OBVIOUS
<1>2. AsParts(<<>>) = <<>>
  BY <1>1 DEF AsParts
<1>3. [i \in DOMAIN <<>> |-> <<>>[i].text] = <<>>
  BY <1>1
<1> QED
  BY <1>2, <1>3, OneFlat DEF TextOf

\* The choices of the body are those of the stream, with the same bubbles.
LEMMA OpenAILikeWhole ==
    ASSUME IInv, dialect = "openai"
    PROVE  Bubbles = Screen(Whole)
<1> DEFINE k == Cardinality(opened)
           q == Ascending(opened)
<1>1. k \in Nat /\ q \in [1..k -> opened]
  BY OneMessageEach, AscendingLists
<1>2. DOMAIN Bubbles = 1..k /\ \A m \in 1..k : Bubbles[m] = Bubble(Assembled[m])
  BY OneMessageEach DEF Bubbles, Screen
<1> DEFINE message(m) ==
               Message(AsParts(Picked(said, {n \in BlocksOf(q[m], "text") : said[n].text # <<>>})),
                       TextOf(InChoice(q[m], "thinking")), InChoice(q[m], "call"))
<1>3. Whole = [m \in 1..k |-> message(m)]
  BY <1>1 DEF Whole, WholeOpenAI, Message
<1>4. ASSUME NEW m \in 1..k PROVE Bubbles[m] = Bubble(message(m))
  <2>1. PICK c : c = q[m]
    OBVIOUS
  <2>2. PICK text \in Fragments, thinking \in Fragments :
            /\ IsText(text, c, "text") /\ IsText(thinking, c, "thinking")
            /\ Assembled[m] = Message(TextPart(text), thinking, CallsOf(c))
    BY <2>1, OneMessageEach
  <2>3. ASSUME NEW kind, kind # "call", BlocksOf(c, kind) # {}
        PROVE  \E n \in Nat \cap DOMAIN said : BlocksOf(c, kind) = {n}
    <3>1. PICK n \in BlocksOf(c, kind) : TRUE
      BY <2>3
    <3>2. BlocksOf(c, kind) = {n}
      BY <2>3, <3>1 DEF IInv, OpenAIMirror, Owned, BlocksOf
    <3> QED
      BY <3>1, <3>2, BlocksAre DEF IInv
  <2>4. AsParts(Picked(said, {n \in BlocksOf(c, "text") : said[n].text # <<>>})) = TextPart(text)
    <3> DEFINE some == {n \in BlocksOf(c, "text") : said[n].text # <<>>}
    <3>1. CASE text = <<>>
      <4>1. some = {}
        BY <2>2, <3>1 DEF IsText
      <4>2. Picked(said, some) = <<>>
        BY <4>1, OnePicked
      <4> QED
        BY <3>1, <4>2, NoParts DEF TextPart
    <3>2. CASE text # <<>>
      <4>1. BlocksOf(c, "text") # {}
        BY <2>2, <3>2 DEF IsText
      <4>2. PICK n \in Nat : n \in DOMAIN said /\ BlocksOf(c, "text") = {n}
        BY <2>3, <4>1
      <4>3. said[n].text = text /\ said[n].kind = "text"
        BY <2>2, <4>2 DEF IsText, BlocksOf
      <4>4. some = {n}
        BY <3>2, <4>2, <4>3
      <4>5. Picked(said, some) = <<said[n]>>
        BY <4>4, OnePicked
      <4>6. AsParts(<<said[n]>>) = <<[kind |-> "text", text |-> text]>>
        BY <4>3 DEF AsParts
      <4> QED
        BY <3>2, <4>5, <4>6 DEF TextPart
    <3> QED
      BY <3>1, <3>2
  <2>5. TextOf(InChoice(c, "thinking")) = thinking
    <3>1. CASE BlocksOf(c, "thinking") = {}
      <4>1. thinking = <<>> /\ InChoice(c, "thinking") = <<>>
        BY <2>2, <3>1, OnePicked DEF IsText, InChoice
      <4> QED
        BY <4>1, NoParts
    <3>2. CASE BlocksOf(c, "thinking") # {}
      <4>1. PICK n \in Nat : n \in DOMAIN said /\ BlocksOf(c, "thinking") = {n}
        BY <2>3, <3>2
      <4>2. thinking = said[n].text
        BY <2>2, <4>1 DEF IsText
      <4>3. InChoice(c, "thinking") = <<said[n]>>
        BY <4>1, OnePicked DEF InChoice
      <4>4. TextOf(<<said[n]>>) = FlattenSeq(<<said[n].text>>)
        BY DEF TextOf
      <4> QED
        BY <4>2, <4>3, <4>4, OneFlat
    <3> QED
      BY <3>1, <3>2
  <2>6. PICK j : j = Cardinality(BlocksOf(c, "call"))
    OBVIOUS
  <2>7. /\ j \in Nat /\ InChoice(c, "call") = [p \in 1..j |-> InChoice(c, "call")[p]]
        /\ \A p \in 1..j :
              InChoice(c, "call")[p].text = said[Ascending(BlocksOf(c, "call"))[p]].text
    BY <2>6, CallsPicked DEF IInv
  <2>8. /\ CallsOf(c) = [p \in 1..j |-> CallsOf(c)[p]]
        /\ \A p \in 1..j : CallsOf(c)[p].text = said[Ascending(BlocksOf(c, "call"))[p]].text
    BY <2>6 DEF CallsOf
  <2>9. \A p \in 1..j : CallsOf(c)[p].text = InChoice(c, "call")[p].text
    BY <2>7, <2>8
  <2>10. Bubble(Message(TextPart(text), thinking, CallsOf(c))) =
             Bubble(Message(TextPart(text), thinking, InChoice(c, "call")))
    BY <2>7, <2>8, <2>9, SameBubble
  <2>11. message(m) = Message(TextPart(text), thinking, InChoice(c, "call"))
    BY <2>1, <2>4, <2>5
  <2> QED
    BY <1>2, <2>2, <2>10, <2>11
<1> HIDE DEF message, k, q
<1>5. Screen(Whole) = [m \in 1..k |-> Bubble(message(m))]
  BY <1>3 DEF Screen
<1>6. Bubbles = [m \in 1..k |-> Bubbles[m]]
  BY <1>2 DEF Bubbles, Screen
<1> QED
  BY <1>4, <1>5, <1>6

\* So is the content array.
LEMMA AnthropicLikeWhole ==
    ASSUME IInv, dialect = "anthropic", CommonGround
    PROVE  Bubbles = Screen(Whole)
<1>1. /\ Len(said) \in Nat /\ DOMAIN said = 1..Len(said) /\ DOMAIN acc = DOMAIN said
      /\ said \in Seq(Block) /\ said # <<>>
      /\ \A n \in DOMAIN said : said[n].kind \in Kind
  BY Spans, PartsAre DEF IInv, Types, CommonGround
<1>2. ASSUME NEW n \in DOMAIN said
      PROVE  /\ acc[n].kind = said[n].kind /\ acc[n].text = said[n].text
             /\ acc[n].kind # "text" \/ acc[n].text # <<>>
  <2>1. acc[n] = PartOf(n) /\ said[n].kind \in {"text", "call"}
    BY <1>1 DEF IInv, AnthropicMirror, CommonGround, Kind
  <2>2. PartOf(n).kind = said[n].kind /\ PartOf(n).text = said[n].text
    BY <2>1 DEF PartOf
  <2>3. said[n].kind = "text" => said[n].text # <<>>
    BY DEF CommonGround
  <2> QED
    BY <2>1, <2>2, <2>3
<1> DEFINE kept == {i \in DOMAIN acc : acc[i].kind # "text" \/ acc[i].text # <<>>}
           l == Len(said)
<1>3. kept = 1..l
  BY <1>1, <1>2
<1>4. Cardinality(1..l) = l /\ Ascending(1..l) = [i \in 1..l |-> i]
  <2>1. 1..l \in SUBSET Nat /\ [i \in 1..l |-> i] \in [1..l -> 1..l] /\ Rising([i \in 1..l |-> i])
    BY DEF Rising
  <2>2. \A x \in 1..l : \E i \in 1..l : [j \in 1..l |-> j][i] = x
    OBVIOUS
  <2> QED
    BY <1>1, <2>1, <2>2, OnlyAscending
<1> DEFINE parts == Picked(acc, kept)
<1>5. parts = [i \in 1..l |-> acc[i]]
  BY <1>3, <1>4 DEF Picked
<1>6. parts # <<>>
  BY <1>1, <1>5
<1> HIDE DEF parts
<1>7. [i \in DOMAIN parts |-> [kind |-> parts[i].kind, text |-> parts[i].text]] = AsParts(said)
  <2>1. DOMAIN parts = DOMAIN said /\ \A i \in DOMAIN said : parts[i] = acc[i]
    BY <1>1, <1>5
  <2> QED
    BY <1>2, <2>1 DEF AsParts
<1>8. AnthropicMessages = WholeAnthropic
  BY <1>6, <1>7 DEF AnthropicMessages, WholeAnthropic, parts
<1> QED
  BY <1>8 DEF Bubbles, Assembled, Whole

\* What Read has read after each of the first n items.
Reading(read, b, n) == read[0] = <<>> /\ \A i \in 1..n : read[i] = Joined(read[i - 1], b[i])

\* Read's recursive function exists, so it is what it was defined to be.
LEMMA ReadUnfolds ==
    ASSUME NEW b, NEW k \in Nat, Len(b) = k
    PROVE  \E read : Reading(read, b, k) /\ Read(b) = read[k]
<1> DEFINE Reads(f, n) == f = [i \in 0..n |-> IF i = 0 THEN <<>> ELSE Joined(f[i - 1], b[i])]
           able == {n \in 0..k : \E f : Reads(f, n)}
           read == CHOOSE f : Reads(f, k)
<1>1. 0 \in able
  <2>1. Reads([i \in 0..0 |-> <<>>], 0)
    OBVIOUS
  <2> HIDE DEF Reads
  <2> QED
    BY <2>1
<1>2. ASSUME NEW n \in 1..k, n - 1 \in able PROVE n \in able
  <2>1. PICK f : Reads(f, n - 1)
    BY <1>2
  <2> DEFINE g == [i \in 0..n |-> IF i = n THEN Joined(f[n - 1], b[n]) ELSE f[i]]
             h == [i \in 0..n |-> IF i = 0 THEN <<>> ELSE Joined(g[i - 1], b[i])]
  <2>2. n \in Nat /\ n > 0 /\ \A i \in 0..n : i # n => i \in 0..(n - 1)
    OBVIOUS
  <2>3. \A i \in 0..(n - 1) : f[i] = IF i = 0 THEN <<>> ELSE Joined(f[i - 1], b[i])
    BY <2>1
  <2>4. \A i \in 1..n : i - 1 \in 0..n /\ i - 1 # n
    OBVIOUS
  <2>5. \A i \in 0..n : g[i] = h[i]
    <3> HIDE DEF Reads
    <3> SUFFICES ASSUME NEW i \in 0..n PROVE g[i] = h[i]
      OBVIOUS
    <3>1. CASE i = 0
      BY <2>2, <2>3, <3>1
    <3>2. CASE i # 0
      <4>1. i \in 1..n /\ i - 1 \in 0..n /\ i - 1 # n
        BY <3>2
      <4>2. h[i] = Joined(f[i - 1], b[i])
        BY <3>2, <4>1
      <4>3. g[i] = Joined(f[i - 1], b[i])
        <5>1. CASE i = n
          BY <5>1
        <5>2. CASE i # n
          <6>1. i \in 0..(n - 1) /\ g[i] = f[i]
            BY <5>2
          <6> QED
            BY <2>3, <3>2, <6>1
        <5> QED
          BY <5>1, <5>2
      <4> QED
        BY <4>2, <4>3
    <3> QED
      BY <3>1, <3>2
  <2>6. Reads(g, n)
    <3>1. g = h
      BY <2>5
    <3> HIDE DEF g
    <3> QED
      BY <3>1
  <2> HIDE DEF Reads
  <2> QED
    BY <2>6
<1> HIDE DEF able
<1>3. \A n \in 0..k : n \in able
  BY <1>1, <1>2, CountingUp
<1>4. k \in able
  BY <1>3
<1>5. \E f : Reads(f, k)
  BY <1>4 DEF able
<1>6. Read(b) = read[k]
  BY DEF Read
<1> HIDE DEF Reads
<1>7. Reads(read, k)
  BY <1>5, Zenon
<1> HIDE DEF read
<1>8. \A i \in 0..k : read[i] = IF i = 0 THEN <<>> ELSE Joined(read[i - 1], b[i])
  BY <1>7 DEF Reads
<1>9. Reading(read, b, k)
  <2>1. 0 \in 0..k /\ \A i \in 1..k : i \in 0..k /\ i # 0
    OBVIOUS
  <2> QED
    BY <1>8, <2>1 DEF Reading
<1> QED
  BY <1>6, <1>9

\* After the first e of one list and the first t of another come the same k.
SameRest(b, e, d, t, k) == \A j \in 1..k : b[e + j] = d[t + j]

\* What has been read alike goes on alike.
LEMMA SameReading ==
    ASSUME NEW e \in Nat, NEW t \in Nat, NEW k \in Nat, NEW m, NEW n, m = e + k, n = t + k,
           NEW b, NEW d, NEW r, NEW s, Reading(r, b, m), Reading(s, d, n), r[e] = s[t],
           SameRest(b, e, d, t, k)
    PROVE  r[m] = s[n]
<1> DEFINE alike == {j \in 0..k : r[e + j] = s[t + j]}
<1>1. 0 \in alike
  OBVIOUS
<1>2. ASSUME NEW j \in 1..k, j - 1 \in alike PROVE j \in alike
  <2>1. /\ e + j \in 1..(e + k) /\ (e + j) - 1 = e + (j - 1)
        /\ t + j \in 1..(t + k) /\ (t + j) - 1 = t + (j - 1)
    OBVIOUS
  <2>2. r[e + j] = Joined(r[e + (j - 1)], b[e + j]) /\ s[t + j] = Joined(s[t + (j - 1)], d[t + j])
    BY <2>1 DEF Reading
  <2>3. r[e + (j - 1)] = s[t + (j - 1)]
    BY <1>2
  <2> QED
    BY <2>2, <2>3 DEF SameRest
<1> HIDE DEF alike
<1>3. \A j \in 0..k : j \in alike
  BY <1>1, <1>2, CountingUp
<1>4. k \in alike
  BY <1>3
<1> QED
  BY <1>4 DEF alike

\* Texts that follow each other are one text in order.
LEMMA RisingJoins ==
    ASSUME NEW u \in Seq(Nat), NEW v \in Seq(Nat), Rising(u), Rising(v),
           \A f \in ToSet(u), g \in ToSet(v) : f < g
    PROVE  u \o v \in Seq(Nat) /\ Rising(u \o v) /\ ToSet(u \o v) = ToSet(u) \cup ToSet(v)
<1>1. PICK m \in Nat, n \in Nat : m = Len(u) /\ n = Len(v)
  OBVIOUS
<1>2. /\ u \o v \in Seq(Nat) /\ DOMAIN (u \o v) = 1..(Len(u) + Len(v))
      /\ \A i \in 1..Len(u) : (u \o v)[i] = u[i]
      /\ \A i \in 1..Len(v) : (u \o v)[Len(u) + i] = v[i]
  BY Concatenated
<1>3. PICK w \in Seq(Nat) : w = u \o v
  BY <1>2
<1>4. /\ DOMAIN w = 1..(m + n) /\ DOMAIN u = 1..m /\ DOMAIN v = 1..n
      /\ \A i \in 1..m : w[i] = u[i] /\ w[i] \in ToSet(u)
      /\ \A i \in 1..n : w[m + i] = v[i] /\ w[m + i] \in ToSet(v)
  <2>1. /\ DOMAIN w = 1..(m + n)
        /\ \A i \in 1..m : w[i] = u[i]
        /\ \A i \in 1..n : w[m + i] = v[i]
    BY <1>1, <1>2, <1>3
  <2>2. DOMAIN u = 1..m /\ DOMAIN v = 1..n
    BY <1>1
  <2>3. (\A i \in 1..m : u[i] \in ToSet(u)) /\ (\A i \in 1..n : v[i] \in ToSet(v))
    BY <2>2 DEF ToSet
  <2> QED
    BY <2>1, <2>2, <2>3
<1>5. ASSUME NEW i \in 1..(m + n)
      PROVE  \/ i \in 1..m
             \/ i - m \in 1..n /\ i = m + (i - m) /\ w[i] = v[i - m] /\ w[i] \in ToSet(v)
  <2>1. i \in 1..m \/ (i - m \in 1..n /\ i = m + (i - m))
    OBVIOUS
  <2> QED
    BY <1>4, <2>1
<1>6. Rising(w)
  <2> SUFFICES ASSUME NEW i \in 1..(m + n), NEW j \in 1..(m + n), i < j PROVE w[i] < w[j]
    BY <1>4 DEF Rising
  <2>1. CASE j \in 1..m
    <3>1. i \in 1..m
      BY <2>1
    <3> QED
      BY <1>4, <2>1, <3>1 DEF Rising
  <2>2. CASE i \in 1..m /\ j \notin 1..m
    BY <1>4, <1>5, <2>2
  <2>3. CASE i \notin 1..m
    <3>1. i - m \in 1..n /\ w[i] = v[i - m]
      BY <1>5, <2>3
    <3>2. j - m \in 1..n /\ w[j] = v[j - m]
      BY <1>5, <2>3
    <3>3. i - m < j - m
      OBVIOUS
    <3> QED
      BY <1>4, <3>1, <3>2, <3>3 DEF Rising
  <2> QED
    BY <2>1, <2>2, <2>3
<1>7. ToSet(w) = ToSet(u) \cup ToSet(v)
  <2>1. ToSet(w) \subseteq ToSet(u) \cup ToSet(v)
    BY <1>4, <1>5 DEF ToSet
  <2>2. \A i \in 1..m : i \in 1..(m + n)
    OBVIOUS
  <2>3. \A i \in 1..n : m + i \in 1..(m + n)
    OBVIOUS
  <2>4. ToSet(u) \subseteq ToSet(w)
    BY <1>4, <2>2 DEF ToSet
  <2>5. ToSet(v) \subseteq ToSet(w)
    BY <1>4, <2>3 DEF ToSet
  <2> QED
    BY <2>1, <2>4, <2>5
<1> QED
  BY <1>3, <1>6, <1>7

\* The same numbers in order are the same text.
LEMMA OneRising ==
    ASSUME NEW u \in Seq(Nat), NEW v \in Seq(Nat), Rising(u), Rising(v), ToSet(u) = ToSet(v)
    PROVE  u = v
<1> DEFINE S == ToSet(u)
<1>1. PICK m \in Nat, n \in Nat : m = Len(u) /\ n = Len(v) /\ DOMAIN u = 1..m /\ DOMAIN v = 1..n
  OBVIOUS
<1>2. S \in SUBSET Nat
  BY DEF ToSet
<1>3. u \in [1..m -> S] /\ \A x \in S : \E i \in 1..m : u[i] = x
  BY <1>1 DEF ToSet
<1>4. v \in [1..n -> S] /\ \A x \in S : \E i \in 1..n : v[i] = x
  <2>1. v \in [1..n -> ToSet(v)] /\ \A x \in ToSet(v) : \E i \in 1..n : v[i] = x
    BY <1>1 DEF ToSet
  <2> QED
    BY <2>1
<1> HIDE DEF S
<1>5. u = Ascending(S)
  BY <1>2, <1>3, OnlyAscending
<1>6. v = Ascending(S)
  BY <1>2, <1>4, OnlyAscending
<1> QED
  BY <1>5, <1>6

\* A text is a sequence of numbers.
LEMMA OfNumbers ==
    ASSUME NEW t \in Fragments
    PROVE  t \in Seq(Nat)
<1>1. t \in Seq(1..MaxFragment)
  BY DEF Fragments
<1>2. PICK S \in SUBSET Nat : S = 1..MaxFragment
  <2>1. 1..MaxFragment \in SUBSET Nat
    OBVIOUS
  <2> QED
    BY <2>1
<1>3. t \in Seq(S)
  BY <1>1, <1>2
<1>4. Len(t) \in Nat /\ t = [i \in 1..Len(t) |-> t[i]] /\ \A i \in 1..Len(t) : t[i] \in Nat
  BY <1>3
<1> QED
  BY <1>4

\* The texts of a Responses answer, one after the other, are the one text of its stream.
LEMMA TextsJoin ==
    ASSUME IInv, dialect = "responses", NEW text \in Fragments, Rising(text),
           ToSet(text) = UNION {TextAt(n) : n \in Spoken},
           NEW t, t = Cardinality(Spoken), t # 0, NEW d, NEW s, Reading(s, d, t),
           \A i \in 1..t : d[i] = Item("text", said[Ascending(Spoken)[i]].text)
    PROVE  s[t] = <<Item("text", text)>>
<1> DEFINE q == Ascending(Spoken)
           Upto(i) == UNION {TextAt(q[j]) : j \in 1..i}
           Is(i, u) == s[i] = <<Item("text", u)>> /\ Rising(u) /\ ToSet(u) = Upto(i)
           joined == {i \in 0..t : i # 0 => \E u \in Seq(Nat) : Is(i, u)}
<1>1. Spoken \in SUBSET Nat /\ IsFiniteSet(Spoken) /\ Spoken \subseteq DOMAIN said
  <2>1. Spoken \subseteq 1..Len(said) /\ Len(said) \in Nat /\ DOMAIN said = 1..Len(said)
    BY Spans DEF IInv, Spoken
  <2>2. IsFiniteSet(1..Len(said))
    BY <2>1, FS_Interval
  <2> QED
    <3>1. IsFiniteSet(Spoken)
      BY <2>1, <2>2, FS_Subset
    <3> QED
      BY <2>1, <3>1
<1>2. /\ t \in Nat /\ q \in [1..t -> Spoken] /\ Rising(q)
      /\ \A x \in Spoken : \E i \in 1..t : q[i] = x
  BY <1>1, AscendingLists
<1>3. \A n \in DOMAIN said : /\ said[n].text \in Seq(Nat) /\ Rising(said[n].text)
                             /\ ToSet(said[n].text) = TextAt(n)
  <2>1. \A n \in DOMAIN said : said[n].text \in Seq(Nat)
    BY Spans, OfNumbers DEF IInv
  <2> QED
    BY <2>1 DEF IInv, Apart, TextAt
<1>4. \A n, m \in DOMAIN said : n < m => \A f \in TextAt(n), g \in TextAt(m) : f < g
  BY DEF IInv, InTurn
<1>5. s[0] = <<>> /\ \A i \in 1..t : s[i] = Joined(s[i - 1], Item("text", said[q[i]].text))
  BY DEF Reading
<1> HIDE DEF q
<1>6. \A i \in 1..t : q[i] \in DOMAIN said
  BY <1>1, <1>2
<1>7. 0 \in joined
  BY <1>2
<1>8. ASSUME NEW i \in 1..t, i - 1 \in joined PROVE i \in joined
  <2>1. PICK v \in Seq(Nat) : v = said[q[i]].text /\ Rising(v) /\ ToSet(v) = TextAt(q[i])
    BY <1>3, <1>6
  <2>2. s[i] = Joined(s[i - 1], Item("text", v))
    BY <1>5, <2>1
  <2>3. CASE i = 1
    <3>1. Joined(<<>>, Item("text", v)) = <<Item("text", v)>>
      BY DEF Joined
    <3>2. Upto(1) = TextAt(q[1])
      <4>1. 1..1 = {1}
        OBVIOUS
      <4> QED
        BY <4>1
    <3>3. Is(1, v)
      BY <1>5, <2>1, <2>2, <2>3, <3>1, <3>2
    <3> HIDE DEF Is
    <3> QED
      BY <1>2, <2>3, <3>3
  <2>4. CASE i # 1
    <3>1. i - 1 # 0 /\ i - 1 \in 1..t /\ i - 1 \in Nat
      BY <1>2, <2>4
    <3>2. PICK u \in Seq(Nat) : Is(i - 1, u)
      BY <1>8, <3>1
    <3>3. Joined(<<Item("text", u)>>, Item("text", v)) = <<Item("text", u \o v)>>
      <4>1. PICK a, b : a = Item("text", u) /\ b = Item("text", v)
        OBVIOUS
      <4>2. a.as = "text" /\ a.text = u /\ b.as = "text" /\ b.text = v
        BY <4>1 DEF Item
      <4>3. PICK x, c : x = u \o v /\ c = Item("text", x)
        OBVIOUS
      <4>4. Joined(<<a>>, b) = [<<a>> EXCEPT ![1].text = x]
        BY <4>2, <4>3 DEF Joined
      <4>5. [a EXCEPT !.text = x] = c
        <5>1. a = [as |-> "text", text |-> u]
          BY <4>1 DEF Item
        <5>2. [a EXCEPT !.text = x] = [as |-> "text", text |-> x]
          BY <5>1
        <5> QED
          BY <4>3, <5>2 DEF Item
      <4>6. [<<a>> EXCEPT ![1].text = x] = [<<a>> EXCEPT ![1] = c]
        BY <4>5
      <4>7. [<<a>> EXCEPT ![1] = c] = <<c>>
        OBVIOUS
      <4> QED
        BY <4>1, <4>3, <4>4, <4>6, <4>7
    <3>4. \A f \in ToSet(u), g \in ToSet(v) : f < g
      <4> SUFFICES ASSUME NEW f \in ToSet(u), NEW g \in ToSet(v) PROVE f < g
        OBVIOUS
      <4>1. PICK j \in 1..(i - 1) : f \in TextAt(q[j])
        BY <3>2
      <4>2. j \in 1..t /\ j < i
        BY <1>2, <4>1
      <4>3. q[j] < q[i]
        BY <1>2, <4>2 DEF Rising
      <4> QED
        BY <1>4, <1>6, <2>1, <4>1, <4>2, <4>3
    <3>5. u \o v \in Seq(Nat) /\ Rising(u \o v) /\ ToSet(u \o v) = ToSet(u) \cup ToSet(v)
      BY <2>1, <3>2, <3>4, RisingJoins
    <3>6. Upto(i) = Upto(i - 1) \cup TextAt(q[i])
      <4>1. 1..i = 1..(i - 1) \cup {i}
        BY <1>2, <3>1
      <4> QED
        BY <4>1
    <3>7. s[i] = <<Item("text", u \o v)>>
      BY <2>2, <3>2, <3>3
    <3>8. ToSet(u \o v) = Upto(i)
      BY <2>1, <3>2, <3>5, <3>6
    <3>9. PICK w \in Seq(Nat) : w = u \o v
      BY <3>5
    <3>10. Is(i, w)
      BY <3>5, <3>7, <3>8, <3>9
    <3> HIDE DEF Is
    <3> QED
      BY <1>2, <3>10
  <2> QED
    BY <2>3, <2>4
<1> HIDE DEF joined
<1>9. \A i \in 0..t : i \in joined
  BY <1>2, <1>7, <1>8, CountingUp
<1>10. t \in joined
  BY <1>2, <1>9
<1>11. PICK u \in Seq(Nat) : Is(t, u)
  BY <1>10 DEF joined
<1>12. Upto(t) = UNION {TextAt(n) : n \in Spoken}
  BY <1>2
<1>13. text \in Seq(Nat)
  BY OfNumbers
<1>14. u = text
  BY <1>11, <1>12, <1>13, OneRising
<1> QED
  BY <1>11, <1>14

\* The stream has one text where the body has several in a row; a reader joins those.
LEMMA ResponsesLikeWhole ==
    ASSUME IInv, dialect = "responses", CommonGround
    PROVE  /\ Len(Bubbles) = Len(Screen(Whole))
           /\ \A m \in DOMAIN Bubbles : Read(Bubbles[m]) = Read(Screen(Whole)[m])
<1>1. PICK text \in Fragments, calls \in Seq(Call) : acc = [text |-> text, calls |-> calls]
  BY DEF IInv, ResponsesMirror, Answer
<1>2. /\ Rising(text) /\ ToSet(text) = UNION {TextAt(n) : n \in Spoken}
      /\ calls = CallsSaid
  BY <1>1 DEF IInv, ResponsesMirror
<1> DEFINE q == Ascending(Spoken)
           row(i) == [kind |-> said[q[i]].kind, text |-> said[q[i]].text]
           parts == AsParts(Picked(said, Spoken))
           whole == InChoice(0, "call")
<1>3. /\ Spoken \in SUBSET Nat /\ IsFiniteSet(Spoken)
      /\ \A n \in Spoken : /\ n \in DOMAIN said /\ said[n].kind = "text"
                           /\ said[n].text \in Fragments /\ said[n].text # <<>>
  <2>1. Spoken \subseteq 1..Len(said) /\ Len(said) \in Nat /\ DOMAIN said = 1..Len(said)
    BY Spans DEF IInv, Spoken
  <2>2. IsFiniteSet(1..Len(said))
    BY <2>1, FS_Interval
  <2>3. IsFiniteSet(Spoken)
    BY <2>1, <2>2, FS_Subset
  <2>4. \A n \in Spoken : n \in DOMAIN said /\ said[n].kind = "text"
    BY DEF Spoken, CommonGround
  <2>5. \A n \in Spoken : said[n].text \in Fragments /\ said[n].text # <<>>
    BY <2>4, Spans DEF CommonGround, IInv
  <2> QED
    BY <2>1, <2>3, <2>4, <2>5
<1>4. PICK t \in Nat : t = Cardinality(Spoken)
  BY <1>3, FS_CardinalityType
<1>5. q \in [1..t -> Spoken] /\ \A x \in Spoken : \E i \in 1..t : q[i] = x
  BY <1>3, <1>4, AscendingLists
<1>6. parts = [i \in 1..t |-> row(i)]
  <2>1. Picked(said, Spoken) = [i \in 1..t |-> said[q[i]]]
    BY <1>4 DEF Picked
  <2> HIDE DEF q
  <2> QED
    BY <2>1 DEF AsParts
<1> HIDE DEF q, parts
<1>7. /\ parts \in Seq(Piece) /\ Len(parts) = t
      /\ \A i \in 1..t : parts[i] = [kind |-> "text", text |-> said[q[i]].text]
  <2>1. \A i \in 1..t : /\ row(i) = [kind |-> "text", text |-> said[q[i]].text]
                        /\ row(i) \in Piece
    BY <1>3, <1>5 DEF Piece, Kind
  <2> HIDE DEF row
  <2> QED
    BY <1>6, <2>1
<1>8. t = 0 <=> text = <<>>
  <2>1. CASE t = 0
    <3>1. ToSet(text) = {}
      BY <1>2, <1>5, <2>1
    <3> QED
      BY <2>1, <3>1, NoNumbers
  <2>2. CASE t # 0
    <3>1. q[1] \in Spoken
      BY <1>5, <2>2
    <3>2. TextAt(q[1]) # {}
      BY <1>3, <3>1, NoNumbers DEF TextAt
    <3>3. ToSet(text) # {}
      BY <1>2, <3>1, <3>2
    <3> QED
      BY <2>2, <3>3 DEF ToSet
  <2> QED
    BY <2>1, <2>2
<1>9. PICK k \in Nat : k = Cardinality(BlocksOf(0, "call"))
  BY BlocksAre, FS_CardinalityType DEF IInv
<1>10. /\ whole = [p \in 1..k |-> whole[p]] /\ (whole = <<>> <=> k = 0)
       /\ \A p \in 1..k : whole[p].text = said[Ascending(BlocksOf(0, "call"))[p]].text
  BY <1>9, CallsPicked DEF IInv
<1>11. /\ calls = [p \in 1..k |-> calls[p]] /\ Len(calls) = k /\ (calls = <<>> <=> k = 0)
       /\ \A p \in 1..k : calls[p].text = said[Ascending(BlocksOf(0, "call"))[p]].text
  <2>1. calls = [p \in 1..k |-> [key |-> Ascending(BlocksOf(0, "call"))[p],
                                 text |-> said[Ascending(BlocksOf(0, "call"))[p]].text]]
    BY <1>2, <1>9 DEF CallsSaid
  <2> QED
    BY <2>1
<1> HIDE DEF whole
<1>12. Assembled = IF text = <<>> /\ calls = <<>> THEN <<>>
                   ELSE <<Message(TextPart(text), <<>>, calls)>>
  BY <1>1 DEF Assembled, ResponsesMessages, Message, TextPart
<1>13. Whole = IF parts = <<>> /\ whole = <<>> THEN <<>> ELSE <<Message(parts, <<>>, whole)>>
  <2>1. ~(Len(parts) = 1 /\ (parts[1].kind = "refusal" \/ parts[1].text = <<>>))
    <3> SUFFICES ASSUME t = 1 PROVE parts[1].kind # "refusal" /\ parts[1].text # <<>>
      BY <1>7
    <3>1. q[1] \in Spoken /\ parts[1] = [kind |-> "text", text |-> said[q[1]].text]
      BY <1>5, <1>7
    <3>2. parts[1].kind = "text" /\ parts[1].text = said[q[1]].text
      BY <3>1
    <3> QED
      BY <1>3, <3>1, <3>2
  <2>2. AsParts(Picked(said, {n \in DOMAIN said : said[n].kind \in {"text", "refusal"}})) = parts
    BY DEF parts, Spoken
  <2> QED
    BY <2>1, <2>2 DEF Whole, WholeResponses, Message, whole
<1>14. parts = <<>> <=> t = 0
  BY <1>7
<1>15. CASE text = <<>> /\ calls = <<>>
  <2>1. Assembled = <<>> /\ Whole = <<>>
    BY <1>8, <1>10, <1>11, <1>12, <1>13, <1>14, <1>15
  <2> QED
    BY <2>1, ScreenIs DEF Bubbles
<1>16. CASE text # <<>> \/ calls # <<>>
  <2>1. PICK b : b = Bubble(Message(TextPart(text), <<>>, calls))
    OBVIOUS
  <2>2. PICK d : d = Bubble(Message(parts, <<>>, calls))
    OBVIOUS
  <2>3. Bubbles = <<b>>
    BY <1>12, <1>16, <2>1, ScreenIs DEF Bubbles
  <2>4. Screen(Whole) = <<d>>
    <3>1. Whole = <<Message(parts, <<>>, whole)>>
      BY <1>8, <1>10, <1>11, <1>13, <1>14, <1>16
    <3>2. \A p \in 1..k : whole[p].text = calls[p].text
      BY <1>10, <1>11
    <3>3. whole = [p \in 1..k |-> whole[p]] /\ calls = [p \in 1..k |-> calls[p]]
      BY <1>10, <1>11
    <3>4. Bubble(Message(parts, <<>>, whole)) = Bubble(Message(parts, <<>>, calls))
      BY <3>2, <3>3, SameBubble
    <3> QED
      BY <2>2, <3>1, <3>4, ScreenIs
  <2>5. PICK e \in Nat : e \in {0, 1} /\ (e = 0 <=> text = <<>>)
    <3>1. 0 \in Nat /\ 1 \in Nat
      OBVIOUS
    <3> QED
      BY <3>1
  <2>6. PICK content \in Seq(Piece) :
            /\ content = TextPart(text) /\ Len(content) = e
            /\ e = 1 => content[1] = [kind |-> "text", text |-> text]
    <3>1. [kind |-> "text", text |-> text] \in Piece
      BY DEF Piece, Kind
    <3>2. TextPart(text) \in Seq(Piece)
      BY <3>1 DEF TextPart
    <3>3. /\ Len(TextPart(text)) = e
          /\ e = 1 => TextPart(text)[1] = [kind |-> "text", text |-> text]
      BY <2>5 DEF TextPart
    <3> QED
      BY <3>2, <3>3
  <2>8. \A u : PartView([kind |-> "text", text |-> u]) = Item("text", u)
    BY DEF PartView
  <2>9. /\ Len(b) = e + k /\ (e = 1 => b[1] = Item("text", text))
        /\ \A j \in 1..k : b[e + j] = Item("call", calls[j].text)
    <3>1. b = Bubble(Message(content, <<>>, calls)) /\ (content # <<>> \/ calls # <<>>)
      BY <1>16, <2>1, <2>6 DEF TextPart
    <3>2. /\ Len(b) = Len(content) + Len(calls)
          /\ \A i \in 1..Len(content) : b[i] = PartView(content[i])
          /\ \A i \in 1..Len(calls) : b[Len(content) + i] = Item("call", calls[i].text)
      BY <3>1, PlainBubble
    <3> QED
      BY <1>11, <2>6, <2>8, <3>2
  <2>10. /\ Len(d) = t + k /\ \A i \in 1..t : d[i] = Item("text", said[q[i]].text)
         /\ \A j \in 1..k : d[t + j] = Item("call", calls[j].text)
    <3>1. parts \in Seq(Piece) /\ (parts # <<>> \/ calls # <<>>)
      BY <1>7, <1>8, <1>14, <1>16
    <3>2. /\ Len(d) = Len(parts) + Len(calls)
          /\ \A i \in 1..Len(parts) : d[i] = PartView(parts[i])
          /\ \A i \in 1..Len(calls) : d[Len(parts) + i] = Item("call", calls[i].text)
      BY <2>2, <3>1, PlainBubble
    <3>3. \A i \in 1..t : d[i] = PartView(parts[i])
      BY <1>7, <3>2
    <3>4. \A i \in 1..t : d[i] = Item("text", said[q[i]].text)
      BY <1>7, <2>8, <3>3
    <3> QED
      BY <1>7, <1>11, <3>2, <3>4
  <2>11. PICK r : Reading(r, b, e + k) /\ Read(b) = r[e + k]
    BY <2>9, ReadUnfolds
  <2>12. PICK s : Reading(s, d, t + k) /\ Read(d) = s[t + k]
    BY <2>10, ReadUnfolds
  <2>13. r[e] = s[t]
    <3>1. CASE t = 0
      BY <1>8, <2>5, <2>11, <2>12, <3>1 DEF Reading
    <3>2. CASE t # 0
      <4>1. e = 1 /\ 1 \in 1..(e + k)
        BY <1>8, <2>5, <3>2
      <4>2. r[1] = Joined(<<>>, Item("text", text))
        BY <2>9, <2>11, <4>1 DEF Reading
      <4>3. Joined(<<>>, Item("text", text)) = <<Item("text", text)>>
        BY DEF Joined
      <4>4. Reading(s, d, t)
        BY <2>12 DEF Reading
      <4>5. s[t] = <<Item("text", text)>>
        BY <1>2, <1>4, <2>10, <3>2, <4>4, TextsJoin DEF q
      <4> QED
        BY <4>1, <4>2, <4>3, <4>5
    <3> QED
      BY <3>1, <3>2
  <2>14. \A j \in 1..k : b[e + j] = d[t + j]
    BY <2>9, <2>10
  <2>15. r[e + k] = s[t + k]
    <3>1. PICK m, n : m = e + k /\ n = t + k
      OBVIOUS
    <3>2. SameRest(b, e, d, t, k)
      BY <2>14 DEF SameRest
    <3>3. Reading(r, b, m) /\ Reading(s, d, n)
      BY <2>11, <2>12, <3>1
    <3>4. r[m] = s[n]
      BY <2>13, <3>1, <3>2, <3>3, SameReading
    <3> QED
      BY <3>1, <3>4
  <2>16. Read(b) = Read(d)
    BY <2>11, <2>12, <2>15
  <2> QED
    BY <2>3, <2>4, <2>16
<1> QED
  BY <1>15, <1>16

\* Where both readings know of what was said, a streamed answer, complete or cut after any
\* frame, reads like the same answer sent in one piece: as many bubbles, and the same items
\* in each (ChatViewer.tsx:98 and 410).
THEOREM StreamReadsLikeWhole == Spec => []StreamedLikeWhole
<1>1. ASSUME IInv, CommonGround
      PROVE  /\ Len(Bubbles) = Len(Screen(Whole))
             /\ \A m \in DOMAIN Bubbles : Read(Bubbles[m]) = Read(Screen(Whole)[m])
  <2>1. CASE dialect = "openai"
    BY <1>1, <2>1, OpenAILikeWhole
  <2>2. CASE dialect = "responses"
    BY <1>1, <2>2, ResponsesLikeWhole
  <2>3. CASE dialect = "anthropic"
    BY <1>1, <2>3, AnthropicLikeWhole
  <2> QED
    BY <1>1, <2>1, <2>2, <2>3 DEF IInv, Types, Dialect
<1>2. IInv => StreamedLikeWhole
  BY <1>1 DEF StreamedLikeWhole
<1> QED
  BY <1>2, Mirrored, PTL

===============================================================================
