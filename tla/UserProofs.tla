----------------------------- MODULE UserProofs -----------------------------
(***************************************************************************)
(* The two user programs with state of their own: the list of blinking     *)
(* characters, for every size of the array and of the screen, under fish   *)
(* and under any other program; and the search of grep, for every size of  *)
(* its buffer, every directory and every word.                             *)
(***************************************************************************)
EXTENDS Fish, Grep, FiniteSetTheorems, WellFoundedInduction, TLAPS

-----------------------------------------------------------------------------
(* Lists *)

\* p[0], ..., p[n - 1] are the elements of `used', each once, and x leads from
\* the head h through them to NULL.
Chain(p, n, h, x, used) ==
  /\ n \in Nat /\ p \in [0..n -> {NULL} \cup Elements]
  /\ p[0] = h /\ p[n] = NULL
  /\ \A k \in 0..(n - 1) : p[k] \in used /\ x[p[k]] = p[k + 1]
  /\ \A j, k \in 0..(n - 1) : p[j] = p[k] => j = k
  /\ \A e \in used : \E k \in 0..(n - 1) : p[k] = e

\* The links y after those of x with the element at k taken out.
Unlinks(p, k, x, y, used) ==
  \A d \in used \ {p[k]} : y[d] = IF k > 0 /\ d = p[k - 1] THEN p[k + 1] ELSE x[d]
Rehead(p, k, h) == IF k = 0 THEN p[1] ELSE h

\* Sizes are numbers, and NULL is no element.
LEMMA Sizes ==
  /\ POOL \in Nat /\ POOL > 0 /\ LIMIT \in Nat /\ LIMIT > 0 /\ HALF \in Nat /\ HALF > 0
  /\ NULL \notin Elements /\ NULL = 0
BY BlinkAssumption DEF NULL, Elements

\* Every set of numbers that is not empty has a least one.
LEMMA LeastNat ==
    ASSUME NEW S, S \subseteq Nat, S # {}
    PROVE  \E k \in S : \A j \in S : k <= j
<1>1. PICK k \in S : \A j \in S : ~ (<<j, k>> \in OpToRel(<, Nat))
    BY NatLessThanWellFounded, WFMin
<1>2. \A j \in S : ~(j < k)
    BY <1>1 DEF OpToRel
<1> QED BY <1>2

\* A list is no longer than the array.
LEMMA ChainShort ==
    ASSUME NEW p, NEW n, NEW h, NEW x, NEW used \in SUBSET Elements, Chain(p, n, h, x, used)
    PROVE  n <= POOL
<1> DEFINE S == 0..(n - 1)
           q == [k \in S |-> p[k]]
<1>1. n \in Nat /\ POOL \in Nat
    BY Sizes DEF Chain
<1>2. q \in Injection(S, Elements)
  <2>1. q \in [S -> Elements]
    BY DEF Chain
  <2>2. \A j, k \in S : q[j] = q[k] => j = k
    BY DEF Chain
  <2> HIDE DEF q, S
  <2> QED BY <2>1, <2>2 DEF Injection, IsInjective
<1> HIDE DEF q
<1>3. IsFiniteSet(Elements) /\ Cardinality(Elements) = POOL
    BY <1>1, Sizes, FS_Interval DEF Elements
<1>4. Cardinality(S) = n
    BY <1>1, FS_Interval
<1> HIDE DEF S
<1> QED BY <1>2, <1>3, <1>4, FS_Injection

\* Adding an element in front (mp1_ioctl_add, blink.S 140-162).
LEMMA ChainAdd ==
    ASSUME NEW p, NEW n, NEW h, NEW x, NEW used \in SUBSET Elements, Chain(p, n, h, x, used),
           NEW e \in Elements, e \notin used, NEW y, y[e] = h,
           \A d \in used : y[d] = x[d]
    PROVE  \E q : Chain(q, n + 1, e, y, used \cup {e})
<1> DEFINE q == [k \in 0..(n + 1) |-> IF k = 0 THEN e ELSE p[k - 1]]
           m == n + 1
<1>0. n \in Nat /\ m \in Nat /\ m - 1 = n
    BY DEF Chain
<1>1. q \in [0..m -> {NULL} \cup Elements] /\ q[0] = e /\ q[m] = NULL
    BY <1>0 DEF Chain
<1>2. \A k \in 1..n : k - 1 \in 0..(n - 1) /\ q[k] = p[k - 1]
    BY <1>0
<1>3. \A k \in 0..n : q[k] \in used \cup {e} /\ y[q[k]] = q[k + 1]
  <2> SUFFICES ASSUME NEW k \in 0..n PROVE q[k] \in used \cup {e} /\ y[q[k]] = q[k + 1]
    OBVIOUS
  <2>1. CASE k = 0
    BY <1>0, <2>1 DEF Chain
  <2>2. CASE k # 0
    <3>1. k \in 1..n /\ q[k + 1] = p[k]
      BY <1>0, <2>2
    <3>2. k - 1 \in 0..(n - 1) /\ q[k] = p[k - 1]
      BY <1>2, <3>1
    <3>3. p[k - 1] \in used /\ x[p[k - 1]] = p[(k - 1) + 1] /\ (k - 1) + 1 = k
      BY <3>2 DEF Chain
    <3> QED BY <3>1, <3>2, <3>3
  <2> QED BY <2>1, <2>2
<1>4. \A j, k \in 0..n : q[j] = q[k] => j = k
  <2> SUFFICES ASSUME NEW j \in 0..n, NEW k \in 0..n, q[j] = q[k] PROVE j = k
    OBVIOUS
  <2>1. \A i0 \in 1..n : q[i0] # e
    BY <1>2 DEF Chain
  <2>2. CASE j = 0 \/ k = 0
    <3>1. q[0] = e /\ n \in Int /\ j \in Int /\ k \in Int /\ 0 <= j /\ j <= n /\ 0 <= k /\ k <= n
      BY <1>0, <1>1
    <3> HIDE DEF q
    <3> QED BY <2>1, <2>2, <3>1
  <2>3. CASE j # 0 /\ k # 0
    <3>1. j \in 1..n /\ k \in 1..n
      BY <1>0, <2>3
    <3>2. p[j - 1] = p[k - 1]
      BY <1>2, <3>1
    <3>3. j - 1 = k - 1
      BY <1>2, <3>1, <3>2 DEF Chain
    <3> QED BY <3>1, <3>3
  <2> QED BY <2>2, <2>3
<1>5. \A d \in used \cup {e} : \E k \in 0..n : q[k] = d
  <2>0. 0 \in 0..n /\ q[0] = e
    BY <1>0, <1>1
  <2> SUFFICES ASSUME NEW d \in used PROVE \E k \in 0..n : q[k] = d
    <3> HIDE DEF q
    <3> QED BY <2>0
  <2>1. PICK k \in 0..(n - 1) : p[k] = d
    BY DEF Chain
  <2>2. k + 1 \in 0..n /\ q[k + 1] = p[k]
    BY <1>0
  <2> QED BY <2>1, <2>2
<1> HIDE DEF q
<1>6. Chain(q, m, e, y, used \cup {e})
    BY <1>0, <1>1, <1>3, <1>4, <1>5 DEF Chain
<1> QED BY <1>6

\* Taking the element at place k out (mp1_ioctl_remove, blink.S 200-221).
LEMMA ChainRemove ==
    ASSUME NEW p, NEW n, NEW h, NEW x, NEW used \in SUBSET Elements, Chain(p, n, h, x, used),
           NEW k \in 0..(n - 1), NEW y, Unlinks(p, k, x, y, used)
    PROVE  \E q : Chain(q, n - 1, Rehead(p, k, h), y, used \ {p[k]})
<1> USE DEF Unlinks, Rehead
<1> DEFINE m == n - 1
           q == [j \in 0..m |-> IF j < k THEN p[j] ELSE p[j + 1]]
           g == IF k = 0 THEN p[1] ELSE h
<1>0. n \in Nat /\ m \in Nat /\ n = m + 1 /\ k \in Nat /\ k <= m
    BY DEF Chain
<1>1. q \in [0..m -> {NULL} \cup Elements] /\ q[0] = g /\ q[m] = NULL
    BY <1>0 DEF Chain
<1>2. \A j \in 0..m : q[j] = IF j < k THEN p[j] ELSE p[j + 1]
    BY <1>0
<1> HIDE DEF q
<1>3. \A j \in 0..(m - 1) : q[j] \in used \ {p[k]} /\ y[q[j]] = q[j + 1]
  <2> SUFFICES ASSUME NEW j \in 0..(m - 1) PROVE q[j] \in used \ {p[k]} /\ y[q[j]] = q[j + 1]
    OBVIOUS
  <2> DEFINE c == IF j < k THEN j ELSE j + 1
  <2>1. c \in 0..(n - 1) /\ c # k /\ q[j] = p[c]
    BY <1>0, <1>2
  <2>2. q[j + 1] = IF j + 1 < k THEN p[j + 1] ELSE p[(j + 1) + 1]
    BY <1>0, <1>2
  <2>3. p[c] \in used /\ p[c] # p[k] /\ x[p[c]] = p[c + 1]
    BY <2>1 DEF Chain
  <2>4. k > 0 /\ p[c] = p[k - 1] => c = k - 1
    <3>1. k > 0 => k - 1 \in 0..(n - 1)
      BY <1>0
    <3> HIDE DEF c
    <3> QED BY <2>1, <3>1 DEF Chain
  <2>5. CASE j + 1 = k
    <3>1. c = k - 1 /\ k > 0 /\ (j + 1) + 1 = k + 1
      BY <1>0, <2>5
    <3>2. y[p[c]] = p[k + 1]
      BY <2>3, <3>1
    <3> QED BY <2>1, <2>2, <2>3, <2>5, <3>1, <3>2
  <2>6. CASE j + 1 < k
    <3>1. c = j /\ c # k - 1
      BY <1>0, <2>6
    <3>2. y[p[c]] = p[c + 1]
      BY <2>3, <2>4, <3>1
    <3> QED BY <2>1, <2>2, <2>3, <2>6, <3>1, <3>2
  <2>7. CASE j >= k
    <3>1. c = j + 1 /\ c # k - 1 /\ ~(j + 1 < k)
      BY <1>0, <2>7
    <3>2. y[p[c]] = p[c + 1]
      BY <2>3, <2>4, <3>1
    <3> QED BY <2>1, <2>2, <2>3, <3>1, <3>2
  <2> QED BY <1>0, <2>5, <2>6, <2>7
<1>4. \A i0, j \in 0..(m - 1) : q[i0] = q[j] => i0 = j
  <2> SUFFICES ASSUME NEW i0 \in 0..(m - 1), NEW j \in 0..(m - 1), q[i0] = q[j] PROVE i0 = j
    OBVIOUS
  <2> DEFINE c == IF j < k THEN j ELSE j + 1
             b == IF i0 < k THEN i0 ELSE i0 + 1
  <2>1. c \in 0..(n - 1) /\ b \in 0..(n - 1) /\ q[i0] = p[b] /\ q[j] = p[c]
    BY <1>0, <1>2
  <2>2. b = c
    <3> HIDE DEF b, c
    <3>1. p[b] = p[c]
      BY <2>1
    <3> QED BY <2>1, <3>1 DEF Chain
  <2> QED BY <1>0, <2>2
<1>5. \A d \in used \ {p[k]} : \E j \in 0..(m - 1) : q[j] = d
  <2> SUFFICES ASSUME NEW d \in used, d # p[k] PROVE \E j \in 0..(m - 1) : q[j] = d
    OBVIOUS
  <2>1. PICK c \in 0..(n - 1) : p[c] = d
    BY DEF Chain
  <2> DEFINE j == IF c < k THEN c ELSE c - 1
  <2>2. c # k
    BY <2>1
  <2>3. j \in 0..(m - 1) /\ q[j] = p[c]
    BY <1>0, <1>2, <2>2
  <2> HIDE DEF j
  <2> QED BY <2>1, <2>3
<1> HIDE DEF m, g
<1>6. Chain(q, m, g, y, used \ {p[k]})
    BY <1>0, <1>1, <1>3, <1>4, <1>5 DEF Chain
<1> QED BY <1>6 DEF m, g

\* The next links, and the function After chooses.
Nexts == [e \in Elements |-> block[e].next]
NextOf(e) == IF e = NULL THEN NULL ELSE block[e].next
Body(g, n) == [k \in 0..n |-> IF k = 0 THEN head ELSE NextOf(g[k - 1])]
Walks(g, n) == g = Body(g, n)

\* There is such a function.
LEMMA WalkExists ==
    ASSUME NEW n \in Nat
    PROVE  \E g : Walks(g, n)
<1> DEFINE Bad == {k \in Nat : ~ \E g : Walks(g, k)}
<1> SUFFICES ASSUME Bad # {} PROVE FALSE
    OBVIOUS
<1>1. PICK k \in Bad : \A j \in Bad : k <= j
    BY LeastNat
<1>2. CASE k = 0
  <2> DEFINE f == [j \in 0..0 |-> head]
  <2>1. Body(f, 0) = f
    BY DEF Body
  <2>2. Walks(f, 0)
    BY <2>1 DEF Walks
  <2> QED BY <1>1, <1>2, <2>2
<1>3. CASE k # 0
  <2>1. k - 1 \in Nat /\ k - 1 \notin Bad
    BY <1>1, <1>3
  <2>2. PICK g : Walks(g, k - 1)
    BY <2>1
  <2> DEFINE h == [j \in 0..k |-> IF j < k THEN g[j] ELSE NextOf(g[j - 1])]
  <2>3. \A j \in 0..k : h[j] = IF j = 0 THEN head ELSE NextOf(h[j - 1])
    <3> SUFFICES ASSUME NEW j \in 0..k PROVE h[j] = IF j = 0 THEN head ELSE NextOf(h[j - 1])
      OBVIOUS
    <3>1. j # 0 => j - 1 \in 0..k /\ j - 1 < k /\ h[j - 1] = g[j - 1]
      OBVIOUS
    <3>2. CASE j = k
      BY <1>3, <3>1, <3>2
    <3>3. CASE j < k
      <4>1. j \in 0..(k - 1)
        BY <3>3
      <4>2. g[j] = IF j = 0 THEN head ELSE NextOf(g[j - 1])
        BY <2>2, <4>1 DEF Walks, Body
      <4> QED BY <3>1, <3>3, <4>2
    <3> QED BY <3>2, <3>3
  <2>4. h = [j \in 0..k |-> h[j]]
    OBVIOUS
  <2> HIDE DEF h
  <2>5. Walks(h, k)
    BY <2>3, <2>4 DEF Walks, Body
  <2> QED BY <1>1, <2>5
<1> QED BY <1>2, <1>3

\* So After is that function.
LEMMA Walking ==
    \A k \in 0..POOL : After[k] = IF k = 0 THEN head ELSE NextOf(After[k - 1])
<1>1. \E g : Walks(g, POOL)
    BY Sizes, WalkExists
<1>2. After = CHOOSE g : Walks(g, POOL)
    BY Zenon DEF After, Walks, Body, NextOf
<1>3. Walks(After, POOL)
    BY <1>1, <1>2
<1> QED BY <1>3 DEF Walks, Body

\* Wherever the links lead, After gives elements.
LEMMA AfterTyped ==
    ASSUME BTypeOK
    PROVE  \A k \in 0..POOL : After[k] \in {NULL} \cup Elements
<1> DEFINE Bad == {k \in 0..POOL : After[k] \notin {NULL} \cup Elements}
<1> SUFFICES ASSUME Bad # {} PROVE FALSE
    OBVIOUS
<1>0. POOL \in Nat
    BY Sizes
<1>1. Bad \subseteq Nat
    BY <1>0
<1>2. PICK k \in Bad : \A j \in Bad : k <= j
  <2> HIDE DEF Bad
  <2> QED BY <1>1, LeastNat
<1>3. k \in 0..POOL /\ After[k] \notin {NULL} \cup Elements
    BY <1>2
<1>4. CASE k = 0
    BY <1>3, <1>4, Walking DEF BTypeOK
<1>5. CASE k # 0
  <2>1. k - 1 \in 0..POOL /\ ~(k <= k - 1)
    BY <1>0, <1>3, <1>5
  <2>2. After[k - 1] \in {NULL} \cup Elements
    BY <1>2, <2>1
  <2> HIDE DEF Bad
  <2>3. After[k] = NextOf(After[k - 1])
    BY <1>3, <1>5, Walking
  <2>4. NextOf(After[k - 1]) \in {NULL} \cup Elements
    BY <2>2 DEF NextOf, BTypeOK, Structures
  <2> QED BY <1>3, <2>3, <2>4
<1> QED BY <1>4, <1>5

\* After follows the list and stays at NULL past its end (mp1_find_helper,
\* blink.S 357-367).
LEMMA AfterIs ==
    ASSUME NEW p, NEW n, Chain(p, n, head, Nexts, Used)
    PROVE  \A k \in 0..POOL : After[k] = IF k < n THEN p[k] ELSE NULL
<1> DEFINE g == [k \in 0..POOL |-> IF k < n THEN p[k] ELSE NULL]
<1>a. Used \in SUBSET Elements
    BY DEF Used
<1>0. n \in Nat /\ POOL \in Nat /\ n <= POOL
  <2>1. n <= POOL
    BY <1>a, ChainShort
  <2> QED BY <2>1, Sizes DEF Chain
<1>1. \A k \in 0..(n - 1) : p[k] \in Elements /\ p[k] # NULL /\ block[p[k]].next = p[k + 1]
  <2>1. \A e \in Elements : e # NULL /\ Nexts[e] = block[e].next
    BY Sizes DEF Nexts
  <2>2. \A k \in 0..(n - 1) : p[k] \in Used /\ Nexts[p[k]] = p[k + 1]
    BY DEF Chain
  <2> QED BY <1>a, <2>1, <2>2
<1>2. p[0] = head /\ p[n] = NULL
    BY DEF Chain
<1>3. \A k \in 0..POOL : g[k] = IF k = 0 THEN head ELSE NextOf(g[k - 1])
  <2> SUFFICES ASSUME NEW k \in 0..POOL
               PROVE  g[k] = IF k = 0 THEN head ELSE NextOf(g[k - 1])
    OBVIOUS
  <2>1. CASE k = 0
    BY <1>0, <1>2, <2>1
  <2>2. CASE k # 0 /\ k < n
    <3>1. k - 1 \in 0..(n - 1) /\ k - 1 \in 0..POOL /\ (k - 1) + 1 = k
      BY <1>0, <2>2
    <3>2. g[k - 1] = p[k - 1] /\ g[k] = p[k]
      BY <1>0, <2>2, <3>1
    <3> HIDE DEF g
    <3> QED BY <1>1, <2>2, <3>1, <3>2 DEF NextOf
  <2>3. CASE k # 0 /\ k = n
    <3>1. k - 1 \in 0..(n - 1) /\ k - 1 \in 0..POOL /\ (k - 1) + 1 = k
      BY <1>0, <2>3
    <3>2. g[k - 1] = p[k - 1] /\ g[k] = NULL
      BY <1>0, <2>3, <3>1
    <3> HIDE DEF g
    <3> QED BY <1>1, <1>2, <2>3, <3>1, <3>2 DEF NextOf
  <2>4. CASE k > n
    <3>1. k - 1 \in 0..POOL /\ ~(k - 1 < n) /\ k # 0 /\ ~(k < n)
      BY <1>0, <2>4
    <3>2. g[k - 1] = NULL /\ g[k] = NULL
      BY <3>1
    <3> HIDE DEF g
    <3> QED BY <3>1, <3>2 DEF NextOf
  <2> QED BY <1>0, <2>1, <2>2, <2>3, <2>4
<1>5. \A k \in 0..POOL : g[k] = IF k < n THEN p[k] ELSE NULL
    OBVIOUS
<1> HIDE DEF g
<1>8. \A k \in 0..POOL : After[k] = g[k]
  <2> DEFINE Bad == {k \in 0..POOL : After[k] # g[k]}
  <2> SUFFICES ASSUME Bad # {} PROVE FALSE
    OBVIOUS
  <2>1. Bad \subseteq Nat
    BY <1>0
  <2>2. PICK k \in Bad : \A j \in Bad : k <= j
    <3> HIDE DEF Bad
    <3> QED BY <2>1, LeastNat
  <2>3. k \in 0..POOL /\ After[k] # g[k]
    BY <2>2
  <2>4. CASE k = 0
    BY <1>3, <2>3, <2>4, Walking
  <2>5. CASE k # 0
    <3>1. k - 1 \in 0..POOL /\ ~(k <= k - 1)
      BY <1>0, <2>3, <2>5
    <3>2. After[k - 1] = g[k - 1]
      BY <2>2, <3>1
    <3> HIDE DEF Bad
    <3>3. After[k] = NextOf(After[k - 1])
      BY <2>3, <2>5, Walking
    <3>4. g[k] = NextOf(g[k - 1])
      BY <1>3, <2>3, <2>5
    <3> QED BY <2>3, <3>2, <3>3, <3>4
  <2> QED BY <2>4, <2>5
<1> QED BY <1>5, <1>8

-----------------------------------------------------------------------------
(* The invariant *)

\* What the tasklet makes of a structure (blink.S 60-90).
Counted(b) == [b EXCEPT !.countdown = Decremented(b.countdown)]
Due(b) == Signed(Counted(b).countdown) <= 0
Ticked(b) == IF Due(b) THEN Toggled(Counted(b)) ELSE Counted(b)

\* Two synchronised structures have the same lengths.  While both have or both
\* have not been counted in this run of the tasklet they have the same state and
\* time; otherwise one is a tick ahead.
Partners(a, b, da, db) ==
  /\ a.on_length = b.on_length /\ a.off_length = b.off_length
  /\ (da <=> db) => a.status = b.status /\ a.countdown = b.countdown
  /\ da /\ ~db => a.status = Ticked(b).status /\ a.countdown = Ticked(b).countdown

\* `done' has been counted in this run of the tasklet.
Together(bl, pairs, used, done) ==
  \A P \in pairs : /\ P \subseteq used
                   /\ \A e, f \in P : Partners(bl[e], bl[f], e \in done, f \in done)

Before(p, c) == {p[j] : j \in 0..(c - 1)}

Linking(p, n, c) ==
  /\ Chain(p, n, head, Nexts, Used) /\ c \in 0..n /\ cur = p[c]
  /\ Together(block, paired, Used, Before(p, c))
Linked == \E p, n, c : Linking(p, n, c)

BInv ==
  /\ BTypeOK /\ zeroed \in BOOLEAN
  /\ ~zeroed => Linked /\ ScreenShowsState

Chars == {"a", "b", "sp", "nl"}

FTypes ==
  /\ rest \in [1..2 -> Seq(Chars)] /\ char \in [1..2 -> Chars \cup {"0"}]
  /\ row \in Nat /\ col \in Nat
  /\ cur # NULL => at = 0 \/ Doing("wait")

FInv == BInv /\ FTypes

-----------------------------------------------------------------------------
(* The operators *)

\* The fields of a structure.
LEMMA Fields ==
    ASSUME NEW locs, NEW b \in Structures(locs)
    PROVE  /\ b.location \in locs /\ b.on_char \in Glyphs /\ b.off_char \in Glyphs
           /\ b.on_length \in Words /\ b.off_length \in Words /\ b.countdown \in Words
           /\ b.status \in {0, 1} /\ b.next \in {NULL} \cup Elements
BY DEF Structures

\* Words are counted down to words.
LEMMA Counts ==
    ASSUME NEW w \in Words
    PROVE  Decremented(w) \in Words
<1> DEFINE m == 2 * HALF
<1>1. m \in Nat /\ m > 0 /\ w \in Nat
    BY Sizes DEF Words
<1>2. (w + m - 1) % m \in 0..(m - 1)
  <2> HIDE DEF m
  <2> QED BY <1>1
<1> QED BY <1>2 DEF Decremented, Words

\* What a tick does to a structure.
LEMMA TickedIs ==
    ASSUME NEW b \in Structures(Locations)
    PROVE  /\ Ticked(b) \in Structures(Locations)
           /\ Ticked(b).location = b.location /\ Ticked(b).next = b.next
           /\ Ticked(b).on_char = b.on_char /\ Ticked(b).off_char = b.off_char
           /\ Ticked(b).on_length = b.on_length /\ Ticked(b).off_length = b.off_length
           /\ Due(b) <=> Signed(Decremented(b.countdown)) <= 0
           /\ Ticked(b).status = IF Due(b) THEN 1 - b.status ELSE b.status
           /\ Ticked(b).countdown = IF Due(b)
                                    THEN IF b.status = 1 THEN b.off_length ELSE b.on_length
                                    ELSE Decremented(b.countdown)
<1> DEFINE w == Decremented(b.countdown)
           a == Counted(b)
<1>1. w \in Words
    BY Fields, Counts
<1>2. a = [b EXCEPT !.countdown = w]
    BY DEF Counted
<1> HIDE DEF w, a
<1>3. /\ a \in Structures(Locations) /\ a.countdown = w
      /\ a.location = b.location /\ a.next = b.next /\ a.on_char = b.on_char
      /\ a.off_char = b.off_char /\ a.on_length = b.on_length
      /\ a.off_length = b.off_length /\ a.status = b.status
    BY <1>1, <1>2 DEF Structures
<1>4. Due(b) <=> Signed(w) <= 0
    BY <1>3 DEF Due, a
<1>5. CASE Due(b)
  <2> DEFINE v == IF a.status = 1 THEN a.off_length ELSE a.on_length
             st == 1 - a.status
             t == Ticked(b)
  <2>1. v \in Words /\ st \in 0..1
    BY <1>3, Fields
  <2>2. t = [a EXCEPT !.countdown = v, !.status = st]
    BY <1>5 DEF Ticked, Toggled, a
  <2> HIDE DEF v, st, t
  <2>3. /\ t \in Structures(Locations) /\ t.countdown = v /\ t.status = st
        /\ t.location = a.location /\ t.next = a.next /\ t.on_char = a.on_char
        /\ t.off_char = a.off_char /\ t.on_length = a.on_length
        /\ t.off_length = a.off_length
    BY <1>3, <2>1, <2>2 DEF Structures
  <2> QED BY <1>3, <1>4, <1>5, <2>3 DEF v, st, t, w
<1>6. CASE ~Due(b)
  <2>1. Ticked(b) = a
    BY <1>6 DEF Ticked, a
  <2> QED BY <1>3, <1>4, <1>6, <2>1 DEF w
<1> QED BY <1>5, <1>6

\* Structures that agree tick alike.
LEMMA TickAlike ==
    ASSUME NEW a \in Structures(Locations), NEW b \in Structures(Locations),
           a.on_length = b.on_length, a.off_length = b.off_length,
           a.status = b.status, a.countdown = b.countdown
    PROVE  Ticked(a).status = Ticked(b).status /\ Ticked(a).countdown = Ticked(b).countdown
<1>1. Due(a) <=> Due(b)
    BY TickedIs
<1> QED BY <1>1, TickedIs

\* The element mp1_find_helper finds.
LEMMA FindIs ==
    ASSUME BTypeOK, NEW l, mp1_find_helper(l) # NULL
    PROVE  LET k == FirstMatch(l)
               e == mp1_find_helper(l)
           IN  k \in 0..POOL /\ e = After[k] /\ e \in Elements /\ block[e].location = l
<1> DEFINE k == FirstMatch(l)
           M == Matches(l)
<1>1. M # {} /\ mp1_find_helper(l) = After[k]
    BY DEF mp1_find_helper
<1>2. M \subseteq Nat /\ M \subseteq 0..POOL
    BY Sizes DEF Matches
<1>3. k \in M
  <2>1. \E j \in M : \A h \in M : j <= h
    <3> HIDE DEF M
    <3> QED BY <1>1, <1>2, LeastNat
  <2> QED BY <2>1 DEF FirstMatch
<1>4. k \in 0..POOL /\ After[k] # NULL /\ block[After[k]].location = l
    BY <1>3 DEF Matches
<1> HIDE DEF k
<1> QED BY <1>1, <1>4, AfterTyped DEF k

\* The element mp1_malloc gives out is free.
LEMMA MallocIs ==
    ASSUME BTypeOK, mp1_malloc # NULL
    PROVE  mp1_malloc \in Elements /\ mp1_malloc \notin Used
<1> DEFINE free == {e \in Elements : block[e].location = 0}
<1>1. free # {} /\ mp1_malloc = CHOOSE e \in free : \A f \in free : e <= f
    BY DEF mp1_malloc
<1>2. free \subseteq Nat
    BY Sizes DEF Elements
<1>3. \E e \in free : \A f \in free : e <= f
  <2> HIDE DEF free
  <2> QED BY <1>1, <1>2, LeastNat
<1>4. mp1_malloc \in free
    BY <1>1, <1>3
<1> QED BY <1>4 DEF Used

-----------------------------------------------------------------------------
(* The steps *)

\* The whole list.
LEMMA BeforeAll ==
    ASSUME NEW p, NEW n, NEW h, NEW x, NEW used, Chain(p, n, h, x, used)
    PROVE  Before(p, n) = used
BY DEF Before, Chain

\* Outside the tasklet everything has been counted equally often.
LEMMA AtRest ==
    ASSUME NEW p, NEW n, NEW c, Linking(p, n, c), cur = NULL
    PROVE  c = n /\ Together(block, paired, Used, Used)
<1>1. c = n
  <2>1. c \in 0..n /\ n \in Nat /\ p[c] = NULL
    BY DEF Linking, Chain
  <2>2. \A k \in 0..(n - 1) : p[k] # NULL
    BY Sizes DEF Linking, Chain, Used
  <2> QED BY <2>1, <2>2
<1> QED BY <1>1, BeforeAll DEF Linking

\* And a list so counted is linked.
LEMMA Rested ==
    ASSUME NEW q, NEW m, Chain(q, m, head', Nexts', Used'), cur' = NULL,
           Together(block', paired', Used', Used')
    PROVE  Linked'
<1>1. m \in 0..m /\ q[m] = NULL
    BY DEF Chain
<1>2. Before(q, m) = Used'
    BY BeforeAll
<1>3. Linking(q, m, m)'
    BY <1>1, <1>2 DEF Linking, Before
<1> QED BY <1>3 DEF Linked

\* A step that changes nothing keeps the invariant.
LEMMA Idling ==
    ASSUME BInv, UNCHANGED bvars
    PROVE  BInv'
<1> USE DEF bvars
<1>1. BTypeOK' /\ zeroed' \in BOOLEAN /\ (ScreenShowsState => ScreenShowsState')
    BY DEF BInv, BTypeOK, ScreenShowsState, Used
<1>2. ASSUME NEW p, NEW n, NEW c, Linking(p, n, c) PROVE Linking(p, n, c)'
    BY <1>2 DEF Linking, Chain, Nexts, Used, Together, Before
<1>3. Linked => Linked'
    BY <1>2 DEF Linked
<1> QED BY <1>1, <1>3 DEF BInv

\* mp1_ioctl_add keeps it (blink.S 125-180).
LEMMA Adding ==
    ASSUME BInv, cur = NULL, NEW b \in Structures(Nat), mp1_ioctl_add(b)
    PROVE  BInv'
<1> DEFINE e == mp1_malloc
           nb == [b EXCEPT !.status = 1, !.countdown = b.on_length, !.next = head]
           l == b.location
<1>0. BTypeOK /\ zeroed \in BOOLEAN
    BY DEF BInv
<1>1. e \in Elements /\ e \notin Used
    BY <1>0, MallocIs DEF mp1_ioctl_add
<1>2. /\ block' = [block EXCEPT ![e] = nb] /\ head' = e /\ cur' = NULL
      /\ screen' = [screen EXCEPT ![l] = b.on_char]
      /\ paired' = Unpaired(e) /\ stale' = stale \ {l} /\ zeroed' = (zeroed \/ l = 0)
    BY DEF mp1_ioctl_add, mp1_poke
<1>3. /\ l \in Locations /\ b.on_char \in Glyphs /\ b.on_length \in Words
      /\ b \in Structures(Locations)
  <2>1. l \in Nat /\ l < LIMIT
    BY Fields DEF mp1_ioctl_add, InRange
  <2>2. l \in Locations
    BY <2>1, Sizes DEF Locations
  <2> QED BY <2>2 DEF Structures
<1>4. /\ nb \in Structures(Locations) /\ nb.location = l /\ nb.status = 1 /\ nb.next = head
      /\ nb.on_char = b.on_char
  <2>1. head \in {NULL} \cup Elements /\ b.on_length \in Words /\ 1 \in 0..1
    BY <1>0, <1>3 DEF BTypeOK
  <2> DEFINE w == b.on_length
  <2>2. nb = [b EXCEPT !.status = 1, !.countdown = w, !.next = head]
    OBVIOUS
  <2> HIDE DEF w, nb
  <2>3. w \in Words
    BY <2>1 DEF w
  <2> QED BY <1>3, <2>1, <2>2, <2>3 DEF Structures
<1> HIDE DEF e, nb, l
<1>5. BTypeOK' /\ zeroed' \in BOOLEAN
    BY <1>0, <1>1, <1>2, <1>3, <1>4 DEF BTypeOK
<1>6. block'[e] = nb /\ \A d \in Elements \ {e} : block'[d] = block[d]
    BY <1>0, <1>1, <1>2 DEF BTypeOK
<1> SUFFICES ASSUME ~zeroed' PROVE Linked' /\ ScreenShowsState'
    BY <1>5 DEF BInv
<1>7. ~zeroed /\ l # 0 /\ Linked /\ ScreenShowsState
    BY <1>2 DEF BInv
<1>8. Used' = Used \cup {e}
    BY <1>1, <1>4, <1>6, <1>7 DEF Used
<1>9. Linked'
  <2>1. PICK p, n, c : Linking(p, n, c)
    BY <1>7 DEF Linked
  <2>2. Chain(p, n, head, Nexts, Used) /\ Together(block, paired, Used, Used)
    BY <2>1, AtRest DEF Linking
  <2>3. Nexts'[e] = head /\ \A d \in Used : Nexts'[d] = Nexts[d]
    BY <1>1, <1>4, <1>6 DEF Nexts, Used
  <2>4. Used \in SUBSET Elements
    BY DEF Used
  <2>5. PICK q : Chain(q, n + 1, e, Nexts', Used \cup {e})
    BY <1>1, <2>2, <2>3, <2>4, ChainAdd
  <2>6. Together(block', paired', Used', Used')
    <3> SUFFICES ASSUME NEW P \in paired', NEW d \in P, NEW f \in P
                 PROVE  P \subseteq Used' /\ Partners(block'[d], block'[f], TRUE, TRUE)
      BY <1>8 DEF Together
    <3>1. P \in paired /\ e \notin P
      BY <1>2 DEF Unpaired
    <3>2. P \subseteq Used /\ Partners(block[d], block[f], d \in Used, f \in Used)
      BY <2>2, <3>1 DEF Together
    <3>3. block'[d] = block[d] /\ block'[f] = block[f] /\ d \in Used /\ f \in Used
      BY <1>6, <2>4, <3>1, <3>2
    <3> QED BY <1>8, <3>2, <3>3 DEF Partners
  <2> QED BY <1>2, <1>8, <2>5, <2>6, Rested
<1>10. ScreenShowsState'
  <2> SUFFICES ASSUME NEW d \in Used', block'[d].location \notin stale',
                      \A f \in Used' : block'[f].location = block'[d].location => f = d
               PROVE  screen'[block'[d].location] =
                        (IF block'[d].status = 1 THEN block'[d].on_char ELSE block'[d].off_char)
    BY DEF ScreenShowsState
  <2>1. CASE d = e
    BY <1>0, <1>2, <1>3, <1>4, <1>6, <2>1 DEF BTypeOK
  <2>2. CASE d # e
    <3>1. d \in Used /\ d \in Elements /\ block'[d] = block[d]
      BY <1>6, <1>8, <2>2 DEF Used
    <3>2. block[d].location # l
      BY <1>4, <1>6, <1>8, <2>2, <3>1
    <3>3. block[d].location \notin stale
      BY <1>2, <3>1, <3>2
    <3>4. \A f \in Used : block[f].location = block[d].location => f = d
      BY <1>1, <1>6, <1>8, <3>1 DEF Used
    <3>5. screen'[block[d].location] = screen[block[d].location]
      BY <1>0, <1>2, <3>1, <3>2, Fields DEF BTypeOK
    <3> QED BY <1>7, <3>1, <3>3, <3>4, <3>5 DEF ScreenShowsState
  <2> QED BY <2>1, <2>2
<1> QED BY <1>9, <1>10

\* A free element is a structure.
LEMMA FreeIs == Free \in Structures(Locations) /\ Free.location = 0
<1>1. 0 \in Locations /\ 0 \in Words /\ 0 \in 0..1 /\ NULL \in {NULL} \cup Elements
    BY Sizes DEF Locations, Words
<1>2. "nul" \in Glyphs
    BY BlinkAssumption
<1>3. Free.location = 0
    BY DEF Free
<1>4. Free \in Structures(Locations)
  <2> DEFINE NN == {NULL} \cup Elements
             nul == NULL
             z == 0
  <2>1. nul \in NN /\ z \in Locations /\ z \in Words /\ z \in 0..1
    BY <1>1
  <2>2. Free = [location |-> z, on_char |-> "nul", off_char |-> "nul", on_length |-> z,
                off_length |-> z, countdown |-> z, status |-> z, next |-> nul]
    BY DEF Free
  <2> HIDE DEF NN, nul, z
  <2>3. Free \in [location : Locations, on_char : Glyphs, off_char : Glyphs, on_length : Words,
                  off_length : Words, countdown : Words, status : 0..1, next : NN]
    BY <1>2, <2>1, <2>2
  <2> QED BY <2>3 DEF Structures, NN
<1> QED BY <1>3, <1>4

\* mp1_ioctl_remove keeps the invariant (blink.S 185-235).
LEMMA Removing ==
    ASSUME BInv, cur = NULL, NEW l, mp1_ioctl_remove(l)
    PROVE  BInv'
<1> DEFINE e == mp1_find_helper(l)
           k == FirstMatch(l)
           x == block[e].next
<1>0. BTypeOK /\ zeroed \in BOOLEAN
    BY DEF BInv
<1>1. k \in 0..POOL /\ e = After[k] /\ e \in Elements /\ block[e].location = l /\ e # NULL
    BY <1>0, FindIs DEF mp1_ioctl_remove
<1>2. /\ head' = IF k = 0 THEN x ELSE head
      /\ block' = [d \in Elements |->
           IF d = e THEN Free
           ELSE IF k > 0 /\ d = After[k - 1] THEN [block[d] EXCEPT !.next = x]
           ELSE block[d]]
      /\ paired' = Unpaired(e) /\ stale' = stale \cup {l}
      /\ screen' = screen /\ cur' = NULL /\ zeroed' = zeroed
    BY DEF mp1_ioctl_remove
<1> HIDE DEF e, k
<1>3. x \in {NULL} \cup Elements
    BY <1>0, <1>1, Fields DEF BTypeOK
<1> HIDE DEF x
<1>4. ASSUME NEW d \in Elements
      PROVE  /\ block'[d] \in Structures(Locations)
             /\ d = e => block'[d] = Free
             /\ d # e => /\ block'[d].location = block[d].location
                         /\ block'[d].status = block[d].status
                         /\ block'[d].countdown = block[d].countdown
                         /\ block'[d].on_char = block[d].on_char
                         /\ block'[d].off_char = block[d].off_char
                         /\ block'[d].on_length = block[d].on_length
                         /\ block'[d].off_length = block[d].off_length
                         /\ block'[d].next = IF k > 0 /\ d = After[k - 1] THEN x ELSE block[d].next
  <2> DEFINE b == block[d]
             nb == [b EXCEPT !.next = x]
  <2>1. b \in Structures(Locations)
    BY <1>0 DEF BTypeOK
  <2>2. block'[d] = IF d = e THEN Free ELSE IF k > 0 /\ d = After[k - 1] THEN nb ELSE b
    BY <1>2
  <2> HIDE DEF b
  <2>3. /\ nb \in Structures(Locations) /\ nb.next = x
        /\ nb.location = b.location /\ nb.status = b.status /\ nb.countdown = b.countdown
        /\ nb.on_char = b.on_char /\ nb.off_char = b.off_char
        /\ nb.on_length = b.on_length /\ nb.off_length = b.off_length
    BY <1>3, <2>1 DEF Structures
  <2> HIDE DEF nb
  <2> QED BY <2>1, <2>2, <2>3, FreeIs DEF b
<1>5. BTypeOK' /\ zeroed' \in BOOLEAN
  <2>1. block' \in [Elements -> Structures(Locations)]
    BY <1>2, <1>4
  <2> QED BY <1>0, <1>2, <1>3, <2>1 DEF BTypeOK
<1> SUFFICES ASSUME ~zeroed' PROVE Linked' /\ ScreenShowsState'
    BY <1>5 DEF BInv
<1>7. ~zeroed /\ Linked /\ ScreenShowsState
    BY <1>2 DEF BInv
<1>8. Used' = Used \ {e} /\ Used \in SUBSET Elements
    BY <1>1, <1>4, FreeIs DEF Used
<1>9. Linked'
  <2>1. PICK p, n, c : Linking(p, n, c)
    BY <1>7 DEF Linked
  <2>2. Chain(p, n, head, Nexts, Used) /\ Together(block, paired, Used, Used)
    BY <2>1, AtRest DEF Linking
  <2>3. \A j \in 0..POOL : After[j] = IF j < n THEN p[j] ELSE NULL
    BY <2>2, AfterIs
  <2>4. k \in 0..(n - 1) /\ e = p[k] /\ (k > 0 => After[k - 1] = p[k - 1])
    <3>1. n \in Nat /\ POOL \in Nat /\ k \in Nat /\ k <= POOL
      BY <1>1, <2>2, Sizes DEF Chain
    <3>2. k < n /\ e = p[k]
      BY <1>1, <2>3
    <3>3. k > 0 => k - 1 \in 0..POOL /\ k - 1 < n
      BY <3>1, <3>2
    <3> QED BY <2>3, <3>1, <3>2, <3>3
  <2>5. x = p[k + 1] /\ e \in Used
    <3>1. Nexts[e] = x
      BY <1>1 DEF Nexts, x
    <3> QED BY <2>2, <2>4, <3>1 DEF Chain
  <2>6. \A d \in Used \ {p[k]} :
          Nexts'[d] = IF k > 0 /\ d = p[k - 1] THEN p[k + 1] ELSE Nexts[d]
    <3> SUFFICES ASSUME NEW d \in Used, d # e
                 PROVE  Nexts'[d] = IF k > 0 /\ d = p[k - 1] THEN p[k + 1] ELSE Nexts[d]
      BY <2>4
    <3>1. d \in Elements /\ Nexts'[d] = block'[d].next /\ Nexts[d] = block[d].next
      BY <1>8 DEF Nexts
    <3> QED BY <1>4, <2>4, <2>5, <3>1
  <2>7. head' = IF k = 0 THEN p[1] ELSE head
    BY <1>2, <2>4, <2>5
  <2>8. PICK q : Chain(q, n - 1, Rehead(p, k, head), Nexts', Used \ {p[k]})
    <3>1. Used \in SUBSET Elements /\ Chain(p, n, head, Nexts, Used) /\ k \in 0..(n - 1)
      BY <1>8, <2>2, <2>4
    <3>2. Unlinks(p, k, Nexts, Nexts', Used)
      BY <2>6 DEF Unlinks
    <3> QED BY <3>1, <3>2, ChainRemove
  <2>9. Chain(q, n - 1, head', Nexts', Used')
    BY <1>8, <2>4, <2>7, <2>8 DEF Rehead
  <2>10. Together(block', paired', Used', Used')
    <3> SUFFICES ASSUME NEW P \in paired'
                 PROVE  /\ P \subseteq Used'
                        /\ \A d, f \in P : Partners(block'[d], block'[f], d \in Used', f \in Used')
      BY DEF Together
    <3>1. P \in paired /\ e \notin P
      BY <1>2 DEF Unpaired
    <3>2. P \subseteq Used'
      BY <1>8, <2>2, <3>1 DEF Together
    <3>3. ASSUME NEW d \in P, NEW f \in P
          PROVE  Partners(block'[d], block'[f], d \in Used', f \in Used')
      <4>1. d \in Used /\ f \in Used /\ d \in Elements /\ f \in Elements /\ d # e /\ f # e
        BY <1>8, <3>1, <3>2, <3>3
      <4>2. Partners(block[d], block[f], d \in Used, f \in Used)
        BY <2>2, <3>1, <3>3 DEF Together
      <4> QED BY <1>4, <3>2, <4>1, <4>2 DEF Partners
    <3> QED BY <3>2, <3>3
  <2> QED BY <1>2, <2>9, <2>10, Rested
<1>10. ScreenShowsState'
  <2> SUFFICES ASSUME NEW d \in Used', block'[d].location \notin stale',
                      \A f \in Used' : block'[f].location = block'[d].location => f = d
               PROVE  screen'[block'[d].location] =
                        (IF block'[d].status = 1 THEN block'[d].on_char ELSE block'[d].off_char)
    BY DEF ScreenShowsState
  <2>1. d \in Used /\ d \in Elements /\ d # e
    BY <1>8
  <2>2. block[d].location # l /\ block[d].location \notin stale
    BY <1>2, <1>4, <2>1
  <2>3. \A f \in Used : block[f].location = block[d].location => f = d
    BY <1>1, <1>4, <1>8, <2>1, <2>2
  <2>4. screen[block[d].location] = (IF block[d].status = 1 THEN block[d].on_char ELSE block[d].off_char)
    BY <1>7, <2>1, <2>2, <2>3 DEF ScreenShowsState
  <2> QED BY <1>2, <1>4, <2>1, <2>4
<1> QED BY <1>9, <1>10

\* What a structure takes over from another (blink.S 267-275).
LEMMA SyncedIs ==
    ASSUME NEW a \in Structures(Locations), NEW b \in Structures(Locations)
    PROVE  LET s == Synced(a, b) IN
           /\ s \in Structures(Locations)
           /\ s.location = b.location /\ s.next = b.next
           /\ s.on_char = b.on_char /\ s.off_char = b.off_char
           /\ s.on_length = a.on_length /\ s.off_length = a.off_length
           /\ s.status = a.status /\ s.countdown = a.countdown
<1> DEFINE v == a.on_length
           w == a.off_length
           t == a.countdown
           u == a.status
           s == Synced(a, b)
<1>1. v \in Words /\ w \in Words /\ t \in Words /\ u \in 0..1
    BY Fields
<1>2. s = [b EXCEPT !.on_length = v, !.off_length = w, !.countdown = t, !.status = u]
    BY DEF Synced
<1> HIDE DEF v, w, t, u, s
<1>3. /\ s \in Structures(Locations)
      /\ s.location = b.location /\ s.next = b.next
      /\ s.on_char = b.on_char /\ s.off_char = b.off_char
      /\ s.on_length = v /\ s.off_length = w /\ s.status = u /\ s.countdown = t
    BY <1>1, <1>2 DEF Structures
<1> QED BY <1>3 DEF v, w, t, u, s

\* A list whose links and locations do not change stays one.
LEMMA SameLinks ==
    ASSUME BTypeOK, BTypeOK',
           \A d \in Elements : block'[d].location = block[d].location /\ block'[d].next = block[d].next
    PROVE  Used' = Used /\ Nexts' = Nexts /\ Used \in SUBSET Elements
BY DEF Used, Nexts

\* mp1_ioctl_sync keeps the invariant (blink.S 240-290).
LEMMA Syncing ==
    ASSUME BInv, cur = NULL, NEW l, NEW m, mp1_ioctl_sync(l, m)
    PROVE  BInv'
<1> DEFINE e == mp1_find_helper(l)
           f == mp1_find_helper(m)
           s == Synced(block[e], block[f])
<1>0. BTypeOK /\ zeroed \in BOOLEAN
    BY DEF BInv
<1>1. e \in Elements /\ block[e].location = l /\ f \in Elements /\ block[f].location = m
    BY <1>0, FindIs DEF mp1_ioctl_sync
<1>2. /\ block' = [block EXCEPT ![f] = s]
      /\ screen' = [screen EXCEPT ![m] = block[f].off_char]
      /\ paired' = IF e = f THEN paired ELSE Unpaired(f) \cup {{e, f}}
      /\ stale' = IF block'[f].status = 1 THEN stale \cup {m} ELSE stale \ {m}
      /\ head' = head /\ cur' = NULL /\ zeroed' = zeroed
    BY DEF mp1_ioctl_sync, mp1_poke
<1>3. block[e] \in Structures(Locations) /\ block[f] \in Structures(Locations)
    BY <1>0, <1>1 DEF BTypeOK
<1>4. /\ s \in Structures(Locations)
      /\ s.location = m /\ s.next = block[f].next
      /\ s.on_char = block[f].on_char /\ s.off_char = block[f].off_char
      /\ s.on_length = block[e].on_length /\ s.off_length = block[e].off_length
      /\ s.status = block[e].status /\ s.countdown = block[e].countdown
    BY <1>1, <1>3, SyncedIs
<1> HIDE DEF e, f, s
<1>5. m \in Locations /\ block[f].off_char \in Glyphs /\ s.status \in {0, 1}
    BY <1>1, <1>3, <1>4, Fields
<1>6. BTypeOK' /\ zeroed' \in BOOLEAN
    BY <1>0, <1>1, <1>2, <1>4, <1>5 DEF BTypeOK
<1>7. block'[f] = s /\ \A d \in Elements \ {f} : block'[d] = block[d]
    BY <1>0, <1>1, <1>2 DEF BTypeOK
<1>8. Used' = Used /\ Nexts' = Nexts /\ Used \in SUBSET Elements
  <2>1. \A d \in Elements : block'[d].location = block[d].location /\ block'[d].next = block[d].next
    BY <1>1, <1>4, <1>7
  <2> QED BY <1>0, <1>6, <2>1, SameLinks
<1> SUFFICES ASSUME ~zeroed PROVE Linked' /\ ScreenShowsState'
    BY <1>2, <1>6 DEF BInv
<1>9. Linked /\ ScreenShowsState
    BY DEF BInv
<1>10. PICK p, n, c : Linking(p, n, c)
    BY <1>9 DEF Linked
<1>11. Chain(p, n, head, Nexts, Used) /\ Together(block, paired, Used, Used)
    BY <1>10, AtRest DEF Linking
<1>12. e \in Used /\ f \in Used
  <2>1. \A j \in 0..POOL : After[j] = IF j < n THEN p[j] ELSE NULL
    BY <1>11, AfterIs
  <2>2. \A j \in 0..POOL : After[j] # NULL => After[j] \in Used
    <3> SUFFICES ASSUME NEW j \in 0..POOL, After[j] # NULL PROVE After[j] \in Used
      OBVIOUS
    <3>1. n \in Nat /\ POOL \in Nat
      BY <1>11, Sizes DEF Chain
    <3>2. j < n /\ After[j] = p[j]
      BY <2>1
    <3>3. j \in 0..(n - 1)
      BY <3>1, <3>2
    <3> QED BY <1>11, <3>2, <3>3 DEF Chain
  <2>3. e # NULL /\ f # NULL
    BY DEF mp1_ioctl_sync, e, f
  <2>4. /\ FirstMatch(l) \in 0..POOL /\ e = After[FirstMatch(l)]
        /\ FirstMatch(m) \in 0..POOL /\ f = After[FirstMatch(m)]
    BY <1>0, <2>3, FindIs DEF e, f
  <2> QED BY <2>2, <2>3, <2>4
<1>13. Together(block', paired', Used', Used')
  <2> SUFFICES ASSUME NEW P \in paired', NEW d \in P, NEW g \in P
               PROVE  P \subseteq Used /\ Partners(block'[d], block'[g], d \in Used, g \in Used)
    BY <1>8 DEF Together
  <2>1. CASE e = f
    <3>1. P \in paired
      BY <1>2, <2>1
    <3>2. P \subseteq Used /\ Partners(block[d], block[g], d \in Used, g \in Used)
      BY <1>11, <3>1 DEF Together
    <3>3. \A h \in Elements : /\ block'[h].status = block[h].status
                              /\ block'[h].countdown = block[h].countdown
                              /\ block'[h].on_length = block[h].on_length
                              /\ block'[h].off_length = block[h].off_length
      BY <1>1, <1>4, <1>7, <2>1
    <3>4. d \in Used /\ g \in Used /\ d \in Elements /\ g \in Elements
      BY <1>8, <3>2
    <3> QED BY <3>2, <3>3, <3>4 DEF Partners
  <2>2. CASE e # f /\ P # {e, f}
    <3>1. P \in paired /\ f \notin P
      BY <1>2, <2>2 DEF Unpaired
    <3>2. P \subseteq Used /\ Partners(block[d], block[g], d \in Used, g \in Used)
      BY <1>11, <3>1 DEF Together
    <3>3. block'[d] = block[d] /\ block'[g] = block[g]
      BY <1>7, <1>8, <3>1, <3>2
    <3> QED BY <3>2, <3>3
  <2>3. CASE e # f /\ P = {e, f}
    <3>1. block'[e] = block[e] /\ block'[f] = s /\ P \subseteq Used /\ d \in Used /\ g \in Used
      BY <1>1, <1>7, <1>12, <2>3
    <3>2. d \in {e, f} /\ g \in {e, f}
      BY <2>3
    <3> QED BY <1>4, <3>1, <3>2 DEF Partners
  <2> QED BY <2>1, <2>2, <2>3
<1>14. Linked'
    BY <1>2, <1>8, <1>11, <1>13, Rested
<1>15. ScreenShowsState'
  <2> SUFFICES ASSUME NEW d \in Used', block'[d].location \notin stale',
                      \A g \in Used' : block'[g].location = block'[d].location => g = d
               PROVE  screen'[block'[d].location] =
                        (IF block'[d].status = 1 THEN block'[d].on_char ELSE block'[d].off_char)
    BY DEF ScreenShowsState
  <2>1. CASE d = f
    <3>1. s.status # 1
      BY <1>2, <1>4, <1>7, <2>1
    <3>2. screen'[m] = block[f].off_char
      BY <1>0, <1>2, <1>5 DEF BTypeOK
    <3> QED BY <1>4, <1>7, <2>1, <3>1, <3>2
  <2>2. CASE d # f
    <3>1. d \in Used /\ d \in Elements /\ block'[d] = block[d]
      BY <1>7, <1>8, <2>2
    <3>2. block[d].location # m
      BY <1>4, <1>7, <1>8, <1>12, <2>2, <3>1
    <3>3. block[d].location \notin stale
      BY <1>2, <3>1, <3>2
    <3>4. \A g \in Used : block[g].location = block[d].location => g = d
      BY <1>1, <1>4, <1>7, <1>8, <3>1
    <3>5. screen'[block[d].location] = screen[block[d].location]
      BY <1>0, <1>2, <3>1, <3>2, Fields DEF BTypeOK
    <3> QED BY <1>9, <3>1, <3>3, <3>4, <3>5 DEF ScreenShowsState
  <2> QED BY <2>1, <2>2
<1> QED BY <1>14, <1>15

\* The start of the tasklet keeps it.
LEMMA Starting ==
    ASSUME BInv, TaskletStart
    PROVE  BInv'
<1>1. cur = NULL /\ cur' = head /\ UNCHANGED <<head, block, screen, paired, stale, zeroed>>
    BY DEF TaskletStart
<1>2. BTypeOK' /\ zeroed' \in BOOLEAN /\ (ScreenShowsState => ScreenShowsState')
    BY <1>1 DEF BInv, BTypeOK, ScreenShowsState, Used
<1>3. ASSUME Linked PROVE Linked'
  <2>1. PICK p, n, c : Linking(p, n, c)
    BY <1>3 DEF Linked
  <2>2. Chain(p, n, head, Nexts, Used) /\ Together(block, paired, Used, Used)
    BY <1>1, <2>1, AtRest DEF Linking
  <2>3. Used' = Used /\ Nexts' = Nexts
    BY <1>1 DEF Used, Nexts
  <2>4. Before(p, 0) = {} /\ 0 \in 0..n /\ p[0] = head
    BY <2>2 DEF Before, Chain
  <2>5. Together(block, paired, Used, {})
    <3> SUFFICES ASSUME NEW P \in paired, NEW d \in P, NEW g \in P
                 PROVE  P \subseteq Used /\ Partners(block[d], block[g], d \in {}, g \in {})
      BY DEF Together
    <3>1. P \subseteq Used /\ Partners(block[d], block[g], d \in Used, g \in Used)
      BY <2>2 DEF Together
    <3>2. d \in Used /\ g \in Used
      BY <3>1
    <3> QED BY <3>1, <3>2 DEF Partners
  <2>6. Linking(p, n, 0)'
    BY <1>1, <2>2, <2>3, <2>4, <2>5 DEF Linking, Before
  <2> QED BY <2>6 DEF Linked
<1> QED BY <1>1, <1>2, <1>3 DEF BInv

\* One element of the tasklet keeps it (blink.S 56-95).
LEMMA Stepping ==
    ASSUME BInv, TaskletStep
    PROVE  BInv'
<1> DEFINE e == cur
           b == block[e]
           s == Ticked(b)
           a == Counted(b)
<1>0. BTypeOK /\ zeroed \in BOOLEAN /\ e \in Elements
    BY DEF BInv, BTypeOK, TaskletStep
<1>1. b \in Structures(Locations)
    BY <1>0 DEF BTypeOK
<1>2. a.location = b.location /\ a.status = b.status /\ a.next = b.next
      /\ a.on_char = b.on_char /\ a.off_char = b.off_char
    BY <1>1 DEF Structures, Counted
<1>3. /\ block' = [block EXCEPT ![e] = s]
      /\ Due(b) => /\ screen' = [screen EXCEPT ![b.location] =
                                   IF b.status = 1 THEN b.off_char ELSE b.on_char]
                   /\ stale' = stale \ {b.location}
      /\ ~Due(b) => screen' = screen /\ stale' = stale
      /\ cur' = b.next
      /\ head' = head /\ paired' = paired /\ zeroed' = zeroed
  <2>1. /\ block' = [block EXCEPT ![e] = s]
        /\ Due(b) => mp1_poke(a.location, IF a.status = 1 THEN a.off_char ELSE a.on_char)
                     /\ stale' = stale \ {a.location}
        /\ ~Due(b) => screen' = screen /\ stale' = stale
        /\ cur' = a.next
        /\ head' = head /\ paired' = paired /\ zeroed' = zeroed
    BY DEF TaskletStep, Ticked, Counted, Due
  <2> HIDE DEF a, b, s, e
  <2> QED BY <1>2, <2>1 DEF mp1_poke
<1>4. /\ s \in Structures(Locations) /\ s.location = b.location /\ s.next = b.next
      /\ s.on_char = b.on_char /\ s.off_char = b.off_char
      /\ s.on_length = b.on_length /\ s.off_length = b.off_length
      /\ s.status = IF Due(b) THEN 1 - b.status ELSE b.status
    BY <1>1, TickedIs
<1>5. /\ b.location \in Locations /\ b.on_char \in Glyphs /\ b.off_char \in Glyphs
      /\ b.next \in {NULL} \cup Elements /\ b.status \in {0, 1}
    BY <1>1, Fields
<1> HIDE DEF a, s
<1>6. block'[e] = s /\ \A d \in Elements \ {e} : block'[d] = block[d]
    BY <1>0, <1>3 DEF BTypeOK
<1> HIDE DEF b
<1>7. BTypeOK' /\ zeroed' \in BOOLEAN
  <2>1. block' \in [Elements -> Structures(Locations)]
    BY <1>0, <1>3, <1>4 DEF BTypeOK
  <2>2. screen' \in [Locations -> Glyphs]
    BY <1>0, <1>3, <1>5 DEF BTypeOK
  <2> QED BY <1>0, <1>3, <1>5, <2>1, <2>2 DEF BTypeOK
<1>8. Used' = Used /\ Nexts' = Nexts /\ Used \in SUBSET Elements
  <2>1. \A d \in Elements : block'[d].location = block[d].location /\ block'[d].next = block[d].next
    BY <1>0, <1>4, <1>6 DEF b
  <2> QED BY <1>0, <1>7, <2>1, SameLinks
<1> SUFFICES ASSUME ~zeroed PROVE Linked' /\ ScreenShowsState'
    BY <1>3, <1>7 DEF BInv
<1>9. Linked /\ ScreenShowsState
    BY DEF BInv
<1>10. PICK p, n, c : Linking(p, n, c)
    BY <1>9 DEF Linked
<1> DEFINE D == Before(p, c)
<1>11. /\ Chain(p, n, head, Nexts, Used) /\ Together(block, paired, Used, D)
       /\ c \in 0..n /\ n \in Nat /\ e = p[c] /\ p[n] = NULL
    BY <1>10 DEF Linking, Chain
<1>12. c \in 0..(n - 1) /\ c + 1 \in 0..n
  <2>1. e # NULL
    BY DEF TaskletStep
  <2> HIDE DEF e
  <2> QED BY <1>11, <2>1
<1>13. p[c + 1] = b.next
  <2>1. Nexts[e] = b.next
    BY <1>0 DEF Nexts, b
  <2> QED BY <1>11, <1>12, <2>1 DEF Chain
<1>14. Before(p, c + 1) = D \cup {e} /\ e \notin D
  <2>1. \A j \in 0..(c - 1) : j \in 0..(n - 1) /\ j # c
    BY <1>11, <1>12
  <2>2. e \notin D
    BY <1>11, <1>12, <2>1 DEF Before, Chain
  <2>3. 0..((c + 1) - 1) = 0..(c - 1) \cup {c}
    BY <1>11, <1>12
  <2>4. Before(p, c + 1) = D \cup {e}
    <3> HIDE DEF e
    <3> QED BY <1>11, <2>3 DEF Before
  <2> QED BY <2>2, <2>4
<1>15. Together(block', paired', Used', D \cup {e})
  <2> SUFFICES ASSUME NEW P \in paired
               PROVE  /\ P \subseteq Used
                      /\ \A d, g \in P : Partners(block'[d], block'[g], d \in D \cup {e}, g \in D \cup {e})
    BY <1>3, <1>8 DEF Together
  <2>1. P \subseteq Used /\ \A d, g \in P : Partners(block[d], block[g], d \in D, g \in D)
    BY <1>11 DEF Together
  <2> SUFFICES ASSUME NEW d \in P, NEW g \in P
               PROVE  Partners(block'[d], block'[g], d \in D \cup {e}, g \in D \cup {e})
    BY <2>1
  <2>2. /\ d \in Elements /\ g \in Elements
        /\ block[d] \in Structures(Locations) /\ block[g] \in Structures(Locations)
    BY <1>0, <1>8, <2>1 DEF BTypeOK
  <2> HIDE DEF D, e
  <2>3. CASE d # e /\ g # e
    <3>1. block'[d] = block[d] /\ block'[g] = block[g]
      BY <1>6, <2>2, <2>3
    <3>2. (d \in D \cup {e} <=> d \in D) /\ (g \in D \cup {e} <=> g \in D)
      BY <2>3
    <3> QED BY <2>1, <3>1, <3>2 DEF Partners
  <2>4. CASE d = e /\ g = e
    BY <1>6, <2>4 DEF Partners
  <2>5. CASE d = e /\ g # e
    <3>1. block'[d] = s /\ block'[g] = block[g] /\ block[d] = b /\ s = Ticked(b)
      BY <1>6, <2>2, <2>5 DEF s, b, e
    <3>2. Partners(b, block[g], d \in D, g \in D) /\ Partners(block[g], b, g \in D, d \in D) /\ d \notin D
      BY <1>14, <2>1, <2>5, <3>1
    <3>3. CASE g \in D
      <4>1. block[g].status = s.status /\ block[g].countdown = s.countdown
        BY <3>1, <3>2, <3>3 DEF Partners
      <4>2. block[g].on_length = s.on_length /\ block[g].off_length = s.off_length
        BY <1>4, <3>2 DEF Partners
      <4> QED BY <2>5, <3>1, <3>3, <4>1, <4>2 DEF Partners
    <3>4. CASE g \notin D
      <4>1. /\ b.status = block[g].status /\ b.countdown = block[g].countdown
            /\ b.on_length = block[g].on_length /\ b.off_length = block[g].off_length
        BY <3>2, <3>4 DEF Partners
      <4>2. s.status = Ticked(block[g]).status /\ s.countdown = Ticked(block[g]).countdown
        BY <1>1, <2>2, <3>1, <4>1, TickAlike
      <4>3. d \in D \cup {e} /\ g \notin D \cup {e}
        BY <2>5, <3>4
      <4> QED BY <1>4, <3>1, <4>1, <4>2, <4>3 DEF Partners
    <3> QED BY <3>3, <3>4
  <2>6. CASE g = e /\ d # e
    <3>1. block'[g] = s /\ block'[d] = block[d] /\ block[g] = b /\ s = Ticked(b)
      BY <1>6, <2>2, <2>6 DEF s, b, e
    <3>2. Partners(b, block[d], g \in D, d \in D) /\ Partners(block[d], b, d \in D, g \in D) /\ g \notin D
      BY <1>14, <2>1, <2>6, <3>1
    <3>3. CASE d \in D
      <4>1. block[d].status = s.status /\ block[d].countdown = s.countdown
        BY <3>1, <3>2, <3>3 DEF Partners
      <4>2. block[d].on_length = s.on_length /\ block[d].off_length = s.off_length
        BY <1>4, <3>2 DEF Partners
      <4> QED BY <2>6, <3>1, <3>3, <4>1, <4>2 DEF Partners
    <3>4. CASE d \notin D
      <4>1. block[d].on_length = s.on_length /\ block[d].off_length = s.off_length
        BY <1>4, <3>2 DEF Partners
      <4>2. g \in D \cup {e} /\ d \notin D \cup {e}
        BY <2>6, <3>4
      <4> QED BY <3>1, <4>1, <4>2 DEF Partners
    <3> QED BY <3>3, <3>4
  <2> QED BY <2>3, <2>4, <2>5, <2>6
<1>16. Linked'
  <2>1. Linking(p, n, c + 1)'
    <3> HIDE DEF D
    <3> QED BY <1>3, <1>8, <1>11, <1>12, <1>13, <1>14, <1>15 DEF Linking, Before
  <2> QED BY <2>1 DEF Linked
<1>17. ScreenShowsState'
  <2> SUFFICES ASSUME NEW d \in Used', block'[d].location \notin stale',
                      \A g \in Used' : block'[g].location = block'[d].location => g = d
               PROVE  screen'[block'[d].location] =
                        (IF block'[d].status = 1 THEN block'[d].on_char ELSE block'[d].off_char)
    BY DEF ScreenShowsState
  <2>0. e \in Used
    BY <1>11, <1>12 DEF Chain
  <2>1. d \in Used /\ d \in Elements
    BY <1>8
  <2> HIDE DEF e
  <2>2. \A g \in Used : block[g].location = block[d].location => g = d
    BY <1>0, <1>4, <1>6, <1>8, <2>1 DEF b
  <2>3. CASE d = e /\ Due(b)
    <3>1. screen'[b.location] = IF b.status = 1 THEN b.off_char ELSE b.on_char
      BY <1>0, <1>3, <1>5, <2>3 DEF BTypeOK
    <3>2. s.status = 1 - b.status
      BY <1>4, <2>3
    <3> QED BY <1>4, <1>5, <1>6, <2>3, <3>1, <3>2
  <2>4. CASE d = e /\ ~Due(b)
    <3>1. s.status = b.status /\ screen' = screen /\ stale' = stale /\ block[d] = b
      BY <1>3, <1>4, <2>4 DEF b
    <3>2. screen[b.location] = (IF b.status = 1 THEN b.on_char ELSE b.off_char)
      BY <1>4, <1>6, <1>9, <2>1, <2>2, <2>4, <3>1 DEF ScreenShowsState
    <3> QED BY <1>4, <1>6, <2>4, <3>1, <3>2
  <2>5. CASE d # e
    <3>1. block'[d] = block[d]
      BY <1>6, <2>1, <2>5
    <3>2. block[d].location # b.location
      BY <2>0, <2>2, <2>5 DEF b
    <3>3. block[d].location \notin stale
      BY <1>3, <3>1, <3>2
    <3>4. block[d].location \in Locations
      BY <1>0, <2>1, Fields DEF BTypeOK
    <3>5. screen'[block[d].location] = screen[block[d].location]
      BY <1>0, <1>3, <3>2, <3>4 DEF BTypeOK
    <3> QED BY <1>9, <2>1, <2>2, <3>1, <3>3, <3>5 DEF ScreenShowsState
  <2> QED BY <2>3, <2>4, <2>5
<1> QED BY <1>16, <1>17

-----------------------------------------------------------------------------
(* The program *)

\* The invariant holds when a program starts.
LEMMA FishInit == Init => FInv
<1> SUFFICES ASSUME Init PROVE FInv
    OBVIOUS
<1>1. BTypeOK
  <2>1. block \in [Elements -> Structures(Locations)]
    BY FreeIs DEF Init, BInit
  <2> QED BY <2>1, BlinkAssumption DEF Init, BInit, BTypeOK
<1>2. Used = {}
    BY FreeIs DEF Init, BInit, Used
<1>3. Linked
  <2> DEFINE p == [j \in 0..0 |-> NULL]
  <2>1. Chain(p, 0, head, Nexts, Used)
    BY <1>2 DEF Init, BInit, Chain
  <2>2. Together(block, paired, Used, Before(p, 0))
    BY DEF Init, BInit, Together
  <2>3. 0 \in 0..0 /\ cur = p[0]
    BY DEF Init, BInit
  <2> HIDE DEF p
  <2>4. Linking(p, 0, 0)
    BY <2>1, <2>2, <2>3 DEF Linking
  <2> QED BY <2>4 DEF Linked
<1>4. ScreenShowsState
    BY <1>2 DEF ScreenShowsState
<1>5. rest \in [1..2 -> Seq(Chars)] /\ char \in [1..2 -> Chars \cup {"0"}]
  <2>1. <<>> \in Seq(Chars) /\ Contents \subseteq Seq(Chars)
    BY FishAssumption DEF Chars
  <2>2. rest = files /\ files[1] \in Seq(Chars) /\ files[2] \in Seq(Chars)
        /\ \E f, g : files = <<f, g>>
    <3>1. rest = files /\ (files = <<<<>>, <<>>>> \/ files \in Contents \X Contents)
      BY DEF Init
    <3>2. CASE files = <<<<>>, <<>>>>
      BY <3>1, <3>2, <2>1
    <3>3. CASE files \in Contents \X Contents
      <4>1. PICK f \in Contents, g \in Contents : files = <<f, g>>
        BY <3>3
      <4>2. files[1] = f /\ files[2] = g
        BY <4>1
      <4>3. f \in Seq(Chars) /\ g \in Seq(Chars)
        BY <2>1
      <4> QED BY <3>1, <4>1, <4>2, <4>3
    <3> QED BY <3>1, <3>2, <3>3
  <2>3. rest \in [1..2 -> Seq(Chars)]
    BY <2>2
  <2> QED BY <2>3 DEF Init
<1>6. FTypes
    BY <1>5 DEF Init, BInit, FTypes
<1> QED BY <1>1, <1>3, <1>4, <1>6 DEF FInv, BInv, Init, BInit

\* add keeps the invariant also when it is refused.
LEMMA Adds ==
    ASSUME BInv, cur = NULL, NEW b \in Structures(Nat), Add(b)
    PROVE  BInv' /\ cur' = NULL
<1>1. CASE mp1_ioctl_add(b)
    BY <1>1, Adding DEF mp1_ioctl_add
<1>2. CASE AddRefused(b)
    BY <1>2, Idling DEF AddRefused, bvars
<1> QED BY <1>1, <1>2 DEF Add

\* A number that fits a word is stored as it is (blink.h 7).
LEMMA StoredIs ==
    ASSUME NEW l \in Nat
    PROVE  Stored(l) \in Nat /\ (l < 2 * HALF => Stored(l) = l)
<1>1. PICK w \in Nat \ {0} : w = 2 * HALF
    BY Sizes
<1>2. l % w \in Nat /\ (l < w => l % w = l)
    OBVIOUS
<1> QED BY <1>1, <1>2 DEF Stored

\* What add_frames reads, and the structure it makes of it (fish.c 95-140).
LEMMA FrameTypes ==
    ASSUME FTypes
    PROVE  /\ \A k \in 1..2 : NewChar(k) \in Chars /\ NewRest(k) \in Seq(Chars)
           /\ \A c0, c1 \in Chars, l \in Nat : FrameBlock(l, c0, c1) \in Structures(Nat)
<1>1. ASSUME NEW k \in 1..2 PROVE NewChar(k) \in Chars /\ NewRest(k) \in Seq(Chars)
  <2> DEFINE q == rest[k]
  <2>1. q \in Seq(Chars) /\ "nl" \in Chars
    BY <1>1 DEF FTypes, Chars
  <2> HIDE DEF q
  <2>2. q # <<>> => Head(q) \in Chars /\ Tail(q) \in Seq(Chars)
    BY <2>1
  <2> QED BY <2>1, <2>2 DEF NewChar, NewRest, q
<1>2. ASSUME NEW c0 \in Chars, NEW c1 \in Chars, NEW l \in Nat
      PROVE  FrameBlock(l, c0, c1) \in Structures(Nat)
  <2> DEFINE v == Shown(c0)
             w == Shown(c1)
             b == FrameBlock(l, c0, c1)
  <2>1. v \in Glyphs /\ w \in Glyphs /\ FRAME_LENGTH \in Words
    BY FishAssumption DEF Shown, Chars
  <2>2. Free \in Structures(Nat)
    BY FreeIs, Sizes DEF Structures, Locations
  <2>3. b = [Free EXCEPT !.location = l, !.on_char = v, !.off_char = w,
                         !.on_length = FRAME_LENGTH, !.off_length = FRAME_LENGTH]
    BY DEF FrameBlock
  <2> HIDE DEF v, w, b
  <2>4. b \in Structures(Nat)
    BY <2>1, <2>2, <2>3 DEF Structures
  <2> QED BY <2>4 DEF b
<1> QED BY <1>1, <1>2

\* Every step of fish and of any other program keeps the invariant.
LEMMA FishNext ==
    ASSUME FInv, Next
    PROVE  FInv'
<1>0. BInv /\ FTypes
    BY DEF FInv
<1>a. ASSUME NEW what, what # "wait", Doing(what) PROVE cur = NULL
    BY <1>0, <1>a DEF FTypes, Doing
<1>b. ASSUME BInv', cur' = NULL, Keep PROVE FInv'
    BY <1>0, <1>b DEF FInv, FTypes, Keep
<1>1. ASSUME SetupFails PROVE FInv'
  <2>1. cur = NULL /\ UNCHANGED <<bvars, files, rest, char, eof, row, col, i>>
    BY <1>1, <1>a DEF SetupFails
  <2>2. BInv'
    BY <1>0, <2>1, Idling
  <2> QED BY <1>b, <2>1, <2>2 DEF Keep, bvars
<1>2. ASSUME FrameChar PROVE FInv'
  <2> DEFINE c == [k \in 1..2 |-> NewChar(k)]
             l == Stored(row * COLS + col + OFFSET)
  <2>1. cur = NULL /\ c[1] \in Chars /\ c[2] \in Chars /\ c \in [1..2 -> Chars]
    BY <1>0, <1>2, <1>a, FrameTypes DEF FrameChar
  <2>2. l \in Nat
    <3>1. row * COLS + col + OFFSET \in Nat
      BY <1>0, FishAssumption DEF FTypes
    <3> QED BY <3>1, StoredIs
  <2>3. /\ Add(FrameBlock(l, c[1], c[2])) \/ UNCHANGED bvars
        /\ char' = c /\ rest' = [k \in 1..2 |-> NewRest(k)] /\ col' = col + 1 /\ row' = row
    BY <1>2 DEF FrameChar
  <2> HIDE DEF c, l
  <2>4. BInv' /\ cur' = NULL
    <3>1. CASE UNCHANGED bvars
      BY <1>0, <2>1, <3>1, Idling DEF bvars
    <3>2. CASE Add(FrameBlock(l, c[1], c[2]))
      <4>1. FrameBlock(l, c[1], c[2]) \in Structures(Nat)
        BY <1>0, <2>1, <2>2, FrameTypes
      <4> QED BY <1>0, <2>1, <3>2, <4>1, Adds
    <3> QED BY <2>3, <3>1, <3>2
  <2>5. rest' \in [1..2 -> Seq(Chars)] /\ char' \in [1..2 -> Chars \cup {"0"}]
    BY <1>0, <2>1, <2>3, FrameTypes
  <2>6. row' \in Nat /\ col' \in Nat
    BY <1>0, <2>3 DEF FTypes
  <2> QED BY <2>4, <2>5, <2>6 DEF FInv, FTypes
<1>3. ASSUME FrameRow PROVE FInv'
  <2>1. /\ cur = NULL /\ UNCHANGED bvars /\ rest' = [k \in 1..2 |-> NewRest(k)]
        /\ char' = [k \in 1..2 |-> IF eof'[k] THEN "nl" ELSE "0"]
        /\ row' = row + 1 /\ col' = 0
    BY <1>3, <1>a DEF FrameRow
  <2>2. BInv' /\ cur' = NULL
    BY <1>0, <2>1, Idling DEF bvars
  <2>3. rest' \in [1..2 -> Seq(Chars)]
    BY <1>0, <2>1, FrameTypes
  <2>4. char' \in [1..2 -> Chars \cup {"0"}]
    BY <2>1 DEF Chars
  <2>5. row' \in Nat /\ col' \in Nat
    BY <1>0, <2>1 DEF FTypes
  <2> QED BY <2>2, <2>3, <2>4, <2>5 DEF FInv, FTypes
<1>4. ASSUME WaitTick PROVE FInv'
  <2>1. BInv'
    BY <1>0, <1>4, Starting, Idling DEF WaitTick
  <2>2. Doing("wait")'
    BY <1>4 DEF WaitTick, Doing
  <2> QED BY <1>0, <1>4, <2>1, <2>2 DEF WaitTick, Keep, FInv, FTypes
<1>5. ASSUME WaitOver PROVE FInv'
  <2>1. BInv' /\ cur' = NULL /\ Keep
    BY <1>0, <1>5, Idling DEF WaitOver, Advance, bvars
  <2> QED BY <1>b, <2>1
<1>6. ASSUME Tasklet PROVE FInv'
  <2>1. BInv' /\ cur # NULL /\ UNCHANGED fvars
    BY <1>0, <1>6, Stepping DEF Tasklet, TaskletStep
  <2>2. at' = 0 \/ Doing("wait")'
    BY <1>0, <2>1 DEF FTypes, Doing, fvars
  <2> QED BY <1>0, <2>1, <2>2 DEF FInv, FTypes, fvars
<1>7. ASSUME MainAdd PROVE FInv'
  <2>1. cur = NULL /\ Add(LONE) /\ Keep /\ LONE \in Structures(Nat)
    BY <1>7, <1>a, FishAssumption DEF MainAdd, Advance
  <2> QED BY <1>0, <1>b, <2>1, Adds
<1>8. ASSUME MainSync PROVE FInv'
  <2>1. cur = NULL /\ Keep /\ (mp1_ioctl_sync(OFFSET, LONE.location) \/ UNCHANGED bvars)
    BY <1>8, <1>a DEF MainSync, Advance
  <2>2. BInv' /\ cur' = NULL
    BY <1>0, <2>1, Syncing, Idling DEF mp1_ioctl_sync, bvars
  <2> QED BY <1>b, <2>1, <2>2
<1>9. ASSUME MainRemove PROVE FInv'
  <2>1. cur = NULL /\ Keep /\ (mp1_ioctl_remove(LONE.location) \/ UNCHANGED bvars)
    BY <1>9, <1>a DEF MainRemove, Advance
  <2>2. BInv' /\ cur' = NULL
    BY <1>0, <2>1, Removing, Idling DEF mp1_ioctl_remove, bvars
  <2> QED BY <1>b, <2>1, <2>2
<1>10. ASSUME Client PROVE FInv'
  <2>1. at = 0 /\ cur = NULL /\ UNCHANGED fvars
    BY <1>10 DEF Client
  <2>2. BInv'
    <3>1. CASE \E b \in ClientBlocks : Add(b)
      BY <1>0, <2>1, <3>1, Adds, FishAssumption
    <3>2. CASE \E l \in Locations : mp1_ioctl_remove(l)
      BY <1>0, <2>1, <3>2, Removing
    <3>3. CASE \E l, m \in Locations : mp1_ioctl_sync(l, m)
      BY <1>0, <2>1, <3>3, Syncing
    <3>4. CASE TaskletStart
      BY <1>0, <3>4, Starting
    <3> QED BY <1>10, <3>1, <3>2, <3>3, <3>4 DEF Client
  <2> QED BY <1>0, <2>1, <2>2 DEF FInv, FTypes, fvars
<1> QED BY <1>1, <1>2, <1>3, <1>4, <1>5, <1>6, <1>7, <1>8, <1>9, <1>10 DEF Next

-----------------------------------------------------------------------------
(* The theorems *)

\* The invariant holds in every behaviour of fish and of other programs.
THEOREM FishInvariance == Spec => []FInv
<1>1. FInv /\ [Next]_vars => FInv'
  <2> SUFFICES ASSUME FInv, [Next]_vars PROVE FInv'
    OBVIOUS
  <2>1. CASE Next
    BY <2>1, FishNext
  <2>2. CASE UNCHANGED vars
    <3>1. BInv'
      BY <2>2, Idling DEF FInv, vars
    <3>2. FTypes'
      BY <2>2 DEF FInv, FTypes, Doing, vars, bvars, fvars
    <3> QED BY <3>1, <3>2 DEF FInv
  <2> QED BY <2>1, <2>2
<1> QED BY <1>1, FishInit, PTL DEF Spec

\* The list ends and holds exactly the elements that are not free, whatever is
\* added, removed and synchronised, for every size of the array, unless location
\* 0 was added (blink.S 140-162 and 206-221, fish.c 160-175).
THEOREM ListKept == Spec => []ListIsUsed
<1>1. FInv => ListIsUsed
  <2> SUFFICES ASSUME FInv, ~zeroed PROVE After[POOL] = NULL /\ Listed = Used
    BY DEF FInv, BInv, ListIsUsed
  <2>1. PICK p, n, c : Linking(p, n, c)
    BY DEF FInv, BInv, Linked
  <2>2. Chain(p, n, head, Nexts, Used) /\ Used \in SUBSET Elements
    BY <2>1 DEF Linking, Used
  <2>3. \A k \in 0..POOL : After[k] = IF k < n THEN p[k] ELSE NULL
    BY <2>2, AfterIs
  <2>a. n <= POOL
    BY <2>2, ChainShort
  <2>4. n \in Nat /\ POOL \in Nat /\ n <= POOL
    BY <2>2, <2>a, Sizes DEF Chain
  <2>5. After[POOL] = NULL
    BY <2>3, <2>4
  <2>6. \A k \in 0..(n - 1) : k \in 0..POOL /\ k < n /\ p[k] \in Used /\ p[k] # NULL
    BY <2>2, <2>4, Sizes DEF Chain
  <2>7. Listed \subseteq Used
    <3> SUFFICES ASSUME NEW k \in 0..POOL, After[k] # NULL PROVE After[k] \in Used
      BY DEF Listed
    <3>1. k < n /\ After[k] = p[k]
      BY <2>3
    <3>2. k \in 0..(n - 1)
      BY <2>4, <3>1
    <3> QED BY <2>6, <3>1, <3>2
  <2>8. Used \subseteq Listed
    <3> SUFFICES ASSUME NEW e \in Used PROVE \E k \in 0..POOL : After[k] = e /\ e # NULL
      BY DEF Listed
    <3>1. PICK k \in 0..(n - 1) : p[k] = e
      BY <2>2 DEF Chain
    <3> QED BY <2>3, <2>6, <3>1
  <2> QED BY <2>5, <2>7, <2>8
<1> QED BY <1>1, FishInvariance, PTL

\* The screen shows the state of every element that owns its location
\* (blink.S 64-86 and 165-169).
THEOREM ScreenTrue == Spec => []ScreenShowsState
<1>1. FInv => ScreenShowsState
    BY DEF FInv, BInv, ScreenShowsState
<1> QED BY <1>1, FishInvariance, PTL

\* Two synchronised elements have the same state and the same time left whenever
\* the tasklet does not run (blink.S 60-90 and 267-275).
THEOREM SyncHolds == Spec => []StayInStep
<1>1. FInv => StayInStep
  <2> SUFFICES ASSUME FInv, ~zeroed, cur = NULL, NEW P \in paired, NEW e \in P, NEW f \in P
               PROVE  block[e].status = block[f].status /\ block[e].countdown = block[f].countdown
    BY DEF StayInStep
  <2>1. PICK p, n, c : Linking(p, n, c)
    BY DEF FInv, BInv, Linked
  <2>2. Together(block, paired, Used, Used)
    BY <2>1, AtRest
  <2>3. P \subseteq Used /\ Partners(block[e], block[f], e \in Used, f \in Used)
    BY <2>2 DEF Together
  <2>4. e \in Used /\ f \in Used
    BY <2>3
  <2> QED BY <2>3, <2>4 DEF Partners
<1> QED BY <1>1, FishInvariance, PTL

-----------------------------------------------------------------------------
(* The frames: the rows and columns of a text                                *)

\* Line feeds are counted one by one.
LEMMA FeedsOne ==
    ASSUME NEW f, NEW n \in Nat
    PROVE  /\ IsFiniteSet({h \in 1..n : f[h] = "nl"}) /\ Feeds(f, n) \in Nat /\ Feeds(f, n) <= n
           /\ Feeds(f, 0) = 0
           /\ Feeds(f, n + 1) = IF f[n + 1] = "nl" THEN Feeds(f, n) + 1 ELSE Feeds(f, n)
<1> DEFINE S == {h \in 1..n : f[h] = "nl"}
           T == {h \in 1..(n + 1) : f[h] = "nl"}
<1>1. IsFiniteSet(1..n) /\ Cardinality(1..n) = n
    BY FS_Interval
<1>2. IsFiniteSet(S) /\ Cardinality(S) \in Nat /\ Cardinality(S) <= n
  <2>1. S \subseteq 1..n
    OBVIOUS
  <2> HIDE DEF S
  <2>2. IsFiniteSet(S) /\ Cardinality(S) <= Cardinality(1..n)
    BY <1>1, <2>1, FS_Subset
  <2> QED BY <1>1, <2>2, FS_CardinalityType
<1>3. Feeds(f, 0) = 0
  <2>1. {h \in 1..0 : f[h] = "nl"} = {}
    OBVIOUS
  <2> QED BY <2>1, FS_EmptySet DEF Feeds
<1>4. T = IF f[n + 1] = "nl" THEN S \cup {n + 1} ELSE S
    OBVIOUS
<1>5. n + 1 \notin S
    OBVIOUS
<1>6. Feeds(f, n) = Cardinality(S) /\ Feeds(f, n + 1) = Cardinality(T)
    BY DEF Feeds
<1> HIDE DEF S, T
<1>7. Cardinality(S \cup {n + 1}) = Cardinality(S) + 1
    BY <1>2, <1>5, FS_AddElement
<1>8. Feeds(f, n + 1) = IF f[n + 1] = "nl" THEN Feeds(f, n) + 1 ELSE Feeds(f, n)
    BY <1>4, <1>6, <1>7
<1>9. IsFiniteSet({h \in 1..n : f[h] = "nl"}) /\ Feeds(f, n) \in Nat /\ Feeds(f, n) <= n
    BY <1>2, <1>6 DEF S
<1> QED BY <1>3, <1>8, <1>9

\* Up to a later position there are more, or there is none between.
LEMMA FeedsMore ==
    ASSUME NEW f, NEW a \in Nat, NEW b \in Nat, a <= b
    PROVE  /\ Feeds(f, a) <= Feeds(f, b)
           /\ Feeds(f, a) = Feeds(f, b) => \A h \in (a + 1)..b : f[h] # "nl"
<1> DEFINE S == {h \in 1..a : f[h] = "nl"}
           T == {h \in 1..b : f[h] = "nl"}
<1>1. S \subseteq T
    OBVIOUS
<1>2. IsFiniteSet(T)
    BY FeedsOne
<1>3. Feeds(f, a) = Cardinality(S) /\ Feeds(f, b) = Cardinality(T)
    BY DEF Feeds
<1>4. S = T => \A h \in (a + 1)..b : f[h] # "nl"
    OBVIOUS
<1> HIDE DEF S, T
<1>5. Cardinality(S) <= Cardinality(T) /\ (Cardinality(S) = Cardinality(T) => S = T)
    BY <1>1, <1>2, FS_Subset
<1> QED BY <1>3, <1>4, <1>5

\* No two characters are in one place.
LEMMA OnePlace ==
    ASSUME NEW f, NEW r, NEW c \in Nat, NEW p \in Nat, NEW q \in Nat, p < q,
           IsIn(f, p, r, c), IsIn(f, q, r, c)
    PROVE  FALSE
<1>1. /\ c < p /\ Feeds(f, p - 1) = r /\ \A h \in (p - c)..(p - 1) : f[h] # "nl"
      /\ Feeds(f, q - 1) = r /\ (q - c = 1 \/ f[q - c - 1] = "nl")
      /\ f[p] # "nl"
    BY DEF IsIn
<1>2. p - 1 \in Nat /\ q - 1 \in Nat /\ p - 1 <= q - 1
    BY <1>1
<1>3. \A h \in ((p - 1) + 1)..(q - 1) : f[h] # "nl"
    BY <1>1, <1>2, FeedsMore
<1>4. q - c # 1 /\ (q - c - 1 \in (p - c)..(p - 1) \/ q - c - 1 \in ((p - 1) + 1)..(q - 1))
    BY <1>1
<1> QED BY <1>1, <1>3, <1>4

\* The character of a place, and none.
LEMMA TextIs ==
    ASSUME NEW f, Len(f) \in Nat, NEW r, NEW c \in Nat
    PROVE  /\ \A p \in 1..Len(f) : IsIn(f, p, r, c) => TextAt(f, r, c) = f[p]
           /\ (\A p \in 1..Len(f) : ~IsIn(f, p, r, c)) => TextAt(f, r, c) = "sp"
           /\ (\E p \in 1..Len(f) : IsIn(f, p, r, c)) \/ TextAt(f, r, c) = "sp"
<1> DEFINE here == {p \in 1..Len(f) : IsIn(f, p, r, c)}
<1>1. TextAt(f, r, c) = IF here = {} THEN "sp" ELSE f[CHOOSE p \in here : TRUE]
    BY DEF TextAt
<1>2. ASSUME NEW p \in 1..Len(f), IsIn(f, p, r, c) PROVE here = {p}
  <2>1. ASSUME NEW q \in here PROVE q = p
    <3>1. p \in Nat /\ q \in Nat /\ IsIn(f, q, r, c)
      OBVIOUS
    <3>2. ~(p < q) /\ ~(q < p)
      BY <1>2, <3>1, OnePlace
    <3> QED BY <3>1, <3>2
  <2>2. p \in here
    BY <1>2
  <2> QED BY <2>1, <2>2
<1>3. ASSUME NEW p \in 1..Len(f), IsIn(f, p, r, c) PROVE TextAt(f, r, c) = f[p]
  <2>1. here = {p}
    BY <1>2, <1>3
  <2> HIDE DEF here
  <2>2. (CHOOSE x \in here : TRUE) = p
    BY <2>1
  <2> QED BY <1>1, <2>1, <2>2
<1> QED BY <1>1, <1>3

\* A character has its row and column inside the length of the text.
LEMMA InText ==
    ASSUME NEW f, Len(f) \in Nat, NEW r, NEW c \in Nat, TextAt(f, r, c) # "sp"
    PROVE  r \in 0..Len(f) /\ c \in 0..Len(f) /\ r <= Feeds(f, Len(f))
<1>1. PICK p \in 1..Len(f) : IsIn(f, p, r, c)
    BY TextIs
<1>2. r = Feeds(f, p - 1) /\ c < p
    BY <1>1 DEF IsIn
<1>3. p - 1 \in Nat /\ Feeds(f, p - 1) \in Nat /\ Feeds(f, p - 1) <= p - 1
  <2>1. p - 1 \in Nat
    OBVIOUS
  <2> QED BY <2>1, FeedsOne
<1>4. Feeds(f, p - 1) <= Feeds(f, Len(f))
  <2>1. p - 1 <= Len(f)
    OBVIOUS
  <2> QED BY <1>3, <2>1, FeedsMore
<1> QED BY <1>2, <1>3, <1>4

\* From column c on, a row has no character.
Nothing(f, r, c) == \A p \in 1..Len(f), d \in Nat : d >= c => ~IsIn(f, p, r, d)

\* add_frames is in row r and column c of the text f, of which q is to be read:
\* behind the line feed that ended the row, at the end of the text, or in the
\* middle of the row, c characters behind its beginning (fish.c 95-145).
Along(f, q, ch, e, r, c) ==
  LET n == Len(f) - Len(q) IN
  /\ Len(q) <= Len(f) /\ \A j \in 1..Len(q) : q[j] = f[n + j]
  /\ e => ch = "nl" /\ q = <<>> /\ Feeds(f, Len(f)) <= r
  /\ ch = "nl" => Nothing(f, r, c) /\ (~e => n >= 1 /\ f[n] = "nl" /\ Feeds(f, n) = r + 1)
  /\ ch # "nl" => /\ Feeds(f, n) = r /\ c <= n /\ (n = c \/ f[n - c] = "nl")
                  /\ \A h \in (n - c + 1)..n : f[h] # "nl"

\* What is read of a text.
ReadChar(q, ch) == IF ch = "nl" \/ q = <<>> THEN "nl" ELSE Head(q)
ReadRest(q, ch) == IF ch # "nl" /\ q # <<>> THEN Tail(q) ELSE q
ReadEnd(q, ch, e) == e \/ (ch # "nl" /\ q = <<>>)

\* At its line feed, or at the end of the text, a row has no more characters.
LEMMA LineOver ==
    ASSUME NEW f, Len(f) \in Nat, NEW n \in 0..Len(f), NEW r, NEW c \in Nat,
           Feeds(f, n) = r, c <= n, n = c \/ f[n - c] = "nl", n = Len(f) \/ f[n + 1] = "nl"
    PROVE  Nothing(f, r, c)
<1> SUFFICES ASSUME NEW p \in 1..Len(f), NEW d \in Nat, d >= c, IsIn(f, p, r, d) PROVE FALSE
    BY DEF Nothing
<1>1. /\ f[p] # "nl" /\ Feeds(f, p - 1) = r /\ d < p /\ (p - d = 1 \/ f[p - d - 1] = "nl")
      /\ \A h \in (p - d)..(p - 1) : f[h] # "nl"
    BY DEF IsIn
<1>n. n \in Nat /\ p \in Nat /\ p - 1 \in Nat /\ Feeds(f, n) \in Nat
  <2>1. n \in Nat /\ p \in Nat /\ p - 1 \in Nat
    OBVIOUS
  <2> QED BY <2>1, FeedsOne
<1>2. p <= n
  <2> SUFFICES ASSUME ~(p <= n) PROVE FALSE
    OBVIOUS
  <2>1. n # Len(f)
    BY <1>n
  <2>2. f[n + 1] = "nl" /\ Feeds(f, n + 1) = r + 1
    BY <1>n, <2>1, FeedsOne
  <2>3. p # n + 1
    BY <1>1, <2>2
  <2>4. n + 1 \in Nat /\ n + 1 <= p - 1
    BY <1>n, <2>3
  <2>5. Feeds(f, n + 1) <= Feeds(f, p - 1)
    BY <1>n, <2>4, FeedsMore
  <2> QED BY <1>1, <1>n, <2>2, <2>5
<1>3. \A h \in ((p - 1) + 1)..n : f[h] # "nl"
  <2>1. p - 1 <= n
    BY <1>2, <1>n
  <2> QED BY <1>1, <1>n, <2>1, FeedsMore
<1>4. n # c /\ (n - c \in (p - d)..(p - 1) \/ n - c \in ((p - 1) + 1)..n)
    BY <1>1, <1>2, <1>n
<1> QED BY <1>1, <1>3, <1>4

\* A text without that many line feeds has no such row.
LEMMA NoRow ==
    ASSUME NEW f, Len(f) \in Nat, NEW r \in Nat, Feeds(f, Len(f)) <= r, NEW s \in Nat, s > r
    PROVE  Nothing(f, s, 0) /\ \A d \in Nat : TextAt(f, s, d) = "sp"
<1>1. ASSUME NEW p \in 1..Len(f), NEW d \in Nat PROVE ~IsIn(f, p, s, d)
  <2> SUFFICES ASSUME IsIn(f, p, s, d) PROVE FALSE
    OBVIOUS
  <2>1. Feeds(f, p - 1) = s
    BY DEF IsIn
  <2>2. p - 1 \in Nat /\ p - 1 <= Len(f)
    OBVIOUS
  <2>3. Feeds(f, p - 1) <= Feeds(f, Len(f)) /\ Feeds(f, Len(f)) \in Nat
    BY <2>2, FeedsMore, FeedsOne
  <2> QED BY <2>1, <2>3
<1>2. \A d \in Nat : TextAt(f, s, d) = "sp"
    BY <1>1, TextIs
<1> QED BY <1>1, <1>2 DEF Nothing

\* When a row is over, the next one begins, if the text is not over.
LEMMA NextRow ==
    ASSUME NEW f, Len(f) \in Nat, NEW q, Len(q) \in Nat, NEW e \in BOOLEAN, NEW r \in Nat, NEW c \in Nat,
           Along(f, q, "nl", e, r, c)
    PROVE  Along(f, q, IF e THEN "nl" ELSE "0", e, r + 1, 0)
<1>1. CASE e
  <2>1. q = <<>> /\ Feeds(f, Len(f)) <= r /\ Feeds(f, Len(f)) \in Nat
    BY <1>1, FeedsOne DEF Along
  <2>2. Nothing(f, r + 1, 0)
    <3>1. r + 1 \in Nat /\ r + 1 > r
      OBVIOUS
    <3> QED BY <2>1, <3>1, NoRow
  <2>3. Feeds(f, Len(f)) <= r + 1
    BY <2>1
  <2> QED BY <1>1, <2>1, <2>2, <2>3 DEF Along
<1>2. CASE ~e
  <2> DEFINE n == Len(f) - Len(q)
  <2>1. n \in Nat /\ n >= 1 /\ f[n] = "nl" /\ Feeds(f, n) = r + 1
    BY <1>2 DEF Along
  <2>2. Len(q) <= Len(f) /\ \A j \in 1..Len(q) : q[j] = f[n + j]
    BY DEF Along
  <2> HIDE DEF n
  <2>3. 0 <= n /\ f[n - 0] = "nl" /\ \A h \in (n - 0 + 1)..n : f[h] # "nl"
    BY <2>1
  <2> QED BY <1>2, <2>1, <2>2, <2>3 DEF Along, n
<1> QED BY <1>1, <1>2

\* One character is read of a text: it is the one of the row and column.
LEMMA ReadsOne ==
    ASSUME NEW f \in Seq(Chars), NEW q \in Seq(Chars), NEW ch, NEW e \in BOOLEAN,
           NEW r \in Nat, NEW c \in Nat, Along(f, q, ch, e, r, c),
           NEW x, x = ReadChar(q, ch), NEW y, y = ReadRest(q, ch), NEW z, z = ReadEnd(q, ch, e)
    PROVE  /\ TextAt(f, r, c) = Shown(x) /\ Along(f, y, x, z, r, c + 1)
           /\ x = "nl" => \A d \in Nat : d >= c => TextAt(f, r, d) = "sp"
           /\ x \in Chars /\ y \in Seq(Chars) /\ z \in BOOLEAN
<1>n. PICK n : n = Len(f) - Len(q)
    OBVIOUS
<1>0. Len(f) \in Nat /\ Len(q) \in Nat /\ Len(q) <= Len(f) /\ n \in 0..Len(f) /\ n \in Nat
  <2>1. Len(f) \in Nat /\ Len(q) \in Nat
    OBVIOUS
  <2>2. Len(q) <= Len(f)
    BY DEF Along
  <2> QED BY <1>n, <2>1, <2>2
<1>1. \A j \in 1..Len(q) : q[j] = f[n + j]
    BY <1>n DEF Along
<1>2. ASSUME NEW d \in Nat, Nothing(f, r, d)
      PROVE  /\ \A b \in Nat : b >= d => TextAt(f, r, b) = "sp"
             /\ Nothing(f, r, d + 1)
  <2>1. \A b \in Nat : b >= d => \A p \in 1..Len(f) : ~IsIn(f, p, r, b)
    BY <1>2 DEF Nothing
  <2>2. \A b \in Nat : b >= d => TextAt(f, r, b) = "sp"
    BY <1>0, <2>1, TextIs
  <2>3. Nothing(f, r, d + 1)
    BY <2>1 DEF Nothing
  <2> QED BY <2>2, <2>3
<1>3. Shown("nl") = "sp" /\ "nl" \in Chars
    BY DEF Shown, Chars
<1>4. CASE ch = "nl"
  <2>1. x = "nl" /\ y = q /\ z = e
    BY <1>4 DEF ReadChar, ReadRest, ReadEnd
  <2>2. Nothing(f, r, c)
    BY <1>4 DEF Along
  <2>3. Along(f, q, "nl", e, r, c + 1)
    BY <1>2, <1>4, <2>2 DEF Along
  <2> QED BY <1>2, <1>3, <2>1, <2>2, <2>3
<1>5. ASSUME ch # "nl"
      PROVE  /\ Feeds(f, n) = r /\ c <= n /\ (n = c \/ f[n - c] = "nl")
             /\ \A h \in (n - c + 1)..n : f[h] # "nl"
             /\ ~e
    BY <1>5, <1>n DEF Along
<1>6. CASE ch # "nl" /\ q = <<>>
  <2>1. x = "nl" /\ y = <<>> /\ z = TRUE
    BY <1>6 DEF ReadChar, ReadRest, ReadEnd
  <2>2. n = Len(f)
    BY <1>0, <1>6, <1>n
  <2>3. Nothing(f, r, c)
    BY <1>0, <1>5, <1>6, <2>2, LineOver
  <2>4. Feeds(f, Len(f)) <= r
    BY <1>5, <1>6, <2>2
  <2>5. Nothing(f, r, c + 1)
    BY <1>2, <2>3
  <2>6. Along(f, <<>>, "nl", TRUE, r, c + 1)
    <3>1. Len(<<>>) = 0
      OBVIOUS
    <3> QED BY <1>0, <2>4, <2>5, <3>1 DEF Along
  <2>7. \A d \in Nat : d >= c => TextAt(f, r, d) = "sp"
    BY <1>2, <2>3
  <2>8. TextAt(f, r, c) = "sp"
    BY <2>7
  <2> QED BY <1>3, <1>6, <2>1, <2>6, <2>7, <2>8
<1>7. CASE ch # "nl" /\ q # <<>>
  <2>1. x = Head(q) /\ y = Tail(q) /\ z = FALSE
    BY <1>5, <1>7 DEF ReadChar, ReadRest, ReadEnd
  <2>2. /\ Len(q) >= 1 /\ Len(y) = Len(q) - 1 /\ x = q[1] /\ x \in Chars /\ y \in Seq(Chars)
        /\ \A j \in 1..Len(y) : y[j] = q[j + 1]
    BY <1>7, <2>1
  <2>3. x = f[n + 1]
    <3>1. 1 \in 1..Len(q)
      BY <1>0, <2>2
    <3> QED BY <1>1, <2>2, <3>1
  <2>m. PICK m : m = n + 1
    OBVIOUS
  <2>4. /\ m = Len(f) - Len(y) /\ Len(y) <= Len(f) /\ m \in Nat /\ m \in 1..Len(f)
        /\ Len(y) \in Nat
    BY <1>0, <1>n, <2>2, <2>m
  <2>5. \A j \in 1..Len(y) : y[j] = f[m + j]
    <3> SUFFICES ASSUME NEW j \in 1..Len(y) PROVE y[j] = f[m + j]
      OBVIOUS
    <3>1. j + 1 \in 1..Len(q) /\ n + (j + 1) = m + j
      <4>1. PICK u, v : u = Len(q) /\ v = Len(y)
        OBVIOUS
      <4>2. u \in Nat /\ v \in Nat /\ v = u - 1 /\ j \in 1..v
        BY <1>0, <2>2, <2>4, <4>1
      <4>3. j + 1 \in 1..u /\ n + (j + 1) = m + j
        BY <1>0, <2>m, <4>2
      <4> QED BY <4>1, <4>3
    <3> QED BY <1>1, <2>2, <3>1
  <2>6. Feeds(f, m) = IF x = "nl" THEN r + 1 ELSE r
    BY <1>0, <1>5, <1>7, <2>3, <2>m, FeedsOne
  <2>7. CASE x = "nl"
    <3>1. Nothing(f, r, c)
      BY <1>0, <1>5, <1>7, <2>3, <2>7, LineOver
    <3>2. Nothing(f, r, c + 1)
      BY <1>2, <3>1
    <3>3. m >= 1 /\ f[m] = "nl" /\ Feeds(f, m) = r + 1
      <4>1. m >= 1
        BY <1>0, <2>m
      <4>2. f[m] = "nl"
        BY <2>3, <2>7, <2>m
      <4> QED BY <2>6, <2>7, <4>1, <4>2
    <3>4. Along(f, y, "nl", FALSE, r, c + 1)
      BY <2>4, <2>5, <3>2, <3>3 DEF Along
    <3>5. \A d \in Nat : d >= c => TextAt(f, r, d) = "sp"
      BY <1>2, <3>1
    <3>6. TextAt(f, r, c) = "sp"
      BY <3>5
    <3> QED BY <1>3, <2>1, <2>2, <2>7, <3>4, <3>5, <3>6
  <2>8. CASE x # "nl"
    <3>1. c < m /\ m - 1 = n /\ m - c = n - c + 1 /\ m - c - 1 = n - c /\ c + 1 <= m /\ m - (c + 1) = n - c
          /\ m - (c + 1) + 1 = n - c + 1 /\ (n = c => m - c = 1 /\ m = c + 1)
      BY <1>0, <1>5, <1>7, <2>m
    <3>2. IsIn(f, m, r, c)
      <4>1. f[m] # "nl" /\ Feeds(f, m - 1) = r
        BY <1>5, <1>7, <2>3, <2>8, <2>m, <3>1
      <4>2. \A h \in (m - c)..(m - 1) : f[h] # "nl"
        BY <1>5, <1>7, <3>1
      <4>3. m - c = 1 \/ f[m - c - 1] = "nl"
        BY <1>5, <1>7, <3>1
      <4> QED BY <3>1, <4>1, <4>2, <4>3 DEF IsIn
    <3>3. TextAt(f, r, c) = x
      BY <1>0, <2>3, <2>4, <2>m, <3>2, TextIs
    <3>4. \A h \in (m - (c + 1) + 1)..m : f[h] # "nl"
      <4> SUFFICES ASSUME NEW h \in (m - (c + 1) + 1)..m PROVE f[h] # "nl"
        OBVIOUS
      <4>1. h = m \/ h \in (n - c + 1)..n
        BY <1>0, <2>4, <2>m
      <4> QED BY <1>5, <1>7, <2>3, <2>8, <2>m, <4>1
    <3>5. Along(f, y, x, FALSE, r, c + 1)
      <4>1. Feeds(f, m) = r /\ c + 1 <= m /\ (m = c + 1 \/ f[m - (c + 1)] = "nl")
        BY <1>5, <1>7, <2>6, <2>8, <3>1
      <4> QED BY <2>4, <2>5, <2>8, <3>4, <4>1 DEF Along
    <3>6. Shown(x) = x
      BY <2>8 DEF Shown
    <3> QED BY <2>1, <2>2, <2>8, <3>3, <3>5, <3>6
  <2> QED BY <2>7, <2>8
<1> QED BY <1>4, <1>6, <1>7

-----------------------------------------------------------------------------
(* The frames: the cells in reading order                                    *)

\* The cells before row r and column c.
Seen(r, c) == {q \in OnScreen : q[1] < r \/ (q[1] = r /\ q[2] < c)}

\* The element of a cell.
Element(p) == [FrameBlock(Location(p), TextAt(files[1], p[1], p[2]), TextAt(files[2], p[1], p[2]))
                 EXCEPT !.status = 1, !.countdown = FRAME_LENGTH, !.next = Rank(p) - 1]

\* The array holds the elements of the cells in S, as far as there is room, when
\* every place fits a word.
Filled(S) == NoWrap =>
  /\ head = IF Cardinality(S) < POOL THEN Cardinality(S) ELSE POOL
  /\ \A e \in Elements : IF e <= Cardinality(S) THEN block[e].location # 0 ELSE block[e] = Free
  /\ \A p \in S : Rank(p) <= POOL => block[Rank(p)] = Element(p)

Texts == files[1] \in Seq(Chars) /\ files[2] \in Seq(Chars)

\* While the frames are read, each text is read along and the cells before the
\* place that is read are in the array; afterwards all cells are.
Framing ==
  /\ at \in 0..9 /\ i \in Nat /\ Texts /\ eof \in [1..2 -> BOOLEAN]
  /\ at = 1 => /\ i = 0 /\ cur = NULL /\ Filled(Seen(row, col))
               /\ \A k \in 1..2 : Along(files[k], rest[k], char[k], eof[k], row, col)
  /\ at = 2 /\ i = 0 => cur = NULL /\ Filled(OnScreen)

\* There are finitely many cells.
LEMMA FewCells ==
    ASSUME Texts
    PROVE  /\ IsFiniteSet(OnScreen) /\ OnScreen \subseteq Nat \X Nat
           /\ \A S \in SUBSET OnScreen : IsFiniteSet(S) /\ Cardinality(S) \in Nat
<1>1. Len(files[1]) \in Nat /\ Len(files[2]) \in Nat
    BY DEF Texts
<1>2. IsFiniteSet(Rows) /\ Rows \subseteq Nat
  <2>1. PICK u, v : u = Len(files[1]) /\ v = Len(files[2])
    OBVIOUS
  <2>2. u \in Nat /\ v \in Nat /\ Rows = 0..(u + v)
    BY <1>1, <2>1 DEF Rows
  <2>3. IsFiniteSet(0..(u + v)) /\ 0..(u + v) \subseteq Nat
    BY <2>2, FS_Interval
  <2> QED BY <2>2, <2>3
<1>3. IsFiniteSet(Rows \X Rows)
    BY <1>2, FS_Product
<1>4. OnScreen \subseteq Rows \X Rows
    BY DEF OnScreen, Cells
<1>5. IsFiniteSet(OnScreen)
    BY <1>3, <1>4, FS_Subset
<1>6. \A S \in SUBSET OnScreen : IsFiniteSet(S) /\ Cardinality(S) \in Nat
    BY <1>5, FS_Subset, FS_CardinalityType
<1> QED BY <1>2, <1>4, <1>5, <1>6

\* A cell of the screen shows something.
LEMMA CellIs ==
    ASSUME Texts, NEW r \in Nat, NEW c \in Nat
    PROVE  /\ <<r, c>> \in OnScreen <=>
                /\ TextAt(files[1], r, c) # "sp" \/ TextAt(files[2], r, c) # "sp"
                /\ r * COLS + c + OFFSET < LIMIT
           /\ NoWrap /\ (TextAt(files[1], r, c) # "sp" \/ TextAt(files[2], r, c) # "sp")
                => r * COLS + c + OFFSET < 2 * HALF
<1>1. Len(files[1]) \in Nat /\ Len(files[2]) \in Nat
    BY DEF Texts
<1>2. ASSUME TextAt(files[1], r, c) # "sp" \/ TextAt(files[2], r, c) # "sp" PROVE <<r, c>> \in Rows \X Rows
  <2>1. (r <= Len(files[1]) /\ c <= Len(files[1])) \/ (r <= Len(files[2]) /\ c <= Len(files[2]))
    BY <1>1, <1>2, InText
  <2>p. PICK u, v : u = Len(files[1]) /\ v = Len(files[2])
    OBVIOUS
  <2>2. u \in Nat /\ v \in Nat /\ Rows = 0..(u + v)
    BY <1>1, <2>p DEF Rows
  <2>3. r \in 0..(u + v) /\ c \in 0..(u + v)
    <3>1. (r <= u /\ c <= u) \/ (r <= v /\ c <= v)
      BY <2>p, <2>1
    <3> QED BY <2>2, <3>1
  <2> QED BY <2>2, <2>3
<1>3. <<r, c>>[1] = r /\ <<r, c>>[2] = c
    OBVIOUS
<1>4. <<r, c>> \in OnScreen <=> <<r, c>> \in Cells /\ r * COLS + c + OFFSET < LIMIT
    BY <1>3 DEF OnScreen, Location
<1>5. <<r, c>> \in Cells <=>
        /\ <<r, c>> \in Rows \X Rows
        /\ \E k \in 1..2 : TextAt(files[k], <<r, c>>[1], <<r, c>>[2]) # "sp"
    BY DEF Cells
<1>6. (\E k \in 1..2 : TextAt(files[k], <<r, c>>[1], <<r, c>>[2]) # "sp") <=>
        TextAt(files[1], r, c) # "sp" \/ TextAt(files[2], r, c) # "sp"
  <2>1. \A k \in 1..2 : k = 1 \/ k = 2
    OBVIOUS
  <2>2. 1 \in 1..2 /\ 2 \in 1..2
    OBVIOUS
  <2> QED BY <1>3, <2>1, <2>2
<1>7. <<r, c>> \in Cells /\ NoWrap => r * COLS + c + OFFSET < 2 * HALF
  <2>1. Location(<<r, c>>) = r * COLS + c + OFFSET
    BY <1>3 DEF Location
  <2>2. <<r, c>> \in Cells /\ NoWrap => Location(<<r, c>>) < 2 * HALF
    BY DEF NoWrap
  <2> QED BY <2>1, <2>2
<1> QED BY <1>2, <1>4, <1>5, <1>6, <1>7

\* With the next cell, if there is one, the cells seen are one more.
LEMMA SeenMore ==
    ASSUME Texts, NEW r \in Nat, NEW c \in Nat
    PROVE  /\ IsFiniteSet(Seen(r, c)) /\ Cardinality(Seen(r, c)) \in Nat
           /\ \A q \in Seen(r, c) : Rank(q) \in 1..Cardinality(Seen(r, c))
           /\ <<r, c>> \notin OnScreen => Seen(r, c + 1) = Seen(r, c)
           /\ <<r, c>> \in OnScreen =>
                /\ Seen(r, c + 1) = Seen(r, c) \cup {<<r, c>>}
                /\ Rank(<<r, c>>) = Cardinality(Seen(r, c)) + 1
                /\ Cardinality(Seen(r, c + 1)) = Cardinality(Seen(r, c)) + 1
<1> DEFINE S == Seen(r, c)
           new == <<r, c>>
           Upon(p) == {q \in OnScreen : q[1] < p[1] \/ (q[1] = p[1] /\ q[2] <= p[2])}
<1>0. IsFiniteSet(S) /\ Cardinality(S) \in Nat /\ OnScreen \subseteq Nat \X Nat
    BY FewCells DEF Seen
<1>p. \A q \in OnScreen : q[1] \in Nat /\ q[2] \in Nat /\ q = <<q[1], q[2]>>
    BY <1>0
<1>1. \A q \in S : Rank(q) \in 1..Cardinality(S)
  <2> SUFFICES ASSUME NEW p \in S PROVE Rank(p) \in 1..Cardinality(S)
    OBVIOUS
  <2>1. p \in OnScreen /\ (p[1] < r \/ (p[1] = r /\ p[2] < c))
    BY DEF Seen
  <2>2. Upon(p) \subseteq S
    <3> SUFFICES ASSUME NEW q \in OnScreen, q[1] < p[1] \/ (q[1] = p[1] /\ q[2] <= p[2])
                 PROVE  q[1] < r \/ (q[1] = r /\ q[2] < c)
      BY DEF Seen
    <3>1. PICK a \in Nat, b \in Nat, d \in Nat, g \in Nat : a = q[1] /\ b = q[2] /\ d = p[1] /\ g = p[2]
      BY <1>p, <2>1
    <3> QED BY <2>1, <3>1
  <2>3. p \in Upon(p)
    BY <1>p, <2>1
  <2>4. Rank(p) = Cardinality(Upon(p))
    BY DEF Rank
  <2> HIDE DEF S, Upon
  <2>5. IsFiniteSet(Upon(p)) /\ Cardinality(Upon(p)) <= Cardinality(S)
    BY <1>0, <2>2, FS_Subset
  <2>6. Cardinality(Upon(p)) \in Nat /\ Cardinality(Upon(p)) # 0
    BY <2>3, <2>5, FS_CardinalityType, FS_EmptySet
  <2> QED BY <1>0, <2>4, <2>5, <2>6
<1>2. ASSUME NEW q \in OnScreen
      PROVE  /\ q \in Seen(r, c + 1) <=> q \in S \/ q = new
             /\ q \in Upon(new) <=> q \in S \/ q = new
  <2>1. PICK a \in Nat, b \in Nat : a = q[1] /\ b = q[2] /\ q = <<a, b>>
    BY <1>p
  <2>2. q = new <=> a = r /\ b = c
    BY <2>1
  <2>3. new[1] = r /\ new[2] = c
    OBVIOUS
  <2>4. /\ q \in Seen(r, c + 1) <=> a < r \/ (a = r /\ b < c + 1)
        /\ q \in S <=> a < r \/ (a = r /\ b < c)
    BY <2>1 DEF Seen
  <2>5. q \in Upon(new) <=> a < r \/ (a = r /\ b <= c)
    BY <2>1, <2>3
  <2> HIDE DEF S, new, Upon
  <2> QED BY <2>2, <2>4, <2>5
<1>3. S \subseteq OnScreen /\ Seen(r, c + 1) \subseteq OnScreen /\ Upon(new) \subseteq OnScreen
    BY DEF Seen
<1>4. new \notin S
    BY DEF Seen
<1>5. Rank(new) = Cardinality(Upon(new))
    BY DEF Rank
<1> HIDE DEF S, new, Upon
<1>6. new \notin OnScreen => Seen(r, c + 1) = S
    BY <1>2, <1>3
<1>7. new \in OnScreen => Seen(r, c + 1) = S \cup {new} /\ Upon(new) = S \cup {new}
    BY <1>2, <1>3
<1>8. Cardinality(S \cup {new}) = Cardinality(S) + 1
    BY <1>0, <1>4, FS_AddElement
<1> QED BY <1>0, <1>1, <1>5, <1>6, <1>7, <1>8 DEF S, new

\* mp1_malloc gives out the elements of the array one after the other.
LEMMA MallocNext ==
    ASSUME NEW m \in Nat,
           \A e \in Elements : IF e <= m THEN block[e].location # 0 ELSE block[e] = Free
    PROVE  mp1_malloc = IF m < POOL THEN m + 1 ELSE NULL
<1> DEFINE free == {e \in Elements : block[e].location = 0}
<1>0. POOL \in Nat
    BY Sizes
<1>1. \A e \in Elements : e \in free <=> e > m
  <2> SUFFICES ASSUME NEW e \in Elements PROVE block[e].location = 0 <=> e > m
    OBVIOUS
  <2>1. e \in Nat
    BY <1>0 DEF Elements
  <2>2. CASE e <= m
    BY <2>1, <2>2
  <2>3. CASE ~(e <= m)
    <3>1. block[e] = Free
      BY <2>3
    <3> QED BY <2>1, <2>3, <3>1, FreeIs
  <2> QED BY <2>2, <2>3
<1>2. mp1_malloc = IF free = {} THEN NULL ELSE CHOOSE e \in free : \A f \in free : e <= f
    BY DEF mp1_malloc
<1>3. free \subseteq Elements
    OBVIOUS
<1> HIDE DEF free
<1>4. CASE ~(m < POOL)
  <2>1. free = {}
    BY <1>0, <1>1, <1>3, <1>4 DEF Elements
  <2> QED BY <1>2, <1>4, <2>1
<1>5. CASE m < POOL
  <2>1. m + 1 \in free /\ \A f \in free : m + 1 <= f
    BY <1>0, <1>1, <1>3, <1>5 DEF Elements
  <2>2. \A e \in free : (\A f \in free : e <= f) => e = m + 1
    <3> SUFFICES ASSUME NEW e \in free, \A f \in free : e <= f PROVE e = m + 1
      OBVIOUS
    <3>1. e <= m + 1 /\ m + 1 <= e /\ e \in Int
      BY <1>0, <1>3, <2>1 DEF Elements
    <3> QED BY <3>1
  <2>3. (CHOOSE e \in free : \A f \in free : e <= f) = m + 1
    BY <2>1, <2>2
  <2> QED BY <1>2, <1>5, <2>1, <2>3
<1> QED BY <1>4, <1>5

\* The cells and their elements depend on the texts only.
LEMMA SameCells ==
    ASSUME files' = files
    PROVE  /\ OnScreen' = OnScreen /\ (Texts <=> Texts') /\ (NoWrap <=> NoWrap')
           /\ \A r, c : Seen(r, c)' = Seen(r, c)
           /\ \A p : Rank(p)' = Rank(p) /\ Element(p)' = Element(p)
<1>1. OnScreen' = OnScreen
    BY DEF OnScreen, Cells, Rows
<1>2. \A r, c : Seen(r, c)' = Seen(r, c)
    BY <1>1 DEF Seen
<1>3. \A p : Rank(p)' = Rank(p)
    BY <1>1 DEF Rank
<1>4. \A p : Element(p)' = Element(p)
    BY <1>3 DEF Element
<1>5. NoWrap <=> NoWrap'
  <2>1. Cells' = Cells
    BY DEF Cells, Rows
  <2>2. \A p : Location(p)' = Location(p)
    BY DEF Location
  <2> QED BY <2>1, <2>2 DEF NoWrap
<1> QED BY <1>1, <1>2, <1>3, <1>4, <1>5 DEF Texts

\* The array stays filled when nothing is done to it.
LEMMA FilledKept ==
    ASSUME UNCHANGED <<files, head, block>>, NEW S, Filled(S)
    PROVE  Filled(S)'
BY SameCells DEF Filled

\* fish starts with an empty array and unread texts.
LEMMA FramingInit == Init => Framing
<1> SUFFICES ASSUME Init PROVE Framing
    OBVIOUS
<1>1. FTypes /\ rest = files /\ char = <<"0", "0">> /\ eof = <<FALSE, FALSE>> /\ i = 0 /\ row = 0 /\ col = 0
      /\ at \in {0, 1} /\ cur = NULL /\ head = NULL /\ block = [e \in Elements |-> Free]
    BY FishInit DEF Init, BInit, FInv
<1>2. Texts
    BY <1>1 DEF Texts, FTypes
<1>3. eof \in [1..2 -> BOOLEAN] /\ \A k \in 1..2 : eof[k] = FALSE
  <2>1. \A B, z : z \in B => <<z, z>> \in [1..2 -> B] /\ \A k \in 1..2 : <<z, z>>[k] = z
    OBVIOUS
  <2> QED BY <1>1, <2>1
<1>4. Filled(Seen(0, 0))
  <2>1. Seen(0, 0) = {}
    <3>1. \A q \in OnScreen : q[1] \in Nat /\ q[2] \in Nat
      BY <1>2, FewCells
    <3> QED BY <3>1 DEF Seen
  <2>2. Cardinality(Seen(0, 0)) = 0
    BY <2>1, FS_EmptySet
  <2>3. \A e \in Elements : block[e] = Free /\ ~(e <= 0)
    BY <1>1, Sizes DEF Elements
  <2>4. 0 < POOL /\ head = 0
    BY <1>1, Sizes
  <2> QED BY <2>1, <2>2, <2>3, <2>4 DEF Filled
<1>5. ASSUME NEW k \in 1..2 PROVE Along(files[k], rest[k], char[k], eof[k], row, col)
  <2>1. rest[k] = files[k] /\ char[k] = "0" /\ eof[k] = FALSE
    <3>1. rest[k] = files[k] /\ char[k] = "0"
      BY <1>1
    <3> QED BY <1>3, <3>1
  <2>f. PICK f : f = files[k]
    OBVIOUS
  <2>2. Len(f) \in Nat
    BY <1>2, <2>f DEF Texts
  <2>3. Along(f, f, "0", FALSE, 0, 0)
    <3>1. Len(f) - Len(f) = 0
      BY <2>2
    <3>2. Feeds(f, 0) = 0
      BY FeedsOne
    <3> QED BY <2>2, <3>1, <3>2 DEF Along
  <2> QED BY <1>1, <2>1, <2>3, <2>f
<1>6. at \in 0..9 /\ i \in Nat /\ at # 2
    BY <1>1
<1> QED BY <1>1, <1>2, <1>3, <1>4, <1>5, <1>6 DEF Framing

\* What is read of the two texts is what is in the cell.
LEMMA ReadsBoth ==
    ASSUME FTypes, Framing, at = 1, NEW k \in 1..2
    PROVE  /\ files[k] \in Seq(Chars) /\ Len(files[k]) \in Nat
           /\ TextAt(files[k], row, col) = Shown(NewChar(k))
           /\ Along(files[k], NewRest(k), NewChar(k), AtEnd(k), row, col + 1)
           /\ NewChar(k) = "nl" => \A d \in Nat : d >= col => TextAt(files[k], row, d) = "sp"
           /\ NewRest(k) \in Seq(Chars) /\ AtEnd(k) \in BOOLEAN
<1>1. files[k] \in Seq(Chars) /\ rest[k] \in Seq(Chars) /\ eof[k] \in BOOLEAN /\ row \in Nat /\ col \in Nat
  <2>1. k = 1 \/ k = 2
    OBVIOUS
  <2> QED BY <2>1 DEF Framing, Texts, FTypes
<1>2. Along(files[k], rest[k], char[k], eof[k], row, col)
    BY DEF Framing
<1>3. /\ NewChar(k) = ReadChar(rest[k], char[k]) /\ NewRest(k) = ReadRest(rest[k], char[k])
      /\ AtEnd(k) = ReadEnd(rest[k], char[k], eof[k])
    BY <1>1, Zenon DEF NewChar, NewRest, AtEnd, ReadsChar, ReadChar, ReadRest, ReadEnd
<1>4. Len(files[k]) \in Nat
    BY <1>1
<1> QED BY <1>1, <1>2, <1>3, <1>4, ReadsOne

\* The structure that add_frames makes.
LEMMA BlockIs ==
    ASSUME NEW l, NEW c0, NEW c1
    PROVE  /\ FrameBlock(l, c0, c1).location = l /\ FrameBlock(l, c0, c1).on_length = FRAME_LENGTH
           /\ FrameBlock(l, Shown(c0), Shown(c1)) = FrameBlock(l, c0, c1)
<1>1. Shown(Shown(c0)) = Shown(c0) /\ Shown(Shown(c1)) = Shown(c1)
    BY DEF Shown
<1>2. FrameBlock(l, Shown(c0), Shown(c1)) = FrameBlock(l, c0, c1)
    BY <1>1 DEF FrameBlock
<1>3. FrameBlock(l, c0, c1).location = l /\ FrameBlock(l, c0, c1).on_length = FRAME_LENGTH
    BY DEF FrameBlock, Free
<1> QED BY <1>2, <1>3

\* The next character: its cell, if it is one, gets its element.
LEMMA FillsNext ==
    ASSUME BTypeOK, FTypes, Framing, at = 1, FrameChar, NoWrap, NEW T, T = Seen(row, col + 1)
    PROVE  Filled(T)' /\ cur' = NULL
<1>r. PICK r, c : r = row /\ c = col
    OBVIOUS
<1>0. r \in Nat /\ c \in Nat /\ Texts /\ Filled(Seen(r, c)) /\ cur = NULL
    BY <1>r DEF FTypes, Framing
<1>S. PICK S, m : S = Seen(r, c) /\ m = Cardinality(S)
    OBVIOUS
<1>T. T = Seen(r, c + 1)
    BY <1>r
<1>x. PICK x0, x1 : x0 = NewChar(1) /\ x1 = NewChar(2)
    OBVIOUS
<1>l. PICK l : l = r * COLS + c + OFFSET
    OBVIOUS
<1>b. PICK b : b = FrameBlock(l, x0, x1)
    OBVIOUS
<1>1. l \in Nat /\ l # 0
  <2>1. COLS \in Nat /\ OFFSET \in Nat /\ OFFSET > 0
    BY FishAssumption
  <2>2. PICK z \in Nat : z = r * COLS
    BY <1>0, <2>1
  <2> QED BY <1>0, <1>l, <2>1, <2>2
<1>3. TextAt(files[1], r, c) = Shown(x0) /\ TextAt(files[2], r, c) = Shown(x1)
    BY <1>r, <1>x, ReadsBoth
<1>2. IF Shown(x0) # "sp" \/ Shown(x1) # "sp" THEN Add(b) ELSE UNCHANGED bvars
  <2>1. IF Shown(x0) # "sp" \/ Shown(x1) # "sp"
        THEN Add(FrameBlock(Stored(l), x0, x1)) ELSE UNCHANGED bvars
    BY <1>r, <1>x, <1>l DEF FrameChar
  <2>2. Shown(x0) # "sp" \/ Shown(x1) # "sp" => l < 2 * HALF
    BY <1>0, <1>3, <1>l, CellIs
  <2>3. Shown(x0) # "sp" \/ Shown(x1) # "sp" => Stored(l) = l
    BY <1>1, <2>2, StoredIs
  <2> QED BY <1>b, <2>1, <2>3
<1>4. <<r, c>> \in OnScreen <=> (Shown(x0) # "sp" \/ Shown(x1) # "sp") /\ l < LIMIT
    BY <1>0, <1>3, <1>l, CellIs
<1>5. /\ m \in Nat /\ IsFiniteSet(S) /\ \A q \in S : Rank(q) \in 1..m
      /\ <<r, c>> \notin OnScreen => T = S
      /\ <<r, c>> \in OnScreen => /\ T = S \cup {<<r, c>>} /\ Rank(<<r, c>>) = m + 1
                                  /\ Cardinality(T) = m + 1
    BY <1>0, <1>S, <1>T, SeenMore
<1>6. /\ head = IF m < POOL THEN m ELSE POOL
      /\ \A e \in Elements : IF e <= m THEN block[e].location # 0 ELSE block[e] = Free
      /\ \A p \in S : Rank(p) <= POOL => block[Rank(p)] = Element(p)
    BY <1>0, <1>S DEF Filled
<1>7. mp1_malloc = IF m < POOL THEN m + 1 ELSE NULL
    BY <1>5, <1>6, MallocNext
<1>8. b.location = l /\ b.on_length = FRAME_LENGTH
    BY <1>b, BlockIs
<1>9. POOL \in Nat /\ NULL = 0 /\ Elements = 1..POOL
    BY Sizes DEF Elements
<1>10. files' = files
    BY DEF FrameChar
<1>11. ASSUME UNCHANGED bvars, m >= POOL \/ T = S PROVE Filled(T)' /\ cur' = NULL
  <2>1. UNCHANGED <<files, head, block>> /\ cur' = NULL
    BY <1>0, <1>10, <1>11 DEF bvars
  <2>2. CASE T = S
    BY <1>0, <1>S, <2>1, <2>2, FilledKept
  <2>3. CASE T # S
    <3>1. m >= POOL /\ T = S \cup {<<r, c>>} /\ Rank(<<r, c>>) = m + 1 /\ Cardinality(T) = m + 1
      BY <1>5, <1>11, <2>3
    <3>2. head = IF Cardinality(T) < POOL THEN Cardinality(T) ELSE POOL
      BY <1>5, <1>6, <1>9, <3>1
    <3>3. \A e \in Elements : IF e <= Cardinality(T) THEN block[e].location # 0 ELSE block[e] = Free
      <4> SUFFICES ASSUME NEW e \in Elements
                   PROVE  e <= Cardinality(T) /\ block[e].location # 0
        OBVIOUS
      <4>1. e <= m /\ e <= Cardinality(T)
        BY <1>5, <1>9, <3>1
      <4> QED BY <1>6, <4>1
    <3>4. \A p \in T : Rank(p) <= POOL => block[Rank(p)] = Element(p)
      <4> SUFFICES ASSUME NEW p \in T, Rank(p) <= POOL PROVE block[Rank(p)] = Element(p)
        OBVIOUS
      <4>1. p \in S
        BY <1>5, <1>9, <3>1
      <4> QED BY <1>6, <4>1
    <3>5. Filled(T)
      BY <3>2, <3>3, <3>4 DEF Filled
    <3> QED BY <2>1, <3>5, FilledKept
  <2> QED BY <2>1, <2>2, <2>3
<1>12. CASE <<r, c>> \notin OnScreen
  <2>1. UNCHANGED bvars
    <3>1. CASE Shown(x0) # "sp" \/ Shown(x1) # "sp"
      <4>1. ~InRange(b)
        BY <1>4, <1>8, <1>12, <3>1 DEF InRange
      <4> QED BY <1>2, <3>1, <4>1 DEF Add, AddRefused, mp1_ioctl_add
    <3>2. CASE ~(Shown(x0) # "sp" \/ Shown(x1) # "sp")
      BY <1>2, <3>2
    <3> QED BY <3>1, <3>2
  <2> QED BY <1>5, <1>11, <1>12, <2>1
<1>13. CASE <<r, c>> \in OnScreen /\ ~(m < POOL)
  <2>1. mp1_malloc = NULL /\ m >= POOL
    BY <1>5, <1>7, <1>9, <1>13
  <2>2. UNCHANGED bvars
    BY <1>2, <1>4, <1>13, <2>1 DEF Add, AddRefused, mp1_ioctl_add
  <2> QED BY <1>11, <2>1, <2>2
<1>14. CASE <<r, c>> \in OnScreen /\ m < POOL
  <2>n. PICK n, new : n = m + 1 /\ new = <<r, c>>
    OBVIOUS
  <2>0. n \in Elements /\ n # NULL /\ mp1_malloc = n /\ n <= POOL
    BY <1>5, <1>7, <1>9, <1>14, <2>n
  <2>1. /\ block' = [block EXCEPT ![n] = [b EXCEPT !.status = 1, !.countdown = b.on_length, !.next = head]]
        /\ head' = n /\ cur' = cur
    <3>1. Add(b) /\ InRange(b)
      BY <1>2, <1>4, <1>8, <1>14 DEF InRange
    <3>2. mp1_ioctl_add(b)
      BY <2>0, <3>1 DEF Add, AddRefused
    <3> QED BY <2>0, <3>2 DEF mp1_ioctl_add
  <2>2. head = m
    BY <1>6, <1>14
  <2>e. PICK nb : nb = [b EXCEPT !.status = 1, !.countdown = FRAME_LENGTH, !.next = m]
    OBVIOUS
  <2>3. block' = [block EXCEPT ![n] = nb]
    BY <1>8, <2>1, <2>2, <2>e
  <2>4. T = S \cup {new} /\ Rank(new) = n /\ Cardinality(T) = n
    BY <1>5, <1>14, <2>n
  <2>5. nb = Element(new)
    <3>1. new[1] = r /\ new[2] = c /\ Location(new) = l
      BY <1>l, <2>n DEF Location
    <3>2. FrameBlock(l, Shown(x0), Shown(x1)) = b
      BY <1>b, BlockIs
    <3>3. n - 1 = m
      BY <1>5, <2>n
    <3>4. Element(new) = [b EXCEPT !.status = 1, !.countdown = FRAME_LENGTH, !.next = m]
      BY <1>3, <2>4, <3>1, <3>2, <3>3 DEF Element
    <3> QED BY <2>e, <3>4
  <2>6. nb.location # 0
    <3>1. b.location = l /\ l # 0
      BY <1>1, <1>8
    <3>2. nb.location = b.location
      <4>1. DOMAIN b = DOMAIN Free /\ "location" \in DOMAIN Free
        BY <1>b DEF FrameBlock, Free
      <4> QED BY <2>e, <4>1
    <3> QED BY <3>1, <3>2
  <2>7. block'[n] = nb /\ \A e \in Elements \ {n} : block'[e] = block[e]
    BY <2>0, <2>3 DEF BTypeOK
  <2>8. head' = IF n < POOL THEN n ELSE POOL
    BY <1>9, <2>0, <2>1
  <2>9. ASSUME NEW e \in Elements
        PROVE  IF e <= n THEN block'[e].location # 0 ELSE block'[e] = Free
    <3>1. CASE e = n
      BY <1>9, <2>0, <2>6, <2>7, <3>1
    <3>2. CASE e # n
      <4>1. block'[e] = block[e] /\ (e <= n <=> e <= m)
        BY <1>5, <1>9, <2>7, <2>n, <3>2
      <4> QED BY <1>6, <4>1
    <3> QED BY <3>1, <3>2
  <2>10. ASSUME NEW p \in T, Rank(p) <= POOL PROVE block'[Rank(p)] = Element(p)
    <3>1. CASE p = new
      BY <2>4, <2>5, <2>7, <3>1
    <3>2. CASE p # new
      <4>1. p \in S /\ Rank(p) \in 1..m
        BY <1>5, <2>4, <3>2
      <4>2. Rank(p) \in Elements \ {n}
        BY <1>5, <1>9, <1>14, <2>n, <4>1
      <4>3. block'[Rank(p)] = block[Rank(p)]
        BY <2>7, <4>2
      <4> QED BY <1>6, <2>10, <4>1, <4>3
    <3> QED BY <3>1, <3>2
  <2>11. \A p : Rank(p)' = Rank(p) /\ Element(p)' = Element(p)
    BY <1>10, SameCells
  <2>12. Filled(T)'
    BY <2>4, <2>8, <2>9, <2>10, <2>11 DEF Filled
  <2> QED BY <1>0, <2>1, <2>12
<1> QED BY <1>12, <1>13, <1>14

\* A row has no more cells when both its lines have ended, and the screen has
\* none when both texts have.
LEMMA RowOver ==
    ASSUME Texts, NEW r \in Nat, NEW c \in Nat,
           \A k \in 1..2, d \in Nat : d >= c => TextAt(files[k], r, d) = "sp"
    PROVE  /\ Seen(r + 1, 0) = Seen(r, c)
           /\ (\A k \in 1..2 : Feeds(files[k], Len(files[k])) <= r) => OnScreen = Seen(r, c)
<1>1. ASSUME NEW q \in OnScreen
      PROVE  /\ q[1] \in Nat /\ q[2] \in Nat
             /\ \E k \in 1..2 : TextAt(files[k], q[1], q[2]) # "sp"
    BY FewCells DEF OnScreen, Cells
<1>2. ASSUME NEW q \in OnScreen PROVE ~(q[1] = r /\ q[2] >= c)
    BY <1>1
<1>3. Seen(r + 1, 0) = Seen(r, c)
  <2> SUFFICES ASSUME NEW q \in OnScreen
               PROVE  q[1] < r + 1 \/ (q[1] = r + 1 /\ q[2] < 0) <=> q[1] < r \/ (q[1] = r /\ q[2] < c)
    BY DEF Seen
  <2>1. PICK a, b : a = q[1] /\ b = q[2]
    OBVIOUS
  <2>2. a \in Nat /\ b \in Nat /\ ~(a = r /\ b >= c)
    BY <1>1, <1>2, <2>1
  <2>3. a < r + 1 \/ (a = r + 1 /\ b < 0) <=> a < r \/ (a = r /\ b < c)
    BY <2>2
  <2> QED BY <2>1, <2>3
<1>4. ASSUME \A k \in 1..2 : Feeds(files[k], Len(files[k])) <= r PROVE OnScreen = Seen(r, c)
  <2> SUFFICES ASSUME NEW q \in OnScreen PROVE q[1] < r \/ (q[1] = r /\ q[2] < c)
    BY DEF Seen
  <2>1. PICK a, b : a = q[1] /\ b = q[2]
    OBVIOUS
  <2>2. a \in Nat /\ b \in Nat /\ ~(a = r /\ b >= c)
    BY <1>1, <1>2, <2>1
  <2>3. PICK k \in 1..2 : TextAt(files[k], a, b) # "sp"
    BY <1>1, <2>1
  <2>4. Len(files[k]) \in Nat
    <3>1. k = 1 \/ k = 2
      OBVIOUS
    <3> QED BY <3>1 DEF Texts
  <2>5. ~(a > r)
    BY <1>4, <2>2, <2>3, <2>4, NoRow
  <2>6. a < r \/ (a = r /\ b < c)
    BY <2>2, <2>5
  <2> QED BY <2>1, <2>6
<1> QED BY <1>3, <1>4

\* The places in the script of main.
LEMMA ScriptIs ==
    ASSUME at \in 0..9
    PROVE  /\ Len(Script) = 9 /\ (Doing("frames") <=> at = 1)
           /\ Doing("wait") => at \in {2, 4, 6, 8}
           /\ Doing("add") => at = 3
           /\ Doing("sync") => at = 5
           /\ Doing("remove") => at = 7
<1>1. /\ Len(Script) = 9 /\ Script[1] = "frames" /\ Script[2] = "wait" /\ Script[3] = "add" /\ Script[4] = "wait"
      /\ Script[5] = "sync" /\ Script[6] = "wait" /\ Script[7] = "remove" /\ Script[8] = "wait" /\ Script[9] = "done"
    BY DEF Script
<1>2. at = 0 \/ at = 1 \/ at = 2 \/ at = 3 \/ at = 4 \/ at = 5 \/ at = 6 \/ at = 7 \/ at = 8 \/ at = 9
    OBVIOUS
<1> HIDE DEF Script
<1> QED BY <1>1, <1>2 DEF Doing

\* Outside add_frames and the moment after it there is nothing to keep.
LEMMA Elsewhere ==
    ASSUME Framing, UNCHANGED <<files, eof>>, at' \in 0..9, i' \in Nat, at' # 1, ~(at' = 2 /\ i' = 0)
    PROVE  Framing'
BY SameCells DEF Framing

\* Every step of add_frames keeps the frames.
LEMMA CharKeeps ==
    ASSUME BTypeOK, FTypes, Framing, FrameChar
    PROVE  Framing'
<1>0. at = 1 /\ at' = 1 /\ i = 0 /\ i' = 0 /\ files' = files /\ row' = row /\ col' = col + 1
    BY ScriptIs DEF Framing, FrameChar
<1>1. /\ char' = [k \in 1..2 |-> NewChar(k)] /\ eof' = [k \in 1..2 |-> AtEnd(k)]
      /\ rest' = [k \in 1..2 |-> NewRest(k)]
    BY DEF FrameChar
<1>2. PICK T : T = Seen(row, col + 1)
    OBVIOUS
<1>3. Filled(T)' /\ cur' = NULL
  <2>1. CASE NoWrap
    BY <1>0, <1>2, <2>1, FillsNext
  <2>2. CASE ~NoWrap
    <3>1. cur' = cur
      BY DEF FrameChar, Add, mp1_ioctl_add, AddRefused, bvars
    <3>2. ~NoWrap'
      BY <1>0, <2>2, SameCells
    <3> QED BY <1>0, <3>1, <3>2 DEF Framing, Filled
  <2> QED BY <2>1, <2>2
<1>4. Seen(row, col)' = T
    BY <1>0, <1>2 DEF Seen, OnScreen, Cells, Rows
<1>5. ASSUME NEW k \in 1..2 PROVE Along(files[k], rest[k], char[k], eof[k], row, col)'
  <2>1. Along(files[k], NewRest(k), NewChar(k), AtEnd(k), row, col + 1)
    BY <1>0, ReadsBoth
  <2>2. char'[k] = NewChar(k) /\ eof'[k] = AtEnd(k) /\ rest'[k] = NewRest(k)
    BY <1>1
  <2> QED BY <1>0, <2>1, <2>2
<1>6. eof' \in [1..2 -> BOOLEAN]
    BY <1>0, <1>1, ReadsBoth
<1>7. Texts'
    BY <1>0, SameCells DEF Framing
<1> QED BY <1>0, <1>3, <1>4, <1>5, <1>6, <1>7 DEF Framing

\* And the end of a row does.
LEMMA RowKeeps ==
    ASSUME FTypes, Framing, FrameRow
    PROVE  Framing'
<1>r. PICK r, c : r = row /\ c = col
    OBVIOUS
<1>0. /\ at = 1 /\ i = 0 /\ i' = 0 /\ files' = files /\ row' = r + 1 /\ col' = 0 /\ UNCHANGED bvars
      /\ r \in Nat /\ c \in Nat /\ Texts /\ Filled(Seen(r, c)) /\ cur = NULL
    BY <1>r, ScriptIs DEF Framing, FrameRow, FTypes
<1>1. /\ char' = [k \in 1..2 |-> IF eof'[k] THEN "nl" ELSE "0"] /\ eof' = [k \in 1..2 |-> AtEnd(k)]
      /\ rest' = [k \in 1..2 |-> NewRest(k)]
      /\ \A k \in 1..2 : NewChar(k) = "nl"
      /\ at' = IF eof'[1] /\ eof'[2] THEN at + 1 ELSE at
    BY DEF FrameRow
<1>2. ASSUME NEW k \in 1..2
      PROVE  /\ Len(files[k]) \in Nat /\ Along(files[k], NewRest(k), "nl", AtEnd(k), r, c + 1)
             /\ NewRest(k) \in Seq(Chars) /\ AtEnd(k) \in BOOLEAN
             /\ \A d \in Nat : d >= c => TextAt(files[k], r, d) = "sp"
  <2>1. NewChar(k) = "nl"
    BY <1>1
  <2> QED BY <1>0, <1>r, <2>1, ReadsBoth
<1>3. eof' \in [1..2 -> BOOLEAN] /\ \A k \in 1..2 : eof'[k] = AtEnd(k) /\ rest'[k] = NewRest(k)
    BY <1>1, <1>2
<1>4. ASSUME NEW k \in 1..2 PROVE Along(files[k], rest[k], char[k], eof[k], row, col)'
  <2>1. Len(NewRest(k)) \in Nat /\ c + 1 \in Nat
    BY <1>0, <1>2
  <2>2. Along(files[k], NewRest(k), IF AtEnd(k) THEN "nl" ELSE "0", AtEnd(k), r + 1, 0)
    BY <1>0, <1>2, <2>1, NextRow
  <2>3. char'[k] = IF AtEnd(k) THEN "nl" ELSE "0"
    BY <1>1, <1>3
  <2> QED BY <1>0, <1>3, <2>2, <2>3
<1>5. /\ Seen(r + 1, 0) = Seen(r, c)
      /\ (\A k \in 1..2 : Feeds(files[k], Len(files[k])) <= r) => OnScreen = Seen(r, c)
    BY <1>0, <1>2, RowOver
<1>S. PICK S : S = Seen(r, c)
    OBVIOUS
<1>6. Filled(S)' /\ cur' = NULL
  <2>1. UNCHANGED <<files, head, block>> /\ cur' = NULL
    BY <1>0 DEF bvars
  <2> QED BY <1>0, <1>S, <2>1, FilledKept
<1>7. Texts' /\ OnScreen' = OnScreen
    BY <1>0, SameCells
<1>8. CASE AtEnd(1) /\ AtEnd(2)
  <2>1. at' = 2
    BY <1>0, <1>1, <1>3, <1>8
  <2>2. \A k \in 1..2 : Feeds(files[k], Len(files[k])) <= r
    <3> SUFFICES ASSUME NEW k \in 1..2 PROVE Feeds(files[k], Len(files[k])) <= r
      OBVIOUS
    <3>1. AtEnd(k)
      <4>1. k = 1 \/ k = 2
        OBVIOUS
      <4> QED BY <1>8, <4>1
    <3> QED BY <1>2, <3>1 DEF Along
  <2>3. OnScreen' = S
    BY <1>5, <1>7, <1>S, <2>2
  <2>4. Filled(OnScreen)'
    BY <1>6, <2>3
  <2>5. at' \in 0..9 /\ at' # 1
    BY <2>1
  <2> QED BY <1>0, <1>3, <1>6, <1>7, <2>4, <2>5 DEF Framing
<1>9. CASE ~(AtEnd(1) /\ AtEnd(2))
  <2>1. at' = 1
    BY <1>0, <1>1, <1>3, <1>9
  <2>2. Seen(row, col)' = S
    <3>1. Seen(row, col)' = Seen(r + 1, 0)
      BY <1>0, <1>7 DEF Seen
    <3> QED BY <1>5, <1>S, <3>1
  <2>3. Filled(Seen(row, col))'
    BY <1>6, <2>2
  <2>4. at' \in 0..9 /\ at' # 2
    BY <2>1
  <2> QED BY <1>0, <1>3, <1>4, <1>6, <1>7, <2>1, <2>3, <2>4 DEF Framing
<1> QED BY <1>8, <1>9

\* Every step of fish and of any other program keeps the frames.
LEMMA FramingNext ==
    ASSUME FInv, Framing, [Next]_vars
    PROVE  Framing'
<1>0. BTypeOK /\ FTypes /\ at \in 0..9 /\ i \in Nat
    BY DEF FInv, BInv, Framing
<1>1. ASSUME SetupFails PROVE Framing'
  <2>1. at' = 9 /\ UNCHANGED <<files, eof, i>>
    BY <1>0, <1>1, ScriptIs DEF SetupFails
  <2> QED BY <1>0, <2>1, Elsewhere
<1>2. ASSUME FrameChar PROVE Framing'
    BY <1>0, <1>2, CharKeeps
<1>3. ASSUME FrameRow PROVE Framing'
    BY <1>0, <1>3, RowKeeps
<1>4. ASSUME WaitTick PROVE Framing'
  <2>1. at' = at /\ at \in {2, 4, 6, 8} /\ i' = i + 1 /\ UNCHANGED <<files, eof>>
    BY <1>0, <1>4, ScriptIs DEF WaitTick, Keep
  <2>2. at' \in 0..9 /\ at' # 1 /\ i' \in Nat /\ i' # 0
    BY <1>0, <2>1
  <2> QED BY <2>1, <2>2, Elsewhere
<1>5. ASSUME WaitOver \/ MainAdd \/ MainSync \/ MainRemove PROVE Framing'
  <2>1. at \in 2..8 /\ at' = at + 1 /\ i' = 0 /\ UNCHANGED <<files, eof>>
    <3>1. Advance /\ (Doing("wait") \/ Doing("add") \/ Doing("sync") \/ Doing("remove"))
      BY <1>5 DEF WaitOver, MainAdd, MainSync, MainRemove
    <3>2. at \in {2, 4, 6, 8, 3, 5, 7}
      BY <1>0, <3>1, ScriptIs
    <3> QED BY <3>1, <3>2 DEF Advance, Keep
  <2>2. at' \in 0..9 /\ at' # 1 /\ at' # 2 /\ i' \in Nat
    BY <2>1
  <2> QED BY <2>1, <2>2, Elsewhere
<1>6. ASSUME Tasklet \/ Client PROVE Framing'
  <2>1. UNCHANGED fvars /\ (cur # NULL \/ at = 0)
    BY <1>6 DEF Tasklet, Client, TaskletStep
  <2>2. at # 1 /\ ~(at = 2 /\ i = 0)
    BY <2>1 DEF Framing
  <2>3. UNCHANGED <<files, eof, at, i>>
    BY <2>1 DEF fvars
  <2>4. at' \in 0..9 /\ i' \in Nat /\ at' # 1 /\ ~(at' = 2 /\ i' = 0)
    BY <1>0, <2>2, <2>3
  <2> QED BY <2>3, <2>4, Elsewhere
<1>7. CASE UNCHANGED vars
  <2>1. UNCHANGED <<files, rest, char, eof, row, col, at, i, head, block, cur>>
    BY <1>7 DEF vars, bvars, fvars
  <2>r. PICK r, c : r = row /\ c = col
    OBVIOUS
  <2>S. PICK S, T : S = Seen(r, c) /\ T = OnScreen
    OBVIOUS
  <2>2. Seen(row, col)' = S /\ OnScreen' = T
    BY <2>1, <2>r, <2>S, SameCells
  <2>3. (Filled(S) => Filled(S)') /\ (Filled(T) => Filled(T)')
    BY <2>1, FilledKept
  <2>4. Texts'
    BY <2>1, SameCells DEF Framing
  <2>5. /\ at' = 1 => /\ i' = 0 /\ cur' = NULL /\ Filled(Seen(row, col))'
                      /\ \A k \in 1..2 : Along(files[k], rest[k], char[k], eof[k], row, col)'
        /\ at' = 2 /\ i' = 0 => cur' = NULL /\ Filled(OnScreen)'
    BY <2>1, <2>2, <2>3, <2>r, <2>S DEF Framing
  <2> QED BY <2>1, <2>4, <2>5 DEF Framing
<1> QED BY <1>1, <1>2, <1>3, <1>4, <1>5, <1>6, <1>7 DEF Next

\* The frames are kept in every behaviour.
LEMMA FramingHolds == Spec => []Framing
<1>1. FInv /\ Framing /\ [Next]_vars => Framing'
    BY FramingNext
<1> QED BY <1>1, FramingInit, FishInvariance, PTL DEF Spec

\* add_frames makes exactly one element for every cell of the screen where one
\* of the two texts has a visible character, with the characters of both, for
\* every size of the screen, of the array and of the word that holds a location,
\* and every two texts whose places fit that word (fish.c 78-148).
THEOREM FramesTrue == Spec => []FramesShown
<1>1. Framing => FramesShown
  <2> SUFFICES ASSUME Framing, NoWrap PROVE CellsShown
    BY DEF FramesShown
  <2> SUFFICES ASSUME at = 2, i = 0, NEW e \in Elements
               PROVE  /\ \A p \in OnScreen : Rank(p) = e =>
                           block[e] = [FrameBlock(Location(p), TextAt(files[1], p[1], p[2]),
                                                  TextAt(files[2], p[1], p[2]))
                                        EXCEPT !.status = 1, !.countdown = FRAME_LENGTH, !.next = e - 1]
                      /\ e > Cardinality(OnScreen) => block[e] = Free
    BY DEF CellsShown
  <2>1. Filled(OnScreen) /\ Cardinality(OnScreen) \in Nat /\ e \in Nat /\ e <= POOL
    BY FewCells, Sizes DEF Framing, Elements
  <2>2. ASSUME NEW p \in OnScreen, Rank(p) = e
        PROVE  block[e] = [FrameBlock(Location(p), TextAt(files[1], p[1], p[2]),
                                      TextAt(files[2], p[1], p[2]))
                             EXCEPT !.status = 1, !.countdown = FRAME_LENGTH, !.next = e - 1]
    BY <2>1, <2>2 DEF Filled, Element
  <2>3. e > Cardinality(OnScreen) => block[e] = Free
    BY <2>1 DEF Filled
  <2> QED BY <2>2, <2>3
<1> QED BY <1>1, FramingHolds, PTL

-----------------------------------------------------------------------------
(* grep: the lines of a text                                                 *)

\* The lines with the word that end by position b.
Upto(t, b) == {l \in Hits(t) : l[2] <= b}

\* Between two feeds there is one line, and every line that ends by the second
\* one ends by the first one or is this.
LEMMA LineAfter ==
  ASSUME NEW t, Len(t) \in Nat, NEW a \in 0..Len(t), NEW b \in 1..(Len(t) + 1), a < b,
         Feed(t, a), Feed(t, b), \A j \in (a + 1)..(b - 1) : ~Feed(t, j)
  PROVE  /\ <<a, b>> \in Lines(t)
         /\ \A l \in Lines(t) : l[2] <= b => l[2] <= a \/ l = <<a, b>>
<1>1. <<a, b>> \in Lines(t)
    BY DEF Lines
<1>2. ASSUME NEW l \in Lines(t), l[2] <= b, ~(l[2] <= a) PROVE l = <<a, b>>
  <2> DEFINE x == l[1]
             y == l[2]
  <2>1. /\ l = <<x, y>> /\ x \in 0..Len(t) /\ y \in 1..(Len(t) + 1) /\ x < y
        /\ Feed(t, x) /\ Feed(t, y) /\ \A j \in (x + 1)..(y - 1) : ~Feed(t, j)
    BY DEF Lines
  <2>2. y <= b /\ ~(y <= a)
    BY <1>2
  <2> HIDE DEF x, y
  <2>3. y = b
    <3>1. y \in (a + 1)..(b - 1) \/ y = b
      BY <2>1, <2>2
    <3> QED BY <2>1, <3>1
  <2>4. x = a
    <3>1. x \in (a + 1)..(b - 1) \/ x = a \/ a \in (x + 1)..(y - 1)
      BY <2>1, <2>3
    <3> QED BY <2>1, <3>1
  <2> QED BY <2>1, <2>3, <2>4
<1> QED BY <1>1, <1>2

\* From every position there is a next feed.
LEMMA NextFeed ==
  ASSUME NEW t, Len(t) \in Nat, DOMAIN t = 1..Len(t), NEW a \in 0..Len(t)
  PROVE  \E b \in (a + 1)..(Len(t) + 1) : Feed(t, b) /\ \A j \in (a + 1)..(b - 1) : ~Feed(t, j)
<1> DEFINE S == {j \in (a + 1)..(Len(t) + 1) : Feed(t, j)}
<1>1. S \subseteq Nat
    OBVIOUS
<1>2. Len(t) + 1 \in S
    BY DEF Feed
<1>3. PICK b \in S : \A j \in S : b <= j
  <2> HIDE DEF S
  <2> QED BY <1>1, <1>2, LeastNat
<1>4. ASSUME NEW j \in (a + 1)..(b - 1) PROVE ~Feed(t, j)
  <2>1. j \in (a + 1)..(Len(t) + 1) /\ ~(b <= j)
    BY <1>1
  <2> QED BY <1>3, <2>1
<1> QED BY <1>3, <1>4

\* Sequences of anything.
Sequence(p) == \E S : p \in Seq(S)

\* A sequence with one more at its end.
LEMMA OneMore ==
  ASSUME NEW p, Sequence(p), NEW x
  PROVE  /\ Sequence(Append(p, x)) /\ Len(p) \in Nat /\ Len(Append(p, x)) = Len(p) + 1
         /\ \A k \in 1..Len(p) : Append(p, x)[k] = p[k]
         /\ Append(p, x)[Len(p) + 1] = x
<1>1. PICK S : p \in Seq(S)
    BY DEF Sequence
<1>2. p \in Seq(S \cup {x})
    BY <1>1
<1>3. Append(p, x) \in Seq(S \cup {x})
    BY <1>2
<1>4. /\ Len(p) \in Nat /\ Len(Append(p, x)) = Len(p) + 1
      /\ \A k \in 1..Len(p) : Append(p, x)[k] = p[k]
      /\ Append(p, x)[Len(p) + 1] = x
    BY <1>2
<1> QED BY <1>3, <1>4 DEF Sequence

\* The lines up to a feed are those up to the feed before and the one between.
LEMMA OneLineMore ==
  ASSUME NEW t, Len(t) \in Nat, NEW a \in 0..Len(t), NEW b \in 1..(Len(t) + 1), a < b,
         Feed(t, a), Feed(t, b), \A j \in (a + 1)..(b - 1) : ~Feed(t, j)
  PROVE  Upto(t, b) = Upto(t, a) \cup (IF HasWord(t, <<a, b>>) THEN {<<a, b>>} ELSE {})
<1>1. /\ <<a, b>> \in Lines(t)
      /\ \A l \in Lines(t) : l[2] <= b => l[2] <= a \/ l = <<a, b>>
    BY LineAfter
<1>2. \A l \in Lines(t) : l[2] \in Int
    BY DEF Lines
<1>3. ASSUME NEW l \in Upto(t, b)
      PROVE  l \in Upto(t, a) \cup (IF HasWord(t, <<a, b>>) THEN {<<a, b>>} ELSE {})
  <2>1. l \in Lines(t) /\ HasWord(t, l) /\ l[2] <= b
    BY DEF Upto, Hits
  <2>2. CASE l[2] <= a
    BY <2>1, <2>2 DEF Upto, Hits
  <2>3. CASE l = <<a, b>>
    BY <2>1, <2>3
  <2> QED BY <1>1, <2>1, <2>2, <2>3
<1>4. ASSUME NEW l \in Upto(t, a) PROVE l \in Upto(t, b)
  <2>1. l \in Hits(t) /\ l[2] <= a /\ l[2] \in Int
    BY <1>2 DEF Upto, Hits
  <2>2. l[2] <= b
    BY <2>1
  <2> QED BY <2>1, <2>2 DEF Upto
<1>5. HasWord(t, <<a, b>>) => <<a, b>> \in Upto(t, b)
    BY <1>1 DEF Upto, Hits
<1> QED BY <1>3, <1>4, <1>5

\* With the next line, if it has the word, the strings are those up to its end.
LEMMA PrintsNext ==
  ASSUME NEW t, Len(t) \in Nat, NEW a \in 0..Len(t), NEW b \in 1..(Len(t) + 1), a < b,
         Feed(t, a), Feed(t, b), \A j \in (a + 1)..(b - 1) : ~Feed(t, j),
         NEW p, Sequence(p), InOrder(p, t, Upto(t, a)),
         NEW q, q = IF HasWord(t, <<a, b>>) THEN Append(p, Line(t, <<a, b>>)) ELSE p
  PROVE  InOrder(q, t, Upto(t, b))
<1>1. Upto(t, b) = Upto(t, a) \cup (IF HasWord(t, <<a, b>>) THEN {<<a, b>>} ELSE {})
    BY OneLineMore
<1>2. CASE ~HasWord(t, <<a, b>>)
    BY <1>1, <1>2
<1>3. CASE HasWord(t, <<a, b>>)
  <2> DEFINE n == Len(p)
             w == Line(t, <<a, b>>)
             new == <<a, b>>
  <2>1. /\ n \in Nat /\ Len(q) = n + 1 /\ q[n + 1] = w
        /\ \A k \in 1..n : q[k] = p[k]
    BY <1>3, OneMore
  <2>2. PICK f \in [1..n -> Upto(t, a)] :
               /\ \A j, k \in 1..n : j < k => f[j][2] < f[k][2]
               /\ \A l \in Upto(t, a) : \E k \in 1..n : f[k] = l
               /\ \A k \in 1..n : p[k] = Line(t, f[k])
    BY DEF InOrder
  <2> DEFINE g == [k \in 1..(n + 1) |-> IF k <= n THEN f[k] ELSE new]
  <2>3. Upto(t, b) = Upto(t, a) \cup {new}
    BY <1>1, <1>3
  <2>4. \A l \in Upto(t, a) : l[2] \in Int /\ l[2] <= a
    BY DEF Upto, Hits, Lines
  <2>5. new[2] = b
    OBVIOUS
  <2> HIDE DEF n, w
  <2>6. /\ \A k \in 1..n : g[k] = f[k] /\ g[k] \in Upto(t, a)
        /\ g[n + 1] = new
    BY <2>1
  <2>7. g \in [1..(n + 1) -> Upto(t, b)]
    BY <2>1, <2>3
  <2> HIDE DEF g
  <2>8. \A j, k \in 1..(n + 1) : j < k => g[j][2] < g[k][2]
    <3> SUFFICES ASSUME NEW j \in 1..(n + 1), NEW k \in 1..(n + 1), j < k
                 PROVE  g[j][2] < g[k][2]
      OBVIOUS
    <3>1. CASE k <= n
      <4>1. j \in 1..n /\ k \in 1..n
        BY <2>1, <3>1
      <4>2. g[j] = f[j] /\ g[k] = f[k]
        BY <2>6, <4>1
      <4> QED BY <2>2, <4>1, <4>2
    <3>2. CASE ~(k <= n)
      <4>1. k = n + 1 /\ j \in 1..n
        BY <2>1, <3>2
      <4>2. g[j] \in Upto(t, a) /\ g[k] = new
        BY <2>6, <4>1
      <4>3. g[j][2] \in Int /\ g[j][2] <= a
        BY <2>4, <4>2
      <4> QED BY <2>5, <4>2, <4>3
    <3> QED BY <3>1, <3>2
  <2>9. \A l \in Upto(t, b) : \E k \in 1..(n + 1) : g[k] = l
    <3> SUFFICES ASSUME NEW l \in Upto(t, b) PROVE \E k \in 1..(n + 1) : g[k] = l
      OBVIOUS
    <3>1. CASE l = new
      BY <2>1, <2>6, <3>1
    <3>2. CASE l \in Upto(t, a)
      <4>1. PICK k \in 1..n : f[k] = l
        BY <2>2, <3>2
      <4>2. k \in 1..(n + 1) /\ g[k] = l
        BY <2>1, <2>6, <4>1
      <4> QED BY <4>2
    <3> QED BY <2>3, <3>1, <3>2
  <2>10. \A k \in 1..(n + 1) : q[k] = Line(t, g[k])
    <3> SUFFICES ASSUME NEW k \in 1..(n + 1) PROVE q[k] = Line(t, g[k])
      OBVIOUS
    <3>1. CASE k \in 1..n
      BY <2>1, <2>2, <2>6, <3>1
    <3>2. CASE k = n + 1
      BY <2>1, <2>6, <3>2 DEF w
    <3> QED BY <2>1, <3>1, <3>2
  <2>11. /\ g \in [1..Len(q) -> Upto(t, b)]
         /\ \A j, k \in 1..Len(q) : j < k => g[j][2] < g[k][2]
         /\ \A l \in Upto(t, b) : \E k \in 1..Len(q) : g[k] = l
         /\ \A k \in 1..Len(q) : q[k] = Line(t, g[k])
    <3>1. Len(q) = n + 1
      BY <2>1
    <3> QED BY <2>7, <2>8, <2>9, <2>10, <3>1, Zenon
  <2> QED BY <2>11, Zenon DEF InOrder
<1> QED BY <1>2, <1>3

\* Nothing is printed before the first line.
LEMMA PrintsNone ==
  ASSUME NEW t, Len(t) \in Nat
  PROVE  InOrder(<<>>, t, Upto(t, 0)) /\ Sequence(<<>>)
<1>1. Upto(t, 0) = {}
    BY DEF Upto, Hits, Lines
<1>2. Len(<<>>) = 0
    OBVIOUS
<1>3. \E f : f \in [1..0 -> {}]
  <2>1. [k \in 1..0 |-> 0] \in [1..0 -> {}]
    OBVIOUS
  <2> QED BY <2>1
<1>4. InOrder(<<>>, t, {})
  <2>1. PICK f : f \in [1..0 -> {}]
    BY <1>3
  <2>2. \A k \in 1..0 : FALSE
    OBVIOUS
  <2> QED BY <1>2, <2>1, <2>2 DEF InOrder
<1>5. <<>> \in Seq({})
    OBVIOUS
<1> QED BY <1>1, <1>4, <1>5 DEF Sequence

\* After a feed at the very end there is only an empty line.
LEMMA PrintsAll ==
  ASSUME NEW t, Len(t) \in Nat, DOMAIN t = 1..Len(t), NEW p, Len(search) \in Nat \ {0}
  PROVE  /\ InOrder(p, t, Upto(t, Len(t) + 1)) => InOrder(p, t, Hits(t))
         /\ Sequence(p) /\ Feed(t, Len(t)) /\ InOrder(p, t, Upto(t, Len(t)))
              => InOrder(p, t, Hits(t))
<1> DEFINE n == Len(t)
<1>1. Upto(t, n + 1) = Hits(t)
    BY DEF Upto, Hits, Lines
<1>2. Feed(t, n + 1)
    BY DEF Feed
<1>3. ~HasWord(t, <<n, n + 1>>)
    BY DEF HasWord
<1>4. ASSUME Sequence(p), Feed(t, n), InOrder(p, t, Upto(t, n))
      PROVE  InOrder(p, t, Upto(t, n + 1))
  <2>1. \A j \in (n + 1)..((n + 1) - 1) : ~Feed(t, j)
    OBVIOUS
  <2>2. n \in 0..Len(t) /\ n + 1 \in 1..(Len(t) + 1) /\ n < n + 1
    OBVIOUS
  <2> HIDE DEF n
  <2> QED BY <1>2, <1>3, <1>4, <2>1, <2>2, PrintsNext
<1> QED BY <1>1, <1>4

-----------------------------------------------------------------------------
(* grep: the invariant                                                       *)

\* The first byte of the buffer that counts, and how much of the file is done.
Start == IF pc = "line" THEN line_start ELSE 0
Passed == pos - (last - Start)

\* The indices, the byte behind the buffer, and a read that is short only at
\* the end of the file.
Buffer ==
  /\ entries \in Directories /\ search \in Patterns
  /\ entry \in 0..Len(entries) /\ pos \in Nat
  /\ last \in 0..BUFSIZE /\ cnt \in 0..BUFSIZE /\ line_start \in 0..BUFSIZE
  /\ pc \in {"next", "read", "line", "done", "failed"}
  /\ data = [j \in 0..BUFSIZE |-> data[j]]
  /\ printed = [e \in 1..Len(entries) |-> printed[e]]
  /\ \A e \in 1..Len(entries) : Sequence(printed[e])
  /\ pc \in {"read", "line"} => entry \in 1..Len(entries) /\ pos <= Len(Content)
  /\ pc = "read" => last < BUFSIZE
  /\ pc = "line" => /\ line_start = 0 \/ line_start < last
                    /\ cnt <= last
                    /\ last = BUFSIZE \/ pos = Len(Content)
                    /\ cnt = 0 => pos = Len(Content)
  /\ ~dirty => data[BUFSIZE] # "nl"

\* The search stands at the beginning of a line, or at the line feed or end of
\* the text behind a line that filled the buffer, or the rest of the file, and
\* was searched already.
AtLine(t, c) == Feed(t, c) /\ InOrder(printed[entry], t, Upto(t, c))
AtFeed(t, c) ==
  /\ c \in 1..Len(t) /\ ~Feed(t, c) /\ Feed(t, c + 1) /\ Start = 0 /\ (pc = "read" => last = 0)
  /\ InOrder(printed[entry], t, Upto(t, c + 1))

\* The buffer holds what was read and is not done, and what is done is printed.
Holds(t) ==
  /\ Passed \in 0..Len(t)
  /\ \A j \in Start..(last - 1) : data[j] = t[Passed + 1 + j - Start]
  /\ AtLine(t, Passed) \/ AtFeed(t, Passed)
Claimed(t) == ~dirty /\ IsText(t) /\ Fits(t)
Searching == pc \in {"read", "line"} /\ Claimed(Content) => Holds(Content)

Over(e) == e < entry \/ (e = entry /\ pc \in {"next", "done"})
Searched ==
  \A e \in 1..Len(entries) :
    /\ e > entry => printed[e] = <<>>
    /\ Over(e) /\ entries[e].kind = "file" /\ Claimed(entries[e].content)
         => InOrder(printed[e], entries[e].content, Hits(entries[e].content))

GInv == Buffer /\ Searching /\ Searched

-----------------------------------------------------------------------------
(* grep: its proof                                                           *)

\* The types of the directory and of the word.
LEMMA GrepTypes ==
  ASSUME Buffer
  PROVE  /\ BUFSIZE \in Nat /\ BUFSIZE > 0 /\ Len(entries) \in Nat /\ DOMAIN entries = 1..Len(entries)
         /\ Len(search) \in Nat \ {0} /\ DOMAIN search = 1..Len(search)
         /\ \A e \in 1..Len(entries) :
              /\ Len(entries[e].content) \in Nat
              /\ DOMAIN entries[e].content = 1..Len(entries[e].content)
<1> DEFINE E == [kind : Kinds, content : Seq(STRING)]
           W == STRING \ {"nl", "nul"}
<1>0. Directories \subseteq Seq(E) /\ Patterns \subseteq Seq(W) \ {<<>>} /\ BUFSIZE \in Nat \ {0}
    BY GrepAssumption
<1>e. \A x \in E : x.content \in Seq(STRING)
    OBVIOUS
<1> HIDE DEF E, W
<1>1. /\ entries \in Seq(E) /\ search \in Seq(W) /\ search # <<>>
      /\ BUFSIZE \in Nat /\ BUFSIZE > 0
    BY <1>0 DEF Buffer
<1>2. Len(search) \in Nat \ {0} /\ DOMAIN search = 1..Len(search)
    BY <1>1
<1>3. Len(entries) \in Nat /\ DOMAIN entries = 1..Len(entries)
    BY <1>1
<1>4. ASSUME NEW e \in 1..Len(entries)
      PROVE  /\ Len(entries[e].content) \in Nat
             /\ DOMAIN entries[e].content = 1..Len(entries[e].content)
  <2>1. entries[e] \in E
    BY <1>1
  <2>2. entries[e].content \in Seq(STRING)
    BY <1>e, <2>1
  <2> QED BY <2>2
<1> QED BY <1>1, <1>2, <1>3, <1>4

\* The lines with the word stay the same.
LEMMA HitsKept ==
  ASSUME UNCHANGED search
  PROVE  \A t : Hits(t)' = Hits(t) /\ \A b : Upto(t, b)' = Upto(t, b)
<1>1. \A t, l : HasWord(t, l)' <=> HasWord(t, l)
    BY DEF HasWord
<1>2. \A t : Hits(t)' = Hits(t)
    BY <1>1 DEF Hits
<1> QED BY <1>2 DEF Upto

\* grep begins with the invariant.
LEMMA GrepInit == GInit => GInv
<1> SUFFICES ASSUME GInit PROVE GInv
    OBVIOUS
<1>1. Buffer
  <2>1. BUFSIZE \in Nat /\ BUFSIZE > 0
    BY GrepAssumption
  <2>2. Len(entries) \in Nat /\ DOMAIN entries = 1..Len(entries)
    BY GrepAssumption DEF GInit
  <2>3. data = [j \in 0..BUFSIZE |-> data[j]] /\ data[BUFSIZE] # "nl"
    BY <2>1 DEF GInit
  <2>4. \A e \in 1..Len(entries) : printed[e] = <<>>
    BY <2>2 DEF GInit
  <2>5. Sequence(<<>>)
    <3>1. <<>> \in Seq({})
      OBVIOUS
    <3> QED BY <3>1 DEF Sequence
  <2>6. printed = [e \in 1..Len(entries) |-> printed[e]]
    BY <2>2 DEF GInit
  <2> QED BY <2>1, <2>2, <2>3, <2>4, <2>5, <2>6 DEF Buffer, GInit
<1>2. Searching
    BY DEF Searching, GInit
<1>3. Searched
  <2>1. Len(entries) \in Nat /\ DOMAIN entries = 1..Len(entries)
    BY <1>1, GrepTypes
  <2>2. \A e \in 1..Len(entries) : printed[e] = <<>> /\ ~Over(e)
    BY <2>1 DEF GInit, Over
  <2> QED BY <2>2 DEF Searched
<1> QED BY <1>1, <1>2, <1>3 DEF GInv

\* What is over stays as it is, when the lines printed for it do.
LEMMA SearchedKept ==
  ASSUME Buffer, Searched, UNCHANGED <<entries, search>>, ~dirty' => ~dirty,
         entry' >= entry, entry' \in Nat,
         \A e \in 1..Len(entries) : e > entry' \/ Over(e) => printed'[e] = printed[e],
         \A e \in 1..Len(entries) :
           Over(e)' /\ ~Over(e) /\ entries[e].kind = "file" /\ Claimed(entries[e].content)'
             => InOrder(printed'[e], entries[e].content, Hits(entries[e].content)')
  PROVE  Searched'
<1>0. entry \in Nat /\ Len(entries) \in Nat
    BY GrepTypes DEF Buffer
<1> SUFFICES ASSUME NEW e \in 1..Len(entries)
             PROVE  /\ e > entry' => printed'[e] = <<>>
                    /\ Over(e)' /\ entries[e].kind = "file" /\ Claimed(entries[e].content)'
                         => InOrder(printed'[e], entries[e].content, Hits(entries[e].content)')
    BY DEF Searched
<1>1. e > entry' => printed'[e] = <<>>
    BY <1>0 DEF Searched
<1>2. ASSUME Over(e)', Over(e), entries[e].kind = "file", Claimed(entries[e].content)'
      PROVE  InOrder(printed'[e], entries[e].content, Hits(entries[e].content)')
  <2>1. Claimed(entries[e].content)
    BY <1>2 DEF Claimed, IsText, Fits, Lines, Feed
  <2>2. InOrder(printed[e], entries[e].content, Hits(entries[e].content))
    BY <1>2, <2>1 DEF Searched
  <2>3. Hits(entries[e].content)' = Hits(entries[e].content)
    BY HitsKept
  <2> QED BY <1>2, <2>2, <2>3
<1> QED BY <1>1, <1>2

\* main goes on to the next entry.
LEMMA NextEntryKeeps == ASSUME GInv, NextEntry PROVE GInv'
<1> USE DEF GInv
<1>0. /\ pc = "next" /\ entry \in 0..Len(entries) /\ entry < Len(entries) /\ entry' = entry + 1
      /\ pos' = 0 /\ last' = 0 /\ UNCHANGED <<entries, search, cnt, line_start, printed>>
      /\ pc' = IF entries[entry + 1].kind = "dot" THEN "next" ELSE "read"
      /\ dirty' = (dirty \/ data'[BUFSIZE] = "nl")
    BY DEF NextEntry, Buffer
<1>1. BUFSIZE \in Nat /\ BUFSIZE > 0 /\ Len(entries) \in Nat
    BY GrepTypes
<1>n. entry + 1 \in 1..Len(entries) /\ entry \in Nat
    BY <1>0, <1>1
<1>2. Len(entries[entry + 1].content) \in Nat
    BY <1>n, GrepTypes
<1>t. PICK t : t = entries[entry + 1].content
    OBVIOUS
<1>c. Content' = t /\ Len(t) \in Nat /\ DOMAIN t = 1..Len(t)
    BY <1>0, <1>n, <1>t, GrepTypes DEF Content
<1>3. Buffer'
  <2>1. data' = [j \in 0..BUFSIZE |-> data'[j]]
    <3>1. data' = data \/ \E g \in Garbage : data' = [j \in 0..BUFSIZE |-> g]
      BY DEF NextEntry, Uninitialised
    <3> QED BY <3>1 DEF Buffer
  <2>2. pc' \in {"next", "read"}
    BY <1>0
  <2>3. 0 \in 0..BUFSIZE /\ 0 < BUFSIZE /\ 0 <= Len(t) /\ entry' \in 1..Len(entries) /\ entry' \in 0..Len(entries)
    BY <1>0, <1>1, <1>n, <1>c
  <2>4. ~dirty' => data'[BUFSIZE] # "nl"
    BY <1>0
  <2>5. /\ pc' \in {"read", "line"} => entry' \in 1..Len(entries') /\ pos' <= Len(Content')
        /\ pc' = "read" => last' < BUFSIZE
    BY <1>0, <1>c, <2>3
  <2>6. /\ entries' \in Directories /\ search' \in Patterns /\ entry' \in 0..Len(entries') /\ pos' \in Nat
        /\ last' \in 0..BUFSIZE /\ cnt' \in 0..BUFSIZE /\ line_start' \in 0..BUFSIZE
        /\ printed' = [e \in 1..Len(entries') |-> printed'[e]]
        /\ \A e \in 1..Len(entries') : Sequence(printed'[e])
    BY <1>0, <2>3 DEF Buffer
  <2> QED BY <2>1, <2>2, <2>4, <2>5, <2>6 DEF Buffer
<1>4. Searching'
  <2> SUFFICES ASSUME pc' = "read" PROVE Holds(Content)'
    BY <1>0 DEF Searching
  <2>1. printed'[entry'] = <<>>
    BY <1>0, <1>1, <1>n DEF Searched
  <2>2. Start' = 0 /\ Passed' = 0
    BY <1>0 DEF Start, Passed
  <2>3. InOrder(<<>>, t, Upto(t, 0))
    BY <1>c, PrintsNone
  <2>4. Feed(t, 0)
    BY <1>c DEF Feed
  <2>5. Upto(t, 0)' = Upto(t, 0)
    BY <1>0, HitsKept
  <2>6. AtLine(t, 0)'
    BY <2>1, <2>3, <2>4, <2>5 DEF AtLine
  <2>7. Holds(t)'
    BY <1>0, <1>c, <2>2, <2>6 DEF Holds
  <2> QED BY <1>c, <2>7
<1>5. Searched'
  <2>1. ASSUME NEW e \in 1..Len(entries), Over(e)', ~Over(e) PROVE entries[e].kind # "file"
    <3>1. e = entry + 1 /\ pc' = "next"
      BY <1>0, <1>n, <2>1 DEF Over
    <3> QED BY <1>0, <3>1
  <2>2. entry' >= entry /\ entry' \in Nat
    BY <1>0, <1>n
  <2> QED BY <1>0, <2>1, <2>2, SearchedKept
<1> QED BY <1>3, <1>4, <1>5

\* main has seen the last entry, or a read fails.
LEMMA EndKeeps == ASSUME GInv, Done \/ ReadFailed PROVE GInv'
<1> USE DEF GInv
<1>0. /\ UNCHANGED <<entries, search, entry, pos, data, last, cnt, line_start, printed, dirty>>
      /\ (pc = "next" /\ pc' = "done") \/ (pc = "read" /\ pc' = "failed")
    BY DEF Done, ReadFailed
<1>1. Buffer'
  <2>1. pc' \in {"next", "read", "line", "done", "failed"} /\ pc' \notin {"read", "line"}
    BY <1>0
  <2> QED BY <1>0, <2>1 DEF Buffer
<1>2. Searching'
    BY <1>0 DEF Searching
<1>3. Searched'
  <2>1. \A e \in 1..Len(entries) : Over(e)' => Over(e)
    BY <1>0 DEF Over
  <2>2. entry \in Nat
    BY GrepTypes DEF Buffer
  <2> QED BY <1>0, <2>1, <2>2, SearchedKept
<1> QED BY <1>1, <1>2, <1>3

\* A read appends to what was carried over.
LEMMA ReadKeeps == ASSUME GInv, Read PROVE GInv'
<1> USE DEF GInv
<1> DEFINE m == Smaller(BUFSIZE - last, Len(Content) - pos)
<1>1. /\ BUFSIZE \in Nat /\ BUFSIZE > 0 /\ Len(entries) \in Nat /\ entry \in 1..Len(entries)
      /\ last \in 0..BUFSIZE /\ last < BUFSIZE /\ pos \in Nat /\ pos <= Len(Content)
    BY GrepTypes DEF Buffer, Read
<1>t. PICK t : t = Content
    OBVIOUS
<1>2. Len(t) \in Nat /\ DOMAIN t = 1..Len(t)
    BY <1>1, <1>t, GrepTypes DEF Content
<1>n. PICK n : n = m
    OBVIOUS
<1>3. /\ n \in Nat /\ last + n \in 0..BUFSIZE /\ pos + n <= Len(t)
      /\ last + n = BUFSIZE \/ pos + n = Len(t)
      /\ n = 0 => pos + n = Len(t)
  <2>1. n = IF BUFSIZE - last < Len(t) - pos THEN BUFSIZE - last ELSE Len(t) - pos
    BY <1>n, <1>t DEF Smaller
  <2>2. BUFSIZE \in Nat /\ last \in Nat /\ last < BUFSIZE /\ pos \in Nat /\ pos <= Len(t)
    BY <1>1, <1>t
  <2>3. Len(t) \in Nat
    BY <1>2
  <2>4. CASE BUFSIZE - last < Len(t) - pos
    <3>1. n = BUFSIZE - last
      BY <2>1, <2>4
    <3> QED BY <2>2, <2>3, <2>4, <3>1
  <2>5. CASE ~(BUFSIZE - last < Len(t) - pos)
    <3>1. n = Len(t) - pos
      BY <2>1, <2>5
    <3> QED BY <2>2, <2>3, <2>5, <3>1
  <2> QED BY <2>4, <2>5
<1>0. /\ pc = "read" /\ pc' = "line" /\ UNCHANGED <<entries, search, entry, printed, dirty>>
      /\ data' = [j \in 0..BUFSIZE |->
                    IF j \in last..(last + n - 1) THEN t[pos + 1 + j - last] ELSE data[j]]
      /\ pos' = pos + n /\ cnt' = n /\ last' = last + n /\ line_start' = 0
    BY <1>n, <1>t DEF Read
<1>c. Content' = t
    BY <1>0, <1>t DEF Content
<1> HIDE DEF m
<1>4. Buffer'
  <2>1. /\ data' = [j \in 0..BUFSIZE |-> data'[j]]
    BY <1>0
  <2>2. ~dirty' => data'[BUFSIZE] # "nl"
    <3>1. BUFSIZE \notin last..(last + n - 1) /\ BUFSIZE \in 0..BUFSIZE
      BY <1>1, <1>3
    <3> QED BY <1>0, <3>1 DEF Buffer
  <2>3. /\ cnt' \in 0..BUFSIZE /\ cnt' <= last' /\ last' \in 0..BUFSIZE /\ pos' \in Nat
        /\ line_start' \in 0..BUFSIZE /\ pos' <= Len(Content')
        /\ last' = BUFSIZE \/ pos' = Len(Content')
        /\ cnt' = 0 => pos' = Len(Content')
    BY <1>0, <1>1, <1>3, <1>c
  <2>4. /\ entries' \in Directories /\ search' \in Patterns
        /\ entry' \in 0..Len(entries') /\ entry' \in 1..Len(entries')
        /\ printed' = [e \in 1..Len(entries') |-> printed'[e]]
        /\ \A e \in 1..Len(entries') : Sequence(printed'[e])
    BY <1>0, <1>1 DEF Buffer
  <2> QED BY <1>0, <2>1, <2>2, <2>3, <2>4 DEF Buffer
<1>5. Searching'
  <2> SUFFICES ASSUME Claimed(t)' PROVE Holds(t)'
    BY <1>c DEF Searching
  <2>1. Claimed(t)
    BY <1>0 DEF Claimed, IsText, Fits, Lines, Feed
  <2>2. Holds(t)
    BY <1>0, <1>t, <2>1 DEF Searching
  <2>3. Start = 0 /\ Start' = 0
    BY <1>0 DEF Start
  <2>4. Passed = pos - last /\ Passed' = Passed
    BY <1>0, <1>1, <1>3, <2>3 DEF Passed
  <2>5. ASSUME NEW j \in 0..(last' - 1) PROVE data'[j] = t[Passed + 1 + j - 0]
    <3>0. last' = last + n /\ n \in Nat /\ last \in Nat /\ BUFSIZE \in Nat /\ last + n <= BUFSIZE
      BY <1>0, <1>1, <1>3
    <3>1. j \in 0..BUFSIZE
      BY <3>0
    <3>2. CASE j < last
      <4>1. data'[j] = data[j] /\ j \in 0..(last - 1)
        BY <1>0, <1>1, <3>1, <3>2
      <4> QED BY <2>2, <2>3, <4>1 DEF Holds
    <3>3. CASE ~(j < last)
      <4>1. data'[j] = t[pos + 1 + j - last]
        BY <1>0, <1>1, <1>3, <3>1, <3>3
      <4>2. pos + 1 + j - last = Passed + 1 + j - 0
        BY <1>1, <2>4
      <4> QED BY <4>1, <4>2
    <3> QED BY <3>2, <3>3
  <2>6. Passed \in 0..Len(t)
    BY <2>2 DEF Holds
  <2>7. AtLine(t, Passed) => Feed(t, Passed) /\ InOrder(printed'[entry'], t, Upto(t, Passed))
    BY <1>0 DEF AtLine
  <2>p. PICK c : c = Passed
    OBVIOUS
  <2>8. Upto(t, c)' = Upto(t, c) /\ Upto(t, c + 1)' = Upto(t, c + 1)
    BY <1>0, HitsKept
  <2>9. AtLine(t, c) => AtLine(t, c)'
    BY <1>0, <2>8 DEF AtLine
  <2>10. AtFeed(t, c) => AtFeed(t, c)'
    BY <1>0, <2>3, <2>8 DEF AtFeed
  <2>11. AtLine(t, c)' \/ AtFeed(t, c)'
    BY <2>2, <2>p, <2>9, <2>10 DEF Holds
  <2>12. Passed' = c
    BY <2>4, <2>p
  <2>13. AtLine(t, Passed)' \/ AtFeed(t, Passed)'
    BY <2>11, <2>12
  <2>14. Passed' \in 0..Len(t) /\ \A j \in Start'..(last' - 1) : data'[j] = t[Passed' + 1 + j - Start']
    BY <2>3, <2>4, <2>5, <2>6
  <2> QED BY <2>13, <2>14 DEF Holds
<1>6. Searched'
  <2>1. \A e \in 1..Len(entries) : Over(e)' => Over(e)
    BY <1>0 DEF Over
  <2>2. entry \in Nat
    BY <1>1
  <2> QED BY <1>0, <2>1, <2>2, SearchedKept
<1> QED BY <1>4, <1>5, <1>6

\* The line in the buffer ends at its line feed or with the data.
LEMMA LineEnd ==
  ASSUME Buffer, pc = "line"
  PROVE  /\ line_end \in line_start..last /\ line_end \in 0..BUFSIZE
         /\ \A j \in line_start..(line_end - 1) : data[j] # "nl"
         /\ line_end < last => data[line_end] = "nl"
<1>1. /\ BUFSIZE \in Nat /\ line_start \in 0..BUFSIZE /\ last \in 0..BUFSIZE /\ line_start <= last
    BY GrepTypes DEF Buffer
<1>2. Ends \subseteq Nat /\ last \in Ends
    BY <1>1 DEF Ends
<1>3. \E j \in Ends : \A k \in Ends : j <= k
    BY <1>2, LeastNat
<1>4. line_end \in Ends /\ \A k \in Ends : line_end <= k
    BY <1>3 DEF line_end
<1> HIDE DEF line_end
<1>5. line_end \in line_start..BUFSIZE /\ (line_end >= last \/ data[line_end] = "nl")
    BY <1>4 DEF Ends
<1>6. line_end <= last
    BY <1>2, <1>4
<1>7. ASSUME NEW j \in line_start..(line_end - 1) PROVE data[j] # "nl"
  <2>1. j \in line_start..BUFSIZE /\ ~(line_end <= j)
    BY <1>1, <1>5
  <2>2. j \notin Ends
    BY <1>4, <2>1
  <2> QED BY <2>1, <2>2 DEF Ends
<1> QED BY <1>1, <1>5, <1>6, <1>7

\* A piece of the buffer.
Piece(d, j, n) == [h \in 1..(n - j) |-> d[j + h - 1]]

\* A piece from j to n is a sequence of n - j bytes.
LEMMA PieceSequence ==
  ASSUME NEW d, NEW j \in Nat, NEW n \in Nat, j <= n
  PROVE  /\ Sequence(Piece(d, j, n)) /\ Len(Piece(d, j, n)) = n - j
         /\ \A h \in 1..(n - j) : Piece(d, j, n)[h] = d[j + h - 1]
<1>1. PICK m \in Nat : m = n - j
    OBVIOUS
<1> DEFINE f(h) == d[j + h - 1]
           v == [h \in 1..m |-> f(h)]
           S == {f(h) : h \in 1..m}
<1>2. Piece(d, j, n) = v
    BY <1>1 DEF Piece
<1> HIDE DEF f
<1>3. v \in Seq(S) /\ Len(v) = m /\ \A h \in 1..m : v[h] = f(h)
  <2>1. \A h \in 1..m : f(h) \in S
    OBVIOUS
  <2> HIDE DEF S
  <2>2. v \in [1..m -> S]
    BY <2>1
  <2>3. \A h \in 1..m : v[h] = f(h)
    OBVIOUS
  <2> HIDE DEF v
  <2>4. v \in Seq(S) /\ Len(v) = m
    BY <2>2
  <2> QED BY <2>3, <2>4
<1> HIDE DEF v, S
<1>4. Sequence(v)
    BY <1>3 DEF Sequence
<1> QED BY <1>1, <1>2, <1>3, <1>4 DEF f

\* The string that starts at j ends at the first NUL, which is there.
LEMMA StringFirst ==
  ASSUME BUFSIZE \in Nat, NEW d, NEW j \in 0..BUFSIZE, NEW k \in j..BUFSIZE, d[k] = "nul"
  PROVE  \E n \in j..k : /\ d[n] = "nul" /\ \A h \in j..(n - 1) : d[h] # "nul"
                         /\ String(d, j) = Piece(d, j, n)
<1> DEFINE S == {x \in j..BUFSIZE : d[x] = "nul"}
           P(x) == d[x] = "nul" /\ \A h \in j..(x - 1) : d[h] # "nul"
           nul == CHOOSE x \in j..BUFSIZE : P(x)
<1>1. S \subseteq Nat /\ k \in S
    OBVIOUS
<1>2. PICK n \in S : \A x \in S : n <= x
  <2> HIDE DEF S
  <2> QED BY <1>1, LeastNat
<1>3. n \in j..k /\ n \in j..BUFSIZE /\ d[n] = "nul"
    BY <1>1, <1>2
<1>4. \A h \in j..(n - 1) : d[h] # "nul"
  <2> SUFFICES ASSUME NEW h \in j..(n - 1) PROVE d[h] # "nul"
    OBVIOUS
  <2>1. h \in j..BUFSIZE /\ ~(n <= h)
    BY <1>3
  <2> QED BY <1>2, <2>1
<1>5. P(n)
    BY <1>3, <1>4
<1>6. \A x \in j..BUFSIZE : P(x) => x = n
  <2> SUFFICES ASSUME NEW x \in j..BUFSIZE, P(x) PROVE x = n
    OBVIOUS
  <2>1. n <= x
    BY <1>2
  <2>2. ~(n \in j..(x - 1))
    BY <1>3
  <2> QED BY <1>3, <2>1, <2>2
<1>7. nul = n
  <2> HIDE DEF P
  <2> QED BY <1>3, <1>5, <1>6
<1>8. String(d, j) = Piece(d, j, nul)
    BY DEF String, Piece
<1> HIDE DEF nul
<1> QED BY <1>3, <1>4, <1>7, <1>8

\* The buffer after its line is ended.
LEMMA EndedAt ==
  ASSUME Buffer, pc = "line"
  PROVE  /\ Ended = [j \in 0..BUFSIZE |-> IF j = line_end THEN "nul" ELSE data[j]]
         /\ Ended[line_end] = "nul"
<1>1. line_end \in 0..BUFSIZE /\ data = [j \in 0..BUFSIZE |-> data[j]]
    BY LineEnd DEF Buffer
<1> HIDE DEF line_end
<1> QED BY <1>1 DEF Ended

\* A line that is cut is carried over to the front of the buffer.
LEMMA CarryKeeps == ASSUME GInv, CarryOver PROVE GInv'
<1> USE DEF GInv
<1>0. /\ pc = "line" /\ pc' = "read" /\ data' = Carried(Ended) /\ last' = last - line_start
      /\ UNCHANGED <<entries, search, entry, pos, cnt, line_start, printed, dirty>>
      /\ data[line_end] # "nl" /\ cnt # 0 /\ line_start # 0
    BY DEF CarryOver, Cut
<1>1. /\ BUFSIZE \in Nat /\ BUFSIZE > 0 /\ Len(entries) \in Nat /\ entry \in 1..Len(entries)
      /\ last \in 0..BUFSIZE /\ line_start \in 0..BUFSIZE /\ pos \in Nat /\ pos <= Len(Content)
      /\ line_start < last
    BY <1>0, GrepTypes DEF Buffer
<1>2. line_end = last
  <2>1. line_end \in line_start..last /\ ~(line_end < last)
    BY <1>0, LineEnd
  <2> HIDE DEF line_end
  <2> QED BY <1>1, <2>1
<1>t. PICK t : t = Content
    OBVIOUS
<1>c. Content' = t
    BY <1>0, <1>t DEF Content
<1>d. PICK d : d = Ended
    OBVIOUS
<1>3. /\ d = [j \in 0..BUFSIZE |-> IF j = last THEN "nul" ELSE data[j]] /\ d[last] = "nul"
    BY <1>0, <1>2, <1>d, EndedAt
<1>4. PICK n \in line_start..last :
             /\ d[n] = "nul" /\ \A h \in line_start..(n - 1) : d[h] # "nul"
             /\ String(d, line_start) = Piece(d, line_start, n)
  <2>1. last \in line_start..BUFSIZE /\ line_start \in 0..BUFSIZE /\ BUFSIZE \in Nat
    BY <1>1
  <2>2. d[last] = "nul"
    BY <1>3
  <2> QED BY <2>1, <2>2, StringFirst
<1> DEFINE line == Append(String(d, line_start), "nul")
<1>5. /\ Len(line) = n - line_start + 1
      /\ \A h \in 1..(n - line_start) : line[h] = d[line_start + h - 1]
  <2>p. PICK v : v = Piece(d, line_start, n)
    OBVIOUS
  <2>1. n \in Nat /\ line_start \in Nat /\ line_start <= n
    BY <1>1
  <2>2. Sequence(v) /\ Len(v) = n - line_start /\ \A h \in 1..(n - line_start) : v[h] = d[line_start + h - 1]
    BY <2>p, <2>1, PieceSequence
  <2>3. /\ Len(Append(v, "nul")) = Len(v) + 1 /\ \A h \in 1..Len(v) : Append(v, "nul")[h] = v[h]
    BY <2>2, OneMore
  <2>4. line = Append(v, "nul")
    BY <1>4, <2>p
  <2> HIDE DEF line
  <2> QED BY <2>2, <2>3, <2>4
<1> HIDE DEF line
<1>6. data' = [j \in 0..BUFSIZE |-> IF j < Len(line) THEN line[j + 1] ELSE d[j]]
    BY <1>0, <1>d DEF Carried, line
<1>7. Buffer'
  <2>1. /\ data' = [j \in 0..BUFSIZE |-> data'[j]]
    BY <1>6
  <2>2. ~dirty' => data'[BUFSIZE] # "nl"
    <3>1. BUFSIZE \in 0..BUFSIZE /\ ~(BUFSIZE < Len(line))
      BY <1>0, <1>1, <1>5
    <3>2. data'[BUFSIZE] = "nul" \/ data'[BUFSIZE] = data[BUFSIZE]
      BY <1>3, <1>6, <3>1
    <3> QED BY <1>0, <3>2 DEF Buffer
  <2>3. /\ last' \in 0..BUFSIZE /\ last' < BUFSIZE
    BY <1>0, <1>1
  <2>4. /\ entries' \in Directories /\ search' \in Patterns
        /\ entry' \in 0..Len(entries') /\ entry' \in 1..Len(entries')
        /\ pos' \in Nat /\ pos' <= Len(Content') /\ cnt' \in 0..BUFSIZE /\ line_start' \in 0..BUFSIZE
        /\ printed' = [e \in 1..Len(entries') |-> printed'[e]]
        /\ \A e \in 1..Len(entries') : Sequence(printed'[e])
    BY <1>0, <1>1, <1>c, <1>t DEF Buffer
  <2> QED BY <1>0, <2>1, <2>2, <2>3, <2>4 DEF Buffer
<1>8. Searching'
  <2> SUFFICES ASSUME Claimed(t)' PROVE Holds(t)'
    BY <1>c DEF Searching
  <2>1. Claimed(t)
    BY <1>0 DEF Claimed, IsText, Fits, Lines, Feed
  <2>2. Holds(t)
    BY <1>0, <1>t, <2>1 DEF Searching
  <2>3. Start = line_start /\ Start' = 0
    BY <1>0 DEF Start
  <2>p. PICK c : c = Passed
    OBVIOUS
  <2>4. c = pos - (last - line_start) /\ Passed' = c /\ c \in 0..Len(t)
    BY <1>0, <1>1, <2>2, <2>3, <2>p DEF Passed, Holds
  <2>5. \A j \in line_start..(last - 1) : data[j] = t[c + 1 + j - line_start] /\ data[j] # "nul"
    <3> SUFFICES ASSUME NEW j \in line_start..(last - 1)
                 PROVE  data[j] = t[c + 1 + j - line_start] /\ data[j] # "nul"
      OBVIOUS
    <3>1. data[j] = t[c + 1 + j - line_start]
      BY <2>2, <2>3, <2>p DEF Holds
    <3>2. c + 1 + j - line_start \in DOMAIN t
      <4>1. Len(t) \in Nat /\ DOMAIN t = 1..Len(t) /\ pos <= Len(t)
        BY <1>1, <1>t, GrepTypes DEF Content
      <4> QED BY <1>1, <2>4, <4>1
    <3> QED BY <2>1, <3>1, <3>2 DEF Claimed, IsText
  <2>6. n = last
    <3>1. ~(n \in line_start..(last - 1))
      <4> SUFFICES ASSUME n \in line_start..(last - 1) PROVE FALSE
        OBVIOUS
      <4>1. d[n] = data[n]
        BY <1>1, <1>3
      <4> QED BY <1>4, <2>5, <4>1
    <3> QED BY <1>1, <3>1
  <2>7. ASSUME NEW j \in 0..(last' - 1) PROVE data'[j] = t[c + 1 + j - 0]
    <3>1. /\ j \in 0..BUFSIZE /\ j < Len(line) /\ j + 1 \in 1..(n - line_start)
          /\ line_start + j \in line_start..(last - 1) /\ line_start + (j + 1) - 1 = line_start + j
          /\ line_start + j \in 0..BUFSIZE /\ line_start + j # last
          /\ c + 1 + (line_start + j) - line_start = c + 1 + j - 0
      BY <1>0, <1>1, <1>5, <2>4, <2>6
    <3>2. data'[j] = line[j + 1] /\ line[j + 1] = d[line_start + j]
      BY <1>5, <1>6, <3>1
    <3>3. d[line_start + j] = data[line_start + j]
      BY <1>3, <3>1
    <3> QED BY <2>5, <3>1, <3>2, <3>3
  <2>8. Upto(t, c)' = Upto(t, c)
    BY <1>0, HitsKept
  <2>9. AtLine(t, c)'
    <3>1. AtLine(t, c)
      BY <1>0, <2>2, <2>3, <2>p DEF Holds, AtFeed
    <3> QED BY <1>0, <2>8, <3>1 DEF AtLine
  <2>10. AtLine(t, Passed)'
    BY <2>4, <2>9
  <2>11. Passed' \in 0..Len(t) /\ \A j \in Start'..(last' - 1) : data'[j] = t[Passed' + 1 + j - Start']
    BY <2>3, <2>4, <2>7
  <2> QED BY <2>10, <2>11 DEF Holds
<1>9. Searched'
  <2>1. \A e \in 1..Len(entries) : Over(e)' => Over(e)
    BY <1>0 DEF Over
  <2>2. entry \in Nat
    BY <1>1
  <2> QED BY <1>0, <2>1, <2>2, SearchedKept
<1> QED BY <1>7, <1>8, <1>9

\* What a turn prints: the line of the buffer, if the word is found in it.
LEMMA PrintedBy ==
  ASSUME Buffer, SearchLine
  PROVE  /\ printed' = [e \in 1..Len(entries) |-> printed'[e]]
         /\ \A e \in 1..Len(entries) : Sequence(printed'[e]) /\ (e # entry => printed'[e] = printed[e])
         /\ printed'[entry] = IF Found THEN Append(printed[entry], String(Ended, line_start))
                              ELSE printed[entry]
<1>1. /\ entry \in 1..Len(entries) /\ printed = [e \in 1..Len(entries) |-> printed[e]]
      /\ \A e \in 1..Len(entries) : Sequence(printed[e])
    BY DEF Buffer, SearchLine
<1>w. PICK w : w = String(Ended, line_start)
    OBVIOUS
<1>2. CASE ~Found
  <2>1. printed' = printed
    BY <1>2 DEF SearchLine
  <2> QED BY <1>1, <1>2, <2>1
<1>3. CASE Found
  <2>1. printed' = [printed EXCEPT ![entry] = Append(printed[entry], w)]
    BY <1>w, <1>3 DEF SearchLine
  <2>2. Sequence(Append(printed[entry], w))
    BY <1>1, OneMore
  <2>x. PICK x : x = Append(printed[entry], w)
    OBVIOUS
  <2>3. printed' = [e \in 1..Len(entries) |-> IF e = entry THEN x ELSE printed[e]]
    BY <1>1, <2>1, <2>x
  <2>4. /\ printed' = [e \in 1..Len(entries) |-> printed'[e]] /\ printed'[entry] = x
        /\ \A e \in 1..Len(entries) : e # entry => printed'[e] = printed[e]
    BY <1>1, <2>3
  <2> QED BY <1>1, <1>3, <1>w, <2>2, <2>x, <2>4
<1> QED BY <1>2, <1>3

\* The line of the buffer is a line of the text, from its first byte to the one
\* before b, and the word is found in it exactly when it is there.
LEMMA LineOfText ==
  ASSUME Buffer, pc = "line", NEW t, t = Content, IsText(t), Holds(t),
         NEW c, c = Passed, NEW b, b = c + 1 + line_end - line_start
  PROVE  /\ c \in 0..Len(t) /\ b \in 1..(Len(t) + 1) /\ c < b
         /\ \A j \in line_start..(last - 1) : data[j] = t[c + 1 + j - line_start]
         /\ \A h \in (c + 1)..(b - 1) : ~Feed(t, h)
         /\ line_end < last => Feed(t, b)
         /\ Found <=> HasWord(t, <<c, b>>)
         /\ String(Ended, line_start) = Line(t, <<c, b>>)
<1>1. /\ BUFSIZE \in Nat /\ BUFSIZE > 0 /\ Len(entries) \in Nat /\ entry \in 1..Len(entries)
      /\ last \in 0..BUFSIZE /\ line_start \in 0..BUFSIZE /\ pos \in Nat /\ pos <= Len(t)
      /\ line_start <= last
    BY GrepTypes DEF Buffer
<1>2. Len(t) \in Nat /\ DOMAIN t = 1..Len(t) /\ Len(search) \in Nat \ {0} /\ DOMAIN search = 1..Len(search)
    BY <1>1, GrepTypes DEF Content
<1>E. PICK E : E = line_end
    OBVIOUS
<1>d. PICK d : d = Ended
    OBVIOUS
<1>3. /\ E \in line_start..last /\ E \in 0..BUFSIZE
      /\ \A j \in line_start..(E - 1) : data[j] # "nl"
      /\ E < last => data[E] = "nl"
    BY <1>E, LineEnd
<1>4. d = [j \in 0..BUFSIZE |-> IF j = E THEN "nul" ELSE data[j]] /\ d[E] = "nul"
    BY <1>E, <1>d, EndedAt
<1>5. Start = line_start /\ c = pos - (last - line_start) /\ c \in 0..Len(t)
    BY DEF Start, Passed, Holds
<1>6. b = c + 1 + E - line_start
    BY <1>E
<1>7. c \in Nat /\ b \in 1..(Len(t) + 1) /\ c < b /\ b - 1 <= pos
  <2>1. PICK len : len = Len(t)
    OBVIOUS
  <2>2. len \in Nat /\ pos \in Nat /\ pos <= len /\ c \in Nat
    BY <1>1, <1>2, <1>5, <2>1
  <2>3. line_start \in Nat /\ last \in Nat /\ E \in Nat /\ line_start <= E /\ E <= last
    BY <1>1, <1>3
  <2>4. b \in 1..(len + 1) /\ c < b /\ b - 1 <= pos
    BY <1>5, <1>6, <2>2, <2>3
  <2> QED BY <2>1, <2>2, <2>4
<1>n. /\ c \in Nat /\ b \in Nat /\ line_start \in Nat /\ E \in Nat /\ last \in Nat
      /\ line_start <= E /\ E <= last
  <2>1. c \in Nat /\ b \in Nat
    BY <1>7
  <2> QED BY <1>1, <1>3, <2>1
<1>8. \A j \in line_start..(last - 1) : data[j] = t[c + 1 + j - line_start]
    BY <1>5 DEF Holds
<1>9. ASSUME NEW j \in line_start..(last - 1)
      PROVE  c + 1 + j - line_start \in 1..Len(t)
    BY <1>1, <1>2, <1>5
<1>10. ASSUME NEW h \in (c + 1)..(b - 1) PROVE ~Feed(t, h)
  <2>p. PICK j : j = line_start + h - c - 1
    OBVIOUS
  <2>1. j \in line_start..(E - 1) /\ j \in line_start..(last - 1) /\ c + 1 + j - line_start = h
    BY <1>6, <1>n, <2>p
  <2>2. data[j] = t[h] /\ h \in 1..Len(t)
    BY <1>8, <1>9, <2>1
  <2> QED BY <1>2, <1>3, <2>1, <2>2 DEF Feed
<1>11. ASSUME E < last PROVE Feed(t, b)
  <2>1. E \in line_start..(last - 1)
    BY <1>1, <1>3, <1>11
  <2>2. data[E] = t[b]
    BY <1>6, <1>8, <2>1
  <2> QED BY <1>3, <1>11, <2>2 DEF Feed
<1>12. \A j \in line_start..(E - 1) : d[j] = t[c + 1 + j - line_start] /\ d[j] # "nul"
  <2> SUFFICES ASSUME NEW j \in line_start..(E - 1)
               PROVE  d[j] = t[c + 1 + j - line_start] /\ d[j] # "nul"
    OBVIOUS
  <2>1. j \in line_start..(last - 1) /\ j \in 0..BUFSIZE /\ j # E
    BY <1>1, <1>3
  <2>2. d[j] = data[j]
    BY <1>4, <2>1
  <2>3. c + 1 + j - line_start \in 1..Len(t)
    BY <1>9, <2>1
  <2>4. t[c + 1 + j - line_start] # "nul"
    BY <1>2, <2>3 DEF IsText
  <2> QED BY <1>8, <2>1, <2>2, <2>4
<1>13. Found <=> HasWord(t, <<c, b>>)
  <2>y. PICK z : z = Len(search)
    OBVIOUS
  <2>z. z \in Nat /\ z > 0 /\ DOMAIN search = 1..z
    BY <1>2, <2>y
  <2>n. /\ c \in Nat /\ b \in Nat /\ line_start \in Nat /\ E \in Nat /\ line_start <= E
        /\ b = c + 1 + E - line_start
    BY <1>6, <1>n
  <2>1. Found <=> \E check \in line_start..(E - 1) :
                     \A k \in 1..z : check + k - 1 < E /\ d[check + k - 1] = search[k]
    BY <1>E, <1>d, <2>z DEF Found, Same
  <2>2. HasWord(t, <<c, b>>) <=> \E j \in c..(b - 1 - z) : \A k \in 1..z : t[j + k] = search[k]
    <3>1. <<c, b>>[1] = c /\ <<c, b>>[2] = b
      OBVIOUS
    <3>2. HasWord(t, <<c, b>>) <=> \E j \in <<c, b>>[1]..(<<c, b>>[2] - 1 - Len(search)) :
                                     \A k \in DOMAIN search : t[j + k] = search[k]
      BY Zenon DEF HasWord
    <3> QED BY <2>y, <2>z, <3>1, <3>2
  <2>3. ASSUME NEW check \in line_start..(E - 1),
               \A k \in 1..z : check + k - 1 < E /\ d[check + k - 1] = search[k]
        PROVE  \E j \in c..(b - 1 - z) : \A k \in 1..z : t[j + k] = search[k]
    <3>0. check \in Int /\ line_start <= check
      BY <2>n
    <3>1. check + z - 1 < E
      <4>1. z \in 1..z
        BY <2>z
      <4> QED BY <2>3, <4>1
    <3>p. PICK j : j = c + check - line_start
      OBVIOUS
    <3>2. j \in c..(b - 1 - z)
      BY <2>z, <2>n, <3>0, <3>1, <3>p
    <3>3. ASSUME NEW k \in 1..z PROVE t[j + k] = search[k]
      <4>0. check + k - 1 < E /\ d[check + k - 1] = search[k]
        BY <2>3
      <4>1. check + k - 1 \in line_start..(E - 1) /\ c + 1 + (check + k - 1) - line_start = j + k
        BY <2>z, <2>n, <3>0, <3>p, <4>0
      <4>2. d[check + k - 1] = t[j + k]
        BY <1>12, <4>1
      <4> QED BY <4>0, <4>2
    <3> QED BY <3>2, <3>3
  <2>4. ASSUME NEW j \in c..(b - 1 - z), \A k \in 1..z : t[j + k] = search[k]
        PROVE  \E check \in line_start..(E - 1) :
                 \A k \in 1..z : check + k - 1 < E /\ d[check + k - 1] = search[k]
    <3>0. j \in Int /\ c <= j /\ j <= b - 1 - z
      BY <2>n
    <3>p. PICK check : check = j - c + line_start
      OBVIOUS
    <3>2. check \in line_start..(E - 1)
      BY <2>z, <2>n, <3>0, <3>p
    <3>3. ASSUME NEW k \in 1..z PROVE check + k - 1 < E /\ d[check + k - 1] = search[k]
      <4>1. check + k - 1 \in line_start..(E - 1) /\ c + 1 + (check + k - 1) - line_start = j + k
        BY <2>z, <2>n, <3>0, <3>p
      <4>2. d[check + k - 1] = t[j + k] /\ check + k - 1 < E
        BY <2>n, <1>12, <4>1
      <4> QED BY <2>4, <4>2
    <3> QED BY <3>2, <3>3
  <2> QED BY <2>1, <2>2, <2>3, <2>4
<1>14. String(d, line_start) = Line(t, <<c, b>>)
  <2>0. E \in line_start..BUFSIZE
    BY <1>1, <1>3
  <2>1. PICK n \in line_start..E : d[n] = "nul" /\ String(d, line_start) = Piece(d, line_start, n)
    BY <1>1, <1>4, <2>0, StringFirst
  <2>2. n = E
    <3>1. ~(n \in line_start..(E - 1))
      BY <1>12, <2>1
    <3> QED BY <1>1, <1>3, <3>1
  <2>3. Line(t, <<c, b>>) = SubSeq(t, c + 1, b - 1)
    BY DEF Line
  <2>m. PICK m : m = E - line_start
    OBVIOUS
  <2>4. SubSeq(t, c + 1, b - 1) = [h \in 1..m |-> t[c + h]]
    <3>1. t \in Seq(STRING)
      <4> DEFINE R == [kind : Kinds, content : Seq(STRING)]
      <4>1. entries \in Seq(R)
        BY GrepAssumption DEF Buffer
      <4>2. \A x \in R : x.content \in Seq(STRING)
        OBVIOUS
      <4> HIDE DEF R
      <4>3. entries[entry] \in R
        BY <1>1, <4>1
      <4> QED BY <4>2, <4>3 DEF Content
    <3>n. line_start \in Int /\ E \in Int
      BY <1>1, <1>3
    <3>2. (b - 1) - (c + 1) + 1 = m
      BY <1>6, <1>7, <2>m, <3>n
    <3>3. SubSeq(t, c + 1, b - 1) = [h \in 1..((b - 1) - (c + 1) + 1) |-> t[c + 1 + h - 1]]
      BY <1>7, <3>1
    <3>4. \A h \in 1..m : c + 1 + h - 1 = c + h
      BY <1>7
    <3> QED BY <3>2, <3>3, <3>4
  <2>5. Piece(d, line_start, E) = [h \in 1..m |-> d[line_start + h - 1]]
    BY <2>m DEF Piece
  <2>6. ASSUME NEW h \in 1..m PROVE d[line_start + h - 1] = t[c + h]
    <3>1. line_start + h - 1 \in line_start..(E - 1) /\ c + 1 + (line_start + h - 1) - line_start = c + h
      BY <1>1, <1>3, <1>7, <2>m
    <3> QED BY <1>12, <3>1
  <2> QED BY <2>1, <2>2, <2>3, <2>4, <2>5, <2>6
<1> QED BY <1>5, <1>7, <1>8, <1>10, <1>11, <1>13, <1>14, <1>E, <1>d

\* After a turn, the lines up to b are those that were printed, and the search
\* stands at b; a line that ends with the data was searched up to its end.
LEMMA TurnPrints ==
  ASSUME Buffer, SearchLine, NEW t, t = Content, Claimed(t), Holds(t),
         NEW c, c = Passed, NEW b, b = c + 1 + line_end - line_start
  PROVE  /\ Feed(t, b) /\ InOrder(printed'[entry], t, Upto(t, b))
         /\ line_end = last /\ cnt # 0 => pos >= 1 /\ ~Feed(t, pos)
<1>0. /\ pc = "line" /\ ~Cut /\ ~dirty /\ IsText(t) /\ Fits(t)
    BY DEF SearchLine, Claimed
<1>1. /\ BUFSIZE \in Nat /\ Len(entries) \in Nat /\ entry \in 1..Len(entries)
      /\ last \in 0..BUFSIZE /\ line_start \in 0..BUFSIZE /\ pos \in Nat /\ pos <= Len(t)
      /\ cnt \in 0..BUFSIZE /\ cnt <= last /\ (line_start = 0 \/ line_start < last)
      /\ last = BUFSIZE \/ pos = Len(t)
      /\ cnt = 0 => pos = Len(t)
      /\ data[BUFSIZE] # "nl"
    BY <1>0, GrepTypes DEF Buffer
<1>2. Len(t) \in Nat /\ DOMAIN t = 1..Len(t)
    BY <1>1, GrepTypes DEF Content
<1>l. PICK len \in Nat : len = Len(t)
    BY <1>2
<1>k. /\ pos \in Nat /\ pos <= len /\ last \in Nat /\ last <= BUFSIZE /\ line_start \in Nat
      /\ BUFSIZE \in Nat
    BY <1>1, <1>l
<1>3. /\ line_end \in line_start..last /\ line_end \in 0..BUFSIZE
      /\ \A j \in line_start..(line_end - 1) : data[j] # "nl"
    BY <1>0, LineEnd
<1>4. /\ c \in 0..Len(t) /\ b \in 1..(Len(t) + 1) /\ c < b
      /\ \A j \in line_start..(last - 1) : data[j] = t[c + 1 + j - line_start]
      /\ \A h \in (c + 1)..(b - 1) : ~Feed(t, h)
      /\ line_end < last => Feed(t, b)
      /\ Found <=> HasWord(t, <<c, b>>)
      /\ String(Ended, line_start) = Line(t, <<c, b>>)
    BY <1>0, LineOfText
<1>5. Start = line_start /\ c = pos - (last - line_start)
    BY <1>0 DEF Start, Passed
<1>6. ~(data[line_end] # "nl" /\ cnt # 0 /\ line_start # 0)
    BY <1>0 DEF Cut
<1>7. ~Found => printed'[entry] = printed[entry]
    BY PrintedBy
<1>8. printed'[entry] = IF HasWord(t, <<c, b>>) THEN Append(printed[entry], Line(t, <<c, b>>))
                        ELSE printed[entry]
    BY <1>4, PrintedBy
<1>9. line_start = line_end => ~Found
    BY <1>1 DEF Found
<1>10. Sequence(printed[entry]) /\ (AtLine(t, c) \/ AtFeed(t, c))
    BY <1>1 DEF Buffer, Holds
<1> HIDE DEF line_end, Found
<1>11. AtFeed(t, c) => line_end = 0 /\ line_start = 0
  <2> SUFFICES ASSUME AtFeed(t, c) PROVE line_end = 0 /\ line_start = 0
    OBVIOUS
  <2>1. line_start = 0 /\ c \in 1..Len(t) /\ Feed(t, c + 1)
    BY <1>5 DEF AtFeed
  <2>2. CASE last = 0
    BY <1>3, <2>1, <2>2
  <2>3. CASE last # 0
    <3>1. 0 \in line_start..(last - 1) /\ c + 1 + 0 - line_start = c + 1
      BY <1>1, <2>1, <2>3
    <3>2. data[0] = t[c + 1]
      BY <1>4, <3>1
    <3>3. c + 1 \in 1..Len(t)
      <4>1. c \in Nat
        BY <1>4
      <4>2. c + 1 \in 1..len
        BY <1>k, <1>5, <2>1, <2>3, <4>1
      <4> QED BY <1>l, <4>2
    <3>4. data[0] = "nl"
      BY <1>2, <2>1, <3>2, <3>3 DEF Feed
    <3>5. ~(0 \in line_start..(line_end - 1))
      BY <1>3, <3>4
    <3> QED BY <1>1, <1>3, <2>1, <3>5
  <2> QED BY <2>2, <2>3
<1>12. Feed(t, b)
  <2>1. CASE line_end < last
    BY <1>4, <2>1
  <2>2. CASE ~(line_end < last)
    <3>1. line_end = last /\ b = pos + 1
      BY <1>1, <1>3, <1>4, <1>5, <2>2
    <3>2. CASE pos = Len(t)
      BY <1>2, <3>1, <3>2 DEF Feed
    <3>3. CASE pos # Len(t)
      <4>1. last = BUFSIZE /\ line_start = 0 /\ cnt # 0
        BY <1>1, <1>6, <3>1, <3>3
      <4>2. AtLine(t, c)
        <5>1. BUFSIZE # 0
          BY GrepAssumption
        <5> QED BY <1>10, <1>11, <3>1, <4>1, <5>1
      <4>3. Feed(t, c) /\ c = pos - BUFSIZE
        BY <1>1, <1>5, <4>1, <4>2 DEF AtLine
      <4>4. pos \in 0..Len(t)
        BY <1>k, <1>l
      <4>5. PICK n \in (pos + 1)..(Len(t) + 1) : Feed(t, n) /\ \A j \in (pos + 1)..(n - 1) : ~Feed(t, j)
        BY <1>2, <4>4, NextFeed
      <4>6. \A j \in (c + 1)..(n - 1) : ~Feed(t, j)
        <5> SUFFICES ASSUME NEW j \in (c + 1)..(n - 1) PROVE ~Feed(t, j)
          OBVIOUS
        <5>1. j \in (c + 1)..(b - 1) \/ j \in (pos + 1)..(n - 1)
          BY <1>1, <1>4, <3>1, <4>5
        <5> QED BY <1>4, <4>5, <5>1
      <4>n. n \in (pos + 1)..(len + 1) /\ c \in Nat
        BY <1>4, <1>l, <4>5
      <4>m. n \in 1..(len + 1) /\ c < n
        BY <1>k, <4>3, <4>n
      <4>7. n \in 1..(Len(t) + 1) /\ c < n
        BY <1>l, <4>m
      <4>8. <<c, n>> \in Lines(t)
        BY <1>2, <1>4, <4>3, <4>5, <4>6, <4>7, LineAfter
      <4>9. n - c - 1 <= BUFSIZE
        BY <1>0, <4>8 DEF Fits
      <4>10. n = b
        BY <1>k, <3>1, <4>3, <4>n, <4>9
      <4> QED BY <4>5, <4>10
    <3> QED BY <3>2, <3>3
  <2> QED BY <2>1, <2>2
<1>13. InOrder(printed'[entry], t, Upto(t, b))
  <2>1. CASE AtLine(t, c)
    <3>1. Feed(t, c) /\ InOrder(printed[entry], t, Upto(t, c))
      BY <2>1 DEF AtLine
    <3>p. PICK p : p = printed[entry]
      OBVIOUS
    <3>q. PICK q : q = printed'[entry]
      OBVIOUS
    <3>2. /\ Sequence(p) /\ InOrder(p, t, Upto(t, c))
          /\ q = IF HasWord(t, <<c, b>>) THEN Append(p, Line(t, <<c, b>>)) ELSE p
      BY <1>8, <1>10, <3>1, <3>p, <3>q
    <3>3. InOrder(q, t, Upto(t, b))
      BY <1>2, <1>4, <1>12, <3>1, <3>2, PrintsNext
    <3> QED BY <3>q, <3>3
  <2>2. CASE AtFeed(t, c)
    <3>1. b = c + 1 /\ printed'[entry] = printed[entry]
      BY <1>4, <1>7, <1>9, <1>11, <2>2
    <3> QED BY <2>2, <3>1 DEF AtFeed
  <2> QED BY <1>10, <2>1, <2>2
<1>14. ASSUME line_end = last, cnt # 0 PROVE pos >= 1 /\ ~Feed(t, pos)
  <2>1. line_start < last
    BY <1>1, <1>14
  <2>2. pos \in (c + 1)..(b - 1) /\ pos >= 1
    BY <1>1, <1>4, <1>5, <1>14, <2>1
  <2> QED BY <1>4, <2>2
<1> QED BY <1>12, <1>13, <1>14

\* A turn of the loop searches a line, and reads on or ends after the last one.
LEMMA SearchKeeps == ASSUME GInv, SearchLine PROVE GInv'
<1> USE DEF GInv
<1>E. PICK E : E = line_end
    OBVIOUS
<1>d. PICK d : d = Ended
    OBVIOUS
<1>0. /\ pc = "line" /\ data' = d /\ UNCHANGED <<entries, search, entry, pos, cnt, dirty>>
      /\ IF E + 1 < last
         THEN line_start' = E + 1 /\ last' = last /\ pc' = "line"
         ELSE last' = 0 /\ pc' = (IF cnt = 0 THEN "next" ELSE "read") /\ line_start' = line_start
    BY <1>E, <1>d DEF SearchLine
<1>t. PICK t : t = Content
    OBVIOUS
<1>c. Content' = t
    BY <1>0, <1>t DEF Content
<1>1. /\ BUFSIZE \in Nat /\ BUFSIZE > 0 /\ Len(entries) \in Nat /\ entry \in 1..Len(entries)
      /\ last \in 0..BUFSIZE /\ line_start \in 0..BUFSIZE /\ pos \in Nat /\ pos <= Len(t)
      /\ cnt \in 0..BUFSIZE /\ cnt <= last
      /\ last = BUFSIZE \/ pos = Len(t)
      /\ cnt = 0 => pos = Len(t)
    BY <1>0, <1>t, GrepTypes DEF Buffer
<1>2. Len(t) \in Nat /\ DOMAIN t = 1..Len(t) /\ Len(search) \in Nat \ {0}
    BY <1>1, <1>t, GrepTypes DEF Content
<1>l. PICK len \in Nat : len = Len(t)
    BY <1>2
<1>k. pos \in Nat /\ pos <= len /\ last \in Nat /\ line_start \in Nat
    BY <1>1, <1>l
<1>3. E \in line_start..last /\ E \in 0..BUFSIZE
    BY <1>0, <1>E, LineEnd
<1>4. d = [j \in 0..BUFSIZE |-> IF j = E THEN "nul" ELSE data[j]]
    BY <1>0, <1>E, <1>d, EndedAt
<1>5. /\ printed' = [e \in 1..Len(entries) |-> printed'[e]]
      /\ \A e \in 1..Len(entries) : Sequence(printed'[e]) /\ (e # entry => printed'[e] = printed[e])
    BY PrintedBy
<1>6. Buffer'
  <2>1. data' = [j \in 0..BUFSIZE |-> data'[j]]
    BY <1>0, <1>4
  <2>2. ~dirty' => data'[BUFSIZE] # "nl"
    <3>1. data'[BUFSIZE] = "nul" \/ data'[BUFSIZE] = data[BUFSIZE]
      BY <1>0, <1>1, <1>4
    <3> QED BY <1>0, <3>1 DEF Buffer
  <2>3. /\ last' \in 0..BUFSIZE /\ line_start' \in 0..BUFSIZE
        /\ pc' \in {"next", "read", "line", "done", "failed"}
        /\ pc' = "read" => last' < BUFSIZE
        /\ pc' = "line" => (line_start' < last' /\ last' = last)
    <3>1. CASE E + 1 < last
      BY <1>0, <1>1, <1>3, <3>1
    <3>2. CASE ~(E + 1 < last)
      BY <1>0, <1>1, <3>2
    <3> QED BY <3>1, <3>2
  <2>4. /\ pos' <= Len(Content') /\ cnt' <= last /\ (last = BUFSIZE \/ pos' = Len(Content'))
        /\ cnt' = 0 => pos' = Len(Content')
    BY <1>0, <1>1, <1>c
  <2>5. /\ entries' \in Directories /\ search' \in Patterns
        /\ entry' \in 0..Len(entries') /\ entry' \in 1..Len(entries')
        /\ pos' \in Nat /\ cnt' \in 0..BUFSIZE
        /\ printed' = [e \in 1..Len(entries') |-> printed'[e]]
        /\ \A e \in 1..Len(entries') : Sequence(printed'[e])
    BY <1>0, <1>1, <1>5 DEF Buffer
  <2> QED BY <2>1, <2>2, <2>3, <2>4, <2>5 DEF Buffer
<1>p. PICK c : c = Passed
    OBVIOUS
<1>b. PICK b : b = c + 1 + line_end - line_start
    OBVIOUS
<1>7. c = pos - (last - line_start)
    BY <1>0, <1>p DEF Passed, Start
<1>8. b \in Int /\ b = pos - last + 1 + E
    BY <1>1, <1>3, <1>7, <1>b, <1>E
<1>9. Upto(t, b)' = Upto(t, b) /\ Upto(t, pos + 1)' = Upto(t, pos + 1) /\ Hits(t)' = Hits(t)
  <2>1. PICK z : z = pos + 1
    OBVIOUS
  <2>2. Upto(t, z)' = Upto(t, z)
    BY <1>0, HitsKept
  <2>3. Upto(t, pos + 1)' = Upto(t, z)
    BY <1>0, <2>1, <2>2
  <2> QED BY <1>0, <2>1, <2>3, HitsKept
<1>10. ASSUME Claimed(t)'
       PROVE  /\ Claimed(t) /\ Holds(t)
              /\ Feed(t, b) /\ InOrder(printed'[entry], t, Upto(t, b))
              /\ E = last /\ cnt # 0 => pos >= 1 /\ ~Feed(t, pos)
  <2>1. Claimed(t)
    BY <1>0, <1>10 DEF Claimed, IsText, Fits, Lines, Feed
  <2>2. Holds(t)
    BY <1>0, <1>t, <2>1 DEF Searching
  <2> QED BY <1>t, <1>E, <1>p, <1>b, <2>1, <2>2, TurnPrints
<1>11. Searching'
  <2> SUFFICES ASSUME pc' \in {"read", "line"}, Claimed(t)' PROVE Holds(t)'
    BY <1>c DEF Searching
  <2>1. /\ Holds(t) /\ Feed(t, b) /\ InOrder(printed'[entry'], t, Upto(t, b)')
        /\ E = last /\ cnt # 0 => pos >= 1 /\ ~Feed(t, pos)
    BY <1>0, <1>9, <1>10
  <2>2. AtLine(t, b)'
    BY <2>1 DEF AtLine
  <2>3. CASE E + 1 < last
    <3>1. Start' = E + 1 /\ last' = last /\ pos' = pos
      BY <1>0, <2>3 DEF Start
    <3>2. Passed' = b /\ b \in 0..Len(t)
      <4>1. Passed' = pos - (last - (E + 1))
        BY <3>1 DEF Passed
      <4>2. c \in Nat
        BY <1>p, <2>1 DEF Holds
      <4>3. E \in Nat /\ line_start <= E
        BY <1>k, <1>3
      <4>4. Passed' = b
        BY <1>k, <1>8, <4>1, <4>3
      <4>5. b \in 0..len
        BY <1>k, <1>7, <1>8, <2>3, <4>2, <4>3
      <4> QED BY <1>l, <4>4, <4>5
    <3>3. ASSUME NEW j \in (E + 1)..(last - 1) PROVE data'[j] = t[b + 1 + j - (E + 1)]
      <4>1. j \in line_start..(last - 1) /\ j \in 0..BUFSIZE /\ j # E
        BY <1>1, <1>3
      <4>2. data'[j] = data[j]
        BY <1>0, <1>4, <4>1
      <4>3. data[j] = t[c + 1 + j - line_start]
        BY <1>0, <1>p, <2>1, <4>1 DEF Holds, Start
      <4>4. c + 1 + j - line_start = b + 1 + j - (E + 1)
        BY <1>1, <1>3, <1>7, <1>8, <4>1
      <4> QED BY <4>2, <4>3, <4>4
    <3>4. AtLine(t, Passed)'
      BY <2>2, <3>2
    <3>5. \A j \in Start'..(last' - 1) : data'[j] = t[Passed' + 1 + j - Start']
      BY <3>1, <3>2, <3>3
    <3> QED BY <3>2, <3>4, <3>5 DEF Holds
  <2>4. CASE ~(E + 1 < last)
    <3>1. pc' = "read" /\ cnt # 0 /\ Start' = 0 /\ last' = 0 /\ pos' = pos
      BY <1>0, <2>4 DEF Start
    <3>x. PICK x : x = pos
      OBVIOUS
    <3>2. Passed' = x /\ x \in 0..Len(t)
      <4>1. Passed' = pos - (0 - 0)
        BY <3>1 DEF Passed
      <4>2. x \in 0..len
        BY <1>k, <3>x
      <4> QED BY <1>k, <1>l, <3>x, <4>1, <4>2
    <3>3. AtLine(t, x)' \/ AtFeed(t, x)'
      <4>1. CASE E = last
        <5>1. b = x + 1 /\ x \in 1..Len(t) /\ ~Feed(t, x)
          <6>1. x >= 1 /\ ~Feed(t, x)
            BY <2>1, <3>1, <3>x, <4>1
          <6>2. b = x + 1 /\ x \in 1..len
            BY <1>k, <1>8, <3>x, <4>1, <6>1
          <6> QED BY <1>l, <6>1, <6>2
        <5>2. Feed(t, x + 1) /\ InOrder(printed'[entry'], t, Upto(t, x + 1)')
          BY <2>1, <5>1
        <5> QED BY <3>1, <5>1, <5>2 DEF AtFeed
      <4>2. CASE E # last
        <5>1. b = x
          BY <1>1, <1>3, <1>8, <2>4, <3>x, <4>2
        <5> QED BY <2>2, <5>1
      <4> QED BY <4>1, <4>2
    <3>4. AtLine(t, Passed)' \/ AtFeed(t, Passed)'
      BY <3>2, <3>3
    <3>5. \A j \in Start'..(last' - 1) : data'[j] = t[Passed' + 1 + j - Start']
      BY <3>1
    <3> QED BY <3>2, <3>4, <3>5 DEF Holds
  <2> QED BY <2>3, <2>4
<1>12. Searched'
  <2>1. ASSUME NEW e \in 1..Len(entries), Over(e)', ~Over(e), Claimed(entries[e].content)'
        PROVE  InOrder(printed'[e], entries[e].content, Hits(entries[e].content)')
    <3>1. e = entry /\ pc' = "next"
      BY <1>0, <1>1, <2>1 DEF Over
    <3>2. entries[e].content = t
      BY <1>t, <3>1 DEF Content
    <3>3. cnt = 0 /\ pos = Len(t) /\ ~(E + 1 < last)
      BY <1>0, <1>1, <3>1
    <3>4. Claimed(t)'
      <4>1. entries'[e].content = t
        BY <1>0, <3>2
      <4> QED BY <2>1, <4>1
    <3>5. Feed(t, b) /\ InOrder(printed'[entry], t, Upto(t, b))
      BY <1>10, <3>4
    <3>6. b = Len(t) \/ b = Len(t) + 1
      BY <1>1, <1>2, <1>3, <1>8, <3>3
    <3>7. Sequence(printed'[entry])
      BY <1>1, <1>5
    <3>q. PICK q : q = printed'[entry]
      OBVIOUS
    <3>8. InOrder(q, t, Hits(t))
      BY <1>2, <3>5, <3>6, <3>7, <3>q, PrintsAll
    <3>9. Hits(entries[e].content)' = Hits(t)
      <4>1. entries'[e].content = t
        BY <1>0, <3>2
      <4> QED BY <1>9, <4>1
    <3> QED BY <3>1, <3>2, <3>8, <3>9, <3>q
  <2>2. entry' >= entry /\ entry' \in Nat
    BY <1>0, <1>1
  <2>3. ASSUME NEW e \in 1..Len(entries), e > entry' \/ Over(e) PROVE printed'[e] = printed[e]
    <3>1. e # entry
      BY <1>0, <1>1, <2>3 DEF Over
    <3> QED BY <1>5, <3>1
  <2> QED BY <1>0, <2>1, <2>2, <2>3, SearchedKept
<1> QED BY <1>6, <1>11, <1>12

\* Every step keeps the invariant.
LEMMA GrepStep == GInv /\ [GNext]_gvars => GInv'
<1> SUFFICES ASSUME GInv, [GNext]_gvars PROVE GInv'
    OBVIOUS
<1>1. CASE UNCHANGED gvars
  <2>1. /\ Content' = Content /\ Start' = Start /\ Passed' = Passed
    BY <1>1 DEF gvars, Content, Start, Passed
  <2>2. Buffer'
    BY <1>1 DEF GInv, Buffer, gvars, Content
  <2>3. Searching'
    BY <1>1 DEF GInv, Searching, Claimed, IsText, Fits, Holds, AtLine, AtFeed, Start, Passed,
                Upto, Hits, HasWord, Content, gvars
  <2>4. Searched'
    <3>1. UNCHANGED <<entries, search, entry, pc, printed, dirty>>
      BY <1>1 DEF gvars
    <3>2. \A e : Over(e)' <=> Over(e)
      BY <3>1 DEF Over
    <3>3. entry \in Nat
      BY GrepTypes DEF GInv, Buffer
    <3> QED BY <3>1, <3>2, <3>3, SearchedKept DEF GInv
  <2> QED BY <2>2, <2>3, <2>4 DEF GInv
<1> QED BY <1>1, NextEntryKeeps, EndKeeps, ReadKeeps, CarryKeeps, SearchKeeps DEF GNext

\* The search of grep keeps its invariant: the buffer holds what was read and
\* not yet searched, and what was searched is printed (ece391grep.c 21-59).
THEOREM GrepInvariance == GSpec => []GInv
<1>1. GInit => GInv
    BY GrepInit
<1> QED BY <1>1, GrepStep, PTL DEF GSpec

\* The indices of do_one_file stay in its buffer, for every size of the buffer
\* and every content, and every read has room (ece391grep.c 22-59).
THEOREM GrepTypeCorrect == GSpec => []GTypeOK
<1>1. GInv => GTypeOK
    BY DEF GInv, Buffer, GTypeOK
<1> QED BY <1>1, GrepInvariance, PTL

\* grep prints exactly the lines with the word, whole, once and in order, for
\* every size of the buffer, every directory of texts and every word, wherever
\* the reads cut the lines (ece391grep.c 21-58).
THEOREM GrepPrintsMatches == GSpec => []PrintsMatchesUnlessDirty
<1>1. GInv => PrintsMatchesUnlessDirty
  <2> SUFFICES ASSUME GInv, pc \in {"next", "done"}, ~dirty, NEW e \in 1..entry,
                      entries[e].kind = "file", IsText(entries[e].content), Fits(entries[e].content)
               PROVE  InOrder(printed[e], entries[e].content, Hits(entries[e].content))
    BY DEF PrintsMatchesUnlessDirty
  <2>1. e \in 1..Len(entries) /\ (e < entry \/ e = entry)
    <3>1. entry \in 0..Len(entries) /\ Len(entries) \in Nat
      BY GrepTypes DEF GInv, Buffer
    <3> QED BY <3>1
  <2>2. Over(e) /\ Claimed(entries[e].content)
    BY <2>1 DEF Over, Claimed
  <2> QED BY <2>1, <2>2 DEF GInv, Searched
<1> QED BY <1>1, GrepInvariance, PTL
=============================================================================
