----------------------------- MODULE ShellProofs -----------------------------
(***************************************************************************)
(* Commands, arguments and statuses, for every table size, every number of *)
(* terminals and every command line: the parser of execute finds the words *)
(* of a line of any length, and the processes keep what it found.          *)
(***************************************************************************)
EXTENDS Shell, FiniteSetTheorems, WellFoundedInduction, TLAPS

Letters == {"s", "e", "j", "k"}
Chars == Letters \cup {"sp", "nl"}

-----------------------------------------------------------------------------
(* The parser *)

\* A set of natural numbers that is not empty has a least element.
LEMMA LeastNat ==
    ASSUME NEW S, S \subseteq Nat, S # {}
    PROVE  \E i \in S : \A j \in S : i <= j
<1>1. PICK i \in S : \A j \in S : ~ (<<j, i>> \in OpToRel(<, Nat))
    BY NatLessThanWellFounded, WFMin
<1>2. \A j \in S : ~(j < i)
    BY <1>1 DEF OpToRel
<1> QED BY <1>2

\* A scan stops at the first position that ends it.
LEMMA FirstFromFacts ==
    ASSUME NEW i \in Nat, NEW S, S \subseteq Nat, \E j \in S : j >= i
    PROVE  /\ FirstFrom(i, S) \in S /\ FirstFrom(i, S) >= i
           /\ \A k \in S : k >= i => FirstFrom(i, S) <= k
<1> DEFINE U == {j \in S : j >= i}
<1>1. PICK m \in U : \A k \in U : m <= k
    BY LeastNat
<1>2. m \in S /\ m >= i /\ \A k \in S : k >= i => m <= k
    BY <1>1
<1> QED BY <1>2 DEF FirstFrom

\* Skipping spaces ends at the first character that is none, or at the NUL.
LEMMA StartFacts ==
    ASSUME NEW c \in Seq(Chars), NEW i \in 1..(Len(c) + 1)
    PROVE  /\ Start(c, i) \in i..(Len(c) + 1)
           /\ At(c, Start(c, i)) # "sp"
           /\ \A k \in i..(Start(c, i) - 1) : k \in 1..Len(c) /\ c[k] = "sp"
<1> DEFINE S == {j \in 1..(Len(c) + 1) : At(c, j) # "sp"}
<1>0. Len(c) \in Nat /\ i \in Nat
    OBVIOUS
<1>1. Len(c) + 1 \in S
    BY <1>0 DEF At
<1>2. S \subseteq Nat /\ \E j \in S : j >= i
    BY <1>0, <1>1
<1> HIDE DEF S
<1>3. /\ FirstFrom(i, S) \in S /\ FirstFrom(i, S) >= i
      /\ \A k \in S : k >= i => FirstFrom(i, S) <= k
    BY <1>0, <1>2, FirstFromFacts
<1>4. Start(c, i) = FirstFrom(i, S)
    BY DEF Start, S
<1>5. ASSUME NEW k \in i..(Start(c, i) - 1) PROVE k \in 1..Len(c) /\ c[k] = "sp"
  <2>1. k \in 1..Len(c) /\ k \notin S
    BY <1>0, <1>3, <1>4 DEF S
  <2> QED BY <1>0, <2>1 DEF S, At
<1> QED BY <1>0, <1>3, <1>4, <1>5 DEF S

\* A word ends before the first space, line feed or NUL.
LEMMA EndFacts ==
    ASSUME NEW c \in Seq(Chars), NEW i \in 1..(Len(c) + 1)
    PROVE  /\ End(c, i) \in i..(Len(c) + 1)
           /\ At(c, End(c, i)) \in {"sp", "nl", "nul"}
           /\ \A k \in i..(End(c, i) - 1) : k \in 1..Len(c) /\ c[k] \in Letters
<1> DEFINE S == {j \in 1..(Len(c) + 1) : At(c, j) \in {"sp", "nl", "nul"}}
<1>0. Len(c) \in Nat /\ i \in Nat
    OBVIOUS
<1>1. Len(c) + 1 \in S
    BY <1>0 DEF At
<1>2. S \subseteq Nat /\ \E j \in S : j >= i
    BY <1>0, <1>1
<1> HIDE DEF S
<1>3. /\ FirstFrom(i, S) \in S /\ FirstFrom(i, S) >= i
      /\ \A k \in S : k >= i => FirstFrom(i, S) <= k
    BY <1>0, <1>2, FirstFromFacts
<1>4. End(c, i) = FirstFrom(i, S)
    BY DEF End, S
<1>5. ASSUME NEW k \in i..(End(c, i) - 1) PROVE k \in 1..Len(c) /\ c[k] \in Letters
  <2>1. k \in 1..Len(c) /\ k \notin S
    BY <1>0, <1>3, <1>4 DEF S
  <2>2. c[k] \in Chars /\ c[k] \notin {"sp", "nl", "nul"}
    BY <1>0, <2>1 DEF S, At
  <2> QED BY <2>1, <2>2 DEF Chars
<1> QED BY <1>0, <1>3, <1>4, <1>5 DEF S

-----------------------------------------------------------------------------
(* The words of a line *)

\* Position i is part of a word: no space, and no line feed up to it.
Letter(c, i) == i \in 1..Len(c) /\ \A k \in 1..i : c[k] # "nl" /\ (k = i => c[k] # "sp")

\* The words of a command line, position by position.
LEMMA RunsAre ==
    ASSUME NEW c
    PROVE  Runs(c) = {r \in (1..Len(c)) \X (1..Len(c)) :
                        /\ r[1] <= r[2] /\ \A i \in r[1]..r[2] : Letter(c, i)
                        /\ ~Letter(c, r[1] - 1) /\ ~Letter(c, r[2] + 1)}
BY DEF Runs, Letter

\* There are finitely many words, and two of them do not touch.
LEMMA RunsApart ==
    ASSUME NEW c \in Seq(Chars)
    PROVE  /\ IsFiniteSet(Runs(c))
           /\ \A x, y \in Runs(c) : x[1] <= y[1] /\ y[1] <= x[2] + 1 => x = y
<1>1. IsFiniteSet((1..Len(c)) \X (1..Len(c)))
  <2>1. 1 \in Int /\ Len(c) \in Int
    OBVIOUS
  <2>2. IsFiniteSet(1..Len(c))
    BY <2>1, FS_Interval
  <2> QED BY <2>2, FS_Product
<1>2. IsFiniteSet(Runs(c))
  <2>1. Runs(c) \in SUBSET ((1..Len(c)) \X (1..Len(c)))
    BY RunsAre
  <2> QED BY <1>1, <2>1, FS_Subset
<1>3. ASSUME NEW x \in Runs(c), NEW y \in Runs(c), x[1] <= y[1], y[1] <= x[2] + 1
      PROVE  x = y
  <2>1. /\ x \in (1..Len(c)) \X (1..Len(c)) /\ x[1] <= x[2]
        /\ \A i \in x[1]..x[2] : Letter(c, i)
        /\ ~Letter(c, x[1] - 1) /\ ~Letter(c, x[2] + 1)
    BY RunsAre
  <2>2. /\ y \in (1..Len(c)) \X (1..Len(c)) /\ y[1] <= y[2]
        /\ \A i \in y[1]..y[2] : Letter(c, i)
        /\ ~Letter(c, y[1] - 1) /\ ~Letter(c, y[2] + 1)
    BY RunsAre
  <2>3. /\ x[1] \in Nat /\ x[2] \in Nat /\ y[1] \in Nat /\ y[2] \in Nat
        /\ x = <<x[1], x[2]>> /\ y = <<y[1], y[2]>>
    BY <2>1, <2>2
  <2>4. x[1] = y[1]
    <3> SUFFICES ASSUME x[1] < y[1] PROVE FALSE
      BY <1>3, <2>3
    <3>1. y[1] - 1 \in x[1]..x[2]
      BY <1>3, <2>3
    <3> QED BY <2>1, <2>2, <3>1
  <2>5. x[2] = y[2]
    <3>1. ~(x[2] < y[2])
      <4> SUFFICES ASSUME x[2] < y[2] PROVE FALSE
        OBVIOUS
      <4>1. x[2] + 1 \in y[1]..y[2]
        BY <2>1, <2>3, <2>4
      <4> QED BY <2>1, <2>2, <4>1
    <3>2. ~(y[2] < x[2])
      <4> SUFFICES ASSUME y[2] < x[2] PROVE FALSE
        OBVIOUS
      <4>1. y[2] + 1 \in x[1]..x[2]
        BY <2>2, <2>3, <2>4
      <4> QED BY <2>1, <2>2, <4>1
    <3> QED BY <2>3, <3>1, <3>2
  <2> QED BY <2>3, <2>4, <2>5
<1> QED BY <1>2, <1>3

\* What execute's parser finds in a line with a command is its first two words.
LEMMA ParserFinds ==
    ASSUME NEW c \in Seq(Chars), cmd(c) # <<>>
    PROVE  cmd(c) = Word(c, 1) /\ arg(c) = Word(c, 2)
<1> DEFINE s1 == Start(c, 1)
           e1 == End(c, s1)
           s2 == Start(c, e1)
           e2 == End(c, s2)
           f == <<s1, e1 - 1>>
           g == <<s2, e2 - 1>>
<1>0. Len(c) \in Nat /\ 1 \in 1..(Len(c) + 1)
    OBVIOUS
<1>1. /\ s1 \in 1..(Len(c) + 1)
      /\ \A k \in 1..(s1 - 1) : k \in 1..Len(c) /\ c[k] = "sp"
    BY <1>0, StartFacts
<1>2. /\ e1 \in s1..(Len(c) + 1) /\ At(c, e1) \in {"sp", "nl", "nul"}
      /\ \A k \in s1..(e1 - 1) : k \in 1..Len(c) /\ c[k] \in Letters
    BY <1>1, EndFacts
<1>3. e1 \in 1..(Len(c) + 1)
    BY <1>0, <1>1, <1>2
<1>4. /\ s2 \in e1..(Len(c) + 1) /\ At(c, s2) # "sp"
      /\ \A k \in e1..(s2 - 1) : k \in 1..Len(c) /\ c[k] = "sp"
    BY <1>3, StartFacts
<1>5. s2 \in 1..(Len(c) + 1)
    BY <1>0, <1>3, <1>4
<1>6. /\ e2 \in s2..(Len(c) + 1) /\ At(c, e2) \in {"sp", "nl", "nul"}
      /\ \A k \in s2..(e2 - 1) : k \in 1..Len(c) /\ c[k] \in Letters
    BY <1>5, EndFacts
<1>7. cmd(c) = SubSeq(c, s1, e1 - 1) /\ arg(c) = SubSeq(c, s2, e2 - 1)
    BY DEF cmd, arg
<1> HIDE DEF s1, e1, s2, e2
<1>8. s1 \in Nat /\ e1 \in Nat /\ s2 \in Nat /\ e2 \in Nat
    BY <1>0, <1>1, <1>2, <1>3, <1>4, <1>5, <1>6
<1>9. s1 < e1
  <2> SUFFICES ASSUME s1 >= e1 PROVE FALSE
    BY <1>8
  <2>1. SubSeq(c, s1, e1 - 1) = <<>>
    BY <1>0, <1>1, <1>2, <1>8
  <2> QED BY <2>1, <1>7
<1>10. \A k \in 1..(e1 - 1) : k \in 1..Len(c) /\ c[k] # "nl"
  <2>1. \A k \in 1..(e1 - 1) : k \in 1..(s1 - 1) \/ k \in s1..(e1 - 1)
    BY <1>8
  <2>2. "nl" \notin Letters
    BY DEF Letters
  <2> QED BY <1>1, <1>2, <2>1, <2>2
<1>11. f \in Runs(c)
  <2>1. s1 \in 1..Len(c) /\ e1 - 1 \in 1..Len(c) /\ s1 <= e1 - 1
    BY <1>0, <1>1, <1>2, <1>8, <1>9
  <2>2. ASSUME NEW i \in s1..(e1 - 1) PROVE Letter(c, i)
    <3>1. i \in 1..Len(c) /\ c[i] # "sp" /\ i \in Nat /\ i <= e1 - 1
      BY <1>2, <1>8 DEF Letters
    <3>2. \A k \in 1..i : k \in 1..(e1 - 1)
      BY <1>8, <3>1
    <3> QED BY <1>10, <3>1, <3>2 DEF Letter
  <2>3. ~Letter(c, s1 - 1)
    <3>1. s1 - 1 \in 1..Len(c) => c[s1 - 1] = "sp" /\ s1 - 1 \in 1..(s1 - 1)
      BY <1>1, <1>8
    <3> QED BY <3>1 DEF Letter
  <2>4. ~Letter(c, e1)
    <3>1. e1 \in 1..Len(c) => c[e1] \in {"sp", "nl", "nul"} /\ e1 \in 1..e1
      BY <1>0, <1>2, <1>8 DEF At
    <3>2. e1 \in 1..Len(c) => c[e1] # "nul"
      BY DEF Chars, Letters
    <3> QED BY <3>1, <3>2 DEF Letter
  <2>5. (e1 - 1) + 1 = e1
    BY <1>8
  <2> QED BY <2>1, <2>2, <2>3, <2>4, <2>5, RunsAre
<1>12. ASSUME NEW y \in Runs(c)
       PROVE  /\ y \in Nat \X Nat /\ y[1] <= y[2] /\ y[1] \in 1..Len(c)
              /\ c[y[1]] # "sp" /\ \A k \in 1..y[1] : c[k] # "nl"
  <2>1. y \in (1..Len(c)) \X (1..Len(c)) /\ y[1] <= y[2] /\ \A i \in y[1]..y[2] : Letter(c, i)
    BY RunsAre
  <2>2. y[1] \in 1..Len(c) /\ y[2] \in 1..Len(c) /\ y[1] \in y[1]..y[2] /\ y[1] \in 1..y[1]
        /\ y = <<y[1], y[2]>>
    BY <2>1
  <2>3. Letter(c, y[1])
    BY <2>1, <2>2
  <2> QED BY <1>0, <2>1, <2>2, <2>3 DEF Letter
<1>13. ASSUME NEW y \in Runs(c) PROVE y[1] >= s1
  <2> SUFFICES ASSUME y[1] < s1 PROVE FALSE
    BY <1>8, <1>12
  <2>1. y[1] \in 1..(s1 - 1)
    BY <1>8, <1>12
  <2> QED BY <1>1, <1>12, <2>1
<1>14. ASSUME NEW y \in Runs(c), y # f PROVE y[1] >= s2
  <2>1. y[1] > e1
    <3> SUFFICES ASSUME y[1] <= e1 PROVE FALSE
      BY <1>8, <1>12
    <3>1. f[1] <= y[1] /\ y[1] <= f[2] + 1
      BY <1>8, <1>13
    <3> QED BY <1>11, <1>14, <3>1, RunsApart
  <2> SUFFICES ASSUME y[1] < s2 PROVE FALSE
    BY <1>8, <1>12
  <2>2. y[1] \in e1..(s2 - 1)
    BY <1>8, <1>12, <2>1
  <2> QED BY <1>4, <1>12, <2>2
<1> DEFINE Before(x) == {y \in Runs(c) : y[1] < x[1]}
<1>15. \A x : IsFiniteSet(Before(x))
    BY RunsApart, FS_Subset
<1>16. f[1] = s1 /\ g[1] = s2 /\ f[2] = e1 - 1 /\ g[2] = e2 - 1 /\ s2 > s1
    BY <1>4, <1>8, <1>9
<1>17. Before(f) = {}
    BY <1>8, <1>12, <1>13, <1>16
<1>18. ~(Cardinality(Runs(c)) < 1)
  <2>1. Cardinality(Runs(c)) \in Nat /\ Cardinality(Runs(c)) # 0
    BY <1>11, RunsApart, FS_CardinalityType, FS_EmptySet
  <2> QED BY <2>1
<1>19. Word(c, 1) = SubSeq(c, s1, e1 - 1)
  <2>1. Cardinality(Before(f)) = 0
    BY <1>17, FS_EmptySet
  <2>2. ASSUME NEW x \in Runs(c), Cardinality(Before(x)) = 0 PROVE x = f
    <3>1. Before(x) = {}
      BY <1>15, <2>2, FS_EmptySet
    <3>2. ~(s1 < x[1])
      BY <1>11, <1>16, <3>1
    <3>3. x[1] = s1
      BY <1>8, <1>12, <1>13, <3>2
    <3>4. f[1] <= x[1] /\ x[1] <= f[2] + 1
      BY <1>8, <1>9, <1>16, <3>3
    <3> QED BY <1>11, <3>4, RunsApart
  <2>3. \A x \in Runs(c) : Cardinality(Before(x)) = 1 - 1 <=> x = f
    <3> HIDE DEF Before, f
    <3> QED BY <2>1, <2>2
  <2>4. (CHOOSE x \in Runs(c) : Cardinality(Before(x)) = 1 - 1) = f
    <3> HIDE DEF Before, f
    <3> QED BY <1>11, <2>3, Zenon
  <2> QED BY <1>16, <1>18, <2>4 DEF Word
<1>20. Word(c, 2) = SubSeq(c, s2, e2 - 1)
  <2>1. CASE s2 = e2
    <3>1. s2 = Len(c) + 1 \/ (s2 \in 1..Len(c) /\ c[s2] = "nl")
      <4>1. At(c, s2) \in {"nl", "nul"}
        BY <1>4, <1>6, <2>1
      <4>2. s2 \in 1..Len(c) => c[s2] # "nul" /\ At(c, s2) = c[s2]
        BY <1>0 DEF Chars, Letters, At
      <4> QED BY <1>0, <1>5, <4>1, <4>2
    <3>2. ASSUME NEW y \in Runs(c) PROVE y = f
      <4> SUFFICES ASSUME y # f PROVE FALSE
        OBVIOUS
      <4>1. y[1] >= s2 /\ y[1] \in 1..Len(c) /\ \A k \in 1..y[1] : c[k] # "nl"
        BY <1>12, <1>14
      <4>2. s2 \in 1..y[1]
        BY <1>0, <1>5, <1>8, <4>1
      <4> QED BY <1>0, <1>8, <3>1, <4>1, <4>2
    <3>3. Runs(c) = {f}
      BY <1>11, <3>2
    <3>4. Cardinality(Runs(c)) = 1
      BY <3>3, FS_Singleton
    <3>5. Word(c, 2) = <<>>
      BY <3>4 DEF Word
    <3>6. SubSeq(c, s2, e2 - 1) = <<>>
      BY <1>0, <1>5, <1>8, <2>1
    <3> QED BY <3>5, <3>6
  <2>2. CASE s2 < e2
    <3>1. \A k \in 1..(e2 - 1) : k \in 1..Len(c) /\ c[k] # "nl"
      <4>1. \A k \in 1..(e2 - 1) : k \in 1..(e1 - 1) \/ k \in e1..(s2 - 1) \/ k \in s2..(e2 - 1)
        BY <1>8
      <4>2. "nl" \notin Letters
        BY DEF Letters
      <4> QED BY <1>4, <1>6, <1>10, <4>1, <4>2
    <3>2. s2 > e1
      <4> SUFFICES ASSUME s2 = e1 PROVE FALSE
        BY <1>4, <1>8
      <4>1. s2 \in s2..(e2 - 1)
        BY <1>8, <2>2
      <4>2. s2 \in 1..Len(c) /\ c[s2] \in Letters
        BY <1>6, <4>1
      <4>3. At(c, s2) = c[s2]
        BY <1>0, <4>2 DEF At
      <4> QED BY <1>2, <4>2, <4>3 DEF Letters
    <3>3. g \in Runs(c)
      <4>1. s2 \in 1..Len(c) /\ e2 - 1 \in 1..Len(c) /\ s2 <= e2 - 1
        BY <1>0, <1>5, <1>6, <1>8, <2>2
      <4>2. ASSUME NEW i \in s2..(e2 - 1) PROVE Letter(c, i)
        <5>1. i \in 1..Len(c) /\ c[i] # "sp" /\ i \in Nat /\ i <= e2 - 1
          BY <1>6, <1>8 DEF Letters
        <5>2. \A k \in 1..i : k \in 1..(e2 - 1)
          BY <1>8, <5>1
        <5> QED BY <3>1, <5>1, <5>2 DEF Letter
      <4>3. ~Letter(c, s2 - 1)
        <5>1. c[s2 - 1] = "sp" /\ s2 - 1 \in 1..(s2 - 1)
          BY <1>4, <1>8, <1>9, <3>2
        <5> QED BY <5>1 DEF Letter
      <4>4. ~Letter(c, e2)
        <5>1. e2 \in 1..Len(c) => c[e2] \in {"sp", "nl", "nul"} /\ e2 \in 1..e2
          BY <1>0, <1>6, <1>8 DEF At
        <5>2. e2 \in 1..Len(c) => c[e2] # "nul"
          BY DEF Chars, Letters
        <5> QED BY <5>1, <5>2 DEF Letter
      <4>5. (e2 - 1) + 1 = e2
        BY <1>8
      <4> QED BY <4>1, <4>2, <4>3, <4>4, <4>5, RunsAre
    <3>4. f # g
      BY <1>8, <1>16
    <3>5. Before(g) = {f}
      <4>1. f \in Before(g)
        BY <1>11, <1>16
      <4>2. ASSUME NEW y \in Before(g) PROVE y = f
        BY <1>8, <1>12, <1>14, <1>16
      <4> QED BY <4>1, <4>2
    <3>6. Cardinality(Before(g)) = 1
      BY <3>5, FS_Singleton
    <3>7. ASSUME NEW x \in Runs(c), Cardinality(Before(x)) = 1 PROVE x = g
      <4>1. PICK z : Before(x) = {z}
        BY <1>15, <3>7, FS_Singleton
      <4>2. x # f
        BY <1>17, <4>1
      <4>3. x[1] >= s2 /\ x[1] \in Nat
        BY <1>12, <1>14, <4>2
      <4>4. f \in Before(x)
        BY <1>8, <1>11, <1>16, <4>3
      <4>5. g \notin Before(x)
        BY <3>4, <4>1, <4>4
      <4>6. x[1] = s2
        BY <1>8, <1>16, <3>3, <4>3, <4>5
      <4>7. g[1] <= x[1] /\ x[1] <= g[2] + 1
        BY <1>8, <1>16, <2>2, <4>6
      <4> QED BY <3>3, <4>7, RunsApart
    <3>8. (CHOOSE x \in Runs(c) : Cardinality(Before(x)) = 2 - 1) = g
      <4> HIDE DEF Before, g
      <4>1. \A x \in Runs(c) : Cardinality(Before(x)) = 2 - 1 <=> x = g
        BY <3>6, <3>7
      <4> QED BY <3>3, <4>1, Zenon
    <3>9. ~(Cardinality(Runs(c)) < 2)
      <4>1. Cardinality(Runs(c)) \in Nat /\ Cardinality(Runs(c)) # 1
        <5>1. ~ \E z : Runs(c) = {z}
          BY <1>11, <3>3, <3>4
        <5> QED BY <5>1, RunsApart, FS_CardinalityType, FS_Singleton
      <4> QED BY <1>18, <4>1
    <3> QED BY <1>16, <3>8, <3>9 DEF Word
  <2> QED BY <1>6, <1>8, <2>1, <2>2
<1> QED BY <1>7, <1>19, <1>20

\* Letters at consecutive places make a sequence of letters.
LEMMA SeqOfLetters ==
    ASSUME NEW c, NEW a \in Int, NEW n \in Nat, NEW q,
           q = [i \in 1..n |-> c[a + i - 1]], \A i \in 1..n : c[a + i - 1] \in Letters
    PROVE  q \in Seq(Letters)
OBVIOUS

\* The words a line is cut into are made of letters.
LEMMA WordTypes ==
    ASSUME NEW c \in Seq(Chars)
    PROVE  cmd(c) \in Seq(Letters) /\ arg(c) \in Seq(Letters)
<1> DEFINE s1 == Start(c, 1)
           e1 == End(c, s1)
           s2 == Start(c, e1)
           e2 == End(c, s2)
<1>0. Len(c) \in Nat /\ 1 \in 1..(Len(c) + 1)
    OBVIOUS
<1>1. s1 \in 1..(Len(c) + 1)
    BY <1>0, StartFacts
<1>2. /\ e1 \in s1..(Len(c) + 1)
      /\ \A k \in s1..(e1 - 1) : k \in 1..Len(c) /\ c[k] \in Letters
    BY <1>1, EndFacts
<1>3. e1 \in 1..(Len(c) + 1)
    BY <1>0, <1>1, <1>2
<1>4. s2 \in e1..(Len(c) + 1)
    BY <1>3, StartFacts
<1>5. s2 \in 1..(Len(c) + 1)
    BY <1>0, <1>3, <1>4
<1>6. /\ e2 \in s2..(Len(c) + 1)
      /\ \A k \in s2..(e2 - 1) : k \in 1..Len(c) /\ c[k] \in Letters
    BY <1>5, EndFacts
<1>7. cmd(c) = SubSeq(c, s1, e1 - 1) /\ arg(c) = SubSeq(c, s2, e2 - 1)
    BY DEF cmd, arg
<1> HIDE DEF s1, e1, s2, e2
<1>8. ASSUME NEW a \in 1..(Len(c) + 1), NEW b \in a..(Len(c) + 1),
             \A k \in a..(b - 1) : k \in 1..Len(c) /\ c[k] \in Letters
      PROVE  SubSeq(c, a, b - 1) \in Seq(Letters)
  <2>1. SubSeq(c, a, b - 1) = [i \in 1..(b - a) |-> c[a + i - 1]]
    BY <1>0, <1>8
  <2>2. \A i \in 1..(b - a) : a + i - 1 \in a..(b - 1)
    BY <1>0
  <2>3. \A i \in 1..(b - a) : c[a + i - 1] \in Letters
    BY <1>8, <2>2
  <2>4. b - a \in Nat
    BY <1>0
  <2>5. a \in Int
    BY <1>0
  <2> QED BY <2>1, <2>3, <2>4, <2>5, SeqOfLetters
<1> QED BY <1>1, <1>2, <1>5, <1>6, <1>7, <1>8

\* The kernel starts a shell with the line that is the shell's name.
LEMMA ShellLineParsed ==
    /\ ShellName \in Seq(Chars)
    /\ cmd(ShellName) = ShellName /\ arg(ShellName) = <<>>
<1>1. ShellName \in Seq(Chars) /\ Len(ShellName) = 1 /\ ShellName[1] = "s"
    BY DEF ShellName, Chars, Letters
<1>2. Start(ShellName, 1) = 1
  <2>1. 1 \in 1..(Len(ShellName) + 1)
    BY <1>1
  <2>2. Start(ShellName, 1) \in 1..2
        /\ \A k \in 1..(Start(ShellName, 1) - 1) : ShellName[k] = "sp"
    BY <1>1, <2>1, StartFacts
  <2> QED BY <1>1, <2>2
<1>3. End(ShellName, 1) = 2
  <2>1. 1 \in 1..(Len(ShellName) + 1)
    BY <1>1
  <2>2. /\ End(ShellName, 1) \in 1..(Len(ShellName) + 1)
        /\ At(ShellName, End(ShellName, 1)) \in {"sp", "nl", "nul"}
    BY <1>1, <2>1, EndFacts
  <2>3. End(ShellName, 1) \in 1..2 /\ At(ShellName, 1) = "s"
    BY <1>1, <2>2 DEF At
  <2>4. End(ShellName, 1) # 1
    BY <2>2, <2>3
  <2> QED BY <2>3, <2>4
<1>4. Start(ShellName, 2) = 2 /\ End(ShellName, 2) = 2
  <2>1. 2 \in 1..(Len(ShellName) + 1)
    BY <1>1
  <2>2. /\ Start(ShellName, 2) \in 2..(Len(ShellName) + 1)
        /\ End(ShellName, 2) \in 2..(Len(ShellName) + 1)
    BY <1>1, <2>1, StartFacts, EndFacts
  <2> QED BY <1>1, <2>2
<1>5. SubSeq(ShellName, 1, 1) = ShellName /\ SubSeq(ShellName, 2, 1) = <<>>
  <2>1. SubSeq(ShellName, 1, 1) = [i \in 1..1 |-> ShellName[i]]
    BY <1>1
  <2>2. ShellName = [i \in 1..1 |-> ShellName[i]]
    BY <1>1
  <2>3. SubSeq(ShellName, 2, 1) = <<>>
    BY <1>1
  <2> QED BY <2>1, <2>2, <2>3
<1>6. End(ShellName, Start(ShellName, 1)) = 2
    BY <1>2, <1>3, Zenon
<1>7. Start(ShellName, End(ShellName, Start(ShellName, 1))) = 2
    BY <1>4, <1>6, Zenon
<1>8. End(ShellName, Start(ShellName, End(ShellName, Start(ShellName, 1)))) = 2
    BY <1>4, <1>7, Zenon
<1>9. /\ End(ShellName, Start(ShellName, 1)) - 1 = 1
      /\ End(ShellName, Start(ShellName, End(ShellName, Start(ShellName, 1)))) - 1 = 1
    BY <1>6, <1>8
<1> QED BY <1>1, <1>2, <1>5, <1>7, <1>9, Zenon DEF cmd, arg

-----------------------------------------------------------------------------
(* The inductive invariant *)

FateType == [kind : Kinds, status : Int, child : Slots \cup {0}]
TaskType ==
  [program : Executables, line : Lines \cup {ShellName}, caller : Slots \cup {0},
   rval : Statuses \cup {-1, 0, Exception}, fate : FateType,
   got : [asked : BOOLEAN, n : Int, ret : {-1, 0}, text : Seq(Letters)]]

Types == /\ stack \in [Terminals -> Seq(Slots)]
         /\ argument \in [Slots -> Seq(Letters)]
         /\ task \in [Slots -> TaskType]

\* A slot is in one place of one terminal's chain only.
Apart ==
  \A t, u \in Terminals : \A i \in 1..Len(stack[t]), j \in 1..Len(stack[u]) :
    stack[t][i] = stack[u][j] => t = u /\ i = j

BaseShells ==
  \A t \in Terminals : stack[t] # <<>> => task[stack[t][1]].program = ShellName

\* What getargs gave, against the argument a of the process.
Answered(got, a) ==
  got.asked =>
    /\ got.ret = (IF a = <<>> \/ got.n < 0 THEN -1 ELSE 0)
    /\ got.ret = 0 => \E k \in 0..Len(a) : /\ got.text = SubSeq(a, 1, k)
                                           /\ k = Len(a) \/ k = got.n

\* A process and the argument in its PCB, against its command line.
Obedient(k, a) == /\ k.program = Word(k.line, 1) /\ a = Word(k.line, 2)
                  /\ Answered(k.got, a)
AllObedient ==
  \A t \in Terminals : \A i \in 1..Len(stack[t]) :
    Obedient(task[stack[t][i]], argument[stack[t][i]])

\* A process whose last call of execute has returned, with the value due to it.
Settled(k) == k.fate.kind # "running" /\ k.rval = Due(k.fate)

\* The last process of a chain has its value; each process before it waits for
\* the next one, which is the one that returns into its frame.
Linked ==
  \A t \in Terminals : \A i \in 1..Len(stack[t]) :
    IF i = Len(stack[t]) THEN Settled(task[stack[t][i]])
    ELSE /\ task[stack[t][i]].fate = Fate("running", 0, stack[t][i + 1])
         /\ task[stack[t][i + 1]].caller = stack[t][i]

SInv == Types /\ Apart /\ BaseShells /\ AllObedient /\ Linked

\* Two states of one process that differ only in what its execute gave.
Like(a, b) == /\ a.program = b.program /\ a.line = b.line
              /\ a.got = b.got /\ a.caller = b.caller

\* A chain keep as a call of execute by its last process leaves it: that process
\* waits for the new one in slot s and is the one that s returns to.
Calling(keep, s, from, others) ==
  \A i \in 1..Len(keep) :
    /\ Like(others[keep[i]], task[keep[i]])
    /\ i # Len(keep) => others[keep[i]] = task[keep[i]]
    /\ i = Len(keep) => others[keep[i]].fate = Fate("running", 0, s) /\ from = keep[i]

\* The process of a new slot: well typed, obedient, with nothing to report.
LEMMA NewTask ==
    ASSUME NEW c \in Lines \cup {ShellName}, cmd(c) \in Executables,
           NEW from \in Slots \cup {0}
    PROVE  /\ Task(cmd(c), c, from) \in TaskType
           /\ Obedient(Task(cmd(c), c, from), arg(c))
           /\ Settled(Task(cmd(c), c, from))
           /\ arg(c) \in Seq(Letters)
           /\ Task(cmd(c), c, from).program = cmd(c)
           /\ Task(cmd(c), c, from).caller = from
<1>1. c \in Seq(Chars)
  <2>1. Chars = {"s", "e", "j", "k", "sp", "nl"}
    BY DEF Chars, Letters
  <2> QED BY <2>1, ShellConstants, ShellLineParsed
<1>2. cmd(c) # <<>>
    BY DEF Executables, ShellName, JobName
<1>3. cmd(c) = Word(c, 1) /\ arg(c) = Word(c, 2)
    BY <1>1, <1>2, ParserFinds
<1>4. arg(c) \in Seq(Letters)
    BY <1>1, WordTypes
<1>5. Task(cmd(c), c, from) \in TaskType
  <2>1. NoArgs \in [asked : BOOLEAN, n : Int, ret : {-1, 0}, text : Seq(Letters)]
    BY DEF NoArgs
  <2>2. NoCommand \in FateType
    BY DEF NoCommand, Fate, FateType, Kinds
  <2> QED BY <2>1, <2>2 DEF Task, TaskType
<1>6. Obedient(Task(cmd(c), c, from), arg(c))
    BY <1>3 DEF Obedient, Answered, Task, NoArgs
<1>7. Settled(Task(cmd(c), c, from))
    BY DEF Settled, Task, NoCommand, Fate, Due
<1> QED BY <1>4, <1>5, <1>6, <1>7 DEF Task

\* The first terminal starts with a shell.
LEMMA SInit == Init => SInv
<1> SUFFICES ASSUME Init PROVE SInv
    OBVIOUS
<1>1. ShellName \in Executables /\ cmd(ShellName) = ShellName /\ arg(ShellName) = <<>>
    BY ShellLineParsed DEF Executables
<1>2. /\ NoTask \in TaskType /\ Obedient(NoTask, <<>>) /\ Settled(NoTask)
      /\ NoTask.program = ShellName
  <2>1. NoTask = Task(cmd(ShellName), ShellName, 0)
    BY <1>1 DEF NoTask
  <2> QED BY <1>1, <2>1, NewTask
<1>3. /\ 1 \in Slots
      /\ \A t \in Terminals : stack[t] = IF t = 0 THEN <<1>> ELSE <<>>
    BY ShellConstants DEF Init, Slots
<1>4. \A t \in Terminals : \A i \in 1..Len(stack[t]) : i = 1 /\ stack[t][i] = 1 /\ t = 0
  <2> SUFFICES ASSUME NEW t \in Terminals, NEW i \in 1..Len(stack[t])
               PROVE  i = 1 /\ stack[t][i] = 1 /\ t = 0
    OBVIOUS
  <2>1. CASE t = 0
    <3>1. stack[t] = <<1>>
      BY <1>3, <2>1
    <3>2. Len(stack[t]) = 1 /\ stack[t][1] = 1
      BY <3>1
    <3> QED BY <2>1, <3>2
  <2>2. CASE t # 0
    BY <1>3, <2>2
  <2> QED BY <2>1, <2>2
<1>5. Types
  <2>1. \A t \in Terminals : stack[t] \in Seq(Slots)
    <3>1. <<1>> \in Seq(Slots) /\ <<>> \in Seq(Slots)
      BY <1>3
    <3> QED BY <1>3, <3>1
  <2>2. stack \in [Terminals -> Seq(Slots)]
    BY <2>1 DEF Init
  <2> QED BY <1>2, <2>2 DEF Init, Types
<1>6. Apart
    BY <1>4 DEF Apart
<1>7. BaseShells
  <2>1. \A t \in Terminals : stack[t] # <<>> => stack[t][1] = 1
    BY <1>3
  <2> QED BY <1>2, <1>3, <2>1 DEF Init, BaseShells
<1>8. AllObedient
    BY <1>2, <1>3, <1>4 DEF Init, AllObedient
<1>9. Linked
  <2> SUFFICES ASSUME NEW t \in Terminals, NEW i \in 1..Len(stack[t])
               PROVE  i = Len(stack[t]) /\ Settled(task[stack[t][i]])
    BY DEF Linked
  <2>1. i = 1 /\ stack[t][i] = 1 /\ t = 0
    BY <1>4
  <2>2. stack[t] = <<1>>
    BY <1>3, <2>1
  <2>3. Len(stack[t]) = 1
    BY <2>2
  <2> QED BY <1>2, <1>3, <2>1, <2>3 DEF Init
<1> QED BY <1>5, <1>6, <1>7, <1>8, <1>9 DEF SInv

\* A process put on a terminal's chain, or in place of all of it, in a slot that
\* is in use nowhere else: execute and the shell that replaces a last process.
LEMMA Launched ==
    ASSUME SInv, NEW t \in Terminals, NEW s \in Slots,
           NEW c \in Lines \cup {ShellName}, cmd(c) \in Executables,
           NEW keep \in Seq(Slots), keep = stack[t] \/ keep = <<>>,
           keep = <<>> => c = ShellName,
           \A i \in 1..Len(keep) : keep[i] # s,
           \A u \in Terminals \ {t} : \A i \in 1..Len(stack[u]) : stack[u][i] # s,
           NEW from \in Slots \cup {0}, NEW others \in [Slots -> TaskType],
           Calling(keep, s, from, others),
           \A u \in Terminals \ {t} : \A i \in 1..Len(stack[u]) :
                others[stack[u][i]] = task[stack[u][i]],
           Launch(t, s, c, Append(keep, s), from, others)
    PROVE  SInv' /\ \A u \in Terminals : stack[u] # <<>> => stack'[u] # <<>>
<1> DEFINE L == Append(keep, s)
           k == Task(cmd(c), c, from)
<1>1. /\ k \in TaskType /\ Obedient(k, arg(c)) /\ Settled(k)
      /\ arg(c) \in Seq(Letters) /\ k.program = cmd(c) /\ k.caller = from
    BY NewTask
<1>2. /\ L \in Seq(Slots) /\ Len(L) = Len(keep) + 1 /\ L[Len(L)] = s /\ Len(keep) \in Nat
      /\ \A i \in 1..Len(L) : i = Len(L) \/ (i \in 1..Len(keep) /\ L[i] = keep[i])
      /\ L # <<>>
  <2>1. /\ L \in Seq(Slots) /\ Len(L) = Len(keep) + 1 /\ L[Len(keep) + 1] = s
        /\ Len(keep) \in Nat
    OBVIOUS
  <2>2. \A i \in 1..Len(keep) : L[i] = keep[i]
    OBVIOUS
  <2> HIDE DEF L
  <2>3. L # <<>>
    BY <2>1
  <2>4. \A i \in 1..Len(L) : i = Len(L) \/ i \in 1..Len(keep)
    BY <2>1
  <2>5. L[Len(L)] = s
    BY <2>1
  <2> QED BY <2>1, <2>2, <2>3, <2>4, <2>5
<1>3. /\ stack \in [Terminals -> Seq(Slots)] /\ argument \in [Slots -> Seq(Letters)]
      /\ task \in [Slots -> TaskType]
    BY DEF SInv, Types
<1>4. stack' = [stack EXCEPT ![t] = L] /\ argument' = [argument EXCEPT ![s] = arg(c)]
      /\ task' = [others EXCEPT ![s] = k]
    BY DEF Launch
<1> HIDE DEF L, k
<1>5. /\ stack'[t] = L /\ \A u \in Terminals \ {t} : stack'[u] = stack[u]
      /\ argument'[s] = arg(c) /\ task'[s] = k
      /\ \A x \in Slots \ {s} : argument'[x] = argument[x] /\ task'[x] = others[x]
    BY <1>3, <1>4
<1>6. Types'
    BY <1>1, <1>2, <1>3, <1>4 DEF Types
<1>7. Apart'
  <2> SUFFICES ASSUME NEW a \in Terminals, NEW b \in Terminals,
                      NEW i \in 1..Len(stack'[a]), NEW j \in 1..Len(stack'[b]),
                      stack'[a][i] = stack'[b][j]
               PROVE  a = b /\ i = j
    BY DEF Apart
  <2>0. Apart
    BY DEF SInv
  <2>1. CASE a # t /\ b # t
    BY <1>5, <2>0, <2>1 DEF Apart
  <2>2. CASE a = t /\ b # t
    <3>1. L[i] = stack[b][j] /\ i \in 1..Len(L) /\ j \in 1..Len(stack[b]) /\ stack[b][j] # s
      BY <1>5, <2>2
    <3>2. i \in 1..Len(keep) /\ L[i] = keep[i]
      BY <1>2, <3>1
    <3>3. keep = stack[t]
      BY <3>2
    <3>4. i \in 1..Len(stack[t]) /\ stack[t][i] = stack[b][j]
      BY <3>1, <3>2, <3>3
    <3> QED BY <2>0, <2>2, <3>1, <3>4 DEF Apart
  <2>3. CASE a # t /\ b = t
    <3>1. L[j] = stack[a][i] /\ j \in 1..Len(L) /\ i \in 1..Len(stack[a]) /\ stack[a][i] # s
      BY <1>5, <2>3
    <3>2. j \in 1..Len(keep) /\ L[j] = keep[j]
      BY <1>2, <3>1
    <3>3. keep = stack[t]
      BY <3>2
    <3>4. j \in 1..Len(stack[t]) /\ stack[t][j] = stack[a][i]
      BY <3>1, <3>2, <3>3
    <3> QED BY <2>0, <2>3, <3>1, <3>4 DEF Apart
  <2>4. CASE a = t /\ b = t
    <3>1. L[i] = L[j] /\ i \in 1..Len(L) /\ j \in 1..Len(L)
      BY <1>5, <2>4
    <3>2. CASE i = Len(L) \/ j = Len(L)
      BY <1>2, <2>4, <3>1, <3>2
    <3>3. CASE i # Len(L) /\ j # Len(L)
      <4>1. /\ i \in 1..Len(keep) /\ L[i] = keep[i]
            /\ j \in 1..Len(keep) /\ L[j] = keep[j]
        BY <1>2, <3>1, <3>3
      <4>2. keep = stack[t]
        BY <4>1
      <4>3. /\ i \in 1..Len(stack[t]) /\ j \in 1..Len(stack[t])
            /\ stack[t][i] = stack[t][j]
        BY <3>1, <4>1, <4>2
      <4> QED BY <2>0, <2>4, <4>3 DEF Apart
    <3> QED BY <3>2, <3>3
  <2> QED BY <2>1, <2>2, <2>3, <2>4
<1>8. \A u \in Terminals \ {t} : \A i \in 1..Len(stack[u]) :
        /\ stack[u][i] \in Slots \ {s}
        /\ task'[stack[u][i]] = task[stack[u][i]]
        /\ argument'[stack[u][i]] = argument[stack[u][i]]
  <2> SUFFICES ASSUME NEW u \in Terminals \ {t}, NEW i \in 1..Len(stack[u])
               PROVE  /\ stack[u][i] \in Slots \ {s}
                      /\ task'[stack[u][i]] = task[stack[u][i]]
                      /\ argument'[stack[u][i]] = argument[stack[u][i]]
    OBVIOUS
  <2>1. stack[u] \in Seq(Slots)
    BY <1>3
  <2>2. stack[u][i] \in Slots \ {s}
    BY <2>1
  <2> QED BY <1>5, <2>2
<1>9. \A i \in 1..Len(keep) :
        /\ keep[i] \in Slots \ {s} /\ keep = stack[t]
        /\ task'[keep[i]] = others[keep[i]] /\ argument'[keep[i]] = argument[keep[i]]
  <2> SUFFICES ASSUME NEW i \in 1..Len(keep)
               PROVE  /\ keep[i] \in Slots \ {s} /\ keep = stack[t]
                      /\ task'[keep[i]] = others[keep[i]]
                      /\ argument'[keep[i]] = argument[keep[i]]
    OBVIOUS
  <2>1. keep[i] \in Slots \ {s} /\ keep = stack[t]
    OBVIOUS
  <2> QED BY <1>5, <2>1
<1>10. BaseShells'
  <2> SUFFICES ASSUME NEW u \in Terminals, stack'[u] # <<>>
               PROVE  task'[stack'[u][1]].program = ShellName
    BY DEF BaseShells
  <2>1. CASE u # t
    <3>1. stack'[u] = stack[u] /\ stack[u] \in Seq(Slots)
      BY <1>3, <1>5, <2>1
    <3>2. 1 \in 1..Len(stack[u])
      BY <3>1
    <3> QED BY <1>8, <2>1, <3>1, <3>2 DEF SInv, BaseShells
  <2>2. CASE u = t /\ keep = <<>>
    <3>1. stack'[u][1] = s
      BY <1>2, <1>5, <2>2
    <3> QED BY <1>1, <1>5, <2>2, <3>1, ShellLineParsed
  <2>3. CASE u = t /\ keep # <<>>
    <3>1. 1 \in 1..Len(keep) /\ L[1] = keep[1] /\ stack'[u][1] = keep[1]
      BY <1>2, <1>5, <2>3
    <3> QED BY <1>9, <2>3, <3>1 DEF SInv, BaseShells, Calling, Like
  <2> QED BY <2>1, <2>2, <2>3
<1>11. AllObedient'
  <2> SUFFICES ASSUME NEW u \in Terminals, NEW i \in 1..Len(stack'[u])
               PROVE  Obedient(task'[stack'[u][i]], argument'[stack'[u][i]])
    BY DEF AllObedient
  <2>1. CASE u # t
    BY <1>5, <1>8, <2>1 DEF SInv, AllObedient
  <2>2. CASE u = t /\ i = Len(L)
    BY <1>1, <1>2, <1>5, <2>2
  <2>3. CASE u = t /\ i # Len(L)
    <3>1. i \in 1..Len(keep) /\ stack'[u][i] = keep[i]
      BY <1>2, <1>5, <2>3
    <3>2. /\ Obedient(task[keep[i]], argument[keep[i]]) /\ Like(others[keep[i]], task[keep[i]])
          /\ task'[keep[i]] = others[keep[i]] /\ argument'[keep[i]] = argument[keep[i]]
      BY <1>9, <2>3, <3>1 DEF SInv, AllObedient, Calling
    <3> QED BY <3>1, <3>2 DEF Obedient, Like
  <2> QED BY <2>1, <2>2, <2>3
<1>12. Linked'
  <2> SUFFICES ASSUME NEW u \in Terminals, NEW i \in 1..Len(stack'[u])
               PROVE  IF i = Len(stack'[u]) THEN Settled(task'[stack'[u][i]])
                      ELSE /\ task'[stack'[u][i]].fate = Fate("running", 0, stack'[u][i + 1])
                           /\ task'[stack'[u][i + 1]].caller = stack'[u][i]
    BY DEF Linked
  <2>1. CASE u # t
    <3>1. stack'[u] = stack[u] /\ Len(stack[u]) \in Nat
      BY <1>3, <1>5, <2>1
    <3>2. i # Len(stack[u]) => i + 1 \in 1..Len(stack[u])
      BY <3>1
    <3>3. IF i = Len(stack[u]) THEN Settled(task[stack[u][i]])
          ELSE /\ task[stack[u][i]].fate = Fate("running", 0, stack[u][i + 1])
               /\ task[stack[u][i + 1]].caller = stack[u][i]
      BY <3>1 DEF SInv, Linked
    <3>4. /\ task'[stack[u][i]] = task[stack[u][i]]
          /\ i # Len(stack[u]) => task'[stack[u][i + 1]] = task[stack[u][i + 1]]
      BY <1>8, <2>1, <3>1, <3>2
    <3> QED BY <3>1, <3>3, <3>4
  <2>2. CASE u = t /\ i = Len(L)
    BY <1>1, <1>2, <1>5, <2>2
  <2>3. CASE u = t /\ i # Len(L)
    <3>1. /\ i \in 1..Len(keep) /\ stack'[u][i] = keep[i] /\ stack'[u] = L
          /\ task'[keep[i]] = others[keep[i]] /\ keep = stack[t]
      BY <1>2, <1>5, <1>9, <2>3
    <3>2. CASE i = Len(keep)
      <4>1. stack'[u][i + 1] = s
        BY <1>2, <3>1, <3>2
      <4> QED BY <1>1, <1>5, <2>3, <3>1, <3>2, <4>1 DEF Calling
    <3>3. CASE i # Len(keep)
      <4>1. i + 1 \in 1..Len(keep) /\ i + 1 # Len(L)
        BY <1>2, <3>1, <3>3
      <4>2. i + 1 \in 1..Len(L)
        BY <1>2, <4>1
      <4>3. stack'[u][i + 1] = keep[i + 1] /\ task'[keep[i + 1]] = others[keep[i + 1]]
        BY <1>2, <1>9, <3>1, <4>1, <4>2
      <4>4. /\ task[keep[i]].fate = Fate("running", 0, keep[i + 1])
            /\ task[keep[i + 1]].caller = keep[i]
        BY <3>1, <3>3 DEF SInv, Linked
      <4>5. others[keep[i]] = task[keep[i]] /\ others[keep[i + 1]].caller = task[keep[i + 1]].caller
        BY <3>1, <3>3, <4>1 DEF Calling, Like
      <4> QED BY <2>3, <3>1, <4>3, <4>4, <4>5
    <3> QED BY <3>2, <3>3
  <2> QED BY <2>1, <2>2, <2>3
<1> QED BY <1>2, <1>5, <1>6, <1>7, <1>10, <1>11, <1>12 DEF SInv

\* A process runs on with the value due to it, on a terminal that keeps a first
\* part of its chain: a command that was not run, and the end of a child.
LEMMA Resumed ==
    ASSUME SInv, NEW t \in Terminals,
           NEW keep \in Seq(Slots), keep # <<>>, Len(keep) <= Len(stack[t]),
           \A i \in 1..Len(keep) : keep[i] = stack[t][i],
           task' \in [Slots -> TaskType],
           \A i \in 1..Len(keep) :
                /\ Like(task'[keep[i]], task[keep[i]])
                /\ i # Len(keep) => task'[keep[i]] = task[keep[i]],
           Settled(task'[keep[Len(keep)]]),
           \A u \in Terminals \ {t} : \A i \in 1..Len(stack[u]) :
                task'[stack[u][i]] = task[stack[u][i]],
           stack' = [stack EXCEPT ![t] = keep], argument' = argument
    PROVE  SInv' /\ \A u \in Terminals : stack[u] # <<>> => stack'[u] # <<>>
<1>1. /\ stack \in [Terminals -> Seq(Slots)] /\ argument \in [Slots -> Seq(Letters)]
      /\ task \in [Slots -> TaskType]
    BY DEF SInv, Types
<1>2. stack'[t] = keep /\ \A u \in Terminals \ {t} : stack'[u] = stack[u]
    BY <1>1
<1>4. ASSUME NEW u \in Terminals, NEW i \in 1..Len(stack'[u])
      PROVE  /\ i \in 1..Len(stack[u]) /\ stack'[u][i] = stack[u][i]
             /\ stack'[u][i] \in Slots /\ Like(task'[stack'[u][i]], task[stack'[u][i]])
  <2>0. stack[u] \in Seq(Slots)
    BY <1>1
  <2>1. CASE u = t
    <3>1. i \in 1..Len(keep) /\ i \in 1..Len(stack[u])
      BY <1>2, <2>0, <2>1
    <3> QED BY <1>2, <2>0, <2>1, <3>1
  <2>2. CASE u # t
    BY <1>2, <2>0, <2>2 DEF Like
  <2> QED BY <2>1, <2>2
<1>5. Types'
    BY <1>1 DEF Types
<1>6. Apart'
    BY <1>4 DEF SInv, Apart
<1>7. BaseShells'
  <2> SUFFICES ASSUME NEW u \in Terminals, stack'[u] # <<>>
               PROVE  task'[stack'[u][1]].program = ShellName
    BY DEF BaseShells
  <2>1. 1 \in 1..Len(stack'[u])
    BY <1>5 DEF Types
  <2>2. stack[u] # <<>>
    BY <1>1, <1>4, <2>1
  <2>3. task[stack[u][1]].program = ShellName
    BY <2>2 DEF SInv, BaseShells
  <2>4. /\ stack'[u][1] = stack[u][1]
        /\ task'[stack'[u][1]].program = task[stack'[u][1]].program
    BY <1>4, <2>1 DEF Like
  <2> QED BY <2>3, <2>4
<1>8. AllObedient'
  <2> SUFFICES ASSUME NEW u \in Terminals, NEW i \in 1..Len(stack'[u])
               PROVE  Obedient(task'[stack'[u][i]], argument'[stack'[u][i]])
    BY DEF AllObedient
  <2>1. Obedient(task[stack[u][i]], argument[stack[u][i]])
    BY <1>4 DEF SInv, AllObedient
  <2> QED BY <1>4, <2>1 DEF Obedient, Like
<1>9. Linked'
  <2> SUFFICES ASSUME NEW u \in Terminals, NEW i \in 1..Len(stack'[u])
               PROVE  IF i = Len(stack'[u]) THEN Settled(task'[stack'[u][i]])
                      ELSE /\ task'[stack'[u][i]].fate = Fate("running", 0, stack'[u][i + 1])
                           /\ task'[stack'[u][i + 1]].caller = stack'[u][i]
    BY DEF Linked
  <2>0. stack[u] \in Seq(Slots) /\ stack'[u] \in Seq(Slots)
    BY <1>1, <1>5 DEF Types
  <2>1. CASE i = Len(stack'[u])
    <3>1. CASE u = t
      BY <1>2, <2>1, <3>1
    <3>2. CASE u # t
      <4>1. stack'[u] = stack[u] /\ i \in 1..Len(stack[u]) /\ i = Len(stack[u])
        BY <1>2, <2>1, <3>2
      <4>2. Settled(task[stack[u][i]])
        BY <4>1 DEF SInv, Linked
      <4>3. task'[stack[u][i]] = task[stack[u][i]]
        BY <3>2, <4>1
      <4> QED BY <2>1, <4>1, <4>2, <4>3
    <3> QED BY <2>1, <3>1, <3>2
  <2>2. CASE i # Len(stack'[u])
    <3>1. i + 1 \in 1..Len(stack'[u]) /\ Len(stack'[u]) <= Len(stack[u]) /\ i # Len(stack[u])
      BY <1>2, <2>0, <2>2
    <3>2. /\ stack'[u][i] = stack[u][i] /\ stack'[u][i + 1] = stack[u][i + 1]
          /\ task'[stack'[u][i + 1]].caller = task[stack'[u][i + 1]].caller
          /\ i \in 1..Len(stack[u])
      BY <1>4, <3>1 DEF Like
    <3>3. /\ task[stack[u][i]].fate = Fate("running", 0, stack[u][i + 1])
          /\ task[stack[u][i + 1]].caller = stack[u][i]
      BY <3>1, <3>2 DEF SInv, Linked
    <3>4. task'[stack'[u][i]] = task[stack'[u][i]]
      BY <1>2, <2>2, <3>2
    <3> QED BY <2>2, <3>2, <3>3, <3>4
  <2> QED BY <2>1, <2>2
<1> QED BY <1>2, <1>5, <1>6, <1>7, <1>8, <1>9 DEF SInv

\* The chain of a terminal that runs something, and its last process.
LEMMA TopFacts ==
    ASSUME Types, NEW t \in Terminals, stack[t] # <<>>
    PROVE  /\ stack[t] \in Seq(Slots) /\ Len(stack[t]) \in Nat \ {0}
           /\ Len(stack[t]) \in 1..Len(stack[t])
           /\ Top(t) = stack[t][Len(stack[t])] /\ Top(t) \in Slots /\ Top(t) \in InUse
<1>1. stack[t] \in Seq(Slots)
    BY DEF Types
<1>2. Len(stack[t]) \in Nat \ {0} /\ Len(stack[t]) \in 1..Len(stack[t])
    BY <1>1
<1>3. Top(t) = stack[t][Len(stack[t])] /\ Top(t) \in Slots
    BY <1>1, <1>2 DEF Top
<1> QED BY <1>1, <1>2, <1>3 DEF InUse

\* getargs writes only what the running process got.
LEMMA GetargsStep ==
    ASSUME SInv, NEW t \in Terminals, NEW n \in ArgSizes, getargs(t, n)
    PROVE  SInv' /\ stack' = stack
<1> DEFINE s == Top(t)
           a == argument[Top(t)]
           ok == n >= 0 /\ a # <<>>
           answer == [asked |-> TRUE, n |-> n, ret |-> IF ok THEN 0 ELSE -1,
                      text |-> IF ok THEN strncpy(a, n) ELSE <<>>]
<1>1. Types
    BY DEF SInv
<1>2. stack[t] # <<>> /\ UNCHANGED <<stack, argument>>
    BY DEF getargs, InJob, Running
<1>3. s \in Slots /\ n \in Int /\ a \in Seq(Letters)
    BY <1>1, <1>2, TopFacts, ShellConstants DEF Types
<1>4. task' = [task EXCEPT ![s].got = answer]
    BY DEF getargs, Answer
<1> HIDE DEF s, a
<1>5. ok => /\ strncpy(a, n) \in Seq(Letters)
            /\ \E k \in 0..Len(a) : strncpy(a, n) = SubSeq(a, 1, k) /\ (k = Len(a) \/ k = n)
  <2> SUFFICES ASSUME ok
               PROVE  /\ strncpy(a, n) \in Seq(Letters)
                      /\ \E k \in 0..Len(a) : strncpy(a, n) = SubSeq(a, 1, k)
                                              /\ (k = Len(a) \/ k = n)
    OBVIOUS
  <2> DEFINE k == IF n < Len(a) THEN n ELSE Len(a)
  <2>1. Len(a) \in Nat /\ k \in 0..Len(a) /\ (k = Len(a) \/ k = n)
    BY <1>3
  <2>2. strncpy(a, n) = SubSeq(a, 1, k)
    BY DEF strncpy
  <2> HIDE DEF k
  <2>3. SubSeq(a, 1, k) \in Seq(Letters)
    BY <1>3, <2>1
  <2> QED BY <2>1, <2>2, <2>3
<1>6. /\ answer \in [asked : BOOLEAN, n : Int, ret : {-1, 0}, text : Seq(Letters)]
      /\ Answered(answer, a)
  <2>1. CASE ok
    BY <1>3, <1>5, <2>1 DEF Answered
  <2>2. CASE ~ok
    BY <1>3, <2>2 DEF Answered
  <2> QED BY <2>1, <2>2
<1> HIDE DEF ok, answer
<1>7. /\ task' \in [Slots -> TaskType] /\ task'[s].got = answer
      /\ \A x \in Slots : /\ task'[x].program = task[x].program
                          /\ task'[x].line = task[x].line
                          /\ task'[x].caller = task[x].caller
                          /\ task'[x].rval = task[x].rval
                          /\ task'[x].fate = task[x].fate
      /\ \A x \in Slots \ {s} : task'[x] = task[x]
  <2> DEFINE k == [task[s] EXCEPT !.got = answer]
  <2>1. task \in [Slots -> TaskType] /\ task[s] \in TaskType
    BY <1>1, <1>3 DEF Types
  <2>2. task' = [task EXCEPT ![s] = k]
    BY <1>4
  <2>3. /\ k \in TaskType /\ k.got = answer /\ k.program = task[s].program
        /\ k.line = task[s].line /\ k.caller = task[s].caller
        /\ k.rval = task[s].rval /\ k.fate = task[s].fate
    BY <1>6, <2>1 DEF TaskType
  <2> HIDE DEF k
  <2> QED BY <1>3, <2>1, <2>2, <2>3
<1>8. \A u \in Terminals : \A i \in 1..Len(stack[u]) : stack[u][i] \in Slots
    BY <1>1 DEF Types
<1>9. Types' /\ Apart'
    BY <1>1, <1>2, <1>7 DEF SInv, Types, Apart
<1>10. BaseShells'
  <2> SUFFICES ASSUME NEW u \in Terminals, stack[u] # <<>>
               PROVE  task'[stack[u][1]].program = ShellName
    BY <1>2 DEF BaseShells
  <2>1. 1 \in 1..Len(stack[u])
    BY <1>1 DEF Types
  <2> QED BY <1>7, <1>8, <2>1 DEF SInv, BaseShells
<1>11. AllObedient'
  <2> SUFFICES ASSUME NEW u \in Terminals, NEW i \in 1..Len(stack[u])
               PROVE  Obedient(task'[stack[u][i]], argument[stack[u][i]])
    BY <1>2 DEF AllObedient
  <2>1. Obedient(task[stack[u][i]], argument[stack[u][i]]) /\ stack[u][i] \in Slots
    BY <1>8 DEF SInv, AllObedient
  <2>2. CASE stack[u][i] = s
    BY <1>6, <1>7, <2>1, <2>2 DEF Obedient, s, a
  <2>3. CASE stack[u][i] # s
    BY <1>7, <2>1, <2>3
  <2> QED BY <2>2, <2>3
<1>12. Linked'
  <2> SUFFICES ASSUME NEW u \in Terminals, NEW i \in 1..Len(stack[u])
               PROVE  IF i = Len(stack[u]) THEN Settled(task'[stack[u][i]])
                      ELSE /\ task'[stack[u][i]].fate = Fate("running", 0, stack[u][i + 1])
                           /\ task'[stack[u][i + 1]].caller = stack[u][i]
    BY <1>2 DEF Linked
  <2>1. stack[u] \in Seq(Slots)
    BY <1>1 DEF Types
  <2>2. stack[u][i] \in Slots /\ (i # Len(stack[u]) => stack[u][i + 1] \in Slots)
    BY <2>1
  <2>3. IF i = Len(stack[u]) THEN Settled(task[stack[u][i]])
        ELSE /\ task[stack[u][i]].fate = Fate("running", 0, stack[u][i + 1])
             /\ task[stack[u][i + 1]].caller = stack[u][i]
    BY DEF SInv, Linked
  <2> QED BY <1>7, <2>2, <2>3 DEF Settled
<1> QED BY <1>2, <1>9, <1>10, <1>11, <1>12 DEF SInv

Chained == \A u \in Terminals : stack[u] # <<>> => stack'[u] # <<>>

\* A slot that is not in use is in no chain.
LEMMA FreeSlot ==
    ASSUME NEW u \in Terminals, NEW i \in 1..Len(stack[u])
    PROVE  stack[u][i] \in InUse
BY DEF InUse

\* A command that was not run: its caller goes on with the value due to it.
LEMMA NotRun ==
    ASSUME SInv, NEW t \in Terminals, stack[t] # <<>>,
           NEW r \in {-1, 0}, NEW kind \in {"full", "refused"},
           kind = "full" => r = 0, kind = "refused" => r = -1,
           Return(Top(t), r, kind), UNCHANGED <<stack, argument>>
    PROVE  SInv' /\ Chained
<1> DEFINE s == Top(t)
           f == Fate(kind, 0, 0)
           k == [task[s] EXCEPT !.rval = r, !.fate = f]
<1>1. Types
    BY DEF SInv
<1>2. /\ stack[t] \in Seq(Slots) /\ Len(stack[t]) \in 1..Len(stack[t]) /\ s \in Slots
      /\ stack \in [Terminals -> Seq(Slots)] /\ task \in [Slots -> TaskType]
      /\ s = stack[t][Len(stack[t])] /\ Len(stack[t]) <= Len(stack[t])
    BY <1>1, TopFacts DEF Types
<1>3. f \in FateType /\ f.kind = kind
    BY DEF FateType, Fate, Kinds
<1>4. f.kind # "running" /\ Due(f) = r
    BY <1>3 DEF Due
<1>5. task' = [task EXCEPT ![s] = k]
    BY DEF Return
<1>6. task[s] \in TaskType
    BY <1>2
<1> HIDE DEF f
<1>7. k \in TaskType /\ Like(k, task[s]) /\ k.fate = f /\ k.rval = r
    BY <1>3, <1>6 DEF TaskType, Like
<1> HIDE DEF k
<1>8. /\ task' \in [Slots -> TaskType] /\ task'[s] = k
      /\ \A x \in Slots \ {s} : task'[x] = task[x]
    BY <1>2, <1>5, <1>7
<1> HIDE DEF s
<1>9. Settled(task'[stack[t][Len(stack[t])]])
    BY <1>2, <1>4, <1>7, <1>8 DEF Settled
<1>10. \A i \in 1..Len(stack[t]) :
         /\ Like(task'[stack[t][i]], task[stack[t][i]])
         /\ i # Len(stack[t]) => task'[stack[t][i]] = task[stack[t][i]]
  <2> SUFFICES ASSUME NEW i \in 1..Len(stack[t])
               PROVE  /\ Like(task'[stack[t][i]], task[stack[t][i]])
                      /\ i # Len(stack[t]) => task'[stack[t][i]] = task[stack[t][i]]
    OBVIOUS
  <2>1. stack[t][i] \in Slots /\ (stack[t][i] = s => i = Len(stack[t]))
    BY <1>2 DEF SInv, Apart
  <2>2. CASE stack[t][i] = s
    BY <1>7, <1>8, <2>1, <2>2
  <2>3. CASE stack[t][i] # s
    BY <1>8, <2>1, <2>3 DEF Like
  <2> QED BY <2>2, <2>3
<1>11. \A u \in Terminals \ {t} : \A i \in 1..Len(stack[u]) :
         task'[stack[u][i]] = task[stack[u][i]]
  <2> SUFFICES ASSUME NEW u \in Terminals \ {t}, NEW i \in 1..Len(stack[u])
               PROVE  task'[stack[u][i]] = task[stack[u][i]]
    OBVIOUS
  <2>1. stack[u][i] \in Slots /\ stack[u][i] # s
    BY <1>2 DEF SInv, Apart
  <2> QED BY <1>8, <2>1
<1>12. stack' = [stack EXCEPT ![t] = stack[t]] /\ argument' = argument
    BY <1>2
<1> QED BY <1>2, <1>8, <1>9, <1>10, <1>11, <1>12, Resumed DEF Chained

\* execute, in its three outcomes.
LEMMA Executed ==
    ASSUME SInv, NEW t \in Terminals, stack[t] # <<>>, NEW c \in Lines, execute(t, c)
    PROVE  SInv' /\ Chained
<1>1. Types
    BY DEF SInv
<1>2. /\ stack[t] \in Seq(Slots) /\ Top(t) \in Slots /\ Len(stack[t]) \in 1..Len(stack[t])
      /\ Top(t) = stack[t][Len(stack[t])]
      /\ stack \in [Terminals -> Seq(Slots)] /\ task \in [Slots -> TaskType]
    BY <1>1, TopFacts DEF Types
<1>3. CASE Return(Top(t), 0, "full") /\ UNCHANGED <<stack, argument>>
    BY <1>3, NotRun
<1>4. CASE Return(Top(t), -1, "refused") /\ UNCHANGED <<stack, argument>>
    BY <1>4, NotRun
<1>5. ASSUME NEW s \in Slots, cmd(c) \in Executables, IsFirstFree(s, InUse),
             Launch(t, s, c, Append(stack[t], s), Top(t),
                    [task EXCEPT ![Top(t)].fate = Fate("running", 0, s)])
      PROVE  SInv' /\ Chained
  <2> DEFINE f == Fate("running", 0, s)
             k == [task[Top(t)] EXCEPT !.fate = f]
             others == [task EXCEPT ![Top(t)].fate = f]
  <2>0. cmd(c) \in Executables
    BY <1>5
  <2>1. \A u \in Terminals : \A i \in 1..Len(stack[u]) : stack[u][i] # s
    BY <1>5, FreeSlot DEF IsFirstFree
  <2>2. c \in Lines \cup {ShellName} /\ Top(t) \in Slots \cup {0}
    BY <1>2
  <2>3. f \in FateType
    BY DEF FateType, Fate, Kinds
  <2>4. others = [task EXCEPT ![Top(t)] = k]
    OBVIOUS
  <2>5. task[Top(t)] \in TaskType
    BY <1>2
  <2>6. Launch(t, s, c, Append(stack[t], s), Top(t), others)
    BY <1>5
  <2> HIDE DEF f
  <2>7. k \in TaskType /\ Like(k, task[Top(t)]) /\ k.fate = f
    BY <2>3, <2>5 DEF TaskType, Like
  <2> HIDE DEF k, others
  <2>8. /\ others \in [Slots -> TaskType] /\ others[Top(t)] = k
        /\ \A x \in Slots \ {Top(t)} : others[x] = task[x]
    BY <1>2, <2>4, <2>7
  <2>9. \A i \in 1..Len(stack[t]) :
          /\ Like(others[stack[t][i]], task[stack[t][i]])
          /\ i # Len(stack[t]) => others[stack[t][i]] = task[stack[t][i]]
          /\ i = Len(stack[t]) => /\ others[stack[t][i]].fate = f
                                  /\ Top(t) = stack[t][i]
    <3> SUFFICES ASSUME NEW i \in 1..Len(stack[t])
                 PROVE  /\ Like(others[stack[t][i]], task[stack[t][i]])
                        /\ i # Len(stack[t]) => others[stack[t][i]] = task[stack[t][i]]
                        /\ i = Len(stack[t]) => /\ others[stack[t][i]].fate = f
                                                /\ Top(t) = stack[t][i]
      OBVIOUS
    <3>1. stack[t][i] \in Slots /\ (stack[t][i] = Top(t) <=> i = Len(stack[t]))
      BY <1>2 DEF SInv, Apart
    <3>2. CASE i = Len(stack[t])
      BY <2>7, <2>8, <3>1, <3>2
    <3>3. CASE i # Len(stack[t])
      BY <2>8, <3>1, <3>3 DEF Like
    <3> QED BY <3>2, <3>3
  <2>10. \A u \in Terminals \ {t} : \A i \in 1..Len(stack[u]) :
           others[stack[u][i]] = task[stack[u][i]]
    <3> SUFFICES ASSUME NEW u \in Terminals \ {t}, NEW i \in 1..Len(stack[u])
                 PROVE  others[stack[u][i]] = task[stack[u][i]]
      OBVIOUS
    <3>1. stack[u][i] \in Slots /\ stack[u][i] # Top(t)
      BY <1>2 DEF SInv, Apart
    <3> QED BY <2>8, <3>1
  <2>11. stack[t] = <<>> => c = ShellName
    OBVIOUS
  <2>12. Calling(stack[t], s, Top(t), others)
    BY <2>9 DEF Calling, f
  <2>13. SInv' /\ \A u \in Terminals : stack[u] # <<>> => stack'[u] # <<>>
    BY <1>2, <2>0, <2>1, <2>2, <2>6, <2>8, <2>10, <2>11, <2>12, Launched
  <2> QED BY <2>13 DEF Chained
<1> QED BY <1>3, <1>4, <1>5 DEF execute

\* The task that halt leaves in the slot it frees.
LEMMA EmptyTask == NoTask \in TaskType /\ Settled(NoTask)
<1>1. ShellName \in Executables /\ cmd(ShellName) = ShellName
    BY ShellLineParsed DEF Executables
<1>2. NoTask = Task(cmd(ShellName), ShellName, 0)
    BY <1>1 DEF NoTask
<1> QED BY <1>1, <1>2, NewTask

\* The end of the last process of a chain changes no other chain, and of its own
\* only the process before it, whose command it was.
LEMMA EndedFacts ==
    ASSUME SInv, NEW t \in Terminals, stack[t] # <<>>,
           NEW kind \in Kinds, NEW status \in Int
    PROVE  LET others == Ended(Top(t), kind, status) IN
           /\ others \in [Slots -> TaskType]
           /\ \A u \in Terminals \ {t} : \A i \in 1..Len(stack[u]) :
                others[stack[u][i]] = task[stack[u][i]]
           /\ \A i \in 1..(Len(stack[t]) - 1) :
                /\ Like(others[stack[t][i]], task[stack[t][i]])
                /\ i # Len(stack[t]) - 1 => others[stack[t][i]] = task[stack[t][i]]
                /\ i = Len(stack[t]) - 1 => others[stack[t][i]].fate = Fate(kind, status, 0)
<1> DEFINE others == Ended(Top(t), kind, status)
           p == Top(t)
           f == Fate(kind, status, 0)
<1>1. Types /\ Apart /\ Linked
    BY DEF SInv
<1>2. /\ stack[t] \in Seq(Slots) /\ Len(stack[t]) \in Nat \ {0} /\ p \in Slots
      /\ Len(stack[t]) \in 1..Len(stack[t])
      /\ stack \in [Terminals -> Seq(Slots)] /\ task \in [Slots -> TaskType]
      /\ p = stack[t][Len(stack[t])]
    BY <1>1, TopFacts DEF Types
<1>3. f \in FateType
    BY DEF FateType, Fate
<1> HIDE DEF f
<1>4. ASSUME NEW x \in Slots
      PROVE  /\ [task[x] EXCEPT !.fate = f] \in TaskType
             /\ Like([task[x] EXCEPT !.fate = f], task[x])
             /\ [task[x] EXCEPT !.fate = f].fate = f
  <2>1. task[x] \in TaskType
    BY <1>2
  <2> QED BY <1>3, <2>1 DEF TaskType, Like
<1>5. others = [x \in Slots |->
         IF x = p THEN NoTask
         ELSE IF task[x].fate = Fate("running", 0, p)
              THEN [task[x] EXCEPT !.fate = f] ELSE task[x]]
    BY DEF Ended, f
<1> HIDE DEF p, others
<1>6. others \in [Slots -> TaskType]
    BY <1>2, <1>4, <1>5, EmptyTask
<1>7. ASSUME NEW x \in Slots, x # p, task[x].fate # Fate("running", 0, p)
      PROVE  others[x] = task[x]
    BY <1>5, <1>7
<1>8. ASSUME NEW x \in Slots, x # p, task[x].fate = Fate("running", 0, p)
      PROVE  others[x] = [task[x] EXCEPT !.fate = f]
    BY <1>5, <1>8
<1>9. \A a, b : Fate("running", 0, a) = Fate("running", 0, b) => a = b
    BY DEF Fate
<1>10. ASSUME NEW k, Settled(k) PROVE k.fate # Fate("running", 0, p)
  <2>1. Fate("running", 0, p).kind = "running"
    BY DEF Fate
  <2> QED BY <1>10, <2>1 DEF Settled
<1>11. ASSUME NEW u \in Terminals \ {t}, NEW i \in 1..Len(stack[u])
       PROVE  others[stack[u][i]] = task[stack[u][i]]
  <2>1. stack[u] \in Seq(Slots) /\ stack[u][i] \in Slots /\ stack[u][i] # p
    BY <1>1, <1>2 DEF Apart
  <2>2. CASE i = Len(stack[u])
    BY <1>1, <1>7, <1>10, <2>1, <2>2 DEF Linked
  <2>3. CASE i # Len(stack[u])
    <3>1. i + 1 \in 1..Len(stack[u])
      BY <2>1, <2>3
    <3>2. stack[u][i + 1] # p
      BY <1>1, <1>2, <3>1 DEF Apart
    <3>3. task[stack[u][i]].fate = Fate("running", 0, stack[u][i + 1])
      BY <1>1, <2>3 DEF Linked
    <3>4. task[stack[u][i]].fate # Fate("running", 0, p)
      BY <1>9, <3>2, <3>3
    <3> QED BY <1>7, <2>1, <3>4
  <2> QED BY <2>2, <2>3
<1>12. ASSUME NEW i \in 1..(Len(stack[t]) - 1)
       PROVE  /\ Like(others[stack[t][i]], task[stack[t][i]])
              /\ i # Len(stack[t]) - 1 => others[stack[t][i]] = task[stack[t][i]]
              /\ i = Len(stack[t]) - 1 => others[stack[t][i]].fate = f
  <2>1. /\ i \in 1..Len(stack[t]) /\ i # Len(stack[t]) /\ i + 1 \in 1..Len(stack[t])
        /\ i + 1 = Len(stack[t]) <=> i = Len(stack[t]) - 1
    BY <1>2
  <2>2. stack[t][i] \in Slots /\ stack[t][i] # p
    BY <1>1, <1>2, <2>1 DEF Apart
  <2>3. task[stack[t][i]].fate = Fate("running", 0, stack[t][i + 1])
    BY <1>1, <2>1 DEF Linked
  <2>4. CASE i = Len(stack[t]) - 1
    <3>1. stack[t][i + 1] = p
      BY <1>2, <2>1, <2>4
    <3>2. others[stack[t][i]] = [task[stack[t][i]] EXCEPT !.fate = f]
      BY <1>8, <2>2, <2>3, <3>1
    <3> QED BY <1>4, <2>2, <2>4, <3>2
  <2>5. CASE i # Len(stack[t]) - 1
    <3>1. stack[t][i + 1] # p
      BY <1>1, <1>2, <2>1, <2>5 DEF Apart
    <3>2. others[stack[t][i]] = task[stack[t][i]]
      BY <1>7, <1>9, <2>2, <2>3, <3>1
    <3> QED BY <2>5, <3>2 DEF Like
  <2> QED BY <2>4, <2>5
<1> QED BY <1>6, <1>11, <1>12 DEF f, others

\* halt: the end of a child, or of the last process of a terminal.
LEMMA Halted ==
    ASSUME SInv, NEW t \in Terminals, stack[t] # <<>>,
           NEW r \in Statuses \cup {-1, 0, Exception}, NEW kind \in Kinds, NEW status \in Int,
           kind # "running", r = Due(Fate(kind, status, 0)),
           HaltWith(t, r, kind, status)
    PROVE  SInv' /\ Chained
<1> DEFINE rest == SubSeq(stack[t], 1, Len(stack[t]) - 1)
           others == Ended(Top(t), kind, status)
           f == Fate(kind, status, 0)
<1>1. Types /\ Apart /\ Linked
    BY DEF SInv
<1>2. /\ stack[t] \in Seq(Slots) /\ Len(stack[t]) \in Nat \ {0}
      /\ Len(stack[t]) \in 1..Len(stack[t])
      /\ Top(t) = stack[t][Len(stack[t])] /\ Top(t) \in Slots
      /\ stack \in [Terminals -> Seq(Slots)] /\ task \in [Slots -> TaskType]
    BY <1>1, TopFacts DEF Types
<1>3. /\ others \in [Slots -> TaskType]
      /\ \A u \in Terminals \ {t} : \A i \in 1..Len(stack[u]) :
           others[stack[u][i]] = task[stack[u][i]]
      /\ \A i \in 1..(Len(stack[t]) - 1) :
           /\ Like(others[stack[t][i]], task[stack[t][i]])
           /\ i # Len(stack[t]) - 1 => others[stack[t][i]] = task[stack[t][i]]
           /\ i = Len(stack[t]) - 1 => others[stack[t][i]].fate = f
    BY EndedFacts
<1>4. \A u \in Terminals \ {t} : \A i \in 1..Len(stack[u]) : stack[u][i] # Top(t)
    BY <1>1, <1>2 DEF Apart
<1>5. /\ rest \in Seq(Slots) /\ Len(rest) = Len(stack[t]) - 1
      /\ \A i \in 1..Len(rest) : rest[i] = stack[t][i]
  <2>0. stack[t] \in Seq(Slots) /\ Len(stack[t]) \in Nat \ {0}
    BY <1>2
  <2>1. rest \in Seq(Slots) /\ Len(rest) = Len(stack[t]) - 1
    BY <2>0
  <2>2. \A i \in 1..(Len(stack[t]) - 1) : rest[i] = stack[t][i]
    BY <1>2
  <2> HIDE DEF rest
  <2> QED BY <1>2, <2>1, <2>2
<1>6. \/ /\ rest = <<>>
         /\ \E s \in Slots : /\ IsFirstFree(s, InUse \ {Top(t)})
                             /\ Launch(t, s, ShellName, <<s>>, 0, others)
      \/ /\ rest # <<>>
         /\ stack' = [stack EXCEPT ![t] = rest]
         /\ task' = [others EXCEPT ![task[Top(t)].caller].rval = r]
         /\ UNCHANGED argument
    BY DEF HaltWith
<1>7. f.kind # "running" /\ r = Due(f)
    BY DEF Fate
<1> HIDE DEF rest, others, f
<1>8. ASSUME NEW s \in Slots, IsFirstFree(s, InUse \ {Top(t)}),
             Launch(t, s, ShellName, <<s>>, 0, others)
      PROVE  SInv' /\ Chained
  <2>1. \A u \in Terminals \ {t} : \A i \in 1..Len(stack[u]) : stack[u][i] # s
    BY <1>4, <1>8, FreeSlot DEF IsFirstFree
  <2>2. Append(<<>>, s) = <<s>> /\ <<>> \in Seq(Slots) /\ Len(<<>>) = 0
    OBVIOUS
  <2> DEFINE keep == <<>>
  <2>3. keep \in Seq(Slots) /\ keep = <<>> /\ \A i \in 1..Len(keep) : FALSE
    BY <2>2
  <2>4. ShellName \in Lines \cup {ShellName} /\ cmd(ShellName) \in Executables
    BY ShellLineParsed DEF Executables
  <2>5. Launch(t, s, ShellName, Append(keep, s), 0, others)
    BY <1>8, <2>2
  <2> HIDE DEF keep
  <2>6. /\ \A i \in 1..Len(keep) : keep[i] # s
        /\ Calling(keep, s, 0, others)
    BY <2>3 DEF Calling
  <2>7. SInv' /\ \A u \in Terminals : stack[u] # <<>> => stack'[u] # <<>>
    BY <1>3, <2>1, <2>3, <2>4, <2>5, <2>6, Launched
  <2> QED BY <2>7 DEF Chained
<1>9. ASSUME rest # <<>>, stack' = [stack EXCEPT ![t] = rest],
             task' = [others EXCEPT ![task[Top(t)].caller].rval = r], UNCHANGED argument
      PROVE  SInv' /\ Chained
  <2> DEFINE n == Len(rest)
             q == rest[n]
             k == [others[q] EXCEPT !.rval = r]
  <2>1. /\ n \in 1..n /\ n <= Len(stack[t]) /\ q \in Slots /\ q = stack[t][n]
        /\ n = Len(stack[t]) - 1 /\ n + 1 = Len(stack[t])
    <3>1. n \in Nat /\ n # 0 /\ n = Len(stack[t]) - 1
      BY <1>2, <1>5, <1>9
    <3>2. n \in 1..n /\ n <= Len(stack[t]) /\ n + 1 = Len(stack[t])
      BY <1>2, <3>1
    <3>3. q = stack[t][n] /\ n \in 1..Len(stack[t])
      BY <1>2, <1>5, <3>1, <3>2
    <3>4. q \in Slots
      BY <1>2, <3>3
    <3> QED BY <3>1, <3>2, <3>3, <3>4
  <2>2. task[Top(t)].caller = q
    <3>1. n \in 1..Len(stack[t]) /\ n # Len(stack[t])
      BY <1>2, <2>1
    <3>2. task[stack[t][n + 1]].caller = stack[t][n]
      BY <1>1, <3>1 DEF Linked
    <3> QED BY <1>2, <2>1, <3>2
  <2>3. task' = [others EXCEPT ![q] = k]
    BY <1>9, <2>2
  <2>4. others[q] \in TaskType
    BY <1>3, <2>1
  <2>5. Like(others[q], task[q]) /\ others[q].fate = f
    BY <1>3, <2>1
  <2> HIDE DEF q
  <2>6. k \in TaskType /\ Like(k, others[q]) /\ k.fate = others[q].fate /\ k.rval = r
    BY <2>4 DEF TaskType, Like
  <2> HIDE DEF k
  <2>7. /\ task' \in [Slots -> TaskType] /\ task'[q] = k
        /\ \A x \in Slots \ {q} : task'[x] = others[x]
    BY <1>3, <2>1, <2>3, <2>6
  <2>8. Settled(task'[rest[Len(rest)]])
    BY <1>7, <2>5, <2>6, <2>7 DEF Settled, q
  <2>9. \A i \in 1..Len(rest) :
          /\ Like(task'[rest[i]], task[rest[i]])
          /\ i # Len(rest) => task'[rest[i]] = task[rest[i]]
    <3> SUFFICES ASSUME NEW i \in 1..Len(rest)
                 PROVE  /\ Like(task'[rest[i]], task[rest[i]])
                        /\ i # Len(rest) => task'[rest[i]] = task[rest[i]]
      OBVIOUS
    <3>1. /\ rest[i] = stack[t][i] /\ i \in 1..Len(stack[t]) /\ rest[i] \in Slots
          /\ i \in 1..(Len(stack[t]) - 1)
      BY <1>2, <1>5
    <3>2. CASE i = n
      <4>1. rest[i] = q
        BY <3>2 DEF q
      <4> QED BY <2>5, <2>6, <2>7, <3>2, <4>1 DEF Like
    <3>3. CASE i # n
      <4>1. rest[i] # q
        BY <1>1, <1>2, <2>1, <3>1, <3>3 DEF Apart
      <4>2. task'[rest[i]] = others[rest[i]] /\ others[rest[i]] = task[rest[i]]
        BY <1>3, <2>1, <2>7, <3>1, <3>3, <4>1
      <4> QED BY <4>2 DEF Like
    <3> QED BY <3>2, <3>3
  <2>10. \A u \in Terminals \ {t} : \A i \in 1..Len(stack[u]) :
           task'[stack[u][i]] = task[stack[u][i]]
    <3> SUFFICES ASSUME NEW u \in Terminals \ {t}, NEW i \in 1..Len(stack[u])
                 PROVE  task'[stack[u][i]] = task[stack[u][i]]
      OBVIOUS
    <3>1. n \in 1..Len(stack[t])
      BY <1>2, <2>1
    <3>2. stack[u][i] \in Slots /\ stack[u][i] # q
      BY <1>1, <1>2, <2>1, <3>1 DEF Apart
    <3> QED BY <1>3, <2>7, <3>2
  <2>11. argument' = argument
    BY <1>9
  <2> QED BY <1>5, <1>9, <2>1, <2>7, <2>8, <2>9, <2>10, <2>11, Resumed DEF Chained
<1> QED BY <1>6, <1>8, <1>9

\* The values due to the callers of commands that ended.
LEMMA DueValues ==
    /\ \A status \in Int : Due(Fate("exited", status, 0)) = status
    /\ Due(Fate("exception", 0, 0)) = Exception
<1>1. ASSUME NEW f, f.kind = "exited" PROVE Due(f) = f.status
    BY <1>1 DEF Due
<1>2. ASSUME NEW f, f.kind = "exception" PROVE Due(f) = Exception
    BY <1>2 DEF Due
<1>3. \A status \in Int : /\ Fate("exited", status, 0).kind = "exited"
                          /\ Fate("exited", status, 0).status = status
    BY DEF Fate
<1>4. Fate("exception", 0, 0).kind = "exception"
    BY DEF Fate
<1> QED BY <1>1, <1>2, <1>3, <1>4

\* Every step keeps the invariant, and no terminal loses its last process.
LEMMA SStep == SInv /\ [Next]_vars => SInv' /\ Chained
<1> SUFFICES ASSUME SInv, [Next]_vars PROVE SInv' /\ Chained
    OBVIOUS
<1>1. ASSUME NEW t \in Terminals, OpenTerminal(t) PROVE SInv' /\ Chained
  <2>1. PICK s \in Slots : IsFirstFree(s, InUse) /\ Launch(t, s, ShellName, <<s>>, 0, task)
    BY <1>1 DEF OpenTerminal
  <2>2. \A u \in Terminals : \A i \in 1..Len(stack[u]) : stack[u][i] # s
    BY <2>1, FreeSlot DEF IsFirstFree
  <2>3. /\ stack[t] = <<>> /\ Append(stack[t], s) = <<s>> /\ stack[t] \in Seq(Slots)
    <3>1. stack[t] = <<>>
      BY <1>1 DEF OpenTerminal
    <3>2. Append(<<>>, s) = <<s>> /\ <<>> \in Seq(Slots)
      OBVIOUS
    <3> QED BY <3>1, <3>2, Zenon
  <2>4. ShellName \in Lines \cup {ShellName} /\ cmd(ShellName) \in Executables
    BY ShellLineParsed DEF Executables
  <2>5. task \in [Slots -> TaskType] /\ 0 \in Slots \cup {0}
    BY DEF SInv, Types
  <2>6. Launch(t, s, ShellName, Append(stack[t], s), 0, task)
    BY <2>1, <2>3
  <2>7. Calling(stack[t], s, 0, task)
    BY <2>3 DEF Calling
  <2>8. SInv' /\ \A u \in Terminals : stack[u] # <<>> => stack'[u] # <<>>
    BY <2>2, <2>3, <2>4, <2>5, <2>6, <2>7, Launched
  <2> QED BY <2>8 DEF Chained
<1>2. ASSUME NEW t \in Terminals, NEW status \in Statuses \cup {0}, stack[t] # <<>>,
             halt(t, status)
      PROVE  SInv' /\ Chained
  <2>1. status \in Int /\ status \in Statuses \cup {-1, 0, Exception} /\ "exited" \in Kinds
    BY ShellConstants DEF Kinds
  <2>2. Due(Fate("exited", status, 0)) = status
    BY <2>1, DueValues
  <2> QED BY <1>2, <2>1, <2>2, Halted DEF halt
<1>3. ASSUME NEW t \in Terminals, NEW l \in Lines, ShellLine(t, l) PROVE SInv' /\ Chained
  <2>1. stack[t] # <<>> /\ (halt(t, 0) \/ execute(t, l))
    BY <1>3 DEF ShellLine, AtShell, Running
  <2> QED BY <1>2, <2>1, Executed
<1>4. ASSUME NEW t \in Terminals, NEW l \in Lines, JobExecute(t, l) PROVE SInv' /\ Chained
    BY <1>4, Executed DEF JobExecute, InJob, Running
<1>5. ASSUME NEW t \in Terminals, NEW status \in Statuses, JobExit(t, status)
      PROVE  SInv' /\ Chained
    BY <1>2, <1>5 DEF JobExit, InJob, Running
<1>6. ASSUME NEW t \in Terminals, Fault(t) PROVE SInv' /\ Chained
  <2>1. stack[t] # <<>> /\ HaltWith(t, Exception, "exception", 0)
    BY <1>6 DEF Fault, Running, EXC
  <2>2. /\ Exception \in Statuses \cup {-1, 0, Exception} /\ "exception" \in Kinds /\ 0 \in Int
        /\ Due(Fate("exception", 0, 0)) = Exception
    BY DueValues DEF Kinds
  <2> QED BY <2>1, <2>2, Halted
<1>7. ASSUME NEW t \in Terminals, NEW n \in ArgSizes, getargs(t, n) PROVE SInv' /\ Chained
    BY <1>7, GetargsStep DEF Chained
<1>8. CASE UNCHANGED vars
  <2>1. stack' = stack /\ argument' = argument /\ task' = task
    BY <1>8 DEF vars
  <2> QED BY <2>1 DEF SInv, Types, Apart, BaseShells, AllObedient, Linked, Chained
<1> QED BY <1>1, <1>3, <1>4, <1>5, <1>6, <1>7, <1>8 DEF Next

-----------------------------------------------------------------------------
(* Theorems *)

\* The inductive invariant holds at all times.
THEOREM SInvariance == Spec => []SInv
BY SInit, SStep, PTL DEF Spec

\* Different slots in a chain: it is at most as long as the table.
LEMMA ChainBound ==
    ASSUME Types, Apart, NEW t \in Terminals
    PROVE  Len(stack[t]) \in 0..N /\ stack[t] \in [1..Len(stack[t]) -> Slots]
<1> DEFINE n == Len(stack[t])
<1>1. stack[t] \in Seq(Slots) /\ n \in Nat /\ stack[t] \in [1..n -> Slots]
    BY DEF Types
<1>2. \A i, j \in 1..n : stack[t][i] = stack[t][j] => i = j
    BY DEF Apart
<1>3. N \in Nat \ {0} /\ 1 \in Int /\ N \in Int /\ n \in Int
    BY <1>1, ShellConstants
<1>4. IsFiniteSet(1..n) /\ IsFiniteSet(Slots) /\ Cardinality(Slots) = N
      /\ Cardinality(1..n) = IF 1 > n THEN 0 ELSE n - 1 + 1
    BY <1>3, FS_Interval DEF Slots
<1> HIDE DEF n
<1>5. ~(Cardinality(Slots) < Cardinality(1..n))
    BY <1>1, <1>2, <1>4, FS_PigeonHole
<1>6. n \in 0..N
    BY <1>1, <1>3, <1>4, <1>5
<1> QED BY <1>1, <1>6 DEF n

\* Every process runs the program its command line names first and has the
\* second word as its argument, whatever the line, the table and the order in
\* which programs start and end (syscall.c 143-172 and 197).
THEOREM CommandsObeyed == Spec => []CommandObeyed
<1>1. SInv => CommandObeyed
  <2> SUFFICES ASSUME SInv PROVE CommandObeyed
    OBVIOUS
  <2>1. Types /\ Apart /\ AllObedient
    BY DEF SInv
  <2>2. TypeOK
    <3>1. stack \in [Terminals -> UNION {[1..k -> Slots] : k \in 0..N}]
      <4>1. \A t \in Terminals : stack[t] \in UNION {[1..k -> Slots] : k \in 0..N}
        BY <2>1, ChainBound
      <4> QED BY <2>1, <4>1 DEF Types
    <3>2. \A s \in Slots : argument[s] \in Seq({"s", "e", "j", "k"})
      BY <2>1 DEF Types, Letters
    <3>3. ASSUME NEW s \in Slots
          PROVE  /\ task[s].program \in Executables
                 /\ task[s].line \in Lines \cup {ShellName}
                 /\ task[s].caller \in Slots \cup {0}
                 /\ task[s].rval \in Statuses \cup {-1, 0, Exception}
                 /\ task[s].fate.kind \in Kinds
      <4>1. task[s] \in TaskType
        BY <2>1 DEF Types
      <4> QED BY <4>1 DEF TaskType, FateType
    <3> QED BY <3>1, <3>2, <3>3 DEF TypeOK
  <2>3. \A s \in InUse : Obedient(task[s], argument[s])
    BY <2>1 DEF InUse, AllObedient
  <2> QED BY <2>2, <2>3 DEF CommandObeyed, Obedient
<1> QED BY <1>1, SInvariance, PTL

\* getargs answers every program from its own command line (syscall.c 364-374).
THEOREM ArgumentsOwn == Spec => []ArgumentIsOwn
<1>1. SInv => ArgumentIsOwn
  <2> SUFFICES ASSUME SInv PROVE ArgumentIsOwn
    OBVIOUS
  <2>1. \A s \in InUse : Obedient(task[s], argument[s])
    BY DEF SInv, InUse, AllObedient
  <2> QED BY <2>1 DEF ArgumentIsOwn, Obedient, Answered
<1> QED BY <1>1, SInvariance, PTL

\* What a shell prints about the value due to it is the truth about a command
\* that found a slot and ended with a byte.
LEMMA MessagesTrue ==
    ASSUME NEW f \in FateType, f.kind # "full", f.kind # "running", f.status \in 0..255
    PROVE  Message(Due(f)) = Truth(f)
<1>1. CASE f.kind = "refused"
  <2>1. Due(f) = -1 /\ Truth(f) = "no such command"
    BY <1>1 DEF Due, Truth
  <2>2. Message(-1) = "no such command"
    BY DEF Message, Exception
  <2> QED BY <2>1, <2>2
<1>2. CASE f.kind = "exception"
  <2>1. Due(f) = Exception /\ Truth(f) = "program terminated by exception"
    BY <1>2 DEF Due, Truth
  <2>2. Message(Exception) = "program terminated by exception"
    BY DEF Message, Exception
  <2> QED BY <2>1, <2>2
<1>3. CASE f.kind = "exited" /\ f.status # 0
  <2>1. Due(f) = f.status /\ Truth(f) = "program terminated abnormally"
    BY <1>3 DEF Due, Truth
  <2>2. Message(f.status) = "program terminated abnormally"
    BY <1>3 DEF Message, Exception
  <2> QED BY <2>1, <2>2
<1>4. CASE f.kind = "none" \/ (f.kind = "exited" /\ f.status = 0)
  <2>1. Due(f) = 0 /\ Truth(f) = "nothing"
    BY <1>4 DEF Due, Truth
  <2>2. Message(0) = "nothing"
    BY DEF Message, Exception
  <2> QED BY <2>1, <2>2
<1> QED BY <1>1, <1>2, <1>3, <1>4 DEF FateType, Kinds

\* The process that runs on a terminal has the value its own last command left,
\* for any number of terminals and slots, any nesting of programs and any
\* statuses, and a shell tells the truth about it when it is a byte (syscall.c
\* 77-87 and 213-220, shell.c 27-33).
THEOREM ReportsTrue == Spec => []ReportsTruly
<1>1. SInv => ReportsTruly
  <2> SUFFICES ASSUME SInv, NEW t \in Terminals, Running(t)
               PROVE  LET k == task[Top(t)]
                      IN  /\ k.fate.kind # "running" /\ k.rval = Due(k.fate)
                          /\ k.fate.kind # "full" /\ k.fate.status \in 0..255
                               => Message(k.rval) = Truth(k.fate)
    BY DEF ReportsTruly
  <2> DEFINE k == task[Top(t)]
  <2>1. Types /\ stack[t] # <<>>
    BY DEF SInv, Running
  <2>2. /\ Top(t) \in Slots /\ Len(stack[t]) \in 1..Len(stack[t])
        /\ Top(t) = stack[t][Len(stack[t])]
    BY <2>1, TopFacts
  <2>3. Settled(k)
    BY <2>2 DEF SInv, Linked
  <2>4. k \in TaskType
    BY <2>1, <2>2 DEF Types
  <2> HIDE DEF k
  <2>5. k.fate \in FateType
    BY <2>4 DEF TaskType
  <2>6. k.fate.kind # "running" /\ k.rval = Due(k.fate)
    BY <2>3 DEF Settled
  <2>7. k.fate.kind # "full" /\ k.fate.status \in 0..255 => Message(k.rval) = Truth(k.fate)
    BY <2>5, <2>6, MessagesTrue
  <2> QED BY <2>6, <2>7 DEF k
<1> QED BY <1>1, SInvariance, PTL

\* A terminal that has a shell keeps one at its base (syscall.c 38-41).
THEOREM ShellsStay == Spec => ShellStays
<1>1. SInv /\ [Next]_vars =>
        [\A t \in Terminals : stack[t] # <<>> =>
            stack'[t] # <<>> /\ task'[stack'[t][1]].program = ShellName]_vars
    BY SStep DEF SInv, BaseShells, Chained
<1> QED BY <1>1, SInvariance, PTL DEF Spec, ShellStays

=============================================================================
