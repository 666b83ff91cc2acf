--------------------------- MODULE LineBufferProofs ---------------------------
(***************************************************************************)
(* The input line of a terminal, for every buffer size, key and read: until *)
(* a key or a read destroys input (lost), the counters agree with the      *)
(* buffer, and the buffer is a queue of lines.                             *)
(***************************************************************************)
EXTENDS LineBuffer, FiniteSetTheorems, SequenceTheorems, WellFoundedInduction, TLAPS

USE LineAssumption

\* Every newline stored is among the bytes in use: the copy of terminal_read,
\* which looks for one in all of key_buf, finds no stale one.
NewlinesInUse == \A i \in Newlines : i < num_buf

\* buf_flag is the number of newlines, as an int8_t.
FlagCounts == buf_flag = Int8(Cardinality(Newlines))

\* A read that has seen buf_flag has a line.
CopyHasLine == reader = "copy" => Newlines # {}

Counted == NewlinesInUse /\ FlagCounts /\ CopyHasLine

LInv == TypeOK /\ (~lost => Counted)

-----------------------------------------------------------------------------
(* Facts about numbers and sets *)

\* A set of natural numbers that is not empty has a least element.
LEMMA LeastElement ==
    ASSUME NEW S, S \subseteq Nat, S # {}
    PROVE  \E i \in S : \A j \in S : i <= j
<1>1. PICK i \in S : \A j \in S : ~ (<<j, i>> \in OpToRel(<, Nat))
    BY NatLessThanWellFounded, WFMin
<1>2. \A j \in S : ~(j < i)
    BY <1>1 DEF OpToRel
<1> QED BY <1>2

\* int8_t arithmetic: the value is in range, and adding or taking one before or
\* after the conversion is the same.
LEMMA Int8Facts ==
    ASSUME NEW x \in Int
    PROVE  /\ Int8(x) \in -128..127
           /\ Int8(Int8(x) + 1) = Int8(x + 1)
           /\ Int8(Int8(x) - 1) = Int8(x - 1)
           /\ Int8(0) = 0
BY SMT DEF Int8

\* The newlines of a buffer are finitely many.
LEMMA NewlinesFinite ==
    /\ IsFiniteSet(Newlines) /\ Cardinality(Newlines) \in Nat
    /\ Newlines \subseteq Index /\ Index \subseteq Nat
<1>1. Index \subseteq Nat /\ IsFiniteSet(Index)
    BY FS_Interval DEF Index
<1>2. Newlines \subseteq Index
    BY DEF Newlines
<1> QED BY <1>1, <1>2, FS_Subset, FS_CardinalityType

-----------------------------------------------------------------------------
(* The bytes a read takes *)

\* The bytes a read takes are a number of them; with a newline before nbytes
\* they end with the first newline.
LEMMA BytesReadFacts ==
    ASSUME TypeOK, NEW r \in BytesRead
    PROVE  /\ r \in Nat
           /\ {i \in Newlines : i < nbytes} # {} =>
                 /\ r - 1 \in Newlines /\ r >= 1 /\ r <= N
                 /\ \A j \in Newlines : r - 1 <= j
<1> DEFINE ends == {i \in Newlines : i < nbytes}
<1>1. nbytes \in Nat
    BY DEF TypeOK
<1>2. CASE ends # {}
  <2>1. ends \subseteq Nat
    BY NewlinesFinite
  <2>2. \E i \in ends : \A j \in ends : i <= j
    BY <1>2, <2>1, LeastElement
  <2> DEFINE m == CHOOSE i \in ends : \A j \in ends : i <= j
  <2>3. m \in ends /\ \A j \in ends : m <= j
    BY <2>2
  <2>4. r = 1 + m
    <3>1. BytesRead = {1 + m}
        BY <1>2, Zenon DEF BytesRead
    <3> HIDE DEF m
    <3> QED BY <3>1
  <2> HIDE DEF m
  <2>5. m \in Newlines /\ m < nbytes /\ m \in Nat /\ m < N
    BY <2>3, NewlinesFinite DEF Index
  <2>6. \A j \in Newlines : m <= j
    BY <1>1, <2>3, <2>5, NewlinesFinite
  <2> QED BY <2>4, <2>5, <2>6, NewlinesFinite
<1>3. CASE ends = {}
    BY <1>1, <1>3 DEF BytesRead
<1> QED BY <1>2, <1>3

\* After a read that ended with the first newline, the other newlines have moved
\* down by the bytes read, and there is one fewer of them.
LEMMA ShiftNewlines ==
    ASSUME NEW r \in 1..N, r - 1 \in Newlines, \A j \in Newlines : r - 1 <= j,
           key_buf' = [i \in Index |-> IF i + r < N THEN key_buf[i + r] ELSE Nul]
    PROVE  /\ Newlines' = {i \in Index : i + r \in Newlines}
           /\ Cardinality(Newlines') = Cardinality(Newlines) - 1
<1>1. Newlines' = {i \in Index : i + r \in Newlines}
    BY DEF Newlines, Index, Newline, Nul
<1> DEFINE Rest == Newlines \ {r - 1}
           f == [j \in Rest |-> j - r]
<1>2. \A j \in Rest : j \in Index /\ j >= r /\ j - r \in Index /\ (j - r) + r = j
    BY NewlinesFinite DEF Index
<1>3. \A i \in Newlines' : i \in Nat /\ i + r \in Rest /\ (i + r) - r = i
    BY <1>1 DEF Index
<1>4. f \in Bijection(Rest, Newlines')
  <2>1. f \in [Rest -> Newlines']
    BY <1>1, <1>2
  <2>2. \A a, b \in Rest : f[a] = f[b] => a = b
    BY <1>2 DEF Index
  <2>3. \A i \in Newlines' : \E j \in Rest : f[j] = i
    BY <1>3
  <2> QED BY <2>1, <2>2, <2>3 DEF Bijection, Injection, Surjection, IsInjective
<1>5. IsFiniteSet(Rest) /\ Cardinality(Rest) = Cardinality(Newlines) - 1
    BY NewlinesFinite, FS_RemoveElement
<1>6. Cardinality(Newlines') = Cardinality(Rest)
    BY <1>4, <1>5, FS_Bijection DEF ExistsBijection
<1> QED BY <1>1, <1>5, <1>6

-----------------------------------------------------------------------------
(* Preservation *)

\* The initial buffer is empty.
LEMMA LInit == Init => LInv
<1> SUFFICES ASSUME Init PROVE LInv
    OBVIOUS
<1>1. TypeOK
    BY DEF Init, TypeOK, Index
<1>2. Newlines = {}
    BY DEF Init, Newlines, Newline, Nul
<1>3. Counted
    BY <1>2, FS_EmptySet, Int8Facts DEF Init, Counted, NewlinesInUse, FlagCounts, CopyHasLine
<1> QED BY <1>1, <1>3 DEF LInv

\* Bytes stored behind those in use.
LEMMA StoreType ==
    ASSUME TypeOK, NEW c \in Chars \cup {Space}, NEW k \in Nat, Store(c, k),
           num_buf + k <= N + SpillMax
    PROVE  /\ key_buf' \in [Index -> Chars \cup {Newline, Space, Nul}]
           /\ num_buf' \in Int /\ num_buf' = num_buf + k
           /\ buf_flag' \in -128..127
BY DEF TypeOK, Store, SpaceCode

\* Every step keeps the types.
LEMMA LType == LInv /\ [Next]_vars => TypeOK'
<1> SUFFICES ASSUME LInv, [Next]_vars PROVE TypeOK'
    OBVIOUS
<1>t. TypeOK
    BY DEF LInv
<1>1. ASSUME NEW c \in Chars, KeyChar(c) PROVE TypeOK'
    BY <1>t, <1>1, StoreType DEF KeyChar, TypeOK
<1>2. CASE KeyTab
  <2>1. /\ key_buf' \in [Index -> Chars \cup {Newline, Space, Nul}]
        /\ num_buf' \in Int /\ num_buf' = num_buf + TabSize
        /\ buf_flag' \in -128..127
    BY <1>t, <1>2, StoreType DEF KeyTab
  <2>2. num_buf \in Int /\ lost \in BOOLEAN
    BY <1>t DEF TypeOK
  <2>3. lost' \in BOOLEAN /\ (~lost' => ~lost /\ ~(num_buf + TabSize > N))
    BY <1>2, <2>2, Zenon DEF KeyTab
  <2>4. ~lost' => num_buf' \in 0..N
    BY <1>t, <2>1, <2>2, <2>3 DEF TypeOK
  <2> QED BY <1>t, <1>2, <2>1, <2>2, <2>3, <2>4 DEF KeyTab, TypeOK
<1>3. CASE KeyBackspace
    BY <1>t, <1>3 DEF KeyBackspace, TypeOK
<1>4. CASE KeyEnter
    BY <1>t, <1>4, Int8Facts DEF KeyEnter, TypeOK
<1>5. CASE KeyClear
    BY <1>t, <1>5 DEF KeyClear, TypeOK
<1>6. ASSUME NEW n \in ReadSizes, ReadCall(n) PROVE TypeOK'
    BY <1>t, <1>6 DEF ReadCall, TypeOK
<1>7. CASE ReadTest
    BY <1>t, <1>7 DEF ReadTest, TypeOK
<1>8. CASE ReadCopy
  <2>1. PICK r \in BytesRead :
            /\ key_buf' = [i \in Index |-> IF i + r < N THEN key_buf[i + r] ELSE Nul]
            /\ num_buf' = num_buf - r
            /\ buf_flag' = Int8(buf_flag - 1)
    BY <1>8 DEF ReadCopy
  <2>2. r \in Nat
    BY <1>t, BytesReadFacts
  <2>3. key_buf' \in [Index -> Chars \cup {Newline, Space, Nul}]
    BY <1>t, <2>1, <2>2 DEF TypeOK, Index
  <2>4. ~lost' => num_buf' \in 0..N
    <3> SUFFICES ASSUME ~lost' PROVE num_buf' \in 0..N
        OBVIOUS
    <3>1. ~lost /\ {i \in Newlines : i < nbytes} # {}
        BY <1>8 DEF ReadCopy
    <3>2. r - 1 \in Newlines
        BY <1>t, <3>1, BytesReadFacts
    <3>3. r - 1 < num_buf
        BY <3>1, <3>2 DEF LInv, Counted, NewlinesInUse
    <3> QED BY <1>t, <2>1, <2>2, <3>1, <3>3 DEF TypeOK
  <2>5. buf_flag' \in -128..127
    BY <1>t, <2>1, Int8Facts DEF TypeOK
  <2> QED BY <1>t, <1>8, <2>1, <2>2, <2>3, <2>4, <2>5 DEF ReadCopy, TypeOK
<1>9. CASE UNCHANGED vars
    BY <1>t, <1>9 DEF vars, TypeOK
<1> QED BY <1>1, <1>2, <1>3, <1>4, <1>5, <1>6, <1>7, <1>8, <1>9 DEF Next, Keyboard, Reader

\* While nothing is lost a step stores behind the newlines, takes back a byte that
\* is none, adds a newline and counts it, or takes the first one and counts it off.
LEMMA LStep == LInv /\ [Next]_vars => LInv'
<1> SUFFICES ASSUME LInv, [Next]_vars, ~lost' PROVE Counted'
    BY LType DEF LInv
<1>t. TypeOK
    BY DEF LInv
<1>l. ~lost
    BY <1>t DEF TypeOK, Next, vars, Keyboard, Reader, KeyChar, KeyTab, KeyBackspace, KeyEnter,
           KeyClear, ReadCall, ReadTest, ReadCopy
<1>c. NewlinesInUse /\ FlagCounts /\ CopyHasLine /\ num_buf \in 0..N
    BY <1>t, <1>l DEF LInv, Counted, TypeOK
<1> USE DEF Counted
<1>1. ASSUME Newlines' = Newlines, buf_flag' = buf_flag, reader' = reader,
             \A i \in Newlines : i < num_buf'
      PROVE  Counted'
    BY <1>c, <1>1 DEF NewlinesInUse, FlagCounts, CopyHasLine
<1>2. ASSUME NEW c \in Chars \cup {Space}, NEW k \in Nat, Store(c, k),
             num_buf + k <= N, reader' = reader
      PROVE  Counted'
  <2>1. Newlines' = Newlines
    BY <1>t, <1>c, <1>2 DEF Store, Newlines, NewlinesInUse, TypeOK, Index, Newline, Space
  <2>2. buf_flag' = buf_flag /\ num_buf' = num_buf + k
    BY <1>c, <1>2 DEF Store, FlagOffset
  <2>3. \A i \in Newlines : i < num_buf'
    BY <1>c, <2>2, NewlinesFinite DEF NewlinesInUse
  <2> QED BY <1>1, <1>2, <2>1, <2>2, <2>3
<1>3. ASSUME NEW c \in Chars, KeyChar(c) PROVE Counted'
    BY <1>2, <1>3, <1>c DEF KeyChar
<1>4. CASE KeyTab
  <2>1. ~(num_buf + TabSize > N)
    BY <1>4, Zenon DEF KeyTab
  <2> QED BY <1>2, <1>4, <1>c, <2>1 DEF KeyTab
<1>5. CASE KeyBackspace
  <2>0. ~(num_buf <= N /\ key_buf[num_buf - 1] = Newline)
    BY <1>5, Zenon DEF KeyBackspace
  <2>1. num_buf - 1 \notin Newlines
    BY <2>0, <1>c DEF Newlines
  <2>2. \A i \in Newlines : i < num_buf - 1
    BY <2>1, <1>c, NewlinesFinite DEF NewlinesInUse
  <2> QED BY <1>1, <1>5, <2>2 DEF KeyBackspace, Newlines
<1>6. CASE KeyEnter
  <2>1. num_buf \in Index /\ num_buf' = num_buf + 1 /\ reader' = reader
        /\ buf_flag' = Int8(buf_flag + 1)
    BY <1>6, <1>c DEF KeyEnter, Index
  <2>2. Newlines' = Newlines \cup {num_buf} /\ num_buf \notin Newlines
    BY <1>6, <1>c, <2>1 DEF KeyEnter, Newlines, NewlinesInUse
  <2>3. Cardinality(Newlines') = Cardinality(Newlines) + 1
    BY <2>2, NewlinesFinite, FS_AddElement
  <2>4. NewlinesInUse'
    BY <2>1, <2>2, <1>c, NewlinesFinite DEF NewlinesInUse
  <2>5. FlagCounts'
    BY <2>1, <2>3, <1>c, NewlinesFinite, Int8Facts DEF FlagCounts
  <2> QED BY <2>2, <2>4, <2>5 DEF CopyHasLine
<1>7. CASE KeyClear
  <2>1. Newlines' = {}
    BY <1>7 DEF KeyClear, Newlines, Newline, Nul
  <2>2. reader # "copy" /\ reader' = reader /\ buf_flag' = 0
    BY <1>7, Zenon DEF KeyClear
  <2>3. Cardinality(Newlines') = 0
    BY <2>1, FS_EmptySet
  <2>4. Int8(0) = 0
    BY Int8Facts
  <2> QED BY <2>1, <2>2, <2>3, <2>4 DEF NewlinesInUse, FlagCounts, CopyHasLine
<1>8. ASSUME NEW n \in ReadSizes, ReadCall(n) PROVE Counted'
    BY <1>8, <1>c DEF ReadCall, NewlinesInUse, FlagCounts, CopyHasLine, Newlines
<1>9. CASE ReadTest
  <2>1. Newlines # {}
    <3>1. Int8(0) = 0 /\ Cardinality({}) = 0
        BY FS_EmptySet, Int8Facts
    <3> QED BY <1>9, <1>c, <3>1 DEF ReadTest, FlagCounts
  <2> QED BY <1>9, <1>c, <2>1 DEF ReadTest, NewlinesInUse, FlagCounts, CopyHasLine, Newlines
<1>10. CASE ReadCopy
  <2>1. PICK r \in BytesRead :
            /\ key_buf' = [i \in Index |-> IF i + r < N THEN key_buf[i + r] ELSE Nul]
            /\ num_buf' = num_buf - r
            /\ buf_flag' = Int8(buf_flag - 1)
    BY <1>10 DEF ReadCopy
  <2>0. {i \in Newlines : i < nbytes} # {}
    BY <1>10, Zenon DEF ReadCopy
  <2>2. r \in 1..N /\ r - 1 \in Newlines /\ \A j \in Newlines : r - 1 <= j
    BY <1>t, <2>0, BytesReadFacts
  <2>3. /\ Newlines' = {i \in Index : i + r \in Newlines}
        /\ Cardinality(Newlines') = Cardinality(Newlines) - 1
    BY <2>1, <2>2, ShiftNewlines
  <2>4. NewlinesInUse'
    BY <2>1, <2>2, <2>3, <1>c DEF NewlinesInUse, Index
  <2>5. FlagCounts'
    BY <2>1, <2>3, <1>c, NewlinesFinite, Int8Facts DEF FlagCounts
  <2> QED BY <1>10, <2>4, <2>5 DEF ReadCopy, CopyHasLine
<1>11. CASE UNCHANGED vars
    BY <1>11, <1>c DEF vars, NewlinesInUse, FlagCounts, CopyHasLine, Newlines
<1> QED BY <1>3, <1>4, <1>5, <1>6, <1>7, <1>8, <1>9, <1>10, <1>11 DEF Next, Keyboard, Reader

-----------------------------------------------------------------------------
(* The invariants *)

\* The invariant holds in every behaviour of the buffer.
THEOREM LInvariance == Spec => []LInv
BY LInit, LStep, PTL DEF Spec

\* The counters stay numbers of their width and, until input is lost, the count
\* stays within key_buf (lib.h 12 and 20-22).
THEOREM LineTypeCorrect == Spec => []TypeOK
<1>1. LInv => TypeOK
    BY DEF LInv
<1> QED BY <1>1, LInvariance, PTL

\* Until input is lost buf_flag counts the lines in use, and a read that copies
\* has one (keyboard.c 304-309, terminal.c 27-55).
THEOREM LinesAreCounted == Spec => []LinesCounted
<1>1. ASSUME LInv PROVE LinesCounted
  <2> SUFFICES ASSUME ~lost PROVE LinesCounted
    BY DEF LinesCounted
  <2>1. Counted
    BY <1>1 DEF LInv
  <2>2. {i \in Newlines : i < num_buf} = Newlines
    BY <2>1 DEF Counted, NewlinesInUse
  <2>3. buf_flag = Int8(Cardinality({i \in Newlines : i < num_buf}))
    BY <2>1, <2>2 DEF Counted, FlagCounts
  <2>4. ReadHasLine
    BY <2>1 DEF Counted, CopyHasLine, NewlinesInUse, ReadHasLine
  <2> QED BY <2>3, <2>4 DEF LinesCounted
<1> QED BY <1>1, LInvariance, PTL

-----------------------------------------------------------------------------
(* The queue of lines *)

Byte == Chars \cup {Newline, Space, Nul}

\* A sequence that has the elements m to n of another one is that part of it.
LEMMA PartOf ==
    ASSUME NEW S, NEW s \in Seq(S), NEW t \in Seq(S), NEW m \in Nat \ {0}, NEW n \in Nat,
           n <= Len(s), Len(t) = IF m <= n THEN n - m + 1 ELSE 0,
           \A i \in 1..Len(t) : t[i] = s[m + i - 1]
    PROVE  SubSeq(s, m, n) = t
<1>1. \A i \in m..n : s[i] \in S
    BY ElementOfSeq
<1> DEFINE u == SubSeq(s, m, n)
<1>2. /\ u \in Seq(S)
      /\ Len(u) = IF m <= n THEN n - m + 1 ELSE 0
      /\ \A i \in 1..(n - m + 1) : u[i] = s[m + i - 1]
    BY <1>1, SubSeqProperties
<1> HIDE DEF u
<1>3. \A i \in 1..Len(u) : u[i] = t[i]
    BY <1>2
<1>4. u = t
    BY <1>2, <1>3, SeqEqual
<1> QED BY <1>4 DEF u

\* The bytes in use are a sequence of num_buf bytes.
LEMMA SeqOfBuffer ==
    ASSUME NEW kb \in [Index -> Byte], NEW n \in 0..N,
           NEW s, s = [i \in 1..n |-> kb[i - 1]]
    PROVE  /\ s \in Seq(Byte) /\ Len(s) = n
           /\ \A i \in 1..n : s[i] = kb[i - 1]
<1>1. \A i \in 1..n : kb[i - 1] \in Byte
    BY DEF Index
<1> QED BY <1>1

\* The same of the buffer before and after a step that loses nothing.
LEMMA ContentsSeq ==
    /\ TypeOK /\ ~lost =>
          /\ Contents \in Seq(Byte) /\ Len(Contents) = num_buf /\ num_buf \in 0..N
          /\ \A i \in 1..num_buf : Contents[i] = key_buf[i - 1]
    /\ TypeOK' /\ ~lost' =>
          /\ Contents' \in Seq(Byte) /\ Len(Contents') = num_buf' /\ num_buf' \in 0..N
          /\ \A i \in 1..num_buf' : Contents'[i] = key_buf'[i - 1]
<1>1. /\ TypeOK /\ ~lost => key_buf \in [Index -> Byte] /\ num_buf \in 0..N
      /\ TypeOK' /\ ~lost' => key_buf' \in [Index -> Byte] /\ num_buf' \in 0..N
    BY DEF TypeOK, Byte
<1>2. /\ Contents = [i \in 1..num_buf |-> key_buf[i - 1]]
      /\ Contents' = [i \in 1..num_buf' |-> key_buf'[i - 1]]
    BY DEF Contents
<1>3. ASSUME TypeOK, ~lost
      PROVE  /\ Contents \in Seq(Byte) /\ Len(Contents) = num_buf
             /\ \A i \in 1..num_buf : Contents[i] = key_buf[i - 1]
    BY <1>1, <1>2, <1>3, SeqOfBuffer
<1>4. ASSUME TypeOK', ~lost'
      PROVE  /\ Contents' \in Seq(Byte) /\ Len(Contents') = num_buf'
             /\ \A i \in 1..num_buf' : Contents'[i] = key_buf'[i - 1]
  <2>1. key_buf' \in [Index -> Byte] /\ num_buf' \in 0..N
    BY <1>1, <1>4
  <2>2. Contents' = [i \in 1..num_buf' |-> key_buf'[i - 1]]
    BY <1>2
  <2> QED BY <2>1, <2>2, SeqOfBuffer
<1> QED BY <1>1, <1>3, <1>4

\* Characters stored behind the bytes in use, within the buffer: Put.
LEMMA QPut ==
    ASSUME TypeOK, TypeOK', ~lost, ~lost', num_buf <= num_buf', UNCHANGED buf,
           \A i \in 0..(num_buf - 1) : key_buf'[i] = key_buf[i]
    PROVE  Queue!Put
<1>1. /\ Contents \in Seq(Byte) /\ Len(Contents) = num_buf /\ num_buf \in 0..N
      /\ \A i \in 1..num_buf : Contents[i] = key_buf[i - 1]
    BY ContentsSeq
<1>2. /\ Contents' \in Seq(Byte) /\ Len(Contents') = num_buf' /\ num_buf' \in 0..N
      /\ \A i \in 1..num_buf' : Contents'[i] = key_buf'[i - 1]
    BY ContentsSeq
<1>3. SubSeq(Contents, 1, num_buf) = Contents
    BY <1>1, SubSeqFull
<1>4. \A i \in 1..num_buf : Contents[i] = Contents'[1 + i - 1]
    BY <1>1, <1>2
<1>5. SubSeq(Contents', 1, num_buf) = Contents
    BY <1>1, <1>2, <1>4, PartOf
<1>6. lost = FALSE /\ lost' = FALSE
    BY DEF TypeOK
<1>7. Queue!IsPrefix(Contents, Contents')
    BY <1>1, <1>2, <1>3, <1>5 DEF Queue!IsPrefix
<1>8. Len(Contents') <= N
    BY <1>2
<1> QED BY <1>6, <1>7, <1>8, Zenon DEF Queue!Put

\* BACKSPACE on a byte that is no newline: Erase.
LEMMA QErase ==
    ASSUME TypeOK, TypeOK', KeyBackspace, ~lost, ~lost'
    PROVE  Queue!Erase
<1>1. /\ Contents \in Seq(Byte) /\ Len(Contents) = num_buf /\ num_buf \in 0..N
      /\ \A i \in 1..num_buf : Contents[i] = key_buf[i - 1]
    BY ContentsSeq
<1>2. /\ Contents' \in Seq(Byte) /\ Len(Contents') = num_buf' /\ num_buf' \in 0..N
      /\ \A i \in 1..num_buf' : Contents'[i] = key_buf'[i - 1]
    BY ContentsSeq
<1>3. num_buf > 0 /\ num_buf' = num_buf - 1 /\ key_buf' = key_buf /\ buf' = buf
    BY DEF KeyBackspace
<1>4. ~(num_buf <= N /\ key_buf[num_buf - 1] = Newline)
    BY Zenon DEF KeyBackspace
<1>5. Contents[num_buf] # Newline /\ Contents # <<>>
    BY <1>1, <1>3, <1>4
<1>6. \A i \in 1..num_buf' : Contents'[i] = Contents[1 + i - 1]
  <2> SUFFICES ASSUME NEW i \in 1..num_buf' PROVE Contents'[i] = Contents[i]
    BY <1>2
  <2>1. i \in 1..num_buf
    BY <1>1, <1>3
  <2> QED BY <1>1, <1>2, <1>3, <2>1
<1>7. SubSeq(Contents, 1, num_buf - 1) = Contents'
    BY <1>1, <1>2, <1>3, <1>6, PartOf
<1>8. lost = FALSE /\ lost' = FALSE
    BY DEF TypeOK
<1> QED BY <1>1, <1>3, <1>5, <1>7, <1>8 DEF Queue!Erase, Queue!Last, Queue!Front

\* A read that ends with a newline: Deliver.
LEMMA QDeliver ==
    ASSUME LInv, TypeOK', ReadCopy, ~lost, ~lost'
    PROVE  Queue!Deliver
<1>t. TypeOK /\ NewlinesInUse
    BY DEF LInv, Counted
<1>1. /\ Contents \in Seq(Byte) /\ Len(Contents) = num_buf /\ num_buf \in 0..N
      /\ \A i \in 1..num_buf : Contents[i] = key_buf[i - 1]
    BY <1>t, ContentsSeq
<1>2. /\ Contents' \in Seq(Byte) /\ Len(Contents') = num_buf' /\ num_buf' \in 0..N
      /\ \A i \in 1..num_buf' : Contents'[i] = key_buf'[i - 1]
    BY ContentsSeq
<1>3. {i \in Newlines : i < nbytes} # {}
    BY Zenon DEF ReadCopy
<1>4. PICK r \in BytesRead :
        /\ buf' = [i \in 1..r |-> IF i <= N THEN key_buf[i - 1] ELSE Nul]
        /\ key_buf' = [i \in Index |-> IF i + r < N THEN key_buf[i + r] ELSE Nul]
        /\ num_buf' = num_buf - r
    BY DEF ReadCopy
<1>5. /\ r \in 1..N /\ r - 1 \in Newlines /\ r <= num_buf
      /\ \A j \in Newlines : r - 1 <= j
  <2>1. r \in 1..N /\ r - 1 \in Newlines /\ \A j \in Newlines : r - 1 <= j
    BY <1>t, <1>3, BytesReadFacts
  <2>2. r - 1 < num_buf
    BY <1>t, <2>1 DEF NewlinesInUse
  <2> QED BY <1>1, <2>1, <2>2
<1>6. Contents[r] = Newline
    BY <1>1, <1>5 DEF Newlines
<1>7. \A j \in 1..(r - 1) : Contents[j] # Newline
  <2> SUFFICES ASSUME NEW j \in 1..(r - 1), Contents[j] = Newline PROVE FALSE
    OBVIOUS
  <2>1. j - 1 \in Newlines
    BY <1>1, <1>5 DEF Newlines, Index
  <2> QED BY <1>5, <2>1
<1>8. buf' = SubSeq(Contents, 1, r)
  <2>1. buf' = [i \in 1..r |-> key_buf[i - 1]]
    BY <1>4, <1>5
  <2>2. \A i \in 1..r : key_buf[i - 1] \in Byte
    BY <1>t, <1>5 DEF TypeOK, Index, Byte
  <2>3. buf' \in Seq(Byte) /\ Len(buf') = r
    BY <1>5, <2>1, <2>2
  <2>4. \A i \in 1..Len(buf') : buf'[i] = Contents[1 + i - 1]
    BY <1>1, <1>5, <2>1, <2>3
  <2> QED BY <1>1, <1>5, <2>3, <2>4, PartOf
<1>9. Contents' = SubSeq(Contents, r + 1, num_buf)
  <2>1. \A i \in 1..num_buf' : Contents'[i] = Contents[(r + 1) + i - 1]
    <3> SUFFICES ASSUME NEW i \in 1..num_buf'
                 PROVE  Contents'[i] = Contents[(r + 1) + i - 1]
        OBVIOUS
    <3>1. i - 1 \in Index /\ (i - 1) + r < N /\ r + i \in 1..num_buf
        BY <1>1, <1>2, <1>4, <1>5 DEF Index
    <3>2. Contents'[i] = key_buf[(i - 1) + r]
        BY <1>2, <1>4, <3>1
    <3>3. Contents[r + i] = key_buf[(r + i) - 1]
        BY <1>1, <3>1
    <3> QED BY <1>5, <3>1, <3>2, <3>3
  <2>2. Len(Contents') = IF r + 1 <= num_buf THEN num_buf - (r + 1) + 1 ELSE 0
    BY <1>1, <1>2, <1>4, <1>5
  <2>3. r + 1 \in Nat \ {0} /\ num_buf \in Nat
    BY <1>1, <1>5
  <2>4. \A i \in 1..Len(Contents') : Contents'[i] = Contents[(r + 1) + i - 1]
    BY <1>2, <2>1
  <2>5. num_buf <= Len(Contents)
    BY <1>1
  <2> QED BY <1>1, <1>2, <2>2, <2>3, <2>4, <2>5, PartOf
<1>10. lost = FALSE /\ lost' = FALSE
    BY <1>t DEF TypeOK
<1>11. /\ r \in 1..Len(Contents)
       /\ Contents' = SubSeq(Contents, r + 1, Len(Contents))
    BY <1>1, <1>5, <1>9
<1> QED BY <1>6, <1>7, <1>8, <1>10, <1>11, Zenon DEF Queue!Deliver

\* CTRL+L: Clear.
LEMMA QClear ==
    ASSUME TypeOK, KeyClear, ~lost, ~lost'
    PROVE  Queue!Clear
<1>1. Contents' = <<>>
    BY DEF KeyClear, Contents
<1>2. lost = FALSE /\ lost' = FALSE
    BY DEF TypeOK, KeyClear
<1>3. buf' = buf
    BY DEF KeyClear
<1> QED BY <1>1, <1>2, <1>3 DEF Queue!Clear

\* A step of the buffer is a step of the queue, or leaves it alone.
LEMMA QStep == LInv /\ TypeOK' /\ [Next]_vars => [Queue!QNext]_(Queue!qvars)
<1> SUFFICES ASSUME LInv, TypeOK', [Next]_vars, ~(UNCHANGED Queue!qvars)
             PROVE  Queue!QNext
    OBVIOUS
<1>t. TypeOK
    BY DEF LInv
<1>b. lost \in BOOLEAN /\ lost' \in BOOLEAN
    BY <1>t DEF TypeOK
<1>m. lost => lost'
    BY <1>b DEF Next, vars, Keyboard, Reader, KeyChar, KeyTab, KeyBackspace, KeyEnter,
           KeyClear, ReadCall, ReadTest, ReadCopy
<1>1. CASE lost
  <2>1. lost = TRUE /\ lost' = TRUE
    BY <1>b, <1>m, <1>1
  <2> QED BY <2>1 DEF Queue!qvars
<1>2. CASE ~lost /\ lost'
  <2>1. lost = FALSE /\ lost' = TRUE
    BY <1>b, <1>2
  <2> QED BY <2>1 DEF Queue!QNext, Queue!Lose
<1>3. CASE ~lost /\ ~lost'
  <2>n. num_buf \in 0..N /\ num_buf' \in 0..N
    BY <1>t, <1>3 DEF TypeOK
  <2>f. lost = FALSE /\ lost' = FALSE
    BY <1>b, <1>3
  <2>q. ASSUME UNCHANGED <<key_buf, num_buf, buf>> PROVE FALSE
    BY <2>q, <2>f DEF Queue!qvars, Contents
  <2>p. ASSUME NEW c, NEW k \in Nat, Store(c, k), UNCHANGED buf PROVE Queue!Put
    <3>1. num_buf' = num_buf + k
        BY <2>p DEF Store
    <3>2. \A i \in 0..(num_buf - 1) : key_buf'[i] = key_buf[i]
        BY <2>n, <2>p DEF Store, Index
    <3> QED BY <1>t, <1>3, <2>n, <2>p, <3>1, <3>2, QPut
  <2>1. ASSUME NEW c \in Chars, KeyChar(c) PROVE Queue!QNext
    BY <2>1, <2>p DEF KeyChar, Queue!QNext
  <2>2. CASE KeyTab
    BY <2>2, <2>p DEF KeyTab, Queue!QNext
  <2>3. CASE KeyBackspace
    BY <1>t, <1>3, <2>3, QErase DEF Queue!QNext
  <2>4. CASE KeyEnter
    <3>1. num_buf <= num_buf' /\ buf' = buf
        BY <2>4, <2>n DEF KeyEnter
    <3>2. \A i \in 0..(num_buf - 1) : key_buf'[i] = key_buf[i]
        BY <2>n, <2>4 DEF KeyEnter, Index
    <3> QED BY <1>t, <1>3, <3>1, <3>2, QPut DEF Queue!QNext
  <2>5. CASE KeyClear
    BY <1>t, <1>3, <2>5, QClear DEF Queue!QNext
  <2>6. ASSUME NEW n \in ReadSizes, ReadCall(n) PROVE FALSE
    BY <2>6, <2>q DEF ReadCall
  <2>7. CASE ReadTest
    BY <2>7, <2>q DEF ReadTest
  <2>8. CASE ReadCopy
    BY <1>3, <2>8, QDeliver DEF Queue!QNext
  <2>9. CASE UNCHANGED vars
    BY <2>9, <2>q DEF vars
  <2> QED BY <2>1, <2>2, <2>3, <2>4, <2>5, <2>6, <2>7, <2>8, <2>9
          DEF Next, Keyboard, Reader
<1> QED BY <1>1, <1>2, <1>3

\* Until input is lost the buffer is a queue of lines: what terminal_read hands
\* out is what was typed, whole lines, first in first out
\* (keyboard.c 280-310 and 351-391, terminal.c 24-64).
THEOREM BufferImplementsQueue == Spec => ImplementsQueue
<1>1. Init => Queue!QInit
    BY DEF Init, Queue!QInit, Contents
<1>2. LInv /\ LInv' => LInv /\ TypeOK'
    BY DEF LInv
<1> QED BY <1>1, <1>2, LInvariance, QStep, PTL
        DEF Spec, ImplementsQueue, Queue!QSpec

=============================================================================
