----------------------------- MODULE FilesProofs -----------------------------
(***************************************************************************)
(* Files, directory and descriptors, for every image of the disk, every    *)
(* number of processes and descriptors, and every sequence of their calls. *)
(***************************************************************************)
EXTENDS Programs, SequenceTheorems, WellFoundedInduction, TLAPS

-----------------------------------------------------------------------------
(* Names *)

\* A set of natural numbers that is not empty has a least element.
LEMMA LeastNat ==
    ASSUME NEW S, S \subseteq Nat, S # {}
    PROVE  \E i \in S : \A j \in S : i <= j
<1>1. PICK i \in S : \A j \in S : ~ (<<j, i>> \in OpToRel(<, Nat))
    BY NatLessThanWellFounded, WFMin
<1>2. \A j \in S : ~(j < i)
    BY <1>1 DEF OpToRel
<1> QED BY <1>2

\* The directory, its names and the names programs open.
LEMMA NameTypes ==
    /\ Len(Dentries) \in Nat
    /\ \A i \in 1..Len(Dentries) :
          /\ Dentries[i].name \in Seq(Nat \ {0})
          /\ Len(Dentries[i].name) \in 1..FILENAME_LEN
          /\ Dentries[i].type \in {"rtc", "dir", "file"} /\ Dentries[i].inode \in Nat
          /\ Dentries[i].type = "file" => Dentries[i].inode < Len(Inodes)
    /\ DOMAIN Dentries = 1..Len(Dentries)
    /\ FILENAME_LEN \in Nat
<1> DEFINE D == [name : Seq(Nat \ {0}), type : {"rtc", "dir", "file"}, inode : Nat]
<1>1. Dentries \in Seq(D)
    BY FilesAssumption
<1> HIDE DEF D
<1>2. Len(Dentries) \in Nat /\ DOMAIN Dentries = 1..Len(Dentries)
    BY <1>1
<1>3. \A i \in 1..Len(Dentries) : Dentries[i] \in D
    BY <1>1
<1> QED BY <1>2, <1>3, FilesAssumption DEF D

\* The comparison of read_dentry_by_name, for two C strings that fit the field:
\* it finds them equal exactly when they are.
LEMMA MatchesExact ==
    ASSUME NEW fname \in Seq(Nat \ {0}), Len(fname) \in 1..FILENAME_LEN,
           NEW d, d.name \in Seq(Nat \ {0}), Len(d.name) \in 1..FILENAME_LEN
    PROVE  Matches(fname, d) <=> d.name = fname
<1> DEFINE nm == d.name
           n == Len(fname)
<1>0. /\ n \in Nat /\ Len(nm) \in Nat /\ FILENAME_LEN \in Nat
      /\ \A i \in 1..n : fname[i] \in Nat \ {0}
      /\ \A i \in 1..Len(nm) : nm[i] \in Nat \ {0}
      /\ fname = [i \in 1..n |-> fname[i]]
      /\ nm = [i \in 1..Len(nm) |-> nm[i]]
  <2>1. n \in Nat /\ Len(nm) \in Nat /\ FILENAME_LEN \in Nat
    BY NameTypes
  <2>2. fname = [i \in 1..n |-> fname[i]] /\ \A i \in 1..n : fname[i] \in Nat \ {0}
    OBVIOUS
  <2> HIDE DEF nm
  <2>3. nm \in Seq(Nat \ {0})
    BY DEF nm
  <2>4. nm = [i \in 1..Len(nm) |-> nm[i]] /\ \A i \in 1..Len(nm) : nm[i] \in Nat \ {0}
    BY <2>3
  <2> QED BY <2>1, <2>2, <2>4
<1>1. strncmp(fname, nm, n) <=> \A i \in 1..n : CharAt(nm, i) = fname[i]
    BY SMTT(30), <1>0 DEF strncmp, CharAt
<1>2. ASSUME Matches(fname, d) PROVE nm = fname
  <2>1. \A i \in 1..n : CharAt(nm, i) = fname[i]
    BY <1>1, <1>2 DEF Matches
  <2>2. \A i \in 1..n : i <= Len(nm) /\ nm[i] = fname[i]
    BY <1>0, <2>1 DEF CharAt
  <2>3. n <= Len(nm)
    BY SMTT(30), <1>0, <2>2
  <2>4. n = Len(nm)
    <3>1. n = StoredLen(d) \/ n = FILENAME_LEN
      BY <1>2 DEF Matches
    <3> QED BY <1>0, <2>3, <3>1 DEF StoredLen
  <2> HIDE DEF nm, n
  <2> QED BY <1>0, <2>2, <2>4
<1>3. ASSUME nm = fname PROVE Matches(fname, d)
  <2>1. \A i \in 1..n : CharAt(nm, i) = fname[i]
    BY <1>0, <1>3 DEF CharAt
  <2>2. n = StoredLen(d) \/ n = FILENAME_LEN
    BY <1>3 DEF StoredLen
  <2> QED BY <1>1, <2>1, <2>2 DEF Matches
<1> QED BY <1>2, <1>3

\* The lookup: the entry with that very name, or 0 when there is none.
LEMMA LookupExact ==
    ASSUME NEW fname \in Seq(Nat \ {0})
    PROVE  LET i == read_dentry_by_name(fname) IN
           \/ i = 0 /\ \A j \in 1..Len(Dentries) : Dentries[j].name # fname
           \/ i \in 1..Len(Dentries) /\ Dentries[i].name = fname
<1> DEFINE i == read_dentry_by_name(fname)
           I == {j \in 1..Len(Dentries) : Matches(fname, Dentries[j])}
<1>0. Len(fname) \in Nat
    OBVIOUS
<1>1. CASE Len(fname) = 0 \/ Len(fname) > FILENAME_LEN
  <2>1. i = 0
    BY <1>1 DEF read_dentry_by_name
  <2>2. \A j \in 1..Len(Dentries) : Dentries[j].name # fname
    BY <1>0, <1>1, NameTypes
  <2> QED BY <2>1, <2>2
<1>2. CASE ~(Len(fname) = 0 \/ Len(fname) > FILENAME_LEN)
  <2>1. Len(fname) \in 1..FILENAME_LEN
    BY <1>0, <1>2, NameTypes
  <2>2. i = IF I # {} THEN Min(I) ELSE 0
    BY <1>2 DEF read_dentry_by_name, SelectInSeq
  <2>3. \A j \in 1..Len(Dentries) : Matches(fname, Dentries[j]) <=> Dentries[j].name = fname
    BY <2>1, NameTypes, MatchesExact
  <2> HIDE DEF i
  <2>4. CASE I = {}
    <3>1. \A j \in 1..Len(Dentries) : ~Matches(fname, Dentries[j])
      BY <2>4
    <3> HIDE DEF I
    <3>2. i = 0
      BY <2>2, <2>4
    <3> QED BY <2>3, <3>1, <3>2 DEF i
  <2>5. CASE I # {}
    <3>1. I \subseteq Nat
      OBVIOUS
    <3> HIDE DEF I
    <3>2. \E j \in I : \A k \in I : j <= k
      BY <2>5, <3>1, LeastNat
    <3>3. Min(I) \in I
      BY <3>2 DEF Min
    <3>4. i \in I
      BY <2>2, <2>5, <3>3
    <3>5. i \in 1..Len(Dentries) /\ Matches(fname, Dentries[i])
      BY <3>4 DEF I
    <3> QED BY <2>3, <3>5 DEF i
  <2> QED BY <2>4, <2>5 DEF i
<1> QED BY <1>1, <1>2

-----------------------------------------------------------------------------
(* Blocks *)

\* An inode whose blocks are on the disk and hold its length.
Sound(f) ==
    /\ f.length \in Nat /\ f.blocks \in Seq(Nat)
    /\ f.length <= Len(f.blocks) * BLOCK
    /\ \A b \in 1..Len(f.blocks) : f.blocks[b] \in Nat /\ f.blocks[b] + 1 \in 1..Len(Data)

\* The inodes, their blocks and the data blocks.
LEMMA ImageTypes ==
    /\ BLOCK \in Nat /\ BLOCK > 0
    /\ Len(Inodes) \in Nat /\ DOMAIN Inodes = 1..Len(Inodes)
    /\ Len(Data) \in Nat
    /\ \A b \in 1..Len(Data) : Data[b] \in Seq(STRING) /\ Len(Data[b]) = BLOCK
    /\ \A k \in 1..Len(Inodes) : Sound(Inodes[k])
<1> DEFINE D == [length : Nat, blocks : Seq(Nat)]
<1>1. Inodes \in Seq(D)
    BY FilesAssumption
<1> HIDE DEF D
<1>2. Len(Inodes) \in Nat /\ DOMAIN Inodes = 1..Len(Inodes)
    BY <1>1
<1>3. \A k \in 1..Len(Inodes) : Inodes[k] \in D
    BY <1>1
<1>4. Data \in Seq(Seq(STRING))
    BY FilesAssumption
<1>5. Len(Data) \in Nat /\ DOMAIN Data = 1..Len(Data) /\ \A b \in 1..Len(Data) : Data[b] \in Seq(STRING)
    BY <1>4
<1>6. \A b \in 1..Len(Data) : Len(Data[b]) = BLOCK
    BY <1>5, FilesAssumption
<1>7. ASSUME NEW k \in 1..Len(Inodes)
      PROVE  Sound(Inodes[k])
  <2> DEFINE f == Inodes[k]
             B == f.blocks
  <2>1. f.length \in Nat /\ B \in Seq(Nat)
    BY <1>3 DEF D
  <2>2. /\ f.length <= Len(B) * BLOCK
        /\ \A b \in DOMAIN B : B[b] < Len(Data)
    BY <1>2, FilesAssumption
  <2> HIDE DEF B
  <2>3. \A b \in 1..Len(B) : b \in DOMAIN B /\ B[b] \in Nat
    BY <2>1
  <2>4. \A b \in 1..Len(B) : B[b] + 1 \in 1..Len(Data)
    BY <1>5, <2>2, <2>3
  <2> QED BY <2>1, <2>2, <2>3, <2>4 DEF B, Sound
<1>8. BLOCK \in Nat /\ BLOCK > 0
    BY FilesAssumption
<1> QED BY <1>2, <1>5, <1>6, <1>7, <1>8

\* The length of a file is a number.
LEMMA FileLength ==
    ASSUME NEW k \in Nat, k < Len(Inodes)
    PROVE  Inodes[k + 1].length \in Nat /\ Len(Inodes) \in Nat
<1>1. Len(Inodes) \in Nat /\ k + 1 \in 1..Len(Inodes)
    BY ImageTypes
<1> QED BY <1>1, ImageTypes DEF Sound

\* Products of whole numbers.
LEMMA Products ==
    ASSUME NEW a \in Nat, NEW b \in Nat, NEW c \in Nat
    PROVE  /\ a * c \in Nat /\ (a + 1) * c = a * c + c
           /\ a <= b => a * c <= b * c
BY SMT

\* The block of a position and the offset in it.
LEMMA Quotients ==
    ASSUME NEW n \in Int, n >= 0, NEW b \in Int, b > 0
    PROVE  /\ n \div b \in Nat /\ n % b \in 0..(b - 1)
           /\ b * (n \div b) + (n % b) = n
<1>1. b * (n \div b) + (n % b) = n
    BY SMT
<1>2. n \div b \in Nat
    BY SMT
<1>3. n % b \in 0..(b - 1)
    BY SMT
<1> QED BY <1>1, <1>2, <1>3

\* Two sequences one after the other.
LEMMA Joined ==
    ASSUME NEW V, NEW s \in Seq(V), NEW u \in Seq(V)
    PROVE  /\ s \o u \in Seq(V) /\ Len(s \o u) = Len(s) + Len(u)
           /\ \A x \in 1..Len(s) : (s \o u)[x] = s[x]
           /\ \A r \in 1..Len(u) : (s \o u)[Len(s) + r] = u[r]
<1>1. s \o u \in Seq(V)
    OBVIOUS
<1>2. Len(s \o u) = Len(s) + Len(u)
    OBVIOUS
<1>3. ASSUME NEW x \in 1..Len(s) PROVE (s \o u)[x] = s[x]
    OBVIOUS
<1>4. ASSUME NEW r \in 1..Len(u) PROVE (s \o u)[Len(s) + r] = u[r]
  <2>1. Len(s) \in Nat /\ Len(u) \in Nat /\ r \in Nat /\ r > 0 /\ r <= Len(u)
    OBVIOUS
  <2>2. /\ Len(s) + r \in 1..(Len(s) + Len(u)) /\ Len(s) + r > Len(s)
        /\ (Len(s) + r) - Len(s) = r
    BY <2>1
  <2> QED BY <2>1, <2>2
<1> QED BY <1>1, <1>2, <1>3, <1>4

\* The first k of a sequence of blocks, one after the other.
Lay(g, blocks, k) == [i \in 1..k |-> IF i = 1 THEN blocks[i] ELSE g[i - 1] \o blocks[i]]
Laid(g, blocks, k) == g = Lay(g, blocks, k)

\* The recursive function of FlattenSeq over a file's blocks exists.
LEMMA LayExists ==
    ASSUME NEW blocks, NEW n \in Nat
    PROVE  \E g : g = Lay(g, blocks, n)
<1> DEFINE Bad == {k \in Nat : ~ \E g : g = Lay(g, blocks, k)}
<1> SUFFICES ASSUME Bad # {} PROVE FALSE
    OBVIOUS
<1>1. PICK k \in Bad : \A j \in Bad : k <= j
    BY LeastNat
<1>2. k # 0
  <2>1. \A g : Lay(g, blocks, 0) = [i \in {} |-> 0]
    BY DEF Lay
  <2>2. \E g : g = Lay(g, blocks, 0)
    BY <2>1
  <2> QED BY <2>2
<1>3. k - 1 \in Nat /\ k - 1 \notin Bad
    BY <1>1, <1>2
<1>4. PICK g : g = Lay(g, blocks, k - 1)
    BY <1>3
<1> DEFINE h == [i \in 1..k |-> IF i < k THEN g[i]
                                ELSE IF i = 1 THEN blocks[i] ELSE g[i - 1] \o blocks[i]]
<1>5. \A i \in 1..k : h[i] = IF i = 1 THEN blocks[i] ELSE h[i - 1] \o blocks[i]
  <2> SUFFICES ASSUME NEW i \in 1..k
               PROVE  h[i] = IF i = 1 THEN blocks[i] ELSE h[i - 1] \o blocks[i]
    OBVIOUS
  <2>1. i # 1 => i - 1 \in 1..k /\ i - 1 < k /\ h[i - 1] = g[i - 1]
    OBVIOUS
  <2>2. CASE i = k
    BY <2>1, <2>2
  <2>3. CASE i < k
    <3>1. i \in 1..(k - 1)
      BY <2>3
    <3>2. g[i] = IF i = 1 THEN blocks[i] ELSE g[i - 1] \o blocks[i]
      BY <1>4, <3>1 DEF Lay
    <3> QED BY <2>1, <2>3, <3>2
  <2> QED BY <2>2, <2>3
<1>6. h = Lay(h, blocks, k)
  <2> HIDE DEF h
  <2>1. h = [i \in 1..k |-> h[i]]
    BY DEF h
  <2> QED BY <1>5, <2>1 DEF Lay
<1> QED BY <1>1, <1>6

DataBlocks(blocks, n) ==
    \A i \in 1..n : blocks[i] \in Seq(STRING) /\ Len(blocks[i]) = BLOCK
Spread(g, blocks, n) ==
    \A i \in 1..n :
       /\ g[i] \in Seq(STRING) /\ Len(g[i]) = i * BLOCK
       /\ \A q \in 0..(i - 1), r \in 1..BLOCK : g[i][q * BLOCK + r] = blocks[q + 1][r]

\* What lies where when the blocks are data blocks.
LEMMA LaidOut ==
    ASSUME NEW n \in Nat, NEW blocks, NEW g, DataBlocks(blocks, n), Laid(g, blocks, n)
    PROVE  Spread(g, blocks, n)
<1> USE DEF DataBlocks, Spread
<1> DEFINE P(i) == /\ g[i] \in Seq(STRING) /\ Len(g[i]) = i * BLOCK
                   /\ \A q \in 0..(i - 1), r \in 1..BLOCK : g[i][q * BLOCK + r] = blocks[q + 1][r]
           Bad == {i \in 1..n : ~P(i)}
<1>a. BLOCK \in Nat /\ BLOCK > 0
    BY ImageTypes
<1> SUFFICES ASSUME Bad # {} PROVE FALSE
    OBVIOUS
<1>0. Bad \subseteq Nat
    OBVIOUS
<1>1. PICK i \in Bad : \A j \in Bad : i <= j
    BY <1>0, LeastNat
<1>2. i \in 1..n /\ i \in Nat /\ i >= 1 /\ ~P(i)
    BY <1>1
<1>3. g[i] = IF i = 1 THEN blocks[i] ELSE g[i - 1] \o blocks[i]
    BY <1>2 DEF Laid, Lay
<1>4. blocks[i] \in Seq(STRING) /\ Len(blocks[i]) = BLOCK
    BY <1>2
<1>5. CASE i = 1
  <2>1. g[1] = blocks[1] /\ blocks[1] \in Seq(STRING) /\ Len(blocks[1]) = BLOCK
    BY <1>3, <1>4, <1>5
  <2>2. \A q \in 0..0, r \in 1..BLOCK : q * BLOCK + r = r /\ q + 1 = 1
    BY <1>a
  <2>3. 1 * BLOCK = BLOCK /\ 1 - 1 = 0
    BY <1>a
  <2>4. \A q \in 0..0, r \in 1..BLOCK : g[1][q * BLOCK + r] = blocks[q + 1][r]
    BY <2>1, <2>2
  <2>5. P(1)
    BY <2>1, <2>3, <2>4
  <2> QED BY <1>2, <1>5, <2>5
<1>6. CASE i # 1
  <2> DEFINE k == i - 1
  <2>1. k \in Nat /\ k \in 1..n /\ k \notin Bad /\ i = k + 1
    BY SMTT(30), <1>1, <1>2, <1>6
  <2>2. P(k)
    BY <2>1
  <2> HIDE DEF k
  <2>3. g[i] = g[k] \o blocks[i] /\ g[k] \in Seq(STRING) /\ Len(g[k]) = k * BLOCK
    BY <1>3, <1>6, <2>2 DEF k
  <2>4. /\ k * BLOCK \in Nat /\ i * BLOCK = k * BLOCK + BLOCK
    BY <2>1, Products, <1>a
  <2>5. /\ g[i] \in Seq(STRING) /\ Len(g[i]) = Len(g[k]) + BLOCK
        /\ \A x \in 1..Len(g[k]) : g[i][x] = g[k][x]
        /\ \A r \in 1..BLOCK : g[i][Len(g[k]) + r] = blocks[i][r]
    <3> DEFINE s == g[k]
               u == blocks[i]
    <3>0. Len(u) = BLOCK /\ g[i] = s \o u
      BY <1>4, <2>3
    <3>1. s \in Seq(STRING) /\ u \in Seq(STRING)
      BY <1>4, <2>3
    <3> HIDE DEF s, u
    <3>2. s \o u \in Seq(STRING) /\ Len(s \o u) = Len(s) + Len(u)
      BY <3>1, Joined
    <3>3. \A x \in 1..Len(s) : (s \o u)[x] = s[x]
      BY <3>1, Joined
    <3>4. \A r \in 1..Len(u) : (s \o u)[Len(s) + r] = u[r]
      BY <3>1, Joined
    <3> QED BY <3>0, <3>2, <3>3, <3>4 DEF s, u
  <2>6. ASSUME NEW q \in 0..(i - 1), NEW r \in 1..BLOCK
        PROVE  g[i][q * BLOCK + r] = blocks[q + 1][r]
    <3>1. CASE q = k
      <4>1. q * BLOCK + r = Len(g[k]) + r /\ q + 1 = i
        BY <2>1, <2>3, <3>1
      <4> QED BY <2>5, <4>1
    <3>2. CASE q # k
      <4>1. q \in Nat /\ q \in 0..(k - 1) /\ q + 1 <= k
        BY <1>2, <2>1, <3>2
      <4>2. (q + 1) * BLOCK <= k * BLOCK /\ (q + 1) * BLOCK = q * BLOCK + BLOCK /\ q * BLOCK \in Nat
        BY <2>1, <4>1, Products, <1>a
      <4>3. q * BLOCK + r \in 1..Len(g[k])
        <5> DEFINE x == q * BLOCK
                   y == k * BLOCK
        <5>1. x \in Nat /\ y \in Nat /\ x + BLOCK <= y /\ r \in Nat /\ 1 <= r /\ r <= BLOCK /\ BLOCK \in Nat
          BY <1>a, <2>4, <4>2
        <5> HIDE DEF x, y
        <5>2. x + r \in 1..y
          BY <1>a, <5>1
        <5> QED BY <2>3, <5>2 DEF x, y
      <4>4. g[k][q * BLOCK + r] = blocks[q + 1][r]
        BY <2>2, <4>1
      <4> QED BY <2>5, <4>3, <4>4
    <3> QED BY <3>1, <3>2
  <2>7. Len(g[i]) = i * BLOCK
    BY <2>3, <2>4, <2>5
  <2>8. P(i)
    BY <2>5, <2>6, <2>7
  <2> QED BY <1>2, <2>8
<1> QED BY <1>5, <1>6

\* FlattenSeq lays its sequences one after the other.
LEMMA Flattens ==
    ASSUME NEW seqs, Len(seqs) \in Nat, Len(seqs) # 0
    PROVE  \E g : Laid(g, seqs, Len(seqs)) /\ FlattenSeq(seqs) = g[Len(seqs)]
<1> DEFINE f == CHOOSE g : g = Lay(g, seqs, Len(seqs))
<1>1. f = Lay(f, seqs, Len(seqs))
    BY LayExists
<1>2. FlattenSeq(seqs) = f[Len(seqs)]
    BY Zenon DEF FlattenSeq, Lay
<1> HIDE DEF f
<1>3. Laid(f, seqs, Len(seqs))
    BY <1>1 DEF Laid
<1> QED BY <1>2, <1>3

\* A file is as long as its inode says, and its byte x lies at x % BLOCK of the
\* block x \div BLOCK of the inode, which is what read_data computes.
Byte(k, x) == Data[Inodes[k + 1].blocks[(x \div BLOCK) + 1] + 1][(x % BLOCK) + 1]

\* The byte of a file at a position is in the block and at the offset read_data
\* computes (filesystem.c 215-231).
LEMMA ContentAt ==
    ASSUME NEW k \in Nat, k < Len(Inodes)
    PROVE  LET len == Inodes[k + 1].length IN
           /\ Content(k) \in Seq(STRING) /\ Len(Content(k)) = len
           /\ \A x \in 0..(len - 1) : Content(k)[x + 1] = Byte(k, x)
<1> DEFINE f == Inodes[k + 1]
           B == f.blocks
           len == f.length
           n == Len(B)
           seqs == [b \in DOMAIN B |-> Data[B[b] + 1]]
           flat == FlattenSeq(seqs)
<1>1. /\ len \in Nat /\ B \in Seq(Nat) /\ len <= n * BLOCK
      /\ \A b \in 1..n : B[b] \in Nat /\ B[b] + 1 \in 1..Len(Data)
  <2>1. k + 1 \in 1..Len(Inodes)
    BY ImageTypes
  <2>2. Sound(f)
    BY <2>1, ImageTypes
  <2> HIDE DEF f
  <2> QED BY <2>2 DEF Sound
<1>2. Content(k) = SubSeq(flat, 1, len)
    BY DEF Content
<1> HIDE DEF B, len
<1>3. n \in Nat /\ DOMAIN B = 1..n
    BY <1>1
<1>4. seqs = [b \in 1..n |-> Data[B[b] + 1]] /\ Len(seqs) = n
    BY <1>3
<1>5. CASE n = 0
  <2>1. len = 0
    BY <1>1, <1>5, ImageTypes
  <2>2. Content(k) = <<>>
    BY <1>2, <2>1
  <2>3. \A x \in 0..(len - 1) : Content(k)[x + 1] = Byte(k, x)
    BY <2>1
  <2>4. Content(k) \in Seq(STRING) /\ Len(Content(k)) = len
    BY <2>1, <2>2
  <2> QED BY <2>3, <2>4 DEF len
<1>6. CASE n # 0
  <2>1. PICK g : Laid(g, seqs, n) /\ flat = g[n]
    BY <1>3, <1>4, <1>6, Flattens
  <2>2. \A i \in 1..n : seqs[i] = Data[B[i] + 1] /\ seqs[i] \in Seq(STRING) /\ Len(seqs[i]) = BLOCK
    BY <1>1, <1>4, ImageTypes
  <2> HIDE DEF seqs, n, flat
  <2>3. n \in 1..n /\ BLOCK \in Nat \ {0}
    BY <1>3, <1>6, ImageTypes
  <2>4. /\ flat \in Seq(STRING) /\ Len(flat) = n * BLOCK
        /\ \A q \in 0..(n - 1), r \in 1..BLOCK : flat[q * BLOCK + r] = seqs[q + 1][r]
    <3>1. DataBlocks(seqs, n) /\ Laid(g, seqs, n) /\ n \in Nat
      BY <1>3, <2>1, <2>2 DEF DataBlocks
    <3>2. Spread(g, seqs, n)
      BY <3>1, LaidOut
    <3> QED BY <2>1, <2>3, <3>2 DEF Spread
  <2>5. /\ Content(k) = [i \in 1..len |-> flat[i]]
    BY <1>1, <1>2, <2>4
  <2>6. ASSUME NEW x \in 0..(len - 1) PROVE Content(k)[x + 1] = Byte(k, x)
    <3> DEFINE q == x \div BLOCK
               r == (x % BLOCK) + 1
    <3>1. q \in Nat /\ r \in 1..BLOCK /\ BLOCK * q + r = x + 1 /\ x \in Nat /\ x < len
      <4>1. x \in Int /\ x >= 0 /\ x \in Nat /\ x < len /\ BLOCK \in Int /\ BLOCK > 0
        BY <1>1, ImageTypes
      <4>2. /\ x \div BLOCK \in Nat /\ x % BLOCK \in 0..(BLOCK - 1)
            /\ BLOCK * (x \div BLOCK) + (x % BLOCK) = x
        BY <4>1, Quotients
      <4>3. BLOCK * q \in Int
        BY <4>1, <4>2
      <4> DEFINE m == x % BLOCK
                 y == BLOCK * q
      <4>4. m \in Int /\ y \in Int /\ y + m = x /\ r = m + 1 /\ m \in 0..(BLOCK - 1)
        BY <4>1, <4>2, <4>3
      <4> HIDE DEF r, m, y
      <4>5. y + r = x + 1 /\ r \in 1..BLOCK
        BY <4>1, <4>4
      <4> QED BY <4>1, <4>2, <4>5 DEF y
    <3> HIDE DEF q, r
    <3>2. q * BLOCK + r = x + 1
      BY <3>1, ImageTypes
    <3>3. q < n
      <4>1. n <= q => n * BLOCK <= q * BLOCK
        BY <1>3, <3>1, Products, ImageTypes
      <4>2. q * BLOCK \in Nat /\ n * BLOCK \in Nat
        BY <1>3, <3>1, Products, ImageTypes
      <4> DEFINE a == q * BLOCK
                 c == n * BLOCK
      <4>3. a \in Nat /\ c \in Nat /\ a + r = x + 1 /\ len <= c /\ r \in Nat /\ r > 0
        BY <1>1, <3>1, <3>2, <4>2
      <4>4. n <= q => c <= a
        BY <4>1
      <4> HIDE DEF a, c
      <4> QED BY <1>1, <1>3, <3>1, <4>3, <4>4
    <3>4. q \in 0..(n - 1) /\ q + 1 \in 1..n
      BY <1>3, <3>1, <3>3
    <3>5. flat[x + 1] = seqs[q + 1][r]
      BY <2>4, <3>1, <3>2, <3>4
    <3>6. Content(k)[x + 1] = flat[x + 1]
      BY <1>1, <2>5, <3>1
    <3>7. seqs[q + 1][r] = Data[B[q + 1] + 1][r]
      BY <2>2, <3>4
    <3> QED BY <3>5, <3>6, <3>7 DEF Byte, q, r, B
  <2>7. Content(k) \in Seq(STRING) /\ Len(Content(k)) = len
    <3>1. len \in Nat /\ len <= Len(flat)
      BY <1>1, <2>4
    <3>2. \A i \in 1..len : flat[i] \in STRING
      BY <2>4, <3>1
    <3> QED BY <2>5, <3>1, <3>2
  <2> QED BY <2>6, <2>7 DEF len
<1> QED BY <1>3, <1>5, <1>6

\* What file_read appends to what it has returned before.
LEMMA ReadOn ==
    ASSUME NEW k \in Nat, k < Len(Inodes), NEW pos \in Nat, NEW n \in Int, n >= 0,
           pos <= Inodes[k + 1].length
    PROVE  LET r == read_data(k, pos, n) IN
           /\ r.ret \in Nat /\ pos + r.ret <= Inodes[k + 1].length
           /\ SubSeq(Content(k), 1, pos) \o r.bytes = SubSeq(Content(k), 1, pos + r.ret)
<1> DEFINE r == read_data(k, pos, n)
           len == Inodes[k + 1].length
           text == Content(k)
           m == IF pos >= len THEN 0 ELSE IF len - pos < n THEN len - pos ELSE n
<1>1. len \in Nat /\ Len(Inodes) \in Nat /\ pos <= len
    BY FileLength
<1>2. r = [ret |-> m, bytes |-> [i \in 1..m |-> Byte(k, pos + (i - 1))]]
    BY <1>1 DEF read_data, Byte
<1>3. r.ret = m /\ r.bytes = [i \in 1..m |-> Byte(k, pos + (i - 1))]
    BY <1>2
<1> HIDE DEF r
<1>4. m \in Nat /\ pos + m <= len
    BY <1>1
<1>5. /\ text \in Seq(STRING) /\ Len(text) = len
      /\ \A x \in 0..(len - 1) : text[x + 1] = Byte(k, x)
    BY ContentAt
<1> HIDE DEF m, text, len
<1>6. r.bytes = [i \in 1..m |-> text[pos + i]]
  <2>1. \A i \in 1..m : Byte(k, pos + (i - 1)) = text[pos + i]
    <3> SUFFICES ASSUME NEW i \in 1..m PROVE Byte(k, pos + (i - 1)) = text[pos + i]
      OBVIOUS
    <3>1. pos + (i - 1) \in 0..(len - 1) /\ (pos + (i - 1)) + 1 = pos + i
      BY <1>1, <1>4
    <3> QED BY <1>5, <3>1
  <2> QED BY <1>3, <2>1
<1>7. SubSeq(text, 1, pos) = [i \in 1..pos |-> text[i]] /\ SubSeq(text, 1, pos + m) = [i \in 1..(pos + m) |-> text[i]]
    BY <1>1, <1>4, <1>5
<1>8. [i \in 1..pos |-> text[i]] \o [i \in 1..m |-> text[pos + i]] = [i \in 1..(pos + m) |-> text[i]]
    BY <1>4
<1> QED BY <1>3, <1>4, <1>6, <1>7, <1>8 DEF r, text, len

-----------------------------------------------------------------------------
(* The invariant *)

\* One value for every descriptor of every process.
Table(t) == t = [p \in Procs |-> [fd \in FDs |-> t[p][fd]]]

\* What a descriptor f and the bytes g read through it have to do with each
\* other.  The inode of a file stays valid after close, which clears flags only.
FdRecords == [fops : {"null", "rtc", "dir", "file", "term"}, inode : Nat,
              file_pos : Nat, flags : 0..1]
Cell(f, g) ==
    /\ f \in FdRecords
    /\ f.flags = 1 => f.fops # "null"
    /\ f.fops = "file" => f.inode < Len(Inodes) /\ f.file_pos <= Inodes[f.inode + 1].length
    /\ f.flags = 1 /\ f.fops = "file" => g = SubSeq(Content(f.inode), 1, f.file_pos)
Cells == \A p \in Procs, fd \in FDs : Cell(fd_array[p][fd], got[p][fd])

Types ==
    /\ Table(fd_array) /\ Table(got)
    /\ dir_index \in 0..IndexMax
    /\ pc \in [Procs -> {"idle", "fetch", "load", "store"}]
    /\ loc \in [Procs -> [fd : Int, n : Int, index : Int, len : Int]]

\* A call in progress is of a directory's descriptor, which only the process
\* itself could close, and what it loaded can be stored.
Calls ==
    \A p \in Procs :
        /\ pc[p] # "idle" => loc[p].fd \in FDs /\ fd_array[p][loc[p].fd].fops = "dir"
        /\ pc[p] = "store" => loc[p].index \in 0..dir_count

\* The descriptor that opened the directory last, between the steps of its own
\* reads: the entry is copied before dir_index moves past it.
Reading(p, fd) == pc[p] \in {"load", "store"} /\ loc[p].fd = fd
InStep(p, fd) ==
    /\ ~Reading(p, fd) => got[p][fd] = [i \in 1..dir_index |-> i]
    /\ Reading(p, fd) => got[p][fd] = [i \in 1..(dir_index + 1) |-> i]
    /\ pc[p] = "store" /\ loc[p].fd = fd => loc[p].index = dir_index
Lists(p, fd) == /\ ~mixed /\ owner = <<p, fd>>
                /\ fd_array[p][fd].flags = 1 /\ fd_array[p][fd].fops = "dir"
AllInStep == \A p \in Procs, fd \in FDs : Lists(p, fd) => InStep(p, fd)

FInv == Types /\ Cells /\ Calls /\ AllInStep /\ OpenExact

-----------------------------------------------------------------------------
(* Its proof *)

\* The sizes of the descriptor table and of the directory.
LEMMA Sizing ==
    /\ FD_N \in Nat /\ FD_N > 2 /\ FDs = 0..(FD_N - 1)
    /\ dir_count \in Nat /\ IndexMax = dir_count + 1
    /\ dir_count = Len(Dentries)
BY FilesAssumption, NameTypes DEF FDs, dir_count, IndexMax

\* One entry of a table is replaced.
Put(t, p, fd, v) == [t EXCEPT ![p][fd] = v]
IsPut(u, t, p, fd, v) ==
    \A q \in Procs, g \in FDs : u[q][g] = IF q = p /\ g = fd THEN v ELSE t[q][g]

\* A descriptor table with one entry replaced.
LEMMA Replaced ==
    ASSUME NEW t, Table(t), NEW p \in Procs, NEW fd \in FDs, NEW v
    PROVE  Table(Put(t, p, fd, v)) /\ IsPut(Put(t, p, fd, v), t, p, fd, v)
BY DEF Table, Put, IsPut

\* The invariant holds when the machine starts.
LEMMA FilesInit == Init => FInv
<1> SUFFICES ASSUME Init PROVE FInv
    OBVIOUS
<1> USE DEF Init
<1>1. Types
    BY Sizing DEF Types, Table, NoLocals
<1>2. Cells
  <2>1. Cell(Term, <<>>) /\ Cell(Free, <<>>)
    BY DEF Cell, FdRecords, Term, Free
  <2> QED BY <2>1 DEF Cells
<1>3. Calls
    BY DEF Calls
<1>4. AllInStep
  <2>1. \A p \in Procs, fd \in FDs : fd_array[p][fd].fops # "dir"
    BY DEF Term, Free
  <2> QED BY <2>1 DEF AllInStep, Lists
<1>5. OpenExact
    BY DEF OpenExact, NoCall
<1> QED BY <1>1, <1>2, <1>3, <1>4, <1>5 DEF FInv

\* A call that changes nothing but the history of the calls.
LEMMA Quiet ==
    ASSUME FInv, UNCHANGED <<fd_array, dir_index, pc, loc, got, owner, mixed>>
    PROVE  Types' /\ Cells' /\ Calls' /\ AllInStep'
<1> USE DEF FInv
<1>1. Types'
    BY DEF Types, Table
<1>2. Cells'
    BY DEF Cells
<1>3. Calls'
    BY DEF Calls
<1>4. AllInStep'
    BY DEF AllInStep, Lists, InStep, Reading
<1> QED BY <1>1, <1>2, <1>3, <1>4

\* A call other than open leaves nothing to say about open.
LEMMA NotOpen ==
    ASSUME NEW call, call # "open", NEW p, NEW fd, NEW ret, Returns(call, p, fd, ret)
    PROVE  OpenExact'
BY DEF Returns, NoCall, OpenExact

\* An open that fails keeps the invariant.
LEMMA OpenFailing ==
    ASSUME FInv, NEW p \in Procs, NEW name \in Seq(Nat \ {0}), OpenFails(p, name)
    PROVE  FInv'
<1>1. Types' /\ Cells' /\ Calls' /\ AllInStep'
    BY Quiet DEF OpenFails
<1>2. name \in Seq(Nat \ {0})
    BY FilesAssumption
<1>3. /\ last'.call = "open" /\ last'.ret = Fail
      /\ last'.name = name /\ last'.room = (Slots(p) # {})
    BY DEF OpenFails, ReturnsOpen, NoCall
<1>4. Slots(p) # {} => \A i \in 1..Len(Dentries) : Dentries[i].name # name
  <2>1. Slots(p) # {} => read_dentry_by_name(name) = 0
    BY DEF OpenFails
  <2> QED BY <1>2, <2>1, LookupExact
<1>5. OpenExact'
    BY <1>3, <1>4, NameTypes DEF OpenExact
<1> QED BY <1>1, <1>5 DEF FInv

\* So does one that succeeds (syscall.c 310-335).
LEMMA Opening ==
    ASSUME FInv, NEW p \in Procs, NEW name \in Seq(Nat \ {0}), Open(p, name)
    PROVE  FInv'
<1> DEFINE i == read_dentry_by_name(name)
           fd == FirstSlot(p)
           d == Dentries[i]
           f == Descriptor(d, fd_array[p][fd])
<1>0. Table(fd_array) /\ Table(got)
    BY DEF FInv, Types
<1>1. i \in 1..Len(Dentries) /\ d.name = name
  <2>1. name \in Seq(Nat \ {0}) /\ i # 0
    BY FilesAssumption DEF Open
  <2> QED BY <2>1, LookupExact
<1>2. /\ d.type \in {"rtc", "dir", "file"} /\ d.inode \in Nat
      /\ d.type = "file" => d.inode < Len(Inodes)
    BY <1>1, NameTypes
<1>3. fd \in FDs
  <2>1. Slots(p) \subseteq Nat /\ Slots(p) # {} /\ Slots(p) \subseteq FDs
    BY Sizing DEF Slots, Open
  <2>2. \E k \in Slots(p) : \A g \in Slots(p) : k <= g
    BY <2>1, LeastNat
  <2>3. fd \in Slots(p)
    BY <2>2 DEF FirstSlot
  <2> QED BY <2>1, <2>3
<1>4. /\ pc[p] = "idle"
      /\ fd_array' = [fd_array EXCEPT ![p][fd] = f]
      /\ got' = [got EXCEPT ![p][fd] = <<>>]
      /\ d.type = "dir" => dir_index' = 0 /\ owner' = <<p, fd>> /\ mixed' = FALSE
      /\ d.type # "dir" => UNCHANGED <<dir_index, owner, mixed>>
      /\ pc' = pc /\ loc' = loc
      /\ ReturnsOpen(p, name, fd)
    BY DEF Open, dir_open
<1>5. /\ f \in FdRecords
      /\ f.fops = d.type /\ f.flags = 1 /\ f.file_pos = 0
      /\ f.inode = IF d.type = "file" THEN d.inode ELSE 0
    BY <1>2 DEF Descriptor, FdRecords
<1> HIDE DEF i, fd, d, f
<1>6. /\ Table(fd_array')
      /\ \A q \in Procs, g \in FDs : fd_array'[q][g] = IF q = p /\ g = fd THEN f ELSE fd_array[q][g]
  <2>1. fd_array' = Put(fd_array, p, fd, f)
    BY <1>4 DEF Put
  <2>2. Table(fd_array') /\ IsPut(fd_array', fd_array, p, fd, f)
    BY <1>0, <1>3, <2>1, Replaced
  <2> QED BY <2>2 DEF IsPut
<1>7. /\ Table(got')
      /\ \A q \in Procs, g \in FDs : got'[q][g] = IF q = p /\ g = fd THEN <<>> ELSE got[q][g]
  <2>1. got' = Put(got, p, fd, <<>>)
    BY <1>4 DEF Put
  <2>2. Table(got') /\ IsPut(got', got, p, fd, <<>>)
    BY <1>0, <1>3, <2>1, Replaced
  <2> QED BY <2>2 DEF IsPut
<1>8. Types'
  <2>1. dir_index' \in 0..IndexMax
    BY <1>4, Sizing DEF FInv, Types
  <2> QED BY <1>4, <1>6, <1>7, <2>1 DEF FInv, Types
<1>9. Cells'
  <2>1. Cell(f, <<>>)
    <3>1. f.fops = "file" => f.inode < Len(Inodes) /\ 0 <= Inodes[f.inode + 1].length
      BY <1>2, <1>5, FileLength
    <3>2. f.fops = "file" => SubSeq(Content(f.inode), 1, 0) = <<>>
      BY <1>2, <1>5, ContentAt
    <3> QED BY <1>2, <1>5, <3>1, <3>2 DEF Cell
  <2> QED BY <1>6, <1>7, <2>1 DEF FInv, Cells
<1>10. Calls'
    BY <1>4, <1>6 DEF FInv, Calls
<1>11. AllInStep'
  <2> SUFFICES ASSUME NEW q \in Procs, NEW g \in FDs, Lists(q, g)' PROVE InStep(q, g)'
    BY DEF AllInStep
  <2>1. CASE q = p /\ g = fd
    <3>1. d.type = "dir"
      BY <1>5, <1>6, <2>1 DEF Lists
    <3>2. got'[q][g] = <<>> /\ dir_index' = 0 /\ pc'[q] = "idle"
      BY <1>4, <1>7, <2>1, <3>1
    <3> QED BY <3>2 DEF InStep, Reading
  <2>2. CASE ~(q = p /\ g = fd)
    <3>1. owner' = <<q, g>>
      BY DEF Lists
    <3>2. d.type # "dir"
      BY <1>4, <2>2, <3>1
    <3>3. Lists(q, g)
      BY <1>4, <1>6, <2>2, <3>2 DEF Lists
    <3> QED BY <1>4, <1>7, <2>2, <3>2, <3>3 DEF FInv, AllInStep, InStep, Reading
  <2> QED BY <2>1, <2>2
<1>12. OpenExact'
  <2>1. /\ last'.proc = p /\ last'.ret = fd /\ last'.name = name
    BY <1>4 DEF ReturnsOpen, NoCall
  <2>2. fd_array'[p][fd] = f /\ i \in DOMAIN Dentries /\ d = Dentries[i]
    BY <1>1, <1>3, <1>6, NameTypes DEF d
  <2> QED BY <1>1, <1>5, <2>1, <2>2 DEF OpenExact
<1> QED BY <1>8, <1>9, <1>10, <1>11, <1>12 DEF FInv

\* So does file_read.
LEMMA FileReading ==
    ASSUME FInv, NEW p \in Procs, NEW fd, NEW n \in Int, file_read(p, fd, n)
    PROVE  FInv'
<1> DEFINE f == fd_array[p][fd]
           r == read_data(f.inode, f.file_pos, n)
           h == [f EXCEPT !.file_pos = f.file_pos + r.ret]
           b == got[p][fd] \o r.bytes
<1>0. Table(fd_array) /\ Table(got)
    BY DEF FInv, Types
<1>1. /\ fd \in FDs /\ n \in Int /\ n >= 0 /\ f.flags = 1 /\ f.fops = "file"
    BY FilesAssumption DEF file_read, Readable
<1>2. /\ fd_array' = [fd_array EXCEPT ![p][fd] = h]
      /\ got' = [got EXCEPT ![p][fd] = b]
      /\ UNCHANGED <<dir_index, pc, loc, owner, mixed>>
      /\ Returns("read", p, fd, r.ret)
    BY DEF file_read
<1>3. /\ f \in FdRecords /\ f.inode \in Nat /\ f.inode < Len(Inodes) /\ f.file_pos \in Nat
      /\ f.file_pos <= Inodes[f.inode + 1].length
      /\ got[p][fd] = SubSeq(Content(f.inode), 1, f.file_pos)
    BY <1>1 DEF FInv, Cells, Cell, FdRecords
<1>4. /\ r.ret \in Nat /\ f.file_pos + r.ret <= Inodes[f.inode + 1].length
      /\ b = SubSeq(Content(f.inode), 1, f.file_pos + r.ret)
  <2> HIDE DEF f
  <2>1. /\ r.ret \in Nat /\ f.file_pos + r.ret <= Inodes[f.inode + 1].length
        /\ SubSeq(Content(f.inode), 1, f.file_pos) \o r.bytes
             = SubSeq(Content(f.inode), 1, f.file_pos + r.ret)
    BY <1>1, <1>3, ReadOn
  <2> QED BY <1>3, <2>1
<1> HIDE DEF r, b, f
<1>5. /\ h \in FdRecords /\ h.flags = 1 /\ h.fops = "file" /\ h.inode = f.inode
      /\ h.file_pos = f.file_pos + r.ret
  <2>1. f.file_pos + r.ret \in Nat
    BY <1>3, <1>4
  <2> QED BY <1>1, <1>3, <2>1 DEF FdRecords
<1> HIDE DEF h
<1>6. Cell(h, b)
    BY <1>3, <1>4, <1>5 DEF Cell
<1>7. /\ Table(fd_array')
      /\ \A q \in Procs, g \in FDs : fd_array'[q][g] = IF q = p /\ g = fd THEN h ELSE fd_array[q][g]
  <2>1. fd_array' = Put(fd_array, p, fd, h)
    BY <1>2 DEF Put
  <2>2. Table(fd_array') /\ IsPut(fd_array', fd_array, p, fd, h)
    BY <1>0, <1>1, <2>1, Replaced
  <2> QED BY <2>2 DEF IsPut
<1>8. /\ Table(got')
      /\ \A q \in Procs, g \in FDs : got'[q][g] = IF q = p /\ g = fd THEN b ELSE got[q][g]
  <2>1. got' = Put(got, p, fd, b)
    BY <1>2 DEF Put
  <2>2. Table(got') /\ IsPut(got', got, p, fd, b)
    BY <1>0, <1>1, <2>1, Replaced
  <2> QED BY <2>2 DEF IsPut
<1>9. Types'
    BY <1>2, <1>7, <1>8 DEF FInv, Types
<1>10. Cells'
    BY <1>6, <1>7, <1>8 DEF FInv, Cells
<1>11. Calls'
  <2> SUFFICES ASSUME NEW q \in Procs
               PROVE  /\ pc[q] # "idle" => loc[q].fd \in FDs
                                           /\ fd_array'[q][loc[q].fd].fops = "dir"
                      /\ pc[q] = "store" => loc[q].index \in 0..dir_count
    BY <1>2 DEF Calls
  <2>1. pc[p] = "idle"
    BY DEF file_read
  <2>2. /\ pc[q] # "idle" => loc[q].fd \in FDs /\ fd_array[q][loc[q].fd].fops = "dir"
        /\ pc[q] = "store" => loc[q].index \in 0..dir_count
    BY DEF FInv, Calls
  <2> QED BY <1>7, <2>1, <2>2
<1>12. AllInStep'
    BY <1>2, <1>5, <1>7, <1>8 DEF FInv, AllInStep, Lists, InStep, Reading
<1>13. OpenExact'
    BY <1>2, NotOpen
<1> QED BY <1>9, <1>10, <1>11, <1>12, <1>13 DEF FInv

\* So does close (syscall.c 338-355).
LEMMA Closing ==
    ASSUME FInv, NEW p \in Procs, NEW fd, close(p, fd)
    PROVE  FInv'
<1> DEFINE f == fd_array[p][fd]
           h == [f EXCEPT !.flags = 0]
<1>0. Table(fd_array) /\ Table(got)
    BY DEF FInv, Types
<1>1. fd \in FDs
    BY Sizing DEF close, Closable
<1>2. /\ fd_array' = [fd_array EXCEPT ![p][fd] = h]
      /\ got' = [got EXCEPT ![p][fd] = <<>>]
      /\ UNCHANGED <<dir_index, pc, loc, owner, mixed>>
      /\ Returns("close", p, fd, 0)
    BY DEF close
<1>3. Cell(f, got[p][fd])
    BY <1>1 DEF FInv, Cells
<1> HIDE DEF f
<1>4. Cell(h, <<>>) /\ h.flags = 0
    BY <1>3 DEF Cell, FdRecords
<1> HIDE DEF h
<1>7. /\ Table(fd_array')
      /\ \A q \in Procs, g \in FDs : fd_array'[q][g] = IF q = p /\ g = fd THEN h ELSE fd_array[q][g]
  <2>1. fd_array' = Put(fd_array, p, fd, h)
    BY <1>2 DEF Put
  <2>2. Table(fd_array') /\ IsPut(fd_array', fd_array, p, fd, h)
    BY <1>0, <1>1, <2>1, Replaced
  <2> QED BY <2>2 DEF IsPut
<1>8. /\ Table(got')
      /\ \A q \in Procs, g \in FDs : got'[q][g] = IF q = p /\ g = fd THEN <<>> ELSE got[q][g]
  <2>1. got' = Put(got, p, fd, <<>>)
    BY <1>2 DEF Put
  <2>2. Table(got') /\ IsPut(got', got, p, fd, <<>>)
    BY <1>0, <1>1, <2>1, Replaced
  <2> QED BY <2>2 DEF IsPut
<1>9. Types'
    BY <1>2, <1>7, <1>8 DEF FInv, Types
<1>10. Cells'
    BY <1>4, <1>7, <1>8 DEF FInv, Cells
<1>11. Calls'
    BY <1>2, <1>7 DEF FInv, Calls, close
<1>12. AllInStep'
    BY <1>2, <1>4, <1>7, <1>8 DEF FInv, AllInStep, Lists, InStep, Reading
<1>13. OpenExact'
    BY <1>2, NotOpen
<1> QED BY <1>9, <1>10, <1>11, <1>12, <1>13 DEF FInv

\* So does the end of a program and the start of another in its slot.
LEMMA Restarting ==
    ASSUME FInv, NEW p \in Procs, Restart(p)
    PROVE  FInv'
<1> DEFINE New(fd) == IF fd <= FD_STDOUT THEN Term ELSE [fd_array[p][fd] EXCEPT !.flags = 0]
<1>0. Table(fd_array) /\ Table(got)
    BY DEF FInv, Types
<1>1. \A fd \in FDs : Cell(New(fd), <<>>) /\ (New(fd).flags = 1 => New(fd).fops = "term")
  <2> SUFFICES ASSUME NEW fd \in FDs
               PROVE  Cell(New(fd), <<>>) /\ (New(fd).flags = 1 => New(fd).fops = "term")
    OBVIOUS
  <2> DEFINE f == fd_array[p][fd]
  <2>1. Cell(f, got[p][fd])
    BY DEF FInv, Cells
  <2> HIDE DEF f
  <2>2. Cell([f EXCEPT !.flags = 0], <<>>) /\ [f EXCEPT !.flags = 0].flags = 0
    BY <2>1 DEF Cell, FdRecords
  <2>3. Cell(Term, <<>>) /\ Term.fops = "term"
    BY DEF Cell, FdRecords, Term
  <2> QED BY <2>2, <2>3 DEF f
<1> HIDE DEF New
<1>2. /\ fd_array' = [fd_array EXCEPT ![p] = [fd \in FDs |-> New(fd)]]
      /\ got' = [got EXCEPT ![p] = [fd \in FDs |-> <<>>]]
      /\ UNCHANGED <<dir_index, pc, loc, owner, mixed>>
      /\ last' = NoCall
    BY DEF Restart, New
<1>3. /\ Table(fd_array')
      /\ \A q \in Procs, g \in FDs : fd_array'[q][g] = IF q = p THEN New(g) ELSE fd_array[q][g]
    BY <1>0, <1>2 DEF Table
<1>4. /\ Table(got')
      /\ \A q \in Procs, g \in FDs : got'[q][g] = IF q = p THEN <<>> ELSE got[q][g]
    BY <1>0, <1>2 DEF Table
<1>9. Types'
    BY <1>2, <1>3, <1>4 DEF FInv, Types
<1>10. Cells'
    BY <1>1, <1>3, <1>4 DEF FInv, Cells
<1>11. Calls'
    BY <1>2, <1>3 DEF FInv, Calls, Restart
<1>12. AllInStep'
    BY <1>1, <1>2, <1>3, <1>4 DEF FInv, AllInStep, Lists, InStep, Reading
<1>13. OpenExact'
    BY <1>2 DEF OpenExact, NoCall
<1> QED BY <1>9, <1>10, <1>11, <1>12, <1>13 DEF FInv

\* The steps of dir_read.
LEMMA DirTesting ==
    ASSUME FInv, NEW p \in Procs, NEW fd, NEW n \in Int, DirTest(p, fd, n)
    PROVE  FInv'
<1>1. CASE dir_index >= dir_count /\ Returns("dir_end", p, fd, 0) /\ UNCHANGED <<pc, loc>>
  <2>1. OpenExact'
    BY <1>1, NotOpen
  <2>2. UNCHANGED <<fd_array, dir_index, pc, loc, got, owner, mixed>>
    BY <1>1 DEF DirTest
  <2> QED BY <2>1, <2>2, Quiet DEF FInv
<1>2. CASE /\ pc' = [pc EXCEPT ![p] = "fetch"]
           /\ loc' = [loc EXCEPT ![p].fd = fd, ![p].n = n]
           /\ UNCHANGED last
  <2>1. fd \in FDs /\ fd \in Int /\ n \in Int /\ pc[p] = "idle"
    BY Sizing, FilesAssumption DEF DirTest, Readable
  <2>2. UNCHANGED <<fd_array, dir_index, got, owner, mixed, last>>
    BY <1>2 DEF DirTest
  <2>3. /\ loc' \in [Procs -> [fd : Int, n : Int, index : Int, len : Int]]
        /\ loc'[p].fd = fd /\ \A q \in Procs \ {p} : loc'[q] = loc[q]
    BY <1>2, <2>1 DEF FInv, Types
  <2>4. /\ pc' \in [Procs -> {"idle", "fetch", "load", "store"}]
        /\ pc'[p] = "fetch" /\ \A q \in Procs \ {p} : pc'[q] = pc[q]
    BY <1>2 DEF FInv, Types
  <2>5. Types'
    BY <2>2, <2>3, <2>4 DEF FInv, Types, Table
  <2>6. Cells'
    BY <2>2 DEF FInv, Cells
  <2>7. Calls'
    BY <2>1, <2>2, <2>3, <2>4 DEF FInv, Calls, DirTest
  <2>8. AllInStep'
    <3> SUFFICES ASSUME NEW q \in Procs, NEW g \in FDs, Lists(q, g)' PROVE InStep(q, g)'
      BY DEF AllInStep
    <3>1. InStep(q, g)
      BY <2>2 DEF FInv, AllInStep, Lists
    <3>2. CASE q = p
      <4>1. ~Reading(q, g) /\ ~Reading(q, g)' /\ pc'[q] # "store"
        BY <2>1, <2>4, <3>2 DEF Reading
      <4> QED BY <2>2, <3>1, <4>1 DEF InStep
    <3>3. CASE q # p
      <4>1. pc'[q] = pc[q] /\ loc'[q] = loc[q]
        BY <2>3, <2>4, <3>3
      <4> QED BY <2>2, <3>1, <4>1 DEF InStep, Reading
    <3> QED BY <3>2, <3>3
  <2>9. OpenExact'
    BY <2>2 DEF FInv, OpenExact
  <2> QED BY <2>5, <2>6, <2>7, <2>8, <2>9 DEF FInv
<1> QED BY <1>1, <1>2 DEF DirTest

\* So does the fetch of a directory entry (dir_read).
LEMMA DirFetching ==
    ASSUME FInv, NEW p \in Procs, DirFetch(p)
    PROVE  FInv'
<1> DEFINE fd == loc[p].fd
<1>0. /\ pc[p] = "fetch" /\ fd \in FDs /\ UNCHANGED <<fd_array, dir_index, owner, mixed>>
      /\ dir_index \in 0..IndexMax
    BY DEF DirFetch, FInv, Calls, Types
<1>1. CASE /\ pc' = [pc EXCEPT ![p] = "idle"]
           /\ loc' = [loc EXCEPT ![p] = NoLocals]
           /\ Returns("read", p, loc[p].fd, Fail)
           /\ UNCHANGED got
  <2>3. /\ loc' \in [Procs -> [fd : Int, n : Int, index : Int, len : Int]]
        /\ \A q \in Procs \ {p} : loc'[q] = loc[q]
    BY <1>1 DEF FInv, Types, NoLocals
  <2>4. /\ pc' \in [Procs -> {"idle", "fetch", "load", "store"}]
        /\ pc'[p] = "idle" /\ \A q \in Procs \ {p} : pc'[q] = pc[q]
    BY <1>1 DEF FInv, Types
  <2>5. Types'
    BY <1>0, <1>1, <2>3, <2>4 DEF FInv, Types, Table
  <2>6. Cells'
    BY <1>0, <1>1 DEF FInv, Cells
  <2>7. Calls'
    BY <1>0, <2>3, <2>4 DEF FInv, Calls
  <2>8. AllInStep'
    BY <1>0, <1>1, <2>3, <2>4 DEF FInv, AllInStep, Lists, InStep, Reading
  <2>9. OpenExact'
    BY <1>1, NotOpen
  <2> QED BY <2>5, <2>6, <2>7, <2>8, <2>9 DEF FInv
<1>2. CASE /\ EntryExists(dir_index)
           /\ pc' = [pc EXCEPT ![p] = "load"]
           /\ loc' = [loc EXCEPT ![p].len =
                  Min2(Min2(StoredLen(Dentries[dir_index + 1]), FILENAME_LEN), loc[p].n)]
           /\ got' = [got EXCEPT ![p][loc[p].fd] = Append(@, dir_index + 1)]
           /\ UNCHANGED last
  <2>1. Min2(Min2(StoredLen(Dentries[dir_index + 1]), FILENAME_LEN), loc[p].n) \in Int
    <3>1. dir_index + 1 \in 1..Len(Dentries)
      BY <1>0, <1>2, Sizing DEF EntryExists
    <3>2. Len(Dentries[dir_index + 1].name) \in Int /\ FILENAME_LEN \in Int
      BY <3>1, NameTypes
    <3>3. StoredLen(Dentries[dir_index + 1]) \in Int
      BY <3>2 DEF StoredLen
    <3>4. loc[p].n \in Int
      BY DEF FInv, Types
    <3> QED BY <3>2, <3>3, <3>4 DEF Min2
  <2>3. /\ loc' \in [Procs -> [fd : Int, n : Int, index : Int, len : Int]]
        /\ loc'[p].fd = fd /\ \A q \in Procs \ {p} : loc'[q] = loc[q]
    BY <1>2, <2>1 DEF FInv, Types
  <2>4. /\ pc' \in [Procs -> {"idle", "fetch", "load", "store"}]
        /\ pc'[p] = "load" /\ \A q \in Procs \ {p} : pc'[q] = pc[q]
    BY <1>2 DEF FInv, Types
  <2> DEFINE b == Append(got[p][fd], dir_index + 1)
  <2>2. /\ Table(got')
        /\ \A q \in Procs, g \in FDs : got'[q][g] = IF q = p /\ g = fd THEN b ELSE got[q][g]
    <3>1. got' = Put(got, p, fd, b) /\ Table(got)
      BY <1>2 DEF Put, FInv, Types
    <3> HIDE DEF b, fd
    <3>2. Table(got') /\ IsPut(got', got, p, fd, b)
      BY <1>0, <3>1, Replaced
    <3> QED BY <3>2 DEF IsPut
  <2>5. Types'
    BY <1>0, <2>2, <2>3, <2>4 DEF FInv, Types, Table
  <2>7. Calls'
    BY <1>0, <2>3, <2>4 DEF FInv, Calls
  <2>6. Cells'
    <3>1. Cell(fd_array[p][fd], b)
      <4>1. Cell(fd_array[p][fd], got[p][fd]) /\ fd_array[p][fd].fops = "dir"
        BY <1>0 DEF FInv, Cells, Calls
      <4> QED BY <4>1 DEF Cell
    <3> HIDE DEF fd, b
    <3> QED BY <1>0, <2>2, <3>1 DEF FInv, Cells
  <2>8. AllInStep'
    <3> SUFFICES ASSUME NEW q \in Procs, NEW g \in FDs, Lists(q, g)' PROVE InStep(q, g)'
      BY DEF AllInStep
    <3>1. InStep(q, g)
      BY <1>0 DEF FInv, AllInStep, Lists
    <3>2. CASE q = p /\ g = fd
      <4>1. ~Reading(q, g) /\ Reading(q, g)' /\ pc'[q] # "store"
        BY <1>0, <2>3, <2>4, <3>2 DEF Reading
      <4>2. got[p][fd] = [i \in 1..dir_index |-> i] /\ dir_index \in Nat
        BY <1>0, <3>1, <3>2, <4>1, Sizing DEF InStep
      <4>3. b = [i \in 1..(dir_index + 1) |-> i]
        BY <4>2
      <4> QED BY <1>0, <2>2, <3>2, <4>1, <4>3 DEF InStep
    <3>3. CASE q = p /\ g # fd
      <4>1. ~Reading(q, g) /\ ~Reading(q, g)' /\ pc'[q] # "store"
        BY <1>0, <2>3, <2>4, <3>3 DEF Reading
      <4> QED BY <1>0, <2>2, <3>1, <3>3, <4>1 DEF InStep
    <3>4. CASE q # p
      <4>1. pc'[q] = pc[q] /\ loc'[q] = loc[q]
        BY <2>3, <2>4, <3>4
      <4> QED BY <1>0, <2>2, <3>1, <3>4, <4>1 DEF InStep, Reading
    <3> QED BY <3>2, <3>3, <3>4
  <2>9. OpenExact'
    BY <1>0, <1>2 DEF FInv, OpenExact
  <2> QED BY <2>5, <2>6, <2>7, <2>8, <2>9 DEF FInv
<1> QED BY <1>1, <1>2 DEF DirFetch

\* So does the load of dir_index before its increment is stored.
LEMMA DirLoading ==
    ASSUME FInv, NEW p \in Procs, DirLoad(p)
    PROVE  FInv'
<1>1. /\ pc[p] = "load" /\ dir_index \in 0..dir_count /\ dir_index \in Int
      /\ pc' = [pc EXCEPT ![p] = "store"]
      /\ loc' = [loc EXCEPT ![p].index = dir_index]
      /\ UNCHANGED <<fd_array, dir_index, got, last, owner, mixed>>
    BY Sizing DEF DirLoad, FInv, Types
<1>2. /\ loc' \in [Procs -> [fd : Int, n : Int, index : Int, len : Int]]
      /\ loc'[p].fd = loc[p].fd /\ loc'[p].index = dir_index
      /\ \A q \in Procs \ {p} : loc'[q] = loc[q]
    BY <1>1 DEF FInv, Types
<1>3. /\ pc' \in [Procs -> {"idle", "fetch", "load", "store"}]
      /\ pc'[p] = "store" /\ \A q \in Procs \ {p} : pc'[q] = pc[q]
    BY <1>1 DEF FInv, Types
<1>4. Types'
    BY <1>1, <1>2, <1>3 DEF FInv, Types, Table
<1>5. Cells'
    BY <1>1 DEF FInv, Cells
<1>6. Calls'
    BY <1>1, <1>2, <1>3 DEF FInv, Calls
<1>7. AllInStep'
  <2> SUFFICES ASSUME NEW q \in Procs, NEW g \in FDs, Lists(q, g)' PROVE InStep(q, g)'
    BY DEF AllInStep
  <2>1. InStep(q, g)
    BY <1>1 DEF FInv, AllInStep, Lists
  <2>2. CASE q = p
    <3>1. Reading(q, g)' <=> Reading(q, g)
      BY <1>1, <1>2, <1>3, <2>2 DEF Reading
    <3> QED BY <1>1, <1>2, <1>3, <2>1, <2>2, <3>1 DEF InStep
  <2>3. CASE q # p
    <3>1. pc'[q] = pc[q] /\ loc'[q] = loc[q]
      BY <1>2, <1>3, <2>3
    <3> QED BY <1>1, <2>1, <3>1 DEF InStep, Reading
  <2> QED BY <2>2, <2>3
<1>8. OpenExact'
    BY <1>1 DEF FInv, OpenExact
<1> QED BY <1>4, <1>5, <1>6, <1>7, <1>8 DEF FInv

\* The store of dir_index++: of the owner it moves dir_index past the entry that
\* was copied; of any other descriptor it makes the owner's listing mixed.
LEMMA DirStoring ==
    ASSUME FInv, NEW p \in Procs, DirStore(p)
    PROVE  FInv'
<1> DEFINE fd == loc[p].fd
<1>1. /\ pc[p] = "store" /\ fd \in FDs /\ loc[p].index \in 0..dir_count
      /\ pc' = [pc EXCEPT ![p] = "idle"]
      /\ dir_index' = loc[p].index + 1
      /\ loc' = [loc EXCEPT ![p] = NoLocals]
      /\ mixed' = (mixed \/ owner # <<p, fd>>)
      /\ UNCHANGED <<fd_array, got, owner>>
    BY DEF DirStore, FInv, Calls
<1>2. /\ loc' \in [Procs -> [fd : Int, n : Int, index : Int, len : Int]]
      /\ \A q \in Procs \ {p} : loc'[q] = loc[q]
    BY <1>1 DEF FInv, Types, NoLocals
<1>3. /\ pc' \in [Procs -> {"idle", "fetch", "load", "store"}]
      /\ pc'[p] = "idle" /\ \A q \in Procs \ {p} : pc'[q] = pc[q]
    BY <1>1 DEF FInv, Types
<1>4. Types'
  <2>1. dir_index' \in 0..IndexMax
    BY <1>1, Sizing
  <2> QED BY <1>1, <1>2, <1>3, <2>1 DEF FInv, Types, Table
<1>5. Cells'
    BY <1>1 DEF FInv, Cells
<1>6. Calls'
    BY <1>1, <1>2, <1>3 DEF FInv, Calls
<1>7. AllInStep'
  <2> SUFFICES ASSUME NEW q \in Procs, NEW g \in FDs, Lists(q, g)' PROVE InStep(q, g)'
    BY DEF AllInStep
  <2>1. ~mixed /\ owner = <<p, fd>> /\ owner = <<q, g>>
    BY <1>1 DEF Lists
  <2>2. q = p /\ g = fd
    BY <2>1
  <2>3. Lists(q, g)
    BY <1>1, <2>1 DEF Lists
  <2>4. InStep(q, g) /\ Reading(q, g)
    BY <1>1, <2>2, <2>3 DEF FInv, AllInStep, Reading
  <2>5. got[q][g] = [i \in 1..(dir_index + 1) |-> i] /\ loc[p].index = dir_index
    BY <1>1, <2>2, <2>4 DEF InStep
  <2>6. got'[q][g] = [i \in 1..dir_index' |-> i]
    BY <1>1, <2>5
  <2>7. ~Reading(q, g)' /\ pc'[q] # "store"
    BY <1>3, <2>2 DEF Reading
  <2> QED BY <2>6, <2>7 DEF InStep
<1>8. OpenExact'
  <2>1. Returns("read", p, fd, loc[p].len)
    BY DEF DirStore
  <2> QED BY <2>1, NotOpen
<1> QED BY <1>4, <1>5, <1>6, <1>7, <1>8 DEF FInv

\* So does every step.
LEMMA FilesStep == FInv /\ [Next]_vars => FInv'
<1> SUFFICES ASSUME FInv, [Next]_vars PROVE FInv'
    OBVIOUS
<1>1. CASE UNCHANGED vars
  <2>1. OpenExact'
    BY <1>1 DEF FInv, OpenExact, vars
  <2> QED BY <1>1, <2>1, Quiet DEF FInv, vars
<1>2. ASSUME NEW p \in Procs, NEW name \in Names, OpenFails(p, name) \/ Open(p, name) PROVE FInv'
    BY <1>2, OpenFailing, Opening, FilesAssumption
<1>3. ASSUME NEW p \in Procs, NEW fd \in -1..FD_N, CloseRefused(p, fd) \/ close(p, fd) PROVE FInv'
  <2>1. CASE close(p, fd)
    BY <2>1, Closing
  <2>2. CASE CloseRefused(p, fd)
    <3>1. Types' /\ Cells' /\ Calls' /\ AllInStep'
      BY <2>2, Quiet DEF CloseRefused
    <3>2. OpenExact'
      BY <2>2, NotOpen DEF CloseRefused
    <3> QED BY <3>1, <3>2 DEF FInv
  <2> QED BY <1>3, <2>1, <2>2
<1>4. ASSUME NEW p \in Procs, NEW fd \in -1..FD_N, NEW n \in Sizes,
             ReadRefused(p, fd, n) \/ ReadDevice(p, fd, n) \/ write(p, fd, n)
      PROVE  FInv'
  <2>1. Types' /\ Cells' /\ Calls' /\ AllInStep'
    BY <1>4, Quiet DEF ReadRefused, ReadDevice, write
  <2>2. OpenExact'
    BY <1>4, NotOpen DEF ReadRefused, ReadDevice, write
  <2> QED BY <2>1, <2>2 DEF FInv
<1>5. ASSUME NEW p \in Procs, NEW fd \in -1..FD_N, NEW n \in Sizes,
             file_read(p, fd, n) \/ DirTest(p, fd, n)
      PROVE  FInv'
    BY <1>5, FileReading, DirTesting, FilesAssumption
<1>6. ASSUME NEW p \in Procs, Restart(p) PROVE FInv'
    BY <1>6, Restarting
<1>7. ASSUME NEW p \in Procs, Inside(p) PROVE FInv'
    BY <1>7, DirFetching, DirLoading, DirStoring DEF Inside
<1> QED BY <1>1, <1>2, <1>3, <1>4, <1>5, <1>6, <1>7 DEF Next, Call

-----------------------------------------------------------------------------
(* The theorems *)

\* The invariant holds in every state.
THEOREM FilesInvariance == Spec => []FInv
BY FilesInit, FilesStep, PTL DEF Spec

\* open (syscall.c, read_dentry_by_name): the descriptor is of the entry with
\* the very name that was asked for, and a call fails only when there is no such
\* entry or no free descriptor, for every directory and every set of names.
THEOREM OpensExactly == Spec => []OpenExact
<1>1. FInv => OpenExact
    BY DEF FInv
<1> QED BY <1>1, FilesInvariance, PTL

\* file_read and read_data: what the reads of an open file returned together is
\* the file from its beginning to file_pos, for every disk image, block size and
\* sequence of sizes asked for, and the variables keep their types.
THEOREM FilesReadRight == Spec => []ReadsFile
<1>1. FInv => ReadsFile
  <2> SUFFICES ASSUME FInv PROVE ReadsFile
    OBVIOUS
  <2>1. TypeOK
    <3>1. \A p \in Procs, fd \in FDs : fd_array[p][fd] \in FdRecords
      BY DEF FInv, Cells, Cell
    <3>2. fd_array \in [Procs -> [FDs -> FdRecords]]
      BY <3>1 DEF FInv, Types, Table
    <3>3. \A p \in Procs, fd \in FDs : fd_array[p][fd].flags = 1 => fd_array[p][fd].fops # "null"
      BY DEF FInv, Cells, Cell
    <3> QED BY <3>2, <3>3 DEF TypeOK, FInv, Types, FdRecords
  <2> QED BY <2>1 DEF ReadsFile, FInv, Cells, Cell
<1> QED BY <1>1, FilesInvariance, PTL

\* dir_read: as long as no other descriptor moved dir_index, the one that opened
\* the directory last has been given its first dir_index entries in order,
\* whatever files were read between and wherever other calls stand.
THEOREM ListsInOrder == Spec => []DirInStepUnlessMixed
<1>1. FInv => DirInStepUnlessMixed
    BY DEF FInv, AllInStep, Lists, InStep, Reading, DirInStepUnlessMixed
<1> QED BY <1>1, FilesInvariance, PTL

-----------------------------------------------------------------------------
(* The programs of Programs: the invariant.                                  *)

Fd(fd) == fd_array[User][fd]
Extra == 2..(FD_N - 1)
Closed == \A fd \in Extra : Fd(fd).flags = 0
Left == \A fd \in Extra : Fd(fd).fops = "dir"

\* Only User calls: the directory does not move under its reads, so that the
\* entry found by the test of dir_read is there when it is copied.
Index ==
    /\ dir_index <= dir_count
    /\ pc[User] # "idle" => dir_index < dir_count /\ loc[User].n >= 0
    /\ pc[User] = "store" => loc[User].index = dir_index
    /\ pc[User] \in {"load", "store"} => loc[User].len >= 0

\* cat and ls have no descriptor before their open, and then the first one,
\* which is the owner of the directory index if it is the directory's.
Copying ==
    /\ prog \in {"any", "syserr", "cat", "ls", "done"} /\ file \in CatNames \cup {<<>>}
    /\ prog = "done" => pc[User] = "idle"
    /\ prog \in {"cat", "ls"} =>
         /\ asked = {} /\ todo = <<>> /\ step \in {1, 2}
         /\ step = 1 => pc[User] = "idle" /\ Closed
         /\ step = 2 => /\ Fd(2).flags = 1
                        /\ Fd(2).fops = "dir" => owner = <<User, 2>>
                        /\ pc[User] # "idle" => loc[User].fd = 2

\* Before a call of err_open_lots: descriptors 2 to `step' are open, or all were
\* and those below the one to be closed are closed again.
Lots ==
    \/ /\ step \in 1..(FD_N - 1) /\ opens = 0
       /\ \A fd \in Extra : /\ Fd(fd).flags = (IF fd <= step THEN 1 ELSE 0)
                            /\ fd <= step => Fd(fd).fops = "dir"
    \/ /\ step \in FD_N..(2 * FD_N - 3) /\ opens = 1 /\ Left
       /\ \A fd \in Extra : Fd(fd).flags = (IF fd >= step - FD_N + 2 THEN 1 ELSE 0)

\* One test was selected, or all and the last ones are left.
Queue ==
    /\ todo \in Seq(1..8) /\ todo # <<>>
    /\ \/ asked = {todo[1]} /\ Len(todo) = 1
       \/ asked = 1..8 /\ Len(todo) <= 8 /\ \A k \in 1..Len(todo) : todo[k] = 8 - Len(todo) + k

\* Outside err_open_lots nothing is open, and after it every descriptor has the
\* directory's table left.
Testing ==
    prog = "syserr" =>
        /\ pc[User] = "idle" /\ Queue
        /\ step \in 1..Len(Tests[todo[1]])
        /\ todo[1] < OPEN_LOTS => opens = 0
        /\ IF todo[1] = OPEN_LOTS THEN Lots ELSE Closed
        /\ asked = 1..8 /\ todo[1] > OPEN_LOTS => Left

PInv == FInv /\ Index /\ Copying /\ Testing /\ SyserrPasses /\ CopiesAll

-----------------------------------------------------------------------------
(* The tests of ece391syserr.c as sequences of calls.                        *)

\* The constants of the programs.
LEMMA UserFacts ==
    /\ User \in Procs /\ BUFLEN \in Nat /\ BUFLEN > 0 /\ BUFLEN \in Int
    /\ DirName \in Seq(Nat \ {0}) /\ CatNames \subseteq Seq(Nat \ {0})
    /\ <<>> \in Seq(Nat \ {0})
    /\ BadNames \in Seq(Seq(Nat \ {0})) /\ Len(BadNames) \in Nat \ {0}
    /\ DOMAIN BadNames = 1..Len(BadNames)
    /\ \A k \in 1..Len(BadNames) : BadNames[k] \in Seq(Nat \ {0})
<1>1. BadNames \in Seq(Seq(Nat \ {0})) /\ BadNames # <<>>
    BY ProgramsAssumption
<1> QED BY <1>1, ProgramsAssumption

\* What the calls of the tests other than err_open_lots are.
Fruitless(t, c) ==
    \/ t \in {1, 2} /\ c.call \in {"read", "write", "close"} /\ c.arg \notin FDs
    \/ t = 4 /\ c.call = "open" /\ \E k \in 1..Len(BadNames) : c.arg = BadNames[k]
    \/ /\ t = UNOPENED
       /\ c.call = "close" \/ (c.call \in {"read", "write"} /\ c.arg \in Extra)
    \/ t = 6 /\ c.call = "vidmap" /\ c.arg \in {0, 4}
    \/ t = 7 /\ ((c.call = "write" /\ c.arg = 0) \/ (c.call = "read" /\ c.arg = 1))
    \/ t = 8 /\ c.call = "number" /\ c.arg \in {9, -1, 0}

\* The elements of two sequences given by their elements, one after the other.
LEMMA Halves ==
    ASSUME NEW m \in Nat, NEW n \in Nat, NEW f, NEW g,
           f = [k \in 1..m |-> f[k]], g = [k \in 1..n |-> g[k]]
    PROVE  /\ f \o g = [k \in 1..(m + n) |-> IF k <= m THEN f[k] ELSE g[k - m]]
           /\ Len(f \o g) = m + n
<1>1. Len(f) = m /\ Len(g) = n /\ DOMAIN f = 1..m /\ DOMAIN g = 1..n
    OBVIOUS
<1> QED BY <1>1

\* err_open_lots: FD_N - 1 times open, then close of 2 to FD_N - 1.
LEMMA LotsCalls ==
    /\ Len(Tests[OPEN_LOTS]) = 2 * FD_N - 3
    /\ \A k \in 1..(FD_N - 1) : Tests[OPEN_LOTS][k] = C("open", DirName)
    /\ \A k \in FD_N..(2 * FD_N - 3) : Tests[OPEN_LOTS][k] = C("close", k - FD_N + 2)
<1> DEFINE m == FD_N - 1
           n == FD_N - 2
           f == [k \in 1..m |-> C("open", DirName)]
           g == [k \in 1..n |-> C("close", 2 + k - 1)]
<1>1. m \in Nat /\ n \in Nat /\ m + n = 2 * FD_N - 3 /\ FD_N \in Nat
    BY Sizing
<1>2. Tests[OPEN_LOTS] = f \o g
  <2>1. Tests[OPEN_LOTS] = err_open_lots
    BY DEF Tests, OPEN_LOTS
  <2>2. Each("close", 2, FD_N - 1) = g
    <3>1. (FD_N - 1) - 2 + 1 = n
      BY <1>1
    <3> QED BY <3>1 DEF Each
  <2> QED BY <2>1, <2>2 DEF err_open_lots
<1>3. f = [k \in 1..m |-> f[k]] /\ g = [k \in 1..n |-> g[k]]
    OBVIOUS
<1>4. \A k \in 1..m : f[k] = C("open", DirName)
    OBVIOUS
<1>5. \A k \in 1..n : g[k] = C("close", 2 + k - 1)
    OBVIOUS
<1> HIDE DEF f, g
<1>6. /\ f \o g = [k \in 1..(m + n) |-> IF k <= m THEN f[k] ELSE g[k - m]]
      /\ Len(f \o g) = m + n
  <2> HIDE DEF m, n
  <2> QED BY <1>1, <1>3, Halves
<1>7. \A k \in 1..(FD_N - 1) : Tests[OPEN_LOTS][k] = C("open", DirName)
    BY <1>1, <1>2, <1>4, <1>6
<1>8. ASSUME NEW k \in FD_N..(2 * FD_N - 3)
      PROVE  Tests[OPEN_LOTS][k] = C("close", k - FD_N + 2)
  <2>1. k \in 1..(m + n) /\ ~(k <= m) /\ k - m \in 1..n /\ 2 + (k - m) - 1 = k - FD_N + 2
    BY <1>1
  <2>2. Tests[OPEN_LOTS][k] = g[k - m]
    BY <1>2, <1>6, <2>1
  <2> QED BY <1>5, <2>1, <2>2
<1> QED BY <1>1, <1>2, <1>6, <1>7, <1>8

\* err_unopened: close of all, read and write of those that can be opened.
LEMMA UnopenedCalls ==
    /\ Len(Tests[UNOPENED]) \in Nat \ {0}
    /\ \A k \in 1..Len(Tests[UNOPENED]) : Fruitless(UNOPENED, Tests[UNOPENED][k])
<1> DEFINE n == FD_N - 2
           f == [k \in 1..FD_N |-> C("close", 0 + k - 1)]
           g == [k \in 1..n |-> C("read", 2 + k - 1)]
           h == [k \in 1..n |-> C("write", 2 + k - 1)]
           fg == f \o g
<1>1. FD_N \in Nat /\ n \in Nat /\ n > 0
    BY Sizing
<1>2. Tests[UNOPENED] = fg \o h
  <2>1. (FD_N - 1) - 2 + 1 = n /\ (FD_N - 1) - 0 + 1 = FD_N
    BY <1>1
  <2>2. /\ Each("close", 0, FD_N - 1) = f /\ Each("read", 2, FD_N - 1) = g
        /\ Each("write", 2, FD_N - 1) = h
    BY <2>1 DEF Each
  <2>3. Tests[UNOPENED] = err_unopened
    BY DEF Tests, UNOPENED
  <2> QED BY <2>2, <2>3 DEF err_unopened
<1>3. /\ f = [k \in 1..FD_N |-> f[k]] /\ g = [k \in 1..n |-> g[k]] /\ h = [k \in 1..n |-> h[k]]
    OBVIOUS
<1>4. \A k \in 1..FD_N : f[k].call = "close"
    BY DEF C
<1>5. \A k \in 1..n : /\ g[k].call = "read" /\ g[k].arg \in Extra
                       /\ h[k].call = "write" /\ h[k].arg \in Extra
    BY <1>1 DEF C, Extra
<1> HIDE DEF f, g, h
<1>6. fg = [k \in 1..(FD_N + n) |-> IF k <= FD_N THEN f[k] ELSE g[k - FD_N]]
    BY <1>1, <1>3, Halves
<1>7. fg = [k \in 1..(FD_N + n) |-> fg[k]]
    BY <1>6
<1> HIDE DEF fg
<1>8. \A k \in 1..(FD_N + n) :
          fg[k].call = "close" \/ (fg[k].call = "read" /\ fg[k].arg \in Extra)
  <2> SUFFICES ASSUME NEW k \in 1..(FD_N + n)
               PROVE  fg[k].call = "close" \/ (fg[k].call = "read" /\ fg[k].arg \in Extra)
    OBVIOUS
  <2>1. CASE k <= FD_N
    <3>1. k \in 1..FD_N /\ fg[k] = f[k]
      BY <1>1, <1>6, <2>1
    <3> QED BY <1>4, <3>1
  <2>2. CASE ~(k <= FD_N)
    <3>1. k - FD_N \in 1..n /\ fg[k] = g[k - FD_N]
      BY <1>1, <1>6, <2>2
    <3> QED BY <1>5, <3>1
  <2> QED BY <2>1, <2>2
<1> DEFINE m == FD_N + n
           all == fg \o h
<1>m. m \in Nat
    BY <1>1
<1>9. all = [k \in 1..(m + n) |-> IF k <= m THEN fg[k] ELSE h[k - m]] /\ Len(all) = m + n
  <2>1. fg = [k \in 1..m |-> fg[k]] /\ h = [k \in 1..n |-> h[k]]
    BY <1>3, <1>7
  <2>2. n \in Nat
    BY <1>1
  <2> HIDE DEF m, n
  <2> QED BY <1>m, <2>1, <2>2, Halves
<1> HIDE DEF all
<1>10. ASSUME NEW k \in 1..(m + n)
       PROVE  all[k].call = "close" \/ (all[k].call \in {"read", "write"} /\ all[k].arg \in Extra)
  <2>1. CASE k <= m
    <3>1. k \in 1..(FD_N + n) /\ all[k] = fg[k]
      BY <1>1, <1>9, <2>1
    <3> QED BY <1>8, <3>1
  <2>2. CASE ~(k <= m)
    <3>1. k - m \in 1..n /\ all[k] = h[k - m]
      BY <1>1, <1>9, <2>2
    <3> QED BY <1>5, <3>1
  <2> QED BY <2>1, <2>2
<1>11. \A k \in 1..(m + n) : Fruitless(UNOPENED, all[k])
    BY <1>10 DEF Fruitless
<1> QED BY <1>1, <1>2, <1>9, <1>11 DEF all

\* The calls of every test but err_open_lots.
LEMMA TestCalls ==
    ASSUME NEW t \in 1..8, t # OPEN_LOTS
    PROVE  /\ Len(Tests[t]) \in Nat \ {0}
           /\ \A k \in 1..Len(Tests[t]) : Fruitless(t, Tests[t][k])
<1>0. t \in {1, 2, 4, 5, 6, 7, 8}
    BY DEF OPEN_LOTS
<1>1. CASE t = 1
    BY <1>1, Sizing DEF Tests, err_neg_fd, ThreeCalls, C, Fruitless
<1>2. CASE t = 2
    BY <1>2, Sizing DEF Tests, err_big_fd, ThreeCalls, C, Fruitless
<1>4. CASE t = 4
    BY <1>4, UserFacts DEF Tests, err_open, C, Fruitless
<1>5. CASE t = 5
    BY <1>5, UnopenedCalls DEF UNOPENED
<1>6. CASE t = 6
    BY <1>6 DEF Tests, err_vidmap, C, Fruitless
<1>7. CASE t = 7
  <2>1. Tests[t] = <<C("write", 0), C("read", 1)>>
    BY <1>7 DEF Tests, err_stdin_out, FD_STDIN, FD_STDOUT
  <2>2. Len(Tests[t]) = 2 /\ Fruitless(t, Tests[t][1]) /\ Fruitless(t, Tests[t][2])
    BY <1>7, <2>1 DEF C, Fruitless
  <2> QED BY <2>2
<1>8. CASE t = 8
    BY <1>8 DEF Tests, err_syscall_num, C, Fruitless
<1> QED BY <1>0, <1>1, <1>2, <1>4, <1>5, <1>6, <1>7, <1>8

-----------------------------------------------------------------------------
(* The calls of User.                                                        *)

\* A name that is in no entry is not found, and "." is.
LEMMA Lookups ==
    /\ \A k \in 1..Len(BadNames) : read_dentry_by_name(BadNames[k]) = 0
    /\ read_dentry_by_name(DirName) \in 1..Len(Dentries)
    /\ Dentries[read_dentry_by_name(DirName)].type = "dir"
<1>1. ASSUME NEW k \in 1..Len(BadNames) PROVE read_dentry_by_name(BadNames[k]) = 0
  <2>1. BadNames[k] \in Seq(Nat \ {0}) /\ BadNames[k] \in Range(BadNames)
    BY UserFacts DEF Range
  <2>2. \A i \in 1..Len(Dentries) : Dentries[i].name # BadNames[k]
    BY <2>1, ProgramsAssumption, NameTypes
  <2> QED BY <2>1, <2>2, LookupExact
<1>2. PICK i \in 1..Len(Dentries) : Dentries[i].name = DirName /\ Dentries[i].type = "dir"
    BY ProgramsAssumption, NameTypes
<1>3. /\ read_dentry_by_name(DirName) \in 1..Len(Dentries)
      /\ Dentries[read_dentry_by_name(DirName)].name = DirName
    BY <1>2, LookupExact, UserFacts
<1>4. \A j, k \in DOMAIN Dentries : Dentries[j].name = Dentries[k].name => j = k
    BY FilesAssumption
<1>5. read_dentry_by_name(DirName) = i
    BY <1>2, <1>3, <1>4, NameTypes
<1> QED BY <1>1, <1>2, <1>3, <1>5

\* Every call of a test keeps what Files promises.
LEMMA TestKeeps ==
    ASSUME FInv, NEW c, Makes(c), c.call = "open" => c.arg \in Seq(Nat \ {0})
    PROVE  FInv'
<1> DEFINE fd == c.arg
           n == BUFLEN
<1>0. User \in Procs /\ n \in Int
    BY UserFacts
<1> HIDE DEF n
<1>1. CASE \/ ReadRefused(User, fd, n) \/ ReadDevice(User, fd, n) \/ write(User, fd, n)
           \/ CloseRefused(User, fd)
  <2>1. Types' /\ Cells' /\ Calls' /\ AllInStep'
    BY <1>1, Quiet DEF ReadRefused, ReadDevice, write, CloseRefused
  <2>2. OpenExact'
    BY <1>1, NotOpen DEF ReadRefused, ReadDevice, write, CloseRefused
  <2> QED BY <2>1, <2>2 DEF FInv
<1>2. CASE file_read(User, fd, n)
    BY <1>0, <1>2, FileReading
<1>3. CASE DirTest(User, fd, n)
    BY <1>0, <1>3, DirTesting
<1>4. CASE close(User, fd)
    BY <1>0, <1>4, Closing
<1>5. CASE c.call = "open" /\ Opens(c.arg)
    BY <1>0, <1>5, OpenFailing, Opening DEF Opens
<1>6. ASSUME NEW call, NEW r, Answers(call, r), call # "open" PROVE FInv'
  <2>1. Types' /\ Cells' /\ Calls' /\ AllInStep'
    BY <1>6, Quiet DEF Answers
  <2>2. OpenExact'
    BY <1>6 DEF Answers, NoCall, OpenExact
  <2> QED BY <2>1, <2>2 DEF FInv
<1>7. CASE c.call = "vidmap" /\ Answers("vidmap", VidmapResult(c.arg))
    BY <1>6, <1>7
<1>8. CASE c.call = "number" /\ Answers("number", NumberResult(c.arg))
    BY <1>6, <1>8
<1> QED BY <1>1, <1>2, <1>3, <1>4, <1>5, <1>7, <1>8 DEF Makes, Reads, Closes, n

\* Calls that leave the descriptors alone.
Idle == UNCHANGED <<fd_array, dir_index, pc, loc, got, owner, mixed>>

\* With nothing open every call of the tests fails, except that a write may
\* find a table that is not the directory's.
LEMMA Refuses ==
    ASSUME Closed, NEW t \in 1..8, NEW c, Fruitless(t, c), Makes(c)
    PROVE  Idle /\ (t # UNOPENED \/ Left => last'.ret = Fail)
<1> USE DEF Idle
<1>0. FD_N \in Nat /\ FD_N > 2 /\ FDs = 0..(FD_N - 1) /\ Extra = 2..(FD_N - 1)
    BY Sizing DEF Extra
<1>1. CASE c.call = "close"
  <2>1. ~Closable(User, c.arg)
    BY DEF Closable, Closed, Extra, Fd
  <2>2. CloseRefused(User, c.arg)
    BY <1>1, <2>1 DEF Makes, Closes, close
  <2> QED BY <2>2 DEF CloseRefused, Returns, NoCall
<1>2. CASE c.call = "read"
  <2>1. ~Readable(User, c.arg, BUFLEN)
    <3>1. c.arg \notin FDs \/ c.arg \in Extra \/ c.arg = 1
      BY <1>2 DEF Fruitless
    <3> QED BY <3>1 DEF Readable, FD_STDOUT, Closed, Fd
  <2>2. ReadRefused(User, c.arg, BUFLEN)
    BY <1>2, <2>1 DEF Makes, Reads, ReadDevice, file_read, DirTest
  <2> QED BY <2>2 DEF ReadRefused, Returns, NoCall
<1>3. CASE c.call = "write"
  <2>1. write(User, c.arg, BUFLEN)
    BY <1>3 DEF Makes
  <2>2. Idle
    BY <2>1 DEF write
  <2>3. CASE c.arg \notin FDs \ {FD_STDIN}
    BY <2>1, <2>2, <2>3 DEF write, Returns, NoCall
  <2>4. CASE c.arg \in Extra
    <3> SUFFICES ASSUME t # UNOPENED \/ Left PROVE last'.ret = Fail
      BY <2>2
    <3>1. t = UNOPENED
      BY <1>0, <1>3, <2>4 DEF Fruitless
    <3>2. fd_array[User][c.arg].fops = "dir"
      BY <2>4, <3>1 DEF Left, Fd
    <3>3. Returns("write", User, c.arg, Fail)
      <4>1. BUFLEN \in Nat
        BY UserFacts
      <4>2. c.arg \in FDs \ {FD_STDIN}
        BY <1>0, <2>4 DEF FD_STDIN
      <4> QED BY <2>1, <3>2, <4>1, <4>2 DEF write
    <3> QED BY <3>3 DEF Returns, NoCall
  <2> QED BY <1>0, <1>3, <2>3, <2>4 DEF Fruitless, FD_STDIN
<1>4. CASE c.call = "open"
  <2>1. PICK k \in 1..Len(BadNames) : c.arg = BadNames[k]
    BY <1>4 DEF Fruitless
  <2>2. read_dentry_by_name(c.arg) = 0
    BY <2>1, Lookups
  <2>3. OpenFails(User, c.arg)
    BY <1>4, <2>2 DEF Makes, Opens, Open
  <2> QED BY <2>3 DEF OpenFails, ReturnsOpen, NoCall
<1>5. CASE c.call = "vidmap"
  <2>1. c.arg \in {0, 4} /\ Answers("vidmap", VidmapResult(c.arg))
    BY <1>5 DEF Fruitless, Makes
  <2>2. VidmapResult(c.arg) = Fail
    BY <2>1 DEF VidmapResult
  <2> QED BY <2>1, <2>2 DEF Answers, NoCall
<1>6. CASE c.call = "number"
  <2>1. c.arg \in {9, -1, 0} /\ Answers("number", NumberResult(c.arg))
    BY <1>6 DEF Fruitless, Makes
  <2>2. NumberResult(c.arg) = Fail
    BY <2>1 DEF NumberResult
  <2> QED BY <2>1, <2>2 DEF Answers, NoCall
<1> QED BY <1>1, <1>2, <1>3, <1>4, <1>5, <1>6 DEF Fruitless

\* The descriptors from k on are free.
FreeFrom(k) == \A fd \in Extra : Fd(fd).flags = (IF fd < k THEN 1 ELSE 0)

\* The first free descriptor is then k.
LEMMA FirstFree ==
    ASSUME NEW k \in Extra, FreeFrom(k)
    PROVE  Slots(User) # {} /\ FirstSlot(User) = k
<1>1. Slots(User) = k..(FD_N - 1) /\ k \in k..(FD_N - 1) /\ FD_N \in Nat
    BY Sizing DEF Slots, Extra, Fd, FreeFrom
<1>2. \A j \in k..(FD_N - 1) : (\A g \in k..(FD_N - 1) : j <= g) => j = k
    BY <1>1 DEF Extra
<1>3. \E j \in k..(FD_N - 1) : \A g \in k..(FD_N - 1) : j <= g
    BY <1>1 DEF Extra
<1> QED BY <1>1, <1>2, <1>3 DEF FirstSlot

\* open with descriptors from k on free gives k.
LEMMA OpensNext ==
    ASSUME Table(fd_array), NEW name, Opens(name),
           NEW k \in Extra, FreeFrom(k)
    PROVE  \/ /\ read_dentry_by_name(name) = 0 /\ last'.ret = Fail /\ Idle
           \/ /\ read_dentry_by_name(name) # 0 /\ last'.ret = k
              /\ \A fd \in FDs : fd # k => Fd(fd)' = Fd(fd)
              /\ Fd(k)'.flags = 1 /\ Fd(k)'.fops = Dentries[read_dentry_by_name(name)].type
              /\ Fd(k)'.fops = "dir" => dir_index' = 0 /\ owner' = <<User, k>>
              /\ Fd(k)'.fops # "dir" => UNCHANGED <<dir_index, owner>>
              /\ pc[User] = "idle" /\ UNCHANGED <<pc, loc>>
<1>1. Slots(User) # {} /\ FirstSlot(User) = k /\ User \in Procs /\ k \in FDs
  <2>1. Slots(User) # {} /\ FirstSlot(User) = k /\ User \in Procs
    BY FirstFree, UserFacts
  <2> QED BY <2>1, Sizing DEF Extra
<1>2. CASE OpenFails(User, name)
  <2>1. read_dentry_by_name(name) = 0 /\ Idle
    BY <1>1, <1>2 DEF OpenFails, Idle
  <2>2. last'.ret = Fail
    BY <1>2 DEF OpenFails, ReturnsOpen, NoCall
  <2> QED BY <2>1, <2>2
<1>3. CASE Open(User, name)
  <2> DEFINE i == read_dentry_by_name(name)
             d == Descriptor(Dentries[i], fd_array[User][k])
  <2>1. /\ i # 0 /\ fd_array' = [fd_array EXCEPT ![User][k] = d]
        /\ Dentries[i].type = "dir" => dir_index' = 0 /\ owner' = <<User, k>>
        /\ Dentries[i].type # "dir" => UNCHANGED <<dir_index, owner>>
        /\ pc[User] = "idle" /\ UNCHANGED <<pc, loc>> /\ last'.ret = k
    BY <1>1, <1>3 DEF Open, dir_open, ReturnsOpen, NoCall
  <2>2. d.flags = 1 /\ d.fops = Dentries[i].type
    BY DEF Descriptor
  <2> HIDE DEF d
  <2>3. Table(fd_array') /\ IsPut(fd_array', fd_array, User, k, d)
    BY <1>1, <2>1, Replaced DEF Put
  <2>4. \A g \in FDs : Fd(g)' = IF g = k THEN d ELSE Fd(g)
    BY <1>1, <2>3 DEF IsPut, Fd
  <2> HIDE DEF i
  <2> QED BY <1>1, <2>1, <2>2, <2>4 DEF i
<1> QED BY <1>2, <1>3 DEF Opens

\* close of an open descriptor.
LEMMA ClosesOne ==
    ASSUME FInv, NEW k \in Extra, Fd(k).flags = 1, Closes(k)
    PROVE  /\ last'.ret = 0 /\ UNCHANGED <<dir_index, pc, loc, owner>> /\ pc[User] = "idle"
           /\ \A fd \in FDs : fd # k => Fd(fd)' = Fd(fd)
           /\ Fd(k)'.flags = 0 /\ Fd(k)'.fops = Fd(k).fops
<1> DEFINE h == [Fd(k) EXCEPT !.flags = 0]
<1>1. User \in Procs /\ k \in FDs /\ Table(fd_array)
    BY UserFacts, Sizing DEF Extra, FInv, Types
<1>2. close(User, k)
    BY DEF Closes, CloseRefused, Closable, Extra, Fd
<1>3. /\ last'.ret = 0 /\ UNCHANGED <<dir_index, pc, loc, owner>> /\ pc[User] = "idle"
      /\ fd_array' = [fd_array EXCEPT ![User][k] = h]
    BY <1>2 DEF close, Returns, NoCall, Fd
<1>4. h.flags = 0 /\ h.fops = Fd(k).fops
  <2>1. Fd(k) \in FdRecords
    BY <1>1 DEF FInv, Cells, Cell, Fd
  <2> QED BY <2>1 DEF FdRecords
<1> HIDE DEF h
<1>5. IsPut(fd_array', fd_array, User, k, h)
    BY <1>1, <1>3, Replaced DEF Put
<1>6. \A g \in FDs : Fd(g)' = IF g = k THEN h ELSE Fd(g)
    BY <1>1, <1>5 DEF IsPut, Fd
<1> QED BY <1>1, <1>3, <1>4, <1>6

\* A new program of User has nothing open.
LEMMA StartsClosed ==
    ASSUME FInv, Restart(User)
    PROVE  Closed' /\ pc'[User] = "idle"
<1> SUFFICES ASSUME NEW fd \in Extra PROVE Fd(fd)'.flags = 0
    BY DEF Closed, Restart
<1> DEFINE f == fd_array[User][fd]
<1>1. User \in Procs /\ fd \in FDs /\ Table(fd_array) /\ ~(fd <= FD_STDOUT)
    BY UserFacts, Sizing DEF Extra, FInv, Types, FD_STDOUT
<1>2. f \in FdRecords
    BY <1>1 DEF FInv, Cells, Cell
<1>3. fd_array'[User][fd] = [f EXCEPT !.flags = 0]
    BY <1>1 DEF Restart, Table
<1> HIDE DEF f
<1> QED BY <1>2, <1>3 DEF FdRecords, Fd

-----------------------------------------------------------------------------
(* The directory index under the calls of User alone.                        *)

\* Calls that do not read the directory leave the index or start it over.
LEMMA IndexKept ==
    ASSUME Index, pc[User] = "idle", UNCHANGED <<pc, loc>>, dir_index' \in {dir_index, 0}
    PROVE  Index'
BY Sizing DEF Index

\* A read of the directory ends at its last entry or goes on to fetch the next.
LEMMA DirTests ==
    ASSUME FInv, Index, NEW fd, NEW n \in Int, DirTest(User, fd, n)
    PROVE  /\ Index' /\ UNCHANGED <<fd_array, dir_index, got, owner, mixed>>
           /\ \/ /\ dir_index = dir_count /\ last'.ret = 0 /\ UNCHANGED pc
              \/ pc'[User] = "fetch" /\ loc'[User].fd = fd
<1>0. User \in Procs /\ pc[User] = "idle" /\ fd \in Int /\ n >= 0 /\ dir_index \in Int
    BY UserFacts, Sizing DEF DirTest, Readable, FInv, Types
<1>1. CASE dir_index >= dir_count /\ Returns("dir_end", User, fd, 0) /\ UNCHANGED <<pc, loc>>
  <2>1. dir_index = dir_count
    BY <1>0, <1>1, Sizing DEF Index
  <2>2. last'.ret = 0
    BY <1>1 DEF Returns, NoCall
  <2>3. Index'
    BY <1>0, <1>1, IndexKept DEF DirTest
  <2> QED BY <1>1, <2>1, <2>2, <2>3 DEF DirTest
<1>2. CASE /\ dir_index < dir_count
           /\ pc' = [pc EXCEPT ![User] = "fetch"]
           /\ loc' = [loc EXCEPT ![User].fd = fd, ![User].n = n]
  <2>1. pc'[User] = "fetch"
    BY <1>0, <1>2 DEF FInv, Types
  <2>2. loc'[User].fd = fd /\ loc'[User].n = n
    BY <1>0, <1>2 DEF FInv, Types
  <2>3. Index'
    BY <1>0, <1>2, <2>1, <2>2 DEF Index, DirTest
  <2> QED BY <2>1, <2>2, <2>3 DEF DirTest
<1> QED BY <1>1, <1>2 DEF DirTest

\* The steps inside a read of the directory, which does not fail.
LEMMA Insides ==
    ASSUME FInv, Index, Inside(User)
    PROVE  /\ FInv' /\ Index' /\ UNCHANGED <<fd_array, owner>> /\ pc[User] # "idle"
           /\ pc'[User] = "idle" => last'.ret # Fail
           /\ pc'[User] # "idle" => loc'[User].fd = loc[User].fd
<1>0. User \in Procs /\ dir_index \in 0..IndexMax /\ dir_index \in Int
    BY UserFacts, Sizing DEF FInv, Types
<1>1. FInv'
    BY <1>0, DirFetching, DirLoading, DirStoring DEF Inside
<1>2. pc \in [Procs -> {"idle", "fetch", "load", "store"}]
    BY DEF FInv, Types
<1>3. loc \in [Procs -> [fd : Int, n : Int, index : Int, len : Int]]
    BY DEF FInv, Types
<1>4. CASE DirFetch(User)
  <2> DEFINE len == Min2(Min2(StoredLen(Dentries[dir_index + 1]), FILENAME_LEN), loc[User].n)
  <2>1. pc[User] = "fetch" /\ dir_index < dir_count /\ loc[User].n >= 0 /\ loc[User].n \in Int
    BY <1>0, <1>3, <1>4 DEF DirFetch, Index
  <2>2. /\ pc' = [pc EXCEPT ![User] = "load"] /\ loc' = [loc EXCEPT ![User].len = len]
        /\ UNCHANGED <<fd_array, dir_index, owner>>
    BY <1>4, <2>1 DEF DirFetch, EntryExists
  <2>3. len \in Int /\ len >= 0
    <3>1. dir_index + 1 \in 1..Len(Dentries)
      BY <1>0, <2>1, Sizing
    <3>2. /\ Len(Dentries[dir_index + 1].name) \in Int /\ FILENAME_LEN \in Int
          /\ Len(Dentries[dir_index + 1].name) >= 0 /\ FILENAME_LEN >= 0
      BY <3>1, NameTypes
    <3>3. StoredLen(Dentries[dir_index + 1]) \in Int /\ StoredLen(Dentries[dir_index + 1]) >= 0
      BY <3>2 DEF StoredLen
    <3> QED BY <2>1, <3>2, <3>3 DEF Min2
  <2> HIDE DEF len
  <2>4. pc'[User] = "load"
    BY <1>0, <1>2, <2>2
  <2>5. loc'[User].len = len /\ loc'[User].n = loc[User].n /\ loc'[User].fd = loc[User].fd
    BY <1>0, <1>3, <2>2
  <2>6. Index'
    BY <1>0, <2>1, <2>2, <2>3, <2>4, <2>5 DEF Index
  <2> QED BY <1>1, <2>1, <2>2, <2>4, <2>5, <2>6
<1>5. CASE DirLoad(User)
  <2>1. pc[User] = "load" /\ UNCHANGED <<fd_array, dir_index, owner>>
    BY <1>5 DEF DirLoad
  <2>2. pc'[User] = "store"
    BY <1>0, <1>2, <1>5 DEF DirLoad
  <2>3. /\ loc'[User].index = dir_index /\ loc'[User].len = loc[User].len
        /\ loc'[User].n = loc[User].n /\ loc'[User].fd = loc[User].fd
    BY <1>0, <1>3, <1>5 DEF DirLoad
  <2>4. Index'
    BY <1>0, <2>1, <2>2, <2>3 DEF Index
  <2> QED BY <1>1, <2>1, <2>2, <2>3, <2>4
<1>6. CASE DirStore(User)
  <2>1. pc[User] = "store" /\ UNCHANGED <<fd_array, owner>> /\ dir_index' = loc[User].index + 1
    BY <1>6 DEF DirStore
  <2>2. pc'[User] = "idle"
    BY <1>0, <1>2, <1>6 DEF DirStore
  <2>3. last'.ret = loc[User].len
    BY <1>6 DEF DirStore, Returns, NoCall
  <2>4. loc[User].len >= 0 /\ loc[User].len \in Int /\ dir_index' = dir_index + 1 /\ dir_index < dir_count
    BY <1>0, <1>3, <2>1 DEF Index
  <2>5. Index'
    BY <1>0, <2>2, <2>4, Sizing DEF Index
  <2> QED BY <1>1, <2>1, <2>2, <2>3, <2>4, <2>5 DEF Fail
<1> QED BY <1>4, <1>5, <1>6 DEF Inside

\* Any call of the programs before.
LEMMA AnyCalls ==
    ASSUME FInv, Index, Call(User)
    PROVE  FInv' /\ Index'
<1>0. User \in Procs
    BY UserFacts
<1>1. FInv'
  <2>1. Next
    BY <1>0 DEF Next
  <2> QED BY <2>1, FilesStep
<1>2. ASSUME NEW name, Open(User, name) PROVE Index'
    BY <1>2, IndexKept DEF Open, dir_open
<1>3. ASSUME NEW name, OpenFails(User, name) PROVE Index'
    BY <1>3, IndexKept DEF OpenFails
<1>4. ASSUME NEW fd, CloseRefused(User, fd) \/ close(User, fd) PROVE Index'
    BY <1>4, IndexKept DEF CloseRefused, close
<1>5. ASSUME NEW fd, NEW n, \/ ReadRefused(User, fd, n) \/ ReadDevice(User, fd, n)
                            \/ file_read(User, fd, n) \/ write(User, fd, n)
      PROVE  Index'
  <2>1. pc[User] = "idle" /\ UNCHANGED <<pc, loc, dir_index>>
    BY <1>5 DEF ReadRefused, ReadDevice, file_read, write
  <2> QED BY <2>1, IndexKept
<1>6. ASSUME NEW fd, NEW n \in Sizes, DirTest(User, fd, n) PROVE Index'
    BY <1>6, DirTests, FilesAssumption
<1>7. CASE Restart(User)
  <2>1. pc[User] = "idle" /\ UNCHANGED <<pc, loc>> /\ dir_index' \in {dir_index, 0}
    BY <1>7 DEF Restart
  <2> QED BY <1>1, <2>1, IndexKept
<1> QED BY <1>1, <1>2, <1>3, <1>4, <1>5, <1>6, <1>7 DEF Call

-----------------------------------------------------------------------------
(* The steps of the programs.                                                *)

\* The machine starts with the invariant.
LEMMA ProgramsInit == PInit => PInv
<1> SUFFICES ASSUME PInit PROVE PInv
    OBVIOUS
<1>1. FInv
    BY FilesInit DEF PInit
<1>2. Index
    BY UserFacts, Sizing DEF PInit, Init, Index
<1>3. Copying /\ Testing /\ SyserrPasses /\ CopiesAll
    BY DEF PInit, Copying, Testing, SyserrPasses, CopiesAll
<1> QED BY <1>1, <1>2, <1>3 DEF PInv

\* The programs before do what they like.
LEMMA AnyCallKeeps == ASSUME PInv, AnyCall PROVE PInv'
<1>1. FInv' /\ Index'
    BY AnyCalls DEF PInv, AnyCall
<1>2. prog = "any" /\ UNCHANGED <<prog, file, todo, step, opens, failed, asked>>
    BY DEF AnyCall, pvars
<1>3. Copying' /\ Testing' /\ CopiesAll'
    BY <1>2 DEF PInv, Copying, Testing, CopiesAll
<1>4. SyserrPasses'
    BY <1>2 DEF PInv, SyserrPasses
<1> QED BY <1>1, <1>3, <1>4 DEF PInv

\* The steps inside a read of the directory.
LEMMA InnerKeeps == ASSUME PInv, Inner PROVE PInv'
<1>1. /\ FInv' /\ Index' /\ UNCHANGED <<fd_array, owner>> /\ pc[User] # "idle"
      /\ pc'[User] = "idle" => last'.ret # Fail
      /\ pc'[User] # "idle" => loc'[User].fd = loc[User].fd
    BY Insides DEF PInv, Inner
<1>2. UNCHANGED <<prog, file, todo, step, opens, failed, asked>>
    BY <1>1 DEF Inner
<1>3. prog # "done" /\ prog # "syserr" /\ (prog \in {"cat", "ls"} => step = 2)
    BY <1>1 DEF PInv, Copying, Testing
<1>4. Copying'
  <2>1. Copying
    BY DEF PInv
  <2>2. prog \in {"cat", "ls"} => /\ Fd(2)'.flags = 1
                                  /\ Fd(2)'.fops = "dir" => owner' = <<User, 2>>
                                  /\ pc'[User] # "idle" => loc'[User].fd = 2
    BY <1>1, <1>3, <2>1 DEF Copying, Fd
  <2> QED BY <1>2, <1>3, <2>1, <2>2 DEF Copying
<1>5. Testing' /\ CopiesAll'
    BY <1>2, <1>3 DEF Testing, CopiesAll
<1>6. SyserrPasses'
    BY <1>2 DEF PInv, SyserrPasses
<1> QED BY <1>1, <1>4, <1>5, <1>6 DEF PInv

\* There is more than one test.
LEMMA TestsAreSeveral == ASSUME NEW t PROVE 1..8 # {t}
<1> SUFFICES ASSUME 1..8 = {t} PROVE FALSE
    OBVIOUS
<1>1. 1 \in 1..8 /\ 2 \in 1..8
    OBVIOUS
<1>2. 1 \in {t} /\ 2 \in {t}
    BY <1>1
<1> QED BY <1>2

\* The tests that may be selected.
LEMMA Selected ==
    ASSUME NEW tests \in Selections
    PROVE  /\ tests \in Seq(1..8) /\ tests # <<>> /\ tests[1] \in 1..8
           /\ \/ Range(tests) = {tests[1]} /\ Len(tests) = 1
              \/ /\ Range(tests) = 1..8 /\ Len(tests) = 8 /\ \A k \in 1..8 : tests[k] = k
<1>1. CASE tests = <<1, 2, 3, 4, 5, 6, 7, 8>>
  <2>1. tests \in Seq(1..8) /\ tests # <<>> /\ tests[1] \in 1..8 /\ Len(tests) = 8
    BY <1>1
  <2>2. \A k \in 1..8 : tests[k] = k
    BY <1>1
  <2>3. Range(tests) = 1..8
    BY <2>1, <2>2 DEF Range
  <2> QED BY <2>1, <2>2, <2>3
<1>2. ASSUME NEW t \in 1..8, tests = <<t>>
      PROVE  /\ tests \in Seq(1..8) /\ tests # <<>> /\ tests[1] \in 1..8
             /\ Range(tests) = {tests[1]} /\ Len(tests) = 1
    BY <1>2 DEF Range
<1> QED BY <1>1, <1>2 DEF Selections

\* A test has a call to begin with.
LEMMA FirstCall ==
    ASSUME NEW t \in 1..8
    PROVE  Len(Tests[t]) \in Nat /\ 1 \in 1..Len(Tests[t])
<1>1. CASE t = OPEN_LOTS
    BY <1>1, LotsCalls, Sizing
<1>2. CASE t # OPEN_LOTS
  <2>1. Len(Tests[t]) \in Nat \ {0}
    BY <1>2, TestCalls
  <2> QED BY <2>1
<1> QED BY <1>1, <1>2

\* The start of a program in the slot.
LEMMA BeginKeeps ==
    ASSUME PInv, NEW what \in {"syserr", "cat", "ls"}, NEW f \in CatNames \cup {<<>>}, NEW tests,
           Begin(what, f, tests), what = "syserr" => tests \in Selections,
           what # "syserr" => tests = <<>>
    PROVE  PInv'
<1>0. User \in Procs /\ Restart(User)
    BY UserFacts DEF Begin
<1>1. FInv' /\ Closed' /\ pc'[User] = "idle"
    BY <1>0, Restarting, StartsClosed DEF PInv
<1>2. Index'
  <2>1. pc[User] = "idle" /\ UNCHANGED <<pc, loc, dir_index>>
    BY <1>0 DEF Restart
  <2> QED BY <2>1, IndexKept DEF PInv
<1>3. /\ prog' = what /\ file' = f /\ todo' = tests /\ asked' = Range(tests)
      /\ step' = 1 /\ opens' = 0 /\ failed' = {}
    BY DEF Begin
<1>4. Copying'
  <2>1. what # "syserr" => asked' = {}
    BY <1>3 DEF Range
  <2> QED BY <1>1, <1>3, <2>1 DEF Copying
<1>5. Testing'
  <2> SUFFICES ASSUME what = "syserr"
               PROVE  /\ Queue' /\ 1 \in 1..Len(Tests[tests[1]])
                      /\ IF tests[1] = OPEN_LOTS THEN Lots' ELSE Closed'
                      /\ asked' = 1..8 /\ tests[1] > OPEN_LOTS => Left'
    BY <1>1, <1>3 DEF Testing
  <2>1. /\ tests \in Seq(1..8) /\ tests # <<>> /\ tests[1] \in 1..8
        /\ \/ Range(tests) = {tests[1]} /\ Len(tests) = 1
           \/ /\ Range(tests) = 1..8 /\ Len(tests) = 8 /\ \A k \in 1..8 : tests[k] = k
    BY Selected
  <2>2. Queue'
    <3>1. CASE Range(tests) = {tests[1]} /\ Len(tests) = 1
      BY <1>3, <2>1, <3>1 DEF Queue
    <3>2. CASE Range(tests) = 1..8 /\ Len(tests) = 8 /\ \A k \in 1..8 : tests[k] = k
      <4>1. \A k \in 1..Len(tests) : tests[k] = 8 - Len(tests) + k
        BY <3>2
      <4> QED BY <1>3, <2>1, <3>2, <4>1 DEF Queue
    <3> QED BY <2>1, <3>1, <3>2
  <2>3. 1 \in 1..Len(Tests[tests[1]])
    BY <2>1, FirstCall
  <2>4. Lots'
    <3>1. \A fd \in Extra : Fd(fd)'.flags = 0 /\ ~(fd <= 1)
      BY <1>1, Sizing DEF Closed, Extra
    <3>2. 1 \in 1..(FD_N - 1)
      BY Sizing
    <3> QED BY <1>3, <3>1, <3>2 DEF Lots
  <2>5. asked' = 1..8 => tests[1] = 1
    <3>1. 1..8 # {tests[1]}
      BY TestsAreSeveral
    <3> QED BY <1>3, <2>1, <3>1
  <2> QED BY <1>1, <2>2, <2>3, <2>4, <2>5 DEF OPEN_LOTS
<1>6. SyserrPasses' /\ CopiesAll'
    BY <1>3 DEF SyserrPasses, CopiesAll
<1> QED BY <1>1, <1>2, <1>4, <1>5, <1>6 DEF PInv

\* cat and ls open their file.
LEMMA OpenFileKeeps == ASSUME PInv, OpenFile PROVE PInv'
<1>0. /\ prog \in {"cat", "ls"} /\ step = 1 /\ Opens(FileName) /\ Copying /\ FInv /\ Index
      /\ UNCHANGED <<file, todo, opens, failed, asked>>
    BY DEF OpenFile, PInv
<1>1. /\ pc[User] = "idle" /\ Closed /\ asked = {} /\ todo = <<>> /\ User \in Procs
      /\ Table(fd_array)
    BY <1>0, UserFacts DEF Copying, FInv, Types
<1>2. FileName \in Seq(Nat \ {0})
    BY <1>0, UserFacts DEF FileName, Copying
<1>3. FInv'
    BY <1>0, <1>1, <1>2, OpenFailing, Opening DEF Opens
<1>4. 2 \in Extra /\ 2 \in FDs
    BY Sizing DEF Extra
<1>5. FreeFrom(2)
    BY <1>1 DEF FreeFrom, Closed, Extra
<1>6. CASE last'.ret = Fail /\ Idle
  <2>1. prog' = "done" /\ pc'[User] = "idle" /\ Fd(2)'.flags = 0
    BY <1>0, <1>1, <1>4, <1>6 DEF OpenFile, Idle, Closed, Fd
  <2>2. Copying' /\ Testing' /\ CopiesAll'
    BY <1>0, <2>1 DEF Copying, Testing, CopiesAll, Fd
  <2>3. SyserrPasses'
    BY <1>0, <1>1 DEF PInv, SyserrPasses
  <2>4. Index'
    BY <1>0, <1>1, <1>6, IndexKept DEF Idle
  <2> QED BY <1>3, <2>2, <2>3, <2>4 DEF PInv
<1>7. CASE /\ last'.ret = 2 /\ Fd(2)'.flags = 1
           /\ Fd(2)'.fops = "dir" => dir_index' = 0 /\ owner' = <<User, 2>>
           /\ Fd(2)'.fops # "dir" => UNCHANGED <<dir_index, owner>>
           /\ UNCHANGED <<pc, loc>>
  <2>1. step' = 2 /\ prog' = prog
    BY <1>7 DEF OpenFile, Fail
  <2>2. Copying' /\ Testing' /\ CopiesAll'
    BY <1>0, <1>1, <1>7, <2>1 DEF Copying, Testing, CopiesAll
  <2>3. SyserrPasses'
    BY <1>0, <1>1 DEF PInv, SyserrPasses
  <2>4. Index'
    <3>1. dir_index' \in {dir_index, 0}
      BY <1>7
    <3> QED BY <1>0, <1>1, <1>7, <3>1, IndexKept
  <2> QED BY <1>3, <2>2, <2>3, <2>4 DEF PInv
<1> QED BY <1>0, <1>1, <1>4, <1>5, <1>6, <1>7, OpensNext

\* A read of a file that brings nothing has reached its end.
LEMMA ReadsToEnd ==
    ASSUME FInv, NEW fd \in FDs, NEW n \in Nat, n > 0, file_read(User, fd, n), last'.ret \in {0, Fail}
    PROVE  got'[User][fd] = Content(Fd(fd)'.inode)
<1> DEFINE f == fd_array[User][fd]
           r == read_data(f.inode, f.file_pos, n)
           len == Inodes[f.inode + 1].length
           h == fd_array'[User][fd]
<1>0. User \in Procs /\ f.flags = 1 /\ f.fops = "file" /\ n \in Int
  <2>1. Readable(User, fd, n) /\ f.fops = "file"
    BY DEF file_read
  <2> QED BY <2>1, UserFacts DEF Readable
<1>1. /\ f \in FdRecords /\ f.inode \in Nat /\ f.inode < Len(Inodes) /\ f.file_pos \in Nat
      /\ f.file_pos <= len
    BY <1>0 DEF FInv, Cells, Cell, FdRecords
<1>2. len \in Nat
    BY <1>1, FileLength
<1>3. last'.ret = r.ret
    BY DEF file_read, Returns, NoCall
<1>4. r.ret = (IF f.file_pos >= len THEN 0 ELSE IF len - f.file_pos < n THEN len - f.file_pos ELSE n)
  <2>1. ~(f.inode >= Len(Inodes))
    BY <1>1, ImageTypes
  <2> QED BY <2>1 DEF read_data
<1> HIDE DEF r
<1>5. r.ret = 0 /\ f.file_pos = len
  <2> HIDE DEF f, len
  <2> QED BY <1>1, <1>2, <1>3, <1>4 DEF Fail
<1>6. h.flags = 1 /\ h.fops = "file" /\ h.inode = f.inode /\ h.file_pos = len
  <2>1. fd_array' = [fd_array EXCEPT ![User][fd] = [f EXCEPT !.file_pos = f.file_pos + r.ret]]
    BY DEF file_read, r
  <2>2. Table(fd_array)
    BY DEF FInv, Types
  <2>3. h = [f EXCEPT !.file_pos = f.file_pos + r.ret]
    BY <1>0, <2>1, <2>2 DEF Table
  <2>4. f.file_pos + r.ret = len
    BY <1>1, <1>5
  <2> HIDE DEF f, len, h
  <2> QED BY <1>0, <1>1, <2>3, <2>4 DEF FdRecords
<1>7. FInv'
    BY <1>0, FileReading
<1>8. got'[User][fd] = SubSeq(Content(f.inode), 1, len)
  <2>1. Cell(h, got'[User][fd])
    BY <1>0, <1>7 DEF FInv, Cells
  <2> HIDE DEF h, f, len
  <2> QED BY <1>6, <2>1 DEF Cell
<1>9. Content(f.inode) \in Seq(STRING) /\ Len(Content(f.inode)) = len
    BY <1>1, ContentAt
<1>10. SubSeq(Content(f.inode), 1, len) = Content(f.inode)
  <2> HIDE DEF f, len
  <2> QED BY <1>2, <1>9
<1> QED BY <1>6, <1>8, <1>10 DEF Fd

\* cat and ls read on.
LEMMA CopyChunkKeeps == ASSUME PInv, CopyChunk PROVE PInv'
<1> DEFINE n == BUFLEN
<1>0. /\ prog \in {"cat", "ls"} /\ step = 2 /\ Reads(2, n) /\ Copying /\ FInv /\ Index
      /\ UNCHANGED <<file, todo, step, opens, failed, asked>>
      /\ prog' = IF pc'[User] = "idle" /\ last'.ret \in {0, Fail} THEN "done" ELSE prog
    BY DEF CopyChunk, PInv
<1>1. /\ asked = {} /\ todo = <<>> /\ Fd(2).flags = 1
      /\ Fd(2).fops = "dir" => owner = <<User, 2>>
    BY <1>0 DEF Copying
<1>2. User \in Procs /\ n \in Nat /\ n > 0 /\ n \in Int /\ n >= 0 /\ 2 \in FDs /\ 2 # FD_STDOUT
    BY UserFacts, Sizing DEF FD_STDOUT
<1> HIDE DEF n
<1>3. Readable(User, 2, n)
    BY <1>1, <1>2 DEF Readable, Fd
<1>4. SyserrPasses' /\ Testing'
    BY <1>0, <1>1 DEF PInv, SyserrPasses, Testing
<1>5. CASE ReadDevice(User, 2, n)
  <2>1. pc[User] = "idle" /\ Idle /\ Fd(2).fops \in {"term", "rtc"}
    BY <1>5 DEF ReadDevice, Idle, Fd
  <2>2. FInv'
    <3>1. OpenExact'
      BY <1>5, NotOpen DEF ReadDevice
    <3> QED BY <1>0, <2>1, <3>1, Quiet DEF FInv, Idle
  <2>3. Index'
    BY <1>0, <2>1, IndexKept DEF Idle
  <2>4. Fd(2)' = Fd(2) /\ pc'[User] = "idle" /\ owner' = owner
    BY <2>1 DEF Fd, Idle
  <2>5. Copying'
    BY <1>0, <1>1, <2>4 DEF Copying
  <2>6. CopiesAll'
    BY <2>1, <2>4 DEF CopiesAll, Fd
  <2> QED BY <1>4, <2>2, <2>3, <2>5, <2>6 DEF PInv
<1>6. CASE file_read(User, 2, n)
  <2>1. pc[User] = "idle" /\ UNCHANGED <<dir_index, pc, loc, owner>>
    BY <1>6 DEF file_read
  <2>2. FInv'
    BY <1>0, <1>2, <1>6, FileReading
  <2>3. Index'
    BY <1>0, <2>1, IndexKept
  <2>4. Fd(2)'.flags = 1 /\ Fd(2)'.fops = "file"
    <3> DEFINE f == fd_array[User][2]
               m == f.file_pos + read_data(f.inode, f.file_pos, n).ret
    <3>1. f \in FdRecords /\ f.flags = 1 /\ f.fops = "file" /\ Table(fd_array)
      BY <1>0, <1>1, <1>2, <1>6 DEF FInv, Cells, Cell, Types, file_read, Fd
    <3>2. fd_array' = [fd_array EXCEPT ![User][2] = [f EXCEPT !.file_pos = m]]
      BY <1>6 DEF file_read
    <3> HIDE DEF m
    <3>3. fd_array'[User][2] = [f EXCEPT !.file_pos = m]
      BY <1>2, <3>1, <3>2 DEF Table
    <3> HIDE DEF f
    <3> QED BY <3>1, <3>3 DEF FdRecords, Fd
  <2>5. Copying'
    BY <1>0, <1>1, <2>1, <2>4 DEF Copying
  <2>6. CopiesAll'
    <3> SUFFICES ASSUME prog' = "done"
                 PROVE  got'[User][2] = Content(Fd(2)'.inode)
      BY <2>4 DEF CopiesAll, Fd
    <3>1. last'.ret \in {0, Fail}
      BY <1>0
    <3> QED BY <1>0, <1>2, <1>6, <3>1, ReadsToEnd
  <2> QED BY <1>4, <2>2, <2>3, <2>5, <2>6 DEF PInv
<1>7. CASE DirTest(User, 2, n)
  <2>1. pc[User] = "idle" /\ Fd(2).fops = "dir"
    BY <1>7 DEF DirTest, Fd
  <2>2. FInv'
    BY <1>0, <1>2, <1>7, DirTesting
  <2>3. /\ Index' /\ UNCHANGED <<fd_array, dir_index, got, owner, mixed>>
        /\ \/ /\ dir_index = dir_count /\ last'.ret = 0 /\ UNCHANGED pc
           \/ pc'[User] = "fetch" /\ loc'[User].fd = 2
    BY <1>0, <1>2, <1>7, DirTests
  <2>4. Fd(2)' = Fd(2)
    BY <2>3 DEF Fd
  <2>5. Copying'
    <3>1. prog' = "done" => pc'[User] = "idle"
      BY <1>0
    <3>2. pc'[User] # "idle" => loc'[User].fd = 2
      BY <2>1, <2>3
    <3> QED BY <1>0, <1>1, <2>3, <2>4, <3>1, <3>2 DEF Copying
  <2>6. CopiesAll'
    <3> SUFFICES ASSUME prog' = "done", ~mixed'
                 PROVE  got'[User][2] = [i \in 1..dir_count |-> i]
      BY <2>1, <2>4 DEF CopiesAll, Fd
    <3>1. dir_index = dir_count
      BY <1>0, <2>3
    <3>2. Lists(User, 2)
      BY <1>1, <2>1, <2>3 DEF Lists, Fd
    <3>3. InStep(User, 2) /\ ~Reading(User, 2)
      BY <1>0, <1>2, <2>1, <3>2 DEF FInv, AllInStep, Reading
    <3> QED BY <2>3, <3>1, <3>3 DEF InStep
  <2> QED BY <1>4, <2>2, <2>3, <2>5, <2>6 DEF PInv
<1> QED BY <1>0, <1>3, <1>5, <1>6, <1>7 DEF Reads, ReadRefused

\* The tests that are left.
LEMMA Queued ==
    ASSUME Queue
    PROVE  /\ Head(todo) = todo[1] /\ todo[1] \in 1..8 /\ Len(todo) \in Nat /\ Len(todo) >= 1
           /\ Len(todo) = 1 => Tail(todo) = <<>>
           /\ asked = {todo[1]} \/ asked = 1..8
<1>1. todo \in Seq(1..8) /\ todo # <<>>
    BY DEF Queue
<1>2. Len(todo) \in Nat /\ Len(todo) >= 1
    BY <1>1
<1>3. Head(todo) = todo[1] /\ todo[1] \in 1..8
    BY <1>1, <1>2
<1>4. Len(todo) = 1 => Tail(todo) = <<>>
  <2>1. Tail(todo) \in Seq(1..8) /\ Len(Tail(todo)) = Len(todo) - 1
    BY <1>1, <1>2
  <2>2. Tail(todo) # <<>> => Len(Tail(todo)) \in Nat \ {0}
    BY <2>1, EmptySeq
  <2> QED BY <2>1, <2>2
<1>5. asked = {todo[1]} \/ asked = 1..8
    BY DEF Queue
<1> QED BY <1>2, <1>3, <1>4, <1>5

\* When there is a next test all were selected, and it is the next number.
LEMMA QueueMoves ==
    ASSUME Queue, Len(todo) # 1, todo' = Tail(todo), asked' = asked
    PROVE  /\ Queue' /\ asked = 1..8 /\ todo[1] < 8 /\ todo'[1] = todo[1] + 1
<1> DEFINE n == Len(todo)
<1>1. todo \in Seq(1..8) /\ n \in Nat /\ n > 1
  <2>1. todo \in Seq(1..8)
    BY DEF Queue
  <2>2. n \in Nat /\ n >= 1 /\ n # 1
    BY Queued
  <2> HIDE DEF n
  <2>3. n > 1
    BY <2>2
  <2> QED BY <2>1, <2>2, <2>3
<1>2. asked = 1..8 /\ n <= 8 /\ \A k \in 1..n : todo[k] = 8 - n + k
    BY DEF Queue
<1>3. todo' \in Seq(1..8) /\ Len(todo') = n - 1 /\ \A k \in 1..(n - 1) : todo'[k] = todo[k + 1]
    BY <1>1
<1> HIDE DEF n
<1>4. \A k \in 1..(n - 1) : todo'[k] = 8 - (n - 1) + k
    BY <1>1, <1>2, <1>3
<1>5. todo' # <<>>
  <2>1. Len(todo') > 0 /\ Len(<<>>) = 0
    BY <1>1, <1>3
  <2> QED BY <2>1
<1>6. Queue'
    BY <1>1, <1>2, <1>3, <1>4, <1>5 DEF Queue
<1>7. todo[1] = 8 - n + 1 /\ todo'[1] = 8 - (n - 1) + 1
  <2>1. 1 \in 1..n /\ 1 \in 1..(n - 1)
    BY <1>1
  <2> QED BY <1>2, <1>4, <2>1
<1>8. todo[1] < 8 /\ todo'[1] = todo[1] + 1
  <2>1. n \in Nat /\ n > 1
    BY <1>1
  <2>2. \A a, b : a = 8 - n + 1 /\ b = 8 - (n - 1) + 1 => a < 8 /\ b = a + 1
    BY <2>1
  <2> QED BY <1>7, <2>2
<1> QED BY <1>2, <1>6, <1>8

\* What a call of a test does to the tests themselves.
Moves ==
    /\ prog = "syserr" /\ Queue /\ pc'[User] = "idle" /\ UNCHANGED <<file, asked>>
    /\ LET over == step = Len(Tests[todo[1]]) IN
       /\ step' = IF over THEN 1 ELSE step + 1
       /\ todo' = IF over THEN Tail(todo) ELSE todo
       /\ prog' = IF last'.ret = Killed \/ (over /\ Len(todo) = 1) THEN "done" ELSE prog

\* A call of a test other than err_open_lots.
LEMMA TestCallKeeps ==
    ASSUME PInv, SyserrCall, Moves, todo[1] # OPEN_LOTS
    PROVE  PInv'
<1> DEFINE t == todo[1]
           c == Tests[t][step]
<1>0. /\ prog = "syserr" /\ Testing /\ FInv /\ Index /\ Copying /\ SyserrPasses
      /\ UNCHANGED <<file, asked>>
    BY DEF PInv, Moves
<1>1. /\ Queue /\ step \in 1..Len(Tests[t]) /\ Closed /\ (t < OPEN_LOTS => opens = 0)
      /\ asked = 1..8 /\ t > OPEN_LOTS => Left
    BY <1>0 DEF Testing
<1>2. t \in 1..8 /\ Head(todo) = t /\ (asked = {t} \/ asked = 1..8) /\ Len(todo) \in Nat /\ Len(todo) >= 1
    BY <1>1, Queued
<1>3. Fruitless(t, c)
    BY <1>1, <1>2, TestCalls
<1>4. Makes(c) /\ Verdict(t, last'.ret)
    BY <1>2 DEF SyserrCall
<1> HIDE DEF c
<1>5. Idle /\ (t # UNOPENED \/ Left => last'.ret = Fail)
    BY <1>1, <1>2, <1>3, <1>4, Refuses
<1>6. c.call = "open" => c.arg \in Seq(Nat \ {0})
    BY <1>3, UserFacts DEF Fruitless
<1>7. FInv'
    BY <1>0, <1>4, <1>6, TestKeeps
<1>8. Index'
  <2>1. pc[User] = "idle"
    BY <1>0 DEF Testing
  <2> QED BY <1>0, <1>5, <2>1, IndexKept DEF Idle
<1>9. /\ failed' = IF last'.ret # Fail THEN failed \cup {t} ELSE failed
      /\ opens' = opens
    BY <1>4 DEF Verdict
<1>10. last'.ret # Fail => t = UNOPENED /\ asked = {UNOPENED}
    BY <1>1, <1>2, <1>5 DEF UNOPENED, OPEN_LOTS
<1>11. SyserrPasses'
  <2>1. failed' \subseteq (IF OPEN_LOTS \in asked' THEN {} ELSE {UNOPENED})
    <3>1. CASE last'.ret = Fail
      BY <1>0, <1>9, <3>1 DEF SyserrPasses
    <3>2. CASE last'.ret # Fail
      <4>1. OPEN_LOTS \notin asked /\ failed \subseteq {UNOPENED}
        BY <1>0, <1>10, <3>2 DEF SyserrPasses, OPEN_LOTS, UNOPENED
      <4> QED BY <1>0, <1>9, <1>10, <3>2, <4>1
    <3> QED BY <3>1, <3>2
  <2>2. prog' = "done" /\ todo' # <<>> => asked' = {UNOPENED}
    <3>1. last'.ret = Killed => asked = {UNOPENED}
      BY <1>10 DEF Killed, Fail
    <3> QED BY <1>0, <1>1, <3>1, Queued DEF Moves
  <2> QED BY <2>1, <2>2 DEF SyserrPasses
<1>12. Copying' /\ CopiesAll'
  <2>1. asked' # {} /\ prog' \in {"syserr", "done"} /\ pc'[User] = "idle"
    <3>1. 1 \in 1..8
      OBVIOUS
    <3> QED BY <1>0, <1>2, <3>1 DEF Moves
  <2> QED BY <1>0, <2>1 DEF Copying, CopiesAll
<1>13. Testing'
  <2> SUFFICES ASSUME prog' = "syserr" PROVE Testing'
    BY DEF Testing
  <2>1. Closed' /\ (Left => Left') /\ pc'[User] = "idle"
    BY <1>1, <1>5 DEF Idle, Closed, Left, Fd, Moves
  <2>2. CASE step # Len(Tests[t])
    <3>1. step' = step + 1 /\ todo' = todo
      BY <2>2 DEF Moves
    <3>2. step + 1 \in 1..Len(Tests[t])
      <4>1. Len(Tests[t]) \in Nat
        BY <1>2, FirstCall
      <4> QED BY <1>1, <2>2, <4>1
    <3>3. Queue'
      BY <1>0, <1>1, <3>1 DEF Queue
    <3> QED BY <1>0, <1>1, <1>9, <2>1, <3>1, <3>2, <3>3 DEF Testing
  <2>3. CASE step = Len(Tests[t])
    <3>1. step' = 1 /\ todo' = Tail(todo) /\ Len(todo) # 1
      BY <2>3 DEF Moves
    <3>2. Queue' /\ asked = 1..8 /\ t < 8 /\ todo'[1] = t + 1
      BY <1>0, <1>1, <3>1, QueueMoves
    <3> HIDE DEF t
    <3>3. 1 \in 1..Len(Tests[t + 1])
      <4>1. t + 1 \in 1..8
        BY <1>2, <3>2
      <4> QED BY <4>1, FirstCall
    <3>4. t + 1 < OPEN_LOTS => opens' = 0
      BY <1>1, <1>2, <1>9 DEF OPEN_LOTS
    <3>5. t + 1 = OPEN_LOTS => Lots'
      <4> SUFFICES ASSUME t + 1 = OPEN_LOTS PROVE Lots'
        OBVIOUS
      <4>1. opens' = 0
        BY <1>1, <1>2, <1>9 DEF OPEN_LOTS
      <4>2. \A fd \in Extra : Fd(fd)'.flags = 0 /\ ~(fd <= 1)
        BY <2>1, Sizing DEF Closed, Extra
      <4>3. 1 \in 1..(FD_N - 1)
        BY Sizing
      <4> QED BY <3>1, <4>1, <4>2, <4>3 DEF Lots
    <3>6. t + 1 > OPEN_LOTS => Left'
      <4>1. t + 1 > OPEN_LOTS => t > OPEN_LOTS
        BY <1>2 DEF OPEN_LOTS, t
      <4> QED BY <1>1, <2>1, <3>2, <4>1
    <3> QED BY <2>1, <3>1, <3>2, <3>3, <3>4, <3>5, <3>6 DEF Testing
  <2> QED BY <2>2, <2>3
<1> QED BY <1>7, <1>8, <1>11, <1>12, <1>13 DEF PInv

\* A call of err_open_lots that leaves it with the descriptors Lots names, or
\* ends it with all closed again.
LEMMA LotsGoesOn ==
    ASSUME PInv, Moves, todo[1] = OPEN_LOTS, FInv', Index',
           last'.ret # Killed, failed' = failed,
           step # Len(Tests[OPEN_LOTS]) => Lots',
           step = Len(Tests[OPEN_LOTS]) => Closed' /\ Left'
    PROVE  PInv'
<1> DEFINE over == step = Len(Tests[OPEN_LOTS])
<1>0. /\ prog = "syserr" /\ Queue /\ Copying /\ SyserrPasses /\ Testing
      /\ UNCHANGED <<file, asked>> /\ pc'[User] = "idle"
    BY DEF PInv, Moves
<1>1. step \in 1..Len(Tests[OPEN_LOTS]) /\ Len(Tests[OPEN_LOTS]) \in Nat
  <2>1. step \in 1..Len(Tests[OPEN_LOTS])
    BY <1>0 DEF Testing
  <2>2. OPEN_LOTS \in 1..8
    BY DEF OPEN_LOTS
  <2> QED BY <2>1, <2>2, FirstCall
<1>2. /\ step' = IF over THEN 1 ELSE step + 1
      /\ todo' = IF over THEN Tail(todo) ELSE todo
      /\ prog' = IF over /\ Len(todo) = 1 THEN "done" ELSE prog
    BY DEF Moves
<1>3. SyserrPasses'
    BY <1>0, <1>2, Queued DEF SyserrPasses
<1>4. Copying' /\ CopiesAll'
  <2>1. asked' # {} /\ prog' \in {"syserr", "done"}
    <3>1. 1 \in 1..8
      OBVIOUS
    <3> QED BY <1>0, <1>2, <3>1, Queued
  <2> QED BY <1>0, <2>1 DEF Copying, CopiesAll
<1>5. Testing'
  <2> SUFFICES ASSUME prog' = "syserr" PROVE Testing'
    BY DEF Testing
  <2>1. CASE ~over
    <3>1. step' = step + 1 /\ todo' = todo /\ Lots'
      BY <1>2, <2>1
    <3>2. step + 1 \in 1..Len(Tests[OPEN_LOTS])
      BY <1>1, <2>1
    <3>3. Queue'
      BY <1>0, <3>1 DEF Queue
    <3> QED BY <1>0, <3>1, <3>2, <3>3 DEF Testing, OPEN_LOTS
  <2>2. CASE over
    <3>1. step' = 1 /\ todo' = Tail(todo) /\ Len(todo) # 1 /\ Closed' /\ Left'
      BY <1>0, <1>2, <2>2
    <3>2. Queue' /\ todo'[1] = OPEN_LOTS + 1
      BY <1>0, <3>1, QueueMoves
    <3>3. 1 \in 1..Len(Tests[OPEN_LOTS + 1])
      <4>1. OPEN_LOTS + 1 \in 1..8
        BY DEF OPEN_LOTS
      <4> QED BY <4>1, FirstCall
    <3>4. OPEN_LOTS + 1 # OPEN_LOTS /\ ~(OPEN_LOTS + 1 < OPEN_LOTS)
      BY DEF OPEN_LOTS
    <3> QED BY <1>0, <3>1, <3>2, <3>3, <3>4 DEF Testing
  <2> QED BY <2>1, <2>2
<1> QED BY <1>3, <1>4, <1>5 DEF PInv

\* A call of err_open_lots: the opens take the descriptors in turn and the last
\* one fails, and the closes find them all.
LEMMA LotsCallKeeps ==
    ASSUME PInv, SyserrCall, Moves, todo[1] = OPEN_LOTS
    PROVE  PInv'
<1> DEFINE c == Tests[OPEN_LOTS][step]
<1>0. /\ prog = "syserr" /\ Testing /\ FInv /\ Index /\ SyserrPasses /\ Queue
      /\ pc[User] = "idle" /\ Lots /\ Table(fd_array) /\ User \in Procs
    BY UserFacts DEF PInv, Moves, Testing, FInv, Types
<1>1. /\ FD_N \in Nat /\ FD_N > 2 /\ Len(Tests[OPEN_LOTS]) = 2 * FD_N - 3
      /\ Extra = 2..(FD_N - 1) /\ FDs = 0..(FD_N - 1)
    BY Sizing, LotsCalls DEF Extra
<1>2. Makes(c) /\ Verdict(OPEN_LOTS, last'.ret)
    BY <1>0, Queued DEF SyserrCall
<1>3. /\ opens' = IF c.call = "open" /\ last'.ret = Fail THEN opens + 1 ELSE opens
      /\ step # 2 * FD_N - 3 \/ opens' = 1 => failed' = failed
    BY <1>1, <1>2 DEF Verdict
<1>4. step' = IF step = 2 * FD_N - 3 THEN 1 ELSE step + 1
    BY <1>1 DEF Moves
<1>5. CASE /\ step \in 1..(FD_N - 1) /\ opens = 0
           /\ \A fd \in Extra : /\ Fd(fd).flags = (IF fd <= step THEN 1 ELSE 0)
                                /\ fd <= step => Fd(fd).fops = "dir"
  <2>1. c.call = "open" /\ c.arg = DirName
    BY <1>5, LotsCalls DEF C
  <2> HIDE DEF c
  <2>2. Opens(DirName) /\ DirName \in Seq(Nat \ {0})
    BY <1>2, <2>1, UserFacts DEF Makes
  <2>3. FInv'
    BY <1>0, <1>2, <2>1, <2>2, TestKeeps
  <2>4. step # 2 * FD_N - 3 /\ step' = step + 1 /\ failed' = failed
    BY <1>1, <1>3, <1>4, <1>5
  <2>5. CASE step < FD_N - 1
    <3>k. PICK k \in Extra : k = step + 1
      BY <1>1, <1>5, <2>5
    <3>1. k \in Extra /\ k \in Int /\ k > 0
      BY <1>1
    <3>2. FreeFrom(k)
      BY <1>1, <1>5, <3>k DEF FreeFrom
    <3>3. /\ last'.ret = k
          /\ \A fd \in FDs : fd # k => Fd(fd)' = Fd(fd)
          /\ Fd(k)'.flags = 1 /\ Fd(k)'.fops = "dir"
          /\ dir_index' = 0 /\ UNCHANGED <<pc, loc>>
      <4>1. /\ read_dentry_by_name(DirName) # 0
            /\ Dentries[read_dentry_by_name(DirName)].type = "dir"
        <5>1. Len(Dentries) \in Nat
          BY NameTypes
        <5> QED BY <5>1, Lookups
      <4> QED BY <1>0, <2>2, <3>1, <3>2, <4>1, OpensNext
    <3>4. last'.ret # Killed /\ last'.ret # Fail
      BY <3>1, <3>3 DEF Killed, Fail
    <3>5. Index'
      BY <1>0, <3>3, IndexKept
    <3>6. Lots'
      <4>1. step' \in 1..(FD_N - 1) /\ opens' = 0 /\ step' = k
        BY <1>1, <1>3, <1>5, <2>4, <2>5, <3>k, <3>4
      <4>2. \A fd \in Extra : /\ Fd(fd)'.flags = (IF fd <= k THEN 1 ELSE 0)
                              /\ fd <= k => Fd(fd)'.fops = "dir"
        <5> SUFFICES ASSUME NEW fd \in Extra
                     PROVE  /\ Fd(fd)'.flags = (IF fd <= k THEN 1 ELSE 0)
                            /\ fd <= k => Fd(fd)'.fops = "dir"
          OBVIOUS
        <5>1. CASE fd = k
          BY <1>1, <3>3, <5>1
        <5>2. CASE fd # k
          <6>1. fd <= k <=> fd <= step
            BY <1>1, <1>5, <3>k, <5>2
          <6>2. Fd(fd)' = Fd(fd)
            BY <1>1, <3>3, <5>2
          <6> QED BY <1>5, <6>1, <6>2
        <5> QED BY <5>1, <5>2
      <4> QED BY <4>1, <4>2 DEF Lots
    <3> QED BY <1>1, <2>3, <2>4, <3>4, <3>5, <3>6, LotsGoesOn
  <2>6. CASE ~(step < FD_N - 1)
    <3>1. step = FD_N - 1 /\ \A fd \in Extra : fd <= step
      BY <1>1, <1>5, <2>6
    <3>2. Slots(User) = {}
      <4>1. \A fd \in Extra : Fd(fd).flags = 1
        BY <1>5, <3>1
      <4> QED BY <1>1, <4>1 DEF Slots, Fd
    <3>3. OpenFails(User, DirName)
      BY <2>2, <3>2 DEF Opens, Open
    <3>4. Idle /\ last'.ret = Fail /\ last'.ret # Killed
      BY <3>3 DEF OpenFails, ReturnsOpen, NoCall, Idle, Fail, Killed
    <3>5. Index'
      BY <1>0, <3>4, IndexKept DEF Idle
    <3>6. Lots'
      <4>1. step' \in FD_N..(2 * FD_N - 3) /\ opens' = 1 /\ step' - FD_N + 2 = 2
        BY <1>1, <1>3, <1>5, <2>1, <2>4, <3>1, <3>4
      <4>2. Left' /\ \A fd \in Extra : Fd(fd)'.flags = 1 /\ fd >= 2
        BY <1>1, <1>5, <3>1, <3>4 DEF Idle, Left, Fd
      <4> QED BY <4>1, <4>2 DEF Lots
    <3> QED BY <1>1, <2>3, <2>4, <3>4, <3>5, <3>6, LotsGoesOn
  <2> QED BY <2>5, <2>6
<1>6. CASE /\ step \in FD_N..(2 * FD_N - 3) /\ opens = 1 /\ Left
           /\ \A fd \in Extra : Fd(fd).flags = (IF fd >= step - FD_N + 2 THEN 1 ELSE 0)
  <2>k. PICK k \in Extra : k = step - FD_N + 2
    BY <1>1, <1>6
  <2>1. c.call = "close" /\ c.arg = k
    <3>1. c = C("close", step - FD_N + 2)
      BY <1>6, LotsCalls
    <3> HIDE DEF c
    <3> QED BY <2>k, <3>1 DEF C
  <2> HIDE DEF c
  <2>2. k \in Int
    BY <1>1
  <2>4. \A fd \in Extra : Fd(fd).flags = (IF fd >= k THEN 1 ELSE 0)
    BY <1>6, <2>k
  <2>3. Fd(k).flags = 1
    BY <2>2, <2>4
  <2>5. Closes(k)
    BY <1>2, <2>1 DEF Makes
  <2>6. FInv'
    BY <1>0, <1>2, <2>1, TestKeeps
  <2>7. /\ last'.ret = 0 /\ UNCHANGED <<dir_index, pc, loc, owner>>
        /\ \A fd \in FDs : fd # k => Fd(fd)' = Fd(fd)
        /\ Fd(k)'.flags = 0 /\ Fd(k)'.fops = Fd(k).fops
    BY <1>0, <2>2, <2>3, <2>5, ClosesOne
  <2>8. Index' /\ last'.ret # Killed
    <3>1. Index'
      BY <1>0, <2>7, IndexKept
    <3> QED BY <2>7, <3>1 DEF Killed
  <2>9. opens' = 1 /\ failed' = failed
    BY <1>3, <1>6, <2>1
  <2>10. Left'
    <3>1. \A fd \in Extra : Fd(fd)'.fops = Fd(fd).fops
      BY <1>1, <2>7
    <3> QED BY <1>6, <3>1 DEF Left
  <2>11. \A fd \in Extra : Fd(fd)'.flags = (IF fd >= k + 1 THEN 1 ELSE 0)
    <3> SUFFICES ASSUME NEW fd \in Extra PROVE Fd(fd)'.flags = (IF fd >= k + 1 THEN 1 ELSE 0)
      OBVIOUS
    <3>1. CASE fd = k
      BY <2>2, <2>7, <3>1
    <3>2. CASE fd # k
      <4>1. fd >= k + 1 <=> fd >= k
        BY <1>1, <2>2, <3>2
      <4>2. Fd(fd)' = Fd(fd)
        BY <1>1, <2>7, <3>2
      <4> QED BY <2>4, <4>1, <4>2
    <3> QED BY <3>1, <3>2
  <2>12. step # 2 * FD_N - 3 => Lots'
    <3> SUFFICES ASSUME step # 2 * FD_N - 3 PROVE Lots'
      OBVIOUS
    <3>1. step' \in FD_N..(2 * FD_N - 3) /\ step' - FD_N + 2 = k + 1
      BY <1>1, <1>4, <1>6, <2>k
    <3> QED BY <2>9, <2>10, <2>11, <3>1 DEF Lots
  <2>13. step = 2 * FD_N - 3 => Closed'
    <3> SUFFICES ASSUME step = 2 * FD_N - 3 PROVE Closed'
      OBVIOUS
    <3>1. \A fd \in Extra : ~(fd >= k + 1)
      BY <1>1, <2>k
    <3> QED BY <2>11, <3>1 DEF Closed
  <2> QED BY <1>1, <2>6, <2>8, <2>9, <2>10, <2>12, <2>13, LotsGoesOn
<1> QED BY <1>0, <1>5, <1>6 DEF Lots

\* A call of ece391syserr.
LEMMA SyserrKeeps == ASSUME PInv, SyserrCall PROVE PInv'
<1>0. prog = "syserr" /\ Queue /\ Testing /\ pc[User] = "idle"
    BY DEF SyserrCall, PInv, Testing
<1>1. Head(todo) = todo[1] /\ todo[1] \in 1..8
    BY <1>0, Queued
<1>2. pc'[User] = "idle"
  <2> DEFINE c == Tests[todo[1]][step]
  <2>1. Makes(c)
    BY <1>1 DEF SyserrCall
  <2>2. CASE todo[1] = OPEN_LOTS
    <3>1. step \in 1..(FD_N - 1) \/ step \in FD_N..(2 * FD_N - 3)
      BY <1>0, <2>2 DEF Testing, Lots
    <3>2. c = C("open", DirName) \/ c = C("close", step - FD_N + 2)
      BY <2>2, <3>1, LotsCalls
    <3> HIDE DEF c
    <3>3. c.call \in {"open", "close"}
      BY <3>2 DEF C
    <3> QED BY <1>0, <2>1, <3>3
            DEF Makes, Opens, Open, OpenFails, Closes, CloseRefused, close
  <2>3. CASE todo[1] # OPEN_LOTS
    <3>1. Closed /\ step \in 1..Len(Tests[todo[1]])
      BY <1>0, <2>3 DEF Testing
    <3>2. Fruitless(todo[1], c)
      BY <1>1, <2>3, <3>1, TestCalls
    <3> HIDE DEF c
    <3>3. Idle
      BY <1>1, <2>1, <3>1, <3>2, Refuses
    <3> QED BY <1>0, <3>3 DEF Idle
  <2> QED BY <2>2, <2>3
<1>3. Moves
    BY <1>0, <1>1, <1>2 DEF SyserrCall, Moves
<1> QED BY <1>3, LotsCallKeeps, TestCallKeeps

\* Every step keeps the invariant.
LEMMA ProgramsStep == PInv /\ [PNext]_allvars => PInv'
<1> SUFFICES ASSUME PInv, [PNext]_allvars PROVE PInv'
    OBVIOUS
<1>1. CASE UNCHANGED allvars
  <2>1. /\ UNCHANGED vars
        /\ UNCHANGED <<prog, file, todo, step, opens, failed, asked>>
    BY <1>1 DEF allvars, pvars
  <2>2. FInv'
    BY <2>1, FilesStep DEF PInv
  <2>3. Index'
    BY <2>1 DEF PInv, Index, vars
  <2>4. Copying'
    BY <2>1 DEF PInv, Copying, Closed, Fd, vars
  <2>5. Testing'
    <3>1. Queue' <=> Queue
      BY <2>1 DEF Queue
    <3>2. /\ Lots' <=> Lots
          /\ Closed' <=> Closed
          /\ Left' <=> Left
      BY <2>1 DEF Lots, Closed, Left, Fd, vars
    <3> QED BY <2>1, <3>1, <3>2 DEF PInv, Testing, vars
  <2>6. SyserrPasses' /\ CopiesAll'
    BY <2>1 DEF PInv, SyserrPasses, CopiesAll, vars
  <2> QED BY <2>2, <2>3, <2>4, <2>5, <2>6 DEF PInv
<1>2. CASE AnyCall
    BY <1>2, AnyCallKeeps
<1>3. CASE SyserrCall
    BY <1>3, SyserrKeeps
<1>4. CASE OpenFile
    BY <1>4, OpenFileKeeps
<1>5. CASE CopyChunk
    BY <1>5, CopyChunkKeeps
<1>6. CASE Inner
    BY <1>6, InnerKeeps
<1>7. ASSUME NEW tests \in Selections, Begin("syserr", <<>>, tests) PROVE PInv'
    BY <1>7, BeginKeeps
<1>8. ASSUME NEW name \in CatNames, Begin("cat", name, <<>>) PROVE PInv'
    BY <1>8, BeginKeeps
<1>9. CASE Begin("ls", <<>>, <<>>)
    BY <1>9, BeginKeeps
<1> QED BY <1>1, <1>2, <1>3, <1>4, <1>5, <1>6, <1>7, <1>8, <1>9 DEF PNext

-----------------------------------------------------------------------------
(* The theorems about the programs                                           *)

\* The invariant holds in every state, whatever programs ran in the slot before.
THEOREM ProgramsInvariance == PSpec => []PInv
BY ProgramsInit, ProgramsStep, PTL DEF PSpec

\* ece391syserr.c: every test passes whatever programs used the slot before, for
\* every disk image and number of descriptors; err_unopened after err_open_lots.
THEOREM TestsPass == PSpec => []SyserrPasses
<1>1. PInv => SyserrPasses
    BY DEF PInv
<1> QED BY <1>1, ProgramsInvariance, PTL

\* ece391cat.c and ece391ls.c print the whole file and the whole directory, for
\* every disk image and every size of the pieces they read.
THEOREM ProgramsCopyAll == PSpec => []CopiesAll
<1>1. PInv => CopiesAll
    BY DEF PInv
<1> QED BY <1>1, ProgramsInvariance, PTL

=============================================================================
