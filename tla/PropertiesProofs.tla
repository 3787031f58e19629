--------------------------- MODULE PropertiesProofs ---------------------------
(***************************************************************************)
(* Proofs about Properties: for every heap, of any number of blocks, and   *)
(* every B-tree on it, of any depth, a context has the records of the file *)
(* and answers with its values, whatever was asked before.                 *)
(* TInv has the types and what is read of the image so far.  BInv has the  *)
(* levels of the B-tree as the file has them, each property as that of its *)
(* record, and from those the answer of the last call and how it can end.  *)
(***************************************************************************)
EXTENDS Properties, SequenceTheorems, WellFoundedInduction, TLAPS

-----------------------------------------------------------------------------
(* Numbers. *)

LEMMA Least ==
  ASSUME NEW S \in SUBSET Nat, S # {}
  PROVE  \E m \in S : \A k \in S : m <= k
<1> DEFINE less == OpToRel(<, Nat)
<1>1. IsWellFoundedOn(less, Nat)
  BY NatLessThanWellFounded
<1>2. \A j, k \in Nat : j < k => <<j, k>> \in less
  BY DEF OpToRel
<1> HIDE DEF less
<1>3. PICK m \in S : \A k \in S : ~(<<k, m>> \in less)
  BY <1>1, WFMin
<1>4. \A k \in S : ~(k < m)
  BY <1>2, <1>3
<1> QED
  BY <1>3, <1>4

LEMMA Greatest ==
  ASSUME NEW n \in Nat, NEW S \in SUBSET (1..n), S # {}
  PROVE  \E m \in S : \A k \in S : k <= m
<1> DEFINE B == {b \in Nat : \A k \in S : k <= b}
<1>1. n \in B /\ B \in SUBSET Nat
  OBVIOUS
<1>2. PICK b \in B : \A c \in B : b <= c
  BY <1>1, Least
<1>3. b \in S
  <2> SUFFICES ASSUME b \notin S PROVE FALSE
    OBVIOUS
  <2>1. \A k \in S : k \in 1..n /\ k <= b /\ k # b
    BY <1>2
  <2>2. PICK k \in S : TRUE
    OBVIOUS
  <2>3. b \in Nat /\ b - 1 \in Nat
    BY <1>2, <2>1, <2>2
  <2>4. \A j \in S : j <= b - 1
    BY <2>1, <2>3
  <2> QED
    BY <1>2, <2>3, <2>4
<1> QED
  BY <1>2, <1>3

-----------------------------------------------------------------------------
(* Words, HIDs and allocations. *)

LEMMA WordFacts ==
  \A w \in Word : w \in Nat /\ w % 32 \in Nat /\ w \div 32 \in Nat /\ w \div 256 \in Nat
<1>1. \A w \in Word : w \in Nat
  BY DEF Word
<1>2. \A w \in Nat : w % 32 \in Nat /\ w \div 32 \in Nat /\ w \div 256 \in Nat
  OBVIOUS
<1> QED
  BY <1>1, <1>2

LEMMA IdFacts ==
  ASSUME NEW id \in Id
  PROVE  /\ id[1] \in Word /\ id[2] \in Word /\ id = <<id[1], id[2]>>
         /\ IdType(id) \in Nat /\ AllocIndex(id) \in Nat /\ BlockIndex(id) \in Nat
<1>1. id[1] \in Word /\ id[2] \in Word /\ id = <<id[1], id[2]>>
  BY DEF Id
<1> QED
  BY <1>1, WordFacts DEF IdType, AllocIndex, BlockIndex

\* The allocation of an HID that throws nothing.
LEMMA AllocationType ==
  ASSUME NEW B \in Seq(Seq(Seq(Word))), NEW hid \in Id, ~AllocationThrows(B, hid)
  PROVE  /\ Allocation(B, hid) \in Seq(Word)
         /\ IsHIDValid(hid) => Allocation(B, hid) = NamedBy(B, hid)
<1>1. AllocIndex(hid) \in Nat /\ BlockIndex(hid) \in Nat
  BY IdFacts
<1>2. CASE IsHIDValid(hid)
  <2>1. BlockIndex(hid) < Len(B) /\ AllocIndex(hid) <= Len(B[BlockIndex(hid) + 1])
    BY <1>2 DEF AllocationThrows
  <2>2. Len(B) \in Nat /\ BlockIndex(hid) + 1 \in 1..Len(B)
    BY <1>1, <2>1
  <2>3. B[BlockIndex(hid) + 1] \in Seq(Seq(Word))
    BY <2>2, ElementOfSeq
  <2>4. AllocIndex(hid) \in 1..Len(B[BlockIndex(hid) + 1])
    BY <1>1, <1>2, <2>1, <2>3 DEF IsHIDValid
  <2>5. B[BlockIndex(hid) + 1][AllocIndex(hid)] \in Seq(Word)
    BY <2>3, <2>4, ElementOfSeq
  <2> QED
    BY <1>2, <2>5 DEF Allocation, NamedBy
<1>3. CASE ~IsHIDValid(hid)
  BY <1>3, EmptySeq DEF Allocation
<1> QED
  BY <1>2, <1>3

\* The header of an image.
HeaderOf(i) == Allocation(i.blocks, i.root)

LEMMA HeaderFacts ==
  ASSUME NEW i \in Images
  PROVE  LET H == HeaderOf(i)
         IN  /\ i.blocks \in Seq(Seq(Seq(Word))) /\ i.blocks # <<>> /\ i.root \in Id
             /\ H = NamedBy(i.blocks, i.root)
             /\ Len(H) = 4 /\ \A j \in 1..4 : H[j] \in Word
             /\ HidRoot(H) \in Id /\ IdxLevels(H) \in Nat
             /\ KeySize(H) \in {2, 4} /\ EntSize(H) \in {4, 6}
             /\ RecordSize(H) = 4 /\ HeaderAsserted(H)
             /\ EntSize(H) = 4 <=> KeySize(H) = 4
             /\ i.pc \in BOOLEAN /\ (i.pc <=> EntSize(H) = 6)
             /\ EntSize(H) = 4 => IndexSize(H) = 4
<1> DEFINE H == HeaderOf(i)
<1>1. ImageOf(i)
  BY ImageAssumption
<1>2. /\ i.blocks \in Seq(Seq(Seq(Word))) /\ i.blocks # <<>> /\ i.root \in Id
      /\ IsHIDValid(i.root) /\ ~AllocationThrows(i.blocks, i.root)
      /\ HeaderAsserted(H) /\ i.pc \in BOOLEAN
      /\ IF i.pc THEN KeySize(H) = 2 /\ EntSize(H) = 6 ELSE KeySize(H) = 4 /\ EntSize(H) = 4
  BY <1>1 DEF ImageOf, HeaderOf
<1>3. H \in Seq(Word) /\ H = NamedBy(i.blocks, i.root)
  BY <1>2, AllocationType DEF HeaderOf
<1>4. Len(H) = 4
  BY <1>2 DEF HeaderAsserted
<1>5. \A j \in 1..4 : H[j] \in Word
  BY <1>3, <1>4, ElementOfSeq
<1>6. H[1] \in Word /\ H[2] \in Word /\ H[3] \in Word /\ H[4] \in Word
  BY <1>5
<1> HIDE DEF H
<1>7. HidRoot(H) \in Id
  BY <1>6 DEF HidRoot, Id
<1>8. IdxLevels(H) \in Nat
  BY <1>6, WordFacts DEF IdxLevels
<1>9. RecordSize(H) = 4 /\ (EntSize(H) = 4 => IndexSize(H) = 4)
  BY <1>2 DEF RecordSize, IndexSize
<1> QED
  BY <1>2, <1>3, <1>4, <1>5, <1>7, <1>8, <1>9 DEF H

-----------------------------------------------------------------------------
(* Records. *)

LEMMA ChunksType ==
  ASSUME NEW words \in Seq(Word)
  PROVE  /\ Chunks(words, 4) \in Seq(Seq(Word))
         /\ Len(Chunks(words, 4)) \in Nat
         /\ DOMAIN Chunks(words, 4) = 1..Len(Chunks(words, 4))
         /\ \A j \in DOMAIN Chunks(words, 4) :
              /\ Len(Chunks(words, 4)[j]) = 4
              /\ \A k \in 1..4 : Chunks(words, 4)[j][k] \in Word
<1> DEFINE n == Len(words) \div 4
           c == Chunks(words, 4)
<1>1. Len(words) \in Nat /\ n \in Nat /\ n * 4 <= Len(words)
  OBVIOUS
<1>2. c = [j \in 1..n |-> SubSeq(words, (j - 1) * 4 + 1, j * 4)]
  BY DEF Chunks
<1> HIDE DEF n
<1>3. ASSUME NEW j \in 1..n
      PROVE  /\ c[j] \in Seq(Word) /\ Len(c[j]) = 4 /\ \A k \in 1..4 : c[j][k] \in Word
  <2> DEFINE lo == (j - 1) * 4 + 1
             hi == j * 4
  <2>1. lo \in Nat /\ hi \in Nat /\ lo >= 1 /\ hi <= Len(words) /\ hi - lo + 1 = 4 /\ lo <= hi
    BY <1>1
  <2> HIDE DEF lo, hi
  <2>2. \A k \in lo..hi : words[k] \in Word
    BY <1>1, <2>1, ElementOfSeq
  <2> DEFINE s == SubSeq(words, lo, hi)
  <2>3. /\ s \in Seq(Word) /\ Len(s) = IF lo <= hi THEN hi - lo + 1 ELSE 0
        /\ \A k \in 1..(hi - lo + 1) : s[k] = words[lo + k - 1]
    BY <2>1, <2>2, SubSeqProperties
  <2>4. s \in Seq(Word) /\ Len(s) = 4
    BY <2>1, <2>3
  <2>5. c[j] = s
    BY <1>2 DEF lo, hi
  <2> HIDE DEF s
  <2> QED
    BY <2>4, <2>5, ElementOfSeq
<1> HIDE DEF c
<1>4. c \in Seq(Seq(Word)) /\ Len(c) = n /\ DOMAIN c = 1..n
  <2>1. c = [j \in 1..n |-> c[j]]
    BY <1>2
  <2>2. \A j \in 1..n : c[j] \in Seq(Word)
    BY <1>3
  <2> QED
    BY <1>1, <2>1, <2>2
<1> QED
  BY <1>1, <1>3, <1>4 DEF c

\* The HIDs of index records that are as long as those of the leaves.
LEMMA HIDsType ==
  ASSUME NEW i \in Images, NEW words \in Seq(Word)
  PROVE  LET hids == NextLevelHIDs(HeaderOf(i), words)
         IN  /\ DOMAIN hids = 1..Len(Chunks(words, 4)) /\ Len(Chunks(words, 4)) \in Nat
             /\ \A j \in DOMAIN hids : hids[j] \in Id
<1> DEFINE H == HeaderOf(i)
           r == Chunks(words, 4)
           key == KeySize(H) \div 2
<1>1. RecordSize(H) = 4 /\ KeySize(H) \in {2, 4}
  BY HeaderFacts
<1>2. key + 1 \in 1..4 /\ key + 2 \in 1..4
  BY <1>1
<1>3. NextLevelHIDs(H, words) = [j \in DOMAIN r |-> <<r[j][key + 1], r[j][key + 2]>>]
  BY <1>1 DEF NextLevelHIDs, HIDsIn
<1> HIDE DEF key, r, H
<1>4. /\ DOMAIN r = 1..Len(r) /\ Len(r) \in Nat
      /\ \A j \in DOMAIN r : \A k \in 1..4 : r[j][k] \in Word
  BY ChunksType DEF r
<1>5. \A j \in DOMAIN r : NextLevelHIDs(H, words)[j] \in Id
  BY <1>2, <1>3, <1>4 DEF Id
<1> QED
  BY <1>3, <1>4, <1>5 DEF H, r
-----------------------------------------------------------------------------
(* Arrays that are put together. *)

\* g[i] is the concatenation of the first i elements of X.
Flat(g, n, X) == g = [i \in 1..n |-> IF i = 1 THEN X[i] ELSE g[i-1] \o X[i]]

LEMMA FlatExists ==
  ASSUME NEW n \in Nat, NEW X
  PROVE  \E g : Flat(g, n, X)
<1> DEFINE S == {k \in Nat : ~\E g : Flat(g, k, X)}
<1>1. SUFFICES ASSUME S # {} PROVE FALSE
  OBVIOUS
<1>2. PICK m \in S : \A k \in S : m <= k
  BY <1>1, Least
<1>3. CASE m = 0
  <2> DEFINE g == [i \in 1..0 |-> X[i]]
  <2>1. Flat(g, 0, X)
    BY DEF Flat
  <2> QED
    BY <1>2, <1>3, <2>1
<1>4. CASE m # 0
  <2>1. m - 1 \in Nat /\ m - 1 \notin S
    BY <1>2, <1>4
  <2>2. PICK h : Flat(h, m - 1, X)
    BY <2>1
  <2> DEFINE g == [i \in 1..m |-> IF i < m THEN h[i] ELSE IF m = 1 THEN X[m] ELSE h[m-1] \o X[m]]
  <2>3. \A i \in 1..(m-1) : h[i] = IF i = 1 THEN X[i] ELSE h[i-1] \o X[i]
    BY <2>2 DEF Flat
  <2>4. \A i \in 1..m : g[i] = IF i = 1 THEN X[i] ELSE g[i-1] \o X[i]
    BY <1>2, <1>4, <2>3
  <2>5. Flat(g, m, X)
    BY <2>4 DEF Flat
  <2> QED
    BY <1>2, <2>5
<1> QED
  BY <1>3, <1>4

LEMMA FlatType ==
  ASSUME NEW X \in Seq(Seq(Word))
  PROVE  FlattenSeq(X) \in Seq(Word)
<1> DEFINE n == Len(X)
<1>1. n \in Nat /\ X = [i \in 1..n |-> X[i]] /\ \A i \in 1..n : X[i] \in Seq(Word)
  BY ElementOfSeq
<1>2. CASE n = 0
  <2>1. X = <<>>
    BY <1>2, EmptySeq
  <2> QED
    BY <1>2, <2>1, EmptySeq DEF FlattenSeq
<1>3. CASE n # 0
  <2> DEFINE g == CHOOSE g : g = [i \in 1..n |-> IF i = 1 THEN X[i] ELSE g[i-1] \o X[i]]
             S == {k \in Nat : k \in 1..n /\ g[k] \notin Seq(Word)}
  <2>1. FlattenSeq(X) = g[n]
    BY <1>3 DEF FlattenSeq
  <2>2. \E f : f = [i \in 1..n |-> IF i = 1 THEN X[i] ELSE f[i-1] \o X[i]]
    BY <1>1, FlatExists DEF Flat
  <2>3. g = [i \in 1..n |-> IF i = 1 THEN X[i] ELSE g[i-1] \o X[i]]
    BY <2>2
  <2> HIDE DEF g, n
  <2>4. \A i \in 1..n : g[i] = IF i = 1 THEN X[i] ELSE g[i-1] \o X[i]
    BY <2>3
  <2>5. ASSUME S # {} PROVE FALSE
    <3>1. PICK m \in S : \A k \in S : m <= k
      BY <2>5, Least
    <3>2. m \in 1..n /\ g[m] \notin Seq(Word)
      BY <3>1
    <3>3. m # 1
      BY <1>1, <2>4, <3>2
    <3>4. m - 1 \in 1..n /\ m - 1 \notin S
      BY <1>1, <3>1, <3>2, <3>3
    <3>5. g[m-1] \in Seq(Word) /\ X[m] \in Seq(Word)
      BY <1>1, <3>2, <3>4
    <3>6. g[m] = g[m-1] \o X[m]
      BY <2>4, <3>2, <3>3
    <3> HIDE DEF S
    <3> QED
      BY <3>2, <3>5, <3>6, ConcatProperties
  <2>6. n \in 1..n
    BY <1>1, <1>3
  <2> QED
    BY <1>1, <2>1, <2>5, <2>6
<1> QED
  BY <1>2, <1>3

\* The arrays of the HIDs that are read on one level, put together.
LEMMA LevelType ==
  ASSUME NEW B \in Seq(Seq(Seq(Word))), NEW n \in Nat, NEW hids, DOMAIN hids = 1..n,
         \A j \in 1..n : hids[j] \in Id /\ ~AllocationThrows(B, hids[j])
  PROVE  FlattenSeq([j \in DOMAIN hids |-> Allocation(B, hids[j])]) \in Seq(Word)
<1> DEFINE X == [j \in DOMAIN hids |-> Allocation(B, hids[j])]
<1>1. \A j \in 1..n : Allocation(B, hids[j]) \in Seq(Word)
  BY AllocationType
<1>2. X = [j \in 1..n |-> X[j]] /\ \A j \in 1..n : X[j] \in Seq(Word)
  BY <1>1
<1> HIDE DEF X
<1>3. X \in Seq(Seq(Word))
  BY <1>2
<1> QED
  BY <1>3, FlatType DEF X

-----------------------------------------------------------------------------
(* The levels of the file's B-tree. *)

\* The level below one of these words.
BelowOf(B, header, words) ==
  LET hids == HIDsIn(header, words, IndexSize(header))
  IN  FlattenSeq([j \in DOMAIN hids |-> NamedBy(B, hids[j])])

Levels(g, n, B, header) ==
  g = [k \in 0..n |-> IF k = 0 THEN NamedBy(B, HidRoot(header)) ELSE BelowOf(B, header, g[k-1])]

LEMMA LevelsExist ==
  ASSUME NEW n \in Nat, NEW B, NEW header
  PROVE  \E g : Levels(g, n, B, header)
<1> DEFINE S == {k \in Nat : ~\E g : Levels(g, k, B, header)}
<1>1. SUFFICES ASSUME S # {} PROVE FALSE
  OBVIOUS
<1>2. PICK m \in S : \A k \in S : m <= k
  BY <1>1, Least
<1>3. CASE m = 0
  <2> DEFINE g == [k \in 0..0 |-> NamedBy(B, HidRoot(header))]
  <2>1. Levels(g, 0, B, header)
    BY DEF Levels
  <2> QED
    BY <1>2, <1>3, <2>1
<1>4. CASE m # 0
  <2>1. m - 1 \in Nat /\ m - 1 \notin S
    BY <1>2, <1>4
  <2>2. PICK h : Levels(h, m - 1, B, header)
    BY <2>1
  <2> DEFINE g == [k \in 0..m |-> IF k = m THEN BelowOf(B, header, h[m-1]) ELSE h[k]]
  <2>3. \A k \in 0..(m-1) :
          h[k] = IF k = 0 THEN NamedBy(B, HidRoot(header)) ELSE BelowOf(B, header, h[k-1])
    BY <2>2 DEF Levels
  <2>4. \A k \in 0..m :
          g[k] = IF k = 0 THEN NamedBy(B, HidRoot(header)) ELSE BelowOf(B, header, g[k-1])
    BY <1>2, <1>4, <2>3
  <2>5. Levels(g, m, B, header)
    BY <2>4 DEF Levels
  <2> QED
    BY <1>2, <2>5
<1> QED
  BY <1>3, <1>4

LEMMA FileLevelIs ==
  ASSUME NEW B, NEW header, IdxLevels(header) \in Nat
  PROVE  \A k \in 0..IdxLevels(header) :
           FileLevel(B, header)[k] = IF k = 0 THEN NamedBy(B, HidRoot(header))
                                     ELSE BelowOf(B, header, FileLevel(B, header)[k-1])
<1> DEFINE n == IdxLevels(header)
           Is(g) == g = [k \in 0..n |->
                          IF k = 0 THEN NamedBy(B, HidRoot(header))
                          ELSE FlattenSeq([j \in DOMAIN HIDsIn(header, g[k-1], IndexSize(header)) |->
                                 NamedBy(B, HIDsIn(header, g[k-1], IndexSize(header))[j])])]
<1>1. FileLevel(B, header) = CHOOSE g : Is(g)
  BY DEF FileLevel
<1>2. \E g : Is(g)
  <2>1. PICK g : Levels(g, n, B, header)
    BY LevelsExist
  <2>2. Is(g)
    BY <2>1 DEF Levels, BelowOf
  <2> HIDE DEF Is
  <2> QED
    BY <2>2
<1>3. Is(FileLevel(B, header))
  <2> HIDE DEF Is
  <2> QED
    BY <1>1, <1>2
<1>4. Levels(FileLevel(B, header), n, B, header)
  BY <1>3 DEF Levels, BelowOf
<1> HIDE DEF Is
<1> QED
  BY <1>4 DEF Levels
\* Index records of the image are as long as leaf records, or there are none.
AsLong(i) == IdxLevels(HeaderOf(i)) = 0 \/ EntSize(HeaderOf(i)) = 4

\* The levels of an image, and the HIDs on them.
LevelOf(i) == FileLevel(i.blocks, HeaderOf(i))

LEMMA TreeFacts ==
  ASSUME NEW i \in Images, HidRoot(HeaderOf(i)) # <<0, 0>>
  PROVE  LET H == HeaderOf(i)
             last == IdxLevels(H)
             hids(n) == HIDsIn(H, LevelOf(i)[n], IndexSize(H))
         IN  /\ IsHIDValid(HidRoot(H)) /\ ~AllocationThrows(i.blocks, HidRoot(H))
             /\ LevelOf(i)[0] = Allocation(i.blocks, HidRoot(H))
             /\ Len(LevelOf(i)[last]) % 4 = 0
             /\ \A n \in 0..(last - 1) :
                  /\ Len(LevelOf(i)[n]) % IndexSize(H) = 0
                  /\ \A j \in DOMAIN hids(n) :
                       IsHIDValid(hids(n)[j]) /\ ~AllocationThrows(i.blocks, hids(n)[j])
<1> DEFINE H == HeaderOf(i)
<1>1. H = NamedBy(i.blocks, i.root) /\ RecordSize(H) = 4 /\ IdxLevels(H) \in Nat
  BY HeaderFacts
<1>2. IsBTH(i.blocks, i.root)
  BY ImageAssumption DEF ImageOf
<1>3. IsHIDValid(HidRoot(H)) /\ ~AllocationThrows(i.blocks, HidRoot(H))
  BY <1>1, <1>2 DEF IsBTH
<1>4. LevelOf(i)[0] = NamedBy(i.blocks, HidRoot(H))
  BY <1>1, FileLevelIs DEF LevelOf
<1>5. LevelOf(i)[0] = Allocation(i.blocks, HidRoot(H))
  BY <1>3, <1>4 DEF Allocation, NamedBy
<1> QED
  BY <1>1, <1>2, <1>3, <1>5 DEF IsBTH, LevelOf

\* What is read on an index level is the file's next one.
LEMMA NextLevelIs ==
  ASSUME NEW i \in Images, HidRoot(HeaderOf(i)) # <<0, 0>>, AsLong(i),
         NEW n \in 0..(IdxLevels(HeaderOf(i)) - 1)
  PROVE  LET H == HeaderOf(i)
             hids == NextLevelHIDs(H, LevelOf(i)[n])
         IN  /\ Len(LevelOf(i)[n]) % RecordSize(H) = 0 /\ EntSize(H) = 4
             /\ \A j \in DOMAIN hids : ~AllocationThrows(i.blocks, hids[j])
             /\ FlattenSeq([j \in DOMAIN hids |-> Allocation(i.blocks, hids[j])]) = LevelOf(i)[n + 1]
<1> DEFINE H == HeaderOf(i)
           hids == NextLevelHIDs(H, LevelOf(i)[n])
<1>1. IdxLevels(H) \in Nat /\ RecordSize(H) = 4 /\ n + 1 \in 0..IdxLevels(H) /\ n + 1 - 1 = n /\ n + 1 # 0
  BY HeaderFacts
<1>2. EntSize(H) = 4 /\ IndexSize(H) = 4
  BY <1>1, HeaderFacts DEF AsLong
<1>3. hids = HIDsIn(H, LevelOf(i)[n], IndexSize(H))
  BY <1>1, <1>2 DEF NextLevelHIDs
<1>4. /\ Len(LevelOf(i)[n]) % RecordSize(H) = 0
      /\ \A j \in DOMAIN hids : IsHIDValid(hids[j]) /\ ~AllocationThrows(i.blocks, hids[j])
  BY <1>1, <1>2, <1>3, TreeFacts
<1>5. \A j \in DOMAIN hids : Allocation(i.blocks, hids[j]) = NamedBy(i.blocks, hids[j])
  BY <1>4 DEF Allocation, NamedBy
<1>6. LevelOf(i)[n + 1] = BelowOf(i.blocks, H, LevelOf(i)[n])
  BY <1>1, FileLevelIs DEF LevelOf
<1>7. LevelOf(i)[n + 1] = FlattenSeq([j \in DOMAIN hids |-> NamedBy(i.blocks, hids[j])])
  BY <1>3, <1>6 DEF BelowOf
<1> HIDE DEF hids
<1>8. [j \in DOMAIN hids |-> Allocation(i.blocks, hids[j])] = [j \in DOMAIN hids |-> NamedBy(i.blocks, hids[j])]
  BY <1>5
<1>9. FlattenSeq([j \in DOMAIN hids |-> Allocation(i.blocks, hids[j])]) = LevelOf(i)[n + 1]
  BY <1>7, <1>8
<1> QED
  BY <1>2, <1>4, <1>9 DEF hids

-----------------------------------------------------------------------------
(* Properties from records. *)

\* Records that have an id, a type and an HNID.
AreRecords(recs) ==
  /\ DOMAIN recs = 1..Len(recs) /\ Len(recs) \in Nat
  /\ \A j \in DOMAIN recs : \A k \in 1..4 : recs[j][k] \in Word

LEMMA TypeOfFacts ==
  /\ \A t \in Word : TypeOf(t) \in Word
  /\ \A t : TypeOf(t) # 1 => Known(t) /\ TypeOf(t) = t
  /\ \A t : Known(t) => TypeOf(t) = t
<1>1. 1 \in Word
  BY DEF Word
<1>2. \A t : TypeOf(t) = t \/ TypeOf(t) = 1
  BY DEF TypeOf
<1>3. \A t : TypeOf(t) # 1 => Known(t)
  BY DEF TypeOf
<1>4. \A t : Known(t) => TypeOf(t) = t
  BY DEF TypeOf
<1> QED
  BY <1>1, <1>2, <1>3, <1>4

LEMMA PropertyOfIs ==
  ASSUME NEW recs, AreRecords(recs), NEW p \in Ids(recs)
  PROVE  /\ PropertyOf(recs, p) \in Property
         /\ \E j \in DOMAIN recs :
              /\ recs[j][1] = p
              /\ PropertyOf(recs, p) =
                   [type |-> TypeOf(recs[j][2]), data |-> <<recs[j][3], recs[j][4]>>, loaded |-> FALSE]
<1> DEFINE S == {j \in DOMAIN recs : recs[j][1] = p}
           Is(j) == j \in DOMAIN recs /\ recs[j][1] = p /\ \A k \in DOMAIN recs : recs[k][1] = p => k <= j
           j == CHOOSE j \in DOMAIN recs :
                  recs[j][1] = p /\ \A k \in DOMAIN recs : recs[k][1] = p => k <= j
<1>1. S # {} /\ S \in SUBSET (1..Len(recs)) /\ Len(recs) \in Nat
  BY DEF Ids, AreRecords
<1>2. \E m \in S : \A k \in S : k <= m
  BY <1>1, Greatest
<1>3. j \in DOMAIN recs /\ recs[j][1] = p
  BY <1>2
<1>4. PropertyOf(recs, p) =
        [type |-> TypeOf(recs[j][2]), data |-> <<recs[j][3], recs[j][4]>>, loaded |-> FALSE]
  BY DEF PropertyOf
<1> HIDE DEF j
<1>5. recs[j][2] \in Word /\ recs[j][3] \in Word /\ recs[j][4] \in Word
  BY <1>3 DEF AreRecords
<1>6. PropertyOf(recs, p) \in Property
  BY <1>4, <1>5, TypeOfFacts DEF Property
<1> QED
  BY <1>3, <1>4, <1>6

LEMMA IdsAreWords ==
  ASSUME NEW recs, AreRecords(recs)
  PROVE  Ids(recs) \subseteq Word
  BY DEF AreRecords, Ids

LEMMA ChunksAreRecords ==
  ASSUME NEW words \in Seq(Word)
  PROVE  AreRecords(Chunks(words, 4))
  BY ChunksType DEF AreRecords

-----------------------------------------------------------------------------
(* The types. *)

Constructing == {"tree", "blocks", "bth", "level", "records"}

\* The blocks are the first of the image's, and all of them once the heap is built.
BlocksOK ==
  /\ Len(blocks) <= Len(image.blocks)
  /\ \A k \in 1..Len(blocks) : blocks[k] = image.blocks[k]
  /\ pc \in {"tree", "blocks"} => Len(blocks) < Len(image.blocks)
  /\ pc \in {"bth", "level", "records", "idle"} => blocks = image.blocks

\* Nothing is read before its turn, and nothing asked for before all is.
FreshOK ==
  /\ pc \in {"tree", "blocks", "bth"} => bytes = <<>>
  /\ pc \in Constructing => DOMAIN props = {}
  /\ pc \in Constructing \cup {"thrown"} => asked = None
  /\ pc = "level" => levels >= 1 /\ HidRoot(HeaderOf(image)) # <<0, 0>>

\* Data that is still to be fetched is an HNID.
UnloadedOK == \A p \in DOMAIN props : ~props[p].loaded => Len(props[p].data) = 2

FailCut == fail => cut

TInv == TypeOK /\ BlocksOK /\ FreshOK /\ UnloadedOK /\ FailCut

LEMMA InitTInv == Init => TInv
<1> SUFFICES ASSUME Init PROVE TInv
  OBVIOUS
<1>1. blocks = <<>> /\ bytes = <<>> /\ records = <<>> /\ props = <<>> /\ image \in Images /\ levels = 0
      /\ asked = None /\ answer = None /\ cut = FALSE /\ fail = FALSE /\ pc = "tree" /\ assertsOn \in BOOLEAN
  BY DEF Init
<1>2. image.blocks \in Seq(Seq(Seq(Word))) /\ image.blocks # <<>>
  BY <1>1, HeaderFacts
<1>3. blocks \in Seq(Seq(Seq(Word))) /\ bytes \in Seq(Word) /\ records \in Seq(Seq(Word))
  BY <1>1, EmptySeq
<1>4. DOMAIN props = {}
  BY <1>1
<1>5. Len(blocks) = 0 /\ Len(image.blocks) \in Nat /\ Len(image.blocks) # 0
  BY <1>1, <1>2, EmptySeq
<1>6. TypeOK
  BY <1>1, <1>3, <1>4 DEF TypeOK
<1> QED
  BY <1>1, <1>4, <1>5, <1>6 DEF TInv, BlocksOK, FreshOK, UnloadedOK, FailCut
LEMMA PairIs ==
  ASSUME NEW d \in Seq(Word), Len(d) = 2
  PROVE  <<d[1], d[2]>> \in Id
<1>1. d[1] \in Word /\ d[2] \in Word
  BY ElementOfSeq
<1> QED
  BY <1>1 DEF Id

LEMMA LoadsFacts ==
  ASSUME TInv, NEW p \in DOMAIN props, NEW t, NEW d \in Seq(Word), Loads(p, t, d)
  PROVE  /\ pc' = pc /\ DOMAIN props' = DOMAIN props
         /\ props'[p] = [type |-> props[p].type, data |-> d, loaded |-> TRUE]
         /\ \A q \in DOMAIN props : q # p => props'[q] = props[q]
         /\ \A q \in DOMAIN props' : props'[q] \in Property
         /\ answer' = IF props[p].type = t THEN d ELSE None
         /\ UnloadedOK'
<1>1. \A q \in DOMAIN props : props[q] \in Property
  BY DEF TInv, TypeOK
<1>2. props[p] = [type |-> props[p].type, data |-> props[p].data, loaded |-> props[p].loaded]
      /\ props[p].type \in Word
  BY <1>1 DEF Property
<1>3. props' = [props EXCEPT ![p].data = d, ![p].loaded = TRUE] /\ pc' = pc
      /\ answer' = IF props[p].type = t THEN d ELSE None
  BY DEF Loads, Returned
<1>4. DOMAIN props' = DOMAIN props /\ \A q \in DOMAIN props : q # p => props'[q] = props[q]
  BY <1>3
<1>5. props'[p] = [[props[p] EXCEPT !.data = d] EXCEPT !.loaded = TRUE]
  BY <1>3
<1>6. props'[p] = [type |-> props[p].type, data |-> d, loaded |-> TRUE]
  BY <1>2, <1>5
<1>7. props'[p] \in Property /\ props'[p].loaded
  BY <1>2, <1>6 DEF Property
<1>8. \A q \in DOMAIN props' : props'[q] \in Property
  BY <1>1, <1>4, <1>7
<1>9. UnloadedOK'
  <2>1. \A q \in DOMAIN props : ~props[q].loaded => Len(props[q].data) = 2
    BY DEF TInv, UnloadedOK
  <2> QED
    BY <1>4, <1>7, <2>1 DEF UnloadedOK
<1> QED
  BY <1>3, <1>4, <1>6, <1>8, <1>9

\* A call that leaves the properties alone, or loads one.
LEMMA AskTInv ==
  ASSUME TInv, NEW p, NEW t, <<p, t>> \in Calls,
         AskAbsent(p, t) \/ AskKept(p, t) \/ AskHeap(p, t) \/ AskNode(p, t)
  PROVE  TInv'
<1>1. /\ pc = "idle" /\ asked' = <<p, t>> /\ blocks = image.blocks /\ image \in Images
      /\ UNCHANGED <<assertsOn, image, blocks, levels, bytes, records, cut>>
  BY DEF TInv, TypeOK, BlocksOK, AskAbsent, AskKept, AskHeap, AskNode, Asks, built
<1>2. asked' \in Word \X Word
  BY <1>1, ImageAssumption
<1>3. \A q \in DOMAIN props : props[q] \in Property /\ props[q].data \in Seq(Word)
  BY DEF TInv, TypeOK, Property
<1>4. SUFFICES /\ pc' \in {"idle", "aborted", "undefined"}
               /\ DOMAIN props' = DOMAIN props /\ \A q \in DOMAIN props' : props'[q] \in Property
               /\ answer' \in Seq(Word) \cup {None, Threw} /\ UnloadedOK'
               /\ fail' \in BOOLEAN /\ (fail' => cut)
  BY <1>1, <1>2 DEF TInv, TypeOK, BlocksOK, FreshOK, FailCut, Constructing
<1>5. /\ fail \in BOOLEAN /\ cut \in BOOLEAN /\ (fail => cut) /\ UnloadedOK
      /\ answer \in Seq(Word) \cup {None, Threw}
  BY DEF TInv, TypeOK, FailCut
<1>6. ASSUME props' = props PROVE UnloadedOK'
  BY <1>5, <1>6 DEF UnloadedOK
<1>7. ASSUME Throws PROVE props' = props /\ answer' = Threw /\ pc' = pc
  BY <1>7 DEF Throws
<1>8. ASSUME NEW how, Stops(how) PROVE props' = props /\ answer' = answer /\ pc' = how
  BY <1>8 DEF Stops
<1>9. CASE AskAbsent(p, t)
  BY <1>1, <1>3, <1>5, <1>6, <1>9 DEF AskAbsent
<1>10. CASE AskKept(p, t)
  BY <1>1, <1>3, <1>5, <1>6, <1>10 DEF AskKept, Returned
<1>11. ASSUME p \in DOMAIN props, ~Kept(p)
       PROVE  <<props[p].data[1], props[p].data[2]>> \in Id
  <2>1. Len(props[p].data) = 2
    BY <1>5, <1>11 DEF UnloadedOK, Kept
  <2> QED
    BY <1>3, <1>11, <2>1, PairIs
<1>12. ASSUME NEW d \in Seq(Word), p \in DOMAIN props, Loads(p, t, d)
       PROVE  /\ pc' = "idle" /\ DOMAIN props' = DOMAIN props
              /\ \A q \in DOMAIN props' : props'[q] \in Property
              /\ answer' \in Seq(Word) \cup {None, Threw} /\ UnloadedOK'
  BY <1>1, <1>12, LoadsFacts
<1>13. CASE AskHeap(p, t)
  <2> DEFINE hid == <<props[p].data[1], props[p].data[2]>>
  <2>1. p \in DOMAIN props /\ ~Kept(p) /\ fail' = fail /\ hid \in Id
    BY <1>11, <1>13 DEF AskHeap
  <2>2. CASE Stops("aborted")
    BY <1>3, <1>5, <1>6, <1>8, <2>1, <2>2
  <2>3. CASE Throws
    BY <1>1, <1>3, <1>5, <1>6, <1>7, <2>1, <2>3
  <2>4. CASE ~AllocationThrows(blocks, hid) /\ Loads(p, t, Allocation(blocks, hid))
    <3>1. blocks \in Seq(Seq(Seq(Word)))
      BY DEF TInv, TypeOK
    <3>2. Allocation(blocks, hid) \in Seq(Word)
      BY <2>1, <2>4, <3>1, AllocationType
    <3> QED
      BY <1>5, <1>12, <2>1, <2>4, <3>2
  <2> QED
    BY <1>13, <2>2, <2>3, <2>4 DEF AskHeap
<1>14. CASE AskNode(p, t)
  <2> DEFINE nid == <<props[p].data[1], props[p].data[2]>>
  <2>1. p \in DOMAIN props /\ ~Kept(p)
    BY <1>14 DEF AskNode
  <2>2. CASE ~image.subtree /\ Loads(p, t, props[p].data) /\ fail' = fail
    BY <1>3, <1>5, <1>12, <2>1, <2>2
  <2>3. CASE (Stops("aborted") \/ Stops("undefined")) /\ fail' = fail
    BY <1>3, <1>5, <1>6, <1>8, <2>3
  <2>4. CASE Throws /\ fail' = fail
    BY <1>1, <1>3, <1>5, <1>6, <1>7, <2>4
  <2>5. ASSUME nid \in DOMAIN image.nodes, NEW arrived \in BOOLEAN, Arrival(arrived),
               IF arrived THEN Loads(p, t, image.nodes[nid])
               ELSE IF assertsOn THEN Stops("aborted") ELSE Loads(p, t, <<>>)
        PROVE  /\ pc' \in {"idle", "aborted", "undefined"}
               /\ DOMAIN props' = DOMAIN props /\ \A q \in DOMAIN props' : props'[q] \in Property
               /\ answer' \in Seq(Word) \cup {None, Threw} /\ UnloadedOK'
               /\ fail' \in BOOLEAN /\ (fail' => cut)
    <3>1. fail' \in BOOLEAN /\ (fail' => cut)
      BY <1>5, <2>5 DEF Arrival
    <3>2. image.nodes[nid] \in Seq(Word) /\ <<>> \in Seq(Word)
      BY <1>1, <2>5, ImageAssumption, EmptySeq DEF ImageOf
    <3>3. CASE Loads(p, t, image.nodes[nid]) \/ Loads(p, t, <<>>)
      BY <1>12, <2>1, <3>1, <3>2, <3>3
    <3>4. CASE Stops("aborted")
      BY <1>3, <1>5, <1>6, <1>8, <3>1, <3>4
    <3> QED
      BY <2>5, <3>3, <3>4
  <2> HIDE DEF nid
  <2>6. \/ ~image.subtree /\ Loads(p, t, props[p].data) /\ fail' = fail
        \/ (Stops("aborted") \/ Stops("undefined")) /\ fail' = fail
        \/ Throws /\ fail' = fail
        \/ /\ nid \in DOMAIN image.nodes
           /\ \E arrived \in BOOLEAN :
                /\ Arrival(arrived)
                /\ IF arrived THEN Loads(p, t, image.nodes[nid])
                   ELSE IF assertsOn THEN Stops("aborted") ELSE Loads(p, t, <<>>)
    BY <1>14 DEF AskNode, nid
  <2> QED
    BY <2>2, <2>3, <2>4, <2>5, <2>6
<1> QED
  BY <1>9, <1>10, <1>13, <1>14
LEMMA NextTInv == TInv /\ [Next]_vars => TInv'
<1> SUFFICES ASSUME TInv, [Next]_vars PROVE TInv'
  OBVIOUS
<1>1. image \in Images /\ blocks \in Seq(Seq(Seq(Word))) /\ bytes \in Seq(Word) /\ fail \in BOOLEAN
      /\ cut \in BOOLEAN /\ (fail => cut) /\ levels \in Nat
  BY DEF TInv, TypeOK, FailCut
<1>2. image.blocks \in Seq(Seq(Seq(Word))) /\ Len(image.blocks) \in Nat /\ Len(blocks) \in Nat
  BY <1>1, HeaderFacts
<1>3. ASSUME blocks = image.blocks PROVE Header = HeaderOf(image)
  BY <1>3 DEF Header, HeaderOf
<1>4. CASE LoadTree
  <2>1. UNCHANGED <<assertsOn, image, blocks, levels, bytes, records, props, asked, answer, cut>>
        /\ pc = "tree" /\ pc' \in {"blocks", "aborted", "undefined"}
        /\ fail' \in BOOLEAN /\ (fail' => cut)
    BY <1>1, <1>4 DEF LoadTree, Arrival, built, call
  <2> QED
    BY <2>1 DEF TInv, TypeOK, BlocksOK, FreshOK, UnloadedOK, FailCut, Constructing
<1>5. CASE AddBlock
  <2> DEFINE block == image.blocks[Len(blocks) + 1]
  <2>1. pc = "blocks" /\ UNCHANGED <<assertsOn, image, asked, answer, cut, fail>>
        /\ Len(blocks) < Len(image.blocks)
    BY <1>5 DEF AddBlock, call, TInv, BlocksOK
  <2>2. CASE Ends("aborted")
    BY <2>1, <2>2 DEF Ends, built, TInv, TypeOK, BlocksOK, FreshOK, UnloadedOK, FailCut, Constructing
  <2>3. CASE /\ blocks' = Append(blocks, block)
             /\ pc' = IF Len(blocks) + 1 = Len(image.blocks) THEN "bth" ELSE "blocks"
             /\ UNCHANGED <<levels, bytes, records, props>>
    <3>1. block \in Seq(Seq(Word))
      <4>1. Len(blocks) + 1 \in 1..Len(image.blocks)
        BY <1>2, <2>1
      <4> QED
        BY <1>2, <4>1, ElementOfSeq
    <3>2. /\ blocks' \in Seq(Seq(Seq(Word))) /\ Len(blocks') = Len(blocks) + 1
          /\ \A k \in 1..Len(blocks) : blocks'[k] = blocks[k]
          /\ blocks'[Len(blocks) + 1] = block
      <4> HIDE DEF block
      <4> QED
        BY <1>1, <2>3, <3>1, AppendProperties
    <3>3. \A k \in 1..Len(blocks') : blocks'[k] = image.blocks[k]
      <4>1. \A k \in 1..Len(blocks) : blocks[k] = image.blocks[k]
        BY DEF TInv, BlocksOK
      <4>2. \A k \in 1..(Len(blocks) + 1) : k \in 1..Len(blocks) \/ k = Len(blocks) + 1
        BY <1>2
      <4> QED
        BY <3>2, <4>1, <4>2
    <3>4. pc' = "bth" => blocks' = image.blocks
      <4> SUFFICES ASSUME pc' = "bth" PROVE blocks' = image.blocks
        OBVIOUS
      <4>1. Len(blocks') = Len(image.blocks)
        BY <2>3, <3>2
      <4> QED
        BY <1>2, <3>2, <3>3, <4>1, SeqEqual
    <3>5. BlocksOK'
      <4>1. Len(blocks') <= Len(image.blocks) /\ (pc' = "blocks" => Len(blocks') < Len(image.blocks))
            /\ pc' \in {"bth", "blocks"}
        BY <1>2, <2>1, <2>3, <3>2
      <4> QED
        BY <2>1, <3>3, <3>4, <4>1 DEF BlocksOK
    <3>6. TypeOK'
      BY <2>1, <2>3, <3>2 DEF TInv, TypeOK
    <3>7. FreshOK' /\ UnloadedOK' /\ FailCut'
      BY <2>1, <2>3 DEF TInv, FreshOK, UnloadedOK, FailCut, Constructing
    <3> QED
      BY <3>5, <3>6, <3>7 DEF TInv
  <2> QED
    BY <1>5, <2>2, <2>3 DEF AddBlock
<1>6. CASE ReadHeader
  <2>1. pc = "bth" /\ UNCHANGED <<assertsOn, image, asked, answer, cut, fail>>
        /\ blocks = image.blocks /\ Header = HeaderOf(image)
    BY <1>3, <1>6 DEF ReadHeader, call, TInv, BlocksOK
  <2>2. CASE Ends("aborted") \/ Ends("records") \/ Ends("thrown")
    BY <2>1, <2>2 DEF Ends, built, TInv, TypeOK, BlocksOK, FreshOK, UnloadedOK, FailCut, Constructing
  <2>3. CASE /\ HidRoot(Header) # <<0, 0>> /\ ~AllocationThrows(blocks, HidRoot(Header))
             /\ bytes' = Allocation(blocks, HidRoot(Header))
             /\ levels' = IdxLevels(Header)
             /\ pc' = IF IdxLevels(Header) > 0 THEN "level" ELSE "records"
             /\ UNCHANGED <<blocks, records, props>>
    <3>1. HidRoot(Header) \in Id /\ IdxLevels(Header) \in Nat
      BY <1>1, <2>1, HeaderFacts
    <3>2. bytes' \in Seq(Word)
      BY <1>1, <2>3, <3>1, AllocationType
    <3>3. levels' \in Nat /\ pc' \in {"level", "records"} /\ (pc' = "level" => levels' >= 1)
      BY <2>3, <3>1
    <3> QED
      BY <2>1, <2>3, <3>2, <3>3
      DEF TInv, TypeOK, BlocksOK, FreshOK, UnloadedOK, FailCut, Constructing
  <2> QED
    BY <1>6, <2>2, <2>3 DEF ReadHeader
<1>7. CASE ReadLevel
  <2> DEFINE hids == NextLevelHIDs(Header, bytes)
  <2>1. pc = "level" /\ UNCHANGED <<assertsOn, image, asked, answer, cut, fail>>
        /\ blocks = image.blocks /\ Header = HeaderOf(image)
    BY <1>3, <1>7 DEF ReadLevel, call, TInv, BlocksOK
  <2>2. CASE Ends("aborted") \/ Ends("thrown")
    BY <2>1, <2>2 DEF Ends, built, TInv, TypeOK, BlocksOK, FreshOK, UnloadedOK, FailCut, Constructing
  <2>3. CASE /\ ~\E j \in DOMAIN hids : AllocationThrows(blocks, hids[j])
             /\ bytes' = FlattenSeq([j \in DOMAIN hids |-> Allocation(blocks, hids[j])])
             /\ levels' = levels - 1
             /\ pc' = IF levels = 1 THEN "records" ELSE "level"
             /\ UNCHANGED <<blocks, records, props>>
    <3> DEFINE n == Len(Chunks(bytes, 4))
    <3>1. n \in Nat /\ DOMAIN hids = 1..n /\ \A j \in DOMAIN hids : hids[j] \in Id
      BY <1>1, <2>1, HIDsType
    <3>2. bytes' \in Seq(Word)
      <4> HIDE DEF hids, n
      <4> QED
        BY <1>1, <2>3, <3>1, LevelType
    <3>3. levels >= 1 /\ HidRoot(HeaderOf(image)) # <<0, 0>>
      BY <2>1 DEF TInv, FreshOK
    <3>4. levels' \in Nat /\ pc' \in {"level", "records"} /\ (pc' = "level" => levels' >= 1)
      BY <1>1, <2>3, <3>3
    <3> QED
      BY <2>1, <2>3, <3>2, <3>3, <3>4
      DEF TInv, TypeOK, BlocksOK, FreshOK, UnloadedOK, FailCut, Constructing
  <2> QED
    BY <1>7, <2>2, <2>3 DEF ReadLevel
<1>8. CASE ReadRecords
  <2> DEFINE recs == Chunks(bytes, RecordSize(Header))
  <2>1. pc = "records" /\ UNCHANGED <<assertsOn, image, asked, answer, cut, fail>>
        /\ blocks = image.blocks /\ Header = HeaderOf(image)
    BY <1>3, <1>8 DEF ReadRecords, call, TInv, BlocksOK
  <2>2. CASE Ends("aborted")
    BY <2>1, <2>2 DEF Ends, built, TInv, TypeOK, BlocksOK, FreshOK, UnloadedOK, FailCut, Constructing
  <2>3. CASE /\ records' = recs
             /\ props' = IF image.pc THEN [p \in Ids(recs) |-> PropertyOf(recs, p)] ELSE props
             /\ pc' = "idle"
             /\ UNCHANGED <<blocks, levels, bytes>>
    <3>1. recs = Chunks(bytes, 4)
      BY <1>1, <2>1, HeaderFacts
    <3>2. recs \in Seq(Seq(Word)) /\ AreRecords(recs)
      BY <1>1, <3>1, ChunksType, ChunksAreRecords
    <3> HIDE DEF recs
    <3>3. \A p \in Ids(recs) : PropertyOf(recs, p) \in Property
                               /\ Len(PropertyOf(recs, p).data) = 2
      <4> SUFFICES ASSUME NEW p \in Ids(recs)
                   PROVE  PropertyOf(recs, p) \in Property /\ Len(PropertyOf(recs, p).data) = 2
        OBVIOUS
      <4>1. PropertyOf(recs, p) \in Property
        BY <3>2, PropertyOfIs
      <4>2. PICK j \in DOMAIN recs :
              PropertyOf(recs, p) =
                [type |-> TypeOf(recs[j][2]), data |-> <<recs[j][3], recs[j][4]>>, loaded |-> FALSE]
        BY <3>2, PropertyOfIs
      <4>3. PropertyOf(recs, p).data = <<recs[j][3], recs[j][4]>>
        BY <4>2
      <4>4. Len(<<recs[j][3], recs[j][4]>>) = 2
        OBVIOUS
      <4> QED
        BY <4>1, <4>3, <4>4
    <3>4. DOMAIN props = {}
      BY <2>1 DEF TInv, FreshOK, Constructing
    <3>5. /\ DOMAIN props' \subseteq Word
          /\ \A p \in DOMAIN props' : props'[p] \in Property /\ Len(props'[p].data) = 2
      BY <2>3, <3>2, <3>3, <3>4, IdsAreWords
    <3> QED
      BY <2>1, <2>3, <3>2, <3>5
      DEF TInv, TypeOK, BlocksOK, FreshOK, UnloadedOK, FailCut, Constructing
  <2> QED
    BY <1>8, <2>2, <2>3 DEF ReadRecords
<1>9. CASE \E c \in Calls : AskAbsent(c[1], c[2]) \/ AskKept(c[1], c[2])
                            \/ AskHeap(c[1], c[2]) \/ AskNode(c[1], c[2])
  <2>1. PICK c \in Calls : AskAbsent(c[1], c[2]) \/ AskKept(c[1], c[2])
                           \/ AskHeap(c[1], c[2]) \/ AskNode(c[1], c[2])
    BY <1>9
  <2>2. <<c[1], c[2]>> \in Calls
    BY ImageAssumption
  <2> QED
    BY <2>1, <2>2, AskTInv
<1>10. CASE Cut
  BY <1>1, <1>10 DEF Cut, built, call, TInv, TypeOK, BlocksOK, FreshOK, UnloadedOK, FailCut
<1>11. CASE UNCHANGED vars
  BY <1>11 DEF vars, built, call, TInv, TypeOK, BlocksOK, FreshOK, UnloadedOK, FailCut
<1> QED
  BY <1>4, <1>5, <1>6, <1>7, <1>8, <1>9, <1>10, <1>11 DEF Next

\* The type invariant: what is read is words, cut into records of four, for every heap.
THEOREM TypeCorrect == Spec => []TypeOK
<1>1. TInv => TypeOK
  BY DEF TInv
<1> QED
  BY <1>1, InitTInv, NextTInv, PTL DEF Spec
-----------------------------------------------------------------------------
(* What is in the file. *)

\* The definitions of Properties for an image.
FileOf(i)   == FileRecords(i.blocks, i.root)
RecOf(i, p) == CHOOSE r \in {FileOf(i)[j] : j \in DOMAIN FileOf(i)} : r[1] = p

There(i, r) ==
  \/ IsInRecord(r)
  \/ IdType(HNIDOf(r)) = 0 /\ ~AllocationThrows(i.blocks, HNIDOf(r))
  \/ IdType(HNIDOf(r)) # 0 /\ i.subtree /\ HNIDOf(r) \in DOMAIN i.nodes \ i.broken

Value(i, r) ==
  CASE IsInRecord(r)                             -> HNIDOf(r)
    [] ~IsInRecord(r) /\ IdType(HNIDOf(r)) = 0   -> Allocation(i.blocks, HNIDOf(r))
    [] OTHER                                     -> i.nodes[HNIDOf(r)]

LEMMA OfImage ==
  /\ InFile = FileOf(image) /\ \A p : RecordOf(p) = RecOf(image, p)
  /\ \A r : (IsThere(r) <=> There(image, r)) /\ ValueOf(r) = Value(image, r)
  /\ IndexIsAsLong <=> AsLong(image)
<1>1. InFile = FileOf(image)
  BY DEF InFile, FileOf
<1>2. \A p : RecordOf(p) = RecOf(image, p)
  BY <1>1 DEF RecordOf, RecOf
<1>3. \A r : IsThere(r) <=> There(image, r)
  BY DEF IsThere, There
<1>4. \A r : ValueOf(r) = Value(image, r)
  BY DEF ValueOf, Value
<1>5. IndexIsAsLong <=> AsLong(image)
  BY DEF IndexIsAsLong, AsLong, HeaderOf
<1> QED
  BY <1>1, <1>2, <1>3, <1>4, <1>5

LEMMA RecOfFacts ==
  ASSUME NEW i \in Images, i.pc, AreRecords(FileOf(i)), NEW p \in Ids(FileOf(i))
  PROVE  LET r == RecOf(i, p)
         IN  /\ \E j \in DOMAIN FileOf(i) : r = FileOf(i)[j]
             /\ r[1] = p /\ r[2] \in Word /\ HNIDOf(r) \in Id
             /\ PropertyOf(FileOf(i), p) =
                  [type |-> TypeOf(r[2]), data |-> HNIDOf(r), loaded |-> FALSE]
             /\ FixedAndLong(r[2]) /\ ~MultiValued(r[2]) => IdType(HNIDOf(r)) = 0
<1> DEFINE recs == FileOf(i)
           r == RecOf(i, p)
<1>1. \A j \in DOMAIN recs :
        /\ \A k \in DOMAIN recs : recs[j][1] = recs[k][1] => j = k
        /\ (FixedAndLong(recs[j][2]) /\ ~MultiValued(recs[j][2]))
             => IdType(<<recs[j][3], recs[j][4]>>) = 0
  BY ImageAssumption DEF ImageOf, FileOf
<1>2. \E j \in DOMAIN recs : recs[j][1] = p
  BY DEF Ids
<1> HIDE DEF recs
<1>3. r = CHOOSE x \in {recs[j] : j \in DOMAIN recs} : x[1] = p
  BY DEF RecOf, recs
<1>4. r \in {recs[j] : j \in DOMAIN recs} /\ r[1] = p
  BY <1>2, <1>3
<1> HIDE DEF r
<1>5. PICK j \in DOMAIN recs : r = recs[j]
  BY <1>4
<1>6. PICK k \in DOMAIN recs :
        /\ recs[k][1] = p
        /\ PropertyOf(recs, p) =
             [type |-> TypeOf(recs[k][2]), data |-> <<recs[k][3], recs[k][4]>>, loaded |-> FALSE]
  BY PropertyOfIs DEF recs
<1>7. k = j
  BY <1>1, <1>4, <1>5, <1>6
<1>8. r[2] \in Word /\ r[3] \in Word /\ r[4] \in Word
  BY <1>5 DEF AreRecords, recs
<1>9. HNIDOf(r) = <<r[3], r[4]>> /\ HNIDOf(r) \in Id
  BY <1>8 DEF HNIDOf, Id
<1>10. PropertyOf(recs, p) = [type |-> TypeOf(r[2]), data |-> HNIDOf(r), loaded |-> FALSE]
  BY <1>5, <1>6, <1>7, <1>9
<1>11. FixedAndLong(r[2]) /\ ~MultiValued(r[2]) => IdType(HNIDOf(r)) = 0
  BY <1>1, <1>5, <1>9
<1> QED
  BY <1>4, <1>5, <1>8, <1>9, <1>10, <1>11 DEF r, recs

\* Where a value is by the type that the code knows it by.
LEMMA TypeFacts ==
  ASSUME NEW t \in Word
  PROVE  /\ TypeOf(t) = 1 \/ (Known(t) /\ TypeOf(t) = t)
         /\ t \in {2, 3, 4, 10, 11} => DataIsInHNID(TypeOf(t))
         /\ DataIsInHNID(TypeOf(t)) /\ ~MultiValued(t) => t \in {2, 3, 4, 10, 11}
         /\ FixedAndLong(TypeOf(t)) /\ Known(t) => FixedAndLong(t)
<1>1. TypeOf(t) = 1 \/ (Known(t) /\ TypeOf(t) = t)
  BY TypeOfFacts
<1>2. t \in {2, 3, 4, 10, 11} => DataIsInHNID(TypeOf(t))
  <2>1. t \in {2, 3, 4, 10, 11} => Known(t)
    BY DEF Known, Implemented
  <2> QED
    BY <2>1, TypeOfFacts DEF DataIsInHNID
<1>3. DataIsInHNID(TypeOf(t)) /\ ~MultiValued(t) => t \in {2, 3, 4, 10, 11}
  <2>1. ~DataIsInHNID(1)
    BY DEF DataIsInHNID
  <2>2. DataIsInHNID(t) /\ ~MultiValued(t) => t \in {2, 3, 4, 10, 11}
    BY WordFacts DEF DataIsInHNID, MultiValued
  <2> QED
    BY <1>1, <2>1, <2>2
<1>4. FixedAndLong(TypeOf(t)) /\ Known(t) => FixedAndLong(t)
  BY TypeOfFacts
<1> QED
  BY <1>1, <1>2, <1>3, <1>4
-----------------------------------------------------------------------------
(* The records and the values are the file's. *)

\* The level that was read is the file's, and so are the records in the end.
LevelOK ==
  LET H == HeaderOf(image)
  IN  AsLong(image) =>
        /\ pc = "level" => /\ levels \in 1..IdxLevels(H)
                           /\ bytes = LevelOf(image)[IdxLevels(H) - levels]
        /\ pc = "records" => bytes = IF HidRoot(H) = <<0, 0>> THEN <<>>
                                     ELSE LevelOf(image)[IdxLevels(H)]
        /\ pc = "idle" => records = FileOf(image) /\ AreRecords(records)

\* A property is that of its record: what it names while it is not loaded, and its value
\* once it is, but for one that was asked for when reads failed.
PropIs(i, r, prop, failed) ==
  /\ prop.type = TypeOf(r[2])
  /\ ~prop.loaded => prop.data = HNIDOf(r)
  /\ prop.loaded => ~DataIsInHNID(prop.type)
  /\ (prop.loaded /\ ~failed /\ There(i, r) /\ ~MultiValued(r[2]) /\ Known(r[2]))
       => prop.data = Value(i, r)

PropsOK ==
  (pc = "idle" /\ image.pc /\ AsLong(image)) =>
    /\ DOMAIN props = Ids(FileOf(image))
    /\ \A p \in DOMAIN props : PropIs(image, RecOf(image, p), props[p], fail)

\* AnswerIsTheValue for a call.
AnswerIs(i, a, ans) ==
  IF a[1] \in Ids(FileOf(i))
  THEN LET r == RecOf(i, a[1])
       IN  \/ MultiValued(r[2]) \/ ~There(i, r)
           \/ ans = IF r[2] = a[2] THEN Value(i, r) ELSE None
  ELSE ans = Threw

AnswerOK ==
  (pc = "idle" /\ asked # None /\ ~fail /\ AsLong(image)) => AnswerIs(image, asked, answer)

\* EndsOnlyOn for a call.
Lost(i, a) == a # None /\ a[1] \in Ids(FileOf(i)) /\ ~There(i, RecOf(i, a[1]))
Many(i, a) == a # None /\ a[1] \in Ids(FileOf(i)) /\ MultiValued(RecOf(i, a[1])[2])

Unread(i) ==
  \/ \E b \in DOMAIN i.blocks : ~PageMapAsserted(i.blocks[b])
  \/ ~AsLong(i)
  \/ \E j \in DOMAIN FileOf(i) : ~Implemented(FileOf(i)[j][2])

EndsOK ==
  ~cut => /\ pc = "aborted" => Unread(image) \/ Lost(image, asked) \/ Many(image, asked)
          /\ pc = "undefined" => Lost(image, asked) \/ ~AsLong(image)
          /\ pc = "thrown" => ~AsLong(image)

BInv == LevelOK /\ PropsOK /\ AnswerOK /\ EndsOK

\* The cases of a call on property p, whose record is r.
LEMMA AskRecord ==
  ASSUME TInv, BInv, NEW p, NEW t, <<p, t>> \in Calls, AsLong(image),
         Asks(p, t), p \in DOMAIN props
  PROVE  LET r == RecOf(image, p)
         IN  /\ p \in Ids(FileOf(image)) /\ PropIs(image, r, props[p], fail)
             /\ r[2] \in Word /\ HNIDOf(r) \in Id
             /\ FixedAndLong(r[2]) /\ ~MultiValued(r[2]) => IdType(HNIDOf(r)) = 0
             /\ ~Implemented(r[2]) => Unread(image)
             /\ ~Kept(p) => /\ <<props[p].data[1], props[p].data[2]>> = HNIDOf(r)
                            /\ props[p].data = HNIDOf(r) /\ Len(props[p].data) = 2
                            /\ ~IsInRecord(r)
<1> DEFINE r == RecOf(image, p)
<1>1. pc = "idle" /\ image.pc /\ image \in Images
  BY DEF Asks, TInv, TypeOK
<1>2. p \in Ids(FileOf(image)) /\ PropIs(image, r, props[p], fail)
  BY <1>1 DEF BInv, PropsOK
<1>3. AreRecords(FileOf(image))
  BY <1>1 DEF BInv, LevelOK
<1>4. /\ r[2] \in Word /\ HNIDOf(r) \in Id
      /\ FixedAndLong(r[2]) /\ ~MultiValued(r[2]) => IdType(HNIDOf(r)) = 0
      /\ \E j \in DOMAIN FileOf(image) : r = FileOf(image)[j]
  BY <1>1, <1>2, <1>3, RecOfFacts
<1>5. ~Implemented(r[2]) => Unread(image)
  BY <1>4 DEF Unread
<1> HIDE DEF r
<1>6. ASSUME ~Kept(p)
      PROVE  /\ <<props[p].data[1], props[p].data[2]>> = HNIDOf(r)
             /\ props[p].data = HNIDOf(r) /\ Len(props[p].data) = 2 /\ ~IsInRecord(r)
  <2>1. ~props[p].loaded /\ ~DataIsInHNID(props[p].type)
    BY <1>6 DEF Kept
  <2>2. props[p].data = HNIDOf(r) /\ props[p].type = TypeOf(r[2])
    BY <1>2, <2>1 DEF PropIs
  <2>3. Len(props[p].data) = 2
    BY <2>1 DEF TInv, UnloadedOK
  <2>4. HNIDOf(r) = <<HNIDOf(r)[1], HNIDOf(r)[2]>>
    BY <1>4, IdFacts
  <2>5. ~IsInRecord(r)
    BY <1>4, <2>1, <2>2, TypeFacts DEF IsInRecord
  <2> QED
    BY <2>2, <2>3, <2>4, <2>5
<1> QED
  BY <1>2, <1>4, <1>5, <1>6 DEF r

\* When data d arrives for p, it is what p has from now on and what is answered.
LEMMA LoadsRight ==
  ASSUME TInv, BInv, NEW p, NEW t, <<p, t>> \in Calls, AsLong(image),
         Asks(p, t), p \in DOMAIN props, ~Kept(p), NEW d \in Seq(Word), Loads(p, t, d),
         fail => fail',
         LET r == RecOf(image, p)
         IN  (~fail' /\ There(image, r) /\ ~MultiValued(r[2]) /\ Known(r[2])) => d = Value(image, r)
  PROVE  /\ DOMAIN props' = DOMAIN props
         /\ \A q \in DOMAIN props : PropIs(image, RecOf(image, q), props'[q], fail')
         /\ ~fail' => AnswerIs(image, <<p, t>>, answer')
<1> DEFINE r == RecOf(image, p)
<1>1. pc = "idle" /\ image.pc
  BY DEF Asks
<1>2. \A q \in DOMAIN props : PropIs(image, RecOf(image, q), props[q], fail)
  BY <1>1 DEF BInv, PropsOK
<1>3. /\ DOMAIN props' = DOMAIN props
      /\ props'[p] = [type |-> props[p].type, data |-> d, loaded |-> TRUE]
      /\ \A q \in DOMAIN props : q # p => props'[q] = props[q]
      /\ answer' = IF props[p].type = t THEN d ELSE None
  BY LoadsFacts
<1>4. r[2] \in Word /\ p \in Ids(FileOf(image)) /\ props[p].type = TypeOf(r[2])
  BY AskRecord DEF PropIs
<1>5. Known(t) /\ t # 1
  BY ImageAssumption
<1>6. (~fail' /\ There(image, r) /\ ~MultiValued(r[2]) /\ Known(r[2])) => d = Value(image, r)
  OBVIOUS
<1> HIDE DEF r
<1>7. props'[p].type = TypeOf(r[2]) /\ props'[p].data = d /\ props'[p].loaded
  BY <1>3, <1>4
<1>8. PropIs(image, r, props'[p], fail')
  <2>1. ~DataIsInHNID(props'[p].type)
    BY <1>4, <1>7 DEF Kept
  <2> QED
    BY <1>6, <1>7, <2>1 DEF PropIs
<1>9. \A q \in DOMAIN props : q # p => PropIs(image, RecOf(image, q), props'[q], fail')
  BY <1>2, <1>3 DEF PropIs
<1>10. ASSUME ~fail' PROVE AnswerIs(image, <<p, t>>, answer')
  <2>1. (props[p].type = t) <=> r[2] = t
    BY <1>4, <1>5, TypeFacts, TypeOfFacts
  <2>2. MultiValued(r[2]) \/ ~There(image, r) \/ answer' = IF r[2] = t THEN Value(image, r) ELSE None
    BY <1>3, <1>5, <1>6, <1>10, <2>1
  <2> QED
    BY <1>4, <2>2 DEF AnswerIs, r
<1> QED
  BY <1>3, <1>8, <1>9, <1>10 DEF r
\* What a call must leave behind.
AskedWell(p, t) ==
  /\ pc' \in {"idle", "aborted", "undefined"}
  /\ pc' = "idle" =>
       /\ DOMAIN props' = DOMAIN props
       /\ \A q \in DOMAIN props : PropIs(image, RecOf(image, q), props'[q], fail')
       /\ ~fail' => AnswerIs(image, <<p, t>>, answer')
  /\ ~cut => /\ pc' = "aborted" => Unread(image) \/ Lost(image, <<p, t>>) \/ Many(image, <<p, t>>)
             /\ pc' = "undefined" => Lost(image, <<p, t>>)

LEMMA AskWell ==
  ASSUME TInv, BInv, NEW p, NEW t, <<p, t>> \in Calls, AsLong(image),
         AskAbsent(p, t) \/ AskKept(p, t) \/ AskHeap(p, t) \/ AskNode(p, t)
  PROVE  AskedWell(p, t)
<1> DEFINE r == RecOf(image, p)
<1>1. pc = "idle" /\ image.pc /\ image \in Images /\ blocks = image.blocks /\ Asks(p, t)
  BY DEF TInv, TypeOK, BlocksOK, AskAbsent, AskKept, AskHeap, AskNode, Asks
<1>2. /\ DOMAIN props = Ids(FileOf(image))
      /\ \A q \in DOMAIN props : PropIs(image, RecOf(image, q), props[q], fail)
  BY <1>1 DEF BInv, PropsOK
<1>3. Known(t) /\ t # 1 /\ <<p, t>> # None
  <2>1. <<p, t>> \in Seq(Word)
    <3>1. p \in Word /\ t \in Word
      BY ImageAssumption
    <3> QED
      BY <3>1
  <2> QED
    BY <2>1, ImageAssumption
<1>4. (fail => cut) /\ fail \in BOOLEAN
  BY DEF TInv, FailCut, TypeOK
<1>5. p \in DOMAIN props =>
        /\ p \in Ids(FileOf(image)) /\ PropIs(image, r, props[p], fail)
        /\ r[2] \in Word /\ HNIDOf(r) \in Id
        /\ FixedAndLong(r[2]) /\ ~MultiValued(r[2]) => IdType(HNIDOf(r)) = 0
        /\ ~Implemented(r[2]) => Unread(image)
        /\ ~Kept(p) => /\ <<props[p].data[1], props[p].data[2]>> = HNIDOf(r)
                       /\ props[p].data = HNIDOf(r) /\ Len(props[p].data) = 2
                       /\ ~IsInRecord(r)
  BY <1>1, AskRecord
<1>6. p \in DOMAIN props =>
        /\ ~There(image, r) => Lost(image, <<p, t>>)
        /\ MultiValued(r[2]) => Many(image, <<p, t>>)
  BY <1>3, <1>5 DEF Lost, Many
<1>7. ASSUME p \in DOMAIN props, MultiValued(r[2]) \/ ~There(image, r)
      PROVE  \A a : AnswerIs(image, <<p, t>>, a)
  BY <1>5, <1>7 DEF AnswerIs
<1>8. CASE AskAbsent(p, t)
  <2>1. p \notin DOMAIN props /\ answer' = Threw /\ props' = props /\ fail' = fail /\ pc' = pc
    BY <1>8 DEF AskAbsent
  <2>2. AnswerIs(image, <<p, t>>, answer')
    BY <1>2, <2>1 DEF AnswerIs
  <2> QED
    BY <1>1, <1>2, <2>1, <2>2 DEF AskedWell
<1>9. CASE AskKept(p, t)
  <2>1. p \in DOMAIN props /\ Kept(p) /\ answer' = (IF props[p].type = t THEN props[p].data ELSE None)
        /\ props' = props /\ fail' = fail /\ pc' = pc
    BY <1>9 DEF AskKept, Returned
  <2>2. ASSUME ~fail, ~MultiValued(r[2]), There(image, r)
        PROVE  answer' = IF r[2] = t THEN Value(image, r) ELSE None
    <3>1. props[p].type = TypeOf(r[2])
      BY <1>5, <2>1 DEF PropIs
    <3>2. (props[p].type = t) <=> r[2] = t
      BY <1>3, <1>5, <2>1, <3>1, TypeFacts, TypeOfFacts
    <3>3. ASSUME r[2] = t PROVE props[p].data = Value(image, r)
      <4>1. CASE props[p].loaded
        BY <1>3, <1>5, <2>1, <2>2, <3>3, <4>1 DEF PropIs
      <4>2. CASE ~props[p].loaded
        <5>1. DataIsInHNID(props[p].type)
          BY <2>1, <4>2 DEF Kept
        <5>2. IsInRecord(r)
          BY <1>5, <2>1, <2>2, <3>1, <5>1, TypeFacts DEF IsInRecord
        <5>3. props[p].data = HNIDOf(r)
          BY <1>5, <2>1, <4>2 DEF PropIs
        <5> QED
          BY <5>2, <5>3 DEF Value
      <4> QED
        BY <4>1, <4>2
    <3> QED
      BY <2>1, <3>2, <3>3
  <2>3. ~fail => AnswerIs(image, <<p, t>>, answer')
    <3>1. ~fail => (MultiValued(r[2]) \/ ~There(image, r)
                      \/ answer' = IF r[2] = t THEN Value(image, r) ELSE None)
      BY <2>2
    <3> QED
      BY <1>5, <2>1, <3>1 DEF AnswerIs
  <2> QED
    BY <1>1, <1>2, <2>1, <2>3 DEF AskedWell
<1>10. CASE AskHeap(p, t)
  <2> DEFINE hid == <<props[p].data[1], props[p].data[2]>>
  <2>1. p \in DOMAIN props /\ ~Kept(p) /\ DataIsInHeap(p) /\ fail' = fail
    BY <1>10 DEF AskHeap
  <2>2. hid = HNIDOf(r) /\ ~IsInRecord(r) /\ Len(props[p].data) = 2
        /\ props[p].type = TypeOf(r[2]) /\ r[2] \in Word /\ props[p].data = HNIDOf(r)
    BY <1>5, <2>1 DEF PropIs
  <2>3. ASSUME IdType(HNIDOf(r)) # 0 PROVE ~Known(r[2]) \/ MultiValued(r[2])
    <3>1. FixedAndLong(TypeOf(r[2]))
      BY <2>1, <2>2, <2>3 DEF DataIsInHeap
    <3> QED
      BY <1>5, <2>1, <2>2, <2>3, <3>1, TypeFacts
  <2>4. CASE (assertsOn /\ (Len(props[p].data) # 2 \/ IdType(hid) # 0)) /\ Stops("aborted")
    <3>1. ~Known(r[2]) \/ MultiValued(r[2])
      BY <2>2, <2>3, <2>4
    <3>2. Unread(image) \/ Many(image, <<p, t>>)
      BY <1>5, <1>6, <2>1, <3>1 DEF Known
    <3> QED
      BY <2>4, <3>2 DEF AskedWell, Stops
  <2>5. CASE AllocationThrows(blocks, hid) /\ Throws
    <3>1. IdType(HNIDOf(r)) = 0
      BY <2>2, <2>5 DEF AllocationThrows, IsHIDValid
    <3>2. ~There(image, r)
      BY <1>1, <2>2, <2>5, <3>1 DEF There
    <3> QED
      BY <1>1, <1>2, <1>7, <2>1, <2>5, <3>2 DEF AskedWell, Throws
  <2>6. CASE ~AllocationThrows(blocks, hid) /\ Loads(p, t, Allocation(blocks, hid))
    <3>1. Allocation(blocks, hid) \in Seq(Word)
      BY <1>1, <1>5, <2>1, <2>2, <2>6, AllocationType, HeaderFacts
    <3>2. (There(image, r) /\ ~MultiValued(r[2]) /\ Known(r[2]))
            => Allocation(blocks, hid) = Value(image, r)
      BY <1>1, <2>2, <2>3 DEF Value
    <3>3. pc' = pc
      BY <2>6 DEF Loads
    <3>4. /\ DOMAIN props' = DOMAIN props
          /\ \A q \in DOMAIN props : PropIs(image, RecOf(image, q), props'[q], fail')
          /\ ~fail' => AnswerIs(image, <<p, t>>, answer')
      <4> HIDE DEF hid, r
      <4> QED
        BY <1>1, <2>1, <2>6, <3>1, <3>2, LoadsRight DEF r
    <3> QED
      BY <1>1, <3>3, <3>4 DEF AskedWell
  <2> QED
    BY <1>10, <2>4, <2>5, <2>6 DEF AskHeap
<1>11. CASE AskNode(p, t)
  <2> DEFINE nid == <<props[p].data[1], props[p].data[2]>>
  <2>1. p \in DOMAIN props /\ ~Kept(p) /\ ~DataIsInHeap(p)
    BY <1>11 DEF AskNode
  <2>2. nid = HNIDOf(r) /\ ~IsInRecord(r) /\ Len(props[p].data) = 2
        /\ props[p].data = HNIDOf(r) /\ IdType(HNIDOf(r)) # 0 /\ HNIDOf(r) \in Id
    BY <1>5, <2>1 DEF DataIsInHeap
  <2> HIDE DEF nid
  <2>3. CASE ~image.subtree /\ Loads(p, t, props[p].data) /\ fail' = fail
    <3>1. ~There(image, r)
      BY <2>2, <2>3 DEF There
    <3>2. props[p].data \in Seq(Word)
      BY <2>1 DEF TInv, TypeOK, Property
    <3>3. pc' = pc
      BY <2>3 DEF Loads
    <3>4. /\ DOMAIN props' = DOMAIN props
          /\ \A q \in DOMAIN props : PropIs(image, RecOf(image, q), props'[q], fail')
          /\ ~fail' => AnswerIs(image, <<p, t>>, answer')
      BY <1>1, <2>1, <2>3, <3>1, <3>2, LoadsRight
    <3> QED
      BY <1>1, <3>3, <3>4 DEF AskedWell
  <2>4. CASE nid \notin DOMAIN image.nodes /\ (Stops("aborted") \/ Stops("undefined")) /\ fail' = fail
    <3>1. ~There(image, r)
      BY <2>2, <2>4 DEF There
    <3> QED
      BY <1>6, <2>1, <2>4, <3>1 DEF AskedWell, Stops
  <2>5. CASE nid \in image.broken /\ Throws /\ fail' = fail
    <3>1. ~There(image, r)
      BY <2>2, <2>5 DEF There
    <3> QED
      BY <1>1, <1>2, <1>7, <2>1, <2>5, <3>1 DEF AskedWell, Throws
  <2>6. ASSUME nid \in DOMAIN image.nodes, NEW arrived \in BOOLEAN, Arrival(arrived),
               IF arrived THEN Loads(p, t, image.nodes[nid])
               ELSE IF assertsOn THEN Stops("aborted") ELSE Loads(p, t, <<>>)
        PROVE  AskedWell(p, t)
    <3>1. fail' = ~arrived /\ (fail => fail') /\ (~cut => arrived)
      BY <1>4, <2>6 DEF Arrival
    <3>2. image.nodes[nid] \in Seq(Word) /\ <<>> \in Seq(Word)
      BY <1>1, <2>6, ImageAssumption, EmptySeq DEF ImageOf
    <3>3. CASE ~arrived /\ Stops("aborted")
      BY <3>1, <3>3 DEF AskedWell, Stops
    <3>4. ASSUME NEW d \in Seq(Word), Loads(p, t, d), arrived => d = image.nodes[nid]
          PROVE  AskedWell(p, t)
      <4>1. (~fail' /\ There(image, r) /\ ~MultiValued(r[2]) /\ Known(r[2])) => d = Value(image, r)
        BY <2>2, <3>1, <3>4 DEF Value
      <4>2. pc' = pc
        BY <3>4 DEF Loads
      <4>3. /\ DOMAIN props' = DOMAIN props
            /\ \A q \in DOMAIN props : PropIs(image, RecOf(image, q), props'[q], fail')
            /\ ~fail' => AnswerIs(image, <<p, t>>, answer')
        BY <1>1, <2>1, <3>1, <3>4, <4>1, LoadsRight
      <4> QED
        BY <1>1, <4>2, <4>3 DEF AskedWell
    <3> QED
      BY <2>6, <3>2, <3>3, <3>4
  <2>7. \/ ~image.subtree /\ Loads(p, t, props[p].data) /\ fail' = fail
        \/ nid \notin DOMAIN image.nodes /\ (Stops("aborted") \/ Stops("undefined")) /\ fail' = fail
        \/ nid \in image.broken /\ Throws /\ fail' = fail
        \/ /\ nid \in DOMAIN image.nodes
           /\ \E arrived \in BOOLEAN :
                /\ Arrival(arrived)
                /\ IF arrived THEN Loads(p, t, image.nodes[nid])
                   ELSE IF assertsOn THEN Stops("aborted") ELSE Loads(p, t, <<>>)
    BY <1>11 DEF AskNode, nid
  <2> QED
    BY <2>3, <2>4, <2>5, <2>6, <2>7
<1> QED
  BY <1>8, <1>9, <1>10, <1>11
LEMMA InitBInv == Init => BInv
  BY DEF Init, BInv, LevelOK, PropsOK, AnswerOK, EndsOK

\* A step of the construction that ends it in a way that EndsOK allows, or goes on to a
\* level that is the file's.
LEMMA BuildBInv ==
  ASSUME TInv, BInv, pc \in Constructing, pc' # "idle",
         UNCHANGED <<assertsOn, image, cut, asked>>, LevelOK',
         ~cut => /\ pc' = "aborted" => Unread(image)
                 /\ pc' = "undefined" => ~AsLong(image)
                 /\ pc' = "thrown" => ~AsLong(image)
  PROVE  BInv'
<1>1. PropsOK' /\ AnswerOK'
  BY DEF PropsOK, AnswerOK
<1>2. EndsOK'
  BY DEF EndsOK
<1> QED
  BY <1>1, <1>2 DEF BInv

LEMMA NextBInv == TInv /\ BInv /\ [Next]_vars => BInv'
<1> SUFFICES ASSUME TInv, BInv, [Next]_vars PROVE BInv'
  OBVIOUS
<1> DEFINE H == HeaderOf(image)
<1>1. image \in Images /\ (fail => cut) /\ fail \in BOOLEAN /\ bytes \in Seq(Word)
  BY DEF TInv, TypeOK, FailCut
<1>2. /\ RecordSize(H) = 4 /\ IdxLevels(H) \in Nat /\ HeaderAsserted(H)
      /\ H = NamedBy(image.blocks, image.root) /\ (image.pc <=> EntSize(H) = 6) /\ image.pc \in BOOLEAN
  BY <1>1, HeaderFacts
<1>3. ASSUME blocks = image.blocks PROVE Header = H
  BY <1>3 DEF Header, HeaderOf
<1> HIDE DEF H
<1>4. LevelOK
  BY DEF BInv
<1>5. CASE LoadTree
  <2>1. /\ pc = "tree" /\ UNCHANGED <<assertsOn, image, cut, asked>>
        /\ pc' \in {"blocks", "aborted", "undefined"} /\ (~cut => pc' = "blocks")
    <3>1. PICK arrived \in BOOLEAN :
            /\ Arrival(arrived)
            /\ pc' = IF arrived THEN "blocks" ELSE IF assertsOn THEN "aborted" ELSE "undefined"
      BY <1>5 DEF LoadTree
    <3>2. ~cut => arrived
      BY <1>1, <3>1 DEF Arrival
    <3> QED
      BY <1>5, <3>1, <3>2 DEF LoadTree, call
  <2>2. LevelOK'
    BY <2>1 DEF LevelOK
  <2> QED
    BY <2>1, <2>2, BuildBInv DEF Constructing
<1>6. CASE AddBlock
  <2>1. /\ pc = "blocks" /\ UNCHANGED <<assertsOn, image, cut, asked>>
        /\ pc' \in {"aborted", "bth", "blocks"}
    BY <1>6 DEF AddBlock, call, Ends
  <2>2. pc' = "aborted" => Unread(image)
    <3> SUFFICES ASSUME pc' = "aborted" PROVE Unread(image)
      OBVIOUS
    <3>1. ~PageMapAsserted(image.blocks[Len(blocks) + 1])
      BY <1>6 DEF AddBlock
    <3>2. Len(blocks) + 1 \in DOMAIN image.blocks
      <4>1. Len(blocks) < Len(image.blocks) /\ blocks \in Seq(Seq(Seq(Word)))
        BY <2>1 DEF TInv, BlocksOK, TypeOK
      <4>2. image.blocks \in Seq(Seq(Seq(Word)))
        BY <1>1, HeaderFacts
      <4> QED
        BY <4>1, <4>2
    <3> QED
      BY <3>1, <3>2 DEF Unread
  <2>3. LevelOK'
    BY <2>1 DEF LevelOK
  <2> QED
    BY <2>1, <2>2, <2>3, BuildBInv DEF Constructing
<1>7. CASE ReadHeader
  <2>1. pc = "bth" /\ UNCHANGED <<assertsOn, image, cut, asked>>
        /\ blocks = image.blocks /\ Header = H /\ bytes = <<>>
    BY <1>3, <1>7 DEF ReadHeader, call, TInv, BlocksOK, FreshOK
  <2>2. CASE HidRoot(H) = <<0, 0>>
    <3>1. pc' = "records" /\ bytes' = bytes
      BY <1>2, <1>7, <2>1, <2>2 DEF ReadHeader, Ends, built
    <3>2. LevelOK'
      BY <2>1, <2>2, <3>1 DEF LevelOK, H
    <3> QED
      BY <2>1, <3>1, <3>2, BuildBInv DEF Constructing
  <2>3. CASE HidRoot(H) # <<0, 0>>
    <3>1. /\ ~AllocationThrows(image.blocks, HidRoot(H))
          /\ LevelOf(image)[0] = Allocation(image.blocks, HidRoot(H))
      BY <1>1, <2>3, TreeFacts DEF H
    <3>2. /\ bytes' = LevelOf(image)[0] /\ levels' = IdxLevels(H)
          /\ pc' = IF IdxLevels(H) > 0 THEN "level" ELSE "records"
      BY <1>2, <1>7, <2>1, <2>3, <3>1 DEF ReadHeader
    <3>3. LevelOK'
      <4>1. CASE IdxLevels(H) > 0
        <5>1. pc' = "level" /\ levels' \in 1..IdxLevels(H) /\ IdxLevels(H) - levels' = 0
          BY <1>2, <3>2, <4>1
        <5> QED
          BY <2>1, <3>2, <5>1 DEF LevelOK, H
      <4>2. CASE ~(IdxLevels(H) > 0)
        <5>1. pc' = "records" /\ IdxLevels(H) = 0
          BY <1>2, <3>2, <4>2
        <5> QED
          BY <2>1, <2>3, <3>2, <5>1 DEF LevelOK, H
      <4> QED
        BY <4>1, <4>2
    <3> QED
      BY <2>1, <3>2, <3>3, BuildBInv DEF Constructing
  <2> QED
    BY <2>2, <2>3
<1>8. CASE ReadLevel
  <2> DEFINE hids == NextLevelHIDs(H, bytes)
  <2>1. /\ pc = "level" /\ UNCHANGED <<assertsOn, image, cut, asked>>
        /\ blocks = image.blocks /\ Header = H /\ HidRoot(H) # <<0, 0>>
        /\ pc' \in {"aborted", "thrown", "level", "records"}
    BY <1>3, <1>8 DEF ReadLevel, call, Ends, TInv, BlocksOK, FreshOK, H
  <2>2. CASE ~AsLong(image)
    <3>1. LevelOK'
      BY <2>1, <2>2 DEF LevelOK
    <3>2. Unread(image)
      BY <2>2 DEF Unread
    <3> QED
      BY <2>1, <2>2, <3>1, <3>2, BuildBInv DEF Constructing
  <2>3. CASE AsLong(image)
    <3> DEFINE n == IdxLevels(H) - levels
    <3>1. levels \in 1..IdxLevels(H) /\ bytes = LevelOf(image)[n]
      BY <1>4, <2>1, <2>3 DEF LevelOK, H
    <3>2. n \in 0..(IdxLevels(H) - 1) /\ n + 1 = IdxLevels(H) - (levels - 1)
      BY <1>2, <3>1
    <3> HIDE DEF n
    <3>3. /\ Len(bytes) % RecordSize(H) = 0 /\ EntSize(H) = 4
          /\ \A j \in DOMAIN hids : ~AllocationThrows(image.blocks, hids[j])
          /\ FlattenSeq([j \in DOMAIN hids |-> Allocation(image.blocks, hids[j])]) = LevelOf(image)[n + 1]
      BY <1>1, <2>1, <2>3, <3>1, <3>2, NextLevelIs DEF H
    <3> HIDE DEF hids
    <3>4. LevelAsserted(Header, levels, bytes)
      BY <2>1, <3>3 DEF LevelAsserted
    <3>5. /\ bytes' = LevelOf(image)[n + 1] /\ levels' = levels - 1
          /\ pc' = IF levels = 1 THEN "records" ELSE "level"
      BY <1>8, <2>1, <3>3, <3>4 DEF ReadLevel, hids
    <3>6. LevelOK'
      <4>1. CASE levels = 1
        <5>1. n + 1 = IdxLevels(H) /\ pc' = "records"
          BY <1>2, <3>2, <3>5, <4>1
        <5> QED
          BY <2>1, <3>5, <5>1 DEF LevelOK, H
      <4>2. CASE levels # 1
        <5>1. pc' = "level" /\ levels' \in 1..IdxLevels(H) /\ n + 1 = IdxLevels(H) - levels'
          BY <1>2, <3>1, <3>2, <3>5, <4>2
        <5> QED
          BY <2>1, <3>5, <5>1 DEF LevelOK, H
      <4> QED
        BY <4>1, <4>2
    <3>7. pc' \in {"records", "level"}
      BY <3>5
    <3> QED
      BY <2>1, <3>6, <3>7, BuildBInv DEF Constructing
  <2> QED
    BY <2>2, <2>3
<1>9. CASE ReadRecords
  <2> DEFINE recs == Chunks(bytes, 4)
  <2>1. /\ pc = "records" /\ UNCHANGED <<assertsOn, image, cut, asked, fail>>
        /\ blocks = image.blocks /\ Header = H /\ RecordSize(Header) = 4
        /\ asked = None /\ pc' \in {"aborted", "idle"}
    BY <1>2, <1>3, <1>9 DEF ReadRecords, call, Ends, TInv, BlocksOK, FreshOK, Constructing
  <2>2. AreRecords(recs)
    BY <1>1, ChunksAreRecords
  <2>3. CASE ~AsLong(image)
    <3>1. LevelOK' /\ PropsOK' /\ AnswerOK'
      BY <2>1, <2>3 DEF LevelOK, PropsOK, AnswerOK
    <3>2. EndsOK'
      BY <2>1, <2>3 DEF EndsOK, Unread
    <3> QED
      BY <3>1, <3>2 DEF BInv
  <2>4. CASE AsLong(image)
    <3>1. recs = FileOf(image) /\ Len(bytes) % 4 = 0
      <4>1. bytes = IF HidRoot(H) = <<0, 0>> THEN <<>> ELSE LevelOf(image)[IdxLevels(H)]
        BY <1>4, <2>1, <2>4 DEF LevelOK, H
      <4>2. CASE HidRoot(H) = <<0, 0>>
        <5>1. Len(bytes) = 0
          BY <4>1, <4>2
        <5>2. 0 % 4 = 0 /\ 0 \div 4 = 0
          OBVIOUS
        <5>3. recs = [j \in 1..0 |-> SubSeq(bytes, (j - 1) * 4 + 1, j * 4)]
          BY <5>1, <5>2 DEF Chunks
        <5>4. recs = <<>>
          BY <5>3
        <5>5. FileOf(image) = <<>>
          BY <1>2, <4>2 DEF FileOf, FileRecords
        <5> QED
          BY <5>1, <5>2, <5>4, <5>5
      <4>3. CASE HidRoot(H) # <<0, 0>>
        <5>1. bytes = LevelOf(image)[IdxLevels(H)]
          BY <4>1, <4>3
        <5>2. FileOf(image) = Chunks(LevelOf(image)[IdxLevels(H)], 4)
          BY <1>2, <4>3 DEF FileOf, FileRecords, LevelOf, H
        <5>3. Len(LevelOf(image)[IdxLevels(H)]) % 4 = 0
          BY <1>1, <4>3, TreeFacts DEF H
        <5> QED
          BY <5>1, <5>2, <5>3
      <4> QED
        BY <4>2, <4>3
    <3> HIDE DEF recs
    <3>2. LevelAsserted(Header, 0, bytes)
      BY <2>1, <3>1 DEF LevelAsserted
    <3>3. CASE pc' = "aborted"
      <4>1. image.pc /\ ~MetaPropsAsserted(FileOf(image))
        BY <1>9, <2>1, <3>1, <3>2, <3>3 DEF ReadRecords, recs
      <4>2. \A j, k \in DOMAIN FileOf(image) : FileOf(image)[j][1] = FileOf(image)[k][1] => j = k
        BY <1>1, <4>1, ImageAssumption DEF ImageOf, FileOf
      <4>3. Unread(image)
        BY <4>1, <4>2 DEF MetaPropsAsserted, Unread
      <4>4. LevelOK'
        BY <2>1, <3>3 DEF LevelOK
      <4> QED
        BY <2>1, <3>3, <4>3, <4>4, BuildBInv DEF Constructing
    <3>4. CASE pc' = "idle"
      <4>1. /\ records' = FileOf(image)
            /\ props' = IF image.pc THEN [p \in Ids(FileOf(image)) |-> PropertyOf(FileOf(image), p)]
                        ELSE props
        BY <1>9, <2>1, <3>1, <3>4 DEF ReadRecords, Ends, recs
      <4>2. LevelOK'
        BY <2>1, <2>2, <3>1, <3>4, <4>1 DEF LevelOK
      <4>3. ASSUME image.pc, NEW p \in Ids(FileOf(image))
            PROVE  PropIs(image, RecOf(image, p), props'[p], fail')
        <5>1. props'[p] = PropertyOf(FileOf(image), p)
          BY <4>1, <4>3
        <5>2. props'[p] = [type |-> TypeOf(RecOf(image, p)[2]), data |-> HNIDOf(RecOf(image, p)),
                           loaded |-> FALSE]
          BY <1>1, <2>2, <3>1, <4>3, <5>1, RecOfFacts
        <5> QED
          BY <5>2 DEF PropIs
      <4>4. PropsOK'
        BY <2>1, <4>1, <4>3 DEF PropsOK
      <4>5. AnswerOK' /\ EndsOK'
        BY <2>1, <3>4 DEF AnswerOK, EndsOK
      <4> QED
        BY <4>2, <4>4, <4>5 DEF BInv
    <3> QED
      BY <2>1, <3>3, <3>4
  <2> QED
    BY <2>3, <2>4
<1>10. CASE \E c \in Calls : AskAbsent(c[1], c[2]) \/ AskKept(c[1], c[2])
                             \/ AskHeap(c[1], c[2]) \/ AskNode(c[1], c[2])
  <2>1. PICK c \in Calls : AskAbsent(c[1], c[2]) \/ AskKept(c[1], c[2])
                           \/ AskHeap(c[1], c[2]) \/ AskNode(c[1], c[2])
    BY <1>10
  <2> DEFINE p == c[1]
             t == c[2]
  <2>2. <<p, t>> \in Calls
    BY ImageAssumption
  <2> HIDE DEF p, t
  <2>3. AskAbsent(p, t) \/ AskKept(p, t) \/ AskHeap(p, t) \/ AskNode(p, t)
    BY <2>1 DEF p, t
  <2>4. /\ pc = "idle" /\ asked' = <<p, t>>
        /\ UNCHANGED <<assertsOn, image, records, cut>>
    BY <2>3 DEF AskAbsent, AskKept, AskHeap, AskNode, Asks, built
  <2>5. pc' \in {"idle", "aborted", "undefined"}
    BY <2>3, <2>4 DEF AskAbsent, AskKept, AskHeap, AskNode, Stops, Throws, Loads
  <2>6. CASE ~AsLong(image)
    <3>1. LevelOK' /\ PropsOK' /\ AnswerOK'
      BY <2>4, <2>6 DEF LevelOK, PropsOK, AnswerOK
    <3>2. EndsOK'
      BY <2>4, <2>5, <2>6 DEF EndsOK, Unread
    <3> QED
      BY <3>1, <3>2 DEF BInv
  <2>7. CASE AsLong(image)
    <3>1. AskedWell(p, t)
      BY <2>2, <2>3, <2>7, AskWell
    <3>2. LevelOK'
      BY <1>4, <2>4, <2>5, <2>7 DEF LevelOK
    <3>3. PropsOK'
      BY <2>4, <3>1 DEF AskedWell, PropsOK, BInv
    <3>4. AnswerOK'
      BY <2>4, <3>1 DEF AskedWell, AnswerOK
    <3>5. EndsOK'
      BY <2>4, <2>5, <3>1 DEF AskedWell, EndsOK
    <3> QED
      BY <3>2, <3>3, <3>4, <3>5 DEF BInv
  <2> QED
    BY <2>6, <2>7
<1>11. CASE Cut
  BY <1>11 DEF Cut, built, call, BInv, LevelOK, PropsOK, AnswerOK, EndsOK
<1>12. CASE UNCHANGED vars
  BY <1>12 DEF vars, built, call, BInv, LevelOK, PropsOK, AnswerOK, EndsOK
<1> QED
  BY <1>5, <1>6, <1>7, <1>8, <1>9, <1>10, <1>11, <1>12 DEF Next

LEMMA Inductive == (Init => TInv /\ BInv) /\ (TInv /\ BInv /\ [Next]_vars => TInv' /\ BInv')
  BY InitTInv, InitBInv, NextTInv, NextBInv

\* A BTreeHeap that is built has the records of the file in their order, over any number
\* of index levels and blocks, as long as its index records are as long as the others.
THEOREM RecordsStayTheFiles == Spec => []RecordsAreTheFiles
<1>1. BInv => RecordsAreTheFiles
  BY OfImage DEF BInv, LevelOK, RecordsAreTheFiles
<1> QED
  BY <1>1, Inductive, PTL DEF Spec

\* TryToGetProperty answers with the file's value, whether it is in the record, the heap or
\* a sub-node, fetched now or before, while no read has failed.
THEOREM AnswerStaysTheValue == Spec => []AnswerIsTheValue
<1>1. BInv => AnswerIsTheValue
  BY OfImage DEF BInv, AnswerOK, AnswerIs, AnswerIsTheValue
<1> QED
  BY <1>1, Inductive, PTL DEF Spec

\* On a file that nobody cut, a context ends only on what EndsOnlyOn lists, whatever the
\* heap, the B-tree and the calls.
THEOREM EndsStayExplained == Spec => []EndsOnlyOn
<1>1. BInv => EndsOnlyOn
  BY OfImage DEF BInv, EndsOK, Unread, Lost, Many, EndsOnlyOn
<1> QED
  BY <1>1, Inductive, PTL DEF Spec

\* A property that was fetched stays as it was, whatever is asked for later.
THEOREM FetchedIsKept == Spec => FetchedStays
<1>1. TInv /\ [Next]_vars =>
        [pc = "idle" =>
           /\ DOMAIN props' = DOMAIN props
           /\ \A p \in DOMAIN props : props[p].loaded => props'[p] = props[p]]_vars
  <2> SUFFICES ASSUME TInv, Next, pc = "idle"
               PROVE  /\ DOMAIN props' = DOMAIN props
                      /\ \A p \in DOMAIN props : props[p].loaded => props'[p] = props[p]
    OBVIOUS
  <2>1. ASSUME props' = props
        PROVE  /\ DOMAIN props' = DOMAIN props
               /\ \A p \in DOMAIN props : props[p].loaded => props'[p] = props[p]
    BY <2>1
  <2>2. CASE Cut
    BY <2>1, <2>2 DEF Cut
  <2>3. ASSUME NEW p, NEW t, AskAbsent(p, t) \/ AskKept(p, t) \/ AskHeap(p, t) \/ AskNode(p, t)
        PROVE  \/ props' = props
               \/ ~Kept(p) /\ \E d : props' = [props EXCEPT ![p].data = d, ![p].loaded = TRUE]
    <3>1. CASE AskAbsent(p, t) \/ AskKept(p, t)
      BY <3>1 DEF AskAbsent, AskKept
    <3>2. CASE AskHeap(p, t)
      BY <3>2 DEF AskHeap, Stops, Throws, Loads
    <3>3. CASE AskNode(p, t)
      BY <3>3 DEF AskNode, Stops, Throws, Loads
    <3> QED
      BY <2>3, <3>1, <3>2, <3>3
  <2>4. ASSUME NEW p, ~Kept(p), NEW d, props' = [props EXCEPT ![p].data = d, ![p].loaded = TRUE]
        PROVE  /\ DOMAIN props' = DOMAIN props
               /\ \A q \in DOMAIN props : props[q].loaded => props'[q] = props[q]
    BY <2>4 DEF Kept
  <2>5. CASE \E c \in Calls : AskAbsent(c[1], c[2]) \/ AskKept(c[1], c[2])
                              \/ AskHeap(c[1], c[2]) \/ AskNode(c[1], c[2])
    BY <2>1, <2>3, <2>4, <2>5
  <2>6. ~(LoadTree \/ AddBlock \/ ReadHeader \/ ReadLevel \/ ReadRecords)
    BY DEF LoadTree, AddBlock, ReadHeader, ReadLevel, ReadRecords
  <2> QED
    BY <2>2, <2>5, <2>6 DEF Next
<1> QED
  BY <1>1, InitTInv, NextTInv, PTL DEF Spec, FetchedStays
=============================================================================
