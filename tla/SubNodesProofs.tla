---------------------------- MODULE SubNodesProofs ----------------------------
(***************************************************************************)
(* Proofs about SubNodes: for every file, of any depth, construction that  *)
(* returns while no read failed, and that met no SIBLOCK, has built every  *)
(* tree with every entry; what short reads lose is a tail, of which one    *)
(* block may be lost in part; with assertions it is no more than that      *)
(* block's tail; and a NID gets the nearest data tree.                     *)
(*                                                                         *)
(* Where a constructor runs is the path alone, so the calls that wait for  *)
(* it are its prefixes.  The argument is that the trees outside the path   *)
(* have seen all their entries, and that every tree has a tree for each of *)
(* the entries that it has seen (Nesting).  A read that comes short leaves *)
(* the failbit, so that the trees after it are empty (Losses); the         *)
(* assertions stop the next read there.  They pass the short one only      *)
(* where the signature is 0, and an SIBLOCK only where MayPass says so     *)
(* (Stopped).  An entry that has sub-nodes, however torn, has the NID that *)
(* its block gives it, which is unique there (UniqueSubs).  There are      *)
(* finitely many depths (Bounded), so a search comes to its end.           *)
(***************************************************************************)
EXTENDS SubNodes, SequenceTheorems, WellFoundedInduction, TLAPS

-----------------------------------------------------------------------------
(* Paths. *)

\* Under, element by element.
LEMMA UnderByElement ==
  ASSUME NEW p \in Seq(Nid), NEW q \in Seq(Nid)
  PROVE  Under(p, q) <=> (Len(p) <= Len(q) /\ \A i \in 1..Len(p) : p[i] = q[i])
<1>1. Len(p) \in Nat /\ Len(q) \in Nat
  OBVIOUS
<1>2. CASE Len(p) <= Len(q)
  <2> DEFINE s == SubSeq(q, 1, Len(p))
  <2>1. \A i \in 1..Len(p) : q[i] \in Nid
    BY <1>1, <1>2, ElementOfSeq
  <2>2. /\ s \in Seq(Nid)
        /\ Len(s) = IF 1 <= Len(p) THEN Len(p) - 1 + 1 ELSE 0
        /\ \A i \in 1..(Len(p) - 1 + 1) : s[i] = q[1 + i - 1]
    BY <1>1, <2>1, SubSeqProperties
  <2>3. Len(s) = Len(p) /\ \A i \in 1..Len(p) : s[i] = q[i]
    BY <1>1, <2>1, <2>2
  <2>4. s = p <=> \A i \in 1..Len(p) : p[i] = q[i]
    <3>1. (\A i \in 1..Len(p) : p[i] = q[i]) => s = p
      BY <2>2, <2>3, SeqEqual
    <3> QED
      BY <2>3, <3>1
  <2> QED
    BY <1>2, <2>4 DEF Under
<1>3. CASE ~(Len(p) <= Len(q))
  BY <1>3 DEF Under
<1> QED
  BY <1>2, <1>3

\* The path of a nested tree.
LEMMA PathOfNested ==
  ASSUME NEW p \in Seq(Nid), NEW nid \in Nid
  PROVE  LET q == Append(p, nid)
         IN  /\ q \in Seq(Nid) /\ q # <<>> /\ Len(q) = Len(p) + 1
             /\ q[Len(q)] = nid /\ Above(q) = p /\ Under(p, q)
<1> DEFINE q == Append(p, nid)
<1>1. /\ q \in Seq(Nid) /\ Len(q) = Len(p) + 1 /\ Len(p) \in Nat
      /\ \A i \in 1..Len(p) : q[i] = p[i]
      /\ q[Len(p) + 1] = nid
  OBVIOUS
<1>2. q # <<>>
  BY <1>1, EmptySeq
<1>3. Under(p, q)
  <2>1. \A i \in 1..Len(p) : p[i] = q[i]
    BY <1>1
  <2>2. Len(p) <= Len(q)
    BY <1>1
  <2> HIDE DEF q
  <2> QED
    BY <1>1, <2>1, <2>2, UnderByElement
<1>4. Above(q) = p
  <2>1. Len(q) - 1 = Len(p)
    BY <1>1
  <2> HIDE DEF q
  <2> QED
    BY <1>3, <2>1 DEF Under, Above
<1> QED
  BY <1>1, <1>2, <1>3, <1>4

\* The path of the tree above.
LEMMA PathAbove ==
  ASSUME NEW q \in Seq(Nid), q # <<>>
  PROVE  /\ Above(q) \in Seq(Nid) /\ Len(Above(q)) = Len(q) - 1 /\ q[Len(q)] \in Nid
         /\ \A i \in 1..(Len(q) - 1) : Above(q)[i] = q[i]
         /\ q = Append(Above(q), q[Len(q)])
<1>1. Len(q) \in Nat \ {0}
  BY EmptySeq
<1>2. \A i \in 1..Len(q) : q[i] \in Nid
  BY ElementOfSeq
<1> DEFINE n == Len(q) - 1
           s == SubSeq(q, 1, n)
<1>3. n \in Nat /\ n + 1 = Len(q) /\ n <= Len(q)
  BY <1>1
<1> HIDE DEF n
<1>4. \A i \in 1..n : q[i] \in Nid
  BY <1>2, <1>3
<1>5. /\ s \in Seq(Nid) /\ Len(s) = IF 1 <= n THEN n - 1 + 1 ELSE 0
      /\ \A i \in 1..(n - 1 + 1) : s[i] = q[1 + i - 1]
  BY <1>3, <1>4, SubSeqProperties
<1>6. Len(s) = n /\ \A i \in 1..n : s[i] = q[i]
  BY <1>3, <1>4, <1>5
<1>7. s = Above(q)
  BY DEF Above, n
<1> HIDE DEF s
<1>8. q[Len(q)] \in Nid
  BY <1>1, <1>2
<1>9. q = Append(s, q[Len(q)])
  <2> DEFINE a == Append(s, q[Len(q)])
  <2>1. /\ a \in Seq(Nid) /\ Len(a) = n + 1 /\ a[n + 1] = q[Len(q)]
        /\ \A i \in 1..n : a[i] = s[i]
    BY <1>3, <1>5, <1>6, <1>8
  <2> HIDE DEF a
  <2>2. \A i \in 1..Len(q) : q[i] = a[i]
    BY <1>3, <1>6, <2>1
  <2>3. q = a
    BY <1>3, <2>1, <2>2, SeqEqual
  <2> QED
    BY <2>3 DEF a
<1> QED
  BY <1>5, <1>6, <1>7, <1>8, <1>9 DEF n

LEMMA UnderAppend ==
  ASSUME NEW p \in Seq(Nid), NEW q \in Seq(Nid), NEW nid \in Nid, Under(p, q)
  PROVE  Under(p, Append(q, nid))
<1> DEFINE r == Append(q, nid)
<1>1. /\ r \in Seq(Nid) /\ Len(r) = Len(q) + 1 /\ Len(q) \in Nat /\ Len(p) \in Nat
      /\ \A i \in 1..Len(q) : r[i] = q[i]
  OBVIOUS
<1>2. Len(p) <= Len(q) /\ \A i \in 1..Len(p) : p[i] = q[i]
  BY UnderByElement
<1> HIDE DEF r
<1>3. Len(p) <= Len(r) /\ \A i \in 1..Len(p) : p[i] = r[i]
  BY <1>1, <1>2
<1>4. Under(p, r)
  BY <1>1, <1>3, UnderByElement
<1> QED
  BY <1>4 DEF r

LEMMA UnderAbove ==
  ASSUME NEW p \in Seq(Nid), NEW q \in Seq(Nid), q # <<>>, Under(p, q), p # q
  PROVE  Under(p, Above(q))
<1>1. Len(p) \in Nat /\ Len(q) \in Nat
  OBVIOUS
<1>2. Len(p) <= Len(q) /\ \A i \in 1..Len(p) : p[i] = q[i]
  BY UnderByElement
<1>3. Len(p) # Len(q)
  BY <1>2, SeqEqual
<1>4. /\ Above(q) \in Seq(Nid) /\ Len(Above(q)) = Len(q) - 1
      /\ \A i \in 1..(Len(q) - 1) : Above(q)[i] = q[i]
  BY PathAbove
<1>5. Len(p) <= Len(Above(q)) /\ \A i \in 1..Len(p) : p[i] = Above(q)[i]
  BY <1>1, <1>2, <1>3, <1>4
<1> QED
  BY <1>4, <1>5, UnderByElement

LEMMA UnderTrans ==
  ASSUME NEW p \in Seq(Nid), NEW q \in Seq(Nid), NEW r \in Seq(Nid), Under(p, q), Under(q, r)
  PROVE  Under(p, r)
<1>1. /\ Len(p) <= Len(q) /\ \A i \in 1..Len(p) : p[i] = q[i]
      /\ Len(q) <= Len(r) /\ \A i \in 1..Len(q) : q[i] = r[i]
  BY UnderByElement
<1>2. Len(p) \in Nat /\ Len(q) \in Nat /\ Len(r) \in Nat
  OBVIOUS
<1>3. Len(p) <= Len(r) /\ \A i \in 1..Len(p) : p[i] = r[i]
  BY <1>1, <1>2
<1> QED
  BY <1>3, UnderByElement

\* A path is below another one that it is not: it is longer.
LEMMA UnderIsLonger ==
  ASSUME NEW p \in Seq(Nid), NEW q \in Seq(Nid), Under(p, q), p # q
  PROVE  Len(p) < Len(q)
<1>1. Len(p) <= Len(q) /\ \A i \in 1..Len(p) : p[i] = q[i]
  BY UnderByElement
<1>2. Len(p) # Len(q)
  BY <1>1, SeqEqual
<1>3. Len(p) \in Nat /\ Len(q) \in Nat
  OBVIOUS
<1> QED
  BY <1>1, <1>2, <1>3

\* Of two paths that lead to r, the shorter leads to the longer.
LEMMA UnderBoth ==
  ASSUME NEW p \in Seq(Nid), NEW q \in Seq(Nid), NEW r \in Seq(Nid), Under(p, r), Under(q, r),
         Len(p) <= Len(q)
  PROVE  Under(p, q)
<1>1. /\ Len(p) <= Len(r) /\ \A i \in 1..Len(p) : p[i] = r[i]
      /\ Len(q) <= Len(r) /\ \A i \in 1..Len(q) : q[i] = r[i]
  BY UnderByElement
<1>2. Len(p) \in Nat /\ Len(q) \in Nat /\ Len(r) \in Nat
  OBVIOUS
<1>3. \A i \in 1..Len(p) : p[i] = q[i]
  BY <1>1, <1>2
<1> QED
  BY <1>3, UnderByElement

-----------------------------------------------------------------------------
(* Entries that are put together. *)

LEMMA Least ==
  ASSUME NEW S \in SUBSET Nat, S # {}
  PROVE  \E m \in S : \A k \in S : m <= k
<1> DEFINE less == OpToRel(<, Nat)
<1>1. IsWellFoundedOn(less, Nat)
  BY NatLessThanWellFounded
<1>2. \A j, k \in Nat : j < k => <<j, k>> \in less
  BY DEF OpToRel
<1> HIDE DEF less
<1>3. PICK m \in S : \A k \in S : ~(<<k, m>> \in less)
  BY <1>1, WFMin
<1>4. \A k \in S : ~(k < m)
  BY <1>2, <1>3
<1> QED
  BY <1>3, <1>4

\* g[i] is the concatenation of the first i elements of X.
Flat(g, n, X) == g = [i \in 0..n |-> IF i = 0 THEN <<>> ELSE g[i-1] \o X[i]]

LEMMA FlatExists ==
  ASSUME NEW n \in Nat, NEW X
  PROVE  \E g : Flat(g, n, X)
<1> DEFINE S == {k \in Nat : ~\E g : Flat(g, k, X)}
<1>1. SUFFICES ASSUME S # {} PROVE FALSE
  OBVIOUS
<1>2. PICK m \in S : \A k \in S : m <= k
  BY <1>1, Least
<1>3. CASE m = 0
  <2> DEFINE g == [i \in 0..0 |-> <<>>]
  <2>1. Flat(g, 0, X)
    BY DEF Flat
  <2> QED
    BY <1>2, <1>3, <2>1
<1>4. CASE m # 0
  <2>1. m - 1 \in Nat /\ m - 1 \notin S
    BY <1>2, <1>4
  <2>2. PICK h : Flat(h, m - 1, X)
    BY <2>1
  <2> DEFINE g == [i \in 0..m |-> IF i = m THEN h[m-1] \o X[m] ELSE h[i]]
  <2>3. \A i \in 0..(m-1) : h[i] = IF i = 0 THEN <<>> ELSE h[i-1] \o X[i]
    BY <2>2 DEF Flat
  <2>4. \A i \in 0..m : g[i] = IF i = 0 THEN <<>> ELSE g[i-1] \o X[i]
    BY <1>2, <1>4, <2>3
  <2>5. Flat(g, m, X)
    BY <2>4 DEF Flat
  <2> QED
    BY <1>2, <2>5
<1> QED
  BY <1>3, <1>4

LEMMA FlatType ==
  ASSUME NEW n \in Nat, NEW X, \A i \in 1..n : X[i] \in Seq(ReadEntry), NEW g, Flat(g, n, X)
  PROVE  g[n] \in Seq(ReadEntry)
<1> DEFINE S == {k \in Nat : k <= n /\ g[k] \notin Seq(ReadEntry)}
<1>1. SUFFICES ASSUME S # {} PROVE FALSE
  OBVIOUS
<1>2. PICK m \in S : \A k \in S : m <= k
  BY <1>1, Least
<1>3. \A i \in 0..n : g[i] = IF i = 0 THEN <<>> ELSE g[i-1] \o X[i]
  BY DEF Flat
<1>4. m \in 0..n /\ g[m] \notin Seq(ReadEntry)
  BY <1>2
<1>5. CASE m = 0
  BY <1>3, <1>4, <1>5, EmptySeq
<1>6. CASE m # 0
  <2>1. m - 1 \in 0..n /\ m \in 1..n /\ m - 1 \notin S
    BY <1>2, <1>4, <1>6
  <2>2. g[m-1] \in Seq(ReadEntry) /\ X[m] \in Seq(ReadEntry)
    BY <2>1
  <2>3. g[m] = g[m-1] \o X[m]
    BY <1>3, <1>4, <1>6
  <2> HIDE DEF S
  <2> QED
    BY <1>4, <2>2, <2>3, ConcatProperties
<1> QED
  BY <1>5, <1>6

-----------------------------------------------------------------------------
(* What a read makes of a block. *)

LEMMA AlignedBound ==
  ASSUME NEW cb \in Nat
  PROVE  AlignedSize(cb) \in Nat /\ cb + 16 <= AlignedSize(cb)
<1>1. (cb + 16) % 64 \in 0..63
  OBVIOUS
<1> QED
  BY <1>1 DEF AlignedSize, Offset, TrailerSize, Multiple

LEMMA BlockFacts ==
  ASSUME NEW b \in Block
  PROVE  /\ b # None /\ Kind[b] \in {"SL", "SI"} /\ Ib[b] \in Nat /\ Sig[b] \in Nat
         /\ Entries[b] \in Seq(Entry) /\ Len(Entries[b]) \in Nat
         /\ SLBlocks[b] \in Seq(Block) /\ Len(SLBlocks[b]) \in Nat
         /\ Kind[b] = "SL" => Entries[b] # <<>> /\ SLBlocks[b] = <<>> /\ Len(SLBlocks[b]) = 0
         /\ Kind[b] = "SI" => Entries[b] = <<>> /\ SLBlocks[b] # <<>>
         /\ \A i, j \in DOMAIN Entries[b] : Entries[b][i].nid = Entries[b][j].nid => i = j
         /\ AlignedSize(Cb[b]) \in Nat
         /\ 8 + 24 * Len(Entries[b]) + 16 <= AlignedSize(Cb[b])
<1>1. /\ b # None /\ Kind[b] \in {"SL", "SI"} /\ Ib[b] \in Nat /\ Sig[b] \in Nat
      /\ Entries[b] \in Seq(Entry) /\ SLBlocks[b] \in Seq(Block) /\ Cb[b] \in Nat
  BY SubNodesAssumption
<1>2. /\ \A i, j \in DOMAIN Entries[b] : Entries[b][i].nid = Entries[b][j].nid => i = j
      /\ Cb[b] >= 8 + 24 * Len(Entries[b]) + 16 * Len(SLBlocks[b])
  BY SubNodesAssumption
<1>3. IF Kind[b] = "SL" THEN Entries[b] # <<>> /\ SLBlocks[b] = <<>>
                        ELSE Entries[b] = <<>> /\ SLBlocks[b] # <<>>
  BY SubNodesAssumption
<1>4. Len(Entries[b]) \in Nat /\ Len(SLBlocks[b]) \in Nat
  BY <1>1
<1>5. AlignedSize(Cb[b]) \in Nat /\ Cb[b] + 16 <= AlignedSize(Cb[b])
  BY <1>1, AlignedBound
<1>6. /\ Kind[b] = "SL" => Entries[b] # <<>> /\ SLBlocks[b] = <<>> /\ Len(SLBlocks[b]) = 0
      /\ Kind[b] = "SI" => Entries[b] = <<>> /\ SLBlocks[b] # <<>>
  BY <1>3
<1>7. 8 + 24 * Len(Entries[b]) + 16 <= AlignedSize(Cb[b])
  <2> DEFINE e == Len(Entries[b])
             l == Len(SLBlocks[b])
             cb == Cb[b]
             size == AlignedSize(cb)
  <2>1. /\ e \in Nat /\ l \in Nat /\ cb \in Nat /\ size \in Nat /\ cb + 16 <= size
        /\ cb >= 8 + 24 * e + 16 * l
    BY <1>1, <1>2, <1>4, <1>5
  <2> HIDE DEF e, l, cb, size
  <2>2. 8 + 24 * e + 16 <= size
    BY <2>1
  <2> QED
    BY <2>2 DEF e, size, cb
<1> QED
  BY <1>1, <1>2, <1>4, <1>5, <1>6, <1>7

LEMMA ModBound ==
  ASSUME NEW n \in Nat
  PROVE  n % 256 \in 0..n
<1>1. n % 256 \in Nat /\ n % 256 <= n
  OBVIOUS
<1> QED
  BY <1>1

LEMMA CountFacts ==
  ASSUME NEW b \in Block, NEW k \in Nat, IsSL(b, k)
  PROVE  /\ Count(b, k) \in 0..Len(Entries[b])
         /\ k < 3 => Count(b, k) = 0
         /\ (k >= 4 /\ Kind[b] = "SL") => Count(b, k) = Len(Entries[b])
<1> DEFINE n == Len(Entries[b])
           m == n + Len(SLBlocks[b])
<1>1. n \in Nat /\ m \in Nat /\ (Kind[b] = "SL" => m = n)
  <2>1. n \in Nat /\ Len(SLBlocks[b]) \in Nat /\ (Kind[b] = "SL" => Len(SLBlocks[b]) = 0)
    BY BlockFacts
  <2> HIDE DEF n
  <2> QED
    BY <2>1
<1>2. Count(b, k) = IF k >= 4 THEN m ELSE IF k = 3 THEN m % 256 ELSE 0
  BY DEF Count
<1>3. m % 256 \in 0..m
  BY <1>1, ModBound
<1>4. k >= 2 => Kind[b] = "SL"
  BY DEF IsSL
<1> HIDE DEF n, m
<1>5. CASE k < 3
  <2>1. Count(b, k) = 0 /\ 0 \in 0..n /\ ~(k >= 4)
    BY <1>1, <1>2, <1>5
  <2> QED
    BY <1>5, <2>1 DEF n
<1>6. CASE k >= 3
  <2>1. m = n
    BY <1>1, <1>4, <1>6
  <2>2. Count(b, k) \in 0..n /\ (k >= 4 => Count(b, k) = n)
    BY <1>1, <1>2, <1>3, <1>6, <2>1
  <2>3. ~(k < 3)
    BY <1>6
  <2> QED
    BY <2>2, <2>3 DEF n
<1> QED
  BY <1>5, <1>6 DEF n

LEMMA FrontFacts ==
  ASSUME NEW j \in Int
  PROVE  /\ \A x \in Block \cup {None} : Front(x, j) \in Block \cup {None}
         /\ \A x \in Data : Front(x, j) \in Data \cup {None}
         /\ \A x \in Nid : Front(x, j) \in Nid \cup {None}
         /\ \A x : (j >= 8 => Front(x, j) = x) /\ (j <= 0 => Front(x, j) = None)
<1>1. /\ \A x \in Block, i \in 1..7 : Torn[x][i] \in Block \cup {None}
      /\ \A x \in Data, i \in 1..7 : Torn[x][i] \in Data \cup {None}
      /\ \A x \in Nid, i \in 1..7 : Torn[x][i] \in Nid \cup {None}
  BY SubNodesAssumption
<1>2. j <= 0 \/ j >= 8 \/ j \in 1..7
  OBVIOUS
<1> QED
  BY <1>1, <1>2 DEF Front

\* An entry that has sub-nodes is torn at most in their BID.
LEMMA ReadEntryFacts ==
  ASSUME NEW e \in ReadEntry
  PROVE  /\ e.nid \in Nid \cup {None} /\ e.sub \in Block \cup {None}
         /\ e.sub # None => e \in Entry /\ e.nid \in Nid /\ e.sub \in Block
BY DEF ReadEntry, Entry

LEMMA EntriesFromFacts ==
  ASSUME NEW b \in Block, NEW k \in Nat, IsSL(b, k)
  PROVE  LET es == EntriesFrom(b, k)
         IN  /\ es \in Seq(ReadEntry)
             /\ DOMAIN es \subseteq DOMAIN Entries[b]
             /\ \A i \in DOMAIN es : es[i].sub # None => es[i].nid = Entries[b][i].nid
             /\ k = 0 => es = <<>>
             /\ (Kind[b] = "SL" /\ k >= 8 + 24 * Len(Entries[b])) => es = Entries[b]
<1> DEFINE n     == Len(Entries[b])
           c     == Count(b, k)
           j(i)  == k - 8 - 24 * (i - 1)
           At(i) == [nid  |-> Front(Entries[b][i].nid, j(i)),
                     data |-> Front(Entries[b][i].data, j(i) - 8),
                     sub  |-> Front(Entries[b][i].sub, j(i) - 16)]
           es    == EntriesFrom(b, k)
<1>1. /\ Entries[b] \in Seq(Entry) /\ n \in Nat /\ DOMAIN Entries[b] = 1..n
      /\ (Kind[b] = "SL" => Entries[b] # <<>> /\ Len(SLBlocks[b]) = 0)
      /\ Kind[b] \in {"SL", "SI"}
  BY BlockFacts, LenProperties
<1>2. c \in 0..n /\ (k < 3 => c = 0) /\ (k >= 4 /\ Kind[b] = "SL" => c = n)
  BY CountFacts
<1>3. es = [i \in 1..c |-> At(i)]
  BY DEF EntriesFrom
<1>4. ASSUME NEW i \in 1..c
      PROVE  /\ At(i) \in ReadEntry /\ i \in 1..n
             /\ At(i).sub # None => At(i).nid = Entries[b][i].nid
             /\ k >= 8 + 24 * n => At(i) = Entries[b][i]
  <2> DEFINE e == Entries[b][i]
  <2>1. i \in 1..n /\ j(i) \in Int /\ j(i) - 8 \in Int /\ j(i) - 16 \in Int
    BY <1>2
  <2>2. e \in Entry
    BY <1>1, <2>1, ElementOfSeq
  <2>3. /\ e.nid \in Nid /\ e.data \in Data /\ e.sub \in Block \cup {None}
        /\ e = [nid |-> e.nid, data |-> e.data, sub |-> e.sub]
    BY <2>2 DEF Entry
  <2>4. k >= 8 + 24 * n => j(i) - 16 >= 8
    BY <1>1, <2>1
  <2> DEFINE ji == j(i)
  <2>5. ji \in Int /\ ji - 8 \in Int /\ ji - 16 \in Int
    BY <2>1
  <2> HIDE DEF e
  <2>6. At(i) = [nid |-> Front(e.nid, ji), data |-> Front(e.data, ji - 8),
                 sub |-> Front(e.sub, ji - 16)]
    BY DEF e
  <2> HIDE DEF At, ji
  <2>7. /\ Front(e.nid, ji) \in Nid \cup {None} /\ Front(e.data, ji - 8) \in Data \cup {None}
        /\ Front(e.sub, ji - 16) \in Block \cup {None}
    BY <2>3, <2>5, FrontFacts
  <2>8. /\ ji >= 8 => Front(e.nid, ji) = e.nid
        /\ ji - 8 >= 8 => Front(e.data, ji - 8) = e.data
        /\ ji - 16 >= 8 => Front(e.sub, ji - 16) = e.sub
        /\ ji - 16 <= 0 => Front(e.sub, ji - 16) = None
    BY <2>5, FrontFacts
  <2>9. Front(e.sub, ji - 16) # None => Front(e.nid, ji) = e.nid /\ Front(e.data, ji - 8) = e.data
    <3>1. ji - 16 > 0 => ji >= 8 /\ ji - 8 >= 8
      BY <2>5
    <3> QED
      BY <2>5, <2>8, <3>1
  <2>10. At(i) \in ReadEntry
    <3>1. CASE Front(e.sub, ji - 16) = None
      BY <2>6, <2>7, <3>1 DEF ReadEntry
    <3>2. CASE Front(e.sub, ji - 16) # None
      <4>1. Front(e.sub, ji - 16) \in Block \cup {None}
        BY <2>7
      <4>2. Front(e.nid, ji) \in Nid /\ Front(e.data, ji - 8) \in Data
        BY <2>3, <2>9, <3>2
      <4> QED
        BY <2>6, <4>1, <4>2 DEF ReadEntry, Entry
    <3> QED
      BY <3>1, <3>2
  <2>11. At(i).sub # None => At(i).nid = e.nid
    BY <2>6, <2>9
  <2>12. ASSUME k >= 8 + 24 * n PROVE At(i) = e
    <3>1. ji - 16 >= 8
      BY <2>4, <2>12 DEF ji
    <3>2. ji >= 8 /\ ji - 8 >= 8
      BY <2>5, <3>1
    <3> QED
      BY <2>3, <2>6, <2>8, <3>1, <3>2
  <2> QED
    BY <2>1, <2>10, <2>11, <2>12 DEF e
<1> HIDE DEF At, es, c
<1>5. es \in Seq(ReadEntry) /\ DOMAIN es = 1..c
  <2>1. c \in Nat /\ \A i \in 1..c : At(i) \in ReadEntry
    BY <1>1, <1>2, <1>4
  <2>2. es \in [1..c -> ReadEntry]
    BY <1>3, <2>1
  <2> QED
    BY <2>1, <2>2, SeqDef
<1>6. \A i \in DOMAIN es : es[i] = At(i)
  BY <1>3, <1>5
<1>7. DOMAIN es \subseteq DOMAIN Entries[b]
  BY <1>1, <1>4, <1>5
<1>8. \A i \in DOMAIN es : es[i].sub # None => es[i].nid = Entries[b][i].nid
  BY <1>4, <1>5, <1>6
<1>9. k = 0 => es = <<>>
  <2>1. k = 0 => c = 0
    BY <1>2
  <2>2. Len(es) = c
    BY <1>2, <1>5, LenProperties
  <2> QED
    BY <1>5, <2>1, <2>2, EmptySeq
<1>10. ASSUME Kind[b] = "SL", k >= 8 + 24 * n PROVE es = Entries[b]
  <2>1. c = n
    BY <1>1, <1>2, <1>10
  <2>2. \A i \in 1..n : es[i] = Entries[b][i]
    BY <1>4, <1>5, <1>6, <1>10, <2>1
  <2>3. Entries[b] = [i \in 1..n |-> Entries[b][i]] /\ es = [i \in 1..n |-> es[i]]
    <3>1. es = [i \in DOMAIN es |-> es[i]]
      BY <1>3
    <3> QED
      BY <1>1, <1>5, <2>1, <3>1
  <2> QED
    BY <2>2, <2>3
<1> QED
  BY <1>5, <1>7, <1>8, <1>9, <1>10 DEF es

LEMMA ArrivedFacts ==
  ASSUME NEW b \in Block, fileLen \in Nat
  PROVE  /\ Arrived(b) \in 0..AlignedSize(Cb[b])
         /\ fail => Arrived(b) = 0 /\ Arrived(b) # AlignedSize(Cb[b])
<1>1. /\ Ib[b] \in Nat /\ AlignedSize(Cb[b]) \in Nat /\ AlignedSize(Cb[b]) >= 16
  BY BlockFacts
<1> QED
  BY <1>1 DEF Arrived, End

-----------------------------------------------------------------------------
(* The types. *)

\* The block that is being read is one of the file, and the entry that waits for it
\* names it.
ReadsOK ==
  /\ path \notin DOMAIN tree
  /\ path = <<>> => root # None
  /\ path # <<>> =>
       /\ Above(path) \in DOMAIN tree
       /\ tree[Above(path)].next <= Len(tree[Above(path)].entries)
       /\ Current.nid = path[Len(path)] /\ Current.sub # None

TInv ==
  /\ TypeOK
  /\ \A p \in DOMAIN tree : tree[p] \in [entries : Seq(ReadEntry), next : Nat]
  /\ pc \in {"read", "expand"} => ReadsOK
  /\ pc = "expand" => Kind[Wanted] = "SI" /\ ~fail
  /\ pc = "loop" => path \in DOMAIN tree

LEMMA WantedFacts ==
  ASSUME TInv, pc \in {"read", "expand"}
  PROVE  Wanted \in Block
<1>1. CASE path = <<>>
  BY <1>1, SubNodesAssumption DEF TInv, TypeOK, ReadsOK, Wanted
<1>2. CASE path # <<>>
  <2> DEFINE es == tree[Above(path)].entries
             i  == tree[Above(path)].next
  <2>1. es \in Seq(ReadEntry) /\ i \in 1..Len(es)
    BY <1>2 DEF TInv, TypeOK, ReadsOK
  <2>2. es[i] \in ReadEntry
    BY <2>1, ElementOfSeq
  <2>3. Current = es[i] /\ Current.sub # None
    BY <1>2 DEF TInv, ReadsOK, Current
  <2> HIDE DEF es, i
  <2>4. Current.sub \in Block
    BY <2>2, <2>3, ReadEntryFacts
  <2> QED
    BY <1>2, <2>4 DEF Wanted
<1> QED
  BY <1>1, <1>2

LEMMA HereFacts ==
  ASSUME TInv, pc = "loop", More
  PROVE  /\ Here \in ReadEntry /\ (Here.sub # None => Here.nid \in Nid /\ Here.sub \in Block)
         /\ tree[path].entries \in Seq(ReadEntry)
         /\ tree[path].next \in 1..Len(tree[path].entries)
         /\ path \in Seq(Nid)
<1> DEFINE es == tree[path].entries
           i  == tree[path].next
<1>1. es \in Seq(ReadEntry) /\ i \in 1..(Len(es) + 1) /\ path \in Seq(Nid)
  BY DEF TInv, TypeOK
<1>2. i <= Len(es) /\ Here = es[i]
  BY DEF More, Here
<1> HIDE DEF es, i
<1>3. i \in 1..Len(es)
  BY <1>1, <1>2
<1>4. Here \in ReadEntry
  BY <1>1, <1>2, <1>3, ElementOfSeq
<1>5. Here.sub # None => Here.nid \in Nid /\ Here.sub \in Block
  BY <1>4, ReadEntryFacts
<1> QED
  BY <1>1, <1>3, <1>4, <1>5 DEF es, i

LEMMA InitTInv == Init => TInv
<1> SUFFICES ASSUME Init PROVE TInv
  OBVIOUS
<1>1. /\ root \in Roots /\ fileLen = FileSize /\ path = <<>> /\ path \in Seq(Nid)
      /\ assertsOn \in BOOLEAN /\ fail = FALSE /\ fileLen \in 0..FileSize
  BY SubNodesAssumption, EmptySeq DEF Init
<1>2. CASE root = None
  <2> DEFINE t == [entries |-> <<>>, next |-> 1]
  <2>1. pc = "ready" /\ DOMAIN tree = {<<>>} /\ \A p \in DOMAIN tree : tree[p] = t
    BY <1>2 DEF Init, Tree
  <2>2. /\ t \in [entries : Seq(ReadEntry), next : Nat] /\ t.entries \in Seq(ReadEntry)
        /\ t.next \in 1..(Len(t.entries) + 1)
    BY EmptySeq
  <2> HIDE DEF t
  <2>3. \A p \in DOMAIN tree :
          /\ p \in Seq(Nid) /\ p = <<>>
          /\ tree[p] \in [entries : Seq(ReadEntry), next : Nat]
          /\ tree[p].entries \in Seq(ReadEntry)
          /\ tree[p].next \in 1..(Len(tree[p].entries) + 1)
    BY <1>1, <2>1, <2>2
  <2> QED
    BY <1>1, <2>1, <2>3 DEF TInv, TypeOK
<1>3. CASE root # None
  <2>1. pc = "read" /\ DOMAIN tree = {}
    BY <1>3 DEF Init
  <2> QED
    BY <1>1, <1>3, <2>1 DEF TInv, TypeOK, ReadsOK
<1> QED
  BY <1>2, <1>3

\* The new tree has its place below one that is there.
LEMMA GrowTInv ==
  ASSUME TInv, pc \in {"read", "expand"}, NEW es \in Seq(ReadEntry), tree' = WithTree(es),
         pc' = "loop", fail' \in BOOLEAN, UNCHANGED <<assertsOn, root, fileLen, path>>
  PROVE  TInv'
<1>1. path \in Seq(Nid) /\ Len(es) \in Nat
  BY DEF TInv, TypeOK
<1>2. /\ DOMAIN tree' = DOMAIN tree \cup {path}
      /\ \A p \in DOMAIN tree' :
           tree'[p] = IF p = path THEN [entries |-> es, next |-> 1] ELSE tree[p]
  BY DEF WithTree, Tree
<1>3. \A p \in DOMAIN tree' :
        /\ p \in Seq(Nid) /\ (p # <<>> => Above(p) \in DOMAIN tree')
        /\ tree'[p] \in [entries : Seq(ReadEntry), next : Nat]
        /\ tree'[p].entries \in Seq(ReadEntry)
        /\ tree'[p].next \in 1..(Len(tree'[p].entries) + 1)
  <2>1. ASSUME NEW p \in DOMAIN tree', p = path
        PROVE  /\ p \in Seq(Nid) /\ (p # <<>> => Above(p) \in DOMAIN tree')
               /\ tree'[p] \in [entries : Seq(ReadEntry), next : Nat]
               /\ tree'[p].entries \in Seq(ReadEntry)
               /\ tree'[p].next \in 1..(Len(tree'[p].entries) + 1)
    BY <1>1, <1>2, <2>1 DEF TInv, ReadsOK
  <2>2. ASSUME NEW p \in DOMAIN tree', p # path
        PROVE  /\ p \in Seq(Nid) /\ (p # <<>> => Above(p) \in DOMAIN tree')
               /\ tree'[p] \in [entries : Seq(ReadEntry), next : Nat]
               /\ tree'[p].entries \in Seq(ReadEntry)
               /\ tree'[p].next \in 1..(Len(tree'[p].entries) + 1)
    BY <1>2, <2>2 DEF TInv, TypeOK
  <2> QED
    BY <2>1, <2>2
<1>4. TypeOK'
  BY <1>3 DEF TInv, TypeOK
<1> QED
  BY <1>2, <1>3, <1>4 DEF TInv

\* What ExpandSI makes of the pieces.
LEMMA ExpandTInv ==
  ASSUME TInv, ExpandSI
  PROVE  TInv'
<1> DEFINE n == Len(SLBlocks[Wanted])
           X == [i \in 1..n |-> PieceEntries(Wanted, i)]
<1>1. pc = "expand" /\ UNCHANGED <<assertsOn, root, fileLen, path>> /\ n \in Nat
  BY WantedFacts, BlockFacts DEF ExpandSI
<1>2. \A i \in 1..n : X[i] \in Seq(ReadEntry)
  <2>1. ASSUME NEW i \in 1..n PROVE PieceEntries(Wanted, i) \in Seq(ReadEntry)
    <3> DEFINE from == PieceStart(Wanted)[i]
               b    == CHOOSE c \in Block : Ib[c] = from
    <3>1. CASE PieceKind(Wanted, i) = "SL"
      <4>1. PICK c \in Block : Ib[c] = from /\ from < fileLen /\ Kind[c] = "SL"
        BY <3>1 DEF PieceKind
      <4>2. b \in Block /\ Ib[b] = from
        BY <4>1
      <4>3. b = c
        BY <4>1, <4>2, SubNodesAssumption
      <4>4. fileLen - from \in Nat
        <5>1. Ib[c] \in Nat
          BY BlockFacts
        <5>2. fileLen \in Nat
          BY SubNodesAssumption DEF TInv, TypeOK
        <5> QED
          BY <4>1, <5>1, <5>2
      <4>5. IsSL(b, fileLen - from)
        BY <4>1, <4>3 DEF IsSL
      <4>6. PieceEntries(Wanted, i) = EntriesFrom(b, fileLen - from)
        BY <3>1 DEF PieceEntries
      <4> HIDE DEF b, from
      <4> QED
        BY <4>2, <4>4, <4>5, <4>6, EntriesFromFacts
    <3>2. CASE PieceKind(Wanted, i) # "SL"
      BY <3>2, EmptySeq DEF PieceEntries
    <3> QED
      BY <3>1, <3>2
  <2> QED
    BY <2>1
<1>3. CASE pc' \in {"thrown", "aborted"} /\ UNCHANGED <<tree, fail>>
  BY <1>1, <1>3 DEF TInv, TypeOK
<1>4. CASE fail' = (PieceStart(Wanted)[n+1] > fileLen) /\ pc' = "garbled" /\ UNCHANGED tree
  <2>1. fail' \in BOOLEAN
    BY <1>4
  <2> QED
    BY <1>1, <1>4, <2>1 DEF TInv, TypeOK
<1>5. ASSUME fail' = (PieceStart(Wanted)[n+1] > fileLen), pc' = "loop",
             NEW flat, flat = (CHOOSE g : g = [i \in 0..n |->
                IF i = 0 THEN <<>> ELSE g[i-1] \o PieceEntries(Wanted, i)]),
             tree' = WithTree(flat[n])
      PROVE  TInv'
  <2>1. \A g : Flat(g, n, X) <=>
          g = [i \in 0..n |-> IF i = 0 THEN <<>> ELSE g[i-1] \o PieceEntries(Wanted, i)]
    <3>1. ASSUME NEW g
          PROVE  [i \in 0..n |-> IF i = 0 THEN <<>> ELSE g[i-1] \o X[i]] =
                 [i \in 0..n |-> IF i = 0 THEN <<>> ELSE g[i-1] \o PieceEntries(Wanted, i)]
      <4>1. \A i \in 0..n : i # 0 => X[i] = PieceEntries(Wanted, i)
        BY <1>1
      <4> HIDE DEF X
      <4> QED
        BY <4>1
    <3> QED
      BY <3>1 DEF Flat
  <2>2. Flat(flat, n, X)
    <3>1. \E g : Flat(g, n, X)
      BY <1>1, FlatExists
    <3> QED
      BY <1>5, <2>1, <3>1
  <2> HIDE DEF X
  <2>3. flat[n] \in Seq(ReadEntry)
    BY <1>1, <1>2, <2>2, FlatType
  <2>4. fail' \in BOOLEAN
    BY <1>5
  <2> QED
    BY <1>1, <1>5, <2>3, <2>4, GrowTInv
<1> QED
  BY <1>3, <1>4, <1>5 DEF ExpandSI

\* What ReadBlock makes of the bytes.
LEMMA ReadCases ==
  ASSUME TInv, ReadBlock
  PROVE  LET k     == Arrived(Wanted)
             whole == k = AlignedSize(Cb[Wanted])
         IN  /\ pc = "read" /\ UNCHANGED <<assertsOn, root, fileLen, path>>
             /\ Wanted \in Block /\ k \in 0..AlignedSize(Cb[Wanted]) /\ (fail => k = 0 /\ ~whole)
             /\ \/ pc' \in {"thrown", "aborted"} /\ UNCHANGED <<tree, fail>>
                \/ /\ Asserted(Wanted, k) /\ fail' = ~whole
                   /\ \/ IsSL(Wanted, k) /\ pc' = "loop" /\ tree' = WithTree(EntriesFrom(Wanted, k))
                      \/ Kind[Wanted] = "SI" /\ whole /\ pc' = "expand" /\ UNCHANGED tree
                      \/ Kind[Wanted] = "SI" /\ ~whole /\ pc' \in {"thrown", "aborted"} /\ UNCHANGED tree
                      \/ /\ Kind[Wanted] = "SI" /\ ~whole /\ ~assertsOn /\ pc' = "loop"
                         /\ tree' = WithTree(<<>>)
<1> DEFINE b == Wanted
           k == Arrived(b)
           whole == k = AlignedSize(Cb[b])
<1>1. pc = "read" /\ UNCHANGED <<assertsOn, root, fileLen, path>>
  BY DEF ReadBlock
<1>2. b \in Block
  BY <1>1, WantedFacts
<1>3. fileLen \in Nat
  BY SubNodesAssumption DEF TInv, TypeOK
<1> HIDE DEF b
<1>4. k \in 0..AlignedSize(Cb[b]) /\ (fail => k = 0 /\ ~whole)
  BY <1>2, <1>3, ArrivedFacts
<1>5. ~IsSL(b, k) => Kind[b] = "SI"
  BY <1>2, BlockFacts DEF IsSL
<1>6. \/ pc' \in {"thrown", "aborted"} /\ UNCHANGED <<tree, fail>>
      \/ /\ Asserted(b, k) /\ fail' = ~whole
         /\ \/ IsSL(b, k) /\ pc' = "loop" /\ tree' = WithTree(EntriesFrom(b, k))
            \/ ~IsSL(b, k) /\ whole /\ pc' = "expand" /\ UNCHANGED tree
            \/ ~IsSL(b, k) /\ ~whole /\ ListTornSI(b, k)
  BY DEF ReadBlock, b
<1>7. ListTornSI(b, k) => \/ pc' \in {"thrown", "aborted"} /\ UNCHANGED tree
                          \/ ~assertsOn /\ pc' = "loop" /\ tree' = WithTree(<<>>)
  BY DEF ListTornSI
<1> HIDE DEF k
<1>8. \/ pc' \in {"thrown", "aborted"} /\ UNCHANGED <<tree, fail>>
      \/ /\ Asserted(b, k) /\ fail' = ~whole
         /\ \/ IsSL(b, k) /\ pc' = "loop" /\ tree' = WithTree(EntriesFrom(b, k))
            \/ Kind[b] = "SI" /\ whole /\ pc' = "expand" /\ UNCHANGED tree
            \/ Kind[b] = "SI" /\ ~whole /\ pc' \in {"thrown", "aborted"} /\ UNCHANGED tree
            \/ /\ Kind[b] = "SI" /\ ~whole /\ ~assertsOn /\ pc' = "loop"
               /\ tree' = WithTree(<<>>)
  BY <1>5, <1>6, <1>7
<1> QED
  BY <1>1, <1>2, <1>4, <1>8 DEF b, k

LEMMA ReadTInv ==
  ASSUME TInv, ReadBlock
  PROVE  TInv'
<1> DEFINE b == Wanted
           k == Arrived(b)
           whole == k = AlignedSize(Cb[b])
<1>1. /\ pc = "read" /\ UNCHANGED <<assertsOn, root, fileLen, path>>
      /\ b \in Block /\ k \in 0..AlignedSize(Cb[b]) /\ (fail => k = 0 /\ ~whole)
  BY ReadCases
<1>2. \/ pc' \in {"thrown", "aborted"} /\ UNCHANGED <<tree, fail>>
      \/ /\ fail' = ~whole
         /\ \/ IsSL(b, k) /\ pc' = "loop" /\ tree' = WithTree(EntriesFrom(b, k))
            \/ Kind[b] = "SI" /\ whole /\ pc' = "expand" /\ UNCHANGED tree
            \/ Kind[b] = "SI" /\ ~whole /\ pc' \in {"thrown", "aborted"} /\ UNCHANGED tree
            \/ pc' = "loop" /\ tree' = WithTree(<<>>)
  BY ReadCases
<1> HIDE DEF k
<1>3. fail' \in BOOLEAN
  <2>1. UNCHANGED fail \/ fail' = ~whole
    BY <1>2
  <2> QED
    BY <2>1 DEF TInv, TypeOK
<1>4. k \in Nat
  <2>1. AlignedSize(Cb[b]) \in Nat
    BY <1>1, BlockFacts
  <2> QED
    BY <1>1, <2>1
<1>5. CASE pc' \in {"thrown", "aborted"} /\ UNCHANGED tree
  BY <1>1, <1>3, <1>5 DEF TInv, TypeOK
<1>6. CASE IsSL(b, k) /\ pc' = "loop" /\ tree' = WithTree(EntriesFrom(b, k))
  <2>1. EntriesFrom(b, k) \in Seq(ReadEntry)
    BY <1>1, <1>4, <1>6, EntriesFromFacts
  <2> QED
    BY <1>1, <1>3, <1>6, <2>1, GrowTInv
<1>7. CASE pc' = "loop" /\ tree' = WithTree(<<>>)
  <2>1. <<>> \in Seq(ReadEntry)
    BY EmptySeq
  <2> QED
    BY <1>1, <1>3, <1>7, <2>1, GrowTInv
<1>8. CASE fail' = ~whole /\ Kind[b] = "SI" /\ whole /\ pc' = "expand" /\ UNCHANGED tree
  <2>1. ReadsOK' /\ Kind[Wanted]' = "SI"
    BY <1>1, <1>8 DEF TInv, ReadsOK, Current, Wanted
  <2>2. TypeOK'
    BY <1>1, <1>3, <1>8 DEF TInv, TypeOK
  <2>3. ~fail'
    BY <1>8
  <2> QED
    BY <1>1, <1>8, <2>1, <2>2, <2>3 DEF TInv
<1> QED
  BY <1>2, <1>5, <1>6, <1>7, <1>8

\* Every step of a construction keeps the types.
LEMMA NextTInv == TInv /\ [Next]_vars => TInv'
<1> SUFFICES ASSUME TInv, [Next]_vars PROVE TInv'
  OBVIOUS
<1>1. CASE ReadBlock
  BY <1>1, ReadTInv
<1>2. CASE ExpandSI
  BY <1>2, ExpandTInv
<1>3. CASE EnterNested
  <2>1. /\ pc = "loop" /\ More /\ Here.sub # None
        /\ path' = Append(path, Here.nid) /\ path' \notin DOMAIN tree /\ pc' = "read"
        /\ UNCHANGED <<assertsOn, root, tree, fileLen, fail>>
    BY <1>3 DEF EnterNested
  <2>2. /\ Here.nid \in Nid /\ path \in Seq(Nid)
        /\ tree[path].next <= Len(tree[path].entries) /\ path \in DOMAIN tree
    BY <2>1, HereFacts DEF TInv
  <2>3. /\ path' \in Seq(Nid) /\ path' # <<>> /\ path'[Len(path')] = Here.nid
        /\ Above(path') = path
    BY <2>1, <2>2, PathOfNested
  <2>4. ReadsOK'
    BY <2>1, <2>2, <2>3 DEF ReadsOK, Current, Here
  <2> QED
    BY <2>1, <2>3, <2>4 DEF TInv, TypeOK
<1>4. CASE AddData
  <2> DEFINE t == [tree[path] EXCEPT !.next = @ + 1]
  <2>1. /\ pc = "loop" /\ More /\ tree' = [tree EXCEPT ![path] = t]
        /\ UNCHANGED <<assertsOn, root, fileLen, fail, pc, path>>
    BY <1>4 DEF AddData, AtData
  <2>2. /\ path \in DOMAIN tree /\ tree[path] \in [entries : Seq(ReadEntry), next : Nat]
        /\ tree[path].next \in 1..Len(tree[path].entries)
        /\ Len(tree[path].entries) \in Nat
    BY <2>1, HereFacts DEF TInv
  <2>3. /\ t \in [entries : Seq(ReadEntry), next : Nat] /\ t.entries = tree[path].entries
        /\ t.next \in 1..(Len(t.entries) + 1)
    BY <2>2
  <2> HIDE DEF t
  <2>4. DOMAIN tree' = DOMAIN tree
        /\ \A p \in DOMAIN tree : tree'[p] = IF p = path THEN t ELSE tree[p]
    BY <2>1
  <2>5. \A p \in DOMAIN tree' :
          /\ p \in Seq(Nid) /\ (p # <<>> => Above(p) \in DOMAIN tree')
          /\ tree'[p] \in [entries : Seq(ReadEntry), next : Nat]
          /\ tree'[p].entries \in Seq(ReadEntry)
          /\ tree'[p].next \in 1..(Len(tree'[p].entries) + 1)
    BY <2>3, <2>4 DEF TInv, TypeOK
  <2> QED
    BY <2>1, <2>2, <2>4, <2>5 DEF TInv, TypeOK
<1>5. CASE Return
  <2>1. pc = "loop" /\ UNCHANGED <<assertsOn, root, tree, fileLen, fail>>
        /\ path \in DOMAIN tree
    BY <1>5 DEF Return, TInv
  <2>2. CASE path = <<>> /\ pc' = "ready" /\ UNCHANGED path
    BY <2>1, <2>2 DEF TInv, TypeOK
  <2>3. CASE path # <<>> /\ path' = Above(path) /\ UNCHANGED pc
    <3>1. path' \in DOMAIN tree /\ path' \in Seq(Nid)
      BY <2>1, <2>3 DEF TInv, TypeOK
    <3> QED
      BY <2>1, <2>3, <3>1 DEF TInv, TypeOK
  <2> QED
    BY <1>5, <2>2, <2>3 DEF Return
<1>6. ASSUME NEW n \in Cuts, Truncate(n) PROVE TInv'
  <2>1. UNCHANGED <<assertsOn, root, tree, fail, pc, path>> /\ fileLen' = n
    BY <1>6 DEF Truncate
  <2>2. fileLen' \in 0..FileSize
    BY <2>1, SubNodesAssumption
  <2> QED
    BY <2>1, <2>2 DEF TInv, TypeOK, ReadsOK, Current, Wanted
<1>7. CASE UNCHANGED vars
  BY <1>7 DEF vars, TInv, TypeOK, ReadsOK, Current, Wanted
<1>8. CASE StopDuplicate
  <2>1. pc' = "aborted" /\ UNCHANGED <<assertsOn, root, tree, fileLen, fail, path>>
    BY <1>8 DEF StopDuplicate
  <2> QED
    BY <2>1 DEF TInv, TypeOK
<1> QED
  BY <1>1, <1>2, <1>3, <1>4, <1>5, <1>6, <1>7, <1>8 DEF Next

\* The type invariant.
THEOREM TypeCorrect == Spec => []TypeOK
<1>1. TInv => TypeOK
  BY DEF TInv
<1> QED
  BY <1>1, InitTInv, NextTInv, PTL DEF Spec

-----------------------------------------------------------------------------
(* How the trees nest. *)

\* The constructors that have returned have seen all their entries.
DoneOK ==
  \A p \in DOMAIN tree :
    (pc = "ready" \/ ~Under(p, path)) => tree[p].next = Len(tree[p].entries) + 1

\* An entry that was seen has its tree.
ChildOK ==
  \A p \in DOMAIN tree : \A i \in DOMAIN tree[p].entries :
    (tree[p].entries[i].sub # None /\ i < tree[p].next)
      => Append(p, tree[p].entries[i].nid) \in DOMAIN tree

\* A tree is there for an entry that its constructor has come to.
NamedOK ==
  \A q \in DOMAIN tree : q # <<>> =>
    \E i \in DOMAIN tree[Above(q)].entries :
      /\ tree[Above(q)].entries[i].nid = q[Len(q)] /\ tree[Above(q)].entries[i].sub # None
      /\ i <= tree[Above(q)].next

\* While a constructor runs, those that wait for it stand at the entry it is for.
AtEntryOf(a) ==
  LET up == tree[Above(a)]
  IN  /\ up.next \in DOMAIN up.entries
      /\ up.entries[up.next].nid = a[Len(a)] /\ up.entries[up.next].sub # None
OnPath ==
  pc \in {"read", "expand", "loop"} =>
    \A a \in DOMAIN tree : (a # <<>> /\ Under(a, path)) => AtEntryOf(a)

Nesting == NamedOK /\ DoneOK /\ ChildOK /\ OnPath

\* Where a tree is added, the others keep their blocks.
LEMMA Grown ==
  ASSUME TInv, pc \in {"read", "expand"}, NEW es, tree' = WithTree(es), UNCHANGED <<root, path>>
  PROVE  /\ path \notin DOMAIN tree /\ path \in Seq(Nid)
         /\ DOMAIN tree' = DOMAIN tree \cup {path}
         /\ tree'[path] = [entries |-> es, next |-> 1]
         /\ \A p \in DOMAIN tree :
              /\ tree'[p] = tree[p] /\ BlockOf(p)' = BlockOf(p)
              /\ p # <<>> => Above(p) \in DOMAIN tree /\ Position(p)' = Position(p)
         /\ NoSI' => NoSI
<1>1. path \notin DOMAIN tree /\ path \in Seq(Nid)
  BY DEF TInv, TypeOK, ReadsOK
<1>2. /\ DOMAIN tree' = DOMAIN tree \cup {path}
      /\ tree'[path] = [entries |-> es, next |-> 1]
      /\ \A p \in DOMAIN tree : tree'[p] = tree[p]
  BY <1>1 DEF WithTree, Tree
<1>3. ASSUME NEW p \in DOMAIN tree, p # <<>>
      PROVE  /\ Above(p) \in DOMAIN tree /\ Position(p)' = Position(p)
             /\ BlockOf(p)' = BlockOf(p)
  <2>1. Above(p) \in DOMAIN tree
    BY <1>3 DEF TInv, TypeOK
  <2>2. tree'[Above(p)] = tree[Above(p)]
    BY <1>2, <2>1
  <2>3. Position(p)' = Position(p)
    BY <2>2 DEF Position
  <2> QED
    BY <1>3, <2>1, <2>2, <2>3 DEF BlockOf
<1>4. \A p \in DOMAIN tree : p = <<>> => BlockOf(p)' = BlockOf(p)
  BY DEF BlockOf
<1>5. NoSI' => NoSI
  BY <1>2, <1>3, <1>4 DEF NoSI
<1> QED
  BY <1>1, <1>2, <1>3, <1>4, <1>5

\* The position moves on.
LEMMA Added ==
  ASSUME TInv, AddData
  PROVE  /\ pc = "loop" /\ More /\ path \in DOMAIN tree /\ path \in Seq(Nid)
         /\ Here.sub = None \/ Append(path, Here.nid) \in DOMAIN tree
         /\ UNCHANGED <<assertsOn, root, fail, pc, path>>
         /\ DOMAIN tree' = DOMAIN tree
         /\ \A p \in DOMAIN tree : tree'[p].entries = tree[p].entries
         /\ \A p \in DOMAIN tree : p # path => tree'[p] = tree[p]
         /\ tree'[path].next = tree[path].next + 1
         /\ tree[path].next \in 1..Len(tree[path].entries)
         /\ DOMAIN tree[path].entries = 1..Len(tree[path].entries)
<1> DEFINE t == [tree[path] EXCEPT !.next = @ + 1]
<1>1. /\ pc = "loop" /\ More /\ tree' = [tree EXCEPT ![path] = t]
      /\ Here.sub = None \/ Append(path, Here.nid) \in DOMAIN tree
      /\ UNCHANGED <<assertsOn, root, fail, pc, path>> /\ path \in DOMAIN tree
  BY DEF AddData, AtData, TInv
<1>2. /\ tree[path] \in [entries : Seq(ReadEntry), next : Nat] /\ path \in Seq(Nid)
      /\ tree[path].next \in 1..Len(tree[path].entries)
      /\ DOMAIN tree[path].entries = 1..Len(tree[path].entries)
  BY <1>1, HereFacts, LenProperties DEF TInv
<1>3. t.entries = tree[path].entries /\ t.next = tree[path].next + 1
  BY <1>2
<1> HIDE DEF t
<1>4. /\ DOMAIN tree' = DOMAIN tree
      /\ \A p \in DOMAIN tree : tree'[p] = IF p = path THEN t ELSE tree[p]
  BY <1>1
<1> QED
  BY <1>1, <1>2, <1>3, <1>4

\* The other steps leave the trees and the path.
LEMMA StepCases ==
  ASSUME TInv, [Next]_vars
  PROVE  /\ UNCHANGED <<assertsOn, root>>
         /\ \/ /\ pc \in {"read", "expand"} /\ pc' = "loop" /\ UNCHANGED path
               /\ \E es : tree' = WithTree(es)
            \/ EnterNested \/ AddData \/ Return
            \/ /\ UNCHANGED <<tree, path>>
               /\ pc' \in {pc, "thrown", "aborted", "garbled"} \/ (pc = "read" /\ pc' = "expand")
<1>1. CASE ReadBlock
  <2>1. pc = "read" /\ UNCHANGED <<assertsOn, root, path>>
    BY <1>1 DEF ReadBlock
  <2>2. CASE UNCHANGED tree /\ pc' \in {"thrown", "aborted", "expand"}
    BY <2>1, <2>2
  <2>3. CASE pc' = "loop" /\ \E es : tree' = WithTree(es)
    BY <2>1, <2>3
  <2> QED
    BY <1>1, <2>2, <2>3, ReadCases
<1>2. CASE ExpandSI
  <2>1. pc = "expand" /\ UNCHANGED <<assertsOn, root, path>>
    BY <1>2 DEF ExpandSI
  <2>2. CASE UNCHANGED tree /\ pc' \in {"thrown", "aborted", "garbled"}
    BY <2>1, <2>2
  <2>3. CASE pc' = "loop" /\ \E es : tree' = WithTree(es)
    BY <2>1, <2>3
  <2> QED
    BY <1>2, <2>2, <2>3 DEF ExpandSI
<1>3. CASE EnterNested \/ AddData \/ Return
  BY <1>3 DEF EnterNested, AddData, Return
<1>4. CASE StopDuplicate
  <2>1. UNCHANGED <<assertsOn, root, tree, path>> /\ pc' = "aborted"
    BY <1>4 DEF StopDuplicate
  <2> QED
    BY <2>1
<1>5. CASE (\E n \in Cuts : Truncate(n)) \/ UNCHANGED vars
  <2>1. UNCHANGED <<assertsOn, root, tree, pc, path>>
    BY <1>5 DEF Truncate, vars
  <2>2. pc' \in {pc, "thrown", "aborted", "garbled"}
    BY <2>1
  <2> QED
    BY <2>1, <2>2
<1> QED
  BY <1>1, <1>2, <1>3, <1>4, <1>5 DEF Next

LEMMA UnderSelf ==
  ASSUME NEW p \in Seq(Nid)
  PROVE  Under(p, p)
BY SubSeqFull, LenProperties DEF Under

LEMMA InitNesting == Init => Nesting
<1> SUFFICES ASSUME Init PROVE Nesting
  OBVIOUS
<1>1. CASE root = None
  <2>1. /\ DOMAIN tree = {<<>>}
        /\ \A p \in DOMAIN tree : p = <<>> /\ tree[p].entries = <<>> /\ tree[p].next = 1
    BY <1>1 DEF Init, Tree
  <2>2. \A p \in DOMAIN tree : tree[p].next = Len(tree[p].entries) + 1
                               /\ DOMAIN tree[p].entries = {}
    BY <2>1
  <2> QED
    BY <2>1, <2>2 DEF Nesting, NamedOK, DoneOK, ChildOK, OnPath
<1>2. CASE root # None
  <2>1. DOMAIN tree = {}
    BY <1>2 DEF Init
  <2> QED
    BY <2>1 DEF Nesting, NamedOK, DoneOK, ChildOK, OnPath
<1> QED
  BY <1>1, <1>2

\* The entry that waits for the block that is being read.
LEMMA WaitsAt ==
  ASSUME TInv, pc \in {"read", "expand"}, path # <<>>
  PROVE  /\ Above(path) \in DOMAIN tree /\ AtEntryOf(path) /\ tree[Above(path)].next \in Nat
<1> DEFINE up == tree[Above(path)]
<1>1. /\ Above(path) \in DOMAIN tree /\ up.next <= Len(up.entries)
      /\ up.entries[up.next].nid = path[Len(path)] /\ up.entries[up.next].sub # None
  BY DEF TInv, ReadsOK, Current
<1>2. up.entries \in Seq(ReadEntry) /\ up.next \in 1..(Len(up.entries) + 1)
  BY <1>1 DEF TInv, TypeOK
<1> HIDE DEF up
<1>3. up.next \in DOMAIN up.entries /\ up.next \in Nat
  BY <1>1, <1>2, LenProperties
<1> QED
  BY <1>1, <1>3 DEF AtEntryOf, up

\* A tree is added below the entry that its constructor is at.
LEMMA GrowNesting ==
  ASSUME TInv, TInv', Nesting, pc \in {"read", "expand"}, pc' = "loop", NEW es, tree' = WithTree(es),
         UNCHANGED <<root, path>>
  PROVE  Nesting'
<1>1. /\ path \notin DOMAIN tree /\ path \in Seq(Nid)
      /\ DOMAIN tree' = DOMAIN tree \cup {path} /\ tree'[path] = [entries |-> es, next |-> 1]
      /\ \A p \in DOMAIN tree : tree'[p] = tree[p] /\ (p # <<>> => Above(p) \in DOMAIN tree)
  BY Grown
<1>2. path # <<>> => /\ Above(path) \in DOMAIN tree /\ AtEntryOf(path)
                     /\ tree[Above(path)].next \in Nat
  BY WaitsAt
<1>3. NamedOK'
  <2> SUFFICES ASSUME NEW q \in DOMAIN tree', q # <<>>
               PROVE  \E i \in DOMAIN tree'[Above(q)].entries :
                        /\ tree'[Above(q)].entries[i].nid = q[Len(q)]
                        /\ tree'[Above(q)].entries[i].sub # None
                        /\ i <= tree'[Above(q)].next
    BY DEF NamedOK
  <2>1. CASE q = path
    <3>1. tree'[Above(q)] = tree[Above(q)] /\ AtEntryOf(path) /\ tree[Above(q)].next \in Nat
      BY <1>1, <1>2, <2>1
    <3>2. tree[Above(q)].next <= tree[Above(q)].next
      BY <3>1
    <3> QED
      BY <2>1, <3>1, <3>2 DEF AtEntryOf
  <2>2. CASE q # path
    <3>1. q \in DOMAIN tree /\ tree'[Above(q)] = tree[Above(q)]
      BY <1>1, <2>2
    <3> QED
      BY <3>1 DEF Nesting, NamedOK
  <2> QED
    BY <2>1, <2>2
<1>4. DoneOK'
  <2>1. Under(path, path)
    BY <1>1, UnderSelf
  <2> QED
    BY <1>1, <2>1 DEF Nesting, DoneOK
<1>5. ChildOK'
  <2>1. ASSUME NEW p \in DOMAIN tree', NEW i \in DOMAIN tree'[p].entries,
               tree'[p].entries[i].sub # None, i < tree'[p].next
        PROVE  Append(p, tree'[p].entries[i].nid) \in DOMAIN tree'
    <3>1. CASE p = path
      <4>1. tree'[p].entries \in Seq(ReadEntry) /\ tree'[p].next = 1
        BY <1>1, <3>1 DEF TInv, TypeOK
      <4>2. i \in 1..Len(tree'[p].entries) /\ Len(tree'[p].entries) \in Nat
        BY <4>1, LenProperties
      <4> QED
        BY <2>1, <4>1, <4>2
    <3>2. CASE p # path
      BY <1>1, <2>1, <3>2 DEF Nesting, ChildOK
    <3> QED
      BY <3>1, <3>2
  <2> QED
    BY <2>1 DEF ChildOK
<1>6. OnPath'
  <2> SUFFICES ASSUME NEW a \in DOMAIN tree', a # <<>>, Under(a, path) PROVE AtEntryOf(a)'
    BY DEF OnPath
  <2>1. a # path => a \in DOMAIN tree
    BY <1>1
  <2>2. AtEntryOf(a) /\ Above(a) \in DOMAIN tree
    BY <1>1, <1>2, <2>1 DEF Nesting, OnPath
  <2>3. tree'[Above(a)] = tree[Above(a)]
    BY <1>1, <2>2
  <2> QED
    BY <2>2, <2>3 DEF AtEntryOf
<1> QED
  BY <1>3, <1>4, <1>5, <1>6 DEF Nesting

LEMMA NextNesting == TInv /\ TInv' /\ Nesting /\ [Next]_vars => Nesting'
<1> SUFFICES ASSUME TInv, TInv', Nesting, [Next]_vars PROVE Nesting'
  OBVIOUS
<1>1. \A p \in DOMAIN tree : p \in Seq(Nid) /\ (p # <<>> => Above(p) \in DOMAIN tree)
  BY DEF TInv, TypeOK
<1>2. CASE /\ pc \in {"read", "expand"} /\ pc' = "loop" /\ UNCHANGED <<root, path>>
           /\ \E es : tree' = WithTree(es)
  BY <1>2, GrowNesting
<1>3. CASE EnterNested
  <2>1. /\ pc = "loop" /\ path' = Append(path, Here.nid) /\ path' \notin DOMAIN tree
        /\ pc' = "read" /\ UNCHANGED tree /\ More /\ Here.sub # None
    BY <1>3 DEF EnterNested
  <2>2. Here.nid \in Nid /\ path \in Seq(Nid) /\ path' \in Seq(Nid)
    BY <2>1, HereFacts DEF TInv, TypeOK
  <2>3. \A p \in DOMAIN tree : Under(p, path) => Under(p, path')
    BY <1>1, <2>1, <2>2, UnderAppend
  <2>4. path' # <<>> /\ Above(path') = path
    BY <2>1, <2>2, PathOfNested
  <2>5. \A p \in DOMAIN tree : Under(p, path') => Under(p, path)
    BY <1>1, <2>1, <2>2, <2>4, UnderAbove
  <2>6. DoneOK'
    BY <2>1, <2>3 DEF Nesting, DoneOK
  <2>7. OnPath'
    BY <2>1, <2>5 DEF Nesting, OnPath, AtEntryOf
  <2> QED
    BY <2>1, <2>6, <2>7 DEF Nesting, NamedOK, ChildOK
<1>4. CASE AddData
  <2>1. /\ pc = "loop" /\ path \in DOMAIN tree /\ path \in Seq(Nid)
        /\ Here.sub = None \/ Append(path, Here.nid) \in DOMAIN tree
        /\ UNCHANGED <<pc, path>> /\ DOMAIN tree' = DOMAIN tree
        /\ \A p \in DOMAIN tree : tree'[p].entries = tree[p].entries
        /\ \A p \in DOMAIN tree : p # path => tree'[p] = tree[p]
        /\ tree'[path].next = tree[path].next + 1
        /\ tree[path].next \in 1..Len(tree[path].entries)
        /\ DOMAIN tree[path].entries = 1..Len(tree[path].entries)
    BY <1>4, Added
  <2>2. NamedOK'
    <3> SUFFICES ASSUME NEW q \in DOMAIN tree, q # <<>>
                 PROVE  \E i \in DOMAIN tree'[Above(q)].entries :
                          /\ tree'[Above(q)].entries[i].nid = q[Len(q)]
                          /\ tree'[Above(q)].entries[i].sub # None
                          /\ i <= tree'[Above(q)].next
      BY <2>1 DEF NamedOK
    <3>1. PICK i \in DOMAIN tree[Above(q)].entries :
            /\ tree[Above(q)].entries[i].nid = q[Len(q)] /\ tree[Above(q)].entries[i].sub # None
            /\ i <= tree[Above(q)].next
      BY DEF Nesting, NamedOK
    <3>2. /\ Above(q) \in DOMAIN tree /\ tree'[Above(q)].entries = tree[Above(q)].entries
          /\ Above(q) # path => tree'[Above(q)] = tree[Above(q)]
      BY <1>1, <2>1
    <3>3. i <= tree'[Above(q)].next
      <4>1. CASE Above(q) = path
        <5>1. i \in 1..Len(tree[path].entries) /\ i <= tree[path].next
          BY <2>1, <3>1, <4>1
        <5>2. i <= tree[path].next + 1
          BY <2>1, <5>1
        <5> QED
          BY <2>1, <4>1, <5>2
      <4>2. CASE Above(q) # path
        BY <3>1, <3>2, <4>2
      <4> QED
        BY <4>1, <4>2
    <3> QED
      BY <3>1, <3>2, <3>3
  <2>3. DoneOK'
    <3>1. Under(path, path)
      BY <2>1, UnderSelf
    <3> QED
      BY <2>1, <3>1 DEF Nesting, DoneOK
  <2>4. ChildOK'
    <3>1. ASSUME NEW p \in DOMAIN tree, NEW i \in DOMAIN tree[p].entries,
                 tree[p].entries[i].sub # None, i < tree'[p].next
          PROVE  Append(p, tree[p].entries[i].nid) \in DOMAIN tree
      <4>1. CASE i < tree[p].next
        BY <3>1, <4>1 DEF Nesting, ChildOK
      <4>2. CASE ~(i < tree[p].next)
        <5>1. p = path
          BY <2>1, <3>1, <4>2
        <5>2. i \in 1..Len(tree[path].entries) /\ i < tree[path].next + 1
          BY <2>1, <3>1, <5>1
        <5>3. i = tree[path].next
          BY <2>1, <4>2, <5>1, <5>2
        <5>4. Here = tree[p].entries[i]
          BY <5>1, <5>3 DEF Here
        <5> QED
          BY <2>1, <3>1, <5>1, <5>4
      <4> QED
        BY <4>1, <4>2
    <3> QED
      BY <2>1, <3>1 DEF ChildOK
  <2>5. OnPath'
    <3> SUFFICES ASSUME NEW a \in DOMAIN tree, a # <<>>, Under(a, path) PROVE AtEntryOf(a)'
      BY <2>1 DEF OnPath
    <3>1. Above(a) # path
      <4>1. Len(a) \in Nat /\ Len(path) \in Nat
        BY <1>1, <2>1
      <4>2. Len(Above(a)) = Len(a) - 1
        BY <1>1, PathAbove
      <4>3. Len(a) <= Len(path)
        BY DEF Under
      <4> QED
        BY <4>1, <4>2, <4>3
    <3>2. tree'[Above(a)] = tree[Above(a)] /\ AtEntryOf(a)
      BY <1>1, <2>1, <3>1 DEF Nesting, OnPath
    <3> QED
      BY <3>2 DEF AtEntryOf
  <2> QED
    BY <2>2, <2>3, <2>4, <2>5 DEF Nesting
<1>5. CASE Return
  <2>1. pc = "loop" /\ ~More /\ UNCHANGED tree /\ path \in DOMAIN tree /\ path \in Seq(Nid)
    BY <1>5 DEF Return, TInv, TypeOK
  <2>2. tree[path].next = Len(tree[path].entries) + 1
    <3>1. /\ tree[path].next \in 1..(Len(tree[path].entries) + 1)
          /\ Len(tree[path].entries) \in Nat
      BY <2>1 DEF TInv, TypeOK
    <3> QED
      BY <2>1, <3>1 DEF More
  <2>3. CASE path = <<>> /\ pc' = "ready"
    <3>1. ASSUME NEW p \in DOMAIN tree, Under(p, path) PROVE p = path
      <4>1. p \in Seq(Nid) /\ Len(path) = 0 /\ Len(p) <= Len(path)
        BY <1>1, <2>3, <3>1, EmptySeq DEF Under
      <4> QED
        BY <2>3, <4>1, EmptySeq
    <3>2. DoneOK'
      BY <2>1, <2>2, <3>1 DEF Nesting, DoneOK
    <3>3. OnPath'
      BY <2>3 DEF OnPath
    <3> QED
      BY <2>1, <3>2, <3>3 DEF Nesting, NamedOK, ChildOK
  <2>4. CASE path # <<>> /\ path' = Above(path) /\ UNCHANGED pc
    <3>1. \A p \in DOMAIN tree : Under(p, path) => p = path \/ Under(p, path')
      BY <1>1, <2>1, <2>4, UnderAbove
    <3>2. DoneOK'
      BY <2>1, <2>2, <2>4, <3>1 DEF Nesting, DoneOK
    <3>3. path' \in Seq(Nid) /\ Under(path', path)
      <4>1. path' \in Seq(Nid)
        BY <2>1, <2>4, PathAbove
      <4>2. path' = SubSeq(path, 1, Len(path) - 1)
        BY <2>4 DEF Above
      <4>3. Len(path') = Len(path) - 1 /\ Len(path) \in Nat
        BY <2>1, <2>4, PathAbove
      <4> QED
        BY <4>1, <4>2, <4>3 DEF Under
    <3>4. \A p \in DOMAIN tree : Under(p, path') => Under(p, path)
      BY <1>1, <2>1, <3>3, UnderTrans
    <3>5. OnPath'
      BY <2>1, <2>4, <3>4 DEF Nesting, OnPath, AtEntryOf
    <3> QED
      BY <2>1, <3>2, <3>5 DEF Nesting, NamedOK, ChildOK
  <2> QED
    BY <1>5, <2>3, <2>4 DEF Return
<1>6. CASE /\ UNCHANGED <<tree, path>>
           /\ pc' \in {pc, "thrown", "aborted", "garbled"} \/ (pc = "read" /\ pc' = "expand")
  <2>1. DoneOK'
    <3>1. pc' = "ready" => pc = "ready"
      BY <1>6
    <3> QED
      BY <1>6, <3>1 DEF Nesting, DoneOK
  <2>2. OnPath'
    <3>1. pc' \in {"read", "expand", "loop"} => pc \in {"read", "expand", "loop"}
      BY <1>6
    <3> QED
      BY <1>6, <3>1 DEF Nesting, OnPath, AtEntryOf
  <2> QED
    BY <1>6, <2>1, <2>2 DEF Nesting, NamedOK, ChildOK
<1> QED
  BY <1>2, <1>3, <1>4, <1>5, <1>6, StepCases

\* At the end every tree has those of its entries.
LEMMA ReadyIsWalked ==
  ASSUME TInv, Nesting, pc = "ready"
  PROVE  Walked
<1>1. DoneOK /\ ChildOK /\ NamedOK
  BY DEF Nesting
<1>2. ASSUME NEW p \in DOMAIN tree PROVE Nested(p) = SubTrees(p)
  <2>1. /\ p \in Seq(Nid) /\ tree[p].entries \in Seq(ReadEntry)
        /\ tree[p].next = Len(tree[p].entries) + 1
        /\ DOMAIN tree[p].entries = 1..Len(tree[p].entries)
    BY <1>1, LenProperties DEF TInv, TypeOK, DoneOK
  <2>2. ASSUME NEW q \in Nested(p) PROVE q \in SubTrees(p)
    <3>1. PICK i \in DOMAIN tree[p].entries :
            tree[p].entries[i].sub # None /\ q = Append(p, tree[p].entries[i].nid)
      BY <2>2 DEF Nested
    <3>2. tree[p].entries[i] \in ReadEntry /\ i < tree[p].next
      BY <2>1, ElementOfSeq, LenProperties
    <3>3. tree[p].entries[i].nid \in Nid
      BY <3>1, <3>2, ReadEntryFacts
    <3>4. q \in DOMAIN tree
      BY <1>1, <3>1, <3>2 DEF ChildOK
    <3>5. Len(q) = Len(p) + 1 /\ Above(q) = p
      BY <2>1, <3>1, <3>3, PathOfNested
    <3> QED
      BY <3>4, <3>5 DEF SubTrees
  <2>3. ASSUME NEW q \in SubTrees(p) PROVE q \in Nested(p)
    <3>1. q \in DOMAIN tree /\ Len(q) = Len(p) + 1 /\ Above(q) = p /\ q \in Seq(Nid)
      BY <2>3 DEF SubTrees, TInv, TypeOK
    <3>2. q # <<>>
      <4>1. Len(p) \in Nat
        BY <2>1
      <4> QED
        BY <3>1, <4>1, EmptySeq
    <3>3. PICK i \in DOMAIN tree[p].entries :
            tree[p].entries[i].nid = q[Len(q)] /\ tree[p].entries[i].sub # None
      BY <1>1, <3>1, <3>2 DEF NamedOK
    <3>4. q = Append(p, q[Len(q)])
      BY <3>1, <3>2, PathAbove
    <3> QED
      BY <3>3, <3>4 DEF Nested
  <2> QED
    BY <2>2, <2>3
<1> QED
  BY <1>1, <1>2 DEF Walked, DoneOK

-----------------------------------------------------------------------------
(* What a short read loses. *)

\* What a read may make of a block, as an SLBLOCK.
MadeOf == [b \in Block |-> {EntriesFrom(b, k) : k \in 0..AlignedSize(Cb[b])}]

FromBlock(p) ==
  HasItsEntries(p) \/ (BlockOf(p) \in Block /\ tree[p].entries \in MadeOf[BlockOf(p)])

FromBlocks == \A p \in DOMAIN tree : FromBlock(p)

\* A tree lacks something only after a read failed, and then so do those read later.
LossFails == (\E p \in DOMAIN tree : ~HasItsEntries(p)) => fail
TailOK ==
  \A p, q \in DOMAIN tree : (~HasItsEntries(p) /\ ReadBefore(p, q)) => tree[q].entries = <<>>

Losses == NoSI => FromBlocks /\ LossFails /\ TailOK

LEMMA BlockOfType ==
  ASSUME TInv, NamedOK, NEW p \in DOMAIN tree
  PROVE  BlockOf(p) \in Block \cup {None}
<1>1. CASE p = <<>>
  BY <1>1, SubNodesAssumption DEF TInv, TypeOK, BlockOf
<1>2. CASE p # <<>>
  <2> DEFINE es == tree[Above(p)].entries
             i  == Position(p)
  <2>1. es \in Seq(ReadEntry)
    BY <1>2 DEF TInv, TypeOK
  <2>2. i \in DOMAIN es
    BY <1>2 DEF NamedOK, Position
  <2>3. BlockOf(p) = es[i].sub
    BY <1>2 DEF BlockOf
  <2> HIDE DEF es, i
  <2>4. es[i] \in ReadEntry
    BY <2>1, <2>2, ElementOfSeq, LenProperties
  <2> QED
    BY <2>3, <2>4, ReadEntryFacts
<1> QED
  BY <1>1, <1>2

\* Where the bytes make an entry with sub-nodes, its NID is the block's, and unique.
LEMMA UniqueSubs ==
  ASSUME TInv, NamedOK, NoSI, NEW p \in DOMAIN tree, FromBlock(p)
  PROVE  \A i, j \in DOMAIN tree[p].entries :
           /\ tree[p].entries[i].sub # None /\ tree[p].entries[j].sub # None
           /\ tree[p].entries[i].nid = tree[p].entries[j].nid
           => i = j
<1> DEFINE b == BlockOf(p)
           es == tree[p].entries
<1>1. CASE b = None
  <2>1. b \notin Block
    BY <1>1, SubNodesAssumption
  <2>2. es = <<>>
    BY <1>1, <2>1 DEF FromBlock, HasItsEntries
  <2> QED
    BY <2>2
<1>2. CASE b # None
  <2>1. b \in Block /\ Kind[b] = "SL"
    BY <1>2, BlockOfType DEF NoSI
  <2>2. \A i, j \in DOMAIN Entries[b] : Entries[b][i].nid = Entries[b][j].nid => i = j
    BY <2>1, BlockFacts
  <2>3. CASE HasItsEntries(p)
    <3>1. es = Entries[b]
      BY <1>2, <2>1, <2>3 DEF HasItsEntries, ImageEntries
    <3> HIDE DEF b, es
    <3> QED
      BY <2>2, <3>1 DEF es
  <2>4. CASE es \in MadeOf[b]
    <3>1. PICK k \in 0..AlignedSize(Cb[b]) : es = EntriesFrom(b, k)
      BY <2>1, <2>4 DEF MadeOf
    <3>2. k \in Nat /\ IsSL(b, k)
      BY <2>1, BlockFacts DEF IsSL
    <3> HIDE DEF b
    <3>3. /\ DOMAIN es \subseteq DOMAIN Entries[b]
          /\ \A i \in DOMAIN es : es[i].sub # None => es[i].nid = Entries[b][i].nid
      BY <2>1, <3>1, <3>2, EntriesFromFacts
    <3> HIDE DEF es
    <3>4. \A i, j \in DOMAIN es :
            (es[i].sub # None /\ es[j].sub # None /\ es[i].nid = es[j].nid) => i = j
      BY <2>2, <3>3
    <3> QED
      BY <3>4 DEF es
  <2> QED
    BY <2>3, <2>4 DEF FromBlock
<1> QED
  BY <1>1, <1>2

\* Where the constructor above stands, or stood, when a tree was added.
LEMMA PositionAt ==
  ASSUME TInv, NamedOK, NoSI, FromBlocks, NEW a, a # <<>>, Above(a) \in DOMAIN tree, AtEntryOf(a)
  PROVE  Position(a) = tree[Above(a)].next
<1> DEFINE es == tree[Above(a)].entries
           i == tree[Above(a)].next
<1>1. i \in DOMAIN es /\ es[i].nid = a[Len(a)] /\ es[i].sub # None
  BY DEF AtEntryOf
<1>2. \A j \in DOMAIN es : (es[j].sub # None /\ es[j].nid = es[i].nid) => j = i
  BY <1>1, UniqueSubs DEF FromBlocks
<1>3. Position(a) = CHOOSE j \in DOMAIN es : es[j].nid = a[Len(a)] /\ es[j].sub # None
  BY DEF Position
<1> HIDE DEF es, i
<1>4. Position(a) = i
  BY <1>1, <1>2, <1>3
<1> QED
  BY <1>4 DEF i

LEMMA PositionIs ==
  ASSUME TInv, NamedOK, NoSI, FromBlocks, NEW q \in DOMAIN tree, q # <<>>
  PROVE  Position(q) \in Nat /\ Position(q) <= tree[Above(q)].next
<1> DEFINE es == tree[Above(q)].entries
<1>1. Above(q) \in DOMAIN tree /\ es \in Seq(ReadEntry)
  BY DEF TInv, TypeOK
<1>2. PICK j \in DOMAIN es :
        es[j].nid = q[Len(q)] /\ es[j].sub # None /\ j <= tree[Above(q)].next
  BY DEF NamedOK
<1>3. Position(q) \in DOMAIN es /\ es[Position(q)].nid = q[Len(q)] /\ es[Position(q)].sub # None
  BY <1>2 DEF Position
<1>4. Position(q) = j
  BY <1>1, <1>2, <1>3, UniqueSubs DEF FromBlocks
<1>5. j \in Nat
  BY <1>1, LenProperties
<1> QED
  BY <1>2, <1>4, <1>5

\* The tree that is added has the block that was wanted.
LEMMA BlockOfNew ==
  ASSUME TInv, NamedOK, NoSI, FromBlocks, pc \in {"read", "expand"},
         NEW es, tree' = WithTree(es), UNCHANGED <<root, path>>
  PROVE  /\ BlockOf(path)' = Wanted
         /\ path # <<>> => /\ Above(path) \in DOMAIN tree
                           /\ Position(path)' = tree[Above(path)].next
                           /\ tree[Above(path)].next \in Nat
<1>1. CASE path = <<>>
  BY <1>1 DEF BlockOf, Wanted
<1>2. CASE path # <<>>
  <2>1. /\ Above(path) \in DOMAIN tree /\ AtEntryOf(path) /\ tree[Above(path)].next \in Nat
    BY <1>2, WaitsAt
  <2>2. Position(path) = tree[Above(path)].next
    BY <1>2, <2>1, PositionAt
  <2>3. tree'[Above(path)] = tree[Above(path)]
    BY <2>1, Grown
  <2>4. Position(path)' = Position(path)
    BY <2>3 DEF Position
  <2>5. BlockOf(path)' = tree[Above(path)].entries[tree[Above(path)].next].sub
    BY <1>2, <2>2, <2>3, <2>4 DEF BlockOf
  <2> QED
    BY <1>2, <2>1, <2>2, <2>4, <2>5 DEF Wanted, Current
<1> QED
  BY <1>1, <1>2

\* Every path that leads to a tree has one.
LEMMA PrefixIn ==
  ASSUME TInv, NEW q \in DOMAIN tree, NEW p \in Seq(Nid), Under(p, q)
  PROVE  p \in DOMAIN tree
<1> DEFINE Lens == {n \in Nat : \E t \in DOMAIN tree : Under(p, t) /\ Len(t) = n}
<1>1. \A t \in DOMAIN tree : t \in Seq(Nid) /\ Len(t) \in Nat /\ (t # <<>> => Above(t) \in DOMAIN tree)
  BY DEF TInv, TypeOK
<1>2. PICK n \in Lens : \A k \in Lens : n <= k
  <2>1. Lens \in SUBSET Nat /\ Len(q) \in Lens
    BY <1>1
  <2> HIDE DEF Lens
  <2> QED
    BY <2>1, Least
<1>3. PICK c \in DOMAIN tree : Under(p, c) /\ Len(c) = n
  BY <1>2
<1>4. p = c
  <2> SUFFICES ASSUME p # c PROVE FALSE
    OBVIOUS
  <2>1. Len(p) < Len(c) /\ Len(p) \in Nat /\ Len(c) \in Nat
    BY <1>1, <1>3, UnderIsLonger
  <2>2. c # <<>>
    BY <2>1, EmptySeq
  <2>3. Under(p, Above(c)) /\ Above(c) \in DOMAIN tree /\ Len(Above(c)) = Len(c) - 1
    BY <1>1, <1>3, <2>2, UnderAbove, PathAbove
  <2>4. Len(Above(c)) \in Lens
    BY <1>1, <2>3
  <2> HIDE DEF Lens
  <2>5. n <= Len(c) - 1
    BY <1>2, <2>3, <2>4
  <2> QED
    BY <1>3, <2>1, <2>5
<1> QED
  BY <1>3, <1>4

\* Two paths of one length to one tree are the same.
LEMMA UnderSame ==
  ASSUME NEW p \in Seq(Nid), NEW q \in Seq(Nid), NEW r \in Seq(Nid), Under(p, r), Under(q, r),
         Len(p) = Len(q)
  PROVE  p = q
<1>1. Under(p, q)
  BY UnderBoth
<1> QED
  BY <1>1, UnderIsLonger

\* Nothing that is there is read after the tree that is added.
LEMMA NewIsLast ==
  ASSUME TInv, Nesting, NoSI, FromBlocks, pc \in {"read", "expand"},
         NEW es, tree' = WithTree(es), UNCHANGED <<root, path>>
  PROVE  /\ \A p, q \in DOMAIN tree' : ReadBefore(p, q)' => p # path
         /\ \A p, q \in DOMAIN tree : ReadBefore(p, q)' => ReadBefore(p, q)
<1>1. /\ path \notin DOMAIN tree /\ path \in Seq(Nid)
      /\ DOMAIN tree' = DOMAIN tree \cup {path}
      /\ \A p \in DOMAIN tree : (p # <<>> => Above(p) \in DOMAIN tree /\ Position(p)' = Position(p))
  BY Grown
<1>2. \A p \in DOMAIN tree : p \in Seq(Nid) /\ Len(p) \in Nat
  BY DEF TInv, TypeOK
<1>3. \A q \in DOMAIN tree : ~Under(path, q)
  BY <1>1, PrefixIn
<1>4. Len(path) \in Nat
  BY <1>1
<1>5. ASSUME NEW p \in DOMAIN tree', NEW q \in DOMAIN tree', ReadBefore(p, q)', p = path
      PROVE  FALSE
  <2>1. CASE Under(p, q) /\ p # q
    BY <1>1, <1>3, <1>5, <2>1
  <2>2. ASSUME NEW a \in DOMAIN tree', NEW b \in DOMAIN tree', a # <<>>, b # <<>>,
               Above(a) = Above(b), Position(a)' < Position(b)', Under(a, path), Under(b, q)
        PROVE  FALSE
    <3>1. a \in Seq(Nid) /\ b \in Seq(Nid) /\ q \in Seq(Nid)
      BY <1>1, <1>2
    <3>2. Len(a) = Len(b)
      <4>1. /\ Len(Above(a)) = Len(a) - 1 /\ Len(Above(b)) = Len(b) - 1
            /\ Len(a) \in Nat /\ Len(b) \in Nat
        BY <2>2, <3>1, PathAbove
      <4> QED
        BY <2>2, <4>1
    <3>3. b # path
      <4> SUFFICES ASSUME b = path PROVE FALSE
        OBVIOUS
      <4>1. q = path
        BY <1>1, <1>3, <2>2
      <4>2. a = b
        BY <1>1, <2>2, <3>1, <3>2, <4>1, UnderSame
      <4>3. Position(a)' \in Nat
        BY <1>1, <2>2, <4>2, BlockOfNew DEF Nesting
      <4> QED
        BY <2>2, <4>2, <4>3
    <3>4. b \in DOMAIN tree /\ Above(b) \in DOMAIN tree /\ Position(b)' = Position(b)
      BY <1>1, <2>2, <3>3
    <3>5. Position(a)' = tree[Above(a)].next
      <4>1. CASE a = path
        BY <2>2, <4>1, BlockOfNew DEF Nesting
      <4>2. CASE a # path
        <5>1. a \in DOMAIN tree /\ Position(a)' = Position(a) /\ AtEntryOf(a)
          BY <1>1, <2>2, <4>2 DEF Nesting, OnPath
        <5>2. Position(a) = tree[Above(a)].next
          BY <2>2, <3>4, <5>1, PositionAt DEF Nesting
        <5> QED
          BY <5>1, <5>2
      <4> QED
        BY <4>1, <4>2
    <3>6. Position(b) \in Nat /\ Position(b) <= tree[Above(b)].next
      BY <2>2, <3>4, PositionIs DEF Nesting
    <3>7. tree[Above(b)].next \in Nat
      BY <3>4 DEF TInv
    <3> QED
      BY <2>2, <3>4, <3>5, <3>6, <3>7
  <2> QED
    <3>1. \E a, b \in DOMAIN tree' :
            /\ a # <<>> /\ b # <<>> /\ Above(a) = Above(b) /\ Position(a)' < Position(b)'
            /\ Under(a, p) /\ Under(b, q)
      BY <1>5, <2>1 DEF ReadBefore
    <3> QED
      BY <1>5, <2>2, <3>1
<1>6. ASSUME NEW p \in DOMAIN tree, NEW q \in DOMAIN tree, ReadBefore(p, q)'
      PROVE  ReadBefore(p, q)
  <2>1. CASE Under(p, q) /\ p # q
    BY <2>1 DEF ReadBefore
  <2>2. ASSUME NEW a \in DOMAIN tree', NEW b \in DOMAIN tree', a # <<>>, b # <<>>,
               Above(a) = Above(b), Position(a)' < Position(b)', Under(a, p), Under(b, q)
        PROVE  ReadBefore(p, q)
    <3>1. a # path /\ b # path
      BY <1>3, <2>2
    <3>2. a \in DOMAIN tree /\ b \in DOMAIN tree /\ Position(a) < Position(b)
      BY <1>1, <2>2, <3>1
    <3> QED
      BY <2>2, <3>2 DEF ReadBefore
  <2> QED
    BY <1>6, <2>1, <2>2 DEF ReadBefore
<1> QED
  BY <1>5, <1>6

\* An SIBLOCK that is read is met.
LEMMA GrowSI ==
  ASSUME TInv, Nesting, Losses, pc \in {"read", "expand"}, Kind[Wanted] = "SI",
         NEW es, tree' = WithTree(es), UNCHANGED <<root, path>>
  PROVE  ~NoSI' /\ (NoSI => path \in DOMAIN tree' /\ BlockOf(path)' = Wanted /\ Wanted \in Block)
<1>1. Wanted \in Block /\ Wanted # None
  BY WantedFacts, BlockFacts
<1>2. path \in DOMAIN tree' /\ (NoSI' => NoSI)
  BY Grown
<1>3. NoSI => BlockOf(path)' = Wanted
  BY BlockOfNew DEF Losses, Nesting
<1>4. NoSI => ~NoSI'
  <2> SUFFICES ASSUME NoSI, NoSI' PROVE FALSE
    OBVIOUS
  <2>1. BlockOf(path)' = Wanted
    BY <1>3
  <2>2. (BlockOf(path) # None => Kind[BlockOf(path)] = "SL")'
    BY <1>2 DEF NoSI
  <2>3. BlockOf(path)' # None => Kind[BlockOf(path)'] = "SL"
    BY <2>2
  <2> QED
    BY <1>1, <2>1, <2>3
<1> QED
  BY <1>1, <1>2, <1>3, <1>4

\* A tree of an SLBLOCK is added with what arrived of it.
LEMMA GrowSL ==
  ASSUME TInv, Nesting, Losses, NoSI, pc = "read", Kind[Wanted] = "SL",
         NEW k \in 0..AlignedSize(Cb[Wanted]), tree' = WithTree(EntriesFrom(Wanted, k)),
         UNCHANGED <<root, path>>
  PROVE  /\ NoSI' /\ FromBlocks'
         /\ \A p \in DOMAIN tree : HasItsEntries(p)' = HasItsEntries(p)
         /\ (k >= 8 + 24 * Len(Entries[Wanted])) =>
              \A p \in DOMAIN tree' : p = path => HasItsEntries(p)'
<1> DEFINE es == EntriesFrom(Wanted, k)
<1>1. /\ path \notin DOMAIN tree /\ DOMAIN tree' = DOMAIN tree \cup {path}
      /\ tree'[path] = [entries |-> es, next |-> 1]
      /\ \A p \in DOMAIN tree : tree'[p] = tree[p] /\ BlockOf(p)' = BlockOf(p)
  BY Grown
<1>2. BlockOf(path)' = Wanted
  BY BlockOfNew DEF Losses, Nesting
<1>3. /\ Wanted \in Block /\ Wanted # None /\ AlignedSize(Cb[Wanted]) \in Nat
      /\ ImageEntries(Wanted) = Entries[Wanted]
  BY WantedFacts, BlockFacts DEF ImageEntries
<1>4. k \in Nat /\ IsSL(Wanted, k)
  BY <1>3 DEF IsSL
<1>5. tree'[path].entries = es
  BY <1>1
<1> HIDE DEF es
<1>6. \A p \in DOMAIN tree : HasItsEntries(p)' = HasItsEntries(p)
  BY <1>1 DEF HasItsEntries
<1>7. ASSUME k >= 8 + 24 * Len(Entries[Wanted]), NEW p \in DOMAIN tree', p = path
      PROVE  HasItsEntries(p)'
  <2>1. es = Entries[Wanted]
    BY <1>3, <1>4, <1>7, EntriesFromFacts DEF es
  <2> QED
    <3>1. BlockOf(p)' = Wanted /\ tree'[p].entries = Entries[Wanted]
      BY <1>2, <1>5, <1>7, <2>1
    <3> QED
      BY <1>3, <3>1 DEF HasItsEntries
<1>8. NoSI'
  <2>1. ASSUME NEW p \in DOMAIN tree'
        PROVE  BlockOf(p)' # None => Kind[BlockOf(p)'] = "SL"
    <3>1. CASE p = path
      BY <1>2, <3>1
    <3>2. CASE p # path
      BY <1>1, <3>2 DEF NoSI
    <3> QED
      BY <3>1, <3>2
  <2> QED
    BY <2>1 DEF NoSI
<1>9. FromBlocks'
  <2>1. ASSUME NEW p \in DOMAIN tree'
        PROVE  FromBlock(p)'
    <3>1. CASE p = path
      <4>1. BlockOf(p)' = Wanted /\ tree'[p].entries = EntriesFrom(Wanted, k)
        BY <1>2, <1>5, <3>1 DEF es
      <4>2. tree'[p].entries \in MadeOf[Wanted]
        BY <1>3, <4>1 DEF MadeOf
      <4> QED
        BY <1>3, <4>1, <4>2 DEF FromBlock
    <3>2. CASE p # path
      <4>1. p \in DOMAIN tree /\ FromBlock(p)
        BY <1>1, <3>2 DEF Losses, FromBlocks
      <4> QED
        BY <1>1, <1>6, <4>1 DEF FromBlock
    <3> QED
      BY <3>1, <3>2
  <2> QED
    BY <2>1 DEF FromBlocks
<1> QED
  BY <1>6, <1>7, <1>8, <1>9

\* The trees and their entries stay what they are.
LEMMA Kept ==
  ASSUME TInv, UNCHANGED root, DOMAIN tree' = DOMAIN tree,
         \A p \in DOMAIN tree : tree'[p].entries = tree[p].entries
  PROVE  /\ \A p \in DOMAIN tree : BlockOf(p)' = BlockOf(p) /\ HasItsEntries(p)' = HasItsEntries(p)
         /\ NoSI' = NoSI
         /\ \A p, q \in DOMAIN tree : ReadBefore(p, q)' = ReadBefore(p, q)
<1>1. \A p \in DOMAIN tree : p # <<>> => Above(p) \in DOMAIN tree
  BY DEF TInv, TypeOK
<1>2. ASSUME NEW p \in DOMAIN tree
      PROVE  BlockOf(p)' = BlockOf(p) /\ (p # <<>> => Position(p)' = Position(p))
  <2>1. CASE p = <<>>
    BY <2>1 DEF BlockOf
  <2>2. CASE p # <<>>
    <3>1. tree'[Above(p)].entries = tree[Above(p)].entries
      BY <1>1, <2>2
    <3>2. Position(p)' = Position(p)
      BY <3>1 DEF Position
    <3> QED
      BY <2>2, <3>1, <3>2 DEF BlockOf
  <2> QED
    BY <2>1, <2>2
<1>3. \A p \in DOMAIN tree : HasItsEntries(p)' = HasItsEntries(p)
  BY <1>2 DEF HasItsEntries
<1>4. NoSI' = NoSI
  BY <1>2 DEF NoSI
<1>5. \A p, q \in DOMAIN tree : ReadBefore(p, q)' = ReadBefore(p, q)
  BY <1>2 DEF ReadBefore
<1> QED
  BY <1>2, <1>3, <1>4, <1>5

LEMMA KeptLosses ==
  ASSUME TInv, Losses, UNCHANGED root, DOMAIN tree' = DOMAIN tree,
         \A p \in DOMAIN tree : tree'[p].entries = tree[p].entries, fail => fail'
  PROVE  Losses'
<1>1. /\ \A p \in DOMAIN tree : BlockOf(p)' = BlockOf(p) /\ HasItsEntries(p)' = HasItsEntries(p)
      /\ NoSI' = NoSI
      /\ \A p, q \in DOMAIN tree : ReadBefore(p, q)' = ReadBefore(p, q)
  BY Kept
<1> SUFFICES ASSUME NoSI PROVE (FromBlocks /\ LossFails /\ TailOK)'
  BY <1>1 DEF Losses
<1>2. FromBlocks /\ LossFails /\ TailOK
  BY DEF Losses
<1>3. FromBlocks'
  <2>1. ASSUME NEW p \in DOMAIN tree PROVE FromBlock(p)'
    BY <1>1, <1>2 DEF FromBlocks, FromBlock
  <2> QED
    BY <2>1 DEF FromBlocks
<1>4. LossFails'
  BY <1>1, <1>2 DEF LossFails
<1>5. TailOK'
  BY <1>1, <1>2 DEF TailOK
<1> QED
  BY <1>3, <1>4, <1>5

LEMMA InitLosses == Init => Losses
<1> SUFFICES ASSUME Init PROVE FromBlocks /\ LossFails /\ TailOK
  BY DEF Losses
<1>1. root # None => DOMAIN tree = {}
  BY DEF Init
<1>2. root = None => \A p \in DOMAIN tree : HasItsEntries(p)
  BY DEF Init, Tree, HasItsEntries, BlockOf
<1> QED
  BY <1>1, <1>2 DEF FromBlocks, FromBlock, LossFails, TailOK

LEMMA NextLosses == TInv /\ TInv' /\ Nesting /\ Losses /\ [Next]_vars => Losses'
<1> SUFFICES ASSUME TInv, TInv', Nesting, Losses, [Next]_vars PROVE Losses'
  OBVIOUS
<1>1. CASE ReadBlock
  <2> DEFINE k     == Arrived(Wanted)
             size  == AlignedSize(Cb[Wanted])
             whole == k = size
  <2>1. /\ pc = "read" /\ UNCHANGED <<root, path>> /\ Wanted \in Block
        /\ k \in 0..size /\ (fail => k = 0 /\ ~whole)
    BY <1>1, ReadCases
  <2>2. CASE UNCHANGED <<tree, fail>>
    BY <2>1, <2>2, KeptLosses
  <2>3. CASE fail' = ~whole /\ UNCHANGED tree
    BY <2>1, <2>3, KeptLosses
  <2>4. ASSUME Kind[Wanted] = "SI", NEW es, tree' = WithTree(es) PROVE Losses'
    BY <2>1, <2>4, GrowSI DEF Losses
  <2>5. ASSUME Kind[Wanted] = "SL", fail' = ~whole, tree' = WithTree(EntriesFrom(Wanted, k)), NoSI'
        PROVE  Losses'
    <3>1. NoSI
      BY <2>1, <2>5, Grown
    <3>2. FromBlocks /\ LossFails /\ TailOK
      BY <3>1 DEF Losses
    <3>3. /\ FromBlocks' /\ \A p \in DOMAIN tree : HasItsEntries(p)' = HasItsEntries(p)
          /\ k >= 8 + 24 * Len(Entries[Wanted]) =>
               \A p \in DOMAIN tree' : p = path => HasItsEntries(p)'
      BY <2>1, <2>5, <3>1, GrowSL
    <3>4. /\ DOMAIN tree' = DOMAIN tree \cup {path} /\ path \notin DOMAIN tree
          /\ tree'[path].entries = EntriesFrom(Wanted, k)
          /\ \A p \in DOMAIN tree : tree'[p] = tree[p]
      <4> DEFINE es == EntriesFrom(Wanted, k)
      <4>1. tree' = WithTree(es) /\ pc = "read" /\ UNCHANGED <<root, path>>
        BY <2>1, <2>5
      <4> HIDE DEF k, es
      <4>2. /\ DOMAIN tree' = DOMAIN tree \cup {path} /\ path \notin DOMAIN tree
            /\ tree'[path] = [entries |-> es, next |-> 1]
            /\ \A p \in DOMAIN tree : tree'[p] = tree[p]
        BY <4>1, Grown
      <4> QED
        BY <4>2 DEF es
    <3>5. whole => \A p \in DOMAIN tree' : p = path => HasItsEntries(p)'
      <4>1. size >= 8 + 24 * Len(Entries[Wanted])
        <5>1. size \in Nat /\ Len(Entries[Wanted]) \in Nat /\ 8 + 24 * Len(Entries[Wanted]) + 16 <= size
          BY <2>1, BlockFacts
        <5> QED
          BY <5>1
      <4> QED
        BY <3>3, <4>1
    <3>6. LossFails'
      <4>1. ASSUME NEW p \in DOMAIN tree', ~HasItsEntries(p)' PROVE fail'
        <5>1. CASE p = path
          BY <2>5, <3>5, <4>1, <5>1
        <5>2. CASE p # path
          <6>1. fail
            BY <3>2, <3>3, <3>4, <4>1, <5>2 DEF LossFails
          <6> QED
            BY <2>1, <2>5, <6>1
        <5> QED
          BY <5>1, <5>2
      <4> QED
        BY <4>1 DEF LossFails
    <3>7. TailOK'
      <4> SUFFICES ASSUME NEW p \in DOMAIN tree', NEW q \in DOMAIN tree',
                          ~HasItsEntries(p)', ReadBefore(p, q)'
                   PROVE  tree'[q].entries = <<>>
        BY DEF TailOK
      <4>0. ReadBefore(p, q)'
        OBVIOUS
      <4>1. p # path /\ (q \in DOMAIN tree => ReadBefore(p, q))
        <5>1. /\ \A r, s \in DOMAIN tree' : ReadBefore(r, s)' => r # path
              /\ \A r, s \in DOMAIN tree : ReadBefore(r, s)' => ReadBefore(r, s)
          BY <2>1, <2>5, <3>1, <3>2, NewIsLast
        <5>2. p # path
          BY <4>0, <5>1
        <5> QED
          BY <3>4, <4>0, <5>1, <5>2
      <4>2. p \in DOMAIN tree /\ ~HasItsEntries(p)
        BY <3>3, <3>4, <4>1
      <4>3. CASE q = path
        <5>1. fail
          BY <3>2, <4>2 DEF LossFails
        <5>2. k = 0 /\ IsSL(Wanted, 0)
          BY <2>1, <2>5, <5>1 DEF IsSL
        <5>3. EntriesFrom(Wanted, 0) = <<>>
          BY <2>1, <5>2, EntriesFromFacts
        <5> HIDE DEF k
        <5> QED
          BY <3>4, <4>3, <5>2, <5>3
      <4>4. CASE q # path
        BY <3>2, <3>4, <4>1, <4>2, <4>4 DEF TailOK
      <4> QED
        BY <4>3, <4>4
    <3> QED
      BY <3>3, <3>6, <3>7 DEF Losses
  <2>6. CASE fail' = ~whole /\ tree' = WithTree(EntriesFrom(Wanted, k))
    <3>1. Kind[Wanted] \in {"SL", "SI"}
      BY <2>1, BlockFacts
    <3>2. CASE Kind[Wanted] = "SI"
      BY <2>4, <2>6, <3>2
    <3>3. CASE Kind[Wanted] = "SL" /\ NoSI'
      BY <2>5, <2>6, <3>3
    <3>4. CASE ~NoSI'
      BY <3>4 DEF Losses
    <3> QED
      BY <3>1, <3>2, <3>3, <3>4
  <2>7. CASE Kind[Wanted] = "SI" /\ tree' = WithTree(<<>>)
    BY <2>4, <2>7
  <2> HIDE DEF k, size
  <2>8. \/ UNCHANGED <<tree, fail>>
        \/ fail' = ~whole /\ UNCHANGED tree
        \/ fail' = ~whole /\ tree' = WithTree(EntriesFrom(Wanted, k))
        \/ Kind[Wanted] = "SI" /\ tree' = WithTree(<<>>)
    BY <1>1, ReadCases DEF k, size
  <2> QED
    BY <2>2, <2>3, <2>6, <2>7, <2>8
<1>2. CASE ExpandSI
  <2>1. pc = "expand" /\ Kind[Wanted] = "SI" /\ ~fail /\ UNCHANGED <<root, path>>
    BY <1>2 DEF ExpandSI, TInv
  <2>2. CASE UNCHANGED tree
    BY <2>1, <2>2, KeptLosses
  <2>3. ASSUME NEW es, tree' = WithTree(es) PROVE Losses'
    BY <2>1, <2>3, GrowSI DEF Losses
  <2>4. UNCHANGED tree \/ \E es : tree' = WithTree(es)
    BY <1>2 DEF ExpandSI
  <2> QED
    BY <2>2, <2>3, <2>4
<1>3. CASE AddData
  BY <1>3, Added, KeptLosses
<1>4. CASE UNCHANGED <<root, tree, fail>>
  BY <1>4, KeptLosses
<1> QED
  BY <1>1, <1>2, <1>3, <1>4 DEF Next, StopDuplicate, EnterNested, Return, Truncate, vars

\* Construction that returns while no read failed, and met no SIBLOCK, has built every
\* tree of the file with every entry of its block.
THEOREM BuiltWhole == Spec => []BuiltIsImage
<1>1. TInv /\ Nesting /\ Losses => BuiltIsImage
  BY ReadyIsWalked DEF BuiltIsImage, Losses, LossFails, Complete
<1> QED
  BY <1>1, InitTInv, NextTInv, InitNesting, NextNesting, InitLosses, NextLosses, PTL DEF Spec

\* Wherever the file is cut, within a block or between two, each tree of SLBLOCKs has
\* what a first part of its block makes, and from the first that lacks an entry on, in
\* the order in which they are read, the trees are empty.  No SIBLOCK may have been met.
THEOREM LossStaysATail == Spec => []LossIsATail
<1>1. Losses => LossIsATail
  <2> SUFFICES ASSUME FromBlocks, TailOK PROVE LossIsATail
    BY DEF Losses, LossIsATail
  <2>1. ASSUME NEW p \in DOMAIN tree, ~HasItsEntries(p)
        PROVE  \E k \in 0..AlignedSize(Cb[BlockOf(p)]) : tree[p].entries = EntriesFrom(BlockOf(p), k)
    <3> DEFINE b == BlockOf(p)
    <3>1. b \in Block /\ tree[p].entries \in MadeOf[b]
      BY <2>1 DEF FromBlocks, FromBlock
    <3> QED
      BY <3>1 DEF MadeOf
  <2> QED
    BY <2>1 DEF TailOK, LossIsATail
<1> QED
  BY <1>1, InitTInv, NextTInv, InitNesting, NextNesting, InitLosses, NextLosses, PTL DEF Spec

-----------------------------------------------------------------------------
(* What the assertions let pass. *)

\* g[i] is where the i-th piece of si begins.
Starts(g, si, n) ==
  g = [i \in 1..(n + 1) |-> IF i = 1 THEN End(si) ELSE g[i-1] + SizeInSI(SLBlocks[si][i-1])]

LEMMA StartsExist ==
  ASSUME NEW si, NEW n \in Nat
  PROVE  \E g : Starts(g, si, n)
<1> DEFINE S == {k \in Nat : ~\E g : Starts(g, si, k)}
<1>1. SUFFICES ASSUME S # {} PROVE FALSE
  OBVIOUS
<1>2. PICK m \in S : \A k \in S : m <= k
  <2>1. S \in SUBSET Nat
    OBVIOUS
  <2> HIDE DEF S
  <2> QED
    BY <1>1, <2>1, Least
<1>3. m \in Nat /\ ~\E g : Starts(g, si, m)
  BY <1>2
<1>4. CASE m = 0
  <2> DEFINE g == [i \in 1..1 |-> End(si)]
  <2>1. Starts(g, si, 0)
    BY DEF Starts
  <2> QED
    BY <1>3, <1>4, <2>1
<1>5. CASE m # 0
  <2>1. m - 1 \in Nat /\ ~(m <= m - 1) /\ m - 1 + 1 = m
    BY <1>3, <1>5
  <2>2. m - 1 \notin S
    BY <1>2, <2>1
  <2>3. PICK h : Starts(h, si, m - 1)
    BY <2>1, <2>2
  <2> HIDE DEF S
  <2>4. \A i \in 1..m : h[i] = IF i = 1 THEN End(si) ELSE h[i-1] + SizeInSI(SLBlocks[si][i-1])
    BY <2>1, <2>3 DEF Starts
  <2> DEFINE g == [i \in 1..(m + 1) |-> IF i = m + 1 THEN h[m] + SizeInSI(SLBlocks[si][m]) ELSE h[i]]
  <2>5. ASSUME NEW i \in 1..(m + 1)
        PROVE  g[i] = IF i = 1 THEN End(si) ELSE g[i-1] + SizeInSI(SLBlocks[si][i-1])
    <3>1. CASE i = m + 1
      <4>1. m \in 1..(m + 1) /\ m # m + 1 /\ i # 1 /\ i - 1 = m
        BY <1>3, <1>5, <3>1
      <4>2. g[m] = h[m] /\ g[i] = h[m] + SizeInSI(SLBlocks[si][m])
        BY <3>1, <4>1
      <4> HIDE DEF g
      <4> QED
        BY <4>1, <4>2
    <3>2. CASE i # m + 1
      <4>1. i \in 1..m /\ (i # 1 => i - 1 \in 1..(m + 1) /\ i - 1 # m + 1)
        BY <1>3, <3>2
      <4>2. g[i] = h[i] /\ (i # 1 => g[i-1] = h[i-1])
        BY <3>2, <4>1
      <4> HIDE DEF g
      <4> QED
        BY <2>4, <4>1, <4>2
    <3> QED
      BY <3>1, <3>2
  <2>6. Starts(g, si, m)
    BY <2>5 DEF Starts
  <2> QED
    BY <1>3, <2>6
<1> QED
  BY <1>4, <1>5

\* The assertions on an SIBLOCK's first piece.
LEMMA PassedMayPass ==
  ASSUME NEW si \in Block, Kind[si] = "SI", ExpandAsserted(si)
  PROVE  MayPass(si)
<1> DEFINE sls == SLBlocks[si]
           n   == Len(sls)
           sl  == sls[1]
<1>1. sls \in Seq(Block) /\ sls # <<>>
  BY SubNodesAssumption
<1> HIDE DEF sls
<1>2. n \in Nat /\ 1 \in DOMAIN sls /\ sl \in Block /\ 1 \in 1..(n + 1) /\ 2 \in 1..(n + 1)
  <2>1. n \in Nat \ {0} /\ DOMAIN sls = 1..n
    BY <1>1, EmptySeq
  <2> QED
    BY <1>1, <2>1, ElementOfSeq
<1>3. Starts(PieceStart(si), si, n)
  <2>1. PieceStart(si) = CHOOSE g : Starts(g, si, n)
    BY DEF PieceStart, Starts, sls
  <2> QED
    BY <1>2, <2>1, StartsExist
<1>4. \A i \in 1..(n + 1) : PieceStart(si)[i] =
        IF i = 1 THEN End(si) ELSE PieceStart(si)[i-1] + SizeInSI(SLBlocks[si][i-1])
  BY <1>3 DEF Starts
<1>5. PieceStart(si)[1] = End(si)
  BY <1>2, <1>4
<1>6. PieceStart(si)[2] = End(si) + SizeInSI(sl)
  BY <1>2, <1>4, <1>5 DEF sls
<1>7. PieceStart(si)[2] = End(sl) \/ Sig[sl] = 0
  <2>1. \/ PieceStart(si)[1+1] = End(sls[1])
        \/ Sig[sls[1]] = 0
    BY <1>2 DEF ExpandAsserted, sls
  <2> QED
    BY <2>1
<1>8. Ib[sl] \in Nat /\ Cb[sl] \in Nat /\ Ib[si] \in Nat /\ Cb[si] \in Nat
  BY <1>2, SubNodesAssumption
<1>9. /\ AlignedSize(Ib[sl]) \in Nat /\ Ib[sl] <= AlignedSize(Ib[sl])
      /\ AlignedSize(Cb[sl]) \in Nat /\ AlignedSize(Cb[si]) \in Nat
  BY <1>8, AlignedBound
<1>10. CASE PieceStart(si)[2] = End(sl)
  <2>1. Ib[si] + AlignedSize(Cb[si]) + AlignedSize(Ib[sl]) = Ib[sl] + AlignedSize(Cb[sl])
    BY <1>6, <1>10 DEF End, SizeInSI
  <2>2. Ib[si] + AlignedSize(Cb[si]) <= AlignedSize(Cb[sl])
    BY <1>8, <1>9, <2>1
  <2> QED
    BY <2>2 DEF MayPass, End, sls
<1> QED
  BY <1>7, <1>10 DEF MayPass, sls

\* A block of which so much is missing that it lost entries, and that passes, has the
\* signature 0: its trailer is missing, too.
LEMMA CutPasses ==
  ASSUME NEW b \in Block, NEW k \in Nat, k < 8 + 24 * Len(Entries[b]), SigFrom(b, k) = Sig[b]
  PROVE  Sig[b] = 0
<1> DEFINE n    == Len(Entries[b])
           size == AlignedSize(Cb[b])
<1>1. n \in Nat /\ size \in Nat /\ 8 + 24 * n + 16 <= size
  BY BlockFacts
<1>2. k < 8 + 24 * n
  OBVIOUS
<1>3. SigFrom(b, k) = IF k >= size - 16 + 2 + 2 THEN Sig[b]
                      ELSE IF k = size - 16 + 2 + 1 THEN Sig[b] % 256 ELSE 0
  BY DEF SigFrom, TrailerSize
<1> HIDE DEF n, size
<1>4. ~(k >= size - 16 + 2 + 2) /\ ~(k = size - 16 + 2 + 1)
  BY <1>1, <1>2
<1> QED
  BY <1>3, <1>4

\* One tree may have lost entries, where the signature of its block is 0.
Hole ==
  \E p \in DOMAIN tree :
    /\ BlockOf(p) # None /\ Sig[BlockOf(p)] = 0
    /\ \A q \in DOMAIN tree \ {p} : HasItsEntries(q)

AllWhole == \A p \in DOMAIN tree : HasItsEntries(p)

\* With assertions no constructor goes on to a read after one that came short, nor with
\* an SIBLOCK that they stop.
Stopped ==
  (assertsOn /\ pc \in {"read", "expand", "loop", "ready"}) =>
    PassedSI \/ (NoSI /\ (AllWhole \/ Hole))

\* Trees that are added leave the others theirs.
LEMMA GrowPassed ==
  ASSUME TInv, PassedSI, pc \in {"read", "expand"}, NEW es, tree' = WithTree(es),
         UNCHANGED <<root, path>>
  PROVE  PassedSI'
<1>1. PICK p \in DOMAIN tree : BlockOf(p) # None /\ Kind[BlockOf(p)] = "SI" /\ MayPass(BlockOf(p))
  BY DEF PassedSI
<1>2. p \in DOMAIN tree' /\ BlockOf(p)' = BlockOf(p)
  BY Grown
<1>3. (BlockOf(p) # None /\ Kind[BlockOf(p)] = "SI" /\ MayPass(BlockOf(p)))'
  BY <1>1, <1>2 DEF MayPass
<1> QED
  BY <1>2, <1>3 DEF PassedSI

LEMMA KeptStopped ==
  ASSUME TInv, UNCHANGED root, DOMAIN tree' = DOMAIN tree,
         \A p \in DOMAIN tree : tree'[p].entries = tree[p].entries,
         PassedSI \/ (NoSI /\ (AllWhole \/ Hole))
  PROVE  (PassedSI \/ (NoSI /\ (AllWhole \/ Hole)))'
<1>1. /\ \A p \in DOMAIN tree : BlockOf(p)' = BlockOf(p) /\ HasItsEntries(p)' = HasItsEntries(p)
      /\ NoSI' = NoSI
  BY Kept
<1>2. PassedSI' = PassedSI
  BY <1>1 DEF PassedSI, MayPass
<1>3. AllWhole' = AllWhole /\ Hole' = Hole
  BY <1>1 DEF AllWhole, Hole
<1> QED
  BY <1>1, <1>2, <1>3

LEMMA InitStopped == Init => Stopped
<1> SUFFICES ASSUME Init PROVE NoSI /\ AllWhole
  BY DEF Stopped
<1>1. ASSUME NEW p \in DOMAIN tree PROVE BlockOf(p) = None /\ HasItsEntries(p)
  BY DEF Init, Tree, BlockOf, HasItsEntries
<1> QED
  BY <1>1 DEF NoSI, AllWhole

\* A tree of an SLBLOCK that passed is added: it alone may lack entries.
LEMMA GrowStopped ==
  ASSUME TInv, Nesting, Losses, pc = "read", Kind[Wanted] = "SL", Wanted \in Block, ~fail,
         NEW k \in 0..AlignedSize(Cb[Wanted]), SigFrom(Wanted, k) = Sig[Wanted],
         tree' = WithTree(EntriesFrom(Wanted, k)), UNCHANGED <<root, path>>, NoSI
  PROVE  NoSI' /\ (AllWhole' \/ Hole')
<1> DEFINE es == EntriesFrom(Wanted, k)
<1>1. /\ NoSI' /\ \A p \in DOMAIN tree : HasItsEntries(p)' = HasItsEntries(p)
      /\ k >= 8 + 24 * Len(Entries[Wanted]) => \A p \in DOMAIN tree' : p = path => HasItsEntries(p)'
  BY GrowSL
<1>2. tree' = WithTree(es)
  OBVIOUS
<1> HIDE DEF es
<1>3. DOMAIN tree' = DOMAIN tree \cup {path}
  BY <1>2, Grown
<1>4. BlockOf(path)' = Wanted
  BY <1>2, BlockOfNew DEF Losses, Nesting
<1>5. \A p \in DOMAIN tree' \ {path} : HasItsEntries(p)'
  BY <1>1, <1>3 DEF Losses, LossFails
<1>6. CASE k >= 8 + 24 * Len(Entries[Wanted])
  BY <1>1, <1>5, <1>6 DEF AllWhole
<1>7. CASE ~(k >= 8 + 24 * Len(Entries[Wanted]))
  <2>1. Wanted # None /\ Len(Entries[Wanted]) \in Nat /\ AlignedSize(Cb[Wanted]) \in Nat
    BY BlockFacts
  <2>2. k \in Nat /\ k < 8 + 24 * Len(Entries[Wanted])
    BY <1>7, <2>1
  <2>3. Sig[Wanted] = 0
    BY <2>2, CutPasses
  <2>4. ASSUME NEW p \in DOMAIN tree', p = path
        PROVE  /\ BlockOf(p)' # None /\ Sig[BlockOf(p)'] = 0
               /\ \A q \in DOMAIN tree' \ {p} : HasItsEntries(q)'
    BY <1>4, <1>5, <2>1, <2>3, <2>4
  <2> QED
    BY <1>1, <1>3, <2>4 DEF Hole
<1> QED
  BY <1>1, <1>6, <1>7

LEMMA NextStopped == TInv /\ Nesting /\ Losses /\ Stopped /\ [Next]_vars => Stopped'
<1> SUFFICES ASSUME TInv, Nesting, Losses, Stopped, [Next]_vars, assertsOn',
                    pc' \in {"read", "expand", "loop", "ready"}
             PROVE  (PassedSI \/ (NoSI /\ (AllWhole \/ Hole)))'
  BY DEF Stopped
<1>1. UNCHANGED <<assertsOn, root>> /\ assertsOn
  BY DEF Next, ReadBlock, ExpandSI, StopDuplicate, EnterNested, AddData, Return, Truncate, vars
<1>2. CASE ReadBlock
  <2> DEFINE k == Arrived(Wanted)
  <2>1. /\ pc = "read" /\ UNCHANGED path /\ Wanted \in Block /\ k \in 0..AlignedSize(Cb[Wanted])
        /\ Asserted(Wanted, k)
        /\ \/ IsSL(Wanted, k) /\ tree' = WithTree(EntriesFrom(Wanted, k))
           \/ UNCHANGED tree
    <3> HIDE DEF k
    <3> QED
      BY <1>1, <1>2, ReadCases DEF k
  <2> HIDE DEF k
  <2>2. PassedSI \/ (NoSI /\ (AllWhole \/ Hole))
    BY <1>1, <2>1 DEF Stopped
  <2>3. CASE UNCHANGED tree
    BY <1>1, <2>2, <2>3, KeptStopped
  <2>4. CASE IsSL(Wanted, k) /\ tree' = WithTree(EntriesFrom(Wanted, k))
    <3>1. ~fail /\ SigFrom(Wanted, k) = Sig[Wanted] /\ Count(Wanted, k) # 0
      BY <1>1, <2>1, <2>4 DEF Asserted
    <3>2. k \in Nat /\ ~(k < 2)
      <4>1. AlignedSize(Cb[Wanted]) \in Nat
        BY <2>1, BlockFacts
      <4>2. k \in Nat
        BY <2>1, <4>1
      <4>3. k < 3 => Count(Wanted, k) = 0
        BY <2>1, <2>4, <4>2, CountFacts
      <4> QED
        BY <3>1, <4>2, <4>3
    <3>3. Kind[Wanted] = "SL"
      BY <2>4, <3>2 DEF IsSL
    <3>4. CASE PassedSI
      <4> DEFINE es == EntriesFrom(Wanted, k)
      <4>1. tree' = WithTree(es)
        BY <2>4
      <4> HIDE DEF es
      <4> QED
        BY <1>1, <2>1, <3>4, <4>1, GrowPassed
    <3>5. CASE NoSI
      BY <1>1, <2>1, <2>4, <3>1, <3>3, <3>5, GrowStopped
    <3> QED
      BY <2>2, <3>4, <3>5
  <2> QED
    BY <2>1, <2>3, <2>4
<1>3. CASE ExpandSI
  <2>1. pc = "expand" /\ Kind[Wanted] = "SI" /\ UNCHANGED path
    BY <1>3 DEF ExpandSI, TInv
  <2>2. ExpandAsserted(Wanted) /\ \E es : tree' = WithTree(es)
    BY <1>1, <1>3 DEF ExpandSI
  <2>3. PassedSI \/ (NoSI /\ (AllWhole \/ Hole))
    BY <1>1, <2>1 DEF Stopped
  <2>4. PICK es : tree' = WithTree(es)
    BY <2>2
  <2>5. CASE PassedSI
    BY <1>1, <2>1, <2>4, <2>5, GrowPassed
  <2>6. CASE NoSI
    <3>1. BlockOf(path)' = Wanted /\ path \in DOMAIN tree' /\ Wanted \in Block
      BY <1>1, <2>1, <2>4, <2>6, GrowSI
    <3>2. Wanted # None /\ MayPass(Wanted)
      BY <2>1, <2>2, <3>1, PassedMayPass, BlockFacts
    <3>3. (BlockOf(path) # None /\ Kind[BlockOf(path)] = "SI" /\ MayPass(BlockOf(path)))'
      BY <2>1, <3>1, <3>2 DEF MayPass
    <3> QED
      BY <2>1, <3>1, <3>3 DEF PassedSI
  <2> QED
    BY <2>3, <2>5, <2>6
<1>4. CASE AddData
  <2>1. UNCHANGED pc /\ pc = "loop"
    BY <1>4 DEF AddData, AtData
  <2>2. DOMAIN tree' = DOMAIN tree /\ \A p \in DOMAIN tree : tree'[p].entries = tree[p].entries
    BY <1>4, Added
  <2> QED
    BY <1>1, <2>1, <2>2, KeptStopped DEF Stopped
<1>5. CASE UNCHANGED tree /\ pc \in {"read", "expand", "loop", "ready"}
  BY <1>1, <1>5, KeptStopped DEF Stopped
<1>6. ~StopDuplicate
  BY DEF StopDuplicate
<1> QED
  BY <1>2, <1>3, <1>4, <1>5, <1>6 DEF Next, EnterNested, Return, Truncate, vars

\* With assertions, a node's trees that are handed out are all of the file's, with every
\* entry, unless an SIBLOCK was met that the assertions may let pass, or one tree lost
\* entries of a block whose signature is 0.
THEOREM ReadyStaysComplete == Spec => []ReadyIsComplete
<1>1. TInv /\ Nesting /\ Stopped => ReadyIsComplete
  BY ReadyIsWalked DEF Stopped, ReadyIsComplete, Complete, AllWhole, Hole
<1> QED
  BY <1>1, InitTInv, NextTInv, InitNesting, NextNesting, InitLosses, NextLosses,
     InitStopped, NextStopped, PTL DEF Spec

-----------------------------------------------------------------------------
(* Looking a sub-node up. *)

\* The paths are of bounded length, so that the nesting has an end.
Bounded == \E n \in Nat : \A p \in DOMAIN tree : Len(p) <= n

LEMMA InitBounded == Init => Bounded
<1> SUFFICES ASSUME Init PROVE \A p \in DOMAIN tree : Len(p) <= 0
  BY DEF Bounded
<1>1. \A p \in DOMAIN tree : p = <<>>
  BY DEF Init, Tree
<1> QED
  BY <1>1, EmptySeq

LEMMA NextBounded == TInv /\ Bounded /\ [Next]_vars => Bounded'
<1> SUFFICES ASSUME TInv, Bounded, [Next]_vars PROVE Bounded'
  OBVIOUS
<1>1. PICK n \in Nat : \A p \in DOMAIN tree : Len(p) <= n
  BY DEF Bounded
<1>2. CASE DOMAIN tree' = DOMAIN tree
  BY <1>1, <1>2 DEF Bounded
<1>3. CASE DOMAIN tree' = DOMAIN tree \cup {path}
  <2>1. Len(path) \in Nat
    BY DEF TInv, TypeOK
  <2>2. \A p \in DOMAIN tree : Len(p) \in Nat
    BY DEF TInv, TypeOK
  <2> DEFINE m == n + Len(path)
  <2>3. m \in Nat /\ n <= m /\ Len(path) <= m
    BY <1>1, <2>1
  <2> HIDE DEF m
  <2>4. \A p \in DOMAIN tree' : Len(p) <= m
    BY <1>1, <1>3, <2>1, <2>2, <2>3
  <2> QED
    BY <2>3, <2>4 DEF Bounded
<1>4. ASSUME ReadBlock \/ ExpandSI, tree' # tree PROVE DOMAIN tree' = DOMAIN tree \cup {path}
  <2>1. \E es : tree' = WithTree(es)
    BY <1>4, ReadCases DEF ExpandSI
  <2> QED
    BY <2>1 DEF WithTree
<1>5. AddData => DOMAIN tree' = DOMAIN tree
  BY DEF AddData
<1>6. StopDuplicate \/ EnterNested \/ Return \/ (\E b \in Cuts : Truncate(b)) \/ UNCHANGED vars
      => UNCHANGED tree
  BY DEF StopDuplicate, EnterNested, Return, Truncate, vars
<1> QED
  BY <1>2, <1>3, <1>4, <1>5, <1>6 DEF Next

LEMMA SubTreeFacts ==
  ASSUME TInv, NEW p \in DOMAIN tree, NEW c \in SubTrees(p)
  PROVE  /\ c \in DOMAIN tree /\ c \in Seq(Nid) /\ Len(c) = Len(p) + 1
         /\ Under(p, c) /\ p # c
<1>1. /\ c \in DOMAIN tree /\ c \in Seq(Nid) /\ Len(c) = Len(p) + 1 /\ Above(c) = p
      /\ p \in Seq(Nid) /\ Len(p) \in Nat
  BY DEF SubTrees, TInv, TypeOK
<1>2. c # <<>> /\ p # c
  BY <1>1, EmptySeq
<1>3. Under(p, c)
  <2>1. \A i \in 1..(Len(c) - 1) : Above(c)[i] = c[i]
    BY <1>1, <1>2, PathAbove
  <2>2. Len(p) <= Len(c) /\ \A i \in 1..Len(p) : p[i] = c[i]
    BY <1>1, <2>1
  <2> QED
    BY <1>1, <2>2, UnderByElement
<1> QED
  BY <1>1, <1>2, <1>3

\* Between a tree and one below it there is one of the tree's own.
LEMMA SubTreeBetween ==
  ASSUME TInv, NEW p \in DOMAIN tree, NEW r \in DOMAIN tree, Under(p, r), p # r
  PROVE  \E c \in SubTrees(p) : Under(c, r)
<1> DEFINE Between(t) == Under(p, t) /\ p # t /\ Under(t, r)
           Lens == {n \in Nat : \E t \in DOMAIN tree : Between(t) /\ Len(t) = n}
<1>1. \A t \in DOMAIN tree : t \in Seq(Nid) /\ Len(t) \in Nat /\ (t # <<>> => Above(t) \in DOMAIN tree)
  BY DEF TInv, TypeOK
<1>2. Between(r)
  <2>1. Len(r) <= Len(r) /\ \A i \in 1..Len(r) : r[i] = r[i]
    BY <1>1
  <2>2. Under(r, r)
    BY <1>1, <2>1, UnderByElement
  <2> QED
    BY <2>2
<1>3. PICK n \in Lens : \A k \in Lens : n <= k
  <2>1. Lens \in SUBSET Nat /\ Len(r) \in Lens
    BY <1>1, <1>2
  <2> HIDE DEF Lens
  <2> QED
    BY <2>1, Least
<1>4. PICK c \in DOMAIN tree : Between(c) /\ Len(c) = n
  BY <1>3
<1>5. Len(p) < Len(c) /\ Len(p) \in Nat /\ Len(c) \in Nat /\ n \in Nat
  BY <1>1, <1>4, UnderIsLonger
<1>6. c # <<>>
  BY <1>5, EmptySeq
<1>7. /\ Above(c) \in DOMAIN tree /\ Len(Above(c)) = Len(c) - 1
      /\ \A i \in 1..(Len(c) - 1) : Above(c)[i] = c[i]
  BY <1>1, <1>6, PathAbove
<1>8. Under(p, Above(c))
  BY <1>1, <1>4, <1>6, UnderAbove
<1>9. Under(Above(c), r)
  <2>1. Len(Above(c)) <= Len(c) /\ \A i \in 1..Len(Above(c)) : Above(c)[i] = c[i]
    BY <1>5, <1>7
  <2>2. Under(Above(c), c)
    BY <1>1, <1>7, <2>1, UnderByElement
  <2> QED
    BY <1>1, <1>4, <1>7, <2>2, UnderTrans
<1>10. Above(c) = p
  <2> SUFFICES ASSUME Above(c) # p PROVE FALSE
    OBVIOUS
  <2>1. Between(Above(c))
    BY <1>8, <1>9
  <2>2. Len(Above(c)) \in Nat
    BY <1>1, <1>7
  <2>3. Len(Above(c)) \in Lens
    BY <1>7, <2>1, <2>2
  <2> HIDE DEF Lens
  <2>4. n <= Len(Above(c))
    BY <1>3, <2>3
  <2> QED
    BY <1>4, <1>5, <1>7, <2>4
<1>11. Len(c) = Len(p) + 1
  BY <1>5, <1>7, <1>10
<1> QED
  BY <1>4, <1>10, <1>11 DEF SubTrees

\* The trees below p that have nid, and that no tree between has.
Shallowest(p, nid) ==
  {r \in DOMAIN tree :
     /\ Under(p, r) /\ nid \in DataTrees(r)
     /\ \A t \in DOMAIN tree : (Under(p, t) /\ Under(t, r) /\ t # r) => nid \notin DataTrees(t)}

LEMMA ShallowestOwn ==
  ASSUME TInv, NEW p \in DOMAIN tree, NEW nid \in DataTrees(p)
  PROVE  Shallowest(p, nid) = {p}
<1>1. \A t \in DOMAIN tree : t \in Seq(Nid) /\ Len(t) \in Nat
  BY DEF TInv, TypeOK
<1>2. Under(p, p)
  <2>1. Len(p) <= Len(p) /\ \A i \in 1..Len(p) : p[i] = p[i]
    BY <1>1
  <2> QED
    BY <1>1, <2>1, UnderByElement
<1>3. ASSUME NEW t \in DOMAIN tree, Under(p, t), Under(t, p) PROVE t = p
  <2> SUFFICES ASSUME t # p PROVE FALSE
    OBVIOUS
  <2>1. Len(p) < Len(t)
    BY <1>1, <1>3, UnderIsLonger
  <2>2. Len(t) < Len(p)
    BY <1>1, <1>3, UnderIsLonger
  <2> QED
    BY <1>1, <2>1, <2>2
<1>4. p \in Shallowest(p, nid)
  BY <1>2, <1>3 DEF Shallowest
<1>5. \A r \in Shallowest(p, nid) : r = p
  BY <1>2 DEF Shallowest
<1> QED
  BY <1>4, <1>5

LEMMA ShallowestNested ==
  ASSUME TInv, NEW p \in DOMAIN tree, NEW nid, nid \notin DataTrees(p)
  PROVE  /\ \A r \in Shallowest(p, nid) : \E c \in SubTrees(p) : r \in Shallowest(c, nid)
         /\ \A c \in SubTrees(p) : Shallowest(c, nid) \subseteq Shallowest(p, nid)
<1>1. \A t \in DOMAIN tree : t \in Seq(Nid) /\ Len(t) \in Nat
  BY DEF TInv, TypeOK
<1>2. ASSUME NEW r \in Shallowest(p, nid)
      PROVE  \E c \in SubTrees(p) : r \in Shallowest(c, nid)
  <2>1. /\ r \in DOMAIN tree /\ Under(p, r) /\ nid \in DataTrees(r) /\ p # r
        /\ \A t \in DOMAIN tree : (Under(p, t) /\ Under(t, r) /\ t # r) => nid \notin DataTrees(t)
    BY DEF Shallowest
  <2>2. PICK c \in SubTrees(p) : Under(c, r)
    BY <2>1, SubTreeBetween
  <2>3. c \in DOMAIN tree /\ Under(p, c)
    BY SubTreeFacts
  <2>4. \A t \in DOMAIN tree : Under(c, t) => Under(p, t)
    BY <1>1, <2>3, UnderTrans
  <2>5. r \in Shallowest(c, nid)
    BY <2>1, <2>2, <2>4 DEF Shallowest
  <2> QED
    BY <2>5
<1>3. ASSUME NEW c \in SubTrees(p), NEW r \in Shallowest(c, nid)
      PROVE  r \in Shallowest(p, nid)
  <2>1. c \in DOMAIN tree /\ Under(p, c) /\ Len(c) = Len(p) + 1
    BY SubTreeFacts
  <2>2. /\ r \in DOMAIN tree /\ Under(c, r) /\ nid \in DataTrees(r)
        /\ \A t \in DOMAIN tree : (Under(c, t) /\ Under(t, r) /\ t # r) => nid \notin DataTrees(t)
    BY DEF Shallowest
  <2>3. Under(p, r)
    BY <1>1, <2>1, <2>2, UnderTrans
  <2>4. ASSUME NEW t \in DOMAIN tree, Under(p, t), Under(t, r), t # r, t # p
        PROVE  Under(c, t)
    <3>1. Len(p) < Len(t)
      BY <1>1, <2>4, UnderIsLonger
    <3>2. Len(c) <= Len(t)
      BY <1>1, <2>1, <3>1
    <3> QED
      BY <1>1, <2>1, <2>2, <2>4, <3>2, UnderBoth
  <2> QED
    BY <2>2, <2>3, <2>4 DEF Shallowest
<1> QED
  BY <1>2, <1>3

\* What the body of the recursion makes of the answers f.
GetBody(f, nid, q) ==
  IF nid \in DataTrees(q) THEN {Append(q, nid)} ELSE UNION {f[r] : r \in SubTrees(q)}
Gets(f, nid) == f = [q \in DOMAIN tree |-> GetBody(f, nid, q)]

LEMMA GetExists ==
  ASSUME TInv, Bounded, NEW nid
  PROVE  \E f : Gets(f, nid)
<1>1. PICK N \in Nat : \A p \in DOMAIN tree : Len(p) <= N
  BY DEF Bounded
<1>0. \A p \in DOMAIN tree : Len(p) \in Nat
  BY DEF TInv, TypeOK
<1> DEFINE D(n) == {p \in DOMAIN tree : N <= Len(p) + n}
           S == {n \in Nat : ~\E f : f = [p \in D(n) |-> GetBody(f, nid, p)]}
<1>2. S = {}
  <2> SUFFICES ASSUME S # {} PROVE FALSE
    OBVIOUS
  <2>1. PICK m \in S : \A k \in S : m <= k
    <3>1. S \in SUBSET Nat
      OBVIOUS
    <3> HIDE DEF S
    <3> QED
      BY <3>1, Least
  <2>2. m \in Nat /\ ~\E f : f = [p \in D(m) |-> GetBody(f, nid, p)]
    BY <2>1
  <2>3. \E h : m # 0 => h = [p \in D(m-1) |-> GetBody(h, nid, p)]
    <3>1. CASE m = 0
      BY <3>1
    <3>2. CASE m # 0
      <4>1. m - 1 \in Nat /\ ~(m <= m - 1)
        BY <2>2, <3>2
      <4>2. m - 1 \notin S
        BY <2>1, <4>1
      <4> QED
        BY <4>1, <4>2
    <3> QED
      BY <3>1, <3>2
  <2> HIDE DEF S
  <2>4. PICK h : m # 0 => h = [p \in D(m-1) |-> GetBody(h, nid, p)]
    BY <2>3
  <2> DEFINE g == [p \in D(m) |-> GetBody(h, nid, p)]
  <2>5. ASSUME NEW p \in D(m), NEW c \in SubTrees(p)
        PROVE  h[c] = g[c]
    <3>1. c \in DOMAIN tree /\ Len(c) = Len(p) + 1 /\ Len(p) \in Nat
      BY <1>0, SubTreeFacts
    <3>2. N <= Len(p) + m /\ Len(p) + 1 <= N
      BY <1>1, <3>1
    <3>3. m # 0 /\ N <= Len(p) + 1 + (m - 1) /\ N <= Len(p) + 1 + m
      BY <2>2, <3>1, <3>2
    <3>4. c \in D(m-1) /\ c \in D(m)
      BY <3>1, <3>3
    <3> HIDE DEF D
    <3>5. h[c] = GetBody(h, nid, c)
      BY <2>4, <3>3, <3>4
    <3>6. g[c] = GetBody(h, nid, c)
      BY <3>4
    <3> QED
      BY <3>5, <3>6
  <2>6. \A p \in D(m) : GetBody(h, nid, p) = GetBody(g, nid, p)
    <3> HIDE DEF g
    <3> TAKE p \in D(m)
    <3>1. {h[r] : r \in SubTrees(p)} = {g[r] : r \in SubTrees(p)}
      BY <2>5
    <3> QED
      BY <3>1 DEF GetBody
  <2>7. g = [p \in D(m) |-> GetBody(g, nid, p)]
    <3> HIDE DEF D
    <3> QED
      BY <2>6
  <2> QED
    BY <2>2, <2>7
<1>3. D(N) = DOMAIN tree
  <2>1. \A p \in DOMAIN tree : N <= Len(p) + N
    BY <1>0
  <2> QED
    BY <2>1
<1>4. PICK f : f = [p \in D(N) |-> GetBody(f, nid, p)]
  BY <1>2
<1> HIDE DEF D
<1> QED
  BY <1>3, <1>4 DEF Gets

\* What every nested tree answers rightly, the tree does.
LEMMA GetStep ==
  ASSUME TInv, NEW nid, NEW f, Gets(f, nid), NEW p \in DOMAIN tree,
         \A c \in SubTrees(p) : f[c] = {Append(q, nid) : q \in Shallowest(c, nid)}
  PROVE  f[p] = {Append(q, nid) : q \in Shallowest(p, nid)}
<1>1. f[p] = GetBody(f, nid, p)
  BY DEF Gets
<1>2. CASE nid \in DataTrees(p)
  <2>1. Shallowest(p, nid) = {p}
    BY <1>2, ShallowestOwn
  <2> QED
    BY <1>1, <1>2, <2>1 DEF GetBody
<1>3. CASE nid \notin DataTrees(p)
  <2>1. f[p] = UNION {f[r] : r \in SubTrees(p)}
    BY <1>1, <1>3 DEF GetBody
  <2>2. /\ \A r \in Shallowest(p, nid) : \E c \in SubTrees(p) : r \in Shallowest(c, nid)
        /\ \A c \in SubTrees(p) : Shallowest(c, nid) \subseteq Shallowest(p, nid)
    BY <1>3, ShallowestNested
  <2>3. ASSUME NEW a \in f[p] PROVE a \in {Append(q, nid) : q \in Shallowest(p, nid)}
    <3>1. PICK c \in SubTrees(p) : a \in f[c]
      BY <2>1, <2>3
    <3>2. PICK q \in Shallowest(c, nid) : a = Append(q, nid)
      BY <3>1
    <3> QED
      BY <2>2, <3>2
  <2>4. ASSUME NEW q \in Shallowest(p, nid) PROVE Append(q, nid) \in f[p]
    <3>1. PICK c \in SubTrees(p) : q \in Shallowest(c, nid)
      BY <2>2
    <3>2. Append(q, nid) \in f[c]
      BY <3>1
    <3> QED
      BY <2>1, <3>2
  <2> QED
    BY <2>3, <2>4
<1> QED
  BY <1>2, <1>3

\* The deepest tree with a wrong answer would have one below it.
LEMMA GetIs ==
  ASSUME TInv, Bounded, NEW nid, NEW f, Gets(f, nid)
  PROVE  \A p \in DOMAIN tree : f[p] = {Append(q, nid) : q \in Shallowest(p, nid)}
<1> DEFINE Right(p) == f[p] = {Append(q, nid) : q \in Shallowest(p, nid)}
<1>1. PICK N \in Nat : \A p \in DOMAIN tree : Len(p) <= N
  BY DEF Bounded
<1> DEFINE Wrong == {n \in Nat : \E p \in DOMAIN tree : N = Len(p) + n /\ ~Right(p)}
<1>2. \A p \in DOMAIN tree : Len(p) \in Nat /\ N - Len(p) \in Nat /\ N = Len(p) + (N - Len(p))
  <2> TAKE p \in DOMAIN tree
  <2>1. Len(p) \in Nat
    BY DEF TInv, TypeOK
  <2> QED
    BY <1>1, <2>1
<1> HIDE DEF Right
<1>3. SUFFICES Wrong = {}
  BY <1>2 DEF Right
<1>4. SUFFICES ASSUME Wrong # {} PROVE FALSE
  OBVIOUS
<1>5. PICK n \in Wrong : \A k \in Wrong : n <= k
  <2>1. Wrong \in SUBSET Nat
    OBVIOUS
  <2> HIDE DEF Wrong
  <2> QED
    BY <1>4, <2>1, Least
<1>6. PICK p \in DOMAIN tree : N = Len(p) + n /\ ~Right(p)
  BY <1>5
<1>7. n \in Nat
  BY <1>5
<1>8. ASSUME NEW c \in SubTrees(p) PROVE Right(c)
  <2>1. c \in DOMAIN tree /\ Len(c) = Len(p) + 1
    BY SubTreeFacts
  <2>2. Len(p) + 1 <= N
    BY <1>1, <2>1
  <2>3. n - 1 \in Nat /\ N = Len(p) + 1 + (n - 1) /\ ~(n <= n - 1)
    BY <1>2, <1>6, <1>7, <2>2
  <2>4. n - 1 \notin Wrong
    BY <1>5, <2>3
  <2> QED
    BY <2>1, <2>3, <2>4
<1> HIDE DEF Wrong
<1>9. Right(p)
  BY <1>8, GetStep DEF Right
<1> QED
  BY <1>6, <1>9

\* Asked for a NID, a tree answers with the data trees nearest below it that have it,
\* whatever the nesting of the file.
THEOREM AnswerStaysShallowest == Spec => []AnswerIsShallowest
<1>1. TInv /\ Bounded => AnswerIsShallowest
  <2> SUFFICES ASSUME TInv, Bounded, NEW p \in DOMAIN tree, NEW nid \in Nid
               PROVE  GetDataTree(p, nid) = {Append(q, nid) : q \in Shallowest(p, nid)}
    BY DEF AnswerIsShallowest, Shallowest
  <2> DEFINE get == CHOOSE f : Gets(f, nid)
  <2>1. Gets(get, nid)
    BY GetExists
  <2>2. GetDataTree(p, nid) = get[p]
    BY DEF GetDataTree, Gets, GetBody
  <2> HIDE DEF get
  <2> QED
    BY <2>1, <2>2, GetIs
<1> QED
  BY <1>1, InitTInv, NextTInv, InitBounded, NextBounded, PTL DEF Spec
=============================================================================
