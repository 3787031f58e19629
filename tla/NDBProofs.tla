------------------------------- MODULE NDBProofs -------------------------------
(***************************************************************************)
(* Proofs about NDB: for B-trees of every height and with every number of  *)
(* pages, construction reads each page into its place, a short read takes  *)
(* all that is read after it along, and the searches of a complete tree    *)
(* are look-ups in the set of the file's entries.                          *)
(***************************************************************************)
EXTENDS NDB, SequenceTheorems, WellFoundedInduction, TLAPS

-----------------------------------------------------------------------------
(* Numbers. *)

LEMMA Least ==
  ASSUME NEW S \in SUBSET Nat, S # {}
  PROVE  \E m \in S : \A k \in S : m <= k
<1> DEFINE less == OpToRel(<, Nat)
<1>1. IsWellFoundedOn(less, Nat)
  BY NatLessThanWellFounded
<1>2. \A j, k \in Nat : j < k => <<j, k>> \in less
  BY DEF OpToRel
<1> HIDE DEF less
<1>3. PICK m \in S : \A k \in S : ~(<<k, m>> \in less)
  BY <1>1, WFMin
<1>4. \A k \in S : ~(k < m)
  BY <1>2, <1>3
<1> QED
  BY <1>3, <1>4

LEMMA Greatest ==
  ASSUME NEW n \in Nat, NEW S \in SUBSET (1..n), S # {}
  PROVE  \E m \in S : \A k \in S : k <= m
<1> DEFINE B == {b \in Nat : \A k \in S : k <= b}
<1>1. n \in B /\ B \in SUBSET Nat
  OBVIOUS
<1>2. PICK b \in B : \A c \in B : b <= c
  BY <1>1, Least
<1>3. b \in S
  <2> SUFFICES ASSUME b \notin S PROVE FALSE
    OBVIOUS
  <2>1. \A k \in S : k \in 1..n /\ k <= b /\ k # b
    BY <1>2
  <2>2. PICK k \in S : TRUE
    OBVIOUS
  <2>3. b \in Nat /\ b - 1 \in Nat
    BY <1>2, <2>1, <2>2
  <2>4. \A j \in S : j <= b - 1
    BY <2>1, <2>3
  <2> QED
    BY <1>2, <2>3, <2>4
<1> QED
  BY <1>2, <1>3

-----------------------------------------------------------------------------
(* Paths. *)

\* The path of a child.
LEMMA PathOfChild ==
  ASSUME NEW p \in Seq(Nat), NEW i \in Nat
  PROVE  LET q == Append(p, i)
         IN  /\ q \in Seq(Nat) /\ q # <<>> /\ Len(q) = Len(p) + 1 /\ Len(p) \in Nat
             /\ \A j \in 1..Len(p) : q[j] = p[j]
             /\ q[Len(p) + 1] = i /\ Last(q) = i /\ Above(q) = p
<1> DEFINE q == Append(p, i)
<1>1. /\ q \in Seq(Nat) /\ Len(q) = Len(p) + 1 /\ Len(p) \in Nat
      /\ \A j \in 1..Len(p) : q[j] = p[j]
      /\ q[Len(p) + 1] = i
  OBVIOUS
<1>2. q # <<>>
  BY <1>1, EmptySeq
<1> HIDE DEF q
<1>3. \A j \in 1..Len(p) : q[j] \in Nat
  BY <1>1, ElementOfSeq
<1> DEFINE s == SubSeq(q, 1, Len(p))
<1>4. /\ s \in Seq(Nat)
      /\ Len(s) = IF 1 <= Len(p) THEN Len(p) - 1 + 1 ELSE 0
      /\ \A j \in 1..(Len(p) - 1 + 1) : s[j] = q[1 + j - 1]
  BY <1>1, <1>3, SubSeqProperties
<1>5. Len(s) = Len(p) /\ \A j \in 1..Len(p) : s[j] = p[j]
  BY <1>1, <1>4
<1>6. s = p
  BY <1>4, <1>5, SeqEqual
<1>7. Above(q) = p
  <2>1. Len(q) - 1 = Len(p)
    BY <1>1
  <2> QED
    BY <1>6, <2>1 DEF Above
<1> QED
  BY <1>1, <1>2, <1>7 DEF Last, q

\* The path of the page above.
LEMMA PathAbove ==
  ASSUME NEW q \in Seq(Nat), q # <<>>
  PROVE  /\ Above(q) \in Seq(Nat) /\ Len(q) \in Nat \ {0} /\ Len(Above(q)) = Len(q) - 1
         /\ Last(q) \in Nat
         /\ \A j \in 1..(Len(q) - 1) : Above(q)[j] = q[j]
         /\ q = Append(Above(q), Last(q))
<1>1. Len(q) \in Nat \ {0}
  BY EmptySeq
<1>2. \A j \in 1..Len(q) : q[j] \in Nat
  BY ElementOfSeq
<1> DEFINE n == Len(q) - 1
           s == SubSeq(q, 1, n)
<1>3. n \in Nat /\ n + 1 = Len(q) /\ n <= Len(q)
  BY <1>1
<1>7. s = Above(q)
  BY DEF Above
<1> HIDE DEF n
<1>4. \A j \in 1..n : q[j] \in Nat
  BY <1>2, <1>3
<1>5. /\ s \in Seq(Nat) /\ Len(s) = IF 1 <= n THEN n - 1 + 1 ELSE 0
      /\ \A j \in 1..(n - 1 + 1) : s[j] = q[1 + j - 1]
  BY <1>3, <1>4, SubSeqProperties
<1>6. Len(s) = n /\ \A j \in 1..n : s[j] = q[j]
  BY <1>3, <1>4, <1>5
<1> HIDE DEF s
<1>8. Last(q) \in Nat /\ Last(q) = q[n + 1]
  BY <1>1, <1>2, <1>3 DEF Last
<1>9. q = Append(s, Last(q))
  <2> DEFINE a == Append(s, Last(q))
  <2>1. /\ a \in Seq(Nat) /\ Len(a) = n + 1 /\ a[n + 1] = Last(q)
        /\ \A j \in 1..n : a[j] = s[j]
    BY <1>3, <1>5, <1>6, <1>8, PathOfChild
  <2> HIDE DEF a
  <2>2. \A j \in 1..Len(q) : q[j] = a[j]
    BY <1>3, <1>6, <1>8, <2>1
  <2>3. q = a
    BY <1>3, <2>1, <2>2, SeqEqual
  <2> QED
    BY <2>3 DEF a
<1> QED
  BY <1>1, <1>3, <1>5, <1>6, <1>7, <1>8, <1>9 DEF n

\* The first n steps of a path.
LEMMA PathPrefix ==
  ASSUME NEW q \in Seq(Nat), NEW n \in 0..Len(q)
  PROVE  LET s == SubSeq(q, 1, n)
         IN  /\ s \in Seq(Nat) /\ Len(s) = n
             /\ \A j \in 1..n : s[j] = q[j]
             /\ n = Len(q) => s = q
             /\ n # 0 => s # <<>> /\ Above(s) = SubSeq(q, 1, n - 1) /\ Last(s) = q[n]
             /\ n < Len(q) => Append(s, q[n + 1]) = SubSeq(q, 1, n + 1)
             /\ n = 0 => s = <<>>
<1>1. Len(q) \in Nat /\ n \in Nat /\ n <= Len(q)
  OBVIOUS
<1>2. ASSUME NEW m \in 0..Len(q)
      PROVE  /\ SubSeq(q, 1, m) \in Seq(Nat) /\ Len(SubSeq(q, 1, m)) = m
             /\ \A j \in 1..m : SubSeq(q, 1, m)[j] = q[j] /\ q[j] \in Nat
  <2>1. \A j \in 1..m : q[j] \in Nat
    BY <1>1, ElementOfSeq
  <2>2. /\ SubSeq(q, 1, m) \in Seq(Nat)
        /\ Len(SubSeq(q, 1, m)) = IF 1 <= m THEN m - 1 + 1 ELSE 0
        /\ \A j \in 1..(m - 1 + 1) : SubSeq(q, 1, m)[j] = q[1 + j - 1]
    BY <1>1, <2>1, SubSeqProperties
  <2> QED
    BY <1>1, <2>1, <2>2
<1> DEFINE s == SubSeq(q, 1, n)
<1>3. s \in Seq(Nat) /\ Len(s) = n /\ \A j \in 1..n : s[j] = q[j]
  BY <1>1, <1>2
<1>4. n = Len(q) => s = q
  BY SubSeqFull
<1>5. n = 0 => s = <<>>
  BY <1>1, SubSeqEmpty
<1> HIDE DEF s
<1>6. ASSUME n # 0 PROVE s # <<>> /\ Above(s) = SubSeq(q, 1, n - 1) /\ Last(s) = q[n]
  <2>1. s # <<>>
    BY <1>1, <1>3, <1>6, EmptySeq
  <2>2. /\ Above(s) \in Seq(Nat) /\ Len(Above(s)) = n - 1
        /\ \A j \in 1..(n - 1) : Above(s)[j] = s[j]
    BY <1>3, <2>1, PathAbove
  <2> DEFINE m == n - 1
             t == SubSeq(q, 1, m)
  <2>3. m \in 0..Len(q)
    BY <1>1, <1>6
  <2>4. t \in Seq(Nat) /\ Len(t) = m /\ \A j \in 1..m : t[j] = q[j]
    BY <1>2, <2>3
  <2>5. \A j \in 1..m : Above(s)[j] = q[j]
    BY <1>1, <1>3, <2>2
  <2> HIDE DEF m, t
  <2>6. Above(s) = t
    <3>1. Len(Above(s)) = m /\ \A j \in 1..m : Above(s)[j] = t[j]
      BY <2>2, <2>4, <2>5 DEF m
    <3> QED
      BY <2>2, <2>4, <3>1, SeqEqual
  <2>7. Last(s) = q[n]
    BY <1>1, <1>3, <1>6 DEF Last
  <2> QED
    BY <2>1, <2>6, <2>7 DEF m, t
<1>7. ASSUME n < Len(q) PROVE Append(s, q[n + 1]) = SubSeq(q, 1, n + 1)
  <2> DEFINE m == n + 1
             t == SubSeq(q, 1, m)
             a == Append(s, q[m])
  <2>1. m \in 0..Len(q) /\ m \in 1..Len(q)
    BY <1>1, <1>7
  <2>2. t \in Seq(Nat) /\ Len(t) = m /\ \A j \in 1..m : t[j] = q[j]
    BY <1>2, <2>1
  <2>3. q[m] \in Nat
    BY <2>1, ElementOfSeq
  <2>4. a \in Seq(Nat) /\ Len(a) = n + 1 /\ a[n + 1] = q[m] /\ \A j \in 1..n : a[j] = s[j]
    BY <1>3, <2>3, PathOfChild
  <2>5. \A j \in 1..m : a[j] = q[j]
    BY <1>1, <1>3, <2>4
  <2> HIDE DEF a, t
  <2>6. a = t
    <3>1. Len(a) = m /\ \A j \in 1..m : a[j] = t[j]
      BY <2>2, <2>4, <2>5
    <3> QED
      BY <2>2, <2>4, <3>1, SeqEqual
  <2> QED
    BY <2>6 DEF a, t
<1> QED
  BY <1>3, <1>4, <1>5, <1>6, <1>7 DEF s

\* What has the page above of each of its pages has all the pages above.
LEMMA PrefixClosed ==
  ASSUME NEW S \in SUBSET Seq(Nat), \A p \in S : p # <<>> => Above(p) \in S,
         NEW q \in S, NEW n \in 0..Len(q)
  PROVE  SubSeq(q, 1, n) \in S
<1> DEFINE B == {k \in Nat : k <= Len(q) /\ SubSeq(q, 1, Len(q) - k) \notin S}
<1>0. q \in Seq(Nat)
  OBVIOUS
<1>1. Len(q) \in Nat
  BY <1>0
<1>2. SUFFICES B = {}
  <2>1. Len(q) - n \in Nat /\ Len(q) - n <= Len(q) /\ Len(q) - (Len(q) - n) = n
    BY <1>1
  <2> QED
    BY <1>2, <2>1
<1>3. SUFFICES ASSUME B # {} PROVE FALSE
  OBVIOUS
<1>4. PICK k \in B : \A j \in B : k <= j
  BY <1>3, Least
<1>11. k \in Nat /\ k <= Len(q)
  BY <1>4
<1>5. k # 0
  <2> SUFFICES ASSUME k = 0 PROVE FALSE
    OBVIOUS
  <2>1. SubSeq(q, 1, Len(q)) = q /\ Len(q) - k = Len(q)
    BY <1>0, <1>1, SubSeqFull
  <2>2. SubSeq(q, 1, Len(q) - k) \notin S
    BY <1>4
  <2> QED
    BY <2>1, <2>2
<1> DEFINE m == Len(q) - k + 1
<1>6. m \in 1..Len(q) /\ m \in 0..Len(q) /\ m = Len(q) - (k - 1) /\ k - 1 \in Nat /\ k - 1 <= Len(q)
      /\ m - 1 = Len(q) - k
  BY <1>1, <1>5, <1>11
<1>9. SubSeq(q, 1, Len(q) - k) \notin S
  BY <1>4
<1>10. k - 1 \notin B
  <2>1. ~(k <= k - 1)
    BY <1>11
  <2> QED
    BY <1>4, <2>1
<1> HIDE DEF m
<1>7. SubSeq(q, 1, m) \in S
  <2>1. SubSeq(q, 1, Len(q) - (k - 1)) \in S
    BY <1>6, <1>10
  <2> QED
    BY <1>6, <2>1
<1>8. SubSeq(q, 1, m) # <<>> /\ Above(SubSeq(q, 1, m)) = SubSeq(q, 1, m - 1)
  <2>1. m # 0
    BY <1>6
  <2> QED
    BY <1>0, <1>6, <2>1, PathPrefix
<1> QED
  BY <1>6, <1>7, <1>8, <1>9

-----------------------------------------------------------------------------
(* The tree of the file's pages. *)

\* The pages of n levels and those of the next.
Grow(upper, n) ==
  LET inner == {p \in DOMAIN upper : Level[upper[p]] > 0 /\ Len(p) = n - 1}
      below == UNION {{Append(p, i) : i \in DOMAIN Child[upper[p]]} : p \in inner}
  IN  [p \in DOMAIN upper \cup below |->
         IF p \in DOMAIN upper THEN upper[p] ELSE Child[upper[Above(p)]][Last(p)]]

Levels(g, t, n) ==
  g = [k \in 0..n |-> IF k = 0 THEN [p \in {<<>>} |-> Root[t]] ELSE Grow(g[k-1], k)]

\* f hangs each page of a tree under root where the page above has it.
Hangs(f, root) ==
  /\ DOMAIN f \in SUBSET Seq(Nat) /\ <<>> \in DOMAIN f /\ f[<<>>] = root
  /\ \A p \in DOMAIN f : f[p] \in Page /\ Level[f[p]] = Level[root] - Len(p)
  /\ \A p \in DOMAIN f : p # <<>> =>
        /\ Above(p) \in DOMAIN f /\ Level[f[Above(p)]] > 0
        /\ Last(p) \in DOMAIN Child[f[Above(p)]]
        /\ f[p] = Child[f[Above(p)]][Last(p)]

\* Of the first n levels nothing is left out.
Upto(f, root, n) ==
  /\ Hangs(f, root)
  /\ \A p \in DOMAIN f : Len(p) <= n
  /\ \A p \in DOMAIN f : Len(p) < n =>
        \A i \in DOMAIN Child[f[p]] : Append(p, i) \in DOMAIN f

LEMMA ChildFacts ==
  ASSUME NEW page \in Page, NEW i \in DOMAIN Child[page]
  PROVE  /\ i \in Nat \ {0} /\ i \in DOMAIN Keys[page] /\ Child[page][i] \in Page
         /\ Level[page] \in Nat /\ Level[page] > 0 /\ Level[Child[page][i]] = Level[page] - 1
         /\ DOMAIN Child[page] = 1..Len(Child[page]) /\ Len(Child[page]) \in Nat
<1>1. Child[page] \in Seq(Page) /\ Keys[page] \in Seq(Nat) /\ Level[page] \in Nat
  BY PagesAssumption
<1>2. Level[page] # 0
  <2> SUFFICES ASSUME Level[page] = 0 PROVE FALSE
    OBVIOUS
  <2>1. Child[page] = <<>>
    BY PagesAssumption
  <2>2. DOMAIN Child[page] = 1..0
    BY <1>1, <2>1
  <2> QED
    BY <2>2
<1>3. Len(Child[page]) = Len(Keys[page]) /\ Level[Child[page][i]] = Level[page] - 1
  BY <1>2, PagesAssumption
<1>4. Child[page][i] \in Page
  BY <1>1, ElementOfSeq
<1> QED
  BY <1>1, <1>2, <1>3, <1>4

LEMMA LevelsExists ==
  ASSUME NEW n \in Nat, NEW t
  PROVE  \E g : Levels(g, t, n)
<1> DEFINE S == {k \in Nat : ~\E g : Levels(g, t, k)}
<1>1. SUFFICES ASSUME S # {} PROVE FALSE
  OBVIOUS
<1>2. PICK m \in S : \A k \in S : m <= k
  BY <1>1, Least
<1>3. CASE m = 0
  <2> DEFINE g == [i \in 0..0 |-> [p \in {<<>>} |-> Root[t]]]
  <2>1. Levels(g, t, 0)
    BY DEF Levels
  <2> QED
    BY <1>2, <1>3, <2>1
<1>4. CASE m # 0
  <2>1. m - 1 \in Nat /\ m - 1 \notin S
    BY <1>2, <1>4
  <2>2. PICK h : Levels(h, t, m - 1)
    BY <2>1
  <2> DEFINE g == [i \in 0..m |-> IF i = m THEN Grow(h[m-1], m) ELSE h[i]]
  <2>3. \A i \in 0..(m-1) :
          h[i] = IF i = 0 THEN [p \in {<<>>} |-> Root[t]] ELSE Grow(h[i-1], i)
    BY <2>2 DEF Levels
  <2>4. \A i \in 0..m :
          g[i] = IF i = 0 THEN [p \in {<<>>} |-> Root[t]] ELSE Grow(g[i-1], i)
    BY <1>2, <1>4, <2>3
  <2>5. Levels(g, t, m)
    BY <2>4 DEF Levels
  <2> QED
    BY <1>2, <2>5
<1> QED
  BY <1>3, <1>4

\* One more level.
LEMMA GrowUpto ==
  ASSUME NEW root \in Page, NEW n \in Nat \ {0}, NEW f, Upto(f, root, n - 1)
  PROVE  Upto(Grow(f, n), root, n)
<1> DEFINE inner == {p \in DOMAIN f : Level[f[p]] > 0 /\ Len(p) = n - 1}
           below == UNION {{Append(p, i) : i \in DOMAIN Child[f[p]]} : p \in inner}
           g == Grow(f, n)
<1>1. /\ DOMAIN f \in SUBSET Seq(Nat) /\ <<>> \in DOMAIN f /\ f[<<>>] = root
      /\ \A p \in DOMAIN f : f[p] \in Page /\ Level[f[p]] = Level[root] - Len(p)
      /\ \A p \in DOMAIN f : p # <<>> =>
            /\ Above(p) \in DOMAIN f /\ Level[f[Above(p)]] > 0
            /\ Last(p) \in DOMAIN Child[f[Above(p)]]
            /\ f[p] = Child[f[Above(p)]][Last(p)]
      /\ \A p \in DOMAIN f : Len(p) <= n - 1
      /\ \A p \in DOMAIN f : Len(p) < n - 1 =>
            \A i \in DOMAIN Child[f[p]] : Append(p, i) \in DOMAIN f
  BY DEF Upto, Hangs
<1>2. /\ DOMAIN g = DOMAIN f \cup below
      /\ \A p \in DOMAIN f : g[p] = f[p]
      /\ \A p \in below : p \notin DOMAIN f => g[p] = Child[f[Above(p)]][Last(p)]
  BY DEF Grow
<1>3. ASSUME NEW p \in inner, NEW i \in DOMAIN Child[f[p]]
      PROVE  /\ Append(p, i) \in Seq(Nat) /\ Append(p, i) # <<>>
             /\ Len(Append(p, i)) = n /\ Append(p, i) \notin DOMAIN f
             /\ Above(Append(p, i)) = p /\ Last(Append(p, i)) = i
             /\ Child[f[p]][i] \in Page /\ Level[Child[f[p]][i]] = Level[root] - n
  <2>1. p \in Seq(Nat) /\ f[p] \in Page /\ Level[f[p]] = Level[root] - (n - 1) /\ Len(p) = n - 1
    BY <1>1
  <2>2. i \in Nat /\ Child[f[p]][i] \in Page /\ Level[Child[f[p]][i]] = Level[f[p]] - 1
    BY <2>1, ChildFacts
  <2>3. /\ Append(p, i) \in Seq(Nat) /\ Append(p, i) # <<>> /\ Len(Append(p, i)) = Len(p) + 1
        /\ Above(Append(p, i)) = p /\ Last(Append(p, i)) = i
    BY <2>1, <2>2, PathOfChild
  <2>4. Len(Append(p, i)) = n
    BY <2>1, <2>3
  <2>5. Append(p, i) \notin DOMAIN f
    <3>1. ~(Len(Append(p, i)) <= n - 1)
      BY <2>4
    <3> QED
      BY <1>1, <3>1
  <2>6. Level[root] \in Nat
    BY PagesAssumption
  <2> QED
    BY <2>1, <2>2, <2>3, <2>4, <2>5, <2>6
<1>4. ASSUME NEW p \in below
      PROVE  /\ p \in Seq(Nat) /\ p # <<>> /\ Len(p) = n /\ p \notin DOMAIN f
             /\ Above(p) \in inner /\ Last(p) \in DOMAIN Child[f[Above(p)]]
             /\ g[p] = Child[f[Above(p)]][Last(p)]
             /\ g[p] \in Page /\ Level[g[p]] = Level[root] - Len(p)
  <2>0. PICK q \in inner : \E i \in DOMAIN Child[f[q]] : p = Append(q, i)
    OBVIOUS
  <2>1. PICK i \in DOMAIN Child[f[q]] : p = Append(q, i)
    BY <2>0
  <2>2. /\ p \in Seq(Nat) /\ p # <<>> /\ Len(p) = n /\ p \notin DOMAIN f
        /\ Above(p) = q /\ Last(p) = i
        /\ Child[f[q]][i] \in Page /\ Level[Child[f[q]][i]] = Level[root] - n
    BY <1>3, <2>1
  <2>3. g[p] = Child[f[q]][i]
    BY <1>2, <2>2
  <2> HIDE DEF inner, g
  <2> QED
    BY <2>2, <2>3
<1> HIDE DEF g, below
<1>5. Hangs(g, root)
  <2>1. DOMAIN g \in SUBSET Seq(Nat) /\ <<>> \in DOMAIN g /\ g[<<>>] = root
    BY <1>1, <1>2, <1>4
  <2>2. \A p \in DOMAIN g : g[p] \in Page /\ Level[g[p]] = Level[root] - Len(p)
    BY <1>1, <1>2, <1>4
  <2>3. \A p \in DOMAIN g : p # <<>> =>
            /\ Above(p) \in DOMAIN g /\ Level[g[Above(p)]] > 0
            /\ Last(p) \in DOMAIN Child[g[Above(p)]]
            /\ g[p] = Child[g[Above(p)]][Last(p)]
    <3>1. ASSUME NEW p \in DOMAIN f, p # <<>>
          PROVE  /\ Above(p) \in DOMAIN g /\ Level[g[Above(p)]] > 0
                 /\ Last(p) \in DOMAIN Child[g[Above(p)]]
                 /\ g[p] = Child[g[Above(p)]][Last(p)]
      BY <1>1, <1>2, <3>1
    <3>2. ASSUME NEW p \in below
          PROVE  /\ Above(p) \in DOMAIN g /\ Level[g[Above(p)]] > 0
                 /\ Last(p) \in DOMAIN Child[g[Above(p)]]
                 /\ g[p] = Child[g[Above(p)]][Last(p)]
      <4>1. Above(p) \in DOMAIN f /\ Level[f[Above(p)]] > 0
        BY <1>4
      <4> QED
        BY <1>2, <1>4, <4>1
    <3> QED
      BY <1>2, <3>1, <3>2
  <2> QED
    BY <2>1, <2>2, <2>3 DEF Hangs
<1>6. \A p \in DOMAIN g : Len(p) <= n
  BY <1>1, <1>2, <1>4
<1>7. ASSUME NEW p \in DOMAIN g, Len(p) < n, NEW i \in DOMAIN Child[g[p]]
      PROVE  Append(p, i) \in DOMAIN g
  <2>1. p \in DOMAIN f /\ g[p] = f[p] /\ Len(p) \in Nat
    BY <1>1, <1>2, <1>4, <1>7
  <2>2. CASE Len(p) < n - 1
    BY <1>1, <1>2, <1>7, <2>1, <2>2
  <2>3. CASE Len(p) = n - 1
    <3>1. f[p] \in Page /\ i \in DOMAIN Child[f[p]]
      BY <1>1, <1>7, <2>1
    <3>2. Level[f[p]] > 0
      BY <3>1, ChildFacts
    <3>3. p \in inner
      BY <2>1, <2>3, <3>2
    <3>4. Append(p, i) \in below
      BY <3>1, <3>3 DEF below
    <3> QED
      BY <1>2, <3>4
  <2> QED
    BY <1>7, <2>1, <2>2, <2>3
<1>8. Upto(g, root, n)
  BY <1>5, <1>6, <1>7 DEF Upto
<1> QED
  BY <1>8 DEF g

LEMMA LevelsUpto ==
  ASSUME NEW t, Root[t] \in Page, NEW n \in Nat, NEW g, Levels(g, t, n), NEW m \in 0..n
  PROVE  Upto(g[m], Root[t], m)
<1>1. \A k \in 0..n : g[k] = IF k = 0 THEN [p \in {<<>>} |-> Root[t]] ELSE Grow(g[k-1], k)
  BY DEF Levels
<1> DEFINE S == {k \in 0..n : ~Upto(g[k], Root[t], k)}
<1>2. SUFFICES ASSUME S # {} PROVE FALSE
  OBVIOUS
<1>3. PICK k \in S : \A j \in S : k <= j
  <2>1. S \in SUBSET Nat
    OBVIOUS
  <2> QED
    BY <1>2, <2>1, Least
<1>4. CASE k = 0
  <2> DEFINE f == [p \in {<<>>} |-> Root[t]]
  <2>1. DOMAIN f = {<<>>} /\ f[<<>>] = Root[t] /\ <<>> \in Seq(Nat) /\ Len(<<>>) = 0
    OBVIOUS
  <2>2. Level[Root[t]] \in Nat
    BY PagesAssumption
  <2>3. g[0] = f
    BY <1>1
  <2> HIDE DEF f
  <2>4. Hangs(f, Root[t])
    BY <2>1, <2>2 DEF Hangs
  <2>5. Upto(f, Root[t], 0)
    BY <2>1, <2>4 DEF Upto
  <2> QED
    BY <1>3, <1>4, <2>3, <2>5
<1>5. CASE k # 0
  <2>1. k \in Nat \ {0} /\ k - 1 \in 0..n /\ k - 1 \notin S
    BY <1>3, <1>5
  <2>2. Upto(g[k-1], Root[t], k - 1)
    BY <2>1
  <2>3. Upto(Grow(g[k-1], k), Root[t], k)
    BY <2>1, <2>2, GrowUpto
  <2> QED
    BY <1>1, <1>3, <1>5, <2>3
<1> QED
  BY <1>4, <1>5

\* Image: a page for each path of child indices, and a path for each child.
LEMMA ImageFacts ==
  ASSUME NEW t \in Trees
  PROVE  /\ Hangs(Image[t], Root[t])
         /\ \A p \in DOMAIN Image[t] : \A i \in DOMAIN Child[Image[t][p]] :
               /\ Append(p, i) \in DOMAIN Image[t]
               /\ Image[t][Append(p, i)] = Child[Image[t][p]][i]
<1> DEFINE n == Level[Root[t]]
<1>1. Root[t] \in Page /\ n \in Nat
  BY PagesAssumption
<1> DEFINE at == CHOOSE g : Levels(g, t, n)
<1>2. Levels(at, t, n)
  BY <1>1, LevelsExists
<1>3. Image[t] = at[n]
  BY DEF Image, Levels, Grow
<1>4. Upto(Image[t], Root[t], n)
  <2> HIDE DEF at, n
  <2>1. n \in 0..n
    BY <1>1
  <2> QED
    BY <1>1, <1>2, <1>3, <2>1, LevelsUpto DEF n
<1>5. Hangs(Image[t], Root[t])
  BY <1>4 DEF Upto
<1>6. ASSUME NEW p \in DOMAIN Image[t], NEW i \in DOMAIN Child[Image[t][p]]
      PROVE  Append(p, i) \in DOMAIN Image[t] /\ Image[t][Append(p, i)] = Child[Image[t][p]][i]
  <2>1. /\ p \in Seq(Nat) /\ Len(p) \in Nat /\ Image[t][p] \in Page
        /\ Level[Image[t][p]] = n - Len(p)
    BY <1>5 DEF Hangs
  <2>2. i \in Nat /\ Level[Image[t][p]] > 0
    BY <2>1, ChildFacts
  <2>3. Append(p, i) \in DOMAIN Image[t]
    <3>1. Len(p) < n
      BY <1>1, <2>1, <2>2
    <3> QED
      BY <1>4, <3>1 DEF Upto
  <2>4. Append(p, i) # <<>> /\ Above(Append(p, i)) = p /\ Last(Append(p, i)) = i
    BY <2>1, <2>2, PathOfChild
  <2> QED
    BY <1>5, <2>3, <2>4 DEF Hangs
<1> QED
  BY <1>5, <1>6

LEMMA ImageOf ==
  ASSUME NEW t \in Trees
  PROVE  /\ DOMAIN Image[t] \in SUBSET Seq(Nat)
         /\ <<>> \in DOMAIN Image[t] /\ Image[t][<<>>] = Root[t]
         /\ \A p \in DOMAIN Image[t] :
               /\ Image[t][p] \in Page /\ Image[t][p] # Zero
               /\ p # <<>> => /\ Above(p) \in DOMAIN Image[t]
                              /\ Level[Image[t][Above(p)]] > 0
                              /\ Last(p) \in DOMAIN Child[Image[t][Above(p)]]
                              /\ Image[t][p] = Child[Image[t][Above(p)]][Last(p)]
<1>1. Zero \notin Page
  BY PagesAssumption
<1>2. Hangs(Image[t], Root[t])
  BY ImageFacts
<1> QED
  BY <1>1, <1>2 DEF Hangs

-----------------------------------------------------------------------------
(* The types, and every page in its place. *)

\* What is built are pages of the file at their paths or Zero pages, each below
\* a page that arrived, and the page to be read is not there yet.
InPlace ==
  /\ \A t \in Trees : \A p \in DOMAIN built[t] : built[t][p] \in {Image[t][p], Zero}
  /\ \A t \in Trees : \A p \in DOMAIN built[t] : p # <<>> =>
        Above(p) \in DOMAIN built[t] /\ built[t][Above(p)] # Zero
  /\ pc = "read" /\ path # <<>> =>
        Above(path) \in DOMAIN built[doing] /\ built[doing][Above(path)] # Zero
  /\ pc = "loop" => path \in DOMAIN built[doing]
  /\ pc = "read" => path \notin DOMAIN built[doing]
  /\ doing = "NBT" => DOMAIN built["BBT"] = {}

Functions ==
  /\ built = [t \in Trees |-> built[t]]
  /\ \A t \in Trees : built[t] = [p \in DOMAIN built[t] |-> built[t][p]]

TInv == TypeOK /\ InPlace /\ Functions

LEMMA WantedIs ==
  ASSUME TInv, pc = "read"
  PROVE  Wanted = Image[doing][path] /\ Wanted \in Page
<1>1. doing \in Trees /\ path \in DOMAIN Image[doing]
  BY DEF TInv, TypeOK
<1>2. CASE path = <<>>
  BY <1>1, <1>2, ImageOf DEF Wanted
<1>3. CASE path # <<>>
  <2>1. built[doing][Above(path)] = Image[doing][Above(path)]
    BY <1>1, <1>3 DEF TInv, InPlace
  <2> QED
    BY <1>1, <1>3, <2>1, ImageOf DEF Wanted
<1> QED
  BY <1>2, <1>3

\* The loop of the page at path: how far it is, and what it has done.
LEMMA LoopFacts ==
  ASSUME TInv, pc = "loop"
  PROVE  LET page == built[doing][path]
         IN  /\ page \in {Image[doing][path], Zero}
             /\ NumSubPages \in Nat
             /\ Append(path, NumSubPages + 1) \notin DOMAIN built[doing]
                  \/ NumSubPages >= Len(ChildrenOf(page))
             /\ NumSubPages # 0 => /\ Append(path, NumSubPages) \in DOMAIN built[doing]
                                   /\ NumSubPages \in DOMAIN ChildrenOf(page)
             /\ \A i \in DOMAIN ChildrenOf(page) :
                   Append(path, i) \in DOMAIN built[doing] => i <= NumSubPages
             /\ Len(ChildrenOf(page)) \in Nat
             /\ DOMAIN ChildrenOf(page) = 1..Len(ChildrenOf(page))
             /\ \A i \in DOMAIN ChildrenOf(page) :
                   /\ page = Image[doing][path] /\ page # Zero
                   /\ i \in DOMAIN Child[Image[doing][path]]
<1> DEFINE page == built[doing][path]
           kids == ChildrenOf(page)
           subs == {i \in DOMAIN kids : Append(path, i) \in DOMAIN built[doing]}
<1>1. doing \in Trees /\ path \in DOMAIN Image[doing] /\ path \in DOMAIN built[doing]
      /\ page \in {Image[doing][path], Zero}
  BY DEF TInv, TypeOK, InPlace
<1>2. Image[doing][path] \in Page /\ Image[doing][path] # Zero
  BY <1>1, ImageOf
<1>3. kids = <<>> \/ (page = Image[doing][path] /\ page # Zero /\ kids = Child[page])
  BY <1>1 DEF ChildrenOf
<1>4. kids \in Seq(Page)
  <2>1. \A p \in Page : Child[p] \in Seq(Page)
    BY PagesAssumption
  <2>2. <<>> \in Seq(Page)
    OBVIOUS
  <2> HIDE DEF kids, page
  <2> QED
    BY <1>2, <1>3, <2>1, <2>2
<1>5. Len(kids) \in Nat /\ DOMAIN kids = 1..Len(kids)
  BY <1>4
<1>6. \A i \in DOMAIN kids : page = Image[doing][path] /\ page # Zero
                               /\ i \in DOMAIN Child[Image[doing][path]]
  <2>1. DOMAIN <<>> = {}
    OBVIOUS
  <2> QED
    BY <1>3, <2>1
<1>7. NumSubPages = IF subs = {} THEN 0 ELSE CHOOSE i \in subs : \A j \in subs : j <= i
  BY DEF NumSubPages
<1> HIDE DEF kids, page
<1>8. subs \in SUBSET (1..Len(kids))
  <2>1. \A i \in subs : i \in 1..Len(kids)
    BY <1>5
  <2> QED
    BY <2>1
<1>9. CASE subs = {}
  <2>1. NumSubPages = 0
    BY <1>7, <1>9
  <2>2. Append(path, 1) \notin DOMAIN built[doing] \/ 0 >= Len(kids)
    BY <1>5, <1>9
  <2> HIDE DEF subs
  <2>3. Append(path, NumSubPages + 1) \notin DOMAIN built[doing] \/ NumSubPages >= Len(kids)
    BY <2>1, <2>2
  <2>4. \A i \in DOMAIN kids : Append(path, i) \in DOMAIN built[doing] => i <= NumSubPages
    BY <1>9 DEF subs
  <2> QED
    BY <1>1, <1>5, <1>6, <2>1, <2>3, <2>4 DEF kids, page
<1>10. CASE subs # {}
  <2>1. \E i \in subs : \A j \in subs : j <= i
    BY <1>5, <1>8, <1>10, Greatest
  <2>2. NumSubPages \in subs /\ \A j \in subs : j <= NumSubPages
    BY <1>7, <1>10, <2>1
  <2>3. NumSubPages \in 1..Len(kids)
    BY <1>8, <2>2
  <2>4. Append(path, NumSubPages + 1) \notin DOMAIN built[doing] \/ NumSubPages >= Len(kids)
    <3>1. NumSubPages + 1 \notin subs
      <4>1. ~(NumSubPages + 1 <= NumSubPages)
        BY <2>3
      <4> QED
        BY <2>2, <4>1
    <3>2. NumSubPages < Len(kids) => NumSubPages + 1 \in DOMAIN kids
      BY <1>5, <2>3
    <3> QED
      BY <1>5, <2>3, <3>1, <3>2
  <2>5. \A i \in DOMAIN kids : Append(path, i) \in DOMAIN built[doing] => i <= NumSubPages
    BY <2>2
  <2>6. Append(path, NumSubPages) \in DOMAIN built[doing] /\ NumSubPages \in DOMAIN kids
    BY <2>2
  <2>7. NumSubPages \in Nat
    BY <2>3
  <2> HIDE DEF subs
  <2> QED
    BY <1>1, <1>5, <1>6, <2>4, <2>5, <2>6, <2>7 DEF kids, page
<1> QED
  BY <1>9, <1>10

\* The next child's path.
LEMMA NextPath ==
  ASSUME TInv, NextChild
  PROVE  /\ path' \in DOMAIN Image[doing] /\ path' # <<>> /\ path' \in Seq(Nat)
         /\ Above(path') = path /\ Last(path') = NumSubPages + 1
         /\ Len(path') = Len(path) + 1 /\ path \in Seq(Nat)
         /\ \A j \in 1..Len(path) : path'[j] = path[j]
         /\ path'[Len(path) + 1] = NumSubPages + 1
         /\ path' \notin DOMAIN built[doing]
         /\ path \in DOMAIN built[doing] /\ built[doing][path] # Zero
         /\ path' = Append(path, NumSubPages + 1) /\ NumSubPages \in Nat
<1> DEFINE kids == ChildrenOf(built[doing][path])
<1>1. /\ pc = "loop" /\ NumSubPages < Len(kids) /\ path' = Append(path, NumSubPages + 1)
      /\ doing \in Trees /\ path \in DOMAIN Image[doing] /\ path \in DOMAIN built[doing]
  BY DEF NextChild, TInv, TypeOK, InPlace
<1>2. /\ NumSubPages \in Nat /\ Len(kids) \in Nat /\ DOMAIN kids = 1..Len(kids)
      /\ Append(path, NumSubPages + 1) \notin DOMAIN built[doing] \/ NumSubPages >= Len(kids)
      /\ \A i \in DOMAIN kids :
                   /\ built[doing][path] # Zero
                   /\ i \in DOMAIN Child[Image[doing][path]]
  BY <1>1, LoopFacts
<1> HIDE DEF kids
<1>3. NumSubPages + 1 \in DOMAIN kids /\ NumSubPages + 1 \in Nat
  BY <1>1, <1>2
<1>4. path \in Seq(Nat)
  BY <1>1, ImageOf
<1>5. path' \in DOMAIN Image[doing]
  BY <1>1, <1>2, <1>3, ImageFacts
<1>6. path' \notin DOMAIN built[doing]
  BY <1>1, <1>2
<1>7. /\ path' # <<>> /\ path' \in Seq(Nat) /\ Above(path') = path
      /\ Last(path') = NumSubPages + 1 /\ Len(path') = Len(path) + 1
      /\ \A j \in 1..Len(path) : path'[j] = path[j]
      /\ path'[Len(path) + 1] = NumSubPages + 1
  BY <1>1, <1>3, <1>4, PathOfChild
<1> QED
  BY <1>1, <1>2, <1>3, <1>4, <1>5, <1>6, <1>7

\* What reading adds.
LEMMA ReadFacts ==
  ASSUME TInv, ReadPage, pc' # "aborted"
  PROVE  /\ pc = "read" /\ pc' = "loop" /\ (assertsOn => ~fail')
         /\ built' = [t \in Trees |-> built'[t]]
         /\ \A t \in Trees : t # doing => built'[t] = built[t]
         /\ built'[doing] = [p \in DOMAIN built'[doing] |-> built'[doing][p]]
         /\ DOMAIN built'[doing] = DOMAIN built[doing] \cup {path}
         /\ \A p \in DOMAIN built[doing] : p # path => built'[doing][p] = built[doing][p]
         /\ built'[doing][path] \in {Image[doing][path], Zero}
         /\ built'[doing][path] = Zero <=> fail'
         /\ fail => fail'
<1> DEFINE arrived == Arrives(Wanted)
           page == IF arrived THEN Wanted ELSE Zero
           old == built[doing]
           new == [p \in DOMAIN old \cup {path} |-> IF p = path THEN page ELSE old[p]]
<1>1. /\ pc = "read" /\ Asserted(arrived) /\ pc' = "loop" /\ fail' = ~arrived
      /\ built' = [built EXCEPT ![doing] = new]
  BY DEF ReadPage
<1>2. doing \in Trees /\ DOMAIN built = Trees /\ built = [t \in Trees |-> built[t]]
  BY DEF TInv, TypeOK, Functions
<1>3. Wanted = Image[doing][path] /\ Wanted \in Page
  BY <1>1, WantedIs
<1>4. built' = [t \in Trees |-> IF t = doing THEN new ELSE built[t]]
  BY <1>1, <1>2
<1>5. built'[doing] = new /\ \A t \in Trees : t # doing => built'[t] = built[t]
  BY <1>2, <1>4
<1>6. built' = [t \in Trees |-> built'[t]]
  BY <1>4
<1>7. page \in {Image[doing][path], Zero} /\ (page = Zero <=> ~arrived)
  BY <1>3, PagesAssumption
<1>8. fail => ~arrived
  BY DEF Arrives
<1>9. assertsOn => arrived
  BY <1>1 DEF Asserted
<1> HIDE DEF page, arrived, old
<1>10. /\ DOMAIN new = DOMAIN old \cup {path} /\ new[path] = page
       /\ \A p \in DOMAIN old : p # path => new[p] = old[p]
       /\ new = [p \in DOMAIN new |-> new[p]]
  OBVIOUS
<1> HIDE DEF new
<1>11. /\ built'[doing] = [p \in DOMAIN built'[doing] |-> built'[doing][p]]
       /\ DOMAIN built'[doing] = DOMAIN built[doing] \cup {path}
       /\ \A p \in DOMAIN built[doing] : p # path => built'[doing][p] = built[doing][p]
       /\ built'[doing][path] = page
  BY <1>5, <1>10 DEF old
<1>12. (built'[doing][path] = Zero <=> fail') /\ (fail => fail') /\ (assertsOn => ~fail')
  BY <1>1, <1>7, <1>8, <1>9, <1>11
<1> QED
  BY <1>1, <1>5, <1>6, <1>7, <1>11, <1>12

LEMMA InitTInv == Init => TInv
<1> SUFFICES ASSUME Init PROVE TInv
  OBVIOUS
<1>1. /\ assertsOn \in BOOLEAN /\ built = [t \in Trees |-> <<>>] /\ fileLen = FileSize
      /\ fail = FALSE /\ pc = "read" /\ doing = "NBT" /\ path = <<>>
  BY DEF Init
<1>2. \A t \in Trees : built[t] = <<>> /\ DOMAIN built[t] = {}
  BY <1>1
<1>3. <<>> = [p \in DOMAIN <<>> |-> <<>>[p]]
  OBVIOUS
<1>4. doing \in Trees /\ path \in DOMAIN Image[doing]
  BY <1>1, ImageOf DEF Trees
<1>5. fileLen \in 0..FileSize
  BY <1>1, PagesAssumption
<1>6. TypeOK
  BY <1>1, <1>2, <1>4, <1>5 DEF TypeOK
<1>7. InPlace
  <2>1. DOMAIN built["BBT"] = {} /\ DOMAIN built["NBT"] = {}
    BY <1>2 DEF Trees
  <2> QED
    BY <1>1, <1>2, <2>1 DEF InPlace
<1>8. Functions
  BY <1>1, <1>2, <1>3 DEF Functions
<1> QED
  BY <1>6, <1>7, <1>8 DEF TInv

LEMMA NextTInv == TInv /\ [Next]_vars => TInv'
<1> SUFFICES ASSUME TInv, [Next]_vars PROVE TInv'
  OBVIOUS
<1>0. /\ assertsOn \in BOOLEAN /\ DOMAIN built = Trees
      /\ \A t \in Trees : /\ DOMAIN built[t] \subseteq DOMAIN Image[t]
                          /\ \A p \in DOMAIN built[t] : built[t][p] \in Page \cup {Zero}
      /\ fileLen \in 0..FileSize /\ fail \in BOOLEAN
      /\ pc \in {"read", "loop", "verify", "ready", "aborted"}
      /\ doing \in Trees /\ path \in DOMAIN Image[doing]
      /\ built = [t \in Trees |-> built[t]]
      /\ \A t \in Trees : built[t] = [p \in DOMAIN built[t] |-> built[t][p]]
  BY DEF TInv, TypeOK, Functions
<1>1. /\ \A t \in Trees : \A p \in DOMAIN built[t] : built[t][p] \in {Image[t][p], Zero}
      /\ \A t \in Trees : \A p \in DOMAIN built[t] : p # <<>> =>
            Above(p) \in DOMAIN built[t] /\ built[t][Above(p)] # Zero
      /\ pc = "read" /\ path # <<>> =>
            Above(path) \in DOMAIN built[doing] /\ built[doing][Above(path)] # Zero
      /\ pc = "loop" => path \in DOMAIN built[doing]
      /\ pc = "read" => path \notin DOMAIN built[doing]
      /\ doing = "NBT" => DOMAIN built["BBT"] = {}
  BY DEF TInv, InPlace
<1>2. CASE ReadPage
  <2>1. /\ pc = "read" /\ UNCHANGED <<assertsOn, fileLen, doing, path>>
    BY <1>2 DEF ReadPage
  <2>2. CASE pc' = "aborted"
    <3>1. UNCHANGED <<built, fail>>
      <4>1. pc' # "loop"
        BY <2>2
      <4> QED
        BY <1>2, <4>1 DEF ReadPage
    <3>2. TypeOK'
      BY <1>0, <2>1, <2>2, <3>1 DEF TypeOK
    <3>3. InPlace'
      BY <1>1, <2>1, <2>2, <3>1 DEF InPlace
    <3>4. Functions'
      BY <1>0, <3>1 DEF Functions
    <3> QED
      BY <3>2, <3>3, <3>4 DEF TInv
  <2>3. CASE pc' # "aborted"
    <3>1. /\ pc' = "loop"
          /\ built' = [t \in Trees |-> built'[t]]
          /\ \A t \in Trees : t # doing => built'[t] = built[t]
          /\ built'[doing] = [p \in DOMAIN built'[doing] |-> built'[doing][p]]
          /\ DOMAIN built'[doing] = DOMAIN built[doing] \cup {path}
          /\ \A p \in DOMAIN built[doing] : p # path => built'[doing][p] = built[doing][p]
          /\ built'[doing][path] \in {Image[doing][path], Zero}
      BY <1>2, <2>3, ReadFacts
    <3>2. fail' \in BOOLEAN
      BY <1>2, <2>3 DEF ReadPage
    <3>3. \A p \in DOMAIN built[doing] : built'[doing][p] = built[doing][p]
      BY <1>1, <2>1, <3>1
    <3>4. \A t \in Trees : \A p \in DOMAIN built'[t] :
             p \in DOMAIN Image[t] /\ built'[t][p] \in {Image[t][p], Zero}
      BY <1>0, <1>1, <3>1, <3>3
    <3>5. \A t \in Trees : \A p \in DOMAIN built[t] :
             p \in DOMAIN built'[t] /\ built'[t][p] = built[t][p]
      BY <3>1, <3>3
    <3>6. TypeOK'
      <4>1. \A t \in Trees : DOMAIN built'[t] \subseteq DOMAIN Image[t]
        BY <3>4
      <4>2. \A t \in Trees : \A p \in DOMAIN built'[t] : built'[t][p] \in Page \cup {Zero}
        BY <3>4, ImageOf
      <4>3. DOMAIN built' = Trees
        BY <3>1
      <4>4. pc' \in {"read", "loop", "verify", "ready", "aborted"}
        BY <3>1
      <4> QED
        BY <1>0, <2>1, <3>2, <4>1, <4>2, <4>3, <4>4 DEF TypeOK
    <3>7. InPlace'
      <4>1. \A t \in Trees : \A p \in DOMAIN built'[t] : p # <<>> =>
               Above(p) \in DOMAIN built'[t] /\ built'[t][Above(p)] # Zero
        <5> SUFFICES ASSUME NEW t \in Trees, NEW p \in DOMAIN built'[t], p # <<>>
                     PROVE  Above(p) \in DOMAIN built'[t] /\ built'[t][Above(p)] # Zero
          OBVIOUS
        <5>1. Above(p) \in DOMAIN built[t] /\ built[t][Above(p)] # Zero
          BY <1>1, <2>1, <3>1
        <5> QED
          BY <3>5, <5>1
      <4>2. path' \in DOMAIN built'[doing']
        BY <2>1, <3>1
      <4>3. doing' = "NBT" => DOMAIN built'["BBT"] = {}
        BY <1>1, <2>1, <3>1 DEF Trees
      <4> QED
        BY <3>1, <3>4, <4>1, <4>2, <4>3 DEF InPlace
    <3>8. Functions'
      <4>1. \A t \in Trees : built'[t] = [p \in DOMAIN built'[t] |-> built'[t][p]]
        BY <1>0, <3>1
      <4> QED
        BY <3>1, <4>1 DEF Functions
    <3> QED
      BY <3>6, <3>7, <3>8 DEF TInv
  <2> QED
    BY <2>2, <2>3
<1>3. CASE NextChild
  <2>1. /\ pc = "loop" /\ pc' = "read" /\ UNCHANGED <<assertsOn, built, fileLen, fail, doing>>
    BY <1>3 DEF NextChild
  <2>2. /\ path' \in DOMAIN Image[doing] /\ path' # <<>> /\ Above(path') = path
        /\ path' \notin DOMAIN built[doing]
        /\ path \in DOMAIN built[doing] /\ built[doing][path] # Zero
    BY <1>3, NextPath
  <2>3. TypeOK'
    BY <1>0, <2>1, <2>2 DEF TypeOK
  <2>4. InPlace'
    BY <1>1, <2>1, <2>2 DEF InPlace
  <2>5. Functions'
    BY <1>0, <2>1 DEF Functions
  <2> QED
    BY <2>3, <2>4, <2>5 DEF TInv
<1>4. CASE Return
  <2>1. /\ pc = "loop" /\ UNCHANGED <<assertsOn, built, fileLen, fail>>
    BY <1>4 DEF Return
  <2>2. Functions'
    BY <1>0, <2>1 DEF Functions
  <2>3. CASE path # <<>>
    <3>1. path' = Above(path) /\ UNCHANGED <<pc, doing>>
      BY <1>4, <2>3 DEF Return
    <3>2. Above(path) \in DOMAIN built[doing] /\ Above(path) \in DOMAIN Image[doing]
      BY <1>0, <1>1, <2>1, <2>3
    <3>3. TypeOK'
      BY <1>0, <2>1, <3>1, <3>2 DEF TypeOK
    <3>4. InPlace'
      BY <1>1, <2>1, <3>1, <3>2 DEF InPlace
    <3> QED
      BY <2>2, <3>3, <3>4 DEF TInv
  <2>4. CASE path = <<>> /\ doing = "NBT"
    <3>1. path' = path /\ doing' = "BBT" /\ pc' = "read"
      BY <1>4, <2>4 DEF Return
    <3>2. doing' \in Trees /\ path' \in DOMAIN Image[doing']
      BY <2>4, <3>1, ImageOf DEF Trees
    <3>3. path' \notin DOMAIN built[doing']
      BY <1>1, <2>4, <3>1
    <3>4. TypeOK'
      BY <1>0, <2>1, <3>1, <3>2 DEF TypeOK
    <3>5. InPlace'
      BY <1>1, <2>1, <2>4, <3>1, <3>3 DEF InPlace
    <3> QED
      BY <2>2, <3>4, <3>5 DEF TInv
  <2>5. CASE path = <<>> /\ doing # "NBT"
    <3>1. path' = path /\ doing' = doing /\ pc' = "verify"
      BY <1>4, <2>5 DEF Return
    <3>2. TypeOK'
      BY <1>0, <2>1, <3>1 DEF TypeOK
    <3>3. InPlace'
      BY <1>1, <2>1, <3>1 DEF InPlace
    <3> QED
      BY <2>2, <3>2, <3>3 DEF TInv
  <2> QED
    BY <2>3, <2>4, <2>5
<1>5. CASE Verify
  <2>1. /\ pc' \in {"ready", "aborted"}
        /\ UNCHANGED <<assertsOn, built, fileLen, fail, doing, path>>
    BY <1>5 DEF Verify
  <2>2. TypeOK'
    BY <1>0, <2>1 DEF TypeOK
  <2>3. InPlace'
    BY <1>1, <2>1 DEF InPlace
  <2>4. Functions'
    BY <1>0, <2>1 DEF Functions
  <2> QED
    BY <2>2, <2>3, <2>4 DEF TInv
<1>6. CASE \E n \in 0..FileSize : Truncate(n)
  <2>1. fileLen' \in 0..FileSize /\ UNCHANGED <<assertsOn, built, fail, pc, doing, path>>
    BY <1>6 DEF Truncate
  <2>2. TypeOK'
    BY <1>0, <2>1 DEF TypeOK
  <2>3. InPlace'
    BY <1>1, <2>1 DEF InPlace
  <2>4. Functions'
    BY <1>0, <2>1 DEF Functions
  <2> QED
    BY <2>2, <2>3, <2>4 DEF TInv
<1>7. CASE UNCHANGED vars
  <2>1. UNCHANGED <<assertsOn, built, fileLen, fail, pc, doing, path>>
    BY <1>7 DEF vars
  <2>2. TypeOK'
    BY <1>0, <2>1 DEF TypeOK
  <2>3. InPlace'
    BY <1>1, <2>1 DEF InPlace
  <2>4. Functions'
    BY <1>0, <2>1 DEF Functions
  <2> QED
    BY <2>2, <2>3, <2>4 DEF TInv
<1> QED
  BY <1>2, <1>3, <1>4, <1>5, <1>6, <1>7 DEF Next

\* The types: what is built lies at paths that the file's tree has, in every
\* interleaving with truncations, and a page is a page of the file or Zero.
THEOREM TypeCorrect == Spec => []TypeOK
<1>1. TInv => TypeOK
  BY DEF TInv
<1> QED
  BY <1>1, InitTInv, NextTInv, PTL DEF Spec

-----------------------------------------------------------------------------
(* A short read takes all that is read after it along. *)

LEMMA PathsOfBuilt ==
  ASSUME TInv
  PROVE  /\ doing \in Trees /\ path \in DOMAIN Image[doing] /\ path \in Seq(Nat)
         /\ DOMAIN path = 1..Len(path) /\ Len(path) \in Nat
         /\ \A k \in DOMAIN path : path[k] \in Nat
         /\ \A t \in Trees :
               /\ DOMAIN built[t] \in SUBSET Seq(Nat) /\ DOMAIN built[t] \subseteq DOMAIN Image[t]
               /\ \A p \in DOMAIN built[t] : p # <<>> => Above(p) \in DOMAIN built[t]
<1>1. /\ doing \in Trees /\ path \in DOMAIN Image[doing]
      /\ \A t \in Trees : DOMAIN built[t] \subseteq DOMAIN Image[t]
  BY DEF TInv, TypeOK
<1>2. \A t \in Trees : DOMAIN built[t] \in SUBSET Seq(Nat)
  BY <1>1, ImageOf
<1>3. path \in Seq(Nat)
  BY <1>1, ImageOf
<1>4. DOMAIN path = 1..Len(path) /\ Len(path) \in Nat /\ \A k \in DOMAIN path : path[k] \in Nat
  BY <1>3, ElementOfSeq
<1>5. \A t \in Trees : \A p \in DOMAIN built[t] : p # <<>> => Above(p) \in DOMAIN built[t]
  BY DEF TInv, InPlace
<1> QED
  BY <1>1, <1>2, <1>3, <1>4, <1>5

\* No page has been read that comes after the one at path, or below it if that
\* is still to be read.
NoneAhead ==
  pc \in {"read", "loop"} =>
     \A q \in DOMAIN built[doing] : \A k \in DOMAIN path \cap DOMAIN q :
        (\A j \in 1..(k-1) : path[j] = q[j]) => q[k] <= path[k]

ZeroIsFail ==
  /\ \A t \in Trees : \A p \in DOMAIN built[t] : built[t][p] = Zero => fail
  /\ assertsOn => ~fail

OInv == ZeroIsFail /\ NoneAhead /\ LossIsATail

LEMMA NotBefore ==
  ASSUME TInv, NoneAhead, pc = "read", NEW q \in DOMAIN built[doing]
  PROVE  ~Before(path, q)
<1>1. /\ doing \in Trees /\ path \in Seq(Nat) /\ DOMAIN path = 1..Len(path)
      /\ Len(path) \in Nat /\ \A k \in DOMAIN path : path[k] \in Nat
      /\ DOMAIN built[doing] \in SUBSET Seq(Nat)
      /\ \A p \in DOMAIN built[doing] : p # <<>> => Above(p) \in DOMAIN built[doing]
      /\ q \in Seq(Nat)
  BY PathsOfBuilt
<1>2. path \notin DOMAIN built[doing]
  BY DEF TInv, InPlace
<1>3. ASSUME Len(path) < Len(q), SubSeq(q, 1, Len(path)) = path
      PROVE  FALSE
  <2>1. Len(path) \in 0..Len(q)
    BY <1>1, <1>3
  <2>2. SubSeq(q, 1, Len(path)) \in DOMAIN built[doing]
    BY <1>1, <2>1, PrefixClosed
  <2> QED
    BY <1>2, <1>3, <2>2
<1>4. ASSUME NEW k \in DOMAIN path \cap DOMAIN q,
             path[k] < q[k], \A j \in 1..(k-1) : path[j] = q[j]
      PROVE  FALSE
  <2>1. q[k] <= path[k]
    BY <1>4 DEF NoneAhead
  <2>2. path[k] \in Nat /\ q[k] \in Nat
    <3>1. k \in 1..Len(q)
      BY <1>1
    <3> QED
      BY <1>1, <3>1, ElementOfSeq
  <2> QED
    BY <1>4, <2>1, <2>2
<1> QED
  BY <1>3, <1>4 DEF Before

LEMMA InitOInv == Init => OInv
<1> SUFFICES ASSUME Init PROVE OInv
  OBVIOUS
<1>1. \A t \in Trees : DOMAIN built[t] = {}
  BY DEF Init
<1>2. fail = FALSE /\ doing \in Trees
  BY DEF Init, Trees
<1>3. DOMAIN built["NBT"] = {} /\ DOMAIN built["BBT"] = {} /\ DOMAIN built[doing] = {}
  BY <1>1, <1>2 DEF Trees
<1> QED
  BY <1>1, <1>2, <1>3 DEF OInv, ZeroIsFail, NoneAhead, LossIsATail

LEMMA ReadOInv ==
  ASSUME TInv, OInv, ReadPage, pc' # "aborted"
  PROVE  OInv'
<1>1. /\ pc = "read" /\ pc' = "loop" /\ (assertsOn => ~fail')
      /\ \A t \in Trees : t # doing => built'[t] = built[t]
      /\ DOMAIN built'[doing] = DOMAIN built[doing] \cup {path}
      /\ built'[doing][path] = Zero <=> fail'
      /\ fail => fail'
      /\ \A p \in DOMAIN built[doing] : p # path => built'[doing][p] = built[doing][p]
  BY ReadFacts
<1>2. UNCHANGED <<assertsOn, doing, path>>
  BY DEF ReadPage
<1>3. /\ path \notin DOMAIN built[doing] /\ doing \in Trees
      /\ doing = "NBT" => DOMAIN built["BBT"] = {}
  BY <1>1 DEF TInv, TypeOK, InPlace
<1>4. /\ \A t \in Trees : \A p \in DOMAIN built[t] : built[t][p] = Zero => fail
      /\ \A t \in Trees : \A p, q \in DOMAIN built[t] :
            (built[t][p] = Zero /\ Before(p, q)) => built[t][q] = Zero
      /\ (\E p \in DOMAIN built["NBT"] : built["NBT"][p] = Zero)
            => \A p \in DOMAIN built["BBT"] : built["BBT"][p] = Zero
  BY DEF OInv, ZeroIsFail, LossIsATail
<1>5. ZeroIsFail'
  BY <1>1, <1>2, <1>4 DEF ZeroIsFail
<1>6. NoneAhead'
  <2>1. \A k \in DOMAIN path : path[k] <= path[k]
    BY PathsOfBuilt
  <2>2. \A q \in DOMAIN built[doing] : \A k \in DOMAIN path \cap DOMAIN q :
          (\A j \in 1..(k-1) : path[j] = q[j]) => q[k] <= path[k]
    BY <1>1 DEF OInv, NoneAhead
  <2> QED
    BY <1>1, <1>2, <2>1, <2>2 DEF NoneAhead
<1>7. ASSUME NEW t \in Trees, NEW p \in DOMAIN built'[t], NEW q \in DOMAIN built'[t],
             built'[t][p] = Zero, Before(p, q)
      PROVE  built'[t][q] = Zero
  <2>1. CASE t # doing
    BY <1>1, <1>4, <1>7, <2>1
  <2>2. CASE t = doing /\ q = path
    <3>1. CASE p = path
      BY <1>7, <2>2, <3>1
    <3>2. CASE p # path
      BY <1>1, <1>4, <1>7, <2>2, <3>2
    <3> QED
      BY <3>1, <3>2
  <2>3. CASE t = doing /\ q # path
    <3>1. q \in DOMAIN built[doing]
      BY <1>1, <2>3
    <3>2. p # path
      BY <1>1, <1>7, <3>1, NotBefore DEF OInv
    <3> QED
      BY <1>1, <1>4, <1>7, <2>3, <3>1, <3>2
  <2> QED
    BY <2>1, <2>2, <2>3
<1>8. ASSUME NEW p \in DOMAIN built'["NBT"], built'["NBT"][p] = Zero,
             NEW q \in DOMAIN built'["BBT"]
      PROVE  built'["BBT"][q] = Zero
  <2>1. CASE doing = "NBT"
    BY <1>1, <1>3, <2>1 DEF Trees
  <2>2. CASE doing = "BBT"
    <3>1. p \in DOMAIN built["NBT"] /\ built["NBT"][p] = Zero
      BY <1>1, <1>8, <2>2 DEF Trees
    <3>2. fail
      BY <1>4, <3>1 DEF Trees
    <3> QED
      BY <1>1, <1>4, <2>2, <3>1, <3>2
  <2> QED
    BY <1>3, <2>1, <2>2 DEF Trees
<1>9. LossIsATail'
  BY <1>7, <1>8 DEF LossIsATail, Before
<1> QED
  BY <1>5, <1>6, <1>9 DEF OInv

LEMMA NextChildAhead ==
  ASSUME TInv, NoneAhead, NextChild
  PROVE  NoneAhead'
<1>1. /\ path' \in Seq(Nat) /\ Len(path') = Len(path) + 1 /\ path \in Seq(Nat)
      /\ \A j \in 1..Len(path) : path'[j] = path[j]
      /\ path'[Len(path) + 1] = NumSubPages + 1 /\ NumSubPages \in Nat
  BY NextPath
<1>2. pc = "loop" /\ UNCHANGED <<built, doing>>
  BY DEF NextChild
<1>3. /\ doing \in Trees /\ DOMAIN path = 1..Len(path) /\ Len(path) \in Nat
      /\ DOMAIN built[doing] \in SUBSET Seq(Nat) /\ DOMAIN built[doing] \subseteq DOMAIN Image[doing]
      /\ \A p \in DOMAIN built[doing] : p # <<>> => Above(p) \in DOMAIN built[doing]
  BY PathsOfBuilt
<1>4. ASSUME NEW q \in DOMAIN built[doing], NEW k \in DOMAIN path' \cap DOMAIN q,
             \A j \in 1..(k-1) : path'[j] = q[j]
      PROVE  q[k] <= path'[k]
  <2>1. q \in Seq(Nat) /\ k \in 1..Len(q) /\ k \in 1..(Len(path) + 1)
    BY <1>1, <1>3
  <2>2. CASE k \in 1..Len(path)
    <3>1. \A j \in 1..(k-1) : path[j] = q[j]
      BY <1>1, <1>3, <1>4, <2>2
    <3>2. q[k] <= path[k]
      BY <1>2, <1>3, <2>1, <2>2, <3>1 DEF NoneAhead
    <3> QED
      BY <1>1, <2>2, <3>2
  <2>3. CASE k = Len(path) + 1
    <3> DEFINE s == SubSeq(q, 1, k)
    <3>1. k \in 0..Len(q) /\ k # 0 /\ k - 1 = Len(path) /\ k - 1 \in 0..Len(q)
      BY <1>3, <2>1, <2>3
    <3>2. s \in DOMAIN built[doing]
      BY <1>3, <3>1, PrefixClosed
    <3>3. s # <<>> /\ Above(s) = SubSeq(q, 1, k - 1) /\ Last(s) = q[k]
      BY <2>1, <3>1, PathPrefix
    <3>4. SubSeq(q, 1, k - 1) = path
      <4> DEFINE r == SubSeq(q, 1, k - 1)
      <4>1. r \in Seq(Nat) /\ Len(r) = k - 1 /\ \A j \in 1..(k-1) : r[j] = q[j]
        BY <2>1, <3>1, PathPrefix
      <4>2. \A j \in 1..Len(path) : r[j] = path[j]
        BY <1>1, <1>4, <3>1, <4>1
      <4> HIDE DEF r
      <4>3. r = path
        BY <1>1, <3>1, <4>1, <4>2, SeqEqual
      <4> QED
        BY <4>3 DEF r
    <3> HIDE DEF s
    <3>5. s \in DOMAIN Image[doing] /\ s \in Seq(Nat)
      BY <1>3, <3>2
    <3>6. Append(path, q[k]) \in DOMAIN built[doing]
      <4>1. s = Append(Above(s), Last(s))
        BY <3>3, <3>5, PathAbove
      <4> QED
        BY <3>2, <3>3, <3>4, <4>1
    <3>7. q[k] \in DOMAIN ChildrenOf(built[doing][path])
      <4>1. /\ Image[doing][path] \in Page /\ Level[Image[doing][path]] > 0
            /\ q[k] \in DOMAIN Child[Image[doing][path]]
        <5>1. Above(s) = path /\ Last(s) = q[k]
          BY <3>3, <3>4
        <5>2. /\ Above(s) \in DOMAIN Image[doing] /\ Level[Image[doing][Above(s)]] > 0
              /\ Last(s) \in DOMAIN Child[Image[doing][Above(s)]]
          BY <1>3, <3>3, <3>5, ImageOf
        <5>3. Image[doing][Above(s)] \in Page
          BY <1>3, <5>2, ImageOf
        <5> QED
          BY <5>1, <5>2, <5>3
      <4>2. path \in DOMAIN built[doing] /\ built[doing][path] # Zero
            /\ built[doing][path] = Image[doing][path]
        <5>1. Above(s) \in DOMAIN built[doing] /\ built[doing][Above(s)] # Zero
          BY <1>3, <3>2, <3>3 DEF TInv, InPlace
        <5>2. path \in DOMAIN built[doing] /\ built[doing][path] # Zero
          BY <3>3, <3>4, <5>1
        <5> QED
          BY <1>3, <5>2 DEF TInv, InPlace
      <4> QED
        BY <4>1, <4>2 DEF ChildrenOf
    <3>8. q[k] <= NumSubPages
      BY <1>2, <3>6, <3>7, LoopFacts
    <3>9. q[k] \in Nat
      BY <2>1, ElementOfSeq
    <3> QED
      BY <1>1, <2>3, <3>8, <3>9
  <2> QED
    BY <1>3, <2>1, <2>2, <2>3
<1> QED
  BY <1>2, <1>4 DEF NoneAhead

LEMMA NextOInv == TInv /\ OInv /\ [Next]_vars => OInv'
<1> SUFFICES ASSUME TInv, OInv, [Next]_vars PROVE OInv'
  OBVIOUS
<1>1. ASSUME UNCHANGED <<assertsOn, built, fail>>
      PROVE  ZeroIsFail' /\ LossIsATail'
  <2>1. ZeroIsFail'
    BY <1>1 DEF OInv, ZeroIsFail
  <2>2. LossIsATail'
    BY <1>1 DEF OInv, LossIsATail, Before
  <2> QED
    BY <2>1, <2>2
<1>2. ASSUME UNCHANGED <<assertsOn, built, fail, doing, path>>,
             pc' \in {"read", "loop"} => pc \in {"read", "loop"}
      PROVE  OInv'
  <2>1. NoneAhead'
    BY <1>2 DEF OInv, NoneAhead
  <2> QED
    BY <1>1, <1>2, <2>1 DEF OInv
<1>3. CASE ReadPage
  <2>1. CASE pc' = "aborted"
    <3>1. UNCHANGED <<assertsOn, built, fail, doing, path>>
      <4>1. pc' # "loop"
        BY <2>1
      <4> QED
        BY <1>3, <4>1 DEF ReadPage
    <3> QED
      BY <1>2, <2>1, <3>1
  <2> QED
    BY <1>3, <2>1, ReadOInv
<1>4. CASE NextChild
  <2>1. UNCHANGED <<assertsOn, built, fail>>
    BY <1>4 DEF NextChild
  <2> QED
    BY <1>1, <1>4, <2>1, NextChildAhead DEF OInv
<1>5. CASE Return
  <2>1. pc = "loop" /\ UNCHANGED <<assertsOn, built, fail>>
    BY <1>5 DEF Return
  <2>2. /\ path \in Seq(Nat) /\ DOMAIN path = 1..Len(path) /\ Len(path) \in Nat
    BY PathsOfBuilt
  <2>3. CASE path # <<>>
    <3>1. path' = Above(path) /\ UNCHANGED <<pc, doing>>
      BY <1>5, <2>3 DEF Return
    <3>2. /\ path' \in Seq(Nat) /\ Len(path') = Len(path) - 1
          /\ \A j \in 1..(Len(path) - 1) : path'[j] = path[j]
      BY <2>2, <2>3, <3>1, PathAbove
    <3>3. DOMAIN path' = 1..(Len(path) - 1) /\ DOMAIN path' \subseteq DOMAIN path
      BY <2>2, <3>2
    <3>4. \A q \in DOMAIN built[doing] : \A k \in DOMAIN path' \cap DOMAIN q :
            (\A j \in 1..(k-1) : path'[j] = q[j]) => q[k] <= path'[k]
      <4> SUFFICES ASSUME NEW q \in DOMAIN built[doing], NEW k \in DOMAIN path' \cap DOMAIN q,
                          \A j \in 1..(k-1) : path'[j] = q[j]
                   PROVE  q[k] <= path'[k]
        OBVIOUS
      <4>1. k \in DOMAIN path \cap DOMAIN q /\ k \in 1..(Len(path) - 1)
        BY <3>3
      <4>2. path[k] = path'[k] /\ \A j \in 1..(k-1) : path[j] = q[j]
        <5>1. \A j \in 1..(k-1) : j \in 1..(Len(path) - 1) /\ path'[j] = q[j]
          BY <2>2, <4>1
        <5> QED
          BY <3>2, <4>1, <5>1
      <4> QED
        BY <2>1, <4>1, <4>2 DEF OInv, NoneAhead
    <3>5. NoneAhead'
      BY <2>1, <3>1, <3>4 DEF NoneAhead
    <3> QED
      BY <1>1, <2>1, <3>5 DEF OInv
  <2>4. CASE path = <<>> /\ doing = "NBT"
    <3>1. doing' = "BBT"
      BY <1>5, <2>4 DEF Return
    <3>2. DOMAIN built'[doing'] = {}
      BY <2>1, <2>4, <3>1 DEF TInv, InPlace
    <3>3. NoneAhead'
      BY <3>2 DEF NoneAhead
    <3> QED
      BY <1>1, <2>1, <3>3 DEF OInv
  <2>5. CASE path = <<>> /\ doing # "NBT"
    <3>1. pc' = "verify"
      BY <1>5, <2>5 DEF Return
    <3>2. NoneAhead'
      BY <3>1 DEF NoneAhead
    <3> QED
      BY <1>1, <2>1, <3>2 DEF OInv
  <2> QED
    BY <2>3, <2>4, <2>5
<1>6. CASE Verify
  <2>1. UNCHANGED <<assertsOn, built, fail, doing, path>> /\ pc' \in {"ready", "aborted"}
    BY <1>6 DEF Verify
  <2> QED
    BY <1>2, <2>1
<1>7. CASE \E n \in 0..FileSize : Truncate(n)
  <2>1. UNCHANGED <<assertsOn, built, fail, doing, path, pc>>
    BY <1>7 DEF Truncate
  <2> QED
    BY <1>2, <2>1
<1>8. CASE UNCHANGED vars
  <2>1. UNCHANGED <<assertsOn, built, fail, doing, path, pc>>
    BY <1>8 DEF vars
  <2> QED
    BY <1>2, <2>1
<1> QED
  BY <1>3, <1>4, <1>5, <1>6, <1>7, <1>8 DEF Next

\* A page that comes short takes every page read after it along, whatever the
\* shape of the trees, the order of their pages in the file and the truncations:
\* the stream's failbit is never cleared (ZeroIsFail) and reading goes through
\* each tree from left to right (NoneAhead).
THEOREM LossStaysATail == Spec => []LossIsATail
<1>1. TInv /\ OInv /\ [Next]_vars => (TInv /\ OInv)'
  BY NextTInv, NextOInv
<1>2. Init => TInv /\ OInv
  BY InitTInv, InitOInv
<1>3. TInv /\ OInv => LossIsATail
  BY DEF OInv
<1> QED
  BY <1>1, <1>2, <1>3, PTL DEF Spec

-----------------------------------------------------------------------------
(* Nothing is left out. *)

Prefix(r, s) == Len(r) <= Len(s) /\ \A j \in 1..Len(r) : r[j] = s[j]

\* Tree t has been read to its end.
Finished(t) == (t = "NBT" /\ doing = "BBT") \/ pc \in {"verify", "ready"}

\* The children of a page are read in order, and all of them before the page's
\* constructor returns.
NInv ==
  /\ \A t \in Trees : \A p \in DOMAIN built[t] : p # <<>> =>
        \A j \in 1..(Last(p) - 1) : Append(Above(p), j) \in DOMAIN built[t]
  /\ pc = "read" /\ path # <<>> =>
        \A j \in 1..(Last(path) - 1) : Append(Above(path), j) \in DOMAIN built[doing]
  /\ \A t \in Trees : Finished(t) => <<>> \in DOMAIN built[t]
  /\ pc # "aborted" => \A t \in Trees : \A r \in DOMAIN built[t] :
        Finished(t) \/ ~Prefix(r, path) =>
           \A i \in DOMAIN ChildrenOf(built[t][r]) : Append(r, i) \in DOMAIN built[t]

LEMMA InitNInv == Init => NInv
<1> SUFFICES ASSUME Init PROVE NInv
  OBVIOUS
<1>1. pc = "read" /\ path = <<>> /\ doing = "NBT"
  BY DEF Init
<1>2. \A t \in Trees : DOMAIN built[t] = {}
  BY DEF Init
<1>3. \A t \in Trees : ~Finished(t)
  BY <1>1 DEF Finished
<1> QED
  BY <1>1, <1>2, <1>3 DEF NInv

\* A constructor that returns has read all its page's children.
LEMMA ReturnHasAll ==
  ASSUME TInv, NInv, Return, NEW i \in DOMAIN ChildrenOf(built[doing][path])
  PROVE  Append(path, i) \in DOMAIN built[doing]
<1> DEFINE kids == ChildrenOf(built[doing][path])
<1>1. pc = "loop" /\ NumSubPages = Len(kids)
  BY DEF Return
<1>2. /\ NumSubPages \in Nat
      /\ NumSubPages # 0 => Append(path, NumSubPages) \in DOMAIN built[doing]
      /\ DOMAIN kids = 1..Len(kids)
  BY <1>1, LoopFacts
<1>3. i \in 1..NumSubPages
  BY <1>1, <1>2
<1> HIDE DEF kids
<1> DEFINE c == Append(path, NumSubPages)
<1>4. c \in DOMAIN built[doing]
  BY <1>2, <1>3
<1>5. doing \in Trees /\ path \in Seq(Nat)
  BY PathsOfBuilt
<1>6. c # <<>> /\ Above(c) = path /\ Last(c) = NumSubPages
  BY <1>2, <1>5, PathOfChild
<1> HIDE DEF c
<1>7. \A j \in 1..(NumSubPages - 1) : Append(path, j) \in DOMAIN built[doing]
  BY <1>4, <1>5, <1>6 DEF NInv
<1>8. CASE i = NumSubPages
  BY <1>4, <1>8 DEF c
<1>9. CASE i # NumSubPages
  <2>1. i \in 1..(NumSubPages - 1)
    BY <1>2, <1>3, <1>9
  <2> QED
    BY <1>7, <2>1
<1> QED
  BY <1>8, <1>9

LEMMA PrefixOfNext ==
  ASSUME TInv, NextChild, NEW r \in Seq(Nat), Prefix(r, path)
  PROVE  Prefix(r, path')
<1>1. /\ Len(path') = Len(path) + 1 /\ \A j \in 1..Len(path) : path'[j] = path[j]
  BY NextPath
<1>2. Len(path) \in Nat /\ Len(r) \in Nat
  BY PathsOfBuilt
<1> QED
  BY <1>1, <1>2 DEF Prefix

LEMMA PrefixOfAbove ==
  ASSUME NEW s \in Seq(Nat), s # <<>>, NEW r \in Seq(Nat), r # s, Prefix(r, s)
  PROVE  Prefix(r, Above(s))
<1>1. /\ Above(s) \in Seq(Nat) /\ Len(s) \in Nat \ {0} /\ Len(Above(s)) = Len(s) - 1
      /\ \A j \in 1..(Len(s) - 1) : Above(s)[j] = s[j]
  BY PathAbove
<1>2. Len(r) \in Nat /\ Len(r) <= Len(s) /\ \A j \in 1..Len(r) : r[j] = s[j]
  BY DEF Prefix
<1>3. Len(r) # Len(s)
  BY <1>2, SeqEqual
<1>4. Len(r) <= Len(s) - 1
  BY <1>1, <1>2, <1>3
<1> QED
  BY <1>1, <1>2, <1>4 DEF Prefix

LEMMA NextNInv == TInv /\ NInv /\ [Next]_vars => NInv'
<1> SUFFICES ASSUME TInv, NInv, [Next]_vars PROVE NInv'
  OBVIOUS
<1>1. /\ \A t \in Trees : \A p \in DOMAIN built[t] : p # <<>> =>
            \A j \in 1..(Last(p) - 1) : Append(Above(p), j) \in DOMAIN built[t]
      /\ pc = "read" /\ path # <<>> =>
            \A j \in 1..(Last(path) - 1) : Append(Above(path), j) \in DOMAIN built[doing]
      /\ \A t \in Trees : Finished(t) => <<>> \in DOMAIN built[t]
      /\ pc # "aborted" => \A t \in Trees : \A r \in DOMAIN built[t] :
            Finished(t) \/ ~Prefix(r, path) =>
               \A i \in DOMAIN ChildrenOf(built[t][r]) : Append(r, i) \in DOMAIN built[t]
  BY DEF NInv
<1>2. /\ doing \in Trees /\ path \in Seq(Nat) /\ Len(path) \in Nat
      /\ \A t \in Trees : DOMAIN built[t] \in SUBSET Seq(Nat)
  BY PathsOfBuilt
<1>3. ASSUME UNCHANGED <<built, doing, path>>, pc' = pc \/ pc' = "aborted" \/
                                                 (pc = "verify" /\ pc' = "ready")
      PROVE  NInv'
  <2>1. \A t \in Trees : Finished(t)' => Finished(t)
    BY <1>3 DEF Finished
  <2> QED
    BY <1>1, <1>3, <2>1 DEF NInv
<1>4. CASE ReadPage
  <2>1. CASE pc' = "aborted"
    <3>1. UNCHANGED <<built, doing, path>>
      <4>1. pc' # "loop"
        BY <2>1
      <4> QED
        BY <1>4, <4>1 DEF ReadPage
    <3> QED
      BY <1>3, <2>1, <3>1
  <2>2. CASE pc' # "aborted"
    <3>1. /\ pc = "read" /\ pc' = "loop"
          /\ \A t \in Trees : t # doing => built'[t] = built[t]
          /\ DOMAIN built'[doing] = DOMAIN built[doing] \cup {path}
          /\ \A p \in DOMAIN built[doing] : p # path => built'[doing][p] = built[doing][p]
      BY <1>4, <2>2, ReadFacts
    <3>2. UNCHANGED <<doing, path>>
      BY <1>4 DEF ReadPage
    <3>3. path \notin DOMAIN built[doing]
      BY <3>1 DEF TInv, InPlace
    <3>4. \A t \in Trees : \A p \in DOMAIN built[t] :
             p \in DOMAIN built'[t] /\ built'[t][p] = built[t][p]
      BY <3>1, <3>3
    <3>5. \A t \in Trees : \A p \in DOMAIN built'[t] : p # <<>> =>
             \A j \in 1..(Last(p) - 1) : Append(Above(p), j) \in DOMAIN built'[t]
      <4> SUFFICES ASSUME NEW t \in Trees, NEW p \in DOMAIN built'[t], p # <<>>,
                          NEW j \in 1..(Last(p) - 1)
                   PROVE  Append(Above(p), j) \in DOMAIN built'[t]
        OBVIOUS
      <4>1. CASE p \in DOMAIN built[t]
        BY <1>1, <3>4, <4>1
      <4>2. CASE p \notin DOMAIN built[t]
        <5>1. t = doing /\ p = path
          BY <3>1, <4>2
        <5>2. Append(Above(p), j) \in DOMAIN built[t]
          BY <1>1, <3>1, <5>1
        <5> QED
          BY <3>4, <5>2
      <4> QED
        BY <4>1, <4>2
    <3>6. \A t \in Trees : (Finished(t)' <=> Finished(t))
      BY <3>1, <3>2 DEF Finished
    <3>7. \A t \in Trees : Finished(t)' => <<>> \in DOMAIN built'[t]
      BY <1>1, <3>4, <3>6
    <3>8. ASSUME NEW t \in Trees, NEW r \in DOMAIN built'[t],
                 Finished(t)' \/ ~Prefix(r, path),
                 NEW i \in DOMAIN ChildrenOf(built'[t][r])
          PROVE  Append(r, i) \in DOMAIN built'[t]
      <4>1. CASE r \in DOMAIN built[t]
        <5>1. built'[t][r] = built[t][r]
          BY <3>4, <4>1
        <5>2. Append(r, i) \in DOMAIN built[t]
          BY <1>1, <3>1, <3>6, <3>8, <4>1, <5>1
        <5> QED
          BY <3>4, <5>2
      <4>2. CASE r \notin DOMAIN built[t]
        <5>1. t = doing /\ r = path
          BY <3>1, <4>2
        <5>2. Prefix(r, path)
          BY <1>2, <5>1 DEF Prefix
        <5>3. ~Finished(t)
          BY <3>1, <5>1 DEF Finished
        <5> QED
          BY <3>6, <3>8, <5>2, <5>3
      <4> QED
        BY <4>1, <4>2
    <3>9. \A t \in Trees : \A r \in DOMAIN built'[t] :
             Finished(t)' \/ ~Prefix(r, path') =>
               \A i \in DOMAIN ChildrenOf(built'[t][r]) : Append(r, i) \in DOMAIN built'[t]
      BY <3>2, <3>8
    <3> QED
      BY <3>1, <3>5, <3>7, <3>9 DEF NInv, ChildrenOf, Prefix
  <2> QED
    BY <2>1, <2>2
<1>5. CASE NextChild
  <2>1. pc = "loop" /\ pc' = "read" /\ UNCHANGED <<built, doing>>
    BY <1>5 DEF NextChild
  <2>2. /\ path' # <<>> /\ Above(path') = path /\ Last(path') = NumSubPages + 1
        /\ NumSubPages \in Nat /\ path \in DOMAIN built[doing]
    BY <1>5, NextPath
  <2>3. \A j \in 1..(Last(path') - 1) : Append(Above(path'), j) \in DOMAIN built[doing]
    <3> SUFFICES ASSUME NEW j \in 1..NumSubPages
                 PROVE  Append(path, j) \in DOMAIN built[doing]
      BY <2>2
    <3> DEFINE c == Append(path, NumSubPages)
    <3>1. c \in DOMAIN built[doing]
      BY <2>1, <2>2, LoopFacts
    <3>2. c # <<>> /\ Above(c) = path /\ Last(c) = NumSubPages
      BY <1>2, <2>2, PathOfChild
    <3>3. CASE j = NumSubPages
      BY <3>1, <3>3
    <3>4. CASE j # NumSubPages
      <4>1. j \in 1..(NumSubPages - 1)
        BY <2>2, <3>4
      <4> HIDE DEF c
      <4> QED
        BY <1>1, <1>2, <3>1, <3>2, <4>1
    <3> QED
      BY <3>3, <3>4
  <2>4. \A t \in Trees : Finished(t)' <=> Finished(t)
    BY <2>1 DEF Finished
  <2>5. \A t \in Trees : \A r \in DOMAIN built[t] : Prefix(r, path) => Prefix(r, path')
    BY <1>2, <1>5, PrefixOfNext
  <2>6. \A t \in Trees : \A r \in DOMAIN built'[t] :
           Finished(t)' \/ ~Prefix(r, path') =>
             \A i \in DOMAIN ChildrenOf(built'[t][r]) : Append(r, i) \in DOMAIN built'[t]
    BY <1>1, <2>1, <2>4, <2>5
  <2> QED
    BY <1>1, <2>1, <2>3, <2>4, <2>6 DEF NInv, ChildrenOf, Prefix
<1>6. CASE Return
  <2>1. pc = "loop" /\ UNCHANGED built
    BY <1>6 DEF Return
  <2>2. path \in DOMAIN built[doing] /\ (doing = "NBT" => DOMAIN built["BBT"] = {})
    BY <2>1 DEF TInv, InPlace
  <2>3. \A i \in DOMAIN ChildrenOf(built[doing][path]) : Append(path, i) \in DOMAIN built[doing]
    BY <1>6, ReturnHasAll
  <2>4. CASE path # <<>>
    <3>1. path' = Above(path) /\ UNCHANGED <<pc, doing>>
      BY <1>6, <2>4 DEF Return
    <3>2. \A t \in Trees : Finished(t)' <=> Finished(t)
      BY <3>1 DEF Finished
    <3>3. ASSUME NEW t \in Trees, NEW r \in DOMAIN built[t],
                 Finished(t) \/ ~Prefix(r, path'), NEW i \in DOMAIN ChildrenOf(built[t][r])
          PROVE  Append(r, i) \in DOMAIN built[t]
      <4>1. CASE Finished(t) \/ ~Prefix(r, path)
        BY <1>1, <2>1, <4>1
      <4>2. CASE ~Finished(t) /\ Prefix(r, path)
        <5>1. r = path
          BY <1>2, <2>4, <3>1, <3>3, <4>2, PrefixOfAbove
        <5>2. t = doing
          BY <1>2, <2>2, <4>2 DEF Finished, Trees
        <5> QED
          BY <2>3, <5>1, <5>2
      <4> QED
        BY <4>1, <4>2
    <3> QED
      BY <1>1, <2>1, <3>1, <3>2, <3>3 DEF NInv, ChildrenOf, Prefix
  <2>5. CASE path = <<>>
    <3>1. path' = path /\ \A t \in Trees : Finished(t)' => Finished(t) \/ t = doing
      <4>1. path' = path
        BY <1>6, <2>5 DEF Return
      <4>2. doing = "NBT" => doing' = "BBT" /\ pc' = "read"
        BY <1>6, <2>5 DEF Return
      <4>3. doing # "NBT" => doing' = doing /\ doing = "BBT"
        BY <1>2, <1>6, <2>5 DEF Return, Trees
      <4> QED
        BY <4>1, <4>2, <4>3 DEF Finished, Trees
    <3>2. ASSUME NEW t \in Trees, NEW r \in DOMAIN built[t], NEW i \in DOMAIN ChildrenOf(built[t][r])
          PROVE  Append(r, i) \in DOMAIN built[t]
      <4>1. CASE Finished(t) \/ r # <<>>
        <5>1. r # <<>> => ~Prefix(r, path)
          <6> SUFFICES ASSUME r # <<>>, Prefix(r, path) PROVE FALSE
            OBVIOUS
          <6>1. r \in Seq(Nat) /\ Len(r) <= 0
            BY <1>2, <2>5 DEF Prefix
          <6> QED
            BY <6>1, EmptySeq
        <5> QED
          BY <1>1, <2>1, <4>1, <5>1
      <4>2. CASE ~Finished(t) /\ r = <<>>
        <5>1. t = doing
          BY <1>2, <2>2, <4>2 DEF Finished, Trees
        <5> QED
          BY <2>3, <2>5, <4>2, <5>1
      <4> QED
        BY <4>1, <4>2
    <3>3. \A t \in Trees : Finished(t)' => <<>> \in DOMAIN built[t]
      BY <1>1, <2>2, <2>5, <3>1
    <3>4. \A t \in Trees : \A r \in DOMAIN built'[t] :
             Finished(t)' \/ ~Prefix(r, path') =>
               \A i \in DOMAIN ChildrenOf(built'[t][r]) : Append(r, i) \in DOMAIN built'[t]
      BY <2>1, <3>2
    <3> QED
      BY <1>1, <2>1, <2>5, <3>1, <3>3, <3>4 DEF NInv, ChildrenOf, Prefix
  <2> QED
    BY <2>4, <2>5
<1>7. CASE Verify
  <2>1. /\ pc = "verify" /\ pc' \in {"ready", "aborted"} /\ UNCHANGED <<built, doing, path>>
    BY <1>7 DEF Verify
  <2> QED
    BY <1>3, <2>1
<1>8. CASE \E n \in 0..FileSize : Truncate(n)
  <2>1. UNCHANGED <<built, doing, path, pc>>
    BY <1>8 DEF Truncate
  <2> QED
    BY <1>3, <2>1
<1>9. CASE UNCHANGED vars
  <2>1. UNCHANGED <<built, doing, path, pc>>
    BY <1>9 DEF vars
  <2> QED
    BY <1>3, <2>1
<1> QED
  BY <1>4, <1>5, <1>6, <1>7, <1>8, <1>9 DEF Next

\* A tree that was read to its end without a failure is the file's.
LEMMA FinishedIsImage ==
  ASSUME TInv, OInv, NInv, ~fail, pc # "aborted", NEW t \in Trees, Finished(t)
  PROVE  built[t] = Image[t]
<1>1. /\ \A p \in DOMAIN built[t] : built[t][p] = Image[t][p] /\ built[t][p] # Zero
      /\ DOMAIN built[t] \subseteq DOMAIN Image[t]
      /\ built[t] = [p \in DOMAIN built[t] |-> built[t][p]]
  BY DEF TInv, TypeOK, InPlace, Functions, OInv, ZeroIsFail
<1>2. /\ <<>> \in DOMAIN built[t]
      /\ \A r \in DOMAIN built[t] :
            \A i \in DOMAIN ChildrenOf(built[t][r]) : Append(r, i) \in DOMAIN built[t]
  BY DEF NInv
<1>3. DOMAIN Image[t] \subseteq DOMAIN built[t]
  <2> DEFINE S == {Len(p) : p \in DOMAIN Image[t] \ DOMAIN built[t]}
  <2>1. SUFFICES ASSUME S # {} PROVE FALSE
    OBVIOUS
  <2>2. S \in SUBSET Nat
    BY ImageOf
  <2>3. PICK m \in S : \A k \in S : m <= k
    BY <2>1, <2>2, Least
  <2>4. PICK p \in DOMAIN Image[t] \ DOMAIN built[t] : m = Len(p)
    BY <2>3
  <2>5. p \in Seq(Nat) /\ p # <<>>
    BY <1>2, <2>4, ImageOf
  <2>6. /\ Above(p) \in DOMAIN Image[t] /\ Level[Image[t][Above(p)]] > 0
        /\ Last(p) \in DOMAIN Child[Image[t][Above(p)]]
        /\ Image[t][Above(p)] \in Page
    BY <2>4, <2>5, ImageOf
  <2>7. Len(Above(p)) = Len(p) - 1 /\ Len(p) \in Nat /\ p = Append(Above(p), Last(p))
    BY <2>5, PathAbove
  <2>8. Above(p) \in DOMAIN built[t]
    <3>1. ~(m <= Len(Above(p)))
      BY <2>4, <2>7
    <3>2. Len(Above(p)) \notin S
      BY <2>3, <3>1
    <3> QED
      BY <2>6, <3>2
  <2>9. Last(p) \in DOMAIN ChildrenOf(built[t][Above(p)])
    BY <1>1, <2>6, <2>8 DEF ChildrenOf
  <2>10. p \in DOMAIN built[t]
    BY <1>2, <2>7, <2>8, <2>9
  <2> QED
    BY <2>4, <2>10
<1>4. Image[t] = [p \in DOMAIN Image[t] |-> Image[t][p]]
  <2>1. Image[t] \in [DOMAIN Image[t] -> Page]
    <3> DEFINE n == Level[Root[t]]
               at == CHOOSE g : Levels(g, t, n)
    <3>1. Root[t] \in Page /\ n \in Nat
      BY PagesAssumption
    <3>2. Levels(at, t, n)
      BY <3>1, LevelsExists
    <3>3. Image[t] = at[n]
      BY DEF Image, Levels, Grow
    <3> HIDE DEF at, n
    <3>4. at[n] = IF n = 0 THEN [p \in {<<>>} |-> Root[t]] ELSE Grow(at[n-1], n)
      BY <3>1, <3>2 DEF Levels
    <3>5. at[n] = [p \in DOMAIN at[n] |-> at[n][p]]
      BY <3>4 DEF Grow
    <3> QED
      BY <3>3, <3>5, ImageOf
  <2> QED
    BY <2>1
<1> QED
  BY <1>1, <1>3, <1>4

-----------------------------------------------------------------------------
(* Get is the look-up. *)

\* The body of get for the page at p of a tree of pages.
FindBody(f, P, id, p) ==
  LET page == P[p]
      here == {i \in DOMAIN Keys[page] :
                 IF Level[page] = 0 THEN SameId(Keys[page][i], id)
                 ELSE Follows(id, Keys[page][i]) /\ f[Append(p, i)] # None}
      first == CHOOSE i \in here : \A j \in here : i <= j
  IN  CASE page = Zero -> None
        [] page # Zero /\ here = {} -> None
        [] page # Zero /\ here # {} ->
             IF Level[page] = 0 THEN <<page, first>> ELSE f[Append(p, first)]

Finds(f, P, id) == f = [p \in DOMAIN P |-> FindBody(f, P, id, p)]

\* The body looks at nothing but the answers of the children.
LEMMA BodyCongruent ==
  ASSUME NEW f, NEW g, NEW P, NEW id, NEW p, P[p] \in Page,
         Level[P[p]] # 0 => \A i \in DOMAIN Keys[P[p]] : f[Append(p, i)] = g[Append(p, i)]
  PROVE  FindBody(f, P, id, p) = FindBody(g, P, id, p)
<1> DEFINE page == P[p]
           here(h) == {i \in DOMAIN Keys[page] :
                         IF Level[page] = 0 THEN SameId(Keys[page][i], id)
                         ELSE Follows(id, Keys[page][i]) /\ h[Append(p, i)] # None}
           first(h) == CHOOSE i \in here(h) : \A j \in here(h) : i <= j
<1>1. page \in Page /\ page # Zero
  BY PagesAssumption
<1>2. here(f) = here(g)
  OBVIOUS
<1>3. first(f) = first(g)
  BY <1>2
<1>4. \A h : FindBody(h, P, id, p) =
        IF here(h) = {} THEN None
        ELSE IF Level[page] = 0 THEN <<page, first(h)>> ELSE h[Append(p, first(h))]
  BY <1>1 DEF FindBody
<1>5. here(f) # {} => first(f) \in here(f)
  <2> SUFFICES ASSUME here(f) # {} PROVE first(f) \in here(f)
    OBVIOUS
  <2>1. DOMAIN Keys[page] \in SUBSET Nat
    <3>1. Keys[page] \in Seq(Nat)
      BY <1>1, PagesAssumption
    <3> QED
      BY <3>1
  <2>2. here(f) \in SUBSET Nat
    BY <2>1
  <2> HIDE DEF here
  <2>3. \E m \in here(f) : \A k \in here(f) : m <= k
    BY <2>2, Least
  <2> QED
    BY <2>3
<1>6. here(f) \subseteq DOMAIN Keys[page]
  OBVIOUS
<1> HIDE DEF here, first, page
<1>7. CASE here(f) = {}
  BY <1>2, <1>4, <1>7
<1>8. CASE here(f) # {}
  <2>1. first(f) \in DOMAIN Keys[page]
    BY <1>5, <1>6, <1>8
  <2>2. Level[page] # 0 => f[Append(p, first(f))] = g[Append(p, first(f))]
    BY <2>1 DEF page
  <2> QED
    BY <1>2, <1>3, <1>4, <1>8, <2>2
<1> QED
  BY <1>7, <1>8

\* The children of a page by its keys.
LEMMA KeyFacts ==
  ASSUME NEW t \in Trees, NEW p \in DOMAIN Image[t], Level[Image[t][p]] # 0,
         NEW i \in DOMAIN Keys[Image[t][p]]
  PROVE  /\ Append(p, i) \in DOMAIN Image[t] /\ i \in DOMAIN Child[Image[t][p]]
         /\ Image[t][Append(p, i)] = Child[Image[t][p]][i]
         /\ Level[Image[t][Append(p, i)]] = Level[Image[t][p]] - 1
<1>1. Image[t][p] \in Page
  BY ImageOf
<1>2. Keys[Image[t][p]] \in Seq(Nat) /\ Child[Image[t][p]] \in Seq(Page)
  BY <1>1, PagesAssumption
<1>3. Len(Child[Image[t][p]]) = Len(Keys[Image[t][p]])
  BY <1>1, PagesAssumption
<1>4. i \in DOMAIN Child[Image[t][p]]
  BY <1>2, <1>3
<1> QED
  BY <1>1, <1>4, ChildFacts, ImageFacts

LEMMA FindExists ==
  ASSUME NEW t \in Trees, NEW id
  PROVE  \E f : Finds(f, Image[t], id)
<1> DEFINE I == Image[t]
           D(n) == {p \in DOMAIN I : Level[I[p]] <= n}
           S == {n \in Nat : ~\E f : f = [p \in D(n) |-> FindBody(f, I, id, p)]}
<1>1. \A p \in DOMAIN I : I[p] \in Page /\ Level[I[p]] \in Nat
  BY ImageOf, PagesAssumption
<1>2. S = {}
  <2> SUFFICES ASSUME S # {} PROVE FALSE
    OBVIOUS
  <2>1. PICK m \in S : \A k \in S : m <= k
    <3>1. S \in SUBSET Nat
      OBVIOUS
    <3> HIDE DEF S
    <3> QED
      BY <3>1, Least
  <2>2. m \in Nat /\ ~\E f : f = [p \in D(m) |-> FindBody(f, I, id, p)]
    BY <2>1
  <2>3. \E h : m # 0 => h = [p \in D(m-1) |-> FindBody(h, I, id, p)]
    <3>1. CASE m = 0
      BY <3>1
    <3>2. CASE m # 0
      <4>1. m - 1 \in Nat /\ ~(m <= m - 1)
        BY <2>2, <3>2
      <4>2. m - 1 \notin S
        BY <2>1, <4>1
      <4> QED
        BY <4>1, <4>2
    <3> QED
      BY <3>1, <3>2
  <2> HIDE DEF S
  <2>4. PICK h : m # 0 => h = [p \in D(m-1) |-> FindBody(h, I, id, p)]
    BY <2>3
  <2> DEFINE g == [p \in D(m) |-> FindBody(h, I, id, p)]
  <2>5. ASSUME NEW p \in D(m), Level[I[p]] # 0, NEW i \in DOMAIN Keys[I[p]]
        PROVE  h[Append(p, i)] = g[Append(p, i)]
    <3>1. m # 0 /\ Level[I[p]] - 1 <= m - 1
      BY <1>1, <2>2, <2>5
    <3>2. Append(p, i) \in DOMAIN I /\ Level[I[Append(p, i)]] = Level[I[p]] - 1
      BY <2>5, KeyFacts
    <3>3. Append(p, i) \in D(m-1) /\ Append(p, i) \in D(m)
      BY <1>1, <2>2, <3>1, <3>2
    <3> HIDE DEF D, I
    <3>4. h[Append(p, i)] = FindBody(h, I, id, Append(p, i))
      BY <2>4, <3>1, <3>3
    <3>5. g[Append(p, i)] = FindBody(h, I, id, Append(p, i))
      BY <3>3
    <3> QED
      BY <3>4, <3>5
  <2>6. \A p \in D(m) : FindBody(h, I, id, p) = FindBody(g, I, id, p)
    <3> HIDE DEF g
    <3> TAKE p \in D(m)
    <3>1. I[p] \in Page
      BY <1>1
    <3>2. Level[I[p]] # 0 => \A i \in DOMAIN Keys[I[p]] : h[Append(p, i)] = g[Append(p, i)]
      BY <2>5
    <3> HIDE DEF I, D
    <3> QED
      BY <3>1, <3>2, BodyCongruent
  <2>7. g = [p \in D(m) |-> FindBody(g, I, id, p)]
    <3> HIDE DEF D, I
    <3> QED
      BY <2>6
  <2> QED
    BY <2>2, <2>7
<1> DEFINE n == Level[Root[t]]
<1>3. n \in Nat
  BY PagesAssumption
<1>4. D(n) = DOMAIN I
  <2>1. \A p \in DOMAIN I : Level[I[p]] = n - Len(p) /\ Len(p) \in Nat
    BY ImageFacts, ImageOf DEF Hangs
  <2>2. \A p \in DOMAIN I : Level[I[p]] <= n
    BY <1>3, <2>1
  <2> QED
    BY <2>2
<1>5. PICK f : f = [p \in D(n) |-> FindBody(f, I, id, p)]
  BY <1>2, <1>3
<1> HIDE DEF D, n
<1>6. Finds(f, I, id)
  BY <1>4, <1>5 DEF Finds
<1> QED
  BY <1>6

\* The answer for a page, in terms of those for its children.
LEMMA FindFacts ==
  ASSUME NEW t \in Trees, NEW id \in Nat, NEW f, Finds(f, Image[t], id), NEW r \in DOMAIN Image[t]
  PROVE  LET page == Image[t][r]
         IN  /\ page \in Page /\ Level[page] \in Nat /\ Keys[page] \in Seq(Nat)
             /\ Level[page] = 0 =>
                  \/ f[r] = None /\ \A i \in DOMAIN Keys[page] : Keys[page][i] # id
                  \/ \E i \in DOMAIN Keys[page] : Keys[page][i] = id /\ f[r] = <<page, i>>
             /\ Level[page] # 0 =>
                  \/ /\ f[r] = None
                     /\ \A i \in DOMAIN Keys[page] : ~(Keys[page][i] <= id /\ f[Append(r, i)] # None)
                  \/ \E i \in DOMAIN Keys[page] : f[Append(r, i)] # None /\ f[r] = f[Append(r, i)]
<1> DEFINE page == Image[t][r]
           here == {i \in DOMAIN Keys[page] :
                      IF Level[page] = 0 THEN SameId(Keys[page][i], id)
                      ELSE Follows(id, Keys[page][i]) /\ f[Append(r, i)] # None}
           first == CHOOSE i \in here : \A j \in here : i <= j
<1>1. page \in Page /\ page # Zero
  BY ImageOf
<1>2. Level[page] \in Nat /\ Keys[page] \in Seq(Nat)
  <2> HIDE DEF page
  <2> QED
    BY <1>1, PagesAssumption
<1>3. DOMAIN Keys[page] \in SUBSET Nat /\ \A i \in DOMAIN Keys[page] : Keys[page][i] \in Nat
  <2> HIDE DEF page
  <2> QED
    BY <1>2, ElementOfSeq
<1>4. f[r] = IF here = {} THEN None
             ELSE IF Level[page] = 0 THEN <<page, first>> ELSE f[Append(r, first)]
  BY <1>1 DEF Finds, FindBody
<1>5. here # {} => first \in here
  <2> SUFFICES ASSUME here # {} PROVE first \in here
    OBVIOUS
  <2>1. here \in SUBSET Nat
    BY <1>3
  <2> HIDE DEF here
  <2>2. \E m \in here : \A k \in here : m <= k
    BY <2>1, Least
  <2> QED
    BY <2>2
<1> HIDE DEF page
<1>6. \A i \in DOMAIN Keys[page] :
        i \in here <=> IF Level[page] = 0 THEN Keys[page][i] = id
                       ELSE Keys[page][i] <= id /\ f[Append(r, i)] # None
  BY <1>3 DEF SameId, Follows
<1>7. here \subseteq DOMAIN Keys[page]
  OBVIOUS
<1> HIDE DEF here, first
<1>8. CASE here = {}
  BY <1>2, <1>1, <1>4, <1>6, <1>8 DEF page
<1>9. CASE here # {}
  <2>1. first \in DOMAIN Keys[page] /\ first \in here
    BY <1>5, <1>7, <1>9
  <2>2. CASE Level[page] = 0
    <3>1. Keys[page][first] = id /\ f[r] = <<page, first>>
      BY <1>4, <1>6, <1>9, <2>1, <2>2
    <3> QED
      BY <1>1, <1>2, <2>1, <2>2, <3>1 DEF page
  <2>3. CASE Level[page] # 0
    <3>1. f[Append(r, first)] # None /\ f[r] = f[Append(r, first)]
      BY <1>4, <1>6, <1>9, <2>1, <2>3
    <3> QED
      BY <1>1, <1>2, <2>1, <2>3, <3>1 DEF page
  <2> QED
    BY <2>2, <2>3
<1> QED
  BY <1>8, <1>9

\* The page and the index of an entry for id in a leaf.
EntryFor(t, id, e) ==
  \E q \in Leaves(t) : \E i \in DOMAIN Keys[q] : Keys[q][i] = id /\ e = <<q, i>>

LEMMA FindSound ==
  ASSUME NEW t \in Trees, NEW id \in Nat, NEW f, Finds(f, Image[t], id), NEW p \in DOMAIN Image[t]
  PROVE  f[p] = None \/ EntryFor(t, id, f[p])
<1> DEFINE I == Image[t]
           Bad == {q \in DOMAIN I : f[q] # None /\ ~EntryFor(t, id, f[q])}
           S == {Level[I[q]] : q \in Bad}
<1>1. \A q \in DOMAIN I : I[q] \in Page /\ Level[I[q]] \in Nat
  BY ImageOf, PagesAssumption
<1>2. SUFFICES ASSUME S # {} PROVE FALSE
  OBVIOUS
<1>3. PICK m \in S : \A k \in S : m <= k
  <2>1. S \in SUBSET Nat
    BY <1>1
  <2> HIDE DEF S
  <2> QED
    BY <1>2, <2>1, Least
<1>4. PICK q \in Bad : m = Level[I[q]]
  BY <1>3
<1>5. q \in DOMAIN I /\ I[q] \in Page /\ Level[I[q]] \in Nat
      /\ f[q] # None /\ ~EntryFor(t, id, f[q])
  BY <1>1, <1>4
<1>6. CASE Level[I[q]] = 0
  <2>1. PICK i \in DOMAIN Keys[I[q]] : Keys[I[q]][i] = id /\ f[q] = <<I[q], i>>
    BY <1>5, <1>6, FindFacts
  <2>2. I[q] \in Leaves(t)
    BY <1>5, <1>6 DEF Leaves
  <2> QED
    BY <1>5, <2>1, <2>2 DEF EntryFor
<1>7. CASE Level[I[q]] # 0
  <2>1. PICK i \in DOMAIN Keys[I[q]] : f[Append(q, i)] # None /\ f[q] = f[Append(q, i)]
    BY <1>5, <1>7, FindFacts
  <2>2. Append(q, i) \in DOMAIN I /\ Level[I[Append(q, i)]] = Level[I[q]] - 1
    BY <1>5, <1>7, <2>1, KeyFacts
  <2>3. ~EntryFor(t, id, f[Append(q, i)])
    BY <1>5, <2>1
  <2>4. Level[I[Append(q, i)]] \in S
    BY <2>1, <2>2, <2>3
  <2> HIDE DEF S, I
  <2> QED
    BY <1>3, <1>4, <1>5, <2>2, <2>4
<1> QED
  BY <1>6, <1>7

\* What is found below a page through keys not above id is found from the page.
LEMMA FindAbove ==
  ASSUME NEW t \in Trees, NEW id \in Nat, NEW f, Finds(f, Image[t], id),
         NEW s \in DOMAIN Image[t], s # <<>>, f[s] # None,
         \E j \in DOMAIN Keys[Image[t][s]] : Keys[Image[t][s]][j] <= id
  PROVE  /\ f[Above(s)] # None
         /\ \E j \in DOMAIN Keys[Image[t][Above(s)]] : Keys[Image[t][Above(s)]][j] <= id
<1> DEFINE r == Above(s)
           c == Last(s)
           page == Image[t][r]
           child == Image[t][s]
<1>1. /\ r \in DOMAIN Image[t] /\ Level[page] > 0 /\ c \in DOMAIN Child[page]
      /\ child = Child[page][c] /\ page \in Page /\ child \in Page
  BY ImageOf
<1>2. s = Append(r, c)
  <2>1. s \in Seq(Nat)
    BY ImageOf
  <2> QED
    BY <2>1, PathAbove
<1>3. PICK j \in DOMAIN Keys[child] : Keys[child][j] <= id
  OBVIOUS
<1> HIDE DEF r, c, page, child
<1>4. c \in DOMAIN Keys[page] /\ Level[page] # 0
  BY <1>1, ChildFacts
<1>5. Keys[page][c] <= Keys[child][j]
  <2>1. \A pg \in Page : \A x \in DOMAIN Child[pg] : \A y \in DOMAIN Keys[Child[pg][x]] :
           Keys[pg][x] <= Keys[Child[pg][x]][y]
    BY PagesAssumption
  <2> QED
    BY <1>1, <1>3, <2>1
<1>6. Keys[page][c] \in Nat /\ Keys[child][j] \in Nat
  <2>1. Keys[page] \in Seq(Nat) /\ Keys[child] \in Seq(Nat)
    BY <1>1, PagesAssumption
  <2> QED
    BY <1>3, <1>4, <2>1, ElementOfSeq
<1>7. Keys[page][c] <= id
  BY <1>3, <1>5, <1>6
<1>8. f[Append(r, c)] # None
  BY <1>2
<1>9. f[r] # None
  <2>1. \/ /\ f[r] = None
           /\ \A i \in DOMAIN Keys[page] : ~(Keys[page][i] <= id /\ f[Append(r, i)] # None)
        \/ \E i \in DOMAIN Keys[page] : f[Append(r, i)] # None /\ f[r] = f[Append(r, i)]
    BY <1>1, <1>4, FindFacts DEF page
  <2> QED
    BY <1>4, <1>7, <1>8, <2>1
<1> QED
  BY <1>4, <1>7, <1>9 DEF r, page

\* The keys above a leaf lead to each of its entries.
LEMMA FindComplete ==
  ASSUME NEW t \in Trees, NEW id \in Nat, NEW f, Finds(f, Image[t], id),
         NEW q \in Leaves(t), NEW i \in DOMAIN Keys[q], Keys[q][i] = id
  PROVE  f[<<>>] # None
<1>1. PICK p \in DOMAIN Image[t] : q = Image[t][p] /\ Level[Image[t][p]] = 0
  BY DEF Leaves
<1>2. p \in Seq(Nat) /\ DOMAIN Image[t] \in SUBSET Seq(Nat)
  BY ImageOf
<1>3. f[p] # None
  <2>1. PICK k \in DOMAIN Keys[q] : f[p] = <<q, k>>
    BY <1>1, FindFacts
  <2>2. q \in Page /\ Keys[q] \in Seq(Nat)
    BY <1>1, FindFacts
  <2>3. k \in Nat
    BY <2>2
  <2> QED
    BY <2>1, <2>2, <2>3, PagesAssumption
<1>4. Keys[q][i] <= id
  OBVIOUS
<1> DEFINE Good(s) == f[s] # None /\ \E j \in DOMAIN Keys[Image[t][s]] : Keys[Image[t][s]][j] <= id
<1>5. Good(p)
  BY <1>1, <1>3, <1>4
\* the shortest page from which the entry is found
<1> DEFINE S == {Len(s) : s \in {r \in DOMAIN Image[t] : Good(r)}}
<1>6. PICK m \in S : \A k \in S : m <= k
  <2>1. S \in SUBSET Nat
    BY <1>2
  <2>2. S # {}
    BY <1>5
  <2> HIDE DEF S
  <2> QED
    BY <2>1, <2>2, Least
<1>7. PICK s \in DOMAIN Image[t] : Good(s) /\ m = Len(s)
  BY <1>6
<1>8. s = <<>>
  <2> SUFFICES ASSUME s # <<>> PROVE FALSE
    OBVIOUS
  <2>0. /\ f[s] # None
        /\ \E j \in DOMAIN Keys[Image[t][s]] : Keys[Image[t][s]][j] <= id
    BY <1>7
  <2> HIDE DEF S, Good
  <2>1. Good(Above(s))
    <3>1. /\ f[Above(s)] # None
          /\ \E j \in DOMAIN Keys[Image[t][Above(s)]] : Keys[Image[t][Above(s)]][j] <= id
      BY <2>0, FindAbove
    <3> QED
      BY <3>1 DEF Good
  <2>2. Above(s) \in DOMAIN Image[t] /\ s \in Seq(Nat)
    BY ImageOf
  <2>3. Len(Above(s)) = Len(s) - 1 /\ Len(s) \in Nat
    BY <2>2, PathAbove
  <2>4. Len(Above(s)) \in S
    BY <2>1, <2>2 DEF S
  <2> QED
    BY <1>6, <1>7, <2>3, <2>4
<1> QED
  BY <1>7, <1>8

\* An id has one entry.
LEMMA OneEntry ==
  ASSUME NEW t \in Trees, NEW id, NEW d, EntryFor(t, id, d), NEW e, EntryFor(t, id, e)
  PROVE  d = e
<1>1. PICK p \in Leaves(t) : \E i \in DOMAIN Keys[p] : Keys[p][i] = id /\ d = <<p, i>>
  BY DEF EntryFor
<1>2. PICK i \in DOMAIN Keys[p] : Keys[p][i] = id /\ d = <<p, i>>
  BY <1>1
<1>3. PICK q \in Leaves(t) : \E j \in DOMAIN Keys[q] : Keys[q][j] = id /\ e = <<q, j>>
  BY DEF EntryFor
<1>4. PICK j \in DOMAIN Keys[q] : Keys[q][j] = id /\ e = <<q, j>>
  BY <1>3
<1>5. p = q
  <2>1. \A u \in Trees : \A r, s \in Leaves(u) : \A x \in DOMAIN Keys[r], y \in DOMAIN Keys[s] :
           Keys[r][x] = Keys[s][y] => r = s
    BY PagesAssumption
  <2> QED
    BY <1>2, <1>4, <2>1
<1>6. p \in Page
  BY ImageOf DEF Leaves
<1>7. i = j
  <2>1. Keys[p] \in Seq(Nat)
    BY <1>6, PagesAssumption
  <2>2. i \in Nat /\ j \in Nat /\ Keys[p][i] \in Nat
    BY <1>5, <2>1, ElementOfSeq
  <2>3. \A x, y \in DOMAIN Keys[p] : x < y => Keys[p][x] < Keys[p][y]
    BY <1>6, PagesAssumption
  <2>4. ~(i < j) /\ ~(j < i)
    BY <1>2, <1>4, <1>5, <2>2, <2>3
  <2> QED
    BY <2>2, <2>4
<1> QED
  BY <1>2, <1>4, <1>5, <1>7

\* Lookup by its entries.
LEMMA LookupIs ==
  ASSUME NEW t \in Trees, NEW id
  PROVE  /\ Lookup(t, id) = None <=> ~\E e : EntryFor(t, id, e)
         /\ \A e : EntryFor(t, id, e) => Lookup(t, id) = e
<1> DEFINE entries == UNION {{<<p, i>> : i \in {j \in DOMAIN Keys[p] : Keys[p][j] = id}} :
                               p \in Leaves(t)}
<1>1. \A e : e \in entries <=> EntryFor(t, id, e)
  BY DEF EntryFor
<1>2. Lookup(t, id) = IF entries = {} THEN None ELSE CHOOSE e \in entries : TRUE
  BY DEF Lookup
<1>3. \A e : EntryFor(t, id, e) => e # None
  <2> SUFFICES ASSUME NEW e, EntryFor(t, id, e) PROVE e # None
    OBVIOUS
  <2>1. PICK q \in Leaves(t) : \E i \in DOMAIN Keys[q] : Keys[q][i] = id /\ e = <<q, i>>
    BY DEF EntryFor
  <2>2. PICK i \in DOMAIN Keys[q] : e = <<q, i>>
    BY <2>1
  <2>3. q \in Page
    BY ImageOf DEF Leaves
  <2>4. i \in Nat
    <3>1. Keys[q] \in Seq(Nat)
      BY <2>3, PagesAssumption
    <3> QED
      BY <3>1
  <2> QED
    BY <2>2, <2>3, <2>4, PagesAssumption
<1> HIDE DEF entries
<1>4. CASE entries = {}
  BY <1>1, <1>2, <1>4
<1>5. CASE entries # {}
  <2>1. Lookup(t, id) \in entries
    BY <1>2, <1>5
  <2>2. EntryFor(t, id, Lookup(t, id))
    BY <1>1, <2>1
  <2>3. \A e : EntryFor(t, id, e) => Lookup(t, id) = e
    BY <2>2, OneEntry
  <2> QED
    BY <1>3, <2>2, <2>3
<1> QED
  BY <1>4, <1>5

\* The search of a complete tree finds each entry of the file, and only by its
\* own id, through the keys of the pages above it.
LEMMA GetIs ==
  ASSUME NEW t \in Trees, built[t] = Image[t], NEW id \in Nat
  PROVE  Get(t, id) = Lookup(t, id)
<1> DEFINE f == CHOOSE g : Finds(g, Image[t], id)
<1>1. Get(t, id) = f[<<>>]
  BY DEF Get, Finds, FindBody
<1>2. Finds(f, Image[t], id)
  BY FindExists
<1> HIDE DEF f
<1>3. <<>> \in DOMAIN Image[t]
  BY ImageOf
<1>4. f[<<>>] = None \/ EntryFor(t, id, f[<<>>])
  BY <1>2, <1>3, FindSound
<1>5. ASSUME f[<<>>] = None PROVE ~\E e : EntryFor(t, id, e)
  BY <1>2, <1>5, FindComplete DEF EntryFor
<1> QED
  BY <1>1, <1>4, <1>5, LookupIs

-----------------------------------------------------------------------------
(* The group of a node. *)

\* A node is its index and its type, if the type has a name of its own.
LEMMA SameNode ==
  ASSUME NEW a \in Nat, NEW b \in Nat, NIDIndex(a) = NIDIndex(b),
         NIDType(a) = NIDType(b), NIDType(a) # Invalid
  PROVE  a = b
<1>1. a % 32 = b % 32
  BY DEF NIDType
<1>2. (a \div 32) * 32 = (b \div 32) * 32
  BY DEF NIDIndex
<1>3. a = (a \div 32) * 32 + (a % 32) /\ b = (b \div 32) * 32 + (b % 32)
  OBVIOUS
<1> QED
  BY <1>1, <1>2, <1>3

LEMMA EntryFacts ==
  ASSUME NEW id, NEW e, EntryFor("NBT", id, e)
  PROVE  IdOf(e) = id /\ id \in Nat /\ id \in Ids
<1>1. "NBT" \in Trees
  BY DEF Trees
<1>2. PICK q \in Leaves("NBT") : \E i \in DOMAIN Keys[q] : Keys[q][i] = id /\ e = <<q, i>>
  BY DEF EntryFor
<1>3. PICK i \in DOMAIN Keys[q] : Keys[q][i] = id /\ e = <<q, i>>
  BY <1>2
<1>4. q \in Page
  BY <1>1, ImageOf DEF Leaves
<1>5. id \in Nat
  <2>1. Keys[q] \in Seq(Nat)
    BY <1>4, PagesAssumption
  <2> QED
    BY <1>3, <2>1, ElementOfSeq
<1>6. id \in Known
  BY <1>3, <1>4 DEF Known
<1> QED
  BY <1>3, <1>5, <1>6 DEF IdOf, Ids

\* What all() goes through are the file's entries with the node's index.
LEMMA MatchIs ==
  ASSUME built["NBT"] = Image["NBT"], NEW nid \in Nat, NEW e
  PROVE  e \in Matches(nid) <=>
           \E id : EntryFor("NBT", id, e) /\ NIDIndex(id) = NIDIndex(nid)
<1> DEFINE I == Image["NBT"]
           paths == {q \in DOMAIN I : I[q] # Zero /\ Level[I[q]] = 0}
<1>1. Matches(nid) = UNION {{<<I[p], i>> : i \in {j \in DOMAIN Keys[I[p]] : InGroup(Keys[I[p]][j], nid)}} :
                              p \in paths}
  BY DEF Matches
<1>2. \A q \in DOMAIN I : I[q] # Zero
  BY ImageOf DEF Trees
<1>3. ASSUME e \in Matches(nid)
      PROVE  \E id : EntryFor("NBT", id, e) /\ NIDIndex(id) = NIDIndex(nid)
  <2>1. PICK p \in paths : e \in {<<I[p], i>> : i \in {j \in DOMAIN Keys[I[p]] : InGroup(Keys[I[p]][j], nid)}}
    BY <1>1, <1>3
  <2>2. PICK i \in DOMAIN Keys[I[p]] : InGroup(Keys[I[p]][i], nid) /\ e = <<I[p], i>>
    BY <2>1
  <2>3. I[p] \in Leaves("NBT")
    BY DEF Leaves
  <2>4. EntryFor("NBT", Keys[I[p]][i], e)
    BY <2>2, <2>3 DEF EntryFor
  <2> QED
    BY <2>2, <2>4 DEF InGroup
<1>4. ASSUME NEW id, EntryFor("NBT", id, e), NIDIndex(id) = NIDIndex(nid)
      PROVE  e \in Matches(nid)
  <2>1. PICK q \in Leaves("NBT") : \E i \in DOMAIN Keys[q] : Keys[q][i] = id /\ e = <<q, i>>
    BY <1>4 DEF EntryFor
  <2>2. PICK i \in DOMAIN Keys[q] : Keys[q][i] = id /\ e = <<q, i>>
    BY <2>1
  <2>3. PICK p \in DOMAIN I : q = I[p] /\ Level[I[p]] = 0
    BY DEF Leaves
  <2>4. p \in paths
    BY <1>2, <2>3
  <2>5. i \in {j \in DOMAIN Keys[I[p]] : InGroup(Keys[I[p]][j], nid)}
    BY <1>4, <2>2, <2>3 DEF InGroup
  <2> QED
    BY <1>1, <2>2, <2>3, <2>4, <2>5
<1> QED
  BY <1>3, <1>4

LEMMA AllIs ==
  ASSUME built["NBT"] = Image["NBT"], NEW nid \in Nat
  PROVE  LET inFile == {id \in Ids : NIDIndex(id) = NIDIndex(nid) /\ Lookup("NBT", id) # None}
             unnamed == {id \in inFile : NIDType(id) = Invalid}
         IN  IF assertsOn /\ \E a, b \in unnamed : a # b
             THEN All(nid) = None
             ELSE /\ DOMAIN All(nid) = {NIDType(id) : id \in inFile}
                  /\ \A id \in inFile \ unnamed : All(nid)[NIDType(id)] = Lookup("NBT", id)
<1> DEFINE inFile == {id \in Ids : NIDIndex(id) = NIDIndex(nid) /\ Lookup("NBT", id) # None}
           unnamed == {id \in inFile : NIDType(id) = Invalid}
           twins == \E a, b \in unnamed : a # b
           types == {NIDType(IdOf(e)) : e \in Matches(nid)}
           of(ty) == {e \in Matches(nid) : NIDType(IdOf(e)) = ty}
<1>1. All(nid) =
        IF assertsOn /\ Duplicate(nid) THEN None
        ELSE [ty \in types |-> CHOOSE e \in of(ty) : \A f \in of(ty) : IdOf(f) <= IdOf(e)]
  BY DEF All
<1>2. ASSUME NEW e \in Matches(nid)
      PROVE  IdOf(e) \in inFile /\ IdOf(e) \in Nat /\ Lookup("NBT", IdOf(e)) = e
  <2>1. PICK id : EntryFor("NBT", id, e) /\ NIDIndex(id) = NIDIndex(nid)
    BY MatchIs
  <2>2. IdOf(e) = id /\ id \in Nat /\ id \in Ids
    BY <2>1, EntryFacts
  <2>3. Lookup("NBT", id) = e /\ Lookup("NBT", id) # None
    BY <2>1, LookupIs DEF Trees
  <2> QED
    BY <2>1, <2>2, <2>3
<1>3. ASSUME NEW id \in inFile
      PROVE  /\ Lookup("NBT", id) \in Matches(nid) /\ IdOf(Lookup("NBT", id)) = id
             /\ id \in Nat /\ NIDIndex(id) = NIDIndex(nid)
  <2>1. NIDIndex(id) = NIDIndex(nid) /\ Lookup("NBT", id) # None
    BY <1>3
  <2>2. PICK e : EntryFor("NBT", id, e)
    BY <2>1, LookupIs DEF Trees
  <2>3. Lookup("NBT", id) = e
    BY <2>2, LookupIs DEF Trees
  <2>4. IdOf(e) = id /\ id \in Nat
    BY <2>2, EntryFacts
  <2>5. e \in Matches(nid)
    BY <2>1, <2>2, MatchIs
  <2> QED
    BY <2>1, <2>3, <2>4, <2>5
<1> HIDE DEF inFile
<1>4. types = {NIDType(id) : id \in inFile}
  <2>1. \A ty \in types : ty \in {NIDType(id) : id \in inFile}
    BY <1>2
  <2>2. \A id \in inFile : NIDType(id) \in types
    BY <1>3
  <2> QED
    BY <2>1, <2>2
<1>5. Duplicate(nid) <=> twins
  <2>1. ASSUME NEW e \in Matches(nid), NEW f \in Matches(nid), e # f,
               NIDType(IdOf(e)) = NIDType(IdOf(f))
        PROVE  twins
    <3> DEFINE a == IdOf(e)
               b == IdOf(f)
    <3>1. /\ a \in inFile /\ a \in Nat /\ Lookup("NBT", a) = e /\ NIDIndex(a) = NIDIndex(nid)
          /\ b \in inFile /\ b \in Nat /\ Lookup("NBT", b) = f /\ NIDIndex(b) = NIDIndex(nid)
      BY <1>2, <1>3
    <3>2. a # b
      BY <2>1, <3>1
    <3>3. NIDType(a) = NIDType(b)
      BY <2>1
    <3> HIDE DEF a, b
    <3>4. NIDType(a) = Invalid
      BY <3>1, <3>2, <3>3, SameNode
    <3> QED
      BY <3>1, <3>2, <3>3, <3>4
  <2>2. ASSUME NEW a \in unnamed, NEW b \in unnamed, a # b
        PROVE  Duplicate(nid)
    <3> DEFINE e == Lookup("NBT", a)
               f == Lookup("NBT", b)
    <3>1. e \in Matches(nid) /\ IdOf(e) = a /\ f \in Matches(nid) /\ IdOf(f) = b
      BY <1>3
    <3>2. e # f /\ NIDType(IdOf(e)) = NIDType(IdOf(f))
      BY <2>2, <3>1
    <3> HIDE DEF e, f
    <3> QED
      BY <3>1, <3>2 DEF Duplicate
  <2> QED
    BY <2>1, <2>2 DEF Duplicate
<1>6. ASSUME ~(assertsOn /\ twins), NEW id \in inFile, NIDType(id) # Invalid
      PROVE  All(nid)[NIDType(id)] = Lookup("NBT", id)
  <2> DEFINE ty == NIDType(id)
             found == Lookup("NBT", id)
  <2>1. found \in of(ty) /\ IdOf(found) = id /\ id \in Nat
    BY <1>3
  <2>2. \A e \in of(ty) : e = found
    <3> SUFFICES ASSUME NEW e \in of(ty) PROVE e = found
      OBVIOUS
    <3>1. IdOf(e) \in inFile /\ IdOf(e) \in Nat /\ Lookup("NBT", IdOf(e)) = e
      BY <1>2
    <3>2. NIDIndex(IdOf(e)) = NIDIndex(id)
      BY <1>3, <3>1
    <3>3. NIDType(IdOf(e)) = NIDType(id)
      OBVIOUS
    <3>4. IdOf(e) = id
      BY <1>3, <1>6, <3>1, <3>2, <3>3, SameNode
    <3> QED
      BY <3>1, <3>4
  <2>3. ty \in types
    BY <2>1
  <2> HIDE DEF of, ty, found, types
  <2>4. All(nid)[ty] = CHOOSE e \in of(ty) : \A f \in of(ty) : IdOf(f) <= IdOf(e)
    BY <1>1, <1>6, <1>5, <2>3
  <2>5. \A f \in of(ty) : IdOf(f) <= IdOf(found)
    BY <2>1, <2>2
  <2>6. (CHOOSE e \in of(ty) : \A f \in of(ty) : IdOf(f) <= IdOf(e)) \in of(ty)
    BY <2>1, <2>5
  <2>7. All(nid)[ty] = found
    BY <2>2, <2>4, <2>6
  <2> QED
    BY <2>7 DEF ty, found
<1>7. ASSUME ~(assertsOn /\ twins)
      PROVE  DOMAIN All(nid) = {NIDType(id) : id \in inFile}
  <2>1. ~(assertsOn /\ Duplicate(nid))
    BY <1>7, <1>5
  <2> QED
    BY <1>1, <1>4, <2>1
<1>8. CASE assertsOn /\ twins
  <2>1. All(nid) = None
    BY <1>1, <1>5, <1>8
  <2> QED
    BY <1>8, <2>1 DEF inFile
<1>9. CASE ~(assertsOn /\ twins)
  <2>1. \A id \in inFile \ unnamed : All(nid)[NIDType(id)] = Lookup("NBT", id)
    BY <1>6, <1>9
  <2>2. DOMAIN All(nid) = {NIDType(id) : id \in inFile}
    BY <1>7, <1>9
  <2> QED
    BY <1>9, <2>1, <2>2 DEF inFile
<1> QED
  BY <1>8, <1>9

-----------------------------------------------------------------------------
(* What the layers above rely on. *)

LEMMA IdsAreNat == Ids \subseteq Nat
<1>1. \A p \in Page : \A i \in DOMAIN Keys[p] : Keys[p][i] \in Nat
  <2>1. \A p \in Page : Keys[p] \in Seq(Nat)
    BY PagesAssumption
  <2> QED
    BY <2>1, ElementOfSeq
<1>2. \A id \in Known : id \in Nat /\ id + 1 \in Nat
  BY <1>1 DEF Known
<1> QED
  BY <1>2 DEF Ids

\* With assertions verify() lets no database pass that lacks one of the nodes.
VInv == (assertsOn /\ pc = "ready") => \A nid \in Special : Lookup("NBT", nid) # None

AllInv == TInv /\ OInv /\ NInv /\ VInv

LEMMA NextVInv == TInv /\ OInv /\ NInv /\ VInv /\ [Next]_vars => VInv'
<1> SUFFICES ASSUME TInv, OInv, NInv, VInv, [Next]_vars, assertsOn', pc' = "ready",
                    NEW nid \in Special
             PROVE  Lookup("NBT", nid) # None
  BY DEF VInv
<1>1. assertsOn' = assertsOn
  BY DEF Next, ReadPage, NextChild, Return, Verify, Truncate, vars
<1>2. CASE Verify
  <2>1. pc = "verify" /\ Get("NBT", nid) # None
    BY <1>1, <1>2 DEF Verify
  <2>2. ~fail
    BY <1>1 DEF OInv, ZeroIsFail
  <2>3. "NBT" \in Trees /\ Finished("NBT")
    BY <2>1 DEF Trees, Finished
  <2>4. built["NBT"] = Image["NBT"]
    BY <2>1, <2>2, <2>3, FinishedIsImage
  <2>5. nid \in Nat
    BY PagesAssumption
  <2> QED
    BY <2>1, <2>3, <2>4, <2>5, GetIs
<1>3. CASE ~Verify
  <2>1. pc = "ready"
    BY <1>3 DEF Next, ReadPage, NextChild, Return, Truncate, vars
  <2> QED
    BY <1>1, <2>1 DEF VInv
<1> QED
  BY <1>2, <1>3

LEMMA Inductive == (Init => AllInv) /\ (AllInv /\ [Next]_vars => AllInv')
<1>1. Init => VInv
  BY DEF Init, VInv
<1> QED
  BY <1>1, InitTInv, NextTInv, InitOInv, NextOInv, InitNInv, NextNInv, NextVInv DEF AllInv

\* With assertions, a database that is handed out has every page of the file,
\* in its place, and the nodes that verify() asks for.
THEOREM ReadyStaysComplete == Spec => []ReadyIsComplete
<1>1. AllInv => ReadyIsComplete
  <2> SUFFICES ASSUME AllInv, assertsOn, pc = "ready"
               PROVE  Complete /\ \A nid \in Special : Lookup("NBT", nid) # None
    BY DEF ReadyIsComplete
  <2>1. \A t \in Trees : Finished(t) /\ ~fail
    BY DEF Finished, AllInv, OInv, ZeroIsFail
  <2>2. Complete
    BY <2>1, FinishedIsImage DEF Complete, AllInv
  <2> QED
    BY <2>2 DEF AllInv, VInv
<1> QED
  BY <1>1, Inductive, PTL DEF Spec

\* Whenever every page arrived, get() is the look-up in the set of the file's
\* entries, for trees of every height and every id.
THEOREM GetStaysLookup == Spec => []GetIsLookup
<1>1. GetIsLookup
  BY GetIs, IdsAreNat DEF GetIsLookup, Complete
<1> QED
  BY <1>1, PTL

\* Whenever every page arrived, all() returns each node with the index asked for
\* under its own type, if the type has a name, and under no other, and ends the program
\* only where it asserts and two of the types have no name.
THEOREM AllStaysTheGroup == Spec => []AllIsTheGroup
<1>1. AllIsTheGroup
  BY AllIs, IdsAreNat DEF AllIsTheGroup, Complete, Trees
<1> QED
  BY <1>1, PTL
=============================================================================
