----------------------------- MODULE FoldersProofs -----------------------------
(***************************************************************************)
(* Proofs about Folders: for every hierarchy of folders, of any depth, and *)
(* every size of batch, a program that gets a folder gets it from the      *)
(* whole tree, the first that matches, and its messages once each.         *)
(***************************************************************************)
EXTENDS Folders, SequenceTheorems, WellFoundedInduction, TLAPS

Last(s) == s[Len(s)]

-----------------------------------------------------------------------------
(* Numbers and paths. *)

\* The indices of rows: a path is a sequence of them.
Row == Nat \ {0}

LEMMA Least ==
  ASSUME NEW S \in SUBSET Nat, S # {}
  PROVE  \E m \in S : \A k \in S : m <= k
<1> DEFINE less == OpToRel(<, Nat)
<1>1. IsWellFoundedOn(less, Nat)
  BY NatLessThanWellFounded
<1>2. \A j, k \in Nat : j < k => <<j, k>> \in less
  BY DEF OpToRel
<1> HIDE DEF less
<1>3. PICK m \in S : \A k \in S : ~(<<k, m>> \in less)
  BY <1>1, WFMin
<1>4. \A k \in S : ~(k < m)
  BY <1>2, <1>3
<1> QED
  BY <1>3, <1>4

\* The path of a child.
LEMMA PathOfChild ==
  ASSUME NEW p \in Seq(Row), NEW row \in Row
  PROVE  LET q == Append(p, row)
         IN  /\ q \in Seq(Row) /\ q # <<>> /\ Len(q) = Len(p) + 1 /\ Len(p) \in Nat
             /\ \A j \in 1..Len(p) : q[j] = p[j]
             /\ q[Len(p) + 1] = row /\ Last(q) = row /\ Above(q) = p
<1> DEFINE q == Append(p, row)
<1>1. /\ q \in Seq(Row) /\ Len(q) = Len(p) + 1 /\ Len(p) \in Nat
      /\ \A j \in 1..Len(p) : q[j] = p[j]
      /\ q[Len(p) + 1] = row
  OBVIOUS
<1>2. q # <<>>
  BY <1>1, EmptySeq
<1> HIDE DEF q
<1>3. \A j \in 1..Len(p) : q[j] \in Row
  BY <1>1, ElementOfSeq
<1> DEFINE s == SubSeq(q, 1, Len(p))
<1>4. /\ s \in Seq(Row)
      /\ Len(s) = IF 1 <= Len(p) THEN Len(p) - 1 + 1 ELSE 0
      /\ \A j \in 1..(Len(p) - 1 + 1) : s[j] = q[1 + j - 1]
  BY <1>1, <1>3, SubSeqProperties
<1>5. Len(s) = Len(p) /\ \A j \in 1..Len(p) : s[j] = p[j]
  BY <1>1, <1>4
<1>6. s = p
  BY <1>4, <1>5, SeqEqual
<1>7. Above(q) = p
  <2>1. Len(q) - 1 = Len(p)
    BY <1>1
  <2> QED
    BY <1>6, <2>1 DEF Above
<1> QED
  BY <1>1, <1>2, <1>7 DEF Last, q

\* The path of the folder above.
LEMMA PathAbove ==
  ASSUME NEW q \in Seq(Row), q # <<>>
  PROVE  /\ Above(q) \in Seq(Row) /\ Len(q) \in Nat \ {0} /\ Len(Above(q)) = Len(q) - 1
         /\ Last(q) \in Row
         /\ \A j \in 1..(Len(q) - 1) : Above(q)[j] = q[j]
         /\ q = Append(Above(q), Last(q))
<1>1. Len(q) \in Nat \ {0}
  BY EmptySeq
<1>2. \A j \in 1..Len(q) : q[j] \in Row
  BY ElementOfSeq
<1> DEFINE n == Len(q) - 1
           s == SubSeq(q, 1, n)
<1>3. n \in Nat /\ n + 1 = Len(q) /\ n <= Len(q)
  BY <1>1
<1>7. s = Above(q)
  BY DEF Above
<1> HIDE DEF n
<1>4. \A j \in 1..n : q[j] \in Row
  BY <1>2, <1>3
<1>5. /\ s \in Seq(Row) /\ Len(s) = IF 1 <= n THEN n - 1 + 1 ELSE 0
      /\ \A j \in 1..(n - 1 + 1) : s[j] = q[1 + j - 1]
  BY <1>3, <1>4, SubSeqProperties
<1>6. Len(s) = n /\ \A j \in 1..n : s[j] = q[j]
  BY <1>3, <1>4, <1>5
<1> HIDE DEF s
<1>8. Last(q) \in Row /\ Last(q) = q[n + 1]
  BY <1>1, <1>2, <1>3 DEF Last
<1>9. q = Append(s, Last(q))
  <2> DEFINE a == Append(s, Last(q))
  <2>1. /\ a \in Seq(Row) /\ Len(a) = n + 1 /\ a[n + 1] = Last(q)
        /\ \A j \in 1..n : a[j] = s[j]
    BY <1>3, <1>5, <1>6, <1>8, PathOfChild
  <2> HIDE DEF a
  <2>2. \A j \in 1..Len(q) : q[j] = a[j]
    BY <1>3, <1>6, <1>8, <2>1
  <2>3. q = a
    BY <1>3, <2>1, <2>2, SeqEqual
  <2> QED
    BY <2>3 DEF a
<1> QED
  BY <1>1, <1>3, <1>5, <1>6, <1>7, <1>8, <1>9 DEF n

\* The first n steps of a path.
LEMMA PathPrefix ==
  ASSUME NEW q \in Seq(Row), NEW n \in 0..Len(q)
  PROVE  LET s == SubSeq(q, 1, n)
         IN  /\ s \in Seq(Row) /\ Len(s) = n
             /\ \A j \in 1..n : s[j] = q[j]
             /\ n = Len(q) => s = q
             /\ n # 0 => s # <<>> /\ Above(s) = SubSeq(q, 1, n - 1) /\ Last(s) = q[n]
             /\ n < Len(q) => Append(s, q[n + 1]) = SubSeq(q, 1, n + 1)
             /\ n = 0 => s = <<>>
<1>1. Len(q) \in Nat /\ n \in Nat /\ n <= Len(q)
  OBVIOUS
<1>2. ASSUME NEW m \in 0..Len(q)
      PROVE  /\ SubSeq(q, 1, m) \in Seq(Row) /\ Len(SubSeq(q, 1, m)) = m
             /\ \A j \in 1..m : SubSeq(q, 1, m)[j] = q[j] /\ q[j] \in Row
  <2>1. \A j \in 1..m : q[j] \in Row
    BY <1>1, ElementOfSeq
  <2>2. /\ SubSeq(q, 1, m) \in Seq(Row)
        /\ Len(SubSeq(q, 1, m)) = IF 1 <= m THEN m - 1 + 1 ELSE 0
        /\ \A j \in 1..(m - 1 + 1) : SubSeq(q, 1, m)[j] = q[1 + j - 1]
    BY <1>1, <2>1, SubSeqProperties
  <2> QED
    BY <1>1, <2>1, <2>2
<1> DEFINE s == SubSeq(q, 1, n)
<1>3. s \in Seq(Row) /\ Len(s) = n /\ \A j \in 1..n : s[j] = q[j]
  BY <1>1, <1>2
<1>4. n = Len(q) => s = q
  BY SubSeqFull
<1>5. n = 0 => s = <<>>
  BY <1>1, SubSeqEmpty
<1> HIDE DEF s
<1>6. ASSUME n # 0 PROVE s # <<>> /\ Above(s) = SubSeq(q, 1, n - 1) /\ Last(s) = q[n]
  <2>1. s # <<>>
    BY <1>1, <1>3, <1>6, EmptySeq
  <2>2. /\ Above(s) \in Seq(Row) /\ Len(Above(s)) = n - 1
        /\ \A j \in 1..(n - 1) : Above(s)[j] = s[j]
    BY <1>3, <2>1, PathAbove
  <2> DEFINE m == n - 1
             t == SubSeq(q, 1, m)
  <2>3. m \in 0..Len(q)
    BY <1>1, <1>6
  <2>4. t \in Seq(Row) /\ Len(t) = m /\ \A j \in 1..m : t[j] = q[j]
    BY <1>2, <2>3
  <2>5. \A j \in 1..m : Above(s)[j] = q[j]
    BY <1>1, <1>3, <2>2
  <2> HIDE DEF m, t
  <2>6. Above(s) = t
    <3>1. Len(Above(s)) = m /\ \A j \in 1..m : Above(s)[j] = t[j]
      BY <2>2, <2>4, <2>5 DEF m
    <3> QED
      BY <2>2, <2>4, <3>1, SeqEqual
  <2>7. Last(s) = q[n]
    BY <1>1, <1>3, <1>6 DEF Last
  <2> QED
    BY <2>1, <2>6, <2>7 DEF m, t
<1>7. ASSUME n < Len(q) PROVE Append(s, q[n + 1]) = SubSeq(q, 1, n + 1)
  <2> DEFINE m == n + 1
             t == SubSeq(q, 1, m)
             a == Append(s, q[m])
  <2>1. m \in 0..Len(q) /\ m \in 1..Len(q)
    BY <1>1, <1>7
  <2>2. t \in Seq(Row) /\ Len(t) = m /\ \A j \in 1..m : t[j] = q[j]
    BY <1>2, <2>1
  <2>3. q[m] \in Row
    BY <2>1, ElementOfSeq
  <2>4. a \in Seq(Row) /\ Len(a) = n + 1 /\ a[n + 1] = q[m] /\ \A j \in 1..n : a[j] = s[j]
    BY <1>3, <2>3, PathOfChild
  <2>5. \A j \in 1..m : a[j] = q[j]
    BY <1>1, <1>3, <2>4
  <2> HIDE DEF a, t
  <2>6. a = t
    <3>1. Len(a) = m /\ \A j \in 1..m : a[j] = t[j]
      BY <2>2, <2>4, <2>5
    <3> QED
      BY <2>2, <2>4, <3>1, SeqEqual
  <2> QED
    BY <2>6 DEF a, t
<1> QED
  BY <1>3, <1>4, <1>5, <1>6, <1>7 DEF s

\* What has the folder above each of its folders has all those above it.
LEMMA PrefixClosed ==
  ASSUME NEW S \in SUBSET Seq(Row), \A p \in S : p # <<>> => Above(p) \in S,
         NEW q \in S, NEW n \in 0..Len(q)
  PROVE  SubSeq(q, 1, n) \in S
<1> DEFINE B == {k \in Nat : k <= Len(q) /\ SubSeq(q, 1, Len(q) - k) \notin S}
<1>0. q \in Seq(Row)
  OBVIOUS
<1>1. Len(q) \in Nat
  BY <1>0
<1>2. SUFFICES B = {}
  <2>1. Len(q) - n \in Nat /\ Len(q) - n <= Len(q) /\ Len(q) - (Len(q) - n) = n
    BY <1>1
  <2> QED
    BY <1>2, <2>1
<1>3. SUFFICES ASSUME B # {} PROVE FALSE
  OBVIOUS
<1>4. PICK k \in B : \A j \in B : k <= j
  BY <1>3, Least
<1>11. k \in Nat /\ k <= Len(q)
  BY <1>4
<1>5. k # 0
  <2> SUFFICES ASSUME k = 0 PROVE FALSE
    OBVIOUS
  <2>1. SubSeq(q, 1, Len(q)) = q /\ Len(q) - k = Len(q)
    BY <1>0, <1>1, SubSeqFull
  <2>2. SubSeq(q, 1, Len(q) - k) \notin S
    BY <1>4
  <2> QED
    BY <2>1, <2>2
<1> DEFINE m == Len(q) - k + 1
<1>6. m \in 1..Len(q) /\ m \in 0..Len(q) /\ m = Len(q) - (k - 1) /\ k - 1 \in Nat /\ k - 1 <= Len(q)
      /\ m - 1 = Len(q) - k
  BY <1>1, <1>5, <1>11
<1>9. SubSeq(q, 1, Len(q) - k) \notin S
  BY <1>4
<1>10. k - 1 \notin B
  <2>1. ~(k <= k - 1)
    BY <1>11
  <2> QED
    BY <1>4, <2>1
<1> HIDE DEF m
<1>7. SubSeq(q, 1, m) \in S
  <2>1. SubSeq(q, 1, Len(q) - (k - 1)) \in S
    BY <1>6, <1>10
  <2> QED
    BY <1>6, <2>1
<1>8. SubSeq(q, 1, m) # <<>> /\ Above(SubSeq(q, 1, m)) = SubSeq(q, 1, m - 1)
  <2>1. m # 0
    BY <1>6
  <2> QED
    BY <1>0, <1>6, <2>1, PathPrefix
<1> QED
  BY <1>6, <1>7, <1>8, <1>9

\* r leads to s, or to a folder above it.
Prefix(r, s) == Len(r) <= Len(s) /\ \A j \in 1..Len(r) : r[j] = s[j]

LEMMA PrefixIsInitial ==
  ASSUME NEW r \in Seq(Row), NEW s \in Seq(Row), Prefix(r, s)
  PROVE  /\ Len(r) \in 0..Len(s) /\ SubSeq(s, 1, Len(r)) = r
         /\ Len(r) = Len(s) => r = s
<1>1. Len(r) \in Nat /\ Len(s) \in Nat /\ Len(r) \in 0..Len(s)
  BY DEF Prefix
<1> DEFINE t == SubSeq(s, 1, Len(r))
<1>2. t \in Seq(Row) /\ Len(t) = Len(r) /\ (\A j \in 1..Len(r) : t[j] = s[j]) /\ (Len(r) = Len(s) => t = s)
  BY <1>1, PathPrefix
<1> HIDE DEF t
<1>3. t = r
  BY <1>2, SeqEqual DEF Prefix
<1> QED
  BY <1>1, <1>2, <1>3 DEF t

\* What is a prefix of a child's path is the child's or leads to its parent.
LEMMA PrefixOfChild ==
  ASSUME NEW r \in Seq(Row), NEW s \in Seq(Row), NEW j \in Row, Prefix(r, Append(s, j))
  PROVE  r = Append(s, j) \/ Prefix(r, s)
<1> DEFINE t == Append(s, j)
<1>1. t \in Seq(Row) /\ Len(t) = Len(s) + 1 /\ \A k \in 1..Len(s) : t[k] = s[k]
  BY PathOfChild
<1> HIDE DEF t
<1>2. Prefix(r, t) /\ Len(r) \in Nat /\ Len(s) \in Nat
  BY DEF t
<1>3. CASE Len(r) = Len(t)
  BY <1>1, <1>2, <1>3, PrefixIsInitial DEF t
<1>4. CASE Len(r) <= Len(s)
  <2>1. \A k \in 1..Len(r) : r[k] = s[k]
    BY <1>1, <1>2, <1>4 DEF Prefix
  <2> QED
    BY <1>4, <2>1 DEF Prefix
<1> QED
  BY <1>1, <1>2, <1>3, <1>4 DEF Prefix

LEMMA PrefixToChild ==
  ASSUME NEW r \in Seq(Row), NEW s \in Seq(Row), NEW j \in Row, Prefix(r, s)
  PROVE  Prefix(r, Append(s, j)) /\ Len(r) < Len(Append(s, j)) /\ r # Append(s, j)
<1> DEFINE t == Append(s, j)
<1>1. t \in Seq(Row) /\ Len(t) = Len(s) + 1 /\ \A k \in 1..Len(s) : t[k] = s[k]
  BY PathOfChild
<1>2. Len(r) \in Nat /\ Len(s) \in Nat
  OBVIOUS
<1> HIDE DEF t
<1>3. Prefix(r, t) /\ Len(r) < Len(t) /\ r # t
  BY <1>1, <1>2 DEF Prefix
<1> QED
  BY <1>3 DEF t

-----------------------------------------------------------------------------
(* The tree under construction. *)

Building == {"init", "subfolders"}
Whole == {"ready", "found", "loop"}

\* The rows that lead to path from a folder that is above it.
OnPath(p) == Prefix(p, path) /\ Len(p) < Len(path)

Records ==
  /\ DOMAIN folder \subseteq Seq(Row)
  /\ \A p \in DOMAIN folder : folder[p] \in [nid : Nid, next : Nat]
  /\ \E n \in Nat : \A p \in DOMAIN folder : Len(p) <= n

\* Every folder is the one in its parent's row.
TreeOK ==
  \A p \in DOMAIN folder :
    /\ p = <<>> => NidOf(p) = Root
    /\ p # <<>> => /\ Above(p) \in DOMAIN folder
                   /\ Last(p) \in DOMAIN SubFolders[NidOf(Above(p))]
                   /\ NidOf(p) = SubFolders[NidOf(Above(p))][Last(p)]

\* The folders above the one whose constructor runs are at the row that leads to it.
PathOK ==
  /\ (pc \in Building /\ path # <<>>) => Above(path) \in DOMAIN folder
  /\ pc \in Building =>
       \A p \in DOMAIN folder : OnPath(p) =>
         /\ folder[p].next = path[Len(p) + 1]
         /\ path[Len(p) + 1] \in DOMAIN SubFolders[NidOf(p)]
  /\ pc = "subfolders" => path \in DOMAIN folder
  /\ (pc \in Whole \cup {"subfolders"} \/ (pc = "init" /\ path # <<>>)) => <<>> \in DOMAIN folder

\* The rows that a folder has passed have their folders.
ChildrenOK ==
  \A p \in DOMAIN folder : \A j \in 1..(folder[p].next - 1) : Append(p, j) \in DOMAIN folder

\* The folders off that path are complete.
DoneOK ==
  \A p \in DOMAIN folder :
    ((pc \in Building /\ ~Prefix(p, path)) \/ pc \in Whole) =>
      folder[p].next = Len(SubFolders[NidOf(p)]) + 1

\* Nothing is read before all is built.
UseOK ==
  /\ pc \in Building \cup {"ready"} => found = None
  /\ pc = "found" => asked \in Ids
  /\ pc = "loop" => found # None /\ got = SubSeq(InFolder, 1, ActualEnd(i))
  /\ BatchesAreTheFolder

IInv == TypeOK /\ Records /\ TreeOK /\ PathOK /\ ChildrenOK /\ DoneOK /\ UseOK

LEMMA RowsOf == \A n \in Nid : SubFolders[n] \in Seq(Nid) /\ Len(SubFolders[n]) \in Nat
                               /\ DOMAIN SubFolders[n] = 1..Len(SubFolders[n])
                               /\ \A j \in DOMAIN SubFolders[n] : SubFolders[n][j] \in Nid
<1> SUFFICES ASSUME NEW n \in Nid
             PROVE  SubFolders[n] \in Seq(Nid) /\ Len(SubFolders[n]) \in Nat
                    /\ DOMAIN SubFolders[n] = 1..Len(SubFolders[n])
                    /\ \A j \in DOMAIN SubFolders[n] : SubFolders[n][j] \in Nid
  OBVIOUS
<1>1. SubFolders[n] \in Seq(Nid)
  BY FoldersAssumption
<1> QED
  BY <1>1, ElementOfSeq

LEMMA InitIInv == Init => IInv
<1> SUFFICES ASSUME Init PROVE IInv
  OBVIOUS
<1>1. DOMAIN folder = {} /\ path \in Seq(Row)
  BY DEF Init
<1>2. TypeOK
  BY <1>1 DEF Init, TypeOK, Row
<1>3. Records
  BY <1>1 DEF Records
<1>4. TreeOK /\ PathOK /\ ChildrenOK /\ DoneOK
  BY <1>1 DEF Init, TreeOK, PathOK, ChildrenOK, DoneOK, Whole
<1>5. UseOK
  BY DEF Init, UseOK, BatchesAreTheFolder
<1> QED
  BY <1>2, <1>3, <1>4, <1>5 DEF IInv

\* The folder above the one whose constructor runs is at its row.
LEMMA AboveIs ==
  ASSUME IInv, pc \in Building, path # <<>>
  PROVE  LET a == Above(path)
         IN  /\ a \in DOMAIN folder /\ a \in Seq(Row) /\ folder[a].next = Last(path)
             /\ Last(path) \in DOMAIN SubFolders[NidOf(a)] /\ NidOf(a) \in Nid
             /\ path = Append(a, Last(path)) /\ Last(path) \in Row
             /\ Prefix(a, path) /\ Len(a) = Len(path) - 1
<1>1. path \in Seq(Row) /\ Above(path) \in DOMAIN folder
  BY DEF IInv, TypeOK, PathOK, Row
<1> DEFINE a == Above(path)
<1>2. /\ a \in Seq(Row) /\ Len(path) \in Nat \ {0} /\ Len(a) = Len(path) - 1
      /\ Last(path) \in Row /\ path = Append(a, Last(path))
      /\ \A j \in 1..(Len(path) - 1) : a[j] = path[j]
  BY <1>1, PathAbove
<1> HIDE DEF a
<1>3. Prefix(a, path) /\ Len(a) < Len(path) /\ Len(a) + 1 = Len(path)
  BY <1>2 DEF Prefix
<1>4. a \in DOMAIN folder
  BY <1>1 DEF a
<1>5. folder[a].next = path[Len(a) + 1] /\ path[Len(a) + 1] \in DOMAIN SubFolders[NidOf(a)]
  BY <1>3, <1>4 DEF IInv, PathOK, OnPath
<1>6. NidOf(a) \in Nid
  BY <1>4 DEF IInv, TypeOK
<1> QED
  BY <1>2, <1>3, <1>4, <1>5, <1>6 DEF Last, a

LEMMA WantedIs ==
  ASSUME IInv, pc \in Building
  PROVE  /\ Wanted \in Nid
         /\ path = <<>> => Wanted = Root
         /\ path # <<>> => Wanted = SubFolders[NidOf(Above(path))][Last(path)]
<1>1. CASE path = <<>>
  BY <1>1, FoldersAssumption DEF Wanted
<1>2. CASE path # <<>>
  <2>1. Wanted = SubFolders[NidOf(Above(path))][Last(path)]
    BY <1>2, AboveIs DEF Wanted
  <2> QED
    BY <1>2, <2>1, AboveIs, RowsOf
<1> QED
  BY <1>1, <1>2

LEMMA InitFolderIInv == IInv /\ InitFolder => IInv'
<1> SUFFICES ASSUME IInv, InitFolder PROVE IInv'
  OBVIOUS
<1>0. pc = "init" /\ pc \in Building /\ UNCHANGED <<assertsOn, parts, path, found, asked, batch, i, got>>
  BY DEF InitFolder, Building, image, program
<1>1. CASE ~(FourParts \subseteq parts[Wanted])
  <2>1. folder' = <<>> /\ pc' \in {"thrown", "aborted"}
    BY <1>1 DEF InitFolder
  <2>2. DOMAIN folder' = {}
    BY <2>1
  <2>3. found = None
    BY <1>0 DEF IInv, UseOK
  <2>4. TypeOK'
    BY <1>0, <2>1, <2>2, <2>3 DEF IInv, TypeOK
  <2>5. Records'
    BY <2>2 DEF Records
  <2>6. (TreeOK /\ PathOK /\ ChildrenOK /\ DoneOK)'
    BY <2>1, <2>2 DEF TreeOK, PathOK, ChildrenOK, DoneOK, Building, Whole
  <2>7. UseOK'
    BY <1>0, <2>1, <2>3 DEF UseOK, Building, BatchesAreTheFolder
  <2> QED
    BY <2>4, <2>5, <2>6, <2>7 DEF IInv
<1>2. CASE FourParts \subseteq parts[Wanted]
  <2> DEFINE D == DOMAIN folder \cup {path}
  <2>1. /\ folder' = [p \in D |-> IF p = path THEN [nid |-> Wanted, next |-> 1] ELSE folder[p]]
        /\ pc' = "subfolders" /\ pc' \in Building /\ pc' \notin Whole
    BY <1>2 DEF InitFolder, Building, Whole
  <2>2. /\ DOMAIN folder' = D /\ folder'[path] = [nid |-> Wanted, next |-> 1]
        /\ \A p \in DOMAIN folder : p # path => folder'[p] = folder[p]
    BY <2>1
  <2>3. Wanted \in Nid /\ path \in Seq(Row)
    BY <1>0, WantedIs DEF IInv, TypeOK, Row
  <2>4. \A p \in DOMAIN folder : p \in Seq(Row) /\ folder[p] \in [nid : Nid, next : Nat]
    BY DEF IInv, Records
  <2>13. path # <<>> => <<>> \in DOMAIN folder /\ Above(path) \in DOMAIN folder
    BY <1>0 DEF IInv, PathOK
  <2>5. \A p \in DOMAIN folder : folder'[p].nid = NidOf(p)
    <3>1. path \in DOMAIN folder => NidOf(path) = Wanted
      <4>1. CASE path = <<>>
        BY <1>0, <4>1, WantedIs DEF IInv, TreeOK
      <4>2. CASE path # <<>>
        BY <1>0, <4>2, WantedIs DEF IInv, TreeOK
      <4> QED
        BY <4>1, <4>2
    <3> QED
      BY <2>2, <3>1 DEF NidOf
  <2>14. folder'[path].nid = Wanted /\ folder'[path].next = 1
    BY <1>0, <2>2 DEF NidOf
  <2> HIDE DEF D
  <2>6. TypeOK'
    <3>1. ASSUME NEW p \in D
          PROVE  /\ p # <<>> => Above(p) \in D
                 /\ folder'[p].nid \in Nid /\ folder'[p].next \in 1..(Len(SubFolders[folder'[p].nid]) + 1)
      <4>1. CASE p = path
        <5>1. Len(SubFolders[Wanted]) \in Nat
          BY <2>3, RowsOf
        <5> QED
          BY <2>3, <2>13, <2>14, <4>1, <5>1 DEF D
      <4>2. CASE p # path
        <5>1. p \in DOMAIN folder
          BY <4>2 DEF D
        <5> QED
          BY <2>2, <2>5, <4>2, <5>1 DEF IInv, TypeOK, D
      <4> QED
        BY <4>1, <4>2
    <3> QED
      BY <1>0, <2>1, <2>2, <2>3, <3>1 DEF IInv, TypeOK, D, Row, NidOf
  <2>7. Records'
    <3>1. PICK n \in Nat : \A p \in DOMAIN folder : Len(p) <= n
      BY DEF IInv, Records
    <3>2. \A p \in D : p \in Seq(Row) /\ folder'[p] \in [nid : Nid, next : Nat]
      BY <2>2, <2>3, <2>4 DEF D
    <3>3. \A p \in D : Len(p) <= n + Len(path) /\ n + Len(path) \in Nat
      BY <2>3, <2>4, <3>1 DEF D
    <3> QED
      BY <2>2, <2>3, <3>2, <3>3 DEF Records
  <2>8. TreeOK'
    <3>1. \A p \in D : p # <<>> => Above(p) \in DOMAIN folder
      BY <2>13 DEF IInv, TreeOK, D
    <3>2. ASSUME NEW p \in D
          PROVE  /\ p = <<>> => folder'[p].nid = Root
                 /\ p # <<>> => /\ Above(p) \in D
                                /\ Last(p) \in DOMAIN SubFolders[folder'[Above(p)].nid]
                                /\ folder'[p].nid = SubFolders[folder'[Above(p)].nid][Last(p)]
      <4>1. CASE p = path
        <5>1. CASE path = <<>>
          BY <1>0, <2>14, <4>1, <5>1, WantedIs
        <5>2. CASE path # <<>>
          <6>1. Above(path) \in DOMAIN folder /\ Last(path) \in DOMAIN SubFolders[NidOf(Above(path))]
            BY <1>0, <5>2, AboveIs
          <6>2. folder'[Above(path)].nid = NidOf(Above(path))
            BY <2>5, <6>1
          <6> QED
            BY <1>0, <2>14, <4>1, <5>2, <6>1, <6>2, WantedIs DEF D
        <5> QED
          BY <5>1, <5>2
      <4>2. CASE p # path
        <5>1. p \in DOMAIN folder
          BY <4>2 DEF D
        <5>2. p # <<>> => folder'[Above(p)].nid = NidOf(Above(p))
          BY <2>5, <3>1, <5>1 DEF D
        <5> QED
          BY <2>5, <5>1, <5>2 DEF IInv, TreeOK, D
      <4> QED
        BY <4>1, <4>2
    <3> QED
      BY <2>2, <3>2 DEF TreeOK, NidOf
  <2>9. PathOK'
    <3>1. \A p \in D : OnPath(p) => p \in DOMAIN folder /\ p # path
      BY <2>3 DEF D, OnPath
    <3>2. \A p \in D : OnPath(p)' <=> OnPath(p)
      BY <1>0 DEF OnPath
    <3>3. ASSUME NEW p \in D, OnPath(p)'
          PROVE  /\ folder'[p].next = path'[Len(p) + 1]
                 /\ path'[Len(p) + 1] \in DOMAIN SubFolders[folder'[p].nid]
      <4>1. OnPath(p) /\ p \in DOMAIN folder /\ p # path
        BY <3>1, <3>2, <3>3
      <4> QED
        BY <1>0, <2>2, <2>5, <4>1 DEF IInv, PathOK
    <3> QED
      BY <1>0, <2>1, <2>2, <2>13, <3>3 DEF PathOK, D, NidOf
  <2>10. ChildrenOK'
    <3>1. ASSUME NEW p \in D, NEW j \in 1..(folder'[p].next - 1) PROVE Append(p, j) \in D
      <4>1. p # path /\ p \in DOMAIN folder
        BY <2>14 DEF D
      <4> QED
        BY <2>2, <4>1 DEF IInv, ChildrenOK, D
    <3> QED
      BY <2>2, <3>1 DEF ChildrenOK
  <2>11. DoneOK'
    <3>1. ASSUME NEW p \in D, ~Prefix(p, path)
          PROVE  folder'[p].next = Len(SubFolders[folder'[p].nid]) + 1
      <4>1. p # path
        BY <2>3, <3>1 DEF Prefix
      <4>2. p \in DOMAIN folder
        BY <4>1 DEF D
      <4> QED
        BY <1>0, <2>2, <2>5, <3>1, <4>1, <4>2 DEF IInv, DoneOK
    <3> QED
      BY <1>0, <2>1, <2>2, <3>1 DEF DoneOK, NidOf
  <2>12. UseOK'
    BY <1>0, <2>1 DEF IInv, UseOK, BatchesAreTheFolder
  <2> QED
    BY <2>6, <2>7, <2>8, <2>9, <2>10, <2>11, <2>12 DEF IInv
<1> QED
  BY <1>1, <1>2

LEMMA EnterIInv == IInv /\ EnterSubFolder => IInv'
<1> SUFFICES ASSUME IInv, EnterSubFolder PROVE IInv'
  OBVIOUS
<1> DEFINE row == folder[path].next
<1>0. /\ pc = "subfolders" /\ pc' = "init" /\ path' = Append(path, row)
      /\ row <= Len(SubFolders[NidOf(path)])
      /\ UNCHANGED <<assertsOn, parts, folder, found, asked, batch, i, got>>
  BY DEF EnterSubFolder, More, image, program
<1>1. path \in DOMAIN folder /\ path \in Seq(Row) /\ <<>> \in DOMAIN folder /\ pc \in Building
  BY <1>0 DEF IInv, TypeOK, PathOK, Building, Row
<1>2. NidOf(path) \in Nid /\ row \in 1..(Len(SubFolders[NidOf(path)]) + 1)
  BY <1>1 DEF IInv, TypeOK
<1>3. row \in DOMAIN SubFolders[NidOf(path)] /\ row \in Row
  BY <1>0, <1>2, RowsOf DEF Row
<1> HIDE DEF row
<1>4. /\ path' \in Seq(Row) /\ path' # <<>> /\ Above(path') = path
      /\ Len(path') = Len(path) + 1 /\ path'[Len(path) + 1] = row
      /\ \A j \in 1..Len(path) : path'[j] = path[j]
  BY <1>0, <1>1, <1>3, PathOfChild
<1>5. \A p \in DOMAIN folder : p \in Seq(Row) /\ Len(p) \in Nat
  BY DEF IInv, Records
<1>6. \A p \in DOMAIN folder : Prefix(p, path) => Prefix(p, path')
  BY <1>0, <1>1, <1>3, <1>5, PrefixToChild
<1>7. TypeOK'
  BY <1>0, <1>4 DEF IInv, TypeOK, Row, NidOf
<1>8. (Records /\ TreeOK /\ ChildrenOK)'
  BY <1>0 DEF IInv, Records, TreeOK, ChildrenOK, NidOf
<1>9. PathOK'
  <2>1. ASSUME NEW p \in DOMAIN folder, Prefix(p, path'), Len(p) < Len(path')
        PROVE  folder[p].next = path'[Len(p) + 1] /\ path'[Len(p) + 1] \in DOMAIN SubFolders[NidOf(p)]
    <3>1. Prefix(p, path)
      <4>1. Prefix(p, Append(path, row)) /\ p # Append(path, row)
        BY <1>0, <2>1
      <4> QED
        BY <1>1, <1>3, <1>5, <4>1, PrefixOfChild
    <3>2. CASE Len(p) = Len(path)
      <4>1. p = path
        BY <1>1, <1>5, <3>1, <3>2, PrefixIsInitial
      <4> QED
        BY <1>3, <1>4, <4>1 DEF row
    <3>3. CASE Len(p) # Len(path)
      <4>1. Len(p) + 1 \in 1..Len(path) /\ OnPath(p)
        BY <1>1, <1>5, <3>1, <3>3 DEF Prefix, OnPath
      <4> QED
        BY <1>1, <1>4, <4>1 DEF IInv, PathOK
    <3> QED
      BY <3>2, <3>3
  <2> QED
    BY <1>0, <1>1, <1>4, <2>1 DEF PathOK, OnPath, Whole, NidOf
<1>10. DoneOK'
  BY <1>0, <1>1, <1>6 DEF IInv, DoneOK, Whole, NidOf
<1>11. UseOK'
  BY <1>0 DEF IInv, UseOK, Building, BatchesAreTheFolder
<1> QED
  BY <1>7, <1>8, <1>9, <1>10, <1>11 DEF IInv

LEMMA ReturnIInv == IInv /\ Return => IInv'
<1> SUFFICES ASSUME IInv, Return PROVE IInv'
  OBVIOUS
<1>0. /\ pc = "subfolders" /\ pc \in Building /\ ~More
      /\ UNCHANGED <<assertsOn, parts, found, asked, batch, i, got>>
  BY DEF Return, image, program, Building
<1>1. path \in DOMAIN folder /\ path \in Seq(Row) /\ <<>> \in DOMAIN folder
  BY <1>0 DEF IInv, TypeOK, PathOK, Row
<1>2. \A p \in DOMAIN folder : /\ p \in Seq(Row) /\ Len(p) \in Nat /\ NidOf(p) \in Nid
                               /\ folder[p] \in [nid : Nid, next : Nat]
                               /\ folder[p].next \in 1..(Len(SubFolders[NidOf(p)]) + 1)
                               /\ Len(SubFolders[NidOf(p)]) \in Nat
                               /\ DOMAIN SubFolders[NidOf(p)] = 1..Len(SubFolders[NidOf(p)])
  BY RowsOf DEF IInv, Records, TypeOK
<1>3. folder[path].next = Len(SubFolders[NidOf(path)]) + 1
  BY <1>0, <1>1, <1>2 DEF More
<1>4. CASE path = <<>>
  <2>1. pc' = "ready" /\ UNCHANGED <<folder, path>> /\ pc' \notin Building /\ pc' \in Whole
    BY <1>4, <1>0 DEF Return, Building, Whole
  <2>2. \A p \in DOMAIN folder : Prefix(p, path) => p = path
    <3>1. Len(path) = 0
      BY <1>4, EmptySeq
    <3> QED
      BY <1>1, <1>2, <3>1, PrefixIsInitial DEF Prefix
  <2>3. TypeOK'
    BY <1>0, <2>1 DEF IInv, TypeOK, NidOf
  <2>4. (Records /\ TreeOK /\ ChildrenOK)'
    BY <2>1 DEF IInv, Records, TreeOK, ChildrenOK, NidOf
  <2>5. PathOK'
    BY <1>1, <2>1 DEF PathOK, Building
  <2>6. DoneOK'
    BY <1>0, <1>3, <2>1, <2>2 DEF IInv, DoneOK, NidOf
  <2>7. UseOK'
    BY <1>0, <2>1 DEF IInv, UseOK, BatchesAreTheFolder
  <2> QED
    BY <2>3, <2>4, <2>5, <2>6, <2>7 DEF IInv
<1>5. CASE path # <<>>
  <2> DEFINE a == Above(path)
  <2>1. /\ a \in DOMAIN folder /\ a \in Seq(Row) /\ folder[a].next = Last(path)
        /\ Last(path) \in DOMAIN SubFolders[NidOf(a)] /\ NidOf(a) \in Nid
        /\ path = Append(a, Last(path)) /\ Last(path) \in Row
        /\ Prefix(a, path) /\ Len(a) = Len(path) - 1
    BY <1>0, <1>5, AboveIs
  <2>2. /\ folder' = [folder EXCEPT ![a].next = @ + 1] /\ path' = a /\ pc' = pc
    BY <1>5 DEF Return
  <2> HIDE DEF a
  <2>3. /\ DOMAIN folder' = DOMAIN folder
        /\ folder'[a] = [nid |-> NidOf(a), next |-> Last(path) + 1]
        /\ \A p \in DOMAIN folder : p # a => folder'[p] = folder[p]
    <3>1. DOMAIN folder' = DOMAIN folder /\ \A p \in DOMAIN folder : p # a => folder'[p] = folder[p]
      BY <2>2
    <3>2. folder'[a] = [folder[a] EXCEPT !.next = @ + 1]
      BY <2>1, <2>2
    <3>3. folder[a] \in [nid : Nid, next : Nat]
      BY <1>2, <2>1
    <3> QED
      BY <2>1, <3>1, <3>2, <3>3 DEF NidOf
  <2>4. \A p \in DOMAIN folder : folder'[p].nid = NidOf(p)
    BY <2>3 DEF NidOf
  <2>5. folder'[a].next = Last(path) + 1 /\ Last(path) \in 1..Len(SubFolders[NidOf(a)])
        /\ Len(path) \in Nat /\ Len(a) \in Nat
    BY <1>1, <1>2, <2>1, <2>3
  <2>6. TypeOK'
    <3>1. ASSUME NEW p \in DOMAIN folder
          PROVE  /\ p # <<>> => Above(p) \in DOMAIN folder
                 /\ folder'[p].nid \in Nid /\ folder'[p].next \in 1..(Len(SubFolders[folder'[p].nid]) + 1)
      <4>1. folder'[p].next \in 1..(Len(SubFolders[NidOf(p)]) + 1)
        <5>1. CASE p = a
          <6>1. Last(path) + 1 \in 1..(Len(SubFolders[NidOf(a)]) + 1)
            BY <1>2, <2>1, <2>5
          <6> QED
            BY <2>5, <5>1, <6>1
        <5>2. CASE p # a
          BY <1>2, <2>3, <5>2
        <5> QED
          BY <5>1, <5>2
      <4> QED
        BY <1>2, <2>4, <4>1 DEF IInv, TypeOK
    <3> QED
      BY <1>0, <2>1, <2>2, <2>3, <3>1 DEF IInv, TypeOK, Row, NidOf
  <2>7. Records'
    <3>1. folder'[a] \in [nid : Nid, next : Nat]
      <4>1. Last(path) + 1 \in Nat /\ NidOf(a) \in Nid
        BY <2>1 DEF Row
      <4> QED
        BY <2>3, <4>1
    <3>2. \A p \in DOMAIN folder : folder'[p] \in [nid : Nid, next : Nat]
      BY <1>2, <2>3, <3>1
    <3> QED
      BY <2>3, <3>2 DEF IInv, Records
  <2>8. TreeOK'
    <3>1. ASSUME NEW p \in DOMAIN folder
          PROVE  /\ p = <<>> => folder'[p].nid = Root
                 /\ p # <<>> => /\ Above(p) \in DOMAIN folder
                                /\ Last(p) \in DOMAIN SubFolders[folder'[Above(p)].nid]
                                /\ folder'[p].nid = SubFolders[folder'[Above(p)].nid][Last(p)]
      BY <2>4 DEF IInv, TreeOK
    <3> QED
      BY <2>3, <3>1 DEF TreeOK, NidOf
  <2>9. PathOK'
    <3>1. ASSUME NEW p \in DOMAIN folder, Prefix(p, a), Len(p) < Len(a)
          PROVE  folder'[p].next = a[Len(p) + 1] /\ a[Len(p) + 1] \in DOMAIN SubFolders[folder'[p].nid]
      <4>1. Prefix(p, path) /\ Len(p) < Len(path) /\ path[Len(p) + 1] = a[Len(p) + 1] /\ p # a
        <5>1. Len(p) \in Nat /\ Len(p) + 1 \in 1..Len(a)
          BY <1>2, <2>5, <3>1
        <5>2. Prefix(a, path) /\ Len(a) = Len(path) - 1
          BY <2>1
        <5>3. path[Len(p) + 1] = a[Len(p) + 1]
          BY <5>1, <5>2 DEF Prefix
        <5>4. \A j \in 1..Len(p) : p[j] = path[j]
          BY <2>5, <3>1, <5>1, <5>2 DEF Prefix
        <5> QED
          BY <2>5, <3>1, <5>1, <5>2, <5>3, <5>4 DEF Prefix
      <4> QED
        BY <1>0, <2>3, <2>4, <4>1 DEF IInv, PathOK, OnPath
    <3>2. a # <<>> => Above(a) \in DOMAIN folder
      BY <2>1 DEF IInv, TreeOK
    <3>3. pc' \in Building /\ pc' = "subfolders"
      BY <1>0, <2>2
    <3> QED
      BY <1>1, <2>1, <2>2, <2>3, <3>1, <3>2, <3>3 DEF PathOK, OnPath, NidOf
  <2>10. ChildrenOK'
    <3>1. ASSUME NEW p \in DOMAIN folder, NEW j \in 1..(folder'[p].next - 1)
          PROVE  Append(p, j) \in DOMAIN folder
      <4>1. CASE p # a
        BY <2>3, <4>1 DEF IInv, ChildrenOK
      <4>2. CASE p = a
        <5>1. j \in 1..Last(path)
          BY <2>5, <4>2
        <5>2. CASE j = Last(path)
          BY <1>1, <2>1, <4>2, <5>2
        <5>3. CASE j # Last(path)
          <6>1. j \in 1..(folder[a].next - 1)
            BY <2>1, <2>5, <5>1, <5>3
          <6> QED
            BY <2>1, <4>2, <6>1 DEF IInv, ChildrenOK
        <5> QED
          BY <5>2, <5>3
      <4> QED
        BY <4>1, <4>2
    <3> QED
      BY <2>3, <3>1 DEF ChildrenOK
  <2>11. DoneOK'
    <3>1. ASSUME NEW p \in DOMAIN folder, ~Prefix(p, a)
          PROVE  folder'[p].next = Len(SubFolders[folder'[p].nid]) + 1
      <4>1. p # a
        BY <2>1, <3>1 DEF Prefix, Row
      <4>2. CASE p = path
        BY <1>3, <2>3, <2>4, <4>1, <4>2
      <4>3. CASE p # path
        <5>1. ~Prefix(p, path)
          <6>1. p # Append(a, Last(path))
            BY <2>1, <4>3
          <6>2. ~Prefix(p, Append(a, Last(path)))
            BY <1>2, <2>1, <3>1, <6>1, PrefixOfChild
          <6> QED
            BY <2>1, <6>2
        <5> QED
          BY <1>0, <2>3, <2>4, <4>1, <5>1 DEF IInv, DoneOK
      <4> QED
        BY <4>2, <4>3
    <3>2. pc' \notin Whole
      BY <1>0, <2>2 DEF Whole
    <3> QED
      BY <2>2, <2>3, <3>1, <3>2 DEF DoneOK, NidOf
  <2>12. UseOK'
    BY <1>0, <2>2 DEF IInv, UseOK, BatchesAreTheFolder
  <2> QED
    BY <2>6, <2>7, <2>8, <2>9, <2>10, <2>11, <2>12 DEF IInv
<1> QED
  BY <1>4, <1>5

-----------------------------------------------------------------------------
(* The search. *)

\* The rows of p whose subtree answers.
Answers(f, p) == {j \in 1..Len(SubFolders[NidOf(p)]) : f[Append(p, j)] # None}

SearchBody(f, id, p) ==
  IF Accepted(p, id) THEN p
  ELSE IF Answers(f, p) = {} THEN None
  ELSE f[Append(p, CHOOSE j \in Answers(f, p) : \A k \in Answers(f, p) : j <= k)]

\* f is the search for id of every folder.
Searches(f, id) == f = [p \in DOMAIN folder |-> SearchBody(f, id, p)]

LEMMA ChildIs ==
  ASSUME IInv, pc \in Whole, NEW p \in DOMAIN folder
  PROVE  /\ p \in Seq(Row) /\ NidOf(p) \in Nid /\ Len(SubFolders[NidOf(p)]) \in Nat
         /\ DOMAIN SubFolders[NidOf(p)] = 1..Len(SubFolders[NidOf(p)])
         /\ \A j \in 1..Len(SubFolders[NidOf(p)]) :
              j \in Row /\ Append(p, j) \in DOMAIN folder /\ Len(Append(p, j)) = Len(p) + 1
<1>1. p \in Seq(Row) /\ NidOf(p) \in Nid
  BY DEF IInv, Records, TypeOK
<1>2. Len(SubFolders[NidOf(p)]) \in Nat /\ DOMAIN SubFolders[NidOf(p)] = 1..Len(SubFolders[NidOf(p)])
  BY <1>1, RowsOf
<1>3. folder[p].next = Len(SubFolders[NidOf(p)]) + 1
  BY DEF IInv, DoneOK
<1>4. ASSUME NEW j \in 1..Len(SubFolders[NidOf(p)])
      PROVE  j \in Row /\ Append(p, j) \in DOMAIN folder /\ Len(Append(p, j)) = Len(p) + 1
  <2>1. j \in Row
    BY <1>2 DEF Row
  <2>2. j \in 1..(folder[p].next - 1)
    BY <1>2, <1>3
  <2>3. Append(p, j) \in DOMAIN folder
    BY <2>2 DEF IInv, ChildrenOK
  <2> QED
    BY <1>1, <2>1, <2>3, PathOfChild
<1> QED
  BY <1>1, <1>2, <1>4

LEMMA BodyCongruent ==
  ASSUME NEW f, NEW g, NEW id, NEW p,
         \A j \in 1..Len(SubFolders[NidOf(p)]) : f[Append(p, j)] = g[Append(p, j)]
  PROVE  SearchBody(f, id, p) = SearchBody(g, id, p)
<1>1. Answers(f, p) = Answers(g, p)
  BY DEF Answers
<1>2. CASE Answers(g, p) = {}
  BY <1>1, <1>2 DEF SearchBody
<1>3. CASE ~\E j \in Answers(g, p) : \A k \in Answers(g, p) : j <= k
  <2>1. \A j \in Answers(g, p) : j \in Nat
    BY DEF Answers
  <2>2. Answers(g, p) = {}
    <3>1. Answers(g, p) \in SUBSET Nat
      BY <2>1
    <3> QED
      BY <1>3, <3>1, Least
  <2> QED
    BY <1>2, <2>2
<1>4. CASE \E j \in Answers(g, p) : \A k \in Answers(g, p) : j <= k
  <2> DEFINE first == CHOOSE j \in Answers(g, p) : \A k \in Answers(g, p) : j <= k
  <2>1. first \in Answers(g, p)
    BY <1>4
  <2>2. f[Append(p, first)] = g[Append(p, first)]
    BY <2>1 DEF Answers
  <2> QED
    BY <1>1, <2>2 DEF SearchBody
<1> QED
  BY <1>2, <1>3, <1>4

LEMMA SearchExists ==
  ASSUME IInv, pc \in Whole, NEW id
  PROVE  \E f : Searches(f, id)
<1>1. PICK N \in Nat : \A p \in DOMAIN folder : Len(p) <= N
  BY DEF IInv, Records
<1>0. \A p \in DOMAIN folder : Len(p) \in Nat
  BY ChildIs
<1> DEFINE D(n) == {p \in DOMAIN folder : N <= Len(p) + n}
           S == {n \in Nat : ~\E f : f = [p \in D(n) |-> SearchBody(f, id, p)]}
<1>2. S = {}
  <2> SUFFICES ASSUME S # {} PROVE FALSE
    OBVIOUS
  <2>1. PICK m \in S : \A k \in S : m <= k
    <3>1. S \in SUBSET Nat
      OBVIOUS
    <3> HIDE DEF S
    <3> QED
      BY <3>1, Least
  <2>2. m \in Nat /\ ~\E f : f = [p \in D(m) |-> SearchBody(f, id, p)]
    BY <2>1
  <2>3. \E h : m # 0 => h = [p \in D(m-1) |-> SearchBody(h, id, p)]
    <3>1. CASE m = 0
      BY <3>1
    <3>2. CASE m # 0
      <4>1. m - 1 \in Nat /\ ~(m <= m - 1)
        BY <2>2, <3>2
      <4>2. m - 1 \notin S
        BY <2>1, <4>1
      <4> QED
        BY <4>1, <4>2
    <3> QED
      BY <3>1, <3>2
  <2> HIDE DEF S
  <2>4. PICK h : m # 0 => h = [p \in D(m-1) |-> SearchBody(h, id, p)]
    BY <2>3
  <2> DEFINE g == [p \in D(m) |-> SearchBody(h, id, p)]
  <2>5. ASSUME NEW p \in D(m), NEW j \in 1..Len(SubFolders[NidOf(p)])
        PROVE  h[Append(p, j)] = g[Append(p, j)]
    <3>1. Append(p, j) \in DOMAIN folder /\ Len(Append(p, j)) = Len(p) + 1 /\ Len(p) \in Nat
      BY <1>0, ChildIs
    <3>2. N <= Len(p) + m /\ Len(p) + 1 <= N
      BY <1>1, <3>1
    <3>3. m # 0 /\ N <= Len(p) + 1 + (m - 1) /\ N <= Len(p) + 1 + m
      BY <2>2, <3>1, <3>2
    <3>4. Append(p, j) \in D(m-1) /\ Append(p, j) \in D(m)
      BY <3>1, <3>3
    <3> HIDE DEF D
    <3>5. h[Append(p, j)] = SearchBody(h, id, Append(p, j))
      BY <2>4, <3>3, <3>4
    <3>6. g[Append(p, j)] = SearchBody(h, id, Append(p, j))
      BY <3>4
    <3> QED
      BY <3>5, <3>6
  <2>6. \A p \in D(m) : SearchBody(h, id, p) = SearchBody(g, id, p)
    <3> HIDE DEF g
    <3> TAKE p \in D(m)
    <3>1. \A j \in 1..Len(SubFolders[NidOf(p)]) : h[Append(p, j)] = g[Append(p, j)]
      BY <2>5
    <3> QED
      BY <3>1, BodyCongruent
  <2>7. g = [p \in D(m) |-> SearchBody(g, id, p)]
    <3> HIDE DEF D
    <3> QED
      BY <2>6
  <2> QED
    BY <2>2, <2>7
<1>3. D(N) = DOMAIN folder
  <2>1. \A p \in DOMAIN folder : N <= Len(p) + N
    BY <1>0
  <2> QED
    BY <2>1
<1>4. PICK f : f = [p \in D(N) |-> SearchBody(f, id, p)]
  BY <1>2
<1> HIDE DEF D
<1> QED
  BY <1>3, <1>4 DEF Searches

\* The answer of p, in terms of those of its children.
LEMMA SearchFacts ==
  ASSUME IInv, pc \in Whole, NEW id, NEW f, Searches(f, id), NEW p \in DOMAIN folder
  PROVE  LET rows == 1..Len(SubFolders[NidOf(p)])
         IN  /\ Accepted(p, id) => f[p] = p
             /\ ~Accepted(p, id) =>
                  \/ f[p] = None /\ \A j \in rows : f[Append(p, j)] = None
                  \/ \E j \in rows : /\ f[Append(p, j)] # None /\ f[p] = f[Append(p, j)]
                                     /\ \A k \in rows : f[Append(p, k)] # None => j <= k
<1> DEFINE rows == 1..Len(SubFolders[NidOf(p)])
           A == Answers(f, p)
           first == CHOOSE j \in A : \A k \in A : j <= k
<1>1. f[p] = IF Accepted(p, id) THEN p ELSE IF A = {} THEN None ELSE f[Append(p, first)]
  BY DEF Searches, SearchBody
<1>2. \A j \in rows : j \in A <=> f[Append(p, j)] # None
  BY DEF Answers
<1>3. A \subseteq rows
  BY DEF Answers
<1>4. A # {} => first \in A /\ \A k \in A : first <= k
  <2> SUFFICES ASSUME A # {} PROVE first \in A /\ \A k \in A : first <= k
    OBVIOUS
  <2>1. A \in SUBSET Nat
    BY DEF Answers
  <2> HIDE DEF A
  <2>2. \E m \in A : \A k \in A : m <= k
    BY <2>1, Least
  <2> QED
    BY <2>2
<1> HIDE DEF A, first, rows
<1>5. CASE A = {}
  BY <1>1, <1>2, <1>5 DEF rows
<1>6. CASE A # {}
  BY <1>1, <1>2, <1>3, <1>4, <1>6 DEF rows
<1> QED
  BY <1>5, <1>6

\* The folders under p that match.
Matching(p, id) == {q \in DOMAIN folder : Prefix(p, q) /\ Accepted(q, id)}

LEMMA MatchingFacts ==
  ASSUME IInv, pc \in Whole, NEW id, NEW p \in DOMAIN folder
  PROVE  /\ Accepted(p, id) => p \in Matching(p, id)
         /\ \A q \in Matching(p, id) : q # p =>
              \E j \in 1..Len(SubFolders[NidOf(p)]) :
                 q \in Matching(Append(p, j), id) /\ q[Len(p) + 1] = j /\ Len(p) < Len(q)
         /\ \A j \in 1..Len(SubFolders[NidOf(p)]) :
              \A q \in Matching(Append(p, j), id) :
                 q \in Matching(p, id) /\ q[Len(p) + 1] = j /\ Len(p) < Len(q)
<1>1. p \in Seq(Row) /\ Len(p) \in Nat
  BY ChildIs
<1>2. Accepted(p, id) => p \in Matching(p, id)
  BY <1>1 DEF Matching, Prefix
<1>3. ASSUME NEW q \in Matching(p, id), q # p
      PROVE  \E j \in 1..Len(SubFolders[NidOf(p)]) :
                 q \in Matching(Append(p, j), id) /\ q[Len(p) + 1] = j /\ Len(p) < Len(q)
  <2>1. q \in DOMAIN folder /\ Prefix(p, q) /\ Accepted(q, id)
    BY <1>3 DEF Matching
  <2>2. q \in Seq(Row) /\ Len(q) \in Nat
    BY <2>1, ChildIs
  <2>3. Len(p) \in 0..Len(q) /\ SubSeq(q, 1, Len(p)) = p /\ Len(p) # Len(q)
    BY <1>1, <1>3, <2>1, <2>2, PrefixIsInitial
  <2> DEFINE n == Len(p) + 1
             c == SubSeq(q, 1, n)
  <2>4. Len(p) < Len(q) /\ n \in 0..Len(q) /\ n # 0 /\ n - 1 = Len(p) /\ n <= Len(q)
    BY <1>1, <2>2, <2>3
  <2>5. c \in DOMAIN folder
    <3>1. DOMAIN folder \in SUBSET Seq(Row) /\ \A r \in DOMAIN folder : r # <<>> => Above(r) \in DOMAIN folder
      BY DEF IInv, Records, TreeOK
    <3> HIDE DEF n
    <3> QED
      BY <2>1, <2>4, <3>1, PrefixClosed
  <2>6. /\ c # <<>> /\ Above(c) = p /\ Last(c) = q[n] /\ Len(c) = n /\ \A k \in 1..n : c[k] = q[k]
        /\ c \in Seq(Row)
    <3> HIDE DEF n
    <3>1. /\ c # <<>> /\ Above(c) = SubSeq(q, 1, n - 1) /\ Last(c) = q[n] /\ Len(c) = n
          /\ \A k \in 1..n : c[k] = q[k]
          /\ c \in Seq(Row)
      BY <2>2, <2>4, PathPrefix
    <3> QED
      BY <2>3, <2>4, <3>1
  <2> HIDE DEF c
  <2>7. q[n] \in DOMAIN SubFolders[NidOf(p)] /\ c = Append(p, q[n])
    <3>1. c = Append(Above(c), Last(c))
      BY <2>6, PathAbove
    <3>2. Last(c) \in DOMAIN SubFolders[NidOf(Above(c))]
      BY <2>5, <2>6 DEF IInv, TreeOK
    <3> QED
      BY <2>6, <3>1, <3>2
  <2>8. Prefix(c, q)
    BY <2>4, <2>6 DEF Prefix
  <2>9. q \in Matching(Append(p, q[n]), id)
    BY <2>1, <2>7, <2>8 DEF Matching
  <2>10. q[n] \in 1..Len(SubFolders[NidOf(p)])
    BY <2>7, ChildIs
  <2> QED
    BY <2>4, <2>9, <2>10
<1>4. ASSUME NEW j \in 1..Len(SubFolders[NidOf(p)]), NEW q \in Matching(Append(p, j), id)
      PROVE  q \in Matching(p, id) /\ q[Len(p) + 1] = j /\ Len(p) < Len(q)
  <2> DEFINE c == Append(p, j)
  <2>1. q \in DOMAIN folder /\ Prefix(c, q) /\ Accepted(q, id)
    BY <1>4 DEF Matching
  <2>2. q \in Seq(Row) /\ Len(q) \in Nat
    BY <2>1, ChildIs
  <2>3. /\ j \in Row /\ Len(c) = Len(p) + 1 /\ c[Len(p) + 1] = j
        /\ \A k \in 1..Len(p) : c[k] = p[k]
    <3>1. j \in Row
      BY ChildIs
    <3> QED
      BY <1>1, <3>1, PathOfChild
  <2> HIDE DEF c
  <2>4. Len(p) < Len(q) /\ q[Len(p) + 1] = j /\ \A k \in 1..Len(p) : p[k] = q[k]
    BY <1>1, <2>1, <2>2, <2>3 DEF Prefix
  <2>5. Prefix(p, q)
    BY <1>1, <2>2, <2>4 DEF Prefix
  <2> QED
    BY <2>1, <2>4, <2>5 DEF Matching
<1> QED
  BY <1>2, <1>3, <1>4

\* The answer r is the first of a set of folders.
IsFirst(r, S) ==
  IF r = None THEN S = {} ELSE r \in S /\ \A q \in S \ {r} : Precedes(r, q)

\* What every child answers rightly, the folder does.
LEMMA SearchStep ==
  ASSUME IInv, pc \in Whole, NEW id, NEW f, Searches(f, id), NEW p \in DOMAIN folder,
         \A j \in 1..Len(SubFolders[NidOf(p)]) :
           IsFirst(f[Append(p, j)], Matching(Append(p, j), id))
  PROVE  IsFirst(f[p], Matching(p, id))
<1> DEFINE rows == 1..Len(SubFolders[NidOf(p)])
<1>1. p \in Seq(Row) /\ Len(p) \in Nat /\ p # None
  BY ChildIs, FoldersAssumption DEF Row
<1>2. \A q \in Matching(p, id) : q \in Seq(Row) /\ Len(q) \in Nat /\ Prefix(p, q) /\ q # None
                                 /\ (q = p => Accepted(p, id))
  BY ChildIs, FoldersAssumption DEF Matching, Row
<1>3. \A q \in Matching(p, id) : SubSeq(q, 1, Len(p)) = p
  BY <1>1, <1>2, PrefixIsInitial
<1>4. CASE Accepted(p, id)
  <2>1. f[p] = p /\ p \in Matching(p, id)
    BY <1>4, SearchFacts, MatchingFacts
  <2>2. ASSUME NEW q \in Matching(p, id), q # p PROVE Precedes(p, q)
    <3>1. Len(p) < Len(q)
      BY <2>2, MatchingFacts
    <3> QED
      BY <1>3, <3>1 DEF Precedes
  <2> QED
    BY <1>1, <2>1, <2>2 DEF IsFirst
<1>5. CASE ~Accepted(p, id)
  <2>0. ASSUME NEW q \in Matching(p, id)
        PROVE  \E j \in rows : q \in Matching(Append(p, j), id) /\ q[Len(p) + 1] = j /\ Len(p) < Len(q)
    BY <1>2, <1>5, MatchingFacts
  <2>1. CASE f[p] = None /\ \A j \in rows : f[Append(p, j)] = None
    <3>1. \A j \in rows : Matching(Append(p, j), id) = {}
      BY <2>1 DEF IsFirst
    <3>2. Matching(p, id) = {}
      BY <2>0, <3>1
    <3> QED
      BY <2>1, <3>2 DEF IsFirst
  <2>2. ASSUME NEW j \in rows, f[Append(p, j)] # None, f[p] = f[Append(p, j)],
               \A k \in rows : f[Append(p, k)] # None => j <= k
        PROVE  IsFirst(f[p], Matching(p, id))
    <3> DEFINE r == f[p]
    <3>1. /\ r \in Matching(Append(p, j), id)
          /\ \A q \in Matching(Append(p, j), id) \ {r} : Precedes(r, q)
      BY <2>2 DEF IsFirst
    <3> HIDE DEF r
    <3>2. r \in Matching(p, id) /\ r[Len(p) + 1] = j /\ Len(p) < Len(r)
      BY <3>1, MatchingFacts
    <3>3. ASSUME NEW q \in Matching(p, id), q # r PROVE Precedes(r, q)
      <4>1. PICK k \in rows : q \in Matching(Append(p, k), id) /\ q[Len(p) + 1] = k /\ Len(p) < Len(q)
        BY <2>0
      <4>2. f[Append(p, k)] # None
        BY <4>1 DEF IsFirst
      <4>3. j <= k
        BY <2>2, <4>2
      <4>4. CASE j = k
        BY <3>1, <3>3, <4>1, <4>4
      <4>5. CASE j # k
        <5> DEFINE n == Len(p) + 1
        <5>1. j \in Nat /\ k \in Nat
          BY ChildIs DEF Row
        <5>2. r[n] < q[n]
          BY <3>2, <4>1, <4>3, <4>5, <5>1
        <5>3. Len(r) \in Nat /\ Len(q) \in Nat
          BY <1>2, <3>2
        <5>4. n \in 1..Len(r) /\ n <= Len(q) /\ n - 1 = Len(p)
          BY <1>1, <3>2, <4>1, <5>3
        <5>5. SubSeq(r, 1, n - 1) = SubSeq(q, 1, n - 1)
          BY <1>3, <3>2, <5>4
        <5> HIDE DEF n
        <5> QED
          BY <5>2, <5>4, <5>5 DEF Precedes
      <4> QED
        BY <4>4, <4>5
    <3>4. r # None
      BY <1>2, <3>2
    <3> QED
      BY <3>2, <3>3, <3>4 DEF r, IsFirst
  <2> QED
    BY <1>5, <2>1, <2>2, SearchFacts
<1> QED
  BY <1>4, <1>5

LEMMA SearchIsFirst ==
  ASSUME IInv, pc \in Whole, NEW id, NEW f, Searches(f, id)
  PROVE  \A p \in DOMAIN folder : IsFirst(f[p], Matching(p, id))
<1>1. PICK N \in Nat : \A p \in DOMAIN folder : Len(p) <= N
  BY DEF IInv, Records
<1> DEFINE Wrong == {n \in Nat : \E p \in DOMAIN folder :
                       N = Len(p) + n /\ ~IsFirst(f[p], Matching(p, id))}
<1>2. \A p \in DOMAIN folder : Len(p) \in Nat /\ N - Len(p) \in Nat /\ N = Len(p) + (N - Len(p))
  <2> TAKE p \in DOMAIN folder
  <2>1. Len(p) \in Nat
    BY ChildIs
  <2> QED
    BY <1>1, <2>1
<1>3. SUFFICES Wrong = {}
  BY <1>2
<1>4. SUFFICES ASSUME Wrong # {} PROVE FALSE
  OBVIOUS
<1>5. PICK n \in Wrong : \A k \in Wrong : n <= k
  <2>1. Wrong \in SUBSET Nat
    OBVIOUS
  <2> HIDE DEF Wrong
  <2> QED
    BY <1>4, <2>1, Least
<1>6. PICK p \in DOMAIN folder : N = Len(p) + n /\ ~IsFirst(f[p], Matching(p, id))
  BY <1>5
<1>7. n \in Nat
  BY <1>5
<1>8. ASSUME NEW j \in 1..Len(SubFolders[NidOf(p)])
      PROVE  IsFirst(f[Append(p, j)], Matching(Append(p, j), id))
  <2>1. Append(p, j) \in DOMAIN folder /\ Len(Append(p, j)) = Len(p) + 1
    BY ChildIs
  <2>2. Len(p) + 1 <= N
    BY <1>1, <2>1
  <2>3. n - 1 \in Nat /\ N = Len(p) + 1 + (n - 1) /\ ~(n <= n - 1)
    BY <1>2, <1>6, <1>7, <2>2
  <2>4. n - 1 \notin Wrong
    BY <1>5, <2>3
  <2> QED
    BY <2>1, <2>3, <2>4
<1> HIDE DEF Wrong
<1>9. IsFirst(f[p], Matching(p, id))
  BY <1>8, SearchStep
<1> QED
  BY <1>6, <1>9

\* getFolder answers the first match of the whole tree.
LEMMA SearchIs ==
  ASSUME IInv, pc \in Whole, NEW id
  PROVE  IsFirst(Search(id), {p \in DOMAIN folder : Accepted(p, id)})
<1> DEFINE get == CHOOSE f : Searches(f, id)
<1>1. Searches(get, id)
  BY SearchExists
<1>2. Search(id) = get[<<>>]
  BY DEF Search, Searches, SearchBody, Answers
<1> HIDE DEF get
<1>3. <<>> \in DOMAIN folder
  BY DEF IInv, PathOK
<1>4. Matching(<<>>, id) = {p \in DOMAIN folder : Accepted(p, id)}
  <2>1. \A p \in DOMAIN folder : Prefix(<<>>, p)
    <3> TAKE p \in DOMAIN folder
    <3>1. Len(p) \in Nat
      BY ChildIs
    <3>2. Len(<<>>) = 0
      OBVIOUS
    <3> QED
      BY <3>1, <3>2 DEF Prefix
  <2> QED
    BY <2>1 DEF Matching
<1> QED
  BY <1>1, <1>2, <1>3, <1>4, SearchIsFirst

-----------------------------------------------------------------------------
(* The program. *)

LEMMA SubSeqSplit ==
  ASSUME NEW S, NEW s \in Seq(S), NEW a \in 0..Len(s), NEW b \in a..Len(s)
  PROVE  SubSeq(s, 1, a) \o SubSeq(s, a + 1, b) = SubSeq(s, 1, b)
<1>1. Len(s) \in Nat /\ a \in Nat /\ b \in Nat /\ a <= b /\ b <= Len(s)
  OBVIOUS
<1>2. \A j \in 1..Len(s) : s[j] \in S
  BY ElementOfSeq
<1> DEFINE l == SubSeq(s, 1, a)
           r == SubSeq(s, a + 1, b)
           w == SubSeq(s, 1, b)
<1>3. l \in Seq(S) /\ Len(l) = a /\ \A j \in 1..a : l[j] = s[j]
  <2>1. \A j \in 1..a : s[j] \in S
    BY <1>1, <1>2
  <2>2. /\ l \in Seq(S) /\ Len(l) = IF 1 <= a THEN a - 1 + 1 ELSE 0
        /\ \A j \in 1..(a - 1 + 1) : l[j] = s[1 + j - 1]
    BY <1>1, <2>1, SubSeqProperties
  <2> HIDE DEF l
  <2> QED
    BY <1>1, <2>2
<1>4. w \in Seq(S) /\ Len(w) = b /\ \A j \in 1..b : w[j] = s[j]
  <2>1. \A j \in 1..b : s[j] \in S
    BY <1>1, <1>2
  <2>2. /\ w \in Seq(S) /\ Len(w) = IF 1 <= b THEN b - 1 + 1 ELSE 0
        /\ \A j \in 1..(b - 1 + 1) : w[j] = s[1 + j - 1]
    BY <1>1, <2>1, SubSeqProperties
  <2> HIDE DEF w
  <2> QED
    BY <1>1, <2>2
<1>5. r \in Seq(S) /\ Len(r) = b - a /\ \A j \in 1..(b - a) : r[j] = s[a + j]
  <2> DEFINE m == a + 1
  <2>0. m \in Nat /\ m = a + 1
    BY <1>1
  <2> HIDE DEF m
  <2>1. \A j \in m..b : s[j] \in S
    BY <1>1, <1>2, <2>0
  <2> DEFINE t == SubSeq(s, m, b)
  <2>2. /\ t \in Seq(S) /\ Len(t) = IF m <= b THEN b - m + 1 ELSE 0
        /\ \A j \in 1..(b - m + 1) : t[j] = s[m + j - 1]
    BY <1>1, <2>0, <2>1, SubSeqProperties
  <2>5. t = r
    BY DEF m
  <2> HIDE DEF t
  <2>3. Len(t) = b - a /\ b - m + 1 = b - a
    BY <1>1, <2>0, <2>2
  <2>4. \A j \in 1..(b - a) : m + j - 1 = a + j
    BY <1>1, <2>0
  <2> HIDE DEF r
  <2> QED
    BY <2>2, <2>3, <2>4, <2>5
<1> HIDE DEF l, r, w
<1>6. /\ l \o r \in Seq(S) /\ Len(l \o r) = b
      /\ \A j \in 1..b : (l \o r)[j] = IF j <= a THEN l[j] ELSE r[j - a]
  <2>1. l \o r \in Seq(S)
    BY <1>3, <1>5
  <2>2. Len(l \o r) = Len(l) + Len(r)
    BY <1>3, <1>5, ConcatProperties
  <2>3. \A j \in 1..(Len(l) + Len(r)) : (l \o r)[j] = IF j <= Len(l) THEN l[j] ELSE r[j - Len(l)]
    BY <1>3, <1>5, ConcatProperties
  <2>4. Len(l) + Len(r) = b
    BY <1>1, <1>3, <1>5
  <2> QED
    BY <1>3, <2>1, <2>2, <2>3, <2>4
<1>7. \A j \in 1..b : (l \o r)[j] = w[j]
  <2> TAKE j \in 1..b
  <2>0. (l \o r)[j] = IF j <= a THEN l[j] ELSE r[j - a]
    BY <1>6
  <2>1. CASE j <= a
    <3>1. j \in 1..a
      BY <1>1, <2>1
    <3> QED
      BY <1>3, <1>4, <2>0, <2>1, <3>1
  <2>2. CASE ~(j <= a)
    <3>1. j - a \in 1..(b - a) /\ a + (j - a) = j
      BY <1>1, <2>2
    <3> QED
      BY <1>4, <1>5, <2>0, <2>2, <3>1
  <2> QED
    BY <2>1, <2>2
<1>8. l \o r = w
  BY <1>4, <1>6, <1>7, SeqEqual
<1> QED
  BY <1>8 DEF l, r, w

\* A step of the program leaves the tree alone.
LEMMA ProgramStep ==
  ASSUME IInv, pc \in Whole, pc' \notin Building, UNCHANGED <<image, folder, path, batch>>,
         pc' \in Whole \cup {"thrown", "undefined", "aborted"},
         found' \in DOMAIN folder \cup {None}, asked' \in Ids \cup {None}, i' \in Nat,
         UseOK'
  PROVE  IInv'
<1>1. UNCHANGED <<assertsOn, parts>>
  BY DEF image
<1>2. TypeOK'
  BY <1>1 DEF IInv, TypeOK, Whole, NidOf
<1>3. (Records /\ TreeOK /\ ChildrenOK)'
  BY DEF IInv, Records, TreeOK, ChildrenOK, NidOf
<1>4. (PathOK /\ DoneOK)'
  BY DEF IInv, PathOK, DoneOK, NidOf, Building, Whole
<1> QED
  BY <1>2, <1>3, <1>4 DEF IInv

\* The messages of the folder found.
LEMMA InFolderIs ==
  ASSUME IInv, pc = "loop"
  PROVE  /\ found \in DOMAIN folder /\ i \in Nat /\ batch \in Nat \ {0}
         /\ Len(InFolder) \in Nat /\ DOMAIN InFolder = 1..Len(InFolder)
         /\ \E S : InFolder \in Seq(S)
<1>1. found \in DOMAIN folder /\ i \in Nat /\ batch \in BatchSizes
  BY DEF IInv, TypeOK, UseOK
<1>2. NidOf(found) \in Nid
  BY <1>1 DEF IInv, TypeOK
<1>3. \E S : InFolder \in Seq(S)
  BY <1>2, FoldersAssumption DEF InFolder
<1> QED
  BY <1>1, <1>3, FoldersAssumption

LEMMA GetFolderIInv == ASSUME IInv, NEW id \in Ids, GetFolder(id) PROVE IInv'
<1>1. /\ pc = "ready" /\ pc' = "found" /\ asked' = id /\ found' = Search(id)
      /\ UNCHANGED <<image, folder, path, batch, i, got>>
  BY DEF GetFolder
<1>2. Search(id) \in DOMAIN folder \cup {None}
  <2>1. IsFirst(Search(id), {p \in DOMAIN folder : Accepted(p, id)})
    BY <1>1, SearchIs DEF Whole
  <2> QED
    BY <2>1 DEF IsFirst
<1>3. UseOK'
  BY <1>1 DEF UseOK, Building, BatchesAreTheFolder
<1>4. i \in Nat
  BY DEF IInv, TypeOK
<1> QED
  BY <1>1, <1>2, <1>3, <1>4, ProgramStep DEF Whole, Building

LEMMA StartLoopIInv == ASSUME IInv, StartLoop PROVE IInv'
<1>1. /\ pc = "found" /\ i' = 0 /\ got' = <<>> /\ pc' = IF found = None THEN "undefined" ELSE "loop"
      /\ UNCHANGED <<image, folder, path, found, asked, batch>>
  BY DEF StartLoop
<1>2. asked \in Ids \cup {None} /\ found \in DOMAIN folder \cup {None}
  BY DEF IInv, TypeOK
<1>3. UseOK'
  <2>1. ASSUME found # None PROVE <<>> = SubSeq(InFolder, 1, ActualEnd(0))
    <3>1. NidOf(found) \in Nid
      BY <1>2, <2>1 DEF IInv, TypeOK
    <3>2. Len(InFolder) \in Nat
      BY <3>1, FoldersAssumption DEF InFolder
    <3>3. ActualEnd(0) = 0
      BY <3>2 DEF ActualEnd
    <3> QED
      BY <3>3, SubSeqEmpty
  <2>2. InFolder' = InFolder /\ \A e : ActualEnd(e)' = ActualEnd(e)
    BY <1>1 DEF InFolder, NidOf, ActualEnd
  <2>3. found # None => got' = SubSeq(InFolder, 1, ActualEnd(0))
    BY <1>1, <2>1
  <2>4. BatchesAreTheFolder'
    BY <1>1 DEF BatchesAreTheFolder
  <2>5. found # None => (got = SubSeq(InFolder, 1, ActualEnd(i)))'
    BY <1>1, <2>2, <2>3 DEF InFolder, NidOf, ActualEnd
  <2> QED
    BY <1>1, <2>4, <2>5 DEF UseOK, Building
<1> QED
  BY <1>1, <1>2, <1>3, ProgramStep DEF Whole, Building

LEMMA EndLoopIInv == ASSUME IInv, EndLoop PROVE IInv'
<1>1. /\ pc = "loop" /\ pc' = "ready" /\ found' = None /\ asked' = None
      /\ UNCHANGED <<image, folder, path, batch, i, got>>
  BY DEF EndLoop
<1>2. UseOK'
  BY <1>1 DEF UseOK, Building, BatchesAreTheFolder
<1>3. i \in Nat
  BY DEF IInv, TypeOK
<1> QED
  BY <1>1, <1>2, <1>3, ProgramStep DEF Whole, Building

LEMMA NextBatchIInv == ASSUME IInv, NextBatch PROVE IInv'
<1> DEFINE end    == ActualEnd(i + batch)
           rows   == i .. (end - 1)
           failed == {r \in rows : Fails(r)}
           first  == CHOOSE r \in failed : \A q \in failed : r <= q
<1>1. /\ pc = "loop" /\ i < Len(InFolder)
      /\ UNCHANGED <<image, folder, path, found, asked, batch>>
      /\ failed = {} => /\ got' = got \o SubSeq(InFolder, i + 1, end)
                        /\ i' = i + batch /\ pc' = pc
      /\ failed # {} => /\ pc' = IF first < Len(InFolder) /\ InFolder[first+1] \in Lost
                                 THEN "aborted" ELSE "thrown"
                        /\ UNCHANGED <<i, got>>
  BY DEF NextBatch
<1>2. /\ found \in DOMAIN folder /\ i \in Nat /\ batch \in Nat \ {0}
      /\ Len(InFolder) \in Nat /\ DOMAIN InFolder = 1..Len(InFolder)
      /\ \E S : InFolder \in Seq(S)
  BY <1>1, InFolderIs
<1>3. end \in i..Len(InFolder) /\ i \in 0..Len(InFolder) /\ end <= i + batch /\ ActualEnd(i) = i
  BY <1>1, <1>2 DEF ActualEnd
<1>4. asked \in Ids \cup {None} /\ found \in DOMAIN folder \cup {None} /\ found # None
  BY <1>1 DEF IInv, TypeOK, UseOK
<1> HIDE DEF end
<1>5. CASE failed = {}
  <2>1. got' = got \o SubSeq(InFolder, i + 1, end) /\ i' = i + batch /\ pc' = "loop" /\ i' \in Nat
    <3> HIDE DEF failed
    <3>1. got' = got \o SubSeq(InFolder, i + 1, end) /\ i' = i + batch /\ pc' = "loop"
      BY <1>1, <1>5
    <3>2. i + batch \in Nat
      BY <1>2
    <3> QED
      BY <3>1, <3>2
  <2>2. got = SubSeq(InFolder, 1, i)
    BY <1>1, <1>3 DEF IInv, UseOK
  <2>3. got' = SubSeq(InFolder, 1, end)
    BY <1>2, <1>3, <2>1, <2>2, SubSeqSplit
  <2>4. (got = SubSeq(InFolder, 1, ActualEnd(i)))'
    BY <1>1, <2>1, <2>3 DEF end, ActualEnd, InFolder, NidOf
  <2>5. UseOK'
    BY <1>1, <1>4, <2>1, <2>4 DEF UseOK, Building, BatchesAreTheFolder
  <2> QED
    BY <1>1, <1>4, <2>1, <2>5, ProgramStep DEF Whole, Building
<1>6. CASE failed # {}
  <2>1. first \in failed
    <3>1. failed \in SUBSET Nat
      BY <1>2
    <3> HIDE DEF failed
    <3>2. \E m \in failed : \A k \in failed : m <= k
      BY <1>6, <3>1, Least
    <3> QED
      BY <3>2
  <2> HIDE DEF first
  <2>2. first \in Nat /\ i <= first /\ first <= end - 1 /\ Fails(first)
    BY <1>2, <1>3, <2>1
  <2>3. first + 1 \in (i + 1)..(i + batch) /\ first + 1 \in DOMAIN InFolder /\ ~(first >= Len(InFolder))
    BY <1>2, <1>3, <2>2
  <2>4. InFolder[first + 1] \in Lost \cup Broken
    BY <2>2, <2>3 DEF Fails
  <2>5. pc' \in {"thrown", "aborted"} /\ i' = i
    BY <1>1, <1>6
  <2>6. BatchesAreTheFolder'
    <3>1. \E r \in (i + 1)..(i + batch) : r \in DOMAIN InFolder /\ InFolder[r] \in Lost \cup Broken
      BY <2>3, <2>4
    <3>2. (\E r \in (i + 1)..(i + batch) : r \in DOMAIN InFolder /\ InFolder[r] \in Lost \cup Broken)'
      BY <1>1, <2>5, <3>1 DEF InFolder, NidOf
    <3> QED
      BY <2>5, <3>2 DEF BatchesAreTheFolder
  <2>7. UseOK'
    BY <2>5, <2>6 DEF UseOK, Building
  <2> QED
    BY <1>1, <1>2, <1>4, <2>5, <2>7, ProgramStep DEF Whole, Building
<1> QED
  BY <1>5, <1>6

LEMMA Inductive == (Init => IInv) /\ (IInv /\ [Next]_vars => IInv')
<1>1. ASSUME IInv, UNCHANGED vars PROVE IInv'
  <2>1. UNCHANGED <<assertsOn, parts, folder, path, found, asked, batch, i, got, pc>>
    BY <1>1 DEF vars, image, program
  <2>2. TypeOK'
    BY <1>1, <2>1 DEF IInv, TypeOK, NidOf
  <2>3. (Records /\ TreeOK /\ ChildrenOK)'
    BY <1>1, <2>1 DEF IInv, Records, TreeOK, ChildrenOK, NidOf
  <2>4. (PathOK /\ DoneOK)'
    BY <1>1, <2>1 DEF IInv, PathOK, DoneOK, OnPath, NidOf
  <2>5. UseOK'
    BY <1>1, <2>1 DEF IInv, UseOK, BatchesAreTheFolder, InFolder, ActualEnd, NidOf
  <2> QED
    BY <2>2, <2>3, <2>4, <2>5 DEF IInv
<1> QED
  BY <1>1, InitIInv, InitFolderIInv, EnterIInv, ReturnIInv, GetFolderIInv, StartLoopIInv,
     EndLoopIInv, NextBatchIInv DEF Next, Step

-----------------------------------------------------------------------------

\* Every folder knows the NID its parent's table gives it, and no folder is
\* without the one above it, whichever parts a file's folders lack.
THEOREM TypeCorrect == Spec => []TypeOK
<1>1. IInv => TypeOK
  BY DEF IInv
<1> QED
  BY <1>1, Inductive, PTL DEF Spec

\* The rows of a path lead to the folder that has the path.
LEMMA ImageIs ==
  ASSUME IInv, NEW p \in DOMAIN folder
  PROVE  ImageNid(p) = NidOf(p)
<1> DEFINE Body(at, k) == IF k = 0 THEN Root
                          ELSE IF at[k-1] # None /\ p[k] \in DOMAIN SubFolders[at[k-1]]
                               THEN SubFolders[at[k-1]][p[k]] ELSE None
           At(at) == at = [k \in 0..Len(p) |-> Body(at, k)]
           nid(k) == NidOf(SubSeq(p, 1, k))
<1>1. p \in Seq(Row) /\ Len(p) \in Nat
  BY DEF IInv, Records
<1>2. ASSUME NEW k \in 0..Len(p)
      PROVE  SubSeq(p, 1, k) \in DOMAIN folder
  <2>1. DOMAIN folder \in SUBSET Seq(Row) /\ \A r \in DOMAIN folder : r # <<>> => Above(r) \in DOMAIN folder
    BY DEF IInv, Records, TreeOK
  <2> QED
    BY <2>1, PrefixClosed
<1>3. ASSUME NEW k \in 0..Len(p)
      PROVE  /\ k = 0 => nid(k) = Root
             /\ k # 0 => /\ nid(k-1) # None /\ p[k] \in DOMAIN SubFolders[nid(k-1)]
                         /\ nid(k) = SubFolders[nid(k-1)][p[k]]
  <2> DEFINE s == SubSeq(p, 1, k)
  <2>1. s \in DOMAIN folder
    BY <1>2
  <2>2. /\ k # 0 => s # <<>> /\ Above(s) = SubSeq(p, 1, k - 1) /\ Last(s) = p[k]
        /\ k = 0 => s = <<>>
    BY <1>1, PathPrefix
  <2>3. k = 0 => nid(k) = Root
    BY <2>1, <2>2 DEF IInv, TreeOK
  <2>4. ASSUME k # 0
        PROVE  /\ nid(k-1) # None /\ p[k] \in DOMAIN SubFolders[nid(k-1)]
               /\ nid(k) = SubFolders[nid(k-1)][p[k]]
    <3>1. nid(k-1) = NidOf(Above(s)) /\ nid(k) = NidOf(s)
      BY <2>2, <2>4
    <3>2. /\ Above(s) \in DOMAIN folder /\ Last(s) \in DOMAIN SubFolders[NidOf(Above(s))]
          /\ NidOf(s) = SubFolders[NidOf(Above(s))][Last(s)]
      BY <2>1, <2>2, <2>4 DEF IInv, TreeOK
    <3>3. NidOf(Above(s)) \in Nid
      BY <3>2 DEF IInv, TypeOK
    <3>4. NidOf(Above(s)) # None
      BY <3>3, FoldersAssumption
    <3> QED
      BY <2>2, <2>4, <3>1, <3>2, <3>4
  <2> QED
    BY <2>3, <2>4
<1> HIDE DEF nid
<1>4. At([k \in 0..Len(p) |-> nid(k)])
  <2> DEFINE g == [k \in 0..Len(p) |-> nid(k)]
  <2>1. ASSUME NEW k \in 0..Len(p) PROVE nid(k) = Body(g, k)
    <3>1. CASE k = 0
      BY <1>3, <3>1
    <3>2. CASE k # 0
      <4>1. k - 1 \in 0..Len(p)
        BY <1>1, <3>2
      <4>2. g[k-1] = nid(k-1)
        BY <4>1
      <4> HIDE DEF g
      <4> QED
        BY <1>3, <3>2, <4>2
    <3> QED
      BY <3>1, <3>2
  <2> HIDE DEF Body
  <2> QED
    BY <2>1
<1> DEFINE at == CHOOSE f : At(f)
<1>5. At(at)
  <2> HIDE DEF At
  <2> QED
    BY <1>4
<1>6. ImageNid(p) = at[Len(p)]
  BY DEF ImageNid
<1> HIDE DEF at
<1>7. \A k \in 0..Len(p) : at[k] = nid(k)
  <2> DEFINE Wrong == {k \in 0..Len(p) : at[k] # nid(k)}
  <2>1. SUFFICES ASSUME Wrong # {} PROVE FALSE
    OBVIOUS
  <2>2. PICK k \in Wrong : \A j \in Wrong : k <= j
    <3>1. Wrong \in SUBSET Nat
      OBVIOUS
    <3> HIDE DEF Wrong
    <3> QED
      BY <2>1, <3>1, Least
  <2>3. k \in 0..Len(p) /\ at[k] # nid(k) /\ at[k] = Body(at, k)
    BY <1>5, <2>2
  <2>4. CASE k = 0
    BY <1>3, <2>3, <2>4
  <2>5. CASE k # 0
    <3>1. k - 1 \in 0..Len(p) /\ ~(k <= k - 1)
      BY <1>1, <2>3, <2>5
    <3>2. at[k-1] = nid(k-1)
      BY <2>2, <3>1
    <3> QED
      BY <1>3, <2>3, <2>5, <3>2
  <2> QED
    BY <2>4, <2>5
<1>8. SubSeq(p, 1, Len(p)) = p
  BY <1>1, SubSeqFull
<1>9. Len(p) \in 0..Len(p)
  BY <1>1
<1> QED
  BY <1>6, <1>7, <1>8, <1>9 DEF nid

\* A program that holds a folder holds it in the whole tree of the file, for
\* hierarchies of every depth and width.
THEOREM AllStaysOrNothing == Spec => []AllOrNothing
<1>1. IInv => AllOrNothing
  <2> SUFFICES ASSUME IInv, pc \in Whole
               PROVE  /\ \A p \in DOMAIN folder : NidOf(p) = ImageNid(p)
                      /\ \A p \in DOMAIN folder : \A j \in DOMAIN SubFolders[NidOf(p)] :
                           Append(p, j) \in DOMAIN folder
    BY DEF AllOrNothing, Whole
  <2> QED
    BY ImageIs, ChildIs
<1> QED
  BY <1>1, Inductive, PTL DEF Spec

\* getFolder answers with nullptr only if no folder matches, else with one that does:
\* the first in the order of the tables over the whole tree, except where what was
\* asked for is the name of some of them only.
THEOREM FoundStaysFirst == Spec => []FoundIsFirst
<1>1. Init => FoundIsFirst
  BY DEF Init, FoundIsFirst
<1>2. IInv /\ FoundIsFirst /\ [Next]_vars => FoundIsFirst'
  <2> SUFFICES ASSUME IInv, FoundIsFirst, [Next]_vars, pc' = "found" PROVE FoundIsFirst'
    BY DEF FoundIsFirst
  <2>1. CASE UNCHANGED vars
    BY <2>1 DEF vars, image, program, FoundIsFirst, Labelled, Accepted, NidOf, Precedes
  <2>2. CASE \E id \in Ids : GetFolder(id)
    <3>1. PICK id \in Ids : GetFolder(id)
      BY <2>2
    <3>2. pc = "ready" /\ asked' = id /\ found' = Search(id) /\ folder' = folder
      BY <3>1 DEF GetFolder
    <3>3. IsFirst(found', {p \in DOMAIN folder : Accepted(p, id)})
      BY <3>2, SearchIs DEF Whole
    <3>4. {p \in DOMAIN folder : Accepted(p, asked)}' = {p \in DOMAIN folder : Accepted(p, id)}
      BY <3>2 DEF Accepted, NidOf
    <3> QED
      BY <3>3, <3>4 DEF IsFirst, FoundIsFirst
  <2>3. CASE Step
    BY <2>3 DEF Step, InitFolder, EnterSubFolder, Return, StartLoop, NextBatch, EndLoop
  <2> QED
    BY <2>1, <2>2, <2>3 DEF Next
<1> QED
  BY <1>1, <1>2, Inductive, PTL DEF Spec

\* Whatever the size of the batch, the program reads the messages of the folder
\* in order, each once, and stops short only at one that is lost or broken.
THEOREM BatchesStayTheFolder == Spec => []BatchesAreTheFolder
<1>1. IInv => BatchesAreTheFolder
  BY DEF IInv, UseOK
<1> QED
  BY <1>1, Inductive, PTL DEF Spec
=============================================================================
