----------------------------- MODULE TableProofs -----------------------------
(***************************************************************************)
(* Proofs about Table, for every set of tables that satisfies              *)
(* TableAssumption: matrices of any number of blocks and any row size.     *)
(***************************************************************************)
EXTENDS Table, Integers, SequenceTheorems, TLAPS

(* The arithmetic of a row index. *)

\* A number is its quotient and its remainder.
LEMMA Division ==
  ASSUME NEW k \in Nat, NEW F \in Nat \ {0}
  PROVE  /\ k \div F \in Nat /\ k % F \in 0..(F - 1)
         /\ k = F * (k \div F) + (k % F)
  BY SMT

\* Multiplication by F is monotone on integers one apart.
LEMMA NextMultiple ==
  ASSUME NEW p \in Nat, NEW q \in Nat, NEW F \in Nat, p < q
  PROVE  F * p + F <= F * q
  BY SMT

\* Less is divided into no more.
LEMMA DivisionMonotone ==
  ASSUME NEW k \in Nat, NEW m \in Nat, NEW F \in Nat \ {0}, k <= m
  PROVE  k \div F <= m \div F
<1>1. /\ k \div F \in Nat /\ k % F \in 0..(F - 1)
      /\ k = F * (k \div F) + (k % F)
  BY Division
<1>2. /\ m \div F \in Nat /\ m % F \in 0..(F - 1)
      /\ m = F * (m \div F) + (m % F)
  BY Division
<1> DEFINE p == k \div F
           q == m \div F
<1>3. q < p => F * q + F <= F * p
  <2> HIDE DEF p, q
  <2>1. p \in Nat /\ q \in Nat
    BY <1>1, <1>2 DEF p, q
  <2>. QED BY <2>1, NextMultiple
<1>. QED BY <1>1, <1>2, <1>3

\* A row of n - 1 blocks of F rows and a last one of R is in one of those blocks, and
\* in the last only among its R.
LEMMA RowInBlocks ==
  ASSUME NEW q \in Nat, NEW r \in Nat, NEW n \in Nat, NEW F \in Nat, NEW R \in Nat,
         n >= 1, R <= F, F * q + r < (n - 1) * F + R
  PROVE  q < n /\ (q = n - 1 => r < R)
  BY SMT

-----------------------------------------------------------------------------
(* The inductive invariant. *)

\* Whatever was asked is a cell of a row in the index.
AskedOK ==
  /\ asked # None => \E i \in DOMAIN table.index, c \in Column :
                        asked = <<table.index[i], c>>
  /\ pc \in {"matrix", "row"} => asked # None
  /\ pc = "row" => loaded

\* The rows are those of the file's blocks, unless a read has failed, which only
\* happens once the file was cut.
MatrixOK ==
  /\ fail => cut
  /\ ~loaded => rowBlocks = <<>>
  /\ (loaded /\ ~fail) =>
        /\ rowsPerBlock = table.blocks[1] \div table.rowSize
        /\ rowBlocks = [b \in DOMAIN table.blocks |-> Rows(b, table.blocks[b])]
        /\ ~table.broken

\* A loaded entry is that of its row's cell.
CellsOK ==
  ~fail => \A key \in DOMAIN cells :
             /\ loaded /\ key[2] \in 1..Len(rowBlocks[key[1]])
             /\ LET r == rowBlocks[key[1]][key[2]]
                IN  /\ table.place[r][key[3]] \notin {"absent", "broken"}
                    /\ cells[key] = ValueOf(r, key[3])

IInv ==
  /\ TypeOK /\ AskedOK /\ MatrixOK /\ CellsOK
  /\ AnswerIsTheCell /\ UndefinedOnlyCut /\ AbortsOnlyLost
-----------------------------------------------------------------------------
(* Finding a row. *)

\* What the image of a table says in numbers.
LEMMA ImageNumbers ==
  ASSUME NEW t \in Tables
  PROVE  /\ t.rowSize \in Nat \ {0} /\ t.rowSize <= MaxData
         /\ Len(t.blocks) \in Nat \ {0} /\ DOMAIN t.blocks = 1..Len(t.blocks)
         /\ \A b \in 1..Len(t.blocks) : /\ t.blocks[b] \in Nat /\ t.blocks[b] <= MaxData
                                        /\ RowsOf(t, b) \in Nat
                                        /\ RowsOf(t, b) <= FullBlock(t)
         /\ \A b \in 1..(Len(t.blocks) - 1) : /\ t.blocks[b] = MaxData
                                              /\ RowsOf(t, b) = FullBlock(t)
         /\ FullBlock(t) \in Nat \ {0} /\ NRows(t) \in Nat
<1>1. ImageOf(t)
  BY TableAssumption
<1>2. /\ t.rowSize \in Nat \ {0} /\ t.rowSize <= MaxData
      /\ Len(t.blocks) \in Nat \ {0} /\ DOMAIN t.blocks = 1..Len(t.blocks)
      /\ \A b \in 1..Len(t.blocks) : t.blocks[b] \in Nat /\ t.blocks[b] <= MaxData
      /\ \A b \in 1..(Len(t.blocks) - 1) : t.blocks[b] = MaxData
  <2>1. t.rowSize \in 1..MaxData /\ MaxData \in Nat
    BY <1>1 DEF ImageOf, MaxData
  <2>2. /\ t.blocks \in Seq(1..MaxData) /\ t.blocks # <<>>
        /\ \A b \in 1..(Len(t.blocks) - 1) : t.blocks[b] = MaxData
    BY <1>1 DEF ImageOf
  <2>3. Len(t.blocks) \in Nat \ {0} /\ DOMAIN t.blocks = 1..Len(t.blocks)
    BY <2>2
  <2>4. \A b \in 1..Len(t.blocks) : t.blocks[b] \in 1..MaxData
    BY <2>2, <2>3, ElementOfSeq
  <2>. QED BY <2>1, <2>2, <2>3, <2>4
<1>3. FullBlock(t) \in Nat \ {0}
  <2>1. MaxData \in Nat
    BY DEF MaxData
  <2>2. t.rowSize \div t.rowSize <= MaxData \div t.rowSize
    BY <1>2, <2>1, DivisionMonotone
  <2>3. t.rowSize \div t.rowSize = 1
    BY <1>2
  <2>4. MaxData \div t.rowSize \in Nat
    BY <1>2, <2>1, Division
  <2>. QED BY <2>2, <2>3, <2>4 DEF FullBlock
<1>4. ASSUME NEW b \in 1..Len(t.blocks)
      PROVE  RowsOf(t, b) \in Nat /\ RowsOf(t, b) <= FullBlock(t)
  <2>1. MaxData \in Nat
    BY DEF MaxData
  <2>. QED BY <1>2, <2>1, Division, DivisionMonotone DEF RowsOf, FullBlock
<1>5. \A b \in 1..(Len(t.blocks) - 1) : RowsOf(t, b) = FullBlock(t)
  BY <1>2 DEF RowsOf, FullBlock
<1>6. NRows(t) \in Nat
  <2>1. RowsOf(t, Len(t.blocks)) \in Nat
    BY <1>2, <1>4
  <2> DEFINE n == Len(t.blocks) - 1
             F == FullBlock(t)
             R == RowsOf(t, Len(t.blocks))
  <2>2. n \in Nat /\ F \in Nat /\ R \in Nat
    BY <1>2, <1>3, <2>1
  <2> HIDE DEF n, F, R
  <2>3. n * F + R \in Nat
    BY <2>2
  <2>. QED BY <2>3 DEF NRows, n, F, R
<1>. QED BY <1>2, <1>3, <1>4, <1>5, <1>6

\* The rows of a block: as many as fit, numbered on from those before.
LEMMA RowsOfBlock ==
  ASSUME table \in Tables, NEW b \in 1..Len(table.blocks)
  PROVE  /\ Rows(b, table.blocks[b]) \in Seq(Nat)
         /\ Len(Rows(b, table.blocks[b])) = RowsOf(table, b)
         /\ \A p \in 1..RowsOf(table, b) :
               Rows(b, table.blocks[b])[p] = (b - 1) * FullBlock(table) + (p - 1)
<1> DEFINE n == RowsOf(table, b)
           F == FullBlock(table)
<1>1. n \in Nat /\ F \in Nat /\ b \in Nat \ {0}
  BY ImageNumbers
<1>2. Rows(b, table.blocks[b]) = [p \in 1..n |-> (b - 1) * F + (p - 1)]
  BY DEF Rows, RowsOf, RowNumber
<1> HIDE DEF n, F
<1>3. \A p \in 1..n : (b - 1) * F + (p - 1) \in Nat
  BY <1>1
<1>4. [p \in 1..n |-> (b - 1) * F + (p - 1)] \in Seq(Nat)
  BY <1>1, <1>3
<1>5. Len([p \in 1..n |-> (b - 1) * F + (p - 1)]) = n
  BY <1>1
<1>. QED BY <1>2, <1>4, <1>5 DEF n, F

\* Quotient and remainder find any row of a matrix that was read.
LEMMA FindsRow ==
  ASSUME table \in Tables, MatrixOK, loaded, ~fail, NEW k \in 0..(NRows(table) - 1)
  PROVE  HasRow(k) /\ RowOf(k) = k
<1> DEFINE n == Len(table.blocks)
           F == FullBlock(table)
           R == RowsOf(table, n)
           q == BlockIdx(k)
           r == RowIdx(k)
<1>1. /\ n \in Nat \ {0} /\ F \in Nat \ {0} /\ R \in Nat /\ R <= F
      /\ DOMAIN table.blocks = 1..n /\ NRows(table) \in Nat
      /\ \A b \in 1..(n - 1) : RowsOf(table, b) = F
  <2>1. n \in Nat \ {0} /\ F \in Nat \ {0} /\ DOMAIN table.blocks = 1..n
    BY ImageNumbers
  <2>2. n \in 1..Len(table.blocks)
    BY <2>1
  <2>3. R \in Nat /\ R <= F
    BY <2>2, ImageNumbers
  <2>4. NRows(table) \in Nat /\ \A b \in 1..(n - 1) : RowsOf(table, b) = F
    BY ImageNumbers
  <2>. QED BY <2>1, <2>3, <2>4
<1>2. /\ rowsPerBlock = RowsOf(table, 1)
      /\ rowBlocks = [b \in 1..n |-> Rows(b, table.blocks[b])]
  BY <1>1 DEF MatrixOK, RowsOf
<1>3. Len(rowBlocks) = n
  BY <1>1, <1>2
<1>4. ASSUME NEW b \in 1..n
      PROVE  /\ Len(rowBlocks[b]) = RowsOf(table, b)
             /\ \A p \in 1..RowsOf(table, b) : rowBlocks[b][p] = (b - 1) * F + (p - 1)
  BY <1>2, RowsOfBlock
<1>5. k \in Nat /\ k < (n - 1) * F + R
  BY <1>1 DEF NRows
<1>6. CASE n = 1
  <2>1. rowsPerBlock = R /\ k < R
    BY <1>1, <1>2, <1>5, <1>6
  <2>2. k \div R = 0 /\ k % R = k /\ R # 0
    <3>1. R \in Nat \ {0}
      BY <1>1, <1>5, <2>1
    <3> HIDE DEF n, F, R
    <3>. QED BY <1>5, <2>1, <3>1
  <2>3. BlockIdx(k) = 0 /\ RowIdx(k) = k
    BY <2>1, <2>2 DEF BlockIdx, RowIdx
  <2>4. Len(rowBlocks[1]) = R /\ rowBlocks[1][k + 1] = (1 - 1) * F + ((k + 1) - 1)
    BY <1>1, <1>4, <1>5, <1>6, <2>1
  <2>5. rowBlocks[1][k + 1] = k
    BY <1>1, <1>5, <2>4
  <2>. QED BY <1>3, <1>6, <2>1, <2>2, <2>3, <2>4, <2>5 DEF HasRow, RowOf
<1>7. CASE n > 1
  <2>1. rowsPerBlock = F
    BY <1>1, <1>2, <1>7
  <2>2. q \in Nat /\ r \in 0..(F - 1) /\ k = F * q + r
    BY <1>1, <1>5, <2>1, Division DEF BlockIdx, RowIdx
  <2> HIDE DEF n, F, R, q, r
  <2>3. q < n /\ (q = n - 1 => r < R)
    BY <1>1, <1>5, <2>2, RowInBlocks
  <2>4. q + 1 \in 1..n /\ r + 1 \in 1..RowsOf(table, q + 1)
    <3>1. CASE q = n - 1
      BY <1>1, <2>2, <2>3, <3>1 DEF R
    <3>2. CASE q # n - 1
      <4>1. RowsOf(table, q + 1) = F
        BY <1>1, <2>2, <2>3, <3>2
      <4>. QED BY <1>1, <2>2, <2>3, <4>1
    <3>. QED BY <3>1, <3>2
  <2>5. Len(rowBlocks[q + 1]) = RowsOf(table, q + 1)
    BY <1>4, <2>4
  <2>6. rowBlocks[q + 1][r + 1] = ((q + 1) - 1) * F + ((r + 1) - 1)
    BY <1>4, <2>4
  <2>7. rowBlocks[q + 1][r + 1] = k
    BY <1>1, <2>2, <2>6
  <2>8. r < Len(rowBlocks[q + 1])
    BY <1>1, <2>2, <2>3, <2>4, <2>5
  <2>. QED BY <1>1, <1>3, <2>1, <2>3, <2>7, <2>8 DEF HasRow, RowOf, q, r
<1> HIDE DEF n, F, R
<1>. QED BY <1>1, <1>6, <1>7

\* Whatever the size that arrived, its rows are a sequence of row numbers.
LEMMA RowsType ==
  ASSUME table \in Tables, NEW b \in Nat \ {0}, NEW size \in Nat
  PROVE  Rows(b, size) \in Seq(Nat) /\ size \div table.rowSize \in Nat
<1> DEFINE n == size \div table.rowSize
           F == FullBlock(table)
<1>1. n \in Nat /\ F \in Nat
  BY ImageNumbers, Division
<1>2. Rows(b, size) = [p \in 1..n |-> (b - 1) * F + (p - 1)]
  BY DEF Rows, RowNumber
<1> HIDE DEF n, F
<1>3. \A p \in 1..n : (b - 1) * F + (p - 1) \in Nat
  BY <1>1
<1>4. [p \in 1..n |-> (b - 1) * F + (p - 1)] \in Seq(Nat)
  BY <1>1, <1>3
<1>. QED BY <1>1, <1>2, <1>4 DEF n

\* The row index has rows of the matrix.
LEMMA IndexRows ==
  ASSUME NEW t \in Tables, NEW i \in DOMAIN t.index
  PROVE  t.index[i] \in 0..(NRows(t) - 1) /\ t.index[i] \in Nat
<1>1. t.index \in Seq(0..(NRows(t) - 1))
  BY TableAssumption DEF ImageOf
<1>2. i \in 1..Len(t.index)
  BY <1>1
<1>3. t.index[i] \in 0..(NRows(t) - 1)
  BY <1>1, <1>2, ElementOfSeq
<1>4. NRows(t) \in Nat
  BY ImageNumbers
<1>. QED BY <1>3, <1>4

\* What is asked for is a cell of the matrix, and found unless a read has failed.
LEMMA AskedRow ==
  ASSUME TypeOK, AskedOK, MatrixOK, asked # None
  PROVE  /\ asked[1] \in 0..(NRows(table) - 1) /\ asked[1] \in Nat
         /\ asked[2] \in Column /\ asked = <<asked[1], asked[2]>>
         /\ (loaded /\ ~fail) => HasRow(asked[1]) /\ RowOf(asked[1]) = asked[1]
<1>1. table \in Tables
  BY DEF TypeOK
<1>2. PICK i \in DOMAIN table.index, c \in Column : asked = <<table.index[i], c>>
  BY DEF AskedOK
<1>3. asked[1] = table.index[i] /\ asked[2] = c
  BY <1>2
<1>4. asked[1] \in 0..(NRows(table) - 1) /\ asked[1] \in Nat
  BY <1>1, <1>3, IndexRows
<1>. QED BY <1>1, <1>2, <1>3, <1>4, FindsRow

\* The key of an entry leads to the row it belongs to.
LEMMA KeyOfRow ==
  ASSUME TypeOK, AskedOK, MatrixOK, InRow
  PROVE  /\ loaded /\ asked # None
         /\ Key \in (1..Len(rowBlocks)) \X (Nat \ {0}) \X Column
         /\ Key[3] = asked[2]
         /\ Key[2] \in 1..Len(rowBlocks[Key[1]])
         /\ rowBlocks[Key[1]][Key[2]] = RowOf(asked[1])
<1>1. loaded /\ asked # None
  BY DEF InRow, AskedOK
<1>2. asked[1] \in Nat /\ asked[2] \in Column
  BY <1>1, AskedRow
<1>3. rowsPerBlock \in Nat \ {0}
  BY DEF TypeOK, InRow, HasRow
<1>4. BlockIdx(asked[1]) \in Nat /\ RowIdx(asked[1]) \in Nat
  <2>1. /\ asked[1] \div rowsPerBlock \in Nat
        /\ asked[1] % rowsPerBlock \in 0..(rowsPerBlock - 1)
    BY <1>2, <1>3, Division
  <2>. QED BY <1>3, <2>1 DEF BlockIdx, RowIdx
<1>5. /\ rowBlocks \in Seq(Seq(Nat))
      /\ BlockIdx(asked[1]) < Len(rowBlocks)
      /\ RowIdx(asked[1]) < Len(rowBlocks[BlockIdx(asked[1]) + 1])
  BY DEF TypeOK, InRow, HasRow
<1>6. BlockIdx(asked[1]) + 1 \in 1..Len(rowBlocks)
  BY <1>4, <1>5
<1>7. rowBlocks[BlockIdx(asked[1]) + 1] \in Seq(Nat)
  BY <1>5, <1>6, ElementOfSeq
<1>8. RowIdx(asked[1]) + 1 \in 1..Len(rowBlocks[BlockIdx(asked[1]) + 1])
  BY <1>4, <1>5, <1>7
<1>9. RowIdx(asked[1]) + 1 \in Nat \ {0}
  BY <1>4
<1>. QED BY <1>1, <1>2, <1>6, <1>8, <1>9 DEF Key, RowOf

-----------------------------------------------------------------------------
(* The steps. *)

LEMMA InitOK == Init => IInv
<1> SUFFICES ASSUME Init PROVE IInv
  OBVIOUS
<1>1. /\ assertsOn \in BOOLEAN /\ table \in Tables /\ loaded = FALSE
      /\ rowsPerBlock = 0 /\ rowBlocks = <<>>
      /\ cells = <<>> /\ asked = None /\ cut = FALSE /\ fail = FALSE /\ pc = "idle"
  BY DEF Init
<1>2. DOMAIN cells = {}
  BY <1>1
<1>3. TypeOK
  <2>1. rowBlocks \in Seq(Seq(Nat))
    BY <1>1
  <2>. QED BY <1>1, <1>2, <2>1 DEF TypeOK
<1>4. AskedOK /\ MatrixOK
  BY <1>1 DEF AskedOK, MatrixOK
<1>5. CellsOK
  BY <1>2 DEF CellsOK
<1>6. AnswerIsTheCell /\ UndefinedOnlyCut /\ AbortsOnlyLost
  BY <1>1 DEF AnswerIsTheCell, UndefinedOnlyCut, AbortsOnlyLost
<1>. QED BY <1>3, <1>4, <1>5, <1>6 DEF IInv

\* What neither changes the matrix, the cells nor the stream leaves their parts.
LEMMA SameOK ==
  ASSUME IInv, UNCHANGED <<assertsOn, table, matrix, cells, fail>>, cut' = cut
  PROVE  MatrixOK' /\ CellsOK'
<1>1. MatrixOK'
  BY DEF IInv, MatrixOK, matrix, Rows, RowNumber, FullBlock
<1>2. CellsOK'
  BY DEF IInv, CellsOK, matrix, ValueOf
<1>. QED BY <1>1, <1>2

LEMMA AskStep ==
  ASSUME IInv, NEW k \in DOMAIN table.index, NEW c \in Column, Ask(k, c)
  PROVE  IInv'
<1>1. TypeOK'
  <2>1. table \in Tables
    BY DEF IInv, TypeOK
  <2>2. asked' \in Nat \X Column
    BY <2>1, IndexRows DEF Ask
  <2>. QED BY <2>2 DEF IInv, TypeOK, Ask, matrix
<1>2. AskedOK'
  <2>1. asked' # None
    <3>1. table \in Tables
      BY DEF IInv, TypeOK
    <3>2. table.index[k] \in 0..(NRows(table) - 1)
      BY <3>1, IndexRows
    <3>. QED BY <3>1, <3>2, TableAssumption DEF Ask
  <2>. QED BY <2>1 DEF Ask, AskedOK
<1>3. MatrixOK' /\ CellsOK'
  BY SameOK DEF Ask
<1>4. AnswerIsTheCell' /\ UndefinedOnlyCut' /\ AbortsOnlyLost'
  BY DEF Ask, AnswerIsTheCell, UndefinedOnlyCut, AbortsOnlyLost
<1>. QED BY <1>1, <1>2, <1>3, <1>4 DEF IInv

LEMMA KeepMatrixStep ==
  ASSUME IInv, KeepMatrix
  PROVE  IInv'
<1>1. TypeOK' /\ AskedOK'
  BY DEF IInv, TypeOK, AskedOK, KeepMatrix, MatrixIsLoaded, matrix
<1>2. MatrixOK' /\ CellsOK'
  BY SameOK DEF KeepMatrix
<1>3. AnswerIsTheCell' /\ UndefinedOnlyCut' /\ AbortsOnlyLost'
  BY DEF KeepMatrix, AnswerIsTheCell, UndefinedOnlyCut, AbortsOnlyLost
<1>. QED BY <1>1, <1>2, <1>3 DEF IInv

LEMMA CutStep ==
  ASSUME IInv, Cut
  PROVE  IInv'
<1>1. TypeOK' /\ AskedOK'
  BY DEF IInv, TypeOK, AskedOK, Cut, matrix
<1>2. MatrixOK'
  BY DEF IInv, MatrixOK, Cut, matrix, Rows, RowNumber, FullBlock
<1>3. CellsOK'
  BY DEF IInv, CellsOK, Cut, matrix, ValueOf
<1>4. AnswerIsTheCell' /\ UndefinedOnlyCut' /\ AbortsOnlyLost'
  BY DEF IInv, Cut, AnswerIsTheCell, UndefinedOnlyCut, AbortsOnlyLost, ValueOf
<1>. QED BY <1>1, <1>2, <1>3, <1>4 DEF IInv

\* Division by zero and at() need a matrix that was not all read.
LEMMA NoRowStep ==
  ASSUME IInv, NoRow
  PROVE  IInv'
<1>1. TypeOK' /\ AskedOK'
  BY DEF IInv, TypeOK, AskedOK, NoRow, matrix
<1>2. MatrixOK' /\ CellsOK'
  BY SameOK DEF NoRow
<1>3. fail
  BY AskedRow DEF IInv, NoRow, AskedOK
<1>4. AnswerIsTheCell' /\ UndefinedOnlyCut' /\ AbortsOnlyLost'
  BY <1>3 DEF NoRow, AnswerIsTheCell, UndefinedOnlyCut, AbortsOnlyLost, TypeOK, IInv
<1>. QED BY <1>1, <1>2, <1>4 DEF IInv

\* Both ways to load cut a matrix of nothing, while there are no cells.
LEMMA LoadOK ==
  ASSUME IInv, ~loaded, pc = "matrix", loaded' = TRUE, pc' = "row",
         UNCHANGED <<assertsOn, table, cells, asked, answer, cut>>, fail' \in BOOLEAN, fail' => cut,
         rowsPerBlock' \in Nat, rowBlocks' \in Seq(Seq(Nat)),
         ~fail' => /\ rowsPerBlock' = table.blocks[1] \div table.rowSize
                   /\ rowBlocks' = [b \in DOMAIN table.blocks |-> Rows(b, table.blocks[b])]
                   /\ ~table.broken
  PROVE  IInv'
<1>1. DOMAIN cells = {}
  <2>1. rowBlocks = <<>>
    BY DEF IInv, MatrixOK
  <2>2. 1..Len(rowBlocks) = {}
    BY <2>1
  <2>. QED BY <2>2 DEF IInv, TypeOK
<1>2. TypeOK'
  BY <1>1 DEF IInv, TypeOK
<1>3. AskedOK'
  BY DEF IInv, AskedOK
<1>4. MatrixOK'
  BY DEF MatrixOK, Rows, RowNumber, FullBlock
<1>5. CellsOK'
  BY <1>1 DEF CellsOK
<1>6. AnswerIsTheCell' /\ UndefinedOnlyCut' /\ AbortsOnlyLost'
  BY DEF AnswerIsTheCell, UndefinedOnlyCut, AbortsOnlyLost
<1>. QED BY <1>2, <1>3, <1>4, <1>5, <1>6 DEF IInv

\* The one block of a heap holds as many rows as the index names.
LEMMA LoadFromHNStep ==
  ASSUME IInv, LoadFromHN
  PROVE  IInv'
<1> DEFINE size == table.blocks[1]
           n    == size \div table.rowSize
<1>1. table \in Tables /\ fail \in BOOLEAN /\ rowBlocks = <<>> /\ ~loaded
  BY DEF IInv, TypeOK, MatrixOK, LoadFromHN, MatrixIsLoaded
<1>2. Len(table.blocks) = 1 /\ Len(table.index) = NRows(table)
  BY <1>1, TableAssumption DEF ImageOf, LoadFromHN
<1>3. /\ size \in Nat /\ n \in Nat /\ FullBlock(table) \in Nat
      /\ DOMAIN table.blocks = {1}
  BY <1>1, <1>2, ImageNumbers DEF RowsOf
<1>4. n = Len(table.index)
  <2>1. NRows(table) = (1 - 1) * FullBlock(table) + n
    BY <1>2 DEF NRows, RowsOf
  <2> HIDE DEF n
  <2>. QED BY <1>2, <1>3, <2>1
<1>5. /\ rowsPerBlock' = n /\ rowBlocks' = Append(rowBlocks, Rows(1, size))
      /\ loaded' = TRUE /\ pc' = "row"
  BY <1>4 DEF LoadFromHN
<1>6. Rows(1, size) \in Seq(Nat)
  <2> HIDE DEF size, n
  <2>1. 1 \in Nat \ {0} /\ size \in Nat
    BY <1>3 DEF size
  <2>. QED BY <1>1, <2>1, RowsType
<1>7. rowBlocks' = <<Rows(1, size)>>
  BY <1>1, <1>5
<1>8. rowBlocks' = [b \in DOMAIN table.blocks |-> Rows(b, table.blocks[b])]
  BY <1>3, <1>7
<1>9. rowBlocks' \in Seq(Seq(Nat))
  BY <1>6, <1>7
<1>. QED
  <2>1. UNCHANGED <<assertsOn, table, cells, asked, answer, cut>> /\ fail' = fail /\ pc = "matrix"
    BY DEF LoadFromHN
  <2>2. fail => cut
    BY DEF IInv, MatrixOK
  <2>3. ~table.broken
    BY <1>1, TableAssumption DEF ImageOf, LoadFromHN
  <2>. QED BY <1>1, <1>3, <1>5, <1>8, <1>9, <2>1, <2>2, <2>3, LoadOK

\* Blocks that arrive pass the assertions; what does not arrive needs a cut.
LEMMA LoadFromSubNodeTreeStep ==
  ASSUME IInv, LoadFromSubNodeTree
  PROVE  IInv'
<1>1. /\ table \in Tables /\ fail \in BOOLEAN /\ rowBlocks = <<>> /\ ~loaded
      /\ fail => cut
  BY DEF IInv, TypeOK, MatrixOK, LoadFromSubNodeTree, MatrixIsLoaded
<1>2. PICK sizes \in IF table.broken THEN {<<0>>} ELSE LoadedSizes :
        /\ Arrival(sizes = table.blocks)
        /\ IF assertsOn /\ (sizes # table.blocks \/ ~SizesAsserted(sizes))
           THEN pc' = "aborted" /\ UNCHANGED matrix
           ELSE /\ rowsPerBlock' = RowsPerBlock(sizes)
                /\ rowBlocks' = rowBlocks \o [b \in DOMAIN sizes |-> Rows(b, sizes[b])]
                /\ loaded' = TRUE /\ pc' = "row"
  BY DEF LoadFromSubNodeTree
<1>3. /\ fail' \in BOOLEAN /\ (fail' => cut) /\ (sizes # table.blocks => cut)
      /\ ~fail' => sizes = table.blocks /\ ~table.broken
  <2>1. table.broken => sizes # table.blocks
    <3>1. table.blocks \in Seq(1..MaxData) /\ table.blocks # <<>> /\ MaxData \in Nat
      BY <1>1, TableAssumption DEF ImageOf, MaxData
    <3>2. 1 \in 1..Len(table.blocks)
      BY <3>1
    <3>3. table.blocks[1] \in 1..MaxData
      BY <3>1, <3>2, ElementOfSeq
    <3>4. table.blocks[1] # 0
      BY <3>1, <3>3
    <3>5. table.broken => sizes = <<0>>
      BY <1>2
    <3>. QED BY <3>4, <3>5
  <2>. QED BY <1>1, <1>2, <2>1 DEF Arrival
<1>4. UNCHANGED <<assertsOn, table, cells, asked, answer, cut>> /\ pc = "matrix"
  BY DEF LoadFromSubNodeTree
<1>5. /\ Len(sizes) \in Nat \ {0} /\ DOMAIN sizes = 1..Len(sizes)
      /\ \A b \in DOMAIN sizes : sizes[b] \in Nat
  <2>1. CASE sizes = <<0>>
    BY <2>1
  <2>2. CASE \E n \in 0..Len(table.blocks) :
               sizes = [b \in DOMAIN table.blocks |-> IF b <= n THEN table.blocks[b] ELSE 0]
    <3>1. /\ Len(table.blocks) \in Nat \ {0} /\ DOMAIN table.blocks = 1..Len(table.blocks)
          /\ \A b \in 1..Len(table.blocks) : table.blocks[b] \in Nat
      BY <1>1, ImageNumbers
    <3>. QED BY <2>2, <3>1
  <2>. QED BY <1>2, <2>1, <2>2 DEF LoadedSizes
<1>6. /\ RowsPerBlock(sizes) \in Nat
      /\ [b \in DOMAIN sizes |-> Rows(b, sizes[b])] \in Seq(Seq(Nat))
  <2>1. \A b \in 1..Len(sizes) : /\ Rows(b, sizes[b]) \in Seq(Nat)
                                /\ sizes[b] \div table.rowSize \in Nat
    <3>1. TAKE b \in 1..Len(sizes)
    <3>2. b \in Nat \ {0} /\ sizes[b] \in Nat
      BY <1>5
    <3> DEFINE size == sizes[b]
    <3> HIDE DEF size
    <3>3. Rows(b, size) \in Seq(Nat) /\ size \div table.rowSize \in Nat
      BY <1>1, <3>2, RowsType DEF size
    <3>. QED BY <3>3 DEF size
  <2>. QED BY <1>5, <2>1 DEF RowsPerBlock
<1>7. SizesAsserted(table.blocks)
  <2>1. /\ Len(table.blocks) \in Nat \ {0}
        /\ \A b \in 1..(Len(table.blocks) - 1) : table.blocks[b] = MaxData
    BY <1>1, ImageNumbers
  <2>2. ASSUME NEW b \in 1..(Len(table.blocks) - 1)
        PROVE  table.blocks[1] = table.blocks[b]
    BY <2>1
  <2>. QED BY <2>1, <2>2 DEF SizesAsserted, RowsPerBlock
<1>8. CASE assertsOn /\ (sizes # table.blocks \/ ~SizesAsserted(sizes))
  <2>1. pc' = "aborted" /\ UNCHANGED matrix
    BY <1>2, <1>8
  <2>2. cut
    BY <1>3, <1>7, <1>8
  <2>3. TypeOK'
    BY <1>3, <1>4, <2>1 DEF IInv, TypeOK, matrix
  <2>4. AskedOK' /\ MatrixOK'
    BY <1>1, <1>3, <1>4, <2>1 DEF IInv, AskedOK, MatrixOK, matrix
  <2>5. CellsOK'
    <3>1. DOMAIN cells = {}
      <4>1. 1..Len(rowBlocks) = {}
        BY <1>1
      <4>. QED BY <4>1 DEF IInv, TypeOK
    <3>. QED BY <1>4, <3>1 DEF CellsOK
  <2>6. AnswerIsTheCell' /\ UndefinedOnlyCut' /\ AbortsOnlyLost'
    BY <1>4, <2>1, <2>2 DEF AnswerIsTheCell, UndefinedOnlyCut, AbortsOnlyLost
  <2>. QED BY <2>3, <2>4, <2>5, <2>6 DEF IInv
<1>9. CASE ~(assertsOn /\ (sizes # table.blocks \/ ~SizesAsserted(sizes)))
  <2> DEFINE rows == [b \in DOMAIN sizes |-> Rows(b, sizes[b])]
  <2>1. /\ rowsPerBlock' = RowsPerBlock(sizes) /\ rowBlocks' = rowBlocks \o rows
        /\ loaded' = TRUE /\ pc' = "row"
    BY <1>2, <1>9
  <2>2. rowBlocks' = rows
    BY <1>1, <1>6, <2>1, ConcatEmptySeq
  <2>3. rowBlocks' \in Seq(Seq(Nat)) /\ rowsPerBlock' \in Nat
    BY <1>6, <2>1, <2>2
  <2>4. ~fail' => /\ rowsPerBlock' = table.blocks[1] \div table.rowSize
                  /\ rowBlocks' = [b \in DOMAIN table.blocks |-> Rows(b, table.blocks[b])]
                  /\ ~table.broken
    BY <1>3, <2>1, <2>2 DEF RowsPerBlock
  <2>. QED BY <1>1, <1>3, <1>4, <2>1, <2>3, <2>4, LoadOK
<1>. QED BY <1>8, <1>9

\* A matrix whose load() throws is not loaded: the call throws, and the next one
\* comes to it again.
LEMMA MatrixThrowsStep ==
  ASSUME IInv, MatrixThrows
  PROVE  IInv'
<1>1. /\ answer' = Threw /\ pc' = "idle" /\ table.broken
      /\ UNCHANGED <<assertsOn, table, matrix, asked, cells, cut, fail>>
  BY DEF MatrixThrows
<1>2. TypeOK' /\ AskedOK'
  BY <1>1 DEF IInv, TypeOK, AskedOK, matrix
<1>3. MatrixOK' /\ CellsOK'
  BY <1>1, SameOK
<1>4. AnswerIsTheCell' /\ UndefinedOnlyCut' /\ AbortsOnlyLost'
  BY <1>1 DEF AnswerIsTheCell, UndefinedOnlyCut, AbortsOnlyLost, ValueOf
<1>. QED BY <1>2, <1>3, <1>4 DEF IInv

\* Where a row was found, and no read has failed, load() of the matrix did not throw.
LEMMA RowIsRead ==
  ASSUME IInv, InRow, ~fail
  PROVE  ~table.broken
BY DEF IInv, InRow, AskedOK, MatrixOK

\* An entry is stored with the value of its own cell, unless a read has failed.
LEMMA StoreStep ==
  ASSUME IInv, InRow, NEW v, Store(v), fail' \in BOOLEAN, fail' => cut,
         ~fail' => /\ ~fail /\ CellPlace \notin {"absent", "broken"}
                   /\ v = ValueOf(RowOf(asked[1]), asked[2])
  PROVE  IInv'
<1>1. /\ cells' = [k \in DOMAIN cells \cup {Key} |-> IF k = Key THEN v ELSE cells[k]]
      /\ answer' = v /\ pc' = "idle" /\ UNCHANGED <<assertsOn, table, matrix, asked, cut>>
  BY DEF Store, Return
<1>2. /\ loaded /\ asked # None
      /\ Key \in (1..Len(rowBlocks)) \X (Nat \ {0}) \X Column
      /\ Key[3] = asked[2]
      /\ Key[2] \in 1..Len(rowBlocks[Key[1]])
      /\ rowBlocks[Key[1]][Key[2]] = RowOf(asked[1])
  BY KeyOfRow DEF IInv
<1>3. TypeOK'
  <2>1. DOMAIN cells' = DOMAIN cells \cup {Key}
    BY <1>1
  <2>2. DOMAIN cells' \subseteq (1..Len(rowBlocks)) \X (Nat \ {0}) \X Column
    BY <1>2, <2>1 DEF IInv, TypeOK
  <2>. QED BY <1>1, <2>2 DEF IInv, TypeOK, matrix
<1>4. AskedOK'
  BY <1>1 DEF IInv, AskedOK, matrix
<1>5. MatrixOK'
  BY <1>1 DEF IInv, MatrixOK, matrix, Rows, RowNumber, FullBlock
<1>6. CellsOK'
  <2> SUFFICES ASSUME ~fail', NEW key \in DOMAIN cells'
               PROVE  /\ loaded' /\ key[2] \in 1..Len(rowBlocks'[key[1]])
                      /\ table'.place[rowBlocks'[key[1]][key[2]]][key[3]]
                            \notin {"absent", "broken"}
                      /\ cells'[key] = ValueOf(rowBlocks[key[1]][key[2]], key[3])
    BY <1>1 DEF CellsOK, ValueOf, matrix
  <2>1. table' = table /\ rowBlocks' = rowBlocks /\ loaded' = loaded
    BY <1>1 DEF matrix
  <2>2. CASE key = Key
    <3>1. cells'[key] = v
      BY <1>1, <2>2
    <3>. QED BY <1>2, <2>1, <2>2, <3>1 DEF CellPlace
  <2>3. CASE key # Key
    <3>1. key \in DOMAIN cells /\ cells'[key] = cells[key]
      BY <1>1, <2>3
    <3>. QED BY <2>1, <3>1 DEF IInv, CellsOK
  <2>. QED BY <2>2, <2>3
<1>7. AnswerIsTheCell'
  <2> SUFFICES ASSUME ~fail' PROVE answer' = ValueOf(asked[1], asked[2])
    BY <1>1 DEF AnswerIsTheCell, ValueOf
  <2>1. RowOf(asked[1]) = asked[1]
    BY <1>2, AskedRow DEF IInv
  <2>. QED BY <1>1, <2>1
<1>8. UndefinedOnlyCut' /\ AbortsOnlyLost'
  BY <1>1 DEF UndefinedOnlyCut, AbortsOnlyLost
<1>. QED BY <1>3, <1>4, <1>5, <1>6, <1>7, <1>8 DEF IInv

\* An assertion fails only for a cell that is missing, or after a cut.
LEMMA AbortStep ==
  ASSUME IInv, InRow, Abort, fail' \in BOOLEAN, fail' => cut,
         ~cut => CellPlace \in {"absent", "lost"}, ~fail' => ~fail
  PROVE  IInv'
<1>1. pc' = "aborted" /\ UNCHANGED <<assertsOn, table, matrix, cells, asked, answer, cut>>
  BY DEF Abort
<1>2. TypeOK' /\ AskedOK'
  BY <1>1 DEF IInv, TypeOK, AskedOK, matrix
<1>3. MatrixOK'
  BY <1>1 DEF IInv, MatrixOK, matrix, Rows, RowNumber, FullBlock
<1>4. CellsOK'
  BY <1>1 DEF IInv, CellsOK, matrix, ValueOf
<1>5. AnswerIsTheCell' /\ UndefinedOnlyCut'
  BY <1>1 DEF AnswerIsTheCell, UndefinedOnlyCut
<1>6. AbortsOnlyLost'
  <2> SUFFICES ASSUME ~cut
               PROVE  loaded /\ table.place[asked[1]][asked[2]] \in {"absent", "lost"}
    BY <1>1 DEF AbortsOnlyLost, matrix
  <2>1. loaded /\ asked # None /\ ~fail
    BY KeyOfRow DEF IInv, MatrixOK
  <2>2. RowOf(asked[1]) = asked[1]
    BY <2>1, AskedRow DEF IInv
  <2>. QED BY <2>1, <2>2 DEF CellPlace
<1>. QED BY <1>2, <1>3, <1>4, <1>5, <1>6 DEF IInv

\* A call that only returns: what it returns is what the cell is worth.
LEMMA ReturnStep ==
  ASSUME IInv, InRow, NEW v, Return(v), UNCHANGED <<cells, fail>>,
         ~fail => v = ValueOf(RowOf(asked[1]), asked[2])
  PROVE  IInv'
<1>1. answer' = v /\ pc' = "idle" /\ UNCHANGED <<assertsOn, table, matrix, asked, cut>>
  BY DEF Return
<1>2. TypeOK' /\ AskedOK'
  BY <1>1 DEF IInv, TypeOK, AskedOK, matrix
<1>3. MatrixOK' /\ CellsOK'
  BY <1>1, SameOK
<1>4. AnswerIsTheCell'
  <2> SUFFICES ASSUME ~fail PROVE answer' = ValueOf(asked[1], asked[2])
    BY <1>1 DEF AnswerIsTheCell, ValueOf
  <2>1. RowOf(asked[1]) = asked[1]
    BY KeyOfRow, AskedRow DEF IInv
  <2>. QED BY <1>1, <2>1
<1>5. UndefinedOnlyCut' /\ AbortsOnlyLost'
  BY <1>1 DEF UndefinedOnlyCut, AbortsOnlyLost
<1>. QED BY <1>2, <1>3, <1>4, <1>5 DEF IInv

LEMMA KeepCellStep ==
  ASSUME IInv, KeepCell
  PROVE  IInv'
<1>1. ~fail => cells[Key] = ValueOf(RowOf(asked[1]), asked[2])
  <2>1. Key \in DOMAIN cells /\ InRow
    BY DEF KeepCell, IsLoaded
  <2>2. Key[3] = asked[2] /\ rowBlocks[Key[1]][Key[2]] = RowOf(asked[1])
    BY <2>1, KeyOfRow DEF IInv
  <2>. QED BY <2>1, <2>2 DEF IInv, CellsOK
<1>. QED BY <1>1, ReturnStep DEF KeepCell

LEMMA AbsentCellStep ==
  ASSUME IInv, AbsentCell
  PROVE  IInv'
<1>1. fail \in BOOLEAN /\ (fail => cut)
  BY DEF IInv, TypeOK, MatrixOK
<1>2. InRow /\ CellPlace = "absent" /\ UNCHANGED fail
  BY DEF AbsentCell
<1>3. CASE Abort
  BY <1>1, <1>2, <1>3, AbortStep
<1>4. CASE Return(None) /\ UNCHANGED cells
  <2>1. ~fail => ValueOf(RowOf(asked[1]), asked[2]) = None
    <3>1. ~fail => ~table.broken
      BY <1>2, RowIsRead
    <3>. QED BY <1>2, <3>1 DEF ValueOf, CellPlace
  <2>. QED BY <1>2, <1>4, <2>1, ReturnStep
<1>. QED BY <1>3, <1>4 DEF AbsentCell

LEMMA ReadCellStep ==
  ASSUME IInv, ReadCell
  PROVE  IInv'
<1> DEFINE v == <<RowOf(asked[1]), asked[2]>>
<1>1. fail \in BOOLEAN /\ (fail => cut)
  BY DEF IInv, TypeOK, MatrixOK
<1>2. InRow /\ CellPlace \in {"row", "heap"} /\ UNCHANGED fail /\ Store(v)
  BY DEF ReadCell
<1>3. ~fail => v = ValueOf(RowOf(asked[1]), asked[2])
  <2>1. ~fail => ~table.broken
    BY <1>2, RowIsRead
  <2>. QED BY <1>2, <2>1 DEF ValueOf, CellPlace
<1>4. CellPlace \notin {"absent", "broken"}
  BY <1>2
<1>. QED BY <1>1, <1>2, <1>3, <1>4, StoreStep

LEMMA ReadNodeCellStep ==
  ASSUME IInv, ReadNodeCell
  PROVE  IInv'
<1> DEFINE v == <<RowOf(asked[1]), asked[2]>>
<1>1. fail \in BOOLEAN /\ (fail => cut)
  BY DEF IInv, TypeOK, MatrixOK
<1>2. /\ InRow /\ CellPlace \in {"node", "broken", "lost"}
      /\ ~fail => ~table.broken
  BY RowIsRead DEF ReadNodeCell
<1>3. CASE CellPlace = "lost"
  <2>1. UNCHANGED fail /\ (Abort \/ Store(Empty))
    BY <1>3 DEF ReadNodeCell
  <2>2. CASE Abort
    BY <1>1, <1>2, <1>3, <2>1, <2>2, AbortStep
  <2>3. CASE Store(Empty)
    <3>1. ~fail => ValueOf(RowOf(asked[1]), asked[2]) = Empty
      BY <1>2, <1>3 DEF ValueOf, CellPlace
    <3>. QED BY <1>1, <1>2, <1>3, <2>1, <2>3, <3>1, StoreStep
  <2>. QED BY <2>1, <2>2, <2>3
<1>4. CASE CellPlace # "lost"
  <2>1. PICK arrived \in BOOLEAN :
          /\ Arrival(arrived)
          /\ IF arrived
             THEN IF CellPlace = "broken" THEN Return(Threw) /\ UNCHANGED cells
                  ELSE Store(v)
             ELSE IF assertsOn THEN Abort ELSE Store(Empty)
    BY <1>4 DEF ReadNodeCell
  <2>2. /\ fail' \in BOOLEAN /\ (fail' => cut) /\ (~arrived => cut /\ fail')
        /\ (arrived => ~fail /\ ~fail')
    BY <1>1, <2>1 DEF Arrival
  <2>3. CASE arrived /\ CellPlace = "broken"
    <3>1. Return(Threw) /\ UNCHANGED <<cells, fail>>
      BY <1>1, <2>1, <2>2, <2>3
    <3>2. Threw = ValueOf(RowOf(asked[1]), asked[2])
      BY <2>3 DEF ValueOf, CellPlace
    <3>. QED BY <1>2, <3>1, <3>2, ReturnStep
  <2>4. CASE arrived /\ CellPlace = "node"
    <3>1. v = ValueOf(RowOf(asked[1]), asked[2])
      BY <1>2, <2>2, <2>4 DEF ValueOf, CellPlace
    <3>. QED BY <1>2, <2>1, <2>2, <2>4, <3>1, StoreStep
  <2>5. CASE ~arrived /\ Abort
    BY <1>2, <2>2, <2>5, AbortStep
  <2>6. CASE ~arrived /\ Store(Empty)
    BY <1>2, <2>2, <2>6, StoreStep
  <2>. QED BY <1>2, <1>4, <2>1, <2>3, <2>4, <2>5, <2>6
<1>. QED BY <1>2, <1>3, <1>4

LEMMA NextOK == IInv /\ [Next]_vars => IInv'
<1> SUFFICES ASSUME IInv, [Next]_vars PROVE IInv'
  OBVIOUS
<1>1. ASSUME NEW k \in DOMAIN table.index, NEW c \in Column, Ask(k, c)
      PROVE  IInv'
  BY <1>1, AskStep
<1>2. CASE KeepMatrix
  BY <1>2, KeepMatrixStep
<1>3. CASE LoadFromHN
  BY <1>3, LoadFromHNStep
<1>4. CASE LoadFromSubNodeTree
  BY <1>4, LoadFromSubNodeTreeStep
<1>5. CASE NoRow
  BY <1>5, NoRowStep
<1>6. CASE KeepCell
  BY <1>6, KeepCellStep
<1>7. CASE AbsentCell
  BY <1>7, AbsentCellStep
<1>8. CASE ReadCell
  BY <1>8, ReadCellStep
<1>9. CASE ReadNodeCell
  BY <1>9, ReadNodeCellStep
<1>10. CASE Cut
  BY <1>10, CutStep
<1>11. CASE MatrixThrows
  BY <1>11, MatrixThrowsStep
<1>12. CASE UNCHANGED vars
  <2>1. TypeOK' /\ AskedOK'
    BY <1>12 DEF IInv, TypeOK, AskedOK, vars, matrix
  <2>2. MatrixOK' /\ CellsOK'
    BY <1>12, SameOK DEF vars
  <2>3. AnswerIsTheCell' /\ UndefinedOnlyCut' /\ AbortsOnlyLost'
    BY <1>12 DEF IInv, AnswerIsTheCell, UndefinedOnlyCut, AbortsOnlyLost, ValueOf,
                 vars, matrix
  <2>. QED BY <2>1, <2>2, <2>3 DEF IInv
<1>. QED BY <1>1, <1>2, <1>3, <1>4, <1>5, <1>6, <1>7, <1>8, <1>9, <1>10, <1>11, <1>12
        DEF Next

-----------------------------------------------------------------------------
(* The theorems. *)

LEMMA Inductive == Spec => []IInv
  BY InitOK, NextOK, PTL DEF Spec

\* The variables of every table keep their types.
THEOREM TypeCorrect == Spec => []TypeOK
<1>1. IInv => TypeOK
  BY DEF IInv
<1>. QED BY <1>1, Inductive, PTL

\* getSingleRowRaw: whatever the number of blocks, the size of a row and the length of
\* the last block, dividing a row index by the rows of the first block finds that row.
THEOREM RowsFound == Spec => []RowsAreFound
<1>1. IInv => RowsAreFound
  <2> SUFFICES ASSUME IInv, loaded, ~fail, NEW i \in DOMAIN table.index
               PROVE  HasRow(table.index[i]) /\ RowOf(table.index[i]) = table.index[i]
    BY DEF RowsAreFound
  <2>1. table \in Tables /\ MatrixOK
    BY DEF IInv, TypeOK
  <2>2. table.index[i] \in 0..(NRows(table) - 1)
    BY <2>1, IndexRows
  <2>. QED BY <2>1, <2>2, FindsRow
<1>. QED BY <1>1, Inductive, PTL

\* loadRowEntry: a call returns the cell it asked for, however many came before it.
THEOREM AnswersAreCells == Spec => []AnswerIsTheCell
<1>1. IInv => AnswerIsTheCell
  BY DEF IInv
<1>. QED BY <1>1, Inductive, PTL

\* getSingleRowRaw: the division by zero and the exception of at() need a failed read.
THEOREM UndefinedCut == Spec => []UndefinedOnlyCut
<1>1. IInv => UndefinedOnlyCut
  BY DEF IInv
<1>. QED BY <1>1, Inductive, PTL

\* With assertions, a file that nobody cut ends the program only once the matrix is
\* loaded and, for a cell that the file has, only where its sub-node is missing.
THEOREM AbortsLost == Spec => []AbortsOnlyLost
<1>1. IInv => AbortsOnlyLost
  BY DEF IInv
<1>. QED BY <1>1, Inductive, PTL

\* Both of them: how getSingleRowAndLoadColumn may end the program.
THEOREM EndsOnly == Spec => []EndsOnlyOn
<1>1. UndefinedOnlyCut /\ AbortsOnlyLost => EndsOnlyOn
  BY DEF EndsOnlyOn
<1>. QED BY <1>1, UndefinedCut, AbortsLost, PTL

\* m_rowMatrixIsLoaded and isLoaded: what was loaded is never loaded or changed again.
THEOREM LoadedKept == Spec => LoadedStays
<1>1. [Next]_vars => [/\ loaded => UNCHANGED matrix
                      /\ \A k \in DOMAIN cells : k \in DOMAIN cells' /\ cells'[k] = cells[k]]_vars
  <2> SUFFICES ASSUME Next
               PROVE  /\ loaded => UNCHANGED matrix
                      /\ \A k \in DOMAIN cells : k \in DOMAIN cells' /\ cells'[k] = cells[k]
    OBVIOUS
  <2>1. loaded => UNCHANGED matrix
    BY DEF Next, Ask, KeepMatrix, LoadFromHN, MatrixThrows, LoadFromSubNodeTree,
           MatrixIsLoaded, NoRow,
           KeepCell, AbsentCell, ReadCell, ReadNodeCell, Cut, Return, Store, Abort
  <2>2. ASSUME NEW v, Store(v), ~IsLoaded
        PROVE  \A k \in DOMAIN cells : k \in DOMAIN cells' /\ cells'[k] = cells[k]
    BY <2>2 DEF Store, IsLoaded
  <2>3. UNCHANGED cells \/ (~IsLoaded /\ \E v : Store(v))
    BY DEF Next, Ask, KeepMatrix, LoadFromHN, MatrixThrows, LoadFromSubNodeTree, NoRow,
           KeepCell, AbsentCell, ReadCell, ReadNodeCell, Cut, Abort
  <2>. QED BY <2>1, <2>2, <2>3
<1>. QED BY <1>1, PTL DEF Spec, LoadedStays
=============================================================================
