-------------------------------- MODULE Table --------------------------------
(***************************************************************************)
(* A TableContext (src/include/LTP.h): the row matrix is cut into rows on  *)
(* first use, from one allocation of the heap or from the data blocks of a *)
(* sub-node, and a cell is read when it is asked for, out of its row, the  *)
(* heap or a sub-node, and kept.                                           *)
(*                                                                         *)
(* A row is known by its number in the file's matrix, a cell's value by    *)
(* its row and column.  The heap is in memory; the sub-nodes are read      *)
(* through the stream, whose file may be cut.                              *)
(***************************************************************************)
EXTENDS Naturals, Sequences

CONSTANTS
  Tables,    \* the tables of the file, see ImageOf
  Column,
  Empty, None,
  Threw       \* in place of an answer: the call threw

\* "Each block except the last one MUST have a size of 8192 bytes", of which 16
\* are its trailer; a row does not cross blocks.
MaxData == 8176

\* Where the file has a cell: not at all, in the row itself, in the heap, in a
\* sub-node, in one whose XBLOCK lists a BID that the BBT lacks, so that load()
\* throws, or in a sub-node that is not there.
Place == {"absent", "row", "heap", "node", "broken", "lost"}

FullBlock(t)     == MaxData \div t.rowSize
RowsOf(t, b)     == t.blocks[b] \div t.rowSize
NRows(t)         == (Len(t.blocks) - 1) * FullBlock(t) + RowsOf(t, Len(t.blocks))
RowNumber(t, b, p) == (b - 1) * FullBlock(t) + p

\* rowSize: rgib[TCI_bm]; blocks: the sizes of the matrix's data blocks, one in the
\* heap; broken: load() of those throws; subtree: there are sub-nodes; index: dwRowIndex
\* by row id; place: where each cell is.
ImageOf(t) ==
  /\ t.rowSize \in 1..MaxData /\ t.inHeap \in BOOLEAN /\ t.subtree \in BOOLEAN
  /\ t.broken \in BOOLEAN /\ (t.broken => ~t.inHeap)
  /\ t.blocks \in Seq(1..MaxData) /\ t.blocks # <<>>
  /\ \A b \in 1..(Len(t.blocks) - 1) : t.blocks[b] = MaxData
  /\ t.index \in Seq(0..(NRows(t) - 1))
  /\ t.inHeap => Len(t.blocks) = 1 /\ Len(t.index) = NRows(t)
  /\ t.place \in [0..(NRows(t) - 1) -> [Column -> Place]]
  /\ ~t.subtree => /\ t.inHeap
                   /\ \A r \in 0..(NRows(t) - 1), c \in Column :
                        t.place[r][c] \notin {"node", "broken"}

ASSUME TableAssumption ==
  /\ \A t \in Tables :
       /\ ImageOf(t)
       /\ \A r \in 0..(NRows(t) - 1), c \in Column : <<r, c>> \notin {Empty, None, Threw}
  /\ Empty # None /\ Threw \notin {Empty, None}

VARIABLES
  assertsOn,    \* the build: STORYT_ASSERT aborts, or is a no-op
  table,        \* which table it is
  loaded,       \* m_rowMatrixIsLoaded
  rowsPerBlock, \* m_rowsPerBlock
  rowBlocks,    \* m_rowBlocks: for each block its rows
  cells,        \* the loaded entries: <<block, row, column>> -> value
  asked,        \* <<row index, column>> of the call, or None
  answer,       \* of the last call: a value, None for nullptr, or Threw
  cut, fail,    \* the file was cut; the stream's failbit
  pc            \* "idle", "matrix", "row"; "thrown", "undefined", "aborted"

matrix == <<loaded, rowsPerBlock, rowBlocks>>
vars   == <<assertsOn, table, matrix, cells, asked, answer, cut, fail, pc>>

TypeOK ==
  /\ assertsOn \in BOOLEAN /\ table \in Tables /\ loaded \in BOOLEAN /\ rowsPerBlock \in Nat
  /\ rowBlocks \in Seq(Seq(Nat))
  /\ DOMAIN cells \subseteq (1..Len(rowBlocks)) \X (Nat \ {0}) \X Column
  /\ asked = None \/ asked \in Nat \X Column
  /\ cut \in BOOLEAN /\ fail \in BOOLEAN
  /\ pc \in {"idle", "matrix", "row", "thrown", "undefined", "aborted"}

Init ==
  /\ assertsOn \in BOOLEAN /\ table \in Tables
  /\ loaded = FALSE /\ rowsPerBlock = 0 /\ rowBlocks = <<>> /\ cells = <<>>
  /\ asked = None /\ answer = None
  /\ cut = FALSE /\ fail = FALSE /\ pc = "idle"

\* Whether bytes that are read arrive.
Arrival(arrived) ==
  /\ arrived => ~fail
  /\ ~arrived => fail \/ cut
  /\ fail' = ~arrived

-----------------------------------------------------------------------------

\* getSingleRowAndLoadColumn(rowID, pid), for a row id of the table.
Ask(k, c) ==
  /\ pc = "idle"
  /\ asked' = <<table.index[k], c>> /\ answer' = None
  /\ pc' = "matrix"
  /\ UNCHANGED <<assertsOn, table, matrix, cells, cut, fail>>

Rows(b, size) == [p \in 1..(size \div table.rowSize) |-> RowNumber(table, b, p - 1)]

\* Mutant of MatrixIsLoaded: the flag is not looked at.
MatrixIsLoadedNot == FALSE

MatrixIsLoaded == loaded

\* loadRowMatrix, the second time.
KeepMatrix ==
  /\ pc = "matrix" /\ MatrixIsLoaded
  /\ pc' = "row"
  /\ UNCHANGED <<assertsOn, table, matrix, cells, asked, answer, cut, fail>>

\* _loadRowMatrixFromHN
LoadFromHN ==
  LET n == table.blocks[1] \div table.rowSize
  IN  /\ pc = "matrix" /\ ~MatrixIsLoaded /\ table.inHeap
      /\ IF assertsOn /\ n # Len(table.index)
         THEN pc' = "aborted" /\ UNCHANGED matrix
         ELSE /\ rowsPerBlock' = n
              /\ rowBlocks' = Append(rowBlocks, Rows(1, table.blocks[1]))
              /\ loaded' = TRUE /\ pc' = "row"
      /\ UNCHANGED <<assertsOn, table, cells, asked, answer, cut, fail>>

\* Mutant of RowsPerBlock: as many as the last block has.
RowsPerBlockOfLast(sizes) == sizes[Len(sizes)] \div table.rowSize

RowsPerBlock(sizes) == sizes[1] \div table.rowSize

\* The assertions on the blocks: all but the last are full, and hold the same
\* number of rows.
SizesAsserted(sizes) ==
  assertsOn => \A b \in 1..(Len(sizes) - 1) :
                 sizes[b] = MaxData /\ RowsPerBlock(sizes) = sizes[b] \div table.rowSize

\* The sizes of the blocks that load() leaves of the matrix: those of the file; from
\* the first that did not arrive on, empty ones; one empty block, when it was the
\* list of them that did not.
LoadedSizes ==
  IF fail THEN {<<0>>}
  ELSE {[b \in DOMAIN table.blocks |-> IF b <= n THEN table.blocks[b] ELSE 0] :
          n \in 0..Len(table.blocks)} \cup {<<0>>}

\* _loadRowMatrixFromSubNodeTree where load() throws: its first block has arrived, and
\* lists what is not there.  Nothing of the matrix is kept.
MatrixThrows ==
  /\ pc = "matrix" /\ ~MatrixIsLoaded /\ table.broken /\ ~fail
  /\ answer' = Threw /\ pc' = "idle"
  /\ UNCHANGED <<assertsOn, table, matrix, cells, asked, cut, fail>>

\* _loadRowMatrixFromSubNodeTree, with the load() of its data tree, whose
\* assertions DataTree has.  When its first block does not arrive, load() does not
\* come to look for the others.
LoadFromSubNodeTree ==
  /\ pc = "matrix" /\ ~MatrixIsLoaded /\ ~table.inHeap
  /\ \E sizes \in IF table.broken THEN {<<0>>} ELSE LoadedSizes :
       /\ Arrival(sizes = table.blocks)
       /\ IF assertsOn /\ (sizes # table.blocks \/ ~SizesAsserted(sizes))
          THEN pc' = "aborted" /\ UNCHANGED matrix
          ELSE /\ rowsPerBlock' = RowsPerBlock(sizes)
               /\ rowBlocks' = rowBlocks \o [b \in DOMAIN sizes |-> Rows(b, sizes[b])]
               /\ loaded' = TRUE /\ pc' = "row"
  /\ UNCHANGED <<assertsOn, table, cells, asked, answer, cut>>

-----------------------------------------------------------------------------

\* getSingleRowRaw: the block and the row of a row index.
BlockIdx(k) == k \div rowsPerBlock

\* Mutant of RowIdx: the rows of a block are counted from one.
RowIdxFromOne(k) == (k + 1) % rowsPerBlock

RowIdx(k) == k % rowsPerBlock

HasRow(k) ==
  /\ rowsPerBlock # 0
  /\ BlockIdx(k) < Len(rowBlocks) /\ RowIdx(k) < Len(rowBlocks[BlockIdx(k) + 1])
RowOf(k) == rowBlocks[BlockIdx(k) + 1][RowIdx(k) + 1]

\* A division by zero, or at() throws.
NoRow ==
  /\ pc = "row" /\ ~HasRow(asked[1])
  /\ pc' = IF rowsPerBlock = 0 THEN "undefined" ELSE "thrown"
  /\ UNCHANGED <<assertsOn, table, matrix, cells, asked, answer, cut, fail>>

\* Mutant of Key: entries are filed by row index.
KeyByIndex == <<asked[1] + 1, 1, asked[2]>>

Key == <<BlockIdx(asked[1]) + 1, RowIdx(asked[1]) + 1, asked[2]>>

CellPlace == table.place[RowOf(asked[1])][asked[2]]
InRow     == pc = "row" /\ HasRow(asked[1])

Return(value) ==
  /\ answer' = value /\ pc' = "idle"
  /\ UNCHANGED <<assertsOn, table, matrix, asked, cut>>

Store(value) ==
  /\ cells' = [k \in DOMAIN cells \cup {Key} |-> IF k = Key THEN value ELSE cells[k]]
  /\ Return(value)

Abort ==
  /\ pc' = "aborted"
  /\ UNCHANGED <<assertsOn, table, matrix, cells, asked, answer, cut>>

\* Mutant of IsLoaded: the entry is read again.
IsLoadedNot == FALSE

IsLoaded == Key \in DOMAIN cells

\* loadRowEntry, for an entry that is loaded.
KeepCell ==
  /\ InRow /\ IsLoaded
  /\ Return(cells[Key]) /\ UNCHANGED <<cells, fail>>

\* The cell does not exist: an assertion, or nullptr.
AbsentCell ==
  /\ InRow /\ ~IsLoaded /\ CellPlace = "absent"
  /\ IF assertsOn THEN Abort ELSE Return(None) /\ UNCHANGED cells
  /\ UNCHANGED fail

\* Inline, or in the heap by an HID.
ReadCell ==
  /\ InRow /\ ~IsLoaded /\ CellPlace \in {"row", "heap"}
  /\ Store(<<RowOf(asked[1]), asked[2]>>) /\ UNCHANGED fail

\* In a sub-node: its data blocks, combined.  What is not found, or does not arrive,
\* is asserted (unless the table has no sub-nodes) or leaves a loaded entry without
\* its data.  Where load() throws, the entry is not loaded.
ReadNodeCell ==
  /\ InRow /\ ~IsLoaded /\ CellPlace \in {"node", "broken", "lost"}
  /\ IF CellPlace = "lost"
     THEN /\ IF assertsOn /\ table.subtree THEN Abort ELSE Store(Empty)
          /\ UNCHANGED fail
     ELSE \E arrived \in BOOLEAN :
            /\ Arrival(arrived)
            /\ IF arrived
               THEN IF CellPlace = "broken" THEN Return(Threw) /\ UNCHANGED cells
                    ELSE Store(<<RowOf(asked[1]), asked[2]>>)
               ELSE IF assertsOn THEN Abort ELSE Store(Empty)

\* Whoever owns the file cuts it.
Cut ==
  /\ pc \in {"idle", "matrix", "row"} /\ ~cut
  /\ cut' = TRUE
  /\ UNCHANGED <<assertsOn, table, matrix, cells, asked, answer, fail, pc>>

Next ==
  \/ \E k \in DOMAIN table.index, c \in Column : Ask(k, c)
  \/ KeepMatrix \/ LoadFromHN \/ MatrixThrows \/ LoadFromSubNodeTree
  \/ NoRow \/ KeepCell \/ AbsentCell \/ ReadCell \/ ReadNodeCell
  \/ Cut

Spec == Init /\ [][Next]_vars

-----------------------------------------------------------------------------

\* Once the matrix is loaded and no read has failed, dividing a row index by the
\* rows of the first block finds that row, in however many blocks and however
\* short the last one.
RowsAreFound ==
  (loaded /\ ~fail) =>
    \A k \in DOMAIN table.index :
       HasRow(table.index[k]) /\ RowOf(table.index[k]) = table.index[k]

\* What is to be returned for a cell: its value, nullptr where the file has none, an
\* entry without data where it has lost it; where load() throws, so does the call.
ValueOf(r, c) ==
  IF table.broken THEN Threw
  ELSE CASE table.place[r][c] = "absent" -> None
         [] table.place[r][c] = "broken" -> Threw
         [] table.place[r][c] = "lost"   -> Empty
         [] OTHER                        -> <<r, c>>

\* While no read has failed, a call returns the cell it asked for, nullptr only where
\* the file has none, and throws only where load() does, whatever was asked before.
AnswerIsTheCell ==
  (pc = "idle" /\ asked # None /\ ~fail) => answer = ValueOf(asked[1], asked[2])

\* The matrix is cut once, and a cell that was read stays as it was read, even
\* when the stream fails afterwards.
LoadedStays ==
  [][/\ loaded => UNCHANGED matrix
     /\ \A k \in DOMAIN cells : k \in DOMAIN cells' /\ cells'[k] = cells[k]]_vars

\* Division by zero and at() only follow a failed read.
UndefinedOnlyCut == pc \in {"undefined", "thrown"} => fail

\* With assertions a table of a file that nobody cut ends the program only once its
\* matrix is loaded and, of the cells that the file has, only for one whose sub-node
\* is missing.  What is right for a cell that the file does not have is left open:
\* the comment on m_rgbCEB wants it "not found", loadRowEntry asserts.
AbortsOnlyLost ==
  (pc = "aborted" /\ ~cut) =>
    /\ loaded
    /\ table.place[asked[1]][asked[2]] # "absent" => table.place[asked[1]][asked[2]] = "lost"

\* Both: a table is only lost to a failed read or, for a cell that the file has, to a
\* sub-node that is not there.
EndsOnlyOn == UndefinedOnlyCut /\ AbortsOnlyLost
=============================================================================
