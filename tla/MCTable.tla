------------------------------- MODULE MCTable -------------------------------
(***************************************************************************)
(* Instances of Table: a matrix of three blocks with a short last one, row *)
(* ids in another order than the rows, rows that leave bytes of a block    *)
(* over; a matrix of one block; one in the heap; one without rows; one     *)
(* whose data tree lists a block that is not there.                        *)
(***************************************************************************)
EXTENDS Table

MCColumn == {"id", "name", "body"}

T(rowSize, blocks, inHeap, subtree, index, places) ==
  [rowSize |-> rowSize, blocks |-> blocks, inHeap |-> inHeap, subtree |-> subtree,
   broken |-> FALSE,
   index |-> index,
   place |-> [r \in 0..(Len(places) - 1) |-> places[r + 1]]]
P(name, body) == [c \in MCColumn |-> CASE c = "id" -> "row"
                                       [] c = "name" -> name
                                       [] c = "body" -> body]

\* Two rows in a full block, which leave 1176 bytes over, and one in the last.
Blocks3 == T(3500, <<8176, 8176, 3600>>, FALSE, TRUE, <<2, 0, 4>>,
             <<P("heap", "node"), P("heap", "heap"), P("node", "absent"),
               P("heap", "heap"), P("lost", "node")>>)
Single  == T(2000, <<4100>>, FALSE, TRUE, <<1, 0>>,
             <<P("heap", "node"), P("absent", "broken")>>)
Heap    == T(100, <<200>>, TRUE, FALSE, <<1, 0>>,
             <<P("heap", "lost"), P("absent", "heap")>>)
NoRows  == T(100, <<100>>, FALSE, TRUE, <<>>, <<P("heap", "heap")>>)

Broken  == [Single EXCEPT !.broken = TRUE]

MCTables == {Blocks3, Single, Heap, NoRows, Broken}
=============================================================================
