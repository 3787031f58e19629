----------------------------- MODULE MCProperties -----------------------------
(***************************************************************************)
(* Instances of Properties: contexts whose properties are in the record,   *)
(* in the heap, empty, in a sub-node, in one that is lost or whose load    *)
(* throws, of many values, of a type that is not implemented; heaps of one *)
(* block, of ten, so that two of them have other headers, and with a freed *)
(* allocation; an empty one; BTHs with index levels, with both sizes.      *)
(***************************************************************************)
EXTENDS Properties

H(block, alloc) == <<32 * alloc, block>>      \* an HID
N(index)        == <<32 * index + 31, 0>>     \* an NID of a sub-node

I32 == 3
Str == 31
Bin == 258
Tim == 64
Strs == 4096 + 31
Tims == 4096 + 64
Str8 == 30

\* A header, and a record of a property context.
Hdr(key, ent, lvls, root) == <<BTH + 256 * key, ent + 256 * lvls>> \o root
R(id, type, hnid) == <<id, type>> \o hnid

Ctx(blks, isPC, nds, broken, sub) ==
  [blocks |-> blks, root |-> H(0, 1), pc |-> isPC, subtree |-> sub,
   nodes |-> nds, broken |-> broken]

\* A string of one and one of two characters, a time and a body.  The first, and the
\* integer of Plain, could be HIDs too.
One == <<64, 0>>
Two == <<65, 66, 0>>
Now == <<1, 2, 3, 4>>
Body == <<72, 73, 74, 0>>
NodesAll == [n \in {N(1), N(2)} |-> IF n = N(1) THEN Body ELSE Two]

Plain(sub) ==
  Ctx(<< <<Hdr(2, 6, 0, H(0, 2)),
           R(1, I32, <<64, 0>>) \o R(2, Str, H(0, 3)) \o R(3, Str, <<0, 0>>)
             \o R(4, Bin, N(1)) \o R(5, Tim, H(0, 4)) \o R(6, Bin, N(2)) \o R(7, Str, N(3)),
           One, Now>> >>, TRUE, NodesAll, {N(2)}, sub)

Many ==
  Ctx(<< <<Hdr(2, 6, 0, H(0, 2)), R(1, Strs, H(0, 3)) \o R(2, Tims, N(1)), Two>> >>,
      TRUE, NodesAll, {}, TRUE)

Unknown ==
  Ctx(<< <<Hdr(2, 6, 0, H(0, 2)), R(1, Str8, H(0, 3)) \o R(2, Str, H(0, 4)), Two, One>> >>,
      TRUE, <<>>, {}, FALSE)

\* Ten blocks: the records are in the last, values in every other.
Long ==
  Ctx([b \in 1..10 |->
         CASE b = 1  -> <<Hdr(2, 6, 0, H(9, 1)), Two>>
           [] b = 8  -> <<One, Two>>
           [] b = 9  -> <<Now, One>>
           [] b = 10 -> <<R(1, Str, H(7, 2)) \o R(2, Str, H(8, 2)) \o R(5, Tim, H(8, 1))>>
           [] OTHER  -> <<One>>],
      TRUE, <<>>, {}, FALSE)

\* Its second allocation was freed.
Freed ==
  Ctx(<< <<Hdr(2, 6, 0, H(0, 3)), <<>>, R(2, Str, H(1, 1))>>, <<Two>> >>,
      TRUE, <<>>, {}, FALSE)

EmptyPC == Ctx(<< <<Hdr(2, 6, 0, <<0, 0>>)>> >>, TRUE, <<>>, {}, FALSE)

\* The row index of a table, with two index levels over four leaf arrays.
Row(id, index) == <<id, 0, index, 0>>
I4(id, hid)    == <<id, 0>> \o hid
Rows ==
  Ctx(<< <<Hdr(4, 4, 2, H(0, 2)), I4(1, H(0, 3)) \o I4(5, H(1, 1)),
           I4(1, H(0, 4)) \o I4(3, H(1, 2)), Row(1, 2) \o Row(2, 1)>>,
         <<I4(5, H(1, 3)), Row(3, 3), Row(5, 4) \o Row(7, 0)>> >>, FALSE, <<>>, {}, FALSE)

\* A property context with one index level.
I2(id, hid) == <<id>> \o hid
Deep ==
  Ctx(<< <<Hdr(2, 6, 1, H(0, 2)), I2(1, H(0, 3)) \o I2(2, H(1, 1)), R(1, I32, <<7, 0>>)>>,
         <<R(2, Str, H(1, 2)) \o R(5, I32, <<9, 0>>), Two>> >>, TRUE, <<>>, {}, FALSE)

MCImages == {Plain(TRUE), Plain(FALSE), Many, Unknown, Long, Freed, EmptyPC, Rows, Deep}
MCDeep   == {Deep}
MCCalls  == {<<1, I32>>, <<1, Str>>, <<2, Str>>, <<3, Str>>, <<4, Bin>>, <<5, Tim>>,
             <<6, Bin>>, <<7, Str>>, <<1, Strs>>, <<2, Tims>>, <<9, Str>>}
=============================================================================
