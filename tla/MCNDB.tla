------------------------------- MODULE MCNDB -------------------------------
(***************************************************************************)
(* Instances of NDB: a node B-tree of three levels whose pages lie in the  *)
(* file in an order of their own, with groups of nodes that share an index *)
(* (32..34, 64..65, 96..116 with the unnamed types 9 and 20) and span leaves,   *)
(* and a block B-tree of two levels.                                       *)
(***************************************************************************)
EXTENDS NDB

MCPage  == {"root", "in1", "in2", "leaf1", "leaf2", "leaf3", "bbt", "b1", "b2"}
MCRoot  == [t \in {"NBT", "BBT"} |-> IF t = "NBT" THEN "root" ELSE "bbt"]
Order   == <<"b2", "leaf3", "root", "in2", "leaf1", "bbt", "in1", "leaf2", "b1">>
MCIb    == [p \in MCPage |-> CHOOSE i \in DOMAIN Order : Order[i] = p]
MCLevel == [p \in MCPage |-> CASE p = "root" -> 2
                               [] p \in {"in1", "in2", "bbt"} -> 1
                               [] OTHER -> 0]
MCChild == [p \in MCPage |-> CASE p = "root" -> <<"in1", "in2">>
                               [] p = "in1"  -> <<"leaf1", "leaf2">>
                               [] p = "in2"  -> <<"leaf3">>
                               [] p = "bbt"  -> <<"b1", "b2">>
                               [] OTHER -> <<>>]
MCKeys  == [p \in MCPage |-> CASE p = "root"  -> <<32, 96>>
                               [] p = "in1"   -> <<32, 65>>
                               [] p = "in2"   -> <<96>>
                               [] p = "leaf1" -> <<32, 34, 64>>
                               [] p = "leaf2" -> <<65, 66>>
                               [] p = "leaf3" -> <<96, 98, 105, 116>>
                               [] p = "bbt"   -> <<4, 12>>
                               [] p = "b1"    -> <<4, 8>>
                               [] p = "b2"    -> <<12, 14>>]
MCFileSize == 10
MCSpecial  == {32, 65, 98}
=============================================================================
