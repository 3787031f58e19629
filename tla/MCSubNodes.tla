----------------------------- MODULE MCSubNodes -----------------------------
(***************************************************************************)
(* Instances of SubNodes: trees nested three deep, a NID that two of them  *)
(* share, an entry whose data the BBT lacks and a block it lacks, blocks   *)
(* that lie in the file in another order than they are read, signatures    *)
(* that are 0, an SIBLOCK followed by its two SLBLOCKs, one that is not,   *)
(* one followed by an SLBLOCK of another node, and one whose SLBLOCK the   *)
(* BBT lacks.  The file may be cut before and behind each block and at     *)
(* the bytes of it that tell apart what a reader makes of the rest.        *)
(***************************************************************************)
EXTENDS SubNodes

MCNid  == {"n1", "n2", "n3"}
MCData == {"d1", "d2", "dLost"}

E3(nid, data, sub) == [nid |-> nid, data |-> data, sub |-> sub]

Layout == <<"deep", "outer", "left", "si3", "right", "hasLost", "lost", "single",
            "overSI", "si2", "si", "sl1", "sl2", "siLost">>
MCBlock == {Layout[i] : i \in DOMAIN Layout}

SIs     == {"si", "si2", "si3", "siLost"}

MCEntries == [b \in MCBlock |->
  CASE b = "outer"   -> <<E3("n2", "dLost", "right"), E3("n1", "d1", "left"),
                          E3("n3", "d2", None)>>
    [] b = "left"    -> <<E3("n2", "d2", None), E3("n3", "d1", "deep")>>
    [] b = "right"   -> <<E3("n1", "d2", "deep")>>
    [] b = "deep"    -> <<E3("n2", "d1", None)>>
    [] b = "hasLost" -> <<E3("n3", "d1", "single"), E3("n1", "d1", "lost")>>
    [] b = "overSI"  -> <<E3("n3", "d1", "si"), E3("n1", "d1", "single")>>
    [] b = "sl2"     -> <<E3("n2", "d1", None)>>
    [] b \in SIs     -> <<>>
    [] OTHER         -> <<E3("n1", "d1", None)>>]

MCKind     == [b \in MCBlock |-> IF b \in SIs THEN "SI" ELSE "SL"]
MCSLBlocks == [b \in MCBlock |-> CASE b = "si"  -> <<"sl1", "sl2">>
                                   [] b = "si2" -> <<"single">>
                                   [] b = "si3" -> <<"sl2">>
                                   [] b = "siLost" -> <<"lost">>
                                   [] OTHER     -> <<>>]

MCCb == [b \in MCBlock |-> 8 + 16 * Len(MCSLBlocks[b]) + 24 * Len(MCEntries[b])]

FirstIb == 17920
Place[i \in DOMAIN Layout] ==
  IF i = 1 THEN FirstIb ELSE Place[i-1] + AlignedSize(MCCb[Layout[i-1]])
MCIb == [b \in MCBlock |-> Place[CHOOSE i \in DOMAIN Layout : Layout[i] = b]]

MCRoots    == {"outer", "hasLost", "single", "overSI", "si2", "si3", "siLost", None}
MCOwnRoots == {"si3"}
MCInBBT    == (MCBlock \cup MCData) \ {"lost", "dLost"}
MCFileSize == FirstIb + 2000
MCOwnSize  == 4 * FirstIb

MCSig == [b \in MCBlock |-> CASE b \in {"right", "deep", "left", "sl2"} -> 0
                              [] b = "single" -> 200
                              [] OTHER -> 4660]

\* The bytes that tell two ids apart: a first byte makes n3 the n2 beside it, d2 is
\* d1 with one more, and the BID of a block is one that the BBT lacks, or another.
MCTorn == [x \in MCBlock \cup MCData \cup MCNid |-> [j \in 1..7 |->
  CASE x \in MCNid -> IF j >= 4 THEN x ELSE IF x = "n3" /\ j = 1 THEN "n2" ELSE None
    [] x \in MCData -> IF x = "d2" /\ j < 3 THEN "d1" ELSE None
    [] OTHER -> IF x = "left" /\ j >= 5 THEN "right" ELSE IF j = 1 THEN None ELSE "lost"]]

\* In the header, in and around the fields of each entry, and in the trailer.
MCCutsIn(b) ==
  LET size == AlignedSize(MCCb[b])
  IN  {0, 1, 2, 3, 8, 20, 24}
        \cup UNION {{8 + 24 * i + j : j \in {1, 8, 9, 16, 18, 22, 24}} :
                      i \in 0..(Len(MCEntries[b]) - 1)}
        \cup {size - TrailerSize + j : j \in {2, 3, 4}} \cup {size - 1, size}
MCCuts == UNION {{MCIb[b] + k : k \in MCCutsIn(b)} : b \in MCBlock}
=============================================================================
