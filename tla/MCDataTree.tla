----------------------------- MODULE MCDataTree -----------------------------
(***************************************************************************)
(* Instances of DataTree.  The file holds three data blocks, the first two *)
(* next to each other and the third behind a gap, sized at the edges of    *)
(* the padding rule (48+16 = 64 exactly, 49 needs a second 64, 8176 is the *)
(* most a block can hold), XBLOCKs that list them in order, with the gap,  *)
(* backwards, not at all and with one BID the BBT lacks, and an XXBLOCK.   *)
(***************************************************************************)
EXTENDS DataTree

CONSTANTS h1, h2

MCHandle == {h1, h2}
Layout == <<"xAB", "xAC", "xBA", "xNone", "xLost", "xx", "A", "B", "lost", "C">>
MCBid  == {Layout[i] : i \in DOMAIN Layout}

MCKind == [b \in MCBid |-> CASE b \in {"A", "B", "C", "lost"} -> "data"
                             [] b = "xx" -> "xx"
                             [] OTHER -> "x"]

MCRgbid == [b \in MCBid |-> CASE b = "xAB"   -> <<"A", "B">>
                              [] b = "xAC"   -> <<"A", "C">>
                              [] b = "xBA"   -> <<"B", "A">>
                              [] b = "xLost" -> <<"A", "lost">>
                              [] b = "xx"    -> <<"xAB", "xAC">>
                              [] OTHER       -> <<>>]

MCCb == [b \in MCBid |-> CASE b = "A" -> 48
                           [] b = "B" -> 49
                           [] b = "C" -> 8176
                           [] OTHER   -> 8 + 8 * Len(MCRgbid[b])]

\* The blocks in the order of Layout, one behind the other.
FirstIb == 17920
Place[i \in DOMAIN Layout] ==
  IF i = 1 THEN FirstIb ELSE Place[i-1] + AlignedSize(MCCb[Layout[i-1]])
MCIb == [b \in MCBid |-> Place[CHOOSE i \in DOMAIN Layout : Layout[i] = b]]

MCInBBT    == MCBid \ {"lost"}
MCRoot     == {"xAB", "xAC", "xBA", "xNone", "xLost", "A"}
MCRootXX   == {"xx"}
MCFileSize == Place[Len(Layout)] + AlignedSize(MCCb["C"])
MCZeroSig  == {"B"}
=============================================================================
