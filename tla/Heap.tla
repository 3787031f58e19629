-------------------------------- MODULE Heap --------------------------------
(***************************************************************************)
(* The heap on a node (HN) and the B-tree on a heap (BTH) of LTP.h, as     *)
(* they are once the node's data blocks are in memory.                     *)
(*                                                                         *)
(* Data is a sequence of 16 bit words, the unit in which the page map, the *)
(* HIDs and both kinds of BTH record are laid out.  A block is the         *)
(* sequence of its allocations, as its page map cuts them; one of no words *)
(* is a freed one.                                                         *)
(***************************************************************************)
EXTENDS Naturals, SequencesExt

Word == 0..65535

\* An HID or an NID: its low word has the type in 5 bits and above them, in an HID,
\* the number of the allocation, counted from one; its high word is the HID's block,
\* counted from zero.
Id == Word \X Word

IdType(id)     == id[1] % 32
AllocIndex(id) == id[1] \div 32
BlockIndex(id) == id[2]

IsHIDValid(hid) == IdType(hid) = 0 /\ AllocIndex(hid) # 0

\* getAllocation: an HID that is not valid has no data; at() throws on one that
\* names a block or an allocation that is not there.
AllocationThrows(blocks, hid) ==
  /\ IsHIDValid(hid)
  /\ ~(BlockIndex(hid) < Len(blocks) /\ AllocIndex(hid) <= Len(blocks[BlockIndex(hid) + 1]))

Allocation(blocks, hid) ==
  IF IsHIDValid(hid) THEN blocks[BlockIndex(hid) + 1][AllocIndex(hid)] ELSE <<>>

\* readHNPageMap asserts that every allocation ends behind its begin.
PageMapAsserted(block) == \A a \in DOMAIN block : block[a] # <<>>

-----------------------------------------------------------------------------
(* A BTH.  Its header is four words: bType and cbKey, cbEnt and bIdxLevels, *)
(* and hidRoot.                                                            *)

BTH == 181

KeySize(header)   == header[1] \div 256
EntSize(header)   == header[2] % 256
IdxLevels(header) == header[2] \div 256
HidRoot(header)   == <<header[3], header[4]>>

HeaderAsserted(header) ==
  /\ Len(header) = 4 /\ header[1] % 256 = BTH
  /\ KeySize(header) \in {2, 4, 8, 16} /\ EntSize(header) \in 1..32
  /\ HidRoot(header) # <<0, 0>> => AllocIndex(HidRoot(header)) # 0

\* view.entries: the whole chunks of that many words, one behind the other.
Chunks(words, size) ==
  [j \in 1..(Len(words) \div size) |-> SubSeq(words, (j - 1) * size + 1, j * size)]

\* readBTHRecords takes the records of every level to be as long as a leaf's.
RecordSize(header) == (KeySize(header) + EntSize(header)) \div 2

\* The HIDs of index records of that many words: each is behind its key.
HIDsIn(header, words, size) ==
  LET key     == KeySize(header) \div 2
      records == Chunks(words, size)
  IN  [j \in DOMAIN records |-> <<records[j][key + 1], records[j][key + 2]>>]

NextLevelHIDs(header, words) == HIDsIn(header, words, RecordSize(header))

\* The assertions on the records of a level: nothing is left over, and index records
\* are read only when a leaf's data is as long as an HID.
LevelAsserted(header, levels, words) ==
  /\ Len(words) % RecordSize(header) = 0
  /\ levels > 0 => EntSize(header) = 4

-----------------------------------------------------------------------------
(* What the format says is in a BTH: on each index level records of a key and *)
(* an HID, "the HID of the next level index record array".                 *)

IndexSize(header) == KeySize(header) \div 2 + 2

NamedBy(blocks, hid) == blocks[BlockIndex(hid) + 1][AllocIndex(hid)]

\* The arrays on the level n below the root, put together.
FileLevel(blocks, header) ==
  LET level[n \in 0..IdxLevels(header)] ==
        IF n = 0 THEN NamedBy(blocks, HidRoot(header))
        ELSE LET hids == HIDsIn(header, level[n-1], IndexSize(header))
             IN  FlattenSeq([j \in DOMAIN hids |-> NamedBy(blocks, hids[j])])
  IN  level

FileRecords(blocks, hidHeader) ==
  LET header == NamedBy(blocks, hidHeader)
  IN  IF HidRoot(header) = <<0, 0>> THEN <<>>
      ELSE Chunks(FileLevel(blocks, header)[IdxLevels(header)], RecordSize(header))

\* A BTH that is whole: the array of every HID is there, and has no half records.
IsBTH(blocks, hidHeader) ==
  LET header  == NamedBy(blocks, hidHeader)
      level   == FileLevel(blocks, header)
      hids(n) == HIDsIn(header, level[n], IndexSize(header))
      Names(hid) == IsHIDValid(hid) /\ ~AllocationThrows(blocks, hid)
  IN  HidRoot(header) # <<0, 0>> =>
        /\ Names(HidRoot(header))
        /\ Len(level[IdxLevels(header)]) % RecordSize(header) = 0
        /\ \A n \in 0..(IdxLevels(header) - 1) :
             /\ Len(level[n]) % IndexSize(header) = 0
             /\ \A j \in DOMAIN hids(n) : Names(hids(n)[j])
=============================================================================
