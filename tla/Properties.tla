------------------------------ MODULE Properties ------------------------------
(***************************************************************************)
(* A PropertyContext (src/include/LTP.h) from its node's data on: the heap *)
(* is built block by block, the BTH is read level by level, its records    *)
(* become the properties, and the data of a property is fetched when it is *)
(* asked for, from the heap or from a sub-node, and kept.                  *)
(*                                                                         *)
(* The row index of a table is the same BTH with other sizes; such images  *)
(* are built up to their records.  The stream's file may be cut.           *)
(***************************************************************************)
EXTENDS Heap

CONSTANTS
  Images,     \* the contexts, see ImageOf
  Calls,      \* the ids and types asked for, enumerators of types.h other than Null
  None,       \* nullptr
  Threw       \* the call ended with an exception

-----------------------------------------------------------------------------
(* The types of properties (PropertyTypeInfo). *)

\* Types by their code: 16 bit and 32 bit integer, string, binary, time, object, the
\* multi-valued ones, which are 4096 above their single one, and the rest.
Single(t)      == t % 4096
MultiValued(t) == t >= 4096

\* Of these a value has at most 4 bytes.  A multi-valued type counts as of fixed size
\* whenever its elements are, and MultipleString too.
DataIsInHNID(t) == t \in {2, 3, 4, 10, 11} \cup {4096 + s : s \in {2, 3, 4, 31}}

\* Of fixed size and longer.
FixedAndLong(t) ==
  t \in {0, 1, 5, 6, 7, 20, 64, 72, 251, 253, 254}
          \cup {4096 + s : s \in {5, 6, 7, 20, 64, 72}}

\* asPCBTHRecord and PropertyTypeInfo assert that they know the type.
Implemented(t) ==
  \/ t \in {2, 3, 4, 5, 6, 7, 10, 11, 13, 20, 31, 64, 72, 258}
  \/ MultiValued(t) /\ Single(t) \in {2, 3, 4, 5, 6, 7, 20, 31, 258}

\* PropertyType: what it does not know is PtypNull.
Known(t) ==
  \/ Implemented(t) \/ t \in {0, 1, 30, 251, 253, 254}
  \/ MultiValued(t) /\ Single(t) \in {30, 64, 72}

TypeOf(t) == IF Known(t) THEN t ELSE 1

-----------------------------------------------------------------------------
(* The contexts. *)

\* blocks: the heap; root: hidUserRoot; pc: it is a property context; subtree: it was
\* given sub-nodes; nodes: the data of those that are there, of one block each and
\* named by one property; broken: those whose load() throws.
\* The BTH is whole, with "cbKey set to 2 and cbEnt set to 6" or, in a row index, with 4
\* and 4; an id is that of one property, and what is longer than 4 bytes and of a fixed
\* size is in the heap.
ImageOf(i) ==
  /\ i.blocks \in Seq(Seq(Seq(Word))) /\ i.blocks # <<>>
  /\ i.root \in Id /\ IsHIDValid(i.root) /\ ~AllocationThrows(i.blocks, i.root)
  /\ HeaderAsserted(Allocation(i.blocks, i.root))
  /\ i.pc \in BOOLEAN /\ i.subtree \in BOOLEAN
  /\ LET header == Allocation(i.blocks, i.root)
     IN  IF i.pc THEN KeySize(header) = 2 /\ EntSize(header) = 6
                 ELSE KeySize(header) = 4 /\ EntSize(header) = 4
  /\ IsBTH(i.blocks, i.root)
  /\ LET recs == FileRecords(i.blocks, i.root)
     IN  i.pc => \A j \in DOMAIN recs :
           /\ \A k \in DOMAIN recs : recs[j][1] = recs[k][1] => j = k
           /\ (FixedAndLong(recs[j][2]) /\ ~MultiValued(recs[j][2]))
                => IdType(<<recs[j][3], recs[j][4]>>) = 0
  /\ DOMAIN i.nodes \subseteq Id
  /\ \A n \in DOMAIN i.nodes : i.nodes[n] \in Seq(Word)
  /\ i.broken \subseteq DOMAIN i.nodes

ASSUME ImageAssumption ==
  /\ \A i \in Images : ImageOf(i)
  /\ \A c \in Calls : c \in Word \X Word /\ Known(c[2]) /\ c[2] # 1
  /\ None \notin Seq(Word) /\ Threw \notin Seq(Word) /\ None # Threw

VARIABLES
  assertsOn,  \* the build: STORYT_ASSERT aborts, or is a no-op
  image,      \* which context it is
  blocks,     \* m_blocks
  levels,     \* readBTHRecords: bIdxLevels
  bytes,      \* readBTHRecords: the records of this level
  records,    \* m_bth.records()
  props,      \* m_properties: by id, the type, the data and isLoaded
  asked,      \* <<id, type>> of the call, or None
  answer,     \* the data of the property returned, None or Threw
  cut, fail,  \* the file was cut; the stream's failbit
  pc          \* "tree", "blocks", "bth", "level", "records", "idle", or how it ended

built == <<blocks, levels, bytes, records>>
call  == <<asked, answer>>
vars  == <<assertsOn, image, built, props, call, cut, fail, pc>>

Property == [type: Word, data: Seq(Word), loaded: BOOLEAN]

TypeOK ==
  /\ assertsOn \in BOOLEAN /\ image \in Images
  /\ blocks \in Seq(Seq(Seq(Word))) /\ levels \in Nat
  /\ bytes \in Seq(Word) /\ records \in Seq(Seq(Word))
  /\ DOMAIN props \subseteq Word /\ \A p \in DOMAIN props : props[p] \in Property
  /\ asked \in (Word \X Word) \cup {None}
  /\ answer \in Seq(Word) \cup {None, Threw}
  /\ cut \in BOOLEAN /\ fail \in BOOLEAN
  /\ pc \in {"tree", "blocks", "bth", "level", "records", "idle",
             "thrown", "undefined", "aborted"}

Init ==
  /\ assertsOn \in BOOLEAN /\ image \in Images
  /\ blocks = <<>> /\ levels = 0 /\ bytes = <<>> /\ records = <<>> /\ props = <<>>
  /\ asked = None /\ answer = None
  /\ cut = FALSE /\ fail = FALSE /\ pc = "tree"

\* Whether bytes that are read arrive.
Arrival(arrived) ==
  /\ arrived => ~fail
  /\ ~arrived => fail \/ cut
  /\ fail' = ~arrived

Ends(how) == pc' = how /\ UNCHANGED <<built, props>>

-----------------------------------------------------------------------------
(* HN's constructor. *)

\* Iterating the data tree loads it.  With assertions DataTree's notice blocks that
\* did not arrive; without, a header is read from a block without bytes.
LoadTree ==
  /\ pc = "tree"
  /\ \E arrived \in BOOLEAN :
       /\ Arrival(arrived)
       /\ pc' = IF arrived THEN "blocks" ELSE IF assertsOn THEN "aborted" ELSE "undefined"
  /\ UNCHANGED <<assertsOn, image, built, props, call, cut>>

\* The first block, and addBlock for the others.  The three headers begin alike, with
\* the offset of the page map, so which of them a block is read with changes nothing.
AddBlock ==
  LET block == image.blocks[Len(blocks) + 1]
  IN  /\ pc = "blocks"
      /\ IF assertsOn /\ ~PageMapAsserted(block)
         THEN Ends("aborted")
         ELSE /\ blocks' = Append(blocks, block)
              /\ pc' = IF Len(blocks) + 1 = Len(image.blocks) THEN "bth" ELSE "blocks"
              /\ UNCHANGED <<levels, bytes, records, props>>
      /\ UNCHANGED <<assertsOn, image, call, cut, fail>>

-----------------------------------------------------------------------------
(* BTreeHeap's constructor. *)

Header == Allocation(blocks, image.root)

\* readBTHHeader; "If hidRoot is zero, the BTH is empty".
ReadHeader ==
  /\ pc = "bth"
  /\ IF assertsOn /\ ~HeaderAsserted(Header)
     THEN Ends("aborted")
     ELSE IF HidRoot(Header) = <<0, 0>>
     THEN Ends("records")
     ELSE IF AllocationThrows(blocks, HidRoot(Header))
     THEN Ends("thrown")
     ELSE /\ bytes' = Allocation(blocks, HidRoot(Header))
          /\ levels' = IdxLevels(Header)
          /\ pc' = IF IdxLevels(Header) > 0 THEN "level" ELSE "records"
          /\ UNCHANGED <<blocks, records, props>>
  /\ UNCHANGED <<assertsOn, image, call, cut, fail>>

\* Mutant of ReadLevel: only the first array of the next level is read.
ReadLevelFirst ==
  LET hids == NextLevelHIDs(Header, bytes)
  IN  /\ pc = "level"
      /\ bytes' = IF hids = <<>> THEN <<>> ELSE Allocation(blocks, hids[1])
      /\ levels' = levels - 1
      /\ pc' = IF levels = 1 THEN "records" ELSE "level"
      /\ UNCHANGED <<blocks, records, props>>
      /\ UNCHANGED <<assertsOn, image, call, cut, fail>>

\* readBTHRecords on an index level: the arrays its records name, put together.
ReadLevel ==
  LET hids == NextLevelHIDs(Header, bytes)
  IN  /\ pc = "level"
      /\ IF assertsOn /\ ~LevelAsserted(Header, levels, bytes)
         THEN Ends("aborted")
         ELSE IF \E j \in DOMAIN hids : AllocationThrows(blocks, hids[j])
         THEN Ends("thrown")
         ELSE /\ bytes' = FlattenSeq([j \in DOMAIN hids |-> Allocation(blocks, hids[j])])
              /\ levels' = levels - 1
              /\ pc' = IF levels = 1 THEN "records" ELSE "level"
              /\ UNCHANGED <<blocks, records, props>>
      /\ UNCHANGED <<assertsOn, image, call, cut, fail>>

-----------------------------------------------------------------------------
(* _loadMetaProps. *)

Ids(recs) == {recs[j][1] : j \in DOMAIN recs}

\* A later record replaces an earlier one with the same id.
PropertyOf(recs, p) ==
  LET j == CHOOSE j \in DOMAIN recs :
             recs[j][1] = p /\ \A k \in DOMAIN recs : recs[k][1] = p => k <= j
  IN  [type |-> TypeOf(recs[j][2]), data |-> <<recs[j][3], recs[j][4]>>, loaded |-> FALSE]

MetaPropsAsserted(recs) ==
  /\ \A j \in DOMAIN recs : Implemented(recs[j][2])
  /\ \A j, k \in DOMAIN recs : recs[j][1] = recs[k][1] => j = k

\* The leaf level; in a property context its records become the properties.
ReadRecords ==
  LET recs == Chunks(bytes, RecordSize(Header))
  IN  /\ pc = "records"
      /\ IF assertsOn /\ (~LevelAsserted(Header, 0, bytes)
                          \/ (image.pc /\ ~MetaPropsAsserted(recs)))
         THEN Ends("aborted")
         ELSE /\ records' = recs
              /\ props' = IF image.pc THEN [p \in Ids(recs) |-> PropertyOf(recs, p)] ELSE props
              /\ pc' = "idle"
              /\ UNCHANGED <<blocks, levels, bytes>>
      /\ UNCHANGED <<assertsOn, image, call, cut, fail>>

-----------------------------------------------------------------------------
(* TryToGetProperty(p, t), on a context that is built. *)

Asks(p, t) ==
  /\ pc = "idle" /\ image.pc
  /\ asked' = <<p, t>>
  /\ UNCHANGED <<assertsOn, image, built, cut>>

\* What is returned of property p, whose data is now d.
Returned(p, t, d) == IF props[p].type = t THEN d ELSE None

\* _loadProperty comes first, and its at() throws on an id that is not there.
AskAbsent(p, t) ==
  /\ Asks(p, t) /\ p \notin DOMAIN props
  /\ answer' = Threw
  /\ UNCHANGED <<props, fail, pc>>

\* Mutant of Kept: what has the length of an HNID is taken for one.
KeptBySize(p) == DataIsInHNID(props[p].type) \/ Len(props[p].data) # 2

\* Mutant of Kept: a value in the record is taken for an HNID.
KeptOnlyLoaded(p) == props[p].loaded

Kept(p) == props[p].loaded \/ DataIsInHNID(props[p].type)

AskKept(p, t) ==
  /\ Asks(p, t) /\ p \in DOMAIN props /\ Kept(p)
  /\ answer' = Returned(p, t, props[p].data)
  /\ UNCHANGED <<props, fail, pc>>

\* Mutant of Loads: the property keeps what is returned of it.
LoadsAsReturned(p, t, d) ==
  /\ props' = [props EXCEPT ![p].data = Returned(p, t, d), ![p].loaded = TRUE]
  /\ answer' = Returned(p, t, d)
  /\ UNCHANGED pc

\* The data of p is now d, and stays.
Loads(p, t, d) ==
  /\ props' = [props EXCEPT ![p].data = d, ![p].loaded = TRUE]
  /\ answer' = Returned(p, t, d)
  /\ UNCHANGED pc

Throws == answer' = Threw /\ UNCHANGED <<props, pc>>
Stops(how) == pc' = how /\ UNCHANGED <<props, answer>>

\* Mutant of DataIsInHeap: what is longer than 4 bytes is taken to be in the heap.
DataIsInHeapAlways(p) == TRUE

\* DataIsInHeap, for one whose data is still its HNID.
DataIsInHeap(p) == FixedAndLong(props[p].type) \/ IdType(props[p].data) = 0

\* From the heap; an HID's constructor asserts that it is one.
AskHeap(p, t) ==
  /\ Asks(p, t) /\ p \in DOMAIN props /\ ~Kept(p) /\ DataIsInHeap(p)
  /\ LET hid == <<props[p].data[1], props[p].data[2]>>
     IN  IF assertsOn /\ (Len(props[p].data) # 2 \/ IdType(hid) # 0)
         THEN Stops("aborted")
         ELSE IF AllocationThrows(blocks, hid) THEN Throws
         ELSE Loads(p, t, Allocation(blocks, hid))
  /\ UNCHANGED fail

\* From a sub-node: getDataTree finds and loads its data tree, whose blocks are put
\* together.  Without assertions, blocks that did not arrive are without bytes, and
\* nullptr is dereferenced; without sub-nodes the data stays the NID.
AskNode(p, t) ==
  /\ Asks(p, t) /\ p \in DOMAIN props /\ ~Kept(p) /\ ~DataIsInHeap(p)
  /\ LET nid == <<props[p].data[1], props[p].data[2]>>
     IN  IF ~image.subtree
         THEN Loads(p, t, props[p].data) /\ UNCHANGED fail
         ELSE IF nid \notin DOMAIN image.nodes
         THEN Stops(IF assertsOn THEN "aborted" ELSE "undefined") /\ UNCHANGED fail
         ELSE IF nid \in image.broken
         THEN Throws /\ UNCHANGED fail
         ELSE \E arrived \in BOOLEAN :
                /\ Arrival(arrived)
                /\ IF arrived THEN Loads(p, t, image.nodes[nid])
                   ELSE IF assertsOn THEN Stops("aborted")
                   ELSE Loads(p, t, <<>>)

\* Whoever owns the file cuts it.
Cut ==
  /\ pc \in {"tree", "blocks", "bth", "level", "records", "idle"} /\ ~cut
  /\ cut' = TRUE
  /\ UNCHANGED <<assertsOn, image, built, props, call, fail, pc>>

Next ==
  \/ LoadTree \/ AddBlock \/ ReadHeader \/ ReadLevel \/ ReadRecords
  \/ \E c \in Calls :
       \/ AskAbsent(c[1], c[2]) \/ AskKept(c[1], c[2])
       \/ AskHeap(c[1], c[2]) \/ AskNode(c[1], c[2])
  \/ Cut

Spec == Init /\ [][Next]_vars

-----------------------------------------------------------------------------
(* What is in the file, by the comments of BTHHeader and PCBTHRecord. *)

InFile == FileRecords(image.blocks, image.root)

RecordOf(p) == CHOOSE r \in {InFile[j] : j \in DOMAIN InFile} : r[1] = p
HNIDOf(r)   == <<r[3], r[4]>>

\* A value of a fixed size of at most 4 bytes is in the record.
IsInRecord(r) == r[2] \in {2, 3, 4, 10, 11}

\* The file has the value.
IsThere(r) ==
  \/ IsInRecord(r)
  \/ IdType(HNIDOf(r)) = 0 /\ ~AllocationThrows(image.blocks, HNIDOf(r))
  \/ /\ IdType(HNIDOf(r)) # 0 /\ image.subtree
     /\ HNIDOf(r) \in DOMAIN image.nodes \ image.broken

ValueOf(r) ==
  CASE IsInRecord(r)                             -> HNIDOf(r)
    [] ~IsInRecord(r) /\ IdType(HNIDOf(r)) = 0   -> Allocation(image.blocks, HNIDOf(r))
    [] OTHER                                     -> image.nodes[HNIDOf(r)]

\* Index records are as long as leaf records, or there are none: so in the row index
\* of a table, and in a property context that fits into one allocation.
IndexIsAsLong ==
  LET header == Allocation(image.blocks, image.root)
  IN  IdxLevels(header) = 0 \/ EntSize(header) = 4

\* Once built, and while no read has failed, a BTH has the records of the file in
\* their order, over any number of index levels and whichever blocks they are in.
RecordsAreTheFiles ==
  (pc = "idle" /\ IndexIsAsLong) => records = InFile

\* While no read has failed, a call returns the value the file has for that id and
\* type, nullptr only for another type, and throws only where there is no such id,
\* whatever was asked and fetched before.  (Multi-valued types apart, and values the
\* file has lost.)
AnswerIsTheValue ==
  (pc = "idle" /\ asked # None /\ ~fail /\ IndexIsAsLong) =>
    IF asked[1] \in Ids(InFile)
    THEN LET r == RecordOf(asked[1])
         IN  \/ MultiValued(r[2]) \/ ~IsThere(r)
             \/ answer = IF r[2] = asked[2] THEN ValueOf(r) ELSE None
    ELSE answer = Threw

\* A property that was fetched stays as it was, even when the stream fails later or
\* calls throw, and none appears or disappears.
FetchedStays ==
  [][pc = "idle" =>
       /\ DOMAIN props' = DOMAIN props
       /\ \A p \in DOMAIN props : props[p].loaded => props'[p] = props[p]]_vars

\* On a file that nobody cut, the build with assertions ends only on a heap with a
\* freed allocation, on index records of another length, on a type that is not
\* implemented, or when a value is asked for that is not there or has many values; the
\* build without only on index records and on a sub-node that is not there.
EndsOnlyOn ==
  LET asks == asked # None /\ asked[1] \in Ids(InFile)
      lost == asks /\ ~IsThere(RecordOf(asked[1]))
      many == asks /\ MultiValued(RecordOf(asked[1])[2])
  IN  ~cut =>
        /\ pc = "aborted" =>
             \/ \E b \in DOMAIN image.blocks : ~PageMapAsserted(image.blocks[b])
             \/ ~IndexIsAsLong
             \/ \E j \in DOMAIN InFile : ~Implemented(InFile[j][2])
             \/ lost \/ many
        /\ pc = "undefined" => lost \/ ~IndexIsAsLong
        /\ pc = "thrown" => ~IndexIsAsLong

\* What BTHHeader's comment says of bIdxLevels: "If this value is greater than zero,
\* then its value indicates how many intermediate index levels are present."
IndexLevelsAreRead == pc = "idle" => records = InFile
=============================================================================
