------------------------------ MODULE DataTree ------------------------------
(***************************************************************************)
(* The DataTree objects of the NDB layer (src/include/NDB.h): each names   *)
(* the first block of a node's data and reads that data on first use, all  *)
(* through one shared std::ifstream.                                       *)
(*                                                                         *)
(* The program has one thread.  A call of load() is several steps because  *)
(* the file belongs to the operating system and can be cut short between   *)
(* two reads; the calls that copy, move or make objects happen between     *)
(* loads.  Bytes are abstracted to where they come from: what a read of    *)
(* [at, at+size) yields is decided by the block that occupies exactly      *)
(* these bytes of the file, so a decoded data block is the BID of the      *)
(* block whose data it holds, Empty when its bytes never arrived (the      *)
(* buffer is zero filled, and a zero trailer says cb = 0), and Garbage     *)
(* when the bytes are not one block.                                       *)
(***************************************************************************)
EXTENDS Sequences, Blocks

CONSTANTS
  Handle,      \* the C++ objects of type DataTree
  Bid,         \* the blocks of the file
  Kind,        \* Bid -> "data", "x" (XBLOCK) or "xx" (XXBLOCK)
  Ib,          \* Bid -> its byte offset in the file
  Cb,          \* Bid -> the size of its data, as the trailer and the BBT have it
  Rgbid,       \* Bid -> the BIDs listed in it, none for a data block
  Root,        \* the BIDs that nodes have for their data
  InBBT,       \* the BIDs the block B-tree can find
  ZeroSig,     \* the BIDs whose block signature (ComputeSig) happens to be 0
  FileSize,    \* bytes in the file when it is opened
  MaxStale,    \* bound: retries stop once a tree holds that many stale entries
  Empty, Garbage, None

End(b) == Ib[b] + AlignedSize(Cb[b])

\* bid.isInternal() is a bit of the BID itself.
Internal(b) == Kind[b] # "data"

ASSUME ImageAssumption ==
  /\ Kind \in [Bid -> {"data", "x", "xx"}]
  /\ Ib \in [Bid -> Nat]
  /\ Cb \in [Bid -> Nat]
  /\ Rgbid \in [Bid -> Seq(Bid)]
  /\ \A b \in Bid : SizeAsserted(Cb[b])
  /\ \A b, c \in Bid : Ib[b] = Ib[c] => b = c
  /\ \A b \in Bid : Kind[b] = "x" =>
        \A i \in DOMAIN Rgbid[b] : Kind[Rgbid[b][i]] = "data"
  /\ \A b \in Bid : Kind[b] = "xx" =>
        \A i \in DOMAIN Rgbid[b] : Kind[Rgbid[b][i]] = "x"

ASSUME ParameterAssumption ==
  /\ Root \subseteq Bid
  /\ InBBT \subseteq Bid
  /\ ZeroSig \subseteq Bid
  /\ FileSize \in Nat
  /\ \A b \in Bid : End(b) <= FileSize
  /\ MaxStale \in Nat
  /\ Empty \notin Bid /\ Garbage \notin Bid /\ None \notin Bid
  /\ Empty # Garbage
  /\ None \notin Handle

VARIABLES
  assertsOn,\* the build: STORYT_ASSERT aborts (no NDEBUG), or is a no-op
  tree,     \* the DataTree objects
  fileLen,  \* bytes the file still has
  fail,     \* the stream's failbit; nothing in the program clears it
  pc,       \* where the thread is: "idle", inside load(), or "aborted"
  cur,      \* the object load() runs on
  at,       \* _flush: how far the read position or the view has got
  bufEnd,   \* _flush: the bytes below this one were really read
  next      \* _flush: index of the entry being decoded

vars == <<assertsOn, tree, fileLen, fail, pc, cur, at, bufEnd, next>>
locals == <<at, bufEnd, next>>

Content == Bid \cup {Empty, Garbage}

(***************************************************************************)
(* An object: m_firstBlockBREF (its BID), m_dataBlockBBTs, m_dataBlocks,   *)
(* m_DataBlocksAreSetup and whether m_getBBT holds a function.  taken is   *)
(* not in the code: it remembers that loaded data was moved out of it.     *)
(***************************************************************************)
Tree == [made: BOOLEAN, root: Bid \cup {None}, bbts: Seq(Bid),
         blocks: Seq(Content), setup: BOOLEAN, getBBT: BOOLEAN,
         taken: BOOLEAN]

NoTree == [made |-> FALSE, root |-> None, bbts |-> <<>>, blocks |-> <<>>,
           setup |-> FALSE, getBBT |-> FALSE, taken |-> FALSE]

PC == {"idle", "first", "collect", "flush", "total", "readAll", "split",
       "each", "finish", "aborted"}

TypeOK ==
  /\ assertsOn \in BOOLEAN
  /\ tree \in [Handle -> Tree]
  /\ fileLen \in Nat /\ fail \in BOOLEAN
  /\ pc \in PC /\ cur \in Handle \cup {None}
  /\ at \in Nat /\ bufEnd \in Nat /\ next \in Nat

Init ==
  /\ assertsOn \in BOOLEAN
  /\ tree = [h \in Handle |-> NoTree]
  /\ fileLen = FileSize /\ fail = FALSE
  /\ pc = "idle" /\ cur = None
  /\ at = 0 /\ bufEnd = 0 /\ next = 0

-----------------------------------------------------------------------------
(* The stream. *)

\* readBytes: all of the bytes arrive, or the buffer keeps its zeros from
\* where the file ended and the failbit is set for good.
Arrives(from, size) == ~fail /\ from + size <= fileLen

\* What DataBlock's constructor makes of the bytes [from, from + size).
Decoded(from, size, arrived) ==
  IF ~arrived THEN Empty
  ELSE IF \E b \in Bid : Ib[b] = from /\ AlignedSize(Cb[b]) = size
       THEN CHOOSE b \in Bid : Ib[b] = from /\ AlignedSize(Cb[b]) = size
       ELSE Garbage

\* Mutant of BlockAsserted: the signature in the trailer is not compared.
BlockAssertedUnsigned(b, content) == ~Internal(b) /\ content \in {b, Empty}

\* The assertions a data block of entry b must meet: its BID is not internal,
\* and its trailer carries the signature of b.  The CRC of zero bytes is the
\* zero the trailer holds, so a zero signature is all that lets Empty through.
BlockAsserted(b, content) ==
  /\ ~Internal(b)
  /\ content = b \/ (content = Empty /\ b \in ZeroSig)

Abort ==
  /\ pc' = "aborted"
  /\ UNCHANGED <<assertsOn, tree, fileLen, fail, cur, locals>>

-----------------------------------------------------------------------------
(* The calls that make, copy and move objects. *)

NewTree(b) == [made |-> TRUE, root |-> b, bbts |-> <<>>, blocks |-> <<>>,
               setup |-> FALSE, getBBT |-> TRUE, taken |-> FALSE]

\* What a move leaves of t: its vectors and its function are emptied, the BREF
\* and the flag were only copied.
MovedFrom(t) == [made |-> t.made, root |-> t.root, bbts |-> <<>>, blocks |-> <<>>,
                 setup |-> t.setup, getBBT |-> FALSE,
                 taken |-> IF t.setup THEN TRUE ELSE t.taken]

\* NDB::InitDataTree with an entry of the BBT.
InitDataTree(h, b) ==
  /\ pc = "idle" /\ b \in Root \cap InBBT
  /\ tree' = [tree EXCEPT ![h] = NewTree(b)]
  /\ UNCHANGED <<assertsOn, fileLen, fail, pc, cur, locals>>

\* The implicit copy constructor.
Copy(g, h) ==
  /\ pc = "idle" /\ g # h /\ tree[g].made
  /\ tree' = [tree EXCEPT ![h] = tree[g]]
  /\ UNCHANGED <<assertsOn, fileLen, fail, pc, cur, locals>>

\* The implicit move constructor.
Move(g, h) ==
  /\ pc = "idle" /\ g # h /\ tree[g].made
  /\ tree' = [tree EXCEPT ![h] = tree[g], ![g] = MovedFrom(tree[g])]
  /\ UNCHANGED <<assertsOn, fileLen, fail, pc, cur, locals>>

\* HN's constructor iterates its tree and moves the bytes out of block 0.
TakeFirstBlock(h) ==
  /\ pc = "idle" /\ tree[h].setup /\ tree[h].blocks # <<>>
  /\ tree' = [tree EXCEPT ![h].blocks[1] = Empty, ![h].taken = TRUE]
  /\ UNCHANGED <<assertsOn, fileLen, fail, pc, cur, locals>>

-----------------------------------------------------------------------------
(* load(). *)

\* Mutant of StartLoad: a tree that is set up is loaded again.
StartLoadAgain(h) ==
  /\ pc = "idle" /\ tree[h].made /\ Len(tree[h].bbts) <= MaxStale
  /\ pc' = "first" /\ cur' = h
  /\ UNCHANGED <<assertsOn, tree, fileLen, fail, locals>>

\* begin() or getDataTree() calls load(), which returns at once on a tree that
\* is set up.  The retry of a load that threw starts here again.
StartLoad(h) ==
  /\ pc = "idle" /\ tree[h].made /\ ~tree[h].setup
  /\ Len(tree[h].bbts) <= MaxStale
  /\ pc' = "first" /\ cur' = h
  /\ UNCHANGED <<assertsOn, tree, fileLen, fail, locals>>

\* Read the first block and act on the BID in its trailer.  Zero bytes have
\* BID 0, which is not internal; otherwise an internal block has btype 1, an
\* XXBLOCK too, and goes to XBlock::Init, which asserts that cLevel is 1.
ReadFirstBlock ==
  LET b       == tree[cur].root
      arrived == Arrives(Ib[b], AlignedSize(Cb[b]))
      content == Decoded(Ib[b], AlignedSize(Cb[b]), arrived)
  IN  /\ pc = "first"
      /\ IF assertsOn /\ (fail \/ content # b \/ Kind[b] = "xx")
         THEN Abort
         ELSE /\ fail' = ~arrived
              /\ IF content # Empty /\ Internal(b)
                 THEN pc' = "collect" /\ UNCHANGED tree
                 ELSE /\ tree' = [tree EXCEPT ![cur].blocks = Append(@, content)]
                      /\ pc' = "finish"
              /\ UNCHANGED <<assertsOn, fileLen, cur, locals>>

\* Mutants of CollectEntries: a missing entry is dereferenced all the same, is
\* waited for, and the flag is set before the blocks are read.
CollectUnchecked ==
  /\ pc = "collect" /\ pc' = "flush"
  /\ tree' = [tree EXCEPT ![cur].bbts = @ \o
       [i \in DOMAIN Rgbid[tree[cur].root] |->
          IF Rgbid[tree[cur].root][i] \in InBBT THEN Rgbid[tree[cur].root][i] ELSE None]]
  /\ UNCHANGED <<assertsOn, fileLen, fail, cur, locals>>

CollectWaiting ==
  /\ pc = "collect" /\ pc' = "flush"
  /\ \A i \in DOMAIN Rgbid[tree[cur].root] : Rgbid[tree[cur].root][i] \in InBBT
  /\ tree' = [tree EXCEPT ![cur].bbts = @ \o Rgbid[tree[cur].root]]
  /\ UNCHANGED <<assertsOn, fileLen, fail, cur, locals>>

CollectFlagged ==
  /\ pc = "collect" /\ pc' = "flush"
  /\ tree' = [tree EXCEPT ![cur].bbts = @ \o Rgbid[tree[cur].root],
                          ![cur].setup = TRUE]
  /\ UNCHANGED <<assertsOn, fileLen, fail, cur, locals>>

\* _xBlocktoDataBlocks: look up every BID of the block.  value() throws on the
\* first that is missing, and an empty m_getBBT throws on any; the entries
\* pushed so far stay.
CollectEntries ==
  LET listed  == Rgbid[tree[cur].root]
      found   == IF tree[cur].getBBT THEN InBBT ELSE {}
      missing == {i \in DOMAIN listed : listed[i] \notin found}
  IN  /\ pc = "collect"
      /\ IF missing = {}
         THEN /\ tree' = [tree EXCEPT ![cur].bbts = @ \o listed]
              /\ pc' = "flush" /\ UNCHANGED cur
         ELSE /\ \E first \in missing :
                   /\ \A i \in missing : first <= i
                   /\ tree' = [tree EXCEPT ![cur].bbts =
                                             @ \o SubSeq(listed, 1, first - 1)]
              /\ pc' = "idle" /\ cur' = None
      /\ UNCHANGED <<assertsOn, fileLen, fail, locals>>

\* Mutant of StoredContiguously: ascending is taken for contiguous.
StoredAscending(entries) ==
  \A i \in 2..Len(entries) : Ib[entries[i]] > Ib[entries[i-1]]

\* DataBlocksAreStoredContiguously_
StoredContiguously(entries) ==
  \A i \in 2..Len(entries) : Ib[entries[i]] = End(entries[i-1])

\* _flush with nothing to do.
FlushNothing ==
  /\ pc = "flush" /\ tree[cur].bbts = <<>>
  /\ pc' = "finish"
  /\ UNCHANGED <<assertsOn, tree, fileLen, fail, cur, locals>>

\* _flush starts to add up how many bytes to read at once, or to read block by
\* block.
FlushContiguous ==
  LET entries == tree[cur].bbts
  IN  /\ pc = "flush" /\ entries # <<>> /\ StoredContiguously(entries)
      /\ at' = Ib[entries[1]] /\ next' = 1 /\ pc' = "total"
      /\ UNCHANGED <<assertsOn, tree, fileLen, fail, cur, bufEnd>>

FlushScattered ==
  /\ pc = "flush" /\ tree[cur].bbts # <<>>
  /\ ~StoredContiguously(tree[cur].bbts)
  /\ next' = 1 /\ pc' = "each"
  /\ UNCHANGED <<assertsOn, tree, fileLen, fail, cur, at, bufEnd>>

\* The loop of TotalDataBlockFileBytes_; at is the end of what it has added.
AddBlockSize ==
  LET entries == tree[cur].bbts
  IN  /\ pc = "total"
      /\ at' = at + AlignedSize(Cb[entries[next]])
      /\ next' = next + 1
      /\ pc' = IF next = Len(entries) THEN "readAll" ELSE "total"
      /\ UNCHANGED <<assertsOn, tree, fileLen, fail, cur, bufEnd>>

\* One read for all of the blocks; what the file no longer has stays zero in
\* the buffer.
ReadContiguous ==
  LET from == Ib[tree[cur].bbts[1]]
  IN  /\ pc = "readAll"
      /\ IF assertsOn /\ fail
         THEN Abort
         ELSE /\ fail' = ~Arrives(from, at - from)
              /\ bufEnd' = IF fail THEN 0 ELSE IF fileLen < at THEN fileLen ELSE at
              /\ at' = from /\ next' = 1
              /\ pc' = "split"
              /\ UNCHANGED <<assertsOn, tree, fileLen, cur>>

\* Push the block decoded for entry b, and go on to the next entry.
Push(b, content, here) ==
  /\ tree' = [tree EXCEPT ![cur].blocks = Append(@, content)]
  /\ next' = next + 1
  /\ pc' = IF next = Len(tree[cur].bbts) THEN "finish" ELSE here

\* view.read(totalSize) cuts the next block out of the buffer.
SplitNext ==
  LET b       == tree[cur].bbts[next]
      size    == AlignedSize(Cb[b])
      content == Decoded(at, size, at + size <= bufEnd)
  IN  /\ pc = "split"
      /\ IF assertsOn /\ ~BlockAsserted(b, content)
         THEN Abort
         ELSE /\ Push(b, content, "split")
              /\ at' = at + size
              /\ UNCHANGED <<assertsOn, fileLen, fail, cur, bufEnd>>

\* The other branch seeks and reads block by block.
ReadNext ==
  LET b       == tree[cur].bbts[next]
      size    == AlignedSize(Cb[b])
      content == Decoded(Ib[b], size, Arrives(Ib[b], size))
  IN  /\ pc = "each"
      /\ IF assertsOn /\ (fail \/ ~BlockAsserted(b, content))
         THEN Abort
         ELSE /\ Push(b, content, "each")
              /\ fail' = ~Arrives(Ib[b], size)
              /\ UNCHANGED <<assertsOn, fileLen, cur, at, bufEnd>>

FinishLoad ==
  /\ pc = "finish"
  /\ tree' = [tree EXCEPT ![cur].setup = TRUE]
  /\ pc' = "idle" /\ cur' = None
  /\ at' = 0 /\ bufEnd' = 0 /\ next' = 0   \* _flush's locals are gone
  /\ UNCHANGED <<assertsOn, fileLen, fail>>

LoadStep ==
  \/ ReadFirstBlock \/ CollectEntries
  \/ FlushNothing \/ FlushContiguous \/ FlushScattered
  \/ AddBlockSize \/ ReadContiguous \/ SplitNext \/ ReadNext \/ FinishLoad

-----------------------------------------------------------------------------
\* Whoever owns the file cuts it where some block begins.  Shorter cuts inside
\* a block look the same to the reader as long as its trailer is gone.
Truncate(b) ==
  /\ pc # "aborted" /\ Ib[b] < fileLen
  /\ fileLen' = Ib[b]
  /\ UNCHANGED <<assertsOn, tree, fail, pc, cur, locals>>

Next ==
  \/ \E h \in Handle, b \in Bid : InitDataTree(h, b)
  \/ \E g, h \in Handle : Copy(g, h) \/ Move(g, h)
  \/ \E h \in Handle : TakeFirstBlock(h) \/ StartLoad(h)
  \/ LoadStep
  \/ \E b \in Bid : Truncate(b)

\* The thread runs: a load that was called goes on.  Nobody owes a call.
Spec == Init /\ [][Next]_vars /\ WF_vars(LoadStep)

-----------------------------------------------------------------------------
(* What load() promises. *)

\* The data of the node whose first block is b, in order.
DataOf(b) ==
  LET flat[i \in 0..Len(Rgbid[b])] ==
        IF i = 0 THEN <<>> ELSE flat[i-1] \o Rgbid[Rgbid[b][i]]
  IN  CASE Kind[b] = "data" -> <<b>>
        [] Kind[b] = "x"    -> Rgbid[b]
        [] Kind[b] = "xx"   -> flat[Len(Rgbid[b])]

\* While no read has failed, a tree whose flag says it is set up holds exactly
\* the data blocks of its node in their order, whether its blocks were read
\* together or one by one, after any copies, moves, failed loads and retries.
\* (XXBLOCKs apart: see LoadsXXBlocks.)
LoadedIsImage ==
  \A h \in Handle :
    (tree[h].setup /\ ~tree[h].taken /\ ~fail /\ Kind[tree[h].root] # "xx")
      => tree[h].blocks = DataOf(tree[h].root)

\* With assertions, no tree is ever set up with blocks that did not come from
\* their place in the file, even when the file was cut short under the reader;
\* the block signature is what notices, so a signature that is 0 is no guard.
AssertsCatchShortReads ==
  assertsOn => \A h \in Handle :
    (tree[h].setup /\ ~tree[h].taken)
      => /\ Len(tree[h].blocks) = Len(DataOf(tree[h].root))
         /\ \A i \in DOMAIN tree[h].blocks :
              \/ tree[h].blocks[i] = DataOf(tree[h].root)[i]
              \/ tree[h].blocks[i] = Empty /\ DataOf(tree[h].root)[i] \in ZeroSig

\* On a file nobody cut, loading runs into no assertion, in whatever order the
\* objects are made, copied, moved and loaded, and whichever loads threw before.
\* (XXBLOCKs apart again.)
IntactNeverAborts ==
  (fileLen = FileSize /\ pc = "aborted") => Kind[tree[cur].root] = "xx"

\* The blocks of a tree that is set up change only by being moved out or by
\* the object being made anew: loading again adds nothing.
LoadingAgainAddsNothing ==
  [][\A h \in Handle : (tree[h].setup /\ pc' \notin {"idle", "aborted"})
                          => tree'[h] = tree[h]]_vars

\* Every call of load() returns, throws or aborts.
LoadEnds == pc # "idle" ~> pc \in {"idle", "aborted"}

\* What the comments of XBlock and XXBlock say of the format: btype 1 marks
\* both, cLevel tells them apart, and an XXBLOCK expands to the data of the
\* XBLOCKs it lists.  This is LoadedIsImage for every first block.
LoadsXXBlocks ==
  \A h \in Handle :
    (tree[h].setup /\ ~tree[h].taken /\ ~fail)
      => tree[h].blocks = DataOf(tree[h].root)
-----------------------------------------------------------------------------
\* To its users a tree is loaded in one step or not at all.
View(t) ==
  CASE ~t.made -> [is |-> "absent"]
    [] t.made /\ t.taken -> [is |-> "taken"]
    [] t.made /\ ~t.taken /\ ~t.setup -> [is |-> "unread", root |-> t.root]
    [] t.made /\ ~t.taken /\ t.setup ->
         [is |-> "read", root |-> t.root, data |-> t.blocks]

Lazy == INSTANCE LazyTree WITH
          Data <- [b \in Bid |-> DataOf(b)],
          obj <- [h \in Handle |-> View(tree[h])],
          spoiled <- fail

\* The steps of load() and of its callers implement the one-step tree.
LazySpec == Lazy!Spec
=============================================================================
