--------------------------- MODULE DataTreeProofs ---------------------------
(***************************************************************************)
(* Proofs about DataTree for every file image, set of objects and build,   *)
(* about the block sizes it reads by, and that it implements LazyTree.     *)
(* LoadedIsImage is not inductive: IInv adds what holds in the middle of a *)
(* load and what a load that threw leaves behind.                          *)
(***************************************************************************)
EXTENDS DataTree, SequenceTheorems, TLAPS

-----------------------------------------------------------------------------
(* Block sizes: what calcBlockAlignedSize returns, for every size. *)

\* What the % of C++ and of TLA+ agree on for sizes.
LEMMA RemainderRange ==
  ASSUME NEW n \in Nat
  PROVE  n % Multiple \in 0..(Multiple - 1)
  BY DEF Multiple

\* Two multiples of 64 are equal or at least 64 apart.
LEMMA MultiplesApart ==
  ASSUME NEW a \in Nat, NEW m \in Nat,
         a % 64 = 0, m % 64 = 0, a < m + 64
  PROVE  a <= m
  OBVIOUS

\* The largest block, 8192 = 128 * 64, leaves 8176 bytes for the data.
LEMMA LargestData ==
  ASSUME NEW a \in Nat, a % 64 = 0, NEW cb \in Nat, NEW o \in 0..63,
         a = cb + 16 + o
  PROVE  a <= 8192 <=> cb <= 8176
  OBVIOUS

\* The padding completes the data and the trailer to a multiple of 64 and is
\* shorter than 64 bytes.
LEMMA OffsetRange ==
  ASSUME NEW cb \in Nat
  PROVE  Offset(cb) \in 0..(Multiple - 1)
<1>1. (cb + TrailerSize) % Multiple \in 0..(Multiple - 1)
  BY RemainderRange DEF TrailerSize
<1> QED
  BY <1>1 DEF Offset, Multiple

\* The block size is a multiple of 64.
LEMMA AlignedSizeIsMultiple ==
  ASSUME NEW cb \in Nat
  PROVE  AlignedSize(cb) % Multiple = 0
  BY DEF AlignedSize, Offset, Multiple, TrailerSize

\* The block size as the sum the code computes, without its names.
LEMMA AlignedSizeSum ==
  ASSUME NEW cb \in Nat
  PROVE  /\ AlignedSize(cb) \in Nat /\ Offset(cb) \in 0..63
         /\ AlignedSize(cb) = cb + 16 + Offset(cb)
  BY OffsetRange DEF AlignedSize, TrailerSize, Multiple

\* The block size is the smallest multiple of 64 that holds the data and the
\* trailer: the block ends where the reader looks for its trailer, and a reader
\* never asks for bytes of the next block.
THEOREM AlignedSizeIsSmallest ==
  ASSUME NEW cb \in Nat
  PROVE  IsSmallestFit(cb, AlignedSize(cb))
<1>0. /\ AlignedSize(cb) \in Nat /\ Offset(cb) \in 0..63
      /\ AlignedSize(cb) = cb + 16 + Offset(cb)
  BY AlignedSizeSum
<1>1. AlignedSize(cb) >= cb + TrailerSize
  BY <1>0 DEF TrailerSize
<1>2. ASSUME NEW m \in Nat, m % Multiple = 0, m >= cb + TrailerSize
      PROVE  AlignedSize(cb) <= m
  <2>1. AlignedSize(cb) < m + 64
    BY <1>0, <1>2 DEF TrailerSize
  <2>2. AlignedSize(cb) % 64 = 0 /\ m % 64 = 0
    BY <1>2, AlignedSizeIsMultiple DEF Multiple
  <2> QED
    BY <1>0, <2>1, <2>2, MultiplesApart
<1> QED
  BY <1>1, <1>2, AlignedSizeIsMultiple DEF IsSmallestFit

\* The assertions at the end of calcBlockAlignedSize reject exactly the data
\* sizes that no block can hold: 8176 bytes pass, 8177 do not.
THEOREM DataThatFits ==
  ASSUME NEW cb \in Nat
  PROVE  SizeAsserted(cb) <=> cb <= MaxBlockSize - TrailerSize
<1>1. AlignedSize(cb) % 64 = 0
  BY AlignedSizeIsMultiple DEF Multiple
<1>2. /\ AlignedSize(cb) \in Nat /\ Offset(cb) \in 0..63
      /\ AlignedSize(cb) = cb + 16 + Offset(cb)
  BY AlignedSizeSum
<1>3. AlignedSize(cb) <= 8192 <=> cb <= 8176
  <2> DEFINE a == AlignedSize(cb)
             o == Offset(cb)
  <2>1. a \in Nat /\ a % 64 = 0 /\ o \in 0..63 /\ a = cb + 16 + o
    BY <1>1, <1>2
  <2> HIDE DEF a, o
  <2>2. a <= 8192 <=> cb <= 8176
    BY <2>1, LargestData
  <2> QED
    BY <2>2 DEF a
<1> QED
  BY <1>1, <1>3 DEF SizeAsserted, MaxBlockSize, TrailerSize, Multiple

-----------------------------------------------------------------------------
(* The inductive invariant. *)

\* Some BID listed in b is not in the BBT.
Lacks(b) == \E i \in DOMAIN Rgbid[b] : Rgbid[b][i] \notin InBBT

\* An object no load is working on: it knows its first block, it has no blocks
\* unless it is set up, the entries left over by a load that threw stay with a
\* tree no load can finish, and what it shows is the data of its node.
Resting(t) ==
  /\ t.made => t.root \in Bid
  /\ t.setup => t.made
  /\ ~t.setup => t.blocks = <<>>
  /\ (t.made /\ ~t.setup /\ t.bbts # <<>>) => Lacks(t.root)
  /\ (t.setup /\ ~t.taken /\ ~fail /\ Kind[t.root] # "xx")
       => t.blocks = DataOf(t.root)

RestingOK == \A h \in Handle : (h # cur \/ pc = "first") => Resting(tree[h])

\* The thread is inside load() exactly when it has an object to load.
ControlOK ==
  /\ pc = "idle" => cur = None
  /\ pc # "idle" => /\ cur \in Handle /\ tree[cur].made /\ ~tree[cur].setup
                    /\ tree[cur].root \in Bid

\* Before the entries are collected.
CollectOK ==
  pc = "collect" => /\ Internal(tree[cur].root)
                    /\ tree[cur].blocks = <<>>
                    /\ tree[cur].bbts # <<>> => Lacks(tree[cur].root)

\* What is flushed is what the first block lists.
FlushOK ==
  /\ pc \in {"flush", "total", "readAll", "split", "each"} =>
       /\ Internal(tree[cur].root)
       /\ tree[cur].bbts = Rgbid[tree[cur].root]
  /\ pc \in {"flush", "total", "readAll"} => tree[cur].blocks = <<>>
  /\ pc \in {"total", "split", "each"} => next \in 1..Len(tree[cur].bbts)

\* The running sum is the end of the last entry added, and none ends later;
\* the buffer then reaches to the end of every entry, unless the read failed.
TotalOK ==
  LET entries == tree[cur].bbts IN
  /\ pc \in {"total", "readAll", "split"} =>
       entries # <<>> /\ StoredContiguously(entries)
  /\ pc = "total" => \A i \in 1..(next - 1) : End(entries[i]) <= at
  /\ pc = "readAll" => \A i \in 1..Len(entries) : End(entries[i]) <= at
  /\ pc \in {"total", "split"} => at = Ib[entries[next]]
  /\ (pc = "split" /\ ~fail) => \A i \in 1..Len(entries) : End(entries[i]) <= bufEnd

\* The blocks pushed so far are those of the entries passed.
PushedOK ==
  pc \in {"split", "each"} =>
    /\ Len(tree[cur].blocks) = next - 1
    /\ ~fail => \A i \in 1..(next - 1) : tree[cur].blocks[i] = tree[cur].bbts[i]

FinishedOK ==
  (pc = "finish" /\ ~fail /\ Kind[tree[cur].root] # "xx")
    => tree[cur].blocks = DataOf(tree[cur].root)

IInv == /\ TypeOK /\ RestingOK /\ ControlOK /\ CollectOK
        /\ FlushOK /\ TotalOK /\ PushedOK /\ FinishedOK

-----------------------------------------------------------------------------
(* Facts about sizes and decoding. *)

\* A block takes a positive number of bytes.
LEMMA AlignedSizePositive ==
  ASSUME NEW cb \in Nat
  PROVE  AlignedSize(cb) \in Nat \ {0}
  BY DEF AlignedSize, Offset, TrailerSize, Multiple

\* Where a block ends is a file position.
LEMMA EndIsNat ==
  ASSUME NEW b \in Bid
  PROVE  End(b) \in Nat /\ Ib[b] \in Nat /\ Cb[b] \in Nat
         /\ AlignedSize(Cb[b]) \in Nat
<1>1. Ib[b] \in Nat /\ Cb[b] \in Nat
  BY ImageAssumption
<1>2. AlignedSize(Cb[b]) \in Nat
  BY <1>1, AlignedSizePositive
<1> QED
  BY <1>1, <1>2 DEF End

\* Whatever a read yields is some content.
LEMMA DecodedIsContent ==
  ASSUME NEW from, NEW size, NEW arrived
  PROVE  Decoded(from, size, arrived) \in Content
  BY DEF Decoded, Content

\* Reading the whole of a block yields that block.
LEMMA DecodedWhole ==
  ASSUME NEW b \in Bid
  PROVE  Decoded(Ib[b], AlignedSize(Cb[b]), TRUE) = b
<1> DEFINE c == CHOOSE c \in Bid : Ib[c] = Ib[b] /\ AlignedSize(Cb[c]) = AlignedSize(Cb[b])
<1>1. c \in Bid /\ Ib[c] = Ib[b]
  OBVIOUS
<1>2. c = b
  BY <1>1, ImageAssumption
<1> QED
  BY <1>2 DEF Decoded

\* The initial states satisfy the invariant.
LEMMA InitIInv == Init => IInv
<1> SUFFICES ASSUME Init PROVE IInv
  OBVIOUS
<1>1. TypeOK
  <2>1. NoTree \in Tree
    BY DEF NoTree, Tree
  <2> QED
    BY <2>1, ParameterAssumption DEF Init, TypeOK, PC
<1>2. \A h \in Handle : tree[h] = NoTree
  BY DEF Init
<1>3. RestingOK
  BY <1>2 DEF NoTree, RestingOK, Resting
<1>4. ControlOK /\ CollectOK /\ FlushOK /\ TotalOK /\ PushedOK /\ FinishedOK
  BY DEF Init, ControlOK, CollectOK, FlushOK, TotalOK, PushedOK, FinishedOK
<1> QED
  BY <1>1, <1>3, <1>4 DEF IInv

\* The invariant implies the property.
LEMMA IInvImpliesLoadedIsImage == IInv => LoadedIsImage
<1> SUFFICES ASSUME IInv, NEW h \in Handle,
                    tree[h].setup, ~tree[h].taken, ~fail, Kind[tree[h].root] # "xx"
             PROVE  tree[h].blocks = DataOf(tree[h].root)
  BY DEF LoadedIsImage
<1>1. h # cur
  BY ParameterAssumption DEF IInv, ControlOK
<1> QED
  BY <1>1 DEF IInv, RestingOK, Resting

-----------------------------------------------------------------------------
(* The calls between loads: objects change, the thread stays idle. *)

\* Between loads it is enough to look at the objects.
LEMMA IdleStep ==
  ASSUME IInv, pc = "idle", TypeOK',
         UNCHANGED <<assertsOn, fileLen, fail, pc, cur, locals>>,
         \A h \in Handle : Resting(tree'[h])
  PROVE  IInv'
<1>1. pc' = "idle" /\ cur' = None
  BY DEF IInv, ControlOK
<1>2. RestingOK'
  BY DEF RestingOK, Resting
<1>3. (ControlOK /\ CollectOK /\ FlushOK /\ TotalOK /\ PushedOK /\ FinishedOK)'
  BY <1>1 DEF ControlOK, CollectOK, FlushOK, TotalOK, PushedOK, FinishedOK
<1> QED
  BY <1>2, <1>3 DEF IInv

\* Between loads every object rests.
LEMMA IdleRests ==
  ASSUME IInv, pc = "idle"
  PROVE  \A h \in Handle : Resting(tree[h])
  BY ParameterAssumption DEF IInv, ControlOK, RestingOK

LEMMA InitDataTreeStep ==
  ASSUME IInv, NEW h \in Handle, NEW b \in Bid, InitDataTree(h, b)
  PROVE  IInv'
<1>1. NewTree(b) \in Tree /\ Resting(NewTree(b))
  BY DEF NewTree, Tree, Resting
<1>2. TypeOK'
  BY <1>1 DEF InitDataTree, IInv, TypeOK, locals
<1>3. \A g \in Handle : Resting(tree'[g])
  BY <1>1, IdleRests DEF InitDataTree, IInv, TypeOK
<1> QED
  BY <1>2, <1>3, IdleStep DEF InitDataTree

LEMMA CopyStep ==
  ASSUME IInv, NEW g \in Handle, NEW h \in Handle, Copy(g, h)
  PROVE  IInv'
<1>1. TypeOK'
  BY DEF Copy, IInv, TypeOK, locals
<1>2. \A f \in Handle : Resting(tree'[f])
  BY IdleRests DEF Copy, IInv, TypeOK
<1> QED
  BY <1>1, <1>2, IdleStep DEF Copy

LEMMA MoveStep ==
  ASSUME IInv, NEW g \in Handle, NEW h \in Handle, Move(g, h)
  PROVE  IInv'
<1> DEFINE t == MovedFrom(tree[g])
<1>1. Resting(tree[g]) /\ tree[g] \in Tree
  BY IdleRests DEF Move, IInv, TypeOK
<1>2. t \in Tree
  <2> DEFINE took == IF tree[g].setup THEN TRUE ELSE tree[g].taken
  <2>1. took \in BOOLEAN
    BY <1>1 DEF Tree
  <2>2. t = [made |-> tree[g].made, root |-> tree[g].root, bbts |-> <<>>,
             blocks |-> <<>>, setup |-> tree[g].setup, getBBT |-> FALSE,
             taken |-> took]
    BY DEF MovedFrom
  <2> HIDE DEF took
  <2> QED
    BY <1>1, <2>1, <2>2 DEF Tree
<1>3. Resting(t)
  BY <1>1, <1>2 DEF Resting, Tree, MovedFrom
<1>4. tree' = [tree EXCEPT ![h] = tree[g], ![g] = t]
  BY DEF Move
<1>5. TypeOK'
  BY <1>2, <1>4 DEF Move, IInv, TypeOK, locals
<1>6. \A f \in Handle : Resting(tree'[f])
  BY <1>1, <1>3, <1>4, IdleRests DEF Move, IInv, TypeOK
<1> QED
  BY <1>5, <1>6, IdleStep DEF Move

LEMMA TakeFirstBlockStep ==
  ASSUME IInv, NEW h \in Handle, TakeFirstBlock(h)
  PROVE  IInv'
<1> DEFINE t == [tree[h] EXCEPT !.blocks[1] = Empty, !.taken = TRUE]
<1>1. Resting(tree[h]) /\ tree[h] \in Tree
  BY IdleRests DEF TakeFirstBlock, IInv, TypeOK
<1>2. [tree[h].blocks EXCEPT ![1] = Empty] \in Seq(Content)
  <2>1. tree[h].blocks \in Seq(Content) /\ tree[h].blocks # <<>>
    BY <1>1 DEF Tree, TakeFirstBlock
  <2>2. 1 \in 1..Len(tree[h].blocks)
    BY <2>1, EmptySeq
  <2> QED
    BY <2>1, <2>2, ExceptSeq DEF Content
<1>3. t \in Tree
  BY <1>1, <1>2 DEF Tree
<1>4. Resting(t)
  BY <1>1, <1>3 DEF Resting, Tree, TakeFirstBlock
<1>5. tree' = [tree EXCEPT ![h] = t]
  BY <1>1 DEF TakeFirstBlock, IInv, TypeOK, Tree
<1>6. TypeOK'
  BY <1>3, <1>5 DEF TakeFirstBlock, IInv, TypeOK, locals
<1>7. \A f \in Handle : Resting(tree'[f])
  BY <1>4, <1>5, IdleRests DEF TakeFirstBlock, IInv, TypeOK
<1> QED
  BY <1>6, <1>7, IdleStep DEF TakeFirstBlock

-----------------------------------------------------------------------------
(* The steps of load(). *)

\* The data of a node of one or two levels.
LEMMA DataOfCases ==
  ASSUME NEW b \in Bid
  PROVE  /\ Kind[b] = "data" => DataOf(b) = <<b>>
         /\ Kind[b] = "x" => DataOf(b) = Rgbid[b]
  BY DEF DataOf

\* Objects no load works on still rest after a step of a load on another.
LEMMA OthersRest ==
  ASSUME IInv, pc # "idle", pc' # "first", cur' = cur, fail => fail',
         \A h \in Handle : h # cur => tree'[h] = tree[h]
  PROVE  RestingOK'
  BY DEF IInv, RestingOK, Resting

LEMMA AbortStep ==
  ASSUME IInv, pc # "idle", Abort
  PROVE  IInv'
<1>1. TypeOK'
  BY DEF Abort, IInv, TypeOK, PC, locals
<1>2. RestingOK'
  BY OthersRest DEF Abort
<1>3. (ControlOK /\ CollectOK /\ FlushOK /\ TotalOK /\ PushedOK /\ FinishedOK)'
  BY DEF Abort, IInv, ControlOK, CollectOK, FlushOK, TotalOK, PushedOK, FinishedOK
<1> QED
  BY <1>1, <1>2, <1>3 DEF IInv

LEMMA StartLoadStep ==
  ASSUME IInv, NEW h \in Handle, StartLoad(h)
  PROVE  IInv'
<1>1. TypeOK'
  BY DEF StartLoad, IInv, TypeOK, PC, locals
<1>2. \A g \in Handle : Resting(tree[g])
  BY IdleRests DEF StartLoad
<1>3. RestingOK'
  BY <1>2 DEF StartLoad, RestingOK, Resting
<1>4. ControlOK'
  BY <1>2 DEF StartLoad, ControlOK, Resting
<1>5. (CollectOK /\ FlushOK /\ TotalOK /\ PushedOK /\ FinishedOK)'
  BY DEF StartLoad, CollectOK, FlushOK, TotalOK, PushedOK, FinishedOK
<1> QED
  BY <1>1, <1>3, <1>4, <1>5 DEF IInv

LEMMA ReadFirstBlockStep ==
  ASSUME IInv, ReadFirstBlock
  PROVE  IInv'
<1> DEFINE b == tree[cur].root
           arrived == Arrives(Ib[b], AlignedSize(Cb[b]))
           content == Decoded(Ib[b], AlignedSize(Cb[b]), arrived)
<1>1. /\ pc = "first" /\ cur \in Handle /\ b \in Bid /\ tree[cur] \in Tree
      /\ tree[cur].made /\ ~tree[cur].setup /\ Resting(tree[cur])
  BY DEF ReadFirstBlock, IInv, ControlOK, RestingOK, TypeOK
<1>2. arrived \in BOOLEAN /\ (arrived => ~fail)
  BY DEF Arrives
<1>3. content = IF arrived THEN b ELSE Empty
  <2>1. CASE arrived
    BY <1>1, <1>2, <2>1, DecodedWhole
  <2>2. CASE ~arrived
    BY <2>2 DEF Decoded
  <2> QED
    BY <2>1, <2>2
<1>4. CASE Abort
  BY <1>1, <1>4, AbortStep
<1>5. CASE /\ fail' = ~arrived /\ pc' = "collect" /\ Internal(b)
           /\ UNCHANGED <<assertsOn, tree, fileLen, cur, locals>>
  <2>1. TypeOK'
    BY <1>2, <1>5 DEF IInv, TypeOK, PC, locals
  <2>2. RestingOK'
    BY <1>1, <1>2, <1>5, OthersRest
  <2>3. ControlOK' /\ CollectOK'
    BY <1>1, <1>5 DEF IInv, ControlOK, CollectOK, Resting
  <2>4. (FlushOK /\ TotalOK /\ PushedOK /\ FinishedOK)'
    BY <1>5 DEF FlushOK, TotalOK, PushedOK, FinishedOK
  <2> QED
    BY <2>1, <2>2, <2>3, <2>4 DEF IInv
<1>6. CASE /\ fail' = ~arrived /\ pc' = "finish" /\ ~(content # Empty /\ Internal(b))
           /\ tree' = [tree EXCEPT ![cur].blocks = Append(@, content)]
           /\ UNCHANGED <<assertsOn, fileLen, cur, locals>>
  <2> DEFINE t == [tree[cur] EXCEPT !.blocks = Append(@, content)]
  <2>1. tree' = [tree EXCEPT ![cur] = t]
    BY <1>6
  <2>2. content \in Content
    BY DecodedIsContent
  <2>3. tree[cur].blocks = <<>> /\ t.blocks = <<content>>
    <3>1. tree[cur].blocks = <<>>
      BY <1>1 DEF Resting
    <3>2. t.blocks = Append(<<>>, content)
      BY <1>1, <3>1 DEF Tree
    <3> QED
      BY <3>1, <3>2
  <2>4. t \in Tree /\ t.made /\ ~t.setup /\ t.root = b
    <3>1. Append(tree[cur].blocks, content) \in Seq(Content)
      BY <1>1, <2>2, AppendProperties DEF Tree
    <3> QED
      BY <1>1, <3>1 DEF Tree
  <2>5. tree'[cur] = t /\ \A h \in Handle : h # cur => tree'[h] = tree[h]
    BY <1>1, <2>1 DEF IInv, TypeOK
  <2>6. TypeOK'
    BY <1>2, <1>6, <2>1, <2>4 DEF IInv, TypeOK, PC, locals
  <2>7. RestingOK'
    BY <1>1, <1>2, <1>6, <2>5, OthersRest
  <2>8. ControlOK'
    BY <1>1, <1>6, <2>4, <2>5 DEF ControlOK
  <2>9. FinishedOK'
    <3> SUFFICES ASSUME ~fail' PROVE t.blocks = DataOf(b)
      BY <1>6, <2>4, <2>5 DEF FinishedOK
    <3>1. content = b
      BY <1>2, <1>3, <1>6
    <3>2. Kind[b] = "data"
      BY <1>1, <1>6, <3>1, ParameterAssumption DEF Internal
    <3> QED
      BY <1>1, <2>3, <3>1, <3>2, DataOfCases
  <2>10. (CollectOK /\ FlushOK /\ TotalOK /\ PushedOK)'
    BY <1>6 DEF CollectOK, FlushOK, TotalOK, PushedOK
  <2> QED
    BY <2>6, <2>7, <2>8, <2>9, <2>10 DEF IInv
<1> QED
  BY <1>4, <1>5, <1>6 DEF ReadFirstBlock

LEMMA CollectEntriesStep ==
  ASSUME IInv, CollectEntries
  PROVE  IInv'
<1> DEFINE listed  == Rgbid[tree[cur].root]
           found   == IF tree[cur].getBBT THEN InBBT ELSE {}
           missing == {i \in DOMAIN listed : listed[i] \notin found}
<1>1. /\ pc = "collect" /\ cur \in Handle /\ tree[cur] \in Tree
      /\ tree[cur].made /\ ~tree[cur].setup /\ tree[cur].root \in Bid
      /\ tree[cur].blocks = <<>> /\ Internal(tree[cur].root)
      /\ tree[cur].bbts # <<>> => Lacks(tree[cur].root)
  BY DEF CollectEntries, IInv, ControlOK, CollectOK, TypeOK
<1>2. listed \in Seq(Bid) /\ DOMAIN listed = 1..Len(listed) /\ Len(listed) \in Nat
  BY <1>1, ImageAssumption
<1>3. tree[cur].bbts \in Seq(Bid)
  BY <1>1 DEF Tree
<1>4. CASE /\ missing = {} /\ pc' = "flush"
           /\ tree' = [tree EXCEPT ![cur].bbts = @ \o listed]
           /\ UNCHANGED <<assertsOn, fileLen, fail, cur, locals>>
  <2>1. ~Lacks(tree[cur].root)
    BY <1>4 DEF Lacks
  <2>2. tree[cur].bbts \o listed = listed
    BY <1>1, <1>2, <2>1, ConcatEmptySeq
  <2> DEFINE t == [tree[cur] EXCEPT !.bbts = listed]
  <2>3. tree' = [tree EXCEPT ![cur] = t]
    BY <1>4, <2>2
  <2>4. t \in Tree /\ t.made /\ ~t.setup /\ t.root = tree[cur].root
        /\ t.bbts = listed /\ t.blocks = <<>>
    BY <1>1, <1>2 DEF Tree
  <2>5. tree'[cur] = t /\ \A h \in Handle : h # cur => tree'[h] = tree[h]
    BY <1>1, <2>3 DEF IInv, TypeOK
  <2>6. TypeOK'
    BY <1>4, <2>3, <2>4 DEF IInv, TypeOK, PC, locals
  <2>7. RestingOK'
    BY <1>1, <1>4, <2>5, OthersRest
  <2>8. ControlOK' /\ FlushOK'
    BY <1>1, <1>4, <2>4, <2>5 DEF ControlOK, FlushOK
  <2>9. (CollectOK /\ TotalOK /\ PushedOK /\ FinishedOK)'
    BY <1>4 DEF CollectOK, TotalOK, PushedOK, FinishedOK
  <2> QED
    BY <2>6, <2>7, <2>8, <2>9 DEF IInv
<1>5. ASSUME NEW first \in missing, \A i \in missing : first <= i,
             tree' = [tree EXCEPT ![cur].bbts = @ \o SubSeq(listed, 1, first - 1)],
             pc' = "idle", cur' = None, UNCHANGED <<assertsOn, fileLen, fail, locals>>
      PROVE  IInv'
  <2> DEFINE kept == tree[cur].bbts \o SubSeq(listed, 1, first - 1)
             t == [tree[cur] EXCEPT !.bbts = kept]
  <2>1. first \in 1..Len(listed) /\ listed[first] \notin found
    BY <1>2
  <2>2. SubSeq(listed, 1, first - 1) \in Seq(Bid)
    <3>1. \A i \in 1..(first - 1) : listed[i] \in Bid
      BY <1>2, <2>1
    <3> QED
      BY <1>2, <2>1, <3>1, SubSeqProperties
  <2>3. kept \in Seq(Bid)
    BY <1>3, <2>2, ConcatProperties
  <2>4. kept # <<>> => Lacks(tree[cur].root)
    <3>1. CASE tree[cur].getBBT
      BY <1>2, <2>1, <3>1 DEF Lacks
    <3>2. CASE ~tree[cur].getBBT
      <4>1. 1 \in missing
        BY <1>2, <2>1, <3>2
      <4>2. first = 1
        BY <1>5, <4>1, <2>1
      <4>3. SubSeq(listed, 1, first - 1) = <<>>
        BY <4>2, SubSeqEmpty
      <4>4. kept = tree[cur].bbts
        BY <1>3, <4>3, ConcatEmptySeq
      <4> QED
        BY <1>1, <4>4
    <3> QED
      BY <3>1, <3>2
  <2>5. tree' = [tree EXCEPT ![cur] = t]
    BY <1>5
  <2> HIDE DEF kept
  <2>6. t \in Tree /\ t.made /\ ~t.setup /\ t.root = tree[cur].root
        /\ t.bbts = kept /\ t.blocks = <<>>
    BY <1>1, <2>3 DEF Tree
  <2>7. Resting(t)
    BY <1>1, <2>4, <2>6 DEF Resting
  <2>8. TypeOK'
    BY <1>5, <2>5, <2>6 DEF IInv, TypeOK, PC, locals
  <2>9. \A h \in Handle : Resting(tree'[h])
    BY <1>1, <2>5, <2>7 DEF IInv, TypeOK, RestingOK
  <2>10. RestingOK'
    BY <1>5, <2>9 DEF RestingOK, Resting
  <2>11. (ControlOK /\ CollectOK /\ FlushOK /\ TotalOK /\ PushedOK /\ FinishedOK)'
    BY <1>5 DEF ControlOK, CollectOK, FlushOK, TotalOK, PushedOK, FinishedOK
  <2> QED
    BY <2>8, <2>10, <2>11 DEF IInv
<1> QED
  BY <1>4, <1>5 DEF CollectEntries

LEMMA FlushNothingStep ==
  ASSUME IInv, FlushNothing
  PROVE  IInv'
<1>1. /\ pc = "flush" /\ pc' = "finish" /\ tree[cur].bbts = <<>>
      /\ UNCHANGED <<assertsOn, tree, fileLen, fail, cur, at, bufEnd, next>>
  BY DEF FlushNothing, locals
<1>2. TypeOK'
  BY <1>1 DEF IInv, TypeOK, PC
<1>3. RestingOK'
  BY <1>1, OthersRest
<1>4. ControlOK'
  BY <1>1 DEF IInv, ControlOK
<1>5. FinishedOK'
  <2> SUFFICES ASSUME Kind[tree[cur].root] # "xx"
               PROVE  tree[cur].blocks = DataOf(tree[cur].root)
    BY <1>1 DEF FinishedOK
  <2>1. tree[cur].root \in Bid /\ Internal(tree[cur].root)
        /\ tree[cur].blocks = <<>> /\ Rgbid[tree[cur].root] = <<>>
    BY <1>1 DEF IInv, ControlOK, FlushOK
  <2>2. Kind[tree[cur].root] = "x"
    BY <2>1, ImageAssumption DEF Internal
  <2> QED
    BY <2>1, <2>2, DataOfCases
<1>6. (CollectOK /\ FlushOK /\ TotalOK /\ PushedOK)'
  BY <1>1 DEF CollectOK, FlushOK, TotalOK, PushedOK
<1> QED
  BY <1>2, <1>3, <1>4, <1>5, <1>6 DEF IInv

\* The entries of the tree being flushed.
LEMMA EntriesTyped ==
  ASSUME IInv, pc \in {"flush", "total", "readAll", "split", "each"}
  PROVE  /\ cur \in Handle /\ tree[cur] \in Tree /\ tree[cur].bbts \in Seq(Bid)
         /\ Len(tree[cur].bbts) \in Nat
         /\ \A i \in 1..Len(tree[cur].bbts) : tree[cur].bbts[i] \in Bid
  BY DEF IInv, ControlOK, TypeOK, Tree

LEMMA FlushStartStep ==
  ASSUME IInv, FlushContiguous \/ FlushScattered
  PROVE  IInv'
<1> DEFINE entries == tree[cur].bbts
<1>1. /\ pc = "flush" /\ entries # <<>> /\ next' = 1
      /\ UNCHANGED <<assertsOn, tree, fileLen, fail, cur, bufEnd>>
      /\ \/ pc' = "total" /\ StoredContiguously(entries) /\ at' = Ib[entries[1]]
         \/ pc' = "each" /\ at' = at
  BY DEF FlushContiguous, FlushScattered
<1>2. 1 \in 1..Len(entries)
  BY <1>1, EntriesTyped, EmptySeq
<1>3. TypeOK'
  BY <1>1, <1>2, EntriesTyped, EndIsNat DEF IInv, TypeOK, PC
<1>4. RestingOK'
  BY <1>1, OthersRest
<1>5. ControlOK' /\ FlushOK'
  BY <1>1, <1>2 DEF IInv, ControlOK, FlushOK
<1>6. TotalOK'
  BY <1>1 DEF TotalOK
<1>7. PushedOK'
  BY <1>1 DEF IInv, FlushOK, PushedOK
<1>8. (CollectOK /\ FinishedOK)'
  BY <1>1 DEF CollectOK, FinishedOK
<1> QED
  BY <1>3, <1>4, <1>5, <1>6, <1>7, <1>8 DEF IInv

LEMMA AddBlockSizeStep ==
  ASSUME IInv, AddBlockSize
  PROVE  IInv'
<1> DEFINE entries == tree[cur].bbts
<1>1. /\ pc = "total" /\ UNCHANGED <<assertsOn, tree, fileLen, fail, cur, bufEnd>>
      /\ at' = at + AlignedSize(Cb[entries[next]]) /\ next' = next + 1
      /\ pc' = IF next = Len(entries) THEN "readAll" ELSE "total"
  BY DEF AddBlockSize
<1>2. /\ next \in 1..Len(entries) /\ Len(entries) \in Nat
      /\ \A i \in 1..Len(entries) : entries[i] \in Bid
      /\ entries # <<>> /\ StoredContiguously(entries)
      /\ at = Ib[entries[next]] /\ at \in Nat
      /\ \A i \in 1..(next - 1) : End(entries[i]) <= at
  BY <1>1, EntriesTyped DEF IInv, FlushOK, TotalOK, TypeOK
<1>3. \A i \in 1..Len(entries) :
         End(entries[i]) \in Nat /\ AlignedSize(Cb[entries[i]]) \in Nat
  BY <1>2, EndIsNat
<1>4. at' = End(entries[next]) /\ at' \in Nat /\ at <= at'
  BY <1>1, <1>2, <1>3 DEF End
<1>5. \A i \in 1..next : End(entries[i]) <= at'
  <2> SUFFICES ASSUME NEW i \in 1..next PROVE End(entries[i]) <= at'
    OBVIOUS
  <2>1. CASE i = next
    BY <1>2, <1>3, <1>4, <2>1
  <2>2. CASE i # next
    <3>1. i \in 1..(next - 1) /\ i \in 1..Len(entries)
      BY <1>2, <2>2
    <3>2. End(entries[i]) <= at /\ End(entries[i]) \in Nat
      BY <1>2, <1>3, <3>1
    <3> QED
      BY <1>2, <1>4, <3>2
  <2> QED
    BY <2>1, <2>2
<1>6. TypeOK'
  BY <1>1, <1>2, <1>4 DEF IInv, TypeOK, PC
<1>7. RestingOK'
  BY <1>1, OthersRest
<1>8. ControlOK' /\ FlushOK'
  BY <1>1, <1>2 DEF IInv, ControlOK, FlushOK
<1>9. TotalOK'
  <2>1. CASE next = Len(entries)
    BY <1>1, <1>2, <1>5, <2>1 DEF TotalOK
  <2>2. CASE next # Len(entries)
    <3>1. next + 1 \in 2..Len(entries)
      BY <1>2, <2>2
    <3>2. Ib[entries[next + 1]] = End(entries[next])
      BY <1>2, <3>1 DEF StoredContiguously
    <3> QED
      BY <1>1, <1>2, <1>4, <1>5, <2>2, <3>2 DEF TotalOK
  <2> QED
    BY <2>1, <2>2
<1>10. (CollectOK /\ PushedOK /\ FinishedOK)'
  BY <1>1 DEF CollectOK, PushedOK, FinishedOK
<1> QED
  BY <1>6, <1>7, <1>8, <1>9, <1>10 DEF IInv

LEMMA ReadContiguousStep ==
  ASSUME IInv, ReadContiguous
  PROVE  IInv'
<1> DEFINE entries == tree[cur].bbts
           from == Ib[entries[1]]
<1>1. pc = "readAll"
  BY DEF ReadContiguous
<1>2. CASE Abort
  BY <1>1, <1>2, AbortStep
<1>3. CASE /\ fail' = ~Arrives(from, at - from)
           /\ bufEnd' = IF fail THEN 0 ELSE IF fileLen < at THEN fileLen ELSE at
           /\ at' = from /\ next' = 1 /\ pc' = "split"
           /\ UNCHANGED <<assertsOn, tree, fileLen, cur>>
  <2>1. /\ Len(entries) \in Nat /\ at \in Nat /\ fileLen \in Nat
        /\ \A i \in 1..Len(entries) : entries[i] \in Bid /\ End(entries[i]) <= at
        /\ entries # <<>> /\ entries \in Seq(Bid) /\ StoredContiguously(entries)
        /\ tree[cur].blocks = <<>> /\ fail \in BOOLEAN
    BY <1>1, EntriesTyped DEF IInv, FlushOK, TotalOK, TypeOK
  <2>2. 1 \in 1..Len(entries) /\ from \in Nat
    <3>1. 1 \in 1..Len(entries)
      BY <2>1, EmptySeq
    <3> QED
      BY <2>1, <3>1, EndIsNat
  <2>3. ~fail' => ~fail /\ at <= fileLen
    <3> SUFFICES ASSUME ~fail' PROVE ~fail /\ at <= fileLen
      OBVIOUS
    <3>1. ~fail /\ from + (at - from) <= fileLen
      BY <1>3 DEF Arrives
    <3> QED
      BY <2>1, <2>2, <3>1
  <2>4. TypeOK'
    <3>1. fail' \in BOOLEAN
      BY <1>3 DEF Arrives
    <3> QED
      BY <1>3, <2>1, <2>2, <3>1 DEF IInv, TypeOK, PC
  <2>5. RestingOK'
    BY <1>1, <1>3, <2>3, OthersRest
  <2>6. ControlOK' /\ FlushOK'
    BY <1>1, <1>3, <2>2 DEF IInv, ControlOK, FlushOK
  <2>7. TotalOK'
    <3>1. ~fail' => bufEnd' = at
      BY <1>3, <2>1, <2>3
    <3> QED
      BY <1>3, <2>1, <3>1 DEF TotalOK
  <2>8. PushedOK'
    BY <1>3, <2>1 DEF PushedOK
  <2>9. (CollectOK /\ FinishedOK)'
    BY <1>3 DEF CollectOK, FinishedOK
  <2> QED
    BY <2>4, <2>5, <2>6, <2>7, <2>8, <2>9 DEF IInv
<1> QED
  BY <1>2, <1>3 DEF ReadContiguous

\* What SplitNext and ReadNext have in common: a block is pushed that is right
\* unless a read has failed.
LEMMA PushStep ==
  ASSUME IInv, pc \in {"split", "each"}, NEW content \in Content,
         Push(tree[cur].bbts[next], content, pc),
         cur' = cur, fileLen' = fileLen, bufEnd' = bufEnd,
         assertsOn' = assertsOn, fail' \in BOOLEAN, fail => fail',
         ~fail' => content = tree[cur].bbts[next],
         \/ pc = "split" /\ at' = at + AlignedSize(Cb[tree[cur].bbts[next]])
         \/ pc = "each" /\ at' = at
  PROVE  IInv'
<1> DEFINE entries == tree[cur].bbts
           blocks  == tree[cur].blocks
           pushed  == Append(blocks, content)
           t == [tree[cur] EXCEPT !.blocks = pushed]
<1>1. /\ tree' = [tree EXCEPT ![cur] = t] /\ next' = next + 1
      /\ pc' = IF next = Len(entries) THEN "finish" ELSE pc
  BY DEF Push
<1>2. /\ cur \in Handle /\ tree[cur] \in Tree /\ entries \in Seq(Bid)
      /\ Len(entries) \in Nat /\ next \in 1..Len(entries)
      /\ \A i \in 1..Len(entries) : entries[i] \in Bid
      /\ tree[cur].made /\ ~tree[cur].setup /\ tree[cur].root \in Bid
      /\ Internal(tree[cur].root) /\ entries = Rgbid[tree[cur].root]
      /\ Len(blocks) = next - 1 /\ blocks \in Seq(Content)
      /\ ~fail => \A i \in 1..(next - 1) : blocks[i] = entries[i]
  BY EntriesTyped DEF IInv, ControlOK, FlushOK, PushedOK, Tree
<1>3. /\ pushed \in Seq(Content) /\ Len(pushed) = next
      /\ ~fail' => \A i \in 1..next : pushed[i] = entries[i]
  BY <1>2, AppendProperties
<1> HIDE DEF pushed
<1>4. t \in Tree /\ t.made /\ ~t.setup /\ t.root = tree[cur].root
      /\ t.bbts = entries /\ t.blocks = pushed
  BY <1>2, <1>3 DEF Tree
<1>5. tree'[cur] = t /\ \A h \in Handle : h # cur => tree'[h] = tree[h]
  BY <1>1, <1>2 DEF IInv, TypeOK
<1>6. at' \in Nat /\ AlignedSize(Cb[entries[next]]) \in Nat
  <2>1. AlignedSize(Cb[entries[next]]) \in Nat
    BY <1>2, EndIsNat
  <2>2. at \in Nat
    BY DEF IInv, TypeOK
  <2> QED
    BY <2>1, <2>2
<1>7. TypeOK'
  <2>1. tree' \in [Handle -> Tree]
    BY <1>1, <1>4 DEF IInv, TypeOK
  <2>2. pc' \in PC /\ next' \in Nat
    BY <1>1, <1>2 DEF PC
  <2> QED
    BY <1>6, <2>1, <2>2 DEF IInv, TypeOK
<1>8. RestingOK'
  BY <1>1, <1>5, OthersRest
<1>9. ControlOK' /\ FlushOK'
  BY <1>1, <1>2, <1>4, <1>5 DEF ControlOK, FlushOK
<1>10. TotalOK'
  <2>1. CASE pc' = "split"
    <3>1. pc = "split" /\ next + 1 \in 2..Len(entries)
      BY <1>1, <1>2, <2>1
    <3>2. /\ entries # <<>> /\ StoredContiguously(entries) /\ at = Ib[entries[next]]
          /\ ~fail => \A i \in 1..Len(entries) : End(entries[i]) <= bufEnd
      BY <3>1 DEF IInv, TotalOK
    <3>3. Ib[entries[next + 1]] = End(entries[(next + 1) - 1])
      BY <3>1, <3>2 DEF StoredContiguously
    <3>4. (next + 1) - 1 = next
      BY <1>2
    <3>5. at' = Ib[entries[next + 1]]
      BY <3>1, <3>2, <3>3, <3>4 DEF End
    <3> QED
      BY <1>1, <1>4, <1>5, <2>1, <3>2, <3>5 DEF TotalOK
  <2>2. CASE pc' # "split"
    BY <1>1, <2>2 DEF TotalOK
  <2> QED
    BY <2>1, <2>2
<1>11. PushedOK'
  <2>1. next' - 1 = next
    BY <1>1, <1>2
  <2> QED
    BY <1>3, <1>4, <1>5, <2>1 DEF PushedOK
<1>12. FinishedOK'
  <2> SUFFICES ASSUME pc' = "finish", ~fail', Kind[tree[cur].root] # "xx"
               PROVE  pushed = DataOf(tree[cur].root)
    BY <1>4, <1>5 DEF FinishedOK
  <2>1. next = Len(entries)
    BY <1>1
  <2>2. Kind[tree[cur].root] = "x"
    BY <1>2, ImageAssumption DEF Internal
  <2>3. entries \in Seq(Content)
    BY <1>2, SeqMonotonic DEF Content
  <2>4. pushed = entries
    BY <1>3, <2>1, <2>3, SeqEqual
  <2> QED
    BY <1>2, <2>2, <2>4, DataOfCases
<1>13. CollectOK'
  BY <1>1 DEF CollectOK
<1> QED
  BY <1>7, <1>8, <1>9, <1>10, <1>11, <1>12, <1>13 DEF IInv

LEMMA SplitNextStep ==
  ASSUME IInv, SplitNext
  PROVE  IInv'
<1> DEFINE b       == tree[cur].bbts[next]
           size    == AlignedSize(Cb[b])
           content == Decoded(at, size, at + size <= bufEnd)
<1>1. pc = "split" /\ next \in 1..Len(tree[cur].bbts) /\ b \in Bid
  BY EntriesTyped DEF SplitNext, IInv, FlushOK
<1>2. CASE Abort
  BY <1>1, <1>2, AbortStep
<1>3. CASE /\ Push(b, content, "split") /\ at' = at + size
           /\ UNCHANGED <<assertsOn, fileLen, fail, cur, bufEnd>>
  <2>1. content \in Content
    BY DecodedIsContent
  <2>2. ~fail => content = b
    <3> SUFFICES ASSUME ~fail PROVE content = b
      OBVIOUS
    <3>1. at = Ib[b] /\ End(b) <= bufEnd
      BY <1>1 DEF IInv, TotalOK
    <3>2. (at + size <= bufEnd) = TRUE
      BY <3>1 DEF End
    <3> QED
      BY <1>1, <3>1, <3>2, DecodedWhole
  <2>3. fail' \in BOOLEAN
    BY <1>3 DEF IInv, TypeOK
  <2> HIDE DEF content
  <2> QED
    BY <1>1, <1>3, <2>1, <2>2, <2>3, PushStep
<1> QED
  BY <1>2, <1>3 DEF SplitNext

LEMMA ReadNextStep ==
  ASSUME IInv, ReadNext
  PROVE  IInv'
<1> DEFINE b       == tree[cur].bbts[next]
           size    == AlignedSize(Cb[b])
           arrived == Arrives(Ib[b], size)
           content == Decoded(Ib[b], size, arrived)
<1>1. pc = "each" /\ next \in 1..Len(tree[cur].bbts) /\ b \in Bid
  BY EntriesTyped DEF ReadNext, IInv, FlushOK
<1>2. CASE Abort
  BY <1>1, <1>2, AbortStep
<1>3. CASE /\ Push(b, content, "each") /\ fail' = ~arrived
           /\ UNCHANGED <<assertsOn, fileLen, cur, at, bufEnd>>
  <2>1. content \in Content
    BY DecodedIsContent
  <2>2. arrived \in BOOLEAN /\ (arrived => ~fail)
    BY DEF Arrives
  <2>3. ~fail' => content = b
    BY <1>1, <1>3, <2>2, DecodedWhole
  <2>4. fail' \in BOOLEAN /\ (fail => fail')
    BY <1>3, <2>2
  <2> HIDE DEF content, arrived
  <2> QED
    BY <1>1, <1>3, <2>1, <2>3, <2>4, PushStep
<1> QED
  BY <1>2, <1>3 DEF ReadNext

LEMMA FinishLoadStep ==
  ASSUME IInv, FinishLoad
  PROVE  IInv'
<1> DEFINE t == [tree[cur] EXCEPT !.setup = TRUE]
<1>1. /\ pc = "finish" /\ tree' = [tree EXCEPT ![cur] = t]
      /\ pc' = "idle" /\ cur' = None /\ UNCHANGED <<assertsOn, fileLen, fail>>
      /\ at' = 0 /\ bufEnd' = 0 /\ next' = 0
  BY DEF FinishLoad
<1>2. /\ cur \in Handle /\ tree[cur] \in Tree
      /\ tree[cur].made /\ tree[cur].root \in Bid
      /\ (~fail /\ Kind[tree[cur].root] # "xx")
            => tree[cur].blocks = DataOf(tree[cur].root)
  BY <1>1 DEF IInv, ControlOK, FinishedOK, TypeOK
<1>3. t \in Tree /\ t.made /\ t.setup /\ t.root = tree[cur].root
      /\ t.blocks = tree[cur].blocks
  BY <1>2 DEF Tree
<1>4. Resting(t)
  BY <1>2, <1>3 DEF Resting
<1>5. \A h \in Handle : Resting(tree'[h])
  BY <1>1, <1>2, <1>4 DEF IInv, TypeOK, RestingOK
<1>6. RestingOK'
  BY <1>1, <1>5 DEF RestingOK, Resting
<1>7. TypeOK'
  BY <1>1, <1>3 DEF IInv, TypeOK, PC
<1>8. (ControlOK /\ CollectOK /\ FlushOK /\ TotalOK /\ PushedOK /\ FinishedOK)'
  BY <1>1 DEF ControlOK, CollectOK, FlushOK, TotalOK, PushedOK, FinishedOK
<1> QED
  BY <1>6, <1>7, <1>8 DEF IInv

\* Cutting the file disturbs nothing that is already read.
LEMMA TruncateStep ==
  ASSUME IInv, NEW b \in Bid, Truncate(b)
  PROVE  IInv'
<1>1. fileLen' \in Nat /\ UNCHANGED <<assertsOn, tree, fail, pc, cur, at, bufEnd, next>>
  BY EndIsNat DEF Truncate, locals
<1> QED
  BY <1>1 DEF IInv, TypeOK, RestingOK, Resting, ControlOK, CollectOK, FlushOK,
              TotalOK, PushedOK, FinishedOK

LEMMA StutterStep ==
  ASSUME IInv, UNCHANGED vars
  PROVE  IInv'
  BY DEF vars, IInv, TypeOK, RestingOK, Resting, ControlOK, CollectOK, FlushOK,
         TotalOK, PushedOK, FinishedOK

-----------------------------------------------------------------------------
(* The theorems. *)

LEMMA NextIInv == IInv /\ [Next]_vars => IInv'
<1> SUFFICES ASSUME IInv, [Next]_vars PROVE IInv'
  OBVIOUS
<1>1. CASE \E h \in Handle, b \in Bid : InitDataTree(h, b)
  BY <1>1, InitDataTreeStep
<1>2. CASE \E g, h \in Handle : Copy(g, h) \/ Move(g, h)
  BY <1>2, CopyStep, MoveStep
<1>3. CASE \E h \in Handle : TakeFirstBlock(h) \/ StartLoad(h)
  BY <1>3, TakeFirstBlockStep, StartLoadStep
<1>4. CASE LoadStep
  BY <1>4, ReadFirstBlockStep, CollectEntriesStep, FlushNothingStep, FlushStartStep,
     AddBlockSizeStep, ReadContiguousStep, SplitNextStep, ReadNextStep,
     FinishLoadStep DEF LoadStep
<1>5. CASE \E b \in Bid : Truncate(b)
  BY <1>5, TruncateStep
<1>6. CASE UNCHANGED vars
  BY <1>6, StutterStep
<1> QED
  BY <1>1, <1>2, <1>3, <1>4, <1>5, <1>6 DEF Next

\* The variables keep their types, for every image and in both builds.
THEOREM TypeCorrect == Spec => []TypeOK
<1>1. IInv => TypeOK
  BY DEF IInv
<1> QED
  BY <1>1, InitIInv, NextIInv, PTL DEF Spec

\* As long as no read has failed, whatever load() set up is exactly the node's
\* data: contiguous or scattered, after copies, moves, failed loads and retries.
THEOREM LoadedData == Spec => []LoadedIsImage
  BY InitIInv, NextIInv, IInvImpliesLoadedIsImage, PTL DEF Spec

-----------------------------------------------------------------------------
(* The two builds: with assertions no short read gets into a tree, a file that *)
(* nobody cut trips no assertion, and a loaded tree is not loaded again in     *)
(* either build.  All rest on IInv.                                            *)

-----------------------------------------------------------------------------
(* Loading again. *)

\* What a step of load() leaves of the objects as it was.
LEMMA LoadFrame ==
  ASSUME IInv, LoadStep, NEW h \in Handle
  PROVE  /\ h # cur => tree'[h] = tree[h]
         /\ tree'[h].made = tree[h].made /\ tree'[h].root = tree[h].root
         /\ tree'[h].taken = tree[h].taken
         /\ FinishLoad \/ tree'[h].setup = tree[h].setup
<1>1. tree \in [Handle -> Tree]
  BY DEF IInv, TypeOK
<1>2. \/ tree' = tree
      \/ \E x : tree' = [tree EXCEPT ![cur].blocks = x]
      \/ \E x : tree' = [tree EXCEPT ![cur].bbts = x]
      \/ FinishLoad
  <2>1. CASE ReadFirstBlock
    BY <2>1 DEF ReadFirstBlock, Abort
  <2>2. CASE CollectEntries
    BY <2>2 DEF CollectEntries
  <2>3. CASE SplitNext
    BY <2>3 DEF SplitNext, Abort, Push
  <2>4. CASE ReadNext
    BY <2>4 DEF ReadNext, Abort, Push
  <2>5. CASE FlushNothing \/ FlushContiguous \/ FlushScattered \/ AddBlockSize
               \/ ReadContiguous
    BY <2>5 DEF FlushNothing, FlushContiguous, FlushScattered, AddBlockSize,
                ReadContiguous, Abort
  <2> QED
    BY <2>1, <2>2, <2>3, <2>4, <2>5 DEF LoadStep
<1>3. CASE tree' = tree
  BY <1>3
<1>4. CASE \E x : tree' = [tree EXCEPT ![cur].blocks = x]
  BY <1>1, <1>4 DEF Tree
<1>5. CASE \E x : tree' = [tree EXCEPT ![cur].bbts = x]
  BY <1>1, <1>5 DEF Tree
<1>6. CASE FinishLoad
  BY <1>1, <1>6 DEF FinishLoad, Tree
<1> QED
  BY <1>2, <1>3, <1>4, <1>5, <1>6

\* Only the thread inside load() takes its steps.
LEMMA LoadStepInside ==
  ASSUME LoadStep
  PROVE  pc # "idle"
  BY DEF LoadStep, ReadFirstBlock, CollectEntries, FlushNothing, FlushContiguous,
         FlushScattered, AddBlockSize, ReadContiguous, SplitNext, ReadNext, FinishLoad

LEMMA SetUpKept ==
  ASSUME IInv, [Next]_vars, pc' \notin {"idle", "aborted"},
         NEW h \in Handle, tree[h].setup
  PROVE  tree'[h] = tree[h]
<1>1. CASE \E g \in Handle, b \in Bid : InitDataTree(g, b)
  BY <1>1 DEF InitDataTree
<1>2. CASE \E f, g \in Handle : Copy(f, g) \/ Move(f, g)
  BY <1>2 DEF Copy, Move
<1>3. CASE \E g \in Handle : TakeFirstBlock(g) \/ StartLoad(g)
  BY <1>3 DEF TakeFirstBlock, StartLoad
<1>4. CASE LoadStep
  <2>1. h # cur
    BY <1>4, LoadStepInside DEF IInv, ControlOK
  <2> QED
    BY <1>4, <2>1, LoadFrame
<1>5. CASE \E b \in Bid : Truncate(b)
  BY <1>5 DEF Truncate
<1>6. CASE UNCHANGED vars
  BY <1>6 DEF vars
<1> QED
  BY <1>1, <1>2, <1>3, <1>4, <1>5, <1>6 DEF Next

\* load() returns at once on a tree that is set up, for any image and any number of
\* objects: nothing inside a load touches a tree whose flag is set (DataTree::load).
THEOREM LoadedAgain == Spec => LoadingAgainAddsNothing
<1>1. IInv /\ [Next]_vars =>
        [\A h \in Handle : (tree[h].setup /\ pc' \notin {"idle", "aborted"})
                              => tree'[h] = tree[h]]_vars
  BY SetUpKept
<1> QED
  BY <1>1, InitIInv, NextIInv, PTL DEF Spec, LoadingAgainAddsNothing

-----------------------------------------------------------------------------
(* On a file that nobody cut. *)

\* No read has failed, because what is read at once ends in the file; and an assertion
\* that failed was one of an XXBLOCK.
IntactOK ==
  /\ fileLen <= FileSize
  /\ pc = "readAll" => at <= FileSize
  /\ fileLen = FileSize => /\ ~fail
                           /\ pc = "aborted" => Kind[tree[cur].root] = "xx"

\* Every block arrives as itself while the file is whole and the stream is good.
LEMMA ArrivesWhole ==
  ASSUME NEW b \in Bid, fileLen = FileSize, ~fail
  PROVE  /\ Arrives(Ib[b], AlignedSize(Cb[b]))
         /\ Decoded(Ib[b], AlignedSize(Cb[b]), Arrives(Ib[b], AlignedSize(Cb[b]))) = b
<1>1. Ib[b] + AlignedSize(Cb[b]) <= FileSize
  BY ParameterAssumption DEF End
<1>2. Arrives(Ib[b], AlignedSize(Cb[b])) = TRUE
  BY <1>1 DEF Arrives
<1> QED
  BY <1>2, DecodedWhole

\* What an XBLOCK lists are data blocks.
LEMMA EntryIsData ==
  ASSUME IInv, pc \in {"split", "each"}, Kind[tree[cur].root] # "xx"
  PROVE  ~Internal(tree[cur].bbts[next])
<1>1. /\ tree[cur].root \in Bid /\ Internal(tree[cur].root)
      /\ tree[cur].bbts = Rgbid[tree[cur].root] /\ next \in 1..Len(tree[cur].bbts)
  BY DEF IInv, ControlOK, FlushOK
<1>2. Kind[tree[cur].root] = "x" /\ Rgbid[tree[cur].root] \in Seq(Bid)
  BY <1>1, ImageAssumption DEF Internal
<1>3. next \in DOMAIN Rgbid[tree[cur].root]
  BY <1>1, <1>2
<1> QED
  BY <1>1, <1>2, <1>3, ImageAssumption DEF Internal

LEMMA InitIntact == Init => IntactOK
  BY ParameterAssumption DEF Init, IntactOK

LEMMA ReadFirstIntact ==
  ASSUME IInv, IntactOK, ReadFirstBlock
  PROVE  IntactOK'
<1>1. pc = "first" /\ tree[cur].root \in Bid /\ fileLen' = fileLen
  BY DEF ReadFirstBlock, Abort, IInv, ControlOK
<1>2. fileLen = FileSize =>
        /\ Arrives(Ib[tree[cur].root], AlignedSize(Cb[tree[cur].root]))
        /\ Decoded(Ib[tree[cur].root], AlignedSize(Cb[tree[cur].root]),
                   Arrives(Ib[tree[cur].root], AlignedSize(Cb[tree[cur].root]))) = tree[cur].root
  BY <1>1, ArrivesWhole DEF IntactOK
<1>3. CASE Abort
  <2>1. fileLen = FileSize => Kind[tree[cur].root] = "xx" \/ pc' # "aborted"
    BY <1>1, <1>2, <1>3 DEF ReadFirstBlock, IntactOK
  <2> QED
    BY <1>1, <1>3, <2>1 DEF Abort, IntactOK
<1>4. CASE ~Abort
  BY <1>1, <1>2, <1>4 DEF ReadFirstBlock, IntactOK
<1> QED
  BY <1>3, <1>4

LEMMA AddSizeIntact ==
  ASSUME IInv, IntactOK, AddBlockSize
  PROVE  IntactOK'
<1> DEFINE b == tree[cur].bbts[next]
<1>1. /\ pc = "total" /\ UNCHANGED <<assertsOn, tree, fileLen, fail, cur, bufEnd>>
      /\ at' = at + AlignedSize(Cb[b]) /\ pc' \in {"readAll", "total"}
  BY DEF AddBlockSize
<1>2. b \in Bid /\ at = Ib[b]
  BY <1>1, EntriesTyped DEF IInv, FlushOK, TotalOK
<1>3. at' <= FileSize
  BY <1>1, <1>2, ParameterAssumption DEF End
<1> QED
  BY <1>1, <1>3 DEF IntactOK

LEMMA ReadAllIntact ==
  ASSUME IInv, IntactOK, ReadContiguous
  PROVE  IntactOK'
<1> DEFINE from == Ib[tree[cur].bbts[1]]
<1>1. pc = "readAll" /\ fileLen' = fileLen
  BY DEF ReadContiguous, Abort
<1>2. CASE Abort
  BY <1>1, <1>2 DEF ReadContiguous, Abort, IntactOK
<1>3. CASE fail' = ~Arrives(from, at - from) /\ pc' = "split"
  <2>1. from \in Nat /\ at \in Nat
    <3>1. 1 \in 1..Len(tree[cur].bbts)
      BY <1>1, EntriesTyped, EmptySeq DEF IInv, TotalOK
    <3> QED
      BY <1>1, <3>1, EntriesTyped, EndIsNat DEF IInv, TypeOK
  <2>2. from + (at - from) = at
    BY <2>1
  <2>3. fileLen = FileSize => ~fail'
    BY <1>1, <1>3, <2>2 DEF Arrives, IntactOK
  <2> QED
    BY <1>1, <1>3, <2>3 DEF IntactOK
<1> QED
  BY <1>2, <1>3 DEF ReadContiguous

LEMMA SplitIntact ==
  ASSUME IInv, IntactOK, SplitNext
  PROVE  IntactOK'
<1> DEFINE b    == tree[cur].bbts[next]
           size == AlignedSize(Cb[b])
<1>1. /\ pc = "split" /\ fileLen' = fileLen /\ fail' = fail
      /\ pc' \in {"split", "finish", "aborted"}
  BY DEF SplitNext, Abort, Push
<1>2. b \in Bid
  BY <1>1, EntriesTyped DEF IInv, FlushOK
<1>3. ASSUME fileLen = FileSize, Kind[tree[cur].root] # "xx"
      PROVE  BlockAsserted(b, Decoded(at, size, at + size <= bufEnd))
  <2>1. at = Ib[b] /\ End(b) <= bufEnd
    BY <1>1, <1>3 DEF IInv, TotalOK, FlushOK, IntactOK
  <2>2. (at + size <= bufEnd) = TRUE
    BY <2>1 DEF End
  <2>3. Decoded(at, size, at + size <= bufEnd) = b
    BY <1>2, <2>1, <2>2, DecodedWhole
  <2> QED
    BY <1>1, <1>3, <2>3, EntryIsData DEF BlockAsserted
<1>4. CASE Abort
  <2>1. fileLen = FileSize => Kind[tree[cur].root] = "xx" \/ pc' # "aborted"
    BY <1>1, <1>3, <1>4 DEF SplitNext, Push
  <2> QED
    BY <1>1, <1>4, <2>1 DEF Abort, IntactOK
<1>5. CASE Push(b, Decoded(at, size, at + size <= bufEnd), "split")
  <2>1. pc' \in {"split", "finish"}
    BY <1>5 DEF Push
  <2> QED
    BY <1>1, <2>1 DEF IntactOK
<1> QED
  BY <1>4, <1>5 DEF SplitNext

LEMMA ReadNextIntact ==
  ASSUME IInv, IntactOK, ReadNext
  PROVE  IntactOK'
<1> DEFINE b       == tree[cur].bbts[next]
           size    == AlignedSize(Cb[b])
           arrived == Arrives(Ib[b], size)
<1>1. pc = "each" /\ fileLen' = fileLen
  BY DEF ReadNext, Abort
<1>2. b \in Bid
  BY <1>1, EntriesTyped DEF IInv, FlushOK
<1>3. fileLen = FileSize => ~fail /\ arrived /\ Decoded(Ib[b], size, arrived) = b
  BY <1>2, ArrivesWhole DEF IntactOK
<1>4. (fileLen = FileSize /\ Kind[tree[cur].root] # "xx")
        => BlockAsserted(b, Decoded(Ib[b], size, arrived))
  BY <1>1, <1>3, EntryIsData DEF BlockAsserted
<1>5. CASE Abort
  <2>1. fileLen = FileSize => Kind[tree[cur].root] = "xx" \/ pc' # "aborted"
    BY <1>1, <1>3, <1>4, <1>5 DEF ReadNext, Push
  <2> QED
    BY <1>1, <1>5, <2>1 DEF Abort, IntactOK
<1>6. CASE fail' = ~arrived /\ Push(b, Decoded(Ib[b], size, arrived), "each")
  <2>1. pc' \in {"each", "finish"}
    BY <1>6 DEF Push
  <2> QED
    BY <1>1, <1>3, <1>6, <2>1 DEF IntactOK
<1> QED
  BY <1>5, <1>6 DEF ReadNext

\* A shorter file is not whole again.
LEMMA TruncateIntact ==
  ASSUME IntactOK, NEW b \in Bid, Truncate(b), IInv
  PROVE  IntactOK'
<1>1. /\ fileLen' = Ib[b] /\ Ib[b] < fileLen /\ fileLen <= FileSize
      /\ pc' = pc /\ at' = at
  BY DEF Truncate, IntactOK, locals
<1>2. Ib[b] \in Nat /\ fileLen \in Nat /\ FileSize \in Nat
  BY EndIsNat, ParameterAssumption DEF IInv, TypeOK
<1>3. fileLen' < FileSize
  BY <1>1, <1>2
<1> QED
  BY <1>1, <1>2, <1>3 DEF IntactOK

LEMMA NextIntact == IInv /\ IntactOK /\ [Next]_vars => IntactOK'
<1> SUFFICES ASSUME IInv, IntactOK, [Next]_vars PROVE IntactOK'
  OBVIOUS
<1>1. CASE \E h \in Handle, b \in Bid : InitDataTree(h, b)
  BY <1>1 DEF InitDataTree, IntactOK, locals
<1>2. CASE \E g, h \in Handle : Copy(g, h) \/ Move(g, h)
  BY <1>2 DEF Copy, Move, IntactOK, locals
<1>3. CASE \E h \in Handle : TakeFirstBlock(h) \/ StartLoad(h)
  BY <1>3 DEF TakeFirstBlock, StartLoad, IntactOK, locals
<1>4. CASE CollectEntries
  BY <1>4 DEF CollectEntries, IntactOK
<1>5. CASE FlushNothing \/ FlushContiguous \/ FlushScattered \/ FinishLoad
  BY <1>5 DEF FlushNothing, FlushContiguous, FlushScattered, FinishLoad, IntactOK
<1>6. CASE \E b \in Bid : Truncate(b)
  BY <1>6, TruncateIntact
<1>7. CASE UNCHANGED vars
  BY <1>7 DEF vars, IntactOK
<1> QED
  BY <1>1, <1>2, <1>3, <1>4, <1>5, <1>6, <1>7, ReadFirstIntact, AddSizeIntact,
     ReadAllIntact, SplitIntact, ReadNextIntact DEF Next, LoadStep

\* A file that nobody cuts trips none of the assertions of DataTree::load, whatever its
\* blocks and however the objects are copied, moved and loaded, XXBLOCKs apart.
THEOREM NeverAborts == Spec => []IntactNeverAborts
<1>1. IntactOK => IntactNeverAborts
  BY DEF IntactOK, IntactNeverAborts
<1> QED
  BY <1>1, InitIInv, NextIInv, InitIntact, NextIntact, PTL DEF Spec

-----------------------------------------------------------------------------
(* With assertions. *)

\* A block that the assertions let pass for the data block b.
Right(content, b) == content = b \/ (content = Empty /\ b \in ZeroSig)

\* What a tree shows has passed them.
Shown(t) ==
  /\ Len(t.blocks) = Len(DataOf(t.root))
  /\ \A i \in DOMAIN t.blocks : Right(t.blocks[i], DataOf(t.root)[i])

ShownOK ==
  assertsOn => \A h \in Handle : (tree[h].setup /\ ~tree[h].taken) => Shown(tree[h])

\* A first block that got past the assertions is not an XXBLOCK, and the blocks that
\* were pushed so far have passed too.
CaughtOK ==
  assertsOn =>
    /\ pc \in {"collect", "flush", "total", "readAll", "split", "each", "finish"}
         => Kind[tree[cur].root] # "xx"
    /\ pc \in {"split", "each"} =>
         \A i \in 1..(next - 1) : Right(tree[cur].blocks[i], tree[cur].bbts[i])
    /\ pc = "finish" => Shown(tree[cur])

LEMMA InitCaught == Init => ShownOK /\ CaughtOK
  BY DEF Init, NoTree, ShownOK, CaughtOK

\* The calls between loads show nothing new.
LEMMA CallsCaught ==
  ASSUME IInv, ShownOK, pc = "idle",
         \/ \E h \in Handle, b \in Bid : InitDataTree(h, b)
         \/ \E g, h \in Handle : Copy(g, h) \/ Move(g, h)
         \/ \E h \in Handle : TakeFirstBlock(h) \/ StartLoad(h)
  PROVE  ShownOK' /\ CaughtOK'
<1>1. CaughtOK'
  BY DEF InitDataTree, Copy, Move, TakeFirstBlock, StartLoad, CaughtOK
<1>2. ASSUME NEW h \in Handle, NEW b \in Bid, InitDataTree(h, b) PROVE ShownOK'
  BY <1>2 DEF InitDataTree, NewTree, IInv, TypeOK, ShownOK, Shown
<1>3. ASSUME NEW g \in Handle, NEW h \in Handle, Copy(g, h) PROVE ShownOK'
  BY <1>3 DEF Copy, IInv, TypeOK, ShownOK, Shown
<1>4. ASSUME NEW g \in Handle, NEW h \in Handle, Move(g, h) PROVE ShownOK'
  <2> DEFINE t == MovedFrom(tree[g])
  <2>1. t.setup => t.taken
    BY DEF MovedFrom
  <2>2. tree' = [tree EXCEPT ![h] = tree[g], ![g] = t]
    BY <1>4 DEF Move
  <2> HIDE DEF t
  <2> QED
    BY <1>4, <2>1, <2>2 DEF Move, IInv, TypeOK, ShownOK, Shown
<1>5. ASSUME NEW h \in Handle, TakeFirstBlock(h) PROVE ShownOK'
  <2>1. tree'[h].taken /\ \A g \in Handle : g # h => tree'[g] = tree[g]
    BY <1>5 DEF TakeFirstBlock, IInv, TypeOK, Tree
  <2> QED
    BY <1>5, <2>1 DEF TakeFirstBlock, ShownOK, Shown
<1>6. ASSUME NEW h \in Handle, StartLoad(h) PROVE ShownOK'
  BY <1>6 DEF StartLoad, ShownOK, Shown
<1> QED
  BY <1>1, <1>2, <1>3, <1>4, <1>5, <1>6

\* In the middle of a load the tree that is loaded shows nothing yet.
LEMMA InsideShown ==
  ASSUME IInv, ShownOK, LoadStep, assertsOn' = assertsOn,
         pc' # "idle" => ~tree'[cur].setup,
         pc' = "idle" => (tree'[cur].setup => Shown(tree'[cur]))
  PROVE  ShownOK'
<1>1. \A h \in Handle : h # cur => tree'[h] = tree[h]
  BY LoadFrame
<1> QED
  BY <1>1 DEF ShownOK, Shown

LEMMA ReadFirstCaught ==
  ASSUME IInv, ShownOK, ReadFirstBlock
  PROVE  ShownOK' /\ CaughtOK'
<1> DEFINE b       == tree[cur].root
           arrived == Arrives(Ib[b], AlignedSize(Cb[b]))
           content == Decoded(Ib[b], AlignedSize(Cb[b]), arrived)
<1>1. /\ pc = "first" /\ cur \in Handle /\ b \in Bid /\ tree[cur] \in Tree
      /\ ~tree[cur].setup /\ tree[cur].blocks = <<>> /\ assertsOn' = assertsOn
  BY DEF ReadFirstBlock, Abort, IInv, ControlOK, RestingOK, Resting, TypeOK
<1>2. CASE Abort
  BY <1>2 DEF Abort, ShownOK, Shown, CaughtOK
<1>3. CASE ~Abort /\ tree' = tree /\ pc' = "collect"
  BY <1>1, <1>3 DEF ReadFirstBlock, ShownOK, Shown, CaughtOK
<1>4. CASE /\ ~Abort /\ ~(content # Empty /\ Internal(b)) /\ pc' = "finish" /\ cur' = cur
           /\ tree' = [tree EXCEPT ![cur].blocks = Append(@, content)]
  <2>1. /\ tree'[cur].blocks = <<content>> /\ tree'[cur].root = b
        /\ tree'[cur].setup = tree[cur].setup
    <3>1. tree'[cur] = [tree[cur] EXCEPT !.blocks = Append(@, content)]
      BY <1>1, <1>4 DEF IInv, TypeOK
    <3>2. /\ tree'[cur].blocks = Append(tree[cur].blocks, content)
          /\ tree'[cur].root = b /\ tree'[cur].setup = tree[cur].setup
      BY <1>1, <3>1 DEF Tree
    <3> QED
      BY <1>1, <3>2
  <2>2. assertsOn => content = b
    BY <1>4 DEF ReadFirstBlock
  <2>3. assertsOn => Kind[b] = "data" /\ DataOf(b) = <<b>>
    BY <1>1, <1>4, <2>2, DataOfCases, ParameterAssumption DEF Internal
  <2>4. assertsOn => Shown(tree'[cur])
    BY <2>1, <2>2, <2>3 DEF Shown, Right
  <2>5. CaughtOK'
    BY <1>1, <1>4, <2>1, <2>3, <2>4 DEF CaughtOK, Shown
  <2>6. ShownOK'
    BY <1>1, <1>4, <2>1, InsideShown DEF LoadStep
  <2> QED
    BY <2>5, <2>6
<1> QED
  BY <1>2, <1>3, <1>4 DEF ReadFirstBlock

LEMMA CollectCaught ==
  ASSUME IInv, ShownOK, CaughtOK, CollectEntries
  PROVE  ShownOK' /\ CaughtOK'
<1>1. /\ pc = "collect" /\ cur \in Handle /\ tree[cur] \in Tree
      /\ ~tree[cur].setup /\ assertsOn' = assertsOn
  BY DEF CollectEntries, IInv, ControlOK, TypeOK
<1>2. tree'[cur].setup = tree[cur].setup /\ tree'[cur].root = tree[cur].root
  BY <1>1 DEF CollectEntries, IInv, TypeOK, Tree
<1>3. ShownOK'
  BY <1>1, <1>2, InsideShown DEF LoadStep
<1>4. pc' = "idle" \/ (pc' = "flush" /\ cur' = cur)
  BY DEF CollectEntries
<1>5. CaughtOK'
  BY <1>1, <1>2, <1>4 DEF CaughtOK
<1> QED
  BY <1>3, <1>5

LEMMA FlushCaught ==
  ASSUME IInv, ShownOK, CaughtOK,
         FlushNothing \/ FlushContiguous \/ FlushScattered \/ AddBlockSize
  PROVE  ShownOK' /\ CaughtOK'
<1>1. UNCHANGED <<assertsOn, tree, cur>>
  BY DEF FlushNothing, FlushContiguous, FlushScattered, AddBlockSize
<1>2. ShownOK'
  BY <1>1 DEF ShownOK, Shown
<1>3. CASE FlushNothing
  <2>1. /\ pc = "flush" /\ pc' = "finish" /\ tree[cur].bbts = <<>>
        /\ tree[cur].blocks = <<>> /\ Rgbid[tree[cur].root] = <<>>
        /\ tree[cur].root \in Bid /\ Internal(tree[cur].root)
    BY <1>3 DEF FlushNothing, IInv, ControlOK, FlushOK
  <2>2. assertsOn => Kind[tree[cur].root] = "x"
    BY <2>1, ImageAssumption DEF CaughtOK, Internal
  <2>3. assertsOn => Shown(tree[cur])
    BY <2>1, <2>2, DataOfCases DEF Shown
  <2> QED
    BY <1>1, <1>2, <2>1, <2>2, <2>3 DEF CaughtOK, Shown
<1>4. CASE FlushContiguous \/ FlushScattered \/ AddBlockSize
  <2>1. pc \in {"flush", "total"} /\ pc' \in {"total", "each", "readAll"}
        /\ (pc' = "each" => next' = 1)
    BY <1>4 DEF FlushContiguous, FlushScattered, AddBlockSize
  <2> QED
    BY <1>1, <1>2, <2>1 DEF CaughtOK
<1> QED
  BY <1>3, <1>4

LEMMA ReadAllCaught ==
  ASSUME IInv, ShownOK, CaughtOK, ReadContiguous
  PROVE  ShownOK' /\ CaughtOK'
<1>1. /\ pc = "readAll" /\ UNCHANGED <<assertsOn, tree, cur>>
      /\ pc' = "aborted" \/ (pc' = "split" /\ next' = 1)
  BY DEF ReadContiguous, Abort
<1> QED
  BY <1>1 DEF ShownOK, Shown, CaughtOK

\* A block that is pushed has passed.
LEMMA PushCaught ==
  ASSUME IInv, ShownOK, CaughtOK, LoadStep, pc \in {"split", "each"},
         NEW content, Push(tree[cur].bbts[next], content, pc),
         cur' = cur, assertsOn' = assertsOn,
         assertsOn => BlockAsserted(tree[cur].bbts[next], content)
  PROVE  ShownOK' /\ CaughtOK'
<1> DEFINE entries == tree[cur].bbts
           blocks  == tree[cur].blocks
           pushed  == Append(blocks, content)
<1>1. /\ cur \in Handle /\ tree[cur] \in Tree /\ next \in 1..Len(entries)
      /\ ~tree[cur].setup /\ tree[cur].root \in Bid /\ Internal(tree[cur].root)
      /\ entries = Rgbid[tree[cur].root] /\ Len(entries) \in Nat
      /\ Len(blocks) = next - 1 /\ blocks \in Seq(Content)
  BY EntriesTyped DEF IInv, ControlOK, FlushOK, PushedOK, Tree
<1>2. tree'[cur] = [tree[cur] EXCEPT !.blocks = pushed]
  BY <1>1 DEF Push, IInv, TypeOK
<1> HIDE DEF pushed
<1>3. /\ tree'[cur].blocks = pushed /\ tree'[cur].bbts = entries
      /\ tree'[cur].root = tree[cur].root /\ ~tree'[cur].setup
  BY <1>1, <1>2 DEF Tree
<1>4. Len(pushed) = next /\ DOMAIN pushed = 1..next /\ pushed[next] = content
      /\ \A i \in 1..(next - 1) : pushed[i] = blocks[i]
  BY <1>1 DEF pushed
<1>5. /\ next' = next + 1 /\ pc' # "idle"
      /\ pc' = IF next = Len(entries) THEN "finish" ELSE pc
  BY DEF Push
<1>6. ShownOK'
  BY <1>3, <1>5, InsideShown
<1>7. assertsOn => \A i \in 1..next : Right(pushed[i], entries[i])
  BY <1>1, <1>4 DEF CaughtOK, BlockAsserted, Right
<1>8. assertsOn => Kind[tree[cur].root] = "x" /\ DataOf(tree[cur].root) = entries
  BY <1>1, DataOfCases, ImageAssumption DEF CaughtOK, Internal
<1>9. (assertsOn /\ pc' = "finish") => Shown(tree'[cur])
  BY <1>3, <1>4, <1>5, <1>7, <1>8 DEF Shown
<1>10. next' - 1 = next
  BY <1>1, <1>5
<1>11. CaughtOK'
  <2> SUFFICES ASSUME assertsOn
               PROVE  /\ Kind[tree'[cur].root] # "xx"
                      /\ \A i \in 1..next : Right(tree'[cur].blocks[i], tree'[cur].bbts[i])
                      /\ pc' = "finish" => Shown(tree'[cur])
    BY <1>10 DEF CaughtOK, Shown, Right
  <2> QED
    BY <1>3, <1>7, <1>8, <1>9
<1> QED
  BY <1>6, <1>11

LEMMA PushesCaught ==
  ASSUME IInv, ShownOK, CaughtOK, SplitNext \/ ReadNext
  PROVE  ShownOK' /\ CaughtOK'
<1>1. CASE Abort
  BY <1>1 DEF Abort, ShownOK, Shown, CaughtOK
<1>2. CASE SplitNext /\ ~Abort
  <2>1. PICK content : /\ Push(tree[cur].bbts[next], content, "split")
                       /\ assertsOn => BlockAsserted(tree[cur].bbts[next], content)
    BY <1>2 DEF SplitNext
  <2> QED
    BY <1>2, <2>1, PushCaught DEF SplitNext, LoadStep
<1>3. CASE ReadNext /\ ~Abort
  <2>1. PICK content : /\ Push(tree[cur].bbts[next], content, "each")
                       /\ assertsOn => BlockAsserted(tree[cur].bbts[next], content)
    BY <1>3 DEF ReadNext
  <2> QED
    BY <1>3, <2>1, PushCaught DEF ReadNext, LoadStep
<1> QED
  BY <1>1, <1>2, <1>3

LEMMA FinishCaught ==
  ASSUME IInv, ShownOK, CaughtOK, FinishLoad
  PROVE  ShownOK' /\ CaughtOK'
<1>1. /\ pc = "finish" /\ pc' = "idle" /\ assertsOn' = assertsOn
      /\ cur \in Handle /\ tree[cur] \in Tree
      /\ tree' = [tree EXCEPT ![cur].setup = TRUE]
  BY DEF FinishLoad, IInv, ControlOK, TypeOK
<1>2. tree'[cur].blocks = tree[cur].blocks /\ tree'[cur].root = tree[cur].root
      /\ \A h \in Handle : h # cur => tree'[h] = tree[h]
  BY <1>1 DEF IInv, TypeOK, Tree
<1>3. assertsOn => Shown(tree'[cur])
  BY <1>1, <1>2 DEF CaughtOK, Shown
<1> QED
  BY <1>1, <1>2, <1>3 DEF ShownOK, CaughtOK, Shown

LEMMA NextCaught == IInv /\ ShownOK /\ CaughtOK /\ [Next]_vars => ShownOK' /\ CaughtOK'
<1> SUFFICES ASSUME IInv, ShownOK, CaughtOK, [Next]_vars PROVE ShownOK' /\ CaughtOK'
  OBVIOUS
<1>1. CASE \/ \E h \in Handle, b \in Bid : InitDataTree(h, b)
           \/ \E g, h \in Handle : Copy(g, h) \/ Move(g, h)
           \/ \E h \in Handle : TakeFirstBlock(h) \/ StartLoad(h)
  <2>1. pc = "idle"
    BY <1>1 DEF InitDataTree, Copy, Move, TakeFirstBlock, StartLoad
  <2> QED
    BY <1>1, <2>1, CallsCaught
<1>2. CASE LoadStep
  BY <1>2, ReadFirstCaught, CollectCaught, FlushCaught, ReadAllCaught, PushesCaught,
     FinishCaught DEF LoadStep
<1>3. CASE (\E b \in Bid : Truncate(b)) \/ UNCHANGED vars
  BY <1>3 DEF Truncate, vars, locals, ShownOK, Shown, CaughtOK
<1> QED
  BY <1>1, <1>2, <1>3 DEF Next

\* In a build with STORYT_ASSERT no tree is set up with blocks that did not come from
\* their place in the file, whenever and wherever the file is cut, for any image: the
\* signature in the trailer, which is not 0, catches them (Block's constructor).
THEOREM ShortReadsCaught == Spec => []AssertsCatchShortReads
<1>1. ShownOK => AssertsCatchShortReads
  BY DEF ShownOK, Shown, Right, AssertsCatchShortReads
<1> QED
  BY <1>1, InitIInv, NextIInv, InitCaught, NextCaught, PTL DEF Spec

-----------------------------------------------------------------------------
(* DataTree implements LazyTree, for every file image without XXBLOCKs and *)
(* every set of objects: all that a load does between its first read and   *)
(* its last step cannot be seen from outside, and its last step, setting   *)
(* the flag, is where the object is read, to its node's data as long as no *)
(* read of the stream has failed.                                          *)

\* What is loaded is a node's data.
RootOK == \A h \in Handle : tree[h].made => tree[h].root \in Root

LEMMA InitRoot == Init => RootOK
  BY DEF Init, NoTree, RootOK

LEMMA NextRoot == IInv /\ RootOK /\ [Next]_vars => RootOK'
<1> SUFFICES ASSUME IInv, RootOK, [Next]_vars PROVE RootOK'
  OBVIOUS
<1> USE DEF IInv, TypeOK, RootOK
<1>1. ASSUME NEW h \in Handle, NEW b \in Bid, InitDataTree(h, b) PROVE RootOK'
  BY <1>1 DEF InitDataTree, NewTree
<1>2. ASSUME NEW g \in Handle, NEW h \in Handle, Copy(g, h) PROVE RootOK'
  BY <1>2 DEF Copy
<1>3. ASSUME NEW g \in Handle, NEW h \in Handle, Move(g, h) PROVE RootOK'
  BY <1>3 DEF Move, MovedFrom
<1>4. ASSUME NEW h \in Handle, TakeFirstBlock(h) PROVE RootOK'
  BY <1>4 DEF TakeFirstBlock, Tree
<1>5. CASE LoadStep
  <2>1. \A h \in Handle : tree'[h].root = tree[h].root /\ tree'[h].made = tree[h].made
    BY <1>5, LoadFrame
  <2> QED
    BY <2>1
<1>6. CASE \/ \E h \in Handle : StartLoad(h)
           \/ \E b \in Bid : Truncate(b)
           \/ UNCHANGED vars
  BY <1>6 DEF StartLoad, Truncate, vars
<1> QED
  BY <1>1, <1>2, <1>3, <1>4, <1>5, <1>6 DEF Next

-----------------------------------------------------------------------------
(* The mapping. *)

\* What users see of an object.
LEMMA Views ==
  ASSUME NEW t \in Tree
  PROVE  /\ ~t.made => View(t) = Lazy!Absent
         /\ (t.made /\ t.taken) => View(t) = Lazy!Taken
         /\ (t.made /\ ~t.taken /\ ~t.setup) => View(t) = Lazy!Unread(t.root)
         /\ (t.made /\ ~t.taken /\ t.setup)
              => View(t) = [is |-> "read", root |-> t.root, data |-> t.blocks]
<1>1. t.made \in BOOLEAN /\ t.taken \in BOOLEAN /\ t.setup \in BOOLEAN
  BY DEF Tree
<1> QED
  BY <1>1 DEF View, Lazy!Absent, Lazy!Taken, Lazy!Unread

\* The same by its name alone.
LEMMA ViewIs ==
  ASSUME NEW t \in Tree
  PROVE  /\ (View(t) = Lazy!Absent) = ~t.made
         /\ t.made => /\ (View(t).is = "taken") = t.taken
                      /\ (View(t).is = "unread") = (~t.taken /\ ~t.setup)
                      /\ (View(t).is = "read") = (~t.taken /\ t.setup)
<1>1. t.made \in BOOLEAN /\ t.taken \in BOOLEAN /\ t.setup \in BOOLEAN
  BY DEF Tree
<1>2. /\ Lazy!Absent.is = "absent" /\ Lazy!Taken.is = "taken"
      /\ Lazy!Unread(t.root).is = "unread"
      /\ [is |-> "read", root |-> t.root, data |-> t.blocks].is = "read"
  BY DEF Lazy!Absent, Lazy!Taken, Lazy!Unread
<1> QED
  BY <1>1, <1>2, Views

\* A step that shows nothing, except perhaps that the stream has failed.
LEMMA Unseen ==
  ASSUME \A h \in Handle : View(tree'[h]) = View(tree[h]),
         fail \in BOOLEAN, fail' \in BOOLEAN, fail => fail'
  PROVE  [Lazy!Next]_(Lazy!vars)
<1>1. [h \in Handle |-> View(tree'[h])] = [h \in Handle |-> View(tree[h])]
  OBVIOUS
<1>2. CASE fail' = fail
  BY <1>1, <1>2 DEF Lazy!vars
<1>3. CASE fail' = TRUE
  BY <1>1, <1>3 DEF Lazy!Next, Lazy!Spoil
<1> QED
  BY <1>2, <1>3

LEMMA InitMaps == Init => Lazy!Init
<1>1. NoTree \in Tree /\ ~NoTree.made
  BY DEF NoTree, Tree
<1>2. View(NoTree) = Lazy!Absent
  BY <1>1, Views
<1> QED
  BY <1>2 DEF Init, Lazy!Init

LEMMA MakeMaps ==
  ASSUME IInv, NEW h \in Handle, NEW b \in Bid, InitDataTree(h, b)
  PROVE  Lazy!Make(h, b)
<1>1. NewTree(b) \in Tree /\ NewTree(b).made /\ ~NewTree(b).taken
      /\ ~NewTree(b).setup /\ NewTree(b).root = b
  BY DEF NewTree, Tree
<1>2. View(NewTree(b)) = Lazy!Unread(b)
  BY <1>1, Views
<1> QED
  BY <1>2 DEF InitDataTree, IInv, TypeOK, Lazy!Make

LEMMA CopyMaps ==
  ASSUME IInv, NEW g \in Handle, NEW h \in Handle, Copy(g, h)
  PROVE  Lazy!Copy(g, h)
<1>1. View(tree[g]) # Lazy!Absent
  BY ViewIs DEF Copy, IInv, TypeOK
<1> QED
  BY <1>1 DEF Copy, IInv, TypeOK, Lazy!Copy

LEMMA MoveMaps ==
  ASSUME IInv, NEW g \in Handle, NEW h \in Handle, Move(g, h)
  PROVE  Lazy!Move(g, h)
<1> DEFINE t == MovedFrom(tree[g])
<1>1. tree[g] \in Tree /\ tree[g].made
  BY DEF Move, IInv, TypeOK
<1>2. /\ t.made /\ t.root = tree[g].root /\ t.setup = tree[g].setup
      /\ t.taken = IF tree[g].setup THEN TRUE ELSE tree[g].taken
      /\ t.bbts = <<>> /\ t.blocks = <<>> /\ t.getBBT = FALSE
  BY <1>1 DEF MovedFrom
<1>3. t \in Tree
  <2> DEFINE took == IF tree[g].setup THEN TRUE ELSE tree[g].taken
  <2>1. took \in BOOLEAN
    BY <1>1 DEF Tree
  <2>2. t = [made |-> tree[g].made, root |-> tree[g].root, bbts |-> <<>>,
             blocks |-> <<>>, setup |-> tree[g].setup, getBBT |-> FALSE,
             taken |-> took]
    BY DEF MovedFrom
  <2> HIDE DEF took
  <2> QED
    BY <1>1, <2>1, <2>2 DEF Tree
<1>4. tree' = [tree EXCEPT ![h] = tree[g], ![g] = t] /\ fail' = fail /\ g # h
  BY DEF Move
<1> HIDE DEF t
<1>5. View(t) = IF View(tree[g]).is = "read" THEN Lazy!Taken ELSE View(tree[g])
  <2>1. CASE tree[g].taken
    BY <1>1, <1>2, <1>3, <2>1, Views, ViewIs DEF Tree
  <2>2. CASE ~tree[g].taken /\ tree[g].setup
    BY <1>1, <1>2, <1>3, <2>2, Views, ViewIs
  <2>3. CASE ~tree[g].taken /\ ~tree[g].setup
    BY <1>1, <1>2, <1>3, <2>3, Views, ViewIs
  <2> QED
    BY <2>1, <2>2, <2>3
<1>6. View(tree[g]) # Lazy!Absent
  BY <1>1, ViewIs
<1> QED
  BY <1>4, <1>5, <1>6 DEF IInv, TypeOK, Lazy!Move

LEMMA TakeMaps ==
  ASSUME IInv, NEW h \in Handle, TakeFirstBlock(h)
  PROVE  Lazy!Take(h)
<1> DEFINE t == [tree[h] EXCEPT !.blocks[1] = Empty, !.taken = TRUE]
<1>1. tree[h] \in Tree /\ tree[h].made /\ tree[h].setup
  BY IdleRests DEF TakeFirstBlock, IInv, TypeOK, Resting
<1>2. tree[h].blocks \in Seq(Content) /\ 1 \in 1..Len(tree[h].blocks)
  BY <1>1, EmptySeq DEF TakeFirstBlock, Tree
<1>3. [tree[h].blocks EXCEPT ![1] = Empty] \in Seq(Content)
  BY <1>2, ExceptSeq DEF Content
<1>4. t \in Tree /\ t.made /\ t.taken
  BY <1>1, <1>3 DEF Tree
<1>5. tree' = [tree EXCEPT ![h] = t] /\ fail' = fail
  BY <1>1 DEF TakeFirstBlock, IInv, TypeOK, Tree
<1> HIDE DEF t
<1>6. View(t) = Lazy!Taken
  BY <1>4, Views
<1>7. View(tree[h]).is \in {"read", "taken"}
  BY <1>1, ViewIs DEF Tree
<1> QED
  BY <1>5, <1>6, <1>7 DEF IInv, TypeOK, Lazy!Take

\* Before its last step a load shows nothing.
LEMMA LoadUnseen ==
  ASSUME IInv, IInv', LoadStep, ~FinishLoad
  PROVE  [Lazy!Next]_(Lazy!vars)
<1>1. pc # "idle" /\ tree[cur] \in Tree /\ ~tree[cur].setup /\ tree[cur].made
  <2>1. pc # "idle"
    BY LoadStepInside
  <2> QED
    BY <2>1 DEF IInv, ControlOK, TypeOK
<1>2. \A h \in Handle : /\ h # cur => tree'[h] = tree[h]
                        /\ tree'[h].made = tree[h].made /\ tree'[h].root = tree[h].root
                        /\ tree'[h].setup = tree[h].setup
                        /\ tree'[h].taken = tree[h].taken
  BY LoadFrame
<1>3. \A h \in Handle : View(tree'[h]) = View(tree[h])
  <2> SUFFICES ASSUME NEW h \in Handle PROVE View(tree'[h]) = View(tree[h])
    OBVIOUS
  <2>1. tree[h] \in Tree /\ tree'[h] \in Tree
    BY DEF IInv, TypeOK
  <2>2. CASE h # cur
    BY <1>2, <2>2
  <2>3. CASE h = cur
    BY <1>1, <1>2, <2>1, <2>3, Views
  <2> QED
    BY <2>2, <2>3
<1>4. fail => fail'
  BY DEF LoadStep, ReadFirstBlock, CollectEntries, FlushNothing, FlushContiguous,
         FlushScattered, AddBlockSize, ReadContiguous, SplitNext, ReadNext, FinishLoad,
         Abort, Arrives
<1>5. fail \in BOOLEAN /\ fail' \in BOOLEAN
  BY DEF IInv, TypeOK
<1> QED
  BY <1>3, <1>4, <1>5, Unseen

\* Its last step reads the object, unless it was moved from before.
LEMMA FinishMaps ==
  ASSUME IInv, IInv', RootOK, FinishLoad, \A b \in Root : Kind[b] # "xx"
  PROVE  [Lazy!Next]_(Lazy!vars)
<1> DEFINE t == [tree[cur] EXCEPT !.setup = TRUE]
<1>1. /\ pc = "finish" /\ cur \in Handle /\ tree[cur] \in Tree /\ tree[cur].made
      /\ ~tree[cur].setup /\ fail' = fail /\ tree' = [tree EXCEPT ![cur] = t]
      /\ tree[cur].root \in Bid
  BY DEF FinishLoad, IInv, ControlOK, TypeOK
<1>2. t \in Tree /\ t.made /\ t.setup /\ t.taken = tree[cur].taken
      /\ t.root = tree[cur].root /\ t.blocks = tree[cur].blocks
  BY <1>1 DEF Tree
<1> HIDE DEF t
<1>3. CASE tree[cur].taken
  <2>1. View(t) = View(tree[cur])
    BY <1>1, <1>2, <1>3, Views
  <2>2. \A h \in Handle : View(tree'[h]) = View(tree[h])
    BY <1>1, <2>1 DEF IInv, TypeOK
  <2> QED
    BY <1>1, <2>2, Unseen DEF IInv, TypeOK
<1>4. CASE ~tree[cur].taken
  <2>1. View(t) = [is |-> "read", root |-> tree[cur].root, data |-> tree[cur].blocks]
        /\ View(tree[cur]) = Lazy!Unread(tree[cur].root)
    BY <1>1, <1>2, <1>4, Views
  <2>2. /\ View(t).is = "read" /\ View(t).root = tree[cur].root
        /\ View(t).data = tree[cur].blocks
        /\ View(tree[cur]).is = "unread" /\ View(tree[cur]).root = tree[cur].root
    BY <2>1 DEF Lazy!Unread
  <2>3. fail \/ tree[cur].blocks = DataOf(tree[cur].root)
    BY <1>1 DEF IInv, FinishedOK, RootOK
  <2>4. tree'[cur] = t /\ \A h \in Handle : h # cur => tree'[h] = tree[h]
    BY <1>1 DEF IInv, TypeOK
  <2>5. Lazy!Read(cur)
    BY <1>1, <2>2, <2>3, <2>4 DEF Lazy!Read
  <2> QED
    BY <1>1, <2>5 DEF Lazy!Next
<1> QED
  BY <1>3, <1>4

\* Every step of DataTree is a step of LazyTree or none.
LEMMA StepMaps ==
  ASSUME IInv, IInv', RootOK, [Next]_vars, \A b \in Root : Kind[b] # "xx"
  PROVE  [Lazy!Next]_(Lazy!vars)
<1>1. CASE \E h \in Handle, b \in Bid : InitDataTree(h, b)
  BY <1>1, MakeMaps DEF Lazy!Next
<1>2. CASE \E g, h \in Handle : Copy(g, h)
  BY <1>2, CopyMaps DEF Lazy!Next
<1>3. ASSUME NEW g \in Handle, NEW h \in Handle, Move(g, h)
      PROVE  [Lazy!Next]_(Lazy!vars)
  <2>1. g # h /\ Lazy!Move(g, h)
    BY <1>3, MoveMaps DEF Move
  <2> QED
    BY <2>1 DEF Lazy!Next
<1>4. CASE \E h \in Handle : TakeFirstBlock(h)
  BY <1>4, TakeMaps DEF Lazy!Next
<1>5. CASE \/ \E h \in Handle : StartLoad(h)
           \/ \E b \in Bid : Truncate(b)
           \/ UNCHANGED vars
  <2>1. tree' = tree /\ fail' = fail
    BY <1>5 DEF StartLoad, Truncate, vars
  <2> QED
    BY <2>1, Unseen DEF IInv, TypeOK
<1>6. CASE LoadStep
  BY <1>6, LoadUnseen, FinishMaps
<1> QED
  BY <1>1, <1>2, <1>3, <1>4, <1>5, <1>6 DEF Next

\* To its users a DataTree is one that reads its node's data in one step, whatever
\* copies, moves, failed loads and cuts of the file come between the steps of load(),
\* for any image and any number of objects, as long as no node starts with an XXBLOCK.
THEOREM ImplementsLazyTree ==
  ASSUME \A b \in Root : Kind[b] # "xx"
  PROVE  Spec => LazySpec
<1>1. IInv /\ IInv' /\ RootOK /\ [Next]_vars => [Lazy!Next]_(Lazy!vars)
  BY StepMaps
<1> QED
  BY <1>1, InitIInv, NextIInv, InitRoot, NextRoot, InitMaps, PTL
     DEF Spec, LazySpec, Lazy!Spec
=============================================================================
