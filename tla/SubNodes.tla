------------------------------ MODULE SubNodes ------------------------------
(***************************************************************************)
(* A node's sub-nodes (src/include/NDB.h, SubNodeBTree).  The constructor  *)
(* reads one block, an SLBLOCK that lists sub-nodes or an SIBLOCK that     *)
(* lists SLBLOCKs, and then constructs, entry by entry, the tree nested    *)
(* under each sub-node and an unread DataTree for its data.                *)
(*                                                                         *)
(* A tree is known by the path of NIDs that leads to it from the outermost *)
(* one.  An entry of an SLBLOCK is a record [nid, data, sub].              *)
(*                                                                         *)
(* A block is its header (btype, cLevel, cEnt: 8 bytes with padding), the  *)
(* entries, padding, and the trailer.  A read that comes short delivers    *)
(* the bytes that are there and zeros for the rest: of an SLBLOCK, some of *)
(* its entries, the last of them torn, and no trailer.                     *)
(***************************************************************************)
EXTENDS Sequences, Blocks

CONSTANTS
  Block,      \* the SLBLOCKs and SIBLOCKs of the file
  Data,       \* the BIDs of data
  Nid,        \* local node ids
  Roots,      \* the bidSub values that construction may start from; None is 0
  Kind,       \* Block -> "SL" or "SI"
  Ib, Cb,     \* Block -> its offset and the size of its data
  Entries,    \* an SL's entries
  SLBlocks,   \* the SLs an SI lists
  InBBT,      \* the BIDs of blocks and data that the block B-tree finds
  Sig,        \* Block -> its signature, ComputeSig of its BREF
  Torn,       \* id -> 1..7 -> the id that so many of its 8 bytes make
  FileSize,
  Cuts,       \* the lengths that the file may be cut to
  None        \* the id 0

End(b) == Ib[b] + AlignedSize(Cb[b])

Entry == [nid: Nid, data: Data, sub: Block \cup {None}]

\* What m_slentries may hold: also entries whose bytes end in the NID or the BID of
\* the data, or before them.
ReadEntry == Entry \cup [nid: Nid \cup {None}, data: Data \cup {None}, sub: {None}]

ASSUME SubNodesAssumption ==
  /\ Kind \in [Block -> {"SL", "SI"}]
  /\ Ib \in [Block -> Nat] /\ Cb \in [Block -> Nat]
  /\ \A b, c \in Block : Ib[b] = Ib[c] => b = c
  /\ Entries \in [Block -> Seq(Entry)] /\ SLBlocks \in [Block -> Seq(Block)]
  /\ \A b \in Block :
       \* "unique only within the parent node"
       /\ \A i, j \in DOMAIN Entries[b] : Entries[b][i].nid = Entries[b][j].nid => i = j
       /\ \A i \in DOMAIN SLBlocks[b] : Kind[SLBlocks[b][i]] = "SL"
       /\ IF Kind[b] = "SL" THEN Entries[b] # <<>> /\ SLBlocks[b] = <<>>
                            ELSE Entries[b] = <<>> /\ SLBlocks[b] # <<>>
       \* the header, and 24 bytes for an SLENTRY or 16 for an SIENTRY
       /\ Cb[b] >= 8 + 24 * Len(Entries[b]) + 16 * Len(SLBlocks[b])
  /\ Roots \subseteq Block \cup {None} /\ None \notin Block \cup Data \cup Nid
  /\ InBBT \subseteq Block \cup Data /\ Sig \in [Block -> {s \in Nat : s < 65536}]
  /\ \A S \in {Block, Data, Nid} : \A x \in S, j \in 1..7 : Torn[x][j] \in S \cup {None}
  \* NID reads the first 4 of the 8 bytes
  /\ \A x \in Nid, j \in 4..7 : Torn[x][j] = x
  /\ FileSize \in Nat /\ \A b \in Block : End(b) <= FileSize
  /\ Cuts \subseteq 0..FileSize

VARIABLES
  assertsOn, \* the build: STORYT_ASSERT aborts, or is a no-op
  root,     \* the m_bid of the outermost tree
  tree,     \* path -> [entries: m_slentries, next: the loop's position]
  fileLen, fail,
  pc,       \* "read", "expand", "loop" inside a constructor; "ready", "thrown",
            \* "aborted"; "garbled": entries were made of bytes that are none
  path      \* the tree whose constructor runs

vars == <<assertsOn, root, tree, fileLen, fail, pc, path>>

Above(p) == SubSeq(p, 1, Len(p) - 1)

TypeOK ==
  /\ assertsOn \in BOOLEAN /\ root \in Roots
  /\ \A p \in DOMAIN tree :
       /\ p \in Seq(Nid) /\ (p # <<>> => Above(p) \in DOMAIN tree)
       /\ tree[p].entries \in Seq(ReadEntry)
       /\ tree[p].next \in 1..(Len(tree[p].entries) + 1)
  /\ fileLen \in 0..FileSize /\ fail \in BOOLEAN
  /\ pc \in {"read", "expand", "loop", "ready", "thrown", "aborted", "garbled"}
  /\ path \in Seq(Nid)

Tree(entries) == [entries |-> entries, next |-> 1]

Init ==
  /\ assertsOn \in BOOLEAN /\ root \in Roots
  /\ fileLen = FileSize /\ fail = FALSE /\ path = <<>>
  /\ IF root = None  \* "When BID == 0 there is no subnode tree"
     THEN pc = "ready" /\ tree = [p \in {<<>>} |-> Tree(<<>>)]
     ELSE pc = "read" /\ tree = <<>>

-----------------------------------------------------------------------------
(* The entries of one block. *)

Current == tree[Above(path)].entries[tree[Above(path)].next]
Wanted  == IF path = <<>> THEN root ELSE Current.sub

WithTree(entries) ==
  [p \in DOMAIN tree \cup {path} |-> IF p = path THEN Tree(entries) ELSE tree[p]]

\* Mutant of Arrived: the failbit does not stick.
ArrivedAfterFail(b) ==
  IF fileLen <= Ib[b] THEN 0
  ELSE IF fileLen < End(b) THEN fileLen - Ib[b] ELSE AlignedSize(Cb[b])

\* How many of the bytes of b a read delivers: a stream that has failed delivers none.
Arrived(b) ==
  IF fail \/ fileLen <= Ib[b] THEN 0
  ELSE IF fileLen < End(b) THEN fileLen - Ib[b] ELSE AlignedSize(Cb[b])

\* The id x of which the first j of 8 bytes arrived.
Front(x, j) == IF x = None \/ j <= 0 THEN None ELSE IF j >= 8 THEN x ELSE Torn[x][j]

\* What the constructors make of b when k of its bytes arrived: cEnt ...
Count(b, k) ==
  LET n == Len(Entries[b]) + Len(SLBlocks[b])
  IN  IF k >= 4 THEN n ELSE IF k = 3 THEN n % 256 ELSE 0

\* ... an SLBLOCK's entries ...
EntriesFrom(b, k) ==
  [i \in 1..Count(b, k) |->
     LET e == Entries[b][i]
         j == k - 8 - 24 * (i - 1)
     IN  [nid |-> Front(e.nid, j), data |-> Front(e.data, j - 8), sub |-> Front(e.sub, j - 16)]]

\* ... the BIDs of an SIBLOCK's ...
ListedFrom(b, k) == [i \in 1..Count(b, k) |-> Front(SLBlocks[b][i], k - 16 - 16 * (i - 1))]

\* ... and wSig, the third and fourth byte of the trailer.
SigFrom(b, k) ==
  LET sigAt == AlignedSize(Cb[b]) - TrailerSize + 2
  IN  IF k >= sigAt + 2 THEN Sig[b] ELSE IF k = sigAt + 1 THEN Sig[b] % 256 ELSE 0

\* Without its second byte, cLevel, a block passes for an SLBLOCK.
IsSL(b, k) == Kind[b] = "SL" \/ k < 2

\* Mutant of Asserted: readBytes finds the stream in order, the signature is not
\* compared, and a block need not have entries.
AssertedNothing(b, k) == TRUE

\* The stream is in order before the read (nothing looks at it afterwards), the
\* signature is that of the BREF, and an SLBLOCK has entries.
Asserted(b, k) ==
  assertsOn => ~fail /\ SigFrom(b, k) = Sig[b] /\ (IsSL(b, k) => Count(b, k) # 0)

\* _siBlockToSLEntries of an SIBLOCK that came short: value() and at(0) throw on a
\* BID that is lost and on none at all.  The second read fails on the assertion, or
\* delivers zeros, which are SLBLOCKs without entries.
ListTornSI(b, k) ==
  LET listed == ListedFrom(b, k)
  IN  IF listed = <<>> \/ \E i \in DOMAIN listed : listed[i] \notin InBBT
      THEN pc' = "thrown" /\ UNCHANGED tree
      ELSE IF assertsOn THEN pc' = "aborted" /\ UNCHANGED tree
      ELSE pc' = "loop" /\ tree' = WithTree(<<>>)

\* _readBlockBytes(bid), where value() throws on a BID that the BBT lacks, and what
\* the constructor does with the bytes.
ReadBlock ==
  LET b     == Wanted
      k     == Arrived(b)
      whole == k = AlignedSize(Cb[b])
  IN  /\ pc = "read"
      /\ \/ b \notin InBBT /\ pc' = "thrown" /\ UNCHANGED <<tree, fail>>
         \/ b \in InBBT /\ ~Asserted(b, k) /\ pc' = "aborted" /\ UNCHANGED <<tree, fail>>
         \/ /\ b \in InBBT /\ Asserted(b, k) /\ fail' = ~whole
            /\ \/ IsSL(b, k) /\ pc' = "loop" /\ tree' = WithTree(EntriesFrom(b, k))
               \/ ~IsSL(b, k) /\ whole /\ pc' = "expand" /\ UNCHANGED tree
               \/ ~IsSL(b, k) /\ ~whole /\ ListTornSI(b, k)
      /\ UNCHANGED <<assertsOn, root, fileLen, path>>

\* The size _siBlockToSLEntries gives to an SLBLOCK: the one of its offset.
SizeInSI(b) == AlignedSize(Ib[b])

\* Where the pieces of the one read begin.  _readBlockBytes(position, size) does
\* not seek to its position: the stream still stands behind the SIBLOCK.
PieceStart(si) ==
  LET start[i \in 1..(Len(SLBlocks[si]) + 1)] ==
        IF i = 1 THEN End(si) ELSE start[i-1] + SizeInSI(SLBlocks[si][i-1])
  IN  start

\* What SLBlock::Init finds in the i-th piece: an SLBLOCK's entries when it
\* begins with one, none when it is zeros, else no telling.
PieceKind(si, i) ==
  LET from == PieceStart(si)[i]
  IN  CASE from >= fileLen -> "zeros"
        [] \E b \in Block : Ib[b] = from /\ from < fileLen /\ Kind[b] = "SL"
             /\ AlignedSize(Cb[b]) <= PieceStart(si)[i+1] - from -> "SL"
        [] OTHER -> "garbage"
PieceEntries(si, i) ==
  LET from == PieceStart(si)[i]
  IN  IF PieceKind(si, i) = "SL"
      THEN EntriesFrom(CHOOSE b \in Block : Ib[b] = from, fileLen - from)
      ELSE <<>>

\* The assertions on the offsets, and those on each piece: it begins like an
\* SLBLOCK with entries, and ends with the trailer of the block it stands for,
\* or with zeros where the signature is 0.
ExpandAsserted(si) ==
  LET sls == SLBlocks[si]
  IN  /\ \A i \in 2..Len(sls) : Ib[sls[i]] - Ib[sls[i-1]] = SizeInSI(sls[i-1])
      /\ \A i \in DOMAIN sls :
           LET sl  == sls[i]
               end == PieceStart(si)[i+1]
           IN  /\ PieceEntries(si, i) # <<>>
               /\ \/ end = End(sl) /\ SigFrom(sl, fileLen - Ib[sl]) = Sig[sl]
                  \/ end - TrailerSize + 2 >= fileLen /\ Sig[sl] = 0

\* Two entries with a tree of their own under one NID.
Twins(es) == \E i, j \in DOMAIN es : /\ i # j /\ es[i].nid = es[j].nid
                                     /\ es[i].sub # None /\ es[j].sub # None

\* _siBlockToSLEntries of an SIBLOCK that arrived.  Entries that are not those of one
\* node, as far as the assertions do not stop them, are not followed any further.
ExpandSI ==
  LET si      == Wanted
      n       == Len(SLBlocks[si])
      flat[i \in 0..n] == IF i = 0 THEN <<>> ELSE flat[i-1] \o PieceEntries(si, i)
  IN  /\ pc = "expand"
      /\ IF \E i \in 1..n : SLBlocks[si][i] \notin InBBT
         THEN pc' = "thrown" /\ UNCHANGED <<tree, fail>>
         ELSE IF assertsOn /\ ~ExpandAsserted(si)
         THEN pc' = "aborted" /\ UNCHANGED <<tree, fail>>
         ELSE /\ fail' = (PieceStart(si)[n+1] > fileLen)
              /\ IF \/ \E i \in 1..n : PieceKind(si, i) = "garbage"
                    \/ ~assertsOn /\ Twins(flat[n])
                 THEN pc' = "garbled" /\ UNCHANGED tree
                 ELSE pc' = "loop" /\ tree' = WithTree(flat[n])
      /\ UNCHANGED <<assertsOn, root, fileLen, path>>

-----------------------------------------------------------------------------
(* The loop over the entries. *)

Here == tree[path].entries[tree[path].next]
More == tree[path].next <= Len(tree[path].entries)

\* m_subtrees or m_datatrees has the entry's NID already.
Duplicate ==
  \E i \in 1..(tree[path].next - 1) :
    LET e == tree[path].entries[i]
    IN  e.nid = Here.nid /\ (e.sub # None \/ e.data \in InBBT)

\* The assertions against that.
StopDuplicate ==
  /\ pc = "loop" /\ More /\ assertsOn /\ Duplicate
  /\ pc' = "aborted"
  /\ UNCHANGED <<assertsOn, root, tree, fileLen, fail, path>>

\* The entry has sub-nodes of its own: construct their tree.
EnterNested ==
  /\ pc = "loop" /\ More /\ ~(assertsOn /\ Duplicate)
  /\ Here.sub # None /\ Append(path, Here.nid) \notin DOMAIN tree
  /\ path' = Append(path, Here.nid) /\ pc' = "read"
  /\ UNCHANGED <<assertsOn, root, tree, fileLen, fail>>

\* The entry has none, or their tree was constructed.
AtData ==
  /\ pc = "loop" /\ More /\ ~(assertsOn /\ Duplicate)
  /\ Here.sub = None \/ Append(path, Here.nid) \in DOMAIN tree

\* Mutant of AddData: an entry whose data is missing ends the loop.
AddDataOrStop ==
  /\ AtData
  /\ tree' = [tree EXCEPT ![path].next = IF Here.data \in InBBT THEN @ + 1
                                         ELSE Len(tree[path].entries) + 1]
  /\ UNCHANGED <<assertsOn, root, fileLen, fail, pc, path>>

\* Mutant of AddData: the position runs past the end.
AddDataTwice ==
  /\ AtData
  /\ tree' = [tree EXCEPT ![path].next = @ + 2]
  /\ UNCHANGED <<assertsOn, root, fileLen, fail, pc, path>>

\* Emplace the DataTree, or only log that the BBT lacks its BID.
AddData ==
  /\ AtData
  /\ tree' = [tree EXCEPT ![path].next = @ + 1]
  /\ UNCHANGED <<assertsOn, root, fileLen, fail, pc, path>>

Return ==
  /\ pc = "loop" /\ ~More
  /\ IF path = <<>> THEN pc' = "ready" /\ UNCHANGED path
                    ELSE path' = Above(path) /\ UNCHANGED pc
  /\ UNCHANGED <<assertsOn, root, tree, fileLen, fail>>

\* Whoever owns the file cuts it.
Truncate(n) ==
  /\ pc \in {"read", "expand", "loop"} /\ n < fileLen
  /\ fileLen' = n
  /\ UNCHANGED <<assertsOn, root, tree, fail, pc, path>>

Next ==
  \/ ReadBlock \/ ExpandSI \/ StopDuplicate \/ EnterNested \/ AddData \/ Return
  \/ \E n \in Cuts : Truncate(n)

Spec == Init /\ [][Next]_vars

-----------------------------------------------------------------------------
(* Looking a sub-node up. *)

\* m_datatrees of the tree at p, as far as its loop has come.
DataTrees(p) == {tree[p].entries[i].nid :
                   i \in {j \in 1..(tree[p].next - 1) : tree[p].entries[j].data \in InBBT}}
SubTrees(p) == {q \in DOMAIN tree : Len(q) = Len(p) + 1 /\ Above(q) = p}

\* Mutant of GetDataTree: the nested trees are searched first.
GetDataTreeNestedFirst(p, nid) ==
  LET get[q \in DOMAIN tree] ==
        LET nested == UNION {get[r] : r \in SubTrees(q)}
        IN  IF nested # {} THEN nested
            ELSE IF nid \in DataTrees(q) THEN {Append(q, nid)} ELSE {}
  IN  get[p]

\* getDataTree(nid): its own entry, or what the nested trees answer, which are
\* asked in the order of a hash table.  The set of the answers it may give,
\* empty for nullptr.
GetDataTree(p, nid) ==
  LET get[q \in DOMAIN tree] ==
        IF nid \in DataTrees(q) THEN {Append(q, nid)}
        ELSE UNION {get[r] : r \in SubTrees(q)}
  IN  get[p]

-----------------------------------------------------------------------------
(* What the layers above rely on. *)

\* The blocks below b in the file, by path.
ImageEntries(b) ==
  LET flat[i \in 0..Len(SLBlocks[b])] ==
        IF i = 0 THEN <<>> ELSE flat[i-1] \o Entries[SLBlocks[b][i]]
  IN  IF Kind[b] = "SL" THEN Entries[b] ELSE flat[Len(SLBlocks[b])]

\* The entry of the tree above that the tree at p is nested under.
Position(p) ==
  LET above == tree[Above(p)].entries
  IN  CHOOSE i \in DOMAIN above : above[i].nid = p[Len(p)] /\ above[i].sub # None

\* The block of the tree at p: root's, or the one the entry above names.
BlockOf(p) == IF p = <<>> THEN root ELSE tree[Above(p)].entries[Position(p)].sub

HasItsEntries(p) ==
  tree[p].entries = IF BlockOf(p) = None THEN <<>> ELSE ImageEntries(BlockOf(p))

Nested(p) == {Append(p, tree[p].entries[i].nid) :
                i \in {j \in DOMAIN tree[p].entries : tree[p].entries[j].sub # None}}

\* Every loop came to its end, and every entry's tree was constructed.
Walked ==
  \A p \in DOMAIN tree :
     Nested(p) = SubTrees(p) /\ tree[p].next = Len(tree[p].entries) + 1

Complete == Walked /\ \A p \in DOMAIN tree : HasItsEntries(p)

\* No SIBLOCK was met: what becomes of one is the matter of AnswersForItsOwn.
NoSI == \A p \in DOMAIN tree : BlockOf(p) # None => Kind[BlockOf(p)] = "SL"

\* Where no SIBLOCK is met and no read failed, construction that returns has
\* built every tree of the file with every entry of its block, whichever
\* entries lack their data.
BuiltIsImage ==
  (NoSI /\ pc = "ready" /\ ~fail) => Complete

\* An SIBLOCK that the assertions may let pass: its first SLBLOCK's signature is 0,
\* or is longer than all that lies before it in the file.
MayPass(si) ==
  LET sl == SLBlocks[si][1]
  IN  Sig[sl] = 0 \/ End(si) <= AlignedSize(Cb[sl])

PassedSI == \E p \in DOMAIN tree :
  BlockOf(p) # None /\ Kind[BlockOf(p)] = "SI" /\ MayPass(BlockOf(p))

\* With assertions the trees that are handed out are all of the file's, with every
\* entry, but for two holes.  One is an SIBLOCK that passes.  The other is a block
\* whose signature is 0: cut short it passes, with what entries it has left; but
\* it is the one tree that lost any, however many of the signatures are 0.
ReadyIsComplete ==
  (assertsOn /\ pc = "ready") =>
    \/ Complete
    \/ PassedSI
    \/ /\ Walked
       /\ \E p \in DOMAIN tree :
            /\ BlockOf(p) # None /\ Sig[BlockOf(p)] = 0
            /\ \A q \in DOMAIN tree \ {p} : HasItsEntries(q)

Under(p, q) == Len(p) <= Len(q) /\ SubSeq(q, 1, Len(p)) = p

\* The block of p is read before the one of q: p is above q, or under an earlier entry
\* where they part.
ReadBefore(p, q) ==
  \/ Under(p, q) /\ p # q
  \/ \E a, b \in DOMAIN tree :
       /\ a # <<>> /\ b # <<>> /\ Above(a) = Above(b) /\ Position(a) < Position(b)
       /\ Under(a, p) /\ Under(b, q)

\* Wherever the file is cut, the trees lose a tail of what the file has for them: a
\* tree has what a first part of its block makes, and from the first tree on that
\* lacks something, all that are read later are empty.
LossIsATail ==
  NoSI =>
    /\ \A p \in DOMAIN tree :
         \/ HasItsEntries(p)
         \/ \E k \in 0..AlignedSize(Cb[BlockOf(p)]) : tree[p].entries = EntriesFrom(BlockOf(p), k)
    /\ \A p, q \in DOMAIN tree :
         (~HasItsEntries(p) /\ ReadBefore(p, q)) => tree[q].entries = <<>>

\* Asked for a NID, a tree gives the data tree under a path that has it, and that no
\* tree between them has: its own entry before any nested one, one of a nested tree
\* in whichever order the hash table has them, and nullptr only if no tree has it.
AnswerIsShallowest ==
  pc = "ready" =>
    \A p \in DOMAIN tree, nid \in Nid :
       GetDataTree(p, nid) =
         {Append(q, nid) : q \in
            {r \in DOMAIN tree :
               /\ Under(p, r) /\ nid \in DataTrees(r)
               /\ \A t \in DOMAIN tree :
                    (Under(p, t) /\ Under(t, r) /\ t # r) => nid \notin DataTrees(t)}}

\* What the comments say of the format: an SIBLOCK is an array of entries that point
\* to SLBLOCKs, and a NID is "unique only within the parent node".  So on an intact
\* file a tree answers for the NIDs that its block lists, directly or through
\* SLBLOCKs, with its own data, and for no others.
AnswersForItsOwn ==
  (pc = "ready" /\ fileLen = FileSize) =>
    \A p \in DOMAIN tree, nid \in Nid :
       LET own   == IF BlockOf(p) = None THEN <<>> ELSE ImageEntries(BlockOf(p))
           lists == \E i \in DOMAIN own : own[i].nid = nid /\ own[i].data \in InBBT
       IN  GetDataTree(p, nid) = IF lists THEN {Append(p, nid)} ELSE {}
=============================================================================
