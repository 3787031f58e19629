# StoryTime in TLA+

StoryTime is a header-only C++20 library that reads Outlook PST files. This
directory holds its specification: TLA+ modules translated from `src/include/`,
TLC configurations that check them on small files, and TLAPS proofs for files
of every size. `PROJECT.json` maps every definition to the lines it models.

## 1. The system

The library has one thread, no locks and no network. It is hard for other
reasons:

* **One stream, shared by everything.** Every object that may still have to
  read holds a reference to the `std::ifstream` in `PSTReader`. The stream's
  failbit is never cleared, `readBytes` (utils.h:709-751) fills its buffer with
  zeros first, and the file belongs to the operating system: it can be cut
  short between any two reads.
* **Two programs in one source.** `STORYT_ASSERT` (utils.h:34-38) aborts, or is
  a no-op under `NDEBUG`; `STORYT_VERIFY` and `optional::value()` throw in both.
  Much of the error handling is by assertion, so the two builds take different
  paths after the same failure.
* **Laziness with copies and moves.** A `DataTree` reads on first use and may be
  copied, moved from, or left half way by an exception, and be asked again.
* **Recursion over the file's structure**: pages, nested sub-node trees, folders.

| component | state | operations | talks to | what makes it correct |
|---|---|---|---|---|
| `DataTree` (NDB.h:663-884) | first block, `m_dataBlockBBTs`, `m_dataBlocks`, flag | construct, copy, move, `load`, `begin` | stream, block B-tree | a loaded tree is its node's data, in order; loading twice adds nothing |
| `BTPage`, `NDB` (NDB.h:278-528, 1180-1264) | pages in memory | constructor, `get`, `all`, `verify` | stream | `get` is look-up; a lost page never makes up an answer |
| `SubNodeBTree` (NDB.h:1006-1178) | entries, nested trees, data trees | constructor, `getDataTree`, `getNestedSubNodeTree` | stream, block B-tree, `DataTree` | the tree is the file's; a NID means what its parent says |
| `PSTReader` (pst_reader.h) | stream, `m_ndb`, `m_ltp`, `m_msg` | `read`, `getFolder` | all | what it handed out stays valid |
| `Messaging`, `MessageStore`, `EntryID` (Messaging.h:665-758) | store, root folder | constructors, `getFolder` | `NDB`, `PropertyContext` | the root folder is the store's |
| `Folder` (Messaging.h:413-663) | four contexts, subfolders | `Init`, `getFolder`, `getNMessages` | `NDB`, contexts | every folder once; batches make up the folder |
| `MessageObject`, `AttachmentTable` (Messaging.h:82-395) | contexts | `Init`, accessors | `SubNodeBTree`, contexts | a message has its own tables and attachments |
| `HN` (LTP.h:526-723) | blocks of a heap | constructor, `getAllocation` | `DataTree` | an HID finds its allocation |
| `BTreeHeap` (LTP.h:725-841) | records | constructor, look-ups | `HN` | the records are those of the tree |
| `PropertyContext` (LTP.h:982-1155) | properties, loaded or not | `Init`, `TryToGetProperty` | `HN`, `BTreeHeap`, `SubNodeBTree` | a property's data is its own, whichever way it is stored |
| `TableContext` (LTP.h:1157-1644) | row ids, row blocks, cells | `Init`, `loadRowMatrix`, row and column access | the same | a row id finds its row |
| core ids, utils, types | none | comparison, decoding, CRC | | pure functions |

`PROJECT.json` lists the hazards of this code by line, each with the properties
that watch it.

## 2. The modules

| module | models | built on |
|---|---|---|
| `Blocks` | `DataTree::calcBlockAlignedSize` | |
| `DataTree` | the DataTree objects over the stream | `Blocks` |
| `LazyTree` | abstract: an object that reads all of its data in one step | |
| `NDB` | the two B-trees: construction and searches | |
| `SubNodes` | `SubNodeBTree` | `Blocks` |
| `Reader` | `PSTReader`, and the program that calls it | |
| `Folders` | `Folder`, and the program of `example/main.cpp` | |
| `Heap` | `HN::getAllocation`, HIDs, page maps, and the layout of a `BTreeHeap` as operators on words | |
| `Properties` | `HN`'s and `BTreeHeap`'s constructors, `PropertyContext` and its `TryToGetProperty` | `Heap` |
| `Table` | `TableContext`, `RowBlock`, `SingleRow`: rows and cells on demand | |
| `Message` | `MessageObject`, `AttachmentTable`, `Attachment`: who takes what of one sub-node tree, and the getters | |
| `DataTreeProofs`, `NDBProofs`, `SubNodesProofs`, `ReaderProofs`, `FoldersProofs`, `TableProofs`, `MessageProofs`, `PropertiesProofs` | theorems about every instance | the module they name |
| `MCDataTree`, `MCNDB`, `MCSubNodes`, `MCReader`, `MCFolders`, `MCProperties`, `MCTable`, `MCMessage` | the files that TLC checks | the module they name |

`DataTree` and `SubNodes` both extend `Blocks`; `DataTree` instantiates
`LazyTree` with a refinement mapping (checked by the run `DataTree`, proved in
`DataTreeProofs`). The layers are composed by their
interfaces rather than by one large state. Each takes as one step, or as one set,
what the layer below it is shown to do:

* `NDB` shows that `get(bid)` is a look-up, which `DataTree` and `SubNodes` take as
  the set `InBBT`;
* `SubNodes` shows that a tree that was built is the file's and that `getDataTree`
  answers with the shallowest sub-node of a NID; `Message` builds the tree in one step
  and searches it with `Found`, which is that;
* `DataTree` shows that a load leaves the node's data, or something else once a read
  has failed; `Properties`, `Table` and `Message` take a load as one step that arrives
  or does not, and `Reader` the construction of a whole layer;
* `Properties` and `Table` show that a property and a cell are the file's; `Message`
  takes the reading of one as a step, and follows instead whose sub-nodes it reads;
* `Folders` takes what `all()` finds from `NDB`, and whether a message constructs.

### What is abstracted

* **Bytes.** What a read yields is named by the block or page that occupies
  exactly those bytes: the block itself, zeros when the read came short, or
  garbage when the bytes are not one block (`Decoded` in `DataTree`, `PieceKind`
  in `SubNodes`). Offsets and sizes are real numbers of bytes, with the padding
  of `calcBlockAlignedSize`, because the code computes with them.
* **Assertions.** Every assertion that some file image or cut can violate is a
  guard that leads to `"aborted"`. That a page or block which arrived has the
  right type, size and CRC is part of the image.
* **A file that is cut.** `SubNodes` cuts it at any byte (the run: at every byte of a
  block that tells apart what is made of the rest). The header of an SLBLOCK or SIBLOCK
  (`cLevel`, `cEnt`) and its first entries are at its start and its signature at its end,
  so a cut in between leaves half a tree (`EntriesFrom`), the last entry of which may be
  torn within an id (`Torn`). `DataTree` and `NDB` cut it where a block or a page begins,
  which there loses nothing up to the trailer: a page's number of entries, its level and
  its type are in its last 24 bytes (BTPage::setup, NDB.h:339-350), so that of a page cut
  short no entry is read; a data block has as many bytes of data as its trailer says (none
  when the trailer is lost), and the first block of a node is an XBLOCK only if the BID in its trailer says so, whatever stands at its start
  (XBLOCKs are only ever first blocks, because the branch for XXBLOCKs is never taken,
  finding 1). Cuts within the 16 bytes of a trailer are modelled in `SubNodes` only.

### How state and actions correspond to the code

* `DataTree`: `tree[h]` has the members of one object: `bbts` is
  `m_dataBlockBBTs`, `blocks` is `m_dataBlocks`, `setup` is
  `m_DataBlocksAreSetup`, `getBBT` whether `m_getBBT` was moved away. `pc`, `cur`,
  `at`, `bufEnd` and `next` are the position inside `load()`, one action for each
  piece between two reads. A missing BID throws out of `CollectEntries` and leaves
  the entries pushed so far.
* `NDB` and `SubNodes`: recursion is kept as the path of the constructor that
  runs; the objects made are functions on paths.
  A tree in `SubNodes` is its `m_slentries` and the loop's position. `ReadBlock` decides
  from the number of bytes that arrived what the constructors see: the block's level
  (`IsSL`), its entries, the signature (`SigFrom`), and with assertions whether it passes
  (`Asserted`: `readBytes` looks at the stream before the read and not after it). What
  `_siBlockToSLEntries` reads is cut into pieces at the wrong sizes (`PieceStart`); where
  a piece is not a block, or two trees would get one NID, the model goes no further
  (`"garbled"`).
* `Reader`: objects are known by the number of the `read()` that made them, so a
  dangling reference is a number that is no longer there. A short header may be refused
  by an assertion (`"aborted"`) or by `STORYT_VERIFY` (pst_reader.h:235-237), which throws
  in both builds; a message read with a short read may be wrong (`"undefined"`), be
  refused, or throw. The model leaves the choice open.
* `Table`: a row is known by its number in the file's matrix and a cell's value by its
  row and column, so that a wrong quotient or remainder shows as another row. A call
  of `getSingleRowAndLoadColumn` is `Ask`, then `loadRowMatrix` (`KeepMatrix`,
  `LoadFromHN` or `LoadFromSubNodeTree`), then `getSingleRowRaw` and `loadRowEntry`
  (`NoRow` or one of the four cell actions). The load of the matrix's data tree is one
  step that leaves what `DataTree` shows it may leave: all blocks, empty ones from the
  first that did not arrive, or one empty block; where an XBLOCK lists a BID that the BBT
  lacks it throws, of the matrix (`MatrixThrows`, nothing is kept and the next call comes
  to it again) or of a cell (`"broken"`, the entry stays unloaded).
* `Heap` and `Properties`: data is a sequence of 16 bit words, and a block the sequence
  of its allocations; `IdType`, `AllocIndex` and `BlockIndex` take the numbers out of an
  HID as `HID` does. `LoadTree` is the iteration of the DataTree in `HN`'s constructor,
  `AddBlock` one turn of it, `ReadHeader` `readBTHHeader`, each `ReadLevel` one recursion
  of `readBTHRecords`, `ReadRecords` its leaf level together with `_loadMetaProps`. A
  property is `[type, data, loaded]`, as in `Property`: `data` is the chunk of 4 bytes
  from the record until `_loadProperty` replaces it. `TryToGetProperty` is `AskAbsent`,
  `AskKept`, `AskHeap` or `AskNode`, by where the code finds the value. The reference,
  `FileRecords`, `RecordOf` and `ValueOf`, is read off the comments on the format in
  LTP.h and not off the code.
* `Message`: a sub-node is known by its path in the file, wherever its `DataTree` is now.
  `tree[h]` is the `SubNodeBTree` that holder `h` has (the message while `Init` runs,
  its property context, a table, an attachment), with the state of every `DataTree` in
  it; `made[h]` is the node whose data the context `h` was made of. A copy is a second
  entry of `tree` that is equal; a move leaves `"moved"` or an `Emptied` tree behind.
  `Makes` is what `TableContext::Init` and `_setupAttachments` share, apart from `keep`:
  the first moves the nested tree, the second copies it. `Finish` drops the message's
  tree, as the end of `Init` does. Then every getter is one action, and
  `getRecipients` one for each row.
* `Folders`: the same paths for folders, then `getFolder`, then the loop of
  `main`, whose batches are `getNMessages(i, i + batchSize)`.

Definitions named `X...` that a comment introduces as "Mutant of X" are faulty
versions of X. `PROJECT.json` lists for every property one that it detects.

## 3. The runs

| run | instance | shows |
|---|---|---|
| `DataTree` | both builds; two objects; a file of four data blocks sized 48, 49, 8 and 8176, XBLOCKs that list them in order, with a gap, backwards, empty, and with a BID the BBT lacks | `TypeOK`; `LoadedIsImage`: set up and no failed read means the node's data; `AssertsCatchShortReads` and `IntactNeverAborts` for the build with assertions; `LoadingAgainAddsNothing`; `LoadEnds`; `LazySpec`: refinement of `LazyTree` |
| `DataTree_xx` | the same and an XXBLOCK | **violated**: `LoadsXXBlocks` |
| `NDB` | both builds, a node B-tree of three levels and a block B-tree of two, pages in scrambled file order, groups of nodes across leaves | `GetIsLookup`, `LossIsATail`; `AllIsTheGroup`: a group's nodes by type, and the end of the program exactly where two types have no name and it asserts; `ReadyIsComplete` of the debug build |
| `SubNodes` | both builds, eight roots, three levels, shared NIDs, missing data and blocks, SIBLOCKs, signatures that are 0; cut before and behind each block, in its header, in and around each field of its entries, and in its trailer | `BuiltIsImage`, `AnswerIsShallowest`; `LossIsATail`: at most one tree has a part of its entries, and all that are read later are empty; `ReadyIsComplete` of the debug build: what is handed out is whole, but for an SIBLOCK whose first SLBLOCK the assertions cannot tell from bytes that were not read (`MayPass`), and for one tree whose block has signature 0 |
| `SubNodes_own` | an intact file with an SIBLOCK, behind which lies another node's SLBLOCK with a tree nested under it | **violated**: `AnswersForItsOwn`: the tree answers for the other node's sub-node, and for its own from a nested tree |
| `Reader` | both builds, three calls of `read()`, all four kinds of file, cut or not | `FoldersStayValid`, `FirstOpenDecides`, `UndefinedOnlyUnread` |
| `Folders` | both builds, six folders on three levels, complete or lacking a part, batches of 1 to 6 over folders of 0 to 5 messages | `AllOrNothing`, `FoundIsFirst`, `BatchesAreTheFolder`, `CallsEnd` |
| `Folders_label` | the same | **violated**: `FoundIsLabelled`, by a folder `Inbox2019` before `Inbox` |
| `Properties` | both builds; nine contexts: values in the record, in the heap, empty, in sub-nodes that are there, lost or throw, of many values and of a type the code does not know; heaps of one, two and ten blocks, one with a freed allocation; B-trees without and with one and two index levels; a cut at any moment | `RecordsAreTheFiles`: the B-tree has the file's records; `AnswerIsTheValue`: a call returns the file's value, whatever was asked before; `FetchedStays`; `EndsOnlyOn`: which files can end the program |
| `Properties_levels` | a property context with an index level | **violated**: `IndexLevelsAreRead` |
| `Table` | both builds, matrices of three blocks (rows that leave bytes over, a short last block, row ids in another order than rows), of one, in the heap without sub-nodes, without rows, and one whose load throws; cells of every place; a cut at any moment | `RowsAreFound`, `AnswerIsTheCell`, `LoadedStays`, `EndsOnlyOn`: undefined behaviour takes a cut, and an assertion a cut or, for a cell that the file has, a sub-node that is missing |
| `Message` | both builds; nine messages: without attachments, with two of which one is a message with the same NIDs, with lost attachments and values, with data whose load throws, without tables around another message, rejected, not there; a cut at any moment | `PartsAreOwn`: each context is made of its own data with its own sub-nodes, none of them moved from; `AnswersAreOwn`: every getter answers for this message or attachment; `EndsOnlyOn` |

The violations are disagreements between the code and its own comments or
README; `PROJECT.json` quotes both sides under `findings`:

1. `load()` tells XBLOCK from XXBLOCK by `btype` (NDB.h:748, 753), which is 1 for
   both; it should be `cLevel`.
2. `_siBlockToSLEntries` uses offsets for sizes and does not seek (NDB.h:1138,
   1145, 1151, 1156).
3. `getDataTree` answers for NIDs of nested trees (NDB.h:1071). The counterexample of
   `SubNodes_own` shows both this and 2.
4. `getFolder("Inbox")` returns the first folder whose name contains the label
   (Messaging.h:488), where the README says it returns the one labelled so
   (README.md:33). `FoundIsFirst` says nothing of which one is right there.
5. `readBTHRecords` cuts the records of an index level with the length of leaf records
   (LTP.h:779, 785), so a property context of more than one allocation of records does
   not load.

Other places where the code and a comment differ, or where a caller may be surprised.
They are part of the models and of no run of their own:

* A cell whose existence bit is not set ends the debug build (LTP.h:1286), where the
  comment says that it MUST be "not found" (LTP.h:1352). `AbsentCell` does what the code
  does; `EndsOnlyOn` of `Table` does not say that it is right, and leaves such cells out.
* Two nodes of a group whose types have no name end the debug build, and overwrite each
  other in the release build (NDB.h:385-386): see `AllIsTheGroup`.
* A freed allocation, of no bytes, ends the debug build when its page map is read
  (LTP.h:651): see `EndsOnlyOn` of `Properties`.
* Multi-valued types of small elements count as of fixed size (utils.h:341-348), so that
  their HNID is returned as the value; `AnswerIsTheValue` leaves multi-valued types out.
* `TryToGetProperty` throws on a property that is not there (LTP.h:1100), and the getters
  of an attachment do not ask first (Messaging.h:31-89): `AskAttachment`.

Deadlock is not checked: every one of these programs really stops, by finishing,
by aborting or by an exception that nothing in the library catches.

### Bounds

* `MaxStale = 1` (`DataTree`): retries of a load that throws stop once a tree
  holds that many stale entries. One is enough for a stale entry to meet a retry;
  that no number of them matters is proved (`LoadedData`).
* Two objects: no step of the code involves more. That no number matters is proved
  (`LoadedData`).
* Three calls of `read()`: one that cannot open, one that opens, one on the open
  stream. That no number of them matters is proved (`FoldersValid`).
* Trees of three levels: the first with a node that is neither root nor leaf. That no
  depth and no width matters is proved (`GetStaysLookup`, `ReadyStaysComplete`,
  `AllStaysOrNothing`).
* A matrix of three blocks: the first with a block that is neither first nor last.
  That no number of blocks and no size of a row matters is proved (`RowsFound`).
* A heap of ten blocks: the first size at which two blocks have other headers than the
  rest (the ninth) and than the first; B-trees of two index levels: the first with a
  level that is neither root nor just above the leaves. That no number of blocks, levels
  or properties matters is proved (`RecordsStayTheFiles`, `AnswerStaysTheValue`).
* Two attachments: a first one that must leave the second its own; and one message
  nested in another, so that a NID can mean something on two levels. That no number of
  attachments and no nesting matters is proved (`AnswersStayOwn`).
* Batches of 1 to 6 over at most 5 messages: dividing, not dividing, exceeding. That no
  size matters is proved (`BatchesStayTheFolder`).

### Fairness

`WF_vars` of the steps inside a call, in `DataTree` and `Folders`: a single thread that is
inside `load()`, a constructor or `getNMessages` goes on, since nothing in them waits. No
fairness is assumed for the program's calls or for what happens to the file. The other
modules state safety only: their calls are straight lines or loops over data that is
already there.

## 4. The proofs

All theorems are about every value of the constants that satisfies the module's `ASSUME`,
and about both builds. What a module's assumptions say of a file is what the format says
of it, in the comments that the source quotes; that the file is cut at any moment is part
of the models and not excluded by an assumption.

`DataTreeProofs` starts with the arithmetic of block sizes: for every size of data,
`calcBlockAlignedSize` returns the smallest multiple of 64 that holds the data and its
16 byte trailer (`AlignedSizeIsSmallest`), and its assertion rejects exactly sizes above
8176 (`DataThatFits`). Then it proves all safety properties of `DataTree`. `TypeCorrect`
and `LoadedData` (`Spec => []LoadedIsImage`) hold for every file image that satisfies
`ImageAssumption` and every number of objects. `LoadedIsImage` speaks only of trees that
are set up, so it is not inductive. `IInv` adds

* `RestingOK`: a tree that no load works on has no blocks unless it is set up,
  and **stale entries only if some BID of its node is missing from the BBT** (so
  that no retry gets past `CollectEntries`). This is what makes retries safe, and
  the reason the unguarded `m_dataBlockBBTs` does no harm;
* `ControlOK`, `CollectOK`, `FlushOK`: what is collected is what the XBLOCK lists;
* `TotalOK`: for blocks that lie contiguously, the running sum of sizes is the
  offset of the next block, so that the one read reaches to the end of the last;
* `PushedOK`, `FinishedOK`: the blocks pushed so far are those of the entries
  passed.

There is one lemma for each action. The assumptions are `ImageAssumption` (blocks
at distinct offsets, XBLOCKs list data blocks, sizes within the 8176 bytes of the
format) and `ParameterAssumption`. The other three follow from the same `IInv`:

* `LoadedAgain` (`LoadingAgainAddsNothing`): `LoadFrame` shows that a step of a load
  touches the object it works on and no other, and `ControlOK` that this one's flag is
  not set.
* `NeverAborts` (`IntactNeverAborts`), with `IntactOK`: while the file is whole no read
  fails. The read of several blocks at once is the one that needs an argument, since
  its length is a running sum; `TotalOK` bounds it by the end of the last block.
* `ShortReadsCaught` (`AssertsCatchShortReads`), with `ShownOK` for trees at rest and
  `CaughtOK` for the one being loaded: each block pushed so far has passed the assertion
  on its trailer's signature, which zeros do not pass.

The module ends with `ImplementsLazyTree` (`Spec => LazySpec`), that initial states map to
initial states and each step to one of `LazyTree` or a stutter. `FinishLoad` is the one
step of a load that can be seen, and `LoadedData` and `ShownOK` say what it shows. The
theorem assumes that no node starts with an XXBLOCK, which `DataTree` loads wrongly
(finding 1).

`NDBProofs`: all of `NDB`'s properties, for B-trees of every height and any pages. A
constructor that runs is known by its path, and those that wait for it by the prefixes of
that path. The invariant comes in parts:

* `TInv`: every page that was read is the file's page for its path, or zeros, and lies
  below one that arrived (`InPlace`). It gives `TypeCorrect`.
* `OInv`: a page of zeros means that the failbit is set, for good (`ZeroIsFail`), and
  nothing has been read yet that comes after the running constructor (`NoneAhead`), so
  what comes next fails too. It gives `LossStaysATail`.
* `NInv`: a page off the running path has all its children. So a tree that was read to
  its end without a failure is the file's (`FinishedIsImage`).
* `VInv`: with assertions, `verify` has found the nodes it asks for. With the others it
  gives `ReadyStaysComplete`.

`GetStaysLookup` and `AllStaysTheGroup` are about trees that are complete. The search is a
recursive function over pages, and no induction theorem can be used on it: `FindExists`
shows that the function is there by a least level without one, `FindSound` and
`FindComplete` that an answer is an entry of the file and that each entry is answered, by
the least path that would contradict. The entry of an id is unique because ids are, and
the keys of the pages above a leaf lead to it because the keys of a page are in order and
bound those of its children.

`SubNodesProofs`: all of the passing properties of `SubNodes`, for files of any depth.

* `TypeCorrect` needs the type of what an SIBLOCK expands to, a concatenation that is
  defined recursively; it is proved by its least counterexample (`FlatType`).
* `BuiltWhole` (`BuiltIsImage`): the property speaks of the end only. `Nesting` says that
  the trees outside the path have been through all of their entries, and that the trees
  there are, are those of the entries passed. When the root's constructor returns no tree
  is outstanding. That an entry, however torn, has the NID of its block's entry as soon as
  it has a sub-node (`UniqueSubs`) keeps the paths of two trees apart. The entries are
  the block's as long as no read failed and no SIBLOCK was met.
* `LossStaysATail` (`LossIsATail`), with `Losses`: a tree has what a first part of its
  block makes; one that lacks anything means that the failbit is set, and the trees read
  after it are empty.
* `ReadyStaysComplete` (`ReadyIsComplete`), with `Stopped`: with assertions no read is
  made after a failed one. The one that fails passes only with a signature of 0, so at
  most one tree is not whole, and an SIBLOCK passes only where `MayPass` says so: its
  buffer is read from behind it, and its assertions compare a signature that may be 0, or
  be the length of bytes that lie before it. The theorem is about the entries; whether
  the data trees they name load is the matter of `DataTree`.
* `AnswerStaysShallowest` (`AnswerIsShallowest`): there are finitely many depths
  (`Bounded`), so the recursion of `getDataTree` ends; what every nested tree answers
  rightly, the tree does (`GetStep`).

`ReaderProofs`: `TypeCorrect`, `FoldersValid` (`Spec => []FoldersStayValid`),
`UndefinedUnread` (`Spec => []UndefinedOnlyUnread`) and `FirstDecides`
(`Spec => FirstOpenDecides`) for any number of calls of
`read()`. The invariant says that the stream is opened once: an open on an open
stream fails (`BuildingOK`), and a failed stream does not get past the header, so
the three objects are replaced by at most one `read()`, before any folder is
handed out. The safety of the pointers thus rests on the second open *failing*:
the mutant `Reopen`, which closes the stream first, violates it. `FirstDecides` is about
what happens after a state with some Messaging object: `Settled` of that object is kept
by every step.

`FoldersProofs`: all safety properties of `Folders`, for every hierarchy and every size of
batch: `TypeCorrect`, `AllStaysOrNothing`, `FoundStaysFirst`, `BatchesStayTheFolder`.
`IInv` follows the constructors as in `NDBProofs`: every folder is the one in its parent's
row (`TreeOK`); those on the running path are at the row that leads to it (`PathOK`); each
row passed has its folder (`ChildrenOK`); and the folders off the path are at their end
(`DoneOK`). The program gets a folder only after the root's constructor has returned, so
the tree it searches is the whole one (`ImageIs`). `getFolder`'s search is a recursive
function over paths, treated as that of `NDB`; `SearchStep` shows that the first child
that answers has the first match of the tables' order. For the batches the invariant is
that what was read is the folder up to the end of the last batch, or up to the message
that is lost (`UseOK`). `FoldersAssumption` takes from the format that the hierarchy is a
tree; without it a constructor need not return (section 5).

`TableProofs`: all of `Table`'s passing properties (`TypeCorrect`, `RowsFound`,
`AnswersAreCells`, `EndsOnly` with its halves `UndefinedCut` and `AbortsLost`,
`LoadedKept`), for every set of
tables that satisfies `TableAssumption`. The core is `FindsRow`: with `F` rows in a
full block and `R <= F` in the last of `n`, a row `k < (n - 1) * F + R` has its
quotient below `n`, and below `R` its remainder when the quotient is `n - 1`. The
properties are inductive together with three facts: what is asked for is in the row
index (`AskedOK`); a loaded matrix is the file's, and not one whose load throws, unless a
read has failed, which takes a cut (`MatrixOK`); every loaded entry is filed under its own
row (`CellsOK`). That the
matrix in a heap has as many rows as the index, and that all blocks but the last are
full, is what the code asserts and `TableAssumption` takes from the format.

`MessageProofs`: all of `Message`'s properties, for every message, with any number of
attachments and sub-nodes of any depth. `ContextsOwnTheirs` (`PartsAreOwn`) is about the
end of `Init`; what makes it true is the order in which `Init` takes the message's one
tree apart. `Own` follows it: `MadeOK` says which contexts there are at
each step; `PartsOK`, that each was made of its own data and has its own tree, with
nothing in it moved from; and `RestOK`, what is still in the message's tree, namely the
file's without what lies under the tables made so far, with data moved from only under
contexts that are made. So the next context finds its own data and, by the condition of
the property that the message has each NID itself if any message nested in it has
(`OwnParts`, finding 3), no one else's (`FoundOwn`).

`AnswersStayOwn` (`AnswersAreOwn`) and `EndsStayExplained` (`EndsOnlyOn`) go on from
there: data that came short was read with the failbit set (`NoShort`), which is set only
in a file that was cut (`FailCut`); so while no read fails, a context that asks for a
value finds one path, its own (`FoundUnder`), and the data there is all of it
(`ValueIs`). `Listing` says that the list of recipients is that of the rows before, where
the addresses of the first rows are a recursive function of their number. Before `Init`
ends nothing is asked for (`Unasked`), and a message that is not there has no contexts
(`Absent`). `MessageAssumption` says that the two sentinels, `None` and `Threw`, are not
values of the program.

`PropertiesProofs`: all of `Properties`' passing properties (`TypeCorrect`,
`RecordsStayTheFiles`, `AnswerStaysTheValue`, `EndsStayExplained`, `FetchedIsKept`), for
heaps of any number of blocks and B-trees of any depth and width.

* `TypeCorrect` needs that a header, an HID or a record cut out of a sequence of words is
  of its type (`HeaderFacts`, `HIDsType`, `ChunksType`), and so is what the arrays of a
  level make when they are put together. Both that concatenation and the levels of
  `FileLevel` are recursive functions; that they are there and of their type is shown by a
  least counterexample (`FlatExists`, `FlatType`, `LevelsExist`, `LevelType`).
* `RecordsStayTheFiles` (`RecordsAreTheFiles`): `LevelOK` says that the words read so far
  are those of the file's level; the step to the next one is `NextLevelIs`, and `TreeFacts`
  that no HID on the way leads to nothing.
* `AnswerStaysTheValue` (`AnswerIsTheValue`): `PropIs` relates each property to the one
  record of its id. Not loaded, its data is what names the value; loaded, it is the value,
  unless it was fetched after a read had failed. `AskWell` goes through the four ways a
  call may go, by where the value is; this is where an HNID taken for a value, or a
  value for an HNID, would show.
* `EndsStayExplained` (`EndsOnlyOn`), with `EndsOK`, from the same two.

`ImageAssumption`, by way of `ImageOf`, takes from the format that the B-tree is
whole, that `cbKey` and `cbEnt` are 2 and 6 or, in a row index, 4 and 4, that ids are
unique, and that values of a fixed size above 4 bytes are in the heap.

Four properties were restated because the proof of the first form failed for a reason:
`ReadyIsComplete` of `SubNodes` overlooked the SIBLOCKs of `MayPass`, which no small file
had; `AnswersAreOwn` and `EndsOnlyOn` of `Message` hold only where sentinels differ from
values; `EndsOnlyOn` of `Properties` overlooked that the wrong records which finding 5
makes can also name an allocation or a sub-node that is not there, for a value the file
has in another place.

What stays with TLC is liveness (`LoadEnds`, `CallsEnd`), which is beyond this prover, and
with it fairness. Both are about the calls of `DataTree` and `Folders`.

## 5. Not modelled

* Parsing: field layout of headers, pages, trailers and blocks, CRC, block
  signatures, the permutation cipher. The models start from what a block means.
* Conversions of a property's bytes (`asPTBinary`, `asPTString`, `readPTMV`, times and
  entry ids): pure functions of the bytes that the models show to be the right ones.
* Of `TableContext`: `loadEntireRow`, which nothing calls; columns and row ids that the
  table does not have; a matrix whose sub-node is missing.
* Of `MessageObject`: which properties and columns its constructors assert; one flag says
  whether they are there.
* A hierarchy table that lists a folder under itself: the constructor would
  recurse without end. `FoldersAssumption` excludes it, as the format does.
* Tests, build files, packaging.

## 6. Plan

Done, in this order: `DataTree` and its abstract specification; the B-trees; sub-nodes;
the reader; folders; tables; the heap and properties; messages. Proved: every safety
property of every module, and the refinement.

Left, by what it would add:

1. That one layer implements what the next takes of it (section 2), as refinements of
   abstract specifications like `LazyTree`: `NDB` of a look-up, `SubNodes` of the search
   of `Message`.
2. The conversions of a property's bytes, on bounded inputs.
