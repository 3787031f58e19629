-------------------------------- MODULE NDB --------------------------------
(***************************************************************************)
(* The node database (src/include/NDB.h): NDB's constructor reads the node *)
(* B-tree and then the block B-tree, each page by page and depth first,    *)
(* into memory; get() and all() then search the pages and never touch the  *)
(* file again.                                                             *)
(*                                                                         *)
(* A page in memory is known by the path of child indices that leads to it *)
(* from its root: built[t] maps the paths of tree t to what the 512 bytes  *)
(* read there held, a page of the file or Zero, the zero filled buffer of  *)
(* a read that came short.  A Zero page has no entries, cLevel 0 and the   *)
(* page type INVALID.                                                      *)
(***************************************************************************)
EXTENDS Integers, Sequences

CONSTANTS
  Page,        \* the B-tree pages of the file
  Root,        \* tree -> its root page, as the header's BREF has it
  Ib,          \* Page -> its place in the file, in pages
  Level,       \* Page -> cLevel
  Keys,        \* Page -> the btkeys of an inner page, the NIDs or BIDs of a leaf
  Child,       \* Page -> the pages an inner page points to
  FileSize,    \* pages in the file when it is opened
  Special,     \* the NIDs verify() asserts: message store, name map, root folder
  Zero, None

Trees == {"NBT", "BBT"}

Last(s) == s[Len(s)]
Above(path) == SubSeq(path, 1, Len(path) - 1)

\* The pages of tree t in the file, by path.
Image == [t \in Trees |->
  LET at[n \in 0..Level[Root[t]]] ==
        IF n = 0 THEN [p \in {<<>>} |-> Root[t]]
        ELSE LET upper == at[n-1]
                 inner == {p \in DOMAIN upper : Level[upper[p]] > 0 /\ Len(p) = n - 1}
                 below == UNION {{Append(p, i) : i \in DOMAIN Child[upper[p]]} : p \in inner}
             IN  [p \in DOMAIN upper \cup below |->
                    IF p \in DOMAIN upper THEN upper[p]
                    ELSE Child[upper[Above(p)]][Last(p)]]
  IN  at[Level[Root[t]]]]

\* The leaves of tree t.
Leaves(t) == {p \in {Image[t][q] : q \in DOMAIN Image[t]} : Level[p] = 0}

ASSUME PagesAssumption ==
  /\ Root \in [Trees -> Page] /\ Ib \in [Page -> Nat] /\ Level \in [Page -> Nat]
  /\ Keys \in [Page -> Seq(Nat)] /\ Child \in [Page -> Seq(Page)]
  /\ \A p \in Page : IF Level[p] = 0 THEN Child[p] = <<>>
                     ELSE /\ Len(Child[p]) = Len(Keys[p])
                          /\ \A i \in DOMAIN Child[p] : Level[Child[p][i]] = Level[p] - 1
  /\ \A p \in Page : \A i, j \in DOMAIN Keys[p] : i < j => Keys[p][i] < Keys[p][j]
  /\ \A p \in Page : \A i \in DOMAIN Child[p] : \A j \in DOMAIN Keys[Child[p][i]] :
        Keys[p][i] <= Keys[Child[p][i]][j]
  \* "Top-level NIDs are unique across the PST", as BIDs are
  /\ \A t \in Trees : \A p, q \in Leaves(t) : \A i \in DOMAIN Keys[p], j \in DOMAIN Keys[q] :
        Keys[p][i] = Keys[q][j] => p = q
  /\ FileSize \in Nat /\ \A p \in Page : Ib[p] < FileSize
  /\ Special \subseteq Nat
  /\ Zero \notin Page /\ None \notin Page \X Nat

VARIABLES
  assertsOn, \* the build: STORYT_ASSERT aborts, or is a no-op
  built,    \* tree -> path -> the page read there
  fileLen,  \* pages the file still has
  fail,     \* the stream's failbit
  pc,       \* "read", "loop", "verify", "ready" or "aborted"
  doing,    \* the tree that is being read
  path      \* the page whose constructor runs

vars == <<assertsOn, built, fileLen, fail, pc, doing, path>>

TypeOK ==
  /\ assertsOn \in BOOLEAN
  /\ DOMAIN built = Trees
  /\ \A t \in Trees : /\ DOMAIN built[t] \subseteq DOMAIN Image[t]
                       /\ \A p \in DOMAIN built[t] : built[t][p] \in Page \cup {Zero}
  /\ fileLen \in 0..FileSize /\ fail \in BOOLEAN
  /\ pc \in {"read", "loop", "verify", "ready", "aborted"}
  /\ doing \in Trees /\ path \in DOMAIN Image[doing]

Init ==
  /\ assertsOn \in BOOLEAN
  /\ built = [t \in Trees |-> <<>>]
  /\ fileLen = FileSize /\ fail = FALSE
  /\ pc = "read" /\ doing = "NBT" /\ path = <<>>

-----------------------------------------------------------------------------
(* Reading the trees. *)

\* Mutant of Arrives: a failed read does not stop later reads.
ArrivesAfterFail(page) == Ib[page] < fileLen

\* readBytes at a position: all 512 bytes arrive or the stream has failed.
Arrives(page) == ~fail /\ Ib[page] < fileLen

\* Mutant of Asserted: neither the stream nor the page type is looked at.
AssertedNothing(arrived) == TRUE

\* With assertions readBytes aborts on a stream that has failed before or after
\* the read, and getPType on the page type of a Zero page.
Asserted(arrived) == assertsOn => arrived

\* The page that the thread is to read, and its parent's constructor waits for.
Wanted == IF path = <<>> THEN Root[doing] ELSE Child[built[doing][Above(path)]][Last(path)]

\* InitBTPage for a root, the loop of BTPage's constructor for a child: read the
\* page and set it up.
ReadPage ==
  LET arrived == Arrives(Wanted)
      page    == IF arrived THEN Wanted ELSE Zero
  IN  /\ pc = "read"
      /\ IF ~Asserted(arrived)
         THEN pc' = "aborted" /\ UNCHANGED <<built, fail>>
         ELSE /\ built' = [built EXCEPT ![doing] =
                   [p \in DOMAIN @ \cup {path} |-> IF p = path THEN page ELSE @[p]]]
              /\ fail' = ~arrived
              /\ pc' = "loop"
      /\ UNCHANGED <<assertsOn, fileLen, doing, path>>

ChildrenOf(page) == IF page = Zero \/ Level[page] = 0 THEN <<>> ELSE Child[page]

\* subPages.size() of the page whose constructor runs.
NumSubPages ==
  LET subs == {i \in DOMAIN ChildrenOf(built[doing][path]) :
                 Append(path, i) \in DOMAIN built[doing]}
  IN  IF subs = {} THEN 0 ELSE CHOOSE i \in subs : \A j \in subs : j <= i

\* Mutant of NextChild: one entry too many.
NextChildPast ==
  /\ pc = "loop"
  /\ NumSubPages <= Len(ChildrenOf(built[doing][path]))
  /\ path' = Append(path, NumSubPages + 1)
  /\ pc' = "read"
  /\ UNCHANGED <<assertsOn, built, fileLen, fail, doing>>

\* hasBTEntries(): go on with the next entry.
NextChild ==
  /\ pc = "loop"
  /\ NumSubPages < Len(ChildrenOf(built[doing][path]))
  /\ path' = Append(path, NumSubPages + 1)
  /\ pc' = "read"
  /\ UNCHANGED <<assertsOn, built, fileLen, fail, doing>>

\* The constructor returns to the page above, or the tree is complete.
Return ==
  /\ pc = "loop"
  /\ NumSubPages = Len(ChildrenOf(built[doing][path]))
  /\ IF path # <<>>
     THEN path' = Above(path) /\ UNCHANGED <<pc, doing>>
     ELSE /\ UNCHANGED path
          /\ IF doing = "NBT" THEN doing' = "BBT" /\ pc' = "read"
                              ELSE pc' = "verify" /\ UNCHANGED doing
  /\ UNCHANGED <<assertsOn, built, fileLen, fail>>

-----------------------------------------------------------------------------
(* Searching them.  An entry is <<page, index>>. *)

\* Mutant of Follows: the first key of a child is not in the child.
FollowsAbove(id, key) == id > key

\* id > btkey || id == btkey; the > of BID and NID is itself "not less".
Follows(id, key) == id >= key

\* == of BID and NID compares the raw values.
SameId(a, b) == a = b

\* BTPage::get: the first match of a leaf; of an inner page, the first match in
\* the children whose key is not above id, in order.
Get(t, id) ==
  LET find[p \in DOMAIN built[t]] ==
        LET page == built[t][p]
            here == {i \in DOMAIN Keys[page] :
                       IF Level[page] = 0 THEN SameId(Keys[page][i], id)
                       ELSE Follows(id, Keys[page][i]) /\ find[Append(p, i)] # None}
            first == CHOOSE i \in here : \A j \in here : i <= j
        IN  CASE page = Zero -> None
              [] page # Zero /\ here = {} -> None
              [] page # Zero /\ here # {} ->
                   IF Level[page] = 0 THEN <<page, first>> ELSE find[Append(p, first)]
  IN  find[<<>>]

NIDIndex(nid) == (nid \div 32) * 32

\* getNIDType has no name for some of the 32 types and calls all of them INVALID.
Unnamed == {9} \cup 20..30
Invalid == 32
NIDType(nid) == IF nid % 32 \in Unnamed THEN Invalid ELSE nid % 32

\* Mutant of InGroup: only the node itself.
InGroupAlone(nid, other) == nid = other

\* all_ compares the indices, not the types.
InGroup(nid, other) == NIDIndex(nid) = NIDIndex(other)

\* The entries of the node's group.
Matches(nid) ==
  UNION {{<<built["NBT"][p], i>> :
            i \in {j \in DOMAIN Keys[built["NBT"][p]] : InGroup(Keys[built["NBT"][p]][j], nid)}} :
          p \in {q \in DOMAIN built["NBT"] :
                   built["NBT"][q] # Zero /\ Level[built["NBT"][q]] = 0}}
IdOf(entry) == Keys[entry[1]][entry[2]]

\* entries.contains(type), for the later of two entries with one type.
Duplicate(nid) ==
  \E e, f \in Matches(nid) : e # f /\ NIDType(IdOf(e)) = NIDType(IdOf(f))

\* BTPage::all: the entries of the group, by type.  Two with one type end the program
\* where it asserts (None); where it does not, the later overwrites the earlier.
All(nid) ==
  LET types == {NIDType(IdOf(e)) : e \in Matches(nid)}
      of(ty) == {e \in Matches(nid) : NIDType(IdOf(e)) = ty}
  IN  IF assertsOn /\ Duplicate(nid) THEN None
      ELSE [ty \in types |-> CHOOSE e \in of(ty) : \A f \in of(ty) : IdOf(f) <= IdOf(e)]

\* NDB::verify at the end of the constructor.
Verify ==
  /\ pc = "verify"
  /\ pc' = IF assertsOn /\ \E nid \in Special : Get("NBT", nid) = None
           THEN "aborted" ELSE "ready"
  /\ UNCHANGED <<assertsOn, built, fileLen, fail, doing, path>>

-----------------------------------------------------------------------------
\* Whoever owns the file cuts it.
Truncate(n) ==
  /\ pc # "aborted" /\ n < fileLen
  /\ fileLen' = n
  /\ UNCHANGED <<assertsOn, built, fail, pc, doing, path>>

Next ==
  \/ ReadPage \/ NextChild \/ Return \/ Verify
  \/ \E n \in 0..FileSize : Truncate(n)

Spec == Init /\ [][Next]_vars

-----------------------------------------------------------------------------
(* What the reader relies on. *)

\* The entry of tree t for id in the file, whatever its pages.
Lookup(t, id) ==
  LET entries == UNION {{<<p, i>> : i \in {j \in DOMAIN Keys[p] : Keys[p][j] = id}} :
                          p \in Leaves(t)}
  IN  IF entries = {} THEN None ELSE CHOOSE e \in entries : TRUE

\* Every id there is, the gaps behind each, and one before the first.
Known == UNION {{Keys[p][i] : i \in DOMAIN Keys[p]} : p \in Page}
Ids   == {0} \cup Known \cup {id + 1 : id \in Known}

Complete == \A t \in Trees : built[t] = Image[t]

\* When every page arrived, get() finds each entry of the file, and only by its
\* own id, through the keys of the pages above it: at a key, between two keys,
\* before the first and behind the last.
GetIsLookup ==
  (pc = "ready" /\ Complete) =>
     \A t \in Trees, id \in Ids : Get(t, id) = Lookup(t, id)

Before(p, q) ==
  \/ Len(p) < Len(q) /\ SubSeq(q, 1, Len(p)) = p
  \/ \E k \in DOMAIN p \cap DOMAIN q :
        p[k] < q[k] /\ \A j \in 1..(k-1) : p[j] = q[j]

\* A page that comes short takes every page read after it along, those that the
\* file still has too, and the whole block B-tree if it is of the node B-tree:
\* without assertions the database loses a tail, never a hole.
LossIsATail ==
  /\ \A t \in Trees : \A p, q \in DOMAIN built[t] :
        (built[t][p] = Zero /\ Before(p, q)) => built[t][q] = Zero
  /\ (\E p \in DOMAIN built["NBT"] : built["NBT"][p] = Zero)
        => \A p \in DOMAIN built["BBT"] : built["BBT"][p] = Zero

\* With assertions, a database that is handed out has every page of the file
\* and the three nodes that the layers above take for granted.
ReadyIsComplete ==
  (assertsOn /\ pc = "ready") =>
     /\ Complete
     /\ \A nid \in Special : Lookup("NBT", nid) # None

\* A folder is four nodes with one index.  all() returns each of them that the
\* file has under its own type, when the types have names of their own; it ends the
\* program exactly where it asserts and two of them have types without a name.
AllIsTheGroup ==
  (pc = "ready" /\ Complete) =>
     \A nid \in Ids :
        LET inFile == {id \in Ids : NIDIndex(id) = NIDIndex(nid) /\ Lookup("NBT", id) # None}
            unnamed == {id \in inFile : NIDType(id) = Invalid}
        IN  IF assertsOn /\ \E a, b \in unnamed : a # b
            THEN All(nid) = None
            ELSE /\ DOMAIN All(nid) = {NIDType(id) : id \in inFile}
                 /\ \A id \in inFile \ unnamed : All(nid)[NIDType(id)] = Lookup("NBT", id)
=============================================================================
