------------------------------- MODULE Folders -------------------------------
(***************************************************************************)
(* The folders of a store and the program that reads them                  *)
(* (src/include/Messaging.h, class Folder, and src/example/main.cpp).      *)
(* Constructing the root folder constructs every folder below it, row by   *)
(* row of the hierarchy tables; getFolder() searches them; the program's   *)
(* loop reads the messages of the folder it got in batches.                *)
(*                                                                         *)
(* A folder is known by its path from the root: the rows of the hierarchy  *)
(* tables that lead to it.  Reads of the file succeed here (Reader and     *)
(* DataTree have those that do not); what the folders' nodes lack is       *)
(* chosen by the constants.                                                *)
(***************************************************************************)
EXTENDS Naturals, Sequences

CONSTANTS
  Nid,        \* the folders' NIDs
  Root,       \* the one in the store's IpmSubTreeEntryId
  PartsOf,    \* choices for what all() finds: each Nid -> the kinds of node
  SubFolders, \* Nid -> the row ids of its hierarchy table
  Messages,   \* Nid -> the row ids of its contents table
  Name,       \* Nid -> its display name
  Ids,        \* what getFolder may be asked for: NIDs, labels, patterns
  Accepts,    \* Ids -> the names (or the NID) that it matches
  Lost,       \* messages that the NBT lacks
  Broken,     \* messages whose node names a block that the BBT lacks
  BatchSizes, \* the batches that the program may choose
  None

FourParts == {"NORMAL_FOLDER", "HIERARCHY_TABLE", "CONTENTS_TABLE", "ASSOC_CONTENTS_TABLE"}

ASSUME FoldersAssumption ==
  /\ Root \in Nid /\ \A parts \in PartsOf : DOMAIN parts = Nid
  /\ SubFolders \in [Nid -> Seq(Nid)]
  \* the hierarchy is a tree: a folder under itself would never be built
  /\ \A n, m \in Nid : \A i \in DOMAIN SubFolders[n], j \in DOMAIN SubFolders[m] :
       SubFolders[n][i] = SubFolders[m][j] => n = m /\ i = j
  /\ \A n \in Nid : \A i \in DOMAIN SubFolders[n] : SubFolders[n][i] # Root
  /\ DOMAIN Messages = Nid /\ DOMAIN Name = Nid /\ DOMAIN Accepts = Ids
  /\ \A n \in Nid : Messages[n] \in Seq({Messages[n][k] : k \in DOMAIN Messages[n]})
  /\ BatchSizes \subseteq Nat \ {0}
  /\ None \notin Nid \cup Ids /\ None \notin Seq(Nat \ {0})

VARIABLES
  assertsOn, \* the build: STORYT_ASSERT aborts, or is a no-op
  parts,  \* what all() finds under the index of each NID
  folder, \* path -> [nid, next]: the folder and its position in _setupSubFolders
  path,   \* the folder whose constructor runs
  found,  \* what getFolder returned: a path, or None
  asked,  \* what it was asked for, or None
  batch,  \* the program's batchSize
  i,      \* its loop variable
  got,    \* the messages it has read
  pc      \* "init", "subfolders" inside read(); "ready"; "found"; "loop"; "thrown",
          \* "undefined", "aborted"

image == <<assertsOn, parts>>
program == <<found, asked, batch, i, got>>
vars == <<image, folder, path, program, pc>>

Above(p) == SubSeq(p, 1, Len(p) - 1)
NidOf(p) == folder[p].nid

TypeOK ==
  /\ assertsOn \in BOOLEAN /\ parts \in PartsOf
  /\ \A p \in DOMAIN folder :
       /\ p # <<>> => Above(p) \in DOMAIN folder
       /\ NidOf(p) \in Nid /\ folder[p].next \in 1..(Len(SubFolders[NidOf(p)]) + 1)
  /\ path \in Seq(Nat \ {0}) /\ found \in DOMAIN folder \cup {None}
  /\ asked \in Ids \cup {None} /\ batch \in BatchSizes /\ i \in Nat
  /\ pc \in {"init", "subfolders", "ready", "found", "loop", "thrown", "undefined", "aborted"}

Init ==
  /\ assertsOn \in BOOLEAN /\ parts \in PartsOf
  /\ folder = <<>> /\ path = <<>> /\ pc = "init"
  /\ found = None /\ asked = None /\ batch \in BatchSizes /\ i = 0 /\ got = <<>>

-----------------------------------------------------------------------------
(* Construction. *)

Wanted == IF path = <<>> THEN Root
          ELSE SubFolders[NidOf(Above(path))][folder[Above(path)].next]

\* Mutant of InitFolder: a folder that lacks a part is left out.
InitFolderOrSkip ==
  /\ pc = "init"
  /\ IF FourParts \subseteq parts[Wanted]
     THEN /\ folder' = [p \in DOMAIN folder \cup {path} |->
                          IF p = path THEN [nid |-> Wanted, next |-> 1] ELSE folder[p]]
          /\ pc' = "subfolders" /\ UNCHANGED path
     ELSE IF path = <<>> THEN pc' = "thrown" /\ UNCHANGED <<folder, path>>
     ELSE /\ folder' = [folder EXCEPT ![Above(path)].next = @ + 1]
          /\ path' = Above(path) /\ pc' = "subfolders"
  /\ UNCHANGED <<image, program>>

\* Folder::Init: the assertions on the four parts, or at() throws on the one that
\* is not there, and all that is built unwinds.
InitFolder ==
  /\ pc = "init"
  /\ IF FourParts \subseteq parts[Wanted]
     THEN /\ folder' = [p \in DOMAIN folder \cup {path} |->
                          IF p = path THEN [nid |-> Wanted, next |-> 1] ELSE folder[p]]
          /\ pc' = "subfolders"
     ELSE /\ folder' = <<>>
          /\ pc' = IF assertsOn THEN "aborted" ELSE "thrown"
  /\ UNCHANGED <<image, path, program>>

More == folder[path].next <= Len(SubFolders[NidOf(path)])

\* _setupSubFolders: construct the folder of the next row.
EnterSubFolder ==
  /\ pc = "subfolders" /\ More
  /\ path' = Append(path, folder[path].next) /\ pc' = "init"
  /\ UNCHANGED <<image, folder, program>>

\* Mutant of Return: the row counts twice.
ReturnPast ==
  /\ pc = "subfolders" /\ ~More
  /\ IF path = <<>>
     THEN pc' = "ready" /\ UNCHANGED <<folder, path>>
     ELSE /\ folder' = [folder EXCEPT ![Above(path)].next = @ + 2]
          /\ path' = Above(path) /\ UNCHANGED pc
  /\ UNCHANGED <<image, program>>

\* Mutant of Return: the row is constructed again.
ReturnInPlace ==
  /\ pc = "subfolders" /\ ~More
  /\ IF path = <<>>
     THEN pc' = "ready" /\ UNCHANGED path
     ELSE path' = Above(path) /\ UNCHANGED pc
  /\ UNCHANGED <<image, folder, program>>

\* The constructor returns, and the folder is pushed onto its parent's.
Return ==
  /\ pc = "subfolders" /\ ~More
  /\ IF path = <<>>
     THEN pc' = "ready" /\ UNCHANGED <<folder, path>>
     ELSE /\ folder' = [folder EXCEPT ![Above(path)].next = @ + 1]
          /\ path' = Above(path) /\ UNCHANGED pc
  /\ UNCHANGED <<image, program>>

-----------------------------------------------------------------------------
(* The program. *)

Accepted(p, id) == NidOf(p) \in Accepts[id] \/ Name[NidOf(p)] \in Accepts[id]

\* Mutant of Search: a subfolder's answer is returned even if it is nullptr.
SearchFirstChild(id) ==
  LET get[p \in DOMAIN folder] ==
        IF Accepted(p, id) THEN p
        ELSE IF Append(p, 1) \in DOMAIN folder THEN get[Append(p, 1)] ELSE None
  IN  get[<<>>]

\* Folder::getFolder: itself, or the first answer of its subfolders.
Search(id) ==
  LET get[p \in DOMAIN folder] ==
        LET answers == {j \in 1..Len(SubFolders[NidOf(p)]) : get[Append(p, j)] # None}
        IN  IF Accepted(p, id) THEN p
            ELSE IF answers = {} THEN None
            ELSE get[Append(p, CHOOSE j \in answers : \A k \in answers : j <= k)]
  IN  get[<<>>]

GetFolder(id) ==
  /\ pc = "ready"
  /\ asked' = id /\ found' = Search(id) /\ pc' = "found"
  /\ UNCHANGED <<image, folder, path, batch, i, got>>

\* The program uses the pointer without comparing it with nullptr.
StartLoop ==
  /\ pc = "found"
  /\ i' = 0 /\ got' = <<>>
  /\ pc' = IF found = None THEN "undefined" ELSE "loop"
  /\ UNCHANGED <<image, folder, path, found, asked, batch>>

InFolder == Messages[NidOf(found)]

\* Mutant of ActualEnd: the end is not clamped.
ActualEndAsked(end) == end

ActualEnd(end) == IF end < Len(InFolder) THEN end ELSE Len(InFolder)

\* Row r of the contents table ends getNMessages: it is not there, its message
\* does not construct, or an assertion misses it in the NBT.
Fails(r) ==
  \/ r >= Len(InFolder) \/ InFolder[r+1] \in Broken
  \/ assertsOn /\ InFolder[r+1] \in Lost

\* getNMessages(i, i + batchSize): a message that fails takes the batch with it.
NextBatch ==
  LET rows   == i .. (ActualEnd(i + batch) - 1)
      failed == {r \in rows : Fails(r)}
      first  == CHOOSE r \in failed : \A q \in failed : r <= q
  IN  /\ pc = "loop" /\ i < Len(InFolder)
      /\ IF failed = {}
         THEN /\ got' = got \o SubSeq(InFolder, i + 1, ActualEnd(i + batch))
              /\ i' = i + batch /\ UNCHANGED pc
         ELSE /\ pc' = IF first < Len(InFolder) /\ InFolder[first+1] \in Lost
                       THEN "aborted" ELSE "thrown"
              /\ UNCHANGED <<i, got>>
  /\ UNCHANGED <<image, folder, path, found, asked, batch>>

\* The loop is over; the program may ask for another folder.
EndLoop ==
  /\ pc = "loop" /\ i >= Len(InFolder)
  /\ found' = None /\ asked' = None /\ pc' = "ready"
  /\ UNCHANGED <<image, folder, path, batch, i, got>>

Step == InitFolder \/ EnterSubFolder \/ Return \/ StartLoop \/ NextBatch \/ EndLoop

Next == Step \/ \E id \in Ids : GetFolder(id)

\* What was called goes on; the program owes no call of getFolder.
Spec == Init /\ [][Next]_vars /\ WF_vars(Step)

-----------------------------------------------------------------------------

\* The paths of the image: every folder under the root.
ImageNid(p) ==
  LET at[k \in 0..Len(p)] ==
        IF k = 0 THEN Root
        ELSE IF at[k-1] # None /\ p[k] \in DOMAIN SubFolders[at[k-1]]
             THEN SubFolders[at[k-1]][p[k]] ELSE None
  IN  at[Len(p)]

\* All or nothing: a program gets a folder only from a store all of whose folders
\* were built, each once and in its place, whatever an earlier one lacked.
AllOrNothing ==
  pc \in {"ready", "found", "loop"} =>
    /\ \A p \in DOMAIN folder : NidOf(p) = ImageNid(p)
    /\ \A p \in DOMAIN folder : \A j \in DOMAIN SubFolders[NidOf(p)] :
         Append(p, j) \in DOMAIN folder

\* p is visited before q: it is above it, or in an earlier row where they part.
Precedes(p, q) ==
  \/ Len(p) < Len(q) /\ SubSeq(q, 1, Len(p)) = p
  \/ \E k \in 1..Len(p) : /\ k <= Len(q) /\ SubSeq(p, 1, k - 1) = SubSeq(q, 1, k - 1)
                          /\ p[k] < q[k]

\* The folders whose name is what was asked for.
Labelled == {p \in DOMAIN folder : Name[NidOf(p)] = asked}

\* getFolder returns nullptr only if no folder matches, else one that does: the first
\* of them over the whole tree, in the order in which they are listed.  Which one of
\* them is right where the label of some is a part of other names is left to
\* FoundIsLabelled.
FoundIsFirst ==
  pc = "found" =>
    LET matching == {p \in DOMAIN folder : Accepted(p, asked)}
    IN  IF found = None THEN matching = {}
        ELSE /\ found \in matching
             /\ Labelled \in {{}, matching} =>
                  \A p \in matching \ {found} : Precedes(found, p)

\* What the README says of getFolder("Inbox"): it returns the folder labelled so,
\* where there is one.  It returns the first whose name contains the label.
FoundIsLabelled ==
  (pc = "found" /\ Labelled # {}) => found \in Labelled

\* However the batch divides the folder, the batches so far are the messages of
\* the folder so far, none twice and none left out; and only a message that is
\* lost or broken ends the loop before its end.
BatchesAreTheFolder ==
  /\ (pc = "loop" /\ i > 0) => got = SubSeq(InFolder, 1, ActualEnd(i))
  /\ (found # None /\ pc \in {"thrown", "aborted"}) =>
       \E r \in (i + 1)..(i + batch) : r \in DOMAIN InFolder /\ InFolder[r] \in Lost \cup Broken

\* read() returns, throws or aborts, and so does the loop.
CallsEnd ==
  pc \in {"init", "found"} ~> pc \in {"ready", "thrown", "undefined", "aborted"}
=============================================================================
