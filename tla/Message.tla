-------------------------------- MODULE Message --------------------------------
(***************************************************************************)
(* One message (src/include/Messaging.h, MessageObject, AttachmentTable    *)
(* and Attachment).  Init builds the message's sub-node tree, and out of   *)
(* it the contexts: the property context takes a copy, the two tables move *)
(* their data and their nested trees out of it, each attachment moves its  *)
(* data and copies its nested tree.  Then the tree is destroyed, and the   *)
(* contexts read from what they took when they are asked.                  *)
(*                                                                         *)
(* A sub-node is known by its path, the NIDs that lead to it in the file,  *)
(* wherever its DataTree has got to; <<>> is the message's own node.  What *)
(* construction of a tree may lose is in SubNodes, a context's reading in  *)
(* Properties and Table; that the asserted properties and columns are      *)
(* there is one flag, and a recipient table's matrix is in its heap.       *)
(***************************************************************************)
EXTENDS Naturals, SequencesExt

CONSTANTS
  Nid,     \* local node ids (strings)
  Images,  \* the messages, see ImageOf
  None,    \* nothing was asked for yet
  Threw    \* the call ended with an exception

RECIPIENT_TC_NID == "0x692"
ATTACH_TC_NID    == "0x671"

\* What a message and an attachment may be asked for.
PropNames    == {"subject", "sender", "body", "html"}
ContentNames == {"size", "method", "mime", "data"}

\* Where a value is: a context has none, or one of another type; it is empty, in the
\* context itself, or in a sub-node.
Place == {"absent", "object", "empty", "heap"} \cup Nid

\* there: the NBT finds it; valid: what the constructors assert of its contexts;
\* nodes: the sub-nodes with data; subs: the paths that have a tree; broken: data whose
\* load() throws; cells, ids, content: what is in recipient tables, attachment tables
\* and attachments.
ImageOf(m) ==
  /\ m.there \in BOOLEAN /\ m.valid \in BOOLEAN
  /\ m.nodes # {} /\ m.nodes \subseteq Seq(Nid) /\ <<>> \notin m.nodes
  /\ <<>> \in m.subs /\ \A p \in m.nodes : Front(p) \in m.subs
  /\ \A s \in m.subs \ {<<>>} : s \in Seq(Nid) /\ Front(s) \in m.subs
  /\ m.broken \subseteq m.nodes \cup {<<>>}
  /\ m.props \in [PropNames -> Place]
  /\ m.cells \in [{p \in m.nodes : Last(p) = RECIPIENT_TC_NID} -> Seq(Place)]
  /\ DOMAIN m.ids = {p \in m.nodes : Last(p) = ATTACH_TC_NID}
  /\ \A p \in DOMAIN m.ids :
       /\ m.ids[p] \in Seq(Nid \ {RECIPIENT_TC_NID, ATTACH_TC_NID})
       /\ IsInjective(m.ids[p])
  /\ m.content \in [m.nodes -> [ContentNames -> Place]]

ASSUME MessageAssumption ==
  /\ {RECIPIENT_TC_NID, ATTACH_TC_NID} \subseteq Nid
  /\ {"message", "pc", "heap", "absent", "object", "empty"} \cap Nid = {}
  /\ Threw \notin Seq(Nid \cup {"heap", "nid"})
  /\ None \notin (Nid \cup {"pc"}) \X (PropNames \cup ContentNames \cup {"recipients"})
  /\ \A m \in Images : ImageOf(m)

VARIABLES
  assertsOn,  \* the build: STORYT_ASSERT aborts, or is a no-op
  image,      \* which message it is
  tree,       \* holder -> its SubNodeBTree: [subs, data], where data[p] is the state
              \* of the DataTree of p
  made,       \* the contexts: "pc" or NID -> the node whose data it is made of
  row,        \* the loop of _setupAttachments, and that of getRecipients
  asked,      \* what was asked for, or None
  answer,     \* the value returned, as the path of its data, or Threw
  emails,     \* what getRecipients has so far
  cut, fail,  \* the file was cut; the stream's failbit
  pc

Holders == {"message", "pc"} \cup Nid
States  == {"unread", "loaded", "short", "moved"}

call == <<asked, answer, emails>>
vars == <<assertsOn, image, tree, made, row, call, cut, fail, pc>>

TypeOK ==
  /\ assertsOn \in BOOLEAN /\ image \in Images
  /\ DOMAIN tree \subseteq Holders
  /\ \A h \in DOMAIN tree :
       /\ tree[h].subs \subseteq image.subs /\ DOMAIN tree[h].data \subseteq image.nodes
       /\ \A p \in DOMAIN tree[h].data : tree[h].data[p] \in States
  /\ DOMAIN made \subseteq Holders \ {"message"}
  /\ \A h \in DOMAIN made : made[h] \in image.nodes \cup {<<>>}
  /\ row \in Nat \ {0} /\ cut \in BOOLEAN /\ fail \in BOOLEAN
  /\ pc \in {"init", "tree", "pc", RECIPIENT_TC_NID, ATTACH_TC_NID, "attachments",
             "finish", "idle", "recipients", "thrown", "undefined", "aborted"}

Init ==
  /\ assertsOn \in BOOLEAN /\ image \in Images
  /\ tree = <<>> /\ made = <<>> /\ row = 1
  /\ asked = None /\ answer = None /\ emails = <<>>
  /\ cut = FALSE /\ fail = FALSE /\ pc = "init"

\* Whether bytes that are read arrive.
Arrival(arrived) ==
  /\ arrived => ~fail
  /\ ~arrived => fail \/ cut
  /\ fail' = ~arrived

\* An assertion that fails, and what happens in its place without assertions.
Fails(otherwise) == IF assertsOn THEN "aborted" ELSE otherwise

\* f with x |-> v.
With(f, x, v) == [y \in DOMAIN f \cup {x} |-> IF y = x THEN v ELSE f[y]]

-----------------------------------------------------------------------------
(* SubNodeBTree::getDataTree and getNestedSubNodeTree. *)

\* Mutant of Found: the nested trees are asked first.
FoundNested(h, nid) ==
  {p \in DOMAIN tree[h].data :
     /\ Last(p) = nid
     /\ \A q \in DOMAIN tree[h].data :
          (q # p /\ Last(q) = nid) => ~IsStrictPrefix(Front(p), q)}

\* A tree's own sub-node, or one of whichever nested tree is asked first and has it.
Found(h, nid) ==
  {p \in DOMAIN tree[h].data :
     /\ Last(p) = nid
     /\ \A q \in tree[h].subs :
          IsStrictPrefix(q, Front(p)) => Append(q, nid) \notin DOMAIN tree[h].data}

\* Before getDataTree returns p, load() leaves it in state s, or throws.
Loads(h, p, s) ==
  \/ /\ tree[h].data[p] # "unread" /\ s = tree[h].data[p]
     /\ UNCHANGED fail
  \/ /\ tree[h].data[p] = "unread" /\ p \notin image.broken
     /\ \E arrived \in BOOLEAN :
          Arrival(arrived) /\ s = IF arrived THEN "loaded" ELSE "short"

LoadThrows(h, p) == tree[h].data[p] = "unread" /\ p \in image.broken

\* The trees from b on.
Nested(t, b) ==
  [subs |-> {s \in t.subs : IsPrefix(b, s)},
   data |-> [p \in {q \in DOMAIN t.data : IsStrictPrefix(b, q)} |-> t.data[p]]]

\* t with an empty tree at b.
Emptied(t, b) ==
  [subs |-> {s \in t.subs : ~IsStrictPrefix(b, s)},
   data |-> [p \in {q \in DOMAIN t.data : ~IsStrictPrefix(b, q)} |-> t.data[p]]]

-----------------------------------------------------------------------------
(* MessageObject::Init. *)

\* Without assertions, a message that the NBT lacks has no contexts.
FindNode ==
  /\ pc = "init"
  /\ pc' = IF image.there THEN "tree" ELSE Fails("idle")
  /\ UNCHANGED <<assertsOn, image, tree, made, row, call, cut, fail>>

Whole == [subs |-> image.subs, data |-> [p \in image.nodes |-> "unread"]]

\* Without assertions a tree that did not arrive has lost entries (see SubNodes); no
\* later read arrives either.
BuildTree ==
  /\ pc = "tree"
  /\ \/ /\ Arrival(TRUE)
        /\ tree' = With(tree, "message", Whole) /\ pc' = "pc"
     \/ /\ Arrival(FALSE)
        /\ tree' = With(tree, "message", Emptied(Whole, <<>>)) /\ pc' = Fails("pc")
  /\ UNCHANGED <<assertsOn, image, made, row, call, cut>>

\* Mutant of MakePC: the context moves the tree that others depend on.
MakePCMoving ==
  /\ pc = "pc"
  /\ Arrival(TRUE)
  /\ tree' = With(With(tree, "message", Emptied(tree["message"], <<>>)), "pc", tree["message"])
  /\ made' = With(made, "pc", <<>>)
  /\ pc' = RECIPIENT_TC_NID
  /\ UNCHANGED <<assertsOn, image, row, call, cut>>

\* The property context reads the data of the node, and copies the tree.
MakePC ==
  /\ pc = "pc"
  /\ IF <<>> \in image.broken
     THEN pc' = "thrown" /\ UNCHANGED <<tree, made, fail>>
     ELSE \/ /\ Arrival(TRUE)
             /\ tree' = With(tree, "pc", tree["message"])
             /\ made' = With(made, "pc", <<>>)
             /\ pc' = RECIPIENT_TC_NID
          \/ /\ Arrival(FALSE)
             /\ pc' = Fails("undefined") /\ UNCHANGED <<tree, made>>
  /\ UNCHANGED <<assertsOn, image, row, call, cut>>

\* A context is made of the data tree p, which is moved, and of the nested tree under
\* nid, which keep says whether the message's tree keeps.
Makes(nid, p, keep) ==
  LET rest == [tree["message"] EXCEPT !.data[p] = "moved"]
  IN  /\ made' = With(made, nid, p)
      /\ tree' = IF <<nid>> \notin rest.subs THEN With(tree, "message", rest)
                 ELSE LET given == With(tree, nid, Nested(rest, <<nid>>))
                      IN  With(given, "message", IF keep THEN rest ELSE Emptied(rest, <<nid>>))

\* Of a data tree that did not arrive, or that was moved from, no heap can be made.
MakeOf(nid, p, keep, next) ==
  \/ LoadThrows("message", p) /\ pc' = "thrown" /\ UNCHANGED <<tree, made, fail>>
  \/ \E s \in States :
       /\ Loads("message", p, s)
       /\ IF s = "loaded" THEN Makes(nid, p, keep) /\ pc' = next
          ELSE pc' = Fails("undefined") /\ UNCHANGED <<tree, made>>

\* TableContext::Init.
MakeTable(nid, next, none) ==
  /\ pc = nid
  /\ IF Found("message", nid) = {}
     THEN pc' = none /\ UNCHANGED <<tree, made, fail>>
     ELSE \E p \in Found("message", nid) : MakeOf(nid, p, FALSE, next)
  /\ UNCHANGED <<assertsOn, image, row, call, cut>>

MakeRecipients      == MakeTable(RECIPIENT_TC_NID, ATTACH_TC_NID, ATTACH_TC_NID)
MakeAttachmentTable == MakeTable(ATTACH_TC_NID, "attachments", "finish")

RowIDs == image.ids[made[ATTACH_TC_NID]]

\* Mutant of AttachNID: the NID of the first attachment stands for all.
AttachNIDFirst == RowIDs[1]

AttachNID == RowIDs[row]

\* _setupAttachments; without assertions a null pointer is moved from.
MakeAttachment ==
  /\ pc = "attachments" /\ row <= Len(RowIDs)
  /\ IF Found("message", AttachNID) = {}
     THEN pc' = Fails("undefined") /\ UNCHANGED <<tree, made, fail>>
     ELSE \E p \in Found("message", AttachNID) : MakeOf(AttachNID, p, TRUE, "attachments")
  /\ row' = row + 1
  /\ UNCHANGED <<assertsOn, image, call, cut>>

\* The constructors' checks; Init returns, and the tree of the message is destroyed.
Finish ==
  /\ pc = "finish" \/ (pc = "attachments" /\ row > Len(RowIDs))
  /\ pc' = IF image.valid THEN "idle" ELSE Fails("idle")
  /\ tree' = [h \in DOMAIN tree \ {"message"} |-> tree[h]]
  /\ row' = 1
  /\ UNCHANGED <<assertsOn, image, made, call, cut, fail>>

-----------------------------------------------------------------------------
(* Calls on a message that is built. *)

\* What context h may get for a property or a cell: the path of its data, nothing, its
\* NID, or an exception.
Values(h, place) == image.nodes \cup {<<>>, Append(made[h], place), <<"nid", place>>, Threw}

\* From the sub-nodes of h; without assertions nothing, when it does not arrive.
FromNode(h, nid, v) ==
  \E p \in Found(h, nid) :
    \/ LoadThrows(h, p) /\ v = Threw /\ UNCHANGED <<tree, fail>>
    \/ \E s \in States :
         /\ Loads(h, p, s)
         /\ tree' = [tree EXCEPT ![h].data[p] = s]
         /\ v = IF s = "loaded" THEN p ELSE <<>>

Value(h, place, v) ==
  IF place \in Nid /\ h \in DOMAIN tree
  THEN FromNode(h, place, v)
  ELSE /\ v = CASE place = "empty" -> <<>>
                [] place = "heap"  -> Append(made[h], place)
                [] OTHER           -> <<"nid", place>>
       /\ UNCHANGED <<tree, fail>>

Lacks(h, place) == place \in Nid /\ h \in DOMAIN tree /\ Found(h, place) = {}

\* A property that is there: a sub-node that is not is a null pointer, and strings are
\* asserted not to be empty.
Answers(h, place, isString) ==
  IF Lacks(h, place)
  THEN pc' = Fails("undefined") /\ UNCHANGED <<tree, fail, answer>>
  ELSE \E v \in Values(h, place) :
         /\ Value(h, place, v)
         /\ IF assertsOn /\ v = <<>> /\ (isString \/ place \in Nid)
            THEN pc' = "aborted" /\ UNCHANGED answer
            ELSE answer' = v /\ UNCHANGED pc

AnswersNothing ==
  /\ pc' = Fails("idle") /\ answer' = IF assertsOn THEN answer ELSE <<>>
  /\ UNCHANGED <<tree, fail>>

Asks(h, name) ==
  /\ pc = "idle" /\ asked' = <<h, name>>
  /\ UNCHANGED <<assertsOn, image, made, row, emails, cut>>

NotThere == {"absent", "object"}

Has(name) == "pc" \in DOMAIN made /\ image.props[name] \notin NotThere

\* getSubject and getSender.
AskProperty(name) ==
  /\ Asks("pc", name)
  /\ IF Has(name) THEN Answers("pc", image.props[name], TRUE) ELSE AnswersNothing

\* getBody: the plain body, or the HTML one.
AskBody ==
  /\ Asks("pc", "body")
  /\ IF Has("body") THEN Answers("pc", image.props["body"], TRUE)
     ELSE IF Has("html") THEN Answers("pc", image.props["html"], TRUE) ELSE AnswersNothing

\* An attachment's getSize, getMethod, getMimeType and getContent do not ask first
\* whether the property is there, so TryToGetProperty throws on one that is not.
AskAttachment(a, name) ==
  LET place == image.content[made[a]][name]
  IN  /\ a \notin {"pc", RECIPIENT_TC_NID, ATTACH_TC_NID}
      /\ Asks(a, name)
      /\ IF place = "absent" THEN answer' = Threw /\ UNCHANGED <<tree, fail, pc>>
         ELSE IF place = "object" THEN AnswersNothing
         ELSE Answers(a, place, name = "mime")

\* Mutant of AskRecipients: the rows are counted from zero.
AskRecipientsFromZero ==
  /\ pc = "idle"
  /\ asked' = <<RECIPIENT_TC_NID, "recipients">>
  /\ emails' = <<>> /\ answer' = None /\ row' = 0
  /\ pc' = IF RECIPIENT_TC_NID \in DOMAIN made THEN "recipients" ELSE "idle"
  /\ UNCHANGED <<assertsOn, image, tree, made, cut, fail>>

\* getRecipients; without a table it returns an empty list.
AskRecipients ==
  /\ pc = "idle"
  /\ asked' = <<RECIPIENT_TC_NID, "recipients">>
  /\ emails' = <<>> /\ answer' = None /\ row' = 1
  /\ pc' = IF RECIPIENT_TC_NID \in DOMAIN made THEN "recipients" ELSE "idle"
  /\ UNCHANGED <<assertsOn, image, tree, made, cut, fail>>

Cells == image.cells[made[RECIPIENT_TC_NID]]

\* The address of the next row: one that is not there is passed over, one whose
\* sub-node is not there stays empty, and both are asserted.
NextRecipient ==
  LET place == Cells[row]
      h     == RECIPIENT_TC_NID
  IN  /\ pc = "recipients" /\ row <= Len(Cells)
      /\ row' = row + 1
      /\ IF place \in NotThere
         THEN pc' = Fails("recipients") /\ UNCHANGED <<tree, fail, answer, emails>>
         ELSE IF Lacks(h, place)
         THEN /\ pc' = Fails("recipients")
              /\ emails' = Append(emails, <<>>) /\ UNCHANGED <<tree, fail, answer>>
         ELSE \E v \in Values(h, place) :
                /\ Value(h, place, v)
                /\ IF v = Threw
                   THEN answer' = Threw /\ pc' = "idle" /\ UNCHANGED emails
                   ELSE /\ emails' = Append(emails, v) /\ UNCHANGED answer
                        /\ pc' = IF v = <<>> /\ place \in Nid THEN Fails("recipients")
                                 ELSE "recipients"
      /\ UNCHANGED <<assertsOn, image, made, asked, cut>>

RecipientsDone ==
  /\ pc = "recipients" /\ row > Len(Cells)
  /\ pc' = "idle" /\ row' = 1
  /\ UNCHANGED <<assertsOn, image, tree, made, call, cut, fail>>

\* Whoever owns the file cuts it.
Cut ==
  /\ pc \notin {"thrown", "undefined", "aborted"} /\ ~cut
  /\ cut' = TRUE
  /\ UNCHANGED <<assertsOn, image, tree, made, row, call, fail, pc>>

Next ==
  \/ FindNode \/ BuildTree \/ MakePC
  \/ MakeRecipients \/ MakeAttachmentTable \/ MakeAttachment \/ Finish
  \/ \E name \in {"subject", "sender"} : AskProperty(name)
  \/ AskBody
  \/ \E a \in DOMAIN made, name \in ContentNames : AskAttachment(a, name)
  \/ AskRecipients \/ NextRecipient \/ RecipientsDone
  \/ Cut

Spec == Init /\ [][Next]_vars

-----------------------------------------------------------------------------
(* Properties. *)

Attachments ==
  IF <<ATTACH_TC_NID>> \in image.nodes THEN ToSet(image.ids[<<ATTACH_TC_NID>>]) ELSE {}

\* A message whose tables and attachments are sub-nodes of its own, if there are any
\* of their NIDs at all.
OwnParts ==
  \A nid \in {RECIPIENT_TC_NID, ATTACH_TC_NID} \cup Attachments :
    (\E p \in image.nodes : Last(p) = nid) => <<nid>> \in image.nodes

\* A message that is built while no read failed has the property context, the tables
\* and the attachments of its file and no others, each made of its own data and with
\* all the sub-nodes of its own, none of them a DataTree that another context has moved
\* from: every copy was made before anything was moved out of what was copied.
PartsAreOwn ==
  (pc = "idle" /\ image.there /\ ~fail /\ OwnParts) =>
    /\ DOMAIN made = {"pc"} \cup Attachments
         \cup {nid \in {RECIPIENT_TC_NID, ATTACH_TC_NID} : <<nid>> \in image.nodes}
    /\ \A h \in DOMAIN made :
         LET p == IF h = "pc" THEN <<>> ELSE <<h>>
         IN  /\ made[h] = p
             /\ h \in DOMAIN tree <=> p \in image.subs
             /\ h \in DOMAIN tree =>
                  /\ tree[h].subs = {s \in image.subs : IsPrefix(p, s)}
                  /\ DOMAIN tree[h].data = {q \in image.nodes : IsStrictPrefix(p, q)}
                  /\ \A q \in DOMAIN tree[h].data : tree[h].data[q] # "moved"

\* The node whose context h is.
Owner(h) == IF h = "pc" THEN <<>> ELSE <<h>>

PlaceOf(h, name) ==
  IF h # "pc" THEN image.content[<<h>>][name]
  ELSE IF name = "body" /\ ~Has("body") THEN image.props["html"]
  ELSE image.props[name]

\* The places of the values that were asked for.
PlacesAsked ==
  LET p == Owner(asked[1])
  IN  IF asked[2] # "recipients" THEN {PlaceOf(asked[1], asked[2])}
      ELSE IF p \in image.nodes THEN ToSet(image.cells[p]) ELSE {}

\* The file has the value at place of the context of p.
IsThere(p, place) == place \in Nid => Append(p, place) \in image.nodes \ image.broken

AreThere == \A place \in PlacesAsked : IsThere(Owner(asked[1]), place)

ValueAt(p, place) == IF place = "empty" THEN <<>> ELSE Append(p, place)

\* The addresses of the rows of p that have one, in the order of the rows.
Addresses(p) ==
  LET cells == image.cells[p]
      upTo[i \in 0..Len(cells)] ==
        IF i = 0 THEN <<>>
        ELSE IF cells[i] \in NotThere THEN upTo[i-1]
        ELSE Append(upTo[i-1], ValueAt(p, cells[i]))
  IN  upTo[Len(cells)]

\* While no read failed, every call returns what the file has for this message and this
\* attachment, in whichever order calls are made and data is loaded; the recipients are
\* those of the rows that have an address, in the order of the rows.
AnswersAreOwn ==
  LET h     == asked[1]
      place == PlaceOf(h, asked[2])
  IN  (pc = "idle" /\ asked # None /\ image.there /\ ~fail /\ OwnParts /\ AreThere) =>
        IF asked[2] = "recipients"
        THEN emails = IF Owner(h) \in image.nodes THEN Addresses(Owner(h)) ELSE <<>>
        ELSE answer = CASE place = "absent" /\ h # "pc" -> Threw
                        [] place = "absent" /\ h = "pc" -> <<>>
                        [] place = "object"             -> <<>>
                        [] OTHER -> ValueAt(Owner(h), place)

\* On a file that nobody cut, undefined behaviour takes an attachment or a value whose
\* sub-node is not there, an exception out of Init a block that is not there, and an
\* assertion one of these, a message that is not there or not valid, or a value that
\* is not there or empty when it is asked for.
EndsOnlyOn ==
  LET lostAttachment == \E a \in Attachments : <<a>> \notin image.nodes
      lostValue      == asked # None /\ ~AreThere
  IN  (~cut /\ OwnParts) =>
        /\ pc = "undefined" => lostAttachment \/ lostValue
        /\ pc = "thrown" =>
             image.broken \cap ({<<>>, <<RECIPIENT_TC_NID>>, <<ATTACH_TC_NID>>}
                                  \cup {<<a>> : a \in Attachments}) # {}
        /\ pc = "aborted" =>
             \/ ~image.there \/ ~image.valid \/ lostAttachment \/ lostValue
             \/ asked # None /\ PlacesAsked \cap (NotThere \cup {"empty"}) # {}
=============================================================================
