----------------------------- MODULE MessageProofs -----------------------------
(***************************************************************************)
(* Proofs about Message: for every message, a message that is built while  *)
(* no read failed has given each of its contexts its own data and all of   *)
(* its own sub-nodes; its calls return what the file has there; and on a   *)
(* file that nobody cut a run ends only on what the file lacks.            *)
(*                                                                         *)
(* The argument follows the one tree that MessageObject::Init takes apart: *)
(* at every step it is the file's tree without what lies under the tables  *)
(* that were made, and only data of contexts that were made was moved from *)
(* (RestOK).  So the next context finds its own data, and nothing else.    *)
(* Data of which a part is missing was read with the failbit (NoShort),    *)
(* and the failbit is set only in a file that was cut (FailCut): while no  *)
(* read fails, a context that asks for a value of its file finds one path, *)
(* its own, and the data there is read in full (FoundUnder, ValueIs).  The *)
(* list of recipients is at every row that of the rows before (Listing).   *)
(***************************************************************************)
EXTENDS Message, SequenceTheorems, WellFoundedInduction, TLAPS

R == RECIPIENT_TC_NID
T == ATTACH_TC_NID

-----------------------------------------------------------------------------
(* Paths. *)

\* A path of one NID.
LEMMA OneNid ==
  ASSUME NEW x \in Nid
  PROVE  <<x>> \in Seq(Nid) /\ Len(<<x>>) = 1 /\ <<x>>[1] = x /\ <<x>> # <<>>
         /\ Last(<<x>>) = x
  BY DEF Last

LEMMA PrefixOfOne ==
  ASSUME NEW x \in Nid, NEW q \in Seq(Nid)
  PROVE  /\ IsPrefix(<<x>>, q) <=> (Len(q) >= 1 /\ q[1] = x)
         /\ IsStrictPrefix(<<x>>, q) <=> (Len(q) >= 2 /\ q[1] = x)
<1>1. SubSeq(<<x>>, 1, 1) = <<x>>
  BY OneNid, SubSeqFull
<1>2. ASSUME Len(q) >= 1 PROVE SubSeq(q, 1, 1) = <<q[1]>>
  <2>1. Len(q) \in Nat /\ q[1] \in Nid
    BY <1>2, ElementOfSeq
  <2>2. \A i \in 1..1 : q[i] \in Nid
    BY <2>1
  <2>3. /\ SubSeq(q, 1, 1) \in Seq(Nid) /\ Len(SubSeq(q, 1, 1)) = 1
        /\ \A i \in 1..1 : SubSeq(q, 1, 1)[i] = q[1 + i - 1]
    BY <2>2, SubSeqProperties
  <2>4. SubSeq(q, 1, 1)[1] = q[1]
    BY <2>3
  <2>5. <<q[1]>> \in Seq(Nid) /\ Len(<<q[1]>>) = 1 /\ <<q[1]>>[1] = q[1]
    BY <2>1, OneNid
  <2>6. \A i \in 1..Len(SubSeq(q, 1, 1)) : SubSeq(q, 1, 1)[i] = <<q[1]>>[i]
    BY <2>3, <2>4, <2>5
  <2> QED
    BY <2>3, <2>5, <2>6, SeqEqual
<1>3. Len(q) >= 1 => (<<x>> = <<q[1]>> <=> q[1] = x)
  OBVIOUS
<1>4. IsPrefix(<<x>>, q) <=> (Len(q) >= 1 /\ q[1] = x)
  BY <1>1, <1>2, <1>3, OneNid DEF IsPrefix
<1>5. (Len(q) = 1 /\ q[1] = x) <=> q = <<x>>
  <2>1. (Len(q) = 1 /\ q[1] = x) => q = <<x>>
    BY OneNid, SeqEqual
  <2> QED
    BY <2>1, OneNid
<1>6. Len(q) \in Nat
  OBVIOUS
<1>7. IsStrictPrefix(<<x>>, q) <=> (IsPrefix(<<x>>, q) /\ ~(q = <<x>>))
  BY DEF IsStrictPrefix
<1> QED
  BY <1>4, <1>5, <1>6, <1>7

LEMMA PrefixOfNone ==
  ASSUME NEW q \in Seq(Nid)
  PROVE  /\ IsPrefix(<<>>, q)
         /\ IsStrictPrefix(<<>>, q) <=> q # <<>>
<1>1. SubSeq(<<>>, 1, 0) = <<>> /\ SubSeq(q, 1, 0) = <<>>
  BY SubSeqEmpty
<1>2. Len(<<>>) = 0 /\ Len(q) \in Nat
  OBVIOUS
<1> QED
  BY <1>1, <1>2 DEF IsPrefix, IsStrictPrefix

\* The tree that a path leads to: its own one is that of the message.
LEMMA FrontOfPath ==
  ASSUME NEW q \in Seq(Nid), q # <<>>
  PROVE  /\ Front(q) \in Seq(Nid) /\ Last(q) \in Nid
         /\ Front(q) = <<>> <=> q = <<Last(q)>>
<1>1. Len(q) \in Nat \ {0}
  BY EmptySeq
<1>2. \A i \in 1..(Len(q) - 1) : q[i] \in Nid
  BY <1>1, ElementOfSeq
<1>3. Front(q) \in Seq(Nid) /\ Len(Front(q)) = Len(q) - 1
  <2> DEFINE n == Len(q) - 1
  <2>1. n \in Int /\ 1 \in Int /\ \A i \in 1..n : q[i] \in Nid
    BY <1>1, <1>2
  <2> HIDE DEF n
  <2>2. SubSeq(q, 1, n) \in Seq(Nid)
        /\ Len(SubSeq(q, 1, n)) = IF 1 <= n THEN n - 1 + 1 ELSE 0
    BY <2>1, SubSeqProperties
  <2>3. n = Len(q) - 1 /\ Front(q) = SubSeq(q, 1, n)
    BY DEF Front, n
  <2>4. Len(q) \in Nat \ {0}
    BY <1>1
  <2>5. (IF 1 <= n THEN n - 1 + 1 ELSE 0) = n
    BY <2>3, <2>4
  <2> QED
    BY <2>2, <2>3, <2>5
<1>4. Last(q) \in Nid
  BY <1>1, ElementOfSeq DEF Last
<1>5. Len(q) = 1 <=> q = <<Last(q)>>
  <2>1. Len(q) = 1 => q = <<Last(q)>>
    BY <1>4, OneNid, SeqEqual DEF Last
  <2> QED
    BY <2>1, <1>4, OneNid
<1>6. Front(q) = <<>> <=> Len(q) = 1
  <2>1. Len(<<>>) = 0 /\ (Front(q) # <<>> => Len(Front(q)) \in Nat \ {0})
    BY <1>3, EmptySeq
  <2> QED
    BY <1>1, <1>3, <2>1
<1> QED
  BY <1>3, <1>4, <1>5, <1>6

LEMMA ImageFacts ==
  ASSUME image \in Images
  PROVE  /\ image.nodes \subseteq Seq(Nid) /\ <<>> \notin image.nodes
         /\ image.subs \subseteq Seq(Nid) /\ <<>> \in image.subs
         /\ R \in Nid /\ T \in Nid /\ R # T /\ "pc" \notin Nid /\ "message" \notin Nid
         /\ \A p \in image.nodes : Last(p) = T =>
              image.ids[p] \in Seq(Nid \ {R, T}) /\ IsInjective(image.ids[p])
<1>1. ImageOf(image)
  BY MessageAssumption
<1>2. image.nodes \subseteq Seq(Nid) /\ <<>> \notin image.nodes /\ <<>> \in image.subs
  BY <1>1 DEF ImageOf
<1>3. image.subs \subseteq Seq(Nid)
  <2>1. \A s \in image.subs : s = <<>> \/ s \in Seq(Nid)
    BY <1>1 DEF ImageOf
  <2>2. <<>> \in Seq(Nid)
    BY EmptySeq
  <2> QED
    BY <2>1, <2>2
<1>4. R \in Nid /\ T \in Nid /\ R # T /\ "pc" \notin Nid /\ "message" \notin Nid
  BY MessageAssumption DEF R, T, RECIPIENT_TC_NID, ATTACH_TC_NID
<1>5. ASSUME NEW p \in image.nodes, Last(p) = T
      PROVE  image.ids[p] \in Seq(Nid \ {R, T}) /\ IsInjective(image.ids[p])
  <2>1. p \in DOMAIN image.ids
    BY <1>1, <1>5 DEF ImageOf, T
  <2> QED
    BY <1>1, <2>1 DEF ImageOf, R, T
<1> QED
  BY <1>2, <1>3, <1>4, <1>5

-----------------------------------------------------------------------------
(* Trees. *)

IsTree(t) ==
  \E S \in SUBSET image.subs, D \in SUBSET image.nodes :
    \E f \in [D -> States] : t = [subs |-> S, data |-> f]

LEMMA TreeFacts ==
  ASSUME NEW t, IsTree(t)
  PROVE  /\ t = [subs |-> t.subs, data |-> t.data]
         /\ t.subs \subseteq image.subs /\ DOMAIN t.data \subseteq image.nodes
         /\ t.data \in [DOMAIN t.data -> States]
<1>1. PICK S \in SUBSET image.subs, D \in SUBSET image.nodes :
        \E f \in [D -> States] : t = [subs |-> S, data |-> f]
  BY DEF IsTree
<1>2. PICK f \in [D -> States] : t = [subs |-> S, data |-> f]
  BY <1>1
<1>3. t.subs = S /\ t.data = f /\ DOMAIN f = D
  BY <1>2
<1> QED
  BY <1>2, <1>3

\* A state of one DataTree changes.
LEMMA SetState ==
  ASSUME NEW t, IsTree(t), NEW p \in DOMAIN t.data, NEW s \in States
  PROVE  LET u == [t EXCEPT !.data[p] = s]
         IN  /\ IsTree(u) /\ u.subs = t.subs /\ DOMAIN u.data = DOMAIN t.data
             /\ \A q \in DOMAIN t.data : u.data[q] = IF q = p THEN s ELSE t.data[q]
<1> DEFINE f == [t.data EXCEPT ![p] = s]
<1>1. /\ t = [subs |-> t.subs, data |-> t.data]
      /\ t.subs \in SUBSET image.subs /\ DOMAIN t.data \in SUBSET image.nodes
      /\ t.data \in [DOMAIN t.data -> States]
  BY TreeFacts
<1>2. f \in [DOMAIN t.data -> States] /\ DOMAIN f = DOMAIN t.data
      /\ \A q \in DOMAIN t.data : f[q] = IF q = p THEN s ELSE t.data[q]
  BY <1>1
<1>3. [t EXCEPT !.data[p] = s] = [subs |-> t.subs, data |-> f]
  BY <1>1
<1> HIDE DEF f
<1>4. IsTree([subs |-> t.subs, data |-> f])
  BY <1>1, <1>2 DEF IsTree
<1> QED
  BY <1>2, <1>3, <1>4

LEMMA NestedTree ==
  ASSUME NEW t, IsTree(t), NEW b
  PROVE  /\ IsTree(Nested(t, b))
         /\ Nested(t, b).subs = {s \in t.subs : IsPrefix(b, s)}
         /\ DOMAIN Nested(t, b).data = {q \in DOMAIN t.data : IsStrictPrefix(b, q)}
         /\ \A q \in DOMAIN Nested(t, b).data : Nested(t, b).data[q] = t.data[q]
<1> DEFINE S == {s \in t.subs : IsPrefix(b, s)}
           D == {q \in DOMAIN t.data : IsStrictPrefix(b, q)}
           f == [p \in D |-> t.data[p]]
<1>1. S \in SUBSET image.subs /\ D \in SUBSET image.nodes /\ f \in [D -> States]
  BY TreeFacts
<1>2. Nested(t, b) = [subs |-> S, data |-> f]
  BY DEF Nested
<1>3. IsTree(Nested(t, b))
  BY <1>1, <1>2 DEF IsTree
<1> QED
  BY <1>2, <1>3

LEMMA EmptiedTree ==
  ASSUME NEW t, IsTree(t), NEW b
  PROVE  /\ IsTree(Emptied(t, b))
         /\ Emptied(t, b).subs = {s \in t.subs : ~IsStrictPrefix(b, s)}
         /\ DOMAIN Emptied(t, b).data = {q \in DOMAIN t.data : ~IsStrictPrefix(b, q)}
         /\ \A q \in DOMAIN Emptied(t, b).data : Emptied(t, b).data[q] = t.data[q]
<1> DEFINE S == {s \in t.subs : ~IsStrictPrefix(b, s)}
           D == {q \in DOMAIN t.data : ~IsStrictPrefix(b, q)}
           f == [p \in D |-> t.data[p]]
<1>1. S \in SUBSET image.subs /\ D \in SUBSET image.nodes /\ f \in [D -> States]
  BY TreeFacts
<1>2. Emptied(t, b) = [subs |-> S, data |-> f]
  BY DEF Emptied
<1>3. IsTree(Emptied(t, b))
  BY <1>1, <1>2 DEF IsTree
<1> QED
  BY <1>2, <1>3

LEMMA WholeTree ==
  /\ IsTree(Whole) /\ Whole.subs = image.subs /\ DOMAIN Whole.data = image.nodes
  /\ \A q \in image.nodes : Whole.data[q] = "unread"
<1> DEFINE f == [p \in image.nodes |-> "unread"]
<1>1. f \in [image.nodes -> States]
  BY DEF States
<1>2. Whole = [subs |-> image.subs, data |-> f]
  BY DEF Whole
<1>3. image.subs \in SUBSET image.subs /\ image.nodes \in SUBSET image.nodes
  OBVIOUS
<1>4. IsTree(Whole)
  BY <1>1, <1>2, <1>3 DEF IsTree
<1> QED
  BY <1>2, <1>4

\* What is found is in the tree, under its NID.
LEMMA FoundFacts ==
  ASSUME NEW h, NEW nid, NEW p \in Found(h, nid)
  PROVE  p \in DOMAIN tree[h].data /\ Last(p) = nid
  BY DEF Found

-----------------------------------------------------------------------------
(* Calls on a message that is built, and cuts. *)

\* At most one DataTree changes its state, and none loses its data.
TreeStep ==
  \/ tree' = tree
  \/ \E h \in DOMAIN tree : \E p \in DOMAIN tree[h].data, s \in States :
       /\ s = "moved" => tree[h].data[p] = "moved"
       /\ s = "short" => fail' \/ tree[h].data[p] = "short"
       /\ tree' = [tree EXCEPT ![h].data[p] = s]

\* The failbit is never cleared, and a read fails only in a file that was cut.
FailStep == fail' \in BOOLEAN /\ (fail => fail') /\ (fail' => fail \/ cut)

LEMMA ArrivalFails ==
  ASSUME NEW arrived \in BOOLEAN, Arrival(arrived)
  PROVE  FailStep
  BY DEF Arrival, FailStep

LEMMA LoadsFails ==
  ASSUME fail \in BOOLEAN, NEW h, NEW p, NEW s, Loads(h, p, s)
  PROVE  /\ FailStep /\ (s = "moved" => tree[h].data[p] = "moved")
         /\ s = "short" => fail' \/ tree[h].data[p] = "short"
<1>1. CASE s = tree[h].data[p] /\ UNCHANGED fail
  BY <1>1 DEF FailStep
<1>2. CASE \E arrived \in BOOLEAN :
             Arrival(arrived) /\ s = IF arrived THEN "loaded" ELSE "short"
  <2>1. PICK arrived \in BOOLEAN :
          Arrival(arrived) /\ s = IF arrived THEN "loaded" ELSE "short"
    BY <1>2
  <2> QED
    BY <2>1, ArrivalFails DEF Arrival
<1> QED
  BY <1>1, <1>2 DEF Loads

LEMMA FromNodeSteps ==
  ASSUME fail \in BOOLEAN, NEW h \in DOMAIN tree, NEW nid, NEW v, FromNode(h, nid, v)
  PROVE  TreeStep /\ FailStep
<1>1. PICK p \in Found(h, nid) :
        \/ LoadThrows(h, p) /\ v = Threw /\ UNCHANGED <<tree, fail>>
        \/ \E s \in States :
             /\ Loads(h, p, s)
             /\ tree' = [tree EXCEPT ![h].data[p] = s]
             /\ v = IF s = "loaded" THEN p ELSE <<>>
  BY DEF FromNode
<1>2. p \in DOMAIN tree[h].data
  BY FoundFacts
<1>3. CASE UNCHANGED <<tree, fail>>
  BY <1>3 DEF TreeStep, FailStep
<1>4. CASE \E s \in States : Loads(h, p, s) /\ tree' = [tree EXCEPT ![h].data[p] = s]
  <2>1. PICK s \in States : Loads(h, p, s) /\ tree' = [tree EXCEPT ![h].data[p] = s]
    BY <1>4
  <2>2. /\ FailStep /\ (s = "moved" => tree[h].data[p] = "moved")
        /\ s = "short" => fail' \/ tree[h].data[p] = "short"
    BY <2>1, LoadsFails
  <2> QED
    BY <1>2, <2>1, <2>2 DEF TreeStep
<1> QED
  BY <1>1, <1>3, <1>4

LEMMA ValueSteps ==
  ASSUME fail \in BOOLEAN, NEW h, NEW place, NEW v, Value(h, place, v)
  PROVE  TreeStep /\ FailStep
<1>1. CASE place \in Nid /\ h \in DOMAIN tree
  BY <1>1, FromNodeSteps DEF Value
<1>2. CASE ~(place \in Nid /\ h \in DOMAIN tree)
  BY <1>2 DEF Value, TreeStep, FailStep
<1> QED
  BY <1>1, <1>2

Ended == {"idle", "recipients", "undefined", "aborted"}

LEMMA AnswersSteps ==
  ASSUME fail \in BOOLEAN, pc = "idle", NEW h, NEW place, NEW isString,
         Answers(h, place, isString)
  PROVE  TreeStep /\ FailStep /\ pc' \in Ended
<1>1. CASE Lacks(h, place)
  BY <1>1 DEF Answers, Fails, TreeStep, FailStep, Ended
<1>2. CASE ~Lacks(h, place)
  <2>1. PICK v \in Values(h, place) :
          /\ Value(h, place, v)
          /\ IF assertsOn /\ v = <<>> /\ (isString \/ place \in Nid)
             THEN pc' = "aborted" /\ UNCHANGED answer
             ELSE answer' = v /\ UNCHANGED pc
    BY <1>2 DEF Answers
  <2> QED
    BY <2>1, ValueSteps DEF Ended
<1> QED
  BY <1>1, <1>2

LEMMA NothingSteps ==
  ASSUME fail \in BOOLEAN, AnswersNothing
  PROVE  TreeStep /\ FailStep /\ pc' \in Ended
  BY DEF AnswersNothing, Fails, TreeStep, FailStep, Ended

CallStep ==
  \/ \E name \in {"subject", "sender"} : AskProperty(name)
  \/ AskBody
  \/ \E a \in DOMAIN made, name \in ContentNames : AskAttachment(a, name)
  \/ AskRecipients \/ NextRecipient \/ RecipientsDone

LEMMA CallSteps ==
  ASSUME fail \in BOOLEAN, row \in Nat \ {0}, CallStep
  PROVE  /\ TreeStep /\ FailStep /\ UNCHANGED <<assertsOn, image, made, cut>>
         /\ row' \in Nat \ {0} /\ pc \in {"idle", "recipients"} /\ pc' \in Ended
<1>1. ASSUME NEW name \in {"subject", "sender"}, AskProperty(name)
      PROVE  /\ TreeStep /\ FailStep /\ pc' \in Ended /\ pc = "idle"
             /\ UNCHANGED <<assertsOn, image, made, row, cut>>
  BY <1>1, AnswersSteps, NothingSteps DEF AskProperty, Asks
<1>2. CASE AskBody
  <2>1. pc = "idle" /\ UNCHANGED <<assertsOn, image, made, row, cut>>
    BY <1>2 DEF AskBody, Asks
  <2>2. CASE AnswersNothing
    BY <2>1, <2>2, NothingSteps
  <2>3. CASE Answers("pc", image.props["body"], TRUE)
    BY <2>1, <2>3, AnswersSteps
  <2>4. CASE Answers("pc", image.props["html"], TRUE)
    BY <2>1, <2>4, AnswersSteps
  <2> QED
    BY <1>2, <2>1, <2>2, <2>3, <2>4 DEF AskBody
<1>3. ASSUME NEW a \in DOMAIN made, NEW name \in ContentNames, AskAttachment(a, name)
      PROVE  /\ TreeStep /\ FailStep /\ pc' \in Ended /\ pc = "idle"
             /\ UNCHANGED <<assertsOn, image, made, row, cut>>
  <2>1. pc = "idle" /\ UNCHANGED <<assertsOn, image, made, row, cut>>
    BY <1>3 DEF AskAttachment, Asks
  <2>2. CASE UNCHANGED <<tree, fail, pc>>
    BY <2>1, <2>2 DEF TreeStep, FailStep, Ended
  <2>3. CASE AnswersNothing
    BY <2>1, <2>3, NothingSteps
  <2>4. CASE Answers(a, image.content[made[a]][name], name = "mime")
    BY <2>1, <2>4, AnswersSteps
  <2> QED
    BY <1>3, <2>1, <2>2, <2>3, <2>4 DEF AskAttachment
<1>4. CASE AskRecipients \/ RecipientsDone
  BY <1>4 DEF AskRecipients, RecipientsDone, TreeStep, FailStep, Ended, call
<1>5. CASE NextRecipient
  <2>1. /\ pc = "recipients" /\ row' = row + 1
        /\ UNCHANGED <<assertsOn, image, made, cut>>
    BY <1>5 DEF NextRecipient
  <2>2. CASE UNCHANGED <<tree, fail>> /\ pc' = Fails("recipients")
    BY <2>1, <2>2 DEF TreeStep, FailStep, Ended, Fails
  <2>3. CASE \E v : /\ Value(RECIPIENT_TC_NID, Cells[row], v)
                    /\ pc' \in Ended
    BY <2>1, <2>3, ValueSteps
  <2>4. \/ UNCHANGED <<tree, fail>> /\ pc' = Fails("recipients")
        \/ \E v : /\ Value(RECIPIENT_TC_NID, Cells[row], v)
                  /\ pc' \in Ended
    BY <1>5 DEF NextRecipient, Fails, Ended
  <2> QED
    BY <2>1, <2>2, <2>3, <2>4
<1> QED
  BY <1>1, <1>2, <1>3, <1>4, <1>5 DEF CallStep

-----------------------------------------------------------------------------
(* The types. *)

\* What TypeOK needs besides itself: trees are trees, tables are made of tables, and
\* the tree of the message is there while contexts are made of it.
TypesOK ==
  /\ \A h \in DOMAIN tree : IsTree(tree[h])
  /\ \A t \in {R, T} \cap DOMAIN made : made[t] \in image.nodes /\ Last(made[t]) = t
  /\ pc \in {"pc", R, T, "attachments", "finish"} => "message" \in DOMAIN tree
  /\ pc = "attachments" => T \in DOMAIN made

TInv == TypeOK /\ TypesOK

LEMMA InitTInv == Init => TInv
<1> SUFFICES ASSUME Init PROVE TInv
  OBVIOUS
<1>1. DOMAIN tree = {} /\ DOMAIN made = {}
  BY DEF Init
<1>2. TypeOK
  <2>1. assertsOn \in BOOLEAN /\ image \in Images /\ pc = "init"
        /\ cut \in BOOLEAN /\ fail \in BOOLEAN
    BY Zenon DEF Init
  <2>2. row \in Nat \ {0}
    BY SMT DEF Init
  <2>3. DOMAIN tree \subseteq Holders /\ DOMAIN made \subseteq Holders \ {"message"}
    BY <1>1
  <2>4. \A h \in DOMAIN tree :
          /\ tree[h].subs \subseteq image.subs /\ DOMAIN tree[h].data \subseteq image.nodes
          /\ \A p \in DOMAIN tree[h].data : tree[h].data[p] \in States
    BY <1>1
  <2>5. \A h \in DOMAIN made : made[h] \in image.nodes \cup {<<>>}
    BY <1>1
  <2> QED
    BY <2>1, <2>2, <2>3, <2>4, <2>5, Zenon DEF TypeOK
<1>3. pc \notin {"pc", R, T, "attachments", "finish"}
  BY DEF Init, R, T, RECIPIENT_TC_NID, ATTACH_TC_NID
<1>4. TypesOK
  BY <1>1, <1>3 DEF TypesOK
<1> QED
  BY <1>2, <1>4 DEF TInv

\* A context under nid is made of p.
LEMMA MakesTypes ==
  ASSUME TInv, pc \in {R, T, "attachments"}, NEW nid \in Nid,
         NEW p \in Found("message", nid), NEW keep \in BOOLEAN, Makes(nid, p, keep),
         UNCHANGED <<assertsOn, image, cut>>, row' \in Nat \ {0}, fail' \in BOOLEAN,
         pc' \in {R, T, "attachments", "finish"}, pc' = "attachments" => T \in DOMAIN made'
  PROVE  TInv'
<1> DEFINE t    == tree["message"]
           rest == [t EXCEPT !.data[p] = "moved"]
<1>1. /\ "message" \in DOMAIN tree /\ IsTree(t) /\ p \in DOMAIN t.data /\ Last(p) = nid
      /\ "moved" \in States
  BY FoundFacts DEF TInv, TypesOK, States
<1>2. IsTree(rest)
  BY <1>1, SetState
<1>3. p \in image.nodes
  BY <1>1, TreeFacts
<1> HIDE DEF rest
<1>4. /\ made' = With(made, nid, p)
      /\ \/ tree' = With(tree, "message", rest)
         \/ \E u \in {rest, Emptied(rest, <<nid>>)} :
              tree' = With(With(tree, nid, Nested(rest, <<nid>>)), "message", u)
  BY DEF Makes, rest
<1>5. IsTree(Nested(rest, <<nid>>)) /\ IsTree(Emptied(rest, <<nid>>))
  BY <1>2, NestedTree, EmptiedTree
<1>6. /\ \A h \in DOMAIN tree' : IsTree(tree'[h])
      /\ DOMAIN tree' \subseteq Holders /\ "message" \in DOMAIN tree'
  <2>1. nid \in Holders /\ "message" \in Holders /\ DOMAIN tree \subseteq Holders
    BY DEF Holders, TInv, TypeOK
  <2>2. \A h \in DOMAIN tree : IsTree(tree[h])
    BY DEF TInv, TypesOK
  <2>3. CASE tree' = With(tree, "message", rest)
    <3>1. /\ DOMAIN tree' = DOMAIN tree \cup {"message"} /\ tree'["message"] = rest
          /\ \A h \in DOMAIN tree : h # "message" => tree'[h] = tree[h]
      BY <2>3 DEF With
    <3> QED
      BY <1>2, <2>1, <2>2, <3>1
  <2>4. ASSUME NEW u \in {rest, Emptied(rest, <<nid>>)},
               tree' = With(With(tree, nid, Nested(rest, <<nid>>)), "message", u)
        PROVE  /\ \A h \in DOMAIN tree' : IsTree(tree'[h])
               /\ DOMAIN tree' \subseteq Holders /\ "message" \in DOMAIN tree'
    <3> DEFINE given == With(tree, nid, Nested(rest, <<nid>>))
    <3>0. /\ DOMAIN given = DOMAIN tree \cup {nid} /\ given[nid] = Nested(rest, <<nid>>)
          /\ \A h \in DOMAIN tree : h # nid => given[h] = tree[h]
      BY DEF With
    <3> HIDE DEF given
    <3>1. \A h \in DOMAIN given : IsTree(given[h])
      BY <1>5, <2>2, <3>0
    <3>2. IsTree(u)
      BY <1>2, <1>5
    <3>3. tree' = With(given, "message", u)
      BY <2>4 DEF given
    <3>4. /\ DOMAIN tree' = DOMAIN given \cup {"message"} /\ tree'["message"] = u
          /\ \A h \in DOMAIN given : h # "message" => tree'[h] = given[h]
      BY <3>3 DEF With
    <3> QED
      BY <2>1, <3>0, <3>1, <3>2, <3>4
  <2> QED
    BY <1>4, <2>3, <2>4
<1>7. /\ DOMAIN made' = DOMAIN made \cup {nid}
      /\ \A h \in DOMAIN made' : made'[h] = IF h = nid THEN p ELSE made[h]
  BY <1>4 DEF With
<1>8. TypesOK'
  <2>1. (\A h \in DOMAIN tree : IsTree(tree[h]))'
    BY <1>6 DEF IsTree
  <2> QED
    BY <1>1, <1>3, <1>6, <1>7, <2>1 DEF TInv, TypesOK
<1>9. TypeOK'
  <2>1. \A h \in DOMAIN tree' :
          /\ tree'[h].subs \subseteq image.subs /\ DOMAIN tree'[h].data \subseteq image.nodes
          /\ \A q \in DOMAIN tree'[h].data : tree'[h].data[q] \in States
    BY <1>6, TreeFacts
  <2>2. DOMAIN made' \subseteq Holders \ {"message"}
    BY <1>7, MessageAssumption DEF TInv, TypeOK, Holders
  <2>3. \A h \in DOMAIN made' : made'[h] \in image.nodes \cup {<<>>}
    BY <1>3, <1>7 DEF TInv, TypeOK
  <2> QED
    BY <1>6, <2>1, <2>2, <2>3 DEF TInv, TypeOK, R, T
<1> QED
  BY <1>8, <1>9 DEF TInv

PCs == {"init", "tree", "pc", R, T, "attachments", "finish"} \cup Ended \cup {"thrown"}

\* The contexts, and what the tree of the message has, stay what they are.
LEMMA SameTypes ==
  ASSUME TInv, UNCHANGED <<assertsOn, image, made>>, TreeStep,
         row' \in Nat \ {0}, fail' \in BOOLEAN, cut' \in BOOLEAN, pc' \in PCs,
         pc' \in {"pc", R, T, "attachments", "finish"} => "message" \in DOMAIN tree,
         pc' = "attachments" => T \in DOMAIN made
  PROVE  TInv'
<1>1. DOMAIN tree' = DOMAIN tree /\ \A h \in DOMAIN tree : IsTree(tree'[h])
  <2>1. \A h \in DOMAIN tree : IsTree(tree[h])
    BY DEF TInv, TypesOK
  <2>2. CASE tree' = tree
    BY <2>1, <2>2
  <2>3. ASSUME NEW h \in DOMAIN tree, NEW p \in DOMAIN tree[h].data, NEW s \in States,
               tree' = [tree EXCEPT ![h].data[p] = s]
        PROVE  DOMAIN tree' = DOMAIN tree /\ \A g \in DOMAIN tree : IsTree(tree'[g])
    <3> DEFINE u == [tree[h] EXCEPT !.data[p] = s]
    <3>1. IsTree(u)
      BY <2>1, SetState
    <3>2. tree' = [tree EXCEPT ![h] = u]
      BY <2>3
    <3> HIDE DEF u
    <3> QED
      BY <2>1, <3>1, <3>2
  <2> QED
    BY <2>2, <2>3 DEF TreeStep
<1>2. TypesOK'
  <2>1. (\A h \in DOMAIN tree : IsTree(tree[h]))'
    BY <1>1 DEF IsTree
  <2> QED
    BY <1>1, <2>1 DEF TInv, TypesOK
<1>3. TypeOK'
  <2>1. \A h \in DOMAIN tree' :
          /\ tree'[h].subs \subseteq image.subs /\ DOMAIN tree'[h].data \subseteq image.nodes
          /\ \A q \in DOMAIN tree'[h].data : tree'[h].data[q] \in States
    BY <1>1, TreeFacts
  <2> QED
    BY <1>1, <2>1 DEF TInv, TypeOK, PCs, Ended, R, T
<1> QED
  BY <1>2, <1>3 DEF TInv

LEMMA MakeOfTypes ==
  ASSUME TInv, pc \in {R, T, "attachments"}, NEW nid \in Nid,
         NEW p \in Found("message", nid), NEW keep \in BOOLEAN,
         NEW next \in {T, "attachments", "finish"}, MakeOf(nid, p, keep, next),
         next = "attachments" => nid = T \/ T \in DOMAIN made,
         UNCHANGED <<assertsOn, image, cut>>, row' \in Nat \ {0}
  PROVE  TInv'
<1>1. fail \in BOOLEAN /\ cut \in BOOLEAN
  BY DEF TInv, TypeOK
<1>2. CASE pc' = "thrown" /\ UNCHANGED <<tree, made, fail>>
  BY <1>1, <1>2, SameTypes DEF TreeStep, PCs, R, T, RECIPIENT_TC_NID, ATTACH_TC_NID
<1>3. ASSUME NEW s \in States, Loads("message", p, s),
             pc' = Fails("undefined"), UNCHANGED <<tree, made>>
      PROVE  TInv'
  <2>1. fail' \in BOOLEAN
    BY <1>1, <1>3, LoadsFails DEF FailStep
  <2>2. pc' \in {"undefined", "aborted"}
    BY <1>3 DEF Fails
  <2>3. pc' \in PCs /\ pc' \notin {"pc", R, T, "attachments", "finish"}
    BY <2>2 DEF PCs, Ended, R, T, RECIPIENT_TC_NID, ATTACH_TC_NID
  <2> QED
    BY <1>1, <1>3, <2>1, <2>3, SameTypes DEF TreeStep
<1>4. ASSUME NEW s \in States, Loads("message", p, s), Makes(nid, p, keep), pc' = next
      PROVE  TInv'
  <2>1. fail' \in BOOLEAN
    BY <1>1, <1>4, LoadsFails DEF FailStep
  <2>2. DOMAIN made' = DOMAIN made \cup {nid}
    BY <1>4 DEF Makes, With
  <2> QED
    BY <1>4, <2>1, <2>2, MakesTypes
<1> QED
  BY <1>2, <1>3, <1>4 DEF MakeOf

LEMMA MakeTableTypes ==
  ASSUME TInv, NEW nid \in {R, T}, NEW next \in {T, "attachments", "finish"},
         NEW none \in {T, "finish"}, next = "attachments" => nid = T,
         MakeTable(nid, next, none)
  PROVE  TInv'
<1>1. pc = nid /\ UNCHANGED <<assertsOn, image, row, cut>> /\ nid \in Nid
  BY ImageFacts DEF MakeTable, TInv, TypeOK
<1>2. row' \in Nat \ {0} /\ fail \in BOOLEAN /\ cut' \in BOOLEAN
  BY <1>1 DEF TInv, TypeOK
<1>3. CASE pc' = none /\ UNCHANGED <<tree, made, fail>>
  <2>1. "message" \in DOMAIN tree
    BY <1>1 DEF TInv, TypesOK
  <2>2. none # "attachments" /\ none \in PCs
    BY DEF PCs, T, ATTACH_TC_NID
  <2> QED
    BY <1>1, <1>2, <1>3, <2>1, <2>2, SameTypes DEF TreeStep
<1>4. ASSUME NEW p \in Found("message", nid), MakeOf(nid, p, FALSE, next)
      PROVE  TInv'
  BY <1>1, <1>2, <1>4, MakeOfTypes
<1> QED
  BY <1>3, <1>4 DEF MakeTable

LEMMA RowFacts ==
  ASSUME TInv, pc = "attachments"
  PROVE  /\ RowIDs = image.ids[made[T]] /\ RowIDs \in Seq(Nid \ {R, T})
         /\ row <= Len(RowIDs) => RowIDs[row] \in Nid \ {R, T}
<1>1. made[T] \in image.nodes /\ Last(made[T]) = T
  BY DEF TInv, TypesOK
<1>2. RowIDs = image.ids[made[T]]
  BY DEF RowIDs, T
<1>3. RowIDs \in Seq(Nid \ {R, T})
  BY <1>1, <1>2, ImageFacts DEF TInv, TypeOK
<1>4. row \in Nat \ {0}
  BY DEF TInv, TypeOK
<1> QED
  BY <1>2, <1>3, <1>4, ElementOfSeq

\* Every step of a message keeps the types.
LEMMA NextTInv == TInv /\ [Next]_vars => TInv'
<1> SUFFICES ASSUME TInv, [Next]_vars PROVE TInv'
  OBVIOUS
<1>1. row \in Nat \ {0} /\ fail \in BOOLEAN /\ cut \in BOOLEAN /\ image \in Images
  BY DEF TInv, TypeOK
<1>2. CASE FindNode
  <2>1. pc' \in {"tree", "idle", "aborted"} /\ TreeStep
        /\ UNCHANGED <<assertsOn, image, made, row, cut, fail>>
    BY <1>2 DEF FindNode, Fails, TreeStep
  <2>2. pc' \in PCs /\ pc' \notin {"pc", R, T, "attachments", "finish"}
    BY <2>1 DEF PCs, Ended, R, T, RECIPIENT_TC_NID, ATTACH_TC_NID
  <2> QED
    BY <1>1, <2>1, <2>2, SameTypes
<1>3. CASE BuildTree
  <2>1. PICK t \in {Whole, Emptied(Whole, <<>>)} : tree' = With(tree, "message", t)
    BY <1>3 DEF BuildTree
  <2>2. /\ pc' \in {"pc", "aborted"} /\ fail' \in BOOLEAN
        /\ UNCHANGED <<assertsOn, image, made, row, cut>>
    BY <1>3 DEF BuildTree, Fails, Arrival
  <2>3. IsTree(t)
    BY <2>1, WholeTree, EmptiedTree
  <2>4. /\ DOMAIN tree' = DOMAIN tree \cup {"message"} /\ tree'["message"] = t
        /\ \A h \in DOMAIN tree : h # "message" => tree'[h] = tree[h]
    BY <2>1 DEF With
  <2>5. \A h \in DOMAIN tree' : IsTree(tree'[h])
    BY <2>3, <2>4 DEF TInv, TypesOK
  <2>6. TypesOK'
    <3>1. (\A h \in DOMAIN tree : IsTree(tree[h]))'
      BY <2>2, <2>5 DEF IsTree
    <3>2. pc' # "attachments"
      BY <2>2
    <3> QED
      BY <2>2, <2>4, <3>1, <3>2 DEF TInv, TypesOK
  <2>7. \A h \in DOMAIN tree' :
          /\ tree'[h].subs \subseteq image.subs /\ DOMAIN tree'[h].data \subseteq image.nodes
          /\ \A q \in DOMAIN tree'[h].data : tree'[h].data[q] \in States
    BY <2>5, TreeFacts
  <2>8. DOMAIN tree' \subseteq Holders
    BY <2>4 DEF TInv, TypeOK, Holders
  <2>9. TypeOK'
    BY <1>1, <2>2, <2>7, <2>8 DEF TInv, TypeOK
  <2> QED
    BY <2>6, <2>9 DEF TInv
<1>4. CASE MakePC
  <2>1. UNCHANGED <<assertsOn, image, row, cut>> /\ pc = "pc" /\ fail' \in BOOLEAN
    BY <1>1, <1>4 DEF MakePC, Arrival
  <2>2. CASE pc' \in {"thrown", "undefined", "aborted"} /\ UNCHANGED <<tree, made>>
    <3>1. pc' \in PCs /\ pc' \notin {"pc", R, T, "attachments", "finish"}
      BY <2>2 DEF PCs, Ended, R, T, RECIPIENT_TC_NID, ATTACH_TC_NID
    <3> QED
      BY <1>1, <2>1, <2>2, <3>1, SameTypes DEF TreeStep
  <2>3. CASE /\ tree' = With(tree, "pc", tree["message"])
             /\ made' = With(made, "pc", <<>>) /\ pc' = R
    <3>1. "message" \in DOMAIN tree /\ IsTree(tree["message"])
      BY <2>1 DEF TInv, TypesOK
    <3>2. /\ DOMAIN tree' = DOMAIN tree \cup {"pc"} /\ tree'["pc"] = tree["message"]
          /\ \A h \in DOMAIN tree : h # "pc" => tree'[h] = tree[h]
      BY <2>3 DEF With
    <3>3. /\ DOMAIN made' = DOMAIN made \cup {"pc"} /\ made'["pc"] = <<>>
          /\ \A h \in DOMAIN made : h # "pc" => made'[h] = made[h]
      BY <2>3 DEF With
    <3>4. \A h \in DOMAIN tree' : IsTree(tree'[h])
      BY <3>1, <3>2 DEF TInv, TypesOK
    <3>5. R # "attachments" /\ "pc" \notin {R, T} /\ pc' = R
      BY <2>3 DEF R, T, RECIPIENT_TC_NID, ATTACH_TC_NID
    <3>6. TypesOK'
      <4>1. (\A h \in DOMAIN tree : IsTree(tree[h]))'
        BY <2>1, <3>4 DEF IsTree
      <4>2. \A t \in {R, T} \cap DOMAIN made' : made'[t] \in image.nodes /\ Last(made'[t]) = t
        BY <3>3, <3>5 DEF TInv, TypesOK
      <4> QED
        BY <2>1, <3>1, <3>2, <3>5, <4>1, <4>2 DEF TypesOK
    <3>7. \A h \in DOMAIN tree' :
            /\ tree'[h].subs \subseteq image.subs /\ DOMAIN tree'[h].data \subseteq image.nodes
            /\ \A q \in DOMAIN tree'[h].data : tree'[h].data[q] \in States
      BY <3>4, TreeFacts
    <3>8. DOMAIN tree' \subseteq Holders /\ DOMAIN made' \subseteq Holders \ {"message"}
      BY <3>2, <3>3 DEF TInv, TypeOK, Holders
    <3>9. \A h \in DOMAIN made' : made'[h] \in image.nodes \cup {<<>>}
      BY <3>3 DEF TInv, TypeOK
    <3>10. TypeOK'
      BY <1>1, <2>1, <3>5, <3>7, <3>8, <3>9 DEF TInv, TypeOK, R
    <3> QED
      BY <3>6, <3>10 DEF TInv
  <2> QED
    BY <1>4, <2>2, <2>3 DEF MakePC, Fails, R
<1>5. CASE MakeRecipients
  <2>1. MakeTable(R, T, T)
    BY <1>5 DEF MakeRecipients, R, T
  <2>2. T # "attachments"
    BY DEF T, ATTACH_TC_NID
  <2> QED
    BY <2>1, <2>2, MakeTableTypes
<1>6. CASE MakeAttachmentTable
  <2>1. MakeTable(T, "attachments", "finish")
    BY <1>6 DEF MakeAttachmentTable, T
  <2> QED
    BY <2>1, MakeTableTypes
<1>7. CASE MakeAttachment
  <2>1. pc = "attachments" /\ row' = row + 1 /\ UNCHANGED <<assertsOn, image, cut>>
        /\ T \in DOMAIN made /\ AttachNID = RowIDs[row] /\ row <= Len(RowIDs)
    BY <1>7 DEF MakeAttachment, AttachNID, TInv, TypesOK
  <2>2. AttachNID \in Nid /\ row' \in Nat \ {0}
    BY <1>1, <2>1, RowFacts
  <2>3. CASE pc' = Fails("undefined") /\ UNCHANGED <<tree, made, fail>>
    <3>1. pc' \in {"undefined", "aborted"}
      BY <2>3 DEF Fails
    <3>2. pc' \in PCs /\ pc' \notin {"pc", R, T, "attachments", "finish"}
      BY <3>1 DEF PCs, Ended, R, T, RECIPIENT_TC_NID, ATTACH_TC_NID
    <3> QED
      BY <1>1, <2>1, <2>2, <2>3, <3>2, SameTypes DEF TreeStep
  <2>4. ASSUME NEW p \in Found("message", AttachNID),
               MakeOf(AttachNID, p, TRUE, "attachments")
        PROVE  TInv'
    BY <2>1, <2>2, <2>4, MakeOfTypes
  <2> QED
    BY <1>7, <2>3, <2>4 DEF MakeAttachment
<1>8. CASE Finish
  <2>1. /\ UNCHANGED <<assertsOn, image, made, cut, fail>> /\ row' = 1
        /\ pc' \in {"idle", "aborted"} /\ tree' = [h \in DOMAIN tree \ {"message"} |-> tree[h]]
    BY <1>8 DEF Finish, Fails
  <2>2. /\ DOMAIN tree' = DOMAIN tree \ {"message"}
        /\ \A h \in DOMAIN tree' : tree'[h] = tree[h]
    BY <2>1
  <2>3. TypesOK'
    <3>1. (\A h \in DOMAIN tree : IsTree(tree[h]))'
      BY <2>1, <2>2 DEF TInv, TypesOK, IsTree
    <3>2. pc' \notin {"pc", R, T, "attachments", "finish"}
      BY <2>1 DEF R, T, RECIPIENT_TC_NID, ATTACH_TC_NID
    <3> QED
      BY <2>1, <3>1, <3>2 DEF TInv, TypesOK
  <2>4. TypeOK'
    BY <1>1, <2>1, <2>2 DEF TInv, TypeOK
  <2> QED
    BY <2>3, <2>4 DEF TInv
<1>9. CASE CallStep
  <2>1. /\ TreeStep /\ FailStep /\ UNCHANGED <<assertsOn, image, made, cut>>
        /\ row' \in Nat \ {0} /\ pc' \in Ended
    BY <1>1, <1>9, CallSteps
  <2>2. fail' \in BOOLEAN /\ cut' \in BOOLEAN
    BY <1>1, <2>1 DEF FailStep
  <2>3. pc' \in PCs /\ pc' \notin {"pc", R, T, "attachments", "finish"}
    BY <2>1 DEF PCs, Ended, R, T, RECIPIENT_TC_NID, ATTACH_TC_NID
  <2> QED
    BY <2>1, <2>2, <2>3, SameTypes
<1>10. CASE Cut \/ UNCHANGED vars
  <2>1. UNCHANGED <<assertsOn, image, tree, made, row, fail, pc>> /\ cut' \in BOOLEAN
    BY <1>1, <1>10 DEF Cut, vars
  <2>2. pc' \in PCs
    BY <2>1 DEF TInv, TypeOK, PCs, Ended, R, T
  <2>3. /\ pc' \in {"pc", R, T, "attachments", "finish"} => "message" \in DOMAIN tree
        /\ pc' = "attachments" => T \in DOMAIN made
    BY <2>1 DEF TInv, TypesOK
  <2> QED
    BY <1>1, <2>1, <2>2, <2>3, SameTypes DEF TreeStep
<1> QED
  BY <1>2, <1>3, <1>4, <1>5, <1>6, <1>7, <1>8, <1>9, <1>10 DEF Next, CallStep

\* The type invariant.
THEOREM TypeCorrect == Spec => []TypeOK
<1>1. TInv => TypeOK
  BY DEF TInv
<1> QED
  BY <1>1, InitTInv, NextTInv, PTL DEF Spec

-----------------------------------------------------------------------------
(* Whose data and trees a context has. *)

\* t has the sub-nodes under p, and nothing was moved out of it.
TreeUnder(t, p) ==
  /\ t.subs = {s \in image.subs : IsPrefix(p, s)}
  /\ DOMAIN t.data = {q \in image.nodes : IsStrictPrefix(p, q)}
  /\ \A q \in DOMAIN t.data : t.data[q] # "moved"

PartOK(h) ==
  LET p == IF h = "pc" THEN <<>> ELSE <<h>>
  IN  /\ made[h] = p
      /\ h \in DOMAIN tree <=> p \in image.subs
      /\ h \in DOMAIN tree => TreeUnder(tree[h], p)

PartsOK == (\A h \in DOMAIN made : PartOK(h)) /\ DOMAIN tree \subseteq {"message"} \cup DOMAIN made

\* The tables whose trees were moved out of the tree of the message.
Gone == {h \in {R, T} \cap DOMAIN made : <<h>> \in image.subs}

\* What the tree of the message still has.
RestOK ==
  LET t == tree["message"]
  IN  /\ "message" \in DOMAIN tree
      /\ t.subs = {s \in image.subs : \A h \in Gone : ~IsStrictPrefix(<<h>>, s)}
      /\ DOMAIN t.data = {q \in image.nodes : \A h \in Gone : ~IsStrictPrefix(<<h>>, q)}
      /\ \A q \in DOMAIN t.data :
           t.data[q] = "moved" => \E h \in DOMAIN made \ {"pc"} : q = <<h>>

\* What is found under a NID that the message has itself, or nowhere.
LEMMA FoundOwn ==
  ASSUME TInv, RestOK, NEW nid \in Nid,
         (\E p \in image.nodes : Last(p) = nid) => <<nid>> \in image.nodes
  PROVE  /\ Found("message", nid) \subseteq {<<nid>>}
         /\ <<nid>> \in image.nodes => <<nid>> \in Found("message", nid)
<1> DEFINE t == tree["message"]
<1>1. image \in Images /\ image.nodes \subseteq Seq(Nid) /\ image.subs \subseteq Seq(Nid)
      /\ <<>> \notin image.nodes /\ <<>> \in image.subs /\ Gone \subseteq Nid
  BY ImageFacts DEF TInv, TypeOK, Gone
<1>2. DOMAIN t.data \subseteq image.nodes
  BY DEF RestOK
<1>3. ASSUME <<nid>> \in image.nodes PROVE <<nid>> \in DOMAIN t.data
  <2>1. ASSUME NEW h \in Gone PROVE ~IsStrictPrefix(<<h>>, <<nid>>)
    <3>1. h \in Nid
      BY <1>1
    <3>2. <<nid>> \in Seq(Nid) /\ Len(<<nid>>) = 1
      BY OneNid
    <3>3. IsStrictPrefix(<<h>>, <<nid>>) => Len(<<nid>>) >= 2
      BY <3>1, <3>2, PrefixOfOne
    <3> QED
      BY <3>2, <3>3
  <2> QED
    BY <1>3, <2>1 DEF RestOK
<1>4. <<>> \in t.subs
  <2>1. \A h \in Gone : ~IsStrictPrefix(<<h>>, <<>>)
    <3>1. <<>> \in Seq(Nid) /\ Len(<<>>) = 0
      BY EmptySeq
    <3> QED
      BY <1>1, <3>1, PrefixOfOne
  <2> QED
    BY <1>1, <2>1 DEF RestOK
<1>5. Append(<<>>, nid) = <<nid>>
  OBVIOUS
<1>6. ASSUME NEW p \in Found("message", nid) PROVE p = <<nid>>
  <2>1. p \in DOMAIN t.data /\ Last(p) = nid
    BY <1>6, FoundFacts
  <2>2. p \in image.nodes /\ p \in Seq(Nid) /\ p # <<>>
    BY <1>1, <1>2, <2>1
  <2>3. <<nid>> \in DOMAIN t.data
    BY <1>3, <2>1, <2>2
  <2>4. ~IsStrictPrefix(<<>>, Front(p))
    BY <1>4, <1>5, <1>6, <2>3 DEF Found
  <2>5. Front(p) \in Seq(Nid) /\ (Front(p) = <<>> <=> p = <<Last(p)>>)
    BY <2>2, FrontOfPath
  <2>6. Front(p) = <<>>
    BY <2>4, <2>5, PrefixOfNone
  <2> QED
    BY <2>1, <2>5, <2>6
<1>7. ASSUME <<nid>> \in image.nodes PROVE <<nid>> \in Found("message", nid)
  <2>1. <<nid>> \in Seq(Nid) /\ Last(<<nid>>) = nid /\ <<nid>> # <<>>
    BY OneNid
  <2>2. Front(<<nid>>) = <<>>
    BY <2>1, FrontOfPath
  <2>3. ASSUME NEW q \in t.subs PROVE ~IsStrictPrefix(q, <<>>)
    <3>1. q \in Seq(Nid)
      BY <1>1 DEF RestOK
    <3>2. <<>> \in Seq(Nid) /\ Len(<<>>) = 0
      BY EmptySeq
    <3>3. IsPrefix(q, <<>>) => Len(q) <= 0
      BY <3>2 DEF IsPrefix
    <3>4. q # <<>> => Len(q) \in Nat \ {0}
      BY <3>1, EmptySeq
    <3> QED
      BY <3>3, <3>4 DEF IsStrictPrefix
  <2> QED
    BY <1>3, <1>7, <2>1, <2>2, <2>3 DEF Found
<1> QED
  BY <1>6, <1>7

\* A step that leaves the contexts what they are made of, and moves nothing.
LEMMA SameParts ==
  ASSUME PartsOK, TreeStep, UNCHANGED <<image, made>>, TInv
  PROVE  PartsOK'
<1>1. CASE tree' = tree
  BY <1>1 DEF PartsOK, PartOK, TreeUnder
<1>2. ASSUME NEW g \in DOMAIN tree, NEW p \in DOMAIN tree[g].data, NEW s \in States,
             s = "moved" => tree[g].data[p] = "moved",
             tree' = [tree EXCEPT ![g].data[p] = s]
      PROVE  PartsOK'
  <2> DEFINE u == [tree[g] EXCEPT !.data[p] = s]
  <2>1. IsTree(tree[g])
    BY DEF TInv, TypesOK
  <2>2. /\ u.subs = tree[g].subs /\ DOMAIN u.data = DOMAIN tree[g].data
        /\ \A q \in DOMAIN u.data : u.data[q] = IF q = p THEN s ELSE tree[g].data[q]
    BY <2>1, SetState
  <2>3. tree' = [tree EXCEPT ![g] = u]
    BY <1>2
  <2> HIDE DEF u
  <2>4. DOMAIN tree' = DOMAIN tree /\ \A h \in DOMAIN tree : tree'[h] = IF h = g THEN u ELSE tree[h]
    BY <2>3
  <2>5. ASSUME NEW h \in DOMAIN made PROVE PartOK(h)'
    <3> DEFINE b == IF h = "pc" THEN <<>> ELSE <<h>>
    <3>1. /\ made[h] = b /\ (h \in DOMAIN tree <=> b \in image.subs)
          /\ h \in DOMAIN tree => TreeUnder(tree[h], b)
      BY DEF PartsOK, PartOK
    <3>2. ASSUME h \in DOMAIN tree PROVE TreeUnder(tree[h], b)'
      <4>1. TreeUnder(tree[h], b)
        BY <3>1, <3>2
      <4>2. CASE h # g
        BY <2>4, <3>2, <4>1, <4>2 DEF TreeUnder
      <4>3. CASE h = g
        <5>1. tree'[h] = u
          BY <2>4, <3>2, <4>3
        <5>2. \A q \in DOMAIN u.data : u.data[q] # "moved"
          BY <1>2, <2>2, <4>1, <4>3 DEF TreeUnder
        <5> QED
          BY <2>2, <4>1, <4>3, <5>1, <5>2 DEF TreeUnder
      <4> QED
        BY <4>2, <4>3
    <3> QED
      BY <2>4, <3>1, <3>2 DEF PartOK
  <2> QED
    BY <2>4, <2>5 DEF PartsOK
<1> QED
  BY <1>1, <1>2 DEF TreeStep

\* A context is made of its own data, and given its own tree.
LEMMA MakesParts ==
  ASSUME TInv, PartsOK, RestOK, NEW nid \in Nid \ DOMAIN made, NEW keep \in BOOLEAN,
         keep = (nid \notin {R, T}), <<nid>> \in DOMAIN tree["message"].data,
         Makes(nid, <<nid>>, keep), UNCHANGED image
  PROVE  PartsOK' /\ RestOK'
<1> DEFINE p    == <<nid>>
           t    == tree["message"]
           rest == [t EXCEPT !.data[p] = "moved"]
<1>1. /\ image \in Images /\ image.nodes \subseteq Seq(Nid) /\ image.subs \subseteq Seq(Nid)
      /\ "pc" \notin Nid /\ "message" \notin Nid /\ R \in Nid /\ T \in Nid
      /\ nid # "pc" /\ nid # "message" /\ Gone \subseteq Nid \cap DOMAIN made
      /\ "message" \notin DOMAIN made
  BY ImageFacts DEF TInv, TypeOK, Gone
<1>2. "message" \in DOMAIN tree /\ IsTree(t) /\ "moved" \in States
  BY DEF RestOK, TInv, TypesOK, States
<1>3. /\ IsTree(rest) /\ rest.subs = t.subs /\ DOMAIN rest.data = DOMAIN t.data
      /\ \A q \in DOMAIN t.data : rest.data[q] = IF q = p THEN "moved" ELSE t.data[q]
  BY <1>2, SetState
<1> HIDE DEF rest
<1>4. /\ DOMAIN made' = DOMAIN made \cup {nid} /\ made'[nid] = p
      /\ \A h \in DOMAIN made : made'[h] = made[h]
  BY DEF Makes, With
<1>5. p \in rest.subs <=> p \in image.subs
  <2>1. \A h \in Gone : ~IsStrictPrefix(<<h>>, p)
    <3>1. ASSUME NEW h \in Gone PROVE ~IsStrictPrefix(<<h>>, p)
      <4>1. p \in Seq(Nid) /\ Len(p) = 1
        BY OneNid
      <4>2. IsStrictPrefix(<<h>>, p) => Len(p) >= 2
        BY <1>1, <4>1, PrefixOfOne
      <4> QED
        BY <4>1, <4>2
    <3> QED
      BY <3>1
  <2> QED
    BY <1>3, <2>1 DEF RestOK
<1>6. \* nothing under nid has gone
      \A q \in Seq(Nid), h \in Gone : IsPrefix(p, q) => ~IsStrictPrefix(<<h>>, q)
  <2>1. ASSUME NEW q \in Seq(Nid), NEW h \in Gone, IsPrefix(p, q)
        PROVE  ~IsStrictPrefix(<<h>>, q)
    <3>1. q[1] = nid
      BY <2>1, PrefixOfOne
    <3>2. IsStrictPrefix(<<h>>, q) => q[1] = h
      BY <1>1, <2>1, PrefixOfOne
    <3> QED
      BY <1>1, <3>1, <3>2
  <2> QED
    BY <2>1
<1>7. TreeUnder(Nested(rest, p), p)
  <2>1. Nested(rest, p).subs = {s \in image.subs : IsPrefix(p, s)}
    <3>1. Nested(rest, p).subs = {s \in t.subs : IsPrefix(p, s)}
      BY <1>3, NestedTree
    <3> QED
      BY <1>1, <1>6, <3>1 DEF RestOK
  <2>2. DOMAIN Nested(rest, p).data = {q \in image.nodes : IsStrictPrefix(p, q)}
    <3>1. DOMAIN Nested(rest, p).data = {q \in DOMAIN t.data : IsStrictPrefix(p, q)}
      BY <1>3, NestedTree
    <3>2. \A q : IsStrictPrefix(p, q) => IsPrefix(p, q)
      BY DEF IsStrictPrefix
    <3> QED
      BY <1>1, <1>6, <3>1, <3>2 DEF RestOK
  <2>3. ASSUME NEW q \in DOMAIN Nested(rest, p).data
        PROVE  Nested(rest, p).data[q] # "moved"
    <3>1. /\ q \in DOMAIN t.data /\ IsStrictPrefix(p, q) /\ q \in Seq(Nid)
          /\ Nested(rest, p).data[q] = rest.data[q]
      BY <1>1, <1>3, <2>2, NestedTree
    <3>2. Len(q) # 1
      <4>1. Len(q) \in Nat
        BY <3>1
      <4>2. Len(q) >= 2
        BY <3>1, PrefixOfOne
      <4>3. \A n \in Nat : n >= 2 => n # 1
        OBVIOUS
      <4> QED
        BY <4>1, <4>2, <4>3, Zenon
    <3>3. ASSUME NEW h \in DOMAIN made \ {"pc"} PROVE q # <<h>>
      <4>1. h \in Nid
        BY <1>1 DEF TInv, TypeOK, Holders
      <4> DEFINE y == <<h>>
      <4>2. Len(y) = 1
        BY <4>1, OneNid
      <4> HIDE DEF y
      <4>3. q # y
        BY <3>2, <4>2
      <4> QED
        BY <4>3 DEF y
    <3>4. q # p
      <4>1. Len(p) = 1
        BY OneNid
      <4> HIDE DEF p
      <4> QED
        BY <3>2, <4>1
    <3>5. t.data[q] # "moved"
      BY <3>1, <3>3 DEF RestOK
    <3> QED
      BY <1>3, <3>1, <3>4, <3>5
  <2> QED
    BY <2>1, <2>2, <2>3 DEF TreeUnder
<1>8. \* the trees after the step
      /\ DOMAIN tree' = DOMAIN tree \cup (IF p \in image.subs THEN {nid} ELSE {})
      /\ \A h \in DOMAIN made : h \in DOMAIN tree => tree'[h] = tree[h]
      /\ p \in image.subs => tree'[nid] = Nested(rest, p)
      /\ tree'["message"] = IF p \in image.subs /\ ~keep THEN Emptied(rest, p) ELSE rest
  <2>1. CASE p \notin image.subs
    <3>1. tree' = With(tree, "message", rest)
      BY <1>5, <2>1 DEF Makes, rest
    <3>2. /\ DOMAIN tree' = DOMAIN tree \cup {"message"} /\ tree'["message"] = rest
          /\ \A h \in DOMAIN tree : h # "message" => tree'[h] = tree[h]
      BY <3>1 DEF With
    <3> QED
      BY <1>1, <1>2, <2>1, <3>2
  <2>2. CASE p \in image.subs
    <3> DEFINE given == With(tree, nid, Nested(rest, p))
               left  == IF keep THEN rest ELSE Emptied(rest, p)
    <3>1. tree' = With(given, "message", left)
      BY <1>5, <2>2 DEF Makes, rest
    <3>2. /\ DOMAIN given = DOMAIN tree \cup {nid} /\ given[nid] = Nested(rest, p)
          /\ \A h \in DOMAIN tree : h # nid => given[h] = tree[h]
      BY DEF With
    <3> HIDE DEF given, left
    <3>3. /\ DOMAIN tree' = DOMAIN given \cup {"message"} /\ tree'["message"] = left
          /\ \A h \in DOMAIN given : h # "message" => tree'[h] = given[h]
      BY <3>1 DEF With
    <3>4. left = IF p \in image.subs /\ ~keep THEN Emptied(rest, p) ELSE rest
      BY <2>2 DEF left
    <3> QED
      BY <1>1, <1>2, <2>2, <3>2, <3>3, <3>4
  <2> QED
    BY <2>1, <2>2
<1>9. PartsOK'
  <2>1. ASSUME NEW h \in DOMAIN made PROVE PartOK(h)'
    <3>1. h # nid /\ (h \in DOMAIN tree' <=> h \in DOMAIN tree) /\ PartOK(h)
      BY <1>8, <2>1 DEF PartsOK
    <3>2. h \in DOMAIN tree => tree'[h] = tree[h]
      BY <1>8
    <3> QED
      BY <1>4, <3>1, <3>2 DEF PartOK, TreeUnder
  <2>2. PartOK(nid)'
    <3>1. nid \notin DOMAIN tree
      BY <1>1 DEF PartsOK
    <3>2. nid \in DOMAIN tree' <=> p \in image.subs
      BY <1>8, <3>1
    <3>3. p \in image.subs => TreeUnder(tree[nid], p)'
      BY <1>7, <1>8 DEF TreeUnder
    <3> QED
      BY <1>1, <1>4, <3>2, <3>3 DEF PartOK
  <2>3. DOMAIN tree' \subseteq {"message"} \cup DOMAIN made'
    BY <1>4, <1>8 DEF PartsOK
  <2> QED
    BY <1>4, <2>1, <2>2, <2>3 DEF PartsOK
<1>10. RestOK'
  <2>1. Gone' = Gone \cup (IF p \in image.subs /\ ~keep THEN {nid} ELSE {})
    BY <1>4 DEF Gone
  <2>2. "message" \in DOMAIN tree'
    BY <1>2, <1>8
  <2>3. /\ tree'["message"].subs =
             {s \in image.subs : \A h \in Gone' : ~IsStrictPrefix(<<h>>, s)}
        /\ DOMAIN tree'["message"].data =
             {q \in image.nodes : \A h \in Gone' : ~IsStrictPrefix(<<h>>, q)}
        /\ \A q \in DOMAIN tree'["message"].data :
             q \in DOMAIN rest.data /\ tree'["message"].data[q] = rest.data[q]
    <3>1. CASE p \in image.subs /\ ~keep
      <4>1. /\ Emptied(rest, p).subs = {s \in rest.subs : ~IsStrictPrefix(p, s)}
            /\ DOMAIN Emptied(rest, p).data = {q \in DOMAIN rest.data : ~IsStrictPrefix(p, q)}
            /\ \A q \in DOMAIN Emptied(rest, p).data : Emptied(rest, p).data[q] = rest.data[q]
        BY <1>3, EmptiedTree
      <4>2. Gone' = Gone \cup {nid} /\ tree'["message"] = Emptied(rest, p)
        BY <1>8, <2>1, <3>1
      <4> QED
        BY <1>3, <4>1, <4>2 DEF RestOK
    <3>2. CASE ~(p \in image.subs /\ ~keep)
      <4>1. Gone' = Gone /\ tree'["message"] = rest
        BY <1>8, <2>1, <3>2
      <4> QED
        BY <1>3, <4>1 DEF RestOK
    <3> QED
      BY <3>1, <3>2
  <2>4. ASSUME NEW q \in DOMAIN tree'["message"].data, tree'["message"].data[q] = "moved"
        PROVE  \E h \in DOMAIN made' \ {"pc"} : q = <<h>>
    <3>1. q \in DOMAIN t.data /\ rest.data[q] = "moved"
      BY <1>3, <2>3, <2>4
    <3>2. CASE q = p
      BY <1>1, <1>4, <3>2
    <3>3. CASE q # p
      BY <1>3, <1>4, <3>1, <3>3 DEF RestOK
    <3> QED
      BY <3>2, <3>3
  <2> QED
    BY <2>2, <2>3, <2>4 DEF RestOK
<1> QED
  BY <1>9, <1>10

-----------------------------------------------------------------------------
(* A message that is built while no read failed. *)

Good == image.there /\ ~fail /\ OwnParts

Tables(S) == {nid \in S : <<nid>> \in image.nodes}

\* Which contexts have been made.
MadeOK ==
  /\ pc \in {"init", "tree", "pc", R, T} => row = 1
  /\ pc \in {"init", "tree"} => DOMAIN made = {} /\ DOMAIN tree = {}
  /\ pc = "pc" => DOMAIN made = {}
  /\ pc = R    => DOMAIN made = {"pc"}
  /\ pc = T    => DOMAIN made = {"pc"} \cup Tables({R})
  /\ pc = "attachments" =>
       /\ <<T>> \in image.nodes /\ row <= Len(image.ids[<<T>>]) + 1
       /\ DOMAIN made = {"pc"} \cup Tables({R, T})
            \cup {image.ids[<<T>>][i] : i \in 1..(row - 1)}
  /\ pc = "finish" => <<T>> \notin image.nodes /\ DOMAIN made = {"pc"} \cup Tables({R, T})
  /\ pc \in {"idle", "recipients"} => DOMAIN made = {"pc"} \cup Tables({R, T}) \cup Attachments

Own ==
  (Good /\ pc \notin {"thrown", "undefined", "aborted"}) =>
    /\ MadeOK /\ PartsOK
    /\ pc \in {"pc", R, T, "attachments", "finish"} => RestOK

LEMMA PcFacts ==
  /\ R # T /\ R \notin {"init", "tree", "pc", "attachments", "finish", "idle", "recipients",
                        "thrown", "undefined", "aborted"}
  /\ T \notin {"init", "tree", "pc", "attachments", "finish", "idle", "recipients",
               "thrown", "undefined", "aborted"}
  BY DEF R, T, RECIPIENT_TC_NID, ATTACH_TC_NID

\* A failed read fails every later one.
LEMMA StepFails ==
  ASSUME TInv, [Next]_vars
  PROVE  FailStep /\ UNCHANGED image
<1>0. fail \in BOOLEAN /\ row \in Nat \ {0}
  BY DEF TInv, TypeOK
<1>1. CASE FindNode \/ Finish \/ Cut \/ UNCHANGED vars
  BY <1>0, <1>1 DEF FindNode, Finish, Cut, vars, FailStep
<1>2. CASE BuildTree
  BY <1>0, <1>2, ArrivalFails DEF BuildTree
<1>3. CASE MakePC
  BY <1>0, <1>3, ArrivalFails DEF MakePC, FailStep
<1>4. ASSUME NEW nid, NEW p, NEW keep, NEW next, MakeOf(nid, p, keep, next)
      PROVE  FailStep
  <2>1. CASE UNCHANGED fail
    BY <1>0, <2>1 DEF FailStep
  <2>2. ASSUME NEW s \in States, Loads("message", p, s) PROVE FailStep
    BY <1>0, <2>2, LoadsFails
  <2> QED
    BY <1>4, <2>1, <2>2 DEF MakeOf
<1>5. ASSUME NEW nid, NEW next, NEW none, MakeTable(nid, next, none)
      PROVE  FailStep /\ UNCHANGED image
  BY <1>0, <1>4, <1>5 DEF MakeTable, FailStep
<1>6. CASE MakeRecipients \/ MakeAttachmentTable
  BY <1>5, <1>6 DEF MakeRecipients, MakeAttachmentTable
<1>7. CASE MakeAttachment
  BY <1>0, <1>4, <1>7 DEF MakeAttachment, FailStep
<1>8. CASE CallStep
  BY <1>0, <1>8, CallSteps
<1> QED
  BY <1>1, <1>2, <1>3, <1>6, <1>7, <1>8 DEF Next, CallStep

\* A message of which a read never failed until now never had one.
LEMMA GoodBefore ==
  ASSUME TInv, [Next]_vars, Good'
  PROVE  Good /\ UNCHANGED image
<1>1. FailStep /\ UNCHANGED image
  BY StepFails
<1>2. fail \in BOOLEAN
  BY DEF TInv, TypeOK
<1> QED
  BY <1>1, <1>2 DEF Good, OwnParts, Attachments, FailStep

\* A table or an attachment, made without a failing read: it is its own.
LEMMA MakeOfOwn ==
  ASSUME TInv, PartsOK, RestOK, Good, Good', UNCHANGED image,
         NEW nid \in Nid \ DOMAIN made, nid \in {R, T} \cup Attachments,
         NEW p \in Found("message", nid), NEW keep \in BOOLEAN, keep = (nid \notin {R, T}),
         NEW next, MakeOf(nid, p, keep, next),
         pc' \notin {"thrown", "undefined", "aborted"}
  PROVE  /\ PartsOK' /\ RestOK' /\ pc' = next /\ DOMAIN made' = DOMAIN made \cup {nid}
         /\ <<nid>> \in image.nodes
<1>1. p = <<nid>> /\ p \in DOMAIN tree["message"].data
  <2>1. (\E q \in image.nodes : Last(q) = nid) => <<nid>> \in image.nodes
    BY DEF Good, OwnParts, R, T
  <2> QED
    BY <2>1, FoundOwn, FoundFacts
<1>2. Makes(nid, p, keep) /\ pc' = next
  BY DEF MakeOf, Fails
<1>3. DOMAIN made' = DOMAIN made \cup {nid}
  BY <1>2 DEF Makes, With
<1>4. PartsOK' /\ RestOK'
  BY <1>1, <1>2, MakesParts
<1> QED
  BY <1>1, <1>2, <1>3, <1>4 DEF RestOK

\* The next attachment is one that was not made yet.
LEMMA AttachmentIsNew ==
  ASSUME TInv, Own, Good, pc = "attachments", row <= Len(RowIDs)
  PROVE  LET ids == image.ids[<<T>>]
         IN  /\ PartsOK /\ RestOK /\ <<T>> \in image.nodes
             /\ row \in 1..Len(ids) /\ Len(ids) \in Nat
             /\ DOMAIN made = {"pc"} \cup Tables({R, T}) \cup {ids[i] : i \in 1..(row - 1)}
             /\ AttachNID = ids[row] /\ ids[row] \in Nid \ {R, T} /\ ids[row] \in Attachments
             /\ ids[row] \notin DOMAIN made
<1> DEFINE ids == image.ids[<<T>>]
           nid == ids[row]
<1>1. /\ image \in Images /\ row \in Nat \ {0} /\ R \in Nid /\ T \in Nid /\ "pc" \notin Nid
  BY ImageFacts DEF TInv, TypeOK
<1>2. /\ PartsOK /\ RestOK /\ <<T>> \in image.nodes
      /\ DOMAIN made = {"pc"} \cup Tables({R, T}) \cup {ids[i] : i \in 1..(row - 1)}
  BY DEF Own, MadeOK
<1>3. RowIDs = ids
  <2>1. T \in DOMAIN made /\ T # "pc"
    BY <1>1, <1>2 DEF Tables
  <2> QED
    BY <2>1, <1>2 DEF RowIDs, PartsOK, PartOK, T
<1>4. ids \in Seq(Nid \ {R, T}) /\ IsInjective(ids)
  BY <1>1, <1>2, OneNid, ImageFacts
<1>5. Len(ids) \in Nat /\ row \in 1..Len(ids) /\ DOMAIN ids = 1..Len(ids)
      /\ \A i \in 1..Len(ids) : ids[i] \in Nid \ {R, T}
  BY <1>1, <1>3, <1>4, ElementOfSeq
<1>6. \A i \in 1..(row - 1) : i \in DOMAIN ids /\ ids[i] # nid
  BY <1>1, <1>4, <1>5 DEF IsInjective
<1>7. AttachNID = nid /\ nid \in Nid \ {R, T} /\ nid \in Attachments
  <2>1. Attachments = {ids[i] : i \in DOMAIN ids}
    BY <1>2 DEF Attachments, ToSet, T
  <2> QED
    BY <1>3, <1>5, <2>1 DEF AttachNID
<1>8. nid \notin DOMAIN made
  BY <1>1, <1>2, <1>6, <1>7 DEF Tables
<1> QED
  BY <1>2, <1>5, <1>7, <1>8

LEMMA InitOwn == Init => Own
<1> SUFFICES ASSUME Init PROVE Own
  OBVIOUS
<1>1. DOMAIN tree = {} /\ DOMAIN made = {} /\ pc = "init" /\ row = 1
  BY DEF Init
<1>2. pc \notin {"pc", R, T, "attachments", "finish", "idle", "recipients"}
  BY <1>1, PcFacts
<1>3. MadeOK
  BY <1>1, <1>2 DEF MadeOK
<1>4. PartsOK
  BY <1>1 DEF PartsOK
<1> QED
  BY <1>2, <1>3, <1>4 DEF Own

\* Every step keeps it.
LEMMA NextOwn == TInv /\ Own /\ [Next]_vars => Own'
<1> SUFFICES ASSUME TInv, Own, [Next]_vars, Good',
                    pc' \notin {"thrown", "undefined", "aborted"}
             PROVE  MadeOK' /\ PartsOK'
                    /\ (pc' \in {"pc", R, T, "attachments", "finish"} => RestOK')
  BY DEF Own
<1>1. Good /\ UNCHANGED image
  BY GoodBefore
<1>2. image \in Images /\ row \in Nat \ {0} /\ fail \in BOOLEAN
      /\ R \in Nid /\ T \in Nid /\ "pc" \notin Nid
  BY ImageFacts DEF TInv, TypeOK
<1>3. ~fail' /\ ~fail
  BY <1>1 DEF Good
<1>4. CASE FindNode
  <2>1. pc = "init" /\ pc' = "tree" /\ UNCHANGED <<tree, made>>
    BY <1>1, <1>4 DEF FindNode, Good
  <2>2. DOMAIN made = {} /\ DOMAIN tree = {} /\ row' = 1
    BY <1>1, <1>4, <2>1 DEF Own, MadeOK, FindNode
  <2>3. PartsOK' /\ MadeOK'
    BY <2>1, <2>2, PcFacts DEF PartsOK, MadeOK
  <2> QED
    BY <2>1, <2>3, PcFacts
<1>5. CASE BuildTree
  <2>1. pc = "tree" /\ pc' = "pc" /\ tree' = With(tree, "message", Whole) /\ UNCHANGED made
    BY <1>3, <1>5 DEF BuildTree, Arrival
  <2>2. DOMAIN made = {} /\ DOMAIN tree = {} /\ row' = 1
    BY <1>1, <1>5, <2>1 DEF Own, MadeOK, BuildTree
  <2>3. DOMAIN tree' = {"message"} /\ tree'["message"] = Whole
    BY <2>1, <2>2 DEF With
  <2>4. PartsOK' /\ MadeOK'
    BY <2>1, <2>2, <2>3, PcFacts DEF PartsOK, MadeOK
  <2>5. RestOK'
    <3>1. Gone' = {}
      BY <2>1, <2>2 DEF Gone
    <3>2. /\ Whole.subs = image.subs /\ DOMAIN Whole.data = image.nodes
          /\ \A q \in image.nodes : Whole.data[q] # "moved"
      BY WholeTree
    <3>3. \A q \in DOMAIN tree'["message"].data : tree'["message"].data[q] # "moved"
      BY <2>3, <3>2
    <3> QED
      BY <1>1, <2>3, <3>1, <3>2, <3>3 DEF RestOK
  <2> QED
    BY <2>4, <2>5
<1>6. CASE MakePC
  <2>1. /\ pc = "pc" /\ pc' = R /\ tree' = With(tree, "pc", tree["message"])
        /\ made' = With(made, "pc", <<>>)
    BY <1>3, <1>6, PcFacts DEF MakePC, Arrival, Fails, R
  <2>2. DOMAIN made = {} /\ PartsOK /\ RestOK /\ row' = 1
    BY <1>1, <1>6, <2>1 DEF Own, MadeOK, MakePC
  <2>3. "message" \in DOMAIN tree /\ DOMAIN tree \subseteq {"message"} /\ Gone = {}
    BY <2>2 DEF PartsOK, RestOK, Gone
  <2>4. /\ DOMAIN tree' = {"message", "pc"} /\ tree'["pc"] = tree["message"]
        /\ tree'["message"] = tree["message"] /\ DOMAIN made' = {"pc"} /\ made'["pc"] = <<>>
    BY <2>1, <2>2, <2>3 DEF With
  <2>5. MadeOK'
    BY <2>1, <2>2, <2>4, PcFacts DEF MadeOK
  <2>6. PartOK("pc")'
    <3>1. /\ image.nodes \subseteq Seq(Nid) /\ <<>> \notin image.nodes
          /\ image.subs \subseteq Seq(Nid) /\ <<>> \in image.subs
      BY <1>2, ImageFacts
    <3>2. /\ {s \in image.subs : IsPrefix(<<>>, s)} = image.subs
          /\ {q \in image.nodes : IsStrictPrefix(<<>>, q)} = image.nodes
      BY <3>1, PrefixOfNone
    <3>3. /\ tree["message"].subs = image.subs /\ DOMAIN tree["message"].data = image.nodes
          /\ \A q \in DOMAIN tree["message"].data : tree["message"].data[q] # "moved"
      BY <2>2, <2>3 DEF RestOK
    <3>4. TreeUnder(tree["pc"], <<>>)'
      BY <1>1, <2>4, <3>2, <3>3 DEF TreeUnder
    <3> QED
      BY <1>1, <2>4, <3>1, <3>4 DEF PartOK
  <2>7. PartsOK'
    BY <2>4, <2>6 DEF PartsOK
  <2>8. RestOK'
    <3>1. Gone' = {}
      BY <2>4, <1>2 DEF Gone
    <3> QED
      BY <1>1, <2>2, <2>3, <2>4, <3>1 DEF RestOK
  <2> QED
    BY <2>5, <2>7, <2>8
<1>7. CASE MakeRecipients \/ MakeAttachmentTable
  <2>1. PICK nid \in {R, T} : /\ nid = R => MakeTable(R, T, T)
                              /\ nid = T => MakeTable(T, "attachments", "finish")
    <3>1. MakeTable(R, T, T) \/ MakeTable(T, "attachments", "finish")
      BY <1>7 DEF MakeRecipients, MakeAttachmentTable, R, T
    <3> QED
      BY <3>1, PcFacts
  <2> DEFINE next == IF nid = R THEN T ELSE "attachments"
             none == IF nid = R THEN T ELSE "finish"
  <2>2. MakeTable(nid, next, none)
    BY <2>1
  <2> HIDE DEF next, none
  <2>3. pc = nid /\ row' = row
    BY <2>2 DEF MakeTable
  <2>4. /\ PartsOK /\ RestOK /\ row' = 1
        /\ DOMAIN made = {"pc"} \cup (IF nid = R THEN {} ELSE Tables({R}))
    BY <1>1, <2>3, PcFacts DEF Own, MadeOK
  <2>5. nid \in Nid \ DOMAIN made
    BY <1>2, <2>4, PcFacts DEF Tables
  <2>6. (\E p \in image.nodes : Last(p) = nid) => <<nid>> \in image.nodes
    BY <1>1 DEF Good, OwnParts, R, T
  <2>7. CASE Found("message", nid) = {}
    <3>1. pc' = none /\ UNCHANGED <<tree, made, fail>>
      BY <2>2, <2>7 DEF MakeTable
    <3>2. <<nid>> \notin image.nodes
      BY <2>4, <2>5, <2>6, <2>7, FoundOwn
    <3>3. PartsOK' /\ RestOK'
      BY <1>1, <2>4, <3>1 DEF PartsOK, PartOK, TreeUnder, RestOK, Gone
    <3>4. MadeOK'
      BY <1>1, <2>4, <3>1, <3>2, PcFacts DEF MadeOK, Tables, none
    <3> QED
      BY <3>3, <3>4
  <2>8. ASSUME NEW p \in Found("message", nid), MakeOf(nid, p, FALSE, next)
        PROVE  MadeOK' /\ PartsOK' /\ RestOK'
    <3>1. /\ PartsOK' /\ RestOK' /\ pc' = next /\ DOMAIN made' = DOMAIN made \cup {nid}
          /\ <<nid>> \in image.nodes
      BY <1>1, <2>4, <2>5, <2>8, MakeOfOwn
    <3>2. CASE nid = R
      BY <1>1, <2>4, <3>1, <3>2, PcFacts DEF MadeOK, Tables, next
    <3>3. CASE nid = T
      <4>1. image.ids[<<T>>] \in Seq(Nid \ {R, T})
        BY <1>2, <3>1, <3>3, OneNid, ImageFacts
      <4>2. row' <= Len(image.ids[<<T>>]) + 1
        BY <2>4, <4>1
      <4>3. {image.ids[<<T>>][i] : i \in 1..(row' - 1)} = {}
        BY <2>4
      <4>4. pc' = "attachments" /\ DOMAIN made' = {"pc"} \cup Tables({R, T})
        BY <2>4, <3>1, <3>3, PcFacts DEF Tables, next
      <4>5. DOMAIN made' = {"pc"} \cup Tables({R, T})'
                             \cup {image'.ids[<<T>>][i] : i \in 1..(row' - 1)}
        <5>1. Tables({R, T})' = Tables({R, T})
          BY <1>1 DEF Tables
        <5>2. {image'.ids[<<T>>][i] : i \in 1..(row' - 1)} = {}
          BY <1>1, <4>3
        <5> QED
          BY <4>4, <5>1, <5>2
      <4>6. pc' \notin {"init", "tree", "pc", R, T, "finish", "idle", "recipients"}
        BY <4>4, PcFacts
      <4>7. <<T>> \in image'.nodes /\ row' <= Len(image'.ids[<<T>>]) + 1
        BY <1>1, <3>1, <3>3, <4>2
      <4> QED
        BY <3>1, <4>4, <4>5, <4>6, <4>7 DEF MadeOK
    <3> QED
      BY <3>1, <3>2, <3>3
  <2> QED
    BY <2>2, <2>7, <2>8 DEF MakeTable
<1>8. CASE MakeAttachment
  <2> DEFINE ids == image.ids[<<T>>]
             nid == ids[row]
  <2>2. /\ PartsOK /\ RestOK /\ <<T>> \in image.nodes /\ row' = row + 1
        /\ row \in 1..Len(ids) /\ Len(ids) \in Nat
        /\ DOMAIN made = {"pc"} \cup Tables({R, T}) \cup {ids[i] : i \in 1..(row - 1)}
        /\ AttachNID = nid /\ nid \in Nid \ {R, T} /\ nid \in Attachments
        /\ nid \notin DOMAIN made
    BY <1>1, <1>8, AttachmentIsNew DEF MakeAttachment
  <2> HIDE DEF nid
  <2>9. CASE Found("message", AttachNID) = {}
    BY <1>8, <2>9 DEF MakeAttachment, Fails
  <2>10. ASSUME NEW p \in Found("message", AttachNID),
                MakeOf(AttachNID, p, TRUE, "attachments")
         PROVE  MadeOK' /\ PartsOK' /\ RestOK'
    <3>1. /\ PartsOK' /\ RestOK' /\ pc' = "attachments" /\ DOMAIN made' = DOMAIN made \cup {nid}
      BY <1>1, <2>2, <2>10, MakeOfOwn
    <3>2. row' <= Len(ids) + 1
      BY <2>2
    <3>3. {ids[i] : i \in 1..(row' - 1)} = {ids[i] : i \in 1..(row - 1)} \cup {nid}
      <4>1. row' - 1 = row /\ 1..row = 1..(row - 1) \cup {row}
        BY <1>2, <2>2
      <4> QED
        BY <4>1 DEF nid
    <3>4. DOMAIN made' = {"pc"} \cup Tables({R, T}) \cup {ids[i] : i \in 1..(row' - 1)}
      BY <2>2, <3>1, <3>3
    <3> QED
      BY <1>1, <2>2, <3>1, <3>2, <3>4, PcFacts DEF MadeOK, Tables
  <2> QED
    BY <1>8, <2>9, <2>10 DEF MakeAttachment
<1>9. CASE Finish
  <2>1. /\ pc = "finish" \/ (pc = "attachments" /\ row > Len(RowIDs))
        /\ pc' = "idle" /\ made' = made
        /\ tree' = [h \in DOMAIN tree \ {"message"} |-> tree[h]]
    BY <1>9 DEF Finish, Fails
  <2>2. PartsOK
    BY <1>1, <2>1 DEF Own
  <2>3. DOMAIN tree' = DOMAIN tree \ {"message"} /\ \A h \in DOMAIN tree' : tree'[h] = tree[h]
    BY <2>1
  <2>4. PartsOK'
    <3>1. "message" \notin DOMAIN made
      BY DEF TInv, TypeOK
    <3>2. ASSUME NEW h \in DOMAIN made PROVE PartOK(h)'
      BY <1>1, <2>1, <2>2, <2>3, <3>1, <3>2 DEF PartsOK, PartOK, TreeUnder
    <3> QED
      BY <2>1, <2>2, <2>3, <3>2 DEF PartsOK
  <2>5. DOMAIN made = {"pc"} \cup Tables({R, T}) \cup Attachments
    <3>1. CASE pc = "finish"
      BY <1>1, <3>1 DEF Own, MadeOK, Attachments, T
    <3>2. CASE pc = "attachments" /\ row > Len(RowIDs)
      <4> DEFINE ids == image.ids[<<T>>]
      <4>1. /\ <<T>> \in image.nodes /\ row <= Len(ids) + 1
            /\ DOMAIN made = {"pc"} \cup Tables({R, T}) \cup {ids[i] : i \in 1..(row - 1)}
        BY <1>1, <3>2 DEF Own, MadeOK
      <4>2. RowIDs = ids
        <5>1. T \in DOMAIN made /\ T # "pc"
          BY <1>2, <4>1 DEF Tables
        <5> QED
          BY <2>2, <5>1 DEF RowIDs, PartsOK, PartOK, T
      <4>3. ids \in Seq(Nid \ {R, T})
        BY <1>2, <4>1, OneNid, ImageFacts
      <4>4. 1..(row - 1) = DOMAIN ids
        BY <1>2, <3>2, <4>1, <4>2, <4>3
      <4>5. Attachments = {ids[i] : i \in DOMAIN ids}
        BY <4>1 DEF Attachments, ToSet, T
      <4> QED
        BY <4>1, <4>4, <4>5
    <3> QED
      BY <2>1, <3>1, <3>2
  <2>6. MadeOK'
    BY <1>1, <2>1, <2>5, PcFacts DEF MadeOK, Tables, Attachments
  <2> QED
    BY <2>1, <2>4, <2>6, PcFacts
<1>10. CASE CallStep
  <2>1. /\ TreeStep /\ UNCHANGED <<image, made>>
        /\ pc \in {"idle", "recipients"} /\ pc' \in {"idle", "recipients"}
    BY <1>2, <1>10, CallSteps DEF Ended
  <2>2. PartsOK /\ MadeOK
    BY <1>1, <2>1 DEF Own
  <2>3. PartsOK'
    BY <2>1, <2>2, SameParts
  <2>4. MadeOK'
    BY <2>1, <2>2, PcFacts DEF MadeOK, Tables, Attachments
  <2> QED
    BY <2>1, <2>3, <2>4, PcFacts
<1>11. CASE Cut \/ UNCHANGED vars
  <2>1. UNCHANGED <<image, tree, made, row, pc>>
    BY <1>11 DEF Cut, vars
  <2>2. /\ MadeOK /\ PartsOK
        /\ pc \in {"pc", R, T, "attachments", "finish"} => RestOK
    BY <1>1, <2>1 DEF Own
  <2> QED
    BY <2>1, <2>2
       DEF MadeOK, Tables, Attachments, PartsOK, PartOK, TreeUnder, RestOK, Gone
<1> QED
  BY <1>4, <1>5, <1>6, <1>7, <1>8, <1>9, <1>10, <1>11 DEF Next, CallStep

\* A message that is built while no read failed has the contexts of its file, each with
\* its own data and all of its own sub-nodes.
THEOREM ContextsOwnTheirs == Spec => []PartsAreOwn
<1>1. TInv /\ Own => PartsAreOwn
  <2> SUFFICES ASSUME TInv, Own, pc = "idle", image.there, ~fail, OwnParts
               PROVE  /\ DOMAIN made = {"pc"} \cup Attachments \cup Tables({R, T})
                      /\ \A h \in DOMAIN made : PartOK(h)
    BY DEF PartsAreOwn, PartOK, TreeUnder, Tables, R, T
  <2> QED
    BY DEF Own, Good, MadeOK, PartsOK
<1> QED
  BY <1>1, InitTInv, NextTInv, InitOwn, NextOwn, PTL DEF Spec

-----------------------------------------------------------------------------
(* Reads that fail, and what was asked. *)

\* Data of which a part is missing came with the failbit.
Fine(t, failed) == \A p \in DOMAIN t.data : t.data[p] = "short" => failed
NoShort == \A h \in DOMAIN tree : Fine(tree[h], fail)

\* A read fails only in a file that was cut.
FailCut == fail => cut

\* Nothing is asked for before the message is built.
Unasked == asked # None => pc \in Ended

\* A message that is not there has no contexts.
Absent == ~image.there => DOMAIN made = {} /\ pc \in {"init", "idle", "aborted"}

LEMMA InitShort == Init => NoShort /\ FailCut /\ Unasked /\ Absent
<1> SUFFICES ASSUME Init PROVE NoShort /\ FailCut /\ Unasked /\ Absent
  OBVIOUS
<1>1. DOMAIN tree = {} /\ DOMAIN made = {} /\ fail = FALSE /\ asked = None /\ pc = "init"
  BY DEF Init
<1> QED
  BY <1>1 DEF NoShort, FailCut, Unasked, Absent

\* The steps of Init are taken before anything is asked for; the calls ask for what
\* there is.
LEMMA OtherSteps ==
  ASSUME TInv, [Next]_vars
  PROVE  \/ CallStep
         \/ UNCHANGED call /\ pc \notin Ended /\ UNCHANGED cut /\ pc' # "recipients"
         \/ /\ UNCHANGED <<assertsOn, image, tree, made, row, call, fail, pc>>
            /\ cut => cut'
<1>1. CASE FindNode \/ BuildTree \/ MakePC \/ MakeAttachment \/ Finish
  BY <1>1, PcFacts
     DEF FindNode, BuildTree, MakePC, MakeAttachment, MakeOf, Finish, Fails, Ended, R, T
<1>2. CASE MakeRecipients \/ MakeAttachmentTable
  BY <1>2, PcFacts
     DEF MakeRecipients, MakeAttachmentTable, MakeTable, MakeOf, Fails, R, T, Ended
<1>3. CASE Cut \/ UNCHANGED vars
  BY <1>3 DEF Cut, vars
<1> QED
  BY <1>1, <1>2, <1>3 DEF Next, CallStep

LEMMA NextFailCut == TInv /\ FailCut /\ [Next]_vars => FailCut'
<1> SUFFICES ASSUME TInv, FailCut, [Next]_vars PROVE FailCut'
  OBVIOUS
<1>1. fail' => fail \/ cut
  BY StepFails DEF FailStep
<1>2. cut => cut'
  <2>1. CallStep => UNCHANGED cut
    BY CallSteps DEF TInv, TypeOK
  <2> QED
    BY <2>1, OtherSteps
<1> QED
  BY <1>1, <1>2 DEF FailCut

LEMMA NextUnasked == TInv /\ Unasked /\ [Next]_vars => Unasked'
<1> SUFFICES ASSUME TInv, Unasked, [Next]_vars PROVE Unasked'
  OBVIOUS
<1>1. CallStep => pc' \in Ended
  BY CallSteps DEF TInv, TypeOK
<1> QED
  BY <1>1, OtherSteps DEF Unasked, call

LEMMA NextAbsent == TInv /\ Absent /\ [Next]_vars => Absent'
<1> SUFFICES ASSUME TInv, Absent, [Next]_vars, ~image'.there
             PROVE  DOMAIN made' = {} /\ pc' \in {"init", "idle", "aborted"}
  BY DEF Absent
<1>1. ~image.there /\ DOMAIN made = {} /\ pc \in {"init", "idle", "aborted"}
  BY StepFails DEF Absent
<1>2. CASE FindNode
  BY <1>1, <1>2 DEF FindNode, Fails
<1>3. CASE CallStep
  <2>1. UNCHANGED made
    BY <1>3, CallSteps DEF TInv, TypeOK
  <2>2. ~Has("body") /\ ~Has("html") /\ \A name : ~Has(name)
    BY <1>1 DEF Has
  <2>3. AnswersNothing => pc' \in {"idle", "aborted"}
    BY DEF AnswersNothing, Fails
  <2>4. \A name \in {"subject", "sender"} : AskProperty(name) => AnswersNothing
    BY <2>2 DEF AskProperty
  <2>5. AskBody => AnswersNothing
    BY <2>2 DEF AskBody
  <2>6. AskRecipients => pc' = "idle"
    BY <1>1 DEF AskRecipients
  <2>7. ~NextRecipient /\ ~RecipientsDone
    BY <1>1 DEF NextRecipient, RecipientsDone
  <2> QED
    BY <1>1, <1>3, <2>1, <2>3, <2>4, <2>5, <2>6, <2>7 DEF CallStep
<1>4. CASE UNCHANGED <<made, pc>>
  BY <1>1, <1>4
<1>5. ~(pc \in {"tree", "pc", R, T, "attachments", "finish"})
  BY <1>1, PcFacts
<1> QED
  BY <1>2, <1>3, <1>4, <1>5
     DEF Next, CallStep, BuildTree, MakePC, MakeRecipients, MakeAttachmentTable, MakeTable,
         MakeAttachment, Finish, Cut, vars, R, T

\* A context takes data that was read in full.
LEMMA MakesShort ==
  ASSUME TInv, NoShort, fail => fail', "message" \in DOMAIN tree, NEW nid,
         NEW p \in DOMAIN tree["message"].data, NEW keep \in BOOLEAN, Makes(nid, p, keep)
  PROVE  NoShort'
<1> DEFINE t    == tree["message"]
           rest == [t EXCEPT !.data[p] = "moved"]
<1>1. IsTree(t) /\ "moved" \in States /\ Fine(t, fail')
  BY DEF TInv, TypesOK, States, NoShort, Fine
<1>2. /\ IsTree(rest) /\ DOMAIN rest.data = DOMAIN t.data
      /\ \A q \in DOMAIN t.data : rest.data[q] = IF q = p THEN "moved" ELSE t.data[q]
  BY <1>1, SetState
<1>3. \/ tree' = With(tree, "message", rest)
      \/ \E u \in {rest, Emptied(rest, <<nid>>)} :
              tree' = With(With(tree, nid, Nested(rest, <<nid>>)), "message", u)
  BY DEF Makes
<1> HIDE DEF rest
<1>4. Fine(rest, fail')
  BY <1>1, <1>2 DEF Fine
<1>5. Fine(Nested(rest, <<nid>>), fail') /\ Fine(Emptied(rest, <<nid>>), fail')
  <2>1. /\ DOMAIN Nested(rest, <<nid>>).data \subseteq DOMAIN rest.data
        /\ \A q \in DOMAIN Nested(rest, <<nid>>).data : Nested(rest, <<nid>>).data[q] = rest.data[q]
    BY <1>2, NestedTree
  <2>2. /\ DOMAIN Emptied(rest, <<nid>>).data \subseteq DOMAIN rest.data
        /\ \A q \in DOMAIN Emptied(rest, <<nid>>).data : Emptied(rest, <<nid>>).data[q] = rest.data[q]
    BY <1>2, EmptiedTree
  <2> QED
    BY <1>4, <2>1, <2>2 DEF Fine
<1>6. \A h \in DOMAIN tree : Fine(tree[h], fail')
  BY DEF NoShort, Fine
<1>7. CASE tree' = With(tree, "message", rest)
  BY <1>4, <1>6, <1>7 DEF With, NoShort
<1>8. ASSUME NEW u \in {rest, Emptied(rest, <<nid>>)},
             tree' = With(With(tree, nid, Nested(rest, <<nid>>)), "message", u)
      PROVE  NoShort'
  <2> DEFINE given == With(tree, nid, Nested(rest, <<nid>>))
  <2>1. \A h \in DOMAIN given : Fine(given[h], fail')
    BY <1>5, <1>6 DEF With
  <2>2. tree' = With(given, "message", u)
    BY <1>8
  <2>3. Fine(u, fail')
    BY <1>4, <1>5
  <2> HIDE DEF given
  <2> QED
    BY <2>1, <2>2, <2>3 DEF With, NoShort
<1> QED
  BY <1>3, <1>7, <1>8

LEMMA NextShort == TInv /\ NoShort /\ [Next]_vars => NoShort'
<1> SUFFICES ASSUME TInv, NoShort, [Next]_vars PROVE NoShort'
  OBVIOUS
<1>1. fail => fail'
  BY StepFails DEF FailStep
<1>2. \A h \in DOMAIN tree : Fine(tree[h], fail')
  BY <1>1 DEF NoShort, Fine
<1>3. CASE UNCHANGED tree
  BY <1>2, <1>3 DEF NoShort
<1>4. CASE BuildTree
  <2>1. PICK t \in {Whole, Emptied(Whole, <<>>)} : tree' = With(tree, "message", t)
    BY <1>4 DEF BuildTree
  <2>2. Fine(t, fail')
    BY <2>1, WholeTree, EmptiedTree DEF Fine
  <2> QED
    BY <1>2, <2>1, <2>2 DEF With, NoShort
<1>5. CASE MakePC
  <2>1. "message" \in DOMAIN tree
    BY <1>5 DEF MakePC, TInv, TypesOK
  <2>2. UNCHANGED tree \/ tree' = With(tree, "pc", tree["message"])
    BY <1>5 DEF MakePC
  <2> QED
    BY <1>2, <1>3, <2>1, <2>2 DEF With, NoShort
<1>6. ASSUME pc \in {R, T, "attachments"}, NEW nid, NEW p \in Found("message", nid),
             NEW keep \in BOOLEAN, NEW next, MakeOf(nid, p, keep, next)
      PROVE  NoShort'
  <2>1. "message" \in DOMAIN tree /\ p \in DOMAIN tree["message"].data
    BY <1>6, FoundFacts DEF TInv, TypesOK
  <2>2. UNCHANGED tree \/ Makes(nid, p, keep)
    BY <1>6 DEF MakeOf
  <2> QED
    BY <1>1, <1>3, <2>1, <2>2, MakesShort
<1>7. CASE MakeRecipients \/ MakeAttachmentTable
  BY <1>3, <1>6, <1>7 DEF MakeRecipients, MakeAttachmentTable, MakeTable, R, T
<1>8. CASE MakeAttachment
  BY <1>3, <1>6, <1>8 DEF MakeAttachment
<1>9. CASE Finish
  <2>1. tree' = [h \in DOMAIN tree \ {"message"} |-> tree[h]]
    BY <1>9 DEF Finish
  <2> QED
    BY <1>2, <2>1 DEF NoShort
<1>10. CASE CallStep
  <2>1. TreeStep
    BY <1>10, CallSteps DEF TInv, TypeOK
  <2>2. ASSUME NEW g \in DOMAIN tree, NEW p \in DOMAIN tree[g].data, NEW s \in States,
               s = "short" => fail' \/ tree[g].data[p] = "short",
               tree' = [tree EXCEPT ![g].data[p] = s]
        PROVE  NoShort'
    <3> DEFINE u == [tree[g] EXCEPT !.data[p] = s]
    <3>1. IsTree(tree[g])
      BY DEF TInv, TypesOK
    <3>2. /\ DOMAIN u.data = DOMAIN tree[g].data
          /\ \A q \in DOMAIN u.data : u.data[q] = IF q = p THEN s ELSE tree[g].data[q]
      BY <3>1, SetState
    <3>3. tree' = [tree EXCEPT ![g] = u]
      BY <2>2
    <3> HIDE DEF u
    <3>4. Fine(u, fail')
      BY <1>2, <2>2, <3>2 DEF Fine
    <3> QED
      BY <1>2, <3>3, <3>4 DEF NoShort
  <2> QED
    BY <1>3, <2>1, <2>2 DEF TreeStep
<1>11. FindNode \/ Cut \/ UNCHANGED vars => UNCHANGED tree
  BY DEF FindNode, Cut, vars
<1> QED
  BY <1>3, <1>4, <1>5, <1>7, <1>8, <1>9, <1>10, <1>11 DEF Next, CallStep

-----------------------------------------------------------------------------
(* What a context finds, and what it answers. *)

LEMMA PrefixByElement ==
  ASSUME NEW p \in Seq(Nid), NEW q \in Seq(Nid)
  PROVE  IsPrefix(p, q) <=> (Len(p) <= Len(q) /\ \A i \in 1..Len(p) : p[i] = q[i])
<1>1. Len(p) \in Nat /\ Len(q) \in Nat
  OBVIOUS
<1>2. SubSeq(p, 1, Len(p)) = p
  BY SubSeqFull
<1>3. CASE Len(p) <= Len(q)
  <2> DEFINE s == SubSeq(q, 1, Len(p))
  <2>1. \A i \in 1..Len(p) : q[i] \in Nid
    BY <1>1, <1>3, ElementOfSeq
  <2>2. /\ s \in Seq(Nid)
        /\ Len(s) = IF 1 <= Len(p) THEN Len(p) - 1 + 1 ELSE 0
        /\ \A i \in 1..(Len(p) - 1 + 1) : s[i] = q[1 + i - 1]
    BY <1>1, <2>1, SubSeqProperties
  <2>3. Len(s) = Len(p) /\ \A i \in 1..Len(p) : s[i] = q[i]
    BY <1>1, <2>1, <2>2
  <2>4. s = p <=> \A i \in 1..Len(p) : p[i] = q[i]
    <3>1. (\A i \in 1..Len(p) : p[i] = q[i]) => s = p
      BY <2>2, <2>3, SeqEqual
    <3> QED
      BY <2>3, <3>1
  <2> QED
    BY <1>2, <1>3, <2>4 DEF IsPrefix
<1>4. CASE ~(Len(p) <= Len(q))
  BY <1>4 DEF IsPrefix
<1> QED
  BY <1>3, <1>4

\* The path of a nested sub-node.
LEMMA PathOfNested ==
  ASSUME NEW b \in Seq(Nid), NEW nid \in Nid
  PROVE  LET q == Append(b, nid)
         IN  /\ q \in Seq(Nid) /\ Len(q) = Len(b) + 1 /\ Last(q) = nid /\ Front(q) = b
             /\ IsStrictPrefix(b, q) /\ q # <<>>
<1> DEFINE q == Append(b, nid)
<1>1. /\ q \in Seq(Nid) /\ Len(q) = Len(b) + 1 /\ Len(b) \in Nat /\ q[Len(b) + 1] = nid
      /\ \A i \in 1..Len(b) : q[i] = b[i]
  OBVIOUS
<1> HIDE DEF q
<1>2. IsPrefix(b, q) /\ b # q /\ q # <<>>
  <2>1. Len(b) <= Len(q) /\ \A i \in 1..Len(b) : b[i] = q[i]
    BY <1>1
  <2> QED
    BY <1>1, <2>1, PrefixByElement, EmptySeq
<1>3. Front(q) = b
  <2>1. Len(q) - 1 = Len(b) /\ SubSeq(b, 1, Len(b)) = b
    BY <1>1, SubSeqFull
  <2> QED
    BY <1>2, <2>1 DEF Front, IsPrefix
<1> QED
  BY <1>1, <1>2, <1>3 DEF q, Last, IsStrictPrefix

LEMMA PathIsNested ==
  ASSUME NEW q \in Seq(Nid), q # <<>>
  PROVE  /\ Len(Front(q)) = Len(q) - 1 /\ \A i \in 1..(Len(q) - 1) : Front(q)[i] = q[i]
         /\ q = Append(Front(q), Last(q))
<1> DEFINE n == Len(q) - 1
           s == SubSeq(q, 1, n)
<1>1. Len(q) \in Nat \ {0} /\ Front(q) \in Seq(Nid) /\ Last(q) \in Nid
  BY EmptySeq, FrontOfPath
<1>2. n \in Nat /\ n + 1 = Len(q) /\ \A i \in 1..n : q[i] \in Nid
  BY <1>1, ElementOfSeq
<1> HIDE DEF n
<1>3. /\ Len(s) = IF 1 <= n THEN n - 1 + 1 ELSE 0
      /\ \A i \in 1..(n - 1 + 1) : s[i] = q[1 + i - 1]
  BY <1>2, SubSeqProperties
<1>4. Len(s) = n /\ \A i \in 1..n : s[i] = q[i]
  BY <1>2, <1>3
<1>5. s = Front(q)
  BY DEF Front, n
<1> HIDE DEF s
<1>6. q = Append(Front(q), Last(q))
  <2> DEFINE a == Append(Front(q), Last(q))
  <2>1. /\ a \in Seq(Nid) /\ Len(a) = n + 1 /\ a[n + 1] = Last(q)
        /\ \A i \in 1..n : a[i] = Front(q)[i]
    BY <1>1, <1>2, <1>4, <1>5
  <2> HIDE DEF a
  <2>2. \A i \in 1..Len(q) : q[i] = a[i]
    BY <1>2, <1>4, <1>5, <2>1 DEF Last
  <2>3. q = a
    BY <1>2, <2>1, <2>2, SeqEqual
  <2> QED
    BY <2>3 DEF a
<1> QED
  BY <1>4, <1>5, <1>6 DEF n

\* A context finds the sub-node of its own node, if there is one.
LEMMA FoundUnder ==
  ASSUME image \in Images, NEW h \in DOMAIN tree, NEW b \in Seq(Nid), TreeUnder(tree[h], b),
         NEW nid \in Nid, Append(b, nid) \in image.nodes
  PROVE  Found(h, nid) = {Append(b, nid)}
<1> DEFINE q == Append(b, nid)
           t == tree[h]
<1>1. /\ q \in Seq(Nid) /\ Len(q) = Len(b) + 1 /\ Last(q) = nid /\ Front(q) = b
      /\ IsStrictPrefix(b, q) /\ Len(b) \in Nat
  BY PathOfNested
<1>2. image.nodes \subseteq Seq(Nid) /\ image.subs \subseteq Seq(Nid) /\ <<>> \notin image.nodes
      /\ Front(q) \in image.subs
  BY ImageFacts, MessageAssumption DEF ImageOf
<1> HIDE DEF q
<1>3. /\ t.subs = {s \in image.subs : IsPrefix(b, s)}
      /\ DOMAIN t.data = {p \in image.nodes : IsStrictPrefix(b, p)}
  BY DEF TreeUnder
<1>4. q \in DOMAIN t.data
  BY <1>1, <1>3 DEF q
<1>5. b \in t.subs
  <2>1. Len(b) <= Len(b) /\ \A i \in 1..Len(b) : b[i] = b[i]
    BY <1>1
  <2>2. IsPrefix(b, b)
    BY <2>1, PrefixByElement
  <2> QED
    BY <1>1, <1>2, <1>3, <2>2
<1>6. ASSUME NEW s \in t.subs PROVE ~IsStrictPrefix(s, b)
  <2> SUFFICES ASSUME IsStrictPrefix(s, b) PROVE FALSE
    OBVIOUS
  <2>1. s \in Seq(Nid) /\ IsPrefix(b, s) /\ IsPrefix(s, b) /\ s # b
    BY <1>2, <1>3 DEF IsStrictPrefix
  <2>2. Len(b) <= Len(s) /\ Len(s) <= Len(b) /\ \A i \in 1..Len(b) : b[i] = s[i]
    BY <2>1, PrefixByElement
  <2>3. Len(s) = Len(b)
    BY <2>1, <2>2
  <2> QED
    BY <2>1, <2>2, <2>3, SeqEqual
<1>7. q \in Found(h, nid)
  BY <1>1, <1>4, <1>6 DEF Found
<1>8. ASSUME NEW p \in Found(h, nid) PROVE p = q
  <2>1. p \in DOMAIN t.data /\ Last(p) = nid
    BY <1>8, FoundFacts
  <2>2. p \in Seq(Nid) /\ p # <<>> /\ IsPrefix(b, p) /\ b # p
    BY <1>2, <1>3, <2>1 DEF IsStrictPrefix
  <2>3. Len(b) <= Len(p) /\ \A i \in 1..Len(b) : b[i] = p[i]
    BY <2>2, PrefixByElement
  <2>4. Len(p) \in Nat /\ Len(b) # Len(p)
    BY <2>2, <2>3, SeqEqual
  <2>5. /\ Front(p) \in Seq(Nid) /\ Len(Front(p)) = Len(p) - 1 /\ p = Append(Front(p), Last(p))
        /\ \A i \in 1..(Len(p) - 1) : Front(p)[i] = p[i]
    BY <2>2, FrontOfPath, PathIsNested
  <2>6. IsPrefix(b, Front(p))
    <3>1. Len(b) <= Len(Front(p)) /\ \A i \in 1..Len(b) : b[i] = Front(p)[i]
      BY <1>1, <2>3, <2>4, <2>5
    <3> QED
      BY <2>5, <3>1, PrefixByElement
  <2>7. ~IsStrictPrefix(b, Front(p))
    BY <1>4, <1>5, <1>8 DEF Found, q
  <2>8. b = Front(p)
    BY <2>6, <2>7 DEF IsStrictPrefix
  <2> QED
    BY <2>1, <2>5, <2>8 DEF q
<1> QED
  BY <1>7, <1>8 DEF q

\* A context that has no tree is of a node without sub-nodes.
LEMMA OwnerFacts ==
  ASSUME TInv, PartsOK, NEW h \in DOMAIN made
  PROVE  /\ made[h] = Owner(h) /\ Owner(h) \in Seq(Nid)
         /\ h \in DOMAIN tree => TreeUnder(tree[h], Owner(h))
         /\ \A nid \in Nid : Append(Owner(h), nid) \in image.nodes => h \in DOMAIN tree
<1>1. made[h] = Owner(h) /\ (h \in DOMAIN tree => TreeUnder(tree[h], Owner(h)))
      /\ (h \in DOMAIN tree <=> Owner(h) \in image.subs)
  BY DEF PartsOK, PartOK, Owner
<1>2. Owner(h) \in Seq(Nid)
  <2>1. h \in {"pc"} \cup Nid
    BY DEF TInv, TypeOK, Holders
  <2> QED
    BY <2>1, OneNid, EmptySeq DEF Owner
<1>3. ASSUME NEW nid \in Nid, Append(Owner(h), nid) \in image.nodes PROVE h \in DOMAIN tree
  <2>1. Front(Append(Owner(h), nid)) = Owner(h)
    BY <1>2, PathOfNested
  <2>2. Front(Append(Owner(h), nid)) \in image.subs
    BY <1>3, MessageAssumption DEF TInv, TypeOK, ImageOf
  <2> QED
    BY <1>1, <2>1, <2>2
<1> QED
  BY <1>1, <1>2, <1>3

\* What a context gets for a value that the file has.
LEMMA ValueIs ==
  ASSUME TInv, PartsOK, NoShort, ~fail, ~fail', NEW h \in DOMAIN made,
         NEW place \in Place \ NotThere, IsThere(Owner(h), place)
  PROVE  /\ ~Lacks(h, place)
         /\ \A v : Value(h, place, v) =>
              /\ v = ValueAt(Owner(h), place) /\ v # Threw
              /\ v = <<>> => place = "empty"
<1> DEFINE b == Owner(h)
<1>1. /\ made[h] = b /\ b \in Seq(Nid) /\ image \in Images
      /\ h \in DOMAIN tree => TreeUnder(tree[h], b)
      /\ \A nid \in Nid : Append(b, nid) \in image.nodes => h \in DOMAIN tree
  BY OwnerFacts DEF TInv, TypeOK
<1> HIDE DEF b
<1>2. "empty" \notin Nid /\ "heap" \notin Nid
      /\ (place \in Nid \/ place = "empty" \/ place = "heap")
  BY MessageAssumption DEF Place, NotThere
<1>3. CASE place \in Nid
  <2> DEFINE q == Append(b, place)
  <2>1. h \in DOMAIN tree /\ q \in image.nodes /\ q \notin image.broken
    BY <1>1, <1>3 DEF IsThere, b
  <2>2. Found(h, place) = {q} /\ q # <<>> /\ q \in Seq(Nid)
    BY <1>1, <1>3, <2>1, FoundUnder, PathOfNested
  <2>3. q \in DOMAIN tree[h].data
    BY <2>2, FoundFacts
  <2>4. tree[h].data[q] \in States /\ tree[h].data[q] \notin {"short", "moved"}
    BY <1>1, <2>1, <2>3 DEF TInv, TypeOK, TreeUnder, NoShort, Fine
  <2> HIDE DEF q
  <2>5. ASSUME NEW s, Loads(h, q, s) PROVE s = "loaded"
    <3>1. CASE tree[h].data[q] # "unread" /\ s = tree[h].data[q]
      BY <2>4, <3>1 DEF States
    <3>2. ASSUME NEW arrived \in BOOLEAN, Arrival(arrived),
                 s = IF arrived THEN "loaded" ELSE "short"
          PROVE  s = "loaded"
      BY <3>2 DEF Arrival
    <3> QED
      BY <2>5, <3>1, <3>2 DEF Loads
  <2>6. ~LoadThrows(h, q)
    BY <2>1 DEF LoadThrows
  <2>7. ASSUME NEW v, Value(h, place, v) PROVE v = q
    <3>1. FromNode(h, place, v)
      BY <1>3, <2>1, <2>7 DEF Value
    <3> QED
      BY <2>2, <2>5, <2>6, <3>1 DEF FromNode
  <2>8. q # Threw
    <3>1. \A i \in 1..Len(q) : q[i] \in Nid \cup {"heap", "nid"}
      BY <2>2, ElementOfSeq
    <3>2. q \in Seq(Nid \cup {"heap", "nid"})
      BY <2>2, <3>1, SeqDef
    <3> QED
      BY <3>2, MessageAssumption
  <2>9. ~Lacks(h, place)
    BY <2>2 DEF Lacks
  <2>10. q = ValueAt(b, place)
    BY <1>2, <1>3 DEF ValueAt, q
  <2> QED
    BY <2>2, <2>7, <2>8, <2>9, <2>10 DEF b
<1>4. CASE place = "empty"
  <2>1. \A v : Value(h, place, v) => v = <<>>
    BY <1>2, <1>4 DEF Value
  <2>2. <<>> # Threw
    BY MessageAssumption, EmptySeq
  <2> QED
    BY <1>2, <1>4, <2>1, <2>2 DEF ValueAt, Lacks
<1>5. CASE place = "heap"
  <2> DEFINE q == Append(b, "heap")
  <2>1. \A v : Value(h, place, v) => v = q
    BY <1>1, <1>2, <1>5 DEF Value
  <2>2. q # Threw /\ q # <<>>
    <3>1. \A i \in 1..Len(b) : b[i] \in Nid \cup {"heap", "nid"}
      BY <1>1, ElementOfSeq
    <3>2. b \in Seq(Nid \cup {"heap", "nid"})
      BY <1>1, <3>1, SeqDef
    <3>3. q \in Seq(Nid \cup {"heap", "nid"}) /\ Len(q) = Len(b) + 1 /\ Len(b) \in Nat
      BY <3>2, AppendProperties
    <3> HIDE DEF q
    <3> QED
      BY <3>3, MessageAssumption, EmptySeq
  <2>3. q = ValueAt(b, place)
    BY <1>5 DEF ValueAt
  <2> QED
    BY <1>2, <1>5, <2>1, <2>2, <2>3 DEF Lacks, b
<1> QED
  BY <1>2, <1>3, <1>4, <1>5

-----------------------------------------------------------------------------
(* What a call returns. *)

Right(h, place) ==
  CASE place = "absent" /\ h # "pc" -> Threw
    [] place = "absent" /\ h = "pc" -> <<>>
    [] place = "object"             -> <<>>
    [] OTHER -> ValueAt(Owner(h), place)

\* The end of a call for the value of context h at place: the value, or an assertion.
Returns(h, place) ==
  /\ pc' \in {"idle", "aborted"}
  /\ pc' = "idle" => answer' = Right(h, place)
  /\ pc' = "aborted" => place \in NotThere \cup {"empty"}

LEMMA AnswersIs ==
  ASSUME TInv, PartsOK, NoShort, ~fail, ~fail', pc = "idle", NEW h \in DOMAIN made,
         NEW place \in Place \ NotThere, IsThere(Owner(h), place), NEW isString,
         Answers(h, place, isString)
  PROVE  Returns(h, place)
<1>1. PICK v : /\ Value(h, place, v)
               /\ IF assertsOn /\ v = <<>> /\ (isString \/ place \in Nid)
                  THEN pc' = "aborted" /\ UNCHANGED answer
                  ELSE answer' = v /\ UNCHANGED pc
  BY ValueIs DEF Answers
<1>2. v = ValueAt(Owner(h), place) /\ (v = <<>> => place = "empty")
  BY <1>1, ValueIs
<1>3. Right(h, place) = ValueAt(Owner(h), place)
  BY DEF Right, NotThere
<1> QED
  BY <1>1, <1>2, <1>3 DEF Returns

LEMMA NothingIs ==
  ASSUME NEW h, NEW place \in NotThere, h = "pc" \/ place = "object", AnswersNothing
  PROVE  Returns(h, place)
<1>1. Right(h, place) = <<>>
  BY DEF Right, NotThere
<1>2. pc' = Fails("idle") /\ answer' = IF assertsOn THEN answer ELSE <<>>
  BY DEF AnswersNothing
<1>3. pc' \in {"idle", "aborted"} /\ (pc' = "idle" => answer' = <<>>)
  BY <1>2 DEF Fails
<1> QED
  BY <1>1, <1>3 DEF Returns

\* What was asked for, when one value is.
LEMMA OneAsked ==
  ASSUME UNCHANGED <<image, made>>, NEW h \in {"pc"} \cup Nid, NEW name,
         name \in PropNames \cup ContentNames, asked' = <<h, name>>
  PROVE  /\ asked' # None /\ asked'[1] = h /\ asked'[2] # "recipients"
         /\ PlaceOf(asked[1], asked[2])' = PlaceOf(h, name)
         /\ PlacesAsked' = {PlaceOf(h, name)}
         /\ AreThere' <=> IsThere(Owner(h), PlaceOf(h, name))
<1>1. asked'[1] = h /\ asked'[2] = name /\ name # "recipients"
  BY DEF PropNames, ContentNames
<1>2. asked' # None
  <2>1. asked' \in (Nid \cup {"pc"}) \X (PropNames \cup ContentNames \cup {"recipients"})
    OBVIOUS
  <2> QED
    BY <2>1, MessageAssumption
<1>3. PlaceOf(asked[1], asked[2])' = PlaceOf(h, name)
  BY <1>1 DEF PlaceOf, Has
<1>4. PlacesAsked' = {PlaceOf(h, name)}
  BY <1>1, <1>3 DEF PlacesAsked
<1>5. AreThere' <=> IsThere(Owner(h), PlaceOf(h, name))
  BY <1>1, <1>4 DEF AreThere, IsThere, Owner
<1> QED
  BY <1>1, <1>2, <1>3, <1>4, <1>5

ValueCall ==
  \/ \E name \in {"subject", "sender"} : AskProperty(name)
  \/ AskBody
  \/ \E a \in DOMAIN made, name \in ContentNames : AskAttachment(a, name)

\* A call for one value of a message that was built.
LEMMA ValueCallIs ==
  ASSUME TInv, Own, NoShort, Good, ~fail', ValueCall
  PROVE  /\ pc = "idle" /\ asked' # None
         /\ AreThere' =>
              \E h \in DOMAIN made, name \in PropNames \cup ContentNames :
                 asked' = <<h, name>> /\ Returns(h, PlaceOf(h, name))
<1>1. pc = "idle" /\ UNCHANGED <<image, made>>
  BY DEF ValueCall, AskProperty, AskBody, AskAttachment, Asks
<1>2. /\ PartsOK /\ "pc" \in DOMAIN made /\ ~fail /\ image \in Images
      /\ DOMAIN made \subseteq {"pc"} \cup Nid
  BY <1>1 DEF Own, MadeOK, Good, TInv, TypeOK, Holders
<1>3. \A name \in PropNames : image.props[name] \in Place
  BY <1>2, MessageAssumption DEF ImageOf
<1>4. ASSUME NEW name \in {"subject", "sender"}, AskProperty(name)
      PROVE  /\ asked' # None
             /\ AreThere' => asked' = <<"pc", name>> /\ Returns("pc", PlaceOf("pc", name))
  <2> DEFINE place == image.props[name]
  <2>1. asked' = <<"pc", name>> /\ name \in PropNames
    BY <1>4 DEF AskProperty, Asks, PropNames
  <2>2. PlaceOf("pc", name) = place /\ place \in Place
    BY <1>3, <1>4, <2>1 DEF PlaceOf
  <2>3. asked' # None /\ (AreThere' <=> IsThere(Owner("pc"), place))
    BY <1>1, <2>1, <2>2, OneAsked
  <2>4. Has(name) <=> place \notin NotThere
    BY <1>2 DEF Has
  <2>5. IF Has(name) THEN Answers("pc", place, TRUE) ELSE AnswersNothing
    BY <1>4 DEF AskProperty
  <2> HIDE DEF place
  <2>6. ASSUME AreThere' PROVE Returns("pc", place)
    <3>1. CASE Has(name)
      BY <1>1, <1>2, <2>2, <2>3, <2>4, <2>5, <2>6, <3>1, AnswersIs
    <3>2. CASE ~Has(name)
      BY <2>4, <2>5, <3>2, NothingIs
    <3> QED
      BY <3>1, <3>2
  <2> QED
    BY <2>1, <2>2, <2>3, <2>6
<1>5. ASSUME AskBody
      PROVE  /\ asked' # None
             /\ AreThere' => asked' = <<"pc", "body">> /\ Returns("pc", PlaceOf("pc", "body"))
  <2> DEFINE place == PlaceOf("pc", "body")
  <2>1. asked' = <<"pc", "body">> /\ "body" \in PropNames /\ "html" \in PropNames
    BY <1>5 DEF AskBody, Asks, PropNames
  <2>2. place = (IF Has("body") THEN image.props["body"] ELSE image.props["html"]) /\ place \in Place
    BY <1>3, <2>1 DEF PlaceOf
  <2>3. asked' # None /\ (AreThere' <=> IsThere(Owner("pc"), place))
    BY <1>1, <2>1, OneAsked
  <2>4. Has("body") \/ Has("html") <=> place \notin NotThere
    BY <1>2, <2>2 DEF Has
  <2>5. IF Has("body") \/ Has("html") THEN Answers("pc", place, TRUE) ELSE AnswersNothing
    BY <1>5, <2>2 DEF AskBody
  <2> HIDE DEF place
  <2>6. ASSUME AreThere' PROVE Returns("pc", place)
    <3>1. CASE Has("body") \/ Has("html")
      BY <1>1, <1>2, <2>2, <2>3, <2>4, <2>5, <2>6, <3>1, AnswersIs
    <3>2. CASE ~(Has("body") \/ Has("html"))
      BY <2>4, <2>5, <3>2, NothingIs
    <3> QED
      BY <3>1, <3>2
  <2> QED
    BY <2>1, <2>3, <2>6 DEF place
<1>6. ASSUME NEW a \in DOMAIN made, NEW name \in ContentNames, AskAttachment(a, name)
      PROVE  /\ asked' # None
             /\ AreThere' => asked' = <<a, name>> /\ Returns(a, PlaceOf(a, name))
  <2> DEFINE place == image.content[made[a]][name]
  <2>1. asked' = <<a, name>> /\ a \notin {"pc", R, T}
    BY <1>6 DEF AskAttachment, Asks, R, T
  <2>2. made[a] = <<a>> /\ a \in Nid
    BY <1>2, <2>1 DEF PartsOK, PartOK
  <2>3. PlaceOf(a, name) = place
    BY <2>1, <2>2 DEF PlaceOf
  <2>4. place \in Place
    <3>1. <<a>> \in image.nodes
      BY <2>2 DEF TInv, TypeOK
    <3>2. image.content \in [image.nodes -> [ContentNames -> Place]]
      BY <1>2, MessageAssumption DEF ImageOf
    <3> QED
      BY <2>2, <3>1, <3>2
  <2>5. asked' # None /\ (AreThere' <=> IsThere(Owner(a), place))
    BY <1>1, <1>2, <2>1, <2>3, OneAsked
  <2>6. \/ place = "absent" /\ answer' = Threw /\ UNCHANGED <<tree, fail, pc>>
        \/ place = "object" /\ AnswersNothing
        \/ place \notin NotThere /\ Answers(a, place, name = "mime")
    BY <1>6 DEF AskAttachment, NotThere
  <2> HIDE DEF place
  <2>7. ASSUME AreThere' PROVE Returns(a, place)
    <3>1. CASE place = "absent" /\ answer' = Threw /\ UNCHANGED <<tree, fail, pc>>
      BY <1>1, <2>1, <3>1 DEF Returns, Right
    <3>2. CASE place = "object" /\ AnswersNothing
      BY <3>2, NothingIs DEF NotThere
    <3>3. CASE place \notin NotThere /\ Answers(a, place, name = "mime")
      BY <1>1, <1>2, <2>4, <2>5, <2>7, <3>3, AnswersIs
    <3> QED
      BY <2>6, <3>1, <3>2, <3>3
  <2> QED
    BY <2>1, <2>3, <2>5, <2>7
<1>7. {"subject", "sender", "body"} \subseteq PropNames
  BY DEF PropNames
<1> QED
  BY <1>1, <1>2, <1>4, <1>5, <1>6, <1>7 DEF ValueCall

\* f[i] are the addresses of the first i rows.
Collects(f, cells, p) ==
  f = [i \in 0..Len(cells) |->
         IF i = 0 THEN <<>>
         ELSE IF cells[i] \in NotThere THEN f[i-1]
         ELSE Append(f[i-1], ValueAt(p, cells[i]))]

UpTo(p) == CHOOSE f : Collects(f, image.cells[p], p)

LEMMA Least ==
  ASSUME NEW S \in SUBSET Nat, S # {}
  PROVE  \E m \in S : \A k \in S : m <= k
<1> DEFINE less == OpToRel(<, Nat)
<1>1. IsWellFoundedOn(less, Nat)
  BY NatLessThanWellFounded
<1>2. \A j, k \in Nat : j < k => <<j, k>> \in less
  BY DEF OpToRel
<1> HIDE DEF less
<1>3. PICK m \in S : \A k \in S : ~(<<k, m>> \in less)
  BY <1>1, WFMin
<1>4. \A k \in S : ~(k < m)
  BY <1>2, <1>3
<1> QED
  BY <1>3, <1>4

LEMMA CollectsExists ==
  ASSUME NEW p, NEW cells, Len(cells) \in Nat
  PROVE  \E f : Collects(f, cells, p)
<1> DEFINE Body(f, i) == IF i = 0 THEN <<>>
                         ELSE IF cells[i] \in NotThere THEN f[i-1]
                         ELSE Append(f[i-1], ValueAt(p, cells[i]))
           S == {k \in Nat : ~\E f : f = [i \in 0..k |-> Body(f, i)]}
<1>1. S = {}
  <2> SUFFICES ASSUME S # {} PROVE FALSE
    OBVIOUS
  <2>1. PICK m \in S : \A k \in S : m <= k
    <3>1. S \in SUBSET Nat
      OBVIOUS
    <3> HIDE DEF S
    <3> QED
      BY <3>1, Least
  <2>2. m \in Nat /\ ~\E f : f = [i \in 0..m |-> Body(f, i)]
    BY <2>1
  <2>3. CASE m = 0
    <3> DEFINE g == [i \in 0..0 |-> <<>>]
    <3>1. g = [i \in 0..0 |-> Body(g, i)]
      OBVIOUS
    <3> QED
      BY <2>2, <2>3, <3>1
  <2>4. CASE m # 0
    <3>1. m - 1 \in Nat /\ ~(m <= m - 1)
      BY <2>2, <2>4
    <3>2. m - 1 \notin S
      BY <2>1, <3>1
    <3>3. PICK h : h = [i \in 0..(m-1) |-> Body(h, i)]
      BY <3>1, <3>2
    <3> HIDE DEF S
    <3> DEFINE g == [i \in 0..m |-> Body(h, i)]
    <3>4. \A i \in 0..m : i # 0 => h[i-1] = g[i-1]
      <4> TAKE i \in 0..m
      <4> HAVE i # 0
      <4>1. i - 1 \in 0..(m-1) /\ i - 1 \in 0..m
        BY <2>2
      <4> HIDE DEF Body
      <4>2. h[i-1] = Body(h, i-1)
        BY <3>3, <4>1
      <4> QED
        BY <4>1, <4>2
    <3>5. \A i \in 0..m : Body(h, i) = Body(g, i)
      <4> HIDE DEF g
      <4> QED
        BY <3>4
    <3>6. g = [i \in 0..m |-> Body(g, i)]
      <4> HIDE DEF Body
      <4> QED
        BY <3>5
    <3> QED
      BY <2>2, <3>6
  <2> QED
    BY <2>3, <2>4
<1>2. PICK f : f = [i \in 0..Len(cells) |-> Body(f, i)]
  BY <1>1
<1> QED
  BY <1>2 DEF Collects

LEMMA UpToIs ==
  ASSUME NEW p, Len(image.cells[p]) \in Nat
  PROVE  /\ UpTo(p)[0] = <<>> /\ Addresses(p) = UpTo(p)[Len(image.cells[p])]
         /\ \A i \in 1..Len(image.cells[p]) :
              UpTo(p)[i] = IF image.cells[p][i] \in NotThere THEN UpTo(p)[i-1]
                           ELSE Append(UpTo(p)[i-1], ValueAt(p, image.cells[p][i]))
<1> DEFINE cells == image.cells[p]
<1>1. Collects(UpTo(p), cells, p)
  BY CollectsExists DEF UpTo
<1>2. Addresses(p) = UpTo(p)[Len(cells)]
  BY DEF Addresses, UpTo, Collects
<1> HIDE DEF cells
<1>3. \A i \in 0..Len(cells) : UpTo(p)[i] =
        IF i = 0 THEN <<>> ELSE IF cells[i] \in NotThere THEN UpTo(p)[i-1]
        ELSE Append(UpTo(p)[i-1], ValueAt(p, cells[i]))
  BY <1>1 DEF Collects
<1>4. UpTo(p)[0] = <<>> /\ \A i \in 1..Len(cells) :
        UpTo(p)[i] = IF cells[i] \in NotThere THEN UpTo(p)[i-1]
                     ELSE Append(UpTo(p)[i-1], ValueAt(p, cells[i]))
  BY <1>3 DEF cells
<1> QED
  BY <1>2, <1>4 DEF cells

-----------------------------------------------------------------------------
(* The recipients. *)

\* While rows are read the list is that of the rows before.
Listing ==
  (Good /\ pc = "recipients") =>
    /\ asked = <<R, "recipients">> /\ <<R>> \in image.nodes
    /\ row \in 1..(Len(image.cells[<<R>>]) + 1)
    /\ AreThere => emails = UpTo(<<R>>)[row - 1]

LEMMA CellFacts ==
  ASSUME image \in Images, <<R>> \in image.nodes
  PROVE  image.cells[<<R>>] \in Seq(Place) /\ Len(image.cells[<<R>>]) \in Nat
<1>1. Last(<<R>>) = RECIPIENT_TC_NID
  BY OneNid, ImageFacts DEF R
<1>2. image.cells \in [{p \in image.nodes : Last(p) = RECIPIENT_TC_NID} -> Seq(Place)]
  BY MessageAssumption DEF ImageOf
<1>3. image.cells[<<R>>] \in Seq(Place)
  BY <1>1, <1>2
<1> QED
  BY <1>3

\* What the next row adds.
LEMMA RowIs ==
  ASSUME TInv, Own, NoShort, Good, ~fail', Listing, NextRecipient
  PROVE  LET cells == image.cells[<<R>>]
             place == cells[row]
         IN  /\ asked = <<R, "recipients">> /\ <<R>> \in image.nodes
             /\ UNCHANGED <<image, made, asked>> /\ (AreThere' <=> AreThere)
             /\ row \in 1..Len(cells) /\ Len(cells) \in Nat /\ row' = row + 1
             /\ place \in PlacesAsked /\ PlacesAsked' = PlacesAsked
             /\ AreThere =>
                  /\ pc' \in {"recipients", "aborted"}
                  /\ pc' = "aborted" => place \in NotThere
                  /\ emails' = IF place \in NotThere THEN emails
                               ELSE Append(emails, ValueAt(<<R>>, place))
<1> DEFINE cells == image.cells[<<R>>]
           place == cells[row]
<1>1. /\ pc = "recipients" /\ UNCHANGED <<image, made, asked>> /\ row' = row + 1
      /\ row <= Len(Cells) /\ R \in DOMAIN made /\ image \in Images /\ R # "pc" /\ R \in Nid
  <2>1. R \in DOMAIN made
    <3>1. DOMAIN made = {"pc"} \cup Tables({R, T}) \cup Attachments /\ <<R>> \in image.nodes
      BY DEF NextRecipient, Own, MadeOK, Listing
    <3> QED
      BY <3>1 DEF Tables
  <2> QED
    BY <2>1, ImageFacts DEF NextRecipient, TInv, TypeOK
<1>2. /\ asked = <<R, "recipients">> /\ <<R>> \in image.nodes /\ PartsOK
      /\ row \in 1..(Len(cells) + 1)
  BY <1>1 DEF Listing, Own
<1>3. cells \in Seq(Place) /\ Len(cells) \in Nat
  BY <1>1, <1>2, CellFacts
<1>4. Cells = cells
  BY <1>1, <1>2 DEF Cells, PartsOK, PartOK, R
<1>5. row \in 1..Len(cells)
  BY <1>1, <1>2, <1>3, <1>4
<1>6. place \in Place
  BY <1>3, <1>5, ElementOfSeq
<1>7. PlacesAsked = ToSet(cells) /\ Owner(asked[1]) = <<R>>
  BY <1>1, <1>2 DEF PlacesAsked, Owner
<1>8. place \in PlacesAsked
  BY <1>3, <1>5, <1>7 DEF ToSet
<1>9. PlacesAsked' = PlacesAsked /\ (AreThere' <=> AreThere)
  <2>1. PlacesAsked' = PlacesAsked
    BY <1>1 DEF PlacesAsked, PlaceOf, Has, Owner
  <2> QED
    BY <1>1, <2>1 DEF AreThere, IsThere, Owner
<1>10. /\ place \in NotThere =>
            pc' = Fails("recipients") /\ UNCHANGED emails
       /\ (place \notin NotThere /\ ~Lacks(R, place)) =>
            \E v : /\ Value(R, place, v)
                   /\ v # Threw =>
                        /\ emails' = Append(emails, v)
                        /\ pc' = IF v = <<>> /\ place \in Nid THEN Fails("recipients")
                                 ELSE "recipients"
  BY <1>4 DEF NextRecipient, R
<1> HIDE DEF cells, place
<1>11. ASSUME AreThere
       PROVE  /\ pc' \in {"recipients", "aborted"}
              /\ pc' = "aborted" => place \in NotThere
              /\ emails' = IF place \in NotThere THEN emails
                           ELSE Append(emails, ValueAt(<<R>>, place))
  <2>1. CASE place \in NotThere
    BY <1>10, <2>1 DEF Fails
  <2>2. CASE place \notin NotThere
    <3>1. IsThere(Owner(R), place) /\ Owner(R) = <<R>>
      BY <1>2, <1>7, <1>8, <1>11 DEF AreThere
    <3>2. /\ ~Lacks(R, place)
          /\ \A v : Value(R, place, v) =>
               /\ v = ValueAt(<<R>>, place) /\ v # Threw
               /\ v = <<>> => place = "empty"
      <4>1. ~fail
        BY DEF Good
      <4> QED
        BY <1>1, <1>2, <1>6, <2>2, <3>1, <4>1, ValueIs
    <3>3. PICK v : /\ Value(R, place, v)
                   /\ v # Threw =>
                        /\ emails' = Append(emails, v)
                        /\ pc' = IF v = <<>> /\ place \in Nid THEN Fails("recipients")
                                 ELSE "recipients"
      BY <1>10, <2>2, <3>2
    <3>4. "empty" \notin Nid
      BY MessageAssumption
    <3> QED
      BY <2>2, <3>2, <3>3, <3>4
  <2> QED
    BY <2>1, <2>2
<1> QED
  BY <1>1, <1>2, <1>3, <1>5, <1>8, <1>9, <1>11 DEF cells, place

LEMMA ValueCallEnds == ValueCall => pc' # "recipients"
  BY DEF ValueCall, AskProperty, AskBody, AskAttachment, Asks, Answers, AnswersNothing, Fails

LEMMA CallIs == CallStep <=> (ValueCall \/ AskRecipients \/ NextRecipient \/ RecipientsDone)
  BY DEF CallStep, ValueCall

LEMMA InitListing == Init => Listing
  BY DEF Init, Listing

LEMMA NextListing == TInv /\ Own /\ NoShort /\ Listing /\ [Next]_vars => Listing'
<1> SUFFICES ASSUME TInv, Own, NoShort, Listing, [Next]_vars, Good', pc' = "recipients"
             PROVE  /\ asked' = <<R, "recipients">> /\ <<R>> \in image'.nodes
                    /\ row' \in 1..(Len(image'.cells[<<R>>]) + 1)
                    /\ AreThere' => emails' = UpTo(<<R>>)'[row' - 1]
  BY DEF Listing
<1>1. Good /\ UNCHANGED image /\ ~fail' /\ UpTo(<<R>>)' = UpTo(<<R>>)
  <2>1. Good /\ UNCHANGED image /\ ~fail'
    BY GoodBefore DEF Good
  <2> QED
    BY <2>1 DEF UpTo, Collects, ValueAt
<1>2. CASE AskRecipients
  <2>1. /\ asked' = <<R, "recipients">> /\ emails' = <<>> /\ row' = 1 /\ R \in DOMAIN made
        /\ pc = "idle"
    BY <1>2 DEF AskRecipients, R
  <2>2. <<R>> \in image.nodes
    <3>1. made[R] \in image.nodes /\ R # "pc" /\ PartsOK
      BY <1>1, <2>1, ImageFacts DEF TInv, TypesOK, TypeOK, Own
    <3> QED
      BY <2>1, <3>1 DEF PartsOK, PartOK
  <2>3. Len(image.cells[<<R>>]) \in Nat
    BY <2>2, CellFacts DEF TInv, TypeOK
  <2>4. emails' = UpTo(<<R>>)[row' - 1]
    BY <2>1, <2>3, UpToIs
  <2> QED
    BY <1>1, <2>1, <2>2, <2>3, <2>4
<1>3. CASE NextRecipient
  <2> DEFINE cells == image.cells[<<R>>]
             place == cells[row]
  <2>1. /\ asked' = <<R, "recipients">> /\ <<R>> \in image.nodes
        /\ row \in 1..Len(cells) /\ Len(cells) \in Nat /\ row' = row + 1
        /\ AreThere' <=> AreThere
        /\ AreThere => emails' = IF place \in NotThere THEN emails
                                 ELSE Append(emails, ValueAt(<<R>>, place))
    BY <1>1, <1>3, RowIs
  <2>2. AreThere => emails = UpTo(<<R>>)[row - 1]
    BY <1>1, <1>3 DEF NextRecipient, Listing
  <2>3. UpTo(<<R>>)[row] = IF place \in NotThere THEN UpTo(<<R>>)[row - 1]
                           ELSE Append(UpTo(<<R>>)[row - 1], ValueAt(<<R>>, place))
    BY <2>1, UpToIs
  <2> HIDE DEF place
  <2>4. row' - 1 = row /\ row' \in 1..(Len(cells) + 1)
    BY <2>1
  <2>5. AreThere' => emails' = UpTo(<<R>>)[row' - 1]
    BY <2>1, <2>2, <2>3, <2>4
  <2> QED
    BY <1>1, <2>1, <2>4, <2>5
<1>4. ~ValueCall /\ ~RecipientsDone
  BY ValueCallEnds DEF RecipientsDone
<1>5. CASE UNCHANGED <<assertsOn, image, tree, made, row, call, fail, pc>>
  <2>1. /\ asked = <<R, "recipients">> /\ <<R>> \in image.nodes
        /\ row \in 1..(Len(image.cells[<<R>>]) + 1)
        /\ AreThere => emails = UpTo(<<R>>)[row - 1]
    BY <1>1, <1>5 DEF Listing
  <2>2. AreThere' <=> AreThere
    BY <1>5 DEF AreThere, IsThere, PlacesAsked, PlaceOf, Has, Owner, call
  <2> QED
    BY <1>1, <1>5, <2>1, <2>2 DEF call
<1> QED
  BY <1>2, <1>3, <1>4, <1>5, OtherSteps, CallIs

-----------------------------------------------------------------------------
(* What is returned, and what ends a run. *)

\* The answer to what was asked.
Reply ==
  IF asked[2] = "recipients"
  THEN emails = IF Owner(asked[1]) \in image.nodes THEN Addresses(Owner(asked[1])) ELSE <<>>
  ELSE answer = Right(asked[1], PlaceOf(asked[1], asked[2]))

LEMMA ReplyIs ==
  AnswersAreOwn <=>
    ((pc = "idle" /\ asked # None /\ image.there /\ ~fail /\ OwnParts /\ AreThere) => Reply)
  BY DEF AnswersAreOwn, Reply, Right

LEMMA InitAnswers == Init => AnswersAreOwn
  BY DEF Init, AnswersAreOwn

LEMMA NextAnswers ==
  TInv /\ Own /\ NoShort /\ Unasked /\ Listing /\ AnswersAreOwn /\ [Next]_vars
    => AnswersAreOwn'
<1> SUFFICES ASSUME TInv, Own, NoShort, Unasked, Listing, AnswersAreOwn, [Next]_vars,
                    Good', pc' = "idle", asked' # None, AreThere'
             PROVE  Reply'
  <2>1. AnswersAreOwn' <=>
          ((pc = "idle" /\ asked # None /\ image.there /\ ~fail /\ OwnParts /\ AreThere)
             => Reply)'
    BY ReplyIs, PTL
  <2> QED
    BY <2>1 DEF Good
<1>1. Good /\ UNCHANGED image /\ ~fail' /\ R \in Nid /\ R # "pc" /\ image \in Images
  BY GoodBefore, ImageFacts DEF Good, TInv, TypeOK
<1>2. CASE ValueCall
  <2>1. PICK h \in DOMAIN made, name \in PropNames \cup ContentNames :
          asked' = <<h, name>> /\ Returns(h, PlaceOf(h, name))
    BY <1>1, <1>2, ValueCallIs
  <2>2. h \in {"pc"} \cup Nid /\ UNCHANGED <<image, made>>
    BY <1>2 DEF TInv, TypeOK, Holders, ValueCall, AskProperty, AskBody, AskAttachment, Asks
  <2>3. /\ asked'[1] = h /\ asked'[2] # "recipients"
        /\ PlaceOf(asked[1], asked[2])' = PlaceOf(h, name)
    BY <2>1, <2>2, OneAsked
  <2>4. answer' = Right(h, PlaceOf(h, name))
    BY <2>1 DEF Returns
  <2>5. Right(asked[1], PlaceOf(asked[1], asked[2]))' = Right(h, PlaceOf(h, name))
    BY <2>3 DEF Right, ValueAt, Owner
  <2> QED
    BY <2>3, <2>4, <2>5 DEF Reply
<1>3. CASE AskRecipients
  <2>1. asked' = <<R, "recipients">> /\ emails' = <<>> /\ R \notin DOMAIN made /\ pc = "idle"
    BY <1>3 DEF AskRecipients, R
  <2>2. DOMAIN made = {"pc"} \cup Tables({R, T}) \cup Attachments
    BY <1>1, <2>1 DEF Own, MadeOK
  <2>3. <<R>> \notin image.nodes
    BY <2>1, <2>2 DEF Tables
  <2> QED
    BY <1>1, <2>1, <2>3 DEF Reply, Owner
<1>4. CASE RecipientsDone
  <2>1. pc = "recipients" /\ row > Len(Cells) /\ UNCHANGED <<image, made, call>>
    BY <1>4 DEF RecipientsDone
  <2>2. AreThere
    BY <2>1 DEF AreThere, IsThere, PlacesAsked, PlaceOf, Has, Owner, call
  <2> DEFINE cells == image.cells[<<R>>]
  <2>3. /\ asked = <<R, "recipients">> /\ <<R>> \in image.nodes
        /\ row \in 1..(Len(cells) + 1) /\ emails = UpTo(<<R>>)[row - 1]
    BY <1>1, <2>1, <2>2 DEF Listing
  <2>4. Cells = cells
    <3>1. DOMAIN made = {"pc"} \cup Tables({R, T}) \cup Attachments /\ PartsOK
      BY <1>1, <2>1 DEF Own, MadeOK
    <3>2. R \in DOMAIN made
      BY <2>3, <3>1 DEF Tables
    <3> QED
      BY <1>1, <3>1, <3>2 DEF Cells, PartsOK, PartOK, R
  <2>5. Len(cells) \in Nat
    BY <1>1, <2>3, CellFacts
  <2>6. row - 1 = Len(cells)
    BY <2>1, <2>3, <2>4, <2>5
  <2>7. emails = Addresses(<<R>>)
    BY <2>3, <2>5, <2>6, UpToIs
  <2>8. Addresses(<<R>>)' = Addresses(<<R>>)
    BY <1>1 DEF Addresses, ValueAt
  <2>9. asked'[1] = R /\ asked'[2] = "recipients" /\ emails' = emails
    BY <2>1, <2>3 DEF call
  <2>10. Owner(R) = <<R>>
    BY <1>1 DEF Owner
  <2> QED
    BY <1>1, <2>3, <2>7, <2>8, <2>9, <2>10 DEF Reply, Owner
<1>5. ~NextRecipient
  <2> SUFFICES ASSUME NextRecipient PROVE FALSE
    OBVIOUS
  <2>1. (AreThere' <=> AreThere) /\ (AreThere => pc' \in {"recipients", "aborted"})
    BY <1>1, RowIs
  <2> QED
    BY <2>1
<1>6. CASE UNCHANGED call /\ pc \notin Ended
  BY <1>6 DEF Unasked, call
<1>7. CASE UNCHANGED <<assertsOn, image, tree, made, row, call, fail, pc>>
  <2>1. UNCHANGED <<image, made, asked, answer, emails, pc>>
    BY <1>7 DEF call
  <2>2. AreThere
    BY <2>1 DEF AreThere, IsThere, PlacesAsked, PlaceOf, Has, Owner
  <2>3. Reply
    BY <1>1, <2>1, <2>2, ReplyIs DEF Good
  <2>4. /\ Owner(asked[1])' = Owner(asked[1]) /\ Right(asked[1], PlaceOf(asked[1], asked[2]))'
             = Right(asked[1], PlaceOf(asked[1], asked[2]))
        /\ Addresses(Owner(asked[1]))' = Addresses(Owner(asked[1]))
    BY <2>1 DEF Owner, Right, PlaceOf, Has, Addresses, ValueAt
  <2> QED
    BY <2>1, <2>3, <2>4 DEF Reply
<1> QED
  BY <1>2, <1>3, <1>4, <1>5, <1>6, <1>7, OtherSteps, CallIs

\* The data of the next context of a message of which no read failed is there, unless
\* its block is not.
LEMMA MakeOfEnds ==
  ASSUME TInv, RestOK, NoShort, Good, ~fail',
         NEW nid \in Nid \ DOMAIN made, nid \in {R, T} \cup Attachments,
         NEW p \in Found("message", nid), NEW keep, NEW next, MakeOf(nid, p, keep, next)
  PROVE  pc' = next \/ (pc' = "thrown" /\ <<nid>> \in image.broken)
<1> DEFINE t == tree["message"]
<1>1. p = <<nid>> /\ p \in DOMAIN t.data /\ "message" \in DOMAIN tree
  <2>1. (\E q \in image.nodes : Last(q) = nid) => <<nid>> \in image.nodes
    BY DEF Good, OwnParts, R, T
  <2> QED
    BY <2>1, FoundOwn, FoundFacts DEF RestOK
<1>2. t.data[p] \in States /\ t.data[p] # "short"
  BY <1>1 DEF TInv, TypeOK, NoShort, Fine, Good
<1>3. t.data[p] # "moved"
  <2> SUFFICES ASSUME t.data[p] = "moved" PROVE FALSE
    OBVIOUS
  <2>1. PICK h \in DOMAIN made \ {"pc"} : p = <<h>>
    BY <1>1 DEF RestOK
  <2>2. h = nid
    BY <1>1, <2>1
  <2> QED
    BY <2>1, <2>2
<1>4. ASSUME NEW s, Loads("message", p, s) PROVE s = "loaded"
  <2>1. CASE t.data[p] # "unread" /\ s = t.data[p]
    BY <1>2, <1>3, <2>1 DEF States
  <2>2. ASSUME NEW arrived \in BOOLEAN, Arrival(arrived),
               s = IF arrived THEN "loaded" ELSE "short"
        PROVE  s = "loaded"
    BY <2>2 DEF Arrival
  <2> QED
    BY <1>4, <2>1, <2>2 DEF Loads
<1>5. CASE LoadThrows("message", p) /\ pc' = "thrown"
  BY <1>1, <1>5 DEF LoadThrows
<1> QED
  BY <1>4, <1>5 DEF MakeOf

LostAttachment == \E a \in Attachments : <<a>> \notin image.nodes
LostValue      == asked # None /\ ~AreThere
LostBlock ==
  image.broken \cap ({<<>>, <<R>>, <<T>>} \cup {<<a>> : a \in Attachments}) # {}
Refused == asked # None /\ PlacesAsked \cap (NotThere \cup {"empty"}) # {}

Explained ==
  /\ pc = "undefined" => LostAttachment \/ LostValue
  /\ pc = "thrown" => LostBlock
  /\ pc = "aborted" =>
       ~image.there \/ ~image.valid \/ LostAttachment \/ LostValue \/ Refused

LEMMA EndsIs == EndsOnlyOn <=> (~cut /\ OwnParts => Explained)
  BY DEF EndsOnlyOn, Explained, LostAttachment, LostValue, LostBlock, Refused, R, T

LEMMA InitEnds == Init => EndsOnlyOn
  BY DEF Init, EndsOnlyOn

LEMMA NextEnds ==
  /\ TInv /\ Own /\ NoShort /\ FailCut /\ Absent /\ Listing /\ EndsOnlyOn
  /\ [Next]_vars
  => EndsOnlyOn'
<1> SUFFICES ASSUME TInv, Own, NoShort, FailCut, Absent, Listing, EndsOnlyOn,
                    [Next]_vars, ~cut', OwnParts'
             PROVE  Explained'
  <2>1. EndsOnlyOn' <=> (~cut' /\ OwnParts' => Explained')
    BY EndsIs, PTL
  <2> QED
    BY <2>1
<1>1. UNCHANGED image /\ image \in Images /\ ~cut /\ ~fail /\ ~fail' /\ OwnParts
      /\ fail \in BOOLEAN /\ row \in Nat \ {0}
  <2>1. UNCHANGED image /\ image \in Images /\ cut \in BOOLEAN /\ fail \in BOOLEAN
        /\ row \in Nat \ {0}
    BY StepFails DEF TInv, TypeOK
  <2>2. cut => cut'
    BY OtherSteps, CallSteps, <2>1
  <2>3. FailCut'
    BY NextFailCut
  <2> QED
    BY <2>1, <2>2, <2>3 DEF FailCut, OwnParts, Attachments
<1>2. CASE ~image.there
  <2>1. Absent'
    BY NextAbsent
  <2> QED
    BY <1>1, <1>2, <2>1 DEF Absent, Explained
<1>3. CASE image.there
  <2>1. Good /\ Good'
    BY <1>1, <1>3 DEF Good
  <2>2. CASE FindNode \/ BuildTree
    <3>1. pc' \in {"tree", "pc"}
      BY <1>1, <1>3, <2>2 DEF FindNode, BuildTree, Arrival
    <3> QED
      BY <3>1 DEF Explained
  <2>3. CASE MakePC
    <3>1. pc' = R \/ (pc' = "thrown" /\ <<>> \in image.broken)
      BY <1>1, <2>3 DEF MakePC, Arrival, R
    <3> QED
      BY <1>1, <3>1, PcFacts DEF Explained, LostBlock
  <2>4. CASE MakeRecipients \/ MakeAttachmentTable
    <3>1. PICK nid \in {R, T}, next \in {T, "attachments"}, none \in {T, "finish"} :
            MakeTable(nid, next, none) /\ (nid = T => next # T)
      BY <2>4, PcFacts DEF MakeRecipients, MakeAttachmentTable, R, T
    <3>2. pc = nid /\ RestOK /\ nid \in Nid \ DOMAIN made
      <4>1. pc = nid
        BY <3>1 DEF MakeTable
      <4>2. MadeOK /\ RestOK
        BY <2>1, <4>1, PcFacts DEF Own
      <4>3. R \in Nid /\ T \in Nid /\ "pc" \notin Nid
        BY <1>1, ImageFacts
      <4>4. nid \notin DOMAIN made
        BY <4>1, <4>2, <4>3, PcFacts DEF MadeOK, Tables
      <4> QED
        BY <4>1, <4>2, <4>3, <4>4
    <3>3. pc' \in {T, "attachments", "finish"} \/ (pc' = "thrown" /\ <<nid>> \in image.broken)
      BY <1>1, <2>1, <3>1, <3>2, MakeOfEnds DEF MakeTable
    <3> QED
      BY <1>1, <3>3, PcFacts DEF Explained, LostBlock
  <2>5. CASE MakeAttachment
    <3> DEFINE nid == AttachNID
    <3>1. /\ RestOK /\ nid \in Nid \ DOMAIN made /\ nid \in Attachments
      BY <2>1, <2>5, AttachmentIsNew DEF MakeAttachment
    <3> HIDE DEF nid
    <3>2. CASE Found("message", nid) = {}
      <4>1. (\E q \in image.nodes : Last(q) = nid) => <<nid>> \in image.nodes
        BY <1>1, <3>1 DEF OwnParts
      <4>2. <<nid>> \notin image.nodes
        BY <3>1, <3>2, <4>1, FoundOwn
      <4>3. LostAttachment'
        BY <1>1, <3>1, <4>2 DEF LostAttachment, Attachments
      <4>4. pc' # "thrown"
        BY <2>5, <3>2 DEF MakeAttachment, Fails, nid
      <4> QED
        BY <4>3, <4>4 DEF Explained
    <3>3. ASSUME NEW p \in Found("message", nid), MakeOf(nid, p, TRUE, "attachments")
          PROVE  Explained'
      <4>1. pc' = "attachments" \/ (pc' = "thrown" /\ <<nid>> \in image.broken)
        BY <1>1, <2>1, <3>1, <3>3, MakeOfEnds
      <4>2. <<nid>> \in image.broken => LostBlock'
        BY <1>1, <3>1 DEF LostBlock, Attachments
      <4> QED
        BY <4>1, <4>2 DEF Explained
    <3> QED
      BY <2>5, <3>2, <3>3 DEF MakeAttachment, nid
  <2>6. CASE Finish
    <3>1. pc' = "idle" \/ (pc' = "aborted" /\ ~image.valid)
      BY <2>6 DEF Finish, Fails
    <3> QED
      BY <1>1, <3>1 DEF Explained
  <2>7. CASE ValueCall
    <3>1. asked' # None /\ pc = "idle"
      BY <1>1, <2>1, <2>7, ValueCallIs
    <3>2. CASE ~AreThere'
      <4>1. LostValue'
        BY <3>1, <3>2 DEF LostValue
      <4>2. pc' \in Ended
        BY <1>1, <2>7, CallSteps, CallIs
      <4> QED
        BY <4>1, <4>2 DEF Explained, Ended
    <3>3. CASE AreThere'
      <4>1. PICK h \in DOMAIN made, name \in PropNames \cup ContentNames :
              asked' = <<h, name>> /\ Returns(h, PlaceOf(h, name))
        BY <1>1, <2>1, <2>7, <3>3, ValueCallIs
      <4>2. h \in {"pc"} \cup Nid /\ UNCHANGED <<image, made>>
        BY <2>7 DEF TInv, TypeOK, Holders, ValueCall, AskProperty, AskBody, AskAttachment, Asks
      <4>3. PlacesAsked' = {PlaceOf(h, name)}
        BY <4>1, <4>2, OneAsked
      <4>4. pc' = "idle" \/ (pc' = "aborted" /\ Refused')
        <5>1. NotThere' = NotThere
          BY DEF NotThere
        <5> QED
          BY <3>1, <4>1, <4>3, <5>1 DEF Returns, Refused
      <4> QED
        BY <4>4 DEF Explained
    <3> QED
      BY <3>2, <3>3
  <2>8. CASE AskRecipients \/ RecipientsDone
    <3>1. pc' \in {"idle", "recipients"}
      BY <2>8 DEF AskRecipients, RecipientsDone
    <3> QED
      BY <3>1 DEF Explained
  <2>9. CASE NextRecipient
    <3> DEFINE place == image.cells[<<R>>][row]
    <3>1. /\ asked = <<R, "recipients">> /\ UNCHANGED asked /\ (AreThere' <=> AreThere)
          /\ place \in PlacesAsked /\ PlacesAsked' = PlacesAsked
          /\ AreThere => /\ pc' \in {"recipients", "aborted"}
                         /\ pc' = "aborted" => place \in NotThere
      BY <1>1, <2>1, <2>9, RowIs
    <3> HIDE DEF place
    <3>2. asked' # None
      <4>1. <<R, "recipients">> \in
              (Nid \cup {"pc"}) \X (PropNames \cup ContentNames \cup {"recipients"})
        BY <1>1, ImageFacts
      <4> QED
        BY <3>1, <4>1, MessageAssumption
    <3>3. pc' \in Ended
      BY <1>1, <2>9, CallSteps, CallIs
    <3>4. CASE ~AreThere
      BY <3>1, <3>2, <3>3, <3>4 DEF Explained, LostValue, Ended
    <3>5. CASE AreThere
      <4>1. pc' = "aborted" => Refused'
        <5>1. NotThere' = NotThere
          BY DEF NotThere
        <5> QED
          BY <3>1, <3>2, <3>5, <5>1 DEF Refused
      <4> QED
        BY <3>1, <3>5, <4>1 DEF Explained
    <3> QED
      BY <3>4, <3>5
  <2>10. CASE Cut \/ UNCHANGED vars
    <3>1. UNCHANGED <<image, made, asked, pc>>
      BY <2>10 DEF Cut, vars, call
    <3>2. Explained
      BY <1>1, EndsIs
    <3> QED
      BY <3>1, <3>2
         DEF Explained, LostAttachment, LostValue, LostBlock, Refused, Attachments, AreThere,
             IsThere, PlacesAsked, PlaceOf, Has, Owner, NotThere
  <2> QED
    BY <2>2, <2>3, <2>4, <2>5, <2>6, <2>7, <2>8, <2>9, <2>10, CallIs DEF Next, CallStep
<1> QED
  BY <1>2, <1>3

\* While no read failed, every call returns what the file has for this message and this
\* attachment, and getRecipients the addresses in the order of the rows.
THEOREM AnswersStayOwn == Spec => []AnswersAreOwn
  BY InitTInv, NextTInv, InitOwn, NextOwn, InitShort, NextShort, NextUnasked,
     InitListing, NextListing, InitAnswers, NextAnswers, PTL DEF Spec

\* On a file that nobody cut, what ends a run is something the file lacks, or an
\* assertion on what it has.
THEOREM EndsStayExplained == Spec => []EndsOnlyOn
  BY InitTInv, NextTInv, InitOwn, NextOwn, InitShort, NextShort, NextFailCut, NextAbsent,
     InitListing, NextListing, InitEnds, NextEnds, PTL DEF Spec
=============================================================================
