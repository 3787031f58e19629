------------------------------ MODULE MCMessage ------------------------------
(***************************************************************************)
(* Instances of Message: a plain one without attachments; one with two     *)
(* attachments, of which one is a message with attachments and recipients  *)
(* of its own, under NIDs that this one has too; one whose file lacks an   *)
(* attachment, a value and blocks; one without tables around another       *)
(* message; one that the constructors reject, and one that is not there.   *)
(***************************************************************************)
EXTENDS Message

A1 == "0x8025"
A2 == "0x8045"
B  == "0x1f"     \* long values
V  == "0x3f"
E  == "0x24"     \* an embedded message

R == RECIPIENT_TC_NID
T == ATTACH_TC_NID

MCNid == {R, T, A1, A2, B, V, E}

NoContent  == [n \in ContentNames |-> "absent"]
WithContent(mime, data) ==
  [n \in ContentNames |-> CASE n = "mime" -> mime [] n = "data" -> data [] OTHER -> "heap"]

Props(subject, sender, body, html) ==
  [n \in PropNames |-> CASE n = "subject" -> subject [] n = "sender" -> sender
                         [] n = "body" -> body [] OTHER -> html]

\* Every tree that has a node, and those of the nodes in others.
Msg(props, nodes, others, broken, cells, ids, content) ==
  [there |-> TRUE, valid |-> TRUE, nodes |-> nodes, broken |-> broken, props |-> props,
   subs |-> {<<>>} \cup others \cup {Front(p) : p \in nodes},
   cells |-> cells, ids |-> ids,
   content |-> [p \in nodes |-> IF p \in DOMAIN content THEN content[p] ELSE NoContent]]

Plain ==
  Msg(Props("heap", "heap", "absent", B), {<<R>>, <<R, B>>, <<R, V>>, <<B>>}, {}, {},
      [p \in {<<R>>} |-> <<B, "heap", V>>], <<>>, <<>>)

Embedding ==
  Msg(Props("empty", "heap", B, "heap"),
      {<<R>>, <<R, B>>, <<T>>, <<B>>, <<A1>>, <<A2>>, <<A1, E>>, <<A1, E, R>>,
       <<A1, E, T>>, <<A1, E, A2>>, <<A1, E, B>>, <<A2, B>>}, {<<A1, E, A2>>}, {},
      [p \in {<<R>>, <<A1, E, R>>} |-> IF p = <<R>> THEN <<"heap", "absent", B>> ELSE <<"heap">>],
      [p \in {<<T>>, <<A1, E, T>>} |-> IF p = <<T>> THEN <<A1, A2>> ELSE <<A2>>],
      [p \in {<<A1>>, <<A2>>} |-> IF p = <<A1>> THEN WithContent("absent", "object")
                                               ELSE WithContent("heap", B)])

Lossy1 ==
  Msg(Props("absent", "object", V, "absent"), {<<R>>, <<R, B>>, <<T>>, <<A1>>, <<A1, B>>, <<A1, V>>},
      {}, {<<A1, B>>, <<R, B>>},
      [p \in {<<R>>} |-> <<"heap", V, B>>], [p \in {<<T>>} |-> <<A1>>],
      [p \in {<<A1>>} |-> WithContent(V, B)])

Lossy2 ==
  Msg(Props("heap", "heap", "heap", "absent"), {<<R>>, <<T>>, <<A1>>}, {}, {},
      [p \in {<<R>>} |-> <<>>], [p \in {<<T>>} |-> <<A1, A2>>],
      [p \in {<<A1>>} |-> WithContent("empty", "empty")])

Thrown(broken) == [Lossy2 EXCEPT !.broken = {broken}]

Draft ==
  Msg(Props("heap", "heap", "heap", "absent"),
      {<<A1>>, <<A1, E>>, <<A1, E, R>>, <<A1, E, T>>, <<A1, E, A1>>}, {}, {},
      [p \in {<<A1, E, R>>} |-> <<"heap">>], [p \in {<<A1, E, T>>} |-> <<A1>>],
      [p \in {<<A1>>} |-> WithContent("heap", "object")])

Invalid == [Plain EXCEPT !.valid = FALSE]
NoNode  == [Plain EXCEPT !.there = FALSE]

MCImages == {Plain, Embedding, Lossy1, Lossy2, Thrown(<<>>), Thrown(<<A1>>), Draft,
             Invalid, NoNode}
=============================================================================
