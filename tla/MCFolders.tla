------------------------------ MODULE MCFolders ------------------------------
(***************************************************************************)
(* Instances of Folders: a tree three deep in which a label is part of     *)
(* three names, folders of none to five messages with a lost and a broken  *)
(* one, and batches that divide them, that do not, and that exceed them.   *)
(***************************************************************************)
EXTENDS Folders

MCNid == {"top", "old", "mail", "in", "sent", "bin"}

MCSubFolders == [n \in MCNid |-> CASE n = "top"  -> <<"old", "mail", "bin">>
                                   [] n = "mail" -> <<"sent", "in">>
                                   [] OTHER      -> <<>>]

MCName == [n \in MCNid |-> CASE n = "top"  -> "Top"
                             [] n = "old"  -> "Inbox2019"
                             [] n = "mail" -> "Mail"
                             [] n = "in"   -> "Inbox"
                             [] n = "sent" -> "Sent"
                             [] n = "bin"  -> "Sent Inbox"]

MCMessages == [n \in MCNid |-> CASE n = "in"   -> <<"m1", "m2", "m3", "m4", "m5">>
                                 [] n = "old"  -> <<"m6", "m7", "lost", "m8">>
                                 [] n = "sent" -> <<"m9", "m10", "m11", "broken">>
                                 [] n = "bin"  -> <<"m12">>
                                 [] OTHER      -> <<>>]

\* By NID, by label (a name contains it), by a regular expression.
MCIds == {"in", "top", "Inbox", "Sent", "Draft", "Inbox$"}
MCAccepts == [id \in MCIds |-> CASE id = "Inbox"  -> {"Inbox", "Inbox2019", "Sent Inbox"}
                                 [] id = "Sent"   -> {"Sent", "Sent Inbox"}
                                 [] id = "Inbox$" -> {"Inbox", "Sent Inbox"}
                                 [] id = "Draft"  -> {}
                                 [] OTHER         -> {id}]

\* all() may find more kinds of node than the four; or one of them is not there.
MCParts   == [n \in MCNid |-> FourParts \cup {"INVALID"}]
MCPartsOf == {MCParts, [MCParts EXCEPT !["sent"] = @ \ {"CONTENTS_TABLE"}]}
MCBatches == 1..6
=============================================================================
