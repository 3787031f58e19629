------------------------------ MODULE LazyTree ------------------------------
(***************************************************************************)
(* What the users of a DataTree rely on: an object that names some data,   *)
(* reads all of it in one step when it is first needed, and keeps it until *)
(* it is moved elsewhere.  Once a read of the file has failed the stream   *)
(* is spoiled and what is read from then on may be anything.               *)
(***************************************************************************)
CONSTANTS Handle, Bid, Data  \* Data: Bid -> the data of the node
VARIABLES obj, spoiled

vars == <<obj, spoiled>>

Absent   == [is |-> "absent"]
Taken    == [is |-> "taken"]
Unread(b) == [is |-> "unread", root |-> b]

Init ==
  /\ obj = [h \in Handle |-> Absent]
  /\ spoiled = FALSE

Make(h, b) ==
  /\ obj' = [obj EXCEPT ![h] = Unread(b)]
  /\ UNCHANGED spoiled

Copy(g, h) ==
  /\ obj[g] # Absent
  /\ obj' = [obj EXCEPT ![h] = obj[g]]
  /\ UNCHANGED spoiled

\* Moving away what was read leaves nothing; an unread object can still read.
Move(g, h) ==
  /\ obj[g] # Absent
  /\ obj' = [obj EXCEPT ![h] = obj[g],
                        ![g] = IF obj[g].is = "read" THEN Taken ELSE obj[g]]
  /\ UNCHANGED spoiled

\* A part of the data is moved out.
Take(h) ==
  /\ obj[h].is \in {"read", "taken"}
  /\ obj' = [obj EXCEPT ![h] = Taken]
  /\ UNCHANGED spoiled

Read(h) ==
  /\ obj[h].is = "unread" /\ obj'[h].is = "read"
  /\ obj'[h].root = obj[h].root
  /\ spoiled \/ obj'[h].data = Data[obj[h].root]
  /\ \A g \in Handle : g # h => obj'[g] = obj[g]
  /\ UNCHANGED spoiled

Spoil == spoiled' = TRUE /\ UNCHANGED obj

Next ==
  \/ \E h \in Handle, b \in Bid : Make(h, b)
  \/ \E g, h \in Handle : Copy(g, h) \/ (g # h /\ Move(g, h))
  \/ \E h \in Handle : Take(h) \/ Read(h)
  \/ Spoil

Spec == Init /\ [][Next]_vars
=============================================================================
