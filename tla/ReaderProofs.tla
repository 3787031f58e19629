---------------------------- MODULE ReaderProofs ----------------------------
(***************************************************************************)
(* Proofs about Reader: for any number of calls of read(), the pointers    *)
(* that getFolder() gave out stay valid, and with assertions the only      *)
(* undefined behaviour is to use a reader that has read nothing.           *)
(*                                                                         *)
(* The argument: the file is opened once.  Every later open fails, and the *)
(* failed stream does not get past the header, so the three objects are    *)
(* replaced by one read() at most, before any folder is handed out.        *)
(***************************************************************************)
EXTENDS Reader, TLAPS

\* Nothing is built before the file is open.
UnopenedOK ==
  ~open => /\ ndb = None /\ ltp = None /\ msg = None /\ folders = {}
           /\ pc \in {"idle", "open", "aborted", "undefined"} \/ (pc = "header" /\ fail)

\* A read() that builds is the first that built.
Unbuilt == ndb = None /\ msg = None /\ folders = {}
BuildingOK ==
  /\ pc = "header" => fail \/ Unbuilt
  /\ pc = "ndb" => Unbuilt
  /\ pc \in {"ltp", "messaging"} => msg = None /\ folders = {} /\ ndb # None
  /\ pc = "messaging" => ltp # None /\ ltp.ndb = ndb
  /\ pc \in {"open", "header", "ndb", "ltp", "messaging"} => reads \in Number

\* The Messaging object refers to the NDB and the LTP of the reader, and every
\* folder is in it.
LinkedOK ==
  /\ msg # None => msg.ndb = ndb /\ ltp # None /\ msg.ltp = ltp.of
  /\ \A f \in folders : msg # None /\ msg.of = f

\* With assertions a read() that built an NDB and returned has built the rest.
AssertedOK ==
  assertsOn => /\ pc \in {"idle", "open", "header"} => (ndb = None <=> msg = None)
               /\ pc = "undefined" => msg = None /\ ndb = None

IInv == TypeOK /\ UnopenedOK /\ BuildingOK /\ LinkedOK /\ AssertedOK

LEMMA InitIInv == Init => IInv
<1> SUFFICES ASSUME Init PROVE IInv
  OBVIOUS
<1> USE DEF Init
<1>1. TypeOK
  <2>1. MaxReads \in Nat
    BY ReaderAssumption
  <2>2. reads \in 0..MaxReads
    BY <2>1
  <2>3. QED
    BY <2>2, Zenon DEF TypeOK, Files
<1>2. UnopenedOK /\ BuildingOK /\ LinkedOK /\ AssertedOK
  BY DEF UnopenedOK, BuildingOK, LinkedOK, AssertedOK
<1>3. QED
  BY <1>1, <1>2 DEF IInv

LEMMA StepIInv == IInv /\ [Next]_vars => IInv'
<1> SUFFICES ASSUME IInv, [Next]_vars PROVE IInv'
  OBVIOUS
<1> USE ReaderAssumption
     DEF IInv, TypeOK, UnopenedOK, BuildingOK, LinkedOK, AssertedOK, Unbuilt, Number
<1>1. CASE Read
  BY <1>1 DEF Read, env, objects
<1>2. CASE Open
  BY <1>2 DEF Open, env, objects
<1>3. CASE Header
  BY <1>3 DEF Header, Arrival, env, objects
<1>4. CASE BuildNDB
  BY <1>4 DEF BuildNDB, Arrival, LoadAborts, env
<1>5. CASE BuildLTP
  BY <1>5 DEF BuildLTP, LTP, env
<1>6. CASE BuildMessaging
  <2>1. CASE ~fail /\ file = "good" /\ pc' = "idle" /\ UNCHANGED fail
              /\ msg' = [of |-> reads, ndb |-> ndb, ltp |-> ltp.of]
    <3>1. ltp \in LTP /\ ndb \in Number /\ reads \in Number /\ folders = {}
      BY <1>6 DEF BuildMessaging
    <3>2. msg' \in Messaging /\ msg'.ndb = ndb /\ msg'.ltp = ltp.of
      BY <3>1, <2>1 DEF LTP, Messaging
    <3>3. msg' # None
      BY <3>2
    <3>4. QED
      BY <1>6, <2>1, <3>1, <3>2, <3>3 DEF BuildMessaging, env
  <2>2. CASE msg' = msg /\ pc' \in {"idle", "undefined", "aborted"} /\ fail' \in BOOLEAN
              /\ (assertsOn => pc' = "aborted")
    BY <1>6, <2>2 DEF BuildMessaging, env
  <2>3. QED
    BY <1>6, <2>1, <2>2 DEF BuildMessaging, LoadAborts
<1>7. CASE GetFolder
  BY <1>7 DEF GetFolder, Messaging, env
<1>8. CASE \E f \in folders : GetMessages(f)
  BY <1>8 DEF GetMessages, Arrival, LoadAborts, Valid, env, objects
<1>9. CASE \E f \in Files, isCut \in BOOLEAN : FileChanges(f, isCut)
  BY <1>9 DEF FileChanges, objects
<1>10. CASE UNCHANGED vars
  BY <1>10 DEF vars, env
<1>11. QED
  BY <1>1, <1>2, <1>3, <1>4, <1>5, <1>6, <1>7, <1>8, <1>9, <1>10 DEF Next

LEMMA InvariantHolds == Spec => []IInv
  BY InitIInv, StepIInv, PTL DEF Spec

\* Every reachable state of a reader, whatever the file and however often read()
\* is called (src/include/pst_reader.h, PSTReader), is of its type.
THEOREM TypeCorrect == Spec => []TypeOK
<1>1. IInv => TypeOK
  BY DEF IInv
<1>2. QED
  BY InvariantHolds, <1>1, PTL

\* The pointers that PSTReader::getFolder gave out point into the Messaging object
\* of the reader, whose references are to the reader's NDB and LTP, after any
\* number of calls of PSTReader::read that succeed, fail or throw anywhere.
THEOREM FoldersValid == Spec => []FoldersStayValid
<1>1. IInv => FoldersStayValid
  BY DEF IInv, LinkedOK, FoldersStayValid, Valid
<1>2. QED
  BY InvariantHolds, <1>1, PTL

\* In a build with STORYT_ASSERT, PSTReader meets undefined behaviour only when
\* getFolder is called on a reader that has built nothing.
THEOREM UndefinedUnread == Spec => []UndefinedOnlyUnread
<1>1. IInv => UndefinedOnlyUnread
  BY DEF IInv, AssertedOK, UndefinedOnlyUnread
<1>2. QED
  BY InvariantHolds, <1>1, PTL

\* The file is open, the reader has m, and a read() that runs fails to open it.
Settled(m) ==
  /\ open /\ msg = m
  /\ pc \in {"idle", "open", "header", "aborted", "undefined"}
  /\ pc = "header" => fail

LEMMA StepSettled ==
  ASSUME NEW m \in Messaging \cup {None}
  PROVE  Settled(m) /\ [Next]_vars => Settled(m)'
<1> SUFFICES ASSUME Settled(m), [Next]_vars PROVE Settled(m)'
  OBVIOUS
<1> USE DEF Settled
<1>1. CASE Read
  BY <1>1 DEF Read, objects
<1>2. CASE Open
  BY <1>2 DEF Open, objects
<1>3. CASE Header
  BY <1>3 DEF Header, objects
<1>4. CASE BuildNDB \/ BuildLTP \/ BuildMessaging
  BY <1>4 DEF BuildNDB, BuildLTP, BuildMessaging
<1>5. CASE GetFolder
  BY <1>5 DEF GetFolder
<1>6. CASE \E f \in folders : GetMessages(f)
  BY <1>6 DEF GetMessages, objects
<1>7. CASE \E f \in Files, isCut \in BOOLEAN : FileChanges(f, isCut)
  BY <1>7 DEF FileChanges, objects
<1>8. CASE UNCHANGED vars
  BY <1>8 DEF vars
<1> QED
  BY <1>1, <1>2, <1>3, <1>4, <1>5, <1>6, <1>7, <1>8 DEF Next

\* Once a call of PSTReader::read has opened the file and has returned or thrown,
\* no later call replaces the Messaging object that the reader has, or makes one.
THEOREM FirstDecides == Spec => FirstOpenDecides
<1>1. ASSUME NEW m \in Messaging \cup {None}
      PROVE  Spec => []((open /\ pc = "idle" /\ msg = m) => []((pc = "idle") => msg = m))
  <2>1. (open /\ pc = "idle" /\ msg = m) => Settled(m)
    BY DEF Settled
  <2>2. Settled(m) => ((pc = "idle") => msg = m)
    BY DEF Settled
  <2>3. Settled(m) /\ [Next]_vars => Settled(m)'
    BY StepSettled
  <2> QED
    BY <2>1, <2>2, <2>3, PTL DEF Spec
<1> QED
  BY <1>1 DEF FirstOpenDecides
=============================================================================
