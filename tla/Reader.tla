------------------------------- MODULE Reader -------------------------------
(***************************************************************************)
(* A PSTReader and the program that uses it (src/include/pst_reader.h and  *)
(* the constructors of Messaging.h).  read() opens the file, reads the     *)
(* header, and replaces in turn the NDB, the LTP and the Messaging object, *)
(* each of which holds references to the ones before; getFolder() hands    *)
(* out pointers into the Messaging object.  All of them read through the   *)
(* one std::ifstream, and read() can throw at several places.              *)
(*                                                                         *)
(* An object is known by the number of the read() that made it.  What its  *)
(* bytes mean is left to the modules of the layers: here a load is a load  *)
(* of good bytes, or of the zeros that a stream which has failed delivers, *)
(* and those are abort with assertions and undefined behaviour without (HN *)
(* reads a header out of an empty vector).                                 *)
(***************************************************************************)
EXTENDS Naturals

CONSTANTS
  MaxReads,   \* bound: calls of read()
  None

Number == 1..MaxReads
LTP == [of: Number, ndb: Number]
Messaging == [of: Number, ndb: Number, ltp: Number]

ASSUME ReaderAssumption ==
  MaxReads \in Nat /\ None \notin Nat \cup LTP \cup Messaging

VARIABLES
  assertsOn, \* the build: STORYT_ASSERT aborts, or is a no-op
  file,     \* what is at the path: "absent", "good", "lacking" (no store or no
            \* root folder) or "cyclic" (not encoded by permutation)
  cut,      \* the file ends early
  open,     \* m_file.is_open()
  fail,     \* m_file.fail()
  ndb,      \* m_ndb: the number of its read(), or None
  ltp,      \* m_ltp: [of, ndb]
  msg,      \* m_msg: [of, ndb, ltp]
  folders,  \* the folder pointers in the program's hands: numbers of Messagings
  pc,       \* "idle", inside read(), "aborted" or "undefined"
  reads     \* calls of read() so far

env  == <<assertsOn, file, cut>>
vars == <<env, open, fail, ndb, ltp, msg, folders, pc, reads>>
objects == <<ndb, ltp, msg, folders>>

Files == {"absent", "good", "lacking", "cyclic"}

TypeOK ==
  /\ assertsOn \in BOOLEAN /\ file \in Files /\ cut \in BOOLEAN
  /\ open \in BOOLEAN /\ fail \in BOOLEAN
  /\ ndb \in Number \cup {None} /\ ltp \in LTP \cup {None}
  /\ msg \in Messaging \cup {None} /\ folders \subseteq Number
  /\ pc \in {"idle", "open", "header", "ndb", "ltp", "messaging", "aborted", "undefined"}
  /\ reads \in 0..MaxReads

Init ==
  /\ assertsOn \in BOOLEAN /\ file \in Files /\ cut \in BOOLEAN
  /\ open = FALSE /\ fail = FALSE
  /\ ndb = None /\ ltp = None /\ msg = None /\ folders = {}
  /\ pc = "idle" /\ reads = 0

-----------------------------------------------------------------------------
(* read(). *)

Read ==
  /\ pc = "idle" /\ reads < MaxReads
  /\ reads' = reads + 1 /\ pc' = "open"
  /\ UNCHANGED <<env, open, fail, objects>>

\* Mutant of Open: a stream that is open is closed first.
Reopen ==
  /\ pc = "open"
  /\ open' = (file # "absent") /\ fail' = (file = "absent")
  /\ pc' = IF assertsOn /\ ~open' THEN "aborted" ELSE "header"
  /\ UNCHANGED <<env, objects, reads>>

\* _open: std::ifstream::open fails on a stream that is open, and clears the
\* failbit when it succeeds.
Open ==
  LET opens == ~open /\ file # "absent"
  IN  /\ pc = "open"
      /\ open' = (open \/ opens)
      /\ fail' = ~opens
      /\ pc' = IF assertsOn /\ ~open' THEN "aborted" ELSE "header"
      /\ UNCHANGED <<env, objects, reads>>

\* Bytes that are read arrive, or the stream fails.
Arrival(arrived) ==
  /\ arrived => ~fail
  /\ ~arrived => fail \/ cut
  /\ fail' = ~arrived

\* _readHeader: of a header that is cut, zeros meet the assertions on the version and
\* rgnid or, behind those or without them, STORYT_VERIFY on bCryptMethod, which throws
\* in both builds.  The assertion that the stream is in order comes before the read.  A
\* header that is cut behind bCryptMethod is as good as a whole one.
Header ==
  /\ pc = "header"
  /\ \E arrived, readable \in BOOLEAN, verified \in {"aborted", "idle"} :
       /\ Arrival(arrived)
       /\ arrived => readable
       /\ readable => ~fail
       /\ ~assertsOn => verified = "idle"
       /\ pc' = IF readable THEN IF file = "cyclic" THEN "idle" ELSE "ndb"
                ELSE IF assertsOn /\ fail THEN "aborted" ELSE verified
  /\ UNCHANGED <<env, open, objects, reads>>

\* Mutant of LoadAborts: a load does not look at the stream.
LoadAbortsNever(arrived) == FALSE

\* With assertions a load ends on the first bytes that do not arrive.
LoadAborts(arrived) == assertsOn /\ ~arrived

\* Mutant of BuildNDB: the new NDB is not kept.
BuildNDBUnset ==
  /\ pc = "ndb"
  /\ \E arrived \in BOOLEAN :
       /\ Arrival(arrived)
       /\ pc' = IF LoadAborts(arrived) \/ (assertsOn /\ file = "lacking")
                THEN "aborted" ELSE "ltp"
  /\ UNCHANGED <<env, open, objects, reads>>

\* new NDB, then m_ndb.reset.  With assertions verify() asserts the store, the
\* name map and the root folder; without, pages that came short are empty.
BuildNDB ==
  /\ pc = "ndb"
  /\ \E arrived \in BOOLEAN :
       /\ Arrival(arrived)
       /\ IF LoadAborts(arrived) \/ (assertsOn /\ file = "lacking")
          THEN pc' = "aborted" /\ UNCHANGED ndb
          ELSE pc' = "ltp" /\ ndb' = reads
  /\ UNCHANGED <<env, open, ltp, msg, folders, reads>>

BuildLTP ==
  /\ pc = "ltp"
  /\ ltp' = [of |-> reads, ndb |-> ndb]
  /\ pc' = "messaging"
  /\ UNCHANGED <<env, open, fail, ndb, msg, folders, reads>>

\* new Messaging: the store and the root folder with all of its subfolders.
\* value() and at() throw on what the NDB does not find.
BuildMessaging ==
  /\ pc = "messaging"
  /\ \/ /\ ~fail /\ file = "good"              \* every load arrives
        /\ msg' = [of |-> reads, ndb |-> ndb, ltp |-> ltp.of]
        /\ pc' = "idle" /\ UNCHANGED fail
     \/ /\ fail \/ cut                         \* a load does not
        /\ fail' = TRUE /\ UNCHANGED msg
        /\ IF LoadAborts(FALSE) THEN pc' = "aborted"
           ELSE pc' \in {"idle", "undefined"}
     \/ /\ file = "lacking"                     \* an entry is not found
        /\ pc' = IF assertsOn THEN "aborted" ELSE "idle"
        /\ UNCHANGED <<fail, msg>>
  /\ UNCHANGED <<env, open, ndb, ltp, folders, reads>>

-----------------------------------------------------------------------------
(* The program and the file. *)

\* getFolder dereferences m_msg.
GetFolder ==
  /\ pc = "idle"
  /\ IF msg = None THEN pc' = "undefined" /\ UNCHANGED folders
                   ELSE folders' = folders \cup {msg.of} /\ UNCHANGED pc
  /\ UNCHANGED <<env, open, fail, ndb, ltp, msg, reads>>

\* The folder is in the m_msg it came from, and refers to an NDB that lives.
Valid(f) == msg # None /\ msg.of = f /\ msg.ndb = ndb /\ ltp # None /\ msg.ltp = ltp.of

\* folder->getNMessages: load some messages through the folder's NDB.  Without
\* assertions bytes that do not arrive may also leave messages that lack parts, or
\* make at() and value() throw.
GetMessages(f) ==
  /\ pc = "idle" /\ f \in folders
  /\ \E arrived \in BOOLEAN :
       /\ Arrival(arrived)
       /\ \/ ~Valid(f) /\ pc' = "undefined"
          \/ Valid(f) /\ arrived /\ pc' = "idle"
          \/ Valid(f) /\ ~arrived /\ LoadAborts(arrived) /\ pc' = "aborted"
          \/ Valid(f) /\ ~arrived /\ ~LoadAborts(arrived) /\ pc' \in {"idle", "undefined"}
  /\ UNCHANGED <<env, open, objects, reads>>

\* Others write, replace, delete and cut the file.  What is open stays the file
\* it was, except that it can be cut.
FileChanges(f, isCut) ==
  /\ pc \notin {"aborted", "undefined"}
  /\ open => f = file /\ (cut => isCut)
  /\ file' = f /\ cut' = isCut
  /\ UNCHANGED <<assertsOn, open, fail, objects, pc, reads>>

Next ==
  \/ Read \/ Open \/ Header \/ BuildNDB \/ BuildLTP \/ BuildMessaging
  \/ GetFolder
  \/ \E f \in folders : GetMessages(f)
  \/ \E f \in Files, isCut \in BOOLEAN : FileChanges(f, isCut)

Spec == Init /\ [][Next]_vars

-----------------------------------------------------------------------------
\* However often read() is called, and wherever it throws, every pointer that
\* getFolder() gave out points into the Messaging object of the reader, and
\* that object's references are to the NDB and the LTP of the reader.
FoldersStayValid == pc = "idle" => \A f \in folders : Valid(f)

\* The read() that opens the file is the only one that can succeed: once it has
\* returned or thrown, the reader keeps the Messaging object it has, or none.
FirstOpenDecides ==
  \A m \in Messaging \cup {None} :
     []((open /\ pc = "idle" /\ msg = m) => []((pc = "idle") => msg = m))

\* With assertions the only undefined behaviour is to ask for a folder when no
\* read() has got past the header, let alone returned: a file that has an NDB
\* without the store aborts first, and zeros never reach the layers above.
UndefinedOnlyUnread == (assertsOn /\ pc = "undefined") => msg = None /\ ndb = None
=============================================================================
