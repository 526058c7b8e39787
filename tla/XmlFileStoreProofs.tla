-------------------------- MODULE XmlFileStoreProofs --------------------------
(***************************************************************************)
(* Theorems about XmlFileStore.  The argument for the lock: call a process *)
(* a holder when m_lockfile is set, or when its user has just decided to   *)
(* break an abandoned lock.  There is at most one holder and while there   *)
(* is one the lock file exists, because a lock file is only created when   *)
(* there is none, only broken when nobody holds it, and only removed by    *)
(* its holder; a crash leaves it behind.  Whoever writes is a holder.      *)
(*                                                                         *)
(* The argument for the data: as one process writes at a time, what it     *)
(* knows of the data file stays true until it changes it.  A save has the  *)
(* whole book in its temporary file before it unlinks the data file, and   *)
(* that file is not removed until the data file is there again; a crash    *)
(* leaves it behind.  So one of the two holds what was last saved.         *)
(***************************************************************************)
EXTENDS XmlFileStore, TLAPS

Holder(p) ==
    \/ session[p].lockfile
    \/ session[p].at = "checked" /\ session[p].mode = "break"

\* Where a session can be without having the lock, and with it.
LockStates ==
    \A p \in Process :
        /\ session[p].lockfile =>
              /\ session[p].at \notin {"none", "checked", "asked"}
              /\ session[p].mode # "read_only"
        /\ session[p].at = "checked" => session[p].mode # "read_only"
        /\ Writer(p) => session[p].lockfile

LockInv ==
    /\ LockStates
    /\ Breaks = "dead" =>
          /\ \A p \in Process : Holder(p) => lock # None
          /\ \A p, q \in Process : Holder(p) /\ Holder(q) => p = q

-----------------------------------------------------------------------------
(* The values the operators build have their types.                        *)

LEMMA SessionUpdates ==
    ASSUME NEW r \in Session
    PROVE  /\ \A x \in At : [r EXCEPT !.at = x] \in Session
           /\ \A x \in {"normal", "read_only", "break", "new", "overwrite"} :
                 [r EXCEPT !.mode = x] \in Session
           /\ \A x \in BOOLEAN : [r EXCEPT !.saveas = x] \in Session
           /\ \A x \in BOOLEAN : [r EXCEPT !.lockfile = x] \in Session
           /\ \A x \in BOOLEAN : [r EXCEPT !.dirty = x] \in Session
           /\ \A x \in Nat : [r EXCEPT !.book = x] \in Session
           /\ \A x \in File \cup {None} : [r EXCEPT !.tmp = x] \in Session
BY DEF Session

LEMMA NoSessionType == NoSession \in Session
BY DEF NoSession, Session, At

\* What Becomes says of the sessions, typed.
LEMMA BecomesType ==
    ASSUME StoreTypes, NEW p \in Process, NEW r \in Session, Becomes(p, r)
    PROVE  /\ session' \in [Process -> Session]
           /\ session'[p] = r
           /\ \A q \in Process : q # p => session'[q] = session[q]
BY DEF StoreTypes, Becomes

LEMMA MoveType ==
    ASSUME StoreTypes, NEW p \in Process, NEW at \in At, Move(p, at)
    PROVE  /\ session' \in [Process -> Session]
           /\ session'[p] = [session[p] EXCEPT !.at = at]
           /\ \A q \in Process : q # p => session'[q] = session[q]
<1>1. session[p] \in Session
  BY DEF StoreTypes
<1>2. [session[p] EXCEPT !.at = at] \in Session
  BY <1>1, SessionUpdates
<1>3. Becomes(p, [session[p] EXCEPT !.at = at])
  BY DEF Move
<1>4. QED
  BY <1>2, <1>3, BecomesType

LEMMA ClockType == StoreTypes => clock \in Nat
BY XmlFileStoreAssumption DEF StoreTypes

LEMMA TempType ==
    ASSUME StoreTypes, NEW p \in Process, NEW whole \in BOOLEAN
    PROVE  Temp(p, whole) \in File
<1>1. session[p].book \in Nat
  BY DEF StoreTypes, Session
<1>2. QED
  BY <1>1, ClockType DEF Temp, File

\* What link_or_make_backup makes of a file is a file.
LEMMA LinkOrCopyType ==
    ASSUME StoreTypes, NEW f \in File, NEW r \in LinkOrCopy(f)
    PROVE  r.file \in File
<1>1. \A x \in File : [x EXCEPT !.mtime = clock] \in File
  BY ClockType DEF File
<1>2. \A x \in File : [x EXCEPT !.whole = FALSE] \in File
  BY DEF File
<1>3. CASE linkable
  BY <1>3 DEF LinkOrCopy
<1>4. CASE ~linkable
  <2> DEFINE a == [f EXCEPT !.mtime = clock]
             b == [f EXCEPT !.mtime = clock, !.whole = FALSE]
  <2>1. r \in {[file |-> a, ok |-> TRUE], [file |-> b, ok |-> TRUE],
              [file |-> b, ok |-> FALSE]}
    BY <1>4 DEF LinkOrCopy
  <2>2. a \in File /\ b \in File
    BY <1>1, <1>2
  <2> HIDE DEF a, b
  <2>3. QED
    BY <2>1, <2>2
<1>5. QED
  BY <1>3, <1>4

\* A save that gives up.
LEMMA GiveUpType ==
    ASSUME StoreTypes, NEW p \in Process, GiveUp(p)
    PROVE  /\ session' \in [Process -> Session]
           /\ session'[p] = [session[p] EXCEPT !.at = "sweep", !.tmp = None]
           /\ \A q \in Process : q # p => session'[q] = session[q]
           /\ leftover' \subseteq Nat
<1>1. session[p] \in Session /\ session[p].book \in Nat
  BY DEF StoreTypes, Session
<1>2. [session[p] EXCEPT !.at = "sweep", !.tmp = None] \in Session
  BY <1>1, SessionUpdates DEF At
<1>3. leftover' \subseteq Nat
  BY <1>1 DEF GiveUp, StoreTypes
<1>4. QED
  BY <1>2, <1>3, BecomesType DEF GiveUp

-----------------------------------------------------------------------------
(* Every step keeps the types.                                             *)

\* A step of process p keeps TempStates if it does for p.
LEMMA TempKept ==
    ASSUME StoreTypeOK, NEW p \in Process,
           \A q \in Process : q # p => session'[q] = session[q],
           TempFits(session'[p])
    PROVE  TempStates'
BY DEF StoreTypeOK, TempStates

LEMMA InitStore == Init => StoreTypeOK
<1> SUFFICES ASSUME Init PROVE StoreTypeOK
  OBVIOUS
<1>1. data \in File \cup {None} /\ saved \in Nat
  <2>1. [book |-> 1, whole |-> TRUE, mtime |-> 0] \in File
    BY DEF File
  <2>2. CASE data = None /\ saved = 0
    BY <2>2
  <2>3. CASE data = [book |-> 1, whole |-> TRUE, mtime |-> 0] /\ saved = 1
    BY <2>1, <2>3
  <2>4. QED
    BY <2>2, <2>3, Zenon DEF Init
<1>2. session \in [Process -> Session]
  BY NoSessionType DEF Init
<1>3. TempStates
  BY DEF Init, TempStates, TempFits, NoSession
<1>4. clock \in 0 .. MaxClock /\ backup \in [0 .. MaxClock -> File \cup {None}]
  BY XmlFileStoreAssumption DEF Init
<1>5. QED
  BY <1>1, <1>2, <1>3, <1>4 DEF Init, StoreTypeOK, StoreTypes

\* The actions that open and close the file.
LEMMA OpenStore ==
    ASSUME StoreTypeOK, NEW p \in Process,
           \/ \E mode \in {"normal", "read_only", "new", "overwrite"} : CheckPath(p, mode)
           \/ GetFileLock(p) \/ Answer(p) \/ Load(p) \/ SwapData(p)
           \/ Edit(p) \/ Sync(p) \/ Quit(p) \/ SessionEnd(p) \/ Crash(p)
    PROVE  StoreTypeOK'
<1> USE DEF At
<1>1. StoreTypes /\ session[p] \in Session /\ TempFits(session[p])
  BY DEF StoreTypeOK, StoreTypes, TempStates
<1>0. ASSUME NEW r \in Session, Becomes(p, r), r.tmp = None,
             r.at \notin {"writing", "written", "unlinked", "linked"}
      PROVE  session' \in [Process -> Session] /\ TempStates'
  <2>1. TempFits(r)
    BY <1>0 DEF TempFits
  <2>2. QED
    BY <1>0, <1>1, <2>1, BecomesType, TempKept
<1>2. ASSUME NEW mode \in {"normal", "read_only", "new", "overwrite"}, CheckPath(p, mode)
      PROVE  StoreTypeOK'
  <2> DEFINE r == [NoSession EXCEPT
                     !.at = IF mode = "read_only" THEN "begun" ELSE "checked",
                     !.mode = mode, !.saveas = mode \in {"new", "overwrite"}]
  <2>1. r \in Session /\ r.at \in {"begun", "checked"} /\ r.tmp = None
    <3> DEFINE x == IF mode = "read_only" THEN "begun" ELSE "checked"
               b == mode \in {"new", "overwrite"}
    <3>1. x \in {"begun", "checked"} /\ b \in BOOLEAN
      OBVIOUS
    <3> HIDE DEF x, b
    <3>2. /\ [NoSession EXCEPT !.at = x, !.mode = mode, !.saveas = b] \in Session
          /\ [NoSession EXCEPT !.at = x, !.mode = mode, !.saveas = b].at = x
          /\ [NoSession EXCEPT !.at = x, !.mode = mode, !.saveas = b].tmp = None
      BY <3>1 DEF NoSession, Session
    <3>3. r = [NoSession EXCEPT !.at = x, !.mode = mode, !.saveas = b]
      BY Zenon DEF x, b
    <3>4. QED
      BY <3>1, <3>2, <3>3
  <2>2. Becomes(p, r)
    BY <1>2 DEF CheckPath
  <2> HIDE DEF r
  <2>3. QED
    BY <1>0, <1>1, <1>2, <2>1, <2>2 DEF CheckPath, StoreTypeOK, StoreTypes
<1>3. ASSUME GetFileLock(p) PROVE StoreTypeOK'
  <2> DEFINE r == [session[p] EXCEPT !.at = "begun", !.lockfile = TRUE]
  <2>1. r \in Session /\ r.at = "begun" /\ r.tmp = None
    <3>1. r.at = "begun" /\ r.tmp = None
      BY <1>1, <1>3 DEF Session, GetFileLock, TempFits
    <3>2. QED
      BY <1>1, <3>1, SessionUpdates
  <2>9. session[p].tmp = None
    BY <1>1, <1>3 DEF GetFileLock, TempFits
  <2>2. \A x \in At : /\ [session[p] EXCEPT !.at = x].at = x
                       /\ [session[p] EXCEPT !.at = x].tmp = None
                       /\ [session[p] EXCEPT !.at = x] \in Session
    <3>1. \A x \in At : [session[p] EXCEPT !.at = x].at = x
      BY <1>1 DEF Session
    <3>2. \A x \in At : [session[p] EXCEPT !.at = x].tmp = None
      BY <1>1, <2>9 DEF Session
    <3>3. QED
      BY <1>1, <3>1, <3>2, SessionUpdates
  <2>3. \/ Becomes(p, r)
        \/ \E x \in {"asked", "ending"} : Move(p, x)
    BY <1>3 DEF GetFileLock
  <2>4. lock' \in Process \cup {None}
    BY <1>1, <1>3 DEF GetFileLock, StoreTypes
  <2> HIDE DEF r
  <2>5. session' \in [Process -> Session] /\ TempStates'
    <3>1. CASE Becomes(p, r)
      BY <1>0, <2>1, <3>1
    <3>2. ASSUME NEW x \in {"asked", "ending"}, Move(p, x)
          PROVE  session' \in [Process -> Session] /\ TempStates'
      BY <1>0, <2>2, <3>2 DEF Move
    <3>3. QED
      BY <2>3, <3>1, <3>2
  <2>6. QED
    BY <1>1, <1>3, <2>4, <2>5 DEF GetFileLock, StoreTypeOK, StoreTypes
<1>4. ASSUME Answer(p) PROVE StoreTypeOK'
  <2> DEFINE r == [session[p] EXCEPT !.at = "begun", !.mode = "read_only"]
             b == [session[p] EXCEPT !.at = "checked", !.mode = "break"]
             e == [session[p] EXCEPT !.at = "ending"]
  <2>0. /\ r.at = "begun" /\ b.at = "checked" /\ e.at = "ending"
        /\ r.tmp = None /\ b.tmp = None /\ e.tmp = None
    BY <1>1, <1>4 DEF Session, Answer, TempFits
  <2>1. r \in Session /\ b \in Session /\ e \in Session
    BY <1>1, SessionUpdates
  <2>2. Becomes(p, r) \/ Becomes(p, b) \/ Becomes(p, e)
    BY <1>4 DEF Answer, Move
  <2> HIDE DEF r, b, e
  <2>3. session' \in [Process -> Session] /\ TempStates'
    BY <1>0, <2>0, <2>1, <2>2
  <2>4. QED
    BY <1>1, <1>4, <2>3 DEF Answer, StoreTypeOK, StoreTypes
<1>5. ASSUME Load(p) PROVE StoreTypeOK'
  <2> DEFINE r == [session[p] EXCEPT !.at = "open", !.book = data.book]
             e == [session[p] EXCEPT !.at = "ending"]
  <2>1. data # None => data.book \in Nat
    BY <1>1 DEF StoreTypes, File
  <2>2. /\ data # None => r \in Session
        /\ e \in Session
    BY <1>1, <2>1, SessionUpdates
  <2>3. r.at = "open" /\ e.at = "ending" /\ r.tmp = None /\ e.tmp = None
    BY <1>1, <1>5 DEF Session, Load, TempFits
  <2>4. (Becomes(p, r) /\ data # None) \/ Becomes(p, e)
    BY <1>5 DEF Load, Move
  <2> HIDE DEF r, e
  <2>5. session' \in [Process -> Session] /\ TempStates'
    BY <1>0, <2>2, <2>3, <2>4
  <2>6. QED
    BY <1>1, <1>5, <2>5 DEF Load, StoreTypeOK, StoreTypes
<1>6. ASSUME SwapData(p) \/ Edit(p) PROVE StoreTypeOK'
  <2> DEFINE r == [session[p] EXCEPT !.at = "backup", !.book = version + 1, !.dirty = TRUE]
             e == [session[p] EXCEPT !.book = version + 1, !.dirty = TRUE]
  <2>1. version + 1 \in Nat
    BY <1>1 DEF StoreTypes
  <2>2. r \in Session /\ e \in Session
    BY <1>1, <2>1, SessionUpdates
  <2>3. r.at = "backup" /\ e.at = session[p].at /\ r.tmp = None /\ e.tmp = None
    BY <1>1, <1>6 DEF Session, SwapData, Edit, TempFits
  <2>4. Becomes(p, r) \/ (Becomes(p, e) /\ session[p].at = "open")
    <3>1. CASE SwapData(p)
      BY <3>1, Zenon DEF SwapData
    <3>2. CASE Edit(p)
      BY <3>2, Zenon DEF Edit
    <3>3. QED
      BY <1>6, <3>1, <3>2
  <2> HIDE DEF r, e
  <2>5. session' \in [Process -> Session] /\ TempStates'
    BY <1>0, <2>2, <2>3, <2>4
  <2>6. QED
    BY <1>1, <1>6, <2>1, <2>5 DEF SwapData, Edit, StoreTypeOK, StoreTypes
<1>7. ASSUME Sync(p) \/ Quit(p) PROVE StoreTypeOK'
  <2>9. session[p].tmp = None
    BY <1>1, <1>7 DEF Sync, Quit, TempFits
  <2>1. \A x \in At : /\ [session[p] EXCEPT !.at = x].at = x
                       /\ [session[p] EXCEPT !.at = x].tmp = None
                       /\ [session[p] EXCEPT !.at = x] \in Session
    <3>1. \A x \in At : [session[p] EXCEPT !.at = x].at = x
      BY <1>1 DEF Session
    <3>2. \A x \in At : [session[p] EXCEPT !.at = x].tmp = None
      BY <1>1, <2>9 DEF Session
    <3>3. QED
      BY <1>1, <3>1, <3>2, SessionUpdates
  <2>2. Move(p, "backup") \/ Move(p, "ending")
    BY <1>7 DEF Sync, Quit
  <2>3. session' \in [Process -> Session] /\ TempStates'
    BY <1>0, <2>1, <2>2 DEF Move
  <2>4. QED
    BY <1>1, <1>7, <2>3 DEF Sync, Quit, StoreTypeOK, StoreTypes
<1>8. ASSUME SessionEnd(p) \/ Crash(p) PROVE StoreTypeOK'
  <2>1. Becomes(p, NoSession)
    BY <1>8 DEF SessionEnd, Crash
  <2>2. NoSession.at = "none" /\ NoSession.tmp = None
    BY DEF NoSession
  <2>3. session' \in [Process -> Session] /\ TempStates'
    BY <1>0, <2>1, <2>2, NoSessionType
  <2>4. session[p].tmp # None => session[p].tmp.book \in Nat
    BY <1>1 DEF Session, File
  <2>5. leftover' \subseteq Nat /\ lock' \in Process \cup {None}
    BY <1>1, <1>8, <2>4 DEF SessionEnd, Crash, StoreTypes
  <2>6. QED
    BY <1>1, <1>8, <2>3, <2>5 DEF SessionEnd, Crash, StoreTypeOK, StoreTypes
<1>9. QED
  BY <1>2, <1>3, <1>4, <1>5, <1>6, <1>7, <1>8

\* The actions of a save.
LEMMA SaveStore ==
    ASSUME StoreTypeOK, NEW p \in Process,
           \/ BackupFile(p) \/ OpenTemp(p) \/ WriteTemp(p) \/ UnlinkData(p)
           \/ LinkTemp(p) \/ UnlinkTemp(p) \/ RemoveOldFiles(p)
    PROVE  StoreTypeOK'
<1> USE DEF At
<1>1. StoreTypes /\ session[p] \in Session /\ TempFits(session[p])
  BY DEF StoreTypeOK, StoreTypes, TempStates
<1>2. ASSUME NEW x \in At, Move(p, x), TempFits([session[p] EXCEPT !.at = x])
      PROVE  session' \in [Process -> Session] /\ TempStates'
  BY <1>1, <1>2, MoveType, TempKept
<1>11. \A x \in At : /\ [session[p] EXCEPT !.at = x].at = x
                     /\ [session[p] EXCEPT !.at = x].tmp = session[p].tmp
  BY <1>1 DEF Session
<1>3. ASSUME GiveUp(p)
      PROVE  session' \in [Process -> Session] /\ TempStates' /\ leftover' \subseteq Nat
  <2>1. TempFits([session[p] EXCEPT !.at = "sweep", !.tmp = None])
    BY <1>1 DEF Session, TempFits
  <2>2. QED
    BY <1>1, <1>3, <2>1, GiveUpType, TempKept
<1>4. ASSUME BackupFile(p) PROVE StoreTypeOK'
  <2>1. Move(p, "write") \/ Move(p, "sweep")
    BY <1>4 DEF BackupFile
  <2>2. backup' \in [0 .. MaxClock -> File \cup {None}]
    BY <1>1, <1>4, LinkOrCopyType DEF BackupFile, StoreTypes
  <2>3. session[p].tmp = None
    BY <1>1, <1>4 DEF BackupFile, TempFits
  <2>4. session' \in [Process -> Session] /\ TempStates'
    BY <1>2, <1>11, <2>1, <2>3 DEF TempFits
  <2>5. QED
    BY <1>1, <1>4, <2>2, <2>4 DEF BackupFile, StoreTypeOK, StoreTypes
<1>5. ASSUME OpenTemp(p) \/ WriteTemp(p) PROVE StoreTypeOK'
  <2> DEFINE r == [session[p] EXCEPT !.at = "writing", !.tmp = Temp(p, FALSE)]
             w == [session[p] EXCEPT !.at = "written", !.tmp = Temp(p, TRUE)]
             e == [session[p] EXCEPT !.at = "sweep", !.tmp = None]
  <2>1. Temp(p, FALSE) \in File /\ Temp(p, TRUE) \in File
    BY <1>1, TempType
  <2>2. r \in Session /\ w \in Session /\ e \in Session
    BY <1>1, <2>1, SessionUpdates
  <2>3. TempFits(r) /\ TempFits(w) /\ TempFits(e)
    BY <1>1, <2>1 DEF Session, TempFits, Temp
  <2>4. \/ Move(p, "sweep") /\ session[p].tmp = None
        \/ Becomes(p, r) \/ Becomes(p, w) \/ Becomes(p, e)
    BY <1>1, <1>5 DEF OpenTemp, WriteTemp, TempFits
  <2> HIDE DEF r, w, e
  <2>5. session' \in [Process -> Session] /\ TempStates'
    <3>1. CASE Move(p, "sweep") /\ session[p].tmp = None
      BY <1>2, <1>11, <3>1 DEF TempFits
    <3>2. CASE Becomes(p, r) \/ Becomes(p, w) \/ Becomes(p, e)
      BY <1>1, <2>2, <2>3, <3>2, BecomesType, TempKept
    <3>3. QED
      BY <2>4, <3>1, <3>2
  <2>6. QED
    BY <1>1, <1>5, <2>5 DEF OpenTemp, WriteTemp, StoreTypeOK, StoreTypes
<1>6. ASSUME UnlinkData(p) PROVE StoreTypeOK'
  <2>1. session[p].tmp \in File
    BY <1>6 DEF StoreTypeOK, TempStates, TempFits, UnlinkData
  <2>4. Move(p, "unlinked") => TempFits([session[p] EXCEPT !.at = "unlinked"])
    BY <1>1, <1>6, <1>11 DEF UnlinkData, TempFits
  <2>2. session' \in [Process -> Session] /\ TempStates' /\ leftover' \subseteq Nat
    BY <1>1, <1>2, <1>3, <1>6, <2>4 DEF UnlinkData, StoreTypes
  <2>3. QED
    BY <1>1, <1>6, <2>2 DEF UnlinkData, StoreTypeOK, StoreTypes
<1>7. ASSUME LinkTemp(p) PROVE StoreTypeOK'
  <2>1. session[p].tmp \in File
    BY <1>7 DEF StoreTypeOK, TempStates, TempFits, LinkTemp
  <2>2. data' \in File \cup {None}
    BY <1>1, <1>7, <2>1, LinkOrCopyType DEF LinkTemp, StoreTypes
  <2>3. GiveUp(p) \/ (Move(p, "linked") /\ UNCHANGED leftover)
    BY <1>7, Zenon DEF LinkTemp
  <2>6. TempFits([session[p] EXCEPT !.at = "linked"])
    BY <1>1, <1>7, <1>11 DEF LinkTemp, TempFits
  <2>4. session' \in [Process -> Session] /\ TempStates' /\ leftover' \subseteq Nat
    BY <1>1, <1>2, <1>3, <2>3, <2>6 DEF StoreTypes
  <2>5. QED
    BY <1>1, <1>7, <2>2, <2>4 DEF LinkTemp, StoreTypeOK, StoreTypes
<1>8. ASSUME UnlinkTemp(p) PROVE StoreTypeOK'
  <2> DEFINE r == [session[p] EXCEPT !.at = "sweep", !.tmp = None, !.dirty = FALSE]
  <2>0. r \in Session
    BY <1>1, SessionUpdates
  <2>1. r \in Session /\ session[p].book \in Nat
    BY <1>1, <2>0 DEF Session
  <2>2. TempFits(r)
    BY <1>1 DEF Session, TempFits
  <2>3. \/ GiveUp(p) /\ UNCHANGED saved
        \/ Becomes(p, r) /\ saved' = session[p].book /\ UNCHANGED leftover
    BY <1>8 DEF UnlinkTemp
  <2> HIDE DEF r
  <2>4. session' \in [Process -> Session] /\ TempStates'
    BY <1>1, <1>3, <2>1, <2>2, <2>3, BecomesType, TempKept
  <2>5. leftover' \subseteq Nat /\ saved' \in Nat
    BY <1>1, <1>3, <2>1, <2>3 DEF StoreTypes
  <2>6. QED
    BY <1>1, <1>8, <2>4, <2>5 DEF UnlinkTemp, StoreTypeOK, StoreTypes
<1>9. ASSUME RemoveOldFiles(p) PROVE StoreTypeOK'
  <2> DEFINE r == [session[p] EXCEPT !.at = "open", !.saveas = FALSE]
  <2>0. session[p].tmp = None
    BY <1>1, <1>9 DEF RemoveOldFiles, TempFits
  <2>1. r \in Session /\ TempFits(r)
    <3>1. r.at = "open" /\ r.tmp = None
      BY <1>1, <2>0 DEF Session
    <3>2. QED
      BY <1>1, <3>1, SessionUpdates DEF TempFits
  <2>2. Move(p, "ending") \/ Becomes(p, r)
    BY <1>9 DEF RemoveOldFiles
  <2>3. backup' \in [0 .. MaxClock -> File \cup {None}]
    BY <1>1, <1>9 DEF RemoveOldFiles, StoreTypes
  <2> HIDE DEF r
  <2>4. session' \in [Process -> Session] /\ TempStates'
    BY <1>1, <1>2, <1>11, <2>0, <2>1, <2>2, BecomesType, TempKept DEF TempFits
  <2>5. QED
    BY <1>1, <1>9, <2>3, <2>4 DEF RemoveOldFiles, StoreTypeOK, StoreTypes
<1>10. QED
  BY <1>4, <1>5, <1>6, <1>7, <1>8, <1>9

LEMMA StepStore == StoreTypeOK /\ [Next]_vars => StoreTypeOK'
<1> SUFFICES ASSUME StoreTypeOK, [Next]_vars PROVE StoreTypeOK'
  OBVIOUS
<1>1. CASE Tick
  <2>1. clock' \in 0 .. MaxClock
    BY <1>1, XmlFileStoreAssumption DEF Tick, StoreTypeOK, StoreTypes
  <2>2. QED
    BY <1>1, <2>1 DEF Tick, StoreTypeOK, StoreTypes, TempStates
<1>2. CASE UNCHANGED vars
  BY <1>2 DEF vars, StoreTypeOK, StoreTypes, TempStates
<1>3. QED
  BY <1>1, <1>2, OpenStore, SaveStore DEF Next

\* The type invariant of the data file, its lock and its sessions.
THEOREM StoreTypeCorrect == Spec => []StoreTypeOK
<1>1. QED
  BY InitStore, StepStore, PTL DEF Spec

-----------------------------------------------------------------------------
(* Every step keeps LockInv.                                               *)

\* The places of a session that was let in.
Inside == At \ {"none", "checked", "asked", "ending"}

\* A step of p that changes neither what p may do nor whether it has the lock.
Unconcerned(p) ==
    /\ session[p].at \in Inside /\ session'[p].at \in Inside \cup {"ending"}
    /\ session'[p].mode = session[p].mode
    /\ session'[p].lockfile = session[p].lockfile
    /\ \A q \in Process : q # p => session'[q] = session[q]
    /\ UNCHANGED lock

\* A step after which p neither has a lock nor is about to break one.
LetGo(p) ==
    /\ ~session'[p].lockfile
    /\ session'[p].at \in {"none", "checked", "asked", "ending"} \/ session'[p].mode = "read_only"
    /\ session'[p].at = "checked" => session'[p].mode \notin {"break", "read_only"}
    /\ \A q \in Process : q # p => session'[q] = session[q]

LEMMA UnconcernedKeepsLock ==
    ASSUME LockInv, NEW p \in Process, Unconcerned(p)
    PROVE  LockInv'
<1>1. LockStates'
  BY DEF LockInv, LockStates, Unconcerned, Writer, Inside, At
<1>2. \A q \in Process : Holder(q)' => Holder(q)
  BY DEF Unconcerned, Holder, Inside, At
<1>3. QED
  BY <1>1, <1>2 DEF LockInv, Unconcerned

LEMMA LetGoKeepsLock ==
    ASSUME LockInv, NEW p \in Process, LetGo(p),
           lock' = lock \/ Holder(p)
    PROVE  LockInv'
<1>1. LockStates'
  BY DEF LockInv, LockStates, LetGo, Writer
<1>2. ~Holder(p)' /\ \A q \in Process : q # p => (Holder(q)' <=> Holder(q))
  BY DEF LetGo, Holder
<1>3. QED
  BY <1>1, <1>2 DEF LockInv

\* Session s is r at another place, with what r had of a lock.
SameRights(s, r, at) == s.at = at /\ s.mode = r.mode /\ s.lockfile = r.lockfile

LEMMA UpdatesKeepRights ==
    ASSUME NEW r \in Session
    PROVE  \A at, x, y :
             /\ SameRights([r EXCEPT !.book = x, !.dirty = y], r, r.at)
             /\ SameRights([r EXCEPT !.at = at], r, at)
             /\ SameRights([r EXCEPT !.at = at, !.book = x], r, at)
             /\ SameRights([r EXCEPT !.at = at, !.tmp = x], r, at)
             /\ SameRights([r EXCEPT !.at = at, !.saveas = x], r, at)
             /\ SameRights([r EXCEPT !.at = at, !.book = x, !.dirty = y], r, at)
             /\ SameRights([r EXCEPT !.at = at, !.tmp = x, !.dirty = y], r, at)
BY DEF Session, SameRights

LEMMA SameRightsUnconcerned ==
    ASSUME StoreTypes, NEW p \in Process, NEW r, NEW at \in Inside \cup {"ending"},
           Becomes(p, r), SameRights(r, session[p], at),
           session[p].at \in Inside, UNCHANGED lock
    PROVE  Unconcerned(p)
BY DEF StoreTypes, Becomes, SameRights, Unconcerned

\* What the actions of a session that was let in do.
LEMMA InsideKeepsLock ==
    ASSUME StoreTypes, LockInv, NEW p \in Process,
           \/ Load(p) \/ SwapData(p) \/ Edit(p) \/ Sync(p) \/ Quit(p)
           \/ BackupFile(p) \/ OpenTemp(p) \/ WriteTemp(p) \/ UnlinkData(p)
           \/ LinkTemp(p) \/ UnlinkTemp(p) \/ RemoveOldFiles(p)
    PROVE  LockInv'
<1>0. session[p] \in Session
  BY DEF StoreTypes
<1> USE <1>0, UpdatesKeepRights, SameRightsUnconcerned DEF Inside, At, Move, GiveUp
<1>1. Load(p) => Unconcerned(p)
  BY DEF Load
<1>2. SwapData(p) => Unconcerned(p)
  BY DEF SwapData
<1>3. Edit(p) => Unconcerned(p)
  BY DEF Edit
<1>4. Sync(p) => Unconcerned(p)
  BY DEF Sync
<1>5. Quit(p) => Unconcerned(p)
  BY DEF Quit
<1>6. BackupFile(p) => Unconcerned(p)
  BY DEF BackupFile
<1>7. OpenTemp(p) => Unconcerned(p)
  BY DEF OpenTemp
<1>8. WriteTemp(p) => Unconcerned(p)
  BY DEF WriteTemp
<1>9. UnlinkData(p) => Unconcerned(p)
  BY DEF UnlinkData
<1>10. LinkTemp(p) => Unconcerned(p)
  BY DEF LinkTemp
<1>11. UnlinkTemp(p) => Unconcerned(p)
  BY DEF UnlinkTemp
<1>12. RemoveOldFiles(p) => Unconcerned(p)
  BY DEF RemoveOldFiles
<1>13. QED
  BY <1>1, <1>2, <1>3, <1>4, <1>5, <1>6, <1>7, <1>8, <1>9,
     <1>10, <1>11, <1>12, UnconcernedKeepsLock

\* What a step that only updates the session of p leaves it with.
Left(p, at, mode, lockfile) ==
    /\ session'[p].at = at
    /\ session'[p].mode = mode
    /\ session'[p].lockfile = lockfile
    /\ \A q \in Process : q # p => session'[q] = session[q]

LEMMA BecomesLeft ==
    ASSUME StoreTypes, NEW p \in Process
    PROVE  /\ \A at : Move(p, at) => Left(p, at, session[p].mode, session[p].lockfile)
           /\ Becomes(p, [session[p] EXCEPT !.at = "begun", !.lockfile = TRUE])
                => Left(p, "begun", session[p].mode, TRUE)
           /\ Becomes(p, [session[p] EXCEPT !.at = "begun", !.mode = "read_only"])
                => Left(p, "begun", "read_only", session[p].lockfile)
           /\ Becomes(p, [session[p] EXCEPT !.at = "checked", !.mode = "break"])
                => Left(p, "checked", "break", session[p].lockfile)
<1>1. session[p] \in Session
  BY DEF StoreTypes
<1>2. ASSUME NEW r, Becomes(p, r)
      PROVE  session'[p] = r /\ \A q \in Process : q # p => session'[q] = session[q]
  BY <1>2 DEF StoreTypes, Becomes
<1> DEFINE at(x) == [session[p] EXCEPT !.at = x]
           locked == [session[p] EXCEPT !.at = "begun", !.lockfile = TRUE]
           as(x, y) == [session[p] EXCEPT !.at = x, !.mode = y]
<1>3. /\ locked.at = "begun" /\ locked.mode = session[p].mode /\ locked.lockfile = TRUE
      /\ \A x : /\ at(x).at = x /\ at(x).mode = session[p].mode
                /\ at(x).lockfile = session[p].lockfile
      /\ \A x, y : /\ as(x, y).at = x /\ as(x, y).mode = y
                   /\ as(x, y).lockfile = session[p].lockfile
  BY <1>1 DEF Session
<1>4. \A x : Move(p, x) => Becomes(p, at(x))
  BY DEF Move
<1> HIDE DEF at, locked, as
<1>5. ASSUME NEW r, Becomes(p, r) PROVE Left(p, r.at, r.mode, r.lockfile)
  BY <1>2, <1>5 DEF Left
<1>6. /\ \A x : Becomes(p, at(x)) => Left(p, x, session[p].mode, session[p].lockfile)
      /\ Becomes(p, locked) => Left(p, "begun", session[p].mode, TRUE)
      /\ \A x, y : Becomes(p, as(x, y)) => Left(p, x, y, session[p].lockfile)
  <2>1. ASSUME NEW x, Becomes(p, at(x)) PROVE Left(p, x, session[p].mode, session[p].lockfile)
    <3>1. Left(p, at(x).at, at(x).mode, at(x).lockfile)
      BY <1>5, <2>1
    <3>2. QED
      BY <1>3, <3>1
  <2>2. Becomes(p, locked) => Left(p, "begun", session[p].mode, TRUE)
    BY <1>3, <1>5
  <2>3. ASSUME NEW x, NEW y, Becomes(p, as(x, y)) PROVE Left(p, x, y, session[p].lockfile)
    <3>1. Left(p, as(x, y).at, as(x, y).mode, as(x, y).lockfile)
      BY <1>5, <2>3
    <3>2. QED
      BY <1>3, <3>1
  <2>4. QED
    BY <2>1, <2>2, <2>3
<1>7. QED
  BY <1>4, <1>6 DEF locked, as

\* The lock is created only when no session has it.
LEMMA GetFileLockKeepsLock ==
    ASSUME StoreTypes, LockInv, NEW p \in Process, GetFileLock(p)
    PROVE  LockInv'
<1>1. ~session[p].lockfile /\ session[p].mode # "read_only"
  BY DEF LockInv, LockStates, GetFileLock
<1>2. \/ /\ Left(p, "begun", session[p].mode, TRUE)
         /\ \/ lock = None /\ lock' = p
            \/ lock # None /\ session[p].mode = "break" /\ lock' = lock
      \/ /\ \/ Left(p, "asked", session[p].mode, session[p].lockfile)
            \/ Left(p, "ending", session[p].mode, session[p].lockfile)
         /\ lock' = lock
  <2>1. \/ /\ Becomes(p, [session[p] EXCEPT !.at = "begun", !.lockfile = TRUE])
           /\ \/ lock = None /\ lock' = p
              \/ lock # None /\ session[p].mode = "break" /\ lock' = lock
        \/ /\ Move(p, "asked") \/ Move(p, "ending")
           /\ lock' = lock
    BY DEF GetFileLock
  <2>2. QED
    BY <2>1, BecomesLeft
<1>3. CASE /\ Left(p, "begun", session[p].mode, TRUE)
           /\ \/ lock = None /\ lock' = p
              \/ lock # None /\ session[p].mode = "break" /\ lock' = lock
  <2>1. LockStates'
    BY <1>1, <1>3 DEF LockInv, LockStates, Left, Writer
  <2>2. /\ lock' # None
        /\ lock = None \/ Holder(p)
    BY <1>3, XmlFileStoreAssumption DEF GetFileLock, Holder
  <2>3. \A q \in Process : q # p => (Holder(q)' <=> Holder(q))
    BY <1>3 DEF Left, Holder
  <2>4. QED
    BY <2>1, <2>2, <2>3 DEF LockInv
<1>4. CASE /\ \/ Left(p, "asked", session[p].mode, session[p].lockfile)
              \/ Left(p, "ending", session[p].mode, session[p].lockfile)
           /\ lock' = lock
  <2>1. LetGo(p)
    BY <1>1, <1>4 DEF Left, LetGo
  <2>2. QED
    BY <1>4, <2>1, LetGoKeepsLock
<1>5. QED
  BY <1>2, <1>3, <1>4

\* A lock is broken only when no session has it or is about to break it.
LEMMA AnswerKeepsLock ==
    ASSUME StoreTypes, LockInv, NEW p \in Process, Answer(p)
    PROVE  LockInv'
<1>1. ~session[p].lockfile /\ lock' = lock
  BY DEF LockInv, LockStates, Answer
<1>2. \/ Left(p, "ending", session[p].mode, session[p].lockfile)
      \/ Left(p, "begun", "read_only", session[p].lockfile)
      \/ /\ Left(p, "checked", "break", session[p].lockfile)
         /\ Breaks = "any" \/ Abandoned
  BY BecomesLeft DEF Answer
<1>3. CASE \/ Left(p, "ending", session[p].mode, session[p].lockfile)
           \/ Left(p, "begun", "read_only", session[p].lockfile)
  <2>1. LetGo(p)
    BY <1>1, <1>3 DEF Left, LetGo
  <2>2. QED
    BY <1>1, <2>1, LetGoKeepsLock
<1>4. CASE /\ Left(p, "checked", "break", session[p].lockfile)
           /\ Breaks = "any" \/ Abandoned
  <2>1. LockStates'
    BY <1>1, <1>4 DEF LockInv, LockStates, Left, Writer
  <2>2. Breaks = "dead" => lock # None /\ \A q \in Process : q # p => ~Holder(q)
    <3>1. Breaks = "dead" => Abandoned
      BY <1>4
    <3>2. \A q \in Process :
            session[q].at \in {"none", "asked"} \/ session[q].mode = "read_only" => ~Holder(q)
      BY DEF LockInv, LockStates, Holder
    <3>3. QED
      BY <3>1, <3>2 DEF Abandoned
  <2>3. \A q \in Process : q # p => (Holder(q)' <=> Holder(q))
    BY <1>4 DEF Left, Holder
  <2>4. QED
    BY <1>1, <2>1, <2>2, <2>3 DEF LockInv
<1>5. QED
  BY <1>2, <1>3, <1>4

LEMMA InitLock == Init => LockInv
BY DEF Init, LockInv, LockStates, Writer, Holder, NoSession

LEMMA StepLock == StoreTypeOK /\ LockInv /\ [Next]_vars => LockInv'
<1> SUFFICES ASSUME StoreTypes, LockInv, [Next]_vars PROVE LockInv'
  BY DEF StoreTypeOK
<1>1. ASSUME UNCHANGED vars \/ Tick PROVE LockInv'
  BY <1>1 DEF vars, Tick, LockInv, LockStates, Writer, Holder
<1>2. ASSUME NEW p \in Process,
             \E mode \in {"normal", "read_only", "new", "overwrite"} : CheckPath(p, mode)
      PROVE  LockInv'
  <2>1. LetGo(p) /\ lock' = lock
    BY <1>2 DEF StoreTypes, CheckPath, LetGo, Becomes, NoSession
  <2>2. QED
    BY <2>1, LetGoKeepsLock
<1>3. ASSUME NEW p \in Process, SessionEnd(p) \/ Crash(p) PROVE LockInv'
  <2>1. LetGo(p) /\ (lock' = lock \/ Holder(p))
    BY <1>3 DEF StoreTypes, SessionEnd, Crash, LetGo, Becomes, NoSession, Holder
  <2>2. QED
    BY <2>1, LetGoKeepsLock
<1>4. QED
  BY <1>1, <1>2, <1>3, InsideKeepsLock, GetFileLockKeepsLock, AnswerKeepsLock DEF Next

LEMMA LockHolds == Spec => []LockInv
BY InitStore, StepStore, InitLock, StepLock, PTL DEF Spec

\* get_file_lock, session_end: as long as users break only the locks of dead
\* processes, no two sessions may write the data file, whatever their number,
\* and however saves fail and processes crash.
THEOREM OneWriterHolds == Spec => []OneWriter
<1>1. LockInv => OneWriter
  BY DEF LockInv, LockStates, OneWriter, Holder
<1>2. QED
  BY <1>1, LockHolds, PTL

\* ... and a session that may write the file finds the lock file there.
THEOREM LockHeldHolds ==
    ASSUME Breaks = "dead"
    PROVE  Spec => []LockHeld
<1>1. LockInv => LockHeld
  BY DEF LockInv, LockStates, LockHeld, Holder
<1>2. QED
  BY <1>1, LockHolds, PTL

-----------------------------------------------------------------------------
(***************************************************************************)
(* What is saved.  The one writer knows what is on disk: once it has       *)
(* loaded or written the book nobody else changes the data file.  So a     *)
(* clean book is in the data file, a save that has unlinked the data file  *)
(* has the book complete in its temporary file, and the data file, while   *)
(* there is one, is no older than what was saved.  While there is none,    *)
(* what was saved is in a temporary file, of a save in progress or one     *)
(* left behind; backups are never needed for it.                           *)
(***************************************************************************)
Saving == {"backup", "write", "writing", "written", "unlinked", "linked"}

HasBook(b) == data # None /\ data.book = b /\ (linkable => data.whole)

SessionData(p) ==
    LET s == session[p] IN
    /\ s.at \in Saving \cup {"sweep"} \/ s.saveas => s.mode # "read_only"
    /\ s.at \in Saving \cup {"open", "sweep"} /\ s.mode # "read_only"
          => saved <= s.book /\ s.book <= version
    /\ s.at \in Saving => s.dirty
    /\ s.at \in {"open", "sweep"} /\ s.mode # "read_only" /\ ~s.dirty => HasBook(s.book)
    /\ s.at = "linked" => HasBook(s.book)
    /\ s.at \notin {"writing", "written", "unlinked", "linked"} => s.tmp = None
    /\ s.at = "writing" => ~s.tmp.whole
    /\ s.at \in {"written", "unlinked", "linked"} => s.tmp.whole /\ s.tmp.book = s.book

Kept ==
    \/ saved = 0
    \/ data # None
    \/ \E b \in leftover : saved <= b
    \/ \E p \in Process : session[p].tmp # None /\ session[p].tmp.whole
                          /\ saved <= session[p].tmp.book

DataInv ==
    /\ saved <= version
    /\ data # None => saved <= data.book /\ data.book <= version
                      /\ (linkable => data.whole)
    /\ \A p \in Process : SessionData(p)
    /\ Kept

LEMMA DataInvImplies ==
    ASSUME StoreTypes, DataInv
    PROVE  CleanIsOnDisk /\ SavedIsKept
<1>1. CleanIsOnDisk
  BY DEF DataInv, SessionData, CleanIsOnDisk, Writer, HasBook
<1>2. ASSUME linkable PROVE \E v \in OnDisk : saved <= v
  <2>1. CASE saved = 0
    BY <2>1 DEF OnDisk
  <2>2. CASE data # None
    BY <1>2, <2>2 DEF OnDisk, DataInv
  <2>3. CASE \E b \in leftover : saved <= b
    BY <2>3 DEF OnDisk
  <2>4. ASSUME NEW p \in Process, session[p].tmp # None, session[p].tmp.whole,
               saved <= session[p].tmp.book
        PROVE  \E v \in OnDisk : saved <= v
    BY <2>4 DEF OnDisk
  <2>5. QED
    BY <2>1, <2>2, <2>3, <2>4 DEF DataInv, Kept
<1>3. QED
  BY <1>1, <1>2 DEF SavedIsKept

LEMMA InitData == Init => DataInv
<1> SUFFICES ASSUME Init PROVE DataInv
  OBVIOUS
<1>1. \A p \in Process : SessionData(p)
  BY DEF Init, NoSession, SessionData, Saving
<1>2. CASE data = None /\ saved = 0
  BY <1>1, <1>2 DEF Init, DataInv, Kept
<1>3. CASE data = [book |-> 1, whole |-> TRUE, mtime |-> 0] /\ saved = 1
  <2>1. data # None /\ data.book = 1 /\ data.whole
    <3>1. data \in [book : Nat, whole : BOOLEAN, mtime : Nat] /\ data.book = 1 /\ data.whole
      BY <1>3
    <3>2. QED
      BY <3>1, XmlFileStoreAssumption
  <2>2. QED
    BY <1>1, <1>3, <2>1 DEF Init, DataInv, Kept
<1>4. QED
  BY <1>2, <1>3, Zenon DEF Init

\* The session of p, before and after a step that is its.
Only(p) == \A q \in Process : q # p => session'[q] = session[q]

\* Nobody else is concerned by what a writer does to the data file.
LEMMA OthersKeepData ==
    ASSUME StoreTypes, LockInv, DataInv, Breaks = "dead", NEW p \in Process, Only(p),
           version' \in Nat, version <= version', linkable' = linkable,
           (data' = data /\ saved' = saved) \/ Writer(p)
    PROVE  \A q \in Process : q # p => SessionData(q)'
<1> SUFFICES ASSUME NEW q \in Process, q # p PROVE SessionData(q)'
  OBVIOUS
<1>1. session'[q] = session[q] /\ SessionData(q) /\ session[q] \in Session
  BY DEF Only, DataInv, StoreTypes
<1>2. session[q].book \in Nat /\ version \in Nat
  BY <1>1 DEF Session, StoreTypes
<1>3. CASE data' = data /\ saved' = saved
  BY <1>1, <1>2, <1>3 DEF SessionData, HasBook
<1>4. CASE Writer(p)
  <2>1. ~ Writer(q)
    BY <1>4 DEF LockInv, LockStates, Holder
  <2>2. QED
    BY <1>1, <2>1 DEF SessionData, Writer, Saving
<1>5. QED
  BY <1>3, <1>4

\* Steps of p that neither touch the data file nor lose a temporary file.
LEMMA KeptAside ==
    ASSUME Kept, NEW p \in Process, Only(p), data' = data, saved' = saved,
           leftover \subseteq leftover',
           \/ session'[p].tmp = session[p].tmp
           \/ session[p].tmp = None
           \/ ~ session[p].tmp.whole
           \/ session[p].tmp.book \in leftover'
    PROVE  Kept'
BY DEF Kept, Only

\* The actions that leave all files and what is saved alone.
LEMMA OpenKeepsData ==
    ASSUME StoreTypeOK, LockInv, DataInv, Breaks = "dead", NEW p \in Process,
           \/ \E mode \in {"normal", "read_only", "new", "overwrite"} : CheckPath(p, mode)
           \/ GetFileLock(p) \/ Answer(p) \/ Load(p) \/ SwapData(p)
           \/ Edit(p) \/ Sync(p) \/ Quit(p) \/ SessionEnd(p)
    PROVE  DataInv'
<1>1. /\ StoreTypes /\ session[p] \in Session /\ SessionData(p)
      /\ version \in Nat /\ saved \in Nat /\ saved <= version
  BY DEF StoreTypeOK, StoreTypes, DataInv
<1>2. /\ UNCHANGED <<linkable, data, leftover, saved>>
      /\ version' \in Nat /\ version <= version'
  BY <1>1 DEF CheckPath, GetFileLock, Answer, Load, SwapData, Edit, Sync, Quit, SessionEnd
<1>3. \E r : Becomes(p, r)
  BY DEF CheckPath, GetFileLock, Answer, Load, SwapData, Edit, Sync, Quit, SessionEnd, Move
<1>4. Only(p)
  BY <1>1, <1>3 DEF Only, Becomes, StoreTypes
<1>5. SessionData(p)' /\ session'[p].tmp = session[p].tmp
  <2>1. ASSUME NEW r, Becomes(p, r) PROVE session'[p] = r
    BY <1>1, <2>1 DEF Becomes, StoreTypes
  <2>2. ASSUME NEW mode \in {"normal", "read_only", "new", "overwrite"}, CheckPath(p, mode)
        PROVE  SessionData(p)' /\ session'[p].tmp = session[p].tmp
    <3>1. session'[p] = [NoSession EXCEPT
                           !.at = IF mode = "read_only" THEN "begun" ELSE "checked",
                           !.mode = mode, !.saveas = mode \in {"new", "overwrite"}]
      BY <2>1, <2>2 DEF CheckPath
    <3>2. /\ session'[p].at \in {"begun", "checked"} /\ session'[p].mode = mode
          /\ session'[p].saveas => mode # "read_only"
          /\ session'[p].tmp = None
      BY <3>1 DEF NoSession
    <3>3. session[p].tmp = None
      BY <1>1, <2>2 DEF SessionData, CheckPath
    <3>4. QED
      BY <3>2, <3>3 DEF SessionData, Saving
  <2>3. ASSUME NEW at \in {"asked", "ending", "backup"}, Move(p, at), session[p].at \notin Saving \ {"backup"}
        PROVE  /\ session'[p].at = at /\ session'[p].mode = session[p].mode
               /\ session'[p].tmp = session[p].tmp /\ session'[p].saveas = session[p].saveas
               /\ session'[p].book = session[p].book /\ session'[p].dirty = session[p].dirty
               /\ session[p].tmp = None
    BY <1>1, <2>1, <2>3 DEF Move, Session, SessionData, Saving
  <2>4. ASSUME GetFileLock(p) PROVE SessionData(p)' /\ session'[p].tmp = session[p].tmp
    <3>1. CASE Move(p, "asked") \/ Move(p, "ending")
      BY <1>1, <2>3, <2>4, <3>1 DEF GetFileLock, SessionData, Saving
    <3>2. CASE Becomes(p, [session[p] EXCEPT !.at = "begun", !.lockfile = TRUE])
      BY <1>1, <2>1, <2>4, <3>2 DEF GetFileLock, SessionData, Saving, Session
    <3>3. QED
      BY <2>4, <3>1, <3>2 DEF GetFileLock
  <2>5. ASSUME Answer(p) PROVE SessionData(p)' /\ session'[p].tmp = session[p].tmp
    <3>1. CASE Move(p, "ending")
      BY <1>1, <2>3, <2>5, <3>1 DEF Answer, SessionData, Saving
    <3>2. CASE ~ session[p].saveas
               /\ Becomes(p, [session[p] EXCEPT !.at = "begun", !.mode = "read_only"])
      BY <1>1, <2>1, <2>5, <3>2 DEF Answer, SessionData, Saving, Session
    <3>3. CASE Becomes(p, [session[p] EXCEPT !.at = "checked", !.mode = "break"])
      BY <1>1, <2>1, <2>5, <3>3 DEF Answer, SessionData, Saving, Session
    <3>4. QED
      BY <2>5, <3>1, <3>2, <3>3 DEF Answer
  <2>6. ASSUME Load(p) PROVE SessionData(p)' /\ session'[p].tmp = session[p].tmp
    <3>1. CASE Move(p, "ending")
      BY <1>1, <2>3, <2>6, <3>1 DEF Load, SessionData, Saving
    <3>2. CASE /\ data # None /\ data.whole
               /\ Becomes(p, [session[p] EXCEPT !.at = "open", !.book = data.book])
      <4>1. /\ session'[p].at = "open" /\ session'[p].book = data.book
            /\ session'[p].mode = session[p].mode /\ session'[p].tmp = session[p].tmp
            /\ session'[p].saveas = session[p].saveas
        BY <1>1, <2>1, <3>2 DEF Session
      <4>2. saved <= data.book /\ data.book <= version
        BY <3>2 DEF DataInv
      <4>3. session[p].tmp = None /\ session[p].at = "begun" /\ ~ session[p].saveas
        BY <1>1, <2>6 DEF Load, SessionData
      <4>4. QED
        BY <1>2, <2>6, <3>2, <4>1, <4>2, <4>3 DEF Load, SessionData, Saving, HasBook
    <3>3. QED
      BY <2>6, <3>1, <3>2 DEF Load
  <2>7. ASSUME SwapData(p) PROVE SessionData(p)' /\ session'[p].tmp = session[p].tmp
    <3>1. /\ session'[p].at = "backup" /\ session'[p].book = version + 1
          /\ session'[p].dirty /\ session'[p].mode = session[p].mode
          /\ session'[p].tmp = session[p].tmp
      BY <1>1, <2>1, <2>7 DEF SwapData, Session
    <3>2. session[p].tmp = None /\ session[p].mode # "read_only" /\ version' = version + 1
      BY <1>1, <2>7 DEF SwapData, SessionData
    <3>3. QED
      BY <1>1, <1>2, <3>1, <3>2 DEF SessionData, Saving
  <2>8. ASSUME Edit(p) PROVE SessionData(p)' /\ session'[p].tmp = session[p].tmp
    <3>1. /\ session'[p].at = "open" /\ session'[p].book = version + 1
          /\ session'[p].dirty /\ session'[p].mode = session[p].mode
          /\ session'[p].tmp = session[p].tmp
      BY <1>1, <2>1, <2>8 DEF Edit, Session
    <3>2. session[p].tmp = None /\ session[p].mode # "read_only" /\ version' = version + 1
      BY <1>1, <2>8 DEF Edit, SessionData
    <3>3. QED
      BY <1>1, <1>2, <3>1, <3>2 DEF SessionData, Saving
  <2>9. ASSUME Sync(p) \/ Quit(p) PROVE SessionData(p)' /\ session'[p].tmp = session[p].tmp
    <3>1. CASE Sync(p)
      <4>1. session[p].at = "open" /\ session[p].dirty /\ session[p].mode # "read_only"
            /\ Move(p, "backup")
        BY <3>1 DEF Sync
      <4>2. /\ session'[p].at = "backup" /\ session'[p].mode = session[p].mode
            /\ session'[p].book = session[p].book /\ session'[p].dirty
            /\ session'[p].tmp = session[p].tmp /\ session[p].tmp = None
        BY <2>3, <4>1 DEF Saving
      <4>3. saved <= session[p].book /\ session[p].book <= version
        BY <1>1, <4>1 DEF SessionData
      <4>4. version' = version
        BY <3>1 DEF Sync
      <4>5. QED
        BY <1>2, <4>1, <4>2, <4>3, <4>4 DEF SessionData, Saving
    <3>2. CASE Quit(p)
      BY <1>1, <2>3, <3>2 DEF Quit, SessionData, Saving
    <3>3. QED
      BY <2>9, <3>1, <3>2
  <2>10. ASSUME SessionEnd(p) PROVE SessionData(p)' /\ session'[p].tmp = session[p].tmp
    <3>1. session'[p] = NoSession /\ session[p].tmp = None
      BY <1>1, <2>1, <2>10 DEF SessionEnd, SessionData
    <3>2. QED
      BY <3>1 DEF NoSession, SessionData, Saving
  <2>11. QED
    BY <2>2, <2>4, <2>5, <2>6, <2>7, <2>8, <2>9, <2>10
<1>6. \A q \in Process : SessionData(q)'
  BY <1>1, <1>2, <1>4, <1>5, OthersKeepData
<1>7. Kept'
  BY <1>2, <1>4, <1>5, KeptAside DEF DataInv
<1>8. data # None => data.book \in Nat
  BY <1>1 DEF StoreTypes, File
<1>9. QED
  BY <1>1, <1>2, <1>6, <1>7, <1>8 DEF DataInv

\* The session of a process that has acted, in the terms of SessionData.
LEMMA Updated ==
    ASSUME StoreTypes, NEW p \in Process, NEW at \in At
    PROVE  LET s == session[p] IN
           /\ Move(p, at) =>
                /\ Only(p) /\ session'[p].at = at /\ session'[p].mode = s.mode
                /\ session'[p].book = s.book /\ session'[p].dirty = s.dirty
                /\ session'[p].tmp = s.tmp /\ session'[p].saveas = s.saveas
           /\ \A tmp : Becomes(p, [s EXCEPT !.at = at, !.tmp = tmp]) =>
                /\ Only(p) /\ session'[p].at = at /\ session'[p].mode = s.mode
                /\ session'[p].book = s.book /\ session'[p].dirty = s.dirty
                /\ session'[p].tmp = tmp /\ session'[p].saveas = s.saveas
           /\ \A tmp : Becomes(p, [s EXCEPT !.at = at, !.tmp = tmp, !.dirty = FALSE]) =>
                /\ Only(p) /\ session'[p].at = at /\ session'[p].mode = s.mode
                /\ session'[p].book = s.book /\ session'[p].dirty = FALSE
                /\ session'[p].tmp = tmp /\ session'[p].saveas = s.saveas
           /\ Becomes(p, [s EXCEPT !.at = at, !.saveas = FALSE]) =>
                /\ Only(p) /\ session'[p].at = at /\ session'[p].mode = s.mode
                /\ session'[p].book = s.book /\ session'[p].dirty = s.dirty
                /\ session'[p].tmp = s.tmp /\ session'[p].saveas = FALSE
<1>1. session[p] \in Session
  BY DEF StoreTypes
<1>2. ASSUME NEW r, Becomes(p, r) PROVE Only(p) /\ session'[p] = r
  BY <1>2 DEF StoreTypes, Becomes, Only
<1> DEFINE moved == [session[p] EXCEPT !.at = at]
           kept(tmp) == [session[p] EXCEPT !.at = at, !.tmp = tmp]
           clean(tmp) == [session[p] EXCEPT !.at = at, !.tmp = tmp, !.dirty = FALSE]
           opened == [session[p] EXCEPT !.at = at, !.saveas = FALSE]
           Agrees(r) == r.at = at /\ r.mode = session[p].mode /\ r.book = session[p].book
<1>3. /\ Agrees(moved) /\ moved.dirty = session[p].dirty
      /\ moved.tmp = session[p].tmp /\ moved.saveas = session[p].saveas
  BY <1>1 DEF Session
<1>4. \A tmp : /\ Agrees(kept(tmp)) /\ kept(tmp).dirty = session[p].dirty
               /\ kept(tmp).tmp = tmp /\ kept(tmp).saveas = session[p].saveas
  BY <1>1 DEF Session
<1>5. \A tmp : /\ Agrees(clean(tmp)) /\ clean(tmp).dirty = FALSE
               /\ clean(tmp).tmp = tmp /\ clean(tmp).saveas = session[p].saveas
  BY <1>1 DEF Session
<1>6. /\ Agrees(opened) /\ opened.dirty = session[p].dirty
      /\ opened.tmp = session[p].tmp /\ opened.saveas = FALSE
  BY <1>1 DEF Session
<1>7. Move(p, at) => Becomes(p, moved)
  BY DEF Move
<1> HIDE DEF moved, kept, clean, opened
<1>8. /\ Becomes(p, moved) => Only(p) /\ session'[p] = moved
      /\ \A tmp : Becomes(p, kept(tmp)) => Only(p) /\ session'[p] = kept(tmp)
      /\ \A tmp : Becomes(p, clean(tmp)) => Only(p) /\ session'[p] = clean(tmp)
      /\ Becomes(p, opened) => Only(p) /\ session'[p] = opened
  BY <1>2
<1> HIDE DEF Agrees
<1> DEFINE Result(dirty, tmp, saveas) ==
             /\ Only(p) /\ session'[p].at = at /\ session'[p].mode = session[p].mode
             /\ session'[p].book = session[p].book /\ session'[p].dirty = dirty
             /\ session'[p].tmp = tmp /\ session'[p].saveas = saveas
<1>9. Move(p, at) => Result(session[p].dirty, session[p].tmp, session[p].saveas)
  BY <1>3, <1>7, <1>8 DEF Agrees
<1>10. ASSUME NEW tmp, Becomes(p, kept(tmp))
       PROVE  Result(session[p].dirty, tmp, session[p].saveas)
  BY <1>4, <1>8, <1>10 DEF Agrees
<1>11. ASSUME NEW tmp, Becomes(p, clean(tmp))
       PROVE  Result(FALSE, tmp, session[p].saveas)
  BY <1>5, <1>8, <1>11 DEF Agrees
<1>12. Becomes(p, opened) => Result(session[p].dirty, session[p].tmp, FALSE)
  BY <1>6, <1>8 DEF Agrees
<1>13. QED
  BY <1>9, <1>10, <1>11, <1>12, Zenon DEF kept, clean, opened

\* A save that gives up keeps its temporary file.
LEMMA GiveUpKept ==
    ASSUME StoreTypeOK, LockInv, DataInv, Breaks = "dead", NEW p \in Process, GiveUp(p),
           session[p].at \in {"written", "unlinked", "linked"},
           UNCHANGED <<linkable, version, saved>>
    PROVE  /\ \A q \in Process : SessionData(q)'
           /\ Kept'
<1>1. StoreTypes /\ SessionData(p) /\ session[p] \in Session
  BY DEF StoreTypeOK, StoreTypes, DataInv
<1>2. /\ Only(p) /\ session'[p].at = "sweep" /\ session'[p].mode = session[p].mode
      /\ session'[p].book = session[p].book /\ session'[p].dirty = session[p].dirty
      /\ session'[p].tmp = None /\ session'[p].saveas = session[p].saveas
  BY <1>1, Updated DEF GiveUp, At
<1>3. session[p].mode # "read_only" /\ session[p].dirty /\ saved <= session[p].book
      /\ session[p].book <= version
  BY <1>1 DEF SessionData, Saving
<1>4. SessionData(p)'
  BY <1>2, <1>3 DEF SessionData, Saving
<1>5. Writer(p) /\ version \in Nat
  BY <1>1, <1>3 DEF Writer, StoreTypes
<1>6. \A q \in Process : q # p => SessionData(q)'
  BY <1>1, <1>2, <1>5, OthersKeepData
<1>7. Kept'
  BY <1>3 DEF GiveUp, Kept
<1>8. QED
  BY <1>4, <1>6, <1>7

\* The first half of a save, which leaves the data file alone, and its end.
LEMMA WriteKeepsData ==
    ASSUME StoreTypeOK, LockInv, DataInv, Breaks = "dead", NEW p \in Process,
           BackupFile(p) \/ OpenTemp(p) \/ WriteTemp(p) \/ RemoveOldFiles(p)
    PROVE  DataInv'
<1>1. /\ StoreTypes /\ session[p] \in Session /\ SessionData(p)
      /\ version \in Nat /\ saved \in Nat /\ saved <= version
  BY DEF StoreTypeOK, StoreTypes, DataInv
<1>2. UNCHANGED <<linkable, data, leftover, saved, version>>
  BY DEF BackupFile, OpenTemp, WriteTemp, RemoveOldFiles
<1>3. Only(p) /\ SessionData(p)'
      /\ (session'[p].tmp = session[p].tmp \/ session[p].tmp = None \/ ~session[p].tmp.whole)
  <2>1. CASE BackupFile(p)
    <3>1. Move(p, "write") \/ Move(p, "sweep")
      BY <2>1 DEF BackupFile
    <3>2. session[p].at = "backup"
      BY <2>1 DEF BackupFile
    <3>3. QED
      BY <1>1, <1>2, <3>1, <3>2, Updated DEF At, SessionData, Saving
  <2>2. CASE OpenTemp(p)
    <3>1. session[p].at = "write"
      BY <2>2 DEF OpenTemp
    <3>2. CASE Move(p, "sweep")
      BY <1>1, <1>2, <3>1, <3>2, Updated DEF At, SessionData, Saving
    <3>3. CASE Becomes(p, [session[p] EXCEPT !.at = "writing", !.tmp = Temp(p, FALSE)])
      <4>1. ~ Temp(p, FALSE).whole
        BY DEF Temp
      <4>2. /\ Only(p) /\ session'[p].at = "writing" /\ session'[p].mode = session[p].mode
            /\ session'[p].book = session[p].book /\ session'[p].dirty = session[p].dirty
            /\ session'[p].tmp = Temp(p, FALSE) /\ session'[p].saveas = session[p].saveas
        BY <1>1, <3>3, Updated DEF At
      <4>3. QED
        BY <1>1, <1>2, <3>1, <4>1, <4>2 DEF SessionData, Saving
    <3>4. QED
      BY <2>2, <3>2, <3>3 DEF OpenTemp
  <2>3. CASE WriteTemp(p)
    <3>1. session[p].at = "writing"
      BY <2>3 DEF WriteTemp
    <3>2. CASE Becomes(p, [session[p] EXCEPT !.at = "written", !.tmp = Temp(p, TRUE)])
      <4>1. Temp(p, TRUE).whole /\ Temp(p, TRUE).book = session[p].book
        BY DEF Temp
      <4>2. QED
        BY <1>1, <1>2, <3>1, <3>2, <4>1, Updated DEF At, SessionData, Saving
    <3>3. CASE Becomes(p, [session[p] EXCEPT !.at = "sweep", !.tmp = None])
      BY <1>1, <1>2, <3>1, <3>3, Updated DEF At, SessionData, Saving
    <3>4. QED
      BY <2>3, <3>2, <3>3 DEF WriteTemp
  <2>4. CASE RemoveOldFiles(p)
    <3>1. session[p].at = "sweep"
      BY <2>4 DEF RemoveOldFiles
    <3>2. CASE Move(p, "ending")
      BY <1>1, <1>2, <3>1, <3>2, Updated DEF At, SessionData, Saving
    <3>3. CASE Becomes(p, [session[p] EXCEPT !.at = "open", !.saveas = FALSE])
      BY <1>1, <1>2, <3>1, <3>3, Updated DEF At, SessionData, Saving, HasBook
    <3>4. QED
      BY <2>4, <3>2, <3>3 DEF RemoveOldFiles
  <2>5. QED
    BY <2>1, <2>2, <2>3, <2>4
<1>4. \A q \in Process : SessionData(q)'
  BY <1>1, <1>2, <1>3, OthersKeepData
<1>5. Kept'
  BY <1>2, <1>3, KeptAside DEF DataInv
<1>6. QED
  BY <1>1, <1>2, <1>4, <1>5 DEF DataInv

LEMMA UnlinkDataKeepsData ==
    ASSUME StoreTypeOK, LockInv, DataInv, Breaks = "dead", NEW p \in Process, UnlinkData(p)
    PROVE  DataInv'
<1>1. /\ StoreTypes /\ session[p] \in Session /\ SessionData(p) /\ version \in Nat
      /\ session[p].at = "written" /\ UNCHANGED <<linkable, version, saved>>
      /\ session[p].tmp \in File
  BY DEF StoreTypeOK, StoreTypes, DataInv, UnlinkData, TempStates, TempFits
<1>2. CASE GiveUp(p) /\ data' = data
  BY <1>1, <1>2, GiveUpKept DEF DataInv
<1>3. CASE Move(p, "unlinked") /\ data' = None /\ leftover' = leftover
  <2>1. /\ Only(p) /\ session'[p].at = "unlinked" /\ session'[p].mode = session[p].mode
        /\ session'[p].book = session[p].book /\ session'[p].dirty = session[p].dirty
        /\ session'[p].tmp = session[p].tmp /\ session'[p].saveas = session[p].saveas
    BY <1>1, <1>3, Updated DEF At
  <2>2. Writer(p) /\ SessionData(p)'
    BY <1>1, <1>3, <2>1 DEF SessionData, Saving, Writer
  <2>3. \A q \in Process : SessionData(q)'
    BY <1>1, <2>1, <2>2, OthersKeepData
  <2>4. session[p].tmp # None /\ session[p].tmp.whole /\ saved <= session[p].tmp.book
    BY <1>1, XmlFileStoreAssumption DEF SessionData, Saving, File
  <2>5. Kept'
    BY <1>1, <2>1, <2>4 DEF Kept
  <2>6. QED
    BY <1>1, <1>3, <2>3, <2>5 DEF DataInv
<1>4. QED
  BY <1>2, <1>3 DEF UnlinkData

\* A link is the same file; a copy is of the same book.
LEMMA LinkOrCopyBook ==
    ASSUME NEW f \in File, NEW r \in LinkOrCopy(f)
    PROVE  r.file.book = f.book /\ (linkable => r.file = f)
<1>1. CASE linkable
  BY <1>1 DEF LinkOrCopy
<1>2. CASE ~ linkable
  <2> DEFINE a == [f EXCEPT !.mtime = clock]
             b == [f EXCEPT !.mtime = clock, !.whole = FALSE]
  <2>1. r \in {[file |-> a, ok |-> TRUE], [file |-> b, ok |-> TRUE],
               [file |-> b, ok |-> FALSE]}
    BY <1>2 DEF LinkOrCopy
  <2>2. a.book = f.book /\ b.book = f.book
    BY DEF File
  <2> HIDE DEF a, b
  <2>3. QED
    BY <1>2, <2>1, <2>2
<1>3. QED
  BY <1>1, <1>2

LEMMA LinkTempKeepsData ==
    ASSUME StoreTypeOK, LockInv, DataInv, Breaks = "dead", NEW p \in Process, LinkTemp(p)
    PROVE  DataInv'
<1>1. /\ StoreTypes /\ session[p] \in Session /\ SessionData(p) /\ version \in Nat
      /\ session[p].at = "unlinked" /\ UNCHANGED <<linkable, version, saved>>
      /\ session[p].tmp \in File
  BY DEF StoreTypeOK, StoreTypes, DataInv, LinkTemp, TempStates, TempFits
<1>2. /\ session[p].tmp.whole /\ session[p].tmp.book = session[p].book
      /\ session[p].mode # "read_only" /\ saved <= session[p].book /\ session[p].book <= version
  BY <1>1 DEF SessionData, Saving
<1>3. \/ GiveUp(p) /\ data' = data
      \/ /\ data' # None /\ data'.book = session[p].book /\ (linkable => data'.whole)
         /\ GiveUp(p) \/ (Move(p, "linked") /\ leftover' = leftover)
  <2>1. ASSUME NEW r \in LinkOrCopy(session[p].tmp), data' = r.file
        PROVE  data' # None /\ data'.book = session[p].book /\ (linkable => data'.whole)
    <3>1. data' \in File
      BY <1>1, <2>1, LinkOrCopyType
    <3>2. data'.book = session[p].book /\ (linkable => data' = session[p].tmp)
      BY <1>1, <1>2, <2>1, LinkOrCopyBook
    <3>3. QED
      BY <1>2, <3>1, <3>2, XmlFileStoreAssumption DEF File
  <2>2. QED
    BY <2>1, Zenon DEF LinkTemp
<1>4. data'= data \/ (data' # None => saved' <= data'.book /\ data'.book <= version'
                                      /\ (linkable' => data'.whole))
  BY <1>1, <1>2, <1>3
<1>5. CASE GiveUp(p)
  BY <1>1, <1>4, <1>5, GiveUpKept DEF DataInv
<1>6. CASE /\ data' # None /\ data'.book = session[p].book /\ (linkable => data'.whole)
           /\ Move(p, "linked")
  <2>1. /\ Only(p) /\ session'[p].at = "linked" /\ session'[p].mode = session[p].mode
        /\ session'[p].book = session[p].book /\ session'[p].dirty = session[p].dirty
        /\ session'[p].tmp = session[p].tmp /\ session'[p].saveas = session[p].saveas
    BY <1>1, <1>6, Updated DEF At
  <2>2. Writer(p) /\ SessionData(p)'
    BY <1>1, <1>6, <2>1 DEF SessionData, Saving, Writer, HasBook
  <2>3. \A q \in Process : SessionData(q)'
    BY <1>1, <2>1, <2>2, OthersKeepData
  <2>4. Kept'
    BY <1>6 DEF Kept
  <2>5. QED
    BY <1>1, <1>2, <1>6, <2>3, <2>4 DEF DataInv
<1>7. QED
  BY <1>3, <1>5, <1>6

LEMMA UnlinkTempKeepsData ==
    ASSUME StoreTypeOK, LockInv, DataInv, Breaks = "dead", NEW p \in Process, UnlinkTemp(p)
    PROVE  DataInv'
<1>1. /\ StoreTypes /\ session[p] \in Session /\ SessionData(p) /\ version \in Nat
      /\ session[p].at = "linked" /\ UNCHANGED <<linkable, data, version>>
  BY DEF StoreTypeOK, StoreTypes, DataInv, UnlinkTemp
<1>2. HasBook(session[p].book) /\ session[p].mode # "read_only" /\ session[p].book <= version
  BY <1>1 DEF SessionData, Saving
<1>3. CASE GiveUp(p) /\ saved' = saved
  BY <1>1, <1>3, GiveUpKept DEF DataInv
<1>4. CASE /\ Becomes(p, [session[p] EXCEPT !.at = "sweep", !.tmp = None, !.dirty = FALSE])
           /\ saved' = session[p].book /\ leftover' = leftover
  <2>1. /\ Only(p) /\ session'[p].at = "sweep" /\ session'[p].mode = session[p].mode
        /\ session'[p].book = session[p].book /\ session'[p].tmp = None
        /\ session'[p].saveas = session[p].saveas
    BY <1>1, <1>4, Updated DEF At
  <2>2. session[p].book \in Nat
    BY <1>1 DEF Session
  <2>3. Writer(p) /\ SessionData(p)'
    BY <1>1, <1>2, <1>4, <2>1, <2>2 DEF SessionData, Saving, Writer, HasBook
  <2>4. \A q \in Process : SessionData(q)'
    BY <1>1, <2>1, <2>3, OthersKeepData
  <2>5. QED
    BY <1>1, <1>2, <1>4, <2>2, <2>4 DEF DataInv, Kept, HasBook
<1>5. QED
  BY <1>3, <1>4 DEF UnlinkTemp

\* A crash leaves the temporary file behind.
LEMMA CrashKeepsData ==
    ASSUME StoreTypeOK, LockInv, DataInv, Breaks = "dead", NEW p \in Process, Crash(p)
    PROVE  DataInv'
<1>1. /\ StoreTypes /\ version \in Nat
      /\ UNCHANGED <<linkable, data, version, saved>>
      /\ leftover \subseteq leftover'
      /\ session[p].tmp # None /\ session[p].tmp.whole => session[p].tmp.book \in leftover'
  BY DEF StoreTypeOK, StoreTypes, Crash
<1>2. Only(p) /\ session'[p] = NoSession
  BY DEF StoreTypeOK, StoreTypes, Crash, Becomes, Only
<1>3. SessionData(p)'
  BY <1>2 DEF NoSession, SessionData, Saving
<1>4. \A q \in Process : SessionData(q)'
  BY <1>1, <1>2, <1>3, OthersKeepData
<1>5. Kept'
  BY <1>1, <1>2, KeptAside DEF DataInv
<1>6. QED
  BY <1>1, <1>4, <1>5 DEF DataInv

LEMMA StepData ==
    ASSUME Breaks = "dead"
    PROVE  StoreTypeOK /\ LockInv /\ DataInv /\ [Next]_vars => DataInv'
<1> SUFFICES ASSUME StoreTypeOK, LockInv, DataInv, [Next]_vars PROVE DataInv'
  OBVIOUS
<1>1. CASE UNCHANGED vars \/ Tick
  BY <1>1 DEF vars, Tick, DataInv, SessionData, HasBook, Kept
<1>2. QED
  BY <1>1, OpenKeepsData, WriteKeepsData, UnlinkDataKeepsData, LinkTempKeepsData,
     UnlinkTempKeepsData, CrashKeepsData DEF Next

\* What is clean is on disk and what was saved is kept, by any number of
\* processes, as long as users break only the locks of dead ones.
THEOREM DataSafety ==
    ASSUME Breaks = "dead"
    PROVE  Spec => [](CleanIsOnDisk /\ SavedIsKept)
<1>1. StoreTypeOK /\ DataInv => CleanIsOnDisk /\ SavedIsKept
  BY DataInvImplies DEF StoreTypeOK
<1>2. QED
  BY <1>1, InitStore, StepStore, InitLock, StepLock, InitData, StepData, PTL DEF Spec

\* write_to_file: a session whose book is clean finds that book in the data file,
\* complete where files can be linked.
THEOREM CleanIsOnDiskHolds ==
    ASSUME Breaks = "dead"
    PROVE  Spec => []CleanIsOnDisk
BY DataSafety, PTL

\* write_to_file, backup_file, remove_old_files: after any failures and crashes some
\* complete file has what was last saved, or what was being saved over it.
THEOREM SavedIsKeptHolds ==
    ASSUME Breaks = "dead"
    PROVE  Spec => []SavedIsKept
BY DataSafety, PTL

=============================================================================
