--------------------------- MODULE BackgroundProofs ---------------------------
(***************************************************************************)
(* What runs beside the open Vault: Trash, what the app says of Backups    *)
(* and older copies, the Companion's grant, and Touch ID.  Four parts that *)
(* share no state, each with its own invariant.                            *)
(***************************************************************************)
EXTENDS Trash, Backups, Companion, QuickUnlock, FiniteSetTheorems, TLAPS

(***************************************************************************)
(* Trash.  For every retention, every wait and every error of the clock:   *)
(* what an unlock removes has been found overdue twice.  The property      *)
(* speaks of the earliest sighting of each Note, the code keeps one        *)
(* sighting for all of them; SightingInv relates the two.                  *)
(***************************************************************************)

LEMMA NowIsInt == TrashTypeOK => Now \in Int
  BY TrashAssumption DEF TrashTypeOK, Now

-----------------------------------------------------------------------------
(* Documents *)

LEMMA TouchIsDocument ==
  ASSUME TrashTypeOK, NEW d, IsDocument(d)
  PROVE  IsDocument(Touch(d)) /\ Touch(d).deleted = d.deleted
  <1>1. Touch(d) = [deleted |-> d.deleted, changedAt |-> Now]
    BY DEF IsDocument, Touch
  <1> QED
    BY <1>1, NowIsInt DEF IsDocument

LEMMA MutateTypes ==
  ASSUME TrashTypeOK, NEW d, NEW saves \in BOOLEAN, IsDocument(d), Mutate(d, saves)
  PROVE  IsDocument(doc') /\ (saves => doc'.deleted = d.deleted) /\ (~saves => doc' = doc)
  BY TouchIsDocument DEF Mutate, TrashTypeOK

\* What a Note in or out of Trash does to the document.
LEMMA SetDeleted ==
  ASSUME NEW d, IsDocument(d), NEW n \in DOMAIN d.deleted, NEW at \in Int \cup {Never}
  PROVE  /\ IsDocument([d EXCEPT !.deleted[n] = at])
         /\ [d EXCEPT !.deleted[n] = at].deleted = [d.deleted EXCEPT ![n] = at]
  <1> DEFINE e == [d EXCEPT !.deleted[n] = at]
  <1>1. e = [deleted |-> [d.deleted EXCEPT ![n] = at], changedAt |-> d.changedAt]
    BY DEF IsDocument
  <1>2. [d.deleted EXCEPT ![n] = at] \in [DOMAIN d.deleted -> Int \cup {Never}]
    BY DEF IsDocument
  <1> QED
    BY <1>1, <1>2 DEF IsDocument

LEMMA WithoutIsSmaller ==
  ASSUME NEW d, IsDocument(d), NEW gone
  PROVE  /\ IsDocument(Without(d, gone))
         /\ DOMAIN Without(d, gone).deleted = DOMAIN d.deleted \ gone
         /\ \A n \in DOMAIN d.deleted \ gone : Without(d, gone).deleted[n] = d.deleted[n]
  <1>1. Without(d, gone) = [deleted |-> [n \in DOMAIN d.deleted \ gone |-> d.deleted[n]],
                            changedAt |-> d.changedAt]
    BY DEF IsDocument, Without
  <1> QED
    BY <1>1 DEF IsDocument

-----------------------------------------------------------------------------
(* Types *)

LEMMA TrashInitTypes == TrashInit => TrashTypeOK
  <1> SUFFICES ASSUME TrashInit PROVE TrashTypeOK
    OBVIOUS
  <1>1. doc.deleted = [n \in Note |-> Never] /\ doc.changedAt = 0
    BY DEF TrashInit
  <1>2. IsDocument(doc)
    BY <1>1 DEF TrashInit, IsDocument
  <1>3. seen \in Int \cup {Never} /\ stored \in Int \cup {Never}
    BY DEF TrashInit
  <1>4. unlocked \in BOOLEAN /\ lost \in BOOLEAN
    BY DEF TrashInit
  <1>5. time \in 0..MaxTime /\ offset \in Offset \cup {0} /\ wrong \in 0..1
    BY TrashAssumption DEF TrashInit
  <1>6. trashed \in [Note -> 0..MaxTime] /\ found \in [Note -> Int \cup {Never}]
    BY TrashAssumption DEF TrashInit
  <1> QED
    BY <1>2, <1>3, <1>4, <1>5, <1>6 DEF TrashTypeOK

LEMMA FirstSeenType == TrashTypeOK => FirstSeen \in Int \cup {Never}
  BY NowIsInt DEF FirstSeen, TrashTypeOK

LEMMA PurgeTypes ==
  ASSUME TrashTypeOK, NEW saves \in BOOLEAN, NEW writes \in BOOLEAN, PurgeTrash(saves, writes)
  PROVE  /\ IsDocument(doc') /\ lost' \in BOOLEAN
         /\ seen' \in Int \cup {Never} /\ stored' \in Int \cup {Never}
  <1>1. IsDocument(doc')
    BY WithoutIsSmaller, TouchIsDocument DEF PurgeTrash, TrashTypeOK
  <1>2. lost' \in BOOLEAN /\ seen' \in Int \cup {Never} /\ stored' \in Int \cup {Never}
    BY NowIsInt, FirstSeenType DEF PurgeTrash, RememberSighting, TrashTypeOK
  <1> QED
    BY <1>1, <1>2

LEMMA TrashStepTypes == TrashTypeOK /\ [TrashNext]_trashVars => TrashTypeOK'
  <1> SUFFICES ASSUME TrashTypeOK, [TrashNext]_trashVars PROVE TrashTypeOK'
    OBVIOUS
  <1>1. ASSUME NEW n \in Note, NEW saves \in BOOLEAN, NEW writes \in BOOLEAN, TrashNote(n, saves, writes)
        PROVE  TrashTypeOK'
    <2>1. IsDocument(doc')
      <3>1. Larger(Now, doc.changedAt) \in Int
        BY NowIsInt DEF Larger, TrashTypeOK, IsDocument
      <3> QED
        BY <1>1, <3>1, SetDeleted, MutateTypes DEF TrashNote, TrashTypeOK, Kept
    <2>2. seen' \in Int \cup {Never} /\ stored' \in Int \cup {Never} /\ lost' \in BOOLEAN
      BY <1>1 DEF TrashNote, RememberSighting, TrashTypeOK
    <2>3. trashed' \in [Note -> 0..MaxTime] /\ found' \in [Note -> Int \cup {Never}]
      BY <1>1 DEF TrashNote, TrashTypeOK
    <2> QED
      BY <1>1, <2>1, <2>2, <2>3 DEF TrashNote, TrashTypeOK
  <1>2. ASSUME NEW n \in Note, NEW saves \in BOOLEAN, RestoreNote(n, saves) PROVE TrashTypeOK'
    <2>1. IsDocument(doc')
      BY <1>2, SetDeleted, MutateTypes DEF RestoreNote, InTrash, TrashTypeOK, Kept
    <2> QED
      BY <1>2, <2>1 DEF RestoreNote, TrashTypeOK
  <1>3. ASSUME NEW gone \in SUBSET Note, NEW saves \in BOOLEAN, DeleteForever(gone, saves)
        PROVE  TrashTypeOK'
    <2>1. IsDocument(Without(doc, gone)) /\ Mutate(Without(doc, gone), saves)
      BY <1>3, WithoutIsSmaller DEF DeleteForever, TrashTypeOK
    <2>2. IsDocument(doc')
      BY <2>1, MutateTypes
    <2> QED
      BY <1>3, <2>2 DEF DeleteForever, TrashTypeOK
  <1>4. ASSUME NEW saves \in BOOLEAN, NEW writes \in BOOLEAN, Unlock(saves, writes)
        PROVE  TrashTypeOK'
    <2>1. found' \in [Note -> Int \cup {Never}]
      BY <1>4, NowIsInt DEF Unlock, TrashTypeOK
    <2>2. wrong' \in 0..1
      BY <1>4 DEF Unlock, TrashTypeOK
    <2> QED
      BY <1>4, <2>1, <2>2, PurgeTypes DEF Unlock, TrashTypeOK
  <1>5. CASE EditNote
    <2>1. IsDocument(doc')
      BY <1>5, MutateTypes DEF EditNote, TrashTypeOK
    <2> QED
      BY <1>5, <2>1 DEF EditNote, TrashTypeOK
  <1>6. CASE LockVault
    BY <1>6 DEF LockVault, TrashTypeOK
  <1>7. CASE RestartApp
    BY <1>7 DEF RestartApp, TrashTypeOK
  <1>8. CASE DayPasses
    BY <1>8, TrashAssumption DEF DayPasses, TrashTypeOK
  <1>9. CASE ClockIsWrong
    BY <1>9 DEF ClockIsWrong, TrashTypeOK
  <1>10. CASE ClockIsRight
    BY <1>10 DEF ClockIsRight, TrashTypeOK
  <1>11. CASE UNCHANGED trashVars
    BY <1>11 DEF trashVars, TrashTypeOK
  <1> QED
    BY <1>1, <1>2, <1>3, <1>4, <1>5, <1>6, <1>7, <1>8, <1>9, <1>10, <1>11 DEF TrashNext

\* The types of the Trash: no operation, at any clock, leaves a document that is none.
THEOREM TrashTypes == TrashSpec => []TrashTypeOK
  BY TrashInitTypes, TrashStepTypes, PTL DEF TrashSpec

-----------------------------------------------------------------------------
(* One sighting for every Note *)

\* Every Note that is overdue at the sighting was found overdue no later than at it, by the
\* settings in memory and by the settings file alike.
SightingInv ==
  \/ lost
  \/ /\ stored = seen
     /\ \A n \in Kept : seen # Never /\ Overdue(doc, n, seen) => found[n] # Never /\ found[n] <= seen

LEMMA ExpiredIsOverdue ==
  ASSUME TrashTypeOK, Expired(doc, Now) # {}
  PROVE  Expired(doc, Now) = {n \in Kept : Overdue(doc, n, Now)}
  BY DEF Expired, Kept

\* The clock of this unlock is written down for everything that is overdue by it.
LEMMA FoundByNow ==
  ASSUME TrashTypeOK, NEW saves, NEW writes, Unlock(saves, writes), NEW n \in Kept,
         Expired(doc, Now) # {}, Overdue(doc, n, Now)
  PROVE  found'[n] # Never /\ found'[n] <= Now
  <1>1. n \in Note /\ n \in Expired(doc, Now)
    BY ExpiredIsOverdue DEF TrashTypeOK, IsDocument, Kept
  <1>2. found'[n] = IF found[n] = Never \/ Now < found[n] THEN Now ELSE found[n]
    BY <1>1 DEF Unlock
  <1> QED
    BY <1>1, <1>2, NowIsInt, TrashAssumption DEF TrashTypeOK

\* No unlock makes an earlier finding later.
LEMMA FoundNoLater ==
  ASSUME TrashTypeOK, NEW saves, NEW writes, Unlock(saves, writes), NEW n \in Kept, found[n] # Never
  PROVE  found'[n] # Never /\ found'[n] <= found[n]
  <1>1. n \in Note
    BY DEF TrashTypeOK, IsDocument, Kept
  <1>2. found'[n] = IF n \in Expired(doc, Now) /\ Now < found[n] THEN Now ELSE found[n]
    BY <1>1 DEF Unlock
  <1> QED
    BY <1>1, <1>2, NowIsInt, TrashAssumption DEF TrashTypeOK

\* A document with less in it has less that is overdue.
LEMMA FewerAreOverdue ==
  ASSUME TrashTypeOK, NEW gone, NEW d, d.deleted = Without(doc, gone).deleted,
         NEW n \in DOMAIN d.deleted, NEW at, Overdue(d, n, at)
  PROVE  n \in Kept /\ n \notin gone /\ Overdue(doc, n, at)
  <1>1. IsDocument(doc)
    BY DEF TrashTypeOK
  <1>2. n \in DOMAIN doc.deleted \ gone /\ d.deleted[n] = doc.deleted[n]
    BY <1>1, WithoutIsSmaller
  <1> QED
    BY <1>2 DEF Kept, Overdue

LEMMA UnlockKeepsSighting ==
  ASSUME TrashTypeOK, SightingInv, NEW saves \in BOOLEAN, NEW writes \in BOOLEAN,
         Unlock(saves, writes)
  PROVE  SightingInv'
  <1> SUFFICES ASSUME ~lost' PROVE SightingInv'
    BY DEF SightingInv
  <1>1. ~lost /\ stored = seen /\ stored' = seen'
    BY DEF SightingInv, Unlock, PurgeTrash, RememberSighting
  <1>2. \A n \in Kept : seen # Never /\ Overdue(doc, n, seen) => found'[n] # Never /\ found'[n] <= seen
    <2> SUFFICES ASSUME NEW n \in Kept, seen # Never, Overdue(doc, n, seen)
                 PROVE  found'[n] # Never /\ found'[n] <= seen
      OBVIOUS
    <2>1. found[n] # Never /\ found[n] <= seen /\ n \in Note
      BY <1>1 DEF SightingInv, TrashTypeOK, IsDocument, Kept
    <2>2. found'[n] # Never /\ found'[n] <= found[n]
      BY <2>1, FoundNoLater
    <2>3. found[n] \in Int /\ seen \in Int /\ found'[n] \in Int
      BY <2>1, <2>2, NowIsInt DEF Unlock, TrashTypeOK
    <2> QED
      BY <2>1, <2>2, <2>3
  <1>3. \A n \in Kept' : seen' # Never /\ Overdue(doc', n, seen') => found'[n] # Never /\ found'[n] <= seen'
    <2>1. CASE Expired(doc, Now) = {} \/ ~Confirmed
      <3>1. doc' = doc /\ Kept' = Kept /\ seen' = FirstSeen
        BY <2>1 DEF Unlock, PurgeTrash, RememberSighting, Kept
      <3>2. seen' = Never \/ seen' = seen \/ (seen' = Now /\ Expired(doc, Now) # {})
        BY <3>1 DEF FirstSeen
      <3> QED
        BY <3>1, <3>2, <1>2, FoundByNow
    <2>2. CASE ~(Expired(doc, Now) = {} \/ ~Confirmed) /\ Eligible = {}
      <3>1. doc' = doc /\ Kept' = Kept /\ seen' = Now
        BY <2>2 DEF Unlock, PurgeTrash, RememberSighting, Kept
      <3> QED
        BY <2>2, <3>1, FoundByNow
    <2>3. CASE ~(Expired(doc, Now) = {} \/ ~Confirmed) /\ Eligible # {} /\ saves
      <3>1. doc' = Touch(Without(doc, Eligible)) /\ (seen' = Never \/ seen' = Now)
        BY <2>3 DEF Unlock, PurgeTrash, RememberSighting
      <3>2. doc'.deleted = Without(doc, Eligible).deleted
        BY <3>1, WithoutIsSmaller, TouchIsDocument DEF TrashTypeOK
      <3> SUFFICES ASSUME NEW n \in Kept', seen' # Never, Overdue(doc', n, seen')
                   PROVE  found'[n] # Never /\ found'[n] <= seen'
        OBVIOUS
      <3>3. n \in Kept /\ Overdue(doc, n, seen')
        BY <3>2, FewerAreOverdue DEF Kept
      <3> QED
        BY <2>3, <3>1, <3>3, FoundByNow
    <2>4. CASE ~(Expired(doc, Now) = {} \/ ~Confirmed) /\ Eligible # {} /\ ~saves
      <3>1. doc' = doc /\ Kept' = Kept /\ seen' = seen
        BY <2>4 DEF Unlock, PurgeTrash, Kept
      <3> QED
        BY <3>1, <1>2
    <2> QED
      BY <2>1, <2>2, <2>3, <2>4
  <1> QED
    BY <1>1, <1>3 DEF SightingInv

LEMMA SightingStep == TrashTypeOK /\ SightingInv /\ [TrashNext]_trashVars => SightingInv'
  <1> SUFFICES ASSUME TrashTypeOK, SightingInv, [TrashNext]_trashVars PROVE SightingInv'
    OBVIOUS
  <1>1. ASSUME NEW n \in Note, NEW saves \in BOOLEAN, NEW writes \in BOOLEAN, TrashNote(n, saves, writes)
        PROVE  SightingInv'
    <2> DEFINE at == Larger(Now, doc.changedAt)
               d == [doc EXCEPT !.deleted[n] = at]
    <2>1. at \in Int /\ n \in DOMAIN doc.deleted /\ IsDocument(doc)
      BY <1>1, NowIsInt DEF Larger, TrashTypeOK, IsDocument, TrashNote, Kept
    <2>2. IsDocument(d) /\ d.deleted = [doc.deleted EXCEPT ![n] = at]
      BY <2>1, SetDeleted
    <2>3. Mutate(d, saves)
      BY <1>1 DEF TrashNote
    <2>4. (saves => doc'.deleted = d.deleted) /\ (~saves => doc' = doc)
      BY <2>2, <2>3, MutateTypes
    <2> HIDE DEF d, at
    <2>5. CASE ~saves
      <3>1. doc' = doc /\ Kept' = Kept /\ seen' = seen /\ stored' = stored /\ lost' = lost
        BY <1>1, <2>4, <2>5 DEF TrashNote, Kept
      <3>2. found' = found
        BY <1>1, <2>5 DEF TrashNote, TrashTypeOK
      <3> QED
        BY <3>1, <3>2 DEF SightingInv
    <2>6. CASE saves /\ seen # Never /\ Overdue(doc', n, seen)
      BY <1>1, <2>6 DEF TrashNote, RememberSighting, SightingInv
    <2>7. CASE saves /\ ~(seen # Never /\ Overdue(doc', n, seen))
      <3>1. seen' = seen /\ stored' = stored /\ lost' = lost /\ Kept' = Kept
        BY <1>1, <2>2, <2>4, <2>7 DEF TrashNote, Kept
      <3>2. \A m \in Kept' : m # n => doc'.deleted[m] = doc.deleted[m] /\ found'[m] = found[m]
        BY <1>1, <2>2, <2>4, <2>7 DEF TrashNote, Kept, TrashTypeOK, IsDocument
      <3> QED
        BY <2>7, <3>1, <3>2 DEF SightingInv, Overdue
    <2> QED
      BY <2>5, <2>6, <2>7
  <1>2. ASSUME NEW n \in Note, NEW saves \in BOOLEAN, RestoreNote(n, saves) PROVE SightingInv'
    <2> DEFINE d == [doc EXCEPT !.deleted[n] = Never]
    <2>1. IsDocument(d) /\ d.deleted = [doc.deleted EXCEPT ![n] = Never] /\ Mutate(d, saves)
      BY <1>2, SetDeleted DEF RestoreNote, InTrash, Kept, TrashTypeOK
    <2>2. (saves => doc'.deleted = d.deleted) /\ (~saves => doc' = doc)
      BY <2>1, MutateTypes
    <2> HIDE DEF d
    <2>3. Kept' = Kept /\ \A m \in Kept : doc'.deleted[m] = Never \/ doc'.deleted[m] = doc.deleted[m]
      BY <2>1, <2>2 DEF Kept, TrashTypeOK, IsDocument
    <2> QED
      BY <1>2, <2>3 DEF RestoreNote, SightingInv, Overdue
  <1>3. ASSUME NEW gone \in SUBSET Note, NEW saves \in BOOLEAN, DeleteForever(gone, saves)
        PROVE  SightingInv'
    <2>1. IsDocument(Without(doc, gone)) /\ Mutate(Without(doc, gone), saves)
      BY <1>3, WithoutIsSmaller DEF DeleteForever, TrashTypeOK
    <2>2. doc' = doc \/ doc'.deleted = Without(doc, gone).deleted
      BY <2>1, MutateTypes
    <2>3. \A n \in Kept' : Overdue(doc', n, seen) => n \in Kept /\ Overdue(doc, n, seen)
      BY <2>2, FewerAreOverdue DEF Kept
    <2> QED
      BY <1>3, <2>3 DEF DeleteForever, SightingInv
  <1>4. ASSUME NEW saves \in BOOLEAN, NEW writes \in BOOLEAN, Unlock(saves, writes)
        PROVE  SightingInv'
    BY <1>4, UnlockKeepsSighting
  <1>5. CASE EditNote
    <2>1. doc'.deleted = doc.deleted
      BY <1>5, MutateTypes DEF EditNote, TrashTypeOK
    <2> QED
      BY <1>5, <2>1 DEF EditNote, SightingInv, Overdue, Kept
  <1>6. CASE RestartApp
    BY <1>6 DEF RestartApp, SightingInv, Overdue, Kept
  <1>7. CASE LockVault \/ DayPasses \/ ClockIsWrong \/ ClockIsRight \/ UNCHANGED trashVars
    BY <1>7 DEF LockVault, DayPasses, ClockIsWrong, ClockIsRight, trashVars, SightingInv, Overdue, Kept
  <1> QED
    BY <1>1, <1>2, <1>3, <1>4, <1>5, <1>6, <1>7 DEF TrashNext

LEMMA SightingHolds == TrashSpec => [](TrashTypeOK /\ SightingInv)
  <1>1. TrashInit => SightingInv
    BY DEF TrashInit, SightingInv
  <1> QED
    BY <1>1, TrashInitTypes, TrashStepTypes, SightingStep, PTL DEF TrashSpec

-----------------------------------------------------------------------------
(* Overdue twice *)

LEMMA OnlyUnlockPurges ==
  ASSUME TrashTypeOK, [TrashNext]_trashVars, NEW n \in Purged
  PROVE  \E saves, writes \in BOOLEAN : Unlock(saves, writes)
  <1>1. ~unlocked /\ unlocked'
    BY DEF Purged
  <1> QED
    BY <1>1 DEF TrashNext, TrashNote, RestoreNote, DeleteForever, EditNote, LockVault, RestartApp,
                DayPasses, ClockIsWrong, ClockIsRight, trashVars

LEMMA PurgedIsEligible ==
  ASSUME TrashTypeOK, NEW n \in Purged, NEW saves \in BOOLEAN, NEW writes \in BOOLEAN,
         Unlock(saves, writes)
  PROVE  n \in Eligible /\ Confirmed /\ Expired(doc, Now) # {}
  <1>1. n \in Kept /\ n \notin DOMAIN doc'.deleted
    BY DEF Purged
  <1>2. doc' # doc
    BY <1>1 DEF Kept
  <1>3. Confirmed /\ Expired(doc, Now) # {} /\ doc' = Touch(Without(doc, Eligible))
    BY <1>2 DEF Unlock, PurgeTrash
  <1>4. DOMAIN doc'.deleted = Kept \ Eligible
    <2>1. IsDocument(Without(doc, Eligible)) /\ DOMAIN Without(doc, Eligible).deleted = Kept \ Eligible
      BY WithoutIsSmaller DEF TrashTypeOK, Kept
    <2> QED
      BY <1>3, <2>1, TouchIsDocument
  <1> QED
    BY <1>1, <1>3, <1>4

LEMMA PurgeStep ==
  ASSUME TrashTypeOK, SightingInv, [TrashNext]_trashVars, NEW n \in Purged
  PROVE  /\ n \in Expired(doc, Now)
         /\ lost \/ (found[n] # Never /\ Now - found[n] >= ConfirmAfter)
  <1>1. n \in Eligible /\ Confirmed /\ Expired(doc, Now) # {}
    BY OnlyUnlockPurges, PurgedIsEligible
  <1>2. n \in Kept /\ n \in Note /\ Overdue(doc, n, seen) /\ seen # Never /\ Now - seen >= ConfirmAfter
    BY <1>1 DEF Eligible, Confirmed, TrashTypeOK, IsDocument, Kept
  <1>3. seen \in Int /\ Now \in Int /\ ConfirmAfter \in Int /\ ConfirmAfter >= 1 /\ Retention \in Int
    BY <1>2, NowIsInt, TrashAssumption DEF TrashTypeOK
  <1>4. Overdue(doc, n, Now)
    BY <1>2, <1>3 DEF Overdue, TrashTypeOK, IsDocument, Kept
  <1>5. n \in Expired(doc, Now)
    BY <1>1, <1>2, <1>4, ExpiredIsOverdue
  <1>6. lost \/ (found[n] # Never /\ Now - found[n] >= ConfirmAfter)
    BY <1>2, <1>3 DEF SightingInv, TrashTypeOK
  <1> QED
    BY <1>5, <1>6

\* Whatever the clock says, what an unlock takes out of Trash was found overdue by an earlier
\* unlock at least ConfirmAfter before, and is overdue now (core.rs, purge_trash).
THEOREM RemovedAfterTwoSightings == TrashSpec => OverdueTwice
  <1>1. TrashTypeOK /\ SightingInv /\ [TrashNext]_trashVars =>
          [\A n \in Purged : /\ n \in Expired(doc, Now)
                             /\ lost \/ (found[n] # Never /\ Now - found[n] >= ConfirmAfter)]_trashVars
    BY PurgeStep
  <1> QED
    BY <1>1, SightingHolds, PTL DEF TrashSpec, OverdueTwice

(***************************************************************************)
(* Backups.  For any number of changes, Backups and other Vaults: what the *)
(* settings say of changes in no Backup and of the newest version seen     *)
(* stays true of the file, although their writes fail.  The file counts as *)
(* what this app left there as long as memory, if open, is the file.       *)
(***************************************************************************)

IsSettings(p) ==
  /\ p = [unbacked |-> p.unbacked, newest |-> p.newest]
  /\ p.newest = [id |-> p.newest.id, counter |-> p.newest.counter]
  /\ p.newest.counter \in Nat

BackupTypeOK ==
  /\ IsVersion(vault)
  /\ open # Closed => IsVersion(open)
  /\ IsSettings(prefs) /\ IsSettings(prefsFile)
  /\ \A v \in safety \cup backups : IsVersion(v)
  /\ lastKept.counter \in Nat

\* Memory is the file, unless something else wrote the file.
OpenIsVault == open # Closed /\ ~exchanged => open = vault

\* What was found when the app last opened or wrote the Vault is remembered as the newest, or as
\* something newer still.
NewestRemembered ==
  "newest" \notin forgot => prefs.newest.id = lastKept.id /\ prefs.newest.counter >= lastKept.counter

BackupInv == BackupTypeOK /\ OpenIsVault /\ NewestRemembered /\ UnbackedIsSaid /\ OlderIsSaid

LEMMA SeenIs ==
  ASSUME NEW v, IsVersion(v)
  PROVE  Seen(v).id = v.id /\ Seen(v).counter = Cardinality(v.changes) /\ Cardinality(v.changes) \in Nat
  BY FS_CardinalityType DEF IsVersion, Seen

LEMMA RememberSeenIs ==
  ASSUME NEW p, IsSettings(p), NEW v, IsVersion(v), NEW q, q = RememberSeen(p, v)
  PROVE  IsSettings(q) /\ q.newest = Seen(v) /\ q.unbacked = p.unbacked
  <1>1. q = [unbacked |-> p.unbacked, newest |-> Seen(v)]
    BY DEF IsSettings, RememberSeen
  <1>2. Seen(v) = [id |-> Seen(v).id, counter |-> Seen(v).counter] /\ Seen(v).counter \in Nat
    BY SeenIs DEF Seen
  <1> QED
    BY <1>1, <1>2 DEF IsSettings

LEMMA UnbackedSet ==
  ASSUME NEW p, IsSettings(p), NEW b, NEW q, q = [p EXCEPT !.unbacked = b]
  PROVE  IsSettings(q) /\ q.newest = p.newest /\ q.unbacked = b
  BY DEF IsSettings

LEMMA RememberingTypes ==
  ASSUME BackupTypeOK, NEW p, IsSettings(p), NEW q, IsSettings(q), Remembering(p, q)
  PROVE  prefs' = q /\ IsSettings(prefsFile')
  BY DEF Remembering, BackupTypeOK

LEMMA OneMoreChange ==
  ASSUME NEW v, IsVersion(v), NEW x, NEW w, w = [v EXCEPT !.changes = @ \cup {x}]
  PROVE  IsVersion(w)
  <1>1. IsFiniteSet(v.changes \cup {x})
    BY FS_AddElement DEF IsVersion
  <1>2. w = [id |-> v.id, changes |-> v.changes \cup {x}]
    BY DEF IsVersion
  <1> QED
    BY <1>1, <1>2 DEF IsVersion

\* A version that the app saved or installed: it is the file and memory, and the newest.
LEMMA PutKeeps ==
  ASSUME BackupInv, NEW v, IsVersion(v), Put(v), IsSettings(prefs'), prefs'.newest = Seen(v),
         IsSettings(prefsFile'), \A w \in backups' : IsVersion(w),
         \/ prefs'.unbacked
         \/ v \in backups' \cup Foreign
  PROVE  BackupInv'
  <1>1. vault' = v /\ open' = v /\ safety' = safety \cup {vault} /\ lastKept' = Seen(v) /\ exchanged' = FALSE
    BY DEF Put
  <1>2. BackupTypeOK'
    BY <1>1, SeenIs DEF BackupInv, BackupTypeOK
  <1>3. OpenIsVault'
    BY <1>1 DEF OpenIsVault
  <1>4. NewestRemembered' /\ OlderIsSaid'
    BY <1>1, SeenIs DEF NewestRemembered, OlderIsSaid
  <1>5. UnbackedIsSaid'
    BY <1>1 DEF UnbackedIsSaid
  <1> QED
    BY <1>2, <1>3, <1>4, <1>5 DEF BackupInv

LEMMA EditKeeps == BackupInv /\ Edit => BackupInv'
  <1> SUFFICES ASSUME BackupInv, Edit PROVE BackupInv'
    OBVIOUS
  <1>1. PICK v : v = [open EXCEPT !.changes = @ \cup {Cardinality(Made) + 1}]
    OBVIOUS
  <1>2. PICK newer, noted : newer = RememberSeen(prefs, v) /\ noted = NoteChange(newer)
    OBVIOUS
  <1>3. /\ open # Closed /\ Put(v) /\ Remembering(newer, noted) /\ backups' = backups
    BY <1>1, <1>2 DEF Edit
  <1>4. IsVersion(v)
    BY <1>1, <1>3, OneMoreChange DEF BackupInv, BackupTypeOK
  <1>5. IsSettings(newer) /\ newer.newest = Seen(v)
    BY <1>2, <1>4, RememberSeenIs DEF BackupInv, BackupTypeOK
  <1>6. IsSettings(noted) /\ noted.newest = Seen(v) /\ noted.unbacked = TRUE
    BY <1>2, <1>5, UnbackedSet DEF NoteChange
  <1>7. prefs' = noted /\ IsSettings(prefsFile')
    BY <1>3, <1>5, <1>6, RememberingTypes DEF BackupInv
  <1> QED
    BY <1>3, <1>4, <1>6, <1>7, PutKeeps DEF BackupInv, BackupTypeOK

LEMMA InstallKeeps ==
  ASSUME BackupInv, NEW v, NEW source, Install(v, source)
  PROVE  BackupInv'
  <1>1. PICK newer, last : newer = RememberSeen(prefs, v) /\ last = Installed(newer, source)
    OBVIOUS
  <1>2. /\ v \in IF source = "safety" THEN safety ELSE backups \cup Foreign
        /\ Put(v) /\ Remembering(newer, last) /\ backups' = backups
    BY <1>1 DEF Install
  <1>3. IsVersion(v)
    BY <1>2, BackupAssumption DEF BackupInv, BackupTypeOK
  <1>4. IsSettings(newer) /\ newer.newest = Seen(v)
    BY <1>1, <1>3, RememberSeenIs DEF BackupInv, BackupTypeOK
  <1>5. IsSettings(last) /\ last.newest = Seen(v) /\ last.unbacked = (source = "safety")
    BY <1>1, <1>4, UnbackedSet DEF Installed
  <1>6. prefs' = last /\ IsSettings(prefsFile')
    BY <1>2, <1>4, <1>5, RememberingTypes DEF BackupInv
  <1>7. prefs'.unbacked \/ v \in backups' \cup Foreign
    BY <1>2, <1>5, <1>6
  <1> QED
    BY <1>2, <1>3, <1>5, <1>6, <1>7, PutKeeps DEF BackupInv, BackupTypeOK

LEMMA WriteBackupKeeps == BackupInv /\ WriteBackup => BackupInv'
  <1> SUFFICES ASSUME BackupInv, WriteBackup PROVE BackupInv'
    OBVIOUS
  <1>1. /\ open # Closed /\ backups' = backups \cup {open}
        /\ prefs' = [prefs EXCEPT !.unbacked = FALSE] /\ prefsFile' \in {prefsFile, prefs'}
        /\ forgot' = forgot \ {"unbacked"}
        /\ UNCHANGED <<vault, open, older, safety, lastKept, exchanged>>
    BY DEF WriteBackup
  <1>2. IsSettings(prefs') /\ prefs'.newest = prefs.newest
    BY <1>1, UnbackedSet DEF BackupInv, BackupTypeOK
  <1>3. BackupTypeOK'
    BY <1>1, <1>2 DEF BackupInv, BackupTypeOK
  <1>4. OpenIsVault' /\ NewestRemembered' /\ OlderIsSaid'
    BY <1>1, <1>2 DEF BackupInv, OpenIsVault, NewestRemembered, OlderIsSaid
  <1>5. UnbackedIsSaid'
    BY <1>1 DEF BackupInv, OpenIsVault, UnbackedIsSaid
  <1> QED
    BY <1>3, <1>4, <1>5 DEF BackupInv

LEMMA OpenVaultKeeps == BackupInv /\ OpenVault => BackupInv'
  <1> SUFFICES ASSUME BackupInv, OpenVault PROVE BackupInv'
    OBVIOUS
  <1>1. PICK newer : newer = RememberSeen(prefs, vault)
    OBVIOUS
  <1>2. /\ open' = vault /\ older' = IsOlder(vault, prefs.newest)
        /\ lastKept' = (IF lastKept.id = vault.id THEN lastKept ELSE Seen(vault))
        /\ UNCHANGED <<vault, backups, safety, exchanged, forgot>>
    BY DEF OpenVault
  <1>3. /\ IsVersion(vault) /\ IsSettings(prefs) /\ IsSettings(prefsFile)
        /\ prefs.newest.counter \in Nat /\ lastKept.counter \in Nat
    BY DEF BackupInv, BackupTypeOK, IsSettings
  <1>4. IsSettings(newer) /\ newer.newest = Seen(vault) /\ newer.unbacked = prefs.unbacked
    BY <1>1, <1>3, RememberSeenIs
  <1>5. \/ older' /\ prefs' = prefs /\ prefsFile' = prefsFile
        \/ ~older' /\ prefs' = newer /\ IsSettings(prefsFile')
    <2>1. IF older' THEN UNCHANGED <<prefs, prefsFile>> ELSE Remembering(prefs, newer)
      BY <1>1 DEF OpenVault
    <2> QED
      BY <1>3, <1>4, <2>1, RememberingTypes DEF BackupInv
  <1>6. older' <=> prefs.newest.id = vault.id /\ Cardinality(vault.changes) < prefs.newest.counter
    BY <1>2 DEF IsOlder
  <1>7. Seen(vault).id = vault.id /\ Seen(vault).counter = Cardinality(vault.changes)
        /\ Cardinality(vault.changes) \in Nat
    BY <1>3, SeenIs
  <1>8. BackupTypeOK'
    BY <1>2, <1>3, <1>4, <1>5, <1>7 DEF BackupInv, BackupTypeOK
  <1>9. OpenIsVault' /\ UnbackedIsSaid'
    BY <1>2, <1>4, <1>5 DEF BackupInv, OpenIsVault, UnbackedIsSaid
  <1>10. NewestRemembered' /\ OlderIsSaid'
    <2>1. NewestRemembered
      BY DEF BackupInv
    <2>2. CASE lastKept.id = vault.id
      BY <1>2, <1>3, <1>4, <1>5, <1>6, <1>7, <2>1, <2>2 DEF NewestRemembered, OlderIsSaid
    <2>3. CASE lastKept.id # vault.id
      BY <1>2, <1>3, <1>4, <1>5, <1>6, <1>7, <2>1, <2>3 DEF NewestRemembered, OlderIsSaid
    <2> QED
      BY <2>2, <2>3
  <1> QED
    BY <1>8, <1>9, <1>10 DEF BackupInv

LEMMA RestartKeeps == BackupInv /\ Restart => BackupInv'
  <1> SUFFICES ASSUME BackupInv, Restart PROVE BackupInv'
    OBVIOUS
  <1>1. /\ open' = Closed /\ prefs' = prefsFile
        /\ forgot' = forgot \cup {f \in {"unbacked", "newest"} : prefs[f] # prefsFile[f]}
        /\ UNCHANGED <<vault, prefsFile, backups, safety, lastKept, exchanged>>
    BY DEF Restart
  <1>2. BackupTypeOK' /\ OpenIsVault' /\ OlderIsSaid'
    BY <1>1 DEF BackupInv, BackupTypeOK, OpenIsVault, OlderIsSaid
  <1>3. /\ "newest" \in forgot' \/ ("newest" \notin forgot /\ prefs'.newest = prefs.newest)
        /\ "unbacked" \in forgot' \/ ("unbacked" \notin forgot /\ prefs'.unbacked = prefs.unbacked)
    BY <1>1
  <1>4. NewestRemembered' /\ UnbackedIsSaid'
    BY <1>1, <1>3 DEF BackupInv, NewestRemembered, UnbackedIsSaid
  <1> QED
    BY <1>2, <1>4 DEF BackupInv

LEMMA BackupStep == BackupInv /\ [BackupNext]_backupVars => BackupInv'
  <1> SUFFICES ASSUME BackupInv, [BackupNext]_backupVars PROVE BackupInv'
    OBVIOUS
  <1>1. CASE Close
    BY <1>1 DEF Close, BackupInv, BackupTypeOK, OpenIsVault, NewestRemembered, UnbackedIsSaid, OlderIsSaid
  <1>2. ASSUME NEW v \in safety \cup backups \cup Foreign, Exchange(v)
        PROVE  BackupInv'
    BY <1>2, BackupAssumption DEF Exchange, BackupInv, BackupTypeOK, OpenIsVault, NewestRemembered,
       UnbackedIsSaid, OlderIsSaid
  <1>3. CASE UNCHANGED backupVars
    BY <1>3 DEF backupVars, BackupInv, BackupTypeOK, OpenIsVault, NewestRemembered, UnbackedIsSaid, OlderIsSaid
  <1> QED
    BY <1>1, <1>2, <1>3, EditKeeps, WriteBackupKeeps, InstallKeeps, OpenVaultKeeps, RestartKeeps
       DEF BackupNext

LEMMA BackupInitInv == BackupInit => BackupInv
  <1> SUFFICES ASSUME BackupInit PROVE BackupInv
    OBVIOUS
  <1>1. /\ vault = [id |-> "here", changes |-> {}] /\ open = vault
        /\ prefs = [unbacked |-> FALSE, newest |-> Seen(vault)] /\ prefsFile = prefs
        /\ backups = {} /\ safety = {} /\ lastKept = Seen(vault)
    BY DEF BackupInit
  <1>2. IsVersion(vault) /\ vault.changes = {}
    BY <1>1, FS_EmptySet DEF IsVersion
  <1>3. Seen(vault) = [id |-> Seen(vault).id, counter |-> Seen(vault).counter] /\ Seen(vault).counter \in Nat
    BY <1>2, SeenIs DEF Seen
  <1>4. IsSettings(prefs) /\ prefs.newest = Seen(vault)
    BY <1>1, <1>3 DEF IsSettings
  <1>5. BackupTypeOK
    BY <1>1, <1>2, <1>3, <1>4 DEF BackupTypeOK
  <1>6. OpenIsVault /\ NewestRemembered /\ UnbackedIsSaid /\ OlderIsSaid
    BY <1>1, <1>2, <1>3, <1>4 DEF OpenIsVault, NewestRemembered, UnbackedIsSaid, OlderIsSaid
  <1> QED
    BY <1>5, <1>6 DEF BackupInv

LEMMA BackupHolds == BackupSpec => []BackupInv
  BY BackupInitInv, BackupStep, PTL DEF BackupSpec

\* A change that this app saved and no Backup holds is said to be in none, for any number of
\* changes, Backups and other Vaults, whatever was backed up, restored and saved over.
THEOREM UnbackedStaysSaid == BackupSpec => []UnbackedIsSaid
  <1>1. BackupInv => UnbackedIsSaid
    BY DEF BackupInv
  <1> QED
    BY <1>1, BackupHolds, PTL

\* Who opens an older version than the one this app last left there is told until it is closed.
THEOREM OlderStaysSaid == BackupSpec => []OlderIsSaid
  <1>1. BackupInv => OlderIsSaid
    BY DEF BackupInv
  <1> QED
    BY <1>1, BackupHolds, PTL

(***************************************************************************)
(* The Companion.  For any number of threads, presses and faults: the app  *)
(* does not forget a broker that may serve.  The argument is about the     *)
(* order of what is in the helper's queue, because a call that has timed   *)
(* out is still there.                                                     *)
(***************************************************************************)

(* Types *)

Op == {"Start", "Stop", "Status", "Install", "Shutdown"}
State == {"stopped", "starting", "running", "stopping", "error", "expired"}
Request == [op : Op, caller : Thread \cup {Nobody}]
Work == [op : Op \cup {"none"}, caller : Thread \cup {Nobody}]
Helper == [queue : Seq(Request), doing : Work, state : State]

ThreadState ==
  {Idle, [pc |-> "spawned"]}
    \cup [pc : {"dialog", "queued", "called"}, op : {"Start", "Stop", "Status", "Install"}]
    \cup [pc : {"replied"}, state : State]

Types ==
  /\ ownerStarted \in BOOLEAN /\ active \in BOOLEAN /\ disarmed \in BOOLEAN
  /\ thread \in [Thread -> ThreadState]
  /\ helper \in Helper

-----------------------------------------------------------------------------
(* Queues *)

Starts(q) == \E i \in 1..Len(q) : q[i].op = "Start"

\* A stop with no start after it.
EndsInStop(q) ==
  \E i \in 1..Len(q) : q[i].op \in {"Stop", "Shutdown"} /\ \A j \in (i + 1)..Len(q) : q[j].op # "Start"

LEMMA QueueAppend ==
  ASSUME NEW q \in Seq(Request), NEW r \in Request
  PROVE  /\ Append(q, r) \in Seq(Request)
         /\ Starts(Append(q, r)) <=> Starts(q) \/ r.op = "Start"
         /\ r.op \in {"Stop", "Shutdown"} => EndsInStop(Append(q, r))
         /\ EndsInStop(q) /\ r.op # "Start" => EndsInStop(Append(q, r))
  <1> DEFINE a == Append(q, r)
  <1>1. a \in Seq(Request) /\ Len(a) = Len(q) + 1 /\ Len(q) \in Nat /\ a[Len(q) + 1] = r
    OBVIOUS
  <1>2. \A i \in 1..Len(q) : a[i] = q[i]
    OBVIOUS
  <1> HIDE DEF a
  <1>3. Starts(a) <=> Starts(q) \/ r.op = "Start"
    BY <1>1, <1>2 DEF Starts
  <1>4. r.op \in {"Stop", "Shutdown"} => EndsInStop(a)
    BY <1>1 DEF EndsInStop
  <1>5. EndsInStop(q) /\ r.op # "Start" => EndsInStop(a)
    <2> SUFFICES ASSUME EndsInStop(q), r.op # "Start" PROVE EndsInStop(a)
      OBVIOUS
    <2>1. PICK i \in 1..Len(q) : /\ q[i].op \in {"Stop", "Shutdown"}
                                 /\ \A j \in (i + 1)..Len(q) : q[j].op # "Start"
      BY DEF EndsInStop
    <2>2. i \in 1..Len(a) /\ a[i].op \in {"Stop", "Shutdown"}
      BY <1>1, <1>2, <2>1
    <2>3. \A j \in (i + 1)..Len(a) : a[j].op # "Start"
      BY <1>1, <1>2, <2>1
    <2> QED
      BY <2>2, <2>3 DEF EndsInStop
  <1> QED
    BY <1>1, <1>3, <1>4, <1>5 DEF a

LEMMA QueueTail ==
  ASSUME NEW q \in Seq(Request), q # <<>>
  PROVE  /\ Head(q) \in Request /\ Tail(q) \in Seq(Request)
         /\ Head(q) = q[1] /\ Len(Tail(q)) = Len(q) - 1 /\ Len(q) \in Nat \ {0}
         /\ \A i \in 1..(Len(q) - 1) : Tail(q)[i] = q[i + 1]
  OBVIOUS

LEMMA QueueTake ==
  ASSUME NEW q \in Seq(Request), q # <<>>
  PROVE  /\ Starts(q) <=> Head(q).op = "Start" \/ Starts(Tail(q))
         /\ EndsInStop(q) => \/ EndsInStop(Tail(q))
                             \/ Head(q).op \in {"Stop", "Shutdown"} /\ ~Starts(Tail(q))
  <1> DEFINE h == Head(q)
             u == Tail(q)
  <1>1. /\ h = q[1] /\ Len(u) = Len(q) - 1 /\ Len(q) \in Nat \ {0}
        /\ \A i \in 1..(Len(q) - 1) : u[i] = q[i + 1]
    BY QueueTail
  <1> HIDE DEF h, u
  <1>2. Starts(q) => h.op = "Start" \/ Starts(u)
    <2> SUFFICES ASSUME Starts(q), h.op # "Start" PROVE Starts(u)
      OBVIOUS
    <2>1. PICK i \in 1..Len(q) : q[i].op = "Start"
      BY DEF Starts
    <2>2. i # 1
      BY <1>1, <2>1
    <2>3. i - 1 \in 1..Len(u) /\ u[i - 1] = q[i]
      BY <1>1, <2>2
    <2> QED
      BY <2>1, <2>3 DEF Starts
  <1>3. h.op = "Start" \/ Starts(u) => Starts(q)
    <2>1. h.op = "Start" => Starts(q)
      BY <1>1 DEF Starts
    <2>2. ASSUME Starts(u) PROVE Starts(q)
      <3>1. PICK i \in 1..Len(u) : u[i].op = "Start"
        BY <2>2 DEF Starts
      <3>2. i + 1 \in 1..Len(q) /\ u[i] = q[i + 1]
        BY <1>1
      <3> QED
        BY <3>1, <3>2 DEF Starts
    <2> QED
      BY <2>1, <2>2
  <1>4. ASSUME EndsInStop(q)
        PROVE  EndsInStop(u) \/ (h.op \in {"Stop", "Shutdown"} /\ ~Starts(u))
    <2>1. PICK i \in 1..Len(q) : /\ q[i].op \in {"Stop", "Shutdown"}
                                 /\ \A j \in (i + 1)..Len(q) : q[j].op # "Start"
      BY <1>4 DEF EndsInStop
    <2>2. CASE i = 1
      <3>1. \A k \in 1..Len(u) : u[k].op # "Start"
        <4> TAKE k \in 1..Len(u)
        <4>1. u[k] = q[k + 1] /\ k + 1 \in (i + 1)..Len(q)
          BY <1>1, <2>2
        <4> QED
          BY <2>1, <4>1
      <3> QED
        BY <1>1, <2>1, <2>2, <3>1 DEF Starts
    <2>3. CASE i # 1
      <3>1. i - 1 \in 1..Len(u) /\ u[i - 1] = q[i]
        BY <1>1, <2>3
      <3>2. \A k \in ((i - 1) + 1)..Len(u) : u[k].op # "Start"
        <4> TAKE k \in ((i - 1) + 1)..Len(u)
        <4>1. u[k] = q[k + 1] /\ k + 1 \in (i + 1)..Len(q)
          BY <1>1, <2>3
        <4> QED
          BY <2>1, <4>1
      <3> QED
        BY <2>1, <3>1, <3>2 DEF EndsInStop
    <2> QED
      BY <2>2, <2>3
  <1> QED
    BY <1>2, <1>3, <1>4 DEF h, u

\* Who waits for a request has no part in it.
LEMMA QueueSameOps ==
  ASSUME NEW q \in Seq(Request), NEW r \in Seq(Request), Len(r) = Len(q),
         \A i \in 1..Len(q) : r[i].op = q[i].op
  PROVE  (Starts(r) <=> Starts(q)) /\ (EndsInStop(r) <=> EndsInStop(q))
  <1>1. Len(q) \in Nat
    OBVIOUS
  <1>2. \A i \in 1..Len(q) : \A j \in (i + 1)..Len(q) : j \in 1..Len(q)
    BY <1>1
  <1> QED
    BY <1>1, <1>2 DEF Starts, EndsInStop

-----------------------------------------------------------------------------
(* The invariant *)

Stopping == Doing("Stop") \/ Doing("Shutdown")

Serving ==
  /\ child = "launched" => Doing("Start")
  /\ child = "serving" => helper.state = "running" \/ (helper.state = "stopping" /\ Stopping)

\* A thread waits only for the last request there is.
WaitsForLast(h) ==
  /\ \A i \in 1..Len(h.queue) :
       h.queue[i].caller # Nobody => i = Len(h.queue) /\ thread[h.queue[i].caller].pc = "called"
  /\ h.doing.caller # Nobody => h.queue = <<>> /\ thread[h.doing.caller].pc = "called"

Callers == WaitsForLast(helper)

Inside(t) == thread[t].pc \in {"called", "replied"}
Mutex == \A t, u \in Thread : Inside(t) /\ Inside(u) => t = u

\* A reply that is still to be looked at is not out of date.
Replied ==
  \A t \in Thread : thread[t].pc = "replied" =>
    /\ helper.queue = <<>> /\ Doing("none")
    /\ child = "serving" => Running(thread[t].state)

\* There is a broker that may serve, or there will be one.
Danger == child \in {"launched", "serving"} \/ Doing("Start") \/ Starts(helper.queue)

\* Whatever starts, a stop comes after it.
StopsLast == EndsInStop(helper.queue) \/ (Stopping /\ ~Starts(helper.queue))

StopQueued == \E t \in Thread : thread[t].pc = "queued" /\ thread[t].op = "Stop"

Armed == Danger => StopsLast \/ disarmed \/ (ownerStarted /\ (active \/ StopQueued))

IInv == Types /\ Serving /\ Callers /\ Mutex /\ Replied /\ Armed

-----------------------------------------------------------------------------
(* Steps of a thread outside the mutex *)

\* Such a step, with the helper left alone, touches only what the thread has queued.
LEMMA ThreadMoves ==
  ASSUME IInv, NEW t \in Thread, ~Inside(t), NEW x \in ThreadState, x.pc \notin {"called", "replied"},
         thread' = [thread EXCEPT ![t] = x], UNCHANGED <<helper, child>>
  PROVE  /\ thread' \in [Thread -> ThreadState] /\ helper' \in Helper
         /\ Serving' /\ Callers' /\ Mutex' /\ Replied' /\ (Danger' <=> Danger) /\ (StopsLast' <=> StopsLast)
         /\ StopQueued /\ ~(thread[t].pc = "queued" /\ thread[t].op = "Stop") => StopQueued'
         /\ x.pc = "queued" /\ x.op = "Stop" => StopQueued'
  <1> USE CompanionAssumption
  <1>1. thread \in [Thread -> ThreadState] /\ helper \in Helper /\ Serving /\ Callers /\ Mutex /\ Replied
    BY DEF IInv, Types
  <1>2. thread' \in [Thread -> ThreadState] /\ helper' \in Helper
    BY <1>1
  <1>3. thread'[t] = x /\ \A u \in Thread : u # t => thread'[u] = thread[u]
    BY <1>1
  <1>4. Serving' /\ (Danger' <=> Danger) /\ (StopsLast' <=> StopsLast)
    BY <1>1 DEF Serving, Danger, StopsLast, Stopping, Doing
  <1>5. \A u \in Thread : Inside(u)' <=> Inside(u)
    BY <1>3 DEF Inside
  <1>6. Mutex'
    BY <1>1, <1>5 DEF Mutex
  <1>7. Callers'
    <2>1. \A c \in Thread \cup {Nobody} :
            c # Nobody /\ thread[c].pc = "called" => thread'[c].pc = "called"
      BY <1>3 DEF Inside
    <2>2. helper.queue \in Seq(Request) /\ helper.doing \in Work
      BY <1>1 DEF Helper
    <2>3. \A i \in 1..Len(helper.queue) : helper.queue[i].caller \in Thread \cup {Nobody}
      <3>1. \A i \in 1..Len(helper.queue) : helper.queue[i] \in Request
        BY <2>2
      <3> QED
        BY <3>1 DEF Request
    <2>4. helper.doing.caller \in Thread \cup {Nobody}
      BY <2>2 DEF Work
    <2> QED
      BY <1>1, <2>1, <2>3, <2>4 DEF Callers, WaitsForLast
  <1>8. Replied'
    BY <1>1, <1>3 DEF Replied, Doing
  <1>9. /\ StopQueued /\ ~(thread[t].pc = "queued" /\ thread[t].op = "Stop") => StopQueued'
        /\ x.pc = "queued" /\ x.op = "Stop" => StopQueued'
    BY <1>3 DEF StopQueued
  <1> QED
    BY <1>2, <1>4, <1>6, <1>7, <1>8, <1>9

LEMMA ThreadMovesSafely ==
  ASSUME IInv, NEW t \in Thread, NEW x \in ThreadState, x.pc \notin {"called", "replied"}, ~Inside(t),
         thread' = [thread EXCEPT ![t] = x], UNCHANGED <<helper, child, ownerStarted, disarmed>>,
         active' \in BOOLEAN,
         StopQueued' \/ (active' <=> active), StopQueued => StopQueued'
  PROVE  IInv'
  <1>1. /\ thread' \in [Thread -> ThreadState] /\ helper' \in Helper
        /\ Serving' /\ Callers' /\ Mutex' /\ Replied' /\ (Danger' <=> Danger) /\ (StopsLast' <=> StopsLast)
    BY ThreadMoves
  <1>2. Armed'
    BY <1>1 DEF IInv, Armed
  <1> QED
    BY <1>1, <1>2 DEF IInv, Types

-----------------------------------------------------------------------------
(* Each action keeps the invariant *)

LEMMA CommandsKeepIt ==
  ASSUME IInv, NEW t \in Thread,
         \/ \E op \in {"Start", "Install"} : Ask(t, op)
         \/ \E agreed \in BOOLEAN : DialogAnswered(t, agreed)
         \/ Poll(t) \/ OsEvent(t) \/ Round(t)
  PROVE  IInv'
  <1> DEFINE Stays(x) == /\ x \in ThreadState /\ x.pc \notin {"called", "replied"}
                        /\ thread' = [thread EXCEPT ![t] = x]
                        /\ ~Inside(t) /\ ~(thread[t].pc = "queued" /\ thread[t].op = "Stop")
  <1>1. Types
    BY DEF IInv
  <1>2. UNCHANGED <<helper, child, ownerStarted, active, disarmed>>
    BY DEF Ask, DialogAnswered, Poll, OsEvent, Round, SpawnStop, Begin, supervisor, broker
  <1>3. \E x : Stays(x)
    <2>1. ASSUME NEW op \in {"Start", "Install"}, Ask(t, op) PROVE Stays([pc |-> "dialog", op |-> op])
      BY <2>1 DEF Ask, Begin, Idle, Inside, ThreadState
    <2>2. CASE Poll(t)
      <3>1. Stays([pc |-> "queued", op |-> "Status"])
        BY <2>2 DEF Poll, Begin, Idle, Inside, ThreadState, Queued
      <3> QED
        BY <3>1
    <2>3. CASE OsEvent(t) \/ Round(t)
      <3>1. Stays([pc |-> "spawned"])
        BY <2>3 DEF OsEvent, Round, SpawnStop, Begin, Idle, Inside, ThreadState
      <3> QED
        BY <3>1
    <2>4. ASSUME NEW agreed \in BOOLEAN, DialogAnswered(t, agreed)
          PROVE  Stays(IF agreed /\ phase = "unlocked" THEN Queued(thread[t].op) ELSE Idle)
      <3>1. thread[t] \in ThreadState /\ thread[t].pc = "dialog"
        BY <1>1, <2>4 DEF Types, DialogAnswered
      <3>2. thread[t].op \in {"Start", "Stop", "Status", "Install"}
        BY <3>1 DEF ThreadState, Idle
      <3>3. Queued(thread[t].op) \in ThreadState /\ Queued(thread[t].op).pc = "queued" /\ Idle \in ThreadState
        BY <3>2 DEF Queued, ThreadState, Idle
      <3> QED
        BY <2>4, <3>1, <3>3 DEF DialogAnswered, Inside, Idle
    <2> HIDE DEF Stays
    <2> QED
      BY <2>1, <2>2, <2>3, <2>4
  <1>4. PICK x : Stays(x)
    BY <1>3
  <1>5. StopQueued => StopQueued'
    <2>1. \A u \in Thread : u # t => thread'[u] = thread[u]
      BY <1>1, <1>4 DEF Types
    <2> QED
      BY <1>4, <2>1 DEF StopQueued
  <1>6. active' \in BOOLEAN
    BY <1>1, <1>2 DEF Types
  <1> QED
    BY <1>1, <1>2, <1>4, <1>5, <1>6, ThreadMovesSafely

LEMMA StopsKeepIt ==
  ASSUME IInv, NEW t \in Thread, PressStop(t) \/ StopIfActive(t)
  PROVE  IInv'
  <1> DEFINE asked == PressStop(t) \/ active
             x == IF asked THEN Queued("Stop") ELSE Idle
  <1>1. Types
    BY DEF IInv
  <1>2. /\ thread' = [thread EXCEPT ![t] = x] /\ active' = FALSE
        /\ ~Inside(t) /\ thread[t].pc # "queued"
        /\ UNCHANGED <<helper, child, ownerStarted, disarmed>>
    BY DEF PressStop, StopIfActive, Begin, Idle, Inside, broker
  <1>3. x \in ThreadState /\ x.pc \notin {"called", "replied"}
    BY DEF ThreadState, Queued, Idle
  <1>4. asked => x.pc = "queued" /\ x.op = "Stop"
    BY DEF Queued
  <1>5. ~asked => active = FALSE
    BY <1>1 DEF Types
  <1> HIDE DEF x, asked
  <1>6. (asked => StopQueued') /\ (StopQueued => StopQueued')
    BY <1>2, <1>3, <1>4, ThreadMoves
  <1> QED
    BY <1>2, <1>3, <1>5, <1>6, ThreadMovesSafely

LEMMA CallKeepsIt ==
  ASSUME IInv, NEW t \in Thread, Call(t)
  PROVE  IInv'
  <1> USE CompanionAssumption
  <1> DEFINE op == thread[t].op
             q == helper.queue
  <1>1. /\ Types /\ Serving /\ Callers /\ Mutex /\ Replied /\ Armed
        /\ thread[t].pc = "queued" /\ ~Inside(t) /\ (\A u \in Thread : ~Inside(u)) /\ child' = child
    BY DEF IInv, Call, MutexFree, Inside, broker
  <1>2. thread[t] \in ThreadState /\ q \in Seq(Request) /\ helper.doing \in Work /\ helper.state \in State
    BY <1>1 DEF Types, Helper
  <1>3. op \in {"Start", "Stop", "Status", "Install"}
    BY <1>1, <1>2 DEF ThreadState, Idle
  <1>4. CASE ~Reachable(op)
    <2>1. /\ thread' = [thread EXCEPT ![t] = Idle] /\ active' = ownerStarted
          /\ UNCHANGED <<helper, child, ownerStarted, disarmed>> /\ op # "Stop"
      BY <1>1, <1>4 DEF Call, Unanswered, Reachable
    <2>2. Idle \in ThreadState /\ Idle.pc \notin {"called", "replied"}
      BY DEF Idle, ThreadState
    <2> HIDE DEF op, q
    <2>3. /\ thread' \in [Thread -> ThreadState] /\ helper' \in Helper
          /\ Serving' /\ Callers' /\ Mutex' /\ Replied' /\ (Danger' <=> Danger) /\ (StopsLast' <=> StopsLast)
      BY <1>1, <2>1, <2>2, ThreadMoves
    <2>4. Armed'
      BY <1>1, <2>1, <2>3 DEF Armed
    <2> QED
      BY <1>1, <2>1, <2>3, <2>4 DEF IInv, Types
  <1>5. CASE Reachable(op)
    <2> DEFINE r == [op |-> op, caller |-> t]
               p == Append(q, r)
    <2>1. /\ disarmed' = CASE op = "Install" -> disarmed \/ MayServe
                           [] op \in {"Start", "Stop"} -> FALSE
                           [] OTHER -> disarmed
          /\ ownerStarted' = CASE op = "Start" -> TRUE [] op = "Status" -> ownerStarted [] OTHER -> FALSE
          /\ active' = (active \/ op = "Start")
          /\ thread' = [thread EXCEPT ![t].pc = "called"]
          /\ helper' = [helper EXCEPT !.queue = p]
      BY <1>5 DEF Call
    <2>2. r \in Request
      BY <1>3 DEF Request, Op
    <2>3. /\ helper' \in Helper /\ helper'.queue = p /\ helper'.doing = helper.doing
          /\ helper'.state = helper.state
      <3>1. p \in Seq(Request)
        BY <1>2, <2>2
      <3> HIDE DEF p
      <3> QED
        BY <1>1, <2>1, <3>1 DEF Types, Helper
    <2>4. /\ p \in Seq(Request) /\ (Starts(p) <=> Starts(q) \/ op = "Start")
          /\ (op = "Stop" => EndsInStop(p))
          /\ (EndsInStop(q) /\ op # "Start" => EndsInStop(p))
      <3> HIDE DEF q, op
      <3> QED
        BY <1>2, <2>2, QueueAppend
    <2>5. /\ thread' \in [Thread -> ThreadState] /\ thread'[t].pc = "called"
          /\ \A u \in Thread : u # t => thread'[u] = thread[u]
      <3>1. [thread[t] EXCEPT !.pc = "called"] \in ThreadState
        BY <1>1, <1>2 DEF ThreadState, Idle
      <3>2. [thread[t] EXCEPT !.pc = "called"].pc = "called"
        BY <1>1, <1>2 DEF ThreadState, Idle
      <3>3. thread' = [thread EXCEPT ![t] = [thread[t] EXCEPT !.pc = "called"]]
        BY <2>1
      <3> QED
        BY <1>1, <3>1, <3>2, <3>3 DEF Types
    <2>6. Types'
      <3>1. MayServe \in BOOLEAN
        BY DEF MayServe
      <3> QED
        BY <1>1, <1>3, <2>1, <2>3, <2>5, <3>1 DEF Types
    <2>7. Serving'
      BY <1>1, <2>3 DEF Serving, Stopping, Doing
    <2>8. Callers'
      <3>1. helper.doing.caller = Nobody /\ \A i \in 1..Len(q) : q[i].caller = Nobody
        <4>1. \A i \in 1..Len(q) : q[i].caller \in Thread \cup {Nobody}
          <5>1. \A i \in 1..Len(q) : q[i] \in Request
            BY <1>2
          <5> QED
            BY <5>1 DEF Request
        <4>2. helper.doing.caller \in Thread \cup {Nobody}
          BY <1>2 DEF Work
        <4> QED
          BY <1>1, <4>1, <4>2 DEF Callers, WaitsForLast, Inside
      <3>2. Len(p) = Len(q) + 1 /\ Len(q) \in Nat /\ p[Len(p)] = r /\ \A i \in 1..Len(q) : p[i] = q[i]
        BY <1>2, <2>2
      <3>3. r.caller = t
        OBVIOUS
      <3> HIDE DEF p, q, r
      <3>4. \A i \in 1..Len(p) : p[i].caller # Nobody => i = Len(p) /\ thread'[p[i].caller].pc = "called"
        BY <2>5, <3>1, <3>2, <3>3
      <3> QED
        BY <2>3, <3>1, <3>4 DEF Callers, WaitsForLast
    <2>9. Mutex' /\ Replied'
      BY <1>1, <2>5 DEF Mutex, Replied, Inside
    <2>10. Armed'
      <3>1. /\ (Danger' => Danger \/ op = "Start") /\ (Danger => MayServe)
            /\ StopsLast /\ op # "Start" => StopsLast'
        <4>1. Starts(q) => \E i \in DOMAIN q : q[i].op = "Start"
          BY <1>2 DEF Starts
        <4> HIDE DEF p, op
        <4> QED
          BY <1>1, <2>3, <2>4, <4>1 DEF Danger, MayServe, StopsLast, Stopping, Doing
      <3>2. StopQueued /\ op # "Stop" => StopQueued'
        BY <2>5 DEF StopQueued
      <3>3. op = "Stop" => StopsLast'
        BY <2>3, <2>4 DEF StopsLast
      <3> HIDE DEF op, p, q
      <3> QED
        BY <1>1, <1>3, <2>1, <3>1, <3>2, <3>3 DEF Armed
    <2> QED
      BY <2>6, <2>7, <2>8, <2>9, <2>10 DEF IInv
  <1> QED
    BY <1>4, <1>5

LEMMA ViewKeepsIt ==
  ASSUME IInv, NEW t \in Thread, View(t)
  PROVE  IInv'
  <1> DEFINE running == Running(thread[t].state)
  <1>1. /\ Types /\ Serving /\ Callers /\ Mutex /\ Replied /\ Armed
        /\ thread[t].pc = "replied" /\ thread' = [thread EXCEPT ![t] = Idle]
        /\ active' = running /\ ownerStarted' = (ownerStarted /\ running)
        /\ UNCHANGED <<helper, child, disarmed>>
    BY DEF IInv, View, broker
  <1>2. running \in BOOLEAN
    BY DEF Running
  <1> HIDE DEF running
  <1>3. /\ thread' \in [Thread -> ThreadState] /\ thread'[t] = Idle
        /\ \A u \in Thread : u # t => thread'[u] = thread[u]
    BY <1>1 DEF Types, ThreadState
  <1>4. Types'
    BY <1>1, <1>2, <1>3 DEF Types
  <1>5. helper.queue = <<>> /\ Doing("none") /\ (child = "serving" => running)
    BY <1>1 DEF Replied, running
  <1>6. Serving'
    BY <1>1 DEF Serving, Stopping, Doing
  <1>7. Callers'
    <2>1. Len(helper.queue) = 0
      BY <1>5
    <2>2. helper.doing.caller \in Thread \cup {Nobody}
      BY <1>1 DEF Types, Helper, Work
    <2>3. helper.doing.caller # Nobody => helper.doing.caller # t
      BY <1>1 DEF Callers, WaitsForLast
    <2> QED
      BY <1>1, <1>3, <2>1, <2>2, <2>3 DEF Callers, WaitsForLast
  <1>8. Mutex' /\ Replied'
    BY <1>1, <1>3 DEF Mutex, Replied, Inside, Idle, Doing
  <1>9. Armed'
    <2>1. Danger' => child = "serving"
      BY <1>1, <1>5 DEF Danger, Serving, Doing, Starts
    <2>2. StopQueued => StopQueued'
      BY <1>1, <1>3 DEF StopQueued
    <2>3. StopsLast' <=> StopsLast
      BY <1>1 DEF StopsLast, Stopping, Doing
    <2>4. Danger' <=> Danger
      BY <1>1 DEF Danger, Doing
    <2> QED
      BY <1>1, <1>5, <2>1, <2>2, <2>3, <2>4 DEF Armed
  <1> QED
    BY <1>4, <1>6, <1>7, <1>8, <1>9 DEF IInv

LEMMA TimeoutKeepsIt ==
  ASSUME IInv, NEW t \in Thread, TimedOut(t)
  PROVE  IInv'
  <1> USE CompanionAssumption
  <1> DEFINE q == helper.queue
             p == [i \in DOMAIN q |-> Forgotten(q[i], t)]
             d == Forgotten(helper.doing, t)
  <1>1. /\ Types /\ Serving /\ Callers /\ Mutex /\ Replied /\ Armed
        /\ thread[t].pc = "called" /\ thread' = [thread EXCEPT ![t] = Idle]
        /\ active' = ownerStarted
        /\ helper' = [helper EXCEPT !.queue = p, !.doing = d]
        /\ UNCHANGED <<child, ownerStarted, disarmed>>
    BY DEF IInv, TimedOut, Unanswered, broker
  <1>2. q \in Seq(Request) /\ helper.doing \in Work /\ helper.state \in State
    BY <1>1 DEF Types, Helper
  <1>3. ASSUME NEW r \in Request
        PROVE  /\ Forgotten(r, t) \in Request /\ Forgotten(r, t).op = r.op
               /\ Forgotten(r, t).caller # Nobody => Forgotten(r, t).caller = r.caller /\ r.caller # t
    BY DEF Forgotten, Request
  <1>4. /\ p \in Seq(Request) /\ Len(p) = Len(q) /\ Len(q) \in Nat
        /\ \A i \in 1..Len(q) : q[i] \in Request /\ p[i] = Forgotten(q[i], t)
    <2>1. \A i \in DOMAIN q : q[i] \in Request
      BY <1>2
    <2>2. \A i \in DOMAIN q : Forgotten(q[i], t) \in Request
      BY <1>3, <2>1
    <2>3. DOMAIN q = 1..Len(q) /\ Len(q) \in Nat
      BY <1>2
    <2> QED
      BY <2>1, <2>2, <2>3
  <1>5. /\ d \in Work /\ d.op = helper.doing.op
        /\ d.caller # Nobody => d.caller = helper.doing.caller /\ d.caller # t
    BY <1>2 DEF Forgotten, Work
  <1>6. \A i \in 1..Len(q) : /\ p[i].op = q[i].op
                             /\ p[i].caller # Nobody => p[i].caller = q[i].caller /\ p[i].caller # t
    <2> TAKE i \in 1..Len(q)
    <2> HIDE DEF p, q
    <2>1. q[i] \in Request /\ p[i] = Forgotten(q[i], t)
      BY <1>4
    <2> QED
      BY <1>3, <2>1
  <1> HIDE DEF p, d
  <1>7. helper' \in Helper /\ helper'.queue = p /\ helper'.doing = d /\ helper'.state = helper.state
    BY <1>1, <1>4, <1>5 DEF Types, Helper
  <1>8. (Starts(p) <=> Starts(q)) /\ (EndsInStop(p) <=> EndsInStop(q))
    <2> HIDE DEF q
    <2> QED
      BY <1>2, <1>4, <1>6, QueueSameOps
  <1>9. /\ thread' \in [Thread -> ThreadState] /\ thread'[t] = Idle
        /\ \A u \in Thread : u # t => thread'[u] = thread[u]
    BY <1>1 DEF Types, ThreadState
  <1>10. Types'
    BY <1>1, <1>7, <1>9 DEF Types
  <1>11. Serving'
    BY <1>1, <1>5, <1>7 DEF Serving, Stopping, Doing
  <1>12. Callers'
    <2>1. \A i \in 1..Len(p) : p[i].caller # Nobody => i = Len(p) /\ thread'[p[i].caller].pc = "called"
      <3> SUFFICES ASSUME NEW i \in 1..Len(p), p[i].caller # Nobody
                   PROVE  i = Len(p) /\ thread'[p[i].caller].pc = "called"
        OBVIOUS
      <3>1. /\ q[i].caller # t /\ p[i].caller = q[i].caller /\ q[i].caller # Nobody
            /\ q[i] \in Request /\ i \in 1..Len(q)
        BY <1>4, <1>6
      <3>2. q[i].caller \in Thread
        BY <3>1 DEF Request
      <3> QED
        BY <1>1, <1>4, <1>9, <3>1, <3>2 DEF Callers, WaitsForLast
    <2>2. d.caller # Nobody => p = <<>> /\ thread'[d.caller].pc = "called"
      <3> SUFFICES ASSUME d.caller # Nobody PROVE p = <<>> /\ thread'[d.caller].pc = "called"
        OBVIOUS
      <3>1. helper.doing.caller # t /\ helper.doing.caller # Nobody /\ d.caller = helper.doing.caller
        BY <1>5
      <3>2. helper.doing.caller \in Thread
        BY <1>2, <3>1 DEF Work
      <3>3. q = <<>> /\ thread[helper.doing.caller].pc = "called"
        BY <1>1, <3>1 DEF Callers, WaitsForLast
      <3> QED
        BY <1>4, <1>9, <3>1, <3>2, <3>3
    <2> QED
      BY <1>7, <2>1, <2>2 DEF Callers, WaitsForLast
  <1>13. Mutex'
    BY <1>1, <1>9 DEF Mutex, Inside, Idle
  <1>14. Replied'
    BY <1>1, <1>9 DEF Replied, Mutex, Inside, Idle
  <1>15. Armed'
    BY <1>1, <1>5, <1>7, <1>8 DEF Armed, Danger, StopsLast, Stopping, Doing
  <1> QED
    BY <1>10, <1>11, <1>12, <1>13, <1>14, <1>15 DEF IInv

\* The helper, in the state h, answers the request it works on.
LEMMA Answers ==
  ASSUME Types, Mutex, \A u \in Thread : thread[u].pc # "replied",
         NEW h \in Helper, WaitsForLast(h), Answer(h), child' = "serving" => h.state = "running"
  PROVE  /\ Types' /\ Callers' /\ Mutex' /\ Replied' /\ (StopQueued <=> StopQueued')
         /\ helper'.queue = h.queue /\ helper'.doing.op = "none" /\ helper'.state = h.state
         /\ UNCHANGED <<ownerStarted, active, disarmed>>
  <1> USE CompanionAssumption
  <1> DEFINE c == h.doing.caller
  <1>1. /\ helper' = [h EXCEPT !.doing = NoRequest]
        /\ thread' = [t \in Thread |-> IF t = c THEN [pc |-> "replied", state |-> h.state] ELSE thread[t]]
        /\ UNCHANGED <<ownerStarted, active, disarmed>>
    BY DEF Answer, supervisor
  <1>2. h.queue \in Seq(Request) /\ c \in Thread \cup {Nobody} /\ h.state \in State
    BY DEF Helper, Work
  <1>3. NoRequest \in Work /\ NoRequest.caller = Nobody /\ NoRequest.op = "none"
    BY DEF NoRequest, Work
  <1>4. /\ helper' \in Helper /\ helper'.queue = h.queue /\ helper'.doing = NoRequest
        /\ helper'.state = h.state
    BY <1>1, <1>3 DEF Helper
  <1>5. c # Nobody => h.queue = <<>> /\ thread[c].pc = "called"
    BY DEF WaitsForLast
  <1> HIDE DEF c
  <1>6. /\ \A u \in Thread : u # c => thread'[u] = thread[u]
        /\ c # Nobody => c \in Thread /\ thread'[c].pc = "replied" /\ thread'[c].state = h.state
    BY <1>1, <1>2
  <1>7. Types'
    <2>1. thread' \in [Thread -> ThreadState]
      BY <1>1, <1>2 DEF Types, ThreadState
    <2> QED
      BY <1>1, <1>4, <2>1 DEF Types
  <1>8. Callers'
    <2>1. \A i \in 1..Len(h.queue) :
            h.queue[i].caller # Nobody => i = Len(h.queue) /\ thread'[h.queue[i].caller].pc = "called"
      <3> SUFFICES ASSUME NEW i \in 1..Len(h.queue), h.queue[i].caller # Nobody
                   PROVE  i = Len(h.queue) /\ thread'[h.queue[i].caller].pc = "called"
        OBVIOUS
      <3>1. h.queue[i] \in Request /\ h.queue # <<>>
        BY <1>2
      <3>2. h.queue[i].caller \in Thread /\ c = Nobody
        BY <1>5, <3>1 DEF Request
      <3> QED
        BY <1>6, <3>2 DEF WaitsForLast
    <2> QED
      BY <1>3, <1>4, <2>1 DEF Callers, WaitsForLast
  <1>9. Mutex'
    BY <1>2, <1>5, <1>6 DEF Mutex, Inside
  <1>10. Replied'
    <2> SUFFICES ASSUME NEW u \in Thread, thread'[u].pc = "replied"
                 PROVE  /\ helper'.queue = <<>> /\ helper'.doing.op = "none"
                        /\ child' = "serving" => Running(thread'[u].state)
      BY DEF Replied, Doing, Running
    <2>1. u = c /\ c # Nobody
      BY <1>6
    <2> QED
      BY <1>3, <1>4, <1>5, <1>6, <2>1 DEF Running
  <1>11. StopQueued <=> StopQueued'
    BY <1>2, <1>5, <1>6 DEF StopQueued
  <1> QED
    BY <1>1, <1>3, <1>4, <1>7, <1>8, <1>9, <1>10, <1>11

-----------------------------------------------------------------------------
(* The helper and the broker *)

\* The next request leaves the queue.
LEMMA HelperTakes ==
  ASSUME IInv, Doing("none"), helper.queue # <<>>,
         NEW h, h = [helper EXCEPT !.doing = Head(helper.queue), !.queue = Tail(@)]
  PROVE  /\ h \in Helper /\ WaitsForLast(h) /\ \A u \in Thread : thread[u].pc # "replied"
         /\ h.doing = Head(helper.queue) /\ h.queue = Tail(helper.queue) /\ h.state = helper.state
         /\ h.doing.op \in Op
         /\ Starts(helper.queue) <=> h.doing.op = "Start" \/ Starts(h.queue)
         /\ StopsLast => EndsInStop(h.queue) \/ (h.doing.op \in {"Stop", "Shutdown"} /\ ~Starts(h.queue))
  <1> DEFINE q == helper.queue
             a == Head(q)
             u == Tail(q)
  <1>1. Types /\ Callers /\ Replied
    BY DEF IInv
  <1>2. q \in Seq(Request) /\ helper.doing \in Work /\ helper.state \in State /\ q # <<>>
    BY <1>1 DEF Types, Helper
  <1>3. /\ a \in Request /\ a \in Work /\ a = q[1] /\ Len(q) \in Nat \ {0}
        /\ u \in Seq(Request) /\ Len(u) = Len(q) - 1
        /\ \A i \in 1..(Len(q) - 1) : u[i] = q[i + 1]
    <2> HIDE DEF q
    <2>1. /\ a \in Request /\ u \in Seq(Request) /\ a = q[1] /\ Len(u) = Len(q) - 1 /\ Len(q) \in Nat \ {0}
          /\ \A i \in 1..(Len(q) - 1) : u[i] = q[i + 1]
      BY <1>2, QueueTail
    <2> QED
      BY <2>1 DEF Request, Work
  <1>4. /\ Starts(q) <=> a.op = "Start" \/ Starts(u)
        /\ EndsInStop(q) => EndsInStop(u) \/ (a.op \in {"Stop", "Shutdown"} /\ ~Starts(u))
    <2> HIDE DEF q
    <2> QED
      BY <1>2, QueueTake
  <1> HIDE DEF a, u
  <1>5. h = [[helper EXCEPT !.doing = a] EXCEPT !.queue = u]
    BY <1>1 DEF a, u, Types, Helper
  <1>6. h \in Helper /\ h.doing = a /\ h.queue = u /\ h.state = helper.state
    <2> DEFINE g == [helper EXCEPT !.doing = a]
    <2>1. g \in Helper /\ g.doing = a /\ g.state = helper.state
      BY <1>1, <1>3 DEF Types, Helper
    <2>2. h = [g EXCEPT !.queue = u]
      BY <1>5
    <2> HIDE DEF g
    <2> QED
      BY <1>3, <2>1, <2>2 DEF Helper
  <1>7. WaitsForLast(h)
    <2>1. \A i \in 1..Len(u) : u[i].caller # Nobody => i = Len(u) /\ thread[u[i].caller].pc = "called"
      <3> SUFFICES ASSUME NEW i \in 1..Len(u), u[i].caller # Nobody
                   PROVE  i = Len(u) /\ thread[u[i].caller].pc = "called"
        OBVIOUS
      <3>1. u[i] = q[i + 1] /\ i + 1 \in 1..Len(q)
        BY <1>3
      <3> QED
        BY <1>1, <1>3, <3>1 DEF Callers, WaitsForLast
    <2>2. a.caller # Nobody => u = <<>> /\ thread[a.caller].pc = "called"
      <3> SUFFICES ASSUME a.caller # Nobody PROVE u = <<>> /\ thread[a.caller].pc = "called"
        OBVIOUS
      <3> HIDE DEF q
      <3>1. 1 \in 1..Len(q) /\ q[1].caller # Nobody
        BY <1>3
      <3>2. 1 = Len(q) /\ thread[q[1].caller].pc = "called"
        BY <1>1, <3>1 DEF Callers, WaitsForLast, q
      <3>3. Len(u) = 0
        <4>1. Len(u) = Len(q) - 1
          BY <1>3
        <4>2. Len(q) = 1
          BY <3>2
        <4> QED
          BY <4>1, <4>2
      <3>4. u = <<>>
        BY <1>3, <3>3
      <3> QED
        BY <1>3, <3>2, <3>4
    <2> QED
      BY <1>6, <2>1, <2>2 DEF WaitsForLast
  <1>8. \A v \in Thread : thread[v].pc # "replied"
    BY <1>1 DEF Replied
  <1>9. h.doing.op \in Op
    BY <1>3, <1>6 DEF Request
  <1>10. StopsLast => EndsInStop(q)
    BY DEF StopsLast, Stopping, Doing
  <1> QED
    BY <1>3, <1>4, <1>6, <1>7, <1>8, <1>9, <1>10 DEF a, u

\* An answer that leaves nothing new to be afraid of.
LEMMA AnswersSafely ==
  ASSUME IInv, \A u \in Thread : thread[u].pc # "replied",
         NEW h \in Helper, WaitsForLast(h), Answer(h),
         child' = "serving" => h.state = "running", child' # "launched",
         child' = "serving" \/ Starts(h.queue) => Danger,
         (child' = "serving" \/ Starts(h.queue)) /\ StopsLast => EndsInStop(h.queue)
  PROVE  IInv'
  <1>1. Types /\ Mutex /\ Armed
    BY DEF IInv
  <1>2. /\ Types' /\ Callers' /\ Mutex' /\ Replied' /\ (StopQueued <=> StopQueued')
        /\ helper'.queue = h.queue /\ helper'.doing.op = "none" /\ helper'.state = h.state
        /\ UNCHANGED <<ownerStarted, active, disarmed>>
    BY <1>1, Answers
  <1>3. Serving'
    BY <1>2 DEF Serving
  <1>4. Danger' <=> child' = "serving" \/ Starts(h.queue)
    BY <1>2 DEF Danger, Doing
  <1>5. EndsInStop(h.queue) => StopsLast'
    BY <1>2 DEF StopsLast
  <1>6. Armed'
    BY <1>1, <1>2, <1>4, <1>5 DEF Armed
  <1> QED
    BY <1>2, <1>3, <1>6 DEF IInv

LEMMA TakeKeepsIt ==
  ASSUME IInv, Take
  PROVE  IInv'
  <1> DEFINE h == [helper EXCEPT !.doing = Head(helper.queue), !.queue = Tail(@)]
             op == h.doing.op
  <1>1. Types /\ Serving /\ Mutex /\ Armed /\ Doing("none") /\ helper.queue # <<>>
    BY DEF IInv, Take
  <1>2. /\ h \in Helper /\ WaitsForLast(h) /\ \A u \in Thread : thread[u].pc # "replied"
        /\ h.state = helper.state /\ op \in Op
        /\ Starts(helper.queue) <=> op = "Start" \/ Starts(h.queue)
        /\ StopsLast => EndsInStop(h.queue) \/ (op \in {"Stop", "Shutdown"} /\ ~Starts(h.queue))
    BY <1>1, HelperTakes
  <1> DEFINE emptied == [h EXCEPT !.queue = <<>>]
             with(s) == [h EXCEPT !.state = s]
             answered == op = "Status" \/ (op = "Start" /\ child # "none") \/ (op = "Stop" /\ child = "none")
             stopped == IF h.state = "error" THEN h.state ELSE "stopping"
  <1>3. answered => Answer(h) /\ UNCHANGED broker
    BY DEF Take
  <1>4. op = "Shutdown" /\ child = "none" => Answer(emptied) /\ UNCHANGED broker
    BY DEF Take
  <1>5. op = "Start" /\ child = "none" =>
          \/ Answer(with("error")) /\ UNCHANGED broker
          \/ helper' = with("starting") /\ child' = "launched" /\ UNCHANGED <<supervisor, thread>>
    BY DEF Take, Starting
  <1>6. op \in {"Stop", "Shutdown"} /\ child # "none" =>
          helper' = with(stopped) /\ UNCHANGED <<supervisor, thread, broker>>
    BY DEF Take
  <1>7. op = "Install" =>
          /\ UNCHANGED broker
          /\ (child # "none" /\ Answer(h)) \/ (child = "none" /\ \E s \in State : Answer(with(s)))
    BY DEF Take, State
  <1> HIDE DEF h
  <1>8. /\ emptied \in Helper /\ WaitsForLast(emptied) /\ emptied.queue = <<>>
        /\ \A s \in State : /\ with(s) \in Helper /\ WaitsForLast(with(s)) /\ with(s).queue = h.queue
                            /\ with(s).doing = h.doing /\ with(s).state = s
    <2>1. /\ emptied \in Helper /\ emptied.queue = <<>> /\ emptied.doing = h.doing
      <3> DEFINE none == <<>>
      <3>1. none \in Seq(Request)
        OBVIOUS
      <3>2. emptied = [h EXCEPT !.queue = none]
        OBVIOUS
      <3> HIDE DEF none, emptied
      <3>3. /\ emptied \in Helper /\ emptied.queue = none /\ emptied.doing = h.doing
        BY <1>2, <3>1, <3>2 DEF Helper
      <3> QED
        BY <3>3 DEF none
    <2>2. WaitsForLast(emptied)
      <3> HIDE DEF emptied
      <3>1. Len(emptied.queue) = 0
        BY <2>1
      <3> QED
        BY <1>2, <2>1, <3>1 DEF WaitsForLast
    <2>3. ASSUME NEW s \in State
          PROVE  /\ with(s) \in Helper /\ WaitsForLast(with(s)) /\ with(s).queue = h.queue
                 /\ with(s).doing = h.doing /\ with(s).state = s
      <3>1. with(s) \in Helper /\ with(s).queue = h.queue /\ with(s).doing = h.doing /\ with(s).state = s
        BY <1>2 DEF Helper
      <3> HIDE DEF with
      <3> QED
        BY <1>2, <3>1 DEF WaitsForLast
    <2> QED
      BY <2>1, <2>2, <2>3
  <1>9. child # "launched" /\ (child = "serving" => h.state = "running" /\ Danger)
    BY <1>1, <1>2 DEF Serving, Stopping, Doing, Danger
  <1>10. /\ Starts(h.queue) => Danger
         /\ child = "serving" \/ Starts(h.queue) =>
              (StopsLast => EndsInStop(h.queue) \/ (op \in {"Stop", "Shutdown"} /\ child = "serving"))
    BY <1>1, <1>2 DEF Danger
  <1>11. CASE answered \/ (op = "Install" /\ child # "none")
    BY <1>2, <1>3, <1>7, <1>9, <1>10, <1>11, AnswersSafely DEF broker
  <1> HIDE DEF emptied, with
  <1>12. CASE op = "Shutdown" /\ child = "none"
    <2>1. ~Starts(emptied.queue)
      BY <1>8 DEF Starts
    <2> QED
      BY <1>2, <1>4, <1>8, <1>12, <2>1, AnswersSafely DEF broker
  <1>13. CASE op = "Install" /\ child = "none"
    BY <1>2, <1>7, <1>8, <1>10, <1>13, AnswersSafely DEF broker
  <1>14. CASE op = "Start" /\ child = "none" /\ Answer(with("error")) /\ UNCHANGED broker
    <2>1. "error" \in State
      BY DEF State
    <2> QED
      BY <1>2, <1>8, <1>10, <1>14, <2>1, AnswersSafely DEF broker
  <1>15. CASE /\ op = "Start" /\ helper' = with("starting") /\ child' = "launched"
              /\ UNCHANGED <<supervisor, thread>>
    <2>1. "starting" \in State
      BY DEF State
    <2>2. /\ helper' \in Helper /\ WaitsForLast(helper') /\ helper'.queue = h.queue /\ helper'.doing = h.doing
      BY <1>8, <1>15, <2>1
    <2>3. Types' /\ Serving' /\ Callers' /\ Mutex' /\ Replied'
      BY <1>1, <1>2, <1>15, <2>2
         DEF Types, Serving, Callers, WaitsForLast, Mutex, Inside, Replied, Doing, supervisor
    <2>4. Danger /\ (StopsLast => StopsLast')
      BY <1>2, <1>15, <2>2 DEF Danger, StopsLast
    <2>5. StopQueued' <=> StopQueued
      BY <1>15 DEF StopQueued
    <2>6. Armed'
      BY <1>1, <1>15, <2>4, <2>5 DEF Armed, supervisor
    <2> QED
      BY <2>3, <2>6 DEF IInv
  <1>16. CASE op \in {"Stop", "Shutdown"} /\ child # "none"
    <2>1. stopped \in State
      BY <1>2 DEF State, Helper
    <2> HIDE DEF stopped
    <2>2. /\ helper' \in Helper /\ WaitsForLast(helper') /\ helper'.queue = h.queue /\ helper'.doing = h.doing
          /\ helper'.state = stopped
      BY <1>6, <1>8, <1>16, <2>1
    <2>3. child' = "serving" => helper'.state = "stopping"
      BY <1>6, <1>9, <1>16, <2>2 DEF broker, stopped
    <2>4. Types' /\ Serving' /\ Callers' /\ Mutex' /\ Replied'
      BY <1>1, <1>2, <1>6, <1>9, <1>16, <2>2, <2>3
         DEF Types, Serving, Stopping, Callers, WaitsForLast, Mutex, Inside, Replied, Doing, supervisor, broker
    <2>5. (Danger' => Danger) /\ (StopsLast => StopsLast')
      BY <1>2, <1>6, <1>16, <2>2 DEF Danger, StopsLast, Stopping, Doing, broker
    <2>6. StopQueued' <=> StopQueued
      BY <1>6, <1>16 DEF StopQueued
    <2>7. Armed'
      BY <1>1, <1>6, <1>16, <2>5, <2>6 DEF Armed, supervisor
    <2> QED
      BY <2>4, <2>7 DEF IInv
  <1> QED
    BY <1>2, <1>5, <1>11, <1>12, <1>13, <1>14, <1>15, <1>16 DEF Op

LEMMA EndsKeepIt ==
  ASSUME IInv, StartEnds \/ StopEnds
  PROVE  IInv'
  <1> DEFINE ended == [helper EXCEPT !.state = IF @ = "stopping" THEN "stopped" ELSE @]
             failed == [helper EXCEPT !.state = "error"]
  <1>1. Types /\ Serving /\ Callers /\ Replied
    BY DEF IInv
  <1>2. helper \in Helper
    BY <1>1 DEF Types
  <1>3. ~Doing("none") /\ \A u \in Thread : thread[u].pc # "replied"
    BY <1>1 DEF StartEnds, StopEnds, Doing, Replied
  <1>4. ASSUME NEW h, h \in {helper, ended, failed}
        PROVE  h \in Helper /\ h.queue = helper.queue /\ WaitsForLast(h)
    <2>1. h \in Helper /\ h.queue = helper.queue /\ h.doing = helper.doing
      BY <1>2, <1>4 DEF Helper, State
    <2> HIDE DEF ended, failed
    <2> QED
      BY <1>1, <2>1 DEF Callers, WaitsForLast
  <1>5. CASE StartEnds
    <2>1. /\ Doing("Start") /\ ~Stopping
          /\ \/ child' = child /\ child # "launched" /\ Answer(helper)
             \/ child' = "ending" /\ Answer(failed)
      BY <1>5 DEF StartEnds, Stopping, Doing, broker
    <2>2. child' = "serving" => child = "serving" /\ helper.state = "running" /\ Answer(helper)
      BY <1>1, <2>1 DEF Serving
    <2>3. Danger /\ (StopsLast => EndsInStop(helper.queue))
      BY <2>1 DEF Danger, StopsLast
    <2>4. CASE child' = child /\ child # "launched" /\ Answer(helper)
      BY <1>3, <1>4, <2>2, <2>3, <2>4, AnswersSafely
    <2>5. CASE child' = "ending" /\ Answer(failed)
      <3> HIDE DEF failed, ended
      <3> QED
        BY <1>3, <1>4, <2>3, <2>5, AnswersSafely
    <2> QED
      BY <2>1, <2>4, <2>5
  <1>6. CASE StopEnds
    <2>1. Stopping /\ child' \in {"none", "ending"} /\ Answer(ended)
      BY <1>6 DEF StopEnds, Stopping
    <2>2. Starts(helper.queue) => Danger /\ (StopsLast => EndsInStop(helper.queue))
      BY DEF Danger, StopsLast
    <2> HIDE DEF ended, failed
    <2> QED
      BY <1>3, <1>4, <2>1, <2>2, AnswersSafely
  <1> QED
    BY <1>5, <1>6

\* The broker's own steps change the helper's state at most.
LEMMA BrokerKeepsIt ==
  ASSUME IInv,
         \/ BrokerReady \/ BrokerErrs \/ BrokerCrashes \/ Exited
         \/ \E why \in {"owner", "expired"} : BrokerStops(why)
  PROVE  IInv'
  <1>1. Types /\ Serving /\ Callers /\ Mutex /\ Replied /\ Armed
    BY DEF IInv
  <1>2. UNCHANGED <<ownerStarted, active, disarmed, thread>>
    BY DEF BrokerReady, BrokerErrs, BrokerCrashes, Exited, BrokerStops, supervisor
  <1>3. PICK s \in State : helper' = [helper EXCEPT !.state = s]
    <2>1. helper \in Helper /\ AfterExit(helper.state) \in State
      BY <1>1 DEF Types, Helper, AfterExit, State
    <2>2. helper = [helper EXCEPT !.state = helper.state] /\ helper.state \in State
      BY <2>1 DEF Helper
    <2> QED
      BY <2>1, <2>2 DEF BrokerReady, BrokerErrs, BrokerCrashes, Exited, BrokerStops, State
  <1>4. /\ helper' \in Helper /\ helper'.queue = helper.queue /\ helper'.doing = helper.doing
        /\ helper'.state = s
    BY <1>1, <1>3 DEF Types, Helper
  <1>5. \/ child' = "serving" /\ child = "launched" /\ s = "running"
        \/ child' \in {"none", "ending"}
    <2>1. CASE BrokerReady
      <3>1. helper' = [helper EXCEPT !.state = "running"] /\ child = "launched" /\ child' = "serving"
        BY <2>1 DEF BrokerReady
      <3>2. helper'.state = "running"
        BY <1>1, <3>1 DEF Types, Helper
      <3> QED
        BY <1>4, <3>1, <3>2
    <2>2. CASE ~BrokerReady
      BY <2>2 DEF BrokerErrs, BrokerCrashes, Exited, BrokerStops
    <2> QED
      BY <2>1, <2>2
  <1>6. child = "launched" => Doing("Start")
    BY <1>1 DEF Serving
  <1>7. Types'
    BY <1>1, <1>2, <1>4 DEF Types
  <1>8. Serving' /\ Callers' /\ Mutex' /\ Replied'
    BY <1>1, <1>2, <1>4, <1>5, <1>6
       DEF Serving, Callers, WaitsForLast, Mutex, Inside, Replied, Doing
  <1>9. /\ Danger' => Danger
        /\ StopsLast' <=> StopsLast
        /\ StopQueued' <=> StopQueued
    BY <1>2, <1>4, <1>5 DEF Danger, StopsLast, Stopping, Doing, StopQueued
  <1>10. Armed'
    BY <1>1, <1>2, <1>9 DEF Armed
  <1> QED
    BY <1>7, <1>8, <1>10 DEF IInv

\* The app's end puts a shutdown behind all there is; the helper's end takes everything with it.
LEMMA DeathsKeepIt ==
  ASSUME IInv, AppExits \/ HelperDies
  PROVE  IInv'
  <1> USE CompanionAssumption
  <1>1. Types /\ Serving /\ Callers /\ Mutex /\ Replied /\ Armed
    BY DEF IInv
  <1>2. CASE AppExits
    <2> DEFINE q == helper.queue
               orphans == [i \in DOMAIN q |-> [q[i] EXCEPT !.caller = Nobody]]
               last == [op |-> "Shutdown", caller |-> Nobody]
               p == Append(orphans, last)
               d == [helper.doing EXCEPT !.caller = Nobody]
    <2>1. /\ thread' = [t \in Thread |-> Idle] /\ active' = FALSE
          /\ UNCHANGED <<ownerStarted, disarmed, child>>
      BY <1>2 DEF AppExits, broker
    <2>2. helper' = [[helper EXCEPT !.queue = p] EXCEPT !.doing = d]
      BY <1>1, <1>2 DEF AppExits, Types, Helper
    <2>3. q \in Seq(Request) /\ helper.doing \in Work /\ helper.state \in State
      BY <1>1 DEF Types, Helper
    <2>4. /\ orphans \in Seq(Request) /\ Len(orphans) = Len(q) /\ Len(q) \in Nat
          /\ \A i \in 1..Len(q) : orphans[i].caller = Nobody
      <3>1. \A i \in DOMAIN q : q[i] \in Request
        BY <2>3
      <3>2. \A i \in DOMAIN q : [q[i] EXCEPT !.caller = Nobody] \in Request
        BY <3>1 DEF Request
      <3>3. \A i \in DOMAIN q : [q[i] EXCEPT !.caller = Nobody].caller = Nobody
        BY <3>1 DEF Request
      <3>4. DOMAIN q = 1..Len(q) /\ Len(q) \in Nat
        BY <2>3
      <3> QED
        BY <3>2, <3>3, <3>4
    <2>5. last \in Request /\ last.caller = Nobody /\ last.op = "Shutdown"
      BY DEF Request, Op
    <2>6. d \in Work /\ d.caller = Nobody /\ d.op = helper.doing.op
      BY <2>3 DEF Work
    <2> HIDE DEF orphans, last, d
    <2>7. p \in Seq(Request) /\ EndsInStop(p)
      BY <2>4, <2>5, QueueAppend
    <2>8. \A i \in 1..Len(p) : p[i].caller = Nobody
      <3>1. /\ Len(p) = Len(orphans) + 1 /\ p[Len(orphans) + 1] = last
            /\ \A i \in 1..Len(orphans) : p[i] = orphans[i]
        BY <2>4, <2>5
      <3> HIDE DEF p
      <3> QED
        BY <2>4, <2>5, <3>1
    <2> HIDE DEF p
    <2>9. /\ helper' \in Helper /\ helper'.queue = p /\ helper'.doing = d /\ helper'.state = helper.state
      <3> DEFINE g == [helper EXCEPT !.queue = p]
      <3>1. g \in Helper /\ g.queue = p /\ g.doing = helper.doing /\ g.state = helper.state
        BY <1>1, <2>7 DEF Types, Helper
      <3>2. helper' = [g EXCEPT !.doing = d]
        BY <2>2
      <3> HIDE DEF g
      <3> QED
        BY <2>6, <3>1, <3>2 DEF Helper
    <2>10. Types'
      BY <1>1, <2>1, <2>9 DEF Types, ThreadState
    <2>11. Serving' /\ Callers' /\ Mutex' /\ Replied'
      BY <1>1, <2>1, <2>6, <2>8, <2>9
         DEF Serving, Stopping, Callers, WaitsForLast, Mutex, Inside, Replied, Doing, Idle
    <2>12. Armed'
      BY <2>7, <2>9 DEF Armed, StopsLast
    <2> QED
      BY <2>10, <2>11, <2>12 DEF IInv
  <1>3. CASE HelperDies
    <2>1. /\ helper' = [queue |-> <<>>, doing |-> NoRequest, state |-> "stopped"] /\ child' = "none"
          /\ thread' = [t \in Thread |-> IF thread[t].pc = "called" THEN Idle ELSE thread[t]]
          /\ (active' = ownerStarted \/ active' = active) /\ UNCHANGED <<ownerStarted, disarmed>>
      BY <1>3 DEF HelperDies, Unanswered
    <2>2. /\ helper'.queue = <<>> /\ helper'.doing = NoRequest /\ helper' \in Helper
          /\ NoRequest.op = "none" /\ NoRequest.caller = Nobody
      BY <2>1 DEF Helper, Work, State, NoRequest
    <2>3. /\ thread' \in [Thread -> ThreadState]
          /\ \A t \in Thread : Inside(t)' => thread'[t] = thread[t] /\ Inside(t) /\ thread'[t].pc = "replied"
      BY <1>1, <2>1 DEF Types, ThreadState, Inside, Idle
    <2>4. Types'
      BY <1>1, <2>1, <2>2, <2>3 DEF Types
    <2>5. Len(helper'.queue) = 0
      BY <2>2
    <2>6. Serving' /\ Callers' /\ Mutex' /\ Replied' /\ ~Danger'
      BY <1>1, <2>1, <2>2, <2>3, <2>5
         DEF Serving, Callers, WaitsForLast, Mutex, Inside, Replied, Doing, Danger, Starts
    <2> QED
      BY <2>4, <2>6 DEF IInv, Armed
  <1> QED
    BY <1>2, <1>3

LEMMA QuietStepsKeepIt ==
  ASSUME IInv, UNCHANGED <<ownerStarted, active, disarmed, thread, helper, child>>
  PROVE  IInv'
  BY DEF IInv, Types, Serving, Callers, WaitsForLast, Mutex, Inside, Replied, Armed, Danger,
         StopsLast, Stopping, Doing, StopQueued

-----------------------------------------------------------------------------
(* The theorems *)

LEMMA Begins == CompanionInit => IInv
  <1> SUFFICES ASSUME CompanionInit PROVE IInv
    OBVIOUS
  <1>1. /\ helper.queue = <<>> /\ helper.doing = NoRequest /\ helper \in Helper /\ Len(helper.queue) = 0
        /\ NoRequest.op = "none" /\ NoRequest.caller = Nobody
    BY DEF CompanionInit, Helper, Work, State, NoRequest
  <1>2. Types /\ \A t \in Thread : thread[t].pc = "idle"
    BY <1>1 DEF CompanionInit, Types, ThreadState, Idle
  <1> QED
    BY <1>1, <1>2 DEF CompanionInit, IInv, Serving, Callers, WaitsForLast, Mutex, Inside, Replied, Armed,
                      Danger, Doing, Starts

LEMMA Keeps == IInv /\ [CompanionNext]_companionVars => IInv'
  <1> SUFFICES ASSUME IInv, [CompanionNext]_companionVars PROVE IInv'
    OBVIOUS
  <1>1. ASSUME NEW t \in Thread,
               \/ \E op \in {"Start", "Install"} : Ask(t, op)
               \/ \E agreed \in BOOLEAN : DialogAnswered(t, agreed)
               \/ PressStop(t) \/ Poll(t) \/ OsEvent(t) \/ TimedOut(t)
               \/ Round(t) \/ StopIfActive(t) \/ Call(t) \/ View(t)
        PROVE  IInv'
    BY <1>1, CommandsKeepIt, StopsKeepIt, CallKeepsIt, ViewKeepsIt, TimeoutKeepsIt
  <1>2. CASE HelperSteps
    BY <1>2, TakeKeepsIt, EndsKeepIt DEF HelperSteps
  <1>3. CASE PhaseMoves \/ AppMoved \/ UNCHANGED companionVars
    <2>1. UNCHANGED <<ownerStarted, active, disarmed, thread, helper, child>>
      BY <1>3 DEF PhaseMoves, AppMoved, companionVars, supervisor, broker
    <2> QED
      BY <2>1, QuietStepsKeepIt
  <1>4. CASE AppExits \/ HelperDies
    BY <1>4, DeathsKeepIt
  <1>5. CASE \/ BrokerReady \/ BrokerErrs \/ BrokerCrashes \/ Exited
             \/ \E why \in {"owner", "expired"} : BrokerStops(why)
    BY <1>5, BrokerKeepsIt
  <1> QED
    BY <1>1, <1>2, <1>3, <1>4, <1>5 DEF CompanionNext, Rounds, ThreadSteps

LEMMA Suffices == IInv => ArmedWhileServing
  <1> SUFFICES ASSUME IInv, child = "serving" PROVE active \/ StopIsComing \/ disarmed
    BY DEF ArmedWhileServing
  <1>1. Armed /\ Danger /\ helper.queue \in Seq(Request)
    BY DEF IInv, Danger, Types, Helper
  <1>2. CASE StopsLast
    <2>1. DOMAIN helper.queue = 1..Len(helper.queue)
      BY <1>1
    <2> QED
      BY <1>2, <2>1 DEF StopsLast, EndsInStop, Stopping, StopIsComing
  <1>3. CASE disarmed \/ active
    BY <1>3
  <1>4. CASE StopQueued
    BY <1>4 DEF StopQueued, StopIsComing
  <1> QED
    BY <1>1, <1>2, <1>3, <1>4 DEF Armed

\* While a broker serves, the app will stop it at the next lock or a stop is on its way, whatever
\* came late, failed or timed out (Companion::run, Companion::view and the helper's queue).
THEOREM ServingIsArmed == CompanionSpec => []ArmedWhileServing
  <1>1. CompanionInit => IInv
    BY Begins
  <1>2. IInv /\ [CompanionNext]_companionVars => IInv'
    BY Keeps
  <1>3. IInv => ArmedWhileServing
    BY Suffices
  <1> QED
    BY <1>1, <1>2, <1>3, PTL DEF CompanionSpec

\* At most one thread is in a call to the helper, and a reply that is not yet looked at tells what
\* holds: the helper is idle, and if a broker serves the reply says that it runs (the mutex held
\* through Companion::run).
THEOREM RepliesAreCurrent == CompanionSpec => [](Mutex /\ Replied)
  <1>1. CompanionInit => IInv
    BY Begins
  <1>2. IInv /\ [CompanionNext]_companionVars => IInv'
    BY Keeps
  <1>3. IInv => Mutex /\ Replied
    BY DEF IInv
  <1> QED
    BY <1>1, <1>2, <1>3, PTL DEF CompanionSpec

(***************************************************************************)
(* Touch ID.  For any bindings, leases, crashes and failures: what is      *)
(* registered has its item, an item that is not registered is owed a       *)
(* removal, and a touch opens the Vault only if nothing has revoked it.    *)
(* Registration and item change in different steps, so the argument is     *)
(* about who may still act on either: a lease that is turning Touch ID on  *)
(* finds nothing registered and answers for the item, and whatever asks    *)
(* for a removal has first taken the registration off the disk.            *)
(***************************************************************************)

Bindings == Binding \cup {Off}

CoreStates ==
  [phase : {"locked", "unlocked"}, guardUp : BOOLEAN, pending : BOOLEAN,
   native : {"none", "change", "enroll"}, fresh : BOOLEAN,
   registration : Bindings, verified : Bindings, request : {"none", "enroll", "unlock"},
   setting : Bindings, needed : BOOLEAN, failed : BOOLEAN]

Stages == {"begun", "asking", "prepared", "presenting", "work", "clearing", "cleared",
           "not_cleared", "wrap", "touch", "unpublish", "settle", "failing", "ended",
           "refused", "dropped"}

LeaseStates ==
  [pc : Stages, kind : {"enroll", "unlock"}, cancelled : BOOLEAN, incomplete : BOOLEAN,
   binding : Bindings, key : Bindings, why : {"none", "cancelled", "missed", "failed"}]

AroundOK ==
  /\ file \in Binding /\ clock \in BOOLEAN /\ days \in Nat
  /\ leases \in Nat /\ mishaps \in Nat

-----------------------------------------------------------------------------
(* What holds of the core c, the lease l, whoever is busy b, whether a     *)
(* removal is due, the item i, and the two histories m (the Master         *)
(* Password was typed for) and x (called off).  The parameters are there   *)
(* because a method runs first and a sync, which moves what it needed to   *)
(* the lease or the cleaner, follows in the same step.                     *)

PartsOK(c, l, b, due, i, m, x) ==
  /\ c \in CoreStates
  /\ l \in {NoLease} \cup LeaseStates
  /\ b \in {"free", "lease", "removing", "reporting", "complaining", "releasing"}
  /\ due \in BOOLEAN
  /\ i \in Bindings /\ m \in Bindings /\ x \in BOOLEAN

\* A lease and the cleaner exclude each other.
Exclusive(l, b) == l.pc # "none" <=> b = "lease"

Incomplete(l) == l.pc # "none" /\ l.incomplete
Owing(l) == Incomplete(l) => l.kind = "enroll"
RunningIn(l, kind, stages) == l.pc \in stages /\ l.kind = kind

\* What is removed, or will be, belongs to no registration on the disk.
RemovalIsSafe(c, l, b, due) ==
  due \/ c.needed \/ b = "removing" \/ Incomplete(l) => c.setting = Off

OnlyEnrolling == {"asking", "work", "clearing", "cleared", "not_cleared", "wrap", "unpublish"}
Ends == {"ended", "refused", "dropped"}
Working == {"work", "clearing", "cleared", "not_cleared", "wrap", "touch", "unpublish", "settle"}

\* While Touch ID is being turned on, nothing is registered, the lease answers for the item, and
\* once removals that were due are done no other can become due without calling it off.
Enrolling(c, l, due, i) ==
  /\ l.pc \in OnlyEnrolling => l.kind = "enroll"
  /\ RunningIn(l, "enroll", Stages \ (Ends \cup {"begun"})) => c.setting = Off
  /\ RunningIn(l, "enroll", Working) => l.incomplete
  /\ RunningIn(l, "enroll", Working \ {"work"}) /\ c.pending => ~due /\ ~c.needed
  /\ l.pc = "settle" => l.key = i

ItemIsOwed(c, l, b, due, i) ==
  /\ b = "reporting" => i = Off
  /\ i # Off /\ c.setting = Off
       => c.needed \/ due \/ c.failed \/ b \in {"removing", "complaining"} \/ Incomplete(l)

Uncalled(c, l, x) ==
  RunningIn(l, "unlock", Stages \ {"begun"}) /\ c.pending /\ ~l.cancelled => ~x

Sound(c, l, b, due, i, m, x) ==
  /\ PartsOK(c, l, b, due, i, m, x)
  /\ Exclusive(l, b)
  /\ Owing(l)
  /\ RemovalIsSafe(c, l, b, due)
  /\ Enrolling(c, l, due, i)
  /\ ItemIsOwed(c, l, b, due, i)
  /\ Uncalled(c, l, x)
  /\ c.verified \in {m, Off}
  /\ c.setting \in {i, Off}

\* A removal that the start of the app has found due is handed on by the first thing that happens.
HandedOn(c, l) == c.needed => l.pc \in {"none", "begun"}

QuickInv ==
  /\ AroundOK
  /\ Sound(core, lease, busy, cleanup, item, master, disturbed)
  /\ HandedOn(core, lease)

-----------------------------------------------------------------------------
(* The core: what a method may do that neither verifies a Master Password nor ends an enrollment. *)

\* A registration only goes, and what goes is to be removed; a press is only called off.
Follows(c, d) ==
  /\ d \in CoreStates
  /\ d.setting = c.setting \/ (d.setting = Off /\ d.needed)
  /\ c.needed => d.needed
  /\ d.needed => c.needed \/ (d.setting = Off /\ ~d.pending)
  /\ d.failed = c.failed
  /\ d.pending => c.pending
  /\ d.verified \in {c.verified, Off}

LEMMA FollowsOn ==
  ASSUME NEW c, NEW d, NEW e, Follows(c, d), Follows(d, e)
  PROVE  Follows(c, e)
  BY DEF Follows

LEMMA CancelPendingFollows ==
  ASSUME NEW c \in CoreStates, NEW d, d = CancelPending(c)
  PROVE  Follows(c, d) /\ d.phase = c.phase /\ d.pending = c.pending /\ d.setting = c.setting
         /\ d.needed = c.needed /\ d.registration = c.registration /\ d.verified = c.verified
  BY DEF CancelPending, CoreStates, Follows

LEMMA RevokedFollows ==
  ASSUME NEW c \in CoreStates, NEW d, d = Revoked(c)
  PROVE  Follows(c, d) /\ d.phase = c.phase /\ d.pending = c.pending /\ d.setting = c.setting
         /\ d.needed = c.needed /\ d.registration = c.registration
  <1> DEFINE x == CancelPending(c)
  <1>1. x \in CoreStates /\ Follows(c, x) /\ x.phase = c.phase /\ x.pending = c.pending
        /\ x.setting = c.setting /\ x.needed = c.needed /\ x.registration = c.registration
    BY CancelPendingFollows DEF Follows
  <1>2. d = [x EXCEPT !.verified = Off]
    BY DEF Revoked
  <1> HIDE DEF x
  <1> QED
    BY <1>1, <1>2 DEF CoreStates, Follows, Bindings

LEMMA InvalidateNativeFollows ==
  ASSUME NEW c \in CoreStates, NEW d, d = InvalidateNative(c)
  PROVE  Follows(c, d) /\ d.phase = c.phase /\ ~d.pending /\ d.setting = c.setting
         /\ d.needed = c.needed /\ d.registration = c.registration /\ d.verified = c.verified
  <1> DEFINE x == CancelPending(c)
  <1>1. x \in CoreStates /\ Follows(c, x) /\ x.phase = c.phase /\ x.pending = c.pending
        /\ x.setting = c.setting /\ x.needed = c.needed /\ x.registration = c.registration
        /\ x.verified = c.verified
    BY CancelPendingFollows DEF Follows
  <1>2. d = [x EXCEPT !.pending = FALSE, !.native = "none", !.fresh = FALSE]
    BY DEF InvalidateNative
  <1> HIDE DEF x
  <1> QED
    BY <1>1, <1>2 DEF CoreStates, Follows

LEMMA TickFollows ==
  ASSUME NEW c \in CoreStates, NEW d, d = Tick(c)
  PROVE  Follows(c, d) /\ d.phase = c.phase /\ d.setting = c.setting /\ d.needed = c.needed
  <1>1. PICK g : g = GateTick(c)
    OBVIOUS
  <1>2. /\ Follows(c, g) /\ g \in CoreStates
        /\ g.phase = c.phase /\ g.setting = c.setting /\ g.needed = c.needed
    <2>1. CASE g = c
      BY <2>1 DEF Follows
    <2>2. CASE g = Revoked(c)
      BY <2>2, RevokedFollows DEF Follows
    <2> QED
      BY <1>1, <2>1, <2>2 DEF GateTick
  <1>3. CASE d = g
    BY <1>2, <1>3
  <1>4. CASE d = InvalidateNative(g)
    <2>1. Follows(g, d) /\ d.phase = g.phase /\ d.setting = g.setting /\ d.needed = g.needed
      BY <1>2, <1>4, InvalidateNativeFollows
    <2> QED
      BY <1>2, <2>1, FollowsOn
  <1> QED
    BY <1>1, <1>3, <1>4 DEF Tick

LEMMA DisableFollows ==
  ASSUME NEW c \in CoreStates, NEW writes \in BOOLEAN, NEW d, d = Disable(c, writes)
  PROVE  Follows(c, d) /\ d.phase = c.phase /\ ~d.pending
  <1>1. PICK x : x = InvalidateNative(c)
    OBVIOUS
  <1>2. x \in CoreStates /\ Follows(c, x) /\ x.phase = c.phase /\ ~x.pending
        /\ x.setting = c.setting /\ x.needed = c.needed
    BY <1>1, InvalidateNativeFollows DEF Follows
  <1>3. PICK y : y = [x EXCEPT !.registration = Off]
    OBVIOUS
  <1>4. y \in CoreStates /\ Follows(c, y) /\ y.phase = c.phase /\ ~y.pending
    BY <1>2, <1>3 DEF CoreStates, Follows, Bindings
  <1>5. d = IF writes THEN [y EXCEPT !.setting = Off, !.needed = TRUE] ELSE y
    BY <1>1, <1>3 DEF Disable
  <1> QED
    BY <1>4, <1>5 DEF CoreStates, Follows, Bindings

LEMMA InvalidateRegistrationFollows ==
  ASSUME NEW c \in CoreStates, NEW writes \in BOOLEAN, NEW d, d = InvalidateRegistration(c, writes)
  PROVE  /\ Follows(c, d) /\ d.phase = c.phase /\ ~d.pending
         /\ Invalidated(c, writes) => d.setting = Off
  <1>1. PICK x : x = Revoked(c)
    OBVIOUS
  <1>2. x \in CoreStates /\ Follows(c, x) /\ x.phase = c.phase
        /\ x.setting = c.setting /\ x.needed = c.needed
    BY <1>1, RevokedFollows DEF Follows
  <1>3. PICK y : y = [x EXCEPT !.registration = Off, !.pending = FALSE]
    OBVIOUS
  <1>4. y \in CoreStates /\ Follows(c, y) /\ y.phase = c.phase /\ ~y.pending
        /\ y.setting = c.setting
    BY <1>2, <1>3 DEF CoreStates, Follows, Bindings
  <1>5. d = IF Existed(c) /\ writes THEN [y EXCEPT !.setting = Off, !.needed = TRUE] ELSE y
    BY <1>1, <1>3 DEF InvalidateRegistration
  <1>6. CASE Existed(c) /\ writes
    BY <1>4, <1>5, <1>6 DEF CoreStates, Follows, Bindings
  <1>7. CASE ~(Existed(c) /\ writes)
    BY <1>4, <1>5, <1>7 DEF Invalidated, Existed
  <1> QED
    BY <1>6, <1>7

-----------------------------------------------------------------------------
(* Methods, cancellation and sync keep Sound. *)

LEMMA SoundFollows ==
  ASSUME NEW c, NEW d, NEW l, NEW b, NEW due, NEW i, NEW m, NEW x,
         Sound(c, l, b, due, i, m, x), HandedOn(c, l), Follows(c, d)
  PROVE  Sound(d, l, b, due, i, m, x)
  <1> USE DEF Sound, Follows
  <1>1. PartsOK(d, l, b, due, i, m, x)
    BY DEF PartsOK
  <1>2. RemovalIsSafe(d, l, b, due)
    BY DEF RemovalIsSafe
  <1>3. Enrolling(d, l, due, i)
    <2>1. RunningIn(l, "enroll", Stages \ (Ends \cup {"begun"})) => d.setting = Off
      BY DEF Enrolling
    <2>2. RunningIn(l, "enroll", Working \ {"work"}) /\ d.pending => ~due /\ ~d.needed
      BY DEF Enrolling, HandedOn, RunningIn, Working, PartsOK, CoreStates
    <2> QED
      BY <2>1, <2>2 DEF Enrolling
  <1>4. ItemIsOwed(d, l, b, due, i)
    BY DEF ItemIsOwed
  <1>5. Uncalled(d, l, x)
    BY DEF Uncalled
  <1>6. d.verified \in {m, Off} /\ d.setting \in {i, Off}
    OBVIOUS
  <1> QED
    BY <1>1, <1>2, <1>3, <1>4, <1>5, <1>6

LEMMA CancelledIsLease ==
  ASSUME NEW l \in LeaseStates, NEW k, k = [l EXCEPT !.cancelled = TRUE]
  PROVE  /\ k \in LeaseStates /\ k.cancelled
         /\ k.pc = l.pc /\ k.kind = l.kind /\ k.incomplete = l.incomplete
         /\ k.binding = l.binding /\ k.key = l.key
  BY DEF LeaseStates

LEMMA LeaseOrNone ==
  ASSUME NEW l \in {NoLease} \cup LeaseStates
  PROVE  /\ l.pc = "none" <=> l = NoLease
         /\ l.pc # "none" => l \in LeaseStates
  BY DEF NoLease, LeaseStates, Stages

LEMMA SoundCancelled ==
  ASSUME NEW c, NEW l, NEW b, NEW due, NEW i, NEW m, NEW x,
         Sound(c, l, b, due, i, m, x), NEW k, k = Cancelled(l) \/ (l.pc # "none" /\ k = [l EXCEPT !.cancelled = TRUE])
  PROVE  Sound(c, k, b, due, i, m, x) /\ k.pc = l.pc
  <1>1. CASE k = l
    BY <1>1
  <1>2. CASE l.pc # "none" /\ k = [l EXCEPT !.cancelled = TRUE]
    <2>1. l \in LeaseStates
      BY <1>2, LeaseOrNone DEF Sound, PartsOK
    <2>2. /\ k \in LeaseStates /\ k.cancelled
          /\ k.pc = l.pc /\ k.kind = l.kind /\ k.incomplete = l.incomplete /\ k.key = l.key
      BY <1>2, <2>1, CancelledIsLease
    <2>3. PartsOK(c, k, b, due, i, m, x) /\ Exclusive(k, b) /\ Owing(k)
          /\ RemovalIsSafe(c, k, b, due)
      BY <2>2 DEF Sound, PartsOK, Exclusive, Owing, RemovalIsSafe, Incomplete
    <2>4. Enrolling(c, k, due, i)
      BY <2>2 DEF Sound, Enrolling, RunningIn
    <2>5. ItemIsOwed(c, k, b, due, i) /\ Uncalled(c, k, x)
      BY <2>2 DEF Sound, ItemIsOwed, Incomplete, Uncalled, RunningIn
    <2> QED
      BY <2>2, <2>3, <2>4, <2>5 DEF Sound
  <1> QED
    BY <1>1, <1>2 DEF Cancelled

\* Once nothing is pending it does not matter what was called off.
LEMMA SoundDisturbed ==
  ASSUME NEW c, NEW l, NEW b, NEW due, NEW i, NEW m, NEW x, NEW y \in BOOLEAN,
         Sound(c, l, b, due, i, m, x), y = x \/ ~c.pending \/ (l.pc # "none" => l.cancelled) \/ ~y
  PROVE  Sound(c, l, b, due, i, m, y)
  BY DEF Sound, PartsOK, Uncalled, RunningIn, Stages

LEMMA Sync ==
  ASSUME NEW c, NEW l, NEW b, NEW i, NEW m, NEW x,
         Sound(c, l, b, cleanup, i, m, x), WithCore(c, l, b)
  PROVE  /\ Sound(core', lease', busy', cleanup', i, m, x)
         /\ HandedOn(core', lease')
  <1> DEFINE d == [c EXCEPT !.needed = FALSE]
             due == (cleanup \/ c.needed) /\ b # "free"
             by == IF (cleanup \/ c.needed) /\ b = "free" THEN "removing" ELSE b
  <1>1. core' = d /\ cleanup' = due /\ busy' = by
    BY DEF WithCore
  <1>2. lease' = l \/ (l.pc # "none" /\ lease' = [l EXCEPT !.cancelled = TRUE])
    BY DEF WithCore, Biometric
  <1>3. /\ d \in CoreStates /\ ~d.needed
        /\ d.setting = c.setting /\ d.failed = c.failed
        /\ d.pending = c.pending /\ d.verified = c.verified
    BY DEF Sound, PartsOK, CoreStates
  <1>4. Sound(d, l, by, due, i, m, x)
    <2> HIDE DEF d
    <2>1. PartsOK(d, l, by, due, i, m, x) /\ Exclusive(l, by)
      BY <1>3 DEF Sound, PartsOK, Exclusive, CoreStates
    <2>2. RemovalIsSafe(d, l, by, due)
      BY <1>3 DEF Sound, RemovalIsSafe
    <2>3. Enrolling(d, l, due, i)
      BY <1>3 DEF Sound, Enrolling
    <2>4. ItemIsOwed(d, l, by, due, i)
      BY <1>3 DEF Sound, ItemIsOwed
    <2>5. Uncalled(d, l, x)
      BY <1>3 DEF Sound, Uncalled
    <2> QED
      BY <1>3, <2>1, <2>2, <2>3, <2>4, <2>5 DEF Sound
  <1> HIDE DEF d, due, by
  <1>5. Sound(core', lease', busy', cleanup', i, m, x)
    BY <1>1, <1>2, <1>4, SoundCancelled
  <1> QED
    BY <1>1, <1>3, <1>5 DEF HandedOn

-----------------------------------------------------------------------------
(* What a lease, the Master Password and a new press do to Sound. *)

\* A lease at another stage, of which Enrolling has been shown.
LEMMA SoundLease ==
  ASSUME NEW c, NEW l, NEW b, NEW due, NEW i, NEW m, NEW x, Sound(c, l, b, due, i, m, x),
         NEW k \in LeaseStates, l.pc # "none",
         k.kind = l.kind, l.cancelled => k.cancelled,
         k.incomplete = l.incomplete \/ (k.kind = "enroll" /\ k.incomplete = (c.setting = Off)),
         Enrolling(c, k, due, i),
         l.pc = "begun" => k.kind = "enroll" \/ ~x
  PROVE  Sound(c, k, b, due, i, m, x)
  <1>1. l \in LeaseStates /\ k.pc # "none"
    BY LeaseOrNone DEF Sound, PartsOK, LeaseStates, Stages
  <1>2. PartsOK(c, k, b, due, i, m, x) /\ Exclusive(k, b) /\ Owing(k)
    BY <1>1 DEF Sound, PartsOK, Exclusive, Owing, Incomplete
  <1>3. RemovalIsSafe(c, k, b, due)
    BY <1>1 DEF Sound, RemovalIsSafe, Incomplete
  <1>4. ItemIsOwed(c, k, b, due, i)
    BY <1>1 DEF Sound, ItemIsOwed, Incomplete
  <1>5. Uncalled(c, k, x)
    BY <1>1 DEF Sound, Uncalled, RunningIn, LeaseStates
  <1> QED
    BY <1>2, <1>3, <1>4, <1>5 DEF Sound

\* The stages at which nothing is asked of an enrollment any more.
LEMMA AtEnd ==
  ASSUME NEW c, NEW k, NEW due, NEW i, k.pc \in Ends
  PROVE  Enrolling(c, k, due, i)
  BY DEF Enrolling, Ends, OnlyEnrolling, Working, RunningIn

LEMMA SoundEnds ==
  ASSUME NEW c, NEW l, NEW b, NEW due, NEW i, NEW m, NEW x, Sound(c, l, b, due, i, m, x),
         NEW q \in Ends, NEW k, k = [l EXCEPT !.pc = q],
         l.pc # "none", l.pc = "begun" => l.kind = "enroll" \/ ~x
  PROVE  Sound(c, k, b, due, i, m, x)
  <1>1. l \in LeaseStates
    BY LeaseOrNone DEF Sound, PartsOK
  <1>2. k \in LeaseStates /\ k.pc = q /\ k.kind = l.kind /\ k.cancelled = l.cancelled
        /\ k.incomplete = l.incomplete
    BY <1>1 DEF LeaseStates, Ends, Stages
  <1> QED
    BY <1>2, AtEnd, SoundLease

LEMMA SoundMaster ==
  ASSUME NEW c, NEW l, NEW b, NEW due, NEW i, NEW m, NEW x, Sound(c, l, b, due, i, m, x),
         HandedOn(c, l), NEW v \in Bindings, NEW d, d = MasterVerified(c, v)
  PROVE  Sound(d, l, b, due, i, v, x) /\ HandedOn(d, l) /\ d.phase = c.phase /\ d.setting = c.setting
         /\ d.needed = c.needed
  <1>1. c \in CoreStates
    BY DEF Sound, PartsOK
  <1>2. CASE ~clock
    <2>1. d = Revoked(c)
      BY <1>2 DEF MasterVerified
    <2>2. Follows(c, d) /\ d.phase = c.phase /\ d.setting = c.setting /\ d.needed = c.needed
      BY <1>1, <2>1, RevokedFollows
    <2>3. d.verified = Off
      BY <1>1, <2>1, CancelPendingFollows DEF Revoked, CoreStates, Follows
    <2>4. Sound(d, l, b, due, i, m, x)
      BY <2>2, SoundFollows
    <2> QED
      BY <2>2, <2>3, <2>4 DEF Sound, PartsOK, HandedOn
  <1>3. CASE clock
    <2>1. PICK y : y = CancelPending(c)
      OBVIOUS
    <2>2. Follows(c, y) /\ y.phase = c.phase /\ y.setting = c.setting /\ y.needed = c.needed
          /\ y \in CoreStates
      BY <1>1, <2>1, CancelPendingFollows DEF Follows
    <2>3. PICK z : z = [y EXCEPT !.registration = IF y.registration = v THEN v ELSE Off]
      OBVIOUS
    <2>4. Follows(c, z) /\ z.phase = c.phase /\ z.setting = c.setting /\ z.needed = c.needed
          /\ z \in CoreStates
      BY <2>2, <2>3 DEF Follows, CoreStates, Bindings
    <2>5. d = [z EXCEPT !.verified = v]
      BY <1>3, <2>1, <2>2, <2>3 DEF MasterVerified, CoreStates
    <2>6. Sound(z, l, b, due, i, m, x)
      BY <2>4, SoundFollows
    <2>7. /\ d \in CoreStates /\ d.phase = c.phase /\ d.setting = z.setting /\ d.needed = z.needed
          /\ d.failed = z.failed /\ d.pending = z.pending /\ d.verified = v
      BY <2>4, <2>5 DEF CoreStates
    <2>8. PartsOK(d, l, b, due, i, v, x) /\ RemovalIsSafe(d, l, b, due) /\ ItemIsOwed(d, l, b, due, i)
      BY <2>6, <2>7 DEF Sound, PartsOK, RemovalIsSafe, ItemIsOwed
    <2>9. Enrolling(d, l, due, i) /\ Uncalled(d, l, x)
      BY <2>6, <2>7 DEF Sound, Enrolling, Uncalled
    <2> QED
      BY <2>4, <2>6, <2>7, <2>8, <2>9 DEF Sound, HandedOn
  <1> QED
    BY <1>2, <1>3

\* The press is now pending, and nothing has called it off.
LEMMA SoundPrepared ==
  ASSUME NEW c, NEW l, NEW b, NEW due, NEW i, NEW m, NEW x, Sound(c, l, b, due, i, m, x),
         l.pc = "asking" \/ (l.pc = "begun" /\ l.kind = "unlock" /\ ~x),
         NEW r \in {"enroll", "unlock"}, NEW d, d = [c EXCEPT !.request = r, !.pending = TRUE, !.fresh = TRUE],
         NEW k \in LeaseStates, k.pc = "prepared", k.kind = l.kind, k.cancelled = l.cancelled,
         k.incomplete = l.incomplete
  PROVE  Sound(d, k, b, due, i, m, x) /\ d.phase = c.phase /\ d.needed = c.needed
  <1>1. /\ d \in CoreStates /\ d.phase = c.phase /\ d.setting = c.setting /\ d.needed = c.needed
        /\ d.failed = c.failed /\ d.verified = c.verified
    BY DEF Sound, PartsOK, CoreStates
  <1>2. l.pc = "asking" => l.kind = "enroll" /\ c.setting = Off
    BY DEF Sound, Enrolling, OnlyEnrolling, RunningIn, Stages, Ends
  <1>3. Enrolling(d, k, due, i)
    BY <1>1, <1>2 DEF Enrolling, OnlyEnrolling, RunningIn, Working
  <1>4. PartsOK(d, k, b, due, i, m, x) /\ Exclusive(k, b) /\ Owing(k)
    BY <1>1 DEF Sound, PartsOK, Exclusive, Owing, Incomplete
  <1>5. RemovalIsSafe(d, k, b, due) /\ ItemIsOwed(d, k, b, due, i)
    BY <1>1 DEF Sound, RemovalIsSafe, ItemIsOwed, Incomplete
  <1>6. Uncalled(d, k, x)
    BY <1>2 DEF Uncalled, RunningIn
  <1> QED
    BY <1>1, <1>3, <1>4, <1>5, <1>6 DEF Sound

\* A step in which a method of the core runs, and a sync after it.
LEMMA CoreStep ==
  ASSUME QuickInv, AroundOK', NEW c, Follows(core, c),
         NEW l, l = lease \/ l = Cancelled(lease), WithCore(c, l, busy), item' = item, master' = master,
         \/ disturbed' = disturbed
         \/ disturbed' = (disturbed \/ core.pending) /\ (~c.pending \/ ~core.pending)
  PROVE  QuickInv'
  <1>1. Sound(c, lease, busy, cleanup, item, master, disturbed)
    BY SoundFollows DEF QuickInv
  <1>2. Sound(c, lease, busy, cleanup, item, master, disturbed') /\ disturbed' \in BOOLEAN
    <2>1. disturbed \in BOOLEAN /\ core.pending \in BOOLEAN
      BY DEF QuickInv, Sound, PartsOK, CoreStates
    <2>2. disturbed' \in BOOLEAN /\ (disturbed' = disturbed \/ ~c.pending)
      BY <2>1
    <2> QED
      BY <1>1, <2>2, SoundDisturbed
  <1>3. Sound(c, l, busy, cleanup, item, master, disturbed')
    BY <1>2, SoundCancelled
  <1>4. Sound(core', lease', busy', cleanup', item, master, disturbed') /\ HandedOn(core', lease')
    BY <1>3, Sync
  <1> QED
    BY <1>4 DEF QuickInv

-----------------------------------------------------------------------------
(* The steps of the core *)

LEMMA TickOfCore ==
  ASSUME QuickInv
  PROVE  /\ Tick(core) \in CoreStates /\ Follows(core, Tick(core))
         /\ Tick(core).phase = core.phase /\ Tick(core).setting = core.setting
         /\ Tick(core).needed = core.needed
  BY TickFollows DEF QuickInv, Sound, PartsOK, Follows

LEMMA FollowsOther ==
  ASSUME NEW c \in CoreStates, NEW d, NEW p \in {"locked", "unlocked"}, NEW g \in BOOLEAN,
         NEW n \in {"none", "change", "enroll"},
         d = [c EXCEPT !.phase = p] \/ d = [c EXCEPT !.guardUp = g] \/ d = [c EXCEPT !.native = n]
  PROVE  Follows(c, d) /\ d.pending = c.pending /\ d.setting = c.setting /\ d.needed = c.needed
  BY DEF Follows, CoreStates

LEMMA QuickRoundKeeps == QuickInv /\ QuickRound => QuickInv'
  <1> SUFFICES ASSUME QuickInv, QuickRound PROVE QuickInv'
    OBVIOUS
  <1>1. PICK expired \in BOOLEAN :
          WithCore(IF expired /\ Tick(core).pending THEN InvalidateNative(Tick(core)) ELSE Tick(core), lease, busy)
    BY DEF QuickRound
  <1>2. PICK c : c = IF expired /\ Tick(core).pending THEN InvalidateNative(Tick(core)) ELSE Tick(core)
    OBVIOUS
  <1>3. Follows(core, c)
    <2>1. Follows(core, Tick(core)) /\ Tick(core) \in CoreStates
      BY TickOfCore
    <2>2. Follows(Tick(core), InvalidateNative(Tick(core)))
      BY <2>1, InvalidateNativeFollows
    <2> QED
      BY <1>2, <2>1, <2>2, FollowsOn
  <1>4. AroundOK' /\ item' = item /\ master' = master /\ disturbed' = disturbed
    BY DEF QuickRound, world, history, AroundOK, QuickInv
  <1> QED
    BY <1>1, <1>2, <1>3, <1>4, CoreStep

LEMMA MasterUnlockKeeps == QuickInv /\ MasterUnlock => QuickInv'
  <1> SUFFICES ASSUME QuickInv, MasterUnlock PROVE QuickInv'
    OBVIOUS
  <1>1. PICK c, d, e, f : /\ c = Tick(core) /\ d = MasterVerified(c, file)
                          /\ e = InvalidateNative(d) /\ f = [e EXCEPT !.phase = "unlocked"]
    OBVIOUS
  <1>2. file \in Bindings
    BY DEF QuickInv, AroundOK, Bindings
  <1>3. Sound(c, lease, busy, cleanup, item, master, disturbed) /\ HandedOn(c, lease)
    BY <1>1, TickOfCore, SoundFollows DEF QuickInv, HandedOn
  <1>4. Sound(d, lease, busy, cleanup, item, file, disturbed) /\ HandedOn(d, lease) /\ d \in CoreStates
    BY <1>1, <1>2, <1>3, SoundMaster DEF Sound, PartsOK
  <1>5. Follows(d, e) /\ Follows(e, f)
    <2>1. Follows(d, e) /\ e \in CoreStates
      BY <1>1, <1>4, InvalidateNativeFollows DEF Follows
    <2> QED
      BY <1>1, <2>1, FollowsOther
  <1>6. Sound(f, lease, busy, cleanup, item, file, disturbed)
    BY <1>4, <1>5, FollowsOn, SoundFollows
  <1>7. WithCore(f, lease, busy)
    BY <1>1 DEF MasterUnlock
  <1>8. Sound(core', lease', busy', cleanup', item, file, disturbed) /\ HandedOn(core', lease')
    BY <1>6, <1>7, Sync
  <1>9. /\ days' = Days /\ master' = file
        /\ UNCHANGED <<file, item, clock, leases, mishaps, disturbed>>
    BY DEF MasterUnlock
  <1> QED
    BY <1>8, <1>9, QuickAssumption DEF QuickInv, AroundOK

LEMMA ChangeBeginsKeeps ==
  ASSUME QuickInv, NEW writes \in BOOLEAN, ChangeBegins(writes)
  PROVE  QuickInv'
  <1>1. PICK c, d, n, f : /\ c = Tick(core) /\ d = InvalidateRegistration(c, writes)
                          /\ n = (IF Invalidated(c, writes) THEN "change" ELSE "none")
                          /\ f = [d EXCEPT !.native = n]
    OBVIOUS
  <1>2. WithCore(f, lease, busy)
    BY <1>1 DEF ChangeBegins
  <1>3. Follows(core, f)
    <2>1. c \in CoreStates /\ Follows(core, c)
      BY <1>1, TickOfCore
    <2>2. Follows(c, d) /\ d \in CoreStates
      BY <1>1, <2>1, InvalidateRegistrationFollows DEF Follows
    <2>3. Follows(d, f)
      BY <1>1, <2>2, FollowsOther
    <2> QED
      BY <2>1, <2>2, <2>3, FollowsOn
  <1>4. AroundOK' /\ item' = item /\ master' = master /\ disturbed' = disturbed
    BY DEF ChangeBegins, Works, world, history, AroundOK, QuickInv
  <1> QED
    BY <1>2, <1>3, <1>4, CoreStep

LEMMA ChangeCommitsKeeps == QuickInv /\ ChangeCommits => QuickInv'
  <1> SUFFICES ASSUME QuickInv, ChangeCommits PROVE QuickInv'
    OBVIOUS
  <1>1. PICK c, d, f : /\ c = Tick(core) /\ d = InvalidateNative(c) /\ f = [d EXCEPT !.phase = "unlocked"]
    OBVIOUS
  <1>2. WithCore(f, lease, busy)
    BY <1>1 DEF ChangeCommits
  <1>3. Follows(core, f)
    <2>1. c \in CoreStates /\ Follows(core, c)
      BY <1>1, TickOfCore
    <2>2. Follows(c, d) /\ d \in CoreStates
      BY <1>1, <2>1, InvalidateNativeFollows DEF Follows
    <2>3. Follows(d, f)
      BY <1>1, <2>2, FollowsOther
    <2> QED
      BY <2>1, <2>2, <2>3, FollowsOn
  <1>4. AroundOK' /\ item' = item /\ master' = master /\ disturbed' = disturbed
    BY DEF ChangeCommits, history, AroundOK, QuickInv
  <1> QED
    BY <1>2, <1>3, <1>4, CoreStep

LEMMA InvalidationKeeps == QuickInv /\ Invalidation => QuickInv'
  <1> SUFFICES ASSUME QuickInv, Invalidation PROVE QuickInv'
    OBVIOUS
  <1>1. core \in CoreStates
    BY DEF QuickInv, Sound, PartsOK
  <1>2. PICK p \in {core.phase, "locked"} : WithCore([InvalidateNative(core) EXCEPT !.phase = p], lease, busy)
    BY DEF Invalidation
  <1>3. PICK d, f : d = InvalidateNative(core) /\ f = [d EXCEPT !.phase = p]
    OBVIOUS
  <1>4. p \in {"locked", "unlocked"}
    BY <1>1, <1>2 DEF CoreStates
  <1>5. Follows(core, d) /\ d \in CoreStates /\ ~d.pending
    BY <1>1, <1>3, InvalidateNativeFollows DEF Follows
  <1>6. Follows(core, f) /\ ~f.pending
    BY <1>3, <1>4, <1>5, FollowsOther, FollowsOn
  <1>7. /\ AroundOK' /\ item' = item /\ master' = master
        /\ disturbed' = (disturbed \/ core.pending)
    BY DEF Invalidation, Disturbs, world, AroundOK, QuickInv
  <1> QED
    BY <1>2, <1>3, <1>6, <1>7, CoreStep

LEMMA GuardMovesKeeps == QuickInv /\ GuardMoves => QuickInv'
  <1> SUFFICES ASSUME QuickInv, GuardMoves PROVE QuickInv'
    OBVIOUS
  <1>1. core \in CoreStates
    BY DEF QuickInv, Sound, PartsOK
  <1>2. AroundOK' /\ item' = item /\ master' = master
    BY DEF GuardMoves, world, AroundOK, QuickInv
  <1>3. CASE core.guardUp
    <2>1. PICK f : f = [core EXCEPT !.guardUp = FALSE]
      OBVIOUS
    <2>2. WithCore(f, lease, busy) /\ disturbed' = disturbed
      BY <1>3, <2>1 DEF GuardMoves
    <2>3. Follows(core, f)
      BY <1>1, <2>1, FollowsOther
    <2> QED
      BY <1>2, <2>2, <2>3, CoreStep
  <1>4. CASE ~core.guardUp
    <2>1. PICK d, f : d = InvalidateNative(core) /\ f = [d EXCEPT !.guardUp = TRUE]
      OBVIOUS
    <2>2. WithCore(f, lease, busy) /\ disturbed' = (disturbed \/ core.pending)
      BY <1>4, <2>1 DEF GuardMoves, Disturbs
    <2>3. Follows(core, d) /\ d \in CoreStates /\ ~d.pending
      BY <1>1, <2>1, InvalidateNativeFollows DEF Follows
    <2>4. Follows(core, f) /\ ~f.pending
      BY <2>1, <2>3, FollowsOther, FollowsOn
    <2> QED
      BY <1>2, <2>2, <2>4, CoreStep
  <1> QED
    BY <1>3, <1>4

LEMMA TurnOffKeeps ==
  ASSUME QuickInv, NEW writes \in BOOLEAN, TurnOff(writes)
  PROVE  QuickInv'
  <1>1. core \in CoreStates
    BY DEF QuickInv, Sound, PartsOK
  <1>2. PICK d : d = Disable(core, writes)
    OBVIOUS
  <1>3. Follows(core, d) /\ ~d.pending
    BY <1>1, <1>2, DisableFollows
  <1>4. WithCore(d, Cancelled(lease), busy)
    BY <1>2 DEF TurnOff
  <1>5. /\ AroundOK' /\ item' = item /\ master' = master
        /\ disturbed' = (disturbed \/ core.pending)
    BY DEF TurnOff, Works, Disturbs, world, AroundOK, QuickInv
  <1> QED
    BY <1>3, <1>4, <1>5, CoreStep

-----------------------------------------------------------------------------
(* The steps of a lease that go through the core *)

LEMMA LeaseThere ==
  ASSUME QuickInv, lease.pc # "none"
  PROVE  lease \in LeaseStates /\ busy = "lease"
  BY LeaseOrNone DEF QuickInv, Sound, PartsOK, Exclusive

\* A step that ends what the lease was for, after a method of the core.
LEMMA EndStep ==
  ASSUME QuickInv, AroundOK', NEW c, Follows(core, c), NEW q \in Ends,
         lease.pc # "none", lease.pc = "begun" => lease.kind = "enroll" \/ ~disturbed',
         NEW l, l = [lease EXCEPT !.pc = q] \/ l = [[lease EXCEPT !.pc = q] EXCEPT !.cancelled = TRUE],
         WithCore(c, l, busy), item' = item, master' = master,
         disturbed' = disturbed \/ disturbed' = FALSE
  PROVE  QuickInv'
  <1>1. Sound(c, lease, busy, cleanup, item, master, disturbed)
    BY SoundFollows DEF QuickInv
  <1>2. Sound(c, lease, busy, cleanup, item, master, disturbed') /\ disturbed' \in BOOLEAN
    <2>1. disturbed' \in BOOLEAN
      BY DEF QuickInv, Sound, PartsOK
    <2> QED
      BY <1>1, <2>1, SoundDisturbed
  <1>3. PICK k : k = [lease EXCEPT !.pc = q]
    OBVIOUS
  <1>4. Sound(c, k, busy, cleanup, item, master, disturbed') /\ k.pc # "none"
    <2>1. Sound(c, k, busy, cleanup, item, master, disturbed')
      BY <1>2, <1>3, SoundEnds
    <2>2. k.pc = q
      BY <1>3, LeaseThere DEF LeaseStates
    <2> QED
      BY <2>1, <2>2 DEF Ends
  <1>5. l = k \/ l = [k EXCEPT !.cancelled = TRUE]
    BY <1>3
  <1>6. Sound(c, l, busy, cleanup, item, master, disturbed')
    BY <1>4, <1>5, SoundCancelled
  <1>7. Sound(core', lease', busy', cleanup', item, master, disturbed') /\ HandedOn(core', lease')
    BY <1>6, Sync
  <1> QED
    BY <1>7 DEF QuickInv

LEMMA FollowsSame == ASSUME NEW c \in CoreStates PROVE Follows(c, c)
  BY DEF Follows

LEMMA EnrollBeginsKeeps ==
  ASSUME QuickInv, NEW w1 \in BOOLEAN, NEW w2 \in BOOLEAN, EnrollBegins(w1, w2)
  PROVE  QuickInv'
  <1>1. PICK c, d : c = Tick(core) /\ d = InvalidateRegistration(c, w1)
    OBVIOUS
  <1>2. lease.pc = "begun" /\ lease.kind = "enroll"
    BY DEF EnrollBegins, At
  <1>3. c \in CoreStates /\ Follows(core, c)
    BY <1>1, TickOfCore
  <1>4. Follows(c, d) /\ d \in CoreStates /\ ~d.pending /\ (Invalidated(c, w1) => d.setting = Off)
    BY <1>1, <1>3, InvalidateRegistrationFollows DEF Follows
  <1>5. Follows(core, d)
    BY <1>3, <1>4, FollowsOn
  <1>6. AroundOK' /\ item' = item /\ master' = master /\ disturbed' = disturbed
    BY DEF EnrollBegins, Works, world, history, AroundOK, QuickInv
  <1> DEFINE begins == c.phase = "unlocked" /\ CanBegin(c) /\ clock /\ Invalidated(c, w1) /\ w2
  <1>7. CASE ~begins
    <2>1. PICK e : Refused(e) /\ Follows(core, e)
      BY <1>1, <1>3, <1>5, <1>7 DEF EnrollBegins
    <2>2. WithCore(e, [lease EXCEPT !.pc = "refused"], busy)
      BY <2>1 DEF Refused, Goes
    <2> QED
      BY <1>2, <1>6, <2>1, <2>2, EndStep DEF Ends
  <1>8. CASE begins
    <2>1. PICK e, f : e = [d EXCEPT !.native = "enroll"] /\ f = [e EXCEPT !.needed = TRUE]
      OBVIOUS
    <2>2. PICK k : k = [[lease EXCEPT !.pc = "asking"] EXCEPT !.binding = file]
      OBVIOUS
    <2>3. WithCore(f, k, busy)
      BY <1>1, <1>8, <2>1, <2>2 DEF EnrollBegins, Goes
    <2>4. Follows(d, e) /\ e \in CoreStates /\ e.setting = Off /\ ~e.pending
      BY <1>4, <1>8, <2>1, FollowsOther DEF Follows
    <2>5. Follows(e, f) /\ f.setting = Off
      BY <2>1, <2>4 DEF Follows, CoreStates
    <2>6. Sound(f, lease, busy, cleanup, item, master, disturbed)
      BY <1>5, <2>4, <2>5, FollowsOn, SoundFollows DEF QuickInv
    <2>7. /\ k \in LeaseStates /\ k.pc = "asking" /\ k.kind = lease.kind
          /\ k.cancelled = lease.cancelled /\ k.incomplete = lease.incomplete
      BY <1>2, <2>2, LeaseThere DEF LeaseStates, Stages, QuickInv, AroundOK, Bindings
    <2>8. Enrolling(f, k, cleanup, item)
      BY <1>2, <2>5, <2>7 DEF Enrolling, RunningIn, Working
    <2>9. Sound(f, k, busy, cleanup, item, master, disturbed)
      BY <1>2, <2>6, <2>7, <2>8, SoundLease
    <2> QED
      BY <1>6, <2>3, <2>9, Sync DEF QuickInv
  <1> QED
    BY <1>7, <1>8

LEMMA EnrollGivenUpKeeps == QuickInv /\ EnrollGivenUp => QuickInv'
  <1> SUFFICES ASSUME QuickInv, EnrollGivenUp PROVE QuickInv'
    OBVIOUS
  <1>1. core \in CoreStates
    BY DEF QuickInv, Sound, PartsOK
  <1>2. PICK c : c = (IF core.native = "enroll" THEN InvalidateNative(core) ELSE core)
    OBVIOUS
  <1>3. Follows(core, c)
    BY <1>1, <1>2, InvalidateNativeFollows, FollowsSame
  <1>4. WithCore(c, [lease EXCEPT !.pc = "refused"], busy) /\ lease.pc = "asking"
    BY <1>2 DEF EnrollGivenUp, At, Refused, Goes
  <1>5. AroundOK' /\ item' = item /\ master' = master /\ disturbed' = disturbed
    BY DEF EnrollGivenUp, world, history, AroundOK, QuickInv
  <1> QED
    BY <1>3, <1>4, <1>5, EndStep DEF Ends

LEMMA EnrollVerifiedKeeps == QuickInv /\ EnrollVerified => QuickInv'
  <1> SUFFICES ASSUME QuickInv, EnrollVerified PROVE QuickInv'
    OBVIOUS
  <1> DEFINE valid == Tick(core).native = "enroll" /\ ~Tick(core).guardUp /\ file = lease.binding
  <1>1. PICK c, a, e, d : /\ c = Tick(core) /\ a = [c EXCEPT !.native = "none"]
                          /\ e = [a EXCEPT !.registration = Off] /\ d = MasterVerified(e, file)
    OBVIOUS
  <1>2. c \in CoreStates /\ Follows(core, c) /\ c.needed = core.needed
    BY <1>1, TickOfCore
  <1>3. lease.pc = "asking" /\ lease \in LeaseStates
    BY LeaseThere DEF EnrollVerified, At
  <1>4. AroundOK' /\ item' = item /\ disturbed' = disturbed
    BY QuickAssumption DEF EnrollVerified, AroundOK, QuickInv
  <1>5. CASE ~valid
    <2>1. PICK g : g = (IF c.native = "enroll" THEN InvalidateNative(c) ELSE c)
      OBVIOUS
    <2>2. Follows(core, g)
      <3>1. Follows(c, InvalidateNative(c))
        BY <1>2, InvalidateNativeFollows
      <3> QED
        BY <1>2, <2>1, <3>1, FollowsOn
    <2>3. WithCore(g, [lease EXCEPT !.pc = "refused"], busy) /\ master' = master
      BY <1>1, <1>5, <2>1 DEF EnrollVerified, Refused, Goes
    <2> QED
      BY <1>3, <1>4, <2>2, <2>3, EndStep DEF Ends
  <1>6. CASE valid
    <2>1. Follows(c, a) /\ a \in CoreStates /\ a.needed = c.needed
      BY <1>1, <1>2, FollowsOther DEF Follows
    <2>2. Follows(a, e) /\ e \in CoreStates /\ e.needed = a.needed
      BY <1>1, <2>1 DEF Follows, CoreStates, Bindings
    <2>3. Sound(e, lease, busy, cleanup, item, master, disturbed) /\ HandedOn(e, lease)
      BY <1>2, <2>1, <2>2, FollowsOn, SoundFollows DEF QuickInv, HandedOn
    <2>4. Sound(d, lease, busy, cleanup, item, file, disturbed) /\ HandedOn(d, lease)
      BY <1>1, <2>3, SoundMaster DEF QuickInv, AroundOK, Bindings
    <2>5. master' = file
      BY <1>6 DEF EnrollVerified
    <2>6. CASE ~clock
      <3>1. WithCore(d, [lease EXCEPT !.pc = "refused"], busy)
        BY <1>1, <1>6, <2>6 DEF EnrollVerified, Refused, Goes
      <3>2. Sound(d, [lease EXCEPT !.pc = "refused"], busy, cleanup, item, file, disturbed)
        BY <1>3, <2>4, SoundEnds DEF Ends
      <3> QED
        BY <1>4, <2>5, <3>1, <3>2, Sync DEF QuickInv
    <2>7. CASE clock
      <3>1. PICK f, k : /\ f = [d EXCEPT !.request = "enroll", !.pending = TRUE, !.fresh = TRUE]
                        /\ k = [lease EXCEPT !.pc = "prepared"]
        OBVIOUS
      <3>2. WithCore(f, k, busy)
        BY <1>1, <1>6, <2>7, <3>1 DEF EnrollVerified, Goes
      <3>3. /\ k \in LeaseStates /\ k.pc = "prepared" /\ k.kind = lease.kind
            /\ k.cancelled = lease.cancelled /\ k.incomplete = lease.incomplete
        BY <1>3, <3>1 DEF LeaseStates, Stages
      <3>4. Sound(f, k, busy, cleanup, item, file, disturbed)
        BY <1>3, <2>4, <3>1, <3>3, SoundPrepared
      <3> QED
        BY <1>4, <2>5, <3>2, <3>4, Sync DEF QuickInv
    <2> QED
      BY <2>6, <2>7 DEF QuickInv, AroundOK
  <1> QED
    BY <1>5, <1>6

LEMMA PrepareUnlockKeeps == QuickInv /\ PrepareUnlock => QuickInv'
  <1> SUFFICES ASSUME QuickInv, PrepareUnlock PROVE QuickInv'
    OBVIOUS
  <1>1. PICK c : c = Tick(core)
    OBVIOUS
  <1>2. c \in CoreStates /\ Follows(core, c) /\ c.needed = core.needed
    BY <1>1, TickOfCore
  <1>3. lease.pc = "begun" /\ lease.kind = "unlock" /\ lease \in LeaseStates
    BY LeaseThere DEF PrepareUnlock, At
  <1>4. AroundOK' /\ item' = item /\ master' = master /\ disturbed' = FALSE
    BY DEF PrepareUnlock, world, AroundOK, QuickInv
  <1>5. CASE \E e \in {c, Revoked(c)} : Refused(e)
    <2>1. PICK e \in {c, Revoked(c)} : Refused(e)
      BY <1>5
    <2>2. Follows(core, e)
      BY <1>2, <2>1, RevokedFollows, FollowsOn
    <2>3. WithCore(e, [lease EXCEPT !.pc = "refused"], busy)
      BY <2>1 DEF Refused, Goes
    <2> QED
      BY <1>3, <1>4, <2>2, <2>3, EndStep DEF Ends
  <1>6. CASE WithCore([c EXCEPT !.request = "unlock", !.pending = TRUE, !.fresh = TRUE],
                      [Goes("prepared") EXCEPT !.binding = file], busy)
    <2>1. PICK f, k : /\ f = [c EXCEPT !.request = "unlock", !.pending = TRUE, !.fresh = TRUE]
                      /\ k = [[lease EXCEPT !.pc = "prepared"] EXCEPT !.binding = file]
      OBVIOUS
    <2>2. WithCore(f, k, busy)
      BY <1>6, <2>1 DEF Goes
    <2>3. /\ k \in LeaseStates /\ k.pc = "prepared" /\ k.kind = lease.kind
          /\ k.cancelled = lease.cancelled /\ k.incomplete = lease.incomplete
      BY <1>3, <2>1 DEF LeaseStates, Stages, QuickInv, AroundOK, Bindings
    <2>4. Sound(c, lease, busy, cleanup, item, master, FALSE)
      BY <1>2, SoundFollows, SoundDisturbed DEF QuickInv
    <2>5. Sound(f, k, busy, cleanup, item, master, FALSE)
      BY <1>3, <2>1, <2>3, <2>4, SoundPrepared
    <2> QED
      BY <1>4, <2>2, <2>5, Sync DEF QuickInv
  <1> QED
    BY <1>1, <1>5, <1>6 DEF PrepareUnlock

LEMMA ClearReportedKeeps == QuickInv /\ ClearReported => QuickInv'
  <1> SUFFICES ASSUME QuickInv, ClearReported PROVE QuickInv'
    OBVIOUS
  <1>1. lease.pc \in {"cleared", "not_cleared"} /\ lease \in LeaseStates /\ busy = "lease"
    BY LeaseThere DEF ClearReported, At
  <1>2. PICK v \in BOOLEAN : v <=> At("not_cleared")
    OBVIOUS
  <1>3. PICK f, k : /\ f = [core EXCEPT !.failed = v]
                    /\ k = (IF At("cleared") THEN Goes("wrap") ELSE Failing("failed"))
    OBVIOUS
  <1>4. WithCore(f, k, busy)
    <2>1. [core EXCEPT !.failed = At("not_cleared")] = f
      BY <1>2, <1>3, Zenon DEF At
    <2> QED
      BY <1>3, <2>1 DEF ClearReported
  <1>5. AroundOK' /\ item' = item /\ master' = master /\ disturbed' = disturbed
    BY DEF ClearReported, world, history, AroundOK, QuickInv
  <1>6. /\ f \in CoreStates /\ f.setting = core.setting /\ f.needed = core.needed
        /\ f.pending = core.pending /\ f.verified = core.verified
    BY <1>3 DEF QuickInv, Sound, PartsOK, CoreStates
  <1>7. /\ k \in LeaseStates /\ k.kind = lease.kind /\ k.cancelled = lease.cancelled
        /\ k.incomplete = lease.incomplete /\ k.pc \in {"wrap", "failing"}
    BY <1>1, <1>3 DEF Goes, Failing, LeaseStates, Stages
  <1>8. lease.kind = "enroll" /\ lease.incomplete /\ core.setting = Off
        /\ (core.pending => ~cleanup /\ ~core.needed)
    BY <1>1 DEF QuickInv, Sound, Enrolling, RunningIn, OnlyEnrolling, Working, Stages, Ends
  <1>9. Sound(f, lease, busy, cleanup, item, master, disturbed)
    <2>1. PartsOK(f, lease, busy, cleanup, item, master, disturbed) /\ RemovalIsSafe(f, lease, busy, cleanup)
      BY <1>6 DEF QuickInv, Sound, PartsOK, RemovalIsSafe
    <2>2. Enrolling(f, lease, cleanup, item) /\ Uncalled(f, lease, disturbed)
      BY <1>6 DEF QuickInv, Sound, Enrolling, Uncalled
    <2>3. ItemIsOwed(f, lease, busy, cleanup, item)
      BY <1>1, <1>8 DEF QuickInv, Sound, ItemIsOwed, Incomplete
    <2> QED
      BY <1>6, <2>1, <2>2, <2>3 DEF QuickInv, Sound
  <1>10. Enrolling(f, k, cleanup, item)
    BY <1>6, <1>7, <1>8 DEF Enrolling, RunningIn
  <1>11. Sound(f, k, busy, cleanup, item, master, disturbed)
    BY <1>1, <1>7, <1>9, <1>10, SoundLease
  <1> QED
    BY <1>4, <1>5, <1>11, Sync DEF QuickInv

LEMMA FailedTouchKeeps ==
  ASSUME QuickInv, NEW writes \in BOOLEAN, FailedTouch(writes)
  PROVE  QuickInv'
  <1>1. core \in CoreStates
    BY DEF QuickInv, Sound, PartsOK
  <1>2. PICK c : c = (IF ~core.pending THEN core
                      ELSE IF lease.why = "failed" THEN Disable(core, writes)
                      ELSE InvalidateNative(core))
    OBVIOUS
  <1>3. Follows(core, c)
    BY <1>1, <1>2, DisableFollows, InvalidateNativeFollows, FollowsSame
  <1>4. WithCore(c, [lease EXCEPT !.pc = "ended"], busy) /\ lease.pc \in {"failing", "settle"}
    BY <1>2 DEF FailedTouch, At, Goes
  <1>5. AroundOK' /\ item' = item /\ master' = master /\ disturbed' = disturbed
    BY DEF FailedTouch, Works, world, history, AroundOK, QuickInv
  <1> QED
    BY <1>3, <1>4, <1>5, EndStep DEF Ends

LEMMA DropKeeps == QuickInv /\ Drop => QuickInv'
  <1> SUFFICES ASSUME QuickInv, Drop PROVE QuickInv'
    OBVIOUS
  <1>1. core \in CoreStates
    BY DEF QuickInv, Sound, PartsOK
  <1>2. PICK c : c = (IF core.pending THEN InvalidateNative(core) ELSE core)
    OBVIOUS
  <1>3. Follows(core, c)
    BY <1>1, <1>2, InvalidateNativeFollows, FollowsSame
  <1>4. /\ WithCore(c, [[lease EXCEPT !.pc = "dropped"] EXCEPT !.cancelled = TRUE], busy)
        /\ lease.pc \in {"ended", "refused"}
    BY <1>2 DEF Drop, At, Goes
  <1>5. AroundOK' /\ item' = item /\ master' = master /\ disturbed' = disturbed
    BY DEF Drop, world, history, AroundOK, QuickInv
  <1> QED
    BY <1>3, <1>4, <1>5, EndStep DEF Ends

\* The end of an unlock: the registration may go, nothing else does.
LEMMA FinishUnlockFollows ==
  ASSUME NEW c \in CoreStates, NEW writes \in BOOLEAN, NEW d, d = FinishUnlock(c, writes)
  PROVE  Follows(c, d)
  <1>1. PICK e, f : e = [c EXCEPT !.pending = FALSE] /\ f = [e EXCEPT !.request = "none"]
    OBVIOUS
  <1>2. Follows(c, e) /\ e \in CoreStates
    BY <1>1 DEF Follows, CoreStates
  <1>3. Follows(c, f) /\ f \in CoreStates
    BY <1>1, <1>2 DEF Follows, CoreStates
  <1>4. Follows(c, InvalidateNative(c)) /\ Follows(c, c)
    BY InvalidateNativeFollows, FollowsSame
  <1>5. Follows(c, InvalidateRegistration(e, writes))
    BY <1>2, InvalidateRegistrationFollows, FollowsOn
  <1>6. Follows(c, Revoked(f))
    BY <1>3, RevokedFollows, FollowsOn
  <1>7. Follows(c, [InvalidateNative(f) EXCEPT !.phase = "unlocked"])
    <2>1. Follows(f, InvalidateNative(f)) /\ InvalidateNative(f) \in CoreStates
      BY <1>3, InvalidateNativeFollows DEF Follows
    <2> QED
      BY <1>3, <2>1, FollowsOther, FollowsOn
  <1>8. [c EXCEPT !.pending = FALSE, !.request = "none"] = f
    BY <1>1
  <1>9. \/ d = c \/ d = InvalidateNative(c) \/ d = InvalidateRegistration(e, writes) \/ d = e
        \/ d = Revoked(f) \/ d = f \/ d = [InvalidateNative(f) EXCEPT !.phase = "unlocked"]
    BY <1>1, <1>8, Zenon DEF FinishUnlock
  <1> QED
    BY <1>2, <1>3, <1>4, <1>5, <1>6, <1>7, <1>9

\* The end of an enrollment: this too, or the item in place is registered.
LEMMA FinishEnrollmentIs ==
  ASSUME NEW c \in CoreStates, NEW writes \in BOOLEAN, NEW d, d = FinishEnrollment(c, writes),
         c.setting = Off, lease.binding \in Bindings
  PROVE  \/ Follows(c, d) /\ d.setting = Off
         \/ /\ c.pending /\ lease.key = lease.binding
            /\ d \in CoreStates /\ d.setting = lease.binding
            /\ d.needed = c.needed /\ d.failed = c.failed /\ ~d.pending /\ d.verified = c.verified
  <1>1. PICK e, f : e = [c EXCEPT !.pending = FALSE] /\ f = [e EXCEPT !.request = "none"]
    OBVIOUS
  <1>2. Follows(c, e) /\ e \in CoreStates /\ e.setting = Off
    BY <1>1 DEF Follows, CoreStates
  <1>3. /\ Follows(c, f) /\ f \in CoreStates /\ f.setting = Off /\ ~f.pending
        /\ f.needed = c.needed /\ f.failed = c.failed /\ f.verified = c.verified
    BY <1>1, <1>2 DEF Follows, CoreStates
  <1>4. [c EXCEPT !.pending = FALSE, !.request = "none"] = f
    BY <1>1
  <1>5. CASE d \in {c, e, InvalidateNative(c), Revoked(f)}
    <2>1. Follows(c, InvalidateNative(c)) /\ InvalidateNative(c).setting = Off
      BY InvalidateNativeFollows
    <2>2. Follows(c, Revoked(f)) /\ Revoked(f).setting = Off
      BY <1>3, RevokedFollows, FollowsOn
    <2> QED
      BY <1>2, <1>5, <2>1, <2>2, FollowsSame
  <1>6. CASE d = [InvalidateRegistration(e, writes) EXCEPT !.needed = @ \/ Invalidated(e, writes)]
    <2>1. PICK g : g = InvalidateRegistration(e, writes)
      OBVIOUS
    <2>2. Follows(e, g) /\ ~g.pending /\ g.setting = Off
      BY <1>2, <2>1, InvalidateRegistrationFollows DEF Follows
    <2>3. Follows(c, g) /\ g \in CoreStates
      BY <1>2, <2>2, FollowsOn DEF Follows
    <2>4. PICK v \in BOOLEAN : v <=> g.needed \/ Invalidated(e, writes)
      OBVIOUS
    <2>5. d = [g EXCEPT !.needed = v]
      <3>1. (g.needed \/ Invalidated(e, writes)) = v
        BY <2>4, <2>3, Zenon DEF CoreStates, Invalidated
      <3> QED
        BY <1>6, <2>1, <3>1, Zenon
    <2> QED
      BY <2>2, <2>3, <2>4, <2>5 DEF Follows, CoreStates
  <1>7. CASE d = [f EXCEPT !.registration = lease.binding, !.setting = lease.binding]
             /\ c.pending /\ lease.key = lease.binding
    BY <1>3, <1>7 DEF CoreStates
  <1>8. CASE d = [Revoked(f) EXCEPT !.registration = Off, !.needed = TRUE]
    <2>1. PICK g : g = Revoked(f)
      OBVIOUS
    <2>2. Follows(f, g) /\ g.setting = Off /\ ~g.pending
      BY <1>3, <2>1, RevokedFollows
    <2>3. Follows(c, g) /\ g \in CoreStates
      BY <1>3, <2>2, FollowsOn DEF Follows
    <2> QED
      BY <1>8, <2>1, <2>2, <2>3 DEF Follows, CoreStates, Bindings
  <1>9. \/ d \in {c, e, InvalidateNative(c), Revoked(f)}
        \/ d = [InvalidateRegistration(e, writes) EXCEPT !.needed = @ \/ Invalidated(e, writes)]
        \/ /\ d = [f EXCEPT !.registration = lease.binding, !.setting = lease.binding]
           /\ c.pending /\ lease.key = lease.binding
        \/ d = [Revoked(f) EXCEPT !.registration = Off, !.needed = TRUE]
    BY <1>1, <1>4, Zenon DEF FinishEnrollment, Current
  <1> QED
    BY <1>5, <1>6, <1>7, <1>8, <1>9

LEMMA SettleKeeps ==
  ASSUME QuickInv, NEW writes \in BOOLEAN, Settle(writes)
  PROVE  QuickInv'
  <1>1. PICK c : c = Tick(core)
    OBVIOUS
  <1>2. c \in CoreStates /\ Follows(core, c) /\ c.setting = core.setting /\ c.needed = core.needed
    BY <1>1, TickOfCore
  <1>3. lease.pc = "settle" /\ lease \in LeaseStates
    BY LeaseThere DEF Settle, At
  <1>4. AroundOK' /\ item' = item /\ master' = master /\ disturbed' = disturbed
    BY DEF Settle, Works, world, history, AroundOK, QuickInv
  <1>5. CASE lease.kind # "enroll"
    <2>1. WithCore(FinishUnlock(c, writes), [lease EXCEPT !.pc = "ended"], busy)
      BY <1>1, <1>5 DEF Settle, Goes
    <2>2. Follows(core, FinishUnlock(c, writes))
      BY <1>2, FinishUnlockFollows, FollowsOn
    <2> QED
      BY <1>3, <1>4, <2>1, <2>2, EndStep DEF Ends
  <1>6. CASE lease.kind = "enroll"
    <2>1. PICK d : d = FinishEnrollment(c, writes)
      OBVIOUS
    <2>2. PICK v \in BOOLEAN : v <=> d.setting = Off
      OBVIOUS
    <2>3. PICK k : k = [[lease EXCEPT !.pc = "ended"] EXCEPT !.incomplete = v]
      OBVIOUS
    <2>4. WithCore(d, k, busy)
      <3>1. (d.setting = Off) = v
        BY <2>2, Zenon
      <3>2. k = [Goes("ended") EXCEPT !.incomplete = d.setting = Off]
        BY <2>3, <3>1, Zenon DEF Goes
      <3> QED
        BY <1>1, <1>6, <2>1, <3>2, Zenon DEF Settle
    <2>5. /\ k \in LeaseStates /\ k.pc = "ended" /\ k.kind = lease.kind
          /\ k.cancelled = lease.cancelled /\ k.incomplete = v
      BY <1>3, <2>3 DEF LeaseStates, Stages
    <2>6. /\ core.setting = Off /\ lease.key = item /\ lease.incomplete
          /\ core.pending => ~cleanup /\ ~core.needed
      BY <1>3, <1>6 DEF QuickInv, Sound, Enrolling, RunningIn, Working, Stages, Ends
    <2>7. CASE Follows(c, d) /\ d.setting = Off
      <3>1. Sound(d, lease, busy, cleanup, item, master, disturbed)
        BY <1>2, <2>7, FollowsOn, SoundFollows DEF QuickInv
      <3>2. k.incomplete = lease.incomplete /\ Enrolling(d, k, cleanup, item)
        BY <2>2, <2>5, <2>6, <2>7, AtEnd DEF Ends, LeaseStates
      <3>3. Sound(d, k, busy, cleanup, item, master, disturbed)
        BY <1>3, <2>5, <3>1, <3>2, SoundLease
      <3> QED
        BY <1>4, <2>4, <3>3, Sync DEF QuickInv
    <2>8. CASE /\ c.pending /\ lease.key = lease.binding
               /\ d \in CoreStates /\ d.setting = lease.binding
               /\ d.needed = c.needed /\ d.failed = c.failed /\ ~d.pending /\ d.verified = c.verified
      <3>1. Sound(c, lease, busy, cleanup, item, master, disturbed) /\ ~cleanup /\ ~c.needed
        BY <1>2, <2>6, <2>8, SoundFollows DEF QuickInv, Follows
      <3>2. busy = "lease" /\ d.setting = item
        BY <1>3, <2>6, <2>8, LeaseThere
      <3>3. PartsOK(d, k, busy, cleanup, item, master, disturbed) /\ Exclusive(k, busy) /\ Owing(k)
        BY <1>6, <2>5, <2>8, <3>1, <3>2 DEF Sound, PartsOK, Exclusive, Owing
      <3>4. RemovalIsSafe(d, k, busy, cleanup) /\ ItemIsOwed(d, k, busy, cleanup, item)
        BY <2>2, <2>5, <2>8, <3>1, <3>2 DEF RemovalIsSafe, ItemIsOwed, Incomplete
      <3>5. Enrolling(d, k, cleanup, item) /\ Uncalled(d, k, disturbed)
        BY <2>5, <2>8, AtEnd DEF Ends, Uncalled
      <3>6. Sound(d, k, busy, cleanup, item, master, disturbed)
        BY <2>8, <3>1, <3>2, <3>3, <3>4, <3>5 DEF Sound
      <3> QED
        BY <1>4, <2>4, <3>6, Sync DEF QuickInv
    <2> QED
      BY <1>2, <1>3, <2>1, <2>6, <2>7, <2>8, FinishEnrollmentIs DEF LeaseStates
  <1> QED
    BY <1>5, <1>6

-----------------------------------------------------------------------------
(* The steps of a lease and of the cleaner that leave the core alone *)

\* The lease goes on to another stage.
LEMMA LeaseStep ==
  ASSUME QuickInv, lease' \in LeaseStates, lease.pc \notin {"none", "begun"},
         lease'.kind = lease.kind, lease.cancelled => lease'.cancelled,
         \/ lease'.incomplete = lease.incomplete
         \/ lease'.kind = "enroll" /\ lease'.incomplete = (core.setting = Off),
         lease'.pc # "begun", Enrolling(core, lease', cleanup, item),
         UNCHANGED <<world, item, core, busy, cleanup, history>>, mishaps' \in Nat
  PROVE  QuickInv'
  <1>1. Sound(core, lease', busy, cleanup, item, master, disturbed)
    BY SoundLease DEF QuickInv
  <1>2. /\ UNCHANGED <<file, clock, days, leases>> /\ UNCHANGED <<master, disturbed>>
        /\ UNCHANGED <<item, core, busy, cleanup>>
    BY DEF world, history
  <1> QED
    BY <1>1, <1>2 DEF QuickInv, AroundOK, HandedOn

\* What is known of an enrollment at the stage it is at.
LEMMA AtWork ==
  ASSUME QuickInv, lease.pc \notin {"none", "begun"}
  PROVE  /\ lease \in LeaseStates /\ busy = "lease" /\ ~core.needed
         /\ lease.pc \in OnlyEnrolling => lease.kind = "enroll"
         /\ lease.kind = "enroll" /\ lease.pc \notin Ends => core.setting = Off
         /\ lease.kind = "enroll" /\ lease.pc \in Working => lease.incomplete
         /\ lease.kind = "enroll" /\ lease.pc \in Working \ {"work"} /\ core.pending => ~cleanup
  <1>1. lease \in LeaseStates /\ busy = "lease" /\ ~core.needed
    BY LeaseThere DEF QuickInv, HandedOn, Sound, PartsOK, CoreStates
  <1>2. Enrolling(core, lease, cleanup, item)
    BY DEF QuickInv, Sound
  <1>3. lease.pc \in Stages
    BY <1>1 DEF LeaseStates
  <1> QED
    BY <1>1, <1>2, <1>3 DEF Enrolling, RunningIn, Working

LEMMA PresentKeeps ==
  ASSUME QuickInv, NEW shown \in BOOLEAN, Present(shown)
  PROVE  QuickInv'
  <1>1. lease.pc = "prepared" /\ UNCHANGED <<world, item, core, busy, cleanup, history>> /\ mishaps' \in Nat
    BY DEF Present, At, LeaseOnly, QuickInv, AroundOK
  <1>2. lease \in LeaseStates /\ (lease.kind = "enroll" => core.setting = Off)
    BY <1>1, AtWork DEF Ends
  <1>3. PICK k : k = [lease EXCEPT !.pc = "presenting"]
    OBVIOUS
  <1>4. /\ k \in LeaseStates /\ k.pc = "presenting" /\ k.kind = lease.kind
        /\ k.cancelled = lease.cancelled /\ k.incomplete = lease.incomplete
    BY <1>2, <1>3 DEF LeaseStates, Stages
  <1>5. lease' = [k EXCEPT !.cancelled = k.cancelled \/ ~shown]
    BY <1>3, <1>4 DEF Present, LeaseOnly, Goes
  <1>6. /\ lease' \in LeaseStates /\ lease'.pc = "presenting" /\ lease'.kind = lease.kind
        /\ (lease.cancelled => lease'.cancelled) /\ lease'.incomplete = lease.incomplete
    BY <1>4, <1>5 DEF LeaseStates
  <1>7. Enrolling(core, lease', cleanup, item)
    BY <1>2, <1>6 DEF Enrolling, RunningIn, Working, OnlyEnrolling
  <1> QED
    BY <1>1, <1>6, <1>7, LeaseStep

LEMMA PresentedKeeps == QuickInv /\ Presented => QuickInv'
  <1> SUFFICES ASSUME QuickInv, Presented PROVE QuickInv'
    OBVIOUS
  <1>1. lease.pc = "presenting" /\ UNCHANGED <<world, item, core, busy, cleanup, history>> /\ mishaps' \in Nat
    BY DEF Presented, At, LeaseOnly, QuickInv, AroundOK
  <1>2. lease \in LeaseStates /\ (lease.kind = "enroll" => core.setting = Off)
    BY <1>1, AtWork DEF Ends
  <1>3. CASE lease.cancelled
    <2>1. lease' = [lease EXCEPT !.pc = "ended"]
      BY <1>3 DEF Presented, LeaseOnly, Goes
    <2>2. /\ lease' \in LeaseStates /\ lease'.pc = "ended" /\ lease'.kind = lease.kind
          /\ lease'.cancelled = lease.cancelled /\ lease'.incomplete = lease.incomplete
      BY <1>2, <2>1 DEF LeaseStates, Stages
    <2> QED
      BY <1>1, <2>2, AtEnd, LeaseStep DEF Ends
  <1>4. CASE ~lease.cancelled
    <2>1. PICK v \in BOOLEAN : v <=> lease.kind = "enroll"
      OBVIOUS
    <2>2. PICK q : q = IF lease.kind = "enroll" THEN "work" ELSE "touch"
      OBVIOUS
    <2>3. lease' = [[lease EXCEPT !.pc = q] EXCEPT !.incomplete = v]
      <3>1. (lease.kind = "enroll") = v
        BY <2>1, Zenon
      <3> QED
        BY <1>4, <2>2, <3>1, Zenon DEF Presented, LeaseOnly, Goes
    <2>4. /\ lease' \in LeaseStates /\ lease'.pc = q /\ lease'.kind = lease.kind
          /\ lease'.cancelled = lease.cancelled /\ lease'.incomplete = v
      BY <1>2, <2>2, <2>3 DEF LeaseStates, Stages
    <2>5. lease.kind # "enroll" => lease.incomplete = FALSE
      BY <1>1, <1>2 DEF QuickInv, Sound, Owing, Incomplete, LeaseStates
    <2>6. Enrolling(core, lease', cleanup, item)
      BY <1>2, <2>1, <2>2, <2>4 DEF Enrolling, RunningIn, Working, OnlyEnrolling
    <2> QED
      BY <1>1, <1>2, <2>1, <2>2, <2>4, <2>5, <2>6, LeaseStep DEF LeaseStates
  <1> QED
    BY <1>3, <1>4

LEMMA ClearFirstKeeps == QuickInv /\ ClearFirst => QuickInv'
  <1> SUFFICES ASSUME QuickInv, ClearFirst PROVE QuickInv'
    OBVIOUS
  <1>1. /\ lease.pc = "work" /\ UNCHANGED <<world, item, core, busy, history>> /\ mishaps' \in Nat
        /\ cleanup' = (cleanup /\ lease.cancelled)
    BY DEF ClearFirst, At, QuickInv, AroundOK
  <1>2. /\ lease \in LeaseStates /\ busy = "lease" /\ ~core.needed
        /\ lease.kind = "enroll" /\ core.setting = Off /\ lease.incomplete
    BY <1>1, AtWork DEF OnlyEnrolling, Ends, Working
  <1>3. CASE lease.cancelled
    <2>1. lease' = [[lease EXCEPT !.pc = "failing"] EXCEPT !.why = "cancelled"] /\ cleanup' = cleanup
      BY <1>1, <1>3 DEF ClearFirst, Failing, QuickInv, Sound, PartsOK
    <2>2. /\ lease' \in LeaseStates /\ lease'.pc = "failing" /\ lease'.kind = lease.kind
          /\ lease'.cancelled = lease.cancelled /\ lease'.incomplete = lease.incomplete
      BY <1>2, <2>1 DEF LeaseStates, Stages
    <2>3. Enrolling(core, lease', cleanup, item)
      BY <1>2, <2>2 DEF Enrolling, RunningIn, Working, OnlyEnrolling
    <2>4. UNCHANGED <<world, item, core, busy, cleanup, history>>
      BY <1>1, <2>1
    <2> QED
      BY <1>1, <2>2, <2>3, <2>4, LeaseStep
  <1>4. CASE ~lease.cancelled
    <2>1. PICK q : q = IF cleanup THEN "clearing" ELSE "wrap"
      OBVIOUS
    <2>2. lease' = [lease EXCEPT !.pc = q] /\ cleanup' = FALSE
      BY <1>1, <1>4, <2>1 DEF ClearFirst, Goes
    <2>3. /\ lease' \in LeaseStates /\ lease'.pc = q /\ lease'.kind = lease.kind
          /\ lease'.cancelled = lease.cancelled /\ lease'.incomplete = lease.incomplete
      BY <1>2, <2>1, <2>2 DEF LeaseStates, Stages
    <2>4. Sound(core, lease, busy, FALSE, item, master, disturbed)
      <3>1. Sound(core, lease, busy, cleanup, item, master, disturbed)
        BY DEF QuickInv
      <3>2. ItemIsOwed(core, lease, busy, FALSE, item) /\ RemovalIsSafe(core, lease, busy, FALSE)
        BY <1>1, <1>2, <3>1 DEF Sound, ItemIsOwed, RemovalIsSafe, Incomplete
      <3>3. Enrolling(core, lease, FALSE, item) /\ PartsOK(core, lease, busy, FALSE, item, master, disturbed)
        BY <1>2, <3>1 DEF Sound, Enrolling, PartsOK
      <3> QED
        BY <3>1, <3>2, <3>3 DEF Sound
    <2>5. Enrolling(core, lease', FALSE, item)
      BY <1>2, <2>1, <2>3 DEF Enrolling, RunningIn
    <2>6. Sound(core, lease', busy, FALSE, item, master, disturbed)
      BY <1>1, <2>1, <2>3, <2>4, <2>5, SoundLease
    <2> QED
      BY <1>1, <1>2, <2>2, <2>6 DEF QuickInv, AroundOK, HandedOn, world, history
  <1> QED
    BY <1>3, <1>4

LEMMA TouchEndsKeeps ==
  ASSUME QuickInv, NEW outcome \in {"ok", "cancelled", "missed", "failed"}, TouchEnds(outcome)
  PROVE  QuickInv'
  <1>1. lease.pc = "touch" /\ UNCHANGED <<world, item, core, busy, cleanup, history>> /\ mishaps' \in Nat
    BY DEF TouchEnds, At, LeaseOnly, QuickInv, AroundOK
  <1>2. /\ lease \in LeaseStates /\ busy = "lease" /\ ~core.needed
        /\ lease.kind = "enroll" =>
             core.setting = Off /\ lease.incomplete /\ (core.pending => ~cleanup)
    BY <1>1, AtWork DEF Ends, Working
  <1>3. PICK q, y, v :
          /\ q = (IF outcome = "ok" THEN "settle" ELSE IF lease.kind = "enroll" THEN "unpublish" ELSE "failing")
          /\ y = (IF outcome = "ok" THEN item ELSE lease.key)
          /\ v = (IF outcome = "ok" THEN lease.why ELSE outcome)
    OBVIOUS
  <1>4. lease' = [lease EXCEPT !.pc = q, !.key = y, !.why = v]
    BY <1>2, <1>3 DEF TouchEnds, LeaseOnly, Goes, Failing, LeaseStates
  <1>5. /\ lease' \in LeaseStates /\ lease'.pc = q /\ lease'.kind = lease.kind /\ lease'.key = y
        /\ lease'.cancelled = lease.cancelled /\ lease'.incomplete = lease.incomplete
    BY <1>2, <1>3, <1>4 DEF LeaseStates, Stages, QuickInv, Sound, PartsOK
  <1>6. Enrolling(core, lease', cleanup, item)
    BY <1>2, <1>3, <1>5 DEF Enrolling, RunningIn, OnlyEnrolling
  <1> QED
    BY <1>1, <1>3, <1>5, <1>6, LeaseStep

\* The item changes in a step of an enrollment that has it: nothing is registered.
LEMMA ItemStep ==
  ASSUME QuickInv, lease' \in LeaseStates, lease.kind = "enroll",
         lease.pc \in {"clearing", "unpublish", "wrap"}, item' \in Bindings,
         lease'.kind = lease.kind, lease'.cancelled = lease.cancelled,
         lease'.incomplete = lease.incomplete,
         lease'.pc \in {"cleared", "not_cleared", "failing", "touch"},
         UNCHANGED <<world, core, busy, cleanup, history>>, mishaps' \in Nat
  PROVE  QuickInv'
  <1>1. /\ lease \in LeaseStates /\ busy = "lease" /\ ~core.needed
        /\ core.setting = Off /\ lease.incomplete /\ (core.pending => ~cleanup)
    BY AtWork DEF Ends, Working
  <1>2. Sound(core, lease, busy, cleanup, item', master, disturbed)
    <2>1. Sound(core, lease, busy, cleanup, item, master, disturbed)
      BY DEF QuickInv
    <2>2. PartsOK(core, lease, busy, cleanup, item', master, disturbed)
      BY <2>1 DEF Sound, PartsOK
    <2>3. ItemIsOwed(core, lease, busy, cleanup, item') /\ Enrolling(core, lease, cleanup, item')
      BY <1>1, <2>1 DEF Sound, ItemIsOwed, Incomplete, Enrolling
    <2> QED
      BY <1>1, <2>1, <2>2, <2>3 DEF Sound
  <1>3. Enrolling(core, lease', cleanup, item')
    BY <1>1 DEF Enrolling, RunningIn, OnlyEnrolling
  <1>4. Sound(core, lease', busy, cleanup, item', master, disturbed)
    BY <1>1, <1>2, <1>3, SoundLease
  <1>5. /\ UNCHANGED <<file, clock, days, leases>> /\ UNCHANGED <<master, disturbed>>
        /\ UNCHANGED <<core, busy, cleanup>>
    BY DEF world, history
  <1> QED
    BY <1>1, <1>4, <1>5 DEF QuickInv, AroundOK, HandedOn

LEMMA ClearItemKeeps ==
  ASSUME QuickInv, NEW w \in BOOLEAN, ClearItem(w)
  PROVE  QuickInv'
  <1>1. /\ lease.pc = "clearing" /\ UNCHANGED <<world, core, busy, cleanup, history>> /\ mishaps' \in Nat
        /\ item' \in Bindings
    BY DEF ClearItem, At, LeaseOnly, Removed, Works, QuickInv, AroundOK, Sound, PartsOK, Bindings
  <1>2. lease \in LeaseStates /\ lease.kind = "enroll"
    BY <1>1, AtWork DEF OnlyEnrolling
  <1>3. lease' = [lease EXCEPT !.pc = IF w THEN "cleared" ELSE "not_cleared"]
    BY DEF ClearItem, LeaseOnly, Goes
  <1> QED
    BY <1>1, <1>2, <1>3, ItemStep DEF LeaseStates, Stages

LEMMA UnpublishKeeps ==
  ASSUME QuickInv, NEW w \in BOOLEAN, Unpublish(w)
  PROVE  QuickInv'
  <1>1. /\ lease.pc = "unpublish" /\ UNCHANGED <<world, core, busy, cleanup, history>> /\ mishaps' \in Nat
        /\ item' \in Bindings
    BY DEF Unpublish, At, LeaseOnly, Removed, Works, QuickInv, AroundOK, Sound, PartsOK, Bindings
  <1>2. lease \in LeaseStates /\ lease.kind = "enroll"
    BY <1>1, AtWork DEF OnlyEnrolling
  <1>3. lease' = [lease EXCEPT !.pc = "failing", !.why = IF w THEN lease.why ELSE "failed"]
    BY DEF Unpublish, LeaseOnly, Failing
  <1> QED
    BY <1>1, <1>2, <1>3, ItemStep DEF LeaseStates, Stages

LEMMA PublishKeeps ==
  ASSUME QuickInv, NEW w \in BOOLEAN, Publish(w)
  PROVE  QuickInv'
  <1>1. /\ lease.pc = "wrap" /\ UNCHANGED <<world, core, busy, cleanup, history>> /\ mishaps' \in Nat
    BY DEF Publish, At, LeaseOnly, Works, QuickInv, AroundOK
  <1>2. lease \in LeaseStates /\ lease.kind = "enroll" /\ item \in Bindings
    BY <1>1, AtWork DEF OnlyEnrolling, QuickInv, Sound, PartsOK
  <1>3. \/ /\ lease' = [lease EXCEPT !.pc = "failing", !.why = "cancelled"] /\ item' = item
        \/ /\ lease' = [lease EXCEPT !.pc = "failing", !.why = "failed"] /\ item' = item
        \/ /\ lease' = [lease EXCEPT !.pc = "touch"] /\ item' = lease.binding
    BY DEF Publish, LeaseOnly, Failing, Goes
  <1>4. /\ lease' \in LeaseStates /\ lease'.pc \in {"failing", "touch"} /\ lease'.kind = lease.kind
        /\ lease'.cancelled = lease.cancelled /\ lease'.incomplete = lease.incomplete
        /\ item' \in Bindings
    BY <1>2, <1>3 DEF LeaseStates, Stages
  <1> QED
    BY <1>1, <1>2, <1>4, ItemStep

LEMMA BeginLeaseKeeps ==
  ASSUME QuickInv, NEW kind \in {"enroll", "unlock"}, BeginLease(kind)
  PROVE  QuickInv'
  <1>1. /\ busy = "free" /\ busy' = "lease" /\ leases' = leases + 1
        /\ lease' = [pc |-> "begun", kind |-> kind, cancelled |-> FALSE, incomplete |-> FALSE,
                     binding |-> Off, key |-> Off, why |-> "none"]
        /\ UNCHANGED <<file, item, core, clock, days, cleanup, mishaps>>
        /\ UNCHANGED <<master, disturbed>>
    BY DEF BeginLease, history
  <1>2. /\ lease' \in LeaseStates /\ lease'.pc = "begun" /\ ~lease'.incomplete
    BY <1>1 DEF LeaseStates, Stages, Bindings
  <1>3. Sound(core, lease, busy, cleanup, item, master, disturbed)
    BY DEF QuickInv
  <1>4. lease.pc = "none"
    BY <1>1, <1>3 DEF Sound, Exclusive
  <1>5. PartsOK(core, lease', "lease", cleanup, item, master, disturbed) /\ Exclusive(lease', "lease")
    BY <1>2, <1>3 DEF Sound, PartsOK, Exclusive
  <1>6. /\ Owing(lease') /\ RemovalIsSafe(core, lease', "lease", cleanup)
        /\ ItemIsOwed(core, lease', "lease", cleanup, item)
    BY <1>1, <1>2, <1>3, <1>4 DEF Sound, Owing, RemovalIsSafe, ItemIsOwed, Incomplete
  <1>7. Enrolling(core, lease', cleanup, item) /\ Uncalled(core, lease', disturbed)
    BY <1>2 DEF Enrolling, Uncalled, RunningIn, OnlyEnrolling, Working
  <1> QED
    BY <1>1, <1>2, <1>3, <1>5, <1>6, <1>7 DEF QuickInv, AroundOK, Sound, HandedOn

LEMMA PanelClosesKeeps == QuickInv /\ PanelCloses => QuickInv'
  <1> SUFFICES ASSUME QuickInv, PanelCloses PROVE QuickInv'
    OBVIOUS
  <1>1. /\ lease' = Cancelled(lease) /\ disturbed' = (disturbed \/ core.pending)
        /\ UNCHANGED <<file, clock, days, leases, item, core, busy, cleanup, mishaps, master>>
    BY DEF PanelCloses, Disturbs, world
  <1>2. Sound(core, lease', busy, cleanup, item, master, disturbed) /\ lease'.pc = lease.pc
    BY <1>1, SoundCancelled DEF QuickInv
  <1>3. lease.pc # "none"
    BY DEF PanelCloses, Biometric
  <1>4. lease'.cancelled
    BY <1>1, <1>3, LeaseThere, CancelledIsLease DEF Cancelled
  <1>5. disturbed' \in BOOLEAN
    BY <1>1 DEF QuickInv, Sound, PartsOK, CoreStates
  <1>6. Sound(core, lease', busy, cleanup, item, master, disturbed')
    BY <1>2, <1>4, <1>5, SoundDisturbed
  <1> QED
    BY <1>1, <1>2, <1>6 DEF QuickInv, AroundOK, HandedOn

LEMMA ReleaseKeeps == QuickInv /\ Release => QuickInv'
  <1> SUFFICES ASSUME QuickInv, Release PROVE QuickInv'
    OBVIOUS
  <1>1. /\ lease.pc = "dropped" /\ lease' = NoLease /\ cleanup' = FALSE
        /\ busy' = IF cleanup \/ lease.incomplete THEN "removing" ELSE "free"
        /\ UNCHANGED <<file, clock, days, leases, item, core, mishaps, master, disturbed>>
    BY DEF Release, At, Schedule, world, history
  <1>2. Sound(core, lease, busy, cleanup, item, master, disturbed) /\ busy = "lease"
    BY <1>1, LeaseThere DEF QuickInv
  <1>3. lease'.pc = "none"
    BY <1>1 DEF NoLease
  <1>4. PartsOK(core, lease', busy', FALSE, item, master, disturbed) /\ Exclusive(lease', busy') /\ Owing(lease')
    BY <1>1, <1>2, <1>3 DEF Sound, PartsOK, Exclusive, Owing, Incomplete
  <1>5. RemovalIsSafe(core, lease', busy', FALSE) /\ ItemIsOwed(core, lease', busy', FALSE, item)
    BY <1>1, <1>2, <1>3 DEF Sound, RemovalIsSafe, ItemIsOwed, Incomplete
  <1>6. Enrolling(core, lease', FALSE, item) /\ Uncalled(core, lease', disturbed)
    BY <1>3 DEF Enrolling, Uncalled, RunningIn, OnlyEnrolling, Working, Stages
  <1> QED
    BY <1>1, <1>2, <1>3, <1>4, <1>5, <1>6 DEF QuickInv, AroundOK, Sound, HandedOn

\* While the cleaner runs there is no lease.
LEMMA NoLeaseRuns ==
  ASSUME QuickInv, busy # "lease"
  PROVE  lease = NoLease /\ lease.pc = "none"
  BY LeaseOrNone DEF QuickInv, Sound, PartsOK, Exclusive

\* Without a lease, Sound is about the core, the cleaner and the item alone.
LEMMA SoundAlone ==
  ASSUME NEW c, NEW l, NEW b, NEW due, NEW i, NEW m, NEW x, l = NoLease, b # "lease",
         PartsOK(c, l, b, due, i, m, x), RemovalIsSafe(c, l, b, due), ItemIsOwed(c, l, b, due, i),
         c.verified \in {m, Off}, c.setting \in {i, Off}
  PROVE  Sound(c, l, b, due, i, m, x)
  <1>1. l.pc = "none"
    BY DEF NoLease
  <1> QED
    BY <1>1 DEF Sound, Exclusive, Owing, Incomplete, Enrolling, Uncalled, RunningIn, OnlyEnrolling,
                Working, Stages

LEMMA RemoveKeeps ==
  ASSUME QuickInv, NEW w \in BOOLEAN, Remove(w)
  PROVE  QuickInv'
  <1>1. /\ busy = "removing" /\ busy' = (IF w THEN "reporting" ELSE "complaining")
        /\ item' = (IF w THEN Off ELSE item) /\ mishaps' \in Nat
        /\ UNCHANGED <<file, clock, days, leases, core, lease, cleanup, master, disturbed>>
    BY DEF Remove, Removed, Works, world, history, QuickInv, AroundOK
  <1>2. Sound(core, lease, busy, cleanup, item, master, disturbed)
    BY DEF QuickInv
  <1>3. lease = NoLease /\ core.setting = Off
    BY <1>1, <1>2, NoLeaseRuns DEF Sound, RemovalIsSafe
  <1>4. PartsOK(core, lease, busy', cleanup, item', master, disturbed)
    BY <1>1, <1>2 DEF Sound, PartsOK, Bindings
  <1>5. RemovalIsSafe(core, lease, busy', cleanup) /\ ItemIsOwed(core, lease, busy', cleanup, item')
    BY <1>1, <1>3 DEF RemovalIsSafe, ItemIsOwed
  <1>6. Sound(core, lease, busy', cleanup, item', master, disturbed)
    BY <1>1, <1>2, <1>3, <1>4, <1>5, SoundAlone DEF Sound
  <1> QED
    BY <1>1, <1>6 DEF QuickInv, AroundOK, HandedOn

LEMMA ReportRemovalKeeps == QuickInv /\ ReportRemoval => QuickInv'
  <1> SUFFICES ASSUME QuickInv, ReportRemoval PROVE QuickInv'
    OBVIOUS
  <1>1. PICK v \in BOOLEAN : v <=> busy = "complaining"
    OBVIOUS
  <1>2. PICK f : f = [core EXCEPT !.failed = v]
    OBVIOUS
  <1>3. WithCore(f, lease, "releasing")
    <2>1. [core EXCEPT !.failed = busy = "complaining"] = f
      BY <1>1, <1>2, Zenon
    <2> QED
      BY <2>1 DEF ReportRemoval
  <1>4. AroundOK' /\ item' = item /\ master' = master /\ disturbed' = disturbed
        /\ busy \in {"reporting", "complaining"}
    BY DEF ReportRemoval, world, history, AroundOK, QuickInv
  <1>5. /\ f \in CoreStates /\ f.setting = core.setting /\ f.needed = core.needed
        /\ f.verified = core.verified /\ f.failed = v
    BY <1>2 DEF QuickInv, Sound, PartsOK, CoreStates
  <1>6. lease = NoLease /\ lease.pc = "none"
    BY <1>4, NoLeaseRuns
  <1>7. Sound(core, lease, busy, cleanup, item, master, disturbed)
    BY DEF QuickInv
  <1>8. PartsOK(f, lease, "releasing", cleanup, item, master, disturbed)
    BY <1>5, <1>7 DEF Sound, PartsOK
  <1>9. RemovalIsSafe(f, lease, "releasing", cleanup) /\ ItemIsOwed(f, lease, "releasing", cleanup, item)
    BY <1>1, <1>4, <1>5, <1>6, <1>7 DEF Sound, RemovalIsSafe, ItemIsOwed, Incomplete
  <1>10. Sound(f, lease, "releasing", cleanup, item, master, disturbed)
    BY <1>5, <1>6, <1>7, <1>8, <1>9, SoundAlone DEF Sound
  <1> QED
    BY <1>3, <1>4, <1>10, Sync DEF QuickInv

LEMMA CleanerEndsKeeps == QuickInv /\ CleanerEnds => QuickInv'
  <1> SUFFICES ASSUME QuickInv, CleanerEnds PROVE QuickInv'
    OBVIOUS
  <1>1. /\ busy = "releasing" /\ busy' = (IF cleanup THEN "removing" ELSE "free") /\ cleanup' = FALSE
        /\ UNCHANGED <<file, clock, days, leases, item, core, lease, mishaps, master, disturbed>>
    BY DEF CleanerEnds, Schedule, world, history
  <1>2. Sound(core, lease, busy, cleanup, item, master, disturbed)
    BY DEF QuickInv
  <1>3. lease = NoLease /\ lease.pc = "none"
    BY <1>1, NoLeaseRuns
  <1>4. PartsOK(core, lease, busy', FALSE, item, master, disturbed)
    BY <1>1, <1>2 DEF Sound, PartsOK
  <1>5. RemovalIsSafe(core, lease, busy', FALSE) /\ ItemIsOwed(core, lease, busy', FALSE, item)
    BY <1>1, <1>2, <1>3 DEF Sound, RemovalIsSafe, ItemIsOwed, Incomplete
  <1>6. Sound(core, lease, busy', FALSE, item, master, disturbed)
    BY <1>1, <1>2, <1>3, <1>4, <1>5, SoundAlone DEF Sound
  <1> QED
    BY <1>1, <1>6 DEF QuickInv, AroundOK, HandedOn

-----------------------------------------------------------------------------
(* Around it *)

LEMMA OutsideKeeps == QuickInv /\ (DayEnds \/ ClockMoves \/ FileReplaced) => QuickInv'
  <1> SUFFICES ASSUME QuickInv, DayEnds \/ ClockMoves \/ FileReplaced PROVE QuickInv'
    OBVIOUS
  <1>1. UNCHANGED <<item, core, lease, busy, cleanup, master, disturbed>>
    BY DEF DayEnds, ClockMoves, FileReplaced, history
  <1>2. AroundOK'
    <2>1. CASE DayEnds
      BY <2>1 DEF DayEnds, AroundOK, QuickInv
    <2>2. CASE ClockMoves
      <3>1. clock' \in BOOLEAN
        BY <2>2 DEF ClockMoves
      <3>2. UNCHANGED <<file, days, leases>> /\ mishaps' \in Nat
        BY <2>2 DEF ClockMoves, Works, AroundOK, QuickInv
      <3> QED
        BY <3>1, <3>2 DEF AroundOK, QuickInv
    <2>3. CASE FileReplaced
      BY <2>3 DEF FileReplaced, Works, AroundOK, QuickInv
    <2> QED
      BY <2>1, <2>2, <2>3
  <1> QED
    BY <1>1, <1>2 DEF QuickInv

\* A start finds the settings of before, and what they do not name is removed.
LEMMA LoadedIs ==
  ASSUME file \in Binding, NEW s \in Bindings, NEW writes \in BOOLEAN, NEW d, d = Loaded(s, writes)
  PROVE  /\ d \in CoreStates /\ d.verified = Off
         /\ d.setting \in {s, Off}
         /\ d.setting = Off <=> d.needed
  BY QuickAssumption DEF Loaded, CoreStates, Bindings

LEMMA CrashKeeps ==
  ASSUME QuickInv, NEW writes \in BOOLEAN, CrashAndRestart(writes)
  PROVE  QuickInv'
  <1>1. PICK d : d = Loaded(core.setting, writes)
    OBVIOUS
  <1>2. /\ core' = d /\ lease' = NoLease /\ busy' = "free" /\ cleanup' = FALSE
        /\ clock' = TRUE /\ mishaps' = mishaps + 1
        /\ UNCHANGED <<file, item, days, leases, master, disturbed>>
    BY <1>1 DEF CrashAndRestart, history
  <1>3. Sound(core, lease, busy, cleanup, item, master, disturbed) /\ core.setting \in Bindings
    BY DEF QuickInv, Sound, PartsOK, CoreStates
  <1>4. d \in CoreStates /\ d.verified = Off /\ d.setting \in {core.setting, Off} /\ (d.setting = Off <=> d.needed)
    BY <1>1, <1>3, LoadedIs DEF QuickInv, AroundOK
  <1>5. PartsOK(d, NoLease, "free", FALSE, item, master, disturbed)
    BY <1>3, <1>4 DEF Sound, PartsOK
  <1>6. RemovalIsSafe(d, NoLease, "free", FALSE) /\ ItemIsOwed(d, NoLease, "free", FALSE, item)
    BY <1>4 DEF RemovalIsSafe, ItemIsOwed, Incomplete, NoLease
  <1>7. Sound(d, NoLease, "free", FALSE, item, master, disturbed)
    BY <1>3, <1>4, <1>5, <1>6, SoundAlone DEF Sound
  <1>8. AroundOK'
    BY <1>2 DEF QuickInv, AroundOK
  <1>9. lease'.pc = "none"
    BY <1>2 DEF NoLease
  <1>10. Sound(core', lease', busy', cleanup', item', master', disturbed')
    BY <1>2, <1>7
  <1> QED
    BY <1>8, <1>9, <1>10 DEF QuickInv, HandedOn

LEMMA QuickInitInv == QuickInit => QuickInv
  <1> SUFFICES ASSUME QuickInit PROVE QuickInv
    OBVIOUS
  <1>1. file \in Binding
    BY QuickAssumption DEF QuickInit
  <1>2. PICK d : d = Loaded(Off, TRUE)
    OBVIOUS
  <1>3. d \in CoreStates /\ d.verified = Off /\ d.setting = Off /\ d.needed
    BY <1>1, <1>2, LoadedIs DEF Bindings
  <1>4. /\ item = Off /\ core = d /\ lease = NoLease /\ busy = "free" /\ cleanup = FALSE
        /\ master = Off /\ disturbed = FALSE
        /\ clock = TRUE /\ days = 0 /\ leases = 0 /\ mishaps = 0
    BY <1>2 DEF QuickInit
  <1>5. PartsOK(core, lease, busy, cleanup, item, master, disturbed)
    BY <1>3, <1>4 DEF PartsOK, Bindings
  <1>6. RemovalIsSafe(core, lease, busy, cleanup) /\ ItemIsOwed(core, lease, busy, cleanup, item)
    BY <1>3, <1>4 DEF RemovalIsSafe, ItemIsOwed
  <1>7. Sound(core, lease, busy, cleanup, item, master, disturbed)
    BY <1>3, <1>4, <1>5, <1>6, SoundAlone
  <1> QED
    BY <1>1, <1>4, <1>7 DEF QuickInv, AroundOK, HandedOn, NoLease

LEMMA QuickStep == QuickInv /\ [QuickNext]_quickVars => QuickInv'
  <1> SUFFICES ASSUME QuickInv, [QuickNext]_quickVars PROVE QuickInv'
    OBVIOUS
  <1>1. CASE LeaseSteps
    BY <1>1, EnrollBeginsKeeps, EnrollVerifiedKeeps, EnrollGivenUpKeeps, PrepareUnlockKeeps,
       PresentKeeps, PresentedKeeps, ClearFirstKeeps, ClearReportedKeeps, ClearItemKeeps, PublishKeeps,
       UnpublishKeeps, FailedTouchKeeps, SettleKeeps, TouchEndsKeeps, DropKeeps, ReleaseKeeps
       DEF LeaseSteps
  <1>2. CASE CleanerSteps
    BY <1>2, RemoveKeeps, ReportRemovalKeeps, CleanerEndsKeeps DEF CleanerSteps
  <1>3. CASE QuickNext /\ ~LeaseSteps /\ ~CleanerSteps
    BY <1>3, QuickRoundKeeps, BeginLeaseKeeps, MasterUnlockKeeps, ChangeCommitsKeeps,
       InvalidationKeeps, GuardMovesKeeps, PanelClosesKeeps, ChangeBeginsKeeps, TurnOffKeeps,
       CrashKeeps, OutsideKeeps DEF QuickNext
  <1>4. CASE UNCHANGED quickVars
    BY <1>4 DEF quickVars, QuickInv, AroundOK
  <1> QED
    BY <1>1, <1>2, <1>3, <1>4 DEF QuickNext

LEMMA QuickHolds == QuickSpec => []QuickInv
  BY QuickInitInv, QuickStep, PTL DEF QuickSpec

\* What the settings call enabled has its item, for any number of leases, crashes, failed writes
\* and removals, and any bindings.
THEOREM EnabledKeepsItem == QuickSpec => []EnabledHasItem
  <1>1. QuickInv => EnabledHasItem
    BY DEF QuickInv, Sound, EnabledHasItem
  <1> QED
    BY <1>1, QuickHolds, PTL

\* An item that no registration names is being removed, will be, or the owner was told.
THEOREM OrphanStaysOwed == QuickSpec => []OrphanIsOwed
  <1>1. QuickInv => OrphanIsOwed
    BY DEF QuickInv, Sound, ItemIsOwed, Exclusive, Incomplete, OrphanIsOwed
  <1> QED
    BY <1>1, QuickHolds, PTL

-----------------------------------------------------------------------------
(* A touch *)

LEMMA UnlockOpens ==
  ASSUME QuickInv, NEW writes \in BOOLEAN, lease.pc = "settle", lease.kind = "unlock",
         ~lease.cancelled, FinishUnlock(Tick(core), writes).phase = "unlocked", core.phase # "unlocked"
  PROVE  master = file /\ days > 0 /\ ~disturbed
  <1>1. PICK c : c = Tick(core)
    OBVIOUS
  <1>2. c \in CoreStates /\ Follows(core, c) /\ c.phase # "unlocked"
    BY <1>1, TickOfCore
  <1>3. PICK e, f : e = [c EXCEPT !.pending = FALSE] /\ f = [e EXCEPT !.request = "none"]
    OBVIOUS
  <1>4. e \in CoreStates /\ e.phase # "unlocked" /\ f \in CoreStates /\ f.phase # "unlocked"
        /\ f.verified = c.verified
    BY <1>2, <1>3 DEF CoreStates
  <1>5. InvalidateNative(c).phase # "unlocked" /\ InvalidateRegistration(e, writes).phase # "unlocked"
        /\ Revoked(f).phase # "unlocked"
    BY <1>2, <1>4, InvalidateNativeFollows, InvalidateRegistrationFollows, RevokedFollows
  <1>6. [c EXCEPT !.pending = FALSE, !.request = "none"] = f
    BY <1>3
  <1>7. Current(c, "locked") /\ Authorized(c, lease.binding)
    BY <1>1, <1>2, <1>3, <1>4, <1>5, <1>6 DEF FinishUnlock
  <1>8. c.pending /\ file = lease.binding /\ clock /\ days > 0 /\ c.verified = file
    BY <1>7 DEF Current, Authorized
  <1>9. core.pending /\ core.verified = file
    BY <1>2, <1>8, QuickAssumption DEF Follows, QuickInv, AroundOK
  <1>10. master = file
    BY <1>9, QuickAssumption DEF QuickInv, Sound, AroundOK
  <1>11. ~disturbed
    BY <1>9 DEF QuickInv, Sound, Uncalled, RunningIn, Stages
  <1> QED
    BY <1>8, <1>10, <1>11

LEMMA SettleOpens ==
  ASSUME QuickInv, NEW writes \in BOOLEAN, Settle(writes), lease.kind = "unlock",
         core'.phase = "unlocked", core.phase # "unlocked"
  PROVE  master = file /\ days > 0 /\ ~disturbed
  <1>1. PICK d : d = FinishUnlock(Tick(core), writes)
    OBVIOUS
  <1>2. core' = [d EXCEPT !.needed = FALSE] /\ lease.pc = "settle" /\ ~lease.cancelled
    BY <1>1 DEF Settle, At, WithCore
  <1>3. d \in CoreStates
    BY <1>1, TickOfCore, FinishUnlockFollows DEF Follows
  <1>4. d.phase = "unlocked"
    BY <1>2, <1>3 DEF CoreStates
  <1> QED
    BY <1>1, <1>2, <1>4, UnlockOpens

LEMMA FailedTouchOpensNothing ==
  ASSUME QuickInv, NEW writes \in BOOLEAN, FailedTouch(writes)
  PROVE  core'.phase = core.phase
  <1>1. core \in CoreStates
    BY DEF QuickInv, Sound, PartsOK
  <1>2. PICK c : c = (IF ~core.pending THEN core
                      ELSE IF lease.why = "failed" THEN Disable(core, writes)
                      ELSE InvalidateNative(core))
    OBVIOUS
  <1>3. c \in CoreStates /\ c.phase = core.phase
    BY <1>1, <1>2, DisableFollows, InvalidateNativeFollows DEF Follows
  <1>4. core' = [c EXCEPT !.needed = FALSE]
    BY <1>2 DEF FailedTouch, WithCore
  <1> QED
    BY <1>3, <1>4 DEF CoreStates

\* Which steps leave "settle" for "ended".
LEMMA FromSettle ==
  ASSUME QuickInv, QuickNext, lease.pc = "settle", lease'.pc = "ended"
  PROVE  \E writes \in BOOLEAN : Settle(writes) \/ FailedTouch(writes)
  <1>1. lease \in LeaseStates /\ busy = "lease"
    BY LeaseThere
  <1>2. /\ lease.pc = "settle" /\ [lease EXCEPT !.cancelled = TRUE].pc = "settle"
        /\ [[lease EXCEPT !.cancelled = TRUE] EXCEPT !.cancelled = TRUE].pc = "settle"
        /\ NoLease.pc = "none"
    BY <1>1 DEF LeaseStates, NoLease
  <1>3. CASE LeaseSteps
    BY <1>3 DEF LeaseSteps, EnrollBegins, EnrollVerified, EnrollGivenUp, PrepareUnlock, Present, Presented,
       ClearFirst, ClearReported, ClearItem, Publish, Unpublish, TouchEnds, Drop, Release, At
  <1>4. CASE CleanerSteps
    BY <1>1, <1>4 DEF CleanerSteps, Remove, ReportRemoval, CleanerEnds
  <1>5. ASSUME NEW c, NEW b, WithCore(c, lease, b) \/ WithCore(c, Cancelled(lease), b)
        PROVE  lease' = lease \/ lease' = [lease EXCEPT !.cancelled = TRUE]
               \/ lease' = [[lease EXCEPT !.cancelled = TRUE] EXCEPT !.cancelled = TRUE]
    BY <1>5 DEF WithCore, Cancelled
  <1>6. CASE QuickNext /\ ~LeaseSteps /\ ~CleanerSteps
    <2>1. \/ QuickRound \/ MasterUnlock \/ ChangeCommits \/ Invalidation \/ GuardMoves \/ PanelCloses
          \/ \E w \in BOOLEAN : ChangeBegins(w) \/ TurnOff(w) \/ CrashAndRestart(w)
          \/ DayEnds \/ ClockMoves \/ FileReplaced
      BY <1>1, <1>6 DEF QuickNext, BeginLease
    <2>2. \/ lease' = NoLease
          \/ lease' = Cancelled(lease) \/ lease' = lease
          \/ \E c : WithCore(c, lease, busy) \/ WithCore(c, Cancelled(lease), busy)
      BY <2>1, Zenon DEF QuickRound, MasterUnlock, ChangeCommits, Invalidation, GuardMoves, PanelCloses,
         ChangeBegins, TurnOff, CrashAndRestart, DayEnds, ClockMoves, FileReplaced
    <2>3. \/ lease' = NoLease \/ lease' = lease \/ lease' = [lease EXCEPT !.cancelled = TRUE]
          \/ lease' = [[lease EXCEPT !.cancelled = TRUE] EXCEPT !.cancelled = TRUE]
      BY <1>5, <2>2 DEF Cancelled
    <2> QED
      BY <1>2, <2>3
  <1> QED
    BY <1>3, <1>4, <1>6

\* A touch opens the Vault only if the Master Password was typed for the file that is there, less
\* than seven days ago, and nothing has called off the press since, however late the answer.
THEOREM TouchesAreAuthorized == QuickSpec => TouchIsAuthorized
  <1> DEFINE Authorizes == lease.pc = "settle" /\ lease.kind = "unlock" /\ lease'.pc = "ended"
                             /\ core'.phase = "unlocked"
                           => core.phase = "unlocked" \/ (master = file /\ days > 0 /\ ~disturbed)
  <1>1. QuickInv /\ [QuickNext]_quickVars => [Authorizes]_quickVars
    BY FromSettle, SettleOpens, FailedTouchOpensNothing
  <1>2. [][Authorizes]_quickVars <=> TouchIsAuthorized
    BY PTL DEF TouchIsAuthorized
  <1> QED
    BY <1>1, <1>2, QuickHolds, PTL DEF QuickSpec
=============================================================================
