-------------------------------- MODULE Trash --------------------------------
(***************************************************************************)
(* The Trash of the open document (crates/notes/src/lib.rs) and the rule   *)
(* by which an unlock empties it (core.rs, purge_trash): a Note goes once  *)
(* two unlocks at least a day apart have found it overdue.  All the rule   *)
(* has to go by is the clock of the computer, which may be wrong for one   *)
(* session and may be set back while the Vault is open.                    *)
(*                                                                         *)
(* A Note is reduced to whether it is in Trash, and since when.            *)
(***************************************************************************)
EXTENDS Integers, FiniteSets

CONSTANTS
  Never,           \* not in Trash; no sighting
  Note,
  Retention,       \* TRASH_RETENTION_SECS
  ConfirmAfter,    \* PURGE_CONFIRM_SECS
  Offset,          \* how wrong the clock may be
  MaxTime          \* bound on the true time

ASSUME TrashAssumption ==
  /\ Retention \in Nat /\ ConfirmAfter \in 1..Retention /\ MaxTime \in Nat
  /\ Offset \subseteq Int /\ Never \notin Int

VARIABLES
  doc,       \* the document: deleted_at of each Note, and changed_at
  seen,      \* trash_expiry_seen_at in the settings in memory
  stored,    \* and in settings.json
  unlocked,
  time,      \* the true time
  offset,    \* what the clock is off by
  wrong,     \* unlocks under a wrong clock so far
  trashed,   \* history: the true time each Note was put in Trash
  found,     \* history: the earliest clock of an unlock that found the Note overdue
  lost       \* history: a settings write failed

trashVars == <<doc, seen, stored, unlocked, time, offset, wrong, trashed, found, lost>>

Now == time + offset
Kept == DOMAIN doc.deleted
InTrash(n) == n \in Kept /\ doc.deleted[n] # Never
Larger(a, b) == IF a > b THEN a ELSE b

-----------------------------------------------------------------------------
(* The document *)

Touch(d) == [d EXCEPT !.changedAt = Now]

Without(d, gone) == [d EXCEPT !.deleted = [n \in DOMAIN d.deleted \ gone |-> d.deleted[n]]]

Overdue(d, n, at) == d.deleted[n] # Never /\ d.deleted[n] + Retention <= at

\* Nothing is overdue on the word of a clock that is behind the last change.
Expired(d, at) == IF at < d.changedAt THEN {} ELSE {n \in DOMAIN d.deleted : Overdue(d, n, at)}

-----------------------------------------------------------------------------
(* The core *)

\* `writes` says whether the settings file can be written; a failure is not told to the owner.
RememberSighting(s, writes) ==
  /\ seen' = s
  /\ stored' = IF writes THEN s ELSE stored
  /\ lost' = (lost \/ ~writes)

\* AppCore::mutate: what was changed is saved, or undone.
Mutate(d, saves) == doc' = IF saves THEN Touch(d) ELSE doc

TrashNote(n, saves, writes) ==
  /\ unlocked /\ n \in Kept /\ ~InTrash(n)
  /\ Mutate([doc EXCEPT !.deleted[n] = Larger(Now, doc.changedAt)], saves)
  /\ IF saves /\ seen # Never /\ Overdue(doc', n, seen)
     THEN RememberSighting(Never, writes)
     ELSE UNCHANGED <<seen, stored, lost>>
  /\ trashed' = [trashed EXCEPT ![n] = IF saves THEN time ELSE @]
  /\ found' = [found EXCEPT ![n] = IF saves THEN Never ELSE @]
  /\ UNCHANGED <<unlocked, time, offset, wrong>>

RestoreNote(n, saves) ==
  /\ unlocked /\ InTrash(n)
  /\ Mutate([doc EXCEPT !.deleted[n] = Never], saves)
  /\ UNCHANGED <<seen, stored, unlocked, time, offset, wrong, trashed, found, lost>>

\* DeleteForever of one Note, or EmptyTrash.
DeleteForever(gone, saves) ==
  /\ unlocked /\ gone # {} /\ \A n \in gone : InTrash(n)
  /\ \/ Cardinality(gone) = 1
     \/ gone = {n \in Kept : InTrash(n)}
  /\ Mutate(Without(doc, gone), saves)
  /\ UNCHANGED <<seen, stored, unlocked, time, offset, wrong, trashed, found, lost>>

\* Any other edit, a change of credentials: all the Trash sees of it is the time.
EditNote ==
  /\ unlocked
  /\ Mutate(doc, TRUE)
  /\ UNCHANGED <<seen, stored, unlocked, time, offset, wrong, trashed, found, lost>>

\* Mutant: the second sighting takes everything that is overdue by then.
EligibleNow == Expired(doc, Now)

\* Only Notes that were already overdue at the first sighting.
Eligible == {n \in Kept : Overdue(doc, n, seen)}

Confirmed == seen # Never /\ Now - seen >= ConfirmAfter

\* The first sighting, or the clock has gone back since: count from now.
FirstSeen == IF Expired(doc, Now) = {} THEN Never
             ELSE IF seen = Never THEN Now ELSE IF Now < seen THEN Now ELSE seen

\* A failed save brings the document back, and the sighting stays.
PurgeTrash(saves, writes) ==
  IF Expired(doc, Now) = {} \/ ~Confirmed
  THEN /\ IF FirstSeen # seen THEN RememberSighting(FirstSeen, writes)
          ELSE UNCHANGED <<seen, stored, lost>>
       /\ UNCHANGED doc
  ELSE IF Eligible = {}
  THEN RememberSighting(Now, writes) /\ UNCHANGED doc
  ELSE IF saves
  THEN /\ doc' = Touch(Without(doc, Eligible))
       /\ RememberSighting(IF Expired(doc', Now) = {} THEN Never ELSE Now, writes)
  ELSE UNCHANGED <<doc, seen, stored, lost>>

Unlock(saves, writes) ==
  /\ ~unlocked
  /\ offset # 0 => wrong = 0
  /\ unlocked' = TRUE
  /\ wrong' = IF offset = 0 THEN wrong ELSE wrong + 1
  /\ PurgeTrash(saves, writes)
  /\ found' = [n \in Note |-> IF n \in Expired(doc, Now) /\ (found[n] = Never \/ Now < found[n])
                               THEN Now ELSE found[n]]
  /\ UNCHANGED <<time, offset, trashed>>

LockVault ==
  /\ unlocked /\ unlocked' = FALSE
  /\ UNCHANGED <<doc, seen, stored, time, offset, wrong, trashed, found, lost>>

\* The process ends; the next one has what the settings file holds.
RestartApp ==
  /\ unlocked' = FALSE
  /\ seen' = stored
  /\ UNCHANGED <<doc, stored, time, offset, wrong, trashed, found, lost>>

-----------------------------------------------------------------------------
(* The clock *)

DayPasses ==
  /\ time < MaxTime /\ time' = time + 1
  /\ UNCHANGED <<doc, seen, stored, unlocked, offset, wrong, trashed, found, lost>>

\* Wrong for one session at most: once, and back to the right date before the next unlock.
ClockIsWrong ==
  /\ offset = 0 /\ wrong = 0
  /\ offset' \in Offset \ {0}
  /\ wrong' = IF unlocked THEN 1 ELSE 0
  /\ UNCHANGED <<doc, seen, stored, unlocked, time, trashed, found, lost>>

ClockIsRight ==
  /\ offset # 0 /\ offset' = 0
  /\ wrong' = 1
  /\ UNCHANGED <<doc, seen, stored, unlocked, time, trashed, found, lost>>

-----------------------------------------------------------------------------
TrashInit ==
  /\ doc = [deleted |-> [n \in Note |-> Never], changedAt |-> 0]
  /\ seen = Never /\ stored = Never
  /\ unlocked = FALSE
  /\ time = 0 /\ offset = 0 /\ wrong = 0
  /\ trashed = [n \in Note |-> 0] /\ found = [n \in Note |-> Never]
  /\ lost = FALSE

TrashNext ==
  \/ \E n \in Note, saves, writes \in BOOLEAN : TrashNote(n, saves, writes)
  \/ \E n \in Note, saves \in BOOLEAN : RestoreNote(n, saves)
  \/ \E gone \in SUBSET Note, saves \in BOOLEAN : DeleteForever(gone, saves)
  \/ \E saves, writes \in BOOLEAN : Unlock(saves, writes)
  \/ EditNote \/ LockVault \/ RestartApp
  \/ DayPasses \/ ClockIsWrong \/ ClockIsRight

TrashSpec == TrashInit /\ [][TrashNext]_trashVars

-----------------------------------------------------------------------------
IsDocument(d) ==
  /\ d = [deleted |-> d.deleted, changedAt |-> d.changedAt] /\ d.changedAt \in Int
  /\ d.deleted \in [DOMAIN d.deleted -> Int \cup {Never}] /\ DOMAIN d.deleted \subseteq Note

TrashTypeOK ==
  /\ IsDocument(doc)
  /\ seen \in Int \cup {Never} /\ stored \in Int \cup {Never}
  /\ unlocked \in BOOLEAN /\ lost \in BOOLEAN
  /\ time \in 0..MaxTime /\ offset \in Offset \cup {0} /\ wrong \in 0..1
  /\ trashed \in [Note -> 0..MaxTime] /\ found \in [Note -> Int \cup {Never}]

\* The Notes an unlock takes out of Trash.
Purged == IF ~unlocked /\ unlocked' THEN Kept \ DOMAIN doc'.deleted ELSE {}

\* A Note goes only at an unlock that finds it overdue, when an earlier unlock, at least a day
\* before by the same clock, has found it overdue since it was put in Trash.  A settings write
\* that failed may bring back a sighting that was dropped.
OverdueTwice ==
  [][\A n \in Purged :
       /\ n \in Expired(doc, Now)
       /\ lost \/ (found[n] # Never /\ Now - found[n] >= ConfirmAfter)]_trashVars

\* What CONTEXT.md says: a wrong date for one session removes nothing, so what is removed has
\* truly been in Trash for 30 days.
WrongDateRemovesNothing == [][\A n \in Purged : time - trashed[n] >= Retention]_trashVars
=============================================================================
