-------------------------------- MODULE Backups --------------------------------
(***************************************************************************)
(* What the app tells the owner about copies (core.rs): that saved changes *)
(* are in no Backup yet (`oldest_unbacked_change_at`), and that an older   *)
(* copy of the Vault was opened than the newest seen here (`newest_seen`). *)
(* Both live in the settings, whose writes may fail unnoticed, while the   *)
(* Vault file is saved, replaced by a copy or exchanged from outside.      *)
(*                                                                         *)
(* A version of a Vault is the set of changes it holds; its change_counter *)
(* is how many.  Previews and their warnings are in NativeOps.             *)
(***************************************************************************)
EXTENDS Naturals, FiniteSets

CONSTANTS
  MaxChanges,  \* bound: the changes the owner makes, 1, 2 and so on
  MaxBackups,  \* bound: Backups written
  Foreign,     \* Backups of another Vault
  Closed       \* no open Vault

\* A version of a Vault: whose it is, and the changes it holds.
IsVersion(v) == v = [id |-> v.id, changes |-> v.changes] /\ IsFiniteSet(v.changes)

ASSUME BackupAssumption == \A v \in Foreign : IsVersion(v)

VARIABLES
  vault,        \* vault.enote
  open,         \* the open version, or Closed
  prefs,        \* the settings in memory: unbacked, newest
  prefsFile,    \* and in settings.json
  older,        \* older_copy_opened
  backups, safety,
  lastKept,     \* history: the version this app last saved, installed or found of another Vault
  exchanged,    \* history: the file is not what this app put there
  forgot        \* history: the settings a restart did not find as they were

backupVars == <<vault, open, prefs, prefsFile, older, backups, safety, lastKept, exchanged, forgot>>

Seen(v) == [id |-> v.id, counter |-> Cardinality(v.changes)]

\* What `first` and then `last` write of the settings, each only if it differs; a write may fail.
Remembering(first, last) ==
  /\ prefs' = last
  /\ prefsFile' \in {prefsFile} \cup (IF first = prefs THEN {} ELSE {first})
                                \cup (IF last = first THEN {} ELSE {last})

RememberSeen(p, v) == [p EXCEPT !.newest = Seen(v)]
NoteChange(p) == [p EXCEPT !.unbacked = TRUE]

\* The file that was there becomes a Safety Copy.
Put(v) ==
  /\ vault' = v /\ open' = v
  /\ safety' = safety \cup {vault}
  /\ lastKept' = Seen(v) /\ exchanged' = FALSE

\* Any saved change: an edit, a purge, new credentials.
Made == UNION {v.changes : v \in ({vault, open} \ {Closed}) \cup safety \cup backups}
Edit ==
  LET v == [open EXCEPT !.changes = @ \cup {Cardinality(Made) + 1}]
      seen == RememberSeen(prefs, v)
  IN
  /\ open # Closed
  /\ Cardinality(Made) < MaxChanges
  /\ Put(v)
  /\ Remembering(seen, NoteChange(seen))
  /\ forgot' = forgot \ {"newest"}
  /\ UNCHANGED <<older, backups>>

\* The open version, not the file, goes where the owner has just said.
WriteBackup ==
  /\ open # Closed /\ Cardinality(backups) < MaxBackups
  /\ backups' = backups \cup {open}
  /\ prefs' = [prefs EXCEPT !.unbacked = FALSE]
  /\ prefsFile' \in {prefsFile, prefs'}
  /\ forgot' = forgot \ {"unbacked"}
  /\ UNCHANGED <<vault, open, older, safety, lastKept, exchanged>>

\* Mutant: whatever was installed counts as backed up.
InstalledClean(p, source) == [p EXCEPT !.unbacked = FALSE]

Installed(p, source) == [p EXCEPT !.unbacked = source = "safety"]

Install(v, source) ==
  LET seen == RememberSeen(prefs, v) IN
  /\ v \in IF source = "safety" THEN safety ELSE backups \cup Foreign
  /\ Put(v)
  /\ Remembering(seen, Installed(seen, source))
  /\ older' = FALSE
  /\ forgot' = forgot \ IF source = "safety" THEN {"newest"} ELSE {"newest", "unbacked"}
  /\ UNCHANGED backups

\* Mutant: what is opened is the newest.
IsOlderNever(v, newest) == FALSE

IsOlder(v, newest) == newest.id = v.id /\ Cardinality(v.changes) < newest.counter

OpenVault ==
  /\ open = Closed /\ open' = vault
  /\ older' = IsOlder(vault, prefs.newest)
  /\ IF older' THEN UNCHANGED <<prefs, prefsFile>>
     ELSE Remembering(prefs, RememberSeen(prefs, vault))
  /\ lastKept' = IF lastKept.id = vault.id THEN lastKept ELSE Seen(vault)
  /\ UNCHANGED <<vault, backups, safety, exchanged, forgot>>

Close ==
  /\ open # Closed /\ open' = Closed
  /\ older' = FALSE
  /\ UNCHANGED <<vault, prefs, prefsFile, backups, safety, lastKept, exchanged, forgot>>

\* A crash between a save and what follows it is a write that failed, and this.
Restart ==
  /\ open' = Closed /\ older' = FALSE
  /\ prefs' = prefsFile
  /\ forgot' = forgot \cup {f \in {"unbacked", "newest"} : prefs[f] # prefsFile[f]}
  /\ UNCHANGED <<vault, prefsFile, backups, safety, lastKept, exchanged>>

Exchange(v) ==
  /\ v \in safety \cup backups \cup Foreign /\ v # vault /\ ~exchanged
  /\ vault' = v /\ exchanged' = TRUE
  /\ UNCHANGED <<open, prefs, prefsFile, older, backups, safety, lastKept, forgot>>

BackupInit ==
  /\ vault = [id |-> "here", changes |-> {}]
  /\ open = vault
  /\ prefs = [unbacked |-> FALSE, newest |-> Seen(vault)] /\ prefsFile = prefs
  /\ older = FALSE
  /\ backups = {} /\ safety = {}
  /\ lastKept = Seen(vault) /\ exchanged = FALSE /\ forgot = {}

BackupNext ==
  \/ Edit
  \/ WriteBackup
  \/ \E source \in {"safety", "backup"} : \E v \in safety \cup backups \cup Foreign : Install(v, source)
  \/ OpenVault \/ Close \/ Restart
  \/ \E v \in safety \cup backups \cup Foreign : Exchange(v)

BackupSpec == BackupInit /\ [][BackupNext]_backupVars

\* A change that this app saved and no Backup holds is said to be in none, whatever was backed up,
\* restored and saved over in between, until a restart finds settings that could not be written.
UnbackedIsSaid ==
  ~exchanged /\ vault.changes # {} /\ (\A b \in backups \cup Foreign : ~(b.id = vault.id /\ vault.changes \subseteq b.changes))
    => prefs.unbacked \/ "unbacked" \in forgot

\* Who opens an older version than the one this app last left here is told until it is closed.
OlderIsSaid ==
  open # Closed /\ open.id = lastKept.id /\ Seen(open).counter < lastKept.counter
    => older \/ "newest" \in forgot
=============================================================================
