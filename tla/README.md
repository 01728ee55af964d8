# Encrypted Note: models, checks and proofs

Encrypted Note keeps one encrypted Vault on one computer. This directory holds TLA+ models of
the parts of its code that decide *when*: when the app locks, what may be shown and for how
long, which file survives a power loss, which of several overlapping requests may still take
effect, when a panel must be blank, when a helper must be stopped. Each module is translated
from the code that `PROJECT.json` (`map`) names for it, TLC checks it on small instances, and
TLAPS proves the theorems listed below for every value of the constants. Paths are relative to
the repository; `native_coordinator.rs` and the like are under `src-tauri/src`.

## The system

| part | state it keeps | operations | what makes it hard |
|---|---|---|---|
| session (`crates/session`) | last activity inside and elsewhere, wrong-credential count, the one shown value, recently disclosed fields, the pending clipboard clear | unlock, activity, tick, OS events, show/extend/hide, copy, settings | every rule must hold both before and after a tick that may come late |
| guard (`crates/guard`) | detected apps, dismissed apps | update, dismiss, reset | kept in step with the session by its caller |
| store (`crates/store`) | `vault.enote`, `safety/`, temp files | save, replace, retention, open after a crash | a crash or a failed flush between any two steps, a clock that is wrong both ways |
| core (`core.rs`) | phase, keys and document in memory, guard, settings, preview of another copy | every command of the screens | carries out what the session decides; one failing step of several |
| notes (`crates/notes`) and the purge (`core.rs`) | the document, when it changed, the first sighting of an overdue Note | edit, trash, restore, delete, purge at unlock | all it has to go by is a clock |
| backups (`core.rs`) | oldest change in no Backup, newest version seen, in the settings | edit, back up, restore, open | settings that could not be written; Vaults that take each other's place |
| native operations (`core/native.rs`) | the one pending credential operation, an epoch, a generation | begin, prepare, derive off the lock, finish, cancel | the world changes between the snapshot and the commit |
| coordinator (`native_coordinator.rs`) | the lease, the step in progress and its stage, what was stopped and not yet cleaned up, the queue of the main thread | press, every stage of a step, answer, cancel, interruption, deadline, sync | an async task, the main thread, the background round and whoever stops a step, in any order |
| panels (`native_credential.rs`, `native_credential/mac.rs`, `windows.rs`) | what the boxes hold and show, the line under them, a worker, timers, suspension | typing, ticking, suggesting, pressing, timer, activation, closing | each handler asks once or more whether it may go on, and the answer may change in between |
| Touch ID (`quick_unlock.rs`, `core/quick_unlock.rs`, `quick_runtime.rs`, `biometry.*`) | registration in the settings, protected item, seven-day gate, lease | turn on, unlock, turn off, clean up | two stores that cannot change together |
| Companion (`companion.rs`, `native/companion/*.swift`) | whether the owner started it, whether a broker may be running; the helper's queue and state | set up, start, stop, poll, lock, exit | calls that time out, come late or fail; a broker nobody waits for |
| commands and loop (`lib.rs`, `commands.rs`) | the lock around the core, focus as last heard, the probe of running apps | background round, focus events, exit | events handed over by threads in any order, lists read before the lock |
| platform (`platform.rs`) | the system clipboard and its change counter | clear if unchanged, clear at the start | other programs write it too |
| formats (`crates/vault-format`), policy, reader, screens | bytes | encode, score, print, draw | pure, or views |

How they interact: a screen's command takes the lock of the core, brings its idea of the focus
up to date, ticks the session, and then does what was asked. The background loop does the same
four times a second and every two seconds hands over the list of running apps, which it read
*before* it took the lock. Focus events are recorded at once and delivered by threads. The core
turns what a session call took away (an open session, a shown value, a pending clear) into
effects. The store is called with the lock held; key derivation runs without it. A command that
needs a credential goes to the coordinator, which asks the core for a pending operation, has
the main thread show a panel, hands the answer to a worker and brings the result back to the
core; a panel's callbacks reach the core only if its lock happens to be free. The Companion's
supervisor has a mutex of its own and hears of locks from the loop and from events of the OS.

## Modules

```
SessionRules ── Session ── MCSession            rules of crates/session, driven in any order
 │    │            └────── SessionProofs        theorems about Session
 │    └── SessionRulesProofs                    what each rule keeps, for both proofs
 └── AppCore ── Shell ── MCShell                the core and the running app around it
                  └───── ShellProofs            theorems about Shell
SafetyCopies ── Store ── MCStore                crates/store on a disk that forgets
                  │ └─── StoreProofs            theorems about Store
      VaultRegister (abstract) ◁── Store        what a save promises
NativeOps ── MCNativeOps                        credential operations and what disturbs them
    └─────── NativeOpsProofs                    theorems about NativeOps
Coordinator ── MCCoordinator                    one operation from the press to the result
    └───────── CoordinatorProofs                theorems about Coordinator
PanelRules ── Panel ─┬─ MacPanel ─────┬─ Panels ─┬─ MCPanels    a panel's rules, what must be true
                     └─ WindowsPanel ─┘          └─ PanelProofs  of it, its handlers, theorems
Trash, Backups, Companion, QuickUnlock ── MCBackground
    └──────────────────────────────────── BackgroundProofs    theorems about each of the four
```

* **SessionRules** has one operator per method of `Session`, from the session before the call to
  the session after it. The names are the code's. `recently_disclosed`, a vector of pairs, is a
  function from Hidden Fields to the time of the entry or `None`. The backup reminder is left
  out. Delays and lengths are constants, so the checks can make them small.
* **Session** lets a clock run, and the owner and the system call these operations in any
  order. Six history variables record what was asked and when; no operation reads them.
* **AppCore** adds what `core.rs` does with a session: `apply`, `forget_open_vaults`,
  `start_session`, `tick`, `os_event`, `reset_guard`, the wrong-credential count in memory and in
  `settings.json`, the clipboard. Each is an operator on one record, because each runs under the
  lock of the core; `env` says whether the clipboard can be opened and the settings written in
  that step.
* **Shell** is the running app: the background round with its old list of apps, focus events in
  flight, other programs copying, apps that start and quit, the end of the process, and the
  owner's commands. An operation that a native panel drives (create, unlock, new password, new
  keys, confirm) is here its commit, with the checks `begin` and `finish` both make; that the
  world may change in between is NativeOps' subject. `CopyField` stands for the three commands
  that copy a field, a line of it or it as an environment file.
* **SafetyCopies** is pure: stamps and counters of Safety Copies and what one save removes.
* **Store** performs `save_vault` and `replace_vault` step by step: write, verify, Safety Copy,
  flush of `safety/`, rename, flush of the folder, retention, return. `vaultOnDisk` is the set of
  files `vault.enote` may be after a power loss; `copiesOnDisk` is `safety/` as last flushed. A
  flush makes entries certain; until then a power loss may keep or undo each one, and a file
  not synced before its rename comes back torn. A killed process loses nothing that it wrote.
* **VaultRegister** is the promise without the mechanism: install, confirm, crash. Store
  implements it (`RegisterSpec`).
* **NativeOps** is `core/native.rs` with everything that can disturb it. A version of the Vault
  is a record: which keys seal it, which keys its wallet values are sealed with, its change
  counter, the version it was made from. `BeginNative` takes the snapshot of `begin_native`,
  `PrepareNative` hands it to a worker (`jobs`), and each `Finish...` action commits one kind of
  operation if `Holds`, which is `validate_native`; `FinishStale` is the refusal. Several
  workers may be running at once: a cancelled operation's worker still arrives. `Interrupted`
  stands for the callers that do nothing but `invalidate_native` (focus lost, a cancel, a hidden
  value, the deadline of the operation: every entry point ticks first, so an operation past its
  deadline is never used). `Mutated` is `mutate` with its rollback. Showing, copying and settings
  change no Vault: to this module they are an edit that ends without effect
  (`FinishWithoutEffect`). A Safety Copy is picked like a Backup (`PickBackup`). `FinishQuickUnlock`
  opens the Vault of the disk without its registration being checked, which allows more than the
  code does. `tampered` is set while something else wrote `vault.enote` last.
* **Coordinator** is `native_coordinator.rs`. `steps[t]` is the async task of token `t`, `active`
  the lease, `stopped` the stages that were stopped and are not cleaned up yet, `mainQueue` what
  the main thread has been asked to do, `lock` who holds the core. Core work is one action per
  closure that runs under the lock; publishing a stage, showing its panel and checking that it is
  still current are separate actions, as they are in the code. Stopping happens with or without
  the lock (`Cancel`, `Interrupt`, `Sync`, `DropLease`), and the clean-up (`CleanupCore`, `ClosePanel`) later, in
  any order. The core is reduced to what the coordinator asks of it: phase, pending operation,
  preview, and which captured epochs and generations are still current.
* **PanelRules** has the rules that both platforms share: `Clear`, the live line with its
  worker, the hold-to-show button, the suggested passphrase, the arming of the two-press
  confirmation, suspension and grace. A panel is one record; a text is one of a few values;
  times are ages that stop growing once no rule can tell them apart. **MacPanel** and
  **WindowsPanel** have the handlers, one action each, and **Panel** the rest of the app as a
  handler sees it (`Answers`): allowed, busy, or over, possibly different at each question.
  **Panels** is one panel of any kind on either platform, with its timer, its worker and time.
* **Trash** reduces a Note to since when it is in Trash, and follows the first sighting in memory
  and in the settings file. The clock may be wrong once, for one session, and be set right
  before the next unlock.
* **Backups** follows what the settings say of the newest version seen and of changes that are
  in no Backup, while their writes fail unnoticed and other files take the Vault's place.
* **Companion** composes the supervisor, the call over XPC and the helper's serial queue. A
  thread of the supervisor is a record; a call that timed out stays in the helper's queue.
  `disarmed` is history: Set up was called over a broker.
* **QuickUnlock** has the gate, the core's side, the lease and the cleaner. An item, an envelope
  and a registration are reduced to the binding they carry.

Mutants, operators marked "Mutant:" beside the definition they change, are plausible bugs. Each
one is caught by the property it is paired with in `PROJECT.json`.

## Runs

TLC explores every passing run completely. The times are those of two workers on a small machine.

| run | what it asks | bounds, and why they are enough |
|---|---|---|
| `session` | Auto-lock and its cap, no revival, back-off; the shown value, its bound, the window of disclosures (40 s) | time 0..6 with a cap of 4 and idle times 2 and 3: the cap, both idle times and a late tick all fit. Four wrong credentials pass both delays and the last one, which repeats. Two Hidden Fields, limit 1, window 2, lengths 1 and 3 with one extension: extending early, late and once too often all happen. |
| `store` | what survives, which copies are kept, their order, one wrong clock reading, refinement of the register (40 s) | three calls with two deaths and every step failing on the first day; and four calls over five moments of true time with a clock that is wrong. Three contents, `AutoKeep` = 1 and keep times of a day, so retention has something to remove. |
| `store_retry` | finding 1 | three calls, one failed flush |
| `shell` | shield and guard, dismissals, open Vault and session, wrong credentials; our copies are cleared and nobody else's, focus order (65 s) | two known apps that come and go, any restarts; two copies, ours or others', with clears that may fail and two focus events in flight, the smallest number that can be out of order |
| `shell_failures` | finding 2 | one write that fails |
| `native_ops` | commits against everything that may come in between (65 s) | three versions, two operations in one process, two workers: one that is refused late while another is current. Restarts start the count again. |
| `native_preview` | finding 3 | three versions, four operations |
| `coordinator` | nothing of a stopped step is left behind; a stopped Kit has an owner (35 s) | two steps, so that what is left of one meets the other: the first makes a Kit or ends in a readout, the second is a readout; one event that changes phase, guard or focus |
| `coordinator_live` | the lease ends and the panel comes down (15 s) | one step of each shape, two events |
| `panels` | blank while suspended, plain text only when fresh, advice for what is typed now, the worker ends (80 s) | every kind of panel on a Mac and on Windows, one panel's life, thresholds of one to three ticks of the timer in the order of the real ones |
| `background` | Trash, Backups, the Companion's grant, Touch ID, each on its own (70 s) | two Notes, a clock three moments off either way, restarts; two changes, one Backup, another Vault; two supervisor threads, three presses or events, one fault; two bindings, two leases, one mishap (a failed write or removal, a crash, an exchanged file) |
| `trash_date` | finding 4 | retention 2, three moments of time, two Notes |

The runs `session`, `store` and `shell` each explore two halves of a module through one
CONSTRAINT (`MCHalves`): a state belongs to one half, to the other or to both, and only steps
that leave both are not followed further. Each half keeps still what the properties of the other
are about (the settings and the copies while credentials and locks are explored, deaths while
days go by), because everything at once is beyond what TLC explores in minutes. In `background`
the four modules share no variable; a behaviour follows one and the others rest.

Views and symmetry: contents, Notes, fields and apps are symmetric. A view leaves out what no
property of that run and no later step can tell apart; each one is commented where it is
defined (`MCSession`, `MCStore`, `MCNativeOps`). The runs with liveness have neither.
`CHECK_DEADLOCK FALSE` appears where a bound stops the system: the code does not stop there.

## Fairness

* **Coordinator**: the step's task runs when it can, its deadlines pass, the queue of the main
  thread is emptied, what was put off runs, the panel's timer fires and the loop comes round:
  an async runtime, an event loop and timers that are never cancelled. The owner and the
  system owe nothing.
* **Panels**: the panel's timer fires every 100 ms, and, since no holder of the core's lock
  keeps it for ever, is given a clear answer again and again; time passes; a scoring worker
  ends. The owner owes nothing.
* **Companion**: the loop looks every half second, the supervisor's threads and the helper's
  serial queue run. The broker owes nothing: a stop that it does not answer ends by a kill.

Shell has no liveness property: what the code owes "by the next tick" is stated on the state that a
tick would produce (`Tick(session, now)` in `CapHolds` and `RevealBounded`), which is stronger
than "eventually" and needs no assumption on when the tick comes.

## What the properties say

Each property is stated above its definition. The ones that carry most:

* `NoRevival`, `CapHolds`: however activity, settings and late ticks mix, a session whose
  Auto-lock was due does not come back, and input in other apps never keeps it open past the cap.
* `RevealBounded`, `WindowLimit`: the time a value is shown and the number of fields disclosed in
  a window, counted from history variables and not from the code's own bookkeeping.
* `BackoffAccumulates`, `AttemptsCarried`: wrong credentials cost the sum of their delays, and a
  restart forgives none while settings can be written.
* `DurableSurvives`, `DisplacedIsKept`, `RegisterSpec`: what a save that reported Durable
  promised, for the Vault, and for what it displaced until enough newer copies of its kind exist.
* `WrongClockCostsOne`: one wrong clock reading costs at most one copy of each kind.
* `CommitsFresh`, `Undisturbed`, `NoLostUpdate`: an operation that worked without the lock takes
  effect only on the world its owner saw, and never over newer changes.
* `WalletReadable`, `KitConfirmed`, `SavedIsOpen`: keys, Recovery Kits and memory stay in step
  with the disk through rotations, failures and interruptions.
* `RestIsClean`, `KitOwned`, `LeaseEnds`, `PanelCloses`: whoever stops a step and whenever, no
  lease, panel or pending operation outlives it, and a Recovery Kit in the core has a step, a
  panel or a clean-up that will drop it.
* `BlankWhileSuspended`, `PlainIsFresh`: a panel whose operation may not go on shows nothing of
  what was typed, and nothing is in the clear for longer than the grace without a clear answer.
* `AdviceIsCurrent`, `CheckingEnds`: what is said of a password is about the text in the boxes,
  and a text typed while the worker was busy is scored after all.
* `ArmedWhileServing`, `GrantEndsWithLock`: as long as a broker may serve, the next lock will
  stop it, and a lock ends the grant, through timeouts, late answers and a helper that dies.
* `EnabledHasItem`, `OrphanIsOwed`, `TouchIsAuthorized`: the registration and the protected item
  change one after the other, and a crash or a failure between them leaves neither a registration
  without its item nor an item that nobody will remove; a touch opens the Vault only if nothing
  has revoked it since.
* `UnbackedIsSaid`, `OlderIsSaid`: failed settings writes and copies that take the Vault's place
  do not make unsaved changes look backed up, or an older Vault look current.
* `OverdueTwice`: what an unlock removes from Trash, an earlier one had found overdue.

## Proofs

The eight `...Proofs` modules are checked by TLAPS, for every value of the constants that meets
the named assumptions of the modules they are about: `RulesAssumption`, `CountAssumption`,
`SessionAssumption`, `AppAssumption`, `ShellAssumption`, `CopiesAssumption`, `StoreAssumption`,
`NativeAssumption`, `NoneAssumption`, `CoordinatorAssumption`, `ActiveAssumption`,
`TrashAssumption`, `BackupAssumption`, `CompanionAssumption`, `QuickAssumption`,
`PanelAssumption` and `ShapesAssumption` (TLC evaluates them on the runs). The bounds of the runs are constants too, so a theorem covers every bound. `PROJECT.json`
(`theorems`) lists the results and the property of a run that each one states.

**Session.** `TypeCorrect` goes through every operation. `ShownCorrect` and `RevealBoundedCorrect`
follow from `RevealInv`: neither property is inductive, because a bound on the present says
nothing of the extensions still to come; `RevealInv` says how the end of a reveal follows from
when it was last asked for and that each extension was paid for. `WindowLimitCorrect` needs
`WindowInv`: the list of recent disclosures contains every admission of the last window at its
own time, and is never longer than the limit. `NoRevivalCorrect` and `CapHoldsCorrect` need
`InsideInv`: the session never counts activity as later than it was. `BackoffCorrect` needs
`BackoffInv`, which relates the session's own count, a counter that stops when it is full, to the
run of wrong credentials in `wrong`; the sum of their delays is kept there as a history variable,
because the prover has no induction to add a sequence up. `CountAssumption` says that the counter
is full no sooner than the delay is longest.

**Shell.** An action of Shell is a chain of operators on the core, so the argument is about
operators. `Keeps(c, d, writes)` is what each of them does to a core: a `Sound` one stays sound
(Vault and session open together, shield and guard agree, a copy of ours on the clipboard has a
clear that waits for just this copy), what was hidden stays hidden, the count of wrong credentials
does not fall if the settings can be written, and the Vault stays as it was or is closed together
with its dismissal. It composes (`KeepsTransitive`), which gives the background round and the start of
every command; what a command does after that, which may open a Vault or show a value, is `Yields`,
and every action ends in `Outcome`. The invariant adds to `Sound` only that nothing is shown
behind another window unless a focus event that says so is still in flight: delivered events
may be old ones, so it speaks of those in flight and not of the last one. `AttemptsSurvive` assumes
that settings can be written; finding 2 is what happens otherwise.

**Store.** The inductive invariant `IInv` begins with `TypeOK`, `VaultInv`, `CopiesInv` and `DurableSurvives`.
`VaultInv` says that only whole files are ever in place, and that a call about to report Durable
has left a power loss only one choice; without it a step `Return` could promise what a crash
undoes. `CopiesInv` says that the copies in the folder and those on the disk together have one
strict order with a newest one, and that nothing a power loss may bring back is newer than what
is there: that is why the stamp of the next copy, computed from the folder alone, stays unique.
It needs the lemma `NewestStays`: retention never removes the newest copy. From `IInv` follow
`DurableCorrect`, `CopiesOrderedCorrect`, and `RegisterCorrect`: Store implements VaultRegister
(the rename is Install, the flush of the folder is Confirm, a power loss is Crash, all other
steps stutter).

`DisplacedInv` is the same for the copy of what a save displaced. It is promised when the call returns,
but certain when `safety/` is flushed, so the invariant says that a copy a call took is the newest
of all at its flush, and from then on in the folder and on the disk with at most `later` newer ones of its
kind. Retention keeps the newest of each kind by count, so no clock removes it before
`Outlives` of its kind were taken after it. `OwedInv` bounds what wrong readings cost.
It has to name a set, the copies that *ever* went early: those missing now may be fewer,
because a power loss may bring one back, and then a second reading could take another one unnoticed.
Every other copy that is owed is on the disk, with none earlier in its day (`Safe`), so a reading
that is right keeps it; a reading that is ahead and has not yet done its harm is counted in
advance (`Ahead`). The proof covers clocks and deaths together, which the run explores apart.

**NativeOps.** All of its checked properties are proved, from one invariant `Inv`.
`Snapshot` says that as long as an operation is pending, phase and memory are those it was begun
with, and that its number is higher than that of any interruption: every method that changes
phase or memory ends the pending operation. `Workers` adds that numbers are not used twice and
that the worker of the pending operation was handed the bytes of that snapshot; a commit passes
`Holds`, which compares the file as well, so it finds the world it was begun in (`CommitsFresh`,
`Undisturbed`). `Contents`, `Sealed` and `Current` say where versions may be: only a Kit that waits
for its confirmation is not on the disk, its version continues the one on the disk, and in every
other open phase memory is the file unless another program wrote it. `Previews` says what a preview was
compared with: the Notes of the open Vault, or the file while it is locked, which must not follow from the
file alone once another program has written it. Each action is first shown
to be one of six kinds of step of the Vault (`VaultStep`: nothing, locked, written from outside,
opened, written, new keys made) and one of three for the pending operation (`OperationStep`); the
parts of the invariant are then proved once per kind instead of once per action.

**Coordinator.** `CoordinatorInv` has five parts, each proved from the ones before it. `Typed` and
`Leased`: only the leased step has published metadata, and an operation carries ids of its own token
only. `KitInv`, `PendingInv` and `PanelInv` then say of the unsaved Kit, of what is pending in the
core and of the panel *who still drops, ends or closes it*: the closure that holds the lock, the leased
step, a stopped stage that waits for its clean-up, or for the panel a request to close it in
the queue of the main thread. `RestIsClean` follows because at rest there is none of these. A
request to show a panel may come after the one that closes it only if it is refused, which needs
that an operation asks for one panel at a time (`Requests`). `KitOwned` has its one exception,
`disowned`, in the theorem too.

**Panels.** Every handler is a chain of rules, most of it behind a check that may suspend the panel or
end it, so this argument is about rules too. Each is shown to keep a panel `Good`: typed; the row
shows the line only if there is one; the line is about what the boxes hold unless an edit has not
been seen; what the worker found, or will, is about what the New box holds unless a result is
marked as stale. And each is `Quiet`, which means that it shows nothing new, or is used only on a
panel that `Stands`, which has just had a clear answer. A check leaves a panel `Discreet` whatever
its answer: it shows nothing, or its last clear answer is recent enough. So an action is
`Handled`, or it asks nobody and is `Lessened`: it shows nothing new. `ShownInv` adds the timer. A panel shows
something only with a clear answer at most `Grace` old, and strictly less than that once the timer has fired
since time last passed; `Pass` waits for the timer, so time makes the one into the other. From
`ShownInv` follow `PanelTypes`, `SuspendedIsBlank`, `PlainStaysFresh` and `AdviceStaysCurrent`, for
every kind of panel on both platforms.

**Trash.** `OverdueTwice` speaks of the earliest sighting of each Note; the code keeps one sighting
for all. `SightingInv` relates them: unless a write of the settings was lost, every Note overdue at
the code's sighting was itself found overdue no later than then. It needs that memory and file
agree, since a restart takes what the file holds, and that putting a Note in Trash with a date that
is already overdue at the sighting drops the sighting.

**Backups.** `UnbackedIsSaid` and `OlderIsSaid` speak of what the settings say when it matters;
`OpenIsVault` (what is open is the file unless it was exchanged) and `NewestRemembered` (what was
last opened or written is remembered as the newest, or something newer is) say it at every step
of a save, a Backup and a restore.

**Companion.** `ArmedWhileServing` speaks of a broker that serves now, but what can make the app
forget one is a request that is still in the helper's queue after its caller has given up. The
invariant `Armed` therefore speaks of everything that serves or will: after the last start in the
queue comes a stop, or the owner's wish (`ownerStarted`) is on record together with `active` or a
thread that is about to send a stop. A reply could still switch `active` off wrongly; `Callers`,
`Mutex` and `Replied` say that it cannot be out of date: a thread waits only for the last request
there is, so when it has its reply the helper has nothing left to do. The lemmas on queues say
what appending and taking a request do to "a stop comes after the last start".

**Touch ID.** Registration and item change one after the other, so `QuickInv` says who may act on
either in between: a lease and the cleaner exclude each other; whatever removes an item, or
will, has first taken the registration off the disk (`RemovalIsSafe`); while a lease turns Touch
ID on nothing is registered, and the lease answers for the item (`Enrolling`); an item without a
registration has a removal that is due, runs, failed and was told of, or such a lease
(`ItemIsOwed`). `TouchIsAuthorized` needs `Uncalled`: a press that was called off is no longer pending.

**What the proofs changed.** Three definitions were wrong or said too little, and their proofs would
not go through. `DisplacedIsKept` promised a replaced Vault the count of automatic copies; the code
keeps one by count, which shows with `AutoKeep` above 1. Two CASE expressions in Coordinator and
PanelRules had guards that overlap, which leaves open which one is meant.

**Model-checked only.** `GrantEndsWithLock`, `LeaseEnds`, `PanelCloses` and `CheckingEnds`, which
are liveness: like ENABLED and induction over data, it is beyond the prover. Every invariant
and action property of the runs that pass is the statement of a theorem.

## Where the code and what it says differ

1. **A retried save** (`store_retry`). `crates/store/src/lib.rs:24-26` says that a write is reported
   as Uncertain when its final flush could not be confirmed. A Safety Copy whose flush failed is
   found by the next call, trusted (`lib.rs:253`) and the call reports Durable.
2. **The count of wrong credentials** (`shell_failures`). `core.rs:685` says the count is kept on disk
   so that a restart hands out no fresh attempts. A failed write is ignored after the count in
   memory was changed, so no later tick writes it.
3. **A preview after a password change** (`native_preview`). `core.rs:1782` says that after an edit a
   preview's "older than current" no longer holds, and drops it. A Master Password change also
   makes the Vault newer, but keeps the preview and its warning.
4. **A date that is behind** (`trash_date`). `CONTEXT.md:129` says that a wrong date for one session
   removes nothing, and `crates/notes/src/lib.rs:491-493` stamps a trashed Note with the later of
   now and `changed_at` so that it cannot be back-dated. The first edit under a date that is behind
   sets `changed_at` itself back, so a second Note put in Trash in that session is back-dated, and
   goes after two unlocks a day apart under the right date.

## Not modelled, and why

* Cryptography, byte formats, the password policy, the reader, the platform calls and the
  screens: no state that the app decides on, or pure functions of large inputs. The full list
  is in `PROJECT.json`.
* A kill *inside* a command of the core: in Shell and NativeOps a command is one step, so a
  crash comes before or after it. What a crash does to a save is Store's subject, to Touch ID's two
  stores QuickUnlock's.
* Focus losses that a file dialog of the app itself causes are ignored by the code and absent
  here. The loop looks for apps every two seconds, so an app that quits and starts again between
  two looks is not seen, in the code or in Shell.
* On the Mac the count check and the clear of the clipboard are two calls; another program may
  copy between them. Shell treats them as one.
* Showing a value while new keys wait for confirmation: the code leaves a shown value to its own
  time there, and so does Shell. `count_activity_anywhere` is explored in Session and off in the
  Shell runs.
* Settings that cannot be read at the start: the code then takes the strictest ones.
* Coordinator: the conversion of results, the row with the waiting time, an operation whose
  worker cannot be spawned. In `KitOwned` one case is left out and recorded in `disowned`: a Kit
  that was cancelled stays in the core if a later operation takes the lease and something
  invalidates what was pending before the clean-up runs (`native_coordinator.rs:980`; the design
  note `docs/native-credential-design.md:40` has the clean-up drop it). The next lock drops it.
* Panels: the panel of an entry that Touch ID can answer, a scoring worker that cannot be
  spawned, text that is too long, layout, scrolling, the keyboard loop. The Current box is
  reduced to empty or not.
* Backups: a Backup's destination is chosen right before each Backup; that a choice is used
  once and expires is left out, and so is a folder that may be entered but not read.
* Companion: what a view says apart from its state (why it is off, when it expires, readiness),
  and what the broker serves. Set up over a broker that is still running (`Install`) is the
  exception of both properties: it acknowledges a stop that has not happened.
* QuickUnlock: the availability flag, the bytes of the envelope, a power loss that undoes the
  item alone, reads that fail. An early cancel is covered by `PanelCloses`; beginning and ending
  an unlock with the Master Password is one step.
* A Backup and a settings file are written through the same temp file and rename as the Vault;
  they appear as one step that may fail.

## What could come next

1. Liveness of Shell under weak fairness of the background round: a copy of ours leaves the
   clipboard, an overdue session locks.
2. Coordinator on top of NativeOps instead of the reduced core.
