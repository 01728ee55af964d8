-------------------------- MODULE CoordinatorProofs --------------------------
(***************************************************************************)
(* Coordinator, proved for any number of steps and events: its types, that *)
(* an unsaved Recovery Kit has an owner (KitOwned), and that nothing of an *)
(* operation is left when everything came to rest (RestIsClean).           *)
(*                                                                         *)
(* The inductive invariant has five parts, each proved from the ones       *)
(* before it: Typed, Leased (whose metadata is published), KitInv (who     *)
(* still drops the Kit), PendingInv (who still ends what is pending) and   *)
(* PanelInv (who still closes the panel).  One lemma per action says what  *)
(* it does to its step (Moves), to the core and to the panel; the other    *)
(* parts are proved from what those lemmas say.                            *)
(***************************************************************************)
EXTENDS Coordinator, SequenceTheorems, TLAPS

-----------------------------------------------------------------------------
(* Bookkeeping *)

Untouched == {"unused", "reserved", "prepare", "calibrate", "begin", "begun"}

\* A token that was not handed out is unused.  An operation has no id before it began, then its own.
Numbered ==
  \A t \in Token :
    /\ t > sequence => steps[t].pc = "unused"
    /\ steps[t].pc \in Untouched => steps[t].id = 0
    /\ steps[t].pc \in {"openEntry", "ask"} => steps[t].id = OwnId(t)
    /\ steps[t].pc \in {"openEntry", "openKit", "openReveal"} =>
         steps[t].id # 0 /\ steps[t].reply = "none"

Typed == TypeOK /\ Numbered

Core == [phase : {"NoVault", "Kit", "Locked", "Unlocked"}, vault : BOOLEAN,
         pending : 0..2 * MaxSteps, shown : BOOLEAN, guard : BOOLEAN,
         sameEpoch : SUBSET Token, sameSession : SUBSET Token]
Reply == {"none", "ok", "cancelled", "interrupted", "busy"}
Request == [do : {"present", "close"}, token : Token, id : 1..2 * MaxSteps]
Stopped == [stage : Active, todo : {"close", "clean", "cleanFirst", "closeOnly"}]
Id == 0..2 * MaxSteps
Panel == [token : Token, id : 1..2 * MaxSteps, suspended : BOOLEAN]

\* One step goes on, the others stay where they are.
Moves(t, pc, id, reply) ==
  /\ steps' \in [Token -> Step]
  /\ steps'[t].pc = pc /\ steps'[t].id = id /\ steps'[t].reply = reply
  /\ \A u \in Token \ {t} : steps'[u] = steps[u]

LEMMA Counts == MaxSteps \in Nat /\ 0 \in Id
  BY CoordinatorAssumption DEF Id

LEMMA StepFields ==
  ASSUME NEW s \in Step
  PROVE  /\ s.action \in AllActions \cup {None} /\ s.pc \in Pc /\ s.id \in Id
         /\ s.late \in BOOLEAN /\ s.reply \in Reply /\ s.result \in Result
  BY DEF Step, Id, Reply

LEMMA OneStepMoves ==
  ASSUME steps \in [Token -> Step], NEW t \in Token, NEW s \in Step,
         steps' = [steps EXCEPT ![t] = s]
  PROVE  Moves(t, s.pc, s.id, s.reply)
  BY DEF Moves

LEMMA GotoMoves ==
  ASSUME steps \in [Token -> Step], NEW t \in Token, NEW pc \in Pc, Goto(t, pc)
  PROVE  Moves(t, pc, steps[t].id, steps[t].reply)
<1> DEFINE s == [steps[t] EXCEPT !.pc = pc]
<1>1. s \in Step /\ s.pc = pc /\ s.id = steps[t].id /\ s.reply = steps[t].reply
  BY DEF Step
<1>2. steps' = [steps EXCEPT ![t] = s]
  BY DEF Goto
<1> QED
  BY <1>1, <1>2, OneStepMoves

LEMMA LeaveMoves ==
  ASSUME steps \in [Token -> Step], NEW t \in Token, NEW result \in Result, Leave(t, result)
  PROVE  Moves(t, "return", steps[t].id, steps[t].reply)
<1> DEFINE s == [steps[t] EXCEPT !.pc = "return", !.result = result]
<1>1. s \in Step /\ s.pc = "return" /\ s.id = steps[t].id /\ s.reply = steps[t].reply
  BY DEF Step, Pc
<1>2. steps' = [steps EXCEPT ![t] = s]
  BY DEF Leave
<1> QED
  BY <1>1, <1>2, OneStepMoves

LEMMA DeadlineMoves ==
  ASSUME steps \in [Token -> Step], NEW t \in Token, NEW pc \in Pc, NEW id \in Id,
         NewDeadline(t, pc, id)
  PROVE  Moves(t, pc, id, "none")
<1> DEFINE s == [steps[t] EXCEPT !.pc = pc, !.id = id, !.late = FALSE, !.reply = "none"]
<1>1. s \in Step /\ s.pc = pc /\ s.id = id /\ s.reply = "none"
  BY DEF Step, Id
<1>2. steps' = [steps EXCEPT ![t] = s]
  BY DEF NewDeadline
<1> QED
  BY <1>1, <1>2, OneStepMoves

RunsLate(t) == steps' = [steps EXCEPT ![t].late = TRUE]
Ends(t, result) == steps' = [steps EXCEPT ![t].pc = "ended", ![t].result = result]
Drops(t) ==
  steps' = [steps EXCEPT ![t].pc = "ended", ![t].id = 0, ![t].late = FALSE, ![t].reply = "none"]
Admits(t, a) == steps' = [steps EXCEPT ![t].action = a, ![t].pc = "reserved"]
Refuses(t, a) ==
  steps' = [steps EXCEPT ![t].action = a, ![t].pc = "ended", ![t].result = "busy"]

LEMMA LateMoves ==
  ASSUME steps \in [Token -> Step], NEW t \in Token, RunsLate(t)
  PROVE  Moves(t, steps[t].pc, steps[t].id, steps[t].reply)
<1> DEFINE s == [steps[t] EXCEPT !.late = TRUE]
<1>1. s \in Step /\ s.pc = steps[t].pc /\ s.id = steps[t].id /\ s.reply = steps[t].reply
  BY DEF Step
<1>2. steps' = [steps EXCEPT ![t] = s]
  BY DEF RunsLate
<1> QED
  BY <1>1, <1>2, OneStepMoves

LEMMA EndMoves ==
  ASSUME steps \in [Token -> Step], NEW t \in Token, NEW result \in Result, Ends(t, result)
  PROVE  Moves(t, "ended", steps[t].id, steps[t].reply)
<1> DEFINE s == [steps[t] EXCEPT !.pc = "ended", !.result = result]
<1>1. s \in Step /\ s.pc = "ended" /\ s.id = steps[t].id /\ s.reply = steps[t].reply
  BY DEF Step, Pc
<1>2. steps' = [steps EXCEPT ![t] = s]
  BY DEF Ends
<1> QED
  BY <1>1, <1>2, OneStepMoves

LEMMA DropMoves ==
  ASSUME steps \in [Token -> Step], NEW t \in Token, Drops(t)
  PROVE  Moves(t, "ended", 0, "none")
<1> DEFINE s == [steps[t] EXCEPT !.pc = "ended", !.id = 0, !.late = FALSE, !.reply = "none"]
<1>1. s \in Step /\ s.pc = "ended" /\ s.id = 0 /\ s.reply = "none"
  BY Counts DEF Step, Pc, Id
<1>2. steps' = [steps EXCEPT ![t] = s]
  BY DEF Drops
<1> QED
  BY <1>1, <1>2, OneStepMoves

LEMMA ReserveMoves ==
  ASSUME steps \in [Token -> Step], NEW t \in Token, NEW a \in AllActions,
         Admits(t, a) \/ Refuses(t, a)
  PROVE  \/ Moves(t, "reserved", steps[t].id, steps[t].reply)
         \/ Moves(t, "ended", steps[t].id, steps[t].reply)
<1>1. CASE Admits(t, a)
  <2> DEFINE s == [steps[t] EXCEPT !.action = a, !.pc = "reserved"]
  <2>1. s \in Step /\ s.pc = "reserved" /\ s.id = steps[t].id /\ s.reply = steps[t].reply
    BY DEF Step, Pc
  <2>2. steps' = [steps EXCEPT ![t] = s]
    BY <1>1 DEF Admits
  <2> QED
    BY <2>1, <2>2, OneStepMoves
<1>2. CASE Refuses(t, a)
  <2> DEFINE s == [steps[t] EXCEPT !.action = a, !.pc = "ended", !.result = "busy"]
  <2>0. PICK old \in Step : old = steps[t]
    OBVIOUS
  <2>1. s \in Step /\ s.pc = "ended" /\ s.id = steps[t].id /\ s.reply = steps[t].reply
    <3>1. "ended" \in Pc /\ "busy" \in Result
      BY DEF Pc, Result
    <3>2. /\ [old EXCEPT !.action = a, !.pc = "ended", !.result = "busy"] \in Step
          /\ [old EXCEPT !.action = a, !.pc = "ended", !.result = "busy"].pc = "ended"
          /\ [old EXCEPT !.action = a, !.pc = "ended", !.result = "busy"].id = old.id
          /\ [old EXCEPT !.action = a, !.pc = "ended", !.result = "busy"].reply = old.reply
      BY <3>1 DEF Step
    <3> QED
      BY <2>0, <3>2
  <2>2. steps' = [steps EXCEPT ![t] = s]
    BY <1>2 DEF Refuses
  <2> QED
    BY <2>1, <2>2, OneStepMoves
<1> QED
  BY <1>1, <1>2

\* An answer changes nothing but the reply of a step that waits for one.
Answers(t) ==
  /\ steps' \in [Token -> Step]
  /\ \A u \in Token : steps'[u].pc = steps[u].pc /\ steps'[u].id = steps[u].id
  /\ \A u \in Token \ {t} : steps'[u] = steps[u]
  /\ steps[t].pc \notin Waiting => steps'[t] = steps[t]

LEMMA ReplyAnswers ==
  ASSUME steps \in [Token -> Step], NEW t \in Token, NEW reply \in Reply, Replied(t, reply)
  PROVE  Answers(t)
<1>1. CASE steps[t].pc \in Waiting /\ steps[t].reply = "none"
  <2> DEFINE s == [steps[t] EXCEPT !.reply = reply]
  <2>1. s \in Step /\ s.pc = steps[t].pc /\ s.id = steps[t].id /\ s.reply = reply
    BY DEF Step, Reply
  <2>2. steps' = [steps EXCEPT ![t] = s]
    BY <1>1 DEF Replied
  <2> QED
    BY <1>1, <2>1, <2>2, OneStepMoves DEF Moves, Answers
<1>2. CASE ~(steps[t].pc \in Waiting /\ steps[t].reply = "none")
  BY <1>2 DEF Replied, Answers
<1> QED
  BY <1>1, <1>2

LEMMA CloseAnswers ==
  ASSUME steps \in [Token -> Step], NEW t \in Token, NEW reply \in Reply, ClosedBy(t, reply)
  PROVE  Answers(t)
  BY ReplyAnswers DEF ClosedBy, Reply

LEMMA Outcomes ==
  ASSUME NEW t \in Token
  PROVE  Ended(t) \in Result /\ PromptFailure(t) \in Result /\ AfterCommit(t) \in Pc
  BY DEF Ended, PromptFailure, AfterCommit, Result, Pc

LEMMA Ids ==
  ASSUME NEW t \in Token
  PROVE  /\ OwnId(t) \in 1..2 * MaxSteps /\ KitId(t) \in 1..2 * MaxSteps
         /\ OwnId(t) # KitId(t) /\ OwnId(t) \in Id /\ KitId(t) \in Id
         /\ t \in 0..Syncing /\ t # 0 /\ t # Syncing
  BY CoordinatorAssumption DEF Token, OwnId, KitId, Id, Syncing

-----------------------------------------------------------------------------
LEMMA CoreInvalidated ==
  ASSUME NEW c \in Core
  PROVE  /\ InvalidateNative(c) \in Core /\ InvalidateNative(c).pending = 0
         /\ InvalidateNative(c).phase = c.phase
  BY Counts DEF InvalidateNative, Core, Id

LEMMA CoreHidden ==
  ASSUME NEW c \in Core
  PROVE  HideField(c) \in Core /\ HideField(c).pending = 0 /\ HideField(c).phase = c.phase
<1>1. PICK d : d = InvalidateNative(c)
  OBVIOUS
<1>2. HideField(c) = [d EXCEPT !.shown = FALSE]
  BY <1>1 DEF HideField
<1> QED
  BY <1>1, <1>2, CoreInvalidated DEF Core

LEMMA CoreLocked ==
  ASSUME NEW c \in Core
  PROVE  LockCore(c) \in Core /\ LockCore(c).pending = 0 /\ LockCore(c).phase # "Kit"
<1>1. PICK d : d = HideField(c)
  OBVIOUS
<1>2. LockCore(c) = [d EXCEPT !.phase = IF c.vault THEN "Locked" ELSE "NoVault"]
  BY <1>1 DEF LockCore
<1> QED
  BY <1>1, <1>2, CoreHidden DEF Core

LEMMA CoreStarted ==
  ASSUME NEW c \in Core
  PROVE  /\ StartSession(c) \in Core /\ StartSession(c).pending = 0
         /\ StartSession(c).phase = "Unlocked"
<1>1. PICK d : d = InvalidateNative(c)
  OBVIOUS
<1>2. StartSession(c) = [d EXCEPT !.phase = "Unlocked", !.sameSession = {}]
  BY <1>1 DEF StartSession
<1> QED
  BY <1>1, <1>2, CoreInvalidated DEF Core

LEMMA CoreCancelled ==
  ASSUME NEW c \in Core, NEW id \in Id
  PROVE  /\ CancelNative(c, id) \in Core /\ CancelNative(c, id).phase = c.phase
         /\ CancelNative(c, id).pending \in {0, c.pending}
         /\ c.pending = id => CancelNative(c, id).pending = 0
  BY CoreInvalidated DEF CancelNative, Id, Core

LEMMA CoreCaptured ==
  ASSUME NEW c \in Core, NEW t \in Token
  PROVE  /\ Captured(t, c) \in Core /\ Captured(t, c).phase = c.phase
         /\ Captured(t, c).pending = c.pending
  BY DEF Captured, Core

LEMMA CoreCommitted ==
  ASSUME NEW c \in Core, NEW t \in Token
  PROVE  /\ Committed(t, c) \in Core /\ Committed(t, c).pending = 0
         /\ steps[t].id = KitId(t) => Committed(t, c).phase # "Kit"
         /\ Committed(t, c).phase = "Kit" => c.phase = "Kit" \/ AfterCommit(t) = "kitMade"
<1>1. PICK b : b = [c EXCEPT !.pending = 0]
  OBVIOUS
<1>2. b \in Core /\ b.pending = 0 /\ b.phase = c.phase
  BY <1>1, Counts DEF Core, Id
<1>3. CASE steps[t].id = KitId(t)
  <2>1. PICK d : d = StartSession(b)
    OBVIOUS
  <2>0. d \in Core
    BY <1>2, <2>1, CoreStarted
  <2>2. Committed(t, c) = [StartSession(b) EXCEPT !.vault = TRUE]
    BY <1>1, <1>3 DEF Committed
  <2>3. Committed(t, c) = [d EXCEPT !.vault = TRUE]
    BY <1>1, <2>1, <2>2, Zenon
  <2> QED
    BY <1>2, <2>1, <2>3, CoreStarted DEF Core
<1>4. CASE steps[t].id # KitId(t) /\ steps[t].action \in {"CreateVault", "RotateKeys"}
  <2>1. PICK d : d = InvalidateNative(b)
    OBVIOUS
  <2>2. Committed(t, c) = [d EXCEPT !.phase = "Kit"] /\ AfterCommit(t) = "kitMade"
    BY <1>1, <1>4, <2>1 DEF Committed, AfterCommit
  <2> QED
    BY <1>2, <1>4, <2>1, <2>2, CoreInvalidated DEF Core
<1>5. CASE /\ steps[t].id # KitId(t) /\ steps[t].action \notin {"CreateVault", "RotateKeys"}
           /\ steps[t].action = "ShowWalletField"
  <2>1. Committed(t, c) = [b EXCEPT !.shown = TRUE]
    BY <1>1, <1>5 DEF Committed
  <2> QED
    BY <1>2, <1>5, <2>1 DEF Core
<1>6. CASE /\ steps[t].id # KitId(t) /\ steps[t].action \notin {"CreateVault", "RotateKeys"}
           /\ steps[t].action = "Unlock"
  <2>1. Committed(t, c) = StartSession(b)
    BY <1>1, <1>6 DEF Committed
  <2> QED
    BY <1>2, <1>6, <2>1, CoreStarted
<1>7. CASE /\ steps[t].id # KitId(t) /\ steps[t].action \notin {"CreateVault", "RotateKeys"}
           /\ steps[t].action \notin {"Unlock", "ShowWalletField"}
  <2>1. Committed(t, c) = InvalidateNative(b)
    BY <1>1, <1>7 DEF Committed
  <2> QED
    BY <1>2, <1>7, <2>1, CoreInvalidated
<1> QED
  BY <1>3, <1>4, <1>5, <1>6, <1>7

\* What the cleanup after a stop may do to the core.
LEMMA CoreCleaned ==
  ASSUME NEW c \in Core, NEW a \in Active, NEW idle \in BOOLEAN
  PROVE  /\ CleanupCore(c, a, idle) \in Core
         /\ CleanupCore(c, a, idle).pending \in {0, c.pending}
         /\ c.pending = a.id => CleanupCore(c, a, idle).pending = 0
         /\ CleanupCore(c, a, idle).phase = "Kit" =>
              /\ c.phase = "Kit"
              /\ a.stage = "RecoveryKit" =>
                   ~idle /\ c.pending # a.id /\ a.token \notin c.sameEpoch
<1>1. PICK d : d = CancelNative(c, a.id)
  OBVIOUS
<1>2. /\ d \in Core /\ d.phase = c.phase /\ d.pending \in {0, c.pending}
      /\ c.pending = a.id => d.pending = 0
  BY <1>1, CoreCancelled DEF Active, Id
<1>3. /\ LockCore(c) \in Core /\ LockCore(c).pending = 0 /\ LockCore(c).phase # "Kit"
      /\ LockCore(d) \in Core /\ LockCore(d).pending = 0 /\ LockCore(d).phase # "Kit"
      /\ HideField(d) \in Core /\ HideField(d).pending = 0 /\ HideField(d).phase = c.phase
  BY <1>2, CoreLocked, CoreHidden
<1>4. CleanupCore(c, a, idle) =
        IF a.stage = "RecoveryKit" /\ c.phase = "Kit" /\ (c.pending = a.id
          \/ a.token \in c.sameEpoch)
        THEN LockCore(c)
        ELSE IF ~idle THEN d
        ELSE IF a.stage = "Reveal" /\ SameField(a.token, d) THEN HideField(d)
        ELSE IF a.stage = "RecoveryKit" /\ d.phase = "Kit" THEN LockCore(d)
        ELSE d
  BY <1>1 DEF CleanupCore
<1> QED
  BY <1>2, <1>3, <1>4

-----------------------------------------------------------------------------
(* Types *)

LEMMA TypedParts ==
  ASSUME Typed
  PROVE  /\ sequence \in 0..MaxSteps
         /\ current \in {0} \cup Token
         /\ active \in Active \cup {None}
         /\ active # None => active \in Active
         /\ reporting \in {0} \cup Token
         /\ interrupted \in {0} \cup Token
         /\ input \in [token : {0} \cup Token, late : BOOLEAN]
         /\ steps \in [Token -> Step]
         /\ lock \in 0..Syncing
         /\ core \in Core
         /\ panel \in Panel \cup {None}
         /\ mainQueue \in Seq(Request)
         /\ stopped \in SUBSET Stopped
         /\ events \in 0..MaxEvents
         /\ disowned \in BOOLEAN
  BY DEF Typed, TypeOK, Core, Request, Stopped, Panel

LEMMA TypedNext ==
  ASSUME sequence' \in 0..MaxSteps,
         current' \in {0} \cup Token,
         active' \in Active \cup {None},
         reporting' \in {0} \cup Token,
         interrupted' \in {0} \cup Token,
         input' \in [token : {0} \cup Token, late : BOOLEAN],
         steps' \in [Token -> Step],
         lock' \in 0..Syncing,
         core' \in Core,
         panel' \in Panel \cup {None},
         mainQueue' \in Seq(Request),
         stopped' \in SUBSET Stopped,
         events' \in 0..MaxEvents,
         disowned' \in BOOLEAN,
         Numbered'
  PROVE  Typed'
  BY DEF Typed, TypeOK, Core, Request, Stopped, Panel

\* The ids stay with their steps when one step moves on.
NumberedFrom(t, pc, id, reply) ==
  /\ pc \in Untouched => id = 0
  /\ pc \in {"openEntry", "ask"} => id = OwnId(t)
  /\ pc \in {"openEntry", "openKit", "openReveal"} => id # 0 /\ reply = "none"

LEMMA NumberedMoves ==
  ASSUME Numbered, UNCHANGED sequence, NEW t \in Token, NEW pc, NEW id, NEW reply,
         Moves(t, pc, id, reply), steps[t].pc # "unused", NumberedFrom(t, pc, id, reply)
  PROVE  Numbered' /\ steps' \in [Token -> Step]
  BY DEF Numbered, Moves, NumberedFrom, OwnId

LEMMA NumberedStays == ASSUME Numbered, UNCHANGED <<sequence, steps>> PROVE Numbered'
  BY DEF Numbered

LEMMA NumberedAnswers ==
  ASSUME Numbered, UNCHANGED sequence, NEW t \in Token, Answers(t)
  PROVE  Numbered' /\ steps' \in [Token -> Step]
<1>1. \A u \in Token : /\ steps'[u].pc = steps[u].pc /\ steps'[u].id = steps[u].id
                       /\ steps[u].pc \notin Waiting => steps'[u] = steps[u]
  BY DEF Answers
<1> QED
  BY <1>1 DEF Numbered, Answers, Waiting, OwnId

LEMMA LeaveNumbered ==
  ASSUME Typed, UNCHANGED sequence, NEW t \in Token, NEW result \in Result, Leave(t, result),
         steps[t].pc # "unused"
  PROVE  Numbered' /\ steps' \in [Token -> Step]
  BY LeaveMoves, NumberedMoves DEF Typed, TypeOK, NumberedFrom, Untouched

\* The next stage.
LEMMA PublishTyped ==
  ASSUME NEW t \in Token, NEW id \in Id, NEW stage \in Stage, Publish(t, id, stage)
  PROVE  active' \in Active /\ active' # None
  BY ActiveAssumption DEF Publish, Active, Id

LEMMA StopTyped ==
  ASSUME Typed, NEW t, Stop(t)
  PROVE  current' \in {0} \cup Token /\ active' \in Active \cup {None}
  BY TypedParts DEF Stop

LEMMA TakenTyped ==
  ASSUME Typed, NEW t, NEW todo \in {"close", "clean", "cleanFirst", "closeOnly"}
  PROVE  Taken(t, todo) \in SUBSET Stopped
  BY TypedParts DEF Taken, Snapshot, Stopped

LEMMA CancelTyped ==
  ASSUME Typed, NEW t, CancelToken(t)
  PROVE  /\ current' \in {0} \cup Token /\ active' \in Active \cup {None}
         /\ stopped' \in SUBSET Stopped
  BY StopTyped, TakenTyped, TypedParts DEF CancelToken
-----------------------------------------------------------------------------
(* Every step keeps the types *)

LEMMA InitTyped == Init => Typed
<1> SUFFICES ASSUME Init PROVE Typed
  OBVIOUS
<1>1. steps \in [Token -> Step] /\ \A t \in Token : steps[t].pc = "unused" /\ steps[t].id = 0
  BY Counts DEF Init, Step, Pc, Result, Id
<1>2. core \in Core
  BY Counts DEF Init, Core, Id
<1>3. /\ sequence = 0 /\ current = 0 /\ active = None /\ reporting = 0 /\ interrupted = 0
      /\ input = [token |-> 0, late |-> FALSE] /\ lock = 0 /\ panel = None /\ mainQueue = <<>>
      /\ stopped = {} /\ events = 0 /\ disowned = FALSE
  BY DEF Init
<1>4. lock \in 0..Syncing /\ events \in 0..MaxEvents /\ sequence \in 0..MaxSteps
  BY <1>3, CoordinatorAssumption DEF Syncing
<1>5. Numbered
  BY <1>1, <1>3 DEF Numbered
<1>6. input \in [token : {0} \cup Token, late : BOOLEAN] /\ mainQueue \in Seq(Request)
  BY <1>3
<1> QED
  BY <1>1, <1>2, <1>3, <1>4, <1>5, <1>6 DEF Typed, TypeOK, Core, Request, Stopped, Panel

LEMMA ReserveTyped ==
  ASSUME Typed, NEW a \in AllActions, Reserve(a)
  PROVE  Typed'
<1>1. sequence + 1 \in Token /\ sequence' = sequence + 1 /\ sequence' \in 0..MaxSteps
  BY TypedParts, Counts DEF Reserve, Token
<1> DEFINE t == sequence + 1
<1>2. (Admits(t, a) \/ Refuses(t, a)) /\ current' \in {current, t}
  BY DEF Reserve, Admits, Refuses
<1>3. \A u \in Token : /\ u > sequence => steps[u].pc = "unused"
                       /\ u > sequence' /\ u # t => u > sequence
                       /\ t <= sequence'
  BY <1>1, TypedParts DEF Typed, Numbered, Token
<1>4. Numbered' /\ steps' \in [Token -> Step]
  <2>1. \/ Moves(t, "reserved", steps[t].id, steps[t].reply)
        \/ Moves(t, "ended", steps[t].id, steps[t].reply)
    BY <1>1, <1>2, ReserveMoves, TypedParts
  <2>2. t \in Token /\ steps[t].pc = "unused" /\ steps[t].id = 0
    BY <1>1, <1>3, TypedParts DEF Typed, Numbered, Untouched
  <2>3. /\ \A u \in Token : u # t => steps'[u] = steps[u]
        /\ steps'[t].pc \in {"reserved", "ended"} /\ steps'[t].id = 0
    BY <2>1, <2>2 DEF Moves
  <2>4. \A u \in Token : u > sequence' => u # t /\ steps'[u].pc = "unused"
    BY <1>1, <1>3, <2>3 DEF Token
  <2> HIDE DEF t
  <2>5. Numbered'
    BY <2>3, <2>4 DEF Typed, Numbered, Untouched, OwnId
  <2> QED
    BY <2>1, <2>5 DEF Moves
<1>5. /\ active' \in Active \cup {None} /\ reporting' \in {0} \cup Token
      /\ interrupted' \in {0} \cup Token
      /\ input' \in [token : {0} \cup Token, late : BOOLEAN]
      /\ lock' \in 0..Syncing /\ core' \in Core /\ panel' \in Panel \cup {None}
      /\ mainQueue' \in Seq(Request) /\ stopped' \in SUBSET Stopped
      /\ events' \in 0..MaxEvents /\ disowned' \in BOOLEAN
      /\ current' \in {0} \cup Token
  BY <1>1, <1>2, TypedParts DEF Reserve
<1> QED
  BY <1>1, <1>4, <1>5, TypedNext

LEMMA PublishReservedTyped ==
  ASSUME Typed, NEW t \in Token, PublishReserved(t)
  PROVE  /\ Typed'
         /\ steps[t].pc = "reserved"
         /\ \E pc \in {"prepare", "begin", "ended"} : Moves(t, pc, 0, steps[t].reply)
<1>0. steps[t].pc = "reserved" /\ steps[t].id = 0 /\ UNCHANGED sequence
  BY DEF PublishReserved, Typed, Numbered, Untouched
<1>1. \/ Goto(t, "prepare") \/ Goto(t, "begin") \/ Ends(t, "cancelled")
  BY DEF PublishReserved, Ends
<1>2. \E pc \in {"prepare", "begin", "ended"} : Moves(t, pc, 0, steps[t].reply)
  BY <1>0, <1>1, GotoMoves, EndMoves, TypedParts DEF Pc, Result
<1>3. Numbered' /\ steps' \in [Token -> Step]
  BY <1>0, <1>2, NumberedMoves DEF Typed, NumberedFrom
<1>4. active' \in Active \cup {None} /\ reporting' \in {0} \cup Token
  BY PublishTyped, Counts, TypedParts DEF PublishReserved, Stage
<1>5. /\ sequence' \in 0..MaxSteps /\ interrupted' \in {0} \cup Token
      /\ input' \in [token : {0} \cup Token, late : BOOLEAN]
      /\ lock' \in 0..Syncing /\ core' \in Core /\ panel' \in Panel \cup {None}
      /\ mainQueue' \in Seq(Request) /\ stopped' \in SUBSET Stopped
      /\ events' \in 0..MaxEvents /\ disowned' \in BOOLEAN
      /\ current' \in {0} \cup Token
  BY TypedParts DEF PublishReserved
<1> QED
  BY <1>0, <1>2, <1>3, <1>4, <1>5, TypedNext

LEMMA PrepareTyped ==
  ASSUME Typed, NEW t \in Token, Prepare(t)
  PROVE  /\ Typed'
         /\ steps[t].pc = "prepare" /\ steps[t].id = 0
         /\ \E pc \in {"calibrate", "return"} : Moves(t, pc, 0, steps[t].reply)
<1>0. steps[t].pc = "prepare" /\ steps[t].id = 0 /\ UNCHANGED sequence
  BY DEF Prepare, Typed, Numbered, Untouched
<1>1. \/ Goto(t, "calibrate") \/ \E result \in Result : Leave(t, result)
  BY Outcomes DEF Prepare, Result
<1>2. \E pc \in {"calibrate", "return"} : Moves(t, pc, 0, steps[t].reply)
  BY <1>0, <1>1, GotoMoves, LeaveMoves, TypedParts DEF Pc
<1>3. Numbered' /\ steps' \in [Token -> Step]
  BY <1>0, <1>2, NumberedMoves DEF Typed, NumberedFrom
<1>4. active' \in Active \cup {None} /\ core' \in Core
  BY PublishTyped, Counts, CoreCaptured, TypedParts DEF Prepare, Stage
<1>5. /\ sequence' \in 0..MaxSteps /\ interrupted' \in {0} \cup Token
      /\ input' \in [token : {0} \cup Token, late : BOOLEAN]
      /\ lock' \in 0..Syncing /\ reporting' \in {0} \cup Token /\ panel' \in Panel \cup {None}
      /\ mainQueue' \in Seq(Request) /\ stopped' \in SUBSET Stopped
      /\ events' \in 0..MaxEvents /\ disowned' \in BOOLEAN
      /\ current' \in {0} \cup Token
  BY TypedParts, Counts DEF Prepare, Syncing
<1> QED
  BY <1>0, <1>2, <1>3, <1>4, <1>5, TypedNext

LEMMA CalibratedTyped ==
  ASSUME Typed, NEW t \in Token, Calibrated(t)
  PROVE  /\ Typed'
         /\ steps[t].pc = "calibrate" /\ steps[t].id = 0
         /\ \E pc \in {"begin", "return"} : Moves(t, pc, 0, steps[t].reply)
<1>0. steps[t].pc = "calibrate" /\ steps[t].id = 0
  BY DEF Calibrated, Typed, Numbered, Untouched
<1>1. \/ Goto(t, "begin") \/ \E result \in Result : Leave(t, result)
  BY Outcomes DEF Calibrated
<1>2. \E pc \in {"begin", "return"} : Moves(t, pc, 0, steps[t].reply)
  BY <1>0, <1>1, GotoMoves, LeaveMoves, TypedParts DEF Pc
<1>3. UNCHANGED <<coordinator, lock, core, panel, mainQueue, stopped, events, disowned>>
  BY DEF Calibrated
<1>4. Numbered' /\ steps' \in [Token -> Step]
  BY <1>0, <1>2, <1>3, NumberedMoves DEF Typed, NumberedFrom, coordinator
<1> QED
  BY <1>0, <1>2, <1>3, <1>4, TypedParts, TypedNext DEF coordinator

LEMMA BeginNativeTyped ==
  ASSUME Typed, NEW t \in Token, BeginNative(t)
  PROVE  /\ Typed'
         /\ steps[t].pc = "begin" /\ steps[t].id = 0
         /\ \E pc \in {"begun", "return"} : Moves(t, pc, 0, steps[t].reply)
<1>0. /\ steps[t].pc = "begin" /\ steps[t].id = 0
      /\ UNCHANGED <<coordinator, panel, mainQueue, stopped, events, disowned>>
  BY DEF BeginNative, Typed, Numbered, Untouched
<1>1. \/ Goto(t, "begun") \/ \E result \in Result : Leave(t, result)
  BY Outcomes DEF BeginNative, Result
<1>2. \E pc \in {"begun", "return"} : Moves(t, pc, 0, steps[t].reply)
  BY <1>0, <1>1, GotoMoves, LeaveMoves, TypedParts DEF Pc
<1>3. Numbered' /\ steps' \in [Token -> Step]
  BY <1>0, <1>2, NumberedMoves DEF Typed, NumberedFrom, coordinator
<1>4. core' \in Core
  <2>1. core' = core \/ core' = [core EXCEPT !.shown = FALSE]
        \/ core' = [core EXCEPT !.pending = OwnId(t), !.shown = FALSE]
    BY DEF BeginNative
  <2> QED
    BY <2>1, TypedParts, Ids DEF Core, Id
<1>5. lock' \in 0..Syncing
  BY Ids, Counts DEF BeginNative, Syncing
<1> QED
  BY <1>2, <1>0, <1>3, <1>4, <1>5, TypedParts, TypedNext DEF coordinator

LEMMA BegunTyped ==
  ASSUME Typed, NEW t \in Token, Begun(t)
  PROVE  /\ Typed'
         /\ steps[t].pc = "begun" /\ steps[t].id = 0
         /\ \/ \E pc \in {"openEntry", "derive"} : Moves(t, pc, OwnId(t), "none")
            \/ Moves(t, "return", 0, steps[t].reply)
<1>0. /\ steps[t].pc = "begun" /\ steps[t].id = 0
      /\ UNCHANGED <<sequence, current, reporting, interrupted, panel, mainQueue, stopped, events,
                     disowned>>
  BY DEF Begun, Typed, Numbered, Untouched
<1>1. \/ NewDeadline(t, "openEntry", OwnId(t)) \/ NewDeadline(t, "derive", OwnId(t))
      \/ \E result \in Result : Leave(t, result)
  BY Outcomes DEF Begun
<1>2. \/ \E pc \in {"openEntry", "derive"} : Moves(t, pc, OwnId(t), "none")
      \/ Moves(t, "return", 0, steps[t].reply)
  BY <1>0, <1>1, DeadlineMoves, LeaveMoves, TypedParts, Ids DEF Pc
<1>3. Numbered' /\ steps' \in [Token -> Step]
  <2>1. OwnId(t) # 0
    BY Ids, Counts
  <2> QED
    BY <1>0, <1>2, <2>1, NumberedMoves DEF Typed, NumberedFrom, Untouched
<1>4. active' \in Active \cup {None} /\ core' \in Core
  BY PublishTyped, Ids, CoreCancelled, TypedParts DEF Begun, Stage
<1>5. input' \in [token : {0} \cup Token, late : BOOLEAN]
  <2>1. input' = input \/ input' = [token |-> t, late |-> FALSE]
    BY DEF Begun
  <2>2. [token |-> t, late |-> FALSE] \in [token : {0} \cup Token, late : BOOLEAN]
    OBVIOUS
  <2> QED
    BY <2>1, <2>2, TypedParts
<1>6. lock' \in 0..Syncing
  BY Counts DEF Begun, Syncing
<1> QED
  BY <1>2, <1>0, <1>3, <1>4, <1>5, <1>6, TypedParts, TypedNext

LEMMA OpenPanelTyped ==
  ASSUME Typed, NEW t \in Token, OpenPanel(t)
  PROVE  /\ Typed'
         /\ steps[t].id # 0 /\ steps[t].reply = "none" /\ Opens[steps[t].pc] \in Waiting
         /\ Moves(t, Opens[steps[t].pc], steps[t].id, "none")
<1>0. /\ steps[t].pc \in {"openEntry", "openKit", "openReveal"}
      /\ steps[t].id # 0 /\ steps[t].reply = "none"
      /\ steps[t].pc = "openEntry" => steps[t].id = OwnId(t)
      /\ UNCHANGED <<sequence, current, active, interrupted, input, lock, core, panel, stopped,
                     events, disowned>>
  BY DEF OpenPanel, Opens, Typed, Numbered
<1>1. /\ Opens[steps[t].pc] \in Waiting /\ Opens[steps[t].pc] \in Pc
      /\ Opens[steps[t].pc] = "ask" => steps[t].pc = "openEntry"
  BY <1>0 DEF Opens, Waiting, Pc
<1>2. Moves(t, Opens[steps[t].pc], steps[t].id, steps[t].reply)
  BY <1>1, GotoMoves, TypedParts DEF OpenPanel
<1>3. Numbered' /\ steps' \in [Token -> Step]
  BY <1>0, <1>1, <1>2, NumberedMoves DEF Typed, NumberedFrom, Untouched, Waiting
<1>4. mainQueue' \in Seq(Request)
  <2>1. steps[t].id \in 1..2 * MaxSteps
    BY <1>0, StepFields, TypedParts, Counts DEF Id
  <2>2. [do |-> "present", token |-> t, id |-> steps[t].id] \in Request
    BY <2>1 DEF Request
  <2>3. mainQueue' = Append(mainQueue, [do |-> "present", token |-> t, id |-> steps[t].id])
    BY DEF OpenPanel
  <2> QED
    BY <2>2, <2>3, TypedParts
<1>5. reporting' \in {0} \cup Token
  BY TypedParts DEF OpenPanel
<1> QED
  BY <1>1, <1>2, <1>0, <1>3, <1>4, <1>5, TypedParts, TypedNext

LEMMA AskedTyped ==
  ASSUME Typed, NEW t \in Token, Asked(t)
  PROVE  /\ Typed'
         /\ steps[t].pc = "ask" /\ steps[t].id = OwnId(t)
         /\ \/ steps[t].reply # "none" /\ \E reply \in Reply : Moves(t, "derive", OwnId(t), reply)
            \/ Moves(t, "return", OwnId(t), steps[t].reply)
<1>0. /\ steps[t].pc = "ask" /\ steps[t].id = OwnId(t)
      /\ UNCHANGED <<sequence, current, active, reporting, interrupted, lock, core, panel,
                     mainQueue,
                     stopped, events, disowned>>
  BY DEF Asked, Typed, Numbered
<1>1. \/ steps[t].reply # "none" /\ (Goto(t, "derive") \/ NewDeadline(t, "derive", OwnId(t)))
      \/ \E result \in Result : Leave(t, result)
  BY Outcomes DEF Asked
<1>2. \/ steps[t].reply # "none" /\ \E reply \in Reply : Moves(t, "derive", OwnId(t), reply)
      \/ Moves(t, "return", OwnId(t), steps[t].reply)
  BY <1>0, <1>1, GotoMoves, DeadlineMoves, LeaveMoves, StepFields, TypedParts, Ids DEF Pc, Reply
<1>3. Numbered' /\ steps' \in [Token -> Step]
  BY <1>0, <1>2, NumberedMoves DEF Typed, NumberedFrom, Untouched
<1>4. input' \in [token : {0} \cup Token, late : BOOLEAN]
  <2>1. input' = input \/ input' = [input EXCEPT !.token = 0]
    BY DEF Asked
  <2> QED
    BY <2>1, TypedParts
<1> QED
  BY <1>0, <1>2, <1>3, <1>4, TypedParts, TypedNext

LEMMA DeriveTyped ==
  ASSUME Typed, NEW t \in Token, Derive(t)
  PROVE  /\ Typed'
         /\ steps[t].pc = "derive"
         /\ \E pc \in {"finish", "return"} : Moves(t, pc, steps[t].id, steps[t].reply)
<1>0. /\ steps[t].pc = "derive" /\ lock' = Syncing
      /\ UNCHANGED <<coordinator, core, panel, mainQueue, stopped, events, disowned>>
  BY DEF Derive
<1>1. Goto(t, "finish") \/ \E result \in Result : Leave(t, result)
  BY Outcomes DEF Derive, Result
<1>2. \E pc \in {"finish", "return"} : Moves(t, pc, steps[t].id, steps[t].reply)
  BY <1>1, GotoMoves, LeaveMoves, TypedParts DEF Pc
<1>3. Numbered' /\ steps' \in [Token -> Step]
  BY <1>0, <1>2, NumberedMoves DEF Typed, NumberedFrom, Untouched, coordinator
<1>4. lock' \in 0..Syncing
  BY <1>0, Counts DEF Syncing
<1> QED
  BY <1>0, <1>2, <1>3, <1>4, TypedParts, TypedNext DEF coordinator

LEMMA FinishNativeTyped ==
  ASSUME Typed, NEW t \in Token, FinishNative(t)
  PROVE  /\ Typed'
         /\ steps[t].pc = "finish" /\ lock = 0
         /\ \/ /\ Moves(t, "return", steps[t].id, steps[t].reply) /\ lock' = Syncing
               /\ core'.pending \in {0, core.pending} /\ core'.phase = core.phase
            \/ /\ Moves(t, AfterCommit(t), steps[t].id, steps[t].reply) /\ lock' = t
               /\ core'.pending = 0
               /\ steps[t].id = KitId(t) => core'.phase # "Kit"
               /\ core'.phase = "Kit" => core.phase = "Kit" \/ AfterCommit(t) = "kitMade"
<1>0. /\ steps[t].pc = "finish" /\ lock = 0
      /\ UNCHANGED <<coordinator, panel, mainQueue, stopped, events, disowned>>
  BY DEF FinishNative
<1>1. \/ /\ \E result \in Result : Leave(t, result)
         /\ lock' = Syncing /\ (UNCHANGED core \/ core' = CancelNative(core, steps[t].id))
      \/ Goto(t, AfterCommit(t)) /\ lock' = t /\ core' = Committed(t, core)
  BY Outcomes DEF FinishNative, Result
<1>2. \/ /\ Moves(t, "return", steps[t].id, steps[t].reply) /\ lock' = Syncing
         /\ core' \in Core
         /\ core'.pending \in {0, core.pending} /\ core'.phase = core.phase
      \/ /\ Moves(t, AfterCommit(t), steps[t].id, steps[t].reply) /\ lock' = t
         /\ core' \in Core /\ core'.pending = 0
         /\ steps[t].id = KitId(t) => core'.phase # "Kit"
         /\ core'.phase = "Kit" => core.phase = "Kit" \/ AfterCommit(t) = "kitMade"
  <2>1. steps[t] \in Step /\ steps[t].id \in Id /\ AfterCommit(t) \in Pc
    BY TypedParts, StepFields, Outcomes
  <2>2. CASE \E result \in Result : Leave(t, result)
    BY <1>1, <2>1, <2>2, LeaveMoves, GotoMoves, CoreCancelled, CoreCommitted, TypedParts
  <2>3. CASE Goto(t, AfterCommit(t)) /\ lock' = t /\ core' = Committed(t, core)
    BY <2>1, <2>3, GotoMoves, CoreCommitted, TypedParts
  <2> QED
    BY <1>1, <2>2, <2>3
<1>3. Numbered' /\ steps' \in [Token -> Step]
  <2>1. AfterCommit(t) \in {"committed", "kitMade", "shown"}
    BY DEF AfterCommit
  <2> QED
    BY <1>0, <1>2, <2>1, NumberedMoves DEF Typed, NumberedFrom, Untouched, coordinator
<1>4. lock' \in 0..Syncing /\ core' \in Core
  BY <1>2, Counts, Ids DEF Syncing
<1> QED
  BY <1>0, <1>2, <1>3, <1>4, TypedParts, TypedNext DEF coordinator

LEMMA FinishedTyped ==
  ASSUME Typed, NEW t \in Token, Finished(t)
  PROVE  /\ Typed'
         /\ steps[t].pc = "committed" /\ lock = t
         /\ Moves(t, "return", steps[t].id, steps[t].reply)
<1>0. /\ steps[t].pc = "committed" /\ lock = t /\ lock' = Syncing /\ Stop(t) /\ Leave(t, "done")
      /\ UNCHANGED <<sequence, reporting, interrupted, input, core, panel,
                     mainQueue, stopped, events,
                     disowned>>
  BY DEF Finished
<1>1. Moves(t, "return", steps[t].id, steps[t].reply)
  BY <1>0, LeaveMoves, TypedParts DEF Result
<1>2. Numbered' /\ steps' \in [Token -> Step]
  BY <1>0, <1>1, NumberedMoves DEF Typed, NumberedFrom, Untouched
<1>3. lock' \in 0..Syncing
  BY <1>0, Counts DEF Syncing
<1> QED
  BY <1>0, <1>1, <1>2, <1>3, StopTyped, TypedParts, TypedNext

LEMMA KitMadeTyped ==
  ASSUME Typed, NEW t \in Token, KitMade(t)
  PROVE  /\ Typed'
         /\ steps[t].pc = "kitMade" /\ lock = t
         /\ \/ /\ Moves(t, "openKit", KitId(t), "none")
               /\ Live(t) /\ Publish(t, KitId(t), "RecoveryKit") /\ core'.pending = KitId(t)
            \/ /\ Moves(t, "return", steps[t].id, steps[t].reply)
               /\ UNCHANGED active /\ core'.pending = 0 /\ core'.phase # "Kit"
<1>0. /\ steps[t].pc = "kitMade" /\ lock = t /\ lock' = Syncing
      /\ UNCHANGED <<sequence, current, reporting, interrupted, input, panel, mainQueue, stopped,
                     events, disowned>>
  BY DEF KitMade
<1>1. \/ /\ NewDeadline(t, "openKit", KitId(t))
         /\ Live(t) /\ Publish(t, KitId(t), "RecoveryKit")
         /\ core' = Captured(t, [core EXCEPT !.pending = KitId(t)])
      \/ /\ \E result \in Result : Leave(t, result)
         /\ UNCHANGED active /\ core' = LockCore(core)
  BY Outcomes DEF KitMade, Result
<1>2. \/ /\ Moves(t, "openKit", KitId(t), "none") /\ KitId(t) # 0
         /\ Live(t) /\ Publish(t, KitId(t), "RecoveryKit") /\ core'.pending = KitId(t)
         /\ active' \in Active /\ core' \in Core
      \/ /\ Moves(t, "return", steps[t].id, steps[t].reply)
         /\ UNCHANGED active /\ core' \in Core /\ core'.pending = 0 /\ core'.phase # "Kit"
  <2>1. CASE NewDeadline(t, "openKit", KitId(t)) /\ Live(t) /\ Publish(t, KitId(t), "RecoveryKit")
             /\ core' = Captured(t, [core EXCEPT !.pending = KitId(t)])
    <3>1. PICK d : d = [core EXCEPT !.pending = KitId(t)]
      OBVIOUS
    <3>2. d \in Core /\ d.pending = KitId(t)
      BY <3>1, Ids, TypedParts DEF Core, Id
    <3>3. core' \in Core /\ core'.pending = KitId(t)
      BY <2>1, <3>1, <3>2, CoreCaptured
    <3>4. Moves(t, "openKit", KitId(t), "none") /\ KitId(t) # 0 /\ active' \in Active
      BY <2>1, DeadlineMoves, PublishTyped, Ids, Counts, TypedParts DEF Pc, Stage
    <3> QED
      BY <2>1, <3>3, <3>4
  <2>2. CASE (\E result \in Result : Leave(t, result)) /\ UNCHANGED active /\ core' = LockCore(core)
    BY <2>2, LeaveMoves, CoreLocked, TypedParts
  <2> QED
    BY <1>1, <2>1, <2>2
<1>3. Numbered' /\ steps' \in [Token -> Step]
  BY <1>0, <1>2, NumberedMoves DEF Typed, NumberedFrom, Untouched
<1>4. lock' \in 0..Syncing
  BY <1>0, Counts DEF Syncing
<1> QED
  BY <1>0, <1>2, <1>3, <1>4, TypedParts, TypedNext

LEMMA KitAnsweredTyped ==
  ASSUME Typed, NEW t \in Token, KitAnswered(t)
  PROVE  /\ Typed'
         /\ steps[t].pc = "kit"
         /\ \/ steps[t].reply # "none" /\ Moves(t, "derive", steps[t].id, steps[t].reply)
            \/ Moves(t, "return", steps[t].id, steps[t].reply)
<1>0. /\ steps[t].pc = "kit"
      /\ UNCHANGED <<coordinator, lock, core, panel, mainQueue, stopped, events, disowned>>
  BY DEF KitAnswered
<1>1. \/ steps[t].reply # "none" /\ Goto(t, "derive")
      \/ \E result \in Result : Leave(t, result)
  BY Outcomes DEF KitAnswered
<1>2. \/ steps[t].reply # "none" /\ Moves(t, "derive", steps[t].id, steps[t].reply)
      \/ Moves(t, "return", steps[t].id, steps[t].reply)
  BY <1>1, GotoMoves, LeaveMoves, TypedParts DEF Pc
<1>3. Numbered' /\ steps' \in [Token -> Step]
  BY <1>0, <1>2, NumberedMoves DEF Typed, NumberedFrom, Untouched, coordinator
<1> QED
  BY <1>0, <1>2, <1>3, TypedParts, TypedNext DEF coordinator

LEMMA ShownTyped ==
  ASSUME Typed, NEW t \in Token, Shown(t)
  PROVE  /\ Typed'
         /\ steps[t].pc = "shown" /\ lock = t
         /\ core'.phase = core.phase
         /\ \/ /\ Moves(t, "openReveal", OwnId(t), "none")
               /\ Live(t) /\ Publish(t, OwnId(t), "Reveal") /\ core'.pending = core.pending
            \/ /\ Moves(t, "return", steps[t].id, steps[t].reply)
               /\ UNCHANGED active /\ core'.pending = 0
<1>0. /\ steps[t].pc = "shown" /\ lock = t /\ lock' = Syncing
      /\ UNCHANGED <<sequence, current, reporting, interrupted, input, panel, mainQueue, stopped,
                     events, disowned>>
  BY DEF Shown
<1>1. \/ /\ Live(t) /\ Publish(t, OwnId(t), "Reveal") /\ NewDeadline(t, "openReveal", OwnId(t))
         /\ core' = Captured(t, core)
      \/ /\ \E result \in Result : Leave(t, result)
         /\ core' = HideField(core) /\ UNCHANGED active
  BY Outcomes DEF Shown
<1>2. /\ core' \in Core /\ core'.phase = core.phase
      /\ \/ /\ Moves(t, "openReveal", OwnId(t), "none") /\ OwnId(t) # 0
            /\ Live(t) /\ Publish(t, OwnId(t), "Reveal") /\ core'.pending = core.pending
            /\ active' \in Active
         \/ /\ Moves(t, "return", steps[t].id, steps[t].reply)
            /\ UNCHANGED active /\ core'.pending = 0
  BY <1>1, DeadlineMoves, LeaveMoves, PublishTyped, CoreCaptured, CoreHidden, Ids,
    Counts, TypedParts
     DEF Pc, Stage
<1>3. Numbered' /\ steps' \in [Token -> Step]
  BY <1>0, <1>2, NumberedMoves DEF Typed, NumberedFrom, Untouched
<1>4. lock' \in 0..Syncing
  BY <1>0, Counts DEF Syncing
<1> QED
  BY <1>0, <1>2, <1>3, <1>4, TypedParts, TypedNext

LEMMA RevealClosedTyped ==
  ASSUME Typed, NEW t \in Token, RevealClosed(t)
  PROVE  /\ Typed'
         /\ steps[t].pc = "reveal"
         /\ \/ steps[t].reply # "none" /\ Moves(t, "hide", steps[t].id, steps[t].reply)
            \/ Moves(t, "return", steps[t].id, steps[t].reply)
<1>0. /\ steps[t].pc = "reveal"
      /\ UNCHANGED <<coordinator, lock, core, panel, mainQueue, stopped, events, disowned>>
  BY DEF RevealClosed
<1>1. \/ steps[t].reply # "none" /\ Goto(t, "hide")
      \/ \E result \in Result : Leave(t, result)
  BY DEF RevealClosed, Result
<1>2. \/ steps[t].reply # "none" /\ Moves(t, "hide", steps[t].id, steps[t].reply)
      \/ Moves(t, "return", steps[t].id, steps[t].reply)
  BY <1>1, GotoMoves, LeaveMoves, TypedParts DEF Pc
<1>3. Numbered' /\ steps' \in [Token -> Step]
  BY <1>0, <1>2, NumberedMoves DEF Typed, NumberedFrom, Untouched, coordinator
<1> QED
  BY <1>0, <1>2, <1>3, TypedParts, TypedNext DEF coordinator

LEMMA HideTyped ==
  ASSUME Typed, NEW t \in Token, Hide(t)
  PROVE  /\ Typed'
         /\ steps[t].pc = "hide" /\ lock = 0
         /\ Moves(t, "return", steps[t].id, steps[t].reply)
         /\ core'.phase = core.phase
         /\ \/ Stop(t) /\ core'.pending = 0
            \/ UNCHANGED <<core, current, active>>
<1>0. /\ steps[t].pc = "hide" /\ lock = 0 /\ lock' = Syncing
      /\ UNCHANGED <<sequence, reporting, interrupted, input, panel, mainQueue, stopped, events,
                     disowned>>
  BY DEF Hide
<1>1. /\ \E result \in Result : Leave(t, result)
      /\ \/ Stop(t) /\ core' = HideField(core)
         \/ UNCHANGED <<core, current, active>>
  BY Outcomes DEF Hide, Result
<1>2. /\ Moves(t, "return", steps[t].id, steps[t].reply)
      /\ core' \in Core /\ core'.phase = core.phase
      /\ current' \in {0} \cup Token /\ active' \in Active \cup {None}
      /\ \/ Stop(t) /\ core'.pending = 0
         \/ UNCHANGED <<core, current, active>>
  <2>1. Moves(t, "return", steps[t].id, steps[t].reply)
    BY <1>1, LeaveMoves, TypedParts
  <2>2. CASE Stop(t) /\ core' = HideField(core)
    BY <2>1, <2>2, StopTyped, CoreHidden, TypedParts
  <2>3. CASE UNCHANGED <<core, current, active>>
    BY <2>1, <2>3, TypedParts
  <2> QED
    BY <1>1, <2>2, <2>3
<1>3. Numbered' /\ steps' \in [Token -> Step]
  BY <1>0, <1>2, NumberedMoves DEF Typed, NumberedFrom, Untouched
<1>4. lock' \in 0..Syncing
  BY <1>0, Counts DEF Syncing
<1> QED
  BY <1>0, <1>2, <1>3, <1>4, TypedParts, TypedNext

LEMMA DropLeaseTyped ==
  ASSUME Typed, NEW t \in Token, DropLease(t)
  PROVE  /\ Typed'
         /\ steps[t].pc = "return"
         /\ Moves(t, "ended", 0, "none")
<1>0. /\ steps[t].pc = "return" /\ Drops(t) /\ CancelToken(t)
      /\ UNCHANGED <<sequence, reporting, interrupted, input, lock, core, panel, mainQueue, events,
                     disowned>>
  BY DEF DropLease, Drops
<1>1. Moves(t, "ended", 0, "none")
  BY <1>0, DropMoves, TypedParts
<1>2. Numbered' /\ steps' \in [Token -> Step]
  BY <1>0, <1>1, NumberedMoves DEF Typed, NumberedFrom, Untouched
<1> QED
  BY <1>0, <1>1, <1>2, CancelTyped, TypedParts, TypedNext

LEMMA StoppedTyped ==
  ASSUME Typed, Cancel \/ Interrupt
  PROVE  /\ Typed' /\ current \in Token /\ CancelToken(current)
         /\ UNCHANGED <<sequence, steps, lock, core, panel, mainQueue, disowned>>
<1>0. /\ current # 0 /\ events < MaxEvents /\ events' = events + 1 /\ CancelToken(current)
      /\ interrupted' \in {interrupted, current}
      /\ UNCHANGED <<sequence, reporting, input, steps, lock, core, panel, mainQueue, disowned>>
  BY DEF Cancel, Interrupt
<1>1. current \in Token /\ events' \in 0..MaxEvents
  BY <1>0, TypedParts, CoordinatorAssumption
<1>2. Numbered'
  BY <1>0, NumberedStays DEF Typed
<1>3. interrupted' \in {0} \cup Token
  BY <1>0, TypedParts
<1> QED
  BY <1>0, <1>1, <1>2, <1>3, CancelTyped, TypedParts, TypedNext

LEMMA ClosePanelTyped ==
  ASSUME Typed, NEW s \in stopped, ClosePanel(s)
  PROVE  Typed'
<1>0. /\ s.todo \in {"close", "closeOnly"}
      /\ UNCHANGED <<coordinator, steps, lock, core, panel, events, disowned>>
  BY DEF ClosePanel
<1>1. s \in Stopped /\ s.stage \in Active /\ s.stage.token \in Token /\ s.stage.id \in Id
  BY TypedParts DEF Stopped, Active, Id
<1>2. mainQueue' \in Seq(Request)
  <2>1. CASE s.stage.id = 0
    BY <2>1, TypedParts DEF ClosePanel
  <2>2. CASE s.stage.id # 0
    <3>1. [do |-> "close", token |-> s.stage.token, id |-> s.stage.id] \in Request
      BY <1>1, <2>2, Counts DEF Request, Id
    <3>2. mainQueue' = Append(mainQueue,
            [do |-> "close", token |-> s.stage.token, id |-> s.stage.id])
      BY <2>2 DEF ClosePanel
    <3> QED
      BY <3>1, <3>2, TypedParts
  <2> QED
    BY <2>1, <2>2
<1>3. stopped' \in SUBSET Stopped
  <2>1. [s EXCEPT !.todo = "clean"] \in Stopped
    BY <1>1 DEF Stopped
  <2>2. stopped' \subseteq stopped \cup {[s EXCEPT !.todo = "clean"]}
    BY DEF ClosePanel
  <2> QED
    BY <2>1, <2>2, TypedParts
<1>4. Numbered'
  BY <1>0, NumberedStays DEF Typed, coordinator
<1> QED
  BY <1>0, <1>2, <1>3, <1>4, TypedParts, TypedNext DEF coordinator

LEMMA CleanTyped ==
  ASSUME Typed, NEW s \in stopped, Clean(s)
  PROVE  /\ Typed' /\ s \in Stopped
         /\ UNCHANGED <<coordinator, steps, panel, mainQueue, events>>
         /\ lock \in {0, Syncing} /\ lock' \in {0, Syncing}
<1>0. /\ UNCHANGED <<coordinator, steps, panel, mainQueue, events>>
      /\ lock \in {0, Syncing} /\ lock' \in {0, Syncing}
      /\ disowned' = (disowned \/ Disowns(core, s.stage))
      /\ core' = CleanupCore(core, s.stage, current = 0)
      /\ stopped' \subseteq stopped \cup {[s EXCEPT !.todo = "closeOnly"]}
  BY DEF Clean
<1>1. s \in Stopped /\ s.stage \in Active
  BY TypedParts DEF Stopped
<1>2. core' \in Core
  BY <1>0, <1>1, CoreCleaned, TypedParts
<1>3. stopped' \in SUBSET Stopped
  <2>1. [s EXCEPT !.todo = "closeOnly"] \in Stopped
    BY <1>1 DEF Stopped
  <2> QED
    BY <1>0, <2>1, TypedParts
<1>4. Numbered'
  BY <1>0, NumberedStays DEF Typed, coordinator
<1>5. lock' \in 0..Syncing /\ disowned' \in BOOLEAN
  BY <1>0, Counts, TypedParts DEF Syncing, Disowns
<1> QED
  BY <1>0, <1>1, <1>2, <1>3, <1>4, <1>5, TypedParts, TypedNext DEF coordinator

LEMMA SyncTyped ==
  ASSUME Typed, Sync
  PROVE  /\ Typed' /\ lock = Syncing /\ lock' \in {0, Syncing}
         /\ UNCHANGED <<sequence, reporting, input, steps, core, panel,
                        mainQueue, events, disowned>>
         /\ \/ /\ active # None /\ Live(active.token) /\ Stop(active.token)
               /\ stopped' = stopped \cup Taken(active.token, "cleanFirst")
            \/ UNCHANGED <<current, active, stopped>>
<1>0. /\ lock = Syncing /\ lock' \in {0, Syncing}
      /\ UNCHANGED <<sequence, reporting, input, steps, core, panel, mainQueue, events, disowned>>
      /\ \/ /\ active # None /\ Live(active.token) /\ Stop(active.token)
            /\ stopped' = stopped \cup Taken(active.token, "cleanFirst")
            /\ interrupted' = active.token
         \/ UNCHANGED <<interrupted, current, active, stopped>>
  BY DEF Sync, OutOfStep
<1>1. active # None => active.token \in Token
  BY TypedParts DEF Active
<1>2. Numbered'
  BY <1>0, NumberedStays DEF Typed
<1>3. /\ current' \in {0} \cup Token /\ active' \in Active \cup {None}
      /\ interrupted' \in {0} \cup Token /\ stopped' \in SUBSET Stopped
  BY <1>0, <1>1, StopTyped, TakenTyped, TypedParts
<1>4. lock' \in 0..Syncing
  BY <1>0, Counts DEF Syncing
<1> QED
  BY <1>0, <1>2, <1>3, <1>4, TypedParts, TypedNext

LEMMA RoundTyped ==
  ASSUME Typed, Round
  PROVE  /\ Typed' /\ lock = 0 /\ lock' = Syncing
         /\ UNCHANGED <<coordinator, steps, core, panel, mainQueue, stopped, events, disowned>>
<1>0. /\ lock = 0 /\ lock' = Syncing
      /\ UNCHANGED <<coordinator, steps, core, panel, mainQueue, stopped, events, disowned>>
  BY DEF Round
<1>1. Numbered' /\ lock' \in 0..Syncing
  BY <1>0, NumberedStays, Counts DEF Typed, coordinator, Syncing
<1> QED
  BY <1>0, <1>1, TypedParts, TypedNext DEF coordinator

LEMMA DisturbedTyped ==
  ASSUME Typed, Disturbed
  PROVE  /\ Typed' /\ lock = 0 /\ lock' \in {0, Syncing}
         /\ UNCHANGED <<coordinator, steps, panel, mainQueue, stopped, disowned>>
         /\ core'.pending \in {0, core.pending}
         /\ core'.phase = "Kit" => core.phase = "Kit"
<1>0. /\ lock = 0 /\ lock' \in {0, Syncing} /\ events < MaxEvents /\ events' = events + 1
      /\ UNCHANGED <<coordinator, steps, panel, mainQueue, stopped, disowned>>
      /\ core' \in {InvalidateNative(core), LockCore(core), [core EXCEPT !.shown = FALSE],
                    [HideField(core) EXCEPT !.guard = TRUE], [core EXCEPT !.guard = FALSE]}
  BY DEF Disturbed
<1>1. /\ core' \in Core
      /\ core'.pending \in {0, core.pending}
      /\ core'.phase = "Kit" => core.phase = "Kit"
  <2>1. PICK h : h = HideField(core)
    OBVIOUS
  <2>2. h \in Core /\ h.pending = 0 /\ h.phase = core.phase /\ core \in Core
    BY <2>1, CoreHidden, TypedParts
  <2>3. /\ [h EXCEPT !.guard = TRUE] \in Core
        /\ [h EXCEPT !.guard = TRUE].pending = 0 /\ [h EXCEPT !.guard = TRUE].phase = core.phase
    BY <2>2 DEF Core
  <2>4. /\ [core EXCEPT !.guard = FALSE] \in Core /\ [core EXCEPT !.shown = FALSE] \in Core
        /\ [core EXCEPT !.guard = FALSE].pending = core.pending
        /\ [core EXCEPT !.guard = FALSE].phase = core.phase
        /\ [core EXCEPT !.shown = FALSE].pending = core.pending
        /\ [core EXCEPT !.shown = FALSE].phase = core.phase
    BY <2>2 DEF Core
  <2>5. core' = InvalidateNative(core) \/ core' = LockCore(core)
          \/ core' = [core EXCEPT !.shown = FALSE]
        \/ core' = [h EXCEPT !.guard = TRUE] \/ core' = [core EXCEPT !.guard = FALSE]
    BY <1>0, <2>1
  <2> QED
    BY <2>2, <2>3, <2>4, <2>5, CoreInvalidated, CoreLocked
<1>2. Numbered'
  BY <1>0, NumberedStays DEF Typed, coordinator
<1>3. lock' \in 0..Syncing /\ events' \in 0..MaxEvents
  BY <1>0, Counts, CoordinatorAssumption, TypedParts DEF Syncing
<1> QED
  BY <1>0, <1>1, <1>2, <1>3, TypedParts, TypedNext DEF coordinator

LEMMA TimeOutTyped ==
  ASSUME Typed, NEW t \in Token, TimeOut(t)
  PROVE  /\ Typed'
         /\ steps[t].pc \notin {"unused", "reserved", "begun", "committed", "kitMade", "shown"}
         /\ Moves(t, steps[t].pc, steps[t].id, steps[t].reply)
         /\ UNCHANGED <<coordinator, lock, core, panel, mainQueue, stopped, events, disowned>>
<1>0. /\ steps[t].pc \notin {"unused", "reserved", "begun", "committed", "kitMade", "shown"}
      /\ RunsLate(t)
      /\ UNCHANGED <<coordinator, lock, core, panel, mainQueue, stopped, events, disowned>>
  BY DEF TimeOut, RunsLate, Waiting, Opens
<1>1. Moves(t, steps[t].pc, steps[t].id, steps[t].reply)
  BY <1>0, LateMoves, TypedParts
<1>2. NumberedFrom(t, steps[t].pc, steps[t].id, steps[t].reply)
  BY DEF Typed, Numbered, NumberedFrom
<1>3. Numbered' /\ steps' \in [Token -> Step]
  BY <1>0, <1>1, <1>2, NumberedMoves DEF Typed, coordinator
<1> QED
  BY <1>0, <1>1, <1>3, TypedParts, TypedNext DEF coordinator

LEMMA NoInputTyped ==
  ASSUME Typed, NoInput
  PROVE  Typed'
<1>0. /\ input' = [input EXCEPT !.late = TRUE]
      /\ UNCHANGED <<sequence, current, active, reporting, interrupted, steps, lock, core, panel,
                     mainQueue, stopped, events, disowned>>
  BY DEF NoInput
<1>1. Numbered' /\ input' \in [token : {0} \cup Token, late : BOOLEAN]
  BY <1>0, NumberedStays, TypedParts DEF Typed
<1> QED
  BY <1>0, <1>1, TypedParts, TypedNext

\* The oldest request leaves the queue.
LEMMA QueueShifts ==
  ASSUME NEW queue \in Seq(Request), queue # <<>>
  PROVE  /\ Head(queue) \in Request /\ Tail(queue) \in Seq(Request)
         /\ Len(Tail(queue)) = Len(queue) - 1 /\ Len(queue) \in Nat /\ Len(queue) # 0
         /\ Head(queue) = queue[1]
         /\ \A i \in 1..Len(Tail(queue)) : Tail(queue)[i] = queue[i + 1]
  BY HeadTailProperties

LEMMA PresentTyped ==
  ASSUME Typed, Present
  PROVE  /\ Typed' /\ mainQueue # <<>> /\ mainQueue' = Tail(mainQueue)
         /\ Head(mainQueue) \in Request /\ Head(mainQueue).do = "present"
         /\ UNCHANGED <<coordinator, lock, core, stopped, events, disowned>>
         /\ \/ UNCHANGED panel /\ Answers(Head(mainQueue).token)
            \/ /\ UNCHANGED steps /\ panel = None /\ Live(Head(mainQueue).token)
               /\ \E suspended \in BOOLEAN :
                    panel' = [token |-> Head(mainQueue).token, id |-> Head(mainQueue).id,
                              suspended |-> suspended]
<1> DEFINE t == Head(mainQueue).token
           id == Head(mainQueue).id
<1>0. /\ mainQueue # <<>> /\ mainQueue' = Tail(mainQueue) /\ Head(mainQueue).do = "present"
      /\ UNCHANGED <<coordinator, lock, core, stopped, events, disowned>>
  BY DEF Present
<1>1. /\ Head(mainQueue) \in Request /\ mainQueue' \in Seq(Request)
      /\ t \in Token /\ id \in 1..2 * MaxSteps
  BY <1>0, QueueShifts, TypedParts DEF Request
<1>2. Authorization(t, {id}) # "Denied" => Live(t)
  BY DEF Authorization, RetryIfLive, CheckLive, Snapshot
<1>3. \/ UNCHANGED panel /\ \E reply \in Reply : Replied(t, reply)
      \/ /\ UNCHANGED steps /\ panel = None /\ Live(t)
         /\ \E suspended \in BOOLEAN :
              panel' = [token |-> t, id |-> id, suspended |-> suspended]
  BY <1>2 DEF Present, Reply
<1>4. \/ UNCHANGED panel /\ Answers(t)
      \/ /\ UNCHANGED steps /\ panel = None /\ Live(t)
         /\ \E suspended \in BOOLEAN :
              panel' = [token |-> t, id |-> id, suspended |-> suspended]
  BY <1>1, <1>3, ReplyAnswers, TypedParts
<1> HIDE DEF t, id
<1>5. panel' \in Panel \cup {None}
  <2>1. \A suspended \in BOOLEAN : [token |-> t, id |-> id, suspended |-> suspended] \in Panel
    BY <1>1 DEF Panel
  <2> QED
    BY <1>4, <2>1, TypedParts
<1>6. Numbered' /\ steps' \in [Token -> Step]
  BY <1>0, <1>1, <1>4, NumberedAnswers, NumberedStays, TypedParts DEF Typed, coordinator
<1>7. Typed'
  BY <1>0, <1>1, <1>5, <1>6, TypedParts, TypedNext DEF coordinator
<1> QED
  BY <1>0, <1>1, <1>4, <1>7 DEF t, id

LEMMA CloseByIdTyped ==
  ASSUME Typed, CloseById
  PROVE  /\ Typed' /\ mainQueue # <<>> /\ mainQueue' = Tail(mainQueue)
         /\ Head(mainQueue) \in Request /\ Head(mainQueue).do = "close"
         /\ UNCHANGED <<coordinator, lock, core, stopped, events, disowned>>
         /\ \/ panel # None /\ panel' = None /\ Answers(panel.token)
            \/ UNCHANGED <<panel, steps>> /\ (panel = None \/ panel.id # Head(mainQueue).id)
<1>0. /\ mainQueue # <<>> /\ mainQueue' = Tail(mainQueue) /\ Head(mainQueue).do = "close"
      /\ UNCHANGED <<coordinator, lock, core, stopped, events, disowned>>
      /\ \/ panel # None /\ panel' = None /\ ClosedBy(panel.token, "cancelled")
         \/ UNCHANGED <<panel, steps>> /\ (panel = None \/ panel.id # Head(mainQueue).id)
  BY DEF CloseById
<1>1. Head(mainQueue) \in Request /\ mainQueue' \in Seq(Request)
  BY <1>0, QueueShifts, TypedParts
<1>2. panel # None => panel.token \in Token
  BY TypedParts DEF Panel
<1>3. \/ panel # None /\ panel' = None /\ Answers(panel.token)
      \/ UNCHANGED <<panel, steps>> /\ (panel = None \/ panel.id # Head(mainQueue).id)
  BY <1>0, <1>2, CloseAnswers, TypedParts DEF Reply
<1>4. Numbered' /\ steps' \in [Token -> Step] /\ panel' \in Panel \cup {None}
  BY <1>0, <1>2, <1>3, NumberedAnswers, NumberedStays, TypedParts DEF Typed, coordinator
<1>5. Typed'
  BY <1>0, <1>1, <1>4, TypedParts, TypedNext DEF coordinator
<1> QED
  BY <1>0, <1>1, <1>3, <1>5

AtThePanel == PanelTick \/ ExtendPressed \/ Submit \/ CancelPressed \/ FocusLost

LEMMA AtThePanelTyped ==
  ASSUME Typed, AtThePanel
  PROVE  /\ Typed' /\ panel # None /\ panel.token \in Token
         /\ UNCHANGED <<coordinator, lock, core, mainQueue, stopped, events, disowned>>
         /\ \/ panel' = None /\ Answers(panel.token)
            \/ UNCHANGED steps /\ panel'.token = panel.token /\ panel'.id = panel.id
<1>0. /\ panel # None
      /\ UNCHANGED <<coordinator, lock, core, mainQueue, stopped, events, disowned>>
      /\ \/ panel' = None /\ \E reply \in Reply : ClosedBy(panel.token, reply)
         \/ UNCHANGED steps /\ \E suspended \in BOOLEAN :
              panel' = [panel EXCEPT !.suspended = suspended]
  <2>1. CASE PanelTick
    BY <2>1 DEF PanelTick, Reply
  <2>2. CASE ExtendPressed
    BY <2>2 DEF ExtendPressed, Reply
  <2>3. CASE Submit
    BY <2>3 DEF Submit, Reply
  <2>4. CASE CancelPressed
    BY <2>4 DEF CancelPressed, Reply
  <2>5. CASE FocusLost
    BY <2>5 DEF FocusLost, Reply
  <2> QED
    BY <2>1, <2>2, <2>3, <2>4, <2>5 DEF AtThePanel
<1>1. panel \in Panel /\ panel.token \in Token
  BY <1>0, TypedParts DEF Panel
<1>2. \A suspended \in BOOLEAN :
        LET p == [panel EXCEPT !.suspended = suspended]
        IN p \in Panel /\ p.token = panel.token /\ p.id = panel.id
  BY <1>1 DEF Panel
<1>3. \/ panel' = None /\ Answers(panel.token)
      \/ /\ UNCHANGED steps /\ panel'.token = panel.token /\ panel'.id = panel.id
         /\ panel' \in Panel
  BY <1>0, <1>1, <1>2, CloseAnswers, TypedParts
<1>4. Numbered' /\ steps' \in [Token -> Step] /\ panel' \in Panel \cup {None}
  BY <1>0, <1>1, <1>3, NumberedAnswers, NumberedStays, TypedParts DEF Typed, coordinator
<1>5. Typed'
  BY <1>0, <1>4, TypedParts, TypedNext DEF coordinator
<1> QED
  BY <1>0, <1>1, <1>3, <1>5

LEMMA TypedInvariant == Typed /\ [Next]_vars => Typed'
<1> SUFFICES ASSUME Typed, [Next]_vars PROVE Typed'
  OBVIOUS
<1>1. CASE \E a \in AllActions : Reserve(a)
  BY <1>1, ReserveTyped
<1>2. ASSUME NEW t \in Token, StepActs(t) PROVE Typed'
  BY <1>2, PublishReservedTyped, PrepareTyped, CalibratedTyped, BeginNativeTyped, BegunTyped,
     OpenPanelTyped, AskedTyped, DeriveTyped, FinishNativeTyped, FinishedTyped, KitMadeTyped,
     KitAnsweredTyped, ShownTyped, RevealClosedTyped, HideTyped, DropLeaseTyped DEF StepActs
<1>3. CASE \E t \in Token : StepActs(t) \/ TimeOut(t)
  BY <1>2, <1>3, TimeOutTyped
<1>4. CASE \E s \in stopped : ClosePanel(s) \/ Clean(s)
  BY <1>4, ClosePanelTyped, CleanTyped
<1>5. CASE MainThread \/ AtThePanel
  BY <1>5, PresentTyped, CloseByIdTyped, AtThePanelTyped DEF MainThread
<1>6. CASE Sync \/ Round \/ Disturbed \/ Cancel \/ Interrupt \/ NoInput
  BY <1>6, SyncTyped, RoundTyped, DisturbedTyped, StoppedTyped, NoInputTyped
<1>7. CASE UNCHANGED vars
  <2>1. /\ UNCHANGED <<sequence, current, active, reporting, interrupted, input, steps, lock, core,
                       panel, mainQueue, stopped, events, disowned>>
    BY <1>7 DEF vars, coordinator
  <2> QED
    BY <2>1, NumberedStays, TypedParts, TypedNext DEF Typed
<1> QED
  BY <1>1, <1>3, <1>4, <1>5, <1>6, <1>7 DEF Next, AtThePanel

-----------------------------------------------------------------------------
(* The lease *)

\* The metadata is the leased step's, and a leased step has some once they are published.
Leased ==
  /\ active # None => active.token = current /\ active.id = steps[active.token].id
  /\ \A t \in Token : Live(t) =>
       /\ steps[t].pc \notin {"unused", "ended"}
       /\ steps[t].pc = "reserved" <=> active = None

Underway == Pc \ {"unused", "reserved", "ended"}

LEMMA LeasedTokens ==
  ASSUME Typed, Leased
  PROVE  /\ active # None => active \in Active /\ active.token \in Token /\ Live(active.token)
         /\ current = 0 => active = None
         /\ \A t \in Token : Live(t) => t # 0
  BY TypedParts, Ids DEF Leased, Active, Live

LEMMA LeasedStays ==
  ASSUME Leased, UNCHANGED <<current, active>>,
         \A t \in Token : steps'[t].pc = steps[t].pc /\ steps'[t].id = steps[t].id,
         active # None => active.token \in Token
  PROVE  Leased'
  BY DEF Leased, Live

LEMMA LeasedAdvances ==
  ASSUME Leased, NEW t \in Token, NEW pc \in Underway, NEW reply, UNCHANGED <<current, active>>,
         steps[t].pc \in Underway, Moves(t, pc, steps[t].id, reply),
         active # None => active.token \in Token
  PROVE  Leased'
<1>1. \A u \in Token : /\ steps'[u].id = steps[u].id
                       /\ steps'[u].pc = steps[u].pc \/ u = t
  BY DEF Moves
<1>2. steps'[t].pc \in Underway
  BY DEF Moves
<1> QED
  BY <1>1, <1>2 DEF Leased, Live, Underway

LEMMA LeasedPublishes ==
  ASSUME NEW t \in Token, NEW pc \in Underway, NEW id \in Id, NEW stage \in Stage, NEW reply,
         Live(t), UNCHANGED current, Publish(t, id, stage), Moves(t, pc, id, reply)
  PROVE  Leased'
<1>1. active' # None /\ active'.token = t /\ active'.id = id
  BY PublishTyped DEF Publish
<1>2. steps'[t].pc = pc /\ steps'[t].id = id
  BY DEF Moves
<1> QED
  BY <1>1, <1>2 DEF Leased, Live, Underway

LEMMA StopFrees ==
  ASSUME Typed, Leased, NEW t \in Token, Stop(t)
  PROVE  \/ Live(t) /\ current' = 0 /\ active' = None
         \/ ~Live(t) /\ UNCHANGED <<current, active>>
  BY LeasedTokens DEF Stop, Snapshot, Live, Leased

\* What a stop that takes the lease leaves to do.
LEMMA StopTakes ==
  ASSUME Typed, Leased, NEW t \in Token, NEW todo
  PROVE  /\ Live(t) /\ active # None => Taken(t, todo) = {[stage |-> active, todo |-> todo]}
         /\ ~Live(t) => Taken(t, todo) = {}
  BY DEF Taken, Snapshot, Leased, Live

LEMMA LeasedStops ==
  ASSUME Typed, Leased, NEW t \in Token, Stop(t),
         \A u \in Token \ {t} : steps'[u].pc = steps[u].pc /\ steps'[u].id = steps[u].id
  PROVE  Leased'
<1>1. CASE Live(t)
  <2>1. current' = 0 /\ active' = None /\ \A u \in Token : u # 0
    BY <1>1, StopFrees, Ids
  <2> QED
    BY <2>1 DEF Leased, Live
<1>2. CASE ~Live(t)
  BY <1>2, StopFrees, LeasedTokens DEF Leased, Live
<1> QED
  BY <1>1, <1>2

LEMMA InitLeased == Init => Leased
  BY Ids DEF Init, Leased, Live

LEMMA LeasedInvariant == Typed /\ Leased /\ [Next]_vars => Leased'
<1> SUFFICES ASSUME Typed, Leased, [Next]_vars PROVE Leased'
  OBVIOUS
<1>0. active # None => active.token \in Token
  BY LeasedTokens
<1>1. ASSUME NEW a \in AllActions, Reserve(a) PROVE Leased'
  <2> DEFINE t == sequence + 1
  <2>1. /\ t \in Token /\ UNCHANGED active
        /\ \/ current = 0 /\ current' = t /\ Admits(t, a)
           \/ current # 0 /\ current' = current /\ Refuses(t, a)
    BY <1>1, TypedParts, Counts DEF Reserve, Token, Admits, Refuses
  <2>2. steps[t].pc = "unused"
    BY <2>1, TypedParts DEF Typed, Numbered, Token
  <2> HIDE DEF t
  <2>3. CASE current = 0 /\ current' = t /\ Admits(t, a)
    <3>1. active' = None /\ steps'[t].pc = "reserved"
      BY <2>1, <2>3, LeasedTokens, TypedParts DEF Admits
    <3> QED
      BY <2>3, <3>1 DEF Leased, Live
  <2>4. CASE current # 0 /\ current' = current /\ Refuses(t, a)
    <3>1. \A u \in Token \ {t} : steps'[u] = steps[u]
      BY <2>4, TypedParts DEF Refuses
    <3>2. current # t /\ (active # None => active.token # t)
      BY <2>1, <2>2 DEF Leased, Live
    <3> QED
      BY <1>0, <2>1, <2>4, <3>1, <3>2 DEF Leased, Live
  <2> QED
    BY <2>1, <2>3, <2>4
<1>2. ASSUME NEW t \in Token, PublishReserved(t) PROVE Leased'
  <2>1. steps[t].pc = "reserved" /\ steps[t].id = 0 /\ UNCHANGED current
    BY <1>2 DEF PublishReserved, Typed, Numbered, Untouched
  <2>2. CASE Live(t)
    <3>1. Publish(t, 0, "Entry") /\ (Goto(t, "prepare") \/ Goto(t, "begin"))
      BY <1>2, <2>2 DEF PublishReserved
    <3>2. \E pc \in {"prepare", "begin"} : Moves(t, pc, 0, steps[t].reply)
      BY <2>1, <3>1, GotoMoves, TypedParts DEF Pc
    <3> QED
      BY <2>1, <2>2, <3>1, <3>2, LeasedPublishes, Counts DEF Underway, Pc, Stage
  <2>3. CASE ~Live(t)
    <3>1. UNCHANGED active /\ \A u \in Token \ {t} : steps'[u] = steps[u]
      BY <1>2, <2>3, PublishReservedTyped DEF PublishReserved, Moves
    <3> QED
      BY <1>0, <2>1, <2>3, <3>1 DEF Leased, Live
  <2> QED
    BY <2>2, <2>3
<1>3. ASSUME NEW t \in Token, Prepare(t) PROVE Leased'
  <2>1. /\ steps[t].pc \in Underway /\ UNCHANGED current /\ steps[t].id = 0
        /\ "calibrate" \in Underway /\ "return" \in Underway
    BY <1>3, PrepareTyped DEF Prepare, Underway, Pc
  <2>2. \/ UNCHANGED active /\ \E result \in Result : Leave(t, result)
        \/ Live(t) /\ Publish(t, 0, "Calibration") /\ Goto(t, "calibrate")
    BY <1>3, Outcomes DEF Prepare, CheckLive, Snapshot, Result
  <2>3. \/ UNCHANGED active /\ Moves(t, "return", steps[t].id, steps[t].reply)
        \/ Live(t) /\ Publish(t, 0, "Calibration") /\ Moves(t, "calibrate", 0, steps[t].reply)
    BY <2>1, <2>2, LeaveMoves, GotoMoves, TypedParts DEF Pc
  <2> QED
    BY <1>0, <2>1, <2>3, LeasedAdvances, LeasedPublishes, Counts DEF Stage
<1>4. ASSUME NEW t \in Token,
             \/ Calibrated(t) \/ BeginNative(t) \/ OpenPanel(t) \/ Asked(t) \/ Derive(t)
             \/ FinishNative(t) \/ KitAnswered(t) \/ RevealClosed(t) \/ TimeOut(t)
      PROVE  Leased'
  <2>1. UNCHANGED <<current, active>>
    BY <1>4 DEF Calibrated, BeginNative, OpenPanel, Asked, Derive, FinishNative, KitAnswered,
       RevealClosed, TimeOut, coordinator
  <2>2. steps[t].pc \in Underway \/ steps[t].pc = "ended"
    BY <1>4 DEF Calibrated, BeginNative, OpenPanel, Opens, Asked, Derive, FinishNative, KitAnswered,
       RevealClosed, TimeOut, Waiting, Underway, Pc
  <2>3. \E pc \in Underway, reply \in Reply : Moves(t, pc, steps[t].id, reply)
    <3>0. steps[t].reply \in Reply /\ steps[t].pc \in Pc /\ AfterCommit(t) \in Underway
      BY TypedParts, StepFields DEF AfterCommit, Underway, Pc
    <3>1. CASE Calibrated(t) \/ BeginNative(t)
      BY <3>0, <3>1, CalibratedTyped, BeginNativeTyped DEF Underway, Pc
    <3>2. CASE OpenPanel(t)
      BY <3>2, OpenPanelTyped DEF Underway, Pc, Waiting, Reply
    <3>3. CASE Asked(t)
      BY <3>0, <3>3, AskedTyped DEF Underway, Pc
    <3>4. CASE Derive(t) \/ FinishNative(t)
      BY <3>0, <3>4, DeriveTyped, FinishNativeTyped DEF Underway, Pc
    <3>5. CASE KitAnswered(t) \/ RevealClosed(t)
      BY <3>0, <3>5, KitAnsweredTyped, RevealClosedTyped DEF Underway, Pc
    <3>6. CASE TimeOut(t)
      BY <3>0, <3>6, TimeOutTyped DEF TimeOut, Waiting, Opens, Underway, Pc
    <3> QED
      BY <1>4, <3>1, <3>2, <3>3, <3>4, <3>5, <3>6
  <2>4. steps[t].pc \in Underway
    BY <1>4, <2>2 DEF Calibrated, BeginNative, OpenPanel, Opens, Asked, Derive, FinishNative,
       KitAnswered, RevealClosed, TimeOut, Waiting
  <2> QED
    BY <1>0, <2>1, <2>3, <2>4, LeasedAdvances
<1>5. ASSUME NEW t \in Token, Begun(t) PROVE Leased'
  <2>1. /\ steps[t].pc \in Underway /\ UNCHANGED current /\ steps[t].id = 0
        /\ {"openEntry", "derive", "return"} \subseteq Underway
    BY <1>5, BegunTyped DEF Begun, Underway, Pc
  <2>2. \/ UNCHANGED active /\ \E result \in Result : Leave(t, result)
        \/ /\ Live(t) /\ Publish(t, OwnId(t), "Entry")
           /\ NewDeadline(t, "openEntry", OwnId(t)) \/ NewDeadline(t, "derive", OwnId(t))
    BY <1>5, Outcomes DEF Begun
  <2>3. \/ UNCHANGED active /\ Moves(t, "return", steps[t].id, steps[t].reply)
        \/ /\ Live(t) /\ Publish(t, OwnId(t), "Entry")
           /\ \E pc \in {"openEntry", "derive"} : Moves(t, pc, OwnId(t), "none")
    BY <2>1, <2>2, LeaveMoves, DeadlineMoves, TypedParts, Ids DEF Pc
  <2> QED
    BY <1>0, <2>1, <2>3, LeasedAdvances, LeasedPublishes, Ids DEF Stage
<1>6. ASSUME NEW t \in Token, KitMade(t) \/ Shown(t) PROVE Leased'
  <2>1. /\ steps[t].pc \in Underway /\ UNCHANGED current
        /\ {"openKit", "openReveal", "return"} \subseteq Underway
    BY <1>6 DEF KitMade, Shown, Underway, Pc
  <2>2. CASE KitMade(t)
    BY <1>0, <2>1, <2>2, KitMadeTyped, LeasedAdvances, LeasedPublishes, Ids DEF Stage
  <2>3. CASE Shown(t)
    BY <1>0, <2>1, <2>3, ShownTyped, LeasedAdvances, LeasedPublishes, Ids DEF Stage
  <2> QED
    BY <1>6, <2>2, <2>3
<1>7. ASSUME NEW t \in Token, Finished(t) \/ Hide(t) \/ DropLease(t) PROVE Leased'
  <2>1. \A u \in Token \ {t} : steps'[u].pc = steps[u].pc /\ steps'[u].id = steps[u].id
    BY <1>7, FinishedTyped, HideTyped, DropLeaseTyped DEF Moves
  <2>2. CASE Stop(t)
    BY <2>1, <2>2, LeasedStops
  <2>3. CASE Hide(t) /\ ~Stop(t)
    <3>1. /\ UNCHANGED <<current, active>> /\ steps[t].pc \in Underway /\ "return" \in Underway
          /\ Moves(t, "return", steps[t].id, steps[t].reply)
      BY <2>3, HideTyped DEF Underway, Pc
    <3> QED
      BY <1>0, <3>1, LeasedAdvances
  <2> QED
    BY <1>7, <2>2, <2>3 DEF Finished, DropLease, CancelToken
<1>8. CASE Cancel \/ Interrupt
  <2>1. current \in Token /\ Stop(current) /\ UNCHANGED steps
    BY <1>8, StoppedTyped DEF CancelToken
  <2> QED
    BY <2>1, LeasedStops
<1>9. CASE Sync
  <2>1. UNCHANGED steps
    BY <1>9, SyncTyped
  <2>2. \/ active # None /\ Stop(active.token)
        \/ UNCHANGED <<current, active>>
    BY <1>9, SyncTyped
  <2> QED
    BY <1>0, <2>1, <2>2, LeasedStops, LeasedStays
<1>10. CASE \/ \E s \in stopped : ClosePanel(s) \/ Clean(s)
            \/ Round \/ Disturbed \/ NoInput \/ UNCHANGED vars
  <2>1. UNCHANGED <<current, active, steps>>
    BY <1>10 DEF ClosePanel, Clean, Round, Disturbed, NoInput, vars, coordinator
  <2> QED
    BY <1>0, <2>1, LeasedStays
<1>11. CASE MainThread \/ AtThePanel
  <2>1. /\ UNCHANGED <<current, active>>
        /\ UNCHANGED steps \/ \E t \in Token : Answers(t)
    BY <1>11, PresentTyped, CloseByIdTyped, AtThePanelTyped, TypedParts
       DEF MainThread, coordinator, Request, Panel
  <2>2. \A t \in Token : steps'[t].pc = steps[t].pc /\ steps'[t].id = steps[t].id
    BY <2>1 DEF Answers
  <2> QED
    BY <1>0, <2>1, <2>2, LeasedStays
<1>12. ASSUME NEW t \in Token, StepActs(t) PROVE Leased'
  BY <1>12, <1>2, <1>3, <1>4, <1>5, <1>6, <1>7 DEF StepActs
<1> QED
  BY <1>1, <1>4, <1>8, <1>9, <1>10, <1>11, <1>12 DEF Next, AtThePanel

-----------------------------------------------------------------------------
(* The Recovery Kit *)

KitPcs == {"openKit", "kit", "derive", "finish", "committed", "return"}

\* A step that confirms a Kit does nothing else until it returns, and its commit leaves no Kit.
KitSteps ==
  /\ active # None /\ active.stage = "RecoveryKit" =>
       active.id = KitId(active.token) /\ steps[active.token].pc \in KitPcs
  /\ \A t \in Token :
       steps[t].pc = "committed" /\ lock = t /\ steps[t].id = KitId(t) => core.phase # "Kit"

KitInv == KitSteps /\ KitOwned

OnlyLock(t) == \A u \in Token \ {t} : lock' = u <=> lock = u

LEMMA KitMoves ==
  ASSUME Typed, Leased, KitInv, NEW t \in Token, NEW pc, NEW reply,
         Moves(t, pc, steps[t].id, reply), steps[t].pc # "kitMade", pc # "committed",
         steps[t].pc \in KitPcs => pc \in KitPcs, OnlyLock(t),
         active # None => UNCHANGED current,
         UNCHANGED <<active, stopped, disowned>>, core'.phase = "Kit" => core.phase = "Kit"
  PROVE  KitInv'
<1>1. /\ \A u \in Token \ {t} : steps'[u] = steps[u]
      /\ steps'[t].pc = pc /\ steps'[t].id = steps[t].id
  BY DEF Moves
<1>2. active # None => active.token \in Token
  BY LeasedTokens
<1>3. KitSteps'
  <2>1. active # None /\ active.stage = "RecoveryKit" =>
          active.id = KitId(active.token) /\ steps'[active.token].pc \in KitPcs
    BY <1>1, <1>2 DEF KitInv, KitSteps
  <2>2. ASSUME NEW u \in Token, steps'[u].pc = "committed", lock' = u, steps'[u].id = KitId(u)
        PROVE  core'.phase # "Kit"
    <3>1. u # t
      BY <1>1, <2>2
    <3> QED
      BY <1>1, <2>2, <3>1 DEF KitInv, KitSteps, OnlyLock
  <2> QED
    BY <2>1, <2>2 DEF KitSteps, KitId
<1>4. KitOwned'
  <2> SUFFICES ASSUME core'.phase = "Kit", ~disowned'
               PROVE  \/ \E u \in Token : steps'[u].pc = "kitMade" /\ lock' = u
                      \/ active' # None /\ current' = active'.token /\ active'.stage = "RecoveryKit"
                      \/ \E s \in stopped' : s.stage.stage = "RecoveryKit" /\ s.todo # "closeOnly"
    BY DEF KitOwned, Live
  <2>1. CASE \E u \in Token : steps[u].pc = "kitMade" /\ lock = u
    BY <1>1, <2>1 DEF OnlyLock
  <2> QED
    BY <2>1 DEF KitInv, KitOwned, Live
<1> QED
  BY <1>3, <1>4 DEF KitInv

\* Where nothing moves at all.
LEMMA KitStays ==
  ASSUME Typed, Leased, KitInv,
         \A u \in Token : steps'[u].pc = steps[u].pc /\ steps'[u].id = steps[u].id,
         \A u \in Token : lock' = u <=> lock = u,
         UNCHANGED <<current, active, stopped, disowned>>, core'.phase = "Kit" => core.phase = "Kit"
  PROVE  KitInv'
<1>1. active # None => active.token \in Token
  BY LeasedTokens
<1>2. KitSteps'
  BY <1>1 DEF KitInv, KitSteps, KitId
<1>3. KitOwned'
  BY DEF KitInv, KitOwned, Live
<1> QED
  BY <1>2, <1>3 DEF KitInv

LEMMA NoKitStage ==
  ASSUME Leased, KitInv, NEW t \in Token, Live(t), steps[t].pc \notin KitPcs
  PROVE  active = None \/ active.stage # "RecoveryKit"
  BY DEF Leased, KitInv, KitSteps, Live

LEMMA KitPublishes ==
  ASSUME Typed, Leased, KitInv, NEW t \in Token, NEW pc, NEW id \in Id, NEW reply,
         NEW stage \in Stage \ {"RecoveryKit"}, Live(t), Publish(t, id, stage),
         Moves(t, pc, id, reply), steps[t].pc \notin KitPcs \cup {"kitMade"}, pc # "committed",
         OnlyLock(t), UNCHANGED <<current, stopped, disowned>>,
         core'.phase = "Kit" => core.phase = "Kit"
  PROVE  KitInv'
<1>1. /\ \A u \in Token \ {t} : steps'[u] = steps[u]
      /\ steps'[t].pc = pc
  BY DEF Moves
<1>2. active = None \/ active.stage # "RecoveryKit"
  BY NoKitStage
<1>3. active'.stage # "RecoveryKit"
  BY DEF Publish
<1>4. KitSteps'
  <2>1. ASSUME NEW u \in Token, steps'[u].pc = "committed", lock' = u, steps'[u].id = KitId(u)
        PROVE  core'.phase # "Kit"
    <3>1. u # t
      BY <1>1, <2>1
    <3> QED
      BY <1>1, <2>1, <3>1 DEF KitInv, KitSteps, OnlyLock
  <2> QED
    BY <1>3, <2>1 DEF KitSteps, KitId
<1>5. KitOwned'
  BY <1>1, <1>2 DEF KitInv, KitOwned, OnlyLock
<1> QED
  BY <1>4, <1>5 DEF KitInv

\* A stop leaves the Kit of the step it took to the cleanup.
LEMMA KitStops ==
  ASSUME Typed, Leased, KitInv, NEW t \in Token, Stop(t),
         NEW todo \in {"close", "cleanFirst"}, stopped' = stopped \cup Taken(t, todo),
         UNCHANGED steps \/ (steps[t].pc = "return" /\ Moves(t, "ended", 0, "none")),
         \A u \in Token : lock' = u <=> lock = u, UNCHANGED <<core, disowned>>
  PROVE  KitInv'
<1>1. /\ \A u \in Token \ {t} : steps'[u] = steps[u]
      /\ steps'[t] = steps[t] \/ (steps[t].pc = "return" /\ steps'[t].pc = "ended")
  BY DEF Moves
<1>2. KitSteps'
  <2>1. active' # None => active' = active /\ active.token # t /\ active.token \in Token
    BY StopFrees, LeasedTokens DEF Live
  <2>2. \A u \in Token : steps'[u].pc = "committed" => steps'[u] = steps[u]
    BY <1>1
  <2>3. active' # None /\ active'.stage = "RecoveryKit" =>
          active'.id = KitId(active'.token) /\ steps'[active'.token].pc \in KitPcs
    BY <1>1, <2>1 DEF KitInv, KitSteps
  <2> QED
    BY <2>2, <2>3 DEF KitInv, KitSteps, KitId
<1>3. KitOwned'
  <2> SUFFICES ASSUME core.phase = "Kit", ~disowned
               PROVE  KitOwned'
    BY DEF KitOwned
  <2>1. CASE \E u \in Token : steps[u].pc = "kitMade" /\ lock = u
    BY <1>1, <2>1 DEF KitOwned
  <2>2. CASE active # None /\ Live(active.token) /\ active.stage = "RecoveryKit"
    <3>1. CASE Live(t)
      <4>1. Taken(t, todo) = {[stage |-> active, todo |-> todo]}
        BY <2>2, <3>1, StopTakes
      <4>2. [stage |-> active, todo |-> todo] \in stopped'
        BY <4>1
      <4> QED
        BY <2>2, <4>2 DEF KitOwned
    <3>2. CASE ~Live(t)
      BY <2>2, <3>2, StopFrees DEF KitOwned, Live
    <3> QED
      BY <3>1, <3>2
  <2>3. CASE \E s \in stopped : s.stage.stage = "RecoveryKit" /\ s.todo # "closeOnly"
    BY <2>3 DEF KitOwned
  <2> QED
    BY <2>1, <2>2, <2>3 DEF KitInv, KitOwned
<1> QED
  BY <1>2, <1>3 DEF KitInv

LEMMA InitKit == Init => KitInv
<1> SUFFICES ASSUME Init PROVE KitInv
  OBVIOUS
<1>1. active = None /\ lock = 0 /\ core.phase \in {"Unlocked", "NoVault"}
  BY DEF Init
<1> QED
  BY <1>1, Ids DEF KitInv, KitSteps, KitOwned

LEMMA KitInvariant == Typed /\ Leased /\ KitInv /\ [Next]_vars => KitInv'
<1> SUFFICES ASSUME Typed, Leased, KitInv, [Next]_vars PROVE KitInv'
  OBVIOUS
<1>0. \A t \in Token : t # 0 /\ t # Syncing
  BY Ids
<1>1. ASSUME NEW a \in AllActions, Reserve(a) PROVE KitInv'
  <2> DEFINE t == sequence + 1
  <2>1. /\ t \in Token /\ UNCHANGED <<active, stopped, disowned, core, lock>>
        /\ Admits(t, a) \/ Refuses(t, a)
        /\ current' = current \/ current = 0
    BY <1>1, TypedParts, Counts DEF Reserve, Token, Admits, Refuses
  <2>2. steps[t].pc = "unused"
    BY <2>1, TypedParts DEF Typed, Numbered, Token
  <2> HIDE DEF t
  <2>3. \E pc \in {"reserved", "ended"} : Moves(t, pc, steps[t].id, steps[t].reply)
    BY <2>1, ReserveMoves, TypedParts
  <2>4. active # None => UNCHANGED current
    BY <2>1, LeasedTokens
  <2> QED
    BY <2>1, <2>2, <2>3, <2>4, KitMoves DEF KitPcs, OnlyLock
<1>2. ASSUME NEW t \in Token, PublishReserved(t) PROVE KitInv'
  <2>1. /\ steps[t].pc = "reserved" /\ steps[t].id = 0
        /\ UNCHANGED <<current, lock, core, stopped, disowned>>
    BY <1>2 DEF PublishReserved, Typed, Numbered, Untouched
  <2>2. \E pc \in {"prepare", "begin", "ended"} : Moves(t, pc, 0, steps[t].reply)
    BY <1>2, PublishReservedTyped
  <2>3. (Live(t) /\ Publish(t, 0, "Entry")) \/ UNCHANGED active
    BY <1>2 DEF PublishReserved
  <2> QED
    BY <2>1, <2>2, <2>3, KitMoves, KitPublishes, Counts DEF KitPcs, OnlyLock, Stage
<1>3. ASSUME NEW t \in Token, Prepare(t) PROVE KitInv'
  <2>1. /\ steps[t].pc = "prepare" /\ steps[t].id = 0 /\ lock = 0 /\ lock' = Syncing
        /\ UNCHANGED <<current, stopped, disowned>>
        /\ \E pc \in {"calibrate", "return"} : Moves(t, pc, 0, steps[t].reply)
    BY <1>3, PrepareTyped DEF Prepare
  <2>2. (Live(t) /\ Publish(t, 0, "Calibration")) \/ UNCHANGED active
    BY <1>3 DEF Prepare, CheckLive, Snapshot
  <2>3. core'.phase = core.phase
    BY <1>3, CoreCaptured, TypedParts DEF Prepare
  <2> QED
    BY <1>0, <2>1, <2>2, <2>3, KitMoves, KitPublishes, Counts DEF KitPcs, OnlyLock, Stage
<1>4. ASSUME NEW t \in Token, Calibrated(t) \/ OpenPanel(t) PROVE KitInv'
  <2>1. UNCHANGED <<current, active, lock, core, stopped, disowned>>
    BY <1>4 DEF Calibrated, OpenPanel, coordinator
  <2>2. CASE Calibrated(t)
    BY <2>1, <2>2, CalibratedTyped, KitMoves DEF KitPcs, OnlyLock
  <2>3. CASE OpenPanel(t)
    <3>1. /\ steps[t].pc \in {"openEntry", "openKit", "openReveal"}
          /\ steps[t].pc \in KitPcs => Opens[steps[t].pc] \in KitPcs
          /\ Opens[steps[t].pc] # "committed"
      BY <2>3 DEF OpenPanel, Opens, KitPcs
    <3> QED
      BY <2>1, <2>3, <3>1, OpenPanelTyped, KitMoves DEF OnlyLock
  <2> QED
    BY <1>4, <2>2, <2>3
<1>5. ASSUME NEW t \in Token, BeginNative(t) PROVE KitInv'
  <2>1. /\ UNCHANGED <<current, active, stopped, disowned>>
        /\ lock = 0 /\ lock' \in {t, Syncing}
    BY <1>5 DEF BeginNative, coordinator
  <2>2. core'.phase = core.phase
    BY <1>5, TypedParts DEF BeginNative, Core
  <2>3. PICK pc \in {"begun", "return"} : Moves(t, pc, steps[t].id, steps[t].reply)
    BY <1>5, BeginNativeTyped
  <2>4. steps[t].pc = "begin"
    BY <1>5, BeginNativeTyped
  <2>5. OnlyLock(t)
    BY <1>0, <2>1 DEF OnlyLock
  <2> QED
    BY <2>1, <2>2, <2>3, <2>4, <2>5, KitMoves DEF KitPcs
<1>6. ASSUME NEW t \in Token, Begun(t) PROVE KitInv'
  <2>1. /\ UNCHANGED <<current, stopped, disowned>> /\ lock = t /\ lock' = Syncing
        /\ steps[t].pc = "begun" /\ steps[t].id = 0
    BY <1>6, BegunTyped DEF Begun
  <2>2. core'.phase = core.phase
    BY <1>6, CoreCancelled, Ids, TypedParts DEF Begun
  <2>3. \/ UNCHANGED active /\ \E result \in Result : Leave(t, result)
        \/ /\ Live(t) /\ Publish(t, OwnId(t), "Entry")
           /\ NewDeadline(t, "openEntry", OwnId(t)) \/ NewDeadline(t, "derive", OwnId(t))
    BY <1>6, Outcomes DEF Begun
  <2>4. \/ UNCHANGED active /\ Moves(t, "return", steps[t].id, steps[t].reply)
        \/ /\ Live(t) /\ Publish(t, OwnId(t), "Entry")
           /\ \E pc \in {"openEntry", "derive"} : Moves(t, pc, OwnId(t), "none")
    BY <2>3, LeaveMoves, DeadlineMoves, TypedParts, Ids DEF Pc
  <2> QED
    BY <1>0, <2>1, <2>2, <2>4, KitMoves, KitPublishes, Ids DEF KitPcs, OnlyLock, Stage
<1>7. ASSUME NEW t \in Token, Asked(t) \/ KitAnswered(t) \/ RevealClosed(t) \/ TimeOut(t)
      PROVE  KitInv'
  <2>1. UNCHANGED <<current, active, lock, core, stopped, disowned>>
    BY <1>7 DEF Asked, KitAnswered, RevealClosed, TimeOut, coordinator
  <2>2. CASE Asked(t)
    BY <2>1, <2>2, AskedTyped, KitMoves DEF KitPcs, OnlyLock
  <2>3. CASE KitAnswered(t)
    BY <2>1, <2>3, KitAnsweredTyped, KitMoves DEF KitPcs, OnlyLock
  <2>4. CASE RevealClosed(t)
    BY <2>1, <2>4, RevealClosedTyped, KitMoves DEF KitPcs, OnlyLock
  <2>5. CASE TimeOut(t)
    BY <2>1, <2>5, TimeOutTyped, KitMoves DEF OnlyLock
  <2> QED
    BY <1>7, <2>2, <2>3, <2>4, <2>5
<1>8. ASSUME NEW t \in Token, Derive(t) PROVE KitInv'
  <2>1. /\ UNCHANGED <<current, active, core, stopped, disowned>> /\ lock = 0 /\ lock' = Syncing
    BY <1>8 DEF Derive, coordinator
  <2> QED
    BY <1>0, <1>8, <2>1, DeriveTyped, KitMoves DEF KitPcs, OnlyLock
<1>9. ASSUME NEW t \in Token, FinishNative(t) PROVE KitInv'
  <2>1. /\ UNCHANGED <<current, active, stopped, disowned>> /\ lock = 0
        /\ steps[t].pc = "finish"
    BY <1>9 DEF FinishNative, coordinator
  <2>2. CASE /\ Moves(t, "return", steps[t].id, steps[t].reply) /\ lock' = Syncing
             /\ core'.phase = core.phase
    BY <1>0, <2>1, <2>2, KitMoves DEF KitPcs, OnlyLock
  <2>3. CASE /\ Moves(t, AfterCommit(t), steps[t].id, steps[t].reply) /\ lock' = t
             /\ steps[t].id = KitId(t) => core'.phase # "Kit"
             /\ core'.phase = "Kit" => core.phase = "Kit" \/ AfterCommit(t) = "kitMade"
    <3>1. /\ \A u \in Token \ {t} : steps'[u] = steps[u]
          /\ steps'[t].pc = AfterCommit(t) /\ steps'[t].id = steps[t].id
      BY <2>3 DEF Moves
    <3>2. \A u \in Token : lock' = u => u = t
      BY <2>3
    <3>3. steps[t].id = KitId(t) => AfterCommit(t) = "committed"
      BY DEF AfterCommit
    <3>4. active # None /\ active.stage = "RecoveryKit" =>
            active.id = KitId(active.token) /\ steps'[active.token].pc \in KitPcs
      <4>1. active # None => active.token \in Token /\ active.id = steps[active.token].id
        BY LeasedTokens DEF Leased
      <4> QED
        BY <2>1, <3>1, <3>3, <4>1 DEF KitInv, KitSteps, KitPcs
    <3>5. KitSteps'
      BY <2>1, <2>3, <3>1, <3>2, <3>4 DEF KitSteps, KitId
    <3>6. KitOwned'
      <4>1. CASE AfterCommit(t) = "kitMade"
        BY <2>3, <3>1, <4>1 DEF KitOwned
      <4>2. CASE AfterCommit(t) # "kitMade"
        BY <1>0, <2>1, <2>3, <4>2 DEF KitInv, KitOwned, Live
      <4> QED
        BY <4>1, <4>2
    <3> QED
      BY <3>5, <3>6 DEF KitInv
  <2> QED
    BY <1>9, <2>2, <2>3, FinishNativeTyped
<1>10. ASSUME NEW t \in Token, Finished(t) PROVE KitInv'
  <2>1. /\ steps[t].pc = "committed" /\ lock = t /\ lock' = Syncing /\ Stop(t)
        /\ Moves(t, "return", steps[t].id, steps[t].reply)
        /\ UNCHANGED <<core, stopped, disowned>>
    BY <1>10, FinishedTyped DEF Finished
  <2>2. CASE ~Live(t)
    <3>1. UNCHANGED <<current, active>>
      BY <2>1, <2>2, StopFrees
    <3> QED
      BY <1>0, <2>1, <3>1, KitMoves DEF KitPcs, OnlyLock
  <2>3. CASE Live(t)
    <3>1. active' = None
      BY <2>1, <2>3, StopFrees
    <3>2. active # None /\ active.stage = "RecoveryKit" => core.phase # "Kit"
      BY <2>1, <2>3 DEF Leased, Live, KitInv, KitSteps
    <3>3. \A u \in Token : lock' # u /\ (lock = u => u = t)
      BY <1>0, <2>1
    <3> QED
      BY <2>1, <3>1, <3>2, <3>3 DEF KitInv, KitSteps, KitOwned
  <2> QED
    BY <2>2, <2>3
<1>11. ASSUME NEW t \in Token, KitMade(t) PROVE KitInv'
  <2>1. /\ steps[t].pc = "kitMade" /\ lock = t /\ lock' = Syncing
        /\ UNCHANGED <<current, stopped, disowned>>
    BY <1>11, KitMadeTyped DEF KitMade
  <2>2. \A u \in Token : lock' # u
    BY <1>0, <2>1
  <2>3. CASE /\ Moves(t, "openKit", KitId(t), "none")
             /\ Live(t) /\ Publish(t, KitId(t), "RecoveryKit")
    <3>1. /\ active' # None /\ active'.token = t /\ active'.id = KitId(t)
          /\ active'.stage = "RecoveryKit"
      BY <2>3, PublishTyped, Ids DEF Publish, Stage
    <3>2. steps'[t].pc = "openKit"
      BY <2>3 DEF Moves
    <3> QED
      BY <2>1, <2>2, <2>3, <3>1, <3>2 DEF KitInv, KitSteps, KitOwned, KitPcs, Live, KitId
  <2>4. CASE /\ Moves(t, "return", steps[t].id, steps[t].reply)
             /\ UNCHANGED active /\ core'.phase # "Kit"
    <3>1. active # None /\ active.stage = "RecoveryKit" => steps'[active.token].pc \in KitPcs
      <4>1. active # None => active.token \in Token
        BY LeasedTokens
      <4> QED
        BY <2>4, <4>1 DEF Moves, KitInv, KitSteps, KitPcs
    <3> QED
      BY <2>2, <2>4, <3>1 DEF KitInv, KitSteps, KitOwned
  <2> QED
    BY <1>11, <2>3, <2>4, KitMadeTyped
<1>12. ASSUME NEW t \in Token, Shown(t) PROVE KitInv'
  <2>1. /\ UNCHANGED <<current, stopped, disowned>> /\ lock = t /\ lock' = Syncing
        /\ steps[t].pc = "shown" /\ core'.phase = core.phase
    BY <1>12, ShownTyped DEF Shown
  <2> QED
    BY <1>0, <1>12, <2>1, ShownTyped, KitMoves, KitPublishes, Ids DEF KitPcs, OnlyLock, Stage
<1>13. ASSUME NEW t \in Token, Hide(t) PROVE KitInv'
  <2>1. /\ UNCHANGED <<stopped, disowned>> /\ lock = 0 /\ lock' = Syncing
        /\ steps[t].pc = "hide" /\ core'.phase = core.phase
        /\ Moves(t, "return", steps[t].id, steps[t].reply)
    BY <1>13, HideTyped DEF Hide
  <2>2. CASE UNCHANGED <<current, active>>
    BY <1>0, <2>1, <2>2, KitMoves DEF KitPcs, OnlyLock
  <2>3. CASE Stop(t) /\ Live(t)
    <3>1. active' = None /\ (active = None \/ active.stage # "RecoveryKit")
      BY <2>1, <2>3, StopFrees, NoKitStage DEF KitPcs
    <3> QED
      BY <1>0, <2>1, <3>1 DEF KitInv, KitSteps, KitOwned
  <2> QED
    BY <1>13, <2>2, <2>3, HideTyped, StopFrees
<1>14. ASSUME NEW t \in Token, DropLease(t) PROVE KitInv'
  <2>1. /\ Stop(t) /\ stopped' = stopped \cup Taken(t, "close")
             /\ UNCHANGED <<lock, core, disowned>>
        /\ steps[t].pc = "return" /\ Moves(t, "ended", 0, "none")
    BY <1>14, DropLeaseTyped DEF DropLease, CancelToken
  <2> QED
    BY <2>1, KitStops
<1>15. CASE Cancel \/ Interrupt
  BY <1>15, StoppedTyped, KitStops DEF CancelToken
<1>16. CASE Sync
  <2>1. \A u \in Token : lock' = u <=> lock = u
    BY <1>0, <1>16, SyncTyped
  <2>2. \A u \in Token : steps'[u].pc = steps[u].pc /\ steps'[u].id = steps[u].id
    BY <1>16, SyncTyped
  <2> QED
    BY <1>16, <2>1, <2>2, SyncTyped, KitStops, KitStays, LeasedTokens
<1>17. ASSUME NEW s \in stopped, ClosePanel(s) PROVE KitInv'
  <2>1. /\ UNCHANGED <<current, active, steps, lock, core, disowned>>
        /\ s.todo \in {"close", "closeOnly"}
        /\ stopped' = (stopped \ {s}) \cup
                        (IF s.todo = "close" THEN {[s EXCEPT !.todo = "clean"]} ELSE {})
    BY <1>17 DEF ClosePanel, coordinator
  <2>2. KitSteps'
    BY <2>1 DEF KitInv, KitSteps, KitId
  <2>3. ASSUME NEW r \in stopped, r.stage.stage = "RecoveryKit", r.todo # "closeOnly"
        PROVE  \E q \in stopped' : q.stage.stage = "RecoveryKit" /\ q.todo # "closeOnly"
    <3>1. CASE r # s
      BY <2>1, <2>3, <3>1
    <3>2. CASE r = s
      <4> DEFINE q == [s EXCEPT !.todo = "clean"]
      <4>1. q.stage = s.stage /\ q.todo = "clean"
        BY TypedParts DEF Stopped
      <4>2. q \in stopped'
        BY <2>1, <2>3, <3>2
      <4> QED
        BY <2>3, <3>2, <4>1, <4>2
    <3> QED
      BY <3>1, <3>2
  <2>4. KitOwned'
    BY <2>1, <2>3 DEF KitInv, KitOwned, Live
  <2> QED
    BY <2>2, <2>4 DEF KitInv
<1>18. ASSUME NEW s \in stopped, Clean(s) PROVE KitInv'
  <2>1. /\ UNCHANGED <<current, active, steps>> /\ s.stage \in Active
        /\ lock \in {0, Syncing} /\ lock' \in {0, Syncing}
    BY <1>18, CleanTyped DEF coordinator, Stopped
  <2>2. /\ core' = CleanupCore(core, s.stage, current = 0)
        /\ disowned' = (disowned \/ Disowns(core, s.stage))
        /\ stopped \ {s} \subseteq stopped'
    BY <1>18 DEF Clean
  <2>3. core'.phase = "Kit" =>
          /\ core.phase = "Kit"
          /\ s.stage.stage = "RecoveryKit" => Disowns(core, s.stage)
    BY <2>1, <2>2, CoreCleaned, TypedParts DEF Disowns
  <2>4. KitSteps'
    BY <1>0, <2>1 DEF KitInv, KitSteps
  <2>5. KitOwned'
    BY <1>0, <2>1, <2>2, <2>3 DEF KitInv, KitOwned, Live
  <2> QED
    BY <2>4, <2>5 DEF KitInv
<1>19. CASE Round \/ Disturbed \/ NoInput \/ UNCHANGED vars
  <2>1. /\ UNCHANGED <<current, active, steps, stopped, disowned>>
        /\ core'.phase = "Kit" => core.phase = "Kit"
        /\ lock' = lock \/ (lock = 0 /\ lock' = Syncing)
    BY <1>19, DisturbedTyped DEF Round, Disturbed, NoInput, vars, coordinator
  <2> QED
    BY <1>0, <2>1, KitStays
<1>20. CASE MainThread \/ AtThePanel
  <2>1. /\ UNCHANGED <<current, active, lock, core, stopped, disowned>>
        /\ UNCHANGED steps \/ \E t \in Token : Answers(t)
    BY <1>20, PresentTyped, CloseByIdTyped, AtThePanelTyped, TypedParts
       DEF MainThread, coordinator, Request, Panel
  <2>2. \A t \in Token : steps'[t].pc = steps[t].pc /\ steps'[t].id = steps[t].id
    BY <2>1 DEF Answers
  <2> QED
    BY <2>1, <2>2, KitStays
<1>21. ASSUME NEW t \in Token, StepActs(t) PROVE KitInv'
  BY <1>21, <1>2, <1>3, <1>4, <1>5, <1>6, <1>7, <1>8, <1>9, <1>10, <1>11, <1>12, <1>13, <1>14
     DEF StepActs
<1> QED
  BY <1>1, <1>7, <1>15, <1>16, <1>17, <1>18, <1>19, <1>20, <1>21 DEF Next, AtThePanel

-----------------------------------------------------------------------------
(* The pending operation *)

Inside == {"begun", "committed", "kitMade", "shown"}

\* What is pending belongs to the step that is just beginning it, to the leased step, or to a stop
\* that has yet to clean up.
PendingOwned ==
  core.pending # 0 =>
    \/ \E t \in Token : steps[t].pc = "begun" /\ lock = t
    \/ active # None /\ active.id = core.pending
    \/ \E s \in stopped :
         s.stage.id = core.pending /\ s.todo \in {"close", "clean", "cleanFirst"}

\* Nobody comes between the two halves of a closure.
PendingInside ==
  \A t \in Token : lock = t =>
    /\ steps[t].pc = "begun" => core.pending = OwnId(t)
    /\ steps[t].pc \in Inside \ {"begun"} => core.pending = 0

PendingInv == PendingOwned /\ PendingInside

LEMMA PendingMoves ==
  ASSUME Typed, PendingInv, NEW t \in Token, NEW pc, NEW id, NEW reply,
         Moves(t, pc, id, reply), pc \notin Inside, OnlyLock(t),
         steps[t].pc # "begun" \/ core'.pending = 0,
         lock \in {0, t, Syncing} \/ UNCHANGED core, core'.pending \in {0, core.pending},
         UNCHANGED stopped,
         UNCHANGED active \/ core'.pending = 0 \/ active = None \/ active.id # core.pending
  PROVE  PendingInv'
<1>0. \A u \in Token : u # 0 /\ u # Syncing
  BY Ids
<1>1. /\ \A u \in Token \ {t} : steps'[u] = steps[u]
      /\ steps'[t].pc = pc
  BY DEF Moves
<1>2. PendingInside'
  <2>1. ASSUME NEW u \in Token, lock' = u, steps'[u].pc \in Inside
        PROVE  u # t /\ lock = u /\ steps'[u].pc = steps[u].pc /\ UNCHANGED core
    BY <1>0, <1>1, <2>1 DEF OnlyLock
  <2> QED
    BY <2>1 DEF PendingInv, PendingInside, Inside, OwnId
<1>3. PendingOwned'
  <2> SUFFICES ASSUME core'.pending # 0 PROVE PendingOwned'
    BY DEF PendingOwned
  <2>1. CASE \E u \in Token : steps[u].pc = "begun" /\ lock = u
    BY <1>1, <2>1 DEF OnlyLock, PendingOwned
  <2>2. CASE active # None /\ active.id = core.pending
    BY <2>2 DEF PendingOwned
  <2>3. CASE \E s \in stopped :
          s.stage.id = core.pending /\ s.todo \in {"close", "clean", "cleanFirst"}
    BY <2>3 DEF PendingOwned
  <2> QED
    BY <2>1, <2>2, <2>3 DEF PendingInv, PendingOwned
<1> QED
  BY <1>2, <1>3 DEF PendingInv

LEMMA PendingStays ==
  ASSUME Typed, PendingInv, \A u \in Token : steps'[u].pc = steps[u].pc,
         \A u \in Token : lock' = u <=> lock = u,
         \/ UNCHANGED core
         \/ lock \in {0, Syncing} /\ core'.pending \in {0, core.pending},
         UNCHANGED <<active, stopped>>
  PROVE  PendingInv'
<1>0. \A u \in Token : u # 0 /\ u # Syncing
  BY Ids
<1>1. PendingInside'
  BY <1>0 DEF PendingInv, PendingInside, OwnId
<1>2. PendingOwned'
  BY DEF PendingInv, PendingOwned
<1> QED
  BY <1>1, <1>2 DEF PendingInv

LEMMA PendingStops ==
  ASSUME Typed, Leased, PendingInv, NEW t \in Token, Stop(t),
         NEW todo \in {"close", "cleanFirst"}, stopped' = stopped \cup Taken(t, todo),
         UNCHANGED steps \/ (steps[t].pc = "return" /\ Moves(t, "ended", 0, "none")),
         \A u \in Token : lock' = u <=> lock = u, UNCHANGED core
  PROVE  PendingInv'
<1>1. /\ \A u \in Token \ {t} : steps'[u] = steps[u]
      /\ steps'[t] = steps[t] \/ (steps[t].pc = "return" /\ steps'[t].pc = "ended")
  BY DEF Moves
<1>2. PendingInside'
  BY <1>1 DEF PendingInv, PendingInside, Inside, OwnId
<1>3. PendingOwned'
  <2>1. CASE \E u \in Token : steps[u].pc = "begun" /\ lock = u
    BY <1>1, <2>1 DEF PendingOwned
  <2>2. CASE active # None /\ active.id = core.pending /\ Live(t)
    <3>1. [stage |-> active, todo |-> todo] \in stopped'
      BY <2>2, StopTakes
    <3> QED
      BY <2>2, <3>1 DEF PendingOwned
  <2>3. CASE active # None /\ active.id = core.pending /\ ~Live(t)
    BY <2>3, StopFrees DEF PendingOwned
  <2>4. CASE \E s \in stopped :
          s.stage.id = core.pending /\ s.todo \in {"close", "clean", "cleanFirst"}
    BY <2>4 DEF PendingOwned
  <2>5. CASE core.pending = 0
    BY <2>5 DEF PendingOwned
  <2> QED
    BY <2>1, <2>2, <2>3, <2>4, <2>5 DEF PendingInv, PendingOwned
<1> QED
  BY <1>2, <1>3 DEF PendingInv

LEMMA InitPending == Init => PendingInv
<1> SUFFICES ASSUME Init PROVE PendingInv
  OBVIOUS
<1>1. lock = 0 /\ core.pending = 0
  BY DEF Init
<1> QED
  BY <1>1, Ids DEF PendingInv, PendingOwned, PendingInside

LEMMA PendingInvariant == Typed /\ Leased /\ PendingInv /\ [Next]_vars => PendingInv'
<1> SUFFICES ASSUME Typed, Leased, PendingInv, [Next]_vars PROVE PendingInv'
  OBVIOUS
<1>0. \A t \in Token : t # 0 /\ t # Syncing
  BY Ids
<1>1. ASSUME NEW a \in AllActions, Reserve(a) PROVE PendingInv'
  <2> DEFINE t == sequence + 1
  <2>1. /\ t \in Token /\ UNCHANGED <<active, stopped, core, lock>>
        /\ Admits(t, a) \/ Refuses(t, a)
    BY <1>1, TypedParts, Counts DEF Reserve, Token, Admits, Refuses
  <2>2. steps[t].pc = "unused"
    BY <2>1, TypedParts DEF Typed, Numbered, Token
  <2> HIDE DEF t
  <2>3. \E pc \in {"reserved", "ended"} : Moves(t, pc, steps[t].id, steps[t].reply)
    BY <2>1, ReserveMoves, TypedParts
  <2> QED
    BY <2>1, <2>2, <2>3, PendingMoves DEF Inside, OnlyLock
<1>2. ASSUME NEW t \in Token, PublishReserved(t) PROVE PendingInv'
  <2>1. steps[t].pc = "reserved" /\ UNCHANGED <<lock, core, stopped>>
    BY <1>2 DEF PublishReserved
  <2>2. \E pc \in {"prepare", "begin", "ended"} : Moves(t, pc, 0, steps[t].reply)
    BY <1>2, PublishReservedTyped
  <2>3. active = None \/ UNCHANGED active
    BY <1>2, <2>1 DEF PublishReserved, Leased
  <2> QED
    BY <2>1, <2>2, <2>3, PendingMoves DEF Inside, OnlyLock
<1>3. ASSUME NEW t \in Token, Prepare(t) PROVE PendingInv'
  <2>1. /\ steps[t].pc = "prepare" /\ steps[t].id = 0 /\ lock = 0 /\ lock' = Syncing
        /\ UNCHANGED stopped
        /\ \E pc \in {"calibrate", "return"} : Moves(t, pc, 0, steps[t].reply)
    BY <1>3, PrepareTyped DEF Prepare
  <2>2. core'.pending = core.pending
    BY <1>3, CoreCaptured, TypedParts DEF Prepare
  <2>3. UNCHANGED active \/ (active # None /\ active.id = 0)
    BY <1>3, <2>1 DEF Prepare, CheckLive, Snapshot, Leased
  <2> QED
    BY <1>0, <2>1, <2>2, <2>3, PendingMoves DEF Inside, OnlyLock
<1>4. ASSUME NEW t \in Token,
             Calibrated(t) \/ OpenPanel(t) \/ Asked(t) \/ KitAnswered(t) \/ RevealClosed(t)
      PROVE  PendingInv'
  <2>1. UNCHANGED <<active, lock, core, stopped>>
    BY <1>4 DEF Calibrated, OpenPanel, Asked, KitAnswered, RevealClosed, coordinator
  <2>2. CASE Calibrated(t)
    BY <2>1, <2>2, CalibratedTyped, PendingMoves DEF Inside, OnlyLock
  <2>3. CASE OpenPanel(t)
    <3>1. steps[t].pc # "begun" /\ Opens[steps[t].pc] \notin Inside
      BY <2>3 DEF OpenPanel, Opens, Inside
    <3> QED
      BY <2>1, <2>3, <3>1, OpenPanelTyped, PendingMoves DEF OnlyLock
  <2>4. CASE Asked(t)
    BY <2>1, <2>4, AskedTyped, PendingMoves DEF Inside, OnlyLock
  <2>5. CASE KitAnswered(t)
    BY <2>1, <2>5, KitAnsweredTyped, PendingMoves DEF Inside, OnlyLock
  <2>6. CASE RevealClosed(t)
    BY <2>1, <2>6, RevealClosedTyped, PendingMoves DEF Inside, OnlyLock
  <2> QED
    BY <1>4, <2>2, <2>3, <2>4, <2>5, <2>6
<1>5. ASSUME NEW t \in Token, TimeOut(t) PROVE PendingInv'
  <2>1. /\ UNCHANGED <<active, lock, core, stopped>>
        /\ Moves(t, steps[t].pc, steps[t].id, steps[t].reply) /\ steps[t].pc \notin Inside
    BY <1>5, TimeOutTyped DEF coordinator, Inside
  <2> QED
    BY <2>1, PendingMoves DEF OnlyLock, Inside
<1>6. ASSUME NEW t \in Token, BeginNative(t) PROVE PendingInv'
  <2>1. UNCHANGED <<active, stopped>> /\ lock = 0 /\ steps[t].pc = "begin"
    BY <1>6 DEF BeginNative, coordinator
  <2>2. \/ /\ \E result \in Result : Leave(t, result)
           /\ lock' = Syncing /\ core' \in {core, [core EXCEPT !.shown = FALSE]}
        \/ /\ Goto(t, "begun") /\ lock' = t
           /\ core' = [core EXCEPT !.pending = OwnId(t), !.shown = FALSE]
    BY <1>6, Outcomes DEF BeginNative, Result
  <2>3. CASE /\ \E result \in Result : Leave(t, result)
             /\ lock' = Syncing /\ core' \in {core, [core EXCEPT !.shown = FALSE]}
    <3>1. core'.pending = core.pending
      BY <2>3, TypedParts DEF Core
    <3>2. Moves(t, "return", steps[t].id, steps[t].reply)
      BY <2>3, LeaveMoves, TypedParts
    <3> QED
      BY <1>0, <2>1, <2>3, <3>1, <3>2, PendingMoves DEF Inside, OnlyLock
  <2>4. CASE /\ Goto(t, "begun") /\ lock' = t
             /\ core' = [core EXCEPT !.pending = OwnId(t), !.shown = FALSE]
    <3>1. steps'[t].pc = "begun"
      BY <2>4, GotoMoves, TypedParts DEF Pc, Moves
    <3>2. core'.pending = OwnId(t)
      BY <2>4, TypedParts DEF Core
    <3>3. PendingOwned'
      BY <2>4, <3>1 DEF PendingOwned
    <3>4. PendingInside'
      BY <2>4, <3>1, <3>2 DEF PendingInside, OwnId
    <3> QED
      BY <3>3, <3>4 DEF PendingInv
  <2> QED
    BY <2>2, <2>3, <2>4
<1>7. ASSUME NEW t \in Token, Begun(t) PROVE PendingInv'
  <2>1. /\ UNCHANGED stopped /\ lock = t /\ lock' = Syncing /\ steps[t].pc = "begun"
        /\ core.pending = OwnId(t) /\ \A u \in Token : lock' # u
    BY <1>0, <1>7 DEF Begun, PendingInv, PendingInside
  <2>2. CASE Live(t)
    <3>1. Publish(t, OwnId(t), "Entry") /\ UNCHANGED core
      BY <1>7, <2>2 DEF Begun
    <3>2. active' # None /\ active'.id = OwnId(t)
      BY <3>1, PublishTyped, Ids DEF Publish, Stage
    <3> QED
      BY <2>1, <3>1, <3>2 DEF PendingInv, PendingOwned, PendingInside
  <2>3. CASE ~Live(t)
    <3>1. core' = CancelNative(core, OwnId(t)) /\ UNCHANGED active
      BY <1>7, <2>3 DEF Begun
    <3>2. core'.pending = 0
      BY <2>1, <3>1, CoreCancelled, Ids, TypedParts
    <3> QED
      BY <2>1, <3>2 DEF PendingInv, PendingOwned, PendingInside
  <2> QED
    BY <2>2, <2>3
<1>8. ASSUME NEW t \in Token, Derive(t) PROVE PendingInv'
  <2>1. UNCHANGED <<active, core, stopped>> /\ lock = 0 /\ lock' = Syncing
    BY <1>8 DEF Derive, coordinator
  <2> QED
    BY <1>0, <1>8, <2>1, DeriveTyped, PendingMoves DEF Inside, OnlyLock
<1>9. ASSUME NEW t \in Token, FinishNative(t) PROVE PendingInv'
  <2>1. /\ UNCHANGED <<active, stopped>> /\ lock = 0 /\ steps[t].pc = "finish"
    BY <1>9 DEF FinishNative, coordinator
  <2>2. CASE /\ Moves(t, "return", steps[t].id, steps[t].reply) /\ lock' = Syncing
             /\ core'.pending \in {0, core.pending}
    BY <1>0, <2>1, <2>2, PendingMoves DEF Inside, OnlyLock
  <2>3. CASE /\ Moves(t, AfterCommit(t), steps[t].id, steps[t].reply) /\ lock' = t
             /\ core'.pending = 0
    <3>1. steps'[t].pc # "begun"
      BY <2>3 DEF Moves, AfterCommit
    <3> QED
      BY <2>3, <3>1 DEF PendingInv, PendingOwned, PendingInside
  <2> QED
    BY <1>9, <2>2, <2>3, FinishNativeTyped
<1>10. ASSUME NEW t \in Token, Finished(t) PROVE PendingInv'
  <2>1. /\ steps[t].pc = "committed" /\ lock = t /\ lock' = Syncing /\ UNCHANGED <<core, stopped>>
        /\ Moves(t, "return", steps[t].id, steps[t].reply)
    BY <1>10, FinishedTyped DEF Finished
  <2>2. core.pending = 0
    BY <2>1 DEF PendingInv, PendingInside, Inside
  <2> QED
    BY <1>0, <2>1, <2>2, PendingMoves DEF Inside, OnlyLock
<1>11. ASSUME NEW t \in Token, KitMade(t) PROVE PendingInv'
  <2>1. lock' = Syncing /\ UNCHANGED stopped /\ \A u \in Token : lock' # u
    BY <1>0, <1>11 DEF KitMade
  <2>2. CASE /\ Moves(t, "openKit", KitId(t), "none")
             /\ Live(t) /\ Publish(t, KitId(t), "RecoveryKit") /\ core'.pending = KitId(t)
    <3>1. active' # None /\ active'.id = KitId(t)
      BY <2>2, PublishTyped, Ids DEF Publish, Stage
    <3> QED
      BY <2>1, <2>2, <3>1 DEF PendingInv, PendingOwned, PendingInside
  <2>3. CASE core'.pending = 0
    BY <2>1, <2>3 DEF PendingInv, PendingOwned, PendingInside
  <2> QED
    BY <1>11, <2>2, <2>3, KitMadeTyped
<1>12. ASSUME NEW t \in Token, Shown(t) PROVE PendingInv'
  <2>1. lock = t /\ lock' = Syncing /\ steps[t].pc = "shown" /\ \A u \in Token : lock' # u
    BY <1>0, <1>12 DEF Shown
  <2>2. core.pending = 0
    BY <2>1 DEF PendingInv, PendingInside, Inside
  <2>3. core'.pending = 0
    BY <1>12, <2>2, ShownTyped
  <2> QED
    BY <2>1, <2>3 DEF PendingInv, PendingOwned, PendingInside
<1>13. ASSUME NEW t \in Token, Hide(t) PROVE PendingInv'
  <2>1. /\ UNCHANGED stopped /\ lock = 0 /\ lock' = Syncing /\ steps[t].pc = "hide"
        /\ Moves(t, "return", steps[t].id, steps[t].reply)
        /\ core'.pending = 0 \/ UNCHANGED <<core, active>>
    BY <1>13, HideTyped DEF Hide
  <2>2. core'.pending \in {0, core.pending}
    BY <2>1
  <2> QED
    BY <1>0, <2>1, <2>2, PendingMoves DEF Inside, OnlyLock
<1>14. ASSUME NEW t \in Token, DropLease(t) PROVE PendingInv'
  <2>1. /\ Stop(t) /\ stopped' = stopped \cup Taken(t, "close") /\ UNCHANGED <<lock, core>>
        /\ steps[t].pc = "return" /\ Moves(t, "ended", 0, "none")
    BY <1>14, DropLeaseTyped DEF DropLease, CancelToken
  <2> QED
    BY <2>1, PendingStops
<1>15. CASE Cancel \/ Interrupt
  BY <1>15, StoppedTyped, PendingStops DEF CancelToken
<1>16. CASE Sync
  <2>1. \A u \in Token : lock' = u <=> lock = u
    BY <1>0, <1>16, SyncTyped
  <2>2. \A u \in Token : steps'[u].pc = steps[u].pc
    BY <1>16, SyncTyped
  <2> QED
    BY <1>16, <2>1, <2>2, SyncTyped, PendingStops, PendingStays, LeasedTokens
<1>17. ASSUME NEW s \in stopped, ClosePanel(s) PROVE PendingInv'
  <2>1. /\ UNCHANGED <<active, steps, lock, core>>
        /\ s.todo \in {"close", "closeOnly"}
        /\ stopped' = (stopped \ {s}) \cup
                        (IF s.todo = "close" THEN {[s EXCEPT !.todo = "clean"]} ELSE {})
    BY <1>17 DEF ClosePanel, coordinator
  <2>2. PendingInside'
    BY <2>1 DEF PendingInv, PendingInside, OwnId
  <2>3. ASSUME NEW r \in stopped, r.stage.id = core.pending,
          r.todo \in {"close", "clean", "cleanFirst"}
        PROVE  \E q \in stopped' :
                 q.stage.id = core.pending /\ q.todo \in {"close", "clean", "cleanFirst"}
    <3>1. CASE r # s
      BY <2>1, <2>3, <3>1
    <3>2. CASE r = s
      <4> DEFINE q == [s EXCEPT !.todo = "clean"]
      <4>1. q.stage = s.stage /\ q.todo = "clean"
        BY TypedParts DEF Stopped
      <4>2. q \in stopped'
        BY <2>1, <2>3, <3>2
      <4> QED
        BY <2>3, <3>2, <4>1, <4>2
    <3> QED
      BY <3>1, <3>2
  <2>4. PendingOwned'
    BY <2>1, <2>3 DEF PendingInv, PendingOwned
  <2> QED
    BY <2>2, <2>4 DEF PendingInv
<1>18. ASSUME NEW s \in stopped, Clean(s) PROVE PendingInv'
  <2>1. /\ UNCHANGED <<active, steps>> /\ s.stage \in Active
        /\ lock \in {0, Syncing} /\ lock' \in {0, Syncing}
    BY <1>18, CleanTyped DEF coordinator, Stopped
  <2>2. /\ core' = CleanupCore(core, s.stage, current = 0)
        /\ stopped \ {s} \subseteq stopped'
    BY <1>18 DEF Clean
  <2>3. core'.pending # 0 => core'.pending = core.pending /\ core.pending # s.stage.id
    BY <2>1, <2>2, CoreCleaned, TypedParts
  <2>4. PendingInside'
    BY <1>0, <2>1 DEF PendingInside
  <2>5. PendingOwned'
    BY <1>0, <2>1, <2>2, <2>3 DEF PendingInv, PendingOwned
  <2> QED
    BY <2>4, <2>5 DEF PendingInv
<1>19. CASE Round \/ Disturbed \/ NoInput \/ UNCHANGED vars
  <2>1. /\ UNCHANGED <<active, steps, stopped>>
        /\ UNCHANGED core \/ (lock = 0 /\ core'.pending \in {0, core.pending})
        /\ lock' = lock \/ (lock = 0 /\ lock' = Syncing)
    BY <1>19, DisturbedTyped DEF Round, Disturbed, NoInput, vars, coordinator
  <2> QED
    BY <1>0, <2>1, PendingStays
<1>20. CASE MainThread \/ AtThePanel
  <2>1. /\ UNCHANGED <<active, lock, core, stopped>>
        /\ UNCHANGED steps \/ \E t \in Token : Answers(t)
    BY <1>20, PresentTyped, CloseByIdTyped, AtThePanelTyped, TypedParts
       DEF MainThread, coordinator, Request, Panel
  <2>2. \A t \in Token : steps'[t].pc = steps[t].pc
    BY <2>1 DEF Answers
  <2> QED
    BY <2>1, <2>2, PendingStays
<1>21. ASSUME NEW t \in Token, StepActs(t) PROVE PendingInv'
  BY <1>21, <1>2, <1>3, <1>4, <1>6, <1>7, <1>8, <1>9, <1>10, <1>11, <1>12, <1>13, <1>14
     DEF StepActs
<1> QED
  BY <1>1, <1>5, <1>15, <1>16, <1>17, <1>18, <1>19, <1>20, <1>21 DEF Next, AtThePanel

-----------------------------------------------------------------------------
(* Requests for the main thread *)

\* The panel of step s may be shown or queued: the step waits for its answer, or waited once.
Asks(s, id) ==
  /\ \/ s.pc \in {"return", "ended"}
     \/ s.pc \in Waiting /\ s.reply = "none"
  /\ s.pc # "ended" => id = s.id

Presents(request) == request.do = "present"

\* A step asks for at most one panel at a time, queued or shown.
Requests ==
  /\ panel # None => Asks(steps[panel.token], panel.id)
  /\ \A i \in 1..Len(mainQueue) : Presents(mainQueue[i]) =>
       Asks(steps[mainQueue[i].token], mainQueue[i].id)
  /\ \A i, j \in 1..Len(mainQueue) :
       Presents(mainQueue[i]) /\ Presents(mainQueue[j])
         /\ mainQueue[i].token = mainQueue[j].token => i = j
  /\ panel # None =>
       \A i \in 1..Len(mainQueue) : Presents(mainQueue[i]) => mainQueue[i].token # panel.token

\* The panel of a step that is no longer leased is about to be closed.
WillClose ==
  panel # None =>
    \/ Live(panel.token)
    \/ \E s \in stopped :
         s.stage.id = panel.id /\ s.todo \in {"close", "closeOnly", "cleanFirst"}
    \/ \E i \in 1..Len(mainQueue) : mainQueue[i].do = "close" /\ mainQueue[i].id = panel.id

PanelInv == Requests /\ WillClose

\* A step that waits for nothing has no panel.
Unasked(t) ==
  /\ steps[t].pc \notin {"return", "ended"}
  /\ steps[t].pc \in Waiting => steps[t].reply # "none"

LEMMA QueuedTokens ==
  ASSUME Typed
  PROVE  /\ panel # None => panel.token \in Token
         /\ \A i \in 1..Len(mainQueue) : mainQueue[i] \in Request /\ mainQueue[i].token \in Token
<1>1. panel # None => panel.token \in Token
  BY TypedParts DEF Panel
<1>2. \A i \in 1..Len(mainQueue) : mainQueue[i] \in Request
  BY TypedParts, ElementOfSeq
<1> QED
  BY <1>1, <1>2 DEF Request

LEMMA RequestsKept ==
  ASSUME Typed, Requests, UNCHANGED <<panel, mainQueue>>,
         \A u \in Token : \A id : Asks(steps[u], id) => Asks(steps'[u], id)
  PROVE  Requests'
<1>1. panel # None => Asks(steps'[panel.token], panel.id)
  BY QueuedTokens DEF Requests
<1>2. \A i \in 1..Len(mainQueue) : Presents(mainQueue[i]) =>
        Asks(steps'[mainQueue[i].token], mainQueue[i].id)
  BY QueuedTokens DEF Requests
<1> QED
  BY <1>1, <1>2 DEF Requests, Presents, Asks

LEMMA AsksOn ==
  ASSUME NEW t \in Token, NEW pc, NEW id, NEW reply, Moves(t, pc, id, reply),
         \/ Unasked(t)
         \/ pc = "ended"
         \/ steps[t].pc # "ended" /\ pc = "return" /\ id = steps[t].id
         \/ pc = steps[t].pc /\ id = steps[t].id /\ reply = steps[t].reply
  PROVE  \A u \in Token : \A i : Asks(steps[u], i) => Asks(steps'[u], i)
<1> SUFFICES ASSUME NEW u \in Token, NEW i, Asks(steps[u], i) PROVE Asks(steps'[u], i)
  OBVIOUS
<1>1. CASE u # t
  BY <1>1 DEF Moves, Asks
<1>2. CASE u = t
  BY <1>2 DEF Moves, Asks, Unasked, Waiting
<1> QED
  BY <1>1, <1>2

LEMMA WillCloseKept ==
  ASSUME WillClose, UNCHANGED <<panel, mainQueue>>,
         stopped' = stopped, panel # None /\ Live(panel.token) => UNCHANGED current
  PROVE  WillClose'
  BY DEF WillClose, Live

\* A step goes on, and its panel, if it has one, stays.
LEMMA PanelMoves ==
  ASSUME Typed, PanelInv, NEW t \in Token, NEW pc, NEW id, NEW reply, Moves(t, pc, id, reply),
         \/ Unasked(t)
         \/ pc = "ended"
         \/ steps[t].pc # "ended" /\ pc = "return" /\ id = steps[t].id
         \/ pc = steps[t].pc /\ id = steps[t].id /\ reply = steps[t].reply,
         UNCHANGED <<panel, mainQueue, stopped>>,
         UNCHANGED current \/ (Live(t) /\ Unasked(t)) \/ current = 0
  PROVE  PanelInv'
<1>1. Requests'
  BY AsksOn, RequestsKept DEF PanelInv
<1>2. panel # None => panel.token # t \/ ~Unasked(t)
  BY DEF PanelInv, Requests, Asks, Unasked
<1>3. panel # None => panel.token \in Token /\ panel.token # 0
  BY QueuedTokens, Ids
<1>4. WillClose'
  BY <1>2, <1>3, WillCloseKept DEF PanelInv, Live
<1> QED
  BY <1>1, <1>4 DEF PanelInv

LEMMA PanelStays ==
  ASSUME Typed, PanelInv, UNCHANGED <<current, steps, panel, mainQueue, stopped>>
  PROVE  PanelInv'
  BY DEF PanelInv, Requests, Asks, Presents, WillClose, Live

\* A stop that takes the lease has the panel closed.
LEMMA PanelStops ==
  ASSUME Typed, Leased, PanelInv, NEW t \in Token, Stop(t),
         NEW todo \in {"close", "cleanFirst"}, stopped' = stopped \cup Taken(t, todo),
         UNCHANGED steps \/ Moves(t, "ended", 0, "none"), UNCHANGED <<panel, mainQueue>>
  PROVE  PanelInv'
<1>1. Requests'
  <2>1. CASE UNCHANGED steps
    BY <2>1 DEF PanelInv, Requests, Asks, Presents
  <2>2. CASE Moves(t, "ended", 0, "none")
    BY <2>2, AsksOn, RequestsKept DEF PanelInv
  <2> QED
    BY <2>1, <2>2
<1>2. WillClose'
  <2> SUFFICES ASSUME panel # None PROVE WillClose'
    BY DEF WillClose
  <2>1. CASE Live(panel.token) /\ panel.token = t
    <3>1. steps[t].pc # "reserved" /\ steps[t].pc # "ended" /\ panel.id = steps[t].id
      BY <2>1 DEF PanelInv, Requests, Asks, Waiting, Leased
    <3>2. active # None /\ active.id = panel.id
      BY <2>1, <3>1 DEF Leased, Live
    <3>3. [stage |-> active, todo |-> todo] \in stopped'
      BY <2>1, <3>2, StopTakes
    <3> QED
      BY <3>2, <3>3 DEF WillClose
  <2>2. CASE Live(panel.token) /\ panel.token # t
    BY <2>2, StopFrees DEF WillClose, Live
  <2>3. CASE ~Live(panel.token)
    BY <2>3 DEF PanelInv, WillClose
  <2> QED
    BY <2>1, <2>2, <2>3
<1> QED
  BY <1>1, <1>2 DEF PanelInv

-----------------------------------------------------------------------------
LEMMA OpenPanelAsks ==
  ASSUME Typed, PanelInv, NEW t \in Token, OpenPanel(t)
  PROVE  PanelInv'
<1> DEFINE r == [do |-> "present", token |-> t, id |-> steps[t].id]
<1>0. /\ mainQueue' = Append(mainQueue, r) /\ UNCHANGED <<current, panel, stopped>>
      /\ steps[t].pc \in {"openEntry", "openKit", "openReveal"}
  BY DEF OpenPanel, Opens
<1>1. /\ Opens[steps[t].pc] \in Waiting /\ steps'[t].pc = Opens[steps[t].pc]
      /\ steps'[t].id = steps[t].id /\ steps'[t].reply = "none"
      /\ \A u \in Token \ {t} : steps'[u] = steps[u]
  BY OpenPanelTyped DEF Moves
<1>2. r.do = "present" /\ r.token = t /\ r.id = steps[t].id /\ r \in Request
  <2>1. steps[t].id \in 1..2 * MaxSteps
    BY OpenPanelTyped, TypedParts, StepFields, Counts DEF Id
  <2> QED
    BY <2>1 DEF Request
<1> HIDE DEF r
<1>3. /\ Len(mainQueue) \in Nat /\ Len(mainQueue') = Len(mainQueue) + 1
      /\ \A i \in 1..Len(mainQueue) : mainQueue'[i] = mainQueue[i]
      /\ mainQueue'[Len(mainQueue) + 1] = r
  BY <1>0, <1>2, TypedParts, AppendProperties
<1>4. \A id : ~Asks(steps[t], id)
  BY <1>0 DEF Asks, Waiting
<1>5. /\ panel # None => panel.token # t
      /\ \A i \in 1..Len(mainQueue) : Presents(mainQueue[i]) => mainQueue[i].token # t
  BY <1>4 DEF PanelInv, Requests
<1>6. \A u \in Token : \A id : Asks(steps[u], id) => Asks(steps'[u], id)
  BY <1>1, <1>4 DEF Asks
<1>7. Asks(steps'[t], r.id)
  BY <1>1, <1>2 DEF Asks
<1>8. Requests'
  <2>1. panel # None => Asks(steps'[panel.token], panel.id)
    BY <1>6, QueuedTokens DEF PanelInv, Requests
  <2>2. \A i \in 1..Len(mainQueue) : Presents(mainQueue[i]) =>
          Asks(steps'[mainQueue[i].token], mainQueue[i].id)
    BY <1>6, QueuedTokens DEF PanelInv, Requests
  <2>3. \A i \in 1..Len(mainQueue') : i \in 1..Len(mainQueue) \/ i = Len(mainQueue) + 1
    BY <1>3
  <2>4. \A i \in 1..Len(mainQueue') :
          Presents(mainQueue'[i]) => Asks(steps'[mainQueue'[i].token], mainQueue'[i].id)
    BY <1>2, <1>3, <1>7, <2>2, <2>3 DEF Presents
  <2>5. \A i, j \in 1..Len(mainQueue') :
          /\ Presents(mainQueue'[i]) /\ Presents(mainQueue'[j])
          /\ mainQueue'[i].token = mainQueue'[j].token
          => i = j
    BY <1>2, <1>3, <1>5, <2>3 DEF PanelInv, Requests, Presents
  <2>6. panel # None =>
          \A i \in 1..Len(mainQueue') : Presents(mainQueue'[i]) => mainQueue'[i].token # panel.token
    BY <1>2, <1>3, <1>5, <2>3 DEF PanelInv, Requests, Presents
  <2> QED
    BY <1>0, <2>1, <2>4, <2>5, <2>6 DEF Requests, Asks, Presents
<1>9. WillClose'
  <2>1. \A i \in 1..Len(mainQueue) : i \in 1..Len(mainQueue')
    BY <1>3
  <2> QED
    BY <1>0, <1>3, <2>1 DEF PanelInv, WillClose, Live
<1> QED
  BY <1>8, <1>9 DEF PanelInv

LEMMA ClosePanelAsks ==
  ASSUME Typed, PanelInv, NEW s \in stopped, ClosePanel(s)
  PROVE  PanelInv'
<1> DEFINE r == [do |-> "close", token |-> s.stage.token, id |-> s.stage.id]
<1>0. /\ UNCHANGED <<current, steps, panel>>
      /\ s.todo \in {"close", "closeOnly"}
      /\ stopped \ {s} \subseteq stopped'
      /\ mainQueue' = IF s.stage.id = 0 THEN mainQueue ELSE Append(mainQueue, r)
  BY DEF ClosePanel, coordinator
<1>1. CASE s.stage.id = 0
  <2>1. panel # None => panel.id # s.stage.id
    BY <1>1, TypedParts, Counts DEF Panel
  <2> QED
    BY <1>0, <1>1, <2>1 DEF PanelInv, Requests, Asks, Presents, WillClose, Live
<1>2. CASE s.stage.id # 0
  <2>1. r \in Request /\ r.do = "close" /\ r.id = s.stage.id
    <3>1. s.stage.token \in Token /\ s.stage.id \in Id
      BY TypedParts DEF Stopped, Active, Id
    <3> QED
      BY <1>2, <3>1, Counts DEF Request, Id
  <2> HIDE DEF r
  <2>2. /\ Len(mainQueue) \in Nat /\ Len(mainQueue') = Len(mainQueue) + 1
        /\ \A i \in 1..Len(mainQueue) : mainQueue'[i] = mainQueue[i]
        /\ mainQueue'[Len(mainQueue) + 1] = r
    BY <1>0, <1>2, <2>1, TypedParts, AppendProperties
  <2>3. /\ \A i \in 1..Len(mainQueue') : i \in 1..Len(mainQueue) \/ i = Len(mainQueue) + 1
        /\ \A i \in 1..Len(mainQueue) : i \in 1..Len(mainQueue')
        /\ Len(mainQueue) + 1 \in 1..Len(mainQueue')
    BY <2>2
  <2>4. \A i \in 1..Len(mainQueue') : Presents(mainQueue'[i]) =>
          i \in 1..Len(mainQueue) /\ Presents(mainQueue[i])
    BY <2>1, <2>2, <2>3 DEF Presents
  <2>5. Requests'
    BY <1>0, <2>2, <2>4 DEF PanelInv, Requests, Asks
  <2>6. WillClose'
    <3> SUFFICES ASSUME panel # None PROVE WillClose'
      BY <1>0 DEF WillClose
    <3>1. CASE Live(panel.token)
      BY <1>0, <3>1 DEF WillClose, Live
    <3>2. CASE s.stage.id = panel.id
      BY <1>0, <2>1, <2>2, <2>3, <3>2 DEF WillClose
    <3>3. CASE s.stage.id # panel.id /\ \E q \in stopped :
               q.stage.id = panel.id /\ q.todo \in {"close", "closeOnly", "cleanFirst"}
      BY <1>0, <3>3 DEF WillClose
    <3>4. CASE \E i \in 1..Len(mainQueue) : mainQueue[i].do = "close" /\ mainQueue[i].id = panel.id
      BY <1>0, <2>2, <2>3, <3>4 DEF WillClose
    <3> QED
      BY <3>1, <3>2, <3>3, <3>4 DEF PanelInv, WillClose
  <2> QED
    BY <2>5, <2>6 DEF PanelInv
<1> QED
  BY <1>1, <1>2

\* What is left of the queue when the oldest request is taken.
LEMMA QueueLeft ==
  ASSUME Typed, mainQueue # <<>>, mainQueue' = Tail(mainQueue)
  PROVE  /\ Len(mainQueue) \in Nat /\ 1 \in 1..Len(mainQueue) /\ Head(mainQueue) = mainQueue[1]
         /\ \A i \in 1..Len(mainQueue') :
              i \in Nat /\ i + 1 # 1 /\ i + 1 \in 1..Len(mainQueue)
                /\ mainQueue'[i] = mainQueue[i + 1]
         /\ \A i \in 1..Len(mainQueue) : i = 1 \/ \E j \in 1..Len(mainQueue') : i = j + 1
<1>1. /\ Len(mainQueue') = Len(mainQueue) - 1 /\ Len(mainQueue) \in Nat /\ Len(mainQueue) # 0
      /\ Head(mainQueue) = mainQueue[1]
      /\ \A i \in 1..Len(mainQueue') : mainQueue'[i] = mainQueue[i + 1]
  BY TypedParts, QueueShifts
<1>2. \A i \in 1..Len(mainQueue) : i = 1 \/ (i - 1 \in 1..Len(mainQueue') /\ i = (i - 1) + 1)
  BY <1>1
<1> QED
  BY <1>1, <1>2

LEMMA AsksOthers ==
  ASSUME NEW t \in Token, Answers(t)
  PROVE  \A u \in Token \ {t} : \A id : Asks(steps[u], id) => Asks(steps'[u], id)
  BY DEF Answers, Asks

LEMMA PresentAsks ==
  ASSUME Typed, PanelInv, Present
  PROVE  PanelInv'
<1> DEFINE h == Head(mainQueue)
<1>0. /\ h = mainQueue[1] /\ h.do = "present" /\ h.token \in Token /\ UNCHANGED <<current, stopped>>
      /\ \/ UNCHANGED panel /\ Answers(h.token)
         \/ /\ UNCHANGED steps /\ panel = None /\ Live(h.token)
            /\ panel'.token = h.token /\ panel'.id = h.id
  BY PresentTyped, QueueLeft DEF coordinator, Request
<1>1. /\ 1 \in 1..Len(mainQueue)
      /\ \A i \in 1..Len(mainQueue') :
           i \in Nat /\ i + 1 # 1 /\ i + 1 \in 1..Len(mainQueue) /\ mainQueue'[i] = mainQueue[i + 1]
      /\ \A i \in 1..Len(mainQueue) : i = 1 \/ \E j \in 1..Len(mainQueue') : i = j + 1
  BY PresentTyped, QueueLeft
<1> HIDE DEF h
<1>2. Presents(mainQueue[1]) /\ Asks(steps[h.token], h.id) /\ (panel # None =>
        panel.token # h.token)
  BY <1>0, <1>1 DEF PanelInv, Requests, Presents
<1>3. \A i \in 1..Len(mainQueue') : Presents(mainQueue'[i]) =>
        Presents(mainQueue[i + 1]) /\ mainQueue'[i].token # h.token /\ mainQueue'[i].token \in Token
  BY <1>0, <1>1, <1>2, QueuedTokens DEF PanelInv, Requests, Presents
<1>4. \A u \in Token \ {h.token} : \A id : Asks(steps[u], id) => Asks(steps'[u], id)
  BY <1>0, AsksOthers DEF Asks
<1>5. \A i \in 1..Len(mainQueue') : Presents(mainQueue'[i]) =>
        Asks(steps'[mainQueue'[i].token], mainQueue'[i].id)
  BY <1>1, <1>3, <1>4 DEF PanelInv, Requests
<1>6. \A i, j \in 1..Len(mainQueue') :
        /\ Presents(mainQueue'[i]) /\ Presents(mainQueue'[j])
        /\ mainQueue'[i].token = mainQueue'[j].token
        => i = j
  <2> SUFFICES ASSUME NEW i \in 1..Len(mainQueue'), NEW j \in 1..Len(mainQueue'),
                      Presents(mainQueue'[i]), Presents(mainQueue'[j]),
                        mainQueue'[i].token = mainQueue'[j].token
               PROVE  i = j
    OBVIOUS
  <2>1. i + 1 = j + 1
    BY <1>1, <1>3 DEF PanelInv, Requests
  <2> QED
    BY <1>1, <2>1
<1>7. panel' # None =>
        /\ Asks(steps'[panel'.token], panel'.id)
        /\ \A i \in 1..Len(mainQueue') : Presents(mainQueue'[i]) =>
             mainQueue'[i].token # panel'.token
  <2>1. CASE UNCHANGED panel /\ Answers(h.token)
    <3>1. panel # None => Asks(steps'[panel.token], panel.id)
      BY <1>2, <1>4, QueuedTokens DEF PanelInv, Requests
    <3> QED
      BY <1>1, <1>3, <2>1, <3>1 DEF PanelInv, Requests
  <2>2. CASE UNCHANGED steps /\ panel'.token = h.token /\ panel'.id = h.id
    <3>1. Asks(steps'[h.token], h.id)
      BY <1>2, <2>2 DEF Asks
    <3> QED
      BY <1>3, <2>2, <3>1
  <2> QED
    BY <1>0, <2>1, <2>2
<1>8. Requests'
  BY <1>5, <1>6, <1>7 DEF Requests, Asks, Presents
<1>9. WillClose'
  <2>1. CASE UNCHANGED panel
    <3>1. \A i \in 1..Len(mainQueue) : mainQueue[i].do = "close" =>
            \E j \in 1..Len(mainQueue') : mainQueue'[j] = mainQueue[i]
      BY <1>0, <1>1
    <3> QED
      BY <1>0, <2>1, <3>1 DEF PanelInv, WillClose, Live
  <2>2. CASE Live(h.token) /\ panel'.token = h.token
    BY <1>0, <2>2 DEF WillClose, Live
  <2> QED
    BY <1>0, <2>1, <2>2
<1> QED
  BY <1>8, <1>9 DEF PanelInv

LEMMA CloseByIdAsks ==
  ASSUME Typed, PanelInv, CloseById
  PROVE  PanelInv'
<1> DEFINE h == Head(mainQueue)
<1>0. /\ h = mainQueue[1] /\ h.do = "close" /\ UNCHANGED <<current, stopped>>
      /\ \/ panel # None /\ panel' = None /\ Answers(panel.token)
         \/ UNCHANGED <<panel, steps>> /\ (panel = None \/ panel.id # h.id)
  BY CloseByIdTyped, QueueLeft DEF coordinator
<1>1. /\ \A i \in 1..Len(mainQueue') :
           i \in Nat /\ i + 1 # 1 /\ i + 1 \in 1..Len(mainQueue) /\ mainQueue'[i] = mainQueue[i + 1]
      /\ \A i \in 1..Len(mainQueue) : i = 1 \/ \E j \in 1..Len(mainQueue') : i = j + 1
  BY CloseByIdTyped, QueueLeft
<1> HIDE DEF h
<1>2. \A i \in 1..Len(mainQueue') : Presents(mainQueue'[i]) =>
        Presents(mainQueue[i + 1]) /\ mainQueue'[i].token \in Token
  BY <1>1, QueuedTokens DEF Presents
<1>3. \A i \in 1..Len(mainQueue') : Presents(mainQueue'[i]) =>
        Asks(steps'[mainQueue'[i].token], mainQueue'[i].id)
  <2>1. CASE panel # None /\ Answers(panel.token)
    <3>1. \A u \in Token \ {panel.token} : \A id : Asks(steps[u], id) => Asks(steps'[u], id)
      BY <2>1, AsksOthers, QueuedTokens
    <3>2. \A i \in 1..Len(mainQueue') : Presents(mainQueue'[i]) =>
            /\ Asks(steps[mainQueue'[i].token], mainQueue'[i].id)
            /\ mainQueue'[i].token # panel.token
      BY <1>1, <1>2, <2>1 DEF PanelInv, Requests
    <3> QED
      BY <1>2, <3>1, <3>2
  <2>2. CASE UNCHANGED steps
    BY <1>1, <1>2, <2>2 DEF PanelInv, Requests, Asks
  <2> QED
    BY <1>0, <2>1, <2>2
<1>4. \A i, j \in 1..Len(mainQueue') :
        /\ Presents(mainQueue'[i]) /\ Presents(mainQueue'[j])
        /\ mainQueue'[i].token = mainQueue'[j].token
        => i = j
  <2> SUFFICES ASSUME NEW i \in 1..Len(mainQueue'), NEW j \in 1..Len(mainQueue'),
                      Presents(mainQueue'[i]), Presents(mainQueue'[j]),
                        mainQueue'[i].token = mainQueue'[j].token
               PROVE  i = j
    OBVIOUS
  <2>1. i + 1 = j + 1
    BY <1>1, <1>2 DEF PanelInv, Requests
  <2> QED
    BY <1>1, <2>1
<1>5. panel' # None =>
        /\ Asks(steps'[panel'.token], panel'.id)
        /\ \A i \in 1..Len(mainQueue') : Presents(mainQueue'[i]) =>
             mainQueue'[i].token # panel'.token
  <2>1. CASE UNCHANGED <<panel, steps>>
    BY <1>1, <1>2, <2>1 DEF PanelInv, Requests, Asks
  <2> QED
    BY <1>0, <2>1
<1>6. Requests'
  BY <1>3, <1>4, <1>5 DEF Requests, Asks, Presents
<1>7. WillClose'
  <2>1. \A i \in 1..Len(mainQueue) : mainQueue[i].id # h.id =>
          \E j \in 1..Len(mainQueue') : mainQueue'[j] = mainQueue[i]
    BY <1>0, <1>1
  <2> QED
    BY <1>0, <2>1 DEF PanelInv, WillClose, Live
<1> QED
  BY <1>6, <1>7 DEF PanelInv

LEMMA AtThePanelAsks ==
  ASSUME Typed, PanelInv, AtThePanel
  PROVE  PanelInv'
<1>0. /\ panel # None /\ panel.token \in Token /\ UNCHANGED <<current, mainQueue, stopped>>
      /\ \/ panel' = None /\ Answers(panel.token)
         \/ UNCHANGED steps /\ panel'.token = panel.token /\ panel'.id = panel.id
  BY AtThePanelTyped DEF coordinator
<1>1. CASE panel' = None /\ Answers(panel.token)
  <2>1. \A u \in Token \ {panel.token} : \A id : Asks(steps[u], id) => Asks(steps'[u], id)
    BY <1>0, <1>1, AsksOthers
  <2>2. \A i \in 1..Len(mainQueue) : Presents(mainQueue[i]) =>
          Asks(steps'[mainQueue[i].token], mainQueue[i].id)
    BY <1>0, <2>1, QueuedTokens DEF PanelInv, Requests
  <2> QED
    BY <1>0, <1>1, <2>2 DEF PanelInv, Requests, Asks, Presents, WillClose
<1>2. CASE UNCHANGED steps /\ panel'.token = panel.token /\ panel'.id = panel.id
  BY <1>0, <1>2 DEF PanelInv, Requests, Asks, Presents, WillClose, Live
<1> QED
  BY <1>0, <1>1, <1>2

LEMMA InitPanel == Init => PanelInv
<1> SUFFICES ASSUME Init PROVE PanelInv
  OBVIOUS
<1>1. panel = None /\ mainQueue = <<>>
  BY DEF Init
<1> QED
  BY <1>1 DEF PanelInv, Requests, WillClose

LEMMA PanelInvariant == Typed /\ Leased /\ PanelInv /\ [Next]_vars => PanelInv'
<1> SUFFICES ASSUME Typed, Leased, PanelInv, [Next]_vars PROVE PanelInv'
  OBVIOUS
<1>1. ASSUME NEW a \in AllActions, Reserve(a) PROVE PanelInv'
  <2> DEFINE t == sequence + 1
  <2>1. /\ t \in Token /\ UNCHANGED <<panel, mainQueue, stopped>>
        /\ Admits(t, a) \/ Refuses(t, a)
        /\ current' = current \/ current = 0
    BY <1>1, TypedParts, Counts DEF Reserve, Token, Admits, Refuses
  <2>2. Unasked(t)
    BY <2>1, TypedParts DEF Typed, Numbered, Token, Unasked, Waiting
  <2> HIDE DEF t
  <2>3. \E pc \in {"reserved", "ended"} : Moves(t, pc, steps[t].id, steps[t].reply)
    BY <2>1, ReserveMoves, TypedParts
  <2> QED
    BY <2>1, <2>2, <2>3, PanelMoves
<1>2. ASSUME NEW t \in Token,
             \/ PublishReserved(t) \/ Prepare(t) \/ Calibrated(t) \/ BeginNative(t) \/ Begun(t)
             \/ Derive(t) \/ FinishNative(t) \/ KitMade(t) \/ Shown(t)
      PROVE  PanelInv'
  <2>1. /\ UNCHANGED <<current, panel, mainQueue, stopped>>
        /\ Unasked(t)
    BY <1>2 DEF PublishReserved, Prepare, Calibrated, BeginNative, Begun, Derive, FinishNative,
       KitMade, Shown, coordinator, Unasked, Waiting
  <2>2. \E pc, id, reply : Moves(t, pc, id, reply)
    <3>1. CASE PublishReserved(t) \/ Prepare(t) \/ Calibrated(t) \/ BeginNative(t)
      BY <3>1, PublishReservedTyped, PrepareTyped, CalibratedTyped, BeginNativeTyped
    <3>2. CASE Begun(t) \/ Derive(t)
      BY <3>2, BegunTyped, DeriveTyped
    <3>3. CASE FinishNative(t) \/ KitMade(t) \/ Shown(t)
      BY <3>3, FinishNativeTyped, KitMadeTyped, ShownTyped
    <3> QED
      BY <1>2, <3>1, <3>2, <3>3
  <2> QED
    BY <2>1, <2>2, PanelMoves
<1>3. ASSUME NEW t \in Token, Asked(t) \/ KitAnswered(t) \/ RevealClosed(t) PROVE PanelInv'
  <2>1. UNCHANGED <<current, panel, mainQueue, stopped>> /\ steps[t].pc \in Waiting
    BY <1>3 DEF Asked, KitAnswered, RevealClosed, coordinator, Waiting
  <2>2. \/ steps[t].reply # "none" /\ \E pc, id, reply : Moves(t, pc, id, reply)
        \/ Moves(t, "return", steps[t].id, steps[t].reply)
    <3>1. CASE Asked(t)
      BY <3>1, AskedTyped
    <3>2. CASE KitAnswered(t)
      BY <3>2, KitAnsweredTyped
    <3>3. CASE RevealClosed(t)
      BY <3>3, RevealClosedTyped
    <3> QED
      BY <1>3, <3>1, <3>2, <3>3
  <2>3. steps[t].pc # "ended" /\ (steps[t].reply # "none" => Unasked(t))
    BY <2>1 DEF Waiting, Unasked
  <2> QED
    BY <2>1, <2>2, <2>3, PanelMoves
<1>4. ASSUME NEW t \in Token, TimeOut(t) PROVE PanelInv'
  BY <1>4, TimeOutTyped, PanelMoves DEF coordinator
<1>5. ASSUME NEW t \in Token, Finished(t) \/ Hide(t) PROVE PanelInv'
  <2>1. /\ UNCHANGED <<panel, mainQueue, stopped>> /\ Unasked(t)
        /\ Moves(t, "return", steps[t].id, steps[t].reply)
    BY <1>5, FinishedTyped, HideTyped DEF Finished, Hide, Unasked, Waiting
  <2>2. UNCHANGED current \/ Live(t)
    BY <1>5, FinishedTyped, HideTyped, StopFrees DEF Finished
  <2> QED
    BY <2>1, <2>2, PanelMoves
<1>6. ASSUME NEW t \in Token, DropLease(t) PROVE PanelInv'
  <2>1. /\ Stop(t) /\ stopped' = stopped \cup Taken(t, "close") /\ UNCHANGED <<panel, mainQueue>>
        /\ Moves(t, "ended", 0, "none")
    BY <1>6, DropLeaseTyped DEF DropLease, CancelToken
  <2> QED
    BY <2>1, PanelStops
<1>7. CASE Cancel \/ Interrupt
  BY <1>7, StoppedTyped, PanelStops DEF CancelToken
<1>8. CASE Sync
  BY <1>8, SyncTyped, PanelStops, PanelStays, LeasedTokens
<1>9. ASSUME NEW s \in stopped, Clean(s) PROVE PanelInv'
  <2>1. UNCHANGED <<current, steps, panel, mainQueue>>
    BY <1>9, CleanTyped DEF coordinator
  <2>2. \/ s.todo = "clean" /\ stopped' = stopped \ {s}
        \/ stopped' = (stopped \ {s}) \cup {[s EXCEPT !.todo = "closeOnly"]}
    BY <1>9 DEF Clean
  <2>3. ASSUME NEW q \in stopped, q.todo \in {"close", "closeOnly", "cleanFirst"}
        PROVE  \E r \in stopped' :
                 r.stage = q.stage /\ r.todo \in {"close", "closeOnly", "cleanFirst"}
    <3>1. CASE q # s
      BY <2>2, <2>3, <3>1
    <3>2. CASE q = s
      <4> DEFINE r == [s EXCEPT !.todo = "closeOnly"]
      <4>1. r.stage = s.stage /\ r.todo = "closeOnly"
        BY TypedParts DEF Stopped
      <4>2. r \in stopped'
        BY <2>2, <2>3, <3>2
      <4> QED
        BY <3>2, <4>1, <4>2
    <3> QED
      BY <3>1, <3>2
  <2>4. Requests'
    BY <2>1 DEF PanelInv, Requests
  <2>5. WillClose'
    BY <2>1, <2>3 DEF PanelInv, WillClose, Live
  <2> QED
    BY <2>4, <2>5 DEF PanelInv
<1>10. CASE Round \/ Disturbed \/ NoInput \/ UNCHANGED vars
  <2>1. UNCHANGED <<current, steps, panel, mainQueue, stopped>>
    BY <1>10 DEF Round, Disturbed, NoInput, vars, coordinator
  <2> QED
    BY <2>1, PanelStays
<1>11. ASSUME NEW t \in Token, StepActs(t) PROVE PanelInv'
  BY <1>11, <1>2, <1>3, <1>5, <1>6, OpenPanelAsks DEF StepActs
<1> QED
  BY <1>1, <1>4, <1>7, <1>8, <1>9, <1>10, <1>11, ClosePanelAsks, PresentAsks, CloseByIdAsks,
     AtThePanelAsks DEF Next, MainThread, AtThePanel

-----------------------------------------------------------------------------
(* Theorems *)

CoordinatorInv == Typed /\ Leased /\ KitInv /\ PendingInv /\ PanelInv

LEMMA CoordinatorInvariant == Spec => []CoordinatorInv
<1>1. Init => CoordinatorInv
  BY InitTyped, InitLeased, InitKit, InitPending, InitPanel DEF CoordinatorInv
<1>2. CoordinatorInv /\ [Next]_vars => CoordinatorInv'
  BY TypedInvariant, LeasedInvariant, KitInvariant, PendingInvariant, PanelInvariant
     DEF CoordinatorInv
<1> QED
  BY <1>1, <1>2, PTL DEF Spec

\* Type correctness: the queue only holds requests for panels that have an id, and an operation
\* only ever carries the id of its own token.
THEOREM CoordinatorType == Spec => []TypeOK
<1>1. Typed => TypeOK
  BY DEF Typed
<1> QED
  BY InitTyped, TypedInvariant, <1>1, PTL DEF Spec

\* An unsaved Recovery Kit always has an owner: the closure that made it, the leased step that
\* confirms it, or a stop that has yet to drop it.  The one exception is the stop cleaned up late
\* that disowned one.
THEOREM KitHasOwner == Spec => []KitOwned
<1>1. CoordinatorInv => KitOwned
  BY DEF CoordinatorInv, KitInv
<1> QED
  BY <1>1, CoordinatorInvariant, PTL

\* Once every step has returned and nothing is put off any more, the lease is free, the window shows
\* no panel and the core waits for no operation.
THEOREM NothingLeftAtRest == Spec => []RestIsClean
<1>1. CoordinatorInv => RestIsClean
  <2> SUFFICES ASSUME CoordinatorInv, AtRest
               PROVE  current = 0 /\ panel = None /\ core.pending = 0
    BY DEF RestIsClean
  <2>1. \A t \in Token : ~Live(t) /\ t # 0
    BY Ids DEF CoordinatorInv, Leased, AtRest
  <2>2. current = 0 /\ active = None
    BY <2>1, TypedParts, LeasedTokens DEF CoordinatorInv, Live
  <2>3. panel = None
    BY <2>1, TypedParts DEF CoordinatorInv, PanelInv, WillClose, AtRest, Panel
  <2>4. core.pending = 0
    BY <2>1, <2>2 DEF CoordinatorInv, PendingInv, PendingOwned, AtRest
  <2> QED
    BY <2>2, <2>3, <2>4
<1> QED
  BY <1>1, CoordinatorInvariant, PTL
============================================================================
