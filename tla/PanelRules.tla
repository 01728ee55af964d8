------------------------------ MODULE PanelRules ------------------------------
(***************************************************************************)
(* native_credential.rs: the rules that the panels of both platforms share.*)
(* A panel is a record.  What is typed is one of a few texts; what the row *)
(* under the boxes says is the name of the message.  Times are ages, in    *)
(* units of the timer's order, and an age that no rule can tell from an    *)
(* older one stops growing.                                                *)
(***************************************************************************)
EXTENDS Naturals

CONSTANTS
  None,
  Grace,        \* RETRY_GRACE
  KeyGap,       \* ARM_KEY_GAP
  ClickGap,     \* ARM_CLICK_GAP
  ArmWindow,    \* ARM_WINDOW
  LivePause,    \* LIVE_PAUSE
  HoldLimit,    \* HOLD_LIMIT
  TypedLimit,   \* TYPED_IDLE_LIMIT
  ReadoutTime,  \* ACCESSIBLE_REVEAL_MS
  Suggestions   \* what suggest_passphrase may draw

\* What may stand in a panel: a suggestion, the line under the boxes, the worker's job.
Suggested == [text : Suggestions, acknowledged : BOOLEAN]
Line == [verdict : {"short", "checking", "strong", "weak"}, match : {"", "match", "differ"}]
Job == [done : BOOLEAN, fresh : BOOLEAN, ok : BOOLEAN]

ASSUME PanelAssumption ==
  /\ {Grace, KeyGap, ClickGap, ArmWindow, LivePause, HoldLimit, TypedLimit, ReadoutTime}
       \subseteq Nat \ {0}
  /\ KeyGap <= ClickGap /\ ClickGap < ArmWindow
  /\ None \notin Nat /\ None \notin STRING /\ None \notin BOOLEAN
  /\ None \notin Suggested \cup Line \cup Job
  /\ Suggestions # {} /\ Suggestions \cap {"", "bad", "good", "kit", "typed"} = {}

Older(age, most) == IF age = None \/ age >= most THEN age ELSE age + 1

-----------------------------------------------------------------------------
(* What is asked for, and typed *)

Kinds == {"Password", "Recovery", "NewPassword", "PasswordChange", "Kit", "Held", "Timed"}
NewPasswords == {"NewPassword", "PasswordChange"}
Reveals == {"Held", "Timed"}

\* The right answer to Recovery and Kit, and a password that the policy accepts; "bad" is not,
\* and long enough to be scored.
Typed == {"", "bad", "good"}
\* Of the Current box only whether it is empty matters here.
TypedIn(box) == IF box = "current" THEN {"", "good"} ELSE Typed
Texts == Typed \cup Suggestions
Acceptable(text) == text \in Suggestions \cup {"good"}

Boxes(kind) ==
  CASE kind = "NewPassword" -> {"new", "confirm"}
    [] kind = "PasswordChange" -> {"current", "new", "confirm"}
    [] kind \in Reveals -> {}
    [] OTHER -> {"only"}

\* Prompt.reply: accepted, or where the focus goes, and what is cleared, after a refusal.
Reply(p) ==
  LET b == p.boxes
  IN CASE p.kind \in NewPasswords ->
            IF p.kind = "PasswordChange" /\ b["current"] = "" THEN "Keep"
            ELSE IF b["confirm"] = "" /\ b["new"] # "" THEN "FocusConfirm"
            ELSE IF b["confirm"] # b["new"] THEN "ClearAndFocusNew"
            ELSE IF Acceptable(b["new"]) THEN "accepted" ELSE "Keep"
       [] p.kind = "Kit" -> IF b["only"] = "good" THEN "accepted" ELSE "ClearAndFocusRetype"
       [] p.kind = "Recovery" -> IF b["only"] = "good" THEN "accepted" ELSE "Keep"
       [] p.kind = "Password" -> IF b["only"] # "" THEN "accepted" ELSE "Keep"
       [] OTHER -> "Keep"

EmptyBoxes(p, boxes) == [p EXCEPT !.boxes = [b \in DOMAIN @ |-> IF b \in boxes THEN "" ELSE @[b]]]

-----------------------------------------------------------------------------
(* LiveCheck: advice at typing pauses, scored by at most one worker.  Generations are only        *)
(* compared with the newest, so a job knows whether it is still about the newest text.            *)

NoLive == [edited |-> None, strength |-> None, job |-> None, waiting |-> FALSE]

Edited(l) ==
  [l EXCEPT !.edited = 0, !.strength = None, !.job = IF @ = None THEN @ ELSE [@ EXCEPT !.fresh = FALSE]]

\* Mutant: any edit keeps the answer.
BoxEditedKeeping(l, box) == [l EXCEPT !.edited = 0]

BoxEdited(l, box) == IF box = "confirm" THEN [l EXCEPT !.edited = 0] ELSE Edited(l)

Due(l) == l.edited # None /\ l.edited >= LivePause

Answered(l) == l.job # None /\ l.job.done

\* poll: whether the line should be drawn again, and what becomes of the answer.
Draws(l) ==
  Answered(l) /\ (l.job.fresh \/ (l.waiting /\ l.edited = None))
Poll(l) ==
  IF ~Answered(l) THEN l
  ELSE IF l.job.fresh
  THEN [l EXCEPT !.job = None, !.strength = l.job.ok, !.waiting = FALSE]
  ELSE [l EXCEPT !.job = None, !.waiting = FALSE]

\* Mutant: text that has to wait for the worker is forgotten.
ScoreNoWaiting(l, new) ==
  IF l.job # None THEN l
  ELSE [l EXCEPT !.job = [done |-> FALSE, fresh |-> TRUE, ok |-> Acceptable(new)]]

Score(l, new) ==
  IF l.job # None THEN [l EXCEPT !.waiting = TRUE]
  ELSE [l EXCEPT !.job = [done |-> FALSE, fresh |-> TRUE, ok |-> Acceptable(new)]]

Verdict(l, new) ==
  IF new = "" THEN "short"
  ELSE IF l.strength = None THEN "checking"
  ELSE IF l.strength THEN "strong" ELSE "weak"

Match(new, confirm) ==
  IF confirm = "" THEN "" ELSE IF new = confirm THEN "match" ELSE "differ"

\* line, for the boxes as they are.
DrawLine(p) ==
  LET new == p.boxes["new"]
      seen == [p.live EXCEPT !.edited = None]
      verdict == Verdict(seen, new)
  IN [p EXCEPT !.live = IF verdict = "checking" THEN Score(seen, new) ELSE seen,
               !.line = [verdict |-> verdict, match |-> Match(new, p.boxes["confirm"])],
               !.row = "line"]

\* Only while the line may stand in the row.
MayAdvise(p) == p.kind \in NewPasswords /\ p.suggestion = None /\ ~p.suspended /\ ~p.error

UpdateLiveLine(p) ==
  LET polled == [p EXCEPT !.live = Poll(@)]
  IN IF ~MayAdvise(p) THEN p
     ELSE IF Draws(p.live) \/ Due(polled.live) THEN DrawLine(polled) ELSE polled

-----------------------------------------------------------------------------
(* The row under the boxes *)

NormalRow(p) ==
  IF p.suggestion # None THEN "suggested" ELSE IF p.line # None THEN "line" ELSE "hint"

RestoreRow(p) == [p EXCEPT !.error = p.last, !.row = IF p.last THEN "error" ELSE NormalRow(p)]

-----------------------------------------------------------------------------
(* PresentationState, and what its answer does to the panel *)

RidesOutABlip(kind) == kind \in NewPasswords \cup {"Kit", "Recovery"}

\* Mutant: a brief core lock is ridden out however long ago the last clear answer was.
UpdateUngraced(p, answer) ==
  CASE answer = "Allowed" -> IF p.suspended THEN "Restore" ELSE "Keep"
    [] answer = "Retry" -> IF RidesOutABlip(p.kind) /\ ~p.suspended THEN "Hold" ELSE "Clear"
    [] OTHER -> "Close"

Update(p, answer) ==
  CASE answer = "Allowed" -> IF p.suspended THEN "Restore" ELSE "Keep"
    [] answer = "Retry" ->
         IF RidesOutABlip(p.kind) /\ ~p.suspended /\ p.allowed # None /\ p.allowed < Grace
         THEN "Hold" ELSE "Clear"
    [] OTHER -> "Close"

Dark(p) ==
  [p EXCEPT !.label = "", !.readout = FALSE, !.boxShown = FALSE, !.hold = None, !.ticked = None,
            !.arm = None]

Forgotten(p) ==
  [p EXCEPT !.suggestion = None, !.line = None, !.live = NoLive, !.row = "hint", !.error = FALSE,
            !.last = FALSE, !.lastEdited = None, !.stale = FALSE]

Blank(p) == EmptyBoxes(Forgotten(Dark(p)), DOMAIN p.boxes)

\* finish takes the panel down: every control is emptied before it is removed.
Finish(p, result) == IF p.open THEN [Blank(p) EXCEPT !.open = FALSE, !.result = result] ELSE p

\* Mutant: the box that is typed in again stays readable.
ClearLabels(p) ==
  [p EXCEPT !.suspended = TRUE, !.label = "", !.readout = FALSE, !.arm = None, !.row = "wait",
            !.suggestion = IF @ = None THEN @ ELSE [@ EXCEPT !.acknowledged = FALSE]]

Clear(p) ==
  [p EXCEPT !.suspended = TRUE, !.label = "", !.readout = FALSE, !.boxShown = FALSE, !.arm = None,
            !.row = "wait",
            !.suggestion = IF @ = None THEN @ ELSE [@ EXCEPT !.acknowledged = FALSE]]

\* The label of a Kit is its Recovery Key, the last label of a new password the suggestion.
ShownLabel(p) ==
  IF p.kind = "Kit" THEN "kit"
  ELSE IF p.suggestion # None THEN p.suggestion.text ELSE p.label

Restore(p) ==
  RestoreRow([p EXCEPT !.suspended = FALSE, !.label = ShownLabel(p), !.boxShown = p.kind = "Kit",
                       !.readout = p.kind = "Timed" /\ p.left > 0])

-----------------------------------------------------------------------------
(* CancelArm: on a Recovery Kit the first press only asks *)

Gap(fromKey) == IF fromKey THEN KeyGap ELSE ClickGap

Press(p, fromKey) ==
  IF p.arm = None \/ p.arm > ArmWindow THEN [p EXCEPT !.arm = 0, !.row = "armed"]
  ELSE IF p.arm < Gap(fromKey) THEN p
  ELSE Finish(p, "cancelled")

ExpireArm(p) ==
  IF p.arm # None /\ p.arm > ArmWindow THEN RestoreRow([p EXCEPT !.arm = None]) ELSE p

\* A press while the core is locked for a moment still counts, unless the Kit is blanked.
OwnerCancelKit(p, fromKey) == IF p.open /\ ~p.suspended THEN Press(p, fromKey) ELSE p

-----------------------------------------------------------------------------
(* Continue, once the check has passed *)

Cleared(refusal, kind) ==
  CASE refusal = "ClearAndFocusNew" -> {"new", "confirm"}
    [] refusal = "ClearAndFocusRetype" -> Boxes(kind)
    [] OTHER -> {}

Refuse(p, refusal) ==
  LET cleared == Cleared(refusal, p.kind)
  IN EmptyBoxes([p EXCEPT !.error = TRUE, !.last = TRUE, !.row = "error",
                          !.line = IF cleared = {} THEN @ ELSE None,
                          !.lastEdited = IF cleared = {} THEN @ ELSE None],
                cleared)

\* A suggested password is used only after the owner was asked if it is written down.
SubmitPassed(p) ==
  IF p.kind \in Reveals THEN Finish(p, "cancelled")
  ELSE LET q == [p EXCEPT !.arm = None]
       IN IF Reply(q) # "accepted" THEN Refuse(q, Reply(q))
          ELSE IF q.suggestion # None /\ ~q.suggestion.acknowledged
          THEN [q EXCEPT !.suggestion.acknowledged = TRUE, !.row = "ask"]
          ELSE Finish(q, "accepted")

ReturnMovesOn(p) == p.kind \in NewPasswords /\ \E b \in DOMAIN p.boxes : p.boxes[b] = ""

-----------------------------------------------------------------------------
(* An edit, other than this code's own writes to the boxes *)

Disarmed(p) ==
  LET told == ~p.suspended /\ (p.error \/ p.arm # None)
      q == IF told THEN [p EXCEPT !.error = FALSE, !.last = FALSE] ELSE p
  IN [q EXCEPT !.arm = None, !.row = IF told THEN NormalRow(q) ELSE @]

\* Typing over a suggestion removes it from both boxes.
EditedBox(p, box) ==
  IF p.kind \notin NewPasswords \/ box = "current" THEN p
  ELSE IF p.suggestion = None
  THEN [p EXCEPT !.live = BoxEdited(@, box), !.lastEdited = box]
  ELSE EmptyBoxes([p EXCEPT !.suggestion = None, !.line = None, !.lastEdited = None,
                            !.error = TRUE, !.label = "", !.row = IF p.suspended THEN @ ELSE "removed"],
                  {"new", "confirm"})

Extended(p) == [p EXCEPT !.extensions = @ + 1, !.left = ReadoutTime]

TimedOut(p) == IF p.kind = "Timed" /\ p.left = 0 THEN Finish(p, "cancelled") ELSE p

=============================================================================
