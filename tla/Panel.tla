-------------------------------- MODULE Panel --------------------------------
(***************************************************************************)
(* A panel in the window, whichever platform draws it: what its handlers   *)
(* see of the rest of the app, and what must be true of it.  Every handler *)
(* asks once or more whether it may go on, and the answer may change       *)
(* between two questions of one handler: the core is locked for a moment,  *)
(* or the operation is over.  MacPanel and WindowsPanel add the handlers.  *)
(***************************************************************************)
EXTENDS PanelRules

VARIABLES
  panel,
  timer       \* whether it fired since time last passed, and was given a clear answer

vars == <<panel, timer>>

Rows == {"hint", "line", "suggested", "error", "wait", "ask", "armed", "removed"}
Live ==
  [edited : {None} \cup 0..LivePause, strength : {None} \cup BOOLEAN, job : {None} \cup Job,
   waiting : BOOLEAN]
Filled == UNION {[Boxes(kind) -> Texts] : kind \in Kinds}

PanelState ==
  [kind : Kinds, open : BOOLEAN, result : {None, "accepted", "cancelled", "interrupted"},
   suspended : BOOLEAN, allowed : {None} \cup 0..(Grace + 1), boxes : Filled, boxShown : BOOLEAN,
   label : {"", "kit", "typed"} \cup Suggestions, readout : BOOLEAN, left : 0..ReadoutTime,
   extensions : 0..3, suggestion : {None} \cup Suggested, arm : {None} \cup 0..(ArmWindow + 1),
   error : BOOLEAN, last : BOOLEAN, row : Rows, live : Live, line : {None} \cup Line,
   ticked : {None} \cup 0..TypedLimit, hold : {None} \cup 0..HoldLimit,
   lastEdited : {None, "new", "confirm"}, usable : BOOLEAN, stale : BOOLEAN]

IsPanel(p) == p \in PanelState /\ p.boxes \in [Boxes(p.kind) -> Texts]

TypeOK == IsPanel(panel) /\ timer \in {"due", "rejected", "done"}

\* The panel as it is registered, before the first check.
Built(kind) ==
  [kind |-> kind, open |-> TRUE, result |-> None, suspended |-> FALSE, allowed |-> None,
   boxes |-> [b \in Boxes(kind) |-> ""], boxShown |-> kind = "Kit",
   label |-> IF kind = "Kit" THEN "kit" ELSE "", readout |-> kind = "Timed",
   left |-> ReadoutTime, extensions |-> 0, suggestion |-> None, arm |-> None, error |-> FALSE,
   last |-> FALSE, row |-> "hint", live |-> NoLive, line |-> None, ticked |-> None, hold |-> None,
   lastEdited |-> None, usable |-> FALSE, stale |-> FALSE]

\* Whether the operation stands, and whether what is typed may be shown: a known sharing app may
\* be running after its Shield was dismissed.  The core may be locked for either question.
Answers == {"Allowed", "Retry", "Denied"}
Unclear == Answers \ {"Allowed"}
MayShow == {"Allowed", "Busy", "Refused"}

\* What the presentation makes of an answer: on both platforms the same, but for `cleared`.
Apply(p, answer, cleared) ==
  IF ~p.open THEN p
  ELSE LET q == IF answer = "Allowed" THEN [p EXCEPT !.allowed = 0] ELSE p
       IN CASE Update(p, answer) = "Close" -> Finish(p, "interrupted")
            [] Update(p, answer) = "Clear" -> cleared
            [] Update(p, answer) = "Restore" -> Restore(q)
            [] OTHER -> q

WorkerDone ==
  /\ panel.live.job # None /\ ~panel.live.job.done
  /\ panel' = [panel EXCEPT !.live.job.done = TRUE]
  /\ UNCHANGED timer

\* The main thread is never blocked for a whole unit, so the timer fires in between.
Pass ==
  /\ timer # "due" /\ panel.open
  /\ timer' = "due"
  /\ panel' = [panel EXCEPT !.allowed = Older(@, Grace + 1),
                            !.arm = Older(@, ArmWindow + 1),
                            !.ticked = Older(@, TypedLimit),
                            !.hold = Older(@, HoldLimit),
                            !.live.edited = Older(@, LivePause),
                            !.left = IF @ = 0 THEN 0 ELSE @ - 1]

\* cancel(id), and the window losing the focus, ask nobody.
CloseNow ==
  /\ panel.open
  /\ \E result \in {"cancelled", "interrupted"} : panel' = Finish(panel, result)
  /\ UNCHANGED timer

Environment == WorkerDone \/ Pass \/ CloseNow

-----------------------------------------------------------------------------
TypedOnScreen == panel.label = "typed" \/ panel.hold # None

Plain ==
  \/ panel.label # "" \/ panel.readout \/ panel.hold # None
  \/ panel.boxShown /\ "only" \in DOMAIN panel.boxes /\ panel.boxes["only"] # ""

\* While the panel waits for a busy core, and once it is closed, nothing that was typed, suggested
\* or read out is on screen, in whatever order handlers drew and checked.
BlankWhileSuspended == panel.suspended \/ ~panel.open => ~Plain

\* Nothing stays on screen longer than the grace after the last clear answer.
PlainIsFresh == Plain => panel.allowed # None /\ panel.allowed <= Grace

\* Once an edit has been seen, the advice under the boxes is about what they hold, although it was
\* computed by another thread for the text of some moment.
AdviceIsCurrent ==
  panel.row = "line" /\ panel.suggestion = None /\ panel.live.edited = None =>
    /\ (panel.line.verdict = "short" <=> panel.boxes["new"] = "")
    /\ panel.line.verdict \in {"strong", "weak"} =>
         (panel.line.verdict = "strong" <=> Acceptable(panel.boxes["new"]))
    /\ panel.line.match = Match(panel.boxes["new"], panel.boxes["confirm"])

Checking ==
  panel.row = "line" /\ panel.suggestion = None /\ panel.line.verdict = "checking"

\* "Checking..." is answered or taken away, unless the owner types on.
CheckingEnds ==
  Checking /\ panel.live.edited = None ~> ~Checking \/ panel.live.edited # None
=============================================================================
