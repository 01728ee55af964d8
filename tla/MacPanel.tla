------------------------------- MODULE MacPanel -------------------------------
(***************************************************************************)
(* native_credential/mac.rs: the AppKit handlers of a panel.  Layout, the  *)
(* keyboard loop and the accessibility of controls are left out; a control *)
(* that is greyed out takes no press.                                      *)
(***************************************************************************)
EXTENDS Panel

EndHold(p) == [p EXCEPT !.hold = None]

\* Both opt-in views off and blank.
HideTyped(p) ==
  EndHold([p EXCEPT !.ticked = None, !.label = IF p.kind = "Recovery" THEN "" ELSE @])

\* `activity`, and what its answer paints.
Activity(p, answer) == Apply(p, answer, HideTyped(Clear(p)))

RefreshRecoveryLines(p) ==
  IF p.kind # "Recovery" THEN p
  ELSE [p EXCEPT !.row = IF p.suspended \/ p.error THEN @ ELSE "hint",
                 !.label = IF p.ticked # None THEN "typed" ELSE ""]

UpdateShowControls(p, may) ==
  IF p.kind \notin NewPasswords \cup {"Recovery"} \/ ~p.open THEN p
  ELSE LET q == [p EXCEPT !.usable = IF may = "Busy" THEN @ ELSE may = "Allowed"]
       IN IF may = "Refused" THEN HideTyped(q) ELSE q

\* A handler goes on with a clear answer only; any other closes the panel, blanks it, or rejects
\* the press.  A press is checked once for the control and once more for its action.
Passes(p) == Activity(p, "Allowed")
Rejected(p) == {Activity(p, answer) : answer \in Unclear}
RejectedPress(p) == Rejected(p) \cup Rejected(Passes(p))

MacInit(kind) ==
  /\ timer = "due"
  /\ \E answer \in Answers, may \in MayShow :
       panel = UpdateShowControls(Activity(Built(kind), answer), may)

TickPassed(p, may) ==
  LET armed == ExpireArm(p)
      held == IF armed.hold # None /\ armed.hold >= HoldLimit THEN EndHold(armed) ELSE armed
      seen == IF held.ticked # None /\ held.ticked >= TypedLimit THEN HideTyped(held) ELSE held
      lined == UpdateLiveLine(seen)
      fresh == IF lined.stale THEN RefreshRecoveryLines([lined EXCEPT !.stale = FALSE]) ELSE lined
  IN TimedOut(UpdateShowControls(fresh, may))

ClearTicks(p) == {TickPassed(Passes(p), may) : may \in MayShow}

MacTick ==
  /\ panel.open
  /\ \/ timer' = "rejected" /\ panel' \in Rejected(panel)
     \/ timer' = "done" /\ panel' \in ClearTicks(panel)

\* Return goes to an empty box of a new password first.
MacContinue ==
  /\ panel.open
  /\ \/ panel' \in RejectedPress(panel)
     \/ panel' = SubmitPassed(Passes(panel))
     \/ ReturnMovesOn(panel) /\ panel' = Passes(panel)
  /\ UNCHANGED timer

MacCancel ==
  /\ panel.open
  /\ IF panel.kind = "Kit"
     THEN \E q \in Rejected(panel) \cup {Passes(panel)}, key \in BOOLEAN :
            panel' = OwnerCancelKit(q, key)
     ELSE \E answer \in Answers : panel' = Finish(Activity(panel, answer), "cancelled")
  /\ UNCHANGED timer

\* The field editor has taken the key before anything is checked.  A repeated key, or a change
\* that is no key, keeps no view on screen.
MacTextChanged ==
  /\ panel.open
  /\ \E box \in DOMAIN panel.boxes : \E text \in TypedIn(box), genuine \in BOOLEAN, answer \in Answers :
       /\ text # panel.boxes[box]
       /\ genuine \/ panel.ticked # None
       /\ LET typed == Disarmed([panel EXCEPT !.boxes[box] = text])
              kept == [typed EXCEPT !.ticked = IF genuine /\ @ # None THEN 0 ELSE @]
              edited == EditedBox(kept, box)
              asked == Activity(edited, answer)
          IN panel' = IF answer = "Allowed" THEN RefreshRecoveryLines(asked)
                      ELSE [asked EXCEPT !.stale = @ \/ (asked.open /\ asked.kind = "Recovery")]
  /\ UNCHANGED timer

\* The click has switched the tickbox.  Anything but a clear yes switches it off.
ShowTypingChanged ==
  /\ panel.open /\ panel.kind = "Recovery" /\ panel.usable
  /\ \/ \E q \in Rejected(panel) : panel' = HideTyped(q)
     \/ \E may \in MayShow :
          LET q == Passes(panel)
          IN panel' = RefreshRecoveryLines(
                        IF may # "Allowed" THEN HideTyped(q)
                        ELSE [q EXCEPT !.ticked = IF panel.ticked = None THEN 0 ELSE None])
  /\ UNCHANGED timer

\* Shows the box with the focus, if it is New or Confirm and holds text; otherwise the one typed
\* in last.  What it shows is a snapshot.
HoldTyped(p, focus, may) ==
  LET box == IF focus # None /\ p.boxes[focus] # "" THEN focus ELSE p.lastEdited
  IN IF p.hold # None \/ p.suggestion # None \/ may # "Allowed" \/ box = None THEN p
     ELSE [p EXCEPT !.hold = 0]

MacHoldPressed ==
  /\ panel.open
  /\ panel.kind = "Held" \/ (panel.kind \in NewPasswords /\ panel.usable /\ panel.suggestion = None)
  /\ \/ panel' \in RejectedPress(panel)
     \/ panel.kind = "Held" /\ panel' = [Passes(panel) EXCEPT !.readout = TRUE]
     \/ /\ panel.kind # "Held"
        /\ \E focus \in {"new", "confirm", None}, may \in MayShow :
             panel' = HoldTyped(Passes(panel), focus, may)
  /\ UNCHANGED timer

\* A release ends what the press showed, whatever the check of a key release says.
Released(p) == IF p.kind = "Held" THEN [p EXCEPT !.readout = FALSE] ELSE EndHold(p)
MacHoldReleased ==
  /\ panel.open /\ panel.kind \in NewPasswords \cup {"Held"}
  /\ \/ panel' = Released(panel)
     \/ \E answer \in Answers : panel' = Released(Activity(panel, answer))
  /\ UNCHANGED timer

MacSuggest ==
  /\ panel.open /\ panel.kind \in NewPasswords
  /\ \/ panel' \in RejectedPress(panel)
     \/ \E text \in Suggestions :
          panel' = [EndHold(Passes(panel)) EXCEPT
                      !.boxes["new"] = text, !.boxes["confirm"] = text, !.label = text,
                      !.suggestion = [text |-> text, acknowledged |-> FALSE],
                      !.error = FALSE, !.last = FALSE, !.line = None, !.lastEdited = None,
                      !.row = "suggested"]
  /\ UNCHANGED timer

\* The hook ticks the core and answers like a check; the handler ends with a tick of its own.
MacExtend ==
  /\ panel.open /\ panel.kind = "Timed" /\ panel.extensions < 3
  /\ LET extended == Passes(Extended(Passes(panel)))
     IN panel' \in RejectedPress(panel) \cup Rejected(extended) \cup ClearTicks(extended)
  /\ UNCHANGED timer

MacNext ==
  \/ MacTick \/ MacContinue \/ MacCancel \/ MacTextChanged \/ ShowTypingChanged
  \/ MacHoldPressed \/ MacHoldReleased \/ MacSuggest \/ MacExtend
=============================================================================
