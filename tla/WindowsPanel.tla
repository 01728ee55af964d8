----------------------------- MODULE WindowsPanel -----------------------------
(***************************************************************************)
(* native_credential/windows.rs: the Win32 messages of a panel.  There is  *)
(* no view of what was typed here.  A key that is rejected never reaches   *)
(* its box, so typing is let through while the core is busy.  Layout, the  *)
(* keyboard loop and scrolling are left out.                               *)
(***************************************************************************)
EXTENDS Panel

WinActivity(p, answer) == Apply(p, answer, Clear(p))

\* The count under a Recovery Key box.
ShowRecoveryProgress(p) ==
  IF p.open /\ p.kind = "Recovery" /\ ~p.suspended /\ ~p.error THEN [p EXCEPT !.row = "hint"] ELSE p

WinPasses(p) == WinActivity(p, "Allowed")
WinRejected(p) == {WinActivity(p, answer) : answer \in Unclear}
\* overlay_proc and input_proc ask for the press, the action asks again.
WinRejectedPress(p) == WinRejected(p) \cup WinRejected(WinPasses(p))

WinInit(kind) ==
  /\ timer = "due"
  /\ \E answer \in Answers : panel = WinActivity(Built(kind), answer)

WinClearTick(p) == TimedOut(UpdateLiveLine(ExpireArm(WinPasses(p))))

WinTick ==
  /\ panel.open
  /\ \/ timer' = "rejected" /\ panel' \in WinRejected(panel)
     \/ timer' = "done" /\ panel' = WinClearTick(panel)

WinContinue ==
  /\ panel.open
  /\ \/ panel' \in WinRejectedPress(panel)
     \/ panel' = SubmitPassed(WinPasses(panel))
     \/ ReturnMovesOn(panel) /\ panel' = WinPasses(panel)
  /\ UNCHANGED timer

\* Only a Recovery Kit asks whether it may go on.
WinCancel ==
  /\ panel.open
  /\ IF panel.kind = "Kit"
     THEN \E q \in WinRejected(panel) \cup {WinPasses(panel)}, key \in BOOLEAN :
            panel' = OwnerCancelKit(q, key)
     ELSE panel' = Finish(panel, "cancelled")
  /\ UNCHANGED timer

BoxTakesTypingWhileBusy(p) == p.open /\ ~(p.kind = "Kit" /\ p.suspended)

\* WM_CHAR, and the EN_CHANGE that follows when it reaches the box.
WinType ==
  /\ panel.open
  /\ \E box \in DOMAIN panel.boxes : \E text \in TypedIn(box), answer \in Answers :
       /\ text # panel.boxes[box]
       /\ LET asked == WinActivity(panel, answer)
          IN panel' = IF answer # "Allowed" /\ ~BoxTakesTypingWhileBusy(asked) THEN asked
                      ELSE ShowRecoveryProgress(EditedBox(Disarmed([asked EXCEPT !.boxes[box] = text]), box))
  /\ UNCHANGED timer

\* Hold shows after a check, and a release, a lost capture or a lost focus hides.
WinHeld ==
  /\ panel.open /\ panel.kind = "Held"
  /\ \/ panel' \in WinRejectedPress(panel)
     \/ panel' = [WinPasses(panel) EXCEPT !.readout = TRUE]
     \/ panel' = [panel EXCEPT !.readout = FALSE]
  /\ UNCHANGED timer

\* The boxes are written first; whether the words may be drawn is asked again.
WinSuggest ==
  /\ panel.open /\ panel.kind \in NewPasswords
  /\ \/ panel' \in WinRejectedPress(panel)
     \/ \E text \in Suggestions :
          LET stored == [WinPasses(panel) EXCEPT
                           !.boxes["new"] = text, !.boxes["confirm"] = text,
                           !.suggestion = [text |-> text, acknowledged |-> FALSE],
                           !.error = FALSE, !.last = FALSE, !.line = None]
          IN panel' \in WinRejected(stored)
                        \cup {[WinPasses(stored) EXCEPT !.label = text, !.row = "suggested"]}
  /\ UNCHANGED timer

WinExtend ==
  /\ panel.open /\ panel.kind = "Timed" /\ panel.extensions < 3
  /\ LET extended == WinPasses(Extended(WinPasses(panel)))
     IN panel' \in WinRejectedPress(panel) \cup WinRejected(extended) \cup {WinClearTick(extended)}
  /\ UNCHANGED timer

WinNext ==
  WinTick \/ WinContinue \/ WinCancel \/ WinType \/ WinHeld \/ WinSuggest \/ WinExtend
=============================================================================
