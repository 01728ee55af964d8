----------------------------- MODULE PanelProofs ------------------------------
(***************************************************************************)
(* What holds of a panel of any kind on either platform, for any           *)
(* thresholds, suggestions and texts, in whatever order its handlers, its  *)
(* timer, its worker and the rest of the app take turns.                   *)
(*                                                                         *)
(* A handler is a chain of the rules of PanelRules, most of it behind a    *)
(* check.  Each rule is shown to keep a panel Good and to show nothing     *)
(* new (Quiet), or no more than a panel that has just had a clear answer   *)
(* may (Permitted); what a check leaves is Discreet, whatever its answer.  *)
(***************************************************************************)
EXTENDS Panels, TLAPS

-----------------------------------------------------------------------------
(* What holds of a panel p *)

\* Nothing is shown.
Blanked(p) == p.label = "" /\ p.readout = FALSE /\ p.hold = None /\ p.boxShown = FALSE

\* The last clear answer is recent enough for a timer that has fired since time last passed.
Permitted(p) == p.open /\ ~p.suspended /\ p.allowed # None /\ p.allowed < Grace

Discreet(p) == Blanked(p) \/ Permitted(p)

New(p) == p.boxes["new"]

\* The row shows the line only if there is one.
RowOK(p) == p.row = "line" => ~p.suspended /\ (p.suggestion = None => p.line # None)

\* What the line says is so, unless an edit has yet to be seen.
LineOK(p) ==
  p.line # None =>
    /\ p.kind \in NewPasswords
    /\ p.suggestion = None /\ p.live.edited = None =>
         /\ p.line.verdict = "short" <=> New(p) = ""
         /\ p.line.verdict \in {"strong", "weak"} => (p.line.verdict = "strong" <=> Acceptable(New(p)))
         /\ p.line.match = Match(New(p), p.boxes["confirm"])

\* What the worker found, or will, is about what the box holds.
ScoreOK(p) ==
  p.kind \in NewPasswords /\ p.suggestion = None /\ New(p) # "" =>
    /\ p.live.strength # None => (p.live.strength <=> Acceptable(New(p)))
    /\ p.live.job # None /\ p.live.job.fresh => (p.live.job.ok <=> Acceptable(New(p)))

Good(p) == IsPanel(p) /\ RowOK(p) /\ LineOK(p) /\ ScoreOK(p)

ShownInv ==
  /\ Good(panel)
  /\ timer \in {"due", "rejected", "done"}
  /\ \/ Blanked(panel)
     \/ panel.open /\ ~panel.suspended /\ panel.allowed # None /\ panel.allowed <= Grace
  /\ timer # "due" => Discreet(panel)
  /\ platform \in {"macos", "windows"}
  /\ platform = "windows" => panel.hold = None

\* A rule leaves to the checks whether the panel may show anything.
Stays(p, q) == q.open = p.open /\ q.suspended = p.suspended /\ q.allowed = p.allowed

\* A rule shows nothing that was not shown.
Quiet(p, q) ==
  Blanked(q) \/ (Stays(p, q) /\ (Blanked(p) => Blanked(q)) /\ q.hold \in {p.hold, None})

Keeps(p, q) == Good(q) /\ Quiet(p, q)

SameScreen(p, q) ==
  /\ Stays(p, q)
  /\ q.label = p.label /\ q.readout = p.readout /\ q.hold = p.hold /\ q.boxShown = p.boxShown

LEMMA StaysPermitted ==
  ASSUME NEW p, NEW q, Permitted(p), Stays(p, q)
  PROVE  Permitted(q) /\ Discreet(q)
  BY DEF Stays, Permitted, Discreet

LEMMA QuietDiscreet ==
  ASSUME NEW p, NEW q, Discreet(p), Quiet(p, q)
  PROVE  Discreet(q)
  BY DEF Stays, Permitted, Discreet, Quiet

LEMMA QuietTwice ==
  ASSUME NEW p, NEW q, NEW r, Quiet(p, q), Quiet(q, r)
  PROVE  Quiet(p, r)
  BY DEF Stays, Quiet

LEMMA QuietIfSame ==
  ASSUME NEW p, NEW q, SameScreen(p, q)
  PROVE  Quiet(p, q)
  BY DEF SameScreen, Quiet, Blanked

LEMMA NewBoxes ==
  ASSUME NEW kind \in NewPasswords
  PROVE  "new" \in Boxes(kind) /\ "confirm" \in Boxes(kind) /\ "only" \notin Boxes(kind)
  BY DEF NewPasswords, Boxes, Reveals

LEMMA FilledBoxes ==
  ASSUME NEW kind \in Kinds, NEW f \in [Boxes(kind) -> Texts]
  PROVE  f \in Filled
  BY DEF Filled

LEMMA EmptyIsText == "" \in Texts /\ Typed \subseteq Texts /\ Suggestions \subseteq Texts
  BY DEF Texts, Typed

\* A rule that leaves the boxes, the line and the worker alone keeps the advice.
LEMMA AdviceKept ==
  ASSUME NEW p, Good(p), NEW q, IsPanel(q),
         q.kind = p.kind, q.boxes = p.boxes, q.live = p.live, q.line = p.line,
         q.suggestion = None <=> p.suggestion = None,
         \/ q.row # "line"
         \/ q.row = p.row /\ q.suspended = p.suspended
         \/ ~q.suspended /\ q.row = NormalRow(q)
  PROVE  Good(q)
  <1>1. RowOK(q)
    BY DEF Good, RowOK, NormalRow
  <1>2. New(q) = New(p)
    BY DEF New
  <1>3. LineOK(q)
    BY <1>2 DEF Good, LineOK
  <1>4. ScoreOK(q)
    BY <1>2 DEF Good, ScoreOK
  <1> QED
    BY <1>1, <1>3, <1>4 DEF Good

-----------------------------------------------------------------------------
(* Closing, blanking and showing again *)

LEMMA NoLiveIsLive == NoLive \in Live
  BY DEF NoLive, Live

\* What is typed is all that a rule changes.
SameButBoxes(p, q) ==
  /\ q.kind = p.kind /\ q.open = p.open /\ q.suspended = p.suspended /\ q.allowed = p.allowed
  /\ q.label = p.label /\ q.readout = p.readout /\ q.hold = p.hold /\ q.boxShown = p.boxShown
  /\ q.live = p.live /\ q.line = p.line /\ q.row = p.row /\ q.suggestion = p.suggestion

LEMMA BoxesSet ==
  ASSUME NEW p, IsPanel(p), NEW f \in [Boxes(p.kind) -> Texts], NEW q, q = [p EXCEPT !.boxes = f]
  PROVE  IsPanel(q) /\ q.boxes = f /\ SameButBoxes(p, q)
  <1>1. p \in PanelState
    BY DEF IsPanel
  <1>2. f \in Filled
    <2>1. p.kind \in Kinds
      BY <1>1 DEF PanelState
    <2> QED
      BY <2>1, FilledBoxes
  <1>3. q \in PanelState
    BY <1>1, <1>2 DEF PanelState
  <1>4. q.boxes = f /\ SameButBoxes(p, q)
    BY <1>1 DEF PanelState, SameButBoxes
  <1> QED
    BY <1>3, <1>4 DEF IsPanel, SameButBoxes

LEMMA EmptyBoxesIs ==
  ASSUME NEW p, IsPanel(p), NEW S
  PROVE  /\ IsPanel(EmptyBoxes(p, S)) /\ SameButBoxes(p, EmptyBoxes(p, S))
         /\ \A b \in Boxes(p.kind) :
              /\ b \in S => EmptyBoxes(p, S).boxes[b] = ""
              /\ b \notin S => EmptyBoxes(p, S).boxes[b] = p.boxes[b]
  <1> DEFINE f == [b \in DOMAIN p.boxes |-> IF b \in S THEN "" ELSE p.boxes[b]]
  <1>1. p.boxes \in [Boxes(p.kind) -> Texts]
    BY DEF IsPanel
  <1>2. f \in [Boxes(p.kind) -> Texts]
    BY <1>1, EmptyIsText
  <1>3. p \in PanelState
    BY DEF IsPanel
  <1>4. EmptyBoxes(p, S) = [p EXCEPT !.boxes = f]
    BY <1>3 DEF EmptyBoxes, PanelState
  <1>5. \A b \in Boxes(p.kind) : f[b] = IF b \in S THEN "" ELSE p.boxes[b]
    BY <1>1
  <1> HIDE DEF f
  <1>6. /\ IsPanel(EmptyBoxes(p, S)) /\ SameButBoxes(p, EmptyBoxes(p, S))
        /\ EmptyBoxes(p, S).boxes = f
    BY <1>2, <1>4, BoxesSet
  <1> QED
    BY <1>5, <1>6

LEMMA BlankGood ==
  ASSUME NEW p, Good(p), NEW result \in {"accepted", "cancelled", "interrupted"},
         NEW q, q = [Blank(p) EXCEPT !.open = FALSE, !.result = result]
  PROVE  Good(q) /\ Blanked(q) /\ q.open = FALSE
  <1>1. PICK r : r = Dark(p)
    OBVIOUS
  <1>2. PICK t : t = Forgotten(r)
    OBVIOUS
  <1>c. PICK S : S = DOMAIN p.boxes
    OBVIOUS
  <1>3. PICK e : e = EmptyBoxes(t, S)
    OBVIOUS
  <1>4. p \in PanelState
    BY DEF Good, IsPanel
  <1>b. p.boxes \in [Boxes(p.kind) -> Texts]
    BY DEF Good, IsPanel
  <1>5. /\ r \in PanelState /\ Blanked(r) /\ r.kind = p.kind /\ r.boxes = p.boxes
    BY <1>1, <1>4 DEF Dark, PanelState, Blanked
  <1>6. t \in PanelState
    BY <1>2, <1>5, NoLiveIsLive DEF Forgotten, PanelState, Rows
  <1>7. /\ t.kind = p.kind /\ t.boxes = p.boxes
        /\ t.row = "hint" /\ t.line = None /\ t.live = NoLive
    BY <1>2, <1>5 DEF Forgotten, PanelState
  <1>8. Blanked(t)
    BY <1>2, <1>5 DEF Forgotten, PanelState, Blanked
  <1>9. IsPanel(t)
    BY <1>b, <1>6, <1>7 DEF IsPanel
  <1>10. /\ IsPanel(e) /\ Blanked(e) /\ e.kind = p.kind /\ e.row = "hint" /\ e.line = None
         /\ e.live = NoLive
    <2>1. IsPanel(e) /\ SameButBoxes(t, e)
      BY <1>3, <1>9, EmptyBoxesIs
    <2> QED
      BY <1>7, <1>8, <2>1 DEF Blanked, SameButBoxes
  <1>11. p.kind \in NewPasswords => New(e) = ""
    <2>1. p.kind \in NewPasswords => "new" \in Boxes(t.kind) /\ "new" \in S
      BY <1>b, <1>c, <1>7, NewBoxes
    <2> QED
      BY <1>3, <1>9, <2>1, EmptyBoxesIs DEF New
  <1>12. q = [e EXCEPT !.open = FALSE, !.result = result]
    BY <1>1, <1>2, <1>3, <1>c DEF Blank
  <1>e. e \in PanelState
    BY <1>10 DEF IsPanel
  <1>13. q \in PanelState
    BY <1>e, <1>12 DEF PanelState
  <1>14. /\ q.kind = e.kind /\ q.boxes = e.boxes /\ q.row = e.row /\ q.line = e.line
         /\ q.label = e.label /\ q.readout = e.readout /\ q.hold = e.hold
         /\ q.boxShown = e.boxShown /\ q.open = FALSE
    BY <1>e, <1>12 DEF PanelState
  <1>15. IsPanel(q)
    BY <1>10, <1>13, <1>14 DEF IsPanel
  <1>16. RowOK(q) /\ LineOK(q)
    BY <1>10, <1>14 DEF RowOK, LineOK
  <1>17. ScoreOK(q)
    BY <1>10, <1>11, <1>14 DEF ScoreOK, New
  <1> QED
    BY <1>10, <1>14, <1>15, <1>16, <1>17 DEF Good, Blanked

LEMMA FinishGood ==
  ASSUME NEW p, Good(p), NEW result \in {"accepted", "cancelled", "interrupted"}
  PROVE  /\ Good(Finish(p, result)) /\ Finish(p, result).open = FALSE
         /\ p.open => Blanked(Finish(p, result))
         /\ Finish(p, result) = p \/ Blanked(Finish(p, result))
  <1>1. CASE p.open
    BY <1>1, BlankGood DEF Finish
  <1>2. CASE ~p.open
    <2>1. p.open = FALSE
      BY <1>2 DEF Good, IsPanel, PanelState
    <2> QED
      BY <1>2, <2>1 DEF Finish
  <1> QED
    BY <1>1, <1>2

LEMMA ClearGood ==
  ASSUME NEW p, Good(p)
  PROVE  /\ Good(Clear(p))
         /\ p.hold = None => Blanked(Clear(p))
         /\ Clear(p).kind = p.kind /\ Clear(p).open = p.open /\ Clear(p).hold = p.hold
         /\ Clear(p).label = "" /\ Clear(p).readout = FALSE /\ Clear(p).boxShown = FALSE
  <1> DEFINE s == IF p.suggestion = None THEN p.suggestion
                  ELSE [p.suggestion EXCEPT !.acknowledged = FALSE]
             q == Clear(p)
  <1>1. p \in PanelState
    BY DEF Good, IsPanel
  <1>2. s \in {None} \cup Suggested /\ (s = None <=> p.suggestion = None)
    <2>1. p.suggestion \in {None} \cup Suggested
      BY <1>1 DEF PanelState
    <2>2. CASE p.suggestion \in Suggested
      BY <2>2, PanelAssumption DEF Suggested
    <2> QED
      BY <2>1, <2>2
  <1> HIDE DEF s
  <1>3. q = [p EXCEPT !.suspended = TRUE, !.label = "", !.readout = FALSE, !.boxShown = FALSE,
                      !.arm = None, !.row = "wait", !.suggestion = s]
    BY <1>1 DEF Clear, s, PanelState
  <1> HIDE DEF q
  <1>4. q \in PanelState
    BY <1>1, <1>2, <1>3 DEF PanelState, Rows
  <1>5. /\ q.kind = p.kind /\ q.open = p.open /\ q.hold = p.hold /\ q.boxes = p.boxes
        /\ q.live = p.live /\ q.line = p.line /\ q.suggestion = s /\ q.row = "wait"
        /\ q.label = "" /\ q.readout = FALSE /\ q.boxShown = FALSE
    BY <1>1, <1>3 DEF PanelState
  <1>6. IsPanel(q)
    BY <1>4, <1>5 DEF IsPanel, Good
  <1>7. Good(q)
    BY <1>2, <1>5, <1>6, AdviceKept
  <1> QED
    BY <1>5, <1>7 DEF Blanked, q

\* A rule that keeps the boxes of a panel keeps it a panel.
LEMMA StillPanel ==
  ASSUME NEW p, IsPanel(p), NEW q, q \in PanelState, q.kind = p.kind, q.boxes = p.boxes
  PROVE  IsPanel(q)
  BY DEF IsPanel

LEMMA GoodState ==
  ASSUME NEW p, Good(p)
  PROVE  p \in PanelState /\ IsPanel(p)
  BY DEF Good, IsPanel

LEMMA NormalRowIsRow ==
  ASSUME NEW p
  PROVE  NormalRow(p) \in Rows /\ NormalRow(p) # "error"
  BY DEF NormalRow, Rows

LEMMA RestoreRowGood ==
  ASSUME NEW p, Good(p), p.suspended = FALSE
  PROVE  /\ Good(RestoreRow(p)) /\ Stays(p, RestoreRow(p))
         /\ RestoreRow(p).kind = p.kind /\ RestoreRow(p).hold = p.hold
         /\ Blanked(p) => Blanked(RestoreRow(p))
         /\ RestoreRow(p).extensions = p.extensions
  <1> DEFINE row == IF p.last THEN "error" ELSE NormalRow(p)
  <1>1. p \in PanelState /\ IsPanel(p)
    BY GoodState
  <1>2. row \in Rows
    BY NormalRowIsRow DEF Rows
  <1>3. PICK q : q = [p EXCEPT !.error = p.last, !.row = row]
    OBVIOUS
  <1>4. RestoreRow(p) = q
    BY <1>3 DEF RestoreRow
  <1>5. row = "error" \/ row = NormalRow(p)
    OBVIOUS
  <1> HIDE DEF row
  <1>6. q \in PanelState
    BY <1>1, <1>2, <1>3 DEF PanelState
  <1>7. /\ q.kind = p.kind /\ q.boxes = p.boxes /\ q.live = p.live /\ q.line = p.line
        /\ q.suggestion = p.suggestion /\ q.row = row /\ q.extensions = p.extensions
        /\ q.open = p.open /\ q.suspended = p.suspended /\ q.allowed = p.allowed
        /\ q.label = p.label /\ q.readout = p.readout /\ q.hold = p.hold /\ q.boxShown = p.boxShown
    BY <1>1, <1>3 DEF PanelState
  <1>8. q.row # "line" \/ q.row = NormalRow(q)
    BY <1>5, <1>7 DEF NormalRow
  <1>9. Good(q)
    BY <1>1, <1>6, <1>7, <1>8, StillPanel, AdviceKept
  <1> QED
    BY <1>4, <1>7, <1>9 DEF Stays, Blanked

LEMMA RestoreGood ==
  ASSUME NEW p, Good(p)
  PROVE  /\ Good(Restore(p)) /\ Restore(p).kind = p.kind /\ Restore(p).hold = p.hold
         /\ Restore(p).open = p.open /\ Restore(p).suspended = FALSE
         /\ Restore(p).allowed = p.allowed /\ Restore(p).extensions = p.extensions
  <1>1. p \in PanelState /\ IsPanel(p)
    BY GoodState
  <1>2. ShownLabel(p) \in {"", "kit", "typed"} \cup Suggestions
    <2>1. p.label \in {"", "kit", "typed"} \cup Suggestions /\ p.suggestion \in {None} \cup Suggested
      BY <1>1 DEF PanelState
    <2>2. p.suggestion \in Suggested => p.suggestion.text \in Suggestions
      BY DEF Suggested
    <2> QED
      BY <2>1, <2>2 DEF ShownLabel
  <1>3. PICK r : r = [p EXCEPT !.suspended = FALSE, !.label = ShownLabel(p)]
    OBVIOUS
  <1>4. r \in PanelState
    BY <1>1, <1>2, <1>3 DEF PanelState
  <1>a. PICK t : t = [r EXCEPT !.boxShown = p.kind = "Kit"]
    OBVIOUS
  <1>b. t \in PanelState
    <2>1. t = [r EXCEPT !.boxShown = TRUE] \/ t = [r EXCEPT !.boxShown = FALSE]
      BY <1>a, Zenon
    <2>2. ASSUME t = [r EXCEPT !.boxShown = TRUE] PROVE t \in PanelState
      BY <1>4, <2>2 DEF PanelState
    <2>3. ASSUME t = [r EXCEPT !.boxShown = FALSE] PROVE t \in PanelState
      BY <1>4, <2>3 DEF PanelState
    <2> QED
      BY <2>1, <2>2, <2>3
  <1>c. PICK q : q = [t EXCEPT !.readout = p.kind = "Timed" /\ p.left > 0]
    OBVIOUS
  <1>d. q \in PanelState
    <2>1. q = [t EXCEPT !.readout = TRUE] \/ q = [t EXCEPT !.readout = FALSE]
      BY <1>c, Zenon
    <2>2. ASSUME q = [t EXCEPT !.readout = TRUE] PROVE q \in PanelState
      BY <1>b, <2>2 DEF PanelState
    <2>3. ASSUME q = [t EXCEPT !.readout = FALSE] PROVE q \in PanelState
      BY <1>b, <2>3 DEF PanelState
    <2> QED
      BY <2>1, <2>2, <2>3
  <1>5. Restore(p) = RestoreRow(q)
    BY <1>3, <1>a, <1>c DEF Restore
  <1>6. /\ q.kind = p.kind /\ q.boxes = p.boxes /\ q.live = p.live /\ q.line = p.line
        /\ q.suggestion = p.suggestion /\ q.row = p.row /\ q.extensions = p.extensions
        /\ q.open = p.open /\ q.suspended = FALSE /\ q.allowed = p.allowed /\ q.hold = p.hold
    <2>1. /\ r.kind = p.kind /\ r.boxes = p.boxes /\ r.live = p.live /\ r.line = p.line
          /\ r.suggestion = p.suggestion /\ r.row = p.row /\ r.extensions = p.extensions
          /\ r.open = p.open /\ r.suspended = FALSE /\ r.allowed = p.allowed /\ r.hold = p.hold
      BY <1>1, <1>3 DEF PanelState
    <2>2. /\ t.kind = r.kind /\ t.boxes = r.boxes /\ t.live = r.live /\ t.line = r.line
          /\ t.suggestion = r.suggestion /\ t.row = r.row /\ t.extensions = r.extensions
          /\ t.open = r.open /\ t.suspended = r.suspended /\ t.allowed = r.allowed /\ t.hold = r.hold
      BY <1>4, <1>a DEF PanelState
    <2>3. /\ q.kind = t.kind /\ q.boxes = t.boxes /\ q.live = t.live /\ q.line = t.line
          /\ q.suggestion = t.suggestion /\ q.row = t.row /\ q.extensions = t.extensions
          /\ q.open = t.open /\ q.suspended = t.suspended /\ q.allowed = t.allowed /\ q.hold = t.hold
      BY <1>b, <1>c DEF PanelState
    <2> QED
      BY <2>1, <2>2, <2>3
  <1>8. Good(q)
    <2>1. IsPanel(q)
      BY <1>1, <1>d, <1>6, StillPanel
    <2>2. RowOK(q)
      BY <1>6 DEF Good, RowOK
    <2>3. New(q) = New(p)
      BY <1>6 DEF New
    <2>4. LineOK(q) /\ ScoreOK(q)
      BY <1>6, <2>3 DEF Good, LineOK, ScoreOK
    <2> QED
      BY <2>1, <2>2, <2>4 DEF Good
  <1> QED
    BY <1>5, <1>6, <1>8, RestoreRowGood DEF Stays

-----------------------------------------------------------------------------
(* What a check leaves *)

\* A panel that was given a clear answer.
Passed(p, q) ==
  /\ Good(q) /\ q.open /\ q.suspended = FALSE /\ q.allowed = 0
  /\ q.kind = p.kind /\ q.hold = p.hold /\ q.extensions = p.extensions

LEMMA GraceIsTime == Grace \in Nat /\ 0 < Grace /\ 0 # None /\ 0 \in 0..(Grace + 1)
  <1>1. Grace \in Nat \ {0} /\ None \notin Nat
    BY PanelAssumption
  <1> QED
    BY <1>1

LEMMA PassedPermitted ==
  ASSUME NEW p, NEW q, Passed(p, q)
  PROVE  Permitted(q) /\ Discreet(q) /\ Good(q)
  BY GraceIsTime DEF Passed, Permitted, Discreet

LEMMA ClearAnswer ==
  ASSUME NEW p, Good(p), p.open, NEW cleared
  PROVE  Passed(p, Apply(p, "Allowed", cleared))
  <1>1. PICK q : q = [p EXCEPT !.allowed = 0]
    OBVIOUS
  <1>2. p \in PanelState /\ IsPanel(p)
    BY GoodState
  <1>3. q \in PanelState
    BY <1>1, <1>2, GraceIsTime DEF PanelState
  <1>4. /\ q.kind = p.kind /\ q.boxes = p.boxes /\ q.live = p.live /\ q.line = p.line
        /\ q.suggestion = p.suggestion /\ q.row = p.row /\ q.extensions = p.extensions
        /\ q.open = p.open /\ q.suspended = p.suspended /\ q.allowed = 0 /\ q.hold = p.hold
    BY <1>1, <1>2 DEF PanelState
  <1>5. Good(q)
    BY <1>2, <1>3, <1>4, StillPanel, AdviceKept
  <1>6. p.suspended \in BOOLEAN
    BY <1>2 DEF PanelState
  <1>7. Apply(p, "Allowed", cleared) = IF p.suspended THEN Restore(q) ELSE q
    BY <1>1 DEF Apply, Update
  <1> QED
    BY <1>4, <1>5, <1>6, <1>7, RestoreGood DEF Passed

\* Any other answer closes the panel, blanks it, or is ridden out for a moment.
LEMMA UnclearAnswer ==
  ASSUME NEW p, Good(p), p.open, NEW answer \in Unclear, NEW cleared, Good(cleared), Blanked(cleared)
  PROVE  LET q == Apply(p, answer, cleared)
         IN Good(q) /\ (Blanked(q) \/ (q = p /\ Permitted(p)))
  <1> DEFINE q == Apply(p, answer, cleared)
  <1>1. answer \in {"Retry", "Denied"}
    BY DEF Unclear, Answers
  <1>2. q = Finish(p, "interrupted") \/ q = cleared \/ (q = p /\ Permitted(p))
    BY <1>1 DEF Apply, Update, Permitted
  <1> QED
    BY <1>2, FinishGood

LEMMA EndHoldGood ==
  ASSUME NEW p, Good(p)
  PROVE  LET q == EndHold(p)
         IN /\ Good(q) /\ Stays(p, q) /\ q.kind = p.kind /\ q.hold = None
            /\ q.label = p.label /\ q.readout = p.readout /\ q.boxShown = p.boxShown
  <1>1. PICK q : q = EndHold(p)
    OBVIOUS
  <1>2. p \in PanelState /\ IsPanel(p)
    BY GoodState
  <1>3. q \in PanelState
    BY <1>1, <1>2 DEF PanelState, EndHold
  <1>4. /\ q.kind = p.kind /\ q.boxes = p.boxes /\ q.live = p.live /\ q.line = p.line
        /\ q.suggestion = p.suggestion /\ q.row = p.row
        /\ q.open = p.open /\ q.suspended = p.suspended /\ q.allowed = p.allowed /\ q.hold = None
        /\ q.label = p.label /\ q.readout = p.readout /\ q.boxShown = p.boxShown
    BY <1>1, <1>2 DEF PanelState, EndHold
  <1>5. Good(q)
    BY <1>2, <1>3, <1>4, StillPanel, AdviceKept
  <1> QED
    BY <1>1, <1>4, <1>5 DEF Stays

LEMMA HideTypedGood ==
  ASSUME NEW p, Good(p)
  PROVE  LET q == HideTyped(p)
         IN /\ Good(q) /\ Stays(p, q) /\ q.kind = p.kind /\ q.hold = None
            /\ q.label \in {"", p.label} /\ q.readout = p.readout /\ q.boxShown = p.boxShown
  <1> DEFINE label == IF p.kind = "Recovery" THEN "" ELSE p.label
  <1>1. PICK q : q = [p EXCEPT !.ticked = None, !.label = label]
    OBVIOUS
  <1>2. p \in PanelState /\ IsPanel(p)
    BY GoodState
  <1>3. label \in {"", "kit", "typed"} \cup Suggestions /\ label \in {"", p.label}
    BY <1>2 DEF PanelState
  <1>4. HideTyped(p) = EndHold(q)
    BY <1>1, <1>2 DEF HideTyped, PanelState
  <1> HIDE DEF label
  <1>5. q \in PanelState
    BY <1>1, <1>2, <1>3 DEF PanelState
  <1>6. /\ q.kind = p.kind /\ q.boxes = p.boxes /\ q.live = p.live /\ q.line = p.line
        /\ q.suggestion = p.suggestion /\ q.row = p.row
        /\ q.open = p.open /\ q.suspended = p.suspended /\ q.allowed = p.allowed
        /\ q.label = label /\ q.readout = p.readout /\ q.boxShown = p.boxShown
    BY <1>1, <1>2 DEF PanelState
  <1>7. Good(q)
    BY <1>2, <1>5, <1>6, StillPanel, AdviceKept
  <1>8. PICK r : r = HideTyped(p)
    OBVIOUS
  <1>9. /\ Good(r) /\ Stays(q, r) /\ r.kind = q.kind /\ r.hold = None
        /\ r.label = q.label /\ r.readout = q.readout /\ r.boxShown = q.boxShown
    BY <1>4, <1>7, <1>8, EndHoldGood
  <1>10. r.label \in {"", p.label}
    BY <1>3, <1>6, <1>9
  <1>11. Stays(p, r) /\ r.kind = p.kind /\ r.readout = p.readout /\ r.boxShown = p.boxShown
    BY <1>6, <1>9 DEF Stays
  <1> QED
    BY <1>8, <1>9, <1>10, <1>11

-----------------------------------------------------------------------------
(* The two presses that cancel a Recovery Kit, Continue and More time *)

\* Rules that change nothing the advice or the screen is about.
LEMMA KeptIfSame ==
  ASSUME NEW p, Good(p), NEW q \in PanelState, SameScreen(p, q),
         q.kind = p.kind, q.boxes = p.boxes, q.live = p.live, q.line = p.line,
         q.suggestion = None <=> p.suggestion = None,
         q.row # "line" \/ q.row = p.row
  PROVE  Keeps(p, q)
  <1>1. IsPanel(q)
    BY StillPanel DEF Good
  <1>2. Good(q)
    BY <1>1, AdviceKept DEF SameScreen, Stays
  <1> QED
    BY <1>2, QuietIfSame DEF Keeps

LEMMA KeptIfFinished ==
  ASSUME NEW p, Good(p), p.open, NEW result \in {"accepted", "cancelled", "interrupted"}
  PROVE  Keeps(p, Finish(p, result))
  BY FinishGood DEF Keeps, Quiet

LEMMA ItselfKept ==
  ASSUME NEW p, Good(p)
  PROVE  Keeps(p, p)
  BY DEF Keeps, Quiet, Stays

LEMMA KeptTwice ==
  ASSUME NEW p, NEW q, NEW r, Keeps(p, q), Keeps(q, r)
  PROVE  Keeps(p, r)
  BY QuietTwice DEF Keeps

LEMMA CancelKept ==
  ASSUME NEW p, Good(p), NEW key
  PROVE  Keeps(p, OwnerCancelKit(p, key))
  <1>1. CASE ~(p.open /\ ~p.suspended)
    BY <1>1, ItselfKept DEF OwnerCancelKit
  <1>2. CASE p.open /\ ~p.suspended
    <2>1. PICK q : q = [p EXCEPT !.arm = 0, !.row = "armed"]
      OBVIOUS
    <2>2. p \in PanelState
      BY GoodState
    <2>3. q \in PanelState
      <3>1. 0 \in 0..(ArmWindow + 1)
        <4>1. ArmWindow \in Nat
          BY PanelAssumption
        <4> QED
          BY <4>1
      <3> QED
        BY <2>1, <2>2, <3>1 DEF PanelState, Rows
    <2>4. /\ SameScreen(p, q) /\ q.kind = p.kind /\ q.boxes = p.boxes /\ q.live = p.live
          /\ q.line = p.line /\ q.suggestion = p.suggestion /\ q.row = "armed"
      BY <2>1, <2>2 DEF PanelState, SameScreen, Stays
    <2>5. Keeps(p, q)
      BY <2>3, <2>4, KeptIfSame
    <2>6. OwnerCancelKit(p, key) \in {q, p, Finish(p, "cancelled")}
      BY <1>2, <2>1 DEF OwnerCancelKit, Press
    <2> QED
      BY <1>2, <2>5, <2>6, ItselfKept, KeptIfFinished
  <1> QED
    BY <1>1, <1>2

LEMMA Disarming ==
  ASSUME NEW p, Good(p), NEW q, q = [p EXCEPT !.arm = None]
  PROVE  Keeps(p, q) /\ q.kind = p.kind /\ Stays(p, q) /\ q.suspended = p.suspended
  <1>1. p \in PanelState
    BY GoodState
  <1>2. q \in PanelState
    BY <1>1 DEF PanelState
  <1>3. /\ SameScreen(p, q) /\ q.kind = p.kind /\ q.boxes = p.boxes /\ q.live = p.live
        /\ q.line = p.line /\ q.suggestion = p.suggestion /\ q.row = p.row
    BY <1>1 DEF PanelState, SameScreen, Stays
  <1> QED
    BY <1>2, <1>3, KeptIfSame DEF SameScreen, Stays

LEMMA ExpireArmKept ==
  ASSUME NEW p, Good(p), p.suspended = FALSE
  PROVE  Keeps(p, ExpireArm(p)) /\ Stays(p, ExpireArm(p))
  <1>1. PICK q : q = [p EXCEPT !.arm = None]
    OBVIOUS
  <1>2. Keeps(p, q) /\ Stays(p, q) /\ q.suspended = FALSE
    BY <1>1, Disarming
  <1>3. PICK r : r = RestoreRow(q)
    OBVIOUS
  <1>4. Good(r) /\ Stays(q, r) /\ r.hold = q.hold /\ (Blanked(q) => Blanked(r))
    BY <1>2, <1>3, RestoreRowGood DEF Keeps
  <1>5. Keeps(q, r)
    BY <1>4 DEF Keeps, Quiet
  <1>6. ExpireArm(p) \in {p, r}
    BY <1>1, <1>3 DEF ExpireArm
  <1>7. Keeps(p, r)
    BY <1>2, <1>5, KeptTwice
  <1>8. Stays(p, r)
    BY <1>2, <1>4 DEF Stays
  <1>9. Keeps(p, p) /\ Stays(p, p)
    BY ItselfKept DEF Stays
  <1> QED
    BY <1>6, <1>7, <1>8, <1>9

LEMMA RefuseKept ==
  ASSUME NEW p, Good(p), NEW refusal
  PROVE  Keeps(p, Refuse(p, refusal))
  <1>1. PICK S : S = Cleared(refusal, p.kind)
    OBVIOUS
  <1>2. p \in PanelState /\ IsPanel(p)
    BY GoodState
  <1>3. PICK q : q = [p EXCEPT !.error = TRUE, !.last = TRUE, !.row = "error",
                               !.line = IF S = {} THEN @ ELSE None,
                               !.lastEdited = IF S = {} THEN @ ELSE None]
    OBVIOUS
  <1>4. Refuse(p, refusal) = EmptyBoxes(q, S)
    BY <1>1, <1>3 DEF Refuse
  <1>5. q \in PanelState
    <2>1. PICK line : line = IF S = {} THEN p.line ELSE None
      OBVIOUS
    <2>2. PICK edited : edited = IF S = {} THEN p.lastEdited ELSE None
      OBVIOUS
    <2>3. line \in {None} \cup Line /\ edited \in {None, "new", "confirm"}
      BY <1>2, <2>1, <2>2 DEF PanelState
    <2>4. q = [p EXCEPT !.error = TRUE, !.last = TRUE, !.row = "error", !.line = line,
                        !.lastEdited = edited]
      BY <1>2, <1>3, <2>1, <2>2 DEF PanelState
    <2> QED
      BY <1>2, <2>3, <2>4 DEF PanelState, Rows
  <1>6. /\ SameScreen(p, q) /\ q.kind = p.kind /\ q.boxes = p.boxes /\ q.live = p.live
        /\ q.line = (IF S = {} THEN p.line ELSE None) /\ q.suggestion = p.suggestion /\ q.row = "error"
    BY <1>2, <1>3 DEF PanelState, SameScreen, Stays
  <1>7. IsPanel(q)
    BY <1>2, <1>5, <1>6, StillPanel
  <1>8. PICK e : e = EmptyBoxes(q, S)
    OBVIOUS
  <1>9. /\ IsPanel(e) /\ SameButBoxes(q, e)
        /\ \A b \in Boxes(q.kind) : /\ b \in S => e.boxes[b] = ""
                                    /\ b \notin S => e.boxes[b] = q.boxes[b]
    BY <1>7, <1>8, EmptyBoxesIs
  <1>10. SameScreen(p, e)
    BY <1>6, <1>9 DEF SameScreen, SameButBoxes, Stays
  <1>11. RowOK(e)
    BY <1>6, <1>9 DEF RowOK, SameButBoxes
  <1>12. e.kind \in NewPasswords => New(e) \in {"", New(p)}
    BY <1>6, <1>9, NewBoxes DEF New, SameButBoxes
  <1>13. ScoreOK(e)
    BY <1>6, <1>9, <1>12 DEF ScoreOK, SameButBoxes, Good
  <1>14. LineOK(e)
    <2>1. CASE S = {}
      <3>1. p.line # None => New(e) = New(p) /\ e.boxes["confirm"] = p.boxes["confirm"]
        BY <1>6, <1>9, <2>1, NewBoxes DEF New, SameButBoxes, Good, LineOK
      <3> QED
        BY <1>6, <1>9, <2>1, <3>1 DEF LineOK, SameButBoxes, Good
    <2>2. CASE S # {}
      BY <1>6, <1>9, <2>2 DEF LineOK, SameButBoxes
    <2> QED
      BY <2>1, <2>2
  <1> QED
    BY <1>4, <1>8, <1>9, <1>10, <1>11, <1>13, <1>14, QuietIfSame DEF Good, Keeps

LEMMA SubmitKept ==
  ASSUME NEW p, Good(p), p.open
  PROVE  Keeps(p, SubmitPassed(p))
  <1>1. PICK q : q = [p EXCEPT !.arm = None]
    OBVIOUS
  <1>2. Keeps(p, q) /\ q.open
    BY <1>1, Disarming DEF Stays
  <1>3. Good(q) /\ q \in PanelState
    BY <1>2, GoodState DEF Keeps
  <1>4. Keeps(q, Refuse(q, Reply(q)))
    BY <1>3, RefuseKept
  <1>5. Keeps(q, Finish(q, "accepted")) /\ Keeps(p, Finish(p, "cancelled"))
    BY <1>2, <1>3, KeptIfFinished
  <1>6. PICK r : r = [q EXCEPT !.suggestion.acknowledged = TRUE, !.row = "ask"]
    OBVIOUS
  <1>7. ASSUME q.suggestion # None
        PROVE  Keeps(q, r)
    <2>1. q.suggestion \in Suggested
      BY <1>3, <1>7 DEF PanelState
    <2>2. PICK s : s = [q.suggestion EXCEPT !.acknowledged = TRUE]
      OBVIOUS
    <2>3. s \in Suggested /\ s # None
      BY <2>1, <2>2, PanelAssumption DEF Suggested
    <2>4. r = [q EXCEPT !.suggestion = s, !.row = "ask"]
      BY <1>3, <1>6, <2>2 DEF PanelState
    <2>5. r \in PanelState
      BY <1>3, <2>3, <2>4 DEF PanelState, Rows
    <2>6. /\ SameScreen(q, r) /\ r.kind = q.kind /\ r.boxes = q.boxes /\ r.live = q.live
          /\ r.line = q.line /\ r.suggestion = s /\ r.row = "ask"
      BY <1>3, <2>4 DEF PanelState, SameScreen, Stays
    <2> QED
      BY <1>3, <1>7, <2>3, <2>5, <2>6, KeptIfSame
  <1>8. \/ SubmitPassed(p) = Finish(p, "cancelled")
        \/ SubmitPassed(p) = Refuse(q, Reply(q))
        \/ SubmitPassed(p) = r /\ q.suggestion # None
        \/ SubmitPassed(p) = Finish(q, "accepted")
    BY <1>1, <1>6 DEF SubmitPassed
  <1> QED
    BY <1>2, <1>4, <1>5, <1>7, <1>8, KeptTwice

LEMMA ExtendedKept ==
  ASSUME NEW p, Good(p), p.extensions < 3
  PROVE  Keeps(p, Extended(p)) /\ Extended(p).open = p.open
  <1>1. PICK q : q = Extended(p)
    OBVIOUS
  <1>2. p \in PanelState
    BY GoodState
  <1>3. p.extensions + 1 \in 0..3 /\ ReadoutTime \in 0..ReadoutTime
    <2>1. ReadoutTime \in Nat
      BY PanelAssumption
    <2>2. p.extensions \in 0..3
      BY <1>2 DEF PanelState
    <2> QED
      BY <2>1, <2>2
  <1>4. q \in PanelState
    BY <1>1, <1>2, <1>3 DEF PanelState, Extended
  <1>5. /\ SameScreen(p, q) /\ q.kind = p.kind /\ q.boxes = p.boxes /\ q.live = p.live
        /\ q.line = p.line /\ q.suggestion = p.suggestion /\ q.row = p.row
    BY <1>1, <1>2 DEF PanelState, SameScreen, Stays, Extended
  <1> QED
    BY <1>1, <1>4, <1>5, KeptIfSame DEF SameScreen, Stays

LEMMA TimedOutKept ==
  ASSUME NEW p, Good(p), p.open
  PROVE  Keeps(p, TimedOut(p))
  BY ItselfKept, KeptIfFinished DEF TimedOut

-----------------------------------------------------------------------------
(* Typing *)

\* An edit of p, before its advice is brought up to date.
Typing(p, k, box) ==
  /\ IsPanel(k) /\ RowOK(k)
  /\ k.kind = p.kind /\ k.live = p.live /\ k.line = p.line /\ k.suggestion = p.suggestion
  /\ \A b \in Boxes(p.kind) \ {box} : k.boxes[b] = p.boxes[b]

LEMMA TypedText ==
  ASSUME NEW p, Good(p), NEW box \in Boxes(p.kind), NEW text \in Texts,
         NEW q, q = [p EXCEPT !.boxes[box] = text]
  PROVE  Typing(p, q, box) /\ SameScreen(p, q) /\ q.ticked = p.ticked
  <1>1. p \in PanelState /\ IsPanel(p)
    BY GoodState
  <1>2. PICK f : f = [p.boxes EXCEPT ![box] = text]
    OBVIOUS
  <1>3. p.boxes \in [Boxes(p.kind) -> Texts]
    BY <1>1 DEF IsPanel
  <1>4. f \in [Boxes(p.kind) -> Texts] /\ \A b \in Boxes(p.kind) \ {box} : f[b] = p.boxes[b]
    BY <1>2, <1>3
  <1>5. q = [p EXCEPT !.boxes = f]
    BY <1>1, <1>2 DEF PanelState
  <1>6. IsPanel(q) /\ q.boxes = f /\ SameButBoxes(p, q)
    BY <1>1, <1>4, <1>5, BoxesSet
  <1>7. q.ticked = p.ticked
    BY <1>1, <1>5 DEF PanelState
  <1>8. RowOK(q)
    BY <1>6 DEF RowOK, SameButBoxes, Good
  <1>9. SameScreen(p, q)
    BY <1>6 DEF SameScreen, SameButBoxes, Stays
  <1> QED
    BY <1>4, <1>6, <1>7, <1>8, <1>9 DEF Typing, SameButBoxes

LEMMA DisarmedTyping ==
  ASSUME NEW p, NEW box, NEW k, Typing(p, k, box)
  PROVE  Typing(p, Disarmed(k), box) /\ SameScreen(k, Disarmed(k)) /\ Disarmed(k).ticked = k.ticked
  <1>1. k \in PanelState
    BY DEF Typing, IsPanel
  <1>2. PICK q : q = IF ~k.suspended /\ (k.error \/ k.arm # None)
                     THEN [k EXCEPT !.error = FALSE, !.last = FALSE] ELSE k
    OBVIOUS
  <1>3. PICK row : row = IF ~k.suspended /\ (k.error \/ k.arm # None) THEN NormalRow(q) ELSE q.row
    OBVIOUS
  <1>4. PICK d : d = [q EXCEPT !.arm = None, !.row = row]
    OBVIOUS
  <1>5. q \in PanelState
    <2>1. ASSUME q = [k EXCEPT !.error = FALSE, !.last = FALSE] PROVE q \in PanelState
      BY <1>1, <2>1 DEF PanelState
    <2> QED
      BY <1>1, <1>2, <2>1
  <1>6. /\ SameScreen(k, q) /\ q.kind = k.kind /\ q.boxes = k.boxes /\ q.live = k.live
        /\ q.line = k.line /\ q.suggestion = k.suggestion /\ q.row = k.row /\ q.ticked = k.ticked
    BY <1>1, <1>2 DEF PanelState, SameScreen, Stays
  <1>7. d = Disarmed(k)
    BY <1>2, <1>3, <1>4, <1>5 DEF Disarmed, PanelState
  <1>8. d \in PanelState
    <2>1. row \in Rows
      BY <1>3, <1>5, NormalRowIsRow DEF PanelState
    <2> QED
      BY <1>4, <1>5, <2>1 DEF PanelState
  <1>9. /\ SameScreen(q, d) /\ d.kind = q.kind /\ d.boxes = q.boxes /\ d.live = q.live
        /\ d.line = q.line /\ d.suggestion = q.suggestion /\ d.row = row /\ d.ticked = q.ticked
    BY <1>4, <1>5 DEF PanelState, SameScreen, Stays
  <1>10. SameScreen(k, d)
    BY <1>6, <1>9 DEF SameScreen, Stays
  <1>11. RowOK(d)
    BY <1>3, <1>6, <1>9 DEF RowOK, NormalRow, Typing, SameScreen, Stays
  <1>12. IsPanel(d)
    BY <1>6, <1>8, <1>9 DEF IsPanel, Typing
  <1> QED
    BY <1>6, <1>7, <1>9, <1>10, <1>11, <1>12 DEF Typing

LEMMA BoxEditedIs ==
  ASSUME NEW l \in Live, NEW box, NEW m, m = BoxEdited(l, box)
  PROVE  /\ m \in Live /\ m.edited # None
         /\ box = "confirm" => m.strength = l.strength /\ m.job = l.job
         /\ box # "confirm" => m.strength = None /\ (m.job # None => m.job.fresh = FALSE)
  <1>1. 0 # None /\ 0 \in 0..LivePause
    <2>1. None \notin Nat /\ LivePause \in Nat
      BY PanelAssumption
    <2> QED
      BY <2>1
  <1>2. CASE box = "confirm"
    BY <1>1, <1>2 DEF BoxEdited, Live
  <1>3. CASE box # "confirm"
    <2>1. PICK job : job = IF l.job = None THEN l.job ELSE [l.job EXCEPT !.fresh = FALSE]
      OBVIOUS
    <2>2. job \in {None} \cup Job /\ (job # None => job.fresh = FALSE)
      BY <2>1 DEF Live, Job
    <2>3. m = [l EXCEPT !.edited = 0, !.strength = None, !.job = job]
      BY <1>3, <2>1 DEF BoxEdited, Edited, Live
    <2> QED
      BY <1>1, <1>3, <2>2, <2>3 DEF Live
  <1> QED
    BY <1>2, <1>3

LEMMA BoxNames ==
  ASSUME NEW kind \in NewPasswords
  PROVE  Boxes(kind) \subseteq {"current", "new", "confirm"}
  BY DEF NewPasswords, Boxes, Reveals

LEMMA EditedKept ==
  ASSUME NEW p, Good(p), NEW box \in Boxes(p.kind), NEW k, Typing(p, k, box)
  PROVE  Good(EditedBox(k, box)) /\ Quiet(k, EditedBox(k, box))
         /\ EditedBox(k, box).kind = p.kind /\ Stays(k, EditedBox(k, box))
         /\ EditedBox(k, box).boxShown = k.boxShown /\ EditedBox(k, box).readout = k.readout
  <1>1. k \in PanelState /\ IsPanel(k)
    BY DEF Typing, IsPanel
  <1>2. CASE k.kind \notin NewPasswords \/ box = "current"
    <2>1. EditedBox(k, box) = k
      BY <1>2 DEF EditedBox
    <2>2. k.kind \in NewPasswords =>
            New(k) = New(p) /\ k.boxes["confirm"] = p.boxes["confirm"]
      BY <1>2, NewBoxes DEF Typing, New
    <2>3. LineOK(k)
      BY <2>2 DEF LineOK, Good, Typing
    <2>4. ScoreOK(k)
      <3>1. ScoreOK(p) /\ k.kind = p.kind /\ k.live = p.live /\ k.suggestion = p.suggestion
        BY DEF Good, Typing
      <3> QED
        BY <2>2, <3>1 DEF ScoreOK
    <2>5. Good(k) /\ k.kind = p.kind
      BY <1>1, <2>3, <2>4 DEF Good, Typing
    <2>6. Quiet(k, k) /\ Stays(k, k)
      BY DEF Quiet, Stays
    <2> QED
      BY <2>1, <2>5, <2>6
  <1>3. CASE k.kind \in NewPasswords /\ box # "current" /\ k.suggestion = None
    <2>1. box \in {"new", "confirm"}
      BY <1>3, BoxNames DEF Typing
    <2>l. PICK l : l = k.live
      OBVIOUS
    <2>2. PICK m : m = BoxEdited(l, box)
      OBVIOUS
    <2>3. l \in Live
      BY <1>1, <2>l DEF PanelState
    <2>4. /\ m \in Live /\ m.edited # None
          /\ box = "confirm" => m.strength = l.strength /\ m.job = l.job
          /\ box # "confirm" => m.strength = None /\ (m.job # None => m.job.fresh = FALSE)
      BY <2>2, <2>3, BoxEditedIs
    <2>5. PICK q : q = [k EXCEPT !.live = m, !.lastEdited = box]
      OBVIOUS
    <2>6. EditedBox(k, box) = q
      BY <1>1, <1>3, <2>l, <2>2, <2>5 DEF EditedBox, PanelState
    <2>7. q \in PanelState
      BY <1>1, <2>1, <2>4, <2>5 DEF PanelState
    <2>8. /\ SameScreen(k, q) /\ q.kind = k.kind /\ q.boxes = k.boxes /\ q.live = m
          /\ q.line = k.line /\ q.suggestion = k.suggestion /\ q.row = k.row
      BY <1>1, <2>5 DEF PanelState, SameScreen, Stays
    <2>9. IsPanel(q)
      BY <1>1, <2>7, <2>8, StillPanel
    <2>10. RowOK(q)
      BY <2>8 DEF RowOK, Typing, SameScreen, Stays
    <2>11. LineOK(q)
      BY <1>3, <2>4, <2>8 DEF LineOK
    <2>12. box = "confirm" => New(q) = New(p)
      BY <1>3, <2>8, NewBoxes DEF New, Typing
    <2>13. ScoreOK(q)
      BY <1>3, <2>l, <2>4, <2>8, <2>12 DEF ScoreOK, Good, Typing
    <2>14. Good(q)
      BY <2>9, <2>10, <2>11, <2>13 DEF Good
    <2> QED
      BY <2>6, <2>8, <2>14, QuietIfSame DEF SameScreen, Typing
  <1>4. CASE k.kind \in NewPasswords /\ box # "current" /\ k.suggestion # None
    <2>1. PICK row : row = IF k.suspended THEN k.row ELSE "removed"
      OBVIOUS
    <2>2. PICK q : q = [k EXCEPT !.suggestion = None, !.line = None, !.lastEdited = None,
                                 !.error = TRUE, !.label = "", !.row = row]
      OBVIOUS
    <2>3. row \in Rows
      BY <1>1, <2>1 DEF PanelState, Rows
    <2>4. q \in PanelState
      BY <1>1, <2>2, <2>3 DEF PanelState
    <2>5. /\ Stays(k, q) /\ q.label = "" /\ q.readout = k.readout /\ q.hold = k.hold
          /\ q.boxShown = k.boxShown
          /\ q.kind = k.kind /\ q.boxes = k.boxes /\ q.live = k.live
          /\ q.line = None /\ q.suggestion = None /\ q.row = row
      BY <1>1, <2>2 DEF PanelState, Stays
    <2>6. IsPanel(q)
      BY <1>1, <2>4, <2>5, StillPanel
    <2>7. PICK S : S = {"new", "confirm"}
      OBVIOUS
    <2>8. PICK e : e = EmptyBoxes(q, S)
      OBVIOUS
    <2>9. EditedBox(k, box) = e
      BY <1>1, <1>4, <2>1, <2>2, <2>7, <2>8 DEF EditedBox, PanelState
    <2>10. /\ IsPanel(e) /\ SameButBoxes(q, e)
           /\ \A b \in Boxes(q.kind) : b \in S => e.boxes[b] = ""
      BY <2>6, <2>8, EmptyBoxesIs
    <2>11. New(e) = ""
      BY <1>4, <2>5, <2>7, <2>10, NewBoxes DEF New
    <2>12. RowOK(e)
      BY <2>1, <2>5, <2>10 DEF RowOK, SameButBoxes, Typing, Stays
    <2>13. LineOK(e) /\ ScoreOK(e)
      BY <2>5, <2>10, <2>11 DEF LineOK, ScoreOK, SameButBoxes
    <2>14. Good(e)
      BY <2>10, <2>12, <2>13 DEF Good
    <2>15. Stays(k, e) /\ (Blanked(k) => Blanked(e)) /\ e.hold = k.hold
      BY <2>5, <2>10 DEF Stays, SameButBoxes, Blanked
    <2> QED
      BY <2>5, <2>9, <2>10, <2>14, <2>15 DEF Quiet, SameButBoxes, Typing
  <1> QED
    BY <1>2, <1>3, <1>4

-----------------------------------------------------------------------------
(* The advice *)

LEMMA PollIs ==
  ASSUME NEW l \in Live, NEW m, m = Poll(l)
  PROVE  /\ m \in Live /\ m.edited = l.edited
         /\ m.job # None => m.job = l.job
         /\ \/ m.strength = l.strength
            \/ l.job # None /\ l.job.fresh /\ m.strength = l.job.ok
  <1>1. CASE ~Answered(l)
    BY <1>1 DEF Poll
  <1>2. CASE Answered(l) /\ l.job.fresh
    <2>1. l.job \in Job /\ l.job.ok \in BOOLEAN
      BY <1>2 DEF Answered, Live, Job
    <2>2. m = [l EXCEPT !.job = None, !.strength = l.job.ok, !.waiting = FALSE]
      BY <1>2 DEF Poll
    <2>3. PICK ok : ok = l.job.ok
      OBVIOUS
    <2>4. m = [l EXCEPT !.job = None, !.strength = ok, !.waiting = FALSE] /\ ok \in BOOLEAN
      BY <2>1, <2>2, <2>3
    <2>5. m \in Live /\ m.edited = l.edited /\ m.job = None /\ m.strength = ok
      BY <2>4 DEF Live
    <2> QED
      BY <1>2, <2>3, <2>5 DEF Answered
  <1>3. CASE Answered(l) /\ ~l.job.fresh
    <2>1. m = [l EXCEPT !.job = None, !.waiting = FALSE]
      BY <1>3 DEF Poll
    <2> QED
      BY <2>1 DEF Live
  <1> QED
    BY <1>1, <1>2, <1>3

LEMMA ScoreIs ==
  ASSUME NEW l \in Live, NEW new, NEW m, m = Score(l, new)
  PROVE  /\ m \in Live /\ m.edited = l.edited /\ m.strength = l.strength
         /\ m.job = l.job \/ (m.job # None /\ (m.job.ok <=> Acceptable(new)))
  <1>1. CASE l.job # None
    BY <1>1 DEF Score, Live
  <1>2. CASE l.job = None
    <2>1. PICK ok : ok = Acceptable(new)
      OBVIOUS
    <2>2. ok \in BOOLEAN /\ (ok <=> Acceptable(new))
      <3>1. Acceptable(new) \in BOOLEAN
        BY DEF Acceptable
      <3> QED
        BY <2>1, <3>1, Zenon
    <2>3. PICK job : job = [done |-> FALSE, fresh |-> TRUE, ok |-> ok]
      OBVIOUS
    <2>4. job \in Job /\ job.ok = ok
      BY <2>2, <2>3 DEF Job
    <2>5. m = [l EXCEPT !.job = job]
      BY <1>2, <2>1, <2>3 DEF Score
    <2>6. m \in Live /\ m.edited = l.edited /\ m.strength = l.strength /\ m.job = job
      BY <2>4, <2>5 DEF Live
    <2>7. job # None
      BY <2>4, PanelAssumption
    <2> QED
      BY <2>2, <2>4, <2>6, <2>7
  <1> QED
    BY <1>1, <1>2

\* A rule that changes only what is known of the text.
LEMMA LiveSet ==
  ASSUME NEW p, Good(p), NEW m \in Live, NEW q, q = [p EXCEPT !.live = m],
         m.edited = p.live.edited,
         m.job # None => m.job.fresh = p.live.job.fresh /\ m.job.ok = p.live.job.ok /\ p.live.job # None,
         \/ m.strength = p.live.strength
         \/ p.live.job # None /\ p.live.job.fresh /\ m.strength = p.live.job.ok
  PROVE  /\ Keeps(p, q) /\ SameScreen(p, q) /\ q.live = m
         /\ q.kind = p.kind /\ q.boxes = p.boxes /\ q.suggestion = p.suggestion /\ q.error = p.error
  <1>1. p \in PanelState /\ IsPanel(p)
    BY GoodState
  <1>2. q \in PanelState
    BY <1>1 DEF PanelState
  <1>3. /\ SameScreen(p, q) /\ q.kind = p.kind /\ q.boxes = p.boxes /\ q.live = m
        /\ q.line = p.line /\ q.suggestion = p.suggestion /\ q.row = p.row /\ q.error = p.error
    BY <1>1 DEF PanelState, SameScreen, Stays
  <1>4. IsPanel(q)
    BY <1>1, <1>2, <1>3, StillPanel
  <1>5. New(q) = New(p)
    BY <1>3 DEF New
  <1>6. RowOK(q)
    BY <1>3 DEF RowOK, Good, SameScreen, Stays
  <1>7. LineOK(q)
    BY <1>3, <1>5 DEF LineOK, Good
  <1>8. ScoreOK(q)
    <2>1. ScoreOK(p)
      BY DEF Good
    <2> QED
      BY <1>3, <1>5, <2>1 DEF ScoreOK
  <1> QED
    BY <1>3, <1>4, <1>6, <1>7, <1>8, QuietIfSame DEF Good, Keeps

LEMMA MatchIs ==
  ASSUME NEW new, NEW confirm
  PROVE  Match(new, confirm) \in {"", "match", "differ"}
  BY DEF Match

LEMMA VerdictIs ==
  ASSUME NEW l \in Live, NEW new, NEW ok,
         new # "" => (l.strength # None => (l.strength <=> ok))
  PROVE  /\ Verdict(l, new) \in {"short", "checking", "strong", "weak"}
         /\ Verdict(l, new) = "short" <=> new = ""
         /\ Verdict(l, new) \in {"strong", "weak"} => (Verdict(l, new) = "strong" <=> ok)
  BY DEF Verdict

LEMMA DrawKept ==
  ASSUME NEW p, Good(p), MayAdvise(p)
  PROVE  Keeps(p, DrawLine(p)) /\ Stays(p, DrawLine(p))
  <1>1. p \in PanelState /\ IsPanel(p)
    BY GoodState
  <1>2. p.kind \in NewPasswords /\ p.suggestion = None /\ ~p.suspended
    BY DEF MayAdvise
  <1>3. PICK l : l = p.live
    OBVIOUS
  <1>4. PICK new : new = p.boxes["new"]
    OBVIOUS
  <1>5. PICK seen : seen = [l EXCEPT !.edited = None]
    OBVIOUS
  <1>6. l \in Live
    BY <1>1, <1>3 DEF PanelState
  <1>7. seen \in Live /\ seen.strength = l.strength /\ seen.job = l.job
    BY <1>5, <1>6 DEF Live
  <1>8. PICK v : v = Verdict(seen, new)
    OBVIOUS
  <1>9. PICK m : m = IF v = "checking" THEN Score(seen, new) ELSE seen
    OBVIOUS
  <1>10. ScoreOK(p) /\ new = New(p)
    BY <1>4 DEF Good, New
  <1>11. new # "" => (seen.strength # None => (seen.strength <=> Acceptable(new)))
    BY <1>2, <1>3, <1>7, <1>10 DEF ScoreOK
  <1>12. /\ v \in {"short", "checking", "strong", "weak"}
         /\ v = "short" <=> new = ""
         /\ v \in {"strong", "weak"} => (v = "strong" <=> Acceptable(new))
    BY <1>7, <1>8, <1>11, VerdictIs
  <1>13. /\ m \in Live /\ m.strength = l.strength
         /\ m.job = l.job \/ (m.job # None /\ (m.job.ok <=> Acceptable(new)))
    BY <1>7, <1>9, ScoreIs
  <1>14. PICK match : match = Match(new, p.boxes["confirm"])
    OBVIOUS
  <1>15. PICK line : line = [verdict |-> v, match |-> match]
    OBVIOUS
  <1>16. line \in Line /\ line.verdict = v /\ line.match = match
    BY <1>12, <1>14, <1>15, MatchIs DEF Line
  <1>17. line # None
    BY <1>16, PanelAssumption
  <1>18. PICK q : q = [p EXCEPT !.live = m, !.line = line, !.row = "line"]
    OBVIOUS
  <1>19. DrawLine(p) = q
    BY <1>1, <1>3, <1>4, <1>5, <1>8, <1>9, <1>14, <1>15, <1>18 DEF DrawLine, PanelState
  <1>20. q \in PanelState
    BY <1>1, <1>13, <1>16, <1>18 DEF PanelState, Rows
  <1>21. /\ SameScreen(p, q) /\ q.kind = p.kind /\ q.boxes = p.boxes /\ q.live = m
         /\ q.line = line /\ q.suggestion = p.suggestion /\ q.row = "line"
    BY <1>1, <1>18 DEF PanelState, SameScreen, Stays
  <1>22. IsPanel(q)
    BY <1>1, <1>20, <1>21, StillPanel
  <1>23. RowOK(q)
    BY <1>2, <1>17, <1>21 DEF RowOK, SameScreen, Stays
  <1>24. New(q) = new /\ q.boxes["confirm"] = p.boxes["confirm"]
    BY <1>4, <1>21 DEF New
  <1>25. LineOK(q)
    BY <1>2, <1>12, <1>14, <1>16, <1>21, <1>24 DEF LineOK
  <1>26. ScoreOK(q)
    BY <1>2, <1>3, <1>10, <1>13, <1>21, <1>24 DEF ScoreOK
  <1> QED
    BY <1>19, <1>21, <1>22, <1>23, <1>25, <1>26, QuietIfSame DEF Good, Keeps, SameScreen

LEMMA UpdateLiveLineKept ==
  ASSUME NEW p, Good(p)
  PROVE  Keeps(p, UpdateLiveLine(p)) /\ Stays(p, UpdateLiveLine(p))
  <1>1. CASE ~MayAdvise(p)
    BY <1>1, ItselfKept DEF UpdateLiveLine, Stays
  <1>2. CASE MayAdvise(p)
    <2>1. PICK l : l = p.live
      OBVIOUS
    <2>2. PICK m : m = Poll(l)
      OBVIOUS
    <2>3. p \in PanelState
      BY GoodState
    <2>4. l \in Live
      BY <2>1, <2>3 DEF PanelState
    <2>5. /\ m \in Live /\ m.edited = l.edited
          /\ m.job # None => m.job = l.job
          /\ \/ m.strength = l.strength
             \/ l.job # None /\ l.job.fresh /\ m.strength = l.job.ok
      BY <2>2, <2>4, PollIs
    <2>6. PICK q : q = [p EXCEPT !.live = m]
      OBVIOUS
    <2>7. /\ Keeps(p, q) /\ SameScreen(p, q)
          /\ q.kind = p.kind /\ q.suggestion = p.suggestion /\ q.error = p.error
      BY <2>1, <2>5, <2>6, LiveSet
    <2>8. MayAdvise(q)
      BY <1>2, <2>7 DEF MayAdvise, SameScreen, Stays
    <2>9. Keeps(q, DrawLine(q)) /\ Stays(q, DrawLine(q))
      BY <2>7, <2>8, DrawKept DEF Keeps
    <2>10. UpdateLiveLine(p) \in {q, DrawLine(q)}
      BY <1>2, <2>1, <2>2, <2>3, <2>6 DEF UpdateLiveLine, PanelState
    <2>11. Keeps(p, DrawLine(q))
      BY <2>7, <2>9, KeptTwice
    <2>12. Stays(p, q) /\ Stays(p, DrawLine(q))
      BY <2>7, <2>9 DEF SameScreen, Stays
    <2> QED
      BY <2>7, <2>10, <2>11, <2>12
  <1> QED
    BY <1>1, <1>2

-----------------------------------------------------------------------------
(* What holds after a step *)

\* What a handler leaves: nothing is shown but right after a clear answer, or for the moment that a
\* busy core is ridden out.
After(p) == Good(p) /\ Discreet(p)

\* A view of what was typed is a Mac's.
Held(p) == platform = "windows" => p.hold = None

LEMMA KeptAfter ==
  ASSUME NEW p, NEW q, After(p), Held(p), Keeps(p, q)
  PROVE  After(q) /\ Held(q)
  BY QuietDiscreet DEF After, Held, Keeps, Quiet, Blanked

LEMMA PassedAfter ==
  ASSUME NEW p, NEW q, Held(p), Passed(p, q)
  PROVE  After(q) /\ Held(q) /\ Good(q) /\ q.open /\ q.suspended = FALSE /\ q.kind = p.kind
         /\ q.extensions = p.extensions
  BY PassedPermitted DEF After, Held, Passed

\* A step of a handler.
Handled ==
  /\ After(panel') /\ Held(panel')
  /\ timer' \in {timer, "rejected", "done"}

-----------------------------------------------------------------------------
(* The handlers on Windows *)

LEMMA WinPassed ==
  ASSUME NEW p, Good(p), p.open
  PROVE  Passed(p, WinPasses(p))
  BY ClearAnswer DEF WinPasses, WinActivity

LEMMA WinUnclear ==
  ASSUME NEW p, Good(p), p.open, p.hold = None, NEW q \in WinRejected(p)
  PROVE  After(q) /\ q.hold = None /\ (Blanked(q) \/ (q = p /\ Permitted(p)))
  <1>1. PICK answer \in Unclear : q = Apply(p, answer, Clear(p))
    BY DEF WinRejected, WinActivity
  <1>2. Good(Clear(p)) /\ Blanked(Clear(p))
    BY ClearGood
  <1>3. Good(q) /\ (Blanked(q) \/ (q = p /\ Permitted(p)))
    BY <1>1, <1>2, UnclearAnswer
  <1> QED
    BY <1>3 DEF After, Discreet, Blanked

LEMMA WinRefused ==
  ASSUME NEW p, Good(p), p.open, p.hold = None, NEW q \in WinRejectedPress(p)
  PROVE  After(q) /\ q.hold = None
  <1>1. PICK r : r = WinPasses(p)
    OBVIOUS
  <1>2. Passed(p, r)
    BY <1>1, WinPassed
  <1>3. Good(r) /\ r.open /\ r.hold = None
    BY <1>2 DEF Passed
  <1>4. q \in WinRejected(p) \/ q \in WinRejected(r)
    BY <1>1 DEF WinRejectedPress
  <1> QED
    BY <1>3, <1>4, WinUnclear

\* The panel when a handler on Windows begins.
OnWindows == ShownInv /\ platform = "windows"

LEMMA WinBegins ==
  ASSUME OnWindows
  PROVE  Good(panel) /\ panel.hold = None /\ Held(panel) /\ timer \in {"due", "rejected", "done"}
  BY DEF OnWindows, ShownInv, Held

LEMMA WinClearTickAfter ==
  ASSUME NEW p, Good(p), p.open, p.hold = None
  PROVE  After(WinClearTick(p)) /\ WinClearTick(p).hold = None
  <1>1. PICK q : q = WinPasses(p)
    OBVIOUS
  <1>2. Passed(p, q)
    BY <1>1, WinPassed
  <1>3. Good(q) /\ q.suspended = FALSE /\ q.open /\ q.hold = None /\ Permitted(q)
    BY <1>2, PassedPermitted DEF Passed
  <1>4. PICK r : r = ExpireArm(q)
    OBVIOUS
  <1>5. Keeps(q, r) /\ Stays(q, r)
    BY <1>3, <1>4, ExpireArmKept
  <1>6. PICK t : t = UpdateLiveLine(r)
    OBVIOUS
  <1>7. Keeps(r, t) /\ Stays(r, t)
    BY <1>5, <1>6, UpdateLiveLineKept DEF Keeps
  <1>8. t.open /\ Good(t)
    BY <1>3, <1>5, <1>7 DEF Stays, Keeps
  <1>9. Keeps(t, TimedOut(t))
    BY <1>8, TimedOutKept
  <1>10. Keeps(q, TimedOut(t))
    BY <1>5, <1>7, <1>9, KeptTwice
  <1>11. WinClearTick(p) = TimedOut(t)
    BY <1>1, <1>4, <1>6 DEF WinClearTick
  <1> QED
    BY <1>3, <1>10, <1>11, QuietDiscreet DEF After, Keeps, Quiet, Discreet, Blanked

LEMMA WinTickHandled ==
  ASSUME OnWindows, WinTick, UNCHANGED platform
  PROVE  Handled
  <1>1. Good(panel) /\ panel.open /\ panel.hold = None
    BY WinBegins DEF WinTick
  <1>2. CASE timer' = "rejected" /\ panel' \in WinRejected(panel)
    BY <1>1, <1>2, WinUnclear DEF Handled, Held
  <1>3. CASE timer' = "done" /\ panel' = WinClearTick(panel)
    BY <1>1, <1>3, WinClearTickAfter DEF Handled, Held
  <1> QED
    BY <1>2, <1>3 DEF WinTick

LEMMA WinContinueHandled ==
  ASSUME OnWindows, WinContinue, UNCHANGED platform
  PROVE  Handled
  <1>1. Good(panel) /\ panel.open /\ panel.hold = None /\ Held(panel)
    BY WinBegins DEF WinContinue
  <1>2. PICK q : q = WinPasses(panel)
    OBVIOUS
  <1>3. After(q) /\ Held(q) /\ Good(q) /\ q.open
    BY <1>1, <1>2, WinPassed, PassedAfter
  <1>4. Keeps(q, SubmitPassed(q))
    BY <1>3, SubmitKept
  <1>5. After(SubmitPassed(q)) /\ Held(SubmitPassed(q))
    BY <1>3, <1>4, KeptAfter
  <1>6. panel' \in WinRejectedPress(panel) \/ panel' = SubmitPassed(q) \/ panel' = q
    BY <1>2 DEF WinContinue
  <1>7. panel' \in WinRejectedPress(panel) => After(panel') /\ panel'.hold = None
    BY <1>1, WinRefused
  <1> QED
    BY <1>3, <1>5, <1>6, <1>7 DEF Handled, Held, WinContinue

LEMMA WinCancelHandled ==
  ASSUME OnWindows, WinCancel, UNCHANGED platform
  PROVE  Handled
  <1>1. Good(panel) /\ panel.open /\ panel.hold = None /\ Held(panel)
    BY WinBegins DEF WinCancel
  <1>2. CASE panel.kind = "Kit"
    <2>1. PICK q \in WinRejected(panel) \cup {WinPasses(panel)}, key \in BOOLEAN :
            panel' = OwnerCancelKit(q, key)
      BY <1>2 DEF WinCancel
    <2>2. After(q) /\ Held(q)
      BY <1>1, <2>1, WinUnclear, WinPassed, PassedAfter DEF Held
    <2>3. Keeps(q, panel')
      BY <2>1, <2>2, CancelKept DEF After
    <2> QED
      BY <2>2, <2>3, KeptAfter DEF Handled, WinCancel, Held
  <1>3. CASE panel.kind # "Kit"
    <2>1. panel' = Finish(panel, "cancelled")
      BY <1>3 DEF WinCancel
    <2>2. Good(panel') /\ Blanked(panel')
      BY <1>1, <2>1, FinishGood
    <2> QED
      BY <2>2 DEF Handled, After, Discreet, Held, Blanked, WinCancel
  <1> QED
    BY <1>2, <1>3

LEMMA ProgressKept ==
  ASSUME NEW p, Good(p)
  PROVE  Keeps(p, ShowRecoveryProgress(p))
  <1>1. PICK q : q = [p EXCEPT !.row = "hint"]
    OBVIOUS
  <1>2. p \in PanelState
    BY GoodState
  <1>3. q \in PanelState
    BY <1>1, <1>2 DEF PanelState, Rows
  <1>4. /\ SameScreen(p, q) /\ q.kind = p.kind /\ q.boxes = p.boxes /\ q.live = p.live
        /\ q.line = p.line /\ q.suggestion = p.suggestion /\ q.row = "hint"
    BY <1>1, <1>2 DEF PanelState, SameScreen, Stays
  <1>5. Keeps(p, q)
    BY <1>3, <1>4, KeptIfSame
  <1> QED
    BY <1>1, <1>5, ItselfKept DEF ShowRecoveryProgress

LEMMA TypedInTexts ==
  ASSUME NEW box, NEW text \in TypedIn(box)
  PROVE  text \in Texts
  BY DEF TypedIn, Typed, Texts

\* An edit, from the key to the advice it makes out of date.
LEMMA TypedKept ==
  ASSUME NEW p, Good(p), NEW box \in Boxes(p.kind), NEW text \in Texts,
         NEW t, t = [p EXCEPT !.boxes[box] = text], NEW e, e = EditedBox(Disarmed(t), box)
  PROVE  Keeps(p, e)
  <1>1. Typing(p, t, box) /\ SameScreen(p, t)
    BY TypedText
  <1>2. PICK d : d = Disarmed(t)
    OBVIOUS
  <1>3. Typing(p, d, box) /\ SameScreen(t, d)
    BY <1>1, <1>2, DisarmedTyping
  <1>4. Good(e) /\ Quiet(d, e)
    BY <1>2, <1>3, EditedKept
  <1>5. Quiet(p, t) /\ Quiet(t, d)
    BY <1>1, <1>3, QuietIfSame
  <1> QED
    BY <1>4, <1>5, QuietTwice DEF Keeps

\* A check leaves a panel of the same kind in the window, or none.
LEMMA SameKind ==
  ASSUME NEW p, Good(p), p.open, NEW answer \in Answers,
         NEW cleared, Good(cleared), cleared.kind = p.kind,
         Apply(p, answer, cleared).open
  PROVE  Apply(p, answer, cleared).kind = p.kind
  <1>1. CASE answer = "Allowed"
    BY <1>1, ClearAnswer DEF Passed
  <1>2. CASE answer # "Allowed"
    <2>1. Finish(p, "interrupted").open = FALSE
      BY FinishGood
    <2>2. Apply(p, answer, cleared) \in {Finish(p, "interrupted"), cleared, p}
      BY <1>2 DEF Apply, Update, Answers
    <2> QED
      BY <2>1, <2>2
  <1> QED
    BY <1>1, <1>2

LEMMA WinTypeHandled ==
  ASSUME OnWindows, WinType, UNCHANGED platform
  PROVE  Handled
  <1>1. Good(panel) /\ panel.open /\ panel.hold = None /\ Held(panel)
    BY WinBegins DEF WinType
  <1>b. PICK box \in DOMAIN panel.boxes : \E text \in TypedIn(box), answer \in Answers :
          LET asked == WinActivity(panel, answer)
          IN panel' = IF answer # "Allowed" /\ ~BoxTakesTypingWhileBusy(asked) THEN asked
                      ELSE ShowRecoveryProgress(
                             EditedBox(Disarmed([asked EXCEPT !.boxes[box] = text]), box))
    BY DEF WinType
  <1>2. PICK text \in TypedIn(box), answer \in Answers :
          LET asked == WinActivity(panel, answer)
          IN panel' = IF answer # "Allowed" /\ ~BoxTakesTypingWhileBusy(asked) THEN asked
                      ELSE ShowRecoveryProgress(
                             EditedBox(Disarmed([asked EXCEPT !.boxes[box] = text]), box))
    BY <1>b
  <1>3. PICK q : q = WinActivity(panel, answer)
    OBVIOUS
  <1>4. answer = "Allowed" \/ answer \in Unclear
    BY DEF Unclear
  <1>5. After(q) /\ Held(q) /\ (answer = "Allowed" => q.open)
    <2>1. CASE answer = "Allowed"
      BY <1>1, <1>3, <2>1, WinPassed, PassedAfter DEF WinPasses
    <2>2. CASE answer \in Unclear
      <3>1. q \in WinRejected(panel)
        BY <1>3, <2>2 DEF WinRejected
      <3> QED
        BY <1>1, <2>2, <3>1, WinUnclear DEF Held, Unclear
    <2> QED
      BY <1>4, <2>1, <2>2
  <1>6. CASE panel' = q
    BY <1>5, <1>6 DEF Handled, WinType
  <1>7. CASE panel' # q
    <2>1. PICK t : t = [q EXCEPT !.boxes[box] = text]
      OBVIOUS
    <2>2. PICK e : e = EditedBox(Disarmed(t), box)
      OBVIOUS
    <2>3. panel' = ShowRecoveryProgress(e) /\ q.open
      BY <1>2, <1>3, <1>5, <1>7, <2>1, <2>2 DEF BoxTakesTypingWhileBusy
    <2>4. q.kind = panel.kind
      BY <1>1, <1>3, <2>3, ClearGood, SameKind DEF WinActivity
    <2>5. box \in Boxes(q.kind)
      <3>1. panel.boxes \in [Boxes(panel.kind) -> Texts]
        BY <1>1 DEF Good, IsPanel
      <3> QED
        BY <2>4, <3>1
    <2>6. text \in Texts
      BY TypedInTexts
    <2>7. Keeps(q, e)
      BY <1>5, <2>1, <2>2, <2>5, <2>6, TypedKept DEF After
    <2>8. Keeps(e, panel')
      BY <2>3, <2>7, ProgressKept DEF Keeps
    <2>9. Keeps(q, panel')
      BY <2>7, <2>8, KeptTwice
    <2> QED
      BY <1>5, <2>9, KeptAfter DEF Handled, WinType, Held
  <1> QED
    BY <1>6, <1>7

\* A step that shows nothing new, and asks nobody.
Lessened == Keeps(panel, panel') /\ UNCHANGED <<timer, platform>>

\* A rule that shows something, and leaves the advice alone.
LEMMA ShownGood ==
  ASSUME NEW p, Good(p), NEW q \in PanelState, Stays(p, q),
         q.kind = p.kind, q.boxes = p.boxes, q.live = p.live, q.line = p.line,
         q.suggestion = p.suggestion, q.row # "line" \/ q.row = p.row
  PROVE  Good(q)
  <1>1. IsPanel(q)
    BY StillPanel DEF Good
  <1> QED
    BY <1>1, AdviceKept DEF Stays

LEMMA ReadOut ==
  ASSUME NEW p, Good(p), NEW q, q = [p EXCEPT !.readout = TRUE] \/ q = [p EXCEPT !.readout = FALSE]
  PROVE  /\ Good(q) /\ Stays(p, q) /\ q.hold = p.hold
         /\ q = [p EXCEPT !.readout = FALSE] => Keeps(p, q)
  <1>1. p \in PanelState
    BY GoodState
  <1>2. q \in PanelState
    <2>1. ASSUME q = [p EXCEPT !.readout = TRUE] PROVE q \in PanelState
      BY <1>1, <2>1 DEF PanelState
    <2>2. ASSUME q = [p EXCEPT !.readout = FALSE] PROVE q \in PanelState
      BY <1>1, <2>2 DEF PanelState
    <2> QED
      BY <2>1, <2>2
  <1>3. /\ Stays(p, q) /\ q.hold = p.hold /\ q.kind = p.kind /\ q.boxes = p.boxes
        /\ q.live = p.live /\ q.line = p.line /\ q.suggestion = p.suggestion /\ q.row = p.row
        /\ q.label = p.label /\ q.boxShown = p.boxShown
    BY <1>1 DEF PanelState, Stays
  <1>4. Good(q)
    BY <1>2, <1>3, ShownGood
  <1>5. q = [p EXCEPT !.readout = FALSE] => q.readout = FALSE
    BY <1>1 DEF PanelState
  <1>6. q.readout = FALSE => Quiet(p, q)
    BY <1>3 DEF Quiet, Blanked
  <1> QED
    BY <1>3, <1>4, <1>5, <1>6 DEF Keeps

LEMMA WinHeldHandled ==
  ASSUME OnWindows, WinHeld, UNCHANGED platform
  PROVE  Handled \/ Lessened
  <1>1. Good(panel) /\ panel.open /\ panel.hold = None /\ Held(panel) /\ timer' = timer
    BY WinBegins DEF WinHeld
  <1>2. CASE panel' \in WinRejectedPress(panel)
    BY <1>1, <1>2, WinRefused DEF Handled, Held
  <1>3. CASE panel' = [WinPasses(panel) EXCEPT !.readout = TRUE]
    <2>1. PICK q : q = WinPasses(panel)
      OBVIOUS
    <2>2. Passed(panel, q)
      BY <1>1, <2>1, WinPassed
    <2>3. Good(q) /\ Permitted(q) /\ q.hold = None
      BY <1>1, <2>2, PassedPermitted DEF Passed
    <2>4. Good(panel') /\ Stays(q, panel') /\ panel'.hold = None
      BY <1>3, <2>1, <2>3, ReadOut
    <2> QED
      BY <1>1, <2>3, <2>4, StaysPermitted DEF Handled, After, Held
  <1>4. CASE panel' = [panel EXCEPT !.readout = FALSE]
    BY <1>1, <1>4, ReadOut DEF Lessened
  <1> QED
    BY <1>2, <1>3, <1>4 DEF WinHeld

-----------------------------------------------------------------------------
(* A suggested password *)

LEMMA SuggestedIs ==
  ASSUME NEW text \in Suggestions, NEW s, s = [text |-> text, acknowledged |-> FALSE]
  PROVE  s \in Suggested /\ s # None
  <1>1. s \in Suggested
    BY DEF Suggested
  <1> QED
    BY <1>1, PanelAssumption

With(r, s) == [r EXCEPT !.suggestion = s, !.line = None, !.error = FALSE, !.last = FALSE]

LEMMA WithIs ==
  ASSUME NEW r \in PanelState, NEW s \in Suggested, NEW t, t = With(r, s)
  PROVE  /\ t \in PanelState
         /\ t.kind = r.kind /\ t.boxes = r.boxes /\ t.suggestion = s /\ t.line = None
         /\ t.open = r.open /\ t.suspended = r.suspended /\ t.allowed = r.allowed /\ t.hold = r.hold
  BY DEF PanelState, With

LEMMA WithGood ==
  ASSUME NEW r, IsPanel(r), NEW s \in Suggested, NEW t, t = With(r, s)
  PROVE  IsPanel(t) /\ (r.suspended = FALSE => Good(t)) /\ Stays(r, t) /\ t.hold = r.hold
  <1>1. r \in PanelState
    BY DEF IsPanel
  <1>2. s # None
    BY PanelAssumption
  <1>3. /\ t \in PanelState
        /\ t.kind = r.kind /\ t.boxes = r.boxes /\ t.suggestion = s /\ t.line = None
        /\ t.open = r.open /\ t.suspended = r.suspended /\ t.allowed = r.allowed /\ t.hold = r.hold
    BY <1>1, WithIs
  <1>4. IsPanel(t)
    BY <1>3, StillPanel
  <1>5. r.suspended = FALSE => RowOK(t) /\ LineOK(t) /\ ScoreOK(t)
    BY <1>2, <1>3 DEF RowOK, LineOK, ScoreOK
  <1> QED
    BY <1>3, <1>4, <1>5 DEF Good, Stays

\* A suggestion in both boxes of a panel.
LEMMA SuggestedGood ==
  ASSUME NEW p, Good(p), p.kind \in NewPasswords, NEW text \in Suggestions,
         NEW t, t = [p EXCEPT !.boxes["new"] = text, !.boxes["confirm"] = text,
                              !.suggestion = [text |-> text, acknowledged |-> FALSE],
                              !.error = FALSE, !.last = FALSE, !.line = None]
  PROVE  p.suspended = FALSE => Good(t) /\ Stays(p, t) /\ t.hold = p.hold
  <1>1. p \in PanelState /\ IsPanel(p)
    BY GoodState
  <1>2. PICK f : f = [p.boxes EXCEPT !["new"] = text, !["confirm"] = text]
    OBVIOUS
  <1>3. f \in [Boxes(p.kind) -> Texts]
    <2>1. p.boxes \in [Boxes(p.kind) -> Texts]
      BY <1>1 DEF IsPanel
    <2>2. text \in Texts
      BY EmptyIsText
    <2> QED
      BY <1>2, <2>1, <2>2
  <1>4. PICK r : r = [p EXCEPT !.boxes = f]
    OBVIOUS
  <1>5. IsPanel(r) /\ SameButBoxes(p, r)
    BY <1>1, <1>3, <1>4, BoxesSet
  <1>6. PICK s : s = [text |-> text, acknowledged |-> FALSE]
    OBVIOUS
  <1>7. s \in Suggested
    BY <1>6, SuggestedIs
  <1>8. t = With(r, s)
    BY <1>1, <1>2, <1>4, <1>6 DEF PanelState, With
  <1>9. IsPanel(t) /\ (r.suspended = FALSE => Good(t)) /\ Stays(r, t) /\ t.hold = r.hold
    BY <1>5, <1>7, <1>8, WithGood
  <1> QED
    BY <1>5, <1>9 DEF Stays, SameButBoxes

LEMMA WinSuggestHandled ==
  ASSUME OnWindows, WinSuggest, UNCHANGED platform
  PROVE  Handled
  <1>1. /\ Good(panel) /\ panel.open /\ panel.hold = None /\ timer' = timer
        /\ panel.kind \in NewPasswords
    BY WinBegins DEF WinSuggest
  <1>2. CASE panel' \in WinRejectedPress(panel)
    BY <1>1, <1>2, WinRefused DEF Handled, Held
  <1>3. ASSUME NEW text \in Suggestions, NEW stored,
               stored = [WinPasses(panel) EXCEPT
                           !.boxes["new"] = text, !.boxes["confirm"] = text,
                           !.suggestion = [text |-> text, acknowledged |-> FALSE],
                           !.error = FALSE, !.last = FALSE, !.line = None],
               panel' \in WinRejected(stored)
                          \cup {[WinPasses(stored) EXCEPT !.label = text, !.row = "suggested"]}
        PROVE  Handled
    <2>1. PICK q : q = WinPasses(panel)
      OBVIOUS
    <2>2. Passed(panel, q)
      BY <1>1, <2>1, WinPassed
    <2>3. /\ Good(q) /\ q.open /\ q.suspended = FALSE /\ q.hold = None /\ q.kind \in NewPasswords
          /\ Permitted(q)
      BY <1>1, <2>2, PassedPermitted DEF Passed
    <2>4. stored = [q EXCEPT !.boxes["new"] = text, !.boxes["confirm"] = text,
                             !.suggestion = [text |-> text, acknowledged |-> FALSE],
                             !.error = FALSE, !.last = FALSE, !.line = None]
      BY <1>3, <2>1
    <2>11. Good(stored) /\ Stays(q, stored) /\ stored.hold = None
      BY <2>3, <2>4, SuggestedGood
    <2>12. stored.open
      BY <2>3, <2>11 DEF Stays
    <2>13. CASE panel' \in WinRejected(stored)
      BY <1>1, <2>11, <2>12, <2>13, WinUnclear DEF Handled, Held
    <2>14. CASE panel' = [WinPasses(stored) EXCEPT !.label = text, !.row = "suggested"]
      <3>1. PICK t : t = WinPasses(stored)
        OBVIOUS
      <3>2. Passed(stored, t)
        BY <2>11, <2>12, <3>1, WinPassed
      <3>3. Good(t) /\ t.hold = None /\ Permitted(t)
        BY <2>11, <3>2, PassedPermitted DEF Passed
      <3>4. t \in PanelState
        BY <3>3, GoodState
      <3>5. panel' \in PanelState
        BY <2>14, <3>1, <3>4 DEF PanelState, Rows
      <3>6. /\ Stays(t, panel') /\ panel'.hold = t.hold /\ panel'.kind = t.kind
            /\ panel'.boxes = t.boxes /\ panel'.live = t.live /\ panel'.line = t.line
            /\ panel'.suggestion = t.suggestion /\ panel'.row = "suggested"
        BY <2>14, <3>1, <3>4 DEF PanelState, Stays
      <3>7. Good(panel')
        BY <3>3, <3>5, <3>6, ShownGood
      <3>8. Discreet(panel')
        BY <3>3, <3>6, StaysPermitted
      <3> QED
        BY <1>1, <3>3, <3>6, <3>7, <3>8 DEF Handled, After, Held
    <2> QED
      BY <1>3, <2>13, <2>14
  <1> QED
    BY <1>2, <1>3 DEF WinSuggest

LEMMA WinExtendHandled ==
  ASSUME OnWindows, WinExtend, UNCHANGED platform
  PROVE  Handled
  <1>1. /\ Good(panel) /\ panel.open /\ panel.hold = None /\ timer' = timer
        /\ panel.extensions < 3
    BY WinBegins DEF WinExtend
  <1>2. PICK q : q = WinPasses(panel)
    OBVIOUS
  <1>3. Passed(panel, q)
    BY <1>1, <1>2, WinPassed
  <1>4. Good(q) /\ q.open /\ q.hold = None /\ q.extensions < 3
    BY <1>1, <1>3 DEF Passed
  <1>5. PICK r : r = Extended(q)
    OBVIOUS
  <1>6. Keeps(q, r) /\ r.open
    BY <1>4, <1>5, ExtendedKept
  <1>7. Good(r) /\ r.hold = None
    BY <1>4, <1>6 DEF Keeps, Quiet, Blanked
  <1>8. PICK t : t = WinPasses(r)
    OBVIOUS
  <1>9. Passed(r, t)
    BY <1>6, <1>7, <1>8, WinPassed
  <1>10. Good(t) /\ t.open /\ t.hold = None
    BY <1>7, <1>9 DEF Passed
  <1>11. panel' \in WinRejectedPress(panel) \/ panel' \in WinRejected(t) \/ panel' = WinClearTick(t)
    BY <1>2, <1>5, <1>8 DEF WinExtend
  <1>12. After(panel') /\ panel'.hold = None
    BY <1>1, <1>10, <1>11, WinRefused, WinUnclear, WinClearTickAfter
  <1> QED
    BY <1>1, <1>12 DEF Handled, Held

LEMMA WinHandled ==
  ASSUME OnWindows, WinNext, UNCHANGED platform
  PROVE  Handled \/ Lessened
  <1>1. CASE WinTick
    BY <1>1, WinTickHandled
  <1>2. CASE WinContinue
    BY <1>2, WinContinueHandled
  <1>3. CASE WinCancel
    BY <1>3, WinCancelHandled
  <1>4. CASE WinType
    BY <1>4, WinTypeHandled
  <1>5. CASE WinHeld
    BY <1>5, WinHeldHandled
  <1>6. CASE WinSuggest
    BY <1>6, WinSuggestHandled
  <1>7. CASE WinExtend
    BY <1>7, WinExtendHandled
  <1> QED
    BY <1>1, <1>2, <1>3, <1>4, <1>5, <1>6, <1>7 DEF WinNext

-----------------------------------------------------------------------------
(* The handlers on a Mac *)

\* A panel that may show what it likes: it was given a clear answer a moment ago.
Stands(p) == Good(p) /\ Permitted(p)

LEMMA StandsOn ==
  ASSUME NEW p, NEW q, Stands(p), Good(q), Stays(p, q)
  PROVE  Stands(q)
  BY StaysPermitted DEF Stands

LEMMA StandsAfter ==
  ASSUME NEW p, Stands(p)
  PROVE  After(p) /\ Good(p) /\ p.open /\ p.suspended = FALSE
  <1>1. p \in PanelState
    BY GoodState DEF Stands
  <1>2. p.suspended \in BOOLEAN
    BY <1>1 DEF PanelState
  <1> QED
    BY <1>2 DEF Stands, After, Discreet, Permitted

LEMMA KeepsAfter ==
  ASSUME NEW p, NEW q, After(p), Keeps(p, q)
  PROVE  After(q)
  BY QuietDiscreet DEF After, Keeps

LEMMA EndHoldKept ==
  ASSUME NEW p, Good(p)
  PROVE  Keeps(p, EndHold(p)) /\ Stays(p, EndHold(p))
  BY EndHoldGood DEF Keeps, Quiet, Blanked

LEMMA HideTypedKept ==
  ASSUME NEW p, Good(p)
  PROVE  Keeps(p, HideTyped(p)) /\ Stays(p, HideTyped(p))
  BY HideTypedGood DEF Keeps, Quiet, Blanked

LEMMA MacCleared ==
  ASSUME NEW p, Good(p)
  PROVE  Good(HideTyped(Clear(p))) /\ Blanked(HideTyped(Clear(p))) /\ HideTyped(Clear(p)).kind = p.kind
  <1>1. PICK q : q = Clear(p)
    OBVIOUS
  <1>2. /\ Good(q) /\ q.kind = p.kind /\ q.label = "" /\ q.readout = FALSE /\ q.boxShown = FALSE
    BY <1>1, ClearGood
  <1> QED
    BY <1>1, <1>2, HideTypedGood DEF Blanked

LEMMA MacPassed ==
  ASSUME NEW p, Good(p), p.open
  PROVE  Passed(p, Passes(p)) /\ Stands(Passes(p))
  BY ClearAnswer, PassedPermitted DEF Passes, Activity, Stands

LEMMA MacUnclear ==
  ASSUME NEW p, Good(p), p.open, NEW q \in Rejected(p)
  PROVE  After(q)
  <1>1. PICK answer \in Unclear : q = Apply(p, answer, HideTyped(Clear(p)))
    BY DEF Rejected, Activity
  <1>2. Good(q) /\ (Blanked(q) \/ (q = p /\ Permitted(p)))
    BY <1>1, MacCleared, UnclearAnswer
  <1> QED
    BY <1>2 DEF After, Discreet

LEMMA MacRefused ==
  ASSUME NEW p, Good(p), p.open, NEW q \in RejectedPress(p)
  PROVE  After(q)
  <1>1. PICK r : r = Passes(p)
    OBVIOUS
  <1>2. Stands(r)
    BY <1>1, MacPassed
  <1>3. q \in Rejected(p) \/ q \in Rejected(r)
    BY <1>1 DEF RejectedPress
  <1> QED
    BY <1>2, <1>3, StandsAfter, MacUnclear

LEMMA MacAnswered ==
  ASSUME NEW p, Good(p), p.open, NEW answer \in Answers
  PROVE  After(Activity(p, answer))
  <1>1. answer = "Allowed" \/ Activity(p, answer) \in Rejected(p)
    BY DEF Rejected, Unclear
  <1> QED
    BY <1>1, MacUnclear, MacPassed, StandsAfter DEF Passes

-----------------------------------------------------------------------------
(* What a Mac draws *)

LEMMA RefreshGood ==
  ASSUME NEW p, Good(p)
  PROVE  Good(RefreshRecoveryLines(p)) /\ Stays(p, RefreshRecoveryLines(p))
  <1>1. CASE p.kind # "Recovery"
    BY <1>1 DEF RefreshRecoveryLines, Stays
  <1>2. CASE p.kind = "Recovery"
    <2>1. PICK under : under = IF p.suspended \/ p.error THEN p.row ELSE "hint"
      OBVIOUS
    <2>2. PICK words : words = IF p.ticked # None THEN "typed" ELSE ""
      OBVIOUS
    <2>3. p \in PanelState
      BY GoodState
    <2>4. under \in Rows /\ words \in {"", "kit", "typed"} \cup Suggestions
      BY <2>1, <2>2, <2>3 DEF PanelState, Rows
    <2>5. PICK q : q = [p EXCEPT !.row = under, !.label = words]
      OBVIOUS
    <2>6. RefreshRecoveryLines(p) = q
      BY <1>2, <2>1, <2>2, <2>3, <2>5 DEF RefreshRecoveryLines, PanelState
    <2>7. q \in PanelState
      BY <2>3, <2>4, <2>5 DEF PanelState
    <2>8. /\ Stays(p, q) /\ q.kind = p.kind /\ q.boxes = p.boxes /\ q.live = p.live
          /\ q.line = p.line /\ q.suggestion = p.suggestion /\ q.row = under
      BY <2>3, <2>5 DEF PanelState, Stays
    <2>9. q.row # "line" \/ q.row = p.row
      BY <2>1, <2>8
    <2> QED
      BY <2>6, <2>7, <2>8, <2>9, ShownGood
  <1> QED
    BY <1>1, <1>2

LEMMA ShowControlsKept ==
  ASSUME NEW p, Good(p), NEW may
  PROVE  Keeps(p, UpdateShowControls(p, may)) /\ Stays(p, UpdateShowControls(p, may))
  <1>1. PICK yes : yes = IF may = "Busy" THEN p.usable ELSE may = "Allowed"
    OBVIOUS
  <1>2. PICK q : q = [p EXCEPT !.usable = yes]
    OBVIOUS
  <1>3. p \in PanelState
    BY GoodState
  <1>4. q \in PanelState
    <2>1. p.usable \in BOOLEAN
      BY <1>3 DEF PanelState
    <2>2. yes \in BOOLEAN
      BY <1>1, <2>1
    <2> QED
      BY <1>2, <1>3, <2>2 DEF PanelState
  <1>5. /\ SameScreen(p, q) /\ q.kind = p.kind /\ q.boxes = p.boxes /\ q.live = p.live
        /\ q.line = p.line /\ q.suggestion = p.suggestion /\ q.row = p.row
    BY <1>2, <1>3 DEF PanelState, SameScreen, Stays
  <1>6. Keeps(p, q) /\ Stays(p, q)
    BY <1>4, <1>5, KeptIfSame DEF SameScreen
  <1>7. Keeps(q, HideTyped(q)) /\ Stays(q, HideTyped(q))
    BY <1>6, HideTypedKept DEF Keeps
  <1>8. Keeps(p, HideTyped(q)) /\ Stays(p, HideTyped(q))
    BY <1>6, <1>7, KeptTwice DEF Stays
  <1>9. UpdateShowControls(p, may) \in {p, q, HideTyped(q)}
    BY <1>1, <1>2, <1>3 DEF UpdateShowControls, PanelState
  <1> QED
    BY <1>6, <1>8, <1>9, ItselfKept DEF Stays

LEMMA StaleSet ==
  ASSUME NEW p, Good(p), NEW q, NEW old \in BOOLEAN, q = [p EXCEPT !.stale = old]
  PROVE  Keeps(p, q) /\ Stays(p, q)
  <1>1. p \in PanelState
    BY GoodState
  <1>2. q \in PanelState
    BY <1>1 DEF PanelState
  <1>3. /\ SameScreen(p, q) /\ q.kind = p.kind /\ q.boxes = p.boxes /\ q.live = p.live
        /\ q.line = p.line /\ q.suggestion = p.suggestion /\ q.row = p.row
    BY <1>1 DEF PanelState, SameScreen, Stays
  <1> QED
    BY <1>2, <1>3, KeptIfSame DEF SameScreen

LEMMA TickPassedAfter ==
  ASSUME NEW p, Stands(p), NEW may
  PROVE  After(TickPassed(p, may))
  <1>1. PICK a : a = ExpireArm(p)
    OBVIOUS
  <1>2. Stands(a)
    BY <1>1, StandsAfter, ExpireArmKept, StandsOn DEF Keeps
  <1>3. PICK b : b = IF a.hold # None /\ a.hold >= HoldLimit THEN EndHold(a) ELSE a
    OBVIOUS
  <1>4. Stands(b)
    BY <1>2, <1>3, StandsAfter, EndHoldKept, StandsOn DEF Keeps
  <1>5. PICK c : c = IF b.ticked # None /\ b.ticked >= TypedLimit THEN HideTyped(b) ELSE b
    OBVIOUS
  <1>6. Stands(c)
    BY <1>4, <1>5, StandsAfter, HideTypedKept, StandsOn DEF Keeps
  <1>7. PICK d : d = UpdateLiveLine(c)
    OBVIOUS
  <1>8. Stands(d)
    BY <1>6, <1>7, StandsAfter, UpdateLiveLineKept, StandsOn DEF Keeps
  <1>9. PICK e : e = [d EXCEPT !.stale = FALSE]
    OBVIOUS
  <1>10. Stands(e)
    BY <1>8, <1>9, StandsAfter, StaleSet, StandsOn DEF Keeps
  <1>11. Stands(RefreshRecoveryLines(e))
    BY <1>10, StandsAfter, RefreshGood, StandsOn
  <1>12. PICK f : f = IF d.stale THEN RefreshRecoveryLines(e) ELSE d
    OBVIOUS
  <1>13. Stands(f)
    BY <1>8, <1>11, <1>12
  <1>14. PICK g : g = UpdateShowControls(f, may)
    OBVIOUS
  <1>15. Stands(g)
    BY <1>13, <1>14, StandsAfter, ShowControlsKept, StandsOn DEF Keeps
  <1>16. TickPassed(p, may) = TimedOut(g)
    BY <1>1, <1>3, <1>5, <1>7, <1>9, <1>12, <1>14 DEF TickPassed
  <1>17. Keeps(g, TimedOut(g))
    BY <1>15, StandsAfter, TimedOutKept
  <1> QED
    BY <1>15, <1>16, <1>17, StandsAfter, KeepsAfter

LEMMA ClearTicksAfter ==
  ASSUME NEW p, Good(p), p.open, NEW q \in ClearTicks(p)
  PROVE  After(q)
  BY MacPassed, TickPassedAfter DEF ClearTicks

-----------------------------------------------------------------------------
(* Each handler of a Mac *)

\* The panel when a handler on a Mac begins.
OnMac == ShownInv /\ platform = "macos"

LEMMA MacBegins ==
  ASSUME OnMac
  PROVE  Good(panel) /\ timer \in {"due", "rejected", "done"}
  BY DEF OnMac, ShownInv


LEMMA MacDone ==
  ASSUME OnMac, UNCHANGED platform, After(panel'), timer' \in {timer, "rejected", "done"}
  PROVE  Handled
  BY DEF OnMac, Held, Handled

LEMMA MacTickHandled ==
  ASSUME OnMac, MacTick, UNCHANGED platform
  PROVE  Handled
  <1>1. Good(panel) /\ panel.open
    BY MacBegins DEF MacTick
  <1>2. After(panel') /\ timer' \in {timer, "rejected", "done"}
    BY <1>1, MacUnclear, ClearTicksAfter DEF MacTick
  <1> QED
    BY <1>2, MacDone

LEMMA MacContinueHandled ==
  ASSUME OnMac, MacContinue, UNCHANGED platform
  PROVE  Handled
  <1>1. Good(panel) /\ panel.open /\ timer' = timer
    BY MacBegins DEF MacContinue
  <1>2. PICK q : q = Passes(panel)
    OBVIOUS
  <1>3. After(q) /\ Good(q) /\ q.open
    BY <1>1, <1>2, MacPassed, StandsAfter
  <1>4. After(SubmitPassed(q))
    BY <1>3, SubmitKept, KeepsAfter
  <1>5. panel' \in RejectedPress(panel) \/ panel' = SubmitPassed(q) \/ panel' = q
    BY <1>2 DEF MacContinue
  <1>6. After(panel')
    BY <1>1, <1>3, <1>4, <1>5, MacRefused
  <1> QED
    BY <1>1, <1>6, MacDone

LEMMA MacCancelHandled ==
  ASSUME OnMac, MacCancel, UNCHANGED platform
  PROVE  Handled
  <1>1. Good(panel) /\ panel.open /\ timer' = timer
    BY MacBegins DEF MacCancel
  <1>2. CASE panel.kind = "Kit"
    <2>1. PICK q \in Rejected(panel) \cup {Passes(panel)}, key \in BOOLEAN :
            panel' = OwnerCancelKit(q, key)
      BY <1>2 DEF MacCancel
    <2>2. After(q)
      BY <1>1, <2>1, MacUnclear, MacPassed, StandsAfter
    <2>3. Keeps(q, panel')
      BY <2>1, <2>2, CancelKept DEF After
    <2> QED
      BY <1>1, <2>2, <2>3, KeepsAfter, MacDone
  <1>3. CASE panel.kind # "Kit"
    <2>1. PICK answer \in Answers : panel' = Finish(Activity(panel, answer), "cancelled")
      BY <1>3 DEF MacCancel
    <2>2. PICK q : q = Activity(panel, answer)
      OBVIOUS
    <2>3. After(q)
      BY <1>1, <2>2, MacAnswered
    <2>4. Good(panel') /\ (panel' = q \/ Blanked(panel'))
      BY <2>1, <2>2, <2>3, FinishGood DEF After
    <2>5. After(panel')
      BY <2>3, <2>4 DEF After, Discreet
    <2> QED
      BY <1>1, <2>5, MacDone
  <1> QED
    BY <1>2, <1>3

LEMMA TickedIs ==
  ASSUME NEW p, NEW box, NEW t, Typing(p, t, box), NEW genuine,
         NEW k, k = [t EXCEPT !.ticked = IF genuine /\ @ # None THEN 0 ELSE @]
  PROVE  Typing(p, k, box) /\ SameScreen(t, k)
  <1>1. t \in PanelState
    BY DEF Typing, IsPanel
  <1>2. PICK age : age = IF genuine /\ t.ticked # None THEN 0 ELSE t.ticked
    OBVIOUS
  <1>3. age \in {None} \cup 0..TypedLimit
    <2>1. TypedLimit \in Nat
      BY PanelAssumption
    <2>2. t.ticked \in {None} \cup 0..TypedLimit
      BY <1>1 DEF PanelState
    <2> QED
      BY <1>2, <2>1, <2>2
  <1>4. k = [t EXCEPT !.ticked = age]
    BY <1>1, <1>2 DEF PanelState
  <1>5. k \in PanelState
    BY <1>1, <1>3, <1>4 DEF PanelState
  <1>6. /\ SameScreen(t, k) /\ k.kind = t.kind /\ k.boxes = t.boxes /\ k.live = t.live
        /\ k.line = t.line /\ k.suggestion = t.suggestion /\ k.row = t.row
    BY <1>1, <1>4 DEF PanelState, SameScreen, Stays
  <1>7. IsPanel(k)
    BY <1>5, <1>6, StillPanel DEF Typing
  <1>8. RowOK(k)
    BY <1>6 DEF RowOK, Typing, SameScreen, Stays
  <1> QED
    BY <1>6, <1>7, <1>8 DEF Typing

\* What MacTextChanged does with an edit.
TypedOnMac(box, text, genuine, answer) ==
  /\ text # panel.boxes[box]
  /\ genuine \/ panel.ticked # None
  /\ LET typed == Disarmed([panel EXCEPT !.boxes[box] = text])
         kept == [typed EXCEPT !.ticked = IF genuine /\ @ # None THEN 0 ELSE @]
         edited == EditedBox(kept, box)
         asked == Activity(edited, answer)
     IN panel' = IF answer = "Allowed" THEN RefreshRecoveryLines(asked)
                 ELSE [asked EXCEPT !.stale = @ \/ (asked.open /\ asked.kind = "Recovery")]

LEMMA MacTextChangedHandled ==
  ASSUME OnMac, MacTextChanged, UNCHANGED platform
  PROVE  Handled
  <1>1. Good(panel) /\ panel.open /\ timer' = timer
    BY MacBegins DEF MacTextChanged
  <1>b. PICK box \in DOMAIN panel.boxes :
          \E text \in TypedIn(box), genuine \in BOOLEAN, answer \in Answers :
            TypedOnMac(box, text, genuine, answer)
    BY DEF MacTextChanged, TypedOnMac
  <1>2. PICK text \in TypedIn(box), genuine \in BOOLEAN, answer \in Answers :
          TypedOnMac(box, text, genuine, answer)
    BY <1>b
  <1>3. PICK t : t = [panel EXCEPT !.boxes[box] = text]
    OBVIOUS
  <1>4. PICK d : d = Disarmed(t)
    OBVIOUS
  <1>5. PICK k : k = [d EXCEPT !.ticked = IF genuine /\ @ # None THEN 0 ELSE @]
    OBVIOUS
  <1>6. PICK e : e = EditedBox(k, box)
    OBVIOUS
  <1>7. PICK asked : asked = Activity(e, answer)
    OBVIOUS
  <1>8. box \in Boxes(panel.kind) /\ text \in Texts
    <2>1. panel.boxes \in [Boxes(panel.kind) -> Texts]
      BY <1>1 DEF Good, IsPanel
    <2> QED
      BY <2>1, TypedInTexts
  <1>9. Typing(panel, t, box) /\ SameScreen(panel, t)
    BY <1>1, <1>3, <1>8, TypedText
  <1>10. Typing(panel, d, box) /\ SameScreen(t, d)
    BY <1>4, <1>9, DisarmedTyping
  <1>11. Typing(panel, k, box) /\ SameScreen(d, k)
    BY <1>5, <1>10, TickedIs
  <1>12. Good(e) /\ Stays(k, e)
    BY <1>1, <1>6, <1>8, <1>11, EditedKept
  <1>13. e.open
    BY <1>1, <1>9, <1>10, <1>11, <1>12 DEF SameScreen, Stays
  <1>14. After(asked)
    BY <1>7, <1>12, <1>13, MacAnswered
  <1>15. CASE answer = "Allowed"
    <2>1. panel' = RefreshRecoveryLines(asked)
      BY <1>2, <1>3, <1>4, <1>5, <1>6, <1>7, <1>15 DEF TypedOnMac
    <2>2. Stands(asked)
      BY <1>7, <1>12, <1>13, <1>15, MacPassed DEF Passes
    <2>3. Stands(panel')
      BY <2>1, <2>2, RefreshGood, StandsOn DEF Stands
    <2> QED
      BY <1>1, <2>3, StandsAfter, MacDone
  <1>16. CASE answer # "Allowed"
    <2>1. panel' = [asked EXCEPT !.stale = @ \/ (asked.open /\ asked.kind = "Recovery")]
      BY <1>2, <1>3, <1>4, <1>5, <1>6, <1>7, <1>16 DEF TypedOnMac
    <2>2. asked \in PanelState
      BY <1>14, GoodState DEF After
    <2>3. PICK old : old = (asked.stale \/ (asked.open /\ asked.kind = "Recovery"))
      OBVIOUS
    <2>4. old \in BOOLEAN
      BY <2>3
    <2>5. panel' = [asked EXCEPT !.stale = old]
      BY <2>1, <2>2, <2>3 DEF PanelState
    <2>6. Keeps(asked, panel')
      BY <1>14, <2>4, <2>5, StaleSet DEF After
    <2> QED
      BY <1>1, <1>14, <2>6, KeepsAfter, MacDone
  <1> QED
    BY <1>15, <1>16

\* A view of what is typed is switched on or off.
LEMMA ViewGood ==
  ASSUME NEW p, Good(p), NEW q,
         \/ q = [p EXCEPT !.ticked = 0]
         \/ q = [p EXCEPT !.ticked = None]
         \/ q = [p EXCEPT !.hold = 0]
  PROVE  Good(q) /\ Stays(p, q)
  <1>1. p \in PanelState
    BY GoodState
  <1>2. 0 \in 0..TypedLimit /\ 0 \in 0..HoldLimit
    <2>1. TypedLimit \in Nat /\ HoldLimit \in Nat
      BY PanelAssumption
    <2> QED
      BY <2>1
  <1>3. ASSUME q = [p EXCEPT !.ticked = 0] PROVE q \in PanelState
    BY <1>1, <1>2, <1>3 DEF PanelState
  <1>4. ASSUME q = [p EXCEPT !.ticked = None] PROVE q \in PanelState
    BY <1>1, <1>4 DEF PanelState
  <1>5. ASSUME q = [p EXCEPT !.hold = 0] PROVE q \in PanelState
    BY <1>1, <1>2, <1>5 DEF PanelState
  <1>6. q \in PanelState
    BY <1>3, <1>4, <1>5
  <1>7. /\ Stays(p, q) /\ q.kind = p.kind /\ q.boxes = p.boxes /\ q.live = p.live
        /\ q.line = p.line /\ q.suggestion = p.suggestion /\ q.row = p.row
    BY <1>1 DEF PanelState, Stays
  <1> QED
    BY <1>6, <1>7, ShownGood

LEMMA ShowTypingChangedHandled ==
  ASSUME OnMac, ShowTypingChanged, UNCHANGED platform
  PROVE  Handled
  <1>1. Good(panel) /\ panel.open /\ timer' = timer
    BY MacBegins DEF ShowTypingChanged
  <1>2. CASE \E q \in Rejected(panel) : panel' = HideTyped(q)
    <2>1. PICK q \in Rejected(panel) : panel' = HideTyped(q)
      BY <1>2
    <2>2. After(q)
      BY <1>1, <2>1, MacUnclear
    <2>3. After(panel')
      BY <2>1, <2>2, HideTypedKept, KeepsAfter DEF After
    <2> QED
      BY <1>1, <2>3, MacDone
  <1>3. ASSUME NEW may \in MayShow,
               panel' = LET q == Passes(panel)
                        IN RefreshRecoveryLines(
                             IF may # "Allowed" THEN HideTyped(q)
                             ELSE [q EXCEPT !.ticked = IF panel.ticked = None THEN 0 ELSE None])
        PROVE  Handled
    <2>1. PICK q : q = Passes(panel)
      OBVIOUS
    <2>2. Stands(q) /\ Good(q)
      BY <1>1, <2>1, MacPassed, StandsAfter
    <2>3. PICK r : r = IF may # "Allowed" THEN HideTyped(q)
                       ELSE [q EXCEPT !.ticked = IF panel.ticked = None THEN 0 ELSE None]
      OBVIOUS
    <2>4. r = HideTyped(q) \/ r = [q EXCEPT !.ticked = 0] \/ r = [q EXCEPT !.ticked = None]
      BY <2>3
    <2>5. Good(r) /\ Stays(q, r)
      BY <2>2, <2>4, HideTypedKept, ViewGood DEF Keeps
    <2>6. panel' = RefreshRecoveryLines(r)
      BY <1>3, <2>1, <2>3
    <2>7. Stands(panel')
      BY <2>2, <2>5, <2>6, RefreshGood, StandsOn
    <2> QED
      BY <1>1, <2>7, StandsAfter, MacDone
  <1> QED
    BY <1>2, <1>3 DEF ShowTypingChanged

LEMMA MacHoldPressedHandled ==
  ASSUME OnMac, MacHoldPressed, UNCHANGED platform
  PROVE  Handled
  <1>1. Good(panel) /\ panel.open /\ timer' = timer
    BY MacBegins DEF MacHoldPressed
  <1>2. PICK q : q = Passes(panel)
    OBVIOUS
  <1>3. Stands(q) /\ Good(q)
    BY <1>1, <1>2, MacPassed, StandsAfter
  <1>4. CASE panel' \in RejectedPress(panel)
    BY <1>1, <1>4, MacRefused, MacDone
  <1>5. CASE panel' = [q EXCEPT !.readout = TRUE]
    <2>1. Good(panel') /\ Stays(q, panel')
      BY <1>3, <1>5, ReadOut
    <2> QED
      BY <1>1, <1>3, <2>1, StandsOn, StandsAfter, MacDone
  <1>6. CASE \E focus \in {"new", "confirm", None}, may \in MayShow : panel' = HoldTyped(q, focus, may)
    <2>1. PICK focus \in {"new", "confirm", None}, may \in MayShow : panel' = HoldTyped(q, focus, may)
      BY <1>6
    <2>2. panel' = q \/ panel' = [q EXCEPT !.hold = 0]
      BY <2>1 DEF HoldTyped
    <2>3. Good(panel') /\ Stays(q, panel')
      BY <1>3, <2>2, ViewGood DEF Stays
    <2> QED
      BY <1>1, <1>3, <2>3, StandsOn, StandsAfter, MacDone
  <1> QED
    BY <1>2, <1>4, <1>5, <1>6 DEF MacHoldPressed

LEMMA ReleasedKept ==
  ASSUME NEW p, Good(p)
  PROVE  Keeps(p, Released(p))
  BY ReadOut, EndHoldKept DEF Released

LEMMA MacHoldReleasedHandled ==
  ASSUME OnMac, MacHoldReleased, UNCHANGED platform
  PROVE  Handled \/ Lessened
  <1>1. Good(panel) /\ panel.open /\ timer' = timer
    BY MacBegins DEF MacHoldReleased
  <1>2. CASE panel' = Released(panel)
    BY <1>1, <1>2, ReleasedKept DEF Lessened
  <1>3. CASE \E answer \in Answers : panel' = Released(Activity(panel, answer))
    <2>1. PICK answer \in Answers : panel' = Released(Activity(panel, answer))
      BY <1>3
    <2>2. PICK q : q = Activity(panel, answer)
      OBVIOUS
    <2>3. After(q)
      BY <1>1, <2>2, MacAnswered
    <2>4. After(panel')
      BY <2>1, <2>2, <2>3, ReleasedKept, KeepsAfter DEF After
    <2> QED
      BY <1>1, <2>4, MacDone
  <1> QED
    BY <1>2, <1>3 DEF MacHoldReleased

LEMMA MacSuggestHandled ==
  ASSUME OnMac, MacSuggest, UNCHANGED platform
  PROVE  Handled
  <1>1. Good(panel) /\ panel.open /\ timer' = timer /\ panel.kind \in NewPasswords
    BY MacBegins DEF MacSuggest
  <1>2. CASE panel' \in RejectedPress(panel)
    BY <1>1, <1>2, MacRefused, MacDone
  <1>3. ASSUME NEW text \in Suggestions,
               panel' = [EndHold(Passes(panel)) EXCEPT
                           !.boxes["new"] = text, !.boxes["confirm"] = text, !.label = text,
                           !.suggestion = [text |-> text, acknowledged |-> FALSE],
                           !.error = FALSE, !.last = FALSE, !.line = None, !.lastEdited = None,
                           !.row = "suggested"]
        PROVE  Handled
    <2>1. PICK q : q = Passes(panel)
      OBVIOUS
    <2>2. Stands(q) /\ Good(q) /\ q.suspended = FALSE /\ q.kind = panel.kind
      BY <1>1, <2>1, MacPassed, StandsAfter DEF Passed
    <2>3. PICK h : h = EndHold(q)
      OBVIOUS
    <2>4. Good(h) /\ Stays(q, h) /\ h.kind = q.kind
      BY <2>2, <2>3, EndHoldGood
    <2>5. Stands(h) /\ h.suspended = FALSE /\ h.kind \in NewPasswords
      BY <1>1, <2>2, <2>4, StandsOn DEF Stays
    <2>6. PICK t : t = [h EXCEPT !.boxes["new"] = text, !.boxes["confirm"] = text,
                                 !.suggestion = [text |-> text, acknowledged |-> FALSE],
                                 !.error = FALSE, !.last = FALSE, !.line = None]
      OBVIOUS
    <2>7. Good(t) /\ Stays(h, t)
      BY <2>4, <2>5, <2>6, SuggestedGood
    <2>8. h \in PanelState
      BY <2>4, GoodState
    <2>9. panel' = [t EXCEPT !.label = text, !.lastEdited = None, !.row = "suggested"]
      BY <1>3, <2>1, <2>3, <2>6, <2>8 DEF PanelState
    <2>10. t \in PanelState
      BY <2>7, GoodState
    <2>11. panel' \in PanelState
      BY <2>9, <2>10 DEF PanelState, Rows
    <2>12. /\ Stays(t, panel') /\ panel'.kind = t.kind /\ panel'.boxes = t.boxes
           /\ panel'.live = t.live /\ panel'.line = t.line /\ panel'.suggestion = t.suggestion
           /\ panel'.row = "suggested"
      BY <2>9, <2>10 DEF PanelState, Stays
    <2>13. Good(panel')
      BY <2>7, <2>11, <2>12, ShownGood
    <2>14. Stands(panel')
      BY <2>5, <2>7, <2>12, <2>13, StandsOn
    <2> QED
      BY <1>1, <2>14, StandsAfter, MacDone
  <1> QED
    BY <1>2, <1>3 DEF MacSuggest

LEMMA MacExtendHandled ==
  ASSUME OnMac, MacExtend, UNCHANGED platform
  PROVE  Handled
  <1>1. Good(panel) /\ panel.open /\ timer' = timer /\ panel.extensions < 3
    BY MacBegins DEF MacExtend
  <1>2. PICK q : q = Passes(panel)
    OBVIOUS
  <1>3. Passed(panel, q) /\ Good(q) /\ q.open /\ q.extensions < 3
    BY <1>1, <1>2, MacPassed DEF Passed
  <1>4. PICK r : r = Extended(q)
    OBVIOUS
  <1>5. Good(r) /\ r.open
    BY <1>3, <1>4, ExtendedKept DEF Keeps
  <1>6. PICK t : t = Passes(r)
    OBVIOUS
  <1>7. Good(t) /\ t.open
    BY <1>5, <1>6, MacPassed, StandsAfter
  <1>8. panel' \in RejectedPress(panel) \/ panel' \in Rejected(t) \/ panel' \in ClearTicks(t)
    BY <1>2, <1>4, <1>6 DEF MacExtend
  <1>9. After(panel')
    BY <1>1, <1>7, <1>8, MacRefused, MacUnclear, ClearTicksAfter
  <1> QED
    BY <1>1, <1>9, MacDone

LEMMA MacHandled ==
  ASSUME OnMac, MacNext, UNCHANGED platform
  PROVE  Handled \/ Lessened
  <1>1. CASE MacTick
    BY <1>1, MacTickHandled
  <1>2. CASE MacContinue
    BY <1>2, MacContinueHandled
  <1>3. CASE MacCancel
    BY <1>3, MacCancelHandled
  <1>4. CASE MacTextChanged
    BY <1>4, MacTextChangedHandled
  <1>5. CASE ShowTypingChanged
    BY <1>5, ShowTypingChangedHandled
  <1>6. CASE MacHoldPressed
    BY <1>6, MacHoldPressedHandled
  <1>7. CASE MacHoldReleased
    BY <1>7, MacHoldReleasedHandled
  <1>8. CASE MacSuggest
    BY <1>8, MacSuggestHandled
  <1>9. CASE MacExtend
    BY <1>9, MacExtendHandled
  <1> QED
    BY <1>1, <1>2, <1>3, <1>4, <1>5, <1>6, <1>7, <1>8, <1>9 DEF MacNext

-----------------------------------------------------------------------------
(* The worker, the clock and the rest of the app *)

LEMMA WorkerDoneKept ==
  ASSUME ShownInv, WorkerDone, UNCHANGED platform
  PROVE  Lessened
  <1>1. Good(panel) /\ panel \in PanelState /\ timer' = timer
    BY GoodState DEF ShownInv, WorkerDone
  <1>2. PICK l : l = panel.live
    OBVIOUS
  <1>3. PICK j : j = [l.job EXCEPT !.done = TRUE]
    OBVIOUS
  <1>4. PICK m : m = [l EXCEPT !.job = j]
    OBVIOUS
  <1>5. l \in Live /\ l.job # None
    BY <1>1, <1>2 DEF PanelState, WorkerDone
  <1>6. l.job \in Job
    BY <1>5 DEF Live
  <1>7. j \in Job /\ j.fresh = l.job.fresh /\ j.ok = l.job.ok
    BY <1>3, <1>6 DEF Job
  <1>8. m \in Live /\ m.edited = l.edited /\ m.strength = l.strength /\ m.job = j
    BY <1>4, <1>5, <1>7 DEF Live
  <1>9. panel' = [panel EXCEPT !.live = m]
    BY <1>1, <1>2, <1>3, <1>4, <1>5 DEF WorkerDone, PanelState, Live
  <1>10. Keeps(panel, panel')
    BY <1>1, <1>2, <1>5, <1>7, <1>8, <1>9, LiveSet
  <1> QED
    BY <1>1, <1>10 DEF Lessened

LEMMA CloseNowKept ==
  ASSUME ShownInv, CloseNow, UNCHANGED platform
  PROVE  Lessened
  <1>1. Good(panel) /\ panel.open /\ timer' = timer
    BY DEF ShownInv, CloseNow
  <1>2. PICK result \in {"cancelled", "interrupted"} : panel' = Finish(panel, result)
    BY DEF CloseNow
  <1>3. Keeps(panel, panel')
    BY <1>1, <1>2, KeptIfFinished
  <1> QED
    BY <1>1, <1>3 DEF Lessened

\* A unit of time ages nothing beyond what a rule can tell from older.
LEMMA OlderIs ==
  ASSUME NEW most \in Nat, NEW age \in {None} \cup 0..most
  PROVE  Older(age, most) \in {None} \cup 0..most /\ (Older(age, most) = None <=> age = None)
  <1>1. None \notin Nat
    BY PanelAssumption
  <1> QED
    BY <1>1 DEF Older

\* What a panel is as time passes, but for the ages and what is left of a readout.
Ages(most) == {None} \cup 0..most
ChecksAged(p, a, c, v) == [p EXCEPT !.allowed = a, !.arm = c, !.ticked = v]
ViewsAged(p, h, m, n) == [p EXCEPT !.hold = h, !.live = m, !.left = n]

LEMMA ChecksAge ==
  ASSUME NEW p \in PanelState, NEW a \in Ages(Grace + 1),
         NEW c \in Ages(ArmWindow + 1), NEW v \in Ages(TypedLimit),
         NEW r, r = ChecksAged(p, a, c, v)
  PROVE  /\ r \in PanelState /\ r.kind = p.kind /\ r.boxes = p.boxes /\ r.line = p.line
         /\ r.suggestion = p.suggestion /\ r.row = p.row /\ r.suspended = p.suspended
         /\ r.open = p.open /\ r.allowed = a /\ r.label = p.label
         /\ r.readout = p.readout /\ r.boxShown = p.boxShown
  BY DEF PanelState, ChecksAged, Ages

LEMMA ViewsAge ==
  ASSUME NEW p \in PanelState, NEW h \in {None} \cup 0..HoldLimit, NEW m \in Live,
         NEW n \in 0..ReadoutTime,
         NEW q, q = ViewsAged(p, h, m, n)
  PROVE  /\ q \in PanelState /\ q.kind = p.kind /\ q.boxes = p.boxes /\ q.live = m /\ q.line = p.line
         /\ q.suggestion = p.suggestion /\ q.row = p.row /\ q.suspended = p.suspended
         /\ q.open = p.open /\ q.allowed = p.allowed /\ q.hold = h /\ q.label = p.label
         /\ q.readout = p.readout /\ q.boxShown = p.boxShown
  BY DEF PanelState, ViewsAged

LEMMA PassKept ==
  ASSUME ShownInv, Pass, UNCHANGED platform
  PROVE  ShownInv'
  <1>1. /\ Good(panel) /\ Discreet(panel) /\ panel.open /\ timer' = "due"
        /\ platform \in {"macos", "windows"} /\ (platform = "windows" => panel.hold = None)
    BY DEF ShownInv, Pass
  <1>2. panel \in PanelState /\ IsPanel(panel)
    BY <1>1, GoodState
  <1>l. PICK l : l = panel.live
    OBVIOUS
  <1>a. PICK a : a = Older(panel.allowed, Grace + 1)
    OBVIOUS
  <1>c. PICK c : c = Older(panel.arm, ArmWindow + 1)
    OBVIOUS
  <1>v. PICK v : v = Older(panel.ticked, TypedLimit)
    OBVIOUS
  <1>h. PICK h : h = Older(panel.hold, HoldLimit)
    OBVIOUS
  <1>e. PICK e : e = Older(l.edited, LivePause)
    OBVIOUS
  <1>m. PICK m : m = [l EXCEPT !.edited = e]
    OBVIOUS
  <1>n. PICK n : n = IF panel.left = 0 THEN 0 ELSE panel.left - 1
    OBVIOUS
  <1>3. {Grace, ArmWindow, LivePause, HoldLimit, TypedLimit, ReadoutTime} \subseteq Nat
    BY PanelAssumption
  <1>4. Grace + 1 \in Nat /\ ArmWindow + 1 \in Nat
    BY <1>3
  <1>5. /\ panel.allowed \in {None} \cup 0..(Grace + 1) /\ panel.arm \in {None} \cup 0..(ArmWindow + 1)
        /\ panel.ticked \in {None} \cup 0..TypedLimit /\ panel.hold \in {None} \cup 0..HoldLimit
        /\ panel.left \in 0..ReadoutTime /\ l \in Live
    BY <1>2, <1>l DEF PanelState
  <1>6. a \in {None} \cup 0..(Grace + 1) /\ c \in {None} \cup 0..(ArmWindow + 1)
    BY <1>4, <1>5, <1>a, <1>c, OlderIs
  <1>7. /\ v \in {None} \cup 0..TypedLimit
        /\ h \in {None} \cup 0..HoldLimit /\ (h = None <=> panel.hold = None)
    BY <1>3, <1>5, <1>v, <1>h, OlderIs
  <1>8. l.edited \in {None} \cup 0..LivePause
    BY <1>5 DEF Live
  <1>9. e \in {None} \cup 0..LivePause /\ (e = None <=> l.edited = None)
    BY <1>3, <1>8, <1>e, OlderIs
  <1>10. /\ m \in Live /\ m.strength = l.strength /\ m.job = l.job
         /\ m.edited = None <=> l.edited = None
    BY <1>5, <1>9, <1>m DEF Live
  <1>11. n \in 0..ReadoutTime
    BY <1>3, <1>5, <1>n
  <1>r. PICK r : r = ChecksAged(panel, a, c, v)
    OBVIOUS
  <1>12. /\ r \in PanelState /\ r.kind = panel.kind /\ r.boxes = panel.boxes /\ r.line = panel.line
         /\ r.suggestion = panel.suggestion /\ r.row = panel.row /\ r.suspended = panel.suspended
         /\ r.open = panel.open /\ r.allowed = a /\ r.label = panel.label
         /\ r.readout = panel.readout /\ r.boxShown = panel.boxShown
    <2>1. panel \in PanelState
      BY <1>2
    <2>2. a \in Ages(Grace + 1) /\ c \in Ages(ArmWindow + 1) /\ v \in Ages(TypedLimit)
      BY <1>6, <1>7 DEF Ages
    <2> QED
      BY <2>1, <2>2, <1>r, ChecksAge
  <1>p. panel' = ViewsAged(r, h, m, n)
    BY <1>2, <1>5, <1>l, <1>a, <1>c, <1>v, <1>h, <1>e, <1>m, <1>n, <1>r
    DEF Pass, PanelState, Live, ChecksAged, ViewsAged
  <1>q. /\ panel' \in PanelState /\ panel'.kind = r.kind /\ panel'.boxes = r.boxes
        /\ panel'.live = m /\ panel'.line = r.line /\ panel'.suggestion = r.suggestion
        /\ panel'.row = r.row /\ panel'.suspended = r.suspended
        /\ panel'.open = r.open /\ panel'.allowed = r.allowed /\ panel'.hold = h
        /\ panel'.label = r.label /\ panel'.readout = r.readout
        /\ panel'.boxShown = r.boxShown
    BY <1>7, <1>10, <1>11, <1>12, <1>p, ViewsAge
  <1>13. /\ panel' \in PanelState /\ panel'.kind = panel.kind /\ panel'.boxes = panel.boxes
         /\ panel'.live = m /\ panel'.line = panel.line /\ panel'.suggestion = panel.suggestion
         /\ panel'.row = panel.row /\ panel'.suspended = panel.suspended
         /\ panel'.open = panel.open /\ panel'.allowed = a /\ panel'.hold = h
         /\ panel'.label = panel.label /\ panel'.readout = panel.readout
         /\ panel'.boxShown = panel.boxShown
    BY <1>12, <1>q
  <1>14. Good(panel')
    <2>1. IsPanel(panel')
      BY <1>2, <1>13, StillPanel
    <2>2. RowOK(panel')
      BY <1>1, <1>13 DEF RowOK, Good
    <2>3. New(panel') = New(panel)
      BY <1>13 DEF New
    <2>4. LineOK(panel')
      BY <1>1, <1>l, <1>10, <1>13, <2>3 DEF LineOK, Good
    <2>5. ScoreOK(panel')
      <3>1. ScoreOK(panel)
        BY <1>1 DEF Good
      <3> QED
        BY <1>l, <1>10, <1>13, <2>3, <3>1 DEF ScoreOK
    <2> QED
      BY <2>1, <2>2, <2>4, <2>5 DEF Good
  <1>15. Blanked(panel) => Blanked(panel')
    BY <1>7, <1>13 DEF Blanked
  <1>16. Permitted(panel) =>
           panel'.open /\ ~panel'.suspended /\ panel'.allowed # None /\ panel'.allowed <= Grace
    <2>1. ASSUME panel.allowed # None, panel.allowed < Grace
          PROVE  a # None /\ a <= Grace
      <3>1. None \notin Nat
        BY PanelAssumption
      <3> QED
        BY <1>3, <1>5, <1>a, <2>1, <3>1 DEF Older
    <2> QED
      BY <1>13, <2>1 DEF Permitted
  <1> QED
    BY <1>1, <1>7, <1>13, <1>14, <1>15, <1>16 DEF ShownInv, Discreet

-----------------------------------------------------------------------------
(* The invariant *)

LEMMA PermittedIsFresh ==
  ASSUME NEW p, Good(p), Discreet(p)
  PROVE  \/ Blanked(p)
         \/ p.open /\ ~p.suspended /\ p.allowed # None /\ p.allowed <= Grace
  <1>1. p \in PanelState
    BY GoodState
  <1>2. p.allowed \in {None} \cup 0..(Grace + 1)
    BY <1>1 DEF PanelState
  <1>3. Grace \in Nat
    BY GraceIsTime
  <1> QED
    BY <1>2, <1>3 DEF Discreet, Permitted

LEMMA HandledKeeps ==
  ASSUME ShownInv, Handled, UNCHANGED platform
  PROVE  ShownInv'
  BY PermittedIsFresh DEF ShownInv, Handled, After, Held

LEMMA LessenedKeeps ==
  ASSUME ShownInv, Lessened
  PROVE  ShownInv'
  <1>1. Good(panel') /\ Quiet(panel, panel') /\ timer' = timer /\ platform' = platform
    BY DEF Lessened, Keeps
  <1>2. \/ Blanked(panel')
        \/ /\ Stays(panel, panel') /\ (Blanked(panel) => Blanked(panel'))
           /\ panel'.hold \in {panel.hold, None}
    BY <1>1 DEF Quiet
  <1>3. \/ Blanked(panel')
        \/ /\ panel'.open /\ ~panel'.suspended /\ panel'.allowed # None
           /\ panel'.allowed <= Grace
    BY <1>2 DEF ShownInv, Stays
  <1>4. timer' # "due" => Discreet(panel')
    BY <1>1, QuietDiscreet DEF ShownInv
  <1>5. platform' = "windows" => panel'.hold = None
    BY <1>1, <1>2 DEF ShownInv, Blanked
  <1> QED
    BY <1>1, <1>3, <1>4, <1>5 DEF ShownInv

LEMMA PanelKept ==
  ASSUME ShownInv, [Next]_all
  PROVE  ShownInv'
  <1>1. CASE UNCHANGED all
    BY <1>1 DEF all, vars, ShownInv, Good, IsPanel, RowOK, LineOK, ScoreOK, Blanked, Discreet,
                Permitted, New
  <1>2. CASE platform = "macos" /\ MacNext /\ UNCHANGED platform
    BY <1>2, MacHandled, HandledKeeps, LessenedKeeps DEF OnMac
  <1>3. CASE platform = "windows" /\ WinNext /\ UNCHANGED platform
    BY <1>3, WinHandled, HandledKeeps, LessenedKeeps DEF OnWindows
  <1>4. CASE WorkerDone /\ UNCHANGED platform
    BY <1>4, WorkerDoneKept, LessenedKeeps
  <1>5. CASE Pass /\ UNCHANGED platform
    BY <1>5, PassKept
  <1>6. CASE CloseNow /\ UNCHANGED platform
    BY <1>6, CloseNowKept, LessenedKeeps
  <1> QED
    BY <1>1, <1>2, <1>3, <1>4, <1>5, <1>6 DEF Next, Environment

LEMMA BuiltIs ==
  ASSUME NEW kind \in Kinds, NEW p, p = Built(kind)
  PROVE  /\ p \in PanelState /\ p.kind = kind /\ p.boxes = [b \in Boxes(kind) |-> ""]
         /\ p.open = TRUE /\ p.hold = None /\ p.suggestion = None /\ p.line = None
         /\ p.live = NoLive /\ p.row = "hint"
  <1>1. PICK f : f = [b \in Boxes(kind) |-> ""]
    OBVIOUS
  <1>2. f \in Filled
    <2>1. f \in [Boxes(kind) -> Texts]
      BY <1>1, EmptyIsText
    <2> QED
      BY <2>1, FilledBoxes
  <1>3. PICK shown : shown = (kind = "Kit")
    OBVIOUS
  <1>4. PICK read : read = (kind = "Timed")
    OBVIOUS
  <1>5. shown \in BOOLEAN /\ read \in BOOLEAN
    BY <1>3, <1>4
  <1>6. PICK words : words = IF kind = "Kit" THEN "kit" ELSE ""
    OBVIOUS
  <1>7. words \in {"", "kit", "typed"} \cup Suggestions
    BY <1>6
  <1>8. ReadoutTime \in 0..ReadoutTime
    <2>1. ReadoutTime \in Nat
      BY PanelAssumption
    <2> QED
      BY <2>1
  <1>9. p = [kind |-> kind, open |-> TRUE, result |-> None, suspended |-> FALSE, allowed |-> None,
             boxes |-> f, boxShown |-> shown, label |-> words, readout |-> read,
             left |-> ReadoutTime, extensions |-> 0, suggestion |-> None, arm |-> None, error |-> FALSE,
             last |-> FALSE, row |-> "hint", live |-> NoLive, line |-> None, ticked |-> None,
             hold |-> None, lastEdited |-> None, usable |-> FALSE, stale |-> FALSE]
    BY <1>1, <1>3, <1>4, <1>6 DEF Built
  <1>t. /\ kind \in Kinds /\ "hint" \in Rows /\ 0 \in 0..3 /\ NoLive \in Live
        /\ TRUE \in BOOLEAN /\ FALSE \in BOOLEAN
        /\ None \in {None, "accepted", "cancelled", "interrupted"} /\ None \in {None, "new", "confirm"}
        /\ None \in {None} \cup 0..(Grace + 1) /\ None \in {None} \cup 0..(ArmWindow + 1)
        /\ None \in {None} \cup Suggested /\ None \in {None} \cup Line
        /\ None \in {None} \cup 0..TypedLimit /\ None \in {None} \cup 0..HoldLimit
    BY NoLiveIsLive DEF Rows
  <1>10. p \in PanelState
    <2>1. [kind |-> kind, open |-> TRUE, result |-> None, suspended |-> FALSE, allowed |-> None,
           boxes |-> f, boxShown |-> shown, label |-> words, readout |-> read,
           left |-> ReadoutTime, extensions |-> 0, suggestion |-> None, arm |-> None, error |-> FALSE,
           last |-> FALSE, row |-> "hint", live |-> NoLive, line |-> None, ticked |-> None,
           hold |-> None, lastEdited |-> None, usable |-> FALSE, stale |-> FALSE] \in PanelState
      BY <1>2, <1>5, <1>7, <1>8, <1>t DEF PanelState
    <2> QED
      BY <1>9, <2>1, Zenon
  <1>11. /\ p.kind = kind /\ p.boxes = f /\ p.open = TRUE /\ p.hold = None /\ p.suggestion = None
         /\ p.line = None /\ p.live = NoLive /\ p.row = "hint"
    BY <1>9
  <1> QED
    BY <1>1, <1>10, <1>11

LEMMA BuiltGood ==
  ASSUME NEW kind \in Kinds, NEW p, p = Built(kind)
  PROVE  Good(p) /\ p.open /\ p.hold = None
  <1>1. /\ p \in PanelState /\ p.kind = kind /\ p.boxes = [b \in Boxes(kind) |-> ""]
        /\ p.open = TRUE /\ p.hold = None /\ p.suggestion = None /\ p.line = None
        /\ p.live = NoLive /\ p.row = "hint"
    BY BuiltIs
  <1>2. IsPanel(p)
    BY <1>1, EmptyIsText DEF IsPanel
  <1>3. RowOK(p) /\ LineOK(p)
    BY <1>1 DEF RowOK, LineOK
  <1>4. ScoreOK(p)
    BY <1>1, NewBoxes DEF ScoreOK, New
  <1> QED
    BY <1>1, <1>2, <1>3, <1>4 DEF Good

LEMMA InitInv ==
  ASSUME Init
  PROVE  ShownInv
  <1>1. PICK shape \in Shapes :
          /\ platform = shape[1]
          /\ \/ platform = "macos" /\ MacInit(shape[2])
             \/ platform = "windows" /\ WinInit(shape[2])
    BY DEF Init
  <1>2. PICK kind : kind = shape[2]
    OBVIOUS
  <1>3. kind \in Kinds /\ platform \in {"macos", "windows"}
    BY <1>1, <1>2, ShapesAssumption
  <1>4. PICK p : p = Built(kind)
    OBVIOUS
  <1>5. Good(p) /\ p.open /\ p.hold = None
    BY <1>3, <1>4, BuiltGood
  <1>6. After(panel) /\ Held(panel) /\ timer = "due"
    <2>1. CASE platform = "macos" /\ MacInit(kind)
      <3>1. PICK answer \in Answers, may \in MayShow :
              panel = UpdateShowControls(Activity(p, answer), may)
        BY <1>4, <2>1 DEF MacInit
      <3>2. PICK q : q = Activity(p, answer)
        OBVIOUS
      <3>3. After(q)
        BY <1>5, <3>2, MacAnswered
      <3>4. After(panel)
        BY <3>1, <3>2, <3>3, ShowControlsKept, KeepsAfter DEF After
      <3> QED
        BY <2>1, <3>4 DEF Held, MacInit
    <2>2. CASE platform = "windows" /\ WinInit(kind)
      <3>1. PICK answer \in Answers : panel = WinActivity(p, answer)
        BY <1>4, <2>2 DEF WinInit
      <3>2. CASE answer = "Allowed"
        <4>1. Passed(p, panel)
          BY <1>5, <3>1, <3>2, WinPassed DEF WinPasses
        <4> QED
          BY <1>5, <2>2, <4>1, PassedAfter DEF Held, WinInit
      <3>3. CASE answer # "Allowed"
        <4>1. panel \in WinRejected(p)
          BY <3>1, <3>3 DEF WinRejected, Unclear
        <4> QED
          BY <1>5, <2>2, <4>1, WinUnclear DEF Held, WinInit
      <3> QED
        BY <3>2, <3>3
    <2> QED
      BY <1>1, <1>2, <2>1, <2>2
  <1> QED
    BY <1>3, <1>6, PermittedIsFresh DEF ShownInv, After, Held

-----------------------------------------------------------------------------
(* What holds of every panel *)

THEOREM ShownInvariant == Spec => []ShownInv
  BY InitInv, PanelKept, PTL DEF Spec

\* Every field of a panel stays in its type, whatever a handler makes of it.
THEOREM PanelTypes == Spec => []TypeOK
  <1>1. ShownInv => TypeOK
    BY DEF ShownInv, Good, TypeOK
  <1> QED
    BY <1>1, ShownInvariant, PTL

LEMMA BlankedIsNotPlain == Blanked(panel) => ~Plain
  BY DEF Blanked, Plain

\* A panel that waits for a busy core, or is closed, shows nothing that was typed, suggested or
\* read out.
THEOREM SuspendedIsBlank == Spec => []BlankWhileSuspended
  <1>1. ShownInv => BlankWhileSuspended
    BY BlankedIsNotPlain DEF ShownInv, BlankWhileSuspended
  <1> QED
    BY <1>1, ShownInvariant, PTL

\* What is on screen is never older than the grace since the last clear answer.
THEOREM PlainStaysFresh == Spec => []PlainIsFresh
  <1>1. ShownInv => PlainIsFresh
    BY BlankedIsNotPlain DEF ShownInv, PlainIsFresh
  <1> QED
    BY <1>1, ShownInvariant, PTL

\* The line under the boxes is about what they hold, whatever text the worker scored.
THEOREM AdviceStaysCurrent == Spec => []AdviceIsCurrent
  <1>1. ShownInv => AdviceIsCurrent
    BY DEF ShownInv, Good, RowOK, LineOK, AdviceIsCurrent, New
  <1> QED
    BY <1>1, ShownInvariant, PTL

=============================================================================
