-------------------------------- MODULE Panels --------------------------------
(***************************************************************************)
(* One panel of any kind, on either platform: its handlers, and what goes  *)
(* on beside them.                                                         *)
(***************************************************************************)
EXTENDS MacPanel, WindowsPanel

CONSTANT Shapes  \* the platforms, and the kinds of panel on each

ASSUME ShapesAssumption == Shapes \subseteq {"macos", "windows"} \X Kinds

VARIABLE platform

Init ==
  \E shape \in Shapes :
    /\ platform = shape[1]
    /\ \/ platform = "macos" /\ MacInit(shape[2])
       \/ platform = "windows" /\ WinInit(shape[2])

Next ==
  /\ \/ platform = "macos" /\ MacNext
     \/ platform = "windows" /\ WinNext
     \/ Environment
  /\ UNCHANGED platform

all == <<vars, platform>>

\* The timer of the panel fires and the core is not busy each time; time passes; a worker ends.
\* Only Tick and Pass write timer, and a panel that is open may always take either.
TimerFires == panel.open /\ timer' = "done"
TimePasses == panel.open /\ timer' = "due"
Fairness == WF_timer(TimerFires) /\ WF_timer(TimePasses) /\ WF_panel(WorkerDone)

Spec == Init /\ [][Next]_all /\ Fairness
=============================================================================
