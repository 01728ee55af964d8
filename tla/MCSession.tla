----------------------------- MODULE MCSession ------------------------------
(* Small instances of Session for TLC. *)
EXTENDS Session, TLC

MCFailureDelays == <<1, 2>>

\* Notes and fields are interchangeable.
MCSymmetry == Permutations(Note) \cup Permutations(Field)

\* The history that no property can tell apart any more: when a value that is no
\* longer shown was asked for, and admissions older than the window.
MCView ==
  << now, session, lastInside, wasDue, wrong,
     IF session.reveal = None THEN 0 ELSE <<shownAt, renewedAt>>,
     [item \in HiddenField |->
        IF lastAdmitted[item] # None /\ now < lastAdmitted[item] + RevealWindow
        THEN lastAdmitted[item] ELSE None] >>

\* The two halves of Session that one run explores: what locks the app and slows down
\* guesses, under settings that change; and what is shown and copied, under one setting.
MCPlain == [idle_minutes |-> 3, clipboard_clear_seconds |-> 1,
            lock_on_app_switch |-> TRUE, count_activity_anywhere |-> FALSE]
NothingDisclosed == \A item \in HiddenField : lastAdmitted[item] = None
NothingElse == session.settings = MCPlain /\ wrong.count = 0 /\ session.clipboard = None
MCHalves == (NothingDisclosed /\ now < MaxTime) \/ NothingElse
=============================================================================
