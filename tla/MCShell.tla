------------------------------ MODULE MCShell -------------------------------
(* Small instances of Shell. *)
EXTENDS Shell, TLC

\* Auto-lock after one moment; both answers to "lock when I switch to another app".
MCSettings == [idle_minutes : {1}, lock_on_app_switch : BOOLEAN,
               clipboard_clear_seconds : {1}, count_activity_anywhere : {FALSE}]
MCSwitchSetting == {s \in MCSettings : s.lock_on_app_switch}
MCPlainSetting == {s \in MCSettings : ~s.lock_on_app_switch}

\* The known apps are interchangeable.
MCSymmetry == Permutations(App)

MCDelays == <<1>>
MCBoth == BOOLEAN
MCAlways == {TRUE}

\* The two halves of Shell that one run explores: apps that come and go and the settings
\* file; and the clipboard and the focus, with no known app about.
MCNoCopies == /\ now <= 1
              /\ core.board.count = 0 /\ core.session.settings.lock_on_app_switch
              /\ inFlight["FocusLost"] + inFlight["FocusGained"] <= 1
MCNoApps   == /\ running = {} /\ wrong = 0 /\ ~core.session.settings.lock_on_app_switch
              /\ core.detected = {} /\ core.dismissed = None /\ core.failed_attempts = 0
MCHalves   == MCNoCopies \/ MCNoApps
=============================================================================
