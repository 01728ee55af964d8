------------------------------ MODULE MCStore -------------------------------
(* Small instances of Store for TLC. *)
EXTENDS Store, TLC

\* The contents are interchangeable.
MCSymmetry == Permutations(Bytes)

\* The two halves of Store that one run explores: deaths on the first day; and a clock that
\* is wrong on later days, without deaths and with every flush confirmed.
MCFirstDay == today = 0 /\ installs <= 3
MCNoDeaths == deaths = 0 /\ (op # None => op.copy = "Durable" /\ op.status = "Durable")
MCHalves   == MCFirstDay \/ MCNoDeaths

\* What the properties can tell apart: after a death nothing depends on what retention owes
\* by the true time, and later on nothing on what a power loss would leave.
MCView ==
  << vault, copies, op, bounds,
     IF deaths = 0 THEN <<owed, wrongReadings>> ELSE <<>>,
     IF MCFirstDay
     THEN <<vaultOnDisk, copiesOnDisk, promised, since, displaced, later>> ELSE <<>> >>
=============================================================================
