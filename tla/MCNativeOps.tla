---------------------------- MODULE MCNativeOps -----------------------------
(* Small instances of NativeOps. *)
EXTENDS NativeOps

Live == {job \in jobs : core.pending # None /\ core.pending.id = job.id}

\* What can be told apart later: epochs and generations only by whether they are those of
\* the pending operation; workers that no operation waits for only by their number and by
\* whether one would save what it derived from an older Vault; an interruption only by
\* whether it hit the live one; the last commit only by whether it was fresh.
MCView ==
  <<[core EXCEPT !.epoch = 0, !.generation = 0,
       !.pending = IF @ = None THEN None
                   ELSE [@ EXCEPT !.epoch = IF @ = core.epoch THEN 0 ELSE 1,
                                  !.generation = IF @ = core.generation THEN 0 ELSE 1]],
    disk, chosen, made, files, confirmed, tampered, CommitsFresh,
    Live, Cardinality(jobs), \E job \in jobs : job.action = "change_password",
    {job \in Live : job.id > interrupted}>>
=============================================================================
