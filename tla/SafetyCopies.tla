---------------------------- MODULE SafetyCopies ----------------------------
(***************************************************************************)
(* The Safety Copies of crates/store as operators on the set of copies in  *)
(* the folder `safety/`: how a new copy is stamped, when none is needed,   *)
(* and which copies a save removes.  Times are Unix seconds as the caller  *)
(* reads them: a clock may be wrong in both directions.                    *)
(***************************************************************************)
EXTENDS Integers, FiniteSets

CONSTANTS
  None,              \* Option::None
  Bytes,             \* the contents a Vault file may have
  AutoKeep,          \* AUTO_SAFETY_KEEP
  DailyKeep,         \* DAILY_SAFETY_KEEP_SECS
  ReplacedKeep,      \* REPLACED_SAFETY_KEEP_SECS
  DayLength          \* DAY_SECS

ASSUME CopiesAssumption ==
  /\ AutoKeep \in Nat \ {0} /\ DayLength \in Nat \ {0}
  /\ DailyKeep \in Nat /\ ReplacedKeep \in Nat
  /\ None \notin Bytes

Kind == {"Automatic", "Replaced"}

\* A Safety Copy: its name (kind, stamp and same-second counter) and what it holds.
Copy == [kind : Kind, created_at : Int, n : Nat, bytes : Bytes]

\* The order of `numbered_safety_copies`.
Before(c, d) == \/ c.created_at < d.created_at
                \/ c.created_at = d.created_at /\ c.n < d.n

OfKind(copies, kind) == {c \in copies : c.kind = kind}
NewerThan(c, copies) == {d \in copies : Before(c, d)}
Newest(copies) == CHOOSE c \in copies : \A d \in copies : ~Before(c, d)
Oldest(copies) == {c \in copies : \A d \in copies : ~Before(d, c)}

AlreadyKept(copies, kind, bytes) ==
  copies # {} /\ Newest(copies).kind = kind /\ Newest(copies).bytes = bytes

\* Mutant: each kind counts its copies of a second for itself.
NewCopyPerKind(copies, kind, bytes, now) ==
  LET same == OfKind(copies, kind) IN
  IF same # {} /\ Newest(same).created_at >= now
  THEN [kind |-> kind, created_at |-> Newest(same).created_at,
        n |-> Newest(same).n + 1, bytes |-> bytes]
  ELSE [kind |-> kind, created_at |-> now, n |-> 0, bytes |-> bytes]

NewCopy(copies, kind, bytes, now) ==
  IF copies # {} /\ Newest(copies).created_at >= now
  THEN [kind |-> kind, created_at |-> Newest(copies).created_at,
        n |-> Newest(copies).n + 1, bytes |-> bytes]
  ELSE [kind |-> kind, created_at |-> now, n |-> 0, bytes |-> bytes]

-----------------------------------------------------------------------------
(* Retention *)

Day(at) == at \div DayLength

\* The first copy of its day, of all the copies of its kind that are still there.
DaysFirst(c, autos) ==
  \A d \in autos : Day(d.created_at) = Day(c.created_at) => ~Before(d, c)

TooOld(c, now, keep) == now - c.created_at > keep

\* Mutant: one copy too few is kept by count.
BeyondOneLess(autos) == {c \in autos : Cardinality(NewerThan(c, autos)) >= AutoKeep - 1}

BeyondKeep(autos) == {c \in autos : Cardinality(NewerThan(c, autos)) >= AutoKeep}

LaterInADay(copies) ==
  LET autos == OfKind(copies, "Automatic") IN
  {c \in BeyondKeep(autos) : ~DaysFirst(c, autos)}

\* Mutant: one save removes every daily copy that its clock calls too old.
AllOldDailies(copies, now) ==
  LET autos == OfKind(copies, "Automatic") IN
  {c \in BeyondKeep(autos) : DaysFirst(c, autos) /\ TooOld(c, now, DailyKeep)}

OldestDaily(copies, now) ==
  LET autos == OfKind(copies, "Automatic") IN
  Oldest({c \in BeyondKeep(autos) : DaysFirst(c, autos) /\ TooOld(c, now, DailyKeep)})

OldestReplaced(copies, now) ==
  LET replaced == OfKind(copies, "Replaced") IN
  Oldest({c \in replaced : NewerThan(c, replaced) # {} /\ TooOld(c, now, ReplacedKeep)})

\* What one save removes.
Expired(copies, now) ==
  LaterInADay(copies) \cup OldestDaily(copies, now) \cup OldestReplaced(copies, now)
=============================================================================
