---------------------------- MODULE StoreProofs -----------------------------
(***************************************************************************)
(* What holds of Store for every value of its constants: every set of      *)
(* contents, every clock, every choice of faults, any number of calls and  *)
(* deaths.                                                                 *)
(***************************************************************************)
EXTENDS Store, FiniteSetTheorems, TLAPS

-----------------------------------------------------------------------------
(* The order of the copies *)

HasNewest(S) == \E c \in S : \A d \in S : ~Before(c, d)
WellOrdered(S) == \A T \in SUBSET S : T # {} => HasNewest(T)
Ordered(S) == \A c, d \in S : c = d \/ Before(c, d) \/ Before(d, c)

\* Stamps and counters order the copies strictly (`numbered_safety_copies`).
LEMMA BeforeIsStrict ==
  ASSUME NEW c \in Copy, NEW d \in Copy, NEW e \in Copy
  PROVE  /\ ~Before(c, c)
         /\ Before(c, d) /\ Before(d, e) => Before(c, e)
         /\ Before(c, d) => ~Before(d, c)
         /\ Before(c, e) /\ ~Before(d, e) => Before(c, d) \/ ~Before(c, e) \/ ~Before(d, c)
BY DEF Before, Copy

\* The newest copy, when there is one, is what `Newest` chooses.
LEMMA NewestChosen ==
  ASSUME NEW S, HasNewest(S)
  PROVE  Newest(S) \in S /\ \A d \in S : ~Before(Newest(S), d)
BY DEF HasNewest, Newest

\* A new copy is newer than all that are there, whatever the clock says
\* (`keep_safety_copy`).
LEMMA NewCopyIsNewer ==
  ASSUME NEW S \in SUBSET Copy, S = {} \/ HasNewest(S),
         NEW kind \in Kind, NEW bytes \in Bytes, NEW at \in Int
  PROVE  /\ NewCopy(S, kind, bytes, at) \in Copy
         /\ \A d \in S : Before(d, NewCopy(S, kind, bytes, at))
<1>1. CASE S = {}
  BY <1>1 DEF NewCopy, Copy
<1>2. CASE S # {}
  <2> DEFINE m == Newest(S)
  <2>1. m \in S /\ \A d \in S : ~Before(m, d)
    BY <1>2, NewestChosen
  <2>2. m \in Copy
    BY <2>1
  <2>3. NewCopy(S, kind, bytes, at) =
          IF m.created_at >= at
          THEN [kind |-> kind, created_at |-> m.created_at, n |-> m.n + 1, bytes |-> bytes]
          ELSE [kind |-> kind, created_at |-> at, n |-> 0, bytes |-> bytes]
    BY <1>2 DEF NewCopy
  <2> HIDE DEF m
  <2>4. NewCopy(S, kind, bytes, at) \in Copy
    BY <2>2, <2>3 DEF Copy
  <2>5. ASSUME NEW d \in S
        PROVE  Before(d, NewCopy(S, kind, bytes, at))
    <3>1. d \in Copy /\ ~Before(m, d)
      BY <2>1
    <3> QED
      BY <2>2, <2>3, <3>1 DEF Before, Copy
  <2> QED
    BY <2>4, <2>5
<1> QED
  BY <1>1, <1>2

\* One more copy leaves every set of copies with a newest one.
LEMMA WellOrderedWithOneMore ==
  ASSUME NEW S \in SUBSET Copy, WellOrdered(S), NEW x \in Copy
  PROVE  WellOrdered(S \cup {x})
<1> SUFFICES ASSUME NEW T \in SUBSET (S \cup {x}), T # {}
             PROVE  HasNewest(T)
  BY DEF WellOrdered
<1>1. CASE T \ {x} = {}
  <2>1. T = {x}
    BY <1>1
  <2> QED
    BY <2>1, BeforeIsStrict DEF HasNewest
<1>2. CASE T \ {x} # {}
  <2>1. HasNewest(T \ {x})
    BY <1>2 DEF WellOrdered
  <2>2. PICK c \in T \ {x} : \A d \in T \ {x} : ~Before(c, d)
    BY <2>1 DEF HasNewest
  <2>3. CASE Before(c, x)
    <3>1. x \in T \/ x \notin T
      OBVIOUS
    <3>2. CASE x \notin T
      BY <2>2, <3>2 DEF HasNewest
    <3>3. CASE x \in T
      <4>1. ASSUME NEW d \in T PROVE ~Before(x, d)
        <5>1. c \in Copy /\ d \in Copy
          OBVIOUS
        <5> QED
          BY <2>2, <2>3, <5>1, BeforeIsStrict
      <4> QED
        BY <3>3, <4>1 DEF HasNewest
    <3> QED
      BY <3>2, <3>3
  <2>4. CASE ~Before(c, x)
    <3>1. \A d \in T : ~Before(c, d)
      BY <2>2, <2>4
    <3> QED
      BY <3>1 DEF HasNewest
  <2> QED
    BY <2>3, <2>4
<1> QED
  BY <1>1, <1>2

\* Retention never removes the newest copy of all (`apply_retention`).
LEMMA NewestStays ==
  ASSUME NEW S \in SUBSET Copy, NEW m \in S, \A d \in S : ~Before(m, d), NEW at
  PROVE  m \notin Expired(S, at)
<1>1. \A kind : NewerThan(m, OfKind(S, kind)) = {}
  BY DEF NewerThan, OfKind
<1>2. Cardinality({}) = 0
  BY FS_EmptySet
<1>3. m \notin BeyondKeep(OfKind(S, "Automatic"))
  <2>1. ~(0 >= AutoKeep)
    BY CopiesAssumption
  <2> QED
    BY <1>1, <1>2, <2>1 DEF BeyondKeep
<1>4. m \notin LaterInADay(S) /\ m \notin OldestDaily(S, at)
  BY <1>3 DEF LaterInADay, OldestDaily, Oldest
<1>5. m \notin OldestReplaced(S, at)
  BY <1>1 DEF OldestReplaced, Oldest
<1> QED
  BY <1>4, <1>5 DEF Expired

-----------------------------------------------------------------------------
(* The inductive invariant *)

\* A file that was completely written and flushed.
Whole == [bytes : Bytes, synced : {TRUE}]

\* Only whole files are ever in place, the one being written is whole by the time it
\* is renamed, and a call that will report Durable has left a power loss one choice.
VaultInv ==
  /\ vault \in vaultOnDisk
  /\ vaultOnDisk \subseteq Whole \cup {None}
  /\ op # None => op.temp.bytes \in Bytes
  /\ op # None /\ op.stage # "written" => op.temp \in Whole
  /\ op # None /\ op.stage \in {"flush_vault", "retain", "return"} => vault = op.temp
  /\ op # None /\ \/ op.stage = "retain"
                  \/ op.stage = "return" /\ op.status = "Durable"
     => vaultOnDisk = {vault}

\* The copies that are in the folder, or were when it was last flushed, are in one
\* order, and nothing that a power loss may bring back is newer than what is there.
CopiesInv ==
  /\ Ordered(copies \cup copiesOnDisk)
  /\ WellOrdered(copies \cup copiesOnDisk)
  /\ \A d \in copiesOnDisk : \E c \in copies : ~Before(c, d)

\* No more than n copies of its kind are newer than the copy, or will be if they come back.
FewNewer(c, S, n) == Cardinality(NewerThan(c, OfKind(S, c.kind))) <= n

\* A copy of this kind with these contents survives a power loss, and retention until n more
\* copies of its kind are taken.
KeptIn(folder, onDisk, kind, bytes, n) ==
  \E c \in folder \cap onDisk :
    c.kind = kind /\ c.bytes = bytes /\ FewNewer(c, folder \cup onDisk, n)

Kept(kind, bytes, n) == KeptIn(copies, copiesOnDisk, kind, bytes, n)

\* How a call comes to promise the copy it took: it is the newest of all when it is flushed,
\* and no other is taken before the call returns.
PromisedKept ==
  displaced # None /\ later < Outlives(displaced.kind) =>
    Kept(displaced.kind, displaced.bytes, later)
TakenInTime ==
  op # None /\ op.took => op.stage \notin {"written", "copy"} /\ op.previous \in Bytes
NewestIsTaken ==
  At("flush_copy") =>
    copies # {} /\ Newest(copies).kind = op.kind /\ Newest(copies).bytes = op.previous
TakenIsKept ==
  op # None /\ op.took /\ op.copy = "Durable" /\ op.stage # "flush_copy" =>
    Kept(op.kind, op.previous, 0)

DisplacedInv == PromisedKept /\ TakenInTime /\ NewestIsTaken /\ TakenIsKept

\* What only a clock that is ahead can remove: the copy is in the folder and on the disk, and
\* no other copy is earlier in its day.
Safe(c) ==
  /\ c \in copies \cap copiesOnDisk
  /\ c.kind = "Automatic" => DaysFirst(c, OfKind(copies \cup copiesOnDisk, "Automatic"))

\* A call that reads a clock that is ahead and has not reached its retention.
Ahead == op # None /\ op.stage # "return" /\ op.now > today

\* The copies that ever went early, `lost`: no more than wrong readings have done their harm.
\* LostEarly alone does not say so, because a power loss may bring a copy back.
OwedInv(kind, keep) ==
  \E lost \in SUBSET OfKind(owed, kind) :
    /\ IsFiniteSet(lost)
    /\ Cardinality(lost) + (IF Ahead THEN 1 ELSE 0) <= wrongReadings
    /\ \A c \in OfKind(owed, kind) \ lost : TooOld(c, today, keep) \/ Safe(c)

Finite == IsFiniteSet(copies) /\ IsFiniteSet(copiesOnDisk)

IInv ==
  /\ TypeOK /\ VaultInv /\ CopiesInv /\ DurableSurvives
  /\ Finite /\ DisplacedInv
  /\ OwedInv("Automatic", DailyKeep) /\ OwedInv("Replaced", ReplacedKeep)

\* What holds of a set of copies holds of every part of it.
LEMMA PartsOfOrdered ==
  ASSUME NEW S, NEW T \in SUBSET S, Ordered(S), WellOrdered(S)
  PROVE  Ordered(T) /\ WellOrdered(T)
BY DEF Ordered, WellOrdered

\* A folder with copies has a newest one.
LEMMA FolderHasNewest ==
  ASSUME CopiesInv
  PROVE  copies = {} \/ HasNewest(copies)
BY DEF CopiesInv, WellOrdered

\* Nothing but whole files is ever in place, so a crash finds them as they are.
LEMMA FoundAsIs ==
  ASSUME VaultInv, NEW file \in vaultOnDisk
  PROVE  AsFound(file) = file /\ (file = None \/ file.bytes \in Bytes)
BY DEF VaultInv, Whole, AsFound

\* The state a fresh folder starts from.
LEMMA InitIInv == Init => IInv
<1> SUFFICES ASSUME Init PROVE IInv
  OBVIOUS
<1> USE DEF Init
<1>1. TypeOK
  BY StoreAssumption DEF TypeOK
<1>2. VaultInv
  BY DEF VaultInv
<1>3. CopiesInv
  BY DEF CopiesInv, Ordered, WellOrdered
<1>4. DurableSurvives
  BY DEF DurableSurvives
<1>5. Finite
  BY FS_EmptySet DEF Finite
<1>6. DisplacedInv
  BY DEF DisplacedInv, PromisedKept, TakenInTime, NewestIsTaken, TakenIsKept, At
<1>7. ASSUME NEW kind, NEW keep PROVE OwedInv(kind, keep)
  BY FS_EmptySet DEF OwedInv, OfKind, Ahead
<1> QED
  BY <1>1, <1>2, <1>3, <1>4, <1>5, <1>6, <1>7 DEF IInv

-----------------------------------------------------------------------------
(* One step: types *)

\* A call starts with a record of its type.
LEMMA CallBegins ==
  ASSUME NEW kind \in Kind, NEW now \in Int, NEW temp \in VaultFile
  PROVE  [stage |-> "written", kind |-> kind, now |-> now, temp |-> temp,
          previous |-> None, took |-> FALSE, copy |-> "Durable",
          status |-> "Durable"] \in Call
BY DEF Call, Stage, Status

\* Every step keeps every variable within its type; the stamp of a new copy is the one
\* that needs the order of the copies.
LEMMA TypeStep == IInv /\ [Next]_vars => TypeOK'
<1> SUFFICES ASSUME TypeOK, VaultInv, CopiesInv, DisplacedInv, [Next]_vars PROVE TypeOK'
  BY DEF IInv
<1> USE DEF TypeOK
<1>0. /\ op # None => op \in Call
      /\ vault # None => vault.bytes \in Bytes
  BY DEF VaultInv, Whole
<1>1. CASE Begin
  <2>1. PICK bytes \in Bytes, kind \in Kind, now \in Readings \cup {today} :
          /\ op' = [stage |-> "written", kind |-> kind, now |-> now,
                    temp |-> [bytes |-> bytes, synced |-> FALSE], previous |-> None,
                    took |-> FALSE, copy |-> "Durable", status |-> "Durable"]
          /\ wrongReadings' = IF now = today THEN wrongReadings ELSE wrongReadings + 1
    BY <1>1 DEF Begin
  <2>2. now \in Int
    <3>1. Readings \subseteq Int
      BY StoreAssumption
    <3>2. today \in Int
      OBVIOUS
    <3> QED
      BY <3>1, <3>2
  <2>3. [bytes |-> bytes, synced |-> FALSE] \in VaultFile
    BY DEF VaultFile
  <2>4. op' \in Call
    BY <2>1, <2>2, <2>3, CallBegins
  <2>5. {later, wrongReadings, today, installs, deaths}' \subseteq Nat
    BY <1>1, <2>1 DEF Begin
  <2> QED
    BY <1>1, <2>4, <2>5 DEF Begin, disk
<1>2. CASE Verify
  <2>1. op \in Call /\ op' = [op EXCEPT !.stage = "copy", !.temp = Synced(@)]
    BY <1>2, <1>0 DEF Verify, At
  <2>2. Synced(op.temp) \in VaultFile
    BY <2>1 DEF Synced, Call, VaultFile
  <2>3. op' \in Call
    BY <2>1, <2>2 DEF Call, Stage
  <2> QED
    BY <1>2, <2>3 DEF Verify, disk, history, bounds
<1>3. CASE Refuse
  BY <1>3 DEF Refuse, disk, history, bounds
<1>4. CASE NothingToKeep
  <2>1. op \in Call /\ op' = [op EXCEPT !.stage = "commit"]
    BY <1>4, <1>0 DEF NothingToKeep, At, Proceed
  <2>2. op' \in Call
    BY <2>1 DEF Call, Stage
  <2> QED
    BY <1>4, <2>2 DEF NothingToKeep, disk, history, bounds
<1>5. CASE CopyAlreadyThere
  <2>1. op \in Call /\ op' = [op EXCEPT !.stage = "commit", !.previous = vault.bytes]
    BY <1>5, <1>0 DEF CopyAlreadyThere, At
  <2>2. op' \in Call
    BY <1>0, <1>5, <2>1 DEF Call, Stage, CopyAlreadyThere
  <2> QED
    BY <1>5, <2>2 DEF CopyAlreadyThere, disk, history, bounds
<1>6. CASE KeepCopy
  <2>1. op \in Call /\ vault.bytes \in Bytes
    BY <1>6, <1>0 DEF KeepCopy, At
  <2>2. op.kind \in Kind /\ op.now \in Int
    BY <2>1 DEF Call
  <2>3. NewCopy(copies, op.kind, vault.bytes, op.now) \in Copy
    BY <2>1, <2>2, FolderHasNewest, NewCopyIsNewer
  <2>4. op' = [op EXCEPT !.stage = "flush_copy", !.previous = vault.bytes, !.took = TRUE]
    BY <1>6 DEF KeepCopy
  <2>5. op' \in Call
    BY <2>1, <2>4 DEF Call, Stage
  <2>6. copies' \subseteq Copy
    BY <1>6, <2>3 DEF KeepCopy
  <2>7. {later, wrongReadings, today, installs, deaths}' \subseteq Nat
    BY <1>6 DEF KeepCopy, bounds
  <2> QED
    BY <1>6, <2>5, <2>6, <2>7 DEF KeepCopy
<1>7. CASE CopyFlushed
  <2>1. op \in Call /\ op' = [op EXCEPT !.stage = "commit"]
    BY <1>7, <1>0 DEF CopyFlushed, At, Proceed
  <2>2. op' \in Call
    BY <2>1 DEF Call, Stage
  <2>3. owed' \subseteq Copy
    BY <1>7 DEF CopyFlushed, Owed
  <2> QED
    BY <1>7, <2>2, <2>3 DEF CopyFlushed, bounds
<1>8. CASE CopyUncertain
  <2>1. op \in Call /\ op' = [op EXCEPT !.stage = "commit", !.copy = "Uncertain"]
    BY <1>8, <1>0 DEF CopyUncertain, At
  <2>2. op' \in Call
    BY <2>1 DEF Call, Stage, Status
  <2> QED
    BY <1>8, <2>2 DEF CopyUncertain, disk, history, bounds
<1>9. CASE Commit
  <2>1. op \in Call /\ op' = [op EXCEPT !.stage = "flush_vault"]
    BY <1>9, <1>0 DEF Commit, At, Proceed
  <2>2. op' \in Call
    BY <2>1 DEF Call, Stage
  <2>3. op.temp \in VaultFile /\ op.temp.bytes \in Bytes
    BY <1>9, <2>1 DEF Commit, At, VaultInv, Call
  <2> QED
    BY <1>9, <2>2, <2>3 DEF Commit, bounds
<1>10. CASE VaultFlushed
  <2>1. op \in Call /\ op' = [op EXCEPT !.stage = "retain"]
    BY <1>10, <1>0 DEF VaultFlushed, At, Proceed
  <2>2. op' \in Call
    BY <2>1 DEF Call, Stage
  <2> QED
    BY <1>10, <2>2 DEF VaultFlushed, history, bounds
<1>11. CASE VaultUncertain
  <2>1. op \in Call /\ op' = [op EXCEPT !.stage = "return", !.status = "Uncertain"]
    BY <1>11, <1>0 DEF VaultUncertain, At
  <2>2. op' \in Call
    BY <2>1 DEF Call, Stage, Status
  <2> QED
    BY <1>11, <2>2 DEF VaultUncertain, disk, history, bounds
<1>12. CASE ApplyRetention
  <2>1. op \in Call /\ op' = [op EXCEPT !.stage = "return"]
    BY <1>12, <1>0 DEF ApplyRetention, At, Proceed
  <2>2. op' \in Call
    BY <2>1 DEF Call, Stage
  <2> QED
    BY <1>12, <2>2 DEF ApplyRetention, history, bounds
<1>13. CASE Return
  <2>1. op \in Call /\ vault.bytes \in Bytes
    BY <1>13, <1>0 DEF Return, At, VaultInv
  <2>2. op.previous \in Bytes \cup {None}
    BY <2>1 DEF Call
  <2>3. {later, wrongReadings, today, installs, deaths}' \subseteq Nat
    BY <1>13 DEF Return, bounds
  <2>4. displaced' \in [kind : Kind, bytes : Bytes] \cup {None} /\ retried' \in Bytes \cup {None}
    <3>1. op.kind \in Kind /\ (op.took => op.previous \in Bytes)
      BY <1>13, <2>1 DEF Return, At, DisplacedInv, TakenInTime, Call
    <3> QED
      BY <1>13, <2>2, <3>1 DEF Return
  <2>5. promised' \in Bytes \cup {None} /\ since' \subseteq Bytes
    BY <1>13, <2>1 DEF Return
  <2> QED
    BY <1>13, <2>3, <2>4, <2>5 DEF Return, disk
<1>14. CASE Killed
  BY <1>14 DEF Killed, disk, history
<1>15. CASE PowerLoss
  <2>1. PICK file \in vaultOnDisk : vault' = AsFound(file) /\ vaultOnDisk' = {vault'}
    BY <1>15 DEF PowerLoss
  <2>2. vault' \in VaultFile \cup {None}
    BY <2>1, FoundAsIs
  <2>3. copies' \subseteq Copy /\ copiesOnDisk' \subseteq Copy
    BY <1>15 DEF PowerLoss
  <2> QED
    BY <1>15, <2>1, <2>2, <2>3 DEF PowerLoss, history
<1>16. CASE TimePasses
  BY <1>16 DEF TimePasses, disk, history
<1>17. CASE UNCHANGED vars
  BY <1>17 DEF vars, disk, history, bounds
<1> QED
  BY <1>1, <1>2, <1>3, <1>4, <1>5, <1>6, <1>7, <1>8, <1>9, <1>10, <1>11, <1>12,
     <1>13, <1>14, <1>15, <1>16, <1>17 DEF Next

-----------------------------------------------------------------------------
(* One step: the file *)

\* The stages that touch neither vault.enote nor how far a power loss may take it.
LEMMA VaultLeftAlone ==
  ASSUME VaultInv, vault' = vault, vaultOnDisk' = vaultOnDisk,
         \/ op' = None
         \/ /\ op # None /\ op.stage # "written"
            /\ op'.temp = op.temp /\ op'.stage \in {"flush_copy", "commit"}
         \/ op' = op
  PROVE  VaultInv'
BY DEF VaultInv

\* Every step keeps whole files in place.
LEMMA VaultStep == IInv /\ [Next]_vars => VaultInv'
<1> SUFFICES ASSUME TypeOK, VaultInv, [Next]_vars PROVE VaultInv'
  BY DEF IInv
<1>0. op # None => op \in Call
  BY DEF TypeOK
<1>1. CASE Begin
  <2>1. PICK bytes \in Bytes, kind \in Kind, now \in Readings \cup {today} :
          op' = [stage |-> "written", kind |-> kind, now |-> now,
                 temp |-> [bytes |-> bytes, synced |-> FALSE], previous |-> None,
                 took |-> FALSE, copy |-> "Durable", status |-> "Durable"]
    BY <1>1 DEF Begin
  <2>2. op'.stage = "written" /\ op'.temp.bytes \in Bytes
    BY <2>1
  <2> QED
    BY <1>1, <2>2 DEF Begin, disk, VaultInv
<1>2. CASE Verify
  <2>1. op \in Call /\ op.temp.bytes \in Bytes
    BY <1>2, <1>0 DEF Verify, At, VaultInv
  <2>2. op' = [op EXCEPT !.stage = "copy", !.temp = Synced(@)]
    BY <1>2 DEF Verify
  <2>3. op'.stage = "copy" /\ op'.temp = Synced(op.temp)
    BY <2>1, <2>2 DEF Call
  <2>4. Synced(op.temp) \in Whole
    BY <2>1 DEF Synced, Call, VaultFile, Whole
  <2>5. op'.temp.bytes \in Bytes
    BY <2>3, <2>4 DEF Whole
  <2> QED
    BY <1>2, <2>3, <2>4, <2>5 DEF Verify, disk, VaultInv
<1>3. CASE Refuse \/ Killed
  BY <1>3, VaultLeftAlone DEF Refuse, Killed, disk
<1>4. CASE NothingToKeep \/ CopyAlreadyThere \/ KeepCopy \/ CopyFlushed \/ CopyUncertain
  <2>1. op \in Call /\ op.stage # "written" /\ vault' = vault /\ vaultOnDisk' = vaultOnDisk
    BY <1>4, <1>0 DEF NothingToKeep, CopyAlreadyThere, KeepCopy, CopyFlushed,
                      CopyUncertain, At, disk
  <2>2. op'.temp = op.temp /\ op'.stage \in {"flush_copy", "commit"}
    BY <1>4, <2>1 DEF NothingToKeep, CopyAlreadyThere, KeepCopy, CopyFlushed,
                      CopyUncertain, Proceed, Call
  <2>3. op # None
    BY <1>4 DEF NothingToKeep, CopyAlreadyThere, KeepCopy, CopyFlushed, CopyUncertain, At
  <2> QED
    BY <2>1, <2>2, <2>3, VaultLeftAlone
<1>5. CASE Commit
  <2>1. op \in Call /\ op.temp \in Whole /\ op.temp.bytes \in Bytes
    BY <1>5, <1>0 DEF Commit, At, VaultInv
  <2>2. op'.stage = "flush_vault" /\ op'.temp = op.temp
    BY <1>5, <2>1 DEF Commit, Proceed, Call
  <2> QED
    BY <1>5, <2>1, <2>2 DEF Commit, VaultInv
<1>6. CASE VaultFlushed \/ VaultUncertain
  <2>1. op \in Call /\ op # None /\ op.stage = "flush_vault"
    BY <1>6, <1>0 DEF VaultFlushed, VaultUncertain, At
  <2>2. vault = op.temp /\ op.temp \in Whole /\ op.temp.bytes \in Bytes
    BY <2>1 DEF VaultInv
  <2>3. CASE VaultFlushed
    <3>1. op'.stage = "retain" /\ op'.temp = op.temp
      BY <2>1, <2>3 DEF VaultFlushed, Proceed, Call
    <3> QED
      BY <2>2, <2>3, <3>1 DEF VaultFlushed, VaultInv
  <2>4. CASE VaultUncertain
    <3>1. op'.stage = "return" /\ op'.temp = op.temp /\ op'.status = "Uncertain"
      BY <2>1, <2>4 DEF VaultUncertain, Call
    <3> QED
      BY <2>2, <2>4, <3>1 DEF VaultUncertain, disk, VaultInv
  <2> QED
    BY <1>6, <2>3, <2>4
<1>7. CASE ApplyRetention
  <2>1. op \in Call /\ op # None /\ op.stage = "retain"
    BY <1>7, <1>0 DEF ApplyRetention, At
  <2>2. op'.stage = "return" /\ op'.temp = op.temp
    BY <1>7, <2>1 DEF ApplyRetention, Proceed, Call
  <2> QED
    BY <1>7, <2>1, <2>2 DEF ApplyRetention, VaultInv
<1>8. CASE Return
  BY <1>8, VaultLeftAlone DEF Return, disk
<1>9. CASE PowerLoss
  <2>1. PICK file \in vaultOnDisk : vault' = AsFound(file) /\ vaultOnDisk' = {vault'}
    BY <1>9 DEF PowerLoss
  <2>2. vault' \in Whole \cup {None}
    BY <2>1, FoundAsIs DEF VaultInv
  <2> QED
    BY <1>9, <2>1, <2>2 DEF PowerLoss, VaultInv
<1>10. CASE TimePasses \/ UNCHANGED vars
  BY <1>10, VaultLeftAlone DEF TimePasses, vars, disk
<1> QED
  BY <1>1, <1>2, <1>3, <1>4, <1>5, <1>6, <1>7, <1>8, <1>9, <1>10 DEF Next

-----------------------------------------------------------------------------
(* One step: the copies *)

\* The copy a call takes is newer than all that are there and all that may come back.
LEMMA TakenIsNewest ==
  ASSUME TypeOK, VaultInv, CopiesInv, KeepCopy
  PROVE  LET x == NewCopy(copies, op.kind, vault.bytes, op.now)
         IN  /\ x \in Copy /\ x.kind = op.kind /\ x.bytes = vault.bytes
             /\ \A d \in copies \cup copiesOnDisk : Before(d, x)
<1> DEFINE x == NewCopy(copies, op.kind, vault.bytes, op.now)
<1>1. op \in Call /\ vault.bytes \in Bytes
  BY DEF KeepCopy, At, TypeOK, VaultInv, Whole
<1>2. op.kind \in Kind /\ op.now \in Int
  BY <1>1 DEF Call
<1>3. x \in Copy /\ \A d \in copies : Before(d, x)
  BY <1>1, <1>2, FolderHasNewest, NewCopyIsNewer DEF TypeOK
<1>4. x.kind = op.kind /\ x.bytes = vault.bytes
  BY DEF NewCopy
<1> HIDE DEF x
<1>5. ASSUME NEW d \in copiesOnDisk PROVE Before(d, x)
  <2>1. PICK c \in copies : ~Before(c, d)
    BY DEF CopiesInv
  <2>2. c \in Copy /\ d \in Copy /\ Before(c, x)
    BY <1>3 DEF TypeOK
  <2> QED
    BY <1>3, <2>1, <2>2 DEF Before, Copy
<1> QED
  BY <1>3, <1>4, <1>5 DEF x

\* Every step keeps one order among the copies, and none on disk newer than all there.
LEMMA CopiesStep == IInv /\ [Next]_vars => CopiesInv'
<1> SUFFICES ASSUME TypeOK, VaultInv, CopiesInv, [Next]_vars PROVE CopiesInv'
  BY DEF IInv
<1> DEFINE all == copies \cup copiesOnDisk
<1>0. all \in SUBSET Copy /\ copies \in SUBSET Copy
  BY DEF TypeOK
<1>1. ASSUME UNCHANGED <<copies, copiesOnDisk>>
      PROVE  CopiesInv'
  BY <1>1 DEF CopiesInv
<1>2. CASE KeepCopy
  <2> DEFINE x == NewCopy(copies, op.kind, vault.bytes, op.now)
  <2>1. x \in Copy /\ \A d \in all : Before(d, x)
    BY <1>2, TakenIsNewest
  <2>2. copies' = copies \cup {x} /\ copiesOnDisk' = copiesOnDisk
    BY <1>2 DEF KeepCopy
  <2> HIDE DEF x
  <2>3. Ordered(all \cup {x})
    BY <2>1 DEF Ordered, CopiesInv
  <2>4. WellOrdered(all \cup {x})
    BY <1>0, <2>1, WellOrderedWithOneMore DEF CopiesInv
  <2>5. (copies \cup copiesOnDisk)' = all \cup {x}
    BY <2>2
  <2>6. (\A d \in copiesOnDisk : \E c \in copies : ~Before(c, d))'
    BY <2>2 DEF CopiesInv
  <2> QED
    BY <2>3, <2>4, <2>5, <2>6 DEF CopiesInv
<1>3. CASE CopyFlushed
  <2>1. copies' = copies /\ copiesOnDisk' = copies
    BY <1>3 DEF CopyFlushed
  <2>2. Ordered(copies) /\ WellOrdered(copies)
    BY PartsOfOrdered DEF CopiesInv
  <2>3. \A d \in copies : ~Before(d, d)
    BY <1>0, BeforeIsStrict
  <2>4. (copies \cup copiesOnDisk)' = copies
    BY <2>1
  <2> QED
    BY <2>1, <2>2, <2>3, <2>4 DEF CopiesInv
<1>4. CASE ApplyRetention
  <2>1. PICK kept : copies' = copies \ (Expired(copies, op.now) \ kept)
    BY <1>4 DEF ApplyRetention
  <2>2. copiesOnDisk' = copiesOnDisk
    BY <1>4 DEF ApplyRetention
  <2>3. (copies \cup copiesOnDisk)' \in SUBSET all
    BY <2>1, <2>2
  <2>4. Ordered((copies \cup copiesOnDisk)') /\ WellOrdered((copies \cup copiesOnDisk)')
    BY <2>3, PartsOfOrdered DEF CopiesInv
  <2>5. ASSUME NEW d \in copiesOnDisk
        PROVE  \E c \in copies' : ~Before(c, d)
    <3>1. PICK c \in copies : ~Before(c, d)
      BY DEF CopiesInv
    <3>2. PICK m \in copies : \A e \in copies : ~Before(m, e)
      BY <3>1, FolderHasNewest DEF HasNewest
    <3>3. m \in copies'
      BY <1>0, <2>1, <3>2, NewestStays
    <3>4. ~Before(m, d)
      <4>1. m \in Copy /\ c \in Copy /\ d \in Copy /\ ~Before(m, c)
        BY <1>0, <3>2
      <4> QED
        BY <3>1, <4>1 DEF Before, Copy
    <3> QED
      BY <3>3, <3>4
  <2> QED
    BY <2>2, <2>4, <2>5 DEF CopiesInv
<1>5. CASE PowerLoss
  <2>1. copiesOnDisk' = copies' /\ copies' \in SUBSET all
    BY <1>5 DEF PowerLoss
  <2>2. (copies \cup copiesOnDisk)' = copies'
    BY <2>1
  <2>3. Ordered(copies') /\ WellOrdered(copies')
    BY <2>1, PartsOfOrdered DEF CopiesInv
  <2>4. \A d \in copies' : ~Before(d, d)
    BY <1>0, <2>1, BeforeIsStrict
  <2> QED
    BY <2>1, <2>2, <2>3, <2>4 DEF CopiesInv
<1>6. CASE \/ Begin \/ Verify \/ Refuse \/ NothingToKeep \/ CopyAlreadyThere
           \/ CopyUncertain \/ Commit \/ VaultFlushed \/ VaultUncertain \/ Return
           \/ Killed \/ TimePasses \/ UNCHANGED vars
  <2>1. UNCHANGED <<copies, copiesOnDisk>>
    BY <1>6 DEF Begin, Verify, Refuse, NothingToKeep, CopyAlreadyThere, CopyUncertain,
                Commit, VaultFlushed, VaultUncertain, Return, Killed, TimePasses, vars, disk
  <2> QED
    BY <1>1, <2>1
<1> QED
  BY <1>2, <1>3, <1>4, <1>5, <1>6 DEF Next
-----------------------------------------------------------------------------
(* One step: what was reported Durable *)

\* Every step leaves a power loss no choice but the promised version or a later one.
LEMMA DurableStep == IInv /\ [Next]_vars => DurableSurvives'
<1> SUFFICES ASSUME IInv, [Next]_vars PROVE DurableSurvives'
  OBVIOUS
<1> DEFINE Good(file) == file # None /\ file.bytes \in {promised} \cup since
<1>0. VaultInv /\ VaultInv'
  BY VaultStep DEF IInv
<1>1. promised # None => \A file \in vaultOnDisk : Good(file)
  <2>1. \A file \in vaultOnDisk : AsFound(file) = file
    BY <1>0, FoundAsIs
  <2> QED
    BY <2>1 DEF DurableSurvives, IInv
<1>2. ASSUME promised' # None => \A file \in vaultOnDisk' : Good(file)'
      PROVE  DurableSurvives'
  <2>1. ASSUME NEW file \in vaultOnDisk' PROVE AsFound(file) = file
    BY <1>0 DEF VaultInv, Whole, AsFound
  <2>2. vault' \in vaultOnDisk'
    BY <1>0 DEF VaultInv
  <2> QED
    BY <1>2, <2>1, <2>2 DEF DurableSurvives
<1>3. ASSUME UNCHANGED <<promised, since>>, vaultOnDisk' \subseteq vaultOnDisk
      PROVE  DurableSurvives'
  BY <1>1, <1>2, <1>3
<1>4. CASE \/ Begin \/ Verify \/ Refuse \/ NothingToKeep \/ CopyAlreadyThere \/ KeepCopy
           \/ CopyFlushed \/ CopyUncertain \/ VaultUncertain \/ ApplyRetention
           \/ Killed \/ TimePasses \/ UNCHANGED vars
  <2>1. UNCHANGED <<promised, since, vaultOnDisk>>
    BY <1>4 DEF Begin, Verify, Refuse, NothingToKeep, CopyAlreadyThere, KeepCopy,
                CopyFlushed, CopyUncertain, VaultUncertain, ApplyRetention, Killed,
                TimePasses, vars, disk, history
  <2> QED
    BY <1>3, <2>1
<1>5. CASE VaultFlushed
  <2>1. vaultOnDisk' = {vault} /\ UNCHANGED <<promised, since>>
    BY <1>5 DEF VaultFlushed, history
  <2> QED
    BY <1>0, <1>3, <2>1 DEF VaultInv
<1>6. CASE Commit
  <2>1. op.temp \in Whole
    BY <1>0, <1>6 DEF Commit, At, VaultInv
  <2>2. op.temp # None
    BY <2>1, StoreAssumption DEF Whole, VaultFile
  <2>3. /\ vaultOnDisk' = vaultOnDisk \cup {op.temp}
        /\ promised' = promised /\ since' = since \cup {op.temp.bytes}
    BY <1>6 DEF Commit
  <2> QED
    BY <1>1, <1>2, <2>2, <2>3
<1>7. CASE Return
  <2>1. CASE Returned(op) = "Durable"
    <3>1. op # None /\ op.stage = "return" /\ op.status = "Durable"
      BY <1>7, <2>1 DEF Return, At, Returned
    <3>2. vaultOnDisk = {vault} /\ vault \in Whole
      BY <1>0, <3>1 DEF VaultInv
    <3>3. vault # None
      BY <3>2, StoreAssumption DEF Whole, VaultFile
    <3>4. promised' = vault.bytes /\ vaultOnDisk' = vaultOnDisk
      BY <1>7, <2>1 DEF Return, disk
    <3> QED
      BY <1>2, <3>2, <3>3, <3>4
  <2>2. CASE Returned(op) # "Durable"
    <3>1. UNCHANGED <<promised, since, vaultOnDisk>>
      BY <1>7, <2>2 DEF Return, disk
    <3> QED
      BY <1>3, <3>1
  <2> QED
    BY <2>1, <2>2
<1>8. CASE PowerLoss
  <2>1. PICK file \in vaultOnDisk : vault' = AsFound(file) /\ vaultOnDisk' = {vault'}
    BY <1>8 DEF PowerLoss
  <2>2. vaultOnDisk' \subseteq vaultOnDisk
    BY <1>0, <2>1, FoundAsIs
  <2>3. UNCHANGED <<promised, since>>
    BY <1>8 DEF PowerLoss, history
  <2> QED
    BY <1>3, <2>2, <2>3
<1> QED
  BY <1>4, <1>5, <1>6, <1>7, <1>8 DEF Next

-----------------------------------------------------------------------------
(* One step: what a call displaced *)

\* Fewer copies, fewer that are newer.
LEMMA FewerNewer ==
  ASSUME NEW S, IsFiniteSet(S), NEW T \in SUBSET S, NEW c, NEW n \in Nat, FewNewer(c, S, n)
  PROVE  FewNewer(c, T, n)
<1> DEFINE A == NewerThan(c, OfKind(S, c.kind))
           B == NewerThan(c, OfKind(T, c.kind))
<1>1. A \in SUBSET S /\ B \in SUBSET A
  BY DEF NewerThan, OfKind
<1>2. Cardinality(A) <= n
  BY DEF FewNewer
<1> HIDE DEF A, B
<1>3. IsFiniteSet(A)
  BY <1>1, FS_Subset
<1>4. IsFiniteSet(B) /\ Cardinality(B) <= Cardinality(A)
  BY <1>1, <1>3, FS_Subset
<1>5. Cardinality(A) \in Nat /\ Cardinality(B) \in Nat
  BY <1>3, <1>4, FS_CardinalityType
<1>6. Cardinality(B) <= n
  BY <1>2, <1>4, <1>5
<1> QED
  BY <1>6 DEF FewNewer, B

\* One more copy is one more that may be newer, if it is of the same kind.
LEMMA OneMoreNewer ==
  ASSUME NEW S, IsFiniteSet(S), NEW x, NEW c, NEW n \in Nat, FewNewer(c, S, n)
  PROVE  /\ FewNewer(c, S \cup {x}, n + 1)
         /\ x.kind # c.kind => FewNewer(c, S \cup {x}, n)
<1> DEFINE A == NewerThan(c, OfKind(S, c.kind))
           B == NewerThan(c, OfKind(S \cup {x}, c.kind))
<1>1. A \in SUBSET S /\ B \in SUBSET (A \cup {x}) /\ (x.kind # c.kind => B = A)
  BY DEF NewerThan, OfKind
<1>2. Cardinality(A) <= n
  BY DEF FewNewer
<1> HIDE DEF A, B
<1>3. IsFiniteSet(A) /\ Cardinality(A) \in Nat
  BY <1>1, FS_Subset, FS_CardinalityType
<1>4. /\ IsFiniteSet(A \cup {x})
      /\ Cardinality(A \cup {x}) = IF x \in A THEN Cardinality(A) ELSE Cardinality(A) + 1
  BY <1>3, FS_AddElement
<1>5. IsFiniteSet(B) /\ Cardinality(B) <= Cardinality(A \cup {x})
  BY <1>1, <1>4, FS_Subset
<1>6. Cardinality(B) \in Nat
  BY <1>5, FS_CardinalityType
<1>7. Cardinality(B) <= n + 1 /\ (x.kind # c.kind => Cardinality(B) <= n)
  BY <1>1, <1>2, <1>3, <1>4, <1>5, <1>6
<1> QED
  BY <1>7 DEF FewNewer, B

\* Retention leaves a copy that few enough of its kind have followed, whatever the clock says.
LEMMA StaysByCount ==
  ASSUME NEW S \in SUBSET Copy, IsFiniteSet(S), NEW c \in S, NEW n \in Nat,
         n < Outlives(c.kind), FewNewer(c, S, n), NEW at
  PROVE  c \notin Expired(S, at)
<1> DEFINE A == NewerThan(c, OfKind(S, c.kind))
<1>1. IsFiniteSet(A) /\ Cardinality(A) \in Nat
  <2>1. A \in SUBSET S
    BY DEF NewerThan, OfKind
  <2> QED
    BY <2>1, FS_Subset, FS_CardinalityType
<1>2. Cardinality(A) <= n
  BY DEF FewNewer
<1>3. c.kind \in Kind
  BY DEF Copy
<1>4. CASE c.kind = "Automatic"
  <2>1. Cardinality(A) < AutoKeep
    BY <1>1, <1>2, <1>4, CopiesAssumption DEF Outlives
  <2>2. c \notin BeyondKeep(OfKind(S, "Automatic"))
    BY <1>1, <1>4, <2>1, CopiesAssumption DEF BeyondKeep
  <2>3. c \notin OldestReplaced(S, at)
    BY <1>4 DEF OldestReplaced, Oldest, OfKind
  <2> QED
    BY <2>2, <2>3 DEF Expired, LaterInADay, OldestDaily, Oldest
<1>5. CASE c.kind = "Replaced"
  <2>1. Cardinality(A) = 0
    BY <1>1, <1>2, <1>5 DEF Outlives
  <2>2. A = {}
    BY <1>1, <2>1, FS_EmptySet
  <2>3. c \notin OldestReplaced(S, at)
    BY <1>5, <2>2 DEF OldestReplaced, Oldest
  <2>4. c \notin BeyondKeep(OfKind(S, "Automatic"))
    BY <1>5 DEF BeyondKeep, OfKind
  <2> QED
    BY <2>3, <2>4 DEF Expired, LaterInADay, OldestDaily, Oldest
<1> QED
  BY <1>3, <1>4, <1>5 DEF Kind

LEMMA FiniteFolder ==
  ASSUME Finite
  PROVE  IsFiniteSet(copies) /\ IsFiniteSet(copies \cup copiesOnDisk)
BY FS_Union DEF Finite

\* What a power loss takes or leaves is decided already where folder and disk agree.
LEMMA LossKeepsBoth ==
  ASSUME PowerLoss
  PROVE  /\ copiesOnDisk' = copies' /\ copies' \subseteq copies \cup copiesOnDisk
         /\ copies \cap copiesOnDisk \subseteq copies'
BY DEF PowerLoss

\* A copy that is kept stays kept by every step but the taking of another one.
LEMMA KeptStays ==
  ASSUME TypeOK, Finite, NEW kind, NEW bytes, NEW n \in Nat, n < Outlives(kind),
         Kept(kind, bytes, n),
         \/ UNCHANGED <<copies, copiesOnDisk>>
         \/ CopyFlushed \/ ApplyRetention \/ PowerLoss
  PROVE  KeptIn(copies', copiesOnDisk', kind, bytes, n)
<1> DEFINE all == copies \cup copiesOnDisk
<1>1. PICK c \in copies \cap copiesOnDisk :
        c.kind = kind /\ c.bytes = bytes /\ FewNewer(c, all, n)
  BY DEF Kept, KeptIn
<1>2. IsFiniteSet(copies) /\ IsFiniteSet(all) /\ copies \in SUBSET Copy
  BY FiniteFolder DEF TypeOK
<1>3. ASSUME c \in copies' \cap copiesOnDisk', copies' \cup copiesOnDisk' \subseteq all
      PROVE  KeptIn(copies', copiesOnDisk', kind, bytes, n)
  <2>1. FewNewer(c, copies' \cup copiesOnDisk', n)
    BY <1>1, <1>2, <1>3, FewerNewer
  <2> QED
    BY <1>1, <1>3, <2>1 DEF KeptIn
<1>4. CASE UNCHANGED <<copies, copiesOnDisk>> \/ CopyFlushed
  BY <1>3, <1>4 DEF CopyFlushed
<1>5. CASE PowerLoss
  BY <1>3, <1>5, LossKeepsBoth
<1>6. CASE ApplyRetention
  <2>1. FewNewer(c, copies, n)
    BY <1>1, <1>2, FewerNewer
  <2>2. c \notin Expired(copies, op.now)
    BY <1>1, <1>2, <2>1, StaysByCount
  <2>3. /\ copiesOnDisk' = copiesOnDisk /\ copies' \subseteq copies
        /\ c \in copies'
    BY <1>6, <2>2 DEF ApplyRetention
  <2> QED
    BY <1>3, <2>3
<1> QED
  BY <1>4, <1>5, <1>6

\* Taking another copy leaves it kept for one copy less, if it is of the same kind.
LEMMA KeptWithOneMore ==
  ASSUME TypeOK, VaultInv, CopiesInv, Finite, NEW kind, NEW bytes, NEW n \in Nat,
         Kept(kind, bytes, n), KeepCopy
  PROVE  /\ KeptIn(copies', copiesOnDisk', kind, bytes, n + 1)
         /\ op.kind # kind => KeptIn(copies', copiesOnDisk', kind, bytes, n)
<1> DEFINE all == copies \cup copiesOnDisk
           x == NewCopy(copies, op.kind, vault.bytes, op.now)
<1>1. PICK c \in copies \cap copiesOnDisk :
        c.kind = kind /\ c.bytes = bytes /\ FewNewer(c, all, n)
  BY DEF Kept, KeptIn
<1>2. IsFiniteSet(all)
  BY FiniteFolder
<1>3. x.kind = op.kind
  BY TakenIsNewest
<1>4. copies' = copies \cup {x} /\ copiesOnDisk' = copiesOnDisk
  BY DEF KeepCopy
<1> HIDE DEF x
<1>5. copies' \cup copiesOnDisk' = all \cup {x}
  BY <1>4
<1>6. FewNewer(c, all \cup {x}, n + 1) /\ (x.kind # c.kind => FewNewer(c, all \cup {x}, n))
  BY <1>1, <1>2, OneMoreNewer
<1> HIDE DEF all
<1> QED
  BY <1>1, <1>3, <1>4, <1>5, <1>6 DEF KeptIn

\* A call at its next stage, otherwise as it was.
Continues(stage) ==
  /\ op'.stage = stage /\ op'.kind = op.kind /\ op'.took = op.took
  /\ op'.previous = op.previous /\ op'.copy = op.copy /\ op'.now = op.now

LEMMA CallProceeds ==
  ASSUME TypeOK, NEW stage, Proceed(stage), op # None
  PROVE  Continues(stage)
<1>1. op \in Call
  BY DEF TypeOK
<1> QED
  BY <1>1 DEF Proceed, Call, Continues

\* Every step keeps what a Durable call displaced, and brings the call that runs to where it can
\* promise the same.
LEMMA DisplacedStep == IInv /\ [Next]_vars => DisplacedInv'
<1> SUFFICES ASSUME IInv, [Next]_vars PROVE DisplacedInv'
  OBVIOUS
<1>0. TypeOK /\ VaultInv /\ CopiesInv /\ Finite /\ DisplacedInv /\ TypeOK'
  BY TypeStep DEF IInv
<1>1. /\ op # None => op \in Call
      /\ op' # None => op' \in Call
      /\ later \in Nat /\ 0 \in Nat
      /\ \A kind \in Kind : 0 < Outlives(kind)
  BY <1>0, CopiesAssumption DEF TypeOK, Outlives, Kind
<1>2. ASSUME UNCHANGED <<displaced, later>>,
             \/ UNCHANGED <<copies, copiesOnDisk>>
             \/ CopyFlushed \/ ApplyRetention \/ PowerLoss
      PROVE  PromisedKept'
  <2>1. CASE displaced # None /\ later < Outlives(displaced.kind)
    <3>1. Kept(displaced.kind, displaced.bytes, later)
      BY <1>0, <2>1 DEF DisplacedInv, PromisedKept
    <3>2. KeptIn(copies', copiesOnDisk', displaced.kind, displaced.bytes, later)
      BY <1>0, <1>1, <1>2, <2>1, <3>1, KeptStays
    <3> QED
      BY <1>2, <3>2 DEF PromisedKept, Kept
  <2> QED
    BY <1>2, <2>1 DEF PromisedKept
<1>3. ASSUME op' = None PROVE TakenInTime' /\ NewestIsTaken' /\ TakenIsKept'
  BY <1>3 DEF TakenInTime, NewestIsTaken, TakenIsKept, At
\* The copy in hand stays kept while the call goes on.
<1>4. ASSUME NEW stage, Continues(stage), stage # "flush_copy", stage \notin {"written", "copy"},
             op # None, op.stage # "flush_copy",
             UNCHANGED <<copies, copiesOnDisk>> \/ ApplyRetention
      PROVE  TakenInTime' /\ NewestIsTaken' /\ TakenIsKept'
  <2>1. CASE op.took /\ op.copy = "Durable"
    <3>1. Kept(op.kind, op.previous, 0) /\ op.kind \in Kind
      BY <1>0, <1>1, <1>4, <2>1 DEF DisplacedInv, TakenIsKept, Call
    <3>2. KeptIn(copies', copiesOnDisk', op.kind, op.previous, 0)
      BY <1>0, <1>1, <1>4, <3>1, KeptStays
    <3> QED
      BY <1>0, <1>4, <2>1, <3>2
      DEF Continues, TakenInTime, NewestIsTaken, TakenIsKept, Kept, DisplacedInv, At
  <2>2. CASE ~(op.took /\ op.copy = "Durable")
    BY <1>0, <1>4, <2>2
    DEF Continues, TakenInTime, NewestIsTaken, TakenIsKept, DisplacedInv, At
  <2> QED
    BY <2>1, <2>2
<1>5. CASE Begin
  <2>1. op'.stage = "written" /\ op'.took = FALSE
    BY <1>5 DEF Begin
  <2>2. UNCHANGED <<displaced, later, copies, copiesOnDisk>>
    BY <1>5 DEF Begin, disk
  <2> QED
    BY <1>2, <2>1, <2>2 DEF DisplacedInv, TakenInTime, NewestIsTaken, TakenIsKept, At
<1>6. CASE Verify
  <2>1. op # None /\ op.stage = "written" /\ UNCHANGED <<displaced, later, copies, copiesOnDisk>>
    BY <1>6 DEF Verify, At, disk, history
  <2>2. op'.stage = "copy" /\ op'.took = op.took
    BY <1>1, <1>6, <2>1 DEF Verify, Call
  <2>3. op.took = FALSE
    BY <1>0, <1>1, <2>1 DEF DisplacedInv, TakenInTime, Call
  <2> QED
    BY <1>2, <2>1, <2>2, <2>3 DEF DisplacedInv, TakenInTime, NewestIsTaken, TakenIsKept, At
<1>7. CASE NothingToKeep \/ CopyAlreadyThere
  <2>1. op # None /\ op.stage = "copy" /\ UNCHANGED <<displaced, later, copies, copiesOnDisk>>
    BY <1>7 DEF NothingToKeep, CopyAlreadyThere, At, disk, history
  <2>2. op'.stage = "commit" /\ op'.took = op.took
    BY <1>1, <1>7, <2>1 DEF NothingToKeep, CopyAlreadyThere, Proceed, Call
  <2>3. op.took = FALSE
    BY <1>0, <1>1, <2>1 DEF DisplacedInv, TakenInTime, Call
  <2> QED
    BY <1>2, <2>1, <2>2, <2>3 DEF DisplacedInv, TakenInTime, NewestIsTaken, TakenIsKept, At
<1>8. CASE KeepCopy
  <2> DEFINE x == NewCopy(copies, op.kind, vault.bytes, op.now)
  <2>1. op # None /\ op \in Call /\ vault.bytes \in Bytes
    BY <1>0, <1>1, <1>8 DEF KeepCopy, At, VaultInv, Whole
  <2>2. /\ x \in Copy /\ x.kind = op.kind /\ x.bytes = vault.bytes
        /\ \A d \in copies \cup copiesOnDisk : Before(d, x)
    BY <1>0, <1>8, TakenIsNewest
  <2>3. copies' = copies \cup {x} /\ displaced' = displaced
        /\ later' = IF displaced # None /\ displaced.kind = op.kind THEN later + 1 ELSE later
    BY <1>8 DEF KeepCopy
  <2>4. op'.stage = "flush_copy" /\ op'.previous = vault.bytes /\ op'.kind = op.kind
    BY <1>8, <2>1 DEF KeepCopy, Call
  <2> HIDE DEF x
  <2>5. Newest(copies') = x
    <3>1. ~Before(x, x) /\ \A d \in copies : d \in Copy
      BY <1>0, <2>2, BeforeIsStrict DEF TypeOK
    <3>2. \A d \in copies' : ~Before(x, d)
      BY <2>2, <2>3, <3>1, BeforeIsStrict
    <3>3. HasNewest(copies')
      BY <2>3, <3>2 DEF HasNewest
    <3>4. Newest(copies') \in copies' /\ ~Before(Newest(copies'), x)
      BY <2>3, <3>3, NewestChosen
    <3> QED
      BY <2>2, <2>3, <3>4
  <2>6. PromisedKept'
    <3>1. CASE displaced # None /\ later' < Outlives(displaced.kind)
      <4>1. later < Outlives(displaced.kind)
        <5>1. displaced.kind \in Kind
          BY <1>0, <3>1 DEF TypeOK
        <5>2. Outlives(displaced.kind) \in Nat
          BY <5>1, CopiesAssumption DEF Outlives
        <5> QED
          BY <1>1, <2>3, <3>1, <5>2
      <4>2. Kept(displaced.kind, displaced.bytes, later)
        BY <1>0, <3>1, <4>1 DEF DisplacedInv, PromisedKept
      <4>3. /\ KeptIn(copies', copiesOnDisk', displaced.kind, displaced.bytes, later + 1)
            /\ op.kind # displaced.kind =>
                 KeptIn(copies', copiesOnDisk', displaced.kind, displaced.bytes, later)
        BY <1>0, <1>1, <1>8, <4>2, KeptWithOneMore
      <4>4. KeptIn(copies', copiesOnDisk', displaced'.kind, displaced'.bytes, later')
        BY <2>3, <3>1, <4>3
      <4> QED
        BY <4>4 DEF PromisedKept, Kept
    <3> QED
      BY <2>3, <3>1 DEF PromisedKept
  <2> QED
    BY <2>1, <2>2, <2>3, <2>4, <2>5, <2>6
    DEF DisplacedInv, TakenInTime, NewestIsTaken, TakenIsKept, At
<1>9. CASE CopyFlushed
  <2>1. op # None /\ op.stage = "flush_copy" /\ copies' = copies /\ copiesOnDisk' = copies
        /\ UNCHANGED <<displaced, later>>
    BY <1>9 DEF CopyFlushed, At, Proceed
  <2>2. Continues("commit")
    BY <1>0, <1>9, <2>1, CallProceeds DEF CopyFlushed
  <2>3. copies # {} /\ Newest(copies).kind = op.kind /\ Newest(copies).bytes = op.previous
    BY <1>0, <2>1 DEF DisplacedInv, NewestIsTaken, At
  <2>4. Newest(copies) \in copies /\ \A d \in copies : ~Before(Newest(copies), d)
    BY <1>0, <2>3, FolderHasNewest, NewestChosen
  <2>5. KeptIn(copies', copiesOnDisk', op.kind, op.previous, 0)
    <3>1. NewerThan(Newest(copies), OfKind(copies \cup copies, Newest(copies).kind)) = {}
      BY <2>4 DEF NewerThan, OfKind
    <3>2. FewNewer(Newest(copies), copies \cup copies, 0)
      <4>1. Cardinality({}) = 0
        BY FS_EmptySet
      <4>2. Cardinality({}) <= 0
        BY <4>1
      <4> QED
        BY <3>1, <4>2 DEF FewNewer
    <3> QED
      BY <2>1, <2>3, <2>4, <3>2 DEF KeptIn
  <2> QED
    BY <1>0, <1>2, <1>9, <2>1, <2>2, <2>5
    DEF Continues, DisplacedInv, TakenInTime, NewestIsTaken, TakenIsKept, Kept, At
<1>10. CASE CopyUncertain
  <2>1. op # None /\ op.stage = "flush_copy"
        /\ UNCHANGED <<displaced, later, copies, copiesOnDisk>>
    BY <1>10 DEF CopyUncertain, At, disk, history
  <2>2. op'.stage = "commit" /\ op'.copy = "Uncertain" /\ op'.took = op.took
        /\ op'.previous = op.previous
    BY <1>1, <1>10, <2>1 DEF CopyUncertain, Call
  <2> QED
    BY <1>0, <1>2, <2>1, <2>2 DEF DisplacedInv, TakenInTime, NewestIsTaken, TakenIsKept, At
<1>11. CASE Commit \/ VaultFlushed
  <2>1. op # None /\ op.stage # "flush_copy" /\ UNCHANGED <<displaced, later, copies, copiesOnDisk>>
        /\ (Proceed("flush_vault") \/ Proceed("retain"))
    BY <1>11 DEF Commit, VaultFlushed, At, Proceed, history
  <2>2. Continues("flush_vault") \/ Continues("retain")
    BY <1>0, <2>1, CallProceeds
  <2> QED
    BY <1>2, <1>4, <2>1, <2>2 DEF DisplacedInv
<1>12. CASE VaultUncertain
  <2>1. op # None /\ op.stage = "flush_vault"
        /\ UNCHANGED <<displaced, later, copies, copiesOnDisk>>
    BY <1>12 DEF VaultUncertain, At, disk, history
  <2>2. Continues("return")
    BY <1>1, <1>12, <2>1 DEF VaultUncertain, Call, Continues
  <2> QED
    BY <1>2, <1>4, <2>1, <2>2 DEF DisplacedInv
<1>13. CASE ApplyRetention
  <2>1. op # None /\ op.stage = "retain" /\ UNCHANGED <<displaced, later>>
    BY <1>13 DEF ApplyRetention, At, Proceed, history
  <2>2. Continues("return")
    BY <1>0, <1>13, <2>1, CallProceeds DEF ApplyRetention
  <2> QED
    BY <1>2, <1>4, <1>13, <2>1, <2>2 DEF DisplacedInv
<1>14. CASE Return
  <2>1. op # None /\ op \in Call /\ op.stage = "return" /\ op' = None
        /\ copies' = copies /\ copiesOnDisk' = copiesOnDisk
    BY <1>1, <1>14 DEF Return, At, disk
  <2>2. CASE Returned(op) = "Durable" /\ op.took
    <3>1. op.copy = "Durable"
      BY <2>1, <2>2 DEF Returned, Call, Status
    <3>2. Kept(op.kind, op.previous, 0)
      BY <1>0, <2>1, <2>2, <3>1 DEF DisplacedInv, TakenIsKept
    <3>3. displaced' = [kind |-> op.kind, bytes |-> op.previous] /\ later' = 0
      BY <1>14, <2>2 DEF Return
    <3> QED
      BY <1>3, <2>1, <3>2, <3>3 DEF DisplacedInv, PromisedKept, Kept
  <2>3. CASE Returned(op) = "Durable" /\ ~op.took
    <3>1. displaced' = None
      BY <1>14, <2>3 DEF Return
    <3> QED
      BY <1>3, <2>1, <3>1 DEF DisplacedInv, PromisedKept
  <2>4. CASE Returned(op) # "Durable"
    BY <1>2, <1>3, <1>14, <2>1, <2>4 DEF Return, DisplacedInv
  <2> QED
    BY <2>2, <2>3, <2>4
<1>15. CASE Refuse \/ Killed \/ PowerLoss
  BY <1>2, <1>3, <1>15 DEF Refuse, Killed, PowerLoss, disk, history, DisplacedInv
<1>16. CASE TimePasses \/ UNCHANGED vars
  <2>1. op' = op /\ UNCHANGED <<displaced, later, copies, copiesOnDisk>>
    BY <1>16 DEF TimePasses, vars, disk, history
  <2> QED
    BY <1>0, <1>2, <2>1 DEF DisplacedInv, TakenInTime, NewestIsTaken, TakenIsKept, At, Kept
<1> QED
  BY <1>5, <1>6, <1>7, <1>8, <1>9, <1>10, <1>11, <1>12, <1>13, <1>14, <1>15, <1>16 DEF Next

\* Every step leaves finitely many copies.
LEMMA FiniteStep == IInv /\ [Next]_vars => Finite'
<1> SUFFICES ASSUME IInv, [Next]_vars PROVE Finite'
  OBVIOUS
<1>1. IsFiniteSet(copies) /\ IsFiniteSet(copiesOnDisk) /\ IsFiniteSet(copies \cup copiesOnDisk)
  BY FiniteFolder DEF IInv, Finite
<1>2. CASE KeepCopy
  <2>1. PICK x : copies' = copies \cup {x} /\ copiesOnDisk' = copiesOnDisk
    BY <1>2 DEF KeepCopy
  <2> QED
    BY <1>1, <2>1, FS_AddElement DEF Finite
<1>3. CASE ApplyRetention
  <2>1. copies' \in SUBSET copies /\ copiesOnDisk' = copiesOnDisk
    BY <1>3 DEF ApplyRetention
  <2> QED
    BY <1>1, <2>1, FS_Subset DEF Finite
<1>4. CASE PowerLoss
  <2>1. copies' \in SUBSET (copies \cup copiesOnDisk) /\ copiesOnDisk' = copies'
    BY <1>4, LossKeepsBoth
  <2> QED
    BY <1>1, <2>1, FS_Subset DEF Finite
<1>5. CASE CopyFlushed
  BY <1>1, <1>5 DEF CopyFlushed, Finite
<1>6. CASE \/ Begin \/ Verify \/ Refuse \/ NothingToKeep \/ CopyAlreadyThere
           \/ CopyUncertain \/ Commit \/ VaultFlushed \/ VaultUncertain \/ Return
           \/ Killed \/ TimePasses \/ UNCHANGED vars
  BY <1>1, <1>6 DEF Begin, Verify, Refuse, NothingToKeep, CopyAlreadyThere, CopyUncertain,
                    Commit, VaultFlushed, VaultUncertain, Return, Killed, TimePasses, vars, disk,
                    Finite
<1> QED
  BY <1>2, <1>3, <1>4, <1>5, <1>6 DEF Next

-----------------------------------------------------------------------------
(* One step: what retention owes *)

\* Of the copies that are too old by the clock of the call, at most one goes.
LEMMA OldestIsOne ==
  ASSUME NEW S, NEW X \in SUBSET S, Ordered(S)
  PROVE  Oldest(X) = {} \/ \E x : Oldest(X) = {x}
<1>1. \A c, d \in Oldest(X) : c = d
  BY DEF Oldest, Ordered
<1>2. CASE Oldest(X) # {}
  <2>1. PICK x : x \in Oldest(X)
    BY <1>2
  <2>2. Oldest(X) = {x}
    BY <1>1, <2>1
  <2> QED
    BY <2>2
<1> QED
  BY <1>2

\* What one call removes of a kind because its clock says that it is too old.
Aged(kind, at) ==
  IF kind = "Automatic" THEN OldestDaily(copies, at) ELSE OldestReplaced(copies, at)

\* Each kind has its own time.
Time(kind, keep) ==
  \/ kind = "Automatic" /\ keep = DailyKeep
  \/ kind = "Replaced" /\ keep = ReplacedKeep

LEMMA AgedIsOne ==
  ASSUME CopiesInv, NEW kind, NEW at
  PROVE  Aged(kind, at) = {} \/ \E x : Aged(kind, at) = {x}
<1>1. Ordered(copies)
  BY PartsOfOrdered DEF CopiesInv
<1> DEFINE autos == OfKind(copies, "Automatic")
           dailies == {c \in BeyondKeep(autos) : DaysFirst(c, autos) /\ TooOld(c, at, DailyKeep)}
           replaced == OfKind(copies, "Replaced")
           old == {c \in replaced : NewerThan(c, replaced) # {} /\ TooOld(c, at, ReplacedKeep)}
<1>2. dailies \in SUBSET copies /\ old \in SUBSET copies
  BY DEF BeyondKeep, OfKind
<1>3. OldestDaily(copies, at) = Oldest(dailies) /\ OldestReplaced(copies, at) = Oldest(old)
  BY DEF OldestDaily, OldestReplaced
<1> HIDE DEF dailies, old
<1> QED
  BY <1>1, <1>2, <1>3, OldestIsOne DEF Aged

\* Retention takes a safe copy only as too old by its clock.
LEMMA SafeGoesByAge ==
  ASSUME NEW kind, NEW keep, Time(kind, keep), NEW at, NEW c, Safe(c), c.kind = kind,
         c \in Expired(copies, at)
  PROVE  c \in Aged(kind, at) /\ TooOld(c, at, keep)
<1>1. CASE kind = "Automatic"
  <2>1. DaysFirst(c, OfKind(copies, "Automatic"))
    BY <1>1 DEF Safe, DaysFirst, OfKind
  <2>2. c \notin LaterInADay(copies) /\ c \notin OldestReplaced(copies, at)
    BY <1>1, <2>1 DEF LaterInADay, OldestReplaced, Oldest, OfKind
  <2>3. c \in OldestDaily(copies, at)
    BY <2>2 DEF Expired
  <2>4. TooOld(c, at, DailyKeep)
    BY <2>3 DEF OldestDaily, Oldest
  <2> QED
    BY <1>1, <2>3, <2>4 DEF Aged, Time
<1>2. CASE kind = "Replaced"
  <2>1. c \notin LaterInADay(copies) /\ c \notin OldestDaily(copies, at)
    BY <1>2 DEF LaterInADay, OldestDaily, Oldest, BeyondKeep, OfKind
  <2>2. c \in OldestReplaced(copies, at)
    BY <2>1 DEF Expired
  <2>3. TooOld(c, at, ReplacedKeep)
    BY <2>2 DEF OldestReplaced, Oldest
  <2> QED
    BY <1>2, <2>2, <2>3 DEF Aged, Time
<1> QED
  BY <1>1, <1>2 DEF Time

LEMMA TooOldStays ==
  ASSUME NEW c \in Copy, NEW keep \in Nat, NEW at \in Int, NEW then \in Int, at <= then,
         TooOld(c, at, keep)
  PROVE  TooOld(c, then, keep)
BY DEF TooOld, Copy

\* What is safe stays safe while it is there and on the disk and none but newer copies come.
LEMMA SafeStays ==
  ASSUME NEW c, Safe(c), c \in copies' \cap copiesOnDisk',
         \A d \in copies' \cup copiesOnDisk' :
           d \in copies \cup copiesOnDisk \/ ~Before(d, c)
  PROVE  Safe(c)'
BY DEF Safe, DaysFirst, OfKind

\* A step that neither flushes nor removes copies leaves retention's account in order.
LEMMA OwedKept ==
  ASSUME TypeOK, TypeOK', NEW kind, NEW keep, Time(kind, keep), OwedInv(kind, keep),
         owed' = owed, today <= today',
         \/ wrongReadings' = wrongReadings /\ (Ahead' => Ahead)
         \/ wrongReadings' = wrongReadings + 1,
         \A c \in owed : Safe(c) => Safe(c)'
  PROVE  OwedInv(kind, keep)'
<1>1. PICK lost \in SUBSET OfKind(owed, kind) :
        /\ IsFiniteSet(lost)
        /\ Cardinality(lost) + (IF Ahead THEN 1 ELSE 0) <= wrongReadings
        /\ \A c \in OfKind(owed, kind) \ lost : TooOld(c, today, keep) \/ Safe(c)
  BY DEF OwedInv
<1>2. /\ wrongReadings \in Nat /\ wrongReadings' \in Nat
      /\ today \in Nat /\ today' \in Nat /\ owed \subseteq Copy
  BY DEF TypeOK
<1>3. Cardinality(lost) + (IF Ahead' THEN 1 ELSE 0) <= wrongReadings'
  <2>1. Cardinality(lost) \in Nat
    BY <1>1, FS_CardinalityType
  <2> QED
    BY <1>1, <1>2, <2>1
<1>4. ASSUME NEW c \in OfKind(owed, kind) \ lost PROVE TooOld(c, today', keep) \/ Safe(c)'
  <2>1. c \in owed /\ c \in Copy /\ (TooOld(c, today, keep) \/ Safe(c))
    BY <1>1, <1>2, <1>4 DEF OfKind
  <2>2. keep \in Nat
    BY CopiesAssumption DEF Time
  <2> QED
    BY <1>2, <2>1, <2>2, TooOldStays
<1>5. /\ lost \in SUBSET OfKind(owed', kind)
      /\ \A c \in OfKind(owed', kind) \ lost : TooOld(c, today', keep) \/ Safe(c)'
  BY <1>4
<1> QED
  BY <1>1, <1>3, <1>5 DEF OwedInv

\* A copy that is flushed is in the folder and on the disk, and newer than all there are.
LEMMA FlushOwes ==
  ASSUME IInv, CopyFlushed, NEW kind, NEW keep, OwedInv(kind, keep)
  PROVE  OwedInv(kind, keep)'
<1>1. PICK lost \in SUBSET OfKind(owed, kind) :
        /\ IsFiniteSet(lost)
        /\ Cardinality(lost) + (IF Ahead THEN 1 ELSE 0) <= wrongReadings
        /\ \A c \in OfKind(owed, kind) \ lost : TooOld(c, today, keep) \/ Safe(c)
  BY DEF OwedInv
<1>2. copies' = copies /\ copiesOnDisk' = copies /\ today' = today
      /\ wrongReadings' = wrongReadings
      /\ owed' = owed \cup (IF Newest(copies) \in Owed THEN {Newest(copies)} ELSE {})
  BY DEF CopyFlushed, bounds
<1>3. op # None /\ op.stage = "flush_copy" /\ Continues("commit")
  BY CallProceeds DEF CopyFlushed, At, IInv
<1>4. Ahead' = Ahead \/ ~Ahead'
  BY <1>2, <1>3 DEF Ahead, Continues
<1>5. ASSUME NEW c \in OfKind(owed', kind) \ lost PROVE TooOld(c, today', keep) \/ Safe(c)'
  <2>1. CASE c \in owed
    <3>1. TooOld(c, today, keep) \/ Safe(c)
      BY <1>1, <1>5, <2>1 DEF OfKind
    <3>2. CASE Safe(c)
      BY <1>2, <3>2, SafeStays DEF Safe
    <3> QED
      BY <1>2, <3>1, <3>2
  <2>2. CASE c \notin owed
    <3>1. c \in Owed
      BY <1>2, <1>5, <2>2 DEF OfKind
    <3> QED
      BY <1>2, <3>1 DEF Safe, Owed
  <2> QED
    BY <2>1, <2>2
<1>6. lost \in SUBSET OfKind(owed', kind)
  BY <1>1, <1>2 DEF OfKind
<1>7. Cardinality(lost) + (IF Ahead' THEN 1 ELSE 0) <= wrongReadings'
  <2>1. Cardinality(lost) \in Nat /\ wrongReadings \in Nat
    BY <1>1, FS_CardinalityType DEF IInv, TypeOK
  <2>2. Ahead' => Ahead
    BY <1>4
  <2> QED
    BY <1>1, <1>2, <2>1, <2>2
<1> QED
  BY <1>1, <1>5, <1>6, <1>7 DEF OwedInv

\* Retention under a right clock takes what is too old; under one that is ahead, one copy more.
LEMMA RetentionOwes ==
  ASSUME IInv, ApplyRetention, NEW kind, NEW keep, Time(kind, keep), OwedInv(kind, keep)
  PROVE  OwedInv(kind, keep)'
<1>1. PICK lost \in SUBSET OfKind(owed, kind) :
        /\ IsFiniteSet(lost)
        /\ Cardinality(lost) + (IF Ahead THEN 1 ELSE 0) <= wrongReadings
        /\ \A c \in OfKind(owed, kind) \ lost : TooOld(c, today, keep) \/ Safe(c)
  BY DEF OwedInv
<1>2. PICK kept : copies' = copies \ (Expired(copies, op.now) \ kept)
  BY DEF ApplyRetention
<1>3. copiesOnDisk' = copiesOnDisk /\ today' = today /\ wrongReadings' = wrongReadings
      /\ owed' = owed
  BY DEF ApplyRetention, history, bounds
<1>4. op # None /\ op.stage = "retain" /\ Continues("return") /\ op \in Call
  BY CallProceeds DEF ApplyRetention, At, IInv, TypeOK
<1>5. ~Ahead' /\ op.now \in Int /\ today \in Nat /\ wrongReadings \in Nat /\ keep \in Nat
      /\ Cardinality(lost) \in Nat /\ owed \subseteq Copy
  BY <1>1, <1>4, FS_CardinalityType, CopiesAssumption
     DEF Ahead, Continues, Call, IInv, TypeOK, Time
<1> DEFINE aged == Aged(kind, op.now) \cap OfKind(owed, kind)
\* A safe copy stays safe or goes as too old by the clock of the call.
<1>6. ASSUME NEW c \in OfKind(owed, kind) \ lost
      PROVE  \/ TooOld(c, today, keep) \/ Safe(c)'
             \/ c \in aged /\ TooOld(c, op.now, keep)
  <2>1. CASE Safe(c) /\ c \in copies'
    <3>1. c \in copies' \cap copiesOnDisk' /\ copies' \subseteq copies
      BY <1>2, <1>3, <2>1 DEF Safe
    <3> QED
      BY <1>3, <2>1, <3>1, SafeStays
  <2>2. CASE Safe(c) /\ c \notin copies'
    <3>1. c \in Expired(copies, op.now) /\ c.kind = kind
      BY <1>2, <1>6, <2>2 DEF Safe, OfKind
    <3>2. c \in Aged(kind, op.now) /\ TooOld(c, op.now, keep)
      BY <2>2, <3>1, SafeGoesByAge
    <3> QED
      BY <1>6, <3>2
  <2> QED
    BY <1>1, <1>6, <2>1, <2>2
<1>7. CASE op.now <= today
  <2>1. ASSUME NEW c \in OfKind(owed, kind) \ lost PROVE TooOld(c, today', keep) \/ Safe(c)'
    <3>1. c \in Copy
      BY <1>5, <2>1 DEF OfKind
    <3>2. TooOld(c, op.now, keep) => TooOld(c, today, keep)
      BY <1>5, <1>7, <3>1, TooOldStays
    <3> QED
      BY <1>3, <1>6, <2>1, <3>2
  <2>2. Cardinality(lost) + 0 <= wrongReadings
    BY <1>1, <1>5
  <2>3. /\ lost \in SUBSET OfKind(owed', kind)
        /\ Cardinality(lost) + (IF Ahead' THEN 1 ELSE 0) <= wrongReadings'
        /\ \A c \in OfKind(owed', kind) \ lost : TooOld(c, today', keep) \/ Safe(c)'
    BY <1>3, <1>5, <2>1, <2>2
  <2> QED
    BY <1>1, <2>3 DEF OwedInv
<1>8. CASE op.now > today
  <2>1. Cardinality(lost) + 1 <= wrongReadings
    BY <1>1, <1>4, <1>8 DEF Ahead
  <2>2. aged = {} \/ \E x : aged = {x}
    BY AgedIsOne DEF IInv
  <2>3. IsFiniteSet(lost \cup aged) /\ Cardinality(lost \cup aged) <= Cardinality(lost) + 1
    <3>1. CASE aged = {}
      <4>1. lost \cup aged = lost
        BY <3>1
      <4> QED
        BY <1>1, <1>5, <4>1
    <3>2. CASE \E x : aged = {x}
      <4> HIDE DEF aged
      <4>1. PICK x : aged = {x}
        BY <3>2
      <4>2. /\ IsFiniteSet(lost \cup {x})
            /\ Cardinality(lost \cup {x}) =
                 IF x \in lost THEN Cardinality(lost) ELSE Cardinality(lost) + 1
        BY <1>1, FS_AddElement
      <4> QED
        BY <1>5, <4>1, <4>2
    <3> QED
      BY <2>2, <3>1, <3>2
  <2>4. Cardinality(lost \cup aged) + (IF Ahead' THEN 1 ELSE 0) <= wrongReadings'
    <3>1. Cardinality(lost \cup aged) \in Nat
      BY <2>3, FS_CardinalityType
    <3> HIDE DEF aged
    <3> QED
      BY <1>3, <1>5, <2>1, <2>3, <3>1
  <2>5. /\ lost \cup aged \in SUBSET OfKind(owed', kind)
        /\ \A c \in OfKind(owed', kind) \ (lost \cup aged) : TooOld(c, today', keep) \/ Safe(c)'
    BY <1>1, <1>3, <1>6
  <2> HIDE DEF aged
  <2> QED
    BY <2>3, <2>4, <2>5 DEF OwedInv
<1> QED
  BY <1>5, <1>7, <1>8

\* Every step keeps the account of either kind.
LEMMA OwedStep ==
  ASSUME IInv, [Next]_vars, NEW kind, NEW keep, Time(kind, keep), OwedInv(kind, keep)
  PROVE  OwedInv(kind, keep)'
<1>0. TypeOK /\ VaultInv /\ CopiesInv /\ TypeOK' /\ (op # None => op \in Call)
      /\ today \in Nat /\ today' \in Nat
  BY TypeStep DEF IInv, TypeOK
<1>1. ASSUME UNCHANGED <<copies, copiesOnDisk>> PROVE \A c : Safe(c) => Safe(c)'
  BY <1>1 DEF Safe
<1>2. CASE Begin
  <2>1. PICK now \in Readings \cup {today} :
          /\ op'.now = now
          /\ wrongReadings' = IF now = today THEN wrongReadings ELSE wrongReadings + 1
    BY <1>2 DEF Begin
  <2>2. UNCHANGED <<copies, copiesOnDisk, owed, today>>
    BY <1>2 DEF Begin, disk
  <2>3. now = today => ~Ahead'
    BY <1>0, <2>1, <2>2 DEF Ahead
  <2> QED
    BY <1>0, <1>1, <2>1, <2>2, <2>3, OwedKept
<1>3. CASE KeepCopy
  <2> DEFINE x == NewCopy(copies, op.kind, vault.bytes, op.now)
  <2>1. x \in Copy /\ \A d \in copies \cup copiesOnDisk : Before(d, x)
    BY <1>0, <1>3, TakenIsNewest
  <2>2. /\ copies' = copies \cup {x} /\ copiesOnDisk' = copiesOnDisk
        /\ UNCHANGED <<owed, wrongReadings, today>>
    BY <1>3 DEF KeepCopy, bounds
  <2>3. op # None /\ op.stage = "copy" /\ op'.now = op.now
    BY <1>0, <1>3 DEF KeepCopy, At, Call
  <2> HIDE DEF x
  <2>4. Ahead' => Ahead
    BY <2>2, <2>3 DEF Ahead
  <2>5. ASSUME NEW c, Safe(c) PROVE Safe(c)'
    <3>1. c \in copies /\ c \in copiesOnDisk /\ c \in Copy
      BY <1>0, <2>5 DEF Safe, TypeOK
    <3>2. ~Before(x, c)
      BY <2>1, <3>1, BeforeIsStrict
    <3> QED
      BY <2>2, <2>5, <3>1, <3>2, SafeStays
  <2> QED
    BY <1>0, <2>2, <2>4, <2>5, OwedKept
<1>4. CASE CopyFlushed
  BY <1>4, FlushOwes
<1>5. CASE ApplyRetention
  BY <1>5, RetentionOwes
<1>6. CASE PowerLoss
  <2>1. op' = None /\ UNCHANGED <<owed, wrongReadings, today>>
    BY <1>6 DEF PowerLoss, history
  <2>2. ASSUME NEW c, Safe(c) PROVE Safe(c)'
    <3>1. c \in copies \cap copiesOnDisk
      BY <2>2 DEF Safe
    <3> QED
      BY <1>6, <2>2, <3>1, LossKeepsBoth, SafeStays
  <2> QED
    BY <1>0, <2>1, <2>2, OwedKept DEF Ahead
<1>7. CASE Refuse \/ Return \/ Killed
  <2>1. op' = None /\ UNCHANGED <<owed, wrongReadings, today, copies, copiesOnDisk>>
    BY <1>7 DEF Refuse, Return, Killed, disk, history, bounds
  <2> QED
    BY <1>0, <1>1, <2>1, OwedKept DEF Ahead
<1>8. CASE Verify \/ NothingToKeep \/ CopyAlreadyThere \/ CopyUncertain \/ Commit
           \/ VaultFlushed \/ VaultUncertain
  <2>1. /\ UNCHANGED <<owed, wrongReadings, today, copies, copiesOnDisk>>
        /\ op # None /\ op.stage \notin {"retain", "return"}
    BY <1>8 DEF Verify, NothingToKeep, CopyAlreadyThere, CopyUncertain, Commit, VaultFlushed,
                VaultUncertain, At, disk, history, bounds
  <2>2. op'.now = op.now
    BY <1>0, <1>8, <2>1 DEF Verify, NothingToKeep, CopyAlreadyThere, CopyUncertain, Commit,
                            VaultFlushed, VaultUncertain, Proceed, Call
  <2>3. Ahead' => Ahead
    BY <2>1, <2>2 DEF Ahead
  <2> QED
    BY <1>0, <1>1, <2>1, <2>3, OwedKept
<1>9. CASE TimePasses \/ UNCHANGED vars
  <2>1. /\ UNCHANGED <<op, owed, wrongReadings, copies, copiesOnDisk>>
        /\ today' = today + 1 \/ today' = today
    BY <1>9 DEF TimePasses, vars, disk, history, bounds
  <2>2. Ahead' => Ahead
    <3>1. op # None => op.now \in Int
      BY <1>0 DEF Call
    <3> QED
      BY <1>0, <2>1, <3>1 DEF Ahead
  <2> QED
    BY <1>0, <1>1, <2>1, <2>2, OwedKept
<1> QED
  BY <1>2, <1>3, <1>4, <1>5, <1>6, <1>7, <1>8, <1>9 DEF Next

-----------------------------------------------------------------------------
(* The theorems *)

\* The inductive invariant holds throughout.
THEOREM IInvHolds == Spec => []IInv
<1>1. IInv /\ [Next]_vars => IInv'
  BY TypeStep, VaultStep, CopiesStep, DurableStep, FiniteStep, DisplacedStep, OwedStep
     DEF IInv, Time
<1> QED
  BY <1>1, InitIInv, PTL DEF Spec

\* The disk, the call in progress and what was promised always have their types.
THEOREM TypeCorrect == Spec => []TypeOK
<1>1. IInv => TypeOK
  BY DEF IInv
<1> QED
  BY <1>1, IInvHolds, PTL

\* What was reported Durable is what is found after any kill or power loss, or a
\* version that was asked for later; vault.enote is never torn or missing.
THEOREM DurableCorrect == Spec => []DurableSurvives
<1>1. IInv => DurableSurvives
  BY DEF IInv
<1> QED
  BY <1>1, IInvHolds, PTL

\* "Newest first" is exact among all copies that are or may come back.
THEOREM CopiesOrderedCorrect == Spec => []CopiesOrdered
<1>1. IInv => CopiesOrdered
  BY DEF IInv, CopiesInv, Ordered, CopiesOrdered
<1> QED
  BY <1>1, IInvHolds, PTL

\* What a save reported Durable has displaced is found after any kill, power loss, failed save
\* or wrong clock, until the count of the later copies of its kind takes it.
THEOREM DisplacedCorrect == Spec => []DisplacedIsKept
<1>1. IInv => DisplacedIsKept
  BY DEF IInv, DisplacedInv, PromisedKept, Kept, KeptIn, DisplacedIsKept
<1> QED
  BY <1>1, IInvHolds, PTL

\* One wrong reading of the clock costs at most one copy of each kind, also when the process is
\* killed or the power lost in between.
THEOREM WrongClockCorrect == Spec => []WrongClockCostsOne
<1>1. ASSUME IInv, NEW kind, NEW keep, OwedInv(kind, keep)
      PROVE  Cardinality(LostEarly(kind, keep)) <= wrongReadings
  <2>1. PICK lost \in SUBSET OfKind(owed, kind) :
          /\ IsFiniteSet(lost)
          /\ Cardinality(lost) + (IF Ahead THEN 1 ELSE 0) <= wrongReadings
          /\ \A c \in OfKind(owed, kind) \ lost : TooOld(c, today, keep) \/ Safe(c)
    BY <1>1 DEF OwedInv
  <2>2. LostEarly(kind, keep) \in SUBSET lost
    BY <2>1 DEF LostEarly, Safe
  <2>3. Cardinality(LostEarly(kind, keep)) <= Cardinality(lost)
        /\ IsFiniteSet(LostEarly(kind, keep))
    BY <2>1, <2>2, FS_Subset
  <2>4. /\ Cardinality(lost) \in Nat /\ Cardinality(LostEarly(kind, keep)) \in Nat
        /\ wrongReadings \in Nat
    BY <1>1, <2>1, <2>3, FS_CardinalityType DEF IInv, TypeOK
  <2> QED
    BY <2>1, <2>3, <2>4
<1>2. IInv => WrongClockCostsOne
  BY <1>1 DEF IInv, WrongClockCostsOne
<1> QED
  BY <1>2, IInvHolds, PTL

\* Store implements the register: each step of a call or of the world is a step of
\* VaultRegister or leaves it alone.
THEOREM RegisterCorrect == Spec => RegisterSpec
<1> USE DEF Register!register
<1>1. Init => Register!Init
  BY DEF Init, Register!Init, Contents, AsFound
<1>2. IInv /\ [Next]_vars => [Register!Next]_Register!register
  <2> SUFFICES ASSUME IInv, [Next]_vars PROVE [Register!Next]_Register!register
    OBVIOUS
  <2>0. /\ VaultInv
        /\ \A file \in vaultOnDisk : AsFound(file) = file
    BY FoundAsIs DEF IInv
  <2>1. CASE Commit
    <3>1. op.temp \in Whole
      BY <2>0, <2>1 DEF Commit, At, VaultInv
    <3>2. op.temp # None /\ AsFound(op.temp) = op.temp /\ op.temp.bytes \in Bytes
      BY <3>1, StoreAssumption DEF Whole, VaultFile, AsFound
    <3>3. vault' = op.temp /\ vaultOnDisk' = vaultOnDisk \cup {op.temp}
      BY <2>1 DEF Commit
    <3>4. Contents(op.temp) = op.temp.bytes
      BY <3>2 DEF Contents
    <3>5. Register!Install
      BY <3>2, <3>3, <3>4 DEF Register!Install
    <3> QED
      BY <3>5 DEF Register!Next
  <2>2. CASE VaultFlushed
    <3>1. vaultOnDisk' = {vault} /\ vault' = vault
      BY <2>2 DEF VaultFlushed
    <3>2. AsFound(vault) = vault
      BY <2>0 DEF VaultInv
    <3>3. Register!Confirm
      BY <3>1, <3>2 DEF Register!Confirm
    <3> QED
      BY <3>3 DEF Register!Next
  <2>3. CASE PowerLoss
    <3>1. PICK file \in vaultOnDisk : vault' = AsFound(file) /\ vaultOnDisk' = {vault'}
      BY <2>3 DEF PowerLoss
    <3>2. vault' = file /\ vaultOnDisk' = {file} /\ AsFound(file) = file
      BY <2>0, <3>1
    <3>3. Register!Crash
      BY <3>2 DEF Register!Crash
    <3> QED
      BY <3>3 DEF Register!Next
  <2>4. CASE \/ Begin \/ Verify \/ Refuse \/ NothingToKeep \/ CopyAlreadyThere \/ KeepCopy
             \/ CopyFlushed \/ CopyUncertain \/ VaultUncertain \/ ApplyRetention
             \/ Return \/ Killed \/ TimePasses \/ UNCHANGED vars
    <3>1. vault' = vault /\ vaultOnDisk' = vaultOnDisk
      BY <2>4 DEF Begin, Verify, Refuse, NothingToKeep, CopyAlreadyThere, KeepCopy,
                  CopyFlushed, CopyUncertain, VaultUncertain, ApplyRetention, Return,
                  Killed, TimePasses, vars, disk
    <3> QED
      BY <3>1
  <2> QED
    BY <2>1, <2>2, <2>3, <2>4 DEF Next
<1> QED
  BY <1>1, <1>2, IInvHolds, PTL DEF Spec, RegisterSpec, Register!Spec
=============================================================================
