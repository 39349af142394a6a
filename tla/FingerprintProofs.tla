-------------------------- MODULE FingerprintProofs --------------------------
(***************************************************************************)
(* A reported device is the one in the state file, for any number of runs. *)
(*                                                                         *)
(* A run reports only what it has, and what a run has is in the file:      *)
(* either it was loaded from there, or the save went through to its end.   *)
(* A run that is about to write has found no whole file, or could not read *)
(* it, so nothing else that was reported is lost; and no other run is up   *)
(* that could have a device.                                               *)
(***************************************************************************)
EXTENDS Fingerprint, FiniteSetTheorems, TLAPS

Making == {"collecting", "saving", "writing"}

Typed ==
  /\ pc \in [Runs -> {"new", "loading", "running", "over"} \cup Making]
  /\ fp \in [Runs -> Nat] /\ collected \in Nat
  /\ file \in [state : {"missing", "damaged", "whole"}, device : Nat]

\* One run at a time uses the volume.
Alone == \A p, q \in Runs : Up(p) /\ Up(q) => p = q

\* The device of a run is in the file.
InFile == \A p \in Runs : pc[p] = "running" /\ fp[p] # None => file = Whole(fp[p])

\* A run that makes a device has no whole file to lose that it could read.
Expendable == file.state = "whole" => file.device \in misread

NothingToLose == \A p \in Runs : pc[p] \in Making => Expendable

IInv ==
  /\ Typed
  /\ Alone
  /\ source = "file" => InFile /\ NothingToLose
  /\ ReportedIsReplayed

-----------------------------------------------------------------------------
LEMMA WholeIsWhole ==
  /\ \A d : Whole(d).state = "whole"
  /\ Missing.state = "missing" /\ Damaged.state = "damaged"
  /\ \A d \in Nat : Whole(d) \in [state : {"missing", "damaged", "whole"}, device : Nat]
  /\ Missing \in [state : {"missing", "damaged", "whole"}, device : Nat]
  /\ Damaged \in [state : {"missing", "damaged", "whole"}, device : Nat]
BY DEF Whole, Missing, Damaged, None

\* With a file that nobody could read, whatever was reported is given up.
LEMMA NothingReadable ==
  ASSUME Expendable, \A d \in reported \ misread : file = Whole(d)
  PROVE  reported \subseteq misread
<1>1. \A d : file = Whole(d) => file.state = "whole" /\ file.device = d
  BY DEF Whole
<1>2. QED
  BY <1>1 DEF Expendable

LEMMA SeededIsNat == Seeded \in Nat
BY RunsAssumption, FS_CardinalityType DEF Seeded

LEMMA TypedStep ==
  ASSUME Typed, Next PROVE Typed'
<1>1. CASE \E p \in Runs : Start(p)
  BY <1>1, SeededIsNat DEF Typed, Start, Goto, Making
<1>2. CASE \E p \in Runs : Load(p)
  BY <1>2 DEF Typed, Load, Goto, Making
<1>3. CASE \E p \in Runs : Collect(p)
  BY <1>3 DEF Typed, Collect, Goto, Making
<1>4. CASE \E p \in Runs : SaveFails(p) \/ WriteFails(p)
  <2>1. PICK p \in Runs : SaveFails(p) \/ WriteFails(p)
    BY <1>4
  <2>2. file' = file \/ file' = Whole(fp[p])
    BY <2>1 DEF SaveFails, WriteFails
  <2>3. pc' \in [Runs -> {"new", "loading", "running", "over"} \cup Making] /\ fp' \in [Runs -> Nat]
    BY <2>1 DEF Typed, SaveFails, WriteFails, RunWithout, Goto, None
  <2>4. QED
    BY <2>1, <2>2, <2>3, WholeIsWhole DEF Typed, SaveFails, WriteFails
<1>5. CASE \E p \in Runs : Truncate(p)
  BY <1>5, WholeIsWhole DEF Typed, Truncate, Goto, Making
<1>6. CASE \E p \in Runs : Write(p)
  BY <1>6, WholeIsWhole DEF Typed, Write, Goto, Making
<1>7. CASE \E p \in Runs : Report(p) \/ Stop(p)
  BY <1>7 DEF Typed, Report, Stop, Goto, Making
<1>8. CASE \E p \in Runs : Misread(p)
  BY <1>8 DEF Typed, Misread, Goto, Making
<1>9. CASE Done
  BY <1>9 DEF Typed, Done, vars
<1>10. QED
  BY <1>1, <1>2, <1>3, <1>4, <1>5, <1>6, <1>7, <1>8, <1>9 DEF Next

LEMMA AloneStep ==
  ASSUME Typed, Alone, Next PROVE Alone'
<1>1. CASE \E p \in Runs : Start(p)
  BY <1>1 DEF Typed, Alone, Up, Start, Goto, Making
<1>2. CASE \E p \in Runs : Load(p) \/ Misread(p) \/ Collect(p) \/ Truncate(p) \/ Write(p)
  BY <1>2 DEF Typed, Alone, Up, Load, Misread, Collect, Truncate, Write, Goto, Making
<1>3. CASE \E p \in Runs : SaveFails(p) \/ WriteFails(p) \/ Report(p) \/ Stop(p)
  BY <1>3 DEF Typed, Alone, Up, SaveFails, WriteFails, RunWithout, Report, Stop, Goto, Making
<1>4. CASE Done
  BY <1>4 DEF Alone, Up, Done, vars
<1>5. QED
  BY <1>1, <1>2, <1>3, <1>4 DEF Next

\* The heart of the argument, one step per action.
LEMMA FileStep ==
  ASSUME IInv, Next, source = "file"
  PROVE  (InFile /\ NothingToLose /\ ReportedIsReplayed)'
<1> USE DEF Up, Goto, Making
<1>0. /\ Typed /\ Alone /\ InFile /\ NothingToLose
      /\ \A d \in reported \ misread : file = Whole(d)
  BY DEF IInv, ReportedIsReplayed
<1>1. ASSUME NEW p \in Runs, Start(p)
      PROVE (InFile /\ NothingToLose /\ ReportedIsReplayed)'
  BY <1>0, <1>1 DEF Typed, Start, InFile, NothingToLose, Expendable, ReportedIsReplayed
<1>2. ASSUME NEW p \in Runs, Load(p)
      PROVE (InFile /\ NothingToLose /\ ReportedIsReplayed)'
  <2>1. file.state = "whole" => file = Whole(file.device)
    BY <1>0 DEF Typed, Whole
  <2>2. QED
    BY <2>1, <1>0, <1>2 DEF Typed, Load, InFile, NothingToLose, Expendable, ReportedIsReplayed
<1>3. ASSUME NEW p \in Runs, Collect(p)
      PROVE (InFile /\ NothingToLose /\ ReportedIsReplayed)'
  BY <1>0, <1>3 DEF Typed, Collect, InFile, NothingToLose, Expendable, ReportedIsReplayed
<1>4. ASSUME NEW p \in Runs, SaveFails(p) \/ WriteFails(p)
      PROVE (InFile /\ NothingToLose /\ ReportedIsReplayed)'
  <2>1. Expendable /\ reported \subseteq misread
    BY <1>0, <1>4, NothingReadable DEF SaveFails, WriteFails, NothingToLose
  <2>2. fp'[p] = None /\ \A q \in Runs : q # p => pc'[q] \in {"new", "over"}
    BY <1>0, <1>4 DEF Typed, SaveFails, WriteFails, RunWithout, Alone
  <2>3. pc'[p] = "running" /\ reported' \subseteq misread'
    BY <1>0, <1>4, <2>1 DEF Typed, SaveFails, WriteFails, RunWithout
  <2>4. QED
    BY <2>2, <2>3 DEF InFile, NothingToLose, ReportedIsReplayed
<1>5. ASSUME NEW p \in Runs, Truncate(p)
      PROVE (InFile /\ NothingToLose /\ ReportedIsReplayed)'
  <2>1. Expendable
    BY <1>0, <1>5 DEF Truncate, NothingToLose
  <2>2. reported \subseteq misread
    BY <1>0, <2>1, NothingReadable
  <2>3. \A q \in Runs : pc'[q] # "running"
    BY <1>0, <1>5 DEF Typed, Truncate, Alone
  <2>4. QED
    BY <2>2, <2>3, <1>0, <1>5, WholeIsWhole DEF Truncate, InFile, NothingToLose, Expendable, ReportedIsReplayed
<1>6. ASSUME NEW p \in Runs, Write(p)
      PROVE (InFile /\ NothingToLose /\ ReportedIsReplayed)'
  <2>1. Expendable
    BY <1>0, <1>6 DEF Write, NothingToLose
  <2>2. reported \subseteq misread
    BY <1>0, <2>1, NothingReadable
  <2>3. \A q \in Runs : q # p => pc'[q] \in {"new", "over"}
    BY <1>0, <1>6 DEF Typed, Write, Alone
  <2>4. QED
    BY <2>2, <2>3, <1>0, <1>6 DEF Typed, Write, InFile, NothingToLose, ReportedIsReplayed
<1>7. ASSUME NEW p \in Runs, Report(p)
      PROVE (InFile /\ NothingToLose /\ ReportedIsReplayed)'
  BY <1>0, <1>7 DEF Report, InFile, NothingToLose, Expendable, ReportedIsReplayed
<1>8. ASSUME NEW p \in Runs, Stop(p)
      PROVE (InFile /\ NothingToLose /\ ReportedIsReplayed)'
  BY <1>0, <1>8 DEF Typed, Stop, InFile, NothingToLose, Expendable, ReportedIsReplayed
<1>9. CASE Done
  BY <1>0, <1>9 DEF Done, vars, InFile, NothingToLose, Expendable, ReportedIsReplayed
<1>10. ASSUME NEW p \in Runs, Misread(p)
       PROVE (InFile /\ NothingToLose /\ ReportedIsReplayed)'
  <2>1. Expendable' /\ file' = file /\ fp' = fp /\ reported' = reported /\ misread \subseteq misread'
    BY <1>10 DEF Misread, Expendable
  <2>2. \A q \in Runs : pc'[q] = "running" => pc[q] = "running"
    BY <1>0, <1>10 DEF Typed, Misread
  <2>3. QED
    BY <1>0, <2>1, <2>2 DEF InFile, NothingToLose, ReportedIsReplayed
<1>11. QED
  BY <1>1, <1>2, <1>3, <1>4, <1>5, <1>6, <1>7, <1>8, <1>9, <1>10 DEF Next

LEMMA SourceStep ==
  ASSUME Next PROVE source' = source
BY DEF Next, Start, Load, Misread, Collect, SaveFails, WriteFails, Truncate, Write, Report, Stop, Done, vars

\* The state file replays every device that was ever reported, whatever was killed
\* or failed while one was saved, but those it held when it could not be read (Resolve, saveState and main's use of them).
THEOREM ReportedIsReplayedAlways == Spec => []ReportedIsReplayed
<1>1. Init => IInv
  BY WholeIsWhole DEF Init, IInv, Typed, Alone, Up, InFile, NothingToLose, Expendable, ReportedIsReplayed, Making, None
<1>2. ASSUME IInv, [Next]_vars PROVE IInv'
  <2>1. CASE Next
    <3>1. Typed' /\ Alone'
      BY <1>2, <2>1, TypedStep, AloneStep DEF IInv
    <3>2. CASE source = "file"
      BY <1>2, <2>1, <3>1, <3>2, FileStep DEF IInv
    <3>3. CASE source # "file"
      BY <2>1, <3>1, <3>3, SourceStep DEF IInv, ReportedIsReplayed
    <3>4. QED
      BY <3>2, <3>3
  <2>2. CASE UNCHANGED vars
    BY <1>2, <2>2 DEF IInv, Typed, Alone, Up, InFile, NothingToLose, Expendable, ReportedIsReplayed, vars
  <2>3. QED
    BY <1>2, <2>1, <2>2
<1>3. IInv => ReportedIsReplayed
  BY DEF IInv
<1>4. QED
  BY <1>1, <1>2, <1>3, PTL DEF Spec
=============================================================================
