----------------------------- MODULE Fingerprint -----------------------------
(***************************************************************************)
(* fingerprint.Resolve and the state file, over many runs of the program.  *)
(* A run takes its device from the seed, else replays the one in the state *)
(* file, else collects one and saves it.  Saving truncates the file before *)
(* it writes, may fail on the way, and the run may be killed at any point. *)
(* A file that cannot be read is taken for a missing one.                  *)
(* Only one run at a time uses the file's volume.                          *)
(*                                                                         *)
(* A collected device is named by its number: the next run may be on       *)
(* another host, and what a host does not tell is filled in at random.     *)
(* The file keeps what was written to it when a process is killed.         *)
(***************************************************************************)
EXTENDS Naturals, FiniteSets

CONSTANT Runs   \* the runs of the program

ASSUME RunsAssumption == IsFiniteSet(Runs)

VARIABLES
  source,     \* "seed" if FINGERPRINT_SEED is set, "file" if only the path is
  file,       \* the state file
  pc,         \* where each run is
  fp,         \* the device it resolved, None if it has none to report
  collected,  \* how many devices were collected
  reported,   \* the devices that were reported to the upstream
  misread     \* history: the devices that were in the file when it could not be read

vars == <<source, file, pc, fp, collected, reported, misread>>

None   == 0
Seeded == Cardinality(Runs) + 1   \* the device derived from the seed

Missing   == [state |-> "missing", device |-> None]
Damaged   == [state |-> "damaged", device |-> None]
Whole(d)  == [state |-> "whole", device |-> d]

Init ==
  /\ source \in {"seed", "file"}
  /\ file = Missing
  /\ pc = [p \in Runs |-> "new"]
  /\ fp = [p \in Runs |-> None]
  /\ collected = 0 /\ reported = {} /\ misread = {}

-----------------------------------------------------------------------------
Goto(p, at) == pc' = [pc EXCEPT ![p] = at]

Up(p) == pc[p] \notin {"new", "over"}

\* The program starts; with a seed it derives its device and touches no file.
Start(p) ==
  /\ pc[p] = "new" /\ \A q \in Runs : ~Up(q)
  /\ \/ source = "seed" /\ Goto(p, "running") /\ fp' = [fp EXCEPT ![p] = Seeded]
     \/ source = "file" /\ Goto(p, "loading") /\ UNCHANGED fp
  /\ UNCHANGED <<source, file, collected, reported, misread>>

\* loadState: a missing file, or one that does not parse, is collected anew,
Load(p) ==
  /\ pc[p] = "loading"
  /\ IF file.state = "whole"
     THEN Goto(p, "running") /\ fp' = [fp EXCEPT ![p] = file.device]
     ELSE Goto(p, "collecting") /\ UNCHANGED fp
  /\ UNCHANGED <<source, file, collected, reported, misread>>

\* and so is a whole one that os.ReadFile fails on.
Misread(p) ==
  /\ pc[p] = "loading" /\ file.state = "whole"
  /\ misread' = misread \cup {file.device}
  /\ Goto(p, "collecting")
  /\ UNCHANGED <<source, file, fp, collected, reported>>

Collect(p) ==
  /\ pc[p] = "collecting"
  /\ collected' = collected + 1
  /\ fp' = [fp EXCEPT ![p] = collected + 1]
  /\ Goto(p, "saving")
  /\ UNCHANGED <<source, file, reported, misread>>

\* Mutant: the program uses a device that it could not save.
RunUnsaved(p) == Goto(p, "running") /\ UNCHANGED fp

\* Resolve returns the device and an error; the program goes on without the device.
RunWithout(p) == Goto(p, "running") /\ fp' = [fp EXCEPT ![p] = None]

\* saveState fails before it has touched the file.
SaveFails(p) ==
  /\ pc[p] = "saving"
  /\ RunWithout(p)
  /\ UNCHANGED <<source, file, collected, reported, misread>>

\* os.WriteFile empties the file ...
Truncate(p) ==
  /\ pc[p] = "saving"
  /\ file' = Damaged
  /\ Goto(p, "writing")
  /\ UNCHANGED <<source, fp, collected, reported, misread>>

\* ... and fills it,
Write(p) ==
  /\ pc[p] = "writing"
  /\ file' = Whole(fp[p])
  /\ Goto(p, "running")
  /\ UNCHANGED <<source, fp, collected, reported, misread>>

\* or fails to, on the way or when it closes the file.
WriteFails(p) ==
  /\ pc[p] = "writing"
  /\ file' \in {file, Whole(fp[p])}
  /\ RunWithout(p)
  /\ UNCHANGED <<source, collected, reported, misread>>

\* The Reporter, which exists only if there is a device, reports it.
Report(p) ==
  /\ pc[p] = "running" /\ fp[p] # None
  /\ reported' = reported \cup {fp[p]}
  /\ UNCHANGED <<source, file, pc, fp, collected, misread>>

\* The process ends, or is killed.
Stop(p) ==
  /\ Up(p)
  /\ Goto(p, "over")
  /\ UNCHANGED <<source, file, fp, collected, reported, misread>>

Done == (\A p \in Runs : pc[p] = "over") /\ UNCHANGED vars

Next ==
  \/ \E p \in Runs :
       \/ Start(p) \/ Load(p) \/ Misread(p) \/ Collect(p) \/ SaveFails(p) \/ Truncate(p)
       \/ Write(p) \/ WriteFails(p) \/ Report(p) \/ Stop(p)
  \/ Done

Spec == Init /\ [][Next]_vars

-----------------------------------------------------------------------------
(* Properties. *)

\* "Collect once, replay for ever" (the package's comment): every device reported
\* so far is the one the state file holds, so the next run reports it again and no
\* run reports another, whatever was killed or failed while saving.  Only a read that
\* failed gives a device up.
ReportedIsReplayed ==
  source = "file" => \A d \in reported \ misread : file = Whole(d)

\* What Resolve's comment says of a save that fails: "Non-fatal: fingerprint still
\* works, just won't survive restarts".
FingerprintStillWorks ==
  \A p \in Runs : pc[p] = "running" => fp[p] # None
=============================================================================
