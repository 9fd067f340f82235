---------------------------- MODULE OutputInstall ----------------------------
(***************************************************************************)
(* write_file_atomically of src/runner/mod.rs (tool "actionc-run") and of  *)
(* src/cli.rs ("actionc"): an output goes to a temporary file beside its   *)
(* destination, which is then renamed over it.  On Windows the runner      *)
(* renames the old output to a backup first, and back when the rename that *)
(* follows fails.  One action is one call of the file system; each may     *)
(* fail, a process may die between any two, and several run at once.  A    *)
(* process that starts may have the number of one that died.               *)
(*                                                                         *)
(* Power failures are left out: the code syncs nothing to disk.            *)
(***************************************************************************)
EXTENDS Naturals

CONSTANTS Process,            \* process numbers
          Sequence,           \* values NEXT_RUN_DIRECTORY has when a backup is named
          Image,              \* contents of complete outputs
          Absent, Torn,       \* no file, and one written in part
          NoPath

ASSUME DistinctContents == Absent \notin Image /\ Torn \notin Image /\ Absent # Torn

VARIABLES system,             \* "unix" or "windows"
          file,               \* contents by path
          pc,                 \* the next call of each process
          call,               \* what each process was asked to write
          report,             \* how its last call of write_file_atomically returned
          shown, retired      \* history: the last contents of the destination, and
                              \* where the destination was last renamed to

vars == <<system, file, pc, call, report, shown, retired>>

Tool == {"actionc", "actionc-run"}
Destination == <<"output">>
Temporary(p) == <<"tmp", call[p].tool, p>>
Backup(p) == <<"bak", p, call[p].sequence>>
Temporaries == {<<"tmp", t, p>> : t \in Tool, p \in Process}
Backups == {<<"bak", p, s>> : p \in Process, s \in Sequence}
Path == {Destination} \cup Temporaries \cup Backups
ASSUME NoPathAssumption == NoPath \notin Backups

Exists(f) == file[f] # Absent
NoCall == [tool |-> "actionc", image |-> Absent, sequence |-> 0]

Init ==
  /\ system \in {"unix", "windows"}
  /\ \E old \in Image \cup {Absent} :
       /\ file = [f \in Path |-> IF f = Destination THEN old ELSE Absent]
       /\ shown = old
  /\ pc = [p \in Process |-> "idle"]
  /\ call = [p \in Process |-> NoCall]
  /\ report = [p \in Process |-> "none"]
  /\ retired = NoPath

Goto(p, s) == pc' = [pc EXCEPT ![p] = s]
Finish(p, r) ==
  /\ Goto(p, "idle")
  /\ call' = [call EXCEPT ![p] = NoCall]
  /\ report' = [report EXCEPT ![p] = r]

Rename(f, g) == file' = [file EXCEPT ![g] = file[f], ![f] = Absent]
Install(f) == Rename(f, Destination) /\ shown' = file[f]

Begin(p, t, i, s) ==
  /\ pc[p] = "idle"
  /\ call' = [call EXCEPT ![p] = [tool |-> t, image |-> i, sequence |-> s]]
  /\ report' = [report EXCEPT ![p] = "none"]
  /\ Goto(p, "create")
  /\ UNCHANGED <<system, file, shown, retired>>

(* fs::write opens, then writes; the runner leaves what it could not write. *)
WriteFails(p) ==
  /\ IF call[p].tool = "actionc" THEN Goto(p, "discard") /\ UNCHANGED <<call, report>>
     ELSE Finish(p, "error")
  /\ UNCHANGED file

Create(p) ==
  /\ pc[p] = "create"
  /\ \/ file' = [file EXCEPT ![Temporary(p)] = Torn] /\ Goto(p, "fill") /\ UNCHANGED <<call, report>>
     \/ WriteFails(p)
  /\ UNCHANGED <<system, shown, retired>>

Fill_IgnoresFailure(p) ==
  /\ pc[p] = "fill"
  /\ Goto(p, "install") /\ UNCHANGED <<call, report>>
  /\ file' \in {file, [file EXCEPT ![Temporary(p)] = call[p].image]}
  /\ UNCHANGED <<system, shown, retired>>

Fill(p) ==
  /\ pc[p] = "fill"
  /\ \/ file' = [file EXCEPT ![Temporary(p)] = call[p].image] /\ Goto(p, "install") /\ UNCHANGED <<call, report>>
     \/ WriteFails(p)
  /\ UNCHANGED <<system, shown, retired>>

Retires(p) == system = "windows" /\ call[p].tool = "actionc-run"

(* Nobody but its owner touches a backup, so both tests are one step.      *)
Look(p) ==
  /\ pc[p] = "install" /\ Retires(p)
  /\ Goto(p, IF ~Exists(Destination) THEN "rename" ELSE IF Exists(Backup(p)) THEN "discard" ELSE "retire")
  /\ UNCHANGED <<system, file, call, report, shown, retired>>

Place(p) ==
  /\ pc[p] = "rename" \/ (pc[p] = "install" /\ ~Retires(p))
  /\ \/ Install(Temporary(p)) /\ Goto(p, "done")
     \/ Goto(p, "discard") /\ UNCHANGED <<file, shown>>
  /\ UNCHANGED <<system, call, report, retired>>

Retire_Deletes(p) ==
  /\ pc[p] = "retire"
  /\ \/ Exists(Destination) /\ file' = [file EXCEPT ![Destination] = Absent]
        /\ retired' = Backup(p) /\ Goto(p, "replace")
     \/ Goto(p, "discard") /\ UNCHANGED <<file, retired>>
  /\ UNCHANGED <<system, call, report, shown>>

Retire(p) ==
  /\ pc[p] = "retire"
  /\ \/ Exists(Destination) /\ Rename(Destination, Backup(p))
        /\ retired' = Backup(p) /\ Goto(p, "replace")
     \/ Goto(p, "discard") /\ UNCHANGED <<file, retired>>
  /\ UNCHANGED <<system, call, report, shown>>

Replace(p) ==
  /\ pc[p] = "replace"
  /\ \/ Install(Temporary(p)) /\ Goto(p, "drop")
     \/ Goto(p, "restore") /\ UNCHANGED <<file, shown>>
  /\ UNCHANGED <<system, call, report, retired>>

(* When this fails too, the user is told that the backup holds the output. *)
Restore(p) ==
  /\ pc[p] = "restore"
  /\ (Exists(Backup(p)) /\ Install(Backup(p))) \/ UNCHANGED <<file, shown>>
  /\ Goto(p, "discard")
  /\ UNCHANGED <<system, call, report, retired>>

Removes(p, f, r) ==
  /\ file' \in {file, [file EXCEPT ![f] = Absent]}
  /\ Finish(p, r)
  /\ UNCHANGED <<system, shown, retired>>

Drop(p) == pc[p] = "drop" /\ Removes(p, Backup(p), "success")
Discard(p) == pc[p] = "discard" /\ Removes(p, Temporary(p), "error")

Succeed(p) ==
  /\ pc[p] = "done"
  /\ Finish(p, "success")
  /\ UNCHANGED <<system, file, shown, retired>>

Dies(p) ==
  /\ pc[p] # "idle"
  /\ Finish(p, report[p])
  /\ UNCHANGED <<system, file, shown, retired>>

Act(p) ==
  \/ Create(p) \/ Fill(p) \/ Look(p) \/ Place(p) \/ Retire(p) \/ Replace(p)
  \/ Restore(p) \/ Drop(p) \/ Discard(p) \/ Succeed(p) \/ Dies(p)

Next ==
  \E p \in Process :
    \/ \E t \in Tool, i \in Image, s \in Sequence : Begin(p, t, i, s)
    \/ Act(p)

Spec == Init /\ [][Next]_vars

-----------------------------------------------------------------------------
Stage ==
  {"idle", "create", "fill", "install", "rename", "retire", "replace", "restore", "drop",
   "done", "discard"}

(* Types, with the paths a running process uses. *)
TypeOK ==
  /\ system \in {"unix", "windows"}
  /\ file \in [Path -> Image \cup {Absent, Torn}]
  /\ pc \in [Process -> Stage]
  /\ DOMAIN call = Process
  /\ \A p \in Process : pc[p] # "idle" =>
       call[p] \in [tool : Tool, image : Image, sequence : Sequence]
  /\ report \in [Process -> {"none", "success", "error"}]
  /\ shown \in Image \cup {Absent, Torn}
  /\ retired \in Backups \cup {NoPath}

(* Whoever dies or fails, and however the calls of several processes mix:  *)
(* the destination is never torn, what it last held is there, and where it *)
(* is missing, which only the runner on Windows can bring about, the last  *)
(* backup that was made of it holds it.                                    *)
LastOutputSurvives ==
  IF Exists(Destination) THEN file[Destination] = shown /\ shown \in Image
  ELSE shown # Absent => system = "windows" /\ retired # NoPath /\ file[retired] = shown
=============================================================================
