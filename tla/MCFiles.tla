------------------------------ MODULE MCFiles ------------------------------
(***************************************************************************)
(* The files of a compilation, in three families: every graph of uses      *)
(* between a few modules, with repeated, missing and misnamed ones and     *)
(* roots with and without a path; two processes replacing an output, which *)
(* on Windows may or may not run at the same time; and every small disk.   *)
(***************************************************************************)
EXTENDS ModuleLoader, OutputInstall, MCDiskImage

CONSTANTS a, b                \* two modules beside the root and Sys

Modules == {Root, Sys, a, b}
Upto(n, S) == UNION {[1..k -> S] : k \in 0..n}

AnyUses ==
  /\ \E r \in Upto(2, Modules), s \in Upto(1, {Root, a, b}), u \in Upto(2, Modules), v \in Upto(1, Modules) :
       uses = [m \in Module |-> CASE m = Root -> r [] m = Sys -> s [] m = a -> u [] m = b -> v]
  /\ \E m \in Module, o \in {"named", "legacy"} : provided = [n \in Module |-> IF n = m THEN o ELSE "named"]
  /\ named \in BOOLEAN /\ implicit \in BOOLEAN
  /\ LoadInit

-----------------------------------------------------------------------------
CONSTANTS None
ASSUME NoneAssumption == None \notin Image /\ None \notin [image : Image, placed : BOOLEAN]

VARIABLE serial               \* one call at a time

Busy(p) == pc[p] # "idle"

AnyInstall == Init /\ serial \in BOOLEAN /\ (serial => system = "windows")
InstallOutput ==
  /\ Next
  /\ serial => \A p, q \in Process : (Busy(p) /\ Busy(q) => p = q)'

Content == IF shown = Absent THEN None ELSE shown
Calls ==
  [p \in Process |-> IF ~Busy(p) THEN None
                     ELSE [image |-> call[p].image, placed |-> pc[p] \in {"drop", "done"}]]
Output == INSTANCE OutputFile WITH content <- Content, call <- Calls

(* A call changes the output whole, at one instant, exactly when it        *)
(* reports success, as long as runners on Windows take turns: otherwise    *)
(* one that cannot replace the output may restore it over a newer one.     *)
Atomic == system = "unix" \/ serial
RefinesOutputFile == (Atomic => Output!Init) /\ [][Atomic => Output!Next]_(Output!vars)

-----------------------------------------------------------------------------
VARIABLE family               \* what a behaviour is about

NoUses ==
  /\ uses = [m \in Module |-> <<>>] /\ provided = [m \in Module |-> "named"]
  /\ named = TRUE /\ implicit = FALSE
  /\ LoadInit
NoInstall == Init /\ system = "unix" /\ shown = Absent /\ serial = FALSE
NoDisk == slot = [i \in Slot |-> Blank] /\ sector = <<>> /\ vtoc = {}

FilesInit ==
  \/ family = "modules" /\ AnyUses /\ NoInstall /\ NoDisk
  \/ family = "outputs" /\ NoUses /\ AnyInstall /\ NoDisk
  \/ family = "disks" /\ NoUses /\ NoInstall /\ AnyDisk
FilesNext ==
  /\ \/ family = "modules" /\ Load /\ UNCHANGED <<vars, disk>>
     \/ family = "outputs" /\ InstallOutput /\ UNCHANGED <<loader, disk>>
     \/ family = "disks" /\ WriteDisk /\ UNCHANGED <<loader, vars>>
  /\ UNCHANGED <<serial, family>>
FilesSpec == FilesInit /\ [][FilesNext]_<<loader, vars, disk, serial, family>>

(* To its readers the image is a store of whole files: a write is seen     *)
(* whole under its name, and under no other, in the root or below.         *)
OnDisk == family = "disks"
RefinesFileStore == (OnDisk => Store!Init) /\ [][OnDisk => Store!Next]_Shown
=============================================================================
