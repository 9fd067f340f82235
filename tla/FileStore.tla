----------------------------- MODULE FileStore -----------------------------
(* What a disk image promises to one who adds files: a name holds what was *)
(* last written under it, and a write to one name shows under no other.    *)
CONSTANTS Path,               \* names of files, those in subdirectories too
          Root,               \* those that may be written
          Content             \* what a file may hold, NoFile aside

CONSTANT NoFile

VARIABLE files

Init == files \in [Path -> Content \cup {NoFile}]

Write(p, c) == files' = [files EXCEPT ![p] = c]

Next == \E p \in Root : \E c \in Content : Write(p, c)
Spec == Init /\ [][Next]_files
=============================================================================
