----------------------------- MODULE OutputFile -----------------------------
(***************************************************************************)
(* What writing an output promises: the file changes whole and at one      *)
(* instant, a call that reports success has changed it and one that        *)
(* reports an error has not; a call that dies may have done either.        *)
(***************************************************************************)
CONSTANTS Process, Image, None

VARIABLES content,            \* the file: an image, or None before the first
          call,               \* of a process: None, or its image and whether it was put in place
          report              \* of its last call: "none", "success" or "error"

vars == <<content, call, report>>

Init ==
  /\ content \in Image \cup {None}
  /\ call = [p \in Process |-> None]
  /\ report = [p \in Process |-> "none"]

Begin(p) ==
  /\ call[p] = None
  /\ \E i \in Image : call' = [call EXCEPT ![p] = [image |-> i, placed |-> FALSE]]
  /\ report' = [report EXCEPT ![p] = "none"]
  /\ UNCHANGED content

Place(p) ==
  /\ call[p] # None /\ ~call[p].placed
  /\ content' = call[p].image
  /\ call' = [call EXCEPT ![p].placed = TRUE]
  /\ UNCHANGED report

End(p) ==
  /\ call[p] # None
  /\ call' = [call EXCEPT ![p] = None]
  /\ report' \in {report, [report EXCEPT ![p] = IF call[p].placed THEN "success" ELSE "error"]}
  /\ UNCHANGED content

Next == \E p \in Process : Begin(p) \/ Place(p) \/ End(p)

Spec == Init /\ [][Next]_vars
=============================================================================
