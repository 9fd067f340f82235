---------------------------- MODULE ContextSwitch ----------------------------
(***************************************************************************)
(* What a context bridge promises the tasks it serves: each has a context  *)
(* that only its own execution changes, it loses the processor only while  *)
(* unmasked or by leaving for good, and gets it back with the context it   *)
(* lost it with.  Interrupts, stacks and dispatchers do not exist here.    *)
(***************************************************************************)
CONSTANTS Task,
          None,               \* no task has the processor
          Dead,               \* the context of a task that left
          Entry(_),           \* contexts a task may start from
          Masked(_)           \* whether a context has interrupts masked

VARIABLES context, running

vars == <<context, running>>

Init ==
  /\ context \in {c \in [Task -> UNION {Entry(t) : t \in Task}] : \A t \in Task : c[t] \in Entry(t)}
  /\ running = None

OthersKeep(t) == \A u \in Task \ {t} : context'[u] = context[u]

(* The running task computes. *)
Run ==
  /\ running # None
  /\ OthersKeep(running)
  /\ context'[running] # Dead
  /\ UNCHANGED running

(* An interrupt takes the processor between two instructions. *)
Preempt ==
  /\ running # None
  /\ ~Masked(context[running])
  /\ running' = None
  /\ UNCHANGED context

(* The task gives the processor up, completing the instruction that does.  *)
GiveUp ==
  /\ running # None
  /\ running' = None
  /\ OthersKeep(running)
  /\ context'[running] # Dead

Leave ==
  /\ running # None
  /\ running' = None
  /\ OthersKeep(running)
  /\ context'[running] = Dead

Resume(t) ==
  /\ running = None
  /\ context[t] # Dead
  /\ running' = t
  /\ UNCHANGED context

Next == Run \/ Preempt \/ GiveUp \/ Leave \/ \E t \in Task : Resume(t)

Spec == Init /\ [][Next]_vars
=============================================================================
