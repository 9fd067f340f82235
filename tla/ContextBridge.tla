---------------------------- MODULE ContextBridge ----------------------------
(***************************************************************************)
(* The native-v2 context bridge, runtime/65816/native-v2.s: IRQ and COP    *)
(* entry, dispatch on the IRQ stack, restore, NMI, the cooperative yield,  *)
(* the IRQ-state routines and the continuation a task returns to, started  *)
(* from the first-task images of src/mir65816/context.rs.                  *)
(*                                                                         *)
(* A step is a run of instructions with at most one effect on S, the stack *)
(* or the I flag; an IRQ (when I is clear) or an NMI may fall between any  *)
(* two steps.  The NMI handler cannot itself be interrupted (the board     *)
(* admits one NMI at a time and its entry masks IRQ), so its save and its  *)
(* restore are a step each, with the deepest stack visible in between.     *)
(***************************************************************************)
EXTENDS NativeFrame

CONSTANTS Task,               \* tasks, each with a stack and a direct page
          Irq,                \* the IRQ domain
          Boot,               \* the bootstrap domain, where execution starts
          None,               \* no task
          TaskUsable,         \* bytes above a task's floor (ceiling - floor)
          IrqUsable,          \* bytes above the IRQ domain's floor
          Widths,             \* <<m8, x8>> pairs task code runs with
          MaxLocals,          \* bound: bytes of locals a task body may push
          MaxNest             \* bound: nested critical sections

ASSUME DomainAssumption == Irq \notin Task /\ Boot \notin Task /\ Irq # Boot /\ None \notin Task

TaskHeadroom == 26            \* INTERRUPT_TASK_OR_BOOTSTRAP_HEADROOM_BASE_BYTES
IrqHeadroom == 13             \* INTERRUPT_IRQ_HEADROOM_BASE_BYTES

(* FirstTask::new: the entry frame fits above the floor, the image fits the *)
(* stack; Domain::floor: the IRQ bridge has six bytes above its floor.      *)
ASSUME LayoutAssumption ==
  /\ TaskUsable \in Nat /\ TaskUsable >= 6
  /\ IrqUsable \in Nat /\ IrqUsable >= 6
  /\ MaxLocals \in Nat /\ MaxNest \in Nat
  /\ Widths \subseteq BOOLEAN \X BOOLEAN /\ <<FALSE, FALSE>> \in Widths

VARIABLES cpu,                \* registers, P, the stack S points into, the pc
          stack,              \* bytes of each domain's stack
          scratch,            \* what each direct page's compiler scratch holds
          current,            \* task the dispatcher has published
          saved,              \* its two-byte context records
          tokens,             \* IRQ tokens each task holds in its locals
          shadow,             \* history: context of each domain at its last IRQ or COP
          masked,             \* tasks whose first image starts with I set
          nmi                 \* history: context an active NMI interrupted

vars == <<cpu, stack, scratch, current, saved, tokens, shadow, masked, nmi>>
dispatcher == <<current, saved>>
programs == <<tokens, masked>>

Domain == Task \cup {Irq, Boot}
Usable(d) == IF d = Irq THEN IrqUsable ELSE TaskUsable
Size(d) == Usable(d) + (IF d = Irq THEN IrqHeadroom ELSE TaskHeadroom)

-----------------------------------------------------------------------------
Top == stack[cpu.dom]
S == SavedS(cpu.dom, Len(Top))
Push(bytes) == stack' = [stack EXCEPT ![cpu.dom] = @ \o bytes]
Pop(n) == stack' = [stack EXCEPT ![cpu.dom] = Drop(@, n)]
At_pc(r, k) == cpu.pc = <<r, k>>
Goto(r, k) == cpu' = [cpu EXCEPT !.pc = <<r, k>>]

Rtl == cpu' = [cpu EXCEPT !.pc = After(WordAt(Top, 1))] /\ Pop(3)

Narrow(r) == (r = "A" /\ cpu.P.m8) \/ (r \in {"X", "Y"} /\ cpu.P.x8)
Image(r) == IF r = "B" THEN Byte(cpu.B) ELSE IF Narrow(r) THEN <<<<"lo", cpu[r]>>>> ELSE Word(cpu[r])
Extent(r) == IF r = "B" \/ Narrow(r) THEN 1 ELSE 2
Pulled(r) == IF r = "B" THEN ByteAt(Top, 1) ELSE IF Narrow(r) THEN Junk ELSE WordAt(Top, 1)

(* Everything a program can observe of the processor at this instant. *)
Context == [cpu |-> cpu, stack |-> Top]

-----------------------------------------------------------------------------
BootCpu ==
  [A |-> Zero, X |-> Zero, Y |-> Zero, D |-> Page(Boot), B |-> Zero,
   P |-> Flags(TRUE), dom |-> Boot, pc |-> <<"boot", 0>>]

NoContext == [cpu |-> [BootCpu EXCEPT !.pc = Junk], stack |-> <<>>]

Init ==
  /\ masked \in SUBSET Task
  /\ cpu = BootCpu
  /\ stack = [d \in Domain |-> IF d \in Task THEN FirstImage(d, d \in masked) ELSE <<>>]
  /\ scratch = [d \in Domain |-> Own(d)]
  /\ current = None
  /\ saved = [t \in Task |-> SavedS(t, 19)]
  /\ tokens = [t \in Task |-> <<>>]
  /\ shadow = [d \in Domain |-> IF d \in Task THEN EntryContext(d, d \in masked) ELSE NoContext]
  /\ nmi = NoContext

-----------------------------------------------------------------------------
(* Interrupt entry is the processor's: four bytes, I set, D bit cleared.   *)
Interrupt(routine, resume) ==
  /\ Push(HardwareFrame(cpu.P, resume))
  /\ cpu' = [cpu EXCEPT !.P.i = TRUE, !.pc = <<routine, 0>>]

Running == nmi = NoContext /\ cpu.pc[1] \notin {"A816_TERMINAL", "A816_STACK_OVERFLOW"}

IrqArrives ==
  /\ Running
  /\ ~cpu.P.i
  /\ Interrupt("irq", cpu.pc)
  /\ shadow' = [shadow EXCEPT ![cpu.dom] = Context]
  /\ UNCHANGED <<scratch, dispatcher, programs, nmi>>

(* __a816_irq_v2, __a816_cop_v2: save_full, a register at a time, then the *)
(* complete saved_s in X and the dispatch reason in Y.                     *)
SaveFull(r) ==
  /\ \/ /\ At_pc(r, 0)
        /\ cpu' = [cpu EXCEPT !.P = Widened(@), !.pc = <<r, 1>>]
        /\ UNCHANGED stack
     \/ \E k \in 1..5 :
          /\ At_pc(r, k)
          /\ Push(Image(SaveOrder[k]))
          /\ Goto(r, k + 1)
     \/ /\ At_pc(r, 6)
        /\ cpu' = [cpu EXCEPT !.A = S, !.X = S, !.Y = <<"reason", r>>, !.pc = <<"dispatch", 0>>]
        /\ UNCHANGED stack

SetS(sp) ==
  /\ sp[1] = "sp"
  /\ stack' = [stack EXCEPT ![sp[2]] = Resize(@, sp[3])]

(* dispatch: S, then D, then DBR become the IRQ domain's.                  *)
SwitchStack ==
  /\ At_pc("dispatch", 0)
  /\ SetS(SavedS(Irq, 0))
  /\ cpu' = [cpu EXCEPT !.A = Junk, !.dom = Irq, !.pc = <<"dispatch", 1>>]

SwitchPage_KeepsD ==
  /\ At_pc("dispatch", 1)
  /\ Goto("dispatch", 2)
  /\ UNCHANGED stack

SwitchPage ==
  /\ At_pc("dispatch", 1)
  /\ cpu' = [cpu EXCEPT !.D = Page(Irq), !.pc = <<"dispatch", 2>>]
  /\ UNCHANGED stack

(* The byte for DBR is pushed eight bits wide, on the IRQ stack. *)
SwitchBank ==
  /\ \/ /\ At_pc("dispatch", 2)
        /\ Push(Byte(Zero))
        /\ cpu' = [cpu EXCEPT !.P.m8 = TRUE, !.pc = <<"dispatch", 3>>]
     \/ /\ At_pc("dispatch", 3)
        /\ Pop(1)
        /\ cpu' = [cpu EXCEPT !.B = ByteAt(Top, 1), !.P.m8 = FALSE, !.pc = <<"dispatch", 4>>]

(* The kind byte of the direct page D names: task, IRQ or bootstrap.       *)
Kind(page) == IF page[2] = Irq THEN "irq" ELSE IF page[2] = Boot THEN "boot" ELSE "task"
Signature(pc) == IF pc[1] = "cop1" THEN 1 ELSE 0

(* The interrupted context X points at, as the COP checks read it. *)
Interrupted == stack[cpu.X[2]]
CopAccepted ==
  /\ ~PAt(Interrupted, 10).i
  /\ Kind(WordAt(Interrupted, 2)) = "task"
  /\ Signature(WordAt(Interrupted, 11)) = 0

(* The reason goes to IRQ-owned scratch (as PC-1 does for the signature),  *)
(* and a COP is resumable only from an unmasked task with signature zero.  *)
Validate ==
  /\ At_pc("dispatch", 4)
  /\ scratch' = [scratch EXCEPT ![cpu.D[2]] = cpu.Y]
  /\ IF cpu.Y = <<"reason", "irq">> THEN Goto("dispatch", 5)
     ELSE IF CopAccepted
       THEN cpu' = [cpu EXCEPT !.A = Junk, !.Y = Junk, !.pc = <<"dispatch", 5>>]
       ELSE Goto("terminal", 0)
  /\ UNCHANGED <<stack, dispatcher, programs, shadow, nmi>>

(* invoke: reserve the call area, fill it, call the hook, release it.      *)
ReserveArguments ==
  /\ At_pc("dispatch", 5)
  /\ stack' = [stack EXCEPT ![cpu.dom] = Resize(@, Len(@) + 3)]
  /\ Goto("dispatch", 6)

CallArea == Byte(scratch[cpu.D[2]]) \o Word(cpu.X)       \* BYTE reason, CARD saved_s
StoreArguments_BeforeReserving ==
  /\ At_pc("dispatch", 6)
  /\ Goto("dispatch", 7)
  /\ UNCHANGED stack
StoreArguments ==
  /\ At_pc("dispatch", 6)
  /\ stack' = [stack EXCEPT ![cpu.dom] = Drop(@, 3) \o CallArea]
  /\ Goto("dispatch", 7)

Invoke ==
  \/ ReserveArguments
  \/ StoreArguments
  \/ /\ At_pc("dispatch", 7)                                      \* jsl
     /\ Push(ReturnAddress(<<"dispatch", 8>>))
     /\ Goto("A816_DISPATCH", 0)
  \/ /\ At_pc("dispatch", 8)                                      \* adc #3, tcs
     /\ Pop(3)
     /\ Goto("restore", 0)

(* The platform's A816_DISPATCH: records the interrupted saved_s, picks    *)
(* and publishes a task, returns its saved_s in A; X and Y are scratch.    *)
Dispatch(t) ==
  /\ At_pc("A816_DISPATCH", 0)
  /\ saved' = [u \in Task |-> IF u = current THEN WordAt(Top, 4) ELSE saved[u]]
  /\ saved'[t] # Junk
  /\ current' = t
  /\ cpu' = [cpu EXCEPT !.A = saved'[t], !.X = Junk, !.Y = Junk, 
                        !.pc = After(WordAt(Top, 1))]
  /\ Pop(3)
  /\ UNCHANGED <<scratch, programs, shadow, nmi>>

(* __a816_restore_v2: S from A, the registers in reverse order, RTI.       *)
Restore ==
     \/ /\ At_pc("restore", 0)                                    \* sei, rep
        /\ cpu' = [cpu EXCEPT !.P = Flags(TRUE), !.pc = <<"restore", 1>>]
        /\ UNCHANGED stack
     \/ /\ At_pc("restore", 1)                                    \* tcs
        /\ SetS(cpu.A)
        /\ cpu' = [cpu EXCEPT !.dom = cpu.A[2], !.pc = <<"restore", 2>>]
     \/ \E k \in 1..5 :
          /\ At_pc("restore", k + 1)
          /\ cpu' = [cpu EXCEPT ![RestoreOrder[k]] = Pulled(RestoreOrder[k]),
                                !.pc = <<"restore", k + 2>>]
          /\ Pop(Extent(RestoreOrder[k]))

ReturnFromInterrupt ==
  /\ At_pc("restore", 7)
  /\ cpu' = [cpu EXCEPT !.P = PAt(Top, 1), !.pc = WordAt(Top, 2)]
  /\ Pop(4)
  /\ shadow' = [shadow EXCEPT ![cpu.dom] = NoContext]
  /\ UNCHANGED <<scratch, dispatcher, programs, nmi>>

Terminal ==
  /\ At_pc("terminal", 0)
  /\ cpu' = [cpu EXCEPT !.P = Flags(TRUE), !.pc = <<"A816_TERMINAL", 0>>]
  /\ UNCHANGED stack

-----------------------------------------------------------------------------
(* __a816_nmi_v2: a full frame on whichever stack was interrupted, the     *)
(* acknowledgement, and the frame back into the registers.                 *)
NmiEnter ==
  /\ Running
  /\ nmi' = Context
  /\ Push(HardwareFrame(cpu.P, cpu.pc) \o Word(cpu.A) \o Word(cpu.X) \o Word(cpu.Y)
            \o Word(cpu.D) \o Byte(cpu.B))
  /\ cpu' = [cpu EXCEPT !.P = [i |-> TRUE, m8 |-> TRUE, x8 |-> FALSE], !.A = Junk,
                        !.pc = <<"nmi", 0>>]
  /\ UNCHANGED <<scratch, dispatcher, programs, shadow>>

NmiExit_LosesA ==
  /\ At_pc("nmi", 0)
  /\ cpu' = [cpu EXCEPT !.B = ByteAt(Top, 1), !.D = WordAt(Top, 2), !.Y = WordAt(Top, 4),
                        !.X = WordAt(Top, 6), !.P = PAt(Top, 10), !.pc = WordAt(Top, 11)]
  /\ Pop(13)
  /\ nmi' = NoContext
  /\ UNCHANGED <<scratch, dispatcher, programs, shadow>>

NmiExit ==
  /\ At_pc("nmi", 0)
  /\ cpu' = [cpu EXCEPT !.B = ByteAt(Top, 1), !.D = WordAt(Top, 2), !.Y = WordAt(Top, 4),
                        !.X = WordAt(Top, 6), !.A = WordAt(Top, 8), !.P = PAt(Top, 10),
                        !.pc = WordAt(Top, 11)]
  /\ Pop(13)
  /\ nmi' = NoContext
  /\ UNCHANGED <<scratch, dispatcher, programs, shadow>>

-----------------------------------------------------------------------------
(* check_stack: nothing is pushed unless it stays above the floor that the *)
(* direct page publishes; otherwise A has the amount and X has S.  A stack *)
(* is what lies below its ceiling, so S above it cannot be written down.   *)
Fits_OffByOne(n) == Len(Top) + n <= Usable(cpu.D[2]) + 1
Fits(n) == Len(Top) + n <= Usable(cpu.D[2])
CheckStack(n, r, k) ==
  /\ cpu' = [cpu EXCEPT !.A = IF Fits(n) THEN Junk ELSE <<"amount", n>>, !.X = S,
                        !.pc = IF Fits(n) THEN <<r, k>> ELSE <<"A816_STACK_OVERFLOW", 0>>]
  /\ UNCHANGED stack


(* __a816_yield_v2: the I flag and the domain kind decide, then a COP.     *)
Yield ==
  \/ At_pc("yield", 0) /\ CheckStack(1, "yield", 1)
  \/ At_pc("yield", 1) /\ Push(PByte(cpu.P)) /\ Goto("yield", 2)
  \/ /\ At_pc("yield", 2)                                         \* sep, pla, and
     /\ cpu' = [cpu EXCEPT !.A = StatusBit(PAt(Top, 1)), !.P.m8 = TRUE, !.pc = <<"yield", 3>>]
     /\ Pop(1)
  \/ /\ At_pc("yield", 3)                                         \* bne, lda kind, bne, rep
     /\ IF cpu.A = Flag(TRUE) \/ Kind(cpu.D) # "task"
          THEN Goto("terminal", 0)
          ELSE cpu' = [cpu EXCEPT !.A = Junk, !.P.m8 = FALSE, !.pc = <<"yield", 4>>]
     /\ UNCHANGED stack
  \/ At_pc("yield", 5) /\ Rtl

Cop(resume) ==
  /\ Interrupt("cop", resume)
  /\ shadow' = [shadow EXCEPT ![cpu.dom] = [Context EXCEPT !.cpu.pc = resume]]
  /\ UNCHANGED <<scratch, dispatcher, programs, nmi>>

YieldCop == At_pc("yield", 4) /\ Cop(<<"yield", 5>>)

(* __a816_irq_save_disable_v2: the flag is read before it is set, and an   *)
(* IRQ between the two must not matter.                                    *)
SaveDisable ==
  /\ \/ At_pc("save", 0) /\ CheckStack(1, "save", 1)
     \/ At_pc("save", 1) /\ Push(PByte(cpu.P)) /\ Goto("save", 2)
     \/ /\ At_pc("save", 2)                                       \* sei
        /\ cpu' = [cpu EXCEPT !.P.i = TRUE, !.pc = <<"save", 3>>]
        /\ UNCHANGED stack
     \/ /\ At_pc("save", 3)                                       \* pla, and #4
        /\ cpu' = [cpu EXCEPT !.A = StatusBit(PAt(Top, 1)), !.pc = <<"save", 4>>]
        /\ Pop(1)
     \/ At_pc("save", 4) /\ Rtl

(* The token is the caller's one outgoing byte, above the return address. *)
TokenMasks_WrongOffset(s) == ByteAt(s, 3) = Flag(TRUE)
TokenMasks(s) == ByteAt(s, 4) = Flag(TRUE)

(* __a816_irq_restore_v2: only the token's bit reaches P. *)
RestoreIrq ==
  /\ \/ /\ At_pc("restore_irq", 0)                                \* lda 4,s; sei or cli
        /\ cpu' = [cpu EXCEPT !.A = Junk, !.P.i = TokenMasks(Top),
                              !.pc = <<"restore_irq", 1>>]
        /\ UNCHANGED stack
     \/ At_pc("restore_irq", 1) /\ Rtl

FirstTaskOutgoing == 3        \* FIRST_TASK_OUTGOING_BYTES: the argument

(* __a816_task_return_v2: release the argument, then an ordinary call of   *)
(* the exit binding, whose return would be a terminal fault.               *)
TaskReturn ==
  /\ \/ At_pc("task_return", 0) /\ Pop(FirstTaskOutgoing) /\ Goto("task_return", 1)
     \/ At_pc("task_return", 1) /\ CheckStack(4, "task_return", 2)
     \/ At_pc("task_return", 2) /\ Push(Byte(Zero)) /\ Goto("task_return", 3)
     \/ /\ At_pc("task_return", 3)
        /\ Push(ReturnAddress(<<"task_return", 4>>))
        /\ Goto("A816_TASK_EXIT", 0)
     \/ At_pc("task_return", 4) /\ Goto("terminal", 0) /\ UNCHANGED stack

(* The platform's exit binding: hands the processor to another context     *)
(* through __a816_restore_v2, or, against its contract, returns.           *)
TaskExit(t) ==
  /\ At_pc("A816_TASK_EXIT", 0)
  /\ saved[t] # Junk /\ t # current
  /\ saved' = [saved EXCEPT ![current] = Junk]
  /\ current' = t
  /\ cpu' = [cpu EXCEPT !.A = saved[t], !.P.i = TRUE, !.pc = <<"restore", 0>>]
  /\ UNCHANGED <<stack, scratch, programs, shadow, nmi>>

ExitReturns ==
  /\ At_pc("A816_TASK_EXIT", 0)
  /\ Rtl

-----------------------------------------------------------------------------
(* The bootstrap selects a first task, or yields where it must not.        *)
BootStart(t) ==
  /\ At_pc("boot", 0)
  /\ current' = t
  /\ cpu' = [cpu EXCEPT !.A = saved[t], !.pc = <<"restore", 0>>]
  /\ UNCHANGED <<stack, scratch, saved, programs, shadow, nmi>>

BootYields ==
  /\ At_pc("boot", 0)
  /\ \E i \in BOOLEAN :
       cpu' = [cpu EXCEPT !.P.i = i, !.pc = <<"yield", 0>>]
  /\ Push(Byte(Zero) \o ReturnAddress(<<"boot", 0>>))

(* Compiled task code, as far as the bridge can tell: it changes widths    *)
(* and DBR, reserves stack after a check, calls the bridge's routines at   *)
(* the boundary state M=X=0, DBR=0, and releases its own outgoing bytes.   *)
InBody(t) == At_pc("body", t)
AtBoundary(t) == InBody(t) /\ ~cpu.P.m8 /\ ~cpu.P.x8
Local == Byte(<<"local">>)
Locals == Len(Top) - (FirstTaskOutgoing + 3)      \* above the argument and the return address
Overflow == Goto("A816_STACK_OVERFLOW", 0) /\ UNCHANGED stack

(* The task computes: its registers hold values of its own. *)
Computes(t, w) == [cpu EXCEPT !.A = <<"A", t>>, !.X = <<"X", t>>, !.Y = <<"Y", t>>, 
                         !.B = IF w = <<FALSE, FALSE>> THEN Zero ELSE <<"B", t>>,
                         !.P.m8 = w[1], !.P.x8 = w[2], !.pc = <<"body", t>>]

SetWidths(t) ==
  /\ InBody(t)
  /\ \E w \in Widths : cpu' = Computes(t, w)
  /\ UNCHANGED stack

PushLocal(t) ==
  /\ AtBoundary(t)
  /\ Locals < MaxLocals
  /\ IF Fits(1) THEN Push(Local) /\ UNCHANGED cpu ELSE Overflow

PopLocal(t) ==
  /\ AtBoundary(t)
  /\ Locals > 0
  /\ Pop(1)
  /\ UNCHANGED cpu

(* One outgoing byte (an argument or padding) and the return address. *)
Call(t, argument, routine, after) ==
  IF Fits(4) THEN Push(Byte(argument) \o ReturnAddress(<<after, t>>)) /\ Goto(routine, 0)
  ELSE Overflow

CallYield(t) ==
  /\ AtBoundary(t)
  /\ Call(t, Zero, "yield", "after_call")

CallSaveDisable(t) ==
  /\ AtBoundary(t)
  /\ Len(tokens[t]) < MaxNest
  /\ Call(t, Zero, "save", "after_save")

CallRestore(t) ==
  /\ AtBoundary(t)
  /\ tokens[t] # <<>>
  /\ Call(t, tokens[t][Len(tokens[t])], "restore_irq", "after_call")
  /\ tokens' = IF Fits(4) THEN [tokens EXCEPT ![t] = SubSeq(@, 1, Len(@) - 1)] ELSE tokens
  /\ UNCHANGED <<scratch, dispatcher, masked, shadow, nmi>>

AfterCall(t) ==
  /\ \/ At_pc("after_call", t) /\ UNCHANGED tokens
     \/ At_pc("after_save", t) /\ tokens' = [tokens EXCEPT ![t] = Append(@, cpu.A)]
  /\ Pop(1)
  /\ cpu' = Computes(t, <<FALSE, FALSE>>)
  /\ UNCHANGED <<scratch, dispatcher, masked, shadow, nmi>>

(* A COP the task executes itself, with signature zero or another one. *)
RawCop(t) ==
  /\ AtBoundary(t)
  /\ Cop(<<"body", t>>) \/ Cop(<<"cop1", t>>)

BodyReturns(t) ==
  /\ AtBoundary(t)
  /\ Locals = 0
  /\ tokens[t] = <<>>
  /\ Rtl

-----------------------------------------------------------------------------
(* Steps of the machine alone, and those that touch more than it. *)
MachineStep ==
  \/ SaveFull("irq") \/ SaveFull("cop") \/ SwitchStack \/ SwitchPage \/ SwitchBank
  \/ Invoke \/ Restore \/ Terminal
OtherBridgeStep == Validate \/ ReturnFromInterrupt \/ \E t \in Task : Dispatch(t)

CodeStep ==
  \/ Yield \/ SaveDisable \/ RestoreIrq \/ TaskReturn \/ ExitReturns \/ BootYields
  \/ \E t \in Task :
       \/ SetWidths(t) \/ PushLocal(t) \/ PopLocal(t)
       \/ CallYield(t) \/ CallSaveDisable(t) \/ BodyReturns(t)
OtherCodeStep ==
  \/ YieldCop
  \/ \E t \in Task : TaskExit(t) \/ BootStart(t) \/ CallRestore(t) \/ AfterCall(t) \/ RawCop(t)

Quiet == UNCHANGED <<scratch, dispatcher, programs, shadow, nmi>>
Bridge == Running /\ ((MachineStep /\ Quiet) \/ OtherBridgeStep)
Code == Running /\ ((CodeStep /\ Quiet) \/ OtherCodeStep)

Next == IrqArrives \/ NmiEnter \/ NmiExit \/ Bridge \/ Code

Spec == Init /\ [][Next]_vars

-----------------------------------------------------------------------------
Routines == {"irq", "cop", "dispatch", "A816_DISPATCH", "restore"}
InBridge(c) == c.cpu.pc[1] \in Routines
InTask == nmi = NoContext /\ ~InBridge(Context) /\ cpu.dom \in Task

(* The published headroom is enough: whatever an IRQ or COP frame and an   *)
(* NMI on top of it add to checked use, no stack leaves its allocation,    *)
(* and code that checks before it pushes never uses that headroom itself.  *)
StackWithinDomain ==
  /\ \A d \in Domain : Len(stack[d]) <= Size(d)
  /\ InTask => Len(Top) <= Usable(cpu.dom)

(* An NMI is invisible wherever it falls, half-made frames and changes of  *)
(* S and D included.                                                       *)
NmiTransparent == [][nmi # NoContext => Context' = nmi]_vars

(* The bridge writes its scratch through D only once D is the IRQ page:    *)
(* live compiler scratch of a suspended or interrupted task survives.      *)
ScratchIsolated == \A d \in Domain \ {Irq} : scratch[d] = Own(d)

CalledAtBoundary ==
  /\ cpu.dom = Irq /\ cpu.D = Page(Irq) /\ cpu.B = Zero /\ cpu.P = Flags(TRUE)
  /\ Len(Top) = 6
  /\ WordAt(Top, 4)[1] = "sp"
  /\ LET d == WordAt(Top, 4)[2] IN
       /\ Len(stack[d]) = WordAt(Top, 4)[3]
       /\ Drop(stack[d], 13) = shadow[d].stack
       /\ d = IF current = None THEN Boot ELSE current

YieldIsLegal ==
  /\ current \in Task
  /\ ~shadow[current].cpu.P.i
  /\ Signature(shadow[current].cpu.pc) = 0

HookJustified ==
  At_pc("A816_DISPATCH", 0) =>
    CalledAtBoundary /\ (ByteAt(Top, 6) = <<"reason", "cop">> => YieldIsLegal)

TerminalJustified ==
  At_pc("terminal", 0)' /\ ~At_pc("terminal", 0) /\ nmi = NoContext /\ ~At_pc("restore", 7) =>
    \/ At_pc("task_return", 4)
    \/ At_pc("yield", 3) /\ (cpu.P.i \/ cpu.dom = Boot)
    \/ At_pc("dispatch", 4) /\ ~YieldIsLegal

(* The dispatcher is called at the native boundary, on the IRQ stack with  *)
(* nothing else suspended there, masked, with the interrupted saved_s; it  *)
(* hears of a yield only from an unmasked task with signature 0, and no    *)
(* such yield ends at the terminal entry, which is for those the interface *)
(* forbids and for an exit binding that returned.                          *)
DispatchContract == [][HookJustified' /\ TerminalJustified]_vars

(* Between the return of the outermost SaveIRQ and the matching RestoreIRQ *)
(* the task is never switched out, whatever nests inside and wherever the  *)
(* interrupts of the save itself fall.                                     *)
CriticalExclusive ==
  \A t \in Task : tokens[t] # <<>> => current = t /\ ~At_pc("A816_DISPATCH", 0)

MaskBalanced ==
  \A t \in Task :
    At_pc("body", t) => cpu.P.i = (tokens[t] # <<>> \/ t \in masked)

(* SaveIRQ and RestoreIRQ make critical sections, which exclude the others *)
(* and balance: a task holding a token is masked, and one that has given   *)
(* its last token back is as its creator started it.                       *)
CriticalSections == CriticalExclusive /\ MaskBalanced

-----------------------------------------------------------------------------
(* The abstract contexts: the live one, under an NMI the one it hides, and *)
(* for a task without the processor the one it lost it with.               *)
Here == IF nmi = NoContext THEN Context ELSE nmi
HasCpu(t) == Here.cpu.dom = t /\ ~InBridge(Here)
EntryContexts(t) == {EntryContext(t, i) : i \in BOOLEAN}
MaskedContext(c) == c.cpu.P.i

Tasks == INSTANCE ContextSwitch WITH
  Dead <- NoContext, Entry <- EntryContexts, Masked <- MaskedContext,
  context <- [t \in Task |-> IF HasCpu(t) THEN Here ELSE shadow[t]],
  running <- IF \E t \in Task : HasCpu(t) THEN Here.cpu.dom ELSE None

(* To its tasks the bridge is a ContextSwitch. *)
RefinesContextSwitch == Tasks!Spec

-----------------------------------------------------------------------------
(* The bridge is straight-line code the processor executes to its end: the *)
(* NMI handler is bounded, and its source leaves room for an instruction   *)
(* between two of them, so it can delay the bridge but not stop it.        *)
FairSpec == Spec /\ WF_vars(NmiExit) /\ SF_vars(Bridge)

(* Every IRQ and every COP ends in a running task or at the terminal entry.*)
BridgeEnds ==
  InBridge(Context) ~>
    /\ nmi = NoContext
    /\ \/ cpu.dom \in Task \cup {Boot} /\ ~InBridge(Context)
       \/ At_pc("A816_TERMINAL", 0)
=============================================================================
