# A verification development for actionc

`actionc` is a cross-compiler for the Action! language with three families of
targets: the 6502 of the Atari (a compatibility generator and the MIR6502 pipeline),
the 65816 and the 68000. It ends in load files, object files and disk images, and
for the 65816 it also ships run-time code that a host operating system links:
block-memory helpers and an interrupt and context-switch bridge.

This directory holds TLA+ modules for the parts of the program whose correctness lies
in *behaviour* (order, interruption, iteration, sharing, failure) rather than in the
translation of one construct, the TLC configurations that check them on small
instances, and TLAPS proofs of the results that should hold for every instance.

Contents: [inventory](#inventory), [modules](#modules-and-how-they-correspond-to-the-code),
[runs](#what-the-runs-show), [findings](#findings), [fairness](#fairness),
[proofs](#what-is-proved), [limits](#what-is-only-model-checked-and-what-is-not-modelled),
[plan](#plan), [conventions](#conventions).

## Inventory

The compiler is one thread. A source file is loaded with the modules it uses
(`includes.rs`), parsed (`lexer.rs`, `parser.rs`), analysed into SemIR (`semantic/`),
reduced to what the program needs (`linker.rs`), lowered to NIR (`nir/`), optimized
there, and lowered again to one of three machine IRs, each with its own analyses,
allocation, copies, layout and output format. The block analyses of NIR and of all three back
ends run through one solver (`analysis/dataflow.rs`). The results of the
65816 back end run on a machine where interrupts are real; there the run-time code is
concurrent. Outputs are installed by processes that may run at the same time as others.

| Component | State | Operations | What is hard | Correct when | Modules |
|---|---|---|---|---|---|
| Module loader (`includes.rs`) | modules, active chain, dependency lists | load root, load use | cycles, a module reached twice while it is half loaded | each module once, dependencies first, cycles reported | `ModuleLoader` |
| Link graph (`linker.rs:57`) | nodes, edges, worklist, retained set, reasons | `add_node`, `add_edge`, `closure` | a worklist that grows while it is drained, cycles, two routes to one node | the least closed set above the roots; every member explained, no circular explanation | `LinkClosure`, `LinkReachability` |
| SemIR link selection (`linker.rs:156`) | program, policy, graph | build the graph, choose the roots, close, filter | three passes name the same top-level statement by position; opaque machine code; items without a symbol | nothing kept uses something dropped; nothing kept without need; the entry survives | `LinkSelection` |
| Data-flow solver (`analysis/dataflow.rs`, `nir/analysis/cfg.rs`) | in/out states, worklist, queued set, counters | `solve_dataflow`, the walk that orders blocks | self loops, edges filtered by a state that still changes, a worklist with a membership set beside it | a fixpoint, the least one, the join over all paths; it stops | `FlowGraph`, `Dataflow` |
| Dominators (`analysis/dominance.rs`) | dominator sets, tree, frontiers | `from_graph` | unreachable predecessors, joins at the root | sets agree with paths; frontiers with their definition | `Dominance` |
| NIR promotion (`nir/promotion.rs`) | routine under rewrite | place block parameters, rename | joins, loops, faults that observe storage | the promoted value is the stored one on every path | `Promotion` |
| NIR storage values, home elision (`nir/storage_optimizer.rs`, `nir/home_elision.rs`) | facts per block, live homes per block | forward loads, drop dead stores | calls, faults and machine code that look at storage; two passes that decide separately what they see | the optimized routine shows the same values to every use and observer; the analysis ends | `StorageOptimizer` |
| MIR6502 rewrite drivers (`mir6502/rewrite/driver.rs`) | routine, generation, plans | discover, validate, select, splice | stored positions after a splice, overlaps, a bound on rounds | each plan replaces what it was matched on | `RewriteDriver` |
| 65816 edge copies (`mir65816/emit/`: `pointer_copies`, `copies`, `mixed_copies`, `mixed_edges`, `mixed_transfer`, parts of `select` and `pointer_values`) | moves, schedule, captures, staging pool, code | four planners tried in turn, captures, staging checks, emission | simultaneous moves over homes that overlap, cycles, one shared capture slot, what A must hold afterwards | the edge is a simultaneous assignment and leaves A as an in-order copy would | `EdgeCopies` |
| 68000 register allocation (`mir68k/allocation.rs`, `analysis.rs`) | conflicts, scores, registers | `allocate` | block parameters defined together, values live across calls, a compare fused with its branch | no value is lost before it is read | `RegisterAllocation68k` |
| 68000 edge copies (`mir68k/materialize.rs:1103`) | copies to make, one slot | `edge`, `parallel_edge` | every cycle uses the same slot; a captured home has several readers | the edge is a simultaneous assignment | `EdgeCopies68k` |
| 65816 layout, 68000 relaxation (`emit/layout.rs`, `mir68k/branch_relaxation.rs`) | branch sites and sizes | shrink until nothing changes | a choice made early must stay valid while others shrink | terminates; every displacement fits | `Relaxation`, `LocalLayout`, `WordBranches` |
| Context bridge (`runtime/65816/native-v2.s`) | registers, two widths, per-domain stack and direct page, saved records | IRQ, COP, NMI, dispatch, restore, yield, save/disable, restore IRQ, task return, stack check | an IRQ or NMI between any two instructions, half-made frames, the moment between the switches of S and D, stacks at their floor | a task cannot tell that it lost the processor; sections are exclusive; no stack leaves its allocation; every entry ends | `ContextBridge`, `ContextSwitch`, `NativeFrame` |
| First-task images (`mir65816/context.rs`) | the bytes of a new task's stack | `FirstTask::new`, `Domain::floor` | hand-made return addresses and frames that must agree with the bridge | a new task starts as if it had been interrupted before its first instruction | `NativeFrame` |
| 65816 memory helpers (`runtime/65816/memory.s`) | pointers, length, chunk in direct-page scratch | move, clear, fill | overlap, chunks, odd tails, bank boundaries | a move is simultaneous and touches only its objects | `MemoryHelpers` |
| ATR image (`crates/atrcopy-rs`) | sectors, directory, VTOC | `upsert_file` | freed sectors reused in the same update, a wrong bitmap, failure half-way | chains disjoint and allocated; an error changes nothing | `DiskImage`, `FileStore` |
| Output images (`runner/mod.rs:680`, `cli.rs`) | destination, temporary, backup | write and install | failing calls or a crash between renames, two processes | a complete image, old or new, always exists | `OutputInstall`, `OutputFile` |
| Lexer, parser, semantic analysis, SemIR, NIR lowering and its other passes, MIR6502 passes, 65816 and 68000 selection and encoding, compatibility code generator, runtime sources, driver and CLI, tools | syntax trees and instruction lists | translation | size | output agrees with the language; compared case by case by the repository's tests | none |

How they interact: the loader's `graph_order` is the order in which declarations are bound and
initializers run. The linker hands a *selected* program to NIR lowering, so an item
dropped wrongly is a dangling call in every back end. NIR and back-end analyses call the
solver with their own lattice and trust its fixpoint for every rewrite they make.
Dominators place the parameters of promotion and weigh loops for the 68000 allocator.
Storage values and home elision leave promotion fewer loads and stores.
Promotion turns storage into block parameters, which is where the simultaneous moves
that the edge planners schedule come from; on the 68000 the allocator decides which of those moves
meet in one home. The 65816 compiled code and the context
bridge meet in an ABI: the stack floor in the direct page that `check_stack` compares
against, the 13-byte frame, the outgoing bytes of a call.

## Modules and how they correspond to the code

**Linking.** `LinkReachability` is the abstract linker: a graph grows, a query for a set of
roots is answered in one step by the least closed set above them, or refused because a
root is unknown. `LinkClosure` is `LinkGraph`: `AddNode` and `AddEdge` build, `BeginClosure`
is `closure` up to its loop, `Expand` one iteration (pop the smallest, retain, explain and
queue the targets), `Finish` the return. `EdgesFrom(s)` is the ordered set of `edges_from`;
since only the first edge to a target writes its reason, its order matters exactly in
`FirstReason`. The refinement maps `retained` to the answer once the scan is over.
`LinkSelection` composes `LinkClosure` into `select_semir_with_plan`: `Build` is
`semir_link_graph`, `StartClosure` the choice of roots, `Close` the closure's steps,
`Filter` the retained program and the check of its entry, whose result is `outcome`. A program is a list of items in regions;
the walk over statements and expressions is reduced to what it reports: a set of
references, each with the way it was found (call, value, element of an initializer
list, machine code). Identities are numbers in the order of `SemLinkNode`: routines, storage and
types, then top-level code by module and position.

**Loading.** `ModuleLoader` is `CompilationLoader`. The recursion of `load_use` is a stack of frames,
each a module with the position of the use to load next; `active` is the names on it. `LoadRoot`, `SkipSys`,
`FindsCycle`, `UseKnown`, `UseFails`, `UseLoads` and `Return` are its exits in their order. What a name resolves to (`provided`) is an input.

**Flow graphs.** `FlowGraph` is the walk of `NirCfg` (edges, reachability, postorder) and the order the
solver takes from it: `visit_postorder` is a function of a block and the set of blocks known, and what it returns is that set and what it appended; `Dataflow` is `solve_dataflow`, one action per iteration. A problem is data:
direction, boundary, transfer functions, the filter and the refinement of forward edges.
States are sets of facts with union as join, which loses nothing: every finite join
semilattice is a family of sets closed under union. `Dominance` is `Dominance::from_graph`: `Visit` recomputes one
block's set in place, `NextPass` starts another pass, `BuildTree` derives parents and frontiers. Correctness is stated
against walks, by regions: *every walk from a to n passes d* when each set that holds a, is closed under edges and lacks d, lacks n.

**Promotion and allocation.** `Promotion` extends `Dominance`: `Admit` is the admission of a home (entry not a
join, no read before a definition), `Place` one round of `pruned_iterated_frontier`, `Rename` is `rename_block` over the
dominator tree, children in order of their ids. Then the rewritten routine runs (`Start`, `Step`, `Jump`) beside a copy of what the home would hold:
`holders` is the set of places (values, parameters, the storage) that hold it. `RegisterAllocation68k` extends `Dominance` as well:
`Allocate` builds liveness, conflicts and candidates, `Choose` hands out one register (affinity first, then the
order of the pool), `Finish` decides which temporaries need no home at all. The routine then runs, and `held` remembers whose current value each home has.

**Storage.** `StorageOptimizer` has three stages. In the first it instantiates `Dataflow` with `StorageValueProblem`, in the second, on the rewritten
code, with `StorageLivenessProblem`; `Solve` is an iteration of the solver, `Forward` the rewriting of `propagate_routine`,
`Eliminate` that of `eliminate_dead_stores`. Since a join of known values keeps what both sides know, a state of the first problem is what is *not* known. In the
third stage the routine that came in runs. `holders` are the names that hold one arbitrary value, so names that hold
equal values are those of which, whatever the value, both or neither is a holder; `stale` are homes whose last store was dropped.

**Copies.** `ParallelAssignment` is what an edge, or a block move, promises: all destinations receive what the sources held
before, nothing else changes. `EdgeCopies` is how the 65816 back end keeps it: `ChoosePointer`, `ChooseWord`, `ChooseMixed` and `ChooseBytes` are the
attempts of `edge_transfer` in their order; `Schedule`, `CapturePointer`, `CaptureMixed` and `GiveUpOrder` are
the iterations of the planners; `Emit` checks every staging slot against every home and emits;
`Execute` runs one instruction on symbolic bytes; `Arrive` ends the edge. The model keeps where every byte is and which instruction
writes it, and abstracts displacement limits, encodings and the cost model: where the code compares costs to
choose word moves in the byte fallback, the model may take either (`MayUseWords` is
what makes the choice legal). The allocator packs the staging slots so that no two overlap; the model spaces them `SlotWidth` apart to
the same effect. That the *pool* lies clear of the homes is not assumed but checked, as
in the code. `EdgeCopies68k` is `edge` and `parallel_edge`: `Move` emits the first ready copy, `Capture` saves a destination of a
cycle in the slot and redirects *all* its readers, `Jump` ends. `MemoryHelpers` is Move, Clear and Fill: a setup, a
chunk, a word or a byte per action; its banks and index have scaled widths with the code's wrap-around, and a read or write beside
the caller's objects leaves the mark `Disturbed`.

**Layout.** `Relaxation` is what shrinking branches may do at all: start in the longest form, take a shorter one when its displacement fits
the layout that then results. `LocalLayout` (one branch at a time, current layout, own saving counted for forward targets) and
`WordBranches` (whole pass measured in the layout before it) implement it; `Passes` is what the two share, from one pass to the next.

**Rewriting.** `RewriteDriver` is `run_fixed_point` of the driver before homes are assigned and of the one after: `Discover` is what a matcher returns for a snapshot,
then validation of generation and range, the choice of plans that do not overlap, splices from the end of the block and the shifted position of the
terminator's comparison, for at most `MaxRounds` rounds. Operations have identities, so that *what* is replaced can be compared with what was matched.
Before homes are assigned a batch must also lower the metric the caller gives, a measure of the whole routine; it may lower it or not, whatever
the plans of this block do, so that every outcome is allowed.

**Native run time.** `ContextSwitch` is what a context bridge promises: contexts that only their task
changes, processor lost only unmasked or for good, returned with the context it was
lost with. `NativeFrame` is the memory format (frames, return addresses minus one, the
image of a first task), `ContextBridge` the code: each action is a run of instructions of
`native-v2.s` with at most one effect on S, on a stack or on I, named after its label,
with the program counter `<<label, step>>`. `IrqArrives` and `NmiEnter` may fall between any two.
Stacks are sequences of tagged bytes, so that a pull in the wrong order, in the wrong
width, or from the wrong place yields `Junk` and not a value that happens to fit. Below S
nothing is kept: an NMI may overwrite it at any time, and moving S downward exposes junk.
The processor, the dispatch hook, the exit binding, the bootstrap and compiled code are
external: they do what the ABI in `docs/abi/action65816-native-v2.inc` and the fixtures
let them do. `shadow` and `nmi` are history variables. Of the two comparisons of the stack check the one against the ceiling
holds by the representation: a stack is the sequence of bytes below its ceiling, so that S cannot stand above it. Where
the bridge narrows A for one or two instructions with interrupts masked and widens it again, the window is one action; NMIs meet 8-bit
widths in the bodies of tasks.

**Files.** `FileStore` is a map from paths to whole contents. `DiskImage` is `upsert_file` on an image of sectors with
links, root slots, one level of subdirectories and the bitmap: `Used` is the reconciled sector map, `Fails` every early error, `Upsert` the rest. A *spelling*
is what a caller passes and `Stored` the name the directory then holds. `OutputFile` is a file that changes whole, at one instant, exactly when the call
that changes it succeeds. `OutputInstall` is `write_file_atomically` of both tools, one action per call of the file system; any may fail, any
process may die before any of them, and a new process may have the number of a dead one.

## What the runs show

| Run | Module, config | Question | Instance |
|---|---|---|---|
| `link` | `MCLink` | Does the worklist compute the least closed set, explain it without circles, and end; is the selected program exactly what the policy needs, entry included? | all graphs of 3 nodes, 2 reasons, up to 4 edges, every set of roots (known or not); all programs of 3 items of 7 shapes, 1 or 2 modules, split or shared identity, both policies |
| `files` | `MCFiles` | Do modules come after what they use, and is a program refused exactly for a cycle or a module it reaches? Does the last output survive, and is a call that writes it atomic? Do chains on a disk stay apart, is space accounted for, and is a write seen whole under its name alone? | all graphs of uses over 4 modules with up to 2 uses, repeated, missing and misnamed ones, roots with and without a path; 2 processes of either tool, Unix and Windows, every failure, deaths anywhere; 8 sectors, every layout of two files, a subdirectory and a file in it, a bitmap wrong in two places, every sequence of writes |
| `promotion` | `MCPromotion` | Are dominators and frontiers exact, does promotion keep what loads see, and do allocated registers keep what is read? | all graphs of 4 blocks with at most 2 targets; 9 block bodies on 7 shapes; small 68000 routines on a loop and a diamond with 2 registers |
| `promotion_faults` | `MCPromotionFaults` | Does a fault see the value stored last? (no: [findings](#findings)) | the same |
| `storage` | `MCStorage` | After loads are forwarded and dead stores dropped, does every use, load and observer find what it found? | a loop, two nested loops and a join of 3 blocks; 2 homes, each automatic, static or global; in the middle block every two of 13 operations (loads, stores, computations, divisions, calls, machine code, indirect stores) |
| `storage_loop` | `MCStorage`, `MCStorageLoop` | Does the analysis of stored values end? (no: [findings](#findings)) | one loop over 3 globals |
| `storage_loops` | `MCStorage`, `MCStorageLoops` | Is what forwarding leaves still a routine the verifier admits? (no: [findings](#findings)) | a self-loop in a loop over 2 globals |
| `fixpoints` | `MCFixpoints` (of `MCDataflow`, `MCRelaxation`) | Does the solver stop at the least fixpoint, equal to the join over all paths, without wasted work; does nothing cross an edge that is not executable? Do chosen branch forms keep reaching, is none missed, and does it end; do rewrites replace what was matched? | all graphs of 3 blocks, up to 5 edges, both directions, 3 transfers, boundary at either end; nested loops with every filter and refinement per edge; 3 branches, every target, gaps of 0 and 3 bytes, limits scaled to 6 and 10; blocks of up to 3 operations, up to 3 plans in each of 2 rounds that put in none or 2, stale, unproved and misplaced plans among them |
| `copies` | `MCCopies` | Is every edge, on either machine, and every block move one simultaneous assignment, or refused, and does it end? | 1 or 2 arguments of widths 1 to 4 over overlapping homes, immediates and pools that lie on homes; up to 3 overlapping words; up to 4 pointers; up to 3 bytes and words; 68000 edges of up to 4 parameters; Move, Clear and Fill over 3 banks of 8 bytes |
| `context_switch` | `MCContextBridge` | Are contexts preserved through IRQ, COP, NMI in every mixture of widths; are masked sections exclusive and balanced? | 2 tasks, 4 widths, sections nested up to 2 |
| `context_stack_edge` | `MCContextBridgeEdge` | Is the headroom exactly enough, and does every entry end? | 1 task, 11 bytes above the floor, which its calls reach and overrun |
| `disk_names` | `MCDiskImage`, `MCDiskNames` | Do chains stay apart when names may have an empty extension? (no: [findings](#findings)) | the same disks with the spelling `A.` |

Why the bounds are enough. *Linker*: a lost or late node needs a source, a target smaller than it
and a second route, three nodes; four edges hold a cycle with two exits. Three
items hold a caller, a callee and a bystander, each of any kind, and two statements whose positions can be
confused. *Loader*: four modules hold the root, SYS and two that use each other or the same third one, so cycles of every length up to four and
diamonds. *Solver*: three blocks give self loops, two-block and
three-block loops, joins and unreachable blocks; on the three-element chain every monotone function distributes
over joins, which makes the join over paths the *exact* expected answer; `MaxCount` saturates the counter above
the three evaluations that `OncePerNode` speaks of. *Dominators and promotion*: four blocks give an irreducible loop, nested loops and a
join fed by a dead block; the bodies hold every pair of accesses whose order matters. *Allocation*: two registers and three values live at once force
a spill, two parameters can be swapped by the loop's edge; temporaries are named after their block only to keep names apart.
*Storage*: a fact needs one home to be about and a second one or a temporary to be equal to; the
middle block holds a barrier and an access on either side of it, round the loop also in the other order, and the blocks around it a definition and a use.
*Relaxation*: displacements are scaled down with the forms' sizes kept, so that one branch's saving decides another's reach;
three branches chain such effects. *Rewriting*: a second round is where a stale generation or position shows; two rounds stand for the code's 32.
*Edges*: a cycle needs two moves, two cycles four; a
partial overlap needs an offset smaller than a width, and the families have such offsets (pointers only disjoint
ones, since overlap sends an edge to another planner). *Helpers*: a bank of 8 has chunks of 6; three banks give up to three chunks, odd and even, either direction, overlaps by one byte.
*Bridge*: data is symbolic, so values need no bound; two tasks are what the
dispatcher can confuse, one is interrupted and one resumed; the tasks are symmetric. One NMI at a time is what the interface
admits. Eleven bytes above the floor hold the entry frame (6), one local and one call (4): a
routine called with the local in place has no byte left and is refused, one called without it is not, so
the checks are met on both sides. *Disk*: two files and a subdirectory leave a free sector or none, so reuse of freed sectors and a full disk both occur; one sector is beyond what a link can name.
*Outputs*: two processes are what one call can race; the second may also follow the first with its number.

`CHECK_DEADLOCK FALSE` is set everywhere because all these computations end.

## Findings

* `src/nir/promotion.rs:999` (`promotion_faults`): a `Binary` that may fault counts as no access to a home, though a fault
  lets fixed storage be inspected. A home only such a fault can read is dead, a join gets no parameter for it, and the write-back before the fault stores
  the value of the immediate dominator: in `x=1 IF c THEN x=2 FI y=10/c` the home holds 1 instead of 2 when the division
  faults. `nir/analysis/storage.rs:496` and the test at `promotion.rs:1615` say the stored value is what is seen.
* `crates/atrcopy-rs/src/atr.rs:716` (`disk_names`): `A.` is accepted and stored as `A`, but compared as `A.`, so that it becomes a second entry of that
  name; the next write of `A` frees the chains of both and rewrites one entry, and the other's sectors are handed out again. The crate's README says allocation
  reconciles live directory chains.

* `src/nir/storage_optimizer.rs:226` (`storage_loop`): where a load can be forwarded nothing is dropped, and where it cannot, the facts about *other* homes whose
  temporary is used no more in the block are (`retain_available_storage_values`). So knowing more at the head of a loop may leave less at its end. In `x:=u DO t:=x y:=t x:=u UNTIL u z:=y y:=t OD`,
  over globals and with `u` computed before the loop, the facts at the head alternate and `solve_dataflow`, which has no bound of its own, does not return.
  `nir/analysis/dataflow.rs:12` calls such a problem monotone; `ClimbsCorrect` proves that a monotone one only climbs.
* `src/nir/storage_optimizer.rs:106` (`storage_loops`): what stands for a removed load may change from one evaluation of its block to the next. Around a self-loop below, the back edge still offers the
  earlier replacement when the later one arrives, `intersect_with` keeps neither, and the load is removed all the same. In `y:=5 DO t:=y x:=t v:=x DO use v call() OD OD`
  over globals, `v` stands for 5 before the outer loop comes round and for `t` afterwards; its load goes, and `use v` names a temporary that nothing defines. `nir.rs:133` says that every component preserves verification;
  `verify_program` at the end of `propagate_program` refuses the program instead, so nothing wrong is compiled.

`files`, `promotion` and `storage` check everything else of these components with the offending case left out: spellings with an empty
extension, the value *observed by* such a fault, and that the analysis ends and keeps its temporaries (`storage` asks what the optimized routine does
where the analysis ends, and follows values, not names).

## Fairness

* `MCLink`: `WF` of the closure's steps only. The scan is a loop in one thread; assembling a graph
  is the caller's business and may stop at any point.
* `MCFixpoints`, `MCCopies`, and `MCStorageLoop` for the solver's step: `WF` of the loop of one thread, which nothing else can delay.
* `MCContextBridgeEdge`: `WF(NmiExit)` since the NMI handler is bounded straight-line code, and `SF(Bridge)`
  since the bridge is disabled while an NMI runs and NMIs may delay it any number of times. The ABI allows one active
  NMI at a time, by gating its source or by a proven minimum interval between two (`docs/MIR65816_PHYSICAL_ABI_V2.md`). An
  interval gives the bridge an instruction between two NMIs; of a board that gates its source, the condition takes for granted in
  addition that the gate does not for ever open and fire before the bridge has run one. No fairness for IRQs, for tasks, or for what the
  dispatcher chooses.
* The other runs assume none: in `OutputInstall` a process may stop for good at any call.

## What is proved

Every safety property that the passing runs check, invariants and refinements alike, is also a theorem, checked by TLAPS for every value of the
constants. The hypotheses are the assumptions in the modules (finite sets of integers for nodes and blocks, joins for the lattice, distinct contents of
files, an even bank of memory) and, where a component takes a routine or an edge that another pass made, what that pass or the verifier promises of it. The `MC` modules
let TLC confirm these on the instances: `WellFormed` guards the routines of `MCStorage`, and `LegalEdges`, `LegalEdges68k` and `BanksFit` are assumptions that TLC evaluates.

Three kinds of argument recur. An inductive invariant says in each module what the code leaves unsaid. Sets that the code computes by iteration (what is
reachable, live or needed) are characterised as least closed sets, so that membership is shown by a region and refuted by one. Induction over
numbers (chains, lists of operations, levels of a tree) goes through the well-founded order on the naturals: of the numbers a statement fails for
one would be least. A recursive function is unfolded after a function that satisfies its equation has been put together from iterates.

* `LinkProofs`. The inductive invariant of the closure is `IInv`: the types, `ScanInvariant`
  (an entry in `reasons` for exactly the nodes seen; an edge out of an expanded node leads to a seen one; edges join
  nodes), `SelectionLeast`, `ReasonsJustified` and `ReasonsGrounded`. The property wanted of
  the finished selection is only inductive when it is stated of `retained` *and* `pending` while the
  scan runs. Groundedness is preserved because a new entry always names a source outside the set of new entries. From it
  follow `SelectionClosedCorrect`, `SelectionLeastCorrect`, `ReasonsGroundedCorrect`, `OnlyRootsGoMissingCorrect` (the
  error for a missing dependency is unreachable), `TypeCorrect`, and `ReachabilityRefined`, the refinement
  of `LinkReachability`: building steps extend the abstract graph, iterations are invisible, and a scan that ends has found a
  least closed set since an empty worklist makes *seen* and *retained* the same. Over programs, `SelectInv` adds that the graph is the
  program's and the roots the policy's; `SelectionSucceedsCorrect`, `NoDanglingUseCorrect` and `KeptIsNeededCorrect` follow, the last where no two items share
  an identity (they may, in a legacy source, and then more is kept than needed).
* `FlowGraphProofs`. The depth-first walk is a function of the block and of what is known; a function that satisfies its equation exists, level by level, and is shown to be the walk. The invariant of a call (`Walked`): what
  it adds can be reached from where it starts, is listed once, and whatever follows a listed block was known, is listed before it or leads back to it. A call returns from n with all
  that follows n known, and a level per block is deep enough because each call inside another knows one block more (`FewerLeft`). So the walk finds exactly what can be reached (`WalkReaches`), lists each block once
  (`WalkLists`), and without loops lists a block after all that follows from it (`WalkIsTopological`, where the order of the solver is this list or its reverse). `WalkReachesLive` says that these blocks are the live ones of `Dominance`.
* `FixpointProofs`, the solver. `SolverInv` is `ProblemOK`, `TypeOK`
  (which holds the equality of the queued set and the list), `Settled` (a node not queued satisfies its equations), `Rising` (for monotone problems, a
  state is below its next evaluation) and `Least` (and below every solution). `FixpointCorrect` needs no monotonicity:
  `Settled` survives an evaluation because only neighbours downstream read what changed, and
  those are queued, the node itself included. `LeastCorrect` and `ClimbsCorrect` need monotone transfer and edges.
  `MeetOverPathsCorrect` takes paths as the least closed set of pairs of a node and the state that some path brings there. On a finite chain a join is the greatest of what is joined, so a monotone transfer distributes over it;
  the join over all paths therefore solves the equations, and the fixpoint, which is least, lies below it. That it lies above needs no chain.
  `OncePerNodeCorrect` says that without loops the worklist is always what is left of the first order: whatever an evaluation would queue comes later in that order (`WalkIsTopological`) and waits already.
* `FixpointProofs`, the loops of layout. The invariant of `Relaxation` is `Sized` (what is gone inside a branch is the difference of
  its forms), `Ordered` (shift never makes two boundaries cross) and `Reaching`; a displacement between two boundaries can only come closer to zero, so a chosen form keeps reaching
  (`ChosenReachCorrect`), and an expanded branch that a finished loop left alone does not fit (`NothingMissedCorrect`). `LocalRefines` and `WordRefines` prove that both loops implement `Relaxation` step by step; for the 68000
  this needs `Stale`: since the pass began, distances have only shrunk, so a branch measured in the old layout fits the current one. `LocalReach` and `WordReachKept`
  carry the property over. These refinements are proved and not run. `RewritesAsMatchedCorrect` says of the rewrite driver that the operations
  a round replaces are those its plan was made for, whatever plans are found: the selected ranges are apart and
  replaced from the last to the first, so an earlier position means what it meant.
* `DominanceProofs`, the sets and the tree. `IInv` is the types, `Stable` (while a pass has changed nothing, what it visited equals its equation) and `DominatorsComplete`.
  A settled state is therefore a solution of all equations, and a solution is *sound*: the blocks that d does not dominate are a region that a walk
  around d never leaves. `DominatorsExactCorrect` says so for every finite graph. For `FrontiersExactCorrect` dominance is shown to be a partial order on live blocks, total on the dominators of
  any one of them; so the parent, which is the deepest, is unique, and the runner that climbs from each predecessor of a join passes exactly the blocks whose frontier has it.
* `DominanceProofs`, registers of the 68000. `AllocInv` takes the sets of values needed at each point that the conflicts were built from: they hold what is read, lose nothing but what is defined,
  and are empty at the entry, because a definition that dominates a use is met on every walk to it. Two values of which one is written while the other is needed conflict, and
  `verify_allocation` has seen that conflicting values have different homes; so what a home holds is what was last put there and is still needed (`AllocationPreservesCorrect`). It holds
  of every routine that is `WellFormed` (arguments fit parameters, none at the entry); that definitions dominate uses the allocator itself checks. `RunsAllocate` proves that the run explores such routines only.
* `DominanceProofs`, promotion. Liveness is the least set closed under edges out of blocks that do not define the home. Placing leaves every definition and parameter with its frontier visited (`Placing`),
  renaming gives each block the name its parent ends with and every edge into a block with a parameter an argument (`RenamingInv`), and together: an edge into a live block
  *without* a parameter comes from a block that ends with the name that the block begins with (`PassedDown`), else the block were in a frontier. While the routine runs (`RunInv`), the current name holds what the home would hold wherever that is live, and after a write-back
  up to the reload storage holds it. Nothing relies on names being distinct. `RunsPromote` proves that the run is a case of it.
* `StorageProofs`. Facts *agree* with a set of holders when the two sides of each are both in it or both not; this is stated for the holders of any one value, so equal values need no comparison.
  Each operation moves the holders and the facts alike (`AfterAgrees`), the more delicate part being that no fact has on its right a temporary that is about to be assigned: it would have to be one of a block that the present one can be reached
  without, or one that comes later in its own block, and single definitions that dominate their uses exclude both. What the solver has not queued is solved, so when forwarding ends the facts at each head are among those at the end of each predecessor (`Sound`), and every reached block has some.
  Then the homes live in the *forwarded* code are closed along its edges (`Plan`). In the running invariant (`Guided`) facts agree with the holders and a home whose store is gone is a candidate and not live, so nothing that looks finds it (`OptimizedAgreesCorrect`). No monotonicity is used: `storage_loop` shows there is none.
  It holds of every routine that the verifier admits (`WellFormed`), of any size; `CheckedRoutines` proves that the run explores such routines only. That the walk closes over edges and lists all it found is `WalkReaches` and `WalkLists`.
* `CopiesProofs`. `EdgeInv` reads the code emitted so far as a run on a machine with symbolic bytes: every pending move finds its value where `source` says, every other move is made, and
  beside destinations only staging slots are disturbed. The slots lie clear of the homes only where staging was checked, which the last step does before the code is used; until then the invariant speaks of the bytes outside the slots. A word schedule may
  overwrite a home when no pending move still reads any byte of it, a capture moves the reads of one home to a slot that nothing else uses. `AccumulatorContractCorrect` (A holds what an in-order copy would leave), `WellAllocatedCompilesCorrect`
  (refusal only of what is not well allocated), `CapturesUnavoidableCorrect` (a capture only where no order exists: with as many blocked moves as homes, each blocks another, which closes a cycle) and `CopiesAreParallel`, the refinement of `ParallelAssignment`,
  hold for any number of moves of any widths and overlaps that `LegalEdge` admits.
* `CopiesProofs`, edges of the 68000. `OrderInv` says that what each parameter still waits for is where the source of its copy says. Where no copy is ready every destination is also a source, so by counting no copy reads the slot: it is free
  when a cycle needs it (`SlotFree`). `StagedInv` says the same of the edges that are staged through a slot for each parameter. `EdgesAreParallel68k` is the
  refinement of `ParallelAssignment` for any number of parameters.
* `CopiesProofs`, helpers. `HelperInv` says which part of the extent is filled at each point of the loop, forwards or backwards, and that a move goes away from what it has still to read; pointers wrap at the end of memory. `HelpersAreParallel` holds for any even bank size, any number of banks and any length.
* `FilesProofs`, loading. The invariant says where each known module is: on the stack, or in `graph_order` after everything it uses (`KnownOK`, `UsedOK`), and that each
  frame waits for the one above it (`StackOK`). `DependenciesFirstCorrect` follows for programs of any depth. `OutcomeJustifiedCorrect` adds
  that the stack is a path of uses from the root (`PathOK`) and that `dependencies` has what was used so far (`RecordOK`): a name met again on the path closes a
  cycle, a missing one is at its end. `Reached` is there the least set closed under uses.
* `FilesProofs`, outputs. `InstallInv` says temporaries are whole by the time they are renamed, backups always, and that a backup about to be removed
  is not the one the output depends on. `LastOutputSurvivesCorrect` holds for any number of processes, with failures and deaths.
  `RefinesOutputFileCorrect`, the refinement of `OutputFile`, adds `Turns`: what is shown is the file on disk, or, between the two renames of a
  Windows replacement, the backup of the one call that is running.
* `FilesProofs`, disks. `DiskInv` is `NamesUnique`, `ChainsDisjoint` and the types. The chain of an entry is a recursion along the sectors' links: it is
  the same in two states that agree on its sectors, by induction on its length. `ChainsDisjointCorrect`, `SpaceAccountedCorrect` and
  `RefinesFileStoreCorrect` hold for every disk whose names are `Faithful`, that is stored as they are compared; `disk_names` shows that they fail without.
* `ContextProofs`. `BridgeInv` says what every step keeps (`Grounds`: depths, suspended tasks that can be resumed) and where execution is (`Phase`: working, saving,
  switching, calling the dispatcher, and so on), with what each register and each byte of the frame then holds. An NMI
  can come anywhere; `ContextInv` says the same of the machine the NMI will give back (`Uncovered`), which is what makes it inductive. From it follow the types, `ScratchIsolated`,
  `CriticalSections`, `StackWithinDomain`, `NmiTransparent`, `DispatchContract` and the refinement of `ContextSwitch`, for any number of tasks, any nesting of sections and any widths.

## What is only model-checked, and what is not modelled

Liveness stays with TLC, since the prover handles neither fairness nor `ENABLED`: `ScanEnds`, `Solves`, `BridgeEnds`, `CopiesEnd` and `RelaxationEnds`.
`CopiesAreAssignments` is the conjunction of three refinements, for the three components that `MCCopies` puts side by side; each is proved on its own (`CopiesAreParallel`, `EdgesAreParallel68k`,
`HelpersAreParallel`) and the conjunction is checked.

Left out of the modelled components, with the reason:

* *Linker*: the syntax that the link walk traverses (a walk over a tree reports references, whatever its shape).
* *Loader*: `INCLUDE` expansion, and how a name becomes a file; both are inputs.
* *Bridge*: the 16-bit arithmetic of the layout checks in `context.rs` (assumptions of `ContextBridge`), exact instruction timing.
* *Copies*: operand limits and the cost model of the 65816 planners; the widths of 68000 stores (homes are equal or apart there).
* *Helpers*: objects that wrap around the address space, which no compiled object does.
* *Promotion*: which admissible homes are worth promoting, type conversions, homes needed at an exit.
* *Storage*: widths, aggregates, volatile accesses, the removal of unused homes, all rounds but one of the two passes (`nir.rs:108`). A
  static local's value from an earlier call is nobody's to see: `value_needed_at_exit` does not count an error handler that might look. A routine is not entered again through a call to
  another one, as the code takes for granted for static locals. A call that records a region as written and not read is left out too:
  `kill_written` takes it for a sure write, and no call of the compiler records one.
* *68000 allocation*: unreachable blocks, which the pruning before it removes.
* *Layout*: encodings and the map of labels, fixups and spans to the final layout.
* *Rewrites*: several blocks at once, what the plans say and how their effects are proved, ranges that cover the comparison of the terminator.
* *Disk*: directories below the first level, byte formats, VTOC versions.
* *Outputs*: power failures (the code syncs nothing to disk, and promises nothing about them); an object and its listing, which `actionc` writes one after the
  other as two outputs. On Windows two runners that overlap may restore an older image over a newer one: `RefinesOutputFile` is therefore stated of serial calls there, and
  `LastOutputSurvives` of all.

Components not modelled are listed with reasons in `PROJECT.json`: translation passes
(parsing, semantic analysis, lowering, selection, encoding) are large, sequential and without
interaction, so a model would transcribe them; file formats and tables have no behaviour. They are most of the source by size.

## Plan

Modelled in this order, of what a mistake would cost and how little a test would see of it: linking, the context bridge, the solver, 65816 edges; then
memory helpers, dominators and promotion, relaxation, disk images and outputs, the loader, 68000 allocation and edges, the rewrite drivers, storage values and home elision; each safety property
was proved once its run agreed. Left, in order:

1. Storage classes needed at an exit in `Promotion`, with `PromotionPreserves` stated of what the caller sees.
2. The layout arithmetic of `context.rs`, which `ContextBridge` takes as assumptions.
3. The accumulator and flag state of 65816 selection, as a refinement of the in-order copies that `AccumulatorContract` compares `EdgeCopies` with.
4. Several blocks at once in `RewriteDriver`, and the map of labels and fixups in `LocalLayout`.

## Conventions

A definition is named after the function, field or label it models where TLA+ allows it. A definition
`Name_Mutation` placed before `Name` is a plausible mistake in the code that `Name` models; no specification uses
it, and putting it in `Name`'s place makes the property that names it in `PROJECT.json` fail, which shows that
the property can tell. `MC` modules hold the instances: what is enumerated and what bounds it.

    tlc -config MCCopies.cfg MCCopies
    tlapm FixpointProofs.tla

A leaf that takes its prover more than a second or so names it with a minute to spare (`SMTT(60)`, `ZenonT(60)`), so that a proof does not
depend on how fast the machine is; the other leaves need a small part of the default time.
