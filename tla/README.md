# Verification of the SysY compiler: models, checks and proofs

This directory holds TLA+ modules for the compiler in `src/`, the TLC
configurations that check them on small functions, and proofs that TLAPS checks
for every function. `Frame`, the last stage,
is a machine of calls with a stack; everything before it rewrites code. The compiler translates SysY 2022 to ARM32 assembly. It is a
sequential program that keeps nothing on disk and has no threads, so what is hard
is not interleaving but *iteration and order*: fixpoints that must stop at the
right moment, graphs and instruction lists rewritten while they are walked,
positions in one list that must match positions in another, arrays that are
sorted only sometimes, and allocation rounds that have to end.

## 1. The system

`src/main.c:25` lists the passes. Each one takes the intermediate code of all
functions and changes it in place: inlining, localisation of globals, SSA
construction, value numbering, dead code elimination, leaving SSA, copy
propagation, lazy code motion, operator strength reduction, again SSA, dead code,
tree height, ..., and finally leaving SSA. Instruction selection then makes ARM
instructions with virtual registers and the linear scan allocates registers.

| Component | State it keeps | Operations | What makes it correct |
|---|---|---|---|
| Control flow graph (`IR/cfg.c`, `IR/IRCode.c`) | blocks in order, edge lists of both ends, instruction lists, branches naming instruction numbers | make/remove edge, insert/remove instruction with `update_destinations`, block order, live sets, `cleanup_cfg` | both edge lists and the branches agree; phi arguments match edges; output unchanged |
| SSA (`opt/ssa.c`) | dominators, versions | dominators, phi placement, renaming, leaving SSA | one definition per name, dominating its uses |
| Dead code (`opt/dce.c`) | marks, worklist, postdominators, control dependence | mark, propagate, eliminate, clean up | output unchanged, phis keep their edges |
| Front end (`frontend/tree.c`, `IR/IRGenerator.c`) | syntax trees, lists of branches to patch | code for expressions, conditions, statements and calls; constant folding | the code shows what the source says |
| Inlining, localisation (`opt/inline.c`, `opt/global-variable-localization.c`) | call graph, use of globals by functions | copy and splice functions, turn variables into temporaries | output unchanged, recursion is left alone |
| GVN, LCM, copy propagation, OSR, tree height, division (`opt/*.c`) | tables of values, bit vectors, work sets | data flow to a fixpoint and rewriting | output unchanged, no more work on any way through |
| Linear scan (`backend/linearscan.c`) | live sets, ranges, `active` arrays, used bits, spill queue | build ranges, expire, allocate, evict, sort, rewrite spilled registers, start over | two live values never share a register, fixed registers are respected, every round makes progress |
| Graph colouring (`backend/ra-colorize.c`) | interference graph, eight worklists | simplify, coalesce, freeze, spill, colour | neighbours get different colours (not called by the default build) |
| ARM32 conventions (`backend/arm32/CodeGeneratorArm32.c`, parts of `InstSelectorArm32.c`) | frame sizes, saved registers, fixed intervals | prologue and epilogue, placing and taking parameters, spill slots, call clobbers | values arrive where they are looked for; what a caller holds survives; the stack stays aligned |
| Containers (`utils/*.c`) | AVL trees, lists, bitmaps | insert, delete, set operations | ordered, balanced, consistent links |
| Instruction selection otherwise, output | tables | one pass | not a state machine worth checking |

The components interact through shared structures only: a pass reads the graph its
predecessor left. `cleanup_cfg` is called by the construction of the graph and by
dead code elimination; `pre_and_rev_post_order_compute` by nearly everybody;
the linear scan asks the ARM32 back end for slots and fixed ranges by callbacks.

`PROJECT.json` lists every component with its status, and under "hazards" the
places where this code is hard to test, with the properties that cover them.

## 2. Modules

| Module | Models | State and actions |
|---|---|---|
| `BlockOrder` | `pre_and_rev_post_order_compute` | the stack of edges, `visited` and the order; `Visit`, `Advance`, `Ordered` are the two branches of the loop and its end |
| `Liveness` (extends `BlockOrder`) | `compute_global_live_sets` of the allocator, and `compute_liveness` of `IR/cfg.c`, which has the same loop | live-in and live-out sets, the work bitmap, the `change` flag; one action per block entered, instruction walked, block left, round ended |
| `LiveIntervals` (extends `Liveness`) | the part of `linear_scan_regalloc` that numbers instructions and builds ranges walking backwards, with the ARM32 call markers | `lrBegin`, `lrEnd`, range lists of hard registers, `use_pos`; `StartWalk`, `LeaveBackwards`, `WalkBack`, `EnterBackwards`, `FinishWalk` |
| `LinearScan` | `try_alloc_reg`, `expire_old_intervals`, `spill_at_interval`, `bubble_sort`, `addIntervalsForSpills` and the outer loop | the `active` arrays with the stale cells behind `used_num`, used bits, classes and hard numbers of registers, the spill queue, the operands each register is named by; one action per loop body |
| `RaColorize` | `ra_colorize_graph` | the interference graph, degrees, the lists of nodes and moves, aliases; one action per step of simplify, coalesce, freeze, select, colour and rewrite |
| `IR` | functions of the middle end: instructions by their effect, blocks, edges; the edge operations; and what a function does when it runs | operators only |
| `CleanupCfg` (extends `IR`) | `cleanup_cfg` | the function, the blocks left in this round, `changed`, `fssa`; one action per rewriting |
| `Dce` (extends `CleanupCfg`) | `perform_ssa_dce` with `compute_dominators` and `get_immediate_dominator` for postdominators | marks, worklist, postdominators, blocks left to sweep; then the actions of `CleanupCfg` |
| `Names` | names with versions, the pool of variables, insertion and numbering of instructions, live names | operators only |
| `FrontEnd` | syntax trees to intermediate code (`IRGenerator.c`), and `cfgbuild` | `Visit*`, `Backpatch`, `Fold` give code; `CfgBuild` gives the graph; `Promised` runs the tree itself and is the reference |
| `Loops`, `Inline`, `Localize`, `Ssa`, `Gvn`, `CopyProp`, `Lcm`, `Osr`, `TreeHeight` | the passes in `loop.c`, `inline.c`, `global-variable-localization.c`, `ssa.c`, `gvn.c`, `copyprop.c`, `lcm.c`, `osr.c`, `treeheight.c` with `divcnst.c` | each an operator from functions to functions, built from operators named after the functions of the code |
| `Pipeline` (extends `Dce` and the passes) | the passes one after the other, as `main.c` lists them | the program, the functions done so far, the passes left; one action per pass, the actions of `Dce` and `CleanupCfg` inside dead code elimination |
| `FrameLayout` | which registers are saved, where parameters are passed, size and padding of the frame | operators only |
| `Frame` (extends `FrameLayout`) | `translate_entry`, `translate_call`, `translate_exit`, slots and arrays: the code of functions that call each other | activations, registers, memory, stack pointer; one action per instruction or group of them |
| `Activations` | what calls promise: an abstract machine of activations that each keep what they set | `Invoke`, `Settle`, `Finish`, `Leave` |
| `LinearScan_proofs`, then `Allocation_proofs` | theorems about `LinearScan` | |
| `Liveness_proofs`, then `Exactness_proofs`, and `Intervals_proofs` on top | theorems about `BlockOrder`, `Liveness` and `LiveIntervals` | |
| `RaColorize_proofs` | theorems about `RaColorize` | |
| `Frame_proofs` | theorems about `FrameLayout` and `Frame` | |
| `Calls_proofs` | the proof that `Frame` implements `Activations`, and that parameters and results arrive | |
| `MC*` | instances for TLC; `MCPrograms` puts functions together | |

`Frame` implements `Activations`: the refinement maps an activation to the values of
the registers and words it owns (`Holds`), looked for where the code would find
them, in the register itself or in the place the next callee saved it to. The run
`frame` checks `Promise!Spec` as a property.

Operators whose name begins with `Mutant` are wrong versions of the definition
that follows them. They document which mistake a property detects; nothing uses
them.

### What is abstracted

* *Live sets and ranges*: an instruction is the sets of registers it writes and
  reads, and its kind (plain, call, argument marker).
* *Linear scan*: a register is its range and the operands that name it; a
  descriptor is the flag "can be rematerialised", which gives it a low weight. The
  cells of the `active` arrays beyond `used_num` are kept, because the code reads
  one when every candidate is exhausted.
* *IR*: arithmetic is a sum modulo `Width`; a call with an effect, together with
  its params, and a store to a global are one instruction `obs`, whose value is
  shown. A branch names the destination's first instruction by number in the code
  and the destination block in the model; `Retarget` is `update_destinations`.
* *Passes*: sets of expressions, bitmaps and lists are sets and sequences; a pass
  runs in one step, except dead code elimination and the clean-up. The data flow
  loops are fixpoints by the same equations in the same direction. The source
  language is cut down to int variables, assignments, calls, `if`, `while`,
  `break`, `continue` and `return`; numbers are taken modulo `Width`.
* *Frames*: a function is its parameters' kinds, the registers its code writes, its
  arrays and slots and the calls it makes, in order; `Work` stands for all its
  other code. A value is a tag that says who made it, so a wrong one is recognised.
  External functions do the worst the procedure call standard allows.
* *Execution*: `Run` follows a function through at most `MaxBlocks` blocks. It is
  the reference semantics the properties compare with, not a part of the compiler.

## 3. Runs

| Run | Question | Instance |
|---|---|---|
| `scan` | Is every assignment of the linear scan valid, through evictions and spill rounds, and does it end? | five initial registers of one class with ranges over positions 0..3, four hard registers, one of them clobbered at 1..3 |
| `scan_expire` | Does the scan expire everything its comments say? It does not (section 6). | the same |
| `liveness` | Does the data flow loop stop exactly at liveness? | graphs of three blocks between entry and exit, loops, crossing edges, unreachable blocks; two registers |
| `intervals` | Do ranges cover liveness, calls and argument registers, and does SPILL_REG stay reserved? | two blocks between entry and exit, ten bodies, calls with two arguments |
| `cleanup` | Does every rewriting of `cleanup_cfg` preserve the output and the structure, is the result clean, and do the rounds end? | about 5300 functions of three blocks between entry and exit, with and without phis |
| `dce` | Does dead code elimination keep the output (except as in section 6), do phis keep their edges, does the worklist empty? | about 1100 SSA functions of four blocks, each block showing something or nothing |
| `dce_output` | Does it always keep the output? It does not (section 6). | the same |
| `colorize` | Do nodes stay in one list with the right degree, is the colouring valid as long as hard registers stay out of the lists, and do the rounds end? | three hard and four virtual registers; straight code with chains of moves, and a loop with a call |
| `colorize_valid` | Is the colouring always valid? It is not (section 6). | the same |
| `pipeline` | Does each function still do what its source says after every pass, in the default order? | 41 programs: loops, conditions of every kind the grammar allows, jumps, equal expressions in different forms, nested loops, up to four functions, globals |
| `copies_available` | Are copies available at the end of their block, as the comment says? They are not (section 6). | the same |
| `frame` | Do calls keep what they promise: parameters and results arrive, callers keep registers, arrays and slots, the stack stays aligned? | two families of programs: one callee, with six parameter lists, four sets of registers, four frames; and a recursive callee with a third function and an external one |

Properties, by run:

* `scan`: `NoOverlap` (registers alive together never share a hard register),
  `FixedRespected` (nobody sits in a register that a call destroys while it lives),
  `Accounting` (used bits, counts and active cells describe the same registers),
  `Completed` (at the end every operand has a register and slots are shared only by
  pieces of one register), `NeverStuck` (no fatal error, no uninitialised cell
  used), `Terminates`.
* `liveness`: `Numbering`, `Solution` (the flow equations hold when the loop
  stops), `Exact` (the result is liveness along paths, computed without equations),
  `Terminates`.
* `intervals`: `Covers`, `NoClobber`, `ArgumentsKept`, `SpillRegReserved`,
  `ScanFindsOverlap`, `UsesComplete`.
* `cleanup`: `Preserves`, `EdgesMatch`, `PhisMatch`, `Clean`, `Terminates`.
* `dce`: `OutputKeptUnlessSkipped`, `PhiEdgesKept`, `Terminates`.
* `colorize`: `Worklists`, `ValidUnlessListed`, `Terminates`.
* `pipeline`: `AsPromised` (after every pass, for every input: the values shown and
  the result are those of the source tree), `SsaKept` (one definition per name,
  which every use is reached through), `GraphKept` (edges, branches and phis agree),
  `NeverMoreWork` (value numbering, code motion and copy propagation never lengthen
  a way through the function).
* `frame`: `ValuesArrive`, `StackAligned`, `CallsKeepTheirPromise` (the refinement
  of `Activations`).

Every passing run but `dce` and `pipeline`, where the properties about edges and phis check
the structure, also has one type invariant.

### Bounds and why they are enough

* `scan`: more registers live at one point than never-blocked hard registers, so
  each run of the pass evicts or spills; rematerialised pieces cause a second
  round. `MaxReg` bounds the registers a function may ever create and is larger
  than any execution of the instance needs, so it cuts nothing off.
* `liveness`, `intervals`: nested and crossing loops need three blocks; a value
  that is live around a loop but dead in its linear middle needs two.
* `cleanup`: the shortest rewriting that needs a second round (a branch becomes
  redundant because a block earlier in the order disappeared) needs three blocks.
  `MaxBlocks` is 8 and `Width` is 2: a loop that counts a one-bit value ends after
  at most two turns, or never; executions that have not ended within `MaxBlocks`
  blocks impose nothing, and rewriting only shortens paths.
* `dce`: a dead branch over a live block next to a dead loop needs four blocks;
  `MaxBlocks` is 10.
* All functions given to `cleanup` and `dce` reach their exit from every block,
  because a `while` always has an edge that leaves it. An empty block that jumps to
  itself would make `cleanup_cfg` run for ever (`src/IR/cfg.c:1017`), and a block
  without a path to the exit has no postdominator (`src/opt/dce.c:337`). Phis are
  given only to blocks where paths meet, as `insert_phi_nodes` does.

* `colorize`: three hard registers and more values alive than that force every list
  to be used; `MaxReg` is larger than any execution needs.
* `pipeline`: values are three bits (`Width` 8), so that products, halves and signs
  differ and overflow happens. `Fuel` bounds the steps of loops and recursion in the
  source and `MaxBlocks` (100) the blocks an execution enters: an input on which the source does not end imposes nothing, and none
  of the executions compared is cut by `MaxBlocks`. `Size` (40) is the number of
  blocks a function may grow to. `MaxIterations` (5) and
  `OsrIterations` (2) are the rounds of code motion and strength reduction, 50 in the
  code; `MaxExpanded` and `Threshold` the limits of inlining, 3 as in the code and 60
  in place of 666, so that one is met; `MaxInsns` (1000) spaces the instruction numbers
  of functions.
  Functions that call themselves are followed through rotation, inlining and
  localisation only: what is left of their calls would have to be run by the later passes.
* `frame`: frames on both sides of what an immediate operand and an offset can hold
  (1020, 4095), parameter lists on both sides of four integers and sixteen floats,
  mixed so that both overflow. `MaxDepth` (4) bounds the activations under which a
  call in a branch is made; recursion through the same frame is reached at depth
  three. `Bottom` is the address of the stack.

### Fairness

Each pass is one sequential computation: as long as a step is left it is taken.
That is weak fairness of the whole next-state action, and nothing stronger is
assumed. Termination then only depends on the worklists and flags of the code.
Deadlock checking is off because the passes stop; `frame` has it on: when `main` has
returned, `Returned` stutters, and a function that cannot go on is an error.
`pipeline` and `frame` state no fairness, they have safety properties only.

## 4. Proofs

TLAPS proves the following for every value of the constants the assumptions allow:
every graph, every code, every set of registers, every program of functions.

### Linear scan

`LinearScan_proofs` proves, for every class layout, set of lifetimes, number of
registers and spill limit allowed by `ClassAssumption` and `InputAssumption`:

* `TypeCorrect`: the type invariant, so `active` is never indexed beyond its size;
* `NoOverlapHolds`: two registers alive at one point never share a hard register.

`NoOverlap` is not inductive: a step that takes a hard register from the pool needs
to know that nobody placed in it is still alive. The invariant `Inv` adds: placed
registers that are no longer active ended before the position of the scan
(`PositionOK`); the hard number of an active register is unique among active ones
and its bit is set (`HardOK`); the cells of `active` hold different placed registers
(`ActiveOK`); classes (`ClassesOK`), the spill queue (`SpilledOK`) and the two
indices of the bubble sort (`SortOK`) are where they should be. Expiry frees only
registers that ended; an eviction hands the hard register of an active victim on,
and nobody else still alive had it. The proof never uses that the array is sorted,
which is why the unsorted case of section 6 does no harm to this property.

`Allocation_proofs` adds to `Inv` the invariant `More` and proves:

* `AccountingHolds`: bitmap, counter and array of a class agree. `Inv` knows that what
  is active is marked; the converse is `UsedOK`.
* `CompletedHolds`: when the allocator returns, every operand has a register of the
  class instruction selection asked for, and slots are shared by nobody. It needs that
  a register visited in this round kept its class or is listed (`VisitedOK`), that slots are
  given out upwards and a register that has one is listed or no longer named
  (`SlotOK`), and that only registers of the program are ever listed (`KindOK`).
* `NeverFatal`: the error "attempt to spill already spilled interval!" is dead.
* `SpillableSafe`: a register of the program never sits in a hard register that a call
  destroys while it lives. Registers are placed in the order of their
  beginnings (`OrderOK`), so a register that outlives the one it makes room for covers
  its whole life, and a hard register free of calls for the one is for the other.
* `NeverStuckHolds`: whenever a piece of a spilled register finds no free hard register,
  one of the active registers may be spilled for it, so `spill_at_interval` never reads the cell
  behind the active ones. The argument counts. If all active registers were pieces too, those that
  have not ended lived at the very point where the new one lives, because a piece lives at one
  point (`OperandsOK`); so they and the new one would be as many operands between two
  instructions, while `UsedOK` says every hard register no call needs is taken. That all active ones
  have not ended is just what section 6 says the code does not ensure. `SortedOK` and `PassOK`
  are what the sort does ensure at each comparison: only the first two cells may be out of order, and so a
  register that ended stays active only beside a single other one. Three hard registers are then enough.
* `FixedRespectedHolds`: the same for every register, the pieces of spilled registers
  included, although `spill_at_interval` hands a hard register on without a look at its fixed
  interval, and its third loop without a look at the end of the owner either. A piece lives at one
  point, so an active register that has not ended there covers it (`Covering`,
  `OutlivingCovers`), and what covers it is itself safe where it sits. With three active registers
  of the class none has ended (`SortedOK`), and by the count above there are three whenever one is spilled.

`NeverStuckHolds` and `FixedRespectedHolds` need `RoomAssumption`: at least three hard registers of each class are needed
by no call and no explicit operand, and no fewer than the operands that an instruction reads
and the one before it writes. The code has r4 to r10 and s16 to s31, which no call destroys and no
instruction names before allocation, and an instruction reads at most three
virtual registers of a class and writes one (`ArmInstInput`, `ArmInstOutput`).

### Order, liveness and ranges

`Liveness_proofs` proves for every graph and code:

* `TypeCorrect`: the walk over edges and the data flow keep their types;
* `SolutionHolds`: when the rounds end, the sets satisfy the flow equations in every
  block of the order. The invariant says that as long as `change` is false the
  blocks visited in this round are consistent (`RoundOK`, with `WalkOK` for the
  block being walked);
* `Least`: at every step the sets are below every solution of the equations.

It also proves `NumberingHolds`: every block reached from the entry is in the
order, each block once, the entry first and the exit last, and an edge to an earlier block
closes a cycle. The walk is a depth first search with a stack of edges. `WalkInv`
says that the edges on the stack form a path from the entry that meets no block twice
(`PathOK`), that a visited block is on that path ("open") or numbered and not both
(`VisitedOK`), that the edges behind the walk lead to blocks it has seen (`SeenOK`),
and that an edge from a numbered to an open block closes a cycle (`OpenBackOK`), which
becomes the promise about earlier blocks (`BackOK`) when the open block gets its number.

`Exactness_proofs` proves `ExactHolds`: the result is liveness along paths. Half of it is
`SolutionHolds`: every solution contains what a backward search along paths finds. For
the other half the sets found by the search are shown to be a solution on all blocks,
so that the loop never exceeds them (`BelowFound`, which holds at every step).

`Intervals_proofs` proves `IntervalTypeHolds`, `CoversHolds`, `NoClobberHolds`,
`ScanFindsOverlapHolds` and `UsesCompleteHolds` from one invariant, `IntervalInv`:
what is live at a point behind the walk is covered, only the beginning of the
single life range may be missing as long as the register is live at the current point (`CoverOK`); what is live at the current
point has a first range that reaches back to the start of the block (`OpenOK`); no
range ends at the current point or before it, so that a new one goes in front (`ListsOK`); what an
instruction behind the walk writes or destroys is in the ranges (`WrittenOK`). Covering alone is not inductive:
`shorten` moves the beginning of a range up to the current point, which
loses nothing only because the register is not live above it and nothing below it was covered by that part of the range.

`ArgumentsKeptHolds` and `SpillRegReservedHolds` follow from a second invariant
(`ReservedInv` and `ArgInv`, in `ReservedInvariance`) on top of it. Both are about one range that reaches from
one point to another without a gap (`Stretch`), and `add_def` may cut such a range. It cuts only the
first one, so the invariant says how far the first range (`FirstStretch`) must reach while
the walk goes up: that of `SPILL_REG` from the border the walk has passed to the end of
the code, that of an argument's register from the marker to the call until the move is met that sets it, and
some range from the move to the call behind that (`ArgPlaced`). Two assumptions on the code say what instruction
selection leaves:

* `ArgumentsAssumption`: between the marker and the call every register the call destroys is written at
  most once. `translate_call` emits one move per argument, and what a move computes
  is in virtual registers; `bl` itself writes only `LR_REGNUM` and `IP_REGNUM`, which are not in
  `caller_save_registers`.
* `SpillRegAssumption`: what writes `SPILL_REG` also reads it, and every block but the last
  ends with an instruction that reads it. `ArmInstOutput` and `ArmInstInput` add it to `b` and `bl`, nothing
  else names it before the allocator runs, and a block that has a successor ends with `b`. Otherwise
  the definition at the end of a block would cut the range off there, and the register would be
  free in the block above.

The graphs are assumed to be what `cfgbuild` makes: finitely many blocks, an entry with a
successor, no edge into it (labels are never in front of the `entry` instruction), no
edge out of the exit (`src/IR/cfg.c:455`: a block that ends with the `exit` instruction gets none).
With an edge out of the exit `Numbering` is false, and with it the ranges.

Induction over data is not available, so recursive functions are handled in two ways: a
function that satisfies the recursion is written down without recursion, as an
intersection of closed sets (`ReachExists`, `ClosureExists`), or shown to
exist by a least counterexample among the numbers (`Smallest`: every set of naturals that is not empty has a
least element), and what holds at every place of it follows by a least
counterexample again.

### Graph colouring

`RaColorize_proofs` proves for every program, every number of hard registers and every order
of blocks, over all rounds of spilling:

* `Valid`: in a round in which no hard register was put in a list, registers that interfere end
  with different hard registers of their class (`ValidUnlessListed`; section 6 has what
  happens in the other rounds);
* `InOneList`: while the graph is taken apart each register to colour is in one list, and the
  degree of each that is left counts its neighbours that are left (`Worklists`);
* `RaTyped`: the code, rewritten for spilled registers or not, names registers there are, the
  stack is the list `select`, and no move waits in two lists.

None of them is inductive. `RaInv` joins what holds at every stage (the graph is typed, arcs
lead both ways, aliases have ranks that fall, so `alias` ends) with what holds in each stage:

* while the graph is taken apart, `Graph`: the lists are apart (`Apart`); a node is frozen
  exactly if a move needs it, and its list agrees with its degree (`Related`, `Levels`);
  degrees count the neighbours that are left (`Owing`); the moves belong to the aliases of their
  two sides (`Owned`), which is why `freeze_moves` finds the node at the other end; aliases are
  of one class (`SameClass`); and what interferes in the code has aliases that interfere
  (`Kept`), as seen from the one that is coloured later. `combine` may hand over
  only arcs to nodes that are left because those on the stack are coloured later, and look for
  the alias themselves;
* while colours are given, `Colouring`: two aliases that interfere have different colours, or
  the one that is coloured later sees the other.

Inside a step these are broken. `simplify` and `combine` take a node away and then lower the
degrees of its neighbours one by one, each of which may move nodes and moves between lists. The
loops over bitmaps are written as sequences of graphs (`DecrementLoop`, `TakeLoop`,
`FreezeLoop`), and `Owing` says who still has a degree that is one too high, `Taken` which arcs
have been handed over, `Freezing` which moves are still to be given up. `SimplifyGraph`, `CoalesceGraph`,
`FreezeGraph` and `SpillGraph` put the pieces together. After a round that spills, `TempFacts`
shows that the operands get registers of their own, numbered without a gap, and `CodeType`
that what `insert_spill_code` leaves is a program again.

The assumptions are: `RegistersAssumption` (a class gives out hard registers only),
`BlocksAssumption` (the blocks are in the order once each) and `ProgramsAssumption`:
operands name registers there are, and a move joins two registers of one class
(`ArmInst_is_move` asks for it), a hard one among them only if its class may give it out. The only
hard register that is never given out, `SPILL_REG`, is named by spill code and the epilogue and by no
move. Without this a register joined with it would end with a colour it may not have.

### Calls and frames

`Frame_proofs` proves for every set of programs that satisfies the assumptions:

* `StackIsAligned`: the stack pointer is a multiple of eight wherever another function
  begins. It is not inductive: a return goes to whatever activation the link register
  names. `AlignInv` adds that every activation but the last waits for a result
  (`StackOK`), that the stack pointer plus what this activation has pushed so far
  (`Offset`) is a multiple of eight (`PointerOK`), and that everything a function
  pushes together is one (`ProgramOK`), which `FrameAligned` gives. Every step moves
  the pointer and the offset by the same amount; a call begins at offset 0, and so does
  a return, to an activation whose whole offset is a multiple of eight.
* `FrameAligned`: `update_frame_layout` makes frame and saved registers together a
  multiple of eight, with at most one word of padding; its second test never holds.
* `PlacesInFrame`: arrays and slots are whole words above the parameters of every call
  the function makes and below the end of its frame.
* `CollectFinds`: the loop over the candidates collects exactly the registers that are
  marked, each once.
* `OutgoingFits`, `ParametersApart`, `RegistersApart`: parameters of a call lie in the
  words reserved for them and are apart from each other, whatever their kinds.

`Calls_proofs` proves `CallsKeep`: `Frame` implements `Activations`, so what an activation
has set it finds again after every call, and every return leads to its caller. Where a
suspended activation's registers are depends on all activations after it: the value is in
memory where the first of them that writes the register has saved it, or still in the register.
`CallInv` adds to `AlignInv` that what `Compiled` makes of a function is sound (`Sound`,
proved in `CompiledSound`: it saves every callee-saved register it writes, the link register if
it calls, the frame pointer if it sets it up, and has its words above the parameters it passes), that
the frames are one below the other (`Framed`) and that the return address each activation was called
with is found at its place (`Returning`). The proof has three kinds of steps:

* a step of the last activation (`LastStep`) leaves memory above its frame alone and, for
  every callee-saved register, what is found below it (`View`): what the push has stored if it
  is stored, the register if it is not, before the push and after the pop alike (`PushView`,
  `VPushView`, `VPopView`, `PopView`). All that is looked up further up goes through
  that or through memory above (`FoundAgain`), so the others hold what they held;
* a call (`Enters`) changes the link register, which the caller has saved, and opens a frame
  in which nothing is saved yet;
* a return (`Exits`) goes to the activation right below, because the link register has been
  found again (`Returning`), when nothing of the one that leaves is saved any more.

The same module proves `ValuesAlwaysArrive`: a function takes the parameters its caller placed,
and the caller finds the result where it takes it. `ValuesArrive` speaks of what has been
taken; `ArriveInv` adds where each value is on the way (`TopArrives`): a parameter placed
for a call is where that call passes it (`Where`: a register or a word above the stack pointer)
and stays there while those before it are placed (`PlaceKeeps`); from the call to the last
parameter taken, all are where they were passed, above the pointer the function was entered with
(`Given`), and the frame pointer, where there is one, has that value; from the end of a
function to the point where the result is taken, it is in the register both sides name.
`Linked` has what this needs of the code: a call passes what the function takes, and parameters
on the stack are taken through a frame pointer (`OnStackNeedsFp`). `FrameTypes` proves
`FrameTypeOK`; that memory is written in whole words needs that the stack pointer is a
multiple of a word at every step (`WholeSp`), and that arrays and slots are.

The assumptions are: `BottomAligned` (the C library enters `main` with an aligned
stack), `WellFormed` (arrays of whole words; functions that are called exist and get as many
parameters of the right kinds as they have, which `IRGenerator.c` checks; `main` has no
parameters, as `doc/SysY2022语言定义-V1.pdf` defines it) and
`NoGaps`: the floating registers a function saves are consecutive. `vpush` takes a range,
while the bytes are counted one by one; the allocators hand out the lowest free
register first, so there is no gap, but nothing in the layout checks it.

### Only model-checked

* *Termination*: liveness under fairness is out of the prover's reach.
* `CleanupCfg`, `Dce` and the pipeline: their reference semantics is a recursive
  function over executions, which would need induction over data. Their properties that say
  nothing of executions (`CleanupTypeOK`, `EdgesMatch`, `PhisMatch`, `Clean`, `PhiEdgesKept`,
  `SsaKept`, `GraphKept`) stay with TLC as well: their modules reach the recursive
  operators of `IR`, with which the SMT solver cannot work, and each rests on what a recursive
  function computes for every graph: that `RevPostOrder` lists what the entry reaches,
  that `Dominators` has the dominators.

## 5. Not modelled

* *Scanner and grammar* are inputs of generators; options, files and error exits of the
  driver are straight-line code.
* *Types*: all values of the middle end are int. Arrays, floats and addresses
  (`addptr`, the array form of strength reduction, array parameters, initialisers) are
  left out; in `Frame`, floats and arrays are there as registers and words.
* *Calls that call themselves* after localisation; with them the version of its own
  that `build_ssa` gives every global a call may write. Code motion too meets calls
  only then: it moves those of pure functions (`should_skip`) and looks at what calls
  and globals change (`compute_local_properties`); `Moves` leaves calls where they are. The code gives
  the copied params of such a call a place among the expressions (`src/opt/lcm.c:1019`), as a
  hazard of the list says; a model of it needs params as instructions of their own. Two functions cannot call each
  other, because a name has to be declared before it is used.
* *Conditional constant propagation* and *loop unrolling* are switched off in
  the list of passes: no program reaches them.
* *Instruction selection* but for entry, calls and exit, *conditional execution* of
  short branches (`if_convertArm32`; it never takes the branch at the end of the
  entry block, on which `Frame` relies) and *output*: tables and text.
* *Containers* are modelled by the sets and sequences they implement. Memory, scopes
  and type tables keep nothing the models need.

Left to model: arrays and addresses in the middle end, and the AVL trees, lists and
bitmaps as algorithms against the sets they stand for.

## 6. Findings

* **A dead branch can skip live code** (`src/opt/dce.c:339`, run `dce_output`). The
  elimination replaces a branch nobody needs by a jump to the nearest postdominator
  *whose last statement is necessary*. Postdominators in between are passed over,
  also when they contain necessary statements and merely end in another dead
  branch. In `if (c) {dead} putint (1); if (d) {dead} return`, the first branch
  becomes a jump to the block behind the second one, and `putint` is never called.
  The property `OutputKeptUnlessSkipped` shows that this is the only way the output
  changes on the checked functions.
* **An ended interval may stay active** (`src/backend/linearscan.c:337`, run
  `scan_expire`). `bubble_sort` loops `while i > 1`, so an array of two elements is
  never sorted, and `expire_old_intervals` looks at the last cell only. The
  assignment stays valid (`NoOverlapHolds` does not need the order), but the
  register is held longer than its value lives. `SortedOK` shows that only the first two cells can be
  out of order, so this happens with two active registers only.
* **A hard register can lose its colour's protection** (`src/backend/ra-colorize.c:808`,
  run `colorize_valid`). `decrement_degree` enters a node related to moves into the list to
  freeze without asking whether it is precoloured. The hard register is then simplified
  out of the graph, `combine` hands over only arcs to nodes still in it, and a
  coalesced register that interferes with the hard one may get its colour.
  `ValidUnlessListed` shows that the colouring is valid in every round in which this
  does not happen. The default build uses the linear scan.
* **Copies are never available at the end of their block** (`src/opt/copyprop.c:131`, run
  `copies_available`). Each assignment clears the assignments that mention what it
  writes, itself included, and is entered only into a work set afterwards. So the data
  flow part of copy propagation finds nothing, and only the replacement inside blocks
  works; the output is right all the same (`AsPromised`).
