# A verification project for the CMinusF compiler

The repository is a compiler for CMinusF, a subset of C with integers, floats
and arrays: a flex/bison front end, an abstract syntax tree, a builder for an
LLVM-like intermediate representation (IR), optimisation passes over that IR
and a code generator for LoongArch. `src/src/cminusfc/main.cpp` runs them in a
fixed order, in one thread. What is hard here is not concurrency but long
sequences of steps over one shared mutable graph: fixed points over lists whose
order nothing guarantees, iteration over pointer sets (so that heap addresses
choose the order), adjacency lists and use lists that mirror the operands of
instructions and are changed in several places, and passes that rely on what
an earlier pass left behind.

The TLA+ modules here model the compiler from the parse tree to the assembly:
the front end that builds the IR, each optimisation pass, and the code
generator. Both ends are checked against what programs mean: what the front end
builds is executed beside a definition of the source language, and the
assembly, executed by a model of the machine, refines the IR. TLC checks the
modules on small instances, and TLAPS proves the most important results for
every graph, module or frame. Comments in the modules name the code they
translate; `PROJECT.json` maps each definition to its lines.

## Inventory

The pipeline: `parse` -> `AST` -> `CminusfBuilder` -> `PassManager` (with
`-mem2reg`: Mem2Reg, DeadCode; with `-licm`: LICM, DeadCode) -> IR printer, or
CodeGen with `-S`. A pass is run once, in the order it was added.

| Component | State it keeps | Operations | Interacts with | Hard behaviour | Correct if |
|---|---|---|---|---|---|
| Dominators (`passes/Dominators.cpp`) | post order, `idom_`, frontiers, dominator tree, `dom_tree_L_/R_` | `run_on_func`: dfs, sweeps with `intersect`, frontiers, tree, numbering | reads the CFG; read by Mem2Reg, LoopDetection | sweeps in block list order over guesses; unreachable predecessors; children in pointer order | idoms, frontiers, `is_dominate` are those of the path definition |
| Mem2Reg (`passes/Mem2Reg.cpp`) | a stack of definitions per local, phi-to-local map | `generate_phi`, recursive `rename` | Dominators; changes uses | work list that grows while it is walked; push/pop balance over the recursion | every use of a load gets what memory held |
| DeadCode (`passes/DeadCode.cpp`) | `marked`, `work_list`, `changed` | `clear_basic_blocks`, `mark`, `sweep` | FuncInfo; deletes blocks and instructions | rounds until nothing changes; deletion nulls operands | nothing needed goes, nothing dead stays, no operand is lost |
| FuncInfo (`passes/FuncInfo.cpp`) | `is_pure`, `worklist` | `trivial_mark`, `process` | read by DeadCode, LICM | recursion in the call graph | impure iff a chain of calls reaches an impure function |
| LoopDetection (`passes/LoopDetection.cpp`) | loops, `bb_to_loop_`, parents | `run_on_func`, `discover_loop_and_sub_loops` | Dominators; read by LICM | nesting while parents are still unknown; pointer-ordered sets | loops are the natural loops, nested by containment |
| LICM (`passes/LICM.cpp`) | `loop_instructions`, `updated_global`, `loop_invariant`, preheaders | `collect_loop_info`, fixed point, rewiring, moving | LoopDetection, FuncInfo; changes phis, branches, lists | pointer order; three copies of each edge | graph and phis stay consistent; only what is invariant moves |
| IR core (`lightir/*`) | operands and use lists, `pre_bbs_`/`succ_bbs_`, instruction lists | constructors with their assertions, `set_operand`, `remove_operand`, `replace_all_use_with`, destructors, branch and phi updates | shared by every pass | two mirrors kept by hand; assertions far from the cause | use lists mirror operands; adjacency mirrors branches; every instruction is well typed, none follows a terminator |
| IR types, constants, module | interning tables | getters | all | | one object per type and constant |
| IR printer | | `print` | | phi pairs of predecessors | prints undef for a missing pair |
| CminusfBuilder (`cminusfc/cminusf_builder.cpp`) | scopes, insertion point, `require_lvalue`, `pre_enter_scope` | one `visit` per node | walks the AST through `accept`; writes the module through IRBuilder | code after a return; flags left for the next visit; an index check that splits the block inside an expression; conversions | functions are complete and do what the source says |
| AST (`common/ast.cpp`) | | `transform_node_iter`, printer | reads the parse tree | left recursive lists; children found by their number | the AST has all of the program in its order |
| Front end (`parser/*`, `common/syntax_tree.c`) | position counters, parse stack | token rules, `node` | called by `main` | columns after comments; syntax errors | positions, tree shape |
| CodeGen (`codegen/*`) | `offset_map`, frame size, output, label counter | `allocate`, prologue, one `gen_` per instruction, epilogue, `copy_stmt` | reads the IR | 12 bit immediates on either side of their boundary; a frame without alignment; registers that a call destroys; phi copies in sequence | slots disjoint; lines encodable; the assembly computes what the IR says; the caller's frame is restored |
| Driver, PassManager | list of passes | `run` | | | |
| Runtime (`io`), logging | | | | | |

Files named `*_mine` are drafts that no build target contains.

Concurrency, messages, persistence and timeouts do not occur. The hazards the
code does have are listed in `PROJECT.json` with their lines and with the
properties that watch them.

Two comments describe the code loosely and are no errors of it: the numbers of
`Dominators.cpp:199` do not nest strictly (`R` of a block and of the last block
below it are equal, and `is_dominate` compares with `<=`), and `FuncInfo.hpp:12`
names writes only, where `is_side_effect_inst` also counts a load of a global or
of an array handed in, as LICM needs. The models follow the code.

## Modules

`Cfg` holds what every pass sees of a function: blocks in list order, the two
adjacency lists, and dominance, immediate dominators and frontiers *defined by
paths*. It is the abstract specification the passes are measured against.

`IR` holds values, types, instructions and the constructors with their
assertions; `Words` the arithmetic that all machines share; `Objects` what a
function's pointers point to. Three definitions of what programs mean stand
against the models: `Cminusf` (the source language, by recursion on the AST),
`IRMachine` (the IR, instruction by instruction) and `LoongArch`.

    Ast -> CminusfBuilder -> IR        FrontEnd  = these + IRMachine, against Cminusf
    IR  -> CodeGen (StackFrame) -> asm Backend   = these + LoongArch, refines IRMachine
    IR  -> Dominators, Mem2Reg, DeadCode, FuncInfo, LoopDetection, LICM -> IR

| Module | Models | State | Actions |
|---|---|---|---|
| `Ast` | the productions of the grammar (`Derive`) and `AST::transform_node_iter` (`Transform`) | none: functions of a tree | |
| `CminusfBuilder` | the builder; `accept` calls in progress are a stack of frames, each visit method is cut where it calls `accept` | `work`, `result`, `scope`, `builder` (function, insertion block), the two flags, the module | `VisitVar`, `If`, `Else`, `EndIf`, `CheckIndex` through `Index`, `Convert`/`Store`, `DefaultReturn`, `Compare`, ... |
| `FrontEnd` | `main` up to the module, then a run of one function | the above, `source` and `IRMachine`'s | `BuildModule`, `Run`, `Execute` |
| `StackFrame` | `CodeGen::allocate` | `order`, `offset_map`, `offset`, `frame_size` | `Place` (one value), `Complete` |
| `CodeGen` | `CodeGen::run` on one function | the frame, the next instruction, the output, `fcmp_cnt` | `gen_prologue`, one `gen_` action per kind of instruction, `gen_epilogue` |
| `LoongArch` | (external) the machine and its calling convention | `pc`, `reg`, `memory`, `called`, `running` | `Calculation`, `Load`, `StoreTo`, `Jumps`, `BranchLink`, `CalleeReturns`, `JumpBack` |
| `Backend` | a function compiled, then run | both, the arguments, the history `ret_at` | `Compile`, `Execute` |
| `Dominators` | `Dominators::run_on_func` | call stack and visited set of the dfs; `idom`, `changed`, the two fingers of `intersect`; frontiers; the tree, children in any order; numbers | one per loop iteration or return of the C++ functions |
| `Mem2Reg` | `generate_phi`, `rename` | work list, phis and their pairs, definition stacks, call stack of `rename`, the value that replaced each load | `NextVar`, `PlacePhis`, `PushPhis`, `RenameLoad`, `RenameStore`, `FillPhis`, `Recurse`, `Return`, ... |
| `Mem2RegRuns` | the same, then both versions of the function executed side by side | memory of the old version; values of phis and loads as in LLVM (`env`) and as CodeGen's stack slots hold them (`slots`) | `RunLoad`, `RunStore` (LLVM's memory, not a function of the code), `RunBranch` (with `copy_stmt`) |
| `DeadCode` | `DeadCode::run` on one function | blocks, adjacency lists, instructions and operands left; marks, work list | `clear_basic_blocks` (with the destructors), `MarkCritical`, `PopFront`, `mark`, `sweep`, `Again` |
| `Purity` | what `FuncInfo` is asked: the call graph, and which functions are pure by it | `is_pure` and where the analysis is | |
| `FuncInfo` | `FuncInfo::run` | `is_pure`, `worklist`, position | `trivial_mark`, `PopFront`, `process`, ... |
| `LoopDetection` | `run_on_func`, `discover_loop_and_sub_loops` | loops found so far, owner of each block, parents, sub-loops, the work list | `PassOver`, `CreateLoop`, `ClaimBlock`, `MeetLoop`, `Climb`, `Nest`, ... |
| `LICM` | `LoopInvariantCodeMotion::run` | branch operands, `succ`, `pre`, instruction lists, phi pairs, loop block lists, preheaders; the scan's sets | `CollectLoopInfo`, `Examine`, `ExamineAgain`, `CreatePreheader`, `UpdatePhis`, `RewirePreds`, `MoveInstruction`, `ClosePreheader` |
| `UseDef` | `User`, `Value`, the phi's operand functions | operands, use lists, what is deleted; the call in progress and its loop counters | `add_operand`, `set_operand`, `remove_all_operands`, `StartReplace`/`ReplaceUse`/`EndReplace`, `Delete` (the destructors), `StartRemove`/`Shift`/`EndShift`, ... |
| `CfgProofs`, `DominatorsProofs`, `Mem2RegProofs`, `DeadCodeProofs` (with those of `FuncInfo`), `LoopDetectionProofs`, `LICMProofs`, `UseDefProofs`, `BackendProofs` | theorems | | |
| `MC*` | instances for TLC | | |

In the passes data is abstracted to what decides: a block is its position in
the block list (`nullptr` is 0), an instruction a number with its kind,
operands and block, and names, types and arithmetic are left out. Where the
code iterates over a `std::set` of pointers the model lets every order happen.
Front and back end keep types, operands and values, since conversions, offsets
and registers are what can go wrong there.

### Widths and floats

`Words` scales the widths down: an immediate of 12 bits has `LO` bits, one of
20 has `HI`, a word `LO + HI`, a double word twice that, and the sequences that
load a constant piece by piece are translated with these. A float is a bit
pattern of one word; pattern `n` stands for `n / 2`, so that a conversion is
never the identity and `fptosi` has something to cut off. NaNs, infinities and
rounding do not exist in the model. The result of a division by zero is 0 in
all three machines.

### How the assembly refines the IR

`Backend!RefinesIR` is `IRMachine`'s specification under a mapping: a value of
the IR is what its slot holds (at `Offset` below `$fp`), a cell of an object
what its address holds, a pointer the object whose bytes an address lies in;
the instruction being executed is the one the line at `pc` was emitted for, and
it is over when its last line is. So every line but the last of an instruction
is a stutter that must not show, and the last one must do all the IR says. The
one thing a `ret` does that the frame does not show, which `ret` it was, is
kept in the history variable `ret_at`. Reading a slot no store of that size
filled, or memory no store filled, gives `Garbage`; a call turns every register
but those of `Saved` into `Garbage` and forgets the stack below `$sp`.

### What the models leave out

- `Mem2Reg`: functions with unreachable blocks. `rename` never visits those, so
  their locals stay in memory; `MCDominatorsDeadPred` and `DeadCode` show what
  unreachable code does elsewhere. The element type of a local is not looked
  at: `Vars` are the allocas of int and float that `is_valid_ptr` accepts.
- `DeadCode`: the operands a loop in unreachable code is left with when the
  block in front of it is dropped (they become null, `Value.hpp:18`): the
  properties are about code that can run. One function; the other functions of a module only make the loop
  in `run` go round more often. The block operands of phis are left out, since
  Mem2Reg fills phis from reachable blocks only. `sweep_globally` is not called.
- `LICM`: the function is in SSA form (`IsSsa`) and its loops are those the
  builder makes of `while` (`HasLoops`): one block enters a header, control
  comes into a loop through its header only, the entry is in no loop, and a
  latch lies in no sub-loop (the body of a `while` branches back from the block
  where it ends, and behind an inner `while` that is the inner one's exit). A phi may lack the pair of
  a predecessor, as Mem2Reg leaves it. A call of a pure function behaves as arithmetic does and is not a
  kind of its own; addresses computed by `getelementptr` are not modelled, so
  neither is aliasing through them; `contains_impure_call` is left out because
  nothing reads it.
- Front end: programs that do not type-check or use undeclared names (the
  builder does not report them); declarations of one name twice in a scope; the
  lexer and bison's automata (`Derive` gives the tree a correct parser builds);
  the printing of AST and IR. Element types of arrays are int and float.
- `CodeGen`: phis are not in the back end's functions. Their copies are
  `copy_stmt` in `Mem2RegRuns`, where `slots` are the stack slots. Labels are
  records instead of strings (that the strings differ when the records do rests on
  block names being unique in a function, and for the exits on the names of
  functions being unique). So of labels `Encodable` says that the counter of
  comparisons makes different ones and that each is there to jump to; how far a
  branch has to reach is not modelled, as lines have no addresses. The size of
  an element too large for an immediate is loaded (`Large` in `MCBackend`), but
  multiplied by 0: the builder indexes a whole array with nothing else.
  Comments and directives of the
  output are left out. Arguments beyond the eighth of a kind have no register
  (`Register.hpp:40` asserts), and the model passes at most eight.
- `UseDef`: `replace_use_with_if` is never called. `remove_operand` is called by
  `remove_phi_operand` only, and of phis without null operands: only LICM calls
  it, and what the passes before it delete is no operand of a phi of a loop
  header (a header with an unreachable predecessor does not get through Mem2Reg,
  see `MCDominatorsDeadPred`). It would dereference a null. The constructor of `ConstantArray`, which sets
  operands it does not have, is never run. The order of a use list is not kept:
  `replace_all_use_with` may take any use next.
- `FuncInfo`: the call graph is given; that a use list holds every call is the
  subject of the use list model.

## Runs

All passing runs but `use_def` check deadlock; a finished pass stutters. In
`use_def` the client may stop calling. Properties are kept few: each combines
what belongs together (`FrontierCorrect`, for one, says both that frontiers are
right and when their computation gets lost; `GraphConsistent` of DeadCode and
LICM includes the type invariant).

| Run | Instance | Shows |
|---|---|---|
| `dominators` | every graph of 4 blocks, predecessors in list order or reversed | no guess is ever too deep, fingers never meet a block without number, and the end result (idoms, frontiers, `is_dominate`, the order of the tree) is right; the frontier walk gets lost only at an unreachable predecessor; the pass ends |
| `dominators_dead_pred` (violation) | the graph of `while (c) { if (a) return 1; else return 2; }` | the walk leaves the tree: `-mem2reg` dies on this program |
| `loops` | every graph of 5 reached blocks with two or more edges back | loops are natural loops, each block belongs to the innermost; parents and sub-loops mirror each other and inner loops come first (`LoopsNested`) |
| `mem2reg` | three graphs of 6 blocks (a loop before an if, an if in a loop, nested loops), every placement of three loads and stores of two locals | stacks follow the dominator tree, and on every path each load's users get what memory held; slots hold it too unless one phi feeds another |
| `phi_copies` (violation) | `b = 1; while (..) { a = b; b = 2; }` | CodeGen overwrites a phi before it was copied from |
| `dead_code` | three graphs with an if whose arms both return and unreachable code behind it (a loop, an if, a reachable loop in front), every choice of three instructions | needed instructions stay with their operands, dead ones go (phi cycles, and those only deleted blocks used), adjacency lists stay mirrors, rounds end |
| `purity` | every call graph of 3 functions, use lists up to 2 calls | purity is exact at the end, never too pessimistic on the way |
| `licm` | two nested loops, every choice of three instructions; two loops in a row in a third, every three arithmetic instructions or phis in and behind the inner loops; every pointer order | branches, lists and phis agree, a load stays in a loop that stores to its global, the scan ends, and SSA form breaks only behind an inner loop whose value is used there, within a loop around it. The loops in a row show why the exception is this wide: the user may be in the sibling, not only in the outer loop's own blocks |
| `licm_moves` (violation) | the same, two instructions | what a sub-loop computes, or what a sub-loop or call writes, counts as invariant of the outer loop, and its users or loads are hoisted |
| `use_def` | a phi, another instruction, two blocks, up to four operands, any sequence of calls | use lists mirror operands between calls, nothing deleted stays an operand, phis stay in pairs, every call ends |
| `front_end` | 42 programs: in a function with an int, a float and an array parameter, each of four statements followed by each of five, with int and float result, and two void bodies; run on arguments of both signs and on two replies per call | the AST is the source; no assertion of an IR constructor or block fails; every function is complete; the flags are taken by the visits they were set for; a run makes the calls, returns the value and leaves the memory the source says, and ends |
| `codegen` | 17 functions: every instruction, every comparison, calls with up to eight arguments of each kind, pointers into globals, locals and the caller's array, an element too large for an immediate, a loop, and most of them twice with frames on both sides of the immediate's boundary | slots are disjoint, lines encodable and labels unique, the caller's frame comes back, and the assembly refines the IR; runs end |

The bounds: four blocks are the least with a join inside a loop beside an
unreachable block, and the graphs are all of them; five blocks give two loops
that are nested, share a header's body or follow each other; six or seven fix
the graphs the builder produces and vary the instructions instead. Three
instructions are enough for a definition, a use and something in between;
three functions for recursion through another function and a caller outside.
The front end's statements are chosen so that every visit method, every error
path and every conversion in both directions is met, with a return in every
position that ends a block; pairs of them give code after a return, after an if
whose arms both return and after an index check. Words
have 8 bits there (`LO = 6`, `HI = 2`), and what overflows wraps in source and
IR alike. In the back end `LO = 6` puts the fifth value past the
range of an immediate, and `HI = 3` makes constants that need `lu12i.w` and
`ori`; frames of 2 more allocas lie on the other side. `Garbage` is 77, a value
no function computes.

Fairness: a compiler is one thread that never blocks, so every `FairSpec` is
weak fairness of the whole next-state relation (in `UseDef`, of the call in
progress: whether there is another call is the client's thing). `FairRunSpec` asks it of the
pass only: a compiled program may loop for ever. In `FrontEnd` and `Backend`
fairness is asked of `Execute` alone: the machine goes on while it can, and
the programs and inputs are ones whose loops end.

Every property of a passing run has a mutant: a definition of the module
(`Mutant...`, next to the original, never used otherwise) that a plausible slip
in the code would give, under which TLC finds the property violated.

## Proofs

TLAPS checks, for any number of blocks or functions and any graph:

- `DominatorsProofs`: `TypeOK`, `IdomSound` and `FingersProcessed` are
  invariants of `Spec`. A sweep works with guesses, so "the idoms are right" is
  not inductive. What is: each guess dominates its block (`IdomSound`), blocks
  get a guess only after the dfs and only if it numbered them (`IdomNumbered`),
  both fingers dominate what is being
  merged (`FoldSound`), plus where the control is and what the dfs has
  numbered. `Inv` is their conjunction. `FingersProcessed` is then immediate:
  `intersect` never asks for the number or idom of a block without one.
  Second, `IdomCorrect`. `FixInv` adds that in a
  sweep in which nothing has changed every block passed so far is *settled*
  (its idom is an ancestor of each processed predecessor). Where the sweeps
  stop all blocks are settled, and a settled tree of dominators is the
  dominator tree: the set of blocks with idoms contains every reachable block,
  and every dominator of a block is its ancestor. No order of the list is
  assumed.
  Third, what follows the sweeps, all of which rests on `IdomRight`. A frontier
  walk still has ahead of it every dominator of the predecessor it has not
  entered (`WalkInv`), which gives `FrontierCorrect`, the lost walk included.
  In the numbering, what is numbered and not active is closed under dominance
  and the active blocks are a path of the tree (`NumberInv`), so `R` of a block
  is the last number below it: `TreeOrderCorrect`.
- `CfgProofs`: dominance as `Cfg` defines it is a partial order, the dominators
  of a reachable block are a chain, and the closest of them is unique. Every
  pass's proof rests on these lemmas.
- Of `FuncInfo` (in `DeadCodeProofs`, as the instance `Analysis`; what it has
  from `Purity` is the same there, `AnalysisOfPurity`): `TypeOK`,
  `ImpureForAReason` and `PurityExact` are invariants. Beside types,
  `PurityInv` says that the list holds impure functions
  only, and that an impure function is on the list, or being processed with
  the callers before the current use told, or has told all its callers
  (`Spreading`). With an empty list the pure functions are closed under calls,
  which is what `Pure` asks for.
- `UseDefProofs`: `TypeOK`, `UsesMirrorOperands`, `NoDanglingOperand` and
  `PhisInPairs` are invariants. Between calls the mirror is simple; the proof is
  about the middle of one. `UsesCounted` says what use lists hold at every
  point of a shift (`ShiftSound` says where it is), `PairsKept` that the
  operand removed and its right neighbour differ, without which `remove_operand` would
  lose a use, and `ReplaceSound` that a value being replaced is still there and
  that only a value being deleted is replaced by null.

- `Mem2RegProofs`: `TypeOK` and `StacksFollowDominators` are invariants. The
  active calls of `rename` are a path of the dominator tree (`FramesInv`). That
  pops match pushes cannot be seen from the innermost call alone; `Heights`
  says, for each local, how high its stack stood after the pushes of every
  active call, and that what lies between two heights was defined in a block
  that dominates the upper one's. A popped value may be the operand of a store
  that was itself a load once, hence `OperandsInv`: replacing a load by what is
  on a stack keeps every operand defined in a dominator.
  Second, `LoadsSeeMemory`: that the function the pass leaves computes what the
  old one did, for every function, every order of the recursion and every path
  of the two runs. `Reaches` says which definition of a local reaches a place:
  the last one before it in its block, else the last one of the closest
  dominator that has any. The proof goes in three parts. The work list of
  `generate_phi` leaves no definition whose frontier lacks a phi (`PhiInv`).
  The top of a stack is what reaches the place where `rename` stands
  (`BackReaches`), so a load that was passed has been replaced by what reaches
  it (`UsesReach`) and a phi has what reaches the end of each predecessor that
  was passed (`PairsInv`); a load that was replaced never comes back as the
  replacement of another (`LoadsInv`), so these stay true. In the runs, what
  memory holds is what the definition that reaches the place is worth in the
  new function (`MemReaches`): on a branch to a block without a phi the
  definition dominates that block too, since it would be in the frontier
  otherwise. A store may store what a load gave long before, hence
  `LoadsGave`: where a load dominates, what it gave is still worth the same,
  because the phis it may stand for are not entered again before it is.
- `DeadCodeProofs`: `NeededKept`, `NothingDeadLeft`, `GraphConsistent` and
  `OperandsKept` are invariants. A block with an origin never loses its last
  predecessor (`GraphInv`). In a round the marked instructions are closed under
  operands but for the work list and the instruction in hand, and every set
  that is closed and holds the critical ones contains them (`MarkInv`). What a
  round without a change leaves is therefore exactly what is needed.
- `LoopDetectionProofs`: `LoopsAreNatural` and `LoopsNested` are invariants. Of
  the order of blocks only one thing is used: no block comes before one that it
  dominates. `FillInv` says that complete loops hold their natural loop, and
  that a predecessor of the loop in hand that is not yet in it is pending: on
  the work list, or in the loop being climbed from. `MapInv` keeps owners
  innermost and parents the next loop out, as far as loops are known.
- `LICMProofs`: `GraphConsistent`, `LoadsStayWithStores` and
  `OnlyNestedUsesBreak` are invariants, for every function and every nesting of
  loops. The graph is wrong in the middle of
  a loop, so `LicmInv` says how wrong: the three records of an edge agree but
  for the preheader's branch and the edge it stands for, missing between
  `RewirePreds` and `ClosePreheader` (`EdgesInv`); a loop whose turn has not come
  has its old predecessors and an empty, unlisted preheader (`PendingInv`); phis
  name predecessors, or the preheader that is about to be one (`PhiInv`).
  `LoadsStayWithStores` is about a history of moves: a load leaves loops one by
  one, inner ones first. `LoadInv` adds three facts. A load in a preheader may
  leave that loop and every loop it has left before: none of them stores
  through its pointer (`LeftInv`, `MayLeave`). A block of the given graph only
  loses instructions, never a store, and a block that was added to a loop's list
  is the preheader of a sub-loop (`StayInv`). During a scan `updated_global` has
  the pointers of all stores in the loop's own blocks, and no load through one
  is in `loop_invariant` (`CollectedInv`). The loops around a block are a chain,
  because a parent comes later in the list (`EnclosesChain` and the lemmas
  before it).
  `OnlyNestedUsesBreak` has two halves. The first is where instructions stand
  (`UsesInv`, on top of `LoadInv`). What was moved to a preheader has what it
  needs of that loop before it there, or in the preheader of a loop further out
  (`MovedInv`); what stays keeps its order (`OrderInv`); of the loop in hand,
  each found instruction has what it needs found before it, which is where the
  order of `Examine` counts (`ScanInv`); a branch goes where it went or to the
  preheader of a loop that it enters (`BranchInv`), a preheader is in use only
  once it is wired (`FilledInv`), and a phi has its old pairs, renamed to the
  preheader if they came from outside (`PhiSourceInv`). The second is about
  paths: in SSA form a definition dominates its use in the given function, and
  the rewired one has no path that avoids the definition and reaches the use.
  For that `Free` is the set of blocks that the given function reaches without
  the definition's block, less the loop that the definition has left, and of the
  preheaders entered from them. It is closed
  under the new branches (`FreeClosed`), since whoever gets into a loop without
  the definition gets in through the header (`RegionThrough`, from `HasLoops`),
  so all that is reached without the definition's new place lies in it
  (`ReachStays`).
- `BackendProofs`: whatever values are placed, `FrameInv` is inductive: slots
  and the spaces of allocas follow each other downwards (`Layered`), all of
  them above the current `offset`, and a complete frame is `offset` aligned up.
  No `gen_` action and no step of the
  machine touches the frame, so `SlotsDisjoint` is an invariant for every set
  of functions (`FrameDisjoint`).
  `Encodable` takes two invariants more (`EncodableAlways`). While slots are
  handed out, `offset` is what the values placed so far take (`Tally`), so
  once the frame is complete every offset, and where an alloca's space ends, is
  a word (`FittingInv`). `LabelsInv` follows the output: the labels
  there are are those of the blocks begun, those of comparisons with a number
  below `fcmp_cnt`, and the exit's once the epilogue is there, none twice; a
  jump goes to a block of the function, to the exit or to a label that is there.
  Code without labels and jumps whose immediates fit is `Quiet`, and so is what
  is put together from it: each `gen_` action is one lemma, most of which say
  that what it emits is quiet. A large offset or constant is two or four lines,
  each with the bits its field has.

The only assumptions are those on the constants (`NAssumption`,
`CFGsAssumption` and so on: the program's graphs are well formed), and TLC
evaluates them in the runs. Those of `Backend` are three. `FunctionsFormed`: the
operands and types are those the constructors of the instructions ask for,
constants are words, blocks have code and branches go to blocks. `FramesFit`:
the frame is no larger than an `int` can count, which is what `allocate` keeps
the offset in. `WidthsFit`: -16, where `$fp` is saved, fits an immediate (it has
twelve bits, 5 would do), and what 2 to the power of a number is, up to twice
the bits of a word, since the provers have no definition of it.

Only model-checked: termination of the passes and of UseDef's calls (liveness
under fairness is out of this prover's reach), `SlotsHoldUnlessFed` (it
holds of the structured graphs of the run and is false of arbitrary ones: where
one block branches to the header of an outer loop and to that of an inner one,
the copies for the outer header spoil a slot when the inner one is taken), the
front end (`Ast` and `Cminusf` are recursive on trees, which is out of reach),
and of the back end `FrameKept` and `RefinesIR`. Both are about the execution
of the output. `FrameKept` is not true of every function the IR can hold: one
that stores through a pointer past the end of an alloca writes over the saved
registers, so it needs the program's own accesses to be in bounds, which is a
property of its execution and not of its form; the run's functions have it.
`RefinesIR` needs the meaning of every line of the output.

Where a proof needs induction over a number or a set (the least
counterexample, the set closed under a relation), it is done with sets, since
the library's induction theorems have operators for parameters, which these
provers cannot instantiate.

## Not modelled

The printing visitors (`ASTPrinter`, `IRprinter` but for phis without a pair), the
generated lexer and parser, options and files of `main`, the runtime library
and the logger: they format or move text and keep no state the compiler reads.
`*_mine` files are built by nothing. `PassManager` runs each pass once, in the
order it was added; the passes are modelled one by one, each from any function
of its instance, and not as one composed run.

## Plan

What is left, the next ones first:

1. Theorems: `FrameKept`, for the functions whose own accesses stay within the
   arrays they allocate.
2. `Pipeline`: the passes composed as `main.cpp` runs them, with the invariants
   each pass needs as the promise of the one before.
3. Abstract specifications: `Promote` (a function whose loads read the last
   store) implemented by `Mem2RegRuns`; `Liveness` implemented by `DeadCode`.
