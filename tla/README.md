# Verification of gown

gown is a static checker for Go programs annotated with ownerstamps (`\iso`,
`\mub`, `\rob`, `\imm`). It loads a package, reads the annotations, builds the
SSA form of every function and looks for uses after a move, conflicting
borrows, moves of places whose proof has ended, and so on. This directory holds
TLA+ models of it, the TLC configurations that check them, and proofs checked
with TLAPS. Every definition is translated from the Go source;
`PROJECT.json` says, definition by definition, which lines it stands for.

## 1. The system

The program is sequential: one goroutine per command, no locks and no channels.
What makes it hard is order: a worklist algorithm on control-flow graphs with
loops, closures analysed in the middle of the analysis of their function, merges
that must neither lose nor invent facts, iteration over Go maps, edits applied to
a text that each of them changes. Concurrency comes from outside: files are
edited while a check reads them, rewritten one after the other by a process that
may stop in between, and shared by checks that run at the same time.

| Component | Source | State | Operations | What makes it correct |
|---|---|---|---|---|
| Places and ownerstamps | `places.go`, `ostamp_viewpoint.go` | none | overlap of two places, ownerstamp seen through a path, what may be moved or borrowed | overlap is symmetric and decides every conflict |
| Ownership state | `ssa_state.go` | consumed places, frontiered places, flow values, borrows, deferred groups | consume, rebind, frontier, borrow, defer, merge, compare | a merge covers both sides; the comparison sees every growth |
| Move-flow engine | `ssa_gwn001.go` | per activation: worklist, queued flags, entry states, exit state, current block; deferred closures nest | one transfer function per SSA instruction; exit processing | fixed point reached, none lost, ends; accepted functions have no error on any path |
| Named borrows | `ssa_named_borrow.go` | table variable -> borrowed place, liveness per block | record, liveness fixed point, captures | a live borrow blocks the move of its source |
| Deferred effects | `ssa_defer_effect.go` | groups by defer statement | collect effects, repeated moves | a closure runs in LIFO order and never moves twice |
| Side tables, place and binding index | `ssa_place.go`, `ssa_binding_positions.go`, `ostamp_*.go` | maps built once from syntax | lookup by position or value | each call finds its own binding |
| One-instruction checkers | `ssa_send.go`, `ssa_go.go`, `ssa_store.go`, `ssa_return.go`, `ssa_borrow.go`, ... | none | one rule each | the rule table is complete |
| Closure escape | `ssa_closure_escape.go` | variables that hold closures | flow through assignments | a closure that captures tracked state does not escape |
| Restore regions | `restore_*.go` | reachable set of a region | checks of the body of `\restore` | nothing enters or leaves the region |
| Checker runner, pipeline | `checker_runner.go`, `check.go` | phases of one analysis | run the passes, stop at the first that fails | the first error does not hide an unsound acceptance |
| Annotation propagation | `annotation_transaction.go` | graph of annotation sites, planned edits, files | plan, detect conflicts, rewrite files | the result does not depend on map order; an interrupted run can be repeated |
| Comment mirror | `comment_mirror.go`, `comment_lower.go` | mirror directory and manifest | lower, synchronise, remap errors | the mirror is what the sources say, after a crash too |
| Comment lowering | `comment_lower.go`, `emit.go` (`applyEmitEdits`), `comment_mirror.go` (offsets) | edits of one file | comment to edits, edits to text, offset of the text to offset of the source | edits mean the same one by one as all together; every place maps back |
| Emission | `emit.go` | edits of one file | assignments of nil behind the statements that move | what was given away is empty, nothing else is |
| Formatting, commands | `gownfmt.go`, `cmd/` | none | text rewriting, exit codes | - |

The engine calls the state's operations from its transfer functions and reads
the tables of the other components; it reports errors and changes nothing else.
The runner calls the engine and the other checkers in a fixed order. The
pipeline loads the package, from the comment mirror if the sources carry
annotations in comments, and the command line runs propagation before it.

## 2. The modules

| Module | Models | Uses |
|---|---|---|
| `Places` | places (a variable and a path of fields), overlap, viewpoint adaptation, what may be moved or borrowed | - |
| `OwnerState` | `SSAFunctionState` and all its operations, the merge and the comparison of states | `Places` |
| `NamedBorrows` | the table of named borrows and their liveness | `Places` |
| `Transfers` | instructions and programs; every call that a handler of `ssa_gwn001.go` makes | `OwnerState`, `NamedBorrows` |
| `MoveFlow` | the worklist, the nesting of activations, exit processing; engine properties | `Transfers` |
| `PathCheck` | executions of accepted functions, path by path | `MoveFlow` |
| `SSAPlaces` | the place index: seeding, ambiguity, propagation, arrays shared by `append` | - |
| `SSABindings` | the binding index: tables by position, every lookup, map order | - |
| `SourceIndex` | both, as the SSA checks set them up | `SSAPlaces`, `SSABindings` |
| `ClosureEscape` | the walk over the source with its environments, the SSA pass, and runs of the function | - |
| `RestoreRegion` | the checks of a `\restore` region, and the region run on a heap | `Places` |
| `Verdict` | abstract: what a check promises to whoever asked for it | - |
| `Pipeline` | a check from its start to its answer; implements `Verdict` | `INSTANCE Verdict` |
| `CommentMirror` | synchronisation of the mirror directory, edits of sources, interruptions | - |
| `CommentLowering` | comments to edits, edits to text, and positions back to the source | - |
| `AnnotationPropagation` | `gown -propagate`, its interruptions, and the transactions of an editor | - |
| `Emission` | the insertion of nil assignments and a run of the emitted function | - |
| `MCPrograms` | small functions: statements as the instructions of go/ssa, shapes of control flow | `Transfers` |
| `MCMoves`, `MCPaths`, `MCSourceIndex`, `MCClosures`, `MCRestore`, `MCPipeline`, `MCPropagation`, `MCCommentLowering`, `MCEmission` | instances for the runs | the module of their name |
| `PathCheckProofs` | theorems about states, transfers and the engine, and that accepted functions are sound | `PathCheck` |
| `SourceIndexProofs`, `CommentMirrorProofs`, `PipelineProofs`, `EmissionProofs` | theorems | the module of their name |
| `LoweringProofs`, `PropagationProofs` | theorems | `CommentLowering`, `AnnotationPropagation` |
| `FunctionLiteralProofs` | theorems about closures and about restore regions | `ClosureEscape`, `RestoreRegion` |

How they compose: `SourceIndex` makes the places and bindings that `Transfers`
has in its instructions; `MoveFlow` is one of the passes that `Pipeline` runs;
`Pipeline` reads what `CommentMirror` leaves in the directory, and
`CommentLowering` is what happens to one file in between. The larger modules
take the results of the smaller ones as input and do not instantiate them: the
product of a control-flow graph with the syntax it comes from, or of a directory
with the bytes of its files, would bound both at trivial sizes.

### The move checker

*State.* `OwnerState` is a record: `consumed` and `frontiered` are sets of
places, `flow` maps variables to ownerstamps (`"untracked"` for no entry),
`borrows` is a bag because the code's slice may hold a borrow twice, and
`deferred` maps a defer statement to its position in the slice of groups and its
`Repeat` flag. Places are a variable and a sequence of fields, which is what
`PlaceKey` spells as a string. Source positions serve the error messages and are
left out.

*Steps.* A handler such as `applyCallTransfer` is a loop over its arguments,
and each round calls one operation. `Script` gives the sequence of these calls
for an instruction; the engine makes them one by one, each an action of
`MoveFlow` (`CallArgument`, `Transfer`, `RestoreResult`, ...). The checker is
sequential, so cutting a handler into its calls adds no behaviour, and a
counterexample shows which call did it. An error is reported and analysis goes
on, as in the code.

*Activations.* `runFunctionBody` is called again, from the exit processing of
a return, for each deferred closure. `act` is the innermost call; `callers` are
those that wait. An activation holds the queue, the entry states and the place
in the block under way. `from` and `out` are history variables: in what state a
block was last entered and left.

*Side tables.* The code computes, before the engine starts, maps from
instructions to bindings, assignments, field moves and so on. Here they are part
of the instruction: a program is a control-flow graph of instructions with their
places. Named borrows, their liveness and the effects of deferred closures are
computed as in the code. Not covered: SSA values whose place is ambiguous, two
equal successors of one `If`, a defer statement that occurs in two blocks.

*Executions.* `PathCheck` starts when the engine has accepted a function and
walks one path through it with the same transfers. The walk knows what a merged
state can only bound: which branch was taken, the defer stack with repetitions,
and which place a borrow variable was last bound to. A transfer that fails on
the walk is a slip.

### The source indexes

`SSAPlaces` seeds the index with the globals and with the mentions of the syntax
tree, one step each in the order of the tree, and then visits the instructions
once, in block order, as `propagateSSAPlaces` does. A projection is a slice of an
array in `cells`, with length and capacity, because `append` writes to the array
of its argument if there is room and other places may share it. `SSABindings`
has one step per call of the text (`bindCall` and the tables by position) and
one per lookup; a lookup that ranges over a map takes any of the entries that
fit. Which value `ValueForExpr` gives for an expression is go/ssa's affair and
an input; `MCSourceIndex` gives every combination. `IsBody` says what a body
may be: an operand can come from a later block, as that of a phi does. `Capacity`
is what Go's `append` allocates for each length; the code depends on it, so it is
a constant with the growth rule as its assumption.

### Closures and restore regions

Both modules have two halves: the checker, translated function by function, and
a run of the checked code against which its answer is judged. `ClosureEscape`
walks the statements with environments that are cloned at branches and merged
behind them, records what it reports, and then runs the function along any path,
with what each variable really holds. A function is the sequence of its statements
numbered from its end, as a compiler would lay them out, so that what is inside a
statement or behind it has a smaller number: the walk (`checkSourceBlock`) and all
runs at once (`BlockFlow`) are then functions of the number. `IsNested` says that
the numbering comes from blocks in blocks; `MCClosures` writes functions that way
and numbers them. `RestoreRegion` checks the region (shape, signature,
arguments, walk over the body with tokens, moved projections and incorporations,
captures, boundary) and, if there was no error, runs the body on a heap of nodes
and pointers. A body is the sequence of its statements in the order of the text,
with the brackets of the ifs: `checkNestedBlock` is the walk as a function of the
number of statements read, and what the code saves before a branch and puts back
behind it (`movedProjections`, but not `localTokens`) is looked up at the
bracket's position. A run goes through the same sequence statement by statement,
and an if takes either branch (`Assignment`, `Decide`, `Rejoin`, `Return`). Nodes
are named after the place that led to them when the region was entered, where
`\iso` graphs are trees.

### A check from its start to its answer

`Pipeline` has a program counter for each check and one action for each thing it
reads or writes: the names of the files, each source, each file of the mirror,
each file scanned, each file loaded, each checker pass. In between the sources
may be edited (`Edit`) and the process killed (`Kill`). A file is reduced to
what is wrong with it, the stage that would report it. An editor's buffer does not
always take the place of its file: `cfg.Overlay` is made of `.gown` sources only,
so in a package of those the toolchain loads plain Go files from the disk, and
their buffers serve only the comparison of names and the search for gown comments;
in a package of gown comments the mirror is made from the `.go` buffers (`Content`, `Input`). What a check read
(`got`) and the buffers that count (`buffers`) are the refinement mapping:
`A == INSTANCE Verdict WITH view <- got, overlay <- buffers`, and
`AnswersForItsFiles` is `A!Safety`. `Verdict` knows nothing of mirrors, scans
and retries: a check sees each file once, at some moment, its buffer or what is on
disk, and its answer is the first fault, in the order of the stages, of the files
it saw.

### The comment mirror

A file is a name (base and extension) and what it holds: the text of a Go or
`.gown` source, an annotated Go text, its lowered form, or the cut-off rest of a
write. A run reads the sources (`Begin`), removes what the old manifest names
and the new one does not, in the order of a Go map, visits the files in sorting
order, truncating and filling those that differ, and writes the manifest last.
Between any two of these steps the process may stop (`Crash`, which also stands
for an I/O error that is returned) and a source may change (`EditSource`, on
disk or in an editor's overlay). A run that fails before it writes (a collision
of names, a comment that cannot be lowered) changes nothing, so it is a guard of
`Begin`.

### Comment lowering

A file is its length and the extents of its nodes and comments; the text made
from it is a sequence of bytes, each of them a byte of the source (with its
offset) or of an edit. Directives are lowered one by one into edits.
`applyTrailingDirective`, `applyLeadingDirective` and `applyRestoreDirective`
find the node a comment is about, in the order in which the code tries the kinds
of node, and the appliers they call say which edits it gets. `ApplyEdit` splices
one edit into the text, from the last to the first, and fails if it overlaps the
one before. The mapping back is `originalOffsetForGeneratedOffset` with its
running difference. `FilesAssumption` says that nodes and comments lie in their
file (`IsFile`), and what the Go parser sees to beyond that (`IsParsed`): a
comment ends its line, so there is one on a line at most (`//gown:` comments are
line comments, and positions are those of the file, without `//line`); a
right-hand side belongs to one assignment; where a type starts nothing starts
that a comment can replace; and where a function literal starts that an
assignment calls, nothing else does.

### Emission

`Emission` collects the moves of each statement (`nilRootsForStatement`, with
`ast.Inspect` looking into the statements inside), inserts the assignments behind
the statement or behind the line it shares with others, and runs the emitted
function. `inserted` are the assignments behind each statement, `dropped` the
statements that became part of a comment. While the function runs, `at` is the
statement to run next, `holds` the places that hold a value, and `movedBy` the
statement by which the source gave a place away. A step from one statement to the
next names the statements that come to their end on the way: a `continue` in a
branch ends neither the branch nor the loop, and passes by what is inserted
behind them. Functions that reach the emitter have passed the check of moves:
`gone` is what that check lets each statement find given away, and `Accepted`
says that no statement uses any of it.

### Annotation propagation

A package is a set of sites, the type expression of each, the file of each
expression, and edges. A text is a sequence of stamps before each type. The
last one counts, because `firstNonSpaceOffset` attaches every stamp to what
follows it, and that is another stamp for all but the last. One step of the plan
handles one component, in any order; one step of the application writes one
file, in any order; insertions at one place come in any order. `Check` analyses
again, which for comment packages means that the mirror is made again.
`Transaction` is the editor: the user changes one stamp,
`PlanAnnotationTransaction` plans, and the editor applies the plan at once.

## 3. What the runs check

| Run | Question | Result |
|---|---|---|
| `moves` | types and whose deferred groups are whose; joins lose nothing; no block is stale; entry states only grow; the worklist ends | passes |
| `paths` | does an accepted function commit an ownership error on some path? | passes |
| `source_index` | are places and sources right whatever the order of the tree; does a call get its own stamp? | passes |
| `siblings` | have two sibling fields different places? | violated: not at a depth of four, section 7 |
| `closures` | are escapes reported, and only escapes? | passes |
| `restore` | has every node of a returned graph one owner? | passes for regions that store each thing once |
| `restore_twice` | the same without the restriction | violated, section 7 |
| `pipeline` | does a check implement `Verdict`, and end? | passes |
| `mirror` | interruptions between any two file operations | passes |
| `comment_lowering` | edits one by one or all together; positions back to the source | passes |
| `propagation` | order of components and files, interruptions, files that cannot be edited, transactions | passes |
| `emission` | is what was given away empty, and nothing else? | passes |

Properties of the engine:

- `TypeOK`: also, no activation holds a deferred group of another one's function
  (`OwnGroups`). A closure that runs at a return starts from the state there
  without its groups, and leaves the caller its own.
- `JoinCovered`: what each block left is covered by the entry state of every
  successor, whatever order the blocks ran in. It depends on the merge and on the
  comparison that decides whether a successor is queued again. Borrows are not
  part of the order `Covers`, because the comparison loses some
  (`MCJoinBorrows.cfg`, section 7).
- `NoStaleBlock`: a block that is not queued was last run from the state now at
  its entry; with an empty queue the result is a fixed point.
- `EntryStatesGrow`, `Termination`: no fact is taken back, and the worklists of
  all activations drain.
- `AcceptedIsSound`: no transfer fails on a path of an accepted function. The walks
  stage field initializers by the rule of the engine and read its table of named
  borrows: a fault of the rule or of the table would be in both
  (`MCReassigned.cfg`, section 7).

Properties of the source indexes:

- `UniqueMeansOneName`: a value that no rule reaches and that the index takes
  for unique has the same place under every expression that stands for it,
  however full paths and bare field names are ordered.
- `SourceIsTheOnlyMention`: a position is given only if it is that of the one
  full expression.
- `PlacesExplained`: each place comes from the source or, by the rule of its
  instruction, from its operands; the loops' phis are visited before the values
  of their back edges.
- `ApartBindsItsOwn`: a call with no other call around it, in it, or (behind
  `go` or `defer`) on its line gets its own stamp and none when it has none. Two
  calls on one line that only `callOnLine` tells apart are left out
  (`MCOwnBinding.cfg`, section 7).

Properties of the closure check:

- `EscapesReported`: a capturing literal that escapes on a path through branches,
  switches and single turns of loops is reported at that place.
- `ReportsAreReal`: what is reported happens on some path, if the function has
  only statements that the walk sees as they run (`Straight`): no jump, no return
  but a last one, no post statement, no assignment of several values, and neither
  a labeled nor a `select` statement, which the walk does not look into.

`OneOwnerIfStoredOnce` runs every accepted region that stores each thing once
(`StoresOnce`): no two results are one node, and no node of a returned graph is
held twice. `StoresOnce` asks that no variable is set twice (a parameter never), no
token is stored twice, an opened root is stored in another root or in an alias of
one, and no path has two fields. Without any one of these the checker accepts a
region whose result has two owners (section 7).

Properties of a check:

- `AnswersForItsFiles`: the refinement. Edits, open buffers, a lost cache entry or
  a kill do not make a check answer for a mixture that no reading of the files
  gives, report a fault of a later stage before one of an earlier stage, or
  accept a package with a fault.
- `EveryCheckEnds`: an open check is answered, failed or killed.

Properties of the lowering:

- `EditsAreSimultaneous`: edits that are accepted, applied one by one, give the
  text that all of them together mean.
- `PlacesMapBack`: a byte that no edit touches maps to itself, a byte of an edit
  into the range the edit stands for.

Properties of the emitter:

- `MovedIsNil`: once control has left the statement that gave a variable away,
  it is empty until it is assigned again; except when that is a compound
  statement whose header gave it away and whose body jumps past its end
  (`LeftAtEnd`).
- `StraysExplained`: only what was given away is emptied, the emitted function
  does not fail and each inserted name is declared where it stands; except behind
  a compound statement with a call in it (`NestedCall`), where a statement gives a
  variable away and assigns it again, as `x = Pass(x)` and `y, x = x, \new(T)` do
  (`RefilledArg`), and where a statement became part of a comment (`Lost`).

Properties of the mirror:

- `CheckedFilesCurrent`: whatever was left by interrupted runs, a completed one
  has every file in place.
- `LeftoversAreOrphans`: a file no manifest names comes from an interrupted run.
- `RefreshedUninterrupted`: without interruptions, what the checker loads from
  the mirror is what it would load from the run's files. What an interruption
  leaves behind is the subject of `LeftoversAreOrphans`.

Properties of propagation:

- `PlanIsImplied`: the plan is what the implied sets ask for. `ImpliedSet` is
  stated without the queue of `connectedComponent`, as what all closed sets with
  the site have in common.
- `ImpliedBeforeCheck`: after a completed run no stamp is implied and missing. The
  run has no package of gown comments, where it does not hold
  (`MCPropComments.cfg`, section 7).
- `RerunConverges`: crashes and partial writes in between, a completed run ends
  with what a single run would have made; nothing is stamped twice.
- `NoContradictionMade`: neither a run that stops halfway nor a transaction on
  what it left makes the stamps of an implied set differ.

Every property of a passing run has a mutant in `PROJECT.json`: a plausible bug
in one mapped definition under which TLC finds the property violated. The
mutated forms stand next to what they mutate, marked `Mutant`.

## 4. Bounds

- *Functions* (`MCPrograms`). A branch, a loop, and bodies of deferred closures,
  with each block drawn from a few statements: `MovePrograms` combine moves,
  rebindings, field moves and frontiers; `DeferPrograms` combine two defers with
  closures; `HandlerPrograms` use every other instruction. Two owned variables
  `x` and `y` are enough for a move from one to the other and for a closure that
  touches what another moved; `u` is untracked, for values received into it, and
  `b` is a borrow variable. Fields are an owned and an immutable one, paths at
  most one field long, so that a place overlaps itself, its parent and not its
  sibling. A branch has one join and a loop one back edge; these are the only two
  ways a block gets a second entry state. A third, in
  `MCDeferOrder.cfg`, is a join that is reached before one of its predecessors has
  run.
- *Walks.* `MaxDefers = 3` lets a loop defer one closure twice after another
  one. `MaxBorrows = 3` ends walks that hold more borrows; borrows only
  accumulate from defers.
- *Source indexes.* Up to three mentions of two values, out of two variables, two
  bare fields, a selection and an index: the shortest sequences in which a full
  path comes before, between and behind bare names. Every sequence of four
  instructions of the rules that hand places on, with a phi over a later value; a
  chain of five fields for the arrays of `append`, whose capacities are 1, 2, 4.
  Two calls with every position of start, parenthesis and end among nine offsets,
  apart, one in the callee or in the arguments of the other, with and without a
  keyword, on one line or two, each stamp. Three calls would add only pairs.
- *Closures.* Two function variables, a capturing literal and another, two
  assignments, then every compound statement with one or two statements in each
  arm, then a use; branches inside loops with jumps. A loop turns as often as the
  run likes: states are finite without a bound.
- *Restore.* Two graphs, two locals, an immutable parameter, and bodies of up to
  four statements in front of the return over nine stores and five reads, branches
  included. A slip needs a read, a store that detaches and two stores that attach.
  Heaps are as deep as the paths: a root, its fields and one more.
- *A check.* One name listing, one gown file and one plain Go file, one fault of
  each of four stages (a stage in front of the scan, one in the toolchain, two
  passes), one edit, and any number of kills: the second file is read after the
  first has changed. Nothing is open in the editor, the scanned file with a fault of
  a checker pass, or the scanned file without a fault and the plain Go file with one
  of the toolchain. More files or edits are covered by the proof.
- *Lowering.* Two files, one with nodes in a row and one with nodes in nodes, up
  to four comments of every kind; two edits of one place need two comments, and
  an edit around both a third.
- *Emission.* Four statements in six shapes (a line, two branches, two loops, a
  loop with a branch that continues it), the statement inside the compound one
  drawn from every kind of move; two variables, one field, a name that hides
  another, statements on one line, in a header and in front of a brace. A nil in
  the wrong place needs a move, a way around it, and a later use. Six rounds
  compute `gone` for every shape, and `Accepted` leaves out what has not converged.
- *Mirror.* Two bases, two texts (one cannot be lowered), two edits and two
  interruptions: a source disappears or changes after it was mirrored, and a
  second run can fail on what the first left. `Leave` returns to idle, so the
  number of runs is not bounded.
- *Propagation.* Four sites in two files, four sets of edges (a chain, two
  pairs, a star, a cycle), two stamps and none; one with and one without a
  channel element; all `.gown` or one plain Go file. Two runs, one interruption,
  one transaction: an interrupted run, a transaction on what it left, and the
  run that completes.

`CHECK_DEADLOCK FALSE` stands in the configurations where a model runs one
function, region, file or set of runs to its end and then stops. The engine and
the pipeline check for deadlock: `Stop` is the return of `checkFunction`, and a
check that has ended can always be asked for again.

## 5. Fairness

`MoveFlow` assumes `WF_vars(Next)`: one goroutine runs the checker until it
returns, and no step waits for anything. Under it `Termination` says that the
loops of the engine end. `Pipeline` assumes `WF_vars(Step(c))` for each check
`c`: it is a process of its own that waits for no other, and the operating system
lets it run. Nothing is assumed of the user's edits and of kills. `EveryCheckEnds`
then depends on the code reading each file once per stage, and on its answering a
lost cache entry with one retry. No other module states fairness: a walk, a run
of the mirror or a propagation may stop anywhere, and only safety is claimed.

## 6. What is proved

With TLAPS, for every value of the constants:

| Theorem | Statement |
|---|---|
| `PathCheckProofs!TypeCorrect` | `Spec => []TypeOK`, with each activation's deferred groups its own |
| `PathCheckProofs!JoinsCovered` | `Spec => []JoinCovered` |
| `PathCheckProofs!NoBlockStale` | `Spec => []NoStaleBlock` |
| `PathCheckProofs!EntriesGrow` | `Spec => EntryStatesGrow` |
| `PathCheckProofs!MergeCoversBoth` | a merge covers both of its states |
| `PathCheckProofs!AcceptedSound` | `PathSpec => [](PlainProgram(prog) => AcceptedIsSound)`: the engine is sound for functions without defers |
| `SourceIndexProofs!PlacesInvariant` | `Spec => []PInv` |
| `SourceIndexProofs!TypesHold`, `UniqueNames`, `OnlyMention`, `Explanations` | `TypeOK`, `UniqueMeansOneName`, `SourceIsTheOnlyMention`, `PlacesExplained` always hold, for every body |
| `SourceIndexProofs!ApartBindings` | `Spec => []ApartBindsItsOwn`, for every text |
| `CommentMirrorProofs!TypeCorrect` | `Spec => []TypeOK` |
| `CommentMirrorProofs!FilesCurrent` | `Spec => []CheckedFilesCurrent` |
| `CommentMirrorProofs!OrphansOnly` | `Spec => []LeftoversAreOrphans` |
| `CommentMirrorProofs!Refreshed` | `Spec => []RefreshedUninterrupted` |
| `LoweringProofs!TypesHold` | `Spec => []TypeOK` |
| `LoweringProofs!OneByOneIsAllTogether` | `Spec => []EditsAreSimultaneous`, for every file and any number of comments |
| `LoweringProofs!EveryPlaceMapsBack` | `Spec => []PlacesMapBack`, for every file and any number of comments |
| `PipelineProofs!Invariant` | `~Overlapping` implies `Safety => []Inv` |
| `PipelineProofs!TypeCorrect` | `~Overlapping` implies `Spec => []TypeOK` |
| `PipelineProofs!Refinement` | `~Overlapping` implies `Spec => AnswersForItsFiles`: `Pipeline` implements `Verdict`, with the buffers that take the place of files |
| `FunctionLiteralProofs!TypesHold` | `Spec => []TypeOK` |
| `FunctionLiteralProofs!EscapesAreReported` | `Spec => []EscapesReported`, for every function |
| `FunctionLiteralProofs!ReportsAreOfPaths` | `Spec => []ReportsAreReal`, for every function |
| `FunctionLiteralProofs!RestoreTypes` | `RegionSpec => []RegionTypeOK`, for every region |
| `FunctionLiteralProofs!RestoredOnce` | `RegionSpec => []OneOwnerIfStoredOnce`, for every region and every shape of graph |
| `PropagationProofs!TypesHold` | `Spec => []TypeOK` |
| `PropagationProofs!PlanOfImpliedSets` | `Spec => []PlanIsImplied`, for every graph of sites |
| `PropagationProofs!NothingImplied` | `OwnTypes` implies `Spec => []ImpliedBeforeCheck` |
| `PropagationProofs!NoneContradicts` | `OwnTypes` implies `Spec => NoContradictionMade` |
| `PropagationProofs!RerunsConverge` | `OwnTypes` implies `Spec => []RerunConverges` |
| `EmissionProofs!TypesHold` | `Spec => []TypeOK` |
| `EmissionProofs!GivenIsEmpty` | `Spec => []MovedIsNil`, for every function |
| `EmissionProofs!OnlyGivenAreEmptied` | `Spec => []StraysExplained`, for every function |

*Assumptions.* For the engine: paths are sequences of fields and the empty one
is among them, the tables of ownerstamps have their types, global variables are
variables, the value that stands for "no place" is none, defer statements are
finitely many, every program is well-formed (`IsProgram`: successors are blocks,
instructions have their fields), and `"main"` is a function. For the places:
`append` allocates at least what it needs, and for one and two elements exactly
that (`CapacityAssumption`), variables and fields are different names
(`NamesAssumption`), and bodies are well-formed (`BodiesAssumption`). For the
bindings: `TextsAssumption`, calls have an extent and lie apart or one inside the
other. For the mirror only `TypeCorrect` needs something: bases are numbers, for
their order, and the bounds are numbers. For the lowering: nodes and comments lie
in their file, and the file is parsed Go (`FilesAssumption`, section 2), and
comments are sequences of commands (`BodiesAssumption`). For the closures:
functions are numbered statements (`FunctionsAssumption`, section 2), the literals
that capture are literals, and no literal is a variable (`CapturingAssumption`).
For the regions: brackets match and what the body declares is new, which the Go
compiler sees to (`RegionsAssumption`), pointer fields are fields
(`PtrFieldsAssumption`), and the values that are no places have names of their own
(`ValuesAssumption`).
For the pipeline: the listing is a file and the plain Go files are sources
(`FilesAssumption`), contents are `"ok"` or a fault of a stage from the scan on, and
buffers hold contents too, those of plain Go files no gown tokens
(`ContentsAssumption`), and the checks of a package whose annotations are in
comments do not overlap (the hypothesis `~Overlapping` of the theorems; without
it the statement is false, section 7). For propagation: packages have their type,
their sites are finitely many (`SitesAssumption`) and the bounds are numbers. For
emission: `nil` is no variable (`RootsAssumption`), and functions are well-formed,
name what is in scope, and are accepted by the check of moves
(`FunctionsAssumption`). TLC evaluates all of them on the instances.

*The engine.* The invariant `Inv` of `PathCheckProofs` says of the innermost
activation that it has its type (`IsActivation`), that the place in the block
and the calls still to make agree (`PhaseOK`: merges are pending only between
the end of a block and `LeaveBlock`), that it is `Covered` and `Fresh`; and of
the waiting activations the same, and that none of them is in the middle of a
merge. `JoinCovered` alone is not inductive: while the successors of a block are
merged one after the other, the later ones do not cover it yet, and one needs to
know that the state to be merged is the one recorded in `out`. `NoStaleBlock`
needs that a block is popped and its state recorded in one step, and that a self
loop queues the block that is under way. The module begins with
the algebra of states (types, merge, order); then it shows for each of the
transfer functions that it keeps the type of the state and reports known codes,
and for each instruction that `Script` lists well-typed calls. Every step that
is not a merge leaves `in`, `out`, `from` and `queue` alone, which is why one
lemma (`TransferStepInv`) does for all of them. `TypeCorrect` needs `Own` besides:
no state of an activation, and no call it still has to make, names a defer
statement outside the activation's body. Joins unite groups, and a `Register` that
is pending becomes one, so the bare property says nothing of the step that adds a
group; and a caller waits with the groups that it gets back when the closure
returns.

*Accepted functions.* `AcceptedSound` relates two runs of the same transfers, one
on merged states and one along a path. The engine's state `t` *follows* the
walk's state `s` (`Follows`): it covers it, and `s` has neither deferred groups nor
borrows, which only defers add to a state. A transfer that `t` accepts is accepted by `s`, and the results follow
again (`Tracks`, one lemma for each operation of the state). What the engine did
in a block is kept as a set of configurations closed under its own steps
(`Trace`), because between two runs of a block the engine forgets all but the
entry state. `EngineInv` says that while no error was reported every block which
is not under way has such a trace from its last entry state to what it left;
`WalkInv` says that the walk is at a configuration of the trace of its block. At
the end of a block `JoinsCovered` and `NoBlockStale` carry it to the next one:
this theorem uses both. `PlainProgram` has three conditions, and each one excludes
programs for which the argument, or the statement, fails. There are no defer
statements: with them the statement is false (`MCDeferOrder.cfg`,
`MCRepeatedMove.cfg`, `MCReassigned.cfg`). A variable borrows one place, the one
that the table records; the table keeps the last binding only. The ownerstamp of a
staged field value is a declared one: a flow value is forgotten at a join, so a
walk may know one that the engine does not. The hypothesis is not empty: 4136
programs of the run `paths` satisfy it.

*The places.* `PInv` has one part for each way a value can be related to its
names. `Named` holds of a value that no rule has reached yet, or none ever will
(a root): what it says depends on the mentions seen so far and on whether a full
path was among them. `Explained` holds of a value behind the pass: its place is
what the rule of its instruction makes of the operand's. `LongerOnOneArray` is
what makes the shared arrays harmless: of two places on one array, the one that
no rule has made yet is not the longer one, so an `append` in place writes
behind what it shows. Nothing protects a place that a rule has made: with four
fields it can lie on an array with room, where a sibling overwrites it (run
`siblings`), and this is why `PlacesExplained` speaks of paths of up to three
fields. `RoomLeft` is a bound: the field steps to come fit into the longest array
of `Capacity`.

*The mirror.* The invariant says how far the run has come: the names already
visited hold what they should; before writing starts, a name that only the old
manifest knows is gone or still to be visited; a name that is recorded without a
file is a Go file which a `.gown` file of the run replaces. The last part gives
`RefreshedUninterrupted`: generated Go files may stay in the directory, but none
of them is loaded. `TypeCorrect` also says that a file is cut off only while it is
written or after an interruption, which needs that the file truncated is the next
one in sorting order.

*The lowering.* `Laid` says what the text means when the edits of a set `D` are in
it: in front of the start of the last one it is the file; the bytes of the file
that are left, in their order, are those which no edit of `D` replaces; and each
edit's text stands in one piece, behind the bytes in front of its range and before
the others. With `D` all edits this is `EditsAreSimultaneous`. It is inductive
only because of the test `end <= lastStart` of `applyEmitEdits`: an edit that
passes it lies in the part of the text that is still the file, and what the
earlier ones did moves as a whole. `SortIs` shows that sorting visits every edit
once, whatever their number. `TypesHold` goes through every lowering of every
directive: an edit lies in the file because the node it is made from does.

*The places in the lowered text.* `applyEmitEdits` goes through the edits from
the back, `originalOffsetForGeneratedOffset` from the front, and each sorts for
itself, stably. `Located` follows the first: it numbers the edits from the back
and says where every byte stands once `m` of them are in, moved by what the edits
in front of it have added (`LocatedStep`: one more edit in front moves everything
behind it). `Mirrors` carries this over to the second: the x-th edit from the
front has the range and the length of the x-th from the end of the others, and the
running difference is what they added. That is not a matter of sorting alone,
because edits with one start are not reversed by a stable sort; they have to be
alike (`SameStartSameEdit`). Of two such edits, if none was refused, the later
one is empty, and `InOrder`, the part of the invariant about the order in which
edits are made, says that then the earlier one is empty as well: a comment never
asks for an insertion where one further up has asked for a replacement
(`NoInsertionThere`, from `IsParsed` and the lines of the comments). Insertions
have one length. Without the order the statement is false: a replacement made
before an insertion at its start would pass `applyEmitEdits` and map back wrong.
`FirstBehind` and `ByteBetween` then find the edit at which the search stops.

*Closures.* The walk and the flow are defined by recursion on the number of a
statement; `WalkIs` and `FlowIs` show that the functions exist and are what their
definitions say, by the least number that lacks what the smaller ones have
(`EachFromSmaller`). For `EscapesAreReported` the invariant `FInv` follows a run:
there are environments, one for each place in what is left to run, of which the
first has every literal that a variable holds, the walk *leads* from each to
the next (`Leads`), and all it finds on the way has been reported. Each step of
the run then takes the first item off or puts a block in front
(`AssignFollowed` to `EndTurnFollowed`). The bare property is not inductive: it
knows nothing of what is still to run. `ReportsAreOfPaths` compares the walk with the
runs, statement by statement: an environment is covered by runs if for each of its
literals one of them has it in its place (`Covers`), and from covered environments the
walk finds only what is seen (`AllMatched`). A block that does not reach the last
statement of the function has no return, so some run comes through and the
environment behind it is covered again (`Above`; this needs `IsNested`).

*Restore regions.* `RestoredOnce` is about two walks of one body: the checker's,
over the text with both branches of every if, and the run's, along one of them.
`RestoreInv` compares the heap of the run at statement `pc` with the checker's
record in front of that statement and with the tokens stored so far in the text
(`StoredTokens`). Not every field that points somewhere is an owner yet: a field
that was read into an alias still points to its node until it is overwritten. So a
field *counts* unless its projection is on record as moved and its token has been
stored; a variable *claims* its node while its token names a projection and has not
been stored. `HeldOnce` then says that what counts, or claims, one node has one
name: two fields, a field and a variable, or two variables (`OneEdge`,
`EdgeOrVariable`, `OneToken`); that a root which was not stored hangs nowhere
(`FreshRoots`); and that an alias of a root points to it (`RootAliases`). A store
turns a claim into a field that counts, which is where `StoresOnce` is needed: the
same token again would make a second one, and a variable that is set twice holds
what its token no longer names. The bare property is not inductive: of a graph
that is half rewired it says nothing, and of the end only what the record proves. An
if keeps what either branch moved out (`checkStatement`), so what the run took out
on its branch is on record at the return. There the boundary check does its part: a
moved projection of a returned root that was not overwritten is an error, so every
field of a returned graph counts (`DoneOwns`); a root on record as hanging in
another is not returned, and `StoresOnce` asks for targets that
`incorporationTargetRoot` knows, so that every root stored is on record.

*A check.* A stage that is passed leaves nothing of its kind in what was read:
`Inv` of `PipelineProofs` says, for each place of the program counter, that the
faults among the contents read are those of later stages (`From(n)`), that what
is analysed is what was read, and, for comment packages, that the mirror holds
it, from the last file written to the answer. The last part is where overlapping
checks break the proof. Initial states map to initial states, and every step of
`Pipeline` is a step of `Verdict` or a stutter: reading a source is `Verdict`'s
look at a file or at its buffer, the reports are its answers, and the lowering, the
writing of the mirror, the scan, the load, its retry and every pass that finds
nothing are stutters.

*The bindings.* The tables are built call by call, so the invariant says what is
in each table after the first calls of the text: every entry is the start (or
the line) of a call already visited with the binding that call has, and a call
that stands apart owns its key. Each lookup then finds either the entry of its
own call or none.

*Propagation.* The queue of `connectedComponent` computes, by induction on the
length of walks, the least closed set around a site (`Component` is `ImpliedSet`);
the inductions are on a least counterexample, since sites are finitely many.
`PlanInv` then says that while components are visited, in whatever order, the
plan is that of the sets visited so far. `OneStamp`, `Due` and `Open` speak of a
plan that is half written: no implied set has two stamps, what is implied stands
there or is in a file still to be written, and what is still to be written has
nothing in its place. After a crash no plan is left to speak of; `Diverged`
compares the text with the user's: where they differ (`Apart`), one stamp was
inserted that the user's text asks for, or the set has come to contradict itself.
The last three theorems assume that no two sites share a type expression and that
the package is not checked through the mirror (`OwnTypes`); section 7 says what
happens otherwise. `PlanOfImpliedSets` needs neither.

*Emission.* `GivenIsEmpty` holds of every accepted function because an insertion
stands behind each statement that gives something away and every step out of it
comes past its end (`EmptyInv`, with `GivenInv`: what is on record as given away by
a statement is among the places that statement empties). `OnlyGivenAreEmptied` is
about functions without the three exceptions (`Plainly`): `GoneInv` says that the
check of moves knows of everything given away, and from `Accepted` an emptied
place was owned until its own statement, so `HeldInv` is kept.

*Only model-checked.*

- `Termination` and `EveryCheckEnds`: liveness.
- `AcceptedIsSound` with defers, which holds for the programs of the run and is
  false in general.

## 7. Where code and documentation disagree

Two runs of section 3 violate a property that quotes the documentation;
`PROJECT.json` has the details.

- `siblings`: `fieldAddrPlace` appends the field to the projection of its base,
  a slice that other places share. With three fields in an array of four the
  second field taken overwrites the first, and both places have one key
  ("They distinguish sibling fields", docs/ssa-checker-architecture.md:125).
- `restore_twice`: `x := p.f; p.f = q.f; q.f = x; q.g = x; return p, q` is
  accepted and gives `x` two owners (restore-spec.md:208).

More counterexamples have configurations of their own, so that a change of the
code can be tried against them. Each names one property, and TLC finds it violated
(`tlc -config <cfg> <module>`):

| Configuration | Module | What goes wrong, and what is said |
|---|---|---|
| `MCJoinBorrows.cfg` | `MCMoves` | `equalSSAFunctionState` compares borrows by length and membership; with duplicates a new borrow is lost at a join (docs/ssa-checker-architecture.md:794, "remains live until function exit") |
| `MCRebind.cfg` | `MCMoves` | assigning a new value to a variable leaves its moved fields moved (README.md:312, "can be used again after it is assigned") |
| `MCReturnFrontier.cfg` | `MCMoves` | the list of return places skips results that are not places and is then indexed by the result (docs/ssa-checker-architecture.md:839) |
| `MCDeferOrder.cfg` | `MCPaths` | after a join the deferred groups can be in another order than the defers of the path (docs/ssa-checker-architecture.md:802, "LIFO order") |
| `MCRepeatedMove.cfg` | `MCPaths` | a closure that sends an owned variable, deferred in a loop, is not among the repeated moves (docs/ssa-checker-architecture.md:829) |
| `MCReassigned.cfg` | `MCPaths` | the source of a deferred borrow variable is looked up in a table that holds its last binding (docs/ssa-checker-architecture.md:795) |
| `MCPropComments.cfg` | `MCPropagation` | with comment annotations the stamps are written into the mirror, and undone by the check that follows |
| `MCEmitStray.cfg` | `MCEmission` | a call inside a branch or loop has its argument emptied behind the whole statement, also on paths that did not make the call (docs/ssa_detailed_impl_plan.md:764, docs/ssa-checker-architecture.md:86) |
| `MCClosureLoop.cfg` | `MCClosures` | the body of a loop is walked once: a closure assigned at its end and stored at its start is not reported (docs/ssa-checker-architecture.md:844) |
| `MCOverlap.cfg` | `MCPipeline` | two checks of one package share the mirror directory, and one answers for what the other wrote (COMMENT_PLAN.md:28, "refreshed from the current source") |
| `MCOwnBinding.cfg` | `MCSourceIndex` | in `f(g(x))` the inner instruction can get the binding of the outer call, and a deferred call that of another call on its line |

`MirrorRefreshed` of `CommentMirror`, put in place of `RefreshedUninterrupted` in
`MCMirror.cfg`, shows that a run that stops before it writes the manifest can
leave a lowered file which no later run removes, and which is checked. In the same
way `MovedIsEmpty` of `Emission`, put in place of `MovedIsNil` in
`MCEmission.cfg`, is violated by `for c { x = \new(T); if Take(x) { continue } }`:
the insertion stands behind the branch, which the `continue` does not come past.

Seen in the code while modelling, without a configuration of their own:

- *A check.* In a package of `.gown` sources the buffer of a plain Go file is used
  to compare names and to look for gown comments, and the file on disk is loaded.
  COMMENT_PLAN.md:132 promises no more: it speaks of annotated `.go` files.
- *Propagation.* Two parameters that share a type (`func F(a, b *T)`) share the
  edit: stamping one stamps the other, and what that implies is not planned; the
  passing run leaves them out. When one implied set has a conflict the command
  reports the edits of the others as propagated although it writes none
  (`annotation_transaction.go:163`, `cmd/gown/gown.go:70`).
- *Emission.* `x = Pass(x)` empties the renewed `x`; `x.f = nil` can follow
  `x = nil` and panic. Headers and statements behind the insertion on one line
  are modelled: the first cannot be formatted, the second become a comment.
  `buildEmitSource` is called by the tests only.
- *Places.* Copies and loads hand on a place over the name the syntax gave,
  without a mark of ambiguity (docs/ssa-checker-architecture.md:122); only the
  operand-use checks ask for ambiguity; a phi is visited before the values of its
  back edges.
- *Bindings.* `f(x).g(y)` has one start for both calls, and the inner one wins;
  the end of a call is inclusive, so that `f(x)(y)` can meet the call behind it.
- *Lowering.* A comment behind a signature line belongs to the last field on it,
  where COMMENT_PLAN.md:104 says that an ambiguous target is an error; a signature
  of several lines becomes one line, where COMMENT_PLAN.md:113 promises that line
  numbers stay; `iso; iso` puts two stamps on one type.
- *Restore.* `recordPointerAssignment` tests the right-hand side for a pointer type
  before it tests it for `nil`, and the literal has no pointer type: the case that
  clears a moved projection is never reached. `x := p.f; p.f = nil` is rejected
  when `p` is returned, although restore-spec.md:117 allows the store and
  restore-spec.md:216 asks for no more than an overwrite. Besides `restore_twice`,
  three kinds of regions are accepted and return a node with two owners: a root that
  is stored in itself or below an alias of a projection is not recorded (`p.f = p`;
  `x := p.f; x.f = q; p.f = x; return p, q`); the tokens of locals are not cloned at
  a branch, so a variable set again in one branch has that token on the other
  (`x := p.f; if c { x = q.f }; y := p.f; p.f = x; q.f = y`); and a path of two
  fields names another node once the first was changed (`x := p.f.g; y := q.g`, then
  `p.f` and `q.f` swapped, then `p.f.g = y; q.g = x`).

## 8. What is not modelled

- The one-instruction checkers (send, go, store, return, call borrow), the
  erasure, boundary, clone, swap and channel checks: each looks up ownerstamps of
  its operands and reports. They have no state, and a model would be the rule
  table again, with nothing to check it against. What they look up is modelled.
- Parsing of annotations and their binding to types, reachability, regions and
  creation sites: computations over go/types and go/ast data, whose results are
  inputs here.
- The side tables of the move engine that come from syntax (assignments, field
  initializers, captures) beyond `SSAPlaces` and `SSABindings`: instructions carry
  them. Not covered by `MoveFlow` either: operands whose place is ambiguous, two
  equal successors of one `If`, a defer statement that occurs in two blocks.
- `ValueForExpr` and the order of blocks and instructions, which are go/ssa's.
- In restore regions, boxing into interfaces and calls of packages.
- In lowering, the text of comments, `strip.go`, and positions known only by line
  and column; in emission, the replacement texts of intrinsics and formatting.
- Which sites and edges a package has for propagation, and the detection of the
  stamp that the user changed in a text.
- Options of a load, and the wording of errors remapped from the mirror.
- The AST fallback of the move check: it runs only when no SSA form was built.
- Command lines: text and exit codes, no protocol.
- The Lean developments and theory notes of the repository: they are about the
  language and not about this program.

## 9. Plan

1. Captures of closures: the tables of captured variables that `ClosureEscape`
   and the deferred effects read, from nested literals.
2. The replacement of intrinsics in emission, as edits of the kind
   `CommentLowering` has, checked with the same property.
3. The liveness worklist of named borrows, refining `LiveIn`.
4. Detection of changed stamps in an editor's text (`annotation_transaction.go`),
   with deletions.

Proofs to add: `AcceptedIsSound` for functions whose defer statements are in no
loop and precede every branch, where the groups of a merged state and of a path
are the same.
