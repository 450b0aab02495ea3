----------------------------- MODULE Transfers -----------------------------
(***************************************************************************)
(* The transfer functions of the move checker (ssa_gwn001.go): what each   *)
(* call that an instruction's handler makes does to the state, and what it *)
(* reports.                                                                *)
(*                                                                         *)
(* A handler is a loop over the arguments, captures, cases or results of   *)
(* its instruction.  Script lists the calls it makes, in order, each as a  *)
(* record whose field do names the operator below that models the callee;  *)
(* the engine (MoveFlow) executes them one by one.  An expression that is  *)
(* not a place is NoPlace.                                                 *)
(*                                                                         *)
(* held is the set of source places whose named borrow is live after the   *)
(* instruction.                                                            *)
(***************************************************************************)
EXTENDS OwnerState, NamedBorrows

CONSTANT Fns          \* "main", the function checked, and its closures

NoFn   == "none"
NoMove == [cap |-> "none"]

---------------------------------------------------------------------------
(* Instructions, as the checker's side tables describe them, and programs. *)

Argument == [cap : Caps, place : OptionalPlace]
Value    == [cap : Caps, fresh : BOOLEAN, place : OptionalPlace]
Case     == [place : OptionalPlace, chan : Caps]
Result   == [want : Caps, cap : Caps, fresh : BOOLEAN, place : OptionalPlace]
Bind     == [name : Roots, source : OptionalPlace]

Instruction ==
    [op : {"use"}, place : OptionalPlace, span : BOOLEAN, binds : SUBSET Bind]
    \cup [op : {"stage"}, cap : Caps, value : Value]
    \cup [op : {"flow"}, dst : Place, cap : Caps]
    \cup [op : {"assign"}, dst : Place, value : Value]
    \cup [op : {"store"}, value : OptionalPlace, target : OptionalPlace, indexed : BOOLEAN]
    \cup [op : {"map", "unsafe"}, place : OptionalPlace]
    \cup [op : {"send"}, place : OptionalPlace, chan : Caps]
    \cup [op : {"select"}, cases : Seq(Case)]
    \cup [op : {"call"}, args : Seq(Argument)]
    \cup [op : {"go"}, args : Seq(Argument), captures : Seq(OptionalPlace)]
    \cup [op : {"defer"}, args : Seq(Argument), touches : Seq(Roots), site : DeferSites]
    \cup [op : {"restore"}, args : Seq(Argument), lhs : Seq(OptionalPlace)]
    \cup [op : {"swap"}, auto : BOOLEAN, left : OptionalPlace, right : OptionalPlace]
    \cup [op : {"freeze"}, place : OptionalPlace, result : Caps \cup {"none"}]
    \cup [op : {"borrow"}, place : OptionalPlace, cap : BorrowCaps]
    \cup [op : {"return"}, results : Seq(Result)]

Pending == {NoMove} \cup [cap : Caps, value : Value]
Kinds   == {"call", "go", "defer"}

BasicBlock == [instrs : Seq(Instruction), succs : Seq(Nat)]
Group      == [closure : Fns \cup {NoFn},
               effects : Seq([cap : {"iso", "mub", "rob"}, place : Place])]

IsProgram(p) ==
    /\ p.named \in BOOLEAN
    /\ p.code \in [Fns -> Seq(BasicBlock)]
    /\ \A f \in Fns : /\ p.code[f] # <<>>
                      /\ \A b \in DOMAIN p.code[f] : \A k \in DOMAIN p.code[f][b].succs :
                             p.code[f][b].succs[k] \in DOMAIN p.code[f]
    /\ p.groups \in [DeferSites -> Group]
    /\ DOMAIN p.borrows \subseteq Roots
    /\ \A n \in DOMAIN p.borrows : p.borrows[n] \in [source : Place, cap : BorrowCaps]

NamedBorrowBlocks(held, p) == \E q \in held : Overlaps(q, p)

---------------------------------------------------------------------------
(* Uses.                                                                   *)

\* span: the expression lies inside a projection of the same variable whose
\* ownerstamp is \imm.
allowsMovedRebindUse(s, p, span) ==
    \/ p.path # <<>> /\ EffectivePlaceCap(p) = "imm"
    \/ span /\ CheckUse(s, RootOf(p))

checkDebugRefUse(s, c) ==
    IF /\ c.place # NoPlace
       /\ CheckUse(s, c.place)
       /\ ~allowsMovedRebindUse(s, c.place, c.span)
    THEN Failed(s, "GWN001") ELSE Passed(s)

---------------------------------------------------------------------------
(* Moving a place out.                                                     *)

consumeRootAtInstruction(s, p, held) ==
    IF CheckFrontier(s, p) THEN Failed(s, "GWN012")
    ELSE IF p.path = <<>> /\ NamedBorrowBlocks(held, p) THEN Failed(s, "GWN002")
    ELSE ConsumeRoot(s, p)

consumePlaceAtInstruction(s, p, held) ==
    IF CheckFrontier(s, p) THEN Failed(s, "GWN012")
    ELSE IF NamedBorrowBlocks(held, p) THEN Failed(s, "GWN002")
    ELSE ConsumePlace(s, p)

\* An ordinary call of a declared function may move a field out.
consumeCallArgumentAtInstruction(s, p, c) ==
    IF p.path = <<>> \/ c.kind # "call" \/ ~c.named
    THEN consumeRootAtInstruction(s, p, c.held)
    ELSE consumePlaceAtInstruction(s, p, c.held)

\* Sends, select cases and the captures of a go closure.
transferValue(s, c) ==
    IF c.place # NoPlace /\ placeCanTransferAsIso(c.place)
    THEN consumeRootAtInstruction(s, c.place, c.held)
    ELSE Passed(s)

---------------------------------------------------------------------------
(* Assignments, field initializers and stores.                             *)

\* An untracked local may hold an ownerstamp it received on this path.
valueWithFlowValue(s, value) ==
    IF /\ ~capTracked(value.cap)
       /\ value.place # NoPlace
       /\ capTracked(FlowValue(s, value.place))
    THEN [value EXCEPT !.cap = FlowValue(s, value.place), !.fresh = FALSE]
    ELSE value

placeCanTransferAsIsoInState(s, p) ==
    placeCanTransferAsIso(p) \/ FlowValue(s, p) = "iso"

\* The checks before the source of an assignment is consumed.
moveSource(s, p, held) ==
    IF CheckFrontier(s, p) THEN Failed(s, "GWN012")
    ELSE IF CheckUse(s, p) THEN Failed(s, "GWN001")
    ELSE IF NamedBorrowBlocks(held, p) THEN Failed(s, "GWN002")
    ELSE ConsumeRoot(s, p)

Rebound(s, dst) == UnfrontierRoot(UnconsumeRoot(s, dst), dst)

applyFlowAssignmentTransfer(s, c) ==
    Passed(SetFlowValue(ClearFlowValue(Rebound(s, c.dst), c.dst), c.dst, c.cap))

applyAssignmentTransfer(s, c) ==
    LET value == valueWithFlowValue(s, c.value)
        moved == moveSource(s, value.place, c.held)
    IN IF value.cap # "iso" THEN Failed(s, "GWN010")
       ELSE IF value.fresh THEN Passed(Rebound(s, c.dst))
       ELSE IF value.place = NoPlace \/ ~placeCanTransferAsIsoInState(s, value.place)
            THEN Failed(s, "GWN010")
       ELSE IF moved.errs # {} THEN moved
       ELSE Passed(Rebound(moved.st, c.dst))

\* The store of a composite literal's field, whose value a DebugRef staged.
applyCompositeFieldMoveStoreTransfer(s, c) ==
    LET value == valueWithFlowValue(s, c.move.value)
    IN IF /\ c.move # NoMove
          /\ c.move.cap \in {"iso", "imm"}
          /\ ~value.fresh /\ value.cap = "iso"
          /\ value.place # NoPlace /\ value.place = c.place
          /\ placeCanTransferAsIsoInState(s, value.place)
       THEN moveSource(s, value.place, c.held)
       ELSE Passed(s)

applyStoreFrontierTransfer(s, c) ==
    IF /\ c.place # NoPlace /\ placeCanTransferAsIso(c.place)
       /\ c.target # NoPlace /\ ssaStoreTargetEscapes(c.target, c.indexed)
    THEN Passed(EnterFrontier(s, c.place)) ELSE Passed(s)

applyMapUpdateFrontierTransfer(s, c) ==
    IF c.place # NoPlace /\ placeCanTransferAsIso(c.place)
    THEN Passed(EnterFrontier(s, c.place)) ELSE Passed(s)

---------------------------------------------------------------------------
(* Intrinsics.                                                             *)

applyUnsafeIntrinsic(s, c) ==
    IF c.place # NoPlace /\ capTracked(EffectivePlaceCap(c.place))
    THEN Passed(EnterFrontier(s, c.place)) ELSE Passed(s)

\* result is the ownerstamp of the variable \freeze assigns, "none" without.
applyExplicitFreezeIntrinsic(s, c) ==
    IF c.place = NoPlace \/ EffectivePlaceCap(c.place) = "imm" THEN Passed(s)
    ELSE IF ~placeCanTransferAsIso(c.place) THEN Failed(s, "GWN010")
    ELSE IF c.result \notin {"none", "imm"} THEN Passed(s)
    ELSE consumeRootAtInstruction(s, c.place, c.held)

checkExplicitBorrowIntrinsic(s, c) ==
    IF c.place = NoPlace THEN Passed(s)
    ELSE IF CheckFrontier(s, c.place) THEN Failed(s, "GWN012")
    ELSE IF namedBorrowSourceAllowed(c.cap, c.place) THEN Passed(s)
    ELSE Failed(s, "GWN010")

\* A swap exchanges two valid values: nothing changes, the first side that
\* is not valid is reported.
checkSwapTransferAtPosition(s, c) ==
    LET reported(p) == IF p = NoPlace THEN {}
                       ELSE IF CheckFrontier(s, p) THEN {"GWN012"}
                       ELSE IF CheckUse(s, p) THEN {"GWN001"}
                       ELSE IF NamedBorrowBlocks(c.held, p) THEN {"GWN002"}
                       ELSE {}
    IN [st |-> s, errs |-> IF reported(c.left) # {} THEN reported(c.left)
                           ELSE reported(c.right)]

restoreArgument(s, c) ==
    IF c.place # NoPlace THEN consumeRootAtInstruction(s, c.place, c.held)
    ELSE Passed(s)

restoreResult(s, c) ==
    IF c.place # NoPlace /\ c.place.path = <<>>
    THEN Passed(SetFlowValue(Rebound(s, c.place), c.place, "iso"))
    ELSE Passed(s)

---------------------------------------------------------------------------
(* Calls.                                                                  *)

applyTemporaryBorrow(s, p, cap) ==
    IF CheckFrontier(s, p) THEN Failed(s, "GWN012")
    ELSE IF BeginBorrow(s, p, cap).errs # {} THEN BeginBorrow(s, p, cap)
    ELSE Passed(EndBorrow(BeginBorrow(s, p, cap).st, p, cap))

callArgument(s, c) ==
    IF c.place = NoPlace THEN Passed(s)
    ELSE IF c.cap = "iso" /\ placeCanTransferAsIso(c.place)
         THEN consumeCallArgumentAtInstruction(s, c.place, c)
    ELSE IF c.cap \in BorrowCaps THEN applyTemporaryBorrow(s, c.place, c.cap)
    ELSE Passed(s)

\* The argument of a deferred call is borrowed until the function exits.
applyDeferredInferredBorrowArgs(s, c) ==
    IF c.place = NoPlace THEN Passed(s) ELSE BeginBorrow(s, c.place, c.cap)

activateDeferredBorrow(s, c) ==
    IF c.place = NoPlace \/ HasBorrow(s, c.place, c.cap) THEN Passed(s)
    ELSE BeginBorrow(s, c.place, c.cap)

recordSourceDeferClosureEffects(s, c) == Passed(AddDeferred(s, c.site))

---------------------------------------------------------------------------
(* Returns.  groups says, for each defer statement, the closure that runs  *)
(* at exit and the call effects found in the source of its literal.        *)

\* The places of the results that are places, in order: collectSSAReturnPlaces
\* leaves the others out, so that later ones move up.
ReturnPlaces(results) ==
    SelectSeq([k \in DOMAIN results |-> results[k].place], LAMBDA p : p # NoPlace)

returnFrontierPlace(results, k) ==
    IF k <= Len(ReturnPlaces(results)) THEN ReturnPlaces(results)[k]
    ELSE results[k].place

checkReturnFrontierConflicts(s, c) ==
    IF \E k \in DOMAIN c.results :
          /\ capTracked(c.results[k].want)
          /\ returnFrontierPlace(c.results, k) # NoPlace
          /\ CheckFrontier(s, returnFrontierPlace(c.results, k))
    THEN Failed(s, "GWN012") ELSE Passed(s)

returnValue(s, c) ==
    IF c.want \notin {"iso", "imm"} \/ (c.want = "imm" /\ c.cap = "imm") THEN Passed(s)
    ELSE IF c.cap = "invalid" THEN Passed(s)
    ELSE IF c.cap # "iso" THEN Failed(s, "GWN010")
    ELSE IF c.fresh \/ c.place = NoPlace THEN Passed(s)
    ELSE consumeRootAtInstruction(s, c.place, c.held)

CallEffects(i) ==
    IF i.op \notin {"call", "go", "defer"} THEN <<>>
    ELSE SelectSeq(i.args, LAMBDA a : /\ a.cap \in {"iso", "mub", "rob"}
                                      /\ a.place # NoPlace
                                      /\ a.cap = "iso" => placeCanTransferAsIso(a.place))

\* The effects of the calls in a closure literal, in source order.  Sends and
\* other statements of the literal leave none.
collectDeferredClosureEffects(body) ==
    FlattenSeq([b \in DOMAIN body |->
        FlattenSeq([k \in DOMAIN body[b].instrs |-> CallEffects(body[b].instrs[k])])])

EffectsAt(groups, k) == {groups[k].effects[j] : j \in DOMAIN groups[k].effects}

checkReturnDeferredConflicts(s, c, groups) ==
    IF \E k \in DOMAIN c.results, d \in DOMAIN s.deferred :
          /\ c.results[k].place # NoPlace
          /\ \E e \in EffectsAt(groups, d) : Overlaps(c.results[k].place, e.place)
    THEN Failed(s, "GWN001") ELSE Passed(s)

\* Only the call effects are looked at, and of these the moves of variables.
repeatedDeferredMove(s, d, groups) ==
    /\ s.deferred[d].repeat
    /\ \E e \in EffectsAt(groups, d) : e.cap = "iso" /\ e.place.path = <<>>

applyDeferredEffectAtExit(s, c) ==
    IF c.cap = "iso" THEN ConsumeRoot(s, c.place)
    ELSE IF BeginBorrow(s, c.place, c.cap).errs # {} THEN BeginBorrow(s, c.place, c.cap)
    ELSE Passed(EndBorrow(BeginBorrow(s, c.place, c.cap).st, c.place, c.cap))

---------------------------------------------------------------------------
(* The calls that the handler of each instruction makes.                   *)

Use(p, span) == [do |-> "use", place |-> p, span |-> span]

ArgumentCalls(i, kind, named, held) ==
    [k \in DOMAIN i.args |->
        [do |-> "argument", place |-> i.args[k].place, cap |-> i.args[k].cap,
         kind |-> kind, named |-> named, held |-> held]]

CaptureCalls(i, held) ==
    [k \in DOMAIN i.captures |->
        [do |-> "transfer", place |-> i.captures[k], held |-> held]]

\* A case that does not move, or moves what an earlier case moves, is skipped.
SelectCalls(i, held) ==
    LET moves(k) == i.cases[k].chan \in {"iso", "imm"}
        first(k) == \A j \in DOMAIN i.cases :
                        j < k /\ moves(j) => i.cases[j].place # i.cases[k].place
    IN [k \in DOMAIN i.cases |->
           [do |-> "transfer", held |-> held,
            place |-> IF moves(k) /\ first(k) THEN i.cases[k].place ELSE NoPlace]]

DeferredArgumentCalls(i) ==
    [k \in DOMAIN i.args |->
        [do |-> "deferredArgument", place |-> i.args[k].place, cap |-> i.args[k].cap]]

\* The named borrows among the arguments and the captures of a defer.
ActivateCalls(i, table) ==
    [k \in DOMAIN i.touches |->
        IF i.touches[k] \in DOMAIN table
        THEN [do |-> "activate", place |-> table[i.touches[k]].source,
              cap |-> table[i.touches[k]].cap]
        ELSE [do |-> "activate", place |-> NoPlace, cap |-> "rob"]]

RegisterCalls(i, groups) ==
    IF groups[i.site].closure = NoFn /\ groups[i.site].effects = <<>> THEN <<>>
    ELSE << [do |-> "register", site |-> i.site] >>

RestoreCalls(i, held) ==
    [k \in DOMAIN i.args |->
        [do |-> "restoreArgument", held |-> held,
         place |-> IF i.args[k].cap = "iso" THEN i.args[k].place ELSE NoPlace]]
    \o [k \in DOMAIN i.lhs |-> [do |-> "restoreResult", place |-> i.lhs[k]]]

StoreCalls(i, pending, held) ==
    << Use(i.value, FALSE) >>
    \o (IF i.target.path = <<>> /\ ~i.indexed THEN <<>> ELSE << Use(i.target, FALSE) >>)
    \o << [do |-> "fieldStore", move |-> pending, place |-> i.value, held |-> held],
          [do |-> "storeFrontier", place |-> i.value, target |-> i.target,
           indexed |-> i.indexed] >>

ReturnCalls(i, held) ==
    << [do |-> "returnFrontier", results |-> i.results] >>
    \o [k \in DOMAIN i.results |->
           [do |-> "returnValue", want |-> i.results[k].want, cap |-> i.results[k].cap,
            fresh |-> i.results[k].fresh, place |-> i.results[k].place, held |-> held]]
    \o << [do |-> "returnConflict", results |-> i.results], [do |-> "exit"] >>

Call ==
    [do : {"use"}, place : OptionalPlace, span : BOOLEAN]
    \cup [do : {"flow"}, dst : Place, cap : Caps]
    \cup [do : {"assign"}, dst : Place, value : Value, held : SUBSET Place]
    \cup [do : {"fieldStore"}, move : Pending, place : OptionalPlace, held : SUBSET Place]
    \cup [do : {"storeFrontier"}, place : OptionalPlace, target : OptionalPlace,
          indexed : BOOLEAN]
    \cup [do : {"mapFrontier", "unsafe", "restoreResult"}, place : OptionalPlace]
    \cup [do : {"transfer", "restoreArgument"}, place : OptionalPlace, held : SUBSET Place]
    \cup [do : {"argument"}, place : OptionalPlace, cap : Caps, kind : Kinds,
          named : BOOLEAN, held : SUBSET Place]
    \cup [do : {"deferredArgument"}, place : OptionalPlace, cap : Caps]
    \cup [do : {"activate"}, place : OptionalPlace, cap : BorrowCaps]
    \cup [do : {"register"}, site : DeferSites]
    \cup [do : {"swap"}, left : OptionalPlace, right : OptionalPlace, held : SUBSET Place]
    \cup [do : {"freeze"}, place : OptionalPlace, result : Caps \cup {"none"},
          held : SUBSET Place]
    \cup [do : {"borrow"}, place : OptionalPlace, cap : BorrowCaps]
    \cup [do : {"returnFrontier", "returnConflict"}, results : Seq(Result)]
    \cup [do : {"returnValue"}, want : Caps, cap : Caps, fresh : BOOLEAN,
          place : OptionalPlace, held : SUBSET Place]
    \cup [do : {"exit"}]
    \cup [do : {"groups"}, left : SUBSET DeferSites]
    \cup [do : {"effect"}, place : Place, cap : {"iso", "mub", "rob"}]

Script(i, pending, named, table, groups, held) ==
    CASE i.op = "use"      -> << Use(i.place, i.span) >>
      [] i.op = "stage"    -> <<>>
      [] i.op = "flow"     -> << [do |-> "flow", dst |-> i.dst, cap |-> i.cap] >>
      [] i.op = "assign"   -> << [do |-> "assign", dst |-> i.dst, value |-> i.value,
                                  held |-> held] >>
      [] i.op = "store"    -> StoreCalls(i, pending, held)
      [] i.op = "map"      -> << Use(i.place, FALSE),
                                 [do |-> "mapFrontier", place |-> i.place] >>
      [] i.op = "send"     -> IF i.chan \in {"iso", "imm"}
                              THEN << [do |-> "transfer", place |-> i.place,
                                       held |-> held] >>
                              ELSE <<>>
      [] i.op = "select"   -> SelectCalls(i, held)
      [] i.op = "call"     -> ArgumentCalls(i, "call", named, held)
      [] i.op = "go"       -> ArgumentCalls(i, "go", named, held) \o CaptureCalls(i, held)
      [] i.op = "defer"    -> ArgumentCalls(i, "defer", named, held)
                              \o DeferredArgumentCalls(i)
                              \o ActivateCalls(i, table)
                              \o RegisterCalls(i, groups)
      [] i.op = "restore"  -> RestoreCalls(i, held)
      [] i.op = "swap"     -> << [do |-> "swap", left |-> i.left, right |-> i.right,
                                  held |-> held] >>
      [] i.op = "unsafe"   -> << [do |-> "unsafe", place |-> i.place] >>
      [] i.op = "freeze"   -> << [do |-> "freeze", place |-> i.place,
                                  result |-> i.result, held |-> held] >>
      [] i.op = "borrow"   -> << [do |-> "borrow", place |-> i.place, cap |-> i.cap] >>
      [] i.op = "return"   -> ReturnCalls(i, held)

\* The composite literal's field staged by a DebugRef stays pending for the
\* store that follows; an automatic swap leaves it alone.
PendingAfter(i, pending) ==
    CASE i.op = "stage" -> [cap |-> i.cap, value |-> i.value]
      [] i.op = "swap" /\ i.auto -> pending
      [] OTHER -> NoMove
=============================================================================
