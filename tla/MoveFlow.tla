------------------------------ MODULE MoveFlow ------------------------------
(***************************************************************************)
(* The move checker's dataflow engine (ssa_gwn001.go): a worklist over the *)
(* basic blocks of one function, which runs itself again on the body of    *)
(* each deferred closure where the function returns.                       *)
(*                                                                         *)
(* A program is what the checker is given for one function:                *)
(*   named    the function is a declaration, not a literal                 *)
(*   code     the body of the function ("main") and of its closures        *)
(*   groups   for each defer statement, its closure and call effects       *)
(*   borrows  the table of named borrows                                   *)
(*                                                                         *)
(* An activation is one call of runFunctionBody: fn, the worklist (queue), *)
(* the state at the entry of each block reached so far (in) and the exit   *)
(* state (exit, empty before the first return), and where it is: the block *)
(* under way (blk, 0 between blocks), its next instruction (pc), the calls *)
(* still to make for the current one (todo), the state (st) and the staged *)
(* field move (pending).  from and out are history: the state in which a   *)
(* block was last entered and the one in which it was last left.           *)
(***************************************************************************)
EXTENDS Transfers

CONSTANT Programs     \* the functions checked, each with its closures

ASSUME ProgramsAssumption == \A p \in Programs : IsProgram(p)
ASSUME MainAssumption     == "main" \in Fns /\ NoFn \notin Fns

VARIABLES prog,       \* the function being checked
          act,        \* the activation that runs
          callers,    \* the activations that wait for it, innermost last
          errs        \* the errors reported, each once

vars == <<prog, act, callers, errs>>

---------------------------------------------------------------------------
Body(a)  == prog.code[a.fn]
Block(a) == Body(a)[a.blk]

Succs(body, b) == {body[b].succs[k] : k \in DOMAIN body[b].succs}

\* Borrows are known for the function itself, not inside its closures.
Held(a, i) ==
    IF a.fn # "main" THEN {}
    ELSE {prog.borrows[n].source :
              n \in LiveAfterInstruction(prog.borrows, Body(a), a.blk, i)}

Activation(fn, initial) ==
    [fn |-> fn, in |-> [b \in {1} |-> initial], from |-> [b \in {} |-> initial],
     out |-> [b \in {} |-> initial], queue |-> <<1>>, exit |-> {},
     blk |-> 0, pc |-> 0, todo |-> <<>>, st |-> initial, pending |-> NoMove]

Init ==
    /\ prog \in Programs
    /\ act = Activation("main", NewState)
    /\ callers = <<>>
    /\ errs = {}

\* Where an error is reported: at the instruction, or at the head of block b.
AtInstruction(codes, a) == {[code |-> c, fn |-> a.fn, blk |-> a.blk, pc |-> a.pc] : c \in codes}
AtBlock(codes, a, b)    == {[code |-> c, fn |-> a.fn, blk |-> b, pc |-> 0] : c \in codes}

---------------------------------------------------------------------------
(* The worklist of one activation.                                         *)

PopBlock ==
    /\ act.blk = 0 /\ act.queue # <<>>
    /\ LET b == Head(act.queue)
       IN act' = [act EXCEPT !.queue = Tail(@), !.blk = b, !.pc = 0,
                             !.st = act.in[b], !.pending = NoMove,
                             !.from = Put(@, b, act.in[b])]
    /\ UNCHANGED <<prog, callers, errs>>

\* The next instruction of the block: the calls its handler will make.
NextInstruction ==
    /\ act.blk # 0 /\ act.todo = <<>>
    /\ act.pc < Len(Block(act).instrs)
    /\ LET pc == act.pc + 1
           i  == Block(act).instrs[pc]
       IN act' = [act EXCEPT !.pc = pc, !.pending = PendingAfter(i, @),
                             !.todo = Script(i, act.pending, prog.named, prog.borrows,
                                             prog.groups, Held(act, pc))]
    /\ UNCHANGED <<prog, callers, errs>>

Returned(a) == LET instrs == Block(a).instrs
               IN instrs # <<>> /\ Last(instrs).op = "return"

\* The block is over: a return joins the exit state, and the successors are
\* merged one after the other.
EndBlock ==
    /\ act.blk # 0 /\ act.todo = <<>>
    /\ act.pc = Len(Block(act).instrs)
    /\ LET succs == Block(act).succs
       IN act' = [act EXCEPT
              !.out  = Put(@, act.blk, act.st),
              !.exit = IF ~Returned(act) THEN @
                       ELSE IF @ = {} THEN {act.st}
                       ELSE {MergeStates(e, act.st) : e \in @},
              !.todo = [k \in DOMAIN succs |-> [do |-> "merge", succ |-> succs[k]]]
                       \o << [do |-> "leave"] >>]
    /\ errs' = errs \cup
           IF Returned(act)
           THEN UNION {AtBlock(MergeViolations(e, act.st), act, act.blk) : e \in act.exit}
           ELSE {}
    /\ UNCHANGED <<prog, callers>>

Doing(do) == act.todo # <<>> /\ Head(act.todo).do = do

call == Head(act.todo)

Enqueue(queue, b) == IF Contains(queue, b) THEN queue ELSE Append(queue, b)

\* mergeSuccessorState: the first state to reach a block is taken as it is.
VisitSuccessor ==
    /\ Doing("merge") /\ call.succ \notin DOMAIN act.in
    /\ act' = [act EXCEPT !.in = Put(@, call.succ, act.st),
                          !.queue = Enqueue(@, call.succ), !.todo = Tail(@)]
    /\ UNCHANGED <<prog, callers, errs>>

\* Mutant: a successor whose entry changes is not queued again.
MergeWithoutRequeue ==
    /\ Doing("merge") /\ call.succ \in DOMAIN act.in
    /\ act' = [act EXCEPT !.in = [@ EXCEPT ![call.succ] = MergeStates(@, act.st)],
                          !.todo = Tail(@)]
    /\ UNCHANGED <<prog, callers, errs>>

MergeSuccessor ==
    /\ Doing("merge") /\ call.succ \in DOMAIN act.in
    /\ LET existing == act.in[call.succ]
           merged   == MergeStates(existing, act.st)
           changed  == ~EqualStates(existing, merged)
       IN /\ act' = [act EXCEPT
                !.in    = IF changed THEN [@ EXCEPT ![call.succ] = merged] ELSE @,
                !.queue = IF changed THEN Enqueue(@, call.succ) ELSE @,
                !.todo  = Tail(@)]
          /\ errs' = errs \cup AtBlock(MergeViolations(existing, act.st), act, call.succ)
    /\ UNCHANGED <<prog, callers>>

LeaveBlock ==
    /\ Doing("leave")
    /\ act' = [act EXCEPT !.blk = 0, !.todo = Tail(@)]
    /\ UNCHANGED <<prog, callers, errs>>

---------------------------------------------------------------------------
(* The calls of the handlers: each makes one transfer of the state.        *)

Make(do, result) ==
    /\ Doing(do)
    /\ act' = [act EXCEPT !.st = result.st, !.todo = Tail(@)]
    /\ errs' = errs \cup AtInstruction(result.errs, act)
    /\ UNCHANGED <<prog, callers>>

CheckInstructionUse == Make("use", checkDebugRefUse(act.st, call))
FlowAssign          == Make("flow", applyFlowAssignmentTransfer(act.st, call))
Assign              == Make("assign", applyAssignmentTransfer(act.st, call))
FieldStore          == Make("fieldStore", applyCompositeFieldMoveStoreTransfer(act.st, call))
StoreFrontier       == Make("storeFrontier", applyStoreFrontierTransfer(act.st, call))
MapFrontier         == Make("mapFrontier", applyMapUpdateFrontierTransfer(act.st, call))
Transfer            == Make("transfer", transferValue(act.st, call))
CallArgument        == Make("argument", callArgument(act.st, call))
DeferredArgument    == Make("deferredArgument", applyDeferredInferredBorrowArgs(act.st, call))
Activate            == Make("activate", activateDeferredBorrow(act.st, call))
Register            == Make("register", recordSourceDeferClosureEffects(act.st, call))
RestoreArgument     == Make("restoreArgument", restoreArgument(act.st, call))
RestoreResult       == Make("restoreResult", restoreResult(act.st, call))
Swap                == Make("swap", checkSwapTransferAtPosition(act.st, call))
Unsafe              == Make("unsafe", applyUnsafeIntrinsic(act.st, call))
Freeze              == Make("freeze", applyExplicitFreezeIntrinsic(act.st, call))
ExplicitBorrow      == Make("borrow", checkExplicitBorrowIntrinsic(act.st, call))
ReturnFrontier      == Make("returnFrontier", checkReturnFrontierConflicts(act.st, call))
ReturnValue         == Make("returnValue", returnValue(act.st, call))
ReturnConflict      == Make("returnConflict",
                            checkReturnDeferredConflicts(act.st, call, prog.groups))
DeferredEffect      == Make("effect", applyDeferredEffectAtExit(act.st, call))

---------------------------------------------------------------------------
(* At a return the deferred groups run, the one registered last first.     *)

Exit ==
    /\ Doing("exit")
    /\ act' = [act EXCEPT !.todo =
                  << [do |-> "groups", left |-> DOMAIN act.st.deferred] >> \o Tail(@)]
    /\ UNCHANGED <<prog, callers, errs>>

\* Mutant: the group registered first runs first.
Earliest(s, left, k) == \A j \in left : s.deferred[k].at <= s.deferred[j].at

Latest(s, left, k) == \A j \in left : s.deferred[j].at <= s.deferred[k].at

\* The calls left once group k has been dealt with.
WithoutGroup(k) ==
    << [do |-> "groups", left |-> call.left \ {k}] >> \o Tail(act.todo)

EffectCalls(effects) ==
    [j \in DOMAIN effects |->
        [do |-> "effect", place |-> effects[j].place, cap |-> effects[j].cap]]

RefuseRepeatedMove ==
    /\ Doing("groups")
    /\ \E k \in call.left :
          /\ Latest(act.st, call.left, k)
          /\ repeatedDeferredMove(act.st, k, prog.groups)
          /\ act' = [act EXCEPT !.todo = WithoutGroup(k)]
    /\ errs' = errs \cup AtInstruction({"GWN001"}, act)
    /\ UNCHANGED <<prog, callers>>

RunDeferredEffects ==
    /\ Doing("groups")
    /\ \E k \in call.left :
          /\ Latest(act.st, call.left, k)
          /\ ~repeatedDeferredMove(act.st, k, prog.groups)
          /\ prog.groups[k].closure = NoFn
          /\ act' = [act EXCEPT !.todo =
                 EffectCalls(prog.groups[k].effects) \o WithoutGroup(k)]
    /\ UNCHANGED <<prog, callers, errs>>

\* Mutant: initial.Deferred is not set to nil.
InitialKeepsGroups(s) == s

\* The state in which the analysis of a closure's body starts: the one at the
\* return, with no deferred groups of its own yet.
InitialOf(s) == [s EXCEPT !.deferred = NoDeferred]

\* The closure's body is analysed on its own, and the caller waits.
RunDeferredClosure ==
    /\ Doing("groups")
    /\ \E k \in call.left :
          /\ Latest(act.st, call.left, k)
          /\ ~repeatedDeferredMove(act.st, k, prog.groups)
          /\ prog.groups[k].closure # NoFn
          /\ callers' = Append(callers, [act EXCEPT !.todo = WithoutGroup(k)])
          /\ act' = Activation(prog.groups[k].closure, InitialOf(act.st))
    /\ UNCHANGED <<prog, errs>>

NoGroupLeft ==
    /\ Doing("groups") /\ call.left = {}
    /\ act' = [act EXCEPT !.todo = Tail(@)]
    /\ UNCHANGED <<prog, callers, errs>>

BodyDone(a) == a.blk = 0 /\ a.queue = <<>>

\* The caller goes on from the closure's exit state, with its own deferred
\* groups; a closure that never returns changes nothing.
ReturnFromClosure ==
    /\ BodyDone(act) /\ callers # <<>>
    /\ LET a == Last(callers)
       IN act' = [a EXCEPT !.st =
              IF act.exit = {} THEN @
              ELSE [(CHOOSE s \in act.exit : TRUE) EXCEPT !.deferred = a.st.deferred]]
    /\ callers' = Front(callers)
    /\ UNCHANGED <<prog, errs>>

Done == BodyDone(act) /\ callers = <<>>

\* The checker has returned the errors of the function.
Stop == Done /\ UNCHANGED vars

---------------------------------------------------------------------------
WorklistStep == PopBlock \/ NextInstruction \/ EndBlock
                \/ VisitSuccessor \/ MergeSuccessor \/ LeaveBlock

TransferStep ==
    \/ CheckInstructionUse \/ FlowAssign \/ Assign \/ FieldStore
    \/ StoreFrontier \/ MapFrontier \/ Transfer \/ CallArgument
    \/ DeferredArgument \/ Activate \/ Register
    \/ RestoreArgument \/ RestoreResult \/ Swap \/ Unsafe \/ Freeze
    \/ ExplicitBorrow \/ ReturnFrontier \/ ReturnValue \/ ReturnConflict
    \/ DeferredEffect

ExitStep == Exit \/ RefuseRepeatedMove \/ RunDeferredEffects
            \/ RunDeferredClosure \/ NoGroupLeft \/ ReturnFromClosure

Next == WorklistStep \/ TransferStep \/ ExitStep \/ Stop

Spec == Init /\ [][Next]_vars /\ WF_vars(Next)
---------------------------------------------------------------------------
(* What the engine promises.                                               *)

EngineCall == Call \cup [do : {"merge"}, succ : Nat] \cup [do : {"leave"}]

IsActivation(a) ==
    /\ a \in [fn : Fns, in : {a.in}, from : {a.from}, out : {a.out}, queue : Seq(Nat),
              exit : {a.exit}, blk : Nat, pc : Nat, todo : Seq(EngineCall), st : {a.st},
              pending : Pending]
    /\ DOMAIN a.in \subseteq Blocks(Body(a))
    /\ DOMAIN a.from \subseteq DOMAIN a.in /\ DOMAIN a.out \subseteq DOMAIN a.from
    /\ \A b \in DOMAIN a.in : IsState(a.in[b])
    /\ \A b \in DOMAIN a.from : IsState(a.from[b])
    /\ \A b \in DOMAIN a.out : IsState(a.out[b])
    /\ \A s \in a.exit : IsState(s)
    /\ IsState(a.st)
    /\ \A k \in DOMAIN a.queue : a.queue[k] \in DOMAIN a.in
    /\ a.blk \in DOMAIN a.from \cup {0}

Activations == {act} \cup {callers[k] : k \in DOMAIN callers}

\* The defer statements of a body, and the states an activation holds.
DefersIn(body) ==
    {d \in DeferSites : \E b \in DOMAIN body : \E k \in DOMAIN body[b].instrs :
         body[b].instrs[k].op = "defer" /\ body[b].instrs[k].site = d}

StatesOf(a) == {a.st} \cup a.exit \cup {a.in[b] : b \in DOMAIN a.in}
               \cup {a.out[b] : b \in DOMAIN a.out}

OwnGroups(a) == \A s \in StatesOf(a) : DOMAIN s.deferred \subseteq DefersIn(Body(a))

\* The state, the entry states, the worklist and the errors have their types,
\* a block is queued, run or recorded only after a state has reached it, and no
\* activation holds a deferred group of another one's function: a closure that
\* runs at a return takes no group along and brings none back.
TypeOK ==
    /\ \A a \in Activations : IsActivation(a) /\ OwnGroups(a)
    /\ errs \subseteq [code : Codes, fn : Fns, blk : Nat, pc : Nat]

\* The merge of the block under way into its successor b is still to come.
MergePending(a, b) ==
    \E k \in DOMAIN a.todo : a.todo[k].do = "merge" /\ a.todo[k].succ = b

\* What each block of the activation left is covered by the entry states of
\* its successors.
Covered(a) ==
    \A b \in DOMAIN a.out : \A s \in Succs(Body(a), b) :
        \/ b = a.blk /\ MergePending(a, s)
        \/ s \in DOMAIN a.in /\ Covers(a.in[s], a.out[b])

\* Whatever a block leaves reaches the entry of each of its successors,
\* however often blocks were run again and in whatever order: mergeSuccessorState
\* never drops a fact when it decides that a block has not changed.
JoinCovered == \A a \in Activations : Covered(a)

\* A block that is not queued was last run from the state now at its entry.
Fresh(a) ==
    \A b \in DOMAIN a.in :
        \/ Contains(a.queue, b)
        \/ b \in DOMAIN a.from /\ a.from[b] = a.in[b]

\* No change of a block's entry state is lost by the queued flags of
\* runFunctionBody: a block that will not run again has run from its last one.
NoStaleBlock == \A a \in Activations : Fresh(a)

\* Within one activation no entry state takes a fact back.
EntryGrows ==
    callers' = callers =>
        \A b \in DOMAIN act.in : b \in DOMAIN act'.in /\ Covers(act'.in[b], act.in[b])

\* The entry states only lose precision (MergeSSAFunctionStates), which is what
\* makes the loop of runFunctionBody end.
EntryStatesGrow == [][EntryGrows]_vars

\* The worklist of every activation drains, loops and deferred closures
\* included, and the checker reports its errors.
Termination == <>Done

---------------------------------------------------------------------------
(* Statements of gown's documentation that the engine does not keep: the   *)
(* findings of the README.                                                 *)

Returning(b) == LET instrs == Body(act)[b].instrs
                IN instrs # <<>> /\ Last(instrs).op = "return"

\* The mutable borrow that a deferred call takes of its argument "remains live
\* until function exit" (docs/ssa-checker-architecture.md:793): a borrow held
\* at the end of a block is held at the start of its successors.
JoinKeepsBorrows ==
    Done /\ errs = {} =>
        \A b \in DOMAIN act.out : \A s \in Succs(Body(act), b) :
            BagToSet(act.out[b].borrows) \subseteq BagToSet(act.in[s].borrows)

\* An assignment that is accepted leaves its destination usable.
Restored ==
    Assign /\ applyAssignmentTransfer(act.st, call).errs = {}
        => ~CheckUse(act'.st, call.dst)

\* "A moved variable can be used again after it is assigned a fresh valid
\* value" (README.md:312), fields moved before included.
RebindRestores == [][Restored]_vars

\* A place whose proof has ended is not returned as a tracked result
\* (docs/ssa-checker-architecture.md:839).
FrontieredReturnRejected ==
    Done /\ errs = {} =>
        \A b \in DOMAIN act.out :
            Returning(b) /\ act.out[b].deferred = NoDeferred =>
                \A k \in DOMAIN Last(Body(act)[b].instrs).results :
                    LET r == Last(Body(act)[b].instrs).results[k]
                    IN capTracked(r.want) /\ r.place # NoPlace
                           => ~CheckFrontier(act.out[b], r.place)
=============================================================================
