----------------------------- MODULE PathCheck -----------------------------
(***************************************************************************)
(* What the engine promises about executions.  Once it has accepted a      *)
(* function (no error reported), a walk follows one path through the       *)
(* function and makes the transfers of MoveFlow along it.  A walk knows    *)
(* what the merged states of the engine can only bound:                    *)
(*   - it takes one successor of each block, so nothing is ever merged;    *)
(*   - defers is Go's own stack: a defer statement executed twice is there *)
(*     twice, and the closures run from the top when the function returns; *)
(*   - table says which place each named borrow was last bound to.         *)
(* A transfer that fails on a walk is a slip: an ownership error that the  *)
(* function commits on that path and that the engine let through.          *)
(***************************************************************************)
EXTENDS MoveFlow

CONSTANTS MaxDefers,   \* walks that stack more defers are not followed
          MaxBorrows   \* nor are walks that hold more borrows

VARIABLES walk,        \* the calls on the path, innermost last
          slips        \* the transfers that failed on it

pathVars == <<vars, walk, slips>>

Frame(fn, st, table) ==
    [fn |-> fn, blk |-> 1, pc |-> 0, todo |-> <<>>, st |-> st, pending |-> NoMove,
     defers |-> <<>>, table |-> table]

PathInit == Init /\ walk = <<>> /\ slips = {}

Top == Last(walk)

\* The top frame with the given change.
Becomes(f) == walk' = [walk EXCEPT ![Len(walk)] = f]

Walking == walk # <<>> /\ UNCHANGED vars

Enter ==
    /\ Done /\ errs = {} /\ walk = <<>>
    /\ walk' = << Frame("main", NewState, [n \in {} |-> 0]) >>
    /\ UNCHANGED <<vars, slips>>

RebindTable(table, i) ==
    LET binds == RecordedBinds(i)
    IN [n \in DOMAIN table \cup {d.name : d \in binds} |->
           IF \E d \in binds : d.name = n
           THEN [source |-> (CHOOSE d \in binds : d.name = n).source, cap |-> RootCap[n]]
           ELSE table[n]]

WalkHeld(f, pc) ==
    IF f.fn # "main" THEN {}
    ELSE {f.table[n].source : n \in DOMAIN f.table \cap
             LiveAfterInstruction(prog.borrows, Body(f), f.blk, pc)}

WalkInstruction ==
    /\ Walking /\ Top.todo = <<>> /\ Top.pc < Len(Block(Top).instrs)
    /\ LET pc == Top.pc + 1
           i  == Block(Top).instrs[pc]
           table == RebindTable(Top.table, i)
       IN Becomes([Top EXCEPT !.pc = pc, !.pending = PendingAfter(i, @), !.table = table,
                              !.todo = Script(i, Top.pending, prog.named, table,
                                              prog.groups, WalkHeld(Top, pc))])
    /\ UNCHANGED slips

TransferOf(s, c, groups) ==
    CASE c.do = "use"              -> checkDebugRefUse(s, c)
      [] c.do = "flow"             -> applyFlowAssignmentTransfer(s, c)
      [] c.do = "assign"           -> applyAssignmentTransfer(s, c)
      [] c.do = "fieldStore"       -> applyCompositeFieldMoveStoreTransfer(s, c)
      [] c.do = "storeFrontier"    -> applyStoreFrontierTransfer(s, c)
      [] c.do = "mapFrontier"      -> applyMapUpdateFrontierTransfer(s, c)
      [] c.do = "transfer"         -> transferValue(s, c)
      [] c.do = "argument"         -> callArgument(s, c)
      [] c.do = "deferredArgument" -> applyDeferredInferredBorrowArgs(s, c)
      [] c.do = "activate"         -> activateDeferredBorrow(s, c)
      [] c.do = "register"         -> recordSourceDeferClosureEffects(s, c)
      [] c.do = "restoreArgument"  -> restoreArgument(s, c)
      [] c.do = "restoreResult"    -> restoreResult(s, c)
      [] c.do = "swap"             -> checkSwapTransferAtPosition(s, c)
      [] c.do = "unsafe"           -> applyUnsafeIntrinsic(s, c)
      [] c.do = "freeze"           -> applyExplicitFreezeIntrinsic(s, c)
      [] c.do = "borrow"           -> checkExplicitBorrowIntrinsic(s, c)
      [] c.do = "returnFrontier"   -> checkReturnFrontierConflicts(s, c)
      [] c.do = "returnValue"      -> returnValue(s, c)
      [] c.do = "returnConflict"   -> checkReturnDeferredConflicts(s, c, groups)
      [] c.do = "effect"           -> applyDeferredEffectAtExit(s, c)

WalkCall ==
    /\ Walking /\ Top.todo # <<>>
    /\ LET c == Head(Top.todo)
           result == TransferOf(Top.st, c, prog.groups)
       IN /\ c.do # "exit"
          /\ c.do = "register" => Len(Top.defers) < MaxDefers
          /\ Becomes([Top EXCEPT !.st = result.st, !.todo = Tail(@),
                 !.defers = IF c.do = "register" THEN Append(@, c.site) ELSE @])
          /\ slips' = slips \cup AtInstruction(result.errs, Top)

Jump ==
    /\ Walking /\ Top.todo = <<>> /\ Top.pc = Len(Block(Top).instrs)
    /\ BagCardinality(Top.st.borrows) <= MaxBorrows
    /\ \E b \in Succs(Body(Top), Top.blk) :
          Becomes([Top EXCEPT !.blk = b, !.pc = 0, !.pending = NoMove])
    /\ UNCHANGED slips

\* At the return the closure deferred last runs first, then the next one.
RunLastDeferred ==
    /\ Walking /\ Top.todo # <<>> /\ Head(Top.todo).do = "exit" /\ Top.defers # <<>>
    /\ LET k == Last(Top.defers)
           effects == prog.groups[k].effects
           popped  == [Top EXCEPT !.defers = Front(@)]
       IN IF prog.groups[k].closure = NoFn
          THEN Becomes([popped EXCEPT !.todo = EffectCalls(prog.groups[k].effects) \o @])
          ELSE walk' = Append([walk EXCEPT ![Len(walk)] = popped],
                              Frame(prog.groups[k].closure,
                                    [Top.st EXCEPT !.deferred = NoDeferred], Top.table))
    /\ UNCHANGED slips

DefersDone ==
    /\ Walking /\ Top.todo # <<>> /\ Head(Top.todo).do = "exit" /\ Top.defers = <<>>
    /\ Becomes([Top EXCEPT !.todo = Tail(@)])
    /\ UNCHANGED slips

LeaveClosure ==
    /\ Walking /\ Len(walk) > 1
    /\ Top.todo = <<>> /\ Top.pc = Len(Block(Top).instrs) /\ Returned(Top)
    /\ LET outer == walk[Len(walk) - 1]
       IN walk' = Append(SubSeq(walk, 1, Len(walk) - 2),
                         [outer EXCEPT !.st = [Top.st EXCEPT !.deferred = outer.st.deferred]])
    /\ UNCHANGED slips

PathNext ==
    \/ Next /\ UNCHANGED <<walk, slips>>
    \/ Enter \/ WalkInstruction \/ WalkCall \/ Jump
    \/ RunLastDeferred \/ DefersDone \/ LeaveClosure

PathSpec == PathInit /\ [][PathNext]_pathVars

---------------------------------------------------------------------------
\* A function the engine accepts commits no ownership error on any path: the
\* merged states miss nothing that happens before, after or around a join.
AcceptedIsSound == slips = {}

---------------------------------------------------------------------------
(* Statements of gown's documentation that the engine does not keep: the   *)
(* findings of the README.                                                 *)

\* "Pending deferred closures are checked in LIFO order"
\* (docs/ssa-checker-architecture.md:802): at a return, the order in which the
\* engine keeps the groups is the order in which the path deferred them.
DeferredInLifoOrder ==
    Len(walk) = 1 /\ Top.todo # <<>> /\ Head(Top.todo).do = "exit" =>
        \A i, j \in DOMAIN Top.defers :
            i < j /\ Top.defers[i] # Top.defers[j] =>
                LET kept == act.out[Top.blk].deferred
                IN kept[Top.defers[i]].at < kept[Top.defers[j]].at

\* "A deferred closure that eventually performs a root \iso move is rejected as
\* a possible repeated move" (docs/ssa-checker-architecture.md:828): no closure
\* of an accepted function fails when the path runs it, again or not.
RepeatedMoveRejected == \A e \in slips : e.fn = "main"

\* "defer use(b) extends the source borrow behind a named \mub or \rob variable
\* b until function exit even if the local variable b is reassigned later"
\* (docs/ssa-checker-architecture.md:794): no move on a path meets a borrow.
BorrowsHeldToExit == \A e \in slips : e.code # "GWN002"
=============================================================================
