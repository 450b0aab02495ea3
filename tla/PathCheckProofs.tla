--------------------------- MODULE PathCheckProofs ---------------------------
(***************************************************************************)
(* The engine keeps its promises for every function, and it is sound for   *)
(* functions without defer: a function it accepts commits no ownership     *)
(* error on any path through it.                                           *)
(*                                                                         *)
(* The first part is about the engine alone.  The operations of            *)
(* SSAFunctionState keep the type of a state, and a merge covers both of   *)
(* the states it merges; every transfer function takes a state to a state  *)
(* and reports known codes.  With them no join and no re-run of a block    *)
(* loses what a predecessor left.                                          *)
(*                                                                         *)
(* The second part follows a walk's state by the state of the engine at    *)
(* the same point of the same block.  A transfer which the engine's state  *)
(* accepts is accepted by every state it follows, and it still follows     *)
(* afterwards.  The third part finds the engine's state: what the engine   *)
(* did in each block, from the entry it was last run from, is a set of     *)
(* configurations closed under its own steps.  The last part keeps the     *)
(* deferred groups of a function and of the closures it defers apart.      *)
(***************************************************************************)
EXTENDS PathCheck, FiniteSetTheorems, TLAPS

---------------------------------------------------------------------------
(* States.                                                                 *)

(* Places overlap in both directions or in none (PlaceKey.Overlaps).       *)
LEMMA OverlapsSymmetric ==
    ASSUME NEW p, NEW q
    PROVE  Overlaps(p, q) <=> Overlaps(q, p)
BY DEF Overlaps

(* The state at the entry of a function is one.                            *)
LEMMA NewStateType == IsState(NewState)
BY CapsAssumption DEF IsState, NewState, NoDeferred, EmptyBag, SetToBag, Caps

(* A bag with one more element is still a bag of borrows.                  *)
LEMMA BorrowAdded ==
    ASSUME NEW B, NEW b \in Borrow,
           DOMAIN B \subseteq Borrow,
           \A x \in DOMAIN B : B[x] \in Nat \ {0}
    PROVE  LET C == B (+) SetToBag({b})
           IN /\ DOMAIN C \subseteq Borrow
              /\ \A x \in DOMAIN C : C[x] \in Nat \ {0}
BY DEF (+), SetToBag

(* A bag with one element less is still a bag of borrows (EndBorrow).    *)
LEMMA BorrowRemoved ==
    ASSUME NEW B, NEW b,
           DOMAIN B \subseteq Borrow,
           \A x \in DOMAIN B : B[x] \in Nat \ {0}
    PROVE  LET C == B (-) SetToBag({b})
           IN /\ DOMAIN C \subseteq Borrow
              /\ \A x \in DOMAIN C : C[x] \in Nat \ {0}
BY DEF (-), SetToBag

---------------------------------------------------------------------------
(* The operations on moves, frontiers, flow values and borrows.            *)

(* Moving, rebinding and ending a proof keep the type of the state.      *)
LEMMA MovesType ==
    ASSUME NEW s, IsState(s), NEW p \in Place
    PROVE  /\ IsState(UnconsumeRoot(s, p))
           /\ IsState(UnfrontierRoot(s, p))
           /\ IsState(EnterFrontier(s, p))
           /\ IsState(ClearFlowValue(s, p))
           /\ IsState([s EXCEPT !.consumed = @ \cup {p}])
BY DEF IsState, UnconsumeRoot, UnfrontierRoot, EnterFrontier, ClearFlowValue, Caps, Place

(* So does a flow value received on the path (SetFlowValue).             *)
LEMMA FlowType ==
    ASSUME NEW s, IsState(s), NEW p \in Place, NEW c \in Caps
    PROVE  IsState(SetFlowValue(s, p, c))
BY DEF IsState, SetFlowValue, Place

(* So do the begin and the end of a borrow (BeginBorrow, EndBorrow).     *)
LEMMA BorrowsType ==
    ASSUME NEW s, IsState(s), NEW p \in Place, NEW c
    PROVE  /\ IsState(EndBorrow(s, p, c))
           /\ IsState(BeginBorrow(s, p, c).st)
           /\ BeginBorrow(s, p, c).errs \subseteq Codes
<1> DEFINE b == [place |-> p, cap |-> c]
<1>1. IsState(EndBorrow(s, p, c))
  <2> DEFINE B == s.borrows (-) SetToBag({b})
  <2>1. DOMAIN B \subseteq Borrow /\ \A x \in DOMAIN B : B[x] \in Nat \ {0}
    BY BorrowRemoved DEF IsState
  <2>2. EndBorrow(s, p, c) = [s EXCEPT !.borrows = B]
    BY DEF EndBorrow
  <2> HIDE DEF B
  <2> QED BY <2>1, <2>2 DEF IsState
<1>2. CASE c \in BorrowCaps
  <2> DEFINE B == s.borrows (+) SetToBag({b})
  <2>1. b \in Borrow
    BY <1>2 DEF Borrow
  <2>2. DOMAIN B \subseteq Borrow /\ \A x \in DOMAIN B : B[x] \in Nat \ {0}
    BY <2>1, BorrowAdded DEF IsState
  <2>3. \/ BeginBorrow(s, p, c) = Passed([s EXCEPT !.borrows = B])
        \/ BeginBorrow(s, p, c) = Failed(s, "GWN001")
        \/ BeginBorrow(s, p, c) = Failed(s, "GWN002")
    BY <1>2 DEF BeginBorrow
  <2> HIDE DEF B
  <2>4. IsState([s EXCEPT !.borrows = B])
    BY <2>2 DEF IsState
  <2> QED BY <1>1, <2>3, <2>4 DEF Passed, Failed, Codes
<1>3. CASE c \notin BorrowCaps
  BY <1>1, <1>3 DEF BeginBorrow, Passed
<1> QED BY <1>2, <1>3

(* So does a move, and what it reports is a code (ConsumePlace).         *)
LEMMA ConsumeType ==
    ASSUME NEW s, IsState(s), NEW p \in Place
    PROVE  /\ IsState(ConsumePlace(s, p).st) /\ ConsumePlace(s, p).errs \subseteq Codes
           /\ IsState(ConsumeRoot(s, p).st) /\ ConsumeRoot(s, p).errs \subseteq Codes
BY MovesType DEF ConsumePlace, ConsumeRoot, Passed, Failed, Codes

---------------------------------------------------------------------------
(* Deferred groups: positions stay positive numbers.                       *)

(* The deferred groups of a state are finite in number.                  *)
LEMMA DeferredFinite ==
    ASSUME NEW s, IsState(s)
    PROVE  /\ IsFiniteSet(DOMAIN s.deferred)
           /\ Cardinality(DOMAIN s.deferred) \in Nat
BY DeferSitesAssumption, FS_Subset, FS_CardinalityType DEF IsState

(* Registering a deferred closure keeps the type of the state.           *)
LEMMA AddDeferredType ==
    ASSUME NEW s, IsState(s), NEW site \in DeferSites
    PROVE  IsState(AddDeferred(s, site))
<1> DEFINE D == DOMAIN s.deferred
           first == [at |-> Cardinality(D) + 1, repeat |-> FALSE]
           new == Put(s.deferred, site, first)
           again == [s.deferred EXCEPT ![site].repeat = TRUE]
<1>1. first \in Deferral
  BY DeferredFinite DEF Deferral
<1>2. DOMAIN new \subseteq DeferSites /\ \A k \in DOMAIN new : new[k] \in Deferral
  <2> HIDE DEF first
  <2> QED BY <1>1 DEF IsState, Put
<1>3. site \in D => DOMAIN again \subseteq DeferSites
                    /\ \A k \in DOMAIN again : again[k] \in Deferral
  BY DEF IsState, Deferral
<1>4. AddDeferred(s, site) = [s EXCEPT !.deferred = IF site \in D THEN again ELSE new]
  BY DEF AddDeferred, IsState
<1> HIDE DEF new, again
<1> QED BY <1>2, <1>3, <1>4 DEF IsState

(* The merged groups have positions again (addMergedDeferred).           *)
LEMMA MergeDeferredType ==
    ASSUME NEW s, IsState(s), NEW t, IsState(t)
    PROVE  LET m == MergeDeferred(s.deferred, t.deferred)
           IN /\ DOMAIN m = DOMAIN s.deferred \cup DOMAIN t.deferred
              /\ \A k \in DOMAIN m : m[k] \in Deferral
<1> DEFINE l == s.deferred
           r == t.deferred
           fresh == DOMAIN r \ DOMAIN l
           before(k) == {j \in fresh : r[j].at <= r[k].at}
           m == MergeDeferred(l, r)
<1>1. IsFiniteSet(fresh) /\ Cardinality(DOMAIN l) \in Nat
  BY DeferredFinite, FS_Subset
<1>2. ASSUME NEW k \in fresh
      PROVE  Cardinality(before(k)) \in Nat \ {0}
  <2>1. before(k) \in SUBSET fresh /\ k \in before(k)
    BY DEF IsState, Deferral
  <2>2. IsFiniteSet(before(k))
    BY <1>1, <2>1, FS_Subset
  <2> QED BY <2>1, <2>2, FS_CardinalityType, FS_EmptySet
<1>3. DOMAIN m = DOMAIN l \cup DOMAIN r
  BY DEF MergeDeferred
<1>4. ASSUME NEW k \in DOMAIN m
      PROVE  m[k] \in Deferral
  <2>1. CASE k \in fresh
    <3>1. m[k] = [at |-> Cardinality(DOMAIN l) + Cardinality(before(k)),
                  repeat |-> r[k].repeat]
      BY <2>1 DEF MergeDeferred
    <3> QED BY <3>1, <2>1, <1>1, <1>2 DEF IsState, Deferral
  <2>2. CASE k \in DOMAIN l
    <3>1. m[k] = [l[k] EXCEPT !.repeat = @ \/ (k \in DOMAIN r /\ r[k].repeat)]
      BY <2>2 DEF MergeDeferred
    <3> QED BY <3>1, <2>2 DEF IsState, Deferral
  <2> QED BY <2>1, <2>2, <1>3
<1> QED BY <1>3, <1>4

---------------------------------------------------------------------------
(* Merging.                                                                *)

(* The merge of two states is a state (MergeSSAFunctionStates).          *)
LEMMA MergeType ==
    ASSUME NEW s, IsState(s), NEW t, IsState(t)
    PROVE  IsState(MergeStates(s, t)) /\ MergeViolations(s, t) \subseteq Codes
<1> DEFINE m == MergeStates(s, t)
<1>1. m.flow \in [Roots -> Caps]
  BY DEF MergeStates, MergeFlow, IsState, Caps
<1>2. DOMAIN m.borrows \subseteq Borrow /\ \A b \in DOMAIN m.borrows : m.borrows[b] \in Nat \ {0}
  BY DEF MergeStates, MergeBorrows, IsState, SetToBag, BagToSet
<1>3. /\ DOMAIN m.deferred \subseteq DeferSites
      /\ \A k \in DOMAIN m.deferred : m.deferred[k] \in Deferral
  BY MergeDeferredType DEF MergeStates, IsState
<1>4. m.consumed \in SUBSET Place /\ m.frontiered \in SUBSET Place
  BY DEF MergeStates, IsState
<1>5. m = [consumed |-> m.consumed, frontiered |-> m.frontiered, flow |-> m.flow,
           borrows |-> m.borrows, deferred |-> m.deferred]
  BY DEF MergeStates
<1> HIDE DEF m
<1>6. IsState(m)
  BY <1>1, <1>2, <1>3, <1>4, <1>5 DEF IsState
<1> QED BY <1>6 DEF m, MergeViolations, Codes

(* The entry state of a join is no stronger than what either predecessor   *)
(* left (MergeSSAFunctionStates).                                          *)
THEOREM MergeCoversBoth ==
    ASSUME NEW s, IsState(s), NEW t, IsState(t)
    PROVE  Covers(MergeStates(s, t), s) /\ Covers(MergeStates(s, t), t)
<1> DEFINE m == MergeStates(s, t)
<1>1. /\ s.consumed \cup t.consumed \subseteq m.consumed
      /\ s.frontiered \cup t.frontiered \subseteq m.frontiered
  BY DEF MergeStates
<1>2. \A r \in Roots : m.flow[r] \in {s.flow[r], "untracked"} /\ m.flow[r] \in {t.flow[r], "untracked"}
  BY DEF MergeStates, MergeFlow, IsState
<1>3. \A k \in DOMAIN s.deferred :
          k \in DOMAIN m.deferred /\ (s.deferred[k].repeat => m.deferred[k].repeat)
  BY DEF MergeStates, MergeDeferred, IsState, Deferral
<1>4. \A k \in DOMAIN t.deferred :
          k \in DOMAIN m.deferred /\ (t.deferred[k].repeat => m.deferred[k].repeat)
  BY DEF MergeStates, MergeDeferred, IsState, Deferral
<1> QED BY <1>1, <1>2, <1>3, <1>4 DEF Covers

(* A state is no stronger than itself.                                   *)
LEMMA CoversReflexive ==
    ASSUME NEW s
    PROVE  Covers(s, s)
BY DEF Covers

(* Losing precision twice is losing precision.                           *)
LEMMA CoversTransitive ==
    ASSUME NEW s, NEW t, NEW u, Covers(t, s), Covers(u, t)
    PROVE  Covers(u, s)
BY DEF Covers

(* The comparison that stops the worklist loses none of these facts        *)
(* (equalSSAFunctionState).                                                *)
LEMMA EqualCovers ==
    ASSUME NEW s, NEW t, EqualStates(s, t)
    PROVE  Covers(s, t)
BY DEF Covers, EqualStates

(* A use or a move that is refused in a state is refused in every state    *)
(* that covers it: merging can only turn acceptance into refusal.          *)
LEMMA CoversRefuses ==
    ASSUME NEW s, NEW t, Covers(t, s), NEW p
    PROVE  /\ CheckUse(s, p) => CheckUse(t, p)
           /\ CheckFrontier(s, p) => CheckFrontier(t, p)
BY DEF Covers, CheckUse, CheckFrontier
---------------------------------------------------------------------------
(* Transfers.                                                              *)

IsOutcome(r) == IsState(r.st) /\ r.errs \subseteq Codes

(* What a check or an update that stops there returns.                     *)
LEMMA OutcomeSimple ==
    ASSUME NEW s, IsState(s)
    PROVE  /\ IsOutcome(Passed(s))
           /\ \A c \in Codes : IsOutcome(Failed(s, c))
           /\ IsOutcome([st |-> s, errs |-> {}])
BY DEF IsOutcome, Passed, Failed

(* The code constants, for the leaves that only need membership.           *)
LEMMA CodesKnown ==
    /\ "GWN001" \in Codes /\ "GWN002" \in Codes /\ "GWN010" \in Codes
    /\ "GWN011" \in Codes /\ "GWN012" \in Codes
BY DEF Codes

(* The moves: each way of moving a place out leaves a state.               *)
LEMMA ConsumeOutcome ==
    ASSUME NEW s, IsState(s), NEW p \in Place, NEW held, NEW c
    PROVE  /\ IsOutcome(consumeRootAtInstruction(s, p, held))
           /\ IsOutcome(consumePlaceAtInstruction(s, p, held))
           /\ IsOutcome(consumeCallArgumentAtInstruction(s, p, c))
           /\ IsOutcome(moveSource(s, p, held))
<1>1. IsOutcome(ConsumeRoot(s, p)) /\ IsOutcome(ConsumePlace(s, p))
  BY ConsumeType DEF IsOutcome
<1>2. \A h : IsOutcome(consumeRootAtInstruction(s, p, h))
             /\ IsOutcome(consumePlaceAtInstruction(s, p, h))
  BY <1>1, OutcomeSimple, CodesKnown
     DEF consumeRootAtInstruction, consumePlaceAtInstruction
<1>3. IsOutcome(moveSource(s, p, held))
  BY <1>1, OutcomeSimple, CodesKnown DEF moveSource
<1> QED BY <1>2, <1>3 DEF consumeCallArgumentAtInstruction

(* Rebinding a variable leaves a state.                                    *)
LEMMA ReboundType ==
    ASSUME NEW s, IsState(s), NEW p \in Place
    PROVE  IsState(Rebound(s, p))
BY MovesType DEF Rebound

(* A use reports at most (checkDebugRefUse).                             *)
LEMMA UseOutcome ==
    ASSUME NEW s, IsState(s), NEW c
    PROVE  IsOutcome(checkDebugRefUse(s, c))
BY OutcomeSimple, CodesKnown DEF checkDebugRefUse

(* A send, a capture, an argument of \restore (consumeRootAtInstruction). *)
LEMMA TransferOutcome ==
    ASSUME NEW s, IsState(s), NEW c, c.place \in OptionalPlace
    PROVE  IsOutcome(transferValue(s, c)) /\ IsOutcome(restoreArgument(s, c))
BY OutcomeSimple, ConsumeOutcome DEF transferValue, restoreArgument, OptionalPlace

(* An untracked local receives an ownerstamp.                            *)
LEMMA FlowAssignOutcome ==
    ASSUME NEW s, IsState(s), NEW c, c.dst \in Place, c.cap \in Caps
    PROVE  IsOutcome(applyFlowAssignmentTransfer(s, c))
BY ReboundType, MovesType, FlowType, OutcomeSimple DEF applyFlowAssignmentTransfer

(* The flow value of a source changes its ownerstamp, not its place.     *)
LEMMA FlowValueType ==
    ASSUME NEW s, NEW v \in Value
    PROVE  valueWithFlowValue(s, v).place = v.place
BY DEF valueWithFlowValue, Value

(* An assignment moves its source and rebinds its destination.           *)
LEMMA AssignOutcome ==
    ASSUME NEW s, IsState(s), NEW c, c.dst \in Place, c.value \in Value
    PROVE  IsOutcome(applyAssignmentTransfer(s, c))
<1> DEFINE value == valueWithFlowValue(s, c.value)
           moved == moveSource(s, value.place, c.held)
<1>1. value.place \in OptionalPlace
  BY FlowValueType DEF Value
<1>2. value.place # NoPlace => IsOutcome(moved) /\ IsState(Rebound(moved.st, c.dst))
  BY <1>1, ConsumeOutcome, ReboundType DEF OptionalPlace, IsOutcome
<1> HIDE DEF moved
<1>3. \/ applyAssignmentTransfer(s, c) = Failed(s, "GWN010")
      \/ applyAssignmentTransfer(s, c) = Passed(Rebound(s, c.dst))
      \/ value.place # NoPlace /\ applyAssignmentTransfer(s, c) = moved
      \/ value.place # NoPlace
         /\ applyAssignmentTransfer(s, c) = Passed(Rebound(moved.st, c.dst))
  BY DEF applyAssignmentTransfer, moved
<1> QED BY <1>2, <1>3, ReboundType, OutcomeSimple, CodesKnown

(* A field initializer moves its value.                                  *)
LEMMA FieldStoreOutcome ==
    ASSUME NEW s, IsState(s), NEW c, c.move \in Pending
    PROVE  IsOutcome(applyCompositeFieldMoveStoreTransfer(s, c))
<1> DEFINE value == valueWithFlowValue(s, c.move.value)
<1>1. c.move # NoMove => value.place \in OptionalPlace
  BY FlowValueType DEF Pending, Value
<1> HIDE DEF value
<1>2. \/ applyCompositeFieldMoveStoreTransfer(s, c) = Passed(s)
      \/ /\ c.move # NoMove /\ value.place # NoPlace
         /\ applyCompositeFieldMoveStoreTransfer(s, c) = moveSource(s, value.place, c.held)
  BY DEF applyCompositeFieldMoveStoreTransfer, value
<1> QED BY <1>1, <1>2, ConsumeOutcome, OutcomeSimple DEF OptionalPlace

(* Escaping stores, map updates and \unsafe end a proof.                 *)
LEMMA FrontierOutcome ==
    ASSUME NEW s, IsState(s), NEW c, c.place \in OptionalPlace
    PROVE  /\ IsOutcome(applyStoreFrontierTransfer(s, c))
           /\ IsOutcome(applyMapUpdateFrontierTransfer(s, c))
           /\ IsOutcome(applyUnsafeIntrinsic(s, c))
<1>1. c.place # NoPlace => IsState(EnterFrontier(s, c.place))
  BY MovesType DEF OptionalPlace
<1> QED BY <1>1, OutcomeSimple
        DEF applyStoreFrontierTransfer, applyMapUpdateFrontierTransfer, applyUnsafeIntrinsic

(* \freeze and the explicit borrows.                                     *)
LEMMA IntrinsicOutcome ==
    ASSUME NEW s, IsState(s), NEW c, c.place \in OptionalPlace
    PROVE  /\ IsOutcome(applyExplicitFreezeIntrinsic(s, c))
           /\ IsOutcome(checkExplicitBorrowIntrinsic(s, c))
BY OutcomeSimple, CodesKnown, ConsumeOutcome
   DEF applyExplicitFreezeIntrinsic, checkExplicitBorrowIntrinsic, OptionalPlace

(* A swap leaves the state alone.                                        *)
LEMMA SwapOutcome ==
    ASSUME NEW s, IsState(s), NEW c
    PROVE  IsOutcome(checkSwapTransferAtPosition(s, c))
BY DEF IsOutcome, checkSwapTransferAtPosition, Codes

(* The variables that \restore assigns are rebound.                      *)
LEMMA RestoreResultOutcome ==
    ASSUME NEW s, IsState(s), NEW c, c.place \in OptionalPlace
    PROVE  IsOutcome(restoreResult(s, c))
BY ReboundType, FlowType, OutcomeSimple DEF restoreResult, OptionalPlace, Caps

(* A borrow that begins and one that ends at once.                       *)
LEMMA BorrowOutcome ==
    ASSUME NEW s, IsState(s), NEW p \in Place, NEW cap
    PROVE  /\ IsOutcome(BeginBorrow(s, p, cap))
           /\ IsState(EndBorrow(BeginBorrow(s, p, cap).st, p, cap))
           /\ IsOutcome(applyTemporaryBorrow(s, p, cap))
<1>1. IsOutcome(BeginBorrow(s, p, cap))
  BY BorrowsType DEF IsOutcome
<1>2. IsState(EndBorrow(BeginBorrow(s, p, cap).st, p, cap))
  BY <1>1, BorrowsType DEF IsOutcome
<1> QED BY <1>1, <1>2, OutcomeSimple, CodesKnown DEF applyTemporaryBorrow

(* The arguments of calls, deferred ones included.                       *)
LEMMA ArgumentOutcome ==
    ASSUME NEW s, IsState(s), NEW c, c.place \in OptionalPlace
    PROVE  /\ IsOutcome(callArgument(s, c))
           /\ IsOutcome(applyDeferredInferredBorrowArgs(s, c))
           /\ IsOutcome(activateDeferredBorrow(s, c))
BY BorrowOutcome, ConsumeOutcome, OutcomeSimple
   DEF callArgument, applyDeferredInferredBorrowArgs, activateDeferredBorrow, OptionalPlace

(* A deferred closure is registered.                                     *)
LEMMA RegisterOutcome ==
    ASSUME NEW s, IsState(s), NEW c, c.site \in DeferSites
    PROVE  IsOutcome(recordSourceDeferClosureEffects(s, c))
BY AddDeferredType, OutcomeSimple DEF recordSourceDeferClosureEffects

(* The checks at a return.                                               *)
LEMMA ReturnOutcome ==
    ASSUME NEW s, IsState(s), NEW c, NEW groups
    PROVE  /\ IsOutcome(checkReturnFrontierConflicts(s, c))
           /\ IsOutcome(checkReturnDeferredConflicts(s, c, groups))
           /\ c.place \in OptionalPlace => IsOutcome(returnValue(s, c))
<1>1. IsOutcome(checkReturnFrontierConflicts(s, c))
  BY OutcomeSimple, CodesKnown DEF checkReturnFrontierConflicts
<1>2. IsOutcome(checkReturnDeferredConflicts(s, c, groups))
  BY OutcomeSimple, CodesKnown DEF checkReturnDeferredConflicts
<1>3. c.place \in OptionalPlace => IsOutcome(returnValue(s, c))
  BY OutcomeSimple, CodesKnown, ConsumeOutcome DEF returnValue, OptionalPlace
<1> QED BY <1>1, <1>2, <1>3

(* A call effect of a deferred closure without a body.                   *)
LEMMA EffectOutcome ==
    ASSUME NEW s, IsState(s), NEW c, c.place \in Place
    PROVE  IsOutcome(applyDeferredEffectAtExit(s, c))
BY BorrowOutcome, ConsumeType, OutcomeSimple DEF applyDeferredEffectAtExit, IsOutcome

---------------------------------------------------------------------------
(* The calls of a handler.                                                 *)

(* A sequence made point by point from a sequence.                         *)
LEMMA SeqByPoints ==
    ASSUME NEW T, NEW S, NEW s \in Seq(S), NEW t,
           t = [k \in DOMAIN s |-> t[k]],
           \A k \in DOMAIN s : t[k] \in T
    PROVE  t \in Seq(T)
<1>1. t \in [1..Len(s) -> T] /\ Len(s) \in Nat
  OBVIOUS
<1> QED BY <1>1

(* The call that checks a use.                                           *)
LEMMA UseCall ==
    ASSUME NEW p \in OptionalPlace, NEW span \in BOOLEAN
    PROVE  Use(p, span) \in Call
BY DEF Use, Call

(* One call for each argument of a call, a go or a defer.                   *)
LEMMA ArgumentCallsType ==
    ASSUME NEW i, i.args \in Seq(Argument), NEW kind \in Kinds, NEW named \in BOOLEAN,
           NEW held \in SUBSET Place
    PROVE  ArgumentCalls(i, kind, named, held) \in Seq(Call)
<1> DEFINE t == ArgumentCalls(i, kind, named, held)
<1>1. ASSUME NEW k \in DOMAIN i.args
      PROVE  t[k] \in Call
  <2>1. i.args[k] \in Argument
    OBVIOUS
  <2>2. t[k] = [do |-> "argument", place |-> i.args[k].place, cap |-> i.args[k].cap,
                kind |-> kind, named |-> named, held |-> held]
    BY DEF ArgumentCalls
  <2> QED BY <2>1, <2>2 DEF Call, Argument
<1>2. t = [k \in DOMAIN i.args |-> t[k]]
  BY DEF ArgumentCalls
<1> HIDE DEF t
<1>3. t \in Seq(Call)
  BY <1>1, <1>2, SeqByPoints
<1> QED BY <1>3 DEF t

(* One call for each capture of a go closure.                               *)
LEMMA CaptureCallsType ==
    ASSUME NEW i, i.captures \in Seq(OptionalPlace), NEW held \in SUBSET Place
    PROVE  CaptureCalls(i, held) \in Seq(Call)
<1> DEFINE t == CaptureCalls(i, held)
<1>1. ASSUME NEW k \in DOMAIN i.captures
      PROVE  t[k] \in Call
  <2>1. i.captures[k] \in OptionalPlace
    OBVIOUS
  <2>2. t[k] = [do |-> "transfer", place |-> i.captures[k], held |-> held]
    BY DEF CaptureCalls
  <2> QED BY <2>1, <2>2 DEF Call
<1>2. t = [k \in DOMAIN i.captures |-> t[k]]
  BY DEF CaptureCalls
<1> HIDE DEF t
<1>3. t \in Seq(Call)
  BY <1>1, <1>2, SeqByPoints
<1> QED BY <1>3 DEF t

(* One borrow for each argument of a deferred call.                         *)
LEMMA DeferredArgumentCallsType ==
    ASSUME NEW i, i.args \in Seq(Argument)
    PROVE  DeferredArgumentCalls(i) \in Seq(Call)
<1> DEFINE t == DeferredArgumentCalls(i)
<1>1. ASSUME NEW k \in DOMAIN i.args
      PROVE  t[k] \in Call
  <2>1. i.args[k] \in Argument
    OBVIOUS
  <2>2. t[k] = [do |-> "deferredArgument", place |-> i.args[k].place, cap |-> i.args[k].cap]
    BY DEF DeferredArgumentCalls
  <2> QED BY <2>1, <2>2 DEF Call, Argument
<1>2. t = [k \in DOMAIN i.args |-> t[k]]
  BY DEF DeferredArgumentCalls
<1> HIDE DEF t
<1>3. t \in Seq(Call)
  BY <1>1, <1>2, SeqByPoints
<1> QED BY <1>3 DEF t

(* One call for each case of a select, the cases that move nothing included. *)
LEMMA SelectCallsType ==
    ASSUME NEW i, i.cases \in Seq(Case), NEW held \in SUBSET Place
    PROVE  SelectCalls(i, held) \in Seq(Call)
<1> DEFINE t == SelectCalls(i, held)
<1>1. ASSUME NEW k \in DOMAIN i.cases
      PROVE  t[k] \in Call
  <2>1. i.cases[k] \in Case
    OBVIOUS
  <2>2. \E p \in {i.cases[k].place, NoPlace} :
            t[k] = [do |-> "transfer", held |-> held, place |-> p]
    BY DEF SelectCalls
  <2> QED BY <2>1, <2>2 DEF Call, Case, OptionalPlace
<1>2. t = [k \in DOMAIN i.cases |-> t[k]]
  BY DEF SelectCalls
<1> HIDE DEF t
<1>3. t \in Seq(Call)
  BY <1>1, <1>2, SeqByPoints
<1> QED BY <1>3 DEF t

IsTable(table) ==
    \A n \in DOMAIN table : table[n].source \in Place /\ table[n].cap \in BorrowCaps

(* One call for each variable a defer touches.                             *)
LEMMA ActivateCallsType ==
    ASSUME NEW i, i.touches \in Seq(Roots), NEW table, IsTable(table)
    PROVE  ActivateCalls(i, table) \in Seq(Call)
<1> DEFINE t == ActivateCalls(i, table)
<1>1. ASSUME NEW k \in DOMAIN i.touches
      PROVE  t[k] \in Call
  <2>1. \E p \in OptionalPlace, c \in BorrowCaps :
            t[k] = [do |-> "activate", place |-> p, cap |-> c]
    BY DEF ActivateCalls, IsTable, OptionalPlace, BorrowCaps
  <2> QED BY <2>1 DEF Call
<1>2. t = [k \in DOMAIN i.touches |-> t[k]]
  BY DEF ActivateCalls
<1> HIDE DEF t
<1>3. t \in Seq(Call)
  BY <1>1, <1>2, SeqByPoints
<1> QED BY <1>3 DEF t

(* A defer statement is registered at most once by its handler.            *)
LEMMA RegisterCallsType ==
    ASSUME NEW i, i.site \in DeferSites, NEW groups
    PROVE  RegisterCalls(i, groups) \in Seq(Call)
<1>1. [do |-> "register", site |-> i.site] \in Call
  BY DEF Call
<1> QED BY <1>1 DEF RegisterCalls

(* The arguments and the results of a restore.                             *)
LEMMA RestoreCallsType ==
    ASSUME NEW i, i.args \in Seq(Argument), i.lhs \in Seq(OptionalPlace),
           NEW held \in SUBSET Place
    PROVE  RestoreCalls(i, held) \in Seq(Call)
<1> DEFINE t == [k \in DOMAIN i.args |->
                    [do |-> "restoreArgument", held |-> held,
                     place |-> IF i.args[k].cap = "iso" THEN i.args[k].place ELSE NoPlace]]
           u == [k \in DOMAIN i.lhs |-> [do |-> "restoreResult", place |-> i.lhs[k]]]
<1>1. ASSUME NEW k \in DOMAIN i.args
      PROVE  t[k] \in Call
  <2>1. i.args[k] \in Argument
    OBVIOUS
  <2>2. \E p \in {i.args[k].place, NoPlace} :
            t[k] = [do |-> "restoreArgument", held |-> held, place |-> p]
    OBVIOUS
  <2> QED BY <2>1, <2>2 DEF Call, Argument, OptionalPlace
<1>2. ASSUME NEW k \in DOMAIN i.lhs
      PROVE  u[k] \in Call
  <2>1. i.lhs[k] \in OptionalPlace
    OBVIOUS
  <2> QED BY <2>1 DEF Call
<1>3. t = [k \in DOMAIN i.args |-> t[k]] /\ u = [k \in DOMAIN i.lhs |-> u[k]]
  OBVIOUS
<1>4. RestoreCalls(i, held) = t \o u
  BY DEF RestoreCalls
<1> HIDE DEF t, u
<1>5. t \in Seq(Call)
  BY <1>1, <1>3, SeqByPoints
<1>6. u \in Seq(Call)
  BY <1>2, <1>3, SeqByPoints
<1> QED BY <1>4, <1>5, <1>6

(* The uses and the two transfers of a store.                              *)
LEMMA StoreCallsType ==
    ASSUME NEW i, i.value \in OptionalPlace, i.target \in OptionalPlace,
           i.indexed \in BOOLEAN, NEW pending \in Pending, NEW held \in SUBSET Place
    PROVE  StoreCalls(i, pending, held) \in Seq(Call)
<1> DEFINE a == Use(i.value, FALSE)
           b == Use(i.target, FALSE)
           c == [do |-> "fieldStore", move |-> pending, place |-> i.value, held |-> held]
           d == [do |-> "storeFrontier", place |-> i.value, target |-> i.target,
                 indexed |-> i.indexed]
<1>1. a \in Call /\ b \in Call
  BY UseCall
<1>2. c \in Call
  BY DEF Call
<1>3. d \in Call
  BY DEF Call
<1>4. \/ StoreCalls(i, pending, held) = <<a>> \o <<>> \o <<c, d>>
      \/ StoreCalls(i, pending, held) = <<a>> \o <<b>> \o <<c, d>>
  BY DEF StoreCalls
<1> HIDE DEF a, b, c, d
<1>5. <<a>> \in Seq(Call) /\ <<b>> \in Seq(Call) /\ <<>> \in Seq(Call)
  BY <1>1
<1>6. <<c, d>> \in Seq(Call)
  BY <1>2, <1>3
<1>7. CASE StoreCalls(i, pending, held) = <<a>> \o <<>> \o <<c, d>>
  BY <1>5, <1>6, <1>7
<1>8. CASE StoreCalls(i, pending, held) = <<a>> \o <<b>> \o <<c, d>>
  BY <1>5, <1>6, <1>8
<1> QED BY <1>4, <1>7, <1>8

(* The checks of a return, one call for each result, and the exit.         *)
LEMMA ReturnCallsType ==
    ASSUME NEW i, i.results \in Seq(Result), NEW held \in SUBSET Place
    PROVE  ReturnCalls(i, held) \in Seq(Call)
<1> DEFINE t == [k \in DOMAIN i.results |->
                    [do |-> "returnValue", want |-> i.results[k].want,
                     cap |-> i.results[k].cap, fresh |-> i.results[k].fresh,
                     place |-> i.results[k].place, held |-> held]]
<1>1. ASSUME NEW k \in DOMAIN i.results
      PROVE  t[k] \in Call
  <2>1. i.results[k] \in Result
    OBVIOUS
  <2> QED BY <2>1 DEF Call, Result
<1>2. t = [k \in DOMAIN i.results |-> t[k]]
  OBVIOUS
<1>3. /\ [do |-> "returnFrontier", results |-> i.results] \in Call
      /\ [do |-> "returnConflict", results |-> i.results] \in Call
      /\ [do |-> "exit"] \in Call
  BY DEF Call
<1>4. ReturnCalls(i, held) =
          << [do |-> "returnFrontier", results |-> i.results] >> \o t
          \o << [do |-> "returnConflict", results |-> i.results], [do |-> "exit"] >>
  BY DEF ReturnCalls
<1> HIDE DEF t
<1>5. t \in Seq(Call)
  BY <1>1, <1>2, SeqByPoints
<1> QED BY <1>3, <1>4, <1>5

(* The handler of every instruction makes a sequence of calls the engine   *)
(* knows, whatever is staged, held or bound.                               *)
LEMMA ScriptType ==
    ASSUME NEW i \in Instruction, NEW pending \in Pending, NEW named \in BOOLEAN,
           NEW table, IsTable(table), NEW groups, NEW held \in SUBSET Place
    PROVE  /\ Script(i, pending, named, table, groups, held) \in Seq(Call)
           /\ PendingAfter(i, pending) \in Pending
<1> DEFINE t == Script(i, pending, named, table, groups, held)
<1>1. CASE i \in [op : {"use"}, place : OptionalPlace, span : BOOLEAN, binds : SUBSET Bind]
  <2>1. t = << Use(i.place, i.span) >>
    BY <1>1 DEF Script
  <2>2. PendingAfter(i, pending) = NoMove
    BY <1>1 DEF PendingAfter
  <2>3. Use(i.place, i.span) \in Call
    BY <1>1, UseCall
  <2> QED BY <2>1, <2>2, <2>3 DEF Pending
<1>2. CASE i \in [op : {"stage"}, cap : Caps, value : Value]
  <2>1. t = <<>> /\ PendingAfter(i, pending) = [cap |-> i.cap, value |-> i.value]
    BY <1>2 DEF Script, PendingAfter
  <2> QED BY <1>2, <2>1 DEF Pending
<1>3. CASE i \in [op : {"flow"}, dst : Place, cap : Caps]
  <2>1. t = << [do |-> "flow", dst |-> i.dst, cap |-> i.cap] >>
    BY <1>3 DEF Script
  <2>2. PendingAfter(i, pending) = NoMove
    BY <1>3 DEF PendingAfter
  <2>3. [do |-> "flow", dst |-> i.dst, cap |-> i.cap] \in Call
    BY <1>3 DEF Call
  <2> QED BY <2>1, <2>2, <2>3 DEF Pending
<1>4. CASE i \in [op : {"assign"}, dst : Place, value : Value]
  <2>1. t = << [do |-> "assign", dst |-> i.dst, value |-> i.value, held |-> held] >>
    BY <1>4 DEF Script
  <2>2. PendingAfter(i, pending) = NoMove
    BY <1>4 DEF PendingAfter
  <2>3. [do |-> "assign", dst |-> i.dst, value |-> i.value, held |-> held] \in Call
    BY <1>4 DEF Call
  <2> QED BY <2>1, <2>2, <2>3 DEF Pending
<1>5. CASE i \in [op : {"store"}, value : OptionalPlace, target : OptionalPlace,
                  indexed : BOOLEAN]
  <2>1. t = StoreCalls(i, pending, held) /\ PendingAfter(i, pending) = NoMove
    BY <1>5 DEF Script, PendingAfter
  <2> QED BY <1>5, <2>1, StoreCallsType DEF Pending
<1>6. CASE i \in [op : {"map", "unsafe"}, place : OptionalPlace]
  <2>1. PendingAfter(i, pending) = NoMove
    BY <1>6 DEF PendingAfter
  <2>2. CASE i.op = "map"
    <3> DEFINE a == Use(i.place, FALSE)
               b == [do |-> "mapFrontier", place |-> i.place]
    <3>1. t = <<a, b>>
      BY <2>2 DEF Script
    <3>2. a \in Call
      BY <1>6, UseCall
    <3>3. b \in Call
      BY <1>6 DEF Call
    <3> HIDE DEF a, b, t
    <3>4. t \in Seq(Call)
      BY <3>1, <3>2, <3>3
    <3> QED BY <2>1, <3>4 DEF Pending, t
  <2>3. CASE i.op = "unsafe"
    <3>1. t = << [do |-> "unsafe", place |-> i.place] >>
      BY <2>3 DEF Script
    <3>2. [do |-> "unsafe", place |-> i.place] \in Call
      BY <1>6 DEF Call
    <3> QED BY <2>1, <3>1, <3>2 DEF Pending
  <2> QED BY <1>6, <2>2, <2>3
<1>7. CASE i \in [op : {"send"}, place : OptionalPlace, chan : Caps]
  <2> DEFINE a == [do |-> "transfer", place |-> i.place, held |-> held]
  <2>1. t = <<a>> \/ t = <<>>
    BY <1>7 DEF Script
  <2>2. PendingAfter(i, pending) = NoMove
    BY <1>7 DEF PendingAfter
  <2>3. a \in Call
    BY <1>7 DEF Call
  <2> HIDE DEF a, t
  <2>4. t \in Seq(Call)
    <3>1. CASE t = <<a>>
      BY <2>3, <3>1
    <3>2. CASE t = <<>>
      BY <3>2
    <3> QED BY <2>1, <3>1, <3>2
  <2> QED BY <2>2, <2>4 DEF Pending, t
<1>8. CASE i \in [op : {"select"}, cases : Seq(Case)]
  <2>1. t = SelectCalls(i, held) /\ PendingAfter(i, pending) = NoMove
    BY <1>8 DEF Script, PendingAfter
  <2> QED BY <1>8, <2>1, SelectCallsType DEF Pending
<1>9. CASE i \in [op : {"call"}, args : Seq(Argument)]
  <2>1. t = ArgumentCalls(i, "call", named, held) /\ PendingAfter(i, pending) = NoMove
    BY <1>9 DEF Script, PendingAfter
  <2> QED BY <1>9, <2>1, ArgumentCallsType DEF Pending, Kinds
<1>10. CASE i \in [op : {"go"}, args : Seq(Argument), captures : Seq(OptionalPlace)]
  <2>1. t = ArgumentCalls(i, "go", named, held) \o CaptureCalls(i, held)
        /\ PendingAfter(i, pending) = NoMove
    BY <1>10 DEF Script, PendingAfter
  <2>2. ArgumentCalls(i, "go", named, held) \in Seq(Call) /\ CaptureCalls(i, held) \in Seq(Call)
    BY <1>10, ArgumentCallsType, CaptureCallsType DEF Kinds
  <2> QED BY <2>1, <2>2 DEF Pending
<1>11. CASE i \in [op : {"defer"}, args : Seq(Argument), touches : Seq(Roots),
                   site : DeferSites]
  <2> DEFINE a == ArgumentCalls(i, "defer", named, held)
             b == DeferredArgumentCalls(i)
             c == ActivateCalls(i, table)
             d == RegisterCalls(i, groups)
  <2>1. t = a \o b \o c \o d /\ PendingAfter(i, pending) = NoMove
    BY <1>11 DEF Script, PendingAfter
  <2>2. a \in Seq(Call) /\ b \in Seq(Call)
    BY <1>11, ArgumentCallsType, DeferredArgumentCallsType DEF Kinds
  <2>3. c \in Seq(Call) /\ d \in Seq(Call)
    BY <1>11, ActivateCallsType, RegisterCallsType
  <2> HIDE DEF a, b, c, d
  <2> QED BY <2>1, <2>2, <2>3 DEF Pending
<1>12. CASE i \in [op : {"restore"}, args : Seq(Argument), lhs : Seq(OptionalPlace)]
  <2>1. t = RestoreCalls(i, held) /\ PendingAfter(i, pending) = NoMove
    BY <1>12 DEF Script, PendingAfter
  <2> QED BY <1>12, <2>1, RestoreCallsType DEF Pending
<1>13. CASE i \in [op : {"swap"}, auto : BOOLEAN, left : OptionalPlace, right : OptionalPlace]
  <2>1. t = << [do |-> "swap", left |-> i.left, right |-> i.right, held |-> held] >>
    BY <1>13 DEF Script
  <2>2. PendingAfter(i, pending) \in {NoMove, pending}
    BY <1>13 DEF PendingAfter
  <2>3. [do |-> "swap", left |-> i.left, right |-> i.right, held |-> held] \in Call
    BY <1>13 DEF Call
  <2> QED BY <2>1, <2>2, <2>3 DEF Pending
<1>14. CASE i \in [op : {"freeze"}, place : OptionalPlace, result : Caps \cup {"none"}]
  <2>1. t = << [do |-> "freeze", place |-> i.place, result |-> i.result, held |-> held] >>
    BY <1>14 DEF Script
  <2>2. PendingAfter(i, pending) = NoMove
    BY <1>14 DEF PendingAfter
  <2>3. [do |-> "freeze", place |-> i.place, result |-> i.result, held |-> held] \in Call
    BY <1>14 DEF Call
  <2> QED BY <2>1, <2>2, <2>3 DEF Pending
<1>15. CASE i \in [op : {"borrow"}, place : OptionalPlace, cap : BorrowCaps]
  <2>1. t = << [do |-> "borrow", place |-> i.place, cap |-> i.cap] >>
    BY <1>15 DEF Script
  <2>2. PendingAfter(i, pending) = NoMove
    BY <1>15 DEF PendingAfter
  <2>3. [do |-> "borrow", place |-> i.place, cap |-> i.cap] \in Call
    BY <1>15 DEF Call
  <2> QED BY <2>1, <2>2, <2>3 DEF Pending
<1>16. CASE i \in [op : {"return"}, results : Seq(Result)]
  <2>1. t = ReturnCalls(i, held) /\ PendingAfter(i, pending) = NoMove
    BY <1>16 DEF Script, PendingAfter
  <2> QED BY <1>16, <2>1, ReturnCallsType DEF Pending
<1> QED BY <1>1, <1>2, <1>3, <1>4, <1>5, <1>6, <1>7, <1>8, <1>9, <1>10, <1>11, <1>12,
           <1>13, <1>14, <1>15, <1>16 DEF Instruction

---------------------------------------------------------------------------
(* The inductive invariant.                                                *)

(* The activation is merging the block it has run into the successors.     *)
MergePhase(a) == \E k \in DOMAIN a.todo : a.todo[k].do \in {"merge", "leave"}

(* Then nothing else is left to do, and the state is the one recorded.     *)
PhaseOK(a) ==
    MergePhase(a) =>
        /\ \A k \in DOMAIN a.todo :
              /\ k = Len(a.todo) => a.todo[k].do = "leave"
              /\ k # Len(a.todo) => a.todo[k].do = "merge"
              /\ a.todo[k].do = "merge" => a.todo[k].succ \in Succs(Body(a), a.blk)
        /\ a.blk \in DOMAIN a.out
        /\ a.out[a.blk] = a.st

ActivationInv(a) == IsActivation(a) /\ PhaseOK(a) /\ Covered(a) /\ Fresh(a)

ErrsOK == errs \subseteq [code : Codes, fn : Fns, blk : Nat, pc : Nat]

Inv ==
    /\ prog \in Programs
    /\ ErrsOK
    /\ callers \in Seq({callers[k] : k \in DOMAIN callers})
    /\ ActivationInv(act)
    /\ \A k \in DOMAIN callers : ActivationInv(callers[k]) /\ ~MergePhase(callers[k])

---------------------------------------------------------------------------
(* What the type of a program and of a call gives.                         *)

(* The parts of the program that the engine reads.                         *)
LEMMA ProgramFacts ==
    ASSUME prog \in Programs, NEW a, a.fn \in Fns
    PROVE  /\ prog.named \in BOOLEAN
           /\ Body(a) \in Seq(BasicBlock) /\ Body(a) # <<>>
           /\ \A b \in DOMAIN Body(a) : Succs(Body(a), b) \subseteq DOMAIN Body(a)
           /\ prog.groups \in [DeferSites -> Group]
           /\ IsTable(prog.borrows)
           /\ \A i : Held(a, i) \in SUBSET Place
<1>1. IsProgram(prog)
  BY ProgramsAssumption
<1>2. IsTable(prog.borrows)
  BY <1>1 DEF IsProgram, IsTable
<1>3. ASSUME NEW i
      PROVE  Held(a, i) \in SUBSET Place
  <2>1. LiveAfterInstruction(prog.borrows, Body(a), a.blk, i) \subseteq DOMAIN prog.borrows
    BY DEF LiveAfterInstruction
  <2> QED BY <1>2, <2>1 DEF Held, IsTable
<1>4. /\ Body(a) \in Seq(BasicBlock) /\ Body(a) # <<>>
      /\ \A b \in DOMAIN Body(a) : Succs(Body(a), b) \subseteq DOMAIN Body(a)
  BY <1>1 DEF IsProgram, Body, Succs
<1> QED BY <1>1, <1>2, <1>3, <1>4 DEF IsProgram

(* The fields of a call, by what it does.                                  *)
LEMMA CallFacts ==
    ASSUME NEW c \in EngineCall
    PROVE  /\ c.do \in {"transfer", "restoreArgument", "mapFrontier", "unsafe", "freeze",
                        "borrow", "storeFrontier", "argument", "deferredArgument",
                        "activate", "restoreResult", "returnValue"}
                  => c.place \in OptionalPlace
           /\ c.do = "flow"       => c.dst \in Place /\ c.cap \in Caps
           /\ c.do = "assign"     => c.dst \in Place /\ c.value \in Value
           /\ c.do = "fieldStore" => c.move \in Pending
           /\ c.do = "register"   => c.site \in DeferSites
           /\ c.do = "groups"     => c.left \subseteq DeferSites
           /\ c.do = "effect"     => c.place \in Place
           /\ c.do = "merge"      => c.succ \in Nat
BY DEF EngineCall, Call

(* The invariant of an activation depends on no variable but the program.  *)
LEMMA SameProgram ==
    ASSUME prog' = prog, NEW a
    PROVE  ActivationInv(a) <=> ActivationInv(a)'
BY DEF ActivationInv, IsActivation, PhaseOK, MergePhase, Covered, MergePending, Fresh,
       Body, Succs, Blocks

(* Outside of the merges, what is left to do holds no merge.               *)
LEMMA NotMerging ==
    ASSUME ActivationInv(act), act.todo # <<>>, Head(act.todo).do \notin {"merge", "leave"}
    PROVE  ~MergePhase(act)
<1> SUFFICES ASSUME MergePhase(act) PROVE FALSE
  OBVIOUS
<1>1. act.todo \in Seq(EngineCall)
  BY DEF ActivationInv, IsActivation
<1>2. 1 \in DOMAIN act.todo /\ Head(act.todo) = act.todo[1]
  BY <1>1
<1>3. act.todo[1].do \in {"merge", "leave"}
  BY <1>2 DEF ActivationInv, PhaseOK
<1> QED BY <1>2, <1>3

(* The fields of an activation.                                            *)
IsRecord(a) ==
    a \in [fn : Fns, in : {a.in}, from : {a.from}, out : {a.out}, queue : Seq(Nat),
           exit : {a.exit}, blk : Nat, pc : Nat, todo : Seq(EngineCall), st : {a.st},
           pending : Pending]

(* A new activation.                                                       *)
LEMMA ActivationStarts ==
    ASSUME prog \in Programs, NEW fn \in Fns, NEW s, IsState(s)
    PROVE  ActivationInv(Activation(fn, s))
<1> DEFINE a == Activation(fn, s)
<1>1. 1 \in Blocks(Body(a))
  BY ProgramFacts DEF Activation, Blocks
<1>2. /\ a.in = [b \in {1} |-> s] /\ DOMAIN a.from = {} /\ DOMAIN a.out = {}
      /\ a.queue = <<1>> /\ a.exit = {} /\ a.blk = 0 /\ a.todo = <<>> /\ a.st = s
  BY DEF Activation
<1>3. IsActivation(a)
  BY <1>1, <1>2 DEF IsActivation, Activation, Pending
<1>4. PhaseOK(a) /\ Covered(a)
  BY <1>2 DEF PhaseOK, MergePhase, Covered
<1>5. Fresh(a)
  BY <1>2 DEF Fresh, Contains
<1> QED BY <1>3, <1>4, <1>5 DEF ActivationInv

---------------------------------------------------------------------------
(* The worklist steps.                                                     *)

(* Popping a block runs it from the state at its entry.                    *)
LEMMA PopBlockInv ==
    ASSUME prog \in Programs, ActivationInv(act), PopBlock
    PROVE  ActivationInv(act')
<1> DEFINE b == Head(act.queue)
<1>1. /\ IsActivation(act) /\ PhaseOK(act) /\ Covered(act) /\ Fresh(act)
      /\ act.blk = 0 /\ act.queue # <<>>
  BY DEF ActivationInv, PopBlock
<1>2. act' = [act EXCEPT !.queue = Tail(@), !.blk = b, !.pc = 0, !.st = act.in[b],
                         !.pending = NoMove, !.from = Put(@, b, act.in[b])]
  BY DEF PopBlock
<1>3. /\ act.queue \in Seq(Nat) /\ b \in Nat /\ Tail(act.queue) \in Seq(Nat)
      /\ b \in DOMAIN act.in /\ b \in Blocks(Body(act)) /\ IsState(act.in[b])
  BY <1>1 DEF IsActivation
<1>4. /\ act'.fn = act.fn /\ act'.in = act.in /\ act'.out = act.out
      /\ act'.exit = act.exit /\ act'.todo = act.todo /\ act'.pc = 0
      /\ act'.queue = Tail(act.queue) /\ act'.blk = b /\ act'.st = act.in[b]
      /\ act'.pending = NoMove /\ act'.from = Put(act.from, b, act.in[b])
  BY <1>1, <1>2 DEF IsActivation
<1>5. Body(act') = Body(act)
  BY <1>4 DEF Body
<1>6. IsActivation(act')
  <2>1. IsRecord(act')
    BY <1>1, <1>2, <1>3 DEF IsActivation, IsRecord, Pending
  <2>2. /\ DOMAIN act'.from = DOMAIN act.from \cup {b}
        /\ \A x \in DOMAIN act'.from : IsState(act'.from[x])
    BY <1>1, <1>3, <1>4 DEF IsActivation, Put
  <2>3. \A k \in DOMAIN act'.queue : act'.queue[k] \in DOMAIN act.in
    <3>1. \A k \in DOMAIN act'.queue : k + 1 \in DOMAIN act.queue
                                       /\ act'.queue[k] = act.queue[k + 1]
      BY <1>1, <1>3, <1>4
    <3> QED BY <1>1, <3>1 DEF IsActivation
  <2> QED BY <1>1, <1>3, <1>4, <1>5, <2>1, <2>2, <2>3 DEF IsActivation, IsRecord
<1>7. 0 \notin DOMAIN act.out
  BY <1>1, ProgramFacts DEF IsActivation, Blocks
<1>8. PhaseOK(act')
  BY <1>1, <1>4, <1>7 DEF PhaseOK, MergePhase
<1>9. Covered(act')
  BY <1>1, <1>4, <1>5, <1>7 DEF Covered
<1>10. Fresh(act')
  <2> SUFFICES ASSUME NEW x \in DOMAIN act.in, x # b, Contains(act.queue, x)
               PROVE  Contains(Tail(act.queue), x)
    BY <1>1, <1>4 DEF Fresh, Put
  <2>1. PICK k \in 1..Len(act.queue) : act.queue[k] = x
    BY DEF Contains
  <2>2. k - 1 \in 1..Len(Tail(act.queue)) /\ Tail(act.queue)[k - 1] = x
    BY <1>1, <1>3, <2>1
  <2> QED BY <2>2 DEF Contains
<1> QED BY <1>6, <1>8, <1>9, <1>10 DEF ActivationInv

(* The next instruction leaves its handler's calls to be made.             *)
LEMMA NextInstructionInv ==
    ASSUME prog \in Programs, ActivationInv(act), NextInstruction
    PROVE  ActivationInv(act')
<1> DEFINE pc == act.pc + 1
           i  == Block(act).instrs[pc]
           script == Script(i, act.pending, prog.named, prog.borrows, prog.groups,
                            Held(act, pc))
<1>1. /\ IsActivation(act) /\ Covered(act) /\ Fresh(act)
      /\ act.blk # 0 /\ act.todo = <<>> /\ act.pc < Len(Block(act).instrs)
  BY DEF ActivationInv, NextInstruction
<1>2. act' = [act EXCEPT !.pc = pc, !.pending = PendingAfter(i, @), !.todo = script]
  BY DEF NextInstruction
<1>3. act.fn \in Fns /\ act.pc \in Nat /\ act.pending \in Pending
  BY <1>1 DEF IsActivation
<1>4. Block(act) \in BasicBlock
  BY <1>1, <1>3, ProgramFacts DEF IsActivation, Block, Blocks
<1>5. i \in Instruction
  BY <1>1, <1>3, <1>4 DEF BasicBlock
<1>6. script \in Seq(Call) /\ PendingAfter(i, act.pending) \in Pending
  BY <1>3, <1>5, ScriptType, ProgramFacts
<1> HIDE DEF i, script
<1>7. script \in Seq(EngineCall)
  <2>1. Call \subseteq EngineCall
    BY DEF EngineCall
  <2> HIDE DEF script
  <2>2. \A k \in 1..Len(script) : script[k] \in Call
    BY <1>6
  <2> QED BY <1>6, <2>1, <2>2
<1>8. /\ act'.fn = act.fn /\ act'.in = act.in /\ act'.from = act.from /\ act'.out = act.out
      /\ act'.queue = act.queue /\ act'.exit = act.exit /\ act'.blk = act.blk
      /\ act'.st = act.st /\ act'.pc = pc /\ act'.todo = script
      /\ act'.pending = PendingAfter(i, act.pending)
  BY <1>1, <1>2 DEF IsActivation
<1>9. Body(act') = Body(act)
  BY <1>8 DEF Body
<1>10. IsActivation(act')
  <2>1. IsRecord(act) /\ pc \in Nat
    BY <1>1, <1>3 DEF IsActivation, IsRecord
  <2> HIDE DEF pc
  <2>2. IsRecord(act')
    BY <1>2, <1>6, <1>7, <2>1 DEF IsRecord
  <2> QED BY <1>1, <1>8, <1>9, <2>2 DEF IsActivation, IsRecord
<1>11. PhaseOK(act')
  <2>1. \A k \in 1..Len(script) : script[k].do \notin {"merge", "leave"}
    <3>1. \A c \in Call : c.do \notin {"merge", "leave"}
      BY DEF Call
    <3>2. \A k \in 1..Len(script) : script[k] \in Call
      BY <1>6
    <3> QED BY <3>1, <3>2
  <2>2. DOMAIN script = 1..Len(script)
    BY <1>6
  <2> QED BY <1>8, <2>1, <2>2 DEF PhaseOK, MergePhase
<1>12. Covered(act')
  BY <1>1, <1>8, <1>9 DEF Covered, MergePending
<1>13. Fresh(act')
  BY <1>1, <1>8 DEF Fresh
<1> QED BY <1>10, <1>11, <1>12, <1>13 DEF ActivationInv

(* An error at the head of a block has the type of an error.               *)
LEMMA AtBlockType ==
    ASSUME NEW a, a.fn \in Fns, NEW b \in Nat, NEW codes \in SUBSET Codes
    PROVE  AtBlock(codes, a, b) \subseteq [code : Codes, fn : Fns, blk : Nat, pc : Nat]
BY DEF AtBlock

(* At its end a block is recorded and all of its merges are to be made.    *)
LEMMA EndBlockInv ==
    ASSUME prog \in Programs, ErrsOK, ActivationInv(act), EndBlock
    PROVE  ActivationInv(act') /\ ErrsOK'
<1> DEFINE succs  == Block(act).succs
           merges == [k \in DOMAIN succs |-> [do |-> "merge", succ |-> succs[k]]]
           todo   == merges \o << [do |-> "leave"] >>
           exit   == IF ~Returned(act) THEN act.exit
                     ELSE IF act.exit = {} THEN {act.st}
                     ELSE {MergeStates(e, act.st) : e \in act.exit}
           out    == Put(act.out, act.blk, act.st)
<1>1. /\ IsActivation(act) /\ Covered(act) /\ Fresh(act)
      /\ act.blk # 0 /\ act.todo = <<>>
  BY DEF ActivationInv, EndBlock
<1>2. act' = [act EXCEPT !.out = out, !.exit = exit, !.todo = todo]
  BY DEF EndBlock
<1>3. IsRecord(act) /\ act.fn \in Fns /\ act.blk \in Nat
  BY <1>1 DEF IsActivation, IsRecord
<1>4. act.blk \in DOMAIN Body(act) /\ Block(act) \in BasicBlock
  BY <1>1, <1>3, ProgramFacts DEF IsActivation, Block, Blocks
<1>5. succs \in Seq(Nat)
  BY <1>4 DEF BasicBlock
<1>6. Succs(Body(act), act.blk) = {succs[k] : k \in DOMAIN succs}
  BY DEF Succs, Block
<1> HIDE DEF succs
<1>7. merges \in Seq(EngineCall) /\ Len(merges) = Len(succs)
  <2>1. \A n \in Nat : [do |-> "merge", succ |-> n] \in EngineCall
    BY DEF EngineCall
  <2>2. \A k \in DOMAIN succs : merges[k] \in EngineCall
    BY <1>5, <2>1
  <2>3. merges = [k \in DOMAIN succs |-> merges[k]]
    OBVIOUS
  <2>4. Len(merges) = Len(succs)
    BY <1>5
  <2> HIDE DEF merges
  <2> QED BY <1>5, <2>2, <2>3, <2>4, SeqByPoints
<1>8. \A k \in 1..Len(succs) : merges[k] = [do |-> "merge", succ |-> succs[k]]
  BY <1>5
<1> DEFINE leave == [do |-> "leave"]
<1>9. /\ Len(todo) = Len(succs) + 1 /\ DOMAIN todo = 1..(Len(succs) + 1)
      /\ \A k \in 1..Len(succs) : todo[k] = [do |-> "merge", succ |-> succs[k]]
      /\ todo[Len(succs) + 1] = leave
      /\ todo \in Seq(EngineCall)
  <2>1. leave \in EngineCall
    BY DEF EngineCall
  <2> HIDE DEF merges, leave
  <2>2. todo = merges \o <<leave>>
    BY DEF leave
  <2> HIDE DEF todo
  <2>3. Len(succs) \in Nat
    BY <1>5
  <2>4. todo \in Seq(EngineCall)
    BY <1>7, <2>1, <2>2
  <2>5. Len(todo) = Len(succs) + 1 /\ DOMAIN todo = 1..(Len(succs) + 1)
    BY <1>7, <2>1, <2>2, <2>3
  <2>6. \A k \in 1..Len(succs) : todo[k] = merges[k]
    BY <1>7, <2>1, <2>2, <2>3
  <2>7. todo[Len(succs) + 1] = leave
    BY <1>7, <2>1, <2>2, <2>3
  <2> QED BY <1>8, <2>4, <2>5, <2>6, <2>7
<1>10. \A e \in exit : IsState(e)
  BY <1>1, MergeType DEF IsActivation
<1> HIDE DEF todo, exit, merges
<1>11. /\ act'.fn = act.fn /\ act'.in = act.in /\ act'.from = act.from /\ act'.out = out
       /\ act'.queue = act.queue /\ act'.exit = exit /\ act'.blk = act.blk
       /\ act'.st = act.st /\ act'.pc = act.pc /\ act'.todo = todo
       /\ act'.pending = act.pending
  BY <1>2, <1>3 DEF IsRecord
<1>12. Body(act') = Body(act)
  BY <1>11 DEF Body
<1>13. /\ DOMAIN out = DOMAIN act.out \cup {act.blk} /\ out[act.blk] = act.st
       /\ \A b \in DOMAIN act.out : b # act.blk => out[b] = act.out[b]
  BY DEF Put
<1> HIDE DEF out
<1>14. IsActivation(act')
  <2>1. IsRecord(act')
    BY <1>2, <1>3, <1>9 DEF IsRecord
  <2>2. DOMAIN out \subseteq DOMAIN act.from /\ \A b \in DOMAIN out : IsState(out[b])
    BY <1>1, <1>13 DEF IsActivation
  <2> QED BY <1>1, <1>10, <1>11, <1>12, <2>1, <2>2 DEF IsActivation, IsRecord
<1>15. PhaseOK(act')
  <2>1. \A k \in DOMAIN todo : k # Len(todo) => k \in 1..Len(succs)
    BY <1>5, <1>9
  <2>2. \A k \in 1..Len(succs) : succs[k] \in Succs(Body(act), act.blk)
    BY <1>5, <1>6
  <2>3. act.blk \in DOMAIN out /\ out[act.blk] = act.st
    BY <1>13
  <2>4. ASSUME NEW k \in DOMAIN todo
        PROVE  /\ k = Len(todo) => todo[k].do = "leave"
               /\ k # Len(todo) => todo[k].do = "merge"
               /\ todo[k].do = "merge" => todo[k].succ \in Succs(Body(act), act.blk)
    <3>1. CASE k = Len(todo)
      <4>1. todo[k].do = "leave"
        BY <1>5, <1>9, <3>1
      <4> QED BY <3>1, <4>1
    <3>2. CASE k # Len(todo)
      <4>1. k \in 1..Len(succs)
        BY <2>1, <3>2
      <4>2. todo[k].do = "merge" /\ todo[k].succ = succs[k]
        <5>1. todo[k] = [do |-> "merge", succ |-> succs[k]]
          BY <1>9, <4>1
        <5> QED BY <5>1
      <4> QED BY <2>2, <3>2, <4>1, <4>2
    <3> QED BY <3>1, <3>2
  <2> QED BY <1>11, <1>12, <2>3, <2>4 DEF PhaseOK
<1>16. Covered(act')
  <2> SUFFICES ASSUME NEW b \in DOMAIN out, NEW s \in Succs(Body(act), b)
               PROVE  \/ b = act.blk /\ MergePending(act', s)
                      \/ s \in DOMAIN act.in /\ Covers(act.in[s], out[b])
    BY <1>11, <1>12 DEF Covered
  <2>1. CASE b = act.blk
    <3>1. PICK k \in 1..Len(succs) : succs[k] = s
      BY <1>5, <1>6, <2>1
    <3>2. k \in DOMAIN todo /\ todo[k] = [do |-> "merge", succ |-> s]
      BY <1>5, <1>9, <3>1
    <3> QED BY <1>11, <2>1, <3>2 DEF MergePending
  <2>2. CASE b # act.blk
    <3>1. ~MergePending(act, s)
      BY <1>1 DEF MergePending
    <3> QED BY <1>1, <1>13, <2>2, <3>1 DEF Covered
  <2> QED BY <2>1, <2>2
<1>17. Fresh(act')
  BY <1>1, <1>11 DEF Fresh
<1>18. ErrsOK'
  <2>1. \A e \in act.exit : MergeViolations(e, act.st) \subseteq Codes
    BY <1>1, MergeType DEF IsActivation
  <2>2. \A e \in act.exit : AtBlock(MergeViolations(e, act.st), act, act.blk)
                                \subseteq [code : Codes, fn : Fns, blk : Nat, pc : Nat]
    BY <1>3, <2>1, AtBlockType
  <2>3. errs' \subseteq errs \cup
            UNION {AtBlock(MergeViolations(e, act.st), act, act.blk) : e \in act.exit}
    BY DEF EndBlock
  <2> QED BY <2>2, <2>3 DEF ErrsOK
<1> QED BY <1>14, <1>15, <1>16, <1>17, <1>18 DEF ActivationInv

(* Enqueueing a block keeps the others and holds the block once.           *)
LEMMA EnqueueFacts ==
    ASSUME NEW q \in Seq(Nat), NEW b \in Nat
    PROVE  /\ Enqueue(q, b) \in Seq(Nat)
           /\ \A k \in DOMAIN Enqueue(q, b) :
                  Enqueue(q, b)[k] = b \/ \E j \in DOMAIN q : Enqueue(q, b)[k] = q[j]
           /\ \A x : Contains(q, x) => Contains(Enqueue(q, b), x)
           /\ Contains(Enqueue(q, b), b)
<1>1. CASE Contains(q, b)
  <2>1. Enqueue(q, b) = q
    BY <1>1 DEF Enqueue
  <2> QED BY <1>1, <2>1
<1>2. CASE ~Contains(q, b)
  <2> DEFINE r == Append(q, b)
  <2>1. Enqueue(q, b) = r
    BY <1>2 DEF Enqueue
  <2>2. /\ r \in Seq(Nat) /\ Len(r) = Len(q) + 1 /\ DOMAIN r = 1..Len(r)
        /\ r[Len(r)] = b /\ \A k \in 1..Len(q) : r[k] = q[k]
    OBVIOUS
  <2>3. Len(q) \in Nat /\ DOMAIN q = 1..Len(q)
    OBVIOUS
  <2> HIDE DEF r
  <2>4. ASSUME NEW k \in DOMAIN r
        PROVE  r[k] = b \/ \E j \in DOMAIN q : r[k] = q[j]
    <3>1. CASE k = Len(r)
      BY <2>2, <3>1
    <3>2. CASE k # Len(r)
      BY <2>2, <2>3, <3>2
    <3> QED BY <3>1, <3>2
  <2>5. ASSUME NEW x, Contains(q, x)
        PROVE  Contains(r, x)
    <3>1. PICK i \in 1..Len(q) : q[i] = x
      BY <2>5 DEF Contains
    <3>2. i \in 1..Len(r) /\ r[i] = x
      BY <2>2, <2>3, <3>1
    <3> QED BY <3>2 DEF Contains
  <2>6. Contains(r, b)
    BY <2>2, <2>3 DEF Contains
  <2> QED BY <2>1, <2>2, <2>4, <2>5, <2>6
<1> QED BY <1>1, <1>2

(* A merge into a successor: the entry of the successor covers the block,  *)
(* every other entry is left alone, and the rest is still to be made.      *)
LEMMA MergeInv ==
    ASSUME prog \in Programs, ErrsOK, ActivationInv(act), VisitSuccessor \/ MergeSuccessor
    PROVE  ActivationInv(act') /\ ErrsOK'
<1> DEFINE b == call.succ
<1>1. /\ IsActivation(act) /\ PhaseOK(act) /\ Covered(act) /\ Fresh(act)
      /\ Doing("merge")
  BY DEF ActivationInv, VisitSuccessor, MergeSuccessor
<1>2. IsRecord(act) /\ act.fn \in Fns /\ act.todo \in Seq(EngineCall)
  BY <1>1 DEF IsActivation, IsRecord
<1>3. /\ 1 \in DOMAIN act.todo /\ act.todo # <<>> /\ call = act.todo[1] /\ call.do = "merge"
  BY <1>1, <1>2 DEF Doing, call
<1>4. /\ MergePhase(act)
      /\ \A k \in DOMAIN act.todo :
            /\ k = Len(act.todo) => act.todo[k].do = "leave"
            /\ k # Len(act.todo) => act.todo[k].do = "merge"
            /\ act.todo[k].do = "merge" => act.todo[k].succ \in Succs(Body(act), act.blk)
      /\ act.blk \in DOMAIN act.out /\ act.out[act.blk] = act.st
  <2>1. MergePhase(act)
    BY <1>3 DEF MergePhase
  <2> QED BY <1>1, <2>1 DEF PhaseOK
<1>5. b \in Succs(Body(act), act.blk)
  BY <1>3, <1>4
<1>6. b \in Blocks(Body(act)) /\ b \in Nat
  <2>1. act.blk \in DOMAIN Body(act)
    BY <1>1, <1>4 DEF IsActivation, Blocks
  <2> QED BY <1>2, <1>5, <2>1, ProgramFacts DEF Blocks
<1>7. IsState(act.st)
  BY <1>1 DEF IsActivation
<1>8. PICK in, queue :
          /\ act' = [act EXCEPT !.in = in, !.queue = queue, !.todo = Tail(@)]
          /\ DOMAIN in = DOMAIN act.in \cup {b}
          /\ \A x \in DOMAIN act.in : x # b => in[x] = act.in[x]
          /\ IsState(in[b]) /\ Covers(in[b], act.st)
          /\ b \in DOMAIN act.in => Covers(in[b], act.in[b])
          /\ \/ queue = Enqueue(act.queue, b)
             \/ queue = act.queue /\ b \in DOMAIN act.in /\ in[b] = act.in[b]
  <2>1. CASE VisitSuccessor
    <3> DEFINE new == Put(act.in, b, act.st)
    <3>1. act' = [act EXCEPT !.in = new, !.queue = Enqueue(@, b), !.todo = Tail(@)]
      BY <2>1 DEF VisitSuccessor
    <3>2. /\ DOMAIN new = DOMAIN act.in \cup {b} /\ new[b] = act.st
          /\ \A x \in DOMAIN act.in : x # b => new[x] = act.in[x]
      BY DEF Put
    <3>3. b \notin DOMAIN act.in
      BY <2>1 DEF VisitSuccessor
    <3>4. act' = [act EXCEPT !.in = new, !.queue = Enqueue(act.queue, b), !.todo = Tail(@)]
      BY <1>2, <3>1
    <3> HIDE DEF new
    <3>5. Covers(new[b], act.st) /\ IsState(new[b])
      BY <1>7, <3>2, CoversReflexive
    <3> QED BY <3>2, <3>3, <3>4, <3>5
  <2>2. CASE MergeSuccessor
    <3> DEFINE existing == act.in[b]
               merged   == MergeStates(existing, act.st)
               changed  == ~EqualStates(existing, merged)
               new      == IF changed THEN [act.in EXCEPT ![b] = merged] ELSE act.in
               queue    == IF changed THEN Enqueue(act.queue, b) ELSE act.queue
    <3>1. b \in DOMAIN act.in
      BY <2>2 DEF MergeSuccessor
    <3>2. IsState(existing)
      BY <1>1, <3>1 DEF IsActivation
    <3>3. IsState(merged) /\ Covers(merged, existing) /\ Covers(merged, act.st)
      BY <1>7, <3>2, MergeType, MergeCoversBoth
    <3>4. act' = [act EXCEPT !.in = new, !.queue = queue, !.todo = Tail(@)]
      BY <2>2, <1>2 DEF MergeSuccessor
    <3> HIDE DEF merged, existing
    <3>5. DOMAIN new = DOMAIN act.in /\ \A x \in DOMAIN act.in : x # b => new[x] = act.in[x]
      OBVIOUS
    <3>6. CASE changed
      <4>1. new[b] = merged /\ queue = Enqueue(act.queue, b)
        BY <3>1, <3>6
      <4> HIDE DEF new, queue
      <4> QED BY <3>1, <3>3, <3>4, <3>5, <4>1 DEF existing
    <3>7. CASE ~changed
      <4>1. new[b] = existing /\ queue = act.queue
        BY <3>7 DEF existing
      <4>2. Covers(existing, act.st) /\ Covers(existing, existing)
        BY <3>3, <3>7, EqualCovers, CoversTransitive, CoversReflexive
      <4> HIDE DEF new, queue
      <4> QED BY <3>1, <3>2, <3>4, <3>5, <4>1, <4>2 DEF existing
    <3> QED BY <3>6, <3>7
  <2> QED BY <2>1, <2>2
<1>9. /\ act'.fn = act.fn /\ act'.in = in /\ act'.from = act.from /\ act'.out = act.out
      /\ act'.queue = queue /\ act'.exit = act.exit /\ act'.blk = act.blk
      /\ act'.st = act.st /\ act'.pc = act.pc /\ act'.todo = Tail(act.todo)
      /\ act'.pending = act.pending
  BY <1>2, <1>8 DEF IsRecord
<1>10. Body(act') = Body(act)
  BY <1>9 DEF Body
<1>11. /\ Tail(act.todo) \in Seq(EngineCall) /\ Len(Tail(act.todo)) = Len(act.todo) - 1
       /\ \A k \in DOMAIN Tail(act.todo) : k + 1 \in DOMAIN act.todo
                                           /\ Tail(act.todo)[k] = act.todo[k + 1]
       /\ \A k \in DOMAIN act.todo : k # 1 => k - 1 \in DOMAIN Tail(act.todo)
  BY <1>2, <1>3
<1>12. /\ queue \in Seq(Nat)
       /\ \A k \in DOMAIN queue : queue[k] \in DOMAIN act.in \cup {b}
       /\ \A x : Contains(act.queue, x) => Contains(queue, x)
       /\ in[b] # act.in[b] \/ b \notin DOMAIN act.in => Contains(queue, b)
  <2>1. act.queue \in Seq(Nat) /\ \A k \in DOMAIN act.queue : act.queue[k] \in DOMAIN act.in
    BY <1>1 DEF IsActivation
  <2>2. CASE queue = act.queue /\ b \in DOMAIN act.in /\ in[b] = act.in[b]
    BY <2>1, <2>2
  <2>3. CASE queue = Enqueue(act.queue, b)
    <3>1. /\ queue \in Seq(Nat)
          /\ \A k \in DOMAIN queue : queue[k] = b \/ \E j \in DOMAIN act.queue :
                                                         queue[k] = act.queue[j]
          /\ \A x : Contains(act.queue, x) => Contains(queue, x)
          /\ Contains(queue, b)
      <4> HIDE DEF b
      <4>1. act.queue \in Seq(Nat) /\ b \in Nat
        BY <1>6, <2>1
      <4> DEFINE q == act.queue
                 r == Enqueue(q, b)
      <4>2. /\ r \in Seq(Nat)
            /\ \A k \in DOMAIN r : r[k] = b \/ \E j \in DOMAIN q : r[k] = q[j]
            /\ \A x : Contains(q, x) => Contains(r, x)
            /\ Contains(r, b)
        <5> HIDE DEF q
        <5> QED BY <4>1, EnqueueFacts DEF q
      <4> HIDE DEF r
      <4> QED BY <2>3, <4>2 DEF r
    <3> QED BY <2>1, <3>1
  <2> QED BY <1>8, <2>2, <2>3
<1>13. IsActivation(act')
  <2>1. IsRecord(act')
    BY <1>2, <1>8, <1>11, <1>12 DEF IsRecord
  <2>2. DOMAIN in \subseteq Blocks(Body(act)) /\ \A x \in DOMAIN in : IsState(in[x])
    BY <1>1, <1>6, <1>8 DEF IsActivation
  <2> QED BY <1>1, <1>8, <1>9, <1>10, <1>12, <2>1, <2>2 DEF IsActivation, IsRecord
<1>14. PhaseOK(act')
  <2>1. ASSUME NEW k \in DOMAIN Tail(act.todo)
        PROVE  /\ k = Len(Tail(act.todo)) => Tail(act.todo)[k].do = "leave"
               /\ k # Len(Tail(act.todo)) => Tail(act.todo)[k].do = "merge"
               /\ Tail(act.todo)[k].do = "merge"
                      => Tail(act.todo)[k].succ \in Succs(Body(act), act.blk)
    <3>1. k + 1 \in DOMAIN act.todo /\ Tail(act.todo)[k] = act.todo[k + 1] /\ k \in Nat
      BY <1>2, <1>3, <1>11
    <3>2. (k = Len(Tail(act.todo))) <=> (k + 1 = Len(act.todo))
      BY <1>2, <1>11, <3>1
    <3> QED BY <1>4, <3>1, <3>2
  <2> QED BY <1>4, <1>9, <1>10, <2>1 DEF PhaseOK
<1>15. Covered(act')
  <2> SUFFICES ASSUME NEW x \in DOMAIN act.out, NEW s \in Succs(Body(act), x)
               PROVE  \/ x = act.blk /\ MergePending(act', s)
                      \/ s \in DOMAIN in /\ Covers(in[s], act.out[x])
    BY <1>9, <1>10 DEF Covered
  <2>1. CASE x = act.blk /\ s = b
    BY <1>4, <1>8, <2>1
  <2>2. CASE x = act.blk /\ MergePending(act, s) /\ s # b
    <3>1. PICK k \in DOMAIN act.todo : act.todo[k].do = "merge" /\ act.todo[k].succ = s
      BY <2>2 DEF MergePending
    <3>2. k # 1
      BY <1>3, <2>2, <3>1
    <3>3. k - 1 \in DOMAIN Tail(act.todo) /\ Tail(act.todo)[k - 1] = act.todo[k]
      BY <1>2, <1>3, <1>11, <3>1, <3>2
    <3> QED BY <1>9, <2>2, <3>1, <3>3 DEF MergePending
  <2>3. CASE s \in DOMAIN act.in /\ Covers(act.in[s], act.out[x])
    <3>1. Covers(in[s], act.in[s])
      BY <1>8, <2>3, CoversReflexive
    <3> QED BY <1>8, <2>3, <3>1, CoversTransitive
  <2> QED BY <1>1, <2>1, <2>2, <2>3 DEF Covered
<1>16. Fresh(act')
  <2> SUFFICES ASSUME NEW x \in DOMAIN in
               PROVE  Contains(queue, x) \/ (x \in DOMAIN act.from /\ act.from[x] = in[x])
    BY <1>9 DEF Fresh
  <2>1. CASE x \in DOMAIN act.in /\ in[x] = act.in[x]
    BY <1>1, <1>12, <2>1 DEF Fresh
  <2>2. CASE ~(x \in DOMAIN act.in /\ in[x] = act.in[x])
    BY <1>8, <1>12, <2>2
  <2> QED BY <2>1, <2>2
<1>17. ErrsOK'
  <2>1. CASE VisitSuccessor
    BY <2>1 DEF VisitSuccessor, ErrsOK
  <2>2. CASE MergeSuccessor
    <3>1. b \in DOMAIN act.in
      BY <2>2 DEF MergeSuccessor
    <3>2. MergeViolations(act.in[b], act.st) \subseteq Codes
      BY <1>1, <1>7, <3>1, MergeType DEF IsActivation
    <3>3. AtBlock(MergeViolations(act.in[b], act.st), act, b)
              \subseteq [code : Codes, fn : Fns, blk : Nat, pc : Nat]
      BY <1>2, <1>6, <3>2, AtBlockType
    <3>4. errs' = errs \cup AtBlock(MergeViolations(act.in[b], act.st), act, b)
      BY <2>2 DEF MergeSuccessor
    <3> QED BY <3>3, <3>4 DEF ErrsOK
  <2> QED BY <2>1, <2>2
<1> QED BY <1>13, <1>14, <1>15, <1>16, <1>17 DEF ActivationInv

(* After the last merge the block is left.                                 *)
LEMMA LeaveBlockInv ==
    ASSUME prog \in Programs, ActivationInv(act), LeaveBlock
    PROVE  ActivationInv(act')
<1>1. /\ IsActivation(act) /\ PhaseOK(act) /\ Covered(act) /\ Fresh(act)
      /\ Doing("leave") /\ act' = [act EXCEPT !.blk = 0, !.todo = Tail(@)]
  BY DEF ActivationInv, LeaveBlock
<1>2. IsRecord(act) /\ act.todo \in Seq(EngineCall)
  BY <1>1 DEF IsActivation, IsRecord
<1>3. 1 \in DOMAIN act.todo /\ act.todo # <<>> /\ act.todo[1].do = "leave"
  BY <1>1, <1>2 DEF Doing
<1>4. \A k \in DOMAIN act.todo : k # Len(act.todo) => act.todo[k].do = "merge"
  <2>1. MergePhase(act)
    BY <1>3 DEF MergePhase
  <2> QED BY <1>1, <2>1 DEF PhaseOK
<1>5. Len(act.todo) = 1
  BY <1>2, <1>3, <1>4
<1>6. Tail(act.todo) \in Seq(EngineCall) /\ DOMAIN Tail(act.todo) = {}
  <2> DEFINE t == Tail(act.todo)
  <2>1. t \in Seq(EngineCall) /\ Len(t) = 0
    BY <1>2, <1>3, <1>5
  <2> HIDE DEF t
  <2>2. DOMAIN t = {}
    BY <2>1
  <2> QED BY <2>1, <2>2 DEF t
<1>7. /\ act'.fn = act.fn /\ act'.in = act.in /\ act'.from = act.from /\ act'.out = act.out
      /\ act'.queue = act.queue /\ act'.exit = act.exit /\ act'.blk = 0
      /\ act'.st = act.st /\ act'.pc = act.pc /\ act'.todo = Tail(act.todo)
      /\ act'.pending = act.pending
  BY <1>1, <1>2 DEF IsRecord
<1>8. Body(act') = Body(act)
  BY <1>7 DEF Body
<1>9. IsActivation(act')
  <2>1. IsRecord(act')
    BY <1>1, <1>2, <1>6 DEF IsRecord
  <2> QED BY <1>1, <1>7, <1>8, <2>1 DEF IsActivation, IsRecord
<1>10. PhaseOK(act')
  BY <1>6, <1>7 DEF PhaseOK, MergePhase
<1>11. Covered(act')
  <2>1. \A s : ~MergePending(act, s)
    <3>1. \A k \in DOMAIN act.todo : k = 1
      BY <1>2, <1>5
    <3> QED BY <1>3, <3>1 DEF MergePending
  <2> QED BY <1>1, <1>7, <1>8, <2>1 DEF Covered
<1>12. Fresh(act')
  BY <1>1, <1>7 DEF Fresh
<1> QED BY <1>9, <1>10, <1>11, <1>12 DEF ActivationInv

---------------------------------------------------------------------------
(* The other steps: the calls of handlers and the exit.                    *)

NoMerge(todo) == \A k \in DOMAIN todo : todo[k].do \notin {"merge", "leave"}

(* They change no more than the state and what is left to do.              *)
LEMMA TransferKeeps ==
    ASSUME NEW a, ActivationInv(a), ~MergePhase(a),
           NEW todo \in Seq(EngineCall), NoMerge(todo), NEW st, IsState(st),
           NEW b, b = [a EXCEPT !.st = st, !.todo = todo]
    PROVE  ActivationInv(b) /\ ~MergePhase(b)
<1>1. IsActivation(a) /\ Covered(a) /\ Fresh(a) /\ IsRecord(a)
  BY DEF ActivationInv, IsActivation, IsRecord
<1>2. /\ b.fn = a.fn /\ b.in = a.in /\ b.from = a.from /\ b.out = a.out
      /\ b.queue = a.queue /\ b.exit = a.exit /\ b.blk = a.blk
      /\ b.st = st /\ b.pc = a.pc /\ b.todo = todo /\ b.pending = a.pending
  BY <1>1 DEF IsRecord
<1>3. Body(b) = Body(a)
  BY <1>2 DEF Body
<1>4. IsActivation(b)
  <2>1. IsRecord(b)
    BY <1>1 DEF IsRecord
  <2> QED BY <1>1, <1>2, <1>3, <2>1 DEF IsActivation, IsRecord
<1>5. ~MergePhase(b) /\ PhaseOK(b)
  BY <1>2 DEF NoMerge, MergePhase, PhaseOK
<1>6. Covered(b)
  <2>1. \A s : ~MergePending(a, s)
    BY DEF MergePending, MergePhase
  <2> QED BY <1>1, <1>2, <1>3, <2>1 DEF Covered
<1>7. Fresh(b)
  BY <1>1, <1>2 DEF Fresh
<1> QED BY <1>4, <1>5, <1>6, <1>7 DEF ActivationInv

(* What is left after the call under way, outside of the merges.           *)
LEMMA TailFacts ==
    ASSUME ActivationInv(act), ~MergePhase(act), act.todo # <<>>
    PROVE  /\ Tail(act.todo) \in Seq(EngineCall) /\ NoMerge(Tail(act.todo))
           /\ call \in EngineCall
           /\ \A c \in EngineCall : c.do \notin {"merge", "leave"} =>
                  /\ <<c>> \o Tail(act.todo) \in Seq(EngineCall)
                  /\ NoMerge(<<c>> \o Tail(act.todo))
<1> DEFINE todo == act.todo
<1>1. todo \in Seq(EngineCall) /\ NoMerge(todo)
  BY DEF ActivationInv, IsActivation, MergePhase, NoMerge
<1>2. call = todo[1] /\ 1 \in DOMAIN todo
  BY <1>1 DEF call
<1> DEFINE tail == Tail(todo)
<1> HIDE DEF todo
<1>3. tail \in Seq(EngineCall) /\ \A k \in DOMAIN tail : k + 1 \in DOMAIN todo
                                                         /\ tail[k] = todo[k + 1]
  BY <1>1, <1>2
<1>4. NoMerge(tail) /\ call \in EngineCall
  BY <1>1, <1>2, <1>3 DEF NoMerge
<1> HIDE DEF tail
<1>5. ASSUME NEW c \in EngineCall, c.do \notin {"merge", "leave"}
      PROVE  <<c>> \o tail \in Seq(EngineCall) /\ NoMerge(<<c>> \o tail)
  <2> DEFINE t == <<c>> \o tail
  <2>1. <<c>> \in Seq(EngineCall)
    OBVIOUS
  <2>2. /\ t \in Seq(EngineCall) /\ t[1] = c /\ DOMAIN t = 1..(Len(tail) + 1)
        /\ \A k \in 1..Len(tail) : t[k + 1] = tail[k]
    BY <1>3, <2>1
  <2>3. ASSUME NEW k \in DOMAIN t
        PROVE  t[k] = c \/ \E j \in DOMAIN tail : t[k] = tail[j]
    <3>1. CASE k = 1
      BY <2>2, <3>1
    <3>2. CASE k # 1
      <4>1. k - 1 \in 1..Len(tail) /\ k = (k - 1) + 1
        BY <1>3, <2>2, <3>2
      <4> HIDE DEF t
      <4>2. t[k] = tail[k - 1] /\ k - 1 \in DOMAIN tail
        BY <1>3, <2>2, <4>1
      <4> QED BY <4>2
    <3> QED BY <3>1, <3>2
  <2> HIDE DEF t
  <2>4. NoMerge(t)
    BY <1>4, <1>5, <2>3 DEF NoMerge
  <2> QED BY <2>2, <2>4 DEF t
<1> QED BY <1>3, <1>4, <1>5 DEF tail, todo

(* A call of a handler.                                                    *)
LEMMA MakeInv ==
    ASSUME ErrsOK, ActivationInv(act), NEW do, do \notin {"merge", "leave"},
           NEW result, IsOutcome(result), Make(do, result)
    PROVE  ActivationInv(act') /\ ErrsOK'
<1>1. act.todo # <<>> /\ ~MergePhase(act)
  BY NotMerging DEF Make, Doing
<1>2. IsRecord(act) /\ act' = [act EXCEPT !.st = result.st, !.todo = Tail(act.todo)]
  BY DEF Make, ActivationInv, IsActivation, IsRecord
<1>3. ActivationInv(act')
  BY <1>1, <1>2, TailFacts, TransferKeeps DEF IsOutcome
<1>4. AtInstruction(result.errs, act) \subseteq [code : Codes, fn : Fns, blk : Nat, pc : Nat]
  BY <1>2 DEF AtInstruction, IsOutcome, IsRecord
<1> QED BY <1>3, <1>4 DEF Make, ErrsOK

(* Every transfer of the engine is such a call, with an outcome.           *)
LEMMA TransferStepInv ==
    ASSUME ErrsOK, ActivationInv(act), TransferStep
    PROVE  ActivationInv(act') /\ ErrsOK'
<1>1. IsState(act.st)
  BY DEF ActivationInv, IsActivation
<1>2. ASSUME act.todo # <<>>
      PROVE  call \in EngineCall
  <2>1. act.todo \in Seq(EngineCall)
    BY DEF ActivationInv, IsActivation
  <2> QED BY <1>2, <2>1 DEF call
<1>3. CASE CheckInstructionUse
  BY <1>1, <1>3, MakeInv, UseOutcome DEF CheckInstructionUse
<1>4. CASE FlowAssign
  <2>1. call.dst \in Place /\ call.cap \in Caps
    BY <1>2, <1>4, CallFacts DEF FlowAssign, Make, Doing, call
  <2> QED BY <1>1, <1>4, <2>1, MakeInv, FlowAssignOutcome DEF FlowAssign
<1>5. CASE Assign
  <2>1. call.dst \in Place /\ call.value \in Value
    BY <1>2, <1>5, CallFacts DEF Assign, Make, Doing, call
  <2> QED BY <1>1, <1>5, <2>1, MakeInv, AssignOutcome DEF Assign
<1>6. CASE FieldStore
  <2>1. call.move \in Pending
    BY <1>2, <1>6, CallFacts DEF FieldStore, Make, Doing, call
  <2> QED BY <1>1, <1>6, <2>1, MakeInv, FieldStoreOutcome DEF FieldStore
<1>7. CASE StoreFrontier \/ MapFrontier \/ Unsafe
  <2>1. call.place \in OptionalPlace
    BY <1>2, <1>7, CallFacts DEF StoreFrontier, MapFrontier, Unsafe, Make, Doing, call
  <2> QED BY <1>1, <1>7, <2>1, MakeInv, FrontierOutcome DEF StoreFrontier, MapFrontier, Unsafe
<1>8. CASE Transfer \/ RestoreArgument
  <2>1. call.place \in OptionalPlace
    BY <1>2, <1>8, CallFacts DEF Transfer, RestoreArgument, Make, Doing, call
  <2> QED BY <1>1, <1>8, <2>1, MakeInv, TransferOutcome DEF Transfer, RestoreArgument
<1>9. CASE CallArgument \/ DeferredArgument \/ Activate
  <2>1. call.place \in OptionalPlace
    BY <1>2, <1>9, CallFacts DEF CallArgument, DeferredArgument, Activate, Make, Doing, call
  <2> QED BY <1>1, <1>9, <2>1, MakeInv, ArgumentOutcome
          DEF CallArgument, DeferredArgument, Activate
<1>10. CASE Register
  <2>1. call.site \in DeferSites
    BY <1>2, <1>10, CallFacts DEF Register, Make, Doing, call
  <2> QED BY <1>1, <1>10, <2>1, MakeInv, RegisterOutcome DEF Register
<1>11. CASE RestoreResult
  <2>1. call.place \in OptionalPlace
    BY <1>2, <1>11, CallFacts DEF RestoreResult, Make, Doing, call
  <2> QED BY <1>1, <1>11, <2>1, MakeInv, RestoreResultOutcome DEF RestoreResult
<1>12. CASE Swap
  BY <1>1, <1>12, MakeInv, SwapOutcome DEF Swap
<1>13. CASE Freeze \/ ExplicitBorrow
  <2>1. call.place \in OptionalPlace
    BY <1>2, <1>13, CallFacts DEF Freeze, ExplicitBorrow, Make, Doing, call
  <2> QED BY <1>1, <1>13, <2>1, MakeInv, IntrinsicOutcome DEF Freeze, ExplicitBorrow
<1>14. CASE ReturnFrontier \/ ReturnConflict
  BY <1>1, <1>14, MakeInv, ReturnOutcome DEF ReturnFrontier, ReturnConflict
<1>15. CASE ReturnValue
  <2>1. call.place \in OptionalPlace
    BY <1>2, <1>15, CallFacts DEF ReturnValue, Make, Doing, call
  <2> QED BY <1>1, <1>15, <2>1, MakeInv, ReturnOutcome DEF ReturnValue
<1>16. CASE DeferredEffect
  <2>1. call.place \in Place
    BY <1>2, <1>16, CallFacts DEF DeferredEffect, Make, Doing, call
  <2> QED BY <1>1, <1>16, <2>1, MakeInv, EffectOutcome DEF DeferredEffect
<1> QED BY <1>3, <1>4, <1>5, <1>6, <1>7, <1>8, <1>9, <1>10, <1>11, <1>12, <1>13, <1>14,
           <1>15, <1>16 DEF TransferStep

(* A transfer leaves the worklist and the callers alone.                   *)
LEMMA TransferKeepsRest ==
    ASSUME TransferStep
    PROVE  /\ prog' = prog /\ callers' = callers
           /\ IsRecord(act) => act'.in = act.in
<1> DEFINE Kept == /\ prog' = prog /\ callers' = callers
                   /\ IsRecord(act) => act'.in = act.in
<1>1. ASSUME NEW do, NEW result, Make(do, result)
      PROVE  Kept
  BY <1>1 DEF Make, IsRecord
<1> HIDE DEF Kept
<1>2. Kept
  BY <1>1 DEF TransferStep, CheckInstructionUse, FlowAssign, Assign, FieldStore,
     StoreFrontier, MapFrontier, Transfer, CallArgument, DeferredArgument, Activate,
     Register, RestoreArgument, RestoreResult, Swap, Unsafe, Freeze, ExplicitBorrow,
     ReturnFrontier, ReturnValue, ReturnConflict, DeferredEffect
<1> QED BY <1>2 DEF Kept

(* Calls put before others.                                                *)
LEMMA NoMergeConcat ==
    ASSUME NEW t \in Seq(EngineCall), NoMerge(t), NEW u \in Seq(EngineCall), NoMerge(u)
    PROVE  t \o u \in Seq(EngineCall) /\ NoMerge(t \o u)
<1> DEFINE v == t \o u
<1>1. /\ v \in Seq(EngineCall) /\ Len(v) = Len(t) + Len(u) /\ DOMAIN v = 1..Len(v)
      /\ \A k \in 1..Len(t) : v[k] = t[k]
      /\ \A k \in 1..Len(v) : k > Len(t) => v[k] = u[k - Len(t)]
      /\ Len(t) \in Nat /\ Len(u) \in Nat
  OBVIOUS
<1> HIDE DEF v
<1>2. ASSUME NEW k \in DOMAIN v
      PROVE  v[k].do \notin {"merge", "leave"}
  <2>1. CASE k \in 1..Len(t)
    BY <1>1, <2>1 DEF NoMerge
  <2>2. CASE k \notin 1..Len(t)
    <3>1. v[k] = u[k - Len(t)] /\ k - Len(t) \in 1..Len(u)
      BY <1>1, <2>2
    <3> QED BY <3>1 DEF NoMerge
  <2> QED BY <2>1, <2>2
<1> QED BY <1>1, <1>2 DEF NoMerge, v

(* The calls a group's effects make.                                       *)
LEMMA EffectCallsType ==
    ASSUME prog \in Programs, NEW a, a.fn \in Fns, NEW k \in DeferSites
    PROVE  EffectCalls(prog.groups[k].effects) \in Seq(EngineCall)
           /\ NoMerge(EffectCalls(prog.groups[k].effects))
<1> DEFINE Effect == [cap : {"iso", "mub", "rob"}, place : Place]
           effects == prog.groups[k].effects
           calls == EffectCalls(effects)
<1>1. effects \in Seq(Effect)
  <2>1. prog.groups[k] \in Group
    BY ProgramFacts
  <2> QED BY <2>1 DEF Group
<1> HIDE DEF effects
<1>2. \A j \in DOMAIN effects : effects[j].place \in Place
                              /\ effects[j].cap \in {"iso", "mub", "rob"}
  <2> HIDE DEF Effect
  <2>1. \A j \in DOMAIN effects : effects[j] \in Effect
    BY <1>1
  <2> QED BY <2>1 DEF Effect
<1>3. /\ calls = [j \in DOMAIN effects |-> calls[j]] /\ DOMAIN calls = DOMAIN effects
      /\ \A j \in DOMAIN effects :
            calls[j] = [do |-> "effect", place |-> effects[j].place, cap |-> effects[j].cap]
  BY DEF EffectCalls
<1> HIDE DEF calls
<1>4. ASSUME NEW j \in DOMAIN effects
      PROVE  calls[j] \in EngineCall /\ calls[j].do \notin {"merge", "leave"}
  BY <1>2, <1>3 DEF EngineCall, Call
<1> HIDE DEF Effect
<1>5. calls \in Seq(EngineCall) /\ NoMerge(calls)
  BY <1>1, <1>3, <1>4, SeqByPoints DEF NoMerge
<1> QED BY <1>5 DEF calls, effects

(* The rest of the groups.                                                 *)
LEMMA WithoutGroupType ==
    ASSUME ActivationInv(act), Doing("groups"), NEW k
    PROVE  WithoutGroup(k) \in Seq(EngineCall) /\ NoMerge(WithoutGroup(k))
           /\ call.left \subseteq DeferSites /\ ~MergePhase(act)
<1>1. act.todo # <<>> /\ Head(act.todo).do = "groups" /\ ~MergePhase(act)
  BY NotMerging DEF Doing
<1> DEFINE c == [do |-> "groups", left |-> call.left \ {k}]
<1>2. call.left \subseteq DeferSites
  BY <1>1, TailFacts, CallFacts DEF call
<1>3. c \in EngineCall /\ c.do \notin {"merge", "leave"}
  BY <1>2 DEF EngineCall, Call
<1>4. WithoutGroup(k) = <<c>> \o Tail(act.todo)
  BY DEF WithoutGroup
<1> HIDE DEF c
<1> QED BY <1>1, <1>2, <1>3, <1>4, TailFacts

(* The steps at a return that stay in the activation.                      *)
LEMMA ExitInv ==
    ASSUME prog \in Programs, ErrsOK, ActivationInv(act),
           Exit \/ RefuseRepeatedMove \/ RunDeferredEffects \/ NoGroupLeft
    PROVE  ActivationInv(act') /\ ErrsOK'
<1>1. act.todo # <<>> /\ Head(act.todo).do \in {"exit", "groups"} /\ ~MergePhase(act)
  BY NotMerging DEF Exit, RefuseRepeatedMove, RunDeferredEffects, NoGroupLeft, Doing
<1>2. IsRecord(act) /\ IsState(act.st) /\ IsActivation(act)
  BY DEF ActivationInv, IsActivation, IsRecord
<1>3. \A left \in SUBSET DeferSites :
          [do |-> "groups", left |-> left] \in EngineCall
  BY DEF EngineCall, Call
<1>4. ASSUME NEW todo \in Seq(EngineCall), NoMerge(todo), act' = [act EXCEPT !.todo = todo]
      PROVE  ActivationInv(act')
  <2>1. act' = [act EXCEPT !.st = act.st, !.todo = todo]
    BY <1>2, <1>4 DEF IsRecord
  <2> QED BY <1>1, <1>2, <1>4, <2>1, TransferKeeps
<1>5. CASE Exit
  <2> DEFINE c == [do |-> "groups", left |-> DOMAIN act.st.deferred]
             todo == <<c>> \o Tail(act.todo)
  <2>1. c \in EngineCall /\ c.do \notin {"merge", "leave"}
    BY <1>2, <1>3 DEF IsState
  <2>2. act' = [act EXCEPT !.todo = todo] /\ errs' = errs
    BY <1>2, <1>5 DEF Exit, IsRecord
  <2> HIDE DEF c
  <2>3. todo \in Seq(EngineCall) /\ NoMerge(todo)
    BY <1>1, <2>1, TailFacts
  <2> QED BY <1>4, <2>2, <2>3 DEF ErrsOK
<1>7. CASE RefuseRepeatedMove
  <2>1. PICK k : act' = [act EXCEPT !.todo = WithoutGroup(k)]
    BY <1>7 DEF RefuseRepeatedMove
  <2>2. ActivationInv(act')
    BY <1>4, <1>7, <2>1, WithoutGroupType DEF RefuseRepeatedMove
  <2>3. AtInstruction({"GWN001"}, act) \subseteq [code : Codes, fn : Fns, blk : Nat, pc : Nat]
    BY <1>2, CodesKnown DEF AtInstruction, IsRecord
  <2> QED BY <1>7, <2>2, <2>3 DEF RefuseRepeatedMove, ErrsOK
<1>8. CASE RunDeferredEffects
  <2>1. PICK k \in call.left :
            act' = [act EXCEPT !.todo =
                        EffectCalls(prog.groups[k].effects) \o WithoutGroup(k)]
    BY <1>8 DEF RunDeferredEffects
  <2> DEFINE calls == EffectCalls(prog.groups[k].effects)
             rest == WithoutGroup(k)
             todo == calls \o rest
  <2>2. rest \in Seq(EngineCall) /\ NoMerge(rest) /\ k \in DeferSites
    BY <1>8, WithoutGroupType DEF RunDeferredEffects
  <2>3. calls \in Seq(EngineCall) /\ NoMerge(calls)
    BY <1>2, <2>2, EffectCallsType DEF IsRecord
  <2>4. act' = [act EXCEPT !.todo = todo] /\ errs' = errs
    BY <1>8, <2>1 DEF RunDeferredEffects
  <2> HIDE DEF rest, calls
  <2>5. todo \in Seq(EngineCall) /\ NoMerge(todo)
    BY <2>2, <2>3, NoMergeConcat
  <2> HIDE DEF todo
  <2> QED BY <1>4, <2>4, <2>5 DEF ErrsOK
<1>9. CASE NoGroupLeft
  <2>1. act' = [act EXCEPT !.todo = Tail(act.todo)] /\ errs' = errs
    BY <1>2, <1>9 DEF NoGroupLeft, IsRecord
  <2> QED BY <1>1, <1>4, <2>1, TailFacts DEF ErrsOK
<1> QED BY <1>5, <1>7, <1>8, <1>9

(* A sequence is one of its own elements.                                  *)
LEMMA SeqOfElements ==
    ASSUME NEW S, NEW s \in Seq(S)
    PROVE  s \in Seq({s[k] : k \in DOMAIN s})
<1> DEFINE T == {s[k] : k \in DOMAIN s}
<1>1. \A k \in DOMAIN s : s[k] \in T
  OBVIOUS
<1> HIDE DEF T
<1>2. s \in Seq(T)
  BY <1>1
<1> QED BY <1>2 DEF T

(* The invariant of the next state from its parts.                         *)
LEMMA InvOfNext ==
    ASSUME prog \in Programs, prog' = prog, ErrsOK,
           errs' = errs \/ ErrsOK',
           callers' \in Seq({callers'[k] : k \in DOMAIN callers'}),
           ActivationInv(act'),
           \A k \in DOMAIN callers' : ActivationInv(callers'[k]) /\ ~MergePhase(callers'[k])
    PROVE  Inv'
<1>1. ActivationInv(act)'
  <2>1. IsActivation(act)'
    BY DEF ActivationInv, IsActivation, Body, Blocks
  <2>2. PhaseOK(act)'
    BY DEF ActivationInv, PhaseOK, MergePhase, Body, Succs
  <2>3. Covered(act)'
    BY DEF ActivationInv, Covered, MergePending, Body, Succs
  <2>4. Fresh(act)'
    BY DEF ActivationInv, Fresh
  <2> QED BY <2>1, <2>2, <2>3, <2>4 DEF ActivationInv
<1>2. ASSUME NEW k \in DOMAIN callers'
      PROVE  ActivationInv(callers[k])' /\ ~MergePhase(callers[k])'
  <2>1. IsActivation(callers[k])'
    BY DEF ActivationInv, IsActivation, Body, Blocks
  <2>2. PhaseOK(callers[k])'
    BY DEF ActivationInv, PhaseOK, MergePhase, Body, Succs
  <2>3. Covered(callers[k])'
    BY DEF ActivationInv, Covered, MergePending, Body, Succs
  <2>4. Fresh(callers[k])' /\ ~MergePhase(callers[k])'
    BY DEF ActivationInv, Fresh, MergePhase
  <2> QED BY <2>1, <2>2, <2>3, <2>4 DEF ActivationInv
<1>3. ErrsOK'
  BY DEF ErrsOK
<1> QED BY <1>1, <1>2, <1>3 DEF Inv

(* A deferred closure starts as an activation of its own, and the one that *)
(* runs it waits outside of any merge.                                     *)
LEMMA RunDeferredClosureInv ==
    ASSUME Inv, RunDeferredClosure
    PROVE  Inv'
<1>1. /\ prog \in Programs /\ ErrsOK /\ ActivationInv(act) /\ prog' = prog /\ errs' = errs
      /\ callers \in Seq({callers[k] : k \in DOMAIN callers}) /\ Doing("groups")
      /\ \A k \in DOMAIN callers : ActivationInv(callers[k]) /\ ~MergePhase(callers[k])
  BY DEF Inv, RunDeferredClosure
<1>2. PICK k \in call.left :
          /\ prog.groups[k].closure # NoFn
          /\ callers' = Append(callers, [act EXCEPT !.todo = WithoutGroup(k)])
          /\ act' = Activation(prog.groups[k].closure, InitialOf(act.st))
  BY DEF RunDeferredClosure
<1>3. /\ WithoutGroup(k) \in Seq(EngineCall) /\ NoMerge(WithoutGroup(k))
      /\ k \in DeferSites /\ ~MergePhase(act)
  BY <1>1, WithoutGroupType
<1>4. IsRecord(act) /\ IsState(act.st) /\ act.fn \in Fns
  BY <1>1 DEF ActivationInv, IsActivation, IsRecord
<1> DEFINE waiting == [act EXCEPT !.todo = WithoutGroup(k)]
           initial == InitialOf(act.st)
           closure == prog.groups[k].closure
<1>5. ActivationInv(waiting) /\ ~MergePhase(waiting)
  <2>1. waiting = [act EXCEPT !.st = act.st, !.todo = WithoutGroup(k)]
    BY <1>4 DEF IsRecord
  <2> QED BY <1>1, <1>3, <1>4, <2>1, TransferKeeps
<1>6. IsState(initial)
  BY <1>4 DEF InitialOf, IsState, NoDeferred
<1>7. closure \in Fns
  <2>1. prog.groups[k] \in Group
    BY <1>1, <1>3, <1>4, ProgramFacts
  <2> QED BY <1>2, <2>1 DEF Group
<1>8. ActivationInv(act')
  BY <1>1, <1>2, <1>6, <1>7, ActivationStarts
<1> HIDE DEF waiting, initial, closure
<1>9. /\ callers' \in Seq({callers'[j] : j \in DOMAIN callers'})
      /\ \A j \in DOMAIN callers' : (j \in DOMAIN callers /\ callers'[j] = callers[j])
                                    \/ callers'[j] = waiting
  <2> DEFINE S == {callers[j] : j \in DOMAIN callers}
  <2>1. callers' = Append(callers, waiting)
    BY <1>2 DEF waiting
  <2> HIDE DEF S
  <2>2. callers \in Seq(S \cup {waiting})
    <3>1. callers \in Seq(S)
      BY <1>1 DEF S
    <3> QED BY <3>1
  <2>3. callers' \in Seq(S \cup {waiting})
    BY <2>1, <2>2
  <2>4. \A j \in DOMAIN callers' : (j \in DOMAIN callers /\ callers'[j] = callers[j])
                                  \/ callers'[j] = waiting
    BY <2>1, <2>2
  <2> QED BY <2>3, <2>4, SeqOfElements
<1>10. \A j \in DOMAIN callers' : ActivationInv(callers'[j]) /\ ~MergePhase(callers'[j])
  BY <1>1, <1>5, <1>9
<1> QED BY <1>1, <1>8, <1>9, <1>10, InvOfNext

(* The one that waits goes on with the exit state of the closure.          *)
LEMMA ReturnFromClosureInv ==
    ASSUME Inv, ReturnFromClosure
    PROVE  Inv'
<1>1. /\ prog \in Programs /\ ErrsOK /\ ActivationInv(act) /\ prog' = prog /\ errs' = errs
      /\ callers \in Seq({callers[k] : k \in DOMAIN callers}) /\ callers # <<>>
      /\ \A k \in DOMAIN callers : ActivationInv(callers[k]) /\ ~MergePhase(callers[k])
      /\ callers' = Front(callers)
  BY DEF Inv, ReturnFromClosure
<1> DEFINE a == callers[Len(callers)]
           st == IF act.exit = {} THEN a.st
                 ELSE [(CHOOSE s \in act.exit : TRUE) EXCEPT !.deferred = a.st.deferred]
<1>2. Len(callers) \in DOMAIN callers /\ Last(callers) = a
  BY <1>1 DEF Last
<1>3. IsActivation(a) /\ IsState(a.st) /\ IsRecord(a) /\ ~MergePhase(a) /\ ActivationInv(a)
  BY <1>1, <1>2 DEF ActivationInv, IsActivation, IsRecord
<1> HIDE DEF a
<1>4. act' = [a EXCEPT !.st = st, !.todo = a.todo]
  BY <1>2, <1>3 DEF ReturnFromClosure, IsRecord
<1>5. IsState(st)
  <2>1. CASE act.exit = {}
    BY <1>3, <2>1
  <2>2. CASE act.exit # {}
    <3> DEFINE s == CHOOSE s \in act.exit : TRUE
    <3>1. IsState(s)
      BY <1>1, <2>2 DEF ActivationInv, IsActivation
    <3> HIDE DEF s
    <3> DEFINE t == a.st
    <3>2. st = [s EXCEPT !.deferred = t.deferred]
      BY <2>2 DEF s
    <3>3. IsState(t)
      BY <1>3
    <3> HIDE DEF t, st
    <3> QED BY <3>1, <3>2, <3>3 DEF IsState
  <2> QED BY <2>1, <2>2
<1> HIDE DEF st
<1>6. ActivationInv(act')
  <2>1. a.todo \in Seq(EngineCall) /\ NoMerge(a.todo)
    BY <1>3 DEF IsRecord, MergePhase, NoMerge
  <2> QED BY <1>3, <1>4, <1>5, <2>1, TransferKeeps
<1>7. /\ callers' \in Seq({callers'[k] : k \in DOMAIN callers'})
      /\ \A k \in DOMAIN callers' : k \in DOMAIN callers /\ callers'[k] = callers[k]
  <2> DEFINE S == {callers[k] : k \in DOMAIN callers}
  <2>1. callers \in Seq(S) /\ callers' = SubSeq(callers, 1, Len(callers) - 1)
    BY <1>1 DEF Front
  <2> HIDE DEF S
  <2>2. callers' \in Seq(S)
        /\ \A k \in DOMAIN callers' : k \in DOMAIN callers /\ callers'[k] = callers[k]
    BY <1>1, <2>1
  <2> QED BY <2>2, SeqOfElements
<1>8. \A k \in DOMAIN callers' : ActivationInv(callers'[k]) /\ ~MergePhase(callers'[k])
  BY <1>1, <1>7
<1> QED BY <1>1, <1>6, <1>7, <1>8, InvOfNext


---------------------------------------------------------------------------
(* The theorems.                                                           *)

(* The checker starts on the function's body with an empty state.          *)
LEMMA InitInv == Init => Inv
<1> SUFFICES ASSUME Init PROVE Inv
  OBVIOUS
<1>1. ActivationInv(act)
  BY ActivationStarts, NewStateType, MainAssumption DEF Init
<1>2. callers = <<>> /\ callers \in Seq({callers[k] : k \in DOMAIN callers})
  BY DEF Init
<1> QED BY <1>1, <1>2 DEF Init, Inv, ErrsOK

(* Every step of the engine keeps the invariant.                           *)
LEMMA NextInv == Inv /\ [Next]_vars => Inv'
<1> SUFFICES ASSUME Inv, [Next]_vars PROVE Inv'
  OBVIOUS
<1>1. /\ prog \in Programs /\ ErrsOK /\ ActivationInv(act)
      /\ callers \in Seq({callers[k] : k \in DOMAIN callers})
      /\ \A k \in DOMAIN callers : ActivationInv(callers[k]) /\ ~MergePhase(callers[k])
  BY DEF Inv
<1>2. ASSUME prog' = prog, callers' = callers, errs' = errs \/ ErrsOK', ActivationInv(act')
      PROVE  Inv'
  BY <1>1, <1>2, InvOfNext
<1>3. CASE PopBlock
  BY <1>1, <1>2, <1>3, PopBlockInv DEF PopBlock
<1>4. CASE NextInstruction
  BY <1>1, <1>2, <1>4, NextInstructionInv DEF NextInstruction
<1>5. CASE EndBlock
  <2>1. prog' = prog /\ callers' = callers
    BY <1>5 DEF EndBlock
  <2> QED BY <1>1, <1>2, <1>5, <2>1, EndBlockInv
<1>6. CASE VisitSuccessor \/ MergeSuccessor
  <2>1. prog' = prog /\ callers' = callers
    BY <1>6 DEF VisitSuccessor, MergeSuccessor
  <2> QED BY <1>1, <1>2, <1>6, <2>1, MergeInv
<1>7. CASE LeaveBlock
  BY <1>1, <1>2, <1>7, LeaveBlockInv DEF LeaveBlock
<1>8. CASE TransferStep
  <2>1. prog' = prog /\ callers' = callers
    BY <1>8, TransferKeepsRest
  <2> QED BY <1>1, <1>2, <1>8, <2>1, TransferStepInv
<1>9. CASE Exit \/ RefuseRepeatedMove \/ RunDeferredEffects \/ NoGroupLeft
  <2>1. prog' = prog /\ callers' = callers
    BY <1>9 DEF Exit, RefuseRepeatedMove, RunDeferredEffects, NoGroupLeft
  <2> QED BY <1>1, <1>2, <1>9, <2>1, ExitInv
<1>10. CASE RunDeferredClosure
  BY <1>10, RunDeferredClosureInv
<1>11. CASE ReturnFromClosure
  BY <1>11, ReturnFromClosureInv
<1>12. CASE UNCHANGED vars
  BY <1>1, <1>2, <1>12 DEF vars
<1> QED BY <1>3, <1>4, <1>5, <1>6, <1>7, <1>8, <1>9, <1>10, <1>11, <1>12
        DEF Next, WorklistStep, ExitStep, Stop

(* What the invariant says.                                                *)
LEMMA InvImplies == Inv => JoinCovered /\ NoStaleBlock
BY DEF Inv, ActivationInv, JoinCovered, NoStaleBlock, Activations

(* Whatever a block leaves reaches the entry of its successors, for every  *)
(* control flow graph and every deferred closure.                          *)
THEOREM JoinsCovered == Spec => []JoinCovered
<1>1. Inv => JoinCovered
  BY InvImplies
<1> QED BY <1>1, InitInv, NextInv, PTL DEF Spec

(* No block is left unqueued with an entry state it was not run from.      *)
THEOREM NoBlockStale == Spec => []NoStaleBlock
<1>1. Inv => NoStaleBlock
  BY InvImplies
<1> QED BY <1>1, InitInv, NextInv, PTL DEF Spec

(* A step never takes a fact back from the entry of a block.               *)
LEMMA StepGrows == Inv /\ [Next]_vars => [EntryGrows]_vars
<1> SUFFICES ASSUME Inv, Next, callers' = callers, NEW b \in DOMAIN act.in
             PROVE  b \in DOMAIN act'.in /\ Covers(act'.in[b], act.in[b])
  BY DEF EntryGrows
<1>1. IsRecord(act) /\ IsActivation(act)
  BY DEF Inv, ActivationInv, IsActivation, IsRecord
<1>2. ASSUME act'.in = act.in
      PROVE  b \in DOMAIN act'.in /\ Covers(act'.in[b], act.in[b])
  BY <1>2, CoversReflexive
<1>3. CASE PopBlock \/ NextInstruction \/ EndBlock \/ LeaveBlock
  <2>1. act'.in = act.in
    BY <1>1, <1>3 DEF IsRecord, PopBlock, NextInstruction, EndBlock, LeaveBlock
  <2> QED BY <1>2, <2>1
<1>4. CASE VisitSuccessor
  <2>1. act'.in = Put(act.in, call.succ, act.st) /\ b # call.succ
    BY <1>1, <1>4 DEF IsRecord, VisitSuccessor
  <2>2. b \in DOMAIN act'.in /\ act'.in[b] = act.in[b]
    BY <2>1 DEF Put
  <2> QED BY <2>2, CoversReflexive
<1>5. CASE MergeSuccessor
  <2> DEFINE merged == MergeStates(act.in[call.succ], act.st)
  <2>1. \/ act'.in = act.in
        \/ call.succ \in DOMAIN act.in /\ act'.in = [act.in EXCEPT ![call.succ] = merged]
    BY <1>1, <1>5 DEF IsRecord, MergeSuccessor
  <2>2. call.succ \in DOMAIN act.in => Covers(merged, act.in[call.succ])
    BY <1>1, MergeCoversBoth DEF IsActivation
  <2> HIDE DEF merged
  <2>3. CASE act'.in = [act.in EXCEPT ![call.succ] = merged] /\ call.succ \in DOMAIN act.in
    BY <2>2, <2>3, CoversReflexive
  <2> QED BY <1>2, <2>1, <2>3
<1>6. CASE TransferStep
  <2>1. act'.in = act.in
    BY <1>1, <1>6, TransferKeepsRest
  <2> QED BY <1>2, <2>1
<1>7. CASE Exit \/ RefuseRepeatedMove \/ RunDeferredEffects \/ NoGroupLeft
  <2>1. act'.in = act.in
    BY <1>1, <1>7 DEF IsRecord, Exit, RefuseRepeatedMove, RunDeferredEffects, NoGroupLeft
  <2> QED BY <1>2, <2>1
<1>8. CASE RunDeferredClosure \/ ReturnFromClosure
  <2>1. PICK S : callers \in Seq(S)
    BY DEF Inv
  <2>2. CASE RunDeferredClosure
    <3>1. PICK x : callers' = Append(callers, x)
      BY <2>2 DEF RunDeferredClosure
    <3>2. Len(callers') = Len(callers) + 1 /\ Len(callers) \in Nat
      <4>1. callers \in Seq(S \cup {x})
        BY <2>1
      <4> QED BY <3>1, <4>1
    <3> QED BY <3>2
  <2>3. CASE ReturnFromClosure
    <3>1. callers' = SubSeq(callers, 1, Len(callers) - 1) /\ callers # <<>>
      BY <2>3 DEF ReturnFromClosure, Front
    <3>2. Len(callers') = Len(callers) - 1 /\ Len(callers) \in Nat
      BY <2>1, <3>1
    <3> QED BY <3>2
  <2> QED BY <1>8, <2>2, <2>3
<1>9. CASE Stop
  BY <1>2, <1>9 DEF Stop, vars
<1> QED BY <1>3, <1>4, <1>5, <1>6, <1>7, <1>8, <1>9 DEF Next, WorklistStep, ExitStep

(* The entry states of the activation that runs only lose precision.       *)
THEOREM EntriesGrow == Spec => EntryStatesGrow
<1> QED BY InitInv, NextInv, StepGrows, PTL DEF Spec, EntryStatesGrow

---------------------------------------------------------------------------
(* The functions of the theorem.  With defers the statement is false: see  *)
(* BorrowsHeldToExit and RepeatedMoveRejected.  The two other conditions   *)
(* leave out what the engine does not know on every path: a variable that  *)
(* borrows different places, and a field initializer whose ownerstamp is a *)
(* flow value, which is forgotten at a join.                               *)

Declared(value) ==
    /\ capTracked(value.cap)
    /\ value.cap = "iso" => value.fresh \/ value.place = NoPlace
                            \/ placeCanTransferAsIso(value.place)

PlainInstruction(i, table) ==
    /\ i.op # "defer"
    /\ i.op = "stage" => Declared(i.value)
    /\ \A d \in RecordedBinds(i) : d.name \in DOMAIN table /\ table[d.name].source = d.source

PlainProgram(p) ==
    \A b \in DOMAIN p.code["main"] : \A k \in DOMAIN p.code["main"][b].instrs :
        PlainInstruction(p.code["main"][b].instrs[k], p.borrows)

---------------------------------------------------------------------------
(* Following: t is the engine's state, s the state of a walk.              *)

Follows(t, s) == Covers(t, s) /\ s.borrows = EmptyBag /\ DOMAIN s.deferred = {}

\* What the engine accepts with result r, the walk does with result q.
Tracks(r, q) == r.errs = {} => q.errs = {} /\ Follows(r.st, q.st)

(* A state without borrows blocks nothing.                                 *)
LEMMA NothingBorrowed ==
    ASSUME NEW s, s.borrows = EmptyBag
    PROVE  /\ \A p : ~Borrowed(s, p)
           /\ \A p, c : ~ConflictsWith(BagToSet(s.borrows), p, c)
BY DEF Borrowed, ConflictsWith, EmptyBag, SetToBag, BagToSet

(* A borrow that begins and ends leaves no trace (applyTemporaryBorrow).   *)
LEMMA BorrowReturned ==
    ASSUME NEW b
    PROVE  (EmptyBag (+) SetToBag({b})) (-) SetToBag({b}) = EmptyBag
<1> DEFINE B == EmptyBag (+) SetToBag({b})
<1>1. DOMAIN B = {b} /\ B[b] = 1
  BY DEF (+), EmptyBag, SetToBag
<1> HIDE DEF B
<1>2. B (-) SetToBag({b}) = EmptyBag
  BY <1>1 DEF (-), EmptyBag, SetToBag
<1> QED BY <1>2 DEF B

(* The updates of a state keep what it follows.                            *)
LEMMA UpdatesFollow ==
    ASSUME NEW t, IsState(t), NEW s, IsState(s), Follows(t, s), NEW p \in Place, NEW c
    PROVE  /\ Follows([t EXCEPT !.consumed = @ \cup {p}], [s EXCEPT !.consumed = @ \cup {p}])
           /\ Follows(UnconsumeRoot(t, p), UnconsumeRoot(s, p))
           /\ Follows(UnfrontierRoot(t, p), UnfrontierRoot(s, p))
           /\ Follows(EnterFrontier(t, p), EnterFrontier(s, p))
           /\ Follows(ClearFlowValue(t, p), ClearFlowValue(s, p))
           /\ Follows(SetFlowValue(t, p, c), SetFlowValue(s, p, c))
<1>1. /\ Follows([t EXCEPT !.consumed = @ \cup {p}], [s EXCEPT !.consumed = @ \cup {p}])
      /\ Follows(UnconsumeRoot(t, p), UnconsumeRoot(s, p))
      /\ Follows(UnfrontierRoot(t, p), UnfrontierRoot(s, p))
      /\ Follows(EnterFrontier(t, p), EnterFrontier(s, p))
  BY DEF Follows, Covers, IsState, UnconsumeRoot, UnfrontierRoot, EnterFrontier
<1>2. Follows(ClearFlowValue(t, p), ClearFlowValue(s, p))
  BY DEF Follows, Covers, IsState, ClearFlowValue, Place
<1>3. Follows(SetFlowValue(t, p, c), SetFlowValue(s, p, c))
  BY DEF Follows, Covers, IsState, SetFlowValue, Place
<1> QED BY <1>1, <1>2, <1>3

(* Rebinding keeps it too.                                                 *)
LEMMA ReboundFollows ==
    ASSUME NEW t, IsState(t), NEW s, IsState(s), Follows(t, s), NEW p \in Place
    PROVE  Follows(Rebound(t, p), Rebound(s, p))
BY UpdatesFollow, MovesType DEF Rebound

(* What the engine does not report, the walk does not commit: moved,       *)
(* frontiered and named-borrowed places.                                   *)
LEMMA FollowsAccepts ==
    ASSUME NEW t, NEW s, Follows(t, s), NEW H, NEW h \in SUBSET H, NEW p
    PROVE  /\ ~CheckUse(t, p) => ~CheckUse(s, p)
           /\ ~CheckFrontier(t, p) => ~CheckFrontier(s, p)
           /\ ~NamedBorrowBlocks(H, p) => ~NamedBorrowBlocks(h, p)
BY CoversRefuses DEF Follows, NamedBorrowBlocks

(* Nothing happens in either state.                                        *)
LEMMA PassedTracks ==
    ASSUME NEW t, NEW s, Follows(t, s)
    PROVE  Tracks(Passed(t), Passed(s))
BY DEF Tracks, Passed

(* A refusal of the engine tracks anything.                                *)
LEMMA FailedTracks ==
    ASSUME NEW t, NEW code, NEW q
    PROVE  Tracks(Failed(t, code), q)
BY DEF Tracks, Failed

(* The moves.                                                              *)
LEMMA ConsumeTracks ==
    ASSUME NEW t, IsState(t), NEW s, IsState(s), Follows(t, s), NEW p \in Place,
           NEW H, NEW h \in SUBSET H
    PROVE  /\ Tracks(ConsumePlace(t, p), ConsumePlace(s, p))
           /\ Tracks(ConsumeRoot(t, p), ConsumeRoot(s, p))
           /\ Tracks(consumeRootAtInstruction(t, p, H), consumeRootAtInstruction(s, p, h))
           /\ Tracks(consumePlaceAtInstruction(t, p, H), consumePlaceAtInstruction(s, p, h))
           /\ Tracks(moveSource(t, p, H), moveSource(s, p, h))
<1>1. /\ ~CheckUse(t, p) => ~CheckUse(s, p)
      /\ ~CheckFrontier(t, p) => ~CheckFrontier(s, p)
      /\ ~NamedBorrowBlocks(H, p) => ~NamedBorrowBlocks(h, p)
  BY FollowsAccepts
<1>2. ~Borrowed(s, p)
  BY NothingBorrowed DEF Follows
<1>3. Follows([t EXCEPT !.consumed = @ \cup {p}], [s EXCEPT !.consumed = @ \cup {p}])
  BY UpdatesFollow
<1>4. Tracks(ConsumePlace(t, p), ConsumePlace(s, p))
  BY <1>1, <1>2, <1>3 DEF Tracks, ConsumePlace, Passed, Failed
<1>5. Tracks(ConsumeRoot(t, p), ConsumeRoot(s, p))
  <2>1. CASE p.path # <<>>
    <3>1. ConsumeRoot(t, p).errs # {}
      BY <2>1 DEF ConsumeRoot, ConsumePlace, Failed
    <3> QED BY <3>1 DEF Tracks
  <2>2. CASE p.path = <<>>
    BY <1>4, <2>2 DEF ConsumeRoot
  <2> QED BY <2>1, <2>2
<1>6. Tracks(consumeRootAtInstruction(t, p, H), consumeRootAtInstruction(s, p, h))
  BY <1>1, <1>5, FailedTracks DEF consumeRootAtInstruction
<1>7. Tracks(consumePlaceAtInstruction(t, p, H), consumePlaceAtInstruction(s, p, h))
  BY <1>1, <1>4, FailedTracks DEF consumePlaceAtInstruction
<1>8. Tracks(moveSource(t, p, H), moveSource(s, p, h))
  BY <1>1, <1>5, FailedTracks DEF moveSource
<1> QED BY <1>4, <1>5, <1>6, <1>7, <1>8

---------------------------------------------------------------------------
(* The same call on a walk: fewer named borrows may be held.               *)

Fewer(d, c) == d = c \/ \E h \in SUBSET c.held : d = [c EXCEPT !.held = h]

\* The calls of a function without defer, and the staged values they store.
PlainDo == {"use", "flow", "assign", "fieldStore", "storeFrontier", "mapFrontier",
            "transfer", "argument", "restoreArgument", "restoreResult", "swap", "unsafe",
            "freeze", "borrow", "returnFrontier", "returnValue", "returnConflict"}

DeclaredMove(m) == m # NoMove => Declared(m.value)

PlainCall(c) ==
    /\ c \in Call
    /\ c.do \in PlainDo \cup {"exit"}
    /\ c.do = "fieldStore" => DeclaredMove(c.move)

(* What the two calls share.                                               *)
LEMMA FewerFacts ==
    ASSUME NEW c \in Call, NEW d, Fewer(d, c)
    PROVE  /\ d.do = c.do
           /\ c.do = "use" => d.place = c.place /\ d.span = c.span
           /\ c.do = "flow" => d.dst = c.dst /\ d.cap = c.cap
           /\ c.do = "assign" => d.dst = c.dst /\ d.value = c.value /\ d.held \subseteq c.held
           /\ c.do = "fieldStore" => d.move = c.move /\ d.place = c.place
                                     /\ d.held \subseteq c.held
           /\ c.do = "storeFrontier" => d.place = c.place /\ d.target = c.target
                                        /\ d.indexed = c.indexed
           /\ c.do \in {"mapFrontier", "unsafe", "restoreResult"} => d.place = c.place
           /\ c.do \in {"transfer", "restoreArgument"} => d.place = c.place
                                                         /\ d.held \subseteq c.held
           /\ c.do = "argument" => d.place = c.place /\ d.cap = c.cap /\ d.kind = c.kind
                                   /\ d.named = c.named /\ d.held \subseteq c.held
           /\ c.do = "swap" => d.left = c.left /\ d.right = c.right /\ d.held \subseteq c.held
           /\ c.do = "freeze" => d.place = c.place /\ d.result = c.result
                                 /\ d.held \subseteq c.held
           /\ c.do = "borrow" => d.place = c.place /\ d.cap = c.cap
           /\ c.do \in {"returnFrontier", "returnConflict"} => d.results = c.results
           /\ c.do = "returnValue" => d.want = c.want /\ d.cap = c.cap /\ d.fresh = c.fresh
                                      /\ d.place = c.place /\ d.held \subseteq c.held
BY DEF Call, Fewer

(* The fields of a call of a function without defer.                       *)
LEMMA PlainFacts ==
    ASSUME NEW c \in Call
    PROVE  /\ c.do \in {"use", "mapFrontier", "unsafe", "restoreResult", "transfer",
                        "restoreArgument", "argument", "freeze", "borrow", "storeFrontier",
                        "returnValue"} => c.place \in OptionalPlace
           /\ c.do = "flow" => c.dst \in Place /\ c.cap \in Caps
           /\ c.do = "assign" => c.dst \in Place /\ c.value \in Value
           /\ c.do = "fieldStore" => c.move \in Pending
           /\ c.do = "swap" => c.left \in OptionalPlace /\ c.right \in OptionalPlace
BY DEF Call

---------------------------------------------------------------------------
(* Each transfer of a function without defer.                              *)

(* A use (checkDebugRefUse): a moved place inside a moved variable whose   *)
(* projection is \imm is allowed in both states or in neither.             *)
LEMMA UseTracks ==
    ASSUME NEW t, NEW s, Follows(t, s), NEW p \in OptionalPlace, NEW span,
           NEW c, c.place = p, c.span = span, NEW d, d.place = p, d.span = span
    PROVE  Tracks(checkDebugRefUse(t, c), checkDebugRefUse(s, d))
<1>1. ~CheckUse(t, p) => ~CheckUse(s, p)
  BY FollowsAccepts
<1>2. p # NoPlace /\ CheckUse(s, p) => CheckUse(s, RootOf(p))
  <2>1. ASSUME NEW q, Overlaps(q, p)
        PROVE  Overlaps(q, RootOf(p))
    <3>1. RootOf(p).root = p.root /\ RootOf(p).path = <<>>
      BY DEF RootOf
    <3>2. \A u : IsPrefix(<<>>, u)
      BY DEF IsPrefix
    <3> QED BY <2>1, <3>1, <3>2 DEF Overlaps
  <2> QED BY <2>1 DEF CheckUse
<1>3. CASE p = NoPlace \/ ~CheckUse(t, p)
  BY <1>1, <1>3, PassedTracks DEF checkDebugRefUse
<1>4. CASE p # NoPlace /\ CheckUse(t, p) /\ ~allowsMovedRebindUse(t, p, span)
  BY <1>4, FailedTracks DEF checkDebugRefUse
<1>5. CASE p # NoPlace /\ CheckUse(t, p) /\ allowsMovedRebindUse(t, p, span)
  <2>1. CheckUse(s, p) => allowsMovedRebindUse(s, p, span)
    BY <1>2, <1>5 DEF allowsMovedRebindUse
  <2>2. checkDebugRefUse(t, c) = Passed(t) /\ checkDebugRefUse(s, d) = Passed(s)
    BY <1>5, <2>1 DEF checkDebugRefUse
  <2> QED BY <2>2, PassedTracks
<1> QED BY <1>3, <1>4, <1>5

(* The value an assignment gives a variable.                               *)
LEMMA AssignTracks ==
    ASSUME NEW t, IsState(t), NEW s, IsState(s), Follows(t, s),
           NEW c, c.dst \in Place, c.value \in Value,
           NEW d, d.dst = c.dst, d.value = c.value, d.held \subseteq c.held
    PROVE  Tracks(applyAssignmentTransfer(t, c), applyAssignmentTransfer(s, d))
<1> DEFINE v == valueWithFlowValue(t, c.value)
           w == valueWithFlowValue(s, c.value)
           r == applyAssignmentTransfer(t, c)
           q == applyAssignmentTransfer(s, d)
<1>1. SUFFICES ASSUME r.errs = {}
               PROVE  Tracks(r, q)
  BY DEF Tracks
<1>2. v.cap = "iso"
  BY <1>1 DEF applyAssignmentTransfer, Failed
<1>3. \A p \in Place : FlowValue(t, p) = "iso" => FlowValue(s, p) = "iso"
  BY DEF Follows, Covers, FlowValue, Place
<1>4. c.value.place \in OptionalPlace /\ v.place = c.value.place
  BY FlowValueType DEF Value
<1>5. w = v
  <2>1. CASE capTracked(c.value.cap)
    BY <2>1 DEF valueWithFlowValue
  <2>2. CASE ~capTracked(c.value.cap)
    <3>1. c.value.place # NoPlace /\ capTracked(FlowValue(t, c.value.place))
      BY <1>2, <2>2 DEF valueWithFlowValue, capTracked
    <3>2. v = [c.value EXCEPT !.cap = FlowValue(t, c.value.place), !.fresh = FALSE]
      BY <2>2, <3>1 DEF valueWithFlowValue
    <3>3. FlowValue(t, c.value.place) = "iso"
      BY <1>2, <3>2 DEF Value
    <3>4. FlowValue(s, c.value.place) = "iso"
      BY <1>3, <1>4, <3>1, <3>3 DEF OptionalPlace
    <3>5. w = [c.value EXCEPT !.cap = FlowValue(s, c.value.place), !.fresh = FALSE]
      BY <2>2, <3>1, <3>4 DEF valueWithFlowValue, capTracked
    <3> QED BY <3>2, <3>3, <3>4, <3>5
  <2> QED BY <2>1, <2>2
<1> HIDE DEF v, w
<1>6. CASE v.fresh
  <2>1. r = Passed(Rebound(t, c.dst)) /\ q = Passed(Rebound(s, c.dst))
    BY <1>2, <1>5, <1>6 DEF applyAssignmentTransfer, v, w
  <2> QED BY <2>1, ReboundFollows, PassedTracks
<1>7. CASE ~v.fresh
  <2> DEFINE m == moveSource(t, v.place, c.held)
             n == moveSource(s, v.place, d.held)
  <2>1. v.place # NoPlace /\ placeCanTransferAsIsoInState(t, v.place)
    BY <1>1, <1>2, <1>7 DEF applyAssignmentTransfer, Failed, v
  <2>2. v.place \in Place
    BY <1>4, <2>1 DEF OptionalPlace
  <2>3. placeCanTransferAsIsoInState(s, v.place)
    BY <1>3, <2>1, <2>2 DEF placeCanTransferAsIsoInState
  <2>4. r = IF m.errs # {} THEN m ELSE Passed(Rebound(m.st, c.dst))
    BY <1>2, <1>7, <2>1 DEF applyAssignmentTransfer, v
  <2>5. q = IF n.errs # {} THEN n ELSE Passed(Rebound(n.st, c.dst))
    BY <1>2, <1>5, <1>7, <2>1, <2>3 DEF applyAssignmentTransfer, w
  <2>6. Tracks(m, n) /\ IsState(m.st) /\ IsState(n.st)
    BY <2>2, ConsumeTracks, ConsumeOutcome DEF IsOutcome
  <2> HIDE DEF m, n, r, q
  <2>7. m.errs = {}
    BY <1>1, <2>4
  <2>8. n.errs = {} /\ Follows(m.st, n.st)
    BY <2>6, <2>7 DEF Tracks
  <2>9. Follows(Rebound(m.st, c.dst), Rebound(n.st, c.dst))
    BY <2>6, <2>8, ReboundFollows
  <2> QED BY <2>4, <2>5, <2>7, <2>8, <2>9, PassedTracks
<1> QED BY <1>6, <1>7
(* A field initializer whose value has a declared ownerstamp.              *)
LEMMA FieldStoreTracks ==
    ASSUME NEW t, IsState(t), NEW s, IsState(s), Follows(t, s),
           NEW c, c.move \in Pending, DeclaredMove(c.move),
           NEW d, d.move = c.move, d.place = c.place, d.held \subseteq c.held
    PROVE  Tracks(applyCompositeFieldMoveStoreTransfer(t, c),
                  applyCompositeFieldMoveStoreTransfer(s, d))
<1> DEFINE v == c.move.value
           moves == /\ c.move # NoMove
                    /\ c.move.cap \in {"iso", "imm"}
                    /\ ~v.fresh /\ v.cap = "iso"
                    /\ v.place # NoPlace /\ v.place = c.place
<1>1. CASE c.move = NoMove
  BY <1>1, PassedTracks DEF applyCompositeFieldMoveStoreTransfer
<1>2. CASE c.move # NoMove
  <2>1. capTracked(v.cap) /\ (v.cap = "iso" => v.fresh \/ v.place = NoPlace
                                               \/ placeCanTransferAsIso(v.place))
    BY <1>2 DEF DeclaredMove, Declared
  <2>2. valueWithFlowValue(t, v) = v /\ valueWithFlowValue(s, v) = v
    BY <2>1 DEF valueWithFlowValue
  <2>3. v.place \in OptionalPlace
    BY <1>2 DEF Pending, Value
  <2>4. CASE moves
    <3>1. v.place \in Place /\ placeCanTransferAsIso(v.place)
      BY <2>1, <2>3, <2>4 DEF OptionalPlace
    <3>2. /\ applyCompositeFieldMoveStoreTransfer(t, c) = moveSource(t, v.place, c.held)
          /\ applyCompositeFieldMoveStoreTransfer(s, d) = moveSource(s, v.place, d.held)
      BY <2>2, <2>4, <3>1
         DEF applyCompositeFieldMoveStoreTransfer, placeCanTransferAsIsoInState
    <3> QED BY <3>1, <3>2, ConsumeTracks
  <2>5. CASE ~moves
    <3>1. /\ applyCompositeFieldMoveStoreTransfer(t, c) = Passed(t)
          /\ applyCompositeFieldMoveStoreTransfer(s, d) = Passed(s)
      BY <2>2, <2>5 DEF applyCompositeFieldMoveStoreTransfer
    <3> QED BY <3>1, PassedTracks
  <2> QED BY <2>4, <2>5
<1> QED BY <1>1, <1>2

(* The sends, captures, frontiers and results: each looks at its call, and *)
(* updates both states in the same way.                                    *)
LEMMA SimpleTracks ==
    ASSUME NEW t, IsState(t), NEW s, IsState(s), Follows(t, s),
           NEW c, c.place \in OptionalPlace, NEW d, d.place = c.place
    PROVE  /\ d.held \subseteq c.held =>
                  /\ Tracks(transferValue(t, c), transferValue(s, d))
                  /\ Tracks(restoreArgument(t, c), restoreArgument(s, d))
           /\ Tracks(applyMapUpdateFrontierTransfer(t, c), applyMapUpdateFrontierTransfer(s, d))
           /\ Tracks(applyUnsafeIntrinsic(t, c), applyUnsafeIntrinsic(s, d))
           /\ Tracks(restoreResult(t, c), restoreResult(s, d))
<1>1. c.place # NoPlace => c.place \in Place
  BY DEF OptionalPlace
<1>2. ASSUME d.held \subseteq c.held
      PROVE  /\ Tracks(transferValue(t, c), transferValue(s, d))
             /\ Tracks(restoreArgument(t, c), restoreArgument(s, d))
  <2>1. c.place # NoPlace => Tracks(consumeRootAtInstruction(t, c.place, c.held),
                                    consumeRootAtInstruction(s, c.place, d.held))
    BY <1>1, <1>2, ConsumeTracks
  <2> QED BY <2>1, PassedTracks DEF transferValue, restoreArgument
<1>3. c.place # NoPlace =>
          Tracks(Passed(EnterFrontier(t, c.place)), Passed(EnterFrontier(s, c.place)))
  BY <1>1, UpdatesFollow, PassedTracks
<1>4. c.place # NoPlace =>
          Tracks(Passed(SetFlowValue(Rebound(t, c.place), c.place, "iso")),
                 Passed(SetFlowValue(Rebound(s, c.place), c.place, "iso")))
  BY <1>1, ReboundFollows, ReboundType, UpdatesFollow, PassedTracks
<1>5. /\ Tracks(applyMapUpdateFrontierTransfer(t, c), applyMapUpdateFrontierTransfer(s, d))
      /\ Tracks(applyUnsafeIntrinsic(t, c), applyUnsafeIntrinsic(s, d))
  BY <1>3, PassedTracks DEF applyMapUpdateFrontierTransfer, applyUnsafeIntrinsic
<1>6. Tracks(restoreResult(t, c), restoreResult(s, d))
  BY <1>4, PassedTracks DEF restoreResult
<1> QED BY <1>2, <1>5, <1>6

(* A store that escapes (applyStoreFrontierTransfer).                      *)
LEMMA StoreTracks ==
    ASSUME NEW t, IsState(t), NEW s, IsState(s), Follows(t, s),
           NEW c, c.place \in OptionalPlace,
           NEW d, d.place = c.place, d.target = c.target, d.indexed = c.indexed
    PROVE  Tracks(applyStoreFrontierTransfer(t, c), applyStoreFrontierTransfer(s, d))
<1>1. c.place # NoPlace =>
          Tracks(Passed(EnterFrontier(t, c.place)), Passed(EnterFrontier(s, c.place)))
  BY UpdatesFollow, PassedTracks DEF OptionalPlace
<1> QED BY <1>1, PassedTracks DEF applyStoreFrontierTransfer

(* A flow value received or forgotten.                                     *)
LEMMA FlowTracks ==
    ASSUME NEW t, IsState(t), NEW s, IsState(s), Follows(t, s),
           NEW c, c.dst \in Place, c.cap \in Caps, NEW d, d.dst = c.dst, d.cap = c.cap
    PROVE  Tracks(applyFlowAssignmentTransfer(t, c), applyFlowAssignmentTransfer(s, d))
<1>1. /\ Follows(Rebound(t, c.dst), Rebound(s, c.dst))
      /\ IsState(Rebound(t, c.dst)) /\ IsState(Rebound(s, c.dst))
  BY ReboundFollows, ReboundType
<1>2. /\ Follows(ClearFlowValue(Rebound(t, c.dst), c.dst), ClearFlowValue(Rebound(s, c.dst), c.dst))
      /\ IsState(ClearFlowValue(Rebound(t, c.dst), c.dst))
      /\ IsState(ClearFlowValue(Rebound(s, c.dst), c.dst))
  BY <1>1, UpdatesFollow, MovesType
<1> QED BY <1>2, UpdatesFollow, PassedTracks DEF applyFlowAssignmentTransfer

(* An argument: moved, or borrowed for the call.                           *)
LEMMA ArgumentTracks ==
    ASSUME NEW t, IsState(t), NEW s, IsState(s), Follows(t, s),
           NEW c, c.place \in OptionalPlace,
           NEW d, d.place = c.place, d.cap = c.cap, d.kind = c.kind, d.named = c.named,
                  d.held \subseteq c.held
    PROVE  Tracks(callArgument(t, c), callArgument(s, d))
<1> DEFINE p == c.place
<1>1. CASE p = NoPlace
  BY <1>1, PassedTracks DEF callArgument
<1>2. CASE p # NoPlace /\ c.cap = "iso" /\ placeCanTransferAsIso(p)
  <2>1. p \in Place
    BY <1>2 DEF OptionalPlace
  <2>2. /\ Tracks(consumeRootAtInstruction(t, p, c.held), consumeRootAtInstruction(s, p, d.held))
        /\ Tracks(consumePlaceAtInstruction(t, p, c.held),
                  consumePlaceAtInstruction(s, p, d.held))
    BY <2>1, ConsumeTracks
  <2>3. Tracks(consumeCallArgumentAtInstruction(t, p, c),
               consumeCallArgumentAtInstruction(s, p, d))
    BY <2>2 DEF consumeCallArgumentAtInstruction
  <2> QED BY <1>2, <2>3 DEF callArgument
<1>3. CASE p # NoPlace /\ ~(c.cap = "iso" /\ placeCanTransferAsIso(p)) /\ c.cap \in BorrowCaps
  <2> DEFINE r == applyTemporaryBorrow(t, p, c.cap)
             q == applyTemporaryBorrow(s, p, c.cap)
             b == [place |-> p, cap |-> c.cap]
  <2>1. callArgument(t, c) = r /\ callArgument(s, d) = q
    BY <1>3 DEF callArgument
  <2>2. ASSUME r.errs = {}
        PROVE  /\ ~CheckFrontier(t, p) /\ ~CheckUse(t, p)
               /\ r.st = EndBorrow(BeginBorrow(t, p, c.cap).st, p, c.cap)
               /\ BeginBorrow(t, p, c.cap).st =
                     [t EXCEPT !.borrows = @ (+) SetToBag({b})]
    BY <1>3, <2>2 DEF applyTemporaryBorrow, BeginBorrow, Passed, Failed
  <2>3. ASSUME r.errs = {}
        PROVE  q.errs = {} /\ Follows(r.st, q.st)
    <3>1. ~CheckFrontier(s, p) /\ ~CheckUse(s, p)
      BY <2>2, <2>3, FollowsAccepts
    <3>2. ~ConflictsWith(BagToSet(s.borrows), p, c.cap)
      BY NothingBorrowed DEF Follows
    <3>3. BeginBorrow(s, p, c.cap) = Passed([s EXCEPT !.borrows = @ (+) SetToBag({b})])
      BY <1>3, <3>1, <3>2 DEF BeginBorrow
    <3>4. q = Passed(EndBorrow([s EXCEPT !.borrows = @ (+) SetToBag({b})], p, c.cap))
      BY <3>1, <3>3 DEF applyTemporaryBorrow, Passed
    <3>5. EndBorrow([s EXCEPT !.borrows = @ (+) SetToBag({b})], p, c.cap) = s
      <4> DEFINE B == (s.borrows (+) SetToBag({b})) (-) SetToBag({b})
      <4>1. B = s.borrows
        BY BorrowReturned DEF Follows
      <4>2. EndBorrow([s EXCEPT !.borrows = @ (+) SetToBag({b})], p, c.cap)
                = [s EXCEPT !.borrows = B]
        BY DEF EndBorrow, IsState
      <4> HIDE DEF B
      <4> QED BY <4>1, <4>2 DEF IsState
    <3>6. r.st.consumed = t.consumed /\ r.st.frontiered = t.frontiered
          /\ r.st.flow = t.flow /\ r.st.deferred = t.deferred
      <4> DEFINE B == t.borrows (+) SetToBag({b})
                 u == [t EXCEPT !.borrows = B]
                 E == B (-) SetToBag({b})
      <4>1. r.st = [u EXCEPT !.borrows = E]
        BY <2>2, <2>3 DEF EndBorrow, IsState
      <4> HIDE DEF B, E, r
      <4> QED BY <4>1 DEF IsState
    <3> QED BY <3>4, <3>5, <3>6 DEF Follows, Covers, Passed
  <2> QED BY <2>1, <2>3 DEF Tracks
<1>4. CASE p # NoPlace /\ ~(c.cap = "iso" /\ placeCanTransferAsIso(p)) /\ c.cap \notin BorrowCaps
  BY <1>4, PassedTracks DEF callArgument
<1> QED BY <1>1, <1>2, <1>3, <1>4

(* The swap, the intrinsics and the checks of a return.                    *)
LEMMA IntrinsicsTrack ==
    ASSUME NEW t, IsState(t), NEW s, IsState(s), Follows(t, s), NEW c, NEW d, NEW groups
    PROVE  /\ d.left = c.left /\ d.right = c.right /\ d.held \subseteq c.held
                  => Tracks(checkSwapTransferAtPosition(t, c), checkSwapTransferAtPosition(s, d))
           /\ c.place \in OptionalPlace /\ d.place = c.place /\ d.result = c.result
              /\ d.held \subseteq c.held
                  => Tracks(applyExplicitFreezeIntrinsic(t, c), applyExplicitFreezeIntrinsic(s, d))
           /\ d.place = c.place /\ d.cap = c.cap
                  => Tracks(checkExplicitBorrowIntrinsic(t, c), checkExplicitBorrowIntrinsic(s, d))
           /\ d.results = c.results
                  => Tracks(checkReturnFrontierConflicts(t, c), checkReturnFrontierConflicts(s, d))
           /\ c.place \in OptionalPlace /\ d.place = c.place /\ d.want = c.want
              /\ d.cap = c.cap /\ d.fresh = c.fresh /\ d.held \subseteq c.held
                  => Tracks(returnValue(t, c), returnValue(s, d))
           /\ d.results = c.results
                  => Tracks(checkReturnDeferredConflicts(t, c, groups),
                            checkReturnDeferredConflicts(s, d, groups))
<1>1. ASSUME d.left = c.left, d.right = c.right, d.held \subseteq c.held
      PROVE  Tracks(checkSwapTransferAtPosition(t, c), checkSwapTransferAtPosition(s, d))
  <2>1. \A p : /\ ~CheckUse(t, p) => ~CheckUse(s, p)
               /\ ~CheckFrontier(t, p) => ~CheckFrontier(s, p)
               /\ ~NamedBorrowBlocks(c.held, p) => ~NamedBorrowBlocks(d.held, p)
    BY <1>1, FollowsAccepts
  <2> QED BY <1>1, <2>1 DEF Tracks, checkSwapTransferAtPosition
<1>2. ASSUME c.place \in OptionalPlace, d.place = c.place, d.held \subseteq c.held
      PROVE  c.place # NoPlace => Tracks(consumeRootAtInstruction(t, c.place, c.held),
                                         consumeRootAtInstruction(s, d.place, d.held))
  BY <1>2, ConsumeTracks DEF OptionalPlace
<1>3. ASSUME c.place \in OptionalPlace, d.place = c.place, d.result = c.result,
             d.held \subseteq c.held
      PROVE  Tracks(applyExplicitFreezeIntrinsic(t, c), applyExplicitFreezeIntrinsic(s, d))
  BY <1>2, <1>3, PassedTracks, FailedTracks DEF applyExplicitFreezeIntrinsic
<1>4. ASSUME d.place = c.place, d.cap = c.cap
      PROVE  Tracks(checkExplicitBorrowIntrinsic(t, c), checkExplicitBorrowIntrinsic(s, d))
  <2>1. ~CheckFrontier(t, c.place) => ~CheckFrontier(s, c.place)
    BY FollowsAccepts
  <2> QED BY <1>4, <2>1, PassedTracks, FailedTracks DEF checkExplicitBorrowIntrinsic
<1>5. ASSUME d.results = c.results
      PROVE  Tracks(checkReturnFrontierConflicts(t, c), checkReturnFrontierConflicts(s, d))
  <2>1. \A p : ~CheckFrontier(t, p) => ~CheckFrontier(s, p)
    BY FollowsAccepts
  <2> QED BY <1>5, <2>1, PassedTracks, FailedTracks DEF checkReturnFrontierConflicts
<1>6. ASSUME c.place \in OptionalPlace, d.place = c.place, d.want = c.want, d.cap = c.cap,
             d.fresh = c.fresh, d.held \subseteq c.held
      PROVE  Tracks(returnValue(t, c), returnValue(s, d))
  BY <1>2, <1>6, PassedTracks, FailedTracks DEF returnValue
<1>7. Tracks(checkReturnDeferredConflicts(t, c, groups),
             checkReturnDeferredConflicts(s, d, groups))
  BY PassedTracks, FailedTracks DEF checkReturnDeferredConflicts, Follows
<1> QED BY <1>1, <1>3, <1>4, <1>5, <1>6, <1>7

---------------------------------------------------------------------------
(* Any transfer of a function without defer.                               *)

(* Moving, rebinding and borrowing for a call leave the deferred groups    *)
(* alone.                                                                  *)
LEMMA UpdatesKeepGroups ==
    ASSUME NEW s, IsState(s), NEW p, NEW cap, NEW held, NEW c
    PROVE  /\ Rebound(s, p).deferred = s.deferred
           /\ EnterFrontier(s, p).deferred = s.deferred
           /\ ClearFlowValue(s, p).deferred = s.deferred
           /\ SetFlowValue(s, p, cap).deferred = s.deferred
           /\ consumeRootAtInstruction(s, p, held).st.deferred = s.deferred
           /\ consumePlaceAtInstruction(s, p, held).st.deferred = s.deferred
           /\ moveSource(s, p, held).st.deferred = s.deferred
           /\ applyTemporaryBorrow(s, p, cap).st.deferred = s.deferred
<1>1. ConsumePlace(s, p).st.deferred = s.deferred /\ ConsumeRoot(s, p).st.deferred = s.deferred
  BY DEF IsState, ConsumePlace, ConsumeRoot, Passed, Failed
<1>2. /\ Rebound(s, p).deferred = s.deferred
      /\ EnterFrontier(s, p).deferred = s.deferred
      /\ ClearFlowValue(s, p).deferred = s.deferred
      /\ SetFlowValue(s, p, cap).deferred = s.deferred
  BY DEF IsState, Rebound, UnfrontierRoot, UnconsumeRoot, EnterFrontier, ClearFlowValue,
         SetFlowValue
<1>3. /\ consumeRootAtInstruction(s, p, held).st.deferred = s.deferred
      /\ consumePlaceAtInstruction(s, p, held).st.deferred = s.deferred
      /\ moveSource(s, p, held).st.deferred = s.deferred
  BY <1>1 DEF consumeRootAtInstruction, consumePlaceAtInstruction, moveSource, Failed
<1>4. applyTemporaryBorrow(s, p, cap).st.deferred = s.deferred
  <2> DEFINE B == s.borrows (+) SetToBag({[place |-> p, cap |-> cap]})
             u == [s EXCEPT !.borrows = B]
  <2>1. BeginBorrow(s, p, cap).st \in {s, u}
    BY DEF BeginBorrow, Passed, Failed
  <2>2. u.deferred = s.deferred
    BY DEF IsState
  <2>3. \A v \in {s, u} : EndBorrow(v, p, cap).deferred = v.deferred
    BY DEF IsState, EndBorrow
  <2> HIDE DEF u
  <2>4. BeginBorrow(s, p, cap).st.deferred = s.deferred
    BY <2>1, <2>2
  <2> QED BY <2>1, <2>3, <2>4 DEF applyTemporaryBorrow, Passed, Failed
<1> QED BY <1>2, <1>3, <1>4

(* A transfer leaves a state, reports known codes and registers nothing.   *)
LEMMA TransferOfType ==
    ASSUME NEW s, IsState(s), NEW c \in Call, c.do \in PlainDo, NEW groups
    PROVE  IsOutcome(TransferOf(s, c, groups)) /\ TransferOf(s, c, groups).st.deferred = s.deferred
<1> DEFINE Good(r) == IsOutcome(r) /\ r.st.deferred = s.deferred
<1>1. Good(Passed(s)) /\ \A code \in Codes : Good(Failed(s, code))
  BY OutcomeSimple DEF Passed, Failed
<1>2. /\ "GWN001" \in Codes /\ "GWN002" \in Codes /\ "GWN010" \in Codes
      /\ "GWN011" \in Codes /\ "GWN012" \in Codes
  BY CodesKnown
<1>3. \A p \in Place : \A held :
         /\ Good(consumeRootAtInstruction(s, p, held))
         /\ Good(consumePlaceAtInstruction(s, p, held))
         /\ Good(moveSource(s, p, held))
  <2> SUFFICES ASSUME NEW p \in Place, NEW held
               PROVE  /\ Good(consumeRootAtInstruction(s, p, held))
                      /\ Good(consumePlaceAtInstruction(s, p, held))
                      /\ Good(moveSource(s, p, held))
    OBVIOUS
  <2>1. /\ IsOutcome(consumeRootAtInstruction(s, p, held))
        /\ IsOutcome(consumePlaceAtInstruction(s, p, held))
        /\ IsOutcome(moveSource(s, p, held))
    BY ConsumeOutcome
  <2>2. /\ consumeRootAtInstruction(s, p, held).st.deferred = s.deferred
        /\ consumePlaceAtInstruction(s, p, held).st.deferred = s.deferred
        /\ moveSource(s, p, held).st.deferred = s.deferred
    BY UpdatesKeepGroups
  <2> QED BY <2>1, <2>2
<1>4. \A p \in Place : Good(Passed(Rebound(s, p))) /\ Good(Passed(EnterFrontier(s, p)))
  BY ReboundType, MovesType, OutcomeSimple, UpdatesKeepGroups DEF Passed
<1>5. CASE c.do = "use"
  <2>1. TransferOf(s, c, groups) = checkDebugRefUse(s, c)
    BY <1>5 DEF TransferOf
  <2> QED BY <2>1, <1>1, <1>2 DEF checkDebugRefUse
<1>6. CASE c.do = "flow"
  <2> DEFINE u == ClearFlowValue(Rebound(s, c.dst), c.dst)
  <2>1. TransferOf(s, c, groups) = Passed(SetFlowValue(u, c.dst, c.cap))
    BY <1>6 DEF TransferOf, applyFlowAssignmentTransfer
  <2>2. c.dst \in Place /\ c.cap \in Caps
    BY <1>6, PlainFacts
  <2>3. IsState(Rebound(s, c.dst)) /\ Rebound(s, c.dst).deferred = s.deferred
    BY <2>2, ReboundType, UpdatesKeepGroups
  <2>4. IsState(u) /\ u.deferred = s.deferred
    BY <2>2, <2>3, MovesType, UpdatesKeepGroups
  <2> HIDE DEF u
  <2>5. IsState(SetFlowValue(u, c.dst, c.cap))
    BY <2>2, <2>4, FlowType
  <2>6. SetFlowValue(u, c.dst, c.cap).deferred = s.deferred
    BY <2>4, UpdatesKeepGroups
  <2> QED BY <2>1, <2>5, <2>6, OutcomeSimple DEF Passed
<1>7. CASE c.do = "assign"
  <2> DEFINE v == valueWithFlowValue(s, c.value)
             m == moveSource(s, v.place, c.held)
  <2>1. TransferOf(s, c, groups) = applyAssignmentTransfer(s, c)
    BY <1>7 DEF TransferOf
  <2>2. c.dst \in Place /\ c.value \in Value
    BY <1>7, PlainFacts
  <2>3. v.place \in OptionalPlace
    BY <2>2, FlowValueType DEF Value
  <2>4. v.place # NoPlace => Good(m) /\ Good(Passed(Rebound(m.st, c.dst)))
    <3>1. v.place # NoPlace => Good(m)
      BY <1>3, <2>3 DEF OptionalPlace
    <3> HIDE DEF m
    <3> QED BY <2>2, <3>1, ReboundType, UpdatesKeepGroups, OutcomeSimple DEF Passed, IsOutcome
  <2> HIDE DEF m, Good
  <2>5. \/ applyAssignmentTransfer(s, c) = Failed(s, "GWN010")
        \/ applyAssignmentTransfer(s, c) = Passed(Rebound(s, c.dst))
        \/ v.place # NoPlace /\ applyAssignmentTransfer(s, c) \in
              {m, Passed(Rebound(m.st, c.dst))}
    BY DEF applyAssignmentTransfer, m
  <2>6. Good(applyAssignmentTransfer(s, c))
    BY <1>1, <1>2, <1>4, <2>2, <2>4, <2>5
  <2> QED BY <2>1, <2>6 DEF Good
<1>8. CASE c.do = "fieldStore"
  <2> DEFINE v == valueWithFlowValue(s, c.move.value)
  <2>1. TransferOf(s, c, groups) = applyCompositeFieldMoveStoreTransfer(s, c)
    BY <1>8 DEF TransferOf
  <2>2. c.move \in Pending
    BY <1>8, PlainFacts
  <2>3. c.move # NoMove => v.place \in OptionalPlace
    BY <2>2, FlowValueType DEF Pending, Value
  <2> HIDE DEF v, Good
  <2>4. \/ applyCompositeFieldMoveStoreTransfer(s, c) = Passed(s)
        \/ c.move # NoMove /\ v.place # NoPlace
           /\ applyCompositeFieldMoveStoreTransfer(s, c) = moveSource(s, v.place, c.held)
    BY DEF applyCompositeFieldMoveStoreTransfer, v
  <2>5. Good(applyCompositeFieldMoveStoreTransfer(s, c))
    BY <1>1, <1>3, <2>3, <2>4 DEF OptionalPlace
  <2> QED BY <2>1, <2>5 DEF Good
<1>9. CASE c.do \in {"storeFrontier", "mapFrontier", "unsafe", "transfer", "restoreArgument",
                     "freeze", "borrow", "returnValue"}
  <2>1. c.place \in OptionalPlace
    BY <1>9, PlainFacts
  <2> HIDE DEF Good
  <2>2. c.place # NoPlace =>
            Good(consumeRootAtInstruction(s, c.place, c.held)) /\ Good(Passed(EnterFrontier(s, c.place)))
    BY <1>3, <1>4, <2>1 DEF OptionalPlace
  <2>3. /\ Good(applyStoreFrontierTransfer(s, c)) /\ Good(applyMapUpdateFrontierTransfer(s, c))
        /\ Good(applyUnsafeIntrinsic(s, c)) /\ Good(transferValue(s, c))
        /\ Good(restoreArgument(s, c))
    BY <1>1, <2>2 DEF applyStoreFrontierTransfer, applyMapUpdateFrontierTransfer,
       applyUnsafeIntrinsic, transferValue, restoreArgument
  <2>4. /\ Good(applyExplicitFreezeIntrinsic(s, c)) /\ Good(checkExplicitBorrowIntrinsic(s, c))
        /\ Good(returnValue(s, c))
    BY <1>1, <1>2, <2>2 DEF applyExplicitFreezeIntrinsic, checkExplicitBorrowIntrinsic,
       returnValue
  <2>5. TransferOf(s, c, groups) \in {applyStoreFrontierTransfer(s, c), applyMapUpdateFrontierTransfer(s, c),
            applyUnsafeIntrinsic(s, c), transferValue(s, c), restoreArgument(s, c),
            applyExplicitFreezeIntrinsic(s, c), checkExplicitBorrowIntrinsic(s, c),
            returnValue(s, c)}
    BY <1>9 DEF TransferOf
  <2>6. Good(TransferOf(s, c, groups))
    BY <2>3, <2>4, <2>5
  <2> QED BY <2>6 DEF Good
<1>10. CASE c.do = "argument"
  <2>1. TransferOf(s, c, groups) = callArgument(s, c) /\ c.place \in OptionalPlace
    BY <1>10, PlainFacts DEF TransferOf
  <2>2. IsOutcome(callArgument(s, c))
    BY <2>1, ArgumentOutcome
  <2>3. callArgument(s, c).st.deferred = s.deferred
    BY UpdatesKeepGroups DEF callArgument, consumeCallArgumentAtInstruction, Passed
  <2> QED BY <2>1, <2>2, <2>3
<1>11. CASE c.do = "restoreResult"
  <2>1. TransferOf(s, c, groups) = restoreResult(s, c) /\ c.place \in OptionalPlace
    BY <1>11, PlainFacts DEF TransferOf
  <2>2. c.place # NoPlace => IsState(Rebound(s, c.place)) /\ Rebound(s, c.place).deferred = s.deferred
    BY <2>1, ReboundType, UpdatesKeepGroups DEF OptionalPlace
  <2>3. restoreResult(s, c).st.deferred = s.deferred
    BY <2>2, UpdatesKeepGroups DEF restoreResult, Passed
  <2> QED BY <2>1, <2>3, RestoreResultOutcome
<1>12. CASE c.do = "swap"
  <2>1. TransferOf(s, c, groups) = checkSwapTransferAtPosition(s, c)
    BY <1>12 DEF TransferOf
  <2>2. checkSwapTransferAtPosition(s, c).st = s
    BY DEF checkSwapTransferAtPosition
  <2> QED BY <2>1, <2>2, SwapOutcome
<1>13. CASE c.do \in {"returnFrontier", "returnConflict"}
  <2>1. TransferOf(s, c, groups) \in {checkReturnFrontierConflicts(s, c),
                              checkReturnDeferredConflicts(s, c, groups)}
    BY <1>13 DEF TransferOf
  <2>2. /\ checkReturnFrontierConflicts(s, c) \in {Passed(s), Failed(s, "GWN012")}
        /\ checkReturnDeferredConflicts(s, c, groups) \in {Passed(s), Failed(s, "GWN001")}
    BY DEF checkReturnFrontierConflicts, checkReturnDeferredConflicts
  <2> HIDE DEF Good
  <2>3. Good(TransferOf(s, c, groups))
    BY <1>1, <1>2, <2>1, <2>2
  <2> QED BY <2>3 DEF Good
<1> QED BY <1>5, <1>6, <1>7, <1>8, <1>9, <1>10, <1>11, <1>12, <1>13 DEF PlainDo

(* What the engine accepts from its state, a walk does without error from  *)
(* a state that it follows.                                                *)
LEMMA TransferTracks ==
    ASSUME NEW t, IsState(t), NEW s, IsState(s), Follows(t, s),
           NEW c, PlainCall(c), c.do # "exit", NEW d, Fewer(d, c), NEW groups
    PROVE  Tracks(TransferOf(t, c, groups), TransferOf(s, d, groups))
<1>0. c \in Call /\ c.do \in PlainDo /\ d.do = c.do
  BY FewerFacts DEF PlainCall
<1>1. CASE c.do = "use"
  <2>1. c.place \in OptionalPlace /\ d.place = c.place /\ d.span = c.span
    BY <1>0, <1>1, FewerFacts, PlainFacts
  <2> QED BY <1>0, <1>1, <2>1, UseTracks DEF TransferOf
<1>2. CASE c.do = "flow"
  <2>1. c.dst \in Place /\ c.cap \in Caps /\ d.dst = c.dst /\ d.cap = c.cap
    BY <1>0, <1>2, FewerFacts, PlainFacts
  <2> QED BY <1>0, <1>2, <2>1, FlowTracks DEF TransferOf
<1>3. CASE c.do = "assign"
  <2>1. c.dst \in Place /\ c.value \in Value /\ d.dst = c.dst /\ d.value = c.value
        /\ d.held \subseteq c.held
    BY <1>0, <1>3, FewerFacts, PlainFacts
  <2> QED BY <1>0, <1>3, <2>1, AssignTracks DEF TransferOf
<1>4. CASE c.do = "fieldStore"
  <2>1. c.move \in Pending /\ d.move = c.move /\ d.place = c.place /\ d.held \subseteq c.held
    BY <1>0, <1>4, FewerFacts, PlainFacts
  <2>2. DeclaredMove(c.move)
    BY <1>4 DEF PlainCall
  <2> QED BY <1>0, <1>4, <2>1, <2>2, FieldStoreTracks DEF TransferOf
<1>5. CASE c.do = "storeFrontier"
  <2>1. c.place \in OptionalPlace /\ d.place = c.place /\ d.target = c.target
        /\ d.indexed = c.indexed
    BY <1>0, <1>5, FewerFacts, PlainFacts
  <2> QED BY <1>0, <1>5, <2>1, StoreTracks DEF TransferOf
<1>6. CASE c.do \in {"mapFrontier", "unsafe", "restoreResult"}
  <2>1. c.place \in OptionalPlace /\ d.place = c.place
    BY <1>0, <1>6, FewerFacts, PlainFacts
  <2>2. /\ Tracks(applyMapUpdateFrontierTransfer(t, c), applyMapUpdateFrontierTransfer(s, d))
        /\ Tracks(applyUnsafeIntrinsic(t, c), applyUnsafeIntrinsic(s, d))
        /\ Tracks(restoreResult(t, c), restoreResult(s, d))
    BY <2>1, SimpleTracks
  <2> QED BY <1>0, <1>6, <2>2 DEF TransferOf
<1>7. CASE c.do \in {"transfer", "restoreArgument"}
  <2>1. c.place \in OptionalPlace /\ d.place = c.place /\ d.held \subseteq c.held
    BY <1>0, <1>7, FewerFacts, PlainFacts
  <2>2. Tracks(transferValue(t, c), transferValue(s, d))
        /\ Tracks(restoreArgument(t, c), restoreArgument(s, d))
    BY <2>1, SimpleTracks
  <2> QED BY <1>0, <1>7, <2>2 DEF TransferOf
<1>8. CASE c.do = "argument"
  <2>1. c.place \in OptionalPlace /\ d.place = c.place /\ d.cap = c.cap /\ d.kind = c.kind
        /\ d.named = c.named /\ d.held \subseteq c.held
    BY <1>0, <1>8, FewerFacts, PlainFacts
  <2> QED BY <1>0, <1>8, <2>1, ArgumentTracks DEF TransferOf
<1>9. CASE c.do = "swap"
  <2>1. d.left = c.left /\ d.right = c.right /\ d.held \subseteq c.held
    BY <1>0, <1>9, FewerFacts
  <2> QED BY <1>0, <1>9, <2>1, IntrinsicsTrack DEF TransferOf
<1>10. CASE c.do = "freeze"
  <2>1. c.place \in OptionalPlace /\ d.place = c.place /\ d.result = c.result
        /\ d.held \subseteq c.held
    BY <1>0, <1>10, FewerFacts, PlainFacts
  <2> QED BY <1>0, <1>10, <2>1, IntrinsicsTrack DEF TransferOf
<1>11. CASE c.do = "borrow"
  <2>1. d.place = c.place /\ d.cap = c.cap
    BY <1>0, <1>11, FewerFacts
  <2> QED BY <1>0, <1>11, <2>1, IntrinsicsTrack DEF TransferOf
<1>12. CASE c.do \in {"returnFrontier", "returnConflict"}
  <2>1. d.results = c.results
    BY <1>0, <1>12, FewerFacts
  <2> QED BY <1>0, <1>12, <2>1, IntrinsicsTrack DEF TransferOf
<1>13. CASE c.do = "returnValue"
  <2>1. c.place \in OptionalPlace /\ d.place = c.place /\ d.want = c.want /\ d.cap = c.cap
        /\ d.fresh = c.fresh /\ d.held \subseteq c.held
    BY <1>0, <1>13, FewerFacts, PlainFacts
  <2> QED BY <1>0, <1>13, <2>1, IntrinsicsTrack DEF TransferOf
<1> QED BY <1>0, <1>1, <1>2, <1>3, <1>4, <1>5, <1>6, <1>7, <1>8, <1>9, <1>10, <1>11, <1>12,
           <1>13 DEF PlainDo

---------------------------------------------------------------------------
(* The calls of an instruction, with fewer named borrows held.             *)

Alike(u, t) ==
    /\ t \in Seq(Call) /\ u \in Seq(Call) /\ Len(u) = Len(t)
    /\ \A k \in 1..Len(t) : PlainCall(t[k]) /\ Fewer(u[k], t[k])

(* A call with fewer borrows held is a call.                               *)
LEMMA FewerCall ==
    ASSUME NEW c \in Call, NEW d, Fewer(d, c)
    PROVE  d \in Call
<1>1. CASE d = c
  BY <1>1
<1>2. CASE d # c
  <2>1. PICK h \in SUBSET c.held : d = [c EXCEPT !.held = h]
    BY <1>2 DEF Fewer
  <2>2. "held" \notin DOMAIN c => d = c
    BY <2>1 DEF Call
  <2>3. "held" \in DOMAIN c => c.held \in SUBSET Place
    BY DEF Call
  <2>4. h \in SUBSET Place
    BY <1>2, <2>2, <2>3
  <2>5. /\ c \in [do : {"assign"}, dst : Place, value : Value, held : SUBSET Place]
               => d \in [do : {"assign"}, dst : Place, value : Value, held : SUBSET Place]
        /\ c \in [do : {"fieldStore"}, move : Pending, place : OptionalPlace, held : SUBSET Place]
               => d \in [do : {"fieldStore"}, move : Pending, place : OptionalPlace,
                         held : SUBSET Place]
        /\ c \in [do : {"transfer", "restoreArgument"}, place : OptionalPlace,
                  held : SUBSET Place]
               => d \in [do : {"transfer", "restoreArgument"}, place : OptionalPlace,
                         held : SUBSET Place]
        /\ c \in [do : {"argument"}, place : OptionalPlace, cap : Caps, kind : Kinds,
                  named : BOOLEAN, held : SUBSET Place]
               => d \in [do : {"argument"}, place : OptionalPlace, cap : Caps, kind : Kinds,
                         named : BOOLEAN, held : SUBSET Place]
        /\ c \in [do : {"swap"}, left : OptionalPlace, right : OptionalPlace,
                  held : SUBSET Place]
               => d \in [do : {"swap"}, left : OptionalPlace, right : OptionalPlace,
                         held : SUBSET Place]
        /\ c \in [do : {"freeze"}, place : OptionalPlace, result : Caps \cup {"none"},
                  held : SUBSET Place]
               => d \in [do : {"freeze"}, place : OptionalPlace, result : Caps \cup {"none"},
                         held : SUBSET Place]
        /\ c \in [do : {"returnValue"}, want : Caps, cap : Caps, fresh : BOOLEAN,
                  place : OptionalPlace, held : SUBSET Place]
               => d \in [do : {"returnValue"}, want : Caps, cap : Caps, fresh : BOOLEAN,
                         place : OptionalPlace, held : SUBSET Place]
    BY <2>1, <2>4
  <2>6. \/ c \in [do : {"assign"}, dst : Place, value : Value, held : SUBSET Place]
        \/ c \in [do : {"fieldStore"}, move : Pending, place : OptionalPlace, held : SUBSET Place]
        \/ c \in [do : {"transfer", "restoreArgument"}, place : OptionalPlace,
                  held : SUBSET Place]
        \/ c \in [do : {"argument"}, place : OptionalPlace, cap : Caps, kind : Kinds,
                  named : BOOLEAN, held : SUBSET Place]
        \/ c \in [do : {"swap"}, left : OptionalPlace, right : OptionalPlace,
                  held : SUBSET Place]
        \/ c \in [do : {"freeze"}, place : OptionalPlace, result : Caps \cup {"none"},
                  held : SUBSET Place]
        \/ c \in [do : {"returnValue"}, want : Caps, cap : Caps, fresh : BOOLEAN,
                  place : OptionalPlace, held : SUBSET Place]
    BY <1>2, <2>2 DEF Call
  <2> QED BY <2>5, <2>6 DEF Call
<1> QED BY <1>1, <1>2

(* One call.                                                               *)
LEMMA AlikeOne ==
    ASSUME NEW c, PlainCall(c), NEW d, Fewer(d, c)
    PROVE  Alike(<<d>>, <<c>>)
<1>1. c \in Call /\ d \in Call
  BY FewerCall DEF PlainCall
<1> QED BY <1>1 DEF Alike

(* No call.                                                                *)
LEMMA AlikeNone == Alike(<<>>, <<>>)
BY DEF Alike

(* Calls one after the other.                                              *)
LEMMA AlikeConcat ==
    ASSUME NEW t, NEW u, Alike(u, t), NEW v, NEW w, Alike(w, v)
    PROVE  Alike(u \o w, t \o v)
<1>1. /\ t \in Seq(Call) /\ u \in Seq(Call) /\ v \in Seq(Call) /\ w \in Seq(Call)
      /\ Len(u) = Len(t) /\ Len(w) = Len(v)
  BY DEF Alike
<1>2. t \o v \in Seq(Call) /\ u \o w \in Seq(Call) /\ Len(u \o w) = Len(t \o v)
  BY <1>1
<1>3. ASSUME NEW k \in 1..Len(t \o v)
      PROVE  PlainCall((t \o v)[k]) /\ Fewer((u \o w)[k], (t \o v)[k])
  <2>1. CASE k <= Len(t)
    <3>1. (t \o v)[k] = t[k] /\ (u \o w)[k] = u[k] /\ k \in 1..Len(t)
      BY <1>1, <2>1
    <3> QED BY <3>1 DEF Alike
  <2>2. CASE k > Len(t)
    <3>1. /\ (t \o v)[k] = v[k - Len(t)] /\ (u \o w)[k] = w[k - Len(t)]
          /\ k - Len(t) \in 1..Len(v)
      BY <1>1, <2>2
    <3> QED BY <3>1 DEF Alike
  <2> QED BY <1>1, <2>1, <2>2
<1> QED BY <1>2, <1>3 DEF Alike

(* A call for each element.                                                *)
LEMMA AlikePoints ==
    ASSUME NEW S, NEW s \in Seq(S), NEW t, NEW u,
           t = [k \in DOMAIN s |-> t[k]], u = [k \in DOMAIN s |-> u[k]],
           \A k \in DOMAIN s : PlainCall(t[k]) /\ Fewer(u[k], t[k])
    PROVE  Alike(u, t)
<1>1. \A k \in DOMAIN s : t[k] \in Call /\ u[k] \in Call
  BY FewerCall DEF PlainCall
<1>2. t \in Seq(Call)
  BY <1>1, SeqByPoints
<1>3. u \in Seq(Call)
  BY <1>1, SeqByPoints
<1>4. Len(t) = Len(s) /\ Len(u) = Len(s) /\ DOMAIN s = 1..Len(s)
  <2>1. DOMAIN t = 1..Len(s) /\ DOMAIN u = 1..Len(s) /\ Len(s) \in Nat
    OBVIOUS
  <2> QED BY <1>2, <1>3, <2>1
<1> QED BY <1>2, <1>3, <1>4 DEF Alike

(* A call that holds borrows, and the same call with fewer of them.        *)
LEMMA HeldFewer ==
    ASSUME NEW c \in Call, c.do \in PlainDo \cup {"exit"},
           c.do = "fieldStore" => DeclaredMove(c.move), NEW h, h \subseteq c.held
    PROVE  PlainCall(c) /\ Fewer([c EXCEPT !.held = h], c) /\ Fewer(c, c)
BY DEF PlainCall, Fewer

(* The arguments of a call or a go.                                        *)
LEMMA ArgumentsAlike ==
    ASSUME NEW i, i.args \in Seq(Argument), NEW kind \in Kinds, NEW named \in BOOLEAN,
           NEW H \in SUBSET Place, NEW h \in SUBSET H
    PROVE  Alike(ArgumentCalls(i, kind, named, h), ArgumentCalls(i, kind, named, H))
<1> DEFINE t == ArgumentCalls(i, kind, named, H)
           u == ArgumentCalls(i, kind, named, h)
<1>1. ASSUME NEW k \in DOMAIN i.args
      PROVE  PlainCall(t[k]) /\ Fewer(u[k], t[k])
  <2> DEFINE c == [do |-> "argument", place |-> i.args[k].place, cap |-> i.args[k].cap,
                   kind |-> kind, named |-> named, held |-> H]
  <2>1. t[k] = c /\ u[k] = [c EXCEPT !.held = h]
    BY DEF ArgumentCalls
  <2>2. i.args[k] \in Argument
    OBVIOUS
  <2>3. c \in Call
    BY <2>2 DEF Call, Argument
  <2>4. c.do \in PlainDo /\ c.do # "fieldStore" /\ h \subseteq c.held
    BY DEF PlainDo
  <2> HIDE DEF c, t, u
  <2> QED BY <2>1, <2>3, <2>4, HeldFewer
<1>2. t = [k \in DOMAIN i.args |-> t[k]] /\ u = [k \in DOMAIN i.args |-> u[k]]
  BY DEF ArgumentCalls
<1> HIDE DEF t, u
<1>3. Alike(u, t)
  BY <1>1, <1>2, AlikePoints
<1> QED BY <1>3 DEF t, u

(* The captures of a go closure.                                           *)
LEMMA CapturesAlike ==
    ASSUME NEW i, i.captures \in Seq(OptionalPlace), NEW H \in SUBSET Place, NEW h \in SUBSET H
    PROVE  Alike(CaptureCalls(i, h), CaptureCalls(i, H))
<1> DEFINE t == CaptureCalls(i, H)
           u == CaptureCalls(i, h)
<1>1. ASSUME NEW k \in DOMAIN i.captures
      PROVE  PlainCall(t[k]) /\ Fewer(u[k], t[k])
  <2> DEFINE c == [do |-> "transfer", place |-> i.captures[k], held |-> H]
  <2>1. t[k] = c /\ u[k] = [c EXCEPT !.held = h]
    BY DEF CaptureCalls
  <2>2. i.captures[k] \in OptionalPlace
    OBVIOUS
  <2>3. c \in Call
    BY <2>2 DEF Call
  <2>4. c.do \in PlainDo /\ c.do # "fieldStore" /\ h \subseteq c.held
    BY DEF PlainDo
  <2> HIDE DEF c, t, u
  <2> QED BY <2>1, <2>3, <2>4, HeldFewer
<1>2. t = [k \in DOMAIN i.captures |-> t[k]] /\ u = [k \in DOMAIN i.captures |-> u[k]]
  BY DEF CaptureCalls
<1> HIDE DEF t, u
<1>3. Alike(u, t)
  BY <1>1, <1>2, AlikePoints
<1> QED BY <1>3 DEF t, u

(* The cases of a select.                                                  *)
LEMMA SelectAlike ==
    ASSUME NEW i, i.cases \in Seq(Case), NEW H \in SUBSET Place, NEW h \in SUBSET H
    PROVE  Alike(SelectCalls(i, h), SelectCalls(i, H))
<1> DEFINE t == SelectCalls(i, H)
           u == SelectCalls(i, h)
<1>1. ASSUME NEW k \in DOMAIN i.cases
      PROVE  PlainCall(t[k]) /\ Fewer(u[k], t[k])
  <2>1. PICK p \in {i.cases[k].place, NoPlace} :
            /\ t[k] = [do |-> "transfer", held |-> H, place |-> p]
            /\ u[k] = [do |-> "transfer", held |-> h, place |-> p]
    BY DEF SelectCalls
  <2> DEFINE c == [do |-> "transfer", held |-> H, place |-> p]
  <2>2. i.cases[k] \in Case
    OBVIOUS
  <2>3. c \in Call
    BY <2>2 DEF Call, Case, OptionalPlace
  <2>4. u[k] = [c EXCEPT !.held = h]
    BY <2>1
  <2>5. c.do \in PlainDo /\ c.do # "fieldStore" /\ h \subseteq c.held /\ t[k] = c
    BY <2>1 DEF PlainDo
  <2> HIDE DEF c, t, u
  <2> QED BY <2>3, <2>4, <2>5, HeldFewer
<1>2. t = [k \in DOMAIN i.cases |-> t[k]] /\ u = [k \in DOMAIN i.cases |-> u[k]]
  BY DEF SelectCalls
<1> HIDE DEF t, u
<1>3. Alike(u, t)
  BY <1>1, <1>2, AlikePoints
<1> QED BY <1>3 DEF t, u

(* Two calls are one and then the other.                                   *)
LEMMA TwoCalls ==
    ASSUME NEW a, NEW b
    PROVE  <<a>> \o <<b>> = <<a, b>>
<1>1. <<a>> \in Seq({a, b}) /\ <<b>> \in Seq({a, b}) /\ <<a, b>> \in Seq({a, b})
  OBVIOUS
<1>2. Len(<<a>>) = 1 /\ Len(<<b>>) = 1 /\ Len(<<a, b>>) = 2
  OBVIOUS
<1>3. /\ (<<a>> \o <<b>>) \in Seq({a, b}) /\ Len(<<a>> \o <<b>>) = 2
      /\ (<<a>> \o <<b>>)[1] = a /\ (<<a>> \o <<b>>)[2] = b
  BY <1>1, <1>2
<1> DEFINE s == <<a>> \o <<b>>
           t == <<a, b>>
<1>4. t[1] = a /\ t[2] = b
  OBVIOUS
<1> HIDE DEF s, t
<1>5. s \in Seq({a, b}) /\ t \in Seq({a, b}) /\ Len(s) = Len(t)
      /\ \A k \in 1..Len(s) : s[k] = t[k]
  BY <1>1, <1>2, <1>3, <1>4 DEF s, t
<1>6. s = t
  BY <1>5
<1> QED BY <1>6 DEF s, t

(* The arguments and the results of a restore.                             *)
LEMMA RestoreAlike ==
    ASSUME NEW i, i.args \in Seq(Argument), i.lhs \in Seq(OptionalPlace),
           NEW H \in SUBSET Place, NEW h \in SUBSET H
    PROVE  Alike(RestoreCalls(i, h), RestoreCalls(i, H))
<1> DEFINE t == [k \in DOMAIN i.args |->
                    [do |-> "restoreArgument", held |-> H,
                     place |-> IF i.args[k].cap = "iso" THEN i.args[k].place ELSE NoPlace]]
           u == [k \in DOMAIN i.args |->
                    [do |-> "restoreArgument", held |-> h,
                     place |-> IF i.args[k].cap = "iso" THEN i.args[k].place ELSE NoPlace]]
           v == [k \in DOMAIN i.lhs |-> [do |-> "restoreResult", place |-> i.lhs[k]]]
<1>1. ASSUME NEW k \in DOMAIN i.args
      PROVE  PlainCall(t[k]) /\ Fewer(u[k], t[k])
  <2>1. PICK p \in {i.args[k].place, NoPlace} :
            /\ t[k] = [do |-> "restoreArgument", held |-> H, place |-> p]
            /\ u[k] = [do |-> "restoreArgument", held |-> h, place |-> p]
    OBVIOUS
  <2> DEFINE c == [do |-> "restoreArgument", held |-> H, place |-> p]
  <2>2. i.args[k] \in Argument
    OBVIOUS
  <2>3. c \in Call
    BY <2>2 DEF Call, Argument, OptionalPlace
  <2>4. u[k] = [c EXCEPT !.held = h] /\ t[k] = c
    BY <2>1
  <2>5. c.do \in PlainDo /\ c.do # "fieldStore" /\ h \subseteq c.held
    BY DEF PlainDo
  <2> HIDE DEF c, t, u
  <2> QED BY <2>3, <2>4, <2>5, HeldFewer
<1>2. ASSUME NEW k \in DOMAIN i.lhs
      PROVE  PlainCall(v[k]) /\ Fewer(v[k], v[k])
  <2>1. i.lhs[k] \in OptionalPlace /\ v[k] = [do |-> "restoreResult", place |-> i.lhs[k]]
    OBVIOUS
  <2>2. v[k] \in Call
    BY <2>1 DEF Call
  <2> QED BY <2>1, <2>2 DEF PlainCall, Fewer, PlainDo
<1>3. /\ t = [k \in DOMAIN i.args |-> t[k]] /\ u = [k \in DOMAIN i.args |-> u[k]]
      /\ v = [k \in DOMAIN i.lhs |-> v[k]]
  OBVIOUS
<1>4. RestoreCalls(i, H) = t \o v /\ RestoreCalls(i, h) = u \o v
  BY DEF RestoreCalls
<1> HIDE DEF t, u, v
<1>5. Alike(u, t)
  BY <1>1, <1>3, AlikePoints
<1>6. Alike(v, v)
  BY <1>2, <1>3, AlikePoints
<1> QED BY <1>4, <1>5, <1>6, AlikeConcat

(* The uses and the transfers of a store.                                  *)
LEMMA StoreAlike ==
    ASSUME NEW i, i.value \in OptionalPlace, i.target \in OptionalPlace,
           i.indexed \in BOOLEAN, NEW pending \in Pending, DeclaredMove(pending),
           NEW H \in SUBSET Place, NEW h \in SUBSET H
    PROVE  Alike(StoreCalls(i, pending, h), StoreCalls(i, pending, H))
<1> DEFINE a == Use(i.value, FALSE)
           b == Use(i.target, FALSE)
           c == [do |-> "fieldStore", move |-> pending, place |-> i.value, held |-> H]
           d == [do |-> "fieldStore", move |-> pending, place |-> i.value, held |-> h]
           e == [do |-> "storeFrontier", place |-> i.value, target |-> i.target,
                 indexed |-> i.indexed]
<1>1. /\ a \in Call /\ a.do \in PlainDo /\ a.do # "fieldStore"
      /\ b \in Call /\ b.do \in PlainDo /\ b.do # "fieldStore"
  BY UseCall DEF Use, PlainDo
<1>2. c \in Call /\ c.do \in PlainDo /\ DeclaredMove(c.move)
      /\ h \subseteq c.held /\ d = [c EXCEPT !.held = h]
  BY DEF Call, PlainDo
<1>3. e \in Call /\ e.do \in PlainDo /\ e.do # "fieldStore"
  BY DEF Call, PlainDo
<1>4. \/ /\ StoreCalls(i, pending, H) = <<a>> \o <<>> \o (<<c>> \o <<e>>)
         /\ StoreCalls(i, pending, h) = <<a>> \o <<>> \o (<<d>> \o <<e>>)
      \/ /\ StoreCalls(i, pending, H) = <<a>> \o <<b>> \o (<<c>> \o <<e>>)
         /\ StoreCalls(i, pending, h) = <<a>> \o <<b>> \o (<<d>> \o <<e>>)
  <2>1. <<c>> \o <<e>> = <<c, e>> /\ <<d>> \o <<e>> = <<d, e>>
    BY TwoCalls
  <2> QED BY <2>1 DEF StoreCalls
<1> HIDE DEF a, b, c, d, e
<1>5. /\ PlainCall(a) /\ PlainCall(b) /\ PlainCall(c) /\ PlainCall(e)
      /\ Fewer(a, a) /\ Fewer(b, b) /\ Fewer(d, c) /\ Fewer(e, e)
  <2>1. PlainCall(a) /\ PlainCall(b) /\ PlainCall(e) /\ Fewer(a, a) /\ Fewer(b, b) /\ Fewer(e, e)
    BY <1>1, <1>3 DEF PlainCall, Fewer
  <2>2. PlainCall(c) /\ Fewer(d, c)
    BY <1>2, HeldFewer
  <2> QED BY <2>1, <2>2
<1>6. /\ Alike(<<a>>, <<a>>) /\ Alike(<<b>>, <<b>>) /\ Alike(<<d>>, <<c>>) /\ Alike(<<e>>, <<e>>)
      /\ Alike(<<>>, <<>>)
  BY <1>5, AlikeOne, AlikeNone
<1>7. Alike(<<d>> \o <<e>>, <<c>> \o <<e>>)
  BY <1>6, AlikeConcat
<1>8. Alike(<<a>> \o <<>>, <<a>> \o <<>>) /\ Alike(<<a>> \o <<b>>, <<a>> \o <<b>>)
  BY <1>6, AlikeConcat
<1>9. /\ Alike(<<a>> \o <<>> \o (<<d>> \o <<e>>), <<a>> \o <<>> \o (<<c>> \o <<e>>))
      /\ Alike(<<a>> \o <<b>> \o (<<d>> \o <<e>>), <<a>> \o <<b>> \o (<<c>> \o <<e>>))
  BY <1>7, <1>8, AlikeConcat
<1> QED BY <1>4, <1>9

(* The checks of a return.                                                 *)
LEMMA ReturnAlike ==
    ASSUME NEW i, i.results \in Seq(Result), NEW H \in SUBSET Place, NEW h \in SUBSET H
    PROVE  Alike(ReturnCalls(i, h), ReturnCalls(i, H))
<1> DEFINE t == [k \in DOMAIN i.results |->
                    [do |-> "returnValue", want |-> i.results[k].want,
                     cap |-> i.results[k].cap, fresh |-> i.results[k].fresh,
                     place |-> i.results[k].place, held |-> H]]
           u == [k \in DOMAIN i.results |->
                    [do |-> "returnValue", want |-> i.results[k].want,
                     cap |-> i.results[k].cap, fresh |-> i.results[k].fresh,
                     place |-> i.results[k].place, held |-> h]]
           a == [do |-> "returnFrontier", results |-> i.results]
           b == [do |-> "returnConflict", results |-> i.results]
           e == [do |-> "exit"]
<1>1. ASSUME NEW k \in DOMAIN i.results
      PROVE  PlainCall(t[k]) /\ Fewer(u[k], t[k])
  <2> DEFINE c == [do |-> "returnValue", want |-> i.results[k].want,
                   cap |-> i.results[k].cap, fresh |-> i.results[k].fresh,
                   place |-> i.results[k].place, held |-> H]
  <2>1. t[k] = c /\ u[k] = [c EXCEPT !.held = h]
    OBVIOUS
  <2>2. i.results[k] \in Result
    OBVIOUS
  <2>3. c \in Call
    BY <2>2 DEF Call, Result
  <2>4. c.do \in PlainDo /\ c.do # "fieldStore" /\ h \subseteq c.held
    BY DEF PlainDo
  <2> HIDE DEF c, t, u
  <2> QED BY <2>1, <2>3, <2>4, HeldFewer
<1>2. t = [k \in DOMAIN i.results |-> t[k]] /\ u = [k \in DOMAIN i.results |-> u[k]]
  OBVIOUS
<1>3. /\ PlainCall(a) /\ PlainCall(b) /\ PlainCall(e)
      /\ Fewer(a, a) /\ Fewer(b, b) /\ Fewer(e, e)
  BY DEF Call, PlainCall, Fewer, PlainDo
<1>4. /\ ReturnCalls(i, H) = <<a>> \o t \o (<<b>> \o <<e>>)
      /\ ReturnCalls(i, h) = <<a>> \o u \o (<<b>> \o <<e>>)
  <2>1. <<b>> \o <<e>> = <<b, e>>
    BY TwoCalls
  <2> QED BY <2>1 DEF ReturnCalls
<1> HIDE DEF t, u, a, b, e
<1>5. Alike(u, t)
  BY <1>1, <1>2, AlikePoints
<1>6. Alike(<<a>>, <<a>>) /\ Alike(<<b>>, <<b>>) /\ Alike(<<e>>, <<e>>)
  BY <1>3, AlikeOne
<1>7. Alike(<<a>> \o u, <<a>> \o t) /\ Alike(<<b>> \o <<e>>, <<b>> \o <<e>>)
  BY <1>5, <1>6, AlikeConcat
<1>8. Alike(<<a>> \o u \o (<<b>> \o <<e>>), <<a>> \o t \o (<<b>> \o <<e>>))
  BY <1>7, AlikeConcat
<1> QED BY <1>4, <1>8

(* The handler of an instruction makes the same calls on a walk as in the  *)
(* engine; the tables they use differ only in the borrows that are held.   *)
LEMMA ScriptAlike ==
    ASSUME NEW i \in Instruction, i.op # "defer", i.op = "stage" => Declared(i.value),
           NEW pending \in Pending, DeclaredMove(pending), NEW named \in BOOLEAN,
           NEW T, NEW table, NEW groups, NEW H \in SUBSET Place, NEW h \in SUBSET H
    PROVE  /\ Alike(Script(i, pending, named, table, groups, h),
                    Script(i, pending, named, T, groups, H))
           /\ PendingAfter(i, pending) \in Pending
           /\ DeclaredMove(PendingAfter(i, pending))
<1> DEFINE t == Script(i, pending, named, T, groups, H)
           u == Script(i, pending, named, table, groups, h)
           after == PendingAfter(i, pending)
<1> DEFINE One(c) == c \in Call /\ c.do \in PlainDo /\ c.do # "fieldStore"
<1>1. \A c : One(c) => Alike(<<c>>, <<c>>)
  BY AlikeOne, HeldFewer
<1>2. \A c : One(c) /\ c.held = H => Alike(<<[c EXCEPT !.held = h]>>, <<c>>)
  BY AlikeOne, HeldFewer
<1>3. NoMove \in Pending /\ DeclaredMove(NoMove)
  BY DEF Pending, DeclaredMove
<1>4. CASE i \in [op : {"use"}, place : OptionalPlace, span : BOOLEAN, binds : SUBSET Bind]
  <2> DEFINE c == Use(i.place, i.span)
  <2>1. t = <<c>> /\ u = <<c>> /\ after = NoMove
    BY <1>4 DEF Script, PendingAfter
  <2>2. One(c)
    BY <1>4, UseCall DEF Use, PlainDo
  <2> HIDE DEF c, t, u, after
  <2>3. Alike(u, t) /\ after \in Pending /\ DeclaredMove(after)
    BY <1>1, <1>3, <2>1, <2>2
  <2> QED BY <2>3 DEF t, u, after
<1>5. CASE i \in [op : {"stage"}, cap : Caps, value : Value]
  <2>1. t = <<>> /\ u = <<>> /\ after = [cap |-> i.cap, value |-> i.value]
    BY <1>5 DEF Script, PendingAfter
  <2>2. after \in Pending /\ DeclaredMove(after)
    BY <1>5, <2>1 DEF Pending, DeclaredMove
  <2> QED BY <2>1, <2>2, AlikeNone
<1>6. CASE i \in [op : {"flow"}, dst : Place, cap : Caps]
  <2> DEFINE c == [do |-> "flow", dst |-> i.dst, cap |-> i.cap]
  <2>1. t = <<c>> /\ u = <<c>> /\ after = NoMove
    BY <1>6 DEF Script, PendingAfter
  <2>2. One(c)
    BY <1>6 DEF Call, PlainDo
  <2> HIDE DEF c, t, u, after
  <2>3. Alike(u, t) /\ after \in Pending /\ DeclaredMove(after)
    BY <1>1, <1>3, <2>1, <2>2
  <2> QED BY <2>3 DEF t, u, after
<1>7. CASE i \in [op : {"assign"}, dst : Place, value : Value]
  <2> DEFINE c == [do |-> "assign", dst |-> i.dst, value |-> i.value, held |-> H]
  <2>1. t = <<c>> /\ u = <<[c EXCEPT !.held = h]>> /\ after = NoMove
    BY <1>7 DEF Script, PendingAfter
  <2>2. One(c) /\ c.held = H
    BY <1>7 DEF Call, PlainDo
  <2> HIDE DEF c, t, u, after
  <2>3. Alike(u, t) /\ after \in Pending /\ DeclaredMove(after)
    BY <1>2, <1>3, <2>1, <2>2
  <2> QED BY <2>3 DEF t, u, after
<1>8. CASE i \in [op : {"store"}, value : OptionalPlace, target : OptionalPlace,
                  indexed : BOOLEAN]
  <2>1. t = StoreCalls(i, pending, H) /\ u = StoreCalls(i, pending, h) /\ after = NoMove
    BY <1>8 DEF Script, PendingAfter
  <2> QED BY <1>3, <1>8, <2>1, StoreAlike
<1>9. CASE i \in [op : {"map", "unsafe"}, place : OptionalPlace]
  <2>1. after = NoMove
    BY <1>9 DEF PendingAfter
  <2>2. CASE i.op = "map"
    <3> DEFINE a == Use(i.place, FALSE)
               b == [do |-> "mapFrontier", place |-> i.place]
    <3>1. t = <<a, b>> /\ u = <<a, b>>
      BY <2>2 DEF Script
    <3>2. One(a)
      BY <1>9, UseCall DEF Use, PlainDo
    <3>3. One(b)
      BY <1>9 DEF Call, PlainDo
    <3> HIDE DEF a, b, t, u, One
    <3>4. <<a, b>> = <<a>> \o <<b>>
      BY TwoCalls
    <3>5. Alike(<<a>>, <<a>>) /\ Alike(<<b>>, <<b>>)
      BY <1>1, <3>2, <3>3
    <3>6. Alike(u, t)
      BY <3>1, <3>4, <3>5, AlikeConcat
    <3> QED BY <1>3, <2>1, <3>6 DEF t, u
  <2>3. CASE i.op = "unsafe"
    <3> DEFINE c == [do |-> "unsafe", place |-> i.place]
    <3>1. t = <<c>> /\ u = <<c>>
      BY <2>3 DEF Script
    <3>2. One(c)
      BY <1>9 DEF Call, PlainDo
    <3> HIDE DEF c, t, u
    <3>3. Alike(u, t)
      BY <1>1, <3>1, <3>2
    <3> QED BY <1>3, <2>1, <3>3 DEF t, u
  <2> QED BY <1>9, <2>2, <2>3
<1>10. CASE i \in [op : {"send"}, place : OptionalPlace, chan : Caps]
  <2> DEFINE c == [do |-> "transfer", place |-> i.place, held |-> H]
  <2> DEFINE d == [do |-> "transfer", place |-> i.place, held |-> h]
  <2>0. /\ t = IF i.chan \in {"iso", "imm"} THEN <<c>> ELSE <<>>
        /\ u = IF i.chan \in {"iso", "imm"} THEN <<d>> ELSE <<>>
    <3> HIDE DEF c, d
    <3>1. i.op = "send"
      BY <1>10
    <3> QED BY <3>1 DEF Script, c, d
  <2>1. \/ t = <<c>> /\ u = <<[c EXCEPT !.held = h]>>
        \/ t = <<>> /\ u = <<>>
    <3>1. d = [c EXCEPT !.held = h]
      OBVIOUS
    <3> QED BY <2>0, <3>1
  <2>2. after = NoMove
    BY <1>10 DEF PendingAfter
  <2>3. One(c) /\ c.held = H
    BY <1>10 DEF Call, PlainDo
  <2> HIDE DEF c, t, u, after
  <2>4. Alike(u, t) /\ after \in Pending /\ DeclaredMove(after)
    BY <1>2, <1>3, <2>1, <2>2, <2>3, AlikeNone
  <2> QED BY <2>4 DEF t, u, after
<1>11. CASE i \in [op : {"select"}, cases : Seq(Case)]
  <2>1. t = SelectCalls(i, H) /\ u = SelectCalls(i, h) /\ after = NoMove
    BY <1>11 DEF Script, PendingAfter
  <2> QED BY <1>3, <1>11, <2>1, SelectAlike
<1>12. CASE i \in [op : {"call"}, args : Seq(Argument)]
  <2>1. t = ArgumentCalls(i, "call", named, H) /\ u = ArgumentCalls(i, "call", named, h)
        /\ after = NoMove
    BY <1>12 DEF Script, PendingAfter
  <2> QED BY <1>3, <1>12, <2>1, ArgumentsAlike DEF Kinds
<1>13. CASE i \in [op : {"go"}, args : Seq(Argument), captures : Seq(OptionalPlace)]
  <2>1. /\ t = ArgumentCalls(i, "go", named, H) \o CaptureCalls(i, H)
        /\ u = ArgumentCalls(i, "go", named, h) \o CaptureCalls(i, h)
        /\ after = NoMove
    BY <1>13 DEF Script, PendingAfter
  <2>2. Alike(ArgumentCalls(i, "go", named, h), ArgumentCalls(i, "go", named, H))
    BY <1>13, ArgumentsAlike DEF Kinds
  <2>3. Alike(CaptureCalls(i, h), CaptureCalls(i, H))
    BY <1>13, CapturesAlike
  <2> QED BY <1>3, <2>1, <2>2, <2>3, AlikeConcat
<1>14. CASE i \in [op : {"defer"}, args : Seq(Argument), touches : Seq(Roots),
                   site : DeferSites]
  BY <1>14
<1>15. CASE i \in [op : {"restore"}, args : Seq(Argument), lhs : Seq(OptionalPlace)]
  <2>1. t = RestoreCalls(i, H) /\ u = RestoreCalls(i, h) /\ after = NoMove
    BY <1>15 DEF Script, PendingAfter
  <2> QED BY <1>3, <1>15, <2>1, RestoreAlike
<1>16. CASE i \in [op : {"swap"}, auto : BOOLEAN, left : OptionalPlace, right : OptionalPlace]
  <2> DEFINE c == [do |-> "swap", left |-> i.left, right |-> i.right, held |-> H]
  <2> DEFINE d == [do |-> "swap", left |-> i.left, right |-> i.right, held |-> h]
  <2>0. t = <<c>> /\ u = <<d>>
    <3>1. i.op = "swap"
      BY <1>16
    <3> QED BY <3>1 DEF Script
  <2>1. t = <<c>> /\ u = <<[c EXCEPT !.held = h]>>
    <3>1. d = [c EXCEPT !.held = h]
      OBVIOUS
    <3> HIDE DEF c, d
    <3> QED BY <2>0, <3>1
  <2>2. after \in {NoMove, pending}
    BY <1>16 DEF PendingAfter
  <2>3. One(c) /\ c.held = H
    BY <1>16 DEF Call, PlainDo
  <2> HIDE DEF c, t, u, after
  <2>4. Alike(u, t) /\ after \in Pending /\ DeclaredMove(after)
    BY <1>2, <1>3, <2>1, <2>2, <2>3
  <2> QED BY <2>4 DEF t, u, after
<1>17. CASE i \in [op : {"freeze"}, place : OptionalPlace, result : Caps \cup {"none"}]
  <2> DEFINE c == [do |-> "freeze", place |-> i.place, result |-> i.result, held |-> H]
  <2>1. t = <<c>> /\ u = <<[c EXCEPT !.held = h]>> /\ after = NoMove
    BY <1>17 DEF Script, PendingAfter
  <2>2. One(c) /\ c.held = H
    BY <1>17 DEF Call, PlainDo
  <2> HIDE DEF c, t, u, after
  <2>3. Alike(u, t) /\ after \in Pending /\ DeclaredMove(after)
    BY <1>2, <1>3, <2>1, <2>2
  <2> QED BY <2>3 DEF t, u, after
<1>18. CASE i \in [op : {"borrow"}, place : OptionalPlace, cap : BorrowCaps]
  <2> DEFINE c == [do |-> "borrow", place |-> i.place, cap |-> i.cap]
  <2>1. t = <<c>> /\ u = <<c>> /\ after = NoMove
    BY <1>18 DEF Script, PendingAfter
  <2>2. One(c)
    BY <1>18 DEF Call, PlainDo
  <2> HIDE DEF c, t, u, after
  <2>3. Alike(u, t) /\ after \in Pending /\ DeclaredMove(after)
    BY <1>1, <1>3, <2>1, <2>2
  <2> QED BY <2>3 DEF t, u, after
<1>19. CASE i \in [op : {"return"}, results : Seq(Result)]
  <2>1. t = ReturnCalls(i, H) /\ u = ReturnCalls(i, h) /\ after = NoMove
    BY <1>19 DEF Script, PendingAfter
  <2> QED BY <1>3, <1>19, <2>1, ReturnAlike
<1> QED BY <1>4, <1>5, <1>6, <1>7, <1>8, <1>9, <1>10, <1>11, <1>12, <1>13, <1>14, <1>15,
           <1>16, <1>17, <1>18, <1>19 DEF Instruction

---------------------------------------------------------------------------
(* What the engine did in block b of the program p: configurations, each   *)
(* made of the next instruction, the calls left, the state and the staged  *)
(* move of an activation.                                                  *)

Instrs(p, b) == p.code["main"][b].instrs

HeldIn(p, b, pc) ==
    {p.borrows[n].source : n \in LiveAfterInstruction(p.borrows, p.code["main"], b, pc)}

IsConf(k) ==
    /\ k \in [pc : Nat, todo : Seq(Call), st : {k.st}, pending : Pending]
    /\ IsState(k.st) /\ DOMAIN k.st.deferred = {}

StartOf(s) == [pc |-> 0, todo |-> <<>>, st |-> s, pending |-> NoMove]
ConfOf(a)  == [pc |-> a.pc, todo |-> a.todo, st |-> a.st, pending |-> a.pending]

NoGroups == [do |-> "groups", left |-> {}]

\* The next configuration of a function without defer.
Advance(p, b, k) ==
    IF k.todo = <<>>
    THEN LET i == Instrs(p, b)[k.pc + 1]
         IN [pc |-> k.pc + 1, st |-> k.st, pending |-> PendingAfter(i, k.pending),
             todo |-> Script(i, k.pending, p.named, p.borrows, p.groups,
                             HeldIn(p, b, k.pc + 1))]
    ELSE LET c == Head(k.todo)
         IN CASE c.do = "exit"    -> [k EXCEPT !.todo = <<NoGroups>> \o Tail(@)]
              [] c.do = "groups"  -> [k EXCEPT !.todo = Tail(@)]
              [] c.do \in PlainDo -> [k EXCEPT !.st = TransferOf(@, c, p.groups).st,
                                               !.todo = Tail(@)]

Ended(p, b, k) == k.todo = <<>> /\ k.pc = Len(Instrs(p, b))

Refused(p, k) ==
    /\ k.todo # <<>> /\ Head(k.todo).do \in PlainDo
    /\ TransferOf(k.st, Head(k.todo), p.groups).errs # {}

\* K is what the engine did in block b, from the entry state s to k: each
\* configuration but the last was accepted and has its successor in K.
Trace(p, b, s, k, K) ==
    /\ StartOf(s) \in K /\ k \in K
    /\ \A j \in K :
          /\ IsConf(j)
          /\ j # k => ~Refused(p, j) /\ ~Ended(p, b, j) /\ Advance(p, b, j) \in K

(* A block that is entered has done nothing.                               *)
LEMMA TraceStarts ==
    ASSUME NEW p, NEW b, NEW s, IsState(s), DOMAIN s.deferred = {}
    PROVE  \E K : Trace(p, b, s, StartOf(s), K)
<1>1. IsConf(StartOf(s))
  BY DEF IsConf, StartOf, Pending
<1>2. Trace(p, b, s, StartOf(s), {StartOf(s)})
  BY <1>1 DEF Trace
<1> QED BY <1>2

(* One more step that the engine accepted.                                 *)
LEMMA TraceStep ==
    ASSUME NEW p, NEW b, NEW s, NEW k, NEW j, \E K : Trace(p, b, s, k, K),
           ~Refused(p, k), ~Ended(p, b, k), j = Advance(p, b, k), IsConf(j)
    PROVE  \E K : Trace(p, b, s, j, K)
<1>1. PICK K : Trace(p, b, s, k, K)
  OBVIOUS
<1>2. Trace(p, b, s, j, K \cup {j})
  BY <1>1 DEF Trace
<1> QED BY <1>2

---------------------------------------------------------------------------
(* The engine's side: every block it has run has such a trace, from the    *)
(* state in which it was last entered to the one in which it was left.     *)

PlainTodo(c) == c.do \in {"merge", "leave"} \/ PlainCall(c) \/ c = NoGroups

\* Block b was last run to its end, without an error.
Ran(p, a, b) ==
    /\ b \in DOMAIN a.out
    /\ \E K, k : Trace(p, b, a.from[b], k, K) /\ Ended(p, b, k) /\ k.st = a.out[b]

\* Block b is under way, and no error has been met in it.
Running(p, a, b) ==
    b = a.blk /\ ~MergePhase(a) /\ \E K : Trace(p, b, a.from[b], ConfOf(a), K)

\* No state of the activation has deferred groups.
NoGroupKept(a) == DOMAIN a.st.deferred = {} /\ \A b \in DOMAIN a.in : DOMAIN a.in[b].deferred = {}

EngineTrace(p, a) ==
    /\ a.fn = "main"
    /\ a.blk = 0 => a.todo = <<>>
    /\ DeclaredMove(a.pending)
    /\ \A k \in DOMAIN a.todo : PlainTodo(a.todo[k])
    /\ NoGroupKept(a)
    /\ 1 \in DOMAIN a.in /\ Covers(a.in[1], NewState)
    /\ \A b \in DOMAIN a.from : IF b = a.blk /\ ~MergePhase(a) THEN Running(p, a, b)
                                ELSE Ran(p, a, b)

\* As long as no error has been reported.
EngineInv == errs = {} /\ PlainProgram(prog) => callers = <<>> /\ EngineTrace(prog, act)

(* The fields of the configuration of an activation.                       *)
LEMMA ConfOfActivation ==
    ASSUME NEW a, IsActivation(a), ~MergePhase(a), DOMAIN a.st.deferred = {}
    PROVE  IsConf(ConfOf(a))
<1>1. a.todo \in Seq(EngineCall) /\ a.pc \in Nat /\ a.pending \in Pending /\ IsState(a.st)
  BY DEF IsActivation
<1>2. \A k \in DOMAIN a.todo : a.todo[k] \in EngineCall /\ a.todo[k].do \notin {"merge", "leave"}
  BY <1>1 DEF MergePhase
<1>3. \A c \in EngineCall : c.do \notin {"merge", "leave"} => c \in Call
  BY DEF EngineCall
<1>4. \A k \in DOMAIN a.todo : a.todo[k] \in Call
  BY <1>2, <1>3
<1>5. a.todo \in Seq(Call)
  <2> DEFINE t == a.todo
  <2>1. t = [k \in DOMAIN t |-> t[k]] /\ t \in Seq(EngineCall)
    BY <1>1
  <2>2. \A k \in DOMAIN t : t[k] \in Call
    BY <1>4
  <2> HIDE DEF t
  <2>3. t \in Seq(Call)
    BY <2>1, <2>2, SeqByPoints
  <2> QED BY <2>3 DEF t
<1> QED BY <1>1, <1>5 DEF IsConf, ConfOf

(* A first activation has run nothing.                                     *)
LEMMA EngineStarts == EngineTrace(prog, Activation("main", NewState))
<1>1. Covers(NewState, NewState) /\ DOMAIN NewState.deferred = {}
  BY CoversReflexive, NewStateType DEF NewState, NoDeferred
<1> QED BY <1>1 DEF EngineTrace, Activation, DeclaredMove, NoGroupKept

(* A step inside a block extends the trace of that block.                  *)
LEMMA RunningKept ==
    ASSUME NEW p, NEW a, NEW b, EngineTrace(p, a), a.blk \in DOMAIN a.from, a.blk # 0,
           ~MergePhase(a), ~MergePhase(b), IsConf(ConfOf(b)),
           b.fn = a.fn, b.in = a.in, b.from = a.from, b.out = a.out, b.blk = a.blk,
           DeclaredMove(b.pending), \A k \in DOMAIN b.todo : PlainTodo(b.todo[k]),
           ~Refused(p, ConfOf(a)), ~Ended(p, a.blk, ConfOf(a)),
           ConfOf(b) = Advance(p, a.blk, ConfOf(a))
    PROVE  EngineTrace(p, b)
<1>1. \E K : Trace(p, a.blk, a.from[a.blk], ConfOf(a), K)
  BY DEF EngineTrace, Running
<1>2. \E K : Trace(p, a.blk, a.from[a.blk], ConfOf(b), K)
  BY <1>1, TraceStep
<1>3. DOMAIN b.st.deferred = {}
  BY DEF IsConf, ConfOf
<1>4. ASSUME NEW x \in DOMAIN b.from
      PROVE  IF x = b.blk /\ ~MergePhase(b) THEN Running(p, b, x) ELSE Ran(p, b, x)
  <2>1. CASE x = b.blk
    BY <1>2, <2>1 DEF Running
  <2>2. CASE x # b.blk
    <3>1. Ran(p, a, x)
      BY <2>2 DEF EngineTrace
    <3> QED BY <2>2, <3>1 DEF Ran
  <2> QED BY <2>1, <2>2
<1> QED BY <1>3, <1>4 DEF EngineTrace, NoGroupKept

(* What the activation is doing in a block of a function without defer.    *)
LEMMA EngineFacts ==
    ASSUME Inv, EngineTrace(prog, act)
    PROVE  /\ prog \in Programs /\ IsRecord(act) /\ IsActivation(act) /\ ActivationInv(act)
           /\ Body(act) = prog.code["main"] /\ 0 \notin DOMAIN act.from
           /\ act.blk # 0 => act.blk \in DOMAIN act.from
                             /\ Block(act).instrs = Instrs(prog, act.blk)
           /\ act.todo # <<>> => /\ act.blk # 0 /\ PlainTodo(call)
                                 /\ Head(act.todo) = call
                                 /\ \A k \in DOMAIN Tail(act.todo) :
                                        PlainTodo(Tail(act.todo)[k])
<1>1. /\ prog \in Programs /\ ActivationInv(act) /\ IsActivation(act) /\ IsRecord(act)
  BY DEF Inv, ActivationInv, IsActivation, IsRecord
<1>2. act.fn = "main" /\ Body(act) = prog.code["main"]
  BY DEF EngineTrace, Body
<1>3. DOMAIN act.from \subseteq DOMAIN Body(act)
  BY <1>1 DEF IsActivation, Blocks
<1>4. 0 \notin DOMAIN act.from
  <2>1. Body(act) \in Seq(BasicBlock)
    BY <1>1, ProgramFacts DEF IsRecord
  <2> QED BY <1>3, <2>1
<1>5. act.blk # 0 => act.blk \in DOMAIN act.from /\ Block(act).instrs = Instrs(prog, act.blk)
  BY <1>1, <1>2 DEF IsActivation, Block, Instrs
<1>6. ASSUME act.todo # <<>>
      PROVE  /\ act.blk # 0 /\ PlainTodo(call) /\ Head(act.todo) = call
             /\ \A k \in DOMAIN Tail(act.todo) : PlainTodo(Tail(act.todo)[k])
  <2>1. act.todo \in Seq(EngineCall)
    BY <1>1 DEF IsActivation
  <2>2. /\ 1 \in DOMAIN act.todo /\ call = act.todo[1]
        /\ \A k \in DOMAIN Tail(act.todo) : k + 1 \in DOMAIN act.todo
                                            /\ Tail(act.todo)[k] = act.todo[k + 1]
    BY <1>6, <2>1 DEF call
  <2> QED BY <1>6, <2>2 DEF EngineTrace, call
<1> QED BY <1>1, <1>2, <1>4, <1>5, <1>6

(* A block is entered.                                                     *)
LEMMA PopBlockTraced ==
    ASSUME Inv, EngineTrace(prog, act), PopBlock,
           1 \in DOMAIN act'.in /\ Covers(act'.in[1], NewState)
    PROVE  EngineTrace(prog, act')
<1> DEFINE b == Head(act.queue)
<1>1. act.blk = 0 /\ act.queue # <<>> /\ act.todo = <<>>
  BY DEF PopBlock, EngineTrace
<1>2. act' = [act EXCEPT !.queue = Tail(@), !.blk = b, !.pc = 0, !.st = act.in[b],
                         !.pending = NoMove, !.from = Put(@, b, act.in[b])]
  BY DEF PopBlock
<1>3. /\ act'.fn = act.fn /\ act'.in = act.in /\ act'.out = act.out
      /\ act'.todo = <<>> /\ act'.pc = 0 /\ act'.blk = b /\ act'.st = act.in[b]
      /\ act'.pending = NoMove /\ act'.from = Put(act.from, b, act.in[b])
  BY <1>1, <1>2, EngineFacts DEF IsRecord
<1>4. b \in DOMAIN act.in /\ IsState(act.in[b])
  BY <1>1, EngineFacts DEF IsActivation
<1>5. DOMAIN act.in[b].deferred = {}
  BY <1>4 DEF EngineTrace, NoGroupKept
<1>6. ConfOf(act') = StartOf(act.in[b])
  BY <1>3 DEF ConfOf, StartOf
<1>7. \E K : Trace(prog, b, act.in[b], ConfOf(act'), K)
  BY <1>4, <1>5, <1>6, TraceStarts
<1>8. ASSUME NEW x \in DOMAIN act'.from
      PROVE  IF x = b THEN Running(prog, act', x) ELSE Ran(prog, act', x)
  <2>1. CASE x = b
    BY <1>3, <1>7, <2>1 DEF Running, MergePhase, Put
  <2>2. CASE x # b
    <3>1. x \in DOMAIN act.from /\ act'.from[x] = act.from[x]
      BY <1>3, <2>2 DEF Put
    <3>2. Ran(prog, act, x)
      BY <1>1, <3>1, EngineFacts DEF EngineTrace
    <3> QED BY <1>3, <2>2, <3>1, <3>2 DEF Ran
  <2> QED BY <2>1, <2>2
<1>9. b # 0 /\ ~MergePhase(act')
  <2>1. b \in DOMAIN Body(act)
    BY <1>4, EngineFacts DEF IsActivation, Blocks
  <2>2. Body(act) \in Seq(BasicBlock)
    BY EngineFacts, ProgramFacts DEF IsRecord
  <2> QED BY <1>3, <2>1, <2>2 DEF MergePhase
<1>10. act'.fn = "main" /\ NoGroupKept(act')
  BY <1>3, <1>5 DEF EngineTrace, NoGroupKept
<1> QED BY <1>3, <1>8, <1>9, <1>10 DEF EngineTrace, DeclaredMove

(* The next instruction: its handler's calls are those of Advance.         *)
LEMMA NextInstructionTraced ==
    ASSUME Inv, PlainProgram(prog), EngineTrace(prog, act), NextInstruction
    PROVE  EngineTrace(prog, act')
<1> DEFINE pc == act.pc + 1
           i  == Block(act).instrs[pc]
           held == Held(act, pc)
           script == Script(i, act.pending, prog.named, prog.borrows, prog.groups, held)
<1>1. act.blk # 0 /\ act.todo = <<>> /\ act.pc < Len(Block(act).instrs)
  BY DEF NextInstruction
<1>2. act' = [act EXCEPT !.pc = pc, !.pending = PendingAfter(i, @), !.todo = script]
  BY DEF NextInstruction
<1>3. /\ act.fn \in Fns /\ act.pc \in Nat /\ act.pending \in Pending
      /\ act.fn = "main" /\ DeclaredMove(act.pending)
      /\ act.blk \in DOMAIN act.from /\ Block(act).instrs = Instrs(prog, act.blk)
  BY <1>1, EngineFacts DEF IsRecord, EngineTrace
<1>4. act.blk \in DOMAIN Body(act) /\ Block(act) \in BasicBlock
  BY <1>1, <1>3, ProgramFacts, EngineFacts DEF IsActivation, Block, Blocks
<1>5. pc \in DOMAIN Block(act).instrs /\ i \in Instruction
  BY <1>1, <1>3, <1>4 DEF BasicBlock
<1>6. i.op # "defer" /\ (i.op = "stage" => Declared(i.value))
  <2>1. PlainInstruction(i, prog.borrows)
    <3>1. act.blk \in DOMAIN prog.code["main"] /\ pc \in DOMAIN Instrs(prog, act.blk)
          /\ i = Instrs(prog, act.blk)[pc]
      BY <1>3, <1>4, <1>5, EngineFacts
    <3> HIDE DEF i, pc
    <3> QED BY <3>1 DEF PlainProgram, Instrs
  <2> HIDE DEF i
  <2> QED BY <2>1 DEF PlainInstruction
<1>7. prog.named \in BOOLEAN /\ held \in SUBSET Place
  BY <1>3, ProgramFacts, EngineFacts
<1> HIDE DEF i, pc, held
<1>8. /\ Alike(script, script)
      /\ PendingAfter(i, act.pending) \in Pending /\ DeclaredMove(PendingAfter(i, act.pending))
  BY <1>3, <1>5, <1>6, <1>7, ScriptAlike
<1> HIDE DEF script
<1>9. script \in Seq(Call) /\ \A k \in DOMAIN script : PlainCall(script[k])
  BY <1>8 DEF Alike
<1>10. /\ act'.fn = act.fn /\ act'.in = act.in /\ act'.from = act.from /\ act'.out = act.out
       /\ act'.blk = act.blk /\ act'.st = act.st /\ act'.pc = pc /\ act'.todo = script
       /\ act'.pending = PendingAfter(i, act.pending)
  BY <1>2, EngineFacts DEF IsRecord
<1>11. ~MergePhase(act) /\ ~MergePhase(act')
  <2>1. \A c : PlainCall(c) => c.do \notin {"merge", "leave"}
    BY DEF PlainCall, PlainDo
  <2> QED BY <1>1, <1>9, <1>10, <2>1 DEF MergePhase
<1>12. ConfOf(act') = Advance(prog, act.blk, ConfOf(act))
  <2>1. held = HeldIn(prog, act.blk, pc)
    BY <1>3, EngineFacts DEF held, Held, HeldIn
  <2>2. i = Instrs(prog, act.blk)[ConfOf(act).pc + 1] /\ pc = ConfOf(act).pc + 1
    BY <1>3 DEF i, pc, ConfOf
  <2>3. script = Script(i, ConfOf(act).pending, prog.named, prog.borrows, prog.groups,
                        HeldIn(prog, act.blk, ConfOf(act).pc + 1))
    BY <2>1, <2>2 DEF script, ConfOf
  <2>4. ConfOf(act).todo = <<>> /\ ConfOf(act).st = act.st
        /\ ConfOf(act).pending = act.pending
    BY <1>1 DEF ConfOf
  <2>5. ConfOf(act') = [pc |-> pc, todo |-> script, st |-> act.st,
                        pending |-> PendingAfter(i, act.pending)]
    BY <1>10 DEF ConfOf
  <2> QED BY <2>2, <2>3, <2>4, <2>5 DEF Advance
<1>13. ~Refused(prog, ConfOf(act)) /\ ~Ended(prog, act.blk, ConfOf(act))
  BY <1>1, <1>3 DEF Refused, Ended, ConfOf
<1>14. IsConf(ConfOf(act'))
  <2>1. IsState(act.st) /\ DOMAIN act.st.deferred = {}
    BY EngineFacts DEF IsActivation, EngineTrace, NoGroupKept
  <2>2. pc \in Nat
    BY <1>3 DEF pc
  <2> QED BY <1>8, <1>9, <1>10, <2>1, <2>2 DEF IsConf, ConfOf
<1>15. \A k \in DOMAIN act'.todo : PlainTodo(act'.todo[k])
  BY <1>9, <1>10 DEF PlainTodo
<1> QED BY <1>1, <1>3, <1>8, <1>10, <1>11, <1>12, <1>13, <1>14, <1>15, RunningKept

(* Every transfer of the engine is the transfer of its call.               *)
LEMMA TransferStepMade ==
    ASSUME TransferStep
    PROVE  LET r == TransferOf(act.st, call, prog.groups)
           IN /\ act.todo # <<>> /\ Head(act.todo) = call
              /\ call.do \notin {"exit", "groups", "merge", "leave"}
              /\ act' = [act EXCEPT !.st = r.st, !.todo = Tail(@)]
              /\ errs' = errs \cup AtInstruction(r.errs, act)
              /\ prog' = prog /\ callers' = callers
<1> DEFINE r == TransferOf(act.st, call, prog.groups)
           Made == /\ act.todo # <<>> /\ Head(act.todo) = call
                   /\ call.do \notin {"exit", "groups", "merge", "leave"}
                   /\ act' = [act EXCEPT !.st = r.st, !.todo = Tail(@)]
                   /\ errs' = errs \cup AtInstruction(r.errs, act)
                   /\ prog' = prog /\ callers' = callers
<1>1. ASSUME NEW do, NEW result, Make(do, result), call.do = do => r = result,
             do \notin {"exit", "groups", "merge", "leave"}
      PROVE  Made
  BY <1>1 DEF Make, Doing, call
<1>2. CASE CheckInstructionUse
  BY <1>1, <1>2 DEF CheckInstructionUse, TransferOf
<1>3. CASE FlowAssign
  BY <1>1, <1>3 DEF FlowAssign, TransferOf
<1>4. CASE Assign
  BY <1>1, <1>4 DEF Assign, TransferOf
<1>5. CASE FieldStore
  BY <1>1, <1>5 DEF FieldStore, TransferOf
<1>6. CASE StoreFrontier
  BY <1>1, <1>6 DEF StoreFrontier, TransferOf
<1>7. CASE MapFrontier
  BY <1>1, <1>7 DEF MapFrontier, TransferOf
<1>8. CASE Transfer
  BY <1>1, <1>8 DEF Transfer, TransferOf
<1>9. CASE CallArgument
  BY <1>1, <1>9 DEF CallArgument, TransferOf
<1>10. CASE DeferredArgument
  BY <1>1, <1>10 DEF DeferredArgument, TransferOf
<1>11. CASE Activate
  BY <1>1, <1>11 DEF Activate, TransferOf
<1>12. CASE Register
  BY <1>1, <1>12 DEF Register, TransferOf
<1>13. CASE RestoreArgument
  BY <1>1, <1>13 DEF RestoreArgument, TransferOf
<1>14. CASE RestoreResult
  BY <1>1, <1>14 DEF RestoreResult, TransferOf
<1>15. CASE Swap
  BY <1>1, <1>15 DEF Swap, TransferOf
<1>16. CASE Unsafe
  BY <1>1, <1>16 DEF Unsafe, TransferOf
<1>17. CASE Freeze
  BY <1>1, <1>17 DEF Freeze, TransferOf
<1>18. CASE ExplicitBorrow
  BY <1>1, <1>18 DEF ExplicitBorrow, TransferOf
<1>19. CASE ReturnFrontier
  BY <1>1, <1>19 DEF ReturnFrontier, TransferOf
<1>20. CASE ReturnValue
  BY <1>1, <1>20 DEF ReturnValue, TransferOf
<1>21. CASE ReturnConflict
  <2> DEFINE q == checkReturnDeferredConflicts(act.st, call, prog.groups)
  <2>1. Make("returnConflict", q)
    BY <1>21 DEF ReturnConflict
  <2>2. call.do = "returnConflict" => r = q
    BY DEF TransferOf
  <2> HIDE DEF q, r, Made
  <2>3. Made
    BY <1>1, <2>1, <2>2
  <2> QED BY <2>3 DEF Made, r
<1>22. CASE DeferredEffect
  BY <1>1, <1>22 DEF DeferredEffect, TransferOf
<1> QED BY <1>2, <1>3, <1>4, <1>5, <1>6, <1>7, <1>8, <1>9, <1>10, <1>11, <1>12, <1>13, <1>14,
           <1>15, <1>16, <1>17, <1>18, <1>19, <1>20, <1>21, <1>22 DEF TransferStep

(* The transfer is accepted when no error is reported, and it is the one   *)
(* that Advance makes.                                                     *)
LEMMA TransferTraced ==
    ASSUME Inv, EngineTrace(prog, act), TransferStep, errs' = {}
    PROVE  EngineTrace(prog, act')
<1> DEFINE r == TransferOf(act.st, call, prog.groups)
<1>1. /\ act.todo # <<>> /\ Head(act.todo) = call
      /\ call.do \notin {"exit", "groups", "merge", "leave"}
      /\ act' = [act EXCEPT !.st = r.st, !.todo = Tail(@)]
      /\ AtInstruction(r.errs, act) = {}
  BY TransferStepMade
<1>2. /\ act.blk # 0 /\ PlainTodo(call) /\ act.blk \in DOMAIN act.from
      /\ \A k \in DOMAIN Tail(act.todo) : PlainTodo(Tail(act.todo)[k])
      /\ IsRecord(act) /\ IsActivation(act) /\ ActivationInv(act)
  BY <1>1, EngineFacts
<1>3. PlainCall(call) /\ call.do \in PlainDo /\ call \in Call
  BY <1>1, <1>2 DEF PlainTodo, NoGroups, PlainCall
<1>4. r.errs = {}
  <2>1. ASSUME NEW e \in r.errs
        PROVE  FALSE
    <3>1. [code |-> e, fn |-> act.fn, blk |-> act.blk, pc |-> act.pc]
              \in AtInstruction(r.errs, act)
      BY <2>1 DEF AtInstruction
    <3> QED BY <1>1, <3>1
  <2> QED BY <2>1
<1>5. IsOutcome(r) /\ r.st.deferred = act.st.deferred
  BY <1>2, <1>3, TransferOfType DEF IsActivation
<1> HIDE DEF r
<1>6. ~MergePhase(act)
  BY <1>1, <1>2, NotMerging
<1>7. /\ act'.fn = act.fn /\ act'.in = act.in /\ act'.from = act.from /\ act'.out = act.out
      /\ act'.blk = act.blk /\ act'.st = r.st /\ act'.pc = act.pc
      /\ act'.todo = Tail(act.todo) /\ act'.pending = act.pending
  BY <1>1, <1>2 DEF IsRecord
<1>8. ActivationInv(act') /\ ~MergePhase(act')
  <2>1. Tail(act.todo) \in Seq(EngineCall) /\ NoMerge(Tail(act.todo))
    BY <1>1, <1>2, <1>6, TailFacts
  <2>2. act' = [act EXCEPT !.st = r.st, !.todo = Tail(act.todo)]
    BY <1>1, <1>2 DEF IsRecord
  <2> QED BY <1>2, <1>5, <1>6, <2>1, <2>2, TransferKeeps DEF IsOutcome
<1>9. DOMAIN act'.st.deferred = {}
  BY <1>5, <1>7 DEF EngineTrace, NoGroupKept
<1>10. IsConf(ConfOf(act'))
  BY <1>8, <1>9, ConfOfActivation DEF ActivationInv
<1> DEFINE k == ConfOf(act)
<1>11. k \in [pc : {act.pc}, todo : {act.todo}, st : {act.st}, pending : {act.pending}]
  BY DEF ConfOf
<1>12. ~Refused(prog, k) /\ ~Ended(prog, act.blk, k)
  <2>1. k.todo = act.todo /\ k.st = act.st
    BY <1>11
  <2> HIDE DEF k
  <2> QED BY <1>1, <1>4, <2>1 DEF Refused, Ended, r
<1>13. ConfOf(act') = Advance(prog, act.blk, k)
  <2>1. k.todo = act.todo /\ k.st = act.st /\ k.todo # <<>> /\ Head(k.todo) = call
    BY <1>1, <1>11
  <2>2. ConfOf(act') = [k EXCEPT !.st = r.st, !.todo = Tail(act.todo)]
    <3>1. ConfOf(act') = [pc |-> act.pc, todo |-> Tail(act.todo), st |-> r.st,
                          pending |-> act.pending]
      BY <1>7 DEF ConfOf
    <3> DEFINE new == [k EXCEPT !.st = r.st, !.todo = Tail(act.todo)]
    <3> HIDE DEF k
    <3>2. /\ new.pc = act.pc /\ new.todo = Tail(act.todo) /\ new.st = r.st
          /\ new.pending = act.pending
      BY <1>11
    <3>3. new \in [pc : {new.pc}, todo : {new.todo}, st : {new.st}, pending : {new.pending}]
      BY <1>11
    <3> HIDE DEF new
    <3>4. ConfOf(act') = new
      BY <3>1, <3>2, <3>3
    <3> QED BY <3>4 DEF new
  <2> HIDE DEF k
  <2>3. call.do \in PlainDo /\ call.do # "exit" /\ call.do # "groups"
    BY <1>1, <1>3
  <2>4. Advance(prog, act.blk, k) = [k EXCEPT !.st = TransferOf(@, call, prog.groups).st,
                                              !.todo = Tail(@)]
    BY <2>1, <2>3 DEF Advance
  <2>5. Advance(prog, act.blk, k) = [k EXCEPT !.st = r.st, !.todo = Tail(act.todo)]
    BY <1>11, <2>1, <2>4 DEF r
  <2> QED BY <2>2, <2>5
<1> HIDE DEF k
<1>14. DeclaredMove(act'.pending) /\ \A j \in DOMAIN act'.todo : PlainTodo(act'.todo[j])
  BY <1>2, <1>7 DEF EngineTrace
<1> QED BY <1>2, <1>6, <1>7, <1>8, <1>10, <1>12, <1>13, <1>14, RunningKept DEF k

(* At a return there is no group to run.                                   *)
LEMMA ExitTraced ==
    ASSUME Inv, EngineTrace(prog, act), Exit \/ NoGroupLeft
    PROVE  EngineTrace(prog, act')
<1> DEFINE rest == Tail(act.todo)
           todo == IF call.do = "exit" THEN <<NoGroups>> \o rest ELSE rest
<1>1. act.todo # <<>> /\ Head(act.todo) = call /\ call.do \in {"exit", "groups"}
  BY DEF Exit, NoGroupLeft, Doing, call
<1>2. /\ act.blk # 0 /\ PlainTodo(call) /\ act.blk \in DOMAIN act.from
      /\ \A k \in DOMAIN rest : PlainTodo(rest[k])
      /\ IsRecord(act) /\ IsActivation(act) /\ ActivationInv(act)
  BY <1>1, EngineFacts
<1>3. DOMAIN act.st.deferred = {}
  BY DEF EngineTrace, NoGroupKept
<1>4. act' = [act EXCEPT !.todo = todo]
  <2>1. CASE Exit
    BY <1>2, <1>3, <2>1 DEF Exit, Doing, call, NoGroups, IsRecord
  <2>2. CASE NoGroupLeft
    <3>1. call.do = "groups" /\ act' = [act EXCEPT !.todo = Tail(@)]
      BY <2>2 DEF NoGroupLeft, Doing, call
    <3> QED BY <1>2, <3>1 DEF IsRecord
  <2> QED BY <2>1, <2>2
<1>5. ~MergePhase(act)
  BY <1>1, <1>2, NotMerging
<1>6. NoGroups \in EngineCall /\ NoGroups.do = "groups"
  BY DEF NoGroups, EngineCall, Call
<1>7. todo \in Seq(EngineCall) /\ NoMerge(todo)
  BY <1>1, <1>2, <1>5, <1>6, TailFacts
<1>8. \A k \in DOMAIN todo : PlainTodo(todo[k])
  <2>1. CASE call.do # "exit"
    BY <1>2, <2>1
  <2>2. CASE call.do = "exit"
    <3>1. rest \in Seq(EngineCall)
      BY <1>1, <1>2, <1>5, TailFacts
    <3>2. todo = <<NoGroups>> \o rest
      BY <2>2
    <3> HIDE DEF rest, todo
    <3>3. \A k \in DOMAIN todo : todo[k] = NoGroups \/ \E j \in DOMAIN rest : todo[k] = rest[j]
      <4> SUFFICES ASSUME NEW k \in DOMAIN todo
                   PROVE  todo[k] = NoGroups \/ \E j \in DOMAIN rest : todo[k] = rest[j]
        OBVIOUS
      <4>1. CASE k = 1
        BY <3>1, <3>2, <4>1
      <4>2. CASE k # 1
        <5>1. k - 1 \in DOMAIN rest /\ todo[k] = rest[k - 1]
          BY <3>1, <3>2, <4>2
        <5> QED BY <5>1
      <4> QED BY <4>1, <4>2
    <3> QED BY <1>2, <3>3 DEF PlainTodo
  <2> QED BY <2>1, <2>2
<1> HIDE DEF todo
<1>9. /\ act'.fn = act.fn /\ act'.in = act.in /\ act'.from = act.from /\ act'.out = act.out
      /\ act'.blk = act.blk /\ act'.st = act.st /\ act'.pc = act.pc
      /\ act'.todo = todo /\ act'.pending = act.pending
  BY <1>2, <1>4 DEF IsRecord
<1>10. ActivationInv(act') /\ ~MergePhase(act')
  <2>1. act' = [act EXCEPT !.st = act.st, !.todo = todo] /\ IsState(act.st)
    BY <1>2, <1>4 DEF IsRecord, IsActivation
  <2> QED BY <1>2, <1>5, <1>7, <2>1, TransferKeeps
<1>11. IsConf(ConfOf(act'))
  BY <1>3, <1>9, <1>10, ConfOfActivation DEF ActivationInv
<1> DEFINE k == ConfOf(act)
<1>12. ~Refused(prog, k) /\ ~Ended(prog, act.blk, k)
  BY <1>1 DEF Refused, Ended, ConfOf, PlainDo
<1>13. ConfOf(act') = Advance(prog, act.blk, k)
  <2>1. k \in [pc : {act.pc}, todo : {act.todo}, st : {act.st}, pending : {act.pending}]
        /\ k.todo # <<>> /\ Head(k.todo) = call
    BY <1>1 DEF ConfOf
  <2>2. ConfOf(act') = [k EXCEPT !.todo = todo]
    BY <1>9 DEF ConfOf
  <2> HIDE DEF k
  <2>3. Advance(prog, act.blk, k) = [k EXCEPT !.todo = todo]
    BY <1>1, <2>1 DEF Advance, todo, PlainDo
  <2> QED BY <2>2, <2>3
<1> HIDE DEF k
<1>14. DeclaredMove(act'.pending) /\ \A j \in DOMAIN act'.todo : PlainTodo(act'.todo[j])
  BY <1>8, <1>9 DEF EngineTrace
<1> QED BY <1>2, <1>5, <1>9, <1>10, <1>11, <1>12, <1>13, <1>14, RunningKept DEF k

(* Merging defers no group.                                                *)
LEMMA MergeKeepsNoGroup ==
    ASSUME NEW s, NEW t, DOMAIN s.deferred = {}, DOMAIN t.deferred = {}
    PROVE  DOMAIN MergeStates(s, t).deferred = {}
BY DEF MergeStates, MergeDeferred

(* A block that ends has been run, from its last entry to its exit state.  *)
LEMMA EndBlockTraced ==
    ASSUME Inv, EngineTrace(prog, act), EndBlock, ActivationInv(act')
    PROVE  EngineTrace(prog, act')
<1> DEFINE succs  == Block(act).succs
           merges == [k \in DOMAIN succs |-> [do |-> "merge", succ |-> succs[k]]]
           leave  == [do |-> "leave"]
           todo   == merges \o <<leave>>
           out    == Put(act.out, act.blk, act.st)
<1>1. act.blk # 0 /\ act.todo = <<>> /\ act.pc = Len(Block(act).instrs)
  BY DEF EndBlock
<1>2. IsRecord(act) /\ act.blk \in DOMAIN act.from /\ Block(act).instrs = Instrs(prog, act.blk)
  BY <1>1, EngineFacts
<1>3. PICK exit : act' = [act EXCEPT !.out = out, !.exit = exit, !.todo = todo]
  BY <1>2 DEF EndBlock, IsRecord
<1>4. MergePhase(act')
  <2>1. succs \in Seq(Nat)
    <3>1. act.blk \in DOMAIN Body(act) /\ Body(act) \in Seq(BasicBlock)
      BY <1>1, EngineFacts, ProgramFacts DEF IsActivation, IsRecord, Blocks
    <3>2. Block(act) \in BasicBlock
      BY <3>1 DEF Block
    <3> QED BY <3>2 DEF BasicBlock
  <2>2. merges \in Seq({merges[k] : k \in DOMAIN succs}) /\ DOMAIN merges = DOMAIN succs
    BY <2>1
  <2> HIDE DEF merges, succs
  <2>3. todo[Len(merges) + 1] = leave /\ Len(merges) + 1 \in DOMAIN todo
    <3> HIDE DEF leave
    <3> QED BY <2>2
  <2>4. act'.todo = todo
    BY <1>2, <1>3 DEF IsRecord
  <2> HIDE DEF todo
  <2> QED BY <2>3, <2>4 DEF MergePhase
<1> HIDE DEF todo, out
<1>5. /\ act'.fn = act.fn /\ act'.in = act.in /\ act'.from = act.from /\ act'.out = out
      /\ act'.blk = act.blk /\ act'.st = act.st /\ act'.pending = act.pending
  BY <1>2, <1>3 DEF IsRecord
<1>6. \A k \in DOMAIN act'.todo : PlainTodo(act'.todo[k])
  BY <1>4 DEF ActivationInv, PhaseOK, PlainTodo
<1>7. ~MergePhase(act)
  BY <1>1 DEF MergePhase
<1>8. ASSUME NEW x \in DOMAIN act'.from
      PROVE  Ran(prog, act', x)
  <2>1. CASE x = act.blk
    <3>1. \E K : Trace(prog, x, act.from[x], ConfOf(act), K)
      BY <1>2, <1>7, <2>1 DEF EngineTrace, Running
    <3>2. Ended(prog, x, ConfOf(act)) /\ ConfOf(act).st = act.st
      BY <1>1, <1>2, <2>1 DEF Ended, ConfOf
    <3>3. x \in DOMAIN out /\ out[x] = act.st
      BY <2>1 DEF out, Put
    <3> QED BY <1>5, <3>1, <3>2, <3>3 DEF Ran
  <2>2. CASE x # act.blk
    <3>1. Ran(prog, act, x)
      BY <1>5, <2>2 DEF EngineTrace
    <3>2. x \in DOMAIN act.out => x \in DOMAIN out /\ out[x] = act.out[x]
      BY <2>2 DEF out, Put
    <3> QED BY <1>5, <3>1, <3>2 DEF Ran
  <2> QED BY <2>1, <2>2
<1> QED BY <1>1, <1>4, <1>5, <1>6, <1>8 DEF EngineTrace, NoGroupKept

(* The merges into the successors and the end of the block leave what the  *)
(* blocks have done alone.                                                 *)
LEMMA MergeTraced ==
    ASSUME Inv, EngineTrace(prog, act), VisitSuccessor \/ MergeSuccessor \/ LeaveBlock,
           ActivationInv(act'),
           1 \in DOMAIN act'.in /\ Covers(act'.in[1], NewState)
    PROVE  EngineTrace(prog, act')
<1>1. /\ IsRecord(act) /\ act.todo # <<>> /\ call.do \in {"merge", "leave"}
      /\ act.blk # 0 /\ Head(act.todo) = call /\ PhaseOK(act) /\ IsActivation(act)
  BY EngineFacts DEF VisitSuccessor, MergeSuccessor, LeaveBlock, Doing, call, ActivationInv
<1>2. /\ act.todo \in Seq(EngineCall) /\ 1 \in DOMAIN act.todo /\ call = act.todo[1]
      /\ Len(act.todo) = 1 => Tail(act.todo) = <<>>
      /\ Len(act.todo) # 1 => /\ Len(act.todo) - 1 \in DOMAIN Tail(act.todo)
                              /\ Tail(act.todo)[Len(act.todo) - 1] = act.todo[Len(act.todo)]
  <2> DEFINE t == act.todo
  <2>1. t \in Seq(EngineCall) /\ t # <<>> /\ call = Head(t)
    BY <1>1 DEF IsRecord
  <2> HIDE DEF t
  <2>2. /\ 1 \in DOMAIN t /\ call = t[1]
        /\ Len(t) = 1 => Tail(t) = <<>>
        /\ Len(t) # 1 => Len(t) - 1 \in DOMAIN Tail(t) /\ Tail(t)[Len(t) - 1] = t[Len(t)]
    <3>1. /\ Tail(t) \in Seq(EngineCall) /\ Len(Tail(t)) = Len(t) - 1 /\ Len(t) \in Nat \ {0}
          /\ 1 \in DOMAIN t /\ call = t[1]
      BY <2>1
    <3>2. Len(t) = 1 => Tail(t) = <<>>
      <4> DEFINE u == Tail(t)
      <4>1. u \in Seq(EngineCall) /\ (Len(t) = 1 => Len(u) = 0)
        BY <3>1
      <4> HIDE DEF u
      <4>2. Len(u) = 0 => u = <<>>
        BY <4>1
      <4> QED BY <4>1, <4>2 DEF u
    <3>3. Len(t) # 1 => Len(t) - 1 \in DOMAIN Tail(t) /\ Tail(t)[Len(t) - 1] = t[Len(t)]
      BY <2>1, <3>1
    <3> QED BY <3>1, <3>2, <3>3
  <2> QED BY <2>1, <2>2 DEF t
<1>3. MergePhase(act)
  BY <1>1, <1>2 DEF MergePhase
<1>4. \A x \in DOMAIN act.from : Ran(prog, act, x)
  BY <1>3 DEF EngineTrace
<1>5. /\ act'.fn = act.fn /\ act'.from = act.from /\ act'.out = act.out
      /\ act'.st = act.st /\ act'.pending = act.pending /\ act'.todo = Tail(act.todo)
      /\ ~LeaveBlock => act'.blk = act.blk
      /\ LeaveBlock  => act'.blk = 0 /\ act'.in = act.in
  BY <1>1 DEF VisitSuccessor, MergeSuccessor, LeaveBlock, IsRecord
<1>6. \A x \in DOMAIN act'.from : Ran(prog, act', x)
  BY <1>4, <1>5 DEF Ran
<1>7. \A k \in DOMAIN act'.todo : PlainTodo(act'.todo[k])
  BY <1>1, <1>5, EngineFacts
<1>8. CASE LeaveBlock
  <2>1. call.do = "leave"
    BY <1>8 DEF LeaveBlock, Doing, call
  <2>2. Len(act.todo) = 1
    BY <1>1, <1>2, <1>3, <2>1 DEF PhaseOK
  <2>3. act'.todo = <<>>
    BY <1>2, <1>5, <2>2
  <2>4. NoGroupKept(act')
    BY <1>5, <1>8 DEF EngineTrace, NoGroupKept
  <2>5. 0 \notin DOMAIN act'.from
    BY <1>5, EngineFacts
  <2> QED BY <1>5, <1>6, <1>7, <1>8, <2>3, <2>4, <2>5 DEF EngineTrace
<1>9. CASE ~LeaveBlock
  <2>1. call.do = "merge"
    BY <1>9 DEF VisitSuccessor, MergeSuccessor, Doing, call
  <2>2. MergePhase(act')
    <3>1. Len(act.todo) \in DOMAIN act.todo /\ act.todo[Len(act.todo)].do = "leave"
      BY <1>1, <1>2, <1>3 DEF PhaseOK
    <3>2. Len(act.todo) # 1
      BY <1>2, <2>1, <3>1
    <3>3. Len(act.todo) - 1 \in DOMAIN Tail(act.todo)
          /\ Tail(act.todo)[Len(act.todo) - 1] = act.todo[Len(act.todo)]
      BY <1>1, <1>2, <3>2
    <3> QED BY <1>5, <3>1, <3>3 DEF MergePhase
  <2>3. DOMAIN act.st.deferred = {} /\ \A x \in DOMAIN act.in : DOMAIN act.in[x].deferred = {}
    BY DEF EngineTrace, NoGroupKept
  <2>4. \A x \in DOMAIN act'.in :
            \/ act'.in[x] = act.st
            \/ /\ x \in DOMAIN act.in
               /\ act'.in[x] \in {act.in[x], MergeStates(act.in[x], act.st)}
    <3>1. CASE VisitSuccessor
      <4>1. act'.in = Put(act.in, call.succ, act.st)
        BY <1>1, <3>1 DEF VisitSuccessor, IsRecord
      <4> QED BY <4>1 DEF Put
    <3>2. CASE MergeSuccessor
      <4>1. act'.in = act.in \/ act'.in = [act.in EXCEPT ![call.succ] =
                                              MergeStates(act.in[call.succ], act.st)]
        BY <1>1, <3>2 DEF MergeSuccessor, IsRecord
      <4> QED BY <4>1
    <3> QED BY <1>9, <3>1, <3>2
  <2>5. NoGroupKept(act')
    BY <1>5, <2>3, <2>4, MergeKeepsNoGroup DEF NoGroupKept
  <2> QED BY <1>1, <1>5, <1>6, <1>7, <1>9, <2>2, <2>5 DEF EngineTrace
<1> QED BY <1>8, <1>9

(* Nothing is deferred, so none of the steps that run a group is taken.    *)
LEMMA NoGroupRuns ==
    ASSUME Inv, EngineTrace(prog, act), callers = <<>>
    PROVE  ~RefuseRepeatedMove /\ ~RunDeferredEffects /\ ~RunDeferredClosure
           /\ ~ReturnFromClosure
<1>1. ASSUME Doing("groups")
      PROVE  call.left = {}
  <2>1. PlainTodo(call) /\ call.do = "groups"
    BY <1>1, EngineFacts DEF Doing, call
  <2>2. call = NoGroups
    BY <2>1 DEF PlainTodo, PlainCall, PlainDo
  <2> QED BY <2>2 DEF NoGroups
<1> QED BY <1>1 DEF RefuseRepeatedMove, RunDeferredEffects, RunDeferredClosure, ReturnFromClosure

(* Errors are never taken back.                                            *)
LEMMA ErrsGrow ==
    ASSUME Next
    PROVE  errs \subseteq errs'
<1>1. CASE WorklistStep
  BY <1>1 DEF WorklistStep, PopBlock, NextInstruction, EndBlock, VisitSuccessor,
     MergeSuccessor, LeaveBlock
<1>2. CASE TransferStep
  BY <1>2, TransferStepMade
<1>3. CASE ExitStep
  BY <1>3 DEF ExitStep, Exit, RefuseRepeatedMove, RunDeferredEffects, RunDeferredClosure,
     NoGroupLeft, ReturnFromClosure
<1>4. CASE Stop
  BY <1>4 DEF Stop, vars
<1> QED BY <1>1, <1>2, <1>3, <1>4 DEF Next

(* The program is never changed.                                           *)
LEMMA NextKeepsProgram ==
    ASSUME Next
    PROVE  prog' = prog
<1>1. CASE WorklistStep
  BY <1>1 DEF WorklistStep, PopBlock, NextInstruction, EndBlock, VisitSuccessor,
     MergeSuccessor, LeaveBlock
<1>2. CASE TransferStep
  BY <1>2, TransferStepMade
<1>3. CASE ExitStep
  BY <1>3 DEF ExitStep, Exit, RefuseRepeatedMove, RunDeferredEffects, RunDeferredClosure,
     NoGroupLeft, ReturnFromClosure
<1>4. CASE Stop
  BY <1>4 DEF Stop, vars
<1> QED BY <1>1, <1>2, <1>3, <1>4 DEF Next

(* The engine's invariant: as long as no error is reported, each block     *)
(* that has been run has a trace.                                          *)
LEMMA EngineInvStart == Init => EngineInv
BY EngineStarts DEF Init, EngineInv

(* Each step keeps it: a step that reports an error ends the promise.      *)
LEMMA EngineInvNext == Inv /\ EngineInv /\ Next => EngineInv'
<1> SUFFICES ASSUME Inv, EngineInv, Next, errs' = {}, PlainProgram(prog')
             PROVE  callers' = <<>> /\ EngineTrace(prog', act')
  BY DEF EngineInv
<1>1. errs = {}
  BY ErrsGrow
<1>2. prog' = prog
  BY NextKeepsProgram
<1>3. callers = <<>> /\ EngineTrace(prog, act) /\ PlainProgram(prog)
  BY <1>1, <1>2 DEF EngineInv
<1>4. ~RefuseRepeatedMove /\ ~RunDeferredEffects /\ ~RunDeferredClosure /\ ~ReturnFromClosure
  BY <1>3, NoGroupRuns
<1>5. callers' = callers
  <2>1. CASE WorklistStep
    BY <2>1 DEF WorklistStep, PopBlock, NextInstruction, EndBlock, VisitSuccessor,
       MergeSuccessor, LeaveBlock
  <2>2. CASE TransferStep
    BY <2>2, TransferStepMade
  <2>3. CASE ExitStep
    BY <1>4, <2>3 DEF ExitStep, Exit, NoGroupLeft
  <2>4. CASE Stop
    BY <2>4 DEF Stop, vars
  <2> QED BY <2>1, <2>2, <2>3, <2>4 DEF Next
<1>6. ActivationInv(act')
  <2>1. Inv'
    BY NextInv
  <2>2. ActivationInv(act)'
    BY <2>1 DEF Inv
  <2>3. (ActivationInv(act))' <=> ActivationInv(act')
    BY <1>2 DEF ActivationInv, IsActivation, PhaseOK, MergePhase, Covered, MergePending,
       Fresh, Body, Succs, Blocks
  <2> QED BY <2>2, <2>3
<1>7. 1 \in DOMAIN act'.in /\ Covers(act'.in[1], NewState)
  <2>1. 1 \in DOMAIN act.in /\ Covers(act.in[1], NewState)
    BY <1>3 DEF EngineTrace
  <2>2. EntryGrows \/ act' = act
    BY StepGrows DEF vars
  <2>3. CASE act' = act
    BY <2>1, <2>3
  <2>4. CASE EntryGrows
    BY <1>5, <2>1, <2>4, CoversTransitive DEF EntryGrows
  <2> QED BY <2>2, <2>3, <2>4
<1>8. EngineTrace(prog, act')
  <2>1. CASE PopBlock
    BY <1>3, <1>7, <2>1, PopBlockTraced
  <2>2. CASE NextInstruction
    BY <1>3, <2>2, NextInstructionTraced
  <2>3. CASE EndBlock
    BY <1>3, <1>6, <2>3, EndBlockTraced
  <2>4. CASE VisitSuccessor \/ MergeSuccessor \/ LeaveBlock
    BY <1>3, <1>6, <1>7, <2>4, MergeTraced
  <2>5. CASE TransferStep
    BY <1>3, <2>5, TransferTraced
  <2>6. CASE Exit \/ NoGroupLeft
    BY <1>3, <2>6, ExitTraced
  <2>7. CASE Stop
    BY <1>3, <2>7 DEF Stop, vars
  <2> QED BY <1>4, <2>1, <2>2, <2>3, <2>4, <2>5, <2>6, <2>7
          DEF Next, WorklistStep, ExitStep
<1> QED BY <1>2, <1>3, <1>5, <1>8

---------------------------------------------------------------------------
(* The walk's side: the engine did in the same block what the walk does.   *)

\* The walk has bound no other place than the table of named borrows says.
Agrees(p, table) ==
    /\ DOMAIN table \subseteq DOMAIN p.borrows
    /\ \A n \in DOMAIN table : table[n].source = p.borrows[n].source

\* f is at the configuration j.
At(f, j) ==
    f.pc = j.pc /\ f.pending = j.pending /\ Alike(f.todo, j.todo) /\ Follows(j.st, f.st)

Completed(p, a, b, k, K) == Trace(p, b, a.in[b], k, K) /\ Ended(p, b, k) /\ k.st = a.out[b]

IsFrame(f) ==
    /\ f \in [fn : {"main"}, blk : Nat, pc : Nat, todo : Seq(Call), st : {f.st},
              pending : Pending, defers : {<<>>}, table : {f.table}]
    /\ IsState(f.st)

Walker(p, a, f) ==
    /\ IsFrame(f) /\ f.blk \in DOMAIN a.in
    /\ DeclaredMove(f.pending) /\ Agrees(p, f.table)
    /\ \E K, k : Completed(p, a, f.blk, k, K) /\ \E j \in K : At(f, j)

WalkInv ==
    PlainProgram(prog) =>
        /\ slips = {}
        /\ walk # <<>> => /\ Done /\ errs = {}
                          /\ \E f : walk = <<f>> /\ Walker(prog, act, f)

(* When the engine is done, each block was last run from its entry state,  *)
(* and what it left is covered by the entry states of its successors.      *)
LEMMA AtDone ==
    ASSUME Inv, EngineTrace(prog, act), Done, NEW b \in DOMAIN act.in
    PROVE  /\ b \in DOMAIN Body(act) /\ b \in Nat /\ IsState(act.in[b])
           /\ DOMAIN act.in[b].deferred = {}
           /\ \E K, k : Completed(prog, act, b, k, K)
           /\ \A s \in Succs(Body(act), b) : s \in DOMAIN act.in
                                             /\ Covers(act.in[s], act.out[b])
<1>1. act.blk = 0 /\ act.queue = <<>> /\ act.todo = <<>>
  BY DEF Done, BodyDone, EngineTrace
<1>2. IsActivation(act) /\ Fresh(act) /\ Covered(act) /\ 0 \notin DOMAIN act.from
  BY EngineFacts DEF ActivationInv
<1>3. b \in DOMAIN act.from /\ act.from[b] = act.in[b]
  BY <1>1, <1>2 DEF Fresh, Contains
<1>4. Ran(prog, act, b)
  BY <1>1, <1>2, <1>3 DEF EngineTrace
<1>5. b \in DOMAIN Body(act) /\ b \in Nat
  <2>1. Body(act) \in Seq(BasicBlock)
    BY EngineFacts, ProgramFacts DEF IsRecord
  <2> QED BY <1>2, <2>1 DEF IsActivation, Blocks
<1>6. IsState(act.in[b]) /\ DOMAIN act.in[b].deferred = {}
  BY <1>2 DEF IsActivation, EngineTrace, NoGroupKept
<1>7. \A s \in Succs(Body(act), b) : s \in DOMAIN act.in /\ Covers(act.in[s], act.out[b])
  <2>1. \A s : ~MergePending(act, s)
    BY <1>1 DEF MergePending
  <2> QED BY <1>2, <1>4, <2>1 DEF Covered, Ran
<1> QED BY <1>3, <1>4, <1>5, <1>6, <1>7 DEF Ran, Completed

(* A walk that enters a block in a state its entry state covers.           *)
LEMMA WalkerEnters ==
    ASSUME Inv, EngineTrace(prog, act), Done, NEW f, IsFrame(f), f.blk \in DOMAIN act.in,
           f.pc = 0, f.todo = <<>>, f.pending = NoMove, Agrees(prog, f.table),
           Follows(act.in[f.blk], f.st)
    PROVE  Walker(prog, act, f)
<1>1. PICK K, k : Completed(prog, act, f.blk, k, K)
  BY AtDone
<1>2. StartOf(act.in[f.blk]) \in K
  BY <1>1 DEF Completed, Trace
<1>3. At(f, StartOf(act.in[f.blk]))
  BY AlikeNone DEF At, StartOf
<1> QED BY <1>1, <1>2, <1>3 DEF Walker, DeclaredMove

(* The walk begins.                                                        *)
LEMMA EnterWalks ==
    ASSUME Inv, EngineTrace(prog, act), Done
    PROVE  Walker(prog, act, Frame("main", NewState, [n \in {} |-> 0]))
<1> DEFINE f == Frame("main", NewState, [n \in {} |-> 0])
<1>1. /\ f.blk = 1 /\ f.pc = 0 /\ f.todo = <<>> /\ f.pending = NoMove /\ f.st = NewState
      /\ DOMAIN f.table = {}
  BY DEF Frame
<1>2. IsFrame(f)
  BY NewStateType DEF IsFrame, Frame, Pending
<1> HIDE DEF f
<1>3. Follows(act.in[1], NewState) /\ 1 \in DOMAIN act.in
  BY DEF EngineTrace, Follows, NewState, NoDeferred
<1>4. Walker(prog, act, f)
  BY <1>1, <1>2, <1>3, WalkerEnters DEF Agrees
<1> QED BY <1>4 DEF f

(* The walk goes on to a successor.                                        *)
LEMMA JumpWalks ==
    ASSUME Inv, EngineTrace(prog, act), Done, NEW f, Walker(prog, act, f),
           f.todo = <<>>, f.pc = Len(Block(f).instrs), NEW b \in Succs(Body(f), f.blk)
    PROVE  Walker(prog, act, [f EXCEPT !.blk = b, !.pc = 0, !.pending = NoMove])
<1>1. PICK K, k, j : /\ Completed(prog, act, f.blk, k, K) /\ j \in K /\ At(f, j)
  BY DEF Walker
<1>2. Body(f) = prog.code["main"] /\ Block(f).instrs = Instrs(prog, f.blk)
  BY DEF Walker, IsFrame, Body, Block, Instrs
<1>3. j = k
  <2>1. IsConf(j)
    BY <1>1 DEF Completed, Trace
  <2>2. j.todo = <<>>
    <3>1. j.todo \in Seq(Call) /\ Len(j.todo) = 0
      BY <1>1 DEF At, Alike
    <3> QED BY <3>1
  <2>3. Ended(prog, f.blk, j)
    BY <1>1, <1>2, <2>2 DEF Ended, At
  <2> QED BY <1>1, <2>3 DEF Completed, Trace
<1>4. /\ f.blk \in DOMAIN act.in /\ b \in DOMAIN act.in /\ Covers(act.in[b], act.out[f.blk])
      /\ b \in Nat
  <2>1. Body(f) = Body(act)
    BY <1>2, EngineFacts
  <2> QED BY <2>1, AtDone DEF Walker
<1>5. Follows(act.in[b], f.st)
  BY <1>1, <1>3, <1>4, CoversTransitive DEF Completed, At, Follows
<1> DEFINE g == [f EXCEPT !.blk = b, !.pc = 0, !.pending = NoMove]
<1>6. /\ g.blk = b /\ g.pc = 0 /\ g.pending = NoMove /\ g.todo = <<>> /\ g.st = f.st
      /\ g.table = f.table /\ IsFrame(g)
  BY <1>4 DEF Walker, IsFrame, Pending
<1> HIDE DEF g
<1>7. Walker(prog, act, g)
  BY <1>4, <1>5, <1>6, WalkerEnters DEF Walker
<1> QED BY <1>7 DEF g

(* A configuration of the block that is not its last has its successor.    *)
LEMMA WalkerAdvances ==
    ASSUME NEW p, NEW a, NEW b, NEW K, NEW k, Completed(p, a, b, k, K), NEW j \in K,
           ~Ended(p, b, j)
    PROVE  ~Refused(p, j) /\ Advance(p, b, j) \in K /\ IsConf(j)
           /\ IsConf(Advance(p, b, j))
BY DEF Completed, Trace

(* The walk makes the calls of the next instruction.                       *)
LEMMA InstructionWalks ==
    ASSUME Inv, PlainProgram(prog), EngineTrace(prog, act), Done,
           NEW f, Walker(prog, act, f), f.todo = <<>>, f.pc < Len(Block(f).instrs),
           NEW pc, pc = f.pc + 1, NEW i, i = Block(f).instrs[pc],
           NEW table, table = RebindTable(f.table, i)
    PROVE  Walker(prog, act,
               [f EXCEPT !.pc = pc, !.pending = PendingAfter(i, @), !.table = table,
                         !.todo = Script(i, f.pending, prog.named, table, prog.groups,
                                         WalkHeld(f, pc))])
<1> DEFINE h == WalkHeld(f, pc)
           held == HeldIn(prog, f.blk, pc)
           script == Script(i, f.pending, prog.named, table, prog.groups, h)
           g == [f EXCEPT !.pc = pc, !.pending = PendingAfter(i, @), !.table = table,
                          !.todo = script]
<1>1. PICK K, k, j : Completed(prog, act, f.blk, k, K) /\ j \in K /\ At(f, j)
  BY DEF Walker
<1>2. /\ Body(f) = prog.code["main"] /\ Body(f) = Body(act)
      /\ Block(f).instrs = Instrs(prog, f.blk) /\ f.fn = "main"
      /\ f.pc \in Nat /\ f.pending \in Pending /\ DeclaredMove(f.pending) /\ f.blk \in Nat
  BY EngineFacts DEF Walker, IsFrame, Body, Block, Instrs
<1>3. f.blk \in DOMAIN Body(f) /\ Block(f) \in BasicBlock
  <2>1. f.blk \in DOMAIN Body(f)
    BY <1>2, AtDone DEF Walker
  <2>2. Body(act) \in Seq(BasicBlock)
    BY EngineFacts, ProgramFacts DEF IsRecord
  <2> QED BY <1>2, <2>1, <2>2 DEF Block
<1>4. pc \in DOMAIN Block(f).instrs /\ i \in Instruction
  BY <1>2, <1>3 DEF BasicBlock
<1>5. PlainInstruction(i, prog.borrows)
  BY <1>2, <1>3, <1>4 DEF PlainProgram, Instrs
<1>6. h \subseteq held /\ held \in SUBSET Place
  <2>1. h \subseteq held
    BY <1>2 DEF WalkHeld, HeldIn, Walker, Agrees
  <2>2. IsTable(prog.borrows)
    BY EngineFacts, ProgramFacts DEF IsRecord
  <2>3. LiveAfterInstruction(prog.borrows, prog.code["main"], f.blk, pc)
            \subseteq DOMAIN prog.borrows
    BY DEF LiveAfterInstruction
  <2> QED BY <2>1, <2>2, <2>3 DEF HeldIn, IsTable
<1>7. Agrees(prog, table)
  <2>1. \A n \in DOMAIN table :
            \/ n \in DOMAIN f.table /\ table[n].source = f.table[n].source
            \/ \E d \in RecordedBinds(i) : d.name = n /\ table[n].source = d.source
    <3> SUFFICES ASSUME NEW n \in DOMAIN table
                 PROVE  \/ n \in DOMAIN f.table /\ table[n].source = f.table[n].source
                        \/ \E d \in RecordedBinds(i) : d.name = n /\ table[n].source = d.source
      OBVIOUS
    <3>1. CASE \E d \in RecordedBinds(i) : d.name = n
      <4> DEFINE e == CHOOSE d \in RecordedBinds(i) : d.name = n
      <4>1. e \in RecordedBinds(i) /\ e.name = n
        BY <3>1
      <4>2. table[n] = [source |-> e.source, cap |-> RootCap[n]]
        BY <3>1 DEF RebindTable
      <4> HIDE DEF e
      <4>3. table[n].source = e.source
        BY <4>2
      <4> QED BY <4>1, <4>3
    <3>2. CASE ~\E d \in RecordedBinds(i) : d.name = n
      BY <3>2 DEF RebindTable
    <3> QED BY <3>1, <3>2
  <2>2. \A d \in RecordedBinds(i) : d.name \in DOMAIN prog.borrows
                                    /\ prog.borrows[d.name].source = d.source
    BY <1>5 DEF PlainInstruction
  <2> QED BY <2>1, <2>2 DEF Walker, Agrees
<1>8. j.pc = f.pc /\ j.pending = f.pending /\ j.todo = <<>> /\ Follows(j.st, f.st)
  <2>1. j.todo \in Seq(Call) /\ Len(j.todo) = 0
    BY <1>1 DEF At, Alike
  <2> QED BY <1>1, <2>1 DEF At
<1>9. ~Ended(prog, f.blk, j)
  BY <1>2, <1>8 DEF Ended
<1> DEFINE next == Advance(prog, f.blk, j)
           t == Script(i, f.pending, prog.named, prog.borrows, prog.groups, held)
<1>10. next \in K
  BY <1>1, <1>9, WalkerAdvances
<1>11. /\ next.pc = pc /\ next.st = j.st /\ next.pending = PendingAfter(i, f.pending)
       /\ next.todo = t
  BY <1>2, <1>8 DEF Advance
<1>12. /\ Alike(script, t)
       /\ PendingAfter(i, f.pending) \in Pending /\ DeclaredMove(PendingAfter(i, f.pending))
  <2>1. prog.named \in BOOLEAN
    BY EngineFacts, ProgramFacts DEF IsRecord
  <2>2. i.op # "defer" /\ (i.op = "stage" => Declared(i.value))
    BY <1>5 DEF PlainInstruction
  <2> HIDE DEF h, held
  <2> QED BY <1>2, <1>4, <1>6, <2>1, <2>2, ScriptAlike
<1> HIDE DEF script, t, next, h
<1>13. /\ g.pc = pc /\ g.pending = PendingAfter(i, f.pending) /\ g.table = table
       /\ g.todo = script /\ g.st = f.st /\ g.blk = f.blk
  BY DEF Walker, IsFrame
<1>14. IsFrame(g)
  <2>1. script \in Seq(Call) /\ pc \in Nat
    BY <1>2, <1>12 DEF Alike
  <2>2. g \in [fn : {"main"}, blk : Nat, pc : Nat, todo : Seq(Call), st : {f.st},
               pending : Pending, defers : {<<>>}, table : {table}]
    BY <1>12, <2>1 DEF Walker, IsFrame
  <2> QED BY <1>13, <2>2 DEF Walker, IsFrame
<1> HIDE DEF g
<1>15. At(g, next)
  BY <1>8, <1>11, <1>12, <1>13 DEF At
<1>16. Walker(prog, act, g)
  BY <1>1, <1>7, <1>10, <1>12, <1>13, <1>14, <1>15 DEF Walker
<1> QED BY <1>16 DEF g, script, h

(* The rest of the calls.                                                  *)
LEMMA AlikeTail ==
    ASSUME NEW u, NEW t, Alike(u, t), u # <<>>
    PROVE  /\ t # <<>> /\ PlainCall(Head(t)) /\ Fewer(Head(u), Head(t))
           /\ Head(u) \in Call /\ Head(t) \in Call
           /\ Alike(Tail(u), Tail(t)) /\ Tail(u) \in Seq(Call)
<1>1. u \in Seq(Call) /\ t \in Seq(Call) /\ Len(u) = Len(t)
  BY DEF Alike
<1>2. t # <<>> /\ 1 \in 1..Len(t) /\ Head(u) = u[1] /\ Head(t) = t[1]
  BY <1>1
<1>3. PlainCall(Head(t)) /\ Fewer(Head(u), Head(t))
  BY <1>2 DEF Alike
<1>4. /\ Tail(u) \in Seq(Call) /\ Tail(t) \in Seq(Call) /\ Len(Tail(u)) = Len(Tail(t))
      /\ \A k \in 1..Len(Tail(t)) : /\ k + 1 \in 1..Len(t)
                                    /\ Tail(u)[k] = u[k + 1] /\ Tail(t)[k] = t[k + 1]
  BY <1>1, <1>2
<1>5. Alike(Tail(u), Tail(t))
  BY <1>4 DEF Alike
<1> QED BY <1>1, <1>2, <1>3, <1>4, <1>5

(* A call of the walk succeeds, as it did for the engine.                  *)
LEMMA CallWalks ==
    ASSUME NEW p, NEW a, NEW f, Walker(p, a, f), f.todo # <<>>, Head(f.todo).do # "exit",
           NEW r, r = TransferOf(f.st, Head(f.todo), p.groups)
    PROVE  /\ r.errs = {} /\ Head(f.todo).do # "register"
           /\ Walker(p, a, [f EXCEPT !.st = r.st, !.todo = Tail(@)])
<1>1. PICK K, k, j : Completed(p, a, f.blk, k, K) /\ j \in K /\ At(f, j)
  BY DEF Walker
<1> DEFINE c == Head(f.todo)
           d == Head(j.todo)
           q == TransferOf(j.st, d, p.groups)
           next == Advance(p, f.blk, j)
           g == [f EXCEPT !.st = r.st, !.todo = Tail(@)]
<1>2. /\ j.todo # <<>> /\ PlainCall(d) /\ Fewer(c, d) /\ c \in Call /\ d \in Call
      /\ Alike(Tail(f.todo), Tail(j.todo)) /\ Tail(f.todo) \in Seq(Call)
  BY <1>1, AlikeTail DEF At
<1>3. c.do = d.do /\ d.do \in PlainDo
  BY <1>2, FewerFacts DEF PlainCall
<1>4. ~Refused(p, j) /\ next \in K /\ IsConf(j) /\ IsConf(next)
  <2>1. ~Ended(p, f.blk, j)
    BY <1>2 DEF Ended
  <2> QED BY <1>1, <2>1, WalkerAdvances
<1>5. q.errs = {}
  BY <1>2, <1>3, <1>4 DEF Refused
<1>6. Follows(j.st, f.st) /\ IsState(j.st) /\ IsState(f.st)
  BY <1>1, <1>4 DEF At, IsConf, Walker, IsFrame
<1>7. Tracks(q, r)
  <2> HIDE DEF c, d
  <2>1. d.do # "exit" /\ r = TransferOf(f.st, c, p.groups)
    BY <1>3 DEF PlainDo, c
  <2> QED BY <1>2, <1>6, <2>1, TransferTracks
<1>8. r.errs = {} /\ Follows(q.st, r.st)
  BY <1>5, <1>7 DEF Tracks
<1>9. IsState(r.st)
  BY <1>2, <1>3, <1>6, TransferOfType DEF IsOutcome
<1>10. /\ next.pc = j.pc /\ next.pending = j.pending /\ next.todo = Tail(j.todo)
       /\ next.st = q.st
  <2>1. next = [j EXCEPT !.st = q.st, !.todo = Tail(@)]
    <3> HIDE DEF q
    <3>1. d.do # "exit" /\ d.do # "groups"
      BY <1>3 DEF PlainDo
    <3> QED BY <1>2, <1>3, <1>4, <3>1 DEF Advance, q, IsConf
  <2> QED BY <1>4, <2>1 DEF IsConf
<1> HIDE DEF next, q
<1>11. /\ g.pc = f.pc /\ g.pending = f.pending /\ g.todo = Tail(f.todo) /\ g.st = r.st
       /\ g.blk = f.blk /\ g.table = f.table
  BY DEF Walker, IsFrame
<1>12. IsFrame(g)
  <2>1. g \in [fn : {"main"}, blk : Nat, pc : Nat, todo : Seq(Call), st : {r.st},
               pending : Pending, defers : {<<>>}, table : {f.table}]
    BY <1>2 DEF Walker, IsFrame
  <2> QED BY <1>9, <1>11, <2>1 DEF IsFrame
<1> HIDE DEF g
<1>13. At(g, next)
  BY <1>1, <1>2, <1>8, <1>10, <1>11 DEF At
<1>14. Walker(p, a, g)
  BY <1>1, <1>4, <1>11, <1>12, <1>13 DEF Walker
<1>15. c.do # "register"
  BY <1>3 DEF PlainDo
<1> QED BY <1>8, <1>14, <1>15 DEF g

(* No closure is deferred on the walk, and no group in the engine.         *)
LEMMA ReturnWalks ==
    ASSUME NEW p, NEW a, NEW f, Walker(p, a, f), f.todo # <<>>, Head(f.todo).do = "exit"
    PROVE  Walker(p, a, [f EXCEPT !.todo = Tail(@)])
<1>1. PICK K, k, j : Completed(p, a, f.blk, k, K) /\ j \in K /\ At(f, j)
  BY DEF Walker
<1> DEFINE first == Advance(p, f.blk, j)
           second == Advance(p, f.blk, first)
           g == [f EXCEPT !.todo = Tail(@)]
           rest == Tail(j.todo)
           todo == <<NoGroups>> \o rest
<1>2. /\ j.todo # <<>> /\ Head(j.todo).do = "exit"
      /\ Alike(Tail(f.todo), rest) /\ Tail(f.todo) \in Seq(Call)
  BY <1>1, AlikeTail, FewerFacts DEF At
<1>3. first \in K /\ IsConf(j) /\ IsConf(first)
  <2>1. ~Ended(p, f.blk, j)
    BY <1>2 DEF Ended
  <2> QED BY <1>1, <2>1, WalkerAdvances
<1>4. /\ first.pc = j.pc /\ first.pending = j.pending /\ first.st = j.st
      /\ first.todo = todo
  <2>1. first = [j EXCEPT !.todo = <<NoGroups>> \o Tail(@)]
    BY <1>2 DEF Advance, PlainDo
  <2> QED BY <1>3, <2>1 DEF IsConf
<1>5. todo # <<>> /\ Head(todo) = NoGroups /\ Tail(todo) = rest
  <2>1. rest \in Seq(Call) /\ NoGroups \in Call
    BY <1>2 DEF Alike, NoGroups, Call
  <2> HIDE DEF rest
  <2> QED BY <2>1
<1> HIDE DEF first, todo, rest
<1>6. second \in K
  <2>1. ~Ended(p, f.blk, first)
    BY <1>4, <1>5 DEF Ended
  <2> QED BY <1>1, <1>3, <2>1, WalkerAdvances
<1>7. /\ second.pc = j.pc /\ second.pending = j.pending /\ second.st = j.st
      /\ second.todo = rest
  <2>1. NoGroups.do = "groups"
    BY DEF NoGroups
  <2>2. second = [first EXCEPT !.todo = Tail(@)]
    BY <1>4, <1>5, <2>1 DEF Advance, PlainDo
  <2> QED BY <1>3, <1>4, <1>5, <2>2 DEF IsConf
<1> HIDE DEF second
<1>8. /\ g.pc = f.pc /\ g.pending = f.pending /\ g.todo = Tail(f.todo) /\ g.st = f.st
      /\ g.blk = f.blk /\ g.table = f.table /\ IsFrame(g)
  BY <1>2 DEF Walker, IsFrame
<1> HIDE DEF g
<1>9. At(g, second)
  BY <1>1, <1>2, <1>7, <1>8 DEF At
<1>10. Walker(p, a, g)
  BY <1>1, <1>6, <1>8, <1>9 DEF Walker
<1> QED BY <1>10 DEF g

(* A walk with one frame whose top changes has one frame.                  *)
LEMMA TopOfOne ==
    ASSUME NEW f, walk = <<f>>
    PROVE  Top = f /\ Len(walk) = 1 /\ \A g : Becomes(g) => walk' = <<g>>
BY DEF Top, Last, Becomes

(* Once the engine is done it stands still.                                *)
LEMMA NothingAfterDone ==
    ASSUME EngineTrace(prog, act), Done, Next
    PROVE  UNCHANGED vars
<1>1. act.blk = 0 /\ act.queue = <<>> /\ act.todo = <<>> /\ callers = <<>>
  BY DEF Done, BodyDone, EngineTrace
<1>2. ~WorklistStep
  BY <1>1 DEF WorklistStep, PopBlock, NextInstruction, EndBlock, VisitSuccessor,
     MergeSuccessor, LeaveBlock, Doing
<1>3. ~TransferStep
  BY <1>1, TransferStepMade
<1>4. ~ExitStep
  BY <1>1 DEF ExitStep, Exit, RefuseRepeatedMove, RunDeferredEffects, RunDeferredClosure,
     NoGroupLeft, ReturnFromClosure, Doing
<1> QED BY <1>2, <1>3, <1>4 DEF Next, Stop

(* The inductive invariant of walks: the walk of an accepted function is   *)
(* followed by what the engine did in the block where it is.               *)
LEMMA WalkInvNext ==
    Inv /\ Inv' /\ EngineInv /\ EngineInv' /\ WalkInv /\ PathNext => WalkInv'
<1> SUFFICES ASSUME Inv, EngineInv, WalkInv, PathNext, PlainProgram(prog')
             PROVE  /\ slips' = {}
                    /\ walk' # <<>> => /\ Done' /\ errs' = {}
                                       /\ \E f : walk' = <<f>> /\ Walker(prog', act', f)
  BY DEF WalkInv
<1>1. CASE Next /\ UNCHANGED <<walk, slips>>
  <2>1. prog' = prog
    BY <1>1, NextKeepsProgram
  <2>2. slips' = {}
    BY <1>1, <2>1 DEF WalkInv
  <2>3. ASSUME walk' # <<>>
        PROVE  /\ Done' /\ errs' = {}
               /\ \E f : walk' = <<f>> /\ Walker(prog', act', f)
    <3>1. /\ Done /\ errs = {}
          /\ \E f : walk = <<f>> /\ Walker(prog, act, f)
      BY <1>1, <2>1, <2>3 DEF WalkInv
    <3>2. UNCHANGED vars
      BY <1>1, <2>1, <3>1, NothingAfterDone DEF EngineInv
    <3> QED BY <1>1, <3>1, <3>2 DEF vars, Done, BodyDone
  <2> QED BY <2>2, <2>3
<1>2. CASE ~(Next /\ UNCHANGED <<walk, slips>>)
  <2>1. UNCHANGED vars
    BY <1>2 DEF PathNext, Enter, WalkInstruction, WalkCall, Jump, RunLastDeferred,
       DefersDone, LeaveClosure, Walking
  <2>2. prog' = prog /\ act' = act /\ errs' = errs /\ Done' = Done
    BY <2>1 DEF vars, Done, BodyDone
  <2>3. PlainProgram(prog) /\ slips = {}
    BY <2>2 DEF WalkInv
  <2>4. Done /\ errs = {}
    BY <1>2, <2>3 DEF PathNext, Enter, WalkInstruction, WalkCall, Jump, RunLastDeferred,
       DefersDone, LeaveClosure, Walking, WalkInv
  <2>5. EngineTrace(prog, act)
    BY <2>3, <2>4 DEF EngineInv
  <2>6. SUFFICES slips' = {} /\ (walk' # <<>> => \E f : walk' = <<f>> /\ Walker(prog, act, f))
    BY <2>2, <2>4
  <2>7. CASE Enter
    BY <2>3, <2>4, <2>5, <2>7, EnterWalks DEF Enter
  <2>8. ASSUME walk # <<>>
        PROVE  slips' = {} /\ (walk' # <<>> => \E f : walk' = <<f>> /\ Walker(prog, act, f))
    <3>1. PICK f : walk = <<f>> /\ Walker(prog, act, f)
      BY <2>3, <2>8 DEF WalkInv
    <3>2. Top = f /\ Len(walk) = 1 /\ \A g : Becomes(g) => walk' = <<g>>
      BY <3>1, TopOfOne
    <3>3. f.defers = <<>>
      BY <3>1 DEF Walker, IsFrame
    <3>4. CASE WalkInstruction
      <4> DEFINE pc == f.pc + 1
                 i  == Block(f).instrs[pc]
                 table == RebindTable(f.table, i)
                 g == [f EXCEPT !.pc = pc, !.pending = PendingAfter(i, @), !.table = table,
                                !.todo = Script(i, f.pending, prog.named, table,
                                                prog.groups, WalkHeld(f, pc))]
      <4>1. f.todo = <<>> /\ f.pc < Len(Block(f).instrs) /\ Becomes(g) /\ slips' = slips
        BY <3>2, <3>4 DEF WalkInstruction
      <4>2. Walker(prog, act, g)
        BY <2>3, <2>4, <2>5, <3>1, <4>1, InstructionWalks
      <4> HIDE DEF g
      <4> QED BY <2>3, <3>2, <4>1, <4>2
    <3>5. CASE WalkCall
      <4> DEFINE r == TransferOf(f.st, Head(f.todo), prog.groups)
                 g == [f EXCEPT !.st = r.st, !.todo = Tail(@)]
      <4>1. f.todo # <<>> /\ Head(f.todo).do # "exit"
            /\ slips' = slips \cup AtInstruction(r.errs, f)
        BY <3>2, <3>5 DEF WalkCall
      <4>2. /\ r.errs = {} /\ Head(f.todo).do # "register"
            /\ Walker(prog, act, g)
        BY <3>1, <4>1, CallWalks
      <4>3. Becomes(g)
        <5>1. Becomes([f EXCEPT !.st = r.st, !.todo = Tail(@), !.defers = f.defers])
          <6>1. Becomes([f EXCEPT !.st = r.st, !.todo = Tail(@),
                             !.defers = IF Head(f.todo).do = "register"
                                        THEN Append(@, Head(f.todo).site) ELSE @])
            BY <3>2, <3>5 DEF WalkCall
          <6> HIDE DEF r
          <6> QED BY <3>1, <4>2, <6>1 DEF Walker, IsFrame
        <5>2. [f EXCEPT !.st = r.st, !.todo = Tail(@), !.defers = f.defers] = g
          <6> HIDE DEF r
          <6> QED BY <3>1 DEF Walker, IsFrame
        <5> QED BY <5>1, <5>2
      <4>4. slips' = {}
        BY <2>3, <4>1, <4>2 DEF AtInstruction
      <4> HIDE DEF g
      <4> QED BY <3>2, <4>2, <4>3, <4>4
    <3>6. CASE Jump
      <4>1. f.todo = <<>> /\ f.pc = Len(Block(f).instrs) /\ slips' = slips
        BY <3>2, <3>6 DEF Jump
      <4>2. PICK b \in Succs(Body(f), f.blk) :
                Becomes([f EXCEPT !.blk = b, !.pc = 0, !.pending = NoMove])
        BY <3>2, <3>6 DEF Jump
      <4>3. Walker(prog, act, [f EXCEPT !.blk = b, !.pc = 0, !.pending = NoMove])
        BY <2>4, <2>5, <3>1, <4>1, JumpWalks
      <4> QED BY <2>3, <3>2, <4>1, <4>2, <4>3
    <3>7. CASE RunLastDeferred
      BY <3>2, <3>3, <3>7 DEF RunLastDeferred
    <3>8. CASE DefersDone
      <4>1. /\ f.todo # <<>> /\ Head(f.todo).do = "exit" /\ slips' = slips
            /\ Becomes([f EXCEPT !.todo = Tail(@)])
        BY <3>2, <3>8 DEF DefersDone
      <4>2. Walker(prog, act, [f EXCEPT !.todo = Tail(@)])
        BY <3>1, <4>1, ReturnWalks
      <4> QED BY <2>3, <3>2, <4>1, <4>2
    <3>9. CASE LeaveClosure
      BY <3>2, <3>9 DEF LeaveClosure
    <3> QED BY <1>2, <2>8, <3>4, <3>5, <3>6, <3>7, <3>8, <3>9 DEF PathNext, Enter
  <2> QED BY <1>2, <2>7, <2>8 DEF PathNext, WalkInstruction, WalkCall, Jump,
             RunLastDeferred, DefersDone, LeaveClosure, Walking
<1> QED BY <1>1, <1>2

(* The engine's invariants hold along walks.                               *)
LEMMA PathInv == PathSpec => [](Inv /\ EngineInv /\ WalkInv)
<1>1. PathInit => Inv /\ EngineInv /\ WalkInv
  BY InitInv, EngineInvStart DEF PathInit, WalkInv
<1>2. Inv /\ EngineInv /\ WalkInv /\ [PathNext]_pathVars => (Inv /\ EngineInv /\ WalkInv)'
  <2> SUFFICES ASSUME Inv, EngineInv, WalkInv, [PathNext]_pathVars
               PROVE  Inv' /\ EngineInv' /\ WalkInv'
    OBVIOUS
  <2>1. CASE UNCHANGED pathVars
    <3>1. UNCHANGED vars /\ walk' = walk /\ slips' = slips
      BY <2>1 DEF pathVars
    <3>2. Inv'
      BY <3>1, NextInv
    <3>3. EngineInv'
      BY <3>1 DEF EngineInv, vars
    <3>4. WalkInv'
      BY <3>1 DEF WalkInv, vars, Done, BodyDone
    <3> QED BY <3>2, <3>3, <3>4
  <2>2. CASE PathNext
    <3>1. [Next]_vars
      BY <2>2 DEF PathNext, Enter, WalkInstruction, WalkCall, Jump, RunLastDeferred,
         DefersDone, LeaveClosure, Walking
    <3>2. Inv'
      BY <3>1, NextInv
    <3>3. EngineInv'
      <4>1. CASE Next
        BY <4>1, EngineInvNext
      <4>2. CASE UNCHANGED vars
        BY <4>2 DEF EngineInv, vars
      <4> QED BY <3>1, <4>1, <4>2
    <3> QED BY <2>2, <3>2, <3>3, WalkInvNext
  <2> QED BY <2>1, <2>2
<1> QED BY <1>1, <1>2, PTL DEF PathSpec

(* The engine is sound for every function without defer whose named        *)
(* borrows each have one source: if it reports nothing, no path through    *)
(* the function, through any loop any number of times, moves, uses or      *)
(* returns what it may not.                                                *)
THEOREM AcceptedSound == PathSpec => [](PlainProgram(prog) => AcceptedIsSound)
<1>1. Inv /\ EngineInv /\ WalkInv => (PlainProgram(prog) => AcceptedIsSound)
  BY DEF WalkInv, AcceptedIsSound
<1> QED BY <1>1, PathInv, PTL
---------------------------------------------------------------------------
(* The deferred groups of an activation are those of its own function.     *)

Within(s, D) == DOMAIN s.deferred \subseteq D

Registers(todo, D) == \A k \in DOMAIN todo : todo[k].do = "register" => todo[k].site \in D

(* Nothing registers a defer statement of another function, now or later.  *)
OwnAct(a) == OwnGroups(a) /\ Registers(a.todo, DefersIn(Body(a)))

Own == OwnAct(act) /\ \A k \in DOMAIN callers : OwnAct(callers[k])

(* The states of an activation, one by one.                                *)
LEMMA OwnParts ==
    ASSUME NEW a, NEW D, D = DefersIn(Body(a))
    PROVE  OwnAct(a) <=> /\ Within(a.st, D)
                         /\ \A s \in a.exit : Within(s, D)
                         /\ \A b \in DOMAIN a.in : Within(a.in[b], D)
                         /\ \A b \in DOMAIN a.out : Within(a.out[b], D)
                         /\ Registers(a.todo, D)
BY DEF OwnAct, OwnGroups, StatesOf, Within

(* A merge defers what either of its states defers (addMergedDeferred).    *)
LEMMA MergeWithin ==
    ASSUME NEW D, NEW s, Within(s, D), NEW t, Within(t, D)
    PROVE  Within(MergeStates(s, t), D)
BY DEF Within, MergeStates, MergeDeferred

(* The rest of a list of calls, and one list after another.                *)
LEMMA TailRegisters ==
    ASSUME NEW S, NEW t \in Seq(S), t # <<>>, NEW D, Registers(t, D)
    PROVE  Registers(Tail(t), D)
<1>1. \A k \in DOMAIN Tail(t) : k + 1 \in DOMAIN t /\ Tail(t)[k] = t[k + 1]
  OBVIOUS
<1> QED BY <1>1 DEF Registers

LEMMA ConcatRegisters ==
    ASSUME NEW S, NEW t \in Seq(S), NEW u \in Seq(S), NEW D, Registers(t, D), Registers(u, D)
    PROVE  Registers(t \o u, D)
<1> DEFINE v == t \o u
<1>1. /\ DOMAIN v = 1..(Len(t) + Len(u)) /\ Len(t) \in Nat /\ Len(u) \in Nat
      /\ \A k \in 1..Len(t) : v[k] = t[k]
      /\ \A k \in 1..(Len(t) + Len(u)) : k > Len(t) => v[k] = u[k - Len(t)]
  OBVIOUS
<1> HIDE DEF v
<1>2. ASSUME NEW k \in DOMAIN v
      PROVE  v[k].do = "register" => v[k].site \in D
  <2>1. CASE k \in 1..Len(t)
    BY <1>1, <2>1 DEF Registers
  <2>2. CASE k \notin 1..Len(t)
    <3>1. v[k] = u[k - Len(t)] /\ k - Len(t) \in 1..Len(u)
      BY <1>1, <2>2
    <3> QED BY <3>1 DEF Registers
  <2> QED BY <2>1, <2>2
<1> QED BY <1>2 DEF Registers, v

(* The handler of a defer registers its own statement, and no other        *)
(* handler registers one.                                                  *)
LEMMA ScriptRegisters ==
    ASSUME NEW i \in Instruction, NEW pending \in Pending, NEW named \in BOOLEAN,
           NEW table, IsTable(table), NEW groups, NEW held \in SUBSET Place,
           NEW D, i.op = "defer" => i.site \in D
    PROVE  Registers(Script(i, pending, named, table, groups, held), D)
<1> DEFINE t == Script(i, pending, named, table, groups, held)
<1>1. CASE i.op = "defer"
  <2> DEFINE a == ArgumentCalls(i, "defer", named, held)
             b == DeferredArgumentCalls(i)
             c == ActivateCalls(i, table)
             d == RegisterCalls(i, groups)
  <2>1. t = ((a \o b) \o c) \o d
    BY <1>1 DEF Script
  <2>2. i.args \in Seq(Argument) /\ i.touches \in Seq(Roots) /\ i.site \in DeferSites
    BY <1>1 DEF Instruction
  <2>3. a \in Seq(Call) /\ b \in Seq(Call)
    BY <2>2, ArgumentCallsType, DeferredArgumentCallsType DEF Kinds
  <2>4. c \in Seq(Call) /\ d \in Seq(Call)
    BY <2>2, ActivateCallsType, RegisterCallsType
  <2>5. Registers(a, D) /\ Registers(b, D)
    BY DEF Registers, ArgumentCalls, DeferredArgumentCalls
  <2>6. Registers(c, D)
    BY DEF Registers, ActivateCalls
  <2>7. Registers(d, D)
    BY <1>1 DEF Registers, RegisterCalls
  <2> HIDE DEF a, b, c, d
  <2> DEFINE ab == a \o b
             abc == ab \o c
  <2>8. ab \in Seq(Call) /\ Registers(ab, D)
    BY <2>3, <2>5, ConcatRegisters
  <2> HIDE DEF ab
  <2>9. abc \in Seq(Call) /\ Registers(abc, D)
    BY <2>4, <2>6, <2>8, ConcatRegisters
  <2> HIDE DEF abc
  <2>10. Registers(abc \o d, D)
    BY <2>4, <2>7, <2>9, ConcatRegisters
  <2> QED BY <2>1, <2>10 DEF ab, abc
<1>2. CASE i.op = "stage"
  <2>1. t = <<>>
    BY <1>2 DEF Script
  <2> QED BY <2>1 DEF Registers
<1>3. CASE i.op = "store"
  <2>1. t = StoreCalls(i, pending, held)
    BY <1>3 DEF Script
  <2> DEFINE a == Use(i.value, FALSE)
             b == Use(i.target, FALSE)
             c == [do |-> "fieldStore", move |-> pending, place |-> i.value, held |-> held]
             d == [do |-> "storeFrontier", place |-> i.value, target |-> i.target,
                   indexed |-> i.indexed]
  <2>2. \A x \in {a, b, c, d} : x.do # "register"
    BY DEF Use
  <2>3. \/ t = <<a>> \o <<>> \o <<c, d>>
        \/ t = <<a>> \o <<b>> \o <<c, d>>
    BY <2>1 DEF StoreCalls
  <2> HIDE DEF a, b, c, d, t
  <2>4. \A k \in DOMAIN t : t[k] \in {a, b, c, d}
    BY <2>3
  <2>5. Registers(t, D)
    BY <2>2, <2>4 DEF Registers
  <2> QED BY <2>5 DEF t
<1>4. CASE i.op \notin {"defer", "stage", "store"}
  <2>1. t = Script(i, NoMove, named, table, groups, held)
    BY <1>4 DEF Script
  <2>2. NoMove \in Pending /\ DeclaredMove(NoMove)
    BY DEF Pending, DeclaredMove
  <2> HIDE DEF t
  <2>3. Alike(t, t)
    BY <1>4, <2>1, <2>2, ScriptAlike
  <2>4. \A k \in DOMAIN t : t[k].do \in PlainDo \cup {"exit"}
    BY <2>3 DEF Alike, PlainCall
  <2>5. Registers(t, D)
    BY <2>4 DEF Registers, PlainDo
  <2> QED BY <2>5 DEF t
<1> QED BY <1>1, <1>2, <1>3, <1>4

(* A transfer registers the statement of its call and nothing else.        *)
LEMMA TransferWithin ==
    ASSUME NEW s, IsState(s), NEW c \in EngineCall,
           c.do \notin {"exit", "groups", "merge", "leave"}, NEW groups,
           NEW D, Within(s, D), c.do = "register" => c.site \in D
    PROVE  Within(TransferOf(s, c, groups).st, D)
<1> DEFINE r == TransferOf(s, c, groups)
<1>1. c \in Call
  BY DEF EngineCall
<1>2. CASE c.do \in PlainDo
  <2>1. r.st.deferred = s.deferred
    BY <1>1, <1>2, TransferOfType
  <2> QED BY <2>1 DEF Within
<1>3. CASE c.do = "register"
  <2>1. r.st = AddDeferred(s, c.site)
    BY <1>3 DEF TransferOf, recordSourceDeferClosureEffects, Passed
  <2>2. DOMAIN AddDeferred(s, c.site).deferred \subseteq DOMAIN s.deferred \cup {c.site}
    BY DEF AddDeferred, IsState, Put
  <2> QED BY <1>3, <2>1, <2>2 DEF Within
<1>4. \A p, cap : LET u == BeginBorrow(s, p, cap).st
                  IN u.deferred = s.deferred /\ EndBorrow(u, p, cap).deferred = s.deferred
  <2> SUFFICES ASSUME NEW p, NEW cap
               PROVE  LET u == BeginBorrow(s, p, cap).st
                      IN u.deferred = s.deferred /\ EndBorrow(u, p, cap).deferred = s.deferred
    OBVIOUS
  <2> DEFINE B == s.borrows (+) SetToBag({[place |-> p, cap |-> cap]})
             u == [s EXCEPT !.borrows = B]
  <2>1. BeginBorrow(s, p, cap).st \in {s, u}
    BY DEF BeginBorrow, Passed, Failed
  <2>2. u.deferred = s.deferred
    BY DEF IsState
  <2>3. \A v \in {s, u} : EndBorrow(v, p, cap).deferred = v.deferred
    BY DEF IsState, EndBorrow
  <2> HIDE DEF u
  <2> QED BY <2>1, <2>2, <2>3
<1>5. \A p : ConsumeRoot(s, p).st.deferred = s.deferred
  BY DEF IsState, ConsumePlace, ConsumeRoot, Passed, Failed
<1>6. CASE c.do \in {"deferredArgument", "activate", "effect"}
  <2>1. r \in {applyDeferredInferredBorrowArgs(s, c), activateDeferredBorrow(s, c),
               applyDeferredEffectAtExit(s, c)}
    BY <1>6 DEF TransferOf
  <2> HIDE DEF r
  <2>2. /\ applyDeferredInferredBorrowArgs(s, c).st.deferred = s.deferred
        /\ activateDeferredBorrow(s, c).st.deferred = s.deferred
    BY <1>4 DEF applyDeferredInferredBorrowArgs, activateDeferredBorrow, Passed
  <2>3. applyDeferredEffectAtExit(s, c).st.deferred = s.deferred
    BY <1>4, <1>5 DEF applyDeferredEffectAtExit, Passed
  <2>4. r.st.deferred = s.deferred
    BY <2>1, <2>2, <2>3
  <2> QED BY <2>4 DEF Within, r
<1>7. c.do \in PlainDo \cup {"register", "deferredArgument", "activate", "effect"}
  BY <1>1 DEF Call, PlainDo
<1> QED BY <1>2, <1>3, <1>6, <1>7

(* The steps that stay in the activation and change what is left to do.    *)
LEMMA OwnTodo ==
    ASSUME OwnAct(act), IsRecord(act), NEW todo, act' = [act EXCEPT !.todo = todo],
           Registers(todo, DefersIn(Body(act)))
    PROVE  OwnAct(act')
<1>1. /\ act'.fn = act.fn /\ act'.in = act.in /\ act'.out = act.out
      /\ act'.exit = act.exit /\ act'.st = act.st /\ act'.todo = todo
  BY DEF IsRecord
<1>2. DefersIn(Body(act')) = DefersIn(Body(act))
  BY <1>1 DEF Body
<1> QED BY <1>1, <1>2, OwnParts

(* A block that is entered, left or merged passes its own groups on.       *)
LEMMA OwnWorklist ==
    ASSUME Inv, OwnAct(act), WorklistStep
    PROVE  OwnAct(act')
<1> DEFINE D == DefersIn(Body(act))
<1>1. /\ prog \in Programs /\ IsRecord(act) /\ IsActivation(act)
      /\ act.fn \in Fns /\ act.pc \in Nat /\ act.pending \in Pending
      /\ act.todo \in Seq(EngineCall)
  BY DEF Inv, ActivationInv, IsActivation, IsRecord
<1>2. /\ Within(act.st, D) /\ \A s \in act.exit : Within(s, D)
      /\ \A b \in DOMAIN act.in : Within(act.in[b], D)
      /\ \A b \in DOMAIN act.out : Within(act.out[b], D)
      /\ Registers(act.todo, D)
  BY OwnParts
<1>3. ASSUME act'.fn = act.fn, Within(act'.st, D), \A s \in act'.exit : Within(s, D),
             \A b \in DOMAIN act'.in : Within(act'.in[b], D),
             \A b \in DOMAIN act'.out : Within(act'.out[b], D), Registers(act'.todo, D)
      PROVE  OwnAct(act')
  <2>1. D = DefersIn(Body(act'))
    BY <1>3 DEF Body
  <2> HIDE DEF D
  <2> QED BY <1>3, <2>1, OwnParts
<1> HIDE DEF D
<1>0. act.blk # 0 => act.blk \in DOMAIN Body(act) /\ Block(act) \in BasicBlock
  BY <1>1, ProgramFacts DEF IsActivation, Block, Blocks
<1>4. CASE PopBlock
  <2>1. /\ act'.fn = act.fn /\ act'.in = act.in /\ act'.out = act.out
        /\ act'.exit = act.exit /\ act'.todo = act.todo
        /\ act'.st = act.in[Head(act.queue)] /\ act.queue # <<>>
    BY <1>1, <1>4 DEF PopBlock, IsRecord
  <2>2. Head(act.queue) \in DOMAIN act.in
    BY <1>1, <2>1 DEF IsActivation
  <2> QED BY <1>2, <1>3, <2>1, <2>2
<1>5. CASE NextInstruction
  <2> DEFINE pc == act.pc + 1
             i  == Block(act).instrs[pc]
             held == Held(act, pc)
             script == Script(i, act.pending, prog.named, prog.borrows, prog.groups, held)
  <2>1. /\ act.blk # 0 /\ act.pc < Len(Block(act).instrs)
        /\ act'.fn = act.fn /\ act'.in = act.in /\ act'.out = act.out
        /\ act'.exit = act.exit /\ act'.st = act.st /\ act'.todo = script
    BY <1>1, <1>5 DEF NextInstruction, IsRecord
  <2>2. act.blk \in DOMAIN Body(act) /\ Block(act) \in BasicBlock
    BY <1>0, <2>1
  <2>3. pc \in DOMAIN Body(act)[act.blk].instrs /\ i = Body(act)[act.blk].instrs[pc]
        /\ i \in Instruction
    BY <1>1, <2>1, <2>2 DEF BasicBlock, Block
  <2>4. i.op = "defer" => i.site \in DeferSites
    BY <2>3 DEF Instruction
  <2>5. i.op = "defer" => i.site \in D
    <3> HIDE DEF i, pc
    <3> QED BY <2>2, <2>3, <2>4 DEF D, DefersIn
  <2>6. prog.named \in BOOLEAN /\ IsTable(prog.borrows) /\ held \in SUBSET Place
    BY <1>1, ProgramFacts
  <2> HIDE DEF i, pc, held
  <2>7. Registers(script, D)
    BY <1>1, <2>3, <2>5, <2>6, ScriptRegisters
  <2> QED BY <1>2, <1>3, <2>1, <2>7
<1>6. CASE EndBlock
  <2> DEFINE succs == Block(act).succs
             merges == [k \in DOMAIN succs |-> [do |-> "merge", succ |-> succs[k]]]
             todo == merges \o << [do |-> "leave"] >>
  <2>1. /\ act'.fn = act.fn /\ act'.in = act.in /\ act'.st = act.st
        /\ act'.out = Put(act.out, act.blk, act.st) /\ act'.todo = todo /\ act.blk # 0
        /\ act'.exit \in {act.exit, {act.st}, {MergeStates(e, act.st) : e \in act.exit}}
    BY <1>1, <1>6 DEF EndBlock, IsRecord
  <2>2. \A s \in act'.exit : Within(s, D)
    BY <1>2, <2>1, MergeWithin
  <2>3. \A b \in DOMAIN act'.out : Within(act'.out[b], D)
    BY <1>2, <2>1 DEF Put
  <2>4. Registers(todo, D)
    <3>1. succs \in Seq(Nat)
      BY <1>0, <2>1 DEF BasicBlock
    <3>2. Registers(merges, D) /\ Registers(<<[do |-> "leave"]>>, D)
      BY DEF Registers
    <3> DEFINE S == [do : {"merge"}, succ : Nat] \cup {[do |-> "leave"]}
    <3>3. \A k \in DOMAIN succs : merges[k] \in S
      BY <3>1
    <3> HIDE DEF succs, S
    <3>4. merges \in Seq(S)
      <4>1. merges = [k \in DOMAIN succs |-> merges[k]]
        OBVIOUS
      <4> HIDE DEF merges
      <4> QED BY <3>1, <3>3, <4>1, SeqByPoints
    <3>5. <<[do |-> "leave"]>> \in Seq(S)
      BY DEF S
    <3> HIDE DEF merges
    <3> QED BY <3>2, <3>4, <3>5, ConcatRegisters
  <2> QED BY <1>2, <1>3, <2>1, <2>2, <2>3, <2>4
<1>7. CASE VisitSuccessor \/ MergeSuccessor
  <2>1. /\ act'.fn = act.fn /\ act'.st = act.st /\ act'.out = act.out
        /\ act'.exit = act.exit /\ act'.todo = Tail(act.todo) /\ act.todo # <<>>
    BY <1>1, <1>7 DEF VisitSuccessor, MergeSuccessor, Doing, IsRecord
  <2>2. \/ act'.in = act.in
        \/ act'.in = Put(act.in, call.succ, act.st)
        \/ act'.in = [act.in EXCEPT ![call.succ] = MergeStates(act.in[call.succ], act.st)]
           /\ call.succ \in DOMAIN act.in
    BY <1>1, <1>7 DEF VisitSuccessor, MergeSuccessor, IsRecord
  <2>3. \A b \in DOMAIN act'.in : Within(act'.in[b], D)
    <3>1. CASE act'.in = Put(act.in, call.succ, act.st)
      BY <1>2, <3>1 DEF Put
    <3>2. CASE act'.in = [act.in EXCEPT ![call.succ] = MergeStates(act.in[call.succ], act.st)]
               /\ call.succ \in DOMAIN act.in
      <4> DEFINE m == MergeStates(act.in[call.succ], act.st)
      <4>1. Within(m, D)
        BY <1>2, <3>2, MergeWithin
      <4> HIDE DEF m
      <4> QED BY <1>2, <3>2, <4>1 DEF m
    <3> QED BY <1>2, <2>2, <3>1, <3>2
  <2>4. Registers(Tail(act.todo), D)
    BY <1>1, <1>2, <2>1, TailRegisters
  <2> QED BY <1>2, <1>3, <2>1, <2>3, <2>4
<1>8. CASE LeaveBlock
  <2>1. /\ act'.fn = act.fn /\ act'.in = act.in /\ act'.st = act.st /\ act'.out = act.out
        /\ act'.exit = act.exit /\ act'.todo = Tail(act.todo) /\ act.todo # <<>>
    BY <1>1, <1>8 DEF LeaveBlock, Doing, IsRecord
  <2>2. Registers(Tail(act.todo), D)
    BY <1>1, <1>2, <2>1, TailRegisters
  <2> QED BY <1>2, <1>3, <2>1, <2>2
<1> QED BY <1>4, <1>5, <1>6, <1>7, <1>8 DEF WorklistStep

(* The call under way registers a statement of the function.               *)
LEMMA OwnTransfer ==
    ASSUME Inv, OwnAct(act), TransferStep
    PROVE  OwnAct(act')
<1> DEFINE D == DefersIn(Body(act))
           r == TransferOf(act.st, call, prog.groups)
<1>1. /\ IsRecord(act) /\ act.todo \in Seq(EngineCall) /\ IsState(act.st)
  BY DEF Inv, ActivationInv, IsActivation, IsRecord
<1>2. /\ act.todo # <<>> /\ call.do \notin {"exit", "groups", "merge", "leave"}
      /\ act' = [act EXCEPT !.st = r.st, !.todo = Tail(@)]
  BY TransferStepMade
<1>3. call = act.todo[1] /\ 1 \in DOMAIN act.todo /\ call \in EngineCall
  BY <1>1, <1>2 DEF call
<1>4. /\ Within(act.st, D) /\ \A s \in act.exit : Within(s, D)
      /\ \A b \in DOMAIN act.in : Within(act.in[b], D)
      /\ \A b \in DOMAIN act.out : Within(act.out[b], D)
      /\ Registers(act.todo, D)
  BY OwnParts
<1> HIDE DEF D
<1>5. call.do = "register" => call.site \in D
  BY <1>3, <1>4 DEF Registers
<1>6. Within(r.st, D) /\ Registers(Tail(act.todo), D)
  BY <1>1, <1>2, <1>3, <1>4, <1>5, TransferWithin, TailRegisters
<1> HIDE DEF r
<1>7. /\ act'.fn = act.fn /\ act'.in = act.in /\ act'.out = act.out
      /\ act'.exit = act.exit /\ act'.st = r.st /\ act'.todo = Tail(act.todo)
  BY <1>1, <1>2 DEF IsRecord
<1>8. D = DefersIn(Body(act'))
  BY <1>7 DEF Body, D
<1> QED BY <1>4, <1>6, <1>7, <1>8, OwnParts

(* What is left after a group has been dealt with.                         *)
LEMMA GroupRegisters ==
    ASSUME ActivationInv(act), Doing("groups"), NEW D, Registers(act.todo, D), NEW k
    PROVE  Registers(WithoutGroup(k), D)
<1> DEFINE c == [do |-> "groups", left |-> call.left \ {k}]
           S == EngineCall \cup {c}
<1>1. act.todo \in Seq(EngineCall) /\ act.todo # <<>>
  BY DEF ActivationInv, IsActivation, Doing
<1>2. Registers(Tail(act.todo), D)
  BY <1>1, TailRegisters
<1>3. Registers(<<c>>, D)
  BY DEF Registers
<1>4. WithoutGroup(k) = <<c>> \o Tail(act.todo)
  BY DEF WithoutGroup
<1> HIDE DEF c
<1>5. <<c>> \in Seq(S) /\ Tail(act.todo) \in Seq(S)
  BY <1>1
<1> QED BY <1>2, <1>3, <1>4, <1>5, ConcatRegisters

(* The steps at a return that stay in the activation.                      *)
LEMMA OwnExit ==
    ASSUME Inv, OwnAct(act), Exit \/ RefuseRepeatedMove \/ RunDeferredEffects \/ NoGroupLeft
    PROVE  OwnAct(act')
<1> DEFINE D == DefersIn(Body(act))
<1>1. /\ prog \in Programs /\ ActivationInv(act) /\ IsRecord(act) /\ act.fn \in Fns
      /\ act.todo \in Seq(EngineCall) /\ act.todo # <<>>
  BY DEF Inv, ActivationInv, IsActivation, IsRecord, Exit, RefuseRepeatedMove,
         RunDeferredEffects, NoGroupLeft, Doing
<1>2. Registers(act.todo, D) /\ Registers(Tail(act.todo), D)
  BY <1>1, OwnParts, TailRegisters
<1>3. CASE Exit
  <2> DEFINE c == [do |-> "groups", left |-> DOMAIN act.st.deferred]
             S == EngineCall \cup {c}
             todo == <<c>> \o Tail(act.todo)
  <2>1. act' = [act EXCEPT !.todo = todo]
    BY <1>1, <1>3 DEF Exit, IsRecord
  <2>2. Registers(<<c>>, D)
    BY DEF Registers
  <2> HIDE DEF c, D
  <2>3. <<c>> \in Seq(S) /\ Tail(act.todo) \in Seq(S)
    BY <1>1
  <2>4. Registers(todo, D)
    BY <1>2, <2>2, <2>3, ConcatRegisters
  <2> QED BY <1>1, <2>1, <2>4, OwnTodo DEF D
<1>4. CASE RefuseRepeatedMove
  <2>1. PICK k : act' = [act EXCEPT !.todo = WithoutGroup(k)] /\ Doing("groups")
    BY <1>4 DEF RefuseRepeatedMove
  <2>2. Registers(WithoutGroup(k), D)
    BY <1>1, <1>2, <2>1, GroupRegisters
  <2> QED BY <1>1, <2>1, <2>2, OwnTodo
<1>5. CASE RunDeferredEffects
  <2>1. PICK k \in call.left :
            act' = [act EXCEPT !.todo =
                        EffectCalls(prog.groups[k].effects) \o WithoutGroup(k)]
    BY <1>5 DEF RunDeferredEffects
  <2> DEFINE calls == EffectCalls(prog.groups[k].effects)
             rest == WithoutGroup(k)
             todo == calls \o rest
  <2>2. Registers(rest, D) /\ rest \in Seq(EngineCall) /\ k \in DeferSites
    BY <1>1, <1>2, <1>5, GroupRegisters, WithoutGroupType DEF RunDeferredEffects
  <2>3. calls \in Seq(EngineCall)
    BY <1>1, <2>2, EffectCallsType
  <2>4. Registers(calls, D)
    BY DEF Registers, EffectCalls
  <2> HIDE DEF calls, rest, D
  <2>5. Registers(todo, D)
    BY <2>2, <2>3, <2>4, ConcatRegisters
  <2>6. act' = [act EXCEPT !.todo = todo]
    BY <2>1 DEF calls, rest
  <2> QED BY <1>1, <2>5, <2>6, OwnTodo DEF D
<1>6. CASE NoGroupLeft
  <2>1. act' = [act EXCEPT !.todo = Tail(act.todo)]
    BY <1>1, <1>6 DEF NoGroupLeft, IsRecord
  <2> QED BY <1>1, <1>2, <2>1, OwnTodo
<1> QED BY <1>3, <1>4, <1>5, <1>6

(* Own of the next state from its parts.                                   *)
LEMMA OwnOfNext ==
    ASSUME prog' = prog, OwnAct(act'), \A k \in DOMAIN callers' : OwnAct(callers'[k])
    PROVE  Own'
<1>1. OwnAct(act)'
  BY DEF OwnAct, OwnGroups, StatesOf, Registers, Body
<1>2. ASSUME NEW k \in DOMAIN callers'
      PROVE  OwnAct(callers[k])'
  BY DEF OwnAct, OwnGroups, StatesOf, Registers, Body
<1> QED BY <1>1, <1>2 DEF Own

(* A closure starts without groups, and the caller goes on with its own    *)
(* (applyDeferredClosureAtExit).                                           *)
LEMMA OwnClosure ==
    ASSUME Inv, Own, RunDeferredClosure \/ ReturnFromClosure
    PROVE  Own'
<1>1. /\ prog \in Programs /\ prog' = prog /\ ActivationInv(act) /\ IsRecord(act)
      /\ IsState(act.st)
      /\ \A k \in DOMAIN callers : ActivationInv(callers[k])
      /\ OwnAct(act) /\ \A k \in DOMAIN callers : OwnAct(callers[k])
  BY DEF Inv, Own, ActivationInv, IsActivation, IsRecord, RunDeferredClosure,
         ReturnFromClosure
<1>2. PICK S : callers \in Seq(S)
  BY DEF Inv
<1>3. CASE RunDeferredClosure
  <2>1. PICK k \in call.left :
            /\ callers' = Append(callers, [act EXCEPT !.todo = WithoutGroup(k)])
            /\ act' = Activation(prog.groups[k].closure, InitialOf(act.st))
            /\ Doing("groups")
    BY <1>3 DEF RunDeferredClosure
  <2> DEFINE waiting == [act EXCEPT !.todo = WithoutGroup(k)]
             initial == InitialOf(act.st)
             D == DefersIn(Body(act))
  <2>2. OwnAct(waiting)
    <3>1. /\ waiting.fn = act.fn /\ waiting.in = act.in /\ waiting.out = act.out
          /\ waiting.exit = act.exit /\ waiting.st = act.st
          /\ waiting.todo = WithoutGroup(k)
      BY <1>1 DEF IsRecord
    <3> HIDE DEF waiting
    <3>2. Registers(WithoutGroup(k), D)
      BY <1>1, <2>1, OwnParts, GroupRegisters
    <3>3. D = DefersIn(Body(waiting))
      BY <3>1 DEF Body
    <3> QED BY <1>1, <3>1, <3>2, <3>3, OwnParts
  <2>3. DOMAIN initial.deferred = {}
    BY <1>1 DEF InitialOf, IsState, NoDeferred
  <2>4. OwnAct(act')
    <3>1. /\ act'.st = initial /\ act'.in = [b \in {1} |-> initial]
          /\ DOMAIN act'.out = {} /\ act'.exit = {} /\ act'.todo = <<>>
      BY <2>1 DEF Activation
    <3> HIDE DEF initial
    <3>2. \A E : Within(initial, E) /\ Registers(<<>>, E)
      BY <2>3 DEF Within, Registers
    <3> QED BY <3>1, <3>2, OwnParts
  <2> HIDE DEF waiting, initial
  <2>5. \A j \in DOMAIN callers' : (j \in DOMAIN callers /\ callers'[j] = callers[j])
                                   \/ callers'[j] = waiting
    <3>1. callers \in Seq(S \cup {waiting})
      BY <1>2
    <3> QED BY <2>1, <3>1 DEF waiting
  <2> QED BY <1>1, <2>2, <2>4, <2>5, OwnOfNext
<1>4. CASE ReturnFromClosure
  <2> DEFINE a == callers[Len(callers)]
             st == IF act.exit = {} THEN a.st
                   ELSE [(CHOOSE s \in act.exit : TRUE) EXCEPT !.deferred = a.st.deferred]
             D == DefersIn(Body(a))
  <2>1. Len(callers) \in DOMAIN callers /\ Last(callers) = a
    BY <1>2, <1>4 DEF ReturnFromClosure, Last
  <2>2. IsRecord(a) /\ OwnAct(a)
    BY <1>1, <2>1 DEF ActivationInv, IsActivation, IsRecord
  <2> HIDE DEF a
  <2>3. act' = [a EXCEPT !.st = st]
    BY <1>4, <2>1, <2>2 DEF ReturnFromClosure, IsRecord
  <2>4. st.deferred = a.st.deferred
    <3>1. CASE act.exit = {}
      BY <3>1
    <3>2. CASE act.exit # {}
      <4> DEFINE s == CHOOSE s \in act.exit : TRUE
      <4>1. IsState(s)
        BY <1>1, <3>2 DEF ActivationInv, IsActivation
      <4> HIDE DEF s
      <4>2. st = [s EXCEPT !.deferred = a.st.deferred]
        BY <3>2 DEF s
      <4> HIDE DEF st
      <4> QED BY <4>1, <4>2 DEF IsState
    <3> QED BY <3>1, <3>2
  <2> HIDE DEF st
  <2>5. /\ act'.fn = a.fn /\ act'.in = a.in /\ act'.out = a.out
        /\ act'.exit = a.exit /\ act'.st = st /\ act'.todo = a.todo
    BY <2>2, <2>3 DEF IsRecord
  <2>6. OwnAct(act')
    <3>1. D = DefersIn(Body(act'))
      BY <2>5 DEF Body
    <3> HIDE DEF D
    <3>2. Within(st, D) <=> Within(a.st, D)
      BY <2>4 DEF Within
    <3> QED BY <2>2, <2>5, <3>1, <3>2, OwnParts DEF D
  <2>7. \A k \in DOMAIN callers' : k \in DOMAIN callers /\ callers'[k] = callers[k]
    <3>1. callers' = SubSeq(callers, 1, Len(callers) - 1) /\ callers # <<>>
      BY <1>4 DEF ReturnFromClosure, Front
    <3> QED BY <1>2, <3>1
  <2> QED BY <1>1, <2>6, <2>7, OwnOfNext
<1> QED BY <1>3, <1>4

(* Nothing is deferred at the start of the function.                       *)
LEMMA InitOwn == Init => Own
<1> SUFFICES ASSUME Init PROVE Own
  OBVIOUS
<1>1. /\ act.st = NewState /\ act.in = [b \in {1} |-> NewState]
      /\ DOMAIN act.out = {} /\ act.exit = {} /\ act.todo = <<>> /\ callers = <<>>
  BY DEF Init, Activation
<1>2. \A D : Within(NewState, D) /\ Registers(<<>>, D)
  BY DEF Within, Registers, NewState, NoDeferred
<1> HIDE DEF NewState
<1>3. OwnAct(act)
  BY <1>1, <1>2, OwnParts
<1> QED BY <1>1, <1>3 DEF Own

(* Every step keeps the groups of the activations apart.                   *)
LEMMA NextOwn == Inv /\ Own /\ [Next]_vars => Own'
<1> SUFFICES ASSUME Inv, Own, [Next]_vars PROVE Own'
  OBVIOUS
<1>1. OwnAct(act) /\ \A k \in DOMAIN callers : OwnAct(callers[k])
  BY DEF Own
<1>2. ASSUME prog' = prog, callers' = callers, OwnAct(act')
      PROVE  Own'
  BY <1>1, <1>2, OwnOfNext
<1>3. CASE WorklistStep
  <2>1. prog' = prog /\ callers' = callers
    BY <1>3 DEF WorklistStep, PopBlock, NextInstruction, EndBlock, VisitSuccessor,
       MergeSuccessor, LeaveBlock
  <2> QED BY <1>1, <1>2, <1>3, <2>1, OwnWorklist
<1>4. CASE TransferStep
  BY <1>1, <1>2, <1>4, OwnTransfer, TransferKeepsRest
<1>5. CASE Exit \/ RefuseRepeatedMove \/ RunDeferredEffects \/ NoGroupLeft
  <2>1. prog' = prog /\ callers' = callers
    BY <1>5 DEF Exit, RefuseRepeatedMove, RunDeferredEffects, NoGroupLeft
  <2> QED BY <1>1, <1>2, <1>5, <2>1, OwnExit
<1>6. CASE RunDeferredClosure \/ ReturnFromClosure
  BY <1>6, OwnClosure
<1>7. CASE UNCHANGED vars
  BY <1>1, <1>2, <1>7 DEF vars
<1> QED BY <1>3, <1>4, <1>5, <1>6, <1>7 DEF Next, ExitStep, Stop

(* The states, the entry states and the errors of every activation have    *)
(* their types, and no activation holds a deferred group of another one's  *)
(* function, for every function, whatever closures it defers.              *)
THEOREM TypeCorrect == Spec => []TypeOK
<1>1. Inv /\ Own => TypeOK
  BY DEF Inv, Own, ActivationInv, OwnAct, ErrsOK, TypeOK, Activations
<1>2. Inv /\ Own /\ [Next]_vars => (Inv /\ Own)'
  BY NextInv, NextOwn
<1> QED BY <1>1, <1>2, InitInv, InitOwn, PTL DEF Spec
=============================================================================
