---------------------------- MODULE OwnerState ----------------------------
(***************************************************************************)
(* SSAFunctionState (ssa_state.go): what the move checker knows at one     *)
(* point of a function.                                                    *)
(*                                                                         *)
(*   consumed    places moved on some path to this point                   *)
(*   frontiered  places whose proof ended (\unsafe, escaping stores)       *)
(*   flow        ownerstamp an untracked local holds on every path         *)
(*   borrows     the active borrows, a bag: the code's slice keeps         *)
(*               duplicates, and no operation depends on its order         *)
(*   deferred    the deferred closures registered, by defer statement:     *)
(*               the position in the code's slice and the Repeat bit       *)
(*                                                                         *)
(* The code keeps with each consumed or frontiered place the site it       *)
(* reports.  A merge keeps the site of the left state, so a site never     *)
(* makes two states that hold the same places differ, and is left out.     *)
(* flow is total here: "untracked" stands for a missing map entry, which   *)
(* SetFlowValue never stores.                                              *)
(*                                                                         *)
(* An operation returns the state it leaves and the codes it reports.      *)
(***************************************************************************)
EXTENDS Places, Integers, Bags

CONSTANT DeferSites   \* the defer statements of the package (sourcePosKey)

ASSUME DeferSitesAssumption == IsFiniteSet(DeferSites)

Codes == {"GWN001", "GWN002", "GWN010", "GWN011", "GWN012"}

Borrow == [place : Place, cap : BorrowCaps]

Deferral == [at : Nat \ {0}, repeat : BOOLEAN]

IsState(s) ==
    /\ s \in [consumed : SUBSET Place, frontiered : SUBSET Place,
              flow : [Roots -> Caps], borrows : {s.borrows}, deferred : {s.deferred}]
    /\ DOMAIN s.borrows \subseteq Borrow
    /\ \A b \in DOMAIN s.borrows : s.borrows[b] \in Nat \ {0}
    /\ DOMAIN s.deferred \subseteq DeferSites
    /\ \A k \in DOMAIN s.deferred : s.deferred[k] \in Deferral

NoDeferred == [k \in {} |-> 0]

\* The map f with the entry k set to v.
Put(f, k, v) == [x \in DOMAIN f \cup {k} |-> IF x = k THEN v ELSE f[x]]

NewState == [consumed   |-> {},
             frontiered |-> {},
             flow       |-> [r \in Roots |-> "untracked"],
             borrows    |-> EmptyBag,
             deferred   |-> NoDeferred]

Passed(s)       == [st |-> s, errs |-> {}]
Failed(s, code) == [st |-> s, errs |-> {code}]

---------------------------------------------------------------------------
(* Moves, frontiers and flow values.                                       *)

CheckUse(s, p)      == \E q \in s.consumed : Overlaps(q, p)
CheckFrontier(s, p) == \E q \in s.frontiered : Overlaps(q, p)

Borrowed(s, p) == \E b \in BagToSet(s.borrows) : Overlaps(b.place, p)

ConsumePlace(s, p) ==
    IF CheckUse(s, p) THEN Failed(s, "GWN001")
    ELSE IF Borrowed(s, p) THEN Failed(s, "GWN002")
    ELSE Passed([s EXCEPT !.consumed = @ \cup {p}])

\* Only a variable can be moved as a root; a moved one is reported first.
ConsumeRoot(s, p) ==
    IF ~CheckUse(s, p) /\ p.path # <<>> THEN Failed(s, "GWN011")
    ELSE ConsumePlace(s, p)

\* Forgets the move of the variable, not the moves of its fields.
UnconsumeRoot(s, p)  == [s EXCEPT !.consumed = @ \ {RootOf(p)}]

\* Forgets every frontier of the variable, those of its fields included.
UnfrontierRoot(s, p) == [s EXCEPT !.frontiered = {q \in @ : q.root # p.root}]

EnterFrontier(s, p)  == [s EXCEPT !.frontiered = @ \cup {p}]

SetFlowValue(s, p, c) ==
    IF p.path = <<>> /\ capTracked(c) THEN [s EXCEPT !.flow[p.root] = c] ELSE s

ClearFlowValue(s, p) == [s EXCEPT !.flow[p.root] = "untracked"]

FlowValue(s, p) == s.flow[p.root]

---------------------------------------------------------------------------
(* Borrows.                                                                *)

HasBorrow(s, p, c) == BagIn([place |-> p, cap |-> c], s.borrows)

ConflictsWith(borrows, p, c) ==
    \E b \in borrows : Overlaps(b.place, p) /\ callBorrowsConflict(b.cap, c)

BeginBorrow(s, p, c) ==
    IF c \notin BorrowCaps THEN Passed(s)
    ELSE IF CheckUse(s, p) THEN Failed(s, "GWN001")
    ELSE IF ConflictsWith(BagToSet(s.borrows), p, c) THEN Failed(s, "GWN002")
    ELSE Passed([s EXCEPT !.borrows = @ (+) SetToBag({[place |-> p, cap |-> c]})])

EndBorrow(s, p, c) ==
    [s EXCEPT !.borrows = @ (-) SetToBag({[place |-> p, cap |-> c]})]

---------------------------------------------------------------------------
(* Deferred closures.  A closure with neither a body to run nor call       *)
(* effects is not kept.                                                    *)

AddDeferred(s, site) ==
    IF site \in DOMAIN s.deferred
    THEN [s EXCEPT !.deferred[site].repeat = TRUE]
    ELSE [s EXCEPT !.deferred =
             Put(@, site, [at |-> Cardinality(DOMAIN @) + 1, repeat |-> FALSE])]

\* The groups of r that l lacks follow those of l, in the order of r.
MergeDeferred(l, r) ==
    LET new == DOMAIN r \ DOMAIN l
        position(k) == Cardinality(DOMAIN l)
                       + Cardinality({j \in new : r[j].at <= r[k].at})
    IN [k \in DOMAIN l \cup DOMAIN r |->
           IF k \in new THEN [at |-> position(k), repeat |-> r[k].repeat]
           ELSE [l[k] EXCEPT !.repeat =
                    @ \/ (k \in DOMAIN r /\ r[k].repeat)]]

---------------------------------------------------------------------------
(* Merging the states of two predecessors.                                 *)

MergeFlow(l, r) == [x \in DOMAIN l |-> IF l[x] = r[x] THEN l[x] ELSE "untracked"]

\* The borrows of l, then those of r that do not conflict with a kept one;
\* identical borrows are kept once.
MergeBorrows(l, r) ==
    LET kept == BagToSet(l)
    IN SetToBag(kept \cup {b \in BagToSet(r) : b \in kept
                              \/ ~ConflictsWith(kept, b.place, b.cap)})

\* Mutant: the moves of the left state are lost.
MergeForgetsMoves(l, r) ==
    [consumed   |-> r.consumed,
     frontiered |-> l.frontiered \cup r.frontiered,
     flow       |-> MergeFlow(l.flow, r.flow),
     borrows    |-> MergeBorrows(l.borrows, r.borrows),
     deferred   |-> MergeDeferred(l.deferred, r.deferred)]

MergeStates(l, r) ==
    [consumed   |-> l.consumed \cup r.consumed,
     frontiered |-> l.frontiered \cup r.frontiered,
     flow       |-> MergeFlow(l.flow, r.flow),
     borrows    |-> MergeBorrows(l.borrows, r.borrows),
     deferred   |-> MergeDeferred(l.deferred, r.deferred)]

\* A borrow of one side that conflicts with one of the other is reported.
MergeViolations(l, r) ==
    IF BagToSet(r.borrows) \subseteq BagToSet(MergeBorrows(l.borrows, r.borrows))
    THEN {} ELSE {"GWN002"}

\* Mutant: frontiers are not compared.
EqualWithoutFrontiers(a, b) ==
    /\ a.consumed = b.consumed
    /\ a.flow = b.flow
    /\ BagToSet(a.borrows) = BagToSet(b.borrows)
    /\ a.deferred = b.deferred

\* Mutant: the places of the wrong set are compared.
EqualCrossed(a, b) == a.consumed = b.frontiered /\ a.flow = b.flow

\* equalSSAFunctionState compares the slices by length and by membership:
\* multiplicities of borrows and the order of deferred groups do not count.
EqualStates(a, b) ==
    /\ a.consumed = b.consumed
    /\ a.frontiered = b.frontiered
    /\ a.flow = b.flow
    /\ BagCardinality(a.borrows) = BagCardinality(b.borrows)
    /\ BagToSet(a.borrows) \subseteq BagToSet(b.borrows)
    /\ DOMAIN a.deferred = DOMAIN b.deferred
    /\ \A k \in DOMAIN a.deferred : a.deferred[k].repeat = b.deferred[k].repeat

\* The facts of t are no stronger than those of s: what may have been moved,
\* escaped or deferred on the way to s may have been on the way to t, and t
\* claims a flow value only where s does.
Covers(t, s) ==
    /\ s.consumed \subseteq t.consumed
    /\ s.frontiered \subseteq t.frontiered
    /\ \A r \in Roots : t.flow[r] \in {s.flow[r], "untracked"}
    /\ \A k \in DOMAIN s.deferred :
          k \in DOMAIN t.deferred /\ (s.deferred[k].repeat => t.deferred[k].repeat)
=============================================================================
