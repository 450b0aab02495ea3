--------------------------- MODULE RestoreRegion ---------------------------
(***************************************************************************)
(* \restore regions (restore_checker.go, restore_bind.go): a function      *)
(* literal that is called at once, opens \iso graphs given as arguments,   *)
(* rewires their pointers and gives some of them back.  The checker keeps  *)
(* a token for each local alias, the projections that were moved out and   *)
(* not overwritten, and the roots that were hung into another graph.  The  *)
(* model checks a region and, if it is accepted, runs it on a heap.        *)
(*                                                                         *)
(* A region is a record: bound (the annotation was found to be the right-  *)
(* hand side of an assignment), define (:=), lhs, results (their caps and  *)
(* whether they have names), params, args, body, captures (the outer       *)
(* variables it mentions).  The body is the sequence of its statements, in *)
(* the order of the text and with the brackets of the ifs.  A statement is *)
(* a record with its kind in op:                                           *)
(*   set    dst = src, or the declaration of a local with decl = TRUE      *)
(*   if     init, and the positions of the else and of the end             *)
(*   else   the positions of its if and of the end; each if has one        *)
(*   end    the position of the else                                       *)
(*   return, other                                                         *)
(* An expression is a place or one of the values below.                    *)
(***************************************************************************)
EXTENDS Places, Integers, FiniteSets

CONSTANTS Regions,    \* the regions to check
          PtrFields   \* the fields that hold pointers

Nil    == [root |-> "none", path |-> <<>>]     \* the literal nil
Banned == [root |-> "banned", path |-> <<>>]   \* calls, &x, <-c, x[i], T{...}, ...
Scalar == [root |-> "scalar", path |-> <<>>]

ASSUME ValuesAssumption == {"none", "banned", "scalar"} \cap Roots = {}

RootPlace(v) == [root |-> v, path |-> <<>>]

Expr == Place \cup {NoPlace, Nil, Banned, Scalar}

paramNames(rg)             == {rg.params[i] : i \in DOMAIN rg.params}
restoreIsoParamObjects(rg) == {v \in paramNames(rg) : RootCap[v] = "iso"}

SetsAt(rg)   == {i \in DOMAIN rg.body : rg.body[i].op = "set"}
Declared(rg) == {rg.body[i].dst.root : i \in {j \in SetsAt(rg) : rg.body[j].decl}}

restoreLocalObjects(rg) == paramNames(rg) \cup Declared(rg)

\* A statement, and what its brackets point to.
IsStatementOf(b, i) ==
    LET s == b[i]
    IN /\ s.op \in {"set", "if", "else", "end", "return", "other"}
       /\ s.op = "set" => {s.dst, s.src} \subseteq Expr
       /\ s.op = "if" => /\ s.else \in i + 1 .. Len(b)
                         /\ b[s.else].op = "else" /\ b[s.else].of = i
       /\ s.op = "else" => /\ s.of \in 1 .. i - 1 /\ s.end \in i + 1 .. Len(b)
                           /\ b[s.end].op = "end" /\ b[s.end].else = i
       /\ s.op = "end" => s.else \in 1 .. i - 1
       /\ s.op = "return" => s.values \in Seq(Expr)

ASSUME PtrFieldsAssumption == PtrFields \subseteq Fields

\* What the body declares is new.
ASSUME RegionsAssumption ==
    \A rg \in Regions :
        /\ rg.body \in Seq(Range(rg.body)) /\ \A i \in DOMAIN rg.body : IsStatementOf(rg.body, i)
        /\ rg.params \in Seq(Roots) /\ rg.captures \subseteq Roots
        /\ Declared(rg) \cap (paramNames(rg) \cup rg.captures) = {}

VARIABLES region, stage, errs,
          val,      \* the node each variable points to
          heap,     \* the node each pointer field of a node points to
          pc,       \* the statement to run
          results   \* what the region gave back

regionVars == <<region, stage, errs, val, heap, pc, results>>

\* The literal nil has no pointer type (go/types).
ptr(e) == e \in Place /\ (e.path = <<>> \/ Last(e.path) \in PtrFields)

Found(name, condition) == IF condition THEN {name} ELSE {}

---------------------------------------------------------------------------
(* Outside of the body.                                                    *)

\* A new variable gets the ownerstamp of the result.
checkRestoreAssignmentShape(rg) ==
    LET capOf(i) == IF rg.define /\ i <= Len(rg.results) THEN rg.results[i].cap
                    ELSE EffectivePlaceCap(rg.lhs[i])
        local(e) == e \in Place /\ e.path = <<>>
    IN Found("resultCount", Len(rg.lhs) # Len(rg.results))
       \cup Found("targetIsLocal", \E i \in DOMAIN rg.lhs : ~local(rg.lhs[i]))
       \cup Found("targetIsIso", \E i \in DOMAIN rg.lhs : local(rg.lhs[i]) /\ capOf(i) # "iso")

checkRestoreSignature(rg) ==
    Found("someResult", rg.results = <<>>)
    \cup Found("namedResult", \E i \in DOMAIN rg.results : rg.results[i].named)
    \cup Found("resultIsIso", \E i \in DOMAIN rg.results : rg.results[i].cap # "iso")
    \cup Found("paramCap", \E v \in paramNames(rg) : RootCap[v] \notin {"iso", "imm"})
    \cup Found("someIsoParam", restoreIsoParamObjects(rg) = {})

restoreExpressionIsImmutable(e) ==
    IF e \in Place THEN EffectivePlaceCap(e) = "imm" ELSE e = Scalar

checkRestoreArguments(rg) ==
    LET Args(cap) == {rg.args[i] : i \in {j \in DOMAIN rg.args : RootCap[rg.params[j]] = cap}}
        Local     == {e \in Place : e.path = <<>>}
    IN IF Len(rg.args) # Len(rg.params) THEN {"argumentCount"}
       ELSE Found("argumentIsLocal", ~(Args("iso") \subseteq Local))
            \cup Found("argumentIsIso", \E e \in Args("iso") \cap Local : ~placeCanTransferAsIso(e))
            \cup Found("argumentIsImm", \E e \in Args("imm") : ~restoreExpressionIsImmutable(e))

---------------------------------------------------------------------------
(* The body.  token[v] is the place v is an alias of, moved the            *)
(* projections that were read into an alias, inc[p] the root p was hung    *)
(* into.                                                                   *)

NoToken == NoPlace

Walk(token, moved, inc, found) ==
    [token |-> token, moved |-> moved, inc |-> inc, errs |-> found]

Add(w, found) == [w EXCEPT !.errs = @ \cup found]

tokenForExpr(rg, w, e) ==
    LET base == w.token[e.root]
    IN IF e \notin Place THEN NoToken
       ELSE IF e.path = <<>> THEN base
       ELSE IF e.root \in restoreIsoParamObjects(rg) THEN e
       ELSE IF base = NoToken \/ base.path # <<>> THEN NoToken
       ELSE [root |-> base.root, path |-> e.path]

\* Reading a projection moves it; reading an alias again does not.
markMovedProjectionFromExpr(w, e, token) ==
    IF e.path = <<>> \/ token.path = <<>> THEN w ELSE [w EXCEPT !.moved = @ \cup {token}]

clearMovedProjection(rg, w, p) == [w EXCEPT !.moved = @ \ {tokenForExpr(rg, w, p)}]

incorporationTargetRoot(rg, w, target) ==
    LET base == w.token[target.root]
    IN IF target.root \in restoreIsoParamObjects(rg) THEN target.root
       ELSE IF base = NoToken \/ base.path # <<>> THEN "nil" ELSE base.root

recordIncorporation(rg, w, target, token) ==
    LET into == incorporationTargetRoot(rg, w, target)
    IN IF token.path # <<>> \/ token.root \notin restoreIsoParamObjects(rg)
          \/ into \in {"nil", token.root}
       THEN w
       ELSE IF w.inc[token.root] \notin {"nil", into} THEN Add(w, {"incorporatedTwice"})
       ELSE [w EXCEPT !.inc[token.root] = into]

\* The code has a case for nil that clears the projection; it stands behind a
\* test for a pointer type, which nil does not pass.
recordPointerAssignment(rg, w, dst, src) ==
    LET token == tokenForExpr(rg, w, src)
        read  == markMovedProjectionFromExpr(w, src, token)
    IN IF ~ptr(src) \/ token = NoToken THEN w
       ELSE IF dst.path # <<>>
       THEN recordIncorporation(rg, clearMovedProjection(rg, read, dst), dst, token)
       ELSE IF dst.root \in restoreIsoParamObjects(rg) THEN read
       ELSE [read EXCEPT !.token[dst.root] = token]

checkAssignmentTarget(rg, dst) ==
    LET known == dst \in Place
        local == known /\ dst.root \in restoreLocalObjects(rg)
        cap   == EffectivePlaceCap(dst)
    IN Found("targetIsPlace", ~known)
       \cup Found("mutatesOuter", known /\ ~local)
       \cup Found("reassignsRoot", local /\ dst.path = <<>> /\ dst.root \in restoreIsoParamObjects(rg))
       \cup Found("untrackedField", local /\ dst.path # <<>> /\ ptr(dst) /\ cap # "iso")
       \cup Found("readOnlyField", local /\ dst.path # <<>> /\ cap \in {"imm", "rob"})

checkPointerFieldStoreValue(rg, w, dst, src) ==
    Found("storesNonAlias", /\ dst \in Place /\ dst.path # <<>> /\ ptr(dst)
                            /\ EffectivePlaceCap(dst) = "iso" /\ src # Nil
                            /\ tokenForExpr(rg, w, src) = NoToken)

rejectUntrackedPointerValue(src) ==
    Found("untrackedValue", ptr(src) /\ EffectivePlaceCap(src) \in {"untracked", "invalid"})

checkExpr(e) == Found("banned", e = Banned)

checkAssign(rg, w, dst, src) ==
    Add(IF dst \in Place THEN recordPointerAssignment(rg, w, dst, src) ELSE w,
        checkExpr(dst) \cup checkExpr(src) \cup checkAssignmentTarget(rg, dst)
        \cup checkPointerFieldStoreValue(rg, w, dst, src) \cup rejectUntrackedPointerValue(src))

\* walk[i] is the walk over the first i statements.  Both branches of an if
\* start with what was moved before it, and what one of them moved out is moved
\* out; a token that one branch set is kept for the other one and for what
\* follows.
checkStatement(rg, i, walk) ==
    LET s == rg.body[i]
        w == walk[i - 1]
    IN CASE s.op = "set"    -> checkAssign(rg, w, s.dst, s.src)
         [] s.op = "if"     -> Add(w, Found("ifInit", s.init))
         [] s.op = "else"   -> [w EXCEPT !.moved = walk[s.of].moved]
         [] s.op = "end"    -> [w EXCEPT !.moved = @ \cup walk[s.else - 1].moved]
         [] s.op = "return" -> Add(w, Found("earlyReturn", i # Len(rg.body)))
         [] OTHER           -> Add(w, {"statement"})

NewWalk(rg) ==
    Walk([v \in Roots |-> IF v \in restoreIsoParamObjects(rg) THEN RootPlace(v) ELSE NoToken],
         {}, [v \in Roots |-> "nil"], {})

checkNestedBlock(rg) ==
    LET walk[i \in 0 .. Len(rg.body)] == IF i = 0 THEN NewWalk(rg) ELSE checkStatement(rg, i, walk)
    IN  walk

EndsInReturn(rg) == rg.body # <<>> /\ Last(rg.body).op = "return"

\* A last statement that is no return is an error, whatever it is.
checkBody(rg) ==
    LET w == checkNestedBlock(rg)[Len(rg.body)]
    IN IF EndsInReturn(rg) THEN w ELSE Add(w, {"lastIsReturn"})

checkCaptures(rg) ==
    Found("captures", \E v \in rg.captures : v \in Globals \/ RootCap[v] # "imm")

---------------------------------------------------------------------------
(* The return.                                                             *)

Returned(rg) == Last(rg.body).values

\* Mutant: any value may be returned.
AnyReturn(rg) == Found("returnCount", Len(Returned(rg)) # Len(rg.results))

checkRestoreBoundary(rg) ==
    LET R == Returned(rg)
        params == restoreIsoParamObjects(rg)
    IN Found("returnCount", Len(R) # Len(rg.results))
       \cup Found("returnIsParam", \E i \in DOMAIN R : R[i].root \notin params \/ R[i].path # <<>>)
       \cup Found("returnTwice", \E i, j \in DOMAIN R : i < j /\ R[i] = R[j])

ReturnedRoots(rg) ==
    {v \in restoreIsoParamObjects(rg) : \E i \in DOMAIN Returned(rg) : Returned(rg)[i] = RootPlace(v)}

tokenRootEscapes(rg, w, v) == v \in ReturnedRoots(rg) \/ w.inc[v] \in ReturnedRoots(rg)

\* Mutant: a root may be returned although it hangs in another graph.
OnlyLostTargets(rg, w) ==
    Found("incorporatedElsewhere", \E v \in Roots : w.inc[v] # "nil" /\ ~tokenRootEscapes(rg, w, v))
    \cup Found("movedNotOverwritten", \E t \in w.moved : tokenRootEscapes(rg, w, t.root))

checkSymbolicBoundary(rg, w) ==
    Found("returnsIncorporated", \E v \in ReturnedRoots(rg) : w.inc[v] # "nil")
    \cup Found("incorporatedElsewhere", \E v \in Roots : w.inc[v] # "nil" /\ ~tokenRootEscapes(rg, w, v))
    \cup Found("movedNotOverwritten", \E t \in w.moved : tokenRootEscapes(rg, w, t.root))

checkBinding(rg) ==
    LET w == checkBody(rg)
    IN checkRestoreAssignmentShape(rg) \cup checkRestoreSignature(rg)
       \cup checkRestoreArguments(rg) \cup w.errs \cup checkCaptures(rg)
       \cup (IF EndsInReturn(rg)
             THEN checkRestoreBoundary(rg) \cup checkSymbolicBoundary(rg, w) ELSE {})

---------------------------------------------------------------------------
(* The run of an accepted region.  A node is named after the place that    *)
(* led to it when the region was entered: \iso graphs are trees there.     *)

Entered(rg) == paramNames(rg) \cup rg.captures

Opened == UNION {Entered(rg) : rg \in Regions}

Node == {p \in Place : /\ p.root \in Opened
                       /\ \A i \in DOMAIN p.path : p.path[i] \in PtrFields}

Child(n, f) ==
    LET m == [root |-> n.root, path |-> Append(n.path, f)] IN IF m \in Node THEN m ELSE Nil

Trees == [n \in Node |-> [f \in PtrFields |-> Child(n, f)]]

RegionInit ==
    /\ region \in Regions
    /\ stage = "check"
    /\ errs = {}
    /\ val = [v \in Roots |-> IF v \in Entered(region) THEN RootPlace(v) ELSE Nil]
    /\ heap = Trees
    /\ pc = 1
    /\ results = <<>>

Check ==
    /\ stage = "check"
    /\ errs' = (IF region.bound THEN checkBinding(region) ELSE {"unbound"})
    /\ stage' = IF errs' = {} THEN "run" ELSE "rejected"
    /\ UNCHANGED <<region, val, heap, pc, results>>

\* A selection from what is no node (a nil pointer) gives no value.
Select(n, f) ==
    IF n \notin Node THEN Banned ELSE IF f \in PtrFields THEN heap[n][f] ELSE Scalar

\* What the first k fields of a place lead to.
Reached(p, k) ==
    LET at[i \in 0 .. k] == IF i = 0 THEN val[p.root] ELSE Select(at[i - 1], p.path[i]) IN at[k]

Eval(e)   == IF e \in Place THEN Reached(e, Len(e.path)) ELSE e
Holder(p) == Reached(p, Len(p.path) - 1)

AtStatement(ops) == stage = "run" /\ pc \in DOMAIN region.body /\ region.body[pc].op \in ops
Statement        == region.body[pc]

Assignment ==
    /\ AtStatement({"set"})
    /\ LET dst == Statement.dst
           v   == Eval(Statement.src)
           panics == v = Banned \/ (dst.path # <<>> /\ Holder(dst) \notin Node)
       IN /\ stage' = IF panics THEN "panic" ELSE stage
          /\ val' = IF ~panics /\ dst.path = <<>> THEN [val EXCEPT ![dst.root] = v] ELSE val
          /\ heap' = IF ~panics /\ dst.path # <<>> /\ ptr(dst)
                     THEN [heap EXCEPT ![Holder(dst)][Last(dst.path)] = v] ELSE heap
    /\ pc' = pc + 1
    /\ UNCHANGED <<region, errs, results>>

\* An if takes one of its branches; the first one ends at the else.
Decide ==
    /\ AtStatement({"if"})
    /\ pc' \in {pc + 1, Statement.else + 1}
    /\ UNCHANGED <<region, stage, errs, val, heap, results>>

Rejoin ==
    /\ AtStatement({"else", "end"})
    /\ pc' = (IF Statement.op = "else" THEN Statement.end ELSE pc) + 1
    /\ UNCHANGED <<region, stage, errs, val, heap, results>>

Return ==
    /\ AtStatement({"return"})
    /\ results' = [i \in DOMAIN Statement.values |-> Eval(Statement.values[i])]
    /\ stage' = "done"
    /\ UNCHANGED <<region, errs, val, heap, pc>>

RegionNext == Check \/ Assignment \/ Decide \/ Rejoin \/ Return

RegionSpec == RegionInit /\ [][RegionNext]_regionVars
---------------------------------------------------------------------------
(* What the check promises.                                                *)

To(e) == heap[e[1]][e[2]]

Edges == {e \in Node \X PtrFields : To(e) \in Node}

Closure(N) ==
    FoldLeft(LAMBDA M, i : M \cup {To(e) : e \in {d \in Edges : d[1] \in M}},
             N, [i \in 1 .. Cardinality(Node) |-> i])

\* The nodes reached from N along pointers.
Reach(N) == N \cup {To(e) : e \in {d \in Edges : d[1] \in Closure(N)}}

\* No two results are the same node, and no node of the returned graphs is held
\* by two fields or by a field and a result.
OneOwner ==
    LET kept == Reach(Range(results) \cap Node)
        held == {e \in Edges : e[1] \in kept}
    IN /\ \A i, j \in DOMAIN results : i # j => results[i] # results[j]
       /\ \A e \in held : /\ To(e) \notin Range(results)
                          /\ \A d \in held : To(d) = To(e) => d = e

\* A checked region has errors or runs; a run that is over gives back as many
\* values as the region declares, each of them a root that came in.
RegionTypeOK ==
    /\ stage \in {"check", "run", "rejected", "done", "panic"}
    /\ stage = "rejected" <=> errs # {}
    /\ stage = "done" => /\ Len(results) = Len(region.lhs)
                         /\ \A i \in DOMAIN results :
                               results[i] \in {RootPlace(v) : v \in restoreIsoParamObjects(region)}

\* The stores of pointers into fields, with the token of what is stored.
StoresAt(rg) == {i \in SetsAt(rg) : rg.body[i].dst.path # <<>> /\ ptr(rg.body[i].src)}
Stored(rg)   ==
    [i \in StoresAt(rg) |-> tokenForExpr(rg, checkNestedBlock(rg)[i - 1], rg.body[i].src)]

\* Regions that store each thing once: no variable is set twice, and a parameter
\* never; no two stores are of one token; a root is stored in a field of another
\* root, or of an alias of one; no path has more than one field.
StoresOnce(rg) ==
    LET walk == checkNestedBlock(rg)
        once == Stored(rg)
        target(i) == incorporationTargetRoot(rg, walk[i - 1], rg.body[i].dst)
    IN /\ \A i \in SetsAt(rg) :
             LET s == rg.body[i]
             IN /\ s.dst.path = <<>> =>
                      /\ s.dst.root \notin paramNames(rg)
                      /\ \A j \in SetsAt(rg) : rg.body[j].dst = s.dst => i = j
                /\ Len(s.dst.path) <= 1 /\ Len(s.src.path) <= 1
       /\ \A i \in StoresAt(rg) : once[i] # NoToken =>
             /\ \A j \in StoresAt(rg) : once[j] = once[i] => i = j
             /\ once[i].path = <<>> => target(i) \notin {"nil", once[i].root}

\* "Across all returned graphs, each non-nil location has at most one durable
\* \iso owner path" (restore-spec.md:208), for regions that store each thing once.
OneOwnerIfStoredOnce == stage = "done" /\ StoresOnce(region) => OneOwner

\* The same for every region the checker accepts.
OneOwnerAlways == stage = "done" => OneOwner
=============================================================================
