----------------------------- MODULE MCPrograms -----------------------------
(***************************************************************************)
(* Small functions for model checking: statements as the instructions      *)
(* go/ssa makes of them, control-flow shapes to put them in, and the       *)
(* functions made of them that the runs share.                             *)
(***************************************************************************)
EXTENDS Transfers

V(r)    == [root |-> r, path |-> <<>>]
F(r, f) == [root |-> r, path |-> <<f>>]
Nil     == [root |-> "nil", path |-> <<>>]

MCRoots    == {"x", "y", "u", "b"}
MCFields   == {"f", "g"}
MCFieldPaths == {<<>>, <<"f">>, <<"g">>}
MCRootCap  == [r \in MCRoots |-> CASE r = "u" -> "untracked"
                                   [] r = "b" -> "rob" [] OTHER -> "iso"]
MCFieldCap == [f \in MCFields |-> IF f = "f" THEN "iso" ELSE "imm"]

---------------------------------------------------------------------------
(* Statements.                                                             *)

DebugRef(p)   == [op |-> "use", place |-> p, span |-> FALSE, binds |-> {}]
InSpan(p)     == [op |-> "use", place |-> p, span |-> TRUE, binds |-> {}]
Arg(c, p)     == [cap |-> c, place |-> p]
CallOf(args)  == [op |-> "call", args |-> args]
SendOf(p)     == [op |-> "send", place |-> p, chan |-> "iso"]
ValueOf(c, p)   == [cap |-> c, fresh |-> FALSE, place |-> p]
NewValue      == [cap |-> "iso", fresh |-> TRUE, place |-> Nil]
AssignOf(d,v) == [op |-> "assign", dst |-> d, value |-> v]
ReturnOf(res) == [op |-> "return", results |-> res]

skip       == <<>>                                                \* nothing
take(p)    == << DebugRef(p), CallOf(<< Arg("iso", p) >>) >>      \* Take(p)
read(p)    == << DebugRef(p), CallOf(<< Arg("rob", p) >>) >>      \* Read(p)
send(p)    == << DebugRef(p), SendOf(p) >>                        \* ch <- p
renew(p)   == << AssignOf(p, NewValue) >>                         \* p = \new(T)
move(d, p) == << DebugRef(p), AssignOf(d, ValueOf("iso", p)) >>     \* d = p
unsafe(p)  == << DebugRef(p), [op |-> "unsafe", place |-> p] >>   \* \unsafe(p)
ret     == << ReturnOf(<<>>) >>                                \* return
frozen(r)  == << InSpan(V(r)), DebugRef(F(r, "g")) >>             \* _ = r.g

receive(d)      == << [op |-> "flow", dst |-> d, cap |-> "iso"] >>        \* u = <-ch
forget(d)       == << [op |-> "flow", dst |-> d, cap |-> "invalid"] >>    \* u = other
assign(d, c, p) == << DebugRef(p), AssignOf(d, ValueOf(c, p)) >>            \* d = p
selectSend(ps)  == << [op |-> "select",
                       cases |-> [k \in DOMAIN ps |-> [place |-> ps[k], chan |-> "iso"]]] >>
goCall(args)    == << [op |-> "go", args |-> args, captures |-> <<>>] >>
goCapture(p)    == << [op |-> "go", args |-> <<>>, captures |-> <<p>>] >>
restore(p)      == << DebugRef(p), [op |-> "restore", args |-> <<Arg("iso", p)>>,
                                    lhs |-> <<p>>] >>
swap(p, q)      == << [op |-> "swap", auto |-> FALSE, left |-> p, right |-> q] >>
autoSwap(p, q)  == << [op |-> "swap", auto |-> TRUE, left |-> p, right |-> q] >>
freeze(p)       == << DebugRef(p), [op |-> "freeze", place |-> p, result |-> "imm"] >>
storeTo(t, p)   == << DebugRef(p), [op |-> "store", value |-> p, target |-> t,
                                    indexed |-> FALSE] >>
mapStore(p)     == << [op |-> "map", place |-> p] >>

\* T{f: p}: the store into the new struct follows the DebugRef of the value.
initField(c, p) == << [op |-> "stage", cap |-> "iso", value |-> ValueOf(c, p)],
                      [op |-> "store", value |-> p, target |-> Nil, indexed |-> FALSE] >>

\* b := \rob(p)
bind(n, p)      == << DebugRef(p), [op |-> "borrow", place |-> p, cap |-> "rob"],
                      [op |-> "use", place |-> Nil, span |-> FALSE,
                       binds |-> {[name |-> n, source |-> p]}] >>

ResultOf(c, p)  == [want |-> c, cap |-> c, fresh |-> FALSE, place |-> p]
NotTracked      == [want |-> "untracked", cap |-> "invalid", fresh |-> FALSE, place |-> Nil]
retOf(results)  == << ReturnOf(results) >>

\* defer f(args), and defer func() { ... }() for the closure of the site.
deferCall(args)  == << [op |-> "defer", args |-> args, touches |-> <<>>, site |-> "d0"] >>
\* defer f(b) with the borrow variable b.
deferUse(b)      == << [op |-> "defer", args |-> <<Arg("rob", V(b))>>, touches |-> <<b>>,
                        site |-> "d0"] >>
deferClosure(d)  == << [op |-> "defer", args |-> <<>>, touches |-> <<>>, site |-> d] >>

---------------------------------------------------------------------------
(* Shapes.                                                                 *)

BB(instrs, succs) == [instrs |-> instrs, succs |-> succs]

\* if c { p2 } else { p3 }
Diamond(p1, p2, p3, p4) ==
    << BB(p1, <<2, 3>>), BB(p2, <<4>>), BB(p3, <<4>>), BB(p4 \o ret, <<>>) >>

\* for c { p3 }
Loop(p1, p2, p3, p4) ==
    << BB(p1, <<2>>), BB(p2, <<3, 4>>), BB(p3, <<2>>), BB(p4 \o ret, <<>>) >>

\* if c { p2; p3 }; p4; p5, where p4 is reached from the entry before p3 has run.
LateJoin(p1, p2, p3, p4, p5) ==
    << BB(p1, <<2, 4>>), BB(p2, <<3>>), BB(p3, <<4>>), BB(p4, <<5>>),
       BB(p5 \o ret, <<>>) >>

\* if c { p2 } else { p3 }, ending in the given return.
DiamondTo(p1, p2, p3, p4, end) ==
    << BB(p1, <<2, 3>>), BB(p2, <<4>>), BB(p3, <<4>>), BB(p4 \o end, <<>>) >>

\* A closure body that runs its statements once.
Straight(p) == << BB(p \o ret, <<>>) >>

---------------------------------------------------------------------------
(* Functions.  Each defer statement has a closure of its own or none:      *)
(*   d0  stands for the defers of declared functions, which leave no group *)
(*   d1  defers the closure c1                                             *)
(*   d2  defers the closure c2                                             *)
(*   d3  defers a literal without captures that calls Take(y)              *)

X == V("x")
Y == V("y")
U == V("u")
B == V("b")

MCFns   == {"main", "c1", "c2"}
MCSites == {"d0", "d1", "d2", "d3"}

FunctionOf(body, c1, c2) ==
    [named   |-> TRUE,
     code    |-> [f \in MCFns |-> CASE f = "main" -> body [] f = "c1" -> c1 [] OTHER -> c2],
     groups  |-> [d \in MCSites |->
                    CASE d = "d0" -> [closure |-> NoFn, effects |-> <<>>]
                      [] d = "d1" -> [closure |-> "c1",
                                      effects |-> collectDeferredClosureEffects(c1)]
                      [] d = "d2" -> [closure |-> "c2",
                                      effects |-> collectDeferredClosureEffects(c2)]
                      [] d = "d3" -> [closure |-> NoFn,
                                      effects |-> collectDeferredClosureEffects(
                                                      Straight(take(Y)))]],
     borrows |-> collectSSANamedBorrows(body)]

PlainFunction(body) == FunctionOf(body, Straight(skip), Straight(skip))

\* Branches and loops of moves, rebindings, field moves and frontiers.
Statements == {skip, take(X), read(X), renew(X), move(Y, X), take(F("x", "f")),
               frozen("x"), send(X), unsafe(X)}
Few == {skip, take(X), renew(X), move(X, Y)}

MovePrograms ==
    {PlainFunction(Diamond(p1, p2, p3, p4)) :
        p1 \in Few, p2 \in Statements, p3 \in Few, p4 \in Statements}
    \cup {PlainFunction(Loop(p1, p2, p3, p4)) :
        p1 \in Few, p2 \in Few, p3 \in Statements, p4 \in Statements}

\* Deferred calls and closures on branches and in loops.
Closures  == {Straight(take(X)), Straight(read(X)), Straight(send(X)),
              Diamond(skip, take(X), renew(X), read(Y))}
RepeatSafe == Closures \ {Straight(send(X))}
Deferring(d) == {skip, take(X), deferClosure(d), deferCall(<<Arg("rob", X)>>)}
Uses == {skip, take(X), read(X), renew(X)}

DeferPrograms ==
    {FunctionOf(Diamond(p1, p2, p3, p4), c1, c2) :
        p1 \in Deferring("d1"), p2 \in Deferring("d2"), p3 \in Uses, p4 \in Uses,
        c1 \in Closures, c2 \in {Straight(take(X)), Straight(read(X))}}
    \cup {FunctionOf(Loop(p1, skip, p3, p4), c1, c2) :
        p1 \in Deferring("d2"), p3 \in Deferring("d1"), p4 \in Uses,
        c1 \in RepeatSafe, c2 \in {Straight(take(X)), Straight(read(X))}}

\* Every other handler: flow values, field initializers, stores, select, go,
\* restore, swaps, freeze, explicit borrows with a named borrow live across a
\* move, tracked results, and deferred literals that capture nothing.
First  == {receive(U), bind("b", X), skip, take(X)}
Second == {forget(U), selectSend(<<X, Y, X>>), goCall(<<Arg("iso", X), Arg("mub", Y)>>),
           goCapture(X), restore(X), swap(X, Y), freeze(X), storeTo(F("y", "f"), X),
           mapStore(X), deferClosure("d3"), bind("b", Y)}
Third  == {skip, initField("iso", X), assign(Y, "untracked", U), autoSwap(Y, X), take(X),
           << DebugRef(B) >>, deferCall(<<Arg("rob", Y)>>)}
Ends   == {ret, retOf(<<ResultOf("iso", X)>>), retOf(<<ResultOf("iso", Y), NotTracked>>)}

HandlerPrograms ==
    {PlainFunction(DiamondTo(p1, p2, skip, p4, end)) :
        p1 \in First, p2 \in Second, p4 \in Third, end \in Ends}
    \cup {PlainFunction(Loop(p1, skip, p3, p4)) : p1 \in First, p3 \in Second, p4 \in Third}
    \cup {PlainFunction(Diamond(bind("b", X), p2, skip, deferUse("b") \o p4)) :
              p2 \in {skip, take(Y), send(X)}, p4 \in {skip, take(X), take(Y), read(X)}}

AllPrograms == MovePrograms \cup DeferPrograms \cup HandlerPrograms
=============================================================================
