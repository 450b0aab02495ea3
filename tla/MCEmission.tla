---------------------------- MODULE MCEmission ----------------------------
(***************************************************************************)
(* Functions for the emitter: every choice of statements in a few shapes.  *)
(***************************************************************************)
EXTENDS Emission, Sequences

P(r, f) == [root |-> r, path |-> f]

---------------------------------------------------------------------------
(* Statements.                                                             *)

Simple(kind, calls, sends, moves, writes) ==
    [kind |-> kind, calls |-> calls, sends |-> sends, moves |-> moves, writes |-> writes]

skip       == Simple("expr", {}, {}, {}, {})
take(p)    == Simple("expr", {p}, {}, {}, {})                          \* Take(p)
send(p)    == Simple("send", {}, {p}, {}, {})                          \* ch <- p
move(d, p) == Simple("assign", {}, {}, {[src |-> p, dst |-> d]}, {d})  \* d = p
renew(p)   == Simple("assign", {}, {}, {}, {p})                        \* p = \new(T)
pass(d, p) == Simple("assign", {p}, {}, {}, {d})                       \* d = Pass(p)
ret(p)     == Simple("return", {p}, {}, {}, {})                        \* return Take(p)
swap(p, q) == Simple("swap", {}, {}, {[src |-> p, dst |-> q], [src |-> q, dst |-> p]}, {p, q})
restore(d, p) == Simple("restore", {}, {}, {[src |-> p, dst |-> d]}, {d})
refill(d, p) == Simple("assign", {}, {}, {[src |-> p, dst |-> d]}, {d, p})  \* d, p = p, \new(T)
test(p)    == Simple("compound", {p}, {}, {}, {})                      \* if Take(p)
plain      == Simple("compound", {}, {}, {}, {})

Edge(f, t, e) == [from |-> f, to |-> t, ends |-> e]

\* A function of four statements: 2 is compound, with 3 inside it, in the
\* shapes that have one.
Shapes == {"line", "if", "ifReturn", "loop", "loopBreak"}

ShapeEdges(shape) ==
    CASE shape = "line"      -> {Edge("1", "3", {"1"}), Edge("3", "4", {"3"}), Edge("4", None, {"4"})}
      [] shape = "if"        -> {Edge("1", "2", {"1"}), Edge("2", "3", {}), Edge("2", "4", {"2"}),
                                 Edge("3", "4", {"3", "2"}), Edge("4", None, {"4"})}
      [] shape = "ifReturn"  -> {Edge("1", "2", {"1"}), Edge("2", "3", {}), Edge("2", "4", {"2"}),
                                 Edge("3", None, {"3"}), Edge("4", None, {"4"})}
      [] shape = "loop"      -> {Edge("1", "2", {"1"}), Edge("2", "3", {}), Edge("2", "4", {"2"}),
                                 Edge("3", "2", {"3"}), Edge("4", None, {"4"})}
      [] shape = "loopBreak" -> {Edge("1", "2", {"1"}), Edge("2", "3", {}), Edge("2", "4", {"2"}),
                                 Edge("3", "4", {"3", "2"}), Edge("3", "2", {"3"}),
                                 Edge("4", None, {"4"})}

FunctionOf(shape, s1, s2, s3, s4) ==
    LET body  == [s \in {"1", "2", "3", "4"} |->
                    CASE s = "1" -> s1 [] s = "2" -> s2 [] s = "3" -> s3 [] s = "4" -> s4]
        stmts == IF shape = "line" THEN {"1", "3", "4"} ELSE {"1", "2", "3", "4"}
    IN [stmts  |-> stmts, first |-> "1",
        kind   |-> [s \in stmts |-> body[s].kind],
        calls  |-> [s \in stmts |-> body[s].calls],
        sends  |-> [s \in stmts |-> body[s].sends],
        moves  |-> [s \in stmts |-> body[s].moves],
        writes |-> [s \in stmts |-> body[s].writes],
        around |-> [s \in stmts |-> IF s = "3" /\ shape # "line" THEN {"2"} ELSE {}],
        header |-> {}, closed |-> {},
        follow |-> [s \in stmts |-> {}],
        iso    |-> {P("x", ""), P("y", ""), P("x", "f")},
        transferable |-> {P("x", ""), P("y", ""), P("x", "f")},
        projected |-> {},
        name   |-> [r \in Roots |-> r],
        scope  |-> [r \in Roots |-> None],
        edges  |-> ShapeEdges(shape),
        gone   |-> [s \in stmts |-> {}]]

X  == P("x", "")
Y  == P("y", "")
XF == P("x", "f")

Statements == {skip, send(NoPlace), take(X), take(XF), send(X), move(Y, X), move(Y, XF), renew(X), pass(X, X), refill(Y, X)}
Inner      == Statements \cup {ret(X), swap(X, Y), restore(X, X), restore(Y, X)}

Plain ==
    {FunctionOf(shape, s1, s2, s3, s4) :
        shape \in Shapes, s1 \in {skip, take(X), renew(X), move(Y, X)},
        s2 \in {plain, test(X), test(XF)}, s3 \in Inner, s4 \in Statements}

\* y is declared inside of the compound statement; named as the outer variable x
\* it hides that one.
Shadowed ==
    {[FunctionOf(shape, skip, plain, s3, skip) EXCEPT !.name["y"] = nm, !.scope["y"] = "2"] :
        nm \in {"x", "y"}, shape \in Shapes \ {"line"}, s3 \in {take(Y), send(Y)}}
    \cup {[FunctionOf(shape, skip, plain, move(X, Y), skip) EXCEPT !.scope["y"] = "2"] :
             shape \in Shapes \ {"line"}}

\* for c { s1; if s3 { s4; continue } }: 2 is the loop and 3 the branch in it.
Continued ==
    {[FunctionOf("if", s1, plain, s3, s4) EXCEPT
        !.first = "2",
        !.around = [s \in {"1", "2", "3", "4"} |->
                       CASE s = "2" -> {} [] s = "4" -> {"2", "3"} [] OTHER -> {"2"}],
        !.edges = {Edge("2", "1", {}), Edge("2", None, {"2"}), Edge("1", "3", {"1"}),
                   Edge("3", "4", {}), Edge("3", "2", {"3"}), Edge("4", "2", {"4"})}] :
        s1 \in Statements, s3 \in {plain, test(X), test(XF)}, s4 \in Statements}

\* The variable has an immutable field in use.
Projected ==
    {[f EXCEPT !.projected = {"x"}] :
        f \in {FunctionOf("if", s1, plain, s3, skip) : s1 \in Statements, s3 \in Statements}}

\* Statements on one line, in a header, and in front of a brace.
Lines ==
    {[FunctionOf("line", s1, plain, s3, skip) EXCEPT !.follow["1"] = {"3"}] :
        s1 \in Statements, s3 \in Statements}
    \cup {[FunctionOf("if", skip, plain, s3, skip) EXCEPT !.closed = {"3"}] : s3 \in Statements}
    \cup {[FunctionOf("if", skip, plain, s3, skip) EXCEPT !.header = {"3"}] : s3 \in Statements}

---------------------------------------------------------------------------
(* What the check of moves finds: one more step of each path.              *)

Onward(f) ==
    [f EXCEPT !.gone = [s \in f.stmts |->
        f.gone[s] \cup UNION {After(f, e.from, f.gone[e.from]) : e \in {d \in f.edges : d.to = s}}]]

Checked(f) ==
    LET f1 == Onward(f)   f2 == Onward(f1)  f3 == Onward(f2)
        f4 == Onward(f3)  f5 == Onward(f4)  f6 == Onward(f5)
    IN Onward(f6)

\* if c { Take(x); return }, and then Take(x) or ch <- x.
MCBranchFunctions ==
    {Checked(FunctionOf("ifReturn", skip, plain, take(X), s4)) : s4 \in {take(X), send(X)}}

MCFunctions ==
    {f \in {Checked(g) : g \in Plain \cup Shadowed \cup Continued \cup Projected \cup Lines} :
        Accepted(f)}
===========================================================================
