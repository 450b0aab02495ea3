------------------------------ MODULE MCPaths -------------------------------
(* The paths through the functions of MCPrograms.                          *)
EXTENDS PathCheck, MCPrograms

---------------------------------------------------------------------------
(* Functions on which the engine leaves what the documentation says:       *)
(* deferred closures and named borrows.                                    *)

\* The join at block 4 is reached first without, then with the defer of c1.
OrderPrograms == {FunctionOf(LateJoin(skip, p2, skip, deferClosure("d2"), skip),
                             Straight(c1), Straight(c2)) :
    p2 \in {skip, deferClosure("d1")}, c1 \in {read(X), read(Y)}, c2 \in {read(Y), take(X)}}

\* A loop defers a closure that sends x, or calls Take(x).
RepeatPrograms == {FunctionOf(Loop(skip, skip, deferClosure("d1"), skip),
                              Straight(c1), Straight(skip)) :
    c1 \in {read(X), take(X), send(X)}}

\* b borrows x, is deferred, and then borrows y.
RebindPrograms == {PlainFunction(Straight(bind("b", X) \o deferUse("b") \o p \o take(X))) :
    p \in {skip, bind("b", Y)}}
=============================================================================
