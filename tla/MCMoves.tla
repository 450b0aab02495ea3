------------------------------ MODULE MCMoves -------------------------------
(* The engine on the functions of MCPrograms.                              *)
EXTENDS MoveFlow, MCPrograms

---------------------------------------------------------------------------
(* Functions on which the engine leaves what the documentation says:       *)
(* joins, rebindings and results.                                          *)

C == V("c")
D == V("d")

FindingRoots   == MCRoots \cup {"c", "d"}
FindingRootCap == [r \in FindingRoots |-> IF r \in {"c", "d"} THEN "imm" ELSE MCRootCap[r]]

deferRead(p) == deferCall(<<Arg("rob", p)>>)

\* One branch defers Read(x) twice, the other Read(x) and Read(y).
JoinPrograms == {PlainFunction(Diamond(skip, p2, p3, take(Y))) :
    p2 \in {skip, deferRead(X), deferRead(X) \o deferRead(X)},
    p3 \in {skip, deferRead(Y), deferRead(X) \o deferRead(Y)}}

\* x, or a field of it, is moved before x gets a new value.
RebindPrograms == {PlainFunction(Diamond(p1, skip, skip, renew(X) \o read(X))) :
    p1 \in {skip, take(X), take(F("x", "f"))}}

\* The first result is not a place: the others move up.
ImmResult(p) == [want |-> "imm", cap |-> "imm", fresh |-> FALSE, place |-> p]
ReturnPrograms == {PlainFunction(DiamondTo(p1, skip, skip, skip, retOf(results))) :
    p1 \in {skip, unsafe(C)},
    results \in {<<ImmResult(C), ImmResult(D)>>,
                 <<NotTracked, ImmResult(C), ImmResult(D)>>}}
=============================================================================
