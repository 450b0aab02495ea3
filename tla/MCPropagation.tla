--------------------------- MODULE MCPropagation ---------------------------
(* Packages of four sites in two files for AnnotationPropagation.          *)
EXTENDS AnnotationPropagation

MCSites == 1 .. 4
MCExprs == 1 .. 4
MCFiles == {"f", "g"}

MCSeqs == {<<>>, <<"iso">>, <<"mub">>}

Edges == {{<<2, 1>>, <<3, 2>>}, {<<1, 2>>, <<3, 4>>},
          {<<1, 3>>, <<2, 3>>, <<4, 3>>}, {<<1, 2>>, <<2, 3>>, <<3, 4>>, <<4, 1>>}}

Package(expr, file, stamps, chan, edges, plain, comments) ==
    [expr |-> expr, file |-> file, stamps |-> stamps, chan |-> chan,
     edges |-> edges, plain |-> plain, comments |-> comments]

Own       == [s \in MCSites |-> s]
TwoFiles  == [e \in MCExprs |-> IF e <= 2 THEN "f" ELSE "g"]
Stampings == [MCExprs -> MCSeqs]

\* Every site has a type of its own and every file is a .gown source.
OwnTypes ==
    {Package(Own, TwoFiles, stamps, chan, edges, {}, FALSE) :
        stamps \in Stampings, chan \in {{}, {4}}, edges \in Edges}

\* The Go files are checked through the mirror.
CommentPackages ==
    {Package(Own, TwoFiles, stamps, {}, edges, {}, TRUE) :
        stamps \in [MCExprs -> {<<>>, <<"iso">>}], edges \in Edges}

\* One of the files is Go without a .gown source.
PlainPackages ==
    {Package(Own, TwoFiles, stamps, {}, edges, plain, FALSE) :
        stamps \in Stampings, edges \in Edges, plain \in {{"g"}}}

GownPackages == OwnTypes \cup PlainPackages
=============================================================================
