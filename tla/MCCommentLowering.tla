------------------------- MODULE MCCommentLowering -------------------------
(***************************************************************************)
(* Two files that have every kind of target.  A token takes one offset and *)
(* so does every comment.                                                  *)
(***************************************************************************)
EXTENDS CommentLowering

Node(start, end, line, endLine) ==
    [start |-> start, end |-> end, line |-> line, endLine |-> endLine]
Field(start, end, line, typ, elem) == Node(start, end, line, line) @@ [typ |-> typ, elem |-> elem]
Holding(node, rhs) == node @@ [rhs |-> rhs, define |-> TRUE]
Expr(form, start, end) == [form |-> form, start |-> start, end |-> end]
Chan(start, end) == Expr("chan", start, end) @@ [elem |-> start + 1]
Leading(at, line) == Node(at, at + 1, line, line) @@ [trailing |-> FALSE]
Trailing(at, line) == Node(at, at + 1, line, line) @@ [trailing |-> TRUE]

(* 1   //                                     0                            *)
(* 2   func f(p T, q chan T) {  //            1 .. 7, 7                    *)
(* 3   c := make(chan T)  //                  8 .. 11, 11                  *)
(* 4   x, y = y, x  //                        12 .. 14, 14                 *)
(* 5   z := x.clone()  //                     15 .. 18, 18                 *)
(* 6   return a, &T{}  //                     19 .. 22, 22                 *)
Straight ==
    [size    |-> 23,
     slots   |-> <<Leading(0, 1), Trailing(7, 2), Trailing(11, 3), Trailing(14, 4),
                   Trailing(18, 5), Trailing(22, 6)>>,
     funcs   |-> {Node(1, 7, 2, 6) @@ [body |-> 6]},
     fields  |-> {Field(2, 4, 2, 3, None), Field(4, 6, 2, 4, 5)},
     specs   |-> {},
     assigns |-> {Holding(Node(8, 11, 3, 3), Chan(9, 11)),
                  Holding(Node(12, 14, 4, 4), Expr("swap", 13, 14)),
                  Holding(Node(15, 18, 5, 5), Expr("clone", 16, 18))},
     pairs   |-> {},
     results |-> {Node(20, 21, 6, 6) @@ [rhs |-> Expr("other", 20, 21)],
                  Node(21, 22, 6, 6) @@ [rhs |-> Expr("literal", 21, 22)]}]

(* 1   var v  T  //                           0 .. 2, 2                    *)
(* 2   //                                     3                            *)
(* 3   b := func(p T) (U) {                   4 .. 10                      *)
(* 4   j := &T{  //                           11, 12, 13, comment 14       *)
(* 5   k: make(chan T),  //                   15, 16 .. 18, comment 18     *)
(* 6   }  //                                  19, comment 20               *)
(* 7   }()  //                                21, 22, comment 23           *)
Nested ==
    [size    |-> 24,
     slots   |-> <<Trailing(2, 1), Leading(3, 2), Trailing(10, 3), Trailing(14, 4),
                   Trailing(18, 5), Trailing(20, 6), Trailing(23, 7)>>,
     funcs   |-> {},
     fields  |-> {Field(6, 8, 3, 7, None), Field(8, 9, 3, 8, None)},
     specs   |-> {Field(0, 2, 1, 1, None)},
     assigns |-> {Holding(Node(4, 23, 3, 7),
                          Expr("iife", 5, 23) @@ [param |-> 7, result |-> 8]),
                  Holding(Node(11, 20, 4, 6), Expr("literal", 12, 20))},
     pairs   |-> {Node(15, 18, 5, 5) @@ [rhs |-> Chan(16, 18)]},
     results |-> {}]

MCFiles == {Straight, Nested}

MCBodies == {<<"iso">>, <<"mub">>, <<"freeze">>, <<"elem">>, <<"new">>, <<"clone">>, <<"swap">>, <<"restore">>,
             <<"observer">>, <<"signature">>, <<"iso", "elem">>, <<"iso", "iso">>,
             <<"param", "restore", "result">>}
=============================================================================
