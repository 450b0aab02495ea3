--------------------------- MODULE MCSourceIndex ---------------------------
(* Small bodies and small texts for SourceIndex.                           *)
EXTENDS SourceIndex

CONSTANTS MaxMentions,  \* mentions in the bodies that are about names
          MaxValues,    \* instructions of the bodies that are about rules
          LastOffset    \* of the texts

Expr(root, steps) == [root |-> root, steps |-> steps]
Mention(v, e, s) == [value |-> v, expr |-> e, skip |-> s]

Instr(op, x, f, edges) == [op |-> op, x |-> x, field |-> f, edges |-> edges]
RootInstr == Instr("root", 0, "-", <<>>)
Copy(x) == Instr("copy", x, "-", <<>>)
Field(x, f) == Instr("field", x, f, <<>>)
Element(x) == Instr("element", x, "-", <<>>)
Store(x) == Instr("store", x, "-", <<>>)
Phi(a, b) == Instr("phi", 0, "-", <<a, b>>)

(* Names: up to MaxMentions expressions for a value and one made of it.    *)
NameExprs == {Expr("a", <<>>), Expr("b", <<>>), Expr("f", <<>>), Expr("g", <<>>),
              Expr("a", <<"f">>), Expr("a", <<"[]">>)}

Names ==
    UNION {[1..n -> {Mention(1, e, FALSE) : e \in NameExprs}
                    \cup {Mention(2, e, FALSE) : e \in {Expr("a", <<>>), Expr("b", <<>>)}}
                    \cup {Mention(1, Expr("b", <<>>), TRUE)}] : n \in 0..MaxMentions}

NameBodies ==
    {[values |-> <<RootInstr, i>>, globals |-> g, mentions |-> m] :
        i \in {Copy(1), Field(1, "f"), Element(1), Store(1)},
        g \in {<<>>, [v \in {1} |-> "a"]}, m \in Names}

(* Rules: a variable, then instructions over what is there, with a loop's  *)
(* phi over a later value and uses of a value of a later block.            *)
After(n) ==
    UNION {{Copy(x), Field(x, "f"), Field(x, "g"), Element(x)} : x \in 1..n}
    \cup {Copy(n + 2), Field(n + 2, "f")}
    \cup {Phi(x, y) : x \in 1..n, y \in 1..(n + 2) \ {n + 1}}

Chains[n \in 1..MaxValues] ==
    IF n = 1 THEN {<<RootInstr>>}
    ELSE {Append(c, i) : c \in Chains[n - 1], i \in After(n - 1)}

RuleBodies ==
    {[values |-> c, globals |-> <<>>,
      mentions |-> <<Mention(1, Expr("a", <<>>), FALSE)>> \o extra] :
        c \in {d \in Chains[MaxValues] :
                  \A i \in DOMAIN d : /\ d[i].x <= Len(d)
                                        /\ \A k \in DOMAIN d[i].edges : d[i].edges[k] \in DOMAIN d},
        extra \in {<<>>, <<Mention(1, Expr("b", <<>>), FALSE)>>,
                   <<Mention(2, Expr("b", <<>>), FALSE)>>}}

(* p.f.g.f with two fields behind it.                                      *)
DeepBody ==
    [values |-> <<RootInstr, Field(1, "f"), Field(2, "g"), Field(3, "f"),
                  Field(4, "f"), Field(4, "g")>>,
     globals |-> <<>>, mentions |-> <<Mention(1, Expr("a", <<>>), FALSE)>>]

NoBody == [values |-> <<RootInstr>>, globals |-> <<>>, mentions |-> <<>>]
NoBodies == {NoBody}
DeepBodies == {DeepBody}
NoTexts == {<<>>}

(* Two calls, apart or one inside the callee or the arguments of the other,*)
(* in the order ast.Inspect visits them.                                   *)
Spans == {s \in [start : 1..LastOffset, lparen : 1..LastOffset, end : 1..LastOffset] :
             s.start < s.lparen /\ s.lparen + 1 < s.end}

Visited(a, b) ==
    \/ a.end < b.start
    \/ a.start <= b.start /\ b.end <= a.lparen
    \/ a.lparen < b.start /\ b.end < a.end

Call(s, line, keyword, stamp, callee) ==
    [start |-> s.start, lparen |-> s.lparen, end |-> s.end, line |-> line,
     keyword |-> keyword, stamp |-> stamp, callee |-> callee]

AllStamps == Stamps \cup {"none"}

\* Only a declared function or method is bound as a call.
Callees(stamp) ==
    CASE stamp = "call" -> {"m", "n"} [] stamp = "none" -> {"m", "closure"} [] OTHER -> {"closure"}

CallsAt(s, line, keyword) ==
    UNION {{Call(s, line, keyword, stamp, f) : f \in Callees(stamp)} : stamp \in AllStamps}

Apart(a, b) == a.end < b.start

\* What the calls are limits where the second one can be: a restore block is
\* the right side of an assignment, the function of an intrinsic is a name,
\* and that of a stamped call is a name or a selector.
Grammatical(x, y) ==
    LET within == y.end <= x.lparen
    IN  /\ y.stamp = "restore" => Apart(x, y) \/ (within /\ x.callee = "closure")
        /\ within => /\ x.stamp # "intrinsic"
                     /\ x.callee # "closure" => y.end < x.lparen - 1

FirstCalls(a) == UNION {CallsAt(a, 1, k) : k \in {0, a.start - 1}}

SecondCalls(a, b) ==
    IF Apart(a, b)
    THEN UNION {CallsAt(b, l, k) : l \in {1, 2},
                                   k \in {0} \cup ({b.start - 1} \ {a.end})}
    ELSE CallsAt(b, 1, 0)

TwoCalls ==
    UNION {{xy \in FirstCalls(ab[1]) \X SecondCalls(ab[1], ab[2]) : Grammatical(xy[1], xy[2])} :
           ab \in {p \in Spans \X Spans : Visited(p[1], p[2])}}

\* f(g(x)) and f(x)(y).
Nested == {t \in TwoCalls : t[1].stamp = "call" /\ t[2].stamp = "call" /\ t[1].end >= t[2].end}

NoText == <<>>

GoCapacity == <<1, 2, 4, 4, 8, 8, 8, 8>>

\* A body with no text, or a text with no body.
MCBodies == NameBodies \cup RuleBodies \cup {DeepBody, NoBody}
MCTexts == TwoCalls \cup {NoText}

MCInit ==
    \/ body = NoBody /\ Init
    \/ text = NoText /\ Init

MCSpec == MCInit /\ [][Next]_vars
=============================================================================
