----------------------------- MODULE MCRestore -----------------------------
(***************************************************************************)
(* \restore regions over two opened graphs p and q, an immutable parameter *)
(* k and the locals x and y.                                               *)
(***************************************************************************)
EXTENDS RestoreRegion

MCPaths == {<<>>, <<"f">>, <<"g">>, <<"u">>, <<"f", "g">>}

MCRootCap ==
    [v \in Roots |-> CASE v = "k" -> "imm" [] v = "m" -> "mub" [] v = "glob" -> "untracked"
                       [] OTHER -> "iso"]

MCFieldCap == [f \in Fields |-> IF f = "u" THEN "untracked" ELSE "iso"]

V(r)    == [root |-> r, path |-> <<>>]
F(r, f) == [root |-> r, path |-> <<f>>]

let(v, e)  == [op |-> "set", decl |-> TRUE, dst |-> V(v), src |-> e]
asg(p, e)  == [op |-> "set", decl |-> FALSE, dst |-> p, src |-> e]
if(a, b)   == [op |-> "branches", then |-> a, else |-> b]
return(vs) == [op |-> "return", values |-> vs]

\* The text of statements whose first one stands behind position at.
RECURSIVE Text(_, _)
Text(stmts, at) ==
    IF stmts = <<>> THEN <<>>
    ELSE LET s    == Head(stmts)
             then == Text(s.then, at + 1)
             mid  == at + Len(then) + 2
             else == Text(s.else, mid)
             last == mid + Len(else) + 1
             text == IF s.op # "branches" THEN <<s>>
                     ELSE <<[op |-> "if", init |-> FALSE, else |-> mid]>> \o then
                          \o <<[op |-> "else", of |-> at + 1, end |-> last]>> \o else
                          \o <<[op |-> "end", else |-> mid]>>
         IN text \o Text(Tail(stmts), at + Len(text))

IsoResults(n) == [i \in 1 .. n |-> [cap |-> "iso", named |-> FALSE]]

\* d, e = \restore func(p, q, k) { ... }(a, b, imm)
Region(body, n) ==
    [bound |-> TRUE, define |-> FALSE, lhs |-> SubSeq(<<V("d"), V("e")>>, 1, n),
     results |-> IsoResults(n), params |-> <<"p", "q", "k">>,
     args |-> <<V("d"), V("e"), V("k")>>, body |-> Text(body, 0), captures |-> {}]

Reads  == {let("x", F("p", "f")), let("x", V("p")), let("y", F("q", "f")), let("y", F("p", "f")),
           let("y", F("x", "f"))}

Stores ==
    {asg(F("p", "f"), Nil), asg(F("q", "f"), Nil), asg(F("p", "f"), V("x")),
     asg(F("q", "f"), V("x")), asg(F("q", "g"), V("x")), asg(F("p", "f"), V("y")),
     asg(F("q", "f"), V("p")), asg(F("p", "f"), F("q", "f")), asg(F("x", "g"), V("q"))}

Simple == Reads \cup Stores

Branches ==
    {if(<<s>>, <<t>>) : s \in Stores, t \in {asg(F("p", "f"), Nil), asg(F("q", "f"), V("p"))}}
    \cup {if(<<s, t>>, <<>>) : s \in Reads, t \in Stores}
    \cup {if(<<>>, <<if(<<s>>, <<>>)>>) : s \in Stores}

Returns == {<<V("p")>>, <<V("q")>>, <<V("p"), V("q")>>}

Declares(s, v) == s.op = "set" /\ s.decl /\ s.dst.root = v
Mentions(s, v) == s.op = "set" /\ ~Declares(s, v) /\ (s.dst.root = v \/ s.src.root = v)

\* Go knows a local from its declaration on, and wants it declared once.
WellFormed(b) ==
    \A v \in {"x", "y"} : /\ \A i \in DOMAIN b : Mentions(b[i], v) => \E j \in 1 .. i : Declares(b[j], v)
                          /\ \A i, j \in DOMAIN b : Declares(b[i], v) /\ Declares(b[j], v) => i = j

Bodies ==
    {b \in {<<s, t>> : s, t \in Simple} \cup {<<s, t, u>> : s, t, u \in Simple}
           \cup {<<s, t, u, w>> : s \in Reads, t, u, w \in Simple}
           \cup {<<s, t, u>> : s \in Reads, t \in Simple, u \in Branches}
           \cup {<<s, u, t>> : s \in Reads, t \in Simple, u \in Branches} : WellFormed(b)}

Swap == <<let("x", F("p", "f")), asg(F("p", "f"), F("q", "f")), asg(F("q", "f"), V("x")),
          return(<<V("p"), V("q")>>)>>

\* One thing wrong at a time.
Wrong ==
    LET ok == Region(Swap, 2)
    IN {[ok EXCEPT !.bound = FALSE], [ok EXCEPT !.lhs = Tail(@)], [ok EXCEPT !.lhs[1] = F("d", "f")],
        [ok EXCEPT !.lhs[1] = NoPlace], [ok EXCEPT !.lhs[1] = V("glob")],
        [ok EXCEPT !.results[1].cap = "mub"], [ok EXCEPT !.results[1].named = TRUE],
        [ok EXCEPT !.params[3] = "m"], [ok EXCEPT !.args = Tail(@)],
        [ok EXCEPT !.args[1] = F("d", "f")], [ok EXCEPT !.args[1] = V("m")],
        [ok EXCEPT !.args[3] = V("glob")], [ok EXCEPT !.captures = {"m"}],
        [ok EXCEPT !.body = Front(@)], [ok EXCEPT !.body = <<>>],
        [ok EXCEPT !.body = <<return(<<V("p"), V("q")>>)>> \o @],
        [ok EXCEPT !.body = <<[op |-> "other"]>> \o @],
        [ok EXCEPT !.body = <<let("y", Banned)>> \o @],
        [ok EXCEPT !.body = <<asg(F("p", "u"), V("q"))>> \o @],
        [ok EXCEPT !.body = <<asg(F("glob", "u"), Nil)>> \o @],
        [ok EXCEPT !.body = <<asg(V("p"), V("q"))>> \o @],
        [ok EXCEPT !.body = <<asg(F("k", "f"), Nil)>> \o @],
        [ok EXCEPT !.body = Front(@) \o <<return(<<V("p"), V("p")>>)>>],
        [ok EXCEPT !.body = Front(@) \o <<return(<<V("p"), F("q", "f")>>)>>],
        [ok EXCEPT !.params = <<"k">>, !.args = <<V("k")>>]}

MCRegions ==
    {Region(Append(b, return(r)), Len(r)) : b \in Bodies, r \in Returns}
    \cup {Region(Swap, 2), [Region(Swap, 2) EXCEPT !.define = TRUE]} \cup Wrong

\* x := p.f; p.f = q.f; q.f = x; q.g = x; return p, q
MCTwice ==
    {Region(<<let("x", F("p", "f")), asg(F("p", "f"), F("q", "f")), asg(F("q", "f"), V("x")),
              asg(F("q", "g"), V("x")), return(<<V("p"), V("q")>>)>>, 2)}
============================================================================
