---------------------------- MODULE MCClosures ----------------------------
(***************************************************************************)
(* Functions for the closure-escape check: every choice of statements in   *)
(* and around one compound statement.  They are written as blocks in       *)
(* blocks, and numbered from the end.                                      *)
(***************************************************************************)
EXTENDS ClosureEscape

set(v, e)    == [op |-> "set", var |-> v, val |-> e]           \* v = e
multi(v)     == [op |-> "multi", var |-> v]                    \* v, err = f()
return(e)    == [op |-> "return", val |-> e]
store(e)     == [op |-> "store", val |-> e]                    \* s.f = e
pass(e)      == [op |-> "pass", val |-> e]                     \* untracked(e)
break        == [op |-> "break"]
continue     == [op |-> "continue"]

if(a, b)     == [op |-> "if", then |-> a, else |-> b]
for(a, p)    == [op |-> "for", body |-> a, post |-> p]
switch(a, b) == [op |-> "switch", one |-> a, two |-> b]
select(a, b) == [op |-> "select", one |-> a, two |-> b]
labeled(s)   == [op |-> "labeled", body |-> <<s>>]
block(a)     == [op |-> "block", body |-> a]

\* The statements of a block behind those in nodes, and the first of them.
Numbered(nodes, head) == [nodes |-> nodes, head |-> head]

RECURSIVE NumberBlock(_, _)
NumberBlock(stmts, nodes) ==
    IF stmts = <<>> THEN Numbered(nodes, 0) ELSE
    LET s    == Head(stmts)
        rest == NumberBlock(Tail(stmts), nodes)
        With(behind, fields) ==
            Numbered(Append(behind, fields @@ [op |-> s.op, next |-> rest.head]), Len(behind) + 1)
        Two(one, two, Fields(_, _)) ==
            LET a == NumberBlock(one, rest.nodes)
                b == NumberBlock(two, a.nodes)
            IN  With(b.nodes, Fields(a.head, b.head))
    IN  CASE s.op = "if"  -> Two(s.then, s.else, LAMBDA a, b : [then |-> a, else |-> b])
          [] s.op = "for" -> Two(s.body, s.post, LAMBDA a, b : [body |-> a, post |-> b])
          [] s.op \in {"switch", "select"} -> Two(s.one, s.two, LAMBDA a, b : [cases |-> {a, b}])
          [] s.op \in {"block", "labeled"} ->
                LET a == NumberBlock(s.body, rest.nodes) IN With(a.nodes, [body |-> a.head])
          [] OTHER -> With(rest.nodes, s)

Numbers(bodies) == {NumberBlock(b, <<>>).nodes : b \in bodies}

Sets == {set("g", "c"), set("g", "k"), set("h", "g")}

Ends == {return("g"), store("h"), pass("g")}

Uses == {store("g"), pass("h"), store("c")}

Inner ==
    {<<>>} \cup {<<s>> : s \in Sets \cup Uses}
    \cup {<<s, t>> : s \in Sets, t \in Sets \cup Uses}
    \cup {<<u, s>> : u \in Uses, s \in Sets}

Compounds ==
    {if(a, b) : a \in Inner, b \in {<<>>, <<set("g", "k")>>, <<set("h", "g")>>}}
    \cup {for(a, p) : a \in Inner, p \in {<<>>, <<set("g", "k")>>, <<set("h", "g")>>}}
    \cup {switch(a, b) : a \in Inner, b \in {<<>>, <<set("g", "c"), set("h", "g")>>}}
    \cup {block(a) : a \in Inner}

\* A branch inside a loop, with and without a jump.
Nested ==
    {for(<<if(<<s, t>>, <<>>), u>>, <<>>) :
        s \in Sets, t \in {set("h", "g"), break, continue, return("g")},
        u \in {set("g", "k"), store("g")}}
    \cup {for(<<switch(<<s, break>>, <<t>>)>>, <<>>) : s \in Sets, t \in Sets}

\* Statements that the walk does not look into.
Ignored ==
    {select(<<s>>, <<>>) : s \in Sets} \cup {labeled(for(<<s>>, <<>>)) : s \in Sets}
    \cup {labeled(block(<<s>>)) : s \in Sets} \cup {multi("g")}

MCFunctions ==
    Numbers({<<s, t, c, e>> :
                s \in Sets, t \in Sets, c \in Compounds \cup Nested \cup Ignored, e \in Ends})

\* for { s.f = g; g = func() { use(b) } }
MCLoopFunctions ==
    Numbers({<<set("g", "k"), for(<<store("g"), set("g", "c")>>, <<>>), return("k")>>})
===========================================================================
