------------------------------ MODULE Emission ------------------------------
(***************************************************************************)
(* The emitter (emit.go) turns a checked function into plain Go.  Behind   *)
(* each statement that gives a value away it inserts assignments of nil to *)
(* the places that no longer own it.  This module takes a function, makes  *)
(* the insertions and then runs the emitted function, with what the source *)
(* function gives away recorded next to what the emitted one really holds. *)
(*                                                                         *)
(* A function is a record:                                                 *)
(*   stmts      its statements, blocks and function literals left out      *)
(*   first      the one it starts with                                     *)
(*   kind       "send", "assign" (declarations too), "swap", "restore",    *)
(*              "return", "expr" or "compound" (if, for, switch, ...)      *)
(*   around     the compound statements around each statement              *)
(*   header     the statements inside the header of a compound one         *)
(*   calls      the \iso arguments of the calls, and the operands of       *)
(*              \freeze, in the expressions of the statement itself        *)
(*   sends      the value of a consuming send                              *)
(*   moves      source and destination of assigned places; the arguments   *)
(*              given to a restore block                                   *)
(*   writes     the places the statement assigns                           *)
(*   follow     the statements behind it on its last line                  *)
(*   closed     the statements with a brace behind them on that line       *)
(*   iso, transferable, projected   what the ownerstamps of places say     *)
(*   name, scope   of each variable                                        *)
(*   edges      the steps from a statement to the next one, with the       *)
(*              statements that come to their end on the way               *)
(*   gone       what the check of moves lets a statement find given away   *)
(***************************************************************************)
EXTENDS FiniteSets, Naturals

CONSTANTS Functions,    \* the functions to emit
          Roots, Fields

None == "none"
Place == [root : Roots, path : Fields \cup {""}]
Var(r) == [root |-> r, path |-> ""]
NoPlace == [root |-> "nil", path |-> ""]    \* a fresh value

ASSUME RootsAssumption == "nil" \notin Roots

VARIABLES fn, phase,
          inserted,   \* for each statement, the places set to nil behind it
          dropped,    \* the statements that ended up in a comment
          at,         \* the statement to run next
          holds,      \* the places that hold a value
          movedBy     \* the statement by which the source gave a place away

vars == <<fn, phase, inserted, dropped, at, holds, movedBy>>

---------------------------------------------------------------------------
(* The insertions (nilRootsForStatement).                                  *)

\* Mutant: an owner that is moved into one that is not \iso is set to nil too.
MoveSourcesOfAll(f, s) ==
    {m.src : m \in {n \in f.moves[s] : /\ n.src \in f.transferable /\ n.src.path = ""
                                        /\ n.dst.root # n.src.root}}

\* Whole variables that are moved into another variable's \iso place.
assignmentMoveSources(f, s) ==
    {m.src : m \in {n \in f.moves[s] : /\ n.src \in f.transferable /\ n.src.path = ""
                                        /\ n.dst.root # n.src.root /\ n.dst \in f.iso}}

\* Arguments of a restore block, unless the block gives the variable back.
restoreConsumedNilRoots(f, s) ==
    {m.src : m \in {n \in f.moves[s] : /\ n.src \in f.transferable /\ n.src.path = ""
                                        /\ n.src.root \notin {w.root : w \in f.writes[s]}}}

\* ast.Inspect sees the calls of the statements inside a statement as well.
Inside(f, s) == {s} \cup {t \in f.stmts : s \in f.around[t]}

CallsInside(f, s) == (UNION {f.calls[t] : t \in Inside(f, s)}) \cap f.transferable

StatementMoves(f, s) ==
    CASE f.kind[s] = "send"    -> f.sends[s]
      [] f.kind[s] = "assign"  -> assignmentMoveSources(f, s)
      [] f.kind[s] = "restore" -> restoreConsumedNilRoots(f, s)
      [] OTHER                 -> {}

\* Mutant: add takes the zero place as well.
NilRootsOfFresh(f, s) ==
    {p \in StatementMoves(f, s) \cup CallsInside(f, s) :
        f.kind[s] # "return" /\ p.root \notin f.projected}

\* Mutant: sends do not count.
NilRootsWithoutSends(f, s) ==
    {p \in (IF f.kind[s] = "send" THEN {} ELSE StatementMoves(f, s)) \cup CallsInside(f, s) :
        f.kind[s] # "return" /\ p.root \notin f.projected}

\* Mutant: the insertion of a send is repeated behind what encloses it.
NilRootsWithSends(f, s) ==
    {p \in (UNION {StatementMoves(f, t) \ {NoPlace} : t \in Inside(f, s)}) \cup CallsInside(f, s) :
        f.kind[s] # "return" /\ p.root \notin f.projected}

\* A variable with an \imm field that the function looks at is left alone.
nilRootsForStatement(f, s) ==
    {p \in (StatementMoves(f, s) \cup CallsInside(f, s)) \ {NoPlace} :
        f.kind[s] # "return" /\ p.root \notin f.projected}

---------------------------------------------------------------------------
(* The inserted text names a variable; which one that is depends on where  *)
(* the text stands.                                                        *)

Visible(f, s) == {r \in Roots : f.scope[r] = None \/ f.scope[r] \in f.around[s]}

placeName(f, p) == IF p = NoPlace THEN "<unknown>" ELSE f.name[p.root]

Depth(f, r) == IF f.scope[r] = None THEN 0 ELSE 1 + Cardinality(f.around[f.scope[r]])

Meant(f, s, p) ==
    {[p EXCEPT !.root = r] : r \in
        {v \in Visible(f, s) : /\ f.name[v] = placeName(f, p)
                                /\ \A u \in Visible(f, s) :
                                      f.name[u] = f.name[v] => Depth(f, u) <= Depth(f, v)}}

---------------------------------------------------------------------------
(* The functions that reach the emitter: Go accepts them, and so does the  *)
(* check of moves.                                                         *)

\* Only compound statements have others in them, and all but jumps out of a
\* compound statement end what they leave.
WellFormed(f) ==
    /\ f.first \in f.stmts /\ None \notin f.stmts
    /\ \A s \in f.stmts :
          /\ f.calls[s] \cup f.writes[s] \subseteq Place
          /\ f.sends[s] \cup {m.src : m \in f.moves[s]} \subseteq Place \cup {NoPlace}
          /\ f.follow[s] \subseteq f.stmts
          /\ f.around[s] \subseteq {t \in f.stmts \ {s} : f.kind[t] = "compound"}
    /\ \A e \in f.edges :
          /\ e.from \in f.stmts /\ e.to \in f.stmts \cup {None}
          /\ e.ends \subseteq {e.from} \cup f.around[e.from]
          /\ e.to # None /\ f.kind[e.from] # "compound" => e.from \in e.ends

\* Whatever a statement names is the variable its name means there.
Resolved(f) ==
    \A s \in f.stmts : \A p \in f.calls[s] \cup f.sends[s] \cup f.writes[s] \cup
                               UNION {{m.src, m.dst} : m \in f.moves[s]} :
        p # NoPlace => Meant(f, s, p) = {p}

\* One is gone when the other is: a variable and its field, or the same place.
Gone(p, m) ==
    \E q \in m \ {NoPlace} :
        q.root = p.root /\ (q.path = "" \/ p.path = "" \/ q.path = p.path)

Uses(f, s) == f.calls[s] \cup f.sends[s] \cup {m.src : m \in f.moves[s]}

GivenUp(f, s) ==
    f.calls[s] \cup f.sends[s] \cup
        (IF f.kind[s] = "swap" THEN {} ELSE {m.src : m \in f.moves[s]})

After(f, s, m) ==
    {p \in m \cup GivenUp(f, s) :
        \A w \in f.writes[s] : ~(w.root = p.root /\ w.path \in {"", p.path})}

\* On no path is a place used that was given away and not assigned since, and no
\* statement gives one place away twice.
Accepted(f) ==
    /\ \A s \in f.stmts : \A p \in Uses(f, s) : ~Gone(p, f.gone[s])
    /\ \A s \in f.stmts : \A p, q \in GivenUp(f, s) : p # q => ~Gone(p, {q})
    /\ \A e \in f.edges : e.to # None => After(f, e.from, f.gone[e.from]) \subseteq f.gone[e.to]

ASSUME FunctionsAssumption ==
    \A f \in Functions : WellFormed(f) /\ Resolved(f) /\ Accepted(f)

---------------------------------------------------------------------------
Init ==
    /\ fn \in Functions
    /\ phase = "checked"
    /\ inserted = [s \in fn.stmts |-> {}]
    /\ dropped = {}
    /\ at = fn.first
    /\ holds = Place
    /\ movedBy = [p \in Place |-> None]

Nils == [s \in fn.stmts |-> nilRootsForStatement(fn, s)]

\* The insertion ends with a line comment.  What follows on the line becomes
\* part of it; without a brace, or inside a header, the text is not Go and
\* format.Source refuses it.
Malformed(nils) ==
    \E s \in fn.stmts : nils[s] # {} /\ s \in fn.header \cup fn.closed

\* buildEmitSource.
Emit ==
    /\ phase = "checked" /\ ~Malformed(Nils)
    /\ inserted' = Nils
    /\ dropped' = UNION {fn.follow[s] : s \in {t \in fn.stmts : Nils[t] # {}}}
    /\ phase' = IF \A s \in fn.stmts : \A p \in Nils[s] : Meant(fn, s, p) # {}
                THEN "run" ELSE "undeclared"
    /\ UNCHANGED <<fn, at, holds, movedBy>>

Refuse ==
    /\ phase = "checked" /\ Malformed(Nils)
    /\ phase' = "refused"
    /\ UNCHANGED <<fn, inserted, dropped, at, holds, movedBy>>

---------------------------------------------------------------------------
(* The emitted function runs.                                              *)

\* What the statement itself gives away: the value of a send, the arguments of
\* its calls, the sources of its moves.
GivenAway(s) == StatementMoves(fn, s) \cup (fn.calls[s] \cap fn.transferable)

\* Writing a variable renews its fields.
Renewed(s) ==
    {p \in Place : \E w \in fn.writes[s] : w.root = p.root /\ w.path \in {"", p.path}}

\* The assignments of nil behind the statements that end; one to a field of a
\* variable that is nil fails.  They are sorted, a variable before its fields.
Emptied(ended) == UNION {UNION {Meant(fn, s, p) : p \in inserted[s]} : s \in ended}

Fails(full, ended) ==
    \E p \in Emptied(ended) : p.path # "" /\ Var(p.root) \notin full \ Emptied(ended)

\* One statement (the header of a compound one), and the step to the next.
Run ==
    /\ phase = "run" /\ at # None
    /\ \E e \in {d \in fn.edges : d.from = at} :
          LET runs == at \notin dropped
              full == IF runs THEN holds \cup Renewed(at) ELSE holds
          IN /\ movedBy' = [p \in Place |->
                   IF ~runs THEN movedBy[p]
                   ELSE IF p \in Renewed(at) THEN None
                   ELSE IF p \in GivenAway(at) THEN at ELSE movedBy[p]]
             /\ holds' = full \ Emptied(e.ends)
             /\ phase' = IF Fails(full, e.ends) THEN "failed" ELSE "run"
             /\ at' = e.to
    /\ UNCHANGED <<fn, inserted, dropped>>

Return ==
    /\ phase = "run" /\ at = None
    /\ phase' = "returned"
    /\ UNCHANGED <<fn, inserted, dropped, at, holds, movedBy>>

Next == Emit \/ Refuse \/ Run \/ Return

Spec == Init /\ [][Next]_vars
---------------------------------------------------------------------------
(* What emission promises.                                                 *)

\* The emitter only ever takes values from places of the function.
TypeOK ==
    /\ fn.first \in fn.stmts
    /\ phase \in {"checked", "refused", "undeclared", "run", "failed", "returned"}
    /\ inserted \in [fn.stmts -> SUBSET Place] /\ dropped \subseteq fn.stmts
    /\ at \in fn.stmts \cup {None}
    /\ holds \subseteq Place
    /\ movedBy \in [Place -> fn.stmts \cup {None}]

\* Every way out of a statement comes past its end; a `continue`, a `goto` or a
\* `break` of an outer loop leaves the statements in between without it.
LeftAtEnd(s) ==
    \A e \in fn.edges :
        e.from \in Inside(fn, s) /\ e.to \notin Inside(fn, s) \cup {None} => s \in e.ends

\* Control has left the statement that gave the place away.
HasLeft(p) ==
    /\ movedBy[p] # None /\ fn.kind[movedBy[p]] # "return"
    /\ at # None /\ at # movedBy[p] /\ movedBy[p] \notin fn.around[at]

\* "The transpiler emits x = nil immediately after" a transfer (gown-spec.md:206):
\* once control has left the statement that gave a variable away, the variable
\* is empty until it is assigned again, on every path through branches and
\* loops; the exceptions are a variable with an immutable field in use
\* (collectNilSuppressedImmutableProjectionRoots) and a compound statement whose
\* condition gave it away and whose body jumps past its end.
MovedIsNil ==
    phase = "run" =>
        \A p \in Place :
            HasLeft(p) /\ p.root \notin fn.projected /\ LeftAtEnd(movedBy[p]) => p \notin holds

\* The same without the exception for jumps, which the code does not keep.
MovedIsEmpty ==
    phase = "run" =>
        \A p \in Place : HasLeft(p) /\ p.root \notin fn.projected => p \notin holds

\* A place that was not given away on this path.
NotGiven(p) == movedBy[p] = None /\ (p.path # "" => movedBy[Var(p.root)] = None)

\* Where the emitter can go wrong: a compound statement has the call that gives
\* a value away inside it, a statement gives a value away and assigns the same
\* variable (x = Pass(x), or y, x = x, \new(T)), or a statement that moves or
\* assigns stands on one line behind another that moves, and becomes a comment.
NestedCall(s)  == fn.kind[s] = "compound" /\ CallsInside(fn, s) # {}
RefilledArg(s) == Renewed(s) \cap nilRootsForStatement(fn, s) # {}
Lost(s)        == s \in dropped /\ inserted[s] \cup fn.writes[s] # {}

\* Everywhere else (sends, moves and restores at any depth, calls outside of
\* branches and loops, shadowed names) only what was given away is emptied, the
\* emitted function does not fail and each inserted name is declared where it
\* stands (collectMoveNilEmitEdits).
StraysExplained ==
    (\/ phase \in {"failed", "undeclared"}
     \/ phase = "run" /\ \E p \in Place : NotGiven(p) /\ p \notin holds)
    => \E s \in fn.stmts : NestedCall(s) \/ RefilledArg(s) \/ Lost(s)

\* "If no correct insertion point exists, reject with a clear checker error
\* rather than emitting unsound Go" (docs/ssa_detailed_impl_plan.md:765): the
\* emitted function never empties a place that this path has not given away.
NilOnlyWhenMoved == phase = "run" => \A p \in Place : NotGiven(p) => p \in holds
=============================================================================
