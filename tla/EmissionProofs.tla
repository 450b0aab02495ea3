--------------------------- MODULE EmissionProofs ---------------------------
(***************************************************************************)
(* What the emitter promises of every function that reaches it.            *)
(*                                                                         *)
(* The insertions are made once, so that the argument is about the run: a  *)
(* place can only hold a value that the source gave away while control is  *)
(* at the statement that gave it away or inside of it, because the step    *)
(* out of a statement empties what the statement gives away, under the     *)
(* name that means the same place there (Resolved).  In the other          *)
(* direction, a simple statement empties only what it has itself given     *)
(* away, and the check of moves knows of everything that is gone (GoneInv),*)
(* which is why x is never nil when x.f = nil runs.                        *)
(***************************************************************************)
EXTENDS Emission, TLAPS

\* What is inserted when the function runs is what nilRootsForStatement says.
InsertedInv ==
    /\ phase = "run" => inserted = Nils
    /\ phase = "checked" => dropped = {}

\* A statement that is on record for a place gives it away.
GivenInv == \A p \in Place : \A s \in fn.stmts : movedBy[p] = s => p \in GivenAway(s)

\* A place is empty once control is outside of the statement that gave it away.
EmptyInv ==
    \A p \in Place :
        (/\ movedBy[p] # None /\ fn.kind[movedBy[p]] # "return"
         /\ p.root \notin fn.projected /\ LeftAtEnd(movedBy[p])
         /\ at # None /\ at \notin Inside(fn, movedBy[p]))
        => p \notin holds

\* The check of moves knows of everything that was given away.
GoneInv == \A p \in Place : movedBy[p] # None /\ at # None => p \in fn.gone[at]

\* The places that are still owned hold a value.
HeldInv == \A p \in Place : NotGiven(p) => p \in holds

\* The function has none of the exceptions.
Plainly == \A s \in fn.stmts : ~NestedCall(s) /\ ~RefilledArg(s) /\ ~Lost(s)

CleanInv == Plainly => phase \notin {"failed", "undeclared"} /\ GoneInv /\ HeldInv

---------------------------------------------------------------------------
(* Facts about the operators.                                              *)

\* A place has the name of a variable; the fresh value has none.
LEMMA NotFresh ==
    ASSUME NEW p \in Place
    PROVE  p # NoPlace
<1>1. p.root \in Roots
  BY DEF Place
<1>2. NoPlace.root = "nil"
  BY DEF NoPlace
<1> QED
  BY <1>1, <1>2, RootsAssumption

\* The insertions are places of the function: the fresh value is left out.
LEMMA NilsArePlaces ==
    ASSUME NEW f \in Functions, NEW s \in f.stmts
    PROVE  nilRootsForStatement(f, s) \subseteq Place \ {NoPlace}
<1>1. WellFormed(f)
  BY FunctionsAssumption
<1>2. StatementMoves(f, s) \subseteq Place \cup {NoPlace}
  <2>1. /\ f.sends[s] \subseteq Place \cup {NoPlace}
        /\ {m.src : m \in f.moves[s]} \subseteq Place \cup {NoPlace}
    BY <1>1 DEF WellFormed
  <2>2. /\ assignmentMoveSources(f, s) \subseteq {m.src : m \in f.moves[s]}
        /\ restoreConsumedNilRoots(f, s) \subseteq {m.src : m \in f.moves[s]}
    BY DEF assignmentMoveSources, restoreConsumedNilRoots
  <2> QED
    BY <2>1, <2>2 DEF StatementMoves
<1>3. CallsInside(f, s) \subseteq Place
  BY <1>1 DEF CallsInside, Inside, WellFormed
<1> QED
  BY <1>2, <1>3 DEF nilRootsForStatement

\* What a statement gives away itself is inserted behind it, outside of returns
\* and unless the variable is left alone.
LEMMA GivenAreInserted ==
    ASSUME NEW p \in Place, NEW s, p \in GivenAway(s),
           fn.kind[s] # "return", p.root \notin fn.projected
    PROVE  p \in nilRootsForStatement(fn, s)
<1>1. p # NoPlace
  BY NotFresh
<1>2. fn.calls[s] \cap fn.transferable \subseteq CallsInside(fn, s)
  <2>1. s \in Inside(fn, s)
    BY DEF Inside
  <2>2. fn.calls[s] \subseteq UNION {fn.calls[t] : t \in Inside(fn, s)}
    <3> DEFINE Calls == {fn.calls[t] : t \in Inside(fn, s)}
    <3>1. fn.calls[s] \in Calls
      BY <2>1
    <3>2. \A C \in Calls : C \subseteq UNION Calls
      OBVIOUS
    <3> HIDE DEF Calls
    <3>3. fn.calls[s] \subseteq UNION Calls
      BY <3>1, <3>2
    <3> QED
      BY <3>3 DEF Calls
  <2> QED
    BY <2>2 DEF CallsInside
<1> QED
  BY <1>1, <1>2 DEF GivenAway, nilRootsForStatement

\* A name in a statement means there what it means in the source.
LEMMA GivenAreMeant ==
    ASSUME NEW p \in Place, fn \in Functions, NEW s \in fn.stmts, p \in GivenAway(s)
    PROVE  Meant(fn, s, p) = {p}
<1>1. Resolved(fn)
  BY FunctionsAssumption
<1>2. p # NoPlace
  BY NotFresh
<1>3. p \in fn.calls[s] \cup fn.sends[s] \cup UNION {{m.src, m.dst} : m \in fn.moves[s]}
  <2>1. CASE p \in fn.calls[s]
    BY <2>1
  <2>2. CASE p \in StatementMoves(fn, s)
    <3>1. p \in fn.sends[s] \/ \E m \in fn.moves[s] : p = m.src
      BY <2>2 DEF StatementMoves, assignmentMoveSources, restoreConsumedNilRoots
    <3>2. ASSUME NEW m \in fn.moves[s], p = m.src
          PROVE  p \in UNION {{n.src, n.dst} : n \in fn.moves[s]}
      <4>1. {m.src, m.dst} \in {{n.src, n.dst} : n \in fn.moves[s]}
        OBVIOUS
      <4>2. p \in {m.src, m.dst}
        BY <3>2
      <4> QED
        BY <4>1, <4>2
    <3> QED
      BY <3>1, <3>2
  <2> QED
    BY <2>1, <2>2 DEF GivenAway
<1> QED
  BY <1>1, <1>2, <1>3 DEF Resolved

---------------------------------------------------------------------------
(* Types.                                                                  *)

\* The function is one that reaches the emitter.
TInv == fn \in Functions /\ TypeOK

\* Every run starts well-typed.
LEMMA TypeInit == Init => TInv
<1> SUFFICES ASSUME Init PROVE TInv
  OBVIOUS
<1>1. WellFormed(fn)
  BY FunctionsAssumption DEF Init
<1> QED
  BY <1>1 DEF Init, TInv, TypeOK, WellFormed

\* Insertion, refusal, each step of the run and its end keep the types.
LEMMA TypeStep == TInv /\ [Next]_vars => TInv'
<1> SUFFICES ASSUME TInv, [Next]_vars PROVE TInv'
  OBVIOUS
<1>1. WellFormed(fn)
  BY FunctionsAssumption DEF TInv
<1>2. CASE Emit
  <2>1. \A s \in fn.stmts : nilRootsForStatement(fn, s) \in SUBSET Place
    BY NilsArePlaces DEF TInv
  <2>2. inserted' \in [fn.stmts -> SUBSET Place]
    BY <1>2, <2>1 DEF Emit, Nils
  <2>3. dropped' \subseteq fn.stmts
    BY <1>1, <1>2 DEF Emit, WellFormed
  <2> QED
    BY <1>2, <2>2, <2>3 DEF Emit, TInv, TypeOK
<1>3. CASE Refuse
  BY <1>3 DEF Refuse, TInv, TypeOK
<1>4. CASE Run
  <2>1. PICK e \in {d \in fn.edges : d.from = at} :
           /\ movedBy' = [p \in Place |->
                 IF at \in dropped THEN movedBy[p]
                 ELSE IF p \in Renewed(at) THEN None
                 ELSE IF p \in GivenAway(at) THEN at ELSE movedBy[p]]
           /\ holds' \subseteq holds \cup Renewed(at)
           /\ phase' \in {"run", "failed"}
           /\ at' = e.to
    BY <1>4 DEF Run
  <2>2. at' \in fn.stmts \cup {None} /\ at \in fn.stmts
    BY <1>1, <1>4, <2>1 DEF WellFormed, Run, TInv, TypeOK
  <2>3. movedBy' \in [Place -> fn.stmts \cup {None}]
    BY <2>1, <2>2 DEF TInv, TypeOK
  <2>4. holds' \subseteq Place
    BY <2>1 DEF TInv, TypeOK, Renewed
  <2>5. UNCHANGED <<fn, inserted, dropped>>
    BY <1>4 DEF Run
  <2> QED
    BY <2>1, <2>2, <2>3, <2>4, <2>5 DEF TInv, TypeOK
<1>5. CASE Return
  BY <1>5 DEF Return, TInv, TypeOK
<1>6. CASE UNCHANGED vars
  BY <1>6 DEF vars, TInv, TypeOK
<1> QED
  BY <1>2, <1>3, <1>4, <1>5, <1>6 DEF Next

\* The emitter takes values from places of the function only, and the run stays
\* among its statements.
THEOREM TypesHold == Spec => []TypeOK
<1>1. Spec => []TInv
  BY TypeInit, TypeStep, PTL DEF Spec
<1>2. TInv => TypeOK
  BY DEF TInv
<1> QED
  BY <1>1, <1>2, PTL

---------------------------------------------------------------------------
(* The steps of the run.                                                   *)

\* What one step does to the places.
LEMMA RunStep ==
    ASSUME TInv, Run
    PROVE  /\ at \in fn.stmts /\ at # None /\ UNCHANGED <<fn, inserted, dropped>>
           /\ \E e \in fn.edges :
                /\ e.from = at /\ at' = e.to
                /\ movedBy' = [p \in Place |->
                      IF at \in dropped THEN movedBy[p]
                      ELSE IF p \in Renewed(at) THEN None
                      ELSE IF p \in GivenAway(at) THEN at ELSE movedBy[p]]
                /\ holds' = (IF at \in dropped THEN holds ELSE holds \cup Renewed(at))
                              \ Emptied(e.ends)
                /\ phase' = IF Fails(IF at \in dropped THEN holds ELSE holds \cup Renewed(at),
                                     e.ends)
                            THEN "failed" ELSE "run"
<1>1. at \in fn.stmts
  BY DEF Run, TInv, TypeOK
<1>2. PICK e \in fn.edges :
         /\ e.from = at /\ at' = e.to
         /\ movedBy' = [p \in Place |->
               IF ~(at \notin dropped) THEN movedBy[p]
               ELSE IF p \in Renewed(at) THEN None
               ELSE IF p \in GivenAway(at) THEN at ELSE movedBy[p]]
         /\ holds' = (IF at \notin dropped THEN holds \cup Renewed(at) ELSE holds)
                       \ Emptied(e.ends)
         /\ phase' = IF Fails(IF at \notin dropped THEN holds \cup Renewed(at) ELSE holds, e.ends)
                     THEN "failed" ELSE "run"
  BY Zenon DEF Run
<1>3. CASE at \in dropped
  BY <1>1, <1>2, <1>3 DEF Run
<1>4. CASE at \notin dropped
  BY <1>1, <1>2, <1>4 DEF Run
<1> QED
  BY <1>3, <1>4

\* What is inserted behind a statement that ends is emptied.
LEMMA EndEmpties ==
    ASSUME NEW ended, NEW s \in ended, NEW p \in inserted[s], Meant(fn, s, p) = {p}
    PROVE  p \in Emptied(ended)
<1> DEFINE Behind(t) == UNION {Meant(fn, t, q) : q \in inserted[t]}
<1>1. p \in Behind(s)
  <2> DEFINE Names == {Meant(fn, s, q) : q \in inserted[s]}
  <2>1. {p} \in Names
    OBVIOUS
  <2> HIDE DEF Names
  <2>2. p \in UNION Names
    BY <2>1
  <2> QED
    BY <2>2 DEF Names
<1> HIDE DEF Behind
<1>2. p \in UNION {Behind(t) : t \in ended}
  BY <1>1
<1> QED
  BY <1>2 DEF Emptied, Behind

---------------------------------------------------------------------------
(* What was given away is empty.                                           *)

\* A place that was given away is empty when a run starts and when nothing runs.
LEMMA EmptyInit == Init => InsertedInv /\ GivenInv /\ EmptyInv
<1> SUFFICES ASSUME Init PROVE InsertedInv /\ GivenInv /\ EmptyInv
  OBVIOUS
<1>1. None \notin fn.stmts
  BY FunctionsAssumption DEF Init, WellFormed
<1> QED
  BY <1>1 DEF Init, InsertedInv, GivenInv, EmptyInv

\* The insertions stay as they were made, and every record names a statement
\* that gives the place away.
LEMMA GivenStep == TInv /\ InsertedInv /\ GivenInv /\ [Next]_vars => (InsertedInv /\ GivenInv)'
<1> SUFFICES ASSUME TInv, InsertedInv, GivenInv, [Next]_vars PROVE (InsertedInv /\ GivenInv)'
  OBVIOUS
<1>1. CASE Emit
  <2>1. InsertedInv'
    BY <1>1 DEF Emit, InsertedInv, Nils
  <2>2. GivenInv'
    BY <1>1 DEF Emit, GivenInv, GivenAway, StatementMoves
  <2> QED
    BY <2>1, <2>2
<1>2. CASE Refuse
  <2>1. InsertedInv'
    BY <1>2 DEF Refuse, InsertedInv, Nils
  <2>2. GivenInv'
    BY <1>2 DEF Refuse, GivenInv, GivenAway, StatementMoves
  <2> QED
    BY <2>1, <2>2
<1>3. CASE Run
  <2>1. InsertedInv'
    <3>1. UNCHANGED <<fn, inserted, dropped>> /\ phase = "run" /\ phase' # "checked"
      BY <1>3, RunStep DEF Run
    <3> QED
      BY <3>1 DEF InsertedInv, Nils
  <2>2. GivenInv'
    <3> SUFFICES ASSUME NEW p \in Place, NEW s \in fn'.stmts, movedBy'[p] = s
                 PROVE  p \in GivenAway(s)'
      BY DEF GivenInv
    <3>1. fn' = fn
      BY <1>3, RunStep
    <3>2. movedBy[p] = s \/ p \in GivenAway(s)
      BY <1>3, RunStep, <3>1, FunctionsAssumption DEF TInv, WellFormed
    <3>3. p \in GivenAway(s)
      BY <3>1, <3>2 DEF GivenInv
    <3> QED
      BY <3>1, <3>3 DEF GivenAway, StatementMoves
  <2> QED
    BY <2>1, <2>2
<1>4. CASE Return
  <2>1. InsertedInv'
    BY <1>4 DEF Return, InsertedInv, Nils
  <2>2. GivenInv'
    BY <1>4 DEF Return, GivenInv, GivenAway, StatementMoves
  <2> QED
    BY <2>1, <2>2
<1>5. CASE UNCHANGED vars
  <2>1. InsertedInv'
    BY <1>5 DEF vars, InsertedInv, Nils
  <2>2. GivenInv'
    BY <1>5 DEF vars, GivenInv, GivenAway, StatementMoves
  <2> QED
    BY <2>1, <2>2
<1> QED
  BY <1>1, <1>2, <1>3, <1>4, <1>5 DEF Next

\* Control leaves a statement past its end, where what it gave away is emptied;
\* outside of it nothing but an assignment fills the place again.
LEMMA EmptyRun ==
    ASSUME TInv, InsertedInv, GivenInv, EmptyInv, Run
    PROVE  EmptyInv'
<1>1. PICK e \in fn.edges :
         /\ at \in fn.stmts /\ at # None /\ UNCHANGED <<fn, inserted, dropped>>
         /\ e.from = at /\ at' = e.to
         /\ movedBy' = [p \in Place |->
               IF at \in dropped THEN movedBy[p]
               ELSE IF p \in Renewed(at) THEN None
               ELSE IF p \in GivenAway(at) THEN at ELSE movedBy[p]]
         /\ holds' = (IF at \in dropped THEN holds ELSE holds \cup Renewed(at))
                       \ Emptied(e.ends)
  BY RunStep
<1> SUFFICES ASSUME NEW p \in Place, NEW s, s = movedBy'[p],
                    s # None, fn.kind[s] # "return",
                    p.root \notin fn.projected, LeftAtEnd(s),
                    at' # None, at' \notin Inside(fn, s)
             PROVE  p \notin holds'
  BY <1>1 DEF EmptyInv, LeftAtEnd, Inside
<1>2. \/ s = movedBy[p] /\ (at \in dropped \/ p \notin Renewed(at))
      \/ s = at /\ p \notin Renewed(at) /\ p \in GivenAway(at)
  BY <1>1
<1>3. s \in fn.stmts /\ p \in GivenAway(s)
  BY <1>1, <1>2 DEF TInv, TypeOK, GivenInv
<1>4. CASE at \in Inside(fn, s)
  <2>1. s \in e.ends
    BY <1>1, <1>4 DEF LeftAtEnd
  <2>2. p \in inserted[s]
    <3>1. p \in nilRootsForStatement(fn, s)
      BY <1>3, GivenAreInserted
    <3>2. inserted = Nils
      BY DEF InsertedInv, Run
    <3> QED
      BY <1>3, <3>1, <3>2 DEF Nils
  <2>3. Meant(fn, s, p) = {p}
    BY <1>3, GivenAreMeant DEF TInv
  <2>4. p \in Emptied(e.ends)
    BY <2>1, <2>2, <2>3, EndEmpties
  <2> QED
    BY <1>1, <2>4
<1>5. CASE at \notin Inside(fn, s)
  <2>1. s # at
    BY <1>1, <1>5 DEF Inside
  <2>2. s = movedBy[p] /\ (at \in dropped \/ p \notin Renewed(at))
    BY <1>2, <2>1
  <2>3. p \notin holds
    BY <1>1, <1>5, <2>2 DEF EmptyInv
  <2> QED
    BY <1>1, <2>2, <2>3
<1> QED
  BY <1>4, <1>5

\* The other steps leave places, records and control alone.
LEMMA EmptyStep ==
    TInv /\ InsertedInv /\ GivenInv /\ EmptyInv /\ [Next]_vars => EmptyInv'
<1> SUFFICES ASSUME TInv, InsertedInv, GivenInv, EmptyInv, [Next]_vars PROVE EmptyInv'
  OBVIOUS
<1>1. CASE Run
  BY <1>1, EmptyRun
<1>2. CASE UNCHANGED <<fn, at, holds, movedBy>>
  BY <1>2 DEF EmptyInv, LeftAtEnd, Inside
<1>3. Emit \/ Refuse \/ Return \/ UNCHANGED vars => UNCHANGED <<fn, at, holds, movedBy>>
  BY DEF Emit, Refuse, Return, vars
<1> QED
  BY <1>1, <1>2, <1>3 DEF Next

\* Once control has left the statement that gave a place away, the emitted
\* function finds it empty until it is assigned again: on every path of every
\* function, with the exceptions that the property names.
THEOREM GivenIsEmpty == Spec => []MovedIsNil
<1>1. Spec => [](TInv /\ InsertedInv /\ GivenInv /\ EmptyInv)
  BY TypeInit, TypeStep, EmptyInit, GivenStep, EmptyStep, PTL DEF Spec
<1>2. TInv /\ EmptyInv => MovedIsNil
  <2> SUFFICES ASSUME TInv, EmptyInv, NEW p \in Place,
                      HasLeft(p), p.root \notin fn.projected, LeftAtEnd(movedBy[p])
               PROVE  p \notin holds
    BY DEF MovedIsNil
  <2>1. at \notin Inside(fn, movedBy[p])
    BY DEF HasLeft, Inside
  <2> QED
    BY <2>1 DEF EmptyInv, HasLeft
<1> QED
  BY <1>1, <1>2, PTL

---------------------------------------------------------------------------
(* Nothing else is emptied.                                                *)

\* A statement of a plain function empties what it gives away itself, and
\* nothing behind a compound one.
LEMMA PlainNils ==
    ASSUME TInv, Plainly, NEW s \in fn.stmts, NEW p \in nilRootsForStatement(fn, s)
    PROVE  p \in GivenAway(s) /\ fn.kind[s] # "compound" /\ p \in Place
<1>1. WellFormed(fn)
  BY FunctionsAssumption DEF TInv
<1>2. p \in StatementMoves(fn, s) \/ p \in CallsInside(fn, s)
  BY DEF nilRootsForStatement
<1>3. fn.kind[s] # "compound"
  <2> SUFFICES ASSUME fn.kind[s] = "compound" PROVE FALSE
    OBVIOUS
  <2>1. StatementMoves(fn, s) = {}
    BY DEF StatementMoves
  <2> QED
    BY <1>2, <2>1 DEF Plainly, NestedCall
<1>4. Inside(fn, s) = {s}
  BY <1>1, <1>3 DEF Inside, WellFormed
<1>5. CallsInside(fn, s) = fn.calls[s] \cap fn.transferable
  BY <1>4 DEF CallsInside
<1>6. p \in Place
  BY NilsArePlaces DEF TInv
<1> QED
  BY <1>2, <1>3, <1>5, <1>6 DEF GivenAway

\* What a step of a plain function empties, its statement has just given away.
LEMMA PlainEmptied ==
    ASSUME TInv, InsertedInv, Plainly, phase = "run", at \in fn.stmts,
           NEW e \in fn.edges, e.from = at, NEW p \in Emptied(e.ends)
    PROVE  at \notin dropped /\ p \in GivenAway(at) /\ p \notin Renewed(at) /\ p \in Place
<1>1. WellFormed(fn)
  BY FunctionsAssumption DEF TInv
<1>2. PICK s \in e.ends : \E q \in inserted[s] : p \in Meant(fn, s, q)
  BY DEF Emptied
<1>3. PICK q \in inserted[s] : p \in Meant(fn, s, q)
  BY <1>2
<1>4. s \in fn.stmts /\ (s = at \/ fn.kind[s] = "compound")
  BY <1>1 DEF WellFormed
<1>5. q \in nilRootsForStatement(fn, s)
  BY <1>4 DEF InsertedInv, Nils
<1>6. q \in GivenAway(s) /\ s = at /\ q \in Place
  BY <1>4, <1>5, PlainNils
<1>7. Meant(fn, s, q) = {q}
  BY <1>4, <1>6, GivenAreMeant DEF TInv
<1>8. p = q
  BY <1>3, <1>7
<1>9. at \notin dropped
  BY <1>3, <1>6 DEF Plainly, Lost
<1>10. q \notin Renewed(at)
  BY <1>5, <1>6 DEF Plainly, RefilledArg
<1> QED
  BY <1>6, <1>8, <1>9, <1>10

\* What a statement gives away counts as given up for the check of moves.
LEMMA GivenAreGivenUp ==
    ASSUME NEW s, NEW p \in GivenAway(s)
    PROVE  p \in GivenUp(fn, s) /\ p \in Uses(fn, s)
<1>1. CASE p \in fn.calls[s]
  BY <1>1 DEF GivenUp, Uses
<1>2. CASE p \in StatementMoves(fn, s)
  <2>1. \/ p \in fn.sends[s]
        \/ fn.kind[s] # "swap" /\ \E m \in fn.moves[s] : p = m.src
    BY <1>2 DEF StatementMoves, assignmentMoveSources, restoreConsumedNilRoots
  <2> QED
    BY <2>1 DEF GivenUp, Uses
<1> QED
  BY <1>1, <1>2 DEF GivenAway

\* The variable of a field is a place, and has no field.
LEMMA VarIsPlace ==
    ASSUME NEW p \in Place
    PROVE  /\ Var(p.root) \in Place /\ Var(p.root).path = "" /\ Var(p.root).root = p.root
           /\ Var(Var(p.root).root) = Var(p.root)
BY DEF Place, Var

\* A step leaves the exceptions of a function as they are.
LEMMA PlainStays ==
    ASSUME TInv, InsertedInv, [Next]_vars, Plainly'
    PROVE  Plainly
<1>1. fn' = fn
  BY DEF Next, Emit, Refuse, Run, Return, vars
<1>2. CASE Emit
  BY <1>1, <1>2 DEF Emit, InsertedInv, Plainly, NestedCall, RefilledArg, Lost, Renewed
<1>3. CASE UNCHANGED <<dropped, inserted>>
  BY <1>1, <1>3 DEF Plainly, NestedCall, RefilledArg, Lost, Renewed
<1>4. Refuse \/ Run \/ Return \/ UNCHANGED vars => UNCHANGED <<dropped, inserted>>
  BY DEF Refuse, Run, Return, vars
<1> QED
  BY <1>2, <1>3, <1>4 DEF Next

\* A step of a plain function: what is given away the check of moves knows of,
\* what is owned holds a value, and no field of an empty variable is emptied.
LEMMA CleanRun ==
    ASSUME TInv, InsertedInv, Plainly, GoneInv, HeldInv, Run
    PROVE  phase' = "run" /\ GoneInv' /\ HeldInv'
<1> DEFINE full == IF at \in dropped THEN holds ELSE holds \cup Renewed(at)
<1>1. PICK e \in fn.edges :
         /\ at \in fn.stmts /\ at # None /\ UNCHANGED <<fn, inserted, dropped>>
         /\ e.from = at /\ at' = e.to
         /\ movedBy' = [p \in Place |->
               IF at \in dropped THEN movedBy[p]
               ELSE IF p \in Renewed(at) THEN None
               ELSE IF p \in GivenAway(at) THEN at ELSE movedBy[p]]
         /\ holds' = full \ Emptied(e.ends)
         /\ phase' = IF Fails(full, e.ends) THEN "failed" ELSE "run"
  BY RunStep
<1>2. \A p \in Emptied(e.ends) :
         at \notin dropped /\ p \in GivenAway(at) /\ p \notin Renewed(at) /\ p \in Place
  BY <1>1, PlainEmptied DEF Run
<1>3. Accepted(fn)
  BY FunctionsAssumption DEF TInv
<1>4. GoneInv'
  <2> SUFFICES ASSUME NEW p \in Place, movedBy'[p] # None, at' # None
               PROVE  p \in fn.gone[at']
    BY <1>1 DEF GoneInv
  <2>1. After(fn, at, fn.gone[at]) \subseteq fn.gone[at']
    BY <1>1, <1>3 DEF Accepted
  <2>2. p \in fn.gone[at] \cup GivenUp(fn, at)
    BY <1>1, GivenAreGivenUp DEF GoneInv
  <2>3. \A w \in fn.writes[at] : ~(w.root = p.root /\ w.path \in {"", p.path})
    <3>1. CASE at \in dropped
      BY <1>1, <3>1 DEF Plainly, Lost
    <3>2. CASE at \notin dropped
      BY <1>1, <3>2 DEF Renewed
    <3> QED
      BY <3>1, <3>2
  <2>4. p \in After(fn, at, fn.gone[at])
    BY <2>2, <2>3 DEF After
  <2> QED
    BY <2>1, <2>4
<1>5. HeldInv'
  <2> SUFFICES ASSUME NEW p \in Place, NotGiven(p)' PROVE p \in holds'
    BY DEF HeldInv
  <2>1. movedBy'[p] = None /\ (p.path # "" => movedBy'[Var(p.root)] = None)
    BY DEF NotGiven, Var
  <2>2. p \notin Emptied(e.ends)
    <3> SUFFICES ASSUME p \in Emptied(e.ends) PROVE FALSE
      OBVIOUS
    <3> QED
      BY <1>1, <1>2, <2>1
  <2>3. p \in full
    <3>1. CASE at \notin dropped /\ p \in Renewed(at)
      BY <3>1
    <3>2. CASE at \in dropped \/ p \notin Renewed(at)
      <4>1. movedBy[p] = None
        BY <1>1, <2>1, <3>2
      <4>2. p.path # "" => movedBy[Var(p.root)] = None
        <5> SUFFICES ASSUME p.path # "" PROVE movedBy[Var(p.root)] = None
          OBVIOUS
        <5>1. at \in dropped \/ Var(p.root) \notin Renewed(at)
          BY <3>2, VarIsPlace DEF Renewed
        <5> QED
          BY <1>1, <2>1, <5>1, VarIsPlace
      <4>3. p \in holds
        BY <4>1, <4>2 DEF HeldInv, NotGiven
      <4> QED
        BY <4>3
    <3> QED
      BY <3>1, <3>2
  <2> HIDE DEF full
  <2> QED
    BY <1>1, <2>2, <2>3
<1>6. ~Fails(full, e.ends)
  <2> SUFFICES ASSUME NEW p \in Emptied(e.ends), p.path # "",
                      Var(p.root) \notin full \ Emptied(e.ends)
               PROVE  FALSE
    BY DEF Fails
  <2> DEFINE v == Var(p.root)
  <2>1. p \in Place /\ p \in GivenAway(at)
    BY <1>2
  <2>2. v \in Place /\ v.path = "" /\ v.root = p.root /\ v # p /\ v # NoPlace
    BY <2>1, VarIsPlace, NotFresh
  <2> HIDE DEF v
  <2>3. ~Gone(p, fn.gone[at])
    BY <1>1, <1>3, <2>1, GivenAreGivenUp DEF Accepted
  <2>4. movedBy[v] = None
    <3> SUFFICES ASSUME movedBy[v] # None PROVE FALSE
      OBVIOUS
    <3>1. v \in fn.gone[at]
      BY <1>1, <2>2 DEF GoneInv
    <3> QED
      BY <2>2, <2>3, <3>1 DEF Gone
  <2>5. v \in full
    BY <2>2, <2>4 DEF HeldInv, NotGiven
  <2>6. v \in Emptied(e.ends)
    BY <2>5 DEF v
  <2>7. v \in GivenAway(at)
    BY <1>2, <2>6
  <2>8. ~Gone(p, {v})
    BY <1>1, <1>3, <2>1, <2>2, <2>7, GivenAreGivenUp DEF Accepted
  <2> QED
    BY <2>2, <2>8 DEF Gone
<1> QED
  BY <1>1, <1>4, <1>5, <1>6

\* At the start nothing is given away and every place holds a value.
LEMMA CleanInit == Init => CleanInv
<1> SUFFICES ASSUME Init PROVE CleanInv
  OBVIOUS
<1> QED
  BY DEF Init, CleanInv, GoneInv, HeldInv, NotGiven

\* The insertions of a plain function name variables that are declared there.
LEMMA CleanStep == TInv /\ InsertedInv /\ CleanInv /\ [Next]_vars => CleanInv'
<1> SUFFICES ASSUME TInv, InsertedInv, CleanInv, [Next]_vars, Plainly'
             PROVE  phase' \notin {"failed", "undeclared"} /\ GoneInv' /\ HeldInv'
  BY DEF CleanInv
<1>1. Plainly
  BY PlainStays
<1>2. phase \notin {"failed", "undeclared"} /\ GoneInv /\ HeldInv
  BY <1>1 DEF CleanInv
<1>3. UNCHANGED <<fn, at, holds, movedBy>> => GoneInv' /\ HeldInv'
  BY <1>2 DEF GoneInv, HeldInv, NotGiven
<1>4. CASE Emit
  <2>1. \A s \in fn.stmts : \A p \in nilRootsForStatement(fn, s) : Meant(fn, s, p) # {}
    <3> SUFFICES ASSUME NEW s \in fn.stmts, NEW p \in nilRootsForStatement(fn, s)
                 PROVE  Meant(fn, s, p) # {}
      OBVIOUS
    <3>1. p \in Place /\ p \in GivenAway(s)
      BY <1>1, PlainNils
    <3>2. Meant(fn, s, p) = {p}
      BY <3>1, GivenAreMeant DEF TInv
    <3> QED
      BY <3>2
  <2>2. phase' = "run"
    BY <1>4, <2>1 DEF Emit, Nils
  <2> QED
    BY <1>3, <1>4, <2>2 DEF Emit
<1>5. CASE Refuse
  BY <1>3, <1>5 DEF Refuse
<1>6. CASE Run
  BY <1>1, <1>2, <1>6, CleanRun
<1>7. CASE Return
  BY <1>3, <1>7 DEF Return
<1>8. CASE UNCHANGED vars
  BY <1>2, <1>3, <1>8 DEF vars
<1> QED
  BY <1>4, <1>5, <1>6, <1>7, <1>8 DEF Next

\* In a function without the three exceptions the emitted code compiles, does not
\* fail, and empties only what this path has given away.
THEOREM OnlyGivenAreEmptied == Spec => []StraysExplained
<1>1. Spec => [](TInv /\ InsertedInv /\ CleanInv)
  <2>1. Init => TInv /\ InsertedInv /\ CleanInv
    BY TypeInit, EmptyInit, CleanInit
  <2>2. Spec => [](TInv /\ InsertedInv /\ GivenInv)
    BY TypeInit, TypeStep, EmptyInit, GivenStep, PTL DEF Spec
  <2> QED
    BY <2>1, <2>2, CleanStep, PTL DEF Spec
<1>2. TInv /\ CleanInv => StraysExplained
  <2> SUFFICES ASSUME TInv, CleanInv,
                      ~(\E s \in fn.stmts : NestedCall(s) \/ RefilledArg(s) \/ Lost(s))
               PROVE  /\ phase \notin {"failed", "undeclared"}
                      /\ \A p \in Place : NotGiven(p) => p \in holds
    BY DEF StraysExplained
  <2>1. Plainly
    BY DEF Plainly
  <2> QED
    BY <2>1 DEF CleanInv, HeldInv
<1> QED
  BY <1>1, <1>2, PTL
=============================================================================
