----------------------------- MODULE SSAPlaces -----------------------------
(***************************************************************************)
(* What place of the source an SSA value stands for (ssa_place.go).  The   *)
(* index is seeded with the globals and with the expressions of the syntax *)
(* tree that name a place, in the order of the tree; then one pass over    *)
(* the instructions hands places on from operands to results.              *)
(*                                                                         *)
(* A body is a record:                                                     *)
(*   values     its instructions in block order, as [op, x, field, edges]: *)
(*              op is "root" (a parameter, an allocation, the result of a  *)
(*              call), "copy" (ChangeInterface, ChangeType, Convert and    *)
(*              loads), "field" (FieldAddr), "element" (IndexAddr, Lookup, *)
(*              MakeInterface), "phi" or "store"; x is the operand         *)
(*   globals    the values that are package variables, and their names     *)
(*   mentions   the expressions of the tree in its order, as [value, expr, *)
(*              skip]: the value ValueForExpr gives for the expression and *)
(*              whether it is the target of an assignment                  *)
(* An expression is a root and the selections behind it: a field, or       *)
(* "[]" for an index and for a method.                                     *)
(*                                                                         *)
(* A place of the program is a struct with a slice in it, and append may   *)
(* write to an array that another place uses: projections are slices of    *)
(* the arrays in cells here too.                                           *)
(***************************************************************************)
EXTENDS SequencesExt, Naturals

CONSTANTS Bodies,
          Variables,    \* the variables places start at
          FieldNames,   \* the struct fields; a field is a types.Object too
          Capacity      \* of the array that append allocates, for each length

(* Go's append rounds up to 1, 2, 4, 8, ... elements of 32 bytes.          *)
ASSUME CapacityAssumption ==
    /\ Capacity \in Seq(Nat)
    /\ \A n \in DOMAIN Capacity : n <= Capacity[n] /\ (n <= 2 => Capacity[n] = n)

ASSUME NamesAssumption ==
    /\ Variables \cap FieldNames = {}
    /\ "nil" \notin Variables \cup FieldNames /\ "[]" \notin FieldNames

Rules == {"copy", "field", "element", "store"}

\* A package variable is made by no rule, and what stands for a field alone is
\* an identifier: the selections behind it belong to the whole expression.
IsBody(b) ==
    /\ \A v \in DOMAIN b.values :
          /\ b.values[v].op \in Rules \cup {"root", "phi"}
          /\ b.values[v].op \in Rules => b.values[v].x \in DOMAIN b.values
          /\ b.values[v].op = "field" => b.values[v].field \in FieldNames
          /\ b.values[v].op = "phi" => /\ b.values[v].edges \in Seq(DOMAIN b.values)
                                        /\ b.values[v].edges # <<>>
    /\ \A v \in DOMAIN b.globals : /\ v \in DOMAIN b.values /\ b.values[v].op = "root"
                                     /\ b.globals[v] \in Variables
    /\ \A m \in DOMAIN b.mentions :
          /\ b.mentions[m].value \in DOMAIN b.values /\ b.mentions[m].skip \in BOOLEAN
          /\ b.mentions[m].expr.root \in Variables \cup FieldNames
          /\ b.mentions[m].expr.steps \in Seq(FieldNames \cup {"[]"})
          /\ b.mentions[m].expr.root \in FieldNames => b.mentions[m].expr.steps = <<>>
          /\ Len(b.mentions[m].expr.steps) + Len(b.values) <= Len(Capacity)
    /\ Len(b.values) \in Nat /\ DOMAIN b.values = 1..Len(b.values)
    /\ Len(b.values) <= Len(Capacity)
    /\ Len(b.mentions) \in Nat /\ DOMAIN b.mentions = 1..Len(b.mentions)

ASSUME BodiesAssumption == \A b \in Bodies : IsBody(b)

VARIABLES body,
          phase,        \* "globals", "mentions", "propagate" or "placed"
          next,         \* the mention or the instruction to look at next
          table,        \* what the index holds for each value
          cells         \* the backing arrays of projections

placeVars == <<body, phase, next, table, cells>>

NoProjection == [array |-> 0, len |-> 0]
NoPlace == [root |-> "nil", projection |-> NoProjection, collapsed |-> FALSE]
Unknown == [place |-> NoPlace, ambiguous |-> FALSE, source |-> 0, unsure |-> FALSE]

Known(r) == r.place.root # "nil"

\* Mutant: the projection is left in the place.
CollapseOnly(p) == [p EXCEPT !.collapsed = TRUE]

collapsePlace(p) == [p EXCEPT !.projection = NoProjection, !.collapsed = TRUE]

\* The fields a projection stands for at present (Projection.String).
PathIn(arrays, p) ==
    IF p.projection.len = 0 THEN <<>>
    ELSE SubSeq(arrays[p.projection.array], 1, p.projection.len)

KeyIn(arrays, p) == [root |-> p.root, path |-> PathIn(arrays, p)]

\* Mutant: any variable without a path counts as a bare field.
AnyBarePlace(p) == p.projection.len = 0 /\ ~p.collapsed

isBareFieldPlace(p) ==
    p.root \in FieldNames /\ p.projection.len = 0 /\ ~p.collapsed

---------------------------------------------------------------------------
(* Go's append: a new array has room for more than its elements.           *)

Padded(s) == [i \in 1..Capacity[Len(s)] |-> IF i <= Len(s) THEN s[i] ELSE "-"]

Fits(arrays, q) == q.len > 0 /\ q.len < Len(arrays[q.array])

\* A place with one more field: in place where the array has room.
appendCells(arrays, p, f) ==
    IF Fits(arrays, p.projection)
    THEN [arrays EXCEPT ![p.projection.array][p.projection.len + 1] = f]
    ELSE Append(arrays, Padded(Append(PathIn(arrays, p), f)))

appendPlace(arrays, p, f) ==
    [p EXCEPT !.projection =
        [array |-> IF Fits(arrays, @) THEN @.array ELSE Len(arrays) + 1, len |-> @.len + 1]]

---------------------------------------------------------------------------
(* Places of expressions (resolveRootPlace).                               *)

IsPath(expr) == \A i \in DOMAIN expr.steps : expr.steps[i] # "[]"

\* Each expression gets arrays of its own.
exprCells(arrays, expr) ==
    IF IsPath(expr) /\ expr.steps # <<>> THEN Append(arrays, Padded(expr.steps)) ELSE arrays

resolveRootPlace(arrays, expr) ==
    LET root == [NoPlace EXCEPT !.root = expr.root]
    IN  IF ~IsPath(expr) THEN collapsePlace(root)
        ELSE IF expr.steps = <<>> THEN root
        ELSE [root EXCEPT !.projection = [array |-> Len(arrays) + 1, len |-> Len(expr.steps)]]

---------------------------------------------------------------------------
(* Entries of the index.                                                   *)

\* Mutant: the first expression seen stays the source of the value.
KeepFirstSource(r, s) ==
    IF s = 0 \/ r.unsure \/ r.source # 0 THEN r ELSE [r EXCEPT !.source = s]

setValueSource(r, s) ==
    IF s = 0 \/ r.unsure THEN r
    ELSE IF r.source \notin {0, s} THEN [r EXCEPT !.unsure = TRUE, !.source = 0]
    ELSE [r EXCEPT !.source = s]

setValuePlaceWithSource(arrays, r, p, s) ==
    LET other == Known(r) /\ KeyIn(arrays, r.place) # KeyIn(arrays, p)
        hadBare == isBareFieldPlace(r.place)
        isBare  == isBareFieldPlace(p)
    IN  CASE other /\ ~hadBare /\ isBare -> r
          [] other /\ hadBare = isBare ->
                [r EXCEPT !.ambiguous = TRUE, !.unsure = TRUE, !.source = 0]
          [] OTHER -> setValueSource([r EXCEPT !.place = p], s)

forceValuePlace(r, p) == [r EXCEPT !.place = p]

propagateValuePlace(dst, src) ==
    LET placed == forceValuePlace(dst, src.place)
        named  == IF dst.source = 0 THEN setValueSource(placed, src.source) ELSE placed
    IN  [named EXCEPT !.ambiguous = @ \/ src.ambiguous]

\* Mutant: a join has the place of its first edge.
PlaceOfFirstEdge(edges) == table[edges[1]].place

\* The place all edges agree on, if there is one.
phiPlace(edges) ==
    LET first == table[edges[1]]
    IN  IF \A i \in DOMAIN edges : /\ Known(table[edges[i]])
                                   /\ ~table[edges[i]].ambiguous
                                   /\ KeyIn(cells, table[edges[i]].place) = KeyIn(cells, first.place)
        THEN first.place ELSE NoPlace

---------------------------------------------------------------------------
TypeOfTable ==
    [place : [root : Variables \cup FieldNames \cup {"nil"},
              projection : [array : 0..Len(cells), len : 0..Len(Capacity)],
              collapsed : BOOLEAN],
     ambiguous : BOOLEAN, source : 0..Len(body.mentions), unsure : BOOLEAN]

PlacesTypeOK ==
    /\ phase \in {"globals", "mentions", "propagate", "placed"}
    /\ next \in 1..(Len(body.mentions) + Len(body.values) + 1)
    /\ DOMAIN table = DOMAIN body.values
    /\ \A v \in DOMAIN table :
          /\ table[v] \in TypeOfTable
          /\ table[v].unsure => table[v].source = 0
          /\ table[v].place.collapsed => table[v].place.projection.len = 0

PlacesInit ==
    /\ body \in Bodies
    /\ phase = "globals"
    /\ next = 1
    /\ table = [v \in DOMAIN body.values |-> Unknown]
    /\ cells = <<>>

\* The members of a package are a map: globals come in any order.
SeedGlobal(v) ==
    /\ phase = "globals"
    /\ v \in DOMAIN body.globals
    /\ ~Known(table[v])
    /\ table' = [table EXCEPT ![v] = setValuePlaceWithSource(cells, @,
                                         [NoPlace EXCEPT !.root = body.globals[v]], 0)]
    /\ UNCHANGED <<body, phase, next, cells>>

GlobalsSeeded ==
    /\ phase = "globals"
    /\ \A v \in DOMAIN body.globals : Known(table[v])
    /\ phase' = "mentions"
    /\ UNCHANGED <<body, next, table, cells>>

SeedMention ==
    /\ phase = "mentions"
    /\ next <= Len(body.mentions)
    /\ next' = next + 1
    /\ LET m == body.mentions[next] IN
         IF m.skip THEN UNCHANGED <<table, cells>>
         ELSE LET arrays == exprCells(cells, m.expr)
                  p == resolveRootPlace(cells, m.expr)
              IN  /\ cells' = arrays
                  /\ table' = [table EXCEPT ![m.value] =
                                  setValuePlaceWithSource(arrays, @, p, next)]
    /\ UNCHANGED <<body, phase>>

MentionsSeeded ==
    /\ phase = "mentions"
    /\ next > Len(body.mentions)
    /\ phase' = "propagate"
    /\ next' = 1
    /\ UNCHANGED <<body, table, cells>>

\* The instruction to hand a place to, when its operand has one.
Operand == table[body.values[next].x]

At(op) ==
    /\ phase = "propagate"
    /\ next <= Len(body.values)
    /\ body.values[next].op = op
    /\ next' = next + 1
    /\ UNCHANGED <<body, phase>>

PropagateCopy ==
    /\ At("copy")
    /\ Known(Operand)
    /\ table' = [table EXCEPT ![next] = propagateValuePlace(@, Operand)]
    /\ UNCHANGED cells

\* A place and, when the operand is ambiguous, its mark.
Derived(r, p) == [forceValuePlace(r, p) EXCEPT !.ambiguous = @ \/ Operand.ambiguous]

PropagateField ==
    /\ At("field")
    /\ Known(Operand)
    /\ LET base == Operand.place
           f == body.values[next].field
       IN  IF base.collapsed
           THEN /\ table' = [table EXCEPT ![next] = Derived(@, base)]
                /\ UNCHANGED cells
           ELSE /\ table' = [table EXCEPT ![next] = Derived(@, appendPlace(cells, base, f))]
                /\ cells' = appendCells(cells, base, f)

PropagateElement ==
    /\ At("element")
    /\ Known(Operand)
    /\ table' = [table EXCEPT ![next] = Derived(@, collapsePlace(Operand.place))]
    /\ UNCHANGED cells

PropagatePhi ==
    /\ At("phi")
    /\ LET p == phiPlace(body.values[next].edges)
       IN  table' = IF p = NoPlace THEN table
                    ELSE [table EXCEPT ![next] = forceValuePlace(@, p)]
    /\ UNCHANGED cells

\* InstructionPlaces: a store is not a value, its place is that of the address.
PropagateStore ==
    /\ At("store")
    /\ Known(Operand)
    /\ table' = [table EXCEPT ![next] = forceValuePlace(@, Operand.place)]
    /\ UNCHANGED cells

\* No rule, or an operand without a place.
PropagateNothing ==
    /\ \/ At("root")
       \/ \E op \in Rules : At(op) /\ ~Known(Operand)
    /\ UNCHANGED <<table, cells>>

Propagated ==
    /\ phase = "propagate"
    /\ next > Len(body.values)
    /\ phase' = "placed"
    /\ UNCHANGED <<body, next, table, cells>>

PlacesNext ==
    \/ \E v \in DOMAIN body.globals : SeedGlobal(v)
    \/ GlobalsSeeded
    \/ SeedMention
    \/ MentionsSeeded
    \/ PropagateCopy
    \/ PropagateField
    \/ PropagateElement
    \/ PropagatePhi
    \/ PropagateStore
    \/ PropagateNothing
    \/ Propagated

---------------------------------------------------------------------------
(* Properties.                                                             *)

Placed == phase = "placed"

PathOf(v) == PathIn(cells, table[v].place)

View(p) == [root |-> p.root, path |-> PathIn(cells, p), collapsed |-> p.collapsed]

\* The place an expression names, read off the expression.
Written(expr) ==
    [root |-> expr.root, path |-> IF IsPath(expr) THEN expr.steps ELSE <<>>,
     collapsed |-> ~IsPath(expr)]

KeyWritten(expr) == [root |-> expr.root, path |-> Written(expr).path]

IsBareField(expr) == expr.root \in FieldNames /\ expr.steps = <<>>

MentionsOf(v) == {m \in DOMAIN body.mentions : body.mentions[m].value = v /\ ~body.mentions[m].skip}

FullMentionsOf(v) == {m \in MentionsOf(v) : ~IsBareField(body.mentions[m].expr)}

\* A value that no rule reaches and that the index takes for unique has one
\* name in the source: however its expressions are ordered, and whether or
\* not bare fields are among them, every expression that stands for it names
\* the place the index holds.  (setValuePlaceWithSource.)
UniqueMeansOneName ==
    \A v \in DOMAIN table :
        (Placed /\ body.values[v].op = "root" /\ Known(table[v]) /\ ~table[v].ambiguous) =>
            \A m \in FullMentionsOf(v) :
                KeyWritten(body.mentions[m].expr) = KeyIn(cells, table[v].place)

\* The position a diagnostic is given for a value that the source mentions is
\* that of its only full expression: where there are two the index says so
\* by giving none.  (setValueSource, SourceForValue.)
SourceIsTheOnlyMention ==
    \A v \in DOMAIN table :
        (Placed /\ table[v].source # 0 /\ MentionsOf(v) # {}) =>
            IF FullMentionsOf(v) = {} THEN MentionsOf(v) = {table[v].source}
            ELSE FullMentionsOf(v) = {table[v].source}

\* A value is given a place the source names for it, or the one its operands'
\* places define by the rule of its instruction, and the mark of ambiguity is
\* handed on with it.  An operand in a later block (the body of a loop stands
\* before its condition) has no place yet.  Paths of four fields and more are
\* left to SiblingsDistinct.  (propagateSSAPlaces.)
PlacesExplained ==
    Placed => \A v \in DOMAIN table :
        (Known(table[v]) /\ Len(PathOf(v)) < 4) =>
            LET i == body.values[v]
                own == table[v].place
                mentioned == \/ \E m \in MentionsOf(v) :
                                   Written(body.mentions[m].expr) = View(own)
                             \/ v \in DOMAIN body.globals
            IN  CASE i.op = "root" -> mentioned
                  [] i.op = "phi" ->
                        \/ mentioned
                        \/ \A e \in {i.edges[k] : k \in DOMAIN i.edges} :
                              e < v => KeyIn(cells, table[e].place) = KeyIn(cells, own)
                  [] i.op \in Rules /\ i.x >= v -> TRUE
                  [] OTHER ->
                        IF ~Known(table[i.x]) THEN mentioned
                        ELSE LET from == View(table[i.x].place)
                             IN  /\ View(own) =
                                    CASE i.op = "field" /\ ~from.collapsed ->
                                            [from EXCEPT !.path = Append(@, i.field)]
                                      [] i.op = "element" ->
                                            [from EXCEPT !.path = <<>>, !.collapsed = TRUE]
                                      [] OTHER -> from
                                 /\ i.op # "store" =>
                                       (table[i.x].ambiguous => table[v].ambiguous)

\* "Field-sensitive place keys ... distinguish sibling fields"
\* (docs/ssa-checker-architecture.md:125): two fields of one struct have
\* different places.  The paths of two siblings at a depth of four are appended
\* to one array, and the second overwrites the first (fieldAddrPlace).
SiblingsDistinct ==
    Placed => \A v, w \in DOMAIN table :
        LET i == body.values[v]
            j == body.values[w]
        IN  (/\ i.op = "field" /\ j.op = "field" /\ i.x = j.x /\ i.field # j.field
             /\ Known(table[v]) /\ ~table[v].place.collapsed) => PathOf(v) # PathOf(w)
=============================================================================
