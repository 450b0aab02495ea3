-------------------------- MODULE SourceIndexProofs --------------------------
(***************************************************************************)
(* Proofs about SourceIndex: which stamp an instruction gets, for every    *)
(* text.  The inductive invariant says what the tables of bindings hold    *)
(* while they are filled: each entry is a stamped call kept under its own  *)
(* start, and each call that is indexed has an entry there, its own or     *)
(* that of another call with the same start.                               *)
(***************************************************************************)
EXTENDS SourceIndex, SequenceTheorems, TLAPS

Tables == [Stamps -> [Offsets -> Calls \cup {Unbound}]]

EntriesAreCalls ==
    \A k \in Stamps, o \in Offsets :
        tables[k][o] # Unbound => /\ text[tables[k][o]].stamp = k
                                  /\ text[tables[k][o]].start = o

IndexedHaveEntries ==
    \A c \in Calls :
        (c <= indexed /\ text[c].stamp \in Stamps) =>
            tables[text[c].stamp][text[c].start] # Unbound

BoundBehindIndex == bound # <<>> => indexed = Len(text)

BInv ==
    /\ text \in Texts
    /\ indexed \in 0..Len(text)
    /\ tables \in Tables
    /\ DOMAIN bound \subseteq Calls
    /\ EntriesAreCalls
    /\ IndexedHaveEntries
    /\ BoundBehindIndex
    /\ ApartBindsItsOwn

Alone(c) == \A b \in Calls \ {c} : ~Touches(c, b)

LEMMA CallFacts ==
    ASSUME text \in Texts, NEW c \in Calls
    PROVE  /\ text[c].start \in Offsets
           /\ text[c].start \in Nat /\ text[c].lparen \in Nat
           /\ text[c].end \in Nat /\ text[c].keyword \in Nat
           /\ text[c].keyword <= text[c].start
           /\ text[c].start < text[c].lparen /\ text[c].lparen < text[c].end
           /\ text[c].stamp \in Stamps \cup {"none"}
           /\ Len(text) \in Nat /\ Calls = 1..Len(text)
BY TextsAssumption DEF IsText, Offsets, Calls

\* Two calls of which neither is inside the other do not share an offset.
LEMMA AloneIsApart ==
    ASSUME text \in Texts, NEW c \in Calls, Alone(c), NEW b \in Calls, b # c
    PROVE  text[b].end <= text[c].start \/ text[c].end <= text[b].start
BY TextsAssumption DEF IsText, Calls, Alone, Touches, Inside

\* Entries of a table are stamped calls.
LEMMA EntryFacts ==
    ASSUME text \in Texts, tables \in Tables, EntriesAreCalls,
           NEW k \in Stamps, NEW b \in Entry(k)
    PROVE  b \in Calls /\ text[b].stamp = k
<1>1. PICK o \in Offsets : b = tables[k][o] /\ b # Unbound
  BY DEF Entry
<1> QED
  BY <1>1 DEF EntriesAreCalls, Tables

\* A call that is alone is the entry under its start.
LEMMA OwnEntry ==
    ASSUME BInv, indexed = Len(text), NEW c \in Calls, Alone(c), NEW k \in Stamps,
           text[c].stamp = k
    PROVE  c \in Entry(k)
<1> DEFINE b == tables[k][text[c].start]
<1>1. text[c].start \in Offsets /\ c <= indexed
  BY CallFacts DEF BInv
<1>2. b # Unbound
  BY <1>1 DEF BInv, IndexedHaveEntries
<1>3. b \in Calls /\ text[b].start = text[c].start
  BY <1>1, <1>2 DEF BInv, Tables, EntriesAreCalls
<1>4. b = c
  <2> SUFFICES ASSUME b # c PROVE FALSE
    OBVIOUS
  <2>1. text[b].end <= text[c].start \/ text[c].end <= text[b].start
    BY <1>3, AloneIsApart DEF BInv
  <2>2. text[b].start < text[b].lparen /\ text[b].lparen < text[b].end
    BY <1>3, CallFacts DEF BInv
  <2>3. text[c].start < text[c].lparen /\ text[c].lparen < text[c].end
    BY CallFacts DEF BInv
  <2>4. {text[b].start, text[b].lparen, text[b].end} \subseteq Nat
    BY <1>3, CallFacts DEF BInv
  <2>5. {text[c].start, text[c].lparen, text[c].end} \subseteq Nat
    BY CallFacts DEF BInv
  <2> HIDE DEF b
  <2> QED BY <1>3, <2>1, <2>2, <2>3, <2>4, <2>5
<1> QED
  BY <1>1, <1>2, <1>4 DEF Entry

\* A call instruction that is alone is found in the table of its own stamp
\* only, and there for what it is.
LEMMA FoundAlone ==
    ASSUME BInv, indexed = Len(text), NEW c \in Calls, Alone(c), NEW k \in Stamps,
           text[c].keyword = 0
    PROVE  Found(k, c) = IF text[c].stamp = k THEN {c} ELSE {}
<1>0. /\ text[c].start < text[c].lparen /\ text[c].lparen < text[c].end
      /\ text[c].start \in Nat /\ text[c].lparen \in Nat /\ text[c].end \in Nat
      /\ PosOf(c) = text[c].lparen
  BY CallFacts DEF BInv, PosOf
<1>1. \A b \in Calls : b # c => ~(text[b].start <= text[c].lparen /\ text[c].lparen <= text[b].end)
  <2> SUFFICES ASSUME NEW b \in Calls, b # c
               PROVE  ~(text[b].start <= text[c].lparen /\ text[c].lparen <= text[b].end)
    OBVIOUS
  <2>1. text[b].end <= text[c].start \/ text[c].end <= text[b].start
    BY AloneIsApart DEF BInv
  <2>2. text[b].start \in Nat /\ text[b].end \in Nat
    BY CallFacts DEF BInv
  <2> QED BY <1>0, <2>1, <2>2
<1>2. ASSUME PosOf(c) \in Offsets PROVE tables[k][PosOf(c)] = Unbound
  <2> SUFFICES ASSUME tables[k][PosOf(c)] # Unbound PROVE FALSE
    OBVIOUS
  <2> DEFINE b == tables[k][PosOf(c)]
  <2>1. b \in Calls /\ text[b].start = text[c].lparen
    BY <1>0, <1>2 DEF BInv, Tables, EntriesAreCalls
  <2>2. text[b].start < text[b].lparen /\ text[b].lparen < text[b].end
        /\ text[b].start \in Nat /\ text[b].end \in Nat /\ text[b].lparen \in Nat
    BY <2>1, CallFacts DEF BInv
  <2> HIDE DEF b
  <2>3. b # c
    BY <1>0, <2>1
  <2> QED
    BY <1>0, <1>1, <2>1, <2>2, <2>3
<1>3. Found(k, c) = {b \in Entry(k) : Covers(b, c)}
  BY <1>2 DEF Found
<1>4. \A b \in Entry(k) : Covers(b, c) => b = c /\ text[c].stamp = k
  BY <1>0, <1>1, EntryFacts DEF Covers, BInv
<1>5. text[c].stamp = k => c \in Entry(k) /\ Covers(c, c)
  BY <1>0, OwnEntry DEF Covers
<1> QED
  BY <1>3, <1>4, <1>5

\* So is a go or defer instruction, which only calls are looked up for.
LEMMA OnLineAlone ==
    ASSUME BInv, indexed = Len(text), NEW c \in Calls, Alone(c), text[c].keyword # 0
    PROVE  callOnLine(c) = IF text[c].stamp = "call" THEN {c} ELSE {}
<1>0. "call" \in Stamps
  BY DEF Stamps
<1>1. PosOf(c) <= text[c].end
  <2>1. /\ text[c].keyword <= text[c].start /\ text[c].start < text[c].lparen
        /\ text[c].lparen < text[c].end
        /\ {text[c].keyword, text[c].start, text[c].lparen, text[c].end} \subseteq Nat
    BY CallFacts DEF BInv
  <2> QED BY <2>1 DEF PosOf
<1>2. \A b \in Calls : text[b].line = text[c].line => b = c
  BY DEF Alone, Touches
<1>3. \A b \in Entry("call") : b \in Calls /\ text[b].stamp = "call"
  BY <1>0, EntryFacts DEF BInv
<1>4. text[c].stamp = "call" => c \in Entry("call")
  BY <1>0, OwnEntry
<1>5. SameCallee(c, c)
  BY DEF SameCallee
<1> QED
  BY <1>1, <1>2, <1>3, <1>4, <1>5 DEF callOnLine

LEMMA CandidatesAlone ==
    ASSUME BInv, indexed = Len(text), NEW c \in Calls, Alone(c)
    PROVE  Candidates(c) = IF \/ text[c].stamp = "none"
                              \/ text[c].keyword # 0 /\ text[c].stamp # "call"
                           THEN {} ELSE {c}
<1>1. CASE text[c].keyword # 0
  BY <1>1, OnLineAlone DEF Candidates
<1>2. CASE text[c].keyword = 0
  <2>1. \A k \in Stamps : Found(k, c) = IF text[c].stamp = k THEN {c} ELSE {}
    BY <1>2, FoundAlone
  <2>2. text[c].stamp \in {"restore", "intrinsic", "call", "none"}
    BY CallFacts DEF BInv, Stamps
  <2>3. callCandidates(c) = IF text[c].stamp = "none" THEN {} ELSE {c}
    BY <2>1, <2>2 DEF callCandidates, Stamps
  <2> QED BY <1>2, <2>3 DEF Candidates
<1> QED BY <1>1, <1>2

LEMMA BInvInit == ASSUME BindingsInit PROVE BInv
<1>1. Len(text) \in Nat
  BY TextsAssumption DEF IsText, BindingsInit
<1> QED
  BY <1>1 DEF BindingsInit, BInv, Tables, Calls, EntriesAreCalls, IndexedHaveEntries, BoundBehindIndex,
     ApartBindsItsOwn

LEMMA IndexKeeps == ASSUME BInv, IndexBinding PROVE BInv'
<1> DEFINE c == indexed + 1
<1>0. Len(text) \in Nat /\ Calls = 1..Len(text) /\ indexed \in 0..Len(text) /\ text \in Texts
  BY TextsAssumption DEF IsText, BInv, Calls
<1>1. /\ c \in Calls /\ text' = text /\ indexed' = c /\ bound' = bound /\ bound = <<>>
      /\ indexed' \in 0..Len(text)
  BY <1>0 DEF IndexBinding, BInv, BoundBehindIndex
<1>2. text[c].start \in Offsets /\ text[c].stamp \in Stamps \cup {"none"}
  BY <1>0, <1>1, CallFacts
<1>3. Calls' = Calls /\ Tables' = Tables
  BY <1>1 DEF Calls, Tables
<1>4. CASE text[c].stamp = "none"
  <2>1. tables' = tables
    BY <1>4 DEF IndexBinding
  <2>2. IndexedHaveEntries'
    <3> SUFFICES ASSUME NEW d \in Calls, d <= c, text[d].stamp \in Stamps
                 PROVE  tables[text[d].stamp][text[d].start] # Unbound
      BY <1>1, <1>3, <2>1 DEF IndexedHaveEntries
    <3>1. d # c
      BY <1>4 DEF Stamps
    <3>2. d <= indexed
      BY <1>0, <3>1
    <3> QED BY <3>2 DEF BInv, IndexedHaveEntries
  <2> QED
    BY <1>1, <1>3, <2>1, <2>2 DEF BInv, EntriesAreCalls, BoundBehindIndex, ApartBindsItsOwn
<1>5. CASE text[c].stamp # "none"
  <2> DEFINE k == text[c].stamp
             o == text[c].start
  <2>0. k \in Stamps /\ o \in Offsets
    BY <1>2, <1>5
  <2>1. tables' = [tables EXCEPT ![k][o] = c]
    BY <1>5 DEF IndexBinding
  <2>2. tables' \in Tables
    BY <1>1, <2>0, <2>1 DEF BInv, Tables
  <2>3. /\ tables'[k][o] = c
        /\ \A kk \in Stamps, oo \in Offsets :
              (kk # k \/ oo # o) => tables'[kk][oo] = tables[kk][oo]
    BY <2>0, <2>1 DEF BInv, Tables
  <2>4. EntriesAreCalls'
    BY <1>1, <2>0, <2>3 DEF BInv, EntriesAreCalls, Offsets
  <2>5. IndexedHaveEntries'
    <3> SUFFICES ASSUME NEW d \in Calls, d <= c, text[d].stamp \in Stamps
                 PROVE  tables'[text[d].stamp][text[d].start] # Unbound
      BY <1>1, <1>3 DEF IndexedHaveEntries
    <3>1. text[d].start \in Offsets
      BY <1>0, CallFacts
    <3>2. c # Unbound
      BY <1>0, <1>1 DEF Unbound
    <3>3. CASE text[d].stamp = k /\ text[d].start = o
      BY <2>3, <3>2, <3>3
    <3>4. CASE text[d].stamp # k \/ text[d].start # o
      <4>1. d # c
        BY <3>4
      <4>2. d <= indexed
        BY <1>0, <4>1
      <4> QED BY <2>3, <3>1, <3>4, <4>2 DEF BInv, IndexedHaveEntries
    <3> QED BY <3>3, <3>4
  <2> QED
    BY <1>1, <1>3, <2>2, <2>4, <2>5 DEF BInv, BoundBehindIndex, ApartBindsItsOwn
<1> QED BY <1>4, <1>5

LEMMA BindKeeps == ASSUME BInv, NEW c \in Calls, BindInstruction(c) PROVE BInv'
<1>1. /\ indexed = Len(text) /\ c \notin DOMAIN bound
      /\ text' = text /\ indexed' = indexed /\ tables' = tables
  BY DEF BindInstruction
<1>2. PICK b \in (IF Candidates(c) = {} THEN {Unbound} ELSE Candidates(c)) :
          bound' = [d \in DOMAIN bound \cup {c} |-> IF d = c THEN b ELSE bound[d]]
  BY DEF BindInstruction
<1>3. Calls' = Calls /\ Tables' = Tables
  BY <1>1 DEF Calls, Tables
<1>4. ApartBindsItsOwn'
  <2> SUFFICES ASSUME NEW d \in DOMAIN bound', Alone(d)
               PROVE  bound'[d] = IF text[d].stamp = "none" THEN Unbound
                                  ELSE IF text[d].keyword # 0 /\ text[d].stamp # "call" THEN Unbound
                                  ELSE d
    BY <1>1, <1>3 DEF ApartBindsItsOwn, Alone, Touches, Inside
  <2>1. CASE d = c
    <3>1. bound'[d] = b
      BY <1>2, <2>1
    <3> QED
      BY <1>1, <1>2, <2>1, <3>1, CandidatesAlone
  <2>2. CASE d # c
    BY <1>2, <2>2 DEF BInv, ApartBindsItsOwn, Alone
  <2> QED BY <2>1, <2>2
<1>5. DOMAIN bound' \subseteq Calls
  BY <1>2 DEF BInv
<1> QED
  BY <1>1, <1>3, <1>4, <1>5 DEF BInv, EntriesAreCalls, IndexedHaveEntries, BoundBehindIndex

LEMMA BInvStep == ASSUME BInv, [Next]_vars PROVE BInv'
<1>1. CASE UNCHANGED bindingVars
  BY <1>1 DEF BInv, bindingVars, Tables, Calls, EntriesAreCalls, IndexedHaveEntries,
     BoundBehindIndex, ApartBindsItsOwn, Touches, Inside
<1>2. CASE BindingsNext
  BY <1>2, IndexKeeps, BindKeeps DEF BindingsNext
<1> QED
  BY <1>1, <1>2 DEF Next, vars, bindingVars

(* For every text and every order of the lookups, an instruction whose     *)
(* call has no other call around it, in it or (behind go or defer) on its  *)
(* line gets the stamp written on that call, and none when there is none   *)
(* (SSABindingIndex.Call, Intrinsic, Restore, GoCall, DeferCall).          *)
THEOREM ApartBindings == Spec => []ApartBindsItsOwn
<1>1. Init => BInv
  BY BInvInit DEF Init
<1>2. BInv /\ [Next]_vars => BInv'
  BY BInvStep
<1>3. BInv => ApartBindsItsOwn
  BY DEF BInv
<1> QED
  BY <1>1, <1>2, <1>3, PTL DEF Spec

---------------------------------------------------------------------------
(* The place index, for every body, every order of the expressions in it   *)
(* and every way append may allocate.                                      *)
(*                                                                         *)
(* The invariant follows each value from the expressions that were seen    *)
(* for it to the rule that is applied to it.  Until then its entry says    *)
(* what those expressions say (Named), and it is not disturbed by a field  *)
(* that is appended in place, because whoever shares its array holds a     *)
(* path at least as long (LongerOnOneArray).  Afterwards it is what the    *)
(* rule makes of the entries of the operands (Explained).                  *)

Elements == FieldNames \cup {"[]", "-"}
Arrays   == Seq(Seq(Elements))
PlaceRecord == [root : Variables \cup FieldNames \cup {"nil"},
                projection : [array : Nat, len : 0..Len(Capacity)], collapsed : BOOLEAN]

\* The projection of a place: nothing, or the first elements of an array.  A
\* short path fills its array, so that append allocates.
IsSlice(arrays, q) ==
    \/ q = NoProjection
    \/ /\ q.array \in 1..Len(arrays) /\ q.len \in 1..Len(arrays[q.array])
       /\ q.len <= 2 => Len(arrays[q.array]) = q.len

IsPlace(arrays, p) ==
    /\ p \in PlaceRecord /\ IsSlice(arrays, p.projection)
    /\ p.collapsed => p.projection = NoProjection
    /\ p.root = "nil" => p = NoPlace

EntryRecord == [place : PlaceRecord, ambiguous : BOOLEAN,
                source : 0..Len(body.mentions), unsure : BOOLEAN]

Basic ==
    /\ body \in Bodies
    /\ phase \in {"globals", "mentions", "propagate", "placed"}
    /\ phase = "globals" => next = 1
    /\ phase = "mentions" => next \in 1..(Len(body.mentions) + 1)
    /\ phase = "propagate" => next \in 1..(Len(body.values) + 1)
    /\ phase = "placed" => next = Len(body.values) + 1
    /\ cells \in Arrays
    /\ DOMAIN table = DOMAIN body.values
    /\ \A v \in DOMAIN table :
          /\ table[v] \in EntryRecord /\ IsPlace(cells, table[v].place)
          /\ table[v].unsure => table[v].source = 0

Seeding == phase \in {"globals", "mentions"}

\* The field steps that are still to come fit into the longest array.
RoomLeft ==
    \A v \in DOMAIN table :
        table[v].place.projection.len
            + (IF Seeding THEN Len(body.values) ELSE Len(body.values) + 1 - next) <= Len(Capacity)

\* A value that no rule was applied to yet, or none ever is.
Original(v) == Seeding \/ body.values[v].op = "root" \/ next <= v

Seen(v) == {m \in MentionsOf(v) : Seeding => m < next}
FullSeen(v) == {m \in Seen(v) : ~IsBareField(body.mentions[m].expr)}

SourceIsOnly(v) ==
    (table[v].source # 0 /\ Seen(v) # {}) =>
        IF FullSeen(v) = {} THEN Seen(v) = {table[v].source} ELSE FullSeen(v) = {table[v].source}

\* A bare field is given up for a full expression, never the other way round.
BareUntilFull(v) ==
    Known(table[v]) =>
        /\ isBareFieldPlace(table[v].place) <=> table[v].place.root \in FieldNames
        /\ isBareFieldPlace(table[v].place) => FullSeen(v) = {}

\* The index has no source for a value: it saw none, or it saw several.
Sourceless(v) ==
    table[v].source = 0 /\ ~table[v].unsure =>
        /\ FullSeen(v) = {}
        /\ Known(table[v]) => v \in DOMAIN body.globals /\ ~isBareFieldPlace(table[v].place)

Sourced(v) ==
    table[v].source # 0 =>
        /\ Seen(v) # {}
        /\ Known(table[v]) /\ ~isBareFieldPlace(table[v].place) => FullSeen(v) # {}

Unnamed(v) ==
    ~Known(table[v]) => Seen(v) = {} /\ ~table[v].unsure /\ ~table[v].ambiguous

OneName(v) ==
    (Known(table[v]) /\ ~table[v].ambiguous) =>
        \A m \in FullSeen(v) : KeyWritten(body.mentions[m].expr) = KeyIn(cells, table[v].place)

NamedBy(v) ==
    Known(table[v]) => \/ \E m \in Seen(v) : Written(body.mentions[m].expr) = View(table[v].place)
                       \/ v \in DOMAIN body.globals

Named(v) == BareUntilFull(v) /\ Sourceless(v) /\ Sourced(v) /\ Unnamed(v) /\ OneName(v) /\ NamedBy(v)

LongerOnOneArray(v, w) ==
    LET p == table[v].place.projection
        q == table[w].place.projection
    IN  (p.len > 0 /\ q.len > 0 /\ p.array = q.array) => p.len <= q.len

Short(p) == p.projection.len < 4

Mentioned(v) == \E m \in MentionsOf(v) : Written(body.mentions[m].expr) = View(table[v].place)

\* What the rule of an instruction makes of a place.
Ruled(i, from) ==
    CASE i.op = "field" /\ ~from.collapsed -> [from EXCEPT !.path = Append(@, i.field)]
      [] i.op = "element" -> [from EXCEPT !.path = <<>>, !.collapsed = TRUE]
      [] OTHER -> from

ByRule(v) ==
    LET i == body.values[v] IN
    i.x < v =>
        IF ~Known(table[i.x]) THEN Mentioned(v)
        ELSE /\ View(table[v].place) = Ruled(i, View(table[i.x].place))
             /\ i.op # "store" => (table[i.x].ambiguous => table[v].ambiguous)

ByPhi(v) ==
    \/ Mentioned(v)
    \/ \A k \in DOMAIN body.values[v].edges :
          LET e == body.values[v].edges[k] IN
          e < v => KeyIn(cells, table[e].place) = KeyIn(cells, table[v].place)

Explained(v) ==
    (Known(table[v]) /\ Short(table[v].place)) =>
        IF body.values[v].op = "phi" THEN ByPhi(v) ELSE ByRule(v)

PInv ==
    /\ Basic /\ RoomLeft
    /\ \A v \in DOMAIN table : SourceIsOnly(v)
    /\ \A v \in DOMAIN table : Original(v) => Named(v)
    /\ \A v \in DOMAIN table : Original(v) =>
          \A w \in DOMAIN table \ {v} : LongerOnOneArray(v, w)
    /\ \A v \in DOMAIN table : ~Original(v) => Explained(v)

\* A name that stands for a body.
LEMMA BodyFacts ==
    ASSUME Basic
    PROVE  IsBody(body) /\ Len(body.values) \in Nat /\ Len(body.mentions) \in Nat
           /\ DOMAIN body.values = 1..Len(body.values)
           /\ DOMAIN body.mentions = 1..Len(body.mentions)
           /\ Len(Capacity) \in Nat
PROOF
<1>1. IsBody(body)
  BY BodiesAssumption DEF Basic
<1>2. Len(Capacity) \in Nat
  BY CapacityAssumption, LenProperties
<1>. QED
  BY <1>1, <1>2 DEF IsBody

---------------------------------------------------------------------------
(* Arrays and the paths in them.                                           *)

\* Arrays are sequences of sequences.
LEMMA ArrayFacts ==
    ASSUME NEW arrays \in Arrays
    PROVE  /\ Len(arrays) \in Nat /\ DOMAIN arrays = 1..Len(arrays)
           /\ \A a \in 1..Len(arrays) :
                 /\ arrays[a] \in Seq(Elements) /\ Len(arrays[a]) \in Nat
                 /\ DOMAIN arrays[a] = 1..Len(arrays[a])
                 /\ \A i \in 1..Len(arrays[a]) : arrays[a][i] \in Elements
PROOF
<1>1. Len(arrays) \in Nat /\ DOMAIN arrays = 1..Len(arrays)
  BY LenProperties DEF Arrays
<1>2. \A a \in 1..Len(arrays) : arrays[a] \in Seq(Elements)
  BY ElementOfSeq DEF Arrays
<1>. QED
  BY <1>1, <1>2, LenProperties, ElementOfSeq

\* The path of a place is the stretch of its array (PathIn).
LEMMA PathFacts ==
    ASSUME NEW arrays \in Arrays, NEW p, IsPlace(arrays, p)
    PROVE  /\ PathIn(arrays, p) \in Seq(Elements)
           /\ p.projection.len \in Nat
           /\ Len(PathIn(arrays, p)) = p.projection.len
           /\ \A i \in 1..p.projection.len :
                 PathIn(arrays, p)[i] = arrays[p.projection.array][i]
PROOF
<1>. DEFINE a == p.projection.array
            n == p.projection.len
<1>0. n \in Nat
  BY DEF IsPlace, PlaceRecord
<1>1. CASE n = 0
  BY <1>0, <1>1, EmptySeq DEF PathIn
<1>2. CASE n # 0
  <2>1. a \in 1..Len(arrays) /\ n \in 1..Len(arrays[a])
    BY <1>2 DEF IsPlace, IsSlice, NoProjection
  <2>2. \A i \in 1..n : arrays[a][i] \in Elements
    BY <1>0, <2>1, ArrayFacts
  <2>3. PathIn(arrays, p) = SubSeq(arrays[a], 1, n)
    BY <1>2 DEF PathIn
  <2>. HIDE DEF a, n
  <2>4. /\ SubSeq(arrays[a], 1, n) \in Seq(Elements)
        /\ Len(SubSeq(arrays[a], 1, n)) = IF 1 <= n THEN n - 1 + 1 ELSE 0
        /\ \A i \in 1..(n - 1 + 1) : SubSeq(arrays[a], 1, n)[i] = arrays[a][1 + i - 1]
    BY <1>0, <2>2, SubSeqProperties
  <2>5. Len(SubSeq(arrays[a], 1, n)) = n
    BY <1>0, <1>2, <2>4
  <2>6. \A i \in 1..n : SubSeq(arrays[a], 1, n)[i] = arrays[a][i]
    BY <1>0, <2>4
  <2>. QED
    BY <1>0, <2>3, <2>4, <2>5, <2>6 DEF a, n
<1>. QED
  BY <1>1, <1>2

\* Two stretches with the same elements are the same path.
LEMMA SamePath ==
    ASSUME NEW arrays \in Arrays, NEW p, IsPlace(arrays, p),
           NEW brrays \in Arrays, NEW q, IsPlace(brrays, q),
           p.projection.len = q.projection.len,
           \A i \in 1..p.projection.len :
              arrays[p.projection.array][i] = brrays[q.projection.array][i]
    PROVE  PathIn(arrays, p) = PathIn(brrays, q)
PROOF
<1>. DEFINE s == PathIn(arrays, p)
            t == PathIn(brrays, q)
<1>1. s \in Seq(Elements) /\ t \in Seq(Elements) /\ Len(s) = Len(t)
  BY PathFacts
<1>2. \A i \in 1..Len(s) : s[i] = t[i]
  BY PathFacts
<1>. HIDE DEF s, t
<1>3. s = t
  BY <1>1, <1>2, SeqEqual
<1>. QED
  BY <1>3 DEF s, t

\* A new array holds the path it was made for (append).
LEMMA PaddedFacts ==
    ASSUME NEW s \in Seq(Elements), Len(s) \in 1..Len(Capacity)
    PROVE  /\ Padded(s) \in Seq(Elements)
           /\ Len(Padded(s)) = Capacity[Len(s)] /\ Len(s) <= Capacity[Len(s)]
           /\ Capacity[Len(s)] \in Nat
           /\ \A i \in 1..Len(s) : Padded(s)[i] = s[i]
           /\ Len(s) <= 2 => Len(Padded(s)) = Len(s)
PROOF
<1>. DEFINE c == Capacity[Len(s)]
            e(i) == IF i <= Len(s) THEN s[i] ELSE "-"
<1>1. DOMAIN Capacity = 1..Len(Capacity)
  BY CapacityAssumption, LenProperties
<1>2. c \in Nat
  BY CapacityAssumption, ElementOfSeq
<1>3. Len(s) <= c /\ (Len(s) <= 2 => c = Len(s))
  BY <1>1, CapacityAssumption
<1>4. Len(s) \in Nat
  BY LenProperties
<1>. HIDE DEF c
<1>5. Padded(s) = [i \in 1..c |-> e(i)]
  BY DEF Padded, c
<1>6. \A i \in 1..c : e(i) \in Elements
  BY <1>2, <1>4, ElementOfSeq DEF Elements
<1>. HIDE DEF e
<1>7. [i \in 1..c |-> e(i)] \in Seq(Elements)
  BY <1>2, <1>6, SeqDef
<1>8. Len(Padded(s)) = c
  BY <1>2, <1>5, <1>7, LenProperties
<1>9. \A i \in 1..Len(s) : Padded(s)[i] = s[i]
  BY <1>2, <1>3, <1>4, <1>5 DEF e
<1>. QED
  BY <1>2, <1>3, <1>5, <1>7, <1>8, <1>9 DEF c

\* One array more.
LEMMA OneMoreArray ==
    ASSUME NEW arrays \in Arrays, NEW s \in Seq(Elements)
    PROVE  /\ Append(arrays, s) \in Arrays
           /\ Len(Append(arrays, s)) = Len(arrays) + 1
           /\ Append(arrays, s)[Len(arrays) + 1] = s
           /\ \A a \in 1..Len(arrays) : Append(arrays, s)[a] = arrays[a]
           /\ \A p : IsPlace(arrays, p) =>
                 IsPlace(Append(arrays, s), p) /\ PathIn(Append(arrays, s), p) = PathIn(arrays, p)
PROOF
<1>. DEFINE brrays == Append(arrays, s)
<1>1. /\ brrays \in Arrays /\ Len(brrays) = Len(arrays) + 1
      /\ brrays[Len(arrays) + 1] = s
      /\ \A a \in 1..Len(arrays) : brrays[a] = arrays[a]
  BY AppendProperties DEF Arrays
<1>. HIDE DEF brrays
<1>2. ASSUME NEW p, IsPlace(arrays, p)
      PROVE  IsPlace(brrays, p) /\ PathIn(brrays, p) = PathIn(arrays, p)
  <2>1. IsPlace(brrays, p)
    BY <1>1, <1>2, ArrayFacts DEF IsPlace, IsSlice
  <2>2. p.projection = NoProjection \/ p.projection.array \in 1..Len(arrays)
    BY <1>2 DEF IsPlace, IsSlice
  <2>3. \A i \in 1..p.projection.len :
           brrays[p.projection.array][i] = arrays[p.projection.array][i]
    BY <1>1, <2>2 DEF NoProjection
  <2>. QED
    BY <1>1, <1>2, <2>1, <2>3, SamePath
<1>. QED
  BY <1>1, <1>2 DEF brrays

---------------------------------------------------------------------------
(* Places of expressions and of fields.                                    *)

IsExpr(expr) ==
    /\ expr.root \in Variables \cup FieldNames
    /\ expr.steps \in Seq(FieldNames \cup {"[]"})
    /\ expr.root \in FieldNames => expr.steps = <<>>
    /\ Len(expr.steps) <= Len(Capacity)

\* The place of an expression says what the expression says, in arrays that
\* nobody else uses (resolveRootPlace).
LEMMA ExprFacts ==
    ASSUME NEW arrays \in Arrays, NEW expr, IsExpr(expr), Len(Capacity) \in Nat,
           NEW p, p = resolveRootPlace(arrays, expr),
           NEW brrays, brrays = exprCells(arrays, expr)
    PROVE  /\ brrays \in Arrays /\ IsPlace(brrays, p) /\ p.root = expr.root /\ p.root # "nil"
           /\ PathIn(brrays, p) = Written(expr).path /\ p.collapsed = Written(expr).collapsed
           /\ p.projection.len <= Len(expr.steps)
           /\ p.projection.len > 0 => p.projection.array = Len(arrays) + 1
           /\ isBareFieldPlace(p) <=> IsBareField(expr)
           /\ isBareFieldPlace(p) <=> p.root \in FieldNames
           /\ \A q : IsPlace(arrays, q) =>
                 IsPlace(brrays, q) /\ PathIn(brrays, q) = PathIn(arrays, q)
PROOF
<1>0. /\ p.root = expr.root /\ p.root # "nil"
      /\ Len(expr.steps) \in Nat /\ Len(arrays) \in Nat
  BY NamesAssumption, LenProperties
     DEF IsExpr, resolveRootPlace, collapsePlace, NoPlace, Arrays
<1>1. CASE ~IsPath(expr)
  <2>1. brrays = arrays
    BY <1>1 DEF exprCells
  <2>2. p = [root |-> expr.root, projection |-> NoProjection, collapsed |-> TRUE]
    BY <1>1 DEF resolveRootPlace, collapsePlace, NoPlace
  <2>3. NoProjection.len = 0 /\ NoProjection \in [array : Nat, len : 0..Len(Capacity)]
    BY <1>0 DEF NoProjection, IsExpr
  <2>4. IsPlace(brrays, p)
    BY <1>0, <2>2, <2>3 DEF IsPlace, PlaceRecord, IsSlice, IsExpr
  <2>5. PathIn(brrays, p) = <<>>
    BY <2>2, <2>3 DEF PathIn
  <2>6. expr.steps # <<>>
    BY <1>1 DEF IsPath
  <2>7. ~isBareFieldPlace(p) /\ ~IsBareField(expr) /\ expr.root \notin FieldNames
    BY <2>2, <2>6 DEF isBareFieldPlace, IsBareField, IsExpr
  <2>. QED
    <3>1. Written(expr).path = <<>> /\ Written(expr).collapsed = TRUE
      BY <1>1 DEF Written
    <3>2. p.projection.len = 0 /\ p.collapsed = TRUE
      BY <2>2, <2>3
    <3>3. p.collapsed = Written(expr).collapsed
      BY <3>1, <3>2, Zenon
    <3>4. p.projection.len <= Len(expr.steps) /\ ~(p.projection.len > 0)
      BY <1>0, <3>2
    <3>. QED
      BY <1>0, <2>1, <2>4, <2>5, <2>7, <3>1, <3>3, <3>4, Zenon
<1>2. CASE IsPath(expr) /\ expr.steps = <<>>
  <2>1. brrays = arrays
    BY <1>2 DEF exprCells
  <2>2. p = [root |-> expr.root, projection |-> NoProjection, collapsed |-> FALSE]
    BY <1>2 DEF resolveRootPlace, NoPlace
  <2>3. NoProjection.len = 0 /\ NoProjection \in [array : Nat, len : 0..Len(Capacity)]
    BY <1>0 DEF NoProjection, IsExpr
  <2>4. IsPlace(brrays, p)
    BY <1>0, <2>2, <2>3 DEF IsPlace, PlaceRecord, IsSlice, IsExpr
  <2>5. PathIn(brrays, p) = <<>>
    BY <2>2, <2>3 DEF PathIn
  <2>6. isBareFieldPlace(p) <=> IsBareField(expr)
    BY <1>2, <2>2, <2>3 DEF isBareFieldPlace, IsBareField
  <2>7. isBareFieldPlace(p) <=> p.root \in FieldNames
    BY <2>2, <2>3 DEF isBareFieldPlace
  <2>. QED
    <3>1. Written(expr).path = <<>> /\ Written(expr).collapsed = FALSE
      BY <1>2 DEF Written
    <3>2. p.projection.len = 0 /\ p.collapsed = FALSE
      BY <2>2, <2>3
    <3>3. p.collapsed = Written(expr).collapsed
      BY <3>1, <3>2, Zenon
    <3>4. p.projection.len <= Len(expr.steps) /\ ~(p.projection.len > 0)
      BY <1>0, <3>2
    <3>. QED
      BY <1>0, <2>1, <2>4, <2>5, <2>6, <2>7, <3>1, <3>3, <3>4, Zenon
<1>3. CASE IsPath(expr) /\ expr.steps # <<>>
  <2>. DEFINE s == expr.steps
              q == [array |-> Len(arrays) + 1, len |-> Len(s)]
  <2>1. s \in Seq(Elements)
    <3>1. FieldNames \cup {"[]"} \subseteq Elements
      BY DEF Elements
    <3>. QED
      BY <3>1, SeqMonotonic DEF IsExpr
  <2>2. Len(s) \in 1..Len(Capacity)
    BY <1>0, <1>3, EmptySeq, <2>1 DEF IsExpr
  <2>3. brrays = Append(arrays, Padded(s))
    BY <1>3 DEF exprCells
  <2>4. p = [root |-> expr.root, projection |-> q, collapsed |-> FALSE]
    BY <1>3 DEF resolveRootPlace, NoPlace
  <2>5. /\ Padded(s) \in Seq(Elements)
        /\ Len(Padded(s)) = Capacity[Len(s)] /\ Len(s) <= Capacity[Len(s)]
        /\ Capacity[Len(s)] \in Nat
        /\ \A i \in 1..Len(s) : Padded(s)[i] = s[i]
        /\ Len(s) <= 2 => Len(Padded(s)) = Len(s)
    BY <2>1, <2>2, PaddedFacts
  <2>6. /\ brrays \in Arrays /\ Len(brrays) = Len(arrays) + 1
        /\ brrays[Len(arrays) + 1] = Padded(s)
        /\ \A r : IsPlace(arrays, r) =>
                 IsPlace(brrays, r) /\ PathIn(brrays, r) = PathIn(arrays, r)
    BY <2>3, <2>5, OneMoreArray
  <2>7. q \in [array : Nat, len : 0..Len(Capacity)] /\ q.len = Len(s) /\ q.array = Len(arrays) + 1
    BY <1>0, <2>2
  <2>8. IsSlice(brrays, q)
    <3>1. q.array \in 1..Len(brrays)
      BY <1>0, <2>6, <2>7
    <3>2. Len(brrays[q.array]) = Capacity[Len(s)]
      BY <2>5, <2>6, <2>7
    <3>3. q.len \in 1..Len(brrays[q.array])
      BY <2>2, <2>5, <2>7, <3>2
    <3>. QED
      BY <2>5, <2>6, <2>7, <3>1, <3>3 DEF IsSlice
  <2>. HIDE DEF q
  <2>9. IsPlace(brrays, p)
    BY <1>0, <2>4, <2>7, <2>8 DEF IsPlace, PlaceRecord, IsExpr
  <2>10. PathIn(brrays, p) = s
    <3>. DEFINE t == PathIn(brrays, p)
    <3>0. p.projection = q
      BY <2>4
    <3>1. t \in Seq(Elements) /\ Len(t) = q.len
          /\ \A i \in 1..q.len : t[i] = brrays[q.array][i]
      BY <2>6, <2>9, <3>0, PathFacts
    <3>2. \A i \in 1..Len(s) : t[i] = s[i]
      BY <2>5, <2>6, <2>7, <3>1
    <3>. HIDE DEF t, s
    <3>3. t = s
      BY <2>1, <2>7, <3>1, <3>2, SeqEqual
    <3>. QED
      BY <3>3 DEF t
  <2>11. ~isBareFieldPlace(p) /\ ~IsBareField(expr) /\ expr.root \notin FieldNames
    BY <1>3, <2>2, <2>4, <2>7 DEF isBareFieldPlace, IsBareField, IsExpr
  <2>. QED
    <3>1. Written(expr).path = s /\ Written(expr).collapsed = FALSE
      BY <1>3 DEF Written
    <3>2. /\ p.projection.len = Len(s) /\ p.projection.array = Len(arrays) + 1
          /\ p.collapsed = FALSE /\ Len(s) <= Len(s)
      BY <1>0, <2>4, <2>7
    <3>3. p.root \notin FieldNames
      BY <1>0, <2>11
    <3>. HIDE DEF s
    <3>4. p.projection.len <= Len(expr.steps)
      BY <3>2 DEF s
    <3>. QED
      BY <1>0, <2>6, <2>9, <2>10, <2>11, <3>1, <3>2, <3>3, <3>4
<1>. QED
  BY <1>1, <1>2, <1>3

\* A field behind a place: the path grows by the field, short paths stay as they
\* are and so does every path that is no longer than the one that grew, or is in
\* another array.
Grows(arrays, p, f, brrays, r) ==
    /\ brrays \in Arrays /\ IsPlace(brrays, r)
    /\ r.root = p.root /\ r.collapsed = p.collapsed
    /\ r.projection.len = p.projection.len + 1
    /\ PathIn(brrays, r) = Append(PathIn(arrays, p), f)
    /\ \/ r.projection.array = p.projection.array /\ p.projection.len > 0
       \/ r.projection.array = Len(arrays) + 1
    /\ \A q : IsPlace(arrays, q) => IsPlace(brrays, q)
    /\ \A q : (/\ IsPlace(arrays, q)
               /\ \/ Short(q) \/ q.projection.len <= p.projection.len
                  \/ q.projection.array # p.projection.array)
              => PathIn(brrays, q) = PathIn(arrays, q)

\* A field is appended in place or to a copy (fieldAddrPlace).
LEMMA AppendFacts ==
    ASSUME NEW arrays \in Arrays, NEW p, IsPlace(arrays, p), ~p.collapsed, p.root # "nil",
           NEW f \in FieldNames,
           Len(Capacity) \in Nat, p.projection.len < Len(Capacity),
           NEW r, r = appendPlace(arrays, p, f),
           NEW brrays, brrays = appendCells(arrays, p, f)
    PROVE  Grows(arrays, p, f, brrays, r)
PROOF
<1>. USE DEF Grows
<1>. DEFINE a == p.projection.array
            n == p.projection.len
            s == Append(PathIn(arrays, p), f)
<1>0. n \in Nat /\ a \in Nat /\ Len(arrays) \in Nat /\ f \in Elements
      /\ p.root \in Variables \cup FieldNames
  BY ArrayFacts DEF IsPlace, PlaceRecord, Elements
<1>1. /\ s \in Seq(Elements) /\ Len(s) = n + 1
      /\ \A i \in 1..n : s[i] = arrays[a][i]
      /\ s[n + 1] = f
  <2>. DEFINE t == PathIn(arrays, p)
  <2>1. t \in Seq(Elements) /\ Len(t) = n /\ \A i \in 1..n : t[i] = arrays[a][i]
    BY PathFacts
  <2>. HIDE DEF t
  <2>2. /\ Append(t, f) \in Seq(Elements) /\ Len(Append(t, f)) = Len(t) + 1
        /\ \A i \in 1..Len(t) : Append(t, f)[i] = t[i]
        /\ Append(t, f)[Len(t) + 1] = f
    BY <1>0, <2>1, AppendProperties
  <2>. QED
    BY <2>1, <2>2 DEF t
<1>. HIDE DEF s
<1>c. p.collapsed = FALSE
  BY DEF IsPlace, PlaceRecord
<1>2. CASE Fits(arrays, p.projection)
  <2>1. n > 0 /\ n < Len(arrays[a]) /\ a \in 1..Len(arrays) /\ n > 2
    <3>1. n > 0 /\ n < Len(arrays[a])
      BY <1>2 DEF Fits
    <3>2. a \in 1..Len(arrays) /\ n \in 1..Len(arrays[a]) /\ (n <= 2 => Len(arrays[a]) = n)
      BY <3>1 DEF IsPlace, IsSlice, NoProjection
    <3>3. Len(arrays[a]) \in Nat
      BY <3>2, ArrayFacts
    <3>. QED
      BY <1>0, <3>1, <3>2, <3>3
  <2>. DEFINE new == [arrays[a] EXCEPT ![n + 1] = f]
  <2>2. arrays[a] \in Seq(Elements) /\ Len(arrays[a]) \in Nat /\ n + 1 \in 1..Len(arrays[a])
    BY <1>0, <2>1, ArrayFacts
  <2>3. /\ new \in Seq(Elements) /\ Len(new) = Len(arrays[a])
        /\ \A j \in 1..Len(arrays[a]) : new[j] = IF j = n + 1 THEN f ELSE arrays[a][j]
    BY <1>0, <2>2, ExceptSeq
  <2>4. brrays = [arrays EXCEPT ![a] = new]
    BY <1>2 DEF appendCells
  <2>. HIDE DEF new
  <2>5. /\ brrays \in Arrays /\ Len(brrays) = Len(arrays)
        /\ \A b \in 1..Len(arrays) : brrays[b] = IF b = a THEN new ELSE arrays[b]
    BY <2>1, <2>3, <2>4, ExceptSeq DEF Arrays
  <2>6. r = [root |-> p.root, projection |-> [array |-> a, len |-> n + 1], collapsed |-> FALSE]
    BY <1>2 DEF appendPlace, IsPlace, PlaceRecord
  <2>7. ASSUME NEW q, IsPlace(arrays, q)
        PROVE  IsPlace(brrays, q)
    BY <2>3, <2>5, <2>7 DEF IsPlace, IsSlice
  <2>8. IsPlace(brrays, r)
    <3>1. [array |-> a, len |-> n + 1] \in [array : Nat, len : 0..Len(Capacity)]
      BY <1>0
    <3>2. IsSlice(brrays, [array |-> a, len |-> n + 1])
      BY <1>0, <2>1, <2>2, <2>3, <2>5 DEF IsSlice
    <3>. QED
      BY <1>0, <2>6, <3>1, <3>2, NamesAssumption DEF IsPlace, PlaceRecord
  <2>9. PathIn(brrays, r) = s
    <3>. DEFINE t == PathIn(brrays, r)
    <3>1. /\ t \in Seq(Elements) /\ Len(t) = n + 1
          /\ \A i \in 1..(n + 1) : t[i] = brrays[a][i]
      <4>1. r.projection.len = n + 1 /\ r.projection.array = a
        BY <2>6
      <4>. HIDE DEF a, n
      <4>. QED
        BY <2>5, <2>8, <4>1, PathFacts
    <3>2. \A i \in 1..(n + 1) : brrays[a][i] = s[i]
      <4>1. brrays[a] = new
        BY <2>1, <2>5
      <4>2. \A i \in 1..(n + 1) : i \in 1..Len(arrays[a]) /\ (i = n + 1 \/ i \in 1..n)
        BY <1>0, <2>1, <2>2
      <4>3. \A i \in 1..n : i # n + 1
        BY <1>0
      <4>. HIDE DEF a, n
      <4>. QED
        BY <1>1, <2>3, <4>1, <4>2, <4>3
    <3>. HIDE DEF t
    <3>3. t = s
      BY <1>0, <1>1, <3>1, <3>2, SeqEqual
    <3>. QED
      BY <3>3 DEF t
  <2>10. ASSUME NEW q, IsPlace(arrays, q),
                Short(q) \/ q.projection.len <= n \/ q.projection.array # a
         PROVE  PathIn(brrays, q) = PathIn(arrays, q)
    <3>1. q.projection.len \in Nat
      BY <2>10 DEF IsPlace, PlaceRecord
    <3>2. CASE q.projection = NoProjection
      BY <3>2 DEF PathIn, NoProjection
    <3>3. CASE q.projection # NoProjection
      <4>1. q.projection.array \in 1..Len(arrays)
            /\ q.projection.len \in 1..Len(arrays[q.projection.array])
        BY <2>10, <3>3 DEF IsPlace, IsSlice
      <4>2. \A i \in 1..q.projection.len :
               brrays[q.projection.array][i] = arrays[q.projection.array][i]
        <5>. SUFFICES ASSUME NEW i \in 1..q.projection.len
                      PROVE  brrays[q.projection.array][i] = arrays[q.projection.array][i]
          OBVIOUS
        <5>1. CASE q.projection.array # a
          BY <2>5, <4>1, <5>1
        <5>2. CASE q.projection.array = a
          <6>0. q.projection.len <= n
            BY <1>0, <2>1, <2>10, <3>1, <5>2 DEF Short
          <6>1. i # n + 1 /\ i \in 1..Len(arrays[a])
            <7>. DEFINE l == q.projection.len
            <7>1. l \in Nat /\ l <= n /\ i \in 1..l
              BY <3>1, <6>0
            <7>. HIDE DEF l, a, n
            <7>. QED
              BY <1>0, <2>1, <2>2, <7>1
          <6>. QED
            BY <2>3, <2>5, <4>1, <5>2, <6>1
        <5>. QED
          BY <5>1, <5>2
      <4>. QED
        BY <2>5, <2>7, <2>10, <4>2, SamePath
    <3>. QED
      BY <3>2, <3>3
  <2>. QED
    <3>1. /\ r.root = p.root /\ r.collapsed = p.collapsed
          /\ r.projection.len = n + 1 /\ r.projection.array = a
      <4>1. r.projection = [array |-> a, len |-> n + 1] /\ r.root = p.root
        BY <2>6
      <4>2. r.collapsed = FALSE
        BY <2>6
      <4>3. r.collapsed = p.collapsed
        BY <1>c, <4>2, Zenon
      <4>. QED
        BY <4>1, <4>3
    <3>. QED
      BY <2>1, <2>5, <2>7, <2>8, <2>9, <2>10, <3>1 DEF s
<1>3. CASE ~Fits(arrays, p.projection)
  <2>1. Len(s) \in 1..Len(Capacity)
    BY <1>0, <1>1
  <2>2. brrays = Append(arrays, Padded(s))
    BY <1>3 DEF appendCells, s
  <2>3. /\ Padded(s) \in Seq(Elements)
        /\ Len(Padded(s)) = Capacity[Len(s)] /\ Len(s) <= Capacity[Len(s)]
        /\ Capacity[Len(s)] \in Nat
        /\ \A i \in 1..Len(s) : Padded(s)[i] = s[i]
        /\ Len(s) <= 2 => Len(Padded(s)) = Len(s)
    BY <1>1, <2>1, PaddedFacts
  <2>4. /\ brrays \in Arrays /\ Len(brrays) = Len(arrays) + 1
        /\ brrays[Len(arrays) + 1] = Padded(s)
        /\ \A q : IsPlace(arrays, q) =>
                 IsPlace(brrays, q) /\ PathIn(brrays, q) = PathIn(arrays, q)
    BY <2>2, <2>3, OneMoreArray
  <2>5. r = [root |-> p.root, projection |-> [array |-> Len(arrays) + 1, len |-> n + 1],
             collapsed |-> FALSE]
    BY <1>3 DEF appendPlace, IsPlace, PlaceRecord
  <2>6. IsPlace(brrays, r)
    <3>1. [array |-> Len(arrays) + 1, len |-> n + 1] \in [array : Nat, len : 0..Len(Capacity)]
      BY <1>0
    <3>2. IsSlice(brrays, [array |-> Len(arrays) + 1, len |-> n + 1])
      BY <1>0, <1>1, <2>1, <2>3, <2>4 DEF IsSlice
    <3>. QED
      BY <1>0, <2>5, <3>1, <3>2, NamesAssumption DEF IsPlace, PlaceRecord
  <2>7. PathIn(brrays, r) = s
    <3>. DEFINE t == PathIn(brrays, r)
    <3>1. /\ t \in Seq(Elements) /\ Len(t) = n + 1
          /\ \A i \in 1..(n + 1) : t[i] = brrays[Len(arrays) + 1][i]
      <4>1. r.projection.len = n + 1 /\ r.projection.array = Len(arrays) + 1
        BY <2>5
      <4>. HIDE DEF n
      <4>. QED
        BY <2>4, <2>6, <4>1, PathFacts
    <3>2. \A i \in 1..Len(s) : t[i] = s[i]
      BY <1>1, <2>3, <2>4, <3>1
    <3>. HIDE DEF t
    <3>3. t = s
      BY <1>1, <3>1, <3>2, SeqEqual
    <3>. QED
      BY <3>3 DEF t
  <2>. QED
    <3>1. /\ r.root = p.root /\ r.collapsed = p.collapsed
          /\ r.projection.len = n + 1 /\ r.projection.array = Len(arrays) + 1
      <4>1. r.projection = [array |-> Len(arrays) + 1, len |-> n + 1] /\ r.root = p.root
        BY <2>5
      <4>2. r.collapsed = FALSE
        BY <2>5
      <4>3. r.collapsed = p.collapsed
        BY <1>c, <4>2, Zenon
      <4>. QED
        BY <4>1, <4>3
    <3>. QED
      BY <2>4, <2>6, <2>7, <3>1 DEF s
<1>. QED
  BY <1>2, <1>3

---------------------------------------------------------------------------
(* What keeps the invariant.                                               *)

\* What an entry is named by stays as long as its path does.
LEMMA NamedKept ==
    ASSUME NEW v, table'[v] = table[v], body' = body, Seen(v)' = Seen(v),
           PathIn(cells', table[v].place) = PathIn(cells, table[v].place), Named(v)
    PROVE  Named(v)' /\ FullSeen(v)' = FullSeen(v)
PROOF
<1>1. FullSeen(v)' = FullSeen(v)
  BY DEF FullSeen, IsBareField
<1>2. KeyIn(cells', table[v].place) = KeyIn(cells, table[v].place)
  BY DEF KeyIn
<1>3. View(table[v].place)' = View(table[v].place)
  BY DEF View
<1>4. (BareUntilFull(v) /\ Sourceless(v) /\ Sourced(v) /\ Unnamed(v))'
  BY <1>1 DEF Named, BareUntilFull, Sourceless, Sourced, Unnamed, Known, isBareFieldPlace
<1>5. OneName(v)'
  <2>1. KeyIn(cells, table[v].place)' = KeyIn(cells, table[v].place)
    BY <1>2
  <2>. QED
    BY <1>1, <2>1 DEF Named, OneName, KeyWritten, Written, Known, IsPath
<1>6. NamedBy(v)'
  <2>1. View(table[v].place)' = View(table[v].place)
    BY <1>3
  <2>. QED
    BY <2>1 DEF Named, NamedBy, Written, Known, IsPath
<1>. QED
  BY <1>1, <1>4, <1>5, <1>6 DEF Named

\* The length of a path is what its place says.
LEMMA LengthOfPath ==
    ASSUME Basic, NEW v \in DOMAIN table
    PROVE  /\ Len(PathOf(v)) = table[v].place.projection.len
           /\ table[v].place.projection.len \in Nat
           /\ PathOf(v) \in Seq(Elements)
           /\ KeyIn(cells, table[v].place).path = PathOf(v)
           /\ View(table[v].place).path = PathOf(v)
PROOF
<1>1. IsPlace(cells, table[v].place) /\ cells \in Arrays
  BY DEF Basic
<1>. QED
  BY <1>1, PathFacts DEF PathOf, KeyIn, View

\* The paths that explain a short one are short.
LEMMA ShortOperands ==
    ASSUME Basic, NEW v \in DOMAIN table, Short(table[v].place), NEW w \in DOMAIN table
    PROVE  /\ (/\ body.values[v].op # "element"
               /\ View(table[v].place) = Ruled(body.values[v], View(table[w].place)))
              => Short(table[w].place)
           /\ KeyIn(cells, table[w].place) = KeyIn(cells, table[v].place) => Short(table[w].place)
PROOF
<1>. DEFINE s == PathOf(v)
            t == PathOf(w)
<1>0. /\ Len(s) = table[v].place.projection.len /\ Len(t) = table[w].place.projection.len
      /\ Len(s) \in Nat /\ Len(t) \in Nat /\ t \in Seq(Elements)
      /\ KeyIn(cells, table[v].place).path = s /\ KeyIn(cells, table[w].place).path = t
      /\ View(table[v].place).path = s /\ View(table[w].place).path = t
  BY LengthOfPath
<1>1. ASSUME body.values[v].op # "element",
             View(table[v].place) = Ruled(body.values[v], View(table[w].place))
      PROVE  Short(table[w].place)
  <2>. DEFINE from == View(table[w].place)
              i == body.values[v]
  <2>1. CASE i.op = "field" /\ ~from.collapsed
    <3>1. Ruled(i, from) = [from EXCEPT !.path = Append(@, i.field)]
      BY <2>1 DEF Ruled
    <3>2. Ruled(i, from).path = Append(t, i.field)
      BY <1>0, <3>1 DEF View
    <3>3. s = Append(t, i.field)
      BY <1>0, <1>1, <3>2
    <3>. HIDE DEF s, t, i
    <3>4. Len(s) = Len(t) + 1
      <4>1. t \in Seq(Elements \cup {i.field})
        BY <1>0, SeqMonotonic
      <4>. QED
        BY <3>3, <4>1, AppendProperties
    <3>. QED
      BY <1>0, <3>4 DEF Short
  <2>2. CASE ~(i.op = "field" /\ ~from.collapsed)
    <3>1. Ruled(i, from) = from
      BY <1>1, <2>2 DEF Ruled
    <3>2. s = t
      BY <1>0, <1>1, <3>1
    <3>. QED
      BY <1>0, <3>2 DEF Short
  <2>. QED
    BY <2>1, <2>2
<1>2. ASSUME KeyIn(cells, table[w].place) = KeyIn(cells, table[v].place)
      PROVE  Short(table[w].place)
  BY <1>0, <1>2 DEF Short
<1>. QED
  BY <1>1, <1>2

\* An entry whose rule was applied stays explained when a later instruction is
\* looked at.
LEMMA ExplainedKept ==
    ASSUME PInv, phase = "propagate", NEW v \in DOMAIN table, ~Original(v),
           body' = body, DOMAIN table' = DOMAIN table,
           \A w \in DOMAIN table : w # next => table'[w] = table[w],
           \A w \in DOMAIN table : Short(table[w].place) =>
               PathIn(cells', table[w].place) = PathIn(cells, table[w].place)
    PROVE  Explained(v)'
PROOF
<1>. SUFFICES ASSUME Known(table'[v]), Short(table'[v].place)
              PROVE  IF body.values[v].op = "phi" THEN ByPhi(v)' ELSE ByRule(v)'
  BY DEF Explained
<1>0. Basic /\ v \in 1..Len(body.values) /\ next \in Nat /\ v \in Nat
      /\ DOMAIN table = 1..Len(body.values) /\ IsBody(body)
      /\ Explained(v) /\ v < next /\ body.values[v].op # "root"
  BY BodyFacts DEF PInv, Basic, Original
<1>1. table'[v] = table[v] /\ Known(table[v]) /\ Short(table[v].place)
  BY <1>0 DEF Known
<1>2. \A w \in DOMAIN table : (w # next /\ Short(table[w].place)) =>
           /\ View(table[w].place)' = View(table[w].place)
           /\ KeyIn(cells, table[w].place)' = KeyIn(cells, table[w].place)
  BY DEF View, KeyIn
<1>3. View(table[v].place)' = View(table[v].place)
      /\ KeyIn(cells, table[v].place)' = KeyIn(cells, table[v].place)
  BY <1>0, <1>1, <1>2
<1>4. Mentioned(v) => Mentioned(v)'
  BY <1>3 DEF Mentioned, MentionsOf, Written, IsPath
<1>5. CASE body.values[v].op = "phi"
  <2>1. ByPhi(v)
    BY <1>0, <1>1, <1>5 DEF Explained
  <2>2. ASSUME NEW k \in DOMAIN body.values[v].edges, body.values[v].edges[k] < v,
               KeyIn(cells, table[body.values[v].edges[k]].place) = KeyIn(cells, table[v].place)
        PROVE  (KeyIn(cells, table[body.values[v].edges[k]].place) = KeyIn(cells, table[v].place))'
    <3>. DEFINE e == body.values[v].edges[k]
    <3>1. e \in DOMAIN table
      <4>1. body.values[v].edges \in Seq(DOMAIN body.values)
        BY <1>0, <1>5 DEF IsBody
      <4>. QED
        BY <1>0, <4>1, LenProperties, ElementOfSeq DEF Basic
    <3>2. e # next
      BY <1>0, <2>2, <3>1
    <3>3. Short(table[e].place)
      BY <1>0, <1>1, <2>2, <3>1, ShortOperands
    <3>4. KeyIn(cells, table[e].place)' = KeyIn(cells, table[e].place)
      BY <1>2, <3>1, <3>2, <3>3
    <3>. QED
      BY <1>3, <2>2, <3>4
  <2>. QED
    BY <1>4, <1>5, <2>1, <2>2 DEF ByPhi
<1>6. CASE body.values[v].op # "phi"
  <2>. DEFINE x == body.values[v].x
  <2>1. ByRule(v)
    BY <1>0, <1>1, <1>6 DEF Explained
  <2>. SUFFICES ASSUME x < v
                PROVE  IF ~Known(table'[x]) THEN Mentioned(v)'
                       ELSE /\ View(table[v].place)' = Ruled(body.values[v], View(table[x].place)')
                            /\ body.values[v].op # "store" =>
                                  (table'[x].ambiguous => table'[v].ambiguous)
    BY <1>6 DEF ByRule, Ruled
  <2>2. CASE x \notin DOMAIN table
    <3>1. body.values[v].op \in Rules
      BY <1>0, <1>6, <2>2 DEF IsBody, Basic
    <3>. QED
      BY <3>1, <1>0, <2>2 DEF IsBody, Basic
  <2>3. CASE x \in DOMAIN table
    <3>1. table'[x] = table[x]
      BY <1>0, <2>3
    <3>2. CASE ~Known(table[x])
      BY <1>4, <2>1, <3>1, <3>2 DEF ByRule, Known
    <3>3. CASE Known(table[x])
      <4>1. /\ View(table[v].place) = Ruled(body.values[v], View(table[x].place))
            /\ body.values[v].op # "store" => (table[x].ambiguous => table[v].ambiguous)
        BY <2>1, <3>3 DEF ByRule
      <4>2. CASE body.values[v].op = "element"
        <5>1. Ruled(body.values[v], View(table[x].place))
              = [root |-> table[x].place.root, path |-> <<>>, collapsed |-> TRUE]
          BY <4>2 DEF Ruled, View
        <5>2. Ruled(body.values[v], View(table[x].place)')
              = [root |-> table[x].place.root, path |-> <<>>, collapsed |-> TRUE]
          BY <3>1, <4>2 DEF Ruled, View
        <5>. QED
          BY <1>1, <1>3, <3>1, <3>3, <4>1, <5>1, <5>2 DEF Known
      <4>3. CASE body.values[v].op # "element"
        <5>1. Short(table[x].place)
          BY <1>0, <1>1, <2>3, <4>1, <4>3, ShortOperands
        <5>2. x # next
          BY <1>0, <2>3
        <5>3. View(table[x].place)' = View(table[x].place)
          BY <1>2, <2>3, <5>1, <5>2
        <5>. QED
          BY <1>1, <1>3, <3>1, <3>3, <4>1, <5>3 DEF Known
      <4>. QED
        BY <4>2, <4>3
    <3>. QED
      BY <3>2, <3>3
  <2>. QED
    BY <2>2, <2>3
<1>. QED
  BY <1>5, <1>6

\* An instruction was looked at: what its rule made of its entry is explained,
\* and nothing that others rely on was lost.
LEMMA RuleStep ==
    ASSUME PInv, phase = "propagate", NEW n \in DOMAIN table, n = next,
           body.values[n].op # "root",
           body' = body, phase' = phase, next' = n + 1, DOMAIN table' = DOMAIN table,
           \A w \in DOMAIN table : w # n => table'[w] = table[w],
           cells' \in Arrays,
           \A w \in DOMAIN table : IsPlace(cells', table[w].place),
           \A w \in DOMAIN table : Original(w) \/ Short(table[w].place) =>
               PathIn(cells', table[w].place) = PathIn(cells, table[w].place),
           table'[n] \in EntryRecord, IsPlace(cells', table'[n].place),
           table'[n].unsure => table'[n].source = 0,
           table'[n].place.projection.len + Len(body.values) - n <= Len(Capacity),
           \A v \in DOMAIN table : v # n /\ Original(v) =>
               ((table[v].place.projection.len > 0 /\ table'[n].place.projection.len > 0
                /\ table[v].place.projection.array = table'[n].place.projection.array)
               => table[v].place.projection.len <= table'[n].place.projection.len),
           SourceIsOnly(n)', Explained(n)'
    PROVE  PInv'
PROOF
<1>0. /\ Basic /\ IsBody(body) /\ Len(body.values) \in Nat /\ Len(body.mentions) \in Nat
      /\ DOMAIN table = 1..Len(body.values) /\ n \in 1..Len(body.values)
      /\ Len(Capacity) \in Nat
  BY BodyFacts DEF PInv, Basic
<1>1. Basic'
  <2>1. next' \in 1..(Len(body.values) + 1)
    BY <1>0
  <2>2. \A v \in DOMAIN table : table'[v] \in EntryRecord /\ IsPlace(cells', table'[v].place)
                                /\ (table'[v].unsure => table'[v].source = 0)
    BY <1>0 DEF Basic
  <2>3. EntryRecord' = EntryRecord
    BY DEF EntryRecord
  <2>. QED
    BY <1>0, <2>1, <2>2, <2>3 DEF Basic
<1>2. ~Seeding /\ ~Seeding' /\ (\A v : Seen(v)' = Seen(v)) /\ (\A v : FullSeen(v)' = FullSeen(v))
  <2>1. \A v : Seen(v)' = Seen(v)
    BY DEF Seeding, Seen, MentionsOf
  <2>. QED
    BY <2>1 DEF Seeding, FullSeen, IsBareField
<1>3. \A v \in DOMAIN table : Original(v)' => Original(v) /\ v # n /\ table'[v] = table[v]
  BY <1>0, <1>2 DEF Original
<1>4. RoomLeft'
  <2>. SUFFICES ASSUME NEW v \in DOMAIN table
                PROVE  table'[v].place.projection.len + (Len(body.values) + 1 - (n + 1)) <= Len(Capacity)
    BY <1>2 DEF RoomLeft
  <2>0. table'[v].place.projection.len \in Nat
    BY <1>1 DEF Basic, EntryRecord, PlaceRecord
  <2>1. CASE v = n
    BY <1>0, <2>0, <2>1
  <2>2. CASE v # n
    <3>1. table[v].place.projection.len + (Len(body.values) + 1 - n) <= Len(Capacity)
      BY <1>2 DEF PInv, RoomLeft
    <3>2. table'[v] = table[v]
      BY <2>2
    <3>. DEFINE l == table[v].place.projection.len
                k == Len(body.values)
                c == Len(Capacity)
    <3>3. l \in Nat /\ k \in Nat /\ c \in Nat /\ n \in Nat /\ l + (k + 1 - n) <= c
      BY <1>0, <2>0, <3>1, <3>2
    <3>. HIDE DEF l, k, c
    <3>4. l + (k + 1 - (n + 1)) <= c
      BY <3>3
    <3>. QED
      BY <3>2, <3>4 DEF l, k, c
  <2>. QED
    BY <2>1, <2>2
<1>5. \A v \in DOMAIN table : SourceIsOnly(v)'
  <2>. SUFFICES ASSUME NEW v \in DOMAIN table, v # n
                PROVE  SourceIsOnly(v)'
    OBVIOUS
  <2>1. table'[v] = table[v] /\ SourceIsOnly(v)
    BY DEF PInv
  <2>. QED
    BY <1>2, <2>1 DEF SourceIsOnly
<1>6. \A v \in DOMAIN table : Original(v)' => Named(v)'
  BY <1>2, <1>3, NamedKept DEF PInv
<1>7. ASSUME NEW v \in DOMAIN table, Original(v)', NEW w \in DOMAIN table \ {v}
      PROVE  LongerOnOneArray(v, w)'
  <2>1. Original(v) /\ v # n /\ table'[v] = table[v]
    BY <1>3, <1>7
  <2>2. CASE w = n
    BY <2>1, <2>2 DEF LongerOnOneArray
  <2>3. CASE w # n
    <3>1. LongerOnOneArray(v, w)
      BY <2>1, <1>7 DEF PInv
    <3>2. table'[w] = table[w]
      BY <2>3
    <3>. QED
      BY <2>1, <3>1, <3>2 DEF LongerOnOneArray
  <2>. QED
    BY <2>2, <2>3
<1>8. ASSUME NEW v \in DOMAIN table, ~Original(v)'
      PROVE  Explained(v)'
  <2>1. CASE v = n
    BY <2>1
  <2>2. CASE v # n
    <3>1. ~Original(v)
      BY <1>0, <1>2, <1>8, <2>2 DEF Original
    <3>. QED
      BY <3>1, ExplainedKept
  <2>. QED
    BY <2>1, <2>2
<1>9. DOMAIN table' = DOMAIN table
  OBVIOUS
<1>. QED
  BY <1>1, <1>4, <1>5, <1>6, <1>7, <1>8, <1>9 DEF PInv

\* One entry was seeded, from an expression in new arrays.
LEMMA SeedStep ==
    ASSUME PInv, Seeding, Seeding', NEW n \in DOMAIN table,
           body' = body, phase' = phase,
           phase = "globals" => next' = 1,
           phase = "mentions" => next' \in 1..(Len(body.mentions) + 1),
           DOMAIN table' = DOMAIN table,
           \A w \in DOMAIN table : w # n => table'[w] = table[w] /\ Seen(w)' = Seen(w),
           cells' \in Arrays,
           \A q : IsPlace(cells, q) =>
               IsPlace(cells', q) /\ PathIn(cells', q) = PathIn(cells, q),
           table'[n] \in EntryRecord, IsPlace(cells', table'[n].place),
           table'[n].unsure => table'[n].source = 0,
           table'[n].place.projection.len + Len(body.values) <= Len(Capacity),
           \/ table'[n].place = table[n].place
           \/ table'[n].place.projection.len = 0
           \/ table'[n].place.projection.array = Len(cells) + 1,
           SourceIsOnly(n)', Named(n)'
    PROVE  PInv'
PROOF
<1>0. /\ Basic /\ IsBody(body) /\ Len(body.values) \in Nat /\ Len(body.mentions) \in Nat
      /\ DOMAIN table = 1..Len(body.values)
      /\ Len(Capacity) \in Nat
  BY BodyFacts DEF PInv, Basic
<1>1. Basic'
  <2>2. \A v \in DOMAIN table : table'[v] \in EntryRecord /\ IsPlace(cells', table'[v].place)
                                /\ (table'[v].unsure => table'[v].source = 0)
    BY <1>0 DEF Basic
  <2>3. EntryRecord' = EntryRecord
    BY DEF EntryRecord
  <2>. QED
    BY <1>0, <2>2, <2>3 DEF Basic, Seeding
<1>2. \A v \in DOMAIN table : v # n => FullSeen(v)' = FullSeen(v)
  BY DEF FullSeen, IsBareField
<1>3. \A v \in DOMAIN table : Original(v) /\ Original(v)'
  BY DEF Original
<1>4. RoomLeft'
  <2>. SUFFICES ASSUME NEW v \in DOMAIN table
                PROVE  table'[v].place.projection.len + Len(body.values) <= Len(Capacity)
    BY DEF RoomLeft
  <2>1. CASE v # n
    BY <2>1 DEF PInv, RoomLeft
  <2>. QED
    BY <2>1
<1>5. ASSUME NEW v \in DOMAIN table, v # n
      PROVE  SourceIsOnly(v)'
  <2>1. table'[v] = table[v] /\ SourceIsOnly(v) /\ Seen(v)' = Seen(v) /\ FullSeen(v)' = FullSeen(v)
    BY <1>2, <1>5 DEF PInv
  <2>. QED
    BY <2>1 DEF SourceIsOnly
<1>6. ASSUME NEW v \in DOMAIN table, v # n
      PROVE  Named(v)'
  <2>1. IsPlace(cells, table[v].place) /\ Named(v)
    BY <1>0, <1>3 DEF PInv, Basic
  <2>. QED
    BY <1>6, <2>1, NamedKept
<1>7. \A v, w \in DOMAIN table : v # w => LongerOnOneArray(v, w)
  BY <1>3 DEF PInv
<1>8. \A w \in DOMAIN table :
         table[w].place.projection.len > 0 => table[w].place.projection.array \in 1..Len(cells)
  <2>. SUFFICES ASSUME NEW w \in DOMAIN table, table[w].place.projection.len > 0
                PROVE  table[w].place.projection.array \in 1..Len(cells)
    OBVIOUS
  <2>1. IsPlace(cells, table[w].place)
    BY <1>0 DEF Basic
  <2>2. table[w].place.projection # NoProjection
    BY DEF NoProjection
  <2>. QED
    BY <2>1, <2>2 DEF IsPlace, IsSlice
<1>9. Len(cells) \in Nat
  BY <1>0, ArrayFacts DEF Basic
<1>10. ASSUME NEW v \in DOMAIN table, NEW w \in DOMAIN table, v # w
       PROVE  LongerOnOneArray(v, w)'
  <2>1. CASE v # n /\ w # n
    BY <1>7, <1>10, <2>1 DEF LongerOnOneArray
  <2>2. CASE v = n
    <3>1. table'[w] = table[w]
      BY <1>10, <2>2
    <3>2. CASE table'[n].place = table[n].place
      BY <1>7, <1>10, <2>2, <3>1, <3>2 DEF LongerOnOneArray
    <3>3. CASE table'[n].place.projection.array = Len(cells) + 1
      BY <1>8, <1>9, <2>2, <3>1, <3>3 DEF LongerOnOneArray
    <3>4. CASE table'[n].place.projection.len = 0
      BY <2>2, <3>4 DEF LongerOnOneArray
    <3>. QED
      BY <3>2, <3>3, <3>4
  <2>3. CASE w = n
    <3>1. table'[v] = table[v]
      BY <1>10, <2>3
    <3>2. CASE table'[n].place = table[n].place
      BY <1>7, <1>10, <2>3, <3>1, <3>2 DEF LongerOnOneArray
    <3>3. CASE table'[n].place.projection.array = Len(cells) + 1
      BY <1>8, <1>9, <2>3, <3>1, <3>3 DEF LongerOnOneArray
    <3>4. CASE table'[n].place.projection.len = 0
      BY <2>3, <3>4 DEF LongerOnOneArray
    <3>. QED
      BY <3>2, <3>3, <3>4
  <2>. QED
    BY <2>1, <2>2, <2>3
<1>. QED
  BY <1>1, <1>3, <1>4, <1>5, <1>6, <1>10 DEF PInv

---------------------------------------------------------------------------
(* Seeding.                                                                *)

PlacedAt(r, p) == [r EXCEPT !.place = p]
Confused(r)   == [r EXCEPT !.ambiguous = TRUE, !.unsure = TRUE, !.source = 0]

OtherPlace(arrays, r, p) == Known(r) /\ KeyIn(arrays, r.place) # KeyIn(arrays, p)

\* What an expression does to an entry (setValuePlaceWithSource).
LEMMA SeedCases ==
    ASSUME NEW arrays, NEW r, NEW p, NEW s
    PROVE  LET t == setValuePlaceWithSource(arrays, r, p, s) IN
           \/ /\ OtherPlace(arrays, r, p) /\ ~isBareFieldPlace(r.place) /\ isBareFieldPlace(p)
              /\ t = r
           \/ /\ OtherPlace(arrays, r, p) /\ (isBareFieldPlace(r.place) <=> isBareFieldPlace(p))
              /\ t = Confused(r)
           \/ /\ ~OtherPlace(arrays, r, p) \/ (isBareFieldPlace(r.place) /\ ~isBareFieldPlace(p))
              /\ t = setValueSource(PlacedAt(r, p), s)
PROOF
<1>. DEFINE t == setValuePlaceWithSource(arrays, r, p, s)
            other == OtherPlace(arrays, r, p)
            hadBare == isBareFieldPlace(r.place)
            isBare == isBareFieldPlace(p)
<1>0. hadBare \in BOOLEAN /\ isBare \in BOOLEAN /\ other \in BOOLEAN
  BY DEF isBareFieldPlace, OtherPlace
<1>1. t = CASE other /\ ~hadBare /\ isBare -> r
            [] other /\ hadBare = isBare ->
                  [r EXCEPT !.ambiguous = TRUE, !.unsure = TRUE, !.source = 0]
            [] OTHER -> setValueSource([r EXCEPT !.place = p], s)
  BY DEF setValuePlaceWithSource, OtherPlace
<1>. HIDE DEF t, other, hadBare, isBare
<1>2. \/ other /\ ~hadBare /\ isBare /\ t = r
      \/ other /\ (hadBare <=> isBare)
         /\ t = [r EXCEPT !.ambiguous = TRUE, !.unsure = TRUE, !.source = 0]
      \/ (~other \/ (hadBare /\ ~isBare)) /\ t = setValueSource([r EXCEPT !.place = p], s)
  BY <1>0, <1>1
<1>. QED
  BY <1>2 DEF t, other, hadBare, isBare, PlacedAt, Confused

\* The source of an entry after one more expression (setValueSource).
LEMMA SourceCases ==
    ASSUME NEW r, r \in EntryRecord, r.unsure => r.source = 0,
           Len(body.mentions) \in Nat, NEW s \in 0..Len(body.mentions), NEW t, t = setValueSource(r, s)
    PROVE  /\ t.place = r.place /\ t.ambiguous = r.ambiguous /\ t \in EntryRecord
           /\ s = 0 \/ r.unsure => t = r
           /\ s # 0 /\ ~r.unsure /\ r.source \in {0, s} => t.source = s /\ ~t.unsure
           /\ s # 0 /\ ~r.unsure /\ r.source \notin {0, s} => t.source = 0 /\ t.unsure
           /\ t.unsure => t.source = 0
PROOF
<1>1. CASE s = 0 \/ r.unsure
  <2>1. t = r
    BY <1>1 DEF setValueSource
  <2>. QED
    BY <1>1, <2>1
<1>2. CASE s # 0 /\ ~r.unsure /\ r.source \in {0, s}
  <2>1. t = [r EXCEPT !.source = s]
    BY <1>2 DEF setValueSource
  <2>2. t \in EntryRecord /\ t.source = s /\ t.unsure = r.unsure /\ t.place = r.place
        /\ t.ambiguous = r.ambiguous
    BY <2>1 DEF EntryRecord
  <2>. QED
    BY <1>2, <2>2
<1>3. CASE s # 0 /\ ~r.unsure /\ r.source \notin {0, s}
  <2>1. t = [r EXCEPT !.unsure = TRUE, !.source = 0]
    BY <1>3 DEF setValueSource
  <2>0. t = [place |-> r.place, ambiguous |-> r.ambiguous, source |-> 0, unsure |-> TRUE]
    BY <2>1 DEF EntryRecord
  <2>2. t \in EntryRecord
    <3>1. r.place \in PlaceRecord /\ r.ambiguous \in BOOLEAN /\ 0 \in 0..Len(body.mentions)
      BY DEF EntryRecord
    <3>. QED
      BY <2>0, <3>1 DEF EntryRecord
  <2>3. t.source = 0 /\ t.unsure /\ t.place = r.place
    BY <2>0
  <2>4. t.ambiguous = r.ambiguous
    BY <2>1 DEF EntryRecord
  <2>. QED
    BY <1>3, <2>2, <2>3, <2>4
<1>. QED
  BY <1>1, <1>2, <1>3

\* A global gets its own name.
LEMMA GlobalInv == ASSUME PInv, NEW v, SeedGlobal(v) PROVE PInv'
PROOF
<1>. DEFINE p == [NoPlace EXCEPT !.root = body.globals[v]]
            r == table[v]
<1>. HIDE DEF p
<1>0. /\ Basic /\ IsBody(body) /\ Len(body.values) \in Nat /\ Len(body.mentions) \in Nat
      /\ DOMAIN table = 1..Len(body.values) /\ Len(Capacity) \in Nat
      /\ phase = "globals" /\ next = 1
      /\ v \in DOMAIN body.globals /\ v \in DOMAIN table /\ ~Known(r)
      /\ body.globals[v] \in Variables
      /\ DOMAIN body.mentions = 1..Len(body.mentions)
  BY BodyFacts DEF PInv, Basic, SeedGlobal, IsBody
<1>1. /\ body' = body /\ phase' = phase /\ next' = next /\ cells' = cells
      /\ DOMAIN table' = DOMAIN table
      /\ \A w \in DOMAIN table : w # v => table'[w] = table[w]
      /\ table'[v] = setValuePlaceWithSource(cells, r, p, 0)
  BY <1>0 DEF SeedGlobal, p
<1>2. Seeding /\ Seeding' /\ (\A w : Seen(w)' = Seen(w))
  BY <1>0, <1>1 DEF Seeding, Seen, MentionsOf
<1>3. Named(v) /\ r \in EntryRecord /\ IsPlace(cells, r.place) /\ (r.unsure => r.source = 0)
  BY <1>0, <1>2 DEF PInv, Basic, Original
<1>4. r.source = 0 /\ ~r.unsure /\ ~r.ambiguous /\ Seen(v) = {}
  BY <1>0, <1>3 DEF Named, Unnamed, Sourced
<1>5. table'[v] = [r EXCEPT !.place = p]
  <2>1. ~OtherPlace(cells, r, p)
    BY <1>0 DEF OtherPlace
  <2>2. table'[v] = setValueSource([r EXCEPT !.place = p], 0)
    <3>. HIDE DEF r
    <3>1. setValuePlaceWithSource(cells, r, p, 0) = setValueSource(PlacedAt(r, p), 0)
      BY <2>1, SeedCases
    <3>. QED
      BY <1>1, <3>1 DEF PlacedAt
  <2>. QED
    BY <2>2 DEF setValueSource
<1>6. p = [root |-> body.globals[v], projection |-> NoProjection, collapsed |-> FALSE]
  <2>. DEFINE x == body.globals[v]
  <2>1. p = [NoPlace EXCEPT !.root = x]
    BY DEF p
  <2>. HIDE DEF x
  <2>2. p = [root |-> x, projection |-> NoProjection, collapsed |-> FALSE]
    BY <2>1 DEF NoPlace
  <2>. QED
    BY <2>2 DEF x
<1>7. NoProjection.len = 0 /\ NoProjection \in [array : Nat, len : 0..Len(Capacity)]
  BY <1>0 DEF NoProjection
<1>8. p \in PlaceRecord /\ IsPlace(cells, p)
  BY <1>0, <1>6, <1>7, NamesAssumption DEF IsPlace, PlaceRecord, IsSlice
<1>9. /\ table'[v] \in EntryRecord /\ table'[v].place = p
      /\ table'[v].source = 0 /\ ~table'[v].unsure /\ ~table'[v].ambiguous
  BY <1>3, <1>4, <1>5, <1>8 DEF EntryRecord
<1>10. ~isBareFieldPlace(p) /\ p.root \notin FieldNames
  BY <1>0, <1>6, NamesAssumption DEF isBareFieldPlace
<1>11. Seen(v)' = {} /\ FullSeen(v)' = {}
  BY <1>2, <1>4 DEF FullSeen
<1>12. SourceIsOnly(v)'
  BY <1>9 DEF SourceIsOnly
<1>13. Named(v)'
  <2>1. BareUntilFull(v)' /\ Sourceless(v)' /\ Sourced(v)' /\ Unnamed(v)'
    <3>1. isBareFieldPlace(table[v].place)' = isBareFieldPlace(p)
      BY <1>9 DEF isBareFieldPlace
    <3>. QED
      BY <1>0, <1>1, <1>9, <1>10, <1>11, <3>1 DEF BareUntilFull, Sourceless, Sourced, Unnamed, Known
  <2>2. OneName(v)' /\ NamedBy(v)'
    BY <1>0, <1>1, <1>11 DEF OneName, NamedBy
  <2>. QED
    BY <2>1, <2>2 DEF Named
<1>14. table'[v].place.projection.len + Len(body.values) <= Len(Capacity)
  <2>1. table'[v].place.projection.len = 0
    BY <1>6, <1>7, <1>9
  <2>. QED
    BY <1>0, <2>1 DEF IsBody
<1>15. table'[v].place.projection.len = 0
  BY <1>6, <1>7, <1>9
<1>16. cells' \in Arrays /\ IsPlace(cells', table'[v].place)
       /\ (\A q : IsPlace(cells, q) =>
               IsPlace(cells', q) /\ PathIn(cells', q) = PathIn(cells, q))
  BY <1>0, <1>1, <1>8, <1>9 DEF Basic
<1>. HIDE DEF r
<1>. QED
  BY <1>0, <1>1, <1>2, <1>9, <1>12, <1>13, <1>14, <1>15, <1>16, SeedStep

\* A place as it is read in given arrays.
ViewIn(arrays, p) == [root |-> p.root, path |-> PathIn(arrays, p), collapsed |-> p.collapsed]

\* An entry has seen one more expression: it is named by what it has seen.
LEMMA MentionNames ==
    ASSUME PInv, Seeding, NEW v \in DOMAIN table, NEW m, NEW p,
           m \in DOMAIN body.mentions, body' = body, table'[v] \in EntryRecord,
           table'[v] = setValuePlaceWithSource(cells', table[v], p, m),
           Seen(v)' = Seen(v) \cup {m}, m \notin Seen(v),
           p.root # "nil", KeyIn(cells', p) = KeyWritten(body.mentions[m].expr),
           ViewIn(cells', p) = Written(body.mentions[m].expr),
           isBareFieldPlace(p) <=> IsBareField(body.mentions[m].expr),
           isBareFieldPlace(p) <=> p.root \in FieldNames,
           KeyIn(cells', table[v].place) = KeyIn(cells, table[v].place),
           ViewIn(cells', table[v].place) = ViewIn(cells, table[v].place)
    PROVE  /\ SourceIsOnly(v)' /\ Named(v)' /\ (table'[v].unsure => table'[v].source = 0)
           /\ table'[v].place \in {p, table[v].place}
PROOF
<1>. DEFINE r == table[v]
            t == table'[v]
            seen == Seen(v)
            full == FullSeen(v)
            seenN == Seen(v)'
            fullN == FullSeen(v)'
            mKey == KeyWritten(body.mentions[m].expr)
            bare == IsBareField(body.mentions[m].expr)
<1>0. /\ Named(v) /\ SourceIsOnly(v) /\ r \in EntryRecord /\ (r.unsure => r.source = 0)
      /\ m \in 1..Len(body.mentions) /\ Len(body.mentions) \in Nat
  BY BodyFacts DEF PInv, Basic, Original
<1>1. fullN = IF bare THEN full ELSE full \cup {m}
  BY DEF FullSeen, IsBareField
<1>2. seenN = seen \cup {m} /\ full \subseteq seen
  BY DEF FullSeen
<1>3. /\ Known(r) => ((isBareFieldPlace(r.place) <=> r.place.root \in FieldNames)
                      /\ (isBareFieldPlace(r.place) => full = {}))
      /\ r.source = 0 /\ ~r.unsure =>
            full = {} /\ (Known(r) => v \in DOMAIN body.globals /\ ~isBareFieldPlace(r.place))
      /\ r.source # 0 => seen # {} /\ (Known(r) /\ ~isBareFieldPlace(r.place) => full # {})
      /\ ~Known(r) => seen = {} /\ ~r.unsure /\ ~r.ambiguous
      /\ r.source # 0 /\ seen # {} => IF full = {} THEN seen = {r.source} ELSE full = {r.source}
      /\ Known(r) /\ ~r.ambiguous =>
            \A x \in full : KeyWritten(body.mentions[x].expr) = KeyIn(cells', r.place)
      /\ Known(r) => \/ \E x \in seen : Written(body.mentions[x].expr) = ViewIn(cells', r.place)
                     \/ v \in DOMAIN body.globals
  <2>1. ViewIn(cells', r.place) = View(r.place)
    <3>1. ViewIn(cells, r.place) = View(r.place)
      BY DEF View, ViewIn
    <3>. QED
      BY <3>1
  <2>2. Known(r) => \/ \E x \in seen : Written(body.mentions[x].expr) = ViewIn(cells', r.place)
                    \/ v \in DOMAIN body.globals
    BY <1>0, <2>1 DEF Named, NamedBy
  <2>3. Known(r) /\ ~r.ambiguous =>
            \A x \in full : KeyWritten(body.mentions[x].expr) = KeyIn(cells', r.place)
    BY <1>0 DEF Named, OneName
  <2>4. r.source # 0 /\ seen # {} => IF full = {} THEN seen = {r.source} ELSE full = {r.source}
    BY <1>0 DEF SourceIsOnly
  <2>5. BareUntilFull(v) /\ Sourceless(v) /\ Sourced(v) /\ Unnamed(v)
    BY <1>0 DEF Named
  <2>. QED
    BY <2>2, <2>3, <2>4, <2>5 DEF BareUntilFull, Sourceless, Sourced, Unnamed
<1>4. SUFFICES
        /\ Known(t) => ((isBareFieldPlace(t.place) <=> t.place.root \in FieldNames)
                        /\ (isBareFieldPlace(t.place) => fullN = {}))
        /\ t.source = 0 /\ ~t.unsure =>
              fullN = {} /\ (Known(t) => v \in DOMAIN body.globals /\ ~isBareFieldPlace(t.place))
        /\ t.source # 0 => seenN # {} /\ (Known(t) /\ ~isBareFieldPlace(t.place) => fullN # {})
        /\ ~Known(t) => seenN = {} /\ ~t.unsure /\ ~t.ambiguous
        /\ t.source # 0 /\ seenN # {} => IF fullN = {} THEN seenN = {t.source} ELSE fullN = {t.source}
        /\ Known(t) /\ ~t.ambiguous =>
              \A x \in fullN : KeyWritten(body.mentions[x].expr) = KeyIn(cells', t.place)
        /\ Known(t) => \/ \E x \in seenN : Written(body.mentions[x].expr) = ViewIn(cells', t.place)
                       \/ v \in DOMAIN body.globals
        /\ t.unsure => t.source = 0
        /\ t.place \in {p, r.place}
  <2>a. /\ \A x : KeyWritten(body.mentions[x].expr)' = KeyWritten(body.mentions[x].expr)
        /\ \A x : Written(body.mentions[x].expr)' = Written(body.mentions[x].expr)
    BY DEF KeyWritten, Written, IsPath
  <2>b. /\ KeyIn(cells, table[v].place)' = KeyIn(cells', t.place)
        /\ View(table[v].place)' = ViewIn(cells', t.place)
    BY DEF KeyIn, View, ViewIn, PathIn
  <2>c. /\ isBareFieldPlace(table[v].place)' = isBareFieldPlace(t.place)
        /\ Known(table[v])' = Known(t)
    BY DEF isBareFieldPlace, Known
  <2>1. /\ \A x : KeyWritten(body.mentions[x].expr)' = KeyWritten(body.mentions[x].expr)
        /\ \A x : Written(body.mentions[x].expr)' = Written(body.mentions[x].expr)
        /\ KeyIn(cells, table[v].place)' = KeyIn(cells', t.place)
        /\ View(table[v].place)' = ViewIn(cells', t.place)
        /\ isBareFieldPlace(table[v].place)' = isBareFieldPlace(t.place)
        /\ Known(table[v])' = Known(t)
    BY <2>a, <2>b, <2>c
  <2>. HIDE DEF seen, full, seenN, fullN
  <2>2. SourceIsOnly(v)'
    BY <1>4 DEF SourceIsOnly, seenN, fullN
  <2>3. (BareUntilFull(v) /\ Sourceless(v) /\ Sourced(v) /\ Unnamed(v))'
    BY <1>4, <2>1 DEF BareUntilFull, Sourceless, Sourced, Unnamed, seenN, fullN
  <2>4. (OneName(v) /\ NamedBy(v))'
    BY <1>4, <2>1 DEF OneName, NamedBy, seenN, fullN
  <2>. QED
    BY <1>4, <2>2, <2>3, <2>4 DEF Named
<1>. HIDE DEF seen, full, seenN, fullN, r, t, bare
<1>5. CASE /\ OtherPlace(cells', r, p) /\ ~isBareFieldPlace(r.place) /\ isBareFieldPlace(p)
           /\ t = r
  <2>1. bare /\ Known(r) /\ fullN = full
    BY <1>1, <1>5 DEF OtherPlace, bare
  <2>. QED
    BY <1>0, <1>2, <1>3, <1>5, <2>1
<1>6. CASE /\ OtherPlace(cells', r, p) /\ (isBareFieldPlace(r.place) <=> isBareFieldPlace(p))
           /\ t = Confused(r)
  <2>1. t.place = r.place /\ t.ambiguous /\ t.unsure /\ t.source = 0
    <3>1. t = [place |-> r.place, ambiguous |-> TRUE, source |-> 0, unsure |-> TRUE]
      BY <1>0, <1>6 DEF Confused, EntryRecord
    <3>. QED
      BY <3>1
  <2>2. Known(r) /\ Known(t) /\ (isBareFieldPlace(r.place) => fullN = full)
    BY <1>1, <1>6, <2>1 DEF OtherPlace, bare, Known
  <2>. QED
    BY <1>2, <1>3, <2>1, <2>2
<1>7. CASE /\ ~OtherPlace(cells', r, p) \/ (isBareFieldPlace(r.place) /\ ~isBareFieldPlace(p))
           /\ t = setValueSource(PlacedAt(r, p), m)
  <2>. DEFINE u == PlacedAt(r, p)
  <2>1. u = [place |-> p, ambiguous |-> r.ambiguous, source |-> r.source, unsure |-> r.unsure]
    BY <1>0 DEF PlacedAt, EntryRecord
  <2>. HIDE DEF u
  <2>2. u.place = p /\ u.source = r.source
    BY <2>1
  <2>3. (u.ambiguous <=> r.ambiguous) /\ (u.unsure <=> r.unsure)
    BY <2>1
  <2>4. m # 0 /\ m \in 0..Len(body.mentions)
    BY <1>0
  <2>5. /\ t.place = p /\ (t.ambiguous <=> r.ambiguous)
        /\ r.unsure => t.source = 0 /\ t.unsure
        /\ ~r.unsure /\ r.source \in {0, m} => t.source = m /\ ~t.unsure
        /\ ~r.unsure /\ r.source \notin {0, m} => t.source = 0 /\ t.unsure
        /\ t.unsure => t.source = 0
    <3>1. CASE r.unsure
      <4>1. t = u
        BY <1>7, <2>3, <3>1 DEF setValueSource, u
      <4>. QED
        BY <1>0, <2>2, <2>3, <3>1, <4>1
    <3>2. CASE ~r.unsure /\ r.source \in {0, m}
      <4>1. t = [u EXCEPT !.source = m]
        BY <1>7, <2>2, <2>3, <2>4, <3>2 DEF setValueSource, u
      <4>2. t = [place |-> p, ambiguous |-> r.ambiguous, source |-> m, unsure |-> r.unsure]
        BY <2>1, <4>1
      <4>. QED
        BY <2>4, <3>2, <4>2
    <3>3. CASE ~r.unsure /\ r.source \notin {0, m}
      <4>1. t = [u EXCEPT !.unsure = TRUE, !.source = 0]
        BY <1>7, <2>2, <2>3, <2>4, <3>3 DEF setValueSource, u
      <4>2. t = [place |-> p, ambiguous |-> r.ambiguous, source |-> 0, unsure |-> TRUE]
        BY <2>1, <4>1
      <4>. QED
        BY <2>4, <3>3, <4>2
    <3>. QED
      BY <3>1, <3>2, <3>3
  <2>6. Known(t)
    BY <2>5 DEF Known
  <2>7. Known(r) /\ ~OtherPlace(cells', r, p) => KeyIn(cells', r.place) = KeyIn(cells', p)
    BY DEF OtherPlace
  <2>8. KeyIn(cells', r.place) = KeyIn(cells', p) => r.place.root = p.root
    BY DEF KeyIn
  <2>9. isBareFieldPlace(p) => full = {} /\ fullN = {}
    BY <1>1, <1>3, <1>7, <2>7, <2>8 DEF bare
  <2>10. r.source # 0 => r.source # m
    BY <1>2, <1>3 DEF seen
  <2>11. isBareFieldPlace(p) /\ r.source = 0 /\ ~r.unsure => seen = {}
    BY <1>3, <1>7, <2>7, <2>8
  <2>12. ~isBareFieldPlace(p) => fullN = full \cup {m}
    BY <1>1 DEF bare
  <2>13. \A x \in fullN : ~r.ambiguous => KeyWritten(body.mentions[x].expr) = KeyIn(cells', p)
    BY <1>2, <1>3, <1>7, <2>7, <2>9, <2>12
  <2>14. t.source # 0 => IF fullN = {} THEN seenN = {t.source} ELSE fullN = {t.source}
    BY <1>2, <1>3, <2>5, <2>9, <2>10, <2>11, <2>12
  <2>15. t.source = 0 /\ ~t.unsure => FALSE
    BY <2>4, <2>5
  <2>16. \E x \in seenN : Written(body.mentions[x].expr) = ViewIn(cells', t.place)
    <3>1. ViewIn(cells', t.place) = ViewIn(cells', p)
      BY <2>5
    <3>. QED
      BY <1>2, <3>1
  <2>. QED
    BY <1>2, <2>5, <2>6, <2>9, <2>12, <2>13, <2>14, <2>15, <2>16
<1>. QED
  BY <1>5, <1>6, <1>7, SeedCases DEF r, t

\* An expression is looked at, or left out as the target of an assignment.
LEMMA MentionInvAt ==
    ASSUME PInv, SeedMention,
           NEW m, m = next, NEW e, e = body.mentions[m].expr, NEW v, v = body.mentions[m].value,
           NEW p, p = resolveRootPlace(cells, e), NEW brrays, brrays = exprCells(cells, e)
    PROVE  PInv'
PROOF
<1>0. /\ Basic /\ IsBody(body) /\ Len(body.values) \in Nat /\ Len(body.mentions) \in Nat
      /\ DOMAIN table = 1..Len(body.values) /\ Len(Capacity) \in Nat
      /\ phase = "mentions" /\ phase' = phase /\ m \in 1..Len(body.mentions)
      /\ m \in DOMAIN body.mentions /\ next' = m + 1
      /\ body' = body /\ v \in DOMAIN table /\ cells \in Arrays
  <2>1. /\ Basic /\ IsBody(body) /\ Len(body.values) \in Nat /\ Len(body.mentions) \in Nat
        /\ DOMAIN table = 1..Len(body.values) /\ Len(Capacity) \in Nat
        /\ DOMAIN body.mentions = 1..Len(body.mentions)
    BY BodyFacts DEF PInv, Basic
  <2>2. /\ phase = "mentions" /\ phase' = phase /\ m \in 1..Len(body.mentions)
        /\ next' = m + 1 /\ body' = body
    BY <2>1 DEF SeedMention, Basic
  <2>. QED
    BY <2>1, <2>2 DEF IsBody, Basic
<1>1. Seeding /\ Seeding'
  BY <1>0 DEF Seeding
<1>2. \A w : MentionsOf(w)' = MentionsOf(w)
  BY <1>0 DEF MentionsOf
<1>3. \A w : MentionsOf(w) \subseteq 1..Len(body.mentions)
  BY <1>0, BodyFacts DEF MentionsOf
<1>4. \A w : Seen(w)' = Seen(w) \cup ({m} \cap MentionsOf(w))
  BY <1>0, <1>1, <1>2, <1>3 DEF Seen
<1>5. /\ table[v] \in EntryRecord /\ IsPlace(cells, table[v].place)
      /\ (table[v].unsure => table[v].source = 0)
      /\ table[v].place.projection.len + Len(body.values) <= Len(Capacity)
      /\ SourceIsOnly(v) /\ Named(v)
  BY <1>0, <1>1 DEF PInv, Basic, RoomLeft, Original
<1>6. next' \in 1..(Len(body.mentions) + 1)
  BY <1>0
<1>7. CASE body.mentions[m].skip
  <2>1. table' = table /\ cells' = cells
    BY <1>7 DEF SeedMention
  <2>2. \A w : Seen(w)' = Seen(w)
    BY <1>4, <1>7 DEF MentionsOf
  <2>3. Named(v)'
    <3>1. PathIn(cells', table[v].place) = PathIn(cells, table[v].place)
      BY <2>1
    <3>. QED
      BY <1>0, <1>5, <2>1, <2>2, <3>1, NamedKept
  <2>4. SourceIsOnly(v)'
    <3>1. FullSeen(v)' = FullSeen(v)
      BY <1>0, <2>2 DEF FullSeen, IsBareField
    <3>. QED
      BY <1>5, <2>1, <2>2, <3>1 DEF SourceIsOnly
  <2>. QED
    BY <1>0, <1>1, <1>5, <1>6, <2>1, <2>2, <2>3, <2>4, SeedStep
<1>8. CASE ~body.mentions[m].skip
  <2>1. IsExpr(e) /\ Len(e.steps) + Len(body.values) <= Len(Capacity) /\ Len(e.steps) \in Nat
    <3>1. /\ e.root \in Variables \cup FieldNames /\ e.steps \in Seq(FieldNames \cup {"[]"})
          /\ e.root \in FieldNames => e.steps = <<>>
          /\ Len(e.steps) + Len(body.values) <= Len(Capacity)
      BY <1>0 DEF IsBody
    <3>2. Len(e.steps) \in Nat
      BY <3>1, LenProperties
    <3>3. Len(e.steps) <= Len(Capacity)
      <4>. DEFINE l == Len(e.steps)
                  k == Len(body.values)
                  c == Len(Capacity)
      <4>1. l \in Nat /\ k \in Nat /\ c \in Nat /\ l + k <= c
        BY <1>0, <3>1, <3>2
      <4>. HIDE DEF l, k, c
      <4>2. l <= c
        BY <4>1
      <4>. QED
        BY <4>2 DEF l, c
    <3>. QED
      BY <3>1, <3>2, <3>3 DEF IsExpr
  <2>2. /\ cells' = brrays
        /\ table' = [table EXCEPT ![v] = setValuePlaceWithSource(brrays, table[v], p, m)]
    BY <1>8 DEF SeedMention
  <2>3. /\ brrays \in Arrays /\ IsPlace(brrays, p) /\ p.root = e.root /\ p.root # "nil"
        /\ PathIn(brrays, p) = Written(e).path /\ p.collapsed = Written(e).collapsed
        /\ p.projection.len <= Len(e.steps)
        /\ p.projection.len > 0 => p.projection.array = Len(cells) + 1
        /\ isBareFieldPlace(p) <=> IsBareField(e)
        /\ isBareFieldPlace(p) <=> p.root \in FieldNames
        /\ \A q : IsPlace(cells, q) =>
              IsPlace(brrays, q) /\ PathIn(brrays, q) = PathIn(cells, q)
    BY <1>0, <2>1, ExprFacts
  <2>4. /\ DOMAIN table' = DOMAIN table
        /\ \A w \in DOMAIN table : w # v => table'[w] = table[w]
        /\ table'[v] = setValuePlaceWithSource(cells', table[v], p, m)
    BY <1>0, <2>2
  <2>5. Seen(v)' = Seen(v) \cup {m} /\ m \notin Seen(v)
        /\ \A w \in DOMAIN table : w # v => Seen(w)' = Seen(w)
    <3>1. m \in MentionsOf(v) /\ \A w : w # v => m \notin MentionsOf(w)
      BY <1>0, <1>8 DEF MentionsOf
    <3>2. m \notin Seen(v)
      BY <1>0, <1>1 DEF Seen
    <3>. QED
      BY <1>4, <3>1, <3>2
  <2>6. p \in PlaceRecord
    BY <2>3 DEF IsPlace
  <2>7. table'[v] \in EntryRecord
    <3>. DEFINE r == table[v]
                t == setValuePlaceWithSource(cells', r, p, m)
    <3>1. /\ r.place \in PlaceRecord /\ r.ambiguous \in BOOLEAN
          /\ r.source \in 0..Len(body.mentions) /\ r.unsure \in BOOLEAN
      BY <1>5 DEF EntryRecord
    <3>. HIDE DEF r
    <3>2. CASE t = r
      BY <1>5, <2>4, <3>2 DEF r
    <3>3. CASE t = Confused(r)
      <4>1. t = [place |-> r.place, ambiguous |-> TRUE, source |-> 0, unsure |-> TRUE]
        BY <1>5, <3>3 DEF Confused, EntryRecord, r
      <4>2. 0 \in 0..Len(body.mentions)
        BY <1>0
      <4>. QED
        BY <2>4, <3>1, <4>1, <4>2 DEF EntryRecord, r
    <3>4. CASE t = setValueSource(PlacedAt(r, p), m)
      <4>1. PlacedAt(r, p) = [place |-> p, ambiguous |-> r.ambiguous, source |-> r.source,
                              unsure |-> r.unsure]
        BY <1>5 DEF PlacedAt, EntryRecord, r
      <4>. DEFINE u == PlacedAt(r, p)
      <4>2. u \in EntryRecord
        BY <2>6, <3>1, <4>1 DEF EntryRecord
      <4>3. u.source = r.source /\ (u.unsure <=> r.unsure)
        BY <4>1
      <4>4. u.unsure => u.source = 0
        BY <1>5, <4>3 DEF r
      <4>5. m \in 0..Len(body.mentions)
        BY <1>0
      <4>. HIDE DEF u
      <4>6. setValueSource(u, m) \in EntryRecord
        BY <1>0, <4>2, <4>4, <4>5, SourceCases
      <4>. QED
        BY <2>4, <3>4, <4>6 DEF u, r
    <3>5. t = r \/ t = Confused(r) \/ t = setValueSource(PlacedAt(r, p), m)
      BY SeedCases
    <3>. QED
      BY <3>2, <3>3, <3>4, <3>5
  <2>8. /\ KeyIn(cells', p) = KeyWritten(e)
        /\ ViewIn(cells', p) = Written(e)
        /\ KeyIn(cells', table[v].place) = KeyIn(cells, table[v].place)
        /\ ViewIn(cells', table[v].place) = ViewIn(cells, table[v].place)
    <3>1. KeyIn(cells', p) = KeyWritten(e)
      BY <2>2, <2>3 DEF KeyIn, KeyWritten
    <3>2. ViewIn(cells', p) = [root |-> e.root, path |-> Written(e).path,
                               collapsed |-> Written(e).collapsed]
      BY <2>2, <2>3 DEF ViewIn
    <3>3. Written(e) = [root |-> e.root, path |-> Written(e).path,
                        collapsed |-> Written(e).collapsed]
      BY DEF Written
    <3>4. PathIn(cells', table[v].place) = PathIn(cells, table[v].place)
      BY <1>5, <2>2, <2>3
    <3>. QED
      BY <3>1, <3>2, <3>3, <3>4 DEF KeyIn, ViewIn
  <2>9. /\ SourceIsOnly(v)' /\ Named(v)' /\ (table'[v].unsure => table'[v].source = 0)
        /\ table'[v].place \in {p, table[v].place}
    <3>1. /\ KeyIn(cells', p) = KeyWritten(body.mentions[m].expr)
          /\ ViewIn(cells', p) = Written(body.mentions[m].expr)
          /\ isBareFieldPlace(p) <=> IsBareField(body.mentions[m].expr)
      BY <2>3, <2>8
    <3>2. isBareFieldPlace(p) <=> p.root \in FieldNames
      BY <2>3
    <3>3. p.root # "nil"
      BY <2>3
    <3>4. /\ Seeding /\ v \in DOMAIN table /\ m \in DOMAIN body.mentions /\ body' = body
          /\ table'[v] \in EntryRecord
          /\ table'[v] = setValuePlaceWithSource(cells', table[v], p, m)
          /\ Seen(v)' = Seen(v) \cup {m} /\ m \notin Seen(v)
          /\ KeyIn(cells', table[v].place) = KeyIn(cells, table[v].place)
          /\ ViewIn(cells', table[v].place) = ViewIn(cells, table[v].place)
      BY <1>0, <1>1, <2>4, <2>5, <2>7, <2>8
    <3>. QED
      BY <3>1, <3>2, <3>3, <3>4, MentionNames, ZenonT(60)
  <2>10. p.projection.len + Len(body.values) <= Len(Capacity) /\ p.projection.len \in Nat
    <3>. DEFINE l == Len(e.steps)
                k == Len(body.values)
                c == Len(Capacity)
                n == p.projection.len
    <3>1. n \in Nat
      BY <2>6 DEF PlaceRecord
    <3>2. l \in Nat /\ k \in Nat /\ c \in Nat /\ l + k <= c /\ n <= l
      BY <1>0, <2>1, <2>3
    <3>. HIDE DEF l, k, c, n
    <3>3. n + k <= c
      BY <3>1, <3>2
    <3>. QED
      BY <3>1, <3>3 DEF k, c, n
  <2>11. IsPlace(cells', table'[v].place)
         /\ table'[v].place.projection.len + Len(body.values) <= Len(Capacity)
    BY <1>5, <2>2, <2>3, <2>9, <2>10
  <2>12. \/ table'[v].place = table[v].place
         \/ table'[v].place.projection.len = 0
         \/ table'[v].place.projection.array = Len(cells) + 1
    BY <2>3, <2>9, <2>10
  <2>13. cells' \in Arrays
         /\ \A q : IsPlace(cells, q) =>
               IsPlace(cells', q) /\ PathIn(cells', q) = PathIn(cells, q)
    BY <2>2, <2>3
  <2>. QED
    BY <1>0, <1>1, <1>6, <2>4, <2>5, <2>7, <2>9, <2>11, <2>12, <2>13, SeedStep
<1>. QED
  BY <1>7, <1>8

\* In every state there are such names.
LEMMA MentionInv == ASSUME PInv, SeedMention PROVE PInv'
PROOF
<1>1. \E m, e, v, p, brrays :
         /\ m = next /\ e = body.mentions[m].expr /\ v = body.mentions[m].value
         /\ p = resolveRootPlace(cells, e) /\ brrays = exprCells(cells, e)
  OBVIOUS
<1>. QED
  BY <1>1, MentionInvAt

---------------------------------------------------------------------------
(* From one phase to the next.                                             *)

\* With the last global seeded the expressions come, from the first one on.
LEMMA GlobalsSeededInv == ASSUME PInv, GlobalsSeeded PROVE PInv'
PROOF
<1>0. /\ Basic /\ phase = "globals" /\ phase' = "mentions" /\ next = 1 /\ next' = 1
      /\ body' = body /\ table' = table /\ cells' = cells
      /\ Len(body.mentions) \in Nat /\ Len(body.values) \in Nat
  BY BodyFacts DEF PInv, GlobalsSeeded, Basic
<1>1. Seeding /\ Seeding'
  BY <1>0 DEF Seeding
<1>2. \A v : Seen(v)' = Seen(v)
  BY <1>0, <1>1 DEF Seen, MentionsOf
<1>3. \A v : FullSeen(v)' = FullSeen(v)
  BY <1>0, <1>2 DEF FullSeen, IsBareField
<1>4. Basic'
  <2>1. EntryRecord' = EntryRecord
    BY <1>0 DEF EntryRecord
  <2>. QED
    BY <1>0, <2>1 DEF Basic
<1>5. RoomLeft'
  BY <1>0, <1>1 DEF PInv, RoomLeft
<1>6. \A v \in DOMAIN table : SourceIsOnly(v)'
  BY <1>0, <1>2, <1>3 DEF PInv, SourceIsOnly
<1>7. \A v \in DOMAIN table : Named(v)'
  <2>. SUFFICES ASSUME NEW v \in DOMAIN table PROVE Named(v)'
    OBVIOUS
  <2>1. Named(v)
    BY <1>1 DEF PInv, Original
  <2>2. PathIn(cells', table[v].place) = PathIn(cells, table[v].place)
    BY <1>0
  <2>3. table'[v] = table[v] /\ Seen(v)' = Seen(v)
    BY <1>0, <1>2
  <2>. QED
    BY <1>0, <2>1, <2>2, <2>3, NamedKept
<1>8. \A v, w \in DOMAIN table : v # w => LongerOnOneArray(v, w)'
  BY <1>0, <1>1 DEF PInv, Original, LongerOnOneArray
<1>9. \A v \in DOMAIN table : Original(v)'
  BY <1>1 DEF Original
<1>. QED
  BY <1>0, <1>4, <1>5, <1>6, <1>7, <1>8, <1>9 DEF PInv

\* With the last expression seen every expression is seen, and the rules are
\* still to come.
LEMMA MentionsSeededInv == ASSUME PInv, MentionsSeeded PROVE PInv'
PROOF
<1>0. /\ Basic /\ phase = "mentions" /\ phase' = "propagate"
      /\ next = Len(body.mentions) + 1 /\ next' = 1
      /\ body' = body /\ table' = table /\ cells' = cells
      /\ Len(body.mentions) \in Nat /\ Len(body.values) \in Nat
      /\ DOMAIN body.mentions = 1..Len(body.mentions)
      /\ DOMAIN table = 1..Len(body.values)
  <2>1. /\ Len(body.mentions) \in Nat /\ Len(body.values) \in Nat
        /\ DOMAIN body.mentions = 1..Len(body.mentions)
        /\ DOMAIN table = 1..Len(body.values)
    BY BodyFacts DEF PInv, Basic
  <2>2. next \in 1..(Len(body.mentions) + 1) /\ next > Len(body.mentions)
    BY DEF PInv, MentionsSeeded, Basic
  <2>. QED
    BY <2>1, <2>2 DEF PInv, MentionsSeeded
<1>1. Seeding /\ ~Seeding'
  BY <1>0 DEF Seeding
<1>2. \A v : Seen(v)' = Seen(v)
  <2>. SUFFICES ASSUME NEW v PROVE Seen(v)' = Seen(v)
    OBVIOUS
  <2>1. MentionsOf(v)' = MentionsOf(v) /\ MentionsOf(v) \subseteq 1..Len(body.mentions)
    BY <1>0 DEF MentionsOf
  <2>2. Seen(v)' = MentionsOf(v)
    BY <1>1, <2>1 DEF Seen
  <2>3. Seen(v) = MentionsOf(v)
    BY <1>0, <1>1, <2>1 DEF Seen
  <2>. QED
    BY <2>2, <2>3
<1>3. \A v : FullSeen(v)' = FullSeen(v)
  BY <1>0, <1>2 DEF FullSeen, IsBareField
<1>4. Basic'
  <2>1. EntryRecord' = EntryRecord
    BY <1>0 DEF EntryRecord
  <2>2. next' \in 1..(Len(body.values) + 1)
    BY <1>0
  <2>. QED
    BY <1>0, <2>1, <2>2 DEF Basic
<1>5. RoomLeft'
  <2>1. \A v \in DOMAIN table :
            table[v].place.projection.len + Len(body.values) <= Len(Capacity)
    BY <1>1 DEF PInv, RoomLeft
  <2>2. Len(body.values) + 1 - 1 = Len(body.values)
    BY <1>0
  <2>. QED
    BY <1>0, <1>1, <2>1, <2>2 DEF RoomLeft
<1>6. \A v \in DOMAIN table : SourceIsOnly(v)'
  BY <1>0, <1>2, <1>3 DEF PInv, SourceIsOnly
<1>7. \A v \in DOMAIN table : Named(v)'
  <2>. SUFFICES ASSUME NEW v \in DOMAIN table PROVE Named(v)'
    OBVIOUS
  <2>1. Named(v)
    BY <1>1 DEF PInv, Original
  <2>2. PathIn(cells', table[v].place) = PathIn(cells, table[v].place)
    BY <1>0
  <2>3. table'[v] = table[v] /\ Seen(v)' = Seen(v)
    BY <1>0, <1>2
  <2>. QED
    BY <1>0, <2>1, <2>2, <2>3, NamedKept
<1>8. \A v, w \in DOMAIN table : v # w => LongerOnOneArray(v, w)'
  BY <1>0, <1>1 DEF PInv, Original, LongerOnOneArray
<1>9. \A v \in DOMAIN table : Original(v)'
  BY <1>0 DEF Original
<1>. QED
  BY <1>0, <1>4, <1>5, <1>6, <1>7, <1>8, <1>9 DEF PInv

\* With the last instruction looked at nothing changes any more.
LEMMA PropagatedInv == ASSUME PInv, Propagated PROVE PInv'
PROOF
<1>0. /\ Basic /\ phase = "propagate" /\ phase' = "placed"
      /\ next = Len(body.values) + 1 /\ next' = next
      /\ body' = body /\ table' = table /\ cells' = cells
      /\ Len(body.mentions) \in Nat /\ Len(body.values) \in Nat
      /\ DOMAIN table = 1..Len(body.values)
  <2>1. /\ Len(body.mentions) \in Nat /\ Len(body.values) \in Nat
        /\ DOMAIN table = 1..Len(body.values)
    BY BodyFacts DEF PInv, Basic
  <2>2. next \in 1..(Len(body.values) + 1) /\ next > Len(body.values)
    BY DEF PInv, Propagated, Basic
  <2>. QED
    BY <2>1, <2>2 DEF PInv, Propagated
<1>1. ~Seeding /\ ~Seeding'
  BY <1>0 DEF Seeding
<1>2. \A v : Seen(v)' = Seen(v)
  BY <1>0, <1>1 DEF Seen, MentionsOf
<1>3. \A v : FullSeen(v)' = FullSeen(v)
  BY <1>0, <1>2 DEF FullSeen, IsBareField
<1>4. Basic'
  <2>1. EntryRecord' = EntryRecord
    BY <1>0 DEF EntryRecord
  <2>. QED
    BY <1>0, <2>1 DEF Basic
<1>5. RoomLeft'
  BY <1>0, <1>1 DEF PInv, RoomLeft
<1>6. \A v \in DOMAIN table : SourceIsOnly(v)'
  BY <1>0, <1>2, <1>3 DEF PInv, SourceIsOnly
<1>7. \A v : Original(v)' <=> Original(v)
  BY <1>0, <1>1 DEF Original
<1>8. \A v \in DOMAIN table : Original(v) => Named(v)'
  <2>. SUFFICES ASSUME NEW v \in DOMAIN table, Original(v) PROVE Named(v)'
    OBVIOUS
  <2>1. Named(v)
    BY DEF PInv
  <2>2. PathIn(cells', table[v].place) = PathIn(cells, table[v].place)
    BY <1>0
  <2>3. table'[v] = table[v] /\ Seen(v)' = Seen(v)
    BY <1>0, <1>2
  <2>. QED
    BY <1>0, <2>1, <2>2, <2>3, NamedKept
<1>9. \A v \in DOMAIN table : Original(v) =>
         \A w \in DOMAIN table \ {v} : LongerOnOneArray(v, w)'
  BY <1>0 DEF PInv, LongerOnOneArray
<1>10. \A v \in DOMAIN table : ~Original(v) => Explained(v)'
  <2>. SUFFICES ASSUME NEW v \in DOMAIN table, ~Original(v) PROVE Explained(v)'
    OBVIOUS
  <2>1. Explained(v)
    BY DEF PInv
  <2>. QED
    BY <1>0, <2>1 DEF Explained, ByPhi, ByRule, Mentioned, MentionsOf, View, KeyIn, PathIn, Ruled
<1>. QED
  BY <1>0, <1>4, <1>5, <1>6, <1>7, <1>8, <1>9, <1>10 DEF PInv

---------------------------------------------------------------------------
(* Rules.                                                                  *)

\* What is known of the instruction to look at next.
LEMMA NextFacts ==
    ASSUME PInv, phase = "propagate", NEW n, n = next, n <= Len(body.values),
           body.values[n].op # "root"
    PROVE  /\ Basic /\ IsBody(body) /\ n \in DOMAIN table /\ n \in Nat
           /\ Len(body.values) \in Nat /\ Len(body.mentions) \in Nat /\ Len(Capacity) \in Nat
           /\ DOMAIN table = DOMAIN body.values /\ cells \in Arrays
           /\ table[n] \in EntryRecord /\ IsPlace(cells, table[n].place)
           /\ table[n].unsure => table[n].source = 0
           /\ Original(n) /\ ~Seeding
           /\ SourceIsOnly(n)
           /\ table[n].source = 0 /\ ~table[n].unsure => Seen(n) = {}
           /\ Known(table[n]) => Mentioned(n)
           /\ body.values[n].op \in Rules => body.values[n].x \in DOMAIN table
PROOF
<1>1. /\ Basic /\ IsBody(body) /\ Len(body.values) \in Nat /\ Len(body.mentions) \in Nat
      /\ Len(Capacity) \in Nat /\ DOMAIN body.values = 1..Len(body.values)
      /\ DOMAIN table = DOMAIN body.values
  BY BodyFacts DEF PInv, Basic
<1>2. n \in 1..(Len(body.values) + 1)
  BY <1>1 DEF Basic
<1>3. n \in DOMAIN table /\ n \in Nat
  BY <1>1, <1>2
<1>4. /\ table[n] \in EntryRecord /\ IsPlace(cells, table[n].place) /\ cells \in Arrays
      /\ table[n].unsure => table[n].source = 0
  BY <1>1, <1>3 DEF Basic
<1>5. Original(n) /\ ~Seeding
  BY <1>3 DEF Original, Seeding
<1>6. Named(n) /\ SourceIsOnly(n)
  BY <1>3, <1>5 DEF PInv
<1>7. n \notin DOMAIN body.globals
  BY <1>1 DEF IsBody
<1>8. table[n].source = 0 /\ ~table[n].unsure => Seen(n) = {}
  BY <1>6, <1>7 DEF Named, Sourceless, Unnamed
<1>9. Known(table[n]) => Mentioned(n)
  BY <1>6, <1>7 DEF Named, NamedBy, Mentioned, Seen
<1>10. body.values[n].op \in Rules => body.values[n].x \in DOMAIN table
  BY <1>1, <1>3 DEF IsBody
<1>. QED
  BY <1>1, <1>3, <1>4, <1>5, <1>6, <1>8, <1>9, <1>10

\* An instruction may hold the place of any other: nobody loses the room or the
\* order on an array by it.
LEMMA TakenPlace ==
    ASSUME PInv, phase = "propagate", NEW n \in DOMAIN table, n = next,
           NEW x \in DOMAIN table
    PROVE  /\ IsPlace(cells, table[x].place)
           /\ table[x].place.projection.len + Len(body.values) - n <= Len(Capacity)
           /\ \A v \in DOMAIN table : v # n /\ Original(v) =>
                 ((table[v].place.projection.len > 0 /\ table[x].place.projection.len > 0
                  /\ table[v].place.projection.array = table[x].place.projection.array)
                 => table[v].place.projection.len <= table[x].place.projection.len)
PROOF
<1>1. IsPlace(cells, table[x].place) /\ table[x].place.projection.len \in Nat
  BY DEF PInv, Basic, IsPlace, PlaceRecord
<1>2. table[x].place.projection.len + Len(body.values) - n <= Len(Capacity)
  <2>. DEFINE l == table[x].place.projection.len
              k == Len(body.values)
              c == Len(Capacity)
  <2>1. l \in Nat /\ k \in Nat /\ c \in Nat /\ n \in Nat /\ l + (k + 1 - n) <= c
    BY <1>1, BodyFacts DEF PInv, RoomLeft, Basic, Seeding
  <2>. HIDE DEF l, k, c
  <2>2. l + k - n <= c
    BY <2>1
  <2>. QED
    BY <2>2 DEF l, k, c
<1>3. ASSUME NEW v \in DOMAIN table, v # n, Original(v),
             table[v].place.projection.len > 0, table[x].place.projection.len > 0,
             table[v].place.projection.array = table[x].place.projection.array
      PROVE  table[v].place.projection.len <= table[x].place.projection.len
  <2>1. CASE v = x
    BY <1>1, <2>1
  <2>2. CASE v # x
    BY <1>3, <2>2 DEF PInv, LongerOnOneArray
  <2>. QED
    BY <2>1, <2>2
<1>. QED
  BY <1>1, <1>2, <1>3

\* An entry that gets the place of another, or one without a projection.
LEMMA TakeStep ==
    ASSUME PInv, phase = "propagate", NEW n, n = next, n <= Len(body.values),
           body.values[n].op # "root",
           body' = body, phase' = phase, next' = n + 1, cells' = cells,
           NEW t, t \in EntryRecord, t.unsure => t.source = 0,
           DOMAIN table' = DOMAIN table, table'[n] = t,
           \A w \in DOMAIN table : w # n => table'[w] = table[w],
           NEW x \in DOMAIN table,
           \/ t.place = table[x].place
           \/ IsPlace(cells, t.place) /\ t.place.projection = NoProjection,
           t.source \in {0, table[n].source} \/ Seen(n) = {},
           Explained(n)'
    PROVE  PInv'
PROOF
<1>0. /\ Basic /\ IsBody(body) /\ n \in DOMAIN table /\ n \in Nat
      /\ Len(body.values) \in Nat /\ Len(Capacity) \in Nat /\ cells \in Arrays
      /\ DOMAIN table = 1..Len(body.values) /\ ~Seeding /\ SourceIsOnly(n)
  BY NextFacts, BodyFacts
<1>1. /\ DOMAIN table' = DOMAIN table /\ table'[n] = t
      /\ \A w \in DOMAIN table : w # n => table'[w] = table[w]
  BY <1>0
<1>2. \A w \in DOMAIN table : IsPlace(cells', table[w].place)
  BY <1>0 DEF Basic
<1>3. \A w : PathIn(cells', table[w].place) = PathIn(cells, table[w].place)
  OBVIOUS
<1>4. /\ IsPlace(cells, t.place)
      /\ t.place.projection.len + Len(body.values) - n <= Len(Capacity)
      /\ \A v \in DOMAIN table : v # n /\ Original(v) =>
            ((table[v].place.projection.len > 0 /\ t.place.projection.len > 0
             /\ table[v].place.projection.array = t.place.projection.array)
            => table[v].place.projection.len <= t.place.projection.len)
  <2>1. CASE t.place = table[x].place
    BY <1>0, <2>1, TakenPlace
  <2>2. CASE IsPlace(cells, t.place) /\ t.place.projection = NoProjection
    <3>1. t.place.projection.len = 0
      BY <2>2 DEF NoProjection
    <3>2. 0 + Len(body.values) - n <= Len(Capacity)
      <4>1. Len(body.values) <= Len(Capacity)
        BY <1>0 DEF IsBody
      <4>. DEFINE k == Len(body.values)
                  c == Len(Capacity)
      <4>2. k \in Nat /\ c \in Nat /\ k <= c
        BY <1>0, <4>1
      <4>. HIDE DEF k, c
      <4>3. 0 + k - n <= c
        BY <1>0, <4>2
      <4>. QED
        BY <4>3 DEF k, c
    <3>. QED
      BY <2>2, <3>1, <3>2
  <2>. QED
    BY <2>1, <2>2
<1>5. SourceIsOnly(n)'
  <2>1. Seen(n)' = Seen(n)
    BY DEF Seen, MentionsOf, Seeding
  <2>2. FullSeen(n)' = FullSeen(n)
    BY <2>1 DEF FullSeen, IsBareField
  <2>. QED
    BY <1>0, <1>1, <2>1, <2>2 DEF SourceIsOnly
<1>6. table'[n] \in EntryRecord /\ (table'[n].unsure => table'[n].source = 0)
  BY <1>1
<1>7. IsPlace(cells', table'[n].place)
      /\ table'[n].place.projection.len + Len(body.values) - n <= Len(Capacity)
  BY <1>1, <1>4
<1>8. \A v \in DOMAIN table : v # n /\ Original(v) =>
         ((table[v].place.projection.len > 0 /\ table'[n].place.projection.len > 0
          /\ table[v].place.projection.array = table'[n].place.projection.array)
         => table[v].place.projection.len <= table'[n].place.projection.len)
  BY <1>1, <1>4
<1>9. cells' \in Arrays
  BY <1>0
<1>. QED
  BY <1>0, <1>1, <1>2, <1>3, <1>5, <1>6, <1>7, <1>8, <1>9, RuleStep

\* What a rule makes of a place explains the entry that gets it.
LEMMA ByRuleNow ==
    ASSUME NEW n, NEW x, x = body.values[n].x, body' = body,
           body.values[n].op # "phi",
           x < n => /\ Known(table'[x])
                    /\ ViewIn(cells', table'[n].place)
                       = Ruled(body.values[n], ViewIn(cells', table'[x].place))
                    /\ body.values[n].op # "store" =>
                          (table'[x].ambiguous => table'[n].ambiguous)
    PROVE  Explained(n)'
PROOF
<1>1. /\ View(table[n].place)' = ViewIn(cells', table'[n].place)
      /\ View(table[x].place)' = ViewIn(cells', table'[x].place)
  BY DEF View, ViewIn
<1>2. ByRule(n)'
  BY <1>1 DEF ByRule, Ruled, Known
<1>. QED
  BY <1>2 DEF Explained

\* No rule, or an operand without a place: the entry keeps what it had.
LEMMA NothingInv == ASSUME PInv, PropagateNothing PROVE PInv'
PROOF
<1>. SUFFICES ASSUME NEW n, n = next PROVE PInv'
  OBVIOUS
<1>0. /\ phase = "propagate" /\ phase' = phase /\ next' = n + 1 /\ n <= Len(body.values)
      /\ body' = body /\ table' = table /\ cells' = cells
      /\ \/ body.values[n].op = "root"
         \/ body.values[n].op \in Rules /\ ~Known(table[body.values[n].x])
  BY DEF PropagateNothing, At, Operand
<1>1. CASE body.values[n].op # "root"
  <2>0. /\ n \in DOMAIN table /\ table[n] \in EntryRecord
        /\ (table[n].unsure => table[n].source = 0)
        /\ (Known(table[n]) => Mentioned(n))
        /\ body.values[n].x \in DOMAIN table
        /\ ~Known(table[body.values[n].x])
    BY <1>0, <1>1, NextFacts
  <2>2. View(table[n].place)' = View(table[n].place)
    BY <1>0 DEF View, PathIn
  <2>3. Mentioned(n) => Mentioned(n)'
    BY <1>0, <2>2 DEF Mentioned, MentionsOf, Written, IsPath
  <2>4. Explained(n)'
    BY <1>0, <1>1, <2>0, <2>3 DEF Explained, ByRule, Known, Rules
  <2>. QED
    BY <1>0, <1>1, <2>0, <2>4, TakeStep
<1>2. CASE body.values[n].op = "root"
  <2>0. /\ Basic /\ IsBody(body) /\ Len(body.values) \in Nat /\ Len(body.mentions) \in Nat
        /\ Len(Capacity) \in Nat /\ DOMAIN table = 1..Len(body.values)
        /\ n \in 1..Len(body.values) /\ ~Seeding /\ ~Seeding'
    <3>1. /\ Basic /\ IsBody(body) /\ Len(body.values) \in Nat /\ Len(body.mentions) \in Nat
          /\ Len(Capacity) \in Nat /\ DOMAIN table = 1..Len(body.values)
      BY BodyFacts DEF PInv, Basic
    <3>2. n \in 1..(Len(body.values) + 1)
      BY <1>0, <3>1 DEF Basic
    <3>3. n \in 1..Len(body.values)
      BY <1>0, <3>1, <3>2
    <3>. QED
      BY <1>0, <3>1, <3>3 DEF Seeding
  <2>1. Basic'
    <3>1. EntryRecord' = EntryRecord
      BY <1>0 DEF EntryRecord
    <3>2. next' \in 1..(Len(body.values) + 1)
      BY <1>0, <2>0
    <3>. QED
      BY <1>0, <2>0, <3>1, <3>2 DEF Basic
  <2>2. \A v \in DOMAIN table : Original(v)' <=> Original(v)
    BY <1>0, <1>2, <2>0 DEF Original
  <2>3. \A v : Seen(v)' = Seen(v)
    BY <1>0, <2>0 DEF Seen, MentionsOf
  <2>4. \A v : FullSeen(v)' = FullSeen(v)
    BY <1>0, <2>3 DEF FullSeen, IsBareField
  <2>5. RoomLeft'
    <3>. SUFFICES ASSUME NEW v \in DOMAIN table
                  PROVE  table[v].place.projection.len + (Len(body.values) + 1 - (n + 1)) <= Len(Capacity)
      BY <1>0, <2>0 DEF RoomLeft
    <3>. DEFINE l == table[v].place.projection.len
                k == Len(body.values)
                c == Len(Capacity)
    <3>1. l \in Nat /\ k \in Nat /\ c \in Nat /\ n \in Nat /\ l + (k + 1 - n) <= c
      BY <1>0, <2>0 DEF PInv, RoomLeft, Basic, EntryRecord, PlaceRecord
    <3>. HIDE DEF l, k, c
    <3>2. l + (k + 1 - (n + 1)) <= c
      BY <3>1
    <3>. QED
      BY <3>2 DEF l, k, c
  <2>6. \A v \in DOMAIN table : SourceIsOnly(v)'
    BY <1>0, <2>3, <2>4 DEF PInv, SourceIsOnly
  <2>7. \A v \in DOMAIN table : Original(v) => Named(v)'
    <3>. SUFFICES ASSUME NEW v \in DOMAIN table, Original(v) PROVE Named(v)'
      OBVIOUS
    <3>1. Named(v)
      BY DEF PInv
    <3>2. PathIn(cells', table[v].place) = PathIn(cells, table[v].place)
      BY <1>0
    <3>3. table'[v] = table[v] /\ Seen(v)' = Seen(v)
      BY <1>0, <2>3
    <3>. QED
      BY <1>0, <3>1, <3>2, <3>3, NamedKept
  <2>8. \A v \in DOMAIN table : Original(v) =>
           \A w \in DOMAIN table \ {v} : LongerOnOneArray(v, w)'
    BY <1>0 DEF PInv, LongerOnOneArray
  <2>9. \A v \in DOMAIN table : ~Original(v) => Explained(v)'
    <3>. SUFFICES ASSUME NEW v \in DOMAIN table, ~Original(v) PROVE Explained(v)'
      OBVIOUS
    <3>1. Explained(v)
      BY DEF PInv
    <3>. QED
      BY <1>0, <3>1 DEF Explained, ByPhi, ByRule, Mentioned, MentionsOf, View, KeyIn, PathIn, Ruled
  <2>. QED
    BY <1>0, <2>1, <2>2, <2>5, <2>6, <2>7, <2>8, <2>9 DEF PInv
<1>. QED
  BY <1>1, <1>2

\* A copy is what its operand is, under its own name if it has one.
LEMMA CopyInv == ASSUME PInv, PropagateCopy PROVE PInv'
PROOF
<1>. SUFFICES ASSUME NEW n, n = next, NEW x, x = body.values[n].x,
                     NEW t, t = propagateValuePlace(table[n], table[x])
              PROVE PInv'
  OBVIOUS
<1>0. /\ phase = "propagate" /\ phase' = phase /\ next' = n + 1 /\ n <= Len(body.values)
      /\ body' = body /\ cells' = cells /\ body.values[n].op = "copy"
      /\ Known(table[x]) /\ table' = [table EXCEPT ![n] = t]
  BY DEF PropagateCopy, At, Operand
<1>1. /\ n \in DOMAIN table /\ table[n] \in EntryRecord
      /\ (table[n].unsure => table[n].source = 0) /\ x \in DOMAIN table
      /\ (table[n].source = 0 /\ ~table[n].unsure => Seen(n) = {})
      /\ Len(body.mentions) \in Nat /\ table[x] \in EntryRecord
  <2>1. body.values[n].op # "root" /\ body.values[n].op \in Rules
    BY <1>0 DEF Rules
  <2>2. Basic /\ x \in DOMAIN table
    BY <1>0, <2>1, NextFacts
  <2>. QED
    BY <1>0, <2>1, <2>2, NextFacts DEF Basic
<1>2. /\ t \in EntryRecord /\ (t.unsure => t.source = 0) /\ t.place = table[x].place
      /\ (table[x].ambiguous => t.ambiguous)
      /\ t.source \in {0, table[n].source} \/ Seen(n) = {}
  <2>. DEFINE d == table[n]
              s == table[x]
              placed == forceValuePlace(d, s.place)
              named == IF d.source = 0 THEN setValueSource(placed, s.source) ELSE placed
  <2>1. placed = [place |-> s.place, ambiguous |-> d.ambiguous, source |-> d.source,
                  unsure |-> d.unsure]
    BY <1>1 DEF forceValuePlace, EntryRecord
  <2>2. /\ placed \in EntryRecord /\ placed.place = s.place /\ placed.source = d.source
        /\ (placed.unsure <=> d.unsure)
    <3>1. /\ s.place \in PlaceRecord /\ d.ambiguous \in BOOLEAN
          /\ d.source \in 0..Len(body.mentions) /\ d.unsure \in BOOLEAN
      BY <1>1 DEF EntryRecord
    <3>2. placed \in EntryRecord
      BY <2>1, <3>1 DEF EntryRecord
    <3>. QED
      BY <2>1, <3>2
  <2>3. t = [named EXCEPT !.ambiguous = @ \/ s.ambiguous]
    BY DEF propagateValuePlace
  <2>4. s.source \in 0..Len(body.mentions)
    BY <1>1 DEF EntryRecord
  <2>. HIDE DEF placed
  <2>5. /\ named \in EntryRecord /\ named.place = s.place
        /\ (named.unsure => named.source = 0)
        /\ (named.source \in {0, d.source} \/ Seen(n) = {})
    <3>1. CASE d.source # 0
      BY <1>1, <2>2, <3>1
    <3>2. CASE d.source = 0
      <4>1. placed.unsure => placed.source = 0
        BY <2>2, <3>2
      <4>2. /\ named = setValueSource(placed, s.source)
        BY <3>2
      <4>3. /\ named.place = placed.place /\ named \in EntryRecord
            /\ s.source = 0 \/ placed.unsure => named = placed
            /\ named.unsure => named.source = 0
        BY <1>1, <2>2, <2>4, <4>1, <4>2, SourceCases
      <4>4. CASE d.unsure
        BY <2>2, <3>2, <4>3, <4>4
      <4>5. CASE ~d.unsure
        BY <1>1, <2>2, <3>2, <4>3, <4>5
      <4>. QED
        BY <4>4, <4>5
    <3>. QED
      BY <3>1, <3>2
  <2>6. s.ambiguous \in BOOLEAN
    BY <1>1 DEF EntryRecord
  <2>. HIDE DEF named, s, d
  <2>7. t = [place |-> named.place, ambiguous |-> named.ambiguous \/ s.ambiguous,
             source |-> named.source, unsure |-> named.unsure]
    BY <2>3, <2>5 DEF EntryRecord
  <2>8. /\ named.place \in PlaceRecord /\ named.ambiguous \in BOOLEAN
        /\ named.source \in 0..Len(body.mentions) /\ named.unsure \in BOOLEAN
    BY <2>5 DEF EntryRecord
  <2>9. t \in EntryRecord
    BY <2>7, <2>8 DEF EntryRecord
  <2>10. t.place = named.place /\ t.source = named.source
    BY <2>7
  <2>11. (t.unsure <=> named.unsure) /\ (s.ambiguous => t.ambiguous)
    <3>. DEFINE a == named.ambiguous \/ s.ambiguous
                u == named.unsure
    <3>1. t = [place |-> named.place, ambiguous |-> a, source |-> named.source, unsure |-> u]
      BY <2>7
    <3>2. a \in BOOLEAN /\ u \in BOOLEAN
      BY <2>8
    <3>. HIDE DEF a, u
    <3>3. (t.unsure <=> u) /\ (t.ambiguous <=> a)
      BY <3>1, <3>2
    <3>. QED
      BY <3>3 DEF a, u
  <2>. QED
    BY <2>5, <2>9, <2>10, <2>11 DEF s, d
<1>3. Explained(n)'
  <2>. SUFFICES ASSUME x < n
                PROVE  /\ Known(table'[x])
                       /\ ViewIn(cells', table'[n].place)
                          = Ruled(body.values[n], ViewIn(cells', table'[x].place))
                       /\ body.values[n].op # "store" =>
                             (table'[x].ambiguous => table'[n].ambiguous)
    BY <1>0, ByRuleNow
  <2>1. n \in Nat
    BY <1>0, NextFacts
  <2>2. table'[x] = table[x] /\ table'[n] = t
    BY <1>0, <1>1, <2>1
  <2>. QED
    BY <1>0, <1>2, <2>2 DEF Ruled
<1>4. /\ DOMAIN table' = DOMAIN table /\ table'[n] = t
      /\ \A w \in DOMAIN table : w # n => table'[w] = table[w]
  BY <1>0, <1>1
<1>. QED
  BY <1>0, <1>1, <1>2, <1>3, <1>4, TakeStep

Marked(r, q, s) == [forceValuePlace(r, q) EXCEPT !.ambiguous = @ \/ s.ambiguous]

\* An entry with another place.
LEMMA PlacedFacts ==
    ASSUME Basic, NEW n \in DOMAIN table, NEW q \in PlaceRecord,
           NEW t, t = forceValuePlace(table[n], q)
    PROVE  /\ t \in EntryRecord /\ t.place = q /\ t.source = table[n].source
           /\ t.unsure => t.source = 0
PROOF
<1>. DEFINE r == table[n]
            b == r.ambiguous
            u == r.unsure
            d == r.source
<1>0. r \in EntryRecord
  BY DEF Basic
<1>1. b \in BOOLEAN /\ u \in BOOLEAN /\ d \in 0..Len(body.mentions)
  BY <1>0 DEF EntryRecord
<1>2. t = [place |-> q, ambiguous |-> b, source |-> d, unsure |-> u]
  BY <1>0 DEF EntryRecord, forceValuePlace
<1>3. u => d = 0
  BY DEF Basic
<1>. HIDE DEF r, b, u, d
<1>4. t \in EntryRecord
  BY <1>1, <1>2 DEF EntryRecord
<1>5. t.place = q /\ t.source = d
  BY <1>2
<1>6. t.unsure <=> u
  BY <1>1, <1>2
<1>. QED
  BY <1>3, <1>4, <1>5, <1>6 DEF d, r

\* An entry with another place and the mark of its operand.
LEMMA DerivedFacts ==
    ASSUME Basic, NEW n \in DOMAIN table, NEW x \in DOMAIN table, NEW q \in PlaceRecord,
           NEW t, t = Marked(table[n], q, table[x])
    PROVE  /\ t \in EntryRecord /\ t.place = q /\ t.source = table[n].source
           /\ t.unsure => t.source = 0
           /\ table[x].ambiguous => t.ambiguous
PROOF
<1>. DEFINE r == table[n]
            s == table[x]
            a == r.ambiguous \/ s.ambiguous
            u == r.unsure
            d == r.source
<1>0. r \in EntryRecord /\ s \in EntryRecord
  BY DEF Basic
<1>1. a \in BOOLEAN /\ u \in BOOLEAN /\ d \in 0..Len(body.mentions)
  BY <1>0 DEF EntryRecord
<1>2. t = [place |-> q, ambiguous |-> a, source |-> d, unsure |-> u]
  BY <1>0 DEF EntryRecord, forceValuePlace, Marked
<1>3. (s.ambiguous => a) /\ (u => d = 0)
  BY DEF Basic
<1>. HIDE DEF r, a, u, d
<1>4. t \in EntryRecord
  BY <1>1, <1>2 DEF EntryRecord
<1>5. t.place = q /\ t.source = d
  BY <1>2
<1>6. (t.unsure <=> u) /\ (t.ambiguous <=> a)
  BY <1>1, <1>2
<1>. QED
  BY <1>3, <1>4, <1>5, <1>6 DEF d, r

\* An index or a method stands for the whole of its operand.
LEMMA ElementInv == ASSUME PInv, PropagateElement PROVE PInv'
PROOF
<1>. SUFFICES ASSUME NEW n, n = next, NEW x, x = body.values[n].x,
                     NEW q, q = collapsePlace(table[x].place),
                     NEW t, t = Marked(table[n], q, table[x])
              PROVE PInv'
  OBVIOUS
<1>0. /\ phase = "propagate" /\ phase' = phase /\ next' = n + 1 /\ n <= Len(body.values)
      /\ body' = body /\ cells' = cells /\ body.values[n].op = "element"
      /\ Known(table[x]) /\ table' = [table EXCEPT ![n] = t]
  BY DEF PropagateElement, At, Operand, Derived, Marked
<1>1. /\ n \in DOMAIN table /\ table[n] \in EntryRecord /\ n \in Nat
      /\ (table[n].unsure => table[n].source = 0) /\ x \in DOMAIN table
      /\ Basic /\ table[x] \in EntryRecord /\ IsPlace(cells, table[x].place)
  <2>1. body.values[n].op # "root" /\ body.values[n].op \in Rules
    BY <1>0 DEF Rules
  <2>2. Basic /\ x \in DOMAIN table
    BY <1>0, <2>1, NextFacts
  <2>. QED
    BY <1>0, <2>1, <2>2, NextFacts DEF Basic
<1>2. q = [root |-> table[x].place.root, projection |-> NoProjection, collapsed |-> TRUE]
  BY <1>1 DEF collapsePlace, IsPlace, PlaceRecord
<1>3. /\ IsPlace(cells, q) /\ q \in PlaceRecord /\ q.projection = NoProjection
      /\ q.root = table[x].place.root /\ q.collapsed = TRUE
  <2>1. table[x].place.root \in Variables \cup FieldNames
    BY <1>0, <1>1 DEF IsPlace, PlaceRecord, Known
  <2>2. NoProjection \in [array : Nat, len : 0..Len(Capacity)]
    BY BodyFacts DEF NoProjection, PInv
  <2>3. q \in PlaceRecord
    <3>1. \A root \in Variables \cup FieldNames :
             [root |-> root, projection |-> NoProjection, collapsed |-> TRUE] \in PlaceRecord
      BY <2>2 DEF PlaceRecord
    <3>. QED
      BY <1>2, <2>1, <3>1, Zenon
  <2>4. q.projection = NoProjection /\ q.root = table[x].place.root
    BY <1>2
  <2>5. q.collapsed = TRUE
    BY <1>2
  <2>6. q.root # "nil"
    BY <1>0, <2>4 DEF Known
  <2>. QED
    BY <2>3, <2>4, <2>5, <2>6 DEF IsPlace, IsSlice
<1>4. /\ t \in EntryRecord /\ (t.unsure => t.source = 0) /\ t.place = q
      /\ (table[x].ambiguous => t.ambiguous) /\ t.source = table[n].source
  BY <1>1, <1>3, DerivedFacts
<1>5. /\ DOMAIN table' = DOMAIN table /\ table'[n] = t
      /\ \A w \in DOMAIN table : w # n => table'[w] = table[w]
  BY <1>0, <1>1
<1>6. Explained(n)'
  <2>. SUFFICES ASSUME x < n
                PROVE  /\ Known(table'[x])
                       /\ ViewIn(cells', table'[n].place)
                          = Ruled(body.values[n], ViewIn(cells', table'[x].place))
                       /\ body.values[n].op # "store" =>
                             (table'[x].ambiguous => table'[n].ambiguous)
    BY <1>0, ByRuleNow
  <2>1. table'[x] = table[x]
    BY <1>1, <1>5
  <2>2. ViewIn(cells, q) = [root |-> table[x].place.root, path |-> <<>>, collapsed |-> TRUE]
    <3>0. q.projection = NoProjection
      BY <1>3
    <3>1. PathIn(cells, q) = <<>>
      <4>1. NoProjection.len = 0
        BY DEF NoProjection
      <4>. QED
        BY <3>0, <4>1, Zenon DEF PathIn
    <3>. QED
      BY <1>3, <3>1 DEF ViewIn
  <2>3. Ruled(body.values[n], ViewIn(cells, table[x].place))
        = [root |-> table[x].place.root, path |-> <<>>, collapsed |-> TRUE]
    BY <1>0 DEF Ruled, ViewIn
  <2>. QED
    BY <1>0, <1>4, <1>5, <2>1, <2>2, <2>3
<1>7. body.values[n].op # "root"
  BY <1>0
<1>8. IsPlace(cells, t.place) /\ t.place.projection = NoProjection
  BY <1>3, <1>4
<1>9. t.source \in {0, table[n].source}
  BY <1>4
<1>. QED
  BY <1>0, <1>1, <1>4, <1>5, <1>6, <1>7, <1>8, <1>9, TakeStep

\* A store is filed under the place it writes to.
LEMMA StoreInv == ASSUME PInv, PropagateStore PROVE PInv'
PROOF
<1>. SUFFICES ASSUME NEW n, n = next, NEW x, x = body.values[n].x,
                     NEW t, t = forceValuePlace(table[n], table[x].place)
              PROVE PInv'
  OBVIOUS
<1>0. /\ phase = "propagate" /\ phase' = phase /\ next' = n + 1 /\ n <= Len(body.values)
      /\ body' = body /\ cells' = cells /\ body.values[n].op = "store"
      /\ Known(table[x]) /\ table' = [table EXCEPT ![n] = t]
  BY DEF PropagateStore, At, Operand
<1>1. /\ n \in DOMAIN table /\ table[n] \in EntryRecord /\ n \in Nat
      /\ (table[n].unsure => table[n].source = 0) /\ x \in DOMAIN table
      /\ Basic /\ table[x] \in EntryRecord /\ IsPlace(cells, table[x].place)
  <2>1. body.values[n].op # "root" /\ body.values[n].op \in Rules
    BY <1>0 DEF Rules
  <2>2. Basic /\ x \in DOMAIN table
    BY <1>0, <2>1, NextFacts
  <2>. QED
    BY <1>0, <2>1, <2>2, NextFacts DEF Basic
<1>4. /\ t \in EntryRecord /\ (t.unsure => t.source = 0) /\ t.place = table[x].place
      /\ t.source = table[n].source
  <2>1. table[x].place \in PlaceRecord
    BY <1>1 DEF IsPlace
  <2>. QED
    BY <1>1, <2>1, PlacedFacts
<1>5. /\ DOMAIN table' = DOMAIN table /\ table'[n] = t
      /\ \A w \in DOMAIN table : w # n => table'[w] = table[w]
  BY <1>0, <1>1
<1>6. Explained(n)'
  <2>. SUFFICES ASSUME x < n
                PROVE  /\ Known(table'[x])
                       /\ ViewIn(cells', table'[n].place)
                          = Ruled(body.values[n], ViewIn(cells', table'[x].place))
                       /\ body.values[n].op # "store" =>
                             (table'[x].ambiguous => table'[n].ambiguous)
    BY <1>0, ByRuleNow
  <2>1. table'[x] = table[x]
    BY <1>1, <1>5
  <2>. QED
    BY <1>0, <1>4, <1>5, <2>1 DEF Ruled
<1>7. body.values[n].op # "root"
  BY <1>0
<1>. QED
  BY <1>0, <1>1, <1>4, <1>5, <1>6, <1>7, TakeStep

\* A join is what all its edges are, where they agree.
LEMMA PhiInv == ASSUME PInv, PropagatePhi PROVE PInv'
PROOF
<1>. SUFFICES ASSUME NEW n, n = next, NEW edges, edges = body.values[n].edges,
                     NEW x, x = edges[1]
              PROVE PInv'
  OBVIOUS
<1>0. /\ phase = "propagate" /\ phase' = phase /\ next' = n + 1 /\ n <= Len(body.values)
      /\ body' = body /\ cells' = cells /\ body.values[n].op = "phi"
      /\ table' = IF phiPlace(edges) = NoPlace THEN table
                  ELSE [table EXCEPT ![n] = forceValuePlace(table[n], phiPlace(edges))]
  BY DEF PropagatePhi, At
<1>1. /\ n \in DOMAIN table /\ table[n] \in EntryRecord /\ n \in Nat /\ Basic
      /\ (table[n].unsure => table[n].source = 0) /\ IsBody(body)
      /\ (Known(table[n]) => Mentioned(n))
      /\ DOMAIN table = DOMAIN body.values
  BY <1>0, NextFacts
<1>2. edges \in Seq(DOMAIN table) /\ edges # <<>>
  BY <1>0, <1>1 DEF IsBody
<1>3. /\ \A k \in DOMAIN edges : edges[k] \in DOMAIN table
      /\ 1 \in DOMAIN edges /\ x \in DOMAIN table
  <2>1. Len(edges) \in Nat /\ DOMAIN edges = 1..Len(edges)
    BY <1>2, LenProperties
  <2>2. Len(edges) # 0
    BY <1>2, EmptySeq
  <2>3. 1 \in 1..Len(edges)
    BY <2>1, <2>2
  <2>. QED
    BY <1>2, <2>1, <2>3, ElementOfSeq
<1>4. body.values[n].op # "root"
  BY <1>0
<1>5. CASE phiPlace(edges) = NoPlace
  <2>1. table' = table
    BY <1>0, <1>5
  <2>2. View(table[n].place)' = View(table[n].place)
    BY <1>0, <2>1 DEF View, PathIn
  <2>3. Mentioned(n) => Mentioned(n)'
    BY <1>0, <2>1, <2>2 DEF Mentioned, MentionsOf, Written, IsPath
  <2>4. Explained(n)'
    BY <1>0, <1>1, <2>1, <2>3 DEF Explained, ByPhi, Known
  <2>. QED
    BY <1>0, <1>1, <1>4, <2>1, <2>4, TakeStep
<1>6. CASE phiPlace(edges) # NoPlace
  <2>1. /\ phiPlace(edges) = table[x].place
        /\ \A k \in DOMAIN edges : KeyIn(cells, table[edges[k]].place) = KeyIn(cells, table[x].place)
    BY <1>6 DEF phiPlace
  <2>. DEFINE t == forceValuePlace(table[n], table[x].place)
  <2>2. /\ t \in EntryRecord /\ (t.unsure => t.source = 0) /\ t.place = table[x].place
        /\ t.source = table[n].source
    <3>1. table[x].place \in PlaceRecord
      BY <1>1, <1>3 DEF Basic, IsPlace
    <3>. QED
      BY <1>1, <3>1, PlacedFacts
  <2>3. /\ DOMAIN table' = DOMAIN table /\ table'[n] = t
        /\ \A w \in DOMAIN table : w # n => table'[w] = table[w]
    BY <1>0, <1>1, <1>6, <2>1
  <2>. HIDE DEF t
  <2>4. Explained(n)'
    <3>1. ASSUME NEW k \in DOMAIN edges, edges[k] < n
          PROVE  KeyIn(cells', table'[edges[k]].place) = KeyIn(cells', table'[n].place)
      <4>1. table'[edges[k]] = table[edges[k]]
        BY <1>1, <1>3, <2>3, <3>1
      <4>2. KeyIn(cells, table[edges[k]].place) = KeyIn(cells, table[x].place)
        BY <2>1, <3>1
      <4>. QED
        BY <1>0, <2>2, <2>3, <4>1, <4>2
    <3>2. KeyIn(cells, table[n].place)' = KeyIn(cells', table'[n].place)
      OBVIOUS
    <3>3. ByPhi(n)'
      BY <1>0, <3>1 DEF ByPhi
    <3>. QED
      BY <1>0, <3>3 DEF Explained
  <2>. QED
    BY <1>0, <1>1, <1>3, <1>4, <2>2, <2>3, <2>4, TakeStep
<1>. QED
  BY <1>5, <1>6

\* The projection of a place is nothing, or a stretch of an array there is.
LEMMA SliceFacts ==
    ASSUME NEW arrays \in Arrays, NEW p, IsPlace(arrays, p)
    PROVE  /\ p.projection.len \in Nat /\ p \in PlaceRecord /\ Len(arrays) \in Nat
           /\ p.projection.len = 0 => p.projection.array = 0
           /\ p.projection.len > 0 => p.projection.array \in 1..Len(arrays)
PROOF
<1>1. p \in PlaceRecord /\ IsSlice(arrays, p.projection)
  BY DEF IsPlace
<1>2. p.projection.len \in Nat
  BY <1>1 DEF PlaceRecord
<1>3. Len(arrays) \in Nat /\ \A a \in 1..Len(arrays) : Len(arrays[a]) \in Nat
  BY ArrayFacts
<1>4. CASE p.projection = NoProjection
  BY <1>1, <1>2, <1>3, <1>4 DEF NoProjection
<1>5. CASE p.projection # NoProjection
  <2>1. p.projection.array \in 1..Len(arrays)
        /\ p.projection.len \in 1..Len(arrays[p.projection.array])
    BY <1>1, <1>5 DEF IsSlice
  <2>. QED
    BY <1>1, <1>2, <1>3, <2>1
<1>. QED
  BY <1>4, <1>5

\* The place of a field, and the arrays after it.
LEMMA FieldGrows ==
    ASSUME NEW arrays \in Arrays, NEW p, IsPlace(arrays, p), ~p.collapsed, p.root # "nil",
           NEW f \in FieldNames, Len(Capacity) \in Nat, p.projection.len < Len(Capacity)
    PROVE  Grows(arrays, p, f, appendCells(arrays, p, f), appendPlace(arrays, p, f))
PROOF
<1>. SUFFICES ASSUME NEW r, r = appendPlace(arrays, p, f),
                     NEW brrays, brrays = appendCells(arrays, p, f)
              PROVE  Grows(arrays, p, f, brrays, r)
  OBVIOUS
<1>. QED
  BY AppendFacts

\* Who still waits for its rule holds no longer path on the array of an operand.
LEMMA NoLonger ==
    ASSUME PInv, NEW v \in DOMAIN table, Original(v), NEW x \in DOMAIN table
    PROVE  \/ table[v].place.projection.len <= table[x].place.projection.len
           \/ table[v].place.projection.array # table[x].place.projection.array
PROOF
<1>. DEFINE r == table[v].place
            p == table[x].place
<1>1. cells \in Arrays /\ IsPlace(cells, p) /\ IsPlace(cells, r)
  BY DEF PInv, Basic
<1>2. CASE v = x
  BY <1>1, <1>2, SliceFacts
<1>3. CASE v # x
  <2>1. LongerOnOneArray(v, x)
    BY <1>3 DEF PInv
  <2>2. /\ r.projection.len \in Nat /\ p.projection.len \in Nat /\ Len(cells) \in Nat
        /\ (p.projection.len = 0 => p.projection.array = 0)
        /\ (r.projection.len > 0 => r.projection.array \in 1..Len(cells))
    BY <1>1, SliceFacts
  <2>3. (r.projection.len > 0 /\ p.projection.len > 0
         /\ r.projection.array = p.projection.array) => r.projection.len <= p.projection.len
    BY <2>1 DEF LongerOnOneArray
  <2>. HIDE DEF r, p
  <2>4. \/ r.projection.len <= p.projection.len
        \/ r.projection.array # p.projection.array
    BY <2>2, <2>3
  <2>. QED
    BY <2>4 DEF r, p
<1>. QED
  BY <1>2, <1>3

\* A field behind a place that is not given up.
LEMMA FieldGrown ==
    ASSUME PInv, phase = "propagate", NEW n, n = next, n <= Len(body.values),
           body.values[n].op = "field", NEW x, x = body.values[n].x,
           NEW f, f = body.values[n].field,
           NEW p, p = table[x].place, p.root # "nil", ~p.collapsed,
           body' = body, phase' = phase, next' = n + 1,
           DOMAIN table' = DOMAIN table,
           \A w \in DOMAIN table : w # n => table'[w] = table[w],
           table'[n] \in EntryRecord, table'[n].unsure => table'[n].source = 0,
           table'[n].place = appendPlace(cells, p, f), table'[n].source = table[n].source,
           table[x].ambiguous => table'[n].ambiguous,
           cells' = appendCells(cells, p, f)
    PROVE  PInv'
PROOF
<1>1. /\ n \in DOMAIN table /\ n \in Nat /\ Basic /\ x \in DOMAIN table /\ IsPlace(cells, p)
      /\ IsBody(body) /\ ~Seeding /\ Original(n) /\ SourceIsOnly(n) /\ cells \in Arrays
      /\ Len(body.values) \in Nat /\ Len(Capacity) \in Nat
      /\ DOMAIN table = DOMAIN body.values
  <2>1. body.values[n].op # "root" /\ body.values[n].op \in Rules
    BY DEF Rules
  <2>2. Basic /\ x \in DOMAIN table
    BY <2>1, NextFacts
  <2>. QED
    BY <2>1, <2>2, NextFacts DEF Basic
<1>2. f \in FieldNames
  BY <1>1 DEF IsBody
<1>3. p.projection.len \in Nat /\ Len(cells) \in Nat
  BY <1>1, SliceFacts
<1>4. p.projection.len + (Len(body.values) + 1 - n) <= Len(Capacity)
  BY <1>1 DEF PInv, RoomLeft
<1>5. p.projection.len < Len(Capacity)
      /\ p.projection.len + 1 + Len(body.values) - n <= Len(Capacity)
  <2>. DEFINE l == p.projection.len
              k == Len(body.values)
              c == Len(Capacity)
  <2>1. l \in Nat /\ k \in Nat /\ c \in Nat /\ l + (k + 1 - n) <= c /\ n <= k /\ n \in Nat
    BY <1>1, <1>3, <1>4
  <2>. HIDE DEF l, k, c
  <2>2. l < c /\ l + 1 + k - n <= c
    BY <2>1
  <2>. QED
    BY <2>2 DEF l, k, c
<1>. DEFINE q == appendPlace(cells, p, f)
            brrays == appendCells(cells, p, f)
<1>6. /\ brrays \in Arrays /\ IsPlace(brrays, q)
      /\ q.root = p.root /\ q.collapsed = p.collapsed
      /\ q.projection.len = p.projection.len + 1
      /\ PathIn(brrays, q) = Append(PathIn(cells, p), f)
      /\ \/ q.projection.array = p.projection.array /\ p.projection.len > 0
         \/ q.projection.array = Len(cells) + 1
      /\ \A r : IsPlace(cells, r) => IsPlace(brrays, r)
      /\ \A r : (/\ IsPlace(cells, r)
                 /\ \/ Short(r) \/ r.projection.len <= p.projection.len
                    \/ r.projection.array # p.projection.array)
                => PathIn(brrays, r) = PathIn(cells, r)
  <2>1. Grows(cells, p, f, brrays, q)
    BY <1>1, <1>2, <1>5, FieldGrows
  <2>. HIDE DEF q, brrays
  <2>. QED
    BY <2>1, Zenon DEF Grows
<1>. HIDE DEF q, brrays
<1>7. cells' = brrays /\ table'[n].place = q
  BY DEF q, brrays
<1>8. \A w \in DOMAIN table : IsPlace(cells, table[w].place) /\ IsPlace(cells', table[w].place)
  BY <1>1, <1>6, <1>7 DEF Basic
<1>9. \A w \in DOMAIN table : Original(w) \/ Short(table[w].place) =>
         PathIn(cells', table[w].place) = PathIn(cells, table[w].place)
  <2>. SUFFICES ASSUME NEW w \in DOMAIN table, Original(w) \/ Short(table[w].place)
                PROVE  PathIn(brrays, table[w].place) = PathIn(cells, table[w].place)
    BY <1>7
  <2>1. IsPlace(cells, table[w].place)
    BY <1>8
  <2>2. Original(w) => \/ table[w].place.projection.len <= p.projection.len
                       \/ table[w].place.projection.array # p.projection.array
    BY <1>1, NoLonger
  <2>. QED
    BY <1>6, <2>1, <2>2, Zenon
<1>10. table'[n].place.projection.len + Len(body.values) - n <= Len(Capacity)
  BY <1>5, <1>6, <1>7
<1>11. ASSUME NEW v \in DOMAIN table, v # n, Original(v),
              table[v].place.projection.len > 0, table'[n].place.projection.len > 0,
              table[v].place.projection.array = table'[n].place.projection.array
       PROVE  table[v].place.projection.len <= table'[n].place.projection.len
  <2>. DEFINE r == table[v].place
  <2>1. /\ r.projection.len \in Nat /\ r.projection.array \in 1..Len(cells)
    BY <1>1, <1>8, <1>11, SliceFacts
  <2>2. r.projection.len <= p.projection.len \/ r.projection.array # p.projection.array
    BY <1>1, <1>11, NoLonger
  <2>3. r.projection.array = q.projection.array
    BY <1>7, <1>11
  <2>. HIDE DEF r
  <2>4. q.projection.array # Len(cells) + 1
    BY <1>3, <2>1, <2>3
  <2>5. r.projection.len <= q.projection.len
    <3>. DEFINE l == p.projection.len
                m == q.projection.len
                k == r.projection.len
    <3>1. l \in Nat /\ k \in Nat /\ m = l + 1
      BY <1>3, <1>6, <2>1
    <3>2. k <= l
      BY <1>6, <2>2, <2>3, <2>4
    <3>. HIDE DEF l, m, k
    <3>3. k <= m
      BY <3>1, <3>2
    <3>. QED
      BY <3>3 DEF m, k
  <2>. QED
    BY <1>7, <2>5 DEF r
<1>12. SourceIsOnly(n)'
  <2>1. Seen(n)' = Seen(n)
    BY DEF Seen, MentionsOf, Seeding
  <2>2. FullSeen(n)' = FullSeen(n)
    BY <2>1 DEF FullSeen, IsBareField
  <2>. QED
    BY <1>1, <2>1, <2>2 DEF SourceIsOnly
<1>13. Explained(n)'
  <2>. SUFFICES ASSUME Short(table'[n].place)
                PROVE  Explained(n)'
    BY DEF Explained
  <2>. SUFFICES ASSUME x < n
                PROVE  /\ Known(table'[x])
                       /\ ViewIn(cells', table'[n].place)
                          = Ruled(body.values[n], ViewIn(cells', table'[x].place))
                       /\ body.values[n].op # "store" =>
                             (table'[x].ambiguous => table'[n].ambiguous)
    BY ByRuleNow
  <2>1. table'[x] = table[x]
    BY <1>1
  <2>2. Short(p)
    <3>. DEFINE l == p.projection.len
                m == q.projection.len
    <3>1. l \in Nat /\ m = l + 1 /\ m < 4
      BY <1>3, <1>6, <1>7 DEF Short
    <3>. HIDE DEF l, m
    <3>2. l < 4
      BY <3>1
    <3>. QED
      BY <3>2 DEF l, Short
  <2>3. PathIn(cells', p) = PathIn(cells, p)
    BY <1>1, <1>6, <1>7, <2>2
  <2>4. Ruled(body.values[n], ViewIn(cells', p))
        = [root |-> p.root, path |-> Append(PathIn(cells, p), f), collapsed |-> p.collapsed]
    BY <2>3 DEF Ruled, ViewIn
  <2>5. ViewIn(cells', q)
        = [root |-> p.root, path |-> Append(PathIn(cells, p), f), collapsed |-> p.collapsed]
    BY <1>6, <1>7 DEF ViewIn
  <2>6. Known(table[x])
    BY DEF Known
  <2>. QED
    BY <1>7, <2>1, <2>4, <2>5, <2>6
<1>14. cells' \in Arrays /\ IsPlace(cells', table'[n].place)
  BY <1>6, <1>7
<1>. QED
  BY <1>1, <1>8, <1>9, <1>10, <1>11, <1>12, <1>13, <1>14, RuleStep

\* A field of a struct is the place of the struct and the field, and a place that
\* is given up stays what it is.
LEMMA FieldInv == ASSUME PInv, PropagateField PROVE PInv'
PROOF
<1>. SUFFICES ASSUME NEW n, n = next, NEW x, x = body.values[n].x,
                     NEW p, p = table[x].place, NEW f, f = body.values[n].field
              PROVE PInv'
  OBVIOUS
<1>0. /\ phase = "propagate" /\ phase' = phase /\ next' = n + 1 /\ n <= Len(body.values)
      /\ body' = body /\ body.values[n].op = "field" /\ p.root # "nil"
      /\ \/ /\ p.collapsed /\ cells' = cells
            /\ table' = [table EXCEPT ![n] = Marked(table[n], p, table[x])]
         \/ /\ ~p.collapsed /\ cells' = appendCells(cells, p, f)
            /\ table' = [table EXCEPT ![n] = Marked(table[n], appendPlace(cells, p, f), table[x])]
  BY DEF PropagateField, At, Operand, Known, Derived, Marked
<1>1. /\ n \in DOMAIN table /\ n \in Nat /\ Basic /\ x \in DOMAIN table
      /\ cells \in Arrays /\ IsPlace(cells, p)
  <2>1. body.values[n].op # "root" /\ body.values[n].op \in Rules
    BY <1>0 DEF Rules
  <2>2. Basic /\ x \in DOMAIN table
    BY <1>0, <2>1, NextFacts
  <2>. QED
    BY <1>0, <2>1, <2>2, NextFacts DEF Basic
<1>2. body.values[n].op # "root" /\ body.values[n].op # "phi"
  BY <1>0
<1>3. CASE p.collapsed
  <2>. DEFINE t == Marked(table[n], p, table[x])
  <2>0. p \in PlaceRecord
    BY <1>1, SliceFacts
  <2>1. /\ t \in EntryRecord /\ (t.unsure => t.source = 0) /\ t.place = p
        /\ t.source = table[n].source /\ (table[x].ambiguous => t.ambiguous)
    BY <1>1, <2>0, DerivedFacts
  <2>. HIDE DEF t
  <2>2. /\ DOMAIN table' = DOMAIN table /\ table'[n] = t /\ cells' = cells
        /\ \A w \in DOMAIN table : w # n => table'[w] = table[w]
    BY <1>0, <1>1, <1>3 DEF t
  <2>4. Explained(n)'
    <3>. SUFFICES ASSUME x < n
                  PROVE  /\ Known(table'[x])
                         /\ ViewIn(cells', table'[n].place)
                            = Ruled(body.values[n], ViewIn(cells', table'[x].place))
                         /\ body.values[n].op # "store" =>
                               (table'[x].ambiguous => table'[n].ambiguous)
      BY <1>0, <1>2, ByRuleNow
    <3>1. table'[x] = table[x]
      BY <1>1, <2>2
    <3>2. ViewIn(cells', p).collapsed
      BY <1>3 DEF ViewIn
    <3>3. Ruled(body.values[n], ViewIn(cells', p)) = ViewIn(cells', p)
      BY <1>0, <3>2 DEF Ruled
    <3>4. Known(table[x])
      BY <1>0 DEF Known
    <3>. QED
      BY <2>1, <2>2, <3>1, <3>3, <3>4
  <2>. QED
    BY <1>0, <1>1, <1>2, <2>1, <2>2, <2>4, TakeStep
<1>4. CASE ~p.collapsed
  <2>. DEFINE q == appendPlace(cells, p, f)
              t == Marked(table[n], q, table[x])
  <2>1. q \in PlaceRecord
    <3>1. f \in FieldNames /\ Len(Capacity) \in Nat /\ p.projection.len < Len(Capacity)
      <4>1. /\ IsBody(body) /\ DOMAIN table = DOMAIN body.values /\ ~Seeding
            /\ Len(body.values) \in Nat /\ Len(Capacity) \in Nat
        BY <1>0, <1>2, NextFacts
      <4>2. p.projection.len \in Nat
        BY <1>1, SliceFacts
      <4>3. p.projection.len + (Len(body.values) + 1 - n) <= Len(Capacity)
        BY <1>1, <4>1 DEF PInv, RoomLeft
      <4>4. f \in FieldNames
        BY <1>0, <1>1, <4>1 DEF IsBody
      <4>. DEFINE l == p.projection.len
                  k == Len(body.values)
                  c == Len(Capacity)
      <4>5. l \in Nat /\ k \in Nat /\ c \in Nat /\ l + (k + 1 - n) <= c /\ n <= k
        BY <1>0, <4>1, <4>2, <4>3
      <4>. HIDE DEF l, k, c
      <4>6. l < c
        BY <1>1, <4>5
      <4>. QED
        BY <4>1, <4>4, <4>6 DEF l, c
    <3>2. IsPlace(appendCells(cells, p, f), q)
      BY <1>0, <1>1, <1>4, <3>1, FieldGrows DEF Grows
    <3>. QED
      BY <3>2 DEF IsPlace
  <2>. HIDE DEF q
  <2>2. /\ t \in EntryRecord /\ (t.unsure => t.source = 0) /\ t.place = q
        /\ t.source = table[n].source /\ (table[x].ambiguous => t.ambiguous)
    BY <1>1, <2>1, DerivedFacts
  <2>. HIDE DEF t
  <2>3. /\ DOMAIN table' = DOMAIN table /\ table'[n] = t /\ cells' = appendCells(cells, p, f)
        /\ \A w \in DOMAIN table : w # n => table'[w] = table[w]
    BY <1>0, <1>1, <1>4 DEF t, q
  <2>4. table'[n].place = appendPlace(cells, p, f)
    BY <2>2, <2>3 DEF q
  <2>5. /\ table'[n] \in EntryRecord /\ table'[n].source = table[n].source
    BY <2>2, <2>3
  <2>6. table'[n].unsure => table'[n].source = 0
    BY <2>2, <2>3
  <2>7. table[x].ambiguous => table'[n].ambiguous
    BY <2>2, <2>3
  <2>8. /\ phase = "propagate" /\ phase' = phase /\ next' = n + 1 /\ n <= Len(body.values)
        /\ body' = body /\ body.values[n].op = "field" /\ p.root # "nil"
    BY <1>0
  <2>. QED
    BY <1>4, <2>3, <2>4, <2>5, <2>6, <2>7, <2>8, FieldGrown, ZenonT(60)
<1>. QED
  BY <1>3, <1>4

---------------------------------------------------------------------------
(* The index from its start to its end.                                    *)

\* Before the first global nothing is known.
LEMMA PInvInit == ASSUME PlacesInit PROVE PInv
PROOF
<1>0. /\ body \in Bodies /\ phase = "globals" /\ next = 1 /\ cells = <<>>
      /\ DOMAIN table = DOMAIN body.values
      /\ \A v \in DOMAIN table : table[v] = Unknown
  BY DEF PlacesInit
<1>1. /\ IsBody(body) /\ Len(body.values) \in Nat /\ Len(body.mentions) \in Nat
      /\ DOMAIN body.mentions = 1..Len(body.mentions) /\ Len(Capacity) \in Nat
      /\ Len(body.values) <= Len(Capacity)
  <2>1. IsBody(body)
    BY <1>0, BodiesAssumption
  <2>2. Len(Capacity) \in Nat
    BY CapacityAssumption, LenProperties
  <2>. QED
    BY <2>1, <2>2 DEF IsBody
<1>2. /\ Unknown.place = NoPlace /\ Unknown.source = 0 /\ ~Unknown.unsure /\ ~Unknown.ambiguous
      /\ NoPlace.projection = NoProjection /\ NoPlace.root = "nil" /\ ~NoPlace.collapsed
      /\ NoProjection.len = 0
  BY DEF Unknown, NoPlace, NoProjection
<1>3. NoPlace \in PlaceRecord
  <2>1. NoProjection \in [array : Nat, len : 0..Len(Capacity)]
    BY <1>1 DEF NoProjection
  <2>. QED
    BY <2>1 DEF NoPlace, PlaceRecord
<1>4. Unknown \in EntryRecord
  BY <1>1, <1>3 DEF Unknown, EntryRecord
<1>5. cells \in Arrays
  BY <1>0, EmptySeq DEF Arrays
<1>6. IsPlace(cells, NoPlace)
  BY <1>2, <1>3 DEF IsPlace, IsSlice
<1>7. Basic
  BY <1>0, <1>1, <1>2, <1>4, <1>5, <1>6 DEF Basic
<1>8. Seeding /\ \A v : Seen(v) = {} /\ FullSeen(v) = {}
  <2>1. Seeding
    BY <1>0 DEF Seeding
  <2>2. \A v : Seen(v) = {}
    <3>. SUFFICES ASSUME NEW v, NEW m \in Seen(v) PROVE FALSE
      OBVIOUS
    <3>1. m \in 1..Len(body.mentions) /\ m < 1
      BY <1>0, <1>1, <2>1 DEF Seen, MentionsOf
    <3>. QED
      BY <1>1, <3>1
  <2>. QED
    BY <2>1, <2>2 DEF FullSeen
<1>9. RoomLeft
  BY <1>0, <1>1, <1>2, <1>8 DEF RoomLeft
<1>10. \A v \in DOMAIN table : SourceIsOnly(v)
  BY <1>8 DEF SourceIsOnly
<1>11. \A v \in DOMAIN table : Named(v)
  <2>. SUFFICES ASSUME NEW v \in DOMAIN table PROVE Named(v)
    OBVIOUS
  <2>1. ~Known(table[v]) /\ table[v].source = 0 /\ ~table[v].unsure /\ ~table[v].ambiguous
    BY <1>0, <1>2 DEF Known
  <2>. QED
    BY <1>8, <2>1 DEF Named, BareUntilFull, Sourceless, Sourced, Unnamed, OneName, NamedBy
<1>12. \A v, w \in DOMAIN table : LongerOnOneArray(v, w)
  BY <1>0, <1>2 DEF LongerOnOneArray
<1>13. \A v \in DOMAIN table : Original(v)
  BY <1>8 DEF Original
<1>. QED
  BY <1>7, <1>9, <1>10, <1>11, <1>12, <1>13 DEF PInv

\* The lookups of bindings leave the places alone.
LEMMA PInvKept == ASSUME PInv, UNCHANGED placeVars PROVE PInv'
PROOF
<1>0. body' = body /\ phase' = phase /\ next' = next /\ table' = table /\ cells' = cells
  BY DEF placeVars
<1>1. (\A v : Seen(v)' = Seen(v)) /\ (\A v : FullSeen(v)' = FullSeen(v))
  <2>1. \A v : Seen(v)' = Seen(v)
    BY <1>0 DEF Seen, MentionsOf, Seeding
  <2>. QED
    BY <1>0, <2>1 DEF FullSeen, IsBareField
<1>2. Basic' /\ RoomLeft' /\ Seeding' = Seeding
  BY <1>0 DEF PInv, Basic, EntryRecord, RoomLeft, Seeding
<1>3. \A v : Original(v)' <=> Original(v)
  BY <1>0, <1>2 DEF Original
<1>4. \A v \in DOMAIN table : SourceIsOnly(v)'
  BY <1>0, <1>1 DEF PInv, SourceIsOnly
<1>5. \A v \in DOMAIN table : Original(v) => Named(v)'
  <2>. SUFFICES ASSUME NEW v \in DOMAIN table, Original(v) PROVE Named(v)'
    OBVIOUS
  <2>1. Named(v) /\ PathIn(cells', table[v].place) = PathIn(cells, table[v].place)
    BY <1>0 DEF PInv
  <2>2. table'[v] = table[v] /\ Seen(v)' = Seen(v)
    BY <1>0, <1>1
  <2>. QED
    BY <1>0, <2>1, <2>2, NamedKept
<1>6. \A v \in DOMAIN table : Original(v) =>
         \A w \in DOMAIN table \ {v} : LongerOnOneArray(v, w)'
  BY <1>0 DEF PInv, LongerOnOneArray
<1>7. \A v \in DOMAIN table : ~Original(v) => Explained(v)'
  <2>. SUFFICES ASSUME NEW v \in DOMAIN table, ~Original(v) PROVE Explained(v)'
    OBVIOUS
  <2>1. Explained(v)
    BY DEF PInv
  <2>. QED
    BY <1>0, <2>1 DEF Explained, ByPhi, ByRule, Mentioned, MentionsOf, View, KeyIn, PathIn, Ruled
<1>. QED
  BY <1>0, <1>2, <1>3, <1>4, <1>5, <1>6, <1>7 DEF PInv

\* Each step of the index keeps the invariant.
LEMMA PInvStep == ASSUME PInv, [Next]_vars PROVE PInv'
PROOF
<1>1. CASE UNCHANGED placeVars
  BY <1>1, PInvKept
<1>2. CASE PlacesNext
  <2>1. ASSUME NEW v \in DOMAIN body.globals, SeedGlobal(v) PROVE PInv'
    BY <2>1, GlobalInv
  <2>2. CASE GlobalsSeeded
    BY <2>2, GlobalsSeededInv
  <2>3. CASE SeedMention
    BY <2>3, MentionInv
  <2>4. CASE MentionsSeeded
    BY <2>4, MentionsSeededInv
  <2>5. CASE PropagateCopy
    BY <2>5, CopyInv
  <2>6. CASE PropagateField
    BY <2>6, FieldInv
  <2>7. CASE PropagateElement
    BY <2>7, ElementInv
  <2>8. CASE PropagatePhi
    BY <2>8, PhiInv
  <2>9. CASE PropagateStore
    BY <2>9, StoreInv
  <2>10. CASE PropagateNothing
    BY <2>10, NothingInv
  <2>11. CASE Propagated
    BY <2>11, PropagatedInv
  <2>. QED
    BY <1>2, <2>1, <2>2, <2>3, <2>4, <2>5, <2>6, <2>7, <2>8, <2>9, <2>10, <2>11 DEF PlacesNext
<1>. QED
  BY <1>1, <1>2 DEF Next, vars

\* The invariant holds throughout.
THEOREM PlacesInvariant == Spec => []PInv
<1>1. Init => PInv
  BY PInvInit DEF Init
<1>2. PInv /\ [Next]_vars => PInv'
  BY PInvStep
<1>. QED
  BY <1>1, <1>2, PTL DEF Spec

---------------------------------------------------------------------------
(* What the index promises.                                                *)

\* With every instruction looked at, all that was mentioned is seen and only
\* the entries that no rule reaches are as they were seeded.
LEMMA AtTheEnd ==
    ASSUME PInv, Placed, NEW v \in DOMAIN table
    PROVE  /\ Seen(v) = MentionsOf(v) /\ FullSeen(v) = FullMentionsOf(v)
           /\ Original(v) <=> body.values[v].op = "root"
           /\ Basic /\ IsBody(body)
PROOF
<1>1. ~Seeding
  BY DEF Placed, Seeding
<1>2. Seen(v) = MentionsOf(v)
  BY <1>1 DEF Seen, MentionsOf
<1>3. FullSeen(v) = FullMentionsOf(v)
  BY <1>2 DEF FullSeen, FullMentionsOf
<1>4. /\ Basic /\ IsBody(body) /\ Len(body.values) \in Nat /\ DOMAIN table = 1..Len(body.values)
      /\ next = Len(body.values) + 1
  BY BodyFacts DEF PInv, Basic, Placed
<1>5. ~(next <= v)
  BY <1>4
<1>. QED
  BY <1>1, <1>2, <1>3, <1>4, <1>5 DEF Original

(* For every body and every order of its expressions: a value that the     *)
(* index takes for unique has one name in the source, the one the index    *)
(* holds (setValuePlaceWithSource).                                        *)
THEOREM UniqueNames == Spec => []UniqueMeansOneName
<1>1. ASSUME PInv PROVE UniqueMeansOneName
  <2>. SUFFICES ASSUME NEW v \in DOMAIN table, Placed, body.values[v].op = "root",
                       Known(table[v]), ~table[v].ambiguous, NEW m \in FullMentionsOf(v)
                PROVE  KeyWritten(body.mentions[m].expr) = KeyIn(cells, table[v].place)
    BY DEF UniqueMeansOneName
  <2>1. Named(v) /\ FullSeen(v) = FullMentionsOf(v)
    BY <1>1, AtTheEnd DEF PInv
  <2>. QED
    BY <2>1 DEF Named, OneName
<1>. QED
  BY <1>1, PlacesInvariant, PTL

(* The source the index gives for a value that is mentioned is its only    *)
(* full expression, or its only one (setValueSource, SourceForValue).      *)
THEOREM OnlyMention == Spec => []SourceIsTheOnlyMention
<1>1. ASSUME PInv PROVE SourceIsTheOnlyMention
  <2>. SUFFICES ASSUME NEW v \in DOMAIN table, Placed, table[v].source # 0, MentionsOf(v) # {}
                PROVE  IF FullMentionsOf(v) = {} THEN MentionsOf(v) = {table[v].source}
                       ELSE FullMentionsOf(v) = {table[v].source}
    BY DEF SourceIsTheOnlyMention
  <2>1. /\ SourceIsOnly(v) /\ Seen(v) = MentionsOf(v) /\ FullSeen(v) = FullMentionsOf(v)
    BY <1>1, AtTheEnd DEF PInv
  <2>. QED
    BY <2>1 DEF SourceIsOnly
<1>. QED
  BY <1>1, PlacesInvariant, PTL

(* The place of a value is one the source names for it or what the rule    *)
(* of its instruction makes of those of its operands, and ambiguity is     *)
(* handed on (propagateSSAPlaces).                                         *)
THEOREM Explanations == Spec => []PlacesExplained
<1>1. ASSUME PInv PROVE PlacesExplained
  <2>. SUFFICES ASSUME Placed, NEW v \in DOMAIN table, Known(table[v]), Len(PathOf(v)) < 4,
                       NEW i, i = body.values[v], NEW own, own = table[v].place,
                       NEW mentioned,
                       mentioned = (\/ \E m \in MentionsOf(v) :
                                          Written(body.mentions[m].expr) = View(own)
                                    \/ v \in DOMAIN body.globals)
                PROVE  CASE i.op = "root" -> mentioned
                         [] i.op = "phi" ->
                               \/ mentioned
                               \/ \A e \in {i.edges[k] : k \in DOMAIN i.edges} :
                                     e < v => KeyIn(cells, table[e].place) = KeyIn(cells, own)
                         [] i.op \in Rules /\ i.x >= v -> TRUE
                         [] OTHER ->
                               IF ~Known(table[i.x]) THEN mentioned
                               ELSE LET from == View(table[i.x].place)
                                    IN  /\ View(own) =
                                           CASE i.op = "field" /\ ~from.collapsed ->
                                                   [from EXCEPT !.path = Append(@, i.field)]
                                             [] i.op = "element" ->
                                                   [from EXCEPT !.path = <<>>, !.collapsed = TRUE]
                                             [] OTHER -> from
                                        /\ i.op # "store" =>
                                              (table[i.x].ambiguous => table[v].ambiguous)
    BY DEF PlacesExplained
  <2>0. /\ Seen(v) = MentionsOf(v) /\ (Original(v) <=> i.op = "root") /\ Basic /\ IsBody(body)
    BY <1>1, AtTheEnd
  <2>1. Short(own)
    BY <2>0, LengthOfPath DEF Short
  <2>2. Mentioned(v) => mentioned
    BY DEF Mentioned
  <2>3. CASE i.op = "root"
    <3>1. NamedBy(v)
      BY <1>1, <2>0, <2>3 DEF PInv, Named
    <3>2. mentioned
      BY <2>0, <3>1 DEF NamedBy
    <3>. QED
      BY <2>3, <3>2
  <2>4. CASE i.op = "phi"
    <3>1. Explained(v)
      BY <1>1, <2>0, <2>4 DEF PInv
    <3>2. ByPhi(v)
      BY <2>1, <2>4, <3>1 DEF Explained
    <3>3. \/ mentioned
          \/ \A k \in DOMAIN i.edges :
                i.edges[k] < v => KeyIn(cells, table[i.edges[k]].place) = KeyIn(cells, own)
      BY <2>2, <3>2 DEF ByPhi
    <3>. QED
      BY <2>4, <3>3
  <2>5. CASE i.op # "root" /\ i.op # "phi"
    <3>1. i.op \in Rules /\ i.x \in Nat /\ v \in Nat
      <4>1. DOMAIN table = DOMAIN body.values /\ DOMAIN body.values = 1..Len(body.values)
            /\ Len(body.values) \in Nat
        BY <2>0, BodyFacts DEF Basic
      <4>2. i.op \in Rules /\ i.x \in DOMAIN body.values
        BY <2>0, <2>5, <4>1 DEF IsBody
      <4>. QED
        BY <4>1, <4>2
    <3>2. CASE i.x >= v
      BY <2>5, <3>1, <3>2
    <3>3. CASE i.x < v
      <4>1. Explained(v)
        BY <1>1, <2>0, <2>5 DEF PInv
      <4>2. ByRule(v)
        BY <2>1, <2>5, <4>1 DEF Explained
      <4>3. IF ~Known(table[i.x]) THEN mentioned
            ELSE /\ View(own) = Ruled(i, View(table[i.x].place))
                 /\ i.op # "store" => (table[i.x].ambiguous => table[v].ambiguous)
        BY <2>2, <3>3, <4>2 DEF ByRule
      <4>4. ~(i.op \in Rules /\ i.x >= v)
        BY <3>1, <3>3
      <4>. QED
        BY <2>5, <4>3, <4>4 DEF Ruled
    <3>4. i.x >= v \/ i.x < v
      BY <3>1
    <3>. QED
      BY <3>2, <3>3, <3>4
  <2>. QED
    BY <2>3, <2>4, <2>5
<1>. QED
  BY <1>1, PlacesInvariant, PTL

\* What was bound to an instruction is a stamped call.
BoundAreStamped ==
    \A c \in DOMAIN bound : bound[c] = Unbound \/ text[bound[c]].stamp # "none"

LEMMA BoundStep == ASSUME BInv, BoundAreStamped, [Next]_vars PROVE BoundAreStamped'
PROOF
<1>1. CASE UNCHANGED bindingVars
  BY <1>1 DEF BoundAreStamped, bindingVars
<1>2. CASE IndexBinding
  BY <1>2 DEF BoundAreStamped, IndexBinding
<1>3. ASSUME NEW c \in Calls, BindInstruction(c) PROVE BoundAreStamped'
  <2>1. text' = text
    BY <1>3 DEF BindInstruction
  <2>2. PICK b \in (IF Candidates(c) = {} THEN {Unbound} ELSE Candidates(c)) :
            bound' = [d \in DOMAIN bound \cup {c} |-> IF d = c THEN b ELSE bound[d]]
    BY <1>3 DEF BindInstruction
  <2>3. ASSUME b \in Candidates(c) PROVE text[b].stamp # "none"
    <3>1. PICK k \in Stamps : b \in Entry(k)
      BY <2>3 DEF Candidates, callCandidates, callOnLine, Found, Entry, Stamps
    <3>2. text[b].stamp = k
      BY <3>1, EntryFacts DEF BInv
    <3>. QED
      BY <3>2 DEF Stamps
  <2>4. b = Unbound \/ text[b].stamp # "none"
    BY <2>2, <2>3
  <2>. QED
    BY <2>1, <2>2, <2>4 DEF BoundAreStamped
<1>. QED
  BY <1>1, <1>2, <1>3 DEF Next, BindingsNext, vars, bindingVars

(* The entries of both indexes are what the code's structures can hold: a  *)
(* place is a root, a slice of an array there is, or given up; what an     *)
(* instruction is bound to is a stamped call.                              *)
THEOREM TypesHold == Spec => []TypeOK
<1>1. Init => PInv /\ BInv /\ BoundAreStamped
  BY PInvInit, BInvInit DEF Init, BoundAreStamped, BindingsInit
<1>2. PInv /\ BInv /\ BoundAreStamped /\ [Next]_vars => (PInv /\ BInv /\ BoundAreStamped)'
  BY PInvStep, BInvStep, BoundStep
<1>3. ASSUME PInv, BInv, BoundAreStamped PROVE TypeOK
  <2>1. /\ Basic /\ Len(body.values) \in Nat /\ Len(body.mentions) \in Nat
        /\ Len(Capacity) \in Nat /\ DOMAIN table = 1..Len(body.values) /\ cells \in Arrays
    BY <1>3, BodyFacts DEF PInv, Basic
  <2>2. next \in 1..(Len(body.mentions) + Len(body.values) + 1)
    <3>1. /\ phase = "globals" => next = 1
          /\ phase = "mentions" => next \in 1..(Len(body.mentions) + 1)
          /\ phase = "propagate" => next \in 1..(Len(body.values) + 1)
          /\ phase = "placed" => next = Len(body.values) + 1
          /\ phase \in {"globals", "mentions", "propagate", "placed"}
      BY <2>1 DEF Basic
    <3>. DEFINE k == Len(body.values)
                l == Len(body.mentions)
    <3>2. /\ k \in Nat /\ l \in Nat
          /\ next = 1 \/ next \in 1..(l + 1) \/ next \in 1..(k + 1) \/ next = k + 1
      BY <2>1, <3>1
    <3>. HIDE DEF k, l
    <3>3. next \in 1..(l + k + 1)
      BY <3>2
    <3>. QED
      BY <3>3 DEF k, l
  <2>3. ASSUME NEW v \in DOMAIN table
        PROVE  /\ table[v] \in TypeOfTable
               /\ table[v].unsure => table[v].source = 0
               /\ table[v].place.collapsed => table[v].place.projection.len = 0
    <3>. DEFINE p == table[v].place
    <3>1. /\ table[v] \in EntryRecord /\ IsPlace(cells, p) /\ (table[v].unsure => table[v].source = 0)
      BY <2>1 DEF Basic
    <3>2. p \in PlaceRecord /\ p.projection.array \in 0..Len(cells)
      <4>1. /\ p \in PlaceRecord /\ p.projection.len \in Nat /\ Len(cells) \in Nat
            /\ p.projection.len = 0 => p.projection.array = 0
            /\ p.projection.len > 0 => p.projection.array \in 1..Len(cells)
        BY <2>1, <3>1, SliceFacts
      <4>. QED
        BY <4>1
    <3>3. p.collapsed => p.projection.len = 0
      BY <3>1 DEF IsPlace, NoProjection
    <3>4. table[v] \in TypeOfTable
      <4>1. p \in [root : Variables \cup FieldNames \cup {"nil"},
                   projection : [array : 0..Len(cells), len : 0..Len(Capacity)],
                   collapsed : BOOLEAN]
        BY <3>2 DEF PlaceRecord
      <4>2. /\ table[v].ambiguous \in BOOLEAN /\ table[v].unsure \in BOOLEAN
            /\ table[v].source \in 0..Len(body.mentions)
            /\ table[v] = [place |-> p, ambiguous |-> table[v].ambiguous,
                           source |-> table[v].source, unsure |-> table[v].unsure]
        BY <3>1 DEF EntryRecord
      <4>. QED
        BY <4>1, <4>2 DEF TypeOfTable
    <3>. QED
      BY <3>1, <3>3, <3>4
  <2>4. PlacesTypeOK
    BY <2>1, <2>2, <2>3 DEF PlacesTypeOK, Basic
  <2>5. BindingsTypeOK
    BY <1>3 DEF BindingsTypeOK, BInv, BoundAreStamped, Tables
  <2>. QED
    BY <2>4, <2>5 DEF TypeOK
<1>. QED
  BY <1>1, <1>2, <1>3, PTL DEF Spec
=============================================================================
