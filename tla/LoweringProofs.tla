--------------------------- MODULE LoweringProofs ---------------------------
(***************************************************************************)
(* The lowering of comments keeps to the file, and edits that are accepted *)
(* mean the same one by one and all together.                              *)
(***************************************************************************)
EXTENDS CommentLowering, FiniteSetTheorems, WellFoundedInduction, TLAPS

---------------------------------------------------------------------------
(* Numbers and sequences.                                                  *)

\* A set of numbers that is not empty has a least one.
LEMMA Least ==
    ASSUME NEW T \in SUBSET Nat, T # {}
    PROVE  \E m \in T : \A k \in T : m <= k
<1>1. \E m \in T : \A k \in T : ~(<<k, m>> \in OpToRel(<, Nat))
  BY NatLessThanWellFounded, WFMin, Zenon
<1>2. PICK m \in T : \A k \in T : ~(<<k, m>> \in OpToRel(<, Nat))
  BY <1>1
<1>3. \A k \in T : ~(k < m)
  BY <1>2 DEF OpToRel
<1> QED
  BY <1>3

\* A set with 0 and with the successor of each of its numbers has them all.
LEMMA AllNumbers ==
    ASSUME NEW T \in SUBSET Nat, 0 \in T, \A n \in T : n + 1 \in T
    PROVE  T = Nat
<1> SUFFICES ASSUME Nat \ T # {} PROVE FALSE
  OBVIOUS
<1>1. PICK m \in Nat \ T : \A k \in Nat \ T : m <= k
  <2> DEFINE U == Nat \ T
  <2>1. U \in SUBSET Nat /\ U # {}
    OBVIOUS
  <2> HIDE DEF U
  <2>2. \E m \in U : \A k \in U : m <= k
    BY <2>1, Least
  <2> QED
    BY <2>2 DEF U
<1>2. m # 0 /\ m - 1 \in Nat
  BY <1>1
<1>3. m - 1 \in T
  BY <1>1, <1>2
<1>4. (m - 1) + 1 = m
  BY <1>1
<1> QED
  BY <1>1, <1>3, <1>4

\* The sequences of a sequence, one behind the other, as far as the n-th.
Joined(q, n, f) == f = [i \in 1 .. n |-> IF i = 1 THEN q[i] ELSE f[i - 1] \o q[i]]

\* There is one, and each of its members is a sequence of the same elements.
LEMMA JoinedExists ==
    ASSUME NEW S, NEW q \in Seq(Seq(S)), NEW n \in 0 .. Len(q)
    PROVE  \E f : Joined(q, n, f) /\ \A i \in 1 .. n : f[i] \in Seq(S)
<1> DEFINE T == {k \in Nat : k <= Len(q) =>
                    \E f : Joined(q, k, f) /\ \A i \in 1 .. k : f[i] \in Seq(S)}
<1>1. 0 \in T
  <2> DEFINE f == [i \in 1 .. 0 |-> IF i = 1 THEN q[i] ELSE <<>>]
  <2>1. Joined(q, 0, f)
    BY DEF Joined
  <2>2. \A i \in 1 .. 0 : f[i] \in Seq(S)
    OBVIOUS
  <2> HIDE DEF f
  <2> QED
    BY <2>1, <2>2
<1>2. ASSUME NEW k \in T PROVE k + 1 \in T
  <2> SUFFICES ASSUME k + 1 <= Len(q)
               PROVE  \E f : Joined(q, k + 1, f) /\ \A i \in 1 .. k + 1 : f[i] \in Seq(S)
    BY <1>2
  <2>1. k \in Nat /\ k + 1 \in Nat /\ Len(q) \in Nat
    OBVIOUS
  <2>2. PICK g : Joined(q, k, g) /\ \A i \in 1 .. k : g[i] \in Seq(S)
    BY <2>1
  <2> DEFINE f == [i \in 1 .. k + 1 |-> IF i = k + 1 THEN IF i = 1 THEN q[i] ELSE g[i - 1] \o q[i]
                                        ELSE g[i]]
  <2>3. \A i \in 1 .. k : f[i] = g[i] /\ g[i] = IF i = 1 THEN q[i] ELSE g[i - 1] \o q[i]
    <3>1. \A i \in 1 .. k : f[i] = g[i]
      BY <2>1
    <3>2. \A i \in 1 .. k : g[i] = IF i = 1 THEN q[i] ELSE g[i - 1] \o q[i]
      <4> HIDE DEF f
      <4>1. g = [i \in 1 .. k |-> IF i = 1 THEN q[i] ELSE g[i - 1] \o q[i]]
        BY <2>2 DEF Joined
      <4> QED
        BY <4>1
    <3> QED
      BY <3>1, <3>2
  <2>4. \A i \in 1 .. k + 1 : f[i] = IF i = 1 THEN q[i] ELSE f[i - 1] \o q[i]
    <3> SUFFICES ASSUME NEW i \in 1 .. k + 1 PROVE f[i] = IF i = 1 THEN q[i] ELSE f[i - 1] \o q[i]
      OBVIOUS
    <3>1. CASE i = k + 1
      <4>1. f[i] = IF i = 1 THEN q[i] ELSE g[i - 1] \o q[i]
        BY <3>1
      <4>2. i # 1 => i - 1 \in 1 .. k /\ f[i - 1] = g[i - 1]
        BY <2>1, <2>3, <3>1
      <4> QED
        BY <4>1, <4>2
    <3>2. CASE i # k + 1
      <4>1. i \in 1 .. k
        BY <2>1, <3>2
      <4>2. i # 1 => i - 1 \in 1 .. k
        BY <2>1, <4>1
      <4> QED
        BY <2>3, <4>1, <4>2
    <3> QED
      BY <3>1, <3>2
  <2>5. \A i \in 1 .. k + 1 : f[i] \in Seq(S)
    <3> SUFFICES ASSUME NEW i \in 1 .. k + 1 PROVE f[i] \in Seq(S)
      OBVIOUS
    <3>1. q[i] \in Seq(S)
      BY <2>1
    <3>2. CASE i = k + 1 /\ i = 1
      BY <3>1, <3>2
    <3>3. CASE i = k + 1 /\ i # 1
      <4>1. g[i - 1] \in Seq(S)
        BY <2>1, <2>2, <3>3
      <4>2. f[i] = g[i - 1] \o q[i]
        BY <3>3
      <4>3. g[i - 1] \o q[i] \in Seq(S)
        BY <3>1, <4>1
      <4> HIDE DEF f
      <4> QED
        BY <4>2, <4>3
    <3>4. CASE i # k + 1
      <4>1. i \in 1 .. k
        BY <2>1, <3>4
      <4>2. f[i] = g[i] /\ g[i] \in Seq(S)
        BY <2>2, <2>3, <4>1
      <4> HIDE DEF f
      <4> QED
        BY <4>2
    <3> QED
      BY <3>2, <3>3, <3>4
  <2>6. f = [i \in 1 .. k + 1 |-> f[i]]
    OBVIOUS
  <2> HIDE DEF f
  <2>7. Joined(q, k + 1, f)
    BY <2>4, <2>6 DEF Joined
  <2> QED
    BY <2>5, <2>7
<1> HIDE DEF T
<1>3. T \in SUBSET Nat
  BY DEF T
<1>4. T = Nat
  BY <1>1, <1>2, <1>3, AllNumbers
<1>5. n \in T /\ n <= Len(q)
  BY <1>4
<1> QED
  BY <1>5 DEF T

\* Sequences of elements flatten to a sequence of elements.
LEMMA FlattenType ==
    ASSUME NEW S, NEW q \in Seq(Seq(S))
    PROVE  FlattenSeq(q) \in Seq(S)
<1>1. CASE Len(q) = 0
  BY <1>1 DEF FlattenSeq
<1>2. CASE Len(q) # 0
  <2> DEFINE flatten == CHOOSE f : Joined(q, Len(q), f)
  <2>1. Len(q) \in Nat /\ Len(q) \in 0 .. Len(q) /\ Len(q) \in 1 .. Len(q)
    BY <1>2
  <2>2. \E f : Joined(q, Len(q), f)
    BY <2>1, JoinedExists
  <2>3. Joined(q, Len(q), flatten)
    BY <2>2
  <2>4. FlattenSeq(q) = flatten[Len(q)]
    BY <1>2 DEF FlattenSeq, Joined
  <2> HIDE DEF flatten
  <2> DEFINE T == {k \in Nat : k \in 1 .. Len(q) => flatten[k] \in Seq(S)}
  <2>5. 0 \in T
    OBVIOUS
  <2>6. ASSUME NEW k \in T PROVE k + 1 \in T
    <3> SUFFICES ASSUME k + 1 \in 1 .. Len(q) PROVE flatten[k + 1] \in Seq(S)
      BY <2>6
    <3>1. flatten[k + 1] = IF k + 1 = 1 THEN q[k + 1] ELSE flatten[(k + 1) - 1] \o q[k + 1]
      BY <2>3 DEF Joined
    <3>2. q[k + 1] \in Seq(S)
      OBVIOUS
    <3>3. CASE k = 0
      BY <3>1, <3>2, <3>3
    <3>4. CASE k # 0
      <4>1. flatten[k] \in Seq(S) /\ (k + 1) - 1 = k /\ k + 1 # 1
        BY <2>1, <3>4
      <4> QED
        BY <3>1, <3>2, <4>1
    <3> QED
      BY <3>3, <3>4
  <2> HIDE DEF T
  <2>7. T \in SUBSET Nat
    BY DEF T
  <2>8. T = Nat
    BY <2>5, <2>6, <2>7, AllNumbers
  <2>9. Len(q) \in T
    BY <2>1, <2>8
  <2> QED
    BY <2>1, <2>4, <2>9 DEF T
<1> QED
  BY <1>1, <1>2

---------------------------------------------------------------------------
(* Types.                                                                  *)

EditsIn(size) == {e \in [start : Nat, end : Nat, len : Nat] : e.start <= e.end /\ e.end <= size}

\* The insertions that a comment in the slot can ask for: where a type starts,
\* or where the function starts that the assignment on the next line calls.
InsertionsAt(f, slot) ==
    {e \in EditsIn(f.size) :
        /\ e.end = e.start /\ e.len = 2
        /\ \/ e.start \in TypePlaces(f)
           \/ \E n \in f.assigns : /\ n.rhs.form = "iife" /\ n.line = slot.line + 1
                                   /\ e.start = n.rhs.start}

\* The replacements that it can ask for: of a node, or of the right-hand side of
\* an assignment that does not start below the next line.
ReplacementsAt(f, slot) ==
    {e \in EditsIn(f.size) :
        /\ e.start < e.end
        /\ \/ e.start \in NodeStarts(f)
           \/ \E n \in f.assigns : n.line <= slot.line + 1 /\ e.start = n.rhs.start}

\* What a comment is lowered to: edits of a set, or an error.
IsLowering(r, S) == r = Error \/ r \in Seq(S)

\* The edits of a comment are all insertions, or all replacements.
Lowers(r, f, slot) == IsLowering(r, InsertionsAt(f, slot)) \/ IsLowering(r, ReplacementsAt(f, slot))

LEMMA OneEdit ==
    ASSUME NEW S, NEW e \in S
    PROVE  IsLowering(<<e>>, S)
<1>1. <<e>> \in Seq(S)
  OBVIOUS
<1> QED
  BY <1>1 DEF IsLowering

\* An insertion in the file, and a replacement of what has an extent.
LEMMA EditType ==
    ASSUME NEW size \in Nat
    PROVE  /\ \A p \in 0 .. size : Insert(p) \in EditsIn(size)
           /\ \A n : Spans(n, size) =>
                 \A e \in {Longer(n), Shorter(n)} :
                    e \in EditsIn(size) /\ e.start = n.start /\ e.start < e.end
<1>1. ASSUME NEW p \in 0 .. size PROVE Insert(p) \in EditsIn(size)
  BY DEF Insert, EditsIn
<1>2. ASSUME NEW n, Spans(n, size), NEW e \in {Longer(n), Shorter(n)}
      PROVE  e \in EditsIn(size) /\ e.start = n.start /\ e.start < e.end
  <2>1. n.start \in Nat /\ n.end \in Nat /\ n.start < n.end /\ n.end <= size
    BY <1>2 DEF Spans
  <2>2. CASE e = Longer(n)
    BY <2>1, <2>2 DEF Longer, EditsIn
  <2>3. CASE e = Shorter(n)
    BY <2>1, <2>3 DEF Shorter, EditsIn
  <2> QED
    BY <1>2, <2>2, <2>3
<1> QED
  BY <1>1, <1>2

\* An insertion where a type starts, or the function that is called.
LEMMA InsertionType ==
    ASSUME NEW f, IsFile(f), NEW slot, NEW p \in 0 .. f.size,
           \/ p \in TypePlaces(f)
           \/ \E n \in f.assigns : n.rhs.form = "iife" /\ n.line = slot.line + 1 /\ p = n.rhs.start
    PROVE  Insert(p) \in InsertionsAt(f, slot)
<1>1. f.size \in Nat /\ Insert(p) \in EditsIn(f.size)
  BY EditType DEF IsFile
<1>2. Insert(p).start = p /\ Insert(p).end = p /\ Insert(p).len = 2
  BY DEF Insert
<1> QED
  BY <1>1, <1>2 DEF InsertionsAt

\* Where a type starts something can be inserted.
LEMMA TypeInsertions ==
    ASSUME NEW f, IsFile(f), NEW slot
    PROVE  /\ \A n \in f.fields \cup f.specs :
                 /\ n.typ # None => Insert(n.typ) \in InsertionsAt(f, slot)
                 /\ n.elem # None => Insert(n.elem) \in InsertionsAt(f, slot)
           /\ \A n \in f.assigns \cup f.pairs :
                 n.rhs.form = "chan" => Insert(n.rhs.elem) \in InsertionsAt(f, slot)
           /\ \A n \in f.assigns : n.rhs.form = "iife" =>
                 /\ n.rhs.param # None => Insert(n.rhs.param) \in InsertionsAt(f, slot)
                 /\ n.rhs.result # None => Insert(n.rhs.result) \in InsertionsAt(f, slot)
<1>1. ASSUME NEW n \in f.fields \cup f.specs
      PROVE  /\ n.typ # None => Insert(n.typ) \in InsertionsAt(f, slot)
             /\ n.elem # None => Insert(n.elem) \in InsertionsAt(f, slot)
  <2>1. n.typ \in TypePlaces(f) /\ n.elem \in TypePlaces(f)
    BY DEF TypePlaces
  <2>2. (n.typ # None => n.typ \in 0 .. f.size) /\ (n.elem # None => n.elem \in 0 .. f.size)
    BY DEF IsFile, IsType, Position
  <2> QED
    BY <2>1, <2>2, InsertionType
<1>2. ASSUME NEW n \in f.assigns \cup f.pairs, n.rhs.form = "chan"
      PROVE  Insert(n.rhs.elem) \in InsertionsAt(f, slot)
  <2>1. n.rhs.elem \in TypePlaces(f)
    BY <1>2 DEF TypePlaces
  <2>2. n.rhs.elem \in 0 .. f.size
    BY <1>2 DEF IsFile, IsExpr
  <2> QED
    BY <2>1, <2>2, InsertionType
<1>3. ASSUME NEW n \in f.assigns, n.rhs.form = "iife"
      PROVE  /\ n.rhs.param # None => Insert(n.rhs.param) \in InsertionsAt(f, slot)
             /\ n.rhs.result # None => Insert(n.rhs.result) \in InsertionsAt(f, slot)
  <2>1. n.rhs.param \in TypePlaces(f) /\ n.rhs.result \in TypePlaces(f)
    BY <1>3 DEF TypePlaces
  <2>2. /\ n.rhs.param # None => n.rhs.param \in 0 .. f.size
        /\ n.rhs.result # None => n.rhs.result \in 0 .. f.size
    BY <1>3 DEF IsFile, IsExpr, Position
  <2> QED
    BY <2>1, <2>2, InsertionType
<1> QED
  BY <1>1, <1>2, <1>3

\* Something that starts at a node, or at a right-hand side, can be replaced.
LEMMA ReplacementType ==
    ASSUME NEW f, IsFile(f), NEW slot, NEW n, Spans(n, f.size),
           \/ n.start \in NodeStarts(f)
           \/ \E m \in f.assigns : m.line <= slot.line + 1 /\ n.start = m.rhs.start
    PROVE  Longer(n) \in ReplacementsAt(f, slot) /\ Shorter(n) \in ReplacementsAt(f, slot)
<1>1. \A e \in {Longer(n), Shorter(n)} :
         e \in EditsIn(f.size) /\ e.start = n.start /\ e.start < e.end
  BY EditType DEF IsFile
<1>2. \A e \in {Longer(n), Shorter(n)} : e \in ReplacementsAt(f, slot)
  BY <1>1 DEF ReplacementsAt
<1> QED
  BY <1>2

LEMMA CapLowering ==
    ASSUME NEW S, NEW p, p # None => Insert(p) \in S
    PROVE  IsLowering(insertDirectCap(p), S)
<1>1. CASE p = None
  BY <1>1 DEF insertDirectCap, IsLowering
<1>2. CASE p # None
  BY <1>2, OneEdit DEF insertDirectCap
<1> QED
  BY <1>1, <1>2

\* Commands, each of them lowered: the edits of all, or an error.
LEMMA EachLowering ==
    ASSUME NEW S, NEW n \in Nat, NEW q, q = [i \in 1 .. n |-> q[i]],
           \A i \in 1 .. n : q[i] # Error /\ IsLowering(q[i], S)
    PROVE  IsLowering(FlattenSeq(q), S)
<1>1. \A i \in 1 .. n : q[i] \in Seq(S)
  BY DEF IsLowering
<1>2. q \in Seq(Seq(S))
  BY <1>1
<1>3. FlattenSeq(q) \in Seq(S)
  BY <1>2, FlattenType
<1> QED
  BY <1>3 DEF IsLowering

LEMMA TypeLowering ==
    ASSUME NEW S, NEW body \in Seq(STRING), NEW node,
           node.typ # None => Insert(node.typ) \in S, node.elem # None => Insert(node.elem) \in S
    PROVE  IsLowering(applyTypeCommands(body, node), S)
<1> DEFINE L(c) == CASE c \in CapWords -> insertDirectCap(node.typ)
                     [] c = "elem"     -> insertDirectCap(node.elem)
                     [] OTHER          -> Error
           q == [i \in 1 .. Len(body) |-> L(body[i])]
<1>1. \A c : IsLowering(L(c), S)
  <2>1. IsLowering(insertDirectCap(node.typ), S) /\ IsLowering(insertDirectCap(node.elem), S)
    BY CapLowering
  <2>2. IsLowering(Error, S)
    BY DEF IsLowering
  <2>3. "elem" \notin CapWords
    BY DEF CapWords
  <2> QED
    BY <2>1, <2>2, <2>3
<1>2. /\ DOMAIN body = 1 .. Len(body) /\ Len(body) \in Nat
      /\ q = [i \in 1 .. Len(body) |-> q[i]]
  OBVIOUS
<1>3. applyTypeCommands(body, node) =
         IF node.typ = None THEN Error
         ELSE IF \E i \in 1 .. Len(body) : L(body[i]) = Error THEN Error ELSE FlattenSeq(q)
  BY <1>2 DEF applyTypeCommands, Each
<1>4. \A i \in 1 .. Len(body) : q[i] = L(body[i])
  OBVIOUS
<1> HIDE DEF L, q
<1>5. CASE node.typ = None \/ \E i \in 1 .. Len(body) : L(body[i]) = Error
  BY <1>3, <1>5 DEF IsLowering
<1>6. CASE ~(node.typ = None \/ \E i \in 1 .. Len(body) : L(body[i]) = Error)
  <2>1. IsLowering(FlattenSeq(q), S)
    BY <1>1, <1>2, <1>4, <1>6, EachLowering
  <2> QED
    BY <1>3, <1>6, <2>1
<1> QED
  BY <1>5, <1>6

LEMMA ResultLowering ==
    ASSUME NEW S, NEW body \in Seq(STRING), NEW result, Longer(result.rhs) \in S
    PROVE  IsLowering(applyReturnExprDirective(body, result), S)
<1> DEFINE L(c) == IF c = "new" THEN lowerNewExpr(result.rhs) ELSE Error
           q == [i \in 1 .. Len(body) |-> L(body[i])]
<1>1. \A c : IsLowering(L(c), S)
  <2>1. IsLowering(<<Longer(result.rhs)>>, S)
    BY OneEdit
  <2> QED
    BY <2>1 DEF lowerNewExpr, IsLowering
<1>2. /\ DOMAIN body = 1 .. Len(body) /\ Len(body) \in Nat
      /\ q = [i \in 1 .. Len(body) |-> q[i]]
  OBVIOUS
<1>3. applyReturnExprDirective(body, result) =
         IF \E i \in 1 .. Len(body) : L(body[i]) = Error THEN Error ELSE FlattenSeq(q)
  BY <1>2 DEF applyReturnExprDirective, Each
<1>4. \A i \in 1 .. Len(body) : q[i] = L(body[i])
  OBVIOUS
<1> HIDE DEF L, q
<1>5. CASE \E i \in 1 .. Len(body) : L(body[i]) = Error
  BY <1>3, <1>5 DEF IsLowering
<1>6. CASE ~\E i \in 1 .. Len(body) : L(body[i]) = Error
  <2>1. IsLowering(FlattenSeq(q), S)
    BY <1>1, <1>2, <1>4, <1>6, EachLowering
  <2> QED
    BY <1>3, <1>6, <2>1
<1> QED
  BY <1>5, <1>6

\* Of some nodes of the file one starts first, one starts last, and one ends
\* last.
LEMMA Chosen ==
    ASSUME NEW size \in Nat, NEW T, T # {}, \A n \in T : Spans(n, size)
    PROVE  LastStarted(T) \in T /\ FirstStarted(T) \in T /\ LastEnded(T) \in T
<1>1. \A n \in T : n.start \in 0 .. size /\ n.end \in 0 .. size
  BY DEF Spans
<1>2. \E n \in T : \A m \in T : n.start <= m.start
  <2> DEFINE U == {n.start : n \in T}
  <2>1. U \in SUBSET Nat /\ U # {}
    BY <1>1
  <2> HIDE DEF U
  <2>2. PICK k \in U : \A l \in U : k <= l
    BY <2>1, Least
  <2> QED
    BY <2>2 DEF U
<1>3. \E n \in T : \A m \in T : m.start <= n.start
  <2> DEFINE U == {size - n.start : n \in T}
  <2>1. U \in SUBSET Nat /\ U # {}
    BY <1>1
  <2> HIDE DEF U
  <2>2. PICK k \in U : \A l \in U : k <= l
    BY <2>1, Least
  <2>3. PICK n \in T : k = size - n.start
    BY <2>2 DEF U
  <2>4. \A m \in T : size - n.start <= size - m.start
    BY <2>2, <2>3 DEF U
  <2> QED
    BY <1>1, <2>4
<1>4. \E n \in T : \A m \in T : m.end <= n.end
  <2> DEFINE U == {size - n.end : n \in T}
  <2>1. U \in SUBSET Nat /\ U # {}
    BY <1>1
  <2> HIDE DEF U
  <2>2. PICK k \in U : \A l \in U : k <= l
    BY <2>1, Least
  <2>3. PICK n \in T : k = size - n.end
    BY <2>2 DEF U
  <2>4. \A m \in T : size - n.end <= size - m.end
    BY <2>2, <2>3 DEF U
  <2> QED
    BY <1>1, <2>4
<1> QED
  BY <1>2, <1>3, <1>4 DEF LastStarted, FirstStarted, LastEnded

LEMMA AssignLowering ==
    ASSUME NEW f, IsFile(f), NEW slot, NEW body, NEW assign \in f.assigns,
           assign.line <= slot.line + 1
    PROVE  Lowers(applyAssignDirective(body, assign), f, slot)
<1> DEFINE I == InsertionsAt(f, slot)
           R == ReplacementsAt(f, slot)
           a == lowerNewExpr(assign.rhs)
           b == lowerCap(assign)
           c == lowerMakeChannelElemCapExpr(assign.rhs)
           d == wrapSingleRHS(assign)
           e == lowerCloneDirective(assign)
           g == lowerSwapDirective(assign)
<1>1. Spans(assign, f.size) /\ Spans(assign.rhs, f.size)
  BY DEF IsFile, IsExpr
<1>2. Longer(assign) \in R /\ Shorter(assign) \in R
  <2>1. assign.start \in NodeStarts(f)
    BY DEF NodeStarts
  <2> QED
    BY <1>1, <2>1, ReplacementType
<1>3. Longer(assign.rhs) \in R /\ Shorter(assign.rhs) \in R
  BY <1>1, ReplacementType
<1>4. assign.rhs.form = "chan" => Insert(assign.rhs.elem) \in I
  BY TypeInsertions
<1> HIDE DEF I, R
<1>5. IsLowering(c, I) /\ IsLowering(Error, R)
  BY <1>4, OneEdit DEF lowerMakeChannelElemCapExpr, IsLowering
<1>6. IsLowering(b, I) \/ IsLowering(b, R)
  BY <1>2, <1>5, OneEdit DEF lowerCap, lowerCreationObjectCap
<1>7. IsLowering(a, R) /\ IsLowering(d, R) /\ IsLowering(e, R) /\ IsLowering(g, R)
  BY <1>2, <1>3, <1>5, OneEdit DEF lowerNewExpr, wrapSingleRHS, lowerCloneDirective, lowerSwapDirective
<1>8. applyAssignDirective(body, assign) \in {a, b, c, d, e, g, Error}
  <2>1. "new" # "iso" /\ "new" # "elem" /\ "iso" # "elem"
    OBVIOUS
  <2> HIDE DEF a, b, c, d, e, g
  <2>2. applyAssignDirective(body, assign) =
          CASE body = <<"new">> -> a [] body = <<"iso">> -> b [] body = <<"elem">> -> c
            [] body = <<"mub">> -> d [] body = <<"freeze">> -> d [] body = <<"clone">> -> e
            [] body = <<"swap">> -> g [] OTHER -> Error
    BY DEF applyAssignDirective, a, b, c, d, e, g
  <2> QED
    BY <2>2
<1> HIDE DEF a, b, c, d, e, g
<1> QED
  BY <1>5, <1>6, <1>7, <1>8 DEF Lowers, I, R

LEMMA TrailingLowering ==
    ASSUME NEW f, IsFile(f), IsParsed(f), NEW slot, slot.line \in Int, NEW body \in Seq(STRING)
    PROVE  Lowers(applyTrailingDirective(f, slot, body), f, slot)
<1> DEFINE field == EndingOn(f.fields, slot.line)
           spec == EndingOn(f.specs, slot.line)
           assign == EndingOn(f.assigns, slot.line)
           pair == EndingOn(f.pairs, slot.line)
           result == {r \in EndingOn(f.results, slot.line) : r.end <= slot.start}
           opened == StartingOn(f.assigns, slot.line)
           I == InsertionsAt(f, slot)
           R == ReplacementsAt(f, slot)
<1>0. \A n \in f.assigns : n.line \in Int /\ n.endLine \in Int
  BY DEF IsFile
<1>1. /\ f.size \in Nat
      /\ \A n \in field \cup spec : n \in f.fields \cup f.specs /\ Spans(n, f.size)
      /\ \A n \in assign \cup opened : n \in f.assigns /\ n.line <= slot.line + 1 /\ Spans(n, f.size)
      /\ \A n \in pair : n \in f.pairs /\ Spans(n, f.size)
      /\ \A n \in result : n \in f.results /\ Spans(n, f.size) /\ Spans(n.rhs, f.size)
  BY <1>0 DEF IsFile, IsParsed, IsType, IsExpr, EndingOn, StartingOn
<1>2. applyTrailingDirective(f, slot, body) =
        IF field # {} THEN applyTypeCommands(body, LastStarted(field))
        ELSE IF spec # {} THEN applyTypeCommands(body, LastStarted(spec))
        ELSE IF assign # {} THEN applyAssignDirective(body, LastStarted(assign))
        ELSE IF pair # {} THEN applyKeyValueDirective(body, LastStarted(pair))
        ELSE IF result # {} THEN applyReturnExprDirective(body, LastEnded(result))
        ELSE IF opened # {} THEN applyAssignDirective(body, FirstStarted(opened))
        ELSE Error
  BY DEF applyTrailingDirective
<1> HIDE DEF field, spec, assign, pair, result, opened
<1>3. /\ field # {} => IsLowering(applyTypeCommands(body, LastStarted(field)), I)
      /\ spec # {} => IsLowering(applyTypeCommands(body, LastStarted(spec)), I)
  <2>1. /\ field # {} => LastStarted(field) \in f.fields \cup f.specs
        /\ spec # {} => LastStarted(spec) \in f.fields \cup f.specs
    BY <1>1, Chosen
  <2> QED
    BY <2>1, TypeInsertions, TypeLowering
<1>4. /\ assign # {} => Lowers(applyAssignDirective(body, LastStarted(assign)), f, slot)
      /\ opened # {} => Lowers(applyAssignDirective(body, FirstStarted(opened)), f, slot)
  BY <1>1, Chosen, AssignLowering
<1>5. pair # {} => IsLowering(applyKeyValueDirective(body, LastStarted(pair)), I)
  <2> SUFFICES ASSUME pair # {}
               PROVE  IsLowering(applyKeyValueDirective(body, LastStarted(pair)), I)
    OBVIOUS
  <2> DEFINE n == LastStarted(pair)
  <2>1. n \in f.assigns \cup f.pairs
    BY <1>1, Chosen
  <2>2. n.rhs.form = "chan" => Insert(n.rhs.elem) \in I
    BY <2>1, TypeInsertions
  <2> HIDE DEF n, I
  <2>3. IsLowering(lowerMakeChannelElemCapExpr(n.rhs), I) /\ IsLowering(Error, I)
    BY <2>2, OneEdit DEF lowerMakeChannelElemCapExpr, IsLowering
  <2>4. IsLowering(applyKeyValueDirective(body, n), I)
    BY <2>3 DEF applyKeyValueDirective
  <2> QED
    BY <2>4 DEF n
<1>6. result # {} => IsLowering(applyReturnExprDirective(body, LastEnded(result)), R)
  <2> SUFFICES ASSUME result # {}
               PROVE  IsLowering(applyReturnExprDirective(body, LastEnded(result)), R)
    OBVIOUS
  <2> DEFINE n == LastEnded(result)
  <2>1. n \in f.results /\ Spans(n.rhs, f.size)
    BY <1>1, Chosen
  <2>2. n.rhs.start \in NodeStarts(f)
    BY <2>1 DEF NodeStarts
  <2>3. Longer(n.rhs) \in R
    BY <2>1, <2>2, ReplacementType
  <2> QED
    BY <2>3, ResultLowering
<1>7. IsLowering(Error, I)
  BY DEF IsLowering
<1> QED
  BY <1>2, <1>3, <1>4, <1>5, <1>6, <1>7 DEF Lowers

LEMMA LeadingLowering ==
    ASSUME NEW f, IsFile(f), NEW slot, slot.line \in Int, NEW body \in Seq(STRING)
    PROVE  Lowers(applyLeadingDirective(f, slot, body), f, slot)
<1> DEFINE func == StartingOn(f.funcs, slot.line + 1)
           field == StartingOn(f.fields, slot.line + 1)
           spec == StartingOn(f.specs, slot.line + 1)
           assign == StartingOn(f.assigns, slot.line + 1)
           I == InsertionsAt(f, slot)
           R == ReplacementsAt(f, slot)
<1>1. /\ f.size \in Nat
      /\ \A n \in field \cup spec : n \in f.fields \cup f.specs /\ Spans(n, f.size)
      /\ \A n \in assign : n \in f.assigns /\ n.line <= slot.line + 1 /\ Spans(n, f.size)
      /\ \A n \in func : n \in f.funcs /\ Spans(n, f.size) /\ n.body \in n.start + 1 .. f.size
  BY DEF IsFile, IsType, StartingOn
<1>2. applyLeadingDirective(f, slot, body) =
        IF func # {} THEN applyInlineFuncSignatureDirective(body, FirstStarted(func))
        ELSE IF field # {} THEN applyTypeCommands(body, FirstStarted(field))
        ELSE IF spec # {} THEN applyTypeCommands(body, FirstStarted(spec))
        ELSE IF assign # {} THEN applyAssignDirective(body, FirstStarted(assign))
        ELSE Error
  BY DEF applyLeadingDirective
<1> HIDE DEF func, field, spec, assign
<1>3. /\ field # {} => IsLowering(applyTypeCommands(body, FirstStarted(field)), I)
      /\ spec # {} => IsLowering(applyTypeCommands(body, FirstStarted(spec)), I)
  <2>1. /\ field # {} => FirstStarted(field) \in f.fields \cup f.specs
        /\ spec # {} => FirstStarted(spec) \in f.fields \cup f.specs
    BY <1>1, Chosen
  <2> QED
    BY <2>1, TypeInsertions, TypeLowering
<1>4. assign # {} => Lowers(applyAssignDirective(body, FirstStarted(assign)), f, slot)
  BY <1>1, Chosen, AssignLowering
<1>5. IsLowering(Error, R)
  BY DEF IsLowering
<1>6. ASSUME func # {}
      PROVE  IsLowering(applyInlineFuncSignatureDirective(body, FirstStarted(func)), R)
  <2> DEFINE n == FirstStarted(func)
             s == [start |-> n.start, end |-> n.body]
  <2>1. n \in f.funcs /\ n.start \in 0 .. f.size /\ n.body \in n.start + 1 .. f.size
    BY <1>1, <1>6, Chosen DEF Spans
  <2>2. Spans(s, f.size) /\ s.start = n.start
    BY <1>1, <2>1 DEF Spans
  <2>3. n.start \in NodeStarts(f)
    BY <2>1 DEF NodeStarts
  <2> HIDE DEF n, R
  <2>4. Shorter(s) \in R
    <3> HIDE DEF s
    <3> QED
      BY <2>2, <2>3, ReplacementType DEF R
  <2> HIDE DEF s
  <2>5. IsLowering(<<Shorter(s)>>, R)
    BY <2>4, OneEdit
  <2> QED
    BY <1>5, <2>5 DEF applyInlineFuncSignatureDirective, n, s
<1> QED
  BY <1>2, <1>3, <1>4, <1>5, <1>6 DEF Lowers

LEMMA RestoreLowering ==
    ASSUME NEW f, IsFile(f), NEW slot, NEW body \in Seq(STRING)
    PROVE  IsLowering(applyRestoreDirective(f, slot, body), InsertionsAt(f, slot))
<1> DEFINE assign == StartingOn(f.assigns, slot.line + 1)
           iife == FirstStarted(assign).rhs
           L(c) == restoreCap(iife, c)
           q == [i \in 1 .. Len(body) |-> L(body[i])]
           caps == IF \E i \in 1 .. Len(body) : L(body[i]) = Error THEN Error ELSE FlattenSeq(q)
           I == InsertionsAt(f, slot)
<1>1. /\ DOMAIN body = 1 .. Len(body) /\ Len(body) \in Nat
      /\ q = [i \in 1 .. Len(body) |-> q[i]]
  OBVIOUS
<1>2. applyRestoreDirective(f, slot, body) =
        IF assign = {} \/ iife.form # "iife" \/ caps = Error THEN Error
        ELSE <<Insert(iife.start)>> \o caps
  BY <1>1 DEF applyRestoreDirective, Each
<1>3. /\ f.size \in Nat
      /\ \A n \in assign : n \in f.assigns /\ n.line = slot.line + 1 /\ Spans(n, f.size)
  BY DEF IsFile, StartingOn
<1>4. \A i \in 1 .. Len(body) : q[i] = L(body[i])
  OBVIOUS
<1>5. ASSUME assign # {}, iife.form = "iife"
      PROVE  IsLowering(caps, I) /\ Insert(iife.start) \in I
  <2> DEFINE n == FirstStarted(assign)
  <2>1. n \in f.assigns /\ n.line = slot.line + 1 /\ n.rhs.form = "iife"
    BY <1>3, <1>5, Chosen
  <2>2. n.rhs.start \in 0 .. f.size
    BY <2>1 DEF IsFile, IsExpr, Spans
  <2>3. Insert(n.rhs.start) \in I
    BY <2>1, <2>2, InsertionType
  <2>4. /\ n.rhs.param # None => Insert(n.rhs.param) \in I
        /\ n.rhs.result # None => Insert(n.rhs.result) \in I
    BY <2>1, TypeInsertions
  <2> HIDE DEF I
  <2>5. \A c : IsLowering(L(c), I)
    <3>1. IsLowering(insertDirectCap(iife.param), I) /\ IsLowering(insertDirectCap(iife.result), I)
      BY <2>4, CapLowering
    <3>2. IsLowering(<<>>, I) /\ IsLowering(Error, I)
      BY DEF IsLowering
    <3>3. \A c : L(c) \in {<<>>, insertDirectCap(iife.param), insertDirectCap(iife.result), Error}
      BY DEF restoreCap
    <3> QED
      BY <3>1, <3>2, <3>3
  <2>6. IsLowering(caps, I)
    <3> HIDE DEF L, q
    <3>1. CASE \E i \in 1 .. Len(body) : L(body[i]) = Error
      BY <3>1 DEF IsLowering
    <3>2. CASE ~\E i \in 1 .. Len(body) : L(body[i]) = Error
      <4>1. IsLowering(FlattenSeq(q), I)
        BY <1>1, <1>4, <2>5, <3>2, EachLowering
      <4> QED
        BY <3>2, <4>1
    <3> QED
      BY <3>1, <3>2
  <2> QED
    BY <2>3, <2>6
<1> HIDE DEF assign, iife, caps, I
<1>6. ASSUME assign # {}, iife.form = "iife", caps # Error
      PROVE  <<Insert(iife.start)>> \o caps \in Seq(I)
  <2>1. Insert(iife.start) \in I /\ caps \in Seq(I)
    BY <1>5, <1>6 DEF IsLowering
  <2> HIDE DEF Insert
  <2> QED
    BY <2>1
<1> QED
  BY <1>2, <1>6 DEF IsLowering, I

\* Whatever a comment says and wherever it stands, it becomes insertions into the
\* file, or replacements in it, or an error.
LEMMA DirectiveLowering ==
    ASSUME NEW f, IsFile(f), IsParsed(f), NEW s \in DOMAIN f.slots, NEW body \in Seq(STRING)
    PROVE  Lowers(applyDirective(f, f.slots[s], body), f, f.slots[s])
<1> DEFINE slot == f.slots[s]
<1>1. Spans(slot, f.size) /\ slot.start \in NodeStarts(f) /\ slot.line \in Int
  BY DEF IsFile, NodeStarts, ToSet
<1>2. Lowers(<<Shorter(slot)>>, f, slot)
  BY <1>1, ReplacementType, OneEdit DEF Lowers
<1>3. Lowers(applyRestoreDirective(f, slot, body), f, slot)
  BY RestoreLowering DEF Lowers
<1> HIDE DEF slot
<1>4. /\ Lowers(applyTrailingDirective(f, slot, body), f, slot)
      /\ Lowers(applyLeadingDirective(f, slot, body), f, slot)
  BY <1>1, TrailingLowering, LeadingLowering
<1> QED
  BY <1>2, <1>3, <1>4 DEF applyDirective, slot

\* An edit of a comment is an edit of the file.
LEMMA LoweringIsOfFile ==
    ASSUME NEW f, NEW slot, NEW r, Lowers(r, f, slot)
    PROVE  r = Error \/ r \in Seq(EditsIn(f.size))
<1>1. InsertionsAt(f, slot) \subseteq EditsIn(f.size) /\ ReplacementsAt(f, slot) \subseteq EditsIn(f.size)
  BY DEF InsertionsAt, ReplacementsAt
<1>2. \A S : S \subseteq EditsIn(f.size) /\ r \in Seq(S) => r \in Seq(EditsIn(f.size))
  OBVIOUS
<1> QED
  BY <1>1, <1>2 DEF Lowers, IsLowering

---------------------------------------------------------------------------
(* Sorting.                                                                *)

\* The order of a stable sort: by the key, and by the place among equal keys.
First(key, j, k) == key[j] < key[k] \/ (j < k /\ ~(key[k] < key[j]))
Ahead(key, k) == {j \in DOMAIN key : First(key, j, k)}

LEMMA FirstIsOrder ==
    ASSUME NEW n \in Nat, NEW key \in [1 .. n -> Int],
           NEW i \in 1 .. n, NEW j \in 1 .. n, NEW k \in 1 .. n
    PROVE  /\ ~First(key, i, i)
           /\ First(key, i, j) /\ First(key, j, k) => First(key, i, k)
           /\ i # j => First(key, i, j) \/ First(key, j, i)
BY DEF First

\* Who is behind another has more ahead of it.
LEMMA AheadGrows ==
    ASSUME NEW n \in Nat, NEW key \in [1 .. n -> Int], NEW j \in 1 .. n, NEW k \in 1 .. n
    PROVE  /\ Cardinality(Ahead(key, k)) \in 0 .. n - 1
           /\ First(key, j, k) => Cardinality(Ahead(key, j)) < Cardinality(Ahead(key, k))
<1>1. IsFiniteSet(1 .. n) /\ Cardinality(1 .. n) = n
  BY FS_Interval
<1>2. \A m \in 1 .. n : Ahead(key, m) \subseteq (1 .. n) \ {m}
  BY FirstIsOrder DEF Ahead
<1>3. \A m \in 1 .. n : IsFiniteSet((1 .. n) \ {m}) /\ Cardinality((1 .. n) \ {m}) = n - 1
  BY <1>1, FS_RemoveElement
<1>4. ASSUME NEW m \in 1 .. n
      PROVE  /\ IsFiniteSet(Ahead(key, m)) /\ Cardinality(Ahead(key, m)) \in Nat
             /\ Cardinality(Ahead(key, m)) <= n - 1
  <2> DEFINE T == Ahead(key, m)
             S == (1 .. n) \ {m}
  <2>1. T \subseteq S /\ IsFiniteSet(S) /\ Cardinality(S) = n - 1
    BY <1>2, <1>3
  <2> HIDE DEF T, S
  <2>2. IsFiniteSet(T) /\ Cardinality(T) <= Cardinality(S) /\ Cardinality(T) \in Nat
    BY <2>1, FS_Subset, FS_CardinalityType
  <2>3. IsFiniteSet(T) /\ Cardinality(T) \in Nat /\ Cardinality(T) <= n - 1
    BY <2>1, <2>2
  <2> QED
    BY <2>3 DEF T
<1>5. ASSUME First(key, j, k) PROVE Cardinality(Ahead(key, j)) < Cardinality(Ahead(key, k))
  <2>1. Ahead(key, j) \subseteq Ahead(key, k) \ {j}
    BY <1>2, <1>5, FirstIsOrder DEF Ahead
  <2>2. j \in Ahead(key, k)
    BY <1>5 DEF Ahead
  <2>3. /\ IsFiniteSet(Ahead(key, k) \ {j})
        /\ Cardinality(Ahead(key, k) \ {j}) = Cardinality(Ahead(key, k)) - 1
    BY <1>4, <2>2, FS_RemoveElement
  <2>4. Cardinality(Ahead(key, j)) <= Cardinality(Ahead(key, k)) - 1
    BY <2>1, <2>3, FS_Subset
  <2> QED
    BY <1>4, <2>4
<1> QED
  BY <1>4, <1>5

\* Each number of keys ahead is that of some key.
LEMMA EveryRank ==
    ASSUME NEW n \in Nat, NEW key \in [1 .. n -> Int], NEW m \in 1 .. n
    PROVE  \E k \in 1 .. n : Cardinality(Ahead(key, k)) = m - 1
<1> DEFINE rank(k) == Cardinality(Ahead(key, k))
           f == [k \in 1 .. n |-> rank(k) + 1]
<1>1. \A k \in 1 .. n : rank(k) \in 0 .. n - 1
  BY AheadGrows
<1>2. \A j, k \in 1 .. n : First(key, j, k) => rank(j) < rank(k)
  BY AheadGrows
<1> HIDE DEF rank
<1>3. \A j, k \in 1 .. n : rank(j) = rank(k) => j = k
  <2> SUFFICES ASSUME NEW j \in 1 .. n, NEW k \in 1 .. n, rank(j) = rank(k), j # k PROVE FALSE
    OBVIOUS
  <2>1. First(key, j, k) \/ First(key, k, j)
    BY FirstIsOrder
  <2>2. rank(j) < rank(k) \/ rank(k) < rank(j)
    BY <1>2, <2>1
  <2> QED
    BY <1>1, <2>2
<1>4. f \in Injection(1 .. n, 1 .. n)
  <2>1. f \in [1 .. n -> 1 .. n]
    BY <1>1
  <2>2. \A j, k \in 1 .. n : f[j] = f[k] => j = k
    BY <1>1, <1>3
  <2> QED
    BY <2>1, <2>2 DEF Injection, IsInjective
<1>5. f \in Surjection(1 .. n, 1 .. n)
  <2>1. IsFiniteSet(1 .. n)
    BY FS_Interval
  <2> HIDE DEF f
  <2> QED
    BY <1>4, <2>1, FS_Injection
<1>6. PICK k \in 1 .. n : f[k] = m
  BY <1>5 DEF Surjection
<1>7. rank(k) + 1 = m /\ rank(k) \in Int
  BY <1>1, <1>6
<1>8. rank(k) = m - 1
  BY <1>7
<1> QED
  BY <1>8 DEF rank

\* A stable sort of n keys has every place once, in the order of the keys.
LEMMA SortIs ==
    ASSUME NEW n \in Nat, NEW key \in [1 .. n -> Int], NEW s \in [1 .. n -> 1 .. n],
           \A m \in 1 .. n : Cardinality(Ahead(key, s[m])) = m - 1
    PROVE  /\ \A k \in 1 .. n : \E m \in 1 .. n : s[m] = k
           /\ \A l, m \in 1 .. n : l < m => First(key, s[l], s[m])
<1> DEFINE rank(k) == Cardinality(Ahead(key, k))
<1>1. \A k \in 1 .. n : rank(k) \in 0 .. n - 1
  BY AheadGrows
<1>2. \A j, k \in 1 .. n : First(key, j, k) => rank(j) < rank(k)
  BY AheadGrows
<1>3. \A m \in 1 .. n : s[m] \in 1 .. n /\ rank(s[m]) = m - 1
  OBVIOUS
<1> HIDE DEF rank
<1>4. \A j, k \in 1 .. n : rank(j) = rank(k) => j = k
  <2> SUFFICES ASSUME NEW j \in 1 .. n, NEW k \in 1 .. n, rank(j) = rank(k), j # k PROVE FALSE
    OBVIOUS
  <2>1. First(key, j, k) \/ First(key, k, j)
    BY FirstIsOrder
  <2>2. rank(j) < rank(k) \/ rank(k) < rank(j)
    BY <1>2, <2>1
  <2> QED
    BY <1>1, <2>2
<1>5. ASSUME NEW k \in 1 .. n PROVE \E m \in 1 .. n : s[m] = k
  <2> DEFINE r == rank(k)
  <2>0. r \in 0 .. n - 1
    BY <1>1
  <2> HIDE DEF r
  <2>1. r + 1 \in 1 .. n /\ (r + 1) - 1 = r
    BY <2>0
  <2> USE DEF r
  <2>2. s[rank(k) + 1] = k
    BY <1>3, <1>4, <2>1
  <2> QED
    BY <2>1, <2>2
<1>6. ASSUME NEW l \in 1 .. n, NEW m \in 1 .. n, l < m PROVE First(key, s[l], s[m])
  <2>1. rank(s[l]) = l - 1 /\ rank(s[m]) = m - 1 /\ s[l] \in 1 .. n /\ s[m] \in 1 .. n
    BY <1>3
  <2>2. rank(s[l]) < rank(s[m])
    BY <1>6, <2>1
  <2>3. ~First(key, s[m], s[l]) /\ s[l] # s[m]
    <3>1. ~(rank(s[m]) < rank(s[l])) /\ rank(s[l]) # rank(s[m])
      BY <2>1, <2>2
    <3> QED
      BY <1>2, <2>1, <3>1
  <2> QED
    BY <2>1, <2>3, FirstIsOrder
<1> QED
  BY <1>5, <1>6

\* The edits sorted from the back, or from the front: each of them once, and
\* where two start together in the order in which they were made.
LEMMA SliceStableIs ==
    ASSUME NEW size \in Nat, edits \in Seq(EditsIn(size)), NEW sign \in {-1, 1}
    PROVE  /\ SliceStable(sign) \in [1 .. Len(edits) -> 1 .. Len(edits)]
           /\ \A k \in 1 .. Len(edits) : \E m \in 1 .. Len(edits) : SliceStable(sign)[m] = k
           /\ \A l, m \in 1 .. Len(edits) : l < m =>
                 LET j == SliceStable(sign)[l]
                     k == SliceStable(sign)[m]
                 IN  \/ sign * edits[j].start < sign * edits[k].start
                     \/ edits[j].start = edits[k].start /\ j < k
<1> DEFINE n == Len(edits)
           key == [k \in 1 .. n |-> sign * edits[k].start]
           d == SliceStable(sign)
<1>1. n \in Nat /\ DOMAIN edits = 1 .. n
  OBVIOUS
<1>2. \A k \in 1 .. n : edits[k].start \in Nat /\ key[k] = sign * edits[k].start
  BY DEF EditsIn
<1>3. key \in [1 .. n -> Int]
  BY <1>2
<1>4. \A k \in 1 .. n : Ahead(key, k) =
         {j \in 1 .. n : sign * edits[j].start < sign * edits[k].start
                         \/ (j < k /\ ~(sign * edits[k].start < sign * edits[j].start))}
  BY <1>1 DEF Ahead, First
<1>5. d = [m \in 1 .. n |-> CHOOSE k \in 1 .. n : Cardinality(Ahead(key, k)) = m - 1]
  <2> DEFINE Others(k) == {j \in 1 .. n : sign * edits[j].start < sign * edits[k].start
                                \/ (j < k /\ ~(sign * edits[k].start < sign * edits[j].start))}
             Place(m) == CHOOSE k \in 1 .. n : Cardinality(Others(k)) = m - 1
             Rank(m) == CHOOSE k \in 1 .. n : Cardinality(Ahead(key, k)) = m - 1
  <2>1. d = [m \in 1 .. n |-> Place(m)]
    BY <1>1 DEF SliceStable
  <2>2. \A k \in 1 .. n : Others(k) = Ahead(key, k)
    BY <1>4
  <2> HIDE DEF key, Others, d
  <2>3. ASSUME NEW m \in 1 .. n PROVE Place(m) = Rank(m)
    BY <2>2
  <2> HIDE DEF Place, Rank
  <2>4. [m \in 1 .. n |-> Place(m)] = [m \in 1 .. n |-> Rank(m)]
    BY <2>3
  <2> QED
    BY <2>1, <2>4 DEF Rank
<1> HIDE DEF key, d
<1>6. /\ d \in [1 .. n -> 1 .. n]
      /\ \A k \in 1 .. n : \E m \in 1 .. n : d[m] = k
      /\ \A l, m \in 1 .. n : l < m => First(key, d[l], d[m])
  <2> DEFINE Rank(m) == CHOOSE k \in 1 .. n : Cardinality(Ahead(key, k)) = m - 1
  <2>1. d = [m \in 1 .. n |-> Rank(m)]
    BY <1>5
  <2>2. n \in Nat
    BY <1>1
  <2>3. ASSUME NEW m \in 1 .. n
        PROVE  Rank(m) \in 1 .. n /\ Cardinality(Ahead(key, Rank(m))) = m - 1
    BY <1>3, <2>2, EveryRank
  <2> HIDE DEF n, Rank
  <2>4. d \in [1 .. n -> 1 .. n] /\ \A m \in 1 .. n : Cardinality(Ahead(key, d[m])) = m - 1
    BY <2>1, <2>3
  <2>5. /\ \A k \in 1 .. n : \E m \in 1 .. n : d[m] = k
        /\ \A l, m \in 1 .. n : l < m => First(key, d[l], d[m])
    BY <1>3, <2>2, <2>4, SortIs
  <2> QED
    BY <2>4, <2>5
<1>7. ASSUME NEW l \in 1 .. n, NEW m \in 1 .. n, l < m
      PROVE  \/ sign * edits[d[l]].start < sign * edits[d[m]].start
             \/ edits[d[l]].start = edits[d[m]].start /\ d[l] < d[m]
  <2> DEFINE a == d[l]
             b == d[m]
  <2>1. a \in 1 .. n /\ b \in 1 .. n /\ First(key, a, b)
    BY <1>6, <1>7
  <2> HIDE DEF a, b, n
  <2>2. key[a] < key[b] \/ (a < b /\ ~(key[b] < key[a]))
    BY <2>1 DEF First
  <2>3. /\ edits[a].start \in Nat /\ key[a] = sign * edits[a].start
        /\ edits[b].start \in Nat /\ key[b] = sign * edits[b].start
    BY <1>2, <2>1
  <2>4. \/ sign * edits[a].start < sign * edits[b].start
        \/ edits[a].start = edits[b].start /\ a < b
    BY <2>2, <2>3
  <2> QED
    BY <2>4 DEF a, b
<1> QED
  BY <1>6, <1>7 DEF d

LEMMA DescendingIs ==
    ASSUME NEW size \in Nat, edits \in Seq(EditsIn(size))
    PROVE  /\ Descending \in [1 .. Len(edits) -> 1 .. Len(edits)]
           /\ \A k \in 1 .. Len(edits) : \E m \in 1 .. Len(edits) : Descending[m] = k
           /\ \A l, m \in 1 .. Len(edits) : l < m =>
                 /\ Descending[l] # Descending[m]
                 /\ edits[Descending[m]].start <= edits[Descending[l]].start
                 /\ edits[Descending[m]].start = edits[Descending[l]].start =>
                       Descending[l] < Descending[m]
<1> DEFINE n == Len(edits)
           d == Descending
<1>1. /\ d \in [1 .. n -> 1 .. n]
      /\ \A k \in 1 .. n : \E m \in 1 .. n : d[m] = k
      /\ \A l, m \in 1 .. n : l < m => \/ (-1) * edits[d[l]].start < (-1) * edits[d[m]].start
                                       \/ edits[d[l]].start = edits[d[m]].start /\ d[l] < d[m]
  BY SliceStableIs DEF Descending
<1>2. n \in Nat /\ \A k \in 1 .. n : edits[k].start \in Nat
  BY DEF EditsIn
<1> HIDE DEF n, d
<1>3. ASSUME NEW l \in 1 .. n, NEW m \in 1 .. n, l < m
      PROVE  /\ d[l] # d[m] /\ edits[d[m]].start <= edits[d[l]].start
             /\ edits[d[m]].start = edits[d[l]].start => d[l] < d[m]
  <2>1. /\ d[l] \in 1 .. n /\ d[m] \in 1 .. n
        /\ \/ (-1) * edits[d[l]].start < (-1) * edits[d[m]].start
           \/ edits[d[l]].start = edits[d[m]].start /\ d[l] < d[m]
    BY <1>1, <1>3
  <2> DEFINE x == edits[d[l]].start
             y == edits[d[m]].start
  <2>2. x \in Nat /\ y \in Nat
    BY <1>2, <2>1
  <2>3. (-1) * x < (-1) * y \/ (x = y /\ d[l] < d[m])
    BY <2>1
  <2> HIDE DEF x, y
  <2>4. y <= x /\ (y = x => d[l] < d[m])
    BY <2>2, <2>3
  <2>5. d[l] # d[m]
    BY <2>1, <2>2, <2>3 DEF x, y
  <2> QED
    BY <2>4, <2>5 DEF x, y
<1> QED
  BY <1>1, <1>3 DEF n, d

LEMMA AscendingIs ==
    ASSUME NEW size \in Nat, edits \in Seq(EditsIn(size))
    PROVE  /\ Ascending \in [1 .. Len(edits) -> 1 .. Len(edits)]
           /\ \A l, m \in 1 .. Len(edits) : l < m =>
                 /\ Ascending[l] # Ascending[m]
                 /\ edits[Ascending[l]].start <= edits[Ascending[m]].start
<1> DEFINE n == Len(edits)
           d == Ascending
<1>1. /\ d \in [1 .. n -> 1 .. n]
      /\ \A l, m \in 1 .. n : l < m => \/ 1 * edits[d[l]].start < 1 * edits[d[m]].start
                                       \/ edits[d[l]].start = edits[d[m]].start /\ d[l] < d[m]
  BY SliceStableIs DEF Ascending
<1>2. n \in Nat /\ \A k \in 1 .. n : edits[k].start \in Nat
  BY DEF EditsIn
<1> HIDE DEF n, d
<1>3. ASSUME NEW l \in 1 .. n, NEW m \in 1 .. n, l < m
      PROVE  d[l] # d[m] /\ edits[d[l]].start <= edits[d[m]].start
  <2>1. /\ d[l] \in 1 .. n /\ d[m] \in 1 .. n
        /\ \/ 1 * edits[d[l]].start < 1 * edits[d[m]].start
           \/ edits[d[l]].start = edits[d[m]].start /\ d[l] < d[m]
    BY <1>1, <1>3
  <2> DEFINE x == edits[d[l]].start
             y == edits[d[m]].start
  <2>2. x \in Nat /\ y \in Nat
    BY <1>2, <2>1
  <2>3. 1 * x < 1 * y \/ (x = y /\ d[l] < d[m])
    BY <2>1
  <2> HIDE DEF x, y
  <2>4. x <= y
    BY <2>2, <2>3
  <2>5. d[l] # d[m]
    BY <2>1, <2>2, <2>3 DEF x, y
  <2> QED
    BY <2>4, <2>5 DEF x, y
<1> QED
  BY <1>1, <1>3 DEF n, d

---------------------------------------------------------------------------
(* Types.                                                                  *)

\* The bytes of a text: of the file, or of one of the edits.
ByteOf(e, size) == {b \in [edit : Nat, at : Nat] :
                       IF b.edit = 0 THEN b.at < size
                       ELSE b.edit \in DOMAIN e /\ b.at \in 1 .. e[b.edit].len}

\* The new text of an edit.
Piece(e, k) == [j \in 1 .. e[k].len |-> [edit |-> k, at |-> j]]

\* What putting w in the place of the bytes from a to b does to a text.
CutIn(o, w, a, b) == SubSeq(o, 1, a) \o w \o SubSeq(o, b + 1, Len(o))

\* t is o with w in the place of the bytes from a to b.
IsCut(t, o, w, a, b) ==
    /\ Len(t) = a + Len(w) + (Len(o) - b)
    /\ \A i \in 1 .. a : t[i] = o[i]
    /\ \A i \in a + 1 .. a + Len(w) : t[i] = w[i - a]
    /\ \A i \in a + Len(w) + 1 .. Len(t) : t[i] = o[i - (a + Len(w)) + b]

LEMMA CutInIs ==
    ASSUME NEW S, NEW o \in Seq(S), NEW w \in Seq(S), NEW a \in Nat, NEW b \in Nat,
           a <= b, b <= Len(o)
    PROVE  CutIn(o, w, a, b) \in Seq(S) /\ IsCut(CutIn(o, w, a, b), o, w, a, b)
<1> DEFINE l == Len(w)
<1>0. l \in Nat /\ Len(w) = l
  OBVIOUS
<1> HIDE DEF l
<1> DEFINE h == SubSeq(o, 1, a)
           r == SubSeq(o, b + 1, Len(o))
           c == Len(o) - b
<1>1. h \in Seq(S) /\ Len(h) = a /\ \A i \in 1 .. a : h[i] = o[i]
  OBVIOUS
<1>2. r \in Seq(S) /\ Len(r) = c /\ c \in Nat /\ \A i \in 1 .. c : r[i] = o[i + b]
  OBVIOUS
<1>4. c = Len(o) - b
  OBVIOUS
<1> HIDE DEF h, r, c
<1> DEFINE t == h \o w \o r
<1>5. t \in Seq(S)
  BY <1>0, <1>1, <1>2
<1> DEFINE g == h \o w
<1>3. g \in Seq(S) /\ Len(g) = a + l
  <2>1. h \in Seq(S) /\ w \in Seq(S) /\ Len(h) = a
    BY <1>1
  <2>2. h \o w \in Seq(S) /\ Len(h \o w) = Len(h) + Len(w)
    BY <2>1
  <2> QED
    BY <1>0, <2>1, <2>2
<1>6. Len(t) = a + l + c
  <2>1. t = g \o r
    OBVIOUS
  <2> HIDE DEF g, t
  <2>2. Len(g \o r) = Len(g) + Len(r)
    <3>1. g \in Seq(S) /\ r \in Seq(S)
      BY <1>0, <1>2, <1>3
    <3> QED
      BY <3>1
  <2> QED
    BY <1>0, <1>2, <1>3, <2>1, <2>2
<1>7. \A i \in 1 .. a : t[i] = h[i]
  BY <1>0, <1>1, <1>2
<1>8. \A i \in a + 1 .. a + l : t[i] = w[i - a]
  BY <1>0, <1>1, <1>2
<1>9. \A i \in a + l + 1 .. a + l + c : t[i] = r[i - (a + l)]
  <2> SUFFICES ASSUME NEW i \in a + l + 1 .. a + l + c PROVE t[i] = r[i - (a + l)]
    OBVIOUS
  <2>1. t = g \o r
    OBVIOUS
  <2> HIDE DEF g, t
  <2>2. Len(g) + 1 <= i /\ i <= Len(g) + Len(r) /\ i \in Int
    BY <1>0, <1>2, <1>3
  <2>3. t[i] = r[i - Len(g)]
    BY <1>0, <1>2, <1>3, <2>1, <2>2
  <2> QED
    BY <1>0, <1>3, <2>3
<1>10. CutIn(o, w, a, b) = t
  BY DEF CutIn, h, r
<1> HIDE DEF t
<1>11. \A i \in a + l + 1 .. a + l + c : i - (a + l) \in 1 .. c
  BY <1>0, <1>2
<1>12. \A i \in a + l + 1 .. a + l + c : t[i] = o[i - (a + l) + b]
  BY <1>0, <1>2, <1>9, <1>11
<1>13. Len(t) = a + l + (Len(o) - b)
  BY <1>0, <1>4, <1>6
<1>14. \A i \in a + l + 1 .. Len(t) : t[i] = o[i - (a + l) + b]
  BY <1>0, <1>6, <1>12
<1>15. \A i \in 1 .. a : t[i] = o[i]
  BY <1>0, <1>1, <1>7
<1>16. IsCut(t, o, w, a, b)
  BY <1>0, <1>8, <1>13, <1>14, <1>15 DEF IsCut
<1> QED
  BY <1>5, <1>10, <1>16

Spliced(o, e, k) == CutIn(o, Piece(e, k), e[k].start, e[k].end)

\* The text stays one of bytes of the file and of edits.
LEMMA SpliceType ==
    ASSUME NEW size \in Nat, NEW e \in Seq(EditsIn(size)), NEW k \in 1 .. Len(e),
           NEW o \in Seq(ByteOf(e, size)), e[k].end <= Len(o)
    PROVE  /\ Spliced(o, e, k) \in Seq(ByteOf(e, size))
           /\ Piece(e, k) \in Seq(ByteOf(e, size)) /\ Len(Piece(e, k)) = e[k].len
<1>1. e[k] \in EditsIn(size)
  OBVIOUS
<1> DEFINE a == e[k].start
           b == e[k].end
           l == e[k].len
           w == Piece(e, k)
<1>2. a \in Nat /\ b \in Nat /\ l \in Nat /\ a <= b /\ b <= Len(o)
  BY <1>1 DEF EditsIn
<1>3. w \in Seq(ByteOf(e, size)) /\ Len(w) = l
  <2>1. \A i \in 1 .. l : [edit |-> k, at |-> i] \in ByteOf(e, size)
    BY <1>2 DEF ByteOf
  <2>2. w = [i \in 1 .. l |-> [edit |-> k, at |-> i]]
    BY DEF Piece
  <2> HIDE DEF w, l
  <2> QED
    BY <1>2, <2>1, <2>2
<1>4. Spliced(o, e, k) = CutIn(o, w, a, b)
  BY DEF Spliced
<1> HIDE DEF a, b, l, w
<1>5. CutIn(o, w, a, b) \in Seq(ByteOf(e, size))
  <2> DEFINE S == ByteOf(e, size)
  <2>1. o \in Seq(S) /\ w \in Seq(S)
    BY <1>3
  <2> HIDE DEF S
  <2>2. CutIn(o, w, a, b) \in Seq(S)
    BY <1>2, <2>1, CutInIs
  <2> QED
    BY <2>2 DEF S
<1> QED
  BY <1>3, <1>4, <1>5 DEF w, l

\* More edits leave the bytes of the text what they are.
LEMMA BytesStay ==
    ASSUME NEW size \in Nat, NEW e \in Seq(EditsIn(size)), NEW more \in Seq(EditsIn(size))
    PROVE  ByteOf(e, size) \subseteq ByteOf(e \o more, size)
<1>1. \A k \in DOMAIN e : k \in DOMAIN (e \o more) /\ (e \o more)[k] = e[k]
  OBVIOUS
<1> QED
  BY <1>1 DEF ByteOf

Untouched == [i \in 1 .. file.size |-> ToSource(i - 1)]

TInv ==
    /\ file \in Files /\ file.size \in Nat
    /\ phase \in {"lowering", "editing", "lowered", "error"}
    /\ directives \in Seq([slot : DOMAIN file.slots, body : Bodies])
    /\ edits \in Seq(EditsIn(file.size))
    /\ applied \in 0 .. Len(edits) /\ lastStart \in 0 .. file.size + 1
    /\ out \in Seq(ByteOf(edits, file.size))
    /\ phase = "lowering" => applied = 0 /\ lastStart = file.size + 1 /\ out = Untouched

LEMMA InitTypes == Init => TInv
<1> SUFFICES ASSUME Init PROVE TInv
  OBVIOUS
<1>1. file \in Files /\ file.size \in Nat
  BY FilesAssumption DEF Init, IsFile
<1>2. /\ phase \in {"lowering", "editing", "lowered", "error"}
      /\ directives \in Seq([slot : DOMAIN file.slots, body : Bodies])
      /\ edits \in Seq(EditsIn(file.size)) /\ Len(edits) = 0
      /\ applied = 0 /\ lastStart = file.size + 1 /\ out = Untouched
  BY DEF Init, Untouched
<1>3. out \in Seq(ByteOf(edits, file.size))
  <2>1. \A i \in 1 .. file.size : ToSource(i - 1) \in ByteOf(edits, file.size)
    BY <1>1 DEF ToSource, ByteOf
  <2> QED
    BY <1>1, <1>2, <2>1 DEF Untouched
<1> QED
  BY <1>1, <1>2, <1>3 DEF TInv

LEMMA NextTypes == TInv /\ [Next]_vars => TInv'
<1> SUFFICES ASSUME TInv, [Next]_vars PROVE TInv'
  OBVIOUS
<1> USE DEF TInv
<1>1. CASE LowerDirective
  <2>1. PICK s \in DOMAIN file.slots, body \in Bodies :
           /\ directives' = Append(directives, [slot |-> s, body |-> body])
           /\ phase' = IF applyDirective(file, file.slots[s], body) = Error THEN "error" ELSE phase
           /\ edits' = IF applyDirective(file, file.slots[s], body) = Error THEN edits
                       ELSE edits \o applyDirective(file, file.slots[s], body)
    BY <1>1 DEF LowerDirective
  <2> DEFINE more == applyDirective(file, file.slots[s], body)
  <2>2. more = Error \/ more \in Seq(EditsIn(file.size))
    BY FilesAssumption, BodiesAssumption, DirectiveLowering, LoweringIsOfFile
  <2> HIDE DEF more
  <2>3. UNCHANGED <<file, applied, lastStart, out>> /\ phase = "lowering"
    BY <1>1 DEF LowerDirective
  <2>4. phase' \in {"lowering", "error"}
    BY <2>1, <2>3 DEF more
  <2>5. directives' \in Seq([slot : DOMAIN file'.slots, body : Bodies])
    BY <2>1, <2>3
  <2>6. /\ edits' \in Seq(EditsIn(file.size)) /\ Len(edits') >= Len(edits)
        /\ ByteOf(edits, file.size) \subseteq ByteOf(edits', file.size)
    <3>1. CASE more = Error
      BY <2>1, <3>1 DEF more
    <3>2. CASE more # Error
      <4>1. edits' = edits \o more /\ more \in Seq(EditsIn(file.size))
        BY <2>1, <2>2, <3>2 DEF more
      <4>2. edits \o more \in Seq(EditsIn(file.size)) /\ Len(edits \o more) >= Len(edits)
        BY <4>1
      <4> QED
        BY <4>1, <4>2, BytesStay
    <3> QED
      BY <3>1, <3>2
  <2>7. out' \in Seq(ByteOf(edits', file'.size))
    BY <2>3, <2>6
  <2>8. applied' \in 0 .. Len(edits')
    BY <2>3, <2>6
  <2> QED
    BY <2>3, <2>4, <2>5, <2>6, <2>7, <2>8 DEF Untouched
<1>2. CASE StartEdits
  BY <1>2 DEF StartEdits
<1>3. CASE ApplyEdit
  <2>1. UNCHANGED <<file, directives, edits>> /\ phase = "editing" /\ applied < Len(edits)
    BY <1>3 DEF ApplyEdit
  <2> DEFINE k == Descending[applied + 1]
  <2>2. k \in 1 .. Len(edits)
    <3>1. applied + 1 \in 1 .. Len(edits)
      BY <2>1
    <3> QED
      BY <3>1, DescendingIs
  <2>3. CASE Applicable(edits[k])
    <3>1. /\ out' = Spliced(out, edits, k) /\ lastStart' = edits[k].start
          /\ applied' = applied + 1 /\ phase' = phase
      BY <1>3, <2>3 DEF ApplyEdit, Splice, NewText, Spliced, CutIn, Piece
    <3>2. edits[k].end <= Len(out)
      BY <2>3 DEF Applicable
    <3> HIDE DEF k
    <3>3. edits[k].start \in 0 .. file.size
      <4>1. edits[k] \in EditsIn(file.size)
        BY <2>2
      <4> QED
        BY <4>1 DEF EditsIn
    <3>4. Spliced(out, edits, k) \in Seq(ByteOf(edits, file.size))
      BY <2>2, <3>2, SpliceType
    <3> QED
      BY <2>1, <3>1, <3>3, <3>4
  <2>4. CASE ~Applicable(edits[k])
    <3>1. phase' = "error" /\ UNCHANGED <<out, lastStart, applied>>
      BY <1>3, <2>4 DEF ApplyEdit
    <3> QED
      BY <2>1, <3>1
  <2> QED
    BY <2>3, <2>4
<1>4. CASE Finish
  BY <1>4 DEF Finish
<1>5. CASE UNCHANGED vars
  BY <1>5 DEF vars, Untouched
<1> QED
  BY <1>1, <1>2, <1>3, <1>4, <1>5 DEF Next

LEMMA TypesGiveTypeOK == TInv => TypeOK
<1> SUFFICES ASSUME TInv PROVE TypeOK
  OBVIOUS
<1> USE DEF TInv
<1>1. \A d \in ToSet(directives) : d.slot \in DOMAIN file.slots /\ d.body \in Bodies
  <2> SUFFICES ASSUME NEW d \in ToSet(directives)
               PROVE d.slot \in DOMAIN file.slots /\ d.body \in Bodies
    OBVIOUS
  <2>1. d \in [slot : DOMAIN file.slots, body : Bodies]
    <3> DEFINE D == [slot : DOMAIN file.slots, body : Bodies]
    <3>1. directives \in Seq(D)
      OBVIOUS
    <3> HIDE DEF D
    <3>2. d \in D
      BY <3>1 DEF ToSet
    <3> QED
      BY <3>2 DEF D
  <2> QED
    BY <2>1
<1>2. \A e \in ToSet(edits) : 0 <= e.start /\ e.start <= e.end /\ e.end <= file.size /\ e.len >= 0
  <2> SUFFICES ASSUME NEW e \in ToSet(edits)
               PROVE 0 <= e.start /\ e.start <= e.end /\ e.end <= file.size /\ e.len >= 0
    OBVIOUS
  <2>1. e \in EditsIn(file.size)
    BY DEF ToSet
  <2> QED
    BY <2>1 DEF EditsIn
<1>3. \A b \in ToSet(out) : IF b.edit = 0 THEN b.at \in 0 .. file.size - 1
                            ELSE b.edit \in DOMAIN edits /\ b.at \in 1 .. edits[b.edit].len
  <2> SUFFICES ASSUME NEW b \in ToSet(out)
               PROVE IF b.edit = 0 THEN b.at \in 0 .. file.size - 1
                     ELSE b.edit \in DOMAIN edits /\ b.at \in 1 .. edits[b.edit].len
    OBVIOUS
  <2>1. b \in ByteOf(edits, file.size)
    BY DEF ToSet
  <2> QED
    BY <2>1 DEF ByteOf
<1> QED
  BY <1>1, <1>2, <1>3 DEF TypeOK

\* Whatever the comments of a file say, every edit they become is a range of the
\* file, and the text holds bytes of the file and of the edits that are in it
\* (applyCommentLoweringDirective, applyEmitEdits).
THEOREM TypesHold == Spec => []TypeOK
<1>1. Spec => []TInv
  BY InitTypes, NextTypes, PTL DEF Spec
<1> QED
  BY <1>1, TypesGiveTypeOK, PTL

---------------------------------------------------------------------------
(* One edit after the other is all of them together.                       *)

\* The new text of edit k is in the text o of n bytes in one piece, from first
\* on, between the bytes in front of its range and those behind it.
Whole(o, n, e, k, first) ==
    /\ first \in 1 .. n + 1 /\ first + e[k].len <= n + 1
    /\ \A i \in 1 .. n : o[i].edit = k <=> first <= i /\ i < first + e[k].len
    /\ \A i \in 1 .. n : o[i].edit = k => o[i].at = i - first + 1
    /\ \A i \in 1 .. n : o[i].edit = 0 => (i < first <=> o[i].at < e[k].start)

\* The edits of D, which start at s or later, are in the text o of n bytes: in
\* front of s it is the file, and behind it means what D means.
Laid(o, n, e, D, s, size) ==
    /\ \A i \in 1 .. size : i <= s => i <= n /\ o[i] = ToSource(i - 1)
    /\ \A i \in 1 .. n : o[i].edit \in Nat /\ o[i].at \in Nat
    /\ \A i, j \in 1 .. n : i < j /\ o[i].edit = 0 /\ o[j].edit = 0 => o[i].at < o[j].at
    /\ \A p \in 0 .. size - 1 :
          (\E i \in 1 .. n : o[i].edit = 0 /\ o[i].at = p)
             <=> ~\E j \in D : e[j].start <= p /\ p < e[j].end
    /\ \A j \in D : s <= e[j].start /\ \E first \in 1 .. n + 1 : Whole(o, n, e, j, first)
    /\ \A i \in 1 .. n : o[i].edit # 0 => o[i].edit \in D

\* The bytes of t are those of o without the ones from a to b, and l new ones.
Moved(t, m, o, n, a, b, l, k) ==
    /\ m = a + l + (n - b)
    /\ \A i \in 1 .. a : t[i] = o[i]
    /\ \A i \in a + 1 .. a + l : t[i] = [edit |-> k, at |-> i - a]
    /\ \A i \in a + l + 1 .. m : t[i] = o[i - (a + l) + b]

\* Each byte of t is new, or one of o on the same side of the new ones; and
\* each byte of o that is not taken out is one of t.
Shifted(t, m, o, n, a, b, l, k) ==
    /\ m = a + l + (n - b)
    /\ \A i \in 1 .. m :
          \/ i <= a /\ t[i] = o[i]
          \/ a < i /\ i <= a + l /\ t[i] = [edit |-> k, at |-> i - a]
          \/ a + l < i /\ i - (a + l) + b \in b + 1 .. n /\ t[i] = o[i - (a + l) + b]
    /\ \A j \in 1 .. a : j \in 1 .. m /\ t[j] = o[j]
    /\ \A j \in b + 1 .. n : j - b + (a + l) \in 1 .. m /\ t[j - b + (a + l)] = o[j]

LEMMA MovedBytes ==
    ASSUME NEW n \in Nat, NEW m \in Nat, NEW a \in Nat, NEW b \in Nat, NEW l \in Nat,
           a <= b, b <= n, NEW k, NEW o, NEW t, Moved(t, m, o, n, a, b, l, k)
    PROVE  Shifted(t, m, o, n, a, b, l, k)
<1>1. m = a + l + (n - b)
  BY DEF Moved
<1>2. ASSUME NEW i \in 1 .. m
      PROVE  \/ i <= a /\ t[i] = o[i]
             \/ a < i /\ i <= a + l /\ t[i] = [edit |-> k, at |-> i - a]
             \/ a + l < i /\ i - (a + l) + b \in b + 1 .. n /\ t[i] = o[i - (a + l) + b]
  <2>1. i \in 1 .. a \/ i \in a + 1 .. a + l \/ i \in a + l + 1 .. m
    OBVIOUS
  <2>2. i \in a + l + 1 .. m => i - (a + l) + b \in b + 1 .. n
    BY <1>1
  <2> QED
    BY <2>1, <2>2 DEF Moved
<1>3. ASSUME NEW j \in 1 .. a PROVE j \in 1 .. m /\ t[j] = o[j]
  BY <1>1 DEF Moved
<1>4. ASSUME NEW j \in b + 1 .. n
      PROVE  j - b + (a + l) \in 1 .. m /\ t[j - b + (a + l)] = o[j]
  <2>1. /\ j - b + (a + l) \in 1 .. m /\ j - b + (a + l) \in a + l + 1 .. m
        /\ (j - b + (a + l)) - (a + l) + b = j
    BY <1>1
  <2> QED
    BY <2>1 DEF Moved
<1> QED
  BY <1>1, <1>2, <1>3, <1>4 DEF Shifted

\* In a text of n bytes: the bytes of the file are in order; the first b are the
\* file's; the later ones of the file come after those; none belongs to edit k.
Ascends(o, n) ==
    \A i, j \in 1 .. n : i < j /\ o[i].edit = 0 /\ o[j].edit = 0 => o[i].at < o[j].at
Starts(o, b) == \A i \in 1 .. b : o[i].edit = 0 /\ o[i].at = i - 1
Beyond(o, n, b) == \A j \in b + 1 .. n : o[j].edit = 0 => b <= o[j].at
Has(o, n, p) == \E i \in 1 .. n : o[i].edit = 0 /\ o[i].at = p
Without(o, n, k) == \A i \in 1 .. n : o[i].edit # k

\* The bytes of the file keep their order.
LEMMA MovedAscends ==
    ASSUME NEW n \in Nat, NEW m \in Nat, NEW a \in Nat, NEW b \in Nat, NEW l \in Nat,
           a <= b, b <= n, NEW k \in Nat, k # 0, NEW o, NEW t, Shifted(t, m, o, n, a, b, l, k),
           Ascends(o, n)
    PROVE  Ascends(t, m)
<1> SUFFICES ASSUME NEW i \in 1 .. m, NEW j \in 1 .. m, i < j, t[i].edit = 0, t[j].edit = 0
             PROVE  t[i].at < t[j].at
  BY DEF Ascends
<1> DEFINE i0 == IF i <= a THEN i ELSE i - (a + l) + b
           j0 == IF j <= a THEN j ELSE j - (a + l) + b
<1>1. ASSUME NEW x \in 1 .. m, t[x].edit = 0
      PROVE  \/ x <= a /\ t[x] = o[x]
             \/ a + l < x /\ x - (a + l) + b \in b + 1 .. n /\ t[x] = o[x - (a + l) + b]
  <2>1. \/ x <= a /\ t[x] = o[x]
        \/ a < x /\ x <= a + l /\ t[x] = [edit |-> k, at |-> x - a]
        \/ a + l < x /\ x - (a + l) + b \in b + 1 .. n /\ t[x] = o[x - (a + l) + b]
    BY DEF Shifted
  <2>2. t[x] # [edit |-> k, at |-> x - a]
    BY <1>1
  <2> QED
    BY <2>1, <2>2
<1>2. i0 \in 1 .. n /\ j0 \in 1 .. n /\ i0 < j0 /\ t[i] = o[i0] /\ t[j] = o[j0]
  BY <1>1
<1> HIDE DEF i0, j0
<1> QED
  BY <1>2 DEF Ascends

\* The new bytes are in one piece, in front of those behind the range.
LEMMA NewIsWhole ==
    ASSUME NEW n \in Nat, NEW m \in Nat, NEW a \in Nat, NEW b \in Nat, NEW l \in Nat,
           a <= b, b <= n, NEW k \in Nat, k # 0, NEW o, NEW t, Shifted(t, m, o, n, a, b, l, k),
           NEW e, e[k].start = a, e[k].len = l,
           Starts(o, b), Beyond(o, n, b), Without(o, n, k), \A i \in 1 .. n : o[i].at \in Nat
    PROVE  Whole(t, m, e, k, a + 1)
<1>1. a + 1 \in 1 .. m + 1 /\ a + 1 + e[k].len <= m + 1
  BY DEF Shifted
<1>2. ASSUME NEW i \in 1 .. m
      PROVE  /\ t[i].edit = k <=> a + 1 <= i /\ i < a + 1 + e[k].len
             /\ t[i].edit = k => t[i].at = i - (a + 1) + 1
             /\ t[i].edit = 0 => (i < a + 1 <=> t[i].at < e[k].start)
  <2>1. CASE i <= a /\ t[i] = o[i]
    <3>1. i \in 1 .. b /\ i \in 1 .. n
      BY <2>1
    <3>2. t[i].at = i - 1 /\ t[i].edit = 0
      BY <2>1, <3>1 DEF Starts
    <3> QED
      BY <2>1, <3>2
  <2>2. CASE a < i /\ i <= a + l /\ t[i] = [edit |-> k, at |-> i - a]
    BY <2>2
  <2>3. CASE a + l < i /\ i - (a + l) + b \in b + 1 .. n /\ t[i] = o[i - (a + l) + b]
    <3> DEFINE j == i - (a + l) + b
    <3>1. j \in 1 .. n /\ j \in b + 1 .. n /\ t[i] = o[j]
      BY <2>3
    <3> HIDE DEF j
    <3>2. o[j].edit # k /\ (o[j].edit = 0 => b <= o[j].at)
      BY <3>1 DEF Without, Beyond
    <3>3. t[i].edit # k /\ (t[i].edit = 0 => b <= t[i].at)
      BY <3>1, <3>2
    <3> DEFINE q == t[i].at
    <3>4. b <= q => ~(q < a)
      <4>1. q \in Nat
        BY <3>1
      <4> HIDE DEF q
      <4> QED
        BY <4>1
    <3> QED
      BY <2>3, <3>3, <3>4
  <2>4. \/ i <= a /\ t[i] = o[i]
        \/ a < i /\ i <= a + l /\ t[i] = [edit |-> k, at |-> i - a]
        \/ a + l < i /\ i - (a + l) + b \in b + 1 .. n /\ t[i] = o[i - (a + l) + b]
    BY DEF Shifted
  <2> QED
    BY <2>1, <2>2, <2>3, <2>4
<1> QED
  BY <1>1, <1>2 DEF Whole

\* The bytes behind the range were behind it in the file.
LEMMA BehindIsBehind ==
    ASSUME NEW n \in Nat, NEW b \in Nat, b <= n, NEW o,
           \A i \in 1 .. b : o[i] = ToSource(i - 1),
           \A i \in 1 .. n : o[i].at \in Nat, Ascends(o, n)
    PROVE  Starts(o, b) /\ Beyond(o, n, b)
<1>2. \A i \in 1 .. b : o[i].edit = 0 /\ o[i].at = i - 1
  <2> SUFFICES ASSUME NEW i \in 1 .. b PROVE o[i].edit = 0 /\ o[i].at = i - 1
    OBVIOUS
  <2>1. o[i] = [edit |-> 0, at |-> i - 1]
    BY DEF ToSource
  <2> QED
    BY <2>1
<1>3. ASSUME NEW j \in b + 1 .. n, o[j].edit = 0 PROVE b <= o[j].at
  <2>1. CASE b = 0
    BY <2>1
  <2>2. CASE b # 0
    <3>1. b \in 1 .. b /\ b \in 1 .. n /\ j \in 1 .. n /\ b < j
      BY <2>2
    <3>2. o[b].edit = 0 /\ o[b].at = b - 1 /\ o[b].at < o[j].at
      BY <1>2, <1>3, <3>1 DEF Ascends
    <3> QED
      BY <3>1, <3>2
  <2> QED
    BY <2>1, <2>2
<1> QED
  BY <1>2, <1>3 DEF Starts, Beyond

\* The new text of an edit further back is moved in one piece.
LEMMA OldStaysWhole ==
    ASSUME NEW n \in Nat, NEW m \in Nat, NEW a \in Nat, NEW b \in Nat, NEW l \in Nat,
           a <= b, b <= n, NEW k \in Nat, k # 0, NEW o, NEW t, Shifted(t, m, o, n, a, b, l, k),
           NEW e, NEW j \in Nat, j # 0, j # k, e[j].start \in Nat, e[j].len \in Nat, b <= e[j].start,
           Starts(o, b), NEW first \in 1 .. n + 1, Whole(o, n, e, j, first)
    PROVE  first - b + (a + l) \in 1 .. m + 1 /\ Whole(t, m, e, j, first - b + (a + l))
<1> DEFINE to == first - b + (a + l)
           q == e[j].len
<1>1. b < first
  <2>1. CASE b = 0
    BY <2>1
  <2>2. CASE b # 0
    <3>1. b \in 1 .. b /\ b \in 1 .. n
      BY <2>2
    <3>2. o[b].edit = 0 /\ o[b].at < e[j].start
      BY <3>1 DEF Starts
    <3> QED
      BY <3>1, <3>2 DEF Whole
  <2> QED
    BY <2>1, <2>2
<1>2. q \in Nat /\ first + q <= n + 1 /\ m = a + l + (n - b)
  BY DEF Whole, Shifted
<1>3. to \in 1 .. m + 1 /\ to + q <= m + 1 /\ a + l < to /\ to = first - b + (a + l)
  BY <1>1, <1>2
<1> HIDE DEF to, q
<1>4. ASSUME NEW i \in 1 .. m
      PROVE  /\ t[i].edit = j <=> to <= i /\ i < to + q
             /\ t[i].edit = j => t[i].at = i - to + 1
             /\ t[i].edit = 0 => (i < to <=> t[i].at < e[j].start)
  <2>1. CASE i <= a /\ t[i] = o[i]
    <3>1. i \in 1 .. b
      BY <2>1
    <3>2. t[i].at = i - 1 /\ t[i].edit = 0
      BY <2>1, <3>1 DEF Starts
    <3> QED
      BY <1>3, <2>1, <3>2
  <2>2. CASE a < i /\ i <= a + l /\ t[i] = [edit |-> k, at |-> i - a]
    <3>1. t[i].edit = k
      BY <2>2
    <3> QED
      BY <1>3, <2>2, <3>1
  <2>3. CASE a + l < i /\ i - (a + l) + b \in b + 1 .. n /\ t[i] = o[i - (a + l) + b]
    <3> DEFINE x == i - (a + l) + b
    <3>1. x \in 1 .. n /\ t[i] = o[x] /\ i = x - b + (a + l)
      BY <2>3
    <3> HIDE DEF x
    <3>2. /\ o[x].edit = j <=> first <= x /\ x < first + q
          /\ o[x].edit = j => o[x].at = x - first + 1
          /\ o[x].edit = 0 => (x < first <=> o[x].at < e[j].start)
      BY <3>1 DEF Whole, q
    <3>3. /\ first <= x <=> to <= i
          /\ x < first + q <=> i < to + q
          /\ x < first <=> i < to
          /\ x - first + 1 = i - to + 1
      BY <1>2, <1>3, <3>1
    <3> QED
      BY <3>1, <3>2, <3>3
  <2>4. \/ i <= a /\ t[i] = o[i]
        \/ a < i /\ i <= a + l /\ t[i] = [edit |-> k, at |-> i - a]
        \/ a + l < i /\ i - (a + l) + b \in b + 1 .. n /\ t[i] = o[i - (a + l) + b]
    BY DEF Shifted
  <2> QED
    BY <2>1, <2>2, <2>3, <2>4
<1>5. Whole(t, m, e, j, to)
  BY <1>3, <1>4 DEF Whole, q
<1> QED
  BY <1>3, <1>5

\* The bytes of the file that are left are those that were, without the range.
StaysUnless(t, m, o, n, a, b, p) == Has(t, m, p) <=> Has(o, n, p) /\ ~(a <= p /\ p < b)

LEMMA LeftBytes ==
    ASSUME NEW n \in Nat, NEW m \in Nat, NEW a \in Nat, NEW b \in Nat, NEW l \in Nat,
           a <= b, b <= n, NEW k \in Nat, k # 0, NEW o, NEW t, Shifted(t, m, o, n, a, b, l, k),
           Starts(o, b), Beyond(o, n, b), NEW p \in Nat
    PROVE  StaysUnless(t, m, o, n, a, b, p)
<1>1. ASSUME NEW i \in 1 .. m, t[i].edit = 0, t[i].at = p
      PROVE  (\E x \in 1 .. n : o[x].edit = 0 /\ o[x].at = p) /\ ~(a <= p /\ p < b)
  <2>1. CASE i <= a /\ t[i] = o[i]
    <3>1. i \in 1 .. b /\ i \in 1 .. n
      BY <2>1
    <3>2. o[i].edit = 0 /\ o[i].at = p /\ p = i - 1
      BY <1>1, <2>1, <3>1 DEF Starts
    <3> QED
      BY <2>1, <3>1, <3>2
  <2>2. CASE a + l < i /\ i - (a + l) + b \in b + 1 .. n /\ t[i] = o[i - (a + l) + b]
    <3> DEFINE x == i - (a + l) + b
    <3>1. x \in b + 1 .. n /\ x \in 1 .. n /\ t[i] = o[x]
      BY <2>2
    <3> HIDE DEF x
    <3>2. o[x].edit = 0 /\ o[x].at = p /\ b <= p
      BY <1>1, <3>1 DEF Beyond
    <3> QED
      BY <3>1, <3>2
  <2>3. \/ i <= a /\ t[i] = o[i]
        \/ a < i /\ i <= a + l /\ t[i] = [edit |-> k, at |-> i - a]
        \/ a + l < i /\ i - (a + l) + b \in b + 1 .. n /\ t[i] = o[i - (a + l) + b]
    BY DEF Shifted
  <2>4. t[i] # [edit |-> k, at |-> i - a]
    BY <1>1
  <2> QED
    BY <2>1, <2>2, <2>3, <2>4
<1>2. ASSUME NEW x \in 1 .. n, o[x].edit = 0, o[x].at = p, ~(a <= p /\ p < b)
      PROVE  \E i \in 1 .. m : t[i].edit = 0 /\ t[i].at = p
  <2>1. CASE x <= a
    <3>1. x \in 1 .. m /\ t[x] = o[x]
      BY <2>1 DEF Shifted
    <3> QED
      BY <1>2, <3>1
  <2>2. CASE b < x
    <3> DEFINE i == x - b + (a + l)
    <3>1. i \in 1 .. m /\ t[i] = o[x]
      BY <2>2 DEF Shifted
    <3> HIDE DEF i
    <3> QED
      BY <1>2, <3>1
  <2>3. CASE a < x /\ x <= b
    <3>1. x \in 1 .. b
      BY <2>3
    <3>2. p = x - 1
      BY <1>2, <3>1 DEF Starts
    <3> QED
      BY <1>2, <2>3, <3>2
  <2> QED
    BY <2>1, <2>2, <2>3
<1> QED
  BY <1>1, <1>2 DEF Has, StaysUnless

\* An edit put into the text moves the bytes behind it.
LEMMA SplicedMoves ==
    ASSUME NEW size \in Nat, NEW e \in Seq(EditsIn(size)), NEW k \in 1 .. Len(e),
           NEW o \in Seq(ByteOf(e, size)), e[k].end <= Len(o)
    PROVE  Shifted(Spliced(o, e, k), Len(Spliced(o, e, k)), o, Len(o),
                   e[k].start, e[k].end, e[k].len, k)
<1> DEFINE S == ByteOf(e, size)
           a == e[k].start
           b == e[k].end
           l == e[k].len
           w == Piece(e, k)
           t == CutIn(o, w, a, b)
<1>1. e[k] \in EditsIn(size)
  OBVIOUS
<1>2. a \in Nat /\ b \in Nat /\ l \in Nat /\ a <= b /\ b <= Len(o) /\ Len(o) \in Nat
  BY <1>1 DEF EditsIn
<1>3. o \in Seq(S) /\ w \in Seq(S) /\ Len(w) = l
  BY SpliceType
<1>4. \A i \in 1 .. l : w[i] = [edit |-> k, at |-> i]
  BY DEF Piece
<1>5. Spliced(o, e, k) = t
  BY DEF Spliced
<1> HIDE DEF S, a, b, l, w
<1>6. t \in Seq(S) /\ IsCut(t, o, w, a, b)
  BY <1>2, <1>3, CutInIs
<1> HIDE DEF t
<1>7. \A i \in a + 1 .. a + l : i - a \in 1 .. l
  BY <1>2
<1>8. \A i \in a + 1 .. a + l : t[i] = [edit |-> k, at |-> i - a]
  BY <1>3, <1>4, <1>6, <1>7 DEF IsCut
<1> DEFINE n == Len(o)
           m == Len(t)
<1>9. n \in Nat /\ m \in Nat /\ b <= n
  BY <1>2, <1>6
<1>10. Moved(t, m, o, n, a, b, l, k)
  BY <1>3, <1>6, <1>8 DEF Moved, IsCut
<1> HIDE DEF n, m
<1>11. Shifted(t, m, o, n, a, b, l, k)
  BY <1>2, <1>9, <1>10, MovedBytes
<1> QED
  BY <1>5, <1>11 DEF n, m, a, b, l

\* What an edit does to a text that is laid out: the next one in front.
LEMMA LaidStep ==
    ASSUME NEW size \in Nat, NEW n \in Nat, NEW m \in Nat,
           NEW a \in Nat, NEW b \in Nat, NEW l \in Nat, a <= b, b <= n, b <= size,
           NEW e, NEW D \in SUBSET (Nat \ {0}), NEW k \in Nat, k # 0, k \notin D,
           e[k].start = a, e[k].end = b, e[k].len = l,
           \A j \in D : e[j].start \in Nat /\ e[j].len \in Nat,
           NEW s \in Nat, b <= s, NEW o, NEW t,
           Laid(o, n, e, D, s, size), Shifted(t, m, o, n, a, b, l, k)
    PROVE  Laid(t, m, e, D \cup {k}, a, size)
<1>1. \A i \in 1 .. b : i \in 1 .. n /\ o[i] = ToSource(i - 1)
  BY DEF Laid
<1>2. \A i \in 1 .. n : o[i].edit \in Nat /\ o[i].at \in Nat
  BY DEF Laid
<1>3. Ascends(o, n)
  BY DEF Laid, Ascends
<1>4. Starts(o, b) /\ Beyond(o, n, b)
  BY <1>1, <1>2, <1>3, BehindIsBehind
<1>5. \A i \in 1 .. n : o[i].edit # 0 => o[i].edit \in D
  BY DEF Laid
<1>6. Without(o, n, k)
  BY <1>5 DEF Without
<1>7. m = a + l + (n - b)
  BY DEF Shifted
<1>8. \A i \in 1 .. size : i <= a => i <= m /\ t[i] = ToSource(i - 1)
  <2> SUFFICES ASSUME NEW i \in 1 .. size, i <= a PROVE i <= m /\ t[i] = ToSource(i - 1)
    OBVIOUS
  <2>1. i \in 1 .. a /\ i \in 1 .. b
    OBVIOUS
  <2>2. i \in 1 .. m /\ t[i] = o[i]
    BY <2>1 DEF Shifted
  <2> QED
    BY <1>1, <2>1, <2>2
<1>9. ASSUME NEW i \in 1 .. m
      PROVE  t[i].edit \in Nat /\ t[i].at \in Nat /\ (t[i].edit # 0 => t[i].edit \in D \cup {k})
  <2>1. \/ i <= a /\ t[i] = o[i]
        \/ a < i /\ i <= a + l /\ t[i] = [edit |-> k, at |-> i - a]
        \/ a + l < i /\ i - (a + l) + b \in b + 1 .. n /\ t[i] = o[i - (a + l) + b]
    BY DEF Shifted
  <2>2. CASE i <= a /\ t[i] = o[i]
    <3>1. i \in 1 .. n
      BY <2>2
    <3> QED
      BY <1>2, <1>5, <2>2, <3>1
  <2>3. CASE a < i /\ i <= a + l /\ t[i] = [edit |-> k, at |-> i - a]
    BY <2>3
  <2>4. CASE a + l < i /\ i - (a + l) + b \in b + 1 .. n /\ t[i] = o[i - (a + l) + b]
    <3> DEFINE x == i - (a + l) + b
    <3>1. x \in 1 .. n /\ t[i] = o[x]
      BY <2>4
    <3> HIDE DEF x
    <3> QED
      BY <1>2, <1>5, <3>1
  <2> QED
    BY <2>1, <2>2, <2>3, <2>4
<1>10. Ascends(t, m)
  BY <1>3, MovedAscends
<1>11. ASSUME NEW p \in 0 .. size - 1
       PROVE  (\E i \in 1 .. m : t[i].edit = 0 /\ t[i].at = p)
                 <=> ~\E j \in D \cup {k} : e[j].start <= p /\ p < e[j].end
  <2>1. p \in Nat
    OBVIOUS
  <2>2. StaysUnless(t, m, o, n, a, b, p)
    BY <1>4, <2>1, LeftBytes
  <2>3. Has(o, n, p) <=> ~\E j \in D : e[j].start <= p /\ p < e[j].end
    BY DEF Laid, Has
  <2>4. (\E j \in D \cup {k} : e[j].start <= p /\ p < e[j].end)
           <=> (\E j \in D : e[j].start <= p /\ p < e[j].end) \/ (a <= p /\ p < b)
    OBVIOUS
  <2> QED
    BY <2>2, <2>3, <2>4, Zenon DEF Has, StaysUnless
<1>12. ASSUME NEW j \in D
       PROVE  a <= e[j].start /\ \E first \in 1 .. m + 1 : Whole(t, m, e, j, first)
  <2>1. s <= e[j].start /\ e[j].start \in Nat /\ e[j].len \in Nat
    BY DEF Laid
  <2>2. PICK first \in 1 .. n + 1 : Whole(o, n, e, j, first)
    BY DEF Laid
  <2> DEFINE x == e[j].start
  <2>5. b <= x
    <3>1. s <= x /\ x \in Nat
      BY <2>1
    <3> HIDE DEF x
    <3> QED
      BY <3>1
  <2>3. b <= e[j].start /\ j \in Nat /\ j # 0 /\ j # k
    BY <2>5
  <2>4. first - b + (a + l) \in 1 .. m + 1 /\ Whole(t, m, e, j, first - b + (a + l))
    BY <1>4, <2>1, <2>2, <2>3, OldStaysWhole
  <2>6. a <= x
    <3>1. x \in Nat
      BY <2>1
    <3> HIDE DEF x
    <3> QED
      BY <2>5, <3>1
  <2> QED
    BY <2>4, <2>6
<1>13. Whole(t, m, e, k, a + 1) /\ a + 1 \in 1 .. m + 1
  <2>1. Whole(t, m, e, k, a + 1)
    BY <1>2, <1>4, <1>6, NewIsWhole
  <2> QED
    BY <1>7, <2>1
<1>14. \A j \in D \cup {k} : a <= e[j].start /\ \E first \in 1 .. m + 1 : Whole(t, m, e, j, first)
  <2> SUFFICES ASSUME NEW j \in D \cup {k}
               PROVE  a <= e[j].start /\ \E first \in 1 .. m + 1 : Whole(t, m, e, j, first)
    OBVIOUS
  <2>1. CASE j \in D
    BY <1>12, <2>1
  <2>2. CASE j = k
    BY <1>13, <2>2
  <2> QED
    BY <2>1, <2>2
<1> QED
  BY <1>8, <1>9, <1>10, <1>11, <1>14 DEF Laid, Ascends

\* The edits that are in the text.
Done == {Descending[x] : x \in 1 .. applied}

EInv ==
    /\ phase \in {"editing", "lowered"} =>
          Laid(out, Len(out), edits, Done, lastStart, file.size)
    /\ phase = "lowered" => applied = Len(edits)

\* Before the first edit the text is the file.
LEMMA NothingLaid ==
    ASSUME NEW size \in Nat, NEW e, NEW o, o = [i \in 1 .. size |-> ToSource(i - 1)]
    PROVE  Laid(o, size, e, {}, size + 1, size)
<1>1. ASSUME NEW i \in 1 .. size
      PROVE  o[i] = ToSource(i - 1) /\ o[i].edit = 0 /\ o[i].at = i - 1 /\ i - 1 \in Nat
  BY <1>1 DEF ToSource
<1>2. ASSUME NEW p \in 0 .. size - 1 PROVE \E i \in 1 .. size : o[i].edit = 0 /\ o[i].at = p
  <2>1. p + 1 \in 1 .. size /\ (p + 1) - 1 = p
    OBVIOUS
  <2> QED
    BY <1>1, <2>1
<1>3. \A i, j \in 1 .. size : i < j /\ o[i].edit = 0 /\ o[j].edit = 0 => o[i].at < o[j].at
  BY <1>1
<1>4. \A i \in 1 .. size : i <= size + 1 => i <= size /\ o[i] = ToSource(i - 1)
  BY <1>1
<1>5. \A i \in 1 .. size : o[i].edit \in Nat /\ o[i].at \in Nat
  BY <1>1
<1>6. \A p \in 0 .. size - 1 :
         (\E i \in 1 .. size : o[i].edit = 0 /\ o[i].at = p)
            <=> ~\E j \in {} : e[j].start <= p /\ p < e[j].end
  BY <1>2
<1>7. \A i \in 1 .. size : o[i].edit # 0 => o[i].edit \in {}
  BY <1>1
<1>8. \A j \in {} : size + 1 <= e[j].start
                     /\ \E first \in 1 .. size + 1 : Whole(o, size, e, j, first)
  OBVIOUS
<1> QED
  BY <1>3, <1>4, <1>5, <1>6, <1>7, <1>8, Zenon DEF Laid

\* One more edit is put in.
LEMMA OneMore ==
    ASSUME TInv, EInv, phase = "editing", applied < Len(edits),
           NEW k, k = Descending[applied + 1], Applicable(edits[k])
    PROVE  Laid(Spliced(out, edits, k), Len(Spliced(out, edits, k)), edits, Done \cup {k},
                edits[k].start, file.size)
<1> DEFINE size == file.size
           a == edits[k].start
           b == edits[k].end
           l == edits[k].len
           n == Len(out)
           t == Spliced(out, edits, k)
           m == Len(t)
<1>1. /\ size \in Nat /\ edits \in Seq(EditsIn(size)) /\ out \in Seq(ByteOf(edits, size))
      /\ applied \in Nat /\ lastStart \in Nat
  BY DEF TInv
<1>2. /\ Descending \in [1 .. Len(edits) -> 1 .. Len(edits)]
      /\ \A x, y \in 1 .. Len(edits) : x < y => Descending[x] # Descending[y]
  BY <1>1, DescendingIs
<1>3. applied + 1 \in 1 .. Len(edits) /\ k \in 1 .. Len(edits)
  BY <1>1, <1>2
<1>4. edits[k] \in EditsIn(size)
  BY <1>1, <1>3
<1>5. a \in Nat /\ b \in Nat /\ l \in Nat /\ a <= b /\ b <= n /\ b <= size /\ b <= lastStart
  BY <1>4 DEF EditsIn, Applicable
<1>6. t \in Seq(ByteOf(edits, size)) /\ Shifted(t, m, out, n, a, b, l, k)
  BY <1>1, <1>3, <1>5, SpliceType, SplicedMoves
<1>7. Done \in SUBSET (1 .. Len(edits)) /\ k \notin Done
  <2>1. ASSUME NEW x \in 1 .. applied
        PROVE  Descending[x] \in 1 .. Len(edits) /\ Descending[x] # k
    <3>1. x \in 1 .. Len(edits) /\ x < applied + 1
      BY <1>1, <1>3
    <3> QED
      BY <1>2, <1>3, <3>1
  <2> QED
    BY <2>1 DEF Done
<1>8. \A j \in Done : edits[j].start \in Nat /\ edits[j].len \in Nat
  <2> SUFFICES ASSUME NEW j \in Done PROVE edits[j].start \in Nat /\ edits[j].len \in Nat
    OBVIOUS
  <2>1. edits[j] \in EditsIn(size)
    BY <1>1, <1>7
  <2> QED
    BY <2>1 DEF EditsIn
<1>9. Laid(out, n, edits, Done, lastStart, size)
  BY DEF EInv
<1>10. n \in Nat /\ m \in Nat /\ Done \in SUBSET (Nat \ {0}) /\ k \in Nat /\ k # 0
  BY <1>1, <1>3, <1>6, <1>7
<1>11. edits[k].start = a /\ edits[k].end = b /\ edits[k].len = l
  OBVIOUS
<1> HIDE DEF size, a, b, l, n, t, m, Done
<1>12. Laid(t, m, edits, Done \cup {k}, a, size)
  BY <1>1, <1>5, <1>6, <1>7, <1>8, <1>9, <1>10, <1>11, LaidStep
<1> QED
  BY <1>12 DEF size, a, t, m

LEMMA InitLaid == Init => EInv
BY DEF Init, EInv

LEMMA NextLaid == TInv /\ EInv /\ [Next]_vars => EInv'
<1> SUFFICES ASSUME TInv, EInv, [Next]_vars PROVE EInv'
  OBVIOUS
<1>0. file.size \in Nat /\ applied \in Nat /\ edits \in Seq(EditsIn(file.size))
  BY DEF TInv
<1>1. CASE LowerDirective
  <2>1. phase' \in {"lowering", "error"}
    BY <1>1 DEF LowerDirective
  <2> QED
    BY <2>1 DEF EInv
<1>2. CASE StartEdits
  <2>1. /\ UNCHANGED <<file, edits, applied, lastStart, out>> /\ phase' = "editing"
        /\ applied = 0 /\ lastStart = file.size + 1 /\ out = Untouched
    BY <1>2 DEF StartEdits, TInv
  <2>2. out = [i \in 1 .. file.size |-> ToSource(i - 1)] /\ Len(out) = file.size
    BY <1>0, <2>1 DEF Untouched
  <2>3. Laid(out, file.size, edits, {}, file.size + 1, file.size)
    BY <1>0, <2>2, NothingLaid
  <2>4. Done' = {}
    BY <2>1 DEF Done
  <2> QED
    BY <2>1, <2>2, <2>3, <2>4 DEF EInv
<1>3. CASE ApplyEdit
  <2> DEFINE k == Descending[applied + 1]
  <2>1. UNCHANGED <<file, directives, edits>> /\ phase = "editing" /\ applied < Len(edits)
    BY <1>3 DEF ApplyEdit
  <2>2. CASE Applicable(edits[k])
    <3>1. /\ out' = Spliced(out, edits, k) /\ lastStart' = edits[k].start
          /\ applied' = applied + 1 /\ phase' = phase
      BY <1>3, <2>2 DEF ApplyEdit, Splice, NewText, Spliced, CutIn, Piece
    <3>2. Laid(Spliced(out, edits, k), Len(Spliced(out, edits, k)), edits, Done \cup {k},
               edits[k].start, file.size)
      BY <2>1, <2>2, OneMore
    <3>3. Descending' = Descending
      BY <2>1 DEF Descending, SliceStable
    <3>4. Done' = Done \cup {k}
      <4>1. 1 .. applied + 1 = (1 .. applied) \cup {applied + 1}
        BY <1>0
      <4>2. Done' = {Descending[x] : x \in 1 .. applied + 1}
        BY <3>1, <3>3 DEF Done
      <4> QED
        BY <4>1, <4>2 DEF Done
    <3> HIDE DEF k
    <3> QED
      BY <2>1, <3>1, <3>2, <3>4 DEF EInv
  <2>3. CASE ~Applicable(edits[k])
    <3>1. phase' = "error"
      BY <1>3, <2>3 DEF ApplyEdit
    <3> QED
      BY <3>1 DEF EInv
  <2> QED
    BY <2>2, <2>3
<1>4. CASE Finish
  <2>1. /\ UNCHANGED <<file, edits, applied, lastStart, out>>
        /\ phase = "editing" /\ phase' = "lowered" /\ applied = Len(edits)
    BY <1>4 DEF Finish
  <2>2. Done' = Done
    BY <2>1 DEF Done, Descending, SliceStable
  <2> QED
    BY <2>1, <2>2 DEF EInv
<1>5. CASE UNCHANGED vars
  <2>1. UNCHANGED <<file, phase, edits, applied, lastStart, out>>
    BY <1>5 DEF vars
  <2>2. Done' = Done
    BY <2>1 DEF Done, Descending, SliceStable
  <2> QED
    BY <2>1, <2>2 DEF EInv
<1> QED
  BY <1>1, <1>2, <1>3, <1>4, <1>5 DEF Next

\* At the end every edit is in the text.
LEMMA LaidIsSimultaneous == TInv /\ EInv => EditsAreSimultaneous
<1> SUFFICES ASSUME TInv, EInv, phase = "lowered"
             PROVE  /\ {out[i].at : i \in {j \in Bytes : ~IsNew(j)}} = {p \in 0 .. file.size - 1 : ~Replaced(p)}
                    /\ \A i, j \in Bytes : i < j /\ ~IsNew(i) /\ ~IsNew(j) => out[i].at < out[j].at
                    /\ \A k \in DOMAIN edits :
                          LET piece == {i \in Bytes : out[i].edit = k}
                          IN  \E first \in 1 .. Len(out) + 1 :
                                 /\ piece = first .. first + edits[k].len - 1
                                 /\ \A i \in piece : out[i].at = i - first + 1
                                 /\ \A i \in Bytes : ~IsNew(i) => ((i < first) <=> (out[i].at < edits[k].start))
  BY DEF EditsAreSimultaneous
<1> DEFINE size == file.size
           n == Len(out)
<1>1. /\ size \in Nat /\ edits \in Seq(EditsIn(size)) /\ out \in Seq(ByteOf(edits, size))
      /\ applied = Len(edits)
  BY DEF TInv, EInv
<1>2. Done = 1 .. Len(edits) /\ DOMAIN edits = 1 .. Len(edits)
  <2>1. /\ Descending \in [1 .. Len(edits) -> 1 .. Len(edits)]
        /\ \A k \in 1 .. Len(edits) : \E x \in 1 .. Len(edits) : Descending[x] = k
    BY <1>1, DescendingIs
  <2> QED
    BY <1>1, <2>1 DEF Done
<1>3. Laid(out, n, edits, DOMAIN edits, lastStart, size)
  BY <1>2 DEF EInv
<1>4. Bytes = 1 .. n /\ n \in Nat
  BY <1>1 DEF Bytes
<1>5. \A i \in Bytes : out[i].edit = 0 => out[i].at \in 0 .. size - 1
  <2> SUFFICES ASSUME NEW i \in Bytes, out[i].edit = 0 PROVE out[i].at \in 0 .. size - 1
    OBVIOUS
  <2>1. out[i] \in ByteOf(edits, size)
    BY <1>1, <1>4
  <2> QED
    BY <1>1, <2>1 DEF ByteOf
<1>6. \A p : Replaced(p) <=> \E k \in DOMAIN edits : edits[k].start <= p /\ p < edits[k].end
  BY DEF Replaced, ToSet
<1>7. {out[i].at : i \in {j \in Bytes : ~IsNew(j)}} = {p \in 0 .. size - 1 : ~Replaced(p)}
  <2>1. ASSUME NEW p \in 0 .. size - 1
        PROVE  (\E i \in 1 .. n : out[i].edit = 0 /\ out[i].at = p) <=> ~Replaced(p)
    BY <1>3, <1>6 DEF Laid
  <2>2. ASSUME NEW i \in Bytes, ~IsNew(i)
        PROVE  out[i].at \in {p \in 0 .. size - 1 : ~Replaced(p)}
    <3>1. out[i].edit = 0 /\ out[i].at \in 0 .. size - 1 /\ i \in 1 .. n
      BY <1>4, <1>5, <2>2 DEF IsNew
    <3> QED
      BY <2>1, <3>1
  <2>3. ASSUME NEW p \in 0 .. size - 1, ~Replaced(p)
        PROVE  \E i \in {j \in Bytes : ~IsNew(j)} : out[i].at = p
    BY <1>4, <2>1, <2>3 DEF IsNew
  <2> HIDE DEF size, n
  <2> QED
    BY <2>2, <2>3
<1>8. \A i, j \in Bytes : i < j /\ ~IsNew(i) /\ ~IsNew(j) => out[i].at < out[j].at
  BY <1>3, <1>4 DEF Laid, IsNew
<1>9. ASSUME NEW k \in DOMAIN edits
      PROVE  \E first \in 1 .. n + 1 :
                /\ {i \in Bytes : out[i].edit = k} = first .. first + edits[k].len - 1
                /\ \A i \in {x \in Bytes : out[x].edit = k} : out[i].at = i - first + 1
                /\ \A i \in Bytes : ~IsNew(i) => ((i < first) <=> (out[i].at < edits[k].start))
  <2>1. PICK first \in 1 .. n + 1 : Whole(out, n, edits, k, first)
    BY <1>3 DEF Laid
  <2> DEFINE q == edits[k].len
  <2>2. q \in Nat
    BY <1>1 DEF EditsIn
  <2>3. first + q <= n + 1
    BY <2>1 DEF Whole
  <2>4. {i \in Bytes : out[i].edit = k} = first .. first + q - 1
    <3>1. \A i \in 1 .. n : out[i].edit = k <=> first <= i /\ i < first + q
      BY <2>1 DEF Whole
    <3>2. \A i \in first .. first + q - 1 : i \in 1 .. n /\ first <= i /\ i < first + q
      BY <1>4, <2>2, <2>3
    <3> HIDE DEF q, n
    <3> QED
      BY <1>4, <2>2, <3>1, <3>2
  <2> QED
    BY <1>4, <2>1, <2>4 DEF Whole, IsNew
<1> QED
  BY <1>7, <1>8, <1>9

\* Edits that are put into the text one after the other, each of them in a text
\* the ones before it have changed, give what all of them together mean for the
\* file, when none is refused (applyEmitEdits).
THEOREM OneByOneIsAllTogether == Spec => []EditsAreSimultaneous
<1>1. Spec => [](TInv /\ EInv)
  <2>1. Init => TInv /\ EInv
    BY InitTypes, InitLaid
  <2>2. TInv /\ EInv /\ [Next]_vars => (TInv /\ EInv)'
    BY NextTypes, NextLaid
  <2> QED
    BY <2>1, <2>2, PTL DEF Spec
<1> QED
  BY <1>1, LaidIsSimultaneous, PTL

---------------------------------------------------------------------------
(* Where the bytes are.                                                    *)

\* A sum of n numbers, as far as each of them.
IsSum(f, g, n) == f = [i \in 0 .. n |-> IF i = 0 THEN 0 ELSE f[i - 1] + g[i]]

LEMMA SumExists ==
    ASSUME NEW n \in Nat, NEW g \in [1 .. n -> Int]
    PROVE  \E f : IsSum(f, g, n)
<1> DEFINE T == {k \in Nat : k <= n => \E f \in [0 .. k -> Int] : IsSum(f, g, k)}
<1>1. 0 \in T
  <2> DEFINE f == [i \in 0 .. 0 |-> 0]
  <2>1. f \in [0 .. 0 -> Int] /\ f = [i \in 0 .. 0 |-> IF i = 0 THEN 0 ELSE f[i - 1] + g[i]]
    OBVIOUS
  <2> HIDE DEF f
  <2>2. IsSum(f, g, 0)
    BY <2>1 DEF IsSum
  <2> QED
    BY <2>1, <2>2
<1>2. ASSUME NEW k \in T PROVE k + 1 \in T
  <2> SUFFICES ASSUME k + 1 <= n PROVE \E f \in [0 .. k + 1 -> Int] : IsSum(f, g, k + 1)
    BY <1>2
  <2>1. k \in Nat /\ k <= n /\ k + 1 \in 1 .. n
    OBVIOUS
  <2>2. PICK h \in [0 .. k -> Int] : IsSum(h, g, k)
    BY <2>1
  <2> DEFINE f == [i \in 0 .. k + 1 |-> IF i = k + 1 THEN h[k] + g[k + 1] ELSE h[i]]
  <2>3. h[k] \in Int /\ g[k + 1] \in Int
    BY <2>1
  <2>4. f \in [0 .. k + 1 -> Int] /\ f[k + 1] = h[k] + g[k + 1] /\ \A i \in 0 .. k : f[i] = h[i]
    BY <2>1, <2>3
  <2>5. \A i \in 0 .. k : h[i] = IF i = 0 THEN 0 ELSE h[i - 1] + g[i]
    <3> HIDE DEF f
    <3>1. h = [i \in 0 .. k |-> IF i = 0 THEN 0 ELSE h[i - 1] + g[i]]
      BY <2>2 DEF IsSum
    <3> QED
      BY <3>1
  <2> HIDE DEF f
  <2>6. ASSUME NEW i \in 0 .. k + 1 PROVE f[i] = IF i = 0 THEN 0 ELSE f[i - 1] + g[i]
    <3>1. CASE i = k + 1
      <4>1. i # 0 /\ i - 1 = k /\ k \in 0 .. k
        BY <2>1, <3>1
      <4> QED
        BY <2>4, <3>1, <4>1
    <3>2. CASE i # k + 1
      <4>1. i \in 0 .. k /\ (i # 0 => i - 1 \in 0 .. k)
        BY <2>1, <3>2
      <4> QED
        BY <2>4, <2>5, <4>1
    <3> QED
      BY <3>1, <3>2
  <2>7. f = [i \in 0 .. k + 1 |-> f[i]]
    BY <2>4
  <2>8. IsSum(f, g, k + 1)
    BY <2>6, <2>7 DEF IsSum
  <2> QED
    BY <2>4, <2>8
<1> HIDE DEF T
<1>3. T \in SUBSET Nat
  BY DEF T
<1>4. T = Nat
  BY <1>1, <1>2, <1>3, AllNumbers
<1>5. n \in T /\ n <= n
  BY <1>4
<1> QED
  BY <1>5 DEF T

\* A sum of numbers is a number, and grows by one of them at a time.
LEMMA SumIs ==
    ASSUME NEW n \in Nat, NEW g \in [1 .. n -> Int], NEW f, IsSum(f, g, n)
    PROVE  /\ f \in [0 .. n -> Int] /\ f[0] = 0
           /\ \A i \in 1 .. n : f[i] = f[i - 1] + g[i]
<1>1. /\ f = [i \in 0 .. n |-> f[i]]
      /\ \A i \in 0 .. n : f[i] = IF i = 0 THEN 0 ELSE f[i - 1] + g[i]
  <2> DEFINE F(i) == IF i = 0 THEN 0 ELSE f[i - 1] + g[i]
  <2>1. f = [i \in 0 .. n |-> F(i)]
    BY DEF IsSum
  <2> HIDE DEF F
  <2>2. f = [i \in 0 .. n |-> f[i]] /\ \A i \in 0 .. n : f[i] = F(i)
    BY <2>1
  <2> QED
    BY <2>2 DEF F
<1>2. f[0] = 0
  BY <1>1
<1>3. ASSUME NEW i \in 1 .. n PROVE f[i] = f[i - 1] + g[i]
  <2>1. i \in 0 .. n /\ i # 0
    OBVIOUS
  <2> QED
    BY <1>1, <2>1
<1> DEFINE T == {k \in Nat : k <= n => f[k] \in Int}
<1>4. 0 \in T
  BY <1>2
<1>5. ASSUME NEW k \in T PROVE k + 1 \in T
  <2> SUFFICES ASSUME k + 1 <= n PROVE f[k + 1] \in Int
    BY <1>5
  <2>1. k + 1 \in 1 .. n /\ k <= n /\ (k + 1) - 1 = k
    BY <1>5
  <2>2. f[k + 1] = f[k] + g[k + 1] /\ g[k + 1] \in Int /\ f[k] \in Int
    BY <1>3, <2>1
  <2> QED
    BY <2>2
<1> HIDE DEF T
<1>6. T \in SUBSET Nat
  BY DEF T
<1>7. T = Nat
  BY <1>4, <1>5, <1>6, AllNumbers
<1>8. \A i \in 0 .. n : f[i] \in Int
  <2>1. \A i \in 0 .. n : i \in T /\ i <= n
    BY <1>7
  <2> QED
    BY <2>1 DEF T
<1> QED
  BY <1>1, <1>2, <1>3, <1>8

\* The text of n bytes has the first m edits from the back in it: d numbers them,
\* r are the edits, and t is what they added, as far as each of them.  None
\* reaches into the one behind it, and every byte is where the ones in front of
\* it have moved it.
Located(o, n, d, r, t, m, size) ==
    /\ n = size + t[m]
    /\ \A x, y \in 1 .. m : x < y =>
          r[y].end <= r[x].start /\ r[y].start - t[y] + r[y].len <= r[x].start - t[x]
    /\ \A i \in 1 .. n : o[i].edit # 0 =>
          \E x \in 1 .. m : d[x] = o[i].edit /\ i = r[x].start + t[m] - t[x] + o[i].at
    /\ \A i \in 1 .. n : o[i].edit = 0 =>
          \E c \in 0 .. m : /\ i - 1 = o[i].at + t[m] - t[c]
                            /\ \A x \in 1 .. c : o[i].at < r[x].start
                            /\ \A x \in c + 1 .. m : r[x].end <= o[i].at

\* The edits and what they added are numbers.
Measured(r, t, N) ==
    /\ \A x \in 1 .. N : r[x].start \in Nat /\ r[x].end \in Nat /\ r[x].len \in Nat
    /\ \A x \in 0 .. N : t[x] \in Int

\* The q-th edit from the back is number k, and puts l bytes for those from a to b.
IsStep(d, r, t, q, m, a, b, l, k) ==
    /\ d[q] = k /\ r[q].start = a /\ r[q].end = b /\ r[q].len = l
    /\ t[q] = t[m] + (l - (b - a))
    /\ \A x \in 1 .. m : b <= r[x].start

\* Its number, its range and its length are those of an edit of this text.
Fits(N, m, q, a, b, l, k, n) ==
    /\ q \in Nat /\ a \in Nat /\ b \in Nat /\ l \in Nat /\ k \in Nat
    /\ q = m + 1 /\ q <= N /\ a <= b /\ b <= n /\ k # 0

Numbered(o, n) == \A i \in 1 .. n : o[i].at \in Nat

\* One more edit in front moves every byte behind it by what it adds.
LEMMA LocatedStep ==
    ASSUME NEW size \in Nat, NEW n \in Nat, NEW n2 \in Nat, NEW N \in Nat, NEW m \in Nat,
           NEW q, NEW d, NEW r, NEW t, NEW a, NEW b, NEW l, NEW k, NEW o, NEW p,
           Fits(N, m, q, a, b, l, k, n), Measured(r, t, N), IsStep(d, r, t, q, m, a, b, l, k),
           Starts(o, b), Beyond(o, n, b), Numbered(o, n),
           Located(o, n, d, r, t, m, size), Shifted(p, n2, o, n, a, b, l, k)
    PROVE  Located(p, n2, d, r, t, q, size)
<1>9. /\ q \in Nat /\ a \in Nat /\ b \in Nat /\ l \in Nat /\ k \in Nat
      /\ q = m + 1 /\ q <= N /\ a <= b /\ b <= n /\ k # 0
  BY DEF Fits
<1>0. q \in 1 .. N /\ t[m] \in Int /\ t[q] \in Int /\ t[q] = t[m] + (l - (b - a))
  BY <1>9 DEF Measured, IsStep
<1>1. \A x \in 1 .. N : r[x].start \in Nat /\ r[x].end \in Nat /\ r[x].len \in Nat /\ t[x] \in Int
  BY <1>9 DEF Measured
<1>2. r[q].start = a /\ r[q].end = b /\ r[q].len = l /\ d[q] = k
  BY <1>9 DEF IsStep
<1>8. (\A x \in 1 .. m : b <= r[x].start) /\ (\A i \in 1 .. n : o[i].at \in Nat)
  BY <1>9 DEF IsStep, Numbered
<1>3. n2 = size + t[q]
  BY <1>9, <1>0 DEF Located, Shifted
<1>4. ASSUME NEW x \in 1 .. q, NEW y \in 1 .. q, x < y
      PROVE  r[y].end <= r[x].start /\ r[y].start - t[y] + r[y].len <= r[x].start - t[x]
  <2>1. CASE y # q
    <3>1. x \in 1 .. m /\ y \in 1 .. m
      BY <1>9, <1>0, <1>4, <2>1
    <3> QED
      BY <1>9, <1>4, <3>1 DEF Located
  <2>2. CASE y = q
    <3>1. x \in 1 .. m /\ x \in 1 .. N /\ m \in 1 .. m /\ m \in 1 .. N
      BY <1>9, <1>0, <1>4, <2>2
    <3>2. b <= r[x].start /\ b <= r[m].start
      BY <1>9, <1>8, <3>1
    <3>3. b - t[m] <= r[x].start - t[x]
      <4>1. CASE x = m
        BY <1>9, <1>1, <3>1, <3>2, <4>1
      <4>2. CASE x # m
        <5>1. r[m].start - t[m] + r[m].len <= r[x].start - t[x]
          <6>1. x \in 1 .. m /\ m \in 1 .. m /\ x < m
            BY <1>9, <3>1, <4>2
          <6> QED
            BY <6>1 DEF Located
        <5> QED
          BY <1>9, <1>0, <1>1, <3>1, <3>2, <5>1
      <4> QED
        BY <1>9, <4>1, <4>2
    <3> QED
      BY <1>9, <1>0, <1>1, <1>2, <2>2, <3>1, <3>2, <3>3
  <2> QED
    BY <1>9, <2>1, <2>2
<1>5. ASSUME NEW i \in 1 .. n2
      PROVE  \/ i \in 1 .. a /\ i \in 1 .. b /\ p[i] = o[i]
             \/ a < i /\ i <= a + l /\ p[i] = [edit |-> k, at |-> i - a]
             \/ \E j \in b + 1 .. n : j \in 1 .. n /\ i = j + (l - (b - a)) /\ p[i] = o[j]
  <2>1. \/ i <= a /\ p[i] = o[i]
        \/ a < i /\ i <= a + l /\ p[i] = [edit |-> k, at |-> i - a]
        \/ a + l < i /\ i - (a + l) + b \in b + 1 .. n /\ p[i] = o[i - (a + l) + b]
    BY <1>9 DEF Shifted
  <2>2. CASE a + l < i /\ i - (a + l) + b \in b + 1 .. n /\ p[i] = o[i - (a + l) + b]
    <3> DEFINE j == i - (a + l) + b
    <3>1. j \in b + 1 .. n /\ j \in 1 .. n /\ i = j + (l - (b - a)) /\ p[i] = o[j]
      BY <1>9, <2>2
    <3> HIDE DEF j
    <3> QED
      BY <1>9, <3>1
  <2> QED
    BY <1>9, <2>1, <2>2
<1>6. ASSUME NEW i \in 1 .. n2, p[i].edit # 0
      PROVE  \E x \in 1 .. q : d[x] = p[i].edit /\ i = r[x].start + t[q] - t[x] + p[i].at
  <2>1. CASE i \in 1 .. b /\ p[i] = o[i]
    BY <1>9, <1>6, <2>1 DEF Starts
  <2>2. CASE p[i] = [edit |-> k, at |-> i - a]
    <3>1. p[i].edit = k /\ p[i].at = i - a
      BY <1>9, <2>2
    <3>2. q \in 1 .. q /\ d[q] = p[i].edit /\ i = r[q].start + t[q] - t[q] + p[i].at
      BY <1>9, <1>0, <1>2, <3>1
    <3> QED
      BY <1>9, <3>2
  <2>3. ASSUME NEW j \in 1 .. n, i = j + (l - (b - a)), p[i] = o[j]
        PROVE  \E x \in 1 .. q : d[x] = p[i].edit /\ i = r[x].start + t[q] - t[x] + p[i].at
    <3>1. o[j].edit # 0 /\ o[j].at \in Nat
      BY <1>8, <1>9, <1>6, <2>3
    <3>2. PICK x \in 1 .. m : d[x] = o[j].edit /\ j = r[x].start + t[m] - t[x] + o[j].at
      BY <1>9, <3>1 DEF Located
    <3>3. x \in 1 .. q /\ x \in 1 .. N
      BY <1>9, <1>0
    <3>4. i = r[x].start + t[q] - t[x] + o[j].at
      BY <1>9, <1>0, <1>1, <2>3, <3>1, <3>2, <3>3
    <3> QED
      BY <1>9, <2>3, <3>2, <3>3, <3>4
  <2> QED
    BY <1>9, <1>5, <2>1, <2>2, <2>3
<1>7. ASSUME NEW i \in 1 .. n2, p[i].edit = 0
      PROVE  \E c \in 0 .. q : /\ i - 1 = p[i].at + t[q] - t[c]
                               /\ \A x \in 1 .. c : p[i].at < r[x].start
                               /\ \A x \in c + 1 .. q : r[x].end <= p[i].at
  <2>1. CASE i \in 1 .. a /\ i \in 1 .. b /\ p[i] = o[i]
    <3>1. p[i].at = i - 1
      BY <1>9, <2>1 DEF Starts
    <3>2. q \in 0 .. q /\ i - 1 = p[i].at + t[q] - t[q]
      BY <1>9, <1>0, <3>1
    <3>3. ASSUME NEW x \in 1 .. q PROVE p[i].at < r[x].start
      <4>1. x = q \/ x \in 1 .. m
        BY <1>9, <1>0
      <4>2. x \in 1 .. N
        BY <1>9, <1>0
      <4>3. a <= r[x].start
        BY <1>9, <1>1, <1>2, <1>8, <4>1, <4>2
      <4> QED
        BY <1>9, <1>1, <2>1, <3>1, <4>2, <4>3
    <3>4. \A x \in q + 1 .. q : r[x].end <= p[i].at
      BY <1>9
    <3> QED
      BY <1>9, <3>2, <3>3, <3>4
  <2>2. CASE p[i] = [edit |-> k, at |-> i - a]
    BY <1>9, <1>7, <2>2
  <2>3. ASSUME NEW j \in b + 1 .. n, j \in 1 .. n, i = j + (l - (b - a)), p[i] = o[j]
        PROVE  \E c \in 0 .. q : /\ i - 1 = p[i].at + t[q] - t[c]
                                 /\ \A x \in 1 .. c : p[i].at < r[x].start
                                 /\ \A x \in c + 1 .. q : r[x].end <= p[i].at
    <3>1. o[j].edit = 0 /\ o[j].at \in Nat /\ b <= o[j].at
      BY <1>8, <1>9, <1>7, <2>3 DEF Beyond
    <3>2. PICK c \in 0 .. m : /\ j - 1 = o[j].at + t[m] - t[c]
                              /\ \A x \in 1 .. c : o[j].at < r[x].start
                              /\ \A x \in c + 1 .. m : r[x].end <= o[j].at
      BY <1>9, <2>3, <3>1 DEF Located
    <3>3. c \in 0 .. q /\ c \in 0 .. N /\ t[c] \in Int
      BY <1>9 DEF Measured
    <3>4. i - 1 = o[j].at + t[q] - t[c]
      BY <1>9, <1>0, <2>3, <3>1, <3>2, <3>3
    <3>5. ASSUME NEW x \in c + 1 .. q PROVE r[x].end <= o[j].at
      <4>1. x = q \/ x \in c + 1 .. m
        BY <1>9, <1>0
      <4> QED
        BY <1>9, <1>2, <3>1, <3>2, <4>1
    <3> QED
      BY <1>9, <2>3, <3>2, <3>3, <3>4, <3>5
  <2> QED
    BY <1>9, <1>5, <2>1, <2>2, <2>3
<1> QED
  BY <1>9, <1>0, <1>3, <1>4, <1>6, <1>7 DEF Located

\* a puts keys in order, and d against it; d leaves none out.
Rises(a, u, n) ==
    \A x, y \in 1 .. n : x < y => a[x] # a[y] /\ u[a[x]] <= u[a[y]]
Falls(d, u, n) ==
    \A x, y \in 1 .. n : x < y => d[x] # d[y] /\ u[d[y]] <= u[d[x]]
Arranges(d, u, n) ==
    /\ \A x \in 1 .. n : d[x] \in 1 .. n /\ u[d[x]] \in Nat
    /\ \A k \in 1 .. n : \E x \in 1 .. n : d[x] = k

\* The keys up to the x-th in order cannot be less than the x-th from the back.
LEMMA NotBefore ==
    ASSUME NEW n \in Nat, NEW u, NEW a, NEW d, Arranges(a, u, n), Arranges(d, u, n),
           Rises(a, u, n), Falls(d, u, n), NEW x \in 1 .. n, NEW y \in 1 .. n, y = n + 1 - x
    PROVE  u[d[y]] <= u[a[x]]
<1> SUFFICES ASSUME ~(u[d[y]] <= u[a[x]]) PROVE FALSE
  OBVIOUS
<1>1. u[a[x]] \in Nat /\ u[d[y]] \in Nat /\ u[a[x]] < u[d[y]]
  BY DEF Arranges
<1>2. ASSUME NEW i \in 1 .. x PROVE \E z \in y + 1 .. n : d[z] = a[i]
  <2>1. i \in 1 .. n /\ a[i] \in 1 .. n /\ u[a[i]] \in Nat
    BY DEF Arranges
  <2>2. u[a[i]] <= u[a[x]]
    <3>1. CASE i = x
      BY <1>1, <3>1
    <3>2. CASE i # x
      BY <2>1, <3>2 DEF Rises
    <3> QED
      BY <3>1, <3>2
  <2>3. PICK z \in 1 .. n : d[z] = a[i]
    BY <2>1 DEF Arranges
  <2>4. u[d[z]] < u[d[y]]
    BY <1>1, <2>1, <2>2, <2>3
  <2>5. ~(z <= y)
    <3>1. CASE z = y
      BY <1>1, <2>1, <2>3, <2>4, <3>1
    <3>2. ASSUME z < y PROVE FALSE
      <4>1. u[d[y]] <= u[d[z]]
        BY <3>2 DEF Falls
      <4> QED
        BY <1>1, <2>1, <2>3, <2>4, <4>1
    <3> QED
      BY <3>1, <3>2
  <2>6. z \in y + 1 .. n
    BY <2>5
  <2> QED
    BY <2>3, <2>6
<1> DEFINE P == 1 .. x
           H == y + 1 .. n
           g == [i \in P |-> CHOOSE z \in H : d[z] = a[i]]
<1>3. \A i \in P : g[i] \in H /\ d[g[i]] = a[i]
  BY <1>2
<1>4. g \in [P -> H]
  BY <1>3
<1>5. IsFiniteSet(P) /\ IsFiniteSet(H) /\ Cardinality(H) < Cardinality(P)
  <2>1. IsFiniteSet(P) /\ Cardinality(P) = x
    BY FS_Interval
  <2>2. IsFiniteSet(H) /\ Cardinality(H) = n - y
    <3>1. IsFiniteSet(H) /\ Cardinality(H) = IF y + 1 > n THEN 0 ELSE n - (y + 1) + 1
      BY FS_Interval
    <3> QED
      BY <3>1
  <2> QED
    BY <2>1, <2>2
<1> HIDE DEF P, H, g
<1>6. PICK i \in P, j \in P : i # j /\ g[i] = g[j]
  BY <1>4, <1>5, FS_PigeonHole
<1>7. a[i] = a[j]
  BY <1>3, <1>6
<1>8. i \in 1 .. n /\ j \in 1 .. n /\ (i < j \/ j < i)
  BY <1>6 DEF P
<1> QED
  BY <1>7, <1>8 DEF Rises

\* The x-th key in order is the x-th one from the end against it.
LEMMA Reversal ==
    ASSUME NEW n \in Nat, NEW u, NEW a, NEW d, Arranges(a, u, n), Arranges(d, u, n),
           Rises(a, u, n), Falls(d, u, n), NEW x \in 1 .. n, NEW y \in 1 .. n, y = n + 1 - x
    PROVE  u[a[x]] = u[d[y]]
<1>1. u[d[y]] <= u[a[x]]
  BY NotBefore
<1>2. u[a[x]] <= u[d[y]]
  <2> DEFINE back(s) == [i \in 1 .. n |-> s[n + 1 - i]]
             a2 == back(d)
             d2 == back(a)
  <2>1. \A i \in 1 .. n : n + 1 - i \in 1 .. n /\ n + 1 - (n + 1 - i) = i
    OBVIOUS
  <2>2. \A i \in 1 .. n : a2[i] = d[n + 1 - i] /\ d2[i] = a[n + 1 - i]
    OBVIOUS
  <2> HIDE DEF a2, d2
  <2>3. Arranges(a2, u, n)
    <3>1. \A i \in 1 .. n : a2[i] \in 1 .. n /\ u[a2[i]] \in Nat
      BY <2>1, <2>2 DEF Arranges
    <3>2. ASSUME NEW k \in 1 .. n PROVE \E i \in 1 .. n : a2[i] = k
      <4>1. PICK i \in 1 .. n : d[i] = k
        BY DEF Arranges
      <4>2. n + 1 - i \in 1 .. n /\ a2[n + 1 - i] = k
        <5> DEFINE j == n + 1 - i
        <5>1. j \in 1 .. n /\ n + 1 - j = i
          OBVIOUS
        <5> HIDE DEF j
        <5>2. a2[j] = k
          BY <2>2, <4>1, <5>1
        <5> QED
          BY <5>1, <5>2 DEF j
      <4> QED
        BY <4>2
    <3> QED
      BY <3>1, <3>2 DEF Arranges
  <2>4. Arranges(d2, u, n)
    <3>1. \A i \in 1 .. n : d2[i] \in 1 .. n /\ u[d2[i]] \in Nat
      BY <2>1, <2>2 DEF Arranges
    <3>2. ASSUME NEW k \in 1 .. n PROVE \E i \in 1 .. n : d2[i] = k
      <4>1. PICK i \in 1 .. n : a[i] = k
        BY DEF Arranges
      <4>2. n + 1 - i \in 1 .. n /\ d2[n + 1 - i] = k
        <5> DEFINE j == n + 1 - i
        <5>1. j \in 1 .. n /\ n + 1 - j = i
          OBVIOUS
        <5> HIDE DEF j
        <5>2. d2[j] = k
          BY <2>2, <4>1, <5>1
        <5> QED
          BY <5>1, <5>2 DEF j
      <4> QED
        BY <4>2
    <3> QED
      BY <3>1, <3>2 DEF Arranges
  <2>5. Rises(a2, u, n)
    <3> SUFFICES ASSUME NEW i \in 1 .. n, NEW j \in 1 .. n, i < j
                 PROVE  a2[i] # a2[j] /\ u[a2[i]] <= u[a2[j]]
      BY DEF Rises
    <3>1. n + 1 - j \in 1 .. n /\ n + 1 - i \in 1 .. n /\ n + 1 - j < n + 1 - i
      OBVIOUS
    <3>2. d[n + 1 - j] # d[n + 1 - i] /\ u[d[n + 1 - i]] <= u[d[n + 1 - j]]
      BY <3>1 DEF Falls
    <3> QED
      BY <2>2, <3>2
  <2>6. Falls(d2, u, n)
    <3> SUFFICES ASSUME NEW i \in 1 .. n, NEW j \in 1 .. n, i < j
                 PROVE  d2[i] # d2[j] /\ u[d2[j]] <= u[d2[i]]
      BY DEF Falls
    <3>1. n + 1 - j \in 1 .. n /\ n + 1 - i \in 1 .. n /\ n + 1 - j < n + 1 - i
      OBVIOUS
    <3>2. a[n + 1 - j] # a[n + 1 - i] /\ u[a[n + 1 - j]] <= u[a[n + 1 - i]]
      BY <3>1 DEF Rises
    <3> QED
      BY <2>2, <3>2
  <2>7. u[d2[y]] <= u[a2[x]]
    BY <2>3, <2>4, <2>5, <2>6, NotBefore
  <2>8. a2[x] = d[y] /\ d2[y] = a[x]
    <3>1. n + 1 - x = y /\ n + 1 - y = x
      OBVIOUS
    <3> QED
      BY <2>2, <3>1
  <2> QED
    BY <2>7, <2>8
<1>3. u[a[x]] \in Nat /\ u[d[y]] \in Nat
  BY DEF Arranges
<1> QED
  BY <1>1, <1>2, <1>3

\* The new text of the x-th edit from the back starts here once all are in.
Pos(r, t, n, x) == r[x].start + t[n] - t[x]

\* The x-th edit from the front is the x-th from the end of those from the back,
\* and s is what the ones in front of it added.
Mirrors(q, s, r, t, n) ==
    /\ s[n + 1] = t[n]
    /\ \A x \in 1 .. n : /\ q[x].start = r[n + 1 - x].start /\ q[x].end = r[n + 1 - x].end
                         /\ q[x].len = r[n + 1 - x].len /\ s[x] = t[n] - t[n + 1 - x]

\* Of the edits from the back, the c-th is the last whose new text ends behind o.
EndsBehind(r, t, n, o, c) ==
    /\ \A x \in c + 1 .. n : Pos(r, t, n, x) + r[x].len <= o
    /\ c # 0 => o < Pos(r, t, n, c) + r[c].len

\* The edits from the front whose new text ends behind o.
NotInFront(q, s, n, o) == {y \in 1 .. n : o < (q[y].start + s[y]) + q[y].len}

\* The first edit from the front that ends behind an offset is the one that the
\* new texts further in front end in front of.
LEMMA FirstBehind ==
    ASSUME NEW n \in Nat, NEW q, NEW s, NEW r, NEW t, Measured(r, t, n), Mirrors(q, s, r, t, n),
           NEW o \in Int, NEW c \in 0 .. n, EndsBehind(r, t, n, o, c)
    PROVE  /\ c = 0 => NotInFront(q, s, n, o) = {}
           /\ c # 0 => /\ NotInFront(q, s, n, o) # {} /\ Min(NotInFront(q, s, n, o)) = n + 1 - c
                       /\ q[n + 1 - c].start + s[n + 1 - c] = Pos(r, t, n, c)
                       /\ s[n + 1 - c] = t[n] - t[c]
                       /\ q[n + 1 - c].start = r[c].start /\ q[n + 1 - c].end = r[c].end
<1> DEFINE B == NotInFront(q, s, n, o)
<1>0. /\ \A x \in c + 1 .. n : Pos(r, t, n, x) + r[x].len <= o
      /\ c # 0 => o < Pos(r, t, n, c) + r[c].len
      /\ B = {y \in 1 .. n : o < (q[y].start + s[y]) + q[y].len}
  BY DEF EndsBehind, NotInFront
<1> HIDE DEF B
<1>1. ASSUME NEW y \in 1 .. n, NEW x \in 1 .. n, x = n + 1 - y
      PROVE  /\ q[y].start + s[y] = Pos(r, t, n, x) /\ s[y] = t[n] - t[x]
             /\ q[y].start = r[x].start /\ q[y].end = r[x].end /\ q[y].len = r[x].len
  <2>1. /\ q[y].start = r[x].start /\ q[y].end = r[x].end /\ q[y].len = r[x].len
        /\ s[y] = t[n] - t[x]
    BY <1>1 DEF Mirrors
  <2>2. r[x].start \in Nat /\ t[n] \in Int /\ t[x] \in Int
    BY DEF Measured
  <2> QED
    BY <2>1, <2>2 DEF Pos
<1>2. ASSUME NEW y \in 1 .. n, n + 1 - y > c PROVE y \notin B
  <2> DEFINE x == n + 1 - y
  <2>1. x \in 1 .. n /\ x \in c + 1 .. n
    BY <1>2
  <2> HIDE DEF x
  <2>2. Pos(r, t, n, x) + r[x].len <= o /\ r[x].len \in Nat /\ Pos(r, t, n, x) \in Int
    BY <1>0, <2>1 DEF Measured, Pos
  <2>3. q[y].start + s[y] = Pos(r, t, n, x) /\ q[y].len = r[x].len
    BY <1>1, <2>1 DEF x
  <2> QED
    BY <1>0, <2>2, <2>3
<1>3. ASSUME c = 0 PROVE B = {}
  <2>1. \A y \in 1 .. n : n + 1 - y > c
    BY <1>3
  <2>2. \A y \in 1 .. n : y \notin B
    BY <1>2, <2>1
  <2>3. B \subseteq 1 .. n
    BY DEF B, NotInFront
  <2> QED
    BY <2>2, <2>3
<1>4. ASSUME c # 0
      PROVE  /\ B # {} /\ Min(B) = n + 1 - c
             /\ q[n + 1 - c].start + s[n + 1 - c] = Pos(r, t, n, c)
             /\ s[n + 1 - c] = t[n] - t[c]
             /\ q[n + 1 - c].start = r[c].start /\ q[n + 1 - c].end = r[c].end
  <2> DEFINE y == n + 1 - c
  <2>1. y \in 1 .. n /\ c \in 1 .. n /\ c = n + 1 - y
    BY <1>4
  <2> HIDE DEF y
  <2>2. /\ q[y].start + s[y] = Pos(r, t, n, c) /\ s[y] = t[n] - t[c]
        /\ q[y].start = r[c].start /\ q[y].end = r[c].end /\ q[y].len = r[c].len
    BY <1>1, <2>1
  <2>3. y \in B
    BY <1>0, <1>4, <2>1, <2>2
  <2>4. \A z \in B : z \in 1 .. n /\ y <= z
    BY <1>0, <1>2, <2>1
  <2>5. Min(B) = y
    <3>1. Min(B) \in B /\ \A z \in B : Min(B) <= z
      BY <2>3, <2>4 DEF Min
    <3> QED
      <4>1. Min(B) \in 1 .. n /\ y <= Min(B) /\ Min(B) <= y
        BY <2>3, <2>4, <3>1
      <4> QED
        BY <2>1, <4>1
  <2>6. B # {}
    BY <2>3
  <2> QED
    BY <2>2, <2>5, <2>6 DEF y
<1> QED
  BY <1>3, <1>4 DEF B

\* The edits from the back do not overlap, and t is what they added.
Apart(r, t, n) ==
    /\ \A x \in 1 .. n : t[x] = t[x - 1] + (r[x].len - (r[x].end - r[x].start))
    /\ \A x, y \in 1 .. n : x < y =>
          r[y].end <= r[x].start /\ r[y].start - t[y] + r[y].len <= r[x].start - t[x]

\* A byte of the file, with c of the edits behind it, is behind the new text of
\* the others and in front of that of the c-th.
LEMMA ByteBetween ==
    ASSUME NEW n \in Nat, NEW r, NEW t, Measured(r, t, n), Apart(r, t, n),
           NEW p \in Nat, NEW c \in 0 .. n, NEW o \in Int, o = p + t[n] - t[c],
           \A x \in 1 .. c : p < r[x].start, \A x \in c + 1 .. n : r[x].end <= p
    PROVE  EndsBehind(r, t, n, o, c) /\ (c # 0 => o < Pos(r, t, n, c))
<1>1. /\ \A x \in 1 .. n : r[x].start \in Nat /\ r[x].end \in Nat /\ r[x].len \in Nat /\ t[x] \in Int
      /\ t[n] \in Int /\ t[c] \in Int
  BY DEF Measured
<1>2. ASSUME NEW x \in c + 1 .. n PROVE Pos(r, t, n, x) + r[x].len <= o
  <2> DEFINE d == c + 1
  <2>1. d \in 1 .. n /\ x \in 1 .. n /\ d \in c + 1 .. n /\ d - 1 = c
    OBVIOUS
  <2> HIDE DEF d
  <2>2. t[d] = t[c] + (r[d].len - (r[d].end - r[d].start)) /\ r[d].end <= p
    BY <2>1 DEF Apart
  <2>3. r[d].start - t[d] + r[d].len <= p - t[c]
    BY <1>1, <2>1, <2>2
  <2>4. r[x].start - t[x] + r[x].len <= p - t[c]
    <3>1. CASE x = d
      BY <2>3, <3>1
    <3>2. CASE x # d
      <4>1. d < x
        BY <2>1, <3>2
      <4>2. r[x].start - t[x] + r[x].len <= r[d].start - t[d]
        BY <2>1, <4>1 DEF Apart
      <4> QED
        BY <1>1, <2>1, <2>3, <4>2
    <3> QED
      BY <3>1, <3>2
  <2> QED
    BY <1>1, <2>1, <2>4 DEF Pos
<1>3. ASSUME c # 0 PROVE o < Pos(r, t, n, c)
  <2>1. c \in 1 .. c /\ c \in 1 .. n
    BY <1>3
  <2> QED
    BY <1>1, <2>1 DEF Pos
<1>4. ASSUME c # 0 PROVE o < Pos(r, t, n, c) + r[c].len
  <2>1. r[c].len \in Nat /\ r[c].start \in Nat /\ c \in 1 .. n
    BY <1>1, <1>4
  <2>2. Pos(r, t, n, c) \in Int
    BY <1>1, <2>1 DEF Pos
  <2> QED
    BY <1>3, <1>4, <2>1, <2>2
<1> QED
  BY <1>2, <1>3, <1>4 DEF EndsBehind

\* What the edits added, in an order of them.
IsGrown(f, order) ==
    f = [i \in 0 .. Len(order) |-> IF i = 0 THEN 0 ELSE f[i - 1] + Growth(order[i])]
Grown(order) == CHOOSE f : IsGrown(f, order)

LEMMA DeltaIs ==
    ASSUME NEW size \in Nat, edits \in Seq(EditsIn(size)), NEW n \in Nat,
           NEW order \in [1 .. n -> 1 .. Len(edits)]
    PROVE  /\ Grown(order) \in [0 .. n -> Int] /\ Grown(order)[0] = 0
           /\ \A i \in 1 .. n : Grown(order)[i] = Grown(order)[i - 1] + Growth(order[i])
           /\ \A x : Delta(order, x) = Grown(order)[x - 1]
<1> DEFINE g == [i \in 1 .. n |-> Growth(order[i])]
<1>1. Len(order) = n
  OBVIOUS
<1>2. \A i \in 1 .. n : Growth(order[i]) \in Int
  <2> SUFFICES ASSUME NEW i \in 1 .. n PROVE Growth(order[i]) \in Int
    OBVIOUS
  <2> DEFINE k == order[i]
  <2>1. k \in 1 .. Len(edits)
    OBVIOUS
  <2> HIDE DEF k
  <2>2. edits[k] \in EditsIn(size)
    BY <2>1
  <2>3. Growth(k) \in Int
    BY <2>2 DEF EditsIn, Growth
  <2> QED
    BY <2>3 DEF k
<1>3. g \in [1 .. n -> Int] /\ \A i \in 1 .. n : g[i] = Growth(order[i])
  BY <1>2
<1>4. \A f : IsSum(f, g, n) <=> IsGrown(f, order)
  <2> SUFFICES ASSUME NEW f PROVE IsSum(f, g, n) <=> IsGrown(f, order)
    OBVIOUS
  <2> DEFINE F(i) == IF i = 0 THEN 0 ELSE f[i - 1] + g[i]
             G(i) == IF i = 0 THEN 0 ELSE f[i - 1] + Growth(order[i])
  <2>1. \A i \in 0 .. n : F(i) = G(i)
    <3>1. \A i \in 0 .. n : i # 0 => i \in 1 .. n
      OBVIOUS
    <3> HIDE DEF g
    <3> QED
      BY <1>3, <3>1
  <2>2. IsSum(f, g, n) <=> f = [i \in 0 .. n |-> F(i)]
    BY DEF IsSum
  <2>3. IsGrown(f, order) <=> f = [i \in 0 .. n |-> G(i)]
    BY <1>1 DEF IsGrown
  <2> HIDE DEF F, G
  <2>4. [i \in 0 .. n |-> F(i)] = [i \in 0 .. n |-> G(i)]
    BY <2>1
  <2> QED
    BY <2>2, <2>3, <2>4
<1> HIDE DEF g
<1>5. IsGrown(Grown(order), order)
  <2>1. \E f : IsGrown(f, order)
    BY <1>3, <1>4, SumExists
  <2> QED
    BY <2>1 DEF Grown
<1>6. /\ Grown(order) \in [0 .. n -> Int] /\ Grown(order)[0] = 0
      /\ \A i \in 1 .. n : Grown(order)[i] = Grown(order)[i - 1] + g[i]
  BY <1>3, <1>4, <1>5, SumIs
<1>7. \A x : Delta(order, x) = Grown(order)[x - 1]
  BY DEF Delta, Grown, IsGrown
<1> QED
  BY <1>3, <1>6, <1>7

---------------------------------------------------------------------------
(* Every place of the lowered text maps back.                              *)

\* Of two edits that start together the later one is no insertion, unless the
\* earlier one is.
InOrder(e) ==
    \A i, j \in 1 .. Len(e) :
        i < j /\ e[i].start = e[j].start /\ e[j].end = e[j].start => e[i].end = e[i].start

Asked(f, slot) == InsertionsAt(f, slot) \cup ReplacementsAt(f, slot)

\* A comment cannot ask for an insertion where one further up has a replacement.
LEMMA NoInsertionThere ==
    ASSUME NEW f, IsFile(f), IsParsed(f), NEW t \in DOMAIN f.slots, NEW s \in DOMAIN f.slots, t < s,
           NEW e \in ReplacementsAt(f, f.slots[t]), NEW g \in InsertionsAt(f, f.slots[s])
    PROVE  e.start # g.start
<1> SUFFICES ASSUME e.start = g.start PROVE FALSE
  OBVIOUS
<1>1. \/ e.start \in NodeStarts(f)
      \/ \E n \in f.assigns : n.line <= f.slots[t].line + 1 /\ e.start = n.rhs.start
  BY DEF ReplacementsAt
<1>2. \/ g.start \in TypePlaces(f)
      \/ \E n \in f.assigns : /\ n.rhs.form = "iife" /\ n.line = f.slots[s].line + 1
                              /\ g.start = n.rhs.start
  BY DEF InsertionsAt
<1>3. g.start \notin TypePlaces(f)
  <2>1. e.start \in NodeStarts(f) \cup {n.rhs.start : n \in f.assigns}
    BY <1>1
  <2> QED
    BY <2>1 DEF IsParsed
<1>4. PICK n \in f.assigns : /\ n.rhs.form = "iife" /\ n.line = f.slots[s].line + 1
                             /\ g.start = n.rhs.start
  BY <1>2, <1>3
<1>5. e.start \notin NodeStarts(f)
  BY <1>4 DEF IsParsed
<1>6. PICK m \in f.assigns : m.line <= f.slots[t].line + 1 /\ e.start = m.rhs.start
  BY <1>1, <1>5
<1>7. m = n
  BY <1>4, <1>6 DEF IsParsed
<1>8. f.slots[t].line < f.slots[s].line /\ f.slots[t].line \in Nat /\ f.slots[s].line \in Nat
  BY DEF IsParsed, IsFile
<1> QED
  BY <1>4, <1>6, <1>7, <1>8

\* One more comment keeps the order of the edits.
LEMMA OrderKept ==
    ASSUME NEW f, IsFile(f), IsParsed(f), NEW s \in DOMAIN f.slots,
           NEW e \in Seq(EditsIn(f.size)), InOrder(e),
           \A k \in 1 .. Len(e) : \E t \in DOMAIN f.slots : t < s /\ e[k] \in Asked(f, f.slots[t]),
           NEW more, more # Error, Lowers(more, f, f.slots[s])
    PROVE  /\ InOrder(e \o more)
           /\ \A k \in 1 .. Len(e \o more) :
                 k \in 1 .. Len(e) \/ (e \o more)[k] \in Asked(f, f.slots[s])
<1> DEFINE I == InsertionsAt(f, f.slots[s])
           R == ReplacementsAt(f, f.slots[s])
           E == EditsIn(f.size)
           w == e \o more
           n == Len(e)
<1>1. more \in Seq(I) \/ more \in Seq(R)
  BY DEF Lowers, IsLowering
<1>2. I \subseteq E /\ R \subseteq E
  BY DEF InsertionsAt, ReplacementsAt
<1>3. (\A g \in I : g.end = g.start) /\ (\A g \in R : g.start \in Nat /\ g.end \in Nat /\ g.start < g.end)
  BY DEF InsertionsAt, ReplacementsAt, EditsIn
<1>4. \A t \in DOMAIN f.slots : t < s =>
         \A g \in Asked(f, f.slots[t]), h \in I : g.start = h.start => g.end = g.start
  <2> SUFFICES ASSUME NEW t \in DOMAIN f.slots, t < s, NEW g \in Asked(f, f.slots[t]), NEW h \in I,
                      g.start = h.start
               PROVE  g.end = g.start
    OBVIOUS
  <2>1. g \notin ReplacementsAt(f, f.slots[t])
    BY NoInsertionThere
  <2> QED
    BY <2>1 DEF Asked, InsertionsAt
<1>5. I \cup R = Asked(f, f.slots[s])
  BY DEF Asked
<1> HIDE DEF I, R, E
<1>6. /\ Len(w) = n + Len(more) /\ n \in Nat /\ Len(more) \in Nat
      /\ \A k \in 1 .. Len(w) : w[k] = IF k <= n THEN e[k] ELSE more[k - n]
  BY <1>1
<1>7. \A k \in 1 .. Len(w) : k > n => k - n \in 1 .. Len(more) /\ w[k] = more[k - n]
  BY <1>6
<1>8. /\ more \in Seq(I) => \A k \in 1 .. Len(w) : k > n => w[k] \in I
      /\ more \in Seq(R) => \A k \in 1 .. Len(w) : k > n => w[k] \in R
  BY <1>7
<1>9. \A k \in 1 .. Len(w) : k <= n => k \in 1 .. n /\ w[k] = e[k]
  BY <1>6
<1> HIDE DEF w, n
<1>10. ASSUME NEW i \in 1 .. Len(w), NEW j \in 1 .. Len(w),
              i < j, w[i].start = w[j].start, w[j].end = w[j].start
       PROVE  w[i].end = w[i].start
  <2>1. CASE j <= n
    <3>1. i <= n
      BY <1>6, <1>10, <2>1
    <3> QED
      BY <1>9, <1>10, <2>1, <3>1 DEF InOrder, n
  <2>2. CASE ~(j <= n)
    <3>1. more \in Seq(I) /\ w[j] \in I
      <4>1. w[j] \notin R
        BY <1>3, <1>10
      <4> QED
        BY <1>1, <1>6, <1>8, <2>2, <4>1
    <3>2. CASE i <= n
      <4>1. i \in 1 .. n /\ w[i] = e[i]
        BY <1>9, <3>2
      <4>2. PICK t \in DOMAIN f.slots : t < s /\ e[i] \in Asked(f, f.slots[t])
        BY <4>1 DEF n
      <4> QED
        BY <1>4, <1>10, <3>1, <4>1, <4>2
    <3>3. CASE ~(i <= n)
      <4>1. w[i] \in I
        BY <1>6, <1>8, <3>1, <3>3
      <4> QED
        BY <1>3, <4>1
    <3> QED
      BY <3>2, <3>3
  <2> QED
    BY <2>1, <2>2
<1>11. InOrder(w)
  BY <1>10 DEF InOrder
<1>12. ASSUME NEW k \in 1 .. Len(w) PROVE k \in 1 .. n \/ w[k] \in I \cup R
  BY <1>1, <1>6, <1>8, <1>9
<1> QED
  BY <1>5, <1>11, <1>12 DEF w, n

\* The edits from the back.
Back == [x \in 1 .. Len(edits) |-> edits[Descending[x]]]

PInv ==
    /\ InOrder(edits)
    /\ \A k \in 1 .. Len(edits) : \E x \in 1 .. Len(directives) :
          edits[k] \in Asked(file, file.slots[directives[x].slot])
    /\ phase \in {"editing", "lowered"} =>
          Located(out, Len(out), Descending, Back, Grown(Descending), applied, file.size)

LEMMA InitPlaced == Init => PInv
<1> SUFFICES ASSUME Init PROVE PInv
  OBVIOUS
<1>1. Len(edits) = 0 /\ phase = "lowering"
  BY DEF Init
<1>2. \A k \in 1 .. Len(edits) : FALSE
  BY <1>1
<1> QED
  BY <1>1, <1>2 DEF PInv, InOrder

\* The edits from the back and what they add.
LEMMA BackIs ==
    ASSUME TInv
    PROVE  /\ Measured(Back, Grown(Descending), Len(edits)) /\ Grown(Descending)[0] = 0
           /\ \A x \in 1 .. Len(edits) :
                 /\ Descending[x] \in 1 .. Len(edits) /\ Back[x] = edits[Descending[x]]
                 /\ Back[x] \in EditsIn(file.size)
                 /\ Grown(Descending)[x] = Grown(Descending)[x - 1]
                                              + (Back[x].len - (Back[x].end - Back[x].start))
<1> DEFINE n == Len(edits)
           t == Grown(Descending)
<1>1. n \in Nat /\ file.size \in Nat /\ edits \in Seq(EditsIn(file.size))
  BY DEF TInv
<1>2. Descending \in [1 .. n -> 1 .. n]
  BY <1>1, DescendingIs
<1>3. /\ t \in [0 .. n -> Int] /\ t[0] = 0
      /\ \A x \in 1 .. n : t[x] = t[x - 1] + Growth(Descending[x])
  BY <1>1, <1>2, DeltaIs
<1> HIDE DEF t
<1>4. ASSUME NEW x \in 1 .. n
      PROVE  /\ Descending[x] \in 1 .. n /\ Back[x] = edits[Descending[x]]
             /\ Back[x] \in EditsIn(file.size)
             /\ Growth(Descending[x]) = Back[x].len - (Back[x].end - Back[x].start)
             /\ Back[x].start \in Nat /\ Back[x].end \in Nat /\ Back[x].len \in Nat
  <2>1. Descending[x] \in 1 .. n /\ Back[x] = edits[Descending[x]]
    BY <1>2 DEF Back
  <2>2. edits[Descending[x]] \in EditsIn(file.size)
    BY <1>1, <2>1
  <2> QED
    BY <2>1, <2>2 DEF Growth, EditsIn
<1>5. Measured(Back, t, n)
  BY <1>3, <1>4 DEF Measured
<1> QED
  BY <1>3, <1>4, <1>5 DEF t

\* One more edit is where the text has it.
LEMMA OneMorePlaced ==
    ASSUME TInv, EInv, PInv, phase = "editing", applied < Len(edits),
           Applicable(edits[Descending[applied + 1]])
    PROVE  LET more == Spliced(out, edits, Descending[applied + 1])
           IN  Located(more, Len(more), Descending, Back, Grown(Descending), applied + 1, file.size)
<1> DEFINE k == Descending[applied + 1]
           size == file.size
           a == edits[k].start
           b == edits[k].end
           l == edits[k].len
           n == Len(out)
           N == Len(edits)
           p == Spliced(out, edits, k)
           n2 == Len(p)
           d == Descending
           r == Back
           t == Grown(Descending)
           m == applied
           q == applied + 1
<1>1. /\ size \in Nat /\ edits \in Seq(EditsIn(size)) /\ out \in Seq(ByteOf(edits, size))
      /\ m \in Nat /\ lastStart \in Nat /\ N \in Nat /\ q \in Nat /\ q \in 1 .. N /\ q - 1 = m
  BY DEF TInv
<1>2. /\ Measured(r, t, N)
      /\ \A x \in 1 .. N : /\ d[x] \in 1 .. N /\ r[x] = edits[d[x]]
                           /\ t[x] = t[x - 1] + (r[x].len - (r[x].end - r[x].start))
  BY BackIs
<1>3. d[q] = k /\ k \in 1 .. N /\ r[q] = edits[k]
  BY <1>1, <1>2
<1>4. edits[k] \in EditsIn(size)
  BY <1>1, <1>3
<1>5. a \in Nat /\ b \in Nat /\ l \in Nat /\ a <= b /\ b <= n /\ b <= size /\ b <= lastStart
  BY <1>4 DEF EditsIn, Applicable
<1>6. p \in Seq(ByteOf(edits, size)) /\ Shifted(p, n2, out, n, a, b, l, k)
  BY <1>1, <1>3, <1>5, SpliceType, SplicedMoves
<1>7. Laid(out, n, edits, Done, lastStart, size)
  BY DEF EInv
<1>8. /\ \A i \in 1 .. b : out[i] = ToSource(i - 1)
      /\ \A i \in 1 .. n : out[i].at \in Nat
      /\ Ascends(out, n)
  <2>1. \A i \in 1 .. b : i \in 1 .. size /\ i <= lastStart
    BY <1>1, <1>5
  <2>2. \A i \in 1 .. size : i <= lastStart => out[i] = ToSource(i - 1)
    BY <1>7 DEF Laid
  <2>3. (\A i \in 1 .. n : out[i].at \in Nat) /\ Ascends(out, n)
    BY <1>7 DEF Laid, Ascends
  <2> QED
    BY <2>1, <2>2, <2>3
<1>9. n \in Nat /\ n2 \in Nat
  BY <1>1, <1>6
<1>10. Starts(out, b) /\ Beyond(out, n, b)
  BY <1>5, <1>8, <1>9, BehindIsBehind
<1>11. \A x \in 1 .. m : b <= r[x].start
  <2> SUFFICES ASSUME NEW x \in 1 .. m PROVE b <= r[x].start
    OBVIOUS
  <2>1. d[x] \in Done /\ x \in 1 .. N
    BY <1>1 DEF Done
  <2>2. lastStart <= edits[d[x]].start /\ edits[d[x]] \in EditsIn(size)
    BY <1>1, <1>2, <1>7, <2>1 DEF Laid
  <2>3. lastStart <= r[x].start /\ r[x].start \in Nat
    BY <1>2, <2>1, <2>2 DEF EditsIn
  <2> QED
    BY <1>1, <1>5, <2>3
<1>12. IsStep(d, r, t, q, m, a, b, l, k)
  BY <1>1, <1>2, <1>3, <1>11 DEF IsStep
<1>13. Located(out, n, d, r, t, m, size)
  BY DEF PInv
<1>14. q = m + 1 /\ q <= N /\ k \in Nat /\ k # 0
  BY <1>1, <1>3
<1> HIDE DEF k, size, a, b, l, n, N, p, n2, d, r, t, m, q
<1>15. /\ size \in Nat /\ N \in Nat /\ m \in Nat /\ q \in Nat /\ Measured(r, t, N)
       /\ Shifted(p, n2, out, n, a, b, l, k)
  BY <1>1, <1>2, <1>6
<1>16. \A i \in 1 .. n : out[i].at \in Nat
  BY <1>8
<1>17. Located(p, n2, d, r, t, q, size)
  <2>1. Fits(N, m, q, a, b, l, k, n) /\ Measured(r, t, N) /\ IsStep(d, r, t, q, m, a, b, l, k)
    BY <1>5, <1>12, <1>14, <1>15 DEF Fits
  <2>2. size \in Nat /\ n \in Nat /\ n2 \in Nat /\ N \in Nat /\ m \in Nat
    BY <1>9, <1>15
  <2>3. Starts(out, b) /\ Beyond(out, n, b) /\ Shifted(p, n2, out, n, a, b, l, k)
    BY <1>10, <1>15
  <2>4. Numbered(out, n) /\ Located(out, n, d, r, t, m, size)
    BY <1>13, <1>16 DEF Numbered
  <2> QED
    BY <2>1, <2>2, <2>3, <2>4, LocatedStep
<1> QED
  BY <1>17 DEF k, size, n, p, n2, d, r, t, q

\* Before the first edit every byte is where the file has it.
LEMMA NothingPlaced ==
    ASSUME NEW size \in Nat, NEW o, o = [i \in 1 .. size |-> ToSource(i - 1)],
           NEW d, NEW r, NEW t, t[0] = 0
    PROVE  Located(o, size, d, r, t, 0, size)
<1>1. \A i \in 1 .. size : o[i].edit = 0 /\ o[i].at = i - 1
  BY DEF ToSource
<1>2. \A i \in 1 .. size : i - 1 = o[i].at + t[0] - t[0]
  BY <1>1
<1>3. ASSUME NEW i \in 1 .. size
      PROVE  \E c \in 0 .. 0 : /\ i - 1 = o[i].at + t[0] - t[c]
                               /\ \A x \in 1 .. c : o[i].at < r[x].start
                               /\ \A x \in c + 1 .. 0 : r[x].end <= o[i].at
  <2>1. 0 \in 0 .. 0 /\ (\A x \in 1 .. 0 : FALSE) /\ (\A x \in 0 + 1 .. 0 : FALSE)
    OBVIOUS
  <2> QED
    BY <1>2, <2>1
<1>4. size = size + t[0]
  OBVIOUS
<1>5. \A x \in 1 .. 0 : FALSE
  OBVIOUS
<1> QED
  BY <1>1, <1>3, <1>4, <1>5, Zenon DEF Located

LEMMA NextPlaced == TInv /\ EInv /\ PInv /\ [Next]_vars => PInv'
<1> SUFFICES ASSUME TInv, EInv, PInv, [Next]_vars PROVE PInv'
  OBVIOUS
<1>0. /\ file \in Files /\ file.size \in Nat /\ applied \in Nat /\ edits \in Seq(EditsIn(file.size))
      /\ directives \in Seq([slot : DOMAIN file.slots, body : Bodies])
      /\ IsFile(file) /\ IsParsed(file)
  BY FilesAssumption DEF TInv
<1>1. CASE LowerDirective
  <2>1. PICK s \in DOMAIN file.slots, body \in Bodies :
           /\ \A d \in ToSet(directives) : d.slot < s
           /\ directives' = Append(directives, [slot |-> s, body |-> body])
           /\ phase' = IF applyDirective(file, file.slots[s], body) = Error THEN "error" ELSE phase
           /\ edits' = IF applyDirective(file, file.slots[s], body) = Error THEN edits
                       ELSE edits \o applyDirective(file, file.slots[s], body)
    BY <1>1 DEF LowerDirective
  <2>2. file' = file /\ phase = "lowering" /\ phase' \in {"lowering", "error"}
    BY <1>1, <2>1 DEF LowerDirective
  <2> DEFINE more == applyDirective(file, file.slots[s], body)
             old == directives
             new == directives'
  <2>3. Lowers(more, file, file.slots[s])
    BY <1>0, BodiesAssumption, DirectiveLowering
  <2>4. /\ Len(new) = Len(old) + 1 /\ Len(old) \in Nat
        /\ \A x \in 1 .. Len(old) : x \in 1 .. Len(new) /\ new[x] = old[x]
        /\ Len(new) \in 1 .. Len(new) /\ new[Len(new)].slot = s
    BY <1>0, <2>1
  <2>5. \A x \in 1 .. Len(old) : old[x].slot \in DOMAIN file.slots /\ old[x].slot < s
    <3> SUFFICES ASSUME NEW x \in 1 .. Len(old)
                 PROVE  old[x].slot \in DOMAIN file.slots /\ old[x].slot < s
      OBVIOUS
    <3>1. old[x] \in ToSet(directives) /\ old[x] \in [slot : DOMAIN file.slots, body : Bodies]
      <4> DEFINE D == [slot : DOMAIN file.slots, body : Bodies]
      <4>1. directives \in Seq(D)
        BY <1>0
      <4> HIDE DEF D
      <4>2. old[x] \in D /\ old[x] \in ToSet(directives)
        BY <4>1 DEF ToSet
      <4> QED
        BY <4>2 DEF D
    <3>2. old[x].slot < s
      BY <2>1, <3>1
    <3>3. old[x].slot \in DOMAIN file.slots
      BY <3>1
    <3> QED
      BY <3>2, <3>3
  <2>6. \A k \in 1 .. Len(edits) : \E x \in 1 .. Len(old) :
           edits[k] \in Asked(file, file.slots[old[x].slot])
    BY DEF PInv
  <2>7. \A k \in 1 .. Len(edits) : \E t \in DOMAIN file.slots :
           t < s /\ edits[k] \in Asked(file, file.slots[t])
    BY <2>5, <2>6
  <2> HIDE DEF more
  <2>8. /\ InOrder(edits')
        /\ \A k \in 1 .. Len(edits') :
              \/ k \in 1 .. Len(edits) /\ edits'[k] = edits[k]
              \/ edits'[k] \in Asked(file, file.slots[s])
    <3>1. CASE more = Error
      BY <2>1, <3>1 DEF PInv, more
    <3>2. CASE more # Error
      <4>1. edits' = edits \o more /\ more \in Seq(EditsIn(file.size))
        BY <2>1, <2>3, <3>2, LoweringIsOfFile DEF more
      <4>2. /\ InOrder(edits \o more)
            /\ \A k \in 1 .. Len(edits \o more) :
                  k \in 1 .. Len(edits) \/ (edits \o more)[k] \in Asked(file, file.slots[s])
        BY <1>0, <2>3, <2>7, <3>2, OrderKept DEF PInv
      <4>3. \A k \in 1 .. Len(edits) : (edits \o more)[k] = edits[k]
        BY <1>0, <4>1
      <4> QED
        BY <4>1, <4>2, <4>3
    <3> QED
      BY <3>1, <3>2
  <2>9. ASSUME NEW k \in 1 .. Len(edits')
        PROVE  \E x \in 1 .. Len(new) : edits'[k] \in Asked(file, file.slots[new[x].slot])
    <3>1. CASE k \in 1 .. Len(edits) /\ edits'[k] = edits[k]
      <4>1. PICK x \in 1 .. Len(old) : edits[k] \in Asked(file, file.slots[old[x].slot])
        BY <2>6, <3>1
      <4> HIDE DEF old, new
      <4> QED
        BY <2>4, <3>1, <4>1
    <3>2. CASE edits'[k] \in Asked(file, file.slots[s])
      <4> HIDE DEF old, new
      <4> QED
        BY <2>4, <3>2
    <3> QED
      BY <2>8, <3>1, <3>2
  <2> QED
    BY <2>2, <2>8, <2>9 DEF PInv
<1> DEFINE Same == UNCHANGED <<file, directives, edits>>
<1>2. ASSUME Same
      PROVE  /\ Descending' = Descending /\ Back' = Back /\ Grown(Descending)' = Grown(Descending)
             /\ InOrder(edits)' /\ file' = file
             /\ \A k \in 1 .. Len(edits') : \E x \in 1 .. Len(directives') :
                   edits'[k] \in Asked(file', file'.slots[directives'[x].slot])
  <2>1. file' = file /\ directives' = directives /\ edits' = edits
    BY <1>2
  <2>2. Descending' = Descending
    BY <2>1 DEF Descending, SliceStable
  <2>3. Back' = Back
    BY <2>1, <2>2 DEF Back
  <2>4. Grown(Descending)' = Grown(Descending)
    BY <2>1, <2>2 DEF Grown, IsGrown, Growth
  <2> QED
    BY <2>1, <2>2, <2>3, <2>4 DEF PInv
<1>3. CASE StartEdits
  <2>1. /\ Same /\ UNCHANGED <<applied, out>> /\ phase' = "editing"
        /\ applied = 0 /\ out = Untouched
    BY <1>3 DEF StartEdits, TInv
  <2>2. out = [i \in 1 .. file.size |-> ToSource(i - 1)] /\ Len(out) = file.size
    BY <1>0, <2>1 DEF Untouched
  <2>3. Located(out, file.size, Descending, Back, Grown(Descending), 0, file.size)
    BY <1>0, <2>2, BackIs, NothingPlaced
  <2> HIDE DEF Same
  <2> QED
    BY <1>2, <2>1, <2>2, <2>3 DEF PInv
<1>4. CASE ApplyEdit
  <2> DEFINE k == Descending[applied + 1]
  <2>1. Same /\ phase = "editing" /\ applied < Len(edits)
    BY <1>4 DEF ApplyEdit
  <2>2. CASE Applicable(edits[k])
    <3>1. out' = Spliced(out, edits, k) /\ applied' = applied + 1
      BY <1>4, <2>2 DEF ApplyEdit, Splice, NewText, Spliced, CutIn, Piece
    <3>2. Located(Spliced(out, edits, k), Len(Spliced(out, edits, k)), Descending, Back,
                  Grown(Descending), applied + 1, file.size)
      BY <2>1, <2>2, OneMorePlaced
    <3> HIDE DEF k, Same
    <3> QED
      BY <1>2, <2>1, <3>1, <3>2 DEF PInv
  <2>3. CASE ~Applicable(edits[k])
    <3>1. phase' = "error"
      BY <1>4, <2>3 DEF ApplyEdit
    <3> HIDE DEF Same
    <3> QED
      BY <1>2, <2>1, <3>1 DEF PInv
  <2> QED
    BY <2>2, <2>3
<1>5. CASE Finish
  <2>1. Same /\ UNCHANGED <<applied, out>> /\ phase = "editing"
    BY <1>5 DEF Finish
  <2> HIDE DEF Same
  <2> QED
    BY <1>2, <2>1 DEF PInv
<1>6. CASE UNCHANGED vars
  <2>1. Same /\ UNCHANGED <<applied, out, phase>>
    BY <1>6 DEF vars
  <2> HIDE DEF Same
  <2> QED
    BY <1>2, <2>1 DEF PInv
<1> QED
  BY <1>1, <1>3, <1>4, <1>5, <1>6 DEF Next

\* Edits that start together, when all have been accepted, are the same insertion.
LEMMA SameStartSameEdit ==
    ASSUME TInv, PInv, phase = "lowered", applied = Len(edits),
           NEW j \in 1 .. Len(edits), NEW k \in 1 .. Len(edits), edits[j].start = edits[k].start
    PROVE  edits[j].end = edits[k].end /\ edits[j].len = edits[k].len
<1> DEFINE N == Len(edits)
           r == Back
           d == Descending
           t == Grown(Descending)
<1>1. N \in Nat /\ file.size \in Nat /\ edits \in Seq(EditsIn(file.size))
  BY DEF TInv
<1>2. \A x \in 1 .. N : edits[x].start \in Nat /\ edits[x].end \in Nat /\ edits[x].start <= edits[x].end
  <2> SUFFICES ASSUME NEW x \in 1 .. N
               PROVE  edits[x].start \in Nat /\ edits[x].end \in Nat /\ edits[x].start <= edits[x].end
    OBVIOUS
  <2>1. edits[x] \in EditsIn(file.size)
    BY <1>1
  <2> QED
    BY <2>1 DEF EditsIn
<1>3. ASSUME NEW x \in 1 .. N, NEW y \in 1 .. N, x < y, edits[x].start = edits[y].start
      PROVE  edits[y].end = edits[y].start /\ edits[x].end = edits[x].start
  <2>1. /\ d \in [1 .. N -> 1 .. N]
        /\ \A i \in 1 .. N : \E m \in 1 .. N : d[m] = i
        /\ \A u, v \in 1 .. N : u < v /\ edits[d[v]].start = edits[d[u]].start => d[u] < d[v]
    BY <1>1, DescendingIs
  <2>2. PICK u \in 1 .. N : d[u] = x
    BY <2>1
  <2>3. PICK v \in 1 .. N : d[v] = y
    BY <2>1
  <2> HIDE DEF d, N
  <2>4. u < v
    <3>1. ASSUME v < u PROVE FALSE
      <4>1. d[v] < d[u]
        BY <1>3, <2>1, <2>2, <2>3, <3>1
      <4> QED
        BY <1>1, <1>3, <2>2, <2>3, <4>1
    <3>2. u # v
      BY <1>1, <1>3, <2>2, <2>3
    <3> QED
      BY <1>1, <3>1, <3>2
  <2>5. r[v].end <= r[u].start
    <3>1. Located(out, Len(out), d, r, t, N, file.size)
      BY DEF PInv, d, N
    <3> QED
      BY <2>4, <3>1 DEF Located
  <2>6. r[u] = edits[x] /\ r[v] = edits[y]
    BY <2>2, <2>3, BackIs DEF d, N
  <2>7. edits[y].end = edits[y].start
    BY <1>2, <1>3, <2>5, <2>6
  <2>8. edits[x].end = edits[x].start
    BY <1>3, <2>7 DEF PInv, InOrder, N
  <2> QED
    BY <2>7, <2>8
<1>4. ASSUME NEW x \in 1 .. N, edits[x].end = edits[x].start PROVE edits[x].len = 2
  <2>1. PICK s : edits[x] \in Asked(file, s)
    BY DEF PInv
  <2>2. edits[x] \notin ReplacementsAt(file, s)
    BY <1>2, <1>4 DEF ReplacementsAt
  <2> QED
    BY <2>1, <2>2 DEF Asked, InsertionsAt
<1>5. CASE j = k
  BY <1>5
<1>6. CASE j # k
  <2>1. edits[j].end = edits[j].start /\ edits[k].end = edits[k].start
    <3>1. j < k \/ k < j
      BY <1>6
    <3> QED
      BY <1>3, <3>1
  <2> QED
    BY <1>4, <2>1
<1> QED
  BY <1>5, <1>6

\* The edits from the front, seen from the back.
LEMMA FrontMirrorsBack ==
    ASSUME TInv, PInv, phase = "lowered", applied = Len(edits)
    PROVE  /\ Ascending \in [1 .. Len(edits) -> 1 .. Len(edits)]
           /\ Mirrors([x \in 1 .. Len(edits) |-> edits[Ascending[x]]],
                      [x \in 1 .. Len(edits) + 1 |-> Delta(Ascending, x)],
                      Back, Grown(Descending), Len(edits))
<1> DEFINE N == Len(edits)
           a == Ascending
           d == Descending
           r == Back
           t == Grown(Descending)
           h == Grown(Ascending)
           u == [k \in 1 .. N |-> edits[k].start]
           q == [x \in 1 .. N |-> edits[a[x]]]
           s == [x \in 1 .. N + 1 |-> Delta(a, x)]
<1>1. N \in Nat /\ file.size \in Nat /\ edits \in Seq(EditsIn(file.size))
  BY DEF TInv
<1>2. \A k \in 1 .. N : u[k] = edits[k].start /\ u[k] \in Nat
  <2> SUFFICES ASSUME NEW k \in 1 .. N PROVE edits[k].start \in Nat
    OBVIOUS
  <2>1. edits[k] \in EditsIn(file.size)
    BY <1>1
  <2> QED
    BY <2>1 DEF EditsIn
<1>3. a \in [1 .. N -> 1 .. N] /\ Rises(a, u, N)
  <2>1. a \in [1 .. N -> 1 .. N]
    BY <1>1, AscendingIs
  <2>2. ASSUME NEW x \in 1 .. N, NEW y \in 1 .. N, x < y PROVE a[x] # a[y] /\ u[a[x]] <= u[a[y]]
    <3>1. a[x] \in 1 .. N /\ a[y] \in 1 .. N /\ a[x] # a[y] /\ edits[a[x]].start <= edits[a[y]].start
      BY <1>1, <2>1, <2>2, AscendingIs
    <3> QED
      BY <1>2, <3>1
  <2> QED
    BY <2>1, <2>2 DEF Rises
<1>4. Falls(d, u, N) /\ Arranges(d, u, N)
  <2>1. d \in [1 .. N -> 1 .. N] /\ \A k \in 1 .. N : \E m \in 1 .. N : d[m] = k
    BY <1>1, DescendingIs
  <2>2. ASSUME NEW x \in 1 .. N, NEW y \in 1 .. N, x < y PROVE d[x] # d[y] /\ u[d[y]] <= u[d[x]]
    <3>1. d[x] \in 1 .. N /\ d[y] \in 1 .. N /\ d[x] # d[y] /\ edits[d[y]].start <= edits[d[x]].start
      BY <1>1, <2>1, <2>2, DescendingIs
    <3> QED
      BY <1>2, <3>1
  <2>3. \A x \in 1 .. N : d[x] \in 1 .. N /\ u[d[x]] \in Nat
    BY <1>2, <2>1
  <2> QED
    BY <2>1, <2>2, <2>3 DEF Falls, Arranges
<1>5. Arranges(a, u, N)
  <2>1. \A x \in 1 .. N : a[x] \in 1 .. N /\ u[a[x]] \in Nat
    BY <1>2, <1>3
  <2>2. \A k \in 1 .. N : \E m \in 1 .. N : a[m] = k
    BY <1>1, SliceStableIs DEF Ascending
  <2> QED
    BY <2>1, <2>2 DEF Arranges
<1>6. \A x \in 1 .. N : d[x] \in 1 .. N /\ r[x] = edits[d[x]]
  BY BackIs
<1>7. \A x \in 1 .. N : q[x] = edits[a[x]] /\ a[x] \in 1 .. N
  BY <1>3
<1>8. \A x \in 1 .. N + 1 : s[x] = h[x - 1]
  BY <1>1, <1>3, DeltaIs
<1>9. h[0] = 0 /\ \A i \in 1 .. N : h[i] = h[i - 1] + Growth(a[i])
  BY <1>1, <1>3, DeltaIs
<1>10. Measured(r, t, N) /\ \A x \in 1 .. N : t[x] = t[x - 1] + (r[x].len - (r[x].end - r[x].start))
  BY BackIs
<1> HIDE DEF u, q, s, a, d, r, t, h, N
<1>11. ASSUME NEW x \in 1 .. N, NEW y \in 1 .. N, y = N + 1 - x
       PROVE  q[x].start = r[y].start /\ q[x].end = r[y].end /\ q[x].len = r[y].len
  <2>0. N \in Nat /\ Rises(a, u, N)
    BY <1>1, <1>3
  <2>1. u[a[x]] = u[d[y]]
    <3>1. N \in Nat /\ Arranges(a, u, N) /\ Arranges(d, u, N) /\ Rises(a, u, N) /\ Falls(d, u, N)
      BY <1>4, <1>5, <2>0
    <3> QED
      <4>1. x \in 1 .. N /\ y \in 1 .. N /\ y = N + 1 - x
        BY <1>11
      <4> QED
        BY <3>1, <4>1, Reversal
  <2>2. edits[a[x]].start = edits[d[y]].start /\ a[x] \in 1 .. N /\ d[y] \in 1 .. N
    BY <1>2, <1>6, <1>7, <2>1
  <2>3. edits[a[x]].end = edits[d[y]].end /\ edits[a[x]].len = edits[d[y]].len
    BY <2>2, SameStartSameEdit DEF N
  <2> QED
    BY <1>6, <1>7, <2>2, <2>3
<1> DEFINE T == {i \in Nat : i <= N => h[i] = t[N] - t[N - i]}
<1>12. 0 \in T
  <2>1. t[N] \in Int /\ N - 0 = N
    BY <1>1, <1>10 DEF Measured
  <2> QED
    BY <1>9, <2>1
<1>13. ASSUME NEW i \in T PROVE i + 1 \in T
  <2> SUFFICES ASSUME i + 1 <= N PROVE h[i + 1] = t[N] - t[N - (i + 1)]
    BY <1>13
  <2> DEFINE x == i + 1
             y == N - i
  <2>1. /\ x \in 1 .. N /\ y \in 1 .. N /\ y = N + 1 - x /\ x - 1 = i /\ y - 1 = N - (i + 1)
        /\ N - i \in 0 .. N /\ y - 1 \in 0 .. N /\ N \in 0 .. N
    BY <1>1
  <2>2. h[i] = t[N] - t[y]
    BY <1>1, <1>13
  <2> HIDE DEF x, y
  <2>3. h[x] = h[i] + Growth(a[x])
    BY <1>9, <2>1
  <2>4. Growth(a[x]) = r[y].len - (r[y].end - r[y].start)
    <3>1. q[x] = edits[a[x]]
      BY <1>7, <2>1
    <3>2. q[x].start = r[y].start /\ q[x].end = r[y].end /\ q[x].len = r[y].len
      BY <1>11, <2>1
    <3> QED
      BY <3>1, <3>2 DEF Growth
  <2>5. t[y] = t[y - 1] + (r[y].len - (r[y].end - r[y].start))
    BY <1>10, <2>1
  <2>6. /\ t[y] \in Int /\ t[y - 1] \in Int /\ t[N] \in Int
        /\ r[y].len \in Nat /\ r[y].end \in Nat /\ r[y].start \in Nat
    <3>1. y \in 0 .. N /\ y - 1 \in 0 .. N /\ N \in 0 .. N /\ y \in 1 .. N
      BY <2>1
    <3>2. \A z \in 0 .. N : t[z] \in Int
      BY <1>10 DEF Measured
    <3>3. r[y].len \in Nat /\ r[y].end \in Nat /\ r[y].start \in Nat
      BY <1>10, <3>1 DEF Measured
    <3> QED
      BY <3>1, <3>2, <3>3
  <2>7. h[x] = t[N] - t[y - 1]
    <3> DEFINE tN == t[N]
               ty == t[y]
               tz == t[y - 1]
               gr == r[y].len - (r[y].end - r[y].start)
    <3>1. tN \in Int /\ ty \in Int /\ tz \in Int /\ gr \in Int
      BY <2>6
    <3>2. h[x] = (tN - ty) + gr /\ ty = tz + gr
      BY <2>2, <2>3, <2>4, <2>5
    <3> HIDE DEF tN, ty, tz, gr
    <3>3. h[x] = tN - tz
      BY <3>1, <3>2
    <3> QED
      BY <3>3 DEF tN, tz
  <2> QED
    BY <2>1, <2>7 DEF x
<1> HIDE DEF T
<1>14. T \in SUBSET Nat
  BY DEF T
<1>15. T = Nat
  BY <1>12, <1>13, <1>14, AllNumbers
<1>16. \A i \in 0 .. N : h[i] = t[N] - t[N - i]
  <2>1. \A i \in 0 .. N : i \in T /\ i <= N
    BY <1>1, <1>15
  <2> QED
    BY <2>1 DEF T
<1>17. s[N + 1] = t[N]
  <2>1. N + 1 \in 1 .. N + 1 /\ (N + 1) - 1 = N /\ N \in 0 .. N /\ N - N = 0 /\ 0 \in 0 .. N
    BY <1>1
  <2>2. t[0] = 0 /\ t[N] \in Int
    BY <1>10, <2>1, BackIs DEF t, Measured
  <2>3. s[N + 1] = t[N] - t[0]
    BY <1>8, <1>16, <2>1
  <2> QED
    BY <2>2, <2>3
<1>18. ASSUME NEW x \in 1 .. N PROVE s[x] = t[N] - t[N + 1 - x]
  <2>1. x \in 1 .. N + 1 /\ x - 1 \in 0 .. N /\ N - (x - 1) = N + 1 - x
    BY <1>1
  <2> QED
    BY <1>8, <1>16, <2>1
<1>19. ASSUME NEW x \in 1 .. N PROVE N + 1 - x \in 1 .. N
  BY <1>1
<1>20. Mirrors(q, s, r, t, N)
  BY <1>11, <1>17, <1>18, <1>19 DEF Mirrors
<1> QED
  BY <1>3, <1>20 DEF q, s, r, t, N, a

\* Where an offset of the lowered text comes from, when c edits end behind it.
LEMMA OriginIs ==
    ASSUME TInv, PInv, phase = "lowered", applied = Len(edits),
           NEW o \in Int, NEW c \in 0 .. Len(edits),
           EndsBehind(Back, Grown(Descending), Len(edits), o, c)
    PROVE  LET r == Back
               t == Grown(Descending)
               N == Len(edits)
               p == originalOffsetForGeneratedOffset(o)
           IN  /\ c = 0 \/ o < Pos(r, t, N, c) => p = o - (t[N] - t[c])
               /\ c # 0 /\ Pos(r, t, N, c) <= o =>
                     p = r[c].start + Min({o - Pos(r, t, N, c), r[c].end - r[c].start})
<1> DEFINE r == Back
           t == Grown(Descending)
           N == Len(edits)
           a == Ascending
           q == [x \in 1 .. N |-> edits[a[x]]]
           s == [x \in 1 .. N + 1 |-> Delta(a, x)]
           B == NotInFront(q, s, N, o)
           y == N + 1 - c
           Start(n) == edits[a[n]].start + Delta(a, n)
           first == IF B = {} THEN Len(a) + 1 ELSE Min(B)
           edit == edits[a[first]]
           p == originalOffsetForGeneratedOffset(o)
<1>1. N \in Nat
  BY DEF TInv
<1>2. a \in [1 .. N -> 1 .. N] /\ Mirrors(q, s, r, t, N) /\ Measured(r, t, N) /\ t[0] = 0
  BY FrontMirrorsBack, BackIs
<1>3. /\ Len(a) = N /\ DOMAIN a = 1 .. N
      /\ \A x \in 1 .. N : q[x] = edits[a[x]]
      /\ \A x \in 1 .. N + 1 : s[x] = Delta(a, x)
      /\ \A x \in 1 .. N : s[x] = Delta(a, x)
  BY <1>1, <1>2
<1>4. {n \in DOMAIN a : o < Start(n) + edits[a[n]].len} = B
  <2>1. \A x \in 1 .. N : q[x].start + s[x] = Start(x) /\ q[x].len = edits[a[x]].len
    BY <1>3
  <2> HIDE DEF q, s, a, Start
  <2> QED
    BY <1>3, <2>1 DEF NotInFront
<1>5. p = IF B = {} \/ o < Start(first) THEN o - Delta(a, first)
          ELSE edit.start + Min({o - Start(first), edit.end - edit.start})
  <2> HIDE DEF B
  <2> QED
    BY <1>4 DEF originalOffsetForGeneratedOffset
<1>6. /\ c = 0 => B = {}
      /\ c # 0 => /\ B # {} /\ Min(B) = N + 1 - c
                  /\ q[N + 1 - c].start + s[N + 1 - c] = Pos(r, t, N, c)
                  /\ s[N + 1 - c] = t[N] - t[c]
                  /\ q[N + 1 - c].start = r[c].start /\ q[N + 1 - c].end = r[c].end
  <2> HIDE DEF q, s, r, t, N
  <2>1. EndsBehind(r, t, N, o, c) /\ c \in 0 .. N
    BY DEF r, t, N
  <2> QED
    BY <1>1, <1>2, <2>1, FirstBehind DEF B
<1>7. CASE c = 0
  <2>1. p = o - Delta(a, N + 1)
    <3> HIDE DEF a, B, p
    <3> QED
      BY <1>3, <1>5, <1>6, <1>7
  <2>2. Delta(a, N + 1) = t[N] /\ t[N] \in Int
    <3>1. N + 1 \in 1 .. N + 1 /\ N \in 0 .. N
      BY <1>1
    <3> HIDE DEF a, q, s, r, t, N
    <3> QED
      BY <1>2, <1>3, <3>1 DEF Mirrors, Measured
  <2> HIDE DEF p, t, r, a
  <2>3. p = o - (t[N] - t[c])
    BY <1>2, <1>7, <2>1, <2>2
  <2> QED
    BY <1>7, <2>3 DEF p, t, r
<1>8. CASE c # 0
  <2>1. y \in 1 .. N
    BY <1>1, <1>8
  <2>2. first = y
    <3> HIDE DEF B
    <3> QED
      BY <1>6, <1>8
  <2>3. Start(first) = Pos(r, t, N, c) /\ Delta(a, first) = t[N] - t[c]
    <3>1. q[y].start + s[y] = Pos(r, t, N, c) /\ s[y] = t[N] - t[c]
      BY <1>6, <1>8
    <3>2. q[y] = edits[a[y]] /\ s[y] = Delta(a, y)
      BY <1>3, <2>1
    <3> HIDE DEF q, s, r, t, a, first, y
    <3> QED
      BY <2>2, <3>1, <3>2
  <2>4. edit.start = r[c].start /\ edit.end = r[c].end
    <3>1. q[y].start = r[c].start /\ q[y].end = r[c].end
      BY <1>6, <1>8
    <3>2. q[y] = edits[a[y]]
      BY <1>3, <2>1
    <3> HIDE DEF q, r, a, first, y
    <3> QED
      BY <2>2, <3>1, <3>2
  <2>5. B # {}
    BY <1>6, <1>8
  <2>6. Pos(r, t, N, c) \in Int
    <3>1. c \in 1 .. N /\ c \in 0 .. N /\ N \in 0 .. N
      BY <1>1, <1>8
    <3> HIDE DEF r, t, N
    <3> QED
      BY <1>2, <3>1 DEF Measured, Pos
  <2> HIDE DEF B, Start, first, edit, p, r, t, N, a
  <2>7. o < Pos(r, t, N, c) => p = o - (t[N] - t[c])
    BY <1>5, <2>3
  <2>8. Pos(r, t, N, c) <= o => p = r[c].start + Min({o - Pos(r, t, N, c), r[c].end - r[c].start})
    <3>1. ASSUME Pos(r, t, N, c) <= o
          PROVE  p = r[c].start + Min({o - Pos(r, t, N, c), r[c].end - r[c].start})
      <4>1. ~(o < Pos(r, t, N, c))
        BY <2>6, <3>1
      <4> QED
        BY <1>5, <2>3, <2>4, <2>5, <4>1
    <3> QED
      BY <3>1
  <2> QED
    BY <1>8, <2>7, <2>8 DEF p, r, t, N
<1> QED
  BY <1>7, <1>8

\* What has been shown of the edits and the bytes gives the places back.
LEMMA PlacedMapsBack == TInv /\ EInv /\ PInv => PlacesMapBack
<1> SUFFICES ASSUME TInv, EInv, PInv, phase = "lowered"
             PROVE  /\ \A i \in Bytes :
                          LET p == originalOffsetForGeneratedOffset(i - 1)
                          IN  IF IsNew(i)
                              THEN edits[out[i].edit].start <= p /\ p <= edits[out[i].edit].end
                              ELSE p = out[i].at
                    /\ originalOffsetForGeneratedOffset(Len(out)) = file.size
  BY DEF PlacesMapBack
<1> DEFINE r == Back
           t == Grown(Descending)
           d == Descending
           N == Len(edits)
           n == Len(out)
           size == file.size
           Origin(o) == originalOffsetForGeneratedOffset(o)
<1>1. applied = N /\ N \in Nat /\ n \in Nat /\ size \in Nat
  BY DEF TInv, EInv
<1>2. Located(out, n, d, r, t, N, size)
  BY <1>1 DEF PInv
<1>3. /\ Measured(r, t, N) /\ t[0] = 0
      /\ \A x \in 1 .. N : /\ d[x] \in 1 .. N /\ r[x] = edits[d[x]] /\ r[x] \in EditsIn(size)
                           /\ t[x] = t[x - 1] + (r[x].len - (r[x].end - r[x].start))
  BY BackIs
<1>4. /\ \A x \in 1 .. N : r[x].start \in Nat /\ r[x].end \in Nat /\ r[x].len \in Nat
      /\ \A x \in 1 .. N : r[x].start <= r[x].end /\ r[x].end <= size
      /\ \A x \in 0 .. N : t[x] \in Int
  BY <1>3 DEF Measured, EditsIn
<1>5. ASSUME NEW o \in Int, NEW c \in 0 .. N, EndsBehind(r, t, N, o, c)
      PROVE  /\ c = 0 \/ o < Pos(r, t, N, c) => Origin(o) = o - (t[N] - t[c])
             /\ c # 0 /\ Pos(r, t, N, c) <= o =>
                   Origin(o) = r[c].start + Min({o - Pos(r, t, N, c), r[c].end - r[c].start})
  BY <1>1, <1>5, OriginIs
<1>6. \A i \in 1 .. n : /\ out[i].edit \in Nat /\ out[i].at \in Nat
                        /\ out[i].edit # 0 => out[i].at \in 1 .. edits[out[i].edit].len
  <2> SUFFICES ASSUME NEW i \in 1 .. n
               PROVE  /\ out[i].edit \in Nat /\ out[i].at \in Nat
                      /\ out[i].edit # 0 => out[i].at \in 1 .. edits[out[i].edit].len
    OBVIOUS
  <2> DEFINE S == ByteOf(edits, size)
  <2>1. out \in Seq(S)
    BY DEF TInv
  <2> HIDE DEF S
  <2>2. out[i] \in S
    BY <2>1
  <2> QED
    BY <2>2 DEF S, ByteOf
<1> HIDE DEF r, t, d, N, n, size, Origin
<1>7. Apart(r, t, N)
  BY <1>2, <1>3 DEF Located, Apart
<1>8. N \in 0 .. N /\ t[N] \in Int
  BY <1>1, <1>4
<1>9. ASSUME NEW i \in 1 .. n, out[i].edit = 0 PROVE Origin(i - 1) = out[i].at
  <2> DEFINE p == out[i].at
             o == i - 1
  <2>1. PICK c \in 0 .. N : /\ o = p + t[N] - t[c]
                            /\ \A x \in 1 .. c : p < r[x].start
                            /\ \A x \in c + 1 .. N : r[x].end <= p
    BY <1>2, <1>9 DEF Located
  <2>2. p \in Nat /\ o \in Int
    BY <1>1, <1>6
  <2> HIDE DEF p, o
  <2>3. EndsBehind(r, t, N, o, c) /\ (c # 0 => o < Pos(r, t, N, c))
    BY <1>1, <1>3, <1>7, <2>1, <2>2, ByteBetween
  <2>4. Origin(o) = o - (t[N] - t[c])
    BY <1>5, <2>2, <2>3
  <2>5. t[c] \in Int
    BY <1>4
  <2>6. Origin(o) = p
    BY <1>8, <2>1, <2>2, <2>4, <2>5
  <2> QED
    BY <2>6 DEF p, o
<1>10. ASSUME NEW i \in 1 .. n, out[i].edit # 0
       PROVE  edits[out[i].edit].start <= Origin(i - 1) /\ Origin(i - 1) <= edits[out[i].edit].end
  <2> DEFINE o == i - 1
  <2>1. PICK x \in 1 .. N : d[x] = out[i].edit /\ i = r[x].start + t[N] - t[x] + out[i].at
    BY <1>2, <1>10 DEF Located
  <2>2. /\ r[x] = edits[out[i].edit] /\ out[i].at \in 1 .. r[x].len /\ out[i].at \in Nat
        /\ t[x] \in Int /\ r[x].start \in Nat /\ r[x].end \in Nat /\ r[x].len \in Nat
        /\ r[x].start <= r[x].end /\ x \in 0 .. N /\ x # 0
    BY <1>3, <1>4, <1>6, <1>10, <2>1
  <2>3. /\ o \in Int /\ Pos(r, t, N, x) \in Int
        /\ Pos(r, t, N, x) <= o /\ o < Pos(r, t, N, x) + r[x].len
    BY <1>1, <1>8, <2>1, <2>2 DEF Pos
  <2>4. ASSUME NEW z \in x + 1 .. N PROVE Pos(r, t, N, z) + r[z].len <= o
    <3>1. z \in 1 .. N /\ z \in 0 .. N /\ x \in 1 .. N /\ x < z
      OBVIOUS
    <3>2. r[z].start - t[z] + r[z].len <= r[x].start - t[x]
      BY <1>2, <3>1 DEF Located
    <3>3. t[z] \in Int /\ r[z].start \in Nat /\ r[z].len \in Nat
      BY <1>4, <3>1
    <3>4. Pos(r, t, N, z) + r[z].len <= Pos(r, t, N, x) /\ Pos(r, t, N, z) \in Int
      BY <1>8, <2>2, <3>2, <3>3 DEF Pos
    <3> QED
      BY <2>3, <3>3, <3>4
  <2> HIDE DEF o
  <2>5. EndsBehind(r, t, N, o, x)
    BY <2>3, <2>4 DEF EndsBehind
  <2>6. Origin(o) = r[x].start + Min({o - Pos(r, t, N, x), r[x].end - r[x].start})
    BY <1>5, <2>2, <2>3, <2>5
  <2> DEFINE u == o - Pos(r, t, N, x)
             v == r[x].end - r[x].start
             w == Min({u, v})
  <2>7. u \in Nat /\ v \in Nat
    BY <2>2, <2>3
  <2>8. w \in Nat /\ w <= v
    <3> HIDE DEF u, v
    <3>1. \E m \in {u, v} : \A k \in {u, v} : m <= k
      BY <2>7
    <3>2. w \in {u, v} /\ \A k \in {u, v} : w <= k
      BY <3>1 DEF Min
    <3> QED
      BY <2>7, <3>2
  <2> HIDE DEF w
  <2>9. r[x].start <= r[x].start + w /\ r[x].start + w <= r[x].end
    BY <2>2, <2>8
  <2>10. Origin(o) = r[x].start + w
    BY <2>6 DEF w
  <2>11. r[x].start <= Origin(o) /\ Origin(o) <= r[x].end
    BY <2>9, <2>10
  <2> QED
    BY <2>2, <2>11 DEF o
<1>11. Origin(n) = size
  <2>1. n = size + t[N] - t[0] /\ n \in Int /\ 0 \in 0 .. N
    BY <1>1, <1>2, <1>3, <1>8 DEF Located
  <2>2. \A x \in 1 .. 0 : size < r[x].start
    OBVIOUS
  <2>3. \A x \in 0 + 1 .. N : r[x].end <= size
    BY <1>4
  <2>4. EndsBehind(r, t, N, n, 0)
    BY <1>1, <1>3, <1>7, <2>1, <2>2, <2>3, ByteBetween
  <2>5. Origin(n) = n - (t[N] - t[0])
    BY <1>5, <2>1, <2>4
  <2> QED
    BY <1>1, <1>3, <1>8, <2>1, <2>5
<1>12. ASSUME NEW i \in Bytes
       PROVE  LET p == originalOffsetForGeneratedOffset(i - 1)
              IN  IF IsNew(i) THEN edits[out[i].edit].start <= p /\ p <= edits[out[i].edit].end
                  ELSE p = out[i].at
  <2>1. i \in 1 .. n
    BY DEF Bytes, n, TInv
  <2> QED
    BY <1>9, <1>10, <2>1 DEF IsNew, Origin
<1> QED
  BY <1>11, <1>12 DEF Origin, n, size

\* A place in the lowered text that no edit made is where the file has the same
\* byte, a place in the text of an edit is within what the edit stands for, and
\* the end is the end: what originalOffsetForGeneratedOffset (comment_mirror.go)
\* finds by adding up the edits from the front agrees with what applying them
\* from the back has done.
THEOREM EveryPlaceMapsBack == Spec => []PlacesMapBack
<1>1. Spec => [](TInv /\ EInv /\ PInv)
  <2>1. Init => TInv /\ EInv /\ PInv
    BY InitTypes, InitLaid, InitPlaced
  <2>2. TInv /\ EInv /\ PInv /\ [Next]_vars => (TInv /\ EInv /\ PInv)'
    BY NextTypes, NextLaid, NextPlaced
  <2> QED
    BY <2>1, <2>2, PTL DEF Spec
<1> QED
  BY <1>1, PlacedMapsBack, PTL
=============================================================================
