------------------------- MODULE PropagationProofs -------------------------
(***************************************************************************)
(* What propagation writes, for every graph of sites.  The component of a  *)
(* site is the least closed set around it, so the plan is what the implied *)
(* sets ask for.  A completed run leaves nothing implied and missing, no   *)
(* step makes the stamps of an implied set differ, and a run that          *)
(* completes after interruptions ends as a single run would have.          *)
(***************************************************************************)
EXTENDS AnnotationPropagation, FiniteSetTheorems, WellFoundedInduction, TLAPS

\* A set of numbers that is not empty has a least one.  Every induction below is
\* on a least counterexample.
LEMMA Least ==
    ASSUME NEW T \in SUBSET Nat, T # {}
    PROVE  \E m \in T : \A k \in T : m <= k
<1>1. \E m \in T : \A k \in T : ~(<<k, m>> \in OpToRel(<, Nat))
  BY NatLessThanWellFounded, WFMin, Zenon
<1>2. PICK m \in T : \A k \in T : ~(<<k, m>> \in OpToRel(<, Nat))
  BY <1>1
<1>3. \A k \in T : ~(k < m)
  BY <1>2 DEF OpToRel
<1> QED
  BY <1>3

\* The sites at the end of a walk of n edges, some of which may be left out.
Walks(n, s) == {w \in [0 .. n -> Sites] :
                  /\ w[0] = s
                  /\ \A i \in 1 .. n : w[i] = w[i - 1] \/ w[i] \in Neighbours(w[i - 1])}
Ball(n, s) == {w[n] : w \in Walks(n, s)}

\* One edge more.
LEMMA BallGrows ==
    ASSUME NEW n \in Nat, NEW s \in Sites
    PROVE  Ball(n + 1, s) = Ball(n, s) \cup UNION {Neighbours(t) : t \in Ball(n, s)}
<1>1. ASSUME NEW t \in Ball(n + 1, s)
      PROVE  t \in Ball(n, s) \/ \E u \in Ball(n, s) : t \in Neighbours(u)
  <2>1. PICK w \in Walks(n + 1, s) : t = w[n + 1]
    BY <1>1 DEF Ball
  <2> DEFINE v == [i \in 0 .. n |-> w[i]]
  <2>2. v \in Walks(n, s)
    BY DEF Walks
  <2>3. v[n] \in Ball(n, s) /\ v[n] = w[n]
    BY <2>2 DEF Ball
  <2>4. w[n + 1] = w[n] \/ w[n + 1] \in Neighbours(w[n])
    <3>1. n + 1 \in 1 .. n + 1 /\ (n + 1) - 1 = n
      OBVIOUS
    <3> QED
      BY <2>1, <3>1, Zenon DEF Walks
  <2> QED
    BY <2>1, <2>3, <2>4
<1>2. ASSUME NEW u \in Ball(n, s), NEW t \in Sites, t = u \/ t \in Neighbours(u)
      PROVE  t \in Ball(n + 1, s)
  <2>1. PICK w \in Walks(n, s) : u = w[n]
    BY <1>2 DEF Ball
  <2> DEFINE v == [i \in 0 .. n + 1 |-> IF i = n + 1 THEN t ELSE w[i]]
  <2>2. v \in [0 .. n + 1 -> Sites] /\ v[0] = s
    BY <2>1 DEF Walks
  <2>3. ASSUME NEW i \in 1 .. n + 1
        PROVE  v[i] = v[i - 1] \/ v[i] \in Neighbours(v[i - 1])
    <3>1. CASE i = n + 1
      BY <1>2, <2>1, <3>1
    <3>2. CASE i # n + 1
      <4>1. v[i] = w[i] /\ v[i - 1] = w[i - 1] /\ i \in 1 .. n
        BY <3>2
      <4> QED
        BY <2>1, <4>1, Zenon DEF Walks
    <3> QED
      BY <3>1, <3>2
  <2>4. v \in Walks(n + 1, s) /\ v[n + 1] = t
    BY <2>2, <2>3 DEF Walks
  <2> QED
    BY <2>4 DEF Ball
<1>3. Ball(n, s) \subseteq Sites /\ \A u \in Sites : Neighbours(u) \subseteq Sites
  BY DEF Ball, Walks, Neighbours
<1> QED
  BY <1>1, <1>2, <1>3


\* The recursive definition has a meaning, and so its equation holds.
LEMMA ReachIs ==
    ASSUME NEW s \in Sites
    PROVE  /\ Reach(s)[0] = {s}
           /\ \A n \in Nat : Reach(s)[n + 1] =
                 Reach(s)[n] \cup UNION {Neighbours(t) : t \in Reach(s)[n]}
<1> DEFINE Step(R, m) == IF m = 0 THEN {s}
                         ELSE R[m - 1] \cup UNION {Neighbours(t) : t \in R[m - 1]}
           f == [m \in Nat |-> Ball(m, s)]
<1>1. Ball(0, s) = {s}
  <2>1. \A w \in Walks(0, s) : w[0] = s
    BY DEF Walks
  <2>2. [i \in 0 .. 0 |-> s] \in Walks(0, s)
    BY DEF Walks
  <2>3. [i \in 0 .. 0 |-> s][0] = s
    OBVIOUS
  <2> QED
    BY <2>1, <2>2, <2>3 DEF Ball
<1>2. ASSUME NEW m \in Nat PROVE f[m] = Step(f, m)
  <2>1. CASE m = 0
    BY <1>1, <2>1
  <2>2. CASE m # 0
    <3>1. m - 1 \in Nat /\ (m - 1) + 1 = m
      BY <2>2
    <3>2. Ball((m - 1) + 1, s) =
            Ball(m - 1, s) \cup UNION {Neighbours(t) : t \in Ball(m - 1, s)}
      BY <3>1, BallGrows
    <3>3. f[m] = Ball(m, s) /\ f[m - 1] = Ball(m - 1, s)
      BY <3>1
    <3> HIDE DEF f
    <3> QED
      BY <2>2, <3>1, <3>2, <3>3
  <2> QED
    BY <2>1, <2>2
<1>3. f = [m \in Nat |-> Step(f, m)]
  <2> HIDE DEF Step
  <2> QED
    BY <1>2, Zenon
<1>4. Reach(s) = [m \in Nat |-> Step(Reach(s), m)]
  <2> HIDE DEF f
  <2> QED
    BY <1>3, Zenon DEF Reach
<1>5. \A m \in Nat : Reach(s)[m] = Step(Reach(s), m)
  BY <1>4, Zenon
<1>6. \A n \in Nat : n + 1 \in Nat /\ n + 1 # 0 /\ (n + 1) - 1 = n
  OBVIOUS
<1> QED
  BY <1>5, <1>6
\* Induction on the numbers, from the least one outside of a set.
LEMMA AllNumbers ==
    ASSUME NEW T \in SUBSET Nat, 0 \in T, \A n \in T : n + 1 \in T
    PROVE  T = Nat
<1> SUFFICES ASSUME Nat \ T # {} PROVE FALSE
  OBVIOUS
<1>1. PICK m \in Nat \ T : \A k \in Nat \ T : m <= k
  <2> DEFINE U == Nat \ T
  <2>1. U \in SUBSET Nat /\ U # {}
    OBVIOUS
  <2> HIDE DEF U
  <2>2. \E m \in U : \A k \in U : m <= k
    BY <2>1, Least
  <2> QED
    BY <2>2 DEF U
<1>2. m # 0 /\ m - 1 \in Nat
  BY <1>1
<1>3. m - 1 \in T
  BY <1>1, <1>2
<1>4. (m - 1) + 1 \in T /\ (m - 1) + 1 = m
  BY <1>2, <1>3
<1> QED
  BY <1>1, <1>4

\* What the queue reaches are sites, and it never leaves a closed set.
LEMMA ReachStays ==
    ASSUME NEW s \in Sites, NEW C \in SUBSET Sites, s \in C,
           \A t \in C : Neighbours(t) \subseteq C, NEW n \in Nat
    PROVE  s \in Reach(s)[n] /\ Reach(s)[n] \subseteq C
<1> DEFINE T == {m \in Nat : s \in Reach(s)[m] /\ Reach(s)[m] \subseteq C}
<1>1. 0 \in T
  BY ReachIs
<1>2. ASSUME NEW m \in T PROVE m + 1 \in T
  <2>1. m \in Nat /\ s \in Reach(s)[m] /\ Reach(s)[m] \subseteq C
    OBVIOUS
  <2>2. Reach(s)[m + 1] = Reach(s)[m] \cup UNION {Neighbours(t) : t \in Reach(s)[m]}
    BY <2>1, ReachIs
  <2>3. \A t \in Reach(s)[m] : Neighbours(t) \subseteq C
    BY <2>1
  <2>4. s \in Reach(s)[m + 1] /\ Reach(s)[m + 1] \subseteq C
    BY <2>1, <2>2, <2>3
  <2> QED
    BY <2>1, <2>4
<1>3. T \in SUBSET Nat
  OBVIOUS
<1> HIDE DEF T
<1>4. n \in T
  BY <1>1, <1>2, <1>3, AllNumbers
<1> QED
  BY <1>4 DEF T

\* A round that adds nothing is the last one that adds anything.
LEMMA ReachStops ==
    ASSUME NEW s \in Sites, NEW m \in Nat, Reach(s)[m + 1] = Reach(s)[m], NEW k \in Nat
    PROVE  Reach(s)[m + k] = Reach(s)[m]
<1> DEFINE T == {j \in Nat : Reach(s)[m + j] = Reach(s)[m]}
<1>1. 0 \in T
  OBVIOUS
<1>2. ASSUME NEW j \in T PROVE j + 1 \in T
  <2>1. j \in Nat /\ Reach(s)[m + j] = Reach(s)[m]
    OBVIOUS
  <2>2. /\ m + j \in Nat /\ m + (j + 1) = (m + j) + 1
    BY <2>1
  <2>3. Reach(s)[(m + j) + 1] =
          Reach(s)[m + j] \cup UNION {Neighbours(t) : t \in Reach(s)[m + j]}
    BY <2>2, ReachIs
  <2>4. Reach(s)[m + 1] = Reach(s)[m] \cup UNION {Neighbours(t) : t \in Reach(s)[m]}
    BY ReachIs
  <2>5. Reach(s)[m + (j + 1)] = Reach(s)[m]
    BY <2>1, <2>2, <2>3, <2>4
  <2> QED
    BY <2>1, <2>5
<1>3. T \in SUBSET Nat
  OBVIOUS
<1> HIDE DEF T
<1>4. k \in T
  BY <1>1, <1>2, <1>3, AllNumbers
<1> QED
  BY <1>4 DEF T

\* Each round adds a site until one adds none.
LEMMA ReachGrows ==
    ASSUME NEW s \in Sites, NEW n \in Nat
    PROVE  \/ \E m \in Nat : m < n /\ Reach(s)[m + 1] = Reach(s)[m]
           \/ Cardinality(Reach(s)[n]) >= n + 1
<1> DEFINE Stopped(k) == \E m \in Nat : m < k /\ Reach(s)[m + 1] = Reach(s)[m]
           T == {k \in Nat : Stopped(k) \/ Cardinality(Reach(s)[k]) >= k + 1}
<1>1. 0 \in T
  <2>1. Cardinality(Reach(s)[0]) = 1
    BY ReachIs, FS_Singleton
  <2> QED
    BY <2>1
<1>2. ASSUME NEW k \in T PROVE k + 1 \in T
  <2>1. k \in Nat /\ (Stopped(k) \/ Cardinality(Reach(s)[k]) >= k + 1)
    OBVIOUS
  <2>2. CASE Stopped(k)
    <3>1. PICK m \in Nat : m < k /\ Reach(s)[m + 1] = Reach(s)[m]
      BY <2>2
    <3>2. Stopped(k + 1)
      BY <2>1, <3>1
    <3> QED
      BY <2>1, <3>2
  <2>3. CASE Reach(s)[k + 1] = Reach(s)[k]
    <3>1. Stopped(k + 1)
      BY <2>1, <2>3
    <3> QED
      BY <2>1, <3>1
  <2>4. CASE Cardinality(Reach(s)[k]) >= k + 1 /\ Reach(s)[k + 1] # Reach(s)[k]
    <3> DEFINE A == Reach(s)[k]
               B == Reach(s)[k + 1]
    <3>1. A \subseteq B
      BY <2>1, ReachIs
    <3>2. B \subseteq Sites
      <4>1. \A t \in Sites : Neighbours(t) \subseteq Sites
        BY DEF Neighbours
      <4>2. k + 1 \in Nat
        BY <2>1
      <4> QED
        BY <4>1, <4>2, ReachStays
    <3>3. A # B /\ Cardinality(A) >= k + 1
      BY <2>4
    <3> HIDE DEF A, B
    <3>4. IsFiniteSet(B)
      BY <3>2, SitesAssumption, FS_Subset
    <3>5. /\ Cardinality(A) <= Cardinality(B) /\ Cardinality(A) # Cardinality(B)
          /\ Cardinality(A) \in Nat /\ Cardinality(B) \in Nat
      BY <3>1, <3>3, <3>4, FS_Subset, FS_CardinalityType
    <3>6. Cardinality(B) >= (k + 1) + 1
      BY <2>1, <3>3, <3>5
    <3> QED
      BY <2>1, <3>6 DEF B
  <2> QED
    BY <2>1, <2>2, <2>3, <2>4
<1>3. T \in SUBSET Nat
  OBVIOUS
<1> HIDE DEF T
<1>4. n \in T
  BY <1>1, <1>2, <1>3, AllNumbers
<1> QED
  BY <1>4 DEF T
\* The queue of connectedComponent finds the implied set: after as many rounds
\* as there are sites nothing is left to add, and nothing was added that is not
\* implied.
LEMMA ComponentIsImplied ==
    ASSUME IsPackage(pkg), NEW s \in Sites
    PROVE  Component(s) = ImpliedSet(s)
<1> DEFINE N == Cardinality(Sites)
<1>1. N \in Nat
  BY SitesAssumption, FS_CardinalityType
<1>2. \A t \in Sites : Neighbours(t) \subseteq Sites
  BY DEF Neighbours
<1>3. s \in Component(s) /\ Component(s) \subseteq Sites
  BY <1>1, <1>2, ReachStays DEF Component
<1>4. \A t \in Component(s) : Neighbours(t) \subseteq Component(s)
  <2>1. PICK m \in Nat : m < N /\ Reach(s)[m + 1] = Reach(s)[m]
    <3> SUFFICES ASSUME ~(\E m \in Nat : m < N /\ Reach(s)[m + 1] = Reach(s)[m]) PROVE FALSE
      OBVIOUS
    <3>1. Cardinality(Reach(s)[N]) >= N + 1
      BY <1>1, ReachGrows
    <3>2. Cardinality(Component(s)) <= N
      BY <1>3, SitesAssumption, FS_Subset
    <3>3. Cardinality(Component(s)) \in Nat
      BY <1>3, SitesAssumption, FS_Subset, FS_CardinalityType
    <3> QED
      BY <1>1, <3>1, <3>2, <3>3 DEF Component
  <2>2. Reach(s)[N] = Reach(s)[m]
    <3>1. N - m \in Nat /\ m + (N - m) = N
      BY <1>1, <2>1
    <3> HIDE DEF N
    <3>2. Reach(s)[m + (N - m)] = Reach(s)[m]
      BY <2>1, <3>1, ReachStops
    <3> QED
      BY <3>1, <3>2
  <2>3. Reach(s)[m + 1] = Reach(s)[m] \cup UNION {Neighbours(t) : t \in Reach(s)[m]}
    BY ReachIs
  <2>4. \A t \in Reach(s)[m] : Neighbours(t) \subseteq Reach(s)[m]
    BY <2>1, <2>3
  <2> QED
    BY <2>2, <2>4 DEF Component
<1>5. Closed(Component(s))
  <2> SUFFICES ASSUME NEW e \in pkg.edges PROVE e[1] \in Component(s) <=> e[2] \in Component(s)
    BY DEF Closed
  <2>1. e = <<e[1], e[2]>> /\ e[1] \in Sites /\ e[2] \in Sites
    BY DEF IsPackage
  <2>2. e[1] = e[2] \/ (e[2] \in Neighbours(e[1]) /\ e[1] \in Neighbours(e[2]))
    BY <2>1 DEF Neighbours
  <2> QED
    BY <1>4, <2>2
<1>6. ImpliedSet(s) \subseteq Component(s)
  BY <1>3, <1>5 DEF ImpliedSet
<1>7. ASSUME NEW C \in SUBSET Sites, s \in C, Closed(C) PROVE Component(s) \subseteq C
  <2>1. ASSUME NEW t \in C PROVE Neighbours(t) \subseteq C
    <3> SUFFICES ASSUME NEW u \in Neighbours(t) PROVE u \in C
      OBVIOUS
    <3>1. <<t, u>> \in pkg.edges \/ <<u, t>> \in pkg.edges
      BY DEF Neighbours
    <3>2. CASE <<t, u>> \in pkg.edges
      BY <1>7, <3>2 DEF Closed
    <3>3. CASE <<u, t>> \in pkg.edges
      BY <1>7, <3>3 DEF Closed
    <3> QED
      BY <3>1, <3>2, <3>3
  <2> QED
    BY <1>1, <1>7, <2>1, ReachStays DEF Component
<1>8. Component(s) \subseteq ImpliedSet(s)
  BY <1>3, <1>7 DEF ImpliedSet
<1> QED
  BY <1>6, <1>8

\* The implied sets divide the sites: the rest of the sites is closed when one
\* of them is.
LEMMA ImpliedSets ==
    ASSUME IsPackage(pkg), NEW s \in Sites
    PROVE  /\ s \in ImpliedSet(s) /\ ImpliedSet(s) \subseteq Sites
           /\ \A t \in ImpliedSet(s) : ImpliedSet(t) = ImpliedSet(s)
<1>1. s \in ImpliedSet(s) /\ ImpliedSet(s) \subseteq Sites
  BY DEF ImpliedSet
<1>2. \A r \in Sites : \A t \in ImpliedSet(r) : ImpliedSet(t) \subseteq ImpliedSet(r)
  BY DEF ImpliedSet
<1>3. ASSUME NEW t \in ImpliedSet(s) PROVE s \in ImpliedSet(t)
  <2> SUFFICES ASSUME NEW C \in SUBSET Sites, t \in C, Closed(C), s \notin C PROVE FALSE
    BY DEF ImpliedSet
  <2>1. Closed(Sites \ C)
    <3> SUFFICES ASSUME NEW e \in pkg.edges PROVE e[1] \in Sites \ C <=> e[2] \in Sites \ C
      BY DEF Closed
    <3>1. e[1] \in Sites /\ e[2] \in Sites
      BY DEF IsPackage
    <3> QED
      BY <3>1 DEF Closed
  <2>2. t \in Sites \ C
    BY <2>1 DEF ImpliedSet
  <2> QED
    BY <2>2
<1> QED
  BY <1>1, <1>2, <1>3

---------------------------------------------------------------------------
(* Stamps and the texts they stand in.                                     *)

IsText(t) == t \in [Exprs -> Seq(Caps)]

\* The stamp of a site is the last one before its type, or none.
LEMMA CapType ==
    ASSUME IsPackage(pkg), NEW t, IsText(t), NEW s \in Sites
    PROVE  /\ CapIn(t, s) \in Caps \cup {None}
           /\ CapIn(t, s) = None <=> t[pkg.expr[s]] = <<>>
           /\ t[pkg.expr[s]] # <<>> => CapIn(t, s) = t[pkg.expr[s]][Len(t[pkg.expr[s]])]
           /\ pkg.expr[s] \in Exprs
<1> DEFINE q == t[pkg.expr[s]]
<1>1. pkg.expr[s] \in Exprs /\ q \in Seq(Caps)
  BY DEF IsPackage, IsText
<1>2. CapIn(t, s) = IF q = <<>> THEN None ELSE q[Len(q)]
  BY DEF CapIn
<1>3. None \notin Caps
  BY DEF None, Caps
<1> HIDE DEF q
<1>4. q # <<>> => q[Len(q)] \in Caps
  BY <1>1
<1> QED
  BY <1>1, <1>2, <1>3, <1>4 DEF q

\* The stamps of a set of sites.
LEMMA StampsType ==
    ASSUME IsPackage(pkg), NEW t, IsText(t), NEW C \in SUBSET Sites
    PROVE  /\ StampsIn(t, C) \subseteq Caps
           /\ \A c : c \in StampsIn(t, C) <=> c # None /\ \E s \in C : CapIn(t, s) = c
<1>1. \A s \in C : CapIn(t, s) \in Caps \cup {None}
  BY CapType
<1> QED
  BY <1>1 DEF StampsIn

\* A set of stamps is finite; it counts one or less when it has no two elements.
LEMMA FewStamps ==
    ASSUME NEW S \in SUBSET Caps
    PROVE  /\ Cardinality(S) > 1 <=> \E c, d \in S : c # d
           /\ Cardinality(S) = 1 <=> \E c \in S : S = {c}
           /\ IsFiniteSet(S)
<1>1. IsFiniteSet(Caps)
  <2>1. IsFiniteSet({"iso"}) /\ IsFiniteSet({"mub"}) /\ IsFiniteSet({"rob"}) /\ IsFiniteSet({"imm"})
    BY FS_Singleton
  <2>2. IsFiniteSet({"iso"} \cup {"mub"}) /\ IsFiniteSet({"rob"} \cup {"imm"})
    BY <2>1, FS_Union
  <2>3. IsFiniteSet(({"iso"} \cup {"mub"}) \cup ({"rob"} \cup {"imm"}))
    BY <2>2, FS_Union
  <2>4. Caps = ({"iso"} \cup {"mub"}) \cup ({"rob"} \cup {"imm"})
    BY DEF Caps
  <2> QED
    BY <2>3, <2>4
<1>2. IsFiniteSet(S)
  BY <1>1, FS_Subset
<1>3. Cardinality(S) \in Nat
  BY <1>2, FS_CardinalityType
<1>4. Cardinality(S) = 0 <=> S = {}
  BY <1>2, FS_EmptySet
<1>5. Cardinality(S) = 1 <=> \E c : S = {c}
  BY <1>2, FS_Singleton
<1>6. Cardinality(S) > 1 <=> Cardinality(S) # 0 /\ Cardinality(S) # 1
  BY <1>3
<1>7. (S # {} /\ ~(\E c : S = {c})) <=> \E c, d \in S : c # d
  OBVIOUS
<1>8. (\E c : S = {c}) <=> \E c \in S : S = {c}
  OBVIOUS
<1> QED
  BY <1>2, <1>4, <1>5, <1>6, <1>7, <1>8

\* What is planned for an implied set are stamps of types.
LEMMA EditsType ==
    ASSUME IsPackage(pkg), NEW t, IsText(t), NEW C \in SUBSET Sites
    PROVE  ComponentEdits(t, C) \subseteq Exprs \X Caps
<1>1. StampsIn(t, C) \subseteq Caps
  BY StampsType
<1>2. \A r \in Planned(t, C) : pkg.expr[r[1]] \in Exprs /\ r[2] \in Caps
  BY <1>1 DEF Planned, IsPackage
<1> QED
  BY <1>2 DEF ComponentEdits

\* Inserting stamps gives a text, and leaves the other files alone.
LEMMA InsertType ==
    ASSUME IsPackage(pkg), IsText(text), NEW f, Insert(f)
    PROVE  IsText(text')
<1>1. PICK q \in [TypesIn(f) -> UNION {Orders(NewStamps(e)) : e \in TypesIn(f)}] :
         /\ \A e \in TypesIn(f) : q[e] \in Orders(NewStamps(e))
         /\ text' = [e \in Exprs |-> IF e \in TypesIn(f) THEN q[e] \o text[e] ELSE text[e]]
  BY Zenon DEF Insert
<1>2. ASSUME NEW e \in TypesIn(f) PROVE q[e] \in Seq(Caps)
  <2>1. NewStamps(e) \subseteq Caps
    BY DEF NewStamps
  <2>2. Cardinality(NewStamps(e)) \in Nat
    BY <2>1, FewStamps, FS_CardinalityType
  <2>3. q[e] \in [1 .. Cardinality(NewStamps(e)) -> NewStamps(e)]
    BY <1>1, <1>2 DEF Orders
  <2>4. q[e] \in [1 .. Cardinality(NewStamps(e)) -> Caps]
    BY <2>1, <2>3
  <2> HIDE DEF Caps
  <2> QED
    BY <2>2, <2>4
<1>3. \A e \in Exprs : e \in TypesIn(f) => q[e] \o text[e] \in Seq(Caps)
  BY <1>2 DEF IsText
<1> QED
  BY <1>1, <1>3 DEF IsText

\* A transaction makes a text of a text.
LEMMA TransformedType ==
    ASSUME IsPackage(pkg), NEW t, IsText(t), NEW s \in Sites, NEW c \in Caps
    PROVE  IsText(Transformed(t, s, c))
<1>1. \A q \in Seq(Caps) : Stamped(q, c) \in Seq(Caps)
  BY DEF Stamped
<1> QED
  BY <1>1 DEF Transformed, IsText

---------------------------------------------------------------------------
(* Types.                                                                  *)

\* Everything before the first run.
LEMMA TypeInit == Init => TypeOK
<1> SUFFICES ASSUME Init PROVE TypeOK
  OBVIOUS
<1>1. IsPackage(pkg)
  BY PackagesAssumption DEF Init
<1>2. pkg.stamps \in [Exprs -> Seq(Caps)]
  BY <1>1 DEF IsPackage
<1>3. 0 \in 0 .. MaxRuns /\ 0 \in 0 .. MaxCrashes /\ 0 \in 0 .. MaxTransactions
  BY BoundsAssumption
<1> QED
  BY <1>1, <1>2, <1>3 DEF Init, TypeOK

\* The command, the editor and the kill keep the types.
LEMMA TypeStep == TypeOK /\ [Next]_vars => TypeOK'
<1> SUFFICES ASSUME TypeOK, [Next]_vars PROVE TypeOK'
  OBVIOUS
<1> USE DEF plan
<1>1. IsPackage(pkg) /\ IsText(text) /\ IsText(base)
  BY DEF TypeOK, IsText
<1>2. CASE Analyze
  <2>1. pkg' = pkg
    BY <1>2 DEF Analyze
  <2>2. IsText(text')
    BY <1>1, <1>2 DEF Analyze, Refreshed
  <2>3. runs' \in 0 .. MaxRuns
    BY <1>2, BoundsAssumption DEF Analyze, TypeOK
  <2> QED
    BY <1>2, <2>1, <2>2, <2>3 DEF Analyze, TypeOK, IsText, IsPackage
<1>3. CASE PlanComponent
  <2>1. PICK s \in unseen :
          /\ unseen' = unseen \ Component(s)
          /\ edits' = edits \cup ComponentEdits(text, Component(s))
          /\ conflict' = (conflict \/ Conflicts(text, Component(s)))
    BY <1>3 DEF PlanComponent
  <2>2. s \in Sites
    BY DEF TypeOK
  <2>3. Component(s) \subseteq Sites
    BY <1>1, <2>2, ComponentIsImplied, ImpliedSets
  <2>4. edits' \subseteq Exprs \X Caps
    BY <1>1, <2>1, <2>3, EditsType DEF TypeOK
  <2>5. conflict' \in BOOLEAN
    BY <2>1, Zenon
  <2>6. unseen' \subseteq Sites
    BY <2>1 DEF TypeOK
  <2>7. UNCHANGED <<pkg, text, cut, phase, left, base, runs, crashes, transactions>>
    BY <1>3 DEF PlanComponent
  <2> QED
    BY <2>4, <2>5, <2>6, <2>7 DEF TypeOK, IsPackage
<1>4. CASE EndPlan
  <2>1. left' \subseteq SourceFiles
    <3>1. \A e \in edits : pkg.file[e[1]] \in SourceFiles
      BY DEF TypeOK, IsPackage
    <3> QED
      BY <1>4, <3>1 DEF EndPlan
  <2> QED
    BY <1>4, <2>1 DEF EndPlan, TypeOK, IsPackage
<1>5. CASE WriteFile
  <2>1. PICK f \in left \ pkg.plain : Insert(f) /\ left' = left \ {f}
    BY <1>5 DEF WriteFile
  <2>2. IsText(text')
    BY <1>1, <2>1, InsertType
  <2>3. UNCHANGED <<pkg, cut, phase, unseen, edits, conflict, base, runs, crashes, transactions>>
    BY <1>5 DEF WriteFile
  <2> QED
    BY <2>1, <2>2, <2>3 DEF TypeOK, IsText, IsPackage
<1>6. CASE ReadFails
  BY <1>6 DEF ReadFails, TypeOK, IsPackage
<1>7. CASE Check
  BY <1>7 DEF Check, Refreshed, TypeOK, IsPackage
<1>8. CASE Leave
  BY <1>8 DEF Leave, Forget, TypeOK, IsPackage
<1>9. CASE Crash
  <2>1. cut' \subseteq SourceFiles
    BY <1>9 DEF Crash, TypeOK
  <2>2. crashes' \in 0 .. MaxCrashes
    BY <1>9, BoundsAssumption DEF Crash, TypeOK
  <2> QED
    BY <1>9, <2>1, <2>2 DEF Crash, Forget, TypeOK, IsPackage
<1>10. CASE Transaction
  <2>1. PICK s \in Sites, c \in Caps : /\ text' = Transformed(text, s, c)
                                       /\ base' = Transformed(base, s, c)
    BY <1>10 DEF Transaction
  <2>2. IsText(text') /\ IsText(base')
    BY <1>1, <2>1, TransformedType
  <2>3. transactions' \in 0 .. MaxTransactions
    BY <1>10, BoundsAssumption DEF Transaction, TypeOK
  <2> QED
    BY <1>10, <2>2, <2>3 DEF Transaction, TypeOK, IsText, IsPackage
<1>11. CASE UNCHANGED vars
  BY <1>11 DEF vars, TypeOK, IsPackage
<1> QED
  BY <1>2, <1>3, <1>4, <1>5, <1>6, <1>7, <1>8, <1>9, <1>10, <1>11 DEF Next

\* Propagation inserts nothing but stamps, in files of the package.
THEOREM TypesHold == Spec => []TypeOK
BY TypeInit, TypeStep, PTL DEF Spec

---------------------------------------------------------------------------
(* The plan.                                                               *)

\* Between runs nothing is planned.
IdleInv == phase = "idle" => unseen = {} /\ edits = {} /\ ~conflict /\ left = {}

\* While the components are visited, in whatever order, the plan is that of the
\* implied sets visited so far, and the rest is made of implied sets.
PlanInv ==
    phase = "plan" =>
        /\ \A s \in unseen : ImpliedSet(s) \subseteq unseen
        /\ edits = UNION {ComponentEdits(text, ImpliedSet(s)) : s \in Sites \ unseen}
        /\ conflict <=> \E s \in Sites \ unseen : Conflicts(text, ImpliedSet(s))

\* Every operator that depends on the package alone means the same after a step.
LEMMA PackageStays ==
    ASSUME [Next]_vars
    PROVE  /\ pkg' = pkg
           /\ \A s : ImpliedSet(s)' = ImpliedSet(s)
           /\ \A t, C : StampsIn(t, C)' = StampsIn(t, C)
           /\ \A t, C : Conflicts(t, C)' <=> Conflicts(t, C)
           /\ \A t, C : ComponentEdits(t, C)' = ComponentEdits(t, C)
<1>1. pkg' = pkg
  BY DEF Next, Analyze, PlanComponent, EndPlan, WriteFile, ReadFails, Check, Leave, Crash,
         Transaction, vars
<1>2. \A s : ImpliedSet(s)' = ImpliedSet(s)
  BY <1>1 DEF ImpliedSet, Closed
<1>3. \A t, C : StampsIn(t, C)' = StampsIn(t, C)
  BY <1>1 DEF StampsIn, CapIn
<1>4. \A t, C : Conflicts(t, C)' <=> Conflicts(t, C)
  BY <1>1, <1>3 DEF Conflicts, CapIn, Refused
<1>5. \A t, C : ComponentEdits(t, C)' = ComponentEdits(t, C)
  <2>1. \A t, C : Planned(t, C)' = Planned(t, C)
    BY <1>1, <1>3 DEF Planned, CapIn, Refused
  <2>2. \A t, C : Cardinality(StampsIn(t, C))' = Cardinality(StampsIn(t, C))
    BY <1>3
  <2>3. TAKE t, C
  <2>4. {<<pkg.expr[r[1]], r[2]>> : r \in Planned(t, C)}'
          = {<<pkg.expr[r[1]], r[2]>> : r \in Planned(t, C)}
    BY <1>1, <2>1
  <2> QED
    BY <2>2, <2>4 DEF ComponentEdits
<1> QED
  BY <1>1, <1>2, <1>3, <1>4, <1>5

\* One more component.
LEMMA PlanOne ==
    ASSUME TypeOK, PlanInv, PlanComponent
    PROVE  PlanInv'
<1>1. [Next]_vars
  BY DEF Next
<1>2. PICK s \in unseen :
        /\ unseen' = unseen \ Component(s)
        /\ edits' = edits \cup ComponentEdits(text, Component(s))
        /\ conflict' = (conflict \/ Conflicts(text, Component(s)))
  BY DEF PlanComponent
<1>3. s \in Sites /\ unseen \subseteq Sites /\ IsPackage(pkg)
  BY DEF TypeOK
<1>4. Component(s) = ImpliedSet(s)
  BY <1>3, ComponentIsImplied
<1>5. /\ s \in ImpliedSet(s) /\ ImpliedSet(s) \subseteq unseen
      /\ \A t \in ImpliedSet(s) : ImpliedSet(t) = ImpliedSet(s)
  BY <1>3, ImpliedSets DEF PlanInv, PlanComponent
<1>6. Sites \ unseen' = (Sites \ unseen) \cup ImpliedSet(s)
  BY <1>2, <1>3, <1>4, <1>5
<1>7. \A t \in unseen' : ImpliedSet(t) \subseteq unseen'
  <2> SUFFICES ASSUME NEW t \in unseen', NEW u \in ImpliedSet(t) PROVE u \in unseen'
    OBVIOUS
  <2>1. t \in unseen /\ t \notin ImpliedSet(s) /\ t \in Sites
    BY <1>2, <1>3, <1>4
  <2>2. u \in unseen
    BY <2>1 DEF PlanInv, PlanComponent
  <2>3. u \notin ImpliedSet(s)
    <3>1. t \in ImpliedSet(t) /\ ImpliedSet(u) = ImpliedSet(t)
      BY <1>3, <2>1, ImpliedSets
    <3> QED
      BY <1>5, <2>1, <3>1
  <2> QED
    BY <1>2, <1>4, <2>2, <2>3
<1>8. edits' = UNION {ComponentEdits(text, ImpliedSet(t)) : t \in Sites \ unseen'}
  <2>1. edits = UNION {ComponentEdits(text, ImpliedSet(t)) : t \in Sites \ unseen}
    BY DEF PlanInv, PlanComponent
  <2>2. \A t \in ImpliedSet(s) :
           ComponentEdits(text, ImpliedSet(t)) = ComponentEdits(text, ImpliedSet(s))
    BY <1>5
  <2> QED
    BY <1>2, <1>4, <1>5, <1>6, <2>1, <2>2
<1>9. conflict' <=> \E t \in Sites \ unseen' : Conflicts(text, ImpliedSet(t))
  <2>1. conflict <=> \E t \in Sites \ unseen : Conflicts(text, ImpliedSet(t))
    BY DEF PlanInv, PlanComponent
  <2>2. \A t \in ImpliedSet(s) :
           Conflicts(text, ImpliedSet(t)) <=> Conflicts(text, ImpliedSet(s))
    BY <1>5
  <2>3. conflict' <=> conflict \/ Conflicts(text, ImpliedSet(s))
    BY <1>2, <1>4, Zenon
  <2> QED
    BY <1>5, <1>6, <2>1, <2>2, <2>3, Zenon
<1>10. text' = text
  BY DEF PlanComponent
<1> QED
  BY <1>1, <1>7, <1>8, <1>9, <1>10, PackageStays DEF PlanInv

\* A run starts with nothing planned and every site to be visited.
LEMMA PlanStep ==
    TypeOK /\ IdleInv /\ PlanInv /\ [Next]_vars => (IdleInv /\ PlanInv)'
<1> SUFFICES ASSUME TypeOK, IdleInv, PlanInv, [Next]_vars PROVE (IdleInv /\ PlanInv)'
  OBVIOUS
<1>1. CASE Analyze
  <2>1. unseen' = Sites /\ edits' = {} /\ ~conflict' /\ phase' = "plan"
    BY <1>1 DEF Analyze, IdleInv
  <2>2. \A s \in Sites : ImpliedSet(s)' \subseteq Sites
    BY DEF ImpliedSet
  <2>3. Sites \ unseen' = {}
    BY <2>1
  <2>4. (UNION {ComponentEdits(text, ImpliedSet(s)) : s \in Sites \ unseen})' = {}
    BY <2>3
  <2> QED
    BY <2>1, <2>2, <2>3, <2>4 DEF PlanInv, IdleInv
<1>2. CASE PlanComponent
  BY <1>2, PlanOne DEF PlanComponent, IdleInv
<1>3. CASE Leave \/ Crash
  BY <1>3 DEF Leave, Crash, Forget, PlanInv, IdleInv
<1>4. CASE EndPlan \/ WriteFile \/ ReadFails \/ Check
  BY <1>4 DEF EndPlan, WriteFile, ReadFails, Check, PlanInv, IdleInv
<1>5. CASE Transaction
  BY <1>5 DEF Transaction, plan, PlanInv, IdleInv
<1>6. CASE UNCHANGED vars
  <2>1. UNCHANGED <<phase, unseen, edits, conflict, left, text>>
    BY <1>6 DEF vars
  <2> QED
    BY <2>1, PackageStays DEF PlanInv, IdleInv
<1> QED
  BY <1>1, <1>2, <1>3, <1>4, <1>5, <1>6 DEF Next

\* Without a conflict, the edits of the implied sets are what they imply.
LEMMA PlanMeans ==
    ASSUME TypeOK, \A s \in Sites : ~Conflicts(text, ImpliedSet(s))
    PROVE  UNION {ComponentEdits(text, ImpliedSet(s)) : s \in Sites}
             = {r \in Exprs \X Caps : r[2] \in Implied(text, r[1])}
<1>1. IsPackage(pkg) /\ IsText(text)
  BY DEF TypeOK, IsText
<1>2. ASSUME NEW s \in Sites, NEW r \in ComponentEdits(text, ImpliedSet(s))
      PROVE  r \in Exprs \X Caps /\ r[2] \in Implied(text, r[1])
  <2>1. ImpliedSet(s) \subseteq Sites
    BY <1>1, ImpliedSets
  <2>2. r \in Exprs \X Caps
    BY <1>1, <2>1, EditsType
  <2>3. PICK m \in Planned(text, ImpliedSet(s)) : r = <<pkg.expr[m[1]], m[2]>>
    BY <1>2 DEF ComponentEdits
  <2>4. m[1] \in ImpliedSet(s) /\ m[2] \in StampsIn(text, ImpliedSet(s)) /\ CapIn(text, m[1]) # m[2]
    BY DEF Planned
  <2>5. ImpliedSet(m[1]) = ImpliedSet(s) /\ m[1] \in Sites
    BY <1>1, <2>1, <2>4, ImpliedSets
  <2> DEFINE D(x) == {c \in StampsIn(text, ImpliedSet(x)) : CapIn(text, x) # c}
  <2>6. m[2] \in D(m[1])
    BY <2>4, <2>5
  <2>7. Implied(text, r[1]) = UNION {D(x) : x \in {y \in Sites : pkg.expr[y] = r[1]}}
    BY DEF Implied
  <2>8. m[1] \in {y \in Sites : pkg.expr[y] = r[1]} /\ r[2] = m[2]
    BY <2>3, <2>5
  <2> HIDE DEF D
  <2> QED
    BY <2>2, <2>6, <2>7, <2>8
<1>3. ASSUME NEW r \in Exprs \X Caps, r[2] \in Implied(text, r[1])
      PROVE  \E s \in Sites : r \in ComponentEdits(text, ImpliedSet(s))
  <2>1. PICK s \in Sites : /\ pkg.expr[s] = r[1] /\ r[2] \in StampsIn(text, ImpliedSet(s))
                           /\ CapIn(text, s) # r[2]
    BY <1>3 DEF Implied
  <2>2. s \in ImpliedSet(s) /\ ImpliedSet(s) \subseteq Sites
    BY <1>1, ImpliedSets
  <2>3. StampsIn(text, ImpliedSet(s)) \subseteq Caps
    BY <1>1, <2>2, StampsType
  <2>4. ~(Cardinality(StampsIn(text, ImpliedSet(s))) > 1) /\ ~Refused(s, r[2])
    BY <2>1, <2>2 DEF Conflicts
  <2>5. Cardinality(StampsIn(text, ImpliedSet(s))) = 1
    BY <2>1, <2>3, <2>4, FewStamps
  <2>6. <<s, r[2]>> \in Planned(text, ImpliedSet(s))
    BY <2>1, <2>2, <2>4 DEF Planned
  <2>7. r = <<pkg.expr[s], r[2]>>
    BY <2>1
  <2> QED
    BY <2>5, <2>6, <2>7 DEF ComponentEdits
<1> QED
  BY <1>2, <1>3

\* The plan stamps each type with what its implied sets ask for, whatever the
\* order in which the components are found.
THEOREM PlanOfImpliedSets == Spec => []PlanIsImplied
<1>1. Init => IdleInv /\ PlanInv
  BY DEF Init, IdleInv, PlanInv
<1>2. Spec => [](TypeOK /\ IdleInv /\ PlanInv)
  BY <1>1, TypeInit, TypeStep, PlanStep, PTL DEF Spec
<1>3. TypeOK /\ PlanInv => PlanIsImplied
  <2> SUFFICES ASSUME TypeOK, PlanInv, phase = "plan", unseen = {}, ~conflict
               PROVE  edits = {r \in Exprs \X Caps : r[2] \in Implied(text, r[1])}
    BY DEF PlanIsImplied
  <2>1. Sites \ unseen = Sites
    OBVIOUS
  <2>2. edits = UNION {ComponentEdits(text, ImpliedSet(s)) : s \in Sites}
    BY <2>1 DEF PlanInv
  <2>3. \A s \in Sites : ~Conflicts(text, ImpliedSet(s))
    BY <2>1 DEF PlanInv
  <2> QED
    BY <2>2, <2>3, PlanMeans
<1> QED
  BY <1>2, <1>3, PTL
---------------------------------------------------------------------------
(* What is written.  Two sites that share a type expression share their    *)
(* stamps, and a package that is checked through the mirror is written     *)
(* elsewhere than it is read: the promises below are those of a package    *)
(* with neither.                                                           *)

OwnTypes ==
    \A p \in Packages :
        /\ ~p.comments
        /\ \A s, r \in Sites : p.expr[s] = p.expr[r] => s = r

OwnInv == ~pkg.comments /\ \A s, r \in Sites : pkg.expr[s] = pkg.expr[r] => s = r

\* No implied set has two stamps.
OneStamp(t) == \A s \in Sites : \A c, d \in StampsIn(t, ImpliedSet(s)) : c = d

\* What is implied for a site stands there, or is yet to be written.
Due(t, l) ==
    \A s \in Sites : \A c \in StampsIn(t, ImpliedSet(s)) :
        CapIn(t, s) = c \/ (<<pkg.expr[s], c>> \in edits /\ pkg.file[pkg.expr[s]] \in l)

\* What is yet to be written has nothing in its place, and is implied for it.
Open(t, l) ==
    \A r \in edits :
        pkg.file[r[1]] \in l =>
            \E s \in Sites : /\ r[1] = pkg.expr[s] /\ t[r[1]] = <<>>
                             /\ r[2] \in StampsIn(t, ImpliedSet(s)) /\ ~Refused(s, r[2])

WriteInv ==
    /\ phase \in {"write", "checked"} =>
          OneStamp(text) /\ Due(text, left) /\ Open(text, left)
    /\ phase = "checked" => left = {}

\* The stamps of a set do not depend on what else a step changes.
LEMMA StampsAfter ==
    ASSUME [Next]_vars
    PROVE  /\ \A s : CapIn(text, s)' = CapIn(text', s)
           /\ \A C : StampsIn(text, C)' = StampsIn(text', C)
           /\ \A s : CapIn(base, s)' = CapIn(base', s)
           /\ \A C : StampsIn(base, C)' = StampsIn(base', C)
<1>1. pkg' = pkg
  BY PackageStays
<1>2. (\A s : CapIn(text, s)' = CapIn(text', s)) /\ \A s : CapIn(base, s)' = CapIn(base', s)
  BY <1>1 DEF CapIn
<1>3. \A C : StampsIn(text, C)' = StampsIn(text', C)
  BY <1>1 DEF StampsIn, CapIn
<1>4. \A C : StampsIn(base, C)' = StampsIn(base', C)
  BY <1>1 DEF StampsIn, CapIn
<1> QED
  BY <1>2, <1>3, <1>4

\* No stamp and one stamp have one order each.
LEMMA OrdersOfFew ==
    /\ \A q \in Orders({}) : q = <<>>
    /\ \A c : \A q \in Orders({c}) : q = <<c>>
<1>1. Cardinality({}) = 0 /\ \A c : Cardinality({c}) = 1
  BY FS_EmptySet, FS_Singleton
<1>2. ASSUME NEW q \in Orders({}) PROVE q = <<>>
  <2>1. q \in [1 .. 0 -> {}]
    BY <1>1, <1>2 DEF Orders
  <2> QED
    BY <2>1
<1>3. ASSUME NEW c, NEW q \in Orders({c}) PROVE q = <<c>>
  <2>1. q \in [1 .. 1 -> {c}]
    BY <1>1, <1>3 DEF Orders
  <2>2. q = [i \in 1 .. 1 |-> c]
    BY <2>1
  <2>3. <<c>> = [i \in 1 .. 1 |-> c]
    OBVIOUS
  <2> QED
    BY <2>2, <2>3
<1> QED
  BY <1>2, <1>3

\* Without a conflict the plan leaves one stamp in each implied set, all of it
\* due, and every place to be written open.
LEMMA PlannedWrites ==
    ASSUME TypeOK, OwnInv, PlanInv, EndPlan, ~conflict
    PROVE  OneStamp(text) /\ Due(text, left') /\ Open(text, left')
<1>1. IsPackage(pkg) /\ IsText(text)
  BY DEF TypeOK, IsText
<1>2. /\ edits = UNION {ComponentEdits(text, ImpliedSet(s)) : s \in Sites}
      /\ \A s \in Sites : ~Conflicts(text, ImpliedSet(s))
  <2>1. phase = "plan" /\ Sites \ unseen = Sites
    BY DEF EndPlan
  <2>2. edits = UNION {ComponentEdits(text, ImpliedSet(s)) : s \in Sites \ unseen}
    BY <2>1 DEF PlanInv
  <2>3. \A s \in Sites : ~Conflicts(text, ImpliedSet(s))
    BY <2>1 DEF PlanInv
  <2> QED
    BY <2>1, <2>2, <2>3
<1>3. edits = {r \in Exprs \X Caps : r[2] \in Implied(text, r[1])}
  BY <1>2, PlanMeans
<1>4. OneStamp(text)
  <2> SUFFICES ASSUME NEW s \in Sites,
                      NEW c \in StampsIn(text, ImpliedSet(s)), NEW d \in StampsIn(text, ImpliedSet(s))
               PROVE  c = d
    BY DEF OneStamp
  <2>1. StampsIn(text, ImpliedSet(s)) \subseteq Caps
    BY <1>1, ImpliedSets, StampsType
  <2>2. ~(Cardinality(StampsIn(text, ImpliedSet(s))) > 1)
    BY <1>2 DEF Conflicts
  <2> QED
    BY <2>1, <2>2, FewStamps
<1>5. left' = {pkg.file[r[1]] : r \in edits}
  BY DEF EndPlan
<1>6. ASSUME NEW s \in Sites, NEW c \in StampsIn(text, ImpliedSet(s)), CapIn(text, s) # c
      PROVE  <<pkg.expr[s], c>> \in edits
  <2> DEFINE D(x) == {d \in StampsIn(text, ImpliedSet(x)) : CapIn(text, x) # d}
             T == {x \in Sites : pkg.expr[x] = pkg.expr[s]}
  <2>1. s \in T /\ c \in D(s)
    BY <1>6
  <2>2. Implied(text, pkg.expr[s]) = UNION {D(x) : x \in T}
    BY DEF Implied
  <2> HIDE DEF D, T
  <2>3. c \in Implied(text, pkg.expr[s])
    BY <2>1, <2>2
  <2>4. pkg.expr[s] \in Exprs /\ c \in Caps
    BY <1>1, ImpliedSets, StampsType DEF IsPackage
  <2> QED
    BY <1>3, <2>3, <2>4
<1>7. Due(text, left')
  <2> SUFFICES ASSUME NEW s \in Sites, NEW c \in StampsIn(text, ImpliedSet(s)), CapIn(text, s) # c
               PROVE  <<pkg.expr[s], c>> \in edits /\ pkg.file[pkg.expr[s]] \in left'
    BY DEF Due
  <2>1. <<pkg.expr[s], c>> \in edits
    BY <1>6
  <2> QED
    BY <1>5, <2>1
<1>8. ASSUME NEW r \in edits
      PROVE  \E s \in Sites : /\ r[1] = pkg.expr[s] /\ text[r[1]] = <<>>
                              /\ r[2] \in StampsIn(text, ImpliedSet(s)) /\ ~Refused(s, r[2])
  <2> DEFINE D(x) == {d \in StampsIn(text, ImpliedSet(x)) : CapIn(text, x) # d}
             T == {x \in Sites : pkg.expr[x] = r[1]}
  <2>1. Implied(text, r[1]) = UNION {D(x) : x \in T}
    BY DEF Implied
  <2>2. PICK s \in T : r[2] \in D(s)
    BY <1>3, <1>8, <2>1
  <2>3. /\ s \in Sites /\ pkg.expr[s] = r[1] /\ CapIn(text, s) # r[2]
        /\ r[2] \in StampsIn(text, ImpliedSet(s))
    BY <2>2
  <2>4. s \in ImpliedSet(s) /\ ImpliedSet(s) \subseteq Sites
    BY <1>1, <2>3, ImpliedSets
  <2>5. CapIn(text, s) = None
    <3> SUFFICES ASSUME CapIn(text, s) # None PROVE FALSE
      OBVIOUS
    <3>1. CapIn(text, s) \in StampsIn(text, ImpliedSet(s))
      BY <2>4 DEF StampsIn
    <3> QED
      BY <1>4, <2>3, <3>1 DEF OneStamp
  <2>6. text[r[1]] = <<>>
    BY <1>1, <2>3, <2>5, CapType
  <2>7. ~Refused(s, r[2])
    BY <1>2, <2>3, <2>4 DEF Conflicts
  <2> QED
    BY <2>3, <2>6, <2>7
<1> QED
  BY <1>4, <1>7, <1>8 DEF Open

\* Writing a file puts one stamp where there was none, in the types of the file
\* that have a stamp due, and leaves all other types as they are.
LEMMA Inserted ==
    ASSUME TypeOK, OwnInv, OneStamp(text), Open(text, left), NEW f \in left, Insert(f)
    PROVE  /\ \A e \in Exprs : (\A s \in Sites : pkg.expr[s] # e) => text'[e] = text[e]
           /\ \A s \in Sites :
                 \/ /\ text'[pkg.expr[s]] = text[pkg.expr[s]]
                    /\ pkg.file[pkg.expr[s]] = f => NewStamps(pkg.expr[s]) = {}
                 \/ /\ pkg.file[pkg.expr[s]] = f /\ text[pkg.expr[s]] = <<>>
                    /\ \E c \in StampsIn(text, ImpliedSet(s)) :
                          /\ NewStamps(pkg.expr[s]) = {c} /\ ~Refused(s, c)
                          /\ text'[pkg.expr[s]] = <<c>>
<1>1. IsPackage(pkg) /\ IsText(text)
  BY DEF TypeOK, IsText
<1>2. PICK q \in [TypesIn(f) -> UNION {Orders(NewStamps(e)) : e \in TypesIn(f)}] :
        /\ \A e \in TypesIn(f) : q[e] \in Orders(NewStamps(e))
        /\ text' = [e \in Exprs |-> IF e \in TypesIn(f) THEN q[e] \o text[e] ELSE text[e]]
  BY Zenon DEF Insert
<1>3. ASSUME NEW e \in Exprs, pkg.file[e] = f => NewStamps(e) = {}
      PROVE  text'[e] = text[e]
  <2>1. CASE pkg.file[e] # f
    BY <1>2, <2>1 DEF TypesIn
  <2>2. CASE pkg.file[e] = f
    <3>1. e \in TypesIn(f) /\ q[e] \in Orders({})
      BY <1>2, <1>3, <2>2 DEF TypesIn
    <3>2. q[e] = <<>>
      BY <3>1, OrdersOfFew
    <3>3. text'[e] = <<>> \o text[e] /\ text[e] \in Seq(Caps)
      BY <1>1, <1>2, <3>1, <3>2 DEF IsText
    <3> QED
      BY <3>3
  <2> QED
    BY <2>1, <2>2
<1>4. ASSUME NEW e \in Exprs, \A s \in Sites : pkg.expr[s] # e PROVE text'[e] = text[e]
  <2>1. ASSUME NEW c \in NewStamps(e), pkg.file[e] = f PROVE FALSE
    <3>1. <<e, c>> \in edits
      BY <2>1 DEF NewStamps
    <3> QED
      BY <1>4, <2>1, <3>1 DEF Open
  <2> QED
    BY <1>3, <2>1
<1>5. ASSUME NEW s \in Sites, pkg.file[pkg.expr[s]] = f, NewStamps(pkg.expr[s]) # {}
      PROVE  /\ text[pkg.expr[s]] = <<>>
             /\ \E c \in StampsIn(text, ImpliedSet(s)) :
                   /\ NewStamps(pkg.expr[s]) = {c} /\ ~Refused(s, c)
                   /\ text'[pkg.expr[s]] = <<c>>
  <2> DEFINE e == pkg.expr[s]
  <2>1. e \in Exprs /\ e \in TypesIn(f)
    BY <1>1, <1>5 DEF IsPackage, TypesIn
  <2>2. ASSUME NEW c \in NewStamps(e)
        PROVE  text[e] = <<>> /\ c \in StampsIn(text, ImpliedSet(s)) /\ ~Refused(s, c)
    <3>1. <<e, c>> \in edits
      BY <2>2 DEF NewStamps
    <3>2. PICK r \in Sites : /\ e = pkg.expr[r] /\ text[e] = <<>>
                             /\ c \in StampsIn(text, ImpliedSet(r)) /\ ~Refused(r, c)
      BY <1>5, <3>1 DEF Open
    <3>3. r = s
      BY <3>2 DEF OwnInv
    <3> QED
      BY <3>2, <3>3
  <2>3. PICK c : c \in NewStamps(e)
    BY <1>5
  <2>4. \A d \in NewStamps(e) : d = c
    BY <2>2, <2>3 DEF OneStamp
  <2>5. NewStamps(e) = {c}
    BY <2>3, <2>4
  <2>6. q[e] \in Orders({c})
    BY <1>2, <2>1, <2>5
  <2>7. q[e] = <<c>>
    BY <2>6, OrdersOfFew
  <2>8. text'[e] = <<c>> \o <<>>
    BY <1>2, <2>1, <2>2, <2>3, <2>7
  <2>9. text'[e] = <<c>>
    BY <2>8
  <2> QED
    BY <2>2, <2>3, <2>5, <2>9
<1>6. \A s \in Sites : pkg.expr[s] \in Exprs
  BY <1>1 DEF IsPackage
<1> QED
  BY <1>3, <1>4, <1>5, <1>6

\* Writing a file gives no implied set a stamp that it did not have.
LEMMA InsertKeepsStamps ==
    ASSUME TypeOK, OwnInv, OneStamp(text), Open(text, left), NEW f \in left, Insert(f),
           NEW s \in Sites
    PROVE  StampsIn(text', ImpliedSet(s)) = StampsIn(text, ImpliedSet(s))
<1>1. IsPackage(pkg) /\ IsText(text)
  BY DEF TypeOK, IsText
<1>2. IsText(text')
  BY <1>1, InsertType
<1>3. /\ ImpliedSet(s) \subseteq Sites
      /\ \A r \in ImpliedSet(s) : ImpliedSet(r) = ImpliedSet(s)
  BY <1>1, ImpliedSets
<1>4. ASSUME NEW r \in ImpliedSet(s)
      PROVE  \/ CapIn(text', r) = CapIn(text, r)
             \/ CapIn(text, r) = None /\ CapIn(text', r) \in StampsIn(text, ImpliedSet(s))
  <2>1. CASE text'[pkg.expr[r]] = text[pkg.expr[r]]
    BY <2>1 DEF CapIn
  <2>2. CASE /\ text[pkg.expr[r]] = <<>>
             /\ \E c \in StampsIn(text, ImpliedSet(r)) : text'[pkg.expr[r]] = <<c>>
    <3>1. PICK c \in StampsIn(text, ImpliedSet(s)) : text'[pkg.expr[r]] = <<c>>
      BY <1>3, <2>2
    <3>2. <<c>> # <<>> /\ Len(<<c>>) = 1 /\ <<c>>[1] = c
      OBVIOUS
    <3>3. CapIn(text', r) = c
      BY <3>1, <3>2 DEF CapIn
    <3> QED
      BY <1>1, <1>3, <2>2, <3>1, <3>3, CapType
  <2> QED
    BY <1>3, <2>1, <2>2, Inserted
<1>5. /\ \A c : c \in StampsIn(text, ImpliedSet(s)) <=>
                  c # None /\ \E r \in ImpliedSet(s) : CapIn(text, r) = c
      /\ \A c : c \in StampsIn(text', ImpliedSet(s)) <=>
                  c # None /\ \E r \in ImpliedSet(s) : CapIn(text', r) = c
  BY DEF StampsIn
<1> QED
  BY <1>4, <1>5

\* After a file is written the rest is due and open as before.
LEMMA WriteOne ==
    ASSUME TypeOK, OwnInv, OneStamp(text), Due(text, left), Open(text, left),
           NEW f \in left, Insert(f)
    PROVE  OneStamp(text') /\ Due(text', left \ {f}) /\ Open(text', left \ {f})
<1>1. IsPackage(pkg) /\ IsText(text)
  BY DEF TypeOK, IsText
<1>2. \A s \in Sites : StampsIn(text', ImpliedSet(s)) = StampsIn(text, ImpliedSet(s))
  BY InsertKeepsStamps
<1>3. OneStamp(text')
  BY <1>2 DEF OneStamp
<1>4. ASSUME NEW s \in Sites, NEW c \in StampsIn(text', ImpliedSet(s))
      PROVE  \/ CapIn(text', s) = c
             \/ <<pkg.expr[s], c>> \in edits /\ pkg.file[pkg.expr[s]] \in left \ {f}
  <2> DEFINE e == pkg.expr[s]
  <2>1. c \in StampsIn(text, ImpliedSet(s)) /\ c \in Caps
    BY <1>1, <1>2, <1>4, ImpliedSets, StampsType
  <2>2. \/ CapIn(text, s) = c
        \/ <<e, c>> \in edits /\ pkg.file[e] \in left
    BY <2>1 DEF Due
  <2>3. CASE text'[e] = text[e] /\ (pkg.file[e] = f => NewStamps(e) = {})
    <3>1. CapIn(text', s) = CapIn(text, s)
      BY <2>3 DEF CapIn
    <3>2. <<e, c>> \in edits => c \in NewStamps(e)
      BY <2>1 DEF NewStamps
    <3> QED
      BY <2>2, <2>3, <3>1, <3>2
  <2>4. CASE \E d \in StampsIn(text, ImpliedSet(s)) : text'[e] = <<d>>
    <3>1. PICK d \in StampsIn(text, ImpliedSet(s)) : text'[e] = <<d>>
      BY <2>4
    <3>2. <<d>> # <<>> /\ Len(<<d>>) = 1 /\ <<d>>[1] = d
      OBVIOUS
    <3>3. CapIn(text', s) = d /\ d = c
      BY <2>1, <3>1, <3>2 DEF CapIn, OneStamp
    <3> QED
      BY <3>3
  <2> QED
    BY <2>3, <2>4, Inserted
<1>5. ASSUME NEW r \in edits, pkg.file[r[1]] \in left \ {f}
      PROVE  \E s \in Sites : /\ r[1] = pkg.expr[s] /\ text'[r[1]] = <<>>
                              /\ r[2] \in StampsIn(text', ImpliedSet(s)) /\ ~Refused(s, r[2])
  <2>1. PICK s \in Sites : /\ r[1] = pkg.expr[s] /\ text[r[1]] = <<>>
                           /\ r[2] \in StampsIn(text, ImpliedSet(s)) /\ ~Refused(s, r[2])
    BY <1>5 DEF Open
  <2>2. text'[r[1]] = text[r[1]]
    BY <1>5, <2>1, Inserted
  <2> QED
    BY <1>2, <2>1, <2>2
<1> QED
  BY <1>3, <1>4, <1>5 DEF Due, Open

\* What the invariants of the text say after a step.
LEMMA TextAfter ==
    ASSUME [Next]_vars, OneStamp(text'), Due(text', left'), Open(text', left'), edits' = edits
    PROVE  OneStamp(text)' /\ Due(text, left)' /\ Open(text, left)'
<1>1. pkg' = pkg /\ \A s : ImpliedSet(s)' = ImpliedSet(s)
  BY PackageStays
<1>2. /\ \A s : CapIn(text, s)' = CapIn(text', s)
      /\ \A s : StampsIn(text, ImpliedSet(s))' = StampsIn(text', ImpliedSet(s))
  <2>1. \A s : CapIn(text, s)' = CapIn(text', s)
    BY StampsAfter
  <2>2. \A s : StampsIn(text, ImpliedSet(s))' = StampsIn(text', ImpliedSet(s))
    BY <1>1 DEF StampsIn, CapIn
  <2> QED
    BY <2>1, <2>2
<1>3. OneStamp(text)'
  BY <1>2 DEF OneStamp
<1>4. Due(text, left)'
  BY <1>1, <1>2 DEF Due
<1>5. Open(text, left)'
  BY <1>1, <1>2 DEF Open, Refused
<1> QED
  BY <1>3, <1>4, <1>5

LEMMA WriteStep ==
    TypeOK /\ OwnInv /\ PlanInv /\ WriteInv /\ [Next]_vars => (OwnInv /\ WriteInv)'
<1> SUFFICES ASSUME TypeOK, OwnInv, PlanInv, WriteInv, [Next]_vars PROVE (OwnInv /\ WriteInv)'
  OBVIOUS
<1>1. OwnInv'
  BY PackageStays DEF OwnInv
<1>2. CASE Analyze \/ PlanComponent \/ ReadFails \/ Leave \/ Crash \/ Transaction
  BY <1>1, <1>2 DEF Analyze, PlanComponent, ReadFails, Leave, Crash, Forget, Transaction, WriteInv
<1>3. CASE EndPlan
  <2>1. CASE conflict
    BY <1>1, <1>3, <2>1 DEF EndPlan, WriteInv
  <2>2. CASE ~conflict
    <3>1. OneStamp(text) /\ Due(text, left') /\ Open(text, left')
      BY <1>3, <2>2, PlannedWrites
    <3>2. phase' = "write" /\ text' = text /\ edits' = edits
      BY <1>3, <2>2 DEF EndPlan
    <3>3. OneStamp(text)' /\ Due(text, left)' /\ Open(text, left)'
      BY <3>1, <3>2, TextAfter
    <3> QED
      BY <1>1, <3>2, <3>3 DEF WriteInv
  <2> QED
    BY <2>1, <2>2
<1>4. CASE WriteFile
  <2>1. PICK f \in left \ pkg.plain : Insert(f) /\ left' = left \ {f}
    BY <1>4 DEF WriteFile
  <2>2. phase = "write" /\ phase' = phase /\ edits' = edits
    BY <1>4 DEF WriteFile
  <2>3. OneStamp(text') /\ Due(text', left') /\ Open(text', left')
    BY <2>1, <2>2, WriteOne DEF WriteInv
  <2>4. OneStamp(text)' /\ Due(text, left)' /\ Open(text, left)'
    BY <2>2, <2>3, TextAfter
  <2> QED
    BY <1>1, <2>2, <2>4 DEF WriteInv
<1>5. CASE Check
  <2>1. /\ phase = "write" /\ phase' = "checked" /\ left = {} /\ left' = left
        /\ edits' = edits /\ text' = text
    BY <1>5 DEF Check, Refreshed, plan, OwnInv
  <2>2. OneStamp(text') /\ Due(text', left') /\ Open(text', left')
    BY <2>1 DEF WriteInv
  <2>3. OneStamp(text)' /\ Due(text, left)' /\ Open(text, left)'
    BY <2>1, <2>2, TextAfter
  <2> QED
    BY <1>1, <2>1, <2>3 DEF WriteInv
<1>6. CASE UNCHANGED vars
  <2>1. UNCHANGED <<phase, left, text, edits>>
    BY <1>6 DEF vars
  <2>2. phase \in {"write", "checked"} => OneStamp(text') /\ Due(text', left') /\ Open(text', left')
    BY <2>1 DEF WriteInv
  <2>3. phase \in {"write", "checked"} => (OneStamp(text) /\ Due(text, left) /\ Open(text, left))'
    BY <2>1, <2>2, TextAfter
  <2> QED
    BY <1>1, <2>1, <2>3 DEF WriteInv
<1> QED
  BY <1>2, <1>3, <1>4, <1>5, <1>6 DEF Next

\* When nothing is left to be written, no stamp is missing.
LEMMA DoneMeans == TypeOK /\ WriteInv => ImpliedBeforeCheck
<1> SUFFICES ASSUME TypeOK, WriteInv, phase = "checked", NEW e \in Exprs
             PROVE  Implied(text, e) = {}
  BY DEF ImpliedBeforeCheck
<1>1. Due(text, {})
  BY DEF WriteInv
<1>2. \A s \in Sites : {c \in StampsIn(text, ImpliedSet(s)) : CapIn(text, s) # c} = {}
  BY <1>1 DEF Due
<1> QED
  BY <1>2 DEF Implied

\* All invariants of a package with types of its own.
OwnPackageInv == TypeOK /\ IdleInv /\ PlanInv /\ OwnInv /\ WriteInv

LEMMA OwnPackage ==
    ASSUME OwnTypes
    PROVE  Spec => []OwnPackageInv
<1>1. Init => OwnPackageInv
  <2> SUFFICES ASSUME Init PROVE OwnPackageInv
    OBVIOUS
  <2>1. OwnInv
    BY DEF Init, OwnTypes, OwnInv
  <2> QED
    BY <2>1, TypeInit DEF Init, OwnPackageInv, IdleInv, PlanInv, WriteInv
<1>2. OwnPackageInv /\ [Next]_vars => OwnPackageInv'
  BY TypeStep, PlanStep, WriteStep DEF OwnPackageInv
<1> QED
  BY <1>1, <1>2, PTL DEF Spec

\* A propagation that completes, after whatever crashes and transactions, has
\* left no stamp to be implied when the package is checked.
THEOREM NothingImplied ==
    ASSUME OwnTypes
    PROVE  Spec => []ImpliedBeforeCheck
<1>1. OwnPackageInv => ImpliedBeforeCheck
  BY DoneMeans DEF OwnPackageInv
<1> QED
  BY <1>1, OwnPackage, PTL
---------------------------------------------------------------------------
(* Transactions.                                                           *)

\* The last stamp is c, and a stamp c that was the last one stays.
LEMMA StampedIs ==
    ASSUME NEW q \in Seq(Caps), NEW c \in Caps
    PROVE  /\ Stamped(q, c) # <<>> /\ Stamped(q, c)[Len(Stamped(q, c))] = c
           /\ q # <<>> /\ q[Len(q)] = c => Stamped(q, c) = q
           /\ Stamped(<<>>, c) = <<c>>
           /\ \A d \in Caps : Stamped(<<d>>, c) = <<c>>
<1>1. Stamped(<<>>, c) = <<c>>
  BY DEF Stamped
<1>2. \A d \in Caps : Stamped(<<d>>, c) = <<c>>
  BY DEF Stamped
<1>3. CASE q = <<>>
  BY <1>1, <1>2, <1>3
<1>4. CASE q # <<>>
  <2>1. Stamped(q, c) = [q EXCEPT ![Len(q)] = c] /\ Len(q) \in Nat /\ Len(q) >= 1
    BY <1>4 DEF Stamped
  <2>2. Stamped(q, c) \in Seq(Caps) /\ Len(Stamped(q, c)) = Len(q) /\ Stamped(q, c)[Len(q)] = c
    BY <2>1
  <2>3. q[Len(q)] = c => Stamped(q, c) = q
    BY <2>1
  <2> QED
    BY <1>1, <1>2, <2>1, <2>2, <2>3
<1> QED
  BY <1>3, <1>4

\* A transaction stamps its root and all of its implied set that does not
\* refuse the stamp, and nothing else.
LEMMA TransformedSites ==
    ASSUME IsPackage(pkg), OwnInv, NEW t, IsText(t), NEW s \in Sites, NEW c \in Caps
    PROVE  /\ \A e \in Exprs : (\A r \in Sites : pkg.expr[r] # e) => Transformed(t, s, c)[e] = t[e]
           /\ \A r \in Sites :
                 IF r = s \/ (r \in ImpliedSet(s) /\ ~Refused(r, c))
                 THEN /\ Transformed(t, s, c)[pkg.expr[r]] = Stamped(t[pkg.expr[r]], c)
                      /\ CapIn(Transformed(t, s, c), r) = c
                 ELSE /\ Transformed(t, s, c)[pkg.expr[r]] = t[pkg.expr[r]]
                      /\ CapIn(Transformed(t, s, c), r) = CapIn(t, r)
<1> DEFINE u == Transformed(t, s, c)
<1>1. /\ \A r \in Sites : pkg.expr[r] \in Exprs /\ t[pkg.expr[r]] \in Seq(Caps)
      /\ Component(s) = ImpliedSet(s) /\ ImpliedSet(s) \subseteq Sites
  BY ComponentIsImplied, ImpliedSets DEF IsPackage, IsText
<1>2. \A e \in Exprs :
         u[e] = IF \E r \in Followers(t, s, c) \cup {s} : pkg.expr[r] = e
                THEN Stamped(t[e], c) ELSE t[e]
  BY DEF Transformed
<1>3. Followers(t, s, c) \subseteq Sites
  BY <1>1 DEF Followers
<1>4. ASSUME NEW e \in Exprs, \A r \in Sites : pkg.expr[r] # e PROVE u[e] = t[e]
  BY <1>2, <1>3, <1>4
<1>5. \A r \in Sites : u[pkg.expr[r]] = IF r \in Followers(t, s, c) \cup {s}
                                        THEN Stamped(t[pkg.expr[r]], c) ELSE t[pkg.expr[r]]
  BY <1>1, <1>2, <1>3 DEF OwnInv
<1>6. ASSUME NEW r \in Sites, r = s \/ (r \in ImpliedSet(s) /\ ~Refused(r, c))
      PROVE  /\ u[pkg.expr[r]] = Stamped(t[pkg.expr[r]], c)
             /\ CapIn(u, r) = c
  <2> DEFINE q == t[pkg.expr[r]]
  <2>1. q \in Seq(Caps)
    BY <1>1
  <2>2. u[pkg.expr[r]] = Stamped(q, c)
    <3>1. CASE r \in Followers(t, s, c) \cup {s}
      BY <1>5, <3>1
    <3>2. CASE r \notin Followers(t, s, c) \cup {s}
      <4>1. CapIn(t, r) = c
        BY <1>1, <1>6, <3>2 DEF Followers
      <4>2. q # <<>> /\ q[Len(q)] = c
        <5>1. None \notin Caps
          BY DEF None, Caps
        <5> QED
          BY <4>1, <5>1 DEF CapIn
      <4> QED
        BY <1>5, <2>1, <3>2, <4>2, StampedIs
    <3> QED
      BY <3>1, <3>2
  <2>3. CapIn(u, r) = c
    BY <2>1, <2>2, StampedIs DEF CapIn
  <2> QED
    BY <2>2, <2>3
<1>7. ASSUME NEW r \in Sites, ~(r = s \/ (r \in ImpliedSet(s) /\ ~Refused(r, c)))
      PROVE  u[pkg.expr[r]] = t[pkg.expr[r]] /\ CapIn(u, r) = CapIn(t, r)
  <2>1. r \notin Followers(t, s, c) \cup {s}
    BY <1>1, <1>7 DEF Followers
  <2>2. u[pkg.expr[r]] = t[pkg.expr[r]]
    BY <1>5, <2>1
  <2> QED
    BY <2>2 DEF CapIn
<1> HIDE DEF u
<1>8. \A r \in Sites :
         IF r = s \/ (r \in ImpliedSet(s) /\ ~Refused(r, c))
         THEN u[pkg.expr[r]] = Stamped(t[pkg.expr[r]], c) /\ CapIn(u, r) = c
         ELSE u[pkg.expr[r]] = t[pkg.expr[r]] /\ CapIn(u, r) = CapIn(t, r)
  BY <1>6, <1>7
<1> QED
  BY <1>4, <1>8 DEF u

\* A transaction leaves the stamps of the other implied sets as they are.
LEMMA TransformedElsewhere ==
    ASSUME IsPackage(pkg), OwnInv, NEW t, IsText(t), NEW s \in Sites, NEW c \in Caps,
           NEW r \in Sites, r \notin ImpliedSet(s)
    PROVE  /\ StampsIn(Transformed(t, s, c), ImpliedSet(r)) = StampsIn(t, ImpliedSet(r))
           /\ Transformed(t, s, c)[pkg.expr[r]] = t[pkg.expr[r]]
<1>1. \A x \in ImpliedSet(r) : x \in Sites /\ x # s /\ x \notin ImpliedSet(s)
  <2> SUFFICES ASSUME NEW x \in ImpliedSet(r), x \in ImpliedSet(s) PROVE FALSE
    BY ImpliedSets
  <2>1. ImpliedSet(x) = ImpliedSet(r) /\ ImpliedSet(x) = ImpliedSet(s) /\ r \in ImpliedSet(r)
    BY ImpliedSets
  <2> QED
    BY <2>1
<1>2. \A x \in ImpliedSet(r) : CapIn(Transformed(t, s, c), x) = CapIn(t, x)
  BY <1>1, TransformedSites
<1>3. StampsIn(Transformed(t, s, c), ImpliedSet(r)) = StampsIn(t, ImpliedSet(r))
  BY <1>2 DEF StampsIn
<1>4. r # s
  BY ImpliedSets
<1> QED
  BY <1>3, <1>4, TransformedSites

\* An implied set without a channel element agrees after a transaction on it.
LEMMA TransformedAgrees ==
    ASSUME IsPackage(pkg), OwnInv, NEW t, IsText(t), NEW s \in Sites, NEW c \in Caps,
           ImpliedSet(s) \cap pkg.chan = {}
    PROVE  StampsIn(Transformed(t, s, c), ImpliedSet(s)) \subseteq {c}
<1>1. \A r \in ImpliedSet(s) : r \in Sites /\ ~Refused(r, c)
  BY ImpliedSets DEF Refused
<1>2. \A r \in ImpliedSet(s) : CapIn(Transformed(t, s, c), r) = c
  BY <1>1, TransformedSites
<1> QED
  BY <1>2 DEF StampsIn

\* No step makes the stamps of an implied set contradict each other.
LEMMA ContradictionStep ==
    OwnPackageInv /\ [Next]_vars /\ ~Contradiction(text) => ~Contradiction(text)'
<1> SUFFICES ASSUME OwnPackageInv, [Next]_vars, ~Contradiction(text)
             PROVE  ~Contradiction(text)'
  OBVIOUS
<1> SUFFICES ASSUME NEW s \in Sites, ImpliedSet(s) \cap pkg.chan = {}
             PROVE  ~(Cardinality(StampsIn(text', ImpliedSet(s))) > 1)
  <2>1. pkg' = pkg /\ \A x : ImpliedSet(x)' = ImpliedSet(x)
    BY PackageStays
  <2>2. \A x : StampsIn(text, ImpliedSet(x))' = StampsIn(text', ImpliedSet(x))
    BY <2>1 DEF StampsIn, CapIn
  <2> QED
    BY <2>1, <2>2 DEF Contradiction
<1>1. IsPackage(pkg) /\ IsText(text) /\ TypeOK /\ OwnInv /\ WriteInv
  BY DEF OwnPackageInv, TypeOK, IsText
<1>2. ~(Cardinality(StampsIn(text, ImpliedSet(s))) > 1)
  BY DEF Contradiction
<1>3. CASE StampsIn(text', ImpliedSet(s)) = StampsIn(text, ImpliedSet(s))
  BY <1>2, <1>3
<1>4. CASE WriteFile
  <2>1. PICK f \in left : Insert(f)
    BY <1>4 DEF WriteFile
  <2>2. OneStamp(text) /\ Open(text, left)
    BY <1>1, <1>4 DEF WriteFile, WriteInv
  <2> QED
    BY <1>1, <1>3, <2>1, <2>2, InsertKeepsStamps
<1>5. CASE Transaction
  <2>1. PICK r \in Sites, c \in Caps : text' = Transformed(text, r, c)
    BY <1>5 DEF Transaction
  <2>2. CASE s \notin ImpliedSet(r)
    BY <1>1, <1>3, <2>1, <2>2, TransformedElsewhere
  <2>3. CASE s \in ImpliedSet(r)
    <3>1. ImpliedSet(s) = ImpliedSet(r)
      BY <1>1, <2>3, ImpliedSets
    <3>2. StampsIn(text', ImpliedSet(s)) \subseteq {c}
      BY <1>1, <2>1, <3>1, TransformedAgrees
    <3>3. StampsIn(text', ImpliedSet(s)) \in SUBSET Caps
      BY <3>2
    <3> QED
      BY <3>2, <3>3, FewStamps
  <2> QED
    BY <2>2, <2>3
<1>6. CASE text' = text
  BY <1>2, <1>6
<1> QED
  BY <1>1, <1>4, <1>5, <1>6
     DEF Next, Analyze, PlanComponent, EndPlan, ReadFails, Check, Leave, Crash, Refreshed,
         OwnInv, vars

\* Neither a propagation that stops halfway nor a transaction on what it left
\* makes the stamps of an implied set contradict each other.
THEOREM NoneContradicts ==
    ASSUME OwnTypes
    PROVE  Spec => NoContradictionMade
<1>1. OwnPackageInv /\ [Next]_vars => [~Contradiction(text) => ~Contradiction(text)']_vars
  BY ContradictionStep
<1> QED
  BY <1>1, OwnPackage, PTL DEF Spec, NoContradictionMade
---------------------------------------------------------------------------
(* What crashes and transactions leave between two runs.                   *)

\* Where the text differs from what the user has, one stamp was inserted, and
\* the user's text asks for it there, unless the stamps of the implied set have
\* come to contradict each other.
Apart(t, b, s) ==
    /\ b[pkg.expr[s]] = <<>>
    /\ \E d \in Caps :
          /\ t[pkg.expr[s]] = <<d>> /\ ~Refused(s, d)
          /\ \/ StampsIn(b, ImpliedSet(s)) = {d}
             \/ \E x, y \in StampsIn(t, ImpliedSet(s)) : x # y

Diverged(t, b) ==
    /\ \A e \in Exprs : (\A s \in Sites : pkg.expr[s] # e) => t[e] = b[e]
    /\ \A s \in Sites : t[pkg.expr[s]] = b[pkg.expr[s]] \/ Apart(t, b, s)

RerunInv == Diverged(text, base)

\* A site without a stamp, and one with a single stamp.
LEMMA CapOf ==
    ASSUME NEW t, NEW s
    PROVE  /\ t[pkg.expr[s]] = <<>> => CapIn(t, s) = None
           /\ \A d : t[pkg.expr[s]] = <<d>> => CapIn(t, s) = d
<1>1. \A d : <<d>> # <<>> /\ Len(<<d>>) = 1 /\ <<d>>[1] = d
  OBVIOUS
<1> QED
  BY <1>1 DEF CapIn

\* The stamps that the user has are also in the text.
LEMMA UserStamps ==
    ASSUME IsPackage(pkg), NEW t, NEW b, Diverged(t, b), NEW s \in Sites
    PROVE  StampsIn(b, ImpliedSet(s)) \subseteq StampsIn(t, ImpliedSet(s))
<1> SUFFICES ASSUME NEW c \in StampsIn(b, ImpliedSet(s)) PROVE c \in StampsIn(t, ImpliedSet(s))
  OBVIOUS
<1>1. PICK r \in ImpliedSet(s) : c = CapIn(b, r) /\ c # None
  BY DEF StampsIn
<1>2. r \in Sites /\ b[pkg.expr[r]] # <<>>
  BY <1>1, ImpliedSets, CapOf
<1>3. t[pkg.expr[r]] = b[pkg.expr[r]]
  BY <1>2 DEF Diverged, Apart
<1>4. CapIn(t, r) = c
  BY <1>1, <1>3 DEF CapIn
<1> QED
  BY <1>1, <1>4 DEF StampsIn

\* A file is written with what the user's text asks for.
LEMMA InsertDiverges ==
    ASSUME TypeOK, OwnInv, OneStamp(text), Open(text, left), NEW f \in left, Insert(f), RerunInv
    PROVE  Diverged(text', base)
<1>1. IsPackage(pkg) /\ IsText(text) /\ IsText(base)
  BY DEF TypeOK, IsText
<1>2. \A s \in Sites : StampsIn(text', ImpliedSet(s)) = StampsIn(text, ImpliedSet(s))
  BY InsertKeepsStamps
<1>3. ASSUME NEW s \in Sites, text'[pkg.expr[s]] = text[pkg.expr[s]]
      PROVE  text'[pkg.expr[s]] = base[pkg.expr[s]] \/ Apart(text', base, s)
  BY <1>2, <1>3 DEF RerunInv, Diverged, Apart
<1>4. ASSUME NEW s \in Sites, text[pkg.expr[s]] = <<>>,
             NEW c \in StampsIn(text, ImpliedSet(s)), ~Refused(s, c), text'[pkg.expr[s]] = <<c>>
      PROVE  Apart(text', base, s)
  <2>1. base[pkg.expr[s]] = <<>>
    <3>1. \A d \in Caps : <<d>> # <<>>
      OBVIOUS
    <3> QED
      BY <1>4, <3>1 DEF RerunInv, Diverged, Apart
  <2>2. /\ ImpliedSet(s) \subseteq Sites
        /\ \A r \in ImpliedSet(s) : ImpliedSet(r) = ImpliedSet(s)
    BY <1>1, ImpliedSets
  <2>3. c \in Caps
    BY <1>1, <2>2, StampsType
  <2>4. \A x \in StampsIn(text, ImpliedSet(s)) : x = c
    BY DEF OneStamp
  <2>5. \A x \in StampsIn(base, ImpliedSet(s)) : x = c
    BY <1>1, <2>4, UserStamps DEF RerunInv
  <2>6. c \in StampsIn(base, ImpliedSet(s))
    <3>1. PICK r \in ImpliedSet(s) : c = CapIn(text, r) /\ c # None
      BY DEF StampsIn
    <3>2. CASE text[pkg.expr[r]] = base[pkg.expr[r]]
      BY <3>1, <3>2 DEF StampsIn, CapIn
    <3>3. CASE Apart(text, base, r)
      <4>1. PICK d \in Caps :
              /\ text[pkg.expr[r]] = <<d>>
              /\ \/ StampsIn(base, ImpliedSet(s)) = {d}
                 \/ \E x, y \in StampsIn(text, ImpliedSet(s)) : x # y
        BY <2>2, <3>3 DEF Apart
      <4>2. d = c
        BY <3>1, <4>1, CapOf
      <4> QED
        BY <2>4, <4>1, <4>2
    <3> QED
      BY <2>2, <3>2, <3>3 DEF RerunInv, Diverged
  <2>7. StampsIn(base, ImpliedSet(s)) = {c}
    BY <2>5, <2>6
  <2> QED
    BY <1>4, <2>1, <2>3, <2>7 DEF Apart
<1>5. \A s \in Sites : text'[pkg.expr[s]] = base[pkg.expr[s]] \/ Apart(text', base, s)
  BY <1>3, <1>4, Inserted
<1>6. \A e \in Exprs : (\A s \in Sites : pkg.expr[s] # e) => text'[e] = base[e]
  BY Inserted DEF RerunInv, Diverged
<1> QED
  BY <1>5, <1>6 DEF Diverged

\* A transaction makes the same of the text and of what the user has, but for a
\* channel element that refuses the stamp: there it contradicts the root.
LEMMA TransactionDiverges ==
    ASSUME IsPackage(pkg), OwnInv, NEW t, IsText(t), NEW b, IsText(b), Diverged(t, b),
           NEW s \in Sites, NEW c \in Caps
    PROVE  Diverged(Transformed(t, s, c), Transformed(b, s, c))
<1> DEFINE u == Transformed(t, s, c)
           v == Transformed(b, s, c)
<1>1. \A e \in Exprs : (\A r \in Sites : pkg.expr[r] # e) => u[e] = v[e]
  BY TransformedSites DEF Diverged
<1>2. ASSUME NEW r \in Sites PROVE u[pkg.expr[r]] = v[pkg.expr[r]] \/ Apart(u, v, r)
  <2> DEFINE e == pkg.expr[r]
  <2>1. t[e] = b[e] \/ Apart(t, b, r)
    BY DEF Diverged
  <2>2. CASE r = s \/ (r \in ImpliedSet(s) /\ ~Refused(r, c))
    <3>1. u[e] = Stamped(t[e], c) /\ v[e] = Stamped(b[e], c)
      BY <2>2, TransformedSites
    <3>2. CASE t[e] = b[e]
      BY <3>1, <3>2
    <3>3. CASE Apart(t, b, r)
      <4>1. b[e] = <<>> /\ \E d \in Caps : t[e] = <<d>>
        BY <3>3 DEF Apart
      <4>2. /\ Stamped(<<>>, c) = <<c>>
            /\ \A d \in Caps : Stamped(<<d>>, c) = <<c>>
        <5>1. <<>> \in Seq(Caps)
          OBVIOUS
        <5> QED
          BY <5>1, StampedIs
      <4>3. Stamped(t[e], c) = <<c>> /\ Stamped(b[e], c) = <<c>>
        BY <4>1, <4>2
      <4> QED
        BY <3>1, <4>3
    <3> QED
      BY <2>1, <3>2, <3>3
  <2>3. CASE ~(r = s \/ (r \in ImpliedSet(s) /\ ~Refused(r, c)))
    <3>1. u[e] = t[e] /\ v[e] = b[e] /\ CapIn(u, r) = CapIn(t, r)
      BY <2>3, TransformedSites
    <3>2. CASE t[e] = b[e]
      BY <3>1, <3>2
    <3>3. CASE Apart(t, b, r) /\ r \notin ImpliedSet(s)
      <4>1. /\ StampsIn(u, ImpliedSet(r)) = StampsIn(t, ImpliedSet(r))
            /\ StampsIn(v, ImpliedSet(r)) = StampsIn(b, ImpliedSet(r))
        BY <3>3, TransformedElsewhere
      <4> HIDE DEF u, v
      <4>2. Apart(u, v, r)
        BY <3>1, <3>3, <4>1 DEF Apart
      <4> QED
        BY <4>2
    <3>4. CASE Apart(t, b, r) /\ r \in ImpliedSet(s) /\ Refused(r, c)
      <4>1. PICK d \in Caps : b[e] = <<>> /\ t[e] = <<d>> /\ ~Refused(r, d)
        BY <3>4 DEF Apart
      <4>2. d # c
        BY <3>4, <4>1
      <4>3. CapIn(u, r) = d
        BY <3>1, <4>1, CapOf
      <4>4. CapIn(u, s) = c
        BY TransformedSites
      <4>5. r \in ImpliedSet(r) /\ s \in ImpliedSet(r)
        BY <3>4, ImpliedSets
      <4>6. c # None /\ d # None
        BY DEF Caps, None
      <4> HIDE DEF u, v
      <4>7. c \in StampsIn(u, ImpliedSet(r)) /\ d \in StampsIn(u, ImpliedSet(r))
        BY <4>3, <4>4, <4>5, <4>6 DEF StampsIn
      <4>8. \E x, y \in StampsIn(u, ImpliedSet(r)) : x # y
        BY <4>2, <4>7
      <4>9. v[e] = <<>> /\ u[e] = <<d>>
        BY <3>1, <4>1
      <4>10. Apart(u, v, r)
        BY <4>1, <4>8, <4>9 DEF Apart
      <4> QED
        BY <4>10
    <3> QED
      BY <2>1, <2>3, <3>2, <3>3, <3>4
  <2> QED
    BY <2>2, <2>3
<1> HIDE DEF u, v
<1>3. Diverged(u, v)
  BY <1>1, <1>2 DEF Diverged
<1> QED
  BY <1>3 DEF u, v

LEMMA RerunStep ==
    OwnPackageInv /\ RerunInv /\ [Next]_vars => RerunInv'
<1> SUFFICES ASSUME OwnPackageInv, RerunInv, [Next]_vars PROVE RerunInv'
  OBVIOUS
<1>1. IsPackage(pkg) /\ IsText(text) /\ IsText(base) /\ TypeOK /\ OwnInv /\ WriteInv
  BY DEF OwnPackageInv, TypeOK, IsText
<1>2. ASSUME WriteFile PROVE Diverged(text', base')
  <2>1. PICK f \in left : Insert(f)
    BY <1>2 DEF WriteFile
  <2>2. OneStamp(text) /\ Open(text, left)
    BY <1>1, <1>2 DEF WriteFile, WriteInv
  <2>3. base' = base
    BY <1>2 DEF WriteFile
  <2> QED
    BY <1>1, <2>1, <2>2, <2>3, InsertDiverges
<1>3. ASSUME Transaction PROVE Diverged(text', base')
  <2>1. PICK s \in Sites, c \in Caps : /\ text' = Transformed(text, s, c)
                                       /\ base' = Transformed(base, s, c)
    BY <1>3 DEF Transaction
  <2> QED
    BY <1>1, <2>1, TransactionDiverges DEF RerunInv
<1>4. ASSUME UNCHANGED <<text, base>> PROVE Diverged(text', base')
  BY <1>4 DEF RerunInv
<1>5. Diverged(text', base')
  BY <1>1, <1>2, <1>3, <1>4
     DEF Next, Analyze, PlanComponent, EndPlan, ReadFails, Check, Leave, Crash, Refreshed,
         OwnInv, vars
<1>6. pkg' = pkg /\ \A s : ImpliedSet(s)' = ImpliedSet(s)
  BY PackageStays
<1>7. /\ \A s : StampsIn(text, ImpliedSet(s))' = StampsIn(text', ImpliedSet(s))
      /\ \A s : StampsIn(base, ImpliedSet(s))' = StampsIn(base', ImpliedSet(s))
  BY <1>6 DEF StampsIn, CapIn
<1> QED
  BY <1>5, <1>6, <1>7 DEF RerunInv, Diverged, Apart, Refused

\* At the end of a run the text is the user's with the one stamp that is implied
\* for it.
LEMMA RerunMeans ==
    ASSUME OwnPackageInv, RerunInv, phase = "checked", NEW e \in Exprs
    PROVE  \/ Implied(base, e) = {} /\ text[e] = base[e]
           \/ \E c \in Implied(base, e) : Implied(base, e) = {c} /\ text[e] = <<c>> \o base[e]
<1>1. IsPackage(pkg) /\ IsText(text) /\ IsText(base) /\ OwnInv /\ OneStamp(text) /\ Due(text, {})
  BY DEF OwnPackageInv, TypeOK, IsText, WriteInv
<1>2. CASE \A s \in Sites : pkg.expr[s] # e
  <2>1. text[e] = base[e]
    BY <1>2 DEF RerunInv, Diverged
  <2>2. {s \in Sites : pkg.expr[s] = e} = {}
    BY <1>2
  <2>3. Implied(base, e) = {}
    BY <2>2 DEF Implied
  <2> QED
    BY <2>1, <2>3
<1>3. ASSUME NEW s \in Sites, pkg.expr[s] = e
      PROVE  Implied(base, e) = {c \in StampsIn(base, ImpliedSet(s)) : CapIn(base, s) # c}
  <2>1. {r \in Sites : pkg.expr[r] = e} = {s}
    BY <1>1, <1>3 DEF OwnInv
  <2> DEFINE D(x) == {c \in StampsIn(base, ImpliedSet(x)) : CapIn(base, x) # c}
  <2>2. Implied(base, e) = UNION {D(x) : x \in {s}}
    BY <2>1 DEF Implied
  <2> QED
    BY <2>2
<1>4. ASSUME NEW s \in Sites, pkg.expr[s] = e, text[e] = base[e]
      PROVE  Implied(base, e) = {}
  <2>1. \A c \in StampsIn(base, ImpliedSet(s)) : CapIn(text, s) = c
    BY <1>1, UserStamps DEF RerunInv, Due
  <2>2. CapIn(text, s) = CapIn(base, s)
    BY <1>4 DEF CapIn
  <2> QED
    BY <1>3, <1>4, <2>1, <2>2
<1>5. ASSUME NEW s \in Sites, pkg.expr[s] = e, Apart(text, base, s)
      PROVE  \E c \in Implied(base, e) : Implied(base, e) = {c} /\ text[e] = <<c>> \o base[e]
  <2>1. PICK c \in Caps : /\ text[e] = <<c>>
                          /\ \/ StampsIn(base, ImpliedSet(s)) = {c}
                             \/ \E x, y \in StampsIn(text, ImpliedSet(s)) : x # y
    BY <1>5 DEF Apart
  <2>2. StampsIn(base, ImpliedSet(s)) = {c}
    BY <1>1, <2>1 DEF OneStamp
  <2>3. base[e] = <<>> /\ CapIn(base, s) = None /\ c # None
    BY <1>5, CapOf DEF Apart, Caps, None
  <2>4. Implied(base, e) = {c}
    BY <1>3, <1>5, <2>2, <2>3
  <2>5. text[e] = <<c>> \o <<>>
    BY <2>1
  <2> QED
    BY <2>3, <2>4, <2>5
<1> QED
  BY <1>2, <1>4, <1>5 DEF RerunInv, Diverged

\* However often propagation was stopped, and whatever transactions came in
\* between, a run that completes ends with what one run would have made.
THEOREM RerunsConverge ==
    ASSUME OwnTypes
    PROVE  Spec => []RerunConverges
<1>1. Init => RerunInv
  BY DEF Init, RerunInv, Diverged
<1>2. Spec => []RerunInv
  BY <1>1, OwnPackage, RerunStep, PTL DEF Spec
<1>3. OwnPackageInv /\ RerunInv => RerunConverges
  BY RerunMeans DEF RerunConverges
<1> QED
  BY <1>2, <1>3, OwnPackage, PTL
=============================================================================
