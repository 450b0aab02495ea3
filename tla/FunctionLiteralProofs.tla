----------------------- MODULE FunctionLiteralProofs ------------------------
(***************************************************************************)
(* The two checkers that follow function literals.                         *)
(*                                                                         *)
(* The closure check, on every function: what escapes on a path that the   *)
(* walk follows has been reported, and in a straight function a report     *)
(* names a literal that a path brings there.  The walk and the flow are    *)
(* functions of the number of a statement, and what they are at a number   *)
(* is given by what they are at smaller ones.  The proof shows that they   *)
(* are what their definitions say, and of which type; then it follows the  *)
(* walk along a run, and compares it with the flow.                        *)
(*                                                                         *)
(* \restore regions, every one that stores each thing once: what an        *)
(* accepted region gives back has one owner for each node.  The invariant  *)
(* says who holds a node while the region runs: one field or one token of  *)
(* a variable, where a field whose projection was moved out and stored     *)
(* does not count, and a variable whose token was stored does not either.  *)
(***************************************************************************)
EXTENDS ClosureEscape, RestoreRegion, WellFoundedInduction, TLAPS

---------------------------------------------------------------------------
(* Numbers.                                                                *)

\* A set of numbers that is not empty has a least one.
LEMMA Least ==
    ASSUME NEW T \in SUBSET Nat, T # {}
    PROVE  \E m \in T : \A k \in T : m <= k
<1>1. \E m \in T : \A k \in T : ~(<<k, m>> \in OpToRel(<, Nat))
  BY NatLessThanWellFounded, WFMin, Zenon
<1>2. PICK m \in T : \A k \in T : ~(<<k, m>> \in OpToRel(<, Nat))
  BY <1>1
<1>3. \A k \in T : ~(k < m)
  BY <1>2 DEF OpToRel
<1> QED
  BY <1>3

\* A set that has each number whose smaller ones it has, up to a last, has all
\* of them.
LEMMA EachFromSmaller ==
    ASSUME NEW last \in Nat, NEW T,
           \A n \in 0 .. last : (\A m \in 0 .. n - 1 : m \in T) => n \in T
    PROVE  \A n \in 0 .. last : n \in T
<1> DEFINE Missing == {n \in 0 .. last : n \notin T}
<1> SUFFICES ASSUME Missing # {} PROVE FALSE
  OBVIOUS
<1>1. Missing \in SUBSET Nat
  OBVIOUS
<1> HIDE DEF Missing
<1>2. PICK n \in Missing : \A k \in Missing : n <= k
  BY <1>1, Least
<1>3. n \in 0 .. last /\ n \notin T
  BY DEF Missing
<1>4. ASSUME NEW m \in 0 .. n - 1 PROVE m \in T
  <2>1. m \in 0 .. last /\ ~(n <= m)
    BY <1>3
  <2> QED
    BY <2>1, <1>2 DEF Missing
<1> QED
  BY <1>3, <1>4

---------------------------------------------------------------------------
(* The walk and the flow of a function.                                    *)

IsBody(b) ==
    b \in Seq(Range(b)) /\ (\A n \in DOMAIN b : IsStatement(b[n], n)) /\ IsNested(b)

\* The functions to check are bodies.
LEMMA BodiesOf == ASSUME NEW b \in Functions PROVE IsBody(b)
BY FunctionsAssumption DEF IsBody

\* The numbers of the statements of a body.
LEMMA NumbersOf ==
    ASSUME NEW b, IsBody(b)
    PROVE  Len(b) \in Nat /\ DOMAIN b = 1 .. Len(b)
BY DEF IsBody

\* What the walk finds, and what becomes of runs.
Results(b) == [env : Envs, errs : SUBSET ((DOMAIN b) \X Capturing)]
Flows(b)   == [next : SUBSET Holdings, brk : SUBSET Holdings, cont : SUBSET Holdings,
               seen : SUBSET ((DOMAIN b) \X (Lits \cup {Unknown}))]

\* The walk, and the flow, of the statements up to the k-th.
IsWalk(f, b, k) ==
    f = [n \in 0 .. k |->
            [env \in Envs |-> IF n = 0 THEN Walked(env, {}) ELSE Step(b[n], n, env, f)]]

IsFlow(f, b, k) ==
    f = [n \in 0 .. k |->
            [H \in SUBSET Holdings |->
                IF n = 0 THEN Flow(H, {}, {}, {}) ELSE FlowOn(b[n], n, H, f)]]

\* A statement is walked with what the smaller numbers have.
LEMMA StepSame ==
    ASSUME NEW n \in Nat, NEW s, IsStatement(s, n), NEW env, NEW f, NEW g,
           \A m \in 0 .. n - 1 : f[m] = g[m]
    PROVE  Step(s, n, env, f) = Step(s, n, env, g)
<1>1. f[s.next] = g[s.next] /\ \A c \in Blocks(s) : f[c] = g[c]
  BY DEF IsStatement
<1>2. checkSourceStmt(s, n, env, f) = checkSourceStmt(s, n, env, g)
  <2>1. CASE s.op \in {"set"} \cup Using \cup {"multi", "labeled", "select"} \cup Jumping
    BY <2>1 DEF checkSourceStmt, Using, Jumping
  <2>2. CASE s.op \in {"block", "if"}
    BY <1>1, <2>2 DEF checkSourceStmt, Using, Blocks
  <2>3. CASE s.op = "for"
    BY <1>1, <2>3 DEF checkSourceStmt, Using, Blocks
  <2>4. CASE s.op = "switch"
    <3>1. {f[c][env] : c \in s.cases} = {g[c][env] : c \in s.cases}
      BY <1>1, <2>4 DEF Blocks
    <3> QED
      BY <3>1, <2>4 DEF checkSourceStmt, Using
  <2> QED
    BY <2>1, <2>2, <2>3, <2>4 DEF IsStatement, Assigning, Branching
<1> QED
  BY <1>1, <1>2 DEF Step

\* Runs go through a statement as the smaller numbers say.
LEMMA FlowSame ==
    ASSUME NEW n \in Nat, NEW s, IsStatement(s, n), NEW H, NEW f, NEW g,
           \A m \in 0 .. n - 1 : f[m] = g[m]
    PROVE  FlowOn(s, n, H, f) = FlowOn(s, n, H, g)
<1>1. f[s.next] = g[s.next] /\ \A c \in Blocks(s) : f[c] = g[c]
  BY DEF IsStatement
<1>2. StmtFlow(s, n, H, f) = StmtFlow(s, n, H, g)
  <2>1. CASE s.op \in Assigning \cup Using \cup Jumping
    BY <2>1 DEF StmtFlow, Assigning, Using, Jumping
  <2>2. CASE s.op \in {"block", "labeled", "if"}
    BY <1>1, <2>2 DEF StmtFlow, Blocks
  <2>3. CASE s.op = "for"
    <3>1. \A K : Turn(s, K, f) = Turn(s, K, g)
      BY <1>1, <2>3 DEF Turn, Blocks
    <3> QED
      BY <3>1, <2>3 DEF StmtFlow
  <2>4. CASE s.op \in {"switch", "select"}
    <3>1. {f[c][H] : c \in s.cases} = {g[c][H] : c \in s.cases}
      BY <1>1, <2>4 DEF Blocks
    <3> QED
      BY <3>1, <2>4 DEF StmtFlow
  <2> QED
    BY <2>1, <2>2, <2>3, <2>4 DEF IsStatement, Branching
<1> QED
  BY <1>1, <1>2 DEF FlowOn

\* There is a walk of the statements up to each.
LEMMA WalkExists ==
    ASSUME NEW b, IsBody(b)
    PROVE  \A k \in 0 .. Len(b) : \E f : IsWalk(f, b, k)
<1> USE NumbersOf
<1> DEFINE T == {k \in 0 .. Len(b) : \E f : IsWalk(f, b, k)}
<1>1. ASSUME NEW k \in 0 .. Len(b), \A m \in 0 .. k - 1 : m \in T
      PROVE  k \in T
  <2>1. CASE k = 0
    <3> DEFINE f == [n \in 0 .. 0 |-> [env \in Envs |-> Walked(env, {})]]
    <3>1. IsWalk(f, b, 0)
      BY DEF IsWalk
    <3> QED
      BY <3>1, <2>1
  <2>2. CASE k # 0
    <3>1. k - 1 \in 0 .. k - 1 /\ k \in DOMAIN b /\ k \in Nat
      BY <2>2
    <3>2. PICK g : IsWalk(g, b, k - 1)
      BY <3>1, <1>1
    <3> DEFINE f == [n \in 0 .. k |-> IF n = k THEN [env \in Envs |-> Step(b[n], n, env, g)]
                                      ELSE g[n]]
    <3>3. \A n \in 0 .. k - 1 : f[n] = g[n]
      BY <3>1
    <3>4. f[k] = [env \in Envs |-> Step(b[k], k, env, g)] /\ DOMAIN f = 0 .. k
      BY <3>1
    <3>5. f = [n \in 0 .. k |-> f[n]]
      OBVIOUS
    <3> HIDE DEF f
    <3>6. ASSUME NEW n \in 0 .. k, n # 0, NEW env
          PROVE  Step(b[n], n, env, f) = Step(b[n], n, env, g)
      <4>1. n \in DOMAIN b /\ n \in Nat /\ \A m \in 0 .. n - 1 : f[m] = g[m]
        BY <3>3, <3>6
      <4> QED
        BY <4>1, StepSame DEF IsBody
    <3>7. ASSUME NEW n \in 0 .. k
          PROVE  f[n] = [env \in Envs |-> IF n = 0 THEN Walked(env, {}) ELSE Step(b[n], n, env, f)]
      <4>1. CASE n = k
        BY <3>4, <3>6, <4>1, <2>2
      <4>2. CASE n # k
        <5>1. n \in 0 .. k - 1
          BY <4>2
        <5>2. g[n] = [env \in Envs |-> IF n = 0 THEN Walked(env, {}) ELSE Step(b[n], n, env, g)]
          BY <3>2, <5>1 DEF IsWalk
        <5>3. [env \in Envs |-> IF n = 0 THEN Walked(env, {}) ELSE Step(b[n], n, env, g)]
              = [env \in Envs |-> IF n = 0 THEN Walked(env, {}) ELSE Step(b[n], n, env, f)]
          BY <3>6
        <5> QED
          BY <3>3, <5>1, <5>2, <5>3
      <4> QED
        BY <4>1, <4>2
    <3>8. IsWalk(f, b, k)
      BY <3>5, <3>7, Zenon DEF IsWalk
    <3> QED
      BY <3>8
  <2> QED
    BY <2>1, <2>2
<1> HIDE DEF T
<1>2. \A k \in 0 .. Len(b) : k \in T
  BY <1>1, EachFromSmaller
<1> QED
  BY <1>2 DEF T

\* There is a flow of the statements up to each.
LEMMA FlowExists ==
    ASSUME NEW b, IsBody(b)
    PROVE  \A k \in 0 .. Len(b) : \E f : IsFlow(f, b, k)
<1> USE NumbersOf
<1> DEFINE T == {k \in 0 .. Len(b) : \E f : IsFlow(f, b, k)}
<1>1. ASSUME NEW k \in 0 .. Len(b), \A m \in 0 .. k - 1 : m \in T
      PROVE  k \in T
  <2>1. CASE k = 0
    <3> DEFINE f == [n \in 0 .. 0 |-> [H \in SUBSET Holdings |-> Flow(H, {}, {}, {})]]
    <3>1. IsFlow(f, b, 0)
      BY DEF IsFlow
    <3> QED
      BY <3>1, <2>1
  <2>2. CASE k # 0
    <3>1. k - 1 \in 0 .. k - 1 /\ k \in DOMAIN b /\ k \in Nat
      BY <2>2
    <3>2. PICK g : IsFlow(g, b, k - 1)
      BY <3>1, <1>1
    <3> DEFINE f == [n \in 0 .. k |->
                        IF n = k THEN [H \in SUBSET Holdings |-> FlowOn(b[n], n, H, g)] ELSE g[n]]
    <3>3. \A n \in 0 .. k - 1 : f[n] = g[n]
      BY <3>1
    <3>4. f[k] = [H \in SUBSET Holdings |-> FlowOn(b[k], k, H, g)] /\ DOMAIN f = 0 .. k
      BY <3>1
    <3>5. f = [n \in 0 .. k |-> f[n]]
      OBVIOUS
    <3> HIDE DEF f
    <3>6. ASSUME NEW n \in 0 .. k, n # 0, NEW H
          PROVE  FlowOn(b[n], n, H, f) = FlowOn(b[n], n, H, g)
      <4>1. n \in DOMAIN b /\ n \in Nat /\ \A m \in 0 .. n - 1 : f[m] = g[m]
        BY <3>3, <3>6
      <4> QED
        BY <4>1, FlowSame DEF IsBody
    <3>7. ASSUME NEW n \in 0 .. k
          PROVE  f[n] = [H \in SUBSET Holdings |->
                            IF n = 0 THEN Flow(H, {}, {}, {}) ELSE FlowOn(b[n], n, H, f)]
      <4>1. CASE n = k
        BY <3>4, <3>6, <4>1, <2>2
      <4>2. CASE n # k
        <5>1. n \in 0 .. k - 1
          BY <4>2
        <5>2. g[n] = [H \in SUBSET Holdings |->
                         IF n = 0 THEN Flow(H, {}, {}, {}) ELSE FlowOn(b[n], n, H, g)]
          BY <3>2, <5>1 DEF IsFlow
        <5>3. [H \in SUBSET Holdings |->
                  IF n = 0 THEN Flow(H, {}, {}, {}) ELSE FlowOn(b[n], n, H, g)]
              = [H \in SUBSET Holdings |->
                  IF n = 0 THEN Flow(H, {}, {}, {}) ELSE FlowOn(b[n], n, H, f)]
          BY <3>6
        <5> QED
          BY <3>3, <5>1, <5>2, <5>3
      <4> QED
        BY <4>1, <4>2
    <3>8. IsFlow(f, b, k)
      BY <3>5, <3>7, Zenon DEF IsFlow
    <3> QED
      BY <3>8
  <2> QED
    BY <2>1, <2>2
<1> HIDE DEF T
<1>2. \A k \in 0 .. Len(b) : k \in T
  BY <1>1, EachFromSmaller
<1> QED
  BY <1>2 DEF T

\* checkSourceBlock is what its definition says of it.
LEMMA WalkIs ==
    ASSUME NEW b, IsBody(b)
    PROVE  LET walk == checkSourceBlock(b)
           IN \A env \in Envs :
                /\ walk[0][env] = Walked(env, {})
                /\ \A n \in DOMAIN b : walk[n][env] = Step(b[n], n, env, walk)
<1> USE NumbersOf
<1> DEFINE walk == checkSourceBlock(b)
<1>1. walk = CHOOSE f : IsWalk(f, b, Len(b))
  BY DEF checkSourceBlock, IsWalk
<1>2. \E f : IsWalk(f, b, Len(b))
  BY WalkExists
<1>3. IsWalk(walk, b, Len(b))
  BY <1>1, <1>2, Zenon
<1> HIDE DEF walk
<1>4. \A n \in 0 .. Len(b) :
         walk[n] = [env \in Envs |-> IF n = 0 THEN Walked(env, {}) ELSE Step(b[n], n, env, walk)]
  BY <1>3 DEF IsWalk
<1>5. \A env \in Envs : walk[0][env] = Walked(env, {})
  <2>1. 0 \in 0 .. Len(b)
    OBVIOUS
  <2>2. walk[0] = [env \in Envs |-> IF 0 = 0 THEN Walked(env, {}) ELSE Step(b[0], 0, env, walk)]
    BY <2>1, <1>4
  <2> QED
    BY <2>2
<1>6. \A n \in DOMAIN b : n \in 0 .. Len(b) /\ n # 0
  OBVIOUS
<1>7. \A env \in Envs : \A n \in DOMAIN b : walk[n][env] = Step(b[n], n, env, walk)
  BY <1>4, <1>6
<1> QED
  BY <1>5, <1>7 DEF walk

\* BlockFlow is what its definition says of it.
LEMMA FlowIs ==
    ASSUME NEW b, IsBody(b)
    PROVE  LET flow == BlockFlow(b)
           IN \A H \in SUBSET Holdings :
                /\ flow[0][H] = Flow(H, {}, {}, {})
                /\ \A n \in DOMAIN b : flow[n][H] = FlowOn(b[n], n, H, flow)
<1> USE NumbersOf
<1> DEFINE flow == BlockFlow(b)
<1>1. flow = CHOOSE f : IsFlow(f, b, Len(b))
  BY DEF BlockFlow, IsFlow
<1>2. \E f : IsFlow(f, b, Len(b))
  BY FlowExists
<1>3. IsFlow(flow, b, Len(b))
  BY <1>1, <1>2, Zenon
<1> HIDE DEF flow
<1>4. \A n \in 0 .. Len(b) :
         flow[n] = [H \in SUBSET Holdings |->
                        IF n = 0 THEN Flow(H, {}, {}, {}) ELSE FlowOn(b[n], n, H, flow)]
  BY <1>3 DEF IsFlow
<1>5. \A H \in SUBSET Holdings : flow[0][H] = Flow(H, {}, {}, {})
  <2>1. 0 \in 0 .. Len(b)
    OBVIOUS
  <2>2. flow[0] = [H \in SUBSET Holdings |->
                      IF 0 = 0 THEN Flow(H, {}, {}, {}) ELSE FlowOn(b[0], 0, H, flow)]
    BY <2>1, <1>4
  <2> QED
    BY <2>2
<1>6. \A n \in DOMAIN b : n \in 0 .. Len(b) /\ n # 0
  OBVIOUS
<1>7. \A H \in SUBSET Holdings : \A n \in DOMAIN b : flow[n][H] = FlowOn(b[n], n, H, flow)
  BY <1>4, <1>6
<1> QED
  BY <1>5, <1>7 DEF flow

---------------------------------------------------------------------------
(* Of which type they are.                                                 *)

\* The literals of an expression are literals.
LEMMA ExprType ==
    ASSUME NEW e, NEW env \in Envs
    PROVE  sourceClosuresForExpr(e, env) \in SUBSET Lits
BY DEF sourceClosuresForExpr, Envs

\* A value is a literal or none that is known.
LEMMA ValueType ==
    ASSUME NEW e \in Lits \cup Vars \cup {Unknown}, NEW h \in Holdings
    PROVE  Value(e, h) \in Lits \cup {Unknown}
BY DEF Value, Holdings

\* A statement that is walked with what has its type gives what has its type.
LEMMA StmtType ==
    ASSUME NEW b, IsBody(b), NEW n \in DOMAIN b, NEW walk, NEW env \in Envs,
           \A m \in 0 .. n - 1 : \A e \in Envs : walk[m][e] \in Results(b)
    PROVE  checkSourceStmt(b[n], n, env, walk) \in Results(b)
<1> DEFINE s == b[n]
<1>1. IsStatement(s, n)
  BY DEF IsBody
<1> HIDE DEF s
<1>2. \A c \in Blocks(s) : \A e \in Envs : walk[c][e] \in Results(b)
  BY <1>1 DEF IsStatement
<1>3. \A e \in Envs, f \in Envs : mergeClosureFlowEnv(e, f) \in Envs
  BY DEF mergeClosureFlowEnv, Envs
<1>4. \A r \in Results(b) : r.env \in Envs /\ r.errs \in SUBSET ((DOMAIN b) \X Capturing)
  BY DEF Results
<1>5. \A e \in Envs, R \in SUBSET ((DOMAIN b) \X Capturing) : Walked(e, R) \in Results(b)
  BY DEF Results, Walked
<1>6. CASE s.op = "set"
  <2>1. setClosureFlowValue(env, s.var, sourceClosuresForExpr(s.val, env)) \in Envs
    BY ExprType DEF setClosureFlowValue, Envs
  <2> DEFINE next == setClosureFlowValue(env, s.var, sourceClosuresForExpr(s.val, env))
  <2>2. Walked(next, {}) \in Results(b)
    BY <2>1, <1>5
  <2>3. checkSourceStmt(s, n, env, walk) = Walked(next, {})
    BY <1>6 DEF checkSourceStmt, Using
  <2> QED
    BY <2>2, <2>3 DEF s
<1>7. CASE s.op \in Using
  <2>1. ReportedAt(s, n, env) \in SUBSET ((DOMAIN b) \X Capturing)
    BY DEF ReportedAt
  <2>2. Walked(env, ReportedAt(s, n, env)) \in Results(b)
    BY <2>1, <1>5
  <2>3. checkSourceStmt(s, n, env, walk) = Walked(env, ReportedAt(s, n, env))
    BY <1>7 DEF checkSourceStmt, Using
  <2> QED
    BY <2>2, <2>3 DEF s
<1>8. CASE s.op = "block"
  BY <1>2, <1>8 DEF checkSourceStmt, Blocks, Using, s
<1>9. CASE s.op = "if"
  <2>1. walk[s.then][env] \in Results(b) /\ walk[s.else][env] \in Results(b)
    BY <1>2, <1>9 DEF Blocks
  <2> QED
    BY <2>1, <1>3, <1>4, <1>5, <1>9 DEF checkSourceStmt, Using, s
<1>10. CASE s.op = "for"
  <2> DEFINE out == walk[s.body][env]
             merged == mergeClosureFlowEnv(env, out.env)
             post == walk[s.post][merged]
  <2>1. out \in Results(b)
    BY <1>2, <1>10 DEF Blocks
  <2>2. merged \in Envs
    BY <2>1, <1>3, <1>4
  <2>3. post \in Results(b)
    BY <2>2, <1>2, <1>10 DEF Blocks
  <2>4. checkSourceStmt(s, n, env, walk) = Walked(post.env, out.errs \cup post.errs)
    BY <1>10 DEF checkSourceStmt, Using
  <2> QED
    BY <2>1, <2>3, <2>4, <1>4, <1>5 DEF s
<1>11. CASE s.op = "switch"
  <2> DEFINE cases == {walk[c][env] : c \in s.cases}
  <2>1. \A c \in cases : c \in Results(b)
    BY <1>2, <1>11 DEF Blocks
  <2> HIDE DEF cases
  <2>2. [v \in Vars |-> env[v] \cup UNION {c.env[v] : c \in cases}] \in Envs
    BY <2>1, <1>4 DEF Envs
  <2>3. UNION {c.errs : c \in cases} \in SUBSET ((DOMAIN b) \X Capturing)
    BY <2>1, <1>4
  <2>4. checkSourceCaseBlock(env, cases) \in Results(b)
    BY <2>2, <2>3, <1>5 DEF checkSourceCaseBlock
  <2> QED
    BY <2>4, <1>11 DEF checkSourceStmt, Using, s, cases
<1>12. CASE s.op \in {"multi", "labeled", "select"} \cup Jumping
  BY <1>5, <1>12 DEF checkSourceStmt, Using, Jumping, s
<1> QED
  BY <1>1, <1>6, <1>7, <1>8, <1>9, <1>10, <1>11, <1>12
     DEF IsStatement, Assigning, Branching

\* The walk gives environments, and reports of literals that capture.
LEMMA WalkType ==
    ASSUME NEW b, IsBody(b)
    PROVE  \A n \in 0 .. Len(b) : \A env \in Envs : checkSourceBlock(b)[n][env] \in Results(b)
<1> USE NumbersOf
<1> DEFINE walk == checkSourceBlock(b)
           T == {n \in 0 .. Len(b) : \A env \in Envs : walk[n][env] \in Results(b)}
<1>1. \A env \in Envs : /\ walk[0][env] = Walked(env, {})
                        /\ \A n \in DOMAIN b : walk[n][env] = Step(b[n], n, env, walk)
  BY WalkIs
<1> HIDE DEF walk
<1>2. ASSUME NEW k \in 0 .. Len(b), \A m \in 0 .. k - 1 : m \in T
      PROVE  k \in T
  <2> SUFFICES ASSUME NEW env \in Envs PROVE walk[k][env] \in Results(b)
    OBVIOUS
  <2>1. CASE k = 0
    <3>1. walk[k][env] = Walked(env, {})
      BY <2>1, <1>1
    <3> QED
      BY <3>1 DEF Results, Walked
  <2>2. CASE k # 0
    <3>1. k \in DOMAIN b /\ b[k].next \in 0 .. k - 1
      BY <2>2 DEF IsBody, IsStatement
    <3>2. \A m \in 0 .. k - 1 : \A e \in Envs : walk[m][e] \in Results(b)
      BY <1>2
    <3> DEFINE w == checkSourceStmt(b[k], k, env, walk)
               rest == walk[b[k].next][w.env]
    <3>3. w \in Results(b)
      BY <3>1, <3>2, StmtType
    <3>4. w.env \in Envs
      BY <3>3 DEF Results
    <3>5. rest \in Results(b)
      BY <3>1, <3>2, <3>4
    <3>6. walk[k][env] = Walked(rest.env, w.errs \cup rest.errs)
      BY <3>1, <1>1 DEF Step
    <3> HIDE DEF w, rest
    <3>7. rest.env \in Envs /\ w.errs \cup rest.errs \in SUBSET ((DOMAIN b) \X Capturing)
      BY <3>3, <3>5 DEF Results
    <3>8. Walked(rest.env, w.errs \cup rest.errs) \in Results(b)
      BY <3>7 DEF Results, Walked
    <3> QED
      BY <3>6, <3>8, Zenon DEF w, rest
  <2> QED
    BY <2>1, <2>2
<1> HIDE DEF T
<1>3. \A n \in 0 .. Len(b) : n \in T
  BY <1>2, EachFromSmaller
<1> QED
  BY <1>3 DEF T, walk

\* The parts of a flow, and a flow of such parts.
LEMMA FlowParts ==
    ASSUME NEW b
    PROVE  /\ \A f \in Flows(b) : /\ f.next \in SUBSET Holdings /\ f.brk \in SUBSET Holdings
                                  /\ f.cont \in SUBSET Holdings
                                  /\ f.seen \in SUBSET ((DOMAIN b) \X (Lits \cup {Unknown}))
           /\ \A next, brk, cont \in SUBSET Holdings,
                 seen \in SUBSET ((DOMAIN b) \X (Lits \cup {Unknown})) :
                 Flow(next, brk, cont, seen) \in Flows(b)
BY DEF Flows, Flow

\* The sum of flows is a flow.
LEMMA FlowSumType ==
    ASSUME NEW b, NEW F, \A f \in F : f \in Flows(b)
    PROVE  FlowSum(F) \in Flows(b)
<1>1. /\ UNION {f.next : f \in F} \in SUBSET Holdings
      /\ UNION {f.brk : f \in F} \in SUBSET Holdings
      /\ UNION {f.cont : f \in F} \in SUBSET Holdings
      /\ UNION {f.seen : f \in F} \in SUBSET ((DOMAIN b) \X (Lits \cup {Unknown}))
  <2>1. \A f \in F : f.next \subseteq Holdings /\ f.brk \subseteq Holdings /\ f.cont \subseteq Holdings
                     /\ f.seen \subseteq ((DOMAIN b) \X (Lits \cup {Unknown}))
    BY FlowParts
  <2> DEFINE S == (DOMAIN b) \X (Lits \cup {Unknown})
  <2>2. \A f \in F : f.seen \subseteq S
    BY <2>1
  <2> HIDE DEF S
  <2>3. UNION {f.seen : f \in F} \in SUBSET S
    BY <2>2
  <2> QED
    BY <2>1, <2>3 DEF S
<1> QED
  BY <1>1, FlowParts DEF FlowSum

\* So is a turn of a loop.
LEMMA TurnType ==
    ASSUME NEW b, NEW s, s.op = "for", NEW flow, NEW H \in SUBSET Holdings,
           \A c \in Blocks(s) : \A K \in SUBSET Holdings : flow[c][K] \in Flows(b)
    PROVE  Turn(s, H, flow) \in Flows(b)
<1> DEFINE out == flow[s.body][H]
           behind == flow[s.post][out.next \cup out.cont]
<1>1. out \in Flows(b)
  BY DEF Blocks
<1>2. out.next \cup out.cont \in SUBSET Holdings
  BY <1>1, FlowParts
<1>3. behind \in Flows(b)
  BY <1>2 DEF Blocks
<1>4. behind.next \in SUBSET Holdings
  BY <1>3, FlowParts
<1>5. Turn(s, H, flow) = [out EXCEPT !.next = behind.next]
  BY DEF Turn
<1> HIDE DEF out, behind
<1> QED
  BY <1>1, <1>4, <1>5 DEF Flows

\* What is seen at a use has its type.
LEMMA SeenType ==
    ASSUME NEW b, NEW n \in DOMAIN b, NEW s, s.val \in Lits \cup Vars \cup {Unknown},
           NEW H \in SUBSET Holdings
    PROVE  Seen(s, n, H) \in SUBSET ((DOMAIN b) \X (Lits \cup {Unknown}))
<1>1. \A h \in H : Value(s.val, h) \in Lits \cup {Unknown}
  BY ValueType
<1> QED
  BY <1>1 DEF Seen

\* A statement that is run with what has its type gives what has its type.
LEMMA StmtFlowType ==
    ASSUME NEW b, IsBody(b), NEW n \in DOMAIN b, NEW flow, NEW H \in SUBSET Holdings,
           \A m \in 0 .. n - 1 : \A K \in SUBSET Holdings : flow[m][K] \in Flows(b)
    PROVE  StmtFlow(b[n], n, H, flow) \in Flows(b)
<1> DEFINE s == b[n]
<1>1. IsStatement(s, n)
  BY DEF IsBody
<1> HIDE DEF s
<1>2. \A c \in Blocks(s) : \A K \in SUBSET Holdings : flow[c][K] \in Flows(b)
  BY <1>1 DEF IsStatement
<1>3. \A N, B, C \in SUBSET Holdings : Flow(N, B, C, {}) \in Flows(b)
  BY FlowParts
<1>4. CASE s.op \in Assigning
  <2>1. ASSUME NEW x \in Lits \cup {Unknown}, NEW h \in Holdings
        PROVE  [h EXCEPT ![s.var] = x] \in Holdings
    BY DEF Holdings
  <2>2. CASE s.op = "set"
    <3>1. s.val \in Lits \cup Vars \cup {Unknown}
      BY <1>1, <2>2 DEF IsStatement
    <3>2. \A h \in H : [h EXCEPT ![s.var] = Value(s.val, h)] \in Holdings
      BY <3>1, <2>1, ValueType
    <3>3. {[h EXCEPT ![s.var] = Value(s.val, h)] : h \in H} \in SUBSET Holdings
      BY <3>2
    <3> QED
      BY <3>3, <1>3, <2>2 DEF StmtFlow, s
  <2>3. CASE s.op = "multi"
    <3>1. \A h \in H : [h EXCEPT ![s.var] = Unknown] \in Holdings
      BY <2>1
    <3>2. {[h EXCEPT ![s.var] = Unknown] : h \in H} \in SUBSET Holdings
      BY <3>1
    <3> QED
      BY <3>2, <1>3, <2>3 DEF StmtFlow, s
  <2> QED
    BY <1>4, <2>2, <2>3 DEF Assigning
<1>5. CASE s.op \in Using
  <2>1. Seen(s, n, H) \in SUBSET ((DOMAIN b) \X (Lits \cup {Unknown}))
    BY <1>1, <1>5, SeenType DEF IsStatement
  <2>2. Flow({}, {}, {}, Seen(s, n, H)) \in Flows(b) /\ Flow(H, {}, {}, Seen(s, n, H)) \in Flows(b)
    BY <2>1, FlowParts
  <2> QED
    BY <2>2, <1>5 DEF StmtFlow, Using, s
<1>6. CASE s.op \in Jumping
  BY <1>3, <1>6 DEF StmtFlow, Jumping, s
<1>7. CASE s.op \in {"block", "labeled"}
  BY <1>2, <1>7 DEF StmtFlow, Blocks, s
<1>8. CASE s.op = "if"
  <2>1. flow[s.then][H] \in Flows(b) /\ flow[s.else][H] \in Flows(b)
    BY <1>2, <1>8 DEF Blocks
  <2>2. FlowSum({flow[s.then][H], flow[s.else][H]}) \in Flows(b)
    BY <2>1, FlowSumType
  <2> QED
    BY <2>2, <1>8 DEF StmtFlow, s
<1>9. CASE s.op = "for"
  <2> DEFINE one == Turn(s, H, flow)
             two == Turn(s, one.next, flow)
             all == Turn(s, H \cup one.next \cup two.next, flow)
  <2>1. StmtFlow(s, n, H, flow) = Flow(H \cup all.next \cup all.brk, {}, {}, all.seen)
    BY <1>9 DEF StmtFlow
  <2>2. one \in Flows(b)
    BY <1>2, <1>9, TurnType
  <2>3. one.next \in SUBSET Holdings
    BY <2>2, FlowParts
  <2>4. two \in Flows(b)
    BY <2>3, <1>2, <1>9, TurnType
  <2>5. H \cup one.next \cup two.next \in SUBSET Holdings
    BY <2>3, <2>4, FlowParts
  <2>6. all \in Flows(b)
    BY <2>5, <1>2, <1>9, TurnType
  <2> HIDE DEF all
  <2> QED
    BY <2>1, <2>6, FlowParts DEF s
<1>10. CASE s.op \in {"switch", "select"}
  <2> DEFINE all == FlowSum({flow[c][H] : c \in s.cases})
             next == all.next \cup all.brk \cup (IF s.op = "switch" THEN H ELSE {})
  <2>1. StmtFlow(s, n, H, flow) = [all EXCEPT !.next = next, !.brk = {}]
    BY <1>10 DEF StmtFlow
  <2>2. \A c \in s.cases : flow[c][H] \in Flows(b)
    BY <1>2, <1>10 DEF Blocks
  <2>3. all \in Flows(b)
    BY <2>2, FlowSumType
  <2> HIDE DEF all
  <2>4. next \in SUBSET Holdings
    BY <2>3, FlowParts
  <2> HIDE DEF next
  <2> QED
    BY <2>1, <2>3, <2>4 DEF Flows, s
<1> QED
  BY <1>1, <1>4, <1>5, <1>6, <1>7, <1>8, <1>9, <1>10 DEF IsStatement, Branching

\* The flow gives flows.
LEMMA FlowType ==
    ASSUME NEW b, IsBody(b)
    PROVE  \A n \in 0 .. Len(b) : \A H \in SUBSET Holdings : BlockFlow(b)[n][H] \in Flows(b)
<1> USE NumbersOf
<1> DEFINE flow == BlockFlow(b)
           T == {n \in 0 .. Len(b) : \A H \in SUBSET Holdings : flow[n][H] \in Flows(b)}
<1>1. \A H \in SUBSET Holdings : /\ flow[0][H] = Flow(H, {}, {}, {})
                                 /\ \A n \in DOMAIN b : flow[n][H] = FlowOn(b[n], n, H, flow)
  BY FlowIs
<1> HIDE DEF flow
<1>2. ASSUME NEW k \in 0 .. Len(b), \A m \in 0 .. k - 1 : m \in T
      PROVE  k \in T
  <2> SUFFICES ASSUME NEW H \in SUBSET Holdings PROVE flow[k][H] \in Flows(b)
    OBVIOUS
  <2>1. CASE k = 0
    BY <2>1, <1>1, FlowParts
  <2>2. CASE k # 0
    <3>1. k \in DOMAIN b /\ b[k].next \in 0 .. k - 1
      BY <2>2 DEF IsBody, IsStatement
    <3>2. \A m \in 0 .. k - 1 : \A K \in SUBSET Holdings : flow[m][K] \in Flows(b)
      BY <1>2
    <3> DEFINE f == StmtFlow(b[k], k, H, flow)
               rest == flow[b[k].next][f.next]
    <3>3. f \in Flows(b)
      BY <3>1, <3>2, StmtFlowType
    <3>4. f.next \in SUBSET Holdings
      BY <3>3, FlowParts
    <3>5. rest \in Flows(b)
      BY <3>1, <3>2, <3>4
    <3>6. flow[k][H] = Flow(rest.next, f.brk \cup rest.brk, f.cont \cup rest.cont,
                            f.seen \cup rest.seen)
      BY <3>1, <1>1 DEF FlowOn
    <3> HIDE DEF f, rest
    <3>7. /\ rest.next \in SUBSET Holdings /\ f.brk \cup rest.brk \in SUBSET Holdings
          /\ f.cont \cup rest.cont \in SUBSET Holdings
          /\ f.seen \cup rest.seen \in SUBSET ((DOMAIN b) \X (Lits \cup {Unknown}))
      BY <3>3, <3>5, FlowParts
    <3> QED
      BY <3>6, <3>7, FlowParts
  <2> QED
    BY <2>1, <2>2
<1> HIDE DEF T
<1>3. \A n \in 0 .. Len(b) : n \in T
  BY <1>2, EachFromSmaller
<1> QED
  BY <1>3 DEF T, flow

\* What is reported, of the source and of the SSA form, is of literals that
\* capture, and the SSA form reports what reaches a use.
LEMMA ReportsType ==
    ASSUME NEW b \in Functions
    PROVE  /\ checkSourceFuncBody(b) \in SUBSET ((DOMAIN b) \X Capturing)
           /\ SSAUses(b) \in SUBSET ((DOMAIN b) \X Capturing)
           /\ SSAUses(b) \subseteq Reaching(b)
<1>1. IsBody(b) /\ Len(b) \in 0 .. Len(b)
  BY BodiesOf, NumbersOf
<1>2. NoClosures \in Envs /\ {Nothing} \in SUBSET Holdings
  BY DEF NoClosures, Envs, Nothing, Holdings
<1>3. checkSourceFuncBody(b) \in SUBSET ((DOMAIN b) \X Capturing)
  <2>1. checkSourceBlock(b)[Len(b)][NoClosures] \in Results(b)
    BY <1>1, <1>2, WalkType
  <2> QED
    BY <2>1 DEF Results, checkSourceFuncBody
<1>4. Reaching(b) \in SUBSET ((DOMAIN b) \X (Lits \cup {Unknown}))
  <2>1. BlockFlow(b)[Len(b)][{Nothing}] \in Flows(b)
    BY <1>1, <1>2, FlowType
  <2> QED
    BY <2>1, FlowParts DEF Reaching
<1>5. SSAUses(b) \subseteq Reaching(b) /\ \A u \in SSAUses(b) : u[2] \in Capturing
  BY DEF SSAUses
<1>6. ASSUME NEW u \in SSAUses(b) PROVE u \in (DOMAIN b) \X Capturing
  <2>1. u \in (DOMAIN b) \X (Lits \cup {Unknown}) /\ u[2] \in Capturing
    BY <1>4, <1>5
  <2> QED
    BY <2>1
<1> QED
  BY <1>3, <1>5, <1>6

---------------------------------------------------------------------------
(* What is left to run.                                                    *)

\* The ends of a turn belong to loops.
IsItem(i, b) ==
    /\ i \in [do : {"run", "post", "end", "again"}, of : DOMAIN b]
    /\ i.do \in {"post", "again"} => b[i.of].op = "for"

Items(b) == {i \in [do : {"run", "post", "end", "again"}, of : DOMAIN b] : IsItem(i, b)}

\* The types that the steps keep.
TInv ==
    /\ body \in Functions
    /\ todo \in Seq(Items(body))
    /\ TypeOK

\* Items of the numbers of statements.
LEMMA ItemType ==
    ASSUME NEW b, NEW n \in DOMAIN b
    PROVE  /\ Item("run", n) \in Items(b) /\ Item("end", n) \in Items(b)
           /\ b[n].op = "for" => Item("post", n) \in Items(b) /\ Item("again", n) \in Items(b)
BY DEF Items, IsItem, Item

\* A statement, or the end of a block, in front of what is left.
LEMMA ThenType ==
    ASSUME NEW b, IsBody(b), NEW n \in 0 .. Len(b), NEW rest \in Seq(Items(b))
    PROVE  Then(n, rest) \in Seq(Items(b))
<1>1. CASE n = 0
  BY <1>1 DEF Then
<1>2. CASE n # 0
  <2>1. n \in DOMAIN b
    BY <1>2, NumbersOf
  <2>2. Item("run", n) \in Items(b)
    BY <2>1, ItemType
  <2>3. <<Item("run", n)>> \o rest \in Seq(Items(b))
    BY <2>2
  <2> QED
    BY <2>3, <1>2 DEF Then
<1> QED
  BY <1>1, <1>2

\* The first of what is left is of a statement of the body.
LEMMA FirstItem ==
    ASSUME TInv, todo # <<>>
    PROVE  /\ IsBody(body) /\ Head(todo) \in Items(body) /\ Tail(todo) \in Seq(Items(body))
           /\ todo = <<Head(todo)>> \o Tail(todo)
           /\ Number \in DOMAIN body /\ Number \in Nat /\ Number - 1 \in Nat
           /\ Number \in 1 .. Len(body) /\ Len(body) \in Nat
           /\ Head(todo).do \in {"run", "post", "end", "again"}
           /\ Head(todo) = Item(Head(todo).do, Number)
           /\ IsStatement(Current, Number)
           /\ Current.next \in 0 .. Len(body) /\ \A c \in Blocks(Current) : c \in 0 .. Len(body)
           /\ Head(todo).do \in {"post", "again"} => Current.op = "for"
<1>1. IsBody(body) /\ todo \in Seq(Items(body))
  BY BodiesOf DEF TInv
<1>2. Head(todo) \in Items(body) /\ Tail(todo) \in Seq(Items(body))
      /\ todo = <<Head(todo)>> \o Tail(todo)
  BY <1>1
<1>3. /\ Number \in DOMAIN body
      /\ Head(todo) = Item(Head(todo).do, Number)
      /\ Head(todo).do \in {"run", "post", "end", "again"}
      /\ Head(todo).do \in {"post", "again"} => Current.op = "for"
  BY <1>2 DEF Items, IsItem, Item, Number, Current
<1>4. Number \in 1 .. Len(body) /\ Len(body) \in Nat
  BY <1>1, <1>3, NumbersOf
<1>5. IsStatement(Current, Number)
  BY <1>1, <1>3 DEF IsBody, Current
<1>6. {Current.next} \cup Blocks(Current) \subseteq 0 .. Number - 1
  BY <1>5 DEF IsStatement
<1>7. \A c \in 0 .. Number - 1 : c \in 0 .. Len(body)
  BY <1>4
<1>8. Current.next \in 0 .. Len(body) /\ \A c \in Blocks(Current) : c \in 0 .. Len(body)
  BY <1>6, <1>7
<1>9. Number \in Nat /\ Number - 1 \in Nat
  BY <1>4
<1> HIDE DEF Number, Current
<1> QED
  BY <1>1, <1>2, <1>3, <1>4, <1>5, <1>8, <1>9

\* What is behind a statement can be run.
LEMMA RestType ==
    ASSUME TInv, todo # <<>>
    PROVE  Rest \in Seq(Items(body))
BY FirstItem, ThenType DEF Rest

---------------------------------------------------------------------------
(* Types.                                                                  *)

LEMMA TypesInit == Init => TInv
<1> SUFFICES ASSUME Init PROVE TInv
  OBVIOUS
<1>1. body \in Functions /\ IsBody(body) /\ Len(body) \in 0 .. Len(body)
  BY BodiesOf, NumbersOf DEF Init
<1>2. todo \in Seq(Items(body))
  <2>1. <<>> \in Seq(Items(body))
    OBVIOUS
  <2> QED
    BY <2>1, <1>1, ThenType DEF Init
<1>3. TypeOK
  BY DEF Init, TypeOK, Nothing, Holdings
<1> QED
  BY <1>1, <1>2, <1>3 DEF TInv

\* The sequence left after each kind of step.
LEMMA TodoType ==
    ASSUME TInv, Assign \/ Use \/ Branch \/ Loop \/ EndTurn \/ Jump
    PROVE  todo' \in Seq(Items(body))
<1>1. todo # <<>>
  BY DEF Assign, Use, Branch, Loop, EndTurn, Jump, At, Running, TInv
<1> DEFINE I == Items(body)
<1>2. /\ Rest \in Seq(I) /\ Tail(todo) \in Seq(I) /\ todo \in Seq(I)
      /\ \A n \in 0 .. Len(body), r \in Seq(I) : Then(n, r) \in Seq(I)
  BY <1>1, FirstItem, RestType, ThenType DEF TInv
<1>3. /\ Item("end", Number) \in I
      /\ Current.op = "for" => Item("post", Number) \in I /\ Item("again", Number) \in I
      /\ Head(todo).do \in {"post", "again"} => Current.op = "for"
      /\ \A c \in Blocks(Current) : c \in 0 .. Len(body)
  BY <1>1, FirstItem, ItemType DEF Current
<1> HIDE DEF I
<1>4. \A i \in I, r \in Seq(I) : <<i>> \o r \in Seq(I)
  OBVIOUS
<1>5. CASE Assign
  BY <1>2, <1>5 DEF Assign, I
<1>6. CASE Use
  BY <1>2, <1>6 DEF Use, I
<1>7. CASE Branch
  <2>1. CASE Current.op \in {"if", "block", "labeled"} /\ \E c \in Blocks(Current) : todo' = Then(c, Rest)
    BY <2>1, <1>2, <1>3 DEF I
  <2>2. CASE Current.op \in {"switch", "select"} /\ \E c \in Current.cases :
                todo' = Then(c, <<Item("end", Number)>> \o Rest)
    <3>1. \A c \in Current.cases : c \in 0 .. Len(body)
      BY <2>2, <1>3 DEF Blocks
    <3> QED
      BY <3>1, <2>2, <1>2, <1>3, <1>4 DEF I
  <2>3. CASE todo' = Rest
    BY <2>3, <1>2 DEF I
  <2> QED
    BY <1>7, <2>1, <2>2, <2>3 DEF Branch
<1>8. CASE Loop
  <2> DEFINE rest == IF Head(todo).do = "run" THEN Rest ELSE Tail(todo)
  <2>1. Current.op = "for"
    BY <1>8 DEF Loop
  <2>2. rest \in Seq(I) /\ Current.body \in 0 .. Len(body) /\ Item("post", Number) \in I
    BY <2>1, <1>2, <1>3 DEF Blocks
  <2>3. todo' = rest \/ todo' = Then(Current.body, <<Item("post", Number)>> \o rest)
    BY <1>8 DEF Loop
  <2> HIDE DEF rest
  <2> QED
    BY <2>2, <2>3, <1>2, <1>4 DEF I
<1>9. CASE EndTurn
  <2>1. CASE Head(todo).do = "end"
    BY <2>1, <1>2, <1>9 DEF EndTurn, I
  <2>2. CASE Head(todo).do # "end"
    <3>1. Current.op = "for"
      BY <2>2, <1>3, <1>9 DEF EndTurn, Running
    <3>2. Current.post \in 0 .. Len(body) /\ Item("again", Number) \in I
      BY <3>1, <1>3 DEF Blocks
    <3>3. todo' = Then(Current.post, <<Item("again", Number)>> \o Tail(todo))
      BY <2>2, <1>9 DEF EndTurn
    <3> QED
      BY <3>2, <3>3, <1>2, <1>4 DEF I
  <2> QED
    BY <2>1, <2>2
<1>10. CASE Jump
  <2>1. PICK k \in DOMAIN todo :
            todo' = SubSeq(todo, IF Current.op = "break" THEN k + 1 ELSE k, Len(todo))
    BY <1>10 DEF Jump
  <2> DEFINE j == IF Current.op = "break" THEN k + 1 ELSE k
  <2>2. j \in Nat \ {0} /\ Len(todo) \in Nat
    BY <1>2
  <2> HIDE DEF j
  <2>3. SubSeq(todo, j, Len(todo)) \in Seq(I)
    BY <1>2, <2>2
  <2> QED
    BY <2>1, <2>3 DEF I, j
<1> QED
  BY <1>5, <1>6, <1>7, <1>8, <1>9, <1>10

\* Every step keeps them.
LEMMA TypesStep == TInv /\ [Next]_vars => TInv'
<1> SUFFICES ASSUME TInv, [Next]_vars PROVE TInv'
  OBVIOUS
<1>1. CASE UNCHANGED vars
  BY <1>1 DEF vars, TInv, TypeOK
<1>2. CASE CheckSource
  <2>1. \A r \in checkSourceFuncBody(body) : r[1] \in DOMAIN body /\ r[2] \in Capturing
    BY ReportsType DEF TInv
  <2> QED
    BY <2>1, <1>2 DEF CheckSource, TInv, TypeOK
<1>3. CASE CheckSSA
  <2>1. \A r \in SSAUses(body) : r[1] \in DOMAIN body /\ r[2] \in Capturing
    BY ReportsType DEF TInv
  <2> QED
    BY <2>1, <1>3 DEF CheckSSA, TInv, TypeOK
<1>4. CASE Assign \/ Use \/ Branch \/ Loop \/ EndTurn \/ Jump
  <2>1. todo # <<>>
    BY <1>4 DEF Assign, Use, Branch, Loop, EndTurn, Jump, At, Running
  <2>2. todo' \in Seq(Items(body)) /\ UNCHANGED checking
    BY <1>4, TodoType DEF Assign, Use, Branch, Loop, EndTurn, Jump
  <2>3. holds' \in Holdings
    <3>1. CASE Assign
      <4>1. Current.op \in Assigning /\ Current.var \in Vars
            /\ (Current.op = "set" => Current.val \in Lits \cup Vars \cup {Unknown})
        BY <2>1, <3>1, FirstItem DEF Assign, At, IsStatement
      <4> DEFINE x == IF Current.op = "set" THEN Value(Current.val, holds) ELSE Unknown
      <4>2. x \in Lits \cup {Unknown} /\ holds \in Holdings
        BY <4>1, ValueType DEF TInv, TypeOK
      <4>3. holds' = [holds EXCEPT ![Current.var] = x]
        BY <3>1 DEF Assign
      <4> HIDE DEF x
      <4> QED
        BY <4>2, <4>3 DEF Holdings
    <3> QED
      BY <1>4, <3>1 DEF Use, Branch, Loop, EndTurn, Jump, TInv, TypeOK
  <2>4. \A r \in escaped' : r[1] \in DOMAIN body /\ r[2] \in Capturing
    <3>1. CASE Use
      <4>1. \A r \in {Number} \X Capturing : r[1] \in DOMAIN body /\ r[2] \in Capturing
        BY <2>1, FirstItem
      <4> QED
        BY <4>1, <3>1 DEF Use, TInv, TypeOK
    <3> QED
      BY <1>4, <3>1 DEF Assign, Branch, Loop, EndTurn, Jump, TInv, TypeOK
  <2>5. unfollowed' \in BOOLEAN
    BY <1>4 DEF Assign, Use, Branch, Loop, EndTurn, Jump, TInv, TypeOK
  <2> QED
    BY <2>2, <2>3, <2>4, <2>5 DEF TInv, TypeOK, checking
<1> QED
  BY <1>1, <1>2, <1>3, <1>4 DEF Next

\* The state of the check and of the run has its type: every report and every
\* escape is of a literal that captures, at a statement of the function.
THEOREM TypesHold == Spec => []TypeOK
<1>1. TInv => TypeOK
  BY DEF TInv
<1> QED
  BY <1>1, TypesInit, TypesStep, PTL DEF Spec

---------------------------------------------------------------------------
(* A run is followed by an environment for each place in what is left of   *)
(* it: the walk leads from each to the next, and all it finds on the way   *)
(* has been reported.  A variable holds a literal that the first of them   *)
(* has for it.                                                             *)

Within(e, f) == \A v \in Vars : e[v] \subseteq f[v]

Knows(e, h) == \A v \in Vars : h[v] \in Lits => h[v] \in e[v]

\* The walk of the block from statement n, with the reports R.
RunLeads(b, R, n, e, f) ==
    LET r == checkSourceBlock(b)[n][e]
    IN  r.errs \subseteq R /\ Within(r.env, f)

Leads(b, R, i, e, f) ==
    CASE i.do = "run"  -> RunLeads(b, R, i.of, e, f)
      [] i.do = "post" -> RunLeads(b, R, b[i.of].post, e, f)
      [] OTHER         -> Within(e, f)

Follows(b, R, q, e) ==
    \E E \in [1 .. Len(q) + 1 -> Envs] :
        E[1] = e /\ \A k \in 1 .. Len(q) : Leads(b, R, q[k], E[k], E[k + 1])

FInv ==
    /\ phase # "run" => escaped = {} /\ todo = Then(Len(body), <<>>) /\ holds = Nothing
    /\ phase # "source" => checkSourceFuncBody(body) \subseteq reports
    /\ phase = "run" /\ ~unfollowed =>
          /\ escaped \subseteq reports
          /\ \E e \in Envs : Knows(e, holds) /\ Follows(body, reports, todo, e)

\* A larger environment knows what a smaller one does, and leads no further.
LEMMA WithinOrder ==
    /\ \A e \in Envs : Within(e, e)
    /\ \A e, f, g \in Envs : Within(e, f) /\ Within(f, g) => Within(e, g)
    /\ \A e, f \in Envs, h \in Holdings : Knows(e, h) /\ Within(e, f) => Knows(f, h)
BY DEF Within, Knows

\* Nothing left to run is followed by any environment.
LEMMA FollowsNone ==
    ASSUME NEW b, NEW R, NEW e \in Envs
    PROVE  Follows(b, R, <<>>, e)
<1> DEFINE E == [k \in 1 .. 1 |-> e]
<1>1. E \in [1 .. Len(<<>>) + 1 -> Envs] /\ E[1] = e
  OBVIOUS
<1>2. \A k \in 1 .. Len(<<>>) : FALSE
  OBVIOUS
<1> HIDE DEF E
<1> QED
  BY <1>1, <1>2 DEF Follows

\* The environment behind the first of what is left.
LEMMA FollowsFirst ==
    ASSUME NEW b, NEW R, NEW S, NEW i \in S, NEW rest \in Seq(S), NEW e \in Envs,
           Follows(b, R, <<i>> \o rest, e)
    PROVE  \E f \in Envs : Leads(b, R, i, e, f) /\ Follows(b, R, rest, f)
<1> DEFINE q == <<i>> \o rest
<1>1. /\ Len(q) = Len(rest) + 1 /\ Len(rest) \in Nat /\ q[1] = i
      /\ \A k \in 1 .. Len(rest) : q[k + 1] = rest[k]
  OBVIOUS
<1> HIDE DEF q
<1>2. PICK E \in [1 .. Len(q) + 1 -> Envs] :
         E[1] = e /\ \A k \in 1 .. Len(q) : Leads(b, R, q[k], E[k], E[k + 1])
  BY DEF Follows, q
<1> DEFINE F == [k \in 1 .. Len(rest) + 1 |-> E[k + 1]]
<1>3. F \in [1 .. Len(rest) + 1 -> Envs]
  <2>1. \A k \in 1 .. Len(rest) + 1 : k + 1 \in 1 .. Len(q) + 1
    BY <1>1
  <2> QED
    BY <2>1, <1>2
<1>4. F[1] = E[2] /\ \A k \in 1 .. Len(rest) : F[k] = E[k + 1] /\ F[k + 1] = E[(k + 1) + 1]
  BY <1>1
<1> HIDE DEF F
<1>5. E[2] \in Envs /\ Leads(b, R, i, e, E[2])
  <2>1. 1 \in 1 .. Len(q) /\ 2 \in 1 .. Len(q) + 1 /\ 1 + 1 = 2
    BY <1>1
  <2> QED
    BY <2>1, <1>1, <1>2
<1>6. ASSUME NEW k \in 1 .. Len(rest) PROVE Leads(b, R, rest[k], F[k], F[k + 1])
  <2>1. k + 1 \in 1 .. Len(q)
    BY <1>1
  <2>2. Leads(b, R, q[k + 1], E[k + 1], E[(k + 1) + 1])
    BY <2>1, <1>2
  <2> QED
    BY <2>2, <1>1, <1>4
<1>7. Follows(b, R, rest, E[2])
  BY <1>3, <1>4, <1>6 DEF Follows
<1> QED
  BY <1>5, <1>7

\* One more in front of what is left.
LEMMA FollowsPush ==
    ASSUME NEW b, NEW R, NEW S, NEW i \in S, NEW rest \in Seq(S), NEW e \in Envs, NEW f \in Envs,
           Leads(b, R, i, e, f), Follows(b, R, rest, f)
    PROVE  Follows(b, R, <<i>> \o rest, e)
<1> DEFINE q == <<i>> \o rest
<1>1. /\ Len(q) = Len(rest) + 1 /\ Len(rest) \in Nat /\ q[1] = i
      /\ \A k \in 1 .. Len(q) : k # 1 => q[k] = rest[k - 1]
  OBVIOUS
<1> HIDE DEF q
<1>2. PICK F \in [1 .. Len(rest) + 1 -> Envs] :
         F[1] = f /\ \A k \in 1 .. Len(rest) : Leads(b, R, rest[k], F[k], F[k + 1])
  BY DEF Follows
<1> DEFINE E == [k \in 1 .. Len(q) + 1 |-> IF k = 1 THEN e ELSE F[k - 1]]
<1>3. E \in [1 .. Len(q) + 1 -> Envs]
  <2>1. \A k \in 1 .. Len(q) + 1 : k # 1 => k - 1 \in 1 .. Len(rest) + 1
    BY <1>1
  <2> QED
    BY <2>1, <1>2
<1>4. E[1] = e /\ \A k \in 1 .. Len(q) : E[k + 1] = F[k]
  <2>1. \A k \in 1 .. Len(q) : k + 1 \in 1 .. Len(q) + 1 /\ k + 1 # 1 /\ (k + 1) - 1 = k
    BY <1>1
  <2>2. 1 \in 1 .. Len(q) + 1
    BY <1>1
  <2> QED
    BY <2>1, <2>2
<1> HIDE DEF E
<1>5. ASSUME NEW k \in 1 .. Len(q) PROVE Leads(b, R, q[k], E[k], E[k + 1])
  <2>1. CASE k = 1
    BY <2>1, <1>1, <1>2, <1>4
  <2>2. CASE k # 1
    <3>1. k - 1 \in 1 .. Len(rest) /\ k - 1 \in 1 .. Len(q) /\ (k - 1) + 1 = k
      BY <2>2, <1>1
    <3>2. Leads(b, R, rest[k - 1], F[k - 1], F[k])
      BY <3>1, <1>2
    <3>3. E[k] = F[k - 1] /\ E[k + 1] = F[k] /\ q[k] = rest[k - 1]
      BY <3>1, <2>2, <1>1, <1>4
    <3> QED
      BY <3>2, <3>3
  <2> QED
    BY <2>1, <2>2
<1>6. Follows(b, R, q, e)
  BY <1>3, <1>4, <1>5 DEF Follows
<1> QED
  BY <1>6 DEF q

\* A block in front of what is left; an empty block is no item.
LEMMA FollowsThen ==
    ASSUME NEW b, IsBody(b), NEW R, NEW n \in 0 .. Len(b), NEW rest \in Seq(Items(b)),
           NEW e \in Envs, NEW f \in Envs, RunLeads(b, R, n, e, f), Follows(b, R, rest, f)
    PROVE  \E g \in Envs : Within(e, g) /\ Follows(b, R, Then(n, rest), g)
<1>1. CASE n = 0
  <2>1. checkSourceBlock(b)[0][e] = Walked(e, {})
    BY WalkIs
  <2>2. Within(e, f)
    BY <2>1, <1>1 DEF RunLeads, Walked
  <2> QED
    BY <2>2, <1>1 DEF Then
<1>2. CASE n # 0
  <2>1. n \in DOMAIN b
    BY <1>2, NumbersOf
  <2>2. Item("run", n) \in Items(b) /\ Leads(b, R, Item("run", n), e, f)
    BY <2>1, ItemType DEF Leads, Item
  <2>3. Follows(b, R, <<Item("run", n)>> \o rest, e)
    BY <2>2, FollowsPush
  <2> QED
    BY <2>3, <1>2, WithinOrder DEF Then
<1> QED
  BY <1>1, <1>2

\* The walk goes through a statement to the one behind it.
LEMMA StmtLeads ==
    ASSUME NEW b, IsBody(b), NEW R, NEW n \in DOMAIN b, NEW e \in Envs, NEW f \in Envs,
           RunLeads(b, R, n, e, f)
    PROVE  LET w == checkSourceStmt(b[n], n, e, checkSourceBlock(b))
           IN w.env \in Envs /\ w.errs \subseteq R /\ RunLeads(b, R, b[n].next, w.env, f)
<1> DEFINE walk == checkSourceBlock(b)
           w == checkSourceStmt(b[n], n, e, walk)
           rest == walk[b[n].next][w.env]
<1>1. walk[n][e] = Step(b[n], n, e, walk)
  BY WalkIs
<1>2. walk[n][e] = Walked(rest.env, w.errs \cup rest.errs)
  BY <1>1 DEF Step
<1>3. w.errs \cup rest.errs \subseteq R /\ Within(rest.env, f)
  BY <1>2 DEF RunLeads, Walked
<1>4. \A m \in 0 .. n - 1 : m \in 0 .. Len(b)
  BY NumbersOf
<1>5. \A m \in 0 .. n - 1 : \A env \in Envs : walk[m][env] \in Results(b)
  BY <1>4, WalkType
<1>6. w \in Results(b)
  BY <1>5, StmtType
<1> QED
  BY <1>3, <1>6 DEF RunLeads, Results

\* What the walk makes of the statement that runs.
Out(e) == checkSourceStmt(Current, Number, e, checkSourceBlock(body))

\* It is reported, and leads to what is behind the statement.
LEMMA AtNumber ==
    ASSUME TInv, todo # <<>>, Head(todo).do = "run",
           NEW e \in Envs, Follows(body, reports, todo, e)
    PROVE  /\ Out(e).env \in Envs /\ Out(e).errs \subseteq reports
           /\ \E g \in Envs : Within(Out(e).env, g) /\ Follows(body, reports, Rest, g)
<1>1. /\ IsBody(body) /\ Head(todo) \in Items(body) /\ Tail(todo) \in Seq(Items(body))
      /\ todo = <<Head(todo)>> \o Tail(todo) /\ Number \in DOMAIN body
      /\ Current.next \in 0 .. Len(body)
  BY FirstItem
<1>2. PICK f \in Envs : Leads(body, reports, Head(todo), e, f)
                        /\ Follows(body, reports, Tail(todo), f)
  <2> DEFINE i == Head(todo)
             rest == Tail(todo)
  <2>1. Follows(body, reports, <<i>> \o rest, e) /\ i \in Items(body) /\ rest \in Seq(Items(body))
    BY <1>1
  <2> HIDE DEF i, rest
  <2>2. \E f \in Envs : Leads(body, reports, i, e, f) /\ Follows(body, reports, rest, f)
    BY <2>1, FollowsFirst
  <2> QED
    BY <2>2 DEF i, rest
<1>3. RunLeads(body, reports, Number, e, f)
  BY <1>2 DEF Leads, Number
<1>4. /\ Out(e).env \in Envs /\ Out(e).errs \subseteq reports
      /\ RunLeads(body, reports, Current.next, Out(e).env, f)
  BY <1>1, <1>3, StmtLeads DEF Out, Current
<1>5. \E g \in Envs : Within(Out(e).env, g) /\ Follows(body, reports, Then(Current.next, Tail(todo)), g)
  BY <1>1, <1>2, <1>4, FollowsThen
<1> QED
  BY <1>4, <1>5 DEF Rest

\* The run stays on a path that the walk follows.
Followed == ~unfollowed' => \E g \in Envs : Knows(g, holds') /\ Follows(body, reports, todo', g)

\* An assignment puts in the variable what the walk expects there.
LEMMA AssignFollowed ==
    ASSUME TInv, Assign, NEW e \in Envs, Knows(e, holds), Follows(body, reports, todo, e)
    PROVE  Followed
<1>1. /\ todo # <<>> /\ Head(todo).do = "run" /\ Current.op \in Assigning /\ todo' = Rest
      /\ holds' = [holds EXCEPT ![Current.var] =
                      IF Current.op = "set" THEN Value(Current.val, holds) ELSE Unknown]
  BY DEF Assign, At, Running
<1>2. PICK g \in Envs : Within(Out(e).env, g) /\ Follows(body, reports, Rest, g)
  BY <1>1, AtNumber
<1>3. /\ Current.var \in Vars /\ holds \in Holdings
      /\ Current.op = "set" => Current.val \in Lits \cup Vars \cup {Unknown}
  BY <1>1, FirstItem DEF IsStatement, TInv, TypeOK
<1>4. Knows(Out(e).env, holds')
  <2>1. CASE Current.op = "set"
    <3> DEFINE x == Value(Current.val, holds)
               found == sourceClosuresForExpr(Current.val, e)
    <3>1. x \in Lits => x \in found
      BY <1>3, <2>1, CapturingAssumption DEF Value, sourceClosuresForExpr, Knows
    <3>2. Out(e).env = [e EXCEPT ![Current.var] = found]
      BY <2>1 DEF Out, checkSourceStmt, Using, Walked, setClosureFlowValue
    <3>3. holds' = [holds EXCEPT ![Current.var] = x]
      BY <1>1, <2>1
    <3> HIDE DEF x, found
    <3> QED
      BY <1>3, <3>1, <3>2, <3>3 DEF Knows, Envs, Holdings
  <2>2. CASE Current.op = "multi"
    <3>1. Out(e).env = e
      BY <2>2 DEF Out, checkSourceStmt, Using, Walked
    <3>2. holds' = [holds EXCEPT ![Current.var] = Unknown]
      BY <1>1, <2>2
    <3> QED
      BY <1>3, <3>1, <3>2, CapturingAssumption DEF Knows, Holdings
  <2> QED
    BY <1>1, <2>1, <2>2 DEF Assigning
<1>5. Knows(g, holds')
  BY <1>2, <1>4 DEF Knows, Within
<1> QED
  BY <1>1, <1>2, <1>5 DEF Followed

\* A literal that escapes has been reported where it does.
LEMMA UseFollowed ==
    ASSUME TInv, Use, NEW e \in Envs, Knows(e, holds), Follows(body, reports, todo, e),
           escaped \subseteq reports
    PROVE  Followed /\ escaped' \subseteq reports
<1>1. /\ todo # <<>> /\ Head(todo).do = "run" /\ Current.op \in Using
      /\ todo' = IF Current.op = "return" THEN <<>> ELSE Rest
      /\ holds' = holds
      /\ escaped' = escaped \cup ({<<Number, Value(Current.val, holds)>>} \cap ({Number} \X Capturing))
  BY DEF Use, At, Running
<1>2. /\ Out(e).errs \subseteq reports
      /\ \E g \in Envs : Within(Out(e).env, g) /\ Follows(body, reports, Rest, g)
  BY <1>1, AtNumber
<1>3. Out(e) = Walked(e, ReportedAt(Current, Number, e))
  BY <1>1 DEF Out, checkSourceStmt, Using
<1>4. /\ Current.val \in Lits \cup Vars \cup {Unknown} /\ holds \in Holdings
  BY <1>1, FirstItem DEF IsStatement, TInv, TypeOK
<1>5. Followed
  <2>1. CASE Current.op = "return"
    BY <1>1, <2>1, FollowsNone DEF Followed
  <2>2. CASE Current.op # "return"
    <3>1. PICK g \in Envs : Within(e, g) /\ Follows(body, reports, Rest, g)
      BY <1>2, <1>3 DEF Walked
    <3>2. Knows(g, holds)
      BY <1>4, <3>1, WithinOrder
    <3> QED
      BY <1>1, <2>2, <3>1, <3>2 DEF Followed
  <2> QED
    BY <2>1, <2>2
<1>6. Value(Current.val, holds) \in Capturing => <<Number, Value(Current.val, holds)>> \in reports
  <2> DEFINE x == Value(Current.val, holds)
  <2>1. x \in Capturing => x \in Lits /\ x \in sourceClosuresForExpr(Current.val, e)
    BY <1>4, CapturingAssumption DEF Value, sourceClosuresForExpr, Knows
  <2> HIDE DEF x
  <2>2. x \in Capturing => <<Number, x>> \in ReportedAt(Current, Number, e)
    BY <2>1 DEF ReportedAt
  <2> QED
    BY <1>2, <1>3, <2>2 DEF x, Walked
<1>7. escaped' \subseteq reports
  BY <1>1, <1>6
<1> QED
  BY <1>5, <1>7

\* What the walk joins has what each branch leads to.
LEMMA BranchFollowed ==
    ASSUME TInv, Branch, NEW e \in Envs, Knows(e, holds), Follows(body, reports, todo, e)
    PROVE  Followed
<1> SUFFICES ASSUME ~unfollowed' PROVE Followed
  BY DEF Followed
<1> DEFINE b == body
           R == reports
           walk == checkSourceBlock(body)
           s == Current
           q == Rest
<1>1. /\ todo # <<>> /\ Head(todo).do = "run" /\ s.op \in {"if", "block", "switch"}
      /\ holds' = holds
      /\ \/ s.op \in {"if", "block"} /\ \E c \in Blocks(s) : todo' = Then(c, q)
         \/ s.op = "switch" /\ \E c \in s.cases : todo' = Then(c, <<Item("end", Number)>> \o q)
         \/ s.op = "switch" /\ todo' = q
  BY DEF Branch, At, Running, Branching
<1>2. PICK g \in Envs : Within(Out(e).env, g) /\ Follows(b, R, q, g)
  BY <1>1, AtNumber
<1>3. Out(e).env \in Envs /\ Out(e).errs \subseteq R
  BY <1>1, AtNumber
<1>4. /\ IsBody(b) /\ Number \in DOMAIN b /\ q \in Seq(Items(b))
      /\ \A c \in Blocks(s) : c \in 0 .. Len(b)
      /\ holds \in Holdings
  BY <1>1, FirstItem, RestType DEF TInv, TypeOK
<1>5. \A c \in Blocks(s) : walk[c][e].env \in Envs
  BY <1>4, WalkType DEF Results
<1>6. ASSUME NEW c \in Blocks(s), s.op \in {"if", "block", "switch"}
      PROVE  RunLeads(b, R, c, e, Out(e).env)
  <2>1. CASE s.op = "block"
    <3>1. Out(e) = walk[c][e]
      BY <2>1 DEF Out, checkSourceStmt, Using, Blocks
    <3> QED
      BY <3>1, <1>3, WithinOrder DEF RunLeads
  <2>2. CASE s.op = "if"
    <3>1. Out(e) = Walked(mergeClosureFlowEnv(walk[s.then][e].env, walk[s.else][e].env),
                          walk[s.then][e].errs \cup walk[s.else][e].errs)
      BY <2>2 DEF Out, checkSourceStmt, Using
    <3>2. c = s.then \/ c = s.else
      BY <2>2 DEF Blocks
    <3> QED
      BY <3>1, <3>2, <1>3 DEF RunLeads, Walked, mergeClosureFlowEnv, Within
  <2>3. CASE s.op = "switch"
    <3> DEFINE cases == {walk[d][e] : d \in s.cases}
    <3>1. Out(e) = checkSourceCaseBlock(e, cases)
      BY <2>3 DEF Out, checkSourceStmt, Using
    <3>2. walk[c][e] \in cases
      BY <2>3 DEF Blocks
    <3> HIDE DEF cases
    <3>3. walk[c][e].errs \subseteq Out(e).errs
      BY <3>1, <3>2 DEF checkSourceCaseBlock, Walked
    <3>4. Within(walk[c][e].env, Out(e).env)
      BY <3>1, <3>2 DEF checkSourceCaseBlock, Walked, Within
    <3> QED
      BY <3>3, <3>4, <1>3 DEF RunLeads
  <2> QED
    BY <1>6, <2>1, <2>2, <2>3
<1> HIDE DEF s, q, walk
<1>7. ASSUME NEW c \in Blocks(s), s.op \in {"if", "block", "switch"}
      PROVE  RunLeads(b, R, c, e, g)
  BY <1>2, <1>3, <1>5, <1>6, <1>7, WithinOrder DEF RunLeads, walk
<1>8. ASSUME NEW c \in Blocks(s), s.op \in {"if", "block", "switch"}, NEW rest \in Seq(Items(b)),
             Follows(b, R, rest, g), todo' = Then(c, rest)
      PROVE  Followed
  <2>1. PICK d \in Envs : Within(e, d) /\ Follows(b, R, Then(c, rest), d)
    BY <1>4, <1>7, <1>8, FollowsThen
  <2>2. Knows(d, holds')
    BY <2>1, <1>1, <1>4, WithinOrder
  <2> QED
    BY <2>1, <2>2, <1>8 DEF Followed
<1>9. CASE s.op \in {"if", "block"} /\ \E c \in Blocks(s) : todo' = Then(c, q)
  BY <1>2, <1>4, <1>8, <1>9
<1>10. CASE s.op = "switch" /\ \E c \in s.cases : todo' = Then(c, <<Item("end", Number)>> \o q)
  <2> DEFINE i == Item("end", Number)
  <2>1. i \in Items(b) /\ Leads(b, R, i, g, g)
    BY <1>4, ItemType, WithinOrder DEF Leads, Item
  <2> HIDE DEF i
  <2>2. <<i>> \o q \in Seq(Items(b)) /\ Follows(b, R, <<i>> \o q, g)
    BY <2>1, <1>2, <1>4, FollowsPush
  <2> QED
    BY <2>2, <1>8, <1>10 DEF Blocks, i
<1>11. CASE s.op = "switch" /\ todo' = q
  <2>1. Out(e) = checkSourceCaseBlock(e, {walk[d][e] : d \in s.cases})
    BY <1>11 DEF Out, checkSourceStmt, Using, s, walk
  <2>2. Within(e, Out(e).env)
    BY <2>1 DEF checkSourceCaseBlock, Walked, Within
  <2>3. Within(e, g)
    BY <2>2, <1>2, <1>3, WithinOrder
  <2>4. Knows(g, holds')
    BY <2>3, <1>1, <1>4, WithinOrder
  <2> QED
    BY <2>4, <1>2, <1>11 DEF Followed
<1> QED
  BY <1>1, <1>9, <1>10, <1>11

\* A loop is left in front of its only turn, or behind it.
LEMMA LoopFollowed ==
    ASSUME TInv, Loop, NEW e \in Envs, Knows(e, holds), Follows(body, reports, todo, e)
    PROVE  Followed
<1> SUFFICES ASSUME ~unfollowed' PROVE Followed
  BY DEF Followed
<1> DEFINE b == body
           R == reports
           s == Current
           items == Items(body)
<1>1. /\ todo # <<>> /\ Head(todo).do \in {"run", "again"} /\ s.op = "for" /\ holds' = holds
      /\ \/ Head(todo).do = "run" /\ s.post = 0 /\ todo' = Rest
         \/ Head(todo).do = "again" /\ todo' = Tail(todo)
         \/ Head(todo).do = "run" /\ todo' = Then(s.body, <<Item("post", Number)>> \o Rest)
  BY DEF Loop, Running
<1>2. /\ IsBody(b) /\ Number \in DOMAIN b /\ Rest \in Seq(items) /\ Tail(todo) \in Seq(items)
      /\ Head(todo) \in items /\ todo = <<Head(todo)>> \o Tail(todo)
      /\ s.body \in 0 .. Len(b) /\ s.post \in 0 .. Len(b)
      /\ holds \in Holdings
  BY <1>1, FirstItem, RestType DEF TInv, TypeOK, Blocks
<1>3. CASE Head(todo).do = "again"
  <2> DEFINE i == Head(todo)
             rest == Tail(todo)
  <2>1. Follows(b, R, <<i>> \o rest, e) /\ i \in items /\ rest \in Seq(items) /\ i.do = "again"
    BY <1>2, <1>3
  <2>2. todo' = rest
    BY <1>1, <1>3
  <2> HIDE DEF i, rest
  <2>3. PICK f \in Envs : Leads(b, R, i, e, f) /\ Follows(b, R, rest, f)
    BY <2>1, FollowsFirst
  <2>4. Within(e, f)
    BY <2>1, <2>3 DEF Leads
  <2>5. Knows(f, holds')
    BY <2>4, <1>1, <1>2, WithinOrder
  <2> QED
    BY <2>2, <2>3, <2>5 DEF Followed
<1>4. CASE Head(todo).do = "run"
  <2> DEFINE walk == checkSourceBlock(body)
             out == walk[s.body][e]
             merged == mergeClosureFlowEnv(e, out.env)
             post == walk[s.post][merged]
  <2>1. PICK g \in Envs : Within(Out(e).env, g) /\ Follows(b, R, Rest, g)
    BY <1>1, <1>4, AtNumber
  <2>2. Out(e).env \in Envs /\ Out(e).errs \subseteq R
    BY <1>1, <1>4, AtNumber
  <2>3. Out(e) = Walked(post.env, out.errs \cup post.errs)
    BY <1>1 DEF Out, checkSourceStmt, Using
  <2>4. out.env \in Envs
    BY <1>2, WalkType DEF Results
  <2>5. merged \in Envs /\ Within(e, merged) /\ Within(out.env, merged)
    BY <2>4 DEF mergeClosureFlowEnv, Envs, Within
  <2>6. post.env = Out(e).env /\ out.errs \subseteq R /\ post.errs \subseteq R
    BY <2>2, <2>3 DEF Walked
  <2>7. RunLeads(b, R, s.body, e, merged)
    BY <2>5, <2>6 DEF RunLeads
  <2>8. RunLeads(b, R, s.post, merged, g)
    BY <2>1, <2>6 DEF RunLeads
  <2>9. s.post = 0 => Out(e).env = merged
    <3>1. walk[0][merged] = Walked(merged, {})
      BY <1>2, <2>5, WalkIs
    <3> QED
      BY <3>1, <2>6 DEF Walked
  <2> HIDE DEF walk, merged
  <2>10. CASE s.post = 0 /\ todo' = Rest
    <3>1. Within(e, g)
      BY <2>1, <2>5, <2>9, <2>10, WithinOrder
    <3>2. Knows(g, holds')
      BY <3>1, <1>1, <1>2, WithinOrder
    <3> QED
      BY <3>2, <2>1, <2>10 DEF Followed
  <2>11. CASE todo' = Then(s.body, <<Item("post", Number)>> \o Rest)
    <3> DEFINE i == Item("post", Number)
    <3>1. i \in items
      BY <1>1, <1>2, ItemType DEF Current
    <3>2. Leads(b, R, i, merged, g)
      BY <2>8 DEF Leads, Item, Current
    <3> HIDE DEF i
    <3>3. <<i>> \o Rest \in Seq(items) /\ Follows(b, R, <<i>> \o Rest, merged)
      BY <3>1, <3>2, <1>2, <2>1, <2>5, FollowsPush
    <3>4. PICK d \in Envs : Within(e, d) /\ Follows(b, R, Then(s.body, <<i>> \o Rest), d)
      BY <3>3, <1>2, <2>5, <2>7, FollowsThen
    <3>5. Knows(d, holds')
      BY <3>4, <1>1, <1>2, WithinOrder
    <3> QED
      BY <3>4, <3>5, <2>11 DEF Followed, i
  <2> QED
    BY <1>1, <1>4, <2>10, <2>11
<1> QED
  BY <1>1, <1>3, <1>4

\* The end of a turn leads to the post statement, and the end of a switch on.
LEMMA EndTurnFollowed ==
    ASSUME TInv, EndTurn, NEW e \in Envs, Knows(e, holds), Follows(body, reports, todo, e)
    PROVE  Followed
<1> DEFINE b == body
           R == reports
           i == Head(todo)
           rest == Tail(todo)
           items == Items(body)
<1>1. /\ todo # <<>> /\ i.do \in {"post", "end"} /\ holds' = holds
      /\ todo' = IF i.do = "end" THEN rest ELSE Then(Current.post, <<Item("again", Number)>> \o rest)
  BY DEF EndTurn, Running
<1>2. /\ IsBody(b) /\ Number \in DOMAIN b /\ rest \in Seq(items) /\ i \in items
      /\ Follows(b, R, <<i>> \o rest, e)
      /\ i.do = "post" => Current.op = "for"
      /\ i = Item(i.do, Number)
      /\ Current.op = "for" => Current.post \in 0 .. Len(b)
      /\ holds \in Holdings
  BY <1>1, FirstItem DEF TInv, TypeOK, Blocks
<1> HIDE DEF i, rest
<1>3. PICK f \in Envs : Leads(b, R, i, e, f) /\ Follows(b, R, rest, f)
  BY <1>2, FollowsFirst
<1>4. CASE i.do = "end"
  <2>1. Within(e, f)
    BY <1>3, <1>4 DEF Leads
  <2>2. Knows(f, holds')
    BY <2>1, <1>1, <1>2, WithinOrder
  <2> QED
    BY <2>2, <1>1, <1>3, <1>4 DEF Followed
<1>5. CASE i.do = "post"
  <2> DEFINE j == Item("again", Number)
  <2>1. RunLeads(b, R, Current.post, e, f)
    <3>1. i.of = Number
      BY <1>2 DEF Item
    <3> QED
      BY <3>1, <1>3, <1>5 DEF Leads, Current
  <2>2. j \in items /\ Leads(b, R, j, f, f)
    BY <1>2, <1>5, ItemType, WithinOrder DEF Leads, Item, Current
  <2>3. todo' = Then(Current.post, <<j>> \o rest)
    BY <1>1, <1>5
  <2> HIDE DEF j
  <2>4. <<j>> \o rest \in Seq(items) /\ Follows(b, R, <<j>> \o rest, f)
    BY <2>2, <1>2, <1>3, FollowsPush
  <2>5. PICK d \in Envs : Within(e, d) /\ Follows(b, R, Then(Current.post, <<j>> \o rest), d)
    BY <2>1, <2>4, <1>2, <1>5, FollowsThen
  <2>6. Knows(d, holds')
    BY <2>5, <1>1, <1>2, WithinOrder
  <2> QED
    BY <2>3, <2>5, <2>6 DEF Followed
<1> QED
  BY <1>1, <1>4, <1>5

---------------------------------------------------------------------------
(* What escapes has been reported.                                         *)

LEMMA FollowInit == Init => FInv
BY DEF Init, FInv

\* A run begins where the walk did, which knows of no literal in a variable.
LEMMA RunBegins ==
    ASSUME TInv, FInv, CheckSSA
    PROVE  FInv'
<1>1. /\ body \in Functions /\ IsBody(body) /\ Len(body) \in 0 .. Len(body)
      /\ todo = Then(Len(body), <<>>) /\ holds = Nothing /\ escaped = {}
      /\ checkSourceFuncBody(body) \subseteq reports
      /\ phase' = "run" /\ reports' = reports \cup SSAUses(body)
      /\ UNCHANGED <<body, todo, holds, escaped>>
  BY BodiesOf, NumbersOf DEF CheckSSA, FInv, TInv
<1> DEFINE e == NoClosures
           r == checkSourceBlock(body)[Len(body)][e]
           R == reports \cup SSAUses(body)
<1>2. e \in Envs
  BY DEF NoClosures, Envs
<1>3. r.env \in Envs /\ r.errs \subseteq R
  BY <1>1, <1>2, WalkType DEF Results, checkSourceFuncBody
<1>4. RunLeads(body, R, Len(body), e, r.env)
  BY <1>3, WithinOrder DEF RunLeads
<1> HIDE DEF R, r
<1>5. <<>> \in Seq(Items(body)) /\ Follows(body, R, <<>>, r.env)
  BY <1>3, FollowsNone
<1>6. PICK g \in Envs : Within(e, g) /\ Follows(body, R, Then(Len(body), <<>>), g)
  BY <1>1, <1>2, <1>3, <1>4, <1>5, FollowsThen
<1>7. Knows(g, holds')
  BY <1>1, CapturingAssumption DEF Knows, Nothing
<1>8. \E h \in Envs : Knows(h, holds') /\ Follows(body', reports', todo', h)
  BY <1>1, <1>6, <1>7 DEF R
<1>9. checkSourceFuncBody(body') \subseteq reports'
  BY <1>1
<1> QED
  BY <1>1, <1>8, <1>9 DEF FInv

\* Every step keeps a run on its path.
LEMMA FollowStep == TInv /\ FInv /\ [Next]_vars => FInv'
<1> SUFFICES ASSUME TInv, FInv, [Next]_vars PROVE FInv'
  OBVIOUS
<1>1. CASE UNCHANGED vars
  BY <1>1 DEF vars, FInv
<1>2. CASE CheckSource
  BY <1>2 DEF CheckSource, FInv
<1>3. CASE CheckSSA
  BY <1>3, RunBegins
<1>4. CASE Assign \/ Use \/ Branch \/ Loop \/ EndTurn
  <2>1. phase = "run" /\ UNCHANGED <<body, phase, reports>> /\ (unfollowed => unfollowed')
    <3>1. phase = "run" /\ UNCHANGED <<body, phase, reports>>
      BY <1>4 DEF Assign, Use, Branch, Loop, EndTurn, At, Running, checking
    <3>2. CASE Assign \/ Use \/ EndTurn
      BY <3>1, <3>2 DEF Assign, Use, EndTurn
    <3>3. CASE Branch
      BY <3>1, <3>3, Zenon DEF Branch
    <3>4. CASE Loop
      BY <3>1, <3>4, Zenon DEF Loop
    <3> QED
      BY <1>4, <3>1, <3>2, <3>3, <3>4
  <2>2. checkSourceFuncBody(body') \subseteq reports'
    BY <2>1 DEF FInv
  <2>3. CASE unfollowed'
    BY <2>1, <2>2, <2>3 DEF FInv
  <2>4. CASE ~unfollowed'
    <3>1. escaped \subseteq reports
          /\ \E e \in Envs : Knows(e, holds) /\ Follows(body, reports, todo, e)
      BY <2>1, <2>4 DEF FInv
    <3>2. PICK e \in Envs : Knows(e, holds) /\ Follows(body, reports, todo, e)
      BY <3>1
    <3>3. Followed
      BY <1>4, <3>1, <3>2, AssignFollowed, UseFollowed, BranchFollowed, LoopFollowed,
         EndTurnFollowed
    <3>4. escaped' \subseteq reports
      <4>1. CASE Use
        BY <3>1, <3>2, <4>1, UseFollowed
      <4> QED
        BY <1>4, <3>1, <4>1 DEF Assign, Branch, Loop, EndTurn
    <3>5. \E g \in Envs : Knows(g, holds') /\ Follows(body', reports', todo', g)
      BY <2>1, <2>4, <3>3 DEF Followed
    <3> QED
      BY <2>1, <2>2, <3>4, <3>5 DEF FInv
  <2> QED
    BY <2>3, <2>4
<1>5. CASE Jump
  <2>1. phase = "run" /\ UNCHANGED <<body, phase, reports>> /\ unfollowed'
    BY <1>5 DEF Jump, At, Running, checking
  <2> QED
    BY <2>1 DEF FInv
<1> QED
  BY <1>1, <1>2, <1>3, <1>4, <1>5 DEF Next

\* On every path through branches, switches and single turns of loops, for
\* every function, a literal that captures and escapes has been reported where
\* it does.
THEOREM EscapesAreReported == Spec => []EscapesReported
<1>1. TInv /\ FInv => EscapesReported
  BY DEF TInv, TypeOK, FInv, EscapesReported
<1> QED
  BY <1>1, TypesInit, TypesStep, FollowInit, FollowStep, PTL DEF Spec

---------------------------------------------------------------------------
(* The walk and the flow of a straight function.  An environment is covered *)
(* by runs when one of them has each of its literals where it is.          *)

Covers(H, env) ==
    /\ H \in SUBSET Holdings /\ env \in Envs /\ H # {}
    /\ \A v \in Vars : \A l \in env[v] : \E h \in H : h[v] = l

\* The block from statement n does not reach the statements up to lo.
Above(b, n, lo) ==
    n = 0 \/ (lo < n /\ \A m \in lo + 1 .. n :
                 \A c \in {b[m].next} \cup Blocks(b[m]) : c = 0 \/ lo < c)

\* More runs cover as much, and two covered environments are covered by the
\* runs of both.
LEMMA CoversGrows ==
    ASSUME NEW H, NEW K, NEW e, NEW f, Covers(H, e), Covers(K, f)
    PROVE  /\ Covers(H \cup K, e)
           /\ Covers(H \cup K, mergeClosureFlowEnv(e, f))
BY DEF Covers, mergeClosureFlowEnv, Envs

LEMMA CoversMore ==
    ASSUME NEW H, NEW K \in SUBSET Holdings, NEW e, Covers(H, e), H \subseteq K
    PROVE  Covers(K, e)
BY DEF Covers

\* A literal that the walk finds in an expression is its value on some run.
LEMMA CoversExpr ==
    ASSUME NEW H, NEW env, Covers(H, env), NEW e, NEW l \in sourceClosuresForExpr(e, env)
    PROVE  \E h \in H : Value(e, h) = l
BY CapturingAssumption DEF Covers, sourceClosuresForExpr, Value

\* What a block of larger numbers reaches are blocks of larger numbers.
LEMMA AboveInside ==
    ASSUME NEW b, IsBody(b), NEW n \in DOMAIN b, NEW lo \in Nat, Above(b, n, lo),
           NEW c \in {b[n].next} \cup Blocks(b[n])
    PROVE  Above(b, c, lo)
<1>1. n \in Nat /\ lo < n /\ c \in 0 .. n - 1
  BY NumbersOf DEF IsBody, IsStatement, Above
<1>2. c = 0 \/ lo < c
  <2>1. n \in lo + 1 .. n /\ n # 0
    BY <1>1
  <2> QED
    BY <2>1 DEF Above
<1>3. \A m \in lo + 1 .. c : m \in lo + 1 .. n
  BY <1>1
<1> QED
  BY <1>1, <1>2, <1>3 DEF Above

\* The blocks inside a statement do not reach what is behind it.
LEMMA AboveNext ==
    ASSUME NEW b, IsBody(b), NEW n \in DOMAIN b, b[n].next # 0, NEW c \in Blocks(b[n])
    PROVE  b[n].next \in Nat /\ 1 <= b[n].next /\ b[n].next < n /\ Above(b, c, b[n].next)
<1> DEFINE x == b[n].next
           Inside == {0} \cup (x + 1 .. n - 1)
<1>1. n \in Nat /\ x \in 0 .. n - 1 /\ DOMAIN b = 1 .. Len(b) /\ Len(b) \in Nat /\ n <= Len(b)
  BY NumbersOf DEF IsBody, IsStatement
<1>2. c \in Inside
  BY DEF IsBody, IsNested
<1>3. \A m \in Inside \ {0} : {b[m].next} \cup Blocks(b[m]) \subseteq Inside
  BY DEF IsBody, IsNested
<1>4. ASSUME NEW m \in x + 1 .. c, NEW d \in {b[m].next} \cup Blocks(b[m])
      PROVE  d = 0 \/ x < d
  <2>1. m \in Inside \ {0}
    BY <1>1, <1>2
  <2>2. d \in Inside
    BY <2>1, <1>3
  <2> QED
    BY <2>2, <1>1
<1>5. x \in Nat /\ 1 <= x /\ x < n
  BY <1>1
<1>6. c = 0 \/ x < c
  BY <1>1, <1>2
<1> HIDE DEF x
<1>7. Above(b, c, x)
  BY <1>4, <1>6 DEF Above
<1> QED
  BY <1>5, <1>7 DEF x

\* The walk from a statement finds what is seen behind it, and leaves what the
\* runs that come through leave.
Matched(b, n) ==
    \A H, env : Covers(H, env) =>
        LET r == checkSourceBlock(b)[n][env]
            f == BlockFlow(b)[n][H]
        IN  /\ r.errs \subseteq f.seen
            /\ \A lo \in Nat : 1 <= lo /\ Above(b, n, lo) => Covers(f.next, r.env)

\* A turn of a loop without a post statement: what is seen in its body, and
\* what the runs leave at its end.
LEMMA StraightTurn ==
    ASSUME NEW b, IsBody(b), NEW s, s.op = "for", s.post = 0, s.body \in 0 .. Len(b),
           NEW H \in SUBSET Holdings
    PROVE  LET turn == Turn(s, H, BlockFlow(b))
               out  == BlockFlow(b)[s.body][H]
           IN  /\ turn \in Flows(b) /\ out \in Flows(b)
               /\ turn.seen = out.seen /\ turn.brk = out.brk /\ out.next \subseteq turn.next
<1> DEFINE flow == BlockFlow(b)
           out == flow[s.body][H]
<1>1. out \in Flows(b)
  BY FlowType
<1>2. out.next \cup out.cont \in SUBSET Holdings
  BY <1>1, FlowParts
<1>3. flow[0][out.next \cup out.cont] = Flow(out.next \cup out.cont, {}, {}, {})
  BY <1>2, FlowIs
<1>4. Turn(s, H, flow) = [out EXCEPT !.next = out.next \cup out.cont]
  BY <1>3 DEF Turn, Flow
<1> HIDE DEF out
<1>5. /\ Turn(s, H, flow) \in Flows(b)
      /\ Turn(s, H, flow).seen = out.seen /\ Turn(s, H, flow).brk = out.brk
      /\ out.next \subseteq Turn(s, H, flow).next
  BY <1>1, <1>2, <1>4 DEF Flows
<1> QED
  BY <1>1, <1>5 DEF out

\* A statement keeps what its blocks do.
LEMMA StmtMatched ==
    ASSUME NEW b, IsBody(b), Straight(b), NEW n \in DOMAIN b, \A m \in 0 .. n - 1 : Matched(b, m),
           NEW H, NEW env, Covers(H, env)
    PROVE  LET w == checkSourceStmt(b[n], n, env, checkSourceBlock(b))
               g == StmtFlow(b[n], n, H, BlockFlow(b))
           IN  /\ w.errs \subseteq g.seen
               /\ \A lo \in Nat : 1 <= lo /\ lo < n /\ (\A c \in Blocks(b[n]) : Above(b, c, lo))
                                  => Covers(g.next, w.env)
<1> DEFINE walk == checkSourceBlock(b)
           flow == BlockFlow(b)
           s == b[n]
           w == checkSourceStmt(s, n, env, walk)
           g == StmtFlow(s, n, H, flow)
           Goal == /\ w.errs \subseteq g.seen
                   /\ \A lo \in Nat : 1 <= lo /\ lo < n /\ (\A c \in Blocks(s) : Above(b, c, lo))
                                      => Covers(g.next, w.env)
<1> SUFFICES Goal
  OBVIOUS
<1>1. /\ IsStatement(s, n) /\ n \in 1 .. Len(b) /\ Len(b) \in Nat
      /\ s.op \notin Jumping \cup {"multi", "labeled", "select"}
      /\ s.op = "return" => n = 1
      /\ s.op = "for" => s.post = 0
  BY NumbersOf DEF IsBody, Straight
<1>2. \A c \in Blocks(s) : c \in 0 .. n - 1 /\ c \in 0 .. Len(b)
  BY <1>1 DEF IsStatement
<1>3. H \in SUBSET Holdings /\ env \in Envs
  BY DEF Covers
<1>4. ASSUME NEW c \in Blocks(s), NEW K, Covers(K, env)
      PROVE  /\ walk[c][env].errs \subseteq flow[c][K].seen
             /\ \A lo \in Nat : 1 <= lo /\ Above(b, c, lo) => Covers(flow[c][K].next, walk[c][env].env)
  BY <1>2, <1>4 DEF Matched
<1>5. \A c \in Blocks(s) : walk[c][env] \in Results(b)
  BY <1>2, <1>3, WalkType
<1>6. \A c \in Blocks(s), K \in SUBSET Holdings : flow[c][K] \in Flows(b)
  BY <1>2, FlowType
<1> HIDE DEF s, walk, flow
<1>7. CASE s.op = "set"
  <2> DEFINE found == sourceClosuresForExpr(s.val, env)
             next == {[h EXCEPT ![s.var] = Value(s.val, h)] : h \in H}
  <2>1. w = Walked([env EXCEPT ![s.var] = found], {}) /\ g = Flow(next, {}, {}, {})
    BY <1>7 DEF checkSourceStmt, StmtFlow, setClosureFlowValue, Using
  <2>2. s.var \in Vars /\ s.val \in Lits \cup Vars \cup {Unknown}
    BY <1>1, <1>7 DEF IsStatement, Assigning
  <2>3. next \in SUBSET Holdings /\ next # {}
    <3>1. \A h \in H : Value(s.val, h) \in Lits \cup {Unknown} /\ h \in Holdings
      BY <1>3, <2>2, ValueType
    <3>2. \A h \in H : [h EXCEPT ![s.var] = Value(s.val, h)] \in Holdings
      BY <3>1, <2>2 DEF Holdings
    <3>3. H # {}
      BY DEF Covers
    <3> QED
      BY <3>2, <3>3
  <2>4. [env EXCEPT ![s.var] = found] \in Envs
    BY <1>3, ExprType DEF Envs
  <2>5. ASSUME NEW v \in Vars, NEW l \in [env EXCEPT ![s.var] = found][v]
        PROVE  \E k \in next : k[v] = l
    <3>1. PICK h \in H : (v = s.var /\ Value(s.val, h) = l) \/ (v # s.var /\ h[v] = l)
      <4>1. CASE v = s.var
        <5>1. l \in found
          BY <2>5, <4>1, <1>3 DEF Envs
        <5> QED
          BY <5>1, <4>1, CoversExpr
      <4>2. CASE v # s.var
        <5>1. l \in env[v]
          BY <2>5, <4>2, <1>3 DEF Envs
        <5> QED
          BY <5>1, <4>2 DEF Covers
      <4> QED
        BY <4>1, <4>2
    <3> DEFINE k == [h EXCEPT ![s.var] = Value(s.val, h)]
    <3>2. k[v] = l
      BY <3>1, <1>3, <2>2 DEF Holdings
    <3> QED
      BY <3>2
  <2> HIDE DEF next, found
  <2>6. Covers(next, [env EXCEPT ![s.var] = found])
    BY <2>3, <2>4, <2>5 DEF Covers
  <2>7. w.errs = {} /\ w.env = [env EXCEPT ![s.var] = found] /\ g.next = next
    BY <2>1 DEF Walked, Flow
  <2> QED
    BY <2>6, <2>7
<1>8. CASE s.op \in Using
  <2>1. w = Walked(env, ReportedAt(s, n, env))
    BY <1>8 DEF checkSourceStmt, Using
  <2>2. g.seen = Seen(s, n, H) /\ (s.op # "return" => g.next = H)
    BY <1>8 DEF StmtFlow, Using, Flow
  <2>3. ReportedAt(s, n, env) \subseteq Seen(s, n, H)
    <3> SUFFICES ASSUME NEW l \in sourceClosuresForExpr(s.val, env)
                 PROVE  <<n, l>> \in Seen(s, n, H)
      BY DEF ReportedAt
    <3> QED
      BY CoversExpr DEF Seen
  <2>4. w.errs \subseteq g.seen
    BY <2>1, <2>2, <2>3 DEF Walked
  <2>5. \A lo \in Nat : 1 <= lo /\ lo < n => s.op # "return"
    BY <1>1
  <2> QED
    BY <2>1, <2>2, <2>4, <2>5 DEF Walked
<1>9. CASE s.op = "block"
  <2>1. w = walk[s.body][env] /\ g = flow[s.body][H] /\ s.body \in Blocks(s)
    BY <1>9 DEF checkSourceStmt, StmtFlow, Using, Blocks
  <2> QED
    BY <2>1, <1>4
<1>10. CASE s.op = "if"
  <2> DEFINE wt == walk[s.then][env]
             we == walk[s.else][env]
             ft == flow[s.then][H]
             fe == flow[s.else][H]
  <2>1. w = Walked(mergeClosureFlowEnv(wt.env, we.env), wt.errs \cup we.errs)
        /\ g = FlowSum({ft, fe})
    BY <1>10 DEF checkSourceStmt, StmtFlow, Using
  <2>2. s.then \in Blocks(s) /\ s.else \in Blocks(s)
    BY <1>10 DEF Blocks
  <2>3. wt.errs \subseteq ft.seen /\ we.errs \subseteq fe.seen
    BY <1>4, <2>2
  <2>4. \A lo \in Nat : 1 <= lo /\ (\A c \in Blocks(s) : Above(b, c, lo))
                         => Covers(ft.next, wt.env) /\ Covers(fe.next, we.env)
    BY <1>4, <2>2
  <2> HIDE DEF wt, we, ft, fe
  <2>5. g.seen = ft.seen \cup fe.seen /\ g.next = ft.next \cup fe.next
    BY <2>1 DEF FlowSum, Flow
  <2>6. w.env = mergeClosureFlowEnv(wt.env, we.env) /\ w.errs = wt.errs \cup we.errs
    BY <2>1 DEF Walked
  <2> QED
    BY <2>3, <2>4, <2>5, <2>6, CoversGrows
<1>11. CASE s.op = "for"
  <2> DEFINE K1 == Turn(s, H, flow).next
             K2 == Turn(s, K1, flow).next
             K == H \cup K1 \cup K2
             all == Turn(s, K, flow)
             out == flow[s.body][K]
             wb == walk[s.body][env]
             merged == mergeClosureFlowEnv(env, wb.env)
  <2>1. s.body \in Blocks(s) /\ s.post = 0 /\ s.body \in 0 .. Len(b)
    BY <1>1, <1>2, <1>11 DEF Blocks
  <2>2. g = Flow(H \cup all.next \cup all.brk, {}, {}, all.seen)
    BY <1>11 DEF StmtFlow
  <2>3. K1 \in SUBSET Holdings
    BY <2>1, <1>3, <1>11, StraightTurn, FlowParts DEF flow
  <2>4. K2 \in SUBSET Holdings
    BY <2>1, <2>3, <1>11, StraightTurn, FlowParts DEF flow
  <2>5. K \in SUBSET Holdings /\ H \subseteq K
    BY <2>3, <2>4, <1>3
  <2> HIDE DEF K
  <2>6. /\ all \in Flows(b) /\ all.seen = out.seen /\ out.next \subseteq all.next
        /\ out \in Flows(b)
    BY <2>1, <2>5, <1>11, StraightTurn DEF flow
  <2>7. Covers(K, env)
    BY <2>5, CoversMore
  <2>8. /\ wb.errs \subseteq out.seen
        /\ \A lo \in Nat : 1 <= lo /\ (\A c \in Blocks(s) : Above(b, c, lo))
                            => Covers(out.next, wb.env)
    BY <2>1, <2>7, <1>4
  <2>9. wb \in Results(b)
    BY <2>1, <1>5
  <2>10. w = Walked(merged, wb.errs)
    <3>1. merged \in Envs
      BY <2>9, <1>3 DEF mergeClosureFlowEnv, Envs, Results
    <3>2. walk[0][merged] = Walked(merged, {})
      BY <3>1, WalkIs DEF walk
    <3>3. w = Walked(walk[0][merged].env, wb.errs \cup walk[0][merged].errs)
      BY <2>1, <1>11 DEF checkSourceStmt, Using
    <3>4. walk[0][merged].env = merged /\ walk[0][merged].errs = {}
      BY <3>2 DEF Walked
    <3>5. wb.errs \cup {} = wb.errs
      OBVIOUS
    <3> QED
      BY <3>3, <3>4, <3>5
  <2> HIDE DEF all, out, wb
  <2>11. /\ w.errs = wb.errs /\ w.env = merged
         /\ g.seen = all.seen /\ g.next = H \cup all.next \cup all.brk
    BY <2>2, <2>10 DEF Walked, Flow
  <2>12. g.next \in SUBSET Holdings /\ H \cup out.next \subseteq g.next
    BY <2>6, <2>11, <1>3, FlowParts
  <2> HIDE DEF w, g
  <2>13. ASSUME Covers(out.next, wb.env) PROVE Covers(g.next, w.env)
    <3>1. Covers(H \cup out.next, merged)
      BY <2>13, CoversGrows
    <3>2. Covers(g.next, merged)
      BY <3>1, <2>12, CoversMore
    <3> QED
      BY <3>2, <2>11
  <2> QED
    BY <2>6, <2>8, <2>11, <2>13
<1>12. CASE s.op = "switch"
  <2> DEFINE W == {walk[c][env] : c \in s.cases}
             F == {flow[c][H] : c \in s.cases}
             sum == FlowSum(F)
  <2>1. Blocks(s) = s.cases
    BY <1>12 DEF Blocks
  <2>2. w = checkSourceCaseBlock(env, W)
    BY <1>12 DEF checkSourceStmt, Using
  <2>3. g = [sum EXCEPT !.next = sum.next \cup sum.brk \cup H, !.brk = {}]
    BY <1>12 DEF StmtFlow
  <2>4. \A f \in F : f \in Flows(b)
    BY <2>1, <1>3, <1>6
  <2>5. sum \in Flows(b)
    <3> HIDE DEF F
    <3> QED
      BY <2>4, FlowSumType
  <2>6. g.seen = sum.seen /\ g.next = sum.next \cup sum.brk \cup H
    <3> HIDE DEF sum
    <3> QED
      BY <2>3, <2>5 DEF Flows
  <2>7. \A c \in s.cases : flow[c][H].seen \subseteq g.seen /\ flow[c][H].next \subseteq g.next
    BY <2>6 DEF FlowSum, Flow
  <2>8. w.errs = UNION {r.errs : r \in W}
        /\ w.env = [v \in Vars |-> env[v] \cup UNION {r.env[v] : r \in W}]
    BY <2>2 DEF checkSourceCaseBlock, Walked
  <2>9. g.next \in SUBSET Holdings /\ H \subseteq g.next
    BY <2>5, <2>6, <1>3, FlowParts
  <2>10. w \in Results(b)
    <3>1. \A m \in 0 .. n - 1 : m \in 0 .. Len(b)
      BY <1>1
    <3>2. \A m \in 0 .. n - 1 : \A e \in Envs : walk[m][e] \in Results(b)
      BY <3>1, WalkType DEF walk
    <3> QED
      BY <3>2, <1>3, StmtType DEF s
  <2> HIDE DEF w, g, sum
  <2>11. w.errs \subseteq g.seen
    <3>1. \A c \in s.cases : walk[c][env].errs \subseteq g.seen
      BY <2>1, <2>7, <1>4
    <3> QED
      BY <3>1, <2>8
  <2>12. ASSUME NEW lo \in Nat, 1 <= lo, \A c \in Blocks(s) : Above(b, c, lo)
         PROVE  Covers(g.next, w.env)
    <3>1. ASSUME NEW v \in Vars, NEW l \in w.env[v] PROVE \E h \in g.next : h[v] = l
      <4>1. CASE l \in env[v]
        BY <4>1, <2>9 DEF Covers
      <4>2. CASE \E c \in s.cases : l \in walk[c][env].env[v]
        <5>1. PICK c \in s.cases : l \in walk[c][env].env[v]
          BY <4>2
        <5>2. Covers(flow[c][H].next, walk[c][env].env)
          BY <2>1, <2>12, <1>4
        <5> QED
          BY <5>1, <5>2, <2>7 DEF Covers
      <4> QED
        BY <3>1, <4>1, <4>2, <2>8
    <3>2. g.next # {}
      BY <2>9 DEF Covers
    <3> QED
      BY <3>1, <3>2, <2>9, <2>10 DEF Covers, Results
  <2> QED
    BY <2>11, <2>12
<1>13. s.op \in {"set"} \cup Using \cup {"block", "if", "for", "switch"}
  BY <1>1 DEF IsStatement, Assigning, Branching
<1> QED
  BY <1>7, <1>8, <1>9, <1>10, <1>11, <1>12, <1>13

\* So does each block.
LEMMA AllMatched ==
    ASSUME NEW b, IsBody(b), Straight(b)
    PROVE  \A n \in 0 .. Len(b) : Matched(b, n)
<1> USE NumbersOf
<1> DEFINE T == {n \in 0 .. Len(b) : Matched(b, n)}
           walk == checkSourceBlock(b)
           flow == BlockFlow(b)
<1>1. ASSUME NEW k \in 0 .. Len(b), \A m \in 0 .. k - 1 : m \in T
      PROVE  Matched(b, k)
  <2> SUFFICES ASSUME NEW H, NEW env, Covers(H, env)
               PROVE  /\ walk[k][env].errs \subseteq flow[k][H].seen
                      /\ \A lo \in Nat : 1 <= lo /\ Above(b, k, lo)
                                         => Covers(flow[k][H].next, walk[k][env].env)
    BY DEF Matched
  <2>1. H \in SUBSET Holdings /\ env \in Envs
    BY DEF Covers
  <2>2. \A K \in SUBSET Holdings, e \in Envs :
            walk[0][e] = Walked(e, {}) /\ flow[0][K] = Flow(K, {}, {}, {})
    BY WalkIs, FlowIs
  <2>3. CASE k = 0
    <3>1. walk[k][env] = Walked(env, {}) /\ flow[k][H] = Flow(H, {}, {}, {})
      BY <2>1, <2>2, <2>3
    <3>2. walk[k][env].errs = {} /\ walk[k][env].env = env /\ flow[k][H].next = H
      BY <3>1 DEF Walked, Flow
    <3> QED
      BY <3>2
  <2>4. CASE k # 0
    <3> DEFINE s == b[k]
               w == checkSourceStmt(s, k, env, walk)
               g == StmtFlow(s, k, H, flow)
               rw == walk[s.next][w.env]
               rf == flow[s.next][g.next]
    <3>1. k \in DOMAIN b /\ k \in Nat /\ s.next \in 0 .. k - 1
      <4>1. k \in DOMAIN b /\ k \in Nat
        BY <2>4
      <4>2. b[k].next \in 0 .. k - 1
        BY <4>1 DEF IsBody, IsStatement
      <4> QED
        BY <4>1, <4>2
    <3>2. \A m \in 0 .. k - 1 : Matched(b, m)
      BY <1>1
    <3>3. walk[k][env] = Walked(rw.env, w.errs \cup rw.errs)
      BY <3>1, <2>1, WalkIs DEF Step
    <3>4. flow[k][H] = Flow(rf.next, g.brk \cup rf.brk, g.cont \cup rf.cont, g.seen \cup rf.seen)
      BY <3>1, <2>1, FlowIs DEF FlowOn
    <3>5. /\ w.errs \subseteq g.seen
          /\ \A lo \in Nat : 1 <= lo /\ lo < k /\ (\A c \in Blocks(s) : Above(b, c, lo))
                             => Covers(g.next, w.env)
      BY <3>1, <3>2, StmtMatched
    <3>6. w.env \in Envs
      <4>1. \A m \in 0 .. k - 1 : \A e \in Envs : walk[m][e] \in Results(b)
        BY WalkType
      <4> QED
        BY <4>1, <3>1, <2>1, StmtType DEF Results
    <3>7. \A m \in 0 .. k - 1 : \A K, e : Covers(K, e) =>
              /\ walk[m][e].errs \subseteq flow[m][K].seen
              /\ \A lo \in Nat : 1 <= lo /\ Above(b, m, lo) => Covers(flow[m][K].next, walk[m][e].env)
      BY <3>2 DEF Matched
    <3>8. rw.errs \subseteq rf.seen
      <4>1. CASE s.next = 0
        <5>1. rw = Walked(w.env, {})
          BY <4>1, <3>6, <2>1, <2>2
        <5>2. rw.errs = {}
          BY <5>1 DEF Walked
        <5> QED
          BY <5>2
      <4>2. CASE s.next # 0
        <5>1. Covers(g.next, w.env)
          <6>1. s.next \in Nat /\ 1 <= s.next /\ s.next < k
            BY <3>1, <4>2
          <6>2. \A c \in Blocks(s) : Above(b, c, s.next)
            BY <3>1, <4>2, AboveNext
          <6> QED
            BY <6>1, <6>2, <3>5
        <5> QED
          BY <5>1, <3>1, <3>7
      <4> QED
        BY <4>1, <4>2
    <3>9. ASSUME NEW lo \in Nat, 1 <= lo, Above(b, k, lo)
          PROVE  Covers(rf.next, rw.env)
      <4>1. lo < k
        BY <2>4, <3>9 DEF Above
      <4>2. \A c \in {s.next} \cup Blocks(s) : Above(b, c, lo)
        BY <3>1, <3>9, AboveInside
      <4>3. Covers(g.next, w.env)
        BY <3>5, <3>9, <4>1, <4>2
      <4> QED
        BY <4>2, <4>3, <3>1, <3>7, <3>9
    <3> HIDE DEF w, g, rw, rf, s
    <3>10. walk[k][env].errs = w.errs \cup rw.errs /\ walk[k][env].env = rw.env
      BY <3>3 DEF Walked
    <3>11. flow[k][H].seen = g.seen \cup rf.seen /\ flow[k][H].next = rf.next
      BY <3>4 DEF Flow
    <3> QED
      BY <3>5, <3>8, <3>9, <3>10, <3>11
  <2> QED
    BY <2>3, <2>4
<1>2. \A k \in 0 .. Len(b) : (\A m \in 0 .. k - 1 : m \in T) => k \in T
  BY <1>1
<1> HIDE DEF T
<1>3. \A n \in 0 .. Len(b) : n \in T
  BY <1>2, EachFromSmaller
<1> QED
  BY <1>3 DEF T

\* What the walk reports of a straight function reaches the place.
LEMMA SourceReportsReal ==
    ASSUME NEW b \in Functions, Straight(b)
    PROVE  checkSourceFuncBody(b) \subseteq Reaching(b)
<1>1. IsBody(b) /\ Len(b) \in 0 .. Len(b)
  BY BodiesOf, NumbersOf
<1>2. Covers({Nothing}, NoClosures)
  BY DEF Covers, Nothing, NoClosures, Holdings, Envs
<1> QED
  BY <1>1, <1>2, AllMatched DEF Matched, checkSourceFuncBody, Reaching

---------------------------------------------------------------------------
(* Reports of straight functions are real.                                 *)

RInv == /\ phase = "source" => reports = {}
        /\ Straight(body) => reports \subseteq Reaching(body)

LEMMA ReportsInit == Init => RInv
BY DEF Init, RInv

LEMMA ReportsStep == TInv /\ RInv /\ [Next]_vars => RInv'
<1> SUFFICES ASSUME TInv, RInv, [Next]_vars PROVE RInv'
  OBVIOUS
<1>1. CASE UNCHANGED vars
  BY <1>1 DEF vars, RInv
<1>2. CASE CheckSource
  BY <1>2, SourceReportsReal DEF CheckSource, RInv, TInv
<1>3. CASE CheckSSA
  BY <1>3, ReportsType DEF CheckSSA, RInv, TInv
<1>4. CASE Assign \/ Use \/ Branch \/ Loop \/ EndTurn \/ Jump
  BY <1>4 DEF Assign, Use, Branch, Loop, EndTurn, Jump, At, Running, checking, RInv
<1> QED
  BY <1>1, <1>2, <1>3, <1>4 DEF Next

\* In a function whose statements the walk sees as they run, a report names a
\* literal that some path brings to the place it names.
THEOREM ReportsAreOfPaths == Spec => []ReportsAreReal
<1>1. RInv => ReportsAreReal
  BY DEF RInv, ReportsAreReal
<1> QED
  BY <1>1, TypesInit, TypesStep, ReportsInit, ReportsStep, PTL DEF Spec

---------------------------------------------------------------------------
(* The walk over the body of a region.                                     *)

IsRegion(rg) ==
    /\ rg.body \in Seq(Range(rg.body)) /\ \A i \in DOMAIN rg.body : IsStatementOf(rg.body, i)
    /\ rg.params \in Seq(Roots) /\ rg.captures \subseteq Roots
    /\ Declared(rg) \cap (paramNames(rg) \cup rg.captures) = {}

\* A region of the model is what its assumption says.
LEMMA RegionOf == ASSUME NEW rg \in Regions PROVE IsRegion(rg)
BY RegionsAssumption DEF IsRegion

\* The numbers of the statements of a region.
LEMMA PositionsOf ==
    ASSUME NEW rg, IsRegion(rg)
    PROVE  Len(rg.body) \in Nat /\ DOMAIN rg.body = 1 .. Len(rg.body)
BY DEF IsRegion

\* The walk of the first k statements.
IsRegionWalk(f, rg, k) ==
    f = [i \in 0 .. k |-> IF i = 0 THEN NewWalk(rg) ELSE checkStatement(rg, i, f)]

\* A statement is walked with what comes before it.
LEMMA StatementSame ==
    ASSUME NEW rg, IsRegion(rg), NEW i \in DOMAIN rg.body, NEW f, NEW g,
           \A m \in 0 .. i - 1 : f[m] = g[m]
    PROVE  checkStatement(rg, i, f) = checkStatement(rg, i, g)
<1>1. i - 1 \in 0 .. i - 1 /\ IsStatementOf(rg.body, i)
  BY PositionsOf DEF IsRegion
<1>2. f[i - 1] = g[i - 1]
  BY <1>1
<1>3. CASE rg.body[i].op = "else"
  <2>1. f[rg.body[i].of] = g[rg.body[i].of]
    BY <1>1, <1>3, PositionsOf DEF IsStatementOf
  <2> QED
    BY <2>1, <1>2, <1>3 DEF checkStatement
<1>4. CASE rg.body[i].op = "end"
  <2>1. f[rg.body[i].else - 1] = g[rg.body[i].else - 1]
    BY <1>1, <1>4, PositionsOf DEF IsStatementOf
  <2> QED
    BY <2>1, <1>2, <1>4 DEF checkStatement
<1>5. CASE rg.body[i].op \notin {"else", "end"}
  BY <1>2, <1>5 DEF checkStatement
<1> QED
  BY <1>3, <1>4, <1>5

\* There is a walk of the first statements, up to each.
LEMMA RegionWalkExists ==
    ASSUME NEW rg, IsRegion(rg)
    PROVE  \A k \in 0 .. Len(rg.body) : \E f : IsRegionWalk(f, rg, k)
<1> USE PositionsOf
<1> DEFINE T == {k \in 0 .. Len(rg.body) : \E f : IsRegionWalk(f, rg, k)}
<1>1. ASSUME NEW k \in 0 .. Len(rg.body), \A m \in 0 .. k - 1 : m \in T
      PROVE  k \in T
  <2>1. CASE k = 0
    <3> DEFINE f == [i \in 0 .. 0 |-> NewWalk(rg)]
    <3>1. IsRegionWalk(f, rg, 0)
      BY DEF IsRegionWalk
    <3> QED
      BY <3>1, <2>1
  <2>2. CASE k # 0
    <3>1. k - 1 \in 0 .. k - 1 /\ k \in DOMAIN rg.body /\ k \in Nat
      BY <2>2
    <3>2. PICK g : IsRegionWalk(g, rg, k - 1)
      BY <3>1, <1>1
    <3> DEFINE f == [i \in 0 .. k |-> IF i = k THEN checkStatement(rg, i, g) ELSE g[i]]
    <3>3. \A i \in 0 .. k - 1 : f[i] = g[i]
      BY <3>1
    <3>4. f[k] = checkStatement(rg, k, g) /\ DOMAIN f = 0 .. k
      BY <3>1
    <3>5. f = [i \in 0 .. k |-> f[i]]
      OBVIOUS
    <3> HIDE DEF f
    <3>6. ASSUME NEW i \in 0 .. k, i # 0
          PROVE  checkStatement(rg, i, f) = checkStatement(rg, i, g)
      <4>1. i \in DOMAIN rg.body /\ \A m \in 0 .. i - 1 : f[m] = g[m]
        BY <3>3, <3>6
      <4> QED
        BY <4>1, StatementSame
    <3>7. ASSUME NEW i \in 0 .. k
          PROVE  f[i] = IF i = 0 THEN NewWalk(rg) ELSE checkStatement(rg, i, f)
      <4>1. CASE i = k
        BY <3>4, <3>6, <4>1, <2>2
      <4>2. CASE i # k
        <5>1. i \in 0 .. k - 1
          BY <4>2
        <5>2. g[i] = IF i = 0 THEN NewWalk(rg) ELSE checkStatement(rg, i, g)
          BY <3>2, <5>1 DEF IsRegionWalk
        <5> QED
          BY <3>3, <5>1, <5>2, <3>6
      <4> QED
        BY <4>1, <4>2
    <3>8. IsRegionWalk(f, rg, k)
      BY <3>5, <3>7, Zenon DEF IsRegionWalk
    <3> QED
      BY <3>8
  <2> QED
    BY <2>1, <2>2
<1> HIDE DEF T
<1>2. \A k \in 0 .. Len(rg.body) : k \in T
  BY <1>1, EachFromSmaller
<1> QED
  BY <1>2 DEF T

\* The walk of the whole body is what its definition says of it.
LEMMA RegionWalkIs ==
    ASSUME NEW rg, IsRegion(rg)
    PROVE  LET walk == checkNestedBlock(rg)
           IN /\ walk[0] = NewWalk(rg)
              /\ \A i \in DOMAIN rg.body : walk[i] = checkStatement(rg, i, walk)
<1> USE PositionsOf
<1> DEFINE walk == checkNestedBlock(rg)
<1>1. walk = CHOOSE f : IsRegionWalk(f, rg, Len(rg.body))
  BY DEF checkNestedBlock, IsRegionWalk
<1>2. \E f : IsRegionWalk(f, rg, Len(rg.body))
  BY RegionWalkExists
<1>3. IsRegionWalk(walk, rg, Len(rg.body))
  BY <1>1, <1>2, Zenon
<1> HIDE DEF walk
<1>4. \A i \in 0 .. Len(rg.body) : walk[i] = IF i = 0 THEN NewWalk(rg) ELSE checkStatement(rg, i, walk)
  BY <1>3 DEF IsRegionWalk
<1>5. 0 \in 0 .. Len(rg.body) /\ \A i \in DOMAIN rg.body : i \in 0 .. Len(rg.body) /\ i # 0
  OBVIOUS
<1> QED
  BY <1>4, <1>5 DEF walk

---------------------------------------------------------------------------
(* What a walk records.                                                    *)

\* The tokens of a region.
Tokens(rg) == {t \in Place : t.root \in restoreIsoParamObjects(rg)}

IsWalkState(rg, w) ==
    /\ w = Walk(w.token, w.moved, w.inc, w.errs)
    /\ w.token \in [Roots -> Tokens(rg) \cup {NoToken}]
    /\ w.inc \in [Roots -> Roots \cup {"nil"}]
    /\ w.moved \subseteq {t \in Tokens(rg) : t.path # <<>>}
    /\ \A r \in restoreIsoParamObjects(rg) : w.token[r] = RootPlace(r)

\* What u has kept of w.
Grows(w, u) ==
    /\ w.errs \subseteq u.errs
    /\ \A v \in Roots : w.inc[v] # "nil" => u.inc[v] = w.inc[v]

LEMMA IsoAreRoots ==
    ASSUME NEW rg, IsRegion(rg)
    PROVE  restoreIsoParamObjects(rg) \subseteq Roots /\ "nil" \notin Roots
BY NoPlaceAssumption DEF IsRegion, restoreIsoParamObjects, paramNames

\* The place of a variable, and the ones of a variable and a path.
LEMMA PlacesOf ==
    /\ \A v \in Roots : RootPlace(v) \in Place /\ RootPlace(v).root = v /\ RootPlace(v).path = <<>>
    /\ \A e \in Place : e.root \in Roots /\ e.path \in Paths /\ (e.path = <<>> => e = RootPlace(e.root))
    /\ \A v \in Roots, p \in Paths : [root |-> v, path |-> p] \in Place
    /\ NoToken \notin Place
BY PathsAssumption, NoPlaceAssumption DEF Place, RootPlace, NoToken, NoPlace

\* A walk with other moved projections.
LEMMA MovedOf ==
    ASSUME NEW w, w = Walk(w.token, w.moved, w.inc, w.errs)
    PROVE  \A M : [w EXCEPT !.moved = M] = Walk(w.token, M, w.inc, w.errs)
BY DEF Walk

\* The token of a place.
LEMMA TokenOfPlace ==
    ASSUME NEW rg, IsRegion(rg), NEW w, IsWalkState(rg, w), NEW e
    PROVE  LET t == tokenForExpr(rg, w, e)
           IN /\ t \in Tokens(rg) \cup {NoToken}
              /\ t # NoToken => e \in Place
              /\ e \in Place /\ e.path = <<>> => t = w.token[e.root]
              /\ e.path # <<>> /\ t # NoToken =>
                    /\ t.path = e.path /\ w.token[e.root] = RootPlace(t.root)
<1>1. CASE e \notin Place
  BY <1>1 DEF tokenForExpr
<1>2. CASE e \in Place
  <2>1. e.root \in Roots /\ e.path \in Paths
    BY <1>2, PlacesOf
  <2>2. w.token[e.root] \in Tokens(rg) \cup {NoToken}
    BY <2>1 DEF IsWalkState
  <2>3. CASE e.path = <<>>
    BY <1>2, <2>2, <2>3 DEF tokenForExpr
  <2>4. CASE e.path # <<>> /\ e.root \in restoreIsoParamObjects(rg)
    <3>1. tokenForExpr(rg, w, e) = e /\ w.token[e.root] = RootPlace(e.root)
      BY <1>2, <2>4 DEF tokenForExpr, IsWalkState
    <3> QED
      BY <3>1, <1>2, <2>4 DEF Tokens
  <2>5. CASE /\ e.path # <<>> /\ e.root \notin restoreIsoParamObjects(rg)
             /\ (w.token[e.root] = NoToken \/ w.token[e.root].path # <<>>)
    BY <1>2, <2>5 DEF tokenForExpr
  <2>6. CASE /\ e.path # <<>> /\ e.root \notin restoreIsoParamObjects(rg)
             /\ ~(w.token[e.root] = NoToken \/ w.token[e.root].path # <<>>)
    <3> DEFINE base == w.token[e.root]
    <3>1. base \in Tokens(rg) /\ base.path = <<>>
      BY <2>2, <2>6
    <3>2. tokenForExpr(rg, w, e) = [root |-> base.root, path |-> e.path]
      BY <1>2, <2>6 DEF tokenForExpr
    <3>3. base \in Place /\ base.root \in restoreIsoParamObjects(rg)
      BY <3>1 DEF Tokens
    <3>4. base = RootPlace(base.root) /\ base.root \in Roots
      BY <3>1, <3>3, PlacesOf
    <3> HIDE DEF base
    <3> QED
      BY <3>2, <3>3, <3>4, <2>1, <2>6, <1>2, PlacesOf DEF Tokens, base
  <2> QED
    BY <2>3, <2>4, <2>5, <2>6
<1> QED
  BY <1>1, <1>2

\* An assignment keeps what was recorded, but for the token of what it sets.
LEMMA AssignGrows ==
    ASSUME NEW rg, IsRegion(rg), NEW w, IsWalkState(rg, w), NEW dst \in Place, NEW src
    PROVE  LET u == recordPointerAssignment(rg, w, dst, src)
           IN /\ IsWalkState(rg, u) /\ Grows(w, u)
              /\ \A v \in Roots : dst # RootPlace(v) => u.token[v] = w.token[v]
<1> DEFINE token == tokenForExpr(rg, w, src)
           read  == markMovedProjectionFromExpr(w, src, token)
<1> USE IsoAreRoots, PlacesOf
<1>0. token \in Tokens(rg) \cup {NoToken}
  BY TokenOfPlace
<1> HIDE DEF token
<1>1. CASE ~ptr(src) \/ token = NoToken
  BY <1>1 DEF recordPointerAssignment, Grows, token
<1>2. CASE ptr(src) /\ token # NoToken
  <2>1. IsWalkState(rg, read) /\ read.token = w.token /\ read.inc = w.inc /\ read.errs = w.errs
    BY <1>0, <1>2 DEF markMovedProjectionFromExpr, IsWalkState, Walk
  <2> HIDE DEF read
  <2>2. CASE dst.path # <<>>
    <3> DEFINE c == clearMovedProjection(rg, read, dst)
               u == recordIncorporation(rg, c, dst, token)
               into == incorporationTargetRoot(rg, c, dst)
    <3>1. recordPointerAssignment(rg, w, dst, src) = u
      BY <1>2, <2>2 DEF recordPointerAssignment, token, read
    <3>2. IsWalkState(rg, c) /\ c.token = w.token /\ c.inc = w.inc /\ c.errs = w.errs
      <4>1. c = Walk(read.token, read.moved \ {tokenForExpr(rg, read, dst)}, read.inc, read.errs)
        <5> DEFINE t == tokenForExpr(rg, read, dst)
        <5>1. c = [read EXCEPT !.moved = @ \ {t}]
          BY DEF clearMovedProjection
        <5> HIDE DEF t
        <5>2. read = Walk(read.token, read.moved, read.inc, read.errs)
          BY <2>1 DEF IsWalkState
        <5>3. [read EXCEPT !.moved = @ \ {t}] = Walk(read.token, read.moved \ {t}, read.inc, read.errs)
          BY <5>2, MovedOf
        <5> QED
          BY <5>1, <5>3 DEF t
      <4> HIDE DEF c
      <4>2. /\ c.token = read.token /\ c.inc = read.inc /\ c.errs = read.errs
            /\ c.moved \subseteq read.moved /\ c = Walk(c.token, c.moved, c.inc, c.errs)
        BY <4>1 DEF Walk
      <4> QED
        BY <4>2, <2>1 DEF IsWalkState
    <3>3. into \in Roots \cup {"nil"}
      BY <3>2 DEF incorporationTargetRoot, IsWalkState, Tokens
    <3> HIDE DEF c, into
    <3>4. \/ u = c
          \/ u = Add(c, {"incorporatedTwice"})
          \/ /\ u = [c EXCEPT !.inc[token.root] = into]
             /\ c.inc[token.root] \in {"nil", into} /\ token.root \in Roots
      BY DEF recordIncorporation, into
    <3> HIDE DEF u
    <3>5. IsWalkState(rg, u) /\ Grows(c, u) /\ u.token = c.token
      <4>1. CASE u = c
        BY <4>1, <3>2 DEF Grows
      <4>2. CASE u = Add(c, {"incorporatedTwice"})
        BY <4>2, <3>2 DEF Grows, Add, IsWalkState, Walk
      <4>3. CASE /\ u = [c EXCEPT !.inc[token.root] = into]
                 /\ c.inc[token.root] \in {"nil", into} /\ token.root \in Roots
        BY <4>3, <3>2, <3>3 DEF Grows, IsWalkState, Walk
      <4> QED
        BY <3>4, <4>1, <4>2, <4>3
    <3> QED
      BY <3>1, <3>2, <3>5 DEF Grows
  <2>3. CASE dst.path = <<>> /\ dst.root \in restoreIsoParamObjects(rg)
    <3>1. recordPointerAssignment(rg, w, dst, src) = read
      BY <1>2, <2>3 DEF recordPointerAssignment, token, read
    <3> QED
      BY <3>1, <2>1 DEF Grows
  <2>4. CASE dst.path = <<>> /\ dst.root \notin restoreIsoParamObjects(rg)
    <3>1. recordPointerAssignment(rg, w, dst, src) = [read EXCEPT !.token[dst.root] = token]
      BY <1>2, <2>4 DEF recordPointerAssignment, token, read
    <3>2. dst = RootPlace(dst.root)
      BY <2>4
    <3> DEFINE u == [read EXCEPT !.token[dst.root] = token]
    <3>3. IsWalkState(rg, u)
      BY <2>1, <2>4, <1>0 DEF IsWalkState, Walk
    <3>4. Grows(w, u) /\ \A v \in Roots : dst # RootPlace(v) => u.token[v] = w.token[v]
      BY <2>1, <3>2 DEF Grows, IsWalkState, Walk
    <3> QED
      BY <3>1, <3>3, <3>4
  <2> QED
    BY <2>2, <2>3, <2>4
<1> QED
  BY <1>1, <1>2

\* An error is all that it adds.
LEMMA AddGrows ==
    ASSUME NEW rg, NEW w, IsWalkState(rg, w), NEW found
    PROVE  /\ IsWalkState(rg, Add(w, found)) /\ Grows(w, Add(w, found))
           /\ Add(w, found).token = w.token
<1>1. w = Walk(w.token, w.moved, w.inc, w.errs)
  BY DEF IsWalkState
<1>2. \A E : [w EXCEPT !.errs = E] = Walk(w.token, w.moved, w.inc, E)
  BY <1>1 DEF Walk
<1>3. Add(w, found) = Walk(w.token, w.moved, w.inc, w.errs \cup found)
  BY <1>2 DEF Add
<1> QED
  BY <1>3 DEF IsWalkState, Walk, Grows

\* A statement keeps what was recorded, but for the token of what it sets.
LEMMA StatementGrows ==
    ASSUME NEW rg, IsRegion(rg), NEW i \in DOMAIN rg.body, NEW walk,
           \A m \in 0 .. i - 1 : IsWalkState(rg, walk[m])
    PROVE  LET s == rg.body[i]
               u == checkStatement(rg, i, walk)
           IN /\ IsWalkState(rg, u) /\ Grows(walk[i - 1], u)
              /\ \A v \in Roots : ~(s.op = "set" /\ s.dst = RootPlace(v)) =>
                     u.token[v] = walk[i - 1].token[v]
<1> DEFINE s == rg.body[i]
           w == walk[i - 1]
           u == checkStatement(rg, i, walk)
<1>0. IsStatementOf(rg.body, i) /\ i - 1 \in 0 .. i - 1 /\ DOMAIN rg.body = 1 .. Len(rg.body)
  BY PositionsOf DEF IsRegion
<1>1. IsWalkState(rg, w)
  BY <1>0
<1>2. ASSUME NEW found
      PROVE  IsWalkState(rg, Add(w, found)) /\ Grows(w, Add(w, found)) /\ Add(w, found).token = w.token
  BY <1>1, AddGrows
<1>3. ASSUME NEW M, M \subseteq {t \in Tokens(rg) : t.path # <<>>}
      PROVE  LET x == [w EXCEPT !.moved = M]
             IN IsWalkState(rg, x) /\ Grows(w, x) /\ x.token = w.token
  <2> HIDE DEF w
  <2>1. [w EXCEPT !.moved = M] = Walk(w.token, M, w.inc, w.errs)
    BY <1>1, MovedOf DEF IsWalkState
  <2> QED
    BY <2>1, <1>1, <1>3 DEF IsWalkState, Walk, Grows
<1>4. CASE s.op = "set"
  <2> DEFINE r == IF s.dst \in Place THEN recordPointerAssignment(rg, w, s.dst, s.src) ELSE w
             found == checkExpr(s.dst) \cup checkExpr(s.src) \cup checkAssignmentTarget(rg, s.dst)
                      \cup checkPointerFieldStoreValue(rg, w, s.dst, s.src)
                      \cup rejectUntrackedPointerValue(s.src)
  <2>1. u = Add(r, found)
    BY <1>4 DEF checkStatement, checkAssign
  <2>2. /\ IsWalkState(rg, r) /\ Grows(w, r)
        /\ \A v \in Roots : s.dst # RootPlace(v) => r.token[v] = w.token[v]
    BY <1>1, AssignGrows DEF Grows
  <2> HIDE DEF r, found
  <2>3. IsWalkState(rg, Add(r, found)) /\ Grows(r, Add(r, found)) /\ Add(r, found).token = r.token
    BY <2>2, AddGrows
  <2>4. Grows(w, Add(r, found))
    BY <2>2, <2>3 DEF Grows
  <2> HIDE DEF u, w, s
  <2> QED
    BY <2>1, <2>2, <2>3, <2>4, <1>4 DEF u, w, s
<1>5. CASE s.op = "else"
  <2>1. s.of \in 0 .. i - 1
    BY <1>0, <1>5 DEF IsStatementOf
  <2>2. walk[s.of].moved \subseteq {t \in Tokens(rg) : t.path # <<>>}
    BY <2>1 DEF IsWalkState
  <2>3. u = [w EXCEPT !.moved = walk[s.of].moved]
    BY <1>5 DEF checkStatement
  <2> HIDE DEF u, w, s
  <2> QED
    BY <2>2, <2>3, <1>3 DEF u, w, s
<1>6. CASE s.op = "end"
  <2>1. s.else - 1 \in 0 .. i - 1
    BY <1>0, <1>6 DEF IsStatementOf
  <2>2. w.moved \cup walk[s.else - 1].moved \subseteq {t \in Tokens(rg) : t.path # <<>>}
    BY <2>1, <1>1 DEF IsWalkState
  <2>3. u = [w EXCEPT !.moved = w.moved \cup walk[s.else - 1].moved]
    BY <1>6 DEF checkStatement
  <2> HIDE DEF u, w, s
  <2> QED
    BY <2>2, <2>3, <1>3 DEF u, w, s
<1>7. CASE s.op \notin {"set", "else", "end"}
  <2>1. \E found : u = Add(w, found)
    BY <1>7 DEF checkStatement
  <2> HIDE DEF u, w, s
  <2> QED
    BY <2>1, <1>2 DEF u, w, s
<1> QED
  BY <1>4, <1>5, <1>6, <1>7

\* The walk of a region at each of its positions.
LEMMA WalkStates ==
    ASSUME NEW rg, IsRegion(rg)
    PROVE  \A i \in 0 .. Len(rg.body) : IsWalkState(rg, checkNestedBlock(rg)[i])
<1> USE PositionsOf
<1> DEFINE walk == checkNestedBlock(rg)
           T == {i \in 0 .. Len(rg.body) : IsWalkState(rg, walk[i])}
<1>1. walk[0] = NewWalk(rg) /\ \A i \in DOMAIN rg.body : walk[i] = checkStatement(rg, i, walk)
  BY RegionWalkIs
<1> HIDE DEF walk
<1>2. ASSUME NEW i \in 0 .. Len(rg.body), \A m \in 0 .. i - 1 : m \in T
      PROVE  i \in T
  <2>1. CASE i = 0
    <3>1. IsWalkState(rg, NewWalk(rg))
      BY IsoAreRoots, PlacesOf DEF NewWalk, IsWalkState, Walk, Tokens
    <3> QED
      BY <3>1, <2>1, <1>1
  <2>2. CASE i # 0
    <3>1. \A m \in 0 .. i - 1 : IsWalkState(rg, walk[m])
      BY <1>2
    <3>2. i \in DOMAIN rg.body
      BY <2>2
    <3> HIDE DEF T
    <3>3. IsWalkState(rg, checkStatement(rg, i, walk))
      BY <3>1, <3>2, StatementGrows
    <3> QED
      BY <3>2, <3>3, <1>1 DEF T
  <2> QED
    BY <2>1, <2>2
<1> HIDE DEF T
<1>3. \A i \in 0 .. Len(rg.body) : i \in T
  BY <1>2, EachFromSmaller
<1> QED
  BY <1>3 DEF T, walk

\* From one position to the next.
LEMMA NextGrows ==
    ASSUME NEW rg, IsRegion(rg), NEW i \in DOMAIN rg.body
    PROVE  LET walk == checkNestedBlock(rg)
           IN /\ Grows(walk[i - 1], walk[i])
              /\ \A v \in Roots : ~(rg.body[i].op = "set" /\ rg.body[i].dst = RootPlace(v)) =>
                     walk[i].token[v] = walk[i - 1].token[v]
<1>1. \A m \in 0 .. i - 1 : m \in 0 .. Len(rg.body)
  BY PositionsOf
<1> QED
  BY <1>1, WalkStates, RegionWalkIs, StatementGrows

\* Nothing that was recorded is forgotten.
LEMMA WalkGrows ==
    ASSUME NEW rg, IsRegion(rg), NEW i \in 0 .. Len(rg.body), NEW j \in i .. Len(rg.body)
    PROVE  Grows(checkNestedBlock(rg)[i], checkNestedBlock(rg)[j])
<1> USE PositionsOf
<1> DEFINE walk == checkNestedBlock(rg)
           T == {k \in 0 .. Len(rg.body) : k >= i => Grows(walk[i], walk[k])}
<1>1. ASSUME NEW k \in 0 .. Len(rg.body), \A m \in 0 .. k - 1 : m \in T
      PROVE  k \in T
  <2>1. CASE k <= i
    BY <2>1 DEF Grows
  <2>2. CASE k > i
    <3>1. k - 1 \in T /\ k - 1 >= i /\ k \in DOMAIN rg.body
      BY <2>2, <1>1
    <3>2. Grows(walk[i], walk[k - 1]) /\ Grows(walk[k - 1], walk[k])
      BY <3>1, NextGrows
    <3> HIDE DEF walk
    <3> QED
      BY <3>2 DEF Grows
  <2> QED
    BY <2>1, <2>2
<1> HIDE DEF T
<1>2. \A k \in 0 .. Len(rg.body) : k \in T
  BY <1>1, EachFromSmaller
<1> QED
  BY <1>2 DEF T

\* A variable that is not set keeps its token.
LEMMA TokenKept ==
    ASSUME NEW rg, IsRegion(rg), NEW i \in 0 .. Len(rg.body), NEW j \in i .. Len(rg.body),
           NEW v \in Roots,
           \A k \in SetsAt(rg) : i < k /\ k <= j => rg.body[k].dst # RootPlace(v)
    PROVE  checkNestedBlock(rg)[j].token[v] = checkNestedBlock(rg)[i].token[v]
<1> USE PositionsOf
<1> DEFINE walk == checkNestedBlock(rg)
           T == {k \in 0 .. Len(rg.body) : i <= k /\ k <= j => walk[k].token[v] = walk[i].token[v]}
<1>1. ASSUME NEW k \in 0 .. Len(rg.body), \A m \in 0 .. k - 1 : m \in T
      PROVE  k \in T
  <2>1. CASE k <= i \/ k > j
    BY <2>1
  <2>2. CASE k > i /\ k <= j
    <3>1. k - 1 \in T /\ k - 1 >= i /\ k \in DOMAIN rg.body
      BY <2>2, <1>1
    <3>2. ~(rg.body[k].op = "set" /\ rg.body[k].dst = RootPlace(v))
      BY <2>2, <3>1 DEF SetsAt
    <3>3. walk[k].token[v] = walk[k - 1].token[v]
      BY <3>1, <3>2, NextGrows
    <3> QED
      BY <3>1, <3>3, <2>2
  <2> QED
    BY <2>1, <2>2
<1> HIDE DEF T
<1>2. \A k \in 0 .. Len(rg.body) : k \in T
  BY <1>1, EachFromSmaller
<1> QED
  BY <1>2 DEF T

---------------------------------------------------------------------------
(* Who holds a node.  A field holds what it points to unless that was read *)
(* into a token that has been stored; a variable holds what it points to   *)
(* while its token has not been stored.                                    *)

Pairs == Node \X PtrFields

Values == Node \cup {Nil, Scalar, NoPlace}

\* The place of a field, as the checker names it.
EdgeName(e) == [root |-> e[1].root, path |-> Append(e[1].path, e[2])]

Counts(e, w, st) == EdgeName(e) \notin w.moved \/ EdgeName(e) \notin st

Claims(x, w, st) == w.token[x] # NoToken /\ w.token[x].path # <<>> /\ w.token[x] \notin st

\* Nothing holds node v but what the token t names.
HeldBy(v, t, rg, hp, vl, w, st) ==
    /\ \A e \in Pairs : hp[e[1]][e[2]] = v /\ Counts(e, w, st) => EdgeName(e) = t
    /\ \A x \in Roots : vl[x] = v /\ Claims(x, w, st) => w.token[x] = t
    /\ \A r \in restoreIsoParamObjects(rg) : v = RootPlace(r) => RootPlace(r) \in st \cup {t}

OneEdge(hp, w, st) ==
    \A e, d \in Pairs :
        /\ hp[e[1]][e[2]] \in Node /\ hp[e[1]][e[2]] = hp[d[1]][d[2]]
        /\ Counts(e, w, st) /\ Counts(d, w, st)
        => EdgeName(e) = EdgeName(d)

EdgeOrVariable(hp, vl, w, st) ==
    \A x \in Roots, e \in Pairs :
        vl[x] \in Node /\ Claims(x, w, st) /\ hp[e[1]][e[2]] = vl[x] =>
            /\ Counts(e, w, st) => EdgeName(e) = w.token[x]
            /\ EdgeName(e) = w.token[x] => EdgeName(e) \in w.moved

OneToken(vl, w, st) ==
    \A x, y \in Roots :
        vl[x] \in Node /\ vl[x] = vl[y] /\ Claims(x, w, st) /\ Claims(y, w, st) =>
            w.token[x] = w.token[y]

\* A root that was not stored hangs nowhere.
FreshRoots(rg, hp, vl, w, st) ==
    \A r \in restoreIsoParamObjects(rg) : RootPlace(r) \notin st =>
        /\ \A e \in Pairs : hp[e[1]][e[2]] # RootPlace(r)
        /\ \A x \in Roots : Claims(x, w, st) => vl[x] # RootPlace(r)

\* An alias of a root points to it, or was not set on this path.
RootAliases(rg, vl, w) ==
    /\ \A x \in Roots : w.token[x] # NoToken /\ w.token[x].path = <<>> => vl[x] \in {w.token[x], Nil}
    /\ \A r \in restoreIsoParamObjects(rg) : vl[r] = RootPlace(r)

HeldOnce(rg, hp, vl, w, st) ==
    /\ OneEdge(hp, w, st) /\ EdgeOrVariable(hp, vl, w, st) /\ OneToken(vl, w, st)
    /\ FreshRoots(rg, hp, vl, w, st) /\ RootAliases(rg, vl, w)

\* Nil is no node, and neither is a scalar.
LEMMA NilIsNoNode == Nil \notin Node /\ Scalar \notin Node /\ Banned \notin Node /\ NoToken \notin Node
                     /\ \A r \in Roots : RootPlace(r) \notin {Nil, Scalar, Banned, NoToken}
BY ValuesAssumption, NoPlaceAssumption DEF Nil, Scalar, Banned, NoToken, NoPlace, Node, Place, RootPlace

\* More that was moved and stored, and tokens of variables that were not set.
LEMMA LaterHolds ==
    ASSUME NEW rg, IsRegion(rg), NEW hp, NEW vl, NEW w, NEW u, NEW st, NEW sv,
           HeldOnce(rg, hp, vl, w, st),
           st \subseteq sv,
           \A e \in Pairs : EdgeName(e) \in w.moved => EdgeName(e) \in u.moved,
           \A x \in Roots : u.token[x] = w.token[x] \/ vl[x] = Nil
    PROVE  HeldOnce(rg, hp, vl, u, sv)
<1>1. \A e \in Pairs : Counts(e, u, sv) => Counts(e, w, st)
  BY DEF Counts
<1>2. \A x \in Roots : Claims(x, u, sv) => vl[x] = Nil \/ (Claims(x, w, st) /\ u.token[x] = w.token[x])
  BY DEF Claims
<1>3. OneEdge(hp, u, sv)
  BY <1>1 DEF HeldOnce, OneEdge
<1>4. EdgeOrVariable(hp, vl, u, sv)
  BY <1>1, <1>2, NilIsNoNode DEF HeldOnce, EdgeOrVariable
<1>5. OneToken(vl, u, sv)
  BY <1>2, NilIsNoNode DEF HeldOnce, OneToken
<1>6. FreshRoots(rg, hp, vl, u, sv)
  BY <1>2, NilIsNoNode, IsoAreRoots DEF HeldOnce, FreshRoots
<1>7. RootAliases(rg, vl, u)
  BY DEF HeldOnce, RootAliases
<1> QED
  BY <1>3, <1>4, <1>5, <1>6, <1>7 DEF HeldOnce

\* What a field points to is held by it, if its token has not been stored.
LEMMA ReadOfEdge ==
    ASSUME NEW rg, NEW hp, NEW vl, NEW w, NEW st, HeldOnce(rg, hp, vl, w, st),
           NEW e \in Pairs, EdgeName(e) \notin st, hp[e[1]][e[2]] \in Node
    PROVE  HeldBy(hp[e[1]][e[2]], EdgeName(e), rg, hp, vl, w, st)
<1> DEFINE v == hp[e[1]][e[2]]
<1>0. Counts(e, w, st)
  BY DEF Counts
<1>1. \A d \in Pairs : hp[d[1]][d[2]] = v /\ Counts(d, w, st) => EdgeName(d) = EdgeName(e)
  BY <1>0 DEF HeldOnce, OneEdge
<1>2. \A x \in Roots : vl[x] = v /\ Claims(x, w, st) => w.token[x] = EdgeName(e)
  BY <1>0 DEF HeldOnce, EdgeOrVariable
<1>3. \A r \in restoreIsoParamObjects(rg) : v = RootPlace(r) => RootPlace(r) \in st
  BY DEF HeldOnce, FreshRoots
<1> QED
  BY <1>1, <1>2, <1>3 DEF HeldBy

\* What a variable points to is held by its token, if that has not been stored.
LEMMA ReadOfVariable ==
    ASSUME NEW rg, NEW hp, NEW vl, NEW w, NEW st, HeldOnce(rg, hp, vl, w, st),
           NEW y \in Roots, Claims(y, w, st), vl[y] \in Node
    PROVE  /\ HeldBy(vl[y], w.token[y], rg, hp, vl, w, st)
           /\ \A e \in Pairs : hp[e[1]][e[2]] = vl[y] /\ EdgeName(e) = w.token[y] =>
                                    EdgeName(e) \in w.moved
<1>1. \A d \in Pairs : hp[d[1]][d[2]] = vl[y] =>
          /\ Counts(d, w, st) => EdgeName(d) = w.token[y]
          /\ EdgeName(d) = w.token[y] => EdgeName(d) \in w.moved
  BY DEF HeldOnce, EdgeOrVariable
<1>2. \A x \in Roots : vl[x] = vl[y] /\ Claims(x, w, st) => w.token[x] = w.token[y]
  BY DEF HeldOnce, OneToken
<1>3. \A r \in restoreIsoParamObjects(rg) : vl[y] = RootPlace(r) => RootPlace(r) \in st
  BY DEF HeldOnce, FreshRoots
<1> QED
  BY <1>1, <1>2, <1>3 DEF HeldBy

\* The roots of a region are nodes.
LEMMA RootsAreNodes ==
    ASSUME NEW rg \in Regions
    PROVE  /\ IsRegion(rg)
           /\ \A r \in Entered(rg) : RootPlace(r) \in Node
           /\ \A r \in restoreIsoParamObjects(rg) : r \in Entered(rg) /\ RootPlace(r) \in Node
<1>1. IsRegion(rg)
  BY RegionOf
<1>2. restoreIsoParamObjects(rg) \subseteq Entered(rg) /\ Entered(rg) \subseteq Opened
  BY DEF restoreIsoParamObjects, Entered, Opened
<1>3. Entered(rg) \subseteq Roots
  BY <1>1 DEF Entered, paramNames, IsRegion
<1>4. \A r \in Entered(rg) : RootPlace(r) \in Node
  <2> TAKE r \in Entered(rg)
  <2>1. r \in Opened /\ RootPlace(r) \in Place /\ RootPlace(r).root = r /\ RootPlace(r).path = <<>>
    BY <1>2, <1>3, PlacesOf
  <2> QED
    BY <2>1 DEF Node
<1> QED
  BY <1>1, <1>2, <1>4

\* A variable is set for the first time.
LEMMA SetHolds ==
    ASSUME NEW rg \in Regions, NEW hp, NEW vl, NEW w, NEW u, NEW st,
           HeldOnce(rg, hp, vl, w, st),
           NEW x \in Roots, NEW v, x \notin restoreIsoParamObjects(rg),
           DOMAIN vl = Roots,
           \A y \in Roots : y # x => u.token[y] = w.token[y],
           \A e \in Pairs : EdgeName(e) \in w.moved => EdgeName(e) \in u.moved,
           Claims(x, u, st) /\ v \in Node =>
               /\ HeldBy(v, u.token[x], rg, hp, vl, w, st)
               /\ \A e \in Pairs : hp[e[1]][e[2]] = v /\ EdgeName(e) = u.token[x] =>
                                       EdgeName(e) \in u.moved,
           v \in Values,
           u.token[x] # NoToken /\ u.token[x].path = <<>> => v \in {u.token[x], Nil}
    PROVE  HeldOnce(rg, hp, [vl EXCEPT ![x] = v], u, st)
<1> DEFINE vn == [vl EXCEPT ![x] = v]
<1>0. vn[x] = v /\ \A y \in Roots : y # x => vn[y] = vl[y]
  OBVIOUS
<1> HIDE DEF vn
<1>1. \A e \in Pairs : Counts(e, u, st) => Counts(e, w, st)
  BY DEF Counts
<1>2. \A y \in Roots : y # x => (Claims(y, u, st) => Claims(y, w, st) /\ u.token[y] = w.token[y])
  BY DEF Claims
<1>3. OneEdge(hp, u, st)
  BY <1>1 DEF HeldOnce, OneEdge
<1>4. EdgeOrVariable(hp, vn, u, st)
  <2> SUFFICES ASSUME NEW y \in Roots, NEW e \in Pairs,
                      vn[y] \in Node, Claims(y, u, st), hp[e[1]][e[2]] = vn[y]
               PROVE  /\ Counts(e, u, st) => EdgeName(e) = u.token[y]
                      /\ EdgeName(e) = u.token[y] => EdgeName(e) \in u.moved
    BY DEF EdgeOrVariable
  <2>1. CASE y = x
    BY <2>1, <1>0, <1>1 DEF HeldBy
  <2>2. CASE y # x
    BY <2>2, <1>0, <1>1, <1>2 DEF HeldOnce, EdgeOrVariable
  <2> QED
    BY <2>1, <2>2
<1>5. OneToken(vn, u, st)
  <2>1. \A y \in Roots : y # x /\ Claims(y, u, st) /\ Claims(x, u, st) /\ v \in Node /\ vn[y] = v =>
            u.token[y] = u.token[x]
    BY <1>0, <1>2 DEF HeldBy
  <2>2. \A y, z \in Roots :
            /\ y # x /\ z # x /\ Claims(y, u, st) /\ Claims(z, u, st)
            /\ vn[y] \in Node /\ vn[y] = vn[z]
            => u.token[y] = u.token[z]
    <3> TAKE y, z \in Roots
    <3> HAVE /\ y # x /\ z # x /\ Claims(y, u, st) /\ Claims(z, u, st)
             /\ vn[y] \in Node /\ vn[y] = vn[z]
    <3>1. /\ vl[y] \in Node /\ vl[y] = vl[z] /\ Claims(y, w, st) /\ Claims(z, w, st)
          /\ u.token[y] = w.token[y] /\ u.token[z] = w.token[z]
      BY <1>0, <1>2
    <3> QED
      BY <3>1 DEF HeldOnce, OneToken
  <2> QED
    BY <2>1, <2>2, <1>0 DEF OneToken
<1>6. FreshRoots(rg, hp, vn, u, st)
  <2> SUFFICES ASSUME NEW r \in restoreIsoParamObjects(rg), RootPlace(r) \notin st
               PROVE  /\ \A e \in Pairs : hp[e[1]][e[2]] # RootPlace(r)
                      /\ \A y \in Roots : Claims(y, u, st) => vn[y] # RootPlace(r)
    BY DEF FreshRoots
  <2>1. /\ \A e \in Pairs : hp[e[1]][e[2]] # RootPlace(r)
        /\ \A y \in Roots : Claims(y, w, st) => vl[y] # RootPlace(r)
    BY DEF HeldOnce, FreshRoots
  <2>2. \A y \in Roots : y # x /\ Claims(y, u, st) => vn[y] # RootPlace(r)
    BY <2>1, <1>0, <1>2
  <2>3. Claims(x, u, st) => v # RootPlace(r)
    <3>1. RootPlace(r) \in Node /\ RootPlace(r).path = <<>>
      BY RootsAreNodes DEF RootPlace
    <3> QED
      BY <3>1 DEF HeldBy, Claims
  <2> QED
    BY <2>1, <2>2, <2>3, <1>0
<1>7. RootAliases(rg, vn, u)
  <2>1. \A y \in Roots : u.token[y] # NoToken /\ u.token[y].path = <<>> => vn[y] \in {u.token[y], Nil}
    <3> SUFFICES ASSUME NEW y \in Roots, u.token[y] # NoToken, u.token[y].path = <<>>
                 PROVE  vn[y] \in {u.token[y], Nil}
      OBVIOUS
    <3>1. CASE y = x
      BY <3>1, <1>0
    <3>2. CASE y # x
      BY <3>2, <1>0 DEF HeldOnce, RootAliases
    <3> QED
      BY <3>1, <3>2
  <2>2. \A r \in restoreIsoParamObjects(rg) : vn[r] = RootPlace(r)
    BY <1>0, RootsAreNodes, IsoAreRoots DEF HeldOnce, RootAliases
  <2> QED
    BY <2>1, <2>2 DEF RootAliases
<1> QED
  BY <1>3, <1>4, <1>5, <1>6, <1>7 DEF HeldOnce, vn

\* A field gets a new value.
LEMMA StoreHolds ==
    ASSUME NEW rg \in Regions, NEW hp, NEW vl, NEW w, NEW u, NEW st, NEW sv,
           HeldOnce(rg, hp, vl, w, st),
           NEW n \in Node, NEW f \in PtrFields, NEW v, NEW t,
           hp \in [Node -> [PtrFields -> Values]],
           u.token = w.token, st \subseteq sv,
           \A e \in Pairs : e # <<n, f>> /\ EdgeName(e) \in w.moved => EdgeName(e) \in u.moved,
           v \in Node =>
               /\ t \in sv /\ HeldBy(v, t, rg, hp, vl, w, st)
               /\ \A e \in Pairs : e # <<n, f>> /\ hp[e[1]][e[2]] = v /\ EdgeName(e) = t =>
                                       EdgeName(e) \in u.moved,
           v \in Values
    PROVE  HeldOnce(rg, [hp EXCEPT ![n][f] = v], vl, u, sv)
<1> DEFINE hn == [hp EXCEPT ![n][f] = v]
<1>0. \A e \in Pairs : /\ e = <<n, f>> => hn[e[1]][e[2]] = v
                       /\ e # <<n, f>> => hn[e[1]][e[2]] = hp[e[1]][e[2]]
  BY DEF Pairs
<1> HIDE DEF hn
<1>1. \A e \in Pairs : e # <<n, f>> /\ Counts(e, u, sv) => Counts(e, w, st)
  BY DEF Counts
<1>2. \A x \in Roots : Claims(x, u, sv) => Claims(x, w, st)
  BY DEF Claims
<1>3. \A e \in Pairs : e # <<n, f>> /\ v \in Node /\ hn[e[1]][e[2]] = v => ~Counts(e, u, sv)
  <2> SUFFICES ASSUME NEW e \in Pairs, e # <<n, f>>, v \in Node, hp[e[1]][e[2]] = v, Counts(e, u, sv)
               PROVE  FALSE
    BY <1>0
  <2>1. EdgeName(e) = t
    BY <1>1 DEF HeldBy
  <2> QED
    BY <2>1 DEF Counts
<1>4. \A x \in Roots : v \in Node /\ vl[x] = v => ~Claims(x, u, sv)
  <2> SUFFICES ASSUME NEW x \in Roots, v \in Node, vl[x] = v, Claims(x, u, sv) PROVE FALSE
    OBVIOUS
  <2>1. u.token[x] = t
    BY <1>2 DEF HeldBy
  <2> QED
    BY <2>1 DEF Claims
<1>5. OneEdge(hn, u, sv)
  <2> SUFFICES ASSUME NEW e \in Pairs, NEW d \in Pairs, hn[e[1]][e[2]] \in Node,
                      hn[e[1]][e[2]] = hn[d[1]][d[2]], Counts(e, u, sv), Counts(d, u, sv)
               PROVE  EdgeName(e) = EdgeName(d)
    BY DEF OneEdge
  <2>1. CASE e = <<n, f>> \/ d = <<n, f>>
    BY <2>1, <1>0, <1>3
  <2>2. CASE e # <<n, f>> /\ d # <<n, f>>
    <3>1. /\ hp[e[1]][e[2]] \in Node /\ hp[e[1]][e[2]] = hp[d[1]][d[2]]
          /\ Counts(e, w, st) /\ Counts(d, w, st)
      BY <2>2, <1>0, <1>1
    <3> QED
      BY <3>1 DEF HeldOnce, OneEdge
  <2> QED
    BY <2>1, <2>2
<1>6. EdgeOrVariable(hn, vl, u, sv)
  <2> SUFFICES ASSUME NEW x \in Roots, NEW e \in Pairs, vl[x] \in Node, Claims(x, u, sv),
                      hn[e[1]][e[2]] = vl[x]
               PROVE  /\ Counts(e, u, sv) => EdgeName(e) = u.token[x]
                      /\ EdgeName(e) = u.token[x] => EdgeName(e) \in u.moved
    BY DEF EdgeOrVariable
  <2>1. e # <<n, f>>
    BY <1>0, <1>4
  <2>2. hp[e[1]][e[2]] = vl[x] /\ Claims(x, w, st)
    BY <2>1, <1>0, <1>2
  <2>3. /\ Counts(e, w, st) => EdgeName(e) = w.token[x]
        /\ EdgeName(e) = w.token[x] => EdgeName(e) \in w.moved
    BY <2>2 DEF HeldOnce, EdgeOrVariable
  <2> QED
    BY <2>1, <2>3, <1>1
<1>7. OneToken(vl, u, sv)
  BY <1>2 DEF HeldOnce, OneToken
<1>8. FreshRoots(rg, hn, vl, u, sv)
  <2> SUFFICES ASSUME NEW r \in restoreIsoParamObjects(rg), RootPlace(r) \notin sv
               PROVE  /\ \A e \in Pairs : hn[e[1]][e[2]] # RootPlace(r)
                      /\ \A y \in Roots : Claims(y, u, sv) => vl[y] # RootPlace(r)
    BY DEF FreshRoots
  <2>1. /\ \A e \in Pairs : hp[e[1]][e[2]] # RootPlace(r)
        /\ \A y \in Roots : Claims(y, w, st) => vl[y] # RootPlace(r)
    BY DEF HeldOnce, FreshRoots
  <2>2. v # RootPlace(r)
    <3>1. RootPlace(r) \in Node
      BY RootsAreNodes
    <3> QED
      BY <3>1 DEF HeldBy
  <2> QED
    BY <2>1, <2>2, <1>0, <1>2
<1>9. RootAliases(rg, vl, u)
  BY DEF HeldOnce, RootAliases
<1> QED
  BY <1>5, <1>6, <1>7, <1>8, <1>9 DEF HeldOnce, hn

---------------------------------------------------------------------------
(* Fields and what is read through them.                                   *)

\* Two paths that were made one field longer.
LEMMA LongerPaths ==
    ASSUME NEW s \in Seq(Fields), NEW t \in Seq(Fields), NEW f \in Fields, NEW g \in Fields
    PROVE  /\ Append(s, f) # <<>> /\ Last(Append(s, f)) = f /\ Len(Append(s, f)) = Len(s) + 1
           /\ Append(s, f) = Append(t, g) => s = t /\ f = g
           /\ Len(s) \in Nat /\ (Len(s) = 0 => s = <<>>)
<1>1. /\ Append(s, f) # <<>> /\ Len(Append(s, f)) = Len(s) + 1
      /\ Append(s, f)[Len(s) + 1] = f
      /\ Len(s) \in Nat /\ (Len(s) = 0 => s = <<>>)
  OBVIOUS
<1>2. ASSUME Append(s, f) = Append(t, g) PROVE s = t /\ f = g
  <2>1. Len(s) = Len(t) /\ f = g
    <3>1. /\ Len(Append(s, f)) = Len(s) + 1 /\ Len(Append(t, g)) = Len(t) + 1
          /\ Append(s, f)[Len(s) + 1] = f /\ Append(t, g)[Len(t) + 1] = g
      OBVIOUS
    <3> QED
      BY <3>1, <1>2
  <2>2. \A i \in 1 .. Len(s) : s[i] = Append(s, f)[i] /\ t[i] = Append(t, g)[i]
    BY <2>1
  <2>3. \A i \in 1 .. Len(s) : s[i] = t[i]
    BY <2>2, <1>2
  <2> QED
    BY <2>1, <2>3
<1> QED
  BY <1>1, <1>2 DEF Last

\* A field has one name, and the fields of roots are the ones with short names.
LEMMA EdgeNameOf ==
    ASSUME NEW e \in Pairs
    PROVE  /\ e[1] \in Node /\ e[2] \in PtrFields /\ e = <<e[1], e[2]>>
           /\ EdgeName(e) # NoToken /\ EdgeName(e).root = e[1].root /\ EdgeName(e).path # <<>>
           /\ Last(EdgeName(e).path) = e[2]
           /\ Len(EdgeName(e).path) <= 1 => e[1] = RootPlace(e[1].root)
           /\ \A d \in Pairs : EdgeName(e) = EdgeName(d) => e = d
<1>1. \A d \in Pairs : /\ d[1] \in Node /\ d[2] \in PtrFields /\ d = <<d[1], d[2]>>
                       /\ d[1] \in Place /\ d[1].path \in Seq(Fields) /\ d[2] \in Fields
  BY PathsAssumption, PtrFieldsAssumption DEF Pairs, Node, Place
<1>2. \A d \in Pairs : EdgeName(d).root = d[1].root /\ EdgeName(d).path = Append(d[1].path, d[2])
  BY DEF EdgeName
<1>4. e[1] = [root |-> e[1].root, path |-> e[1].path]
  BY <1>1 DEF Place
<1>5. ASSUME Len(EdgeName(e).path) <= 1 PROVE e[1] = RootPlace(e[1].root)
  <2>1. Len(e[1].path) = 0 /\ e[1].path = <<>>
    <3>1. e[1].path \in Seq(Fields) /\ e[2] \in Fields
      BY <1>1
    <3>2. Len(EdgeName(e).path) = Len(e[1].path) + 1 /\ Len(e[1].path) \in Nat
      BY <3>1, <1>2, LongerPaths
    <3> QED
      BY <3>1, <3>2, <1>5, LongerPaths
  <2> QED
    BY <2>1, <1>4 DEF RootPlace
<1>6. ASSUME NEW d \in Pairs, EdgeName(e) = EdgeName(d) PROVE e = d
  <2>1. e[1].root = d[1].root /\ e[1].path = d[1].path /\ e[2] = d[2]
    <3>1. e[1].root = d[1].root /\ Append(e[1].path, e[2]) = Append(d[1].path, d[2])
      BY <1>2, <1>6
    <3>2. /\ e[1].path \in Seq(Fields) /\ e[2] \in Fields
          /\ d[1].path \in Seq(Fields) /\ d[2] \in Fields
      BY <1>1
    <3> DEFINE s == e[1].path
               t == d[1].path
               f == e[2]
               g == d[2]
    <3>3. s \in Seq(Fields) /\ t \in Seq(Fields) /\ f \in Fields /\ g \in Fields
          /\ Append(s, f) = Append(t, g)
      BY <3>1, <3>2
    <3> HIDE DEF s, t, f, g
    <3>4. s = t /\ f = g
      BY <3>3, LongerPaths
    <3> QED
      BY <3>1, <3>4 DEF s, t, f, g
  <2>2. d[1] = [root |-> d[1].root, path |-> d[1].path]
    BY <1>1 DEF Place
  <2> QED
    BY <2>1, <2>2, <1>1, <1>4
<1>7. EdgeName(e).path # <<>> /\ Last(EdgeName(e).path) = e[2]
  <2>1. e[1].path \in Seq(Fields) /\ e[2] \in Fields
    BY <1>1
  <2>2. EdgeName(e).path = Append(e[1].path, e[2])
    BY <1>2
  <2>3. Append(e[1].path, e[2]) # <<>> /\ Last(Append(e[1].path, e[2])) = e[2]
    BY <2>1, LongerPaths
  <2> QED
    BY <2>2, <2>3, Zenon
<1>8. EdgeName(e) # NoToken
  BY <1>7 DEF NoToken, NoPlace
<1> QED
  BY <1>1, <1>2, <1>5, <1>6, <1>7, <1>8

\* A path of at most one field.
LEMMA ShortPath ==
    ASSUME NEW p \in Paths, Len(p) <= 1
    PROVE  /\ Len(p) = IF p = <<>> THEN 0 ELSE 1
           /\ p # <<>> => p[1] \in Fields /\ Last(p) = p[1] /\ p = <<p[1]>> /\ p = Append(<<>>, p[1])
<1>1. p \in Seq(Fields)
  BY PathsAssumption
<1>2. Len(p) = IF p = <<>> THEN 0 ELSE 1
  <2>1. Len(p) \in Nat /\ (Len(p) = 0 <=> p = <<>>)
    BY <1>1
  <2> QED
    BY <2>1
<1>3. ASSUME p # <<>> PROVE p[1] \in Fields /\ Last(p) = p[1] /\ p = <<p[1]>>
  <2>1. Len(p) = 1 /\ DOMAIN p = {1}
    BY <1>1, <1>2, <1>3
  <2>2. p = [i \in {1} |-> p[1]]
    BY <1>1, <2>1
  <2> QED
    BY <2>1, <2>2, <1>1 DEF Last
<1>4. ASSUME NEW f \in Fields PROVE Append(<<>>, f) = <<f>>
  OBVIOUS
<1> QED
  BY <1>2, <1>3, <1>4

\* What no field, and what one field leads to.
LEMMA ReachedShort ==
    ASSUME NEW p
    PROVE  /\ Reached(p, 0) = val[p.root]
           /\ Reached(p, 1) = Select(val[p.root], p.path[1])
<1>1. Reached(p, 0) = val[p.root]
  <2> DEFINE Is(at) == at = [i \in 0 .. 0 |-> IF i = 0 THEN val[p.root] ELSE Select(at[i - 1], p.path[i])]
             f == [i \in 0 .. 0 |-> val[p.root]]
  <2>1. f = [i \in 0 .. 0 |-> IF i = 0 THEN val[p.root] ELSE Select(f[i - 1], p.path[i])]
    OBVIOUS
  <2>2. Is(f)
    BY <2>1
  <2>3. \A at : Is(at) => at[0] = val[p.root]
    OBVIOUS
  <2>4. Reached(p, 0) = (CHOOSE at : Is(at))[0]
    BY DEF Reached
  <2> HIDE DEF Is, f
  <2> QED
    BY <2>2, <2>3, <2>4
<1>2. Reached(p, 1) = Select(val[p.root], p.path[1])
  <2> DEFINE Is(at) == at = [i \in 0 .. 1 |-> IF i = 0 THEN val[p.root] ELSE Select(at[i - 1], p.path[i])]
             f == [i \in 0 .. 1 |-> IF i = 0 THEN val[p.root] ELSE Select(val[p.root], p.path[1])]
  <2>1. f[0] = val[p.root] /\ f[1] = Select(val[p.root], p.path[1])
    OBVIOUS
  <2>2. f = [i \in 0 .. 1 |-> IF i = 0 THEN val[p.root] ELSE Select(f[i - 1], p.path[i])]
    <3>1. \A i \in 0 .. 1 : i = 0 \/ (i = 1 /\ i - 1 = 0)
      OBVIOUS
    <3>2. \A i \in 0 .. 1 : f[i] = IF i = 0 THEN val[p.root] ELSE Select(f[i - 1], p.path[i])
      BY <2>1, <3>1
    <3>3. f = [i \in 0 .. 1 |-> f[i]]
      OBVIOUS
    <3> HIDE DEF f
    <3> QED
      BY <3>2, <3>3, Zenon
  <2>3. Is(f)
    BY <2>2
  <2>4. \A at : Is(at) => at[1] = Select(val[p.root], p.path[1])
    <3> TAKE at
    <3> HAVE Is(at)
    <3>1. 0 \in 0 .. 1 /\ 1 \in 0 .. 1 /\ 1 - 1 = 0 /\ 1 # 0
      OBVIOUS
    <3>2. \A i \in 0 .. 1 : at[i] = IF i = 0 THEN val[p.root] ELSE Select(at[i - 1], p.path[i])
      OBVIOUS
    <3> HIDE DEF Is
    <3>3. at[0] = val[p.root]
      BY <3>1, <3>2
    <3>4. at[1] = Select(at[1 - 1], p.path[1])
      BY <3>1, <3>2
    <3> QED
      BY <3>1, <3>3, <3>4
  <2>5. Reached(p, 1) = (CHOOSE at : Is(at))[1]
    BY DEF Reached
  <2> HIDE DEF Is, f
  <2> QED
    BY <2>3, <2>4, <2>5
<1> QED
  BY <1>1, <1>2

---------------------------------------------------------------------------
(* What it takes to be accepted.                                           *)

AcceptedRegion(rg) == rg \in Regions /\ checkBinding(rg) = {}

walkAt(rg, i) == checkNestedBlock(rg)[i]

LastWalk(rg) == walkAt(rg, Len(rg.body))

\* An accepted region ends in a return that gives back distinct opened roots,
\* none of which hangs elsewhere, and everything that hangs somewhere or was
\* moved out belongs to what it does not give back.
LEMMA AcceptedOutside ==
    ASSUME NEW rg, AcceptedRegion(rg)
    PROVE  LET R == Returned(rg)
               w == LastWalk(rg)
               iso == restoreIsoParamObjects(rg)
           IN /\ rg.body # <<>> /\ Last(rg.body).op = "return" /\ w.errs = {}
              /\ Len(rg.lhs) = Len(rg.results) /\ Len(R) = Len(rg.results)
              /\ \A i \in DOMAIN R : R[i].root \in iso /\ R[i].path = <<>>
              /\ \A i, j \in DOMAIN R : i < j => R[i] # R[j]
              /\ \A v \in ReturnedRoots(rg) : w.inc[v] = "nil"
              /\ \A v \in Roots : w.inc[v] # "nil" => tokenRootEscapes(rg, w, v)
              /\ \A t \in w.moved : ~tokenRootEscapes(rg, w, t.root)
<1> DEFINE w == LastWalk(rg)
           u == checkBody(rg)
<1>1. /\ checkRestoreAssignmentShape(rg) = {} /\ u.errs = {}
      /\ EndsInReturn(rg) => checkRestoreBoundary(rg) = {} /\ checkSymbolicBoundary(rg, u) = {}
  BY DEF AcceptedRegion, checkBinding
<1>2. IsWalkState(rg, w)
  <2>1. IsRegion(rg) /\ Len(rg.body) \in 0 .. Len(rg.body)
    BY RegionOf, PositionsOf DEF AcceptedRegion
  <2> QED
    BY <2>1, WalkStates DEF LastWalk, walkAt
<1>3. EndsInReturn(rg) /\ u = w
  <2> SUFFICES ASSUME ~EndsInReturn(rg) PROVE FALSE
    BY DEF checkBody, LastWalk, walkAt
  <2>1. u = Add(w, {"lastIsReturn"})
    BY DEF checkBody, LastWalk, walkAt
  <2> HIDE DEF w, u
  <2>2. Grows(w, u) /\ IsWalkState(rg, u) /\ u = Walk(w.token, w.moved, w.inc, w.errs \cup {"lastIsReturn"})
    <3>1. w = Walk(w.token, w.moved, w.inc, w.errs)
      BY <1>2 DEF IsWalkState
    <3>2. \A E : [w EXCEPT !.errs = E] = Walk(w.token, w.moved, w.inc, E)
      BY <3>1 DEF Walk
    <3> QED
      BY <1>2, <2>1, <3>2, AddGrows DEF Add
  <2> QED
    BY <2>2, <1>1 DEF Walk
<1> HIDE DEF w, u
<1>4. checkRestoreBoundary(rg) = {} /\ checkSymbolicBoundary(rg, w) = {}
  BY <1>1, <1>3
<1>5. Len(rg.lhs) = Len(rg.results)
  BY <1>1 DEF checkRestoreAssignmentShape, Found
<1>6. /\ Len(Returned(rg)) = Len(rg.results)
      /\ \A i \in DOMAIN Returned(rg) : Returned(rg)[i].root \in restoreIsoParamObjects(rg)
                                        /\ Returned(rg)[i].path = <<>>
      /\ \A i, j \in DOMAIN Returned(rg) : i < j => Returned(rg)[i] # Returned(rg)[j]
  <2> HIDE DEF Returned
  <2> QED
    BY <1>4, Zenon DEF checkRestoreBoundary, Found
<1>7. /\ \A v \in ReturnedRoots(rg) : w.inc[v] = "nil"
      /\ \A v \in Roots : w.inc[v] # "nil" => tokenRootEscapes(rg, w, v)
      /\ \A t \in w.moved : ~tokenRootEscapes(rg, w, t.root)
  BY <1>4 DEF checkSymbolicBoundary, Found
<1> QED
  BY <1>1, <1>3, <1>5, <1>6, <1>7 DEF EndsInReturn, w

\* No statement of an accepted region has an error.
LEMMA AcceptedErrors ==
    ASSUME NEW rg, AcceptedRegion(rg), NEW i \in 0 .. Len(rg.body)
    PROVE  IsRegion(rg) /\ IsWalkState(rg, walkAt(rg, i)) /\ walkAt(rg, i).errs = {}
<1>1. IsRegion(rg) /\ Len(rg.body) \in i .. Len(rg.body)
  BY RegionOf, PositionsOf DEF AcceptedRegion
<1>2. Grows(walkAt(rg, i), LastWalk(rg))
  BY <1>1, WalkGrows DEF walkAt, LastWalk
<1>3. LastWalk(rg).errs = {}
  BY AcceptedOutside
<1> QED
  BY <1>1, <1>2, <1>3, WalkStates DEF Grows, walkAt

\* Adding found to a walk that ends up without errors adds nothing.
LEMMA NothingAdded ==
    ASSUME NEW rg, NEW w, IsWalkState(rg, w), NEW found, Add(w, found).errs = {}
    PROVE  found = {} /\ Add(w, found) = w /\ w.errs = {}
<1>1. w = Walk(w.token, w.moved, w.inc, w.errs)
  BY DEF IsWalkState
<1>2. \A E : [w EXCEPT !.errs = E] = Walk(w.token, w.moved, w.inc, E)
  BY <1>1 DEF Walk
<1>3. Add(w, found) = Walk(w.token, w.moved, w.inc, w.errs \cup found)
  BY <1>2 DEF Add
<1>4. w.errs \cup found = {}
  BY <1>3 DEF Walk
<1>5. w.errs \cup found = w.errs
  BY <1>4
<1> QED
  BY <1>1, <1>3, <1>4, <1>5

\* The steps of the walk of an accepted region.
LEMMA AcceptedStep ==
    ASSUME NEW rg, AcceptedRegion(rg), NEW i \in DOMAIN rg.body
    PROVE  LET s == rg.body[i]
               w == walkAt(rg, i - 1)
               u == walkAt(rg, i)
           IN /\ s.op \in {"set", "if", "else", "end", "return"}
              /\ s.op = "return" <=> i = Len(rg.body)
              /\ s.op \in {"if", "return"} => u = w
              /\ s.op = "else" => u = [w EXCEPT !.moved = walkAt(rg, s.of).moved]
              /\ s.op = "end" => u = [w EXCEPT !.moved = @ \cup walkAt(rg, s.else - 1).moved]
<1> DEFINE s == rg.body[i]
           w == walkAt(rg, i - 1)
           u == walkAt(rg, i)
<1>0. /\ i \in 0 .. Len(rg.body) /\ i - 1 \in 0 .. Len(rg.body) /\ rg \in Regions
      /\ Len(rg.body) \in Nat /\ i \in 1 .. Len(rg.body)
  BY RegionOf, PositionsOf DEF AcceptedRegion
<1>1. IsRegion(rg) /\ IsWalkState(rg, w) /\ u.errs = {} /\ w.errs = {} /\ IsStatementOf(rg.body, i)
  BY <1>0, AcceptedErrors DEF IsRegion
<1>2. u = checkStatement(rg, i, checkNestedBlock(rg))
  BY <1>1, RegionWalkIs DEF walkAt
<1>3. s.op \in {"set", "if", "else", "end", "return", "other"}
  BY <1>1 DEF IsStatementOf
<1>9. i = Len(rg.body) => s.op = "return"
  BY AcceptedOutside DEF Last
<1>4. CASE s.op = "other"
  <2>1. u = Add(w, {"statement"})
    BY <1>2, <1>4 DEF checkStatement, walkAt
  <2> HIDE DEF w, u
  <2> QED
    BY <2>1, <1>1, NothingAdded
<1>5. CASE s.op = "return"
  <2>1. u = Add(w, Found("earlyReturn", i # Len(rg.body)))
    BY <1>2, <1>5 DEF checkStatement, walkAt
  <2> HIDE DEF w, u
  <2>2. Found("earlyReturn", i # Len(rg.body)) = {} /\ u = w
    BY <2>1, <1>1, NothingAdded
  <2> QED
    BY <2>2, <1>5 DEF Found, w, u
<1>6. CASE s.op = "if"
  <2>1. u = Add(w, Found("ifInit", s.init))
    BY <1>2, <1>6 DEF checkStatement, walkAt
  <2> HIDE DEF w, u
  <2>2. u = w
    BY <2>1, <1>1, NothingAdded
  <2> QED
    BY <2>2, <1>6, <1>9 DEF w, u
<1>7. CASE s.op = "else"
  BY <1>2, <1>7, <1>9 DEF checkStatement, walkAt
<1>8. CASE s.op = "end"
  BY <1>2, <1>8, <1>9 DEF checkStatement, walkAt
<1>10. CASE s.op = "set"
  BY <1>9, <1>10
<1> QED
  BY <1>3, <1>4, <1>5, <1>6, <1>7, <1>8, <1>10

\* What is moved after t was read through src.
MovedBy(w, src, t) == IF src.path = <<>> \/ t.path = <<>> THEN w.moved ELSE w.moved \cup {t}

\* What an assignment records.
LEMMA RecordOf ==
    ASSUME NEW rg, IsRegion(rg), NEW w, IsWalkState(rg, w), NEW dst \in Place, NEW src
    PROVE  LET t == tokenForExpr(rg, w, src)
               u == recordPointerAssignment(rg, w, dst, src)
               into == incorporationTargetRoot(rg, w, dst)
           IN /\ ~ptr(src) \/ t = NoToken => u = w
              /\ ptr(src) /\ t # NoToken /\ dst.path = <<>> /\ dst.root \notin restoreIsoParamObjects(rg) =>
                    u.moved = MovedBy(w, src, t) /\ u.token[dst.root] = t
              /\ ptr(src) /\ t # NoToken /\ dst.path # <<>> =>
                    /\ u.moved = MovedBy(w, src, t) \ {tokenForExpr(rg, w, dst)}
                    /\ u.token = w.token
                    /\ t.path = <<>> /\ into \notin {"nil", t.root} => u.inc[t.root] # "nil"
<1> DEFINE t == tokenForExpr(rg, w, src)
           u == recordPointerAssignment(rg, w, dst, src)
           into == incorporationTargetRoot(rg, w, dst)
           M == MovedBy(w, src, t)
           read == markMovedProjectionFromExpr(w, src, t)
<1>1. w = Walk(w.token, w.moved, w.inc, w.errs) /\ w.token \in [Roots -> Tokens(rg) \cup {NoToken}]
      /\ w.inc \in [Roots -> Roots \cup {"nil"}] /\ "nil" \notin Roots
  BY IsoAreRoots DEF IsWalkState
<1>2. dst.root \in Roots /\ t \in Tokens(rg) \cup {NoToken}
  BY PlacesOf, TokenOfPlace
<1>3. read = Walk(w.token, M, w.inc, w.errs)
  <2>1. M = IF src.path = <<>> \/ t.path = <<>> THEN w.moved ELSE w.moved \cup {t}
    BY DEF MovedBy
  <2>2. read = IF src.path = <<>> \/ t.path = <<>> THEN w ELSE [w EXCEPT !.moved = w.moved \cup {t}]
    BY DEF markMovedProjectionFromExpr
  <2> HIDE DEF t, M, read
  <2> QED
    BY <2>1, <2>2, <1>1, MovedOf
<1>4. CASE ~ptr(src) \/ t = NoToken
  BY <1>4 DEF recordPointerAssignment
<1>5. CASE ptr(src) /\ t # NoToken /\ dst.path = <<>> /\ dst.root \notin restoreIsoParamObjects(rg)
  <2>1. u = [read EXCEPT !.token[dst.root] = t]
    BY <1>5 DEF recordPointerAssignment
  <2> HIDE DEF t, u, read, M
  <2>2. u.moved = M /\ u.token = [w.token EXCEPT ![dst.root] = t]
    BY <2>1, <1>3 DEF Walk
  <2> QED
    BY <2>2, <1>1, <1>2, <1>5 DEF t, u, M
<1>6. CASE ptr(src) /\ t # NoToken /\ dst.path # <<>>
  <2> DEFINE c == clearMovedProjection(rg, read, dst)
             N == M \ {tokenForExpr(rg, w, dst)}
  <2>1. u = recordIncorporation(rg, c, dst, t)
    BY <1>6 DEF recordPointerAssignment
  <2>2. c = Walk(w.token, N, w.inc, w.errs)
    <3>1. c = [read EXCEPT !.moved = @ \ {tokenForExpr(rg, read, dst)}]
      BY DEF clearMovedProjection
    <3> HIDE DEF read, M, c
    <3>2. tokenForExpr(rg, read, dst) = tokenForExpr(rg, w, dst)
      BY <1>3 DEF tokenForExpr, Walk
    <3>3. c = [read EXCEPT !.moved = read.moved \ {tokenForExpr(rg, w, dst)}]
      BY <3>1, <3>2
    <3>4. /\ read = Walk(read.token, read.moved, read.inc, read.errs)
          /\ read.token = w.token /\ read.moved = M /\ read.inc = w.inc /\ read.errs = w.errs
      BY <1>3 DEF Walk
    <3> HIDE DEF N
    <3>5. c = Walk(read.token, read.moved \ {tokenForExpr(rg, w, dst)}, read.inc, read.errs)
      BY <3>3, <3>4, MovedOf
    <3> QED
      BY <3>4, <3>5 DEF N
  <2> HIDE DEF c, read
  <2>3. incorporationTargetRoot(rg, c, dst) = into /\ into \in Roots \cup {"nil"}
    <3>1. c.token = w.token /\ w.token[dst.root] \in Tokens(rg) \cup {NoToken}
      BY <1>1, <1>2, <2>2 DEF Walk
    <3>2. \A x \in Tokens(rg) : x.root \in Roots
      BY PlacesOf DEF Tokens
    <3> QED
      BY <3>1, <3>2, <1>2 DEF incorporationTargetRoot
  <2>4. t.root \in Roots /\ t.root \in restoreIsoParamObjects(rg)
    BY <1>2, <1>6, IsoAreRoots DEF Tokens
  <2> HIDE DEF t, into
  <2>5. \/ u = c /\ ~(t.path = <<>> /\ into \notin {"nil", t.root})
        \/ u = Add(c, {"incorporatedTwice"}) /\ c.inc[t.root] # "nil"
        \/ u = [c EXCEPT !.inc[t.root] = into]
    BY <2>1, <2>3, <2>4 DEF recordIncorporation
  <2> HIDE DEF u, N
  <2>6. /\ u.moved = N /\ u.token = w.token
        /\ t.path = <<>> /\ into \notin {"nil", t.root} => u.inc[t.root] # "nil"
    <3>1. CASE u = c /\ ~(t.path = <<>> /\ into \notin {"nil", t.root})
      BY <3>1, <2>2 DEF Walk
    <3>2. CASE u = Add(c, {"incorporatedTwice"}) /\ c.inc[t.root] # "nil"
      BY <3>2, <2>2 DEF Walk, Add
    <3>3. CASE u = [c EXCEPT !.inc[t.root] = into]
      BY <3>3, <2>2, <2>4, <1>1 DEF Walk
    <3> QED
      BY <2>5, <3>1, <3>2, <3>3
  <2> QED
    BY <2>6, <1>6 DEF t, u, into, N, M
<1>7. CASE ptr(src) /\ t # NoToken /\ dst.path = <<>> /\ dst.root \in restoreIsoParamObjects(rg)
  BY <1>7
<1> QED
  BY <1>4, <1>5, <1>6, <1>7

\* The assignments of an accepted region.
LEMMA AcceptedSet ==
    ASSUME NEW rg, AcceptedRegion(rg), NEW i \in SetsAt(rg)
    PROVE  LET s == rg.body[i]
               w == walkAt(rg, i - 1)
           IN /\ i \in DOMAIN rg.body /\ s.op = "set"
              /\ s.dst \in Place /\ s.src \in Expr /\ s.src # Banned
              /\ s.dst.root \in restoreLocalObjects(rg)
              /\ s.dst.path = <<>> => s.dst.root \notin restoreIsoParamObjects(rg)
              /\ s.dst.path # <<>> /\ ptr(s.dst) /\ s.src # Nil => tokenForExpr(rg, w, s.src) # NoToken
              /\ IsWalkState(rg, w)
              /\ walkAt(rg, i) = recordPointerAssignment(rg, w, s.dst, s.src)
<1> DEFINE s == rg.body[i]
           w == walkAt(rg, i - 1)
           u == walkAt(rg, i)
           r == IF s.dst \in Place THEN recordPointerAssignment(rg, w, s.dst, s.src) ELSE w
           found == checkExpr(s.dst) \cup checkExpr(s.src) \cup checkAssignmentTarget(rg, s.dst)
                    \cup checkPointerFieldStoreValue(rg, w, s.dst, s.src)
                    \cup rejectUntrackedPointerValue(s.src)
<1>0. /\ i \in DOMAIN rg.body /\ s.op = "set" /\ i \in 0 .. Len(rg.body)
      /\ i - 1 \in 0 .. Len(rg.body) /\ rg \in Regions
  BY RegionOf, PositionsOf DEF AcceptedRegion, SetsAt
<1>1. IsRegion(rg) /\ IsWalkState(rg, w) /\ u.errs = {} /\ IsStatementOf(rg.body, i)
  BY <1>0, AcceptedErrors DEF IsRegion
<1>2. u = Add(r, found)
  <2>1. u = checkStatement(rg, i, checkNestedBlock(rg))
    BY <1>0, <1>1, RegionWalkIs DEF walkAt
  <2> QED
    BY <2>1, <1>0 DEF checkStatement, checkAssign, walkAt
<1>3. IsWalkState(rg, r)
  BY <1>1, AssignGrows
<1>4. found = {} /\ u = r
  <2> HIDE DEF u, r, found
  <2> QED
    BY <1>1, <1>2, <1>3, NothingAdded
<1>5. /\ checkExpr(s.src) = {} /\ checkAssignmentTarget(rg, s.dst) = {}
      /\ checkPointerFieldStoreValue(rg, w, s.dst, s.src) = {}
  BY <1>4
<1>6. {s.dst, s.src} \subseteq Expr
  BY <1>0, <1>1 DEF IsStatementOf
<1> HIDE DEF s, w, u, found
<1>7. s.src # Banned
  BY <1>5 DEF checkExpr, Found
<1>8. /\ s.dst \in Place /\ s.dst.root \in restoreLocalObjects(rg)
      /\ s.dst.path = <<>> => s.dst.root \notin restoreIsoParamObjects(rg)
      /\ s.dst.path # <<>> /\ ptr(s.dst) => EffectivePlaceCap(s.dst) = "iso"
  BY <1>5, Zenon DEF checkAssignmentTarget, Found
<1>9. s.dst.path # <<>> /\ ptr(s.dst) /\ s.src # Nil => tokenForExpr(rg, w, s.src) # NoToken
  BY <1>5, <1>8, Zenon DEF checkPointerFieldStoreValue, Found
<1> QED
  BY <1>0, <1>1, <1>4, <1>6, <1>7, <1>8, <1>9 DEF s, w, u

---------------------------------------------------------------------------
(* Regions that store each thing once.                                     *)

OnceRegion(rg) == AcceptedRegion(rg) /\ StoresOnce(rg)

\* The tokens that were stored before a statement.
StoredTokens(rg, i) == {Stored(rg)[j] : j \in {k \in StoresAt(rg) : k < i}}

\* The walk starts with the opened roots.
LEMMA FirstWalk == ASSUME NEW rg, IsRegion(rg) PROVE walkAt(rg, 0) = NewWalk(rg)
<1>1. checkNestedBlock(rg)[0] = NewWalk(rg)
  BY RegionWalkIs
<1> QED
  BY <1>1 DEF walkAt

\* A variable that is set is none that was entered with, and set once; no path
\* is longer than a field.
LEMMA SetOnce ==
    ASSUME NEW rg, OnceRegion(rg), NEW i \in SetsAt(rg)
    PROVE  LET dst == rg.body[i].dst
           IN /\ dst.path = <<>> =>
                    /\ dst.root \in Roots /\ dst = RootPlace(dst.root) /\ dst.root \notin Entered(rg)
                    /\ \A j \in SetsAt(rg) : rg.body[j].dst = dst => j = i
              /\ Len(dst.path) <= 1 /\ Len(rg.body[i].src.path) <= 1
<1> DEFINE dst == rg.body[i].dst
<1>1. /\ dst \in Place /\ dst.root \in restoreLocalObjects(rg) /\ IsRegion(rg)
  BY AcceptedSet, RegionOf DEF OnceRegion, AcceptedRegion
<1>2. /\ dst.path = <<>> =>
            /\ dst.root \notin paramNames(rg)
            /\ \A j \in SetsAt(rg) : rg.body[j].dst = dst => i = j
      /\ Len(dst.path) <= 1 /\ Len(rg.body[i].src.path) <= 1
  BY DEF OnceRegion, StoresOnce
<1>3. dst.path = <<>> => dst.root \notin Entered(rg)
  BY <1>1, <1>2 DEF restoreLocalObjects, IsRegion, Entered
<1> QED
  BY <1>1, <1>2, <1>3, PlacesOf

\* A variable has the same token later, or it is set between, for the first time.
LEMMA TokenLater ==
    ASSUME NEW rg, OnceRegion(rg), NEW i \in 0 .. Len(rg.body), NEW j \in i .. Len(rg.body),
           NEW x \in Roots
    PROVE  \/ walkAt(rg, j).token[x] = walkAt(rg, i).token[x]
           \/ /\ x \notin Entered(rg)
              /\ \A k \in SetsAt(rg) : k <= i => rg.body[k].dst # RootPlace(x)
<1>1. IsRegion(rg) /\ Len(rg.body) \in Nat
  BY RegionOf, PositionsOf DEF OnceRegion, AcceptedRegion
<1>2. CASE \A k \in SetsAt(rg) : i < k /\ k <= j => rg.body[k].dst # RootPlace(x)
  BY <1>1, <1>2, TokenKept DEF walkAt
<1>3. ASSUME NEW k \in SetsAt(rg), i < k, k <= j, rg.body[k].dst = RootPlace(x)
      PROVE  /\ x \notin Entered(rg)
             /\ \A m \in SetsAt(rg) : m <= i => rg.body[m].dst # RootPlace(x)
  <2>1. RootPlace(x).path = <<>> /\ RootPlace(x).root = x
    BY PlacesOf
  <2>2. x \notin Entered(rg) /\ \A m \in SetsAt(rg) : rg.body[m].dst = RootPlace(x) => m = k
    BY <1>3, <2>1, SetOnce
  <2>3. \A m \in SetsAt(rg) : m <= i => m # k
    <3>1. k \in Nat
      BY <1>1, PositionsOf DEF SetsAt
    <3> QED
      BY <3>1, <1>3
  <2> QED
    BY <2>2, <2>3
<1> QED
  BY <1>2, <1>3

\* Before it is set, a local has no token.
LEMMA NoTokenBefore ==
    ASSUME NEW rg, OnceRegion(rg), NEW i \in SetsAt(rg), rg.body[i].dst.path = <<>>
    PROVE  walkAt(rg, i - 1).token[rg.body[i].dst.root] = NoToken
<1> DEFINE x == rg.body[i].dst.root
<1>1. /\ x \in Roots /\ rg.body[i].dst = RootPlace(x)
      /\ \A j \in SetsAt(rg) : rg.body[j].dst = RootPlace(x) => j = i
  BY SetOnce
<1>2. x \notin restoreIsoParamObjects(rg) /\ i \in DOMAIN rg.body
  BY AcceptedSet DEF OnceRegion
<1>3. IsRegion(rg) /\ 0 \in 0 .. Len(rg.body) /\ i - 1 \in 0 .. Len(rg.body) /\ i \in Nat
  BY <1>2, RegionOf, PositionsOf DEF OnceRegion, AcceptedRegion
<1> HIDE DEF x
<1>4. \A k \in SetsAt(rg) : 0 < k /\ k <= i - 1 => rg.body[k].dst # RootPlace(x)
  <2> TAKE k \in SetsAt(rg)
  <2> HAVE 0 < k /\ k <= i - 1
  <2>1. k # i
    BY <1>3
  <2> QED
    BY <2>1, <1>1
<1>5. walkAt(rg, i - 1).token[x] = walkAt(rg, 0).token[x]
  BY <1>1, <1>3, <1>4, TokenKept DEF walkAt
<1>6. walkAt(rg, 0).token[x] = NoToken
  BY <1>1, <1>2, <1>3, FirstWalk DEF NewWalk, Walk
<1> QED
  BY <1>5, <1>6 DEF x

\* Nothing that was moved has more than one field.
LEMMA MovedShort ==
    ASSUME NEW rg, OnceRegion(rg)
    PROVE  \A i \in 0 .. Len(rg.body) : \A t \in walkAt(rg, i).moved : Len(t.path) <= 1
<1> DEFINE T == {i \in 0 .. Len(rg.body) : \A t \in walkAt(rg, i).moved : Len(t.path) <= 1}
<1>0. IsRegion(rg) /\ Len(rg.body) \in Nat /\ DOMAIN rg.body = 1 .. Len(rg.body) /\ AcceptedRegion(rg)
  BY RegionOf, PositionsOf DEF OnceRegion, AcceptedRegion
<1>1. ASSUME NEW i \in 0 .. Len(rg.body), \A m \in 0 .. i - 1 : m \in T
      PROVE  \A t \in walkAt(rg, i).moved : Len(t.path) <= 1
  <2>1. CASE i = 0
    BY <2>1, <1>0, FirstWalk DEF NewWalk, Walk
  <2>2. CASE i # 0
    <3> DEFINE s == rg.body[i]
               w == walkAt(rg, i - 1)
               u == walkAt(rg, i)
    <3>1. i \in DOMAIN rg.body /\ i - 1 \in T /\ IsStatementOf(rg.body, i) /\ i \in Nat
          /\ i - 1 \in 0 .. Len(rg.body)
      BY <1>0, <1>1, <2>2 DEF IsRegion
    <3>2. /\ s.op \in {"set", "if", "else", "end", "return"}
          /\ s.op = "return" <=> i = Len(rg.body)
          /\ s.op \in {"if", "return"} => u = w
          /\ s.op = "else" => u = [w EXCEPT !.moved = walkAt(rg, s.of).moved]
          /\ s.op = "end" => u = [w EXCEPT !.moved = @ \cup walkAt(rg, s.else - 1).moved]
      BY <3>1, <1>0, AcceptedStep
    <3>3. w = Walk(w.token, w.moved, w.inc, w.errs) /\ \A t \in w.moved : Len(t.path) <= 1
      BY <3>1, <1>0, AcceptedErrors DEF IsWalkState
    <3>4. CASE s.op = "set"
      <4> DEFINE t == tokenForExpr(rg, w, s.src)
      <4>1. i \in SetsAt(rg)
        BY <3>1, <3>4 DEF SetsAt
      <4>2. /\ s.dst \in Place /\ u = recordPointerAssignment(rg, w, s.dst, s.src) /\ IsWalkState(rg, w)
            /\ s.dst.path = <<>> => s.dst.root \notin restoreIsoParamObjects(rg)
            /\ Len(s.src.path) <= 1
        BY <4>1, <1>0, AcceptedSet, SetOnce
      <4>3. s.src.path # <<>> /\ t # NoToken => t.path = s.src.path
        BY <4>2, <1>0, TokenOfPlace
      <4>4. u.moved \subseteq IF t = NoToken THEN w.moved ELSE MovedBy(w, s.src, t)
        <5> HIDE DEF s, w, u
        <5>1. w.moved \subseteq MovedBy(w, s.src, t)
          BY DEF MovedBy
        <5> QED
          BY <4>2, <5>1, <1>0, RecordOf
      <4> HIDE DEF u, w, s, t
      <4>5. \A m \in u.moved : Len(m.path) <= 1
        BY <3>3, <4>2, <4>3, <4>4 DEF MovedBy
      <4> QED
        BY <4>5 DEF u
    <3>5. CASE s.op = "else"
      <4>1. s.of \in 0 .. i - 1
        BY <3>1, <3>5, <1>0 DEF IsStatementOf
      <4>2. u.moved = walkAt(rg, s.of).moved
        <5> HIDE DEF u, w
        <5> QED
          BY <3>2, <3>3, <3>5, MovedOf DEF Walk
      <4> QED
        BY <4>1, <4>2, <1>1
    <3>6. CASE s.op = "end"
      <4>1. s.else - 1 \in 0 .. i - 1
        BY <3>1, <3>6, <1>0 DEF IsStatementOf
      <4>2. u.moved = w.moved \cup walkAt(rg, s.else - 1).moved
        <5> HIDE DEF u, w
        <5>1. u = [w EXCEPT !.moved = w.moved \cup walkAt(rg, s.else - 1).moved]
          BY <3>2, <3>6
        <5> QED
          BY <5>1, <3>3, MovedOf DEF Walk
      <4> QED
        BY <4>1, <4>2, <3>3, <1>1
    <3>7. CASE s.op \in {"if", "return"}
      BY <3>2, <3>3, <3>7
    <3> QED
      BY <3>2, <3>4, <3>5, <3>6, <3>7
  <2> QED
    BY <2>1, <2>2
<1>2. ASSUME NEW i \in 0 .. Len(rg.body), \A m \in 0 .. i - 1 : m \in T
      PROVE  i \in T
  BY <1>1, <1>2
<1> HIDE DEF T
<1>3. \A i \in 0 .. Len(rg.body) : i \in T
  BY <1>0, <1>2, EachFromSmaller
<1> QED
  BY <1>3 DEF T

\* The tokens of the stores.
LEMMA StoredOf ==
    ASSUME NEW rg, OnceRegion(rg), NEW i \in StoresAt(rg)
    PROVE  LET t == Stored(rg)[i]
               s == rg.body[i]
               w == walkAt(rg, i - 1)
           IN /\ i \in SetsAt(rg) /\ ptr(s.src) /\ s.dst.path # <<>>
              /\ t = tokenForExpr(rg, w, s.src)
              /\ t # NoToken =>
                    /\ \A j \in StoresAt(rg) : Stored(rg)[j] = t => i = j
                    /\ t.path = <<>> => incorporationTargetRoot(rg, w, s.dst) \notin {"nil", t.root}
<1>1. i \in SetsAt(rg) /\ ptr(rg.body[i].src) /\ rg.body[i].dst.path # <<>>
  BY DEF StoresAt
<1>2. Stored(rg)[i] = tokenForExpr(rg, walkAt(rg, i - 1), rg.body[i].src)
  BY DEF Stored, walkAt
<1>3. Stored(rg)[i] # NoToken =>
          /\ \A j \in StoresAt(rg) : Stored(rg)[j] = Stored(rg)[i] => i = j
          /\ Stored(rg)[i].path = <<>> =>
                incorporationTargetRoot(rg, checkNestedBlock(rg)[i - 1], rg.body[i].dst)
                    \notin {"nil", Stored(rg)[i].root}
  BY DEF OnceRegion, StoresOnce
<1> QED
  BY <1>1, <1>2, <1>3 DEF walkAt

\* What is stored was not stored before, and is the only thing that is added.
LEMMA StoredNext ==
    ASSUME NEW rg, OnceRegion(rg), NEW i \in DOMAIN rg.body
    PROVE  /\ StoredTokens(rg, i) \subseteq StoredTokens(rg, i + 1)
           /\ i \in StoresAt(rg) =>
                 /\ Stored(rg)[i] \in StoredTokens(rg, i + 1)
                 /\ Stored(rg)[i] # NoToken => Stored(rg)[i] \notin StoredTokens(rg, i)
<1>1. i \in Nat /\ \A j \in StoresAt(rg) : j \in Nat
  <2>1. DOMAIN rg.body = 1 .. Len(rg.body)
    BY RegionOf, PositionsOf DEF OnceRegion, AcceptedRegion
  <2> QED
    BY <2>1 DEF StoresAt, SetsAt
<1>2. StoredTokens(rg, i) \subseteq StoredTokens(rg, i + 1)
  BY <1>1 DEF StoredTokens
<1>3. i \in StoresAt(rg) => Stored(rg)[i] \in StoredTokens(rg, i + 1)
  BY <1>1 DEF StoredTokens
<1>4. ASSUME i \in StoresAt(rg), Stored(rg)[i] # NoToken, Stored(rg)[i] \in StoredTokens(rg, i)
      PROVE  FALSE
  <2>1. PICK j \in StoresAt(rg) : j < i /\ Stored(rg)[j] = Stored(rg)[i]
    BY <1>4 DEF StoredTokens
  <2>2. i = j
    BY <1>4, <2>1, StoredOf
  <2> QED
    BY <1>1, <2>1, <2>2
<1> QED
  BY <1>2, <1>3, <1>4

\* A root that was stored hangs in another one.
LEMMA StoredRoots ==
    ASSUME NEW rg, OnceRegion(rg), NEW i, NEW r \in restoreIsoParamObjects(rg),
           RootPlace(r) \in StoredTokens(rg, i)
    PROVE  LastWalk(rg).inc[r] # "nil"
<1>1. PICK j \in StoresAt(rg) : Stored(rg)[j] = RootPlace(r)
  BY DEF StoredTokens
<1> DEFINE s == rg.body[j]
           w == walkAt(rg, j - 1)
           u == walkAt(rg, j)
<1>2. IsRegion(rg) /\ r \in Roots /\ AcceptedRegion(rg)
  BY RegionOf, IsoAreRoots DEF OnceRegion, AcceptedRegion
<1>3. RootPlace(r) # NoToken /\ RootPlace(r).path = <<>> /\ RootPlace(r).root = r
  BY <1>2, PlacesOf
<1>4. /\ j \in SetsAt(rg) /\ ptr(s.src) /\ s.dst.path # <<>>
      /\ RootPlace(r) = tokenForExpr(rg, w, s.src)
      /\ incorporationTargetRoot(rg, w, s.dst) \notin {"nil", r}
  BY <1>1, <1>3, StoredOf
<1>5. s.dst \in Place /\ IsWalkState(rg, w) /\ u = recordPointerAssignment(rg, w, s.dst, s.src)
      /\ j \in DOMAIN rg.body
  BY <1>2, <1>4, AcceptedSet
<1>6. u.inc[r] # "nil"
  <2> HIDE DEF s, w, u
  <2> QED
    BY <1>2, <1>3, <1>4, <1>5, RecordOf
<1>7. Grows(u, LastWalk(rg))
  <2>1. j \in 0 .. Len(rg.body) /\ Len(rg.body) \in j .. Len(rg.body)
    BY <1>2, <1>5, PositionsOf
  <2> QED
    BY <2>1, <1>2, WalkGrows DEF LastWalk, walkAt
<1> QED
  BY <1>2, <1>6, <1>7 DEF Grows

---------------------------------------------------------------------------
(* Assignments at run time.                                                *)

TypedHeap(vl, hp) == vl \in [Roots -> Values] /\ hp \in [Node -> [PtrFields -> Values]]

\* What an expression of at most one field evaluates to.
LEMMA EvalOf ==
    ASSUME TypedHeap(val, heap), NEW e \in Expr, Len(e.path) <= 1, Eval(e) # Banned
    PROVE  /\ Eval(e) \in Values
           /\ e \in Place /\ e.path = <<>> => Eval(e) = val[e.root]
           /\ e \in Place /\ e.path # <<>> /\ Eval(e) \in Node =>
                 /\ val[e.root] \in Node /\ e.path[1] \in PtrFields
                 /\ Eval(e) = heap[val[e.root]][e.path[1]]
           /\ e \notin Place => Eval(e) = e /\ e \notin Node
<1>1. CASE e \notin Place
  BY <1>1, NilIsNoNode DEF Eval, Expr, Values, Node
<1>2. CASE e \in Place
  <2>1. e.root \in Roots /\ e.path \in Paths /\ val[e.root] \in Values
    BY <1>2, PlacesOf DEF TypedHeap
  <2>2. Len(e.path) = IF e.path = <<>> THEN 0 ELSE 1
    BY <2>1, ShortPath
  <2>3. Eval(e) = IF e.path = <<>> THEN val[e.root] ELSE Select(val[e.root], e.path[1])
    BY <1>2, <2>2, ReachedShort DEF Eval
  <2>4. CASE e.path = <<>>
    BY <1>2, <2>1, <2>3, <2>4
  <2>5. CASE e.path # <<>>
    <3> DEFINE n == val[e.root]
               f == e.path[1]
    <3>1. Eval(e) = Select(n, f)
      BY <2>3, <2>5
    <3>2. n \in Node /\ Eval(e) = IF f \in PtrFields THEN heap[n][f] ELSE Scalar
      BY <3>1 DEF Select
    <3>3. f \in PtrFields => heap[n][f] \in Values
      BY <3>2 DEF TypedHeap
    <3>4. Scalar \in Values /\ Scalar \notin Node
      BY NilIsNoNode DEF Values
    <3> HIDE DEF n, f
    <3>5. Eval(e) \in Values /\ (Eval(e) \in Node => f \in PtrFields /\ Eval(e) = heap[n][f])
      BY <3>2, <3>3, <3>4
    <3> QED
      BY <3>2, <3>5, <2>5, <1>2 DEF n, f
  <2> QED
    BY <2>4, <2>5
<1> QED
  BY <1>1, <1>2

\* A node that an assignment reads is held by the token of what it is read from,
\* if that was not stored.
LEMMA ReadHolds ==
    ASSUME NEW rg \in Regions, NEW w, IsWalkState(rg, w), NEW st, NEW src \in Expr, Len(src.path) <= 1,
           TypedHeap(val, heap), HeldOnce(rg, heap, val, w, st),
           Eval(src) \in Node, tokenForExpr(rg, w, src) # NoToken
    PROVE  LET t == tokenForExpr(rg, w, src)
               v == Eval(src)
           IN /\ t.path = <<>> => v = t
              /\ t \notin st =>
                    /\ HeldBy(v, t, rg, heap, val, w, st)
                    /\ \A e \in Pairs : heap[e[1]][e[2]] = v /\ EdgeName(e) = t =>
                                             EdgeName(e) \in MovedBy(w, src, t)
<1> DEFINE t == tokenForExpr(rg, w, src)
           v == Eval(src)
<1>0. IsRegion(rg) /\ v # Banned
  BY RegionOf, NilIsNoNode
<1>1. /\ t \in Tokens(rg) \cup {NoToken} /\ src \in Place
      /\ src.path = <<>> => t = w.token[src.root]
      /\ src.path # <<>> => t.path = src.path /\ w.token[src.root] = RootPlace(t.root)
  BY <1>0, TokenOfPlace
<1>2. /\ t \in Place /\ t.root \in restoreIsoParamObjects(rg) /\ t.root \in Roots /\ src.root \in Roots
      /\ src.path \in Paths
  BY <1>1, PlacesOf DEF Tokens
<1>3. /\ src.path = <<>> => v = val[src.root]
      /\ src.path # <<>> => /\ val[src.root] \in Node /\ src.path[1] \in PtrFields
                            /\ v = heap[val[src.root]][src.path[1]]
  BY <1>0, <1>1, EvalOf
<1>4. \A x \in Roots : w.token[x] # NoToken /\ w.token[x].path = <<>> => val[x] \in {w.token[x], Nil}
  BY DEF HeldOnce, RootAliases
<1>5. CASE src.path = <<>> /\ t.path = <<>>
  <2>1. v = t
    BY <1>1, <1>2, <1>3, <1>4, <1>5, NilIsNoNode
  <2>2. t = RootPlace(t.root)
    BY <1>2, <1>5, PlacesOf
  <2>3. ASSUME t \notin st
        PROVE  /\ \A e \in Pairs : heap[e[1]][e[2]] # t
               /\ \A x \in Roots : Claims(x, w, st) => val[x] # t
    <3> HIDE DEF t
    <3> QED
      BY <1>2, <2>2, <2>3 DEF HeldOnce, FreshRoots
  <2> HIDE DEF t, v
  <2>4. t \notin st => HeldBy(t, t, rg, heap, val, w, st)
    BY <2>3 DEF HeldBy
  <2> QED
    BY <2>1, <2>3, <2>4 DEF t, v
<1>6. CASE src.path = <<>> /\ t.path # <<>>
  <2> DEFINE y == src.root
  <2>1. y \in Roots /\ t = w.token[y] /\ v = val[y] /\ (t \notin st => Claims(y, w, st))
    BY <1>1, <1>2, <1>3, <1>6 DEF Claims
  <2> HIDE DEF t, v, y
  <2>2. t \notin st => /\ HeldBy(v, t, rg, heap, val, w, st)
                       /\ \A e \in Pairs : heap[e[1]][e[2]] = v /\ EdgeName(e) = t => EdgeName(e) \in w.moved
    <3> HAVE t \notin st
    <3>1. Claims(y, w, st) /\ val[y] \in Node
      BY <2>1 DEF v
    <3> QED
      BY <2>1, <3>1, ReadOfVariable
  <2>3. MovedBy(w, src, t) = w.moved
    BY <1>6 DEF MovedBy
  <2> QED
    BY <2>2, <2>3, <1>6 DEF t, v
<1>7. CASE src.path # <<>>
  <2> DEFINE n == RootPlace(t.root)
             f == src.path[1]
             e0 == <<n, f>>
  <2>1. n # NoToken /\ n.path = <<>> /\ n.root = t.root
    BY <1>2, PlacesOf
  <2>2. val[src.root] = n
    BY <2>1, <1>1, <1>2, <1>3, <1>4, <1>7, NilIsNoNode
  <2>3. e0 \in Pairs /\ v = heap[e0[1]][e0[2]]
    BY <2>2, <1>3, <1>7 DEF Pairs
  <2>4. EdgeName(e0) = t
    <3>1. t = [root |-> t.root, path |-> src.path] /\ src.path = Append(<<>>, f)
      BY <1>1, <1>2, <1>7, ShortPath DEF Place
    <3>2. EdgeName(e0) = [root |-> t.root, path |-> Append(<<>>, f)]
      BY <2>1 DEF EdgeName
    <3> HIDE DEF t, f, e0
    <3> QED
      BY <3>1, <3>2, Zenon
  <2>5. t.path # <<>> /\ t \in MovedBy(w, src, t)
    BY <1>1, <1>7 DEF MovedBy
  <2>6. v \in Node
    OBVIOUS
  <2> HIDE DEF t, v, e0, n, f
  <2>7. t \notin st => HeldBy(v, t, rg, heap, val, w, st)
    BY <2>3, <2>4, <2>6, ReadOfEdge
  <2> QED
    BY <2>5, <2>7 DEF t, v
<1> QED
  BY <1>5, <1>6, <1>7

\* What a run of an accepted region keeps at statement i.
HeldAt(rg, i, vl, hp) ==
    /\ TypedHeap(vl, hp)
    /\ HeldOnce(rg, hp, vl, walkAt(rg, i - 1), StoredTokens(rg, i))

\* What a run keeps behind statement i.
LEMMA HeldNext ==
    ASSUME NEW rg, NEW i \in Nat, NEW vl, NEW hp, TypedHeap(vl, hp),
           HeldOnce(rg, hp, vl, walkAt(rg, i), StoredTokens(rg, i + 1))
    PROVE  HeldAt(rg, i + 1, vl, hp)
<1>1. i + 1 - 1 = i
  OBVIOUS
<1> QED
  BY <1>1 DEF HeldAt

\* A local is set.
LEMMA LocalSetHolds ==
    ASSUME NEW rg, OnceRegion(rg), NEW i \in SetsAt(rg), HeldAt(rg, i, val, heap),
           rg.body[i].dst.path = <<>>, Eval(rg.body[i].src) # Banned
    PROVE  HeldAt(rg, i + 1, [val EXCEPT ![rg.body[i].dst.root] = Eval(rg.body[i].src)], heap)
<1> DEFINE dst == rg.body[i].dst
           src == rg.body[i].src
           x == dst.root
           w == walkAt(rg, i - 1)
           u == walkAt(rg, i)
           v == Eval(src)
           t == tokenForExpr(rg, w, src)
           st == StoredTokens(rg, i)
           sv == StoredTokens(rg, i + 1)
           vn == [val EXCEPT ![x] = v]
<1>1. /\ rg \in Regions /\ IsRegion(rg) /\ AcceptedRegion(rg) /\ i \in DOMAIN rg.body
      /\ dst \in Place /\ src \in Expr /\ x \notin restoreIsoParamObjects(rg)
      /\ IsWalkState(rg, w) /\ u = recordPointerAssignment(rg, w, dst, src)
      /\ i \in Nat
  BY AcceptedSet, RegionOf, PositionsOf DEF OnceRegion, AcceptedRegion
<1>2. x \in Roots /\ dst = RootPlace(x) /\ Len(src.path) <= 1 /\ w.token[x] = NoToken
  BY SetOnce, NoTokenBefore
<1>3. IsWalkState(rg, u) /\ \A y \in Roots : y # x => u.token[y] = w.token[y]
  <2>1. \A y \in Roots : y # x => dst # RootPlace(y)
    BY <1>2, PlacesOf
  <2> HIDE DEF dst, src, w, u
  <2> QED
    BY <1>1, <2>1, AssignGrows
<1>4. /\ ~ptr(src) \/ t = NoToken => u = w
      /\ ptr(src) /\ t # NoToken => u.moved = MovedBy(w, src, t) /\ u.token[x] = t
  BY <1>1, RecordOf
<1>5. v \in Values /\ (src \in Place /\ src.path = <<>> => v = val[src.root])
  BY <1>1, <1>2, EvalOf DEF HeldAt
<1>6. w.moved \subseteq u.moved
  <2> HIDE DEF u, w, t, src
  <2> QED
    BY <1>4 DEF MovedBy
<1>7. /\ t \in Tokens(rg) \cup {NoToken} /\ (t # NoToken => src \in Place)
      /\ src \in Place /\ src.path = <<>> => t = w.token[src.root]
      /\ src.path # <<>> /\ t # NoToken => t.path = src.path
  BY <1>1, TokenOfPlace
<1>8. u.token[x] # NoToken /\ u.token[x].path = <<>> => v \in {u.token[x], Nil}
  <2> HAVE u.token[x] # NoToken /\ u.token[x].path = <<>>
  <2>1. ptr(src) /\ t # NoToken /\ u.token[x] = t
    <3> HIDE DEF t, u, w, src, x
    <3> QED
      BY <1>2, <1>4
  <2>2. src \in Place /\ src.path = <<>> /\ src.root \in Roots
    BY <2>1, <1>7, PlacesOf
  <2>3. t = w.token[src.root] /\ v = val[src.root]
    BY <2>2, <1>5, <1>7
  <2> HIDE DEF t, u, w, src, x, v
  <2> QED
    BY <2>1, <2>2, <2>3 DEF HeldAt, HeldOnce, RootAliases, w
<1>9. Claims(x, u, st) /\ v \in Node =>
          /\ HeldBy(v, u.token[x], rg, heap, val, w, st)
          /\ \A e \in Pairs : heap[e[1]][e[2]] = v /\ EdgeName(e) = u.token[x] =>
                                  EdgeName(e) \in u.moved
  <2> HAVE Claims(x, u, st) /\ v \in Node
  <2>1. ptr(src) /\ t # NoToken /\ u.token[x] = t /\ u.moved = MovedBy(w, src, t) /\ t \notin st
    <3> HIDE DEF t, u, w, src, x, st
    <3> QED
      BY <1>2, <1>4 DEF Claims
  <2>2. /\ HeldBy(v, t, rg, heap, val, w, st)
        /\ \A e \in Pairs : heap[e[1]][e[2]] = v /\ EdgeName(e) = t => EdgeName(e) \in MovedBy(w, src, t)
    <3>1. TypedHeap(val, heap) /\ HeldOnce(rg, heap, val, w, st)
      BY DEF HeldAt
    <3> QED
      BY <3>1, <2>1, <1>1, <1>2, ReadHolds
  <2> HIDE DEF t, u, w, src, x, st, v
  <2> QED
    BY <2>1, <2>2
<1>10. HeldOnce(rg, heap, vn, u, st)
  <2>1. HeldOnce(rg, heap, val, w, st) /\ DOMAIN val = Roots
    BY DEF HeldAt, TypedHeap
  <2>2. \A e \in Pairs : EdgeName(e) \in w.moved => EdgeName(e) \in u.moved
    BY <1>6
  <2> HIDE DEF vn, u, w, x, st, v, t, src, dst
  <2>3. HeldOnce(rg, heap, [val EXCEPT ![x] = v], u, st)
    BY <1>1, <1>2, <1>3, <1>5, <1>8, <1>9, <2>1, <2>2, SetHolds
  <2> QED
    BY <2>3 DEF vn
<1>11. HeldOnce(rg, heap, vn, u, sv)
  <2>1. st \subseteq sv
    BY <1>1, StoredNext
  <2> HIDE DEF vn, u, st, sv
  <2> QED
    BY <1>1, <1>10, <2>1, LaterHolds
<1>12. TypedHeap(vn, heap)
  BY <1>2, <1>5 DEF HeldAt, TypedHeap
<1>13. i \in Nat
  BY <1>1
<1> HIDE DEF vn
<1>14. HeldAt(rg, i + 1, vn, heap)
  BY <1>11, <1>12, <1>13, HeldNext
<1> QED
  BY <1>14 DEF vn

\* A field is set.
LEMMA FieldSetHolds ==
    ASSUME NEW rg, OnceRegion(rg), NEW i \in SetsAt(rg), HeldAt(rg, i, val, heap),
           rg.body[i].dst.path # <<>>, Eval(rg.body[i].src) # Banned, Holder(rg.body[i].dst) \in Node
    PROVE  LET dst == rg.body[i].dst
               v == Eval(rg.body[i].src)
           IN HeldAt(rg, i + 1, val,
                     IF ptr(dst) THEN [heap EXCEPT ![Holder(dst)][Last(dst.path)] = v] ELSE heap)
<1> DEFINE dst == rg.body[i].dst
           src == rg.body[i].src
           n == val[dst.root]
           f == dst.path[1]
           w == walkAt(rg, i - 1)
           u == walkAt(rg, i)
           v == Eval(src)
           t == tokenForExpr(rg, w, src)
           c == tokenForExpr(rg, w, dst)
           st == StoredTokens(rg, i)
           sv == StoredTokens(rg, i + 1)
<1>1. /\ rg \in Regions /\ IsRegion(rg) /\ AcceptedRegion(rg) /\ i \in DOMAIN rg.body
      /\ dst \in Place /\ src \in Expr
      /\ ptr(dst) /\ src # Nil => t # NoToken
      /\ IsWalkState(rg, w) /\ u = recordPointerAssignment(rg, w, dst, src)
      /\ i \in Nat
  BY AcceptedSet, RegionOf, PositionsOf DEF OnceRegion, AcceptedRegion
<1>2. Len(dst.path) <= 1 /\ Len(src.path) <= 1 /\ dst.path \in Paths /\ dst.root \in Roots
  BY <1>1, SetOnce, PlacesOf
<1>3. /\ Len(dst.path) = 1 /\ f \in Fields /\ Last(dst.path) = f /\ dst.path = Append(<<>>, f)
  BY <1>2, ShortPath
<1>4. Holder(dst) = n /\ n \in Node
  BY <1>3, ReachedShort DEF Holder
<1>5. ptr(dst) => f \in PtrFields
  BY <1>3 DEF ptr
<1>6. HeldOnce(rg, heap, val, w, st) /\ TypedHeap(val, heap) /\ st \subseteq sv
  BY <1>1, StoredNext DEF HeldAt
<1>7. v \in Values /\ (v \in Node => src \in Place)
  BY <1>1, <1>2, <1>6, EvalOf
<1>8. /\ ~ptr(src) \/ t = NoToken => u = w
      /\ ptr(src) /\ t # NoToken => u.moved = MovedBy(w, src, t) \ {c} /\ u.token = w.token
  BY <1>1, RecordOf
\* The projection that an assignment clears is the field that it sets.
<1>9. ASSUME NEW e \in Pairs, EdgeName(e) = c
      PROVE  ptr(dst) /\ e = <<n, f>>
  <2>1. /\ EdgeName(e) # NoToken /\ e[2] \in PtrFields /\ Last(EdgeName(e).path) = e[2]
        /\ EdgeName(e).path # <<>>
    BY EdgeNameOf
  <2>2. c # NoToken /\ c.path = dst.path /\ w.token[dst.root] = RootPlace(c.root) /\ c \in Tokens(rg)
    BY <1>1, <1>9, <2>1, TokenOfPlace
  <2>3. ptr(dst) /\ f = e[2] /\ f \in PtrFields
    BY <2>1, <2>2, <1>1, <1>3, <1>9 DEF ptr
  <2>4. c.root \in Roots /\ c \in Place
    BY <2>2, PlacesOf DEF Tokens
  <2>5. /\ RootPlace(c.root) # NoToken /\ RootPlace(c.root).path = <<>>
        /\ RootPlace(c.root).root = c.root
    BY <2>4, PlacesOf
  <2>6. n = RootPlace(c.root)
    <3>1. n \in {w.token[dst.root], Nil}
      BY <1>2, <1>6, <2>2, <2>5 DEF HeldOnce, RootAliases
    <3> QED
      BY <3>1, <2>2, <1>4, NilIsNoNode
  <2>7. <<n, f>> \in Pairs
    BY <1>4, <2>3 DEF Pairs
  <2>8. EdgeName(<<n, f>>) = c
    <3>1. c = [root |-> c.root, path |-> Append(<<>>, f)]
      BY <2>2, <2>4, <1>3 DEF Place
    <3>2. EdgeName(<<n, f>>) = [root |-> c.root, path |-> Append(<<>>, f)]
      BY <2>5, <2>6 DEF EdgeName
    <3> HIDE DEF c, n, f
    <3> QED
      BY <3>1, <3>2, Zenon
  <2> HIDE DEF c, n, f
  <2>9. e = <<n, f>>
    BY <1>9, <2>7, <2>8, EdgeNameOf
  <2> QED
    BY <2>3, <2>9
<1>10. \A e \in Pairs : e # <<n, f>> /\ EdgeName(e) \in w.moved => EdgeName(e) \in u.moved
  <2> TAKE e \in Pairs
  <2> HAVE e # <<n, f>> /\ EdgeName(e) \in w.moved
  <2>1. EdgeName(e) # c
    BY <1>9
  <2> HIDE DEF c, t, w, u, src, n, f
  <2> QED
    BY <2>1, <1>8 DEF MovedBy
<1>11. u.token = w.token
  BY <1>8
<1>12. CASE ptr(dst)
  <2> DEFINE hn == [heap EXCEPT ![n][f] = v]
  <2>1. f \in PtrFields
    BY <1>5, <1>12
  <2>2. TypedHeap(val, hn)
    BY <1>4, <1>6, <1>7, <2>1 DEF TypedHeap
  <2>3. ASSUME v \in Node
        PROVE  /\ t \in sv /\ HeldBy(v, t, rg, heap, val, w, st)
               /\ \A e \in Pairs : e # <<n, f>> /\ heap[e[1]][e[2]] = v /\ EdgeName(e) = t =>
                                       EdgeName(e) \in u.moved
    <3>1. src # Nil /\ src \in Place
      <4>1. src \in Place
        BY <1>7, <2>3
      <4> HIDE DEF src
      <4> QED
        BY <4>1, ValuesAssumption DEF Nil, Place
    <3>2. t # NoToken
      BY <1>1, <1>12, <3>1
    <3>3. ptr(src)
      <4>1. CASE src.path = <<>>
        BY <4>1, <3>1 DEF ptr
      <4>2. CASE src.path # <<>>
        <5>1. src.path[1] \in PtrFields
          BY <1>1, <1>2, <1>6, <2>3, <3>1, <4>2, EvalOf
        <5>2. src.path \in Paths
          BY <3>1, PlacesOf
        <5>3. Last(src.path) = src.path[1]
          BY <5>2, <1>2, <4>2, ShortPath
        <5> QED
          BY <3>1, <5>1, <5>3 DEF ptr
      <4> QED
        BY <4>1, <4>2
    <3>4. i \in StoresAt(rg) /\ Stored(rg)[i] = t
      <4>1. i \in StoresAt(rg)
        BY <3>3 DEF StoresAt
      <4> QED
        BY <4>1, StoredOf
    <3>5. t \in sv /\ t \notin st
      BY <1>1, <3>2, <3>4, StoredNext
    <3>6. /\ HeldBy(v, t, rg, heap, val, w, st)
          /\ \A e \in Pairs : heap[e[1]][e[2]] = v /\ EdgeName(e) = t => EdgeName(e) \in MovedBy(w, src, t)
      BY <1>1, <1>2, <1>6, <2>3, <3>2, <3>5, ReadHolds
    <3>7. ASSUME NEW e \in Pairs, e # <<n, f>>, heap[e[1]][e[2]] = v, EdgeName(e) = t
          PROVE  EdgeName(e) \in u.moved
      <4>1. EdgeName(e) # c
        BY <1>9, <3>7
      <4>2. EdgeName(e) \in MovedBy(w, src, t)
        BY <3>6, <3>7
      <4> HIDE DEF c, t, w, u, src, n, f, v
      <4> QED
        BY <4>1, <4>2, <1>8, <3>2, <3>3
    <3> QED
      BY <3>5, <3>6, <3>7
  <2>4. HeldOnce(rg, hn, val, u, sv)
    <3>1. heap \in [Node -> [PtrFields -> Values]]
      BY <1>6 DEF TypedHeap
    <3> HIDE DEF n, f, v, t, u, w, st, sv, c, src, dst, hn
    <3>2. HeldOnce(rg, [heap EXCEPT ![n][f] = v], val, u, sv)
      BY <1>1, <1>4, <1>6, <1>7, <1>10, <1>11, <2>1, <2>3, <3>1, StoreHolds
    <3> QED
      BY <3>2 DEF hn
  <2>5. i \in Nat
    BY <1>1
  <2> HIDE DEF hn
  <2>6. HeldAt(rg, i + 1, val, hn)
    BY <2>2, <2>4, <2>5, HeldNext
  <2> QED
    BY <2>6, <1>3, <1>4, <1>12 DEF hn
<1>13. CASE ~ptr(dst)
  <2>1. \A e \in Pairs : EdgeName(e) \in w.moved => EdgeName(e) \in u.moved
    <3> TAKE e \in Pairs
    <3> HAVE EdgeName(e) \in w.moved
    <3>1. EdgeName(e) # c
      BY <1>9, <1>13
    <3> HIDE DEF c, t, w, u, src, n, f
    <3> QED
      BY <3>1, <1>8 DEF MovedBy
  <2>2. HeldOnce(rg, heap, val, u, sv)
    <3> HIDE DEF n, f, v, t, u, w, st, sv, c, src, dst
    <3> QED
      BY <1>1, <1>6, <1>11, <2>1, LaterHolds
  <2>3. i \in Nat
    BY <1>1
  <2>4. HeldAt(rg, i + 1, val, heap)
    BY <2>2, <2>3, <1>6, HeldNext
  <2> QED
    BY <2>4, <1>13
<1> QED
  BY <1>12, <1>13

---------------------------------------------------------------------------
(* The start of a run, its branches and its return.                        *)

\* A local that no statement before statement i sets has no value.
Unset(rg, i, vl) ==
    \A x \in Roots \ Entered(rg) :
        (\A k \in SetsAt(rg) : k < i => rg.body[k].dst # RootPlace(x)) => vl[x] = Nil

FirstValues(rg) == [v \in Roots |-> IF v \in Entered(rg) THEN RootPlace(v) ELSE Nil]

\* In the trees that a region is entered with, each node is held once.
LEMMA StartHolds ==
    ASSUME NEW rg, OnceRegion(rg)
    PROVE  HeldAt(rg, 1, FirstValues(rg), Trees) /\ Unset(rg, 1, FirstValues(rg))
<1> DEFINE vl == FirstValues(rg)
           w == NewWalk(rg)
           st == StoredTokens(rg, 0 + 1)
           iso == restoreIsoParamObjects(rg)
<1>0. /\ rg \in Regions /\ IsRegion(rg) /\ walkAt(rg, 0) = w
      /\ \A r \in Entered(rg) : RootPlace(r) \in Node
      /\ \A r \in iso : r \in Entered(rg) /\ r \in Roots
  BY RootsAreNodes, FirstWalk, IsoAreRoots DEF OnceRegion, AcceptedRegion
<1>1. st = {}
  BY <1>0, PositionsOf DEF StoredTokens, StoresAt, SetsAt
<1>2. \A n \in Node, f \in PtrFields : Trees[n][f] = Child(n, f)
  BY DEF Trees
<1>3. \A e \in Pairs : Trees[e[1]][e[2]] \in {EdgeName(e), Nil} /\ Trees[e[1]][e[2]] \in Values
  BY <1>2 DEF Pairs, Child, EdgeName, Values
<1>4. TypedHeap(vl, Trees)
  <2>1. \A x \in Roots : vl[x] \in Values
    BY <1>0 DEF FirstValues, Values
  <2>2. vl \in [Roots -> Values]
    BY <2>1 DEF FirstValues
  <2>3. \A n \in Node, f \in PtrFields : Trees[n][f] \in Values
    BY <1>2 DEF Child, Values
  <2>4. Trees \in [Node -> [PtrFields -> Values]]
    BY <2>3 DEF Trees
  <2> QED
    BY <2>2, <2>4 DEF TypedHeap
<1>5. w.moved = {} /\ \A x \in Roots : w.token[x] = IF x \in iso THEN RootPlace(x) ELSE NoToken
  BY DEF NewWalk, Walk
<1>6. \A x \in Roots : ~Claims(x, w, st)
  BY <1>5, PlacesOf DEF Claims
<1>7. OneEdge(Trees, w, st)
  BY <1>3, NilIsNoNode DEF OneEdge
<1>8. EdgeOrVariable(Trees, vl, w, st) /\ OneToken(vl, w, st)
  BY <1>6 DEF EdgeOrVariable, OneToken
<1>9. FreshRoots(rg, Trees, vl, w, st)
  <2>1. \A r \in Roots, e \in Pairs : Trees[e[1]][e[2]] # RootPlace(r)
    <3> TAKE r \in Roots, e \in Pairs
    <3>1. EdgeName(e).path # <<>> /\ RootPlace(r).path = <<>> /\ RootPlace(r) # Nil
      BY EdgeNameOf, PlacesOf, NilIsNoNode
    <3> QED
      BY <3>1, <1>3
  <2> QED
    BY <2>1, <1>0, <1>6 DEF FreshRoots
<1>10. RootAliases(rg, vl, w)
  BY <1>0, <1>5 DEF RootAliases, FirstValues
<1>11. HeldOnce(rg, Trees, vl, w, st)
  BY <1>7, <1>8, <1>9, <1>10 DEF HeldOnce
<1>12. HeldAt(rg, 0 + 1, vl, Trees)
  <2> HIDE DEF vl, w, st
  <2>1. HeldOnce(rg, Trees, vl, walkAt(rg, 0), StoredTokens(rg, 0 + 1))
    BY <1>0, <1>11 DEF st
  <2> QED
    BY <1>4, <2>1, HeldNext
<1>13. Unset(rg, 1, vl)
  BY DEF Unset, FirstValues
<1> QED
  BY <1>12, <1>13

\* A jump over statements keeps what is held, if all that was moved stays moved.
LEMMA JumpHolds ==
    ASSUME NEW rg, OnceRegion(rg), NEW i \in DOMAIN rg.body, NEW m \in i .. Len(rg.body), NEW vl, NEW hp,
           HeldAt(rg, i, vl, hp), Unset(rg, i, vl),
           walkAt(rg, i - 1).moved \subseteq walkAt(rg, m).moved
    PROVE  HeldAt(rg, m + 1, vl, hp) /\ Unset(rg, m + 1, vl)
<1> DEFINE w == walkAt(rg, i - 1)
           u == walkAt(rg, m)
<1>0. /\ IsRegion(rg) /\ Len(rg.body) \in Nat /\ DOMAIN rg.body = 1 .. Len(rg.body)
      /\ SetsAt(rg) \subseteq Nat /\ StoresAt(rg) \subseteq Nat
  <2>1. IsRegion(rg) /\ Len(rg.body) \in Nat /\ DOMAIN rg.body = 1 .. Len(rg.body)
    BY RegionOf, PositionsOf DEF OnceRegion, AcceptedRegion
  <2> QED
    BY <2>1 DEF SetsAt, StoresAt
<1>1. i - 1 \in 0 .. Len(rg.body) /\ m \in i - 1 .. Len(rg.body) /\ m \in Nat /\ i \in Nat
  BY <1>0
<1>2. StoredTokens(rg, i) \subseteq StoredTokens(rg, m + 1)
  <2>1. \A k \in StoresAt(rg) : k < i => k < m + 1
    BY <1>0, <1>1
  <2> QED
    BY <2>1 DEF StoredTokens
<1>3. \A x \in Roots : u.token[x] = w.token[x] \/ vl[x] = Nil
  <2> TAKE x \in Roots
  <2>1. CASE u.token[x] = w.token[x]
    BY <2>1
  <2>2. CASE x \notin Entered(rg) /\ \A k \in SetsAt(rg) : k <= i - 1 => rg.body[k].dst # RootPlace(x)
    <3>1. \A k \in SetsAt(rg) : k < i => rg.body[k].dst # RootPlace(x)
      <4>1. \A k \in SetsAt(rg) : k < i => k <= i - 1
        BY <1>0, <1>1
      <4> QED
        BY <2>2, <4>1
    <3> QED
      BY <2>2, <3>1 DEF Unset
  <2> QED
    BY <1>1, <2>1, <2>2, TokenLater
<1>4. HeldOnce(rg, hp, vl, u, StoredTokens(rg, m + 1))
  <2>1. HeldOnce(rg, hp, vl, w, StoredTokens(rg, i))
    BY DEF HeldAt
  <2>2. \A e \in Pairs : EdgeName(e) \in w.moved => EdgeName(e) \in u.moved
    OBVIOUS
  <2> HIDE DEF u, w
  <2> QED
    BY <1>0, <1>2, <1>3, <2>1, <2>2, LaterHolds
<1>5. HeldAt(rg, m + 1, vl, hp)
  BY <1>1, <1>4, HeldNext DEF HeldAt
<1>6. Unset(rg, m + 1, vl)
  <2>1. \A k \in SetsAt(rg) : k < i => k < m + 1
    BY <1>0, <1>1
  <2> QED
    BY <2>1 DEF Unset
<1> QED
  BY <1>5, <1>6

\* An accepted region returns places of opened roots.
LEMMA ReturnedAre ==
    ASSUME NEW rg, AcceptedRegion(rg)
    PROVE  LET R == Returned(rg)
           IN /\ Len(rg.body) \in DOMAIN rg.body /\ R = rg.body[Len(rg.body)].values /\ R \in Seq(Expr)
              /\ \A j \in DOMAIN R : /\ R[j].root \in restoreIsoParamObjects(rg) /\ R[j] \in Place
                                     /\ R[j] = RootPlace(R[j].root) /\ R[j].path = <<>>
<1> DEFINE R == Returned(rg)
           n == Len(rg.body)
<1>0. IsRegion(rg) /\ n \in Nat /\ DOMAIN rg.body = 1 .. n
  BY RegionOf, PositionsOf DEF AcceptedRegion
<1>1. rg.body # <<>> /\ \A j \in DOMAIN R : R[j].root \in restoreIsoParamObjects(rg) /\ R[j].path = <<>>
  BY AcceptedOutside
<1>2. n \in DOMAIN rg.body
  <2>1. n # 0
    BY <1>0, <1>1 DEF IsRegion
  <2> QED
    BY <1>0, <2>1
<1>3. R = rg.body[n].values
  BY DEF Returned, Last
<1>4. rg.body[n].op = "return" /\ IsStatementOf(rg.body, n)
  BY <1>0, <1>2, AcceptedStep DEF IsRegion
<1>5. R \in Seq(Expr)
  BY <1>3, <1>4 DEF IsStatementOf
<1>6. \A j \in DOMAIN R : R[j] \in Place
  <2> TAKE j \in DOMAIN R
  <2>1. R[j] \in Expr /\ R[j].root \in Roots
    BY <1>0, <1>1, <1>5, IsoAreRoots
  <2> HIDE DEF R
  <2> QED
    BY <2>1, ValuesAssumption, NoPlaceAssumption DEF Expr, Nil, NoPlace, Banned, Scalar
<1> QED
  BY <1>1, <1>2, <1>3, <1>5, <1>6, PlacesOf

---------------------------------------------------------------------------
(* The runs.                                                               *)

RestoreInv ==
    /\ region \in Regions
    /\ stage \in {"check", "run", "rejected", "done", "panic"}
    /\ stage = "rejected" <=> errs # {}
    /\ stage = "check" => pc = 1 /\ val = FirstValues(region) /\ heap = Trees
    /\ stage \in {"run", "done"} =>
          /\ AcceptedRegion(region)
          /\ pc \in Nat \ {0} /\ DOMAIN val = Roots
          /\ \A r \in restoreIsoParamObjects(region) : val[r] = RootPlace(r)
          /\ StoresOnce(region) => HeldAt(region, pc, val, heap) /\ Unset(region, pc, val)
    /\ stage = "done" => pc = Len(region.body) /\ results = Returned(region)

\* The graphs that a region gives back have one owner for each node.
LEMMA DoneOwns ==
    ASSUME OnceRegion(region), HeldAt(region, Len(region.body), val, heap), results = Returned(region)
    PROVE  OneOwner
<1> DEFINE n == Len(region.body)
           w == walkAt(region, n - 1)
           st == StoredTokens(region, n)
           iso == restoreIsoParamObjects(region)
           kept == Reach(Range(results) \cap Node)
           held == {e \in Edges : e[1] \in kept}
<1>0. /\ AcceptedRegion(region) /\ IsRegion(region) /\ n \in DOMAIN region.body
      /\ n - 1 \in 0 .. Len(region.body) /\ n \in Nat /\ region.body[n].op = "return"
  <2>1. AcceptedRegion(region) /\ n \in DOMAIN region.body
    BY ReturnedAre DEF OnceRegion
  <2>2. IsRegion(region) /\ DOMAIN region.body = 1 .. n /\ n \in Nat
    BY <2>1, RegionOf, PositionsOf DEF AcceptedRegion
  <2> QED
    BY <2>1, <2>2, AcceptedStep
<1>1. walkAt(region, n) = w
  BY <1>0, AcceptedStep
<1>2. HeldOnce(region, heap, val, w, st) /\ LastWalk(region) = w
  BY <1>1 DEF HeldAt, LastWalk
<1>3. /\ \A v \in ReturnedRoots(region) : w.inc[v] = "nil"
      /\ \A v \in Roots : w.inc[v] # "nil" => tokenRootEscapes(region, w, v)
      /\ \A t \in w.moved : ~tokenRootEscapes(region, w, t.root)
      /\ \A i, j \in DOMAIN results : i < j => results[i] # results[j]
  BY <1>0, <1>2, AcceptedOutside
<1>4. /\ \A j \in DOMAIN results : results[j].root \in iso /\ results[j] = RootPlace(results[j].root)
      /\ DOMAIN results = 1 .. Len(results) /\ Len(results) \in Nat
  BY <1>0, ReturnedAre
<1>5. \A x \in Range(results) : \E r \in ReturnedRoots(region) : x = RootPlace(r)
  <2> TAKE x \in Range(results)
  <2>1. PICK j \in DOMAIN results : x = results[j]
    BY DEF Range
  <2>2. results[j].root \in ReturnedRoots(region)
    BY <1>4 DEF ReturnedRoots
  <2> QED
    BY <2>1, <2>2, <1>4
<1>6. iso \subseteq Roots /\ ReturnedRoots(region) \subseteq iso
  BY <1>0, IsoAreRoots DEF ReturnedRoots
\* A root that a field points to hangs in another one.
<1>7. ASSUME NEW e \in Pairs, NEW r \in iso, heap[e[1]][e[2]] = RootPlace(r)
      PROVE  w.inc[r] # "nil"
  <2>1. RootPlace(r) \in st
    BY <1>2, <1>7 DEF HeldOnce, FreshRoots
  <2> QED
    BY <1>2, <2>1, StoredRoots
<1>8. /\ Edges \subseteq Pairs
      /\ \A e \in Edges : To(e) = heap[e[1]][e[2]] /\ To(e) \in Node
  BY DEF Edges, Pairs, To
<1>9. \A x \in kept : x \in Range(results) \/ \E d \in Edges : x = To(d)
  BY DEF Reach
<1> HIDE DEF kept, w, st, iso
<1>10. ASSUME NEW e \in held PROVE Counts(e, w, st)
  <2> SUFFICES ASSUME EdgeName(e) \in w.moved PROVE FALSE
    BY DEF Counts
  <2> DEFINE r == e[1].root
  <2>1. e \in Pairs /\ e[1] \in kept
    BY <1>8
  <2>2. EdgeName(e) \in Tokens(region) /\ Len(EdgeName(e).path) <= 1
    <3>1. IsWalkState(region, w)
      BY <1>0, WalkStates DEF walkAt, w
    <3>2. \A t \in w.moved : Len(t.path) <= 1
      BY <1>0, MovedShort DEF w
    <3> QED
      BY <3>1, <3>2 DEF IsWalkState
  <2>3. r \in iso /\ e[1] = RootPlace(r) /\ EdgeName(e).root = r
    BY <2>1, <2>2, EdgeNameOf DEF Tokens, iso
  <2>4. ~tokenRootEscapes(region, w, r)
    BY <1>3, <2>3
  <2> HIDE DEF r
  <2>5. CASE RootPlace(r) \in Range(results)
    <3>1. PICK q \in ReturnedRoots(region) : RootPlace(r) = RootPlace(q)
      BY <1>5, <2>5
    <3>2. r = q
      BY <3>1, <1>6, <2>3, PlacesOf
    <3> QED
      BY <3>1, <3>2, <2>4 DEF tokenRootEscapes
  <2>6. ASSUME NEW d \in Edges, RootPlace(r) = To(d) PROVE FALSE
    <3>1. w.inc[r] # "nil"
      BY <1>7, <1>8, <2>3, <2>6
    <3> QED
      BY <3>1, <1>3, <1>6, <2>3, <2>4
  <2> QED
    BY <2>1, <2>3, <2>5, <2>6, <1>9
<1>11. \A i, j \in DOMAIN results : i # j => results[i] # results[j]
  <2> TAKE i, j \in DOMAIN results
  <2> HAVE i # j
  <2>1. i < j \/ j < i
    BY <1>4
  <2> QED
    BY <2>1, <1>3
<1>12. ASSUME NEW e \in held PROVE To(e) \notin Range(results)
  <2> SUFFICES ASSUME To(e) \in Range(results) PROVE FALSE
    OBVIOUS
  <2>1. PICK r \in ReturnedRoots(region) : To(e) = RootPlace(r)
    BY <1>5
  <2>2. w.inc[r] # "nil"
    BY <2>1, <1>6, <1>7, <1>8
  <2> QED
    BY <2>2, <1>3
<1>13. ASSUME NEW e \in held, NEW d \in held, To(d) = To(e) PROVE d = e
  <2>1. e \in Pairs /\ d \in Pairs /\ Counts(e, w, st) /\ Counts(d, w, st)
    BY <1>8, <1>10
  <2>2. heap[e[1]][e[2]] \in Node /\ heap[e[1]][e[2]] = heap[d[1]][d[2]]
    BY <1>8, <1>13
  <2>3. EdgeName(e) = EdgeName(d)
    BY <1>2, <2>1, <2>2 DEF HeldOnce, OneEdge
  <2> QED
    BY <2>1, <2>3, EdgeNameOf
<1> QED
  BY <1>11, <1>12, <1>13 DEF OneOwner, kept

\* The invariant says what the properties ask for.
LEMMA RestoreInvIsEnough == RestoreInv => RegionTypeOK /\ OneOwnerIfStoredOnce
<1> SUFFICES ASSUME RestoreInv PROVE RegionTypeOK /\ OneOwnerIfStoredOnce
  OBVIOUS
<1>1. ASSUME stage = "done"
      PROVE  /\ Len(results) = Len(region.lhs)
             /\ \A i \in DOMAIN results :
                   results[i] \in {RootPlace(v) : v \in restoreIsoParamObjects(region)}
  <2>1. AcceptedRegion(region) /\ results = Returned(region)
    BY <1>1 DEF RestoreInv
  <2> QED
    BY <2>1, AcceptedOutside, ReturnedAre
<1>2. RegionTypeOK
  BY <1>1 DEF RestoreInv, RegionTypeOK
<1>3. OneOwnerIfStoredOnce
  <2> SUFFICES ASSUME stage = "done", StoresOnce(region) PROVE OneOwner
    BY DEF OneOwnerIfStoredOnce
  <2>1. /\ OnceRegion(region) /\ results = Returned(region)
        /\ HeldAt(region, Len(region.body), val, heap)
    BY DEF RestoreInv, OnceRegion
  <2> QED
    BY <2>1, DoneOwns
<1> QED
  BY <1>2, <1>3

\* A run starts with the trees that the arguments are.
LEMMA RestoreInvInit == RegionInit => RestoreInv
BY DEF RegionInit, RestoreInv, FirstValues

\* Each step keeps the invariant.
LEMMA RestoreInvNext == RestoreInv /\ [RegionNext]_regionVars => RestoreInv'
<1> SUFFICES ASSUME RestoreInv, [RegionNext]_regionVars PROVE RestoreInv'
  OBVIOUS
<1>1. CASE Check
  <2>1. /\ stage = "check" /\ pc = 1 /\ val = FirstValues(region) /\ heap = Trees /\ region \in Regions
        /\ errs' = (IF region.bound THEN checkBinding(region) ELSE {"unbound"})
        /\ stage' = IF errs' = {} THEN "run" ELSE "rejected"
        /\ region' = region /\ pc' = pc /\ val' = val /\ heap' = heap
    BY <1>1 DEF Check, RestoreInv
  <2>2. CASE errs' # {}
    BY <2>1, <2>2 DEF RestoreInv
  <2>3. CASE errs' = {}
    <3>1. AcceptedRegion(region)
      BY <2>1, <2>3 DEF AcceptedRegion
    <3>2. IsRegion(region) /\ restoreIsoParamObjects(region) \subseteq Roots
          /\ \A r \in restoreIsoParamObjects(region) : r \in Entered(region)
      BY <2>1, RootsAreNodes, IsoAreRoots
    <3>3. DOMAIN val = Roots /\ \A r \in restoreIsoParamObjects(region) : val[r] = RootPlace(r)
      BY <2>1, <3>2 DEF FirstValues
    <3>4. StoresOnce(region) => HeldAt(region, 1, val, heap) /\ Unset(region, 1, val)
      BY <2>1, <3>1, StartHolds DEF OnceRegion
    <3>5. stage' = "run"
      BY <2>1, <2>3
    <3> QED
      BY <2>1, <2>3, <3>1, <3>3, <3>4, <3>5 DEF RestoreInv
  <2> QED
    BY <2>2, <2>3
<1>2. CASE Assignment
  <2> DEFINE s == region.body[pc]
             dst == s.dst
             v == Eval(s.src)
             panics == v = Banned \/ (dst.path # <<>> /\ Holder(dst) \notin Node)
  <2>1. /\ stage = "run" /\ pc \in DOMAIN region.body /\ s.op = "set"
        /\ stage' = IF panics THEN "panic" ELSE stage
        /\ val' = IF ~panics /\ dst.path = <<>> THEN [val EXCEPT ![dst.root] = v] ELSE val
        /\ heap' = IF ~panics /\ dst.path # <<>> /\ ptr(dst)
                   THEN [heap EXCEPT ![Holder(dst)][Last(dst.path)] = v] ELSE heap
        /\ pc' = pc + 1 /\ region' = region /\ errs' = errs /\ results' = results
    BY <1>2, Zenon DEF Assignment, AtStatement, Statement
  <2>2. /\ AcceptedRegion(region) /\ region \in Regions /\ errs = {} /\ pc \in Nat \ {0} /\ DOMAIN val = Roots
        /\ \A r \in restoreIsoParamObjects(region) : val[r] = RootPlace(r)
        /\ StoresOnce(region) => HeldAt(region, pc, val, heap) /\ Unset(region, pc, val)
    BY <2>1 DEF RestoreInv
  <2>3. /\ pc \in SetsAt(region) /\ dst \in Place /\ dst.root \in Roots
        /\ dst.path = <<>> => dst.root \notin restoreIsoParamObjects(region)
    <3>1. pc \in SetsAt(region)
      BY <2>1 DEF SetsAt
    <3> QED
      BY <3>1, <2>2, AcceptedSet, PlacesOf
  <2> HIDE DEF v, dst, s
  <2>4. DOMAIN val' = Roots /\ \A r \in restoreIsoParamObjects(region) : val'[r] = RootPlace(r)
    <3>1. restoreIsoParamObjects(region) \subseteq Roots
      BY <2>2, RegionOf, IsoAreRoots
    <3>2. CASE val' = val
      BY <2>2, <3>2
    <3>3. CASE dst.path = <<>> /\ val' = [val EXCEPT ![dst.root] = v]
      BY <2>2, <2>3, <3>1, <3>3
    <3> QED
      BY <2>1, <3>2, <3>3
  <2>5. ASSUME ~panics, StoresOnce(region)
        PROVE  HeldAt(region, pc + 1, val', heap') /\ Unset(region, pc + 1, val')
    <3>1. OnceRegion(region) /\ HeldAt(region, pc, val, heap) /\ Unset(region, pc, val)
      BY <2>2, <2>5 DEF OnceRegion
    <3>2. HeldAt(region, pc + 1, val', heap')
      <4>1. CASE dst.path = <<>>
        <5>1. val' = [val EXCEPT ![dst.root] = v] /\ heap' = heap /\ v # Banned
          BY <2>1, <2>5, <4>1
        <5>2. HeldAt(region, pc + 1, [val EXCEPT ![dst.root] = v], heap)
          BY <3>1, <2>3, <4>1, <5>1, LocalSetHolds DEF dst, s, v
        <5> QED
          BY <5>1, <5>2
      <4>2. CASE dst.path # <<>>
        <5>1. /\ v # Banned /\ Holder(dst) \in Node /\ val' = val
              /\ heap' = IF ptr(dst) THEN [heap EXCEPT ![Holder(dst)][Last(dst.path)] = v] ELSE heap
          BY <2>1, <2>5, <4>2
        <5>2. HeldAt(region, pc + 1, val,
                     IF ptr(dst) THEN [heap EXCEPT ![Holder(dst)][Last(dst.path)] = v] ELSE heap)
          BY <3>1, <2>3, <4>2, <5>1, FieldSetHolds DEF dst, s, v
        <5> QED
          BY <5>1, <5>2
      <4> QED
        BY <4>1, <4>2
    <3>3. ASSUME NEW x \in Roots \ Entered(region),
                 \A k \in SetsAt(region) : k < pc + 1 => region.body[k].dst # RootPlace(x)
          PROVE  val'[x] = Nil
      <4>1. SetsAt(region) \subseteq Nat
        BY <2>2, RegionOf, PositionsOf DEF SetsAt
      <4>2. dst # RootPlace(x) /\ \A k \in SetsAt(region) : k < pc => region.body[k].dst # RootPlace(x)
        BY <2>2, <2>3, <3>3, <4>1 DEF dst, s
      <4>3. val[x] = Nil
        BY <3>1, <4>2 DEF Unset
      <4>4. dst.path = <<>> => dst.root # x
        BY <2>3, <4>2, PlacesOf
      <4> QED
        BY <2>1, <2>2, <4>3, <4>4
    <3> QED
      BY <3>2, <3>3 DEF Unset
  <2>6. CASE panics
    BY <2>1, <2>2, <2>6 DEF RestoreInv
  <2>7. CASE ~panics
    <3>1. stage' = "run" /\ pc' = pc + 1 /\ pc' \in Nat \ {0} /\ region' = region /\ errs' = {}
      BY <2>1, <2>2, <2>7
    <3>2. StoresOnce(region) => HeldAt(region, pc', val', heap') /\ Unset(region, pc', val')
      BY <2>5, <2>7, <3>1
    <3> QED
      BY <2>2, <2>4, <3>1, <3>2 DEF RestoreInv
  <2> QED
    BY <2>6, <2>7
\* The two actions that only move on.
<1>3. ASSUME stage = "run", stage' = stage, region' = region, errs' = errs, val' = val, heap' = heap,
             pc \in DOMAIN region.body,
             NEW m \in pc .. Len(region.body), pc' = m + 1,
             walkAt(region, pc - 1).moved \subseteq walkAt(region, m).moved
      PROVE  RestoreInv'
  <2>1. /\ AcceptedRegion(region) /\ region \in Regions /\ errs = {} /\ pc \in Nat \ {0} /\ DOMAIN val = Roots
        /\ \A r \in restoreIsoParamObjects(region) : val[r] = RootPlace(r)
        /\ StoresOnce(region) => HeldAt(region, pc, val, heap) /\ Unset(region, pc, val)
    BY <1>3 DEF RestoreInv
  <2>2. m + 1 \in Nat \ {0}
    BY <2>1, RegionOf, PositionsOf
  <2>3. StoresOnce(region) => HeldAt(region, m + 1, val, heap) /\ Unset(region, m + 1, val)
    BY <1>3, <2>1, JumpHolds DEF OnceRegion
  <2> QED
    BY <1>3, <2>1, <2>2, <2>3 DEF RestoreInv
<1>4. ASSUME stage = "run", pc \in DOMAIN region.body
      PROVE  LET s == region.body[pc]
                 moved(i) == walkAt(region, i).moved
             IN /\ pc \in pc .. Len(region.body)
                /\ s.op = "if" => /\ moved(pc) = moved(pc - 1)
                                  /\ s.else \in pc .. Len(region.body) /\ moved(s.else) = moved(pc - 1)
                /\ s.op = "else" => /\ s.end \in pc .. Len(region.body)
                                    /\ moved(pc - 1) \subseteq moved(s.end)
                /\ s.op = "end" => moved(pc - 1) \subseteq moved(pc)
  <2> DEFINE b == region.body
             s == b[pc]
  <2>1. /\ AcceptedRegion(region) /\ IsRegion(region) /\ pc \in 1 .. Len(b) /\ Len(b) \in Nat
        /\ DOMAIN b = 1 .. Len(b) /\ IsStatementOf(b, pc)
    BY <1>4, RegionOf, PositionsOf DEF RestoreInv, IsRegion
  <2>2. ASSUME NEW i \in 1 .. Len(b)
        PROVE  /\ b[i].op \in {"if", "return"} => walkAt(region, i) = walkAt(region, i - 1)
               /\ b[i].op = "else" => walkAt(region, i).moved = walkAt(region, b[i].of).moved
               /\ b[i].op = "end" => walkAt(region, i).moved =
                     walkAt(region, i - 1).moved \cup walkAt(region, b[i].else - 1).moved
    <3> DEFINE w == walkAt(region, i - 1)
               u == walkAt(region, i)
    <3>1. w = Walk(w.token, w.moved, w.inc, w.errs)
      <4>1. i - 1 \in 0 .. Len(region.body)
        BY <2>1
      <4> QED
        BY <2>1, <4>1, AcceptedErrors DEF IsWalkState
    <3>2. /\ b[i].op \in {"if", "return"} => u = w
          /\ b[i].op = "else" => u = [w EXCEPT !.moved = walkAt(region, b[i].of).moved]
          /\ b[i].op = "end" => u = [w EXCEPT !.moved = w.moved \cup walkAt(region, b[i].else - 1).moved]
      BY <2>1, AcceptedStep
    <3>3. \A M : [w EXCEPT !.moved = M].moved = M
      <4> HIDE DEF w
      <4> QED
        BY <3>1, MovedOf DEF Walk
    <3> HIDE DEF w, u
    <3> QED
      BY <3>2, <3>3 DEF u, w
  <2>3. CASE s.op = "if"
    <3>1. s.else \in pc + 1 .. Len(b) /\ b[s.else].op = "else" /\ b[s.else].of = pc
      BY <2>1, <2>3 DEF IsStatementOf
    <3>2. s.else \in 1 .. Len(b) /\ s.else \in pc .. Len(b)
      BY <2>1, <3>1
    <3>3. walkAt(region, s.else).moved = walkAt(region, pc).moved
      BY <2>2, <3>1, <3>2
    <3>4. walkAt(region, pc) = walkAt(region, pc - 1)
      BY <2>1, <2>2, <2>3
    <3> QED
      BY <2>1, <2>3, <3>2, <3>3, <3>4
  <2>4. CASE s.op = "else"
    <3>1. s.end \in pc + 1 .. Len(b) /\ b[s.end].op = "end" /\ b[s.end].else = pc
      BY <2>1, <2>4 DEF IsStatementOf
    <3>2. s.end \in 1 .. Len(b) /\ s.end \in pc .. Len(b)
      BY <2>1, <3>1
    <3>3. walkAt(region, s.end).moved = walkAt(region, s.end - 1).moved \cup walkAt(region, pc - 1).moved
      BY <2>2, <3>1, <3>2
    <3> QED
      BY <2>1, <2>4, <3>2, <3>3
  <2>5. CASE s.op = "end"
    <3>1. walkAt(region, pc - 1).moved \subseteq walkAt(region, pc).moved
      BY <2>1, <2>2, <2>5
    <3> QED
      BY <2>1, <2>5, <3>1
  <2>6. CASE s.op \notin {"if", "else", "end"}
    BY <2>1, <2>6
  <2> QED
    BY <2>3, <2>4, <2>5, <2>6
<1>5. CASE Decide
  <2>1. /\ stage = "run" /\ pc \in DOMAIN region.body /\ region.body[pc].op = "if"
        /\ pc' \in {pc + 1, region.body[pc].else + 1}
        /\ stage' = stage /\ region' = region /\ errs' = errs /\ val' = val /\ heap' = heap
    BY <1>5 DEF Decide, AtStatement, Statement
  <2>2. CASE pc' = pc + 1
    BY <2>1, <2>2, <1>3, <1>4
  <2>3. CASE pc' = region.body[pc].else + 1
    BY <2>1, <2>3, <1>3, <1>4
  <2> QED
    BY <2>1, <2>2, <2>3
<1>6. CASE Rejoin
  <2>1. /\ stage = "run" /\ pc \in DOMAIN region.body /\ region.body[pc].op \in {"else", "end"}
        /\ pc' = (IF region.body[pc].op = "else" THEN region.body[pc].end ELSE pc) + 1
        /\ stage' = stage /\ region' = region /\ errs' = errs /\ val' = val /\ heap' = heap
    BY <1>6 DEF Rejoin, AtStatement, Statement
  <2>2. CASE region.body[pc].op = "else"
    BY <2>1, <2>2, <1>3, <1>4
  <2>3. CASE region.body[pc].op = "end"
    BY <2>1, <2>3, <1>3, <1>4
  <2> QED
    BY <2>1, <2>2, <2>3
<1>7. CASE Return
  <2>1. /\ stage = "run" /\ pc \in DOMAIN region.body /\ region.body[pc].op = "return"
        /\ results' = [i \in DOMAIN region.body[pc].values |-> Eval(region.body[pc].values[i])]
        /\ stage' = "done"
        /\ region' = region /\ errs' = errs /\ val' = val /\ heap' = heap /\ pc' = pc
    BY <1>7 DEF Return, AtStatement, Statement
  <2>2. /\ AcceptedRegion(region) /\ region \in Regions /\ errs = {} /\ pc \in Nat \ {0} /\ DOMAIN val = Roots
        /\ \A r \in restoreIsoParamObjects(region) : val[r] = RootPlace(r)
        /\ StoresOnce(region) => HeldAt(region, pc, val, heap) /\ Unset(region, pc, val)
    BY <2>1 DEF RestoreInv
  <2>3. pc = Len(region.body)
    BY <2>1, <2>2, AcceptedStep
  <2>4. results' = Returned(region)
    <3> DEFINE R == Returned(region)
    <3>1. /\ R = region.body[pc].values /\ R \in Seq(Expr)
          /\ \A j \in DOMAIN R : /\ R[j].root \in restoreIsoParamObjects(region) /\ R[j] \in Place
                                 /\ R[j] = RootPlace(R[j].root) /\ R[j].path = <<>>
      BY <2>2, <2>3, ReturnedAre
    <3> HIDE DEF R
    <3>2. ASSUME NEW j \in DOMAIN R PROVE Eval(R[j]) = R[j]
      <4>1. Len(R[j].path) = 0
        BY <3>1
      <4>2. Eval(R[j]) = val[R[j].root]
        BY <3>1, <4>1, ReachedShort DEF Eval
      <4> QED
        BY <2>2, <3>1, <4>2
    <3>3. results' = [j \in DOMAIN R |-> Eval(R[j])]
      BY <2>1, <3>1
    <3>4. results' = [j \in DOMAIN R |-> R[j]]
      BY <3>2, <3>3
    <3>5. R = [j \in DOMAIN R |-> R[j]]
      BY <3>1
    <3> QED
      BY <3>4, <3>5 DEF R
  <2> QED
    BY <2>1, <2>2, <2>3, <2>4 DEF RestoreInv
<1>8. CASE UNCHANGED regionVars
  BY <1>8 DEF RestoreInv, regionVars
<1> QED
  BY <1>1, <1>2, <1>5, <1>6, <1>7, <1>8 DEF RegionNext

\* A region is checked before it runs, and a run that is over gives back as many
\* opened roots as the region has results.
THEOREM RestoreTypes == RegionSpec => []RegionTypeOK
<1>1. RestoreInv => RegionTypeOK
  BY RestoreInvIsEnough
<1> QED
  BY <1>1, RestoreInvInit, RestoreInvNext, PTL DEF RegionSpec

\* What an accepted region gives back has one owner for each node, if the region
\* stores each thing once: whatever its statements, its branches and its graphs.
THEOREM RestoredOnce == RegionSpec => []OneOwnerIfStoredOnce
<1>1. RestoreInv => OneOwnerIfStoredOnce
  BY RestoreInvIsEnough
<1> QED
  BY <1>1, RestoreInvInit, RestoreInvNext, PTL DEF RegionSpec
=============================================================================
