--------------------------- MODULE ClosureEscape ---------------------------
(***************************************************************************)
(* Closures that escape (ssa_closure_escape.go).  A function literal that  *)
(* uses an \iso, \mub or \rob variable of the function around it must not  *)
(* be returned, stored where others see it, or handed to a function gown   *)
(* knows nothing of.  The checker walks over the source once, with the     *)
(* literals each function variable may hold, and then looks at the returns *)
(* and stores of the SSA form.  The model does both, and runs the function *)
(* next to what they report.                                               *)
(*                                                                         *)
(* A function is the sequence of its statements, numbered from its end:    *)
(* the one behind a statement in its block (next) and the blocks inside it *)
(* have smaller numbers, and 0 is the end of a block.  The function begins *)
(* with its last number.  A statement is a record with its kind in op.  A  *)
(* value is a literal, a variable, or Unknown.  Conditions are not looked  *)
(* at: a branch is taken or not.  The init statement of an if, a for or a  *)
(* switch is the statement in front of it.                                 *)
(***************************************************************************)
EXTENDS Integers, SequencesExt

CONSTANTS Vars,        \* the function variables
          Lits,        \* the function literals
          Capturing,   \* those of them that use a borrowed or \iso variable
          Functions    \* the bodies to check

Unknown == "unknown"

ASSUME CapturingAssumption ==
    Capturing \subseteq Lits /\ Lits \cap Vars = {} /\ Unknown \notin Lits \cup Vars

Assigning == {"set", "multi"}
Using     == {"return", "store", "pass"}
Branching == {"if", "block", "labeled", "switch", "select"}
Jumping   == {"break", "continue"}

\* The blocks inside a statement, by their first statements.
Blocks(s) ==
    CASE s.op \in {"block", "labeled"} -> {s.body}
      [] s.op = "for"                  -> {s.body, s.post}
      [] s.op = "if"                   -> {s.then, s.else}
      [] s.op \in {"switch", "select"} -> s.cases
      [] OTHER                         -> {}

IsStatement(s, n) ==
    /\ s.op \in Assigning \cup Using \cup Branching \cup Jumping \cup {"for"}
    /\ s.op \in Assigning => s.var \in Vars
    /\ s.op \in {"set"} \cup Using => s.val \in Lits \cup Vars \cup {Unknown}
    /\ {s.next} \cup Blocks(s) \subseteq 0 .. n - 1

\* What has a number between those of a statement and the one behind it is
\* inside it.
IsNested(b) ==
    \A n \in DOMAIN b :
        LET Inside == {0} \cup (b[n].next + 1 .. n - 1)
        IN  b[n].next # 0 => /\ Blocks(b[n]) \subseteq Inside
                             /\ \A m \in Inside \ {0} : {b[m].next} \cup Blocks(b[m]) \subseteq Inside

ASSUME FunctionsAssumption ==
    \A b \in Functions : /\ b \in Seq(Range(b)) /\ \A n \in DOMAIN b : IsStatement(b[n], n)
                         /\ IsNested(b)

Envs     == [Vars -> SUBSET Lits]               \* what the walk knows
Holdings == [Vars -> Lits \cup {Unknown}]       \* what the variables hold

VARIABLES body, phase, reports,
          todo,        \* what is left to run
          holds,       \* the literal in each variable
          escaped,     \* the literals that escaped, and where
          unfollowed   \* the run took a step that the walk does not follow

vars == <<body, phase, reports, todo, holds, escaped, unfollowed>>

---------------------------------------------------------------------------
(* The walk over the source.  env holds the literals of each variable.     *)

NoClosures == [v \in Vars |-> {}]

sourceClosuresForExpr(e, env) ==
    IF e \in Lits THEN {e} ELSE IF e \in Vars THEN env[e] ELSE {}

\* Mutant: the environment of the last branch is kept.
LastEnv(left, right) == right

mergeClosureFlowEnv(left, right) == [v \in Vars |-> left[v] \cup right[v]]

Walked(env, errs) == [env |-> env, errs |-> errs]

\* Mutant: any literal is reported.
ReportedAny(s, n, env) == {n} \X sourceClosuresForExpr(s.val, env)

ReportedAt(s, n, env) == {n} \X (sourceClosuresForExpr(s.val, env) \cap Capturing)

\* Mutant: an assignment adds to what the variable held.
AddClosureFlowValue(env, v, lits) == [env EXCEPT ![v] = @ \cup lits]

\* An assignment replaces what the variable held.
setClosureFlowValue(env, v, lits) == [env EXCEPT ![v] = lits]

checkSourceCaseBlock(env, cases) ==
    Walked([v \in Vars |-> env[v] \cup UNION {c.env[v] : c \in cases}], UNION {c.errs : c \in cases})

\* block[m][env] is the walk from statement m to the end of its block.  The body
\* of a loop is walked once; the post statement works on the merged environment.
\* A result of several values, a jump, a select statement and a labeled one
\* leave the environment alone.
checkSourceStmt(s, n, env, block) ==
    CASE s.op = "set" ->
            Walked(setClosureFlowValue(env, s.var, sourceClosuresForExpr(s.val, env)), {})
      [] s.op \in Using -> Walked(env, ReportedAt(s, n, env))
      [] s.op = "block" -> block[s.body][env]
      [] s.op = "if" ->
            LET then == block[s.then][env]
                else == block[s.else][env]
            IN Walked(mergeClosureFlowEnv(then.env, else.env), then.errs \cup else.errs)
      [] s.op = "for" ->
            LET out  == block[s.body][env]
                post == block[s.post][mergeClosureFlowEnv(env, out.env)]
            IN Walked(post.env, out.errs \cup post.errs)
      [] s.op = "switch" -> checkSourceCaseBlock(env, {block[c][env] : c \in s.cases})
      [] OTHER -> Walked(env, {})

Step(s, n, env, block) ==
    LET w    == checkSourceStmt(s, n, env, block)
        rest == block[s.next][w.env]
    IN  Walked(rest.env, w.errs \cup rest.errs)

checkSourceBlock(b) ==
    LET block[n \in 0 .. Len(b)] ==
            [env \in Envs |-> IF n = 0 THEN Walked(env, {}) ELSE Step(b[n], n, env, block)]
    IN  block

checkSourceFuncBody(b) == checkSourceBlock(b)[Len(b)][NoClosures].errs

---------------------------------------------------------------------------
(* What can reach each place of use: all runs at once, with two turns of   *)
(* each loop.  A flow is the runs that go on, the ones that break or       *)
(* continue, and the values seen at the uses.                              *)

Flow(next, brk, cont, seen) == [next |-> next, brk |-> brk, cont |-> cont, seen |-> seen]

Value(e, h) == IF e \in Vars THEN h[e] ELSE e

FlowSum(F) ==
    Flow(UNION {f.next : f \in F}, UNION {f.brk : f \in F},
         UNION {f.cont : f \in F}, UNION {f.seen : f \in F})

\* One turn of a loop: the body, the post statement, the loop again.
Turn(s, H, flow) ==
    LET out == flow[s.body][H]
    IN [out EXCEPT !.next = flow[s.post][out.next \cup out.cont].next]

Seen(s, n, H) == {<<n, Value(s.val, h)>> : h \in H}

\* flow[m][H] is what becomes of the runs H from statement m to the end of its
\* block.
StmtFlow(s, n, H, flow) ==
    CASE s.op = "set"    -> Flow({[h EXCEPT ![s.var] = Value(s.val, h)] : h \in H}, {}, {}, {})
      [] s.op = "multi"  -> Flow({[h EXCEPT ![s.var] = Unknown] : h \in H}, {}, {}, {})
      [] s.op = "return" -> Flow({}, {}, {}, Seen(s, n, H))
      [] s.op \in {"store", "pass"} -> Flow(H, {}, {}, Seen(s, n, H))
      [] s.op = "break"    -> Flow({}, H, {}, {})
      [] s.op = "continue" -> Flow({}, {}, H, {})
      [] s.op \in {"block", "labeled"} -> flow[s.body][H]
      [] s.op = "if"       -> FlowSum({flow[s.then][H], flow[s.else][H]})
      [] s.op = "for" ->
            LET one == Turn(s, H, flow)
                two == Turn(s, one.next, flow)
                all == Turn(s, H \cup one.next \cup two.next, flow)
            IN Flow(H \cup all.next \cup all.brk, {}, {}, all.seen)
      [] s.op \in {"switch", "select"} ->
            LET all == FlowSum({flow[c][H] : c \in s.cases})
            IN [all EXCEPT !.next = @ \cup all.brk \cup (IF s.op = "switch" THEN H ELSE {}),
                           !.brk = {}]

FlowOn(s, n, H, flow) ==
    LET f    == StmtFlow(s, n, H, flow)
        rest == flow[s.next][f.next]
    IN  Flow(rest.next, f.brk \cup rest.brk, f.cont \cup rest.cont, f.seen \cup rest.seen)

BlockFlow(b) ==
    LET flow[n \in 0 .. Len(b)] ==
            [H \in SUBSET Holdings |->
                IF n = 0 THEN Flow(H, {}, {}, {}) ELSE FlowOn(b[n], n, H, flow)]
    IN  flow

Nothing == [v \in Vars |-> Unknown]

Reaching(b) == BlockFlow(b)[Len(b)][{Nothing}].seen

\* go/ssa keeps local variables in registers: a use sees the literal itself
\* if no other value reaches it, and a phi otherwise.  Returns and stores are
\* looked at, calls are not (checkFunction).
SSAUses(b) ==
    LET seen == Reaching(b)
    IN {u \in seen : u[2] \in Capturing /\ b[u[1]].op # "pass"
                     /\ \A w \in seen : w[1] = u[1] => w[2] = u[2]}

---------------------------------------------------------------------------
(* What is left to run: statements to run and, as jumps see them, the ends *)
(* of a loop's turn and of a switch; "again" is the head of a loop.        *)

Item(do, n) == [do |-> do, of |-> n]
Then(n, rest) == IF n = 0 THEN rest ELSE <<Item("run", n)>> \o rest

Init ==
    /\ body \in Functions
    /\ phase = "source"
    /\ reports = {} /\ escaped = {}
    /\ todo = Then(Len(body), <<>>)
    /\ holds = Nothing
    /\ unfollowed = FALSE

\* checkSourceClosures.
CheckSource ==
    /\ phase = "source"
    /\ reports' = checkSourceFuncBody(body)
    /\ phase' = "ssa"
    /\ UNCHANGED <<body, todo, holds, escaped, unfollowed>>

CheckSSA ==
    /\ phase = "ssa"
    /\ reports' = reports \cup SSAUses(body)
    /\ phase' = "run"
    /\ UNCHANGED <<body, todo, holds, escaped, unfollowed>>

---------------------------------------------------------------------------
(* The function runs.                                                      *)

Running(dos) == phase = "run" /\ todo # <<>> /\ Head(todo).do \in dos
Number   == Head(todo).of
Current  == body[Number]
At(ops)  == Running({"run"}) /\ Current.op \in ops
Rest     == Then(Current.next, Tail(todo))
checking == <<body, phase, reports>>

Assign ==
    /\ At(Assigning)
    /\ holds' = [holds EXCEPT ![Current.var] =
                    IF Current.op = "set" THEN Value(Current.val, holds) ELSE Unknown]
    /\ todo' = Rest
    /\ UNCHANGED <<checking, escaped, unfollowed>>

Use ==
    /\ At(Using)
    /\ escaped' = escaped \cup ({<<Number, Value(Current.val, holds)>>} \cap ({Number} \X Capturing))
    /\ todo' = IF Current.op = "return" THEN <<>> ELSE Rest
    /\ UNCHANGED <<checking, holds, unfollowed>>

Branch ==
    /\ At(Branching)
    /\ \/ Current.op \in {"if", "block", "labeled"} /\ \E c \in Blocks(Current) : todo' = Then(c, Rest)
       \/ Current.op \in {"switch", "select"} /\ \E c \in Current.cases :
             todo' = Then(c, <<Item("end", Number)>> \o Rest)
       \/ Current.op = "switch" /\ todo' = Rest
    /\ unfollowed' = (unfollowed \/ Current.op \in {"labeled", "select"})
    /\ UNCHANGED <<checking, holds, escaped>>

\* A loop is left at its head, or takes a turn.
Loop ==
    /\ Running({"run", "again"}) /\ Current.op = "for"
    /\ LET first == Head(todo).do = "run"
           rest  == IF first THEN Rest ELSE Tail(todo)
       IN \/ /\ todo' = rest
             /\ unfollowed' = (unfollowed \/ (first /\ Current.post # 0))
          \/ /\ todo' = Then(Current.body, <<Item("post", Number)>> \o rest)
             /\ unfollowed' = (unfollowed \/ ~first)
    /\ UNCHANGED <<checking, holds, escaped>>

EndTurn ==
    /\ Running({"post", "end"})
    /\ todo' = IF Head(todo).do = "end" THEN Tail(todo)
               ELSE Then(Current.post, <<Item("again", Number)>> \o Tail(todo))
    /\ UNCHANGED <<checking, holds, escaped, unfollowed>>

\* To the first marker of a kind; break goes past it.
Jump ==
    /\ At(Jumping)
    /\ LET left    == Current.op = "break"
           markers == IF left THEN {"post", "end"} ELSE {"post"}
       IN \E k \in DOMAIN todo :
             /\ todo[k].do \in markers /\ \A j \in 1 .. k - 1 : todo[j].do \notin markers
             /\ todo' = SubSeq(todo, IF left THEN k + 1 ELSE k, Len(todo))
    /\ unfollowed' = TRUE
    /\ UNCHANGED <<checking, holds, escaped>>

Next == CheckSource \/ CheckSSA \/ Assign \/ Use \/ Branch \/ Loop \/ EndTurn \/ Jump

Spec == Init /\ [][Next]_vars
---------------------------------------------------------------------------
(* What the check promises.                                                *)

\* Reports and escapes are of capturing literals; a variable holds a value.
TypeOK ==
    /\ phase \in {"source", "ssa", "run"}
    /\ holds \in Holdings
    /\ \A r \in reports \cup escaped : r[1] \in DOMAIN body /\ r[2] \in Capturing
    /\ unfollowed \in BOOLEAN

\* "A returned, stored, or untracked-call-passed closure cannot safely capture"
\* (docs/ssa-checker-architecture.md:844): on every path through branches,
\* switches and single turns of loops, a capturing literal that escapes has
\* been reported where it does.
EscapesReported == ~unfollowed => escaped \subseteq reports

\* "Branch joins merge only the closure values that can reach that program
\* point" (docs/ssa-checker-architecture.md:851): a report names a literal that
\* some path brings there.  Left out: code behind a jump or a return is walked
\* as if it could be reached, a post statement as if it ran without a turn of its
\* loop, and neither a result of several values nor what a labeled or a select
\* statement assigns is seen to replace what the variable held.
Straight(b) ==
    \A n \in DOMAIN b : /\ b[n].op \notin Jumping \cup {"multi", "labeled", "select"}
                        /\ b[n].op = "return" => n = 1
                        /\ b[n].op = "for" => b[n].post = 0

ReportsAreReal == phase = "run" /\ Straight(body) => reports \subseteq Reaching(body)

\* "Branch-possible escaping captures are still rejected"
\* (docs/ssa-checker-architecture.md:853): no run of the function lets a
\* capturing literal escape that is not reported.
AllEscapesReported == escaped \subseteq reports
=============================================================================
