---------------------------- MODULE SSABindings ----------------------------
(***************************************************************************)
(* Which stamped call of the source an SSA instruction is                  *)
(* (ssa_binding_positions.go).  The stamps are bound to call expressions   *)
(* and the checks work on instructions; the two meet at their positions.   *)
(* A binding is kept under the start of its call.  A call instruction is   *)
(* positioned at the opening parenthesis of its arguments, and a go or     *)
(* defer instruction at the keyword.                                       *)
(*                                                                         *)
(* A text is a sequence of calls in the order ast.Inspect sees them:       *)
(*   start, lparen, end   offsets: end is the first one behind the call    *)
(*   line                 of the start                                     *)
(*   keyword              the offset of go or defer, or 0                  *)
(*   stamp                "restore", "intrinsic", "call" or "none"         *)
(*   callee               the declared function, or "closure"              *)
(* and the sends among them are found by the position of the arrow, which  *)
(* both sides have.                                                        *)
(***************************************************************************)
EXTENDS FiniteSets, Naturals, Sequences

CONSTANTS Texts

Stamps == {"restore", "intrinsic", "call"}

\* Calls have an extent and lie apart or one inside the other; a go or defer
\* is in front of its call.
IsText(t) ==
    /\ Len(t) \in Nat /\ DOMAIN t = 1..Len(t)
    /\ \A c \in DOMAIN t :
          /\ {t[c].start, t[c].lparen, t[c].end, t[c].keyword} \subseteq Nat
          /\ t[c].keyword <= t[c].start /\ t[c].start < t[c].lparen /\ t[c].lparen < t[c].end
          /\ t[c].stamp \in Stamps \cup {"none"}
    /\ \A b, c \in DOMAIN t : b # c =>
          \/ t[b].end <= t[c].start \/ t[c].end <= t[b].start
          \/ t[b].start <= t[c].start /\ t[c].end <= t[b].end
          \/ t[c].start <= t[b].start /\ t[b].end <= t[c].end

ASSUME TextsAssumption == \A t \in Texts : IsText(t)

VARIABLES text,
          indexed,      \* the calls whose stamps are in the tables
          tables,       \* for each table, the call kept under each offset
          bound         \* for each instruction looked up, the call it got

bindingVars == <<text, indexed, tables, bound>>

Offsets == UNION {{t[c].start : c \in DOMAIN t} : t \in Texts}
Unbound == 0
Calls == DOMAIN text

Entry(kind) == {tables[kind][o] : o \in Offsets} \ {Unbound}

\* ssa.Call has the position of the parenthesis, ssa.Go and ssa.Defer that of
\* the keyword.
PosOf(c) == IF text[c].keyword = 0 THEN text[c].lparen ELSE text[c].keyword

\* Mutant: the text of a call reaches as far as the line does.
CoversLine(b, c) == text[b].line = text[c].line

\* Both ends count.
Covers(b, c) == text[b].start <= PosOf(c) /\ PosOf(c) <= text[b].end

\* The lookup of one table: the exact offset, or any call around it.
Found(kind, c) ==
    LET exact == IF PosOf(c) \in Offsets THEN {tables[kind][PosOf(c)]} \ {Unbound} ELSE {}
    IN  IF exact # {} THEN exact ELSE {b \in Entry(kind) : Covers(b, c)}

\* Restore, then Intrinsic, then Call (applyCallTransfer).
callCandidates(c) ==
    IF Found("restore", c) # {} THEN Found("restore", c)
    ELSE IF Found("intrinsic", c) # {} THEN Found("intrinsic", c)
    ELSE Found("call", c)

SameCallee(b, c) == text[c].callee \in {"closure", text[b].callee}

\* GoCall and DeferCall look for a stamped call that begins on the line of
\* the keyword and does not end before it.
callOnLine(c) ==
    {b \in Entry("call") : /\ text[b].line = text[c].line
                           /\ SameCallee(b, c)
                           /\ PosOf(c) <= text[b].end}

Candidates(c) == IF text[c].keyword = 0 THEN callCandidates(c) ELSE callOnLine(c)

---------------------------------------------------------------------------
BindingsTypeOK ==
    /\ indexed \in 0..Len(text)
    /\ tables \in [Stamps -> [Offsets -> Calls \cup {Unbound}]]
    /\ DOMAIN bound \subseteq Calls
    /\ \A c \in DOMAIN bound : bound[c] = Unbound \/ text[bound[c]].stamp # "none"

BindingsInit ==
    /\ text \in Texts
    /\ indexed = 0
    /\ tables = [k \in Stamps |-> [o \in Offsets |-> Unbound]]
    /\ bound = <<>>

\* callBindingsByPosition and its siblings: a later binding replaces an
\* earlier one that starts at the same offset.
IndexBinding ==
    /\ indexed < Len(text)
    /\ indexed' = indexed + 1
    /\ LET c == indexed + 1 IN
         tables' = IF text[c].stamp = "none" THEN tables
                   ELSE [tables EXCEPT ![text[c].stamp][text[c].start] = c]
    /\ UNCHANGED <<text, bound>>

\* Maps have no order: any of the candidates may be the one that is found.
BindInstruction(c) ==
    /\ indexed = Len(text)
    /\ c \notin DOMAIN bound
    /\ \E b \in (IF Candidates(c) = {} THEN {Unbound} ELSE Candidates(c)) :
          bound' = [d \in DOMAIN bound \cup {c} |-> IF d = c THEN b ELSE bound[d]]
    /\ UNCHANGED <<text, indexed, tables>>

BindingsNext == IndexBinding \/ \E c \in Calls : BindInstruction(c)

---------------------------------------------------------------------------
(* Properties.                                                             *)

Inside(c, b) == b # c /\ text[b].start <= text[c].start /\ text[c].end <= text[b].end

Touches(c, b) ==
    \/ Inside(c, b) \/ Inside(b, c)
    \/ text[c].keyword # 0 /\ text[b].line = text[c].line

\* A call with no other call around it, in it, or (behind go or defer) on its
\* line is found for what it is: the instruction gets the stamp written on
\* the call and none when there is none.  (SSABindingIndex.)
ApartBindsItsOwn ==
    \A c \in DOMAIN bound :
        (\A b \in Calls \ {c} : ~Touches(c, b)) =>
            bound[c] = IF text[c].stamp = "none" THEN Unbound
                       ELSE IF text[c].keyword # 0 /\ text[c].stamp # "call" THEN Unbound
                       ELSE c

\* An instruction is never taken for another call of the source.
OwnBinding == \A c \in DOMAIN bound : bound[c] \in {Unbound, c}
=============================================================================
