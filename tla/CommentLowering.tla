-------------------------- MODULE CommentLowering --------------------------
(***************************************************************************)
(* Comment mode reads ordinary Go whose ownerstamps are //gown: comments.  *)
(* comment_lower.go turns each comment, in file order, into edits of the   *)
(* source, applyEmitEdits (emit.go) applies them from the last one to the  *)
(* first, and comment_mirror.go translates the place of a diagnostic in    *)
(* the lowered text back to the source.  The first error ends it all.      *)
(*                                                                         *)
(* A file is a record:                                                     *)
(*   size      its length; offsets count from 0                            *)
(*   slots     the comments it has room for, in file order: start, end,    *)
(*             line, and whether code precedes them on the line            *)
(*   fields, specs, assigns, pairs, results, funcs                         *)
(*             the nodes comments can be about: start, end and their lines;*)
(*             typ and elem (fields and specs: where the type starts and,  *)
(*             for a channel, its element type), rhs (assignments, pairs   *)
(*             of composite literals, returned expressions) and body       *)
(*             (functions: where the signature ends)                       *)
(* An expression has a form, a start and an end: "chan" (a channel that is *)
(* made, elem its element type), "literal" (&T{...}), "made" (other        *)
(* creations), "clone" (x.clone()), "iife" (a function literal that is     *)
(* called, param and result where their types start), "swap" (b, a) or     *)
(* "other".                                                                *)
(***************************************************************************)
EXTENDS Integers, FiniteSets, FiniteSetsExt, SequencesExt

CONSTANTS Files,            \* the files to lower
          Bodies,           \* what a comment can say: sequences of commands
          MaxDirectives     \* bound: comments in a file that are directives

None == -1

Spans(n, size) == n.start \in 0 .. size /\ n.end \in 0 .. size /\ n.start < n.end
Position(p, size) == p = None \/ p \in 0 .. size

IsType(n, size) == Spans(n, size) /\ Position(n.typ, size) /\ Position(n.elem, size)
IsExpr(e, size) ==
    /\ Spans(e, size)
    /\ e.form = "chan" => e.elem \in 0 .. size
    /\ e.form = "iife" => Position(e.param, size) /\ Position(e.result, size)

IsFile(f) ==
    /\ f.size \in Nat
    /\ \A s \in DOMAIN f.slots : Spans(f.slots[s], f.size) /\ f.slots[s].line \in Nat
    /\ \A n \in f.fields \cup f.specs : IsType(n, f.size)
    /\ \A n \in f.assigns : /\ Spans(n, f.size) /\ IsExpr(n.rhs, f.size)
                            /\ n.line \in Nat /\ n.endLine \in Nat
    /\ \A n \in f.pairs \cup f.results : Spans(n, f.size) /\ IsExpr(n.rhs, f.size)
    /\ \A n \in f.funcs : Spans(n, f.size) /\ n.body \in n.start + 1 .. f.size

(* Where a file's types start, and its comments, functions, statements and *)
(* returned expressions.  A type is not the start of anything that can be  *)
(* replaced; a right-hand side belongs to one assignment, and a function   *)
(* that is called there is the start of nothing else (Go's syntax).  A     *)
(* comment ends its line.                                                  *)
TypePlaces(f) ==
    (UNION {{n.typ, n.elem} : n \in f.fields \cup f.specs})
    \cup {n.rhs.elem : n \in {m \in f.assigns \cup f.pairs : m.rhs.form = "chan"}}
    \cup (UNION {{n.rhs.param, n.rhs.result} : n \in {m \in f.assigns : m.rhs.form = "iife"}})

NodeStarts(f) ==
    {n.start : n \in ToSet(f.slots) \cup f.funcs \cup f.assigns} \cup {n.rhs.start : n \in f.results}

IsParsed(f) ==
    /\ \A i, j \in DOMAIN f.slots : i < j => f.slots[i].line < f.slots[j].line
    /\ \A n \in f.assigns : n.line <= n.endLine
    /\ \A m, n \in f.assigns : m.rhs.start = n.rhs.start => m = n
    /\ \A n \in f.assigns : n.rhs.form = "iife" => n.rhs.start \notin NodeStarts(f)
    /\ TypePlaces(f) \cap (NodeStarts(f) \cup {n.rhs.start : n \in f.assigns}) = {}

ASSUME FilesAssumption == \A f \in Files : IsFile(f) /\ IsParsed(f)
ASSUME BodiesAssumption == Bodies \subseteq Seq(STRING)

VARIABLES file, phase,
          directives,   \* the directives lowered so far: slot and body
          edits,        \* the edits they asked for
          applied,      \* how many edits are in the text already
          lastStart,    \* where the last applied one starts
          out           \* the text: bytes of the source and of edits

vars == <<file, phase, directives, edits, applied, lastStart, out>>

\* iso stands for \imm as well, mub for \rob.
CapWords == {"iso", "mub"}

---------------------------------------------------------------------------
(* From a comment to edits.  A lowering is a sequence of edits, or Error.  *)

Error == <<[start |-> None, end |-> None, len |-> 0]>>
Insert(at) == [start |-> at, end |-> at, len |-> 2]
\* The new text of a replacement is longer or shorter than the old one.
Longer(n) == [start |-> n.start, end |-> n.end, len |-> n.end - n.start + 2]
Shorter(n) == [start |-> n.start, end |-> n.end, len |-> n.end - n.start - 1]

\* The edits of a list of commands, each of them an edit or nothing it knows.
Each(commands, Lower(_)) ==
    IF \E i \in DOMAIN commands : Lower(commands[i]) = Error THEN Error
    ELSE FlattenSeq([i \in DOMAIN commands |-> Lower(commands[i])])

\* Mutant: the type need not be a channel's to have an element type.
InsertAnywhere(at) == <<Insert(at)>>

insertDirectCap(at) == IF at = None THEN Error ELSE <<Insert(at)>>

applyTypeCommands(body, node) ==
    IF node.typ = None THEN Error
    ELSE Each(body, LAMBDA c : CASE c \in CapWords -> insertDirectCap(node.typ)
                                 [] c = "elem"     -> insertDirectCap(node.elem)
                                 [] OTHER          -> Error)

lowerMakeChannelElemCapExpr(e) == IF e.form = "chan" THEN <<Insert(e.elem)>> ELSE Error
lowerNewExpr(e) == IF e.form = "literal" THEN <<Longer(e)>> ELSE Error

lowerCreationObjectCap(assign) ==
    IF assign.define /\ assign.rhs.form \in {"literal", "made"} THEN <<Longer(assign)>>
    ELSE Error

\* a, b = b, a has two right-hand sides; every other command wants one.
wrapSingleRHS(assign) == IF assign.rhs.form = "swap" THEN Error ELSE <<Longer(assign.rhs)>>
lowerCloneDirective(assign) == IF assign.rhs.form = "clone" THEN <<Shorter(assign.rhs)>> ELSE Error
lowerSwapDirective(assign) == IF assign.rhs.form = "swap" THEN <<Shorter(assign)>> ELSE Error

lowerCap(assign) == IF assign.rhs.form = "chan" THEN lowerMakeChannelElemCapExpr(assign.rhs)
                    ELSE lowerCreationObjectCap(assign)

applyAssignDirective(body, assign) ==
    CASE body = <<"new">>    -> lowerNewExpr(assign.rhs)
      [] body = <<"iso">>    -> lowerCap(assign)
      [] body = <<"elem">>   -> lowerMakeChannelElemCapExpr(assign.rhs)
      [] body = <<"mub">>    -> wrapSingleRHS(assign)
      [] body = <<"freeze">> -> wrapSingleRHS(assign)
      [] body = <<"clone">>  -> lowerCloneDirective(assign)
      [] body = <<"swap">>   -> lowerSwapDirective(assign)
      [] OTHER               -> Error

applyKeyValueDirective(body, pair) ==
    IF body \in {<<"iso">>, <<"elem">>} THEN lowerMakeChannelElemCapExpr(pair.rhs) ELSE Error

applyReturnExprDirective(body, result) ==
    Each(body, LAMBDA c : IF c = "new" THEN lowerNewExpr(result.rhs) ELSE Error)

\* Of several targets the one that starts last, or first, is taken; of several
\* results the one that ends last.
LastStarted(nodes) == CHOOSE n \in nodes : \A m \in nodes : m.start <= n.start
LastEnded(nodes) == CHOOSE n \in nodes : \A m \in nodes : m.end <= n.end
FirstStarted(nodes) == CHOOSE n \in nodes : \A m \in nodes : n.start <= m.start
EndingOn(nodes, line) == {n \in nodes : n.endLine = line}
StartingOn(nodes, line) == {n \in nodes : n.line = line}

\* The kinds of target are tried in this order; the first that is there is taken.
applyTrailingDirective(f, slot, body) ==
    LET field == EndingOn(f.fields, slot.line)
        spec == EndingOn(f.specs, slot.line)
        assign == EndingOn(f.assigns, slot.line)
        pair == EndingOn(f.pairs, slot.line)
        result == {r \in EndingOn(f.results, slot.line) : r.end <= slot.start}
        opened == StartingOn(f.assigns, slot.line)
    IN  IF field # {} THEN applyTypeCommands(body, LastStarted(field))
        ELSE IF spec # {} THEN applyTypeCommands(body, LastStarted(spec))
        ELSE IF assign # {} THEN applyAssignDirective(body, LastStarted(assign))
        ELSE IF pair # {} THEN applyKeyValueDirective(body, LastStarted(pair))
        ELSE IF result # {} THEN applyReturnExprDirective(body, LastEnded(result))
        ELSE IF opened # {} THEN applyAssignDirective(body, FirstStarted(opened))
        ELSE Error

applyInlineFuncSignatureDirective(body, func) ==
    IF body = <<"signature">> THEN <<Shorter([start |-> func.start, end |-> func.body])>>
    ELSE Error

applyLeadingDirective(f, slot, body) ==
    LET func == StartingOn(f.funcs, slot.line + 1)
        field == StartingOn(f.fields, slot.line + 1)
        spec == StartingOn(f.specs, slot.line + 1)
        assign == StartingOn(f.assigns, slot.line + 1)
    IN  IF func # {} THEN applyInlineFuncSignatureDirective(body, FirstStarted(func))
        ELSE IF field # {} THEN applyTypeCommands(body, FirstStarted(field))
        ELSE IF spec # {} THEN applyTypeCommands(body, FirstStarted(spec))
        ELSE IF assign # {} THEN applyAssignDirective(body, FirstStarted(assign))
        ELSE Error

restoreCap(iife, command) ==
    CASE command = "restore" -> <<>>
      [] command = "param"   -> insertDirectCap(iife.param)
      [] command = "result"  -> insertDirectCap(iife.result)
      [] OTHER               -> Error

\* The \restore is inserted once, however often the command is repeated.
applyRestoreDirective(f, slot, body) ==
    LET assign == StartingOn(f.assigns, slot.line + 1)
        iife == FirstStarted(assign).rhs
        caps == Each(body, LAMBDA c : restoreCap(iife, c))
    IN  IF assign = {} \/ iife.form # "iife" \/ caps = Error THEN Error
        ELSE <<Insert(iife.start)>> \o caps

applyDirective(f, slot, body) ==
    IF body = <<"observer">> THEN <<Shorter(slot)>>
    ELSE IF Contains(body, "restore") THEN applyRestoreDirective(f, slot, body)
    ELSE IF slot.trailing THEN applyTrailingDirective(f, slot, body)
    ELSE applyLeadingDirective(f, slot, body)

---------------------------------------------------------------------------
(* From edits to the text.                                                 *)

ToSource(p) == [edit |-> 0, at |-> p]
NewText(k) == [j \in 1 .. edits[k].len |-> [edit |-> k, at |-> j]]

\* sort.SliceStable: the n-th edit has n - 1 others before it, by sign * start.
SliceStable(sign) ==
    LET Before(j, k) == sign * edits[j].start < sign * edits[k].start
    IN  [n \in DOMAIN edits |->
            CHOOSE k \in DOMAIN edits :
                Cardinality({j \in DOMAIN edits : Before(j, k) \/ (j < k /\ ~Before(k, j))}) = n - 1]

Descending == SliceStable(-1)
Ascending == SliceStable(1)

\* Mutant: ends are compared with the end of the text only.
NotPastText(edit) == edit.end <= Len(out)

\* An edit may end where the one behind it starts, and not further.
Applicable(edit) == edit.end <= Len(out) /\ edit.end <= lastStart

Splice(k) == SubSeq(out, 1, edits[k].start) \o NewText(k) \o SubSeq(out, edits[k].end + 1, Len(out))

---------------------------------------------------------------------------
(* From a place in the lowered text back to the source.                    *)

Growth(k) == edits[k].len - (edits[k].end - edits[k].start)

\* What the edits in front of the n-th one added to the text.
Delta(order, n) ==
    LET delta[i \in 0 .. Len(order)] == IF i = 0 THEN 0 ELSE delta[i - 1] + Growth(order[i])
    IN  delta[n - 1]

\* Mutant: the growth of the edits in front is left out of the comparison.
OffsetWithoutGrowth(offset) ==
    LET order == Ascending
        Behind == {n \in DOMAIN order : offset < edits[order[n]].start + edits[order[n]].len}
        n == IF Behind = {} THEN Len(order) + 1 ELSE Min(Behind)
    IN  offset - Delta(order, n)

originalOffsetForGeneratedOffset(offset) ==
    LET order == Ascending
        Start(n) == edits[order[n]].start + Delta(order, n)
        Behind == {n \in DOMAIN order : offset < Start(n) + edits[order[n]].len}
        n == IF Behind = {} THEN Len(order) + 1 ELSE Min(Behind)
        edit == edits[order[n]]
    IN  IF Behind = {} \/ offset < Start(n) THEN offset - Delta(order, n)
        ELSE edit.start + Min({offset - Start(n), edit.end - edit.start})

---------------------------------------------------------------------------
Init == /\ file \in Files
        /\ phase = "lowering"
        /\ directives = <<>> /\ edits = <<>> /\ applied = 0
        /\ lastStart = file.size + 1
        /\ out = [i \in 1 .. file.size |-> ToSource(i - 1)]

\* The next comment in the file that is a directive is lowered.
LowerDirective ==
    /\ phase = "lowering" /\ Len(directives) < MaxDirectives
    /\ \E s \in DOMAIN file.slots, body \in Bodies :
          LET more == applyDirective(file, file.slots[s], body)
          IN  /\ \A d \in ToSet(directives) : d.slot < s
              /\ directives' = Append(directives, [slot |-> s, body |-> body])
              /\ phase' = IF more = Error THEN "error" ELSE phase
              /\ edits' = IF more = Error THEN edits ELSE edits \o more
    /\ UNCHANGED <<file, applied, lastStart, out>>

\* There is no further directive in the file.
StartEdits ==
    /\ phase = "lowering" /\ phase' = "editing"
    /\ UNCHANGED <<file, directives, edits, applied, lastStart, out>>

ApplyEdit ==
    /\ phase = "editing" /\ applied < Len(edits)
    /\ LET k == Descending[applied + 1]
       IN  IF Applicable(edits[k])
           THEN /\ out' = Splice(k) /\ lastStart' = edits[k].start /\ applied' = applied + 1
                /\ UNCHANGED phase
           ELSE /\ phase' = "error"
                /\ UNCHANGED <<out, lastStart, applied>>
    /\ UNCHANGED <<file, directives, edits>>

Finish ==
    /\ phase = "editing" /\ applied = Len(edits) /\ phase' = "lowered"
    /\ UNCHANGED <<file, directives, edits, applied, lastStart, out>>

Next == LowerDirective \/ StartEdits \/ ApplyEdit \/ Finish

Spec == Init /\ [][Next]_vars

---------------------------------------------------------------------------
(* Every edit is a range of the file; the text holds bytes of the file and *)
(* of the edits that are in it already (CommentLoweringResult).            *)
TypeOK ==
    /\ phase \in {"lowering", "editing", "lowered", "error"}
    /\ applied \in 0 .. Len(edits) /\ lastStart \in 0 .. file.size + 1
    /\ \A d \in ToSet(directives) : d.slot \in DOMAIN file.slots /\ d.body \in Bodies
    /\ \A e \in ToSet(edits) : 0 <= e.start /\ e.start <= e.end /\ e.end <= file.size /\ e.len >= 0
    /\ \A b \in ToSet(out) : IF b.edit = 0 THEN b.at \in 0 .. file.size - 1
                             ELSE b.edit \in DOMAIN edits /\ b.at \in 1 .. edits[b.edit].len

Bytes == DOMAIN out
IsNew(i) == out[i].edit # 0
Replaced(p) == \E e \in ToSet(edits) : e.start <= p /\ p < e.end

(* Applying the edits one after the other, to a text that each of them     *)
(* changes, gives what all of them together mean: a byte of the source is  *)
(* there once, unless an edit replaces it; the new text of each edit is    *)
(* there once and in one piece, behind every byte in front of its range    *)
(* and in front of every byte behind it (applyEmitEdits).                  *)
EditsAreSimultaneous ==
    phase = "lowered" =>
        /\ {out[i].at : i \in {j \in Bytes : ~IsNew(j)}} = {p \in 0 .. file.size - 1 : ~Replaced(p)}
        /\ \A i, j \in Bytes : i < j /\ ~IsNew(i) /\ ~IsNew(j) => out[i].at < out[j].at
        /\ \A k \in DOMAIN edits :
              LET piece == {i \in Bytes : out[i].edit = k}
              IN  \E first \in 1 .. Len(out) + 1 :
                     /\ piece = first .. first + edits[k].len - 1
                     /\ \A i \in piece : out[i].at = i - first + 1
                     /\ \A i \in Bytes : ~IsNew(i) => ((i < first) <=> (out[i].at < edits[k].start))

(* A diagnostic about the lowered text is shown where the source has the   *)
(* same text: a byte that no edit touches maps to itself, a byte of an     *)
(* edit into the range the edit stands for, and the end to the end         *)
(* (originalOffsetForGeneratedOffset).                                     *)
PlacesMapBack ==
    phase = "lowered" =>
        /\ \A i \in Bytes :
              LET p == originalOffsetForGeneratedOffset(i - 1)
              IN  IF IsNew(i) THEN edits[out[i].edit].start <= p /\ p <= edits[out[i].edit].end
                  ELSE p = out[i].at
        /\ originalOffsetForGeneratedOffset(Len(out)) = file.size
=============================================================================
