----------------------- MODULE AnnotationPropagation -----------------------
(***************************************************************************)
(* Propagation of ownerstamps (annotation_transaction.go).  A package has  *)
(* sites where a stamp can stand (parameters, results, variables, fields,  *)
(* channel elements), and edges between sites whose stamps imply each      *)
(* other (arguments, results, assignments, sends).  gown -propagate writes *)
(* the stamp of each implied set of sites wherever it is missing, file by  *)
(* file, and then checks the package.  An editor changes one stamp and     *)
(* plans a transaction that changes the set.                               *)
(*                                                                         *)
(* A stamp stands before a type expression, and the sites of a, b *T share *)
(* theirs.  Of several stamps before one type the last one counts: the     *)
(* scanner attaches each of them to what follows it.                       *)
(***************************************************************************)
EXTENDS Naturals, Sequences, FiniteSets

CONSTANTS Sites, Exprs, SourceFiles,
          Packages,        \* the packages that are considered
          MaxRuns, MaxCrashes, MaxTransactions

Caps == {"iso", "mub", "rob", "imm"}
None == "untracked"

IsPackage(p) ==
    /\ p.expr \in [Sites -> Exprs]               \* the type expression of a site
    /\ p.file \in [Exprs -> SourceFiles]
    /\ p.stamps \in [Exprs -> Seq(Caps)]         \* as the user wrote them
    /\ p.chan \subseteq Sites                    \* channel elements
    /\ p.edges \subseteq Sites \X Sites          \* as addEdge was called
    /\ p.plain \subseteq SourceFiles             \* Go files without a .gown source
    /\ p.comments \in BOOLEAN                    \* checked through the comment mirror

ASSUME PackagesAssumption == \A p \in Packages : IsPackage(p)

\* The sites of a package are those of its source.
ASSUME SitesAssumption == IsFiniteSet(Sites)

ASSUME BoundsAssumption ==
    MaxRuns \in Nat /\ MaxCrashes \in Nat /\ MaxTransactions \in Nat

VARIABLES pkg,
          text,       \* the stamps in the files that are checked
          cut,        \* files that a crash left incomplete
          phase,
          unseen,     \* sites not yet in a component
          edits,      \* planned insertions: type expression and stamp
          conflict,   \* some component has no stamp to propagate
          left,       \* files yet to be written
          base,       \* what the user wrote, with the transactions made since
          runs, crashes, transactions

vars == <<pkg, text, cut, phase, unseen, edits, conflict, left, base,
          runs, crashes, transactions>>
plan == <<unseen, edits, conflict, left>>
---------------------------------------------------------------------------
(* The graph and its components.                                           *)

\* newSite: the annotation of a site is the one that binds to its type.
CapIn(t, s) ==
    LET seq == t[pkg.expr[s]] IN IF seq = <<>> THEN None ELSE seq[Len(seq)]

\* Mutant: an edge is followed in one direction only.
OneWay(s) == {t \in Sites : t # s /\ <<s, t>> \in pkg.edges}

\* addEdge records an edge at both ends, and none from a site to itself.
Neighbours(s) ==
    {t \in Sites : t # s /\ (<<s, t>> \in pkg.edges \/ <<t, s>> \in pkg.edges)}

\* connectedComponent: what the queue reaches, at most one edge farther in
\* each round.
Reach(s) ==
    LET near[n \in Nat] ==
            IF n = 0 THEN {s} ELSE near[n - 1] \cup UNION {Neighbours(t) : t \in near[n - 1]}
    IN  near

Component(s) == Reach(s)[Cardinality(Sites)]

StampsIn(t, C) == {CapIn(t, s) : s \in C} \ {None}

\* A channel element is \iso or \imm.
Refused(s, c) == s \in pkg.chan /\ c \notin {"iso", "imm"}

\* componentOstamp finds two stamps, or a channel element refuses the one.
Conflicts(t, C) ==
    \/ Cardinality(StampsIn(t, C)) > 1
    \/ \E c \in StampsIn(t, C), s \in C : CapIn(t, s) # c /\ Refused(s, c)

\* planForcedPropagation: the sites of a component that are stamped, and how.
Planned(t, C) ==
    {r \in C \X StampsIn(t, C) : CapIn(t, r[1]) # r[2] /\ ~Refused(r[1], r[2])}

\* Mutant: sites that have the stamp get it once more.
EditsOfAll(t, C) ==
    IF Cardinality(StampsIn(t, C)) # 1 THEN {}
    ELSE {<<pkg.expr[s], c>> : s \in C, c \in StampsIn(t, C)}

\* Mutant: a component without a stamp is not passed over.
EditsOfAny(t, C) ==
    IF StampsIn(t, C) = {} THEN {<<pkg.expr[s], None>> : s \in C}
    ELSE {<<pkg.expr[r[1]], r[2]>> : r \in Planned(t, C)}

\* A component without a stamp, or with two of them, is passed over.  Sites
\* that share a type share the edit.
ComponentEdits(t, C) ==
    IF Cardinality(StampsIn(t, C)) # 1 THEN {}
    ELSE {<<pkg.expr[r[1]], r[2]>> : r \in Planned(t, C)}
---------------------------------------------------------------------------
(* The command: gown -propagate.                                           *)

Init ==
    /\ pkg \in Packages
    /\ text = pkg.stamps /\ base = pkg.stamps
    /\ cut = {} /\ phase = "idle"
    /\ unseen = {} /\ edits = {} /\ conflict = FALSE /\ left = {}
    /\ runs = 0 /\ crashes = 0 /\ transactions = 0

\* The comment mirror is made again from the comments at each analysis.
Refreshed == IF pkg.comments THEN base ELSE text

\* An incomplete file is refused; the mirror replaces it.
Analyze ==
    /\ phase = "idle" /\ runs < MaxRuns
    /\ pkg.comments \/ cut = {}
    /\ runs' = runs + 1
    /\ text' = Refreshed /\ cut' = {}
    /\ phase' = "plan" /\ unseen' = Sites
    /\ UNCHANGED <<pkg, edits, conflict, left, base, crashes, transactions>>

\* The next component, in the order of a Go map.
PlanComponent ==
    /\ phase = "plan"
    /\ \E s \in unseen :
          /\ unseen' = unseen \ Component(s)
          /\ edits' = edits \cup ComponentEdits(text, Component(s))
          /\ conflict' = (conflict \/ Conflicts(text, Component(s)))
    /\ UNCHANGED <<pkg, text, cut, phase, left, base, runs, crashes, transactions>>

\* With a conflict nothing is written.
EndPlan ==
    /\ phase = "plan" /\ unseen = {}
    /\ phase' = IF conflict THEN "failed" ELSE "write"
    /\ left' = {pkg.file[e[1]] : e \in edits}
    /\ UNCHANGED <<pkg, text, cut, unseen, edits, conflict, base,
                   runs, crashes, transactions>>

NewStamps(e) == {c \in Caps : <<e, c>> \in edits}

\* The orders of a set: equal offsets keep the order of a Go map.
Orders(S) ==
    {q \in [1 .. Cardinality(S) -> S] : \A i, j \in DOMAIN q : q[i] = q[j] => i = j}

TypesIn(f) == {e \in Exprs : pkg.file[e] = f}

\* applyAnnotationEdits inserts at one place in front of what it inserted
\* there before.
Insert(f) ==
    \E q \in [TypesIn(f) -> UNION {Orders(NewStamps(e)) : e \in TypesIn(f)}] :
        /\ \A e \in TypesIn(f) : q[e] \in Orders(NewStamps(e))
        /\ text' = [e \in Exprs |-> IF e \in TypesIn(f) THEN q[e] \o text[e] ELSE text[e]]

\* Mutant: only one file is written.
WriteOneFile ==
    /\ phase = "write"
    /\ \E f \in left \ pkg.plain : Insert(f) /\ left' = {}
    /\ UNCHANGED <<pkg, cut, phase, unseen, edits, conflict, base,
                   runs, crashes, transactions>>

\* The files, in the order of a Go map.
WriteFile ==
    /\ phase = "write"
    /\ \E f \in left \ pkg.plain : Insert(f) /\ left' = left \ {f}
    /\ UNCHANGED <<pkg, cut, phase, unseen, edits, conflict, base,
                   runs, crashes, transactions>>

\* There is no .gown file to read for a plain Go file.
ReadFails ==
    /\ phase = "write" /\ left \cap pkg.plain # {}
    /\ phase' = "failed"
    /\ UNCHANGED <<pkg, text, cut, plan, base, runs, crashes, transactions>>

\* After the last file the package is analysed again and checked.
Check ==
    /\ phase = "write" /\ left = {}
    /\ text' = Refreshed
    /\ phase' = "checked"
    /\ UNCHANGED <<pkg, cut, plan, base, runs, crashes, transactions>>

Forget ==
    /\ phase' = "idle"
    /\ unseen' = {} /\ edits' = {} /\ conflict' = FALSE /\ left' = {}

Leave ==
    /\ phase \in {"failed", "checked"}
    /\ Forget
    /\ UNCHANGED <<pkg, text, cut, base, runs, crashes, transactions>>

\* The command is killed between two files, or in the middle of one.
Crash ==
    /\ phase = "write" /\ crashes < MaxCrashes
    /\ crashes' = crashes + 1
    /\ cut' = {} \/ \E f \in left \ pkg.plain : cut' = {f}
    /\ Forget
    /\ UNCHANGED <<pkg, text, base, runs, transactions>>
---------------------------------------------------------------------------
(* The editor: PlanAnnotationTransaction.                                  *)

\* A stamp that stands before the type is replaced.
Stamped(seq, c) == IF seq = <<>> THEN <<c>> ELSE [seq EXCEPT ![Len(seq)] = c]

\* Mutant: only missing stamps are added, none is converted.
AddsOnly(t, s, c) ==
    {r \in Component(s) \ {s} : CapIn(t, r) = None /\ ~Refused(r, c)}

\* planAddOrConvert: the sites whose stamps follow that of the root.
Followers(t, s, c) ==
    {r \in Component(s) \ {s} : CapIn(t, r) # c /\ ~Refused(r, c)}

Transformed(t, s, c) ==
    [e \in Exprs |-> IF e = pkg.expr[s] \/ e \in {pkg.expr[r] : r \in Followers(t, s, c)}
                     THEN Stamped(t[e], c) ELSE t[e]]

\* The user adds or converts a stamp, and the editor applies the plan.
Transaction ==
    /\ phase = "idle" /\ transactions < MaxTransactions /\ cut = {} /\ ~pkg.comments
    /\ transactions' = transactions + 1
    /\ \E s \in Sites, c \in Caps :
          /\ CapIn(text, s) # c
          /\ text' = Transformed(text, s, c)
          /\ base' = Transformed(base, s, c)
    /\ UNCHANGED <<pkg, cut, phase, plan, runs, crashes>>

Next == Analyze \/ PlanComponent \/ EndPlan \/ WriteFile \/ ReadFails \/ Check
        \/ Leave \/ Crash \/ Transaction

Spec == Init /\ [][Next]_vars
---------------------------------------------------------------------------
(* What propagation promises.                                              *)

\* The phases, the stamps of a text and the plan are as they should be; only
\* stamps are inserted.
TypeOK ==
    /\ IsPackage(pkg)
    /\ text \in [Exprs -> Seq(Caps)] /\ base \in [Exprs -> Seq(Caps)]
    /\ cut \subseteq SourceFiles /\ left \subseteq SourceFiles
    /\ phase \in {"idle", "plan", "write", "checked", "failed"}
    /\ unseen \subseteq Sites
    /\ edits \subseteq Exprs \X Caps /\ conflict \in BOOLEAN
    /\ runs \in 0 .. MaxRuns /\ crashes \in 0 .. MaxCrashes
    /\ transactions \in 0 .. MaxTransactions

\* The implied set of a site, apart from how connectedComponent finds it: what
\* every set of sites has in common that holds s and with a site all those its
\* edges join it to.
Closed(C) == \A e \in pkg.edges : e[1] \in C <=> e[2] \in C
ImpliedSet(s) == {t \in Sites : \A C \in SUBSET Sites : s \in C /\ Closed(C) => t \in C}

\* What the sites of one type expression imply for it.
Implied(t, e) ==
    UNION {{c \in StampsIn(t, ImpliedSet(s)) : CapIn(t, s) # c} :
              s \in {r \in Sites : pkg.expr[r] = e}}

\* Whatever the order of the components, the plan stamps each type with what
\* the implied sets of its sites ask for (planForcedPropagation).
PlanIsImplied ==
    phase = "plan" /\ unseen = {} /\ ~conflict =>
        edits = {r \in Exprs \X Caps : r[2] \in Implied(text, r[1])}

\* A run that completes leaves no stamp to be implied: the check sees an
\* annotated package.  "force-propagate implied ownerstamps before checking"
\* (cmd/gown/gown.go:22).
ImpliedBeforeCheck == phase = "checked" => \A e \in Exprs : Implied(text, e) = {}

\* What crashes and transactions left in between, a completed run ends with
\* what one run would have made of the text of the user: no stamp is missing
\* and none is written twice.
RerunConverges ==
    phase = "checked" =>
        \A e \in Exprs :
            \/ Implied(base, e) = {} /\ text[e] = base[e]
            \/ \E c \in Implied(base, e) : Implied(base, e) = {c} /\ text[e] = <<c>> \o base[e]

\* Two stamps in one implied set.  One with a channel element is left out: a
\* transaction tells the user of the element, and leaves it as it is.
Contradiction(t) ==
    \E s \in Sites : /\ ImpliedSet(s) \cap pkg.chan = {}
                     /\ Cardinality(StampsIn(t, ImpliedSet(s))) > 1

\* Neither a propagation that stops halfway nor a transaction on what it left
\* makes the stamps contradict each other.
NoContradictionMade ==
    [][~Contradiction(text) => ~Contradiction(text)']_vars
=============================================================================
