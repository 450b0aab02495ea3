--------------------------- MODULE NamedBorrows ---------------------------
(***************************************************************************)
(* Named borrows (ssa_named_borrow.go): local variables declared \mub or   *)
(* \rob that hold a borrow of another place, the table that says which     *)
(* place, and the points of the function where each of them is live.       *)
(*                                                                         *)
(* A body is a sequence of blocks; block 1 is the entry.  A block has its  *)
(* instructions and the indices of its successors.  An instruction is a    *)
(* record with the name of its operation in op.  The ones that matter here *)
(* are the source expressions that go/ssa records as DebugRef ("use"):     *)
(* the place named, and the borrow variables that the statement around the *)
(* expression binds to a source place.                                     *)
(***************************************************************************)
EXTENDS Places, Integers

Blocks(body) == DOMAIN body

Binds(instr) == IF instr.op = "use" THEN instr.binds ELSE {}

\* recordNamedBorrow: a \mub or \rob variable bound to a source that may be
\* borrowed that way.
RecordedBinds(instr) ==
    {d \in Binds(instr) : /\ RootCap[d.name] \in BorrowCaps
                          /\ d.source # NoPlace
                          /\ namedBorrowSourceAllowed(RootCap[d.name], d.source)}

\* One entry for each variable: a later binding overwrites an earlier one,
\* in source order, which is the order of the blocks here.
collectSSANamedBorrows(body) ==
    LET points == UNION {{<<b, i>> : i \in DOMAIN body[b].instrs} : b \in Blocks(body)}
        bound(n) == {p \in points :
                        \E d \in RecordedBinds(body[p[1]].instrs[p[2]]) : d.name = n}
        before(p, q) == p[1] < q[1] \/ (p[1] = q[1] /\ p[2] <= q[2])
        lastOf(n) == CHOOSE p \in bound(n) : \A q \in bound(n) : before(q, p)
        source(n) == LET p == lastOf(n)
                     IN (CHOOSE d \in RecordedBinds(body[p[1]].instrs[p[2]]) :
                            d.name = n).source
    IN [n \in {r \in Roots : bound(r) # {}} |->
           [source |-> source(n), cap |-> RootCap[n]]]

namedBorrowUses(table, instr) ==
    CASE instr.op = "use"   -> {instr.place.root} \cap DOMAIN table
      [] instr.op = "stage" -> {instr.value.place.root} \cap DOMAIN table
      [] OTHER              -> {}

namedBorrowDefs(instr) == {d.name : d \in RecordedBinds(instr)}

\* Some instruction of the sequence after position i reads n before any
\* instruction binds it.
UsedAfter(table, instrs, i, n) ==
    \E j \in DOMAIN instrs :
        /\ i < j
        /\ n \in namedBorrowUses(table, instrs[j])
        /\ \A k \in DOMAIN instrs : i < k /\ k < j => n \notin namedBorrowDefs(instrs[k])

BoundAfter(instrs, i, n) ==
    \E j \in DOMAIN instrs : i < j /\ n \in namedBorrowDefs(instrs[j])

\* The backward worklist starts from empty sets and stops at the least
\* fixed point: the blocks that belong to every set closed under its rule.
LiveIn(table, body, n) ==
    LET succs(b)  == {body[b].succs[k] : k \in DOMAIN body[b].succs}
        closed(S) == \A b \in Blocks(body) :
                        \/ b \in S
                        \/ /\ ~UsedAfter(table, body[b].instrs, 0, n)
                           /\ BoundAfter(body[b].instrs, 0, n) \/ succs(b) \cap S = {}
    IN {b \in Blocks(body) : \A S \in SUBSET Blocks(body) : closed(S) => b \in S}

LiveAfterInstruction(table, body, b, i) ==
    {n \in DOMAIN table :
        \/ UsedAfter(table, body[b].instrs, i, n)
        \/ /\ ~BoundAfter(body[b].instrs, i, n)
           /\ \E k \in DOMAIN body[b].succs :
                  body[b].succs[k] \in LiveIn(table, body, n)}
=============================================================================
