------------------------------ MODULE Places ------------------------------
(***************************************************************************)
(* Ownerstamps and places, the two notions every checker of gown shares.   *)
(*                                                                         *)
(* An ownerstamp (Cap, ostamp.go) says what a pointer may be used for.  A  *)
(* place (places.go) is a variable followed by a path of field selections. *)
(* places.go writes the path of a PlaceKey as ".f.g" and compares string   *)
(* prefixes up to a dot; here the path is the sequence of its fields.      *)
(***************************************************************************)
EXTENDS SequencesExt

CONSTANTS Roots,      \* the variables of the checked function (types.Object)
          Fields,     \* the struct fields reachable from them
          Paths,      \* the field paths the function mentions
          RootCap,    \* ownerstamp declared for each variable
          FieldCap,   \* ownerstamp declared for each field
          Globals     \* the variables of package scope

Caps == {"iso", "mub", "rob", "imm", "untracked", "invalid"}

BorrowCaps == {"mub", "rob"}

ASSUME PathsAssumption == <<>> \in Paths /\ Paths \subseteq Seq(Fields)
ASSUME CapsAssumption  == /\ RootCap \in [Roots -> Caps]
                          /\ FieldCap \in [Fields -> Caps]
ASSUME GlobalsAssumption == Globals \subseteq Roots

Place == [root : Roots, path : Paths]

\* The zero Place of the code: an expression that names no variable.
NoPlace == [root |-> "nil", path |-> <<>>]

OptionalPlace == Place \cup {NoPlace}

ASSUME NoPlaceAssumption == "nil" \notin Roots

RootOf(p) == [root |-> p.root, path |-> <<>>]

capTracked(c) == c \notin {"invalid", "untracked"}

\* Two places overlap when they start at the same variable and one path
\* continues the other: x overlaps x.f, x.f and x.g do not.
Overlaps(p, q) ==
    /\ p.root = q.root
    /\ IsPrefix(p.path, q.path) \/ IsPrefix(q.path, p.path)

\* The ownerstamp seen through a field depends on the one of the owner.
adaptFieldOstamp(owner, field) ==
    CASE owner = "iso" -> IF capTracked(field) THEN field ELSE "untracked"
      [] owner = "mub" -> IF field = "iso" THEN "mub"
                          ELSE IF capTracked(field) THEN field ELSE "untracked"
      [] owner = "rob" -> "rob"
      [] owner = "imm" -> "imm"
      [] owner = "untracked" -> IF field \in {"rob", "imm"} THEN field
                                ELSE "untracked"
      [] owner = "invalid" -> "invalid"

EffectivePlaceCap(p) ==
    FoldLeft(adaptFieldOstamp, RootCap[p.root],
             [i \in DOMAIN p.path |-> FieldCap[p.path[i]]])

\* A place whose value may be given away: it is \iso itself, or it is a
\* projection that starts at an \iso variable or ends in an \iso field.
placeCanTransferAsIso(p) ==
    \/ EffectivePlaceCap(p) = "iso"
    \/ /\ p.path # <<>>
       /\ RootCap[p.root] = "iso" \/ FieldCap[Last(p.path)] = "iso"

\* What an explicit \mub or \rob borrow may be taken from.
namedBorrowSourceAllowed(cap, source) ==
    \/ EffectivePlaceCap(source) \in
          (IF cap = "mub" THEN {"iso", "mub"} ELSE {"iso", "mub", "rob", "imm"})
    \/ source.path # <<>> /\ RootCap[source.root] = "iso"

\* Stores into a field, an element or a package variable leave the function.
ssaStoreTargetEscapes(target, indexed) ==
    indexed \/ target.path # <<>> \/ target.root \in Globals

callBorrowsConflict(a, b) == a = "mub" \/ b = "mub"
=============================================================================
