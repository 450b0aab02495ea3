---------------------------- MODULE SourceIndex ----------------------------
(***************************************************************************)
(* What the checks on SSA know of the source: newSSAGWN001Checker builds   *)
(* the index of places, then the one of bindings, and asks both while it   *)
(* walks the instructions.                                                 *)
(***************************************************************************)
EXTENDS SSAPlaces, SSABindings

vars == <<placeVars, bindingVars>>

TypeOK == PlacesTypeOK /\ BindingsTypeOK

Init == PlacesInit /\ BindingsInit

Next ==
    \/ PlacesNext /\ UNCHANGED bindingVars
    \/ Placed /\ BindingsNext /\ UNCHANGED placeVars

Spec == Init /\ [][Next]_vars
=============================================================================
