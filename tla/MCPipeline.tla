---------------------------- MODULE MCPipeline ----------------------------
(***************************************************************************)
(* A package of two files, one read by the scanner and one by the          *)
(* toolchain, and what an editor may have open: neither of them, or each   *)
(* with a fault of its own.                                                *)
(***************************************************************************)
EXTENDS Pipeline

NothingOpen == [f \in Files |-> Saved]

MCOverlays ==
    {NothingOpen,
     [NothingOpen EXCEPT !["a"] = "checkReturns"],
     [f \in Files |-> CASE f = "a" -> "ok" [] f = "b" -> "type" [] OTHER -> Saved]}

===========================================================================
