----------------------------- MODULE MCPageFault -----------------------------
(* Two threads of one process and one of another that has its mappings at    *)
(* the same addresses.                                                       *)
EXTENDS PageFault, TLC

CONSTANTS a, b, u, v, w

MCThread == {u, v, w}
MCProc == {a, b}
MCProcOf == [t \in MCThread |-> IF t = w THEN b ELSE a]
MCMapped == [p \in MCProc |-> "file"]
Request(op, lo, hi) == [op |-> op, lo |-> lo, hi |-> hi]
MCOps ==
    u :> {Request("touch", 3, 3), Request("read", 2, 3)}
    @@ v :> {Request("touch", 3, 3), Request("unmap", 2, 2), Request("unmap", 1, 2),
             Request("unmap", 3, 3), Request("anon", 3, 3)}
    @@ w :> {Request("touch", 3, 3)}
=============================================================================
