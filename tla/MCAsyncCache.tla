----------------------------- MODULE MCAsyncCache -----------------------------
(***************************************************************************)
(* Small instances of AsyncCache: r1 and r2 are tasks that make the same   *)
(* call, r3 calls another function with the same arguments, and r4 and r5  *)
(* the first function with others, those of r4 such that they cannot be    *)
(* encoded.                                                                *)
(***************************************************************************)
EXTENDS AsyncCache, TLC

CONSTANTS r1, r2, r3, r4, r5

MCFunctionOf == [r \in Requests |-> IF r = r3 THEN "g" ELSE "f"]
MCArgsOf == [r \in Requests |-> CASE r = r4 -> "x" [] r = r5 -> "b" [] OTHER -> "a"]
MCAsked == [a \in Adapters |-> IF a = "memory" THEN {r1, r3, r4} ELSE {r1, r2, r5}]
MCMaxDepth == [a \in Adapters |-> IF a = "memory" THEN 2 ELSE 0]
=============================================================================
