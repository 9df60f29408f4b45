------------------------------ MODULE MCProgram ------------------------------
(* The second version of the configuration moves the store to a file and   *)
(* switches the monitor off; the third moves the store back and slows the  *)
(* monitor down.                                                           *)
EXTENDS Program

Total(c) == FoldFunctionOnSet(LAMBDA a, b : a + b, 0, c, Sources)
MCStorePath(c) == IF Total(c) % 3 = 1 THEN "db" ELSE ""
MCPerfOf(c) == CASE Total(c) = 1 -> "off" [] Total(c) = 2 -> "slow" [] OTHER -> "on"
Sizes == [r \in Requests |-> IF r = "r1" THEN 1 ELSE 2]
=============================================================================
