----------------------------- MODULE MCMcpCall -----------------------------
(* A read, a write and a tool outside the tier; bodies of no bytes, at the cap
   and over it. *)
EXTENDS McpCall

MCToolsTried == {"doublegate.recall", "doublegate.remember", "doublegate.promote"}
MCReplySizes == {1, MaxBytes + 1, MaxBytes + 2}

=============================================================================
