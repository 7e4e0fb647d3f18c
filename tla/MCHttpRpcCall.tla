--------------------------- MODULE MCHttpRpcCall ---------------------------
(* A read, a write, a decision and an unknown verb over TLS to a host with two
   addresses; bodies of no bytes, at the cap and over it. *)
EXTENDS HttpRpcCall

MCVerbsTried == {"dg.recall", "dg.ingest", "dg.promote", "dg.nonesuch"}
MCReplySizes == {1, MaxBytes + 1, MaxBytes + 2, MaxBytes + 3}

=============================================================================
