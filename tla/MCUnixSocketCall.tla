-------------------------- MODULE MCUnixSocketCall --------------------------
(* One verb of each class of the table, one unknown to it; a cap of three
   bytes with replies under, at, just over and well over it. *)
EXTENDS UnixSocketCall

MCVerbsTried ==
    {"dg.recall", "dg.ingest", "dg.promote", "dg.settings_validate", "dg.nonesuch"}
MCReplySizes == {1, MaxBytes, MaxBytes + 1, MaxBytes + 2}

=============================================================================
