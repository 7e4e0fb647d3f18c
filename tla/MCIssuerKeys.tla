---------------------------- MODULE MCIssuerKeys ----------------------------
(* Two threads and two keys, of which one has an algorithm the service does
   not take. *)
EXTENDS IssuerKeys

=============================================================================
