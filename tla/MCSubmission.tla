---------------------------- MODULE MCSubmission ----------------------------
(* Two senders; a small content and a large one the door, but not its senders,
   turns down for its size, as it does a long text that is no base64. *)
EXTENDS Submission

MCContents == {"small", "large"}
MCSizeOf == [c \in MCContents \cup {NoBytes} |-> IF c = "small" THEN 1 ELSE 2]

=============================================================================
