-------------------------------- MODULE Reads --------------------------------
(***************************************************************************)
(* knowledge.KnowledgeClient.wait_for, which polls a row of the gate until *)
(* it is in a wanted state, or until a deadline.                           *)
(***************************************************************************)
EXTENDS Naturals

CONSTANTS
    Timeout,     \* timeout ...
    Interval,    \* ... and interval, in ticks
    CallTime     \* bound: the ticks one status call takes

ASSUME ReadsAssumption ==
    /\ {Timeout, CallTime} \subseteq Nat
    /\ Interval \in Nat \ {0}

VARIABLES
    poll,  \* one call of wait_for
    row    \* the row it waits for: in a wanted state or not, and since when

readsVars == <<poll, row>>

-----------------------------------------------------------------------------
(* The clock counts from the call; wake is when a sleep ends or when the status
   call was sent, wanted what its answer says. *)
Polls ==
    [at : {"send", "asked", "back", "sleep", "reached", "not_reached", "error"},
     clock : 0..(Timeout + CallTime), wake : 0..(Timeout + CallTime), wanted : BOOLEAN]

ReadsInit ==
    /\ poll = [at |-> "send", clock |-> 0, wake |-> 0, wanted |-> FALSE]
    /\ row \in [wanted : BOOLEAN, since : {0}]

(* The gate answers at some time within the call, the client has it later. *)
Send ==
    /\ poll.at = "send"
    /\ poll' = [poll EXCEPT !.at = "asked", !.wake = poll.clock]
    /\ UNCHANGED row

GateReads ==
    /\ poll.at = "asked"
    /\ poll' = [poll EXCEPT !.at = "back", !.wanted = row.wanted]
    /\ UNCHANGED row

Fails ==
    /\ poll.at = "asked"
    /\ poll' = [poll EXCEPT !.at = "error"]
    /\ UNCHANGED row

(* Faulty: no sleep that would end after the deadline, and no last look. *)
OverEarly == poll.clock + Interval >= Timeout

Over == poll.clock >= Timeout

(* Faulty: the last sleep is not cut off at the deadline. *)
NapWhole == Interval

Nap == IF Interval < Timeout - poll.clock THEN Interval ELSE Timeout - poll.clock

Look ==
    /\ poll.at = "back"
    /\ poll' = IF poll.wanted THEN [poll EXCEPT !.at = "reached"]
               ELSE IF Over THEN [poll EXCEPT !.at = "not_reached"]
               ELSE [poll EXCEPT !.at = "sleep", !.wake = poll.clock + Nap]
    /\ UNCHANGED row

Wake ==
    /\ poll.at = "sleep"
    /\ poll.clock >= poll.wake
    /\ poll' = [poll EXCEPT !.at = "send"]
    /\ UNCHANGED row

(* Time passes in a sleep and in a status call. *)
WaitTicks ==
    /\ \/ poll.at = "sleep" /\ poll.clock < poll.wake
       \/ poll.at \in {"asked", "back"} /\ poll.clock < poll.wake + CallTime
    /\ poll' = [poll EXCEPT !.clock = poll.clock + 1]
    /\ UNCHANGED row

RowMoves ==
    /\ poll.at \in {"asked", "back", "sleep"}
    /\ row' = [wanted |-> ~row.wanted, since |-> poll.clock]
    /\ UNCHANGED poll

wait_for == Send \/ GateReads \/ Fails \/ Look \/ Wake

ReadsNext == wait_for \/ WaitTicks \/ RowMoves

ReadsSpec == ReadsInit /\ [][ReadsNext]_readsVars

-----------------------------------------------------------------------------
ReadsTypeOK ==
    /\ poll \in Polls
    /\ row \in [wanted : BOOLEAN, since : 0..(Timeout + CallTime)]

(* A row that got to a wanted state, and stayed there, is reported as reached if
   it got there earlier than one status call before the deadline: wait_for
   looks once more after its last sleep, and that look is at the deadline. *)
ReachedIsReported ==
    poll.at = "not_reached" /\ row.wanted => row.since + CallTime >= Timeout

=============================================================================
