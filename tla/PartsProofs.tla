---------------------------- MODULE PartsProofs -----------------------------
(* Proofs about the parts that MCParts runs side by side, for every value of their
   constants: those of the SDK that call no gate, the reads and the verbs of its
   clients, and the programs beside it; at the end, what follows for all of them
   together. *)
EXTENDS MCParts, CanonicalProofs

-----------------------------------------------------------------------------
(* Folds over data of any length. *)

(* A bounded set of numbers has a greatest one, and Max is it. *)
LEMMA MaxOfSome ==
    ASSUME NEW n \in Nat, NEW s \in SUBSET (1..n), s # {}
    PROVE  Max(s) \in s /\ \A x \in s : x <= Max(s)
<1> DEFINE Greatest(t, x) == x \in t /\ \A y \in t : x >= y
           T == {m \in Nat : \A t \in SUBSET (1..m) : t # {} => \E x : Greatest(t, x)}
<1>1. 0 \in T
    OBVIOUS
<1>2. ASSUME NEW m \in Nat, m \in T PROVE m + 1 \in T
    <2> SUFFICES ASSUME NEW t \in SUBSET (1..(m + 1)), t # {} PROVE \E x : Greatest(t, x)
        OBVIOUS
    <2>1. CASE m + 1 \in t
        <3>1. Greatest(t, m + 1)
            BY <2>1
        <3> QED
            BY <3>1
    <2>2. CASE m + 1 \notin t
        <3>1. t \in SUBSET (1..m)
            BY <2>2
        <3> QED
            BY <1>2, <3>1
    <2> QED
        BY <2>1, <2>2
<1>3. n \in T
    <2> HIDE DEF T
    <2> QED
        BY <1>1, <1>2, EveryNumber
<1>4. PICK x : Greatest(s, x)
    BY <1>3
<1>5. Max(s) \in s /\ \A y \in s : Max(s) >= y
    BY <1>4 DEF Max
<1> QED
    BY <1>5

(* The recursion that a fold over n positions stands for has a solution, and any
   solution gives on the first k positions what k steps give, one after the other. *)
FoldEquation(h, n, base, step) ==
    h = [s \in SUBSET (1..n) |-> IF s = {} THEN base ELSE step[Max(s)][h[s \ {Max(s)}]]]

(* The fold of the positions 1..n, which the library states as the function that is
   its own recursion, exists: such a function for n makes one for n + 1. *)
LEMMA FoldExists ==
    ASSUME NEW n \in Nat, NEW R, NEW base \in R, NEW step \in [1..n -> [R -> R]]
    PROVE  \E h \in [SUBSET (1..n) -> R] : FoldEquation(h, n, base, step)
<1> DEFINE Solvable(m) == \E h \in [SUBSET (1..m) -> R] : FoldEquation(h, m, base, step)
           T == {m \in Nat : m <= n => Solvable(m)}
<1>1. Solvable(0)
    <2> DEFINE h == [s \in SUBSET (1..0) |-> base]
    <2>1. SUBSET (1..0) = {{}}
        OBVIOUS
    <2>2. h \in [SUBSET (1..0) -> R] /\ FoldEquation(h, 0, base, step)
        BY <2>1 DEF FoldEquation
    <2> QED
        BY <2>2
<1>2. ASSUME NEW m \in Nat, m + 1 <= n, Solvable(m) PROVE Solvable(m + 1)
    <2>1. PICK g \in [SUBSET (1..m) -> R] : FoldEquation(g, m, base, step)
        BY <1>2
    <2> DEFINE h == [s \in SUBSET (1..(m + 1)) |->
                        IF m + 1 \in s THEN step[m + 1][g[s \ {m + 1}]] ELSE g[s]]
    <2>2. step[m + 1] \in [R -> R]
        <3>1. m + 1 \in 1..n
            BY <1>2
        <3> QED
            BY <3>1
    <2>3. ASSUME NEW s \in SUBSET (1..(m + 1))
          PROVE  /\ h[s] \in R
                 /\ h[s] = IF s = {} THEN base ELSE step[Max(s)][h[s \ {Max(s)}]]
        <3>1. CASE m + 1 \in s
            <4>1. Max(s) = m + 1
                <5>1. m + 1 \in Nat /\ s # {}
                    BY <3>1
                <5>2. Max(s) \in s /\ m + 1 <= Max(s)
                    BY <3>1, <5>1, MaxOfSome
                <5>3. Max(s) \in 1..(m + 1)
                    BY <5>2
                <5> QED
                    BY <5>2, <5>3
            <4>2. m + 1 \notin s \ {m + 1} /\ s \ {m + 1} \in SUBSET (1..m)
                OBVIOUS
            <4>3. h[s \ {m + 1}] = g[s \ {m + 1}]
                BY <4>2
            <4> QED
                BY <2>2, <3>1, <4>1, <4>2, <4>3
        <3>2. CASE m + 1 \notin s
            <4>1. s \in SUBSET (1..m) /\ h[s] = g[s]
                BY <3>2
            <4>2. g[s] = IF s = {} THEN base ELSE step[Max(s)][g[s \ {Max(s)}]]
                BY <2>1, <4>1 DEF FoldEquation
            <4>3. m + 1 \notin s \ {Max(s)} /\ s \ {Max(s)} \in SUBSET (1..m)
                BY <3>2, <4>1
            <4>4. h[s \ {Max(s)}] = g[s \ {Max(s)}]
                BY <4>3
            <4> QED
                BY <4>1, <4>2, <4>4
        <3> QED
            BY <3>1, <3>2
    <2>4. h \in [SUBSET (1..(m + 1)) -> R]
        BY <2>3
    <2>5. FoldEquation(h, m + 1, base, step)
        BY <2>3 DEF FoldEquation
    <2> QED
        BY <2>4, <2>5
<1> HIDE DEF Solvable
<1>3. 0 \in T /\ \A m \in Nat : m \in T => m + 1 \in T
    BY <1>1, <1>2
<1>4. n \in T
    <2> HIDE DEF T
    <2> QED
        BY <1>3, EveryNumber
<1>5. Solvable(n)
    BY <1>4
<1> QED
    BY <1>5 DEF Solvable

(* The first k positions: k is the last of them, and k - 1 are left without it. *)
LEMMA InitialPart ==
    ASSUME NEW n \in Nat, NEW k \in 1..n
    PROVE  1..k \in SUBSET (1..n) /\ 1..k # {} /\ Max(1..k) = k /\ (1..k) \ {k} = 1..(k - 1)
<1>1. 1..k \in SUBSET (1..n) /\ 1..k # {} /\ k \in 1..k /\ k \in Nat
    OBVIOUS
<1>2. Max(1..k) \in 1..k /\ k <= Max(1..k)
    BY <1>1, MaxOfSome
<1> QED
    BY <1>1, <1>2

-----------------------------------------------------------------------------
(* Observability, for any nesting of spans and any loggers. *)

(* A span on its way out keeps what flew through its body; beside it only telemetry
   flies, and only until it is excepted.  The spans around it wait in their bodies. *)
SpanInv ==
    /\ spans \in Seq(Spans)
    /\ {flight, thrown} \subseteq Errors \cup {"none", "telemetry"}
    /\ \A i \in 1..(Len(spans) - 1) : spans[i].at = "body"
    /\ AtCaller => flight = thrown
    /\ ~AtCaller =>
        /\ Last(spans).raised = thrown
        /\ flight # "none" => flight = "telemetry" /\ Last(spans).at \in {"closed", "logged"}

(* The innermost span is at some place, or there is none. *)
LEMMA InnermostSpan ==
    ASSUME spans \in Seq(Spans)
    PROVE  /\ Len(spans) \in Nat
           /\ spans # <<>> => Len(spans) \in 1..Len(spans) /\ Last(spans) = spans[Len(spans)]
           /\ \A i \in 1..Len(spans) : spans[i] \in Spans
           /\ \A place \in {"closing", "closed", "debug", "logged"} : Innermost(place) => ~AtCaller
           /\ Innermost("body") => AtCaller
           /\ ~AtCaller => spans # <<>>
BY DEF Last, Innermost, AtCaller

(* A step of the innermost span leaves the others alone. *)
LEMMA InnermostMoves ==
    ASSUME SpanInv, spans # <<>>, NEW top \in Spans, spans' = [spans EXCEPT ![Len(spans)] = top]
    PROVE  /\ spans' \in Seq(Spans) /\ spans' # <<>> /\ Last(spans)' = top
           /\ \A i \in 1..(Len(spans') - 1) : spans'[i].at = "body"
<1>1. Len(spans) \in Nat /\ Len(spans) \in 1..Len(spans)
    BY InnermostSpan DEF SpanInv
<1>2. spans' \in Seq(Spans) /\ Len(spans') = Len(spans)
    BY <1>1 DEF SpanInv
<1>3. \A i \in 1..Len(spans) : spans'[i] = IF i = Len(spans) THEN top ELSE spans[i]
    BY <1>1 DEF SpanInv
<1>4. spans' # <<>> /\ Last(spans)' = spans'[Len(spans')]
    BY <1>1, <1>2 DEF Last
<1>5. Last(spans)' = top
    BY <1>1, <1>2, <1>3, <1>4
<1>6. ASSUME NEW i \in 1..(Len(spans') - 1) PROVE spans'[i].at = "body"
    <2> HIDE DEF SpanInv
    <2> DEFINE n == Len(spans)
    <2>3. n \in Nat /\ i \in 1..(n - 1)
        BY <1>1, <1>2
    <2> HIDE DEF n
    <2>4. i \in 1..n /\ i # n
        BY <2>3
    <2>1. i \in 1..(Len(spans) - 1) /\ i \in 1..Len(spans) /\ i # Len(spans)
        BY <2>3, <2>4 DEF n
    <2>2. spans'[i] = spans[i]
        BY <1>3, <2>1
    <2> QED
        BY <2>1, <2>2 DEF SpanInv
<1> QED
    BY <1>2, <1>4, <1>5, <1>6

(* Entering puts a span inside the others, whose bodies run. *)
LEMMA EnterSpanKeeps ==
    ASSUME SpanInv, EnterSpan PROVE SpanInv'
<1>1. PICK new \in Spans : spans' = Append(spans, new) /\ new.at = "body"
    <2>1. PICK kind \in {"backed", "null"} :
            spans' = Append(spans, [kind |-> kind, at |-> "body", raised |-> "none", suppress |-> FALSE])
        BY DEF EnterSpan
    <2>2. [kind |-> kind, at |-> "body", raised |-> "none", suppress |-> FALSE] \in Spans
        BY DEF Spans
    <2> QED
        BY <2>1, <2>2
<1>2. AtCaller /\ UNCHANGED <<flight, thrown>>
    BY DEF EnterSpan
<1>3. /\ spans' \in Seq(Spans) /\ Len(spans') = Len(spans) + 1 /\ Len(spans) \in Nat
      /\ \A i \in 1..Len(spans) : spans'[i] = spans[i]
      /\ spans'[Len(spans) + 1] = new
    BY <1>1 DEF SpanInv
<1>4. \A i \in 1..Len(spans) : spans[i].at = "body"
    <2>1. spans # <<>> => spans[Len(spans)].at = "body"
        BY <1>2, InnermostSpan DEF AtCaller, SpanInv
    <2> QED
        BY <1>3, <2>1 DEF SpanInv
<1>5. AtCaller'
    <2>1. Last(spans)' = new
        BY <1>3 DEF Last
    <2> QED
        BY <1>1, <2>1 DEF AtCaller
<1>6. \A i \in 1..(Len(spans') - 1) : spans'[i].at = "body"
    BY <1>3, <1>4
<1> QED
    BY <1>2, <1>3, <1>5, <1>6 DEF SpanInv

(* The body ends: what flies is taken off its way. *)
LEMMA BodyEndsKeeps ==
    ASSUME SpanInv, BodyEnds PROVE SpanInv'
<1> DEFINE old == spans[Len(spans)]
           place == IF Last(spans).kind = "backed" THEN "closing" ELSE "debug"
           top == [old EXCEPT !.at = place, !.raised = flight]
<1>1. spans # <<>> /\ AtCaller /\ flight' = "none" /\ thrown' = thrown /\ flight = thrown
    BY InnermostSpan DEF BodyEnds, Innermost, SpanInv
<1>2. old \in Spans
    BY <1>1, InnermostSpan DEF SpanInv
<1>3. flight \in Errors \cup {"none", "telemetry"}
    BY DEF SpanInv
<1>4. top \in Spans /\ top.at \in {"closing", "debug"} /\ top.raised = flight
    BY <1>2, <1>3 DEF Spans
<1>5. spans' = [spans EXCEPT ![Len(spans)] = top]
    BY DEF BodyEnds
<1> HIDE DEF top
<1>6. /\ spans' \in Seq(Spans) /\ spans' # <<>> /\ Last(spans)' = top
      /\ \A i \in 1..(Len(spans') - 1) : spans'[i].at = "body"
    BY <1>1, <1>4, <1>5, InnermostMoves
<1>7. ~AtCaller'
    BY <1>4, <1>6 DEF AtCaller
<1> QED
    BY <1>1, <1>3, <1>4, <1>6, <1>7 DEF SpanInv

(* The backend's __exit__, what is excepted after it, and the debug line: what may
   fly is of telemetry, and the span keeps what it is to raise. *)
LEMMA LeavingKeeps ==
    ASSUME SpanInv, BackendExits \/ _close_span \/ DebugLine PROVE SpanInv'
<1> DEFINE old == spans[Len(spans)]
<1>1. /\ spans # <<>> /\ ~AtCaller /\ thrown' = thrown
    BY InnermostSpan DEF BackendExits, _close_span, DebugLine, Innermost, SpanInv
<1>2. old \in Spans /\ old = Last(spans) /\ old.raised = thrown
    BY <1>1, InnermostSpan DEF SpanInv
<1>3. PICK top \in Spans :
        /\ spans' = [spans EXCEPT ![Len(spans)] = top]
        /\ top.raised = old.raised
        /\ top.at \in {"closed", "debug", "logged"}
        /\ flight' \in {"none", "telemetry"}
        /\ flight' # "none" => top.at \in {"closed", "logged"}
    <2>1. CASE BackendExits
        <3>1. PICK way \in {"returns", "suppresses", "raises"} :
                /\ spans' = [spans EXCEPT
                        ![Len(spans)].at = "closed", ![Len(spans)].suppress = (way = "suppresses")]
                /\ flight' = IF way = "raises" THEN "telemetry" ELSE "none"
            BY <2>1 DEF BackendExits
        <3> DEFINE top == [old EXCEPT !.at = "closed", !.suppress = (way = "suppresses")]
        <3>2. top \in Spans
            BY <1>2 DEF Spans
        <3>3. top.raised = old.raised /\ top.at = "closed"
            BY <1>2 DEF Spans
        <3>4. spans' = [spans EXCEPT ![Len(spans)] = top]
            BY <3>1
        <3> HIDE DEF top
        <3>5. flight' \in {"none", "telemetry"}
            BY <3>1
        <3> QED
            BY <3>2, <3>3, <3>4, <3>5
    <2>2. CASE _close_span
        <3> DEFINE place == IF flight' = "none" THEN "debug" ELSE "logged"
                   top == [old EXCEPT !.at = place]
        <3>1. top \in Spans /\ top.raised = old.raised /\ top.at = place
            BY <1>2 DEF Spans
        <3>2. spans' = [spans EXCEPT ![Len(spans)] = top] /\ flight' = "none"
            BY <1>1, <2>2 DEF _close_span, Excepted, SpanInv
        <3> QED
            BY <3>1, <3>2
    <2>3. CASE DebugLine
        <3> DEFINE top == [old EXCEPT !.at = "logged"]
        <3>1. top \in Spans /\ top.raised = old.raised /\ top.at = "logged"
            BY <1>2 DEF Spans
        <3>2. spans' = [spans EXCEPT ![Len(spans)] = top] /\ flight' \in {"none", "telemetry"}
            BY <2>3 DEF DebugLine
        <3> QED
            BY <3>1, <3>2
    <2> QED
        BY <2>1, <2>2, <2>3
<1>4. /\ spans' \in Seq(Spans) /\ spans' # <<>> /\ Last(spans)' = top
      /\ \A i \in 1..(Len(spans') - 1) : spans'[i].at = "body"
    BY <1>1, <1>3, InnermostMoves
<1>5. ~AtCaller'
    BY <1>3, <1>4 DEF AtCaller
<1>6. thrown \in Errors \cup {"none", "telemetry"}
    BY DEF SpanInv
<1> QED
    BY <1>1, <1>2, <1>3, <1>4, <1>5, <1>6 DEF SpanInv

(* The span is left, and what flew through its body flies on through the one
   around it. *)
LEMMA ExitSpanKeeps ==
    ASSUME SpanInv, ExitSpan PROVE SpanInv'
<1>1. spans # <<>> /\ ~AtCaller /\ thrown' = thrown /\ spans' = SubSeq(spans, 1, Len(spans) - 1)
    BY InnermostSpan DEF ExitSpan, Innermost, SpanInv, Front
<1>2. Last(spans).raised = thrown
    BY <1>1 DEF SpanInv
<1>3. flight' = thrown
    <2>1. Excepted(flight) = "none"
        BY <1>1 DEF Excepted, SpanInv
    <2> QED
        BY <1>2, <2>1 DEF ExitSpan, RaisedAgain
<1>4. Len(spans) \in Nat /\ Len(spans) \in 1..Len(spans) /\ \A i \in 1..(Len(spans) - 1) : spans[i] \in Spans
    BY <1>1, InnermostSpan DEF SpanInv
<1>5. /\ spans' \in Seq(Spans) /\ Len(spans') = Len(spans) - 1
      /\ \A i \in 1..(Len(spans) - 1) : spans'[i] = spans[i]
    <2> DEFINE n == Len(spans) - 1
    <2>1. n \in Nat /\ spans' = [i \in 1..n |-> spans[i]]
        BY <1>1, <1>4
    <2>2. spans' \in [1..n -> Spans]
        BY <1>4, <2>1
    <2> HIDE DEF n
    <2>3. spans' \in Seq(Spans) /\ Len(spans') = n
        BY <2>1, <2>2
    <2> QED
        BY <2>1, <2>3 DEF n
<1>6. \A i \in 1..Len(spans') : spans'[i].at = "body"
    BY <1>4, <1>5 DEF SpanInv
<1>7. AtCaller'
    BY <1>5, <1>6, <1>4 DEF AtCaller, Last
<1>8. {flight', thrown'} \subseteq Errors \cup {"none", "telemetry"}
    BY <1>1, <1>3 DEF SpanInv
<1>9. \A i \in 1..(Len(spans') - 1) : spans'[i].at = "body"
    BY <1>4, <1>5, <1>6
<1> QED
    BY <1>1, <1>3, <1>5, <1>7, <1>8, <1>9 DEF SpanInv

(* Only the caller's code changes what flies through it. *)
LEMMA SpanInvHolds == ObsSpec => []SpanInv
<1>1. ObsInit => SpanInv
    BY DEF ObsInit, SpanInv, AtCaller
<1>2. SpanInv /\ [ObsNext]_obsVars => SpanInv'
    <2> SUFFICES ASSUME SpanInv, [ObsNext]_obsVars PROVE SpanInv'
        OBVIOUS
    <2>1. CASE CallerRaises
        <3>1. AtCaller /\ spans' = spans /\ flight' = thrown' /\ flight' \in Errors
            BY <2>1, InnermostSpan DEF CallerRaises, SpanInv
        <3> QED
            BY <3>1 DEF SpanInv, AtCaller
    <2>2. CASE CallerCatches
        BY <2>2 DEF CallerCatches, SpanInv, AtCaller
    <2>3. CASE UNCHANGED <<spans, flight, thrown>>
        BY <2>3 DEF SpanInv, AtCaller
    <2>4. CASE span
        BY <2>4, EnterSpanKeeps, BodyEndsKeeps, LeavingKeeps, ExitSpanKeeps DEF span
    <2>5. CASE Build \/ Finish \/ Instrument \/ attach_logging_bridge
               \/ detach_logging_bridge \/ shutdown \/ UNCHANGED obsVars
        BY <2>3, <2>5 DEF Build, Finish, Instrument, attach_logging_bridge,
            detach_logging_bridge, shutdown, spanVars, obsVars
    <2> QED
        BY <2>1, <2>2, <2>4, <2>5 DEF ObsNext
<1> QED
    BY <1>1, <1>2, PTL DEF ObsSpec

(* Whatever raises or wants to suppress while spans are left, the caller's code meets
   what it raised and nothing else, for any nesting and any exceptions
   (observability, Observability.span). *)
THEOREM Outcome == ObsSpec => []CallersOutcome
<1>1. SpanInv => CallersOutcome
    BY DEF SpanInv, CallersOutcome
<1> QED
    BY <1>1, SpanInvHolds, PTL

-----------------------------------------------------------------------------
(* The bridge: what it notes is what the loggers carry. *)

(* Positions of a bridge at which a logger stands. *)
Positions(of, logger) == {i \in DOMAIN of : of[i] = logger}

(* One more handler is noted, and one more counted, of its logger alone. *)
LEMMA NotedIsCounted ==
    ASSUME NEW of \in Seq(Loggers), NEW to \in Loggers, NEW logger \in Loggers
    PROVE  Cardinality(Positions(Append(of, to), logger)) =
                Cardinality(Positions(of, logger)) + IF logger = to THEN 1 ELSE 0
<1> DEFINE old == Positions(of, logger)
           new == Positions(Append(of, to), logger)
<1>1. IsFiniteSet(old) /\ Cardinality(old) \in Nat
    <2>1. IsFiniteSet(1..Len(of))
        BY FS_Interval
    <2>2. old \in SUBSET (1..Len(of))
        BY DEF Positions
    <2> QED
        BY <2>1, <2>2, FS_Subset, FS_CardinalityType
<1>2. DOMAIN of = 1..Len(of) /\ DOMAIN Append(of, to) = 1..(Len(of) + 1) /\ Len(of) \in Nat
    OBVIOUS
<1>3. \A i \in 1..Len(of) : Append(of, to)[i] = of[i]
    OBVIOUS
<1>4. Append(of, to)[Len(of) + 1] = to
    OBVIOUS
<1>5. CASE logger = to
    <2>1. new = old \cup {Len(of) + 1}
        BY <1>2, <1>3, <1>4, <1>5 DEF Positions
    <2>2. Len(of) + 1 \notin old
        BY <1>2 DEF Positions
    <2> QED
        BY <1>1, <1>5, <2>1, <2>2, FS_AddElement
<1>6. CASE logger # to
    <2>1. new = old
        BY <1>2, <1>3, <1>4, <1>6 DEF Positions
    <2> QED
        BY <1>1, <1>6, <2>1
<1> QED
    BY <1>5, <1>6

(* Nothing is counted of an empty bridge. *)
LEMMA EmptyBridge ==
    ASSUME NEW logger PROVE Cardinality(Positions(<<>>, logger)) = 0
<1>1. Positions(<<>>, logger) = {}
    BY DEF Positions
<1> QED
    BY <1>1, FS_EmptySet

-----------------------------------------------------------------------------
(* The inductive invariant, by concern. *)

(* The loggers carry the handlers that the bridge has noted, and no others of it. *)
BridgeIsTrue ==
    /\ bridge \in Seq(Loggers)
    /\ handlers \in [Loggers -> Nat]
    /\ \A l \in Loggers : handlers[l] = HandlersOf(l)

ProviderTypes ==
    /\ options \in [SignalSet -> {"off", "private", "callers"}]
    /\ provider \in [SignalSet -> {"none", "live", "down"}]
    /\ building \in 0..4
    /\ backend \in BOOLEAN
    /\ owned \subseteq SignalSet

(* What is owned is private; a backend, and one being built so far as it is,
   owns all that is. *)
OwnsItsOwn ==
    /\ \A s \in owned : options[s] = "private"
    /\ backend => Created /\ \A s \in SignalSet : options[s] = "private" => s \in owned
    /\ ~Created => \A i \in 1..3 :
            i <= building /\ options[Signals[i]] = "private" => Signals[i] \in owned

CallersLive == \A s \in SignalSet : options[s] = "callers" => provider[s] = "live"

(* A handle that is not there yet has not been shut down. *)
NotYetAsked == ~Created => answer = "none"

TelemetryInv ==
    /\ BridgeIsTrue /\ ProviderTypes /\ OwnsItsOwn /\ CallersLive /\ NotYetAsked
    /\ NothingLeftBehind

(* The backend builds the providers of all signals, in this order. *)
LEMMA SignalsAreThree ==
    /\ Signals[1] = "traces" /\ Signals[2] = "metrics" /\ Signals[3] = "logs"
    /\ \A s \in SignalSet : \E i \in 1..3 : s = Signals[i]
BY DEF Signals, SignalSet

(* What a detached bridge leaves on the loggers: nothing. *)
LEMMA DetachClears ==
    ASSUME BridgeIsTrue, Detach
    PROVE  BridgeIsTrue' /\ \A l \in Loggers : handlers'[l] = 0
<1>1. \A l \in Loggers : handlers'[l] = 0
    BY DEF BridgeIsTrue, Detach
<1>2. \A l \in Loggers : HandlersOf(l)' = 0
    BY EmptyBridge DEF Detach, HandlersOf, Positions
<1>3. handlers' \in [Loggers -> Nat] /\ bridge' \in Seq(Loggers)
    BY <1>1 DEF Detach
<1> QED
    BY <1>1, <1>2, <1>3 DEF BridgeIsTrue

(* Another handler on the bridge. *)
LEMMA AttachIsNoted ==
    ASSUME BridgeIsTrue, attach_logging_bridge
    PROVE  BridgeIsTrue'
<1>1. PICK to \in Loggers :
        /\ handlers' = [handlers EXCEPT ![to] = handlers[to] + 1]
        /\ bridge' = Append(bridge, to)
    BY DEF attach_logging_bridge, Noted
<1>2. bridge' \in Seq(Loggers) /\ handlers' \in [Loggers -> Nat]
    BY <1>1 DEF BridgeIsTrue
<1>3. ASSUME NEW l \in Loggers PROVE handlers'[l] = HandlersOf(l)'
    <2>1. /\ HandlersOf(l) = Cardinality(Positions(bridge, l))
          /\ HandlersOf(l)' = Cardinality(Positions(Append(bridge, to), l))
        BY <1>1 DEF HandlersOf, Positions
    <2>2. HandlersOf(l)' = HandlersOf(l) + IF l = to THEN 1 ELSE 0
        BY <2>1, NotedIsCounted DEF BridgeIsTrue
    <2> QED
        BY <1>1, <2>2 DEF BridgeIsTrue
<1> QED
    BY <1>2, <1>3 DEF BridgeIsTrue

(* The invariant holds throughout. *)
LEMMA TelemetryInvHolds == ObsSpec => []TelemetryInv
<1>1. ObsInit => TelemetryInv
    <2> SUFFICES ASSUME ObsInit PROVE TelemetryInv
        OBVIOUS
    <2>1. BridgeIsTrue
        BY EmptyBridge DEF ObsInit, BridgeIsTrue, HandlersOf, Positions
    <2>2. ProviderTypes /\ CallersLive
        <3>1. backend \in BOOLEAN
            BY Zenon DEF ObsInit
        <3>2. building \in 0..4 /\ owned \subseteq SignalSet
            BY DEF ObsInit
        <3>3. /\ options \in [SignalSet -> {"off", "private", "callers"}]
              /\ provider = [s \in SignalSet |-> IF options[s] = "callers" THEN "live" ELSE "none"]
            BY DEF ObsInit
        <3> QED
            BY <3>1, <3>2, <3>3 DEF ProviderTypes, CallersLive
    <2>3. ~backend /\ building = 0 /\ owned = {} /\ answer = "none"
        BY DEF ObsInit
    <2>4. OwnsItsOwn /\ NotYetAsked /\ NothingLeftBehind
        BY <2>2, <2>3 DEF OwnsItsOwn, NotYetAsked, NothingLeftBehind, CallersLive
    <2> QED
        BY <2>1, <2>2, <2>4 DEF TelemetryInv
<1>2. TelemetryInv /\ [ObsNext]_obsVars => TelemetryInv'
    <2> SUFFICES ASSUME TelemetryInv, [ObsNext]_obsVars PROVE TelemetryInv'
        OBVIOUS
    <2> USE DEF TelemetryInv
    <2>1. CASE Build
        <3>1. BridgeIsTrue'
            BY <2>1 DEF Build, BridgeIsTrue, HandlersOf
        <3>2. building \in 0..2 /\ building' = building + 1 /\ UNCHANGED <<options, backend, answer>>
            BY <2>1 DEF Build, ProviderTypes
        <3> DEFINE s == Signals[building + 1]
        <3>3. s \in SignalSet
            BY <3>2, SignalsAreThree DEF SignalSet
        <3>4. /\ provider' = IF options[s] = "private"
                             THEN [provider EXCEPT ![s] = "live"] ELSE provider
              /\ owned' = IF options[s] = "private" THEN owned \cup {s} ELSE owned
            BY <2>1 DEF Build, Owns
        <3>5. ~backend /\ ~backend' /\ answer = "none" /\ answer' = "none"
            BY <3>2 DEF OwnsItsOwn, NotYetAsked, Created
        <3>6. ProviderTypes' /\ CallersLive'
            BY <3>2, <3>3, <3>4, <3>5 DEF ProviderTypes, CallersLive
        <3>7. OwnsItsOwn'
            <4>1. \A r \in owned' : options'[r] = "private"
                BY <3>2, <3>4 DEF OwnsItsOwn
            <4>2. ASSUME NEW i \in 1..3, i <= building', options'[Signals[i]] = "private"
                  PROVE  Signals[i] \in owned'
                <5>1. CASE i = building + 1
                    BY <3>2, <3>4, <4>2, <5>1
                <5>2. CASE i <= building
                    BY <3>2, <3>4, <4>2, <5>2 DEF OwnsItsOwn, Created
                <5> QED
                    BY <3>2, <4>2, <5>1, <5>2
            <4> QED
                BY <3>5, <4>1, <4>2 DEF OwnsItsOwn
        <3> QED
            BY <3>1, <3>5, <3>6, <3>7 DEF NotYetAsked, NothingLeftBehind, CallersLive
    <2>2. CASE Finish
        <3>1. BridgeIsTrue' /\ CallersLive'
            BY <2>2 DEF Finish, BridgeIsTrue, HandlersOf, CallersLive
        <3>2. ProviderTypes' /\ Created'
            <4>1. backend' \in BOOLEAN
                BY <2>2, Zenon DEF Finish
            <4>2. building' = 4 /\ UNCHANGED <<options, provider>> /\ owned' \in {owned, {}}
                BY <2>2 DEF Finish
            <4> QED
                BY <4>1, <4>2 DEF ProviderTypes, Created
        <3>3. answer' = "none"
            BY <2>2 DEF Finish, NotYetAsked
        <3>4. OwnsItsOwn'
            <4>1. CASE building = 3 /\ backend' = TRUE /\ UNCHANGED owned
                <5>1. \A i \in 1..3 : options[Signals[i]] = "private" => Signals[i] \in owned
                    BY <2>2, <4>1 DEF Finish, OwnsItsOwn
                <5>2. \A s \in SignalSet : options[s] = "private" => s \in owned
                    BY <5>1, SignalsAreThree
                <5> QED
                    BY <2>2, <3>2, <4>1, <5>2 DEF Finish, OwnsItsOwn
            <4>2. CASE backend' = FALSE /\ owned' = {}
                BY <3>2, <4>2 DEF OwnsItsOwn
            <4> QED
                BY <2>2, <4>1, <4>2 DEF Finish
        <3> QED
            BY <3>1, <3>2, <3>3, <3>4 DEF NotYetAsked, NothingLeftBehind, CallersLive
    <2>3. CASE attach_logging_bridge
        <3>1. BridgeIsTrue'
            BY <2>3, AttachIsNoted
        <3> QED
            BY <2>3, <3>1 DEF attach_logging_bridge, buildVars, ProviderTypes, OwnsItsOwn,
                CallersLive, NotYetAsked, NothingLeftBehind, Created
    <2>4. CASE detach_logging_bridge
        <3>1. BridgeIsTrue'
            BY <2>4, DetachClears DEF detach_logging_bridge
        <3> QED
            BY <2>4, <3>1 DEF detach_logging_bridge, buildVars, ProviderTypes, OwnsItsOwn,
                CallersLive, NotYetAsked, NothingLeftBehind, Created
    <2>5. CASE shutdown
        <3>1. BridgeIsTrue' /\ \A l \in Loggers : handlers'[l] = 0
            BY <2>5, DetachClears DEF shutdown
        <3>2. PICK ends \in [owned -> {"down", "unflushed", "raised"}] :
                /\ provider' = [s \in SignalSet |->
                        IF s \in owned /\ ends[s] # "raised" THEN "down" ELSE provider[s]]
                /\ answer' = IF ~backend \/ AllWell(ends) THEN "true" ELSE "false"
            BY <2>5 DEF shutdown
        <3>3. Created /\ UNCHANGED <<options, building, backend, owned>>
            BY <2>5 DEF shutdown, buildVars
        <3>4. ProviderTypes' /\ OwnsItsOwn' /\ NotYetAsked'
            BY <3>2, <3>3 DEF ProviderTypes, OwnsItsOwn, NotYetAsked, Created
        <3>5. CallersLive'
            BY <3>2, <3>3 DEF CallersLive, OwnsItsOwn
        <3>6. ASSUME answer' = "true", backend', NEW s \in SignalSet, options'[s] = "private"
              PROVE  provider'[s] = "down"
            <4>1. s \in owned /\ AllWell(ends)
                BY <3>2, <3>3, <3>6 DEF OwnsItsOwn
            <4> QED
                BY <3>2, <4>1 DEF AllWell
        <3> QED
            BY <3>1, <3>4, <3>5, <3>6 DEF NothingLeftBehind, CallersLive
    <2>6. CASE span \/ CallerRaises \/ CallerCatches \/ Instrument
               \/ UNCHANGED obsVars
        <3>1. /\ UNCHANGED <<options, building, backend, owned, provider, bridge, handlers>>
              /\ answer' \in {answer, "none"}
            BY <2>6 DEF span, EnterSpan, BodyEnds, BackendExits, _close_span, DebugLine, ExitSpan,
                CallerRaises, CallerCatches, Instrument, buildVars, obsVars
        <3> QED
            BY <3>1 DEF BridgeIsTrue, HandlersOf, ProviderTypes, OwnsItsOwn, CallersLive,
                NotYetAsked, NothingLeftBehind, Created
    <2> QED
        BY <2>1, <2>2, <2>3, <2>4, <2>5, <2>6 DEF ObsNext
<1> QED
    BY <1>1, <1>2, PTL DEF ObsSpec

(* A shutdown that answers True shut down every private provider of the backend
   and took every handler off, and the caller's providers are never touched. *)
THEOREM LeavesNothing == ObsSpec => []NothingLeftBehind
<1>1. TelemetryInv => NothingLeftBehind
    BY DEF TelemetryInv
<1> QED
    BY <1>1, TelemetryInvHolds, PTL

(* Type correctness of the handle, for any options, loggers, instruments and spans:
   a logger never has fewer handlers than none, since what a detached bridge takes
   off it is what it has put on (observability, detach_logging_bridge). *)
THEOREM ObsTypeCorrect == ObsSpec => []ObsTypeOK
<1>0. MaxHandlers \in Nat
    BY ObservabilityAssumption
<1>1. ObsInit => ObsTypeOK
    <2> SUFFICES ASSUME ObsInit PROVE ObsTypeOK
        OBVIOUS
    <2>1. /\ options \in [SignalSet -> {"off", "private", "callers"}] /\ building = 0 /\ owned = {}
          /\ provider = [s \in SignalSet |-> IF options[s] = "callers" THEN "live" ELSE "none"]
          /\ instruments = [i \in Instruments |-> "absent"] /\ bridge = <<>>
          /\ handlers = [l \in Loggers |-> 0] /\ spans = <<>> /\ flight = "none" /\ thrown = "none" /\ answer = "none"
        BY DEF ObsInit
    <2>2. backend \in BOOLEAN
        BY Zenon DEF ObsInit
    <2> QED
        BY <1>0, <2>1, <2>2 DEF ObsTypeOK
<1>2. ObsTypeOK /\ SpanInv' /\ TelemetryInv /\ TelemetryInv' /\ [ObsNext]_obsVars => ObsTypeOK'
    <2> SUFFICES ASSUME ObsTypeOK, SpanInv', TelemetryInv, TelemetryInv', [ObsNext]_obsVars PROVE ObsTypeOK'
        OBVIOUS
    <2>1. /\ options' \in [SignalSet -> {"off", "private", "callers"}] /\ building' \in 0..4
          /\ owned' \subseteq SignalSet /\ provider' \in [SignalSet -> {"none", "live", "down"}]
          /\ bridge' \in Seq(Loggers)
        BY DEF TelemetryInv, ProviderTypes, BridgeIsTrue
    <2>2. backend' \in BOOLEAN
        BY DEF TelemetryInv, ProviderTypes
    <2>3. instruments' \in [Instruments -> {"absent", "null", "bound"}]
        <3>1. CASE Instrument
            BY <3>1 DEF Instrument, ObsTypeOK
        <3>2. CASE UNCHANGED instruments
            BY <3>2 DEF ObsTypeOK
        <3> QED
            BY <3>1, <3>2 DEF ObsNext, Build, Finish, CallerRaises, CallerCatches,
                span, EnterSpan, BodyEnds, BackendExits, _close_span, DebugLine, ExitSpan,
                attach_logging_bridge, detach_logging_bridge, shutdown, obsVars
    <2>4. handlers' \in [Loggers -> 0..MaxHandlers]
        <3>1. CASE attach_logging_bridge
            <4>1. PICK l \in Loggers :
                    handlers[l] < MaxHandlers /\ handlers' = [handlers EXCEPT ![l] = handlers[l] + 1]
                BY <3>1 DEF attach_logging_bridge
            <4>2. handlers[l] + 1 \in 0..MaxHandlers
                BY <1>0, <4>1 DEF ObsTypeOK
            <4> QED
                BY <4>1, <4>2 DEF ObsTypeOK
        <3>2. CASE Detach
            <4>1. handlers' = [l \in Loggers |-> handlers[l] - HandlersOf(l)]
                BY <3>2 DEF Detach
            <4>2. \A l \in Loggers : handlers'[l] = 0
                BY <3>2, DetachClears DEF TelemetryInv
            <4>3. DOMAIN handlers' = Loggers /\ handlers' = [l \in Loggers |-> handlers'[l]]
                BY <4>1
            <4> QED
                BY <1>0, <4>2, <4>3
        <3>3. CASE UNCHANGED handlers
            BY <3>3 DEF ObsTypeOK
        <3> QED
            BY <3>1, <3>2, <3>3 DEF ObsNext, Build, Finish, CallerRaises, CallerCatches,
                span, EnterSpan, BodyEnds, BackendExits, _close_span, DebugLine, ExitSpan,
                Instrument, detach_logging_bridge, shutdown, obsVars
    <2>5. spans' \in Seq(Spans) /\ {flight', thrown'} \subseteq Errors \cup {"none", "telemetry"}
        BY DEF SpanInv
    <2>6. answer' \in {"none", "true", "false"}
        BY DEF ObsNext, Build, Finish, CallerRaises, CallerCatches, Instrument,
            span, EnterSpan, BodyEnds, BackendExits, _close_span, DebugLine, ExitSpan,
            attach_logging_bridge, detach_logging_bridge, shutdown, obsVars, ObsTypeOK
    <2> QED
        BY <2>1, <2>2, <2>3, <2>4, <2>5, <2>6 DEF ObsTypeOK
<1> QED
    BY <1>1, <1>2, SpanInvHolds, TelemetryInvHolds, PTL DEF ObsSpec

-----------------------------------------------------------------------------
(* SkillBundle, for archives of any length. *)

(* The running sums of a sequence. *)
RunningSum(v, q) ==
    /\ v \in [0..Len(q) -> Nat]
    /\ v[0] = 0
    /\ \A k \in 1..Len(q) : v[k] = v[k - 1] + q[k].file_size

SizesAdd(g, q) ==
    g = [s \in SUBSET DOMAIN q |->
            IF s = {} THEN 0 ELSE g[s \ {Max(s)}] + q[Max(s)].file_size]

(* The fold in inspect_zip is the last of the running sums. *)
LEMMA SizeIsRunningSum ==
    ASSUME NEW q \in Seq(Entries)
    PROVE  \E v : RunningSum(v, q) /\ SizeOf(q) = v[Len(q)]
<1> DEFINE n == Len(q)
           g == CHOOSE g : SizesAdd(g, q)
           step == [i \in 1..n |-> [r \in Nat |-> r + q[i].file_size]]
<1>1. SizeOf(q) = g[DOMAIN q]
    BY DEF SizeOf, SizesAdd, FoldLeft, MapThenFoldSet
<1>2. n \in Nat /\ DOMAIN q = 1..n /\ \A i \in 1..n : q[i] \in Entries
    OBVIOUS
<1>3. \A i \in 1..n : q[i].file_size \in Nat
    BY <1>2, BundleAssumption DEF Entries
<1>4. step \in [1..n -> [Nat -> Nat]]
    BY <1>3
<1>5. \E h : SizesAdd(h, q)
    <2>1. PICK h \in [SUBSET (1..n) -> Nat] : FoldEquation(h, n, 0, step)
        <3> HIDE DEF n, step
        <3> QED
            BY <1>2, <1>4, FoldExists
    <2>2. ASSUME NEW s \in SUBSET (1..n), s # {}
          PROVE  step[Max(s)][h[s \ {Max(s)}]] = h[s \ {Max(s)}] + q[Max(s)].file_size
        <3>1. Max(s) \in 1..n
            BY <1>2, <2>2, MaxOfSome
        <3>2. h[s \ {Max(s)}] \in Nat
            BY <2>1, <2>2
        <3> QED
            BY <3>1, <3>2
    <2>3. h = [s \in SUBSET (1..n) |-> IF s = {} THEN 0 ELSE step[Max(s)][h[s \ {Max(s)}]]]
        BY <2>1 DEF FoldEquation
    <2> HIDE DEF step
    <2>4. h = [s \in SUBSET (1..n) |-> IF s = {} THEN 0 ELSE h[s \ {Max(s)}] + q[Max(s)].file_size]
        BY <2>2, <2>3
    <2> QED
        BY <1>2, <2>4 DEF SizesAdd
<1>6. SizesAdd(g, q)
    BY <1>5
<1> HIDE DEF g
<1>7. g[{}] = 0 /\ \A k \in 1..n : g[1..k] = g[1..(k - 1)] + q[k].file_size
    <2>1. g[{}] = 0
        BY <1>2, <1>6 DEF SizesAdd
    <2>2. ASSUME NEW k \in 1..n PROVE g[1..k] = g[1..(k - 1)] + q[k].file_size
        <3>1. /\ 1..k \in SUBSET DOMAIN q /\ 1..k # {}
              /\ Max(1..k) = k /\ (1..k) \ {k} = 1..(k - 1)
            BY <1>2, InitialPart
        <3>2. g[1..k] = IF 1..k = {} THEN 0
                        ELSE g[(1..k) \ {Max(1..k)}] + q[Max(1..k)].file_size
            BY <1>6, <3>1 DEF SizesAdd
        <3> QED
            BY <3>1, <3>2
    <2> QED
        BY <2>1, <2>2
<1> DEFINE v == [k \in 0..n |-> g[1..k]]
<1>8. \A k \in Nat : k \in {j \in Nat : j <= n => g[1..j] \in Nat}
    <2> DEFINE T == {j \in Nat : j <= n => g[1..j] \in Nat}
    <2>1. 1..0 = {}
        OBVIOUS
    <2>2. 0 \in T
        BY <1>7, <2>1
    <2>3. ASSUME NEW j \in Nat, j \in T PROVE j + 1 \in T
        <3> SUFFICES ASSUME j + 1 <= n PROVE g[1..(j + 1)] \in Nat
            OBVIOUS
        <3>1. j + 1 \in 1..n /\ (j + 1) - 1 = j /\ g[1..j] \in Nat
            BY <1>2, <2>3
        <3> QED
            BY <1>3, <1>7, <3>1
    <2> HIDE DEF T
    <2>4. \A k \in Nat : k \in T
        BY <2>2, <2>3, EveryNumber
    <2> QED
        BY <2>4 DEF T
<1>9. v \in [0..n -> Nat]
    BY <1>2, <1>8
<1>10. v[0] = 0
    <2>1. 1..0 = {} /\ 0 \in 0..n
        BY <1>2
    <2> QED
        BY <1>7, <2>1
<1>11. \A k \in 1..n : v[k] = v[k - 1] + q[k].file_size
    <2> TAKE k \in 1..n
    <2>1. k \in 0..n /\ k - 1 \in 0..n
        BY <1>2
    <2> QED
        BY <1>7, <2>1
<1>12. SizeOf(q) = v[n]
    BY <1>1, <1>2
<1> QED
    BY <1>9, <1>10, <1>11, <1>12 DEF RunningSum

(* The sum of one entry more is larger by its size. *)
LEMMA SumOfOneMore ==
    ASSUME NEW q \in Seq(Entries), NEW e \in Entries
    PROVE  SizeOf(q) \in Nat /\ SizeOf(Append(q, e)) = SizeOf(q) + e.file_size
<1>1. PICK v : RunningSum(v, q) /\ SizeOf(q) = v[Len(q)]
    BY SizeIsRunningSum
<1> DEFINE p == Append(q, e)
           n == Len(q)
<1>2. p \in Seq(Entries) /\ Len(p) = n + 1 /\ n \in Nat /\ p[n + 1] = e /\ \A i \in 1..n : p[i] = q[i]
    OBVIOUS
<1> HIDE DEF p
<1>3. PICK w : RunningSum(w, p) /\ SizeOf(p) = w[Len(p)]
    BY <1>2, SizeIsRunningSum
<1> DEFINE T == {k \in Nat : k <= n => v[k] = w[k]}
<1>4. 0 \in T
    BY <1>1, <1>3 DEF RunningSum
<1>5. ASSUME NEW k \in Nat, k \in T PROVE k + 1 \in T
    <2> SUFFICES ASSUME k + 1 <= n PROVE v[k + 1] = w[k + 1]
        OBVIOUS
    <2>1. k + 1 \in 1..n /\ k + 1 \in 1..Len(p) /\ (k + 1) - 1 = k /\ v[k] = w[k]
        BY <1>2, <1>5
    <2> QED
        BY <1>1, <1>2, <1>3, <2>1 DEF RunningSum
<1>6. n \in T
    <2> HIDE DEF T
    <2> QED
        BY <1>2, <1>4, <1>5, EveryNumber
<1>7. v[n] = w[n] /\ v[n] \in Nat
    BY <1>1, <1>2, <1>6 DEF RunningSum
<1>8. w[n + 1] = w[n] + e.file_size
    <2>1. n + 1 \in 1..Len(p) /\ (n + 1) - 1 = n
        BY <1>2
    <2> QED
        BY <1>2, <1>3, <2>1 DEF RunningSum
<1> QED
    BY <1>1, <1>2, <1>3, <1>7, <1>8 DEF p
(* A sum of sizes is a number, and the sum of more entries is no smaller. *)
LEMMA SumGrows ==
    ASSUME entries \in Seq(Entries)
    PROVE  /\ SumOf(0) = 0
           /\ \A k \in 0..Len(entries) : SumOf(k) \in Nat
           /\ \A k \in 1..Len(entries) : SumOf(k) = SumOf(k - 1) + Declared(k)
<1> DEFINE n == Len(entries)
<1>1. \A k : SumOf(k) = SizeOf(SubSeq(entries, 1, k))
    BY DEF SumOf
<1>2. SumOf(0) = 0
    <2>1. SubSeq(entries, 1, 0) = <<>>
        OBVIOUS
    <2>2. <<>> \in Seq(Entries) /\ Len(<<>>) = 0
        OBVIOUS
    <2>3. SizeOf(<<>>) = 0
        BY <2>2, SizeIsRunningSum DEF RunningSum
    <2> QED
        BY <1>1, <2>1, <2>3
<1>3. ASSUME NEW k \in 1..n
      PROVE  SumOf(k - 1) \in Nat /\ SumOf(k) \in Nat /\ SumOf(k) = SumOf(k - 1) + Declared(k)
    <2> DEFINE q == SubSeq(entries, 1, k - 1)
    <2>1. q \in Seq(Entries) /\ entries[k] \in Entries
        OBVIOUS
    <2>2. SubSeq(entries, 1, k) = Append(q, entries[k])
        <3>1. Len(q) = k - 1 /\ k - 1 \in Nat /\ n \in Nat
            OBVIOUS
        <3>2. Len(SubSeq(entries, 1, k)) = k /\ Len(Append(q, entries[k])) = k
            BY <2>1, <3>1
        <3>3. \A i \in 1..k : SubSeq(entries, 1, k)[i] = Append(q, entries[k])[i]
            <4> TAKE i \in 1..k
            <4>1. SubSeq(entries, 1, k)[i] = entries[i]
                OBVIOUS
            <4>2. CASE i = k
                BY <3>1, <4>1, <4>2
            <4>3. CASE i # k
                <5>1. i \in 1..(k - 1)
                    BY <4>3
                <5>2. q[i] = entries[i]
                    BY <5>1
                <5> QED
                    BY <2>1, <3>1, <4>1, <5>1, <5>2
            <4> QED
                BY <4>2, <4>3
        <3>4. SubSeq(entries, 1, k) \in Seq(Entries) /\ Append(q, entries[k]) \in Seq(Entries)
            BY <2>1
        <3> QED
            BY <3>2, <3>3, <3>4
    <2> HIDE DEF q
    <2>3. entries[k].file_size \in Nat
        BY <2>1, BundleAssumption DEF Entries
    <2>4. SizeOf(q) \in Nat /\ SizeOf(Append(q, entries[k])) = SizeOf(q) + entries[k].file_size
        BY <2>1, SumOfOneMore
    <2>5. SumOf(k - 1) = SizeOf(q) /\ SumOf(k) = SizeOf(Append(q, entries[k]))
        BY <1>1, <2>2 DEF q
    <2> QED
        BY <2>3, <2>4, <2>5 DEF Declared
<1>4. ASSUME NEW k \in 0..n PROVE SumOf(k) \in Nat
    <2>1. CASE k = 0
        BY <1>2, <2>1
    <2>2. CASE k # 0
        BY <1>3, <2>2, k \in 1..n
    <2> QED
        BY <2>1, <2>2
<1> QED
    BY <1>2, <1>3, <1>4

(* No entries hold more than some. *)
LEMMA SumIsMonotone ==
    ASSUME entries \in Seq(Entries), NEW k \in 0..Len(entries)
    PROVE  SumOf(k) <= SumOf(Len(entries))
<1> DEFINE n == Len(entries)
           T == {d \in Nat : k + d <= n => SumOf(k) <= SumOf(k + d)}
<1>0. n \in Nat /\ k \in Nat
    OBVIOUS
<1>1. 0 \in T
    <2>1. SumOf(k) \in Nat /\ k + 0 = k
        BY SumGrows
    <2> QED
        BY <2>1
<1>2. ASSUME NEW d \in Nat, d \in T PROVE d + 1 \in T
    <2> SUFFICES ASSUME k + (d + 1) <= n PROVE SumOf(k) <= SumOf(k + (d + 1))
        OBVIOUS
    <2>1. SumOf(k) <= SumOf(k + d)
        BY <1>2
    <2>2. k + (d + 1) \in 1..n /\ (k + (d + 1)) - 1 = k + d
        OBVIOUS
    <2>3. SumOf(k + (d + 1)) = SumOf(k + d) + Declared(k + (d + 1))
        BY <2>2, SumGrows
    <2>4. SumOf(k) \in Nat /\ SumOf(k + d) \in Nat
        BY <2>2, SumGrows
    <2>5. Declared(k + (d + 1)) \in Nat
        <3>1. entries[k + (d + 1)] \in Entries
            BY <2>2
        <3> QED
            BY <3>1, BundleAssumption DEF Declared, Entries
    <2> QED
        BY <2>1, <2>3, <2>4, <2>5
<1>3. n - k \in T
    <2> HIDE DEF T
    <2>1. n - k \in Nat
        BY <1>0
    <2> QED
        BY <1>1, <1>2, <2>1, EveryNumber
<1> QED
    BY <1>0, <1>3

-----------------------------------------------------------------------------
(* What is known of an archive: what passed keeps to the limits, also together,
   and what has come out of it is what the entries that were read declared. *)
BundleInv ==
    /\ BundleTypeOK
    /\ SumOf(Len(entries)) <= MaxTotal
    /\ \A i \in DOMAIN entries : Declared(i) <= MaxMember
    /\ \A i, j \in DOMAIN entries : i # j => Key(i) # Key(j)
    /\ at = "checking" => held = 0 /\ members = 0
    /\ at \in {"reading", "inspected"} => held = SumOf(members) /\ ~ParentCollision
    /\ at = "inspected" => members = Len(entries)
    /\ held <= MaxTotal + 1

(* No entry is looked at, and none is read. *)
LEMMA BundleBegins == BundleInit => BundleInv
<1> SUFFICES ASSUME BundleInit PROVE BundleInv
    OBVIOUS
<1>1. entries = <<>> /\ at = "checking" /\ members = 0 /\ held = 0 /\ count \in 0..MaxArchive
    BY DEF BundleInit
<1>2. entries \in Seq(Entries) /\ Len(entries) = 0 /\ DOMAIN entries = {}
    BY <1>1
<1>3. SumOf(Len(entries)) = 0
    BY <1>2, SumGrows
<1> QED
    BY <1>1, <1>2, <1>3, BundleAssumption DEF BundleInv, BundleTypeOK

(* A refusal hands out nothing. *)
LEMMA RefuseKeeps ==
    ASSUME BundleInv, Refuse PROVE BundleInv'
    BY DEF BundleInv, Refuse, BundleTypeOK, SumOf, Declared, Key

(* The first pass: one more entry, if the sum allows it. *)
LEMMA CheckEntryKeeps ==
    ASSUME BundleInv, CheckEntry PROVE BundleInv'
<1>1. CASE Refuse
    BY <1>1, RefuseKeeps
<1>2. ASSUME NEW entry \in Entries, Passes(entry), entries' = Append(entries, entry),
             UNCHANGED <<count, at, members, held>>, at = "checking"
      PROVE  BundleInv'
    <2> DEFINE n == Len(entries)
    <2>1. entries \in Seq(Entries) /\ n \in Nat /\ DOMAIN entries = 1..n /\ held = 0 /\ members = 0
        BY <1>2 DEF BundleInv, BundleTypeOK
    <2>2. /\ entries' \in Seq(Entries) /\ Len(entries') = n + 1 /\ DOMAIN entries' = 1..(n + 1)
          /\ entries'[n + 1] = entry /\ \A i \in 1..n : entries'[i] = entries[i]
        BY <1>2, <2>1
    <2>3. BundleTypeOK'
        BY <1>2, <2>1, <2>2 DEF BundleInv, BundleTypeOK
    <2>4. SumOf(Len(entries))' <= MaxTotal
        <3>1. SumOf(n) = SizeOf(entries)
            <4>1. SubSeq(entries, 1, n) = entries
                BY <2>1
            <4> QED
                BY <4>1 DEF SumOf
        <3>2. SumOf(Len(entries))' = SizeOf(Append(entries, entry))
            <4>1. SubSeq(entries', 1, Len(entries')) = Append(entries, entry)
                BY <1>2, <2>1, <2>2
            <4> QED
                BY <4>1 DEF SumOf
        <3>3. SizeOf(Append(entries, entry)) = SizeOf(entries) + entry.file_size
            BY <2>1, SumOfOneMore
        <3> QED
            BY <1>2, <3>1, <3>2, <3>3 DEF Passes, Fits
    <2>5. \A i \in DOMAIN entries' : Declared(i)' <= MaxMember
        BY <1>2, <2>1, <2>2 DEF BundleInv, Declared, Passes, Fits
    <2>6. \A i \in 1..n : Key(i)' = Key(i) /\ Key(i) # KeyOf[entry.name]
        BY <1>2, <2>1, <2>2 DEF Key, Passes, Taken
    <2>7. ASSUME NEW i \in 1..(n + 1), i \notin 1..n PROVE Key(i)' = KeyOf[entry.name]
        <3>1. entries'[i] = entry
            BY <2>1, <2>2, <2>7
        <3> QED
            BY <3>1 DEF Key
    <2>8. ASSUME NEW i \in 1..(n + 1), NEW j \in 1..(n + 1), i # j PROVE Key(i)' # Key(j)'
        <3>1. i \in 1..n \/ j \in 1..n
            BY <2>1, <2>8
        <3>2. CASE i \in 1..n /\ j \in 1..n
            BY <2>1, <2>6, <2>8, <3>2 DEF BundleInv
        <3>3. CASE i \notin 1..n \/ j \notin 1..n
            BY <2>6, <2>7, <3>1, <3>3
        <3> QED
            BY <2>1, <3>2, <3>3
    <2> QED
        BY <1>2, <2>1, <2>2, <2>3, <2>4, <2>5, <2>8 DEF BundleInv
<1> QED
    BY <1>1, <1>2 DEF CheckEntry

(* The end of the first pass, which compares the names with their parents. *)
LEMMA CheckAllKeeps ==
    ASSUME BundleInv, CheckAll PROVE BundleInv'
<1>1. CASE Refuse
    BY <1>1, RefuseKeeps
<1>2. CASE ~ParentCollision /\ at = "checking" /\ at' = "reading" /\ UNCHANGED <<count, entries, members, held>>
    <2>1. SumOf(members) = 0 /\ held = 0
        BY <1>2, SumGrows DEF BundleInv, BundleTypeOK
    <2>2. /\ SumOf(members)' = SumOf(members) /\ SumOf(Len(entries))' = SumOf(Len(entries))
          /\ ParentCollision' = ParentCollision
        BY <1>2 DEF SumOf, ParentCollision, Files, Key
    <2> QED
        BY <1>2, <2>1, <2>2 DEF BundleInv, BundleTypeOK, Declared, Key
<1> QED
    BY <1>1, <1>2 DEF CheckAll

(* The second pass: one more entry comes out, at most what it declares. *)
LEMMA ReadMemberKeeps ==
    ASSUME BundleInv, ReadMember PROVE BundleInv'
<1> DEFINE size == Declared(members + 1)
<1>1. PICK holds \in Sizes :
        /\ held' = held + Window(size, holds)
        /\ IF holds = size /\ held + size <= MaxTotal
           THEN members' = members + 1 /\ UNCHANGED at
           ELSE at' = "BundleError" /\ UNCHANGED members
    BY DEF ReadMember
<1>2. at = "reading" /\ members < Len(entries) /\ UNCHANGED <<count, entries>>
    BY DEF ReadMember
<1>3. entries \in Seq(Entries) /\ members \in 0..Len(entries) /\ Len(entries) \in Nat
    BY DEF BundleInv, BundleTypeOK
<1>4. members + 1 \in 1..Len(entries) /\ (members + 1) - 1 = members
    BY <1>2, <1>3
<1>5. entries[members + 1] \in Entries
    BY <1>3, <1>4
<1>6. size \in Nat /\ holds \in Nat
    BY <1>5, BundleAssumption DEF Declared, Entries
<1>7. SumOf(members + 1) = held + size /\ SumOf(members) \in Nat /\ held = SumOf(members)
    BY <1>2, <1>3, <1>4, SumGrows DEF BundleInv
<1>8. held + size <= MaxTotal
    <2>1. SumOf(members + 1) <= SumOf(Len(entries))
        BY <1>3, <1>4, SumIsMonotone
    <2>2. SumOf(Len(entries)) <= MaxTotal /\ SumOf(Len(entries)) \in Nat /\ MaxTotal \in Nat
        BY <1>3, SumGrows, BundleAssumption DEF BundleInv
    <2> QED
        BY <1>6, <1>7, <2>1, <2>2
<1> HIDE DEF size
<1>9. Window(size, holds) \in Nat /\ Window(size, holds) <= size + 1 /\ (holds = size => Window(size, holds) = size)
    BY <1>6 DEF Window
<1>10. held' \in Nat /\ held' <= MaxTotal + 1
    BY <1>1, <1>6, <1>7, <1>8, <1>9, BundleAssumption
<1>11. /\ \A k : SumOf(k)' = SumOf(k)
       /\ SumOf(Len(entries))' = SumOf(Len(entries)) /\ ParentCollision' = ParentCollision
       /\ \A i : Declared(i)' = Declared(i) /\ Key(i)' = Key(i)
    BY <1>2 DEF SumOf, ParentCollision, Files, Key, Declared
<1>12. CASE holds = size
    <2>1. members' = members + 1 /\ at' = at /\ held' = held + size
        BY <1>1, <1>8, <1>9, <1>12
    <2>2. held' = SumOf(members')
        BY <1>7, <2>1
    <2>3. SumOf(members)' = SumOf(members')
        BY <1>2 DEF SumOf
    <2> QED
        BY <1>2, <1>3, <1>4, <1>10, <1>11, <2>1, <2>2, <2>3 DEF BundleInv, BundleTypeOK
<1>13. CASE holds # size
    BY <1>1, <1>2, <1>3, <1>10, <1>11, <1>13 DEF BundleInv, BundleTypeOK
<1> QED
    BY <1>12, <1>13

(* The whole archive came out. *)
LEMMA InspectedKeeps ==
    ASSUME BundleInv, Inspected PROVE BundleInv'
<1>1. CASE Refuse
    BY <1>1, RefuseKeeps
<1>2. CASE at = "reading" /\ members = Len(entries) /\ at' = "inspected" /\ UNCHANGED <<count, entries, members, held>>
    BY <1>2 DEF BundleInv, BundleTypeOK, SumOf, ParentCollision, Files, Key, Declared
<1> QED
    BY <1>1, <1>2 DEF Inspected

(* What has come out is the sum of what was declared, which is within the limit. *)
LEMMA BundleInvBounds == BundleInv => ExpansionIsBounded
<1> SUFFICES ASSUME BundleInv, at = "inspected"
             PROVE  /\ held <= MaxTotal
                    /\ \A i \in Files, j \in DOMAIN entries : i # j => ~IsPrefix(Key(i), Key(j))
    BY DEF BundleInv, ExpansionIsBounded, Files
<1>1. held <= MaxTotal
    BY DEF BundleInv
<1>2. ~ParentCollision
    BY DEF BundleInv
<1> QED
    BY <1>1, <1>2 DEF ParentCollision

(* The inductive step, action by action. *)
LEMMA BundleInvHolds == BundleSpec => []BundleInv
<1>1. BundleInv /\ [BundleNext]_bundleVars => BundleInv'
    <2> SUFFICES ASSUME BundleInv, [BundleNext]_bundleVars PROVE BundleInv'
        OBVIOUS
    <2>1. CASE UNCHANGED bundleVars
        BY <2>1 DEF bundleVars, BundleInv, BundleTypeOK, SumOf, ParentCollision, Files, Key, Declared
    <2> QED
        BY <2>1, RefuseKeeps, CheckEntryKeeps, CheckAllKeeps, ReadMemberKeeps, InspectedKeeps
           DEF BundleNext, Damaged
<1> QED
    BY <1>1, BundleBegins, PTL DEF BundleSpec

(* Whatever an archive says of itself, no more comes out of inspect_zip than the
   limits allow, of one entry and of all together, and the names of what it hands
   out differ when folded: for archives of any number of entries, of any sizes and
   names (skill_bundle.py, inspect_zip). *)
THEOREM Bounded == BundleSpec => []ExpansionIsBounded
    BY BundleInvHolds, BundleInvBounds, PTL

(* Type correctness of an inspection. *)
THEOREM BundleTypeCorrect == BundleSpec => []BundleTypeOK
<1>1. BundleInv => BundleTypeOK
    BY DEF BundleInv
<1> QED
    BY <1>1, BundleInvHolds, PTL

-----------------------------------------------------------------------------
(* Authenticator, for journals of any length. *)

(* The tables fold_keys may make. *)
KeyTables == UNION {[K -> KeyRows] : K \in SUBSET Keys}
NoRows == [k \in {} |-> 0]

(* What an event of each type carries. *)
LEMMA KindsOfEvents ==
    ASSUME NEW event \in Events
    PROVE  /\ event.type \in {"apikey-issued", "apikey-revoked", "role-assigned"}
           /\ event.type # "role-assigned" => event.key \in Keys
           /\ event.type = "apikey-issued" => IssuedRow(event) \in KeyRows
           /\ event.type = "apikey-revoked" => event.dated \in BOOLEAN
           /\ event.type # "apikey-revoked" => event.role \in RolesGiven
<1>1. event \in [type : {"apikey-issued"}, key : Keys, role : RolesGiven, expires_at : Expiries \cup {Never}]
      \/ event \in [type : {"apikey-revoked"}, key : Keys, dated : BOOLEAN]
      \/ event \in [type : {"role-assigned"}, who : Subjects, role : RolesGiven]
    BY DEF Events
<1> QED
    BY <1>1 DEF IssuedRow, KeyRows

(* One event changes the row of the key it is about and no other. *)
LEMMA OneEvent ==
    ASSUME NEW rows \in KeyTables, NEW event \in Events
    PROVE  /\ Folded(rows, event) \in KeyTables
           /\ \A k \in Keys :
                (event.type = "role-assigned" \/ event.key # k) =>
                    /\ k \in DOMAIN Folded(rows, event) <=> k \in DOMAIN rows
                    /\ k \in DOMAIN rows => Folded(rows, event)[k] = rows[k]
           /\ event.type = "apikey-issued" =>
                /\ event.key \in DOMAIN Folded(rows, event)
                /\ Folded(rows, event)[event.key] = IssuedRow(event)
           /\ event.type = "apikey-revoked" =>
                /\ event.key \in DOMAIN Folded(rows, event) <=> event.key \in DOMAIN rows
                /\ event.key \in DOMAIN rows =>
                    /\ Folded(rows, event)[event.key].role = rows[event.key].role
                    /\ Folded(rows, event)[event.key].expires_at = rows[event.key].expires_at
                    /\ Folded(rows, event)[event.key].revoked <=> rows[event.key].revoked \/ event.dated
<1>0. PICK K \in SUBSET Keys : rows \in [K -> KeyRows]
    BY DEF KeyTables
<1>1. CASE event.type = "apikey-issued"
    <2> DEFINE new == [k \in DOMAIN rows \cup {event.key} |->
                        IF k = event.key THEN IssuedRow(event) ELSE rows[k]]
    <2>1. Folded(rows, event) = new
        BY <1>1 DEF Folded
    <2>2. event.key \in Keys /\ IssuedRow(event) \in KeyRows
        BY <1>1, KindsOfEvents
    <2>3. new = [k \in K \cup {event.key} |-> IF k = event.key THEN IssuedRow(event) ELSE rows[k]]
        BY <1>0
    <2> HIDE DEF new
    <2>4. new \in [K \cup {event.key} -> KeyRows]
        BY <1>0, <2>2, <2>3
    <2>5. K \cup {event.key} \in SUBSET Keys
        BY <2>2
    <2>6. new \in KeyTables
        BY <2>4, <2>5 DEF KeyTables
    <2> QED
        BY <1>0, <1>1, <2>1, <2>3, <2>6
<1>2. CASE event.type = "apikey-revoked" /\ event.key \in DOMAIN rows
    <2> DEFINE row1 == [rows[event.key] EXCEPT !.revoked = @ \/ event.dated]
               new == [rows EXCEPT ![event.key] = row1]
    <2>1. Folded(rows, event) = new
        BY <1>2 DEF Folded
    <2>2. rows[event.key] \in KeyRows /\ event.dated \in BOOLEAN
        BY <1>0, <1>2, KindsOfEvents
    <2>3. /\ row1 \in KeyRows
          /\ row1.role = rows[event.key].role /\ row1.expires_at = rows[event.key].expires_at
          /\ row1.revoked <=> rows[event.key].revoked \/ event.dated
        BY <2>2 DEF KeyRows
    <2> HIDE DEF row1
    <2>4. new \in [K -> KeyRows]
        BY <1>0, <2>3
    <2>5. new \in KeyTables
        BY <2>4 DEF KeyTables
    <2>6. /\ DOMAIN new = K /\ new[event.key] = row1
          /\ \A k \in K : k # event.key => new[k] = rows[k]
        BY <1>0, <1>2
    <2> HIDE DEF new
    <2> QED
        BY <1>0, <1>2, <2>1, <2>3, <2>5, <2>6
<1>3. CASE event.type # "apikey-issued" /\ ~(event.type = "apikey-revoked" /\ event.key \in DOMAIN rows)
    <2>1. Folded(rows, event) = rows
        BY <1>3 DEF Folded
    <2> QED
        BY <1>3, <2>1
<1> QED
    BY <1>1, <1>2, <1>3

(* The tables after each event of a sequence. *)
RunningTable(v, q) ==
    /\ v \in [0..Len(q) -> KeyTables]
    /\ v[0] = NoRows
    /\ \A k \in 1..Len(q) : v[k] = Folded(v[k - 1], q[k])

EventsFold(g, q) ==
    g = [s \in SUBSET DOMAIN q |->
            IF s = {} THEN NoRows ELSE Folded(g[s \ {Max(s)}], q[Max(s)])]

(* fold_keys is the last of the running tables. *)
LEMMA TableIsLast ==
    ASSUME NEW q \in Seq(Events)
    PROVE  \E v : RunningTable(v, q) /\ fold_keys(q) = v[Len(q)]
<1> DEFINE n == Len(q)
           g == CHOOSE g : EventsFold(g, q)
           step == [i \in 1..n |-> [r \in KeyTables |-> Folded(r, q[i])]]
<1>1. fold_keys(q) = g[DOMAIN q]
    BY DEF fold_keys, EventsFold, NoRows, FoldLeft, MapThenFoldSet
<1>2. n \in Nat /\ DOMAIN q = 1..n /\ \A i \in 1..n : q[i] \in Events
    OBVIOUS
<1>3. NoRows \in KeyTables
    <2>1. NoRows \in [{} -> KeyRows]
        BY DEF NoRows
    <2> QED
        BY <2>1 DEF KeyTables
<1>4. step \in [1..n -> [KeyTables -> KeyTables]]
    BY <1>2, OneEvent
<1>5. \E h : EventsFold(h, q)
    <2>1. PICK h \in [SUBSET (1..n) -> KeyTables] : FoldEquation(h, n, NoRows, step)
        <3> HIDE DEF n, step
        <3> QED
            BY <1>2, <1>3, <1>4, FoldExists
    <2>2. ASSUME NEW s \in SUBSET (1..n), s # {}
          PROVE  step[Max(s)][h[s \ {Max(s)}]] = Folded(h[s \ {Max(s)}], q[Max(s)])
        <3>1. Max(s) \in 1..n
            BY <1>2, <2>2, MaxOfSome
        <3>2. h[s \ {Max(s)}] \in KeyTables
            BY <2>1, <2>2
        <3> QED
            BY <3>1, <3>2
    <2>3. h = [s \in SUBSET (1..n) |-> IF s = {} THEN NoRows ELSE step[Max(s)][h[s \ {Max(s)}]]]
        BY <2>1 DEF FoldEquation
    <2> HIDE DEF step
    <2>4. h = [s \in SUBSET (1..n) |-> IF s = {} THEN NoRows ELSE Folded(h[s \ {Max(s)}], q[Max(s)])]
        BY <2>2, <2>3
    <2> QED
        BY <1>2, <2>4 DEF EventsFold
<1>6. EventsFold(g, q)
    BY <1>5
<1> HIDE DEF g
<1>7. g[{}] = NoRows /\ \A k \in 1..n : g[1..k] = Folded(g[1..(k - 1)], q[k])
    <2>1. g[{}] = NoRows
        BY <1>2, <1>6 DEF EventsFold
    <2>2. ASSUME NEW k \in 1..n PROVE g[1..k] = Folded(g[1..(k - 1)], q[k])
        <3>1. /\ 1..k \in SUBSET DOMAIN q /\ 1..k # {}
              /\ Max(1..k) = k /\ (1..k) \ {k} = 1..(k - 1)
            BY <1>2, InitialPart
        <3>2. g[1..k] = IF 1..k = {} THEN NoRows
                        ELSE Folded(g[(1..k) \ {Max(1..k)}], q[Max(1..k)])
            BY <1>6, <3>1 DEF EventsFold
        <3> QED
            BY <3>1, <3>2
    <2> QED
        BY <2>1, <2>2
<1> DEFINE v == [k \in 0..n |-> g[1..k]]
<1>8. \A k \in Nat : k \in {j \in Nat : j <= n => g[1..j] \in KeyTables}
    <2> DEFINE T == {j \in Nat : j <= n => g[1..j] \in KeyTables}
    <2>1. 1..0 = {}
        OBVIOUS
    <2>2. 0 \in T
        BY <1>3, <1>7, <2>1
    <2>3. ASSUME NEW j \in Nat, j \in T PROVE j + 1 \in T
        <3> SUFFICES ASSUME j + 1 <= n PROVE g[1..(j + 1)] \in KeyTables
            OBVIOUS
        <3>1. j + 1 \in 1..n /\ (j + 1) - 1 = j /\ g[1..j] \in KeyTables
            BY <1>2, <2>3
        <3>2. g[1..(j + 1)] = Folded(g[1..j], q[j + 1])
            BY <1>7, <3>1
        <3> QED
            BY <1>2, <3>1, <3>2, OneEvent
    <2> HIDE DEF T
    <2>4. \A k \in Nat : k \in T
        BY <2>2, <2>3, EveryNumber
    <2> QED
        BY <2>4 DEF T
<1>9. v \in [0..n -> KeyTables]
    BY <1>2, <1>8
<1>10. v[0] = NoRows
    <2>1. 1..0 = {} /\ 0 \in 0..n
        BY <1>2
    <2> QED
        BY <1>7, <2>1
<1>11. \A k \in 1..n : v[k] = Folded(v[k - 1], q[k])
    <2> TAKE k \in 1..n
    <2>1. k \in 0..n /\ k - 1 \in 0..n
        BY <1>2
    <2> QED
        BY <1>7, <2>1
<1>12. fold_keys(q) = v[n]
    BY <1>1, <1>2
<1> QED
    BY <1>9, <1>10, <1>11, <1>12 DEF RunningTable
-----------------------------------------------------------------------------
(* The first j events of a sequence that issue a key, and that revoke it at a
   time. *)
IssuesIn(q, k, j) == {i \in 1..j : q[i].type = "apikey-issued" /\ q[i].key = k}
DatedIn(q, k, j) == {i \in 1..j : q[i].type = "apikey-revoked" /\ q[i].key = k /\ q[i].dated}

(* A table has a row of a key when it was issued, of the last event that did so, and
   revoked when it was revoked after that. *)
AsLastSaid(rows, q, k, j) ==
    /\ k \in DOMAIN rows <=> IssuesIn(q, k, j) # {}
    /\ IssuesIn(q, k, j) # {} =>
        LET newest == Max(IssuesIn(q, k, j))
        IN  /\ rows[k].role = q[newest].role /\ rows[k].expires_at = q[newest].expires_at
            /\ rows[k].revoked <=> \E i \in DatedIn(q, k, j) : newest < i

(* An event that issues the key begins its row afresh; one that revokes it marks the
   row there is; no other touches it. *)
LEMMA LastSaysIt ==
    ASSUME NEW q \in Seq(Events), NEW k \in Keys, NEW v, RunningTable(v, q)
    PROVE  \A j \in 0..Len(q) : AsLastSaid(v[j], q, k, j)
<1> DEFINE n == Len(q)
           T == {j \in Nat : j <= n => AsLastSaid(v[j], q, k, j)}
<1>1. AsLastSaid(v[0], q, k, 0)
    <2>1. IssuesIn(q, k, 0) = {}
        BY DEF IssuesIn
    <2>2. v[0] = NoRows
        BY DEF RunningTable
    <2> QED
        BY <2>1, <2>2 DEF AsLastSaid, NoRows
<1>2. ASSUME NEW j \in Nat, AsLastSaid(v[j], q, k, j), j + 1 <= n
      PROVE  AsLastSaid(v[j + 1], q, k, j + 1)
    <2> DEFINE event == q[j + 1]
               old == IssuesIn(q, k, j)
               new == IssuesIn(q, k, j + 1)
               oldDated == DatedIn(q, k, j)
               newDated == DatedIn(q, k, j + 1)
    <2>1. n \in Nat /\ j + 1 \in 1..n /\ (j + 1) - 1 = j /\ j \in 0..n
        BY <1>2
    <2>2. event \in Events /\ v[j] \in KeyTables /\ v[j + 1] = Folded(v[j], event)
        BY <2>1 DEF RunningTable
    <2>0. old \in SUBSET (1..j) /\ oldDated \in SUBSET (1..j)
        BY DEF IssuesIn, DatedIn
    <2>7. old # {} => Max(old) \in old
        <3> HIDE DEF old, oldDated
        <3> QED
            BY <1>2, <2>0, MaxOfSome
    <2>3. CASE event.type = "apikey-issued" /\ event.key = k
        <3>1. new = old \cup {j + 1} /\ newDated = oldDated
            BY <2>1, <2>3 DEF IssuesIn, DatedIn
        <3> HIDE DEF new, old, newDated, oldDated, event
        <3>2. new \in SUBSET (1..(j + 1)) /\ new # {} /\ j + 1 \in new
            BY <1>2, <2>0, <3>1
        <3>3. Max(new) = j + 1
            <4>1. j + 1 \in Nat
                BY <1>2
            <4>2. Max(new) \in new /\ j + 1 <= Max(new)
                BY <3>2, <4>1, MaxOfSome
            <4>3. Max(new) \in 1..(j + 1)
                BY <3>2, <4>2
            <4> QED
                BY <1>2, <4>2, <4>3
        <3>4. k \in DOMAIN v[j + 1] /\ v[j + 1][k] = IssuedRow(event)
            BY <2>2, <2>3, OneEvent
        <3>5. \A i \in newDated : ~(j + 1 < i)
            BY <1>2, <2>0, <3>1
        <3>6. /\ v[j + 1][k].role = event.role /\ v[j + 1][k].expires_at = event.expires_at
              /\ v[j + 1][k].revoked = FALSE
            BY <3>4 DEF IssuedRow
        <3> QED
            BY <3>2, <3>3, <3>4, <3>5, <3>6 DEF AsLastSaid, new, newDated, event
    <2>4. CASE event.type = "apikey-revoked" /\ event.key = k
        <3>1. new = old /\ newDated = oldDated \cup (IF event.dated THEN {j + 1} ELSE {})
            BY <2>1, <2>4 DEF IssuesIn, DatedIn
        <3>2. event.dated \in BOOLEAN
            BY <2>2, <2>4, KindsOfEvents
        <3>3. /\ k \in DOMAIN v[j] <=> old # {}
              /\ old # {} =>
                    /\ v[j][k].role = q[Max(old)].role /\ v[j][k].expires_at = q[Max(old)].expires_at
                    /\ v[j][k].revoked <=> \E i \in oldDated : Max(old) < i
            BY <1>2 DEF AsLastSaid
        <3> HIDE DEF new, old, newDated, oldDated, event
        <3>4. /\ k \in DOMAIN v[j + 1] <=> k \in DOMAIN v[j]
              /\ k \in DOMAIN v[j] =>
                    /\ v[j + 1][k].role = v[j][k].role /\ v[j + 1][k].expires_at = v[j][k].expires_at
                    /\ v[j + 1][k].revoked <=> v[j][k].revoked \/ event.dated
            BY <2>2, <2>4, OneEvent
        <3>5. ASSUME old # {}
              PROVE  (\E i \in newDated : Max(old) < i) <=> (\E i \in oldDated : Max(old) < i) \/ event.dated
            <4>1. Max(old) \in 1..j
                BY <2>0, <2>7, <3>5
            <4>2. Max(old) < j + 1
                BY <1>2, <4>1
            <4>3. CASE event.dated
                BY <3>1, <4>2, <4>3
            <4>4. CASE ~event.dated
                BY <3>1, <4>4
            <4> QED
                BY <4>3, <4>4
        <3> QED
            BY <3>1, <3>3, <3>4, <3>5 DEF AsLastSaid, new, newDated
    <2>5. CASE event.type = "role-assigned" \/ event.key # k
        <3>1. new = old /\ newDated = oldDated
            BY <2>1, <2>5 DEF IssuesIn, DatedIn
        <3> HIDE DEF new, old, newDated, oldDated, event
        <3>2. /\ k \in DOMAIN v[j + 1] <=> k \in DOMAIN v[j]
              /\ k \in DOMAIN v[j] => v[j + 1][k] = v[j][k]
            BY <2>2, <2>5, OneEvent
        <3> QED
            BY <1>2, <3>1, <3>2 DEF AsLastSaid, new, old, newDated, oldDated
    <2>6. event.type \in {"apikey-issued", "apikey-revoked", "role-assigned"}
        BY <2>2, KindsOfEvents
    <2> QED
        BY <2>3, <2>4, <2>5, <2>6
<1> HIDE DEF n
<1>3. 0 \in T
    BY <1>1
<1>4. ASSUME NEW j \in Nat, j \in T PROVE j + 1 \in T
    <2>1. CASE j + 1 <= n
        <3>1. j <= n
            BY <2>1, n \in Nat DEF n
        <3> QED
            BY <1>2, <1>4, <2>1, <3>1
    <2>2. CASE ~(j + 1 <= n)
        BY <2>2
    <2> QED
        BY <2>1, <2>2
<1>5. \A j \in Nat : j \in T
    <2> HIDE DEF T
    <2> QED
        BY <1>3, <1>4, EveryNumber
<1> QED
    BY <1>5 DEF n

-----------------------------------------------------------------------------
(* The service has taken in a part of its journal, and its table is that part
   folded. *)
AuthInv == AuthTypeOK /\ table = fold_keys(SubSeq(journal, 1, read))

(* Whatever a journal holds, fold_keys makes a table of it. *)
LEMMA FoldIsATable ==
    ASSUME NEW q \in Seq(Events)
    PROVE  DOMAIN fold_keys(q) \subseteq Keys /\ \A k \in DOMAIN fold_keys(q) : fold_keys(q)[k] \in KeyRows
<1>1. PICK v : RunningTable(v, q) /\ fold_keys(q) = v[Len(q)]
    BY TableIsLast
<1>2. Len(q) \in 0..Len(q)
    OBVIOUS
<1>3. fold_keys(q) \in KeyTables
    BY <1>1, <1>2 DEF RunningTable
<1> QED
    BY <1>3 DEF KeyTables

(* An empty journal makes an empty table. *)
LEMMA AuthBegins == AuthInit => AuthInv
<1> SUFFICES ASSUME AuthInit PROVE AuthInv
    OBVIOUS
<1>1. journal \in Seq(Events) /\ Len(journal) = 0 /\ SubSeq(journal, 1, 0) = journal
    BY DEF AuthInit
<1>2. DOMAIN table \subseteq Keys /\ \A k \in DOMAIN table : table[k] \in KeyRows
    BY <1>1, FoldIsATable DEF AuthInit
<1>3. read = 0 /\ now \in 0..MaxTime /\ table = fold_keys(SubSeq(journal, 1, read))
    <2>1. MaxTime \in Nat
        BY AuthAssumption
    <2>2. read = 0 /\ now = 0 /\ table = fold_keys(journal)
        BY DEF AuthInit
    <2>3. SubSeq(journal, 1, read) = journal
        BY <1>1, <2>2
    <2>4. now \in 0..MaxTime
        BY <2>1, <2>2
    <2>5. table = fold_keys(SubSeq(journal, 1, read))
        BY Zenon, <2>2, <2>3
    <2> QED
        BY <2>2, <2>4, <2>5
<1>4. read \in 0..Len(journal)
    BY <1>1, <1>3
<1> QED
    BY <1>1, <1>2, <1>3, <1>4 DEF AuthInv, AuthTypeOK

(* The journal grows, the service reads more of it, and the clock goes on. *)
LEMMA AuthNextKeeps ==
    ASSUME AuthInv, [AuthNext]_authVars PROVE AuthInv'
<1>1. /\ journal \in Seq(Events) /\ read \in 0..Len(journal) /\ now \in 0..MaxTime /\ MaxTime \in Nat
      /\ Len(journal) \in Nat
    BY AuthAssumption DEF AuthInv, AuthTypeOK
<1>2. CASE RecordEvent
    <2>1. PICK event \in Events : journal' = Append(journal, event)
        BY <1>2 DEF RecordEvent
    <2>2. journal' \in Seq(Events) /\ Len(journal') = Len(journal) + 1
        BY <1>1, <2>1
    <2>3. SubSeq(journal', 1, read) = SubSeq(journal, 1, read)
        BY <1>1, <2>1
    <2>4. UNCHANGED <<read, table, now>> /\ read' \in 0..Len(journal')
        BY <1>1, <1>2, <2>2 DEF RecordEvent
    <2> QED
        BY <2>2, <2>3, <2>4 DEF AuthInv, AuthTypeOK
<1>3. CASE ReadJournal
    <2>1. read' \in 0..Len(journal) /\ UNCHANGED <<journal, now>> /\ table' = fold_keys(SubSeq(journal, 1, read'))
        BY <1>1, <1>3 DEF ReadJournal
    <2>2. SubSeq(journal, 1, read') \in Seq(Events)
        BY <1>1, <2>1
    <2> QED
        BY <1>1, <2>1, <2>2, FoldIsATable DEF AuthInv, AuthTypeOK
<1>4. CASE ClockTicks
    BY <1>1, <1>4 DEF ClockTicks, AuthInv, AuthTypeOK
<1>5. CASE UNCHANGED authVars
    BY <1>5 DEF authVars, AuthInv, AuthTypeOK
<1> QED
    BY <1>2, <1>3, <1>4, <1>5 DEF AuthNext

(* What the table has of a key, in terms of the journal. *)
LEMMA TableAsLastSaid ==
    ASSUME AuthInv, NEW k \in Keys
    PROVE  /\ k \in DOMAIN table <=> Issues(k) # {}
           /\ Issues(k) # {} =>
                LET newest == journal[Max(Issues(k))]
                IN  /\ Max(Issues(k)) \in Issues(k) /\ newest \in Events
                    /\ table[k].role = newest.role /\ table[k].expires_at = newest.expires_at
                    /\ table[k].revoked <=> \E i \in Dated(k) : Max(Issues(k)) < i
<1> DEFINE q == SubSeq(journal, 1, read)
<1>1. journal \in Seq(Events) /\ read \in 0..Len(journal) /\ Len(journal) \in Nat /\ table = fold_keys(q)
    BY DEF AuthInv, AuthTypeOK
<1>2. q \in Seq(Events) /\ Len(q) = read /\ \A i \in 1..read : q[i] = journal[i]
    BY <1>1
<1> HIDE DEF q
<1>3. PICK v : RunningTable(v, q) /\ table = v[read]
    BY <1>1, <1>2, TableIsLast
<1>4. AsLastSaid(table, q, k, read)
    BY <1>1, <1>2, <1>3, LastSaysIt
<1>5. IssuesIn(q, k, read) = Issues(k) /\ DatedIn(q, k, read) = Dated(k)
    BY <1>2 DEF IssuesIn, DatedIn, Issues, Dated, Revocations
<1>6. ASSUME Issues(k) # {}
      PROVE  Max(Issues(k)) \in Issues(k) /\ Max(Issues(k)) \in 1..read
    <2>1. Issues(k) \in SUBSET (1..read) /\ read \in Nat
        BY <1>1 DEF Issues
    <2>2. Max(Issues(k)) \in Issues(k)
        BY <1>1, <1>6, <2>1, MaxOfSome
    <2> QED
        BY <2>1, <2>2
<1>7. ASSUME Issues(k) # {} PROVE journal[Max(Issues(k))] = q[Max(Issues(k))] /\ journal[Max(Issues(k))] \in Events
    BY <1>1, <1>2, <1>6, <1>7
<1> QED
    BY <1>4, <1>5, <1>6, <1>7 DEF AsLastSaid

(* program_from_key asks the row, and that says what the last event that issued the
   key said, and whether it was revoked since. *)
LEMMA KeyStands == AuthInv => AcceptedKeyStands
<1> SUFFICES ASSUME AuthInv, NEW k \in Keys
             PROVE  program_from_key(k).accepted <=> Stands(k)
    BY DEF AcceptedKeyStands
<1> DEFINE newest == Max(Issues(k))
<1>1. program_from_key(k).accepted <=> k \in DOMAIN table /\ ~table[k].revoked /\ ~expired(table[k])
    BY DEF program_from_key, Principal, Refusal
<1>2. CASE Issues(k) = {}
    BY <1>1, <1>2, TableAsLastSaid DEF Stands
<1>3. CASE Issues(k) # {}
    <2>1. /\ newest \in Issues(k) /\ journal[newest] \in Events /\ k \in DOMAIN table
          /\ table[k].expires_at = journal[newest].expires_at
          /\ table[k].revoked <=> \E i \in Dated(k) : newest < i
        BY <1>3, TableAsLastSaid
    <2>2. journal[newest].expires_at \in Expiries \cup {Never}
        BY <2>1 DEF Issues, Events
    <2>3. now * Second \in Nat
        BY AuthAssumption DEF AuthInv, AuthTypeOK
    <2>4. ~expired(table[k]) <=> journal[newest].expires_at = Never \/ journal[newest].expires_at > now * Second
        <3>1. CASE journal[newest].expires_at = Never
            BY <2>1, <3>1 DEF expired
        <3>2. CASE journal[newest].expires_at # Never
            <4>1. journal[newest].expires_at \in Nat
                BY <2>2, <3>2, AuthAssumption
            <4>2. expired(table[k]) <=> journal[newest].expires_at <= now * Second
                BY <2>1, <3>2 DEF expired
            <4> HIDE DEF newest
            <4> QED
                BY <2>3, <3>2, <4>1, <4>2
        <3> QED
            BY <3>1, <3>2
    <2>5. ~table[k].revoked <=> \A i \in Dated(k) : i < newest
        <3>1. ASSUME NEW i \in Dated(k) PROVE ~(newest < i) <=> i < newest
            <4>1. read \in Nat /\ i \in 1..read /\ newest \in 1..read
                BY <2>1 DEF AuthInv, AuthTypeOK, Dated, Revocations, Issues
            <4>2. i # newest
                BY <2>1 DEF Dated, Revocations, Issues
            <4> HIDE DEF newest
            <4> QED
                BY <4>1, <4>2
        <3> QED
            BY <2>1, <3>1
    <2> QED
        BY <1>1, <1>3, <2>1, <2>4, <2>5 DEF Stands
<1> QED
    BY <1>2, <1>3

(* verify_bearer_jwt takes a token only past all of its refusals. *)
LEMMA TokenIsOwn == AuthInv => AcceptedTokenIsOwn
<1> SUFFICES ASSUME AuthInv, NEW token \in Tokens, Bearer(token).accepted
             PROVE  /\ token.iss \in Issuers
                    /\ [alg |-> token.alg, signer |-> token.signer] \in
                            {Jwks[token.iss][kid] : kid \in DOMAIN Jwks[token.iss]}
                    /\ token.aud = AudienceOf[token.iss]
                    /\ token.nbf <= now + Leeway /\ now < token.exp + Leeway
    BY DEF AcceptedTokenIsOwn
<1> DEFINE jwk == Jwks[token.iss][token.kid]
<1>1. verify_bearer_jwt(token) = "ok"
    BY DEF Bearer, Refusal
<1>2. token.iss \in Issuers
    BY <1>1 DEF verify_bearer_jwt
<1>3. jwk # NoJwk /\ token.alg = jwk.alg /\ token.signer = jwk.signer
    BY <1>1, <1>2 DEF verify_bearer_jwt, key_for
<1>4. token.kid \in DOMAIN Jwks[token.iss]
    BY <1>2, AuthAssumption
<1>5. jwk = [alg |-> token.alg, signer |-> token.signer]
    BY <1>2, <1>3, <1>4, AuthAssumption
<1>6. /\ token.aud = AudienceOf[token.iss]
      /\ ~(token.exp + Leeway <= now) /\ ~(token.nbf > now + Leeway)
    BY <1>1, <1>2, <1>3 DEF verify_bearer_jwt, key_for
<1>7. token.exp \in Nat /\ token.nbf \in Nat /\ now \in Nat /\ Leeway \in Nat
    BY AuthAssumption DEF AuthInv, AuthTypeOK
<1> QED
    BY <1>2, <1>4, <1>5, <1>6, <1>7

(* What the service assigned to a subject it has a role of. *)
LEMMA AssignedIsGiven ==
    ASSUME AuthInv, NEW token, Assignments(token.iss, token.sub) # {}
    PROVE  /\ Assigned(token) = journal[Max(Assignments(token.iss, token.sub))].role
           /\ Assigned(token) # "none"
<1> DEFINE given == Assignments(token.iss, token.sub)
<1>1. journal \in Seq(Events) /\ read \in 0..Len(journal) /\ read \in Nat /\ given \in SUBSET (1..read)
    BY DEF AuthInv, AuthTypeOK, Assignments
<1>2. Max(given) \in given
    <2> HIDE DEF given
    <2> QED
        BY <1>1, MaxOfSome DEF given
<1>3. journal[Max(given)] \in Events /\ journal[Max(given)].type = "role-assigned"
    BY <1>1, <1>2 DEF Assignments
<1>4. journal[Max(given)].role \in ROLES
    BY <1>3, KindsOfEvents, AuthAssumption
<1>5. Assigned(token) = journal[Max(given)].role
    BY DEF Assigned
<1> QED
    BY <1>4, <1>5 DEF ROLES

(* There is a greatest role among those of the groups, and it is one of them. *)
LEMMA MappedIsMapped ==
    ASSUME NEW token, Mapped(token) # "none"
    PROVE  Mapped(token) \in {RoleMap[group] : group \in token.groups \cap DOMAIN RoleMap}
<1> DEFINE roles == {RoleMap[group] : group \in token.groups \cap DOMAIN RoleMap}
<1>1. roles \subseteq ROLES
    BY AuthAssumption
<1> HIDE DEF roles
<1>2. roles # {} /\ Mapped(token) = CHOOSE role \in roles : \A one \in roles : ROLE_RANK[role] >= ROLE_RANK[one]
    BY DEF Mapped, roles
<1>3. \E role \in roles : \A one \in roles : ROLE_RANK[role] >= ROLE_RANK[one]
    <2>1. ROLE_RANK["reader"] = 0 /\ ROLE_RANK["agent"] = 1 /\ ROLE_RANK["reviewer"] = 2 /\ ROLE_RANK["admin"] = 3
        BY DEF ROLE_RANK
    <2>2. CASE "admin" \in roles
        BY <1>1, <2>1, <2>2 DEF ROLES
    <2>3. CASE "admin" \notin roles /\ "reviewer" \in roles
        BY <1>1, <2>1, <2>3 DEF ROLES
    <2>4. CASE "admin" \notin roles /\ "reviewer" \notin roles /\ "agent" \in roles
        BY <1>1, <2>1, <2>4 DEF ROLES
    <2>5. CASE roles = {"reader"}
        BY <2>1, <2>5
    <2> QED
        BY <1>1, <1>2, <2>2, <2>3, <2>4, <2>5 DEF ROLES
<1>4. Mapped(token) \in roles
    BY <1>2, <1>3
<1> QED
    BY <1>4 DEF roles

(* Each way to call, and where its role comes from. *)
LEMMA GivenRoles == AuthInv => RoleIsGiven
<1> SUFFICES ASSUME AuthInv, NEW request \in Requests, principal(request).accepted
             PROVE
        CASE request.via = "socket" -> principal(request).role = "admin" => request.uid = OwnerUid
          [] request.via = "api_key" ->
                principal(request).role = journal[Max(Issues(request.key))].role
          [] request.via = "oidc" ->
                IF Assignments(request.token.iss, request.token.sub) # {}
                THEN principal(request).role =
                        journal[Max(Assignments(request.token.iss, request.token.sub))].role
                ELSE principal(request).role # "reader" =>
                    /\ request.token.iss = PersonIssuer
                    /\ \/ principal(request).role = "admin" /\ {request.token.sub, request.token.email} \cap Admins # {}
                       \/ principal(request).role \in
                            {RoleMap[group] : group \in request.token.groups \cap DOMAIN RoleMap}
    BY DEF RoleIsGiven
<1>1. CASE request.via = "socket"
    <2>1. principal(request).role = "admin" => request.uid = OwnerUid
        BY <1>1 DEF principal, Principal
    <2> QED
        BY <1>1, <2>1
<1>2. CASE request.via = "api_key"
    <2> DEFINE k == request.key
    <2>1. k \in Keys
        BY <1>2 DEF Requests
    <2>2. principal(request) = program_from_key(k)
        BY <1>2 DEF principal
    <2>3. program_from_key(k).accepted
        BY <2>2
    <2>4. Issues(k) # {}
        BY <2>1, <2>3, KeyStands DEF AcceptedKeyStands, Stands
    <2>5. table[k].role = journal[Max(Issues(k))].role
        BY <2>1, <2>4, TableAsLastSaid
    <2>6. program_from_key(k).role = table[k].role
        BY <2>3 DEF program_from_key, Principal, Refusal
    <2> QED
        BY <1>2, <2>2, <2>5, <2>6
<1>3. CASE request.via = "oidc"
    <2> DEFINE token == request.token
    <2>1. principal(request) = Bearer(token)
        BY <1>3 DEF principal
    <2>2. principal(request).role =
            IF token.iss = PersonIssuer THEN PersonRole(token) ELSE WorkloadRole(token)
        BY <2>1 DEF Bearer, Principal, Refusal
    <2>3. CASE Assignments(token.iss, token.sub) # {}
        BY <1>3, <2>2, <2>3, AssignedIsGiven DEF PersonRole, WorkloadRole
    <2>4. CASE Assignments(token.iss, token.sub) = {}
        <3>1. Assigned(token) = "none"
            BY <2>4 DEF Assigned
        <3>2. principal(request).role # "reader" =>
                /\ token.iss = PersonIssuer
                /\ \/ principal(request).role = "admin" /\ {token.sub, token.email} \cap Admins # {}
                   \/ Mapped(token) # "none" /\ principal(request).role = Mapped(token)
            BY <2>2, <3>1 DEF PersonRole, WorkloadRole
        <3> QED
            BY <1>3, <2>4, <3>2, MappedIsMapped
    <2> QED
        BY <2>3, <2>4
<1>4. request.via \in {"socket", "api_key", "oidc", "nothing", "garbled"}
    BY DEF Requests
<1>5. request.via \notin {"nothing", "garbled"}
    BY DEF principal, Refusal
<1> QED
    BY <1>1, <1>2, <1>3, <1>4, <1>5

(* Type correctness of the journal, the key table and the clock: whatever is in a
   journal, fold_keys makes rows of it and nothing else, for journals of any length. *)
THEOREM AuthTypeCorrect == AuthSpec => []AuthTypeOK
<1>1. AuthInv /\ [AuthNext]_authVars => AuthInv'
    BY AuthNextKeeps
<1>2. AuthInv => AuthTypeOK
    BY DEF AuthInv
<1> QED
    BY <1>1, <1>2, AuthBegins, PTL DEF AuthSpec

(* Nobody passes for somebody else: what an accepted key, token or socket peer may
   do was given to it, for any journal, any order of events, any key sets and
   tokens of the issuers and any configuration (auth.py, Authenticator.principal). *)
THEOREM Own == AuthSpec => []CallerIsOwn
<1>1. AuthInv /\ [AuthNext]_authVars => AuthInv'
    BY AuthNextKeeps
<1> QED
    BY <1>1, AuthBegins, KeyStands, TokenIsOwn, GivenRoles, PTL DEF AuthSpec, CallerIsOwn

-----------------------------------------------------------------------------
(* Module Listing.  Positions move: a row that joins pushes those behind it back by
   one, a row that leaves draws them forward by one. *)

(* The positions of a sequence after an element came into it. *)
LEMMA AfterInsert ==
    ASSUME NEW S, NEW s \in Seq(S), NEW i \in 1..(Len(s) + 1), NEW e \in S
    PROVE  /\ InsertAt(s, i, e) \in Seq(S) /\ Len(InsertAt(s, i, e)) = Len(s) + 1
           /\ \A j \in 1..(Len(s) + 1) :
                InsertAt(s, i, e)[j] = IF j < i THEN s[j] ELSE IF j = i THEN e ELSE s[j - 1]
<1> DEFINE a == SubSeq(s, 1, i - 1)
           b == SubSeq(s, i, Len(s))
           c == a \o <<e>>
<1>1. Len(s) \in Nat /\ i \in Int /\ i - 1 \in Int
    OBVIOUS
<1>2. a \in Seq(S) /\ Len(a) = i - 1 /\ \A j \in 1..(i - 1) : a[j] = s[j]
    BY <1>1
<1>3. b \in Seq(S) /\ Len(b) = Len(s) - i + 1 /\ \A j \in 1..(Len(s) - i + 1) : b[j] = s[i + j - 1]
    BY <1>1
<1>4. <<e>> \in Seq(S) /\ Len(<<e>>) = 1 /\ <<e>>[1] = e
    OBVIOUS
<1> HIDE DEF a, b
<1>5. c \in Seq(S) /\ Len(c) = i /\ \A j \in 1..i : c[j] = IF j <= i - 1 THEN a[j] ELSE e
    <2>1. /\ c \in Seq(S) /\ Len(c) = Len(a) + 1
          /\ \A j \in 1..(Len(a) + 1) : c[j] = IF j <= Len(a) THEN a[j] ELSE <<e>>[j - Len(a)]
        BY <1>2, <1>4, ConcatProperties
    <2>2. Len(a) + 1 = i
        BY <1>1, <1>2
    <2> HIDE DEF c
    <2>3. ASSUME NEW j \in 1..i PROVE c[j] = IF j <= i - 1 THEN a[j] ELSE e
        <3>1. CASE j <= i - 1
            BY <1>2, <2>1, <2>2, <3>1
        <3>2. CASE j = i
            BY <1>1, <1>2, <1>4, <2>1, <2>2, <3>2
        <3>3. j <= i - 1 \/ j = i
            BY <1>1
        <3> QED
            BY <3>1, <3>2, <3>3
    <2> QED
        BY <2>1, <2>2, <2>3
<1> HIDE DEF c
<1>6. /\ c \o b \in Seq(S) /\ Len(c \o b) = Len(c) + Len(b)
      /\ \A j \in 1..(Len(c) + Len(b)) : (c \o b)[j] = IF j <= Len(c) THEN c[j] ELSE b[j - Len(c)]
    BY <1>3, <1>5, ConcatProperties
<1>7. Len(c) + Len(b) = Len(s) + 1
    BY <1>1, <1>3, <1>5
<1>8. InsertAt(s, i, e) = c \o b
    BY DEF InsertAt, a, b, c
<1>9. ASSUME NEW j \in 1..(Len(s) + 1)
      PROVE  (c \o b)[j] = IF j < i THEN s[j] ELSE IF j = i THEN e ELSE s[j - 1]
    <2>1. CASE j < i
        BY <1>1, <1>2, <1>5, <1>6, <1>7, <2>1
    <2>2. CASE j = i
        BY <1>1, <1>5, <1>6, <1>7, <2>2
    <2>3. CASE j > i
        <3>1. (c \o b)[j] = b[j - i]
            BY <1>1, <1>5, <1>6, <1>7, <2>3
        <3>2. j - i \in 1..(Len(s) - i + 1) /\ i + (j - i) - 1 = j - 1
            BY <1>1, <2>3
        <3>3. b[j - i] = s[i + (j - i) - 1]
            BY <1>3, <3>2
        <3> QED
            BY <1>1, <2>3, <3>1, <3>2, <3>3
    <2>4. j < i \/ j = i \/ j > i
        BY <1>1
    <2> QED
        BY <2>1, <2>2, <2>3, <2>4
<1> QED
    BY <1>6, <1>7, <1>8, <1>9

(* The positions of a sequence after the element at one of them went. *)
LEMMA AfterRemove ==
    ASSUME NEW S, NEW s \in Seq(S), NEW i \in 1..Len(s)
    PROVE  /\ RemoveAt(s, i) \in Seq(S) /\ Len(RemoveAt(s, i)) = Len(s) - 1
           /\ \A j \in 1..(Len(s) - 1) : RemoveAt(s, i)[j] = IF j < i THEN s[j] ELSE s[j + 1]
<1> DEFINE a == SubSeq(s, 1, i - 1)
           b == SubSeq(s, i + 1, Len(s))
<1>1. Len(s) \in Nat /\ i \in Int /\ i - 1 \in Int /\ i + 1 \in Int
    OBVIOUS
<1>2. a \in Seq(S) /\ Len(a) = i - 1 /\ \A j \in 1..(i - 1) : a[j] = s[j]
    BY <1>1
<1>3. b \in Seq(S) /\ Len(b) = Len(s) - i /\ \A j \in 1..(Len(s) - i) : b[j] = s[i + j]
    BY <1>1
<1> HIDE DEF a, b
<1>4. /\ a \o b \in Seq(S) /\ Len(a \o b) = Len(a) + Len(b)
      /\ \A j \in 1..(Len(a) + Len(b)) : (a \o b)[j] = IF j <= Len(a) THEN a[j] ELSE b[j - Len(a)]
    BY <1>2, <1>3, ConcatProperties
<1>5. Len(a) + Len(b) = Len(s) - 1
    BY <1>1, <1>2, <1>3
<1>6. RemoveAt(s, i) = a \o b
    BY DEF RemoveAt, a, b
<1>7. ASSUME NEW j \in 1..(Len(s) - 1)
      PROVE  (a \o b)[j] = IF j < i THEN s[j] ELSE s[j + 1]
    <2>1. CASE j < i
        BY <1>1, <1>2, <1>4, <1>5, <2>1
    <2>2. CASE j >= i
        <3>1. (a \o b)[j] = b[j - (i - 1)]
            BY <1>1, <1>2, <1>4, <1>5, <2>2
        <3>2. j - (i - 1) \in 1..(Len(s) - i) /\ i + (j - (i - 1)) = j + 1
            BY <1>1, <2>2
        <3>3. b[j - (i - 1)] = s[i + (j - (i - 1))]
            BY <1>3, <3>2
        <3> QED
            BY <1>1, <2>2, <3>1, <3>2, <3>3
    <2>3. j < i \/ j >= i
        BY <1>1
    <2> QED
        BY <2>1, <2>2, <2>3
<1> QED
    BY <1>4, <1>5, <1>6, <1>7

(* The offset counts the rows handed over. *)
OffsetIsSeen == listing.at = "more" => listing.offset = Len(handed)

(* An iteration that ended without an error has seen as many as the total says. *)
DoneIsDone == listing.at = "done" => listing.total <= Len(handed)

(* What was handed over or joined is all there is up to the offset, if none left. *)
SeenUpToHere ==
    left = {} =>
        \A i \in 1..Len(inventory) : i <= Len(handed) => inventory[i] \in ToSet(handed) \cup joined

(* What was handed over does not come behind the offset, if none joined. *)
NoneAhead ==
    joined = {} => \A i \in 1..Len(inventory) : i > Len(handed) => inventory[i] \notin ToSet(handed)

ListingInv ==
    /\ ListingTypeOK /\ OffsetIsSeen /\ DoneIsDone
    /\ SeenUpToHere /\ NoneAhead /\ NoRowIsRepeated

(* What from_response lets through: a page that was asked for, and that either
   reaches the end of the inventory or names the offset after its last row. *)
LEMMA PageIsSound ==
    ASSUME NEW page \in Answers, NEW offset \in Nat, from_response(page, offset)
    PROVE  /\ page.rows \in 0..MaxRows /\ page.total \in 0..MaxRows /\ page.offset = offset
           /\ page.has_more \in BOOLEAN
           /\ page.has_more => page.next_offset = offset + page.rows /\ page.next_offset \in 0..MaxRows
           /\ ~page.has_more => offset + page.rows >= page.total
BY ListingAssumption DEF Answers, from_response, Follows, None

(* Nothing is handed over before the first page. *)
LEMMA ListingBegins == ListingInit => ListingInv
<1> SUFFICES ASSUME ListingInit PROVE ListingInv
    OBVIOUS
<1>1. PICK n \in 0..MaxRows : inventory = [i \in 1..n |-> i]
    BY DEF ListingInit
<1>2. MaxRows \in Nat /\ MaxPages \in Nat
    BY ListingAssumption
<1>3. inventory \in Seq(Rows) /\ IsInjective(inventory)
    BY <1>1, <1>2 DEF Rows, IsInjective
<1>4. handed = <<>> /\ handed \in Seq(Rows) /\ Len(handed) = 0 /\ ToSet(handed) = {} /\ DOMAIN handed = {}
    BY DEF ListingInit, ToSet
<1>5. listing = [at |-> "more", offset |-> 0, pages |-> 0, total |-> 0] /\ joined = {} /\ left = {}
    BY DEF ListingInit
<1>6. listing \in Listings
    BY <1>2, <1>5 DEF Listings
<1>7. SeenUpToHere
    <2>1. Len(inventory) \in Nat
        BY <1>3
    <2> QED
        BY <1>4, <2>1 DEF SeenUpToHere
<1> QED
    BY <1>3, <1>4, <1>5, <1>6, <1>7
       DEF ListingInv, ListingTypeOK, OffsetIsSeen, DoneIsDone, NoneAhead, NoRowIsRepeated, IsInjective

(* A page that is taken holds the rows at the offset, and these are the next. *)
LEMMA PageKeeps ==
    ASSUME ListingInv, NEW page \in Answers, HasRowsOf(page), listing.at = "more", listing.pages < MaxPages,
           from_response(page, listing.offset),
           listing' = [at |-> IF page.has_more THEN "more" ELSE "done",
                       offset |-> IF page.has_more THEN page.next_offset ELSE listing.offset,
                       pages |-> listing.pages + 1,
                       total |-> page.total],
           handed' = handed \o RowsOf(page),
           UNCHANGED <<inventory, joined, left>>
    PROVE  ListingInv'
<1> DEFINE n == Len(handed)
           m == page.rows
           rows == RowsOf(page)
<1>1. /\ listing \in Listings /\ handed \in Seq(Rows) /\ inventory \in Seq(Rows) /\ IsInjective(inventory)
      /\ joined \subseteq Rows /\ left \subseteq Rows /\ listing.offset = n
      /\ n \in Nat /\ Len(inventory) \in Nat /\ n \in 0..MaxRows
    BY DEF ListingInv, ListingTypeOK, OffsetIsSeen, Listings
<1>2. /\ m \in 0..MaxRows /\ m \in Nat /\ page.total \in 0..MaxRows /\ page.offset = n /\ page.has_more \in BOOLEAN
      /\ page.has_more => page.next_offset = n + m /\ page.next_offset \in 0..MaxRows
      /\ ~page.has_more => n + m >= page.total
    BY <1>1, PageIsSound
<1>3. \A i \in (n + 1)..(n + m) : i \in 1..Len(inventory)
    BY <1>1, <1>2 DEF HasRowsOf
<1>4. rows \in Seq(Rows) /\ Len(rows) = m /\ \A j \in 1..m : rows[j] = inventory[n + j]
    <2>1. rows = SubSeq(inventory, n + 1, n + m)
        BY <1>2 DEF RowsOf
    <2>2. n + 1 \in Int /\ n + m \in Int /\ \A i \in (n + 1)..(n + m) : inventory[i] \in Rows
        BY <1>1, <1>2, <1>3
    <2> DEFINE p == n + 1
               z == n + m
    <2>3. p \in Int /\ z \in Int /\ \A i \in p..z : inventory[i] \in Rows
        BY <2>2
    <2> HIDE DEF p, z, n, m
    <2>4. /\ SubSeq(inventory, p, z) \in Seq(Rows)
          /\ Len(SubSeq(inventory, p, z)) = IF p <= z THEN z - p + 1 ELSE 0
          /\ \A j \in 1..(z - p + 1) : SubSeq(inventory, p, z)[j] = inventory[p + j - 1]
        BY <2>3, SubSeqProperties
    <2>5. z - p + 1 = m /\ (IF p <= z THEN z - p + 1 ELSE 0) = m
        BY <1>1, <1>2 DEF p, z
    <2>6. \A j \in 1..m : p + j - 1 = n + j
        BY <1>1, <1>2 DEF p
    <2>7. rows = SubSeq(inventory, p, z)
        BY <2>1 DEF p, z
    <2> QED
        BY <2>4, <2>5, <2>6, <2>7
<1> HIDE DEF n, m, rows
<1>5. /\ handed' \in Seq(Rows) /\ Len(handed') = n + m
      /\ \A j \in 1..(n + m) : handed'[j] = IF j <= n THEN handed[j] ELSE rows[j - n]
    <2>1. handed' = handed \o rows
        BY DEF rows
    <2>2. /\ handed \o rows \in Seq(Rows) /\ Len(handed \o rows) = Len(handed) + Len(rows)
          /\ \A j \in 1..(Len(handed) + Len(rows)) :
                (handed \o rows)[j] = IF j <= Len(handed) THEN handed[j] ELSE rows[j - Len(handed)]
        BY <1>1, <1>4, ConcatProperties
    <2>3. Len(handed) = n /\ Len(rows) = m
        BY <1>4 DEF n
    <2> QED
        BY Zenon, <2>1, <2>2, <2>3
<1>6. /\ \A j \in 1..n : handed'[j] = handed[j]
      /\ \A j \in (n + 1)..(n + m) : handed'[j] = inventory[j]
    <2>1. \A j \in 1..n : handed'[j] = handed[j]
        BY <1>1, <1>2, <1>5
    <2>2. ASSUME NEW j \in (n + 1)..(n + m) PROVE handed'[j] = inventory[j]
        <3>1. j - n \in 1..m /\ n + (j - n) = j /\ j \in 1..(n + m) /\ ~(j <= n)
            BY <1>1, <1>2
        <3> QED
            BY <1>4, <1>5, <3>1
    <2> QED
        BY <2>1, <2>2
<1>7. DOMAIN handed = 1..n /\ DOMAIN handed' = 1..(n + m) /\ DOMAIN inventory = 1..Len(inventory)
    BY <1>1, <1>5 DEF n
<1>8. ToSet(handed)' = ToSet(handed) \cup {inventory[j] : j \in (n + 1)..(n + m)}
    <2>1. 1..(n + m) = 1..n \cup (n + 1)..(n + m)
        BY <1>1, <1>2
    <2>2. ToSet(handed) = {handed[j] : j \in 1..n} /\ ToSet(handed)' = {handed'[j] : j \in 1..(n + m)}
        BY <1>7 DEF ToSet
    <2>3. {handed'[j] : j \in 1..(n + m)} = {handed'[j] : j \in 1..n} \cup {handed'[j] : j \in (n + 1)..(n + m)}
        BY <2>1
    <2>4. {handed'[j] : j \in 1..n} = {handed[j] : j \in 1..n}
        BY <1>6
    <2>5. {handed'[j] : j \in (n + 1)..(n + m)} = {inventory[j] : j \in (n + 1)..(n + m)}
        BY <1>6
    <2> QED
        BY <2>2, <2>3, <2>4, <2>5
<1>9. ListingTypeOK' /\ OffsetIsSeen' /\ DoneIsDone'
    <2>1. listing' \in Listings
        BY <1>1, <1>2, ListingAssumption DEF Listings
    <2>2. OffsetIsSeen'
        BY <1>2, <1>5 DEF OffsetIsSeen
    <2>3. DoneIsDone'
        BY <1>1, <1>2, <1>5 DEF DoneIsDone
    <2> QED
        BY <1>1, <1>5, <2>1, <2>2, <2>3 DEF ListingTypeOK
<1>10. SeenUpToHere'
    <2> SUFFICES ASSUME left = {}, NEW i \in 1..Len(inventory), i <= n + m
                 PROVE  inventory[i] \in ToSet(handed)' \cup joined
        BY <1>5 DEF SeenUpToHere
    <2>1. CASE i <= n
        BY <1>8, <2>1 DEF ListingInv, SeenUpToHere, n
    <2>2. CASE i > n
        <3>1. i \in (n + 1)..(n + m)
            BY <1>1, <1>2, <2>2
        <3> QED
            BY <1>8, <3>1
    <2> QED
        BY <1>1, <2>1, <2>2
<1>11. ASSUME joined = {}, NEW i \in 1..Len(inventory), i > n PROVE inventory[i] \notin ToSet(handed)
    BY <1>11 DEF ListingInv, NoneAhead, n
<1>12. NoneAhead'
    <2> SUFFICES ASSUME joined = {}, NEW i \in 1..Len(inventory), i > n + m
                 PROVE  inventory[i] \notin ToSet(handed)'
        BY <1>5 DEF NoneAhead
    <2>1. inventory[i] \notin ToSet(handed)
        BY <1>1, <1>2, <1>11
    <2>2. ASSUME NEW j \in (n + 1)..(n + m) PROVE inventory[i] # inventory[j]
        <3>1. j \in 1..Len(inventory) /\ i # j
            BY <1>1, <1>2, <1>3
        <3> QED
            BY <1>1, <1>7, <3>1 DEF IsInjective
    <2> QED
        BY <1>8, <2>1, <2>2
<1>13. NoRowIsRepeated'
    <2> SUFFICES ASSUME joined = {}, NEW a \in 1..(n + m), NEW b \in 1..(n + m), handed'[a] = handed'[b]
                 PROVE  a = b
        BY <1>7 DEF NoRowIsRepeated, IsInjective
    <2>0. \A j \in 1..n : handed[j] \in ToSet(handed)
        BY <1>7 DEF ToSet
    <2>1. a \in 1..n \/ a \in (n + 1)..(n + m)
        BY <1>1, <1>2
    <2>2. b \in 1..n \/ b \in (n + 1)..(n + m)
        BY <1>1, <1>2
    <2>3. CASE a \in 1..n /\ b \in 1..n
        BY <1>6, <1>7, <2>3 DEF ListingInv, NoRowIsRepeated, IsInjective
    <2>4. CASE a \in (n + 1)..(n + m) /\ b \in (n + 1)..(n + m)
        BY <1>1, <1>3, <1>6, <1>7, <2>4 DEF IsInjective
    <2>5. CASE a \in 1..n /\ b \in (n + 1)..(n + m)
        <3>1. b \in 1..Len(inventory) /\ b > n
            BY <1>1, <1>2, <1>3, <2>5
        <3> QED
            BY <1>6, <1>11, <2>0, <2>5, <3>1
    <2>6. CASE b \in 1..n /\ a \in (n + 1)..(n + m)
        <3>1. a \in 1..Len(inventory) /\ a > n
            BY <1>1, <1>2, <1>3, <2>6
        <3> QED
            BY <1>6, <1>11, <2>0, <2>6, <3>1
    <2> QED
        BY <2>1, <2>2, <2>3, <2>4, <2>5, <2>6
<1> QED
    BY <1>9, <1>10, <1>12, <1>13 DEF ListingInv

(* A row that joins is one that joined, and the others go back. *)
LEMMA RowJoinsKeeps ==
    ASSUME ListingInv, RowJoins PROVE ListingInv'
<1>1. PICK r \in Rows \ ToSet(inventory), i \in 1..(Len(inventory) + 1) :
        inventory' = InsertAt(inventory, i, r) /\ joined' = joined \cup {r}
    BY DEF RowJoins
<1>2. /\ listing \in Listings /\ handed \in Seq(Rows) /\ inventory \in Seq(Rows) /\ IsInjective(inventory)
      /\ joined \subseteq Rows /\ left \subseteq Rows /\ Len(handed) \in Nat /\ Len(inventory) \in Nat
      /\ DOMAIN inventory = 1..Len(inventory)
      /\ UNCHANGED <<listing, handed, left>>
    BY DEF ListingInv, ListingTypeOK, RowJoins
<1>3. /\ inventory' \in Seq(Rows) /\ Len(inventory') = Len(inventory) + 1
      /\ \A j \in 1..(Len(inventory) + 1) :
            inventory'[j] = IF j < i THEN inventory[j] ELSE IF j = i THEN r ELSE inventory[j - 1]
    <2>1. r \in Rows
        BY <1>1
    <2>2. inventory \in Seq(Rows) /\ i \in 1..(Len(inventory) + 1)
        BY <1>2
    <2>3. InsertAt(inventory, i, r) \in Seq(Rows)
        BY Zenon, <2>1, <2>2, AfterInsert
    <2>4. Len(InsertAt(inventory, i, r)) = Len(inventory) + 1
        BY <2>1, <2>2, AfterInsert
    <2>5. \A j \in 1..(Len(inventory) + 1) : InsertAt(inventory, i, r)[j] =
                IF j < i THEN inventory[j] ELSE IF j = i THEN r ELSE inventory[j - 1]
        BY <2>1, <2>2, AfterInsert
    <2> QED
        BY <1>1, <2>3, <2>4, <2>5
<1>4. \A j \in 1..(Len(inventory) + 1) :
        /\ j < i => j \in 1..Len(inventory) /\ inventory'[j] = inventory[j]
        /\ j = i => inventory'[j] = r
        /\ j > i => j - 1 \in 1..Len(inventory) /\ inventory'[j] = inventory[j - 1]
    BY <1>2, <1>3
<1>5. DOMAIN inventory' = 1..(Len(inventory) + 1)
    BY <1>3
<1>6. IsInjective(inventory)'
    <2> SUFFICES ASSUME NEW a \in 1..(Len(inventory) + 1), NEW b \in 1..(Len(inventory) + 1),
                        inventory'[a] = inventory'[b], a < b
                 PROVE  FALSE
        BY <1>2, <1>5 DEF IsInjective
    <2>1. \A j \in 1..Len(inventory) : inventory[j] # r
        BY <1>1, <1>2 DEF ToSet
    <2>2. \A x, y \in 1..Len(inventory) : inventory[x] = inventory[y] => x = y
        BY <1>2 DEF IsInjective
    <2>3. CASE b < i
        BY <1>4, <2>2, <2>3
    <2>4. CASE b = i
        BY <1>4, <2>1, <2>4
    <2>5. CASE b > i /\ a < i
        BY <1>2, <1>4, <2>2, <2>5
    <2>6. CASE b > i /\ a = i
        BY <1>4, <2>1, <2>6
    <2>7. CASE b > i /\ a > i
        BY <1>2, <1>4, <2>2, <2>7
    <2> QED
        BY <2>3, <2>4, <2>5, <2>6, <2>7
<1>7. SeenUpToHere'
    <2> SUFFICES ASSUME left = {}, NEW j \in 1..(Len(inventory) + 1), j <= Len(handed)
                 PROVE  inventory'[j] \in ToSet(handed) \cup joined'
        BY <1>2, <1>3 DEF SeenUpToHere, ToSet
    <2>1. \A x \in 1..Len(inventory) : x <= Len(handed) => inventory[x] \in ToSet(handed) \cup joined
        BY DEF ListingInv, SeenUpToHere
    <2>2. CASE j < i
        BY <1>1, <1>4, <2>1, <2>2
    <2>3. CASE j = i
        BY <1>1, <1>4, <2>3
    <2>4. CASE j > i
        BY <1>1, <1>2, <1>4, <2>1, <2>4
    <2> QED
        BY <2>2, <2>3, <2>4
<1>8. joined' # {} /\ joined' \subseteq Rows
    BY <1>1, <1>2
<1> QED
    BY <1>2, <1>3, <1>6, <1>7, <1>8
       DEF ListingInv, ListingTypeOK, OffsetIsSeen, DoneIsDone, NoneAhead, NoRowIsRepeated

(* A row that leaves is one that left, and the others come forward: what was not
   behind the offset before is not behind it now. *)
LEMMA RowLeavesKeeps ==
    ASSUME ListingInv, RowLeaves PROVE ListingInv'
<1>1. PICK i \in 1..Len(inventory) :
        inventory' = RemoveAt(inventory, i) /\ left' = left \cup {inventory[i]}
    BY DEF RowLeaves
<1>2. /\ listing \in Listings /\ handed \in Seq(Rows) /\ inventory \in Seq(Rows) /\ IsInjective(inventory)
      /\ joined \subseteq Rows /\ left \subseteq Rows /\ Len(handed) \in Nat /\ Len(inventory) \in Nat
      /\ DOMAIN inventory = 1..Len(inventory)
      /\ UNCHANGED <<listing, handed, joined>>
    BY DEF ListingInv, ListingTypeOK, RowLeaves
<1>3. /\ inventory' \in Seq(Rows) /\ Len(inventory') = Len(inventory) - 1
      /\ \A j \in 1..(Len(inventory) - 1) :
            inventory'[j] = IF j < i THEN inventory[j] ELSE inventory[j + 1]
    BY <1>1, <1>2, AfterRemove
<1>4. \A j \in 1..(Len(inventory) - 1) :
        /\ j < i => j \in 1..Len(inventory) /\ inventory'[j] = inventory[j]
        /\ j >= i => j + 1 \in 1..Len(inventory) /\ inventory'[j] = inventory[j + 1]
    BY <1>2, <1>3
<1>5. DOMAIN inventory' = 1..(Len(inventory) - 1)
    BY <1>3
<1>6. IsInjective(inventory)'
    <2> SUFFICES ASSUME NEW a \in 1..(Len(inventory) - 1), NEW b \in 1..(Len(inventory) - 1),
                        inventory'[a] = inventory'[b], a < b
                 PROVE  FALSE
        BY <1>2, <1>5 DEF IsInjective
    <2>1. \A x, y \in 1..Len(inventory) : inventory[x] = inventory[y] => x = y
        BY <1>2 DEF IsInjective
    <2>2. CASE b < i
        BY <1>4, <2>1, <2>2
    <2>3. CASE b >= i /\ a < i
        BY <1>2, <1>4, <2>1, <2>3
    <2>4. CASE b >= i /\ a >= i
        BY <1>2, <1>4, <2>1, <2>4
    <2> QED
        BY <2>2, <2>3, <2>4
<1>7. NoneAhead'
    <2> SUFFICES ASSUME joined = {}, NEW j \in 1..(Len(inventory) - 1), j > Len(handed)
                 PROVE  inventory'[j] \notin ToSet(handed)
        BY <1>2, <1>3 DEF NoneAhead, ToSet
    <2>1. \A x \in 1..Len(inventory) : x > Len(handed) => inventory[x] \notin ToSet(handed)
        BY DEF ListingInv, NoneAhead
    <2>2. CASE j < i
        BY <1>4, <2>1, <2>2
    <2>3. CASE j >= i
        BY <1>2, <1>4, <2>1, <2>3
    <2> QED
        BY <2>2, <2>3
<1>8. left' # {} /\ left' \subseteq Rows
    BY <1>1, <1>2
<1> QED
    BY <1>2, <1>3, <1>6, <1>7, <1>8
       DEF ListingInv, ListingTypeOK, OffsetIsSeen, DoneIsDone, SeenUpToHere, NoRowIsRepeated

(* The inductive step, action by action. *)
LEMMA ListingInvHolds == ListingSpec => []ListingInv
<1>1. ListingInv /\ [ListingNext]_listingVars => ListingInv'
    <2> SUFFICES ASSUME ListingInv, [ListingNext]_listingVars PROVE ListingInv'
        OBVIOUS
    <2>1. CASE inventory_pages
        <3>1. PICK page \in Answers :
                /\ HasRowsOf(page)
                /\ IF ~from_response(page, listing.offset)
                   THEN listing' = [listing EXCEPT !.at = "invalid_response"] /\ UNCHANGED handed
                   ELSE
                    /\ listing' =
                        [at |-> IF page.has_more THEN "more" ELSE "done",
                         offset |-> IF page.has_more THEN page.next_offset ELSE listing.offset,
                         pages |-> listing.pages + 1,
                         total |-> page.total]
                    /\ handed' = handed \o RowsOf(page)
            BY <2>1 DEF inventory_pages
        <3>2. listing.at = "more" /\ listing.pages < MaxPages /\ UNCHANGED <<inventory, joined, left>>
            BY <2>1 DEF inventory_pages
        <3>3. CASE ~from_response(page, listing.offset)
            <4>1. listing' = [listing EXCEPT !.at = "invalid_response"] /\ UNCHANGED handed
                BY <3>1, <3>3
            <4>2. listing' \in Listings /\ listing'.at = "invalid_response"
                BY <4>1 DEF ListingInv, ListingTypeOK, Listings
            <4> QED
                BY <3>2, <4>1, <4>2 DEF ListingInv, ListingTypeOK, OffsetIsSeen, DoneIsDone, SeenUpToHere, NoneAhead,
                    NoRowIsRepeated, ToSet, IsInjective
        <3>4. CASE from_response(page, listing.offset)
            BY <3>1, <3>2, <3>4, PageKeeps
        <3> QED
            BY <3>3, <3>4
    <2>2. CASE PageLimitReached
        <3>1. listing' \in Listings /\ listing'.at = "page_limit" /\ UNCHANGED <<handed, inventory, joined, left>>
            BY <2>2 DEF PageLimitReached, ListingInv, ListingTypeOK, Listings
        <3> QED
            BY <3>1 DEF ListingInv, ListingTypeOK, OffsetIsSeen, DoneIsDone, SeenUpToHere, NoneAhead,
                NoRowIsRepeated, ToSet, IsInjective
    <2>3. CASE UNCHANGED listingVars
        BY <2>3 DEF listingVars, ListingInv, ListingTypeOK, OffsetIsSeen, DoneIsDone, SeenUpToHere, NoneAhead,
            NoRowIsRepeated, ToSet, IsInjective
    <2> QED
        BY <2>1, <2>2, <2>3, RowJoinsKeeps, RowLeavesKeeps DEF ListingNext
<1> QED
    BY <1>1, ListingBegins, PTL DEF ListingSpec

(* Type correctness of an iteration, with its bounds: no page is asked for beyond what
   the gate claims to have, nor one more than max_pages, and the rows of the
   inventory are different ones (knowledge.py, inventory_pages). *)
THEOREM ListingTypeCorrect == ListingSpec => []ListingTypeOK
<1>1. ListingInv => ListingTypeOK
    BY DEF ListingInv
<1> QED
    BY <1>1, ListingInvHolds, PTL

(* Whatever numbers a gate puts on its pages and whatever moves in between: while no
   row leaves none is skipped, and while none joins none is handed over twice, for
   inventories and iterations of any length (inventory_pages, from_response). *)
THEOREM Whole == ListingSpec => []ListingIsWhole
<1>1. ListingInv => ListingIsWhole
    <2> SUFFICES ASSUME ListingInv PROVE ListingIsWhole
        OBVIOUS
    <2>1. listing.at = "done" => listing.total <= Len(handed)
        BY DEF ListingInv, DoneIsDone
    <2>2. NoRowIsSkipped
        BY <2>1 DEF ListingInv, SeenUpToHere, NoRowIsSkipped
    <2> QED
        BY <2>2 DEF ListingInv, ListingIsWhole
<1> QED
    BY <1>1, ListingInvHolds, PTL

-----------------------------------------------------------------------------
(* Module Reads.  A look at the answer is as old as the status call, at most.  The
   row it gives up on was not in a wanted state when the gate read it, or got
   there after that. *)

PollTypes ==
    /\ poll \in
        [at : {"send", "asked", "back", "sleep", "reached", "not_reached", "error"},
         clock : Nat, wake : Nat, wanted : BOOLEAN]
    /\ row \in [wanted : BOOLEAN, since : Nat]

(* While a call is out, it was sent at wake, and the clock is that far on. *)
CallIsFresh ==
    poll.at \in {"asked", "back"} => poll.wake <= poll.clock /\ poll.clock <= poll.wake + CallTime

(* What the gate read as not wanted and is wanted now moved after the call was sent. *)
MovedSince ==
    poll.at = "back" /\ ~poll.wanted /\ row.wanted => row.since >= poll.wake

PollInv == PollTypes /\ CallIsFresh /\ MovedSince /\ ReachedIsReported

(* wait_for never gives up on a row that was in a wanted state before the last
   status call that could have seen it was sent. *)
THEOREM Reported == ReadsSpec => []ReachedIsReported
<1>0. Timeout \in Nat /\ CallTime \in Nat /\ Interval \in Nat
    BY ReadsAssumption
<1>1. ReadsInit => PollInv
    BY <1>0 DEF ReadsInit, PollInv, PollTypes, CallIsFresh, MovedSince, ReachedIsReported
<1>2. PollInv /\ [ReadsNext]_readsVars => PollInv'
    <2> SUFFICES ASSUME PollInv, [ReadsNext]_readsVars PROVE PollInv'
        OBVIOUS
    <2> USE DEF PollInv, PollTypes, CallIsFresh, MovedSince, ReachedIsReported
    <2>1. CASE Send
        <3>1. poll.clock \in Nat /\ poll.clock <= poll.clock + CallTime
            BY <1>0
        <3>2. poll'.at = "asked" /\ poll'.wake = poll.clock /\ poll'.clock = poll.clock
            BY <2>1 DEF Send
        <3>3. PollTypes'
            BY <2>1 DEF Send
        <3> QED
            BY <3>1, <3>2, <3>3
    <2>2. CASE GateReads
        BY <1>0, <2>2 DEF GateReads
    <2>3. CASE Fails
        BY <1>0, <2>3 DEF Fails
    <2>4. CASE Look
        <3>1. poll.clock \in Nat /\ poll.wake \in Nat /\ poll.at = "back" /\ row' = row
            BY <2>4 DEF Look
        <3>2. CASE poll.wanted
            BY <2>4, <3>1, <3>2 DEF Look
        <3>3. CASE ~poll.wanted /\ Over
            <4>1. poll' = [poll EXCEPT !.at = "not_reached"]
                BY <2>4, <3>3 DEF Look
            <4>2. row.wanted => row.since + CallTime >= Timeout
                <5>1. row.since \in Nat /\ poll.clock >= Timeout /\ poll.clock <= poll.wake + CallTime
                    BY <3>1, <3>3 DEF Over
                <5>2. row.wanted => row.since >= poll.wake
                    BY <3>1, <3>3
                <5> QED
                    BY <1>0, <3>1, <5>1, <5>2
            <4> QED
                BY <3>1, <4>1, <4>2
        <3>4. CASE ~poll.wanted /\ ~Over
            <4>1. poll' = [poll EXCEPT !.at = "sleep", !.wake = poll.clock + Nap]
                BY <2>4, <3>4 DEF Look
            <4>2. Nap \in Nat
                BY <1>0, <3>1, <3>4 DEF Nap, Over
            <4>3. poll.clock + Nap \in Nat
                BY <3>1, <4>2
            <4>4. poll'.at = "sleep" /\ poll'.wake \in Nat
                BY <4>1, <4>3
            <4>5. PollTypes'
                BY <3>1, <4>1, <4>3
            <4> QED
                BY <4>4, <4>5
        <3> QED
            BY <3>2, <3>3, <3>4
    <2>5. CASE Wake
        BY <1>0, <2>5 DEF Wake
    <2>6. CASE WaitTicks
        BY <1>0, <2>6 DEF WaitTicks
    <2>7. CASE RowMoves
        BY <1>0, <2>7 DEF RowMoves
    <2>8. CASE UNCHANGED <<poll, row>>
        BY <2>8
    <2> QED
        BY <2>1, <2>2, <2>3, <2>4, <2>5, <2>6, <2>7, <2>8 DEF ReadsNext, wait_for, readsVars
<1>3. PollInv => ReachedIsReported
    BY DEF PollInv
<1> QED
    BY <1>1, <1>2, <1>3, PTL DEF ReadsSpec

(* How far a poll may be at each of its places: a status call is sent by the deadline
   and takes CallTime at most, and a sleep ends at the deadline or before. *)
OnTime ==
    /\ poll.at = "send" => poll.clock <= Timeout
    /\ poll.at \in {"asked", "back"} =>
        poll.wake <= Timeout /\ poll.wake <= poll.clock /\ poll.clock <= poll.wake + CallTime
    /\ poll.at = "sleep" => poll.clock <= poll.wake /\ poll.wake <= Timeout

(* Type correctness of a poll, with what the bound of its clock says: wait_for is over
   one status call after its deadline at the latest, since it cuts its last sleep off
   at the deadline (knowledge.py, wait_for). *)
THEOREM ReadsTypeCorrect == ReadsSpec => []ReadsTypeOK
<1> DEFINE RInv == ReadsTypeOK /\ OnTime
<1>0. Timeout \in Nat /\ CallTime \in Nat /\ Interval \in Nat \ {0}
    BY ReadsAssumption
<1>1. ReadsInit => RInv
    BY <1>0 DEF ReadsInit, ReadsTypeOK, Polls, OnTime
<1>2. RInv /\ [ReadsNext]_readsVars => RInv'
    <2> SUFFICES ASSUME RInv, [ReadsNext]_readsVars PROVE RInv'
        OBVIOUS
    <2>1. ASSUME wait_for \/ WaitTicks \/ RowMoves PROVE RInv'
        <3>1. poll \in Polls
            BY DEF ReadsTypeOK
        <3>2. /\ poll.clock \in 0..(Timeout + CallTime) /\ poll.clock \in Nat
              /\ poll.wake \in 0..(Timeout + CallTime) /\ poll.wake \in Nat
            BY <1>0, <3>1 DEF Polls
        <3>3. CASE Send
            <4>1. poll' = [poll EXCEPT !.at = "asked", !.wake = poll.clock] /\ row' = row
                BY <3>3 DEF Send
            <4>2. poll.clock <= Timeout /\ poll.clock <= poll.clock + CallTime
                BY <1>0, <3>2, <3>3 DEF Send, OnTime
            <4>3. OnTime'
                BY <3>1, <4>1, <4>2 DEF OnTime, Polls
            <4> QED
                BY <3>1, <3>2, <4>1, <4>3 DEF ReadsTypeOK, Polls
        <3>4. CASE GateReads \/ Fails
            BY <1>0, <3>1, <3>2, <3>4 DEF GateReads, Fails, ReadsTypeOK, Polls, OnTime
        <3>5. CASE Look
            <4>1. CASE poll.wanted \/ Over
                BY <1>0, <3>1, <3>2, <3>5, <4>1 DEF Look, ReadsTypeOK, Polls, OnTime
            <4>2. CASE ~(poll.wanted \/ Over)
                <5>1. poll' = [poll EXCEPT !.at = "sleep", !.wake = poll.clock + Nap] /\ row' = row
                    BY <3>5, <4>2 DEF Look
                <5>2. Nap \in Nat /\ poll.clock + Nap <= Timeout
                    BY <1>0, <3>2, <4>2 DEF Nap, Over
                <5>3. poll.clock + Nap \in 0..(Timeout + CallTime) /\ poll.clock <= poll.clock + Nap
                    BY <1>0, <3>2, <5>2
                <5> QED
                    BY <3>1, <5>1, <5>2, <5>3 DEF ReadsTypeOK, Polls, OnTime
            <4> QED
                BY <4>1, <4>2
        <3>6. CASE Wake
            BY <1>0, <3>1, <3>2, <3>6 DEF Wake, ReadsTypeOK, Polls, OnTime
        <3>7. CASE WaitTicks
            <4>1. poll' = [poll EXCEPT !.clock = poll.clock + 1] /\ row' = row
                BY <3>7 DEF WaitTicks
            <4>2. poll.clock + 1 \in 0..(Timeout + CallTime)
                BY <1>0, <3>2, <3>7 DEF WaitTicks, OnTime
            <4>3. OnTime'
                BY <1>0, <3>1, <3>2, <3>7, <4>1 DEF WaitTicks, OnTime, Polls
            <4> QED
                BY <3>1, <4>1, <4>2, <4>3 DEF ReadsTypeOK, Polls
        <3>8. CASE RowMoves
            <4>1. row' = [wanted |-> ~row.wanted, since |-> poll.clock] /\ poll' = poll
                BY <3>8 DEF RowMoves
            <4>2. row' \in [wanted : BOOLEAN, since : 0..(Timeout + CallTime)]
                BY <3>2, <4>1 
            <4> QED
                BY <3>1, <4>1, <4>2 DEF ReadsTypeOK, OnTime
        <3> QED
            BY <2>1, <3>3, <3>4, <3>5, <3>6, <3>7, <3>8 DEF wait_for
    <2>2. CASE UNCHANGED readsVars
        BY <2>2 DEF readsVars, ReadsTypeOK, OnTime
    <2> QED
        BY <2>1, <2>2 DEF ReadsNext
<1> QED
    BY <1>1, <1>2, PTL DEF ReadsSpec

-----------------------------------------------------------------------------
(* Module ClientSurface.  The cache is what the gate said last, and is there whenever it is asked. *)
CacheIsHeard ==
    /\ capabilities = heard
    /\ calling = Idle \/ calling.verb = "dg.ingest_bundle"

SurfaceInv == SurfaceTypeOK /\ CacheIsHeard /\ VerbsFitClient /\ RefusalWasAnswered

-----------------------------------------------------------------------------
(* What the methods of a class may send. *)
LEMMA AgentVerbs ==
    ASSUME NEW methods \in {Reading, Proposing, Remarking}, NEW method \in DOMAIN methods,
           NEW verb \in methods[method]
    PROVE  verb \in ReadVerbs \cup KnowledgeVerbs
<1>1. CASE methods = Reading
    BY <1>1 DEF Reading, ReadVerbs
<1>2. CASE methods = Proposing
    BY <1>2 DEF Proposing, KnowledgeVerbs
<1>3. CASE methods = Remarking
    BY <1>3 DEF Remarking, KnowledgeVerbs
<1> QED
    BY <1>1, <1>2, <1>3

(* A method of curation sends verbs of the table, and not the one that validates settings. *)
LEMMA CuratorVerbs ==
    ASSUME NEW methods \in {Deciding, Passing, Relating, Serving, Attending},
           NEW method \in DOMAIN methods, NEW verb \in methods[method]
    PROVE  verb \in OPERATIONS \ {"dg.settings_validate"}
<1>1. CASE methods \in {Deciding, Relating}
    BY <1>1 DEF Deciding, Relating, OPERATIONS, CurationVerbs
<1>2. CASE methods = Passing
    BY <1>2 DEF Passing, OPERATIONS, CurationVerbs
<1>3. CASE methods = Serving
    BY <1>3 DEF Serving, OPERATIONS, ReadVerbs, KnowledgeVerbs, CurationVerbs
<1>4. CASE methods = Attending
    BY <1>4 DEF Attending, OPERATIONS, ReadVerbs, KnowledgeVerbs, CurationVerbs
<1> QED
    BY <1>1, <1>2, <1>3, <1>4

(* A verb of the class, sent or turned away by the scope of the transport. *)
LEMMA SentFits ==
    ASSUME client \in ClientsMade, NEW verb \in OPERATIONS \ {"dg.settings_validate"}, SendVerb(verb),
           client.class # "curation" => verb \in ReadVerbs \cup KnowledgeVerbs, client' = client
    PROVE  VerbsFitClient' /\ last'.verb = verb /\ last'.how \in {"sent", "forbidden"}
<1>1. last' = [verb |-> verb,
               how |-> IF client.scope = "none" \/ Allows(client.scope, verb) THEN "sent" ELSE "forbidden"]
    BY DEF SendVerb, MethodEnds
<1>2. /\ client.scope \in {"read", "knowledge", "curation", "none"}
      /\ client.class = "curation" => client.scope \in {"curation", "none"}
      /\ client.class = "reader" => client.scope \in {"curation", "none"}
      /\ client.class \in {"curation", "knowledge", "reader"}
      /\ client.class = "knowledge" => client.scope # "curation"
    BY DEF ClientsMade, CurationClient_scopes, KnowledgeClient_scopes, _Reader
<1>3. /\ verb \in ReadVerbs => ~Mutates(verb) /\ ScopeOf(verb) = "read"
      /\ verb \in KnowledgeVerbs => Mutates(verb) /\ ScopeOf(verb) = "knowledge"
      /\ verb \notin ReadVerbs => Mutates(verb)
    BY DEF Mutates, ScopeOf, ReadVerbs, KnowledgeVerbs, CurationVerbs, OPERATIONS
<1>4. Allows("curation", verb) /\ (verb \in KnowledgeVerbs => Allows("knowledge", verb) /\ ~Allows("read", verb))
    BY <1>3 DEF Allows, Rank, ScopeOf
<1>5. verb \in ReadVerbs => Allows("read", verb) /\ Allows("knowledge", verb)
    BY <1>3 DEF Allows, Rank
<1>6. verb \notin ReadVerbs => ~Allows("read", verb)
    BY <1>3, <1>4 DEF Allows, Rank, ScopeOf
<1> QED
    BY <1>1, <1>2, <1>3, <1>4, <1>5, <1>6 DEF VerbsFitClient

-----------------------------------------------------------------------------
(* Asking the gate changes the cache only to what it says, whatever it left out
   of its answer. *)
LEMMA DescriptionKept ==
    ASSUME SurfaceInv, NEW next, AskGate(next)
    PROVE  /\ capabilities' = heard' /\ capabilities' \in [known : BOOLEAN, verbs : SUBSET Optional]
           /\ last' = [verb |-> "dg.describe", how |-> "sent"]
           /\ \/ calling' = next /\ heard'.known
              \/ calling' = Idle
<1>1. CASE capabilities' = NotReadable(capabilities) /\ MethodEnds("dg.describe", "sent") /\ UNCHANGED heard
    BY <1>1 DEF NotReadable, MethodEnds, SurfaceInv, CacheIsHeard, SurfaceTypeOK
<1>2. ASSUME NEW published \in Published, capabilities' = from_describe(published),
             heard' = Description(dispatched), calling' = next,
             last' = [verb |-> "dg.describe", how |-> "sent"]
      PROVE  capabilities' = heard' /\ heard'.known /\ heard' \in [known : BOOLEAN, verbs : SUBSET Optional]
    <2>1. {verb \in Optional : published[verb] \notin {"missing", "false"}} = dispatched
        BY DEF Published, SurfaceInv, SurfaceTypeOK
    <2> QED
        BY <1>2, <2>1 DEF from_describe, Description, SurfaceInv, SurfaceTypeOK
<1> QED
    BY <1>1, <1>2 DEF AskGate

(* Every step of a client or of the gate keeps the invariant. *)
LEMMA SurfaceInvStep ==
    ASSUME SurfaceInv, SurfaceAssumption, [SurfaceNext]_surfaceVars
    PROVE  SurfaceInv'
<1>1. CASE UNCHANGED surfaceVars
    BY <1>1 DEF surfaceVars, SurfaceInv, SurfaceTypeOK, CacheIsHeard, VerbsFitClient, RefusalWasAnswered, dispatches
<1>2. CASE GateChanges
    BY <1>2 DEF GateChanges, SurfaceInv, SurfaceTypeOK, CacheIsHeard, VerbsFitClient, RefusalWasAnswered
<1>3. CASE Call
    <2>1. PICK methods \in Tables(client.class) : \E method \in DOMAIN methods \ {"describe", "propose_bundle"} :
            \E verb \in methods[method] : SendVerb(verb) \/ MethodEnds(verb, "value_error")
        BY <1>3 DEF Call
    <2>2. PICK method \in DOMAIN methods \ {"describe", "propose_bundle"} :
            \E verb \in methods[method] : SendVerb(verb) \/ MethodEnds(verb, "value_error")
        BY <2>1
    <2>3. PICK verb \in methods[method] : SendVerb(verb) \/ MethodEnds(verb, "value_error")
        BY <2>2
    <2>4. client.class = "curation" => verb \in OPERATIONS \ {"dg.settings_validate"}
        BY CuratorVerbs DEF Tables
    <2>5. client.class # "curation" => verb \in ReadVerbs \cup KnowledgeVerbs
        BY AgentVerbs DEF Tables
    <2>6. verb \in OPERATIONS \ {"dg.settings_validate"}
        BY <2>4, <2>5 DEF OPERATIONS, ReadVerbs, KnowledgeVerbs
    <2>7. verb # "dg.ingest_bundle"
        BY <2>1, <2>2, <2>3 DEF Tables, Reading, Proposing, Remarking, Deciding, Passing, Relating, Serving, Attending
    <2>8. /\ client' = client /\ dispatched' = dispatched
          /\ capabilities' = capabilities /\ heard' = heard
          /\ calling' = Idle /\ last'.verb = verb
          /\ last'.how \in {"sent", "forbidden", "value_error"}
          /\ last' \in [verb : OPERATIONS \cup {"none"},
                        how : {"none", "sent", "forbidden", "value_error", "unsupported_operation"}]
        BY <1>3, <2>3, <2>6 DEF Call, SendVerb, MethodEnds
    <2>9. VerbsFitClient'
        BY <2>3, <2>5, <2>6, <2>8, SentFits DEF SurfaceInv, SurfaceTypeOK, MethodEnds, VerbsFitClient
    <2> QED
        BY <2>7, <2>8, <2>9 DEF SurfaceInv, SurfaceTypeOK, CacheIsHeard, RefusalWasAnswered, Idle, Proposing
<1>4. CASE describe
    BY <1>4, DescriptionKept DEF describe, SurfaceInv, SurfaceTypeOK, CacheIsHeard, VerbsFitClient, RefusalWasAnswered,
        Idle, Proposing, ScopeOf, Mutates, ReadVerbs, KnowledgeVerbs, CurationVerbs, OPERATIONS
<1>5. CASE Inspect
    BY <1>5 DEF Inspect, MethodEnds, SurfaceInv, SurfaceTypeOK, CacheIsHeard, VerbsFitClient, RefusalWasAnswered,
        Idle, Proposing, OPERATIONS, KnowledgeVerbs
<1>6. CASE Describe
    BY <1>6, DescriptionKept DEF Describe, SurfaceInv, SurfaceTypeOK, CacheIsHeard, VerbsFitClient, RefusalWasAnswered,
        Idle, Proposing, ScopeOf, Mutates, ReadVerbs, KnowledgeVerbs, CurationVerbs, OPERATIONS
<1>7. CASE Hand
    <2>1. /\ calling.verb = "dg.ingest_bundle" /\ heard.known /\ capabilities = heard
          /\ UNCHANGED <<client, dispatched, capabilities, heard>>
        BY <1>7 DEF Hand, SurfaceInv, CacheIsHeard, RefusalWasAnswered, Idle
    <2>2. calling.verb \in KnowledgeVerbs /\ calling.verb \in OPERATIONS \ {"dg.settings_validate"}
        BY <2>1 DEF KnowledgeVerbs, OPERATIONS
    <2>3. CASE dispatches(calling.verb) /\ SendVerb(calling.verb)
        <3>1. VerbsFitClient' /\ last'.verb = calling.verb /\ last'.how \in {"sent", "forbidden"}
            BY <2>1, <2>2, <2>3, SentFits DEF SurfaceInv, SurfaceTypeOK
        <3>2. last' \in [verb : OPERATIONS \cup {"none"},
                         how : {"none", "sent", "forbidden", "value_error", "unsupported_operation"}]
              /\ calling' = Idle
            BY <2>2, <2>3 DEF SendVerb, MethodEnds
        <3> QED
            BY <2>1, <2>3, <3>1, <3>2 DEF SurfaceInv, SurfaceTypeOK, CacheIsHeard, RefusalWasAnswered, Idle, dispatches
    <2>4. CASE \/ dispatches(calling.verb) /\ MethodEnds(calling.verb, "value_error")
               \/ ~dispatches(calling.verb) /\ MethodEnds(calling.verb, "unsupported_operation")
        BY <2>1, <2>2, <2>4 DEF MethodEnds, SurfaceInv, SurfaceTypeOK, CacheIsHeard, VerbsFitClient, RefusalWasAnswered,
            Idle, dispatches
    <2> QED
        BY <1>7, <2>3, <2>4 DEF Hand
<1> QED
    BY <1>1, <1>2, <1>3, <1>4, <1>5, <1>6, <1>7 DEF SurfaceNext, propose_bundle

(* The invariant holds throughout. *)
LEMMA SurfaceInvHolds == SurfaceSpec => []SurfaceInv
<1>1. SurfaceInit => SurfaceInv
    BY DEF SurfaceInit, SurfaceInv, SurfaceTypeOK, CacheIsHeard, VerbsFitClient, RefusalWasAnswered,
        Undescribed, Idle
<1>2. SurfaceInv /\ [SurfaceNext]_surfaceVars => SurfaceInv'
    BY SurfaceInvStep, SurfaceAssumption
<1> QED
    BY <1>1, <1>2, PTL DEF SurfaceSpec

(* Type correctness of a client and of what it keeps of the gate, for any verbs that
   gates may leave out. *)
THEOREM SurfaceTypeCorrect == SurfaceSpec => []SurfaceTypeOK
<1>1. SurfaceInv => SurfaceTypeOK
    BY DEF SurfaceInv
<1> QED
    BY <1>1, SurfaceInvHolds, PTL
(* No verb of curation leaves a knowledge client, nothing that mutates leaves one
   over a read transport, and no method of a client is turned away otherwise
   (knowledge.py and curation.py, their constructors and `_call`). *)
THEOREM VerbsFit == SurfaceSpec => []VerbsFitClient
<1>1. SurfaceInv => VerbsFitClient
    BY DEF SurfaceInv
<1> QED
    BY <1>1, SurfaceInvHolds, PTL

(* propose_bundle refuses for the gate just what the gate, asked, did not
   dispatch, whatever verbs it may leave out and however it changes. *)
THEOREM RefusalAnswered == SurfaceSpec => []RefusalWasAnswered
<1>1. SurfaceInv => RefusalWasAnswered
    BY DEF SurfaceInv
<1> QED
    BY <1>1, SurfaceInvHolds, PTL

-----------------------------------------------------------------------------
(* MemoryHandle, for any number of runs that share one file. *)
Live(r) == run[r].at \in Running
Creator(r) == Live(r) /\ run[r].created

(* Somebody was entitled to take the place of what was saved for id. *)
Witness(id) == \E q \in Runs : Replaces(q) /\ (q # id \/ run[q].met # {})

(* How far a run is agrees with what is known of its proposal. *)
ToldOf(r) ==
    LET p == run[r] IN
    /\ p.at \in {"idle", "reserve", "open", "client", "call", "refused"} => ~p.landed
    /\ p.at = "GATE_FAILURE" => ~p.landed \/ p.answer = "malformed"
    /\ p.at \in {"idle", "reserve", "open", "client", "call"} => ~p.printed
    /\ p.at \in {"look", "unlink"} => p.answer \in {"failed", "unknown", "malformed"}
    /\ p.at \in {"look", "unlink"} /\ p.answer = "failed" => ~p.landed
    /\ p.at = "print" => p.answer = "accepted" /\ p.landed
    /\ p.at \in {"save", "write", "OK", "untold", "HANDLE_NOT_SAVED"} => p.answer = "accepted" /\ p.landed /\ p.printed
    /\ p.at \in Running \ {"reserve", "open"} => p.replace \/ p.created
    /\ p.at = "unlink" => p.created
    /\ p.at = "idle" => ~p.created

(* Runs that run at the same time have met, and one of them at most has created
   the file, which is there as long as that one runs. *)
AllMet == \A r, q \in Runs : r # q /\ Live(r) /\ Live(q) => q \in run[r].met
OneCreator ==
    /\ \A r, q \in Runs : Creator(r) /\ Creator(q) => r = q
    /\ \A r \in Runs : Creator(r) => file # Absent

(* A run that created the file found none: whatever had been saved before was
   already gone, and nothing was saved since by a run that was not replacing. *)
NoneToLose == \A r \in Runs : Creator(r) => \A id \in Runs \cup {Old} : Saved(id) => Witness(id)

(* Whoever writes has the empty file before it, or was interfered with. *)
WritesAlone == \A r \in Runs : run[r].at = "write" => (run[r].linked /\ file = Empty) \/ Witness(r)

HandleInv ==
    /\ HandleTypeOK
    /\ \A r \in Runs : ToldOf(r)
    /\ AllMet /\ OneCreator /\ NoneToLose /\ WritesAlone
    /\ HandleIsKept

Act(r) == remember(r) \/ Killed(r)

(* A step of one run leaves alone what the others are doing. *)
LEMMA Others ==
    ASSUME HandleTypeOK, NEW r \in Runs, Act(r), NEW q \in Runs \ {r}
    PROVE  /\ run'[q].at = run[q].at /\ run'[q].replace = run[q].replace
           /\ run'[q].created = run[q].created /\ run'[q].answer = run[q].answer
           /\ run'[q].printed = run[q].printed /\ run'[q].landed = run[q].landed
           /\ run[q].met \subseteq run'[q].met
           /\ run'[q].linked = run[q].linked \/ Unlinks(r)
<1> run[q] \in Processes
    BY DEF HandleTypeOK
<1>1. CASE Start(r)
    <2>1. run'[q] = run[q] \/ run'[q] = [run[q] EXCEPT !.met = @ \cup {r}]
        BY <1>1 DEF Start, HandleTypeOK
    <2> QED
        BY <2>1 DEF Processes
<1>2. CASE Unlinks(r)
    <2>1. run'[q] = run[q] \/ run'[q] = [run[q] EXCEPT !.linked = FALSE]
        BY <1>2 DEF Unlinks, Become, EndsWith, HandleTypeOK
    <2> QED
        BY <1>2, <2>1 DEF Processes
<1>3. CASE ~Start(r) /\ ~Unlinks(r)
    <2>1. run'[q] = run[q]
        BY <1>3 DEF Act, remember, _reserve, LooksFirst, OpensNew, MakesClient, propose, _release,
            LooksAgain, Prints, _save, Truncates, Writes, Killed, Become, EndsWith, HandleTypeOK
    <2> QED
        BY <2>1
<1> QED
    BY <1>1, <1>2, <1>3

(* Every step of a run keeps the types, its own and those of the others. *)
LEMMA TypeStep ==
    ASSUME HandleTypeOK, HandleAssumption, [HandleNext]_handleVars
    PROVE  HandleTypeOK'
<1>1. CASE UNCHANGED handleVars
    BY <1>1 DEF handleVars, HandleTypeOK
<1>2. ASSUME NEW r \in Runs, Act(r), UNCHANGED before PROVE HandleTypeOK'
    <2> USE <1>2 DEF HandleTypeOK, Processes, Places, Exits, Usage, Running, Become, EndsWith
    <2>1. CASE Start(r)
        <3>1. ASSUME NEW q \in Runs PROVE run'[q] \in Processes
            <4>1. \/ run'[q] = run[q]
                  \/ run'[q] = [run[q] EXCEPT !.met = @ \cup {r}]
                  \/ \E others \in SUBSET Runs :
                        run'[q] = [run[q] EXCEPT !.at = "reserve", !.met = others]
                BY <2>1 DEF Start
            <4>2. run[q] \in Processes
                OBVIOUS
            <4>3. \A others \in SUBSET Runs :
                    /\ [run[q] EXCEPT !.met = others] \in Processes
                    /\ [run[q] EXCEPT !.at = "reserve", !.met = others] \in Processes
                BY <4>2
            <4>4. run[q].met \cup {r} \in SUBSET Runs
                BY <4>2
            <4> HIDE DEF Processes
            <4> QED
                BY <4>1, <4>2, <4>3, <4>4
        <3>2. run' = [q \in Runs |-> run'[q]] /\ file' = file
            BY <2>1 DEF Start
        <3> QED
            BY <3>1, <3>2
    <2>2. CASE LooksFirst(r)
        <3>1. PICK to \in {"client", "refused", "open"} : run' = [run EXCEPT ![r].at = to]
            BY <2>2 DEF LooksFirst
        <3>2. file' \in {file, Empty}
            BY <2>2 DEF LooksFirst, Reserved
        <3>3. [run[r] EXCEPT !.at = to] \in Processes
            OBVIOUS
        <3> QED
            BY <3>1, <3>2, <3>3
    <2>8. CASE OpensNew(r)
        BY <2>8 DEF OpensNew, Reserved
    <2>3. CASE MakesClient(r) \/ Prints(r)
        BY <2>3 DEF MakesClient, Prints
    <2>4. CASE propose(r)
        <3>1. PICK got \in {"accepted", "failed", "unknown", "malformed"}, landed \in BOOLEAN :
                run' = [run EXCEPT ![r].at = IF got = "accepted" THEN "print" ELSE "look",
                                   ![r].answer = got, ![r].landed = landed]
            BY <2>4 DEF propose
        <3>2. run[r] \in Processes
            OBVIOUS
        <3>3. CASE got = "accepted"
            BY <2>4, <3>1, <3>2, <3>3 DEF propose
        <3>4. CASE got # "accepted"
            BY <2>4, <3>1, <3>2, <3>4 DEF propose
        <3> QED
            BY <3>3, <3>4
    <2>5. CASE LooksAgain(r)
        BY <2>5 DEF LooksAgain, _report
    <2>9. CASE Unlinks(r)
        <3>1. ASSUME NEW q \in Runs PROVE run'[q] \in Processes
            <4>1. \/ run'[q] = run[q]
                  \/ run'[q] = [run[q] EXCEPT !.linked = FALSE]
                  \/ run'[q] = [run[q] EXCEPT !.at = _report(run[q].answer)]
                  \/ run'[q] = [run[q] EXCEPT !.at = "traceback"]
                <5>2. CASE \E code \in {_report(run[r].answer), "traceback"} :
                              run' = [x \in Runs |->
                                  IF x = r THEN [run[r] EXCEPT !.at = code]
                                  ELSE [run[x] EXCEPT !.linked = FALSE]]
                    <6> HIDE DEF Processes, HandleTypeOK, Places, Exits, Usage, Running, Become
                    <6> QED
                        BY <5>2
                <5>3. CASE EndsWith(r, _report(run[r].answer))
                    <6>1. PICK code \in {_report(run[r].answer), "traceback"} : run' = [run EXCEPT ![r].at = code]
                        BY <5>3
                    <6> QED
                        BY <6>1
                <5> QED
                    BY <2>9, <5>2, <5>3 DEF Unlinks
            <4>2. run[q] \in Processes /\ _report(run[q].answer) \in Exits
                BY DEF _report
            <4>3. /\ [run[q] EXCEPT !.linked = FALSE] \in Processes
                  /\ \A to \in Exits : [run[q] EXCEPT !.at = to] \in Processes
                BY <4>2
            <4> HIDE DEF Processes
            <4> QED
                BY <4>1, <4>2, <4>3
        <3>2. run' = [q \in Runs |-> run'[q]] /\ file' \in {file, Absent}
            BY <2>9 DEF Unlinks
        <3> QED
            BY <3>1, <3>2
    <2>6. CASE _save(r)
        BY <2>6 DEF _save, Truncates, Writes, Written
    <2>7. CASE Killed(r)
        BY <2>7 DEF Killed, Written
    <2> QED
        BY <2>1, <2>2, <2>3, <2>4, <2>5, <2>6, <2>7, <2>8, <2>9 DEF Act, remember, _reserve, _release
<1> QED
    BY <1>1, <1>2 DEF HandleNext, Act

(* What each place of a run says of its proposal, after a step of any run. *)
LEMMA ToldStep ==
    ASSUME HandleInv, HandleTypeOK', NEW r \in Runs, Act(r), NEW q \in Runs
    PROVE  ToldOf(q)'
<1>1. CASE q # r
    BY <1>1, Others DEF HandleInv, ToldOf
<1>2. CASE q = r
    <2> run[r] \in Processes /\ ToldOf(r) /\ DOMAIN run = Runs
        BY DEF HandleInv, HandleTypeOK
    <2> USE DEF ToldOf, Processes, Running, Places, Become, EndsWith
    <2>1. CASE Start(r)
        <3>1. PICK others : run'[r] = [run[r] EXCEPT !.at = "reserve", !.met = others]
            BY <2>1 DEF Start
        <3> QED
            BY <1>2, <2>1, <3>1 DEF Start
    <2>2. CASE LooksFirst(r)
        BY <1>2, <2>2 DEF LooksFirst
    <2>3. CASE OpensNew(r)
        BY <1>2, <2>3 DEF OpensNew
    <2>4. CASE MakesClient(r)
        BY <1>2, <2>4 DEF MakesClient
    <2>5. CASE propose(r)
        BY <1>2, <2>5 DEF propose
    <2>6. CASE LooksAgain(r)
        BY <1>2, <2>6 DEF LooksAgain, _report
    <2>7. CASE Unlinks(r)
        <3>1. run'[r] \in {[run[r] EXCEPT !.at = _report(run[r].answer)], [run[r] EXCEPT !.at = "traceback"]}
            BY <2>7 DEF Unlinks
        <3> QED
            BY <1>2, <2>7, <3>1 DEF Unlinks, _report
    <2>8. CASE Prints(r)
        BY <1>2, <2>8 DEF Prints
    <2>9. CASE _save(r)
        BY <1>2, <2>9 DEF _save, Truncates, Writes
    <2>10. CASE Killed(r)
        BY <1>2, <2>10 DEF Killed
    <2> QED
        BY <2>1, <2>2, <2>3, <2>4, <2>5, <2>6, <2>7, <2>8, <2>9, <2>10 DEF Act, remember, _reserve, _release
<1> QED
    BY <1>1, <1>2

(* Who replaced a handle, and whom a run has met, stays. *)
LEMMA WitnessLasts ==
    ASSUME HandleInv, HandleTypeOK', NEW r \in Runs, Act(r), NEW id, Witness(id)
    PROVE  Witness(id)'
<1>1. PICK q \in Runs : Replaces(q) /\ (q # id \/ run[q].met # {})
    BY DEF Witness
<1>2. CASE q # r
    BY <1>1, <1>2, Others DEF HandleInv, Witness, Replaces
<1>3. CASE q = r
    <2> run[r] \in Processes /\ ToldOf(r) /\ DOMAIN run = Runs
        BY DEF HandleInv, HandleTypeOK
    <2>1. ~Start(r) /\ ~propose(r)
        BY <1>1, <1>3 DEF ToldOf, Start, propose, Replaces
    <2>2. CASE Unlinks(r)
        <3>1. run'[r] \in {[run[r] EXCEPT !.at = _report(run[r].answer)], [run[r] EXCEPT !.at = "traceback"]}
            BY <2>2 DEF Unlinks, Become, EndsWith
        <3> QED
            BY <1>1, <1>3, <3>1 DEF Witness, Replaces, Processes
    <2>3. CASE ~Unlinks(r)
        <3>1. Replaces(r)' /\ run'[r].met = run[r].met
            BY <1>1, <1>3, <2>1, <2>3 DEF Replaces, Act, remember, _reserve, LooksFirst, OpensNew, MakesClient,
                _release, LooksAgain, Prints, _save, Truncates, Writes, Killed, Become, EndsWith, Processes
        <3> QED
            BY <1>1, <1>3, <3>1 DEF Witness
    <2> QED
        BY <2>2, <2>3
<1> QED
    BY <1>2, <1>3

(* What the run that takes a step may do to itself and to the file. *)
LEMMA Actor ==
    ASSUME HandleInv, HandleAssumption, NEW r \in Runs, Act(r)
    PROVE  /\ Start(r) \/ run'[r].met = run[r].met
           /\ run[r].printed => run'[r].printed
           /\ \/ run'[r].created = run[r].created
              \/ run[r].at = "open" /\ file = Absent /\ file' = Empty
           /\ Live(r)' => Live(r) \/ Start(r)
           /\ run'[r].at \in {"OK", "untold"} => run[r].at = "write" /\ Writes(r)
           /\ run'[r].at = "write" => Truncates(r)
           /\ \/ file' = file
              \/ file' = Empty /\ (file = Absent \/ run[r].at = "save")
              \/ file' = Absent /\ Unlinks(r)
              \/ file' \in {r, Garbled} /\ run[r].at = "write"
<1> run[r] \in Processes /\ ToldOf(r) /\ DOMAIN run = Runs
    BY DEF HandleInv, HandleTypeOK
<1> USE DEF Processes, Live, Running, Places, Become, EndsWith
<1>1. CASE Start(r)
    <2>1. PICK others : run'[r] = [run[r] EXCEPT !.at = "reserve", !.met = others]
        BY <1>1 DEF Start
    <2> QED
        BY <1>1, <2>1 DEF Start
<1>2. CASE LooksFirst(r)
    BY <1>2 DEF LooksFirst, Reserved
<1>3. CASE OpensNew(r)
    BY <1>3 DEF OpensNew, Reserved
<1>4. CASE MakesClient(r) \/ Prints(r)
    BY <1>4 DEF MakesClient, Prints
<1>5. CASE propose(r)
    BY <1>5 DEF propose, ToldOf
<1>6. CASE LooksAgain(r)
    BY <1>6 DEF LooksAgain, _report
<1>7. CASE Unlinks(r)
    <2>1. run'[r] \in {[run[r] EXCEPT !.at = _report(run[r].answer)], [run[r] EXCEPT !.at = "traceback"]} /\ file' \in {file, Absent}
        BY <1>7 DEF Unlinks
    <2> QED
        BY <1>7, <2>1 DEF _report
<1>8. CASE _save(r)
    BY <1>8 DEF _save, Truncates, Writes, Written
<1>9. CASE Killed(r)
    BY <1>9 DEF Killed, Written
<1> QED
    BY <1>1, <1>2, <1>3, <1>4, <1>5, <1>6, <1>7, <1>8, <1>9 DEF Act, remember, _reserve, _release

-----------------------------------------------------------------------------
(* A run that saves may do so: it was told to replace what is there, or it made
   the file itself and nothing was there to lose.  And a run that another one
   writes over has met it. *)
LEMMA MayOverwrite ==
    ASSUME HandleInv, HandleAssumption, NEW r \in Runs, run[r].at \in {"save", "write"}
    PROVE  /\ \A id \in Runs \cup {Old} : Saved(id) => Witness(id)
           /\ \A q \in Runs \ {r} : run[q].at = "write" => Witness(q)
<1>1. ToldOf(r) /\ Live(r)
    BY DEF HandleInv, Live, Running, Places
<1>2. run[r].replace => Replaces(r)
    BY <1>1 DEF ToldOf, Replaces
<1>3. run[r].replace \/ Creator(r)
    BY <1>1 DEF ToldOf, Creator, Running, Places
<1>4. ASSUME NEW id \in Runs \cup {Old}, Saved(id) PROVE Witness(id)
    <2>1. r # id
        BY <1>4, HandleAssumption DEF Saved
    <2> QED
        BY <1>2, <1>3, <1>4, <2>1 DEF HandleInv, NoneToLose, Witness
<1>5. ASSUME NEW q \in Runs \ {r}, run[q].at = "write" PROVE Witness(q)
    <2>1. ToldOf(q) /\ Live(q)
        BY <1>5 DEF HandleInv, Live, Running, Places
    <2>2. CASE run[q].replace
        <3>1. Replaces(q) /\ run[q].met # {}
            BY <1>1, <1>5, <2>1, <2>2 DEF ToldOf, Replaces, HandleInv, AllMet
        <3> QED
            BY <3>1 DEF Witness
    <2>3. CASE ~run[q].replace
        <3>1. Creator(q)
            BY <1>5, <2>1, <2>3 DEF ToldOf, Creator, Running, Places
        <3>2. Replaces(r)
            BY <1>2, <1>3, <3>1 DEF HandleInv, OneCreator
        <3> QED
            BY <3>2 DEF Witness
    <2> QED
        BY <2>2, <2>3
<1> QED
    BY <1>4, <1>5

(* The inductive step, for the run that moves and for those that do not. *)
LEMMA HandleInvStep ==
    ASSUME HandleInv, HandleAssumption, [HandleNext]_handleVars
    PROVE  HandleInv'
<1>1. CASE UNCHANGED handleVars
    BY <1>1 DEF handleVars, HandleInv, HandleTypeOK, ToldOf, AllMet, OneCreator, NoneToLose, WritesAlone,
        HandleIsKept, Live, Creator, Witness, Saved, Replaces, _load
<1>2. ASSUME NEW r \in Runs, Act(r), before' = before PROVE HandleInv'
    <2>1. HandleTypeOK'
        BY <1>2, TypeStep DEF HandleInv, HandleNext, Act
    <2>2. \A q \in Runs : ToldOf(q)'
        BY <1>2, <2>1, ToldStep
    <2>3. \A q \in Runs \ {r} :
            /\ Live(q)' <=> Live(q)
            /\ Creator(q)' <=> Creator(q)
            /\ run[q].met \subseteq run'[q].met
        BY <1>2, Others DEF HandleInv, Live, Creator
    <2>4. AllMet'
        <3> SUFFICES ASSUME NEW p \in Runs, NEW q \in Runs, p # q, Live(p)', Live(q)'
                     PROVE  q \in run'[p].met
            BY DEF AllMet
        <3>1. CASE Start(r) /\ p = r
            <4>1. run[r] \in Processes
                BY DEF HandleInv, HandleTypeOK
            <4>2. run'[r] = [run[r] EXCEPT !.at = "reserve", !.met = {x \in Runs : Live(x)}]
                BY <3>1 DEF Start, Live
            <4>3. run'[r].met = {x \in Runs : Live(x)}
                BY <4>1, <4>2 DEF Processes
            <4> QED
                BY <3>1, <4>3, <2>3
        <3>2. CASE Start(r) /\ q = r
            <4>1. run[p] \in Processes
                BY DEF HandleInv, HandleTypeOK
            <4>2. run'[p] = [run[p] EXCEPT !.met = @ \cup {r}]
                BY <3>2, <2>3 DEF Start, Live
            <4> QED
                BY <3>2, <4>1, <4>2 DEF Processes
        <3>3. CASE ~Start(r) \/ (p # r /\ q # r)
            BY <1>2, <3>3, <2>3, Actor DEF HandleInv, AllMet
        <3> QED
            BY <3>1, <3>2, <3>3
    <2>5. OneCreator'
        <3>1. Creator(r)' => Creator(r) \/ (file = Absent /\ file' = Empty)
            <4>1. Start(r) => run[r].at = "idle"
                BY DEF Start
            <4> QED
                BY <1>2, <4>1, Actor DEF HandleInv, Creator, ToldOf
        <3>2. ASSUME Unlinks(r), file' = Absent PROVE ~Live(r)' /\ Creator(r)
            <4>1. run[r] \in Processes /\ ToldOf(r) /\ DOMAIN run = Runs /\ run[r].at = "unlink"
                BY <3>2 DEF Unlinks, HandleInv, HandleTypeOK
            <4>2. run'[r] \in {[run[r] EXCEPT !.at = _report(run[r].answer)], [run[r] EXCEPT !.at = "traceback"]}
                BY <3>2, <4>1 DEF Unlinks, Become, EndsWith
            <4>3. run'[r].at \in {"OUTCOME_UNKNOWN", "GATE_FAILURE", "traceback"}
                BY <4>1, <4>2 DEF Processes, _report
            <4> QED
                BY <4>1, <4>3 DEF Live, Creator, ToldOf, Running, Places
        <3>3. ASSUME NEW q \in Runs, Creator(q)' PROVE file' # Absent
            BY <1>2, <2>3, <3>1, <3>2, <3>3, Actor, HandleAssumption DEF HandleInv, OneCreator, Creator
        <3>4. ASSUME NEW p \in Runs, NEW q \in Runs, Creator(p)', Creator(q)' PROVE p = q
            BY <2>3, <3>1, <3>4 DEF HandleInv, OneCreator
        <3> QED
            BY <3>3, <3>4 DEF OneCreator
    <2>6. \A id \in Runs \cup {Old} : Saved(id)' => Saved(id) \/ (id = r /\ run[r].at = "write" /\ Writes(r))
        BY <1>2, Actor, Others DEF HandleInv, Saved
    <2>7. \A id : Witness(id) => Witness(id)'
        BY <1>2, <2>1, WitnessLasts
    <2>8. NoneToLose'
        <3> SUFFICES ASSUME NEW q \in Runs, Creator(q)', NEW id \in Runs \cup {Old}, Saved(id)'
                     PROVE  Witness(id)
            BY <2>7 DEF NoneToLose
        <3>1. CASE Saved(id) /\ Creator(q)
            BY <3>1 DEF HandleInv, NoneToLose
        <3>2. CASE Saved(id) /\ ~Creator(q)
            <4>1. file = Absent
                BY <1>2, <2>3, <3>2, Actor DEF HandleInv, Creator, ToldOf, Start
            <4> QED
                BY <3>2, <4>1, HandleAssumption DEF HandleInv, HandleIsKept, Witness
        <3>3. CASE ~Saved(id)
            <4>1. id = r /\ run[r].at = "write" /\ Writes(r) /\ ToldOf(r)
                BY <2>6, <3>3 DEF HandleInv
            <4>2. q # r /\ Creator(q) /\ Live(r)
                <5>1. run'[r].at \in {"OK", "untold"}
                    BY <4>1, HandleAssumption DEF Saved
                <5> QED
                    BY <2>3, <4>1, <5>1 DEF Creator, Live, Running, Places
            <4>3. run[r].replace /\ Replaces(r) /\ q \in run[r].met
                BY <4>1, <4>2 DEF HandleInv, OneCreator, AllMet, Creator, Live, ToldOf, Replaces, Running, Places
            <4> QED
                BY <4>1, <4>3 DEF Witness
        <3> QED
            BY <3>1, <3>2, <3>3
    <2>9. WritesAlone'
        <3> SUFFICES ASSUME NEW q \in Runs, run'[q].at = "write", ~Witness(q)
                     PROVE  run'[q].linked /\ file' = Empty
            BY <2>7 DEF WritesAlone
        <3>1. CASE q = r
            <4>1. Truncates(r)
                BY <1>2, <3>1, Actor
            <4>2. run[r] \in Processes /\ DOMAIN run = Runs
                BY DEF HandleInv, HandleTypeOK
            <4> QED
                BY <3>1, <4>1, <4>2 DEF Truncates, Become, EndsWith, Processes
        <3>2. CASE q # r
            <4>1. run[q].at = "write" /\ run[q].linked /\ file = Empty /\ ToldOf(q) /\ Live(q)
                BY <1>2, <3>2, Others DEF HandleInv, WritesAlone, Live, Running, Places
            <4>2. ~(run[r].at \in {"save", "write"})
                BY <3>2, <4>1, MayOverwrite
            <4>3. ~Unlinks(r)
                <5> SUFFICES ASSUME Unlinks(r) PROVE FALSE
                    OBVIOUS
                <5>1. Creator(r) /\ Live(r)
                    BY DEF Unlinks, Creator, Live, HandleInv, ToldOf, Running, Places
                <5>2. run[q].replace
                    BY <3>2, <4>1, <5>1 DEF HandleInv, OneCreator, Creator, ToldOf, Running, Places
                <5>3. Replaces(q) /\ run[q].met # {}
                    BY <3>2, <4>1, <5>1, <5>2 DEF HandleInv, AllMet, ToldOf, Replaces
                <5> QED
                    BY <5>3 DEF Witness
            <4> QED
                BY <1>2, <3>2, <4>1, <4>2, <4>3, Actor, Others, HandleAssumption DEF HandleInv
        <3> QED
            BY <3>1, <3>2
    <2>10. ASSUME NEW id \in Runs \cup {Old}, Saved(id)', file' # id PROVE Witness(id)
        <3>1. CASE ~Saved(id)
            <4>1. id = r /\ run[r].at = "write" /\ Writes(r) /\ run'[r].at \in {"OK", "untold"}
                BY <2>6, <2>10, <3>1, HandleAssumption DEF Saved
            <4>2. ~(run[r].linked /\ file = Empty)
                BY <2>10, <4>1 DEF Writes, Written, Become, EndsWith, HandleInv, HandleTypeOK, Processes
            <4> QED
                BY <4>1, <4>2 DEF HandleInv, WritesAlone
        <3>2. CASE Saved(id) /\ file # id
            BY <3>2 DEF HandleInv, HandleIsKept, Witness
        <3>3. CASE Saved(id) /\ file = id
            <4>1. run[r].at \in {"save", "write"} \/ Unlinks(r)
                BY <1>2, <2>10, <3>3, Actor, HandleAssumption
            <4>2. CASE Unlinks(r)
                <5>1. Creator(r)
                    BY <4>2 DEF Unlinks, Creator, Live, HandleInv, ToldOf, Running, Places
                <5> QED
                    BY <3>3, <5>1 DEF HandleInv, NoneToLose
            <4> QED
                BY <3>3, <4>1, <4>2, MayOverwrite
        <3> QED
            BY <3>1, <3>2, <3>3
    <2>11. ASSUME NEW q \in Runs, _load' = q PROVE run'[q].printed
        <3>1. file' = q
            BY <2>11, HandleAssumption DEF _load
        <3>2. CASE file = q
            <4>1. run[q].printed
                BY <3>2 DEF HandleInv, HandleIsKept, _load
            <4> QED
                BY <1>2, <4>1, Actor, Others DEF HandleInv
        <3>3. CASE file # q
            <4>1. q = r /\ run[r].at = "write"
                BY <1>2, <3>1, <3>3, Actor, HandleAssumption
            <4> QED
                BY <1>2, <4>1, Actor DEF HandleInv, ToldOf
        <3> QED
            BY <3>2, <3>3
    <2>12. HandleIsKept'
        BY <2>7, <2>10, <2>11 DEF HandleIsKept, Witness
    <2> QED
        BY <2>1, <2>2, <2>4, <2>5, <2>8, <2>9, <2>12 DEF HandleInv
<1> QED
    BY <1>1, <1>2 DEF HandleNext, Act

(* The invariant holds throughout. *)
LEMMA HandleInvHolds == HandleSpec => []HandleInv
<1>1. HandleInit => HandleInv
    BY HandleAssumption DEF HandleInit, HandleInv, HandleTypeOK, Processes, Places, Running, ToldOf, AllMet, Live,
        OneCreator, Creator, NoneToLose, WritesAlone, HandleIsKept, Saved, _load
<1>2. HandleInv /\ [HandleNext]_handleVars => HandleInv'
    BY HandleInvStep, HandleAssumption
<1> QED
    BY <1>1, <1>2, PTL DEF HandleSpec

(* Type correctness of the runs and of the file they share. *)
THEOREM HandleTypeCorrect == HandleSpec => []HandleTypeOK
<1>1. HandleInv => HandleTypeOK
    BY DEF HandleInv
<1> QED
    BY <1>1, HandleInvHolds, PTL

(* What a run ends with is true of the gate, wherever it or another one failed
   or was killed. *)
THEOREM ExitTrue == HandleSpec => []ExitIsTrue
<1>1. HandleInv => ExitIsTrue
    BY DEF HandleInv, HandleTypeOK, Processes, ToldOf, ExitIsTrue, Exits, Usage, Places
<1> QED
    BY <1>1, HandleInvHolds, PTL

(* A saved handle outlives whatever any number of other runs do, unless one of
   them was told to replace it and got as far as an id of its own. *)
THEOREM HandleKept == HandleSpec => []HandleIsKept
<1>1. HandleInv => HandleIsKept
    BY DEF HandleInv
<1> QED
    BY <1>1, HandleInvHolds, PTL

-----------------------------------------------------------------------------
(* Checks, for files of any length. *)

(* A body is a sequence, no longer than a file gets. *)
LEMMA BodiesAreSequences ==
    ASSUME NEW T, NEW body
    PROVE  body \in BodiesOf(T) <=> body \in Seq(T) /\ Len(body) <= MaxBody
<1>1. ASSUME body \in BodiesOf(T) PROVE body \in Seq(T) /\ Len(body) <= MaxBody
    <2>1. PICK n \in 0..MaxBody : body \in [1..n -> T]
        BY <1>1 DEF BodiesOf
    <2>2. body \in Seq(T) /\ Len(body) = n
        BY <2>1
    <2> QED
        BY <2>1, <2>2, ChecksAssumption
<1>2. ASSUME body \in Seq(T), Len(body) <= MaxBody PROVE body \in BodiesOf(T)
    <2>1. Len(body) \in 0..MaxBody /\ body \in [1..Len(body) -> T]
        BY <1>2, ChecksAssumption
    <2> QED
        BY <2>1 DEF BodiesOf
<1> QED
    BY <1>1, <1>2

(* One token more than is allowed gives a file away; a file that is not given
   away was not cut. *)
LEMMA WindowShowsExcess ==
    ASSUME NEW T, NEW body \in Seq(T), NEW limit \in Nat,
           Len(Cut(body, ReadWindow(limit))) <= limit
    PROVE  Cut(body, ReadWindow(limit)) = body
<1>1. Len(body) \in Nat
    OBVIOUS
<1>2. CASE Len(body) < limit + 1
    <2>1. Cut(body, ReadWindow(limit)) = SubSeq(body, 1, Len(body))
        BY <1>1, <1>2 DEF Cut, ReadWindow
    <2>2. SubSeq(body, 1, Len(body)) = body
        OBVIOUS
    <2> QED
        BY <2>1, <2>2
<1>3. CASE ~(Len(body) < limit + 1)
    <2>1. Cut(body, ReadWindow(limit)) = SubSeq(body, 1, limit + 1)
        BY <1>3 DEF Cut, ReadWindow
    <2>2. Len(SubSeq(body, 1, limit + 1)) = limit + 1
        BY <1>1, <1>3
    <2> QED
        BY <2>1, <2>2
<1> QED
    BY <1>2, <1>3

-----------------------------------------------------------------------------
TokensDue == IF reading.what = "manifest" THEN Manifests ELSE Texts
Bodies == BodiesOf(Texts) \cup BodiesOf(Manifests)
ResultEntries == [status : {"clean", "flagged", "unevaluated"}, right : BOOLEAN]
Readings ==
    [at : {"open", "stat", "read", "take"}, what : {"manifest", "content"},
     manifest : Manifests \cup {NoManifest}, opened : Bodies, data : Bodies]

(* What is read is of the kind that is due, content under a manifest; and what
   is known of the results and the descriptors. *)
ChecksInv ==
    /\ reading \in Readings
    /\ descriptors \subseteq {"parent", "fd", "stream"}
    /\ results \in Seq(ResultEntries)
    /\ exit \in {"none", "OK", "FLAGGED", "UNEVALUATED"}
    /\ reading.what = "content" => reading.manifest \in Manifests
    /\ reading.at # "open" => reading.opened \in BodiesOf(TokensDue)
    /\ EvidenceIsOfWhole

(* An empty file is a file. *)
LEMMA NothingIsABody == Nothing \in Bodies
<1>1. Nothing \in Seq(Texts) /\ Len(Nothing) = 0
    BY DEF Nothing
<1>2. MaxBody \in Nat
    BY ChecksAssumption
<1>3. 0 <= MaxBody
    BY <1>2
<1>4. Nothing \in BodiesOf(Texts)
    <2> HIDE DEF Nothing
    <2> QED
        BY <1>1, <1>3, BodiesAreSequences
<1> QED
    BY <1>4 DEF Bodies

(* No path is opened, and there is no result. *)
LEMMA ChecksBegins == ChecksInit => ChecksInv
<1> SUFFICES ASSUME ChecksInit PROVE ChecksInv
    OBVIOUS
<1>1. reading \in Readings /\ reading.what = "manifest" /\ reading.at = "open"
    BY NothingIsABody DEF ChecksInit, Readings
<1>2. results = <<>> /\ descriptors = {} /\ exit = "none"
    BY DEF ChecksInit
<1>3. results \in Seq(ResultEntries) /\ DOMAIN results = {}
    BY <1>2
<1>4. EvidenceIsOfWhole
    BY <1>1, <1>2, <1>3 DEF EvidenceIsOfWhole
<1> QED
    BY <1>1, <1>2, <1>3, <1>4 DEF ChecksInv

(* A path is done. *)
LEMMA EnterKeeps ==
    ASSUME ChecksInv, NEW found \in {"clean", "flagged", "unevaluated"},
           Enter(found, TRUE), exit = "none", descriptors' = {}
    PROVE  ChecksInv'
<1>1. /\ reading' \in Readings /\ reading'.what = "manifest" /\ reading'.at = "open"
    BY NothingIsABody DEF Enter, Readings
<1>2. exit' = "none" /\ descriptors' = {}
    BY DEF Enter
<1> DEFINE entry == [status |-> found, right |-> TRUE]
<1>3. entry \in ResultEntries /\ entry.right
    BY DEF ResultEntries
<1>4. results' = Append(results, entry) /\ results \in Seq(ResultEntries)
    BY DEF Enter, ChecksInv
<1> HIDE DEF entry
<1>5. /\ results' \in Seq(ResultEntries)
      /\ \A i \in DOMAIN results' :
            (i \in DOMAIN results /\ results'[i] = results[i]) \/ results'[i] = entry
    BY <1>3, <1>4
<1>6. \A i \in DOMAIN results' : results'[i].right
    BY <1>3, <1>5 DEF ChecksInv, EvidenceIsOfWhole
<1>7. EvidenceIsOfWhole'
    BY <1>1, <1>2, <1>6 DEF EvidenceIsOfWhole
<1> QED
    BY <1>1, <1>2, <1>5, <1>7 DEF ChecksInv

(* The limit of what is being read: the manifest's own, or the one it sets. *)
LEMMA LimitIsNatural == ChecksInv => Limit \in Nat
    BY ChecksAssumption DEF ChecksInv, Limit, Readings

(* The run goes on with the same path and the same results. *)
LEMMA SamePath ==
    ASSUME ChecksInv, reading' \in Readings, UNCHANGED <<results, exit>>,
           descriptors' \subseteq {"parent", "fd", "stream"},
           reading'.what = "content" => reading'.manifest \in Manifests,
           reading'.at # "open" => reading'.opened \in BodiesOf(TokensDue'),
           reading'.at = "take" => reading'.data = reading'.opened,
           reading'.at \in {"open", "take"} => descriptors' = {}
    PROVE  ChecksInv'
<1>1. reading'.what = "content" => reading'.manifest # NoManifest
    BY ChecksAssumption
<1>2. EvidenceIsOfWhole'
    BY <1>1 DEF ChecksInv, EvidenceIsOfWhole, Counted
<1> QED
    BY <1>2 DEF ChecksInv

(* The directory and the file are opened, or one of them cannot be. *)
LEMMA OpensKeeps ==
    ASSUME ChecksInv, Opens PROVE ChecksInv'
<1>1. PICK body \in BodiesOf(TokensDue) : reading' = [reading EXCEPT !.at = "stat", !.opened = body]
    BY DEF Opens, TokensDue
<1>2. body \in Bodies
    BY DEF Bodies, TokensDue
<1>3. /\ reading' \in Readings /\ reading'.at = "stat" /\ reading'.opened = body
      /\ reading'.what = reading.what /\ reading'.manifest = reading.manifest
    BY <1>1, <1>2 DEF ChecksInv, Readings
<1>4. TokensDue' = TokensDue
    BY <1>3 DEF TokensDue
<1>5. /\ descriptors' \subseteq {"parent", "fd", "stream"} /\ UNCHANGED <<results, exit>>
    BY DEF Opens, ChecksInv
<1> QED
    BY <1>1, <1>3, <1>4, <1>5, SamePath DEF ChecksInv

(* An error: the path counts as not evaluated, which every file deserves. *)
LEMMA UnevaluatedKeeps ==
    ASSUME ChecksInv, Unevaluated, exit = "none", descriptors' = {} PROVE ChecksInv'
    BY EnterKeeps DEF Unevaluated

(* fstat turns away what already is too long. *)
LEMMA StatsKeeps ==
    ASSUME ChecksInv, Stats PROVE ChecksInv'
<1>1. CASE Len(reading.opened) > Limit
    BY <1>1, UnevaluatedKeeps DEF Stats, Is
<1>2. CASE ~(Len(reading.opened) > Limit)
    <2>1. reading' = [reading EXCEPT !.at = "read"] /\ reading.at = "stat"
        BY <1>2 DEF Stats, Is
    <2>2. /\ reading' \in Readings /\ reading'.at = "read" /\ reading'.opened = reading.opened
          /\ reading'.what = reading.what /\ reading'.manifest = reading.manifest
        BY <2>1 DEF ChecksInv, Readings
    <2>3. TokensDue' = TokensDue
        BY <2>2 DEF TokensDue
    <2>4. /\ descriptors' \subseteq {"parent", "fd", "stream"} /\ UNCHANGED <<results, exit>>
        BY <1>2 DEF Stats
    <2> QED
        BY <2>1, <2>2, <2>3, <2>4, SamePath DEF ChecksInv
<1> QED
    BY <1>1, <1>2

(* The file gets longer while it is open. *)
LEMMA GrowsKeeps ==
    ASSUME ChecksInv, Grows PROVE ChecksInv'
<1>1. PICK token \in TokensDue : reading' = [reading EXCEPT !.opened = Append(reading.opened, token)]
    BY DEF Grows, TokensDue
<1> DEFINE body == Append(reading.opened, token)
<1>2. reading.at \in {"stat", "read"} /\ Len(reading.opened) < MaxBody /\ UNCHANGED <<descriptors, results, exit>>
    BY DEF Grows, Is
<1>3. reading.opened \in Seq(TokensDue)
    BY <1>2, BodiesAreSequences DEF ChecksInv
<1>4. body \in Seq(TokensDue) /\ Len(body) = Len(reading.opened) + 1 /\ Len(reading.opened) \in Nat
    BY <1>3
<1>5. body \in BodiesOf(TokensDue)
    <2>1. MaxBody \in Nat
        BY ChecksAssumption
    <2>2. Len(body) <= MaxBody
        BY <1>2, <1>4, <2>1
    <2> QED
        BY <1>4, <2>2, BodiesAreSequences
<1>6. body \in Bodies
    BY <1>5 DEF Bodies, TokensDue
<1> HIDE DEF body
<1>7. /\ reading' \in Readings /\ reading'.at = reading.at /\ reading'.opened = body
      /\ reading'.what = reading.what /\ reading'.manifest = reading.manifest
    BY <1>1, <1>6 DEF ChecksInv, Readings, body
<1>8. TokensDue' = TokensDue
    BY <1>7 DEF TokensDue
<1> QED
    BY <1>2, <1>5, <1>7, <1>8, SamePath DEF ChecksInv

(* The read: one token more than the limit is asked for, and seen if it is there. *)
LEMMA ReadsKeeps ==
    ASSUME ChecksInv, Reads PROVE ChecksInv'
<1> DEFINE data == Cut(reading.opened, ReadWindow(Limit))
<1> HIDE DEF data
<1>1. reading.at = "read" /\ exit = "none" /\ descriptors' = {}
    BY DEF Reads, Is
<1>2. reading.opened \in Seq(TokensDue) /\ reading.opened \in BodiesOf(TokensDue)
    BY <1>1, BodiesAreSequences DEF ChecksInv
<1>3. CASE Len(data) > Limit
    BY <1>1, <1>3, UnevaluatedKeeps DEF Reads, data
<1>4. CASE ~(Len(data) > Limit)
    <2>1. Limit \in Nat
        BY LimitIsNatural
    <2>2. reading' = [reading EXCEPT !.at = "take", !.data = data] /\ UNCHANGED <<results, exit>>
        BY <1>4 DEF Reads, data
    <2>3. data = reading.opened
        <3>1. Len(data) \in Nat
            BY <1>2, <2>1 DEF data, Cut, ReadWindow
        <3> QED
            BY <1>2, <1>4, <2>1, <3>1, WindowShowsExcess DEF data
    <2>4. /\ reading' \in Readings /\ reading'.at = "take" /\ reading'.opened = reading.opened
          /\ reading'.data = data /\ reading'.what = reading.what /\ reading'.manifest = reading.manifest
        BY <2>2, <2>3 DEF ChecksInv, Readings
    <2>5. TokensDue' = TokensDue
        BY <2>4 DEF TokensDue
    <2> QED
        BY <1>1, <1>2, <2>2, <2>3, <2>4, <2>5, SamePath DEF ChecksInv
<1> QED
    BY <1>3, <1>4

(* The manifest is taken as it was read. *)
LEMMA load_packageKeeps ==
    ASSUME ChecksInv, load_package PROVE ChecksInv'
<1>1. reading.at = "take" /\ reading.what = "manifest" /\ exit = "none" /\ UNCHANGED descriptors
    BY DEF load_package, Is
<1>2. descriptors = {} /\ reading.data = reading.opened /\ reading.data \in Seq(Manifests)
    BY <1>1, BodiesAreSequences DEF ChecksInv, EvidenceIsOfWhole, TokensDue
<1>3. CASE reading.data = Nothing
    BY <1>1, <1>2, <1>3, UnevaluatedKeeps DEF load_package
<1>4. CASE reading.data # Nothing
    <2>1. reading.data[1] \in Manifests
        BY <1>2, <1>4 DEF Nothing
    <2>2. /\ reading' = [reading EXCEPT !.at = "open", !.what = "content", !.manifest = reading.data[1]]
          /\ UNCHANGED <<results, exit>>
        BY <1>4 DEF load_package
    <2>3. reading' \in Readings /\ reading'.at = "open" /\ reading'.manifest \in Manifests
        BY <2>1, <2>2 DEF ChecksInv, Readings
    <2> QED
        BY <1>1, <1>2, <2>2, <2>3, SamePath
<1> QED
    BY <1>3, <1>4

(* The content is judged as it was read, which was all of it. *)
LEMMA evaluate_fileKeeps ==
    ASSUME ChecksInv, evaluate_file PROVE ChecksInv'
<1> DEFINE found == evaluate(reading.manifest, reading.data)
<1>1. reading.at = "take" /\ exit = "none" /\ UNCHANGED descriptors
    BY DEF evaluate_file, Is
<1>2. descriptors = {} /\ reading.data = reading.opened
    BY <1>1 DEF ChecksInv, EvidenceIsOfWhole
<1>3. Unevaluated \/ Enter(found, found = evaluate(reading.manifest, reading.opened))
    BY DEF evaluate_file
<1>4. found = evaluate(reading.manifest, reading.opened)
    BY <1>2
<1>5. found \in {"clean", "flagged", "unevaluated"}
    BY DEF evaluate
<1> HIDE DEF found
<1>6. CASE Enter(found, found = evaluate(reading.manifest, reading.opened))
    <2>1. Enter(found, TRUE)
        BY <1>4, <1>6 DEF Enter
    <2> QED
        BY <1>1, <1>2, <1>5, <2>1, EnterKeeps
<1> QED
    BY <1>1, <1>2, <1>3, <1>6, UnevaluatedKeeps

(* The paths are done, and the status is that of the results. *)
LEMMA EndsKeeps ==
    ASSUME ChecksInv, Ends PROVE ChecksInv'
<1>1. UNCHANGED <<reading, descriptors, results>> /\ exit' = exit_status
    BY DEF Ends
<1>2. exit' \in {"none", "OK", "FLAGGED", "UNEVALUATED"}
    BY <1>1 DEF exit_status
<1>3. ASSUME exit' = "OK" PROVE Counted("clean") = DOMAIN results
    <2>1. Counted("unevaluated") = {} /\ Counted("flagged") = {}
        BY <1>1, <1>3 DEF exit_status
    <2>2. \A i \in DOMAIN results : results[i] \in ResultEntries
        BY DEF ChecksInv
    <2>3. \A i \in DOMAIN results : results[i].status \in {"clean", "flagged", "unevaluated"}
        BY <2>2 DEF ResultEntries
    <2> QED
        BY <2>1, <2>3 DEF Counted
<1>4. EvidenceIsOfWhole'
    BY <1>1, <1>3 DEF ChecksInv, EvidenceIsOfWhole, Counted
<1> QED
    BY <1>1, <1>2, <1>4 DEF ChecksInv, TokensDue

(* The inductive step, action by action. *)
LEMMA ChecksInvHolds == ChecksSpec => []ChecksInv
<1>1. ChecksInv /\ [ChecksNext]_checksVars => ChecksInv'
    <2> SUFFICES ASSUME ChecksInv, [ChecksNext]_checksVars PROVE ChecksInv'
        OBVIOUS
    <2>1. CASE UNCHANGED checksVars
        BY <2>1 DEF checksVars, ChecksInv, EvidenceIsOfWhole, Counted, TokensDue
    <2>2. CASE OpenFails \/ ReadFails
        BY <2>2, UnevaluatedKeeps DEF OpenFails, ReadFails, Is
    <2> QED
        BY <2>1, <2>2, OpensKeeps, StatsKeeps, GrowsKeeps, ReadsKeeps, load_packageKeeps,
           evaluate_fileKeeps, EndsKeeps DEF ChecksNext, check_paths, read_bounded
<1> QED
    BY <1>1, ChecksBegins, PTL DEF ChecksSpec

(* No outcome is that of a part of a file: a path is clean or flagged only for all
   that was in it when it was read, and within its limit, for files of any length
   that grow between any two looks at them, any limits and any number of paths
   (package.py, read_bounded; authoring.py; the check programs). No descriptor is
   left open at the end of a run. *)
THEOREM OfWhole == ChecksSpec => []EvidenceIsOfWhole
<1>1. ChecksInv => EvidenceIsOfWhole
    BY DEF ChecksInv
<1> QED
    BY <1>1, ChecksInvHolds, PTL

(* Type correctness of a reading and of the results: no file is read that is not of
   the kind that is due, for files of any length. *)
THEOREM ChecksTypeCorrect == ChecksSpec => []ChecksTypeOK
<1>1. ChecksInv => ChecksTypeOK
    <2>1. ChecksInv => \A i \in DOMAIN results : results[i] \in ResultEntries
        BY DEF ChecksInv
    <2> QED
        BY <2>1 DEF ChecksInv, ChecksTypeOK, Readings, Bodies, ResultEntries
<1> QED
    BY <1>1, ChecksInvHolds, PTL

-----------------------------------------------------------------------------
(* Verification, for any checkout and any edits. *)

(* A hash is of something the file once was, and the files edited during a step
   have moved on since the first hash, so that a later hash of them is another. *)
HashesAreOld ==
    \A f \in Source :
        /\ check.before[f] # Unread => check.before[f] <= content[f]
        /\ f \in edited =>
            /\ check.before[f] # Unread /\ check.before[f] < content[f]
            /\ check.after[f] # Unread => check.before[f] < check.after[f]

(* What is known at each place of main(). *)
KnownAt ==
    /\ check.at # "done" =>
        check.exit = "none" /\ report \in {"none", "running"}
    /\ check.at \notin {"failed", "done"} => check.unchanged = "none"
    /\ check.at \in {"preflight", "snapshot"} => edited = {}
    /\ check.at \in {"preflight", "snapshot", "tests", "docs"} => check.after = NoHashes
    /\ check.at \in {"tests", "docs"} => AllRead(check.before)
    /\ check.at \in {"docs", "source_stability", "passed"} =>
        check.ran["tests"] = "0" /\ check.coverage = "complete"
    /\ check.at \in {"source_stability", "passed"} => check.ran["docs"] = "0"
    /\ check.at = "passed" => edited \cap Source = {}
    /\ check.mode = "preflight" => check.at \in {"preflight", "done"} /\ report = "none"

VerificationInv == VerificationTypeOK /\ HashesAreOld /\ KnownAt /\ PassedIsEarned

USE DEF Steps, Hashed

(* A run begins before its first hash. *)
LEMMA VerificationBegins == VerificationInit => VerificationInv
<1> SUFFICES ASSUME VerificationInit PROVE VerificationInv
  OBVIOUS
<1> USE VerificationAssumption
<1>1. NoHashes \in Hashes /\ \A f \in Source : NoHashes[f] = Unread
  BY DEF NoHashes, Hashes
<1>2. VerificationTypeOK BY <1>1 DEF VerificationInit, VerificationTypeOK
<1>3. check.before = NoHashes /\ edited = {}
  BY DEF VerificationInit
<1>6. HashesAreOld BY <1>1, <1>3 DEF HashesAreOld
<1>4. KnownAt BY DEF VerificationInit, KnownAt
<1>5. PassedIsEarned BY DEF VerificationInit, PassedIsEarned
<1> QED BY <1>2, <1>4, <1>5, <1>6 DEF VerificationInv

(* An edit makes a file newer than every hash of it there is. *)
LEMMA EditKeeps ==
  ASSUME VerificationInv, NEW f \in Tree, Edit(f) PROVE VerificationInv'
<1> USE VerificationAssumption
<1> USE DEF VerificationInv
<1>1. content[f] \in 0..MaxEdits /\ content'[f] = content[f] + 1 /\ \A g \in Tree \ {f} : content'[g] = content[g]
  BY DEF Edit, VerificationTypeOK
<1>2. VerificationTypeOK'
  <2>1. content' \in [Tree -> 0..MaxEdits]
     BY DEF Edit, VerificationTypeOK
  <2> QED BY <2>1 DEF Edit, VerificationTypeOK
<1>3. HashesAreOld'
   <2> SUFFICES ASSUME NEW g \in Source PROVE 
        /\ check.before[g] # Unread => check.before[g] <= content'[g]
        /\ g \in edited' =>
            /\ check.before[g] # Unread /\ check.before[g] < content'[g]
            /\ check.after[g] # Unread => check.before[g] < check.after[g]
       BY DEF HashesAreOld, Edit
   <2>1. check.before[g] \in 0..MaxEdits \cup {Unread} /\ check.after[g] \in 0..MaxEdits \cup {Unread}
      BY DEF VerificationTypeOK, Hashes
   <2>2. CASE g # f
     BY <2>1, <2>2, <1>1 DEF HashesAreOld, Edit
   <2>3. CASE g = f
     <3>1. CASE check.at \in {"tests", "docs"}
        <4>1. check.before[g] # Unread /\ check.after[g] = Unread
          BY <3>1 DEF KnownAt, AllRead, NoHashes
        <4> QED BY <4>1, <2>1, <2>3, <1>1 DEF HashesAreOld, VerificationTypeOK
     <3>2. CASE check.at \notin {"tests", "docs"}
        <4>1. edited' = edited BY <3>2 DEF Edit
        <4> QED BY <4>1, <2>1, <2>3, <1>1 DEF HashesAreOld, VerificationTypeOK
     <3> QED BY <3>1, <3>2
   <2> QED BY <2>2, <2>3
<1>4. KnownAt' 
   BY DEF KnownAt, Edit, AllRead
<1>5. PassedIsEarned'
   BY DEF PassedIsEarned, Edit, KnownAt
<1> QED BY <1>2, <1>3, <1>4, <1>5

(* The states of the process that VerificationTypeOK lists. *)
CheckRecords ==
    [mode : {"whole", "preflight"}, at : Steps \cup {"preflight", "snapshot", "source_stability", "recheck", "passed",
                      "failed", "escaped", "done"},
     before : Hashes, after : Hashes, phase : Steps \cup {"none", "snapshot", "source_stability"},
     ran : [Steps -> {"none", "0", "1", "124"}], coverage : {"none", "incomplete", "complete"},
     unchanged : {"none", "yes", "no"}, exit : {"none", "0", "1", "2"}]

(* A failure in any step, whatever was noted of the step by then. *)
LEMMA HandledKeeps ==
    ASSUME VerificationInv, UNCHANGED <<content, report, edited>>,
           NEW c \in CheckRecords, check' = Handled(c),
           c.at = check.at, c.before = check.before,
           c.unchanged = check.unchanged, c.exit = check.exit, c.mode = check.mode,
           check.at \in {"snapshot", "tests", "docs", "source_stability"}
    PROVE  VerificationInv'
<1> USE DEF VerificationInv
<1>1. NoHashes \in Hashes BY DEF NoHashes, Hashes
<1>2. check' \in CheckRecords
    BY <1>1 DEF Handled, CheckRecords
<1>3. VerificationTypeOK'
    BY <1>2 DEF VerificationTypeOK, CheckRecords
<1>4. /\ check'.at = IF check.at = "snapshot" THEN "failed" ELSE "recheck"
      /\ check'.before = check.before /\ check'.after = NoHashes
      /\ check'.unchanged = check.unchanged /\ check'.exit = check.exit
      /\ check'.mode = check.mode
    BY DEF Handled, CheckRecords
<1>5. HashesAreOld'
    BY <1>4, VerificationAssumption DEF HashesAreOld, NoHashes
<1>6. KnownAt'
    BY <1>4 DEF KnownAt
<1>7. PassedIsEarned'
    BY <1>4 DEF PassedIsEarned, KnownAt
<1> QED
    BY <1>3, <1>5, <1>6, <1>7

(* The process without its report, at another place. *)
LEMMA preflightKeeps ==
    ASSUME VerificationInv, preflight PROVE VerificationInv'
<1> USE DEF VerificationInv
<1>1. /\ check' \in CheckRecords
      /\ check'.before = check.before /\ check'.after = check.after
      /\ check'.unchanged = check.unchanged /\ check'.mode = check.mode
      /\ \/ /\ check'.at = "done" /\ report' = report
            /\ check'.exit = "0" => check.mode = "preflight"
         \/ /\ check'.at = "snapshot" /\ report' = "running"
            /\ check'.exit = check.exit /\ check.mode = "whole"
    <2>1. check \in CheckRecords
        BY DEF VerificationTypeOK, CheckRecords
    <2>2. ASSUME NEW code \in {"0", "1", "2"}, code = "0" => check.mode = "preflight",
                 check' = [check EXCEPT !.at = "done", !.exit = code], report' = report
          PROVE  /\ check' \in CheckRecords
                 /\ check'.before = check.before /\ check'.after = check.after
                 /\ check'.unchanged = check.unchanged /\ check'.mode = check.mode
                 /\ check'.at = "done" /\ check'.exit = code
        BY <2>1, <2>2 DEF CheckRecords
    <2>3. CASE check.mode = "whole" /\ check' = [check EXCEPT !.at = "snapshot"] /\ report' = "running"
        BY <2>1, <2>3 DEF CheckRecords
    <2>4. CASE /\ report' = report
               /\ \E code \in {"1", "2"} \cup (IF check.mode = "preflight" THEN {"0"} ELSE {}) :
                    check' = [check EXCEPT !.at = "done", !.exit = code]
        <3>1. PICK code \in {"1", "2"} \cup (IF check.mode = "preflight" THEN {"0"} ELSE {}) :
                check' = [check EXCEPT !.at = "done", !.exit = code]
            BY <2>4
        <3>2. code \in {"0", "1", "2"} /\ (code = "0" => check.mode = "preflight")
            OBVIOUS
        <3> QED
            BY <2>2, <2>4, <3>1, <3>2
    <2> QED
        BY <2>3, <2>4 DEF preflight
<1>2. check.at = "preflight" /\ UNCHANGED <<content, edited>>
    BY DEF preflight
<1>3. VerificationTypeOK'
    BY <1>1, <1>2 DEF VerificationTypeOK, CheckRecords
<1>4. HashesAreOld'
    BY <1>1, <1>2 DEF HashesAreOld
<1>5. KnownAt'
    BY <1>1, <1>2 DEF KnownAt
<1>6. PassedIsEarned'
    BY <1>1, <1>2 DEF PassedIsEarned, KnownAt
<1> QED
    BY <1>3, <1>4, <1>5, <1>6

(* The tests and the documentation, each of which may pass, fail or hang. *)
LEMMA RunStepKeeps ==
    ASSUME VerificationInv, NEW s \in Steps, RunStep(s) PROVE VerificationInv'
<1> USE DEF VerificationInv
<1>1. check \in CheckRecords
    BY DEF VerificationTypeOK, CheckRecords
<1>2. ASSUME NEW code \in {"0", "1", "124"} PROVE
        /\ Ran(s, code) \in CheckRecords
        /\ Ran(s, code).ran[s] = code
        /\ Ran(s, code).at = check.at /\ Ran(s, code).before = check.before
        /\ Ran(s, code).after = check.after 
        /\ Ran(s, code).unchanged = check.unchanged /\ Ran(s, code).exit = check.exit /\ Ran(s, code).mode = check.mode
        /\ Ran(s, code).coverage = check.coverage
        /\ \A t \in Steps \ {s} : Ran(s, code).ran[t] = check.ran[t]
    BY <1>1 DEF CheckRecords, Ran
<1>3. CASE check' = Handled(check)
    BY <1>1, <1>3, HandledKeeps DEF RunStep
<1>4. CASE check' = Handled(Ran(s, "124"))
    BY <1>2, <1>4, HandledKeeps DEF RunStep
<1>5. CASE check' = Escaped(check)
    <2>1. VerificationTypeOK'
        BY <1>5 DEF VerificationTypeOK, RunStep, Escaped
    <2>2. HashesAreOld'
        BY <1>5 DEF HashesAreOld, RunStep, Escaped, VerificationTypeOK
    <2>3. KnownAt'
        BY <1>5 DEF KnownAt, RunStep, Escaped, VerificationTypeOK
    <2>4. PassedIsEarned'
        BY <1>5 DEF PassedIsEarned, KnownAt, RunStep, Escaped, VerificationTypeOK
    <2> QED
        BY <2>1, <2>2, <2>3, <2>4
<1>6. ASSUME NEW code \in {"0", "1"}, NEW xml \in {"missing", "damaged", "incomplete", "complete"},
             check' = Returned(s, code, xml)
      PROVE  VerificationInv'
    <2> DEFINE c == coverage(Ran(s, code), xml)
    <2>1. /\ c \in CheckRecords
          /\ c.ran = Ran(s, code).ran
          /\ c.at = check.at /\ c.before = check.before
          /\ c.after = check.after 
          /\ c.unchanged = check.unchanged /\ c.exit = check.exit /\ c.mode = check.mode
          /\ c.coverage = IF xml \in {"incomplete", "complete"} THEN xml ELSE "none"
        BY <1>2 DEF CheckRecords, coverage
    <2>2. CASE check' = Handled(c)
        BY <2>1, <2>2, HandledKeeps DEF RunStep
    <2>3. CASE s = "docs" /\ check' = [Ran(s, code) EXCEPT !.at = "source_stability"] /\ code = "0"
        <3>1. /\ check' \in CheckRecords
              /\ check'.at = "source_stability" /\ check'.before = check.before
              /\ check'.after = check.after
              /\ check'.unchanged = check.unchanged /\ check'.exit = check.exit /\ check'.mode = check.mode
              /\ check'.coverage = check.coverage
              /\ check'.ran["docs"] = "0" /\ check'.ran["tests"] = check.ran["tests"]
            BY <1>2, <2>3 DEF CheckRecords
        <3>2. VerificationTypeOK'
            BY <3>1 DEF VerificationTypeOK, CheckRecords, RunStep
        <3>3. HashesAreOld'
            BY <3>1 DEF HashesAreOld, RunStep
        <3>4. KnownAt'
            BY <3>1, <2>3 DEF KnownAt, RunStep
        <3>5. PassedIsEarned'
            BY <3>1, <2>3 DEF PassedIsEarned, KnownAt, RunStep
        <3> QED
            BY <3>2, <3>3, <3>4, <3>5
    <2>4. CASE s = "tests" /\ check' = [c EXCEPT !.at = "docs"] /\ code = "0" /\ xml = "complete"
        <3>1. /\ check' \in CheckRecords
              /\ check'.at = "docs" /\ check'.before = check.before
              /\ check'.after = check.after
              /\ check'.unchanged = check.unchanged /\ check'.exit = check.exit /\ check'.mode = check.mode
              /\ check'.coverage = "complete"
              /\ check'.ran["tests"] = "0"
            BY <1>2, <2>1, <2>4 DEF CheckRecords
        <3>2. VerificationTypeOK'
            BY <3>1 DEF VerificationTypeOK, CheckRecords, RunStep
        <3>3. HashesAreOld'
            BY <3>1 DEF HashesAreOld, RunStep
        <3>4. KnownAt'
            BY <3>1, <2>4 DEF KnownAt, RunStep
        <3>5. PassedIsEarned'
            BY <3>1, <2>4 DEF PassedIsEarned, KnownAt, RunStep
        <3> QED
            BY <3>2, <3>3, <3>4, <3>5
    <2> QED
        BY <1>6, <2>2, <2>3, <2>4 DEF Returned
<1> QED
    BY <1>3, <1>4, <1>5, <1>6 DEF RunStep

(* One more file hashed, into one of the two slots. *)
LEMMA SnapshotTypes ==
    ASSUME VerificationTypeOK, NEW slot \in {"before", "after"}, NEW c \in snapshot(slot)
    PROVE  /\ c \in CheckRecords
           /\ \E f \in Source : check[slot][f] = Unread /\ c[slot] = [check[slot] EXCEPT ![f] = content[f]]
           /\ \A s \in {"before", "after"} \ {slot} : c[s] = check[s]
           /\ c.at = check.at /\ c.phase = check.phase /\ c.ran = check.ran /\ c.coverage = check.coverage
           /\ c.unchanged = check.unchanged /\ c.exit = check.exit /\ c.mode = check.mode
<1> PICK f \in Source : check[slot][f] = Unread /\ c = [check EXCEPT ![slot][f] = content[f]]
    BY DEF snapshot
<1>1. check \in CheckRecords /\ f \in Tree /\ content[f] \in 0..MaxEdits
    BY VerificationAssumption DEF VerificationTypeOK, CheckRecords
<1>2. CASE slot = "before"
    <2>1. [check.before EXCEPT ![f] = content[f]] \in Hashes
        BY <1>1 DEF CheckRecords, Hashes
    <2>2. c = [check EXCEPT !.before = [check.before EXCEPT ![f] = content[f]]]
        BY <1>2
    <2> QED
        BY <1>1, <1>2, <2>1, <2>2 DEF CheckRecords
<1>3. CASE slot = "after"
    <2>1. [check.after EXCEPT ![f] = content[f]] \in Hashes
        BY <1>1 DEF CheckRecords, Hashes
    <2>2. c = [check EXCEPT !.after = [check.after EXCEPT ![f] = content[f]]]
        BY <1>3
    <2> QED
        BY <1>1, <1>3, <2>1, <2>2 DEF CheckRecords
<1> QED
    BY <1>2, <1>3

(* The first hashes: what was edited before one of them is in it. *)
LEMMA FirstSnapshotKeeps ==
    ASSUME VerificationInv, FirstSnapshot PROVE VerificationInv'
<1> USE DEF VerificationInv
<1>0. PICK c \in snapshot("before") :
        check' = IF AllRead(c.before) THEN [c EXCEPT !.at = "tests"] ELSE c
    BY DEF FirstSnapshot
<1>1. PICK f \in Source : check.before[f] = Unread /\ c.before = [check.before EXCEPT ![f] = content[f]]
    BY SnapshotTypes
<1>2. /\ check' \in CheckRecords
      /\ check'.before = c.before /\ check'.after = check.after
      /\ check'.at = IF AllRead(c.before) THEN "tests" ELSE check.at
      /\ check'.unchanged = check.unchanged /\ check'.exit = check.exit
      /\ check'.mode = check.mode
    BY <1>0, SnapshotTypes DEF CheckRecords
<1>3. VerificationTypeOK'
    BY <1>2 DEF VerificationTypeOK, CheckRecords, FirstSnapshot
<1>4. HashesAreOld'
    BY <1>1, <1>2, VerificationAssumption DEF HashesAreOld, KnownAt, VerificationTypeOK, Hashes, FirstSnapshot
<1>5. KnownAt'
    BY <1>2 DEF KnownAt, FirstSnapshot
<1>6. PassedIsEarned'
    BY <1>2 DEF PassedIsEarned, KnownAt, FirstSnapshot
<1> QED
    BY <1>3, <1>4, <1>5, <1>6

(* What a second look at the files finds, whoever asks for it. *)
LEMMA SecondLook ==
    ASSUME VerificationInv, NEW c \in snapshot("after")
    PROVE  /\ c.before = check.before
           /\ \A f \in edited \cap Source : c.after[f] # Unread => c.before[f] < c.after[f]
           /\ AllRead(c.after) /\ Same(c) => edited \cap Source = {}
<1> USE DEF VerificationInv
<1>1. PICK f \in Source : check.after[f] = Unread /\ c.after = [check.after EXCEPT ![f] = content[f]]
    BY SnapshotTypes
<1>2. c.before = check.before
    BY SnapshotTypes
<1>3. \A g \in edited \cap Source : c.after[g] # Unread => c.before[g] < c.after[g]
    BY <1>1, <1>2 DEF HashesAreOld, VerificationTypeOK, CheckRecords, Hashes
<1>4. ASSUME AllRead(c.after), Same(c), NEW g \in edited \cap Source PROVE FALSE
    <2>1. g \in Tree /\ check.before[g] \in 0..MaxEdits
        BY VerificationAssumption DEF HashesAreOld, VerificationTypeOK, Hashes
    <2>2. c.after[g] # Unread /\ c.before[g] = c.after[g]
        BY <1>4, <2>1 DEF AllRead, Same
    <2> QED
        BY <1>2, <1>3, <1>4, <2>1, <2>2, VerificationAssumption
<1> QED
    BY <1>2, <1>3, <1>4

(* The comparison that a report of passed rests on: equal hashes, so no file
   of those executed moved in between. *)
LEMMA StabilityKeeps ==
    ASSUME VerificationInv, Stability PROVE VerificationInv'
<1> USE DEF VerificationInv
<1>0. PICK c \in snapshot("after") :
        check' = IF ~AllRead(c.after) THEN c
                 ELSE IF Same(c) THEN [c EXCEPT !.at = "passed"] ELSE Handled(c)
    BY DEF Stability
<1>1. /\ c \in CheckRecords /\ c.before = check.before
      /\ c.at = check.at /\ c.ran = check.ran /\ c.coverage = check.coverage
      /\ c.unchanged = check.unchanged /\ c.exit = check.exit /\ c.mode = check.mode
    BY SnapshotTypes
<1>2. CASE check' = Handled(c)
    BY <1>1, <1>2, HandledKeeps DEF Stability
<1>3. CASE check' = c \/ (AllRead(c.after) /\ Same(c) /\ check' = [c EXCEPT !.at = "passed"])
    <2>1. /\ check' \in CheckRecords
          /\ check'.before = check.before /\ check'.after = c.after
          /\ \/ check'.at = "source_stability"
             \/ check'.at = "passed" /\ edited \cap Source = {}
          /\ check'.ran = check.ran /\ check'.coverage = check.coverage
          /\ check'.unchanged = check.unchanged /\ check'.exit = check.exit
          /\ check'.mode = check.mode
        BY <1>1, <1>3, SecondLook DEF CheckRecords, Stability
    <2>2. VerificationTypeOK'
        BY <2>1 DEF VerificationTypeOK, CheckRecords, Stability
    <2>3. HashesAreOld'
        BY <2>1, <1>1, SecondLook DEF HashesAreOld, Stability
    <2>4. KnownAt'
        BY <2>1 DEF KnownAt, Stability
    <2>5. PassedIsEarned'
        BY <2>1 DEF PassedIsEarned, KnownAt, Stability
    <2> QED
        BY <2>2, <2>3, <2>4, <2>5
<1> QED
    BY <1>0, <1>2, <1>3

(* The comparison after a failure, which can pass nothing. *)
LEMMA RecheckKeeps ==
    ASSUME VerificationInv, Recheck PROVE VerificationInv'
<1> USE DEF VerificationInv
<1>0. PICK c \in snapshot("after") :
        check' = IF ~AllRead(c.after) THEN c
                 ELSE [c EXCEPT !.at = "failed", !.unchanged = IF Same(c) THEN "yes" ELSE "no"]
    BY DEF Recheck
<1>1. /\ c \in CheckRecords /\ c.before = check.before
      /\ c.at = check.at /\ c.unchanged = check.unchanged /\ c.exit = check.exit /\ c.mode = check.mode
    BY SnapshotTypes
<1>2. /\ check' \in CheckRecords
      /\ check'.before = check.before /\ check'.after = c.after
      /\ \/ check'.at = "recheck" /\ check'.unchanged = check.unchanged
         \/ check'.at = "failed" /\ (check'.unchanged = "yes" => edited \cap Source = {})
      /\ check'.exit = check.exit /\ check'.mode = check.mode
    <2>1. CASE ~AllRead(c.after)
        BY <1>0, <1>1, <2>1 DEF Recheck
    <2>2. CASE AllRead(c.after) /\ Same(c)
        BY <1>0, <1>1, <2>2, SecondLook DEF CheckRecords
    <2>3. CASE AllRead(c.after) /\ ~Same(c)
        BY <1>0, <1>1, <2>3 DEF CheckRecords
    <2> QED
        BY <2>1, <2>2, <2>3
<1>3. VerificationTypeOK'
    BY <1>2 DEF VerificationTypeOK, CheckRecords, Recheck
<1>4. HashesAreOld'
    BY <1>2, <1>1, SecondLook DEF HashesAreOld, Recheck
<1>5. KnownAt'
    BY <1>2 DEF KnownAt, Recheck
<1>6. PassedIsEarned'
    BY <1>2 DEF PassedIsEarned, KnownAt, Recheck
<1> QED
    BY <1>3, <1>4, <1>5, <1>6

(* A file that cannot be read ends the run, wherever it is met. *)
LEMMA HashFailsKeeps ==
    ASSUME VerificationInv, HashFails PROVE VerificationInv'
<1> USE DEF VerificationInv
<1>1. CASE check.at # "recheck"
    <2>1. check \in CheckRecords
        BY DEF VerificationTypeOK, CheckRecords
    <2> QED
        BY <1>1, <2>1, HandledKeeps DEF HashFails
<1>2. CASE check.at = "recheck"
    <2>1. check' = [check EXCEPT !.at = "failed"]
        BY <1>2 DEF HashFails
    <2>2. VerificationTypeOK'
        BY <2>1 DEF VerificationTypeOK, HashFails
    <2>3. HashesAreOld'
        BY <2>1 DEF HashesAreOld, HashFails, VerificationTypeOK
    <2>4. KnownAt'
        BY <1>2, <2>1 DEF KnownAt, HashFails, VerificationTypeOK
    <2>5. PassedIsEarned'
        BY <1>2, <2>1 DEF PassedIsEarned, KnownAt, HashFails, VerificationTypeOK
    <2> QED
        BY <2>2, <2>3, <2>4, <2>5
<1> QED
    BY <1>1, <1>2

(* The report, written or not, and the status the run ends with. *)
LEMMA WriteReportKeeps ==
    ASSUME VerificationInv, WriteReport PROVE VerificationInv'
<1> USE DEF VerificationInv
<1>0. PICK written \in BOOLEAN :
        /\ report' = IF ~written \/ check.at = "escaped" THEN report ELSE check.at
        /\ check' = [check EXCEPT !.at = "done", !.exit = IF written /\ check.at = "passed" THEN "0" ELSE "1"]
    BY DEF WriteReport
<1>1. /\ check' \in CheckRecords
      /\ check'.at = "done" /\ check'.before = check.before /\ check'.after = check.after
      /\ check'.ran = check.ran /\ check'.coverage = check.coverage
      /\ check'.unchanged = check.unchanged /\ check'.mode = check.mode
      /\ check'.exit = IF written /\ check.at = "passed" THEN "0" ELSE "1"
    <2>1. check \in CheckRecords
        BY DEF VerificationTypeOK, CheckRecords
    <2> QED
        BY <1>0, <2>1 DEF CheckRecords
<1>2. check.at \in {"passed", "failed", "escaped"} /\ UNCHANGED <<content, edited>>
    BY DEF WriteReport
<1>3. VerificationTypeOK'
    BY <1>0, <1>1, <1>2 DEF VerificationTypeOK, CheckRecords
<1>4. HashesAreOld'
    BY <1>1, <1>2 DEF HashesAreOld
<1>5. KnownAt'
    BY <1>0, <1>1, <1>2 DEF KnownAt
<1>6. PassedIsEarned'
    <2>1. check.ran \in [Steps -> {"none", "0", "1", "124"}] /\ check.mode \in {"whole", "preflight"}
        BY DEF VerificationTypeOK
    <2>2. CASE written /\ check.at = "passed"
        BY <1>0, <1>1, <1>2, <2>1, <2>2 DEF PassedIsEarned, KnownAt
    <2>3. CASE ~(written /\ check.at = "passed")
        BY <1>0, <1>1, <1>2, <2>3 DEF PassedIsEarned, KnownAt
    <2> QED
        BY <2>2, <2>3
<1> QED
    BY <1>3, <1>4, <1>5, <1>6

(* The inductive step, action by action. *)
LEMMA VerificationInvHolds == VerificationSpec => []VerificationInv
<1>1. VerificationInv /\ [VerificationNext]_verificationVars => VerificationInv'
    <2> SUFFICES ASSUME VerificationInv, [VerificationNext]_verificationVars PROVE VerificationInv'
        OBVIOUS
    <2>1. CASE UNCHANGED verificationVars
        BY <2>1 DEF verificationVars, VerificationInv, VerificationTypeOK, HashesAreOld, KnownAt, PassedIsEarned, AllRead
    <2>2. CASE \E f \in Tree : Edit(f)
        BY <2>2, EditKeeps
    <2>3. CASE main
        BY <2>3, preflightKeeps, FirstSnapshotKeeps, StabilityKeeps, RecheckKeeps, HashFailsKeeps,
           WriteReportKeeps, RunStepKeeps DEF main
    <2> QED
        BY <2>1, <2>2, <2>3 DEF VerificationNext
<1> QED
    BY <1>1, VerificationBegins, PTL DEF VerificationSpec

(* A run that reports passed ran its tests and its documentation to the end, and
   on the source that was hashed before: nothing the tests execute was edited in the
   meantime, for any checkout, any edits and any step that fails or hangs
   (scripts/check.py, main). *)
THEOREM Earned == VerificationSpec => []PassedIsEarned
<1>1. VerificationInv => PassedIsEarned
    BY DEF VerificationInv
<1> QED
    BY <1>1, VerificationInvHolds, PTL

(* Type correctness of the run, its hashes and its report. *)
THEOREM VerificationTypeCorrect == VerificationSpec => []VerificationTypeOK
<1>1. VerificationInv => VerificationTypeOK
    BY DEF VerificationInv
<1> QED
    BY <1>1, VerificationInvHolds, PTL

HIDE DEF Steps, Hashed
-----------------------------------------------------------------------------
(* Inspection, for any list of calls and any moves of the artifact. *)
CallNames == {"status", "why", "recall", "pending", "discover", "tools"}
LogEntries ==
    [kind : NotReached \cup Refused \cup {"ok", "invalid_response"},
     seen : 0..MaxLedger, hits : 0..(HitLimit + 1)]

(* In a program that reads both, the position is read before the history. *)
AskedInOrder(calls) ==
    \A i, j \in DOMAIN calls : calls[i] = "status" /\ calls[j] = "why" => i < j

(* What is known of a run: no answer is newer than the artifact, an answer that
   counts keeps to its limit, an earlier one that counts is no newer than a later
   one it is compared with, and an end says what the log says. *)
InspectionInv ==
    /\ ledger \in 0..MaxLedger
    /\ program.calls \in Seq(CallNames) /\ AskedInOrder(program.calls)
    /\ log \in Seq(LogEntries) /\ Len(log) <= Len(program.calls)
    /\ \A i \in DOMAIN log : log[i].seen <= ledger
    /\ \A i \in Answered("recall") \cup Answered("pending") : log[i].hits <= HitLimit
    /\ \A i \in Answered("status"), j \in Answered("why") : log[i].seen <= log[j].seen
    /\ outcome.at = "running" \/ (outcome = Finished /\ CallsOver)

(* The programs the examples are made of, one by one. *)
LEMMA ProgramsAreInOrder ==
    ASSUME NEW calls \in Collecting \cup Single
    PROVE  calls \in Seq(CallNames) /\ AskedInOrder(calls)
<1>1. CASE calls = <<"status", "why">>
    <2>1. calls \in Seq(CallNames)
        BY <1>1 DEF CallNames
    <2>2. DOMAIN calls = 1..2 /\ calls[1] = "status" /\ calls[2] = "why"
        BY <1>1
    <2> QED
        BY <2>1, <2>2 DEF AskedInOrder
<1>2. CASE calls \in probe
    <2> DEFINE OtherNames == {"status", "recall", "discover", "tools"}
    <2>1. PICK more \in {<<>>, <<"recall">>, <<"status">>, <<"recall", "status">>} :
            calls = <<"discover", "tools">> \o more
        BY <1>2 DEF probe
    <2>2. <<"discover", "tools">> \in Seq(OtherNames)
        OBVIOUS
    <2>3. /\ <<>> \in Seq(OtherNames) /\ <<"recall">> \in Seq(OtherNames)
          /\ <<"status">> \in Seq(OtherNames) /\ <<"recall", "status">> \in Seq(OtherNames)
        OBVIOUS
    <2>4. calls \in Seq(OtherNames)
        BY <2>1, <2>2, <2>3, ConcatProperties
    <2>5. \A i \in DOMAIN calls : calls[i] \in OtherNames
        BY <2>4
    <2>6. \A i \in DOMAIN calls : calls[i] \in CallNames /\ calls[i] # "why"
        BY <2>5 DEF CallNames
    <2>7. calls \in Seq(CallNames)
        BY <2>4, <2>6
    <2> QED
        BY <2>6, <2>7 DEF AskedInOrder
<1>3. ASSUME NEW name \in CallNames, calls = <<name>>
      PROVE  calls \in Seq(CallNames) /\ AskedInOrder(calls)
    <2>1. calls \in Seq(CallNames)
        BY <1>3
    <2>2. DOMAIN calls = {1}
        BY <1>3
    <2> QED
        BY <2>1, <2>2 DEF AskedInOrder
<1>4. CASE calls = <<"discover", "tools">>
    <2>1. calls \in Seq(CallNames)
        BY <1>4 DEF CallNames
    <2>2. DOMAIN calls = 1..2 /\ calls[1] = "discover" /\ calls[2] = "tools"
        BY <1>4
    <2> QED
        BY <2>1, <2>2 DEF AskedInOrder
<1>5. \/ calls \in {<<"status", "why">>, <<"discover", "tools">>} \cup probe
      \/ \E name \in CallNames : calls = <<name>>
    BY DEF Collecting, Single, read_only_snapshot, inspect_artifact, check_memory, recall_memory,
        why_provenance, pending_documents, server_catalog, CallNames
<1> QED
    BY <1>1, <1>2, <1>3, <1>4, <1>5

(* Nothing is read yet. *)
LEMMA InspectionBegins == InspectionInit => InspectionInv
<1> SUFFICES ASSUME InspectionInit PROVE InspectionInv
    OBVIOUS
<1>1. program.calls \in Collecting \cup Single
    BY DEF InspectionInit
<1>2. program.calls \in Seq(CallNames) /\ AskedInOrder(program.calls)
    BY <1>1, ProgramsAreInOrder
<1>3. log = <<>> /\ ledger = 0 /\ outcome.at = "running"
    BY DEF InspectionInit
<1>4. DOMAIN log = {} /\ Len(log) = 0 /\ log \in Seq(LogEntries)
    BY <1>3
<1> QED
    BY <1>2, <1>3, <1>4, InspectionAssumption DEF InspectionInv, Answered

(* One more entry, and what it may hold. *)
LEMMA CallKeeps ==
    ASSUME InspectionInv, call PROVE InspectionInv'
<1> DEFINE name == program.calls[Len(log) + 1]
           n == Len(log) + 1
<1> HIDE DEF name
<1>1. PICK entry \in LogEntries :
        /\ log' = Append(log, entry)
        /\ entry.seen <= ledger
        /\ ~Failed(entry) /\ name \in {"status", "why"} => entry.seen = ledger
        /\ ~Failed(entry) /\ name \in {"recall", "pending"} => entry.hits <= HitLimit
    <2>1. CASE \E got \in CallAnswers :
            log' = Append(log, IF Usable(name, got)
                               THEN [kind |-> "ok", seen |-> Seen(name), hits |-> Hits(name, got)]
                               ELSE [kind |-> "invalid_response", seen |-> 0, hits |-> 0])
        <3> PICK got \in CallAnswers :
            log' = Append(log, IF Usable(name, got)
                               THEN [kind |-> "ok", seen |-> Seen(name), hits |-> Hits(name, got)]
                               ELSE [kind |-> "invalid_response", seen |-> 0, hits |-> 0])
            BY <2>1
        <3>1. CASE ~Usable(name, got)
            <4>1. [kind |-> "invalid_response", seen |-> 0, hits |-> 0] \in LogEntries
                BY InspectionAssumption DEF LogEntries
            <4> QED
                BY <3>1, <4>1, InspectionAssumption DEF Failed, InspectionInv
        <3>2. CASE Usable(name, got)
            <4> DEFINE entry == [kind |-> "ok", seen |-> Seen(name), hits |-> Hits(name, got)]
            <4>1. got.hits \in 0..(HitLimit + 1)
                BY DEF CallAnswers
            <4>2. Seen(name) \in 0..MaxLedger /\ Seen(name) <= ledger
                BY InspectionAssumption DEF Seen, InspectionInv
            <4>3. Hits(name, got) \in 0..(HitLimit + 1)
                BY <4>1, InspectionAssumption DEF Hits
            <4>4. entry \in LogEntries
                BY <4>2, <4>3 DEF LogEntries
            <4>5. name \in {"status", "why"} => Seen(name) = ledger
                BY DEF Seen
            <4>6. name \in {"recall", "pending"} => Hits(name, got) <= HitLimit
                BY <3>2, <4>1 DEF Hits, Usable, recall, pending
            <4> QED
                BY <3>2, <4>2, <4>4, <4>5, <4>6
        <3> QED
            BY <3>1, <3>2
    <2>2. CASE \E kind \in NotReached \cup Refused :
            log' = Append(log, [kind |-> kind, seen |-> 0, hits |-> 0])
        <3> PICK kind \in NotReached \cup Refused :
            log' = Append(log, [kind |-> kind, seen |-> 0, hits |-> 0])
            BY <2>2
        <3>1. [kind |-> kind, seen |-> 0, hits |-> 0] \in LogEntries
            BY InspectionAssumption DEF LogEntries
        <3>2. kind # "ok"
            BY DEF NotReached, Refused
        <3> QED
            BY <3>1, <3>2, InspectionAssumption DEF Failed, InspectionInv
    <2> QED
        BY <2>1, <2>2 DEF call, name
<1>2. UNCHANGED <<ledger, program, outcome>> /\ outcome.at = "running" /\ ~CallsOver
    BY DEF call
<1>3. log \in Seq(LogEntries) /\ Len(log) \in Nat /\ DOMAIN log = 1..Len(log)
    BY DEF InspectionInv
<1>4. Len(log) < Len(program.calls)
    BY <1>2, <1>3 DEF CallsOver, InspectionInv
<1>5. /\ log' \in Seq(LogEntries) /\ Len(log') = n /\ DOMAIN log' = 1..n
      /\ log'[n] = entry /\ \A i \in 1..Len(log) : log'[i] = log[i]
    BY <1>1, <1>3
<1>6. \A i \in DOMAIN log' : log'[i].seen <= ledger'
    BY <1>1, <1>2, <1>3, <1>5 DEF InspectionInv
<1>7. ASSUME NEW i, NEW of \in CallNames, i \in Answered(of)'
      PROVE  \/ i \in Answered(of) /\ i \in 1..Len(log)
             \/ i = n /\ name = of /\ ~Failed(entry)
    BY <1>2, <1>3, <1>5, <1>7 DEF Answered, name
<1>8. \A i \in (Answered("recall") \cup Answered("pending"))' : log'[i].hits <= HitLimit
    <2> SUFFICES ASSUME NEW of \in {"recall", "pending"}, NEW i \in Answered(of)'
                 PROVE  log'[i].hits <= HitLimit
        OBVIOUS
    <2>1. CASE i = n /\ name = of /\ ~Failed(entry)
        BY <1>1, <1>5, <2>1
    <2>2. CASE i \in Answered(of) /\ i \in 1..Len(log)
        BY <1>5, <2>2 DEF InspectionInv
    <2> QED
        BY <1>7, <2>1, <2>2 DEF CallNames
<1>9. ASSUME NEW i \in Answered("status")', NEW j \in Answered("why")'
      PROVE  log'[i].seen <= log'[j].seen
    <2>1. i \in DOMAIN program.calls /\ j \in DOMAIN program.calls
          /\ program.calls[i] = "status" /\ program.calls[j] = "why"
          /\ i \in 1..n /\ j \in 1..n
        BY <1>2, <1>3, <1>4, <1>5 DEF Answered, InspectionInv
    <2>2. i < j
        BY <2>1 DEF InspectionInv, AskedInOrder
    <2>3. i \in Answered("status") /\ i \in 1..Len(log)
        BY <1>3, <1>7, <2>1, <2>2 DEF CallNames
    <2>4. CASE j = n /\ name = "why" /\ ~Failed(entry)
        BY <1>1, <1>5, <2>3, <2>4 DEF InspectionInv, Answered
    <2>5. CASE j \in Answered("why") /\ j \in 1..Len(log)
        BY <1>5, <2>3, <2>5 DEF InspectionInv
    <2> QED
        BY <1>7, <2>4, <2>5 DEF CallNames
<1> QED
    BY <1>2, <1>4, <1>5, <1>6, <1>8, <1>9 DEF InspectionInv

(* The summary adds nothing to what the log has. *)
LEMMA ReportKeeps ==
    ASSUME InspectionInv, Report PROVE InspectionInv'
<1>1. UNCHANGED <<ledger, program, log>> /\ outcome' = Finished /\ CallsOver
    BY DEF Report
<1>2. Finished' = Finished /\ CallsOver' = CallsOver /\ \A of : Answered(of)' = Answered(of)
    BY <1>1 DEF Finished, CallsOver, Answered
<1> QED
    BY <1>1, <1>2 DEF InspectionInv

(* The artifact moves on; what was read of it was no newer before. *)
LEMMA LedgerMovesKeeps ==
    ASSUME InspectionInv, LedgerMoves PROVE InspectionInv'
<1>1. UNCHANGED <<program, log, outcome>> /\ ledger' = ledger + 1 /\ ledger < MaxLedger
      /\ outcome.at = "running"
    BY DEF LedgerMoves
<1>2. \A of : Answered(of)' = Answered(of)
    BY <1>1 DEF Answered
<1>3. ledger' \in 0..MaxLedger
    BY <1>1, InspectionAssumption DEF InspectionInv
<1>4. \A i \in DOMAIN log : log[i].seen <= ledger'
    <2> TAKE i \in DOMAIN log
    <2>1. log[i] \in LogEntries
        BY DEF InspectionInv
    <2>2. log[i].seen \in 0..MaxLedger
        BY <2>1 DEF LogEntries
    <2> QED
        BY <1>1, <2>2, InspectionAssumption DEF InspectionInv
<1> QED
    BY <1>1, <1>2, <1>3, <1>4 DEF InspectionInv

(* An end is an end of all calls, in the order of the program. *)
LEMMA InspectionInvIsHonest == InspectionInv => SnapshotIsHonest
<1> SUFFICES ASSUME InspectionInv, outcome.at = "done"
             PROVE  /\ program.goes_on => Len(log) = Len(program.calls)
                    /\ outcome.complete =>
                        \A i \in DOMAIN program.calls : i \in Answered(program.calls[i])
                    /\ outcome.endpoint_reached => \A i \in DOMAIN log : log[i].kind \notin NotReached
    BY DEF InspectionInv, SnapshotIsHonest
<1>1. outcome = Finished /\ CallsOver
    BY DEF InspectionInv
<1>2. outcome.complete <=> \A i \in DOMAIN log : ~Failed(log[i])
    BY <1>1 DEF Finished
<1>3. outcome.endpoint_reached <=> \A i \in DOMAIN log : Failed(log[i]) => endpoint_reached(log[i])
    BY <1>1 DEF Finished
<1>4. log \in Seq(LogEntries) /\ program.calls \in Seq(CallNames)
    BY DEF InspectionInv
<1>5. outcome.complete => Len(log) = Len(program.calls)
    BY <1>1, <1>2 DEF CallsOver
<1>6. outcome.complete => \A i \in DOMAIN program.calls : i \in Answered(program.calls[i])
    BY <1>2, <1>4, <1>5 DEF Answered
<1>7. outcome.endpoint_reached => \A i \in DOMAIN log : log[i].kind \notin NotReached
    BY <1>3 DEF Failed, endpoint_reached, NotReached
<1> QED
    BY <1>1, <1>6, <1>7 DEF CallsOver

(* The inductive step, action by action. *)
LEMMA InspectionInvHolds == InspectionSpec => []InspectionInv
<1>1. InspectionInv /\ [InspectionNext]_inspectionVars => InspectionInv'
    <2> SUFFICES ASSUME InspectionInv, [InspectionNext]_inspectionVars PROVE InspectionInv'
        OBVIOUS
    <2>1. CASE UNCHANGED inspectionVars
        BY <2>1 DEF inspectionVars, InspectionInv, Answered, Finished, CallsOver, AskedInOrder
    <2> QED
        BY <2>1, CallKeeps, ReportKeeps, LedgerMovesKeeps DEF InspectionNext
<1> QED
    BY <1>1, InspectionBegins, PTL DEF InspectionSpec

(* A snapshot that says it is complete has every answer, each within its limit,
   and shows no history that is older than the position beside it, however the
   artifact moves between the reads and whichever of them fail
   (examples/recipes/gate_operations.py and the starters made of it). *)
THEOREM Honest == InspectionSpec => []SnapshotIsHonest
    BY InspectionInvHolds, InspectionInvIsHonest, PTL

(* Type correctness of the log: no entry is of a kind the client does not raise, or of
   a state the artifact had not reached. *)
THEOREM InspectionTypeCorrect == InspectionSpec => []InspectionTypeOK
<1>1. InspectionInv => InspectionTypeOK
    <2>1. InspectionInv => \A i \in DOMAIN log : log[i] \in LogEntries
        BY DEF InspectionInv
    <2> QED
        BY <2>1 DEF InspectionInv, InspectionTypeOK, LogEntries
<1> QED
    BY <1>1, InspectionInvHolds, PTL

-----------------------------------------------------------------------------
(* The parts together, as MCParts puts them side by side. *)

(* No part starts elsewhere, or does anything else, because the others are there. *)
LEMMA EachByItself ==
    Spec => /\ AuthSpec /\ ListingSpec /\ ReadsSpec /\ ObsSpec /\ BundleSpec /\ HandleSpec
            /\ ChecksSpec /\ VerificationSpec /\ InspectionSpec /\ SurfaceSpec /\ CanonicalSpec
<1> DEFINE all == <<part, authVars, listingVars, readsVars, obsVars, bundleVars, handleVars, checksVars,
                    verificationVars, inspectionVars, surfaceVars, canonicalVars>>
<1>1. Init => /\ AuthInit /\ ListingInit /\ ReadsInit /\ ObsInit /\ BundleInit /\ HandleInit
              /\ ChecksInit /\ VerificationInit /\ InspectionInit /\ SurfaceInit /\ CanonicalInit
    BY DEF Init
<1>2. ASSUME [Next]_all
      PROVE  /\ [AuthNext]_authVars /\ [ListingNext]_listingVars /\ [ReadsNext]_readsVars /\ [ObsNext]_obsVars
             /\ [BundleNext]_bundleVars /\ [HandleNext]_handleVars /\ [ChecksNext]_checksVars
             /\ [VerificationNext]_verificationVars /\ [InspectionNext]_inspectionVars
             /\ [SurfaceNext]_surfaceVars /\ [CanonicalNext]_canonicalVars
    <2>1. CASE UNCHANGED all
        BY <2>1
    <2>2. CASE Next
        BY <2>2 DEF Next
    <2> QED
        BY <1>2, <2>1, <2>2
<1> QED
    BY <1>1, <1>2, PTL DEF Spec, AuthSpec, ListingSpec, ReadsSpec, ObsSpec, BundleSpec, HandleSpec, ChecksSpec,
        VerificationSpec, InspectionSpec, SurfaceSpec, CanonicalSpec

(* Type correctness of all parts at once, as the run states it. *)
THEOREM PartsTypeCorrect == Spec => []TypeOK
    BY EachByItself, AuthTypeCorrect, ListingTypeCorrect, ReadsTypeCorrect, ObsTypeCorrect, BundleTypeCorrect, HandleTypeCorrect,
        ChecksTypeCorrect, VerificationTypeCorrect, InspectionTypeCorrect, SurfaceTypeCorrect, PTL DEF TypeOK

(* Every safety property of the run, of every behaviour of its specification. *)
THEOREM PartsCorrect ==
    Spec => [](/\ CallerIsOwn /\ ListingIsWhole /\ ReachedIsReported /\ CallersOutcome
               /\ NothingLeftBehind /\ ExpansionIsBounded /\ HandleIsKept /\ ExitIsTrue
               /\ EvidenceIsOfWhole /\ PassedIsEarned /\ SnapshotIsHonest /\ VerbsFitClient
               /\ RefusalWasAnswered /\ OneTextEach)
    BY EachByItself, Own, Whole, Reported, Outcome, LeavesNothing, Bounded, HandleKept, ExitTrue,
        OfWhole, Earned, Honest, VerbsFit, RefusalAnswered, OneTextOnly, PTL

=============================================================================
