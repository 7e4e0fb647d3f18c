---------------------------- MODULE Observability ----------------------------
(***************************************************************************)
(* observability.Observability and _otel.OtelBackend: one handle that a    *)
(* caller creates, opens spans with, asks for instruments, bridges its     *)
(* loggers through and shuts down, while any call into OpenTelemetry may   *)
(* raise.                                                                  *)
(*                                                                         *)
(* OpenTelemetry and the caller's providers are external: their calls      *)
(* return or raise an Exception, never a BaseException of their own.       *)
(***************************************************************************)
EXTENDS Naturals, Sequences, SequencesExt, FiniteSets

CONSTANTS
    Loggers,      \* the caller's loggers
    Instruments,  \* (kind, name) of the instruments it asks for
    Errors,       \* what the caller's own code may raise
    MaxSpans,     \* bound: spans open at a time
    MaxHandlers   \* bound: handlers of the bridge

ASSUME ObservabilityAssumption ==
    /\ Errors \cap {"none", "telemetry"} = {}
    /\ {MaxSpans, MaxHandlers} \subseteq Nat

(* The signals in the order the backend builds their providers. *)
Signals == <<"traces", "metrics", "logs">>

VARIABLES
    options,      \* each signal: off, with a private provider, or the caller's
    building,     \* how many signals the backend has built; 4 when create is over
    backend,      \* whether the handle has a backend
    owned,        \* the signals whose providers the backend owns
    provider,     \* each signal's provider
    instruments,  \* the instrument cache
    bridge,       \* the loggers of the handlers it has added, in order
    handlers,     \* the loggers themselves: how many of its handlers each carries
    spans,        \* the spans that are open, the outermost first
    flight,       \* the exception on its way through the caller's code, or none
    thrown,       \* history: the one the caller's code raised
    answer        \* what shutdown last answered, until something else happens

buildVars == <<options, building, backend, owned>>
spanVars == <<spans, flight, thrown>>
obsVars == <<options, building, backend, owned, provider, instruments, bridge, handlers,
          spans, flight, thrown, answer>>

SignalSet == {"traces", "metrics", "logs"}

(* A span has one of the backend behind it or is a null span.  Its body runs; when
   that has ended, raised is the exception that is to be raised again, and suppress
   what the __exit__ of the backend's span answered. *)
Spans ==
    [kind : {"backed", "null"}, at : {"body", "closing", "closed", "debug", "logged"},
     raised : Errors \cup {"none", "telemetry"}, suppress : BOOLEAN]

ObsTypeOK ==
    /\ options \in [SignalSet -> {"off", "private", "callers"}]
    /\ building \in 0..4
    /\ backend \in BOOLEAN
    /\ owned \subseteq SignalSet
    /\ provider \in [SignalSet -> {"none", "live", "down"}]
    /\ instruments \in [Instruments -> {"absent", "null", "bound"}]
    /\ bridge \in Seq(Loggers)
    /\ handlers \in [Loggers -> 0..MaxHandlers]
    /\ spans \in Seq(Spans)
    /\ {flight, thrown} \subseteq Errors \cup {"none", "telemetry"}
    /\ answer \in {"none", "true", "false"}

ObsInit ==
    /\ options \in [SignalSet -> {"off", "private", "callers"}]
    /\ building = 0
    /\ backend = FALSE
    /\ owned = {}
    /\ provider = [s \in SignalSet |-> IF options[s] = "callers" THEN "live" ELSE "none"]
    /\ instruments = [i \in Instruments |-> "absent"]
    /\ bridge = <<>>
    /\ handlers = [l \in Loggers |-> 0]
    /\ spans = <<>>
    /\ flight = "none"
    /\ thrown = "none"
    /\ answer = "none"

Created == building = 4

-----------------------------------------------------------------------------
(* create, and OtelBackend.__init__ in it *)

Requested == \E s \in SignalSet : options[s] # "off"

(* Faulty: what it was given is taken for its own. *)
OwnsAll(s) == options[s] # "off"

Owns(s) == options[s] = "private"

(* The provider of the next signal is made, or found, and put on the list. *)
Build ==
    /\ Requested
    /\ building < 3
    /\ LET s == Signals[building + 1]
       IN  /\ provider' = IF options[s] = "private"
                          THEN [provider EXCEPT ![s] = "live"] ELSE provider
           /\ owned' = IF Owns(s) THEN owned \cup {s} ELSE owned
    /\ building' = building + 1
    /\ UNCHANGED <<options, backend, instruments, bridge, handlers, spanVars, answer>>

(* The handle exists, with its backend, or without if none was asked for, the
   extra is missing, or something raised: what had been built is let go. *)
Finish ==
    /\ ~Created
    /\ \/ building = 3 /\ backend' = TRUE /\ UNCHANGED owned
       \/ building < 3 /\ backend' = FALSE /\ owned' = {}
    /\ building' = 4
    /\ UNCHANGED <<options, provider, instruments, bridge, handlers, spanVars, answer>>

-----------------------------------------------------------------------------
(* span *)

(* The caller's own code runs: no span is on its way out. *)
AtCaller == spans # <<>> => Last(spans).at = "body"

Innermost(at) == spans # <<>> /\ Last(spans).at = at

(* The body starts, with a null span if the backend's raises or is not there. *)
EnterSpan ==
    /\ Created
    /\ AtCaller
    /\ flight = "none"
    /\ Len(spans) < MaxSpans
    /\ \E kind \in {"backed", "null"} :
        /\ kind = "backed" => backend
        /\ spans' = Append(spans, [kind |-> kind, at |-> "body", raised |-> "none", suppress |-> FALSE])
    /\ answer' = "none"
    /\ UNCHANGED <<buildVars, provider, instruments, bridge, handlers, flight, thrown>>

CallerRaises ==
    /\ Innermost("body")
    /\ flight = "none"
    /\ \E e \in Errors : flight' = e /\ thrown' = e
    /\ answer' = "none"
    /\ UNCHANGED <<buildVars, provider, instruments, bridge, handlers, spans>>

CallerCatches ==
    /\ AtCaller
    /\ flight # "none"
    /\ flight' = "none"
    /\ thrown' = "none"
    /\ UNCHANGED <<buildVars, provider, instruments, bridge, handlers, spans, answer>>

(* The body of the innermost span ends, by itself or by what flies through it. *)
BodyEnds ==
    /\ Innermost("body")
    /\ spans' = [spans EXCEPT
            ![Len(spans)].at = IF Last(spans).kind = "backed" THEN "closing" ELSE "debug",
            ![Len(spans)].raised = flight]
    /\ flight' = "none"
    /\ answer' = "none"
    /\ UNCHANGED <<buildVars, provider, instruments, bridge, handlers, thrown>>

(* The __exit__ of the backend's span, which is told of the exception. *)
BackendExits ==
    /\ Innermost("closing")
    /\ \E exit \in {"returns", "suppresses", "raises"} :
        /\ spans' = [spans EXCEPT
                ![Len(spans)].at = "closed", ![Len(spans)].suppress = (exit = "suppresses")]
        /\ flight' = IF exit = "raises" THEN "telemetry" ELSE "none"
    /\ answer' = "none"
    /\ UNCHANGED <<buildVars, provider, instruments, bridge, handlers, thrown>>

(* Faulty: there is no except clause. *)
NothingExcepted(e) == e

(* except Exception: pass *)
Excepted(e) == IF e = "telemetry" THEN "none" ELSE e

(* After __exit__ comes the debug line, if nothing flies past it. *)
_close_span ==
    /\ Innermost("closed")
    /\ flight' = Excepted(flight)
    /\ spans' = [spans EXCEPT ![Len(spans)].at = IF flight' = "none" THEN "debug" ELSE "logged"]
    /\ answer' = "none"
    /\ UNCHANGED <<buildVars, provider, instruments, bridge, handlers, thrown>>

(* The debug line, if the options ask for one, and what raises in it. *)
DebugLine ==
    /\ Innermost("debug")
    /\ flight' \in {"none", "telemetry"}
    /\ spans' = [spans EXCEPT ![Len(spans)].at = "logged"]
    /\ answer' = "none"
    /\ UNCHANGED <<buildVars, provider, instruments, bridge, handlers, thrown>>

(* Faulty: the answer of __exit__ is heeded, as a with statement would. *)
RaisedUnlessSuppressed(span) == IF span.suppress THEN "none" ELSE span.raised

(* The bare raise, or the end of a finally. *)
RaisedAgain(span) == span.raised

ExitSpan ==
    /\ Innermost("logged")
    /\ flight' = IF Excepted(flight) # "none" THEN Excepted(flight) ELSE RaisedAgain(Last(spans))
    /\ spans' = Front(spans)
    /\ answer' = "none"
    /\ UNCHANGED <<buildVars, provider, instruments, bridge, handlers, thrown>>

span == EnterSpan \/ BodyEnds \/ BackendExits \/ _close_span \/ DebugLine \/ ExitSpan

-----------------------------------------------------------------------------
(* Instruments and the logging bridge. *)

(* Once made, bound or null, an instrument is kept. *)
Instrument ==
    /\ Created
    /\ \E i \in Instruments, kind \in {"bound", "null"} :
        /\ instruments[i] = "absent"
        /\ kind = "bound" => backend /\ options["metrics"] # "off"
        /\ instruments' = [instruments EXCEPT ![i] = kind]
    /\ answer' = "none"
    /\ UNCHANGED <<buildVars, provider, bridge, handlers, spanVars>>

(* Faulty: one entry for a logger, as a dictionary would have. *)
NotedOnce(logger) ==
    IF logger \in Range(bridge) THEN bridge ELSE Append(bridge, logger)

Noted(logger) == Append(bridge, logger)

(* Each call adds a handler, a second one to the same logger too. *)
attach_logging_bridge ==
    /\ Created
    /\ backend
    /\ options["logs"] # "off"
    /\ \E logger \in Loggers :
        /\ handlers[logger] < MaxHandlers
        /\ handlers' = [handlers EXCEPT ![logger] = handlers[logger] + 1]
        /\ bridge' = Noted(logger)
    /\ answer' = "none"
    /\ UNCHANGED <<buildVars, provider, instruments, spanVars>>

(* A handler of the bridge comes off its logger; Logger.removeHandler does not fail. *)
HandlersOf(logger) == Cardinality({i \in DOMAIN bridge : bridge[i] = logger})

Detach ==
    /\ handlers' = [l \in Loggers |-> handlers[l] - HandlersOf(l)]
    /\ bridge' = <<>>

detach_logging_bridge ==
    /\ bridge # <<>>
    /\ Detach
    /\ answer' = "none"
    /\ UNCHANGED <<buildVars, provider, instruments, spanVars>>

-----------------------------------------------------------------------------
(* shutdown *)

(* Faulty: an exporter that raises on the way out is not worth a False. *)
AllWellUnlessFalse(ends) == \A s \in owned : ends[s] # "unflushed"

(* True only if each provider flushed in time and was shut down. *)
AllWell(ends) == \A s \in owned : ends[s] = "down"

(* How each provider ends: force_flush answers False but shutdown goes on, or
   one of the two raises and the provider stays as it is. *)
shutdown ==
    /\ Created
    /\ Detach
    /\ \E ends \in [owned -> {"down", "unflushed", "raised"}] :
        /\ provider' = [s \in SignalSet |->
                IF s \in owned /\ ends[s] # "raised" THEN "down" ELSE provider[s]]
        /\ answer' = IF ~backend \/ AllWell(ends) THEN "true" ELSE "false"
    /\ UNCHANGED <<buildVars, instruments, spanVars>>

ObsNext ==
    \/ Build \/ Finish
    \/ span \/ CallerRaises \/ CallerCatches
    \/ Instrument \/ attach_logging_bridge \/ detach_logging_bridge \/ shutdown

ObsSpec == ObsInit /\ [][ObsNext]_obsVars

-----------------------------------------------------------------------------
(* Wherever the caller's code runs, in a span or behind one, what flies through it is
   what it raised itself, or nothing if it raised nothing: of all that may raise or
   want to suppress while spans are left one in another, the __exit__ of the backend's
   span and the debug line, nothing becomes an error of the caller, and nothing hides
   one (Observability.span, which takes the exception off its way, and puts it back). *)
CallersOutcome == AtCaller => flight = thrown

(* A shutdown that answers True has shut down every private provider of the
   backend and left none of its handlers on any logger, however often the bridge
   was attached; the caller's own providers are never shut down. *)
NothingLeftBehind ==
    /\ \A s \in SignalSet : options[s] = "callers" => provider[s] = "live"
    /\ answer = "true" =>
        /\ backend => \A s \in SignalSet : options[s] = "private" => provider[s] = "down"
        /\ \A l \in Loggers : handlers[l] = 0

=============================================================================
