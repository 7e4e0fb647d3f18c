# A verification project for doublegate-sdk

TLA+ models of the parts of the SDK, and of the programs it ships beside it, in
which several things can happen in more than one order, the TLC runs that check them on small instances, and TLAPS
proofs of the most important properties for every instance. Source paths are
relative to the repository; `sdk/` stands for `src/doublegate_sdk/`, and bare file
names of the table below are there too.

## 1. Inventory

The SDK is the client side of a *gate*, a service that keeps artifacts, reviews
and notes, and the vocabulary a gate shares with its clients. It is synchronous,
keeps little state, never retries a write and starts no thread of its own (the
OpenTelemetry exporters do). What is hard about it lies between the caller, the
wire and the far end.

| Component (source) | State | Operations | Talks to | Hard behaviour | What makes it correct |
|---|---|---|---|---|---|
| Operation table (`operations.py`) | none | `check_scope`, `scope_of`, `mutates` | transports | – | a read scope reaches no verb that mutates |
| Socket transport (`transport.py` 126-185) | one call: deadline, buffer, `sending` | `call` | gate | slow, partial, oversized and missing replies; late effects | an error without `outcome_unknown` is final; one deadline; always returns |
| HTTP `/rpc` transport (`transport.py` 188-264) | one call | `call` | gate, proxies | several addresses, TLS, interim responses, statuses of a proxy | the same promise |
| MCP transport (`client.py` 209-480) | one call | `call` | MCP door | chunked bodies, a deadline re-armed on each read, redirects | the same promise, no answer after the deadline |
| Errors (`errors.py`) | none | `GateError`, the mapping of codes | all clients | ambiguous codes | nothing ambiguous is definite |
| Knowledge client, writes (`knowledge.py`) | none of its own | `remember`, `learn`, `annotate`, … | a transport, twice for `learn` | the second call fails, is lost or never made; retries; two agents | one note a row, none missing that was promised |
| Knowledge client, reads | cached description | `inventory_pages`, `wait_for`, `describe` | a transport | rows join and leave between pages; the deadline | no row passed over or handed over twice, as far as offsets allow; a reached state is reported |
| What the clients send (`knowledge.py`, `curation.py`, `capabilities.py`) | cached description | every method; `propose_bundle`, which asks first | a transport | a cache that gets old; a reader inside a curation client | an agent never decides; a refusal for the gate is the gate's own |
| `GateClient` and its programs (`client.py`, `examples/recipes/gate_operations.py`, starters) | none | `status`, `why`, `recall`, …; snapshots, a probe | the MCP transport | the artifact moves between two reads, either may fail | complete means every read was answered |
| Issuer keys (`auth.py` 331-394) | `_keys`, `_jwks_uri`, `_last_refetch` | `key_for`, `refresh` | the issuer | threads without a lock, rotation, failing fetches | never no cache; a rotation is seen; withdrawn keys go |
| API keys, principals (`auth.py`) | the fold of a journal | `fold_keys`, `principal` | journal, issuer keys | events out of order, expiry, revocation | an accepted key stands; a revoked key stays revoked; no privilege from nowhere |
| Submission, doors (`submission.py`, `org_rest.py`, `envelope.py`) | the sender's outbox and cursor | `encode_submission`, `decode_submission`, `put_submission`, `pull_outcomes` | organization gate | lost, late, repeated, damaged PUTs; tokens that expire; a door with smaller limits | the door holds what was encoded; words are true; no outcome skipped |
| Observability (`observability/`) | backend, instruments, bridge | `create`, `span`, `counter`, `attach_…`, `shutdown` | OpenTelemetry, the caller's loggers | a broken exporter; exits of spans that raise or suppress; partial construction; attach twice | never raises, never hides; owns what it shuts down |
| Canonical bytes (`submission.py` 125-215) | none | `canonical_bytes`, `artifact_id` | – | order by UTF-16 units, escapes, what is refused | equal texts mean equal documents |
| Skill bundles (`skill_bundle.py`) | none | `inspect_zip` | an archive | declared against real sizes | nothing over a limit is handed out |
| Packages and checks (`package.py`, `authoring.py`, `examples/starters/checks.py`, `examples/recipes/offline_checks.py`) | open descriptors, results | `read_bounded`, `evaluate_file`, `check_paths` | file system | a file that grows or is swapped while it is read | an outcome is that of a whole file |
| Memory starter (`examples/starters/memory.py`) | the handle file | `remember`, `check` | `GateClient`, file system | runs that share the file, failures, kills | the saved id outlives what fails; the status is true |
| Release check (`scripts/check.py`) | hashes, `result.json` | one run | subprocesses, the checkout | edits during the run, steps that fail or hang | passed means passed, of one state of the source |
| Schema, gate manifest, auth configuration, vocabularies | none | – | – | – | – |

Components interact by calls only. A `KnowledgeClient` owns a transport and
relies on its promise, which is stated once, in `GateCall`. The submission doors
use `submission.py` at both ends. A service's `Authenticator` owns one
`IssuerKeys` per issuer and is shared by the threads of the service.
`PROJECT.json` lists every component with its status, and under `hazards` each
place where this code can go wrong in a way a test would hardly reach, with the
properties that would notice.

## 2. The modules and the code

| Module | What it models | Extends / instantiates |
|---|---|---|
| `Operations` | the verb table, scopes and ranks, what a transport admits (`operations.py`) | – |
| `Wire` | outcomes of a call, codes and statuses and what they become, `decode_response`; `errors.py` | – |
| `Gate` | **external**: the far end of one call | – |
| `GateCall` | **abstract**: what every transport promises about one call | – |
| `UnixSocketCall` | `UnixSocketTransport.call` | `Operations`, `Wire`; `Gate`, `GateCall` |
| `HttpRpcCall` | `HttpTransport.call` over `http.client` | the same |
| `McpCall` | `HttpMcpTransport.call`, with its own connection classes | `Wire`; `Gate`, `GateCall` |
| `KnowledgeClient` | `remember`, `learn`, `annotate` by several agents | – |
| `IssuerKeys` | the key cache, by several threads | – |
| `Submission` | outbox, PUT, door, journal of outcomes, pull cursor | – |
| `Authenticator` | `fold_keys`, `verify_bearer_jwt` and `Authenticator.principal` over a journal that grows | – |
| `Listing` | `inventory_pages` over an inventory that rows join and leave | – |
| `Reads` | `wait_for` | – |
| `Observability` | the handle and its OpenTelemetry backend | – |
| `SkillBundle` | `inspect_zip` | – |
| `ClientSurface` | the verbs each method of both clients may send, `describe`, `propose_bundle` | `Operations` |
| `Canonical` | `canonical_bytes` on pairs of documents | – |
| `MemoryHandle` | `remember` by several runs over one file | – |
| `Checks` | `read_bounded`, `load_package`, `evaluate_file` and `check_paths` over files that change | – |
| `Verification` | `scripts/check.py` over a checkout that is edited | – |
| `Inspection` | the reads of `GateClient` and the programs made of them | – |
| `UnixSocketCallProofs`, `HttpRpcCallProofs`, `McpCallProofs`, `KnowledgeClientProofs`, `IssuerKeysProofs`, `SubmissionProofs` | theorems | the component, `TLAPS` |
| `CanonicalProofs` | induction, recursion over data of any depth; what canonical texts tell | `Canonical`, `TLAPS` |
| `PartsProofs` | folds; theorems about the parts that `MCParts` puts together, and about all of them | `MCParts`, `CanonicalProofs` |
| `MCParts` | the eleven parts that share no state, one of which moves | those parts |
| other `MC…` | values of the constants for TLC | the component |

Names follow the source. An operator called *Faulty* in its comment is a
plausible mistake in the definition after it; `PROJECT.json` uses it as the
mutant that the property must catch, and nothing refers to it in the modules.

**The far end (`Gate`).** A gate is not in this repository. What it may do is
what the clients guard against: the request may be lost, applied and not
answered, answered late, byte by byte, in part or too long, answered by a proxy
in its place, or applied after the caller has gone. The one thing assumed is the
contract of its answers, in three sets each transport defines: what a gate may
say of a write that took effect, of one that did not, and of a read. They
overlap in everything ambiguous. The clients rely on the following and the
models say so: a JSON-RPC error other than -32603 and an HTTP status below 500
that is not a success mean that the gate changed nothing.

**Calls.** `pc` is the place of the caller's thread. A blocking socket operation
is one state in which bytes, errors, `Expire` and `Tick` compete; `timer` is the
current `settimeout`, `elapsed` the time since the deadline was set. Local
computation takes no time. Bytes are counted, not spelled: a reply is a class of
body and a size. `sending` is the flag of the code; `arrived` counts whole
copies of the request the gate has and has not handled. In `McpCall` a chunked
and a plain body, the redirect, and each status class of the door are separate
steps; in `HttpRpcCall` every address of the host is tried in turn.

**KnowledgeClient.** Each agent is in one method; `served` says how far the gate
is with the request in flight. The transport is taken at its word: exactly the
outcomes of `GateCall`. A request whose caller gave up or crashed moves to
`late`, from where `Arrive` may still apply it. Each method call is a new
attempt number, so that rows and notes can be traced to the call that made them.

**IssuerKeys.** The lines of `key_for` and `refresh` that read or write an
attribute are separate actions of a thread. A key set is its set of kids.
`alone` and `due` are history that only properties read.

**Submission.** A body keeps each member that something binds; hashes are taken
to tell any two inputs apart, so `artifact_id` is the document itself and
`content_hash` the content. `Damage` changes one member of a queued body. The
wire is a set of PUTs, from which copies are served, lost, turned away or served
unheard. The outbox is the caller's, as `org_rest.py` describes it: it acts on
the four words. One `Serve` is the whole door: token, size, parse, bindings,
status; what the door keeps is external and is what it accepted.

**Authenticator.** The service writes its journal and takes it in when it comes
round to it; `principal` changes nothing and so is an operator of the request,
the table and the clock, and the invariants ask it every request in every state.
The journal holds the issues and revocations of keys and the assignments of
roles; a revocation may carry no time (`revoked_at` null), which is an event that
`fold_keys` reads and does nothing about. Clock and tokens are in seconds, keys in milliseconds, as in the code;
`Second` is the factor between them.

**Listing.** A row has an identity, and the gate pages through its rows in some order;
rows join anywhere in it and leave from anywhere. A page is a record of any numbers, with
the rows that are at its offset; `from_response` decides which are pages. `joined` and
`left` are history that only the property reads.

**Reads.** A poll is a status call, during which the gate reads the row at some
tick, a look at the answer and at the clock, and a sleep. The row may enter and
leave the wanted states at any time.

**Observability.** `building` counts the signals whose providers are made; any
call into the backend may fail, which ends `create` without a backend, makes a
span or an instrument a null one, or makes `shutdown` answer `False`. `flight`
is the exception on its way through the caller's nested spans, `thrown` (history) the one the
caller raised. A span is left in the steps of the code: its body ends and the exception is taken
off its way, the backend's `__exit__` returns, wants to suppress or raises, `_close_span` catches,
the debug line is written or raises, and what came through the body is raised again. `at` says
which of these is next for the innermost span.

**SkillBundle.** The first pass takes the entries one by one against what they
declare, the second reads them and gets what they hold. The checks of one path
and of one entry alone (its letters, type, flags, ratio) are one Boolean.

**ClientSurface.** The methods are tables from a name to the verbs it may put on
the wire, and one action calls any of them over any transport the constructors
take. `GateChanges` starts and stops verbs at any time; `capabilities` is the
cached description, `heard` (history) what the gate dispatched when it last
described itself.

**Canonical.** A document is a sequence of members in the order they were put in,
and the state is two documents. A hash is the text it is of. Of the characters
there is one for each case of the code: a plain one, those with a short escape, a
control character, one that NFC changes, a lone surrogate, and a pair whose order
by code points and by UTF-16 units differs. What recurs on the parts of a value
(`_value`, and the reference `SameAs` and `InProfile`) is a recursive function of the
values, given as a constant with the depth of each: that a value is finite is what
`CanonicalAssumption` says of them.

**MemoryHandle.** Each place between two calls of the operating system is a state:
the look before the open, the exclusive open, the look at the size and the
unlink after it, the truncation and the write. `linked` is whether the file a run
has open is still the one under the path. `landed` and `met` (history) are what
happened at the gate and which runs overlapped. The client is taken at the word
of `GateCall`. A successful answer without an id or a state ("malformed") comes only from a client
handed over as `connect_fn`, as the tests do, since `GateClient.propose` makes an unknown outcome of
it. Every print may raise; `traceback` and `untold` are the two ways that ends, before and
after the id was saved.

**Checks.** One step per call of `read_bounded`: the open of the directory and of the
file, `fstat`, the read of at most one byte more than the limit, the closing of
what is open, on every way out. An open finds any file at all, and what it found
may grow until it is read. `right` (history) compares a status with what the file
deserved as it was read.

**Verification.** A snapshot is a hash of each file, and the files of one may be hashed at
different moments; `Edit` may fall anywhere. Files outside the roots that `snapshot` walks are
in `Tree` and not in `Source`, and what is hashed is the latter. A run with `--preflight` ends
before the first hash. `Handled` is the handler of `main()`;
what it does not name escapes it.

**Inspection.** A program is the list of its calls and whether it goes on after a failure.
The state of an artifact is how many ledger events moved it, so that what two reads
saw can be compared.

## 3. Runs

| Run | Question | Properties | Instance |
|---|---|---|---|
| `unix_call` | Is the socket transport's word good? | `InBounds`, `ReadScopeChangesNothing`, `OneDeadline`, `KeepsPromise`, `EveryCallReturns` | a verb of each class and one outside the table; timeout 3; cap 3 with replies below, at, above the cap and beyond the window |
| `rpc_call` | … the `/rpc` transport's? | `TypeOK`, `KeepsPromise` | two addresses over TLS, bodies empty, at and over the cap |
| `mcp_call` | … the MCP transport's? | `InTime`, `KeepsPromise`, `EveryCallReturns` | the same, timeout 2 |
| `knowledge` | What is left behind by proposals that fail half-way? | `TypeOK`, `NoteOnce`, `FailureLeavesNothing`, `LearnedIsNoted` | two agents, two calls each, one content, one claim |
| `issuer_keys` | Can threads share the cache? | `TypeOK`, `CacheIsThere`, `RotationIsSeen`, `WithdrawnKeysGo`, `StaleCacheRecovers` | two threads, two kids of which one is unusable, cooldown 2 |
| `submission` | Does a submission arrive, once, intact, and is its outcome read? | `StoredAsEncoded`, `SameEventSameId`, `AcceptedIsStored`, `RefusedIsNotStored`, `NothingSkipped`, `EverySubmissionSettles` | two senders, a small and a large content, a door with a smaller limit than its senders, pages of one |
| `parts` | Who does a service take a caller for? | `TypeOK`, `CallerIsOwn` | see below |
| | Do reads of several calls tell the truth? | `ListingIsWhole`, `ReachedIsReported`, `SnapshotIsHonest` | |
| | Does telemetry stay out of the caller's way? | `CallersOutcome`, `NothingLeftBehind` | |
| | Is what is read from a file or an archive bounded and whole? | `ExpansionIsBounded`, `EvidenceIsOfWhole` | |
| | Does `remember` keep its handle and say what happened? | `HandleIsKept`, `ExitIsTrue` | |
| | Is a report that says passed earned? | `PassedIsEarned` | |
| | Do clients send only what they are for, and is a refusal the gate's own? | `VerbsFitClient`, `RefusalWasAnswered` | |
| | Does a canonical text stand for one document? | `OneTextEach` | |
| `rpc_one_deadline`, `rpc_escape`, `mcp_total_deadline`, `refetch_cooldown`, `learned_note` | see *Disagreements* | one each | smallest that shows it |

**Why the bounds are enough.** A transport object keeps nothing between calls, so
one call is the whole component; a cap of three bytes has every relation a reply
can have to it, and a timeout of three lets it be used up in one operation or
over several. Two addresses give a first and a last. Two agents with one content
and two calls each are enough for every race in `learn`: first and duplicate,
retry and late arrival, own and foreign row. Two threads give every overlap of
two refreshes; a third adds no new pair. Cooldown 2 has a state strictly inside.
In `Submission` one damage is enough for every single-member mismatch, and two
senders meet at the door. The agents of `knowledge` are interchangeable and no
temporal property is checked there, so it uses symmetry; the others do not.

`KeepsPromise` is the refinement of `GateCall`; that a definite failure is final
is part of it. `InBounds` is that a socket call has its types and never asks `recv()` for
nothing. `InTime` is that no answer is late, with the types of a call.

`parts` is eleven components in one run. They share no state and do not call each
other, and each property reads one of them, so an initial choice says which one
moves and the others stay where they begin: every behaviour of each is covered,
and no product of them is built. Its instance:

* callers: one key, a journal of three events (issue, revoke and what follows), a
  clock to 3 with an expiry between two seconds, the person issuer and one workload
  issuer that uses the same key ids, every sound token of either for two subjects, and
  every combination of defects for one of them, an unpublished key id by itself; two groups of different rank, so that
  the greater has to be chosen. Several keys differ in nothing from one that is not
  the key asked for; the proofs are for any number;
* reads: up to three rows, of which any may join and leave at any time, over two pages, the
  claims of a page up to three; a timeout of 4, an interval of
  3 that does not divide it, and status calls of one tick;
* telemetry: two nested spans, one exception of the caller, one logger with two handlers, every
  choice of private and given providers;
* archives of up to four entries, one over the limit, with names that are equal
  when folded, are a parent, or are the skill, and sizes at, above and far above
  the limits;
* checks: two manifests with limits 1 and 2, one of which requires a text, files
  of up to three tokens (below, at and over each limit), two paths a run;
* `remember`: two runs over one file that is there or not, each told to replace it
  or not. A third run meets the file in no state that two do not leave, and the
  proofs are for any number;
* the release check: a checkout of two directories that are hashed, one of them executed by
  the tests, and a file that is not; one edit of each, which may fall into the first snapshot
  (after or before its file is read), into the steps or into the second one;
* inspection: two ledger events, at most one hit asked for, every list of calls of
  the programs;
* clients: each class over each scope it takes, one verb the gate may stop
  dispatching, the one that is asked for;
* canonical texts: every pair of documents of one and two members, with values of
  every kind and names that sort differently by code point and by UTF-16 unit;
  `MAX_SAFE_INTEGER` is 11, so that an integer has one or two digits and there is
  one above it.

**Fairness.** `EveryCallReturns` assumes weak fairness of the client's own steps
and of time: a blocked operation is ended by its armed timeout. Nothing is
assumed of the gate. `StaleCacheRecovers` needs only the clock.
`EverySubmissionSettles` assumes that the outbox goes on (a PUT ends by its
`timeout_s`) and, strongly, that a door asked again and again answers on the
merits at some time; no sender is assumed to get a new token, which is why
`stopped` is one of the words. `CHECK_DEADLOCK FALSE` is set where a call ends
for good or calls are bounded.

**What the runs show.** Every transport implements `GateCall`: no success of a
write that was not applied, and no definite failure of one that was or will be,
over every order of loss, delay, partial answers and late effects. Two agents
never leave two notes on a row. A thread never meets an empty cache; a stale
set installed last heals after the cooldown, and a withdrawn key goes if key sets
keep being read. What the door holds is what some
sender encoded, and a word the outbox stops at is true. An API key that is accepted was issued, has not
expired and was not revoked since with a date; nobody has a role that was
not given to exactly that subject of that issuer. A listing passes over no row unless rows leave
while it runs, and repeats none unless rows join; a reached state is seen up to the deadline; no
telemetry failure replaces or hides an exception of the caller, whatever the exits of nested spans
do; and what comes out of an archive is bounded by the limits and not by what the archive
says. A check's
outcome is that of a whole file although the file grows while it is read; a saved
handle goes only by a run that was told to replace it, and the status of a run is
true of the gate; a report of "passed" is of a source nobody edited while the
tests ran; a history shown beside a position explains it; no client sends what it
is not for; and two documents have one canonical text just when they are one
document in two orders of members.

## 4. Disagreements between code and documents

Each is a run TLC must find violated.

* `rpc_one_deadline`: `/rpc` gives its timeout to each socket operation afresh
  (`sdk/transport.py` 222), while `docs/api/client.md` 46 speaks of one deadline
  for both transports.
* `rpc_escape`: a reply nested deeper than the parser goes raises `RecursionError` past
  `decode_response` (`sdk/transport.py` 97), and an infinite `Retry-After` an `OverflowError`
  (254), while `docs/api/index.md` 30 says that one `except` catches every failure.
* `mcp_total_deadline`: `connect()` gives the whole remaining timeout to every
  address (`sdk/client.py` 404), while line 214 speaks of a total deadline.
* `learned_note`: if the note of a new learning fails for certain, the retry that
  invites is a duplicate and returns without it (`sdk/knowledge.py` 226, 242).
* `refetch_cooldown`: a refetch that fails is not remembered, so it is not "at
  most once per minute" (`sdk/auth.py` 335, 393).

## 5. Proofs

TLAPS proves the following for every value of the constants, from the named
assumptions of the modules (that limits are natural numbers, that the marks for
"nothing" are not among the things and differ, that the optional verbs are verbs).

*Socket call* (`UnixSocketCallProofs`): `TypeCorrect`, `DefiniteFailures`,
`DeadlineKept`, `WindowOpen`, `ReadScopeIsHarmless`, and `Implements`, that every
step of the call is a step of `GateCall` or none. The safety properties are not
inductive: that a definite failure is final depends on when `sending` is set.
`IInv` adds that nothing is at the far end before the thread is in `send`
(`NothingThereYet`), that from then on `sending` is up (`SendingMarked`), that
at most one copy exists (`OneCopy`), that a reply comes from the set its effect
allows, and that `elapsed + timer` is within the timeout while blocked. One step
of the proof per action, under it one per conjunct the action can disturb.

*The two calls over HTTP* (`HttpRpcCallProofs`, `McpCallProofs`): the types, `Implements`
for each, and for the MCP transport `DeadlineKept`: once connected it is never blocked
past its deadline, and no answer is handed over after it. There is no `sending` to rely
on, since every error of the wire says that the write may have landed; what is
needed is that an answer read as a refusal or a success was given by a gate that had
decided (`AnswersAreHonest`), while one of an intermediary is read as neither
(`RefusedForCertain`). `ThreadStep` says, action by action, what the thread may
change; `FarKeepsIInv` is the gate, which also acts when the call is over.

*Knowledge client* (`KnowledgeClientProofs`): `TypeCorrect`, `OneNote`,
`Failures`, `Learned`, for any number of agents, contents, claims and
calls. The invariant speaks of whole histories: every request anywhere carries
an attempt number its agent has reached (`Numbered`), one content has one row,
a note of a learning belongs to the attempt that made the row, and for each
client what the gate has done agrees with how far its method is (`ClientInv`).
`Bystander` and `ClientOnly` are the lemmas that a step of one agent leaves the
others' part true.

*Issuer keys* (`IssuerKeysProofs`): `KeysTypeCorrect`, `CacheStays`,
`RotationSeen`, for any number of threads. The last one needs to know, for each
place in `key_for`, where a call that is on its own stands: before it has looked,
that the cache is empty or the cooldown over; after a fetch, that the kid is in
what was read; at the end, that it is in the cache (`StillToBeSeen`).

*Submission* (`SubmissionProofs`): `Stored`, `SameIdForSameEvent`, `Accepted`,
`Refused`, `Skipped`. All but the last rest on one lemma: what `decode_submission`
takes is a function of the route (`DecodedIsCanonical`). So whatever is kept
under a route is what its sender asked for, and a verdict on a sound body is the
same each time (`RefusalIsFinal`).

*Listing* (`PartsProofs`): `Whole`, `ListingTypeCorrect`, for inventories and limits of any
size. A listing has handed over as many rows as its offset says, so what matters is which. While
no row leaves, what stands before the offset was handed over or joined (`SeenUpToHere`), since an
insertion moves rows only away from the start; while none joins, nothing that was handed over stands behind
the offset (`NoneAhead`), since a row that leaves moves the others only towards it. `AfterInsert` and `AfterRemove` say where the rows are then.

*Reads* (`PartsProofs`): `Reported`, `ReadsTypeCorrect`. A poll needs two facts beside the
property: a call that is out was sent at most `CallTime` ago, and a row that is
wanted now and was not when the gate read it moved after that. The types carry numbers
that are not free: `wait_for` is past its deadline by one status call at most, since its
last sleep is cut off there (`OnTime`).

*Observability* (`PartsProofs`): `Outcome`, `LeavesNothing`, `ObsTypeCorrect`. While a span is on
its way out, nothing of the caller's flies; the span keeps it (`SpanInv`: what is to be raised again
is what the caller threw, beside it only telemetry flies and only until it is excepted, and the spans
around it are in their bodies). There is one lemma for each step of leaving, and `InnermostMoves` for
what they share. The bridge
and the loggers are related by counting: each logger carries as many handlers as
the bridge notes for it (`BridgeIsTrue`), which `Detach` takes to zero.

*Folds over data of any length* (`PartsProofs`). What `sum` over an archive's entries
and `fold_keys` over a journal compute takes induction, and no installed prover can use
the library's induction theorems. `EveryNumber` (in `CanonicalProofs`) is induction for a set in place of a
predicate, and is proved by counting: the numbers left out below a bound would go, each
to the one before, into themselves without the greatest, against the pigeonhole
principle. From it `FoldExists` shows that the function the library's fold chooses
exists, so that `SizeIsRunningSum` and `TableIsLast` can say what it is after each step.

*Skill bundles* (`PartsProofs`): `Bounded`, `BundleTypeCorrect`, for archives of any
length. `BundleInv` adds that what passed keeps to the limits together
(`SumOf(Len(entries)) <= MaxTotal`) and that what is held is the sum of what the read
entries declared, since a read of more than that refuses; then `SumIsMonotone` bounds
what is held at every entry and not only after the last.

*Callers* (`PartsProofs`): `Own`, `AuthTypeCorrect`, for any journal, any keys and
tokens, any clock. `AuthInv` is that the table is the fold of the events read; its
content is in `LastSaysIt`, by induction over the events: after each of them a table has
of a key what its last issue says, and is revoked if a revocation with a time came after that. The three parts of `CallerIsOwn` follow
from it one by one (`KeyStands`, `TokenIsOwn`, `GivenRoles`). Assumed of the constants
is that a key set says of every kid a token of its issuer can name whether there is a
key, that a published key is an algorithm and its signer, and that times are natural.

*Memory handle* (`PartsProofs`): `ExitTrue`, `HandleKept`, `HandleTypeCorrect`, for any number of
runs that overlap, fail and are killed anywhere. The second is not inductive: that
a run without leave to replace does no harm depends on how it got its file. The
invariant `HandleInv` adds what each place of a run says of its proposal (`ToldOf`), that
runs alive together have met (`AllMet`), that one of them at most created the
file, which is there while that one runs (`OneCreator`), that nothing was there to
lose when it was created (`NoneToLose`), and that a writer has the empty file before it
unless somebody entitled interfered (`WritesAlone`). `Witness` names the run that is
entitled; once there is one there always is (`WitnessLasts`). `Others` says what a
step of one run leaves of the rest, `Actor` what it may do itself.

*Checks* (`PartsProofs`): `OfWhole`, `ChecksTypeCorrect`, for files, limits and lists of
paths of any length. `WindowShowsExcess` is the heart of it: a read of one byte more than
is allowed that brings no more than is allowed has cut nothing off. `ChecksInv` adds that
what is read is of the kind that is due, with what the property says at every place: content
is read under a manifest, and no descriptor is open between two files.

*Release check* (`PartsProofs`): `Earned`, `VerificationTypeCorrect`, for any checkout and
any number of edits. That nobody edited while the tests ran is concluded from two equal
hashes, so the invariant has to date hashes: one is of a version the file had, and a file
that was edited during the steps is past its first hash, so that its second one is
another (`HashesAreOld`). `KnownAt` says for each place of `main()` what has been run and
what came of it, which is what the handler of a failure may rely on too.

*Inspection* (`PartsProofs`): `Honest`, `InspectionTypeCorrect`, for any list of calls. A
history explains a position because no program reads the position after the history
(`AskedInOrder`, proved of each program); the invariant keeps the answers in that order while
the artifact moves on.

*What clients send* (`PartsProofs`): `VerbsFit`, `RefusalAnswered`, `SurfaceTypeCorrect`, for any set of
verbs that gates may leave out. The tables of methods are taken apart once
(`AgentVerbs`, `CuratorVerbs`); the rest is that the cache always is what was heard
last (`CacheIsHeard`), whatever the gate left out of its answer.

*Canonical bytes* (`CanonicalProofs`): `OneTextOnly`, `CanonicalTypeCorrect`, for values of
any depth, texts of any length and integers of any size. The argument has four parts.
*Recursion:* a function whose step looks only at what is less deep than its argument is
its own recursion. TLA+ defines such a function by CHOOSE, so that there is one has to be
shown, by `EveryNumber` over the depth; `TextIs`, `SameIs`, `ProfileIs` and `DigitsAre`
follow from it. *Texts:* a set of words is told from what follows (`Told`) if no two words
and no two things that can come next make the same whole; a list of words with an end mark
can then be read back one by one (`ListIsTold`). Escaped characters are such words with the
closing quote as the mark, and so are texts with a comma before each and a closing bracket.
Digits end where no digit follows. *Order:* code units tell names apart (`KeyTells`, where
a lone high surrogate is the beginning of an astral character but no name has the other half
by itself), so the names of a mapping have one order, and exactly one arrangement
is in it (`OrderExists`, `SameOrder`). *Depth:* `TextsTell` says of a depth that the values the
profile allows have texts no two of which, unless the values are the same, agree whatever
comes after them, and that the others have none; `TextsTellDeeper` is the step. That the
statement is about texts with anything after them, and not about whole texts, is what makes
the induction go through.

*The parts together* (`PartsProofs`): `PartsTypeCorrect` and `PartsCorrect` state of the
specification of `MCParts`, the one the run checks, what the theorems above state of the
part each is about. A behaviour of all is one of each (`EachByItself`), since no part
starts elsewhere or takes other steps because the others are there.

**Only model-checked.** Liveness (`EveryCallReturns`, `StaleCacheRecovers`,
`WithdrawnKeysGo`, `EverySubmissionSettles`), which the prover does not reach.
Every safety property of every passing run is a theorem.

## 6. Not modelled, and why

What the models, or the reading for them, show and no property judges:

* An API key that is issued again after its revocation is accepted (`sdk/auth.py` 285), while line
  268 says that a revoked key stays revoked. As a hash is of a new random key, only a journal
  written by hand issues one twice. And a revocation whose `revoked_at` is there and null leaves the
  key as it was although the event has a `ts` (293), which line 264 calls the fallback.
  `AcceptedKeyStands` says of neither case what it should be.
* The cooldown of a refetch is measured from 0.0 on a clock that may itself be younger than it, so
  that in the first minute of a host an unknown `kid` triggers no refetch (`sdk/auth.py` 348), against
  line 335; `RotationIsSeen` is of calls that find the cooldown over.
* If building a provider fails, `create` drops a backend that already owns
  another, which nobody then shuts down (`sdk/observability/_otel.py` 131);
  `NothingLeftBehind` therefore speaks of handles with a backend.
* `inventory_pages` follows offsets: when a row leaves that was on a page already read, the
  rows after it move up and one is skipped without a sign (`sdk/knowledge.py` 146-158).
  `ListingIsWhole` speaks of iterations during which no row leaves; nothing promises more.
* `KnowledgeClient._object` (`sdk/knowledge.py` 365) and its twin in `sdk/curation.py` 44 would call
  a result that is no mapping a definite failure. Both transports of the SDK have turned such an answer
  into an unknown outcome before (`sdk/transport.py` 94-97), so only a transport a caller supplies
  against its Protocol gets there; `FailureLeavesNothing` is of the transports of the SDK.
* A receipt without an id or a state ends `remember` of the memory starter with status 3
  (`examples/starters/memory.py` 146-150, `GATE_FAILURE`, though "the write happened"), which
  `tests/test_starters_client.py` asserts with a client of its own; `GateClient` raises on the same
  receipt with `outcome_unknown` (`sdk/client.py` 535-538), so that the shipped combination ends with 4.
  `ExitIsTrue` allows the 3 for an unchecked client only.
* A print of that program that raises after an accepted write (an id the terminal cannot encode,
  say) ends it with status 1, which line 31 gives to local refusals, and without the id saved or,
  if it was the first print, shown; line 33 calls `HANDLE_NOT_SAVED` the one such case. The model keeps the two
  kinds of status 1 apart (`refused`; `traceback`, `untold`).
* `examples/starters/memory.py`: a run that overlaps one told to replace the
  handle may remove or overwrite what that one saved, since `_release` looks at the size
  first and unlinks then, although it "never deletes data"; `HandleIsKept` allows
  just that overlap. And a reservation that is left empty by a `ValueError` or a kill makes
  the next `remember` refuse, though line 101 calls an orphan harmless.
* `sdk/package.py` 75 raises `duplicate_json_key`, which line 91 catches as a
  `ValueError` and reports as `invalid_json`; `docs/use-cases/checks.md` 192 and
  `examples/recipes/offline_checks.py` 21 list the former.
* `scripts/check.py`: output of a step that is not UTF-8 escapes the handler and leaves
  a report that says "running".
* `examples/starters/correction.py`: `endpoint_reached` is false if any read did not reach the
  gate, though line 155 says it stays true when the gate answered at all.
* `examples/starters/reviewer.py` 134 reads the body a second time for its digest, so that
  digest and outcome may be of two versions of a file.
* `sdk/submission.py` 184 promises `CanonicalizationRefused`, but a lone surrogate in
  the name of a member raises `UnicodeEncodeError` and deep nesting `RecursionError`.

Not modelled: signature checks and hashes (libraries; a hash is taken as injective);
`Retry-After` as a duration; a submission door's own proxy that answers 413 or 400 in its
place; a file written over in place, to the same length, while it is read; the schema of responses, the gate manifest, the auth
configuration and the single fields of an envelope (checks of one value with no
state and no order of events); redaction and context propagation; the built-in
checks and the programs that print (`runtime.py`, `checks.py`, `__main__.py`, `describe.py`);
vocabularies (constants); the checks of arguments of one-call methods, which raise
before anything is sent; examples that call the SDK once and print, and the drafting
of a correction. Threads inside OpenTelemetry are outside the repository.

## 7. State of the plan

1. *Done:* `Operations`, `Wire`, `Gate`, `GateCall`, the three transports and, for each of
   them, the proof that it implements `GateCall`; every other component by a run and
   by a proof of each safety property of its run.
2. *Left:* nothing of the plan; liveness stays with TLC.
