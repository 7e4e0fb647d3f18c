----------------------------- MODULE IssuerKeys -----------------------------
(***************************************************************************)
(* auth.IssuerKeys: the key set of one token issuer, cached by kid and     *)
(* refetched when a kid is unknown, asked by the threads of a service that *)
(* share one Authenticator and take no lock.                               *)
(*                                                                         *)
(* The issuer rotates its keys while the service runs, and a fetch may     *)
(* fail.  A key set is the set of its kids.                                *)
(***************************************************************************)
EXTENDS Naturals

CONSTANTS
    Threads,    \* the threads of the service
    Kids,       \* the key ids that occur in tokens
    Unusable,   \* the kids of keys that _algorithm_of turns down
    Cooldown    \* _REFETCH_COOLDOWN

ASSUME KeysAssumption ==
    /\ Unusable \subseteq Kids
    /\ Cooldown \in Nat \ {0}

VARIABLES
    published,  \* the issuer: the kids in its JWKS now
    keys,       \* _keys, the cache ...
    cached,     \* ... and whether it is not None
    jwks_uri,   \* whether _jwks_uri is known
    age,        \* time.monotonic() - _last_refetch, counted up to Cooldown
    sinceTry,   \* history: the same since the last refetch began, however it ended
    thread      \* each thread's call of key_for

cacheVars == <<keys, cached, jwks_uri>>
timeVars == <<age, sinceTry>>
vars == <<published, keys, cached, jwks_uri, age, sinceTry, thread>>

(* One call: where it is, the kid it looks for, whether its refresh is a
   refetch, and the JWKS it has read.  The rest is history: the answer, whether
   no other call overlapped it, and whether the kid was published all the while and
   could be refetched when it began. *)
Calls ==
    [at : {"idle", "ask", "discover", "fetch", "install", "look", "stamp", "get"},
     kid : Kids, refetch : BOOLEAN, got : SUBSET Kids,
     answer : {"none", "key", "unknown", "error"},
     alone : BOOLEAN, due : BOOLEAN]

At(t) == thread[t].at
Kid(t) == thread[t].kid

(* _last_refetch starts at 0, and so may, nearly, the clock: on a host that has
   just come up the cooldown is not over before anything was fetched. *)
Init ==
    /\ published \in SUBSET Kids
    /\ keys = {}
    /\ cached = FALSE
    /\ jwks_uri = FALSE
    /\ age \in 0..Cooldown
    /\ sinceTry = Cooldown
    /\ \E k \in Kids :
        thread = [t \in Threads |->
            [at |-> "idle", kid |-> k, refetch |-> FALSE, got |-> {},
             answer |-> "none", alone |-> FALSE, due |-> FALSE]]

-----------------------------------------------------------------------------
(* Faulty: an unknown kid is never asked for again. *)
CooledNever == age > Cooldown

Cooled == age >= Cooldown

(* A request arrives with a token that names a kid. *)
Begin(t) ==
    /\ At(t) = "idle"
    /\ \E k \in Kids :
        thread' = [u \in Threads |->
            IF u = t
            THEN [at |-> "ask", kid |-> k, refetch |-> FALSE, got |-> {}, answer |-> "none",
                  alone |-> \A v \in Threads : At(v) = "idle",
                  due |-> k \in published \ Unusable /\ (~cached \/ age >= Cooldown)]
            ELSE IF At(u) = "idle" THEN thread[u]
            ELSE [thread[u] EXCEPT !.alone = FALSE]]
    /\ UNCHANGED <<published, cacheVars, timeVars>>

(* refresh: the discovery document is read until it has once been read. *)
Refresh(t, refetch) ==
    thread' = [thread EXCEPT ![t].at = IF jwks_uri THEN "fetch" ELSE "discover",
                             ![t].refetch = refetch]

Ask(t) ==
    /\ At(t) = "ask"
    /\ IF cached THEN thread' = [thread EXCEPT ![t].at = "look"] ELSE Refresh(t, FALSE)
    /\ UNCHANGED <<published, cacheVars, timeVars>>

Discover(t) ==
    /\ At(t) = "discover"
    /\ jwks_uri' = TRUE
    /\ thread' = [thread EXCEPT ![t].at = "fetch"]
    /\ UNCHANGED <<published, keys, cached, timeVars>>

(* Faulty: the cache is emptied before the issuer is asked. *)
FetchEmptiesFirst(t) ==
    /\ At(t) = "fetch"
    /\ cached' = FALSE
    /\ thread' = [thread EXCEPT ![t].at = "install", ![t].got = published]
    /\ UNCHANGED <<published, keys, jwks_uri, timeVars>>

Fetch(t) ==
    /\ At(t) = "fetch"
    /\ thread' = [thread EXCEPT ![t].at = "install", ![t].got = published]
    /\ UNCHANGED <<published, cacheVars, timeVars>>

(* The fetch raised, or its answer is not what it should be: the error leaves
   key_for, and nothing of the cache is written. *)
FetchFails(t) ==
    /\ At(t) \in {"discover", "fetch"}
    /\ thread' = [thread EXCEPT ![t].at = "idle", ![t].answer = "error"]
    /\ UNCHANGED <<published, cacheVars, timeVars>>

(* Faulty: a key is kept whatever its algorithm. *)
KeptAll(old, got) == got

(* Faulty: the keys just read are added to the ones cached. *)
AddedTo(old, got) == old \cup (got \ Unusable)

(* The keys just read replace the ones cached; _algorithm_of drops some. *)
Installed(old, got) == got \ Unusable

Install(t) ==
    /\ At(t) = "install"
    /\ keys' = Installed(keys, thread[t].got)
    /\ cached' = TRUE
    /\ thread' = [thread EXCEPT ![t].at = IF thread[t].refetch THEN "stamp" ELSE "look"]
    /\ UNCHANGED <<published, jwks_uri, timeVars>>

Look(t) ==
    /\ At(t) = "look"
    /\ IF Kid(t) \notin keys /\ Cooled
       THEN Refresh(t, TRUE) /\ sinceTry' = 0
       ELSE thread' = [thread EXCEPT ![t].at = "get"] /\ UNCHANGED sinceTry
    /\ UNCHANGED <<published, cacheVars, age>>

(* Only a refetch that came this far is remembered. *)
Stamp(t) ==
    /\ At(t) = "stamp"
    /\ age' = 0
    /\ thread' = [thread EXCEPT ![t].at = "get"]
    /\ UNCHANGED <<published, cacheVars, sinceTry>>

Get(t) ==
    /\ At(t) = "get"
    /\ thread' = [thread EXCEPT ![t].at = "idle",
                                ![t].answer = IF Kid(t) \in keys THEN "key" ELSE "unknown"]
    /\ UNCHANGED <<published, cacheVars, timeVars>>

key_for(t) ==
    \/ Begin(t) \/ Ask(t) \/ Discover(t) \/ Fetch(t) \/ FetchFails(t)
    \/ Install(t) \/ Look(t) \/ Stamp(t) \/ Get(t)

-----------------------------------------------------------------------------
(* The issuer publishes another key set; a call whose kid it withdraws need not
   find it. *)
Rotate ==
    /\ \E next \in SUBSET Kids \ {published} :
        /\ published' = next
        /\ thread' = [t \in Threads |->
                [thread[t] EXCEPT !.due = thread[t].due /\ Kid(t) \in next]]
    /\ UNCHANGED <<cacheVars, timeVars>>

UpTo(limit, n) == IF n < limit THEN n + 1 ELSE limit

Tick ==
    /\ age' = UpTo(Cooldown, age)
    /\ sinceTry' = UpTo(Cooldown, sinceTry)
    /\ timeVars' # timeVars
    /\ UNCHANGED <<published, cacheVars, thread>>

Next == Rotate \/ Tick \/ \E t \in Threads : key_for(t)

Spec == Init /\ [][Next]_vars

(* Only the clock has to go on: nobody need ask, no fetch need ever succeed. *)
FairSpec == Spec /\ WF_vars(Tick)

-----------------------------------------------------------------------------
(* The cache and the calls have the types the code gives them. *)
TypeOK ==
    /\ published \subseteq Kids
    /\ keys \subseteq Kids \ Unusable
    /\ cached \in BOOLEAN
    /\ jwks_uri \in BOOLEAN
    /\ age \in 0..Cooldown
    /\ sinceTry \in 0..Cooldown
    /\ thread \in [Threads -> Calls]

(* key_for never reads a cache that is not there: the assertion at auth.py:390,
   with another thread's refresh at any point, failed ones included. *)
CacheIsThere ==
    \A t \in Threads : At(t) \in {"look", "stamp", "get"} => cached

(* A call that no other overlaps and whose fetches succeed finds every key the
   issuer published before it began and has not withdrawn, if the cooldown was
   over: a rotation costs no request (key_for refetches for an unknown kid). *)
RotationIsSeen ==
    \A t \in Threads :
        thread[t].alone /\ thread[t].due => thread[t].answer # "unknown"

(* A key the issuer has withdrawn for good does not stay in the cache if the set
   is read again and again, for whatever other kids: from some time on it is not
   there, and nobody accepts it (refresh replaces the cache, and threads that
   read the old set are soon through with it). *)
WithdrawnKeysGo ==
    \A k \in Kids :
        <>[](k \notin published) /\ []<><<\E t \in Threads : Install(t)>>_vars =>
            <>[](k \notin keys)

(* Threads may install what they read in the wrong order, and a valid token is
   then refused until the cooldown is over; but the cache recovers: a key that
   stays published is from some time on never called unknown again. *)
StaleCacheRecovers ==
    \A k \in Kids \ Unusable :
        <>[](k \in published) =>
            <>[][\A t \in Threads : Get(t) /\ Kid(t) = k => k \in keys]_vars

(* What the class says of itself: an unknown kid triggers a refetch at most once
   a minute (auth.py:335), however the refetch ends; so a look at the cache that
   leads to one has none behind it that began within the cooldown. *)
AtMostOncePerCooldown ==
    [][\A t \in Threads : Look(t) /\ At(t)' # "get" => sinceTry = Cooldown]_vars

=============================================================================
