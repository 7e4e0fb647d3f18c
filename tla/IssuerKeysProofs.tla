-------------------------- MODULE IssuerKeysProofs --------------------------
(* Proofs about IssuerKeys, for any number of threads, any key ids and any
   cooldown: the types, that no thread meets an empty cache, and that a call on
   its own sees a rotation. *)
EXTENDS IssuerKeys, TLAPS

(* The cache, once filled, is there for good, and each thread passes through
   Install or finds it filled. *)
KeysInv == TypeOK /\ CacheIsThere

(* Both hold of any interleaving of the threads' lines with rotations and fetches
   that fail. *)
LEMMA KeysInvariant == Spec => []KeysInv
<1>0. ASSUME NEW c \in Calls PROVE [c EXCEPT !.alone = FALSE] \in Calls
    BY DEF Calls
<1> USE KeysAssumption
<1>1. Init => KeysInv
    <2> SUFFICES ASSUME Init PROVE KeysInv
        OBVIOUS
    <2>1. cached \in BOOLEAN /\ jwks_uri \in BOOLEAN
        BY Zenon DEF Init
    <2>2. PICK k \in Kids :
            thread = [t \in Threads |->
                [at |-> "idle", kid |-> k, refetch |-> FALSE, got |-> {},
                 answer |-> "none", alone |-> FALSE, due |-> FALSE]]
        BY DEF Init
    <2>3. thread \in [Threads -> Calls]
        BY <2>2 DEF Calls
    <2>4. published \subseteq Kids /\ keys = {} /\ age \in 0..Cooldown /\ sinceTry \in 0..Cooldown
        BY DEF Init
    <2>5. CacheIsThere
        BY <2>2 DEF CacheIsThere, At
    <2> QED
        BY <2>1, <2>3, <2>4, <2>5 DEF KeysInv, TypeOK
<1>2. KeysInv /\ [Next]_vars => KeysInv'
    <2> SUFFICES ASSUME KeysInv, [Next]_vars PROVE KeysInv'
        OBVIOUS
    <2> USE DEF KeysInv, TypeOK, CacheIsThere, At, Kid
    <2>1. ASSUME NEW t \in Threads, Begin(t) PROVE KeysInv'
        <3>1. PICK k \in Kids :
                thread' = [u \in Threads |->
                    IF u = t
                    THEN [at |-> "ask", kid |-> k, refetch |-> FALSE, got |-> {}, answer |-> "none",
                          alone |-> \A v \in Threads : thread[v].at = "idle",
                          due |-> k \in published \ Unusable /\ (~cached \/ age >= Cooldown)]
                    ELSE IF thread[u].at = "idle" THEN thread[u]
                    ELSE [thread[u] EXCEPT !.alone = FALSE]]
            BY <2>1 DEF Begin
        <3> DEFINE alone == \A v \in Threads : thread[v].at = "idle"
                   due == k \in published \ Unusable /\ (~cached \/ age >= Cooldown)
        <3>2. alone \in BOOLEAN /\ due \in BOOLEAN
            BY Zenon
        <3> HIDE DEF alone, due
        <3>3. [at |-> "ask", kid |-> k, refetch |-> FALSE, got |-> {}, answer |-> "none",
               alone |-> alone, due |-> due] \in Calls
            BY <3>2 DEF Calls
        <3>4. \A u \in Threads : [thread[u] EXCEPT !.alone = FALSE] \in Calls
            BY <1>0
        <3>5. thread' \in [Threads -> Calls]
            <4>1. thread' = [u \in Threads |->
                    IF u = t
                    THEN [at |-> "ask", kid |-> k, refetch |-> FALSE, got |-> {}, answer |-> "none",
                          alone |-> alone, due |-> due]
                    ELSE IF thread[u].at = "idle" THEN thread[u]
                    ELSE [thread[u] EXCEPT !.alone = FALSE]]
                BY <3>1, Zenon DEF alone, due
            <4> QED
                BY <3>3, <3>4, <4>1
        <3>6. \A u \in Threads : thread'[u].at \in {"ask", thread[u].at}
            BY <3>1 DEF Calls
        <3> QED
            BY <2>1, <3>5, <3>6 DEF Begin, cacheVars, timeVars
    <2>2. ASSUME NEW t \in Threads, Ask(t) PROVE KeysInv'
        BY <2>2 DEF Ask, Refresh, Calls, cacheVars, timeVars
    <2>3. ASSUME NEW t \in Threads, Discover(t) PROVE KeysInv'
        BY <2>3 DEF Discover, Calls, timeVars
    <2>4. ASSUME NEW t \in Threads, Fetch(t) PROVE KeysInv'
        <3>1. thread' \in [Threads -> Calls]
            <4>1. [thread[t] EXCEPT !.at = "install", !.got = published] \in Calls
                BY DEF Calls
            <4>2. thread' = [thread EXCEPT ![t] = [thread[t] EXCEPT !.at = "install", !.got = published]]
                BY <2>4 DEF Fetch
            <4> QED
                BY <4>1, <4>2
        <3>2. \A u \in Threads : u # t => thread'[u] = thread[u]
            BY <2>4 DEF Fetch
        <3>3. thread'[t].at \in {"idle", "install"}
            BY <2>4 DEF Fetch, Calls
        <3> QED
            BY <2>4, <3>1, <3>2, <3>3 DEF Fetch, cacheVars, timeVars
    <2>5. ASSUME NEW t \in Threads, FetchFails(t) PROVE KeysInv'
        <3>1. thread' \in [Threads -> Calls]
            <4>1. [thread[t] EXCEPT !.at = "idle", !.answer = "error"] \in Calls
                BY DEF Calls
            <4>2. thread' = [thread EXCEPT ![t] = [thread[t] EXCEPT !.at = "idle", !.answer = "error"]]
                BY <2>5 DEF FetchFails
            <4> QED
                BY <4>1, <4>2
        <3>2. \A u \in Threads : u # t => thread'[u] = thread[u]
            BY <2>5 DEF FetchFails
        <3>3. thread'[t].at \in {"idle", "install"}
            BY <2>5 DEF FetchFails, Calls
        <3> QED
            BY <2>5, <3>1, <3>2, <3>3 DEF FetchFails, cacheVars, timeVars
    <2>6. ASSUME NEW t \in Threads, Install(t) PROVE KeysInv'
        BY <2>6 DEF Install, Installed, Calls, timeVars
    <2>7. ASSUME NEW t \in Threads, Look(t) PROVE KeysInv'
        BY <2>7 DEF Look, Refresh, Calls, cacheVars
    <2>8. ASSUME NEW t \in Threads, Stamp(t) PROVE KeysInv'
        BY <2>8 DEF Stamp, Calls, cacheVars
    <2>9. ASSUME NEW t \in Threads, Get(t) PROVE KeysInv'
        <3>1. thread' \in [Threads -> Calls]
            <4>1. [thread[t] EXCEPT !.at = "idle",
                                   !.answer = IF thread[t].kid \in keys THEN "key" ELSE "unknown"] \in Calls
                BY DEF Calls
            <4>2. thread' = [thread EXCEPT ![t] = [thread[t] EXCEPT !.at = "idle",
                                   !.answer = IF thread[t].kid \in keys THEN "key" ELSE "unknown"]]
                BY <2>9 DEF Get
            <4> QED
                BY <4>1, <4>2
        <3>2. \A u \in Threads : u # t => thread'[u] = thread[u]
            BY <2>9 DEF Get
        <3>3. thread'[t].at \in {"idle", "install"}
            BY <2>9 DEF Get, Calls
        <3> QED
            BY <2>9, <3>1, <3>2, <3>3 DEF Get, cacheVars, timeVars
    <2>10. CASE Rotate
        <3>1. PICK next \in SUBSET Kids \ {published} :
                /\ published' = next
                /\ thread' = [t \in Threads |->
                        [thread[t] EXCEPT !.due = thread[t].due /\ thread[t].kid \in next]]
            BY <2>10 DEF Rotate
        <3>2. ASSUME NEW t \in Threads PROVE (thread[t].due /\ thread[t].kid \in next) \in BOOLEAN
            BY Zenon
        <3>3. ASSUME NEW t \in Threads
              PROVE  thread'[t] \in Calls /\ thread'[t].at = thread[t].at
            <4> DEFINE due == thread[t].due /\ thread[t].kid \in next
            <4>1. due \in BOOLEAN
                BY <3>2
            <4> HIDE DEF due
            <4>2. [thread[t] EXCEPT !.due = due] \in Calls
                BY <4>1 DEF Calls
            <4>3. thread'[t] = [thread[t] EXCEPT !.due = due]
                BY <3>1 DEF due
            <4> QED
                BY <4>2, <4>3 DEF Calls
        <3> QED
            BY <2>10, <3>1, <3>3 DEF Rotate, cacheVars, timeVars
    <2>11. CASE Tick
        BY <2>11 DEF Tick, UpTo, cacheVars
    <2>12. CASE UNCHANGED vars
        BY <2>12 DEF vars
    <2> QED
        BY <2>1, <2>2, <2>3, <2>4, <2>5, <2>6, <2>7, <2>8, <2>9, <2>10, <2>11, <2>12
        DEF Next, key_for
<1> QED
    BY <1>1, <1>2, PTL DEF Spec

(* Whatever threads ask, rotate or fail, and in whatever order, the cache and
   the calls keep their types. *)
THEOREM KeysTypeCorrect == Spec => []TypeOK
<1>1. KeysInv => TypeOK
    BY DEF KeysInv
<1> QED
    BY <1>1, KeysInvariant, PTL

(* No thread, past the assertion in key_for, finds the cache missing. *)
THEOREM CacheStays == Spec => []CacheIsThere
<1>1. KeysInv => CacheIsThere
    BY DEF KeysInv
<1> QED
    BY <1>1, KeysInvariant, PTL

-----------------------------------------------------------------------------
(* A call on its own.  What it has read from the issuer, or can still read, has
   the kid it looks for: each place of key_for in turn. *)

OnItsOwn(t) == thread[t].alone /\ thread[t].due

StillToBeSeen(t) ==
    /\ \A u \in Threads : u # t => thread[u].at = "idle"
    /\ thread[t].kid \in published \ Unusable
    /\ thread[t].at = "ask" => ~cached \/ age = Cooldown
    /\ thread[t].at = "install" => thread[t].kid \in thread[t].got
    /\ thread[t].at = "look" => thread[t].kid \in keys \/ age = Cooldown
    /\ thread[t].at \in {"stamp", "get"} => thread[t].kid \in keys

RotationInv ==
    \A t \in Threads :
        OnItsOwn(t) =>
            /\ thread[t].answer # "unknown"
            /\ thread[t].at # "idle" => StillToBeSeen(t)

(* A call that nobody overlaps, whose key was published all the while and might
   be refetched when it began, is not told that it is unknown. *)
THEOREM RotationSeen == Spec => []RotationIsSeen
<1> USE KeysAssumption
<1>1. Init => RotationInv
    BY DEF Init, RotationInv, OnItsOwn
<1>2. KeysInv /\ RotationInv /\ [Next]_vars => RotationInv'
    <2> SUFFICES ASSUME KeysInv, RotationInv, [Next]_vars PROVE RotationInv'
        OBVIOUS
    <2>0. /\ thread \in [Threads -> Calls] /\ published \subseteq Kids
          /\ age \in 0..Cooldown
        BY DEF KeysInv, TypeOK
    <2> USE DEF RotationInv, OnItsOwn, StillToBeSeen, At, Kid
    <2>1. ASSUME NEW t \in Threads, Begin(t) PROVE RotationInv'
        <3>1. PICK k \in Kids :
                thread' = [u \in Threads |->
                    IF u = t
                    THEN [at |-> "ask", kid |-> k, refetch |-> FALSE, got |-> {}, answer |-> "none",
                          alone |-> \A v \in Threads : thread[v].at = "idle",
                          due |-> k \in published \ Unusable /\ (~cached \/ age >= Cooldown)]
                    ELSE IF thread[u].at = "idle" THEN thread[u]
                    ELSE [thread[u] EXCEPT !.alone = FALSE]]
            BY <2>1 DEF Begin
        <3>2. UNCHANGED <<published, keys, cached, age>>
            BY <2>1 DEF Begin, cacheVars, timeVars
        <3>3. ASSUME OnItsOwn(t)' PROVE thread'[t].answer # "unknown" /\ StillToBeSeen(t)'
            <4>1. thread'[t].at = "ask" /\ thread'[t].kid = k /\ thread'[t].answer = "none"
                BY <3>1
            <4>2. thread'[t].alone = \A v \in Threads : thread[v].at = "idle"
                BY <3>1, Zenon
            <4>3. thread'[t].due = (k \in published \ Unusable /\ (~cached \/ age >= Cooldown))
                BY <3>1, Zenon
            <4>4. \A v \in Threads : thread[v].at = "idle"
                BY <3>3, <4>2
            <4>5. k \in published \ Unusable /\ (~cached \/ age = Cooldown)
                <5>1. k \in published \ Unusable /\ (~cached \/ age >= Cooldown)
                    BY <3>3, <4>3
                <5> QED
                    BY <2>0, <5>1
            <4>6. \A u \in Threads : u # t => thread'[u] = thread[u]
                BY <3>1, <4>4
            <4> QED
                BY <3>2, <4>1, <4>4, <4>5, <4>6
        <3>4. ASSUME NEW u \in Threads, u # t, OnItsOwn(u)'
              PROVE  thread'[u] = thread[u] /\ thread[u].at = "idle"
            <4>1. CASE thread[u].at = "idle"
                BY <3>1, <3>4, <4>1
            <4>2. CASE thread[u].at # "idle"
                <5>1. thread'[u].alone = FALSE
                    BY <2>0, <3>1, <3>4, <4>2 DEF Calls
                <5> QED
                    BY <3>4, <5>1
            <4> QED
                BY <4>1, <4>2
        <3> QED
            BY <3>3, <3>4
    <2>2. ASSUME NEW t \in Threads, Ask(t) PROVE RotationInv'
        BY <2>0, <2>2 DEF Ask, Refresh, Calls, cacheVars, timeVars
    <2>3. ASSUME NEW t \in Threads, Discover(t) PROVE RotationInv'
        BY <2>0, <2>3 DEF Discover, Calls, timeVars
    <2>4. ASSUME NEW t \in Threads, Fetch(t) PROVE RotationInv'
        BY <2>0, <2>4 DEF Fetch, Calls, cacheVars, timeVars
    <2>5. ASSUME NEW t \in Threads, FetchFails(t) PROVE RotationInv'
        BY <2>0, <2>5 DEF FetchFails, Calls, cacheVars, timeVars
    <2>6. ASSUME NEW t \in Threads, Install(t) PROVE RotationInv'
        BY <2>0, <2>6 DEF Install, Installed, Calls, timeVars
    <2>7. ASSUME NEW t \in Threads, Look(t) PROVE RotationInv'
        BY <2>0, <2>7 DEF Look, Refresh, Cooled, Calls, cacheVars
    <2>8. ASSUME NEW t \in Threads, Stamp(t) PROVE RotationInv'
        BY <2>0, <2>8 DEF Stamp, Calls, cacheVars
    <2>9. ASSUME NEW t \in Threads, Get(t) PROVE RotationInv'
        BY <2>0, <2>9 DEF Get, Calls, cacheVars, timeVars
    <2>10. CASE Rotate
        <3>1. PICK next \in SUBSET Kids \ {published} :
                /\ published' = next
                /\ thread' = [t \in Threads |->
                        [thread[t] EXCEPT !.due = thread[t].due /\ thread[t].kid \in next]]
            BY <2>10 DEF Rotate
        <3>2. UNCHANGED <<keys, cached, age>>
            BY <2>10 DEF Rotate, cacheVars, timeVars
        <3>3. ASSUME NEW t \in Threads
              PROVE  /\ thread'[t].at = thread[t].at /\ thread'[t].kid = thread[t].kid
                     /\ thread'[t].got = thread[t].got /\ thread'[t].answer = thread[t].answer
                     /\ thread'[t].alone = thread[t].alone
            BY <2>0, <3>1 DEF Calls
        <3>4. ASSUME NEW t \in Threads, thread'[t].due
              PROVE  thread[t].due /\ thread[t].kid \in next
            <4> DEFINE due == thread[t].due /\ thread[t].kid \in next
            <4>1. thread'[t] = [thread[t] EXCEPT !.due = due]
                BY <3>1
            <4> HIDE DEF due
            <4>2. thread'[t].due = due
                BY <2>0, <4>1 DEF Calls
            <4> QED
                BY <3>4, <4>2 DEF due
        <3> QED
            BY <3>1, <3>2, <3>3, <3>4
    <2>11. CASE Tick
        BY <2>0, <2>11 DEF Tick, UpTo, cacheVars
    <2>12. CASE UNCHANGED vars
        BY <2>12 DEF vars
    <2> QED
        BY <2>1, <2>2, <2>3, <2>4, <2>5, <2>6, <2>7, <2>8, <2>9, <2>10, <2>11, <2>12
        DEF Next, key_for
<1>3. RotationInv => RotationIsSeen
    BY DEF RotationInv, RotationIsSeen, OnItsOwn
<1> QED
    BY <1>1, <1>2, <1>3, KeysInvariant, PTL DEF Spec

=============================================================================
