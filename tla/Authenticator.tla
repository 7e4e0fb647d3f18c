---------------------------- MODULE Authenticator ----------------------------
(***************************************************************************)
(* auth.Authenticator.principal, the one call a service makes to learn who *)
(* is calling, and auth.fold_keys, which makes the table of API keys out   *)
(* of the service's journal.                                               *)
(*                                                                         *)
(* The service reads its journal when it comes round to it; principal      *)
(* itself writes nothing.  Its answer is thus a function of the request    *)
(* and of what the service knows, and the properties speak of the answer   *)
(* to every request at every time.  Signatures are PyJWT's; that a key set *)
(* may be stale or out of reach is module IssuerKeys, and only refuses.    *)
(***************************************************************************)
EXTENDS Naturals, Sequences, SequencesExt, FiniteSetsExt

CONSTANTS
    Keys,          \* API keys; a hash stands for its key
    PersonIssuer,  \* the issuer persons sign in at ...
    Workloads,     \* ... and the trusted issuers of workload tokens
    AudienceOf,    \* issuer -> the audience its tokens carry
    Jwks,          \* issuer -> kid -> the public JWK, or NoJwk
    NoJwk,
    Admins,        \* [auth].admins: subjects and emails
    RoleMap,       \* [auth.role_map]: group -> role
    Tokens,        \* the bearer JWTs that are presented
    Uids,          \* the users that call over the socket ...
    OwnerUid,      \* ... and the daemon's owner, which may be unknown
    Subjects,      \* bound: [iss, sub] of the identities that are given a role
    RolesGiven,    \* bound: the roles that keys and identities are given
    Never,         \* a key without expires_at
    Expiries,      \* expires_at of the keys, in milliseconds
    Second,        \* milliseconds in a second
    Leeway,        \* seconds
    MaxEvents,     \* bound: the length of the journal
    MaxTime        \* bound: the clock, in seconds

ROLES == {"reader", "agent", "reviewer", "admin"}
ROLE_RANK == [reader |-> 0, agent |-> 1, reviewer |-> 2, admin |-> 3]
Issuers == Workloads \cup {PersonIssuer}

ASSUME AuthAssumption ==
    /\ AudienceOf \in [Issuers -> STRING]
    /\ DOMAIN Jwks = Issuers
    /\ \A issuer \in Issuers : \A kid \in DOMAIN Jwks[issuer] :
        LET jwk == Jwks[issuer][kid] IN jwk = NoJwk \/ jwk = [alg |-> jwk.alg, signer |-> jwk.signer]
    /\ \A token \in Tokens :
        /\ token.iss \in Issuers => token.kid \in DOMAIN Jwks[token.iss]
        /\ {token.exp, token.nbf} \subseteq Nat
    /\ Expiries \subseteq Nat
    /\ RolesGiven \subseteq ROLES
    /\ \A group \in DOMAIN RoleMap : RoleMap[group] \in ROLES
    /\ {Second, Leeway, MaxEvents, MaxTime} \subseteq Nat

VARIABLES
    journal,  \* the service's events
    read,     \* how many of them it has taken in ...
    table,    \* ... and the key table folded from those
    now       \* its clock

authVars == <<journal, read, table, now>>

(* The events that matter here, each with its ts and a role of the four; a
   revocation may be dated, or carry a revoked_at that is null.  The role-assigned
   ones are read by role_lookup, which is the service's. *)
Events ==
    [type : {"apikey-issued"}, key : Keys, role : RolesGiven, expires_at : Expiries \cup {Never}]
    \cup [type : {"apikey-revoked"}, key : Keys, dated : BOOLEAN]
    \cup [type : {"role-assigned"}, who : Subjects, role : RolesGiven]

KeyRows == [role : RolesGiven, expires_at : Expiries \cup {Never}, revoked : BOOLEAN]

AuthTypeOK ==
    /\ journal \in Seq(Events)
    /\ read \in 0..Len(journal)
    /\ DOMAIN table \subseteq Keys
    /\ \A k \in DOMAIN table : table[k] \in KeyRows
    /\ now \in 0..MaxTime

-----------------------------------------------------------------------------
(* The key table. *)

IssuedRow(event) ==
    [role |-> event.role, expires_at |-> event.expires_at, revoked |-> FALSE]

(* Revoking a key that is not known does nothing; a row is revoked when it has a
   time of it, and fields.get takes ts for a field that is missing, not for one
   that is null. *)
Folded(rows, event) ==
    CASE event.type = "apikey-issued" ->
            [k \in DOMAIN rows \cup {event.key} |->
                IF k = event.key THEN IssuedRow(event) ELSE rows[k]]
      [] event.type = "apikey-revoked" /\ event.key \in DOMAIN rows ->
            [rows EXCEPT ![event.key].revoked = @ \/ event.dated]
      [] OTHER -> rows

fold_keys(events) == FoldLeft(Folded, [k \in {} |-> 0], events)

AuthInit ==
    /\ journal = <<>>
    /\ read = 0
    /\ table = fold_keys(journal)
    /\ now = 0

RecordEvent ==
    /\ Len(journal) < MaxEvents
    /\ \E event \in Events : journal' = Append(journal, event)
    /\ UNCHANGED <<read, table, now>>

ReadJournal ==
    /\ read' \in (read + 1)..Len(journal)
    /\ table' = fold_keys(SubSeq(journal, 1, read'))
    /\ UNCHANGED <<journal, now>>

ClockTicks ==
    /\ now < MaxTime
    /\ now' = now + 1
    /\ UNCHANGED <<journal, read, table>>

AuthNext == RecordEvent \/ ReadJournal \/ ClockTicks

AuthSpec == AuthInit /\ [][AuthNext]_authVars

-----------------------------------------------------------------------------
(* principal *)

Refusal(kind) == [accepted |-> FALSE, kind |-> kind, role |-> "none"]
Principal(kind, role) == [accepted |-> TRUE, kind |-> kind, role |-> role]

expired(row) == row.expires_at # Never /\ row.expires_at <= now * Second

(* Unknown, revoked and expired keys are refused alike. *)
program_from_key(key) ==
    IF key \in DOMAIN table /\ ~table[key].revoked /\ ~expired(table[key])
    THEN Principal("program", table[key].role) ELSE Refusal("signature")

(* Faulty: the key is looked for in every issuer's set. *)
key_of_anyone(iss, kid) ==
    IF \E issuer \in Issuers : Jwks[issuer][kid] # NoJwk
    THEN Jwks[CHOOSE issuer \in Issuers : Jwks[issuer][kid] # NoJwk][kid]
    ELSE NoJwk

key_for(iss, kid) == Jwks[iss][kid]

(* verify_bearer_jwt, the refusals in the order of the code. *)
verify_bearer_jwt(token) ==
    IF token.iss \notin Issuers THEN "issuer"
    ELSE LET jwk == key_for(token.iss, token.kid) IN
         CASE jwk = NoJwk -> "signature"
           [] jwk # NoJwk /\ (token.alg # jwk.alg \/ token.signer # jwk.signer) -> "signature"
           [] OTHER ->
                IF token.aud # AudienceOf[token.iss] THEN "audience"
                ELSE IF token.exp + Leeway <= now \/ token.nbf > now + Leeway THEN "expired"
                ELSE "ok"

(* role_lookup: the last role this service gave to the identity. *)
Assignments(iss, sub) ==
    {i \in 1..read : journal[i].type = "role-assigned" /\ journal[i].who = [iss |-> iss, sub |-> sub]}

Assigned(token) ==
    LET given == Assignments(token.iss, token.sub)
    IN  IF given = {} THEN "none" ELSE journal[Max(given)].role

Mapped(token) ==
    LET roles == {RoleMap[group] : group \in token.groups \cap DOMAIN RoleMap}
    IN  IF roles = {} THEN "none"
        ELSE CHOOSE role \in roles : \A other \in roles : ROLE_RANK[role] >= ROLE_RANK[other]

(* The first that has a role to give. *)
PersonRole(token) ==
    IF Assigned(token) # "none" THEN Assigned(token)
    ELSE IF {token.sub, token.email} \cap Admins # {} THEN "admin"
    ELSE IF Mapped(token) # "none" THEN Mapped(token)
    ELSE "reader"

WorkloadRole(token) ==
    IF Assigned(token) # "none" THEN Assigned(token) ELSE "reader"

Bearer(token) ==
    IF verify_bearer_jwt(token) # "ok" THEN Refusal(verify_bearer_jwt(token))
    ELSE IF token.iss = PersonIssuer THEN Principal("person", PersonRole(token))
    ELSE Principal("program", WorkloadRole(token))

Requests ==
    [via : {"socket"}, uid : Uids] \cup [via : {"api_key"}, key : Keys]
    \cup [via : {"oidc"}, token : Tokens] \cup [via : {"nothing", "garbled"}]

(* A socket peer is taken for its uid, whatever else it presents. *)
principal(request) ==
    CASE request.via = "socket" ->
            Principal("local", IF request.uid = OwnerUid THEN "admin" ELSE "agent")
      [] request.via = "nothing" -> Refusal("missing")
      [] request.via = "garbled" -> Refusal("malformed")
      [] request.via = "api_key" -> program_from_key(request.key)
      [] request.via = "oidc" -> Bearer(request.token)

-----------------------------------------------------------------------------
(* What the service has read about a key. *)
Issues(k) == {i \in 1..read : journal[i].type = "apikey-issued" /\ journal[i].key = k}
Revocations(k) == {i \in 1..read : journal[i].type = "apikey-revoked" /\ journal[i].key = k}
Dated(k) == {i \in Revocations(k) : journal[i].dated}

(* The key was issued, and neither did the time pass it was last issued for, nor
   was it revoked since. *)
Stands(k) ==
    /\ Issues(k) # {}
    /\ LET last == journal[Max(Issues(k))]
       IN  last.expires_at = Never \/ last.expires_at > now * Second
    /\ \A i \in Dated(k) : i < Max(Issues(k))

(* Each revocation has its time, and none lies between two issues. *)
Undisputed(k) ==
    /\ Revocations(k) = Dated(k)
    /\ \A i, j \in Issues(k) : \A revoked \in Revocations(k) : ~(i < revoked /\ revoked < j)

(* An API key that is accepted stands, and one that stands is accepted: fold_keys
   over any order of events, repeated ones, ones about other keys and revocations of
   keys not issued yet included.  Whether a key that is issued again after its revocation
   should be accepted, and one whose revocation has no time, is not said: the code
   accepts both (auth.py:285, 293), its docstring reads otherwise (264-268). *)
AcceptedKeyStands ==
    \A k \in Keys :
        /\ program_from_key(k).accepted => Stands(k)
        /\ Undisputed(k) /\ Stands(k) => program_from_key(k).accepted

(* A bearer token that is accepted was signed, with the algorithm the key is
   published for, by a key of the issuer it names, however alike the key ids of
   different issuers are, and is for this service and of this time. *)
AcceptedTokenIsOwn ==
    \A token \in Tokens :
        Bearer(token).accepted =>
            /\ token.iss \in Issuers
            /\ [alg |-> token.alg, signer |-> token.signer] \in
                    {Jwks[token.iss][kid] : kid \in DOMAIN Jwks[token.iss]}
            /\ token.aud = AudienceOf[token.iss]
            /\ token.nbf <= now + Leeway /\ now < token.exp + Leeway

(* Nobody has more than the least role who was not given it: by the event that
   last issued the key, by this service to this very subject of this very
   issuer, or by the configuration, which speaks of the persons of the one
   issuer and not of workloads that happen to have their names.  What the
   service assigned outweighs the configuration, upwards and downwards. *)
RoleIsGiven ==
    \A request \in Requests :
        LET answer == principal(request)
            token == request.token
            assigned == Assignments(token.iss, token.sub)
        IN  answer.accepted =>
            CASE request.via = "socket" -> answer.role = "admin" => request.uid = OwnerUid
              [] request.via = "api_key" ->
                    answer.role = journal[Max(Issues(request.key))].role
              [] request.via = "oidc" ->
                    IF assigned # {} THEN answer.role = journal[Max(assigned)].role
                    ELSE answer.role # "reader" =>
                        /\ token.iss = PersonIssuer
                        /\ \/ answer.role = "admin" /\ {token.sub, token.email} \cap Admins # {}
                           \/ answer.role \in
                                {RoleMap[group] : group \in token.groups \cap DOMAIN RoleMap}

(* Nobody passes for somebody else: a key that is accepted was issued and still
   stands, what an accepted token says is its issuer's word, and what a caller
   may do was given to that very caller. *)
CallerIsOwn == AcceptedKeyStands /\ AcceptedTokenIsOwn /\ RoleIsGiven

=============================================================================

