------------------------------- MODULE MCParts -------------------------------
(* Eleven parts of the SDK and its examples that share no state and do not call
   each other.  A behaviour of all of them is an interleaving of one of each, and
   every property speaks of one part only; so one part takes its steps, and the
   others stay where they begin. *)
EXTENDS MCAuthenticator, Listing, Reads, Observability, SkillBundle, MemoryHandle, Checks, Verification,
        Inspection, ClientSurface, Canonical

VARIABLE part

MCNames == {<<"SKILL.md">>, <<"a">>, <<"A">>, <<"a", "b">>}
MCKeyOf == [name \in MCNames |-> IF name = <<"A">> THEN <<"a">> ELSE name]

MCLimitOf == [manifest \in {"m1", "m2"} |-> IF manifest = "m1" THEN 1 ELSE 2]
MCRequiredOf == [manifest \in {"m1", "m2"} |-> IF manifest = "m1" THEN {} ELSE {"x"}]

Value(kind, of) == [kind |-> kind, of |-> of]
MCSimple ==
    {Value("constant", word) : word \in {"null", "true"}}
    \cup {Value("integer", i) : i \in {-1, 1, 11, 12}}
    \cup {Value("float", "1.0"), Value("bytes", "b")}
    \cup {Value("string", s) : s \in {<<>>, <<"n">>, <<"newline">>, <<"backslash", "n">>, <<"quote">>,
                                      <<"control">>, <<"angstrom">>, <<"surrogate">>}}
MCMember(name, value) == [name |-> name, value |-> value]
MCPairs(names, values) ==
    {pair \in {<<MCMember(a, v), MCMember(b, w)>> : a \in names, b \in names, v \in values, w \in values} :
        pair[1].name # pair[2].name}
MCNested ==
    {Value("array", a) : a \in {<<>>, <<Value("integer", 11)>>, <<Value("integer", 1), Value("integer", 1)>>}}
    \cup {Value("object", pair) : pair \in MCPairs({<<"private">>, <<"astral">>}, {Value("integer", 1)})}
MCDocuments ==
    {<<MCMember(<<"n">>, value)>> : value \in MCSimple \cup MCNested}
    \cup {<<MCMember(name, Value("constant", "null"))>> :
            name \in {<<>>, <<"newline">>, <<"backslash", "n">>, <<"surrogate">>, <<"artifact_id">>}}
    \cup MCPairs({<<"n">>, <<"n", "n">>, <<"private">>, <<"astral">>},
                 {Value("constant", "null"), Value("string", <<"n">>)})
MCValues == MCSimple \cup MCNested \cup {Object(m) : m \in MCDocuments \cup {<<>>}}
MCDepth == [v \in MCValues |-> IF v \in MCSimple THEN 0 ELSE IF v \in MCNested THEN 1 ELSE 2]

Init ==
    /\ part \in {"auth", "listing", "reads", "observability", "bundle", "memory", "checks", "verification",
                 "inspection", "surface", "canonical"}
    /\ AuthInit
    /\ ListingInit /\ (part # "listing" => inventory = <<>>)
    /\ ReadsInit /\ (part # "reads" => ~row.wanted)
    /\ ObsInit /\ (part # "observability" => ~Requested)
    /\ BundleInit /\ (part # "bundle" => count = 0)
    /\ HandleInit /\ (part # "memory" => file = Absent /\ \A r \in Runs : ~run[r].replace)
    /\ ChecksInit
    /\ VerificationInit /\ (part # "verification" => check.mode = "whole")
    /\ InspectionInit /\ (part # "inspection" => program.calls \in recall_memory)
    /\ SurfaceInit /\ (part # "surface" => client.class = "curation" /\ client.scope = "none" /\ dispatched = {})
    /\ CanonicalInit

Next ==
    /\ UNCHANGED part
    /\ \/ /\ part = "auth" /\ AuthNext
          /\ UNCHANGED <<listingVars, readsVars, obsVars, bundleVars, handleVars, checksVars,
                         verificationVars, inspectionVars, surfaceVars, canonicalVars>>
       \/ /\ part = "listing" /\ ListingNext
          /\ UNCHANGED <<authVars, readsVars, obsVars, bundleVars, handleVars, checksVars,
                         verificationVars, inspectionVars, surfaceVars, canonicalVars>>
       \/ /\ part = "reads" /\ ReadsNext
          /\ UNCHANGED <<authVars, listingVars, obsVars, bundleVars, handleVars, checksVars,
                         verificationVars, inspectionVars, surfaceVars, canonicalVars>>
       \/ /\ part = "observability" /\ ObsNext
          /\ UNCHANGED <<authVars, listingVars, readsVars, bundleVars, handleVars, checksVars,
                         verificationVars, inspectionVars, surfaceVars, canonicalVars>>
       \/ /\ part = "bundle" /\ BundleNext
          /\ UNCHANGED <<authVars, listingVars, readsVars, obsVars, handleVars, checksVars,
                         verificationVars, inspectionVars, surfaceVars, canonicalVars>>
       \/ /\ part = "memory" /\ HandleNext
          /\ UNCHANGED <<authVars, listingVars, readsVars, obsVars, bundleVars, checksVars,
                         verificationVars, inspectionVars, surfaceVars, canonicalVars>>
       \/ /\ part = "checks" /\ ChecksNext
          /\ UNCHANGED <<authVars, listingVars, readsVars, obsVars, bundleVars, handleVars,
                         verificationVars, inspectionVars, surfaceVars, canonicalVars>>
       \/ /\ part = "verification" /\ VerificationNext
          /\ UNCHANGED <<authVars, listingVars, readsVars, obsVars, bundleVars, handleVars,
                         checksVars, inspectionVars, surfaceVars, canonicalVars>>
       \/ /\ part = "inspection" /\ InspectionNext
          /\ UNCHANGED <<authVars, listingVars, readsVars, obsVars, bundleVars, handleVars,
                         checksVars, verificationVars, surfaceVars, canonicalVars>>
       \/ /\ part = "surface" /\ SurfaceNext
          /\ UNCHANGED <<authVars, listingVars, readsVars, obsVars, bundleVars, handleVars,
                         checksVars, verificationVars, inspectionVars, canonicalVars>>
       \/ /\ part = "canonical" /\ CanonicalNext
          /\ UNCHANGED <<authVars, listingVars, readsVars, obsVars, bundleVars, handleVars,
                         checksVars, verificationVars, inspectionVars, surfaceVars>>

Spec ==
    Init /\ [][Next]_<<part, authVars, listingVars, readsVars, obsVars, bundleVars, handleVars, checksVars,
                       verificationVars, inspectionVars, surfaceVars, canonicalVars>>

(* The state of each part has the types the code gives it. *)
TypeOK ==
    /\ AuthTypeOK /\ ListingTypeOK /\ ReadsTypeOK /\ ObsTypeOK /\ BundleTypeOK /\ HandleTypeOK
    /\ ChecksTypeOK /\ VerificationTypeOK /\ InspectionTypeOK /\ SurfaceTypeOK

=============================================================================
