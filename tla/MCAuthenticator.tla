---------------------------- MODULE MCAuthenticator ----------------------------
(* Two issuers that publish different keys under the same kid, and the tokens that
   can be made of them, right and wrong. *)
EXTENDS Authenticator

MCAudienceOf == [issuer \in {"people", "build"} |-> issuer]
MCJwks ==
    [issuer \in {"people", "build"} |->
        [kid \in {"1", "2"} |->
            IF kid = "1" THEN [alg |-> "RS256", signer |-> issuer] ELSE NoJwk]]
MCRoleMap == [group \in {"devs", "ops"} |-> IF group = "devs" THEN "reviewer" ELSE "agent"]
MCGood ==
    {[iss |-> issuer, kid |-> "1", alg |-> "RS256", signer |-> issuer, aud |-> issuer, nbf |-> 2, exp |-> 2,
      sub |-> sub, email |-> "", groups |-> groups] :
        issuer \in {"people", "build"}, sub \in {"ann", "bob"}, groups \in {{}, {"devs"}, {"devs", "ops"}}}
MCTokens ==
    LET wrong == [iss : {"people", "build", "elsewhere"}, kid : {"1"}, alg : {"RS256", "ES256"},
                  signer : {"people", "build"}, aud : {"people", "build"}, nbf : {2}, exp : {2},
                  sub : {"ann"}, email : {""}, groups : {{}}]
    IN  MCGood \cup wrong \cup {[token EXCEPT !.kid = "2"] : token \in MCGood \cap wrong}
MCSubjects == [iss : {"people", "build"}, sub : {"ann"}]

=============================================================================
