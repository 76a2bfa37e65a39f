------------------------- MODULE SignedTokensProof -------------------------
(***************************************************************************)
(* Proofs about SignedTokens, for any number of processes, keys and        *)
(* verifiers: tokens are taken for what they are, verdicts are true, and   *)
(* once everybody has one key its tokens last.                             *)
(***************************************************************************)
EXTENDS SignedTokens, JwtKeysProof

LEMMA TokensStart == TokensInit => Init
BY DEF TokensInit

LEMMA TokensStep == [TokensNext]_tokenVars => [Next]_vars
BY DEF TokensNext, tokenVars, Mint, MintPartial2FA, Present, Expire, Mature, JWKS

(* Tokens come and go without a step of the keys.                          *)
THEOREM TokensLeaveKeysAlone == TokensSpec => Spec
BY TokensStart, TokensStep, PTL DEF TokensSpec, Spec

LEMMA TokensInitInv == TokensInit => TokensInv
BY InitIInv DEF TokensInit, TokensInv, NoToken, Unsigned

(* What is minted is a signed text. *)
LEMMA Minted ==
  ASSUME NEW k \in Key, NEW typ \in AccessTyp \cup PartialTyp
  PROVE  AccessClaims(k, typ) \in SignedText /\ PartialClaims(k, typ) \in SignedText
BY DEF AccessClaims, PartialClaims, Signed, SignedText

LEMMA TokensStepInv == TokensInv /\ [TokensNext]_tokenVars => TokensInv'
<1> SUFFICES ASSUME TokensInv, [TokensNext]_tokenVars PROVE TokensInv'
  OBVIOUS
<1>1. IInv'
  BY StepIInv, TokensStep DEF TokensInv
<1>2. /\ \/ token \in SignedText
         \/ \E alg \in {"HS256", "none", "broken", "no"}, exp \in {"ahead", "past"} :
              token = Unsigned(alg, exp)
      /\ jwks \in [Verifier -> Key \cup {Absent}]
  BY DEF TokensInv
<1>3. ASSUME NEW p \in Process, At(p, "serving") PROVE proc[p].key \in Key
  BY <1>3 DEF TokensInv, IInv, At
<1>4. ASSUME NEW p \in Process, NEW typ \in AccessTyp \cup PartialTyp,
             Mint(p, typ) \/ MintPartial2FA(p, typ)
      PROVE  TokensInv'
  BY <1>1, <1>2, <1>3, <1>4, Minted DEF Mint, MintPartial2FA, TokensInv
<1>5. ASSUME NEW t \in Text, Present(t)
      PROVE  TokensInv'
  <2>1. t \in SignedText \/ \E alg \in {"HS256", "none", "broken", "no"}, exp \in {"ahead", "past"} :
              t = Unsigned(alg, exp)
    BY DEF Text
  <2> QED
    BY <1>1, <1>2, <1>5, <2>1 DEF Present, TokensInv
<1>6. ASSUME Expire
      PROVE  TokensInv'
  <2>1. CASE token \in SignedText
    BY <1>1, <1>2, <1>6, <2>1 DEF Expire, TokensInv, SignedText
  <2>2. CASE token \notin SignedText
    <3>1. PICK alg \in {"HS256", "none", "broken", "no"}, exp \in {"ahead", "past"} :
            token = Unsigned(alg, exp)
      BY <1>2, <2>2
    <3>2. token' = Unsigned(alg, "past")
      BY <1>6, <3>1 DEF Expire, Unsigned
    <3> QED
      BY <1>1, <1>2, <1>6, <3>2 DEF Expire, TokensInv
  <2> QED
    BY <2>1, <2>2
<1>7. ASSUME Mature
      PROVE  TokensInv'
  <2>1. token \in SignedText
    BY <1>2, <1>7 DEF Mature, Unsigned
  <2> QED
    BY <1>1, <1>2, <1>7, <2>1 DEF Mature, TokensInv, SignedText
<1>8. ASSUME NEW p \in Process, NEW v \in Verifier, JWKS(v, p)
      PROVE  TokensInv'
  BY <1>1, <1>2, <1>3, <1>8 DEF JWKS, TokensInv
<1>9. CASE UNCHANGED <<token, jwks>>
  BY <1>1, <1>2, <1>9 DEF TokensInv
<1> QED
  BY <1>4, <1>5, <1>6, <1>7, <1>8, <1>9 DEF TokensNext, tokenVars

(* Keys, tokens and caches are well formed.                                *)
THEOREM TokensInvariance == TokensSpec => []TokensInv
BY TokensInitInv, TokensStepInv, PTL DEF TokensSpec

(* What is wrong with a text decides its verdict.                          *)
LEMMA VerdictOf ==
  ASSUME NEW k, NEW t, NEW aud
  PROVE  LET errs == ParseErrors(k, t, aud)
             verdict == parseDualSign(k, t, aud)
         IN  /\ verdict \in {"ok", "token_expired", "unauthorized", "token_malformed"}
             /\ verdict = "ok" <=> errs = {}
             /\ verdict = "token_expired" <=> "expired" \in errs
             /\ verdict = "unauthorized" <=>
                  errs # {} /\ "expired" \notin errs /\ errs \cap Malformed = {}
BY DEF parseDualSign, Switch

(* What is wrong with a text of this key is what is wrong with its claims. *)
LEMMA OwnErrors ==
  ASSUME NEW k, NEW t, NEW aud, t.alg = "RS256", t.key = k
  PROVE  ParseErrors(k, t, aud) = {e \in JwtErrors : ClaimError(e, t, aud)}
BY DEF ParseErrors, allowedAlgs

(* An access token is told from a partial one by its audience, and by that *)
(* alone at VerifyAccess.                                                  *)
THEOREM KindsStayApart == TokensSpec => []KindsApart
<1> USE DEF JWTIssuer, AccessAudiences, AudienceAPI, AudiencePartial2FA
<1>1. ASSUME NEW k, NEW typ \in AccessTyp, NEW aud \in AccessAudiences
      PROVE  /\ ParseErrors(k, AccessClaims(k, typ), aud) = {}
             /\ "audience" \in ParseErrors(k, AccessClaims(k, typ), AudiencePartial2FA)
  <2>1. /\ AccessClaims(k, typ).alg = "RS256" /\ AccessClaims(k, typ).key = k
        /\ \A e \in JwtErrors : ~ClaimError(e, AccessClaims(k, typ), aud)
        /\ ClaimError("audience", AccessClaims(k, typ), AudiencePartial2FA)
    BY DEF JwtErrors, ClaimError, Mistyped, AccessClaims, Signed
  <2> QED
    BY <2>1, OwnErrors DEF JwtErrors
<1>2. ASSUME NEW k, NEW typ \in PartialTyp, NEW aud \in AccessAudiences
      PROVE  /\ ParseErrors(k, PartialClaims(k, typ), AudiencePartial2FA) = {}
             /\ "audience" \in ParseErrors(k, PartialClaims(k, typ), aud)
             /\ PartialClaims(k, typ).typ \in PartialTyp
  <2>1. /\ PartialClaims(k, typ).alg = "RS256" /\ PartialClaims(k, typ).key = k
        /\ PartialClaims(k, typ).typ = typ
        /\ \A e \in JwtErrors : ~ClaimError(e, PartialClaims(k, typ), AudiencePartial2FA)
        /\ ClaimError("audience", PartialClaims(k, typ), aud)
    BY DEF JwtErrors, ClaimError, Mistyped, PartialClaims, Signed
  <2> QED
    BY <2>1, OwnErrors DEF JwtErrors
<1>3. AudienceAPI \in AccessAudiences /\ AudiencePartial2FA # "" /\ "" \notin AccessAudiences
      /\ AudiencePartial2FA \notin AccessAudiences
  OBVIOUS
<1> USE DEF VerifyAccess, ParsePartialToken
<1> HIDE DEF AccessAudiences, AudienceAPI, AudiencePartial2FA, JWTIssuer
<1>4. ASSUME NEW p \in Serving, NEW typ \in AccessTyp, token = AccessClaims(proc[p].key, typ)
      PROVE  /\ \A aud \in AccessAudiences \cup {""} : VerifyAccess(p, token, aud) = "ok"
             /\ VerifyAccess(p, token, AudiencePartial2FA) # "ok"
             /\ ParsePartialToken(p, token) # "ok"
  <2>1. \A aud \in AccessAudiences :
          /\ parseDualSign(proc[p].key, token, aud) = "ok"
          /\ parseDualSign(proc[p].key, token, AudiencePartial2FA) # "ok"
    BY <1>1, <1>4, VerdictOf
  <2> QED
    BY <1>3, <2>1
<1>5. ASSUME NEW p \in Serving, NEW typ \in PartialTyp, token = PartialClaims(proc[p].key, typ)
      PROVE  /\ \A aud \in AccessAudiences \cup {""} : VerifyAccess(p, token, aud) # "ok"
             /\ VerifyAccess(p, token, AudiencePartial2FA) = "ok"
             /\ ParsePartialToken(p, token) = "ok"
  BY <1>2, <1>3, <1>5, VerdictOf
<1>6. KindsApart
  <2> HIDE DEF VerifyAccess, ParsePartialToken
  <2> QED
    BY <1>3, <1>4, <1>5 DEF KindsApart
<1> QED
  BY <1>6, PTL

(* A verdict says what the token is, the default's too.                    *)
THEOREM VerdictsAreTrue == TokensSpec => []VerdictsTell
<1>1. ASSUME TokensInv, NEW p \in Serving, NEW aud
      PROVE  LET errs == ParseErrors(proc[p].key, token, aud)
                 own == token.alg = "RS256" /\ token.key = proc[p].key
                 unready == token.nbf = "ahead" \/ Mistyped(token)
                 sound == /\ token.exp \in {"ahead", "mistyped"}
                          /\ token.iss \in {JWTIssuer, "mistyped"}
                          /\ token.aud \cap {aud, "mistyped"} # {}
             IN  /\ "expired" \in errs <=> own /\ token.exp = "past"
                 /\ errs = {} <=> own /\ sound /\ ~unready
                 /\ errs # {} /\ "expired" \notin errs /\ errs \cap Malformed = {} <=>
                      own /\ sound /\ unready
  <2> DEFINE errs == ParseErrors(proc[p].key, token, aud)
             named == {"missing", "audience", "issuer"}
  <2>1. CASE token \in SignedText /\ token.key = proc[p].key
    <3>1. /\ token.alg = "RS256" /\ token.exp \in {"ahead", "past", "none", "mistyped"}
          /\ token.iss \in {JWTIssuer, "another", "none", "mistyped"}
      BY <2>1 DEF SignedText
    <3>2. errs = {e \in JwtErrors : ClaimError(e, token, aud)}
      BY <2>1, <3>1, OwnErrors
    <3>3. "expired" \in errs <=> token.exp = "past"
      BY <3>2 DEF JwtErrors, ClaimError
    <3>4. /\ "not_yet" \in errs <=> token.nbf = "ahead"
          /\ "type" \in errs <=> Mistyped(token)
      BY <3>2 DEF JwtErrors, ClaimError
    <3>5. errs \cap Malformed = {} <=> ~("missing" \in errs \/ "audience" \in errs \/ "issuer" \in errs)
      BY <3>2 DEF JwtErrors, ClaimError, Malformed
    <3>6. /\ "missing" \in errs <=> token.exp = "none" \/ token.aud = {} \/ token.iss = "none"
          /\ "audience" \in errs <=> token.aud # {} /\ token.aud \cap {aud, "mistyped"} = {}
          /\ "issuer" \in errs <=> token.iss \notin {"none", "mistyped", JWTIssuer}
      BY <3>2 DEF JwtErrors, ClaimError
    <3>7. errs \cap Malformed = {} /\ "expired" \notin errs <=>
            /\ token.exp \in {"ahead", "mistyped"}
            /\ token.iss \in {JWTIssuer, "mistyped"}
            /\ token.aud \cap {aud, "mistyped"} # {}
      BY <3>1, <3>3, <3>5, <3>6 DEF JWTIssuer
    <3>8. errs = {} <=> errs \cap Malformed = {} /\ "expired" \notin errs
                        /\ "not_yet" \notin errs /\ "type" \notin errs
      BY <3>2 DEF JwtErrors, Malformed
    <3> HIDE DEF errs
    <3>9. /\ "expired" \in errs <=> token.exp = "past"
          /\ errs = {} <=> /\ token.exp \in {"ahead", "mistyped"}
                           /\ token.iss \in {JWTIssuer, "mistyped"}
                           /\ token.aud \cap {aud, "mistyped"} # {}
                           /\ ~(token.nbf = "ahead" \/ Mistyped(token))
          /\ errs # {} /\ "expired" \notin errs /\ errs \cap Malformed = {} <=>
                           /\ token.exp \in {"ahead", "mistyped"}
                           /\ token.iss \in {JWTIssuer, "mistyped"}
                           /\ token.aud \cap {aud, "mistyped"} # {}
                           /\ token.nbf = "ahead" \/ Mistyped(token)
      BY <3>3, <3>4, <3>7, <3>8
    <3> QED
      BY <2>1, <3>1, <3>9 DEF errs
  <2>2. CASE ~(token \in SignedText /\ token.key = proc[p].key)
    <3>1. \/ token.alg = "RS256" /\ token.key # proc[p].key
          \/ token.alg \in {"HS256", "none", "broken", "no"}
      BY <1>1, <2>2 DEF TokensInv, Unsigned, SignedText
    <3>2. \E e \in {"malformed", "unverifiable", "signature"} : e \in errs
      BY <3>1 DEF ParseErrors, JwtErrors, allowedAlgs
    <3>3. "expired" \notin errs
      BY <3>1 DEF ParseErrors
    <3> QED
      BY <3>1, <3>2, <3>3 DEF Malformed
  <2> QED
    BY <2>1, <2>2
<1>2. TokensInv => VerdictsTell
  BY <1>1, VerdictOf DEF VerdictsTell
<1> QED
  BY <1>2, TokensInvariance, PTL

(* Once everybody has one key they keep it.                                *)
LEMMA OneKeyStep ==
  ASSUME TokensInv, [TokensNext]_tokenVars, OneKey
  PROVE  OneKey' /\ file' = file
<1>1. IInv /\ [Next]_vars /\ file \in Key
  BY TokensStep DEF TokensInv, OneKey
<1>2. file' = file /\ Generating' = {}
  BY <1>1, SettledStep, KeyAssumption DEF OneKey
<1>3. Strays' = {} /\ \A p \in Serving : proc[p].key = file
  BY <1>1, StraysDrain, KeyAssumption DEF OneKey, Strays, Up, Serving, At
<1>4. ASSUME NEW v \in Verifier PROVE jwks'[v] \in {Absent, file}
  <2>1. CASE UNCHANGED jwks
    BY <2>1 DEF OneKey
  <2>2. ASSUME NEW p \in Process, NEW u \in Verifier, JWKS(u, p)
        PROVE  jwks'[v] \in {Absent, file}
    BY <1>3, <2>2 DEF JWKS, TokensInv, OneKey, Serving
  <2> QED
    BY <2>1, <2>2 DEF TokensNext, tokenVars, Mint, MintPartial2FA, Present, Expire, Mature
<1> QED
  BY <1>1, <1>2, <1>3, <1>4 DEF OneKey

(* The token followed stays, but for the passing of its times.             *)
LEMMA TokenStays ==
  ASSUME [TokensNext]_tokenVars, token \in SignedText
  PROVE  token' \in SignedText /\ token'.key = token.key
<1>1. token # NoToken
  BY DEF SignedText, NoToken, Unsigned
<1>2. CASE Expire \/ Mature
  BY <1>2 DEF Expire, Mature, SignedText
<1>3. CASE UNCHANGED token
  BY <1>3
<1> QED
  BY <1>1, <1>2, <1>3 DEF TokensNext, tokenVars, Mint, MintPartial2FA, Present, JWKS

(* And the tokens of that key are refused by nobody.                       *)
THEOREM TokensOutliveRestarts == TokensSpec => TokensLast
<1>1. ASSUME TokensInv, [TokensNext]_tokenVars, OneKey, token \in SignedText,
             token.key = file
      PROVE  OneKey' /\ ~Refused(token)'
  <2>1. OneKey' /\ token' \in SignedText /\ token'.key = file'
    BY <1>1, OneKeyStep, TokenStays
  <2>2. token'.alg = "RS256"
    BY <2>1 DEF SignedText
  <2> QED
    BY <2>1, <2>2 DEF OneKey, Strays, Up, At, Refused, Serving, ParseErrors, allowedAlgs,
       ClaimError
<1>2. TokensInv /\ [TokensNext]_tokenVars =>
        [OneKey /\ token \in SignedText /\ token.key = file =>
           OneKey' /\ ~Refused(token)']_tokenVars
  BY <1>1
<1> QED
  BY TokensInvariance, <1>2, PTL DEF TokensSpec, TokensLast
=============================================================================
