---------------------------- MODULE SignedTokens ----------------------------
(***************************************************************************)
(* The tokens that the key signs: what MintFor* and MintPartial2FA put in  *)
(* them, and what parseDualSign, VerifyAccess and ParsePartialToken of     *)
(* each process make of them, while processes start, race for the key      *)
(* file, crash and restart, and while verifiers outside cache the JWKS.    *)
(* One token is followed, any token; its revocation by jti is the matter   *)
(* of AccessTokens.                                                        *)
(***************************************************************************)
EXTENDS JwtKeys

CONSTANT Verifier   \* services that check signatures by themselves

VARIABLES
  token,   \* the token followed, NoToken before there is one
  jwks     \* the key each verifier has cached, Absent before it asked

tokenVars == <<vars, token, jwks>>

JWTIssuer == "viralefy-auth"
AudiencePartial2FA == "viralefy-auth"
AudienceAPI == "viralefy-api"
AccessAudiences == {AudienceAPI, "viralefy-core", "viralefy-payments", "viralefy-sender"}

allowedAlgs == {"RS256", "HS256"}

AccessTyp == {"user", "admin"}
PartialTyp == {"user_partial", "admin_partial"}

(***************************************************************************)
(* Texts that may be presented as tokens.  A claim may be missing (iss     *)
(* "none", exp "none", the empty aud) or be of the wrong type              *)
(* ("mistyped", as an element of aud too).  nbf is "met" when it is        *)
(* missing or past; no token of this service has one.                      *)
(***************************************************************************)
Signed(k, typ, aud) ==
  [alg |-> "RS256", key |-> k, iss |-> JWTIssuer, aud |-> aud, typ |-> typ,
   exp |-> "ahead", nbf |-> "met"]

AccessClaims(k, typ) == Signed(k, typ, AccessAudiences)

(* A partial token for whoever checks tokens: a mutant. *)
PartialForAll(k, typ) == Signed(k, typ, AccessAudiences \cup {AudiencePartial2FA})

PartialClaims(k, typ) == Signed(k, typ, {AudiencePartial2FA})

(* Tokens with the claims of other times and other services, signed with a *)
(* key of this one.                                                        *)
SignedText ==
  [alg : {"RS256"}, key : Key, iss : {JWTIssuer, "another", "none", "mistyped"},
   aud : {AccessAudiences, {AudiencePartial2FA}, {"another"}, {},
          AccessAudiences \cup {"mistyped"}},
   typ : AccessTyp \cup PartialTyp,
   exp : {"ahead", "past", "none", "mistyped"}, nbf : {"met", "ahead", "mistyped"}]

(* Tokens of the core's HS256, of no algorithm, and texts that are none.   *)
Unsigned(alg, exp) ==
  [alg |-> alg, key |-> Absent, iss |-> JWTIssuer, aud |-> AccessAudiences, typ |-> "user",
   exp |-> exp, nbf |-> "met"]

(* What anybody may present.  (Bound: one kind of account, parsing tells   *)
(* users from admins nowhere.)                                             *)
Text == {t \in SignedText : t.typ \in {"user", "user_partial"}}
          \cup {Unsigned(alg, "ahead") : alg \in {"HS256", "none", "broken"}}

NoToken == Unsigned("no", "ahead")

(***************************************************************************)
(* Parsing with the key k for the audience aud.  The library checks the    *)
(* algorithm, asks for the key, checks the signature, and then joins all   *)
(* that it finds wrong with the claims.                                    *)
(***************************************************************************)
JwtErrors == {"malformed", "unverifiable", "signature", "audience", "issuer", "missing",
              "expired", "not_yet", "type"}

Mistyped(t) == "mistyped" \in {t.exp, t.nbf, t.iss} \cup t.aud

ClaimError(e, t, aud) ==
  \/ e = "missing" /\ (t.exp = "none" \/ t.aud = {} \/ t.iss = "none")
  \/ e = "expired" /\ t.exp = "past"
  \/ e = "not_yet" /\ t.nbf = "ahead"
  \/ e = "audience" /\ t.aud # {} /\ t.aud \cap {aud, "mistyped"} = {}
  \/ e = "issuer" /\ t.iss \notin {"none", "mistyped", JWTIssuer}
  \/ e = "type" /\ Mistyped(t)

(* With no legacy secret configured the key function refuses HS256.        *)
ParseErrors(k, t, aud) ==
  {e \in JwtErrors :
     \/ e = "malformed" /\ t.alg = "broken"
     \/ e = "signature" /\ t.alg \notin allowedAlgs \cup {"broken"}
     \/ e = "unverifiable" /\ t.alg = "HS256"
     \/ e = "signature" /\ t.alg = "RS256" /\ t.key # k
     \/ ClaimError(e, t, aud) /\ t.alg = "RS256" /\ t.key = k}

(* A switch without ErrTokenRequiredClaimMissing: a mutant. *)
MalformedShort == {"malformed", "unverifiable", "signature", "audience", "issuer"}

(* The errors that parseDualSign calls malformed.                          *)
Malformed == {"malformed", "unverifiable", "signature", "audience", "issuer", "missing"}

(* The switch of parseDualSign.  The default is for what it does not name: *)
(* ErrTokenNotValidYet and ErrInvalidType.                                 *)
Switch(errs) ==
  CASE errs = {}           -> "ok"
    [] "expired" \in errs  -> "token_expired"
    [] "expired" \notin errs /\ errs \cap Malformed # {} -> "token_malformed"
    [] OTHER               -> "unauthorized"

parseDualSign(k, t, aud) == Switch(ParseErrors(k, t, aud))

VerifyAccess(p, t, aud) ==
  parseDualSign(proc[p].key, t, IF aud = "" THEN AudienceAPI ELSE aud)

ParsePartialToken(p, t) ==
  LET verdict == parseDualSign(proc[p].key, t, AudiencePartial2FA)
  IN  IF verdict = "ok" /\ t.typ \notin PartialTyp THEN "unauthorized" ELSE verdict

(***************************************************************************)
(* Steps.                                                                  *)
(***************************************************************************)
TokensInit == Init /\ token = NoToken /\ jwks = [v \in Verifier |-> Absent]

(* MintForUser, MintForAdmin. *)
Mint(p, typ) ==
  /\ At(p, "serving") /\ token = NoToken
  /\ token' = AccessClaims(proc[p].key, typ)
  /\ UNCHANGED <<vars, jwks>>

MintPartial2FA(p, typ) ==
  /\ At(p, "serving") /\ token = NoToken
  /\ token' = PartialClaims(proc[p].key, typ)
  /\ UNCHANGED <<vars, jwks>>

Present(t) ==
  /\ token = NoToken /\ t.key \in drawn \cup {Absent}
  /\ token' = t
  /\ UNCHANGED <<vars, jwks>>

Expire ==
  /\ token # NoToken /\ token.exp = "ahead"
  /\ token' = [token EXCEPT !.exp = "past"]
  /\ UNCHANGED <<vars, jwks>>

(* nbf comes, for a token that has one ahead.                              *)
Mature ==
  /\ token.nbf = "ahead"
  /\ token' = [token EXCEPT !.nbf = "met"]
  /\ UNCHANGED <<vars, jwks>>

(* GET /.well-known/jwks.json of one of the processes, kept by the asker.  *)
JWKS(v, p) ==
  /\ At(p, "serving")
  /\ jwks' = [jwks EXCEPT ![v] = proc[p].key]
  /\ UNCHANGED <<vars, token>>

TokensNext ==
  \/ Next /\ UNCHANGED <<token, jwks>>
  \/ \E p \in Process :
       \/ \E typ \in AccessTyp : Mint(p, typ)
       \/ \E typ \in PartialTyp : MintPartial2FA(p, typ)
       \/ \E v \in Verifier : JWKS(v, p)
  \/ \E t \in Text : Present(t)
  \/ Expire \/ Mature

TokensSpec == TokensInit /\ [][TokensNext]_tokenVars

(***************************************************************************)
(* Properties.                                                             *)
(***************************************************************************)
Serving == {p \in Process : At(p, "serving")}

(* What a token minted here is taken for, by every process with its key:   *)
(* an access token by the verification for any of its consumers and for    *)
(* callers that name none, but neither for viralefy-auth nor for a login's *)
(* second step; a partial token for the second step, and by no             *)
(* verification for a consumer.  It is told apart by its audience alone:   *)
(* VerifyAccess looks at no typ, so that a caller who asks it for          *)
(* viralefy-auth, and only that one, is told that a partial token is a     *)
(* valid access token, contrary to the comment at token_service.go:416.    *)
KindsApart ==
  \A p \in Serving : \A typ \in AccessTyp \cup PartialTyp :
    LET auds == AccessAudiences \cup {AudiencePartial2FA, ""}
        asAccess == {aud \in auds : VerifyAccess(p, token, aud) = "ok"}
        asPartial == ParsePartialToken(p, token) = "ok"
    IN  /\ token = AccessClaims(proc[p].key, typ) /\ typ \in AccessTyp =>
             asAccess = AccessAudiences \cup {""} /\ ~asPartial
        /\ token = PartialClaims(proc[p].key, typ) /\ typ \in PartialTyp =>
             asAccess = {AudiencePartial2FA} /\ asPartial

(* Verdicts tell the truth, whatever else is wrong with a token.  Accepted *)
(* are the tokens of this issuer and key that are right in every claim.    *)
(* Expired, which tells a client to refresh its session, is said of those  *)
(* that this key signed and whose expiry is past, and of no others.  The   *)
(* default of the switch is left to tokens of this key that are not valid  *)
(* yet or have a claim of the wrong type, with nothing else wrong; all the *)
(* rest is malformed.                                                      *)
VerdictsTell ==
  \A p \in Serving : \A aud \in AccessAudiences \cup {AudiencePartial2FA} :
    LET verdict == parseDualSign(proc[p].key, token, aud)
        own == token.alg = "RS256" /\ token.key = proc[p].key
        unready == token.nbf = "ahead" \/ Mistyped(token)
        sound == /\ token.exp \in {"ahead", "mistyped"}
                 /\ token.iss \in {JWTIssuer, "mistyped"}
                 /\ token.aud \cap {aud, "mistyped"} # {}
    IN  /\ verdict = "ok" <=> own /\ sound /\ ~unready
        /\ verdict = "token_expired" <=> own /\ token.exp = "past"
        /\ verdict = "unauthorized" <=> own /\ sound /\ unready
        /\ verdict \in {"ok", "token_expired", "unauthorized", "token_malformed"}

(* One key for everybody: settled in the file, used by all who are up,     *)
(* cached by all who cache.                                                *)
OneKey ==
  /\ file \in Key /\ Generating = {}
  /\ Strays = {}
  /\ \A v \in Verifier : jwks[v] \in {Absent, file}

Refused(t) ==
  \/ \E p \in Serving : "signature" \in ParseErrors(proc[p].key, t, AudienceAPI)
  \/ \E v \in Verifier : jwks[v] \notin {Absent, t.key}

(* Tokens last: once everybody has one key, a token that it signed is      *)
(* refused by nobody for its signature, through all restarts and crashes   *)
(* and however long a JWKS is cached, until it expires.  A start that      *)
(* fails to read the file does not make a new key.  ("Falhas de            *)
(* leitura/parse retornam erro (não silenciam pra evitar regerar chave e   *)
(* invalidar tokens emitidos).")                                           *)
TokensLast ==
  [][OneKey /\ token \in SignedText /\ token.key = file => OneKey' /\ ~Refused(token)']_tokenVars

(* Inductive: JwtKeys' invariant, and the types of the token and the JWKS. *)
TokensInv ==
  /\ IInv
  /\ \/ token \in SignedText
     \/ \E alg \in {"HS256", "none", "broken", "no"}, exp \in {"ahead", "past"} :
          token = Unsigned(alg, exp)
  /\ jwks \in [Verifier -> Key \cup {Absent}]
=============================================================================
