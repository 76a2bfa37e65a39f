# Formal models of viralefy-auth

TLA+ models of the authentication service in `src/`, the TLC configurations
that model-check them on small instances, and theorems about them that TLAPS
proves for every instance. The models are written from the Go code; where a
comment or the service's README disagrees with the code, the models follow the
code and the disagreement is a run of its own (section 7).

- Parse a module: `tlasany M.tla`
- Model-check: `tlc -workers 2 -config X.cfg M`
- Prove: `tlapm M.tla`

`PROJECT.json` maps each definition to the source lines it stands for and lists
the runs, the mutants, the hazards and the theorems.

## 1. The system

viralefy-auth is one Go process (possibly several replicas) behind HTTP. It
keeps nearly nothing in memory: requests are goroutines that meet in PostgreSQL.
No operation of the service but `TokenRevoke` opens a transaction, so every
statement commits alone and a request can be overtaken, or can die, between any
two of its statements.

| component | state | operations | what makes it correct |
|---|---|---|---|
| Refresh tokens and sessions (`token_service.go`, `refresh_token_repo.go`, `domain/token.go`) | table `refresh_tokens` | `mint`, `Refresh`, `Logout`, `RevokeBySubject` | a login has at most one usable token; a chain that has been ended stays ended; a deleted account drains |
| Access tokens and hot-set (`token_service.go`, `revoked_jti_repo.go`) | table `revoked_jtis`, signed tokens in the hands of clients, two clocks | `mint`, `VerifyAccess`, `Logout`, `TokenRevoke` | a revocation lasts as long as the token, but for the difference of the clocks |
| Login and password reset (`auth_service.go`, `password_reset_repo.go`, `user_repo.go`, `admin_repo.go`) | `password_hash`, table `password_resets`, partial tokens | `LoginUser`, `LoginAdmin`, `CompleteLogin2FA`, `RequestPasswordReset`, `ConfirmPasswordReset` | a reset is single-use; a confirmed reset cuts the old sessions off; a deleted account is shut |
| Second factor (`auth_service.go`, `twofa_repo.go`, `domain/twofa.go`) | tables `user_2fa`, `admin_2fa` | `Enroll2FA`, `Verify2FA`, `Disable2FA` and the logins that ask for a code | spent codes run dry; a replaced enrolment is dead; an enrolled account is asked for a code |
| Public rate limiter (`public_handlers.go`) | map of hits per address, time of the last sweep, a mutex | `Allow` | the limit of a window, denial only for what one did oneself, nobody is shut out for ever, bounded memory |
| Signing key (`jwtkeys/keys.go`) | the key file, a key in each process | `LoadOrGenerate` | a race for the file runs dry; the key in use survives restarts |
| Registration and accounts by e-mail (`auth_service.go`, `user_repo.go`, `admin_repo.go`) | tables `users`, `admins`, partial tokens | `RegisterUser`, the lookups of `LoginUser`, `LoginAdmin`, `CompleteLogin2FA` | one live user per e-mail, found however it is spelled; nobody is let in without the password of the moment |
| Token parsing and error classification (`token_service.go`) | the key of each process, JWKS kept by verifiers | `mint`, `MintPartial2FA`, `parseDualSign`, `ParsePartialToken`, `PublicJWKS` | kinds of tokens are told apart; verdicts are true; tokens outlive restarts |
| HTTP surface (`handlers.go`, `router.go`, `middleware.go`, `response.go`) | none | routing, JSON, status codes | |
| Passwords, TOTP (`password.go`, `totp.go`) | none | bcrypt, AES-GCM, HMAC | |
| Database pool, configuration, metrics, `main.go` | pool, counters | start-up and wiring | |

Interactions. Every login ends in `mint`. `Refresh` mints before it revokes the
token presented, and on a token that is not active calls `RevokeBySubject`;
`ConfirmPasswordReset` calls it too. `Logout` touches both `refresh_tokens` and
`revoked_jtis`. Other services of the platform (the core) own the accounts and
delete them behind this service's back, by `deleted_at` for users. The schema is
theirs too, with the unique index on live e-mails that `RegisterUser` relies on.

Hard behaviours. Interleaved requests on the same token, code or reset; values
read by one statement and used by a later one (the account, the two-factor row,
the clock); a crash, a cancelled context or a failed statement half way, whose
error is often dropped; a many-row `UPDATE` under READ COMMITTED, which sees
only the rows committed when it started; two clocks; a clock read before a
mutex is taken; two processes creating one file; verdicts on tokens that were
signed before a restart, or by somebody else. `PROJECT.json` lists these as
hazards at their lines.

## 2. Modules

| module | models | how |
|---|---|---|
| `RefreshTokens` | the statements on `refresh_tokens` | `owner`, `revoked`, `replacedBy`, `lapsed` are the columns; `IsActive`, `Create`, `Revoke`, `ActiveOf`, `RevokeAll` the queries |
| `Sessions` | `TokenService` over them | `req[r]` is the goroutine of a request: the label of its next statement and its locals; one action per statement, two for `RevokeBySubject` (the snapshot it works on, and its commit) |
| `SessionChains` | abstract: what a client can observe | a login has a chain with at most one live token; a refresh passes the life on; chains end and never come back |
| `Recovery` | logins, partial tokens and password reset over `Sessions` | extends `Sessions`; `form[r]` is what a request does besides session statements |
| `TwoFactor` | enrolment, verification, removal, logins that need a code | one `row` per account; `Verify2FA` reads it, compares its copy (`match`) and acts on it, in steps of their own; an enrolment names the secret and the backup codes drawn together |
| `ResetPromise` | abstract: what a password reset promises | extends `SessionChains` by tickets that are issued, claimed, redeemed, settled and over |
| `AccessTokens` | tokens, `revoked_jtis`, `VerifyAccess`, `Logout`, `TokenRevoke` | `now` is the processes' clock, the database's is any of `DBClock`, within `Skew` of it; `hot[j]` is `expires_at` of the row of `j`; callers of `TokenRevoke` send any expiry of `Asked` |
| `Accounts` | `RegisterUser` and what logins do before a session is opened | `email`, `password`, `deleted` are the columns of both tables; `req[r]` is the next statement and the locals of a request; an e-mail is a mailbox and a spelling |
| `Directory` | abstract: what the service promises of its accounts | a request is settled in one step, by the directory as it is then |
| `RateLimiter` | `ipRateLimiter` | times are ages, so the state is finite although time never ends; a slice is the tally of its readings by age; a call is `waiting` from its clock reading to the mutex; `Restart` is a new process |
| `JwtKeys` | `LoadOrGenerate` by several processes | `file` is missing, truncated, or holds a key; one action per file operation; `loaded` is between the return of `LoadOrGenerate` and the start of serving |
| `SignedTokens` | tokens and their parsing, over `JwtKeys` | one token, of any claims, is followed through mint, presentation, the coming of its nbf and expiry; `ParseErrors` is what golang-jwt joins into one error, `Switch` what the service makes of it; `jwks[v]` is what a verifier has cached |
| `MC...` | symmetry sets for TLC | |
| `...Proof` | theorems and proofs | |

Composition. `Sessions` extends `RefreshTokens` and implements `SessionChains`
under the refinement mapping `Chains`. `Recovery` extends `Sessions`: each of
its steps is a step of `Sessions` or leaves the sessions alone (theorem
`RecoveryKeepsSessions`), so what is proved of sessions holds with logins and
resets around. It implements `ResetPromise`, which extends `SessionChains`,
under the mapping `Promise`. `SignedTokens` extends `JwtKeys` and takes only steps that leave
it alone or are its own (`TokensLeaveKeysAlone`). `Accounts` implements
`Directory` under the mapping `Book`. `TwoFactor`, `AccessTokens` and `Accounts`
stand beside `Sessions`: the sessions they open are `BeginMint`, and the access
token of a session is not looked up through it anywhere in the code.

Abstractions. Tokens, hashes, codes and passwords are model values, compared
exactly; a hash that matches no row is refused and changes nothing. A token
expires by an action at any time (`Lapse`, `LapseReset`), except in
`AccessTokens` and `RateLimiter`, where arithmetic on time is the point. In
`TwoFactor` comparing a code with the row read before is a step of its own
(`Accept`), since the row may change meanwhile; in `Accounts` the password test
is part of the read, and an entry is dated at the read that decided it. A
partial token of `TwoFactor` is good from its issue on, its five minutes left
out: what holds for one that never expires holds for one that does (in `Accounts`
and `Recovery` it lapses, `LapsePartial`, at any time). `Recovery` treats all
accounts as it does users, whose rows stay when they are deleted: an admin's
login that does not find the row by its id just ends. In `Accounts` whether an account has
a second factor is left open (`Factor`); `TwoFactor` is about that. `Stop` of a module is all
that can end a request early: an error, a cancelled context, a crash. What
happens to answers on the way is left out: a client that lost its answer is
one that never presents the token. Variables marked as history in
their comments record what has happened for the properties and steer nothing.

## 3. Runs

Passing runs:

| run | bounds | shows |
|---|---|---|
| `sessions` | 3 tokens, 2 accounts, 2 requests | `OneLivePerLogin`, `EndedStaysEnded`, `GoneAccountDrains`; `Sessions` implements `SessionChains` (`ImplementsChains`); and `IInv`, which the proofs use |
| `recovery` | 2 tokens, 1 account, 2 resets, 2 requests | `ResetSingleUse`: concurrent or half-failed confirmations set a password once per reset; `ResetCutsOff`: when a confirmation answers, what was alive when the password changed is dead; `DeletedDrains`: a deleted account runs dry; `Recovery` implements `ResetPromise` (`ImplementsPromise`); `RecoveryInv` |
| `twofactor` | a user, an admin, 2 enrolments, 1 backup code, 2 requests | `SpentDrains`, `ReplacedDrains`, `EnrolledDrains`, `EnrolledShowedACode`, `IInv` |
| `access` | 2 tokens, 2 requests, a time to live of 2, the database ahead or behind by up to 1, 4 ticks, 5 expiries asked for | `RefusedButLastSkew` with verification, logout and forced revocation interleaved; `RowOutlivesToken`, which explains it |
| `limiter` | 2 addresses, 2 calls, 2 admissions per 3 ticks, sweeps after 1, calls wait for up to 1 tick, any number of restarts | `MapBounded`, `MapForgets`, `BurstBound`, `DeniedForOwnHits`, `IInv`, and under fairness `PersistentClientsGetIn` |
| `jwt_keys` | 3 processes, 3 keys, 1 verifier outside | `RaceDrains`, `SettledStays`; `KindsApart`, `VerdictsTell` for every combination of algorithm, key, issuer, audience, kind, expiry and nbf, claims of the wrong type included; `TokensLast`; `TokensInv` |
| `accounts` | 2 user rows, 1 admin, 1 e-mail in 2 spellings, 2 passwords, 2 requests | `RegisteredIsFound`, `EntryNeedsPassword`; `Accounts` implements `Directory` (`ImplementsDirectory`); `IInv` |

Runs whose property TLC must find violated are in section 7.

Why these bounds are enough to be interesting. A chain needs an old token, its
successor and one more, so that a refresh is overtaken by another refresh of
the same token: three tokens. The races of `Sessions` are between two requests:
two refreshes of one token, a refresh and a forced logout, a refresh and its
retry. `Recovery` has every order of two confirmations of the same reset or of
two resets, of a login or a reset and a deletion of the account, and
with two tokens the forced logout meets a login or a refresh under way. In `TwoFactor` an account must be enrolled twice for one enrolment
to be stale while a request still holds it, and an admin and a user differ. In
`AccessTokens` `MaxTime` exceeds the time to live, so a token is minted,
revoked, expires and is presented again; `Skew > 0` makes the row's expiry pass
for the database before or after the token's passes for the process; `Asked` has 0, which
is a body without the field, and expiries before, at and after every token's. In `RateLimiter`
ages are capped at `Horizon = Window + MaxWait`, beyond which no call can tell
them apart, so the run covers unbounded time; `MaxWait` bounds only how long the
mutex is waited for, less than a window (`ShortWaits`; 15 minutes in the
code). A key file is made by one process while a second finds it
missing and a third starts or crashes; the token followed is any token, so one
is enough. In `Accounts` two requests race for one e-mail, and with two rows it
is registered again after its first user is deleted, while a login to that one
is under way. The theorems of section 5 lift the bounds of all safety
properties.

Symmetry is used only in runs without liveness properties, over sets whose
members the model treats alike.

Deadlock is looked for in all runs except those of `Recovery` and `JwtKeys`.
A system with its only account deleted, all resets issued and nothing under way
really has nothing left to do; nor has one whose key file a crash
has left truncated, which no process can start with until somebody removes it.

Each property has a mutant in `PROJECT.json`: an operator beside the one it
replaces, that a plausible slip in the code would produce, with which the
property fails.

## 4. Fairness

Only `RateLimiter!FairSpec` assumes any: time passes (`Tick`), a waiting
call gets the mutex (`Enter`: Go's `sync.Mutex` hands the lock to a goroutine
starved for a millisecond), and a handler returns (`Return`: the code after
`Allow` is bounded by the request's context). Clients are under no fairness.
Restarts are under none either: `PersistentClientsGetIn` holds whether there are
finitely or infinitely many, because a new process has an empty map. Nothing
else in the service promises progress: every request may fail at any
statement, and no retry or background job completes it.

## 5. What is proved

| module | theorem | statement |
|---|---|---|
| `SessionsProof` | `Invariance`, `TypeCorrect`, `AtMostOneLive`, `EndedChainsStayEnded`, `GoneAccountsDrain` | the properties of `Sessions` |
| | `ServiceImplementsChains` | the refinement of `SessionChains` |
| `AccessTokensProof` | `TypeCorrect`, `RowsOutliveTokens`, `RevocationLasts` | for any time to live, any difference of the clocks, either way, and any expiries callers of `TokenRevoke` send |
| `RecoveryProof` | `RecoveryKeepsSessions`, `RecoveryOneLive` | logins and resets only take session steps, so what holds of `Sessions` holds with them around |
| | `RecoveryImplementsChains` | logins and resets refine `SessionChains`; ended chains stay ended |
| | `RecoveryInvariance`, `ResetsAreSingleUse`, `ConfirmedResetsCutOff`, `DeletedAccountsDrain` | the properties of `Recovery` |
| | `RecoveryImplementsPromise` | the refinement of `ResetPromise` |
| `TwoFactorProof` | `Invariance`, `EnrolledShowed`, `SpentCodesDrain`, `ReplacedEnrolmentsDrain`, `EnrolledAccountsDrain` | the properties of `TwoFactor` |
| `JwtKeysProof` | `Invariance`, `SettledFileStays`, `RacesDrain` | the properties of `JwtKeys` |
| `SignedTokensProof` | `TokensLeaveKeysAlone` | with tokens around, keys behave as in `JwtKeys` |
| | `TokensInvariance`, `KindsStayApart`, `VerdictsAreTrue`, `TokensOutliveRestarts` | the properties of `SignedTokens` |
| `AccountsProof` | `Invariance`, `RegisteredUsersAreFound`, `EntryTakesThePassword` | the properties of `Accounts` |
| | `ServiceImplementsDirectory` | the refinement of `Directory` |
| `RateLimiterProof` | `Invariance`, `MapStaysBounded`, `BurstIsBounded`, `DenialsAreEarned`, `AddressesAreForgotten` | the safety properties of `RateLimiter` |

They hold for every value of the constants that satisfies the module's
assumption: that `None` and the like are none of the values they are
distinguished from, the ranges of numbers, and for the limiter that no call
waits as long as a window for the mutex. Finiteness is assumed only of the
calls that can be inside `Allow` at once, which `BurstBound` counts.

The inductive invariants.

`Sessions!IInv`. That no login has two live tokens is not inductive: `Refresh`
has the row of a successor inserted while the old token is still good, and what
keeps the successor from the client is that the old one can be revoked once.
`RequestConsistent` ties a refresh's locals to the table, `PendingDistinct`
says no two refreshes hold the same successor, and `RowsConsistent` that what
is held or revoked is a row. `PendingFallTogether` is the delicate part. A
forced logout works on the rows it saw at its start, and a refresh may insert
its successor before or after that: as long as the old token is not revoked,
neither is the successor, and any purge that has chosen the successor has
chosen the old token too. So a refresh whose successor a purge has killed finds
its old token dead and answers with nothing. With a purge that chose the rows
one at a time, or only unexpired ones (the mutant `ActiveUnexpired`), it fails.

`Recovery!RecoveryInv`. Of the confirmations of one reset only one passes
`MarkUsed` (`OneSetter`), and it does so before the reset is applied. `Forcing`
says of a confirmation that has set its password that each token alive at that
moment is dead, or is still among the rows its forced logout has chosen or is
about to choose: a refresh may retire one meanwhile, but never revive it.
`OneForcer` says it is alone with its reset, which follows from `OneSetter` and
`applied` being inside `used`; `FormMatches` keeps what a request does besides
sessions in step with its session statements, without which a mint that answers
could not be told from a login's.

The refinement of `ResetPromise` uses all of it. A reset stands where its row and
the one confirmation past `MarkUsed` say (`StateOf`), so `OneSetter` and
`OneForcer` are what makes the mapping well defined: `OneTicket` and
`OnlyTicket` lift a change of one form to a change of one ticket. A step then is
one of four things: a change of no ticket, which is a step of `SessionChains` or
none (`QuietStep`); a ticket moved with sessions as they were (`IssueMaps`,
`LapseMaps`, `MarkMaps`, `RedeemMaps`, `StopMaps`); the commit of a forced logout,
which settles the ticket and ends every chain it condemned (`SettleMaps`, by
`Forcing`); or the end of the confirmation (`EndMaps`). A confirmation that dies
at any statement is `End`: the ticket is over, with the password changed or not,
and the condemned sessions alive or not, which is exactly what the code leaves.

`DeletedDrains` is an action property with three ways into an account at once
(a login under way, a partial token, a refresh that has read the account). None
is closed by the deletion, but each only feeds on the others and on what
`GetByEmail` and `AccountExists` let in: `StepDeleted` and `StepGone` are those
two halves.

`TwoFactor!IInv`. A row holds an enrolment of its own account and no code of it
that has been spent; what a verification carries between statements belongs to
its account, and is accepted once the comparison is over. So who reads the row
after a code is spent does not find it there (`SpentDrains`).
`EnrolledShowedACode` is inductive with it: the mark is reached with
a code accepted, whose enrolment keeps its account whatever row is there by then.

`AccessTokens!IInv`. A revoked jti has a row, and each row outlives its token or
was asked for shorter by the first caller of `TokenRevoke` (`shortened`): the first
insertion decides for all later ones. A row found expired by the database's clock
then means that the token has at most `Skew` ticks to live by the process's.

`JwtKeys!IInv`. What is about to be written, and what a process has come up with,
is a key. `RaceDrains` is an action property beside it: with a file there nobody
joins the race, and with the race over the key of whoever comes up is the file's. `SignedTokens!TokensInv`
adds that the token followed and what is cached have a type, which is all the
parsing needs: `ParseErrors` and `Switch` are evaluated for every token by cases
on what is wrong with it.

`Accounts!IInv`. `OneLivePerEmail` is what the unique index keeps, `RowsWhole`
that a row is never half there, `RequestConsistent` that a request which is let
in knows its account. The refinement needs no more: the step of the directory is
the insert, the lookup that finds the e-mail taken, or the read whose password
matched.

`RateLimiter!IInv`. With readings entered out of order the map may have lost an
admission that an older reading still counts, so `BurstBound` is not inductive.
For every window (`Span(end)`) either nothing of it has been pruned (`Whole`):
then it holds no more than the map, and the map no more than the limit. Or it
has been pruned by a call with a newer reading (`Overrun`): whoever is still to
be admitted into it is waiting now, with a reading at least that old, and is
not the one that pruned, so the limit and the calls but one bound it. A call
that enters with a reading inside the window uses up its own place among the
waiting; a tick moves the window, its admissions and its waiting calls alike.
The cardinalities are proved by injections between readings
(`SizeGrown`, `SizeShift`). `SinceSweep` is for `MapForgets`: what the last sweep
left was in its window, and has aged with it since; a call that finds the sweep
overdue makes one, so nothing outlives a window and an interval.

Only model-checked: `PersistentClientsGetIn`, which is liveness under fairness,
and the runs of section 7, which are counterexamples. Every other property of a
passing run is a theorem. Liveness, `ENABLED` and induction over data are out
of the prover's reach.

## 6. Why each property

- `OneLivePerLogin`, `EndedStaysEnded`: `Refresh` mints first and revokes
  afterwards, with no transaction. The affected-row test of `Revoke` is what
  both hang on.
- `GoneAccountDrains`: the account is read two statements before the answer.
- `ResetSingleUse`: the test of `used_at` at the lookup is only advisory.
- `ResetCutsOff`: holds of what was alive when the password changed; what was
  under way may live on (`force_logout`). A crash after the
  password is changed and before the forced logout leaves the old sessions
  alive with the reset used up: nothing resumes it, so the property speaks of
  confirmations that answer.
- `ImplementsPromise`: two confirmations of one reset, two resets of one account
  and a death at any statement, seen from outside: no ticket is ever claimed
  twice, comes back, or is reported done with a condemned session alive.
- `DeletedDrains`: a deletion stops nothing that is under way, and a partial token
  reopens the account for minutes (`CompleteLogin2FA` does not look at
  `deleted_at`).
- `RegisteredIsFound`: the check of `RegisterUser` is stale by the insert, its
  error is dropped, and e-mails are typed in any case; the index, the normal form
  and `deleted_at` must work together.
- `EntryNeedsPassword`: a password is compared several statements before the
  session is opened, and a partial token carries the outcome for five minutes.
  It says exactly what a reset or a deletion leaves: what was let in before.
- `KindsApart`: one key signs both kinds, each verifier asks for another audience,
  and `VerifyAccess` looks at nothing else: a partial token passes for an access
  token with a caller that asks for `viralefy-auth` (section 7), and with no other.
- `VerdictsTell`: golang-jwt joins several errors into one, of which the switch
  takes the first it knows and leaves the others to its default; each verdict is
  characterised, so a client is told to refresh exactly when its token is its
  own and expired.
- `RaceDrains`: two processes that find no file both make a key. It says what
  becomes of the race: nobody joins it once there is a file, the losers keep
  their keys until they end, and from the last write on nobody comes up with a
  key that the file does not have, however long start-up takes after the load.
- `TokensLast`: a start that mistakes an unreadable key file for a missing one
  would make everybody's tokens void.
- `SpentDrains`: array_remove of a hash, by requests that read the array
  earlier, against upserts that replace it. Those that read it before the removal
  may accept the code after it (`twofactor_once`); the property says nobody else.
- `EnrolledShowedACode`: what is left of the comment that section 7 refutes: an
  account is never locked behind a factor that nobody has shown.
- `RefusedButLastSkew`: a token is parsed by one clock and looked up by another,
  which may be ahead or behind. Expiry is judged by the process's clock: with the
  database ahead a revoked token is accepted in the last ticks of its life, as
  many as the clocks differ, and never before. What the property leaves out
  (`shortened`) is what a caller of `TokenRevoke` asks for by sending an expiry
  before the token's, or none.
- `DeniedForOwnHits`, `MapBounded`, `MapForgets`: the sweep of one call edits the
  hits of all addresses with its own clock reading; it must take all that is old,
  of addresses that never come again too, and nothing that counts. A refused call
  may have no admission in the window that ends with its own reading, when calls
  that read the clock after it were admitted before it.

## 7. Where comments and code differ

Each of these is a run that TLC must find violated; `PROJECT.json` quotes the lines.

| run | property | what the code does |
|---|---|---|
| `force_logout` | `ForceLogoutTotal` | a refresh that commits during `RevokeBySubject` keeps its session, although the comment calls forced logout total |
| `limiter_window` | `WindowLimit` | the clock is read before the lock, so a window may hold more admissions than the limit (`BurstBound` is what remains: one more per call that can wait) |
| `access_jti_only` | `RevokedMeansRefused` | `/token/revoke` with the documented body `{jti}` inserts a row that has already expired |
| `twofactor_once` | `BackupUsedOnce` | two verifications that read the row together both accept one backup code |
| `twofactor_verified` | `EnrolledWasVerified` | a re-enrolment between read and `MarkEnrolled` is marked enrolled, no code of it ever shown |

Others are plain to see in the code and need no run; the models have the
behaviour of the code:

- `auth_service.go:266`: the registration that loses the race for an e-mail gets
  the database's error, not the `ErrConflict` that a lookup would have given it,
  and so the status 500 instead of 409 (`Create`, second disjunct).
- `auth_service.go:269`: a registration whose mint fails has made the account; a
  retry is answered with a conflict (`End` at `mint`).
- The comments of `token_service.go` keep tokens signed with the legacy HS256
  secret valid, but `main.go:117` configures none, so they are refused
  (`ParseErrors`).
- `token_service.go:416` says a partial token cannot be used as an access token.
  `VerifyAccess` looks at the audience and not at `typ`, so a caller that asks for
  `viralefy-auth`, the audience of partial tokens, is told that one is valid.
  `KindsApart` states just that set of audiences, for both kinds of token.
- `revoked_jti_repo.go:41` compares the row with the database's clock: where that is
  ahead, a revoked token is accepted in the last ticks of its life
  (`RefusedButLastSkew` says how many).
- `token_service.go:494`: a token of this key with an nbf ahead, or with a claim of
  the wrong type, is answered with `ErrUnauthorized` and not with
  `ErrTokenMalformed` (`Switch`, `VerdictsTell`). The service mints neither.
- `token_service.go:379` revokes the old token with no successor, so
  `replaced_by_id` stays NULL (`Rotate`).
- `token_service.go:301` takes a token that merely expired for a replay and
  logs the account out everywhere (`RefreshReplay`).
- A password reset revokes no access token, whatever the comment at
  `token_service.go:385` says; a login or a refresh under way outlives it too.
- `auth_service.go:117` drops the error of reading the two-factor row, which
  then counts as no enrolment (`ReadFactor`, third disjunct).
- `CompleteLogin2FA` finds a user deleted since the password step (`FoundByID`).
- `PublicAdminEnroll2FA` replaces the complete enrolment of an admin who logs
  in (`BeginEnroll` does not look at the row).
- `jwtkeys/keys.go`: of two processes that start together without a key file
  the later one overwrites the key the other serves, or is about to serve, with.
  `RaceDrains` says how far that goes, `SettledStays` speaks of the time after.

Also documented and not in the code, hence in no model: the README's list of
endpoints gives 2FA removal a body with a code (none is read) and has an
endpoint for new backup codes (there is none), and names an `audit_log` the
service never writes.

## 8. Not modelled

- The HTTP surface (routing, JSON, status codes, the internal token, the client
  address): it keeps no state, and each handler that acts is part of the actions
  it starts.
- Password and TOTP arithmetic (bcrypt, AES-GCM, HMAC, random generation): pure
  functions over data that the models compare exactly. TOTP codes are not
  used-once in the code, and the model has them accepted any number of times.
- The pool and the schema assertion: a limit on connections delays statements
  and fails them, and any statement may fail here. `AssertSchema` reads table
  names once at start-up.
- Configuration, metrics, the order of start-up and the ten seconds of a
  shutdown: a request that is cut off, or a process that dies, is `Stop` or
  `End` in every module.
- The audit log of the README, for which there is no code.
- `last_used_at` columns and User-Agent, IP and role fields, which are written
  and never read back by a decision; name, phone and telegram of a user.

## 9. Plan

Done: `RefreshTokens`, `Sessions`, `SessionChains`; `AccessTokens`;
`RateLimiter`; `Recovery`, `ResetPromise`; `TwoFactor`; `JwtKeys`, `SignedTokens`; `Accounts`,
`Directory`; the proofs of section 5.

Next, in this order:

1. The second factor inside `Accounts` (`Factor` reads the row of `TwoFactor`),
   so that `EntryNeedsPassword` and `EnrolledDrains` speak of one login.
2. A process with its start-up order, its pool and its graceful shutdown over
   `JwtKeys`: a shutdown waits for connections in use beyond its ten seconds.
3. What a password reset leaves of access tokens: `Recovery` with `AccessTokens`.

An abstract specification of `TwoFactor` or `AccessTokens` would say no more
than `ReplacedDrains`, `EnrolledDrains` and `RefusedButLastSkew` do: the
decisions are single reads already.
