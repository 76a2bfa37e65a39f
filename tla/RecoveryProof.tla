---------------------------- MODULE RecoveryProof ----------------------------
(***************************************************************************)
(* Proofs about Recovery, for any sets of accounts, tokens, requests and   *)
(* resets: it only adds to Sessions, so what is proved there still holds   *)
(* with logins and resets around, and a reset is used once.                *)
(***************************************************************************)
EXTENDS Recovery, SessionsProof

(* The part that does not need the forced logout. *)
RInv == IInv /\ RecoveryCore

LEMMA InitRInv == RecoveryInit => RInv
<1> SUFFICES ASSUME RecoveryInit PROVE RInv
  OBVIOUS
<1>1. IInv
  BY InitIInv DEF RecoveryInit
<1>2. RecoveryCore
  BY <1>1 DEF RecoveryInit, RecoveryCore, RecoveryTypeOK, IInv, NoForm, FormOf,
     FormType, FormLabels, Password, AppliedUsed, OneSetter, FormConsistent, InForm
<1> QED
  BY <1>1, <1>2 DEF RInv

(* Every step is one of Sessions, or none of its business.                 *)
LEMMA StepSessions == RInv /\ [RecoveryNext]_rvars => [Next]_vars
<1> SUFFICES ASSUME RInv, [RecoveryNext]_rvars PROVE [Next]_vars
  OBVIOUS
<1>1. ASSUME NEW r \in Request,
             \/ \E s \in Subject : RequestReset(r, s)
             \/ \E k \in Reset : IssueReset(r, k) \/ ConfirmLookup(r, k)
             \/ \E s \in Subject : LoginPartial(r, s)
             \/ MintPartial2FA(r) \/ MarkUsed(r) \/ StopForm(r)
      PROVE  UNCHANGED vars
  BY <1>1 DEF RequestReset, IssueReset, ConfirmLookup, LoginPartial, MintPartial2FA,
     MarkUsed, StopForm
<1>2. ASSUME \/ \E s \in Subject : LapsePartial(s)
             \/ \E k \in Reset : LapseReset(k)
             \/ UNCHANGED rvars
      PROVE  UNCHANGED vars
  BY <1>2 DEF LapsePartial, LapseReset, rvars
<1>3. ASSUME NEW r \in Request, NEW s \in Subject, LoginMint(r, s)
      PROVE  Next
  BY <1>3 DEF LoginMint, Next
<1>4. ASSUME NEW r \in Request, SetPassword(r)
      PROVE  [Next]_vars
  <2>1. form[r].subj \in Subject
    BY <1>4 DEF RInv, RecoveryCore, FormConsistent, SetPassword, InForm
  <2> QED
    BY <1>4, <2>1 DEF SetPassword, Next
<1>5. ASSUME NEW r \in Request, PurgeStep(r) \/ RefreshStep(r)
      PROVE  Next
  BY <1>5 DEF PurgeStep, RefreshStep, Next
<1>6. ASSUME NEW r \in Request, NEW t \in Token, MintStep(r, t)
      PROVE  Next
  BY <1>6 DEF MintStep, Next
<1>7. CASE OutsideStep
  BY <1>7 DEF OutsideStep, Next
<1>8. ASSUME NEW r \in Request, NEW s \in Subject, CompleteLogin(r, s)
      PROVE  Next
  BY <1>8 DEF CompleteLogin, Next
<1> QED
  BY <1>1, <1>2, <1>3, <1>4, <1>5, <1>6, <1>7, <1>8 DEF RecoveryNext, RequestStep

LEMMA StepRInv == RInv /\ [RecoveryNext]_rvars => RInv'
<1> SUFFICES ASSUME RInv, [RecoveryNext]_rvars PROVE RInv'
  OBVIOUS
<1>1. IInv'
  BY StepSessions, StepIInv DEF RInv
<1>2. TypeOK /\ TypeOK'
  BY <1>1 DEF RInv, IInv
<1> USE <1>2, NoneAssumption, ResetAssumption
    DEF RInv, RecoveryCore, RecoveryTypeOK, FormType, FormLabels, FormOf, NoForm,
        Password, AppliedUsed, OneSetter, FormConsistent, InForm, Close
<1>3. ASSUME NEW r \in Request, NEW s \in Subject, LoginMint(r, s)
      PROVE  RecoveryCore'
  BY <1>3 DEF LoginMint
<1>4. ASSUME NEW r \in Request, NEW s \in Subject, CompleteLogin(r, s)
      PROVE  RecoveryCore'
  BY <1>4 DEF CompleteLogin
<1>5. ASSUME NEW r \in Request, NEW s \in Subject, RequestReset(r, s)
      PROVE  RecoveryCore'
  BY <1>5 DEF RequestReset
<1>6. ASSUME NEW r \in Request, NEW k \in Reset, IssueReset(r, k)
      PROVE  RecoveryCore'
  BY <1>6 DEF IssueReset
<1>7. ASSUME NEW r \in Request, NEW k \in Reset, ConfirmLookup(r, k)
      PROVE  RecoveryCore'
  BY <1>7 DEF ConfirmLookup
<1>8. ASSUME NEW r \in Request, MarkUsed(r)
      PROVE  RecoveryCore'
  BY <1>8 DEF MarkUsed, MarkUsable
<1>9. ASSUME NEW r \in Request, SetPassword(r)
      PROVE  RecoveryCore'
  <2> DEFINE alive == {t \in Live : owner[t] = form[r].subj}
  <2>1. alive \subseteq Token
    BY DEF Live, TypeOK
  <2>2. CASE form[r].subj \in gone
    BY <1>9, <2>2 DEF SetPassword, HasPassword
  <2>3. CASE form[r].subj \notin gone
    <3> HIDE DEF alive
    <3>1. /\ password' = [password EXCEPT ![form[r].subj] = form[r].reset]
          /\ applied' = applied \cup {form[r].reset}
          /\ form' = [form EXCEPT ![r] = [@ EXCEPT !.pc = "force", !.before = alive]]
          /\ UNCHANGED <<resetOf, used, lapsed, partial>>
          /\ form[r].pc = "set"
      BY <1>9, <2>3 DEF SetPassword, HasPassword, alive
    <3>2. form'[r].pc = "force" /\ \A q \in Request : q # r => form'[q] = form[q]
      BY <3>1
    <3>3. RecoveryTypeOK'
      <4>1. form[r] \in FormType /\ form[r].subj \in Subject /\ form[r].reset \in Reset
        BY <3>1
      <4>2. form' \in [Request -> FormType]
        BY <2>1, <3>1, <4>1
      <4>3. password' \in [Subject -> Password] /\ applied' \subseteq Reset
        BY <3>1, <4>1
      <4> QED
        BY <3>1, <4>2, <4>3
    <3>4. AppliedUsed' /\ OneSetter'
      BY <3>1, <3>2
    <3>5. \A q \in Request : FormConsistent(q)'
      BY <3>1, <3>2
    <3> QED
      BY <3>3, <3>4, <3>5
  <2> QED
    BY <2>2, <2>3
<1>10. ASSUME NEW r \in Request, StopForm(r)
       PROVE  RecoveryCore'
  BY <1>10 DEF StopForm
<1>11. ASSUME NEW r \in Request, NEW t \in Token, MintStep(r, t)
       PROVE  RecoveryCore'
  BY <1>11 DEF MintStep, CloseIfDone
<1>12. ASSUME NEW r \in Request, PurgeStep(r)
       PROVE  RecoveryCore'
  BY <1>12 DEF PurgeStep, CloseIfDone
<1>13. ASSUME \/ \E r \in Request : RefreshStep(r)
              \/ OutsideStep
              \/ UNCHANGED rvars
       PROVE  RecoveryCore'
  BY <1>13 DEF RefreshStep, OutsideStep, recoveryVars, rvars
<1>14. ASSUME NEW r \in Request,
              (\E s \in Subject : LoginPartial(r, s)) \/ MintPartial2FA(r)
       PROVE  RecoveryCore'
  BY <1>14 DEF LoginPartial, MintPartial2FA
<1>15. ASSUME NEW k \in Reset, LapseReset(k)
       PROVE  RecoveryCore'
  BY <1>15 DEF LapseReset
<1>16. ASSUME NEW s \in Subject, LapsePartial(s)
       PROVE  RecoveryCore'
  BY <1>16 DEF LapsePartial
<1> HIDE DEF RInv, RecoveryCore, RecoveryTypeOK, FormType, FormLabels, FormOf, NoForm,
             Password, AppliedUsed, OneSetter, FormConsistent, InForm, Close
<1>17. RecoveryCore'
  BY <1>3, <1>4, <1>5, <1>6, <1>7, <1>8, <1>9, <1>10, <1>11, <1>12, <1>13,
     <1>14, <1>15, <1>16 DEF RecoveryNext, RequestStep
<1> QED
  BY <1>1, <1>17 DEF RInv

(* Logins, resets and their failures leave the sessions to Sessions, so    *)
(* every theorem about Spec holds of RecoverySpec.                         *)
THEOREM RecoveryKeepsSessions == RecoverySpec => Spec
<1>1. RecoveryInit => Init
  BY DEF RecoveryInit
<1> QED
  BY <1>1, InitRInv, StepRInv, StepSessions, PTL DEF RecoverySpec, Spec

(* A reset token sets a password at most once, whatever confirmations of   *)
(* it overlap or die half way.                                             *)
THEOREM ResetsAreSingleUse == RecoverySpec => ResetSingleUse
<1>1. ASSUME RInv, [RecoveryNext]_rvars
      PROVE  \A s \in Subject :
               password'[s] # password[s] => password'[s] \notin applied
  <2>1. ASSUME NEW r \in Request, SetPassword(r)
        PROVE  \A s \in Subject :
                 password'[s] # password[s] => password'[s] \notin applied
    BY <1>1, <2>1
    DEF RInv, RecoveryCore, RecoveryTypeOK, OneSetter, InForm, SetPassword
  <2>2. CASE ~(\E r \in Request : SetPassword(r))
    <3>1. password' = password
      BY <1>1, <2>2 DEF RecoveryNext, RequestStep, LoginMint, CompleteLogin, RequestReset,
         IssueReset, ConfirmLookup, MarkUsed, StopForm, MintStep, RefreshStep,
         PurgeStep, OutsideStep, LoginPartial, MintPartial2FA, LapsePartial, LapseReset,
         recoveryVars, rvars
    <3> QED
      BY <3>1
  <2> QED
    BY <2>1, <2>2
<1> QED
  BY InitRInv, StepRInv, <1>1, PTL DEF RecoverySpec, ResetSingleUse

(* A session step keeps the rows, whose they are, and what is revoked.     *)
LEMMA RowsStay ==
  ASSUME IInv, [Next]_vars
  PROVE  revoked \subseteq revoked' /\ \A t \in Rows : t \in Rows' /\ owner'[t] = owner[t]
<1> USE DEF IInv, TypeOK, TableTypeOK, Rows
<1>1. ASSUME NEW t \in Token, NEW s \in Subject \cup {None}, Create(t, s)
      PROVE  revoked \subseteq revoked' /\ \A u \in Rows : u \in Rows' /\ owner'[u] = owner[u]
  BY <1>1 DEF Create
<1>2. ASSUME NEW r \in Request, NEW t \in Token, MintLogin(r, t) \/ MintRefresh(r, t)
      PROVE  revoked \subseteq revoked' /\ \A u \in Rows : u \in Rows' /\ owner'[u] = owner[u]
  <2>1. req[r].subj \in Subject \cup {None}
    BY DEF RequestType
  <2> QED
    BY <1>1, <1>2, <2>1 DEF MintLogin, MintRefresh
<1>3. ASSUME owner' = owner, revoked \subseteq revoked'
      PROVE  revoked \subseteq revoked' /\ \A u \in Rows : u \in Rows' /\ owner'[u] = owner[u]
  BY <1>3
<1>4. ASSUME NEW r \in Request,
             \/ \E s \in Subject : BeginMint(r, s) \/ BeginPurge(r, s)
             \/ \E t \in Token : RefreshActive(r, t) \/ RefreshReplay(r, t)
             \/ RefreshAccount(r) \/ PurgeSnapshot(r) \/ Stop(r)
      PROVE  owner' = owner /\ revoked \subseteq revoked'
  BY <1>4 DEF BeginMint, BeginPurge, RefreshActive, RefreshReplay, RefreshAccount,
     PurgeSnapshot, Stop, tableVars
<1>5. ASSUME NEW r \in Request, Rotate(r) \/ PurgeCommit(r)
      PROVE  owner' = owner /\ revoked \subseteq revoked'
  BY <1>5 DEF Rotate, PurgeCommit, Revoke, RevokeAll, tableVars
<1>6. ASSUME \/ \E t \in Token : Logout(t) \/ Expire(t)
             \/ \E s \in Subject : DeleteAccount(s)
             \/ UNCHANGED vars
      PROVE  owner' = owner /\ revoked \subseteq revoked'
  BY <1>6 DEF Logout, Revoke, Expire, Lapse, DeleteAccount, vars, tableVars
<1> QED
  BY <1>2, <1>3, <1>4, <1>5, <1>6 DEF Next

(* No step takes back that a reset was used or has set a password, or      *)
(* gives it to another account.                                            *)
LEMMA ResetsStay ==
  ASSUME RInv, [RecoveryNext]_rvars
  PROVE  /\ used \subseteq used' /\ applied \subseteq applied'
         /\ \A k \in Reset : resetOf[k] # None => resetOf'[k] = resetOf[k]
<1> DEFINE Stays == /\ used \subseteq used' /\ applied \subseteq applied'
                    /\ \A k \in Reset : resetOf[k] # None => resetOf'[k] = resetOf[k]
<1>1. resetOf \in [Reset -> Subject \cup {None}]
  BY DEF RInv, RecoveryCore, RecoveryTypeOK
<1>2. ASSUME UNCHANGED <<resetOf, used, applied>> PROVE Stays
  BY <1>2
<1>3. ASSUME NEW r \in Request,
             \/ \E s \in Subject : \/ LoginMint(r, s) \/ LoginPartial(r, s)
                                   \/ CompleteLogin(r, s) \/ RequestReset(r, s)
             \/ \E k \in Reset : ConfirmLookup(r, k)
             \/ MintPartial2FA(r) \/ StopForm(r)
             \/ \E t \in Token : MintStep(r, t)
             \/ RefreshStep(r) \/ PurgeStep(r)
      PROVE  UNCHANGED <<resetOf, used, applied>>
  BY <1>3 DEF LoginMint, LoginPartial, CompleteLogin, RequestReset, ConfirmLookup,
     MintPartial2FA, StopForm, MintStep, RefreshStep, PurgeStep, recoveryVars
<1>4. ASSUME \/ \E s \in Subject : LapsePartial(s)
             \/ \E k \in Reset : LapseReset(k)
             \/ OutsideStep
             \/ UNCHANGED rvars
      PROVE  UNCHANGED <<resetOf, used, applied>>
  BY <1>4 DEF LapsePartial, LapseReset, OutsideStep, recoveryVars, rvars
<1>5. ASSUME NEW r \in Request, NEW k \in Reset, IssueReset(r, k) PROVE Stays
  BY <1>1, <1>5 DEF IssueReset
<1>6. ASSUME NEW r \in Request, MarkUsed(r) PROVE Stays
  BY <1>6 DEF MarkUsed
<1>7. ASSUME NEW r \in Request, SetPassword(r) PROVE Stays
  BY <1>7 DEF SetPassword
<1> HIDE DEF Stays
<1>8. Stays
  BY <1>2, <1>3, <1>4, <1>5, <1>6, <1>7 DEF RecoveryNext, RequestStep
<1> QED
  BY <1>8 DEF Stays

(* A request that keeps its locals goes on forcing, whatever others do.    *)
LEMMA ForcingStays ==
  ASSUME RInv, [RecoveryNext]_rvars, NEW r \in Request, Forcing(r),
         form'[r] = form[r], req'[r] = req[r]
  PROVE  Forcing(r)'
<1>1. IInv /\ [Next]_vars /\ form[r] \in FormType
  BY StepSessions DEF RInv, RecoveryCore, RecoveryTypeOK
<1>2. ASSUME InForm(r, "force")
      PROVE  /\ form[r].reset \in applied' /\ resetOf'[form[r].reset] = req[r].subj
  <2>1. form[r].reset \in applied /\ resetOf[form[r].reset] = req[r].subj
    BY <1>2 DEF Forcing
  <2>2. form[r].reset \in Reset /\ resetOf[form[r].reset] # None
    BY <2>1 DEF RInv, RecoveryCore, RecoveryTypeOK, AppliedUsed
  <2> QED
    BY <2>1, <2>2, ResetsStay
<1> QED
  BY <1>1, <1>2, RowsStay DEF Forcing, InForm, At

LEMMA StepForcing ==
  RInv /\ (\A r \in Request : Forcing(r)) /\ [RecoveryNext]_rvars
    => (\A r \in Request : Forcing(r))'
<1> SUFFICES ASSUME RInv, \A r \in Request : Forcing(r), [RecoveryNext]_rvars,
                    NEW q \in Request
             PROVE  Forcing(q)'
  OBVIOUS
<1>1. IInv /\ [Next]_vars /\ TypeOK /\ RecoveryTypeOK
  BY StepSessions DEF RInv, RecoveryCore, IInv
<1>2. /\ req \in [Request -> RequestType]
      /\ form \in [Request -> FormType]
  BY <1>1 DEF TypeOK, RecoveryTypeOK
<1>3. ASSUME form'[q] = form[q], req'[q] = req[q] PROVE Forcing(q)'
  BY <1>3, ForcingStays
<1>4. ASSUME form'[q].pc # "force" PROVE Forcing(q)'
  BY <1>4 DEF Forcing, InForm
<1>5. ASSUME NEW r \in Request,
             \/ \E s \in Subject : \/ LoginMint(r, s) \/ CompleteLogin(r, s)
                                   \/ RequestReset(r, s) \/ LoginPartial(r, s)
             \/ \E k \in Reset : IssueReset(r, k) \/ ConfirmLookup(r, k)
             \/ MintPartial2FA(r) \/ MarkUsed(r) \/ StopForm(r)
      PROVE  Forcing(q)'
  <2>1. CASE q = r
    <3>1. form'[q].pc # "force"
      BY <1>2, <1>5, <2>1 DEF LoginMint, CompleteLogin, RequestReset, IssueReset,
         ConfirmLookup, LoginPartial, MintPartial2FA, MarkUsed, StopForm, Close, FormOf, NoForm, FormType
    <3> QED
      BY <1>4, <3>1
  <2>2. CASE q # r
    <3>1. form'[q] = form[q] /\ req'[q] = req[q]
      BY <1>2, <1>5, <2>2 DEF LoginMint, CompleteLogin, RequestReset, IssueReset,
         ConfirmLookup, LoginPartial, MintPartial2FA, MarkUsed, StopForm, Close, BeginMint, Start, vars, sessionVars
    <3> QED
      BY <1>3, <3>1
  <2> QED
    BY <2>1, <2>2
<1>6. ASSUME NEW r \in Request, SetPassword(r)
      PROVE  Forcing(q)'
  <2>1. CASE q # r
    <3>1. form'[q] = form[q] /\ req'[q] = req[q]
      BY <1>2, <1>6, <2>1 DEF SetPassword, Close, BeginPurge, Start, vars, sessionVars
    <3> QED
      BY <1>3, <3>1
  <2>2. CASE q = r /\ ~HasPassword(form[r].subj)
    <3>1. form'[q].pc # "force"
      BY <1>2, <1>6, <2>2 DEF SetPassword, Close, NoForm, FormOf
    <3> QED
      BY <1>4, <3>1
  <2>3. CASE q = r /\ HasPassword(form[r].subj)
    <3> DEFINE alive == {t \in Live : owner[t] = form[r].subj}
    <3>1. \A t \in alive : t \in Rows /\ owner[t] = form[r].subj
      BY <1>1 DEF Live, IInv, RowsConsistent
    <3>2. form' = [form EXCEPT ![r] = [@ EXCEPT !.pc = "force", !.before = alive]]
      BY <1>6, <2>3 DEF SetPassword
    <3>3. req' = [req EXCEPT ![r] = Locals("purge", form[r].subj, None)]
      BY <1>6, <2>3 DEF SetPassword, BeginPurge, Start
    <3> HIDE DEF alive
    <3>4. form'[q].before = alive /\ req'[q].pc = "purge" /\ req'[q].subj = form[r].subj
      BY <1>2, <2>3, <3>2, <3>3 DEF Locals, FormType
    <3>5. owner' = owner
      BY <1>6, <2>3 DEF SetPassword, BeginPurge, tableVars
    <3>6. form[r].reset \in Reset /\ resetOf[form[r].reset] = form[r].subj
      BY <1>6 DEF RInv, RecoveryCore, FormConsistent, SetPassword, InForm
    <3>7. form'[q].reset \in applied' /\ resetOf'[form'[q].reset] = req'[q].subj
      BY <1>2, <1>6, <2>3, <3>2, <3>4, <3>6 DEF SetPassword, FormType
    <3> QED
      BY <3>1, <3>4, <3>5, <3>7 DEF Forcing, At, Rows
  <2> QED
    BY <2>1, <2>2, <2>3
<1>7. ASSUME NEW r \in Request, NEW t \in Token, MintStep(r, t)
      PROVE  Forcing(q)'
  <2>1. CASE q # r
    <3>1. form'[q] = form[q] /\ req'[q] = req[q]
      BY <1>2, <1>7, <2>1 DEF MintStep, CloseIfDone, MintLogin, MintRefresh, Finish
    <3> QED
      BY <1>3, <3>1
  <2>2. CASE q = r
    <3>1. form[q].pc # "force"
      BY <1>7, <2>2 DEF MintStep, MintLogin, MintRefresh, Forcing, InForm, At
    <3>2. form'[q].pc # "force"
      BY <1>2, <1>7, <2>2, <3>1 DEF MintStep, CloseIfDone, NoForm, FormOf
    <3> QED
      BY <1>4, <3>2
  <2> QED
    BY <2>1, <2>2
<1>8. ASSUME NEW r \in Request, RefreshStep(r)
      PROVE  Forcing(q)'
  <2>1. form' = form
    BY <1>8 DEF RefreshStep, recoveryVars
  <2>2. CASE q # r
    <3>1. req'[q] = req[q]
      BY <1>2, <1>8, <2>2 DEF RefreshStep, RefreshActive, RefreshReplay, RefreshAccount,
         Rotate, Start, Step, Finish
    <3> QED
      BY <1>3, <2>1, <3>1
  <2>3. CASE q = r
    <3>1. form[q].pc # "force"
      BY <1>8, <2>3 DEF RefreshStep, RefreshAccount, Rotate, Free, Forcing, InForm, At
    <3> QED
      BY <1>4, <2>1, <3>1
  <2> QED
    BY <2>2, <2>3
<1>9. ASSUME NEW r \in Request, PurgeStep(r)
      PROVE  Forcing(q)'
  <2>1. CASE q # r
    <3>1. form'[q] = form[q] /\ req'[q] = req[q]
      BY <1>2, <1>9, <2>1 DEF PurgeStep, CloseIfDone, PurgeSnapshot, PurgeCommit, Stop,
         Step, Finish
    <3> QED
      BY <1>3, <3>1
  <2>2. CASE q = r /\ PurgeSnapshot(r)
    <3>1. /\ req'[q].pc = "purging" /\ req'[q].snap = ActiveOf(req[q].subj)
          /\ req'[q].subj = req[q].subj /\ req[q].pc = "purge"
      BY <1>2, <2>2 DEF PurgeSnapshot, At, RequestType
    <3>2. /\ form' = form /\ owner' = owner /\ revoked' = revoked
          /\ applied' = applied /\ resetOf' = resetOf
      BY <1>9, <2>2, <3>1 DEF PurgeStep, CloseIfDone, PurgeSnapshot, tableVars
    <3> QED
      BY <3>1, <3>2 DEF Forcing, InForm, At, ActiveOf, Rows
  <2>3. CASE q = r /\ PurgeCommit(r)
    <3>1. /\ req'[q].pc = "purged" /\ req'[q].subj = req[q].subj /\ req[q].pc = "purging"
          /\ revoked' = revoked \cup req[q].snap
      BY <1>2, <2>3 DEF PurgeCommit, RevokeAll, Step, At, RequestType
    <3>2. /\ form' = form /\ owner' = owner
          /\ applied' = applied /\ resetOf' = resetOf
      BY <1>9, <2>3, <3>1 DEF PurgeStep, CloseIfDone, PurgeCommit, RevokeAll
    <3> QED
      BY <3>1, <3>2 DEF Forcing, InForm, At, Rows
  <2>4. CASE q = r /\ Stop(r)
    <3>1. req'[q].pc = "idle"
      BY <1>2, <2>4 DEF Stop, Finish, Idle, Locals
    <3>2. form'[q].pc # "force"
      BY <1>2, <1>9, <2>4, <3>1 DEF PurgeStep, CloseIfDone, NoForm, FormOf
    <3> QED
      BY <1>4, <3>2
  <2> QED
    BY <1>9, <2>1, <2>2, <2>3, <2>4 DEF PurgeStep
<1>10. ASSUME \/ \E s \in Subject : LapsePartial(s)
              \/ \E k \in Reset : LapseReset(k)
              \/ OutsideStep
              \/ UNCHANGED rvars
       PROVE  Forcing(q)'
  <2>1. form' = form /\ req' = req
    BY <1>10 DEF LapsePartial, LapseReset, OutsideStep, Logout, Expire, DeleteAccount,
       rvars, recoveryVars, vars, sessionVars
  <2> QED
    BY <1>3, <2>1
<1> QED
  BY <1>5, <1>6, <1>7, <1>8, <1>9, <1>10 DEF RecoveryNext, RequestStep

(* A confirmation that sets the password condemns what is alive.           *)
LEMMA SetForm ==
  ASSUME RInv, NEW r \in Request, SetPassword(r), HasPassword(form[r].subj)
  PROVE  /\ form[r].pc = "set" /\ form'[r].pc = "force"
         /\ form'[r].reset = form[r].reset
         /\ form'[r].before = {t \in Live : owner[t] = form[r].subj}
<1> DEFINE alive == {t \in Live : owner[t] = form[r].subj}
<1>1. /\ form' = [form EXCEPT ![r] = [@ EXCEPT !.pc = "force", !.before = alive]]
      /\ form[r].pc = "set"
  BY DEF SetPassword, InForm
<1>2. form \in [Request -> FormType]
  BY DEF RInv, RecoveryCore, RecoveryTypeOK
<1> HIDE DEF alive
<1>3. /\ form'[r].pc = "force" /\ form'[r].reset = form[r].reset
      /\ form'[r].before = alive
  BY <1>1, <1>2 DEF FormType
<1> QED
  BY <1>1, <1>3 DEF alive

(* A step begins the forced logout of one reset at most, that of a         *)
(* confirmation which alone had it in hand.                                *)
LEMMA StepOneForcer ==
  RInv /\ OneForcer /\ (\A r \in Request : Forcing(r)) /\ [RecoveryNext]_rvars
    => OneForcer'
<1> SUFFICES ASSUME RInv, OneForcer, \A r \in Request : Forcing(r),
                    [RecoveryNext]_rvars
             PROVE  OneForcer'
  OBVIOUS
<1>1. form \in [Request -> FormType]
  BY DEF RInv, RecoveryCore, RecoveryTypeOK
<1>2. ASSUME \A q \in Request : form'[q] = form[q] \/ form'[q].pc # "force"
      PROVE  OneForcer'
  BY <1>2 DEF OneForcer, InForm
<1>3. ASSUME NEW r \in Request, SetPassword(r) PROVE OneForcer'
  <2>1. form[r].pc = "set" /\ form[r].reset \notin applied
    BY <1>3 DEF SetPassword, InForm, RInv, RecoveryCore, OneSetter
  <2>2. \A q \in Request : InForm(q, "force") => form[q].reset # form[r].reset
    BY <2>1 DEF Forcing
  <2>3. \A q \in Request : q # r => form'[q] = form[q]
    BY <1>1, <1>3 DEF SetPassword, Close
  <2>4. form'[r].pc # "force" \/ form'[r].reset = form[r].reset
    <3>1. CASE HasPassword(form[r].subj)
      BY <1>3, <3>1, SetForm
    <3>2. CASE ~HasPassword(form[r].subj)
      BY <1>1, <1>3, <3>2 DEF SetPassword, Close, NoForm, FormOf
    <3> QED
      BY <3>1, <3>2
  <2> QED
    BY <2>2, <2>3, <2>4 DEF OneForcer, InForm
<1>4. ASSUME NEW r \in Request,
             \/ \E s \in Subject : \/ LoginMint(r, s) \/ LoginPartial(r, s)
                                   \/ CompleteLogin(r, s) \/ RequestReset(r, s)
             \/ \E k \in Reset : IssueReset(r, k) \/ ConfirmLookup(r, k)
             \/ MintPartial2FA(r) \/ MarkUsed(r) \/ StopForm(r)
             \/ \E t \in Token : MintStep(r, t)
             \/ PurgeStep(r)
      PROVE  \A q \in Request : form'[q] = form[q] \/ form'[q].pc # "force"
  BY <1>1, <1>4 DEF LoginMint, LoginPartial, CompleteLogin, RequestReset, IssueReset,
     ConfirmLookup, MintPartial2FA, MarkUsed, StopForm, MintStep, PurgeStep,
     CloseIfDone, Close, FormOf, NoForm, FormType, InForm
<1>5. ASSUME \/ \E r \in Request : RefreshStep(r)
             \/ \E s \in Subject : LapsePartial(s)
             \/ \E k \in Reset : LapseReset(k)
             \/ OutsideStep
             \/ UNCHANGED rvars
      PROVE  \A q \in Request : form'[q] = form[q]
  BY <1>5 DEF RefreshStep, LapsePartial, LapseReset, OutsideStep, recoveryVars, rvars
<1> QED
  BY <1>2, <1>3, <1>4, <1>5 DEF RecoveryNext, RequestStep

(* The step of a request is its own: it leaves the locals of the others.   *)
LEMMA OthersKeep ==
  ASSUME RInv, NEW r \in Request, RequestStep(r)
  PROVE  \A q \in Request : q # r => form'[q] = form[q] /\ req'[q] = req[q]
<1>1. req \in [Request -> RequestType] /\ form \in [Request -> FormType]
  BY DEF RInv, RecoveryCore, RecoveryTypeOK, TypeOK
<1> DEFINE Keep == \A q \in Request : q # r => form'[q] = form[q] /\ req'[q] = req[q]
<1>2. ASSUME \/ \E s \in Subject : \/ LoginMint(r, s) \/ LoginPartial(r, s)
                                   \/ CompleteLogin(r, s) \/ RequestReset(r, s)
             \/ \E k \in Reset : IssueReset(r, k) \/ ConfirmLookup(r, k)
             \/ MintPartial2FA(r) \/ MarkUsed(r) \/ StopForm(r)
      PROVE  Keep
  BY <1>1, <1>2 DEF LoginMint, LoginPartial, CompleteLogin, RequestReset, IssueReset,
     ConfirmLookup, MintPartial2FA, MarkUsed, StopForm, BeginMint, Start, Close, vars,
     sessionVars
<1>3. ASSUME SetPassword(r) PROVE Keep
  BY <1>1, <1>3 DEF SetPassword, Close, BeginPurge, Start, vars, sessionVars
<1>4. ASSUME NEW t \in Token, MintStep(r, t) PROVE Keep
  BY <1>1, <1>4 DEF MintStep, CloseIfDone, MintLogin, MintRefresh, Finish
<1>5. ASSUME RefreshStep(r) PROVE Keep
  BY <1>1, <1>5 DEF RefreshStep, RefreshActive, RefreshReplay, RefreshAccount, Rotate,
     Start, Step, Finish, recoveryVars
<1>6. ASSUME PurgeStep(r) PROVE Keep
  BY <1>1, <1>6 DEF PurgeStep, CloseIfDone, PurgeSnapshot, PurgeCommit, Stop, Step, Finish
<1> HIDE DEF Keep
<1>7. Keep
  BY <1>2, <1>3, <1>4, <1>5, <1>6 DEF RequestStep
<1> QED
  BY <1>7 DEF Keep

(* And what is not the step of a request leaves the locals of all.         *)
LEMMA WorldKeeps ==
  ASSUME [RecoveryNext]_rvars, ~\E r \in Request : RequestStep(r)
  PROVE  form' = form /\ req' = req
BY DEF RecoveryNext, LapsePartial, LapseReset, OutsideStep, Logout, Expire, DeleteAccount,
   rvars, recoveryVars, vars, sessionVars

(* The form of a request and its session steps go together.                *)
LEMMA StepMatches ==
  RInv /\ (\A r \in Request : Forcing(r) /\ FormMatches(r)) /\ [RecoveryNext]_rvars
    => (\A r \in Request : FormMatches(r))'
<1> SUFFICES ASSUME RInv, \A r \in Request : Forcing(r) /\ FormMatches(r),
                    [RecoveryNext]_rvars
             PROVE  (\A r \in Request : FormMatches(r))'
  OBVIOUS
<1>1. req \in [Request -> RequestType] /\ form \in [Request -> FormType]
  BY DEF RInv, RecoveryCore, RecoveryTypeOK, TypeOK
<1>2. ASSUME NEW r \in Request, form'[r] = form[r], req'[r] = req[r]
      PROVE  FormMatches(r)'
  BY <1>2 DEF FormMatches, InForm, At
<1>3. ASSUME NEW r \in Request, RequestStep(r)
      PROVE  FormMatches(r)'
  <2> USE <1>1 DEF FormMatches, InForm, At, Free, Close, FormOf, NoForm, FormType,
                   RequestType, Locals, Idle, Start, Step, Finish
  <2>1. CASE \E s \in Subject : LoginMint(r, s) \/ CompleteLogin(r, s)
    BY <2>1 DEF LoginMint, CompleteLogin, BeginMint
  <2>2. CASE \/ \E s \in Subject : LoginPartial(r, s) \/ RequestReset(r, s)
             \/ \E k \in Reset : IssueReset(r, k) \/ ConfirmLookup(r, k)
             \/ MintPartial2FA(r) \/ MarkUsed(r) \/ StopForm(r)
    BY <2>2 DEF LoginPartial, RequestReset, IssueReset, ConfirmLookup, MintPartial2FA,
       MarkUsed, StopForm, vars, sessionVars
  <2>3. CASE SetPassword(r)
    <3>1. CASE HasPassword(form[r].subj)
      <4>1. req'[r].pc = "purge"
        BY <2>3, <3>1 DEF SetPassword, BeginPurge
      <4>2. form'[r].pc = "force"
        BY <2>3, <3>1, SetForm
      <4> QED
        BY <4>1, <4>2
    <3>2. CASE ~HasPassword(form[r].subj)
      <4>1. form'[r].pc = "none" /\ req'[r] = req[r] /\ form[r].pc = "set"
        BY <2>3, <3>2 DEF SetPassword, vars, sessionVars
      <4> QED
        BY <4>1
    <3> QED
      BY <3>1, <3>2
  <2>4. ASSUME NEW t \in Token, MintStep(r, t)
        PROVE  FormMatches(r)'
    <3>1. CASE MintLogin(r, t)
      <4>1. req'[r].pc = "idle"
        BY <3>1 DEF MintLogin
      <4>2. form'[r].pc = "none"
        BY <2>4, <4>1 DEF MintStep, CloseIfDone
      <4> QED
        BY <4>1, <4>2
    <3>2. CASE MintRefresh(r, t)
      <4>1. req'[r].pc = "rotate" /\ req[r].pc = "mint" /\ req[r].old # None
        BY <3>2 DEF MintRefresh
      <4>2. form'[r] = form[r]
        BY <2>4, <4>1 DEF MintStep, CloseIfDone
      <4> QED
        BY <4>1, <4>2
    <3> QED
      BY <2>4, <3>1, <3>2 DEF MintStep
  <2>5. CASE RefreshStep(r)
    <3>1. form'[r] = form[r]
      BY <2>5 DEF RefreshStep, recoveryVars
    <3>2. form[r].pc = "none" \/ At(r, "account") \/ At(r, "rotate")
      BY <2>5 DEF RefreshStep, RefreshAccount, Rotate
    <3>3. form[r].pc \notin {"login", "partial", "issue", "mark", "set"}
      BY <3>2
    <3>4. At(r, "account") => req[r].old # None
      BY DEF RInv, IInv, RequestConsistent
    <3>5. ~(At(r, "mint")' /\ req'[r].old = None)
      BY <2>5, <3>4 DEF RefreshStep, RefreshActive, RefreshReplay, RefreshAccount, Rotate
    <3> QED
      BY <3>1, <3>3, <3>5
  <2>6. CASE PurgeStep(r)
    <3>1. CASE Stop(r)
      <4>1. req'[r].pc = "idle"
        BY <3>1 DEF Stop
      <4>2. form'[r].pc = "none"
        BY <2>6, <4>1 DEF PurgeStep, CloseIfDone
      <4> QED
        BY <4>1, <4>2
    <3>2. CASE PurgeSnapshot(r) \/ PurgeCommit(r)
      <4>1. req[r].pc \in {"purge", "purging"} /\ req'[r].pc \in {"purging", "purged"}
        BY <3>2 DEF PurgeSnapshot, PurgeCommit
      <4>2. form'[r] = form[r]
        BY <2>6, <4>1 DEF PurgeStep, CloseIfDone
      <4> QED
        BY <4>1, <4>2
    <3> QED
      BY <2>6, <3>1, <3>2 DEF PurgeStep
  <2> HIDE DEF FormMatches
  <2> QED
    BY <1>3, <2>1, <2>2, <2>3, <2>4, <2>5, <2>6 DEF RequestStep
<1> QED
  BY <1>2, <1>3, OthersKeep, WorldKeeps

(* What the model of recovery rests on.                                    *)
THEOREM RecoveryInvariance == RecoverySpec => []RecoveryInv
<1> DEFINE F == OneForcer /\ \A r \in Request : Forcing(r) /\ FormMatches(r)
<1>1. RecoveryInit => F
  BY DEF RecoveryInit, Init, Idle, Locals, At, Forcing, FormMatches, OneForcer, InForm,
     NoForm, FormOf
<1>2. RecoveryInit => F
  BY <1>1
<1>3. RInv /\ F /\ [RecoveryNext]_rvars => F'
  BY StepForcing, StepOneForcer, StepMatches
<1>4. RInv /\ F => RecoveryInv
  BY DEF RInv, RecoveryInv
<1> HIDE DEF F
<1> QED
  BY InitRInv, StepRInv, <1>2, <1>3, <1>4, PTL DEF RecoverySpec

(* A confirmed reset leaves nothing alive of what was alive at the change, *)
(* whatever refreshes and logouts ran against its forced logout.           *)
THEOREM ConfirmedResetsCutOff == RecoverySpec => []ResetCutsOff
<1>1. RecoveryInv => ResetCutsOff
  BY DEF RecoveryInv, Forcing, ResetCutsOff, At, Live
<1> QED
  BY RecoveryInvariance, <1>1, PTL

(* With logins and resets around: one usable refresh token per login.      *)
THEOREM RecoveryOneLive == RecoverySpec => []OneLivePerLogin
  BY RecoveryKeepsSessions, AtMostOneLive, PTL

(* To its clients the service implements the chains with logins and resets *)
(* around, too, and a chain that has ended stays ended.                    *)
THEOREM RecoveryImplementsChains == RecoverySpec => ImplementsChains /\ EndedStaysEnded
  BY RecoveryKeepsSessions, ServiceImplementsChains, EndedChainsStayEnded, PTL

-----------------------------------------------------------------------------
(* With nothing of a deleted account under way, a step begins nothing.     *)
LEMMA StepDeleted ==
  ASSUME RecoveryInv, RInv, [RecoveryNext]_rvars,
         NEW s \in gone, s \notin partial, Entering(s) = {}, Refreshing(s) = {}
  PROVE  /\ s \notin partial' /\ Entering(s)' = {} /\ Refreshing(s)' = {}
         /\ \A t \in granted' \ granted : owner'[t] # s
<1> DEFINE Enters(q) == \/ InForm(q, "login") /\ req[q].subj = s
                        \/ InForm(q, "partial") /\ form[q].subj = s
<1>1. /\ req \in [Request -> RequestType] /\ form \in [Request -> FormType]
      /\ IInv /\ [Next]_vars
  BY StepSessions DEF RInv, RecoveryCore, RecoveryTypeOK, TypeOK
<1>2. \A q \in Request : ~Enters(q)
  BY DEF Entering
<1>3. \A q \in Request : req[q].old # None /\ (At(q, "mint") \/ At(q, "rotate"))
                           => req[q].subj # s
  BY DEF Refreshing
<1>4. Refreshing(s)' = {}
  BY <1>1, StepGone
<1>5. ASSUME NEW r \in Request, RequestStep(r)
      PROVE  s \notin partial' /\ ~Enters(r)'
  <2> USE <1>1, <1>2 DEF InForm, FormOf, NoForm, Close, FormType
  <2>1. CASE \E q \in Subject : \/ LoginMint(r, q) \/ LoginPartial(r, q)
                                \/ CompleteLogin(r, q) \/ RequestReset(r, q)
    BY <2>1 DEF LoginMint, LoginPartial, CompleteLogin, RequestReset, ByEmail, BeginMint,
       Start, Locals
  <2>2. CASE \/ \E k \in Reset : IssueReset(r, k) \/ ConfirmLookup(r, k)
             \/ MintPartial2FA(r) \/ MarkUsed(r) \/ StopForm(r)
    BY <2>2 DEF IssueReset, ConfirmLookup, MintPartial2FA, MarkUsed, StopForm
  <2>3. CASE SetPassword(r)
    <3>1. partial' = partial
      BY <2>3 DEF SetPassword
    <3>2. CASE HasPassword(form[r].subj)
      BY <2>3, <3>1, <3>2, SetForm
    <3>3. CASE ~HasPassword(form[r].subj)
      BY <2>3, <3>1, <3>3 DEF SetPassword
    <3> QED
      BY <3>2, <3>3
  <2>4. CASE RefreshStep(r)
    <3>1. partial' = partial /\ form'[r] = form[r]
      BY <2>4 DEF RefreshStep, recoveryVars
    <3>2. ~InForm(r, "login") /\ ~InForm(r, "partial")
      BY <2>4 DEF RefreshStep, RefreshAccount, Rotate, Free, RecoveryInv, FormMatches, At
    <3> QED
      BY <3>1, <3>2
  <2>5. CASE (\E t \in Token : MintStep(r, t)) \/ PurgeStep(r)
    <3>1. partial' = partial /\ (form'[r] = form[r] \/ form'[r] = NoForm)
      BY <2>5 DEF MintStep, PurgeStep, CloseIfDone
    <3>2. ASSUME form'[r] = form[r], InForm(r, "login") PROVE FALSE
      <4>1. At(r, "mint") /\ req[r].old = None
        BY <3>2 DEF RecoveryInv, FormMatches
      <4>2. Finish(r)
        BY <2>5, <4>1 DEF MintStep, PurgeStep, MintLogin, MintRefresh, PurgeSnapshot,
           PurgeCommit, Stop, At
      <4>3. req'[r].pc = "idle"
        BY <4>2 DEF Finish, Idle, Locals
      <4>4. form' = [form EXCEPT ![r] = NoForm]
        BY <2>5, <4>3 DEF MintStep, PurgeStep, CloseIfDone
      <4> QED
        BY <3>2, <4>4
    <3> QED
      BY <3>1, <3>2
  <2> HIDE DEF Enters
  <2> QED
    BY <1>5, <2>1, <2>2, <2>3, <2>4, <2>5 DEF RequestStep
<1>6. s \notin partial' /\ \A q \in Request : ~Enters(q)'
  <2>1. CASE \E r \in Request : RequestStep(r)
    <3> PICK r \in Request : RequestStep(r)
      BY <2>1
    <3>1. \A q \in Request : q # r => form'[q] = form[q] /\ req'[q] = req[q]
      BY OthersKeep
    <3> QED
      BY <1>2, <1>5, <3>1 DEF InForm
  <2>2. CASE ~\E r \in Request : RequestStep(r)
    <3>1. form' = form /\ req' = req
      BY <2>2, WorldKeeps
    <3>2. partial' \subseteq partial
      BY <2>2 DEF RecoveryNext, LapsePartial, LapseReset, OutsideStep, recoveryVars, rvars
    <3> QED
      BY <1>2, <3>1, <3>2 DEF InForm
  <2> QED
    BY <2>1, <2>2
<1>7. \A t \in granted' \ granted : owner'[t] # s
  <2> USE DEF IInv, TypeOK, TableTypeOK, RequestType
  <2>1. ASSUME NEW r \in Request, NEW t \in Token, MintLogin(r, t)
        PROVE  granted' \ granted \subseteq {t} /\ owner'[t] # s
    <3>1. InForm(r, "login") /\ req[r].subj # s
      BY <1>2, <2>1 DEF MintLogin, RecoveryInv, FormMatches
    <3> QED
      BY <1>1, <2>1, <3>1 DEF MintLogin, Create
  <2>2. ASSUME NEW r \in Request, Rotate(r)
        PROVE  granted' \ granted \subseteq {req[r].new} /\ owner'[req[r].new] # s
    <3>1. owner' = owner /\ granted' \ granted \subseteq {req[r].new}
      BY <2>2 DEF Rotate, Revoke, tableVars
    <3>2. owner[req[r].new] = req[r].subj /\ req[r].old # None
      BY <1>1, <2>2 DEF Rotate, RequestConsistent
    <3> QED
      BY <1>3, <2>2, <3>1, <3>2 DEF Rotate
  <2>3. CASE ~\E r \in Request : Rotate(r) \/ \E t \in Token : MintLogin(r, t)
    <3>1. granted' = granted
      BY <1>1, <2>3 DEF Next, BeginMint, BeginPurge, MintRefresh, RefreshActive, RefreshReplay,
         RefreshAccount, PurgeSnapshot, PurgeCommit, Stop, Logout, Expire, DeleteAccount,
         sessionVars, vars
    <3> QED
      BY <3>1
  <2> QED
    BY <2>1, <2>2, <2>3
<1> QED
  BY <1>4, <1>6, <1>7 DEF Entering

(* A deleted account is shut for good once what was under way at the       *)
(* deletion is over, its partial tokens included.                          *)
THEOREM DeletedAccountsDrain == RecoverySpec => DeletedDrains
<1>1. ASSUME RecoveryInv, RInv, [RecoveryNext]_rvars
      PROVE  \A s \in gone :
               s \notin partial /\ Entering(s) = {} /\ Refreshing(s) = {} =>
                 /\ s \notin partial' /\ Entering(s)' = {} /\ Refreshing(s)' = {}
                 /\ \A t \in granted' \ granted : owner'[t] # s
  BY <1>1, StepDeleted
<1> QED
  BY RecoveryInvariance, InitRInv, StepRInv, <1>1, PTL DEF RecoverySpec, DeletedDrains

-----------------------------------------------------------------------------
(* The sessions of the promise are the chains of Sessions.                 *)
LEMMA PromiseChains ==
  RInv /\ [RecoveryNext]_rvars => [Promise!ChainNext]_(Promise!chainVars)
<1>1. RInv /\ [RecoveryNext]_rvars => [Chains!ChainNext]_(Chains!chainVars)
  BY StepSessions, StepChains DEF RInv
<1>2. Chains!ChainNext <=> Promise!ChainNext
  BY DEF Chains!ChainNext, Chains!Login, Chains!Rotate, Chains!RevokeSet,
     Promise!ChainNext, Promise!Login, Promise!Rotate, Promise!RevokeSet
<1>3. UNCHANGED Chains!chainVars <=> UNCHANGED Promise!chainVars
  BY DEF Chains!chainVars, Promise!chainVars
<1> QED
  BY <1>1, <1>2, <1>3

(* The labels of a form that tell where its reset stands.                  *)
Standing == {"mark", "set", "force"}

(* A step that changes no reset, nor a confirmation of one, is a step of   *)
(* the chains or none.                                                     *)
LEMMA QuietStep ==
  ASSUME RInv, [RecoveryNext]_rvars, UNCHANGED <<password, resetOf, used, lapsed>>,
         \A r \in Request :
           \/ form'[r] = form[r] /\ (InForm(r, "force") => (At(r, "purged")' <=> At(r, "purged")))
           \/ form[r].pc \notin Standing /\ form'[r].pc \notin Standing
  PROVE  [Promise!PromiseNext]_(Promise!promiseVars)
<1>1. ASSUME NEW k \in Reset, NEW label \in Standing
      PROVE  Holding(k, label)' = Holding(k, label)
  BY <1>1 DEF Holding, InForm, Standing
<1>2. ASSUME NEW k \in Reset
      PROVE  StateOf(k)' = StateOf(k)
  <2>1. /\ Holding(k, "mark")' = Holding(k, "mark")
        /\ Holding(k, "set")' = Holding(k, "set")
        /\ Holding(k, "force")' = Holding(k, "force")
    BY <1>1 DEF Standing
  <2>2. \A r \in Holding(k, "force") : At(r, "purged")' <=> At(r, "purged")
    BY DEF Holding, InForm, Standing
  <2>3. (\E r \in Holding(k, "force") : At(r, "purged"))' <=> \E r \in Holding(k, "force") : At(r, "purged")
    BY <2>1, <2>2
  <2> QED
    BY <2>1, <2>3 DEF StateOf
<1>3. ASSUME NEW k \in Reset
      PROVE  Condemned(k)' = Condemned(k)
  <2>1. Holding(k, "force")' = Holding(k, "force")
    BY <1>1 DEF Standing
  <2>2. \A r \in Holding(k, "force") : form'[r] = form[r]
    BY DEF Holding, InForm, Standing
  <2> QED
    BY <2>1, <2>2 DEF Condemned
<1>4. UNCHANGED Promise!ticketVars
  BY <1>2, <1>3 DEF Promise!ticketVars
<1> QED
  BY <1>4, PromiseChains DEF Promise!PromiseNext, Promise!promiseVars

(* A step of a request in which it has only reset k in hand leaves the     *)
(* other tickets.                                                          *)
LEMMA OneTicket ==
  ASSUME NEW r \in Request, NEW k \in Reset, NEW j \in Reset, j # k,
         \A q \in Request : q # r => form'[q] = form[q] /\ req'[q] = req[q],
         form[r].pc \in Standing => form[r].reset = k,
         form'[r].pc \in Standing => form'[r].reset = k,
         resetOf'[j] = resetOf[j], j \in used' <=> j \in used, j \in lapsed' <=> j \in lapsed
  PROVE  StateOf(j)' = StateOf(j) /\ Condemned(j)' = Condemned(j)
<1>1. /\ Holding(j, "mark")' = Holding(j, "mark")
      /\ Holding(j, "set")' = Holding(j, "set")
      /\ Holding(j, "force")' = Holding(j, "force")
  BY DEF Holding, InForm, Standing
<1>2. \A q \in Holding(j, "force") : q # r
  BY DEF Holding, InForm, Standing
<1>3. \A q \in Holding(j, "force") : (At(q, "purged")' <=> At(q, "purged")) /\ form'[q] = form[q]
  BY <1>2 DEF Holding, At
<1>4. (\E q \in Holding(j, "force") : At(q, "purged"))' <=> \E q \in Holding(j, "force") : At(q, "purged")
  BY <1>1, <1>3
<1>5. StateOf(j)' = StateOf(j)
  BY <1>1, <1>4 DEF StateOf
<1>6. Condemned(j)' = Condemned(j)
  BY <1>1, <1>3 DEF Condemned
<1> QED
  BY <1>5, <1>6

(* So only its ticket moves.                                               *)
LEMMA OnlyTicket ==
  ASSUME RInv, NEW r \in Request, RequestStep(r), NEW k \in Reset,
         form[r].pc \in Standing => form[r].reset = k,
         form'[r].pc \in Standing => form'[r].reset = k,
         \A j \in Reset \ {k} : /\ resetOf'[j] = resetOf[j]
                                /\ j \in used' <=> j \in used
                                /\ j \in lapsed' <=> j \in lapsed
  PROVE  /\ [j \in Reset |-> StateOf(j)'] =
              [[j \in Reset |-> StateOf(j)] EXCEPT ![k] = StateOf(k)']
         /\ [j \in Reset |-> Condemned(j)'] =
              [[j \in Reset |-> Condemned(j)] EXCEPT ![k] = Condemned(k)']
<1>1. \A q \in Request : q # r => form'[q] = form[q] /\ req'[q] = req[q]
  BY OthersKeep
<1>2. \A j \in Reset : j # k => StateOf(j)' = StateOf(j) /\ Condemned(j)' = Condemned(j)
  BY <1>1, OneTicket
<1> QED
  BY <1>2

LEMMA ChainsStill ==
  ASSUME UNCHANGED <<owner, revoked, granted, root>>
  PROVE  UNCHANGED Promise!chainVars
BY DEF Promise!chainVars, Live

(* Where a ticket stands, from what its confirmations do.                  *)
LEMMA NoForcer ==
  ASSUME RecoveryInv, NEW k \in Reset, k \notin applied
  PROVE  Holding(k, "force") = {} /\ Condemned(k) = {}
BY DEF RecoveryInv, Forcing, Holding, Condemned

LEMMA StateOfOpen ==
  ASSUME RecoveryInv, NEW r \in Request, InForm(r, "mark"), form[r].reset \notin used
  PROVE  StateOf(form[r].reset) = "open"
BY NoneAssumption DEF RecoveryInv, RecoveryCore, FormConsistent, InForm, StateOf, Holding

LEMMA StateOfClaimed ==
  ASSUME RecoveryInv, NEW r \in Request, InForm(r, "set")
  PROVE  /\ StateOf(form[r].reset) = "claimed" /\ form[r].reset \in Reset
         /\ Holding(form[r].reset, "set") = {r}
BY NoneAssumption
   DEF RecoveryInv, RecoveryCore, FormConsistent, OneSetter, InForm, StateOf, Holding

LEMMA StateOfForcing ==
  ASSUME RecoveryInv, NEW r \in Request, InForm(r, "force")
  PROVE  /\ form[r].reset \in Reset
         /\ Holding(form[r].reset, "force") = {r} /\ Holding(form[r].reset, "set") = {}
         /\ form[r].reset \in used /\ resetOf[form[r].reset] # None
         /\ StateOf(form[r].reset) = IF At(r, "purged") THEN "settled" ELSE "redeemed"
         /\ Condemned(form[r].reset) = form[r].before
<1> DEFINE k == form[r].reset
<1>1. k \in Reset /\ k \in applied /\ k \in used /\ resetOf[k] # None
  BY DEF RecoveryInv, RecoveryCore, RecoveryTypeOK, AppliedUsed, Forcing
<1>2. Holding(k, "force") = {r}
  BY DEF RecoveryInv, OneForcer, Holding
<1>3. Holding(k, "set") = {}
  BY <1>1 DEF RecoveryInv, RecoveryCore, OneSetter, Holding
<1>4. form[r].before \subseteq Token
  BY DEF RecoveryInv, RecoveryCore, RecoveryTypeOK, FormType
<1> QED
  BY <1>1, <1>2, <1>3, <1>4 DEF StateOf, Condemned

(* The steps of the tickets, one by one.                                   *)
LEMMA IssueMaps ==
  ASSUME RecoveryInv, RInv, NEW r \in Request, NEW k \in Reset, IssueReset(r, k)
  PROVE  \E s \in Subject : Promise!Issue(k, s)
<1>1. /\ form \in [Request -> FormType] /\ resetOf \in [Reset -> Subject \cup {None}]
      /\ form[r].subj \in Subject /\ form[r].pc = "issue" /\ form'[r] = NoForm
      /\ resetOf' = [resetOf EXCEPT ![k] = form[r].subj]
      /\ resetOf[k] = None /\ k \notin used /\ k \notin lapsed /\ k \notin applied
  BY DEF IssueReset, InForm, Close, RInv, RecoveryCore, RecoveryTypeOK, FormConsistent,
     AppliedUsed
<1>2. UNCHANGED <<used, lapsed, applied, password, owner, revoked, granted, root>>
  BY DEF IssueReset, vars, tableVars, sessionVars
<1>3. RequestStep(r)
  BY DEF RequestStep
<1>4. /\ [j \in Reset |-> StateOf(j)'] =
           [[j \in Reset |-> StateOf(j)] EXCEPT ![k] = StateOf(k)']
      /\ [j \in Reset |-> Condemned(j)'] =
           [[j \in Reset |-> Condemned(j)] EXCEPT ![k] = Condemned(k)']
  <2>1. form[r].pc \notin Standing /\ form'[r].pc \notin Standing
    BY <1>1 DEF Standing, NoForm, FormOf
  <2>2. \A j \in Reset \ {k} : /\ resetOf'[j] = resetOf[j]
                               /\ j \in used' <=> j \in used
                               /\ j \in lapsed' <=> j \in lapsed
    BY <1>1, <1>2
  <2> QED
    BY <1>3, <2>1, <2>2, OnlyTicket
<1>5. StateOf(k) = "none" /\ StateOf(k)' = "open"
  BY <1>1, <1>2, NoneAssumption DEF StateOf
<1>6. Condemned(k) = {} /\ Condemned(k)' = {}
  <2>1. Holding(k, "force") = {}
    BY <1>1, NoForcer
  <2>2. Holding(k, "force")' = {}
    BY <1>1, <1>3, <2>1, OthersKeep DEF Holding, InForm, NoForm, FormOf
  <2> QED
    BY <2>1, <2>2 DEF Condemned
<1>7. UNCHANGED Promise!chainVars
  BY <1>2, ChainsStill
<1> QED
  BY <1>1, <1>2, <1>4, <1>5, <1>6, <1>7 DEF Promise!Issue, Promise!Move

LEMMA LapseMaps ==
  ASSUME RecoveryInv, NEW k \in Reset, LapseReset(k)
  PROVE  Promise!End(k) \/ UNCHANGED Promise!promiseVars
<1>1. /\ lapsed' = lapsed \cup {k} /\ resetOf[k] # None
      /\ UNCHANGED <<form, req, password, resetOf, used, owner, revoked, granted, root>>
  BY DEF LapseReset, vars, tableVars, sessionVars
<1>2. \A j \in Reset : /\ Holding(j, "mark")' = Holding(j, "mark")
                       /\ Holding(j, "set")' = Holding(j, "set")
                       /\ Holding(j, "force")' = Holding(j, "force")
                       /\ Condemned(j)' = Condemned(j)
  BY <1>1 DEF Holding, InForm, Condemned
<1>3. \A j \in Reset : j # k => StateOf(j)' = StateOf(j)
  BY <1>1, <1>2 DEF StateOf, At
<1>4. UNCHANGED Promise!chainVars
  BY <1>1, ChainsStill
<1>5. CASE StateOf(k)' = StateOf(k)
  BY <1>1, <1>2, <1>3, <1>4, <1>5 DEF Promise!promiseVars, Promise!ticketVars
<1>6. CASE StateOf(k)' # StateOf(k)
  <2>1. k \notin used
    BY <1>1, <1>2, <1>6 DEF StateOf, At
  <2>2. StateOf(k) = "open" /\ StateOf(k)' = "over"
    BY <1>1, <1>2, <1>6, <2>1 DEF StateOf
  <2>3. Condemned(k) = {}
    BY <2>1, NoForcer DEF RecoveryInv, RecoveryCore, AppliedUsed
  <2> QED
    BY <1>1, <1>2, <1>3, <1>4, <2>2, <2>3 DEF Promise!End, Promise!Move
<1> QED
  BY <1>5, <1>6

LEMMA MarkMaps ==
  ASSUME RecoveryInv, RInv, NEW r \in Request, NEW k \in Reset, form[r].reset = k,
         MarkUsed(r)
  PROVE  Promise!Claim(k) \/ UNCHANGED Promise!promiseVars
<1>1. form \in [Request -> FormType] /\ form[r].pc = "mark" /\ resetOf[k] # None
  BY NoneAssumption DEF MarkUsed, InForm, RInv, RecoveryCore, RecoveryTypeOK, FormConsistent
<1>2. UNCHANGED <<password, resetOf, lapsed, applied, owner, revoked, granted, root, req>>
  BY DEF MarkUsed, vars, tableVars, sessionVars
<1>3. RequestStep(r)
  BY DEF RequestStep
<1>4. UNCHANGED Promise!chainVars
  BY <1>2, ChainsStill
<1>5. \A q \in Request : q # r => form'[q] = form[q]
  BY <1>3, OthersKeep
<1>6. CASE k \notin used
  <2>1. used' = used \cup {k} /\ form' = [form EXCEPT ![r].pc = "set"]
    BY <1>6 DEF MarkUsed, MarkUsable
  <2>2. form'[r].pc = "set" /\ form'[r].reset = k
    BY <1>1, <2>1 DEF FormType
  <2>3. /\ [j \in Reset |-> StateOf(j)'] =
             [[j \in Reset |-> StateOf(j)] EXCEPT ![k] = StateOf(k)']
        /\ [j \in Reset |-> Condemned(j)'] =
             [[j \in Reset |-> Condemned(j)] EXCEPT ![k] = Condemned(k)']
    BY <1>1, <1>2, <1>3, <2>1, <2>2, OnlyTicket
  <2>4. StateOf(k) = "open"
    BY <1>1, <1>6, StateOfOpen DEF InForm
  <2>5. StateOf(k)' = "claimed"
    BY <1>1, <1>2, <2>1, <2>2 DEF StateOf, Holding, InForm
  <2>6. Condemned(k) = {} /\ Condemned(k)' = {}
    <3>1. Holding(k, "force") = {} /\ Condemned(k) = {}
      BY <1>1, <1>6, NoForcer DEF RecoveryInv, RecoveryCore, AppliedUsed
    <3>2. Holding(k, "force")' = {}
      BY <1>5, <2>2, <3>1 DEF Holding, InForm
    <3> QED
      BY <3>1, <3>2 DEF Condemned
  <2> QED
    BY <1>2, <1>4, <2>3, <2>4, <2>5, <2>6 DEF Promise!Claim, Promise!Move
<1>7. CASE k \in used
  <2>1. used' = used /\ form' = [form EXCEPT ![r] = NoForm]
    BY <1>7 DEF MarkUsed, MarkUsable, Close
  <2>2. form'[r].pc = "none"
    BY <1>1, <2>1 DEF NoForm, FormOf
  <2>3. /\ [j \in Reset |-> StateOf(j)'] =
             [[j \in Reset |-> StateOf(j)] EXCEPT ![k] = StateOf(k)']
        /\ [j \in Reset |-> Condemned(j)'] =
             [[j \in Reset |-> Condemned(j)] EXCEPT ![k] = Condemned(k)']
    <3>1. form'[r].pc \notin Standing
      BY <2>2 DEF Standing
    <3> QED
      BY <1>2, <1>3, <2>1, <3>1, OnlyTicket
  <2>4. Holding(k, "set")' = Holding(k, "set") /\ Holding(k, "force")' = Holding(k, "force")
    BY <1>1, <1>5, <2>2 DEF Holding, InForm
  <2>5. StateOf(k)' = StateOf(k)
    BY <1>1, <1>2, <1>7, <2>1, <2>4 DEF StateOf, At
  <2>6. Condemned(k)' = Condemned(k)
    BY <1>1, <1>5, <2>4 DEF Condemned, Holding, InForm
  <2> QED
    BY <1>2, <1>4, <2>3, <2>5, <2>6 DEF Promise!promiseVars, Promise!ticketVars
<1> QED
  BY <1>6, <1>7

LEMMA RedeemMaps ==
  ASSUME RecoveryInv, RInv, NEW r \in Request, NEW k \in Reset, form[r].reset = k,
         SetPassword(r)
  PROVE  Promise!Redeem(k) \/ Promise!End(k)
<1>1. /\ form \in [Request -> FormType] /\ req \in [Request -> RequestType]
      /\ form[r].pc = "set" /\ resetOf[k] = form[r].subj
      /\ k \in used /\ k \notin applied /\ form[r].subj \in Subject
  BY DEF SetPassword, InForm, RInv, RecoveryCore, RecoveryTypeOK, TypeOK, FormConsistent,
     OneSetter
<1>2. UNCHANGED <<resetOf, used, lapsed, owner, revoked, granted, root>>
  BY DEF SetPassword, BeginPurge, vars, tableVars, sessionVars
<1>3. RequestStep(r)
  BY DEF RequestStep
<1>4. UNCHANGED Promise!chainVars
  BY <1>2, ChainsStill
<1>5. \A q \in Request : q # r => form'[q] = form[q]
  BY <1>3, OthersKeep
<1>6. /\ StateOf(k) = "claimed" /\ Holding(k, "set") = {r}
      /\ Holding(k, "force") = {} /\ Condemned(k) = {}
  BY <1>1, StateOfClaimed, NoForcer DEF InForm
<1>7. CASE HasPassword(form[r].subj)
  <2>1. /\ form'[r].pc = "force" /\ form'[r].reset = k
        /\ form'[r].before = {t \in Live : owner[t] = form[r].subj}
        /\ password' = [password EXCEPT ![form[r].subj] = k]
        /\ req'[r].pc = "purge"
    <3>1. req' = [req EXCEPT ![r] = Locals("purge", form[r].subj, None)]
      BY <1>7 DEF SetPassword, BeginPurge, Start
    <3>2. req'[r].pc = "purge"
      BY <1>1, <3>1 DEF Locals
    <3> QED
      BY <1>7, <3>2, SetForm DEF SetPassword
  <2>2. /\ [j \in Reset |-> StateOf(j)'] =
             [[j \in Reset |-> StateOf(j)] EXCEPT ![k] = StateOf(k)']
        /\ [j \in Reset |-> Condemned(j)'] =
             [[j \in Reset |-> Condemned(j)] EXCEPT ![k] = Condemned(k)']
    BY <1>2, <1>3, <2>1, OnlyTicket
  <2>3. Holding(k, "set")' = {} /\ Holding(k, "force")' = {r}
    BY <1>5, <1>6, <2>1 DEF Holding, InForm
  <2>4. StateOf(k)' = "redeemed"
    BY <1>1, <1>2, <2>1, <2>3, NoneAssumption DEF StateOf, At
  <2>5. Condemned(k)' = {t \in Live : IF t \in granted THEN owner[t] = resetOf[k] ELSE FALSE}
    <3>1. Live \subseteq Token /\ Live \subseteq granted
      BY DEF Live, RInv, IInv, TypeOK
    <3> QED
      BY <1>1, <2>1, <2>3, <3>1 DEF Condemned
  <2>6. {t \in Live : IF t \in granted THEN owner[t] = resetOf[k] ELSE FALSE}
        = {t \in Live : [u \in Token |-> IF u \in granted THEN owner[u] ELSE None][t]
                          = resetOf[k]}
    BY DEF Live, RInv, IInv, TypeOK
  <2> QED
    BY <1>1, <1>2, <1>4, <1>6, <2>1, <2>2, <2>4, <2>5, <2>6 DEF Promise!Redeem, Promise!Move
<1>8. CASE ~HasPassword(form[r].subj)
  <2>1. form'[r].pc = "none" /\ password' = password
    BY <1>1, <1>8 DEF SetPassword, Close, NoForm, FormOf
  <2>2. /\ [j \in Reset |-> StateOf(j)'] =
             [[j \in Reset |-> StateOf(j)] EXCEPT ![k] = StateOf(k)']
        /\ [j \in Reset |-> Condemned(j)'] =
             [[j \in Reset |-> Condemned(j)] EXCEPT ![k] = Condemned(k)']
    <3>1. form'[r].pc \notin Standing
      BY <2>1 DEF Standing
    <3> QED
      BY <1>2, <1>3, <3>1, OnlyTicket
  <2>3. Holding(k, "set")' = {} /\ Holding(k, "force")' = {}
    BY <1>5, <1>6, <2>1 DEF Holding, InForm
  <2>4. StateOf(k)' = "over"
    BY <1>1, <1>2, <2>3, NoneAssumption DEF StateOf
  <2>5. Condemned(k)' = {}
    BY <2>3 DEF Condemned
  <2> QED
    BY <1>2, <1>4, <1>6, <2>1, <2>2, <2>4, <2>5 DEF Promise!End, Promise!Move
<1> QED
  BY <1>7, <1>8

LEMMA StopMaps ==
  ASSUME RecoveryInv, RInv, NEW r \in Request, NEW k \in Reset, form[r].reset = k,
         StopForm(r), form[r].pc \in Standing
  PROVE  Promise!End(k) \/ UNCHANGED Promise!promiseVars
<1>1. /\ form \in [Request -> FormType] /\ form[r].pc \in {"mark", "set"}
      /\ form' = [form EXCEPT ![r] = NoForm]
  BY DEF StopForm, Standing, Close, RInv, RecoveryCore, RecoveryTypeOK
<1>2. UNCHANGED <<password, resetOf, used, lapsed, owner, revoked, granted, root, req>>
  BY DEF StopForm, vars, tableVars, sessionVars
<1>3. form'[r].pc = "none" /\ \A q \in Request : q # r => form'[q] = form[q]
  BY <1>1 DEF NoForm, FormOf
<1>4. UNCHANGED Promise!chainVars
  BY <1>2, ChainsStill
<1>5. /\ [j \in Reset |-> StateOf(j)'] =
           [[j \in Reset |-> StateOf(j)] EXCEPT ![k] = StateOf(k)']
      /\ [j \in Reset |-> Condemned(j)'] =
           [[j \in Reset |-> Condemned(j)] EXCEPT ![k] = Condemned(k)']
  <2>1. form'[r].pc \notin Standing /\ RequestStep(r)
    BY <1>3 DEF Standing, RequestStep
  <2> QED
    BY <1>2, <2>1, OnlyTicket
<1>6. Holding(k, "force")' = Holding(k, "force") /\ Condemned(k)' = Condemned(k)
  BY <1>1, <1>3 DEF Holding, InForm, Condemned
<1>7. CASE StateOf(k)' = StateOf(k)
  BY <1>2, <1>4, <1>5, <1>6, <1>7 DEF Promise!promiseVars, Promise!ticketVars
<1>8. CASE StateOf(k)' # StateOf(k)
  <2>1. /\ k \notin applied /\ StateOf(k) \in {"open", "claimed"} /\ StateOf(k)' = "over"
    <3>1. CASE form[r].pc = "mark" /\ k \notin used
      <4>1. StateOf(k) = "open" /\ k \notin applied
        BY <3>1, StateOfOpen DEF InForm, RecoveryInv, RecoveryCore, AppliedUsed
      <4>2. StateOf(k)' \in {"open", "over"}
        BY <1>2, <3>1, <4>1 DEF StateOf
      <4> QED
        BY <1>8, <4>1, <4>2
    <3>2. CASE form[r].pc = "mark" /\ k \in used
      <4>1. Holding(k, "set")' = Holding(k, "set")
        BY <1>3, <3>2 DEF Holding, InForm
      <4>2. StateOf(k)' = StateOf(k)
        BY <1>2, <1>6, <3>2, <4>1 DEF StateOf, At
      <4> QED
        BY <1>8, <4>2
    <3>3. CASE form[r].pc = "set"
      <4>1. StateOf(k) = "claimed" /\ Holding(k, "set") = {r}
        BY <3>3, StateOfClaimed DEF InForm
      <4>2. k \in used \ applied /\ Holding(k, "force") = {} /\ resetOf[k] # None
        BY <3>3, NoForcer DEF InForm, RecoveryInv, RecoveryCore, OneSetter, AppliedUsed
      <4>3. Holding(k, "set")' = {}
        BY <1>3, <4>1 DEF Holding, InForm
      <4>4. StateOf(k)' = "over"
        BY <1>2, <1>6, <4>2, <4>3 DEF StateOf
      <4> QED
        BY <4>1, <4>2, <4>4
    <3> QED
      BY <1>1, <3>1, <3>2, <3>3
  <2>2. Condemned(k) = {}
    BY <2>1, NoForcer
  <2> QED
    BY <1>2, <1>4, <1>5, <1>6, <2>1, <2>2 DEF Promise!End, Promise!Move
<1> QED
  BY <1>7, <1>8

LEMMA SettleMaps ==
  ASSUME RecoveryInv, RInv, NEW r \in Request, NEW k \in Reset, form[r].reset = k,
         PurgeStep(r), PurgeCommit(r), InForm(r, "force")
  PROVE  Promise!Settle(k)
<1>1. /\ form \in [Request -> FormType] /\ req \in [Request -> RequestType]
      /\ Live \subseteq Token
  BY DEF RInv, RecoveryCore, RecoveryTypeOK, IInv, TypeOK, Live
<1>2. /\ At(r, "purging") /\ req'[r].pc = "purged" /\ revoked' = revoked \cup req[r].snap
      /\ UNCHANGED <<owner, granted, root>>
  BY <1>1 DEF PurgeCommit, RevokeAll, Step, At, RequestType
<1>3. form' = form /\ UNCHANGED <<password, resetOf, used, lapsed>>
  BY <1>2 DEF PurgeStep, CloseIfDone
<1>4. /\ [j \in Reset |-> StateOf(j)'] =
           [[j \in Reset |-> StateOf(j)] EXCEPT ![k] = StateOf(k)']
      /\ [j \in Reset |-> Condemned(j)'] =
           [[j \in Reset |-> Condemned(j)] EXCEPT ![k] = Condemned(k)']
  <2>1. form'[r].reset = k /\ RequestStep(r)
    BY <1>3 DEF RequestStep
  <2> QED
    BY <1>3, <2>1, OnlyTicket
<1>5. /\ StateOf(k) = "redeemed" /\ Condemned(k) = form[r].before
      /\ Holding(k, "force") = {r} /\ Holding(k, "set") = {}
      /\ k \in used /\ resetOf[k] # None
  BY <1>2, StateOfForcing DEF At
<1>6. /\ Holding(k, "force")' = {r} /\ Holding(k, "set")' = {}
      /\ Condemned(k)' = Condemned(k)
  BY <1>3, <1>5 DEF Holding, InForm, Condemned
<1>7. StateOf(k)' = "settled"
  BY <1>2, <1>3, <1>5, <1>6 DEF StateOf, At
<1>8. form[r].before \subseteq revoked \cup req[r].snap
  BY <1>2 DEF RecoveryInv, Forcing, At
<1>9. Condemned(k) \cap Live' = {}
  BY <1>2, <1>5, <1>8 DEF Live
<1>10. \E T \in SUBSET Live : Promise!RevokeSet(T)
  <2> DEFINE T == req[r].snap \cap Live
  <2>1. Live' = Live \ T
    BY <1>2 DEF Live
  <2>2. T \in SUBSET Live
    OBVIOUS
  <2>3. Promise!RevokeSet(T)
    BY <1>2, <2>1, <2>2 DEF Promise!RevokeSet
  <2> QED
    BY <2>2, <2>3
<1> QED
  BY <1>3, <1>4, <1>5, <1>6, <1>7, <1>9, <1>10 DEF Promise!Settle, Promise!Move

LEMMA EndMaps ==
  ASSUME RecoveryInv, RInv, NEW r \in Request, NEW k \in Reset, form[r].reset = k,
         PurgeStep(r), Stop(r), InForm(r, "force")
  PROVE  Promise!End(k)
<1>1. form \in [Request -> FormType] /\ req \in [Request -> RequestType]
  BY DEF RInv, RecoveryCore, RecoveryTypeOK, IInv, TypeOK
<1>2. req'[r].pc = "idle" /\ UNCHANGED <<owner, revoked, granted, root>>
  BY <1>1 DEF Stop, Finish, Idle, Locals, tableVars
<1>3. /\ form'[r].pc = "none" /\ \A q \in Request : q # r => form'[q] = form[q]
      /\ UNCHANGED <<password, resetOf, used, lapsed>>
  BY <1>1, <1>2 DEF PurgeStep, CloseIfDone, NoForm, FormOf
<1>4. /\ [j \in Reset |-> StateOf(j)'] =
           [[j \in Reset |-> StateOf(j)] EXCEPT ![k] = StateOf(k)']
      /\ [j \in Reset |-> Condemned(j)'] =
           [[j \in Reset |-> Condemned(j)] EXCEPT ![k] = Condemned(k)']
  <2>1. form'[r].pc \notin Standing /\ RequestStep(r)
    BY <1>3 DEF RequestStep, Standing
  <2> QED
    BY <1>3, <2>1, OnlyTicket
<1>5. /\ StateOf(k) \in {"redeemed", "settled"}
      /\ Holding(k, "force") = {r} /\ Holding(k, "set") = {}
      /\ k \in used /\ resetOf[k] # None
  BY StateOfForcing
<1>6. Holding(k, "force")' = {} /\ Holding(k, "set")' = {}
  BY <1>3, <1>5 DEF Holding, InForm
<1>7. StateOf(k)' = "over" /\ Condemned(k)' = {}
  BY <1>3, <1>5, <1>6 DEF StateOf, Condemned
<1>8. UNCHANGED Promise!chainVars
  BY <1>2, ChainsStill
<1> QED
  BY <1>3, <1>4, <1>5, <1>7, <1>8 DEF Promise!End, Promise!Move

(* Every step is one of the promise or none of its business.               *)
LEMMA StepPromise ==
  RecoveryInv /\ RInv /\ [RecoveryNext]_rvars
    => [Promise!PromiseNext]_(Promise!promiseVars)
<1> SUFFICES ASSUME RecoveryInv, RInv, [RecoveryNext]_rvars
             PROVE  [Promise!PromiseNext]_(Promise!promiseVars)
  OBVIOUS
<1> DEFINE Goal == [Promise!PromiseNext]_(Promise!promiseVars)
           Same == UNCHANGED <<password, resetOf, used, lapsed>>
           Quiet(q) ==
             \/ form'[q] = form[q] /\ (InForm(q, "force") => (At(q, "purged")' <=> At(q, "purged")))
             \/ form[q].pc \notin Standing /\ form'[q].pc \notin Standing
<1>1. form \in [Request -> FormType] /\ req \in [Request -> RequestType]
  BY DEF RInv, RecoveryCore, RecoveryTypeOK, IInv, TypeOK
<1>2. ASSUME Same, \A q \in Request : Quiet(q) PROVE Goal
  BY <1>2, QuietStep
<1>3. ASSUME NEW r \in Request, RequestStep(r), Same, Quiet(r) PROVE Goal
  <2>1. \A q \in Request : q # r => Quiet(q)
    BY <1>3, OthersKeep DEF At
  <2> QED
    BY <1>2, <1>3, <2>1
<1>4. ASSUME NEW k \in Reset,
             \/ \E s \in Subject : Promise!Issue(k, s)
             \/ Promise!Claim(k) \/ Promise!Redeem(k) \/ Promise!Settle(k) \/ Promise!End(k)
      PROVE  Goal
  BY <1>4 DEF Promise!PromiseNext
<1>5. ASSUME NEW r \in Request, RequestStep(r),
             \/ \E s \in Subject : \/ LoginMint(r, s) \/ LoginPartial(r, s)
                                   \/ CompleteLogin(r, s) \/ RequestReset(r, s)
             \/ MintPartial2FA(r)
      PROVE  Goal
  <2>1. Same /\ form[r].pc \in {"none", "partial"} /\ form'[r].pc \notin Standing
    BY <1>1, <1>5 DEF LoginMint, LoginPartial, CompleteLogin, RequestReset, MintPartial2FA,
       Free, InForm, Close, FormOf, NoForm, Standing
  <2> QED
    BY <1>3, <1>5, <2>1 DEF Standing
<1>6. ASSUME NEW r \in Request, NEW k \in Reset, RequestStep(r), ConfirmLookup(r, k)
      PROVE  Goal
  <2>1. /\ UNCHANGED <<password, resetOf, used, lapsed, owner, revoked, granted, root>>
        /\ form[r].pc = "none" /\ form'[r].pc = "mark" /\ form'[r].reset = k
        /\ resetOf[k] # None /\ k \notin used /\ k \notin lapsed
    BY <1>1, <1>6 DEF ConfirmLookup, Free, FormOf, vars, tableVars, sessionVars
  <2>2. /\ [j \in Reset |-> StateOf(j)'] =
             [[j \in Reset |-> StateOf(j)] EXCEPT ![k] = StateOf(k)']
        /\ [j \in Reset |-> Condemned(j)'] =
             [[j \in Reset |-> Condemned(j)] EXCEPT ![k] = Condemned(k)']
    <3>1. form[r].pc \notin Standing
      BY <2>1 DEF Standing
    <3> QED
      BY <1>6, <2>1, <3>1, OnlyTicket
  <2>3. StateOf(k)' = StateOf(k)
    BY <2>1 DEF StateOf
  <2>4. Condemned(k)' = Condemned(k)
    <3>1. \A q \in Request : q # r => form'[q] = form[q]
      BY <1>6, OthersKeep
    <3>2. Holding(k, "force")' = Holding(k, "force") /\ r \notin Holding(k, "force")
      BY <2>1, <3>1 DEF Holding, InForm
    <3> QED
      BY <3>1, <3>2 DEF Condemned, Holding
  <2>5. UNCHANGED Promise!chainVars
    BY <2>1, ChainsStill
  <2> QED
    BY <2>1, <2>2, <2>3, <2>4, <2>5 DEF Promise!promiseVars, Promise!ticketVars
<1>7. ASSUME NEW r \in Request, NEW k \in Reset, IssueReset(r, k) PROVE Goal
  BY <1>4, <1>7, IssueMaps
<1>8. ASSUME NEW r \in Request, MarkUsed(r) \/ SetPassword(r) PROVE Goal
  <2>1. form[r].reset \in Reset
    BY <1>8 DEF MarkUsed, SetPassword, InForm, RInv, RecoveryCore, FormConsistent
  <2> QED
    BY <1>4, <1>8, <2>1, MarkMaps, RedeemMaps
<1>9. ASSUME NEW r \in Request, RequestStep(r), StopForm(r) PROVE Goal
  <2>1. CASE form[r].pc \in Standing
    <3>1. form[r].reset \in Reset
      BY <1>9, <2>1 DEF StopForm, Standing, RInv, RecoveryCore, FormConsistent
    <3> QED
      BY <1>4, <1>9, <2>1, <3>1, StopMaps
  <2>2. CASE form[r].pc \notin Standing
    <3>1. Same /\ form'[r].pc \notin Standing
      BY <1>1, <1>9 DEF StopForm, Close, NoForm, FormOf, Standing
    <3> QED
      BY <1>3, <1>9, <2>2, <3>1
  <2> QED
    BY <2>1, <2>2
<1>10. ASSUME NEW r \in Request, RequestStep(r), \E t \in Token : MintStep(r, t) PROVE Goal
  <2>1. Same /\ At(r, "mint") /\ (form'[r] = form[r] \/ form'[r].pc = "none")
    BY <1>1, <1>10 DEF MintStep, MintLogin, MintRefresh, CloseIfDone, NoForm, FormOf
  <2>2. form[r].pc \notin Standing
    BY <2>1 DEF RecoveryInv, FormMatches, Forcing, Standing, InForm, At
  <2> QED
    BY <1>3, <1>10, <2>1, <2>2 DEF Standing
<1>11. ASSUME NEW r \in Request, RequestStep(r), RefreshStep(r) PROVE Goal
  <2>1. Same /\ form' = form
    BY <1>11 DEF RefreshStep, recoveryVars
  <2>2. ~InForm(r, "force")
    BY <1>11 DEF RefreshStep, RefreshAccount, Rotate, Free, RecoveryInv, Forcing, InForm, At
  <2> QED
    BY <1>3, <1>11, <2>1, <2>2
<1>12. ASSUME NEW r \in Request, RequestStep(r), PurgeStep(r) PROVE Goal
  <2>1. Same /\ (form'[r] = form[r] \/ form'[r].pc = "none")
    BY <1>1, <1>12 DEF PurgeStep, CloseIfDone, NoForm, FormOf
  <2>2. CASE InForm(r, "force")
    <3>1. form[r].reset \in Reset
      BY <2>2, StateOfForcing
    <3>2. CASE PurgeSnapshot(r)
      <4>1. At(r, "purge") /\ req'[r].pc = "purging"
        BY <1>1, <3>2 DEF PurgeSnapshot, At, RequestType
      <4>2. form'[r] = form[r]
        BY <1>12, <4>1 DEF PurgeStep, CloseIfDone
      <4> QED
        BY <1>3, <1>12, <2>1, <4>1, <4>2 DEF At
    <3>3. CASE PurgeCommit(r)
      BY <1>4, <1>12, <2>2, <3>1, <3>3, SettleMaps
    <3>4. CASE Stop(r)
      BY <1>4, <1>12, <2>2, <3>1, <3>4, EndMaps
    <3> QED
      BY <1>12, <3>2, <3>3, <3>4 DEF PurgeStep
  <2>3. CASE ~InForm(r, "force")
    <3>1. req[r].pc # "idle"
      BY <1>12 DEF PurgeStep, PurgeSnapshot, PurgeCommit, Stop, At
    <3>2. form[r].pc \notin Standing
      BY <2>3, <3>1 DEF RecoveryInv, FormMatches, Standing, InForm, At
    <3> QED
      BY <1>3, <1>12, <2>1, <3>2 DEF Standing
  <2> QED
    BY <2>2, <2>3
<1>13. ASSUME NEW k \in Reset, LapseReset(k) PROVE Goal
  BY <1>4, <1>13, LapseMaps
<1>14. ASSUME (\E s \in Subject : LapsePartial(s)) \/ OutsideStep \/ UNCHANGED rvars
       PROVE  Goal
  <2>1. Same /\ form' = form /\ req' = req
    BY <1>14 DEF LapsePartial, OutsideStep, Logout, Expire, DeleteAccount, rvars,
       recoveryVars, vars, sessionVars
  <2> QED
    BY <1>2, <2>1 DEF At
<1> HIDE DEF Goal
<1>15. ASSUME NEW r \in Request, RequestStep(r) PROVE Goal
  BY <1>5, <1>6, <1>7, <1>8, <1>9, <1>10, <1>11, <1>12, <1>15 DEF RequestStep
<1>16. Goal
  BY <1>13, <1>14, <1>15 DEF RecoveryNext
<1> QED
  BY <1>16 DEF Goal

(* The three statements of a confirmation, with no transaction around      *)
(* them, keep the promise: a ticket of one use, whose redemption by its    *)
(* one claimant condemns the sessions of the account, and which is settled *)
(* only when they are gone, however confirmations overlap, fail or die.    *)
THEOREM RecoveryImplementsPromise == RecoverySpec => ImplementsPromise
<1>1. RecoveryInit => Promise!PromiseInit
  BY DEF RecoveryInit, Init, TableInit, Live, StateOf, Condemned, Holding, InForm, NoForm,
     FormOf, Promise!PromiseInit, Promise!ChainInit
<1> QED
  BY RecoveryInvariance, InitRInv, StepRInv, StepPromise, <1>1, PTL
  DEF RecoverySpec, ImplementsPromise, Promise!PromiseSpec
=============================================================================
