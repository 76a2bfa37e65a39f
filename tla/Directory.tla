------------------------------ MODULE Directory ------------------------------
(***************************************************************************)
(* What the service promises of its accounts, whatever happens inside: a   *)
(* request asks once, is settled in one step against the directory as it   *)
(* is at that moment, and then goes away with a session, a voucher for     *)
(* the second factor, or nothing.  An e-mail belongs to one live user at   *)
(* most and becomes free again when that user is closed.  The service may  *)
(* turn any request away at any time, but admits none that the directory   *)
(* did not settle.                                                         *)
(***************************************************************************)
CONSTANTS User, Admin, Mail, Password, Request, None

Holder == User \cup Admin

VARIABLES
  mailOf,    \* the e-mail of each account, None without one
  secretOf,  \* its password
  closed,    \* accounts deleted
  voucher,   \* accounts, with the password given, let in but for a code
  talk       \* each request: what it asks, or what it has been settled to

directoryVars == <<mailOf, secretOf, closed, voucher, talk>>

Talk(state, m, w, a) == [state |-> state, mail |-> m, secret |-> w, who |-> a]

Silent == Talk("silent", None, None, None)

Settle(r, state, a) ==
  talk' = [talk EXCEPT ![r] = Talk(state, talk[r].mail, talk[r].secret, a)]

Live(a) == mailOf[a] # None /\ a \notin closed

Belongs(m) == \E u \in User : Live(u) /\ mailOf[u] = m

DirectoryInit ==
  /\ mailOf \in [Holder -> Mail \cup {None}] /\ \A u \in User : mailOf[u] = None
  /\ secretOf \in [Holder -> Password \cup {None}]
  /\ closed = {} /\ voucher = {}
  /\ talk = [r \in Request |-> Silent]

Ask(r) ==
  /\ talk[r] = Silent
  /\ UNCHANGED <<mailOf, secretOf, closed, voucher>>
  /\ \E state \in {"joining", "entering"}, m \in Mail, w \in Password :
       talk' = [talk EXCEPT ![r] = Talk(state, m, w, None)]

Join(r) ==
  /\ talk[r].state = "joining" /\ ~Belongs(talk[r].mail)
  /\ UNCHANGED <<closed, voucher>>
  /\ \E u \in User :
       /\ mailOf[u] = None
       /\ mailOf' = [mailOf EXCEPT ![u] = talk[r].mail]
       /\ secretOf' = [secretOf EXCEPT ![u] = talk[r].secret]
       /\ Settle(r, "admitted", u)

Clash(r) ==
  /\ talk[r].state = "joining" /\ Belongs(talk[r].mail)
  /\ Settle(r, "clash", None)
  /\ UNCHANGED <<mailOf, secretOf, closed, voucher>>

Admit(r) ==
  /\ talk[r].state = "entering"
  /\ UNCHANGED <<mailOf, secretOf, closed, voucher>>
  /\ \E a \in Holder :
       /\ Live(a) /\ mailOf[a] = talk[r].mail /\ secretOf[a] = talk[r].secret
       /\ Settle(r, "admitted", a)

Redeem(r) ==
  /\ talk[r] = Silent
  /\ UNCHANGED <<mailOf, secretOf, closed, voucher>>
  /\ \E v \in voucher : talk' = [talk EXCEPT ![r] = Talk("admitted", None, v[2], v[1])]

Vouch(r) ==
  /\ talk[r].state = "admitted"
  /\ voucher' = voucher \cup {<<talk[r].who, talk[r].secret>>}
  /\ talk' = [talk EXCEPT ![r] = Silent]
  /\ UNCHANGED <<mailOf, secretOf, closed>>

(* With the session, with the answer to a clash, or for no good reason. *)
HangUp(r) ==
  /\ talk[r] # Silent
  /\ talk' = [talk EXCEPT ![r] = Silent]
  /\ UNCHANGED <<mailOf, secretOf, closed, voucher>>

(* Whoever keeps the directory: new passwords, closures, vouchers lapsing. *)
Replace(a, w) ==
  /\ Live(a)
  /\ secretOf' = [secretOf EXCEPT ![a] = w]
  /\ UNCHANGED <<mailOf, closed, voucher>>

Close(a) ==
  /\ closed' = closed \cup {a}
  /\ UNCHANGED <<mailOf, secretOf, voucher>>

Forget(v) ==
  /\ voucher' = voucher \ {v}
  /\ UNCHANGED <<mailOf, secretOf, closed>>

Keep ==
  /\ UNCHANGED talk
  /\ \/ \E a \in Holder : Close(a) \/ \E w \in Password : Replace(a, w)
     \/ \E v \in voucher : Forget(v)

DirectoryNext ==
  \/ \E r \in Request : \/ Ask(r) \/ Join(r) \/ Clash(r) \/ Admit(r)
                        \/ Redeem(r) \/ Vouch(r) \/ HangUp(r)
  \/ Keep

DirectorySpec == DirectoryInit /\ [][DirectoryNext]_directoryVars
=============================================================================
