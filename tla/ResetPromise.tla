---------------------------- MODULE ResetPromise ----------------------------
(***************************************************************************)
(* What a password reset promises on top of SessionChains, whatever        *)
(* confirmations of it overlap, fail or die.  A reset is a ticket of one   *)
(* use: it stands open until it is claimed or runs out; its claimant alone *)
(* may set the password, once; that condemns the sessions alive then, and  *)
(* the ticket is settled, which is what a client is answered, only when    *)
(* none of those is left.  At any point before the ticket may come to      *)
(* nothing, and it never comes back.                                       *)
(***************************************************************************)
EXTENDS SessionChains

CONSTANT Reset

VARIABLES
  secret,     \* the password of each account, named by the ticket that set it
  ticket,     \* where each ticket stands
  bearer,     \* whose password a ticket sets
  condemned   \* sessions alive when a ticket was redeemed

ticketVars == <<secret, ticket, bearer, condemned>>
promiseVars == <<chainVars, ticketVars>>

PromiseInit ==
  /\ ChainInit
  /\ secret = [s \in Subject |-> None]
  /\ ticket = [k \in Reset |-> "none"]
  /\ bearer = [k \in Reset |-> None]
  /\ condemned = [k \in Reset |-> {}]

Move(k, from, to) ==
  /\ ticket[k] \in from
  /\ ticket' = [ticket EXCEPT ![k] = to]

Issue(k, s) ==
  /\ Move(k, {"none"}, "open")
  /\ bearer' = [bearer EXCEPT ![k] = s]
  /\ UNCHANGED <<chainVars, secret, condemned>>

Claim(k) ==
  /\ Move(k, {"open"}, "claimed")
  /\ UNCHANGED <<chainVars, secret, bearer, condemned>>

Redeem(k) ==
  /\ Move(k, {"claimed"}, "redeemed")
  /\ secret' = [secret EXCEPT ![bearer[k]] = k]
  /\ condemned' = [condemned EXCEPT ![k] = {t \in live : holder[t] = bearer[k]}]
  /\ UNCHANGED <<chainVars, bearer>>

Settle(k) ==
  /\ Move(k, {"redeemed"}, "settled")
  /\ \E T \in SUBSET live : RevokeSet(T)
  /\ condemned[k] \cap live' = {}
  /\ UNCHANGED <<secret, bearer, condemned>>

End(k) ==
  /\ Move(k, {"open", "claimed", "redeemed", "settled"}, "over")
  /\ condemned' = [condemned EXCEPT ![k] = {}]
  /\ UNCHANGED <<chainVars, secret, bearer>>

PromiseNext ==
  \/ ChainNext /\ UNCHANGED ticketVars
  \/ \E k \in Reset : \/ \E s \in Subject : Issue(k, s)
                      \/ Claim(k) \/ Redeem(k) \/ Settle(k) \/ End(k)

PromiseSpec == PromiseInit /\ [][PromiseNext]_promiseVars
=============================================================================
