----------------------------- MODULE SessionsProps -----------------------------
(***************************************************************************)
(* What sign-ins should guarantee.                                         *)
(***************************************************************************)
EXTENDS Sessions

Live(f) == {t \in Issued : family[t] = f /\ ~revoked[t]}

(* A sign-in never forks and never goes back: however many requests present its
   tokens at the same time, none but the latest is good
   (refreshRotation.js:18-25). *)
OneLiveToken ==
  TypeOK /\ \A s, t \in Issued : family[s] = family[t] /\ s < t => revoked[s]

families == INSTANCE TokenFamilies WITH
  state <- [f \in Family |->
    IF \A t \in Issued : family[t] # f THEN "unused"
    ELSE IF Live(f) # {} THEN "live" ELSE "closed"],
  tokens <- [f \in Family |-> Cardinality({t \in Issued : family[t] = f})]

(* A sign-in that was ended, by a reuse, a logout or a change of the account,
   does not come back, not even by a rotation that had been checked before
   (refreshRotation.js:21-25). *)
ImplementsFamilies == families!Spec

(* After a logoutAll, an edit of a console account or a new password for it, all
   of which raise the version, a request that begins later does not rotate a
   token of before, even if the tokens were not revoked or could not be, or the
   token is of a login that was under way (AuthService.js:205,
   AdminUserService.js:122).  What is done to a vendor's account raises nothing
   and has no such guarantee (ApiUserService.js:103-127). *)
OldVersionsEnd ==
  [][\A r \in Request :
       pc[r] = "claim" /\ issued' > issued /\ pc'[r] = "idle" =>
         version[token[r]] >= floor[r]]_vars
=============================================================================
