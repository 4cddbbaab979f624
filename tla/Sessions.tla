------------------------------- MODULE Sessions -------------------------------
(***************************************************************************)
(* Sign-ins of one account: login, rotation, logout and logoutAll of       *)
(* src/service/AuthService.js and its twin lib/admin/service/              *)
(* AdminAuthService.js, with the changes of the account that end sign-ins: *)
(* those of a console account (AdminUserService.js) raise its version,     *)
(* those of a vendor's account (ApiUserService.js) do not.  Removing an    *)
(* account is left out.                                                    *)
(*                                                                         *)
(* An action is one statement, or one transaction, of the database; between *)
(* any two of a request those of others may come.  A client may present    *)
(* any token that was ever issued to it.  A repetition after a conflict    *)
(* (retryRefreshConflict) starts from what the rollback restored and so    *)
(* leaves no trace; a statement may also fail for good.  replaced_by_id is *)
(* read by nobody and left out.                                            *)
(***************************************************************************)
EXTENDS Naturals, FiniteSets

CONSTANTS
  Request,      \* requests that can be in flight together
  MaxTokens,    \* bound: tokens issued
  MaxFamilies,  \* bound: sign-ins
  MaxChanges    \* bound: changes that raise the version of the account

ASSUME SessionBounds == {MaxTokens, MaxFamilies, MaxChanges} \subseteq Nat

Token == 1..MaxTokens
Family == 1..MaxFamilies

VARIABLES
  issued,    \* how many tokens there are
  family,    \* family_id of each token, 0 for those not issued
  version,   \* token_version of each token
  revoked,   \* is revoked_at of each token set?
  expired,   \* has expires_at of each token passed?
  opened,    \* how many families there are
  account,   \* token_version of the account
  active,    \* is its status 'active'?
  vendor,    \* is it a vendor's account, one of the users of the application?
  pc,        \* what each request does next
  token,     \* the token each request has read, 0 for none
  known,     \* the version of the account that each request has read
  floor      \* history: the version of the account when each request began

tokenVars == <<issued, family, version, revoked, opened>>
accountVars == <<account, active, vendor>>
requestVars == <<pc, token, known, floor>>
vars == <<tokenVars, expired, accountVars, requestVars>>

Step == {"idle", "reuse", "account", "claim", "issue", "logout", "revokeAll"}

TypeOK ==
  /\ issued \in 0..MaxTokens
  /\ family \in [Token -> 0..MaxFamilies]
  /\ version \in [Token -> 0..MaxChanges]
  /\ revoked \in [Token -> BOOLEAN]
  /\ expired \in [Token -> BOOLEAN]
  /\ opened \in 0..MaxFamilies
  /\ account \in 0..MaxChanges
  /\ active \in BOOLEAN
  /\ vendor \in BOOLEAN
  /\ pc \in [Request -> Step]
  /\ token \in [Request -> 0..MaxTokens]
  /\ known \in [Request -> 0..MaxChanges]
  /\ floor \in [Request -> 0..MaxChanges]

Init ==
  /\ issued = 0 /\ opened = 0
  /\ family = [t \in Token |-> 0]
  /\ version = [t \in Token |-> 0]
  /\ revoked = [t \in Token |-> FALSE]
  /\ expired = [t \in Token |-> FALSE]
  /\ account = 0
  /\ active = TRUE
  /\ vendor \in BOOLEAN
  /\ pc = [r \in Request |-> "idle"]
  /\ token = [r \in Request |-> 0]
  /\ known = [r \in Request |-> 0]
  /\ floor = [r \in Request |-> 0]

Issued == 1..issued
FamilyOf(t) == {s \in Issued : family[s] = family[t]}

-----------------------------------------------------------------------------
(* A request begins with step p, goes on to step p, or is answered.  What an
   answered request has read is forgotten. *)
Begin(r, p, t) ==
  /\ pc[r] = "idle"
  /\ pc' = [pc EXCEPT ![r] = p]
  /\ token' = [token EXCEPT ![r] = t]
  /\ known' = [known EXCEPT ![r] = account]
  /\ floor' = [floor EXCEPT ![r] = account]

GoOn(r, p) == pc' = [pc EXCEPT ![r] = p] /\ UNCHANGED <<token, known, floor>>

Answer(r) ==
  /\ pc' = [pc EXCEPT ![r] = "idle"]
  /\ token' = [token EXCEPT ![r] = 0]
  /\ known' = [known EXCEPT ![r] = 0]
  /\ floor' = [floor EXCEPT ![r] = 0]

(* insertRefreshToken *)
Issue(f, v, revocations) ==
  /\ issued < MaxTokens
  /\ issued' = issued + 1
  /\ family' = [family EXCEPT ![issued'] = f]
  /\ version' = [version EXCEPT ![issued'] = v]
  /\ revoked' = [t \in Token |-> revoked[t] \/ t \in revocations]

(* revokeTokenFamily, revokeRefreshToken, revokeAllUserTokens *)
Revoke(ts) ==
  /\ revoked' = [t \in Token |-> revoked[t] \/ t \in ts]
  /\ UNCHANGED <<issued, family, version, opened>>

(* Any statement can fail: the request is answered with an error. *)
StatementFails(r) ==
  /\ pc[r] # "idle"
  /\ Answer(r)
  /\ UNCHANGED <<tokenVars, expired, accountVars>>

Expires(t) ==
  /\ ~expired[t]
  /\ expired' = [expired EXCEPT ![t] = TRUE]
  /\ UNCHANGED <<tokenVars, accountVars, requestVars>>

-----------------------------------------------------------------------------
(* login(): the account is read, the password is verified, the tokens are
   issued. *)

LoginReads(r) ==
  /\ active
  /\ Begin(r, "issue", 0)
  /\ UNCHANGED <<tokenVars, expired, accountVars>>

LoginIssues(r) ==
  /\ pc[r] = "issue"
  /\ opened < MaxFamilies
  /\ opened' = opened + 1
  /\ Issue(opened', known[r], {})
  /\ Answer(r)
  /\ UNCHANGED <<expired, accountVars>>

-----------------------------------------------------------------------------
(* rotate() *)

(* findRefreshToken: an expired token is refused, a revoked one is a reuse. *)
RotateReads(r, t) ==
  /\ ~expired[t]
  /\ Begin(r, IF revoked[t] THEN "reuse" ELSE "account", t)
  /\ UNCHANGED <<tokenVars, expired, accountVars>>

ReuseRevokes(r) ==
  /\ pc[r] = "reuse"
  /\ Revoke(FamilyOf(token[r]))
  /\ Answer(r)
  /\ UNCHANGED <<expired, accountVars>>

RotateChecks_Faulty(r) ==   \* the version is not compared
  /\ pc[r] = "account"
  /\ \/ active /\ GoOn(r, "claim")
     \/ ~active /\ Answer(r)
  /\ UNCHANGED <<tokenVars, expired, accountVars>>

(* findUserById *)
RotateChecks(r) ==
  /\ pc[r] = "account"
  /\ LET available == active /\ version[token[r]] = account
     IN \/ available /\ GoOn(r, "claim")
        \/ ~available /\ Answer(r)
  /\ UNCHANGED <<tokenVars, expired, accountVars>>

RotateClaims_Faulty(r) ==   \* claimed without a condition
  /\ pc[r] = "claim"
  /\ Issue(family[token[r]], version[token[r]], {token[r]})
  /\ Answer(r)
  /\ UNCHANGED <<opened, expired, accountVars>>

(* rotateToken(): the transaction that claims the token and issues its
   successor, or revokes the family if it comes too late. *)
RotateClaims(r) ==
  /\ pc[r] = "claim"
  /\ LET t == token[r]
         claimed == ~revoked[t] /\ ~expired[t]
     IN \/ claimed /\ Issue(family[t], version[t], {t}) /\ UNCHANGED opened
        \/ ~claimed /\ Revoke(FamilyOf(t))
  /\ Answer(r)
  /\ UNCHANGED <<expired, accountVars>>

-----------------------------------------------------------------------------
(* logout() *)

LogoutReads(r, t) ==
  /\ ~revoked[t]
  /\ Begin(r, "logout", t)
  /\ UNCHANGED <<tokenVars, expired, accountVars>>

LogoutRevokes_Faulty(r) ==   \* revoked_at is cleared like replaced_by_id
  /\ pc[r] = "logout"
  /\ revoked' = [revoked EXCEPT ![token[r]] = ~@]
  /\ Answer(r)
  /\ UNCHANGED <<issued, family, version, opened, expired, accountVars>>

(* revokeRefreshToken, whatever has become of the token *)
LogoutRevokes(r) ==
  /\ pc[r] = "logout"
  /\ Revoke({token[r]})
  /\ Answer(r)
  /\ UNCHANGED <<expired, accountVars>>

-----------------------------------------------------------------------------
(* What ends all sign-ins: one statement on the account and, if the tokens are
   to end with it, another on the tokens. *)

VersionRaised == account < MaxChanges /\ account' = account + 1

(* logoutAll(), of either kind of account, and changePassword() of the console *)
LogoutAll(r) ==
  /\ VersionRaised
  /\ Begin(r, "revokeAll", 0)
  /\ UNCHANGED <<tokenVars, expired, active, vendor>>

(* update() of the console.  The tokens end if the account was active when it
   was read, some statements ago, and is disabled now. *)
ConsoleEdit(r) ==
  /\ ~vendor
  /\ VersionRaised
  /\ active' \in BOOLEAN
  /\ \/ ~active' /\ Begin(r, "revokeAll", 0)
     \/ pc[r] = "idle" /\ UNCHANGED requestVars
  /\ UNCHANGED <<tokenVars, expired, vendor>>

(* update() of a vendor's account: the version stays. *)
VendorEdit(r) ==
  /\ vendor
  /\ active' \in BOOLEAN
  /\ \/ ~active' /\ Begin(r, "revokeAll", 0)
     \/ active' /\ pc[r] = "idle" /\ UNCHANGED requestVars
  /\ UNCHANGED <<tokenVars, expired, account, vendor>>

(* resetPassword() of a vendor's account, or revokeTokens() by itself: the
   version stays, and a login that has verified the old password goes on. *)
VendorPassword(r) ==
  /\ vendor
  /\ Begin(r, "revokeAll", 0)
  /\ UNCHANGED <<tokenVars, expired, accountVars>>

RevokesAll(r) ==
  /\ pc[r] = "revokeAll"
  /\ Revoke(Issued)
  /\ Answer(r)
  /\ UNCHANGED <<expired, accountVars>>

-----------------------------------------------------------------------------
Next ==
  \/ \E r \in Request :
       \/ LoginReads(r) \/ LoginIssues(r)
       \/ ReuseRevokes(r) \/ RotateChecks(r) \/ RotateClaims(r)
       \/ LogoutRevokes(r)
       \/ LogoutAll(r) \/ ConsoleEdit(r) \/ VendorEdit(r) \/ VendorPassword(r)
       \/ RevokesAll(r)
       \/ StatementFails(r)
  \/ \E r \in Request, t \in Issued : RotateReads(r, t) \/ LogoutReads(r, t)
  \/ \E t \in Issued : Expires(t)

Spec == Init /\ [][Next]_vars
=============================================================================
