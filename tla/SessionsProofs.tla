----------------------------- MODULE SessionsProofs -----------------------------
(***************************************************************************)
(* For any number of requests, tokens, sign-ins and changes of the account: *)
(* a sign-in never forks, it is what TokenFamilies says it is, and a       *)
(* rotation uses no token from before the account that its request found.  *)
(*                                                                         *)
(* OneLiveToken is kept by a rotation because the token it claims was live, *)
(* so that all the others of its family were not.  A new sign-in opens a   *)
(* family that no token has (FamiliesCount).                               *)
(***************************************************************************)
EXTENDS SessionsProps, FiniteSetTheorems, TLAPS

OneLive == \A s, t \in Issued : family[s] = family[t] /\ s < t => revoked[s]

(* Every token belongs to a family that was opened, and every family opened
   has a token. *)
FamiliesCount ==
  /\ \A t \in Issued : family[t] \in 1..opened
  /\ \A f \in 1..opened : \E t \in Issued : family[t] = f

(* A token starts out good. *)
Fresh == \A t \in Token \ Issued : ~revoked[t]

(* A request has read a token that was issued. *)
ReadsIssued ==
  \A r \in Request : pc[r] \in {"reuse", "account", "claim", "logout"} => token[r] \in Issued

(* What a request was checked against is not older than what it found. *)
Checked ==
  \A r \in Request :
    /\ floor[r] <= account
    /\ pc[r] = "claim" => version[token[r]] >= floor[r]

SessionInv ==
  /\ TypeOK
  /\ OneLive
  /\ FamiliesCount
  /\ Fresh
  /\ ReadsIssued
  /\ Checked

-----------------------------------------------------------------------------
LEMMA IssuedType == ASSUME TypeOK PROVE issued \in Nat /\ issued <= MaxTokens
                                        /\ Issued \subseteq Token /\ opened \in Nat
BY SessionBounds DEF TypeOK, Issued, Token

(* What requests read and write down about themselves is typed. *)
LEMMA BeginKeeps ==
  ASSUME TypeOK, NEW r \in Request, NEW p \in Step, NEW t \in 0..MaxTokens, Begin(r, p, t)
  PROVE  /\ pc' \in [Request -> Step] /\ token' \in [Request -> 0..MaxTokens]
         /\ known' \in [Request -> 0..MaxChanges] /\ floor' \in [Request -> 0..MaxChanges]
         /\ pc'[r] = p /\ token'[r] = t /\ floor'[r] = account
         /\ \A q \in Request \ {r} :
              pc'[q] = pc[q] /\ token'[q] = token[q] /\ floor'[q] = floor[q]
<1>1. /\ pc \in [Request -> Step] /\ token \in [Request -> 0..MaxTokens]
      /\ known \in [Request -> 0..MaxChanges] /\ floor \in [Request -> 0..MaxChanges]
      /\ account \in 0..MaxChanges
  BY Zenon DEF TypeOK
<1> QED
  BY <1>1 DEF Begin

LEMMA AnswerKeeps ==
  ASSUME TypeOK, NEW r \in Request, Answer(r)
  PROVE  /\ pc' \in [Request -> Step] /\ token' \in [Request -> 0..MaxTokens]
         /\ known' \in [Request -> 0..MaxChanges] /\ floor' \in [Request -> 0..MaxChanges]
         /\ pc'[r] = "idle" /\ floor'[r] = 0
         /\ \A q \in Request \ {r} :
              pc'[q] = pc[q] /\ token'[q] = token[q] /\ floor'[q] = floor[q]
<1>1. /\ pc \in [Request -> Step] /\ token \in [Request -> 0..MaxTokens]
      /\ known \in [Request -> 0..MaxChanges] /\ floor \in [Request -> 0..MaxChanges]
  BY Zenon DEF TypeOK
<1>2. "idle" \in Step /\ 0 \in 0..MaxTokens /\ 0 \in 0..MaxChanges
  BY SessionBounds DEF Step
<1> QED
  BY <1>1, <1>2 DEF Answer

(* Requests that change nothing but themselves keep the invariant. *)
LEMMA RequestKeeps ==
  ASSUME SessionInv, UNCHANGED <<tokenVars, expired, accountVars>>, NEW r \in Request,
         /\ pc' \in [Request -> Step] /\ token' \in [Request -> 0..MaxTokens]
         /\ known' \in [Request -> 0..MaxChanges] /\ floor' \in [Request -> 0..MaxChanges],
         pc'[r] # "idle" => token'[r] \in Issued \/ pc'[r] \in {"issue", "revokeAll"},
         floor'[r] <= account,
         pc'[r] = "claim" => version[token'[r]] >= floor'[r],
         \A q \in Request \ {r} :
           pc'[q] = pc[q] /\ token'[q] = token[q] /\ floor'[q] = floor[q]
  PROVE  SessionInv'
<1>1. UNCHANGED <<issued, family, version, revoked, opened, expired, account, active, vendor>>
  BY DEF tokenVars, accountVars
<1>2. TypeOK'
  <2>1. /\ family' \in [Token -> 0..MaxFamilies] /\ version' \in [Token -> 0..MaxChanges]
        /\ revoked' \in [Token -> BOOLEAN] /\ expired' \in [Token -> BOOLEAN]
    BY <1>1, Zenon DEF SessionInv, TypeOK
  <2>2. /\ issued' \in 0..MaxTokens /\ opened' \in 0..MaxFamilies /\ account' \in 0..MaxChanges
        /\ active' \in BOOLEAN /\ vendor' \in BOOLEAN
    BY <1>1, Zenon DEF SessionInv, TypeOK
  <2> QED
    BY <2>1, <2>2, Zenon DEF TypeOK
<1>3. OneLive' /\ FamiliesCount' /\ Fresh'
  BY <1>1 DEF SessionInv, OneLive, FamiliesCount, Fresh, Issued
<1>4. ReadsIssued'
  BY <1>1 DEF SessionInv, ReadsIssued, Issued
<1>5. Checked'
  BY <1>1 DEF SessionInv, Checked
<1> QED
  BY <1>2, <1>3, <1>4, <1>5 DEF SessionInv

(* A token more, in a family that has no live one left, or in a new one. *)
LEMMA IssueKeeps ==
  ASSUME SessionInv, NEW r \in Request, Answer(r), UNCHANGED <<expired, accountVars>>,
         NEW f \in 1..MaxFamilies, NEW v \in 0..MaxChanges, NEW rs \in SUBSET Issued,
         Issue(f, v, rs),
         \/ /\ opened' = opened /\ f \in 1..opened
            /\ \A t \in Issued : family[t] = f => revoked[t] \/ t \in rs
         \/ opened' = opened + 1 /\ f = opened'
  PROVE  SessionInv'
<1>1. /\ issued < MaxTokens /\ issued' = issued + 1
      /\ family' = [family EXCEPT ![issued'] = f]
      /\ version' = [version EXCEPT ![issued'] = v]
      /\ revoked' = [t \in Token |-> revoked[t] \/ t \in rs]
  BY DEF Issue
<1>2. /\ family \in [Token -> 0..MaxFamilies] /\ version \in [Token -> 0..MaxChanges]
      /\ revoked \in [Token -> BOOLEAN] /\ expired \in [Token -> BOOLEAN]
  BY Zenon DEF SessionInv, TypeOK
<1>3. /\ issued \in 0..MaxTokens /\ opened \in 0..MaxFamilies /\ account \in 0..MaxChanges
      /\ active \in BOOLEAN /\ vendor \in BOOLEAN /\ TypeOK
  BY Zenon DEF SessionInv, TypeOK
<1>4. /\ issued' \in Token /\ issued' \notin Issued /\ Issued' = Issued \cup {issued'}
      /\ Issued \subseteq Token /\ opened' \in 0..MaxFamilies
      /\ issued' \in 0..MaxTokens /\ \A t \in Issued : t < issued'
  BY <1>1, <1>3, SessionBounds DEF Issued, Token
<1>5. /\ family' \in [Token -> 0..MaxFamilies] /\ version' \in [Token -> 0..MaxChanges]
      /\ family'[issued'] = f
      /\ \A t \in Issued : family'[t] = family[t] /\ version'[t] = version[t]
  BY <1>1, <1>2, <1>4
<1>6. /\ revoked' \in [Token -> BOOLEAN]
      /\ \A t \in Issued : revoked[t] \/ t \in rs => revoked'[t]
  BY <1>1, <1>2, <1>4, Zenon
<1>7. account' = account /\ active' = active /\ vendor' = vendor /\ expired' = expired
  BY DEF accountVars
<1>8. /\ pc' \in [Request -> Step] /\ token' \in [Request -> 0..MaxTokens]
      /\ known' \in [Request -> 0..MaxChanges] /\ floor' \in [Request -> 0..MaxChanges]
      /\ pc'[r] = "idle" /\ floor'[r] = 0
      /\ \A q \in Request \ {r} :
           pc'[q] = pc[q] /\ token'[q] = token[q] /\ floor'[q] = floor[q]
  BY <1>3, AnswerKeeps
<1>9. TypeOK'
  BY <1>2, <1>3, <1>4, <1>5, <1>6, <1>7, <1>8, Zenon DEF TypeOK
<1>10. FamiliesCount'
  <2>1. \A t \in Issued' : family'[t] \in 1..opened'
    BY <1>3, <1>4, <1>5 DEF SessionInv, FamiliesCount
  <2>2. \A g \in 1..opened' : g \in 1..opened \/ g = f
    BY <1>3
  <2>3. \A g \in 1..opened' : \E t \in Issued' : family'[t] = g
    BY <1>4, <1>5, <2>2 DEF SessionInv, FamiliesCount
  <2> QED
    BY <2>1, <2>3 DEF FamiliesCount
<1>11. \A t \in Issued : family[t] = f => revoked'[t]
  <2>1. CASE opened' = opened + 1 /\ f = opened'
    BY <1>3, <2>1 DEF SessionInv, FamiliesCount
  <2> QED
    BY <1>6, <2>1
<1>12. OneLive'
  <2> SUFFICES ASSUME NEW s \in Issued', NEW t \in Issued', family'[s] = family'[t], s < t
               PROVE  revoked'[s]
    BY DEF OneLive
  <2>1. s \in Issued
    <3>1. issued' \in Nat /\ t \in Nat /\ t <= issued'
      BY <1>3, <1>4 DEF Issued
    <3>2. s # issued'
      BY <3>1
    <3> QED
      BY <1>4, <3>2
  <2>2. CASE t \in Issued
    BY <1>5, <1>6, <2>1, <2>2 DEF SessionInv, OneLive
  <2>3. CASE t = issued'
    BY <1>5, <1>11, <2>1, <2>3
  <2> QED
    BY <1>4, <2>2, <2>3
<1>13. ReadsIssued'
  BY <1>4, <1>8 DEF SessionInv, ReadsIssued
<1>14. Checked'
  <2>1. \A q \in Request : floor'[q] <= account'
    BY <1>3, <1>7, <1>8 DEF SessionInv, Checked
  <2>2. \A q \in Request : pc'[q] = "claim" => version'[token'[q]] >= floor'[q]
    BY <1>5, <1>8 DEF SessionInv, Checked, ReadsIssued
  <2> QED
    BY <2>1, <2>2 DEF Checked
<1>15. Fresh'
  <2>1. \A t \in Token \ Issued : ~revoked'[t]
    BY <1>1, Zenon DEF SessionInv, Fresh
  <2> QED
    BY <1>4, <2>1 DEF Fresh
<1> QED
  BY <1>9, <1>10, <1>12, <1>13, <1>14, <1>15 DEF SessionInv

LEMMA RevokeKeeps ==
  ASSUME SessionInv, NEW r \in Request, Answer(r), UNCHANGED <<expired, accountVars>>,
         NEW ts \in SUBSET Issued, Revoke(ts)
  PROVE  SessionInv'
<1>1. /\ family \in [Token -> 0..MaxFamilies] /\ version \in [Token -> 0..MaxChanges]
      /\ revoked \in [Token -> BOOLEAN] /\ expired \in [Token -> BOOLEAN]
  BY Zenon DEF SessionInv, TypeOK
<1>2. /\ issued \in 0..MaxTokens /\ opened \in 0..MaxFamilies /\ account \in 0..MaxChanges
      /\ active \in BOOLEAN /\ vendor \in BOOLEAN /\ TypeOK
  BY Zenon DEF SessionInv, TypeOK
<1>3. /\ revoked' \in [Token -> BOOLEAN] /\ \A t \in Token : revoked[t] => revoked'[t]
  BY <1>1, Zenon DEF Revoke
<1>4. UNCHANGED <<issued, family, version, opened, expired, account, active, vendor>>
  BY DEF Revoke, accountVars
<1>5. /\ pc' \in [Request -> Step] /\ token' \in [Request -> 0..MaxTokens]
      /\ known' \in [Request -> 0..MaxChanges] /\ floor' \in [Request -> 0..MaxChanges]
      /\ pc'[r] = "idle" /\ floor'[r] = 0
      /\ \A q \in Request \ {r} :
           pc'[q] = pc[q] /\ token'[q] = token[q] /\ floor'[q] = floor[q]
  BY <1>2, AnswerKeeps
<1>6. TypeOK'
  BY <1>1, <1>2, <1>3, <1>4, <1>5, Zenon DEF TypeOK
<1>7. OneLive' /\ FamiliesCount'
  BY <1>2, <1>3, <1>4, IssuedType DEF SessionInv, OneLive, FamiliesCount, Issued
<1>10. Fresh'
  <2>1. \A t \in Token \ Issued : ~revoked'[t]
    BY <1>1, Zenon DEF SessionInv, Fresh, Revoke
  <2> QED
    BY <1>4, <2>1 DEF Fresh, Issued
<1>8. ReadsIssued'
  BY <1>4, <1>5 DEF SessionInv, ReadsIssued, Issued
<1>9. Checked'
  BY <1>2, <1>4, <1>5 DEF SessionInv, Checked
<1> QED
  BY <1>6, <1>7, <1>8, <1>9, <1>10 DEF SessionInv

(* A change of the account, whether it raises the version or not, disturbs no
   request that was checked before: what it found is older still. *)
LEMMA AccountKeeps ==
  ASSUME SessionInv, UNCHANGED <<tokenVars, expired>>, NEW r \in Request,
         active' \in BOOLEAN, vendor' \in BOOLEAN,
         account' = account \/ VersionRaised,
         Begin(r, "revokeAll", 0) \/ UNCHANGED requestVars
  PROVE  SessionInv'
<1>1. /\ TypeOK /\ account \in 0..MaxChanges /\ 0 \in 0..MaxTokens
      /\ version \in [Token -> 0..MaxChanges] /\ floor \in [Request -> 0..MaxChanges]
      /\ known \in [Request -> 0..MaxChanges] /\ token \in [Request -> 0..MaxTokens]
      /\ pc \in [Request -> Step]
  <2>1. 0 \in 0..MaxTokens
    BY SessionBounds
  <2> QED
    BY <2>1, Zenon DEF SessionInv, TypeOK
<1>2. UNCHANGED <<issued, family, version, revoked, opened, expired>>
  BY DEF tokenVars
<1>3. account' \in 0..MaxChanges /\ account <= account' /\ account \in Nat
  BY <1>1, SessionBounds DEF VersionRaised
<1>4. /\ pc' \in [Request -> Step] /\ token' \in [Request -> 0..MaxTokens]
      /\ known' \in [Request -> 0..MaxChanges] /\ floor' \in [Request -> 0..MaxChanges]
      /\ \A q \in Request :
           \/ pc'[q] = pc[q] /\ token'[q] = token[q] /\ floor'[q] = floor[q]
           \/ pc'[q] = "revokeAll" /\ floor'[q] = account
  <2>1. CASE Begin(r, "revokeAll", 0)
    <3>1. "revokeAll" \in Step
      BY DEF Step
    <3> QED
      BY <1>1, <2>1, <3>1, BeginKeeps
  <2>2. CASE UNCHANGED requestVars
    BY <1>1, <2>2 DEF requestVars
  <2> QED
    BY <2>1, <2>2
<1>5. TypeOK'
  <2>1. /\ family' \in [Token -> 0..MaxFamilies] /\ version' \in [Token -> 0..MaxChanges]
        /\ revoked' \in [Token -> BOOLEAN] /\ expired' \in [Token -> BOOLEAN]
        /\ issued' \in 0..MaxTokens /\ opened' \in 0..MaxFamilies
    BY <1>2, Zenon DEF SessionInv, TypeOK
  <2> QED
    BY <1>3, <1>4, <2>1, Zenon DEF TypeOK
<1>6. OneLive' /\ FamiliesCount' /\ Fresh'
  BY <1>2 DEF SessionInv, OneLive, FamiliesCount, Fresh, Issued
<1>7. ReadsIssued'
  BY <1>2, <1>4 DEF SessionInv, ReadsIssued, Issued
<1>8. \A q \in Request : floor'[q] <= account'
  <2>1. \A q \in Request : floor'[q] \in {floor[q], account} /\ floor[q] \in Nat
                            /\ floor[q] <= account
    BY <1>1, <1>4, SessionBounds DEF SessionInv, Checked
  <2> QED
    BY <1>3, <2>1, SessionBounds
<1>9. \A q \in Request : pc'[q] = "claim" => version'[token'[q]] >= floor'[q]
  BY <1>2, <1>4 DEF SessionInv, Checked
<1> QED
  BY <1>5, <1>6, <1>7, <1>8, <1>9 DEF SessionInv, Checked

-----------------------------------------------------------------------------
LEMMA InitInv == Init => SessionInv
<1> SUFFICES ASSUME Init PROVE SessionInv
  OBVIOUS
<1>1. Issued = {} /\ 1..opened = {}
  BY DEF Init, Issued
<1>2. /\ issued \in 0..MaxTokens /\ opened \in 0..MaxFamilies /\ account \in 0..MaxChanges
      /\ 0 \in 0..MaxFamilies /\ 0 \in 0..MaxChanges /\ 0 \in 0..MaxTokens
      /\ "idle" \in Step
  BY SessionBounds DEF Init, Step
<1>3. TypeOK
  BY <1>2, Zenon DEF Init, TypeOK
<1>4. Checked
  BY DEF Init, Checked
<1>5. ReadsIssued
  BY DEF Init, ReadsIssued
<1>6. Fresh
  BY Zenon DEF Init, Fresh
<1> QED
  BY <1>1, <1>3, <1>4, <1>5, <1>6 DEF SessionInv, OneLive, FamiliesCount

(* Hence every step keeps the invariant. *)
LEMMA StepInv == SessionInv /\ [Next]_vars => SessionInv'
<1> SUFFICES ASSUME SessionInv, [Next]_vars PROVE SessionInv'
  OBVIOUS
<1>0. /\ TypeOK /\ issued \in Nat /\ issued <= MaxTokens /\ Issued \subseteq Token
      /\ opened \in Nat /\ account \in Nat /\ 0 \in 0..MaxTokens /\ Issued \subseteq 0..MaxTokens
      /\ version \in [Token -> 0..MaxChanges] /\ floor \in [Request -> 0..MaxChanges]
      /\ known \in [Request -> 0..MaxChanges] /\ token \in [Request -> 0..MaxTokens]
      /\ pc \in [Request -> Step]
  <2>1. /\ TypeOK /\ account \in 0..MaxChanges
        /\ version \in [Token -> 0..MaxChanges] /\ floor \in [Request -> 0..MaxChanges]
        /\ known \in [Request -> 0..MaxChanges] /\ token \in [Request -> 0..MaxTokens]
        /\ pc \in [Request -> Step]
    BY Zenon DEF SessionInv, TypeOK
  <2> QED
    BY <2>1, IssuedType, SessionBounds DEF Token
<1>1. ASSUME NEW r \in Request, LoginReads(r) PROVE SessionInv'
  <2>1. Begin(r, "issue", 0) /\ "issue" \in Step /\ UNCHANGED <<tokenVars, expired, accountVars>>
    BY <1>1 DEF LoginReads, Step
  <2> QED
    BY <1>0, <2>1, BeginKeeps, RequestKeeps
<1>2. ASSUME NEW r \in Request, LoginIssues(r) PROVE SessionInv'
  <2>1. /\ opened' = opened + 1 /\ opened' \in 1..MaxFamilies /\ Issue(opened', known[r], {})
        /\ Answer(r) /\ UNCHANGED <<expired, accountVars>> /\ known[r] \in 0..MaxChanges
    BY <1>0, <1>2, SessionBounds DEF LoginIssues
  <2> QED
    BY <2>1, IssueKeeps
<1>3. ASSUME NEW r \in Request, NEW t \in Issued, RotateReads(r, t) PROVE SessionInv'
  <2>1. PICK p \in {"reuse", "account"} :
          Begin(r, p, t) /\ UNCHANGED <<tokenVars, expired, accountVars>>
    BY <1>3 DEF RotateReads
  <2>2. p \in Step
    BY DEF Step
  <2> QED
    BY <1>0, <2>1, <2>2, BeginKeeps, RequestKeeps
<1>4. ASSUME NEW r \in Request, ReuseRevokes(r) PROVE SessionInv'
  <2>1. FamilyOf(token[r]) \in SUBSET Issued /\ Answer(r) /\ UNCHANGED <<expired, accountVars>>
        /\ Revoke(FamilyOf(token[r]))
    BY <1>4 DEF ReuseRevokes, FamilyOf
  <2> QED
    BY <2>1, RevokeKeeps
<1>5. ASSUME NEW r \in Request, RotateChecks(r) PROVE SessionInv'
  <2>1. UNCHANGED <<tokenVars, expired, accountVars>> /\ pc[r] = "account"
    BY <1>5 DEF RotateChecks
  <2>2. CASE Answer(r)
    BY <1>0, <2>1, <2>2, AnswerKeeps, RequestKeeps
  <2>3. CASE version[token[r]] = account /\ GoOn(r, "claim")
    <3>1. /\ pc' = [pc EXCEPT ![r] = "claim"] /\ UNCHANGED <<token, known, floor>>
          /\ "claim" \in Step
      BY <2>3 DEF GoOn, Step
    <3>2. pc' \in [Request -> Step] /\ pc'[r] = "claim" /\ \A q \in Request \ {r} : pc'[q] = pc[q]
      BY <1>0, <3>1
    <3>3. token[r] \in Issued /\ floor[r] <= account /\ version[token[r]] >= floor[r]
      BY <1>0, <2>1, <2>3 DEF SessionInv, ReadsIssued, Checked
    <3> QED
      BY <1>0, <2>1, <3>1, <3>2, <3>3, RequestKeeps
  <2> QED
    BY <1>5, <2>2, <2>3 DEF RotateChecks
<1>6. ASSUME NEW r \in Request, RotateClaims(r) PROVE SessionInv'
  <2>1. Answer(r) /\ UNCHANGED <<expired, accountVars>> /\ token[r] \in Issued
    BY <1>6 DEF RotateClaims, SessionInv, ReadsIssued
  <2>2. CASE Revoke(FamilyOf(token[r]))
    <3>1. FamilyOf(token[r]) \in SUBSET Issued
      BY DEF FamilyOf
    <3> QED
      BY <2>1, <2>2, <3>1, RevokeKeeps
  <2>3. CASE /\ ~revoked[token[r]] /\ UNCHANGED opened
             /\ Issue(family[token[r]], version[token[r]], {token[r]})
    <3>1. family[token[r]] \in 1..opened /\ opened \in 0..MaxFamilies
      BY <2>1 DEF SessionInv, FamiliesCount, TypeOK
    <3>2. family[token[r]] \in 1..MaxFamilies /\ version[token[r]] \in 0..MaxChanges
      BY <1>0, <2>1, <3>1, SessionBounds
    <3>3. \A t \in Issued : family[t] = family[token[r]] => revoked[t] \/ t \in {token[r]}
      <4> SUFFICES ASSUME NEW t \in Issued, family[t] = family[token[r]], t # token[r]
                   PROVE  revoked[t]
        OBVIOUS
      <4>1. t < token[r]
        BY <2>1, <2>3 DEF SessionInv, OneLive, Issued
      <4> QED
        BY <2>1, <4>1 DEF SessionInv, OneLive
    <3> QED
      BY <2>1, <2>3, <3>1, <3>2, <3>3, IssueKeeps
  <2> QED
    BY <1>6, <2>2, <2>3 DEF RotateClaims
<1>7. ASSUME NEW r \in Request, NEW t \in Issued, LogoutReads(r, t) PROVE SessionInv'
  <2>1. Begin(r, "logout", t) /\ "logout" \in Step /\ UNCHANGED <<tokenVars, expired, accountVars>>
    BY <1>7 DEF LogoutReads, Step
  <2> QED
    BY <1>0, <2>1, BeginKeeps, RequestKeeps
<1>8. ASSUME NEW r \in Request, LogoutRevokes(r) PROVE SessionInv'
  <2>1. {token[r]} \in SUBSET Issued
    BY <1>8 DEF LogoutRevokes, SessionInv, ReadsIssued
  <2> QED
    BY <1>8, <2>1, RevokeKeeps DEF LogoutRevokes
<1>9. ASSUME NEW r \in Request,
             LogoutAll(r) \/ ConsoleEdit(r) \/ VendorEdit(r) \/ VendorPassword(r)
      PROVE  SessionInv'
  <2>1. /\ UNCHANGED <<tokenVars, expired>> /\ active' \in BOOLEAN /\ vendor' \in BOOLEAN
        /\ account' = account \/ VersionRaised
        /\ Begin(r, "revokeAll", 0) \/ UNCHANGED requestVars
    <3>1. active \in BOOLEAN /\ vendor \in BOOLEAN
      BY <1>0, Zenon DEF TypeOK
    <3> QED
      BY <1>9, <3>1 DEF LogoutAll, ConsoleEdit, VendorEdit, VendorPassword, VersionRaised,
         accountVars
  <2> QED
    BY <2>1, AccountKeeps
<1>10. ASSUME NEW r \in Request, RevokesAll(r) PROVE SessionInv'
  BY <1>10, RevokeKeeps DEF RevokesAll
<1>11. ASSUME NEW r \in Request, StatementFails(r) PROVE SessionInv'
  <2>1. Answer(r) /\ UNCHANGED <<tokenVars, expired, accountVars>>
    BY <1>11 DEF StatementFails
  <2> QED
    BY <1>0, <2>1, AnswerKeeps, RequestKeeps
<1>12. ASSUME NEW t \in Issued, Expires(t) PROVE SessionInv'
  <2>1. expired' = [expired EXCEPT ![t] = TRUE] /\ UNCHANGED <<tokenVars, accountVars, requestVars>>
    BY <1>12 DEF Expires
  <2>2. UNCHANGED <<issued, family, version, revoked, opened, account, active, vendor,
                    pc, token, known, floor>>
    BY <2>1 DEF tokenVars, accountVars, requestVars
  <2>3. TypeOK'
    BY <2>1, <2>2, Zenon DEF SessionInv, TypeOK
  <2> QED
    BY <2>2, <2>3 DEF SessionInv, OneLive, FamiliesCount, Fresh, ReadsIssued, Checked, Issued
<1>13. CASE UNCHANGED vars
  <2>1. UNCHANGED <<issued, family, version, revoked, opened, expired, account, active, vendor,
                    pc, token, known, floor>>
    BY <1>13 DEF vars, tokenVars, accountVars, requestVars
  <2>2. TypeOK'
    BY <2>1, Zenon DEF SessionInv, TypeOK
  <2> QED
    BY <2>1, <2>2 DEF SessionInv, OneLive, FamiliesCount, Fresh, ReadsIssued, Checked, Issued
<1> QED
  BY <1>1, <1>2, <1>3, <1>4, <1>5, <1>6, <1>7, <1>8, <1>9, <1>10, <1>11, <1>12, <1>13 DEF Next

(* The invariant of the sign-ins. *)
THEOREM Invariant == Spec => []SessionInv
BY InitInv, StepInv, PTL DEF Spec

(* A sign-in never forks: no token but its latest is good, however many requests
   present its tokens at once. *)
THEOREM NeverForks == Spec => []OneLiveToken
<1>1. SessionInv => OneLiveToken
  BY DEF SessionInv, OneLive, OneLiveToken
<1> QED
  BY <1>1, Invariant, PTL

(* A request that begins after the version of the account was raised, by a
   logoutAll or a change of a console account, rotates no token of before, also
   when the second statement, on the tokens, failed or came too early for a
   login under way.  Of the changes that raise nothing it says nothing. *)
THEOREM NoOldVersions == Spec => OldVersionsEnd
<1>1. SessionInv =>
        \A r \in Request :
          pc[r] = "claim" /\ issued' > issued /\ pc'[r] = "idle" =>
            version[token[r]] >= floor[r]
  BY DEF SessionInv, Checked
<1> QED
  BY <1>1, Invariant, PTL DEF OldVersionsEnd

-----------------------------------------------------------------------------
(* The refinement: families as TokenFamilies sees them *)

TokensOf(f) == {t \in Issued : family[t] = f}

StateOf(f) ==
  IF \A t \in Issued : family[t] # f THEN "unused"
  ELSE IF Live(f) # {} THEN "live" ELSE "closed"

StateFun == [f \in Family |-> StateOf(f)]
TokensFun == [f \in Family |-> Cardinality(TokensOf(f))]

LEMMA Finite ==
  ASSUME TypeOK, NEW f \in Family
  PROVE  IsFiniteSet(TokensOf(f)) /\ Cardinality(TokensOf(f)) \in Nat
<1>1. IsFiniteSet(Issued)
  BY IssuedType, FS_Interval DEF Issued
<1>2. TokensOf(f) \subseteq Issued
  BY DEF TokensOf
<1> QED
  BY <1>1, <1>2, FS_Subset, FS_CardinalityType

(* Both are functions of the families, before and after a step. *)
LEMMA Shape ==
  /\ StateFun = [f \in Family |-> StateFun[f]] /\ StateFun' = [f \in Family |-> StateFun'[f]]
  /\ TokensFun = [f \in Family |-> TokensFun[f]] /\ TokensFun' = [f \in Family |-> TokensFun'[f]]
BY DEF StateFun, TokensFun, StateOf, TokensOf, Live, Issued, Family

(* What a step that changes no token says of them *)
LEMMA Stutters ==
  ASSUME UNCHANGED tokenVars
  PROVE  UNCHANGED <<StateFun, TokensFun>>
BY DEF tokenVars, StateFun, TokensFun, StateOf, TokensOf, Live, Issued

LEMMA InitFamilies == Init => families!Init
<1> SUFFICES ASSUME Init PROVE families!Init
  OBVIOUS
<1>1. Issued = {}
  BY DEF Init, Issued
<1>2. \A f \in Family : StateOf(f) = "unused" /\ TokensOf(f) = {}
  BY <1>1 DEF StateOf, TokensOf
<1>3. StateFun = [f \in Family |-> "unused"] /\ TokensFun = [f \in Family |-> 0]
  BY <1>2, FS_EmptySet DEF StateFun, TokensFun
<1> QED
  BY <1>3 DEF families!Init, StateFun, TokensFun, StateOf, TokensOf

(* A revocation closes the families whose live token it takes. *)
LEMMA RevokeCloses ==
  ASSUME SessionInv, NEW ts \in SUBSET Issued, Revoke(ts)
  PROVE  \E fs \in SUBSET Family : families!Close(fs)
<1> DEFINE fs == {f \in Family : StateFun[f] = "live" /\ StateFun'[f] = "closed"}
<1>1. /\ revoked' = [t \in Token |-> revoked[t] \/ t \in ts]
      /\ issued' = issued /\ family' = family /\ Issued' = Issued /\ Issued \subseteq Token
  BY IssuedType DEF Revoke, Issued, SessionInv
<1>2. \A f \in Family : Live(f)' \subseteq Live(f)
  BY <1>1, Zenon DEF Live
<1>3. ASSUME NEW f \in Family PROVE StateFun'[f] = IF f \in fs THEN "closed" ELSE StateFun[f]
  <2>0. StateFun[f] = StateOf(f) /\ StateFun'[f] = StateOf(f)'
    BY DEF StateFun, StateOf, Live, Issued, Family
  <2>1. CASE \A t \in Issued : family[t] # f
    <3>1. StateOf(f) = "unused" /\ StateOf(f)' = "unused"
      BY <1>1, <2>1 DEF StateOf
    <3> QED
      BY <2>0, <3>1
  <2>2. CASE ~(\A t \in Issued : family[t] # f)
    <3>1. /\ StateOf(f) = IF Live(f) # {} THEN "live" ELSE "closed"
          /\ StateOf(f)' = IF Live(f)' # {} THEN "live" ELSE "closed"
      BY <1>1, <2>2 DEF StateOf
    <3> QED
      BY <1>2, <2>0, <3>1
  <2> QED
    BY <2>1, <2>2
<1>4. fs \in SUBSET Family /\ \A f \in fs : StateFun[f] = "live"
  OBVIOUS
<1>5. /\ \A f \in fs : StateFun[f] = "live"
      /\ StateFun' = [f \in Family |-> IF f \in fs THEN "closed" ELSE StateFun[f]]
      /\ TokensFun' = TokensFun
  <2>1. TokensFun' = TokensFun
    BY <1>1 DEF TokensFun, TokensOf
  <2> HIDE DEF fs
  <2> QED
    BY <1>3, <1>4, <2>1, Shape
<1>6. PICK gs \in SUBSET Family : gs = fs
  BY <1>4
<1> HIDE DEF fs
<1>7. /\ \A f \in gs : StateFun[f] = "live"
      /\ StateFun' = [f \in Family |-> IF f \in gs THEN "closed" ELSE StateFun[f]]
      /\ TokensFun' = TokensFun
  BY <1>5, <1>6
<1> WITNESS gs \in SUBSET Family
<1> QED
  BY <1>7 DEF families!Close, StateFun, TokensFun, StateOf, TokensOf

(* What a token more does to the two functions. *)
LEMMA IssueMoves ==
  ASSUME SessionInv, NEW f \in 1..MaxFamilies, NEW v \in 0..MaxChanges,
         NEW rs \in SUBSET TokensOf(f), Issue(f, v, rs)
  PROVE  /\ StateFun' = [StateFun EXCEPT ![f] = "live"]
         /\ TokensFun' = [TokensFun EXCEPT ![f] = @ + 1]
<1>1. /\ issued < MaxTokens /\ issued' = issued + 1
      /\ family' = [family EXCEPT ![issued'] = f]
      /\ revoked' = [t \in Token |-> revoked[t] \/ t \in rs]
  BY DEF Issue
<1>2. family \in [Token -> 0..MaxFamilies] /\ revoked \in [Token -> BOOLEAN] /\ TypeOK
  BY Zenon DEF SessionInv, TypeOK
<1>3. /\ issued' \in Token /\ issued' \notin Issued /\ Issued' = Issued \cup {issued'}
      /\ Issued \subseteq Token
  BY <1>1, <1>2, IssuedType, SessionBounds DEF Issued, Token
<1>4. /\ family'[issued'] = f /\ \A t \in Issued : family'[t] = family[t]
  BY <1>1, <1>2, <1>3
<1>5. ~revoked'[issued']
  <2>1. issued' \notin rs /\ ~revoked[issued']
    BY <1>3 DEF TokensOf, SessionInv, Fresh
  <2> QED
    BY <1>1, <1>3, <2>1, Zenon
<1>6. f \in Family
  BY DEF Family
<1>7. StateFun'[f] = "live"
  <2>1. issued' \in Live(f)'
    BY <1>3, <1>4, <1>5 DEF Live
  <2>2. issued' \in Issued' /\ family'[issued'] = f
    BY <1>3, <1>4
  <2> QED
    BY <1>6, <2>1, <2>2 DEF StateFun, StateOf, Family
<1>8. ASSUME NEW g \in Family \ {f}
      PROVE  StateFun'[g] = StateFun[g] /\ TokensFun'[g] = TokensFun[g]
  <2>1. TokensOf(g)' = TokensOf(g)
    BY <1>3, <1>4 DEF TokensOf
  <2>2. (\A t \in Issued : family[t] # g)' <=> (\A t \in Issued : family[t] # g)
    BY <1>3, <1>4
  <2>3. \A t \in Issued : family[t] = g => (revoked'[t] <=> revoked[t])
    <3>1. \A t \in Issued : family[t] = g => t \notin rs
      BY DEF TokensOf
    <3> QED
      BY <1>1, <1>3, <3>1, Zenon
  <2>4. Live(g)' = Live(g)
    BY <1>3, <1>4, <2>3 DEF Live
  <2> QED
    BY <2>1, <2>2, <2>4 DEF StateFun, StateOf, TokensFun, Family
<1>9. TokensFun'[f] = TokensFun[f] + 1
  <2>1. TokensOf(f)' = TokensOf(f) \cup {issued'} /\ issued' \notin TokensOf(f)
    BY <1>3, <1>4 DEF TokensOf
  <2>2. IsFiniteSet(TokensOf(f))
    BY <1>2, <1>6, Finite
  <2>3. Cardinality(TokensOf(f) \cup {issued'}) = Cardinality(TokensOf(f)) + 1
    BY <2>1, <2>2, FS_AddElement
  <2>4. TokensFun[f] = Cardinality(TokensOf(f)) /\ TokensFun'[f] = Cardinality(TokensOf(f)')
    BY <1>6 DEF TokensFun, TokensOf, Issued, Family
  <2> QED
    BY <2>1, <2>3, <2>4
<1> QED
  BY <1>6, <1>7, <1>8, <1>9, Shape

LEMMA LoginOpens ==
  ASSUME SessionInv, NEW r \in Request, LoginIssues(r)
  PROVE  \E f \in Family : families!Open(f)
<1>1. opened \in Nat /\ opened < MaxFamilies /\ opened' = opened + 1
      /\ Issue(opened', known[r], {})
  BY IssuedType DEF LoginIssues, SessionInv
<1>2. known[r] \in 0..MaxChanges /\ opened' \in 1..MaxFamilies
  <2>1. known \in [Request -> 0..MaxChanges]
    BY Zenon DEF SessionInv, TypeOK
  <2> QED
    BY <1>1, <2>1, SessionBounds
<1>3. opened' \in Family /\ TokensOf(opened') = {}
  BY <1>1, <1>2 DEF Family, TokensOf, SessionInv, FamiliesCount
<1>4. StateFun[opened'] = "unused" /\ TokensFun[opened'] = 0
  BY <1>3, FS_EmptySet DEF StateFun, TokensFun, StateOf, TokensOf
<1>5. /\ StateFun' = [StateFun EXCEPT ![opened'] = "live"]
      /\ TokensFun' = [TokensFun EXCEPT ![opened'] = @ + 1]
  BY <1>1, <1>2, IssueMoves
<1>6. TokensFun' = [TokensFun EXCEPT ![opened'] = 1]
  <2>1. DOMAIN TokensFun = Family
    BY DEF TokensFun
  <2> QED
    BY <1>3, <1>4, <1>5, <2>1
<1>7. PICK f \in Family : f = opened'
  BY <1>3
<1>8. /\ StateFun[f] = "unused"
      /\ StateFun' = [StateFun EXCEPT ![f] = "live"]
      /\ TokensFun' = [TokensFun EXCEPT ![f] = 1]
  BY <1>4, <1>5, <1>6, <1>7
<1> WITNESS f \in Family
<1> QED
  BY <1>8 DEF families!Open, StateFun, TokensFun, StateOf, TokensOf

LEMMA ClaimRotates ==
  ASSUME SessionInv, NEW r \in Request, RotateClaims(r)
  PROVE  \/ \E f \in Family : families!Rotate(f)
         \/ \E fs \in SUBSET Family : families!Close(fs)
<1>1. token[r] \in Issued
  BY DEF RotateClaims, SessionInv, ReadsIssued
<1>2. CASE Revoke(FamilyOf(token[r]))
  <2>1. FamilyOf(token[r]) \in SUBSET Issued
    BY DEF FamilyOf
  <2> QED
    BY <1>2, <2>1, RevokeCloses
<1>3. CASE /\ ~revoked[token[r]]
           /\ Issue(family[token[r]], version[token[r]], {token[r]})
  <2> DEFINE f == family[token[r]]
  <2>1. f \in 1..MaxFamilies /\ version[token[r]] \in 0..MaxChanges
    <3>1. version \in [Token -> 0..MaxChanges] /\ opened \in 0..MaxFamilies
      BY Zenon DEF SessionInv, TypeOK
    <3>2. f \in 1..opened /\ token[r] \in Token
      BY <1>1, IssuedType DEF SessionInv, FamiliesCount
    <3> QED
      BY <3>1, <3>2, SessionBounds
  <2>2. {token[r]} \in SUBSET TokensOf(f) /\ f \in Family
    BY <1>1, <2>1 DEF TokensOf, Family
  <2>3. StateFun[f] = "live"
    <3>1. token[r] \in Live(f)
      BY <1>1, <1>3 DEF Live
    <3> QED
      BY <1>1, <2>2, <3>1 DEF StateFun, StateOf
  <2>4. /\ StateFun' = [StateFun EXCEPT ![f] = "live"]
        /\ TokensFun' = [TokensFun EXCEPT ![f] = @ + 1]
    BY <1>3, <2>1, <2>2, IssueMoves
  <2>5. StateFun' = StateFun
    BY <2>2, <2>3, <2>4 DEF StateFun
  <2> HIDE DEF f
  <2>6. families!Rotate(f)
    BY <2>3, <2>4, <2>5 DEF families!Rotate, StateFun, TokensFun, StateOf, TokensOf
  <2> QED
    BY <2>2, <2>6
<1> QED
  BY <1>2, <1>3 DEF RotateClaims

LEMMA StepFamilies == SessionInv /\ [Next]_vars => [families!Next]_(families!vars)
<1> SUFFICES ASSUME SessionInv, [Next]_vars PROVE [families!Next]_(families!vars)
  OBVIOUS
<1>1. CASE UNCHANGED tokenVars
  <2>1. UNCHANGED <<StateFun, TokensFun>>
    BY <1>1, Stutters
  <2>2. UNCHANGED families!vars
    BY <2>1 DEF families!vars, StateFun, TokensFun, StateOf, TokensOf
  <2> QED
    BY <2>2
<1>2. ASSUME NEW r \in Request, LoginIssues(r) PROVE families!Next
  BY <1>2, LoginOpens DEF families!Next
<1>3. ASSUME NEW r \in Request, RotateClaims(r) PROVE families!Next
  BY <1>3, ClaimRotates DEF families!Next
<1>4. ASSUME NEW ts \in SUBSET Issued, Revoke(ts) PROVE families!Next
  BY <1>4, RevokeCloses DEF families!Next
<1>5. ASSUME NEW r \in Request, ReuseRevokes(r) \/ LogoutRevokes(r) \/ RevokesAll(r)
      PROVE  \E ts \in SUBSET Issued : Revoke(ts)
  BY <1>5 DEF ReuseRevokes, LogoutRevokes, RevokesAll, FamilyOf, SessionInv, ReadsIssued
<1>6. \/ UNCHANGED tokenVars
      \/ \E r \in Request : \/ LoginIssues(r) \/ RotateClaims(r)
                            \/ ReuseRevokes(r) \/ LogoutRevokes(r) \/ RevokesAll(r)
  BY DEF Next, vars, LoginReads, RotateReads, RotateChecks, LogoutReads, LogoutAll,
         ConsoleEdit, VendorEdit, VendorPassword, StatementFails, Expires
<1> QED
  BY <1>1, <1>2, <1>3, <1>4, <1>5, <1>6

(* A sign-in is a family of tokens as TokenFamilies says: opened once, prolonged one
   token at a time, and closed for good. *)
THEOREM SessionsImplementFamilies == Spec => ImplementsFamilies
BY InitFamilies, StepFamilies, Invariant, PTL DEF ImplementsFamilies, Spec, families!Spec

(* A sign-in of which no token is good any more. *)
Ended(f) == TokensOf(f) # {} /\ Live(f) = {}

(* A sign-in that has ended, by a reuse, a logout or a change of the account, gets
   no good token again, whatever rotations of it are still between two statements
   (refreshRotation.js:21-25, AuthService.js:212). *)
THEOREM EndedForGood == Spec => [][\A f \in Family : Ended(f) => Ended(f)']_vars
<1>1. SessionInv /\ [Next]_vars => [\A f \in Family : Ended(f) => Ended(f)']_vars
  <2> SUFFICES ASSUME SessionInv, [Next]_vars, NEW f \in Family, Ended(f) PROVE Ended(f)'
    OBVIOUS
  <2>1. StateFun[f] = "closed"
    BY DEF StateFun, StateOf, Ended, TokensOf
  <2>2. StateFun'[f] = "closed"
    <3>1. [families!Next]_(families!vars)
      BY StepFamilies
    <3>2. CASE UNCHANGED families!vars
      <4>1. StateFun' = StateFun
        BY <3>2 DEF families!vars, StateFun, StateOf
      <4> QED
        BY <2>1, <4>1
    <3>3. ASSUME NEW g \in Family, families!Open(g) \/ families!Rotate(g)
          PROVE  StateFun'[f] = "closed"
      <4>1. \/ StateFun[g] = "unused" /\ StateFun' = [StateFun EXCEPT ![g] = "live"]
            \/ StateFun' = StateFun
        BY <3>3 DEF families!Open, families!Rotate, StateFun, StateOf
      <4>2. CASE StateFun[g] = "unused" /\ StateFun' = [StateFun EXCEPT ![g] = "live"]
        <5>1. f # g
          BY <2>1, <4>2
        <5> QED
          BY <2>1, <4>2, <5>1, Shape
      <4> QED
        BY <2>1, <4>1, <4>2
    <3>4. ASSUME NEW fs \in SUBSET Family, families!Close(fs) PROVE StateFun'[f] = "closed"
      <4>1. StateFun' = [g \in Family |-> IF g \in fs THEN "closed" ELSE StateFun[g]]
        BY <3>4 DEF families!Close, StateFun, StateOf
      <4> QED
        BY <2>1, <4>1
    <3> QED
      BY <3>1, <3>2, <3>3, <3>4 DEF families!Next
  <2>3. StateFun'[f] = StateOf(f)'
    BY DEF StateFun, StateOf, Live, Issued, Family
  <2> QED
    BY <2>2, <2>3 DEF StateOf, Ended, TokensOf
<1> QED
  BY <1>1, Invariant, PTL DEF Spec
=============================================================================
