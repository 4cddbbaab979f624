----------------------------- MODULE TokenFamilies -----------------------------
(***************************************************************************)
(* What a sign-in is, as src/core/refreshRotation.js promises it: a chain  *)
(* of refresh tokens each of which replaces the one before.  A family is   *)
(* opened once, goes on token by token, and once closed it stays closed.   *)
(***************************************************************************)
EXTENDS Naturals

CONSTANTS Family

VARIABLES
  state,    \* of each family: "unused", "live" or "closed"
  tokens    \* how many tokens of each family were issued

vars == <<state, tokens>>

Init ==
  /\ state = [f \in Family |-> "unused"]
  /\ tokens = [f \in Family |-> 0]

Open(f) ==
  /\ state[f] = "unused"
  /\ state' = [state EXCEPT ![f] = "live"]
  /\ tokens' = [tokens EXCEPT ![f] = 1]

Rotate(f) ==
  /\ state[f] = "live"
  /\ tokens' = [tokens EXCEPT ![f] = @ + 1]
  /\ UNCHANGED state

Close(fs) ==
  /\ \A f \in fs : state[f] = "live"
  /\ state' = [f \in Family |-> IF f \in fs THEN "closed" ELSE state[f]]
  /\ UNCHANGED tokens

Next ==
  \/ \E f \in Family : Open(f) \/ Rotate(f)
  \/ \E fs \in SUBSET Family : Close(fs)

Spec == Init /\ [][Next]_vars
=============================================================================
