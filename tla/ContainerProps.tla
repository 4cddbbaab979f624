---------------------------- MODULE ContainerProps ----------------------------
(***************************************************************************)
(* What requests and loads may rely on when they share the container.      *)
(***************************************************************************)
EXTENDS Container

(* A request is never given an instance of code that was not committed: not of
   a load still under way, not of one that failed, whatever the two construct
   for each other (container.js:48, 88). *)
OnlyCommittedServed ==
  \A b \in Bean : instances[b] # NoClass => instances[b] \in published[b]

(* All requests share one instance of a service until new code for it is
   published: a load that constructed the service for itself does not put its
   own in the place of the one in use (container.js:40, 100). *)
SharedUntilPublished ==
  [][\A b \in Bean : instances[b] # NoClass /\ instances'[b] # instances[b]
                       => factories'[b] # factories[b]]_containerVars

(* Publishing new code for a service, by a commit or by registering it outside
   a load, leaves no instance of older code: the next resolve() gives the new
   one (container.js:28-30, 95-101). *)
PublishedIsNext ==
  [][\A b \in Bean : factories'[b] # factories[b]
                       => instances'[b] \in {NoClass, factories'[b]}]_containerVars
=============================================================================
