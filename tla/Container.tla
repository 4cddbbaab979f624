------------------------------- MODULE Container -------------------------------
(***************************************************************************)
(* src/core/container.js, class Container, as the loads of                 *)
(* src/core/controllerLoader.js and the requests of the running server use *)
(* it at the same time.  A load runs in a transaction: what it registers   *)
(* and what it constructs stays in maps of its own until it commits.       *)
(* JavaScript runs one piece of code at a time, so each action is the code *)
(* from one await of a load to the next, or one resolve().                 *)
(*                                                                         *)
(* A class is abstracted to the number of its evaluation, a factory to the *)
(* class it constructs, and an instance to the class it was constructed    *)
(* from.  register(), which no code of the repository calls, is left out.  *)
(***************************************************************************)
EXTENDS Naturals

CONSTANTS
  Bean,      \* names of services
  Load,      \* loads of code files that can be under way together
  MaxCode    \* bound: classes evaluated in all

ASSUME MaxCodeAssumption == MaxCode \in Nat

VARIABLES
  factories,    \* this.factories
  instances,    \* this.instances
  txFactories,  \* for each load, tx.factories
  txInstances,  \* for each load, tx.instances
  stage,        \* for each load: none, evaluating its file, or past validation
  evaluated,    \* the classes evaluated so far are 1..evaluated
  throws,       \* those whose constructor throws
  published     \* history: for each bean, the classes committed or registered at once

containerVars == <<factories, instances, txFactories, txInstances, stage, evaluated, throws,
          published>>

NoClass == 0
Class == 1..MaxCode
Entry == Class \cup {NoClass}
Empty == [b \in Bean |-> NoClass]

(* A load that is not under way holds nothing. *)
ContainerTypeOK ==
  /\ factories \in [Bean -> Entry]
  /\ instances \in [Bean -> Entry]
  /\ txFactories \in [Load -> [Bean -> Entry]]
  /\ txInstances \in [Load -> [Bean -> Entry]]
  /\ stage \in [Load -> {"idle", "work", "checked"}]
  /\ evaluated \in 0..MaxCode
  /\ throws \in SUBSET Class
  /\ published \in [Bean -> SUBSET Class]
  /\ \A l \in Load : stage[l] = "idle" => txFactories[l] = Empty /\ txInstances[l] = Empty

ContainerInit ==
  /\ factories = Empty
  /\ instances = Empty
  /\ txFactories = [l \in Load |-> Empty]
  /\ txInstances = [l \in Load |-> Empty]
  /\ stage = [l \in Load |-> "idle"]
  /\ evaluated = 0
  /\ throws = {}
  /\ published = [b \in Bean |-> {}]

-----------------------------------------------------------------------------
(* A load *)

Begin(l) ==
  /\ stage[l] = "idle"
  /\ stage' = [stage EXCEPT ![l] = "work"]
  /\ UNCHANGED <<factories, instances, txFactories, txInstances, evaluated,
                 throws, published>>

(* registerFactory() in a transaction: the file evaluates a class that
   @Service declares, or loadSingleServiceFile() declares it again because a
   failed load had evaluated it before.  An import that the file does not wait
   for can do so after the validation. *)
registerFactory(l, b) ==
  /\ stage[l] # "idle"
  /\ evaluated < MaxCode
  /\ evaluated' = evaluated + 1
  /\ throws' \in {throws, throws \cup {evaluated'}}
  /\ txFactories' = [txFactories EXCEPT ![l][b] = evaluated']
  /\ txInstances' = [txInstances EXCEPT ![l][b] = NoClass]
  /\ UNCHANGED <<factories, instances, stage, published>>

(* registerFactory() outside a load: AdminBootstrap.js imports the services of
   the console at the boot, and a request may import a file.  Code that a
   closed load left behind throws instead. *)
registerAtOnce(b) ==
  /\ evaluated < MaxCode
  /\ evaluated' = evaluated + 1
  /\ throws' \in {throws, throws \cup {evaluated'}}
  /\ factories' = [factories EXCEPT ![b] = evaluated']
  /\ instances' = [instances EXCEPT ![b] = NoClass]
  /\ published' = [published EXCEPT ![b] = @ \cup {evaluated'}]
  /\ UNCHANGED <<txFactories, txInstances, stage>>

(* The factory that resolve() of a load calls for b. *)
FactoryFor(l, b) ==
  IF txFactories[l][b] # NoClass THEN txFactories[l][b] ELSE factories[b]

(* Does resolve() of the load find an instance, its own or a shared one? *)
Found(l, b) ==
  \/ txInstances[l][b] # NoClass
  \/ txFactories[l][b] = NoClass /\ instances[b] # NoClass

Constructs(code) == code # NoClass /\ code \notin throws

resolveInLoad_Faulty(l, b) ==   \* kept where requests find it
  /\ stage[l] # "idle"
  /\ ~Found(l, b)
  /\ Constructs(FactoryFor(l, b))
  /\ instances' = [instances EXCEPT ![b] = FactoryFor(l, b)]
  /\ UNCHANGED <<factories, txFactories, txInstances, stage, evaluated, throws, published>>

(* resolve() by the code that is being loaded, a constructor for instance:
   what is constructed is kept for the load alone.  When the constructor
   throws nothing is kept. *)
resolveInLoad(l, b) ==
  /\ stage[l] # "idle"
  /\ ~Found(l, b)
  /\ Constructs(FactoryFor(l, b))
  /\ txInstances' = [txInstances EXCEPT ![l][b] = FactoryFor(l, b)]
  /\ UNCHANGED <<factories, instances, txFactories, stage, evaluated, throws, published>>

Replaces(l, b) == txFactories[l][b] # NoClass /\ instances[b] # NoClass

(* The file is evaluated and validateReplacements() constructs what replaces a
   service already in use.  If a constructor throws the load fails. *)
validateReplacements(l) ==
  /\ stage[l] = "work"
  /\ \A b \in Bean : Replaces(l, b) /\ ~Found(l, b) => txFactories[l][b] \notin throws
  /\ txInstances' = [txInstances EXCEPT ![l] =
       [b \in Bean |-> IF Replaces(l, b) THEN txFactories[l][b] ELSE txInstances[l][b]]]
  /\ stage' = [stage EXCEPT ![l] = "checked"]
  /\ UNCHANGED <<factories, instances, txFactories, evaluated, throws, published>>

Installed_Faulty(l, b) ==   \* whether or not there is an instance already
  txInstances[l][b] # NoClass

(* Is the instance the load constructed shared when it commits? *)
Installed(l, b) ==
  /\ txInstances[l][b] # NoClass
  /\ txFactories[l][b] # NoClass \/ instances[b] = NoClass

InstanceAfter_Faulty(l, b) ==   \* the old instance is not deleted
  IF Installed(l, b) THEN txInstances[l][b] ELSE instances[b]

InstanceAfter(l, b) ==
  CASE Installed(l, b)                                 -> txInstances[l][b]
    [] ~Installed(l, b) /\ txFactories[l][b] # NoClass  -> NoClass
    [] OTHER                                           -> instances[b]

(* What the load registered and constructed is dropped, or is now shared. *)
Closed(l) ==
  /\ txFactories' = [txFactories EXCEPT ![l] = Empty]
  /\ txInstances' = [txInstances EXCEPT ![l] = Empty]
  /\ stage' = [stage EXCEPT ![l] = "idle"]
  /\ UNCHANGED <<evaluated, throws>>

(* At least one turn of the event loop later the transaction commits. *)
Commit(l) ==
  /\ stage[l] = "checked"
  /\ factories' = [b \in Bean |-> FactoryFor(l, b)]
  /\ instances' = [b \in Bean |-> InstanceAfter(l, b)]
  /\ published' = [b \in Bean |-> published[b] \cup ({txFactories[l][b]} \ {NoClass})]
  /\ Closed(l)

(* The file throws, a promise it left alone rejects, or the timer of
   runCodeLoad() expires.  Code of the file that goes on after that finds the
   transaction closed: it can resolve what requests resolve, and no more. *)
Fail(l) ==
  /\ stage[l] # "idle"
  /\ Closed(l)
  /\ UNCHANGED <<factories, instances, published>>

-----------------------------------------------------------------------------
(* A request *)

(* resolve() outside a transaction, by @Autowired at every access. *)
resolve(b) ==
  /\ instances[b] = NoClass
  /\ Constructs(factories[b])
  /\ instances' = [instances EXCEPT ![b] = factories[b]]
  /\ UNCHANGED <<factories, txFactories, txInstances, stage, evaluated, throws, published>>

-----------------------------------------------------------------------------
ContainerNext ==
  \/ \E l \in Load :
       \/ Begin(l) \/ validateReplacements(l) \/ Commit(l) \/ Fail(l)
       \/ \E b \in Bean : registerFactory(l, b) \/ resolveInLoad(l, b)
  \/ \E b \in Bean : resolve(b) \/ registerAtOnce(b)

ContainerSafety == ContainerInit /\ [][ContainerNext]_containerVars
=============================================================================
