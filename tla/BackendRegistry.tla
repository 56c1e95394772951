--------------------------- MODULE BackendRegistry ---------------------------
(***************************************************************************)
(* Choosing a platform back end: src/platform/backend.cpp, and the uses    *)
(* the command line makes of it in src/main.cpp.                           *)
(*                                                                         *)
(* Back ends register themselves before main, in an order that the linker  *)
(* chooses.  A choice goes through them by their declared order.  It waits *)
(* for each check, and what was checked may no longer be so when the back  *)
(* end is created.                                                         *)
(***************************************************************************)
EXTENDS Naturals, FiniteSets

CONSTANTS
  Descriptor,   \* registrations in the program: name, order, complete
  AutoName,     \* the name that stands for any
  MaxChanges    \* bound: changes of what the machine offers

Name == {d.name : d \in Descriptor}
Feature == {"screens", "capture", "injection"}

ASSUME DescriptorAssumption ==
  /\ IsFiniteSet(Descriptor)
  /\ \A d \in Descriptor : d.name \in Nat /\ d.order \in Nat /\ d.complete \in BOOLEAN
  /\ AutoName \notin Name

VARIABLES
  registry,    \* the descriptors that have been accepted
  pending,     \* registrations still to run
  offers,      \* the features each back end would be found to support
  stage,       \* of the choice: "idle", "check", "create" or "done"
  wanted,      \* the name asked for
  required,    \* the features asked for
  candidates,  \* those not yet refused
  chosen,      \* the candidates that have been selected: none or one
  error,       \* what is returned instead
  changes,     \* changes of what is offered
  seen,        \* history: the offers each back end has had since the choice began
  failed       \* history: the candidates whose creation has failed

registryVars == <<registry, pending>>
choiceVars   == <<stage, wanted, required, candidates, chosen, error>>
vars         == <<registryVars, offers, choiceVars, changes, seen, failed>>

Init ==
  /\ registry = {} /\ pending = Descriptor
  /\ offers \in [Name -> SUBSET Feature]
  /\ stage = "idle" /\ wanted = AutoName /\ required = {} /\ candidates = {}
  /\ chosen = {} /\ error = "none" /\ changes = 0
  /\ seen = [n \in Name |-> {offers[n]}] /\ failed = {}
-----------------------------------------------------------------------------
\* The constructor of BackendRegistration ignores what is incomplete and what
\* has a name that is taken.
Accepts(d) == d.complete /\ \A other \in registry : other.name # d.name

Register(d) ==
  /\ d \in pending
  /\ pending' = pending \ {d}
  /\ registry' = IF Accepts(d) THEN registry \cup {d} ELSE registry
  /\ UNCHANGED <<offers, choiceVars, changes, seen, failed>>

\* Mutant of Before: back ends go by their name.
BeforeByName(d, e) == d.name < e.name

\* registeredBackends sorts by order and then by name.
Before(d, e) ==
  \/ d.order < e.order
  \/ d.order = e.order /\ d.name < e.name

\* A plug is pulled, a session locked, a permission given, during the choice.
Change ==
  /\ stage \in {"check", "create"} /\ changes < MaxChanges
  /\ changes' = changes + 1
  /\ \E features \in [Name -> SUBSET Feature] :
       /\ features # offers
       /\ \E n \in Name : \A m \in Name \ {n} : features[m] = offers[m]
       /\ offers' = features
       /\ seen' = [n \in Name |-> seen[n] \cup {features[n]}]
  /\ UNCHANGED <<registryVars, choiceVars, failed>>
-----------------------------------------------------------------------------
\* What main and the window ask for: a back end for a server or for a client.
Requirements == {{"screens", "capture"}, {"screens", "injection"}}

\* selectBackend.
Select(name, features) ==
  /\ pending = {} /\ stage = "idle"
  /\ wanted' = name /\ required' = features
  /\ candidates' = IF name = AutoName THEN registry ELSE {d \in registry : d.name = name}
  /\ IF candidates' = {} /\ name # AutoName
     THEN stage' = "done" /\ error' = "noSuchDevice"
     ELSE stage' = "check" /\ UNCHANGED error
  /\ UNCHANGED <<registryVars, offers, chosen, changes, seen, failed>>

\* The next one of the loop.
First(d) == d \in candidates /\ \A e \in candidates \ {d} : Before(d, e)

Refuse(d) ==
  /\ stage' = "check"
  /\ candidates' = candidates \ {d}
  /\ UNCHANGED <<registryVars, offers, wanted, required, chosen, error, changes, seen>>

\* BackendCheck::supports; a back end that cannot be created, or whose check
\* throws, supports nothing.  probeBackend finds out by creating it and by
\* initializing what it offers.
Supports(d) == required \subseteq offers[d.name]

Check ==
  /\ stage = "check"
  /\ \E d \in candidates :
       /\ First(d)
       /\ \/ /\ Supports(d)
             /\ stage' = "create"
             /\ UNCHANGED <<registryVars, offers, wanted, required, candidates, chosen,
                            error, changes, seen>>
          \/ ~Supports(d) /\ Refuse(d)
  /\ UNCHANGED failed

\* create() has no exception to tell what the check could not see.
Create ==
  /\ stage = "create"
  /\ \E d \in candidates :
       /\ First(d)
       /\ chosen' = {d} /\ stage' = "done"
       /\ UNCHANGED <<registryVars, offers, wanted, required, candidates, error, changes>>
  /\ UNCHANGED <<seen, failed>>

\* Mutant of CreateFails: the choice is given up.
CreateFailsForGood ==
  /\ stage = "create"
  /\ stage' = "done" /\ error' = "notSupported"
  /\ \E d \in candidates : First(d) /\ failed' = failed \cup {d}
  /\ UNCHANGED <<registryVars, offers, wanted, required, candidates, chosen, changes, seen>>

\* A back end that passed its check and cannot be created is refused as well.
CreateFails ==
  /\ stage = "create"
  /\ \E d \in candidates : First(d) /\ Refuse(d) /\ failed' = failed \cup {d}

Exhausted ==
  /\ stage = "check" /\ candidates = {}
  /\ stage' = "done" /\ error' = "notSupported"
  /\ UNCHANGED <<registryVars, offers, wanted, required, candidates, chosen, changes,
                 seen, failed>>

ChoiceStep == Check \/ Create \/ CreateFails \/ Exhausted
Next ==
  \/ \E d \in Descriptor : Register(d)
  \/ \E name \in Name \cup {AutoName}, features \in Requirements : Select(name, features)
  \/ Change
  \/ ChoiceStep

Spec == Init /\ [][Next]_vars
-----------------------------------------------------------------------------
RegistryTypeOK ==
  /\ registry \subseteq Descriptor /\ pending \subseteq Descriptor
  /\ offers \in [Name -> SUBSET Feature]
  /\ stage \in {"idle", "check", "create", "done"}
  /\ wanted \in Name \cup {AutoName} /\ required \subseteq Feature
  /\ candidates \subseteq registry /\ chosen \subseteq candidates
  /\ error \in {"none", "noSuchDevice", "notSupported"}
  /\ changes \in Nat /\ seen \in [Name -> SUBSET (SUBSET Feature)] /\ failed \subseteq registry
  /\ (stage = "done" <=> chosen # {} \/ error # "none")

\* A name means one back end, whatever the order of registration: the one that
\* is checked is the one that is created.
NamesAreUnique == \A d, e \in registry : d.name = e.name => d = e

\* The registrations that the name asked for stands for.
Asked == {d \in registry : wanted = AutoName \/ d.name = wanted}

\* There was a reason to refuse it: at some time of the choice it did not have all
\* that is required, or it could not be created.
Refusable(d) == d \in failed \/ \E features \in seen[d.name] : ~(required \subseteq features)

\* What selectBackend promises, whatever changes meanwhile: what it returns was asked
\* for, had all that is required and was created, and every other that goes before it
\* there was a reason to refuse; it returns an error only if there was one for each.
\* When nothing changes, that is the first in order that has all that is required.
PicksTheFirstSuitable ==
  stage = "done" =>
    /\ \A d \in chosen :
         /\ d \in Asked \ failed /\ \E features \in seen[d.name] : required \subseteq features
         /\ \A e \in Asked :
              e.order < d.order \/ (e.order = d.order /\ e.name < d.name) => Refusable(e)
    /\ chosen = {} => \A e \in Asked : Refusable(e)

\* docs/wayland_backend.md: a back end asked for by name is never replaced by
\* another, though checks and creations fail and the machine changes.
NoFallback == wanted # AutoName => \A d \in chosen : d.name = wanted

=============================================================================
