-------------------------- MODULE DeliveryContract --------------------------
(***************************************************************************)
(* What the outbox promises about a message, with none of the machinery:   *)
(* posting a message is a licence to let its outside effect happen once,   *)
(* and so is every explicit retry by the owner.  When a licence may have   *)
(* been spent without a confirmation the owner is told, once per licence.  *)
(***************************************************************************)
EXTENDS Naturals

CONSTANT Messages

VARIABLES
  licences,  \* how many times the effect of a message was permitted
  effects,   \* how many times it happened
  told       \* the licences whose uncertain or failed end was reported

contract == <<licences, effects, told>>

ContractInit ==
  /\ licences = [m \in Messages |-> 0]
  /\ effects = [m \in Messages |-> 0]
  /\ told = [m \in Messages |-> {}]

License(m) ==
  /\ licences' = [licences EXCEPT ![m] = @ + 1]
  /\ UNCHANGED <<effects, told>>

Effect(m) ==
  /\ effects[m] < licences[m]
  /\ effects' = [effects EXCEPT ![m] = @ + 1]
  /\ UNCHANGED <<licences, told>>

\* One recovery may give several messages up.
Tell(given) ==
  /\ \A m \in given : licences[m] > 0 /\ licences[m] \notin told[m]
  /\ told' = [m \in Messages |-> IF m \in given THEN told[m] \cup {licences[m]} ELSE told[m]]
  /\ UNCHANGED <<licences, effects>>

ContractNext ==
  \/ \E m \in Messages : License(m) \/ Effect(m)
  \/ \E given \in SUBSET Messages : Tell(given)

ContractSpec == ContractInit /\ [][ContractNext]_contract
=============================================================================
