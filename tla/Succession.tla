----------------------------- MODULE Succession -----------------------------
(***************************************************************************)
(* What the backup servers promise about a main server that is lost.       *)
(*                                                                         *)
(* Each member gives up on the first main server when it has reason to.    *)
(* When all have, the one with the greatest id inherits; the others then   *)
(* follow it, and it serves once they all do.  An heir, or a member that   *)
(* serves, may end; nobody comes after it.                                 *)
(*                                                                         *)
(* No message, socket, timer or ring is left here: Election is shown to    *)
(* implement this.                                                         *)
(***************************************************************************)
EXTENDS Integers

CONSTANTS
  Member,   \* the ids of the backup servers
  First     \* the main server they have when they start

VARIABLES
  left,     \* the members that no longer take First's word for anything
  stage,    \* what each member is
  lead      \* whom each member follows

vars == <<left, stage, lead>>

Init ==
  /\ left = {}
  /\ stage = [i \in Member |-> "member"]
  /\ lead = [i \in Member |-> First]

GiveUp(i) ==
  /\ i \notin left
  /\ left' = left \cup {i}
  /\ UNCHANGED <<stage, lead>>

Inherit(i) ==
  /\ stage[i] = "member"
  /\ left = Member
  /\ \A j \in Member : j <= i
  /\ stage' = [stage EXCEPT ![i] = "heir"]
  /\ UNCHANGED <<left, lead>>

\* In the order of their ids.
Follow(j, i) ==
  /\ stage[i] = "heir" /\ j # i
  /\ lead[j] = First
  /\ \A k \in Member : k < j => lead[k] = i
  /\ lead' = [lead EXCEPT ![j] = i]
  /\ UNCHANGED <<left, stage>>

Serve(i) ==
  /\ stage[i] = "heir"
  /\ \A j \in Member : j # i => lead[j] = i
  /\ stage' = [stage EXCEPT ![i] = "main"]
  /\ UNCHANGED <<left, lead>>

End(i) ==
  /\ stage[i] \in {"heir", "main"}
  /\ stage' = [stage EXCEPT ![i] = "gone"]
  /\ UNCHANGED <<left, lead>>

Next ==
  \E i \in Member :
    \/ GiveUp(i) \/ Inherit(i) \/ Serve(i) \/ End(i)
    \/ \E j \in Member : Follow(j, i)

Spec == Init /\ [][Next]_vars

=============================================================================
