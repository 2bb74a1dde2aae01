------------------------------- MODULE Mirror -------------------------------
(***************************************************************************)
(* What the reconciler promises, without calls, fields or failures: it     *)
(* looks at once at what all containers ask of all names, and from then on *)
(* deals with each of these names at most once, doing what was asked or    *)
(* nothing at all; between such looks it touches nothing.  Containers and  *)
(* people do as they like.                                                 *)
(***************************************************************************)
EXTENDS Naturals

CONSTANT Name  \* the names that people give no services of their own

VARIABLES
    asks,   \* what containers ask now: <<name, "on" | "off" | "remove">>;
            \* it may change with any step and at any time
    shown,  \* name -> the state of its service: "on", "off" or "gone"
    plan,   \* name -> what was asked of it when the containers were looked at
    left,   \* the names that have not been dealt with
    hands   \* the number of times that people have done something

NoPlan == [n \in {} |-> {}]

Init ==
    /\ shown = [n \in Name |-> "gone"]
    /\ plan = NoPlan
    /\ left = {}
    /\ hands = 0

\* Of a name that several containers ask for, any may be heard; some names
\* may not be heard of at all.
Look ==
    /\ plan = NoPlan
    /\ \A n \in DOMAIN plan' : <<n, plan'[n]>> \in asks
    /\ left' = DOMAIN plan'
    /\ UNCHANGED <<shown, hands>>

\* What a service may turn into.  (What is to be removed and is gone may come
\* back switched off: see EphemeralStaysDeleted of module Promises.)
Outcomes(want, state) ==
    {state} \cup
    CASE want \in {"on", "off"} -> {want}
      [] want = "remove" -> {IF state = "gone" THEN "off" ELSE "gone"}

Deal(n) ==
    /\ n \in left
    /\ left' = left \ {n}
    /\ \E state \in Outcomes(plan[n], shown[n]) : shown' = [shown EXCEPT ![n] = state]
    /\ UNCHANGED <<plan, hands>>

\* All is done, or something has failed, or the process has died.
Forget ==
    /\ plan' = NoPlan
    /\ left' = {}
    /\ UNCHANGED <<shown, hands>>

PeopleEdit ==
    /\ hands' = hands + 1
    /\ shown' \in [Name -> {"on", "off", "gone"}]
    /\ UNCHANGED <<plan, left>>

Next ==
    \/ Look \/ Forget
    \/ \E n \in left : Deal(n)
    \/ PeopleEdit

Spec == Init /\ [][Next]_<<shown, plan, left, hands>>

=============================================================================
