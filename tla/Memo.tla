-------------------------------- MODULE Memo --------------------------------
(***************************************************************************)
(* What callers may expect of something that remembers its answers: a      *)
(* question is answered the same way for as long as the process lives.     *)
(***************************************************************************)
EXTENDS Naturals

VARIABLES
    given,  \* the answers that are fixed, by question
    life    \* the number of the process

Init ==
    /\ given = [q \in {} |-> {}]
    /\ life = 0

\* More questions get an answer; those that have one keep it.
Remember ==
    /\ DOMAIN given \subseteq DOMAIN given'
    /\ \A q \in DOMAIN given : given'[q] = given[q]
    /\ UNCHANGED life

\* A new process knows nothing.
Forget ==
    /\ given' = [q \in {} |-> {}]
    /\ life' = life + 1

Next == Remember \/ Forget

Spec == Init /\ [][Next]_<<given, life>>

=============================================================================
