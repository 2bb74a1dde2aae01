---------------------------- MODULE AgentProofs -----------------------------
(***************************************************************************)
(* Theorems about the supervisor of the agent, for any number of children. *)
(***************************************************************************)
EXTENDS Agent, TLAPS

\* No step of the supervisor, of its child or of those who end them breaks
\* the types.
LEMMA AgentStepTyped ==
    ASSUME AgentTypeOK, [AgentNext]_agentVars
    PROVE  AgentTypeOK'
<1> USE DEF AgentTypeOK
<1>1. CASE \E there \in BOOLEAN : StartAgent(there)
  BY <1>1 DEF StartAgent, Moves, agentVars
<1>2. CASE Head
  BY <1>2 DEF Head, Moves
<1>3. CASE Fork
  <2>1. late' \in Nat
    BY <1>3 DEF Fork
  <2> QED
    BY <1>3, <2>1, Zenon DEF Fork
<1>4. CASE ForkFails
  <2>1. deaths' \in Nat
    BY <1>4 DEF ForkFails
  <2> QED
    BY <1>4, <2>1, Zenon DEF ForkFails
<1>5. CASE Publish
  BY <1>5 DEF Publish, Moves
<1>6. CASE Kill
  BY <1>6 DEF Kill
<1>7. CASE Reap
  BY <1>7 DEF Reap, Moves
<1>8. CASE AfterRun
  BY <1>8 DEF AfterRun, Moves
<1>9. CASE Resume
  <2>1. Longer \in Pauses
    BY DEF Longer, Pauses
  <2> QED
    BY <1>9, <2>1 DEF Resume
<1>10. CASE ChildDies
  <2>1. deaths' \in Nat
    BY <1>10 DEF ChildDies
  <2> QED
    BY <1>10, <2>1, Zenon DEF ChildDies
<1>11. CASE ChildObeys
  BY <1>11 DEF ChildObeys
<1>12. CASE Stop
  <2>1. PICK seen \in BOOLEAN :
           /\ interrupted' = (seen /\ child)
           /\ missed' = (~seen /\ supervisor \in {"prepared", "forked"})
    BY <1>12 DEF Stop
  <2> QED
    BY <1>12, <2>1 DEF Stop
<1>13. CASE CancelAgent
  BY <1>13 DEF CancelAgent
<1>14. CASE UNCHANGED agentVars
  BY <1>14 DEF agentVars
<1> QED
  BY <1>1, <1>2, <1>3, <1>4, <1>5, <1>6, <1>7, <1>8, <1>9, <1>10, <1>11,
     <1>12, <1>13, <1>14 DEF AgentNext, Supervise

\* A supervisor that has been started is never again one that has not.
LEMMA StaysOn ==
    ASSUME Supervise \/ ChildDies, supervisor # "off"
    PROVE  supervisor' # "off"
BY DEF Supervise, Head, Fork, ForkFails, Publish, Kill, Reap, AfterRun, Resume, ChildDies, Moves

\* The types hold in every state: in particular the pause, which doubles
\* whenever it is below 30 seconds, never grows beyond 32 (agent.go:133-135).
THEOREM AgentTyped == AgentSpec => []AgentTypeOK
<1>1. AgentInit => AgentTypeOK
  <2>1. 0 \in Nat /\ 1 \in Pauses
    BY DEF Pauses
  <2> QED
    BY <2>1, Zenon DEF AgentInit, AgentTypeOK
<1> QED
  BY <1>1, AgentStepTyped, PTL DEF AgentSpec

\* Why NoneAfterStop holds: a start is decided before Stop, or not at all.
\* If Stop finds the supervisor about to start a child, it has missed it, and
\* none has been started late so far.
Decided ==
    /\ ~stopped => late = 0 /\ ~missed
    /\ stopped /\ supervisor = "prepared" => missed /\ late = 0
    /\ NoneAfterStop

\* No child is started after Stop but the one whose start was decided when
\* Stop came; the loop then ends at its next look at a.stopped (agent.go:106).
THEOREM StopIsTheLast == AgentSpec => []NoneAfterStop
<1>1. AgentInit => Decided
  BY DEF AgentInit, Decided, NoneAfterStop
<1>2. AgentTypeOK /\ Decided /\ [AgentNext]_agentVars => Decided'
  <2> SUFFICES ASSUME AgentTypeOK, Decided, [AgentNext]_agentVars PROVE Decided'
    OBVIOUS
  <2> USE DEF Decided, NoneAfterStop, AgentTypeOK
  <2>1. CASE (\E there \in BOOLEAN : StartAgent(there)) \/ Publish \/ Reap
    BY <2>1 DEF StartAgent, Publish, Reap, Moves, agentVars
  <2>2. CASE Head
    BY <2>2 DEF Head, Moves
  <2>3. CASE Fork
    BY <2>3 DEF Fork
  <2>4. CASE ForkFails
    BY <2>4 DEF ForkFails
  <2>5. CASE AfterRun
    BY <2>5 DEF AfterRun, Moves
  <2>6. CASE Resume
    BY <2>6 DEF Resume
  <2>7. CASE Kill \/ ChildDies \/ ChildObeys
    BY <2>7 DEF Kill, ChildDies, ChildObeys
  <2>8. CASE Stop
    <3>1. late' = 0 /\ stopped' /\ supervisor' = supervisor
      BY <2>8 DEF Stop
    <3>2. supervisor = "prepared" => missed'
      BY <2>8 DEF Stop
    <3> QED
      BY <2>8, <3>1, <3>2 DEF Stop
  <2>9. CASE CancelAgent \/ UNCHANGED agentVars
    BY <2>9 DEF CancelAgent, agentVars
  <2> QED
    BY <2>1, <2>2, <2>3, <2>4, <2>5, <2>6, <2>7, <2>8, <2>9 DEF AgentNext, Supervise
<1>3. Decided => NoneAfterStop
  BY DEF Decided
<1> QED
  BY <1>1, <1>2, <1>3, AgentTyped, PTL DEF AgentSpec

=============================================================================
