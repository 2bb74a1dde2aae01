---------------------------- MODULE AviaryProofs ----------------------------
(***************************************************************************)
(* Theorems about module Aviary: the process calls Reconcile only as       *)
(* module Reconciler allows, so what is proved of the reconciler's passes  *)
(* holds in the process, on whatever schedule it runs them.                *)
(***************************************************************************)
EXTENDS Aviary, PassProofs, MirrorProofs

\* Each step of the process is a step of the reconciler or of its
\* environment, or leaves both alone.
LEMMA StepsAreReconcilerSteps == [AviaryNext]_aviaryVars => [Next]_vars
<1> SUFFICES ASSUME [AviaryNext]_aviaryVars PROVE [Next]_vars
  OBVIOUS
<1>1. CASE MainReconciles
  <2>1. PassStep("main") /\ "main" \in Goroutines
    BY <1>1, AviaryAssumption DEF MainReconciles
  <2> QED
    BY <2>1 DEF Next
<1>2. CASE TickerReconciles
  <2>1. PassStep("ticker") /\ "ticker" \in Goroutines
    BY <1>2, AviaryAssumption DEF TickerReconciles
  <2> QED
    BY <2>1 DEF Next
<1>3. CASE Tick \/ TickerSelects \/ Connect \/ StreamFails \/ Reconnect \/ ReadEvent
  BY <1>3 DEF Tick, TickerSelects, Connect, StreamFails, Reconnect, ReadEvent
<1>4. CASE ContainersChange \/ DaemonRecordsStop
  <2>1. UNCHANGED <<netbirdVars, processVars>>
    BY <1>4 DEF ContainersChange, DaemonRecordsStop, Emit
  <2>2. DockerNext
    BY <1>4 DEF ContainersChange, DaemonRecordsStop, DockerNext
  <2> QED
    BY <2>1, <2>2 DEF DockerStep, Next
<1>5. CASE PeopleEdit
  BY <1>5 DEF PeopleEdit, Next
<1>6. CASE Signal
  BY <1>6 DEF Signal, Next
<1>7. CASE Exit \/ Crash
  BY <1>7 DEF Exit, Crash, Relaunch, Next
<1>8. CASE UNCHANGED aviaryVars
  BY <1>8 DEF aviaryVars
<1> QED
  BY <1>1, <1>2, <1>3, <1>4, <1>5, <1>6, <1>7, <1>8 DEF AviaryNext, ProcessStep

\* Whatever holds of the reconciler on every schedule holds of it in the process.
LEMMA ProcessIsReconciler == AviarySpec => Spec
<1>1. AviaryInit => Init
  BY DEF AviaryInit
<1>2. [AviaryNext]_aviaryVars => [Next]_vars
  BY StepsAreReconcilerSteps
<1> QED
  BY <1>1, <1>2, PTL DEF AviarySpec, Spec

\* So the running process keeps what the reconciler guarantees, on any schedule
\* of events, ticks, dropped streams, crashes and restarts: one service for each
\* name, only desired services written, nothing in a dry run; a service that is
\* switched off keeps its endpoint and a published port is not lost; a clean
\* pass settles what it deals with; and all in all it is the abstract mirror.
THEOREM ProcessIsSafe ==
    AviarySpec => /\ []NamesUnique
                  /\ []CleanPassSettles
                  /\ OnlyDesiredTouched
                  /\ DryRunWritesNothing
                  /\ StopKeepsEndpoint
                  /\ PublishedPortKept
                  /\ ImplementsMirror
<1>1. AviarySpec => Spec
  BY ProcessIsReconciler
<1>2. Spec => []NamesUnique /\ []CleanPassSettles
  BY OneServicePerName, CleanPassesSettle, PTL
<1>3. Spec => OnlyDesiredTouched /\ DryRunWritesNothing
  BY OthersUntouched, DryRunIsDry
<1>4. Spec => StopKeepsEndpoint /\ PublishedPortKept
  BY StopsKeepEndpoint, PublishedPortsKept
<1>5. Spec => ImplementsMirror
  BY ReconcilerIsMirror
<1> QED
  BY <1>1, <1>2, <1>3, <1>4, <1>5

\* The two goroutines and the event stream stay in their states: no event is
\* read that was not sent.
THEOREM AviaryTyped == AviarySpec => []AviaryTypeOK
<1>1. AviaryInit => AviaryTypeOK
  <2>1. AviaryInit => LoopInit /\ restarts = 0 /\ breaks = 0
    BY DEF AviaryInit
  <2>2. AviaryInit => ticked \in BOOLEAN
    BY Zenon DEF AviaryInit, LoopInit
  <2>3. AviaryInit => main = "initial" /\ ticker = "off" /\ pending = 0
    BY DEF AviaryInit, LoopInit
  <2> QED
    BY <2>1, <2>2, <2>3 DEF AviaryTypeOK
<1>2. AviaryTypeOK /\ [AviaryNext]_aviaryVars => AviaryTypeOK'
  <2> SUFFICES ASSUME AviaryTypeOK, [AviaryNext]_aviaryVars PROVE AviaryTypeOK'
    OBVIOUS
  <2> USE DEF AviaryTypeOK
  <2>1. CASE MainReconciles
    BY <2>1 DEF MainReconciles
  <2>2. CASE Tick \/ TickerSelects \/ TickerReconciles
    BY <2>2 DEF Tick, TickerSelects, TickerReconciles
  <2>3. CASE Connect \/ StreamFails \/ Reconnect \/ ReadEvent
    BY <2>3 DEF Connect, StreamFails, Reconnect, ReadEvent
  <2>4. ASSUME NEW count \in {0, 1}, Emit(count)
        PROVE  AviaryTypeOK'
    BY <2>4 DEF Emit
  <2>5. CASE ContainersChange \/ DaemonRecordsStop
    <3>1. \E count \in {0, 1} : Emit(count)
      BY <2>5 DEF ContainersChange, DaemonRecordsStop
    <3> QED
      BY <2>4, <3>1
  <2>6. CASE PeopleEdit \/ Signal \/ UNCHANGED aviaryVars
    BY <2>6 DEF PeopleEdit, Signal, aviaryVars, loopVars
  <2>7. CASE Exit \/ Crash
    <3>1. /\ main' = "initial" /\ ticker' = "off" /\ pending' = 0
          /\ restarts' = restarts + 1 /\ breaks' = breaks
      BY <2>7 DEF Exit, Crash, Relaunch
    <3>2. ticked' \in BOOLEAN
      BY <2>7, Zenon DEF Exit, Crash, Relaunch
    <3> QED
      BY <3>1, <3>2
  <2> QED
    BY <2>1, <2>2, <2>3, <2>5, <2>6, <2>7 DEF AviaryNext, ProcessStep
<1> QED
  BY <1>1, <1>2, PTL DEF AviarySpec

=============================================================================
