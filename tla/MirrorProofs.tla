---------------------------- MODULE MirrorProofs ----------------------------
(***************************************************************************)
(* The reconciler implements module Mirror, for any deployments, names and *)
(* goroutines: a pass is one look at the containers, followed by at most   *)
(* one change per name, to what was asked.                                 *)
(***************************************************************************)
EXTENDS ReconcilerProofs

-----------------------------------------------------------------------------
(* The state of a name                                                     *)

\* What ShownNow says of a name, by quantifiers.
StateOf(n, svcs) ==
    IF \A id \in DOMAIN svcs : svcs[id].name # n THEN "gone"
    ELSE IF \E id \in DOMAIN svcs : svcs[id].name = n /\ svcs[id].enabled THEN "on"
    ELSE "off"

\* ShownNow is StateOf, before and after a step.
LEMMA ShownIsState ==
    /\ ShownNow = [n \in MayShow |-> StateOf(n, services)]
    /\ ShownNow' = [n \in MayShow |-> StateOf(n, services')]
<1>1. \A n \in MayShow : ShownNow[n] = StateOf(n, services)
  BY DEF ShownNow, StateOf, ServicesNamed
<1>2. \A n \in MayShow : ShownNow'[n] = StateOf(n, services')
  BY DEF ShownNow, StateOf, ServicesNamed
<1> QED
  BY <1>1, <1>2 DEF ShownNow

\* The state of a name depends on the services of that name only.
LEMMA StateOfOthers ==
    ASSUME NEW old, NEW new, NEW n, NEW i,
           i \in DOMAIN old => old[i].name # n,
           i \in DOMAIN new => new[i].name # n,
           DOMAIN old \ {i} = DOMAIN new \ {i},
           \A id \in DOMAIN old \ {i} : new[id] = old[id]
    PROVE  StateOf(n, new) = StateOf(n, old)
BY DEF StateOf

\* The state of a name that one service has.
LEMMA StateOfOne ==
    ASSUME NEW svcs, NEW n, NEW i \in DOMAIN svcs, svcs[i].name = n,
           \A id \in DOMAIN svcs \ {i} : svcs[id].name # n
    PROVE  StateOf(n, svcs) = IF svcs[i].enabled THEN "on" ELSE "off"
BY DEF StateOf

-----------------------------------------------------------------------------
(* One name is dealt with                                                  *)

\* The overlay is switched on exactly if the desired service is.
LEMMA OverlaySwitch ==
    ASSUME NEW cur \in ServiceType, NEW ds \in DesiredType
    PROVE  Overlay(cur, ds).enabled = ds.service.enabled
<1>1. ds.service \in ServiceType /\ ds.service.enabled \in BOOLEAN
  BY DEF DesiredType, ServiceType
<1>2. CASE ds.service.enabled
  <2>1. InheritPort(cur, ds).enabled = ds.service.enabled
    BY <1>1 DEF InheritPort, ServiceType
  <2>2. "enabled" \in DOMAIN InheritPort(cur, ds)
    BY <1>1 DEF InheritPort, ServiceType
  <2>3. Merge(cur, InheritPort(cur, ds)).enabled = InheritPort(cur, ds).enabled
    BY <2>2 DEF Merge
  <2> QED
    BY <1>2, <2>1, <2>3 DEF Overlay
<1>3. CASE ~ds.service.enabled
  BY <1>1, <1>3 DEF Overlay, DisableInPlace, ServiceType
<1> QED
  BY <1>1, <1>2, <1>3

\* What a pass does about a name turns it into what the plan says, or leaves
\* it alone.
LEMMA DealtWith ==
    ASSUME TypeOK, Serialised, NamesInv, NEW g \in Goroutines, NEW n \in Names, Deals(g, n)
    PROVE  /\ \A m \in MayShow \ {n} : StateOf(m, services') = StateOf(m, services)
           /\ n \in MayShow =>
                LET ds == pass[g].desired[n]
                IN  StateOf(n, services') \in
                      Mirroring!Outcomes(Ask(ds.service.enabled, ds.ephemeral),
                                         StateOf(n, services))
<1> DEFINE ds == pass[g].desired[n]
           want == Ask(ds.service.enabled, ds.ephemeral)
           Result == /\ \A m \in MayShow \ {n} : StateOf(m, services') = StateOf(m, services)
                     /\ n \in MayShow => StateOf(n, services') \in
                                           Mirroring!Outcomes(want, StateOf(n, services))
<1> SUFFICES Result
  OBVIOUS
<1>1. Takes(g, n)
  BY DEF Deals, Create, DeleteStopped, Update, UpToDate
<1>2. /\ ds \in DesiredType
      /\ ds.service \in ServiceType
      /\ ds.service.name = n
      /\ ds.service.enabled \in BOOLEAN
      /\ ds.ephemeral \in BOOLEAN
  BY <1>1, TakesTyped DEF DesiredType, ServiceType
<1>3. Collection(services)
  BY NetBirdIsCollection DEF TypeOK
<1>4. \A state : state \in Mirroring!Outcomes(want, state)
  BY DEF Mirroring!Outcomes
<1>5. CASE services' = services
  BY <1>4, <1>5
<1>6. Exists(g, n) /\ pass[g].byName[n].id \in DOMAIN services
        => services[pass[g].byName[n].id].name \in UserNames \cup {n}
  BY <1>1 DEF Takes, Exists, NamesInv, Remembers
<1>7. n \in MayShow /\ Exists(g, n)
        => \A i \in DOMAIN services : services[i].name = n => i = pass[g].byName[n].id
  BY <1>1 DEF MayShow, Takes, Exists, NamesInv, Listed, ServicesNamed
<1> HIDE DEF ds
<1>8. CASE Create(g, n) /\ services' # services
  <2>1. PICK id \in Ids : Fresh(id, Remembered) /\ services' = Posted(id, ds.service)
    BY <1>8 DEF Create, Request, ds
  <2>2. id \notin DOMAIN services
    BY <2>1 DEF Fresh
  <2>3. /\ DOMAIN services' = DOMAIN services \cup {id}
        /\ services'[id].name = n
        /\ \A i \in DOMAIN services : services'[i] = services[i]
    BY <1>2, <1>3, <2>1, <2>2, PostedTyped
  <2>4. services'[id].enabled = ds.service.enabled
    BY <1>2, <2>1, StoredFields DEF Posted, With
  <2>5. \A m \in MayShow \ {n} : StateOf(m, services') = StateOf(m, services)
    BY <2>2, <2>3, StateOfOthers
  <2>6. ASSUME n \in MayShow
        PROVE  StateOf(n, services') \in Mirroring!Outcomes(want, StateOf(n, services))
    <3>1. ServicesNamed(n) = {}
      BY <1>1, <1>8, <2>6 DEF Create, Exists, Takes, NamesInv, Listed, MayShow
    <3>2. StateOf(n, services) = "gone"
      BY <3>1 DEF ServicesNamed, StateOf
    <3>3. \A i \in DOMAIN services' \ {id} : services'[i].name # n
      BY <2>3, <3>1 DEF ServicesNamed
    <3>4. StateOf(n, services') = IF ds.service.enabled THEN "on" ELSE "off"
      BY <2>3, <2>4, <3>3, StateOfOne
    <3> QED
      BY <1>2, <3>2, <3>4 DEF Mirroring!Outcomes, Ask
  <2> QED
    BY <2>5, <2>6
<1>9. CASE DeleteStopped(g, n) /\ services' # services
  <2> DEFINE id == pass[g].byName[n].id
  <2>1. services' = Deleted(id) /\ Exists(g, n) /\ DeletesWhenOff(ds)
    BY <1>9 DEF DeleteStopped, Request, ds
  <2>2. /\ DOMAIN services' = DOMAIN services \ {id}
        /\ \A i \in DOMAIN services' : services'[i] = services[i]
    BY <1>3, <2>1, DeletedTyped
  <2> HIDE DEF id
  <2>3. id \in DOMAIN services => services[id].name \in UserNames \cup {n}
    BY <1>6, <2>1 DEF id
  <2>4. \A m \in MayShow \ {n} : StateOf(m, services') = StateOf(m, services)
    BY <2>2, <2>3, StateOfOthers DEF MayShow
  <2>5. ASSUME n \in MayShow
        PROVE  StateOf(n, services') \in Mirroring!Outcomes(want, StateOf(n, services))
    <3>1. StateOf(n, services') = "gone"
      <4>1. \A i \in DOMAIN services : services[i].name = n => i = id
        BY <1>7, <2>1, <2>5 DEF id
      <4> QED
        BY <2>2, <4>1 DEF StateOf
    <3>2. CASE StateOf(n, services) = "gone"
      BY <1>4, <3>1, <3>2
    <3>3. CASE StateOf(n, services) # "gone"
      <4>1. want = "remove"
        BY <2>1 DEF DeletesWhenOff, Ask
      <4> QED
        BY <3>1, <3>3, <4>1 DEF Mirroring!Outcomes
    <3> QED
      BY <3>2, <3>3
  <2> QED
    BY <2>4, <2>5
<1>10. CASE Update(g, n) /\ services' # services
  <2> DEFINE id == pass[g].byName[n].id
             s == AfterCompare(Merged(g, n))
  <2>1. services' = Replaced(id, s) /\ Exists(g, n) /\ ~DeletesWhenOff(ds)
    BY <1>10 DEF Update, Request, ds
  <2>2. s \in ServiceType /\ s.name = n
    BY <1>1, <2>1, TakesTyped, AfterCompareType
  <2>3. s.enabled = ds.service.enabled
    <3>1. Merged(g, n) \in ServiceType /\ pass[g].byName[n] \in ServiceType
      BY <1>1, <2>1, TakesTyped
    <3>2. Merged(g, n).enabled = ds.service.enabled
      BY <1>2, <3>1, OverlaySwitch DEF Merged, ds
    <3> QED
      BY <3>1, <3>2 DEF AfterCompare, ServiceType
  <2> HIDE DEF s, id
  <2>4. id \in DOMAIN services
    BY <1>10, <2>1 DEF Replaced
  <2>5. /\ DOMAIN services' = DOMAIN services
        /\ services'[id].name = n
        /\ \A i \in DOMAIN services \ {id} : services'[i] = services[i]
    BY <1>3, <2>1, <2>2, <2>4, ReplacedTyped
  <2>6. services'[id].enabled = ds.service.enabled
    BY <2>1, <2>2, <2>3, <2>4, <1>3 DEF Replaced, Collection, ServiceType
  <2>7. services[id].name \in UserNames \cup {n}
    BY <1>6, <2>1, <2>4 DEF id
  <2>8. \A m \in MayShow \ {n} : StateOf(m, services') = StateOf(m, services)
    BY <2>5, <2>7, StateOfOthers DEF MayShow
  <2>9. ASSUME n \in MayShow
        PROVE  StateOf(n, services') \in Mirroring!Outcomes(want, StateOf(n, services))
    <3>1. \A i \in DOMAIN services' \ {id} : services'[i].name # n
      BY <1>7, <2>1, <2>5, <2>9 DEF id
    <3>2. StateOf(n, services') = IF ds.service.enabled THEN "on" ELSE "off"
      BY <2>4, <2>5, <2>6, <3>1, StateOfOne
    <3>3. want = IF ds.service.enabled THEN "on" ELSE "off"
      BY <1>2, <2>1 DEF DeletesWhenOff, Ask
    <3> QED
      BY <3>2, <3>3 DEF Mirroring!Outcomes
  <2> QED
    BY <2>8, <2>9
<1>11. CASE UpToDate(g, n)
  BY <1>5, <1>11 DEF UpToDate, netbirdVars
<1> QED
  BY <1>5, <1>8, <1>9, <1>10, <1>11 DEF Deals

-----------------------------------------------------------------------------
(* The look at the containers                                              *)

\* What labels ask for, and of which name, does not depend on what the daemon
\* hides of a container that is going down.
LEMMA SpecsAreSeen ==
    ASSUME NEW hidden, NEW ck \in Specs(List(hidden))
    PROVE  /\ ck \in Specs(List({}))
           /\ SpecOf(List(hidden), ck) = SpecOf(List({}), ck)
           /\ NameOf(List(hidden), ck) = NameOf(List({}), ck)
           /\ List(hidden)[ck[1]].running = (containers[ck[1]].status # "stopped")
<1>1. PICK c \in DOMAIN List(hidden) : ck \in {<<c, k>> : k \in DOMAIN Parsed[List(hidden)[c].labels]}
  BY DEF Specs
<1>2. ck[1] = c /\ c \in Labelled
  BY <1>1 DEF List
<1>3. ASSUME NEW h
      PROVE  /\ DOMAIN List(h) = Labelled
             /\ List(h)[c].labels = containers[c].dep.labels
             /\ List(h)[c].cname = containers[c].dep.cname
             /\ List(h)[c].running = (containers[c].status # "stopped")
  BY <1>2 DEF List, FromSummary
<1>4. ck \in Specs(List({}))
  BY <1>1, <1>2, <1>3 DEF Specs
<1>5. SpecOf(List(hidden), ck) = SpecOf(List({}), ck)
  BY <1>2, <1>3 DEF SpecOf
<1>6. NameOf(List(hidden), ck) = NameOf(List({}), ck)
  BY <1>2, <1>3, <1>5 DEF NameOf, ServiceName
<1> QED
  BY <1>2, <1>3, <1>4, <1>5, <1>6

\* What a pass makes of the list is what a container asks of that name.
LEMMA DesiredIsAsked ==
    ASSUME DockerTypeOK, NEW hidden, NEW down, NEW n \in DOMAIN Desired(List(hidden), down)
    PROVE  LET ds == Desired(List(hidden), down)[n]
           IN  <<n, Ask(ds.service.enabled, ds.ephemeral)>> \in AskedNow
<1> DEFINE listed == List(hidden)
           ck == First(listed, down, n)
           sp == SpecOf(listed, ck)
           ds == Desired(listed, down)[n]
           on == containers[ck[1]].status # "stopped" /\ ~sp.forcedOff
<1>1. Listing(listed)
  BY ListIsListing
<1>2. ck \in Built(listed, down) /\ NameOf(listed, ck) = n
  BY <1>1, FirstIsBuilt DEF Desired
<1>3. ds = BuildDesired(listed[ck[1]], ck[2], sp)
  BY DEF Desired
<1> HIDE DEF ck, ds
<1>4. ck \in Specs(listed)
  BY <1>2 DEF Built
<1>5. /\ ck \in Specs(List({}))
      /\ sp = SpecOf(List({}), ck)
      /\ n = NameOf(List({}), ck)
      /\ listed[ck[1]].running = (containers[ck[1]].status # "stopped")
  BY <1>2, <1>4, SpecsAreSeen
<1>6. ds.service.enabled = on /\ ds.ephemeral = sp.ephemeral
  BY <1>3, <1>5 DEF BuildDesired, SwitchedOn
<1>7. <<NameOf(List({}), ck), Ask(on, sp.ephemeral)>> \in AskedNow
  BY <1>5 DEF AskedNow
<1> QED
  BY <1>5, <1>6, <1>7 DEF ds

-----------------------------------------------------------------------------
(* The steps of a pass                                                     *)

\* A pass that has not listed the containers wants nothing yet.
Early ==
    \A g \in Goroutines : pass[g].phase \in {"idle", "list"} => DOMAIN pass[g].desired = {}

\* What Early needs of a step: a pass that looks at the containers moves on.
LEMMA EarlyStep == TypeOK /\ Early /\ [Next]_vars => Early'
<1> SUFFICES ASSUME TypeOK, Early, [Next]_vars PROVE Early'
  OBVIOUS
<1>1. DOMAIN pass = Goroutines /\ \A g \in Goroutines : PassOK(pass[g])
  BY DEF TypeOK
<1>2. ASSUME NEW g \in Goroutines, NEW p, pass' = [pass EXCEPT ![g] = p],
             p.phase \in {"idle", "list"} => DOMAIN p.desired = {}
      PROVE  Early'
  BY <1>1, <1>2 DEF Early
<1>3. ASSUME NEW g \in Goroutines, PassStep(g)
      PROVE  Early'
  <2>1. ASSUME Return(g)
        PROVE  Early'
    BY <1>2, <2>1 DEF Return, IdlePass
  <2>2. CASE Lock(g)
    <3> DEFINE p == [pass[g] EXCEPT !.phase = "list"]
    <3>1. pass' = [pass EXCEPT ![g] = p] /\ pass[g].phase = "idle"
      BY <2>2, <1>1 DEF Lock
    <3>2. p.desired = pass[g].desired
      BY <1>1 DEF PassOK, IdlePass
    <3> QED
      BY <1>2, <3>1, <3>2 DEF Early
  <2>3. CASE ListContainers(g)
    <3>1. PICK listed, down :
             pass' = [pass EXCEPT ![g].phase = "services", ![g].listed = listed,
                                  ![g].desired = Desired(listed, down)]
      BY <2>3 DEF ListContainers
    <3> DEFINE p == [pass[g] EXCEPT !.phase = "services", !.listed = listed,
                                    !.desired = Desired(listed, down)]
    <3>2. pass' = [pass EXCEPT ![g] = p]
      BY <1>1, <3>1
    <3>3. p.phase = "services"
      BY <1>1 DEF PassOK, IdlePass
    <3> QED
      BY <1>2, <3>2, <3>3
  <2>4. CASE ListServices(g)
    <3>1. PICK last :
             pass' = [pass EXCEPT ![g].phase = "apply",
                                  ![g].byName = [n \in DOMAIN last |-> View(services[last[n]])],
                                  ![g].todo = DOMAIN pass[g].desired,
                                  ![g].clean = TRUE]
      BY <2>4 DEF ListServices
    <3> DEFINE p == [pass[g] EXCEPT !.phase = "apply",
                                    !.byName = [n \in DOMAIN last |-> View(services[last[n]])],
                                    !.todo = DOMAIN pass[g].desired,
                                    !.clean = TRUE]
    <3>2. pass' = [pass EXCEPT ![g] = p]
      BY <1>1, <3>1
    <3>3. p.phase = "apply"
      BY <1>1 DEF PassOK, IdlePass
    <3> QED
      BY <1>2, <3>2, <3>3
  <2>5. CASE ApplyStep(g)
    <3>1. PICK n, ok : Takes(g, n) /\ Done(g, n, ok)
      BY <2>5 DEF ApplyStep, Create, DeleteStopped, Update, UpToDate, Request
    <3> DEFINE p == [pass[g] EXCEPT !.todo = @ \ {n}, !.clean = @ /\ ok]
    <3>2. pass' = [pass EXCEPT ![g] = p]
      BY <1>1, <3>1 DEF Done
    <3>3. p.phase = "apply"
      BY <1>1, <3>1 DEF Takes, PassOK, IdlePass
    <3> QED
      BY <1>2, <3>2, <3>3
  <2> QED
    BY <1>3, <2>1, <2>2, <2>3, <2>4, <2>5
       DEF PassStep, ListContainersFails, ListServicesFails, EndPass
<1>4. CASE Restart
  BY <1>4 DEF Restart, Early, IdlePass
<1>5. CASE UserStep
  <2>1. \A g \in Goroutines : /\ pass'[g].phase = pass[g].phase
                              /\ pass'[g].desired = pass[g].desired
    BY <1>1, <1>5 DEF UserStep, PassOK, IdlePass
  <2> QED
    BY <2>1 DEF Early
<1>6. CASE Cancel \/ DockerStep \/ UNCHANGED vars
  BY <1>6 DEF Cancel, DockerStep, processVars, vars, Early
<1> QED
  BY <1>3, <1>4, <1>5, <1>6 DEF Next

\* What module Mirror sees of a state.
seen == <<ShownNow, PlanNow, LeftNow, edits>>

\* The services are seen as before if they are as before.
LEMMA ShownStays == services' = services => ShownNow' = ShownNow
BY ShownIsState

\* Without a pass there is no plan.
LEMMA NoPass ==
    /\ mu \notin Goroutines => PlanNow = Mirroring!NoPlan /\ LeftNow = {}
    /\ mu' \notin Goroutines => PlanNow' = Mirroring!NoPlan /\ LeftNow' = {}
BY DEF PlanNow, LeftNow, Mirroring!NoPlan

\* A step that gives up r.mu ends the plan.
LEMMA ReturnMirrors ==
    ASSUME mu' = "nobody", services' = services, edits' = edits
    PROVE  Mirroring!Forget
<1>1. PlanNow' = Mirroring!NoPlan /\ LeftNow' = {}
  BY NoPass, ReconcilerAssumption
<1> QED
  BY <1>1, ShownStays DEF Mirroring!Forget

\* A name that is dealt with is one that was left, and is no more.
LEMMA ApplyMirrors ==
    ASSUME TypeOK, Serialised, NamesInv, NEW g \in Goroutines, ApplyStep(g)
    PROVE  [Mirroring!Next]_seen
<1>1. PICK n \in Names : Deals(g, n)
  BY DEF ApplyStep, Deals
<1>2. PICK ok \in BOOLEAN : Takes(g, n) /\ Done(g, n, ok)
  BY <1>1 DEF Deals, Create, DeleteStopped, Update, UpToDate, Request
<1>3. mu = g /\ mu' = g /\ edits' = edits
  <2>1. mu' = mu /\ edits' = edits
    BY <1>1 DEF Deals, Create, DeleteStopped, Update, UpToDate, Request, netbirdVars
  <2> QED
    BY <1>2, <2>1 DEF Takes, Serialised
<1>4. /\ pass[g].phase = "apply"
      /\ pass'[g].phase = "apply"
      /\ pass'[g].desired = pass[g].desired
      /\ pass'[g].todo = pass[g].todo \ {n}
      /\ n \in pass[g].todo
      /\ n \in DOMAIN pass[g].desired
  BY <1>2 DEF Takes, Done, TypeOK, PassOK, IdlePass
<1>5. PlanNow' = PlanNow
  BY <1>3, <1>4 DEF PlanNow
<1>6. LeftNow' = LeftNow \ {n}
  BY <1>3, <1>4 DEF LeftNow
<1>7. \A m \in MayShow \ {n} : ShownNow'[m] = ShownNow[m]
  BY <1>1, DealtWith, ShownIsState
<1>8. CASE n \in MayShow
  <2>1. n \in LeftNow
    BY <1>3, <1>4, <1>8 DEF LeftNow
  <2>2. PlanNow[n] = Ask(pass[g].desired[n].service.enabled, pass[g].desired[n].ephemeral)
    BY <1>3, <1>4, <1>8 DEF PlanNow
  <2>3. ShownNow'[n] \in Mirroring!Outcomes(PlanNow[n], ShownNow[n])
    BY <1>1, <1>8, <2>2, DealtWith, ShownIsState
  <2>4. ShownNow' = [ShownNow EXCEPT ![n] = ShownNow'[n]]
    BY <1>7, <1>8, ShownIsState
  <2>5. Mirroring!Deal(n)
    BY <1>3, <1>5, <1>6, <2>1, <2>3, <2>4 DEF Mirroring!Deal
  <2> QED
    BY <2>1, <2>5 DEF Mirroring!Next
<1>9. CASE n \notin MayShow
  <2>1. ShownNow' = ShownNow
    BY <1>7, <1>9, ShownIsState
  <2>2. LeftNow' = LeftNow
    BY <1>6, <1>9 DEF LeftNow
  <2> QED
    BY <1>3, <1>5, <2>1, <2>2 DEF seen
<1> QED
  BY <1>8, <1>9

\* Looking at the containers is the one moment at which a plan is made.
LEMMA LookMirrors ==
    ASSUME TypeOK, Serialised, Early, NEW g \in Goroutines, ListContainers(g)
    PROVE  Mirroring!Look
<1>1. PICK hidden, down :
         pass' = [pass EXCEPT ![g].phase = "services", ![g].listed = List(hidden),
                              ![g].desired = Desired(List(hidden), down)]
  BY DEF ListContainers
<1>2. /\ pass[g].phase = "list"
      /\ UNCHANGED <<services, edits, mu>>
  BY DEF ListContainers, netbirdVars
<1>3. mu = g /\ mu' = g
  BY <1>2 DEF Serialised
<1>4. /\ pass'[g].phase = "services"
      /\ pass'[g].desired = Desired(List(hidden), down)
  BY <1>1 DEF TypeOK, PassOK, IdlePass
<1>5. PlanNow = Mirroring!NoPlan
  <2>1. DOMAIN pass[g].desired = {}
    BY <1>2 DEF Early
  <2> QED
    BY <1>3, <2>1 DEF PlanNow, Mirroring!NoPlan
<1> DEFINE desired == Desired(List(hidden), down)
<1>6. PlanNow' = [n \in DOMAIN desired \cap MayShow |->
                    Ask(desired[n].service.enabled, desired[n].ephemeral)]
  BY <1>3, <1>4 DEF PlanNow
<1>7. \A n \in DOMAIN desired : <<n, Ask(desired[n].service.enabled, desired[n].ephemeral)>> \in AskedNow
  BY DesiredIsAsked DEF TypeOK
<1>8. LeftNow' = DOMAIN desired \cap MayShow
  BY <1>3, <1>4 DEF LeftNow
<1> HIDE DEF desired
<1>9. \A n \in DOMAIN PlanNow' : <<n, PlanNow'[n]>> \in {a \in AskedNow : a[1] \in MayShow}
  BY <1>6, <1>7
<1> QED
  BY <1>2, <1>5, <1>6, <1>8, <1>9, ShownStays DEF Mirroring!Look

\* Every step of the reconciler is a step of the mirror or goes unseen.
LEMMA StepMirrors ==
    ASSUME TypeOK, Serialised, NamesInv, Early, [Next]_vars
    PROVE  [Mirroring!Next]_seen
<1>1. DOMAIN pass = Goroutines /\ \A g \in Goroutines : PassOK(pass[g])
  BY DEF TypeOK
<1>2. ASSUME NEW g \in Goroutines, PassStep(g)
      PROVE  [Mirroring!Next]_seen
  <2>1. CASE Lock(g)
    <3>1. /\ mu = "nobody" /\ mu' = g
          /\ UNCHANGED <<services, edits>>
          /\ pass[g].phase = "idle"
          /\ pass'[g] = [pass[g] EXCEPT !.phase = "list"]
      BY <1>1, <2>1 DEF Lock, netbirdVars
    <3>2. DOMAIN pass'[g].desired = {} /\ pass'[g].todo = {} /\ pass'[g].phase = "list"
      BY <1>1, <3>1 DEF PassOK, IdlePass, Early
    <3>3. PlanNow = Mirroring!NoPlan /\ LeftNow = {}
      BY <3>1, NoPass, ReconcilerAssumption
    <3>4. PlanNow' = Mirroring!NoPlan /\ LeftNow' = {}
      BY <3>1, <3>2 DEF PlanNow, LeftNow, Mirroring!NoPlan
    <3> QED
      BY <3>1, <3>3, <3>4, ShownStays DEF seen
  <2>2. CASE ListContainers(g)
    BY <2>2, LookMirrors DEF Mirroring!Next
  <2>3. CASE ListContainersFails(g) \/ ListServicesFails(g) \/ EndPass(g)
    <3>1. mu' = "nobody" /\ services' = services /\ edits' = edits
      BY <2>3 DEF ListContainersFails, ListServicesFails, EndPass, Return, netbirdVars
    <3> QED
      BY <3>1, ReturnMirrors DEF Mirroring!Next
  <2>4. CASE ListServices(g)
    <3>1. /\ pass[g].phase = "services"
          /\ UNCHANGED <<services, edits, mu>>
      BY <2>4 DEF ListServices, netbirdVars
    <3>2. /\ pass'[g].phase = "apply"
          /\ pass'[g].todo = DOMAIN pass[g].desired
          /\ pass'[g].desired = pass[g].desired
      <4>1. PICK last :
               pass' = [pass EXCEPT ![g].phase = "apply",
                                    ![g].byName = [n \in DOMAIN last |-> View(services[last[n]])],
                                    ![g].todo = DOMAIN pass[g].desired,
                                    ![g].clean = TRUE]
        BY <2>4 DEF ListServices
      <4> DEFINE byName == [n \in DOMAIN last |-> View(services[last[n]])]
      <4>2. pass' = [pass EXCEPT ![g] = [pass[g] EXCEPT !.phase = "apply", !.byName = byName,
                                           !.todo = DOMAIN pass[g].desired, !.clean = TRUE]]
        BY <1>1, <4>1
      <4> HIDE DEF byName
      <4> QED
        BY <1>1, <4>2 DEF PassOK, IdlePass
    <3>3. mu = g
      BY <3>1 DEF Serialised
    <3>4. PlanNow' = PlanNow /\ LeftNow' = LeftNow
      BY <3>1, <3>2, <3>3 DEF PlanNow, LeftNow
    <3> QED
      BY <3>1, <3>4, ShownStays DEF seen
  <2>5. CASE ApplyStep(g)
    BY <2>5, ApplyMirrors
  <2> QED
    BY <1>2, <2>1, <2>2, <2>3, <2>4, <2>5 DEF PassStep
<1>3. CASE Restart
  <2>1. mu' = "nobody" /\ services' = services /\ edits' = edits
    BY <1>3 DEF Restart, netbirdVars
  <2> QED
    BY <2>1, ReturnMirrors DEF Mirroring!Next
<1>4. CASE Cancel \/ DockerStep \/ UNCHANGED vars
  <2>1. UNCHANGED <<services, edits, mu, pass>>
    BY <1>4 DEF Cancel, DockerStep, vars, netbirdVars, processVars
  <2>2. PlanNow' = PlanNow /\ LeftNow' = LeftNow
    BY <2>1 DEF PlanNow, LeftNow
  <2> QED
    BY <2>1, <2>2, ShownStays DEF seen
<1>5. CASE UserStep
  <2>1. edits' = edits + 1 /\ mu' = mu
    BY <1>5 DEF UserStep, UserCreate, UserEdit, UserDelete
  <2>2. \A g \in Goroutines : /\ pass'[g].phase = pass[g].phase
                              /\ pass'[g].desired = pass[g].desired
                              /\ pass'[g].todo = pass[g].todo
    BY <1>1, <1>5 DEF UserStep, PassOK, IdlePass
  <2>3. PlanNow' = PlanNow /\ LeftNow' = LeftNow
    BY <2>1, <2>2 DEF PlanNow, LeftNow
  <2>4. \A n \in MayShow : StateOf(n, services') \in {"on", "off", "gone"}
    BY DEF StateOf
  <2>5. ShownNow' \in [MayShow -> {"on", "off", "gone"}]
    BY <2>4, ShownIsState
  <2> QED
    BY <2>1, <2>3, <2>5 DEF Mirroring!PeopleEdit, Mirroring!Next
<1> QED
  BY <1>2, <1>3, <1>4, <1>5 DEF Next

\* The reconciler is a mirror: whatever fails and whoever interferes, a pass
\* acts once on each name, on what the containers asked of that name at one
\* moment of that pass, and nobody's service is touched between two looks.
THEOREM ReconcilerIsMirror == Spec => ImplementsMirror
<1>1. Init => Mirroring!Init
  <2> SUFFICES ASSUME Init PROVE Mirroring!Init
    OBVIOUS
  <2>1. mu \notin Goroutines /\ edits = 0 /\ DOMAIN services = {}
    BY ReconcilerAssumption DEF Init, ReconcilerInit, NetBirdInit
  <2>2. \A n \in MayShow : StateOf(n, services) = "gone"
    BY <2>1 DEF StateOf
  <2>3. ShownNow = [n \in MayShow |-> "gone"]
    BY <2>2, ShownIsState
  <2> QED
    BY <2>1, <2>3, NoPass DEF Mirroring!Init
<1>2. Init => Early
  BY DEF Init, ReconcilerInit, Early, IdlePass
<1>3. TypeOK /\ Early /\ [Next]_vars => Early'
  BY EarlyStep
<1>4. TypeOK /\ Serialised /\ NamesInv /\ Early /\ [Next]_vars => [Mirroring!Next]_seen
  BY StepMirrors
<1>5. Init => NamesInv
  BY DEF Init, NetBirdInit, ReconcilerInit, NamesInv, Remembers, Listed, NamesUnique, IdlePass
<1>6. TypeOK /\ Serialised /\ NamesInv /\ [Next]_vars => NamesInv'
  BY NamesStep
<1> QED
  BY <1>1, <1>2, <1>3, <1>4, <1>5, <1>6, TypeCorrect, PassesSerialised, PTL
     DEF Spec, ImplementsMirror, Mirroring!Spec, seen

=============================================================================
