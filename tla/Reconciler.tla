----------------------------- MODULE Reconciler -----------------------------
(***************************************************************************)
(* The reconciler, internal/controller/reconciler.go: passes that bring    *)
(* the NetBird services in line with the containers.  Two goroutines call  *)
(* Reconcile, and r.mu serialises them; containers and services change     *)
(* under a pass, calls fail, and the process stops anywhere.               *)
(*                                                                         *)
(* A pass is one action per call to the outside: list the containers       *)
(* (parsing and buildDesired only add name lookups), list the services,    *)
(* and for each desired name the request it leads to, if any.              *)
(***************************************************************************)
EXTENDS Docker, NetBird

CONSTANTS
    Goroutines,  \* who calls Reconcile
    Configs,     \* configurations the process may be started with
    Provision,   \* what the bootstrap handed over: [ready, resourceId]
    TargetIds,   \* ids of the peers, clusters and resources that can be looked up
    JoinName,    \* default service name by <<container name, key>>
    MaxFaults    \* bound: calls that fail though the context is not done

ConfigType ==
    [targetMode : {"host", "network"}, targetId : Text, targetName : Text,
     host : Text, domain : Text, dryRun : BOOLEAN]

ASSUME ReconcilerAssumption ==
    /\ "nobody" \notin Goroutines
    /\ Configs \subseteq ConfigType
    /\ Configs # {}
    /\ Provision \in [ready : BOOLEAN, resourceId : Text]
    /\ TargetIds \in [DOMAIN TargetIds -> Text]
    /\ JoinName \in [ContainerNames \X (Keys \cup {Shorthand}) -> Names]
    /\ \A d \in Deployments, k \in Keys \cup {Shorthand} :
         Get(d.labels, k, "name", 0) \in Names \cup {0}
    /\ MaxFaults \in Nat

VARIABLES
    cfg,      \* the configuration of the running process
    ctxDone,  \* its context is cancelled
    mu,       \* who holds r.mu
    pass,     \* the locals of each goroutine's Reconcile
    faults    \* failed calls so far

processVars == <<cfg, ctxDone, mu, pass, faults>>
vars == <<dockerVars, netbirdVars, processVars>>

-----------------------------------------------------------------------------
(* buildDesired                                                            *)

InNetwork(sp) == "network" = IF sp.targetMode = NoText THEN cfg.targetMode ELSE sp.targetMode

\* Seeded fault: an unnamed service is not given its container's name.
ServiceName_NoDefault(c, k, sp) == sp.name

ServiceName(c, k, sp) == IF sp.name = 0 THEN JoinName[<<c.cname, k>>] ELSE sp.name

\* The name of the target that has to be looked up, if one has.
TargetRef(sp) ==
    CASE sp.targetId # NoText                           -> NoText
      [] sp.targetId = NoText /\ sp.targetName # NoText -> sp.targetName
      [] OTHER -> IF InNetwork(sp) \/ cfg.targetId # NoText THEN NoText ELSE cfg.targetName

TargetId(sp) ==
    IF TargetRef(sp) # NoText
    THEN IF TargetRef(sp) \in DOMAIN TargetIds THEN TargetIds[TargetRef(sp)] ELSE NoText
    ELSE CASE sp.targetId # NoText -> sp.targetId
           [] sp.targetId = NoText /\ InNetwork(sp) ->
                IF Provision.ready THEN Provision.resourceId ELSE NoText
           [] OTHER -> cfg.targetId

TargetHost(c, sp) ==
    CASE sp.host # NoText                  -> sp.host
      [] sp.host = NoText /\ InNetwork(sp) -> IF Provision.ready THEN c.ip ELSE NoText
      [] OTHER                             -> cfg.host

\* A container port stands for the host port it is published at.
Published(c, sp) == ~InNetwork(sp) /\ sp.port \in DOMAIN c.bindings

TargetPort(c, sp) == IF Published(c, sp) THEN c.bindings[sp.port] ELSE sp.port

PortFromBinding(c, sp) ==
    \/ InNetwork(sp)
    \/ Published(c, sp)
    \/ \E p \in DOMAIN c.bindings : c.bindings[p] = sp.port

\* Whether the resolver has to be asked.
NeedsLookup(sp) == TargetRef(sp) # NoText \/ sp.groups

\* buildDesired returns an error, and the service is left out of the pass.
BuildFails(c, sp) ==
    \/ sp.domain = NoText /\ cfg.domain = NoText
    \/ TargetId(sp) = NoText
    \/ TargetHost(c, sp) = NoText
    \/ sp.port = 0

\* Seeded fault: whether the container runs is not looked at.
SwitchedOn_Always(c, sp) == ~sp.forcedOff

SwitchedOn(c, sp) == c.running /\ ~sp.forcedOff

BuildDesired(c, k, sp) ==
    LET on == SwitchedOn(c, sp)
        target == [id |-> TargetId(sp), host |-> TargetHost(c, sp),
                   port |-> TargetPort(c, sp), enabled |-> on, options |-> sp.options]
    IN  [service |-> [id |-> NoId, name |-> ServiceName(c, k, sp),
                      listenPort |-> sp.listenPort, portAuto |-> FALSE,
                      proxyCluster |-> sp.proxyCluster, targets |-> <<target>>,
                      enabled |-> on, terminated |-> FALSE, auth |-> sp.auth,
                      access |-> sp.access, payload |-> sp.payload, meta |-> NoText],
         portFromBinding |-> PortFromBinding(c, sp),
         ephemeral |-> sp.ephemeral]

-----------------------------------------------------------------------------
(* The desired state: one service for each name                            *)

\* What the labels of each deployment say; parsing is a pure function.
Parsed == [raw \in {d.labels : d \in Deployments} |-> Parse(raw)]

\* The <<container, key>> pairs of the services that the labels ask for.
Specs(listed) ==
    UNION {{<<c, k>> : k \in DOMAIN Parsed[listed[c].labels]} : c \in DOMAIN listed}

SpecOf(listed, ck) == Parsed[listed[ck[1]].labels][ck[2]]

Lookups(listed) == {ck \in Specs(listed) : NeedsLookup(SpecOf(listed, ck))}

\* Those that are built, without the ones whose lookup failed (down).
Built(listed, down) ==
    {ck \in Specs(listed) \ down : ~BuildFails(listed[ck[1]], SpecOf(listed, ck))}

NameOf(listed, ck) == ServiceName(listed[ck[1]], ck[2], SpecOf(listed, ck))

\* The containers come newest first, the keys of a container in order.
Before(ck, other) ==
    \/ ck[1] > other[1]
    \/ ck[1] = other[1] /\ ck[2] <= other[2]

\* Of several services with one name the first is kept.
First(listed, down, n) ==
    CHOOSE ck \in Built(listed, down) :
        /\ NameOf(listed, ck) = n
        /\ \A other \in Built(listed, down) : NameOf(listed, other) = n => Before(ck, other)

Desired(listed, down) ==
    [n \in {NameOf(listed, ck) : ck \in Built(listed, down)} |->
        LET ck == First(listed, down, n)
        IN  BuildDesired(listed[ck[1]], ck[2], SpecOf(listed, ck))]

-----------------------------------------------------------------------------
(* What an existing service is to become                                   *)

\* Seeded fault: the labelled port is written without a binding, too.
InheritPort_Never(cur, ds) == ds.service

\* Without a live binding the port that the service has is kept.
InheritPort(cur, ds) ==
    IF /\ ~ds.portFromBinding
       /\ cur.targets # << >>
       /\ cur.targets[1].port # 0
    THEN [ds.service EXCEPT !.targets = <<[@[1] EXCEPT !.port = cur.targets[1].port]>>]
    ELSE ds.service

\* Seeded fault: a stopped container's service is derived anew.
Overlay_AlwaysMerges(cur, ds) == Merge(cur, InheritPort(cur, ds))

Overlay(cur, ds) ==
    IF ds.service.enabled THEN Merge(cur, InheritPort(cur, ds)) ELSE DisableInPlace(cur)

DeletesWhenOff(ds) == ~ds.service.enabled /\ ds.ephemeral

-----------------------------------------------------------------------------
Phases == {"idle", "list", "services", "apply"}

IdlePass ==
    [phase |-> "idle", listed |-> [c \in {} |-> {}], desired |-> [n \in {} |-> {}],
     byName |-> [n \in {} |-> {}], todo |-> {}, clean |-> FALSE]

\* The ids that a pass remembers.
Remembered ==
    UNION {{pass[g].byName[n].id : n \in DOMAIN pass[g].byName} : g \in Goroutines}

ReconcilerInit ==
    /\ cfg \in Configs
    /\ ctxDone = FALSE
    /\ mu = "nobody"
    /\ pass = [g \in Goroutines |-> IdlePass]
    /\ faults = 0

Init == DockerInit /\ NetBirdInit /\ ReconcilerInit

\* A call fails when the context is done, or for a reason of its own.
CallFails ==
    IF ctxDone THEN UNCHANGED faults
               ELSE faults < MaxFaults /\ faults' = faults + 1

CallSucceeds == ~ctxDone /\ UNCHANGED faults

\* Seeded fault: passes are not serialised.
Lock_Unguarded(g) ==
    /\ pass[g].phase = "idle"
    /\ mu' = g
    /\ pass' = [pass EXCEPT ![g].phase = "list"]
    /\ UNCHANGED <<dockerVars, netbirdVars, cfg, ctxDone, faults>>

\* Reconcile starts when its caller gets r.mu; until then it waits.
Lock(g) ==
    /\ pass[g].phase = "idle"
    /\ mu = "nobody"
    /\ mu' = g
    /\ pass' = [pass EXCEPT ![g].phase = "list"]
    /\ UNCHANGED <<dockerVars, netbirdVars, cfg, ctxDone, faults>>

\* Reconcile returns: the deferred Unlock runs and the locals are gone.
Return(g) ==
    /\ mu' = "nobody"
    /\ pass' = [pass EXCEPT ![g] = IdlePass]

ListContainers(g) ==
    /\ pass[g].phase = "list"
    /\ ~ctxDone
    /\ \E listed \in {List(hidden) : hidden \in SUBSET Stopping} :
         \E down \in SUBSET Lookups(listed) :
            /\ IF down = {} THEN UNCHANGED faults
                            ELSE faults < MaxFaults /\ faults' = faults + 1
            /\ pass' = [pass EXCEPT ![g].phase = "services",
                                    ![g].listed = listed,
                                    ![g].desired = Desired(listed, down)]
    /\ UNCHANGED <<dockerVars, netbirdVars, cfg, ctxDone, mu>>

\* Seeded fault: an early return without the deferred Unlock.
ListContainersFails_KeepsLock(g) ==
    /\ pass[g].phase = "list"
    /\ CallFails
    /\ pass' = [pass EXCEPT ![g] = IdlePass]
    /\ UNCHANGED <<dockerVars, netbirdVars, cfg, ctxDone, mu>>

ListContainersFails(g) ==
    /\ pass[g].phase = "list"
    /\ CallFails
    /\ Return(g)
    /\ UNCHANGED <<dockerVars, netbirdVars, cfg, ctxDone>>

\* byName keeps one service of each name, whichever the server lists last.
ListServices(g) ==
    /\ pass[g].phase = "services"
    /\ CallSucceeds
    /\ \E last \in [{services[id].name : id \in DOMAIN services} -> DOMAIN services] :
         /\ \A n \in DOMAIN last : last[n] \in ServicesNamed(n)
         /\ pass' = [pass EXCEPT ![g].phase = "apply",
                                 ![g].byName = [n \in DOMAIN last |-> View(services[last[n]])],
                                 ![g].todo = DOMAIN pass[g].desired,
                                 ![g].clean = TRUE]
    /\ UNCHANGED <<dockerVars, netbirdVars, cfg, ctxDone, mu>>

ListServicesFails(g) ==
    /\ pass[g].phase = "services"
    /\ CallFails
    /\ Return(g)
    /\ UNCHANGED <<dockerVars, netbirdVars, cfg, ctxDone>>

-----------------------------------------------------------------------------
(* One desired name, in string order.  An error is logged and the next     *)
(* name is taken; clean is a history variable: the pass has been neither   *)
(* cut short nor overtaken by an edit, and it may write.                   *)

Takes(g, n) ==
    /\ pass[g].phase = "apply"
    /\ n \in pass[g].todo
    /\ \A other \in pass[g].todo : n <= other

Exists(g, n) == n \in DOMAIN pass[g].byName

Done(g, n, ok) ==
    pass' = [pass EXCEPT ![g].todo = @ \ {n}, ![g].clean = @ /\ ok]

\* A request that would make the services result: it is carried out, or it
\* fails (its answer may be what is lost), or it is only logged (DRY_RUN).
Request(g, n, result) ==
    /\ \/ /\ ~cfg.dryRun
          /\ CallSucceeds
          /\ services' = result
          /\ Done(g, n, TRUE)
       \/ /\ ~cfg.dryRun
          /\ CallFails
          /\ services' \in IF ctxDone THEN {services} ELSE {services, result}
          /\ Done(g, n, FALSE)
       \/ /\ cfg.dryRun
          /\ UNCHANGED <<services, faults>>
          /\ Done(g, n, FALSE)
    /\ manual' = manual \cap DOMAIN services'
    /\ UNCHANGED <<dockerVars, edits, cfg, ctxDone, mu>>

\* apply with a nil cur: POST.
Create(g, n) ==
    /\ Takes(g, n)
    /\ ~Exists(g, n)
    /\ \E id \in Ids : /\ Fresh(id, Remembered)
                       /\ Request(g, n, Posted(id, pass[g].desired[n].service))

\* Seeded fault: the delete has no DRY_RUN check of its own.
DeleteStopped_InDryRun(g, n) ==
    /\ Takes(g, n)
    /\ Exists(g, n)
    /\ DeletesWhenOff(pass[g].desired[n])
    /\ CallSucceeds
    /\ services' = Deleted(pass[g].byName[n].id)
    /\ Done(g, n, TRUE)
    /\ manual' = manual \cap DOMAIN services'
    /\ UNCHANGED <<dockerVars, edits, cfg, ctxDone, mu>>

\* The container is off and asked for its service to go with it.
DeleteStopped(g, n) ==
    /\ Takes(g, n)
    /\ Exists(g, n)
    /\ DeletesWhenOff(pass[g].desired[n])
    /\ Request(g, n, Deleted(pass[g].byName[n].id))

\* What the service of a name is to become, and whether it is that already.
Merged(g, n) == Overlay(pass[g].byName[n], pass[g].desired[n])

InSync(g, n) == ServicesEqual(pass[g].byName[n], Merged(g, n))

\* apply with cur: PUT of what the comparison has left of the service.
Update(g, n) ==
    /\ Takes(g, n)
    /\ Exists(g, n)
    /\ ~DeletesWhenOff(pass[g].desired[n])
    /\ ~InSync(g, n)
    /\ Request(g, n, Replaced(pass[g].byName[n].id, AfterCompare(Merged(g, n))))

UpToDate(g, n) ==
    /\ Takes(g, n)
    /\ Exists(g, n)
    /\ ~DeletesWhenOff(pass[g].desired[n])
    /\ InSync(g, n)
    /\ Done(g, n, TRUE)
    /\ UNCHANGED <<dockerVars, netbirdVars, cfg, ctxDone, mu, faults>>

\* Seeded fault: services that no container asks for are collected.
EndPass_RemovesOrphans(g) ==
    /\ pass[g].phase = "apply"
    /\ pass[g].todo = {}
    /\ services' = [id \in {i \in DOMAIN services : services[i].name \in DOMAIN pass[g].desired}
                      |-> services[id]]
    /\ manual' = manual \cap DOMAIN services'
    /\ Return(g)
    /\ UNCHANGED <<dockerVars, edits, cfg, ctxDone, faults>>

EndPass(g) ==
    /\ pass[g].phase = "apply"
    /\ pass[g].todo = {}
    /\ Return(g)
    /\ UNCHANGED <<dockerVars, netbirdVars, cfg, ctxDone, faults>>

ApplyStep(g) ==
    \E n \in Names : Create(g, n) \/ DeleteStopped(g, n) \/ Update(g, n) \/ UpToDate(g, n)

PassStep(g) ==
    \/ Lock(g)
    \/ ListContainers(g) \/ ListContainersFails(g)
    \/ ListServices(g) \/ ListServicesFails(g)
    \/ ApplyStep(g)
    \/ EndPass(g)

-----------------------------------------------------------------------------
\* SIGINT or SIGTERM; a pass that runs goes on, each of its calls failing.
Cancel ==
    /\ ~ctxDone
    /\ ctxDone' = TRUE
    /\ UNCHANGED <<dockerVars, netbirdVars, cfg, mu, pass, faults>>

\* The process ends, wherever it is, and is started again.
Restart ==
    /\ ctxDone' = FALSE
    /\ mu' = "nobody"
    /\ pass' = [g \in Goroutines |-> IdlePass]
    /\ UNCHANGED <<dockerVars, netbirdVars, cfg, faults>>

\* Containers change under a pass.
DockerStep ==
    /\ DockerNext
    /\ UNCHANGED <<netbirdVars, processVars>>

\* So do services.
UserStep ==
    /\ \/ \E n \in UserNames, id \in Ids : UserCreate(n, id, Remembered)
       \/ \E id \in DOMAIN services :
            \/ \E s \in UserEdits(services[id]) : UserEdit(id, s)
            \/ UserDelete(id)
    /\ pass' = [g \in Goroutines |-> [pass[g] EXCEPT !.clean = FALSE]]
    /\ UNCHANGED <<dockerVars, cfg, ctxDone, mu, faults>>

Next ==
    \/ \E g \in Goroutines : PassStep(g)
    \/ Cancel
    \/ Restart
    \/ DockerStep
    \/ UserStep

Spec == Init /\ [][Next]_vars

-----------------------------------------------------------------------------
(* Properties                                                              *)

ReportType ==
    [cname : ContainerNames, labels : {d.labels : d \in Deployments}, running : BOOLEAN,
     bindings : {d.publish : d \in Deployments} \cup {NoBindings}, ip : IPs \cup {NoText}]

DesiredType ==
    [service : {s \in ServiceType : Len(s.targets) = 1}, portFromBinding : BOOLEAN,
     ephemeral : BOOLEAN]

PassOK(p) ==
    /\ DOMAIN p = DOMAIN IdlePass
    /\ p.phase \in Phases
    /\ p.listed \in [DOMAIN p.listed -> ReportType]
    /\ DOMAIN p.desired \subseteq Names
    /\ p.desired \in [DOMAIN p.desired -> DesiredType]
    /\ \A n \in DOMAIN p.desired : p.desired[n].service.name = n
    /\ DOMAIN p.byName \subseteq Names
    /\ p.byName \in [DOMAIN p.byName -> ServiceType]
    /\ \A n \in DOMAIN p.byName : p.byName[n].name = n /\ p.byName[n].id \in Ids
    /\ p.todo \subseteq DOMAIN p.desired
    /\ p.phase # "apply" => p.todo = {}
    /\ p.clean \in BOOLEAN

\* The type of every variable: in particular the desired state is filed
\* under the names its services have, and services under their ids.
TypeOK ==
    /\ DockerTypeOK
    /\ NetBirdTypeOK
    /\ cfg \in Configs
    /\ ctxDone \in BOOLEAN
    /\ mu \in Goroutines \cup {"nobody"}
    /\ DOMAIN pass = Goroutines
    /\ \A g \in Goroutines : PassOK(pass[g])
    /\ faults \in Nat

\* NetBird never holds two services of one name that is the controller's
\* alone, though a pass decides to create from a list that is old when the
\* POST arrives, two goroutines run passes and the process may be restarted
\* between the two calls: the join by name (lines 98-101) stays a function.
NamesUnique ==
    \A i, j \in DOMAIN services :
        services[i].name = services[j].name /\ services[i].name \notin UserNames => i = j

\* What a pass leaves is what a pass over the same containers wants: when
\* nothing failed and nobody edited since the services were listed, every
\* name it has dealt with is in such a state that comparing again would send
\* no request, whatever the server added, redacted or completed in the
\* service (the README's "Idempotent"); a deleted one is gone.
Settled(g, n) ==
    LET ds == pass[g].desired[n]
    IN  IF Exists(g, n) /\ DeletesWhenOff(ds)
        THEN pass[g].byName[n].id \notin DOMAIN services
        ELSE \E id \in ServicesNamed(n) :
               /\ Exists(g, n) => id = pass[g].byName[n].id
               /\ ServicesEqual(View(services[id]), Overlay(View(services[id]), ds))

CleanPassSettles ==
    \A g \in Goroutines :
        pass[g].phase = "apply" /\ pass[g].clean =>
            \A n \in DOMAIN pass[g].desired \ pass[g].todo : Settled(g, n)

\* A step in which the controller, not a person, changes services.
ControllerWrites == services' # services /\ edits' = edits

\* A pass has found the service under a name that it is to deal with.
Finds(g, id) ==
    \E n \in DOMAIN pass[g].desired \cap DOMAIN pass[g].byName : pass[g].byName[n].id = id

Changed(id) ==
    /\ id \in DOMAIN services \cup DOMAIN services'
    /\ ~ /\ id \in DOMAIN services \cap DOMAIN services'
         /\ services'[id] = services[id]

\* The controller writes only in a pass, under r.mu, and only to a service that
\* this pass has listed under a name that a listed container asks for: orphans
\* and the services of other people stay as they are ("Removed container: left
\* alone", README:200).  A service that was renamed since then is written all the
\* same, by its id, and has its old name again (line 163).
OnlyDesiredTouched ==
    [][ControllerWrites =>
        /\ mu \in Goroutines
        /\ \A id \in Ids : Changed(id) =>
             /\ id \in DOMAIN services => Finds(mu, id)
             /\ id \in DOMAIN services' => services'[id].name \in DOMAIN pass[mu].desired]_vars

\* What a service points at and how it is configured, without its switches,
\* its secret and the options that are as good as none.
Endpoint(s) ==
    [AfterCompare(DisableInPlace(s)) EXCEPT !.terminated = FALSE]

\* Switching a service off because its container has stopped changes nothing
\* else in it, so that the restart restores it (README:198), even when the
\* pass saw the container without its port bindings and its address.
StopKeepsEndpoint ==
    [][ControllerWrites => \A id \in DOMAIN services \cap DOMAIN services' :
          services[id].enabled /\ ~services'[id].enabled /\ pass[mu].clean =>
             Endpoint(View(services'[id])) = Endpoint(View(services[id]))]_vars

\* Every container that may ask for the name publishes the port it labels.
AlwaysPublished(n) ==
    \A d \in Deployments : \A k \in DOMAIN Parsed[d.labels] :
        LET sp == Parsed[d.labels][k]
        IN  ServiceName(d, k, sp) = n => Published([bindings |-> d.publish], sp)

HostPorts == UNION {{d.publish[p] : p \in DOMAIN d.publish} : d \in Deployments}

\* Once a service points at a published host port, the controller never sets
\* it back to a raw container port, however often passes see the containers
\* on their way up or down without bindings (comment at lines 132-143).
PublishedPortKept ==
    [][ControllerWrites => \A id \in DOMAIN services \cap DOMAIN services' :
          /\ services[id].targets # << >>
          /\ services[id].targets[1].port \in HostPorts
          /\ AlwaysPublished(services'[id].name)
          => services'[id].targets[1].port \in HostPorts]_vars

\* With DRY_RUN no step of a pass reaches the services: the create and the
\* update share one check (line 416), the delete has another (line 123).
DryRunWritesNothing ==
    [][cfg.dryRun => ~ControllerWrites]_vars

\* A pass as module Mirror sees it: what the containers ask now, read off them
\* without buildDesired, and what the one that holds r.mu has made of it.
MayShow == Names \ UserNames

Ask(on, ephemeral) == IF on THEN "on" ELSE IF ephemeral THEN "remove" ELSE "off"

AskedNow ==
    {LET sp == SpecOf(List({}), ck)
         on == containers[ck[1]].status # "stopped" /\ ~sp.forcedOff
     IN  <<NameOf(List({}), ck), Ask(on, sp.ephemeral)>> : ck \in Specs(List({}))}

ShownNow ==
    [n \in MayShow |-> CASE ServicesNamed(n) = {} -> "gone"
                        [] \E id \in ServicesNamed(n) : services[id].enabled -> "on"
                        [] OTHER -> "off"]

PlanNow ==
    IF mu \notin Goroutines THEN [n \in {} |-> {}]
    ELSE LET desired == pass[mu].desired
         IN  [n \in DOMAIN desired \cap MayShow |->
                Ask(desired[n].service.enabled, desired[n].ephemeral)]

LeftNow ==
    IF mu \notin Goroutines THEN {}
    ELSE MayShow \cap
         IF pass[mu].phase = "services" THEN DOMAIN pass[mu].desired ELSE pass[mu].todo

Mirroring == INSTANCE Mirror WITH
    Name <- MayShow, asks <- {a \in AskedNow : a[1] \in MayShow}, shown <- ShownNow,
    plan <- PlanNow, left <- LeftNow, hands <- edits

\* Each pass, whatever fails and whoever interferes, acts once on each name,
\* on what the containers asked of that name at one moment of that pass.
ImplementsMirror == Mirroring!Spec

=============================================================================
