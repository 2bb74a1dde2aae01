-------------------------- MODULE ReconcilerProofs --------------------------
(***************************************************************************)
(* Theorems about module Reconciler, for every set of deployments, names,  *)
(* configurations and goroutines.                                          *)
(***************************************************************************)
EXTENDS Reconciler, OperatorProofs, WellFoundedInduction, TLAPS

-----------------------------------------------------------------------------
(* The first of the services that one name is asked for                    *)

\* A non-empty set of naturals has a least element.
LEMMA NatMin ==
    ASSUME NEW S \in SUBSET Nat, S # {}
    PROVE  \E m \in S : \A n \in S : m <= n
<1> DEFINE R == {ss \in Nat \X Nat : ss[1] < ss[2]}
<1>1. IsWellFoundedOn(R, Nat)
  BY NatLessThanWellFounded DEF OpToRel
<1>2. ASSUME NEW m \in Nat, NEW n \in Nat, n < m
      PROVE  <<n, m>> \in R
  BY <1>2
<1> HIDE DEF R
<1>3. PICK m \in S : \A n \in S : <<n, m>> \notin R
  BY <1>1, WFMin
<1>4. ASSUME NEW n \in S
      PROVE  m <= n
  <2>1. m \in Nat /\ n \in Nat
    OBVIOUS
  <2>2. ~(n < m)
    BY <1>2, <1>3, <2>1
  <2> QED
    BY <2>1, <2>2
<1> QED
  BY <1>4

\* A non-empty bounded set of naturals has a greatest element.
LEMMA NatMax ==
    ASSUME NEW bound \in Nat, NEW S \in SUBSET (0 .. bound), S # {}
    PROVE  \E m \in S : \A n \in S : n <= m
<1> DEFINE D == {d \in 0 .. bound : bound - d \in S}
<1>1. D \in SUBSET Nat
  OBVIOUS
<1>2. D # {}
  <2>1. PICK n \in S : TRUE
    OBVIOUS
  <2>2. bound - n \in D
    BY <2>1
  <2> QED
    BY <2>2
<1>3. PICK d \in D : \A e \in D : d <= e
  BY <1>1, <1>2, NatMin
<1>4. \A n \in S : n <= bound - d
  <2> SUFFICES ASSUME NEW n \in S PROVE n <= bound - d
    OBVIOUS
  <2>1. bound - n \in D
    OBVIOUS
  <2> QED
    BY <1>3, <2>1
<1> QED
  BY <1>3, <1>4

\* The list of a pass, whatever the daemon hides of a stopping container.
Listing(listed) ==
    /\ listed \in [DOMAIN listed -> ReportType]
    /\ DOMAIN listed \subseteq Nat
    /\ \E bound \in Nat : DOMAIN listed \subseteq 0 .. bound

\* List reports the labelled containers, each as FromSummary does.
LEMMA ListIsListing ==
    ASSUME DockerTypeOK, NEW hidden
    PROVE  Listing(List(hidden))
<1>1. DOMAIN List(hidden) \subseteq 1 .. created /\ created \in Nat
  BY DEF List, Labelled, DockerTypeOK
<1>2. \A c \in Labelled : FromSummary(c, hidden) \in ReportType
  <2> SUFFICES ASSUME NEW c \in Labelled PROVE FromSummary(c, hidden) \in ReportType
    OBVIOUS
  <2>1. containers[c] \in [dep : Deployments, status : {"stopped", "running", "stopping"},
                           ip : IPs \cup {NoText}]
    BY DEF DockerTypeOK, Labelled
  <2>2. containers[c].dep.cname \in ContainerNames
    BY <2>1, DockerAssumption
  <2> QED
    BY <2>1, <2>2 DEF FromSummary, ReportType
<1>3. List(hidden) \in [DOMAIN List(hidden) -> ReportType]
  BY <1>2 DEF List
<1> QED
  BY <1>1, <1>3 DEF Listing

\* What one of the listed services is: its key, its parsed labels, its name.
LEMMA SpecType ==
    ASSUME NEW listed, Listing(listed), NEW ck \in Specs(listed)
    PROVE  /\ ck = <<ck[1], ck[2]>>
           /\ ck[1] \in DOMAIN listed
           /\ listed[ck[1]] \in ReportType
           /\ ck[2] \in Keys \cup {Shorthand}
           /\ SpecOf(listed, ck) \in ParsedType
           /\ NameOf(listed, ck) \in Names
<1>1. PICK c \in DOMAIN listed : ck \in {<<c, k>> : k \in DOMAIN Parsed[listed[c].labels]}
  BY DEF Specs
<1>2. PICK k \in DOMAIN Parsed[listed[c].labels] : ck = <<c, k>>
  BY <1>1
<1>3. listed[c] \in ReportType
  BY <1>1 DEF Listing
<1>4. PICK d \in Deployments : listed[c].labels = d.labels
  BY <1>3 DEF ReportType
<1>5. Parsed[listed[c].labels] = Parse(d.labels)
  BY <1>4 DEF Parsed
<1>6. WellFormedLabels(d.labels)
  BY <1>4, DockerAssumption
<1>7. /\ k \in Keys \cup {Shorthand}
      /\ SpecOf(listed, ck) = ParseOne(d.labels, k)
      /\ SpecOf(listed, ck) \in ParsedType
  BY <1>2, <1>5, <1>6, ParseType DEF SpecOf
<1>8. NameOf(listed, ck) \in Names
  <2>1. SpecOf(listed, ck).name \in Names \cup {0}
    <3>1. Get(d.labels, k, "name", 0) \in Names \cup {0}
      BY <1>7, ReconcilerAssumption
    <3>2. ParseOne(d.labels, k).name = Get(d.labels, k, "name", 0)
      BY DEF ParseOne
    <3> QED
      BY <1>7, <3>1, <3>2
  <2>2. JoinName[<<listed[c].cname, k>>] \in Names
    BY <1>3, <1>7, ReconcilerAssumption DEF ReportType
  <2> QED
    BY <1>2, <2>1, <2>2 DEF NameOf, ServiceName
<1> QED
  BY <1>1, <1>2, <1>3, <1>7, <1>8

\* The choice between services of one name is well defined: the newest
\* container has a first key, so First picks a service that is built.
LEMMA FirstIsBuilt ==
    ASSUME NEW listed, Listing(listed), NEW down,
           NEW n, \E ck \in Built(listed, down) : NameOf(listed, ck) = n
    PROVE  /\ First(listed, down, n) \in Built(listed, down)
           /\ NameOf(listed, First(listed, down, n)) = n
<1> DEFINE S == {ck \in Built(listed, down) : NameOf(listed, ck) = n}
<1>1. \A ck \in S : /\ ck = <<ck[1], ck[2]>>
                    /\ ck[1] \in DOMAIN listed
                    /\ ck[2] \in Nat
  <2>1. \A ck \in Built(listed, down) : ck \in Specs(listed)
    BY DEF Built
  <2>2. Keys \cup {Shorthand} \subseteq Nat
    BY LabelsAssumption DEF Shorthand
  <2> QED
    BY <2>1, <2>2, SpecType
<1>2. PICK bound \in Nat : DOMAIN listed \subseteq 0 .. bound
  BY DEF Listing
<1> DEFINE Cs == {ck[1] : ck \in S}
<1>3. PICK c \in Cs : \A other \in Cs : other <= c
  <2>1. Cs \in SUBSET (0 .. bound) /\ Cs # {}
    BY <1>1, <1>2
  <2> QED
    BY <2>1, NatMax
<1> DEFINE Ks == {k \in Nat : <<c, k>> \in S}
<1>4. PICK k \in Ks : \A other \in Ks : k <= other
  <2>1. PICK ck \in S : c = ck[1]
    BY <1>3
  <2>2. ck[2] \in Ks
    BY <1>1, <2>1
  <2>3. Ks \in SUBSET Nat /\ Ks # {}
    BY <2>2
  <2> QED
    BY <2>3, NatMin
<1>5. \A other \in S : Before(<<c, k>>, other)
  <2> SUFFICES ASSUME NEW other \in S PROVE Before(<<c, k>>, other)
    OBVIOUS
  <2>1. other[1] <= c /\ other[1] \in Nat /\ c \in Nat
    BY <1>1, <1>2, <1>3
  <2>2. other[1] = c => k <= other[2]
    <3>1. other[1] = c => other[2] \in Ks
      BY <1>1
    <3> QED
      BY <1>4, <3>1
  <2> QED
    BY <2>1, <2>2 DEF Before
<1>6. <<c, k>> \in S
  BY <1>4
<1> QED
  BY <1>5, <1>6 DEF First

-----------------------------------------------------------------------------
(* What is built, and what it is laid over                                 *)

\* buildDesired returns a service of one target, under the name it was given.
LEMMA BuildDesiredType ==
    ASSUME cfg \in Configs, NEW c \in ReportType, NEW k, NEW sp \in ParsedType,
           ServiceName(c, k, sp) \in Names
    PROVE  /\ BuildDesired(c, k, sp) \in DesiredType
           /\ BuildDesired(c, k, sp).service.name = ServiceName(c, k, sp)
<1> DEFINE on == SwitchedOn(c, sp)
           target == [id |-> TargetId(sp), host |-> TargetHost(c, sp),
                      port |-> TargetPort(c, sp), enabled |-> on, options |-> sp.options]
           built == [id |-> NoId, name |-> ServiceName(c, k, sp),
                     listenPort |-> sp.listenPort, portAuto |-> FALSE,
                     proxyCluster |-> sp.proxyCluster, targets |-> <<target>>,
                     enabled |-> on, terminated |-> FALSE, auth |-> sp.auth,
                     access |-> sp.access, payload |-> sp.payload, meta |-> NoText]
<1>1. cfg \in ConfigType
  BY ReconcilerAssumption
<1>2. on \in BOOLEAN
  BY DEF SwitchedOn
<1>3. TargetId(sp) \in Text
  <2>1. /\ sp.targetId \in Text
        /\ cfg.targetId \in Text
        /\ Provision.resourceId \in Text
        /\ NoText \in Text
    BY <1>1, ReconcilerAssumption, TextAssumption DEF ParsedType, ConfigType
  <2>2. \A ref \in DOMAIN TargetIds : TargetIds[ref] \in Text
    BY ReconcilerAssumption
  <2>3. CASE TargetRef(sp) # NoText
    BY <2>1, <2>2, <2>3 DEF TargetId
  <2>4. CASE TargetRef(sp) = NoText /\ sp.targetId # NoText
    BY <2>1, <2>4 DEF TargetId
  <2>5. CASE TargetRef(sp) = NoText /\ sp.targetId = NoText
    BY <2>1, <2>5 DEF TargetId
  <2> QED
    BY <2>3, <2>4, <2>5
<1>4. TargetHost(c, sp) \in Text
  <2>1. sp.host \in Text /\ cfg.host \in Text /\ NoText \in Text
    BY <1>1, TextAssumption DEF ParsedType, ConfigType
  <2>2. c.ip \in Text
    BY DockerAssumption, TextAssumption DEF ReportType
  <2> QED
    BY <2>1, <2>2 DEF TargetHost
<1>5. TargetPort(c, sp) \in Int
  <2>1. sp.port \in Int
    BY DEF ParsedType
  <2>2. \A p \in DOMAIN c.bindings : c.bindings[p] \in Int
    <3>1. CASE c.bindings = NoBindings
      BY <3>1 DEF NoBindings
    <3>2. CASE \E d \in Deployments : c.bindings = d.publish
      BY <3>2, DockerAssumption
    <3> QED
      BY <3>1, <3>2 DEF ReportType
  <2> QED
    BY <2>1, <2>2 DEF TargetPort, Published
<1> HIDE DEF on
<1>6. target \in TargetType
  BY <1>2, <1>3, <1>4, <1>5 DEF TargetType, ParsedType
<1> HIDE DEF target
<1>7. <<target>> \in Seq(TargetType) /\ Len(<<target>>) = 1
  BY <1>6
<1>8. built \in ServiceType
  BY <1>2, <1>7, TextAssumption DEF ServiceType, ParsedType, AuthType, NoId
<1>9. /\ BuildDesired(c, k, sp).service = built
      /\ PortFromBinding(c, sp) \in BOOLEAN
      /\ sp.ephemeral \in BOOLEAN
      /\ BuildDesired(c, k, sp) = [service |-> built,
                                   portFromBinding |-> PortFromBinding(c, sp),
                                   ephemeral |-> sp.ephemeral]
  BY DEF BuildDesired, target, on, PortFromBinding, ParsedType
<1>10. /\ built.targets = <<target>>
       /\ built.name = ServiceName(c, k, sp)
  OBVIOUS
<1> HIDE DEF built
<1>11. built \in {s \in ServiceType : Len(s.targets) = 1}
  BY <1>7, <1>8, <1>10
<1> QED
  BY <1>9, <1>10, <1>11 DEF DesiredType

\* The desired state is filed under the names that its services have.
LEMMA DesiredIsNamed ==
    ASSUME cfg \in Configs, NEW listed, Listing(listed), NEW down,
           NEW n \in DOMAIN Desired(listed, down)
    PROVE  /\ n \in Names
           /\ Desired(listed, down)[n] \in DesiredType
           /\ Desired(listed, down)[n].service.name = n
<1> DEFINE ck == First(listed, down, n)
<1>1. ck \in Built(listed, down) /\ NameOf(listed, ck) = n
  BY FirstIsBuilt DEF Desired
<1>2. ck \in Specs(listed)
  BY <1>1 DEF Built
<1>3. Desired(listed, down)[n] = BuildDesired(listed[ck[1]], ck[2], SpecOf(listed, ck))
  BY DEF Desired
<1> HIDE DEF ck
<1>4. /\ listed[ck[1]] \in ReportType
      /\ SpecOf(listed, ck) \in ParsedType
      /\ n \in Names
  BY <1>1, <1>2, SpecType
<1> QED
  BY <1>1, <1>3, <1>4, BuildDesiredType DEF NameOf

\* The overlay is a service with the id and the name of the existing one.
LEMMA OverlayType ==
    ASSUME NEW cur \in ServiceType, NEW ds \in DesiredType, ds.service.name = cur.name
    PROVE  /\ Overlay(cur, ds) \in ServiceType
           /\ Overlay(cur, ds).id = cur.id
           /\ Overlay(cur, ds).name = cur.name
<1>1. /\ InheritPort(cur, ds) \in ServiceType
      /\ InheritPort(cur, ds).name = ds.service.name
  <2>1. /\ ds.service \in ServiceType
        /\ ds.service.targets \in Seq(TargetType)
        /\ cur.targets \in Seq(TargetType)
        /\ Len(ds.service.targets) = 1
    BY DEF DesiredType, ServiceType
  <2>2. CASE cur.targets # << >>
    <3> DEFINE target == [ds.service.targets[1] EXCEPT !.port = cur.targets[1].port]
    <3>1. ds.service.targets[1] \in TargetType /\ cur.targets[1] \in TargetType
      BY <2>1, <2>2
    <3>2. <<target>> \in Seq(TargetType)
      BY <3>1 DEF TargetType
    <3>3. \/ InheritPort(cur, ds) = ds.service
          \/ InheritPort(cur, ds) = [ds.service EXCEPT !.targets = <<target>>]
      BY DEF InheritPort
    <3> HIDE DEF target
    <3> QED
      BY <2>1, <3>2, <3>3 DEF ServiceType
  <2>3. CASE cur.targets = << >>
    BY <2>1, <2>3 DEF InheritPort
  <2> QED
    BY <2>2, <2>3
<1> QED
  BY <1>1, MergeType, DisableInPlaceType DEF Overlay

-----------------------------------------------------------------------------
(* Types: the containers and the service collection                        *)

ContainerType ==
    [dep : Deployments, status : {"stopped", "running", "stopping"}, ip : IPs \cup {NoText}]

\* Containers that are numbered up to the newest.
Numbered(cs, newest) ==
    /\ newest \in Nat
    /\ DOMAIN cs \subseteq 1 .. newest
    /\ cs \in [DOMAIN cs -> ContainerType]

\* Containers are numbered from 1 to the number created.
LEMMA DockerIsNumbered ==
    DockerTypeOK <=> Numbered(containers, created) /\ starts \in Nat
BY DEF DockerTypeOK, Numbered, ContainerType

\* A container added under the next number keeps the type.
LEMMA AddedContainer ==
    ASSUME NEW cs, NEW newest, Numbered(cs, newest), NEW new \in ContainerType
    PROVE  Numbered([c \in DOMAIN cs \cup {newest + 1} |-> IF c = newest + 1 THEN new ELSE cs[c]],
                    newest + 1)
<1>1. newest \in Nat /\ DOMAIN cs \subseteq 1 .. newest
  BY DEF Numbered
<1>2. \A c \in DOMAIN cs : c \in 1 .. newest + 1
  BY <1>1
<1>3. newest + 1 \in Nat /\ newest + 1 \in 1 .. newest + 1
  BY <1>1
<1> QED
  BY <1>2, <1>3 DEF Numbered

\* A container replaced by a typed one keeps the type.
LEMMA ChangedContainer ==
    ASSUME NEW cs, NEW newest, Numbered(cs, newest), NEW c, NEW new \in ContainerType
    PROVE  Numbered([cs EXCEPT ![c] = new], newest)
BY DEF Numbered

\* Every step of the docker daemon keeps its type.
LEMMA DockerTyped ==
    ASSUME DockerTypeOK, DockerNext
    PROVE  DockerTypeOK'
<1>1. Numbered(containers, created) /\ starts \in Nat
  BY DockerIsNumbered
<1>2. \A c \in DOMAIN containers : containers[c] \in ContainerType
  BY <1>1 DEF Numbered
<1> SUFFICES Numbered(containers', created') /\ starts' \in Nat
  BY DEF DockerTypeOK, Numbered, ContainerType
<1>3. ASSUME NEW dep \in Deployments, DockerCreate(dep)
      PROVE  Numbered(containers', created') /\ starts' \in Nat
  <2> DEFINE new == [dep |-> dep, status |-> "stopped", ip |-> NoText]
  <2>1. new \in ContainerType
    BY DEF ContainerType
  <2>2. /\ created' = created + 1
        /\ containers' = [c \in DOMAIN containers \cup {created + 1} |->
                            IF c = created + 1 THEN new ELSE containers[c]]
        /\ starts' = starts
    BY <1>3 DEF DockerCreate
  <2> HIDE DEF new
  <2> QED
    BY <1>1, <2>1, <2>2, AddedContainer
<1>4. ASSUME NEW c \in DOMAIN containers, NEW ip \in IPs \cup {NoText}, DockerStart(c, ip)
      PROVE  Numbered(containers', created') /\ starts' \in Nat
  <2> DEFINE new == [containers[c] EXCEPT !.status = "running", !.ip = ip]
  <2>1. new \in ContainerType
    BY <1>2 DEF ContainerType
  <2>2. containers' = [containers EXCEPT ![c] = new] /\ created' = created /\ starts' = starts + 1
    BY <1>4 DEF DockerStart
  <2> HIDE DEF new
  <2>3. Numbered(containers', created')
    BY <1>1, <2>1, <2>2, ChangedContainer
  <2> QED
    BY <1>1, <2>2, <2>3
<1>5. ASSUME NEW c \in DOMAIN containers, DockerDie(c)
      PROVE  Numbered(containers', created') /\ starts' \in Nat
  <2>1. [containers[c] EXCEPT !.status = "stopping"] \in ContainerType
    BY <1>2 DEF ContainerType
  <2> QED
    BY <1>1, <1>5, <2>1, ChangedContainer DEF DockerDie
<1>6. ASSUME NEW c \in DOMAIN containers, DockerStopped(c)
      PROVE  Numbered(containers', created') /\ starts' \in Nat
  <2> DEFINE new == [containers[c] EXCEPT !.status = "stopped", !.ip = NoText]
  <2>1. new \in ContainerType
    BY <1>2 DEF ContainerType
  <2>2. containers' = [containers EXCEPT ![c] = new] /\ created' = created /\ starts' = starts
    BY <1>6 DEF DockerStopped
  <2> HIDE DEF new
  <2> QED
    BY <1>1, <2>1, <2>2, ChangedContainer
<1>7. ASSUME NEW c \in DOMAIN containers, DockerRemove(c)
      PROVE  Numbered(containers', created') /\ starts' \in Nat
  BY <1>1, <1>7 DEF DockerRemove, Numbered
<1> QED
  BY <1>3, <1>4, <1>5, <1>6, <1>7 DEF DockerNext

\* A collection of services, filed under their ids.
Collection(col) ==
    /\ DOMAIN col \subseteq Ids
    /\ col \in [DOMAIN col -> ServiceType]
    /\ \A id \in DOMAIN col : col[id].id = id

\* The collection after a POST is typed.
LEMMA PostedTyped ==
    ASSUME Collection(services), NEW id \in Ids, NEW s \in ServiceType
    PROVE  /\ Collection(Posted(id, s))
           /\ DOMAIN Posted(id, s) = DOMAIN services \cup {id}
           /\ Posted(id, s)[id].name = s.name
           /\ \A i \in DOMAIN services \ {id} : Posted(id, s)[i] = services[i]
BY StoredType DEF Posted, With, Collection

\* The collection after a PUT is typed.
LEMMA ReplacedTyped ==
    ASSUME Collection(services), NEW id, NEW s \in ServiceType
    PROVE  /\ Collection(Replaced(id, s))
           /\ DOMAIN Replaced(id, s) = DOMAIN services
           /\ id \in DOMAIN services => Replaced(id, s)[id].name = s.name
           /\ \A i \in DOMAIN services \ {id} : Replaced(id, s)[i] = services[i]
<1>1. CASE id \in DOMAIN services
  <2> DEFINE new == [s EXCEPT !.id = id, !.meta = services[id].meta]
  <2>1. new \in ServiceType /\ new.id = id /\ new.name = s.name
    BY <1>1 DEF Collection, ServiceType
  <2>2. Replaced(id, s) = [services EXCEPT ![id] = new]
    BY <1>1 DEF Replaced
  <2> HIDE DEF new
  <2> QED
    BY <1>1, <2>1, <2>2 DEF Collection
<1>2. CASE id \notin DOMAIN services
  BY <1>2 DEF Replaced
<1> QED
  BY <1>1, <1>2

\* The collection after a DELETE is typed.
LEMMA DeletedTyped ==
    ASSUME Collection(services), NEW id
    PROVE  /\ Collection(Deleted(id))
           /\ DOMAIN Deleted(id) = DOMAIN services \ {id}
           /\ \A i \in DOMAIN Deleted(id) : Deleted(id)[i] = services[i]
BY DEF Deleted, Without, Collection

\* What people write is a service; an edit leaves its name as it is, or gives
\* it one of theirs.
LEMMA UserWrites ==
    /\ \A n \in Names : UserService(n) \in ServiceType /\ UserService(n).name = n
    /\ \A s \in ServiceType : \A new \in UserEdits(s) :
          new \in ServiceType /\ (new.name = s.name \/ new.name \in UserNames)
<1>1. ASSUME NEW n \in Names
      PROVE  UserService(n) \in ServiceType /\ UserService(n).name = n
  <2>1. << >> \in Seq(TargetType)
    BY EmptySeq
  <2>2. [state |-> "nil", secret |-> NoText] \in AuthType
    BY TextAssumption DEF AuthType
  <2>3. NoId \in Ids \cup {NoId} /\ 0 \in Int
    OBVIOUS
  <2> QED
    BY <1>1, <2>1, <2>2, <2>3, TextAssumption DEF UserService, ServiceType
<1>2. ASSUME NEW s \in ServiceType, NEW new \in UserEdits(s)
      PROVE  new \in ServiceType /\ (new.name = s.name \/ new.name \in UserNames)
  <2> DEFINE on == [state |-> "on", secret |-> "manual"]
  <2>1. on \in AuthType
    BY TextAssumption DEF AuthType
  <2>2. CASE new = [s EXCEPT !.enabled = ~s.enabled]
    BY <2>2 DEF ServiceType
  <2>3. CASE new = [s EXCEPT !.payload = "manual", !.proxyCluster = "other",
                             !.auth = on, !.terminated = TRUE]
    <3> HIDE DEF on
    <3> QED
      BY <2>1, <2>3, TextAssumption DEF ServiceType
  <2>4. ASSUME NEW n \in UserNames, new = [s EXCEPT !.name = n]
        PROVE  new \in ServiceType /\ new.name \in UserNames
    BY <2>4, NetBirdAssumption DEF ServiceType
  <2> QED
    BY <2>2, <2>3, <2>4 DEF UserEdits
<1> QED
  BY <1>1, <1>2

\* The server's answer to a list, or to a query by name.
LEMMA NetBirdIsCollection ==
    NetBirdTypeOK <=> Collection(services) /\ manual \subseteq DOMAIN services /\ edits \in Nat
BY DEF NetBirdTypeOK, Collection

-----------------------------------------------------------------------------
(* Types: every action of the reconciler                                   *)

\* The locals of a goroutine outside Reconcile are typed.
LEMMA IdlePassOK == PassOK(IdlePass)
BY DEF PassOK, IdlePass, Phases

\* What an action of g leaves of the other goroutines' locals.
LEMMA OnlyOnePass ==
    ASSUME NEW g \in Goroutines, NEW p, PassOK(p), TypeOK, pass' = [pass EXCEPT ![g] = p]
    PROVE  DOMAIN pass' = Goroutines /\ \A h \in Goroutines : PassOK(pass'[h])
BY DEF TypeOK

\* Whether a call fails or not, the fault counter stays a natural.
LEMMA CallTyped ==
    ASSUME TypeOK, CallFails \/ CallSucceeds
    PROVE  faults' \in Nat
BY DEF TypeOK, CallFails, CallSucceeds

\* A pass that has dealt with a name is as well-formed as before.
LEMMA DoneTyped ==
    ASSUME TypeOK, NEW g \in Goroutines, NEW n, NEW ok \in BOOLEAN, Done(g, n, ok)
    PROVE  DOMAIN pass' = Goroutines /\ \A h \in Goroutines : PassOK(pass'[h])
<1> DEFINE p == [pass[g] EXCEPT !.todo = @ \ {n}, !.clean = @ /\ ok]
<1>1. PassOK(pass[g]) /\ DOMAIN pass = Goroutines
  BY DEF TypeOK
<1>2. /\ DOMAIN p = DOMAIN pass[g]
      /\ p.phase = pass[g].phase
      /\ p.listed = pass[g].listed
      /\ p.desired = pass[g].desired
      /\ p.byName = pass[g].byName
      /\ p.todo = pass[g].todo \ {n}
      /\ p.clean = (pass[g].clean /\ ok)
  BY <1>1 DEF PassOK, IdlePass
<1>3. pass' = [pass EXCEPT ![g] = p]
  BY DEF Done
<1> HIDE DEF p
<1>4. PassOK(p)
  BY <1>1, <1>2 DEF PassOK
<1> QED
  BY <1>3, <1>4, OnlyOnePass

\* A request leaves a typed state if what it asks for is a collection.
LEMMA RequestTyped ==
    ASSUME TypeOK, NEW g \in Goroutines, NEW n, NEW result, Collection(result),
           Request(g, n, result)
    PROVE  TypeOK'
<1>1. /\ services' \in {services, result}
      /\ \E ok \in BOOLEAN : Done(g, n, ok)
      /\ manual' = manual \cap DOMAIN services'
      /\ UNCHANGED <<dockerVars, edits, cfg, ctxDone, mu>>
  BY DEF Request
<1>2. faults' \in Nat
  BY CallTyped DEF Request, TypeOK
<1>3. NetBirdTypeOK'
  BY <1>1 DEF TypeOK, NetBirdTypeOK, Collection
<1>4. DockerTypeOK'
  BY <1>1 DEF TypeOK, DockerTypeOK, dockerVars
<1>5. DOMAIN pass' = Goroutines /\ \A h \in Goroutines : PassOK(pass'[h])
  BY <1>1, DoneTyped
<1> QED
  BY <1>1, <1>2, <1>3, <1>4, <1>5 DEF TypeOK

\* What the loop of Reconcile knows of the name it takes.
LEMMA TakesTyped ==
    ASSUME TypeOK, NEW g \in Goroutines, NEW n, Takes(g, n)
    PROVE  /\ pass[g].desired[n] \in DesiredType
           /\ pass[g].desired[n].service \in ServiceType
           /\ pass[g].desired[n].service.name = n
           /\ Exists(g, n) => /\ pass[g].byName[n] \in ServiceType
                              /\ pass[g].byName[n].id \in Ids
                              /\ pass[g].byName[n].name = n
                              /\ Merged(g, n) \in ServiceType
                              /\ Merged(g, n).name = n
<1>1. PassOK(pass[g]) /\ n \in pass[g].todo
  BY DEF TypeOK, Takes
<1>2. /\ pass[g].desired[n] \in DesiredType
      /\ pass[g].desired[n].service.name = n
  BY <1>1 DEF PassOK
<1>3. Exists(g, n) => /\ pass[g].byName[n] \in ServiceType
                      /\ pass[g].byName[n].id \in Ids
                      /\ pass[g].byName[n].name = n
  BY <1>1 DEF PassOK, Exists
<1>4. pass[g].desired[n].service \in ServiceType
  BY <1>2 DEF DesiredType
<1> QED
  BY <1>2, <1>3, <1>4, OverlayType DEF Merged

\* Dealing with one desired name keeps every type.
LEMMA ApplyTyped ==
    ASSUME TypeOK, NEW g \in Goroutines, ApplyStep(g)
    PROVE  TypeOK'
<1>1. Collection(services)
  BY NetBirdIsCollection DEF TypeOK
<1> PICK n \in Names : Create(g, n) \/ DeleteStopped(g, n) \/ Update(g, n) \/ UpToDate(g, n)
  BY DEF ApplyStep
<1>2. CASE Create(g, n)
  <2>1. PICK id \in Ids : Request(g, n, Posted(id, pass[g].desired[n].service))
    BY <1>2 DEF Create
  <2>2. pass[g].desired[n].service \in ServiceType
    BY <1>2, TakesTyped DEF Create
  <2>3. Collection(Posted(id, pass[g].desired[n].service))
    BY <1>1, <2>2, PostedTyped
  <2> QED
    BY <2>1, <2>3, RequestTyped
<1>3. CASE DeleteStopped(g, n)
  BY <1>1, <1>3, DeletedTyped, RequestTyped DEF DeleteStopped
<1>4. CASE Update(g, n)
  <2>1. AfterCompare(Merged(g, n)) \in ServiceType
    BY <1>4, TakesTyped, AfterCompareType DEF Update
  <2> QED
    BY <1>1, <1>4, <2>1, ReplacedTyped, RequestTyped DEF Update
<1>5. CASE UpToDate(g, n)
  <2>1. Done(g, n, TRUE) /\ UNCHANGED <<dockerVars, netbirdVars, cfg, ctxDone, mu, faults>>
    BY <1>5 DEF UpToDate
  <2>2. DOMAIN pass' = Goroutines /\ \A h \in Goroutines : PassOK(pass'[h])
    BY <2>1, DoneTyped
  <2> QED
    BY <2>1, <2>2 DEF TypeOK, DockerTypeOK, NetBirdTypeOK, dockerVars, netbirdVars
<1> QED
  BY <1>2, <1>3, <1>4, <1>5

\* Outside the apply loop a pass changes no container and no service.
LEMMA PassTyped ==
    ASSUME TypeOK, NEW g \in Goroutines, PassStep(g)
    PROVE  TypeOK'
<1>1. PassOK(pass[g]) /\ DOMAIN pass = Goroutines
  BY DEF TypeOK
<1> DEFINE Same == UNCHANGED <<dockerVars, netbirdVars, cfg, ctxDone>>
<1>2. ASSUME Same, mu' \in Goroutines \cup {"nobody"}, faults' \in Nat,
             NEW p, PassOK(p), pass' = [pass EXCEPT ![g] = p]
      PROVE  TypeOK'
  <2>1. DOMAIN pass' = Goroutines /\ \A h \in Goroutines : PassOK(pass'[h])
    BY <1>2, OnlyOnePass
  <2> QED
    BY <1>2, <2>1 DEF TypeOK, DockerTypeOK, NetBirdTypeOK, dockerVars, netbirdVars
<1>3. ASSUME Return(g), Same, faults' \in Nat
      PROVE  TypeOK'
  BY <1>2, <1>3, IdlePassOK DEF Return
<1>4. CASE Lock(g)
  <2> DEFINE p == [pass[g] EXCEPT !.phase = "list"]
  <2>1. /\ DOMAIN p = DOMAIN pass[g]
        /\ p.phase = "list" /\ p.phase \in Phases
        /\ p.listed = pass[g].listed
        /\ p.desired = pass[g].desired
        /\ p.byName = pass[g].byName
        /\ p.todo = pass[g].todo
        /\ p.clean = pass[g].clean
    BY <1>1 DEF PassOK, IdlePass, Phases
  <2>2. pass' = [pass EXCEPT ![g] = p] /\ mu' = g /\ Same /\ faults' \in Nat
    BY <1>4 DEF Lock, TypeOK
  <2> HIDE DEF p
  <2>3. pass[g].todo = {}
    BY <1>1, <1>4 DEF Lock, PassOK
  <2>4. PassOK(p)
    BY <1>1, <2>1, <2>3 DEF PassOK
  <2> QED
    BY <1>2, <2>2, <2>4
<1>5. CASE ListContainers(g)
  <2>1. PICK hidden \in SUBSET Stopping : \E down \in SUBSET Lookups(List(hidden)) :
            /\ IF down = {} THEN UNCHANGED faults ELSE faults' = faults + 1
            /\ pass' = [pass EXCEPT ![g].phase = "services",
                                    ![g].listed = List(hidden),
                                    ![g].desired = Desired(List(hidden), down)]
    BY <1>5 DEF ListContainers
  <2>2. PICK down \in SUBSET Lookups(List(hidden)) :
            /\ IF down = {} THEN UNCHANGED faults ELSE faults' = faults + 1
            /\ pass' = [pass EXCEPT ![g].phase = "services",
                                    ![g].listed = List(hidden),
                                    ![g].desired = Desired(List(hidden), down)]
    BY <2>1
  <2> DEFINE listed == List(hidden)
             desired == Desired(listed, down)
             p == [pass[g] EXCEPT !.phase = "services", !.listed = listed, !.desired = desired]
  <2>3. Listing(listed)
    BY ListIsListing DEF TypeOK
  <2>4. \A n \in DOMAIN desired : /\ n \in Names
                                  /\ desired[n] \in DesiredType
                                  /\ desired[n].service.name = n
    BY <2>3, DesiredIsNamed DEF TypeOK
  <2>5. /\ desired \in [DOMAIN desired -> DesiredType]
        /\ DOMAIN desired \subseteq Names
        /\ \A n \in DOMAIN desired : desired[n].service.name = n
    BY <2>4 DEF Desired
  <2>6. listed \in [DOMAIN listed -> ReportType]
    BY <2>3 DEF Listing
  <2> HIDE DEF desired, listed
  <2>7. /\ DOMAIN p = DOMAIN pass[g]
        /\ p.phase = "services"
        /\ p.listed = listed
        /\ p.desired = desired
        /\ p.byName = pass[g].byName
        /\ p.todo = {}
        /\ p.clean = pass[g].clean
    <3>1. pass[g].todo = {}
      BY <1>1, <1>5 DEF PassOK, ListContainers
    <3> QED
      BY <1>1, <3>1 DEF PassOK, IdlePass
  <2>8. pass' = [pass EXCEPT ![g] = p] /\ Same /\ mu' = mu /\ faults' \in Nat
    <3>1. pass' = [pass EXCEPT ![g] = p]
      BY <2>2 DEF listed, desired
    <3>2. Same /\ mu' = mu /\ faults \in Nat
      BY <1>5 DEF ListContainers, TypeOK
    <3>3. faults' \in Nat
      BY <2>2, <3>2
    <3> QED
      BY <3>1, <3>2, <3>3
  <2> HIDE DEF p
  <2>9. PassOK(p)
    <3>1. /\ p.listed \in [DOMAIN p.listed -> ReportType]
          /\ p.desired \in [DOMAIN p.desired -> DesiredType]
          /\ DOMAIN p.desired \subseteq Names
          /\ \A n \in DOMAIN p.desired : p.desired[n].service.name = n
      BY <2>5, <2>6, <2>7
    <3>2. /\ p.byName \in [DOMAIN p.byName -> ServiceType]
          /\ DOMAIN p.byName \subseteq Names
          /\ \A n \in DOMAIN p.byName : p.byName[n].name = n /\ p.byName[n].id \in Ids
      BY <1>1, <2>7 DEF PassOK
    <3>3. /\ p.phase \in Phases
          /\ p.todo = {}
          /\ p.clean \in BOOLEAN
          /\ DOMAIN p = DOMAIN IdlePass
      BY <1>1, <2>7 DEF PassOK, Phases
    <3> QED
      BY <3>1, <3>2, <3>3 DEF PassOK
  <2> QED
    BY <1>2, <2>8, <2>9 DEF TypeOK
<1>6. CASE ListContainersFails(g)
  BY <1>3, <1>6, CallTyped DEF ListContainersFails
<1>7. CASE ListServices(g)
  <2>1. PICK last \in [{services[id].name : id \in DOMAIN services} -> DOMAIN services] :
            /\ \A n \in DOMAIN last : last[n] \in ServicesNamed(n)
            /\ pass' = [pass EXCEPT ![g].phase = "apply",
                                    ![g].byName = [n \in DOMAIN last |-> View(services[last[n]])],
                                    ![g].todo = DOMAIN pass[g].desired,
                                    ![g].clean = TRUE]
    BY <1>7 DEF ListServices
  <2> DEFINE byName == [n \in DOMAIN last |-> View(services[last[n]])]
             p == [pass[g] EXCEPT !.phase = "apply", !.byName = byName,
                                  !.todo = DOMAIN pass[g].desired, !.clean = TRUE]
  <2>2. \A n \in DOMAIN byName : /\ n \in Names
                                 /\ byName[n] \in ServiceType
                                 /\ byName[n].name = n
                                 /\ byName[n].id \in Ids
    <3> SUFFICES ASSUME NEW n \in DOMAIN last
                 PROVE  /\ n \in Names
                        /\ byName[n] \in ServiceType
                        /\ byName[n].name = n
                        /\ byName[n].id \in Ids
      OBVIOUS
    <3>1. last[n] \in DOMAIN services /\ services[last[n]].name = n
      BY <2>1 DEF ServicesNamed
    <3>2. /\ services[last[n]] \in ServiceType
          /\ services[last[n]].id = last[n]
          /\ last[n] \in Ids
      BY <3>1 DEF TypeOK, NetBirdTypeOK
    <3>3. n \in Names
      BY <3>1, <3>2 DEF ServiceType
    <3> QED
      BY <3>1, <3>2, <3>3, ViewType
  <2>3. /\ byName \in [DOMAIN byName -> ServiceType]
        /\ DOMAIN byName \subseteq Names
        /\ \A n \in DOMAIN byName : byName[n].name = n /\ byName[n].id \in Ids
    BY <2>2
  <2> HIDE DEF byName
  <2>4. /\ DOMAIN p = DOMAIN pass[g]
        /\ p.phase = "apply"
        /\ p.listed = pass[g].listed
        /\ p.desired = pass[g].desired
        /\ p.byName = byName
        /\ p.todo = DOMAIN pass[g].desired
        /\ p.clean = TRUE
    BY <1>1 DEF PassOK, IdlePass
  <2>5. pass' = [pass EXCEPT ![g] = p] /\ Same /\ mu' = mu /\ faults' \in Nat
    BY <1>7, <2>1, CallTyped DEF ListServices, byName
  <2> HIDE DEF p
  <2>6. PassOK(p)
    <3>1. /\ p.listed \in [DOMAIN p.listed -> ReportType]
          /\ p.desired \in [DOMAIN p.desired -> DesiredType]
          /\ DOMAIN p.desired \subseteq Names
          /\ \A n \in DOMAIN p.desired : p.desired[n].service.name = n
      BY <1>1, <2>4 DEF PassOK
    <3>2. /\ p.byName \in [DOMAIN p.byName -> ServiceType]
          /\ DOMAIN p.byName \subseteq Names
          /\ \A n \in DOMAIN p.byName : p.byName[n].name = n /\ p.byName[n].id \in Ids
      BY <2>3, <2>4
    <3>3. /\ p.phase = "apply" /\ p.phase \in Phases
          /\ p.todo \subseteq DOMAIN p.desired
          /\ p.clean \in BOOLEAN
          /\ DOMAIN p = DOMAIN IdlePass
      BY <1>1, <2>4 DEF PassOK, Phases
    <3> QED
      BY <3>1, <3>2, <3>3 DEF PassOK
  <2> QED
    BY <1>2, <2>5, <2>6 DEF TypeOK
<1>8. CASE ListServicesFails(g)
  BY <1>3, <1>8, CallTyped DEF ListServicesFails
<1>9. CASE EndPass(g)
  BY <1>3, <1>9 DEF EndPass, TypeOK
<1>10. CASE ApplyStep(g)
  BY <1>10, ApplyTyped
<1> QED
  BY <1>4, <1>5, <1>6, <1>7, <1>8, <1>9, <1>10 DEF PassStep

\* An edit in the web interface keeps every type.
LEMMA UserStepTyped ==
    ASSUME TypeOK, UserStep
    PROVE  TypeOK'
<1>1. Collection(services) /\ manual \subseteq DOMAIN services /\ edits \in Nat
  BY NetBirdIsCollection DEF TypeOK
<1>2. Collection(services') /\ manual' \subseteq DOMAIN services' /\ edits' \in Nat
  <2>1. ASSUME NEW n \in UserNames, NEW id \in Ids, UserCreate(n, id, Remembered)
        PROVE  Collection(services') /\ manual' \subseteq DOMAIN services' /\ edits' \in Nat
    <3>1. UserService(n) \in ServiceType
      BY UserWrites, NetBirdAssumption
    <3>2. services' = Posted(id, UserService(n)) /\ manual' = manual \cup {id}
      BY <2>1 DEF UserCreate
    <3>3. Collection(services') /\ DOMAIN services' = DOMAIN services \cup {id}
      BY <1>1, <3>1, <3>2, PostedTyped
    <3>4. edits' \in Nat
      BY <1>1, <2>1 DEF UserCreate
    <3> QED
      BY <1>1, <3>2, <3>3, <3>4
  <2>2. ASSUME NEW id \in DOMAIN services, NEW s \in UserEdits(services[id]), UserEdit(id, s)
        PROVE  Collection(services') /\ manual' \subseteq DOMAIN services' /\ edits' \in Nat
    <3>1. s \in ServiceType
      BY <1>1, UserWrites DEF Collection
    <3> QED
      BY <1>1, <2>2, <3>1, ReplacedTyped DEF UserEdit
  <2>3. ASSUME NEW id \in DOMAIN services, UserDelete(id)
        PROVE  Collection(services') /\ manual' \subseteq DOMAIN services' /\ edits' \in Nat
    <3>1. services' = Deleted(id) /\ manual' = manual \ {id}
      BY <2>3 DEF UserDelete
    <3>2. Collection(services') /\ DOMAIN services' = DOMAIN services \ {id}
      BY <1>1, <3>1, DeletedTyped
    <3>3. edits' \in Nat
      BY <1>1, <2>3 DEF UserDelete
    <3> QED
      BY <1>1, <3>1, <3>2, <3>3
  <2> QED
    BY <2>1, <2>2, <2>3 DEF UserStep
<1>3. DOMAIN pass' = Goroutines /\ \A g \in Goroutines : PassOK(pass'[g])
  <2>1. pass' = [g \in Goroutines |-> [pass[g] EXCEPT !.clean = FALSE]]
    BY DEF UserStep
  <2>2. ASSUME NEW g \in Goroutines
        PROVE  PassOK(pass'[g])
    <3>1. PassOK(pass[g])
      BY DEF TypeOK
    <3>2. /\ DOMAIN pass'[g] = DOMAIN pass[g]
          /\ pass'[g].phase = pass[g].phase
          /\ pass'[g].listed = pass[g].listed
          /\ pass'[g].desired = pass[g].desired
          /\ pass'[g].byName = pass[g].byName
          /\ pass'[g].todo = pass[g].todo
          /\ pass'[g].clean = FALSE
      BY <2>1, <3>1 DEF PassOK, IdlePass
    <3> QED
      BY <3>1, <3>2 DEF PassOK
  <2> QED
    BY <2>1, <2>2
<1> QED
  BY <1>2, <1>3 DEF UserStep, TypeOK, DockerTypeOK, NetBirdTypeOK, Collection, dockerVars

\* The initial states are typed.
LEMMA InitTyped == Init => TypeOK
<1> SUFFICES ASSUME Init PROVE TypeOK
  OBVIOUS
<1>1. DockerTypeOK
  BY DEF Init, DockerInit, DockerTypeOK
<1>2. NetBirdTypeOK
  BY DEF Init, NetBirdInit, NetBirdTypeOK
<1>3. DOMAIN pass = Goroutines /\ \A g \in Goroutines : PassOK(pass[g])
  BY IdlePassOK DEF Init, ReconcilerInit
<1> QED
  BY <1>1, <1>2, <1>3 DEF Init, ReconcilerInit, TypeOK

\* Every step keeps the types.
LEMMA NextTyped == TypeOK /\ [Next]_vars => TypeOK'
<1> SUFFICES ASSUME TypeOK, [Next]_vars PROVE TypeOK'
  OBVIOUS
<1>1. ASSUME NEW g \in Goroutines, PassStep(g)
      PROVE  TypeOK'
  BY <1>1, PassTyped
<1>2. CASE Cancel
  BY <1>2 DEF Cancel, TypeOK, DockerTypeOK, NetBirdTypeOK, dockerVars, netbirdVars
<1>3. CASE Restart
  BY <1>3, IdlePassOK DEF Restart, TypeOK, DockerTypeOK, NetBirdTypeOK, dockerVars, netbirdVars
<1>4. CASE DockerStep
  <2>1. DockerTypeOK'
    BY <1>4, DockerTyped DEF DockerStep, TypeOK
  <2> QED
    BY <1>4, <2>1 DEF DockerStep, TypeOK, NetBirdTypeOK, netbirdVars, processVars
<1>5. CASE UserStep
  BY <1>5, UserStepTyped
<1>6. CASE UNCHANGED vars
  BY <1>6
  DEF vars, dockerVars, netbirdVars, processVars, TypeOK, DockerTypeOK, NetBirdTypeOK
<1> QED
  BY <1>1, <1>2, <1>3, <1>4, <1>5, <1>6 DEF Next

\* Every variable keeps its type; in particular what a pass wants is filed
\* under the names that its services have (buildDesired, lines 75-91), and
\* what the server holds under their ids.
THEOREM TypeCorrect == Spec => []TypeOK
<1>1. Init => TypeOK
  BY InitTyped
<1>2. TypeOK /\ [Next]_vars => TypeOK'
  BY NextTyped
<1> QED
  BY <1>1, <1>2, PTL DEF Spec

-----------------------------------------------------------------------------
(* r.mu                                                                    *)

\* Whoever is in a pass holds r.mu.
Serialised == \A g \in Goroutines : pass[g].phase # "idle" => mu = g

\* A step of a pass that goes on keeps the lock and every phase but its own.
LEMMA PhaseSteps ==
    ASSUME TypeOK, Serialised, NEW g \in Goroutines, mu' = mu, pass[g].phase # "idle",
           NEW p, pass' = [pass EXCEPT ![g] = p]
    PROVE  Serialised'
BY DEF TypeOK, Serialised

\* Every step keeps passes serialised.
LEMMA SerialisedStep == TypeOK /\ Serialised /\ [Next]_vars => Serialised'
<1> SUFFICES ASSUME TypeOK, Serialised, [Next]_vars PROVE Serialised'
  OBVIOUS
<1>1. ASSUME NEW g \in Goroutines, Lock(g)
      PROVE  Serialised'
  <2>1. \A h \in Goroutines : pass[h].phase = "idle"
    BY <1>1, ReconcilerAssumption DEF Lock, Serialised
  <2>2. \A h \in Goroutines \ {g} : pass'[h] = pass[h]
    BY <1>1 DEF Lock, TypeOK
  <2> QED
    BY <1>1, <2>1, <2>2 DEF Lock, Serialised
<1>2. ASSUME NEW g \in Goroutines, pass[g].phase # "idle", Return(g)
      PROVE  Serialised'
  <2>1. \A h \in Goroutines \ {g} : pass'[h] = pass[h] /\ pass[h].phase = "idle"
    BY <1>2 DEF Return, TypeOK, Serialised
  <2>2. pass'[g].phase = "idle"
    BY <1>2 DEF Return, TypeOK, IdlePass
  <2> QED
    BY <2>1, <2>2 DEF Serialised
<1>3. ASSUME NEW g \in Goroutines, ListContainers(g)
      PROVE  Serialised'
  <2>1. mu' = mu /\ pass[g].phase # "idle"
    BY <1>3 DEF ListContainers
  <2>2. \E p : pass' = [pass EXCEPT ![g] = p]
    BY <1>3 DEF ListContainers
  <2> QED
    BY <2>1, <2>2, PhaseSteps
<1>4. ASSUME NEW g \in Goroutines, ListServices(g)
      PROVE  Serialised'
  <2>1. mu' = mu /\ pass[g].phase # "idle"
    BY <1>4 DEF ListServices
  <2>2. \E p : pass' = [pass EXCEPT ![g] = p]
    BY <1>4 DEF ListServices
  <2> QED
    BY <2>1, <2>2, PhaseSteps
<1>5. ASSUME NEW g \in Goroutines, ApplyStep(g)
      PROVE  Serialised'
  <2>1. mu' = mu /\ \E n \in Names, ok \in BOOLEAN : Takes(g, n) /\ Done(g, n, ok)
    BY <1>5 DEF ApplyStep, Create, DeleteStopped, Update, UpToDate, Request
  <2>2. pass[g].phase # "idle" /\ \E p : pass' = [pass EXCEPT ![g] = p]
    BY <2>1 DEF Takes, Done
  <2> QED
    BY <2>1, <2>2, PhaseSteps
<1>6. ASSUME NEW g \in Goroutines, PassStep(g)
      PROVE  Serialised'
  BY <1>1, <1>2, <1>3, <1>4, <1>5, <1>6
  DEF PassStep, ListContainersFails, ListServicesFails, EndPass
<1>7. CASE Restart
  BY <1>7 DEF Restart, Serialised, IdlePass
<1>8. CASE UserStep
  <2>1. \A g \in Goroutines : pass'[g].phase = pass[g].phase
    BY <1>8 DEF UserStep, TypeOK, PassOK, IdlePass
  <2> QED
    BY <1>8, <2>1 DEF UserStep, Serialised
<1>9. CASE Cancel \/ DockerStep \/ UNCHANGED vars
  BY <1>9 DEF Cancel, DockerStep, vars, processVars, Serialised
<1> QED
  BY <1>6, <1>7, <1>8, <1>9 DEF Next

\* Passes never overlap: at most one goroutine is between Lock and the
\* deferred Unlock of Reconcile (lines 64-65), wherever calls fail.
THEOREM PassesSerialised == Spec => []Serialised
<1>1. Init => Serialised
  BY DEF Init, ReconcilerInit, Serialised, IdlePass
<1>2. TypeOK /\ Serialised /\ [Next]_vars => Serialised'
  BY SerialisedStep
<1> QED
  BY <1>1, <1>2, TypeCorrect, PTL DEF Spec

-----------------------------------------------------------------------------
(* One service for each name                                               *)

\* A service that a pass is to deal with has the name it was filed under, or
\* one that people have given it since; no service is filed twice.
Remembers ==
    \A g \in Goroutines :
        /\ \A n \in pass[g].todo \cap DOMAIN pass[g].byName :
             pass[g].byName[n].id \in DOMAIN services
                => services[pass[g].byName[n].id].name \in UserNames \cup {n}
        /\ \A m, n \in DOMAIN pass[g].byName :
             pass[g].byName[m].id = pass[g].byName[n].id => m = n

\* A name that a pass is to deal with is on no service but the one that the
\* pass has found under it, unless people use that name.
Listed ==
    \A g \in Goroutines : \A n \in pass[g].todo \ UserNames :
        \A id \in ServicesNamed(n) :
            n \in DOMAIN pass[g].byName /\ id = pass[g].byName[n].id

\* The inductive strengthening of NamesUnique: what a pass has listed is out
\* of date, but never about the names that it is about to write.
NamesInv == Remembers /\ Listed /\ NamesUnique

\* What the steps of passes do to the lists they work from: shorten them, or
\* drop them when they return.
PassesKeep ==
    \A g \in Goroutines :
        \/ pass'[g].byName = pass[g].byName /\ pass'[g].todo \subseteq pass[g].todo
        \/ DOMAIN pass'[g].byName = {} /\ pass'[g].todo = {}

\* Services may go and may change; they keep their names or get one that
\* people use.
Shrinks ==
    /\ DOMAIN services' \subseteq DOMAIN services
    /\ \A id \in DOMAIN services' : services'[id].name \in UserNames \cup {services[id].name}

\* Services that only disappear or get people's names keep the name invariant.
LEMMA ShrinkKeeps ==
    ASSUME NamesInv, PassesKeep, Shrinks
    PROVE  NamesInv'
<1>1. Remembers'
  BY DEF NamesInv, Remembers, PassesKeep, Shrinks
<1>2. Listed'
  BY DEF NamesInv, Listed, ServicesNamed, PassesKeep, Shrinks
<1>3. NamesUnique'
  BY DEF NamesInv, NamesUnique, Shrinks
<1> QED
  BY <1>1, <1>2, <1>3 DEF NamesInv

\* A new service has an id nobody remembers, and its name is one that people
\* use, or is not there and on nobody's list.
LEMMA GrowthKeeps ==
    ASSUME NamesInv, PassesKeep, Collection(services),
           NEW id \in Ids, Fresh(id, Remembered), NEW s \in ServiceType,
           services' = Posted(id, s),
           \/ s.name \in UserNames
           \/ /\ ServicesNamed(s.name) = {}
              /\ \A g \in Goroutines : s.name \notin pass'[g].todo
    PROVE  NamesInv'
<1>1. /\ DOMAIN services' = DOMAIN services \cup {id}
      /\ services'[id].name = s.name
      /\ \A i \in DOMAIN services \ {id} : services'[i] = services[i]
  BY PostedTyped
<1>2. id \notin DOMAIN services /\ id \notin Remembered
  BY DEF Fresh
<1>3. Remembers'
  <2>1. ASSUME NEW g \in Goroutines, NEW n \in pass'[g].todo \cap DOMAIN pass'[g].byName,
               pass'[g].byName[n].id \in DOMAIN services'
        PROVE  services'[pass'[g].byName[n].id].name \in UserNames \cup {n}
    <3>1. pass'[g].byName = pass[g].byName /\ n \in pass[g].todo
      BY <2>1 DEF PassesKeep
    <3>2. pass'[g].byName[n].id # id
      BY <1>2, <2>1, <3>1 DEF Remembered
    <3> QED
      BY <1>1, <2>1, <3>1, <3>2 DEF NamesInv, Remembers
  <2>2. ASSUME NEW g \in Goroutines
        PROVE  \A m, n \in DOMAIN pass'[g].byName :
                   pass'[g].byName[m].id = pass'[g].byName[n].id => m = n
    BY DEF NamesInv, Remembers, PassesKeep
  <2> QED
    BY <2>1, <2>2 DEF Remembers
<1>4. Listed'
  <2> SUFFICES ASSUME NEW g \in Goroutines, NEW n \in pass'[g].todo \ UserNames,
                      NEW i \in DOMAIN services', services'[i].name = n
               PROVE  n \in DOMAIN pass'[g].byName /\ i = pass'[g].byName[n].id
    BY DEF Listed, ServicesNamed
  <2>1. pass'[g].byName = pass[g].byName /\ n \in pass[g].todo
    BY DEF PassesKeep
  <2>2. i # id
    BY <1>1
  <2> QED
    BY <1>1, <2>1, <2>2 DEF NamesInv, Listed, ServicesNamed
<1>5. NamesUnique'
  BY <1>1, <1>2 DEF NamesInv, NamesUnique, ServicesNamed
<1> QED
  BY <1>3, <1>4, <1>5 DEF NamesInv

\* The goroutine that deals with a name is the only one with a list.
LEMMA OneList ==
    ASSUME TypeOK, Serialised, NEW g \in Goroutines, pass[g].phase = "apply"
    PROVE  \A h \in Goroutines \ {g} : pass[h].todo = {}
BY DEF Serialised, TypeOK, PassOK

\* A name that has been dealt with leaves the names to do, nothing else.
LEMMA DoneShortens ==
    ASSUME TypeOK, NEW g \in Goroutines, NEW n, NEW ok \in BOOLEAN, Done(g, n, ok)
    PROVE  /\ PassesKeep
           /\ pass'[g].todo = pass[g].todo \ {n}
           /\ \A h \in Goroutines \ {g} : pass'[h] = pass[h]
BY DEF Done, PassesKeep, TypeOK, PassOK, IdlePass

\* A PUT gives the service that the pass has found its name back (line 163).
LEMMA PutKeeps ==
    ASSUME TypeOK, Serialised, NamesInv, NEW g \in Goroutines, NEW n \in pass[g].todo,
           pass[g].phase = "apply", Exists(g, n), PassesKeep,
           pass'[g].todo = pass[g].todo \ {n},
           \A h \in Goroutines \ {g} : pass'[h] = pass[h],
           NEW s \in ServiceType, s.name = n,
           services' = Replaced(pass[g].byName[n].id, s)
    PROVE  NamesInv'
<1> DEFINE id == pass[g].byName[n].id
<1>1. /\ DOMAIN services' = DOMAIN services
      /\ id \in DOMAIN services => services'[id].name = n
      /\ \A i \in DOMAIN services \ {id} : services'[i] = services[i]
  BY ReplacedTyped, NetBirdIsCollection DEF TypeOK
<1>2. \A h \in Goroutines \ {g} : pass'[h].todo = {}
  BY OneList
<1>3. \A m \in DOMAIN pass[g].byName \ {n} : pass[g].byName[m].id # id
  BY DEF NamesInv, Remembers, Exists
<1>4. \A h \in Goroutines : DOMAIN pass'[h].byName = {} \/ pass'[h].byName = pass[h].byName
  BY DEF PassesKeep
<1>5. pass'[g].todo = {} \/ pass'[g].byName = pass[g].byName
  BY DEF PassesKeep
<1>6. n \notin UserNames => ServicesNamed(n) \subseteq {id}
  BY DEF NamesInv, Listed
<1> HIDE DEF id
<1>7. Remembers'
  <2>1. ASSUME NEW h \in Goroutines
        PROVE  \A k, m \in DOMAIN pass'[h].byName :
                   pass'[h].byName[k].id = pass'[h].byName[m].id => k = m
    BY <1>4 DEF NamesInv, Remembers
  <2>2. ASSUME NEW h \in Goroutines, NEW m \in pass'[h].todo \cap DOMAIN pass'[h].byName,
               pass'[h].byName[m].id \in DOMAIN services'
        PROVE  services'[pass'[h].byName[m].id].name \in UserNames \cup {m}
    <3>1. h = g
      BY <1>2, <2>2
    <3>2. pass'[g].byName = pass[g].byName /\ m \in pass[g].todo /\ m # n
      BY <1>5, <2>2, <3>1
    <3>3. pass[g].byName[m].id # id
      BY <1>3, <2>2, <3>1, <3>2
    <3> QED
      BY <1>1, <2>2, <3>1, <3>2, <3>3 DEF NamesInv, Remembers
  <2> QED
    BY <2>1, <2>2 DEF Remembers
<1>8. Listed'
  <2> SUFFICES ASSUME NEW h \in Goroutines, NEW m \in pass'[h].todo \ UserNames,
                      NEW i \in DOMAIN services', services'[i].name = m
               PROVE  m \in DOMAIN pass'[h].byName /\ i = pass'[h].byName[m].id
    BY DEF Listed, ServicesNamed
  <2>1. h = g /\ pass'[g].byName = pass[g].byName /\ m \in pass[g].todo /\ m # n
    BY <1>2, <1>5
  <2>2. i # id
    BY <1>1, <2>1
  <2> QED
    BY <1>1, <2>1, <2>2 DEF NamesInv, Listed, ServicesNamed
<1>9. NamesUnique'
  <2> SUFFICES ASSUME NEW i \in DOMAIN services', NEW j \in DOMAIN services',
                      services'[i].name = services'[j].name, services'[i].name \notin UserNames
               PROVE  i = j
    BY DEF NamesUnique
  <2>1. CASE i # id /\ j # id
    BY <1>1, <2>1 DEF NamesInv, NamesUnique
  <2>2. CASE i = id \/ j = id
    BY <1>1, <1>6, <2>2 DEF ServicesNamed
  <2> QED
    BY <2>1, <2>2
<1> QED
  BY <1>7, <1>8, <1>9 DEF NamesInv

\* Dealing with one desired name keeps the name invariant.
LEMMA ApplyKeepsNames ==
    ASSUME TypeOK, Serialised, NamesInv, NEW g \in Goroutines, ApplyStep(g)
    PROVE  NamesInv'
<1>1. Collection(services)
  BY NetBirdIsCollection DEF TypeOK
<1> PICK n \in Names : Create(g, n) \/ DeleteStopped(g, n) \/ Update(g, n) \/ UpToDate(g, n)
  BY DEF ApplyStep
<1>2. PICK ok \in BOOLEAN : Takes(g, n) /\ Done(g, n, ok)
  BY DEF Create, DeleteStopped, Update, UpToDate, Request
<1>3. /\ PassesKeep
      /\ pass'[g].todo = pass[g].todo \ {n}
      /\ \A h \in Goroutines \ {g} : pass'[h] = pass[h]
  BY <1>2, DoneShortens
<1>4. services' = services => Shrinks
  BY DEF Shrinks
<1>5. CASE Create(g, n)
  <2> DEFINE s == pass[g].desired[n].service
  <2>1. PICK id \in Ids : Fresh(id, Remembered) /\ Request(g, n, Posted(id, s))
    BY <1>5 DEF Create
  <2>2. s \in ServiceType /\ s.name = n
    BY <1>2, TakesTyped
  <2>3. CASE services' = Posted(id, s)
    <3>1. n \notin UserNames => ServicesNamed(n) = {}
      BY <1>2, <1>5 DEF Create, Exists, Takes, NamesInv, Listed
    <3>2. \A h \in Goroutines : n \notin pass'[h].todo
      BY <1>2, <1>3, OneList DEF Takes
    <3> QED
      BY <1>1, <1>3, <2>1, <2>2, <2>3, <3>1, <3>2, GrowthKeeps
  <2>4. services' = Posted(id, s) \/ services' = services
    BY <2>1 DEF Request
  <2> QED
    BY <1>3, <1>4, <2>3, <2>4, ShrinkKeeps
<1>6. CASE DeleteStopped(g, n)
  <2>1. services' = Deleted(pass[g].byName[n].id) \/ services' = services
    BY <1>6 DEF DeleteStopped, Request
  <2>2. Shrinks
    BY <1>1, <1>4, <2>1, DeletedTyped DEF Shrinks
  <2> QED
    BY <1>3, <2>2, ShrinkKeeps
<1>7. CASE Update(g, n)
  <2> DEFINE id == pass[g].byName[n].id
             s == AfterCompare(Merged(g, n))
  <2>1. s \in ServiceType /\ s.name = n
    BY <1>7, TakesTyped, AfterCompareType DEF Update
  <2>2. Exists(g, n) /\ (services' = Replaced(id, s) \/ services' = services)
    BY <1>7 DEF Update, Request
  <2>3. CASE services' = Replaced(id, s)
    <3> HIDE DEF s
    <3> QED
      BY <1>2, <1>3, <2>1, <2>2, <2>3, PutKeeps DEF Takes
  <2> QED
    BY <1>3, <1>4, <2>2, <2>3, ShrinkKeeps
<1>8. CASE UpToDate(g, n)
  BY <1>3, <1>4, <1>8, ShrinkKeeps DEF UpToDate, netbirdVars
<1> QED
  BY <1>5, <1>6, <1>7, <1>8

\* The list of the services tells a pass the names that are there.
LEMMA ListingKeepsNames ==
    ASSUME TypeOK, NamesInv, NEW g \in Goroutines, ListServices(g)
    PROVE  NamesInv'
<1>1. PICK last \in [{services[id].name : id \in DOMAIN services} -> DOMAIN services] :
          /\ \A n \in DOMAIN last : last[n] \in ServicesNamed(n)
          /\ pass' = [pass EXCEPT ![g].phase = "apply",
                                  ![g].byName = [n \in DOMAIN last |-> View(services[last[n]])],
                                  ![g].todo = DOMAIN pass[g].desired,
                                  ![g].clean = TRUE]
  BY DEF ListServices
<1>2. services' = services
  BY DEF ListServices, netbirdVars
<1>3. /\ \A h \in Goroutines \ {g} : pass'[h] = pass[h]
      /\ pass'[g].byName = [n \in DOMAIN last |-> View(services[last[n]])]
  BY <1>1 DEF TypeOK, PassOK, IdlePass
<1> DEFINE byName == pass'[g].byName
<1>4. DOMAIN byName = {services[id].name : id \in DOMAIN services}
  BY <1>1, <1>3
<1>5. \A n \in DOMAIN byName : byName[n].id \in DOMAIN services /\ services[byName[n].id].name = n
  <2> SUFFICES ASSUME NEW n \in DOMAIN last
               PROVE  byName[n].id \in DOMAIN services /\ services[byName[n].id].name = n
    BY <1>3
  <2>1. last[n] \in DOMAIN services /\ services[last[n]].name = n
    BY <1>1 DEF ServicesNamed
  <2>2. services[last[n]] \in ServiceType /\ services[last[n]].id = last[n]
    BY <2>1 DEF TypeOK, NetBirdTypeOK
  <2>3. byName[n].id = last[n]
    BY <1>3, <2>2, ViewType
  <2> QED
    BY <2>1, <2>3
<1> HIDE DEF byName
<1>6. Remembers'
  BY <1>2, <1>3, <1>5 DEF NamesInv, Remembers, byName
<1>7. Listed'
  <2> SUFFICES ASSUME NEW h \in Goroutines, NEW n \in pass'[h].todo \ UserNames,
                      NEW i \in DOMAIN services', services'[i].name = n
               PROVE  n \in DOMAIN pass'[h].byName /\ i = pass'[h].byName[n].id
    BY DEF Listed, ServicesNamed
  <2>1. CASE h = g
    BY <1>2, <1>4, <1>5, <2>1 DEF byName, NamesInv, NamesUnique
  <2>2. CASE h # g
    BY <1>2, <1>3, <2>2 DEF NamesInv, Listed, ServicesNamed
  <2> QED
    BY <2>1, <2>2
<1>8. NamesUnique'
  BY <1>2 DEF NamesInv, NamesUnique
<1> QED
  BY <1>6, <1>7, <1>8 DEF NamesInv

\* People create services under their own names, and give services such names.
LEMMA PeopleKeepNames ==
    ASSUME TypeOK, NamesInv, UserStep
    PROVE  NamesInv'
<1>1. Collection(services)
  BY NetBirdIsCollection DEF TypeOK
<1>2. PassesKeep
  BY DEF UserStep, PassesKeep, TypeOK, PassOK, IdlePass
<1>3. ASSUME NEW n \in UserNames, NEW id \in Ids, UserCreate(n, id, Remembered)
      PROVE  NamesInv'
  <2>1. UserService(n) \in ServiceType /\ UserService(n).name = n
    BY UserWrites, NetBirdAssumption
  <2>2. services' = Posted(id, UserService(n)) /\ Fresh(id, Remembered)
    BY <1>3 DEF UserCreate
  <2> QED
    BY <1>1, <1>2, <2>1, <2>2, GrowthKeeps
<1>4. ASSUME NEW id \in DOMAIN services, NEW s \in UserEdits(services[id]), UserEdit(id, s)
      PROVE  NamesInv'
  <2>1. s \in ServiceType /\ s.name \in UserNames \cup {services[id].name}
    BY <1>1, UserWrites DEF Collection
  <2>2. services' = Replaced(id, s)
    BY <1>4 DEF UserEdit
  <2>3. Shrinks
    BY <1>1, <2>1, <2>2, ReplacedTyped DEF Shrinks
  <2> QED
    BY <1>2, <2>3, ShrinkKeeps
<1>5. ASSUME NEW id \in DOMAIN services, UserDelete(id)
      PROVE  NamesInv'
  <2>1. Shrinks
    BY <1>1, <1>5, DeletedTyped DEF UserDelete, Shrinks
  <2> QED
    BY <1>2, <2>1, ShrinkKeeps
<1> QED
  BY <1>3, <1>4, <1>5 DEF UserStep

\* Every step keeps the name invariant.
LEMMA NamesStep == TypeOK /\ Serialised /\ NamesInv /\ [Next]_vars => NamesInv'
<1> SUFFICES ASSUME TypeOK, Serialised, NamesInv, [Next]_vars PROVE NamesInv'
  OBVIOUS
<1>1. ASSUME services' = services, PassesKeep
      PROVE  NamesInv'
  BY <1>1, ShrinkKeeps DEF Shrinks
<1>2. ASSUME NEW g \in Goroutines, PassStep(g)
      PROVE  NamesInv'
  <2>1. ASSUME services' = services, Return(g)
        PROVE  NamesInv'
    BY <1>1, <2>1 DEF Return, PassesKeep, TypeOK, IdlePass
  <2>2. CASE Lock(g) \/ ListContainers(g)
    <3>1. services' = services
      BY <2>2 DEF Lock, ListContainers, netbirdVars
    <3>2. \A h \in Goroutines : /\ pass'[h].byName = pass[h].byName
                                /\ pass'[h].todo = pass[h].todo
      <4>1. PassOK(pass[g]) /\ DOMAIN pass = Goroutines
        BY DEF TypeOK
      <4>2. CASE Lock(g)
        BY <4>1, <4>2 DEF Lock, PassOK, IdlePass
      <4>3. CASE ListContainers(g)
        <5>1. PICK listed, desired : pass' = [pass EXCEPT ![g].phase = "services",
                                                          ![g].listed = listed,
                                                          ![g].desired = desired]
          BY <4>3 DEF ListContainers
        <5> QED
          BY <4>1, <5>1 DEF PassOK, IdlePass
      <4> QED
        BY <2>2, <4>2, <4>3
    <3> QED
      BY <1>1, <3>1, <3>2 DEF PassesKeep
  <2>3. CASE ListContainersFails(g) \/ ListServicesFails(g) \/ EndPass(g)
    BY <2>1, <2>3 DEF ListContainersFails, ListServicesFails, EndPass, netbirdVars
  <2>4. CASE ListServices(g)
    BY <2>4, ListingKeepsNames
  <2>5. CASE ApplyStep(g)
    BY <2>5, ApplyKeepsNames
  <2> QED
    BY <1>2, <2>2, <2>3, <2>4, <2>5 DEF PassStep
<1>3. CASE Restart
  BY <1>1, <1>3 DEF Restart, netbirdVars, PassesKeep, IdlePass
<1>4. CASE UserStep
  BY <1>4, PeopleKeepNames
<1>5. CASE Cancel \/ DockerStep \/ UNCHANGED vars
  BY <1>1, <1>5 DEF Cancel, DockerStep, vars, netbirdVars, processVars, PassesKeep
<1> QED
  BY <1>2, <1>3, <1>4, <1>5 DEF Next

\* A pass creates from a list that may be old (lines 98-112), people create
\* services meanwhile, calls fail with their request carried out or not, and
\* the process may end between any two of them: there is still one service
\* for each name that is the controller's alone.
THEOREM OneServicePerName == Spec => []NamesUnique
<1>1. Init => NamesInv
  BY DEF Init, NetBirdInit, ReconcilerInit, NamesInv, Remembers, Listed, NamesUnique, IdlePass
<1>2. TypeOK /\ Serialised /\ NamesInv /\ [Next]_vars => NamesInv'
  BY NamesStep
<1>3. NamesInv => NamesUnique
  BY DEF NamesInv
<1> QED
  BY <1>1, <1>2, <1>3, TypeCorrect, PassesSerialised, PTL DEF Spec

-----------------------------------------------------------------------------
(* What a step may do to the services                                      *)

\* Only the apply loop and people write services, and people are counted.
LEMMA WhoWrites ==
    ASSUME TypeOK, [Next]_vars, ControllerWrites
    PROVE  \E g \in Goroutines : ApplyStep(g)
<1>1. ~UserStep
  <2>1. UserStep => edits' = edits + 1
    BY DEF UserStep, UserCreate, UserEdit, UserDelete
  <2>2. edits \in Nat
    BY DEF TypeOK, NetBirdTypeOK
  <2> QED
    BY <2>1, <2>2 DEF ControllerWrites
<1>2. ~(Cancel \/ Restart \/ DockerStep \/ UNCHANGED vars)
  BY DEF ControllerWrites, Cancel, Restart, DockerStep, vars, netbirdVars
<1>3. PICK g \in Goroutines : PassStep(g)
  BY <1>1, <1>2 DEF Next
<1>4. ~(\/ Lock(g) \/ ListContainers(g) \/ ListContainersFails(g)
        \/ ListServices(g) \/ ListServicesFails(g) \/ EndPass(g))
  BY DEF ControllerWrites, Lock, ListContainers, ListContainersFails, ListServices,
         ListServicesFails, EndPass, netbirdVars
<1> QED
  BY <1>3, <1>4 DEF PassStep

\* With DRY_RUN set no pass writes a service, on any of its three paths: the
\* check in apply (line 416) serves two, the delete has its own (line 123).
THEOREM DryRunIsDry == Spec => DryRunWritesNothing
<1>1. TypeOK /\ [Next]_vars => [cfg.dryRun => ~ControllerWrites]_vars
  <2> SUFFICES ASSUME TypeOK, [Next]_vars, ControllerWrites, cfg.dryRun PROVE FALSE
    OBVIOUS
  <2>1. PICK g \in Goroutines : ApplyStep(g)
    BY WhoWrites
  <2>2. services' = services
    BY <2>1 DEF ApplyStep, Create, DeleteStopped, Update, UpToDate, Request, netbirdVars
  <2> QED
    BY <2>2 DEF ControllerWrites
<1> QED
  BY <1>1, TypeCorrect, PTL DEF Spec, DryRunWritesNothing

\* What a pass does about a name.
Deals(g, n) == Create(g, n) \/ DeleteStopped(g, n) \/ Update(g, n) \/ UpToDate(g, n)

\* The collection is as it was but for one service: the one that the pass has
\* listed under the given name, or a new one, whose id no pass remembers.  If it
\* is there afterwards, it has that name.
OnlyWrites(g, n) ==
    \/ services' = services
    \/ \E i : /\ i \in DOMAIN services  => Exists(g, n) /\ i = pass[g].byName[n].id
              /\ i \in DOMAIN services' => services'[i].name = n
              /\ DOMAIN services' \ {i} = DOMAIN services \ {i}
              /\ \A id \in DOMAIN services \ {i} : services'[id] = services[id]
              /\ i \in DOMAIN services' \ DOMAIN services => i \notin Remembered

\* A pass that deals with a name concerns at most one service.
LEMMA OneWritten ==
    ASSUME TypeOK, NEW g \in Goroutines, NEW n \in Names, Deals(g, n)
    PROVE  OnlyWrites(g, n)
<1>1. Takes(g, n)
  BY DEF Deals, Create, DeleteStopped, Update, UpToDate
<1>2. Collection(services)
  BY NetBirdIsCollection DEF TypeOK
<1>3. CASE services' = services
  BY <1>3 DEF OnlyWrites
<1>4. CASE Create(g, n) /\ services' # services
  <2>1. PICK id \in Ids : /\ Fresh(id, Remembered)
                          /\ services' = Posted(id, pass[g].desired[n].service)
    BY <1>4 DEF Create, Request
  <2>2. id \notin DOMAIN services /\ id \notin Remembered
    BY <2>1 DEF Fresh
  <2>3. pass[g].desired[n].service \in ServiceType /\ pass[g].desired[n].service.name = n
    BY <1>1, TakesTyped
  <2>4. /\ DOMAIN services' = DOMAIN services \cup {id}
        /\ services'[id].name = n
        /\ \A i \in DOMAIN services \ {id} : services'[i] = services[i]
    BY <1>2, <2>1, <2>3, PostedTyped
  <2> QED
    BY <2>2, <2>4 DEF OnlyWrites
<1>5. CASE DeleteStopped(g, n) /\ services' # services
  <2> DEFINE id == pass[g].byName[n].id
  <2>1. services' = Deleted(id) /\ Exists(g, n)
    BY <1>5 DEF DeleteStopped, Request
  <2>2. /\ DOMAIN services' = DOMAIN services \ {id}
        /\ \A i \in DOMAIN services' : services'[i] = services[i]
    BY <1>2, <2>1, DeletedTyped
  <2> QED
    BY <2>1, <2>2 DEF OnlyWrites
<1>6. CASE Update(g, n) /\ services' # services
  <2> DEFINE id == pass[g].byName[n].id
             s == AfterCompare(Merged(g, n))
  <2>1. services' = Replaced(id, s) /\ Exists(g, n)
    BY <1>6 DEF Update, Request
  <2>2. s \in ServiceType /\ s.name = n
    BY <1>1, <2>1, TakesTyped, AfterCompareType
  <2> HIDE DEF s
  <2>3. /\ DOMAIN services' = DOMAIN services
        /\ id \in DOMAIN services => services'[id].name = n
        /\ \A i \in DOMAIN services \ {id} : services'[i] = services[i]
    BY <1>2, <2>1, <2>2, ReplacedTyped
  <2> QED
    BY <2>1, <2>3 DEF OnlyWrites
<1>7. CASE UpToDate(g, n)
  BY <1>3, <1>7 DEF UpToDate, netbirdVars
<1> QED
  BY <1>3, <1>4, <1>5, <1>6, <1>7 DEF Deals

\* Whatever the controller writes is a service that its pass has listed under
\* a name it wants, or a new one of such a name.
LEMMA WritesAreDesired ==
    ASSUME TypeOK, Serialised, [Next]_vars, ControllerWrites
    PROVE  /\ mu \in Goroutines
           /\ \A id \in Ids : Changed(id) =>
                /\ id \in DOMAIN services => Finds(mu, id)
                /\ id \in DOMAIN services' => services'[id].name \in DOMAIN pass[mu].desired
<1>1. PICK g \in Goroutines, n \in Names : Deals(g, n)
  BY WhoWrites DEF ApplyStep, Deals
<1>2. Takes(g, n)
  BY <1>1 DEF Deals, Create, DeleteStopped, Update, UpToDate
<1>3. mu = g /\ n \in DOMAIN pass[mu].desired
  BY <1>2 DEF Takes, Serialised, TypeOK, PassOK
<1>4. PICK i : /\ i \in DOMAIN services  => Exists(g, n) /\ i = pass[g].byName[n].id
               /\ i \in DOMAIN services' => services'[i].name = n
               /\ DOMAIN services' \ {i} = DOMAIN services \ {i}
               /\ \A id \in DOMAIN services \ {i} : services'[id] = services[id]
  BY <1>1, OneWritten DEF OnlyWrites, ControllerWrites
<1>5. \A id \in Ids \ {i} : ~Changed(id)
  BY <1>4 DEF Changed
<1>6. i \in DOMAIN services => Finds(mu, i)
  BY <1>3, <1>4 DEF Exists, Finds
<1> QED
  BY <1>3, <1>4, <1>5, <1>6

\* Orphans, and services no container asks for by name, are never written
\* (README:200), whoever renames what meanwhile: what is written was listed by
\* this pass under a desired name, and is written under r.mu.
THEOREM OthersUntouched == Spec => OnlyDesiredTouched
<1> DEFINE A == ControllerWrites =>
        /\ mu \in Goroutines
        /\ \A id \in Ids : Changed(id) =>
             /\ id \in DOMAIN services => Finds(mu, id)
             /\ id \in DOMAIN services' => services'[id].name \in DOMAIN pass[mu].desired
<1>1. TypeOK /\ Serialised /\ [Next]_vars => [A]_vars
  BY WritesAreDesired
<1> QED
  BY <1>1, TypeCorrect, PassesSerialised, PTL DEF Spec, OnlyDesiredTouched

=============================================================================
