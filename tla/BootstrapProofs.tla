-------------------------- MODULE BootstrapProofs --------------------------
(***************************************************************************)
(* Theorems about the bootstrap and the provisioner, for any settings, any *)
(* docker networks and any number of failures, crashes and changes.        *)
(***************************************************************************)
EXTENDS Bootstrap, AgentProofs, TLAPS

-----------------------------------------------------------------------------
(* The inductive invariant                                                 *)

\* The docker network has been picked; our peer has been found; the network
\* on the server is known; so is the resource.
Picked == (CallPhases \ {"pick"}) \cup {"provisioned", "running"}
Polled == Picked \ {"poll"}
Placed == Polled \ {"networks", "newNetwork"}
Filled == Placed \ {"resources", "newResource"}

FoundType ==
    [peerName : Text, docker : DOMAIN Subnet \cup {NoText}, self : Text,
     net : 0 .. objects, res : 0 .. objects, router : 0 .. objects]

\* What has been found is typed, and the docker network is the one to pick.
FoundOK ==
    /\ found \in FoundType
    /\ DOMAIN peers \subseteq Text
    /\ at \in Picked => found.docker \in DOMAIN Subnet /\ Pickable(found.docker)

\* Where something is about to be created, nothing that the provisioner has
\* made is like it; but people may have come first.
NoneAlike ==
    /\ at = "newNetwork"  => made \cap NetworksHere = {}
    /\ at = "newResource" => made \cap ResourcesHere = {}
    /\ at = "newRouter"   => made \cap RoutersHere = {}

\* What has been found is what another look would find, unless people have
\* interfered.
Undisturbed ==
    ~touched =>
        /\ at = "newNetwork"  => NetworksHere = {}
        /\ at \in Placed      => found.net \in NetworksHere
        /\ at = "newResource" => ResourcesHere = {}
        /\ at \in Filled      => found.res \in ResourcesHere
        /\ at = "newRouter"   => RoutersHere = {}
        /\ at = "enable"      => found.router \in RoutersHere
        /\ at \in {"provisioned", "running"} => \E r \in RoutersHere : Serves(r)

\* The names that our agent may register with.
OurNames ==
    (({s.peerHostname : s \in Setups} \cup {s.hostname : s \in Setups}) \ {NoText})
        \cup {"aviary"} \cup {AviaryName[n] : n \in DOMAIN AviaryName}

Strangers(all) ==
    \A p \in DOMAIN all \ {Self} : {all[p].hostname, all[p].name} \cap OurNames = {}

\* Nobody else's peer has a name that our agent may register with.
NoTwin == Strangers(OtherPeers) /\ \A old \in Remains : Strangers(old.peers)

\* Without a twin, the peer that is found is our own.
Ourselves ==
    /\ Strangers(peers)
    /\ at \in {"agent", "pick"} \cup Picked => found.peerName \in OurNames
    /\ at \in Polled => found.self = Self

NetworksOf(d) ==
    {i \in DOMAIN networks : networks[i] = IF setup.networkName = NoText THEN d ELSE setup.networkName}

ResourcesOf(n, d) ==
    {i \in DOMAIN resources : resources[i].net = n /\ resources[i].address = Subnet[d]}

RoutersOf(n, p) == {i \in DOMAIN routers : routers[i].net = n /\ routers[i].peer = p}

\* All that a bootstrap looks for is there.
Stands(d, n) ==
    /\ n \in NetworksOf(d)
    /\ ResourcesOf(n, d) # {}
    /\ RoutersOf(n, Self) # {}
    /\ \A r \in RoutersOf(n, Self) : Serves(r)

\* People make no routing peers.
OwnRouters == DOMAIN routers \subseteq made

\* After a complete bootstrap nothing is missing, and the next one finds it, if
\* the name tells it which network to look in.
StillComplete ==
    complete /\ Unambiguous =>
        /\ at \notin {"newNetwork", "newResource", "newRouter", "enable"}
        /\ \E d \in DOMAIN Subnet : Pickable(d) /\ \E n \in DOMAIN networks : Stands(d, n)
        /\ at \in {"resources", "routers"} => found.net \in NetworksHere

-----------------------------------------------------------------------------
(* The server                                                              *)

\* The objects, as ProvisionerTypeOK has them.
ServerTyped ==
    /\ networks \in [DOMAIN networks -> Text]
    /\ resources \in [DOMAIN resources -> ResourceType(IdSet)]
    /\ routers \in [DOMAIN routers -> RouterType(IdSet)]
    /\ DOMAIN networks \cup DOMAIN resources \cup DOMAIN routers \subseteq IdSet
    /\ DOMAIN networks \cap DOMAIN resources = {}
    /\ DOMAIN routers \cap (DOMAIN networks \cup DOMAIN resources) = {}
    /\ made \subseteq IdSet
    /\ objects \in Nat

\* No object turns into another one, and ids are not used again.
Persists ==
    /\ objects' \in Nat /\ objects <= objects'
    /\ \A i \in DOMAIN networks' \cap IdSet :
          i \in DOMAIN networks /\ networks'[i] = networks[i]
    /\ \A i \in DOMAIN resources' \cap IdSet :
          /\ i \in DOMAIN resources
          /\ resources'[i].net = resources[i].net
          /\ resources'[i].address = resources[i].address
    /\ \A i \in DOMAIN routers' \cap IdSet :
          /\ i \in DOMAIN routers
          /\ routers'[i].net = routers[i].net
          /\ routers'[i].peer = routers[i].peer

\* An id that is given away is a new one.
LEMMA NewIds ==
    ASSUME ServerTyped
    PROVE  /\ objects \in Nat /\ NewId \in Nat /\ objects <= NewId
           /\ NewId \notin IdSet /\ IdSet \subseteq 1 .. NewId
           /\ NewId \in 1 .. NewId /\ 1 .. NewId = IdSet \cup {NewId}
<1>1. objects \in Nat
  BY DEF ServerTyped
<1> QED
  BY <1>1 DEF NewId, IdSet

\* A call that creates gives the new object the next id and leaves the others.
LEMMA Added ==
    ASSUME NEW f, NEW value
    PROVE  /\ DOMAIN Add(f, value) = DOMAIN f \cup {NewId}
           /\ Add(f, value)[NewId] = value
           /\ \A i \in DOMAIN f \ {NewId} : Add(f, value)[i] = f[i]
BY DEF Add

\* The objects stay typed when an id is given away.
LEMMA WiderTypes ==
    ASSUME ServerTyped
    PROVE  /\ ResourceType(IdSet) \subseteq ResourceType(1 .. NewId)
           /\ RouterType(IdSet) \subseteq RouterType(1 .. NewId)
BY NewIds DEF ResourceType, RouterType

\* CreateNetwork keeps the server typed and every other object.
LEMMA NetworkAdded ==
    ASSUME ServerTyped, NEW name \in Text, networks' = Add(networks, name), objects' = NewId,
           UNCHANGED <<resources, routers>>, made' \subseteq made \cup {NewId}
    PROVE  ServerTyped' /\ Persists
<1>1. IdSet' = 1 .. NewId /\ DOMAIN networks' = DOMAIN networks \cup {NewId}
  BY Added DEF IdSet
<1>2. networks' \in [DOMAIN networks' -> Text]
  BY Added DEF ServerTyped, Add
<1>3. resources' \in [DOMAIN resources' -> ResourceType(1 .. NewId)]
  BY WiderTypes DEF ServerTyped
<1>4. routers' \in [DOMAIN routers' -> RouterType(1 .. NewId)]
  BY WiderTypes DEF ServerTyped
<1>5. ServerTyped'
  BY <1>1, <1>2, <1>3, <1>4, NewIds DEF ServerTyped
<1>6. Persists
  <2>1. objects' \in Nat /\ objects <= objects'
    BY NewIds
  <2>2. \A i \in DOMAIN networks \ {NewId} : networks'[i] = networks[i]
    BY DEF Add
  <2>3. NewId \notin IdSet
    BY NewIds
  <2>4. \A i \in DOMAIN networks' \cap IdSet : i \in DOMAIN networks /\ networks'[i] = networks[i]
    BY <1>1, <2>2, <2>3
  <2> QED
    BY <2>1, <2>4 DEF Persists
<1> QED
  BY <1>5, <1>6

\* So does the creation of a resource,
LEMMA ResourceAdded ==
    ASSUME ServerTyped, NEW r \in ResourceType(IdSet), resources' = Add(resources, r),
           objects' = NewId, UNCHANGED <<networks, routers>>, made' \subseteq made \cup {NewId}
    PROVE  ServerTyped' /\ Persists
<1>1. IdSet' = 1 .. NewId /\ DOMAIN resources' = DOMAIN resources \cup {NewId}
  BY Added DEF IdSet
<1>2. resources' \in [DOMAIN resources' -> ResourceType(1 .. NewId)]
  BY Added, WiderTypes DEF ServerTyped, Add
<1>3. routers' \in [DOMAIN routers' -> RouterType(1 .. NewId)]
  BY WiderTypes DEF ServerTyped
<1>4. ServerTyped'
  BY <1>1, <1>2, <1>3, NewIds DEF ServerTyped
<1>5. Persists
  <2>1. objects' \in Nat /\ objects <= objects'
    BY NewIds
  <2>2. \A i \in DOMAIN resources \ {NewId} : resources'[i] = resources[i]
    BY DEF Add
  <2>3. NewId \notin IdSet
    BY NewIds
  <2>4. \A i \in DOMAIN resources' \cap IdSet : i \in DOMAIN resources /\ resources'[i] = resources[i]
    BY <1>1, <2>2, <2>3
  <2> QED
    BY <2>1, <2>4 DEF Persists
<1> QED
  BY <1>4, <1>5

\* and of a routing peer.
LEMMA RouterAdded ==
    ASSUME ServerTyped, NEW r \in RouterType(IdSet), routers' = Add(routers, r),
           objects' = NewId, UNCHANGED <<networks, resources>>, made' \subseteq made \cup {NewId}
    PROVE  ServerTyped' /\ Persists
<1>1. IdSet' = 1 .. NewId /\ DOMAIN routers' = DOMAIN routers \cup {NewId}
  BY Added DEF IdSet
<1>2. routers' \in [DOMAIN routers' -> RouterType(1 .. NewId)]
  BY Added, WiderTypes DEF ServerTyped, Add
<1>3. resources' \in [DOMAIN resources' -> ResourceType(1 .. NewId)]
  BY WiderTypes DEF ServerTyped
<1>4. ServerTyped'
  BY <1>1, <1>2, <1>3, NewIds DEF ServerTyped
<1>5. Persists
  <2>1. objects' \in Nat /\ objects <= objects'
    BY NewIds
  <2>2. \A i \in DOMAIN routers \ {NewId} : routers'[i] = routers[i]
    BY DEF Add
  <2>3. NewId \notin IdSet
    BY NewIds
  <2>4. \A i \in DOMAIN routers' \cap IdSet : i \in DOMAIN routers /\ routers'[i] = routers[i]
    BY <1>1, <2>2, <2>3
  <2> QED
    BY <2>1, <2>4 DEF Persists
<1> QED
  BY <1>4, <1>5

\* The same object, but for the switch.
SameResource(i) ==
    /\ resources'[i] \in ResourceType(IdSet)
    /\ resources'[i].net = resources[i].net
    /\ resources'[i].address = resources[i].address

SameRouter(i) ==
    /\ routers'[i] \in RouterType(IdSet)
    /\ routers'[i].net = routers[i].net
    /\ routers'[i].peer = routers[i].peer

\* Switching a resource or a router leaves what it is.
LEMMA Switched ==
    ASSUME ServerTyped, NEW on
    PROVE  /\ \A i \in DOMAIN resources :
                resources'[i] = [resources[i] EXCEPT !.enabled = on] /\ on \in BOOLEAN
                    => SameResource(i)
           /\ \A i \in DOMAIN routers :
                routers'[i] = [routers[i] EXCEPT !.enabled = on] /\ on \in BOOLEAN
                    => SameRouter(i)
<1>1. ASSUME NEW i \in DOMAIN resources, on \in BOOLEAN,
             resources'[i] = [resources[i] EXCEPT !.enabled = on]
      PROVE  SameResource(i)
  <2>1. resources[i] \in ResourceType(IdSet)
    BY DEF ServerTyped
  <2> QED
    BY <1>1, <2>1 DEF ResourceType, SameResource
<1>2. ASSUME NEW i \in DOMAIN routers, on \in BOOLEAN,
             routers'[i] = [routers[i] EXCEPT !.enabled = on]
      PROVE  SameRouter(i)
  <2>1. routers[i] \in RouterType(IdSet)
    BY DEF ServerTyped
  <2> QED
    BY <1>2, <2>1 DEF RouterType, SameRouter
<1> QED
  BY <1>1, <1>2

\* An object that stays as it is is the same object.
LEMMA Unchanged ==
    ASSUME ServerTyped
    PROVE  /\ \A i \in DOMAIN resources : resources'[i] = resources[i] => SameResource(i)
           /\ \A i \in DOMAIN routers : routers'[i] = routers[i] => SameRouter(i)
BY DEF ServerTyped, SameResource, SameRouter

\* Objects go, or are switched on and off.
LEMMA FewerObjects ==
    ASSUME ServerTyped, UNCHANGED <<objects, made>>,
           DOMAIN networks' \subseteq DOMAIN networks,
           DOMAIN resources' \subseteq DOMAIN resources,
           DOMAIN routers' \subseteq DOMAIN routers,
           networks' = [i \in DOMAIN networks' |-> networks[i]],
           resources' = [i \in DOMAIN resources' |-> resources'[i]],
           routers' = [i \in DOMAIN routers' |-> routers'[i]],
           \A i \in DOMAIN resources' : SameResource(i),
           \A i \in DOMAIN routers' : SameRouter(i)
    PROVE  ServerTyped' /\ Persists
<1>1. IdSet' = IdSet
  BY DEF IdSet
<1>2. networks' \in [DOMAIN networks' -> Text]
  BY DEF ServerTyped
<1>3. ServerTyped'
  BY <1>1, <1>2 DEF ServerTyped, SameResource, SameRouter
<1>4. Persists
  BY <1>2 DEF Persists, ServerTyped, SameResource, SameRouter
<1> QED
  BY <1>3, <1>4

\* What people do.
LEMMA ChangeKeeps ==
    ASSUME ServerTyped, setup \in Setups, Change, made' = made
    PROVE  ServerTyped' /\ Persists
<1>1. setup.networkName \in Text /\ DOMAIN Subnet \subseteq Text
  BY ProvisionerAssumption DEF SetupType
<1>2. CASE \E name \in NetworkNames : networks' = Add(networks, name)
             /\ objects' = NewId /\ UNCHANGED <<resources, routers>>
  <2>1. PICK name \in NetworkNames : networks' = Add(networks, name)
    BY <1>2
  <2>2. name \in Text
    BY <1>1, <2>1 DEF NetworkNames
  <2> QED
    BY <1>2, <2>1, <2>2, NetworkAdded
<1>3. CASE /\ \E net \in DOMAIN networks, docker \in DOMAIN Subnet :
                 resources' = Add(resources, [net |-> net, address |-> Subnet[docker],
                                              enabled |-> TRUE])
           /\ objects' = NewId /\ UNCHANGED <<networks, routers>>
  <2>1. PICK net \in DOMAIN networks, docker \in DOMAIN Subnet :
           resources' = Add(resources, [net |-> net, address |-> Subnet[docker], enabled |-> TRUE])
    BY <1>3
  <2>2. [net |-> net, address |-> Subnet[docker], enabled |-> TRUE] \in ResourceType(IdSet)
    BY ProvisionerAssumption DEF ServerTyped, ResourceType
  <2> QED
    BY <1>3, <2>1, <2>2, ResourceAdded
<1>4. CASE /\ \E i \in DOMAIN resources :
                 resources' \in {Toggle(resources, i), Keep(resources, DOMAIN resources \ {i})}
           /\ UNCHANGED <<networks, routers, objects>>
  <2>1. PICK i \in DOMAIN resources :
           resources' \in {Toggle(resources, i), Keep(resources, DOMAIN resources \ {i})}
    BY <1>4
  <2>2. /\ DOMAIN resources' \subseteq DOMAIN resources
        /\ resources' = [j \in DOMAIN resources' |-> resources'[j]]
        /\ \A j \in DOMAIN resources' :
             \/ resources'[j] = resources[j]
             \/ resources'[j] = [resources[j] EXCEPT !.enabled = ~resources[j].enabled]
    BY <2>1 DEF Toggle, Keep, ServerTyped
  <2>3. ASSUME NEW j \in DOMAIN resources'
        PROVE  SameResource(j)
    <3>1. resources[j].enabled \in BOOLEAN /\ j \in DOMAIN resources
      BY <2>2 DEF ServerTyped, ResourceType
    <3>2. (~resources[j].enabled) \in BOOLEAN
      OBVIOUS
    <3> QED
      BY <2>2, <3>1, <3>2, Switched, Unchanged
  <2>4. networks = [j \in DOMAIN networks |-> networks[j]] /\ routers = [j \in DOMAIN routers |-> routers[j]]
    BY DEF ServerTyped
  <2> QED
    BY <1>4, <2>2, <2>3, <2>4, Unchanged, FewerObjects
<1>5. CASE /\ \E i \in DOMAIN routers :
                 routers' \in {Toggle(routers, i), Keep(routers, DOMAIN routers \ {i})}
           /\ UNCHANGED <<networks, resources, objects>>
  <2>1. PICK i \in DOMAIN routers :
           routers' \in {Toggle(routers, i), Keep(routers, DOMAIN routers \ {i})}
    BY <1>5
  <2>2. /\ DOMAIN routers' \subseteq DOMAIN routers
        /\ routers' = [j \in DOMAIN routers' |-> routers'[j]]
        /\ \A j \in DOMAIN routers' :
             \/ routers'[j] = routers[j]
             \/ routers'[j] = [routers[j] EXCEPT !.enabled = ~routers[j].enabled]
    BY <2>1 DEF Toggle, Keep, ServerTyped
  <2>3. ASSUME NEW j \in DOMAIN routers'
        PROVE  SameRouter(j)
    <3>1. routers[j].enabled \in BOOLEAN /\ j \in DOMAIN routers
      BY <2>2 DEF ServerTyped, RouterType
    <3>2. (~routers[j].enabled) \in BOOLEAN
      OBVIOUS
    <3> QED
      BY <2>2, <3>1, <3>2, Switched, Unchanged
  <2>4. networks = [j \in DOMAIN networks |-> networks[j]] /\ resources = [j \in DOMAIN resources |-> resources[j]]
    BY DEF ServerTyped
  <2> QED
    BY <1>5, <2>2, <2>3, <2>4, Unchanged, FewerObjects
<1>6. CASE /\ \E i \in DOMAIN networks :
                 /\ networks' = Keep(networks, DOMAIN networks \ {i})
                 /\ resources' = Keep(resources, {r \in DOMAIN resources : resources[r].net # i})
                 /\ routers' = Keep(routers, {r \in DOMAIN routers : routers[r].net # i})
           /\ UNCHANGED objects
  <2>1. /\ DOMAIN networks' \subseteq DOMAIN networks
        /\ networks' = [j \in DOMAIN networks' |-> networks[j]]
        /\ DOMAIN resources' \subseteq DOMAIN resources
        /\ resources' = [j \in DOMAIN resources' |-> resources'[j]]
        /\ \A j \in DOMAIN resources' : resources'[j] = resources[j]
        /\ DOMAIN routers' \subseteq DOMAIN routers
        /\ routers' = [j \in DOMAIN routers' |-> routers'[j]]
        /\ \A j \in DOMAIN routers' : routers'[j] = routers[j]
    BY <1>6 DEF Keep
  <2> QED
    BY <1>6, <2>1, Unchanged, FewerObjects
<1> QED
  BY <1>2, <1>3, <1>4, <1>5, <1>6 DEF Change

\* Only these steps reach the objects on the server.
LEMMA ServerSteps ==
    ASSUME [BootstrapNext]_bootstrapVars
    PROVE  \/ UNCHANGED scaffold
           \/ CreateNetwork \/ CreateResource \/ CreateRouter \/ EnableRouter
           \/ PeopleChange
<1>1. CASE MainStep
  BY <1>1 DEF MainStep, Begin, DeriveHostname, LaunchAgent, RunProvisioner, GivesUpPolling,
     SetNetworkProvision, Quiet, Provision, CallFails, Gone, PickDockerNetwork, FindSelfPeer,
     PollTimesOut, ListNetworks, ListResources, ListRouters
<1>2. CASE AgentStep \/ Registers \/ PeopleStep \/ Exits \/ Crashes \/ UNCHANGED bootstrapVars
  BY <1>2 DEF AgentStep, Registers, PeopleStep, Exits, Crashes, Relaunch, bootstrapVars, provisionerVars
<1> QED
  BY <1>1, <1>2 DEF BootstrapNext

\* The objects stay typed, and what they are.
LEMMA ServerKept ==
    ASSUME ServerTyped, FoundOK, setup \in Setups, [BootstrapNext]_bootstrapVars
    PROVE  ServerTyped' /\ Persists
<1>1. CASE UNCHANGED scaffold
  <2>1. UNCHANGED <<networks, resources, routers, objects, made>>
    BY <1>1 DEF scaffold
  <2>2. ServerTyped'
    BY <2>1 DEF ServerTyped, IdSet
  <2>3. Persists
    BY <2>1 DEF ServerTyped, Persists
  <2> QED
    BY <2>2, <2>3
<1>2. CASE CreateNetwork
  <2>1. found.docker \in DOMAIN Subnet /\ DOMAIN Subnet \subseteq Text
    BY <1>2, ProvisionerAssumption DEF CreateNetwork, FoundOK, Picked, CallPhases
  <2>2. NetworkName \in Text
    BY <2>1, ProvisionerAssumption DEF NetworkName, SetupType
  <2> QED
    BY <1>2, <2>2, NetworkAdded DEF CreateNetwork, Creates
<1>3. CASE CreateResource
  <2>1. found.docker \in DOMAIN Subnet /\ found.net \in IdSet
    BY <1>3 DEF CreateResource, FoundOK, Picked, CallPhases, ServerTyped
  <2>2. [net |-> found.net, address |-> Subnet[found.docker], enabled |-> TRUE] \in ResourceType(IdSet)
    BY <2>1, ProvisionerAssumption DEF ResourceType
  <2> QED
    BY <1>3, <2>2, ResourceAdded DEF CreateResource, Creates
<1>4. CASE CreateRouter
  <2>1. found.self \in Text /\ found.net \in IdSet
    BY <1>4 DEF CreateRouter, FoundOK, FoundType, ServerTyped
  <2>2. [net |-> found.net, peer |-> found.self, enabled |-> TRUE] \in RouterType(IdSet)
    BY <2>1 DEF RouterType
  <2> QED
    BY <1>4, <2>2, RouterAdded DEF CreateRouter, Creates
<1>5. CASE EnableRouter
  <2>1. /\ UNCHANGED <<networks, resources, objects, made>>
        /\ routers' = [routers EXCEPT ![found.router].enabled = TRUE]
    BY <1>5 DEF EnableRouter
  <2>2. networks = [j \in DOMAIN networks |-> networks[j]]
        /\ resources = [j \in DOMAIN resources |-> resources[j]]
    BY DEF ServerTyped
  <2>3. /\ DOMAIN routers' = DOMAIN routers /\ routers' = [j \in DOMAIN routers' |-> routers'[j]]
        /\ \A j \in DOMAIN routers' : \/ routers'[j] = routers[j]
                                     \/ routers'[j] = [routers[j] EXCEPT !.enabled = TRUE]
    BY <2>1 DEF ServerTyped
  <2>4. \A j \in DOMAIN routers' : SameRouter(j)
    BY <2>3, Switched, Unchanged
  <2> QED
    BY <2>1, <2>2, <2>3, <2>4, Unchanged, FewerObjects
<1>6. CASE PeopleChange
  BY <1>6, ChangeKeeps DEF PeopleChange
<1> QED
  BY <1>1, <1>2, <1>3, <1>4, <1>5, <1>6, ServerSteps

-----------------------------------------------------------------------------
(* The types                                                               *)

\* The rest of ProvisionerTypeOK.
Basics ==
    /\ setup \in Setups
    /\ peers \in [DOMAIN peers -> PeerType]
    /\ errors \in Nat /\ changes \in Nat
    /\ touched \in BOOLEAN /\ complete \in BOOLEAN

Apart ==
    /\ DOMAIN networks \cap {found.res, found.router} = {}
    /\ DOMAIN routers \cap {found.net, found.res} = {}

\* The type of the bootstrap's state in the parts that steps change apart.
LEMMA TypeParts == ProvisionerTypeOK <=> Basics /\ ServerTyped /\ Apart
BY DEF ProvisionerTypeOK, Basics, ServerTyped, Apart

\* Every host name that may be derived is one of ours, and a text.
LEMMA HostNamesOurs ==
    ASSUME setup \in Setups
    PROVE  HostNames \subseteq Text \cap OurNames
<1>1. /\ setup.peerHostname \in Text /\ setup.hostname \in Text
      /\ setup.dockerNetwork \in DOMAIN AviaryName \cup {NoText}
  BY ProvisionerAssumption, BootstrapAssumption DEF SetupType
<1>2. Inspected => Candidates \subseteq DOMAIN AviaryName
  BY ProvisionerAssumption, BootstrapAssumption DEF Inspected, Candidates
<1>3. \A n \in DOMAIN AviaryName : AviaryName[n] \in Text
  BY BootstrapAssumption
<1> DEFINE names == IF setup.dockerNetwork # NoText THEN {setup.dockerNetwork} ELSE Candidates
<1>4. CASE setup.peerHostname # NoText
  BY <1>1, <1>4 DEF HostNames, OurNames
<1>5. CASE setup.peerHostname = NoText /\ ~Inspected
  BY <1>1, <1>5, BootstrapAssumption DEF HostNames, OurNames
<1>6. CASE setup.peerHostname = NoText /\ Inspected
  <2>1. HostNames = IF names = {} THEN {"aviary"} ELSE {AviaryName[n] : n \in names}
    BY <1>6 DEF HostNames
  <2>2. names \subseteq DOMAIN AviaryName
    BY <1>1, <1>2, <1>6
  <2> QED
    BY <1>3, <2>1, <2>2, BootstrapAssumption DEF OurNames
<1> QED
  BY <1>4, <1>5, <1>6

\* What a step may find.
FoundMore ==
    \/ found' = found
    \/ found' = Nothing
    \/ \E name \in HostNames : found' = [found EXCEPT !.peerName = name]
    \/ \E net \in DOMAIN Subnet : found' = [found EXCEPT !.docker = net]
    \/ \E p \in DOMAIN peers : found' = [found EXCEPT !.self = p]
    \/ \E i \in DOMAIN networks' : found' = [found EXCEPT !.net = i]
    \/ \E i \in DOMAIN resources' : found' = [found EXCEPT !.res = i]
    \/ \E i \in DOMAIN routers' : found' = [found EXCEPT !.router = i]

\* Every step moves found in one of the ways listed above, or not at all.
LEMMA FoundSteps ==
    ASSUME [BootstrapNext]_bootstrapVars
    PROVE  FoundMore
<1>1. CASE Begin \/ LaunchAgent \/ SetNetworkProvision \/ GivesUpPolling
  BY <1>1 DEF Begin, LaunchAgent, SetNetworkProvision, GivesUpPolling, PollTimesOut, Goes, Fails,
     FoundMore
<1>2. CASE DeriveHostname
  BY <1>2 DEF DeriveHostname, Goes, Fails, FoundMore
<1>3. CASE CallFails \/ Gone
  BY <1>3 DEF CallFails, Gone, Goes, Fails, FoundMore
<1>4. CASE PickDockerNetwork
  BY <1>4 DEF PickDockerNetwork, Goes, Fails, FoundMore
<1>5. CASE FindSelfPeer
  BY <1>5 DEF FindSelfPeer, SelfPeers, Goes, FoundMore
<1>6. CASE ListNetworks
  BY <1>6 DEF ListNetworks, NetworksHere, Goes, FoundMore, Quiet, scaffold
<1>7. CASE ListResources
  BY <1>7 DEF ListResources, ResourcesHere, Goes, FoundMore, Quiet, scaffold
<1>8. CASE ListRouters
  BY <1>8 DEF ListRouters, RoutersHere, Goes, FoundMore, Quiet, scaffold
<1>9. CASE CreateNetwork
  <2>1. NewId \in DOMAIN networks'
    BY <1>9 DEF CreateNetwork, Add
  <2> QED
    BY <1>9, <2>1 DEF CreateNetwork, Answered, Goes, Fails, FoundMore
<1>10. CASE CreateResource
  <2>1. NewId \in DOMAIN resources'
    BY <1>10 DEF CreateResource, Add
  <2> QED
    BY <1>10, <2>1 DEF CreateResource, Answered, Goes, Fails, FoundMore
<1>11. CASE CreateRouter \/ EnableRouter
  BY <1>11 DEF CreateRouter, EnableRouter, Answered, Goes, Fails, FoundMore
<1>12. CASE AgentStep \/ Registers \/ PeopleStep \/ UNCHANGED bootstrapVars
  BY <1>12 DEF AgentStep, Registers, PeopleStep, PeopleChange, bootstrapVars, provisionerVars,
     local, FoundMore
<1>13. CASE Exits \/ Crashes
  BY <1>13 DEF Exits, Crashes, Relaunch, FoundMore
<1> QED
  BY <1>1, <1>2, <1>3, <1>4, <1>5, <1>6, <1>7, <1>8, <1>9, <1>10, <1>11, <1>12, <1>13
  DEF BootstrapNext, MainStep, RunProvisioner, Provision

\* What has been found stays typed, and stays what it is.
LEMMA FoundTyped ==
    ASSUME ServerTyped, ServerTyped', Persists, Apart, found \in FoundType, setup \in Setups,
           DOMAIN peers \subseteq Text, FoundMore
    PROVE  found' \in FoundType' /\ Apart'
<1>1. objects \in Nat /\ objects' \in Nat /\ objects <= objects'
  BY DEF ServerTyped, Persists
<1>2. FoundType' = [peerName : Text, docker : DOMAIN Subnet \cup {NoText}, self : Text,
                    net : 0 .. objects', res : 0 .. objects', router : 0 .. objects']
  BY DEF FoundType
<1>3. found \in FoundType'
  BY <1>1, <1>2 DEF FoundType
<1>4. /\ DOMAIN networks' \subseteq 1 .. objects' /\ DOMAIN resources' \subseteq 1 .. objects'
      /\ DOMAIN routers' \subseteq 1 .. objects'
      /\ DOMAIN networks' \cap DOMAIN resources' = {}
      /\ DOMAIN routers' \cap (DOMAIN networks' \cup DOMAIN resources') = {}
  BY DEF ServerTyped, IdSet
<1>5. Nothing \in FoundType'
  BY <1>1, <1>2, TextAssumption DEF Nothing, NoId
<1>6. found' \in FoundType'
  <2>1. HostNames \subseteq Text
    BY HostNamesOurs
  <2> QED
    BY <1>1, <1>2, <1>3, <1>4, <1>5, <2>1 DEF FoundMore
<1>7. /\ DOMAIN networks' \cap {found.res, found.router} = {}
      /\ DOMAIN routers' \cap {found.net, found.res} = {}
  <2>1. \A i \in 0 .. objects : /\ i \in DOMAIN networks' => i \in DOMAIN networks
                                /\ i \in DOMAIN routers' => i \in DOMAIN routers
    BY <1>1, <1>4 DEF Persists, IdSet
  <2> QED
    BY <2>1 DEF FoundType, Apart
<1>8. NoId \notin DOMAIN networks' \cup DOMAIN routers'
  BY <1>1, <1>4 DEF NoId
<1>9. Apart'
  BY <1>3, <1>4, <1>7, <1>8, <1>2 DEF FoundMore, Apart, Nothing
<1> QED
  BY <1>6, <1>9

\* The settings are those that the controller was deployed with.
LEMMA SetupStays ==
    ASSUME [BootstrapNext]_bootstrapVars
    PROVE  setup' = setup
<1>1. CASE MainStep
  BY <1>1 DEF MainStep, Begin, DeriveHostname, LaunchAgent, RunProvisioner, GivesUpPolling,
     SetNetworkProvision, Quiet, Provision, CallFails, Gone, PickDockerNetwork, FindSelfPeer,
     PollTimesOut, ListNetworks, ListResources, ListRouters, CreateNetwork, CreateResource,
     CreateRouter, EnableRouter, Creates
<1>2. CASE AgentStep \/ Registers \/ PeopleStep \/ Exits \/ Crashes \/ UNCHANGED bootstrapVars
  BY <1>2 DEF AgentStep, Registers, PeopleStep, PeopleChange, Exits, Crashes, Relaunch,
     bootstrapVars, provisionerVars
<1> QED
  BY <1>1, <1>2 DEF BootstrapNext

\* Past the choice of the docker network, the choice stands.
LEMMA PickedSteps ==
    ASSUME [BootstrapNext]_bootstrapVars, found \in FoundType, at' \in Picked
    PROVE  \/ at \in Picked /\ found'.docker = found.docker
           \/ found'.docker \in DOMAIN Subnet /\ Pickable(found'.docker)
<1> USE DEF Picked, CallPhases
<1>1. CASE Begin \/ DeriveHostname \/ LaunchAgent \/ SetNetworkProvision \/ GivesUpPolling
  BY <1>1 DEF Begin, DeriveHostname, LaunchAgent, SetNetworkProvision, GivesUpPolling, PollTimesOut,
     Goes, Fails
<1>2. CASE CallFails \/ Gone
  BY <1>2 DEF CallFails, Gone, Goes, Fails
<1>3. CASE PickDockerNetwork
  <2>1. PICK net \in DOMAIN Subnet : Pickable(net) /\ found' = [found EXCEPT !.docker = net]
    BY <1>3 DEF PickDockerNetwork, Goes, Fails
  <2>2. found'.docker = net
    BY <2>1 DEF FoundType
  <2> QED
    BY <2>1, <2>2
<1>4. CASE FindSelfPeer
  BY <1>4 DEF FindSelfPeer, Goes, FoundType
<1>5. CASE ListNetworks \/ ListResources \/ ListRouters
  BY <1>5 DEF ListNetworks, ListResources, ListRouters, Goes, FoundType
<1>6. CASE CreateNetwork \/ CreateResource \/ CreateRouter \/ EnableRouter
  BY <1>6 DEF CreateNetwork, CreateResource, CreateRouter, EnableRouter, Answered, Goes, Fails, FoundType
<1>7. CASE AgentStep \/ Registers \/ PeopleStep \/ UNCHANGED bootstrapVars
  BY <1>7 DEF AgentStep, Registers, PeopleStep, PeopleChange, bootstrapVars, provisionerVars, local
<1>8. CASE Exits \/ Crashes
  BY <1>8 DEF Exits, Crashes, Relaunch
<1> QED
  BY <1>1, <1>2, <1>3, <1>4, <1>5, <1>6, <1>7, <1>8
  DEF BootstrapNext, MainStep, RunProvisioner, Provision

\* Peers come and are renamed; nothing else happens to them.
LEMMA PeersKept ==
    ASSUME [BootstrapNext]_bootstrapVars, found \in FoundType,
           DOMAIN peers \subseteq Text, peers \in [DOMAIN peers -> PeerType]
    PROVE  DOMAIN peers' \subseteq Text /\ peers' \in [DOMAIN peers' -> PeerType]
<1>1. CASE Registers
  <2>1. PICK name \in {found.peerName, "renamed"} :
           peers' = [p \in DOMAIN peers \cup {Self} |->
                       IF p = Self THEN [hostname |-> found.peerName, name |-> name] ELSE peers[p]]
    BY <1>1 DEF Registers
  <2>2. [hostname |-> found.peerName, name |-> name] \in PeerType
    BY BootstrapAssumption DEF FoundType, PeerType
  <2> QED
    BY <2>1, <2>2, ProvisionerAssumption
<1>2. CASE MainStep
  BY <1>2 DEF MainStep, Begin, DeriveHostname, LaunchAgent, RunProvisioner, GivesUpPolling,
     SetNetworkProvision, Quiet, Provision, CallFails, Gone, PickDockerNetwork, FindSelfPeer,
     PollTimesOut, ListNetworks, ListResources, ListRouters, CreateNetwork, CreateResource,
     CreateRouter, EnableRouter, Creates
<1>3. CASE AgentStep \/ PeopleStep \/ Exits \/ Crashes \/ UNCHANGED bootstrapVars
  BY <1>3 DEF AgentStep, PeopleStep, PeopleChange, Exits, Crashes, Relaunch, bootstrapVars,
     provisionerVars
<1> QED
  BY <1>1, <1>2, <1>3 DEF BootstrapNext

\* The choice of names, the peers and the counters keep their type.
LEMMA BasicsKept ==
    ASSUME [BootstrapNext]_bootstrapVars, FoundOK, Basics
    PROVE  Basics' /\ DOMAIN peers' \subseteq Text
<1>1. setup' \in Setups
  BY SetupStays DEF Basics
<1>2. DOMAIN peers' \subseteq Text /\ peers' \in [DOMAIN peers' -> PeerType]
  BY PeersKept DEF FoundOK, Basics
<1>3. errors' \in Nat /\ changes' \in Nat
  <2> USE DEF Basics
  <2>1. CASE Begin \/ LaunchAgent \/ GivesUpPolling \/ SetNetworkProvision
    BY <2>1 DEF Begin, LaunchAgent, GivesUpPolling, PollTimesOut, SetNetworkProvision, Quiet
  <2>2. CASE DeriveHostname
    BY <2>2 DEF DeriveHostname
  <2>3. CASE CallFails \/ Gone \/ PickDockerNetwork \/ FindSelfPeer
    BY <2>3 DEF CallFails, Gone, PickDockerNetwork, FindSelfPeer, Quiet
  <2>4. CASE ListNetworks \/ ListResources \/ ListRouters
    BY <2>4 DEF ListNetworks, ListResources, ListRouters, Quiet
  <2>5. CASE CreateNetwork \/ CreateResource \/ CreateRouter \/ EnableRouter
    BY <2>5 DEF CreateNetwork, CreateResource, CreateRouter, EnableRouter, Answered, Creates
  <2>6. CASE AgentStep \/ Registers \/ PeopleStep \/ Exits \/ Crashes \/ UNCHANGED bootstrapVars
    BY <2>6 DEF AgentStep, Registers, PeopleStep, PeopleChange, Exits, Crashes, Relaunch,
       bootstrapVars, provisionerVars
  <2> QED
    BY <2>1, <2>2, <2>3, <2>4, <2>5, <2>6 DEF BootstrapNext, MainStep, RunProvisioner, Provision
<1>4. touched' \in BOOLEAN /\ complete' \in BOOLEAN
  <2>1. CASE UNCHANGED <<touched, complete>>
    BY <2>1 DEF Basics
  <2>2. CASE SetNetworkProvision
    BY <2>2 DEF Basics, SetNetworkProvision
  <2>3. CASE PeopleChange
    BY <2>3 DEF PeopleChange
  <2>4. CASE Relaunch
    BY <2>4 DEF Basics, Relaunch
  <2>5. UNCHANGED <<touched, complete>> \/ SetNetworkProvision \/ PeopleChange \/ Relaunch
    <3>1. CASE Begin \/ DeriveHostname \/ LaunchAgent \/ GivesUpPolling
      BY <3>1 DEF Begin, DeriveHostname, LaunchAgent, GivesUpPolling, PollTimesOut, Quiet
    <3>2. CASE CallFails \/ Gone \/ PickDockerNetwork \/ FindSelfPeer
      BY <3>2 DEF CallFails, Gone, PickDockerNetwork, FindSelfPeer, Quiet
    <3>3. CASE ListNetworks \/ ListResources \/ ListRouters
      BY <3>3 DEF ListNetworks, ListResources, ListRouters, Quiet
    <3>4. CASE CreateNetwork \/ CreateResource \/ CreateRouter \/ EnableRouter
      BY <3>4 DEF CreateNetwork, CreateResource, CreateRouter, EnableRouter, Creates
    <3>5. CASE AgentStep \/ Registers \/ UNCHANGED bootstrapVars
      BY <3>5 DEF AgentStep, Registers, bootstrapVars, provisionerVars
    <3>6. CASE PeopleStep \/ Exits \/ Crashes
      BY <3>6 DEF PeopleStep, Exits, Crashes
    <3> QED
      BY <3>1, <3>2, <3>3, <3>4, <3>5, <3>6 DEF BootstrapNext, MainStep, RunProvisioner, Provision
  <2> QED
    BY <2>1, <2>2, <2>3, <2>4, <2>5
<1> QED
  BY <1>1, <1>2, <1>3, <1>4, Zenon DEF Basics

\* The agent and the process: where they are.
ProcessOK ==
    /\ at \in ProvisionPhases \cup {"begin", "derive", "agent", "skipped", "running"}
    /\ at \in CallPhases \cup {"provisioned", "running"} =>
          setup.disableAgent \/ supervisor # "off"
    /\ crashes \in Nat

\* The process stays in its states, and an agent runs only where one is needed.
LEMMA ProcessKept ==
    ASSUME [BootstrapNext]_bootstrapVars, ProcessOK
    PROVE  ProcessOK'
<1> USE DEF ProcessOK, ProvisionPhases, CallPhases
<1>1. setup' = setup
  BY SetupStays
<1>2. CASE Begin \/ DeriveHostname \/ SetNetworkProvision \/ GivesUpPolling
  BY <1>1, <1>2 DEF Begin, DeriveHostname, SetNetworkProvision, GivesUpPolling, PollTimesOut,
     Goes, Fails, agentVars
<1>3. CASE LaunchAgent
  BY <1>1, <1>3 DEF LaunchAgent, NeedsAgent, StartAgent, Moves, Goes, Fails, agentVars
<1>4. CASE RunProvisioner
  <2>1. supervisor' = supervisor /\ crashes' = crashes
    BY <1>4 DEF RunProvisioner, agentVars
  <2>2. at \in CallPhases /\ at' \in CallPhases \cup {"failed", "provisioned"}
    <3>1. CASE CallFails \/ Gone \/ PickDockerNetwork \/ FindSelfPeer
      BY <3>1 DEF CallFails, Gone, PickDockerNetwork, FindSelfPeer, Goes, Fails
    <3>2. CASE ListNetworks \/ ListResources \/ ListRouters
      BY <3>2 DEF ListNetworks, ListResources, ListRouters, Goes, Fails
    <3>3. CASE CreateNetwork \/ CreateResource \/ CreateRouter \/ EnableRouter
      BY <3>3 DEF CreateNetwork, CreateResource, CreateRouter, EnableRouter, Answered, Goes, Fails
    <3> QED
      BY <1>4, <3>1, <3>2, <3>3 DEF RunProvisioner, Provision
  <2> QED
    BY <1>1, <2>1, <2>2
<1>5. CASE AgentStep
  <2>1. at' = at /\ crashes' = crashes
    BY <1>5 DEF AgentStep, provisionerVars, local
  <2>2. supervisor # "off" => supervisor' # "off"
    BY <1>5, StaysOn DEF AgentStep
  <2> QED
    BY <1>1, <2>1, <2>2
<1>6. CASE Registers \/ PeopleStep \/ UNCHANGED bootstrapVars
  BY <1>1, <1>6 DEF Registers, PeopleStep, PeopleChange, bootstrapVars, provisionerVars, local, agentVars
<1>7. CASE Exits \/ Crashes
  BY <1>7 DEF Exits, Crashes, Relaunch
<1> QED
  BY <1>2, <1>3, <1>4, <1>5, <1>6, <1>7 DEF BootstrapNext, MainStep

\* The agent in the process: it goes its own way, or starts anew.
LEMMA AgentKept ==
    ASSUME [BootstrapNext]_bootstrapVars, AgentTypeOK
    PROVE  AgentTypeOK'
<1>1. CASE UNCHANGED agentVars
  BY <1>1, AgentStepTyped
<1>2. CASE (\E there \in BOOLEAN : StartAgent(there)) \/ Supervise \/ ChildDies
  BY <1>2, AgentStepTyped DEF AgentNext
<1>3. CASE Relaunch
  <2>1. supervisor' = "off" /\ 1 \in Pauses
    BY <1>3 DEF Relaunch, Pauses
  <2> QED
    BY <1>3, <2>1, Zenon DEF Relaunch, AgentTypeOK
<1>4. LaunchAgent => UNCHANGED agentVars \/ StartAgent(TRUE)
  BY DEF LaunchAgent, StartAgent
<1>5. UNCHANGED agentVars \/ LaunchAgent \/ Supervise \/ ChildDies \/ Relaunch
  BY DEF BootstrapNext, MainStep, Begin, DeriveHostname, RunProvisioner, GivesUpPolling,
     SetNetworkProvision, AgentStep, Registers, PeopleStep, Exits, Crashes, bootstrapVars
<1> QED
  BY <1>1, <1>2, <1>3, <1>4, <1>5

\* All of the types.
Typed == BootstrapTypeOK /\ FoundOK

\* The whole type in its parts.
LEMMA TypedParts ==
    Typed <=> AgentTypeOK /\ Basics /\ ServerTyped /\ Apart /\ ProcessOK /\ FoundOK
BY TypeParts DEF Typed, BootstrapTypeOK, ProcessOK

\* The remains of earlier runs (Remains) are typed, so the bootstrap starts typed.
LEMMA TypedInit == BootstrapInit => Typed
<1> SUFFICES ASSUME BootstrapInit
             PROVE  Typed
  OBVIOUS
<1>1. AgentTypeOK
  <2>1. 0 \in Nat /\ 1 \in Pauses
    BY DEF Pauses
  <2> QED
    BY <2>1, Zenon DEF BootstrapInit, AgentInit, AgentTypeOK
<1>2. PICK old \in Remains \cup {Nowhere} :
         /\ peers = old.peers /\ networks = old.networks /\ resources = old.resources
         /\ routers = old.routers /\ objects = old.objects /\ made = 1 .. old.objects
  BY DEF BootstrapInit, ProvisionerInit
<1>3. ServerOK(Nowhere)
  BY ProvisionerAssumption DEF ServerOK, Nowhere
<1>4. ServerOK(old)
  BY <1>3, RemainsAssumption
<1>5. ServerTyped
  BY <1>2, <1>4 DEF ServerOK, ServerTyped, IdSet
<1>6. peers \in [DOMAIN peers -> PeerType] /\ DOMAIN peers \subseteq Text
  BY <1>2, <1>4 DEF ServerOK
<1>7. setup \in Setups /\ at = "begin" /\ found = Nothing /\ errors = 0 /\ changes = 0
      /\ touched = FALSE /\ complete = FALSE /\ crashes = 0
  BY DEF BootstrapInit, ProvisionerInit
<1>8. Basics
  <2>1. 0 \in Nat
    OBVIOUS
  <2> QED
    BY <1>6, <1>7, <2>1, Zenon DEF Basics
<1>9. Apart
  BY <1>5, <1>7 DEF Apart, Nothing, NoId, ServerTyped, IdSet
<1>10. ProcessOK
  BY <1>7 DEF ProcessOK, CallPhases, ProvisionPhases
<1>11. FoundOK
  <2>1. found \in FoundType
    BY <1>5, <1>7, TextAssumption DEF FoundType, Nothing, NoId, ServerTyped
  <2> QED
    BY <1>6, <1>7, <2>1 DEF FoundOK, Picked, CallPhases
<1> QED
  BY <1>1, <1>5, <1>8, <1>9, <1>10, <1>11, TypedParts

\* Every step keeps the type, and objects that stay are what they were.
LEMMA TypedKept ==
    ASSUME Typed, [BootstrapNext]_bootstrapVars
    PROVE  Typed' /\ Persists
<1>1. AgentTypeOK /\ Basics /\ ServerTyped /\ Apart /\ ProcessOK /\ FoundOK
  BY TypedParts
<1>2. AgentTypeOK' /\ ProcessOK' /\ Basics' /\ DOMAIN peers' \subseteq Text
  BY <1>1, AgentKept, ProcessKept, BasicsKept
<1>3. ServerTyped' /\ Persists
  BY <1>1, ServerKept DEF Basics
<1>4. found' \in FoundType' /\ Apart'
  BY <1>1, <1>3, FoundSteps, FoundTyped DEF FoundOK, Basics
<1>5. FoundOK'
  <2>1. setup' = setup
    BY SetupStays
  <2>2. at' \in Picked => found'.docker \in DOMAIN Subnet /\ Pickable(found'.docker)
    BY <1>1, PickedSteps DEF FoundOK
  <2>3. Pickable(found.docker)' <=> Pickable(found'.docker)
    BY <2>1 DEF Pickable, Inspected, Candidates, SelfContainerID
  <2> QED
    BY <1>2, <1>4, <2>2, <2>3 DEF FoundOK
<1>6. Typed' <=> (AgentTypeOK /\ Basics /\ ServerTyped /\ Apart /\ ProcessOK /\ FoundOK)'
  BY TypedParts, PTL
<1> QED
  BY <1>2, <1>3, <1>4, <1>5, <1>6

\* The types hold throughout, and no process polls for a peer whose agent it
\* has not started, through failures, exits and crashes.
THEOREM BootstrapTyped == BootstrapSpec => []BootstrapTypeOK
<1>1. Typed /\ [BootstrapNext]_bootstrapVars => Typed'
  BY TypedKept
<1>2. Typed => BootstrapTypeOK
  BY DEF Typed
<1> QED
  BY <1>1, <1>2, TypedInit, PTL DEF BootstrapSpec

-----------------------------------------------------------------------------
(* Nothing is created twice                                                *)

\* How the process comes to be where it creates something: it has just seen
\* that there is nothing like it.
LEMMA NewSteps ==
    ASSUME [BootstrapNext]_bootstrapVars, at' \in {"newNetwork", "newResource", "newRouter"}
    PROVE  \/ UNCHANGED <<at, found, made>>
           \/ /\ UNCHANGED <<found, networks, resources, routers, objects, made>>
              /\ at' = "newNetwork"  => NetworksHere = {}
              /\ at' = "newResource" => ResourcesHere = {}
              /\ at' = "newRouter"   => RoutersHere = {}
<1>1. CASE Begin \/ DeriveHostname \/ LaunchAgent \/ SetNetworkProvision \/ GivesUpPolling
  BY <1>1 DEF Begin, DeriveHostname, LaunchAgent, SetNetworkProvision, GivesUpPolling, PollTimesOut,
     Goes, Fails
<1>2. CASE CallFails \/ Gone \/ PickDockerNetwork \/ FindSelfPeer
  BY <1>2 DEF CallFails, Gone, PickDockerNetwork, FindSelfPeer, Goes, Fails
<1>3. CASE ListNetworks \/ ListResources \/ ListRouters
  BY <1>3 DEF ListNetworks, ListResources, ListRouters, Goes, Quiet, scaffold
<1>4. CASE CreateNetwork \/ CreateResource \/ CreateRouter \/ EnableRouter
  BY <1>4 DEF CreateNetwork, CreateResource, CreateRouter, EnableRouter, Answered, Goes, Fails
<1>5. CASE AgentStep \/ Registers \/ PeopleStep \/ UNCHANGED bootstrapVars
  BY <1>5 DEF AgentStep, Registers, PeopleStep, PeopleChange, bootstrapVars, provisionerVars, local,
     scaffold
<1>6. CASE Exits \/ Crashes
  BY <1>6 DEF Exits, Crashes, Relaunch
<1> QED
  BY <1>1, <1>2, <1>3, <1>4, <1>5, <1>6 DEF BootstrapNext, MainStep, RunProvisioner, Provision

\* A create is decided from a list that found nothing of the kind, and only the
\* agent itself creates between that list and the call.
LEMMA NoneAlikeKept ==
    ASSUME Typed, Persists, NoneAlike, [BootstrapNext]_bootstrapVars
    PROVE  NoneAlike'
<1>1. setup' = setup /\ made \subseteq IdSet
  BY SetupStays, TypedParts DEF ServerTyped
<1>2. CASE at' \notin {"newNetwork", "newResource", "newRouter"}
  BY <1>2 DEF NoneAlike
<1>3. CASE UNCHANGED <<at, found, made>>
  <2>1. \A i \in made : /\ i \in NetworksHere' => i \in NetworksHere
                        /\ i \in ResourcesHere' => i \in ResourcesHere
                        /\ i \in RoutersHere' => i \in RoutersHere
    BY <1>1, <1>3 DEF Persists, NetworksHere, ResourcesHere, RoutersHere, NetworkName
  <2> QED
    BY <1>3, <2>1 DEF NoneAlike
<1>4. CASE /\ UNCHANGED <<found, networks, resources, routers, objects, made>>
           /\ at' = "newNetwork"  => NetworksHere = {}
           /\ at' = "newResource" => ResourcesHere = {}
           /\ at' = "newRouter"   => RoutersHere = {}
  <2>1. NetworksHere' = NetworksHere /\ ResourcesHere' = ResourcesHere /\ RoutersHere' = RoutersHere
    BY <1>1, <1>4 DEF NetworksHere, ResourcesHere, RoutersHere, NetworkName
  <2> QED
    BY <1>4, <2>1 DEF NoneAlike
<1> QED
  BY <1>2, <1>3, <1>4, NewSteps

\* Two objects are not alike that were not, whatever happens to them.
LEMMA OldOnes ==
    ASSUME Typed, Persists, ProvisionedOnce, NEW i \in made, NEW j \in made, i # j
    PROVE  /\ {i, j} \subseteq DOMAIN networks'  => networks'[i] # networks'[j]
           /\ {i, j} \subseteq DOMAIN resources' =>
                 <<resources'[i].net, resources'[i].address>>
                     # <<resources'[j].net, resources'[j].address>>
           /\ {i, j} \subseteq DOMAIN routers'   =>
                 <<routers'[i].net, routers'[i].peer>> # <<routers'[j].net, routers'[j].peer>>
<1>1. i \in IdSet /\ j \in IdSet
  BY TypedParts DEF ServerTyped
<1> QED
  BY <1>1 DEF Persists, ProvisionedOnce

\* Only the three creating calls add to what the agent has made.
LEMMA NothingMade ==
    ASSUME [BootstrapNext]_bootstrapVars, ~CreateNetwork, ~CreateResource, ~CreateRouter
    PROVE  made' = made
<1>1. CASE UNCHANGED scaffold
  BY <1>1 DEF scaffold
<1>2. CASE EnableRouter \/ PeopleChange
  BY <1>2 DEF EnableRouter, PeopleChange
<1> QED
  BY <1>1, <1>2, ServerSteps

\* A created object has no twin among the made ones, since none was alike.
LEMMA OnceKept ==
    ASSUME Typed, Persists, NoneAlike, ProvisionedOnce, [BootstrapNext]_bootstrapVars
    PROVE  ProvisionedOnce'
<1>1. ServerTyped
  BY TypedParts
<1> DEFINE Unlike(i, j) ==
        /\ {i, j} \subseteq DOMAIN networks'  => networks'[i] # networks'[j]
        /\ {i, j} \subseteq DOMAIN resources' =>
              <<resources'[i].net, resources'[i].address>>
                  # <<resources'[j].net, resources'[j].address>>
        /\ {i, j} \subseteq DOMAIN routers'   =>
              <<routers'[i].net, routers'[i].peer>> # <<routers'[j].net, routers'[j].peer>>
<1>2. \A i, j \in made : i # j => Unlike(i, j)
  BY OldOnes
<1>3. NewId \notin IdSet /\ made \subseteq IdSet
  BY <1>1, NewIds DEF ServerTyped
<1>4. CASE CreateNetwork
  <2>1. /\ at = "newNetwork" /\ networks' = Add(networks, NetworkName)
        /\ UNCHANGED <<resources, routers>> /\ made' = made \cup {NewId}
    BY <1>4 DEF CreateNetwork, Creates
  <2>2. networks'[NewId] = NetworkName /\ \A i \in DOMAIN networks \ {NewId} : networks'[i] = networks[i]
    BY <2>1 DEF Add
  <2>3. NewId \notin DOMAIN resources' \cup DOMAIN routers'
    BY <1>1, <1>3, <2>1 DEF ServerTyped
  <2>4. \A i \in made : i \in DOMAIN networks' => networks'[i] # NetworkName
    BY <1>3, <2>1, <2>2 DEF NoneAlike, NetworksHere, Add
  <2>5. \A i \in made : Unlike(i, NewId) /\ Unlike(NewId, i)
    BY <2>2, <2>3, <2>4
  <2> HIDE DEF Unlike
  <2>6. \A i, j \in made' : i # j => Unlike(i, j)
    BY <1>2, <2>1, <2>5
  <2> QED
    BY <2>6 DEF ProvisionedOnce, Unlike
<1>5. CASE CreateResource
  <2>1. /\ at = "newResource" /\ UNCHANGED <<networks, routers>> /\ made' = made \cup {NewId}
        /\ resources' = Add(resources, [net |-> found.net, address |-> Subnet[found.docker],
                                        enabled |-> TRUE])
    BY <1>5 DEF CreateResource, Creates
  <2>2. /\ resources'[NewId].net = found.net /\ resources'[NewId].address = Subnet[found.docker]
        /\ \A i \in DOMAIN resources \ {NewId} : resources'[i] = resources[i]
    BY <2>1 DEF Add
  <2>3. NewId \notin DOMAIN networks' \cup DOMAIN routers'
    BY <1>1, <1>3, <2>1 DEF ServerTyped
  <2>4. \A i \in made : i \in DOMAIN resources' =>
           resources'[i].net # found.net \/ resources'[i].address # Subnet[found.docker]
    BY <1>3, <2>1, <2>2 DEF NoneAlike, ResourcesHere, Add
  <2>5. \A i \in made : Unlike(i, NewId) /\ Unlike(NewId, i)
    BY <2>2, <2>3, <2>4
  <2> HIDE DEF Unlike
  <2>6. \A i, j \in made' : i # j => Unlike(i, j)
    BY <1>2, <2>1, <2>5
  <2> QED
    BY <2>6 DEF ProvisionedOnce, Unlike
<1>6. CASE CreateRouter
  <2>1. /\ at = "newRouter" /\ UNCHANGED <<networks, resources>> /\ made' = made \cup {NewId}
        /\ routers' = Add(routers, [net |-> found.net, peer |-> found.self, enabled |-> TRUE])
    BY <1>6 DEF CreateRouter, Creates
  <2>2. /\ routers'[NewId].net = found.net /\ routers'[NewId].peer = found.self
        /\ \A i \in DOMAIN routers \ {NewId} : routers'[i] = routers[i]
    BY <2>1 DEF Add
  <2>3. NewId \notin DOMAIN networks' \cup DOMAIN resources'
    BY <1>1, <1>3, <2>1 DEF ServerTyped
  <2>4. \A i \in made : i \in DOMAIN routers' =>
           routers'[i].net # found.net \/ routers'[i].peer # found.self
    BY <1>3, <2>1, <2>2 DEF NoneAlike, RoutersHere, Add
  <2>5. \A i \in made : Unlike(i, NewId) /\ Unlike(NewId, i)
    BY <2>2, <2>3, <2>4
  <2> HIDE DEF Unlike
  <2>6. \A i, j \in made' : i # j => Unlike(i, j)
    BY <1>2, <2>1, <2>5
  <2> QED
    BY <2>6 DEF ProvisionedOnce, Unlike
<1>7. CASE ~CreateNetwork /\ ~CreateResource /\ ~CreateRouter
  <2>1. made' = made
    BY <1>7, NothingMade
  <2> HIDE DEF Unlike
  <2>2. \A i, j \in made' : i # j => Unlike(i, j)
    BY <1>2, <2>1
  <2> QED
    BY <2>2 DEF ProvisionedOnce, Unlike
<1> QED
  BY <1>4, <1>5, <1>6, <1>7

\* What earlier runs left has no twins (ServerOK), and nothing is being created.
LEMMA OnceInit == BootstrapInit => NoneAlike /\ ProvisionedOnce
<1> SUFFICES ASSUME BootstrapInit
             PROVE  NoneAlike /\ ProvisionedOnce
  OBVIOUS
<1>1. NoneAlike
  BY DEF BootstrapInit, ProvisionerInit, NoneAlike
<1>2. PICK old \in Remains \cup {Nowhere} :
         networks = old.networks /\ resources = old.resources /\ routers = old.routers
  BY DEF BootstrapInit, ProvisionerInit
<1>3. ServerOK(Nowhere)
  BY ProvisionerAssumption DEF ServerOK, Nowhere
<1>4. ServerOK(old)
  BY <1>3, RemainsAssumption
<1>5. ProvisionedOnce
  BY <1>2, <1>4 DEF ServerOK, ProvisionedOnce
<1> QED
  BY <1>1, <1>5

\* However often bootstrap fails, dies half way or loses an answer and is run
\* again, whatever people delete or create in between: of the networks,
\* resources and routers it has created no two are alike.
THEOREM NeverTwice == BootstrapSpec => []ProvisionedOnce
<1>1. Typed /\ NoneAlike /\ ProvisionedOnce /\ [BootstrapNext]_bootstrapVars
        => (Typed /\ NoneAlike /\ ProvisionedOnce)'
  BY TypedKept, NoneAlikeKept, OnceKept
<1> QED
  BY <1>1, TypedInit, OnceInit, PTL DEF BootstrapSpec

-----------------------------------------------------------------------------
(* Our own peer                                                            *)

\* The name that the agent registers with and the peer of that name, as they
\* are found.
LEMMA SelfSteps ==
    ASSUME [BootstrapNext]_bootstrapVars, found \in FoundType
    PROVE  /\ at' \in {"agent", "pick"} \cup Picked =>
                \/ at \in {"agent", "pick"} \cup Picked /\ found'.peerName = found.peerName
                \/ found'.peerName \in HostNames
           /\ at' \in Polled =>
                \/ at \in Polled /\ found'.self = found.self
                \/ at = "poll" /\ found'.self \in SelfPeers
<1> USE DEF Picked, Polled, CallPhases
<1>1. CASE Begin \/ LaunchAgent \/ SetNetworkProvision \/ GivesUpPolling
  BY <1>1 DEF Begin, LaunchAgent, SetNetworkProvision, GivesUpPolling, PollTimesOut, Goes, Fails
<1>2. CASE DeriveHostname
  BY <1>2 DEF DeriveHostname, Goes, Fails, FoundType
<1>3. CASE CallFails \/ Gone
  BY <1>3 DEF CallFails, Gone, Goes, Fails
<1>4. CASE PickDockerNetwork
  BY <1>4 DEF PickDockerNetwork, Goes, Fails, FoundType
<1>5. CASE FindSelfPeer
  BY <1>5 DEF FindSelfPeer, Goes, FoundType
<1>6. CASE ListNetworks \/ ListResources \/ ListRouters
  BY <1>6 DEF ListNetworks, ListResources, ListRouters, Goes, FoundType
<1>7. CASE CreateNetwork \/ CreateResource \/ CreateRouter \/ EnableRouter
  BY <1>7 DEF CreateNetwork, CreateResource, CreateRouter, EnableRouter, Answered, Goes, Fails, FoundType
<1>8. CASE AgentStep \/ Registers \/ PeopleStep \/ UNCHANGED bootstrapVars
  BY <1>8 DEF AgentStep, Registers, PeopleStep, PeopleChange, bootstrapVars, provisionerVars, local
<1>9. CASE Exits \/ Crashes
  BY <1>9 DEF Exits, Crashes, Relaunch
<1> QED
  BY <1>1, <1>2, <1>3, <1>4, <1>5, <1>6, <1>7, <1>8, <1>9
  DEF BootstrapNext, MainStep, RunProvisioner, Provision

\* Peers change by registering only.
LEMMA PeersSteps ==
    ASSUME [BootstrapNext]_bootstrapVars
    PROVE  Registers \/ peers' = peers
<1>1. CASE MainStep
  BY <1>1 DEF MainStep, Begin, DeriveHostname, LaunchAgent, RunProvisioner, GivesUpPolling,
     SetNetworkProvision, Quiet, Provision, CallFails, Gone, PickDockerNetwork, FindSelfPeer,
     PollTimesOut, ListNetworks, ListResources, ListRouters, CreateNetwork, CreateResource,
     CreateRouter, EnableRouter, Creates
<1>2. CASE AgentStep \/ PeopleStep \/ Exits \/ Crashes \/ UNCHANGED bootstrapVars
  BY <1>2 DEF AgentStep, PeopleStep, PeopleChange, Exits, Crashes, Relaunch, bootstrapVars,
     provisionerVars
<1> QED
  BY <1>1, <1>2 DEF BootstrapNext

\* Without a twin of ours the peer that is found by name is the own one.
LEMMA OurselvesKept ==
    ASSUME Typed, Ourselves, [BootstrapNext]_bootstrapVars
    PROVE  Ourselves'
<1>1. found \in FoundType /\ setup \in Setups
  BY TypedParts DEF FoundOK, Basics
<1>2. Strangers(peers')
  BY PeersSteps DEF Ourselves, Strangers, Registers
<1>3. at' \in {"agent", "pick"} \cup Picked => found'.peerName \in OurNames
  BY <1>1, SelfSteps, HostNamesOurs DEF Ourselves
<1>4. at' \in Polled => found'.self = Self
  <2>1. at = "poll" => SelfPeers \subseteq {Self}
    BY DEF Ourselves, Strangers, SelfPeers, Picked, CallPhases
  <2> QED
    BY <1>1, <2>1, SelfSteps DEF Ourselves
<1> QED
  BY <1>2, <1>3, <1>4 DEF Ourselves

-----------------------------------------------------------------------------
(* What a bootstrap leaves                                                 *)

\* Where the process sits still, so does what it has found.
LEMMA SameHere ==
    ASSUME UNCHANGED <<setup, found, networks, resources, routers>>
    PROVE  /\ NetworksHere' = NetworksHere /\ ResourcesHere' = ResourcesHere
           /\ RoutersHere' = RoutersHere
           /\ \A r : Serves(r)' <=> Serves(r)
BY DEF NetworksHere, ResourcesHere, RoutersHere, NetworkName, Serves

\* What was created after a lookup found nothing is what the next lookup finds.
LEMMA CreatedHere ==
    ASSUME ServerTyped
    PROVE  /\ networks' = Add(networks, NetworkName) /\ NetworksHere = {}
                /\ UNCHANGED setup /\ found'.docker = found.docker
                => NetworksHere' = {NewId}
           /\ resources' = Add(resources, [net |-> found.net, address |-> Subnet[found.docker],
                                           enabled |-> TRUE])
                /\ ResourcesHere = {} /\ found'.net = found.net /\ found'.docker = found.docker
                => ResourcesHere' = {NewId}
           /\ routers' = Add(routers, [net |-> found.net, peer |-> found.self, enabled |-> TRUE])
                /\ RoutersHere = {} /\ found' = found
                => RoutersHere' = {NewId} /\ routers'[NewId].enabled
<1>1. NewId \notin IdSet
  BY NewIds
<1>2. NewId \notin DOMAIN networks \cup DOMAIN resources \cup DOMAIN routers
  BY <1>1 DEF ServerTyped
<1> QED
  BY <1>2 DEF Add, NetworksHere, ResourcesHere, RoutersHere, NetworkName

\* While nobody interferes, what a phase has found or made is still what its
\* lookup would return.
LEMMA UndisturbedKept ==
    ASSUME Typed, Undisturbed, [BootstrapNext]_bootstrapVars
    PROVE  Undisturbed'
<1>1. setup' = setup /\ ServerTyped /\ found \in FoundType /\ NewId \in Nat
  BY SetupStays, TypedParts, NewIds DEF FoundOK
<1> USE DEF Placed, Filled, Polled, Picked, CallPhases
<1>2. CASE at' \notin {"newNetwork", "running"} \cup Placed
  BY <1>2 DEF Undisturbed
<1>3. CASE touched'
  BY <1>3 DEF Undisturbed
<1>4. CASE UNCHANGED <<at, found, networks, resources, routers, touched>>
  BY <1>1, <1>4, SameHere DEF Undisturbed
<1>5. CASE SetNetworkProvision
  <2>1. /\ at = "provisioned" /\ at' = "running"
        /\ UNCHANGED <<found, networks, resources, routers, touched>>
    BY <1>5 DEF SetNetworkProvision, Goes, scaffold
  <2> QED
    BY <1>1, <2>1, SameHere DEF Undisturbed
<1>6. CASE ListNetworks
  <2>1. at = "networks" /\ UNCHANGED <<networks, resources, routers, touched>>
    BY <1>6 DEF ListNetworks, Quiet, scaffold
  <2>2. CASE NetworksHere = {} /\ Goes("newNetwork", found)
    BY <1>1, <2>1, <2>2, SameHere DEF Undisturbed, Goes
  <2>3. ASSUME NEW i \in NetworksHere, Goes("resources", [found EXCEPT !.net = i])
        PROVE  Undisturbed'
    <3>1. at' = "resources" /\ found'.net = i /\ found'.docker = found.docker
      BY <1>1, <2>3 DEF Goes, FoundType
    <3>2. NetworksHere' = NetworksHere
      BY <1>1, <2>1, <3>1 DEF NetworksHere, NetworkName
    <3>3. found'.net \in NetworksHere'
      BY <2>3, <3>1, <3>2
    <3> QED
      BY <3>1, <3>3 DEF Undisturbed
  <2> QED
    BY <1>6, <2>2, <2>3 DEF ListNetworks
<1>7. CASE ListResources
  <2>1. at = "resources" /\ UNCHANGED <<networks, resources, routers, touched>>
    BY <1>7 DEF ListResources, Quiet, scaffold
  <2>2. CASE ResourcesHere = {} /\ Goes("newResource", found)
    BY <1>1, <2>1, <2>2, SameHere DEF Undisturbed, Goes
  <2>3. ASSUME NEW i \in ResourcesHere, Goes("routers", [found EXCEPT !.res = i])
        PROVE  Undisturbed'
    <3>1. at' = "routers" /\ found'.net = found.net /\ found'.docker = found.docker /\ found'.res = i
      BY <1>1, <2>3 DEF Goes, FoundType
    <3>2. NetworksHere' = NetworksHere /\ ResourcesHere' = ResourcesHere
      BY <1>1, <2>1, <3>1 DEF NetworksHere, ResourcesHere, NetworkName
    <3>3. ~touched => found'.net \in NetworksHere' /\ found'.res \in ResourcesHere'
      BY <2>1, <2>3, <3>1, <3>2 DEF Undisturbed
    <3> QED
      BY <2>1, <3>1, <3>3 DEF Undisturbed
  <2> QED
    BY <1>7, <2>2, <2>3 DEF ListResources
<1>8. CASE ListRouters
  <2>1. at = "routers" /\ UNCHANGED <<networks, resources, routers, touched>>
    BY <1>8 DEF ListRouters, Quiet, scaffold
  <2>2. CASE RoutersHere = {} /\ Goes("newRouter", found)
    BY <1>1, <2>1, <2>2, SameHere DEF Undisturbed, Goes
  <2>3. ASSUME NEW i \in RoutersHere, Serves(i), Goes("provisioned", found)
        PROVE  Undisturbed'
    BY <1>1, <2>1, <2>3, SameHere DEF Undisturbed, Goes
  <2>4. ASSUME NEW i \in RoutersHere, Goes("enable", [found EXCEPT !.router = i])
        PROVE  Undisturbed'
    <3>1. /\ at' = "enable" /\ found'.net = found.net /\ found'.docker = found.docker
          /\ found'.res = found.res /\ found'.self = found.self /\ found'.router = i
      BY <1>1, <2>4 DEF Goes, FoundType
    <3>2. /\ NetworksHere' = NetworksHere /\ ResourcesHere' = ResourcesHere
          /\ RoutersHere' = RoutersHere
      BY <1>1, <2>1, <3>1 DEF NetworksHere, ResourcesHere, RoutersHere, NetworkName
    <3>3. ~touched => /\ found'.net \in NetworksHere' /\ found'.res \in ResourcesHere'
                      /\ found'.router \in RoutersHere'
      BY <2>1, <2>4, <3>1, <3>2 DEF Undisturbed
    <3> QED
      BY <2>1, <3>1, <3>3 DEF Undisturbed
  <2> QED
    BY <1>8, <2>2, <2>3, <2>4 DEF ListRouters
<1>9. CASE CreateNetwork
  <2>1. at = "newNetwork" /\ networks' = Add(networks, NetworkName) /\ touched' = touched
    BY <1>9 DEF CreateNetwork, Creates
  <2>2. CASE Goes("resources", [found EXCEPT !.net = NewId])
    <3>1. at' = "resources" /\ found'.net = NewId /\ found'.docker = found.docker
      BY <1>1, <2>2 DEF Goes, FoundType
    <3>2. ~touched => NetworksHere' = {NewId}
      BY <1>1, <2>1, <3>1, CreatedHere DEF Undisturbed
    <3>3. ~touched => found'.net \in NetworksHere'
      BY <1>1, <3>1, <3>2
    <3> QED
      BY <2>1, <3>1, <3>3 DEF Undisturbed
  <2> QED
    BY <1>2, <1>9, <2>2 DEF CreateNetwork, Answered, Goes, Fails
<1>10. CASE CreateResource
  <2>1. /\ at = "newResource" /\ UNCHANGED <<networks, touched>>
        /\ resources' = Add(resources, [net |-> found.net, address |-> Subnet[found.docker],
                                        enabled |-> TRUE])
    BY <1>10 DEF CreateResource, Creates
  <2>2. CASE Goes("routers", [found EXCEPT !.res = NewId])
    <3>1. at' = "routers" /\ found'.net = found.net /\ found'.docker = found.docker /\ found'.res = NewId
      BY <1>1, <2>2 DEF Goes, FoundType
    <3>2. NetworksHere' = NetworksHere
      BY <1>1, <2>1, <3>1 DEF NetworksHere, NetworkName
    <3>3. ~touched => ResourcesHere' = {NewId}
      BY <1>1, <2>1, <3>1, CreatedHere DEF Undisturbed
    <3>4. ~touched => found'.net \in NetworksHere' /\ found'.res \in ResourcesHere'
      BY <1>1, <2>1, <3>1, <3>2, <3>3 DEF Undisturbed
    <3> QED
      BY <2>1, <3>1, <3>4 DEF Undisturbed
  <2> QED
    BY <1>2, <1>10, <2>2 DEF CreateResource, Answered, Goes, Fails
<1>11. CASE CreateRouter
  <2>1. /\ at = "newRouter" /\ UNCHANGED <<networks, resources, touched>>
        /\ routers' = Add(routers, [net |-> found.net, peer |-> found.self, enabled |-> TRUE])
    BY <1>11 DEF CreateRouter, Creates
  <2>2. CASE Goes("provisioned", found)
    <3>1. at' = "provisioned" /\ found' = found
      BY <2>2 DEF Goes
    <3>2. NetworksHere' = NetworksHere /\ ResourcesHere' = ResourcesHere
      BY <1>1, <2>1, <3>1 DEF NetworksHere, ResourcesHere, NetworkName
    <3>3. ~touched => RoutersHere' = {NewId} /\ routers'[NewId].enabled
      BY <1>1, <2>1, <3>1, CreatedHere DEF Undisturbed
    <3>4. ~touched => /\ found'.net \in NetworksHere' /\ found'.res \in ResourcesHere'
                      /\ NewId \in RoutersHere'
      BY <1>1, <2>1, <3>1, <3>2, <3>3 DEF Undisturbed
    <3>5. ~touched => (\E r \in RoutersHere : Serves(r))'
      BY <3>3, <3>4 DEF Serves
    <3> QED
      BY <2>1, <3>1, <3>4, <3>5 DEF Undisturbed
  <2> QED
    BY <1>2, <1>11, <2>2 DEF CreateRouter, Answered, Goes, Fails
<1>12. CASE EnableRouter
  <2>1. /\ at = "enable" /\ UNCHANGED <<networks, resources, touched>>
        /\ found.router \in DOMAIN routers
        /\ routers' = [routers EXCEPT ![found.router].enabled = TRUE]
    BY <1>12 DEF EnableRouter
  <2>2. CASE Goes("provisioned", found)
    <3>1. at' = "provisioned" /\ found' = found
      BY <2>2 DEF Goes
    <3>2. NetworksHere' = NetworksHere /\ ResourcesHere' = ResourcesHere
      BY <1>1, <2>1, <3>1 DEF NetworksHere, ResourcesHere, NetworkName
    <3>3. routers[found.router] \in RouterType(IdSet)
      BY <1>1, <2>1 DEF ServerTyped
    <3>4. /\ DOMAIN routers' = DOMAIN routers /\ routers'[found.router].enabled
          /\ \A i \in DOMAIN routers : routers'[i].net = routers[i].net /\ routers'[i].peer = routers[i].peer
      BY <2>1, <3>3 DEF RouterType
    <3>5. RoutersHere' = RoutersHere
      BY <3>1, <3>4 DEF RoutersHere
    <3>6. ~touched => /\ found'.net \in NetworksHere' /\ found'.res \in ResourcesHere'
                      /\ found.router \in RoutersHere'
      BY <2>1, <3>1, <3>2, <3>5 DEF Undisturbed
    <3>7. ~touched => (\E r \in RoutersHere : Serves(r))'
      BY <3>4, <3>6 DEF Serves
    <3> QED
      BY <2>1, <3>1, <3>6, <3>7 DEF Undisturbed
  <2> QED
    BY <1>2, <1>12, <2>2 DEF EnableRouter, Answered, Goes, Fails
<1>13. CASE Begin \/ DeriveHostname \/ LaunchAgent \/ GivesUpPolling
  BY <1>2, <1>13 DEF Begin, DeriveHostname, LaunchAgent, GivesUpPolling, PollTimesOut, Goes, Fails
<1>14. CASE CallFails \/ Gone \/ PickDockerNetwork \/ FindSelfPeer
  BY <1>2, <1>14 DEF CallFails, Gone, PickDockerNetwork, FindSelfPeer, Goes, Fails
<1>15. CASE AgentStep \/ Registers \/ UNCHANGED bootstrapVars
  BY <1>4, <1>15 DEF AgentStep, Registers, bootstrapVars, provisionerVars, local, scaffold
<1>16. CASE PeopleStep
  BY <1>3, <1>16 DEF PeopleStep, PeopleChange
<1>17. CASE Exits \/ Crashes
  BY <1>2, <1>17 DEF Exits, Crashes, Relaunch
<1> QED
  BY <1>5, <1>6, <1>7, <1>8, <1>9, <1>10, <1>11, <1>12, <1>13, <1>14, <1>15, <1>16, <1>17
  DEF BootstrapNext, MainStep, RunProvisioner, Provision

\* Nothing has been placed when the bootstrap begins.
LEMMA UndisturbedInit == BootstrapInit => Undisturbed
BY DEF BootstrapInit, ProvisionerInit, Undisturbed, Placed, Filled, Polled, Picked, CallPhases

\* The peers that earlier runs left are strangers to the names of ours.
LEMMA OurselvesInit == NoTwin /\ BootstrapInit => Ourselves
<1> SUFFICES ASSUME NoTwin, BootstrapInit
             PROVE  Ourselves
  OBVIOUS
<1>1. at = "begin"
  BY DEF BootstrapInit, ProvisionerInit
<1>2. PICK old \in Remains \cup {Nowhere} : peers = old.peers
  BY DEF BootstrapInit, ProvisionerInit
<1>3. Strangers(peers)
  BY <1>2 DEF NoTwin, Nowhere, Strangers
<1> QED
  BY <1>1, <1>3 DEF Ourselves, Picked, Polled, CallPhases

\* When bootstrap is done and people have changed nothing since it began, the
\* resource it hands to the reconciler is one for the subnet of our docker
\* network, and our own peer is a router of its network that is on.  Nobody
\* else's peer may have the name that our agent registers with: that is what
\* the violation of RoutedByOurselves is about.
THEOREM OwnPeerIsRouter == NoTwin => (BootstrapSpec => []OwnPeerRoutes)
<1>1. Typed /\ Undisturbed /\ Ourselves /\ [BootstrapNext]_bootstrapVars
        => (Typed /\ Undisturbed /\ Ourselves)'
  BY TypedKept, UndisturbedKept, OurselvesKept
<1>2. ASSUME Typed, Undisturbed, Ourselves
      PROVE  OwnPeerRoutes
  <2> SUFFICES ASSUME at \in {"provisioned", "running"}, ~touched
               PROVE  /\ found.res \in DOMAIN resources
                      /\ resources[found.res].address = Subnet[found.docker]
                      /\ Pickable(found.docker)
                      /\ \E r \in DOMAIN routers :
                           routers[r] = [net |-> resources[found.res].net, peer |-> Self,
                                         enabled |-> TRUE]
    BY DEF OwnPeerRoutes
  <2>1. at \in Picked /\ at \in Polled /\ at \in Filled
    BY DEF Picked, Polled, Placed, Filled, CallPhases
  <2>2. Pickable(found.docker) /\ found.self = Self
    BY <1>2, <2>1 DEF Typed, FoundOK, Ourselves
  <2>3. found.res \in ResourcesHere
    BY <1>2, <2>1 DEF Undisturbed
  <2>4. PICK r \in RoutersHere : Serves(r)
    BY <1>2, <2>1 DEF Undisturbed
  <2>5. r \in DOMAIN routers /\ routers[r] \in RouterType(IdSet)
    BY <1>2, <2>4, TypedParts DEF ServerTyped, RoutersHere
  <2>6. routers[r].net = found.net /\ routers[r].peer = Self /\ routers[r].enabled = TRUE
    BY <2>2, <2>4, <2>5 DEF RoutersHere, Serves, RouterType
  <2>7. routers[r] = [net |-> found.net, peer |-> Self, enabled |-> TRUE]
    BY <2>5, <2>6 DEF RouterType
  <2> QED
    BY <2>2, <2>3, <2>5, <2>7 DEF ResourcesHere
<1> QED
  BY <1>1, <1>2, TypedInit, UndisturbedInit, OurselvesInit, PTL DEF BootstrapSpec

-----------------------------------------------------------------------------
(* A second bootstrap                                                      *)

\* Steps of a complete controller leave the server alone, if people do.
LEMMA CompleteSteps ==
    ASSUME StillComplete, Unambiguous, complete, complete', [BootstrapNext]_bootstrapVars
    PROVE  UNCHANGED scaffold
<1>1. at \notin {"newNetwork", "newResource", "newRouter", "enable"}
  BY DEF StillComplete
<1>2. ~CreateNetwork /\ ~CreateResource /\ ~CreateRouter /\ ~EnableRouter
  BY <1>1 DEF CreateNetwork, CreateResource, CreateRouter, EnableRouter
<1>3. ~PeopleChange
  BY DEF PeopleChange
<1> QED
  BY <1>2, <1>3, ServerSteps

\* Only people take a network away that has the name of another.
LEMMA StaysAmbiguous ==
    ASSUME ServerTyped, complete', Unambiguous', [BootstrapNext]_bootstrapVars
    PROVE  Unambiguous
<1>1. ~PeopleChange
  BY DEF PeopleChange
<1>2. CASE networks' = networks
  BY <1>2 DEF Unambiguous
<1>3. CASE CreateNetwork
  <2>1. networks' = Add(networks, NetworkName) /\ NewId \notin DOMAIN networks
    BY <1>3, NewIds DEF CreateNetwork, ServerTyped
  <2>2. /\ DOMAIN networks \subseteq DOMAIN networks'
        /\ \A i \in DOMAIN networks : networks'[i] = networks[i]
    BY <2>1 DEF Add
  <2> QED
    BY <2>2 DEF Unambiguous
<1> QED
  BY <1>1, <1>2, <1>3, ServerSteps DEF scaffold, CreateResource, CreateRouter, EnableRouter

\* The routing peers on the server are those that the provisioner has made.
LEMMA OwnRoutersKept ==
    ASSUME OwnRouters, [BootstrapNext]_bootstrapVars
    PROVE  OwnRouters'
<1> USE DEF OwnRouters
<1>1. CASE UNCHANGED scaffold
  BY <1>1 DEF scaffold
<1>2. CASE CreateNetwork \/ CreateResource
  BY <1>2 DEF CreateNetwork, CreateResource, Creates
<1>3. CASE CreateRouter
  BY <1>3 DEF CreateRouter, Creates, Add
<1>4. CASE EnableRouter
  BY <1>4 DEF EnableRouter
<1>5. CASE PeopleChange
  <2>1. DOMAIN routers' \subseteq DOMAIN routers
    BY <1>5 DEF PeopleChange, Change, Toggle, Keep
  <2> QED
    BY <1>5, <2>1 DEF PeopleChange
<1> QED
  BY <1>1, <1>2, <1>3, <1>4, <1>5, ServerSteps

\* So there is one for a network and a peer at most, and if it is on, all are.
LEMMA OneRouter ==
    ASSUME OwnRouters, ProvisionedOnce, NEW i \in RoutersHere, NEW j \in RoutersHere
    PROVE  i = j
BY DEF OwnRouters, ProvisionedOnce, RoutersHere

\* There is one docker network to operate on at most.
LEMMA PickableOne ==
    ASSUME NEW a, NEW b, Pickable(a), Pickable(b)
    PROVE  a = b
BY DEF Pickable

\* A bootstrap is complete only when it is done.
LEMMA CompleteWhen ==
    ASSUME [BootstrapNext]_bootstrapVars, complete', ~complete
    PROVE  SetNetworkProvision
<1>1. CASE Begin \/ DeriveHostname \/ LaunchAgent \/ GivesUpPolling
  BY <1>1 DEF Begin, DeriveHostname, LaunchAgent, GivesUpPolling, PollTimesOut, Quiet
<1>2. CASE CallFails \/ Gone \/ PickDockerNetwork \/ FindSelfPeer
  BY <1>2 DEF CallFails, Gone, PickDockerNetwork, FindSelfPeer, Quiet
<1>3. CASE ListNetworks \/ ListResources \/ ListRouters
  BY <1>3 DEF ListNetworks, ListResources, ListRouters, Quiet
<1>4. CASE CreateNetwork \/ CreateResource \/ CreateRouter \/ EnableRouter
  BY <1>4 DEF CreateNetwork, CreateResource, CreateRouter, EnableRouter, Creates
<1>5. CASE AgentStep \/ Registers \/ UNCHANGED bootstrapVars
  BY <1>5 DEF AgentStep, Registers, bootstrapVars, provisionerVars
<1>6. CASE PeopleStep \/ Exits \/ Crashes
  BY <1>6 DEF PeopleStep, PeopleChange, Exits, Crashes, Relaunch
<1> QED
  BY <1>1, <1>2, <1>3, <1>4, <1>5, <1>6 DEF BootstrapNext, MainStep, RunProvisioner, Provision

\* What the process sees, once it has picked the docker network.
LEMMA HereIs ==
    /\ NetworksHere = NetworksOf(found.docker)
    /\ ResourcesHere = ResourcesOf(found.net, found.docker)
    /\ RoutersHere = RoutersOf(found.net, found.self)
BY DEF NetworksHere, NetworksOf, NetworkName, ResourcesHere, ResourcesOf, RoutersHere, RoutersOf

\* Where a complete controller gets to from its lists.
LEMMA CompleteLooks ==
    ASSUME Typed, Ourselves, StillComplete, Unambiguous, complete,
           ListNetworks \/ ListResources \/ ListRouters
    PROVE  /\ at' \notin {"newNetwork", "newResource", "newRouter", "enable"}
           /\ at' \in {"resources", "routers"} => found'.net \in NetworksHere
           /\ found'.docker = found.docker
<1>1. found \in FoundType
  BY TypedParts DEF FoundOK
<1>2. at \in Picked /\ at # "poll" /\ at \in {"networks", "resources", "routers"}
  BY DEF ListNetworks, ListResources, ListRouters, Picked, CallPhases
<1>3. Pickable(found.docker) /\ found.self = Self
  BY <1>2 DEF Typed, FoundOK, Ourselves, Polled
<1>4. PICK d \in DOMAIN Subnet, n \in DOMAIN networks : Pickable(d) /\ Stands(d, n)
  BY DEF StillComplete
<1>5. d = found.docker
  BY <1>3, <1>4, PickableOne
<1>6. n \in NetworksHere
  BY <1>4, <1>5, HereIs DEF Stands
<1>7. CASE ListNetworks
  <2>1. NetworksHere # {}
    BY <1>6
  <2> QED
    BY <1>1, <1>7, <2>1 DEF ListNetworks, Goes, FoundType
<1>8. CASE ListResources
  <2>1. found.net \in NetworksHere
    BY <1>8 DEF StillComplete, ListResources
  <2>2. found.net = n
    BY <1>6, <2>1 DEF Unambiguous, NetworksHere
  <2>3. ResourcesHere # {}
    BY <1>4, <1>5, <2>2, HereIs DEF Stands
  <2> QED
    BY <1>1, <1>8, <2>1, <2>3 DEF ListResources, Goes, FoundType
<1>9. CASE ListRouters
  <2>1. found.net \in NetworksHere
    BY <1>9 DEF StillComplete, ListRouters
  <2>2. found.net = n
    BY <1>6, <2>1 DEF Unambiguous, NetworksHere
  <2>3. RoutersHere # {} /\ \A r \in RoutersHere : Serves(r)
    BY <1>3, <1>4, <2>2, HereIs DEF Stands
  <2>4. Goes("provisioned", found)
    BY <1>9, <2>3 DEF ListRouters
  <2> QED
    BY <2>4 DEF Goes
<1> QED
  BY <1>7, <1>8, <1>9

\* Elsewhere it does not come to a phase where it would need to know more.
LEMMA OtherSteps ==
    ASSUME [BootstrapNext]_bootstrapVars,
           at' \in {"newNetwork", "newResource", "newRouter", "enable", "resources", "routers"}
    PROVE  \/ UNCHANGED <<at, found>>
           \/ ListNetworks \/ ListResources \/ ListRouters
           \/ CreateNetwork \/ CreateResource \/ CreateRouter
<1>1. CASE Begin \/ DeriveHostname \/ LaunchAgent \/ SetNetworkProvision \/ GivesUpPolling
  BY <1>1 DEF Begin, DeriveHostname, LaunchAgent, SetNetworkProvision, GivesUpPolling, PollTimesOut,
     Goes, Fails
<1>2. CASE CallFails \/ Gone \/ PickDockerNetwork \/ FindSelfPeer \/ EnableRouter
  BY <1>2 DEF CallFails, Gone, PickDockerNetwork, FindSelfPeer, EnableRouter, Answered, Goes, Fails
<1>3. CASE AgentStep \/ Registers \/ PeopleStep \/ UNCHANGED bootstrapVars
  BY <1>3 DEF AgentStep, Registers, PeopleStep, PeopleChange, bootstrapVars, provisionerVars, local
<1>4. CASE Exits \/ Crashes
  BY <1>4 DEF Exits, Crashes, Relaunch
<1> QED
  BY <1>1, <1>2, <1>3, <1>4 DEF BootstrapNext, MainStep, RunProvisioner, Provision

\* What stands on the server stands there while nothing changes.
LEMMA StandsOn ==
    ASSUME UNCHANGED <<setup, networks, resources, routers>>,
           NEW d \in DOMAIN Subnet, NEW n \in DOMAIN networks, Pickable(d), Stands(d, n)
    PROVE  (\E e \in DOMAIN Subnet : Pickable(e) /\ \E m \in DOMAIN networks : Stands(e, m))'
<1>1. Pickable(d)' /\ Stands(d, n)'
  BY DEF Pickable, Inspected, Candidates, SelfContainerID, Stands, NetworksOf, ResourcesOf, RoutersOf,
     Serves
<1> QED
  BY <1>1

\* What a complete run left is found again by every phase of the next one, so
\* that no phase creates anything.
LEMMA CompleteKept ==
    ASSUME Typed, Undisturbed, Ourselves, ProvisionedOnce, OwnRouters, StillComplete,
           [BootstrapNext]_bootstrapVars
    PROVE  StillComplete'
<1>1. setup' = setup /\ ServerTyped /\ found \in FoundType
  BY SetupStays, TypedParts DEF FoundOK
<1>2. CASE ~complete' \/ ~Unambiguous'
  BY <1>2 DEF StillComplete
<1>3. CASE complete' /\ ~complete
  <2>1. SetNetworkProvision
    BY <1>3, CompleteWhen
  <2>2. /\ at = "provisioned" /\ at' = "running" /\ ~touched
        /\ UNCHANGED <<found, networks, resources, routers>>
    BY <1>3, <2>1 DEF SetNetworkProvision, Goes, scaffold
  <2>3. at \in Picked /\ at \in Polled /\ at \in Placed /\ at \in Filled
    BY <2>2 DEF Picked, Polled, Placed, Filled, CallPhases
  <2> DEFINE d == found.docker
             n == found.net
  <2>4. d \in DOMAIN Subnet /\ Pickable(d) /\ found.self = Self
    BY <2>3 DEF Typed, FoundOK, Ourselves
  <2>5. /\ n \in NetworksHere /\ found.res \in ResourcesHere
        /\ \E r \in RoutersHere : Serves(r)
    BY <2>2, <2>3 DEF Undisturbed
  <2>6. \A r \in RoutersHere : Serves(r)
    BY <2>5, OneRouter
  <2>7. Stands(d, n) /\ n \in DOMAIN networks
    BY <2>4, <2>5, <2>6, HereIs DEF Stands, NetworksHere
  <2>8. (\E e \in DOMAIN Subnet : Pickable(e) /\ \E m \in DOMAIN networks : Stands(e, m))'
    BY <1>1, <2>2, <2>4, <2>7, StandsOn
  <2> QED
    BY <2>2, <2>8 DEF StillComplete
<1>4. CASE complete' /\ complete /\ Unambiguous'
  <2>1. Unambiguous
    BY <1>1, <1>4, StaysAmbiguous
  <2>2. UNCHANGED <<networks, resources, routers>>
    BY <1>4, <2>1, CompleteSteps DEF scaffold
  <2>3. (\E e \in DOMAIN Subnet : Pickable(e) /\ \E m \in DOMAIN networks : Stands(e, m))'
    BY <1>1, <1>4, <2>1, <2>2, StandsOn DEF StillComplete
  <2>4. /\ at' \notin {"newNetwork", "newResource", "newRouter", "enable"}
        /\ at' \in {"resources", "routers"} =>
              found'.net \in NetworksHere /\ found'.docker = found.docker
    <3>1. CASE UNCHANGED <<at, found>>
      BY <1>4, <2>1, <3>1 DEF StillComplete
    <3>2. CASE ListNetworks \/ ListResources \/ ListRouters
      BY <1>4, <2>1, <3>2, CompleteLooks
    <3>3. ~CreateNetwork /\ ~CreateResource /\ ~CreateRouter
      BY <1>4, <2>1 DEF StillComplete, CreateNetwork, CreateResource, CreateRouter
    <3> QED
      BY <3>1, <3>2, <3>3, OtherSteps
  <2>5. at' \in {"resources", "routers"} => found'.net \in NetworksHere'
    BY <1>1, <2>2, <2>4 DEF NetworksHere, NetworkName
  <2> QED
    BY <2>3, <2>4, <2>5 DEF StillComplete
<1> QED
  BY <1>2, <1>3, <1>4

\* provisioner.go:27, "All operations are idempotent": once a bootstrap was
\* complete, for as long as people change nothing, and unless they have made
\* two networks of one name before, no other bootstrap, be it after a crash or
\* an exit, creates or enables anything, in whatever order the server lists.
THEOREM BootstrapIdempotent == NoTwin => (BootstrapSpec => Idempotent)
<1> DEFINE Once == Typed /\ NoneAlike /\ ProvisionedOnce /\ OwnRouters
           I == Once /\ Undisturbed /\ Ourselves /\ StillComplete
<1>1. NoTwin /\ BootstrapInit => I
  <2>1. BootstrapInit => StillComplete
    BY DEF BootstrapInit, ProvisionerInit, StillComplete
  <2>2. ASSUME BootstrapInit PROVE OwnRouters
    <3>1. PICK old \in Remains \cup {Nowhere} :
             routers = old.routers /\ objects = old.objects /\ made = 1 .. old.objects
      BY <2>2 DEF BootstrapInit, ProvisionerInit
    <3>2. DOMAIN routers \subseteq IdSet
      BY <2>2, TypedInit, TypedParts DEF ServerTyped
    <3> QED
      BY <3>1, <3>2 DEF OwnRouters, IdSet
  <2> QED
    BY <2>1, <2>2, TypedInit, OnceInit, UndisturbedInit, OurselvesInit
<1>2. I /\ [BootstrapNext]_bootstrapVars => I'
  <2>1. Once /\ [BootstrapNext]_bootstrapVars => Once'
    BY TypedKept, NoneAlikeKept, OnceKept, OwnRoutersKept
  <2> QED
    BY <2>1, UndisturbedKept, OurselvesKept, CompleteKept
<1>3. I /\ [BootstrapNext]_bootstrapVars
        => [complete /\ complete' /\ Unambiguous => UNCHANGED scaffold]_provisionerVars
  BY CompleteSteps
<1> QED
  BY <1>1, <1>2, <1>3, PTL DEF BootstrapSpec, Idempotent

=============================================================================
