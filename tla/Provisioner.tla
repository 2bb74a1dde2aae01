----------------------------- MODULE Provisioner ----------------------------
(***************************************************************************)
(* What target_mode=network needs on the NetBird server, and how it comes  *)
(* about, internal/controller/provisioner.go: a network, in it a resource  *)
(* for the subnet of the docker network, and a router that is our own      *)
(* peer.  Each is looked for in a list and created if it is not there, in  *)
(* calls of their own, any of which may fail before or after the server    *)
(* has carried it out.  What the container is attached to is read from the *)
(* docker daemon, internal/docker/watcher.go.                              *)
(***************************************************************************)
EXTENDS Integers, FiniteSets, Strings

CONSTANTS
    Setups,        \* how a controller may be deployed, see SetupType
    Attached,      \* container id -> the docker networks it has an address in
    Subnet,        \* docker network -> its first subnet, or NoText
    HexIds,        \* host names that are 12 or more hexadecimal digits
    Self,          \* the peer of our agent
    OtherPeers,    \* peer id -> [hostname, name], the peers of others
    Remains,       \* what earlier bootstraps may have left, see Nowhere
    MaxErrors,     \* bound: failed calls
    MaxChanges     \* bound: what people change on the server

DefaultNetworks == {"bridge", "host", "none"}

\* The settings, what the files and the host name tell of the container, and
\* whether it has the agent's binary.
SetupType ==
    [targetMode : {"host", "network"}, setupKey : BOOLEAN, disableAgent : BOOLEAN,
     dockerNetwork : Text, networkName : Text, peerHostname : Text,
     mountinfo : Text, cgroup : Text, hostname : Text, binary : BOOLEAN]

PeerType == [hostname : Text, name : Text]
ResourceType(ids) == [net : ids, address : Text, enabled : BOOLEAN]
RouterType(ids) == [net : ids, peer : Text, enabled : BOOLEAN]

ASSUME ProvisionerAssumption ==
    /\ Setups \subseteq SetupType
    /\ Attached \in [DOMAIN Attached -> SUBSET DOMAIN Subnet]
    /\ Subnet \in [DOMAIN Subnet -> Text]
    /\ HexIds \cup DOMAIN Attached \cup DOMAIN Subnet \cup DefaultNetworks \subseteq Text
    /\ Self \in Text \ (DOMAIN OtherPeers \cup {NoText})
    /\ DOMAIN OtherPeers \subseteq Text
    /\ OtherPeers \in [DOMAIN OtherPeers -> PeerType]
    /\ MaxErrors \in Nat /\ MaxChanges \in Nat

\* What may be on the server: an id is that of one object, and what earlier
\* bootstraps have made has no double.
ServerOK(s) ==
    LET ids == 1 .. s.objects
    IN  /\ s.objects \in Nat
        /\ DOMAIN s.peers \subseteq Text /\ s.peers \in [DOMAIN s.peers -> PeerType]
        /\ s.networks \in [DOMAIN s.networks -> Text]
        /\ s.resources \in [DOMAIN s.resources -> ResourceType(ids)]
        /\ s.routers \in [DOMAIN s.routers -> RouterType(ids)]
        /\ DOMAIN s.networks \cup DOMAIN s.resources \cup DOMAIN s.routers \subseteq ids
        /\ DOMAIN s.networks \cap DOMAIN s.resources = {}
        /\ DOMAIN s.routers \cap (DOMAIN s.networks \cup DOMAIN s.resources) = {}
        /\ \A i, j \in DOMAIN s.networks : s.networks[i] = s.networks[j] => i = j
        /\ \A i, j \in DOMAIN s.resources :
             s.resources[i].net = s.resources[j].net
                 /\ s.resources[i].address = s.resources[j].address => i = j
        /\ \A i, j \in DOMAIN s.routers :
             s.routers[i].net = s.routers[j].net /\ s.routers[i].peer = s.routers[j].peer => i = j

ASSUME RemainsAssumption == \A old \in Remains : ServerOK(old)

VARIABLES
    setup,      \* how this controller is deployed
    at,         \* where the bootstrap is
    found,      \* what it has found so far
    peers,      \* peer id -> [hostname, name], on the server
    networks,   \* id -> name
    resources,  \* id -> [net, address, enabled]
    routers,    \* id -> [net, peer, enabled]
    objects,    \* ids given away, the three collections together
    errors,     \* failed calls so far
    changes,    \* changes that people have made
    made,       \* history: the ids of what the provisioner has created
    touched,    \* history: people have changed something since the start
    complete    \* history: nothing has changed since a bootstrap was complete

scaffold == <<networks, resources, routers, objects, made>>
local == <<at, found>>
provisionerVars ==
    <<setup, local, peers, scaffold, errors, changes, touched, complete>>

NoId == 0

Nothing == [peerName |-> NoText, docker |-> NoText, self |-> NoText,
            net |-> NoId, res |-> NoId, router |-> NoId]

\* The server before the first bootstrap.
Nowhere == [peers |-> OtherPeers, networks |-> [i \in {} |-> {}],
            resources |-> [i \in {} |-> {}], routers |-> [i \in {} |-> {}], objects |-> 0]

\* Or a later one: of what is there, the provisioner has made everything.
ProvisionerInit ==
    /\ setup \in Setups
    /\ at = "begin"
    /\ found = Nothing
    /\ \E old \in Remains \cup {Nowhere} :
         /\ peers = old.peers
         /\ networks = old.networks
         /\ resources = old.resources
         /\ routers = old.routers
         /\ objects = old.objects
         /\ made = 1 .. old.objects
    /\ errors = 0 /\ changes = 0
    /\ touched = FALSE /\ complete = FALSE

-----------------------------------------------------------------------------
(* The container that we are in                                            *)

SelfContainerID ==
    CASE setup.mountinfo # NoText -> setup.mountinfo
      [] setup.mountinfo = NoText /\ setup.cgroup # NoText -> setup.cgroup
      [] OTHER -> IF setup.hostname \in HexIds THEN setup.hostname ELSE NoText

\* There is a container of this id; without one, Inspect answers nil and no
\* error, with no id at all InspectSelf is an error.
Inspected == SelfContainerID \in DOMAIN Attached

Candidates == Attached[SelfContainerID] \ DefaultNetworks

\* Of the networks that we could operate on, exactly one.
Pickable(net) ==
    /\ Inspected
    /\ IF setup.dockerNetwork # NoText
       THEN net = setup.dockerNetwork /\ net \in Attached[SelfContainerID]
       ELSE Candidates = {net}

-----------------------------------------------------------------------------
(* Calls                                                                   *)

Goes(phase, what) ==
    /\ at' = phase
    /\ found' = what

Fails == Goes("failed", found)

Quiet == UNCHANGED <<setup, peers, scaffold, errors, changes, touched, complete>>

CallPhases ==
    {"pick", "poll", "networks", "newNetwork", "resources", "newResource",
     "routers", "newRouter", "enable"}

\* A call that is not carried out: bootstrap does not try again.
CallFails ==
    /\ at \in CallPhases
    /\ errors < MaxErrors
    /\ errors' = errors + 1
    /\ Fails
    /\ UNCHANGED <<setup, peers, scaffold, changes, touched, complete>>

\* A request that the server has carried out; its answer may be lost.
Answered(phase, what) ==
    \/ Goes(phase, what) /\ UNCHANGED errors
    \/ Fails /\ errors < MaxErrors /\ errors' = errors + 1

\* What the request is about may have been deleted since it was listed.
Gone ==
    /\ IF at = "enable" THEN found.router \notin DOMAIN routers
       ELSE /\ at \in {"resources", "newResource", "routers", "newRouter"}
            /\ found.net \notin DOMAIN networks
    /\ Fails
    /\ Quiet

-----------------------------------------------------------------------------
(* Provision                                                               *)

PickDockerNetwork ==
    /\ at = "pick"
    /\ \/ \E net \in DOMAIN Subnet :
            /\ Pickable(net)
            /\ Subnet[net] # NoText
            /\ Goes("poll", [found EXCEPT !.docker = net])
       \/ /\ \A net \in DOMAIN Subnet : Pickable(net) => Subnet[net] = NoText
          /\ Fails
    /\ Quiet

\* Seeded fault: a peer is known by its name only, which people may change.
SelfPeers_ByName == {p \in DOMAIN peers : peers[p].name = found.peerName}

SelfPeers ==
    {p \in DOMAIN peers : found.peerName \in {peers[p].hostname, peers[p].name}}

\* One round of findSelfPeer; of several matches, the first that is listed.
\* Nothing tells in which order the server lists what it has, here and below.
FindSelfPeer ==
    /\ at = "poll"
    /\ \E p \in SelfPeers : Goes("networks", [found EXCEPT !.self = p])
    /\ Quiet

\* Nobody of that name in a minute of polling.  (Not in Provision: what has
\* happened within that minute is for module Bootstrap to say.)
PollTimesOut ==
    /\ at = "poll"
    /\ SelfPeers = {}
    /\ Fails
    /\ Quiet

NewId == objects + 1

Add(f, value) == [i \in DOMAIN f \cup {NewId} |-> IF i = NewId THEN value ELSE f[i]]

NetworkName == IF setup.networkName = NoText THEN found.docker ELSE setup.networkName

\* Seeded fault: the network is created under the name of the settings and
\* looked for under that of the docker network.
NetworksHere_ByDockerName == {i \in DOMAIN networks : networks[i] = found.docker}

NetworksHere == {i \in DOMAIN networks : networks[i] = NetworkName}

\* Seeded fault: a resource that is off is no match.
ResourcesHere_Enabled ==
    {i \in DOMAIN resources :
        resources[i] = [net |-> found.net, address |-> Subnet[found.docker], enabled |-> TRUE]}

\* A resource that people have switched off is taken as it is.
ResourcesHere ==
    {i \in DOMAIN resources :
        resources[i].net = found.net /\ resources[i].address = Subnet[found.docker]}

RoutersHere ==
    {i \in DOMAIN routers : routers[i].net = found.net /\ routers[i].peer = found.self}

\* The object that is listed, else the request that creates it.
ListNetworks ==
    /\ at = "networks"
    /\ \/ NetworksHere = {} /\ Goes("newNetwork", found)
       \/ \E i \in NetworksHere : Goes("resources", [found EXCEPT !.net = i])
    /\ Quiet

ListResources ==
    /\ at = "resources"
    /\ found.net \in DOMAIN networks
    /\ \/ ResourcesHere = {} /\ Goes("newResource", found)
       \/ \E i \in ResourcesHere : Goes("routers", [found EXCEPT !.res = i])
    /\ Quiet

\* Seeded fault: a router that is off is as good as one that is on.
Serves_Always(i) == TRUE

Serves(i) == routers[i].enabled

ListRouters ==
    /\ at = "routers"
    /\ found.net \in DOMAIN networks
    /\ \/ RoutersHere = {} /\ Goes("newRouter", found)
       \/ \E i \in RoutersHere :
            IF Serves(i) THEN Goes("provisioned", found)
            ELSE Goes("enable", [found EXCEPT !.router = i])
    /\ Quiet

Creates ==
    /\ objects' = NewId
    /\ made' = made \cup {NewId}
    /\ UNCHANGED <<setup, peers, changes, touched, complete>>

CreateNetwork ==
    /\ at = "newNetwork"
    /\ networks' = Add(networks, NetworkName)
    /\ Answered("resources", [found EXCEPT !.net = NewId])
    /\ Creates
    /\ UNCHANGED <<resources, routers>>

CreateResource ==
    /\ at = "newResource"
    /\ found.net \in DOMAIN networks
    /\ resources' = Add(resources, [net |-> found.net, address |-> Subnet[found.docker],
                                    enabled |-> TRUE])
    /\ Answered("routers", [found EXCEPT !.res = NewId])
    /\ Creates
    /\ UNCHANGED <<networks, routers>>

CreateRouter ==
    /\ at = "newRouter"
    /\ found.net \in DOMAIN networks
    /\ routers' = Add(routers, [net |-> found.net, peer |-> found.self, enabled |-> TRUE])
    /\ Answered("provisioned", found)
    /\ Creates
    /\ UNCHANGED <<networks, resources>>

EnableRouter ==
    /\ at = "enable"
    /\ found.router \in DOMAIN routers
    /\ routers' = [routers EXCEPT ![found.router].enabled = TRUE]
    /\ Answered("provisioned", found)
    /\ UNCHANGED <<setup, peers, networks, resources, objects, changes, made, touched, complete>>

Provision ==
    \/ CallFails \/ Gone
    \/ PickDockerNetwork \/ FindSelfPeer
    \/ ListNetworks \/ CreateNetwork
    \/ ListResources \/ CreateResource
    \/ ListRouters \/ CreateRouter \/ EnableRouter

-----------------------------------------------------------------------------
(* People                                                                  *)

Keep(f, ids) == [i \in DOMAIN f \cap ids |-> f[i]]

Toggle(f, i) == [f EXCEPT ![i].enabled = ~f[i].enabled]

NetworkNames == ({setup.networkName} \cup DOMAIN Subnet) \ {NoText}

\* They create a network of the name in question or a resource in one that is
\* there, delete anything, and switch resources and routers off and on.
Change ==
    \/ /\ objects' = NewId
       /\ \/ /\ \E name \in NetworkNames : networks' = Add(networks, name)
             /\ UNCHANGED resources
          \/ /\ \E net \in DOMAIN networks, docker \in DOMAIN Subnet :
                  resources' = Add(resources, [net |-> net, address |-> Subnet[docker],
                                               enabled |-> TRUE])
             /\ UNCHANGED networks
       /\ UNCHANGED routers
    \/ /\ \E i \in DOMAIN resources :
            resources' \in {Toggle(resources, i), Keep(resources, DOMAIN resources \ {i})}
       /\ UNCHANGED <<networks, routers, objects>>
    \/ /\ \E i \in DOMAIN routers :
            routers' \in {Toggle(routers, i), Keep(routers, DOMAIN routers \ {i})}
       /\ UNCHANGED <<networks, resources, objects>>
    \/ /\ \E i \in DOMAIN networks :
            /\ networks' = Keep(networks, DOMAIN networks \ {i})
            /\ resources' = Keep(resources, {r \in DOMAIN resources : resources[r].net # i})
            /\ routers' = Keep(routers, {r \in DOMAIN routers : routers[r].net # i})
       /\ UNCHANGED objects

PeopleChange ==
    /\ changes < MaxChanges
    /\ changes' = changes + 1
    /\ Change
    /\ touched' = TRUE
    /\ complete' = FALSE
    /\ UNCHANGED <<setup, local, peers, errors, made>>

-----------------------------------------------------------------------------
(* Properties                                                              *)

ProvisionPhases == CallPhases \cup {"failed", "provisioned"}

IdSet == 1 .. objects

\* The types; an id is that of one object, and the ids that are handed on are
\* of the kind they are meant to be.
ProvisionerTypeOK ==
    /\ setup \in Setups
    /\ peers \in [DOMAIN peers -> PeerType]
    /\ networks \in [DOMAIN networks -> Text]
    /\ resources \in [DOMAIN resources -> ResourceType(IdSet)]
    /\ routers \in [DOMAIN routers -> RouterType(IdSet)]
    /\ DOMAIN networks \cup DOMAIN resources \cup DOMAIN routers \subseteq IdSet
    /\ DOMAIN networks \cap (DOMAIN resources \cup {found.res, found.router}) = {}
    /\ DOMAIN routers \cap (DOMAIN networks \cup DOMAIN resources \cup {found.net, found.res}) = {}
    /\ made \subseteq IdSet
    /\ objects \in Nat /\ errors \in Nat /\ changes \in Nat
    /\ touched \in BOOLEAN /\ complete \in BOOLEAN

\* However often bootstrap fails, dies half way or loses an answer, and is
\* run again: of what it has created there are never two alike.
ProvisionedOnce ==
    \A i, j \in made : i # j =>
        /\ {i, j} \subseteq DOMAIN networks  => networks[i] # networks[j]
        /\ {i, j} \subseteq DOMAIN resources =>
              <<resources[i].net, resources[i].address>> # <<resources[j].net, resources[j].address>>
        /\ {i, j} \subseteq DOMAIN routers   =>
              <<routers[i].net, routers[i].peer>> # <<routers[j].net, routers[j].peer>>

\* No two networks have one name.
Unambiguous == \A i, j \in DOMAIN networks : networks[i] = networks[j] => i = j

\* provisioner.go:27: "All operations are idempotent".  After a bootstrap that
\* was complete, and as long as people change nothing, another one requests
\* nothing.  Not so if people have made two networks of one name: the code takes
\* the one that is listed first, which may be another one each time.
Idempotent ==
    [][complete /\ complete' /\ Unambiguous => UNCHANGED scaffold]_provisionerVars

\* provisioner.go:25: when bootstrap is done and people have changed nothing
\* since it began, the resource it hands to the reconciler is one for the
\* subnet of our docker network, and in its network our own peer is a router
\* that is on.
OwnPeerRoutes ==
    at \in {"provisioned", "running"} /\ ~touched =>
        /\ found.res \in DOMAIN resources
        /\ resources[found.res].address = Subnet[found.docker]
        /\ Pickable(found.docker)
        /\ \E r \in DOMAIN routers :
             routers[r] = [net |-> resources[found.res].net, peer |-> Self, enabled |-> TRUE]

=============================================================================
