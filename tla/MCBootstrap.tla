----------------------------- MODULE MCBootstrap ----------------------------
(* Instances of module Bootstrap for TLC: settings with which a controller  *)
(* can come up, and such with which it cannot.                             *)
EXTENDS Bootstrap, TLC

MCText == STRING

\* A container in one network, one in two, and one in the default one only.
MCAttached ==
    "c0ffee" :> {"bridge", "front"} @@ "decade" :> {"front", "back"} @@ "facade" :> {"bridge"}

MCSubnet == "front" :> "172.20.0.0/16" @@ "back" :> "" @@ "bridge" :> "172.17.0.0/16"

MCAviaryName ==
    "front" :> "aviary-front" @@ "back" :> "aviary-back" @@
    "bridge" :> "aviary-bridge" @@ "gone" :> "aviary-gone"

Auto ==
    [targetMode |-> "network", setupKey |-> TRUE, disableAgent |-> FALSE,
     dockerNetwork |-> "", networkName |-> "", peerHostname |-> "",
     mountinfo |-> "", cgroup |-> "c0ffee", hostname |-> "", binary |-> TRUE]

Explicit ==
    [Auto EXCEPT !.targetMode = "host", !.dockerNetwork = "front", !.networkName = "Home",
                 !.cgroup = "", !.mountinfo = "decade", !.hostname = "c0ffee"]

External ==
    [Auto EXCEPT !.setupKey = FALSE, !.disableAgent = TRUE, !.peerHostname = "edge",
                 !.cgroup = "", !.hostname = "c0ffee", !.binary = FALSE]

\* Without network mode, a key, a binary, an id, a known container, one network, an
\* attached network, a subnet, or any network of its own.
Hopeless ==
    {[Auto EXCEPT !.targetMode = "host", !.setupKey = FALSE],
     [Auto EXCEPT !.setupKey = FALSE],
     [Auto EXCEPT !.binary = FALSE],
     [Auto EXCEPT !.cgroup = "", !.hostname = "box"],
     [Auto EXCEPT !.cgroup = "abad1dea"],
     [Auto EXCEPT !.cgroup = "decade"],
     [Auto EXCEPT !.dockerNetwork = "gone"],
     [Auto EXCEPT !.cgroup = "decade", !.dockerNetwork = "back"],
     [Auto EXCEPT !.cgroup = "facade"]}

MCSetups == {Auto, Explicit, External} \cup Hopeless

MCOtherPeers == "other" :> [hostname |-> "other", name |-> "other"]

\* A second host that runs the same compose project.
TwinPeers == "twin" :> [hostname |-> "aviary-front", name |-> "aviary-front"]

TwinSetups == {Auto}

\* What Auto leaves, when people have switched off its resource and router.
MCRemains ==
    {[peers     |-> "ourselves" :> [hostname |-> "aviary-front", name |-> "renamed"] @@ MCOtherPeers,
      networks  |-> 1 :> "front",
      resources |-> 2 :> [net |-> 1, address |-> "172.20.0.0/16", enabled |-> FALSE],
      routers   |-> 3 :> [net |-> 1, peer |-> "ourselves", enabled |-> FALSE],
      objects   |-> 3]}

=============================================================================
