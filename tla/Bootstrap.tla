------------------------------ MODULE Bootstrap -----------------------------
(***************************************************************************)
(* The bootstrap of network mode, main.go: the host name is derived, the   *)
(* agent started, the provisioner run, and the process exits when any of   *)
(* these fails.  The process is the first one of its container: the child  *)
(* of module Agent dies with it, and the restart policy of the container   *)
(* (docker-compose, "unless-stopped") starts the next one, which finds the *)
(* identity of the agent's peer in the volume.                             *)
(***************************************************************************)
EXTENDS Agent, Provisioner

CONSTANTS
    AviaryName,  \* docker network -> "aviary-" and its name
    MaxCrashes   \* bound: times the process is killed

ASSUME BootstrapAssumption ==
    /\ AviaryName \in [DOMAIN AviaryName -> Text]
    /\ DOMAIN Subnet \subseteq DOMAIN AviaryName
    /\ {s.dockerNetwork : s \in Setups} \subseteq DOMAIN AviaryName \cup {NoText}
    /\ {"aviary", "renamed"} \subseteq Text
    /\ MaxCrashes \in Nat

VARIABLE crashes  \* crashes so far

bootstrapVars == <<agentVars, provisionerVars, crashes>>

BootstrapInit ==
    /\ AgentInit
    /\ ProvisionerInit
    /\ crashes = 0

-----------------------------------------------------------------------------
\* Either setting brings network mode about.
NetworkMode == setup.targetMode = "network" \/ setup.setupKey

Begin ==
    /\ at = "begin"
    /\ Goes(IF NetworkMode THEN "derive" ELSE "skipped", found)
    /\ Quiet
    /\ UNCHANGED <<agentVars, crashes>>

\* A host name from the settings, or after the docker network; of several
\* networks any may be the first.  For a container that the daemon does not
\* know it is that of the container; with no id at all there is an error.
HostNames ==
    CASE setup.peerHostname # NoText -> {setup.peerHostname}
      [] setup.peerHostname = NoText /\ ~Inspected ->
            {IF setup.hostname = NoText THEN "aviary" ELSE setup.hostname}
      [] OTHER ->
            LET names == IF setup.dockerNetwork # NoText THEN {setup.dockerNetwork} ELSE Candidates
            IN  IF names = {} THEN {"aviary"} ELSE {AviaryName[n] : n \in names}

DeriveHostname ==
    /\ at = "derive"
    /\ \/ /\ setup.peerHostname = NoText
          /\ \/ SelfContainerID = NoText /\ UNCHANGED errors
             \/ errors < MaxErrors /\ errors' = errors + 1
          /\ Fails
       \/ /\ setup.peerHostname # NoText \/ SelfContainerID # NoText
          /\ \E name \in HostNames : Goes("agent", [found EXCEPT !.peerName = name])
          /\ UNCHANGED errors
    /\ UNCHANGED <<setup, peers, scaffold, changes, touched, complete>>
    /\ UNCHANGED <<agentVars, crashes>>

\* Seeded fault: the key alone brings network mode about, but no agent.
NeedsAgent_InNetworkMode == ~setup.disableAgent /\ setup.targetMode = "network"

NeedsAgent == ~setup.disableAgent

LaunchAgent ==
    /\ at = "agent"
    /\ CASE ~NeedsAgent -> Goes("pick", found) /\ UNCHANGED agentVars
         [] NeedsAgent /\ ~setup.setupKey -> Fails /\ UNCHANGED agentVars
         [] OTHER ->
               /\ StartAgent(setup.binary)
               /\ IF setup.binary THEN Goes("pick", found) ELSE Fails
    /\ Quiet
    /\ UNCHANGED crashes

RunProvisioner ==
    /\ Provision
    /\ UNCHANGED <<agentVars, crashes>>

\* The goroutine of the agent has had a minute to start the child.
GivesUpPolling ==
    /\ PollTimesOut
    /\ supervisor \notin {"top", "prepared", "forked"}
    /\ UNCHANGED <<agentVars, crashes>>

\* SetNetworkProvision; the reconciler has its target from now on.
SetNetworkProvision ==
    /\ at = "provisioned"
    /\ Goes("running", found)
    /\ complete' = (complete \/ ~touched)
    /\ UNCHANGED <<setup, peers, scaffold, errors, changes, touched>>
    /\ UNCHANGED <<agentVars, crashes>>

MainStep ==
    \/ Begin \/ DeriveHostname \/ LaunchAgent
    \/ RunProvisioner \/ GivesUpPolling \/ SetNetworkProvision

AgentStep ==
    /\ Supervise \/ ChildDies
    /\ UNCHANGED <<provisionerVars, crashes>>

-----------------------------------------------------------------------------
(* The environment                                                         *)

\* Our peer comes up with that host name: our child, or an agent that someone
\* else runs for us.  It has a name besides, which people may have changed.
Registers ==
    /\ found.peerName # NoText
    /\ child \/ setup.disableAgent
    /\ Self \in DOMAIN peers => peers[Self].hostname # found.peerName
    /\ \E name \in {found.peerName, "renamed"} :
         peers' = [p \in DOMAIN peers \cup {Self} |->
                     IF p = Self THEN [hostname |-> found.peerName, name |-> name] ELSE peers[p]]
    /\ UNCHANGED <<setup, local, scaffold, errors, changes, touched, complete>>
    /\ UNCHANGED <<agentVars, crashes>>

PeopleStep ==
    /\ PeopleChange
    /\ UNCHANGED <<agentVars, crashes>>

\* The process ends and the container starts again.
Relaunch ==
    /\ at' = "begin"
    /\ found' = Nothing
    /\ touched' = FALSE
    /\ supervisor' = "off" /\ child' = FALSE /\ interrupted' = FALSE
    /\ backoff' = 1
    /\ UNCHANGED <<stopped, done, deaths, late, missed>>
    /\ UNCHANGED <<setup, peers, scaffold, errors, changes, complete>>

\* os.Exit(1).
Exits ==
    /\ at = "failed"
    /\ Relaunch
    /\ UNCHANGED crashes

Crashes ==
    /\ crashes < MaxCrashes
    /\ crashes' = crashes + 1
    /\ Relaunch

BootstrapNext ==
    \/ MainStep \/ AgentStep
    \/ Registers \/ PeopleStep
    \/ Exits \/ Crashes

BootstrapSpec == BootstrapInit /\ [][BootstrapNext]_bootstrapVars

\* The process runs, a container that has ended is started again, and a peer
\* whose agent keeps being started comes up at some time.
BootstrapFairSpec ==
    /\ BootstrapSpec
    /\ WF_bootstrapVars(MainStep)
    /\ WF_bootstrapVars(AgentStep)
    /\ WF_bootstrapVars(Exits)
    /\ SF_bootstrapVars(Registers)

-----------------------------------------------------------------------------
(* Properties                                                              *)

\* The types, and that the agent is where the bootstrap has brought it: no
\* process polls for a peer whose agent it has not started.
BootstrapTypeOK ==
    /\ AgentTypeOK
    /\ ProvisionerTypeOK
    /\ at \in ProvisionPhases \cup {"begin", "derive", "agent", "skipped", "running"}
    /\ at \in CallPhases \cup {"provisioned", "running"} =>
          setup.disableAgent \/ supervisor # "off"
    /\ crashes \in Nat

\* The settings and the container are such that bootstrap can succeed.
Viable ==
    /\ NetworkMode
    /\ (setup.setupKey /\ setup.binary) \/ setup.disableAgent
    /\ setup.peerHostname # NoText \/ SelfContainerID # NoText
    /\ \E net \in DOMAIN Subnet : Pickable(net) /\ Subnet[net] # NoText

\* Bootstrap comes to its end whenever it can, through failing calls, agents
\* that die, peers that register too late and crashes, because the process
\* exits and is started again; it does not retry anything itself.
BootstrapEnds == Viable => <>[](at = "running")

\* provisioner.go:44: "hostname our embedded agent registered with (used to
\* find our own peer id)": the router that is set up is our own peer.  The
\* peer of another host may have the host name too: it is made of the name of
\* the docker network alone.
RoutedByOurselves == at = "running" => found.self = Self

=============================================================================
