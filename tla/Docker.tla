------------------------------- MODULE Docker -------------------------------
(***************************************************************************)
(* The Docker daemon as internal/docker/watcher.go sees it, and the        *)
(* watcher's List.  The daemon is external: an operator creates, starts,   *)
(* stops and removes containers at any time, whatever the controller does. *)
(*                                                                         *)
(* A deployment is what is fixed when a container is created: its name,    *)
(* its labels (module Labels), the TCP ports it publishes (a function from *)
(* container port to host port) and whether it is attached to the docker   *)
(* network of the controller.                                              *)
(***************************************************************************)
EXTENDS Labels

CONSTANTS
    Deployments,     \* the containers an operator may create
    ContainerNames,  \* their names
    IPs,             \* addresses of the docker network
    MaxContainers,   \* bound: containers ever created
    MaxStarts        \* bound: container starts

ASSUME DockerAssumption ==
    /\ \A d \in Deployments :
         /\ d.cname \in ContainerNames
         /\ WellFormedLabels(d.labels)
         /\ DOMAIN d.publish \subseteq Int
         /\ \A p \in DOMAIN d.publish : d.publish[p] \in Int \ {0}
         /\ d.attached \in BOOLEAN
    /\ IPs \subseteq Text \ {NoText}
    /\ MaxContainers \in Nat
    /\ MaxStarts \in Nat

VARIABLES
    containers,  \* container number -> [dep, status, ip]
    created,     \* containers created so far, the number of the newest
    starts       \* starts so far

dockerVars == <<containers, created, starts>>

DockerTypeOK ==
    /\ created \in Nat
    /\ starts \in Nat
    /\ DOMAIN containers \subseteq 1 .. created
    /\ containers \in [DOMAIN containers ->
                         [dep    : Deployments,
                          status : {"stopped", "running", "stopping"},
                          ip     : IPs \cup {NoText}]]

DockerInit ==
    /\ containers = [c \in {} |-> {}]
    /\ created = 0
    /\ starts = 0

-----------------------------------------------------------------------------
\* docker create: a name is held by one container at a time.
DockerCreate(dep) ==
    /\ created < MaxContainers
    /\ \A c \in DOMAIN containers : containers[c].dep.cname # dep.cname
    /\ created' = created + 1
    /\ containers' = [c \in DOMAIN containers \cup {created'} |->
                        IF c = created'
                        THEN [dep |-> dep, status |-> "stopped", ip |-> NoText]
                        ELSE containers[c]]
    /\ UNCHANGED starts

\* The network is set up before the state turns to running.  An address
\* that a stopped container had may go to another one.
DockerStart(c, ip) ==
    /\ containers[c].status = "stopped"
    /\ starts < MaxStarts
    /\ IF containers[c].dep.attached
       THEN /\ ip \in IPs
            /\ \A other \in DOMAIN containers : containers[other].ip # ip
       ELSE ip = NoText
    /\ containers' = [containers EXCEPT ![c].status = "running", ![c].ip = ip]
    /\ starts' = starts + 1
    /\ UNCHANGED created

\* The process has gone and the daemon has not finished recording it.
DockerDie(c) ==
    /\ containers[c].status = "running"
    /\ containers' = [containers EXCEPT ![c].status = "stopping"]
    /\ UNCHANGED <<created, starts>>

DockerStopped(c) ==
    /\ containers[c].status = "stopping"
    /\ containers' = [containers EXCEPT ![c].status = "stopped", ![c].ip = NoText]
    /\ UNCHANGED <<created, starts>>

DockerRemove(c) ==
    /\ containers[c].status = "stopped"
    /\ containers' = [other \in DOMAIN containers \ {c} |-> containers[other]]
    /\ UNCHANGED <<created, starts>>

DockerNext ==
    \/ \E dep \in Deployments : DockerCreate(dep)
    \/ \E c \in DOMAIN containers :
         \/ \E ip \in IPs \cup {NoText} : DockerStart(c, ip)
         \/ DockerDie(c)
         \/ DockerStopped(c)
         \/ DockerRemove(c)

-----------------------------------------------------------------------------
NoBindings == [p \in {} |-> 0]

\* A container as fromSummary reports it.  The bindings and the address of
\* one that is stopping may be gone while it is still reported as running
\* (hidden); those of a stopped one are.
FromSummary(c, hidden) ==
    LET gone == containers[c].status = "stopped" \/ c \in hidden
    IN  [cname    |-> containers[c].dep.cname,
         labels   |-> containers[c].dep.labels,
         running  |-> containers[c].status # "stopped",
         bindings |-> IF gone THEN NoBindings ELSE containers[c].dep.publish,
         ip       |-> IF gone THEN NoText ELSE containers[c].ip]

Stopping == {c \in DOMAIN containers : containers[c].status = "stopping"}

\* The filter of the list call wants the word true, where the label parser
\* takes other words for it too.
Labelled ==
    {c \in DOMAIN containers :
        Get(containers[c].dep.labels, Shorthand, "enable", NoText) = "true"}

\* The containers by number; the daemon lists the newest first.
List(hidden) == [c \in Labelled |-> FromSummary(c, hidden)]

=============================================================================
