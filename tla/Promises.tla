------------------------------ MODULE Promises ------------------------------
(***************************************************************************)
(* What the repository's comments and README promise of the reconciler and *)
(* the code does not keep.  Each of these is violated by the behaviours of *)
(* module Reconciler; none needs a fault, a restart or a second goroutine. *)
(***************************************************************************)
EXTENDS Reconciler

VARIABLE dropped  \* history: names whose service went with a stop, until the next start

promisesVars == <<vars, dropped>>

\* The names of services that a step takes from what is switched on.
Drops == {services[id].name : id \in {i \in DOMAIN services \ DOMAIN services' : services[i].enabled}}

PromisesInit == Init /\ dropped = {}

PromisesNext ==
    /\ Next
    /\ dropped' = IF starts' # starts THEN {} ELSE dropped \cup Drops

PromisesSpec == PromisesInit /\ [][PromisesNext]_promisesVars

-----------------------------------------------------------------------------
\* reconciler.go:456: "secret values ... we still SEND them on create/update".
\* Every service that is written while its container runs is written with the
\* secret of its labels.
SecretsAreSent ==
    [][ControllerWrites => \A id \in DOMAIN services' :
          Changed(id) /\ services'[id].enabled =>
             services'[id].auth.secret
                 = pass[mu].desired[services'[id].name].service.auth.secret]_vars

\* README:199: an ephemeral service is "deleted on stop ... The next start
\* re-creates it from scratch".  Once a pass has deleted the service because the
\* container was stopped, no pass creates it before a container is started.
EphemeralStaysDeleted ==
    [][ControllerWrites => \A id \in DOMAIN services' \ DOMAIN services :
          services'[id].name \notin dropped]_promisesVars

\* A pass that has dealt with every name, with no failure and no edit.
CleanEnd(g) ==
    /\ pass[g].phase = "apply"
    /\ pass[g].todo = {}
    /\ pass[g].clean
    /\ ~cfg.dryRun

\* README:198: "Stopped container -> enabled: false on the matching Service".
\* After a clean pass no service is enabled whose containers, as listed, are
\* all stopped.
StoppedIsDisabled ==
    \A g \in Goroutines : CleanEnd(g) =>
        \A ck \in Specs(pass[g].listed) :
            LET n == NameOf(pass[g].listed, ck)
                listed == pass[g].listed
            IN  (\A other \in Specs(listed) :
                    NameOf(listed, other) = n => ~listed[other[1]].running)
                => \A id \in ServicesNamed(n) : ~services[id].enabled

\* README:18: aviary "creates the matching NetBird Service, keeps it in sync".
\* After a clean pass the service of a running container that publishes no
\* ports has the port that the container is labelled with.
LabelledPortFollowed ==
    \A g \in Goroutines : CleanEnd(g) =>
        \A n \in DOMAIN pass[g].desired : \A id \in ServicesNamed(n) :
            /\ pass[g].desired[n].service.enabled
            /\ \A d \in Deployments : d.publish = NoBindings
            => services[id].targets[1].port = pass[g].desired[n].service.targets[1].port

\* reconciler.go:19: the reconciler "only touches services whose names match a
\* managed prefix or were created by this controller - never anything else".
\* There is no prefix; a service that a person created is not written.
ForeignUntouched ==
    [][ControllerWrites => \A id \in manual : ~Changed(id)]_vars

=============================================================================
