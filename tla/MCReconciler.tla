---------------------------- MODULE MCReconciler ----------------------------
(* Instances of the reconciler for TLC.                                    *)
EXTENDS Reconciler, TLC

\* web publishes container port 80 and has a secret.
WebLabels ==
    <<0, "enable">> :> "true" @@ <<0, "port">> :> 80 @@ <<0, "auth.secret">> :> "pw"
    @@ <<0, "options">> :> "set"

Web == [cname |-> "web", labels |-> WebLabels, publish |-> 80 :> 3001, attached |-> FALSE]

\* job is ephemeral and uses the host's network: it publishes nothing.
JobLabels ==
    <<0, "enable">> :> "true" @@ <<0, "port">> :> 9 @@ <<0, "ephemeral">> :> "yes"
    @@ <<0, "access_groups">> :> "admins"

Job == [cname |-> "job", labels |-> JobLabels, publish |-> NoBindings, attached |-> FALSE]

\* alt asks for the name of web, by its first service, and for one of its own
\* that is routed through the docker network.
AltLabels ==
    <<0, "enable">> :> "true" @@ <<1, "name">> :> 1 @@ <<1, "port">> :> 70
    @@ <<1, "target.name">> :> "peer-a" @@ <<2, "port">> :> 70
    @@ <<2, "target_mode">> :> "network"

Alt == [cname |-> "alt", labels |-> AltLabels, publish |-> 70 :> 3002, attached |-> TRUE]

MCDeployments == {Web, Job, Alt}

MCText == STRING

MCJoinName ==
    [ck \in {"web", "job", "alt"} \X {0, 1, 2} |->
        CASE ck[1] = "web" -> 1
          [] ck[1] = "job" -> 2
          [] OTHER         -> 3]

MCProvision == [ready |-> TRUE, resourceId |-> "res-docker"]

MCTargetIds == "peer-a" :> "id-a"

HostConfig ==
    [targetMode |-> "host", targetId |-> "res-host", targetName |-> "",
     host |-> "10.0.0.1", domain |-> "example.com", dryRun |-> FALSE]

DryRunConfig == [HostConfig EXCEPT !.dryRun = TRUE]

MCConfigs == {HostConfig, DryRunConfig}

\* Bound: disturbances of one behaviour, of whichever kind.
Disturbances == starts + edits + faults + (IF ctxDone THEN 1 ELSE 0) <= 2

GoroutineSymmetry == Permutations(Goroutines)

=============================================================================
