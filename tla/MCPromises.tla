----------------------------- MODULE MCPromises -----------------------------
(* Instances for the promises: one container name each, and no more starts *)
(* than the shortest violation needs.                                      *)
EXTENDS Promises, TLC

Deployment(labels, publish, attached) ==
    [cname |-> "web", labels |-> labels, publish |-> publish, attached |-> attached]

Labels(port) == <<0, "enable">> :> "true" @@ <<0, "port">> :> port

\* A service with a password.
WithSecret == {Deployment(Labels(80) @@ <<0, "auth.secret">> :> "pw", 80 :> 3001, FALSE)}

Plain == {Deployment(Labels(80), 80 :> 3001, FALSE)}

Ephemeral == {Deployment(Labels(80) @@ <<0, "ephemeral">> :> "true", 80 :> 3001, FALSE)}

\* Routed through the docker network.
Networked == {Deployment(Labels(80) @@ <<0, "target_mode">> :> "network", NoBindings, TRUE)}

\* A container on the host's network, created anew with another port label.
Relabelled == {Deployment(Labels(port), NoBindings, FALSE) : port \in {80, 81}}

MCText == STRING

MCJoinName == [ck \in {"web"} \X {0} |-> 1]
MCProvision == [ready |-> TRUE, resourceId |-> "res-docker"]
MCTargetIds == [ref \in {} |-> ""]

MCConfigs ==
    {[targetMode |-> "host", targetId |-> "res-host", targetName |-> "",
      host |-> "10.0.0.1", domain |-> "example.com", dryRun |-> FALSE]}

=============================================================================
