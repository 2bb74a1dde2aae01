------------------------------ MODULE MCAviary ------------------------------
(* The whole process with one container for TLC.                           *)
EXTENDS Aviary, TLC

\* Published port, a password and target options: what the server redacts,
\* completes and normalises all occurs.
WebLabels ==
    <<0, "enable">> :> "true" @@ <<0, "port">> :> 80 @@ <<0, "auth.secret">> :> "pw"
    @@ <<0, "options">> :> "empty" @@ <<0, "access">> :> "empty"

Web == [cname |-> "web", labels |-> WebLabels, publish |-> 80 :> 3001, attached |-> FALSE]

MCDeployments == {Web}
MCText == STRING

MCJoinName == [ck \in {"web"} \X {0} |-> 1]
MCProvision == [ready |-> FALSE, resourceId |-> ""]
MCTargetIds == "host-peer" :> "peer-1"

\* The default target is given by name.
MCConfigs ==
    {[targetMode |-> "host", targetId |-> "", targetName |-> "host-peer",
      host |-> "10.0.0.1", domain |-> "example.com", dryRun |-> FALSE]}

=============================================================================
