------------------------------- MODULE Labels -------------------------------
(***************************************************************************)
(* The label parser, internal/labels/parser.go.                            *)
(*                                                                         *)
(* A container's labels are a partial function from <<key, field>> to a    *)
(* value.  Key 0 is the shorthand form (netbird.<field>), a positive key k *)
(* the k-th service key in string order (netbird.services.<k>.<field>).    *)
(* A field stands for one label name, except these, which stand for        *)
(* several that the parser treats alike:                                   *)
(*   "options"     the target option labels: "set" or, all falsy, "empty"; *)
(*   "auth.secret" auth.password, auth.pin and auth.header.*;              *)
(*   "auth.sso"    auth.sso, and auth.link, which has no groups;           *)
(*   "access"      the access-restriction labels, "set" or, all empty,     *)
(*                 "empty";                                                *)
(*   "payload"     what is copied verbatim (mode, protocol, path, ...).    *)
(* Values are taken lower-cased and trimmed.  Service names are positive   *)
(* numbers, ordered as the strings they stand for; 0 is the empty string.  *)
(***************************************************************************)
EXTENDS Integers, Strings

CONSTANTS
    Keys,        \* the service keys of the multi-service form
    NotANumber   \* the value of a numeric label that strconv.Atoi rejects

ASSUME LabelsAssumption ==
    /\ Keys \subseteq Nat \ {0}
    /\ NotANumber \notin Int

Shorthand == 0

NumericFields == {"listen_port", "target.port", "port"}

TextFields ==
    {"enable", "domain", "proxy_cluster", "ephemeral", "target_mode",
     "access_groups", "target.id", "target.name", "target.host", "host",
     "options", "auth.secret", "auth.sso", "auth.sso_groups", "access", "payload"}

\* The field NoText is a label netbird.services.<key> with nothing after the key.
Fields == NumericFields \cup TextFields \cup {"name", NoText}

ValuesOf(field) ==
    CASE field \in NumericFields -> Int \cup {NotANumber}
      [] field = "name" -> Nat
      [] field = "access" -> {"empty", "set"}
      [] OTHER -> Text

WellFormedLabels(raw) ==
    /\ DOMAIN raw \subseteq (Keys \cup {Shorthand}) \X Fields
    /\ \A kf \in DOMAIN raw : raw[kf] \in ValuesOf(kf[2])

-----------------------------------------------------------------------------
Has(raw, k, field) == <<k, field>> \in DOMAIN raw

Get(raw, k, field, default) ==
    IF Has(raw, k, field) THEN raw[<<k, field>>] ELSE default

Truthy(v) == v \in {"1", "t", "true", "yes", "on", "enabled"}

NilAuth == [state |-> "nil", secret |-> NoText]

\* The port label that counts: target.port, and port only without it.
LabelledPort(raw, k) == Get(raw, k, "target.port", Get(raw, k, "port", 0))

\* parseOne fails on a numeric label that is not a number.
ParseFails(raw, k) ==
    \/ Get(raw, k, "listen_port", 0) = NotANumber
    \/ LabelledPort(raw, k) = NotANumber

\* Auth is nil unless an auth label is there; a secret enables its scheme,
\* sso may be there and disabled.
ParseAuth(raw, k) ==
    IF Has(raw, k, "auth.secret")
    THEN [state |-> "on", secret |-> raw[<<k, "auth.secret">>]]
    ELSE IF Has(raw, k, "auth.sso")
         THEN [state |-> IF Truthy(raw[<<k, "auth.sso">>]) THEN "on" ELSE "off",
               secret |-> NoText]
         ELSE NilAuth

\* One service of a container.  groups says whether group names have to be
\* looked up: the access groups, or the SSO groups when sso is labelled.
ParseOne(raw, k) ==
    [name         |-> Get(raw, k, "name", 0),
     domain       |-> Get(raw, k, "domain", NoText),
     listenPort   |-> Get(raw, k, "listen_port", 0),
     proxyCluster |-> Get(raw, k, "proxy_cluster", NoText),
     forcedOff    |-> Has(raw, k, "enable") /\ ~Truthy(raw[<<k, "enable">>]),
     ephemeral    |-> Truthy(Get(raw, k, "ephemeral", NoText)),
     targetMode   |-> Get(raw, k, "target_mode", NoText),
     groups       |-> \/ Get(raw, k, "access_groups", NoText) # NoText
                      \/ /\ Has(raw, k, "auth.sso")
                         /\ Get(raw, k, "auth.sso_groups", NoText) # NoText,
     targetId     |-> Get(raw, k, "target.id", NoText),
     targetName   |-> Get(raw, k, "target.name", NoText),
     host         |-> Get(raw, k, "target.host", Get(raw, k, "host", NoText)),
     port         |-> LabelledPort(raw, k),
     options      |-> IF Get(raw, k, "options", NoText) = "set" THEN "set" ELSE "nil",
     auth         |-> ParseAuth(raw, k),
     access       |-> Get(raw, k, "access", "nil"),
     payload      |-> Get(raw, k, "payload", NoText)]

\* A service key needs a dot after it; any label other than enable and the
\* services.* ones asks for the shorthand service.
ServiceKeys(raw) ==
    {k \in Keys : \E field \in Fields \ {NoText} : Has(raw, k, field)}
    \cup {k \in {Shorthand} : \E field \in Fields \ {"enable", NoText} : Has(raw, k, field)}

\* The services of a container by key: none unless netbird.enable is truthy,
\* and none at all when a single one of them does not parse.
Parse(raw) ==
    LET keys == ServiceKeys(raw)
        ok   == /\ Truthy(Get(raw, Shorthand, "enable", NoText))
                /\ \A k \in keys : ~ParseFails(raw, k)
    IN  [k \in {key \in keys : ok} |-> ParseOne(raw, k)]

=============================================================================
