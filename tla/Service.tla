------------------------------ MODULE Service -------------------------------
(***************************************************************************)
(* NetBird Services as the controller handles them: the wire type          *)
(* (internal/netbird/types.go) and the functions of                        *)
(* internal/controller/reconciler.go that disable, overlay and compare     *)
(* them.  A field the functions treat like another is left out: payload    *)
(* stands for everything that is copied and compared verbatim.             *)
(*                                                                         *)
(* options, access and the auth state are "nil" for a nil pointer; an      *)
(* "empty" or "off" one is there and says nothing.                         *)
(***************************************************************************)
EXTENDS Integers, Sequences, Strings

CONSTANTS
    Ids,     \* the ids the NetBird server gives to services
    Names    \* service names, ordered as the strings they stand for

ASSUME ServiceAssumption ==
    /\ Ids \subseteq Nat \ {0}
    /\ Names \subseteq Nat \ {0}

NoId == 0

TargetType ==
    [id : Text, host : Text, port : Int, enabled : BOOLEAN,
     options : {"nil", "empty", "set"}]

AuthType == [state : {"nil", "off", "on"}, secret : Text]

ServiceType ==
    [id : Ids \cup {NoId}, name : Names, listenPort : Int, portAuto : BOOLEAN,
     proxyCluster : Text, targets : Seq(TargetType), enabled : BOOLEAN,
     terminated : BOOLEAN, auth : AuthType, access : {"nil", "empty", "set"},
     payload : Text, meta : Text]

-----------------------------------------------------------------------------
\* cur, switched off with every target; the rest of it as the server has it.
DisableInPlace(cur) ==
    [cur EXCEPT !.enabled = FALSE,
                !.targets = [i \in DOMAIN cur.targets |->
                                [cur.targets[i] EXCEPT !.enabled = FALSE]]]

\* The desired service laid over the existing one: server-assigned fields
\* are kept, and so are the cluster and the listen port no label asks for.
Merge(cur, d) ==
    [d EXCEPT !.id = cur.id,
              !.meta = cur.meta,
              !.portAuto = cur.portAuto,
              !.proxyCluster = IF d.proxyCluster = NoText THEN cur.proxyCluster
                                                      ELSE d.proxyCluster,
              !.listenPort = IF d.listenPort = 0 THEN cur.listenPort
                                                 ELSE d.listenPort]

\* Seeded fault: an empty options object differs from none.
NormalTargets_KeepsEmpty(targets) == targets

\* An options object with nothing in it counts as none.
NormalTargets(targets) ==
    [i \in DOMAIN targets |->
        [targets[i] EXCEPT !.options = IF targets[i].options = "empty"
                                       THEN "nil" ELSE targets[i].options]]

\* Secrets are redacted by the server, so they are not compared; an auth
\* block with no enabled scheme counts as none.
NormalAuth(auth) ==
    [state  |-> IF auth.state = "on" THEN "on" ELSE "nil",
     secret |-> NoText]

Normalize(s) ==
    [s EXCEPT !.id = NoId, !.meta = NoText, !.portAuto = FALSE, !.terminated = FALSE,
              !.targets = NormalTargets(s.targets),
              !.auth = NormalAuth(s.auth),
              !.access = IF s.access = "empty" THEN "nil" ELSE s.access]

ServicesEqual(a, b) == Normalize(a) = Normalize(b)

\* What comparing a service leaves in it.  normalize works on a copy of the
\* struct, but the copy shares the Targets array and the Auth pointer: empty
\* options and every secret are gone from the caller's service afterwards.
AfterCompare(s) ==
    [s EXCEPT !.targets = NormalTargets(s.targets), !.auth.secret = NoText]

=============================================================================
