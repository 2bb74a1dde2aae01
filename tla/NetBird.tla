------------------------------ MODULE NetBird -------------------------------
(***************************************************************************)
(* The NetBird management server as internal/netbird/client.go uses it:    *)
(* the service collection behind /api/reverse-proxies/services, and the    *)
(* people who edit it in the web interface.  The server is external.       *)
(***************************************************************************)
EXTENDS Service

CONSTANTS
    UserNames,  \* names that people also give to services of their own
    MaxEdits    \* bound: edits made in the web interface

ASSUME NetBirdAssumption ==
    /\ UserNames \subseteq Names
    /\ MaxEdits \in Nat

VARIABLES
    services,  \* the services by id
    manual,    \* history: the ids of those that people have created
    edits      \* edits so far

netbirdVars == <<services, manual, edits>>

NetBirdTypeOK ==
    /\ DOMAIN services \subseteq Ids
    /\ services \in [DOMAIN services -> ServiceType]
    /\ \A id \in DOMAIN services : services[id].id = id
    /\ manual \subseteq DOMAIN services
    /\ edits \in Nat

NetBirdInit ==
    /\ services = [id \in {} |-> {}]
    /\ manual = {}
    /\ edits = 0

-----------------------------------------------------------------------------
ServicesNamed(n) == {id \in DOMAIN services : services[id].name = n}

\* An id is fresh if no service has it and nobody remembers one with it; the
\* least such id is taken, for the ids of the server mean nothing.
Fresh(id, remembered) ==
    /\ id \notin DOMAIN services \cup remembered
    /\ \A other \in Ids : other < id => other \in DOMAIN services \cup remembered

\* What the server makes of a created service: it has an id and meta data of
\* its own, and a listen port even if none was asked for.
Stored(id, s) ==
    [s EXCEPT !.id = id,
              !.meta = "server",
              !.portAuto = s.listenPort = 0,
              !.listenPort = IF s.listenPort = 0 THEN 9000 ELSE s.listenPort]

With(id, s) ==
    [i \in DOMAIN services \cup {id} |-> IF i = id THEN s ELSE services[i]]

Without(id) == [i \in DOMAIN services \ {id} |-> services[i]]

\* The collection after POST, PUT and DELETE.
Posted(id, s) == With(id, Stored(id, s))

Replaced(id, s) ==
    IF id \in DOMAIN services
    THEN [services EXCEPT ![id] = [s EXCEPT !.id = id, !.meta = services[id].meta]]
    ELSE services

Deleted(id) == Without(id)

\* The server redacts secrets and answers with an options object always.
View(s) ==
    [s EXCEPT !.auth.secret = NoText,
              !.targets = [i \in DOMAIN s.targets |->
                  [s.targets[i] EXCEPT !.options = IF s.targets[i].options = "nil"
                                                   THEN "empty" ELSE s.targets[i].options]]]

-----------------------------------------------------------------------------
UserService(n) ==
    [id |-> NoId, name |-> n, listenPort |-> 0, portAuto |-> FALSE,
     proxyCluster |-> NoText, targets |-> << >>, enabled |-> TRUE,
     terminated |-> FALSE, auth |-> [state |-> "nil", secret |-> NoText],
     access |-> "nil", payload |-> "manual", meta |-> NoText]

\* They switch it, give it other settings, or give it another name, one of theirs.
UserEdits(s) ==
    {[s EXCEPT !.enabled = ~s.enabled],
     [s EXCEPT !.payload = "manual", !.proxyCluster = "other",
               !.auth = [state |-> "on", secret |-> "manual"], !.terminated = TRUE]}
        \cup {[s EXCEPT !.name = n] : n \in UserNames \ {s.name}}

UserCreate(n, id, remembered) ==
    /\ edits < MaxEdits
    /\ Fresh(id, remembered)
    /\ services' = Posted(id, UserService(n))
    /\ manual' = manual \cup {id}
    /\ edits' = edits + 1

UserEdit(id, s) ==
    /\ edits < MaxEdits
    /\ services' = Replaced(id, s)
    /\ edits' = edits + 1
    /\ UNCHANGED manual

UserDelete(id) ==
    /\ edits < MaxEdits
    /\ services' = Deleted(id)
    /\ manual' = manual \ {id}
    /\ edits' = edits + 1

=============================================================================
