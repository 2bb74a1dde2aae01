------------------------------ MODULE Resolver ------------------------------
(***************************************************************************)
(* The name resolver, internal/netbird/resolver.go: ids for the names that *)
(* labels and settings give to peers, clusters, groups and network         *)
(* resources, from tables that are fetched when they are first needed and  *)
(* kept as long as the process lives, while people change the directory.   *)
(*                                                                         *)
(* A table is a kind of thing or, for the resources of a network, the id   *)
(* of that network; it maps names, in lower case, to ids.  Its lock is     *)
(* held between two calls to the server, never during one.  The resolver   *)
(* is called in passes only, and r.mu of the reconciler serialises those.  *)
(***************************************************************************)
EXTENDS Integers, FiniteSets, Functions, Strings

CONSTANTS
    Callers,      \* the goroutines that call Reconcile
    ServerIds,    \* the ids of the server
    IdLike,       \* what LooksLikeID takes for an id, 16 to 40 of [0-9a-z]
    ThingNames,   \* names in the directory
    Queries,      \* what may be asked: [kind, ref, scope]
    Possible,     \* what each id may stand for
    Directories,  \* the directories there may be at first
    MaxChanges,   \* bound: changes of the directory
    MaxErrors,    \* bound: failed calls
    MaxRestarts   \* bound: restarts of the process

Kinds == {"peer", "network", "cluster", "group"}

Tables == Kinds \cup ServerIds

ThingType ==
    [kind : Kinds \cup {"resource"}, names : SUBSET ThingNames,
     net : ServerIds \cup {NoText}]

\* A resource is asked for in one network (scope: its name or id) or in all.
QueryType ==
    [kind : {"peer", "cluster", "group", "resource"}, ref : Text, scope : Text]

ASSUME ResolverAssumption ==
    /\ "nobody" \notin Callers
    /\ IsFiniteSet(ServerIds)
    /\ ServerIds \subseteq Text \ (Kinds \cup {NoText})
    /\ IdLike \subseteq Text \ (Kinds \cup {NoText})
    /\ Kinds \cup ThingNames \subseteq Text
    /\ Queries \subseteq QueryType
    /\ Possible \in [ServerIds -> SUBSET ThingType]
    \* An id is that of one thing, which stays in its network.
    /\ \A id \in ServerIds : \A a, b \in Possible[id] : a.kind = b.kind /\ a.net = b.net
    /\ \A dir \in Directories :
         /\ DOMAIN dir \subseteq ServerIds
         /\ \A id \in DOMAIN dir : dir[id] \in Possible[id]
    /\ MaxChanges \in Nat /\ MaxErrors \in Nat /\ MaxRestarts \in Nat

VARIABLES
    directory,  \* the things on the server by id
    cache,      \* the tables that have been loaded
    holder,     \* who holds r.mu
    call,       \* the lookup of each caller
    changes,    \* changes of the directory so far
    errors,     \* failed calls so far
    restarts,   \* restarts so far
    ever,       \* history: the <<table, name, id>> seen since the start
    always      \* history: the <<table, name>> there all the time since

calling == <<cache, holder, call>>
history == <<ever, always>>
resolverVars == <<directory, calling, changes, errors, restarts, history>>

-----------------------------------------------------------------------------
(* The directory                                                           *)

TableOf(thing) == IF thing.kind = "resource" THEN thing.net ELSE thing.kind

Facts(dir) ==
    UNION {{<<TableOf(dir[id]), n, id>> : n \in dir[id].names} : id \in DOMAIN dir}

Present(dir) == {<<f[1], f[2]>> : f \in Facts(dir)}

\* The things that a listing of the table is about.
In(table) == {id \in DOMAIN directory : TableOf(directory[id]) = table}

\* What the loaders make of a list: of things with one name, the one that the
\* server happens to list last.  Things without a name are not in it.
LastByName(ids) ==
    {[n \in UNION {directory[id].names : id \in ids} |->
         CHOOSE id \in ids :
            /\ n \in directory[id].names
            /\ \A other \in ids : n \in directory[other].names => place[other] <= place[id]] :
        place \in Bijection(ids, 1 .. Cardinality(ids))}

\* Seeded fault: the resources of all networks are listed for each.
Listings_OfAllNetworks(table) ==
    LastByName(IF table \in Kinds THEN In(table) ELSE UNION {In(t) : t \in ServerIds})

Listings(table) == LastByName(In(table))

\* The server has no list of resources of what is not a network.
Listed(table) ==
    \/ table \in Kinds
    \/ table \in DOMAIN directory /\ directory[table].kind = "network"

-----------------------------------------------------------------------------
(* Lookups                                                                 *)

NoQuery == [kind |-> "none", ref |-> NoText, scope |-> NoText]

NoReply == [result |-> "none", id |-> NoText]

IdleCall ==
    [phase |-> "idle", query |-> NoQuery, table |-> NoText,
     fetched |-> [n \in {} |-> NoText], todo |-> {}, matches |-> {}, reply |-> NoReply]

\* What looks like an id is returned without asking; GroupIDs loads first.
Shortcut(q) == q.kind # "group" /\ q.ref \in IdLike

Found(id) == [result |-> "found", id |-> id]
Missing   == [result |-> "missing", id |-> NoText]
Ambiguous == [result |-> "ambiguous", id |-> NoText]
Failed    == [result |-> "error", id |-> NoText]

LookIn(table, ref) == IF ref \in DOMAIN table THEN Found(table[ref]) ELSE Missing

NetworksIn(table) == {table[n] : n \in DOMAIN table}

ResolverInit ==
    /\ directory \in Directories
    /\ cache = [t \in {} |-> {}]
    /\ holder = "nobody"
    /\ call = [c \in Callers |-> IdleCall]
    /\ changes = 0 /\ errors = 0 /\ restarts = 0
    /\ ever = Facts(directory)
    /\ always = Present(directory)

\* Seeded fault: passes are not serialised.
BeginPass_Unserialised(c) ==
    /\ holder' = c
    /\ UNCHANGED <<directory, cache, call, changes, errors, restarts, history>>

BeginPass(c) ==
    /\ holder = "nobody"
    /\ holder' = c
    /\ UNCHANGED <<directory, cache, call, changes, errors, restarts, history>>

EndPass(c) ==
    /\ holder = c
    /\ call[c].phase = "idle"
    /\ holder' = "nobody"
    /\ UNCHANGED <<directory, cache, call, changes, errors, restarts, history>>

\* A step of a lookup that changes nothing but the locals of its caller.
Goes(c, local) ==
    /\ call' = [call EXCEPT ![c] = local]
    /\ UNCHANGED <<directory, cache, holder, changes, errors, restarts, history>>

Answered(c, r) ==
    [IdleCall EXCEPT !.phase = "answered", !.query = call[c].query, !.reply = r]

\* A table is consulted: first that of networks, unless a resource is asked
\* for in a network given by its id.
FirstTable(q) ==
    CASE q.kind # "resource" -> q.kind
      [] q.kind = "resource" /\ q.scope \in IdLike -> q.scope
      [] OTHER -> "network"

Ask(c, q) ==
    /\ holder = c
    /\ call[c].phase = "idle"
    /\ Goes(c, IF Shortcut(q)
               THEN [IdleCall EXCEPT !.phase = "answered", !.query = q, !.reply = Found(q.ref)]
               ELSE [IdleCall EXCEPT !.phase = "consult", !.query = q, !.table = FirstTable(q)])

\* The caller takes the answer and goes on.
Take(c) ==
    /\ call[c].phase = "answered"
    /\ Goes(c, IdleCall)

Consults(c, table) ==
    /\ call[c].phase = "consult"
    /\ call[c].table = table

\* The table has not been loaded: the lock is released and the server asked.
Miss(c) ==
    /\ call[c].phase = "consult"
    /\ call[c].table \notin DOMAIN cache
    /\ Goes(c, [call[c] EXCEPT !.phase = "fetch"])

Fetch(c) ==
    /\ call[c].phase = "fetch"
    /\ Listed(call[c].table)
    /\ \E listing \in Listings(call[c].table) :
         Goes(c, [call[c] EXCEPT !.phase = "store", !.fetched = listing])

\* Seeded fault: the table counts as loaded though the call has failed.
FetchFails_MarksLoaded(c) ==
    /\ call[c].phase = "fetch"
    /\ errors < MaxErrors
    /\ errors' = errors + 1
    /\ call' = [call EXCEPT ![c] = Answered(c, Failed)]
    /\ cache' = [t \in DOMAIN cache \cup {call[c].table} |->
                    IF t \in DOMAIN cache THEN cache[t] ELSE [n \in {} |-> NoText]]
    /\ UNCHANGED <<directory, holder, changes, restarts, history>>

\* An error is the answer; the table is fetched again when it is next needed.
FetchFails(c) ==
    /\ call[c].phase = "fetch"
    /\ IF Listed(call[c].table) THEN errors < MaxErrors /\ errors' = errors + 1
                                ELSE UNCHANGED errors
    /\ call' = [call EXCEPT ![c] = Answered(c, Failed)]
    /\ UNCHANGED <<directory, cache, holder, changes, restarts, history>>

\* A second load adds to the table of a kind, and replaces that of a network.
Loaded(table, listing) ==
    IF table \in Kinds \cap DOMAIN cache
    THEN [n \in DOMAIN cache[table] \cup DOMAIN listing |->
             IF n \in DOMAIN listing THEN listing[n] ELSE cache[table][n]]
    ELSE listing

Store(c) ==
    /\ call[c].phase = "store"
    /\ cache' = [t \in DOMAIN cache \cup {call[c].table} |->
                    IF t = call[c].table THEN Loaded(t, call[c].fetched) ELSE cache[t]]
    /\ call' = [call EXCEPT ![c].phase = "consult", ![c].fetched = IdleCall.fetched]
    /\ UNCHANGED <<directory, holder, changes, errors, restarts, history>>

\* PeerID, ClusterID; GroupIDs, which takes ids as they are.
LookUp(c) ==
    /\ call[c].query.kind \in Kinds
    /\ \E t \in DOMAIN cache :
         /\ Consults(c, t)
         /\ LET ref == call[c].query.ref
            IN  Goes(c, Answered(c, IF ref \in IdLike THEN Found(ref) ELSE LookIn(cache[t], ref)))

Scoped(c) == call[c].query.kind = "resource" /\ call[c].query.scope # NoText

Unscoped(c) == call[c].query.kind = "resource" /\ call[c].query.scope = NoText

\* Seeded fault: the network is taken by its name where its id is meant.
FindNetwork_KeepsName(c) ==
    /\ Scoped(c)
    /\ Consults(c, "network") /\ "network" \in DOMAIN cache
    /\ LET r == LookIn(cache["network"], call[c].query.scope)
       IN  Goes(c, IF r = Missing THEN Answered(c, Missing)
                   ELSE [call[c] EXCEPT !.table = call[c].query.scope])

\* NetworkID, for the scope of a resource.
FindNetwork(c) ==
    /\ Scoped(c)
    /\ Consults(c, "network") /\ "network" \in DOMAIN cache
    /\ LET r == LookIn(cache["network"], call[c].query.scope)
       IN  Goes(c, IF r = Missing THEN Answered(c, Missing)
                   ELSE [call[c] EXCEPT !.table = r.id])

FindResource(c) ==
    /\ Scoped(c)
    /\ \E t \in DOMAIN cache \ Kinds :
         Consults(c, t) /\ Goes(c, Answered(c, LookIn(cache[t], call[c].query.ref)))

\* Without a scope: the networks as they are known now, in any order.
SearchBegins(c) ==
    /\ Unscoped(c)
    /\ Consults(c, "network") /\ "network" \in DOMAIN cache
    /\ Goes(c, [call[c] EXCEPT !.phase = "search", !.todo = NetworksIn(cache["network"])])

SearchNext(c) ==
    /\ call[c].phase = "search"
    /\ \E t \in call[c].todo : Goes(c, [call[c] EXCEPT !.phase = "consult", !.table = t])

\* Seeded fault: the network that has been searched is not ticked off.
SearchOne_Again(c) ==
    /\ Unscoped(c)
    /\ \E t \in DOMAIN cache \ Kinds :
         /\ Consults(c, t)
         /\ Goes(c, [call[c] EXCEPT !.phase = "search"])

SearchOne(c) ==
    /\ Unscoped(c)
    /\ \E t \in DOMAIN cache \ Kinds :
         /\ Consults(c, t)
         /\ LET r == LookIn(cache[t], call[c].query.ref)
            IN  Goes(c, [call[c] EXCEPT !.phase = "search", !.todo = @ \ {t},
                                        !.matches = @ \cup ({r.id} \ {NoText})])

\* Seeded fault: any match will do.
SearchEnds_WithAny(c) ==
    /\ call[c].phase = "search"
    /\ call[c].todo = {}
    /\ IF call[c].matches = {}
       THEN Goes(c, Answered(c, Missing))
       ELSE \E id \in call[c].matches : Goes(c, Answered(c, Found(id)))

SearchEnds(c) ==
    /\ call[c].phase = "search"
    /\ call[c].todo = {}
    /\ CASE call[c].matches = {} -> Goes(c, Answered(c, Missing))
         [] Cardinality(call[c].matches) = 1 ->
              \E id \in call[c].matches : Goes(c, Answered(c, Found(id)))
         [] OTHER -> Goes(c, Answered(c, Ambiguous))

LookupStep(c) ==
    \/ Miss(c) \/ Fetch(c) \/ FetchFails(c) \/ Store(c)
    \/ LookUp(c) \/ FindNetwork(c) \/ FindResource(c)
    \/ SearchBegins(c) \/ SearchNext(c) \/ SearchOne(c) \/ SearchEnds(c)
    \/ Take(c)

-----------------------------------------------------------------------------
(* The environment                                                         *)

\* A thing is added, or what is there is renamed.
Put(id, thing) ==
    [i \in DOMAIN directory \cup {id} |-> IF i = id THEN thing ELSE directory[i]]

\* The resources of a network go with it.
Removed(gone) ==
    [i \in {j \in DOMAIN directory : j # gone /\ directory[j].net # gone} |-> directory[i]]

DirectoryChanges ==
    /\ changes < MaxChanges
    /\ changes' = changes + 1
    /\ \/ \E id \in ServerIds : \E thing \in Possible[id] :
            Listed(TableOf(thing)) /\ directory' = Put(id, thing)
       \/ \E gone \in DOMAIN directory : directory' = Removed(gone)
    /\ ever' = ever \cup Facts(directory')
    /\ always' = always \cap Present(directory')
    /\ UNCHANGED <<calling, errors, restarts>>

\* The process dies, wherever it is, and the next one starts with nothing.
ProcessRestarts ==
    /\ restarts < MaxRestarts
    /\ restarts' = restarts + 1
    /\ cache' = [t \in {} |-> {}]
    /\ holder' = "nobody"
    /\ call' = [c \in Callers |-> IdleCall]
    /\ ever' = Facts(directory)
    /\ always' = Present(directory)
    /\ UNCHANGED <<directory, changes, errors>>

ResolverNext ==
    \/ \E c \in Callers :
         \/ BeginPass(c) \/ EndPass(c)
         \/ \E q \in Queries : Ask(c, q)
         \/ LookupStep(c)
    \/ DirectoryChanges
    \/ ProcessRestarts

ResolverSpec == ResolverInit /\ [][ResolverNext]_resolverVars

\* A pass that has begun a lookup goes on with it, and calls are answered.
ResolverFairSpec == ResolverSpec /\ \A c \in Callers : WF_resolverVars(LookupStep(c))

-----------------------------------------------------------------------------
(* Properties                                                              *)

ReplyType ==
    [result : {"none", "found", "missing", "ambiguous", "error"}, id : Text]

CallOK(l) ==
    /\ DOMAIN l = DOMAIN IdleCall
    /\ l.phase \in {"idle", "consult", "fetch", "store", "search", "answered"}
    /\ l.query \in Queries \cup {NoQuery}
    /\ l.table \in Tables \cup {NoText} \cup ({l.query.scope} \cap IdLike)
    /\ l.fetched \in [DOMAIN l.fetched -> ServerIds]
    /\ l.todo \subseteq ServerIds
    /\ l.matches \subseteq ServerIds
    /\ l.reply \in ReplyType

\* The types; what is consulted, searched and found are ids of the server,
\* but for a scope that only looks like one.
ResolverTypeOK ==
    /\ DOMAIN directory \subseteq ServerIds
    /\ \A id \in DOMAIN directory : directory[id] \in Possible[id]
    /\ DOMAIN cache \subseteq Tables
    /\ \A t \in DOMAIN cache : cache[t] \in [DOMAIN cache[t] -> ServerIds]
    /\ holder \in Callers \cup {"nobody"}
    /\ DOMAIN call = Callers
    /\ \A c \in Callers : CallOK(call[c])
    /\ changes \in Nat /\ errors \in Nat /\ restarts \in Nat

Gets(c, result) == call[c].phase = "answered" /\ call[c].reply.result = result

\* The networks that a scope has stood for.
Scopes(scope) ==
    IF scope \in IdLike THEN {scope} ELSE {f[3] : f \in {g \in ever : g[1] = "network" /\ g[2] = scope}}

\* An id that is answered is one that the server has had for that name, in
\* that network if one was given, since the process started: neither another
\* kind of thing, nor a resource of another network, nor one remembered from
\* an earlier process.
AnswersSound ==
    \A c \in Callers : Gets(c, "found") =>
        LET q == call[c].query
            id == call[c].reply.id
        IN  \/ q.ref \in IdLike /\ id = q.ref
            \/ <<q.kind, q.ref, id>> \in ever
            \/ /\ q.kind = "resource"
               /\ \E net \in IF q.scope = NoText THEN {f[3] : f \in ever} ELSE Scopes(q.scope) :
                    <<net, q.ref, id>> \in ever

\* A name that has been there all the time is found: nothing is said to be
\* missing because an earlier load has failed, or because the table of
\* another network was looked at.
NothingOverlooked ==
    \A c \in Callers : Gets(c, "missing") =>
        LET q == call[c].query
            HeldBy(networkName) ==
                /\ <<"network", networkName>> \in always
                /\ \A net \in Scopes(networkName) : <<net, q.ref>> \in always
        IN  CASE q.kind # "resource" -> <<q.kind, q.ref>> \notin always
              [] q.kind = "resource" /\ q.scope \in IdLike -> <<q.scope, q.ref>> \notin always
              [] q.kind = "resource" /\ q.scope \in Text \ (IdLike \cup {NoText}) -> ~HeldBy(q.scope)
              [] OTHER -> \A n \in ThingNames \ IdLike : ~HeldBy(n)

\* The tables that a question depends on, and what they answer.
TablesFor(q) ==
    {FirstTable(q)} \cup
    IF q.kind # "resource" \/ q.scope \in IdLike \/ "network" \notin DOMAIN cache THEN {}
    ELSE IF q.scope = NoText THEN NetworksIn(cache["network"])
    ELSE {cache["network"][n] : n \in {q.scope} \cap DOMAIN cache["network"]}

Settled(q) == ~Shortcut(q) /\ TablesFor(q) \subseteq DOMAIN cache

Answer(q) ==
    LET named == {cache[t][q.ref] : t \in {u \in TablesFor(q) \ ({"network"} \cap {FirstTable(q)}) :
                                              q.ref \in DOMAIN cache[u]}}
    IN  IF q.ref \in IdLike THEN Found(q.ref)
        ELSE CASE named = {} -> Missing
               [] Cardinality(named) = 1 -> Found(CHOOSE id \in named : TRUE)
               [] OTHER -> Ambiguous

\* However a lookup has come by its reply, loading tables in between or not,
\* in whichever order it has searched the networks: it is what the tables
\* say, and every table it depends on is loaded.
RepliesAreAnswers ==
    \A c \in Callers :
        LET q == call[c].query
        IN  call[c].phase = "answered" /\ ~Gets(c, "error") /\ ~Shortcut(q) =>
                Settled(q) /\ call[c].reply = Answer(q)

\* A question that the tables settle stays settled, the same way, until the
\* process ends (lines 10-12): no pass sees another id than one before.  This
\* is why module Reconciler may take lookups to be a constant.
Memory == INSTANCE Memo WITH
    given <- [q \in {r \in Queries : Settled(r)} |-> Answer(q)],
    life  <- restarts

ImplementsMemo == Memory!Spec

\* Every lookup comes to an end, the search through all networks too.
LookupsEnd == \A c \in Callers : (call[c].phase # "idle") ~> (call[c].phase = "idle")

\* resolver.go:103: "every network is searched and a match is returned only
\* if exactly one resource has that name across all networks (ambiguity is
\* an error)".  Stated for a directory that does not change.
AmbiguityIsAnError ==
    \A c \in Callers : Unscoped(c) /\ Gets(c, "found") /\ ~Shortcut(call[c].query) =>
        Cardinality({id \in DOMAIN directory :
                        /\ directory[id].kind = "resource"
                        /\ call[c].query.ref \in directory[id].names}) = 1

=============================================================================
