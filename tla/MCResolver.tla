----------------------------- MODULE MCResolver -----------------------------
(***************************************************************************)
(* Instances of module Resolver for TLC: two networks that may have one    *)
(* name, a resource in each of them and a second one in the first, a peer  *)
(* with two names and a group.                                             *)
(***************************************************************************)
EXTENDS Resolver

MCText == STRING

MCServerIds == {"net1", "net2", "res1", "res2", "res3", "peer1", "group1"}

\* The scope of a label may be the id of a network; a reference may look like
\* an id and be none.
MCIdLike == {"net2", "nothing"}

Thing(kind, names) == [kind |-> kind, names |-> names, net |-> NoText]

Resource(names, net) == [kind |-> "resource", names |-> names, net |-> net]

MCPossible ==
    [id \in MCServerIds |->
        CASE id = "net1"   -> {Thing("network", {"home"}), Thing("network", {"lab"})}
          [] id = "net2"   -> {Thing("network", {"home"})}
          [] id = "res1"   -> {Resource({"db"}, "net1")}
          [] id = "res2"   -> {Resource({"db"}, "net2"), Resource({"web"}, "net2")}
          [] id = "res3"   -> {Resource({"db"}, "net1")}
          [] id = "peer1"  -> {Thing("peer", {"box", "host"}), Thing("peer", {"host"})}
          [] id = "group1" -> {Thing("group", {"home"})}]

All(ids, kind1) ==
    [id \in ids |-> IF id = "net1" THEN Thing("network", {kind1})
                    ELSE CHOOSE thing \in MCPossible[id] : "db" \in thing.names \/ thing.kind # "resource"]

MCDirectories == {All({"net1", "net2", "res1", "res2", "group1"}, "lab")}

Question(kind, ref, scope) == [kind |-> kind, ref |-> ref, scope |-> scope]

MCQueries ==
    {Question("peer", "host", NoText), Question("group", "nothing", NoText),
     Question("resource", "db", "lab"), Question("resource", "db", "net2"),
     Question("resource", "db", "nothing"),
     Question("resource", "db", NoText)}

\* What cannot change: two networks, named alike or not, each with a "db",
\* and a second one of that name in one of them or none.
StaticDirectories ==
    {All(ids \cup {"net1", "net2", "res1"}, kind1) :
        ids \in SUBSET {"res2", "res3"}, kind1 \in {"home", "lab"}}

StaticQueries == {Question("resource", "db", NoText), Question("resource", "db", "home")}

=============================================================================
