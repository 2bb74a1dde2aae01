--------------------------- MODULE ResolverProofs ---------------------------
(***************************************************************************)
(* Theorems about the resolver, for every directory and any number of      *)
(* goroutines, names, changes and failures.                                *)
(***************************************************************************)
EXTENDS Resolver, FiniteSetTheorems, TLAPS

-----------------------------------------------------------------------------
(* The inductive invariant                                                 *)

\* Lookups belong to passes, and passes do not overlap.
Alone == \A c \in Callers : call[c].phase # "idle" => holder = c

\* The history knows what is on the server now.
HistoryKept ==
    /\ Facts(directory) \subseteq ever
    /\ always \subseteq Present(directory)

\* Nothing is in a table that never was, and nothing is missing from it that
\* always was.
Faithful(t, table) ==
    /\ \A n \in DOMAIN table : <<t, n, table[n]>> \in ever
    /\ \A n \in ThingNames : <<t, n>> \in always => n \in DOMAIN table

CacheFaithful == \A t \in DOMAIN cache : Faithful(t, cache[t])

\* The state of a search through all networks: the networks are those of the
\* table, and what has been found is what the tables searched so far say.
Searching(l, tables) ==
    /\ "network" \in DOMAIN tables
    /\ l.todo \subseteq NetworksIn(tables["network"])
    /\ NetworksIn(tables["network"]) \ l.todo \subseteq DOMAIN tables
    /\ l.matches = {tables[t][l.query.ref] :
                       t \in {u \in NetworksIn(tables["network"]) \ l.todo :
                                 l.query.ref \in DOMAIN tables[u]}}

\* The table that is consulted is the one that the question is about.
Follows(l, tables) ==
    LET q == l.query
    IN  CASE q.kind # "resource" -> l.table = q.kind
          [] q.kind = "resource" /\ q.scope # NoText ->
               \/ l.table = FirstTable(q)
               \/ /\ q.scope \notin IdLike
                  /\ "network" \in DOMAIN tables
                  /\ q.scope \in DOMAIN tables["network"]
                  /\ l.table = tables["network"][q.scope]
          [] OTHER ->
               \/ l.table = "network" /\ l.matches = {}
               \/ l.table \in l.todo /\ Searching(l, tables)

\* Where a lookup is, and what it may rely on there.
LookupInv(l) ==
    /\ l.phase \in {"consult", "fetch", "store", "search"} =>
          l.query \in Queries /\ ~Shortcut(l.query)
    /\ l.phase \in {"consult", "fetch", "store"} => Follows(l, cache)
    /\ l.phase \in {"fetch", "store"} => l.table \notin DOMAIN cache
    /\ l.phase = "store" => l.table \in Tables /\ Faithful(l.table, l.fetched)
    /\ l.phase = "search" =>
          l.query.kind = "resource" /\ l.query.scope = NoText /\ Searching(l, cache)
    /\ l.phase = "answered" => l.query \in Queries
    /\ l.phase = "answered" /\ Shortcut(l.query) => l.reply = Found(l.query.ref)
    /\ l.phase = "answered" /\ ~Shortcut(l.query) /\ l.reply.result # "error" =>
          Settled(l.query) /\ l.reply = Answer(l.query)

ResolverInv ==
    /\ Alone
    /\ HistoryKept
    /\ CacheFaithful
    /\ \A c \in Callers : LookupInv(call[c])

-----------------------------------------------------------------------------
(* Listings and tables                                                     *)

\* Of the things that have a name, one is listed last.
LEMMA SomeIsLast ==
    ASSUME NEW ids, IsFiniteSet(ids), NEW place \in Bijection(ids, 1 .. Cardinality(ids)),
           NEW S \in SUBSET ids, S # {}
    PROVE  \E id \in S : \A other \in S : place[other] <= place[id]
<1> DEFINE N == Cardinality(ids)
           D == {N - place[id] : id \in S}
           R == OpToRel(<, Nat)
<1>1. N \in Nat
  BY FS_CardinalityType
<1> HIDE DEF N
<1>2. \A id \in ids : place[id] \in 1 .. N
  BY DEF Bijection, Injection, N
<1>3. D \subseteq Nat /\ D # {}
  BY <1>1, <1>2
<1>4. IsWellFoundedOn(R, Nat)
  BY NatLessThanWellFounded
<1>5. \A m, n \in Nat : n < m => <<n, m>> \in R
  BY DEF OpToRel
<1> HIDE DEF R
<1>6. PICK m \in D : \A n \in D : <<n, m>> \notin R
  BY <1>3, <1>4, WFMin
<1>7. PICK id \in S : m = N - place[id]
  OBVIOUS
<1>8. ASSUME NEW other \in S
      PROVE  place[other] <= place[id]
  <2>1. N - place[other] \in D /\ N - place[other] \in Nat /\ m \in Nat
    BY <1>3
  <2>2. ~(N - place[other] < m)
    BY <1>5, <1>6, <2>1
  <2> QED
    BY <1>1, <1>2, <1>7, <2>1, <2>2
<1> QED
  BY <1>8

\* What is loaded is what the server has now, under every name there is.
LEMMA ListingFaithful ==
    ASSUME ResolverTypeOK, NEW table, NEW listing \in Listings(table)
    PROVE  /\ listing \in [DOMAIN listing -> ServerIds]
           /\ \A n \in DOMAIN listing : <<table, n, listing[n]>> \in Facts(directory)
           /\ \A n : <<table, n>> \in Present(directory) => n \in DOMAIN listing
<1> DEFINE ids == In(table)
           names == UNION {directory[id].names : id \in ids}
           Lists(place, n, id) ==
              /\ n \in directory[id].names
              /\ \A other \in ids : n \in directory[other].names => place[other] <= place[id]
<1>1. ids \subseteq ServerIds /\ \A id \in ids : id \in DOMAIN directory /\ TableOf(directory[id]) = table
  BY DEF ResolverTypeOK, In
<1>2. IsFiniteSet(ids)
  BY <1>1, FS_Subset, ResolverAssumption
<1>3. PICK place \in Bijection(ids, 1 .. Cardinality(ids)) :
         listing = [n \in names |-> CHOOSE id \in ids : Lists(place, n, id)]
  BY DEF Listings, LastByName
<1>4. ASSUME NEW n \in names
      PROVE  listing[n] \in ids /\ n \in directory[listing[n]].names
  <2> DEFINE S == {id \in ids : n \in directory[id].names}
  <2>1. S \subseteq ids /\ S # {}
    OBVIOUS
  <2>2. \E id \in S : \A other \in S : place[other] <= place[id]
    BY <1>2, <2>1, SomeIsLast
  <2>3. \E id \in ids : Lists(place, n, id)
    BY <2>2
  <2> HIDE DEF Lists
  <2>4. listing[n] \in ids /\ Lists(place, n, listing[n])
    BY <1>3, <2>3
  <2> QED
    BY <2>4 DEF Lists
<1>5. DOMAIN listing = names
  BY <1>3
<1>6. listing \in [DOMAIN listing -> ServerIds]
  BY <1>1, <1>3, <1>4, <1>5
<1>7. \A n \in DOMAIN listing : <<table, n, listing[n]>> \in Facts(directory)
  BY <1>1, <1>4, <1>5 DEF Facts
<1>8. ASSUME NEW n, <<table, n>> \in Present(directory)
      PROVE  n \in names
  <2>1. PICK f \in Facts(directory) : f[1] = table /\ f[2] = n
    BY <1>8 DEF Present
  <2>2. PICK id \in DOMAIN directory : \E m \in directory[id].names : f = <<TableOf(directory[id]), m, id>>
    BY DEF Facts
  <2>3. TableOf(directory[id]) = table /\ n \in directory[id].names
    BY <2>1, <2>2
  <2> QED
    BY <2>3 DEF In
<1> QED
  BY <1>5, <1>6, <1>7, <1>8

-----------------------------------------------------------------------------
(* The types                                                               *)

\* The fields of a lookup after each of its steps.
LEMMA Fields ==
    ASSUME NEW l, CallOK(l), NEW x, NEW y, NEW z
    PROVE  /\ LET m == [l EXCEPT !.phase = x]
              IN  /\ DOMAIN m = DOMAIN l /\ m.phase = x /\ m.query = l.query
                  /\ m.table = l.table /\ m.fetched = l.fetched /\ m.todo = l.todo
                  /\ m.matches = l.matches /\ m.reply = l.reply
           /\ LET m == [l EXCEPT !.phase = x, !.fetched = y]
              IN  /\ DOMAIN m = DOMAIN l /\ m.phase = x /\ m.query = l.query
                  /\ m.table = l.table /\ m.fetched = y /\ m.todo = l.todo
                  /\ m.matches = l.matches /\ m.reply = l.reply
           /\ LET m == [l EXCEPT !.table = x]
              IN  /\ DOMAIN m = DOMAIN l /\ m.phase = l.phase /\ m.query = l.query
                  /\ m.table = x /\ m.fetched = l.fetched /\ m.todo = l.todo
                  /\ m.matches = l.matches /\ m.reply = l.reply
           /\ LET m == [l EXCEPT !.phase = x, !.table = y]
              IN  /\ DOMAIN m = DOMAIN l /\ m.phase = x /\ m.query = l.query
                  /\ m.table = y /\ m.fetched = l.fetched /\ m.todo = l.todo
                  /\ m.matches = l.matches /\ m.reply = l.reply
           /\ LET m == [l EXCEPT !.phase = x, !.todo = y]
              IN  /\ DOMAIN m = DOMAIN l /\ m.phase = x /\ m.query = l.query
                  /\ m.table = l.table /\ m.fetched = l.fetched /\ m.todo = y
                  /\ m.matches = l.matches /\ m.reply = l.reply
           /\ LET m == [l EXCEPT !.phase = x, !.todo = y, !.matches = z]
              IN  /\ DOMAIN m = DOMAIN l /\ m.phase = x /\ m.query = l.query
                  /\ m.table = l.table /\ m.fetched = l.fetched /\ m.todo = y
                  /\ m.matches = z /\ m.reply = l.reply
BY DEF CallOK, IdleCall

\* The fields of a lookup that begins and of one that is answered.
LEMMA FreshFields ==
    ASSUME NEW q, NEW x
    PROVE  /\ LET m == [IdleCall EXCEPT !.phase = "answered", !.query = q, !.reply = x]
              IN  /\ DOMAIN m = DOMAIN IdleCall /\ m.phase = "answered" /\ m.query = q
                  /\ m.table = NoText /\ DOMAIN m.fetched = {} /\ m.todo = {}
                  /\ m.matches = {} /\ m.reply = x
                  /\ m.fetched \in [DOMAIN m.fetched -> ServerIds]
           /\ LET m == [IdleCall EXCEPT !.phase = "consult", !.query = q, !.table = x]
              IN  /\ DOMAIN m = DOMAIN IdleCall /\ m.phase = "consult" /\ m.query = q
                  /\ m.table = x /\ DOMAIN m.fetched = {} /\ m.todo = {}
                  /\ m.matches = {} /\ m.reply = NoReply
                  /\ m.fetched \in [DOMAIN m.fetched -> ServerIds]
BY DEF IdleCall

\* An idle caller is typed.
LEMMA IdleTyped == CallOK(IdleCall)
<1>1. NoText \in Text
  BY TextAssumption
<1> QED
  BY <1>1 DEF CallOK, IdleCall, NoReply, ReplyType

\* What looking into a table answers.
LEMMA LookInTyped ==
    ASSUME NEW table, table \in [DOMAIN table -> ServerIds], NEW ref
    PROVE  LookIn(table, ref) \in ReplyType
BY ResolverAssumption, TextAssumption DEF LookIn, Found, Missing, ReplyType

\* Things that stay where they are stay typed.
LEMMA DirectoryTyped ==
    ASSUME ResolverTypeOK, DirectoryChanges
    PROVE  /\ DOMAIN directory' \subseteq ServerIds
           /\ \A id \in DOMAIN directory' : directory'[id] \in Possible[id]
<1>1. \A id \in ServerIds : \A thing \in Possible[id] :
         directory' = Put(id, thing) =>
            /\ DOMAIN directory' \subseteq ServerIds
            /\ \A i \in DOMAIN directory' : directory'[i] \in Possible[i]
  BY DEF ResolverTypeOK, Put
<1>2. \A gone : directory' = Removed(gone) =>
            /\ DOMAIN directory' \subseteq ServerIds
            /\ \A i \in DOMAIN directory' : directory'[i] \in Possible[i]
  BY DEF ResolverTypeOK, Removed
<1> QED
  BY <1>1, <1>2 DEF DirectoryChanges

\* A step of one lookup keeps the types if it leaves that lookup typed.
LEMMA OneTyped ==
    ASSUME ResolverTypeOK, NEW c \in Callers, NEW l, CallOK(l),
           call' = [call EXCEPT ![c] = l],
           UNCHANGED <<directory, cache, holder, changes, errors, restarts>>
    PROVE  ResolverTypeOK'
<1>1. DOMAIN call' = Callers /\ \A d \in Callers : CallOK(call'[d])
  BY DEF ResolverTypeOK
<1> QED
  BY <1>1 DEF ResolverTypeOK

-----------------------------------------------------------------------------
(* Steps                                                                   *)

\* A step that moves one lookup and leaves the tables alone.
LEMMA OneMoves ==
    ASSUME ResolverTypeOK, ResolverInv, NEW c \in Callers, NEW p,
           CallOK(p), LookupInv(p), p.phase # "idle" => holder = c,
           call' = [call EXCEPT ![c] = p],
           UNCHANGED <<directory, cache, holder, history>>
    PROVE  ResolverInv'
<1>1. DOMAIN call = Callers
  BY DEF ResolverTypeOK
<1>2. call'[c] = p /\ \A d \in Callers \ {c} : call'[d] = call[d]
  BY <1>1
<1>3. Alone'
  BY <1>2 DEF ResolverInv, Alone
<1>4. HistoryKept' /\ CacheFaithful'
  BY DEF ResolverInv, HistoryKept, CacheFaithful, Faithful, history, Facts, Present
<1>5. ASSUME NEW d \in Callers
      PROVE  LookupInv(call[d])'
  <2>1. LookupInv(call'[d])
    BY <1>2 DEF ResolverInv
  <2>2. Settled(call[d].query)' <=> Settled(call'[d].query)
    BY DEF Settled, TablesFor
  <2>3. Answer(call[d].query)' = Answer(call'[d].query)
    BY DEF Answer, TablesFor
  <2> QED
    BY <2>1, <2>2, <2>3 DEF LookupInv, Faithful, history
<1> QED
  BY <1>3, <1>4, <1>5 DEF ResolverInv

\* What a step of one lookup has to show.
LEMMA GoesOn ==
    ASSUME ResolverTypeOK, ResolverInv, NEW c \in Callers, NEW p,
           CallOK(p), LookupInv(p), p.phase # "idle" => holder = c, Goes(c, p)
    PROVE  ResolverTypeOK' /\ ResolverInv'
<1>1. ResolverTypeOK'
  BY OneTyped DEF Goes
<1>2. ResolverInv'
  BY OneMoves DEF Goes
<1> QED
  BY <1>1, <1>2

\* The end of a lookup: an error, or what the tables say.
LEMMA AnsweredIsGood ==
    ASSUME NEW c, NEW r \in ReplyType, call[c].query \in Queries, ~Shortcut(call[c].query),
           r.result # "error" => Settled(call[c].query) /\ r = Answer(call[c].query)
    PROVE  CallOK(Answered(c, r)) /\ LookupInv(Answered(c, r)) /\ Answered(c, r).phase = "answered"
<1> DEFINE p == Answered(c, r)
<1>1. /\ DOMAIN p = DOMAIN IdleCall /\ p.phase = "answered" /\ p.query = call[c].query
      /\ p.table = NoText /\ p.fetched \in [DOMAIN p.fetched -> ServerIds] /\ p.todo = {}
      /\ p.matches = {} /\ p.reply = r
  BY FreshFields DEF Answered
<1> HIDE DEF p
<1>2. CallOK(p)
  BY <1>1 DEF CallOK
<1>3. LookupInv(p)
  BY <1>1 DEF LookupInv
<1> QED
  BY <1>1, <1>2, <1>3 DEF p

\* A question is put.
LEMMA AskKeeps ==
    ASSUME ResolverTypeOK, ResolverInv, NEW c \in Callers, NEW q \in Queries, Ask(c, q)
    PROVE  ResolverTypeOK' /\ ResolverInv'
<1>1. q \in QueryType /\ q.ref \in Text
  BY ResolverAssumption DEF QueryType
<1>2. CASE Shortcut(q)
  <2> DEFINE p == [IdleCall EXCEPT !.phase = "answered", !.query = q, !.reply = Found(q.ref)]
  <2>1. /\ DOMAIN p = DOMAIN IdleCall /\ p.phase = "answered" /\ p.query = q
        /\ p.table = NoText /\ p.fetched \in [DOMAIN p.fetched -> ServerIds] /\ p.todo = {}
        /\ p.matches = {} /\ p.reply = Found(q.ref)
    BY FreshFields
  <2>2. Goes(c, p) /\ holder = c
    BY <1>2 DEF Ask
  <2> HIDE DEF p
  <2>3. CallOK(p)
    BY <1>1, <2>1 DEF CallOK, Found, ReplyType
  <2>4. LookupInv(p)
    BY <1>2, <2>1 DEF LookupInv
  <2> QED
    BY <2>2, <2>3, <2>4, GoesOn
<1>3. CASE ~Shortcut(q)
  <2> DEFINE p == [IdleCall EXCEPT !.phase = "consult", !.query = q, !.table = FirstTable(q)]
  <2>1. /\ DOMAIN p = DOMAIN IdleCall /\ p.phase = "consult" /\ p.query = q
        /\ p.table = FirstTable(q) /\ p.fetched \in [DOMAIN p.fetched -> ServerIds]
        /\ p.todo = {} /\ p.matches = {} /\ p.reply = NoReply
    BY FreshFields
  <2>2. Goes(c, p) /\ holder = c
    BY <1>3 DEF Ask
  <2> HIDE DEF p
  <2>3. FirstTable(q) \in Tables \cup ({q.scope} \cap IdLike)
    BY <1>1 DEF FirstTable, QueryType, Tables, Kinds
  <2>4. CallOK(p)
    BY <2>1, <2>3, TextAssumption DEF CallOK, NoReply, ReplyType
  <2>5. Follows(p, cache)
    BY <1>1, <2>1, ResolverAssumption DEF Follows, FirstTable, QueryType
  <2>6. LookupInv(p)
    BY <1>3, <2>1, <2>5 DEF LookupInv
  <2> QED
    BY <2>2, <2>4, <2>6, GoesOn
<1> QED
  BY <1>2, <1>3

\* An answer is taken.
LEMMA TakeKeeps ==
    ASSUME ResolverTypeOK, ResolverInv, NEW c \in Callers, Take(c)
    PROVE  ResolverTypeOK' /\ ResolverInv'
<1>1. LookupInv(IdleCall) /\ IdleCall.phase = "idle"
  BY DEF LookupInv, IdleCall
<1> QED
  BY <1>1, IdleTyped, GoesOn DEF Take

\* A table that is not there is fetched, or the lookup fails.
LEMMA FetchKeeps ==
    ASSUME ResolverTypeOK, ResolverInv, NEW c \in Callers,
           Miss(c) \/ Fetch(c) \/ FetchFails(c)
    PROVE  ResolverTypeOK' /\ ResolverInv'
<1> DEFINE l == call[c]
<1>1. CallOK(l) /\ LookupInv(l) /\ l.phase # "idle" /\ l.phase \in {"consult", "fetch"} /\ holder = c
  BY DEF ResolverTypeOK, ResolverInv, Alone, Miss, Fetch, FetchFails
<1>2. CASE Miss(c)
  <2> DEFINE p == [l EXCEPT !.phase = "fetch"]
  <2>1. /\ DOMAIN p = DOMAIN l /\ p.phase = "fetch" /\ p.query = l.query
        /\ p.table = l.table /\ p.fetched = l.fetched /\ p.todo = l.todo
        /\ p.matches = l.matches /\ p.reply = l.reply
    BY <1>1, Fields
  <2>2. Goes(c, p) /\ l.phase = "consult" /\ l.table \notin DOMAIN cache
    BY <1>2 DEF Miss
  <2> HIDE DEF p
  <2>3. CallOK(p)
    BY <1>1, <2>1 DEF CallOK
  <2>4. Follows(p, cache)
    BY <1>1, <2>1 DEF LookupInv, Follows, Searching
  <2>5. LookupInv(p)
    BY <1>1, <2>1, <2>2, <2>4 DEF LookupInv
  <2> QED
    BY <1>1, <2>2, <2>3, <2>5, GoesOn
<1>3. CASE Fetch(c)
  <2>1. PICK listing \in Listings(l.table) : Goes(c, [l EXCEPT !.phase = "store", !.fetched = listing])
    BY <1>3 DEF Fetch
  <2> DEFINE p == [l EXCEPT !.phase = "store", !.fetched = listing]
  <2>2. /\ DOMAIN p = DOMAIN l /\ p.phase = "store" /\ p.query = l.query
        /\ p.table = l.table /\ p.fetched = listing /\ p.todo = l.todo
        /\ p.matches = l.matches /\ p.reply = l.reply
    BY <1>1, Fields
  <2>3. Goes(c, p) /\ l.phase = "fetch" /\ Listed(l.table)
    BY <1>3, <2>1 DEF Fetch
  <2> HIDE DEF p
  <2>4. /\ listing \in [DOMAIN listing -> ServerIds]
        /\ \A n \in DOMAIN listing : <<l.table, n, listing[n]>> \in Facts(directory)
        /\ \A n : <<l.table, n>> \in Present(directory) => n \in DOMAIN listing
    BY ListingFaithful
  <2>5. l.table \in Tables
    BY <2>3 DEF Listed, Tables, ResolverTypeOK
  <2>6. Faithful(p.table, p.fetched)
    BY <2>2, <2>4 DEF Faithful, ResolverInv, HistoryKept
  <2>7. CallOK(p)
    BY <1>1, <2>2, <2>4 DEF CallOK
  <2>8. Follows(p, cache)
    BY <1>1, <2>2, <2>3 DEF LookupInv, Follows, Searching
  <2>9. LookupInv(p)
    BY <1>1, <2>2, <2>3, <2>5, <2>6, <2>8 DEF LookupInv
  <2> QED
    BY <1>1, <2>3, <2>7, <2>9, GoesOn
<1>4. CASE FetchFails(c)
  <2> DEFINE p == Answered(c, Failed)
  <2>1. l.phase = "fetch" /\ call' = [call EXCEPT ![c] = p]
        /\ UNCHANGED <<directory, cache, holder, changes, restarts, history>>
    BY <1>4 DEF FetchFails
  <2>2. Failed \in ReplyType /\ Failed.result = "error"
    BY TextAssumption DEF Failed, ReplyType
  <2>3. CallOK(p) /\ LookupInv(p) /\ p.phase = "answered"
    BY <1>1, <2>1, <2>2, AnsweredIsGood DEF LookupInv
  <2> HIDE DEF p
  <2>4. ResolverInv'
    BY <1>1, <2>1, <2>3, OneMoves
  <2>5. errors' \in Nat
    BY <1>4 DEF FetchFails, ResolverTypeOK
  <2>6. DOMAIN call' = Callers /\ \A d \in Callers : CallOK(call'[d])
    BY <2>1, <2>3 DEF ResolverTypeOK
  <2>7. ResolverTypeOK'
    BY <2>1, <2>5, <2>6 DEF ResolverTypeOK
  <2> QED
    BY <2>4, <2>7
<1> QED
  BY <1>2, <1>3, <1>4

\* A question that one table answers is answered as the table says.
LEMMA AnswerOfOne ==
    ASSUME NEW q, NEW t, q.ref \notin IdLike,
           TablesFor(q) \ ({"network"} \cap {FirstTable(q)}) = {t}
    PROVE  Answer(q) = LookIn(cache[t], q.ref)
<1> DEFINE named == {cache[u][q.ref] : u \in {v \in TablesFor(q) \ ({"network"} \cap {FirstTable(q)}) :
                                                q.ref \in DOMAIN cache[v]}}
<1>1. named = {cache[u][q.ref] : u \in {v \in {t} : q.ref \in DOMAIN cache[v]}}
  OBVIOUS
<1>2. Answer(q) = CASE named = {} -> Missing
                    [] Cardinality(named) = 1 -> Found(CHOOSE id \in named : TRUE)
                    [] OTHER -> Ambiguous
  BY Zenon DEF Answer
<1> HIDE DEF named
<1>3. CASE q.ref \notin DOMAIN cache[t]
  <2>1. named = {}
    BY <1>1, <1>3
  <2>2. Cardinality(named) # 1
    BY <2>1, FS_EmptySet
  <2>3. Answer(q) = Missing
    BY <1>2, <2>1, <2>2
  <2>4. LookIn(cache[t], q.ref) = Missing
    BY <1>3 DEF LookIn
  <2> QED
    BY <2>3, <2>4, Zenon
<1>4. CASE q.ref \in DOMAIN cache[t]
  <2>1. named = {cache[t][q.ref]}
    BY <1>1, <1>4
  <2>2. Cardinality(named) = 1 /\ named # {}
    BY <2>1, FS_Singleton
  <2>3. (CHOOSE id \in named : TRUE) = cache[t][q.ref]
    BY <2>1
  <2>4. Answer(q) = Found(CHOOSE id \in named : TRUE)
    BY <1>2, <2>2
  <2>5. LookIn(cache[t], q.ref) = Found(cache[t][q.ref])
    BY <1>4 DEF LookIn
  <2> QED
    BY <2>3, <2>4, <2>5, Zenon
<1> QED
  BY <1>3, <1>4

\* What the tables answer is looked up in one of them.
LEMMA LookUpKeeps ==
    ASSUME ResolverTypeOK, ResolverInv, NEW c \in Callers,
           LookUp(c) \/ FindResource(c)
    PROVE  ResolverTypeOK' /\ ResolverInv'
<1> DEFINE l == call[c]
           q == l.query
<1>1. /\ CallOK(l) /\ LookupInv(l) /\ l.phase = "consult" /\ holder = c
      /\ q \in Queries /\ ~Shortcut(q) /\ Follows(l, cache) /\ q \in QueryType
  BY ResolverAssumption
  DEF ResolverTypeOK, ResolverInv, Alone, LookUp, FindResource, Consults, LookupInv
<1>2. CASE LookUp(c)
  <2>1. PICK t \in DOMAIN cache :
          /\ l.table = t
          /\ Goes(c, Answered(c, IF q.ref \in IdLike THEN Found(q.ref) ELSE LookIn(cache[t], q.ref)))
    BY <1>2 DEF LookUp, Consults
  <2> DEFINE r == IF q.ref \in IdLike THEN Found(q.ref) ELSE LookIn(cache[t], q.ref)
  <2>2. r \in ReplyType
    BY <1>1, LookInTyped DEF ResolverTypeOK, Found, ReplyType, QueryType
  <2>3. q.kind # "resource" /\ t = q.kind /\ t # "network" /\ FirstTable(q) = t
    BY <1>1, <1>2, <2>1 DEF LookUp, Follows, FirstTable, QueryType, Kinds
  <2>4. TablesFor(q) = {t}
    BY <2>3 DEF TablesFor
  <2>5. Settled(q)
    BY <1>1, <2>4 DEF Settled
  <2>6. r = Answer(q)
    <3>1. TablesFor(q) \ ({"network"} \cap {FirstTable(q)}) = {t}
      BY <2>3, <2>4
    <3>2. CASE q.ref \in IdLike
      BY <3>2 DEF Answer
    <3>3. CASE q.ref \notin IdLike
      BY <3>1, <3>3, AnswerOfOne
    <3> QED
      BY <3>2, <3>3
  <2> HIDE DEF r
  <2> QED
    BY <1>1, <2>1, <2>2, <2>5, <2>6, AnsweredIsGood, GoesOn DEF r
<1>3. CASE FindResource(c)
  <2>1. PICK t \in DOMAIN cache \ Kinds : l.table = t /\ Goes(c, Answered(c, LookIn(cache[t], q.ref)))
    BY <1>3 DEF FindResource, Consults
  <2> DEFINE r == LookIn(cache[t], q.ref)
  <2>2. r \in ReplyType
    BY LookInTyped DEF ResolverTypeOK
  <2>3. q.kind = "resource" /\ q.scope # NoText /\ t # "network" /\ q.ref \notin IdLike
    BY <1>1, <1>3, <2>1 DEF FindResource, Scoped, Kinds, Shortcut
  <2>4. TablesFor(q) \ ({"network"} \cap {FirstTable(q)}) = {t} /\ TablesFor(q) \subseteq DOMAIN cache
    <3>1. CASE q.scope \in IdLike
      BY <1>1, <2>1, <2>3, <3>1 DEF Follows, FirstTable, TablesFor
    <3>2. CASE q.scope \notin IdLike
      <4>1. FirstTable(q) = "network"
        BY <2>3, <3>2 DEF FirstTable
      <4>2. "network" \in DOMAIN cache /\ q.scope \in DOMAIN cache["network"] /\ t = cache["network"][q.scope]
        BY <1>1, <2>1, <2>3, <4>1 DEF Follows
      <4> QED
        BY <2>1, <2>3, <3>2, <4>1, <4>2 DEF TablesFor
    <3> QED
      BY <3>1, <3>2
  <2>5. Settled(q)
    BY <1>1, <2>4 DEF Settled
  <2>6. r = Answer(q)
    BY <2>3, <2>4, AnswerOfOne
  <2> HIDE DEF r
  <2> QED
    BY <1>1, <2>1, <2>2, <2>5, <2>6, AnsweredIsGood, GoesOn DEF r
<1> QED
  BY <1>2, <1>3

\* A table that is loaded changes nothing for what has been searched.
LEMMA SearchingOn ==
    ASSUME NEW l, NEW m, m.query = l.query, m.todo = l.todo, m.matches = l.matches,
           NEW tables, NEW more, DOMAIN tables \subseteq DOMAIN more,
           \A t \in DOMAIN tables : more[t] = tables[t],
           Searching(l, tables)
    PROVE  Searching(m, more)
<1>1. "network" \in DOMAIN tables /\ more["network"] = tables["network"]
  BY DEF Searching
<1> DEFINE done == NetworksIn(tables["network"]) \ l.todo
<1>2. done \subseteq DOMAIN tables
  BY DEF Searching
<1>3. {more[t][l.query.ref] : t \in {u \in done : l.query.ref \in DOMAIN more[u]}}
        = {tables[t][l.query.ref] : t \in {u \in done : l.query.ref \in DOMAIN tables[u]}}
  BY <1>2
<1> QED
  BY <1>1, <1>2, <1>3 DEF Searching

\* Nor for what is being looked up.
LEMMA FollowsOn ==
    ASSUME NEW l, NEW m, m.query = l.query, m.table = l.table, m.todo = l.todo,
           m.matches = l.matches,
           NEW tables, NEW more, DOMAIN tables \subseteq DOMAIN more,
           \A t \in DOMAIN tables : more[t] = tables[t],
           Follows(l, tables)
    PROVE  Follows(m, more)
<1>1. Searching(l, tables) => Searching(m, more)
  BY SearchingOn
<1>2. CASE l.query.kind # "resource"
  BY <1>2 DEF Follows
<1>3. CASE l.query.kind = "resource" /\ l.query.scope # NoText
  BY <1>3 DEF Follows
<1>4. CASE l.query.kind = "resource" /\ l.query.scope = NoText
  BY <1>1, <1>4 DEF Follows
<1> QED
  BY <1>2, <1>3, <1>4

\* What has been fetched is stored.
LEMMA StoreKeeps ==
    ASSUME ResolverTypeOK, ResolverInv, NEW c \in Callers, Store(c)
    PROVE  ResolverTypeOK' /\ ResolverInv'
<1> DEFINE l == call[c]
           t == l.table
           p == [l EXCEPT !.phase = "consult", !.fetched = IdleCall.fetched]
<1>1. /\ CallOK(l) /\ l.phase = "store" /\ holder = c
      /\ l.query \in Queries /\ ~Shortcut(l.query) /\ Follows(l, cache)
      /\ t \notin DOMAIN cache /\ t \in Tables /\ Faithful(t, l.fetched)
  BY DEF ResolverTypeOK, ResolverInv, Alone, Store, LookupInv
<1>2. /\ cache' = [u \in DOMAIN cache \cup {t} |-> IF u = t THEN l.fetched ELSE cache[u]]
      /\ UNCHANGED <<directory, holder, changes, errors, restarts, ever, always>>
  BY <1>1 DEF Store, Loaded, history
<1>3. /\ DOMAIN cache' = DOMAIN cache \cup {t} /\ cache'[t] = l.fetched
      /\ \A u \in DOMAIN cache : cache'[u] = cache[u]
  BY <1>1, <1>2
<1>4. call' = [call EXCEPT ![c] = p] /\ DOMAIN call = Callers
  BY DEF Store, ResolverTypeOK
<1>5. /\ DOMAIN p = DOMAIN l /\ p.phase = "consult" /\ p.query = l.query
      /\ p.table = l.table /\ p.fetched = IdleCall.fetched /\ p.todo = l.todo
      /\ p.matches = l.matches /\ p.reply = l.reply
  BY <1>1, Fields
<1> HIDE DEF p
<1>6. CallOK(p)
  BY <1>1, <1>5, IdleTyped DEF CallOK
<1>7. call'[c] = p /\ \A d \in Callers \ {c} : call'[d] = call[d]
  BY <1>4
<1>8. ResolverTypeOK'
  <2>1. DOMAIN cache' \subseteq Tables
    BY <1>1, <1>3 DEF ResolverTypeOK
  <2>2. \A u \in DOMAIN cache' : cache'[u] \in [DOMAIN cache'[u] -> ServerIds]
    BY <1>1, <1>3 DEF ResolverTypeOK, CallOK
  <2>3. DOMAIN call' = Callers /\ \A d \in Callers : CallOK(call'[d])
    BY <1>4, <1>6, <1>7 DEF ResolverTypeOK
  <2> QED
    BY <1>2, <2>1, <2>2, <2>3 DEF ResolverTypeOK
<1>9. Alone'
  BY <1>1, <1>2, <1>7 DEF ResolverInv, Alone
<1>10. HistoryKept'
  BY <1>2 DEF ResolverInv, HistoryKept, Facts, Present
<1>11. CacheFaithful'
  BY <1>1, <1>2, <1>3 DEF ResolverInv, CacheFaithful, Faithful
<1>12. ASSUME NEW d \in Callers
       PROVE  LookupInv(call[d])'
  <2>1. CASE d = c
    <3>1. Follows(p, cache')
      BY <1>1, <1>3, <1>5, FollowsOn
    <3>2. call'[d] = p
      BY <1>7, <2>1
    <3> QED
      BY <1>1, <1>5, <3>1, <3>2 DEF LookupInv
  <2>2. CASE d # c
    <3>1. call'[d] = call[d] /\ call[d].phase = "idle"
      BY <1>1, <1>7, <2>2 DEF ResolverInv, Alone
    <3> QED
      BY <3>1 DEF LookupInv
  <2> QED
    BY <2>1, <2>2
<1> QED
  BY <1>8, <1>9, <1>10, <1>11, <1>12 DEF ResolverInv

\* The scope of a resource is looked up among the networks.
LEMMA FindNetworkKeeps ==
    ASSUME ResolverTypeOK, ResolverInv, NEW c \in Callers, FindNetwork(c)
    PROVE  ResolverTypeOK' /\ ResolverInv'
<1> DEFINE l == call[c]
           q == l.query
           r == LookIn(cache["network"], q.scope)
<1>1. /\ CallOK(l) /\ LookupInv(l) /\ l.phase = "consult" /\ holder = c /\ l.table = "network"
      /\ "network" \in DOMAIN cache /\ q.kind = "resource" /\ q.scope # NoText
      /\ q \in Queries /\ ~Shortcut(q) /\ Follows(l, cache) /\ q \in QueryType
  BY ResolverAssumption
  DEF ResolverTypeOK, ResolverInv, Alone, FindNetwork, Scoped, Consults, LookupInv
<1>2. cache["network"] \in [DOMAIN cache["network"] -> ServerIds]
  BY <1>1 DEF ResolverTypeOK
<1>3. q.scope \notin IdLike /\ FirstTable(q) = "network"
  BY <1>1, <1>2, ResolverAssumption DEF Follows, FirstTable, Kinds
<1>4. CASE q.scope \notin DOMAIN cache["network"]
  <2>1. r = Missing
    BY <1>4 DEF LookIn
  <2>2. Goes(c, Answered(c, Missing))
    BY <2>1 DEF FindNetwork
  <2>3. Missing \in ReplyType
    BY TextAssumption DEF Missing, ReplyType
  <2>4. TablesFor(q) = {"network"}
    BY <1>1, <1>3, <1>4 DEF TablesFor
  <2>5. Settled(q)
    BY <1>1, <2>4 DEF Settled
  <2>6. Answer(q) = Missing
    <3> DEFINE named == {cache[t][q.ref] : t \in {u \in TablesFor(q) \ ({"network"} \cap {FirstTable(q)}) :
                                              q.ref \in DOMAIN cache[u]}}
    <3>1. named = {}
      BY <1>3, <2>4
    <3>2. q.ref \notin IdLike
      BY <1>1 DEF Shortcut
    <3>3. Answer(q) = CASE named = {} -> Missing
                        [] Cardinality(named) = 1 -> Found(CHOOSE id \in named : TRUE)
                        [] OTHER -> Ambiguous
      BY <3>2 DEF Answer
    <3> HIDE DEF named
    <3>4. Cardinality(named) # 1
      BY <3>1, FS_EmptySet
    <3> QED
      BY <3>1, <3>3, <3>4
  <2> QED
    BY <1>1, <2>2, <2>3, <2>5, <2>6, AnsweredIsGood, GoesOn
<1>5. CASE q.scope \in DOMAIN cache["network"]
  <2> DEFINE p == [l EXCEPT !.table = cache["network"][q.scope]]
  <2>1. /\ DOMAIN p = DOMAIN l /\ p.phase = l.phase /\ p.query = l.query
        /\ p.table = cache["network"][q.scope] /\ p.fetched = l.fetched /\ p.todo = l.todo
        /\ p.matches = l.matches /\ p.reply = l.reply
    BY <1>1, Fields
  <2>2. r.id = cache["network"][q.scope] /\ r # Missing
    BY <1>5 DEF LookIn, Found, Missing
  <2>3. Goes(c, p)
    BY <2>2 DEF FindNetwork
  <2> HIDE DEF p
  <2>4. CallOK(p)
    BY <1>1, <1>2, <1>5, <2>1 DEF CallOK, Tables
  <2>5. Follows(p, cache)
    BY <1>1, <1>3, <1>5, <2>1 DEF Follows
  <2>6. LookupInv(p)
    BY <1>1, <2>1, <2>5 DEF LookupInv
  <2> QED
    BY <1>1, <2>3, <2>4, <2>6, GoesOn
<1> QED
  BY <1>4, <1>5

\* The networks are searched, one after the other.
LEMMA SearchKeeps ==
    ASSUME ResolverTypeOK, ResolverInv, NEW c \in Callers,
           SearchBegins(c) \/ SearchNext(c) \/ SearchOne(c)
    PROVE  ResolverTypeOK' /\ ResolverInv'
<1> DEFINE l == call[c]
           q == l.query
<1>1. /\ CallOK(l) /\ LookupInv(l) /\ l.phase \in {"consult", "search"} /\ holder = c
      /\ q \in Queries /\ ~Shortcut(q) /\ q \in QueryType
  BY ResolverAssumption
  DEF ResolverTypeOK, ResolverInv, Alone, SearchBegins, SearchNext, SearchOne, Consults, LookupInv
<1>2. CASE SearchBegins(c)
  <2> DEFINE p == [l EXCEPT !.phase = "search", !.todo = NetworksIn(cache["network"])]
  <2>1. /\ DOMAIN p = DOMAIN l /\ p.phase = "search" /\ p.query = l.query
        /\ p.table = l.table /\ p.fetched = l.fetched /\ p.todo = NetworksIn(cache["network"])
        /\ p.matches = l.matches /\ p.reply = l.reply
    BY <1>1, Fields
  <2>2. /\ Goes(c, p) /\ l.phase = "consult" /\ l.table = "network" /\ "network" \in DOMAIN cache
        /\ q.kind = "resource" /\ q.scope = NoText
    BY <1>2 DEF SearchBegins, Unscoped, Consults
  <2> HIDE DEF p
  <2>3. NetworksIn(cache["network"]) \subseteq ServerIds
    BY <2>2 DEF NetworksIn, ResolverTypeOK
  <2>4. CallOK(p)
    BY <1>1, <2>1, <2>3 DEF CallOK
  <2>5. "network" \notin ServerIds
    BY ResolverAssumption DEF Kinds
  <2>6. l.matches = {}
    BY <1>1, <2>2, <2>5 DEF LookupInv, Follows, CallOK
  <2>7. Searching(p, cache)
    BY <2>1, <2>2, <2>6 DEF Searching
  <2>8. LookupInv(p)
    BY <1>1, <2>1, <2>2, <2>7 DEF LookupInv
  <2> QED
    BY <1>1, <2>2, <2>4, <2>8, GoesOn
<1>3. CASE SearchNext(c)
  <2>1. PICK t \in l.todo : Goes(c, [l EXCEPT !.phase = "consult", !.table = t])
    BY <1>3 DEF SearchNext
  <2> DEFINE p == [l EXCEPT !.phase = "consult", !.table = t]
  <2>2. /\ DOMAIN p = DOMAIN l /\ p.phase = "consult" /\ p.query = l.query
        /\ p.table = t /\ p.fetched = l.fetched /\ p.todo = l.todo
        /\ p.matches = l.matches /\ p.reply = l.reply
    BY <1>1, Fields
  <2>3. Goes(c, p) /\ q.kind = "resource" /\ q.scope = NoText /\ Searching(l, cache)
    BY <1>1, <1>3, <2>1 DEF SearchNext, LookupInv
  <2> HIDE DEF p
  <2>4. CallOK(p)
    BY <1>1, <2>2 DEF CallOK, Tables
  <2>5. Searching(p, cache)
    BY <2>2, <2>3, SearchingOn
  <2>6. Follows(p, cache)
    BY <2>2, <2>3, <2>5 DEF Follows
  <2>7. LookupInv(p)
    BY <1>1, <2>2, <2>6 DEF LookupInv
  <2> QED
    BY <1>1, <2>3, <2>4, <2>7, GoesOn
<1>4. CASE SearchOne(c)
  <2>1. PICK t \in DOMAIN cache \ Kinds :
          /\ Consults(c, t)
          /\ LET s == LookIn(cache[t], q.ref)
             IN  Goes(c, [l EXCEPT !.phase = "search", !.todo = @ \ {t},
                                   !.matches = @ \cup ({s.id} \ {NoText})])
    BY <1>4 DEF SearchOne
  <2> DEFINE new == {LookIn(cache[t], q.ref).id} \ {NoText}
             p == [l EXCEPT !.phase = "search", !.todo = l.todo \ {t},
                            !.matches = l.matches \cup new]
  <2>2. /\ DOMAIN p = DOMAIN l /\ p.phase = "search" /\ p.query = l.query
        /\ p.table = l.table /\ p.fetched = l.fetched /\ p.todo = l.todo \ {t}
        /\ p.matches = l.matches \cup new /\ p.reply = l.reply
    BY <1>1, Fields
  <2>3. Goes(c, p)
    BY <2>1
  <2> HIDE DEF p
  <2>4. /\ l.phase = "consult" /\ l.table = t /\ q.kind = "resource" /\ q.scope = NoText
        /\ t # "network" /\ t \in l.todo /\ Searching(l, cache)
    BY <1>1, <1>4, <2>1 DEF SearchOne, Unscoped, Consults, Kinds, LookupInv, Follows
  <2>5. cache[t] \in [DOMAIN cache[t] -> ServerIds] /\ NoText \notin ServerIds
    BY <2>1, ResolverAssumption DEF ResolverTypeOK
  <2>6. new = {cache[u][q.ref] : u \in {v \in {t} : q.ref \in DOMAIN cache[v]}}
    <3>1. CASE q.ref \in DOMAIN cache[t]
      BY <2>5, <3>1 DEF LookIn, Found
    <3>2. CASE q.ref \notin DOMAIN cache[t]
      BY <3>2 DEF LookIn, Missing
    <3> QED
      BY <3>1, <3>2
  <2>7. new \subseteq ServerIds
    BY <2>5, <2>6
  <2>8. CallOK(p)
    BY <1>1, <2>2, <2>7 DEF CallOK
  <2>9. Searching(p, cache)
    <3> DEFINE networks == NetworksIn(cache["network"])
               Matches(done) == {cache[u][q.ref] : u \in {v \in done : q.ref \in DOMAIN cache[v]}}
    <3>1. /\ "network" \in DOMAIN cache /\ l.todo \subseteq networks
          /\ networks \ l.todo \subseteq DOMAIN cache /\ l.matches = Matches(networks \ l.todo)
      BY <2>4 DEF Searching
    <3>2. networks \ p.todo = (networks \ l.todo) \cup {t}
      BY <2>2, <2>4, <3>1
    <3>3. Matches((networks \ l.todo) \cup {t}) = Matches(networks \ l.todo) \cup Matches({t})
      OBVIOUS
    <3>4. p.matches = Matches(networks \ p.todo)
      BY <2>2, <2>6, <3>1, <3>2, <3>3
    <3>5. p.todo \subseteq networks /\ networks \ p.todo \subseteq DOMAIN cache
      BY <2>1, <2>2, <3>1, <3>2
    <3> QED
      BY <2>2, <3>1, <3>4, <3>5 DEF Searching
  <2>10. LookupInv(p)
    BY <1>1, <2>2, <2>4, <2>9 DEF LookupInv
  <2> QED
    BY <1>1, <2>3, <2>8, <2>10, GoesOn
<1> QED
  BY <1>2, <1>3, <1>4

\* The search ends: with the one match there is, with none or with several.
LEMMA SearchEndsKeeps ==
    ASSUME ResolverTypeOK, ResolverInv, NEW c \in Callers, SearchEnds(c)
    PROVE  ResolverTypeOK' /\ ResolverInv'
<1> DEFINE l == call[c]
           q == l.query
<1>1. /\ CallOK(l) /\ l.phase = "search" /\ l.todo = {} /\ holder = c
      /\ q \in Queries /\ ~Shortcut(q) /\ Searching(l, cache)
      /\ q.kind = "resource" /\ q.scope = NoText
  BY DEF ResolverTypeOK, ResolverInv, Alone, SearchEnds, LookupInv
<1>2. q.ref \notin IdLike /\ q.scope \notin IdLike /\ FirstTable(q) = "network"
  BY <1>1, ResolverAssumption DEF Shortcut, FirstTable
<1> DEFINE networks == NetworksIn(cache["network"])
<1>3. /\ "network" \in DOMAIN cache /\ networks \subseteq DOMAIN cache
      /\ l.matches = {cache[t][q.ref] : t \in {u \in networks : q.ref \in DOMAIN cache[u]}}
  BY <1>1 DEF Searching
<1>4. networks \subseteq ServerIds /\ "network" \notin networks
  BY <1>3, ResolverAssumption DEF ResolverTypeOK, NetworksIn, Kinds
<1>5. TablesFor(q) = {"network"} \cup networks
  BY <1>1, <1>2, <1>3 DEF TablesFor
<1>6. Settled(q)
  BY <1>1, <1>3, <1>5 DEF Settled
<1> HIDE DEF networks
<1>7. TablesFor(q) \ ({"network"} \cap {FirstTable(q)}) = networks
  BY <1>2, <1>4, <1>5
<1>8. Answer(q) = CASE l.matches = {} -> Missing
                    [] Cardinality(l.matches) = 1 -> Found(CHOOSE id \in l.matches : TRUE)
                    [] OTHER -> Ambiguous
  BY <1>2, <1>3, <1>7, Zenon DEF Answer
<1>9. ASSUME NEW r \in ReplyType, r = Answer(q), Goes(c, Answered(c, r))
      PROVE  ResolverTypeOK' /\ ResolverInv'
  BY <1>1, <1>6, <1>9, AnsweredIsGood, GoesOn
<1>10. CASE l.matches = {}
  <2>1. Cardinality(l.matches) # 1
    BY <1>10, FS_EmptySet
  <2>2. Answer(q) = Missing
    BY <1>8, <1>10, <2>1
  <2>3. Goes(c, Answered(c, Missing))
    BY <1>10, <2>1 DEF SearchEnds
  <2>4. Missing \in ReplyType
    BY TextAssumption DEF Missing, ReplyType
  <2> QED
    BY <1>9, <2>2, <2>3, <2>4
<1>11. CASE Cardinality(l.matches) = 1
  <2>1. l.matches # {}
    BY <1>11, FS_EmptySet
  <2>2. PICK id \in l.matches : Goes(c, Answered(c, Found(id)))
    BY <1>11, <2>1 DEF SearchEnds
  <2>3. l.matches = {id}
    <3>1. IsFiniteSet(l.matches)
      BY <1>1, ResolverAssumption, FS_Subset DEF CallOK
    <3> QED
      BY <1>11, <3>1, FS_Singleton
  <2>4. (CHOOSE i \in l.matches : TRUE) = id
    BY <2>3
  <2>5. Answer(q) = Found(CHOOSE i \in l.matches : TRUE)
    BY <1>8, <1>11, <2>1
  <2>6. Answer(q) = Found(id)
    BY <2>4, <2>5, Zenon
  <2>7. Found(id) \in ReplyType
    BY <1>1, <2>2, ResolverAssumption DEF CallOK, Found, ReplyType
  <2> QED
    BY <1>9, <2>2, <2>6, <2>7
<1>12. CASE l.matches # {} /\ Cardinality(l.matches) # 1
  <2>1. Answer(q) = Ambiguous
    BY <1>8, <1>12
  <2>2. Goes(c, Answered(c, Ambiguous))
    BY <1>12 DEF SearchEnds
  <2>3. Ambiguous \in ReplyType
    BY TextAssumption DEF Ambiguous, ReplyType
  <2> QED
    BY <1>9, <2>1, <2>2, <2>3
<1> QED
  BY <1>10, <1>11, <1>12

\* Steps that leave every lookup where it is.
LEMMA LookupsRest ==
    ASSUME ResolverInv, UNCHANGED <<cache, call>>,
           ever \subseteq ever', always' \subseteq always
    PROVE  CacheFaithful' /\ \A c \in Callers : LookupInv(call[c])'
<1>1. \A t, table : Faithful(t, table) => Faithful(t, table)'
  BY DEF Faithful
<1>2. CacheFaithful'
  BY <1>1 DEF ResolverInv, CacheFaithful, Faithful
<1>3. ASSUME NEW c \in Callers
      PROVE  LookupInv(call[c])'
  <2>1. LookupInv(call[c])
    BY DEF ResolverInv
  <2>2. Settled(call[c].query)' <=> Settled(call[c].query)
    BY DEF Settled, TablesFor
  <2>3. Answer(call[c].query)' = Answer(call[c].query)
    BY DEF Answer, TablesFor
  <2>4. call'[c] = call[c]
    OBVIOUS
  <2>5. Faithful(call[c].table, call[c].fetched) => Faithful(call[c].table, call[c].fetched)'
    BY DEF Faithful
  <2> QED
    BY <2>1, <2>2, <2>3, <2>4, <2>5 DEF LookupInv
<1> QED
  BY <1>2, <1>3

\* A pass begins, or ends.
LEMMA PassKeeps ==
    ASSUME ResolverTypeOK, ResolverInv, NEW c \in Callers, BeginPass(c) \/ EndPass(c)
    PROVE  ResolverTypeOK' /\ ResolverInv'
<1>1. UNCHANGED <<directory, cache, call, changes, errors, restarts, ever, always>>
  BY DEF BeginPass, EndPass, history
<1>2. holder' \in Callers \cup {"nobody"}
  BY DEF BeginPass, EndPass
<1>3. ResolverTypeOK'
  BY <1>1, <1>2 DEF ResolverTypeOK
<1>4. \A d \in Callers : call[d].phase = "idle"
  <2>1. CASE BeginPass(c)
    BY <2>1, ResolverAssumption DEF BeginPass, ResolverInv, Alone
  <2>2. CASE EndPass(c)
    BY <2>2 DEF EndPass, ResolverInv, Alone
  <2> QED
    BY <2>1, <2>2
<1>5. Alone'
  BY <1>1, <1>4 DEF Alone
<1>6. HistoryKept'
  BY <1>1 DEF ResolverInv, HistoryKept, Facts, Present
<1>7. CacheFaithful' /\ \A d \in Callers : LookupInv(call[d])'
  BY <1>1, LookupsRest
<1> QED
  BY <1>3, <1>5, <1>6, <1>7 DEF ResolverInv

\* The directory changes, and history takes note.
LEMMA ChangeKeeps ==
    ASSUME ResolverTypeOK, ResolverInv, DirectoryChanges
    PROVE  ResolverTypeOK' /\ ResolverInv'
<1>1. /\ UNCHANGED <<cache, holder, call, errors, restarts>> /\ changes' \in Nat
      /\ ever' = ever \cup Facts(directory')
      /\ always' = always \cap Present(directory')
  BY DEF DirectoryChanges, calling, ResolverTypeOK
<1>2. ResolverTypeOK'
  BY <1>1, DirectoryTyped DEF ResolverTypeOK
<1>3. Alone'
  BY <1>1 DEF ResolverInv, Alone
<1>4. HistoryKept'
  <2>1. Facts(directory)' = Facts(directory') /\ Present(directory)' = Present(directory')
    BY DEF Facts, Present
  <2> QED
    BY <1>1, <2>1 DEF HistoryKept
<1>5. CacheFaithful' /\ \A c \in Callers : LookupInv(call[c])'
  BY <1>1, LookupsRest
<1> QED
  BY <1>2, <1>3, <1>4, <1>5 DEF ResolverInv

\* A process starts, the first one or another: nothing is loaded.
LEMMA FreshStart ==
    ASSUME cache = [t \in {} |-> {}], call = [c \in Callers |-> IdleCall],
           ever = Facts(directory), always = Present(directory)
    PROVE  ResolverInv
<1>1. \A c \in Callers : call[c].phase = "idle"
  BY DEF IdleCall
<1>2. Alone /\ \A c \in Callers : LookupInv(call[c])
  BY <1>1 DEF Alone, LookupInv
<1>3. HistoryKept
  BY DEF HistoryKept
<1>4. DOMAIN cache = {}
  OBVIOUS
<1>5. CacheFaithful
  BY <1>4 DEF CacheFaithful
<1> QED
  BY <1>2, <1>3, <1>5 DEF ResolverInv

\* It holds when the first process starts.
LEMMA InitTyped == ResolverInit => ResolverTypeOK /\ ResolverInv
<1> SUFFICES ASSUME ResolverInit
             PROVE  ResolverTypeOK /\ ResolverInv
  OBVIOUS
<1>1. ResolverInv
  BY FreshStart DEF ResolverInit
<1>2. \A c \in Callers : call[c] = IdleCall
  BY DEF ResolverInit
<1>3. DOMAIN cache = {} /\ DOMAIN call = Callers
  BY DEF ResolverInit
<1>4. ResolverTypeOK
  BY <1>2, <1>3, IdleTyped, ResolverAssumption DEF ResolverInit, ResolverTypeOK
<1> QED
  BY <1>1, <1>4

\* The next process starts as the first did, whatever the directory is now.
LEMMA RestartKeeps ==
    ASSUME ResolverTypeOK, ResolverInv, ProcessRestarts
    PROVE  ResolverTypeOK' /\ ResolverInv'
<1>1. /\ cache' = [t \in {} |-> {}] /\ call' = [c \in Callers |-> IdleCall]
      /\ ever' = Facts(directory') /\ always' = Present(directory')
      /\ holder' = "nobody" /\ UNCHANGED <<directory, changes, errors>> /\ restarts' \in Nat
  BY DEF ProcessRestarts, ResolverTypeOK
<1>2. DOMAIN cache' = {} /\ DOMAIN call' = Callers /\ \A c \in Callers : call'[c] = IdleCall
  BY <1>1
<1>3. ResolverTypeOK'
  BY <1>1, <1>2, IdleTyped DEF ResolverTypeOK
<1>4. \A c \in Callers : call'[c].phase = "idle"
  BY <1>2 DEF IdleCall
<1>5. Alone' /\ \A c \in Callers : LookupInv(call[c])'
  BY <1>4 DEF Alone, LookupInv
<1>6. HistoryKept'
  <2>1. Facts(directory)' = Facts(directory') /\ Present(directory)' = Present(directory')
    BY DEF Facts, Present
  <2> QED
    BY <1>1, <2>1 DEF HistoryKept
<1>7. CacheFaithful'
  BY <1>2 DEF CacheFaithful
<1> QED
  BY <1>3, <1>5, <1>6, <1>7 DEF ResolverInv

\* A step in which nothing moves.
LEMMA RestKeeps ==
    ASSUME ResolverTypeOK, ResolverInv, UNCHANGED resolverVars
    PROVE  ResolverTypeOK' /\ ResolverInv'
<1>1. UNCHANGED <<directory, cache, holder, call, changes, errors, restarts, ever, always>>
  BY DEF resolverVars, calling, history
<1>2. ResolverTypeOK'
  BY <1>1 DEF ResolverTypeOK
<1>3. Alone' /\ HistoryKept'
  BY <1>1 DEF ResolverInv, Alone, HistoryKept, Facts, Present
<1>4. CacheFaithful' /\ \A c \in Callers : LookupInv(call[c])'
  BY <1>1, LookupsRest
<1> QED
  BY <1>2, <1>3, <1>4 DEF ResolverInv

-----------------------------------------------------------------------------
(* The invariant                                                           *)

\* No step of a caller, of people or of the process breaks it.
LEMMA StepKeeps ==
    ASSUME ResolverTypeOK, ResolverInv, [ResolverNext]_resolverVars
    PROVE  ResolverTypeOK' /\ ResolverInv'
<1>1. ASSUME NEW c \in Callers, LookupStep(c)
      PROVE  ResolverTypeOK' /\ ResolverInv'
  BY <1>1, FetchKeeps, StoreKeeps, LookUpKeeps, FindNetworkKeeps, SearchKeeps,
     SearchEndsKeeps, TakeKeeps DEF LookupStep
<1> QED
  BY <1>1, PassKeeps, AskKeeps, ChangeKeeps, RestartKeeps, RestKeeps DEF ResolverNext

\* Every lookup, at every point of it, knows of a table only what the tables
\* that are loaded say, and those say nothing that never was and leave out
\* nothing that always was.
THEOREM ResolverKept == ResolverSpec => [](ResolverTypeOK /\ ResolverInv)
<1>1. ResolverTypeOK /\ ResolverInv /\ [ResolverNext]_resolverVars
        => (ResolverTypeOK /\ ResolverInv)'
  BY StepKeeps
<1> QED
  BY <1>1, InitTyped, PTL DEF ResolverSpec

\* What is consulted, searched and found are ids of the server, but for a
\* scope that only looks like one.
THEOREM ResolverTyped == ResolverSpec => []ResolverTypeOK
BY ResolverKept, PTL

-----------------------------------------------------------------------------
(* What follows for the replies                                            *)

\* However a lookup has come by its reply: it is what the tables say.
THEOREM RepliesAnswer == ResolverSpec => []RepliesAreAnswers
<1>1. ResolverInv => RepliesAreAnswers
  BY DEF ResolverInv, RepliesAreAnswers, LookupInv, Gets
<1> QED
  BY <1>1, ResolverKept, PTL

\* The tables that decide the reply.
Asked(q) == TablesFor(q) \ ({"network"} \cap {FirstTable(q)})

\* An id is answered that a table has for the name, and none if none has it.
LEMMA AnswerNamed ==
    ASSUME NEW q, q.ref \notin IdLike
    PROVE  /\ Answer(q).result = "found" =>
                \E t \in Asked(q) : q.ref \in DOMAIN cache[t] /\ Answer(q).id = cache[t][q.ref]
           /\ Answer(q).result = "missing" => \A t \in Asked(q) : q.ref \notin DOMAIN cache[t]
<1> DEFINE named == {cache[t][q.ref] : t \in {u \in Asked(q) : q.ref \in DOMAIN cache[u]}}
<1>1. Answer(q) = CASE named = {} -> Missing
                    [] Cardinality(named) = 1 -> Found(CHOOSE id \in named : TRUE)
                    [] OTHER -> Ambiguous
  BY Zenon DEF Answer, Asked
<1>2. \A id \in named : \E t \in Asked(q) : q.ref \in DOMAIN cache[t] /\ id = cache[t][q.ref]
  OBVIOUS
<1>3. named = {} => \A t \in Asked(q) : q.ref \notin DOMAIN cache[t]
  OBVIOUS
<1> HIDE DEF named
<1>4. CASE named = {}
  <2>1. Cardinality(named) # 1
    BY <1>4, FS_EmptySet
  <2>2. Answer(q) = Missing
    BY <1>1, <1>4, <2>1
  <2> QED
    BY <1>3, <1>4, <2>2 DEF Missing
<1>5. CASE named # {} /\ Cardinality(named) = 1
  <2>1. PICK id \in named : id = CHOOSE i \in named : TRUE
    BY <1>5
  <2>2. Answer(q) = Found(CHOOSE i \in named : TRUE)
    BY <1>1, <1>5
  <2>3. Answer(q) = Found(id)
    BY <2>1, <2>2, Zenon
  <2> QED
    BY <1>2, <2>3 DEF Found
<1>6. CASE named # {} /\ Cardinality(named) # 1
  BY <1>1, <1>6 DEF Ambiguous
<1> QED
  BY <1>4, <1>5, <1>6

\* An answer that was not given by a look at the name alone.
LEMMA LookedUp ==
    ASSUME ResolverTypeOK, ResolverInv, NEW c \in Callers, NEW x \in {"found", "missing"}, Gets(c, x),
           call[c].query.ref \notin IdLike \/ x = "missing"
    PROVE  LET q == call[c].query
           IN  /\ q \in QueryType /\ q.ref \notin IdLike
               /\ TablesFor(q) \subseteq DOMAIN cache
               /\ call[c].reply = Answer(q) /\ Answer(q).result = x
<1> DEFINE q == call[c].query
<1>1. call[c].phase = "answered" /\ call[c].reply.result = x /\ LookupInv(call[c]) /\ q \in Queries
  BY DEF Gets, ResolverInv, LookupInv
<1>2. ~Shortcut(q)
  BY <1>1 DEF LookupInv, Shortcut, Found
<1>3. Settled(q) /\ call[c].reply = Answer(q)
  BY <1>1, <1>2 DEF LookupInv
<1>4. q.ref \in IdLike => Answer(q) = Found(q.ref)
  BY DEF Answer
<1> QED
  BY <1>1, <1>3, <1>4, ResolverAssumption DEF Settled, Found

\* What is asked in each case.
LEMMA AskedTables ==
    ASSUME NEW q \in QueryType, ResolverTypeOK, TablesFor(q) \subseteq DOMAIN cache
    PROVE  /\ q.kind # "resource" => Asked(q) = {q.kind}
           /\ q.kind = "resource" /\ q.scope \in IdLike => Asked(q) = {q.scope}
           /\ q.kind = "resource" /\ q.scope \notin IdLike =>
                /\ "network" \in DOMAIN cache
                /\ q.scope = NoText => Asked(q) = NetworksIn(cache["network"])
                /\ q.scope # NoText =>
                     Asked(q) = {cache["network"][n] : n \in {q.scope} \cap DOMAIN cache["network"]}
<1>1. "network" \notin IdLike /\ "network" \notin ServerIds /\ NoText \notin IdLike
  BY ResolverAssumption DEF Kinds
<1>2. CASE q.kind # "resource"
  BY <1>2 DEF Asked, TablesFor, FirstTable, QueryType
<1>3. CASE q.kind = "resource" /\ q.scope \in IdLike
  BY <1>1, <1>3 DEF Asked, TablesFor, FirstTable
<1>4. CASE q.kind = "resource" /\ q.scope \notin IdLike
  <2>1. FirstTable(q) = "network"
    BY <1>4 DEF FirstTable
  <2>2. "network" \in DOMAIN cache
    BY <2>1 DEF TablesFor
  <2>3. cache["network"] \in [DOMAIN cache["network"] -> ServerIds]
    BY <2>2 DEF ResolverTypeOK
  <2>4. CASE q.scope = NoText
    <3>1. TablesFor(q) = {"network"} \cup NetworksIn(cache["network"])
      BY <1>4, <2>1, <2>2, <2>4 DEF TablesFor
    <3>2. "network" \notin NetworksIn(cache["network"])
      BY <1>1, <2>3 DEF NetworksIn
    <3> QED
      BY <1>4, <2>1, <2>2, <2>4, <3>1, <3>2 DEF Asked
  <2>5. CASE q.scope # NoText
    <3> DEFINE N == {cache["network"][n] : n \in {q.scope} \cap DOMAIN cache["network"]}
    <3>1. TablesFor(q) = {"network"} \cup N
      BY <1>4, <2>1, <2>2, <2>5 DEF TablesFor
    <3>2. "network" \notin N
      BY <1>1, <2>3
    <3> HIDE DEF N
    <3>3. Asked(q) = N
      BY <2>1, <3>1, <3>2 DEF Asked
    <3> QED
      BY <1>4, <2>2, <2>5, <3>3 DEF N
  <2> QED
    BY <2>4, <2>5
<1> QED
  BY <1>2, <1>3, <1>4

\* An id that is answered is one that the server has had for that name, of
\* that kind and in that network, since the process started.
THEOREM AnswersAreSound == ResolverSpec => []AnswersSound
<1>1. ASSUME ResolverTypeOK, ResolverInv
      PROVE  AnswersSound
  <2> SUFFICES ASSUME NEW c \in Callers, Gets(c, "found")
               PROVE  LET q == call[c].query
                          id == call[c].reply.id
                      IN  \/ q.ref \in IdLike /\ id = q.ref
                          \/ <<q.kind, q.ref, id>> \in ever
                          \/ /\ q.kind = "resource"
                             /\ \E net \in IF q.scope = NoText THEN {f[3] : f \in ever} ELSE Scopes(q.scope) :
                                  <<net, q.ref, id>> \in ever
    BY Zenon DEF AnswersSound
  <2> DEFINE q == call[c].query
             id == call[c].reply.id
  <2>1. CASE q.ref \in IdLike
    <3>1. LookupInv(call[c]) /\ call[c].phase = "answered" /\ call[c].reply.result = "found"
      BY <1>1 DEF ResolverInv, Gets
    <3>2. call[c].reply = Found(q.ref)
      BY <2>1, <3>1 DEF LookupInv, Answer
    <3> QED
      BY <2>1, <3>2 DEF Found
  <2>2. CASE q.ref \notin IdLike
    <3>1. /\ q \in QueryType /\ TablesFor(q) \subseteq DOMAIN cache
          /\ call[c].reply = Answer(q) /\ Answer(q).result = "found"
      BY <1>1, <2>2, LookedUp
    <3>2. PICK t \in Asked(q) : q.ref \in DOMAIN cache[t] /\ id = cache[t][q.ref]
      BY <2>2, <3>1, AnswerNamed
    <3>3. <<t, q.ref, id>> \in ever
      BY <1>1, <3>1, <3>2 DEF Asked, ResolverInv, CacheFaithful, Faithful
    <3>4. CASE q.kind # "resource"
      BY <1>1, <3>1, <3>2, <3>3, <3>4, AskedTables
    <3>5. CASE q.kind = "resource" /\ q.scope \in IdLike
      <4>1. t = q.scope /\ Scopes(q.scope) = {q.scope} /\ q.scope # NoText
        BY <1>1, <3>1, <3>2, <3>5, AskedTables, ResolverAssumption DEF Scopes
      <4> QED
        BY <3>3, <3>5, <4>1
    <3>6. CASE q.kind = "resource" /\ q.scope \notin IdLike
      <4>1. /\ "network" \in DOMAIN cache
            /\ \A n \in DOMAIN cache["network"] : <<"network", n, cache["network"][n]>> \in ever
        BY <1>1, <3>1, <3>6, AskedTables DEF ResolverInv, CacheFaithful, Faithful
      <4>2. CASE q.scope = NoText
        <5>1. PICK n \in DOMAIN cache["network"] : t = cache["network"][n]
          BY <1>1, <3>1, <3>2, <3>6, <4>2, AskedTables DEF NetworksIn
        <5>2. <<"network", n, t>> \in ever /\ <<"network", n, t>>[3] = t
          BY <4>1, <5>1
        <5>3. t \in {f[3] : f \in ever}
          BY <5>2
        <5> QED
          BY <3>3, <3>6, <4>2, <5>3
      <4>3. CASE q.scope # NoText
        <5>1. t = cache["network"][q.scope] /\ q.scope \in DOMAIN cache["network"]
          BY <1>1, <3>1, <3>2, <3>6, <4>3, AskedTables
        <5>2. <<"network", q.scope, t>> \in ever
          BY <4>1, <5>1
        <5>3. t \in Scopes(q.scope)
          BY <3>6, <5>2 DEF Scopes
        <5> QED
          BY <3>3, <3>6, <4>3, <5>3
      <4> QED
        BY <4>2, <4>3
    <3> QED
      BY <3>4, <3>5, <3>6
  <2> QED
    BY <2>1, <2>2
<1> QED
  BY <1>1, ResolverKept, PTL

\* A name that has been there all the time is found.
THEOREM NothingIsOverlooked == ResolverSpec => []NothingOverlooked
<1>1. ASSUME ResolverTypeOK, ResolverInv
      PROVE  NothingOverlooked
  <2> DEFINE HeldBy(networkName, ref) ==
                /\ <<"network", networkName>> \in always
                /\ \A net \in Scopes(networkName) : <<net, ref>> \in always
  <2>1. ASSUME NEW t \in DOMAIN cache, NEW n, <<t, n>> \in always
        PROVE  n \in DOMAIN cache[t]
    <3>1. <<t, n>> \in Present(directory)
      BY <1>1, <2>1 DEF ResolverInv, HistoryKept
    <3>2. PICK f \in Facts(directory) : f[2] = n
      BY <3>1 DEF Present
    <3>3. PICK id \in DOMAIN directory : n \in directory[id].names
      BY <3>2 DEF Facts
    <3>4. directory[id] \in ThingType
      BY <1>1, ResolverAssumption DEF ResolverTypeOK
    <3>5. n \in ThingNames
      BY <3>3, <3>4 DEF ThingType
    <3> QED
      BY <1>1, <2>1, <3>5 DEF ResolverInv, CacheFaithful, Faithful
  <2>2. ASSUME NEW c \in Callers, Gets(c, "missing")
        PROVE  LET q == call[c].query
               IN  CASE q.kind # "resource" -> <<q.kind, q.ref>> \notin always
                     [] q.kind = "resource" /\ q.scope \in IdLike -> <<q.scope, q.ref>> \notin always
                     [] q.kind = "resource" /\ q.scope \in Text \ (IdLike \cup {NoText}) ->
                          ~HeldBy(q.scope, q.ref)
                     [] OTHER -> \A n \in ThingNames \ IdLike : ~HeldBy(n, q.ref)
    <3> DEFINE q == call[c].query
    <3>1. /\ q \in QueryType /\ TablesFor(q) \subseteq DOMAIN cache /\ q.ref \notin IdLike
          /\ Answer(q).result = "missing"
      BY <1>1, <2>2, LookedUp
    <3>2. \A t \in Asked(q) : q.ref \notin DOMAIN cache[t] /\ t \in DOMAIN cache
      BY <3>1, AnswerNamed DEF Asked
    <3>3. \A t \in Asked(q) : <<t, q.ref>> \notin always
      BY <2>1, <3>2
    <3>4. CASE q.kind # "resource"
      BY <1>1, <3>1, <3>3, <3>4, AskedTables
    <3>5. CASE q.kind = "resource" /\ q.scope \in IdLike
      BY <1>1, <3>1, <3>3, <3>5, AskedTables, ResolverAssumption
    <3>6. CASE q.kind = "resource" /\ q.scope \notin IdLike
      <4>1. /\ "network" \in DOMAIN cache
            /\ \A n \in DOMAIN cache["network"] : <<"network", n, cache["network"][n]>> \in ever
        BY <1>1, <3>1, <3>6, AskedTables DEF ResolverInv, CacheFaithful, Faithful
      <4>2. ASSUME NEW n, n \notin IdLike, HeldBy(n, q.ref)
            PROVE  /\ n \in DOMAIN cache["network"]
                   /\ <<cache["network"][n], q.ref>> \in always
        <5>1. n \in DOMAIN cache["network"]
          BY <2>1, <4>1, <4>2
        <5>2. <<"network", n, cache["network"][n]>> \in ever
          BY <4>1, <5>1
        <5>3. cache["network"][n] \in Scopes(n)
          BY <4>2, <5>2 DEF Scopes
        <5> QED
          BY <4>2, <5>1, <5>3
      <4> HIDE DEF HeldBy
      <4>3. CASE q.scope = NoText
        <5>1. Asked(q) = NetworksIn(cache["network"])
          BY <1>1, <3>1, <3>6, <4>3, AskedTables
        <5>2. \A n \in ThingNames \ IdLike : ~HeldBy(n, q.ref)
          BY <3>3, <4>2, <5>1 DEF NetworksIn
        <5> QED
          BY <3>6, <4>3, <5>2
      <4>4. CASE q.scope # NoText
        <5>1. Asked(q) = {cache["network"][n] : n \in {q.scope} \cap DOMAIN cache["network"]}
          BY <1>1, <3>1, <3>6, <4>4, AskedTables
        <5>2. ~HeldBy(q.scope, q.ref)
          BY <3>3, <3>6, <4>2, <5>1
        <5>3. q.scope \in Text
          BY <3>1 DEF QueryType
        <5> QED
          BY <3>6, <4>4, <5>2, <5>3
      <4> QED
        BY <4>3, <4>4
    <3> QED
      BY <3>4, <3>5, <3>6
  <2> QED
    BY <2>2 DEF NothingOverlooked
<1> QED
  BY <1>1, ResolverKept, PTL

-----------------------------------------------------------------------------
(* The resolver remembers                                                  *)

\* Tables come, and until the process ends none goes or changes.
Grows ==
    /\ DOMAIN cache \subseteq DOMAIN cache'
    /\ \A t \in DOMAIN cache : cache'[t] = cache[t]
    /\ restarts' = restarts

\* Only the end of the process takes a table away.
LEMMA CacheGrows ==
    ASSUME ResolverTypeOK, ResolverInv, [ResolverNext]_resolverVars
    PROVE  Grows \/ ProcessRestarts
<1>1. ASSUME NEW c \in Callers, Store(c)
      PROVE  Grows
  <2> DEFINE t == call[c].table
  <2>1. t \notin DOMAIN cache
    BY <1>1 DEF ResolverInv, LookupInv, Store
  <2>2. cache' = [u \in DOMAIN cache \cup {t} |->
                     IF u = t THEN Loaded(u, call[c].fetched) ELSE cache[u]]
    BY <1>1 DEF Store
  <2>3. restarts' = restarts
    BY <1>1 DEF Store
  <2> QED
    BY <2>1, <2>2, <2>3 DEF Grows
<1>2. ASSUME NEW c \in Callers, LookupStep(c), ~Store(c)
      PROVE  UNCHANGED <<cache, restarts>>
  BY <1>2 DEF LookupStep, Miss, Fetch, FetchFails, LookUp, FindNetwork, FindResource,
     SearchBegins, SearchNext, SearchOne, SearchEnds, Take, Goes
<1>3. ASSUME NEW c \in Callers, BeginPass(c) \/ EndPass(c) \/ \E q \in Queries : Ask(c, q)
      PROVE  UNCHANGED <<cache, restarts>>
  BY <1>3 DEF BeginPass, EndPass, Ask, Goes
<1>4. DirectoryChanges \/ UNCHANGED resolverVars => UNCHANGED <<cache, restarts>>
  BY DEF DirectoryChanges, calling, resolverVars
<1>5. UNCHANGED <<cache, restarts>> => Grows
  BY DEF Grows
<1> QED
  BY <1>1, <1>2, <1>3, <1>4, <1>5 DEF ResolverNext

\* What is settled stays settled, and the same way.
LEMMA SettledStays ==
    ASSUME Grows, NEW q, Settled(q)
    PROVE  Settled(q)' /\ Answer(q)' = Answer(q)
<1>1. TablesFor(q) \subseteq DOMAIN cache /\ ~Shortcut(q)
  BY DEF Settled
<1>2. TablesFor(q)' = TablesFor(q)
  <2>1. CASE q.kind # "resource" \/ q.scope \in IdLike
    BY <2>1 DEF TablesFor
  <2>2. CASE q.kind = "resource" /\ q.scope \notin IdLike
    <3>1. FirstTable(q) = "network" /\ FirstTable(q) \in DOMAIN cache
      BY <1>1, <2>2 DEF FirstTable, TablesFor
    <3>2. "network" \in DOMAIN cache' /\ cache'["network"] = cache["network"]
      BY <3>1 DEF Grows
    <3> QED
      BY <2>2, <3>1, <3>2 DEF TablesFor
  <2> QED
    BY <2>1, <2>2
<1>3. Settled(q)'
  BY <1>1, <1>2 DEF Settled, Grows
<1>4. Answer(q)' = Answer(q)
  <2> DEFINE named == {cache[t][q.ref] : t \in {u \in Asked(q) : q.ref \in DOMAIN cache[u]}}
             Told(ids) == IF q.ref \in IdLike THEN Found(q.ref)
                          ELSE CASE ids = {} -> Missing
                                 [] Cardinality(ids) = 1 -> Found(CHOOSE id \in ids : TRUE)
                                 [] OTHER -> Ambiguous
  <2>1. Asked(q) \subseteq DOMAIN cache /\ Asked(q)' = Asked(q)
    BY <1>1, <1>2 DEF Asked
  <2>2. named' = named
    BY <2>1 DEF Grows
  <2>3. Answer(q) = Told(named)
    BY Zenon DEF Answer, Asked
  <2>4. Answer(q)' = Told(named')
    BY Zenon DEF Answer, Asked
  <2> HIDE DEF named, Told
  <2> QED
    BY <2>2, <2>3, <2>4
<1> QED
  BY <1>3, <1>4

\* An answer that the tables give once is given until the process ends, to
\* every pass: the specification of a memory.
THEOREM ResolverIsMemo == ResolverSpec => ImplementsMemo
<1> DEFINE given == [q \in {r \in Queries : Settled(r)} |-> Answer(q)]
<1>1. ResolverInit => Memory!Init
  <2> SUFFICES ASSUME ResolverInit
               PROVE  Memory!Init
    OBVIOUS
  <2>1. DOMAIN cache = {} /\ restarts = 0
    BY DEF ResolverInit
  <2>2. {r \in Queries : Settled(r)} = {}
    BY <2>1 DEF Settled, TablesFor
  <2> QED
    BY <2>1, <2>2 DEF Memory!Init
<1>2. ASSUME ResolverTypeOK, ResolverInv, [ResolverNext]_resolverVars
      PROVE  [Memory!Next]_<<given, restarts>>
  <2>1. CASE Grows
    <3>1. \A q : Settled(q) => Settled(q)' /\ Answer(q)' = Answer(q)
      BY <2>1, SettledStays
    <3>2. DOMAIN given = {r \in Queries : Settled(r)}
      OBVIOUS
    <3>3. DOMAIN given' = {r \in Queries : Settled(r)'}
      OBVIOUS
    <3>4. DOMAIN given \subseteq DOMAIN given'
      BY <3>1, <3>2, <3>3
    <3>5. \A q \in DOMAIN given : given'[q] = given[q]
      BY <3>1
    <3>6. Memory!Remember
      BY <2>1, <3>4, <3>5 DEF Memory!Remember, Grows
    <3> QED
      BY <3>6 DEF Memory!Next
  <2>2. CASE ProcessRestarts
    <3>1. DOMAIN cache' = {} /\ restarts' = restarts + 1
      BY <2>2 DEF ProcessRestarts
    <3>2. \A q : ~Settled(q)'
      BY <3>1 DEF Settled, TablesFor
    <3>3. {r \in Queries : Settled(r)'} = {}
      BY <3>2
    <3>4. given' = [q \in {} |-> {}]
      BY <3>3
    <3>5. Memory!Forget
      BY <3>1, <3>4 DEF Memory!Forget
    <3> QED
      BY <3>5 DEF Memory!Next
  <2> QED
    BY <1>2, <2>1, <2>2, CacheGrows
<1> QED
  BY <1>1, <1>2, ResolverKept, PTL DEF ResolverSpec, ImplementsMemo, Memory!Spec

=============================================================================
