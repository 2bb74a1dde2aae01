# netbird-aviary in TLA+

aviary watches the containers of a docker host, reads the services they ask for
from their labels and keeps a NetBird management server in line with them. This
directory holds TLA+ models of the program, the TLC runs that check them and
TLAPS proofs about them. File and line references are to `src/`; `reconciler.go`
stands for `internal/controller/reconciler.go` and so on.

    cd tla
    tlc -workers 2 -config MCReconciler.cfg MCReconciler
    tlapm ReconcilerProofs.tla

## The system

```
 docker daemon --list--> Watcher --+                      +--> NetBird server
      |                            |                      |    (services, peers,
      +--events--> Events --> ReconcileContainer --+      |     networks, groups)
                                                   v      |        ^
 time.Ticker --> resync goroutine ----------> Reconcile --+        |
                                              (r.mu)   Client,     people, in
 main: bootstrap, first Reconcile                      Resolver    the web UI
```

| component | state | operations | who calls it |
| --- | --- | --- | --- |
| Reconciler (`reconciler.go`) | `r.mu`, `r.net` (set once), nothing from pass to pass | `Reconcile`: list containers, build the desired services, list the services, create, delete, disable or update each | main, resync goroutine, event handler |
| Label parser (`labels/parser.go`) | none | `Parse`, `parseOne` | Reconciler |
| Docker watcher, list (`docker/watcher.go`) | none (the daemon has it) | `List`, `fromSummary`; `Inspect`, `InspectSelf`, `GetNetwork` for the bootstrap | Reconciler, bootstrap |
| Docker watcher, events | the connection and its backoff | `Events`, `streamEvents` | main goroutine |
| NetBird client (`netbird/client.go`, `types.go`) | none (the server has it) | one method per endpoint | Reconciler, Resolver, Provisioner |
| Resolver (`netbird/resolver.go`) | caches of peers, networks, resources, clusters and groups by name, under `mu` | `PeerID`, `NetworkID`, `ResourceID`, `ClusterID`, `GroupIDs` | Reconciler |
| Provisioner (`controller/provisioner.go`) | none | `Provision`: pick the docker network, find the own peer, ensure network, resource and router | bootstrap |
| Agent supervisor (`agent/agent.go`) | `cmd`, `stopped`, under `mu`; backoff | `Start`, `supervise`, `Stop` | bootstrap |
| Main (`main.go`) | the context | bootstrap, first pass, resync goroutine, event loop, shutdown | |
| Configuration (`config/config.go`) | none | `Load` | main |

The hard behaviours are these. Two goroutines run passes that are meant to be
serial. A pass reads the containers, then the services, and then writes one
service after the other, while containers start and stop, people edit services
in the web interface, calls fail, and answers get lost. Docker shows a container
that is going down with or without its port bindings. The server adds, redacts
and completes fields, so that comparing what is there with what is wanted takes
normalisation, and a mistake in it means an endless stream of updates. The event
stream has no history. The process keeps no state, and may be killed anywhere.

What makes each component correct:

* *Reconciler.* One service per name; only services that a container asks for
  are written; a stop changes nothing but the switches, so that a start restores
  the service; a port that was resolved from a binding is never replaced by the
  raw label; a pass with no failure leaves nothing to do; a dry run is dry.
* *Main loop and event stream.* Whatever was missed, failed or killed, the
  services come to agree with the containers; passes then find nothing to request;
  every event that is read is followed by a pass; a signal ends the process.
* *Label parser.* A container without `enable` asks for nothing; services come
  in a stable order; a parse error drops the services of one container only.
* *Resolver.* An answer is an id the server had for that name; what has been
  there all the time is found; an ambiguous name is an error; what has been
  answered once stays the answer until the process ends.
* *Provisioner and bootstrap.* However often it runs and wherever it dies, it
  creates nothing twice, and leaves a resource that is routed by the own peer;
  it gets there whenever the deployment allows it.
* *Agent supervisor.* The agent comes up after any number of failures; `Stop`
  and the end of the context leave neither a child nor the goroutine behind.

## The modules

| module | models | lines it translates |
| --- | --- | --- |
| `Strings` | the strings that labels, ids and payloads are taken from | |
| `Labels` | `Parse`, `parseOne` | `parser.go:36-322` |
| `Service` | the wire type; `disableInPlace`, `merge`, `servicesEqual` and what it does to its arguments | `types.go:3-81`, `reconciler.go:198-207`, `435-526` |
| `Docker` | the daemon (external) and `List`, `fromSummary` | `watcher.go:172-188`, `410-437` |
| `NetBird` | the server's service collection and the people who edit it (external), the requests of the client | `client.go:73-91` |
| `Reconciler` | `Reconcile`, `buildDesired`, `apply`, with docker, server, signals and restarts around them | `reconciler.go:36-426`, `client.go:27-63` |
| `Promises` | what comments and the project's README say and the code does not do | |
| `Mirror` | the abstract specification of the reconciler | |
| `Resolver` | the lookups and their tables, the directory (external) and the people who change it | `resolver.go`, `client.go:101-141` |
| `Memo` | the abstract specification of the resolver: a memory that is never revised | |
| `Agent` | `Start`, `supervise`, `Stop`, the child process (external) | `agent.go:40-137` |
| `Provisioner` | `Provision` and what it calls, the server's networks, resources and routers (external), people | `provisioner.go`, `watcher.go:190-311`, `client.go:143-191` |
| `Bootstrap` | `bootstrapNetworkMode`, `deriveHostname`, composed with `Agent` and `Provisioner`; exits, crashes, restarts | `main.go:41-49`, `84-164` |
| `Aviary` | `main`, the resync goroutine, `Events`, `streamEvents`, composed with `Reconciler` | `main.go:19-82`, `watcher.go:326-383` |
| `OperatorProofs` | lemmas about the operators of `Labels`, `Service` and `NetBird` | |
| `ReconcilerProofs`, `PassProofs`, `MirrorProofs`, `AviaryProofs`, `ResolverProofs`, `AgentProofs`, `BootstrapProofs` | theorems | |
| `MCReconciler`, `MCAviary`, `MCPromises`, `MCResolver`, `MCBootstrap` | instances for TLC | |

**State.** `containers` is docker's; `services` NetBird's (`manual` and `edits`
are history; people create services of some names, `UserNames`, and switch, change,
rename to one of these names, or delete any service). The program's own state is small: the context (`ctxDone`), the
mutex (`mu`) and, for each goroutine in `Reconcile`, its locals (`pass[g]`:
`listed`, `desired`, `byName`, the names still `todo`). `pass[g].clean` is a
history variable: since the services were listed nothing failed and nobody
edited. `Aviary` adds the control state of the goroutines (`main`, `ticker`),
the ticker's channel (`ticked`) and the unread events (`pending`).

**Grain.** One action per call to the outside, since that is where others
interfere. Listing the containers, parsing them and building the desired
services is one action: between the list and the last lookup the pass reads
nothing that changes in the model (a lookup answers with a fixed id or fails).
Each name then costs one request at most, and is one action: `Create`,
`DeleteStopped`, `Update`, `UpToDate`. A request takes effect or not, and the
answer to one that did may be lost. The names are taken in string order, as the
code sorts them; service names are numbers, ordered as the strings they stand
for, and `JoinName` gives the default name `<container>-<key>`.

**Data.** Labels that the parser copies are one `payload`. Labels that it treats
alike share a field (`Labels`, header comment). The pointers of the wire type
that may be nil, or there and empty, keep that distinction (`"nil"`, `"empty"`,
`"set"`), since the normalisation is about it. Which group names are known is
left out: `GroupIDs` drops unknown ones and fails only if the call does.

**Aliasing.** `normalize` (reconciler.go:459) gets a `Service` by value, but
`Targets` is a slice and `Auth` a pointer, so that it changes its caller's data.
`AfterCompare` is what the caller has afterwards, and `Update` sends that.

**The resolver** (`Resolver`) has one table for each kind of thing and one for
the resources of each network; a lookup (`call[c]`) is at one point of *consult*
(lock held: is the table there, what does it say), *fetch* (unlocked: the list is
being made), *store* (locked again). Since the lock is never held during a call,
each of these is one action. A list answers with what is there when the server
reads it, in any order; of things with one name the last in the list stays
(`LastByName`). The resolver is called in passes only, so that a caller must
hold `r.mu` of the reconciler (`holder`); its own lock protects the maps, not
the check-unlock-load sequence. `directory` is the server's; `ever` and `always`
are history. In module `Reconciler` a lookup answers with a fixed id or fails:
`ImplementsMemo` is why it may.

**The bootstrap.** `at` is where the main goroutine is, `found` its locals.
Between two calls nothing is shared, so each call with what is made of its
answer is one action. A request is carried out or not, and the answer to one
that was may be lost (`Answered`); the process then exits, and docker starts it
again (`Exits`). The host name is the only link between the agent and the
provisioner: the child registers its peer with it (`Registers`), in its own
time, and `FindSelfPeer` looks for it. `GivesUpPolling` (the deadline of a
minute) presumes that the supervisor has had the time to start the child once.
The provisioner takes the first match that the server lists; nothing says in which
order it lists, so the first may be any of them. People create, delete and switch
off and on, they do not rename networks. `Start` fails without the agent's binary,
and that ends the bootstrap (`StartAgent(there)`, `LaunchAgent`).
`sanitizeName` only makes a display name.

**The agent.** `exec.Cmd` is started in two steps, because `Stop` reads
`cmd.Process` under a lock that `cmd.Run` does not take: after the fork and
before the process is published (`supervisor = "forked"`) `Stop` may see it or
not. `Stop` sends an interrupt (its comment says SIGTERM) and has no caller in
`src/`; the program ends its agent through the context. In `Bootstrap` the agent
runs beside the provisioner, and the child dies with the process, which is the
first one of its container.

**Two refinements.** `Reconciler!ImplementsMirror` maps the services to *on*,
*off* and *gone*, what the containers ask for now to `asks`, and the desired
services and the names to do of whoever holds `r.mu` to `plan` and `left`. It says that the long
procedure of calls is a single look followed by at most one change per name, to
what was asked or none. `Resolver!ImplementsMemo` maps the tables to the answers
they determine: a question that all its tables are loaded for has one, for life.

## The runs

| run | checks | states |
| --- | --- | --- |
| `reconciler_safety` | `TypeOK`, `NamesUnique`, `CleanPassSettles`, `OnlyDesiredTouched`, `StopKeepsEndpoint`, `PublishedPortKept`, `DryRunWritesNothing`, `ImplementsMirror` | 543,954 |
| `process` | `AviaryTypeOK`, `Converges`, `ComesToRest`, `HandlerRuns`, `SignalEnds` | 68,323 |
| `resolver` | `ResolverTypeOK`, `AnswersSound`, `NothingOverlooked`, `RepliesAreAnswers`, `ImplementsMemo`, `LookupsEnd` | 91,868 |
| `bootstrap` | `BootstrapTypeOK`, `ProvisionedOnce`, `OwnPeerRoutes`, `Idempotent`, `BootstrapEnds` | 524,004 |
| `agent` | `AgentTypeOK`, `NoneAfterStop`, `StopStops`, `EndsWithContext`, `ComesUpAgain` | 621 |
| `secrets`, `ephemeral`, `stopped`, `port_label`, `foreign`, `ambiguous`, `own_peer` | one promise each, which the code does not keep | |

`reconciler_safety` has two goroutines and three containers, of which two exist
at a time: *web* publishes its port and has a password and options; *job* is
ephemeral, publishes nothing and needs a group lookup; *alt* asks for web's name
with its first service and routes its second through the docker network, with a
target name to look up. One name is shared with people. It covers dry runs too.
`Disturbances` bounds starts, edits, faults and signals of one behaviour to two
together. Two are enough for each property to meet what threatens it: a start
and a second start (bindings come, go, and come again), a start and a fault (a
service that exists, and a pass that fails half way), a start and an edit under
a pass (a rename of the service that the pass is about to update is one), a fault whose answer is lost and a restart. Restarts, passes, stops and
removals are not bounded.

`process` has one container (published, with a password, empty options and
access blocks, and a target found by name), one fault, edit, failed stream,
signal or restart (`MaxTroubles = 1`), and checks liveness. One trouble is
enough because the liveness properties speak about what happens after the last
one, and every kind of trouble may be that one, at any step. For `SignalEnds` it is
the signal: from then on each call fails, and the passes of both goroutines, one of
which may be waiting for `r.mu`, have to give the lock back.

`Converges` is stated about the state the labels ask for *given* what is there
(`Overlay`), as the code compares, and about containers that no one touches any
more; the instance has none of the containers of the promise runs below.

`resolver` has two goroutines; two networks, one of which has an id that looks
like one; resources with the same name in both; a thing that is renamed; and
questions by name, by id, by what only looks like an id, within a network, across
all, and within a scope that looks like an id and is none. One change, one failed list and one restart together: what a table
remembers wrongly needs one change between the load and the question, and what a
failure could spoil needs one failure. The second goroutine is what the seeded
fault without `r.mu` shows to be dangerous.

`bootstrap` has the deployments that can work (the network found by itself, one
given by the settings, an agent of someone else's) and nine that cannot, each
for a reason of its own (one has no binary of the agent); on a fresh server and on one where an earlier bootstrap
has left everything and people have switched it off. One failing call, one
change, one dead agent and one crash in one behaviour: a second object of one
kind would need one interrupted bootstrap and a second one; the three faults
together already combine a lost answer with a crash in the bootstrap after it.

`agent` lets seven children die, enough for the pause to reach its limit of 32
seconds and to be held there once (five doublings), against one `Stop` and the
end of the context at any step.

**Promises that are broken.** Each of the seven runs has the least instance that
shows the violation, without a fault, a restart or a second goroutine:

* `secrets` (reconciler.go:471): the comparison blanks the secret in the very
  service that is sent. After a stop and a start the password is empty.
* `ephemeral` (reconciler.go:120): a pass creates the service of a container that
  runs, the container stops, the next pass deletes the service, and the one after it
  creates it again, switched off, though nothing was started (to be deleted by the
  next, and so on). `Promises` keeps the names that went with a stop in `dropped`.
* `stopped` (reconciler.go:328): in network mode a stopped container has no
  address, so nothing is built for it and its service stays enabled.
* `port_label` (reconciler.go:144): a container without bindings keeps the first
  port it ever had.
* `foreign` (reconciler.go:18): services are joined by name only.
* `ambiguous` (resolver.go:251): of two networks with one name one is never
  searched, and a resource name that is ambiguous gets an answer.
* `own_peer` (provisioner.go:136): the router becomes the peer of another host
  that runs the same compose project, since the host name is that of the docker
  network.

**Seeded faults.** Definitions named `Operator_What` (for instance
`Lock_Unguarded`) are the operator with a plausible mistake in it. They are used
in no specification; put in the place of the operator, they show that the
property they were written for notices. `PROJECT.json` pairs them.

**Deadlock** is checked in the runs of `Reconciler`, `Aviary` and `Resolver`. It
never occurs, since the process may always be restarted, or a pass begun; what
waiting for ever would look like is `HandlerRuns`, `SignalEnds` and `LookupsEnd`. An agent that
has been stopped and a bootstrap that is done do stop: there it is not checked,
and `EndsWithContext`, `ComesUpAgain` and `BootstrapEnds` say where they get to.

## Fairness

`Aviary!FairSpec` assumes of the program that goroutines that can run do run and
that timers fire (weak fairness of `Tick`, `TickerSelects`, `Connect`,
`Reconnect`, `ReadEvent`, `Exit`), and that whoever waits for `r.mu` gets it:
the two callers compete, Go's `sync.Mutex` hands over in order of arrival to
someone who has waited for a millisecond, hence strong fairness of
`MainReconciles` and `TickerReconciles`. Of the world it assumes that every call
is answered, be it with an error (the NetBird client has a timeout; the docker
client has none, watcher.go:59, and a daemon that never answers does block the
controller), and that docker finishes a stop it has begun. Nothing is assumed of
operators, people, faults and signals.

`Resolver!ResolverFairSpec`: a goroutine that has begun a lookup goes on, and its
calls are answered. `Agent!AgentFairSpec`: the supervisor goes on, pauses end, and
an interrupted child ends. `Bootstrap!BootstrapFairSpec`: main and the supervisor
go on; a container whose process has ended is started again (`restart:
unless-stopped` in `docker-compose.example.yml`); and a peer whose agent is up
again and again registers at some time (strong fairness: each attempt may be cut
short by the exit of the process, and a registration within the minute of some
attempt is what makes an end possible at all).

## The proofs

All theorems hold for any deployments, names, ids, configurations and any number
of goroutines, from the assumptions stated in the modules with the constants.

* `OperatorProofs`: what `Parse`, `Merge`, `DisableInPlace`, `AfterCompare` and
  the server's `View` and `Stored` return, and what the comparison sees of it:
  `EqualIsAlike` says that `ServicesEqual` is agreement on eight fields (`Alike`),
  and `ViewIsAlike`, `AfterCompareIsAlike`, `StoredFields`, `PutFields` that
  neither the server's redaction and completion nor the comparison's side
  effects change these.
* `TypeCorrect`. `TypeOK` is inductive because it says more than types: the
  desired state is filed under its services' names, the services under their
  ids, what a pass remembers has ids of the server, and the names to do are
  desired. The proof needs `FirstIsBuilt`: among the services that ask for one
  name there is a first (the numbers of the containers are bounded, the keys
  well-ordered), so the `CHOOSE` in `First` denotes one of them.
* `PassesSerialised`: whoever is inside `Reconcile` holds `r.mu`.
* `OneServicePerName`. `NamesUnique` is not inductive: a pass creates from a list
  that is old. `NamesInv` adds what a pass knows while it applies: `Remembers`,
  a service it has still to deal with, if still there, has the name it was filed
  under or one that people have given it since, and none is filed twice; and
  `Listed`, a name still to do is on no service but the one that the pass has found
  under it, unless it is one that people use. What could break `Listed` is the pass
  of another goroutine, which `PassesSerialised` excludes; its own `Create` takes the
  name off `todo` whether the request succeeded or not, so that a lost answer cannot
  lead to a second POST in the same pass. A PUT goes to an id and gives a service that
  was renamed its old name back: `PutKeeps` shows from `Listed` that no other has it.
* `DryRunIsDry` and `OthersUntouched`: action properties, from `TypeOK` and
  `Serialised`; the second also from `OneWritten`, that dealing with a name
  changes one service at most, the one that the pass has found under the name or a
  new one, and leaves it with that name, whatever people have called it since.
* `CleanPassesSettle`, `StopsKeepEndpoint`, `PublishedPortsKept`. `PassInv` says
  what a pass may rely on between its list and its last request. `FreshView`:
  what a clean pass has listed of a name still to do is what a list would return
  now (no one else writes it: people would spoil `clean`, other passes wait, and
  the pass itself writes other names, `OthersKept`). `PortsSeen`: of the ports
  the same holds for any pass, clean or not. `PortsMeant`: a port that came from a
  binding, of a name all of whose containers publish their port, is a host port.
  `Coherent`: a desired service and its target are switched together. Then the
  algebra: `PostedSettles` and `PutSettles`, that what the server makes of a POST
  and of a PUT is laid over and compared without a difference (the PUT's case is
  that `Overlay` is idempotent up to `Alike`, `OverlaySettles`); `StopInPlace`,
  that disabling, comparing, storing and listing leave the endpoint; and
  `HowWritten`, that an existing service is written by `Update` only.
  `CleanPassSettles` itself is kept because a settled name is touched by no later
  turn of the pass, and `PassesSerialised` excludes the turns of others.
* `ProcessIsSafe`: all the theorems about passes hold for the process, on whatever
  schedule it runs them, because `Aviary` is built from the steps of `Reconciler`
  (`ProcessIsReconciler`). `AviaryTyped`: the control states and the number of unread
  events.
* `ReconcilerIsMirror`: `Spec => ImplementsMirror`, from `TypeOK`, `Serialised`,
  `NamesInv` and `Early` (a pass that has not listed the containers wants nothing
  yet). `DealtWith` takes one name through its step and shows that its service
  becomes what was asked or stays as it was, also when the answer is lost;
  `StateOfOthers` that the other names do not change, which needs that no two
  services have the name; `DesiredIsAsked` that what a pass wants of a name is what
  some container asks, whichever containers the daemon left out or could not inspect.
* `AgentTyped`, `StopIsTheLast`: the pause is bounded, and `NoneAfterStop` for any
  number of children. It is not inductive: `Decided` adds that before `Stop` none
  was started late, and that a supervisor which is about to start one after
  `Stop` is the one that `Stop` missed.

* `ResolverTyped`, `RepliesAnswer`, `AnswersAreSound`, `NothingIsOverlooked`, all
  from `ResolverKept`. `ResolverInv` has four parts. `Alone`: who looks something
  up holds `r.mu` of the reconciler; without it two callers would load one table
  twice, and the second load would revise answers. `HistoryKept`: `ever` and
  `always` are about the directory. `CacheFaithful`: a table says nothing that
  never was in its list and leaves out nothing that always was. `LookupInv`:
  what a lookup has on its way is true of the tables at each point of it: the
  list it carries is as faithful as a table, the table it is about to store is
  not there yet, the networks a search has left are those it has not seen, and
  a reply is what the tables determine.
* `ResolverIsMemo`: `ResolverSpec => ImplementsMemo`. Storing a table settles
  questions and revises none, since the table was not there; a restart forgets all.
* `BootstrapTyped`, `NeverTwice`. `ProvisionedOnce` is not inductive: between the
  look and the create, people and lost answers come in. `NoneAlike` says that
  whoever is about to create knows of none alike that the provisioner has made;
  it survives because people's objects are not `made`, and because a lost answer
  ends the process, which looks again.
* `OwnPeerIsRouter`, `BootstrapIdempotent`, from `Undisturbed` (what has been found
  is what another look would find, unless people have interfered), `Ourselves`
  (the peer that is found is the own one) and `StillComplete` (after a complete
  bootstrap, no later one gets to a step that creates or enables). The order of the
  server's lists plays no part: among the networks that are there one at most has the
  name in question (`Unambiguous`; of two the code takes the one listed first, so
  `Idempotent` says nothing while people have made a second), any resource that matches
  will do, and of the routers of the own peer there is one. Both theorems
  are stated for deployments in which no other host's peer has a name that the
  own agent may register with (`NoTwin`): the run `own_peer` shows what happens
  with such a peer. The run `bootstrap` has peers of others, and no twin.
  `RemainsAssumption` is assumed of what is on the server at first: ids are those
  of one object, and no two networks have one name, no two resources one network
  and address, no two routers one network and peer.

Every invariant and action property of a passing run, and both refinements, the
reconciler's and the resolver's, are thus proved for all values of the constants
(`OwnPeerRoutes` and `Idempotent` for those without a twin).

Only model-checked: the liveness properties, `Converges`, `ComesToRest`,
`HandlerRuns`, `SignalEnds`, `LookupsEnd`, `BootstrapEnds`, `StopStops`, `EndsWithContext` and
`ComesUpAgain`: fairness and `ENABLED` are beyond the prover. The proofs avoid the
literal `""`, which the SMT backend cannot take: `NoText` is its name, and `Text`
stands for the strings there are.

## Not modelled

* Requests that the server carries out *after* the client has given up on them.
  A POST that is applied after the next pass has listed could make two services
  of one name; the model lets a lost answer's request take effect at once.
* Durations: intervals, timeouts and backoffs are nondeterministic.
* `r.net` and the configuration do not change while a process runs, and are the
  same after a restart.
* People who give a service of theirs a name outside `UserNames`: of such a name there
  may then be two services, as there may of a name in `UserNames`.
* `update` events of docker, which change nothing that the controller reads.
* Two controllers on one docker network. A signal during the bootstrap, which is
  like a crash without a restart. Deleting peers; renaming a peer that is registered; renaming networks.
  What happens to `r.net` when people delete the resource later: the code never
  looks again, and says so.
* The text of `/proc/self/mountinfo` and `cgroup`: what they yield is an input.
* `sanitizeSubdomain` and the text of labels: part of the payload. Reading the
  environment and `/proc`, logging, packaging: no state.

## Plan

Done: all components that have state, with their runs, and the theorems above.
What is left is to find properties worth adding where a hazard has none (the
notes in `PROJECT.json`), and to say without fairness, where that can be done,
what the liveness properties rest on: that a step that leads on is possible in
every state in which they wait for one.
