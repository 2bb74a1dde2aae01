------------------------------- MODULE Aviary -------------------------------
(***************************************************************************)
(* The running process: main.go, which reconciles once, starts the         *)
(* periodic resync and then serves docker events, and the event loop of    *)
(* internal/docker/watcher.go, composed with the reconciler.  The process  *)
(* implements module Reconciler: it only decides who calls Reconcile when. *)
(***************************************************************************)
EXTENDS Reconciler

CONSTANT
    MaxTroubles  \* bound: faults, edits, failed streams and restarts together

ASSUME AviaryAssumption ==
    /\ Goroutines = {"main", "ticker"}
    /\ MaxTroubles \in Nat

VARIABLES
    main,     \* where the main goroutine is
    ticker,   \* where the resync goroutine is
    ticked,   \* a tick is in the ticker's channel, which holds one
    pending,  \* docker events sent on the stream and not read
    restarts, \* restarts so far
    breaks    \* failed streams so far

loopVars == <<main, ticker, ticked, pending, restarts, breaks>>
aviaryVars == <<vars, loopVars>>

AviaryTypeOK ==
    /\ main \in {"initial", "connecting", "streaming", "handling", "backoff"}
    /\ ticker \in {"off", "selecting", "calling", "returned"}
    /\ ticked \in BOOLEAN
    /\ pending \in Nat
    /\ restarts \in Nat
    /\ breaks \in Nat

LoopInit ==
    /\ main = "initial"
    /\ ticker = "off"
    /\ ticked = FALSE
    /\ pending = 0

AviaryInit == Init /\ LoopInit /\ restarts = 0 /\ breaks = 0

-----------------------------------------------------------------------------
\* A signal counts as the restart that it leads to, so that no action which
\* has to happen (Fairness) is ever kept from happening by the bound.
Troubles == faults + edits + breaks + restarts + (IF ctxDone THEN 1 ELSE 0)

WithinBound == Troubles' <= MaxTroubles

Returns(g) == pass[g].phase # "idle" /\ pass'[g].phase = "idle"

\* Reconcile in the main goroutine: first of all, whatever comes of it, and
\* then inside the event handler, so that the stream is not read meanwhile.
MainReconciles ==
    /\ main \in {"initial", "handling"}
    /\ PassStep("main")
    /\ IF Returns("main")
       THEN IF main = "initial"
            THEN main' = "connecting" /\ ticker' = "selecting"
            ELSE main' = "streaming" /\ UNCHANGED ticker
       ELSE UNCHANGED <<main, ticker>>
    /\ UNCHANGED <<ticked, pending, restarts, breaks>>
    /\ WithinBound

\* The channel of the ticker holds one tick; further ones are dropped.
Tick ==
    /\ ticker # "off"
    /\ ticked' = TRUE
    /\ UNCHANGED <<vars, main, ticker, pending, restarts, breaks>>

TickerSelects ==
    /\ ticker = "selecting"
    /\ \/ ticked /\ ticker' = "calling" /\ ticked' = FALSE
       \/ ctxDone /\ ticker' = "returned" /\ UNCHANGED ticked
    /\ UNCHANGED <<vars, main, pending, restarts, breaks>>

\* Seeded fault: there is one resync, not one for each tick.
TickerReconciles_Once ==
    /\ ticker = "calling"
    /\ PassStep("ticker")
    /\ ticker' = IF Returns("ticker") THEN "returned" ELSE "calling"
    /\ UNCHANGED <<main, ticked, pending, restarts, breaks>>
    /\ WithinBound

TickerReconciles ==
    /\ ticker = "calling"
    /\ PassStep("ticker")
    /\ ticker' = IF Returns("ticker") THEN "selecting" ELSE "calling"
    /\ UNCHANGED <<main, ticked, pending, restarts, breaks>>
    /\ WithinBound

-----------------------------------------------------------------------------
(* Events and streamEvents                                                 *)

\* The stream has what happens from now on: there is no since parameter, and
\* nothing is reconciled for the time without a stream.
Connect ==
    /\ main = "connecting"
    /\ ~ctxDone
    /\ main' = "streaming"
    /\ pending' = 0
    /\ UNCHANGED <<vars, ticker, ticked, restarts, breaks>>

\* The request fails or the stream ends, and what was on it is lost.
StreamFails ==
    /\ main \in {"connecting", "streaming"}
    /\ ~ctxDone
    /\ breaks' = breaks + 1
    /\ Troubles < MaxTroubles
    /\ main' = "backoff"
    /\ pending' = 0
    /\ UNCHANGED <<vars, ticker, ticked, restarts>>

Reconnect ==
    /\ main = "backoff"
    /\ main' = "connecting"
    /\ UNCHANGED <<vars, ticker, ticked, pending, restarts, breaks>>

\* Seeded fault: a read that yields nothing counts as an event.
ReadEvent_OfNothing ==
    /\ main = "streaming"
    /\ main' = "handling"
    /\ pending' = pending - 1
    /\ UNCHANGED <<vars, ticker, ticked, restarts, breaks>>

ReadEvent ==
    /\ main = "streaming"
    /\ pending > 0
    /\ main' = "handling"
    /\ pending' = pending - 1
    /\ UNCHANGED <<vars, ticker, ticked, restarts, breaks>>

-----------------------------------------------------------------------------
(* The environment                                                         *)

Connected == main \in {"streaming", "handling"}

Emit(count) ==
    /\ pending' = IF Connected THEN pending + count ELSE pending
    /\ UNCHANGED <<netbirdVars, processVars, main, ticker, ticked, restarts, breaks>>

\* What the containers do, with the events that pass the filter: start, die,
\* stop (not for a container that ends by itself) and destroy.  An update
\* event changes nothing that the controller reads, and is left out.
ContainersChange ==
    \/ \E dep \in Deployments : DockerCreate(dep) /\ Emit(0)
    \/ \E c \in DOMAIN containers :
         \/ \E ip \in IPs \cup {NoText} : DockerStart(c, ip) /\ Emit(1)
         \/ DockerDie(c) /\ Emit(1)
         \/ DockerRemove(c) /\ Emit(1)

DaemonRecordsStop ==
    \E c \in DOMAIN containers, stop \in {0, 1} : DockerStopped(c) /\ Emit(stop)

PeopleEdit == UserStep /\ Troubles < MaxTroubles /\ UNCHANGED loopVars

\* SIGINT or SIGTERM.
Signal == Cancel /\ Troubles < MaxTroubles /\ UNCHANGED loopVars

Relaunch ==
    /\ Restart
    /\ main' = "initial"
    /\ ticker' = "off"
    /\ ticked' = FALSE
    /\ pending' = 0
    /\ restarts' = restarts + 1
    /\ UNCHANGED breaks

\* main returns once the context is done and it is not in a handler; the
\* goroutine of the ticker is not waited for.
Exit ==
    /\ ctxDone
    /\ main \in {"connecting", "streaming", "backoff"}
    /\ Relaunch

\* The process is killed, or its host goes down.
Crash == Relaunch /\ WithinBound

ProcessStep ==
    \/ MainReconciles
    \/ Tick \/ TickerSelects \/ TickerReconciles
    \/ Connect \/ StreamFails \/ Reconnect \/ ReadEvent

AviaryNext ==
    \/ ProcessStep
    \/ ContainersChange \/ DaemonRecordsStop \/ PeopleEdit
    \/ Signal \/ Exit \/ Crash

AviarySpec == AviaryInit /\ [][AviaryNext]_aviaryVars

\* Goroutines that can run do run, timers fire, every call is answered (by an
\* error, if by nothing else), the daemon finishes what it does, and r.mu is
\* handed on in the order of arrival once someone has waited for a
\* millisecond (sync.Mutex), hence the strong fairness of the two callers.
Fairness ==
    /\ SF_aviaryVars(MainReconciles)
    /\ SF_aviaryVars(TickerReconciles)
    /\ WF_aviaryVars(Tick)
    /\ WF_aviaryVars(TickerSelects)
    /\ WF_aviaryVars(Connect)
    /\ WF_aviaryVars(Reconnect)
    /\ WF_aviaryVars(ReadEvent)
    /\ WF_aviaryVars(Exit)
    /\ WF_aviaryVars(DaemonRecordsStop)

FairSpec == AviarySpec /\ Fairness

-----------------------------------------------------------------------------
(* Properties                                                              *)

\* Nothing a pass over the containers, as they are, would change.
AllInSync ==
    LET desired == Desired(List({}), {})
    IN  \A n \in DOMAIN desired : \E id \in ServicesNamed(n) :
            ServicesEqual(View(services[id]), Overlay(View(services[id]), desired[n]))

\* When containers and people have come to rest, the services come to agree
\* with the containers for good, whichever events were missed while the
\* stream was down, whichever calls failed and wherever the process died
\* (README:197: the resync "catches missed events / out-of-band edits").
Converges == <>[]AllInSync

\* A pass comes to a name for which it has a request to send.
FindsWork ==
    \E g \in Goroutines, n \in Names :
        /\ Takes(g, n)
        /\ ~ /\ Exists(g, n)
             /\ ~DeletesWhenOff(pass[g].desired[n])
             /\ InSync(g, n)

\* From some time on, no pass finds anything to request, though the resync
\* goes on for ever: neither the controller's own writes nor what the server
\* makes of them (lines 452-457) are a reason to write again.
ComesToRest == <>[]~FindsWork

\* An event that has been read is followed by a pass, though the resync
\* competes for r.mu and any pass may fail half way.
HandlerRuns == (main = "handling") ~> (main # "handling")

\* A signal ends the process (a new one has a fresh context), also one that
\* comes while the event handler waits for r.mu and the resync is in its pass:
\* that pass, each of its calls failing now, must give the lock back, and so
\* must the handler's own (main.go:27, 77-79).
SignalEnds == ctxDone ~> ~ctxDone

=============================================================================
