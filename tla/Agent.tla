-------------------------------- MODULE Agent -------------------------------
(***************************************************************************)
(* The supervisor of the embedded netbird agent, internal/agent/agent.go:  *)
(* one goroutine that runs the binary as a child process, again and again  *)
(* with a growing pause, until the context is done or Stop is called.  The *)
(* binary is external; it may fail to start or end at any time.            *)
(***************************************************************************)
EXTENDS Naturals

CONSTANT MaxDeaths  \* bound: children that end by themselves or do not start

ASSUME AgentAssumption == MaxDeaths \in Nat

VARIABLES
    supervisor,  \* where the goroutine is
    child,       \* the child process runs
    stopped,     \* a.stopped
    interrupted, \* Stop has sent the child a signal
    backoff,     \* the next pause, in seconds
    done,        \* the context is done
    deaths,      \* children that ended by themselves or did not start, so far
    late,        \* history: children started after Stop
    missed       \* history: Stop came when a start was decided, and saw no process

agentVars == <<supervisor, child, stopped, interrupted, backoff, done, deaths, late, missed>>

AgentInit ==
    /\ supervisor = "off"
    /\ child = FALSE
    /\ stopped = FALSE
    /\ interrupted = FALSE
    /\ backoff = 1
    /\ done = FALSE
    /\ deaths = 0
    /\ late = 0
    /\ missed = FALSE

-----------------------------------------------------------------------------
Moves(to) ==
    /\ supervisor' = to
    /\ UNCHANGED <<child, stopped, interrupted, backoff, done, deaths, late, missed>>

\* Start, which is called once.  Without a binary it is an error and nothing
\* has begun; the URL, which Start looks at too, is never missing, because
\* main falls back on the required one of the API.
StartAgent(there) ==
    /\ supervisor = "off"
    /\ IF there THEN Moves("top") ELSE UNCHANGED agentVars

\* Seeded fault: the head of the loop looks at the context only.
Head_IgnoresStop ==
    /\ supervisor = "top"
    /\ Moves(IF done THEN "returned" ELSE "prepared")

\* The head of the loop: under a.mu, a.cmd becomes a command that has no
\* process yet.
Head ==
    /\ supervisor = "top"
    /\ Moves(IF done \/ stopped THEN "returned" ELSE "prepared")

\* cmd.Run forks the child, unless the context is done; that it has, others
\* see in cmd.Process only later, and they read it without synchronisation.
Fork ==
    /\ supervisor = "prepared"
    /\ ~done
    /\ supervisor' = "forked"
    /\ child' = TRUE
    /\ interrupted' = FALSE
    /\ late' = IF stopped THEN late + 1 ELSE late
    /\ UNCHANGED <<stopped, backoff, done, deaths, missed>>

ForkFails ==
    /\ supervisor = "prepared"
    /\ IF done THEN UNCHANGED deaths ELSE deaths < MaxDeaths /\ deaths' = deaths + 1
    /\ supervisor' = "reaped"
    /\ UNCHANGED <<child, stopped, interrupted, backoff, done, late, missed>>

Publish == supervisor = "forked" /\ Moves("running")

\* The child ends by itself.
ChildDies ==
    /\ child
    /\ deaths < MaxDeaths
    /\ deaths' = deaths + 1
    /\ child' = FALSE
    /\ UNCHANGED <<supervisor, stopped, interrupted, backoff, done, late, missed>>

\* The child ends because of the signal.
ChildObeys ==
    /\ child
    /\ interrupted
    /\ child' = FALSE
    /\ UNCHANGED <<supervisor, stopped, interrupted, backoff, done, deaths, late, missed>>

\* Seeded fault: the command does not know the context, and nobody kills it.
Kill_Never == FALSE /\ UNCHANGED agentVars

\* exec.CommandContext kills the child when the context is done.
Kill ==
    /\ supervisor = "running"
    /\ done
    /\ child
    /\ child' = FALSE
    /\ UNCHANGED <<supervisor, stopped, interrupted, backoff, done, deaths, late, missed>>

\* cmd.Run returns.
Reap == supervisor = "running" /\ ~child /\ Moves("reaped")

\* Seeded fault: a child that has ended is the end of the supervisor.
AfterRun_GivesUp == supervisor = "reaped" /\ Moves("returned")

AfterRun ==
    /\ supervisor = "reaped"
    /\ Moves(IF done \/ stopped THEN "returned" ELSE "pause")

\* Seeded fault: the pause doubles for ever.
Longer_Unbounded == 2 * backoff

Longer == IF backoff < 30 THEN 2 * backoff ELSE backoff

Resume ==
    /\ supervisor = "pause"
    /\ \/ done /\ supervisor' = "returned" /\ UNCHANGED backoff
       \/ supervisor' = "top" /\ backoff' = Longer
    /\ UNCHANGED <<child, stopped, interrupted, done, deaths, late, missed>>

\* Seeded fault: Stop only says that it is the end.
Stop_Unsignalled ==
    /\ supervisor # "off"
    /\ ~stopped
    /\ stopped' = TRUE
    /\ UNCHANGED <<supervisor, child, interrupted, backoff, done, deaths, late, missed>>

\* Stop, from another goroutine: the child gets a signal if cmd.Process can
\* be seen.  While cmd.Run is at work on it, either may be the case.
Stop ==
    /\ supervisor # "off"
    /\ ~stopped
    /\ stopped' = TRUE
    /\ \E seen \in CASE supervisor = "running" -> {TRUE}
                      [] supervisor = "forked"  -> BOOLEAN
                      [] OTHER                  -> {FALSE} :
         /\ interrupted' = (seen /\ child)
         /\ missed' = (~seen /\ supervisor \in {"prepared", "forked"})
    /\ UNCHANGED <<supervisor, child, backoff, done, deaths, late>>

CancelAgent ==
    /\ ~done
    /\ done' = TRUE
    /\ UNCHANGED <<supervisor, child, stopped, interrupted, backoff, deaths, late, missed>>

Supervise ==
    \/ Head \/ Fork \/ ForkFails \/ Publish \/ Kill \/ Reap \/ AfterRun \/ Resume

AgentNext ==
    \/ \E there \in BOOLEAN : StartAgent(there)
    \/ Supervise
    \/ ChildDies \/ ChildObeys
    \/ Stop \/ CancelAgent

AgentSpec == AgentInit /\ [][AgentNext]_agentVars

\* The goroutine runs, pauses end and a signal that was sent has its effect.
AgentFairSpec ==
    AgentSpec /\ WF_agentVars(Supervise) /\ WF_agentVars(ChildObeys)

-----------------------------------------------------------------------------
(* Properties                                                              *)

Pauses == {1, 2, 4, 8, 16, 32}

\* The types; the pause is at most 32 seconds, though it doubles each time.
AgentTypeOK ==
    /\ supervisor \in {"off", "top", "prepared", "forked", "running",
                       "reaped", "pause", "returned"}
    /\ child \in BOOLEAN /\ stopped \in BOOLEAN /\ interrupted \in BOOLEAN
    /\ done \in BOOLEAN
    /\ backoff \in Pauses
    /\ deaths \in Nat /\ late \in Nat /\ missed \in BOOLEAN

\* After Stop no child is started, but for the one that the supervisor had
\* decided to start when Stop came; never a second one.
NoneAfterStop == late <= IF missed THEN 1 ELSE 0

\* Stop ends the child and the supervisor, unless it came while a child was
\* being started: it then finds no process to signal, and that child runs on
\* (line 94).
StopStops == (stopped /\ ~missed) ~> (~child /\ supervisor = "returned")

\* Once the context is done the child is gone and the supervisor returns,
\* wherever it was: in the pause, before or while the child was started.
EndsWithContext == (done /\ supervisor # "off") ~> (~child /\ supervisor = "returned")

\* While nobody stops it, a child that has ended, or has not started, is
\* followed by another one: the agent comes up for good after any number of
\* failures (lines 58, 127).
ComesUpAgain == (supervisor # "off") ~> [](child \/ done \/ stopped)

=============================================================================
