------------------------------ MODULE Lifecycle ------------------------------
(***************************************************************************)
(* The process around the ingest: the steps of its start, the select loop  *)
(* of try_main with ctrl-c, the exit of the runtime task and the polled    *)
(* configuration file, the live retry policy, the health state with its    *)
(* monitor task, and the steps of RunningSystem::shutdown.                 *)
(*                                                                         *)
(* The runtime task and the worker appear only by how they begin and end;  *)
(* what they do is in Ingest.  The process runs with --config: without it  *)
(* the file is never polled.  A content of the configuration file is what  *)
(* the command line makes of it: the settings that cannot be reloaded, in  *)
(* one value, and the retry section.                                       *)
(***************************************************************************)
EXTENDS Integers, Sequences

CONSTANTS
  Contents,      \* contents the file may have: [rest : ..., retry : Policies]
  Broken,        \* rest of a content that does not parse, or lacks a setting
  Unreadable,    \* the file cannot be read
  Pinned,        \* the retry fields given on the command line, with their values
  Endpoint,      \* a health address is configured
  MaxEdits       \* bound: edits of the file

Fields   == {"max_attempts", "max_queued_retries", "initial_backoff", "max_backoff"}
NoPolicy == [f \in {} |-> 0]

ASSUME LifecycleAssumption ==
  /\ \A c \in Contents : c.retry \in [Fields -> Nat]
  /\ DOMAIN Pinned \subseteq Fields
  /\ Unreadable \notin Contents
  /\ Endpoint \in BOOLEAN /\ MaxEdits \in Nat

VARIABLES
  file,          \* the configuration file now
  edits,         \* how often it was edited
  main,          \* the step the main task comes to next
  seen,          \* FileReloadSource.last_observation
  active,        \* active_cfg
  policy,        \* LiveRetryPolicy
  health,        \* HealthState: a status, or the reason of NotReady
  server,        \* the health server: down or up
  rt,            \* the runtime task
  exit,          \* the exit reason it published
  worker,        \* the worker task
  monitor,       \* the health monitor task
  ctrl_c,        \* ctrl-c was pressed
  signal,        \* the shutdown signal
  code,          \* exit code of the process; Running before
  observed,      \* history: the contents parsed at start and on a poll
  missed,        \* history: an edit fell between the two reads of the start
  failed_at      \* history: the step that returned an error from try_main

Running == -1

config == <<file, edits>>
reload == <<seen, active, observed, missed>>
tasks  == <<rt, exit, worker, monitor>>
ending == <<signal, code, failed_at>>
vars   == <<config, main, reload, policy, health, server, tasks, ctrl_c, ending>>

Alive == code = Running

-----------------------------------------------------------------------------
(* The configuration.                                                       *)

\* Flags win over the file, each retry field by itself.
Merged(c) == [f \in Fields |-> IF f \in DOMAIN Pinned THEN Pinned[f] ELSE c.retry[f]]

ValidPolicy(p) ==
  /\ p["max_attempts"] # 0
  /\ p["max_attempts"] > 1 => p["max_queued_retries"] # 0
  /\ p["max_backoff"] >= p["initial_backoff"]

\* Mutant: the retry section is validated as it stands in the file.
BuildsFromFile(c) == c.rest # Broken /\ ValidPolicy(c.retry)

\* build_run_config succeeds.
Builds(c) == c.rest # Broken /\ ValidPolicy(Merged(c))

RunConfig(c) == [rest |-> c.rest, retry |-> Merged(c)]

EditFile ==
  /\ Alive /\ edits < MaxEdits
  /\ edits' = edits + 1
  /\ file' \in (Contents \cup {Unreadable}) \ {file}
  /\ UNCHANGED <<main, reload, policy, health, server, tasks, ctrl_c, ending>>

-----------------------------------------------------------------------------
(* The start.                                                               *)

\* Mutant: the monitor is spawned before the process is marked ready.
StartOrderMonitorFirst ==
  <<"parse", "watch", "bind", "wal", "journal", "snapshot", "recover", "prepare",
    "source", "spawn", "policy", "monitor", "ready", "install">>

\* The steps in the order of try_main and start_running_system.
StartOrder ==
  <<"parse", "watch", "bind", "wal", "journal", "snapshot", "recover", "prepare",
    "source", "spawn", "policy", "ready", "monitor", "install">>

\* These errors return without mark_startup_failed.
Unmarked == {"parse", "watch", "snapshot", "recover", "policy"}

Started(step) ==
  \E i \in 1..(Len(StartOrder) - 1) : StartOrder[i] = step /\ main' = StartOrder[i + 1]

\* An error leaves try_main by `?`.
Fails(step) ==
  /\ main' = "failing" /\ failed_at' = step
  /\ health' = IF step \in Unmarked \cup {"install", "reload"} THEN health ELSE "startup_failed"
  /\ UNCHANGED <<signal, code>>

\* parse_args reads the file for the first time.
Parse ==
  /\ Alive /\ main = "parse"
  /\ IF file \in Contents /\ Builds(file)
     THEN /\ Started("parse")
          /\ active' = RunConfig(file) /\ observed' = <<file>>
          /\ UNCHANGED <<health, ending>>
     ELSE Fails("parse") /\ UNCHANGED <<active, observed>>
  /\ UNCHANGED <<config, seen, missed, policy, server, tasks, ctrl_c>>

\* FileReloadSource::new reads it again.
Watch ==
  /\ Alive /\ main = "watch"
  /\ IF file \in Contents
     THEN /\ Started("watch")
          /\ seen' = file /\ missed' = (file # observed[1])
          /\ UNCHANGED <<health, ending>>
     ELSE Fails("watch") /\ UNCHANGED <<seen, missed>>
  /\ UNCHANGED <<config, active, observed, policy, server, tasks, ctrl_c>>

\* The health server, both journals, their summary, the recovery of the paths,
\* clients and collection, the source: each may fail.
Step(step) ==
  /\ Alive /\ main = step
  /\ \/ /\ Started(step)
        /\ server' = IF step = "bind" /\ Endpoint THEN "up" ELSE server
        /\ UNCHANGED <<health, ending>>
     \/ (step = "bind" => Endpoint) /\ Fails(step) /\ UNCHANGED server
  /\ UNCHANGED <<config, reload, policy, tasks, ctrl_c>>

Spawn ==
  /\ Alive /\ main = "spawn"
  /\ Started("spawn")
  /\ rt' = "replay"
  /\ UNCHANGED <<config, reload, policy, health, server, exit, worker, monitor, ctrl_c, ending>>

\* LiveRetryPolicy::new, and the worker that reads it.
SpawnWorker ==
  /\ Alive /\ main = "policy"
  /\ IF ValidPolicy(active.retry)
     THEN /\ Started("policy")
          /\ policy' = active.retry /\ worker' = "running"
          /\ UNCHANGED <<health, ending>>
     ELSE Fails("policy") /\ UNCHANGED <<policy, worker>>
  /\ UNCHANGED <<config, reload, server, rt, exit, monitor, ctrl_c>>

MarkReady ==
  /\ Alive /\ main = "ready"
  /\ Started("ready")
  /\ health' = "ready"
  /\ UNCHANGED <<config, reload, policy, server, tasks, ctrl_c, ending>>

SpawnMonitor ==
  /\ Alive /\ main = "monitor"
  /\ Started("monitor")
  /\ monitor' = "waiting"
  /\ UNCHANGED <<config, reload, policy, health, server, rt, exit, worker, ctrl_c, ending>>

Die ==
  /\ Alive /\ main = "failing"
  /\ code' = 1 /\ main' = "exited" /\ server' = "down"
  /\ UNCHANGED <<config, reload, policy, health, tasks, ctrl_c, signal, failed_at>>

StartNext ==
  \/ Parse \/ Watch
  \/ \E step \in {"bind", "wal", "journal", "snapshot", "recover", "prepare", "source"} : Step(step)
  \/ Spawn \/ SpawnWorker \/ MarkReady \/ SpawnMonitor \/ Die

-----------------------------------------------------------------------------
(* The tasks.                                                               *)

RtReplayed ==
  /\ Alive /\ rt = "replay"
  /\ rt' = "loop"
  /\ UNCHANGED <<config, main, reload, policy, health, server, exit, worker, monitor, ctrl_c, ending>>

\* An error of the log: during the replay, or later.
RtFails ==
  /\ Alive /\ rt \in {"replay", "loop"}
  /\ exit' = IF rt = "replay" THEN "startup_failed" ELSE "runtime_failed"
  /\ rt' = "gone"
  /\ UNCHANGED <<config, main, reload, policy, health, server, worker, monitor, ctrl_c, ending>>

RtStops ==
  /\ Alive /\ rt \in {"replay", "loop"} /\ signal
  /\ rt' = "gone"
  /\ UNCHANGED <<config, main, reload, policy, health, server, exit, worker, monitor, ctrl_c, ending>>

\* The queue is closed and drained.
WorkerEnds ==
  /\ Alive /\ worker = "running" /\ rt = "gone"
  /\ worker' = "done"
  /\ UNCHANGED <<config, main, reload, policy, health, server, rt, exit, monitor, ctrl_c, ending>>

\* wait_for_exit returns the reason, or nothing when the task has ended
\* without one.  The monitor does not look whether the shutdown has begun.
MonitorWakes ==
  /\ Alive /\ monitor = "waiting" /\ rt = "gone"
  /\ monitor' = "ended"
  /\ health' = IF exit = "none" THEN health ELSE exit
  /\ UNCHANGED <<config, main, reload, policy, server, rt, exit, worker, ctrl_c, ending>>

TaskNext == RtStops \/ WorkerEnds \/ MonitorWakes

-----------------------------------------------------------------------------
(* The loop of try_main.                                                    *)

\* The first poll of ctrl_c() installs the handler.
InstallHandler ==
  /\ Alive /\ main = "install"
  /\ \/ main' = "select" /\ UNCHANGED <<health, ending>>
     \/ Fails("install")
  /\ UNCHANGED <<config, reload, policy, server, tasks, ctrl_c>>

PressCtrlC ==
  /\ Alive /\ main = "select" /\ ~ ctrl_c
  /\ ctrl_c' = TRUE
  /\ UNCHANGED <<config, main, reload, policy, health, server, tasks, ending>>

\* Mutant: the worker is awaited before the signal is sent.
ShutdownOrderWorkerFirst == <<"mark", "server", "drain", "signal", "abort", "exited">>

\* Mutant: the worker is not awaited.
ShutdownOrderNoDrain == <<"mark", "signal", "server", "abort", "exited">>

\* Mutant: the signal is sent before the state is marked.
ShutdownOrderSignalFirst == <<"signal", "mark", "server", "drain", "abort", "exited">>

\* The steps of RunningSystem::shutdown.
ShutdownOrder == <<"mark", "signal", "server", "drain", "abort", "exited">>

\* ctrl-c, or the runtime task has ended, with a reason or without.
BeginShutdown ==
  /\ Alive
  /\ \/ main = "select" /\ ctrl_c
     \/ main \in {"install", "select"} /\ rt = "gone"
  /\ main' = Head(ShutdownOrder)
  /\ UNCHANGED <<config, reload, policy, health, server, tasks, ctrl_c, ending>>

\* validate_reloadable_changes: something differs, and only in the retry section.
Reloadable(next) == next # active /\ next.rest = active.rest

\* Mutant: active_cfg is not updated.
ReloadForgetsActive(c) ==
  LET next == RunConfig(c)
  IN  IF Builds(c) /\ Reloadable(next)
      THEN policy' = next.retry /\ UNCHANGED <<main, active, health, ending>>
      ELSE UNCHANGED <<main, policy, active, health, ending>>

\* A changed content: rejected when it does not build or changes more than the
\* retry section, nothing to do when it changes nothing, applied otherwise.
\* LiveRetryPolicy.replace may refuse it, which ends try_main.
Reload(c) ==
  LET next == RunConfig(c)
  IN  IF ~ (Builds(c) /\ Reloadable(next))
      THEN UNCHANGED <<main, policy, active, health, ending>>
      ELSE IF ~ ValidPolicy(next.retry)
      THEN Fails("reload") /\ UNCHANGED <<policy, active>>
      ELSE /\ policy' = next.retry /\ active' = next
           /\ UNCHANGED <<main, health, ending>>

\* Mutant: after a failed read the file is not polled any more.
PollConfigGivesUp ==
  /\ Alive /\ main = "select" /\ seen # file /\ seen # Unreadable
  /\ seen' = file
  /\ IF file = Unreadable
     THEN UNCHANGED <<main, policy, active, health, ending, observed, missed>>
     ELSE /\ Reload(file)
          /\ observed' = Append(observed, file) /\ missed' = FALSE
  /\ UNCHANGED <<config, server, tasks, ctrl_c>>

\* poll_changed_contents: an observation equal to the last is passed over,
\* also one that failed; any other is remembered, whatever becomes of it.
PollConfig ==
  /\ Alive /\ main = "select" /\ seen # file
  /\ seen' = file
  /\ IF file = Unreadable
     THEN UNCHANGED <<main, policy, active, health, ending, observed, missed>>
     ELSE /\ Reload(file)
          /\ observed' = Append(observed, file) /\ missed' = FALSE
  /\ UNCHANGED <<config, server, tasks, ctrl_c>>

-----------------------------------------------------------------------------
(* RunningSystem::shutdown.                                                 *)

\* What each of the steps does; the drain waits for the worker.
ShutdownStep ==
  /\ Alive
  /\ \E i \in 1..(Len(ShutdownOrder) - 1) :
       /\ main = ShutdownOrder[i]
       /\ main' = ShutdownOrder[i + 1]
       /\ code' = IF ShutdownOrder[i + 1] = "exited" THEN 0 ELSE code
  /\ main = "drain" => worker = "done"
  /\ health'  = IF main = "mark" THEN "shutting_down" ELSE health
  /\ signal'  = (signal \/ main = "signal")
  /\ server'  = IF main = "server" THEN "down" ELSE server
  /\ monitor' = IF main = "abort" THEN "ended" ELSE monitor
  /\ UNCHANGED <<config, reload, policy, rt, exit, worker, ctrl_c, failed_at>>

-----------------------------------------------------------------------------
Init ==
  /\ file \in Contents \cup {Unreadable} /\ edits = 0
  /\ main = "parse" /\ seen = Unreadable /\ active = NoPolicy /\ policy = NoPolicy
  /\ health = "starting" /\ server = "down"
  /\ rt = "none" /\ exit = "none" /\ worker = "none" /\ monitor = "none"
  /\ ctrl_c = FALSE /\ signal = FALSE /\ code = Running
  /\ observed = <<>> /\ missed = FALSE /\ failed_at = "none"

Next ==
  \/ EditFile \/ PressCtrlC
  \/ StartNext \/ InstallHandler \/ PollConfig \/ BeginShutdown \/ ShutdownStep
  \/ RtReplayed \/ RtFails \/ TaskNext

\* Tokio polls every task that can move; select! polls all of its branches in
\* every round, and a round lasts at most the poll interval.  The worker comes
\* to the end of its queue.
Fairness ==
  /\ WF_vars(StartNext) /\ WF_vars(InstallHandler) /\ WF_vars(PollConfig)
  /\ WF_vars(BeginShutdown) /\ WF_vars(ShutdownStep)
  /\ WF_vars(RtStops) /\ WF_vars(WorkerEnds) /\ WF_vars(MonitorWakes)

Spec == Init /\ [][Next]_vars /\ Fairness

-----------------------------------------------------------------------------
(* Properties.                                                              *)

\* A content that a process started with the content first may take over: it
\* builds, and asks for nothing that needs a restart.
Good(first, c) == Builds(c) /\ c.rest = first.rest

IsLastGood(contents, i) ==
  /\ i \in DOMAIN contents /\ Good(contents[1], contents[i])
  /\ \A j \in DOMAIN contents : j > i => ~ Good(contents[1], contents[j])

\* The policy the worker is given is the one of the last good content that was
\* read, through edits that were rejected, unreadable or taken back.
LastGoodActive ==
  policy # NoPolicy =>
    \E i \in DOMAIN observed : IsLastGood(observed, i) /\ policy = Merged(observed[i])

InForce ==
  main = "select" /\ file \in Contents /\ Good(observed[1], file) => policy = Merged(file)

\* While the process serves, the policy comes to agree with the file again and
\* again, whatever edits went before, unless the last one fell between the two
\* reads of the start.
FollowsFile == (main = "select" /\ ~ missed) ~> InForce

\* No edit of the configuration file ends the process.
ReloadNeverEnds == failed_at # "reload"

\* The endpoint shows ready only once everything runs, and not any more when
\* the tasks are told to stop.
ReadyIsServing ==
  health = "ready" =>
    /\ rt # "none" /\ worker # "none" /\ policy # NoPolicy
    /\ ~ signal /\ (Endpoint /\ Alive => server = "up")

\* Whoever has seen the process fail or shut down never sees it ready again.
NeverReadyAgain == [][health' = "ready" => health = "starting"]_health

\* The process reports success only after the worker has finished the queue.
CleanExit == code = 0 => worker = "done" /\ rt = "gone" /\ server = "down" /\ monitor = "ended"

\* After ctrl-c, or once the runtime task has failed, the process ends.
ShutdownEnds == (ctrl_c \/ exit # "none") ~> ~ Alive
=============================================================================
