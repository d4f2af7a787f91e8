--------------------------- MODULE LifecycleProofs ---------------------------
(***************************************************************************)
(* What Lifecycle promises about the configuration, for every set of       *)
(* contents the file may have, any flags and any number of edits.          *)
(***************************************************************************)
EXTENDS Lifecycle, TLAPS

\* active_cfg is what the last good content asks for, and the worker's policy
\* is the one in active_cfg.  Before the file has been parsed there is neither.
ActiveIsLastGood ==
  observed # <<>> => \E i \in DOMAIN observed : IsLastGood(observed, i) /\ active = RunConfig(observed[i])

ConfigInv ==
  /\ file \in Contents \cup {Unreadable}
  /\ observed \in Seq(Contents)
  /\ main = "parse" => observed = <<>> /\ policy = NoPolicy
  /\ observed = <<>> => main \in {"parse", "failing", "exited"}
  /\ ActiveIsLastGood
  /\ policy # NoPolicy => observed # <<>> /\ policy = active.retry
  /\ failed_at # "reload"

\* The steps of the start and of the shutdown never lead back to the parse.
LEMMA StartedLeaves ==
  ASSUME NEW step, Started(step)
  PROVE  main' # "parse"
BY DEF Started, StartOrder

LEMMA StepsHaveNames ==
  ASSUME NEW i \in 1..(Len(ShutdownOrder) - 1)
  PROVE  ShutdownOrder[i + 1] # "parse" /\ ShutdownOrder[i] \notin {"parse", "failing", "exited"}
BY DEF ShutdownOrder

\* One more content leaves the last good one, or becomes it.
LEMMA LastGoodGrows ==
  ASSUME NEW s \in Seq(Contents), s # <<>>, NEW c \in Contents
  PROVE  LET t == Append(s, c)
         IN  /\ t \in Seq(Contents) /\ t # <<>> /\ t[Len(s) + 1] = c
             /\ Good(s[1], c) => IsLastGood(t, Len(s) + 1)
             /\ \A i \in DOMAIN s : t[i] = s[i] /\ i \in DOMAIN t
             /\ ~ Good(s[1], c) => \A i \in DOMAIN s : IsLastGood(s, i) => IsLastGood(t, i)
<1> DEFINE t == Append(s, c)
<1>1. /\ DOMAIN s = 1..Len(s) /\ 1 \in DOMAIN s /\ DOMAIN t = 1..(Len(s) + 1)
      /\ t \in Seq(Contents) /\ t # <<>>
  OBVIOUS
<1>2. t[Len(s) + 1] = c /\ \A i \in DOMAIN s : t[i] = s[i]
  OBVIOUS
<1> HIDE DEF t
<1>3. Good(s[1], c) => IsLastGood(t, Len(s) + 1)
  BY <1>1, <1>2 DEF IsLastGood
<1>4. ASSUME ~ Good(s[1], c), NEW i \in DOMAIN s, IsLastGood(s, i) PROVE IsLastGood(t, i)
  BY <1>1, <1>2, <1>4 DEF IsLastGood
<1> QED BY <1>1, <1>2, <1>3, <1>4 DEF t

-----------------------------------------------------------------------------
\* A step that touches neither the contents read nor the configuration keeps
\* the invariant, if it does not lead back to the parse.
LEMMA KeptAlone ==
  ASSUME ConfigInv, UNCHANGED <<observed, active, policy>>,
         file' \in Contents \cup {Unreadable},
         main' = main \/ main' # "parse",
         main' = main \/ observed # <<>> \/ main' \in {"failing", "exited"},
         failed_at' # "reload"
  PROVE  ConfigInv'
<1>1. ActiveIsLastGood'
  <2>1. ASSUME NEW i PROVE IsLastGood(observed, i)' <=> IsLastGood(observed, i)
    BY DEF IsLastGood, Good, Builds, Merged, ValidPolicy
  <2>2. ASSUME NEW i PROVE RunConfig(observed[i])' = RunConfig(observed[i])
    BY DEF RunConfig, Merged
  <2>3. ActiveIsLastGood
    BY DEF ConfigInv
  <2> QED
    BY <2>1, <2>2, <2>3, Zenon DEF ActiveIsLastGood
<1> QED
  BY <1>1 DEF ConfigInv

LEMMA ParseKeeps == ASSUME ConfigInv, Parse PROVE ConfigInv'
<1>1. /\ file \in Contents \cup {Unreadable} /\ file' = file
      /\ observed = <<>> /\ policy = NoPolicy /\ policy' = policy /\ main = "parse"
      /\ failed_at # "reload"
  BY DEF ConfigInv, Parse, config
<1>2. CASE file \in Contents /\ Builds(file)
  <2>1. /\ active' = RunConfig(file) /\ observed' = <<file>> /\ failed_at' = failed_at
        /\ main' # "parse"
    BY <1>2, StartedLeaves DEF Parse, ending
  <2>2. IsLastGood(<<file>>, 1)
    BY <1>2 DEF IsLastGood, Good
  <2>3. ActiveIsLastGood'
    BY <2>1, <2>2 DEF ActiveIsLastGood
  <2> QED BY <1>1, <1>2, <2>1, <2>3 DEF ConfigInv
<1>3. CASE ~ (file \in Contents /\ Builds(file))
  <2>1. main' = "failing" /\ failed_at' = "parse" /\ UNCHANGED <<observed, active, policy>>
    BY <1>3 DEF Parse, Fails
  <2> QED BY <1>1, <2>1, KeptAlone
<1> QED BY <1>2, <1>3

\* Every merged configuration that builds has a policy the live policy accepts:
\* both are validated by the same function.
LEMMA ReloadSucceeds ==
  ASSUME NEW c, Reload(c), failed_at # "reload"
  PROVE  failed_at' # "reload" /\ main' = main
BY DEF Reload, Builds, RunConfig, ending

LEMMA PollKeeps == ASSUME ConfigInv, PollConfig PROVE ConfigInv'
<1>1. /\ file \in Contents \cup {Unreadable} /\ file' = file
      /\ observed \in Seq(Contents) /\ observed # <<>> /\ main = "select" /\ failed_at # "reload"
      /\ policy # NoPolicy => policy = active.retry
  BY DEF ConfigInv, PollConfig, config
<1>2. CASE file = Unreadable
  <2>1. UNCHANGED <<observed, active, policy, main, failed_at>>
    BY <1>2 DEF PollConfig, ending
  <2> QED BY <1>1, <2>1, KeptAlone
<1>3. CASE file # Unreadable /\ file \in Contents
  <2>1. Reload(file) /\ observed' = Append(observed, file)
    BY <1>3 DEF PollConfig
  <2>2. failed_at' # "reload" /\ main' = main
    BY <1>1, <2>1, ReloadSucceeds
  <2>3. PICK i \in DOMAIN observed : IsLastGood(observed, i) /\ active = RunConfig(observed[i])
    BY <1>1 DEF ConfigInv, ActiveIsLastGood
  <2>4. active.rest = observed[1].rest
    BY <2>3 DEF IsLastGood, Good, RunConfig
  <2>5. CASE Builds(file) /\ Reloadable(RunConfig(file))
    <3>1. active' = RunConfig(file) /\ policy' = active'.retry
      BY <2>1, <2>2, <2>5, <1>1 DEF Reload, Fails
    <3>2. Good(observed[1], file)
      BY <2>4, <2>5 DEF Good, Reloadable, RunConfig
    <3>3. ActiveIsLastGood'
      BY <1>1, <1>3, <2>1, <3>1, <3>2, LastGoodGrows DEF ActiveIsLastGood, IsLastGood
    <3> QED BY <1>1, <1>3, <2>1, <2>2, <3>1, <3>3, LastGoodGrows DEF ConfigInv
  <2>6. CASE ~ (Builds(file) /\ Reloadable(RunConfig(file)))
    <3>1. active' = active /\ policy' = policy
      BY <2>1, <2>6 DEF Reload
    <3>2. CASE Good(observed[1], file)
      <4>1. RunConfig(file) = active
        BY <2>4, <2>6, <3>2 DEF Good, Reloadable, RunConfig
      <4>2. ActiveIsLastGood'
        BY <1>1, <1>3, <2>1, <3>1, <3>2, <4>1, LastGoodGrows DEF ActiveIsLastGood, IsLastGood
      <4> QED BY <1>1, <1>3, <2>1, <2>2, <3>1, <4>2, LastGoodGrows DEF ConfigInv
    <3>3. CASE ~ Good(observed[1], file)
      <4>1. /\ i \in DOMAIN observed' /\ observed'[i] = observed[i] /\ IsLastGood(observed', i)
            /\ observed' \in Seq(Contents) /\ observed' # <<>>
        BY <1>1, <1>3, <2>1, <2>3, <3>3, LastGoodGrows
      <4>2. ActiveIsLastGood'
        BY <2>3, <3>1, <4>1 DEF ActiveIsLastGood
      <4> QED BY <1>1, <2>2, <3>1, <4>1, <4>2 DEF ConfigInv
    <3> QED BY <3>2, <3>3
  <2> QED BY <2>5, <2>6
<1> QED BY <1>1, <1>2, <1>3

\* Every step keeps the invariant.
LEMMA ConfigInvKept ==
  ASSUME ConfigInv, [Next]_vars
  PROVE  ConfigInv'
<1> USE DEF config, reload, tasks, ending
<1>0. file \in Contents \cup {Unreadable} /\ failed_at # "reload"
  BY DEF ConfigInv
<1>1. CASE UNCHANGED vars
  BY <1>0, <1>1, KeptAlone DEF vars
<1>2. CASE EditFile
  BY <1>0, <1>2, KeptAlone DEF EditFile
<1>3. CASE PressCtrlC
  BY <1>0, <1>3, KeptAlone DEF PressCtrlC
<1>4. CASE Parse
  BY <1>4, ParseKeeps
<1>5. CASE Watch
  <2>1. observed # <<>>
    BY <1>5 DEF ConfigInv, Watch
  <2>2. main' # "parse" /\ failed_at' # "reload"
    BY <1>0, <1>5, StartedLeaves DEF Watch, Fails
  <2> QED BY <1>0, <1>5, <2>1, <2>2, KeptAlone DEF Watch
<1>6. ASSUME NEW step \in {"bind", "wal", "journal", "snapshot", "recover", "prepare", "source"},
             Step(step)
      PROVE  ConfigInv'
  <2>1. observed # <<>>
    BY <1>6 DEF ConfigInv, Step
  <2>2. main' # "parse" /\ failed_at' # "reload"
    BY <1>0, <1>6, StartedLeaves DEF Step, Fails
  <2> QED BY <1>0, <1>6, <2>1, <2>2, KeptAlone DEF Step
<1>7. CASE Spawn
  BY <1>0, <1>7, StartedLeaves, KeptAlone DEF ConfigInv, Spawn
<1>8. CASE SpawnWorker
  <2>1. observed # <<>>
    BY <1>8 DEF ConfigInv, SpawnWorker
  <2>2. CASE ValidPolicy(active.retry)
    <3>1. /\ main' # "parse" /\ policy' = active'.retry
          /\ UNCHANGED <<file, observed, active, failed_at>>
      BY <1>8, <2>2, StartedLeaves DEF SpawnWorker
    <3>2. ActiveIsLastGood'
      BY <3>1 DEF ConfigInv, ActiveIsLastGood
    <3> QED BY <2>1, <3>1, <3>2 DEF ConfigInv
  <2>3. CASE ~ ValidPolicy(active.retry)
    <3>1. main' = "failing" /\ failed_at' = "policy" /\ UNCHANGED <<file, observed, active, policy>>
      BY <1>8, <2>3 DEF SpawnWorker, Fails
    <3> QED BY <1>0, <3>1, KeptAlone
  <2> QED BY <2>2, <2>3
<1>9. CASE MarkReady
  BY <1>0, <1>9, StartedLeaves, KeptAlone DEF ConfigInv, MarkReady
<1>10. CASE SpawnMonitor
  BY <1>0, <1>10, StartedLeaves, KeptAlone DEF ConfigInv, SpawnMonitor
<1>11. CASE Die
  BY <1>0, <1>11, KeptAlone DEF Die
<1>12. CASE InstallHandler
  <2>1. observed # <<>>
    BY <1>12 DEF ConfigInv, InstallHandler
  <2>2. main' # "parse" /\ failed_at' # "reload"
    BY <1>0, <1>12 DEF InstallHandler, Fails
  <2> QED BY <1>0, <1>12, <2>1, <2>2, KeptAlone DEF InstallHandler
<1>13. CASE PollConfig
  BY <1>13, PollKeeps
<1>14. CASE BeginShutdown
  <2>1. observed # <<>> /\ main' # "parse"
    BY <1>14 DEF ConfigInv, BeginShutdown, ShutdownOrder
  <2> QED BY <1>0, <1>14, <2>1, KeptAlone DEF BeginShutdown
<1>15. CASE ShutdownStep
  <2>1. observed # <<>> /\ main' # "parse"
    BY <1>15, StepsHaveNames DEF ConfigInv, ShutdownStep
  <2> QED BY <1>0, <1>15, <2>1, KeptAlone DEF ShutdownStep
<1>16. CASE RtReplayed
  BY <1>0, <1>16, KeptAlone DEF RtReplayed
<1>17. CASE RtFails
  BY <1>0, <1>17, KeptAlone DEF RtFails
<1>18. CASE RtStops
  BY <1>0, <1>18, KeptAlone DEF RtStops
<1>19. CASE WorkerEnds
  BY <1>0, <1>19, KeptAlone DEF WorkerEnds
<1>20. CASE MonitorWakes
  BY <1>0, <1>20, KeptAlone DEF MonitorWakes
<1> QED
  BY <1>1, <1>2, <1>3, <1>4, <1>5, <1>6, <1>7, <1>8, <1>9, <1>10, <1>11, <1>12, <1>13, <1>14,
     <1>15, <1>16, <1>17, <1>18, <1>19, <1>20 DEF Next, StartNext, TaskNext

LEMMA ConfigInvariant == Spec => []ConfigInv
<1>1. Init => ConfigInv
  BY DEF Init, ConfigInv, ActiveIsLastGood
<1> QED BY <1>1, ConfigInvKept, PTL DEF Spec

-----------------------------------------------------------------------------
\* The worker's retry policy is the one of the last good content that was read
\* from the configuration file, whatever edits were rejected in between.
THEOREM PolicyIsLastGood == Spec => []LastGoodActive
<1>1. ConfigInv => LastGoodActive
  BY DEF ConfigInv, ActiveIsLastGood, LastGoodActive, RunConfig
<1> QED BY <1>1, ConfigInvariant, PTL

\* No edit of the configuration file ends the process.
THEOREM ReloadIsHarmless == Spec => []ReloadNeverEnds
<1>1. ConfigInv => ReloadNeverEnds
  BY DEF ConfigInv, ReloadNeverEnds
<1> QED BY <1>1, ConfigInvariant, PTL

-----------------------------------------------------------------------------
(* The tasks and the health state, by how far main has come.                *)

Unbound   == {"parse", "watch", "bind"}
Unspawned == Unbound \cup {"wal", "journal", "snapshot", "recover", "prepare", "source", "spawn"}
Unready   == Unspawned \cup {"policy", "ready"}
Serving   == {"monitor", "install", "select", "mark"}
Closing   == {"signal", "server", "drain", "abort"}

\* How far the start has come before the process is marked ready.
StartInv ==
  /\ main \in Unready => health = "starting" /\ monitor = "none" /\ ~ signal
  /\ main \in Unspawned => rt = "none"
  /\ main \in Unspawned \cup {"policy"} => worker = "none"
  /\ main \in (Unready \ Unbound) /\ Endpoint => server = "up"
  /\ main \in {"policy", "ready"} => rt # "none"
  /\ main = "ready" => worker # "none" /\ policy # NoPolicy

\* What is gone when main has done a step of the shutdown.
CloseInv ==
  /\ main \in Serving => ~ signal
  /\ main \in Closing => health # "ready"
  /\ main \in {"drain", "abort"} => server = "down"
  /\ main = "abort" => worker = "done"
  /\ worker = "done" => rt = "gone"

ProcessInv ==
  /\ main \in Unready \cup Serving \cup Closing \cup {"failing", "exited"}
  /\ main = "exited" <=> code # Running
  /\ exit \in {"none", "startup_failed", "runtime_failed"}
  /\ StartInv /\ CloseInv
  /\ ReadyIsServing /\ CleanExit

LEMMA StartedTo ==
  /\ Started("parse") => main' = "watch"
  /\ Started("watch") => main' = "bind"
  /\ Started("bind") => main' = "wal"
  /\ Started("wal") => main' = "journal"
  /\ Started("journal") => main' = "snapshot"
  /\ Started("snapshot") => main' = "recover"
  /\ Started("recover") => main' = "prepare"
  /\ Started("prepare") => main' = "source"
  /\ Started("source") => main' = "spawn"
  /\ Started("spawn") => main' = "policy"
  /\ Started("policy") => main' = "ready"
  /\ Started("ready") => main' = "monitor"
  /\ Started("monitor") => main' = "install"
BY DEF Started, StartOrder

\* A merged configuration names every field, so it is not the absent policy.
LEMMA MergedIsPolicy == ASSUME NEW c PROVE RunConfig(c).retry # NoPolicy
<1>1. "max_attempts" \in DOMAIN Merged(c)
  BY DEF Merged, Fields
<1>2. DOMAIN NoPolicy = {}
  BY DEF NoPolicy
<1> QED BY <1>1, <1>2 DEF RunConfig

\* One step of the shutdown.
LEMMA ShutdownTo ==
  ASSUME ShutdownStep
  PROVE  /\ UNCHANGED <<policy, rt, exit, worker>>
         /\ \/ /\ main = "mark" /\ main' = "signal" /\ health' = "shutting_down"
               /\ UNCHANGED <<code, server, monitor>> /\ (signal' <=> signal)
            \/ /\ main = "signal" /\ main' = "server"
               /\ UNCHANGED <<code, health, server, monitor>>
            \/ /\ main = "server" /\ main' = "drain" /\ server' = "down"
               /\ UNCHANGED <<code, health, monitor>> /\ (signal' <=> signal)
            \/ /\ main = "drain" /\ main' = "abort" /\ worker = "done"
               /\ UNCHANGED <<code, health, server, monitor>> /\ (signal' <=> signal)
            \/ /\ main = "abort" /\ main' = "exited" /\ code' = 0 /\ monitor' = "ended"
               /\ UNCHANGED <<health, server>> /\ (signal' <=> signal)
<1>1. UNCHANGED <<policy, rt, exit, worker>>
  BY DEF ShutdownStep
<1>2. PICK i \in 1..5 :
        /\ main = ShutdownOrder[i] /\ main' = ShutdownOrder[i + 1]
        /\ code' = IF ShutdownOrder[i + 1] = "exited" THEN 0 ELSE code
  BY DEF ShutdownStep, ShutdownOrder
<1>3. /\ main = "drain" => worker = "done"
      /\ health'  = IF main = "mark" THEN "shutting_down" ELSE health
      /\ signal'  = (signal \/ main = "signal")
      /\ server'  = IF main = "server" THEN "down" ELSE server
      /\ monitor' = IF main = "abort" THEN "ended" ELSE monitor
  BY DEF ShutdownStep
<1>4. /\ i = 1 => main = "mark" /\ main' = "signal" /\ code' = code
      /\ i = 2 => main = "signal" /\ main' = "server" /\ code' = code
      /\ i = 3 => main = "server" /\ main' = "drain" /\ code' = code
      /\ i = 4 => main = "drain" /\ main' = "abort" /\ code' = code
      /\ i = 5 => main = "abort" /\ main' = "exited" /\ code' = 0
  BY <1>2 DEF ShutdownOrder
<1>5. i = 1 \/ i = 2 \/ i = 3 \/ i = 4 \/ i = 5
  OBVIOUS
<1> QED BY <1>1, <1>3, <1>4, <1>5

\* Every step keeps the invariant, and only MarkReady makes the health ready.
LEMMA ProcessInvKept ==
  ASSUME ConfigInv, ProcessInv, [Next]_vars
  PROVE  /\ ProcessInv'
         /\ health' = "ready" => health \in {"ready", "starting"}
<1> DEFINE Goal == ProcessInv' /\ (health' = "ready" => health \in {"ready", "starting"})
<1> USE DEF config, reload, tasks, ending, Unbound, Unspawned, Unready, Serving, Closing,
            ProcessInv, StartInv, CloseInv, ReadyIsServing, CleanExit, Alive, Running
<1>1. CASE UNCHANGED vars
  BY <1>1 DEF vars
<1>2. CASE EditFile
  BY <1>2 DEF EditFile
<1>3. CASE PressCtrlC
  BY <1>3 DEF PressCtrlC
<1>4. CASE Parse
  BY <1>4, StartedTo DEF Parse, Fails
<1>5. CASE Watch
  BY <1>5, StartedTo DEF Watch, Fails
<1>6. ASSUME NEW step \in {"bind", "wal", "journal", "snapshot", "recover", "prepare", "source"},
             Step(step)
      PROVE  Goal
  BY <1>6, StartedTo DEF Step, Fails, Unmarked
<1>7. CASE Spawn
  BY <1>7, StartedTo DEF Spawn
<1>8. CASE SpawnWorker
  <2>1. active.retry # NoPolicy
    BY <1>8, MergedIsPolicy DEF ConfigInv, ActiveIsLastGood, SpawnWorker
  <2> QED BY <1>8, <2>1, StartedTo DEF SpawnWorker, Fails, Unmarked
<1>9. CASE MarkReady
  BY <1>9, StartedTo DEF MarkReady
<1>10. CASE SpawnMonitor
  BY <1>10, StartedTo DEF SpawnMonitor
<1>11. CASE Die
  BY <1>11 DEF Die
<1>12. CASE InstallHandler
  BY <1>12 DEF InstallHandler, Fails
<1>13. CASE PollConfig
  <2>1. main' \in {"select", "failing"} /\ UNCHANGED <<health, signal, code, server, rt, exit, worker, monitor>>
    BY <1>13 DEF PollConfig, Reload, Fails
  <2>2. policy' = policy \/ policy' = RunConfig(file).retry
    BY <1>13 DEF PollConfig, Reload
  <2> QED BY <1>13, <2>1, <2>2, MergedIsPolicy DEF PollConfig
<1>14. CASE BeginShutdown
  BY <1>14 DEF BeginShutdown, ShutdownOrder
<1>15. CASE ShutdownStep
  <2>1. main' = "exited" => CleanExit'
    BY <1>15, ShutdownTo
  <2> QED BY <1>15, <2>1, ShutdownTo
<1>16. CASE RtReplayed
  BY <1>16 DEF RtReplayed
<1>17. CASE RtFails
  BY <1>17 DEF RtFails
<1>18. CASE RtStops
  BY <1>18 DEF RtStops
<1>19. CASE WorkerEnds
  BY <1>19 DEF WorkerEnds
<1>20. CASE MonitorWakes
  BY <1>20 DEF MonitorWakes
<1> HIDE DEF ProcessInv
<1> QED
  BY <1>1, <1>2, <1>3, <1>4, <1>5, <1>6, <1>7, <1>8, <1>9, <1>10, <1>11, <1>12, <1>13, <1>14,
     <1>15, <1>16, <1>17, <1>18, <1>19, <1>20 DEF Next, StartNext, TaskNext

LEMMA ProcessInvariant == Spec => []ProcessInv
<1>1. Init => ProcessInv
  BY DEF Init, ProcessInv, StartInv, CloseInv, ReadyIsServing, CleanExit,
         Unbound, Unspawned, Unready, Serving, Closing, Running
<1> QED BY <1>1, ConfigInvariant, ProcessInvKept, PTL DEF Spec

\* The endpoint shows ready only while everything runs and no task has been
\* told to stop.
THEOREM ReadyMeansServing == Spec => []ReadyIsServing
<1>1. ProcessInv => ReadyIsServing
  BY DEF ProcessInv
<1> QED BY <1>1, ProcessInvariant, PTL

\* Whoever has seen the process fail or shut down never sees it ready again.
THEOREM ReadyOnce == Spec => NeverReadyAgain
<1>1. ASSUME ConfigInv, ProcessInv, [Next]_vars
      PROVE  [health' = "ready" => health = "starting"]_health
  BY <1>1, ProcessInvKept
<1> QED BY <1>1, ConfigInvariant, ProcessInvariant, PTL DEF Spec, NeverReadyAgain

\* The process reports success only after the worker has finished the queue.
THEOREM ExitIsClean == Spec => []CleanExit
<1>1. ProcessInv => CleanExit
  BY DEF ProcessInv
<1> QED BY <1>1, ProcessInvariant, PTL
=============================================================================
