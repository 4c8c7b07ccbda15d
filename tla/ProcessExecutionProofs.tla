----------------------- MODULE ProcessExecutionProofs -----------------------
(***************************************************************************)
(* What ProcessExecution promises for any number of pause commands and     *)
(* crashes: the inductive invariant that ties the coroutine that holds the *)
(* event loop to the rows it writes, the types, and what holds of the      *)
(* processes and of the ends of runs.                                      *)
(*                                                                         *)
(* The argument: while a coroutine holds the loop nothing else in the      *)
(* service moves, so the list of writes it has left tells which statuses   *)
(* its last write has found or left (WritesAreInOrder).  Commit is the only *)
(* action that touches the rows, and every other action starts or ends such *)
(* a list.                                                                 *)
(*                                                                         *)
(* The last part is about a PAUSED task, on the condition that no plugin   *)
(* prints FAILED once it has written its handoff.                          *)
(***************************************************************************)
EXTENDS ProcessExecution, TLAPS

(* Who holds the loop and what it has yet to write.                        *)

(* execute() holds the loop where it writes, a pauser where it persists.   *)
LoopIsHeld ==
  /\ turn = "loop" => todo = << >>
  /\ turn = "run" <=> run.pc \in Writing
  /\ \A p \in Pausers : turn = p <=> pauser[p] = "persisting"

(* A pauser is inside the transport until it is abandoned, and what it has *)
(* read is the handoff of the plugin that the transport runs.              *)
PausersAreAttached ==
  \A p \in Pausers :
    /\ pauser[p] \in {"response", "exit", "persisting"} => run.pc \in Attached
    /\ pauser[p] \in {"exit", "persisting"} =>
         plugin.handed # 0 /\ read[p] = plugin.handed

(* How far each stretch is, with what its last write has established. *)
Starting ==
  \/ todo = StartWrites /\ status = Absent
  \/ todo = <<W("attempt", "ASSIGNED")>> /\ status = "CREATED"
  \/ todo = << >> /\ status = "CREATED"

Recovering ==
  /\ checkpoint # 0
  /\ \/ todo = RecoverWrites /\ status = "RUNNING"
     \/ /\ todo = <<W("task", "PAUSED")>>
        /\ status = "RUNNING" /\ attempt = "PAUSED"
     \/ todo = << >> /\ status = "PAUSED" /\ attempt = "PAUSED"

Requeueing ==
  \/ todo = RequeueWrites /\ status = "PAUSED"
  \/ todo = << >> /\ status = "QUEUED"

Entering ==
  \/ /\ todo = <<W("task", "QUEUED"), W("task", "ASSIGNED"),
                 W("task", "RUNNING"), W("attempt", "RUNNING")>>
     /\ status \notin {"QUEUED", "PAUSED"}
  \/ /\ todo = <<W("task", "ASSIGNED"), W("task", "RUNNING"),
                 W("attempt", "RUNNING")>>
     /\ status = "QUEUED"
  \/ /\ todo = <<W("task", "RUNNING"), W("attempt", "RUNNING")>>
     /\ status = "ASSIGNED"
  \/ todo = <<W("attempt", "RUNNING")>> /\ status = "RUNNING"
  \/ todo = << >> /\ status = "RUNNING"

Ending(target) ==
  \/ todo = FinishWrites(target)
  \/ todo = <<W("task", target)>> /\ attempt = target
  \/ todo = << >> /\ status = target

Persisting ==
  \/ todo = PersistWrites
  \/ todo = <<W("attempt", "PAUSED"), W("task", "PAUSED")>> /\ checkpoint # 0
  \/ todo = <<W("task", "PAUSED")>> /\ checkpoint # 0 /\ attempt = "PAUSED"
  \/ todo = << >> /\ status = "PAUSED"

WritesAreInOrder ==
  /\ run.pc = "starting" => Starting
  /\ run.pc = "recovering" => Recovering
  /\ run.pc = "requeueing" => Requeueing
  /\ run.pc = "entering" => Entering
  /\ run.pc = "finishing" => Ending(run.result)
  /\ run.pc = "failing" => Ending("FAILED")
  /\ \A p \in Pausers : turn = p => Persisting

(* A result is that of the plugin process, which is gone. *)
ResultsArePrinted ==
  /\ run.pc = "returning" => run.result # "none"
  /\ run.pc = "finishing" =>
       run.result \in {"COMPLETED", "FAILED"} /\ ~run.cancelled
  /\ run.pc \in {"returning", "finishing"} /\
     run.result \in {"COMPLETED", "FAILED"} =>
       /\ plugin.state = "closed" /\ plugin.output = run.result
       /\ run.result = "COMPLETED" => run.answer = "succeeded"

(* Where a plugin process may be, and its handoff, which is the newest. *)
PluginsAreBounded ==
  /\ run.pc \in {"outcome", "returning"} => plugin.state = "closed"
  /\ plugin.handed # 0 => plugin.handed = handoffs
  /\ plugin.handed # 0 /\ plugin.state \in {"exited", "closed"} =>
       plugin.output \in LateOutputs \cup {"BROKEN"}

(* An attempt is inserted after its task. *)
AttemptNeedsTask == attempt # Absent => status # Absent

(* A task waits to be entered only before it is paused. *)
NotPausedYet ==
  run.pc \in {"starting", "health", "spawn", "failing"} => status # "PAUSED"

(* The inductive invariant. *)
Inv ==
  /\ TypeOK /\ LoopIsHeld /\ PausersAreAttached /\ WritesAreInOrder
  /\ ResultsArePrinted /\ PluginsAreBounded /\ AttemptNeedsTask /\ NotPausedYet
  /\ NoPluginOutlivesItsRun /\ NoChannelOutlivesItsRun /\ FinishedTogether

-----------------------------------------------------------------------------
(* The lists of writes and the processes that actions create. *)

LEMMA WritesAreTyped ==
  /\ << >> \in Seq(Write)
  /\ StartWrites \in Seq(Write) /\ RecoverWrites \in Seq(Write)
  /\ RequeueWrites \in Seq(Write) /\ PersistWrites \in Seq(Write)
  /\ EnterWrites \in Seq(Write)
  /\ \A target \in Status : FinishWrites(target) \in Seq(Write)
<1>1. \A row \in {"task", "attempt", "checkpoint"}, to \in Status :
        W(row, to) \in Write
  BY DEF W, Write
<1>. USE DEF Status
<1>2. /\ << >> \in Seq(Write)
      /\ StartWrites \in Seq(Write) /\ RecoverWrites \in Seq(Write)
  BY <1>1 DEF StartWrites, RecoverWrites
<1>3. RequeueWrites \in Seq(Write) /\ PersistWrites \in Seq(Write)
  BY <1>1 DEF RequeueWrites, PersistWrites
<1>4. EnterWrites \in Seq(Write)
  BY <1>1 DEF EnterWrites
<1>5. \A target \in Status : FinishWrites(target) \in Seq(Write)
  BY <1>1 DEF FinishWrites
<1>. QED  BY <1>2, <1>3, <1>4, <1>5

LEMMA WritesAreLeft ==
  /\ StartWrites # << >> /\ RecoverWrites # << >> /\ RequeueWrites # << >>
  /\ PersistWrites # << >>
  /\ \A target : FinishWrites(target) # << >>
BY DEF StartWrites, RecoverWrites, RequeueWrites, PersistWrites, FinishWrites

LEMMA NewPluginIsPlugin ==
  NewPlugin("none") \in Plugin /\ NewPlugin("running") \in Plugin
BY DEF NewPlugin, Plugin

LEMMA KillLeaves ==
  ASSUME plugin \in Plugin, KillPlugin
  PROVE  /\ plugin' \in Plugin /\ plugin'.handed = plugin.handed
         /\ \/ plugin' = plugin
            \/ /\ plugin.state = "running"
               /\ plugin'.state = "exited" /\ plugin'.output = "BROKEN"
<1>1. CASE UNCHANGED plugin
  BY <1>1
<1>2. CASE /\ plugin.state = "running"
           /\ plugin' = [plugin EXCEPT !.state = "exited", !.output = "BROKEN"]
  BY <1>2 DEF Plugin
<1>. QED  BY <1>1, <1>2 DEF KillPlugin

-----------------------------------------------------------------------------
(* The commands. *)

LEMMA ExecuteKeeps ==
  ASSUME Inv, Execute
  PROVE  Inv'
<1>. USE DEF Inv, TypeOK, Execute, Hold, NewRun, db, world
<1>1. TypeOK'
  <2>1. run' \in Run
    BY DEF Run, Writing
  <2>2. todo' \in Seq(Write)
    BY WritesAreTyped
  <2>. QED  BY <2>1, <2>2
<1>2. LoopIsHeld'
  BY PausersAreNoOwners DEF LoopIsHeld, Writing
<1>3. PausersAreAttached'
  BY DEF Attached, PausersAreAttached
<1>4. WritesAreInOrder'
  BY PausersAreNoOwners DEF Starting, WritesAreInOrder
<1>5. ResultsArePrinted'
  BY DEF ResultsArePrinted
<1>6. PluginsAreBounded'
  BY DEF PluginsAreBounded
<1>7. NotPausedYet'
  BY DEF Absent, NotPausedYet
<1>8. NoPluginOutlivesItsRun' /\ NoChannelOutlivesItsRun'
  BY DEF Attached, NoPluginOutlivesItsRun, NoChannelOutlivesItsRun
<1>. QED  BY <1>1, <1>2, <1>3, <1>4, <1>5, <1>6, <1>7, <1>8
          DEF AttemptNeedsTask, FinishedTogether

LEMMA RecoverKeeps ==
  ASSUME Inv, Recover
  PROVE  Inv'
<1>. USE DEF Inv, TypeOK, Recover, Hold, NewRun, db, world
<1>1. TypeOK'
  <2>1. run' \in Run
    BY DEF Run, Writing
  <2>2. todo' \in Seq(Write)
    BY WritesAreTyped
  <2>. QED  BY <2>1, <2>2
<1>2. LoopIsHeld'
  BY PausersAreNoOwners DEF LoopIsHeld, Writing
<1>3. PausersAreAttached'
  BY DEF Attached, PausersAreAttached
<1>4. WritesAreInOrder'
  BY PausersAreNoOwners DEF Recovering, WritesAreInOrder
<1>5. ResultsArePrinted'
  BY DEF ResultsArePrinted
<1>6. PluginsAreBounded'
  BY DEF PluginsAreBounded
<1>7. NotPausedYet'
  BY DEF NotPausedYet
<1>8. NoPluginOutlivesItsRun' /\ NoChannelOutlivesItsRun'
  BY DEF Attached, NoPluginOutlivesItsRun, NoChannelOutlivesItsRun
<1>. QED  BY <1>1, <1>2, <1>3, <1>4, <1>5, <1>6, <1>7, <1>8
          DEF AttemptNeedsTask, FinishedTogether

LEMMA ResumeKeeps ==
  ASSUME Inv, Resume
  PROVE  Inv'
<1>. USE DEF Inv, TypeOK, Resume, Hold, NewRun, db, world
<1>1. TypeOK'
  <2>1. run' \in Run
    BY DEF Run, Writing
  <2>2. todo' \in Seq(Write)
    BY WritesAreTyped
  <2>. QED  BY <2>1, <2>2
<1>2. LoopIsHeld'
  BY PausersAreNoOwners DEF LoopIsHeld, Writing
<1>3. PausersAreAttached'
  BY DEF Attached, PausersAreAttached
<1>4. WritesAreInOrder'
  BY PausersAreNoOwners DEF Requeueing, WritesAreInOrder
<1>5. ResultsArePrinted'
  BY DEF ResultsArePrinted
<1>6. PluginsAreBounded'
  BY DEF PluginsAreBounded
<1>7. NotPausedYet'
  BY DEF NotPausedYet
<1>8. NoPluginOutlivesItsRun' /\ NoChannelOutlivesItsRun'
  BY DEF Attached, NoPluginOutlivesItsRun, NoChannelOutlivesItsRun
<1>. QED  BY <1>1, <1>2, <1>3, <1>4, <1>5, <1>6, <1>7, <1>8
          DEF AttemptNeedsTask, FinishedTogether

LEMMA StopKeeps ==
  ASSUME Inv, Stop
  PROVE  Inv'
<1>. USE DEF Inv, TypeOK, Stop, Attached, db
<1>1. TypeOK'
  <2>1. run' \in Run
    BY DEF Run
  <2>. QED  BY <2>1
<1>2. LoopIsHeld'
  BY DEF LoopIsHeld
<1>3. PausersAreAttached'
  BY DEF PausersAreAttached
<1>4. WritesAreInOrder'
  BY DEF Persisting, WritesAreInOrder
<1>5. ResultsArePrinted'
  BY DEF ResultsArePrinted
<1>6. PluginsAreBounded'
  BY DEF PluginsAreBounded
<1>7. NotPausedYet'
  BY DEF NotPausedYet
<1>8. NoPluginOutlivesItsRun' /\ NoChannelOutlivesItsRun'
  BY DEF NoPluginOutlivesItsRun, NoChannelOutlivesItsRun
<1>. QED  BY <1>1, <1>2, <1>3, <1>4, <1>5, <1>6, <1>7, <1>8
          DEF AttemptNeedsTask, FinishedTogether

LEMMA StopKillsKeeps ==
  ASSUME Inv, StopKills
  PROVE  Inv'
<1>. USE DEF Inv, TypeOK, db
<1>1. /\ UNCHANGED <<db, run, pauser, read, turn, todo, channel, survivors,
                     handoffs, faults>>
      /\ plugin' \in Plugin /\ plugin'.handed = plugin.handed
      /\ \/ plugin' = plugin
         \/ /\ plugin.state = "running"
            /\ plugin'.state = "exited" /\ plugin'.output = "BROKEN"
  BY KillLeaves DEF StopKills
<1>2. TypeOK' /\ PausersAreAttached'
  BY <1>1 DEF PausersAreAttached
<1>3. ResultsArePrinted' /\ PluginsAreBounded'
  BY <1>1 DEF ResultsArePrinted, PluginsAreBounded
<1>4. NoPluginOutlivesItsRun' /\ NoChannelOutlivesItsRun'
  BY <1>1 DEF NoPluginOutlivesItsRun, NoChannelOutlivesItsRun
<1>. QED  BY <1>1, <1>2, <1>3, <1>4
          DEF AttemptNeedsTask, Ending, Entering, FinishedTogether,
            LoopIsHeld, NotPausedYet, Persisting, Recovering, Requeueing,
            Starting, WritesAreInOrder

LEMMA PauseKeeps ==
  ASSUME Inv, NEW p \in Pausers, Pause(p)
  PROVE  Inv'
<1>. USE DEF Inv, TypeOK, Pause, Attached, db, world
<1>1. TypeOK'
  <2>1. run' \in Run
    BY DEF Run
  <2>2. pauser' \in [Pausers -> PauserState]
    BY DEF PauserState
  <2>. QED  BY <2>1, <2>2
<1>2. LoopIsHeld'
  BY DEF LoopIsHeld
<1>3. PausersAreAttached'
  BY DEF PausersAreAttached
<1>4. WritesAreInOrder'
  BY DEF Persisting, WritesAreInOrder
<1>5. ResultsArePrinted'
  BY DEF ResultsArePrinted
<1>6. PluginsAreBounded'
  BY DEF PluginsAreBounded
<1>7. NotPausedYet'
  BY DEF NotPausedYet
<1>8. NoPluginOutlivesItsRun' /\ NoChannelOutlivesItsRun'
  BY DEF NoPluginOutlivesItsRun, NoChannelOutlivesItsRun
<1>. QED  BY <1>1, <1>2, <1>3, <1>4, <1>5, <1>6, <1>7, <1>8
          DEF AttemptNeedsTask, FinishedTogether

-----------------------------------------------------------------------------
(* The stretches of execute() that write. *)

LEMMA RecoveredKeeps ==
  ASSUME Inv, Recovered
  PROVE  Inv'
<1>. USE DEF Inv, TypeOK, Recovered, Done, GoTo, Hold, Release, db, world
<1>1. TypeOK'
  <2>1. run' \in Run
    BY DEF Run, Writing
  <2>2. todo' \in Seq(Write)
    BY WritesAreTyped
  <2>. QED  BY <2>1, <2>2
<1>2. LoopIsHeld'
  BY PausersAreNoOwners DEF LoopIsHeld, Run, Writing
<1>3. PausersAreAttached'
  BY DEF Attached, PausersAreAttached
<1>4. WritesAreInOrder'
  BY PausersAreNoOwners, WritesAreLeft
  DEF Recovering, Requeueing, Run, WritesAreInOrder
<1>5. ResultsArePrinted'
  BY DEF ResultsArePrinted, Run
<1>6. PluginsAreBounded'
  BY DEF PluginsAreBounded, Run
<1>7. NotPausedYet'
  BY DEF NotPausedYet, Run
<1>8. NoPluginOutlivesItsRun' /\ NoChannelOutlivesItsRun'
  BY DEF Attached, NoPluginOutlivesItsRun, NoChannelOutlivesItsRun
<1>. QED  BY <1>1, <1>2, <1>3, <1>4, <1>5, <1>6, <1>7, <1>8
          DEF AttemptNeedsTask, FinishedTogether

LEMMA RequeuedKeeps ==
  ASSUME Inv, Requeued
  PROVE  Inv'
<1>. USE DEF Inv, TypeOK, Requeued, Done, GoTo, Hold, Release, db, world
<1>1. TypeOK'
  <2>1. run' \in Run
    BY DEF Awaiting, Run
  <2>2. todo' \in Seq(Write)
    OBVIOUS
  <2>. QED  BY <2>1, <2>2
<1>2. LoopIsHeld'
  BY PausersAreNoOwners DEF LoopIsHeld, Run, Writing
<1>3. PausersAreAttached'
  BY DEF Attached, PausersAreAttached
<1>4. WritesAreInOrder'
  BY PausersAreNoOwners DEF Run, WritesAreInOrder
<1>5. ResultsArePrinted'
  BY DEF ResultsArePrinted, Run
<1>6. PluginsAreBounded'
  BY DEF PluginsAreBounded, Run
<1>7. NotPausedYet'
  BY WritesAreLeft DEF NotPausedYet, Requeueing, WritesAreInOrder
<1>8. NoPluginOutlivesItsRun' /\ NoChannelOutlivesItsRun'
  BY DEF Attached, NoPluginOutlivesItsRun, NoChannelOutlivesItsRun
<1>. QED  BY <1>1, <1>2, <1>3, <1>4, <1>5, <1>6, <1>7, <1>8
          DEF AttemptNeedsTask, FinishedTogether

LEMMA WrittenKeeps ==
  ASSUME Inv, Written
  PROVE  Inv'
<1>. USE DEF Inv, TypeOK, Written, AfterWrites, GoTo, Hold, Release, db, world
<1>1. TypeOK'
  <2>1. run' \in Run
    <3>1. AfterWrites[run.pc] \in {"health", "spawn", "none"}
      OBVIOUS
    <3>. QED  BY <3>1 DEF Awaiting, Run
  <2>2. todo' \in Seq(Write)
    OBVIOUS
  <2>. QED  BY <2>1, <2>2
<1>2. LoopIsHeld'
  BY PausersAreNoOwners DEF LoopIsHeld, Writing
<1>3. PausersAreAttached'
  BY DEF Attached, PausersAreAttached
<1>4. WritesAreInOrder'
  BY PausersAreNoOwners DEF WritesAreInOrder
<1>5. ResultsArePrinted'
  BY DEF ResultsArePrinted
<1>6. PluginsAreBounded'
  BY DEF PluginsAreBounded
<1>7. NotPausedYet'
  BY DEF Entering, NotPausedYet, WritesAreInOrder
<1>8. NoPluginOutlivesItsRun' /\ NoChannelOutlivesItsRun'
  BY DEF Attached, NoPluginOutlivesItsRun, NoChannelOutlivesItsRun
<1>. QED  BY <1>1, <1>2, <1>3, <1>4, <1>5, <1>6, <1>7, <1>8
          DEF AttemptNeedsTask, FinishedTogether

LEMMA RunRefusedKeeps ==
  ASSUME Inv, RunRefused
  PROVE  Inv'
<1>. USE DEF Inv, TypeOK, RunRefused, GoTo, HandleError, Hold, Release, db,
         world
<1>1. TypeOK'
  <2>1. run' \in Run
    BY DEF Run, Writing
  <2>2. todo' \in Seq(Write)
    BY WritesAreTyped DEF Status
  <2>. QED  BY <2>1, <2>2
<1>2. LoopIsHeld'
  BY PausersAreNoOwners DEF LoopIsHeld, Run, Writing
<1>3. PausersAreAttached'
  BY DEF Attached, LoopIsHeld, PausersAreAttached, Writing
<1>4. WritesAreInOrder'
  BY PausersAreNoOwners DEF Ending, Run, WritesAreInOrder
<1>5. ResultsArePrinted'
  BY DEF ResultsArePrinted, Run
<1>6. PluginsAreBounded'
  BY DEF PluginsAreBounded, Run
<1>7. NotPausedYet'
  BY DEF NotPausedYet, Run
<1>8. NoPluginOutlivesItsRun' /\ NoChannelOutlivesItsRun'
  BY DEF Attached, LoopIsHeld, NoPluginOutlivesItsRun,
     NoChannelOutlivesItsRun, Writing
<1>. QED  BY <1>1, <1>2, <1>3, <1>4, <1>5, <1>6, <1>7, <1>8
          DEF AttemptNeedsTask, FinishedTogether

-----------------------------------------------------------------------------
(* The awaits of execute(). *)

LEMMA HealthAnswersKeeps ==
  ASSUME Inv, HealthAnswers
  PROVE  Inv'
<1>. USE DEF Inv, TypeOK, HealthAnswers, GoTo, HandleError, Hold, Release,
         Woken, db, world
<1>1. TypeOK'
  <2>1. run' \in Run
    BY DEF Run, Writing
  <2>2. todo' \in Seq(Write)
    BY WritesAreTyped DEF Status
  <2>. QED  BY <2>1, <2>2
<1>2. LoopIsHeld'
  BY PausersAreNoOwners DEF LoopIsHeld, Run, Writing
<1>3. PausersAreAttached'
  BY DEF Attached, PausersAreAttached
<1>4. WritesAreInOrder'
  BY PausersAreNoOwners
  DEF Ending, EnterWrites, Entering, NotPausedYet, Run, WritesAreInOrder
<1>5. ResultsArePrinted'
  BY DEF ResultsArePrinted, Run
<1>6. PluginsAreBounded'
  BY DEF PluginsAreBounded, Run
<1>7. NotPausedYet'
  BY DEF NotPausedYet
<1>8. NoPluginOutlivesItsRun' /\ NoChannelOutlivesItsRun'
  BY DEF Attached, NoPluginOutlivesItsRun, NoChannelOutlivesItsRun
<1>. QED  BY <1>1, <1>2, <1>3, <1>4, <1>5, <1>6, <1>7, <1>8
          DEF AttemptNeedsTask, FinishedTogether

LEMMA SpawnedKeeps ==
  ASSUME Inv, Spawned
  PROVE  Inv'
<1>. USE DEF Inv, TypeOK, Spawned, GoTo, HandleError, Hold, Release, Woken, db
<1>1. TypeOK'
  <2>1. run' \in Run
    BY DEF Awaiting, Run, Writing
  <2>2. todo' \in Seq(Write)
    BY WritesAreTyped DEF Status
  <2>3. plugin' \in Plugin
    BY NewPluginIsPlugin
  <2>. QED  BY <2>1, <2>2, <2>3 DEF NewPlugin
<1>2. LoopIsHeld'
  BY PausersAreNoOwners DEF LoopIsHeld, Run, Writing
<1>3. PausersAreAttached'
  BY DEF Attached, PausersAreAttached
<1>4. WritesAreInOrder'
  BY PausersAreNoOwners DEF Ending, Run, WritesAreInOrder
<1>5. ResultsArePrinted'
  BY DEF ResultsArePrinted, Run
<1>6. PluginsAreBounded'
  BY DEF NewPlugin, PluginsAreBounded, Run
<1>7. NotPausedYet'
  BY DEF NotPausedYet
<1>8. NoPluginOutlivesItsRun' /\ NoChannelOutlivesItsRun'
  BY DEF Attached, NoPluginOutlivesItsRun, NoChannelOutlivesItsRun, Run
<1>. QED  BY <1>1, <1>2, <1>3, <1>4, <1>5, <1>6, <1>7, <1>8
          DEF AttemptNeedsTask, FinishedTogether

LEMMA PollFindsExitKeeps ==
  ASSUME Inv, PollFindsExit
  PROVE  Inv'
<1>. USE DEF Inv, TypeOK, PollFindsExit, Accepts, Woken, db, world
<1>1. TypeOK'
  <2>1. run' \in Run
    BY DEF Awaiting, Run
  <2>. QED  BY <2>1
<1>2. LoopIsHeld'
  BY DEF LoopIsHeld, Writing
<1>3. PausersAreAttached'
  BY DEF Attached, PausersAreAttached
<1>4. WritesAreInOrder'
  BY DEF Persisting, WritesAreInOrder
<1>5. ResultsArePrinted'
  BY DEF ResultsArePrinted
<1>6. PluginsAreBounded'
  BY DEF PluginsAreBounded
<1>7. NotPausedYet'
  BY DEF NotPausedYet
<1>8. NoPluginOutlivesItsRun' /\ NoChannelOutlivesItsRun'
  BY DEF NoPluginOutlivesItsRun, NoChannelOutlivesItsRun
<1>. QED  BY <1>1, <1>2, <1>3, <1>4, <1>5, <1>6, <1>7, <1>8
          DEF AttemptNeedsTask, FinishedTogether

LEMMA PollFindsStopKeeps ==
  ASSUME Inv, PollFindsStop
  PROVE  Inv'
<1>. USE DEF Inv, TypeOK, PollFindsStop, GoTo, Woken, db, world
<1>1. TypeOK'
  <2>1. run' \in Run
    BY DEF Awaiting, Run
  <2>. QED  BY <2>1
<1>2. LoopIsHeld'
  BY DEF LoopIsHeld, Writing
<1>3. PausersAreAttached'
  BY DEF Attached, PausersAreAttached
<1>4. WritesAreInOrder'
  BY DEF Persisting, WritesAreInOrder
<1>5. ResultsArePrinted'
  BY DEF ResultsArePrinted
<1>6. PluginsAreBounded'
  BY DEF PluginsAreBounded
<1>7. NotPausedYet'
  BY DEF NotPausedYet
<1>8. NoPluginOutlivesItsRun' /\ NoChannelOutlivesItsRun'
  BY DEF Attached, NoPluginOutlivesItsRun, NoChannelOutlivesItsRun
<1>. QED  BY <1>1, <1>2, <1>3, <1>4, <1>5, <1>6, <1>7, <1>8
          DEF AttemptNeedsTask, FinishedTogether

LEMMA PollFindsRequestKeeps ==
  ASSUME Inv, PollFindsRequest
  PROVE  Inv'
<1>. USE DEF Inv, TypeOK, PollFindsRequest, GoTo, Woken, db
<1>1. TypeOK'
  <2>1. run' \in Run
    BY DEF Awaiting, Run
  <2>. QED  BY <2>1
<1>2. LoopIsHeld'
  BY DEF LoopIsHeld, Run, Writing
<1>3. PausersAreAttached'
  BY DEF Attached, PausersAreAttached, Run
<1>4. WritesAreInOrder'
  BY DEF Persisting, Run, WritesAreInOrder
<1>5. ResultsArePrinted'
  BY DEF ResultsArePrinted, Run
<1>6. PluginsAreBounded'
  BY DEF PluginsAreBounded, Run
<1>7. NotPausedYet'
  BY DEF NotPausedYet, Run
<1>8. NoPluginOutlivesItsRun' /\ NoChannelOutlivesItsRun'
  BY DEF Attached, NoPluginOutlivesItsRun, NoChannelOutlivesItsRun, Run
<1>. QED  BY <1>1, <1>2, <1>3, <1>4, <1>5, <1>6, <1>7, <1>8
          DEF AttemptNeedsTask, FinishedTogether

LEMMA ChannelReturnsKeeps ==
  ASSUME Inv, ChannelReturns
  PROVE  Inv'
<1>. USE DEF Inv, TypeOK, ChannelReturns, TakeAnswer, Woken, db
<1>1. TypeOK'
  <2>1. run' \in Run
    BY DEF Awaiting, Run
  <2>. QED  BY <2>1
<1>2. LoopIsHeld'
  BY DEF LoopIsHeld, Writing
<1>3. PausersAreAttached'
  BY DEF Attached, PausersAreAttached
<1>4. WritesAreInOrder'
  BY DEF Persisting, WritesAreInOrder
<1>5. ResultsArePrinted'
  BY DEF ResultsArePrinted
<1>6. PluginsAreBounded'
  BY DEF PluginsAreBounded
<1>7. NotPausedYet'
  BY DEF NotPausedYet
<1>8. NoPluginOutlivesItsRun' /\ NoChannelOutlivesItsRun'
  BY DEF Attached, NoPluginOutlivesItsRun, NoChannelOutlivesItsRun
<1>. QED  BY <1>1, <1>2, <1>3, <1>4, <1>5, <1>6, <1>7, <1>8
          DEF AttemptNeedsTask, FinishedTogether

LEMMA OutcomeKnownKeeps ==
  ASSUME Inv, OutcomeKnown
  PROVE  Inv'
<1>. USE DEF Inv, TypeOK, OutcomeKnown, Woken, db, world
<1>1. TypeOK'
  <2>1. run' \in Run
    BY DEF Awaiting, Run
  <2>. QED  BY <2>1
<1>2. LoopIsHeld'
  BY DEF LoopIsHeld, Writing
<1>3. PausersAreAttached'
  BY DEF Attached, PausersAreAttached
<1>4. WritesAreInOrder'
  BY DEF Persisting, WritesAreInOrder
<1>5. ResultsArePrinted'
  BY DEF ResultsArePrinted
<1>6. PluginsAreBounded'
  BY DEF PluginsAreBounded
<1>7. NotPausedYet'
  BY DEF NotPausedYet
<1>8. NoPluginOutlivesItsRun' /\ NoChannelOutlivesItsRun'
  BY DEF Attached, NoPluginOutlivesItsRun, NoChannelOutlivesItsRun
<1>. QED  BY <1>1, <1>2, <1>3, <1>4, <1>5, <1>6, <1>7, <1>8
          DEF AttemptNeedsTask, FinishedTogether

(* Where a timeout, or a channel that did not end, sends the transport. *)
LEMMA TimeoutGoesTo ==
  ASSUME run \in Run, TimesOut
  PROVE  /\ run' \in Run /\ run.pc \in {"poll", "channel", "outcome"}
         /\ run'.pc = (IF run.pc = "channel" THEN "ending" ELSE "aborting")
         /\ run'.result = run.result /\ run'.outcome = run.outcome
<1>1. CASE run.pc = "channel"
  <2>1. run' = [run EXCEPT !.overdue = TRUE, !.pc = "ending"]
    BY <1>1 DEF TimesOut, Run
  <2>. QED  BY <1>1, <2>1 DEF Run, Awaiting
<1>2. CASE run.pc \in {"poll", "outcome"}
  <2>1. run' = [run EXCEPT !.overdue = TRUE, !.pc = "aborting"]
    BY <1>2 DEF TimesOut, Run
  <2>. QED  BY <1>2, <2>1 DEF Run, Awaiting
<1>. QED  BY <1>1, <1>2 DEF TimesOut

LEMMA LostChannelGoesTo ==
  ASSUME run \in Run, ChannelIsNotEnded
  PROVE  /\ run' \in Run /\ run.pc = "ending"
         /\ run'.pc \in {"poll", "aborting"}
         /\ run'.result = run.result /\ run'.outcome = run.outcome
<1>1. \/ run' = [run EXCEPT !.pc = "poll", !.answer = "failed"]
      \/ run' = [run EXCEPT !.pc = "aborting"]
  BY DEF ChannelIsNotEnded, TakeAnswer, GoTo
<1>2. run.pc = "ending"
  BY DEF ChannelIsNotEnded, Woken
<1>. QED  BY <1>1, <1>2 DEF Run, Awaiting

LEMMA TimesOutKeeps ==
  ASSUME Inv, TimesOut
  PROVE  Inv'
<1>. USE DEF Inv, TypeOK, db
<1>1. /\ run' \in Run /\ run.pc \in {"poll", "channel", "outcome"}
      /\ run'.pc = (IF run.pc = "channel" THEN "ending" ELSE "aborting")
  BY TimeoutGoesTo
<1>2. UNCHANGED <<db, pauser, read, turn, todo, plugin, handoffs>>
  BY DEF TimesOut, world
<1>3. TypeOK'
  BY <1>1, <1>2 DEF TimesOut, world
<1>4. LoopIsHeld' /\ PausersAreAttached'
  BY <1>1, <1>2 DEF LoopIsHeld, PausersAreAttached, Attached, Writing
<1>5. WritesAreInOrder'
  BY <1>1, <1>2 DEF Persisting, WritesAreInOrder
<1>6. ResultsArePrinted' /\ PluginsAreBounded' /\ NotPausedYet'
  BY <1>1, <1>2 DEF ResultsArePrinted, PluginsAreBounded, NotPausedYet
<1>7. NoPluginOutlivesItsRun' /\ NoChannelOutlivesItsRun'
  BY <1>1, <1>2
  DEF Attached, NoPluginOutlivesItsRun, NoChannelOutlivesItsRun, TimesOut,
     world
<1>. QED  BY <1>2, <1>3, <1>4, <1>5, <1>6, <1>7
          DEF AttemptNeedsTask, FinishedTogether

LEMMA ChannelIsEndedKeeps ==
  ASSUME Inv, ChannelIsEnded
  PROVE  Inv'
<1>. USE DEF Inv, TypeOK, ChannelIsEnded, GoTo, Woken, db
<1>1. TypeOK'
  <2>1. run' \in Run
    BY DEF Awaiting, Run
  <2>. QED  BY <2>1
<1>2. LoopIsHeld'
  BY DEF LoopIsHeld, Run, Writing
<1>3. PausersAreAttached'
  BY DEF Attached, PausersAreAttached, Plugin, Run
<1>4. WritesAreInOrder'
  BY DEF Persisting, Run, WritesAreInOrder
<1>5. ResultsArePrinted'
  BY DEF Plugin, ResultsArePrinted, Run
<1>6. PluginsAreBounded'
  BY DEF Plugin, PluginsAreBounded, Run
<1>7. NotPausedYet'
  BY DEF NotPausedYet, Run
<1>8. NoPluginOutlivesItsRun' /\ NoChannelOutlivesItsRun'
  BY DEF Attached, NoPluginOutlivesItsRun, NoChannelOutlivesItsRun, Plugin, Run
<1>. QED  BY <1>1, <1>2, <1>3, <1>4, <1>5, <1>6, <1>7, <1>8
          DEF AttemptNeedsTask, FinishedTogether

LEMMA ChannelIsNotEndedKeeps ==
  ASSUME Inv, ChannelIsNotEnded
  PROVE  Inv'
<1>. USE DEF Inv, TypeOK, db
<1>1. /\ run' \in Run /\ run.pc = "ending"
      /\ run'.pc \in {"poll", "aborting"}
  BY LostChannelGoesTo
<1>2. UNCHANGED <<db, pauser, read, turn, todo, plugin, handoffs>>
  BY DEF ChannelIsNotEnded, world
<1>3. TypeOK'
  <2>1. /\ channel' = "none" /\ faults.unconfirmed < MaxUnconfirmed
        /\ survivors' = [survivors EXCEPT !.channel = @ + 1]
        /\ faults' = [faults EXCEPT !.unconfirmed = @ + 1]
    BY DEF ChannelIsNotEnded
  <2>2. /\ survivors' \in [plugin : Nat, channel : Nat]
        /\ faults' \in [crash : 0..MaxCrashes, unconfirmed : 0..MaxUnconfirmed]
    <3>. HIDE DEF Inv
    <3>1. /\ survivors \in [plugin : Nat, channel : Nat]
          /\ faults \in [crash : 0..MaxCrashes, unconfirmed : 0..MaxUnconfirmed]
          /\ MaxUnconfirmed \in Nat
      BY BoundsAreNaturals DEF Inv
    <3>. HIDE DEF TypeOK
    <3>2. survivors' \in [plugin : Nat, channel : Nat]
      BY <2>1, <3>1
    <3>3. faults' \in [crash : 0..MaxCrashes, unconfirmed : 0..MaxUnconfirmed]
      BY <2>1, <3>1
    <3>. QED  BY <3>2, <3>3
  <2>. QED  BY <1>1, <1>2, <2>1, <2>2
<1>4. LoopIsHeld' /\ PausersAreAttached'
  BY <1>1, <1>2 DEF LoopIsHeld, PausersAreAttached, Attached, Writing
<1>5. WritesAreInOrder'
  BY <1>1, <1>2 DEF Persisting, WritesAreInOrder
<1>6. ResultsArePrinted' /\ PluginsAreBounded' /\ NotPausedYet'
  BY <1>1, <1>2 DEF ResultsArePrinted, PluginsAreBounded, NotPausedYet
<1>7. NoPluginOutlivesItsRun' /\ NoChannelOutlivesItsRun'
  BY <1>1, <1>2
  DEF Attached, NoPluginOutlivesItsRun, NoChannelOutlivesItsRun,
     ChannelIsNotEnded
<1>. QED  BY <1>2, <1>3, <1>4, <1>5, <1>6, <1>7
          DEF AttemptNeedsTask, FinishedTogether

LEMMA AbortKeeps ==
  ASSUME Inv, Abort
  PROVE  Inv'
<1>. USE DEF Inv, TypeOK, Abort, KillPlugin, GoTo, Woken, db
<1>1. TypeOK'
  <2>1. run' \in Run
    BY DEF Awaiting, Run
  <2>2. plugin' \in Plugin
    BY DEF Plugin
  <2>. QED  BY <2>1, <2>2 DEF Plugin
<1>2. LoopIsHeld'
  BY DEF LoopIsHeld, Run, Writing
<1>3. PausersAreAttached'
  BY DEF Attached, PausersAreAttached, Plugin, Run
<1>4. WritesAreInOrder'
  BY DEF Persisting, Run, WritesAreInOrder
<1>5. ResultsArePrinted'
  BY DEF Plugin, ResultsArePrinted, Run
<1>6. PluginsAreBounded'
  BY DEF Plugin, PluginsAreBounded, Run
<1>7. NotPausedYet'
  BY DEF NotPausedYet, Run
<1>8. NoPluginOutlivesItsRun' /\ NoChannelOutlivesItsRun'
  BY DEF Attached, NoPluginOutlivesItsRun, NoChannelOutlivesItsRun, Plugin, Run
<1>. QED  BY <1>1, <1>2, <1>3, <1>4, <1>5, <1>6, <1>7, <1>8
          DEF AttemptNeedsTask, FinishedTogether

LEMMA ReturnKeeps ==
  ASSUME Inv, Return
  PROVE  Inv'
<1>. USE DEF Inv, TypeOK, Return, GoTo, HandleError, Hold, LeaveTransport,
         Release, db, world
<1>1. TypeOK'
  <2>1. run' \in Run
    BY DEF Run, Writing
  <2>2. pauser' \in [Pausers -> PauserState]
    BY DEF PauserState
  <2>3. todo' \in Seq(Write)
    BY WritesAreTyped DEF ResultsArePrinted, Run, Status
  <2>. QED  BY <2>1, <2>2, <2>3
<1>2. LoopIsHeld'
  BY PausersAreNoOwners DEF LoopIsHeld, Run, Writing
<1>3. PausersAreAttached'
  BY PausersAreNoOwners DEF LoopIsHeld, PausersAreAttached
<1>4. WritesAreInOrder'
  BY PausersAreNoOwners DEF Ending, Run, WritesAreInOrder
<1>5. ResultsArePrinted'
  BY DEF ResultsArePrinted, Run
<1>6. PluginsAreBounded'
  BY DEF PluginsAreBounded
<1>7. NotPausedYet'
  BY DEF NotPausedYet, Run
<1>8. NoPluginOutlivesItsRun' /\ NoChannelOutlivesItsRun'
  BY DEF NoPluginOutlivesItsRun, NoChannelOutlivesItsRun, PluginsAreBounded
<1>. QED  BY <1>1, <1>2, <1>3, <1>4, <1>5, <1>6, <1>7, <1>8
          DEF AttemptNeedsTask, FinishedTogether

LEMMA RaiseKeeps ==
  ASSUME Inv, Raise
  PROVE  Inv'
<1>. USE DEF Inv, TypeOK, Raise, GoTo, HandleError, Hold, LeaveTransport,
         Release, db, world
<1>1. TypeOK'
  <2>1. run' \in Run
    BY DEF Run, Writing
  <2>2. pauser' \in [Pausers -> PauserState]
    BY DEF PauserState
  <2>3. todo' \in Seq(Write)
    BY WritesAreTyped DEF Status
  <2>. QED  BY <2>1, <2>2, <2>3
<1>2. LoopIsHeld'
  BY PausersAreNoOwners DEF LoopIsHeld, Run, Writing
<1>3. PausersAreAttached'
  BY PausersAreNoOwners DEF LoopIsHeld, PausersAreAttached
<1>4. WritesAreInOrder'
  BY PausersAreNoOwners DEF Ending, Run, WritesAreInOrder
<1>5. ResultsArePrinted'
  BY DEF ResultsArePrinted, Run
<1>6. PluginsAreBounded'
  BY DEF PluginsAreBounded
<1>7. NotPausedYet'
  BY DEF NotPausedYet, Run
<1>8. NoPluginOutlivesItsRun' /\ NoChannelOutlivesItsRun'
  BY DEF NoPluginOutlivesItsRun, NoChannelOutlivesItsRun
<1>. QED  BY <1>1, <1>2, <1>3, <1>4, <1>5, <1>6, <1>7, <1>8
          DEF AttemptNeedsTask, FinishedTogether

-----------------------------------------------------------------------------
(* The pause commands. *)

LEMMA FindResponseKeeps ==
  ASSUME Inv, NEW p \in Pausers, FindResponse(p)
  PROVE  Inv'
<1>. USE DEF Inv, TypeOK, FindResponse, Hold, db, world
<1>1. TypeOK'
  <2>1. pauser' \in [Pausers -> PauserState]
    BY DEF PauserState
  <2>2. todo' \in Seq(Write)
    BY WritesAreTyped
  <2>. QED  BY <2>1, <2>2
<1>2. LoopIsHeld'
  BY PausersAreNoOwners DEF LoopIsHeld
<1>3. PausersAreAttached'
  BY DEF PausersAreAttached
<1>4. WritesAreInOrder'
  BY DEF LoopIsHeld, Persisting, WritesAreInOrder, Writing
<1>. QED  BY <1>1, <1>2, <1>3, <1>4
          DEF AttemptNeedsTask, FinishedTogether, NoPluginOutlivesItsRun,
             NoChannelOutlivesItsRun,
            NotPausedYet, PluginsAreBounded, ResultsArePrinted

LEMMA FindExitKeeps ==
  ASSUME Inv, NEW p \in Pausers, FindExit(p)
  PROVE  Inv'
<1>. USE DEF Inv, TypeOK, FindExit, Hold, db, world
<1>1. TypeOK'
  <2>1. pauser' \in [Pausers -> PauserState]
    BY DEF PauserState
  <2>2. todo' \in Seq(Write)
    BY WritesAreTyped
  <2>. QED  BY <2>1, <2>2
<1>2. LoopIsHeld'
  BY PausersAreNoOwners DEF LoopIsHeld
<1>3. PausersAreAttached'
  BY DEF PausersAreAttached
<1>4. WritesAreInOrder'
  BY DEF LoopIsHeld, Persisting, WritesAreInOrder, Writing
<1>. QED  BY <1>1, <1>2, <1>3, <1>4
          DEF AttemptNeedsTask, FinishedTogether, NoPluginOutlivesItsRun,
             NoChannelOutlivesItsRun,
            NotPausedYet, PluginsAreBounded, ResultsArePrinted

LEMMA PauseTimesOutKeeps ==
  ASSUME Inv, NEW p \in Pausers, PauseTimesOut(p)
  PROVE  Inv'
<1>. USE DEF Inv, TypeOK, PauseTimesOut, CompletePause, Leave, db, world
<1>1. TypeOK'
  <2>1. run' \in Run
    BY DEF Run
  <2>2. pauser' \in [Pausers -> PauserState]
    BY DEF PauserState
  <2>. QED  BY <2>1, <2>2
<1>2. LoopIsHeld'
  BY DEF LoopIsHeld, Run
<1>3. PausersAreAttached'
  BY DEF PausersAreAttached, Run
<1>4. WritesAreInOrder'
  BY DEF LoopIsHeld, Persisting, Run, WritesAreInOrder, Writing
<1>5. ResultsArePrinted'
  BY DEF ResultsArePrinted, Run
<1>6. PluginsAreBounded'
  BY DEF PluginsAreBounded, Run
<1>7. NotPausedYet'
  BY DEF NotPausedYet, Run
<1>8. NoPluginOutlivesItsRun' /\ NoChannelOutlivesItsRun'
  BY DEF NoPluginOutlivesItsRun, NoChannelOutlivesItsRun, Run
<1>. QED  BY <1>1, <1>2, <1>3, <1>4, <1>5, <1>6, <1>7, <1>8
          DEF AttemptNeedsTask, FinishedTogether

LEMMA PersistFailsKeeps ==
  ASSUME Inv, NEW p \in Pausers, PersistFails(p)
  PROVE  Inv'
<1>. USE DEF Inv, TypeOK, PersistFails, CompletePause, Leave, Hold, Release,
db,
         world
<1>1. TypeOK'
  <2>1. run' \in Run
    BY DEF Run
  <2>2. pauser' \in [Pausers -> PauserState]
    BY DEF PauserState
  <2>3. todo' \in Seq(Write)
    OBVIOUS
  <2>. QED  BY <2>1, <2>2, <2>3
<1>2. LoopIsHeld'
  BY PausersAreNoOwners DEF LoopIsHeld
<1>3. PausersAreAttached'
  BY DEF PausersAreAttached
<1>4. WritesAreInOrder'
  BY PausersAreNoOwners DEF LoopIsHeld, WritesAreInOrder, Writing
<1>5. ResultsArePrinted'
  BY DEF ResultsArePrinted
<1>6. PluginsAreBounded'
  BY DEF PluginsAreBounded
<1>7. NotPausedYet'
  BY DEF NotPausedYet
<1>8. NoPluginOutlivesItsRun' /\ NoChannelOutlivesItsRun'
  BY DEF NoPluginOutlivesItsRun, NoChannelOutlivesItsRun
<1>. QED  BY <1>1, <1>2, <1>3, <1>4, <1>5, <1>6, <1>7, <1>8
          DEF AttemptNeedsTask, FinishedTogether

LEMMA PersistedKeeps ==
  ASSUME Inv, NEW p \in Pausers, Persisted(p)
  PROVE  Inv'
<1>. USE DEF Inv, TypeOK, Persisted, CompletePause, Leave, Done, Hold,
Release, db,
         world
<1>1. TypeOK'
  <2>1. run' \in Run
    BY DEF Run
  <2>2. pauser' \in [Pausers -> PauserState]
    BY DEF PauserState
  <2>3. todo' \in Seq(Write)
    OBVIOUS
  <2>. QED  BY <2>1, <2>2, <2>3
<1>2. LoopIsHeld'
  BY PausersAreNoOwners DEF LoopIsHeld
<1>3. PausersAreAttached'
  BY DEF PausersAreAttached
<1>4. WritesAreInOrder'
  BY DEF Ending, Entering, Persisting, Recovering, Requeueing, Starting,
     WritesAreInOrder
<1>5. ResultsArePrinted'
  BY DEF ResultsArePrinted
<1>6. PluginsAreBounded'
  BY DEF PluginsAreBounded
<1>7. NotPausedYet'
  BY DEF NotPausedYet
<1>8. NoPluginOutlivesItsRun' /\ NoChannelOutlivesItsRun'
  BY DEF NoPluginOutlivesItsRun, NoChannelOutlivesItsRun
<1>. QED  BY <1>1, <1>2, <1>3, <1>4, <1>5, <1>6, <1>7, <1>8
          DEF AttemptNeedsTask, FinishedTogether

-----------------------------------------------------------------------------
(* The processes outside the service, and its crash. *)

LEMMA PluginRequestsKeeps ==
  ASSUME Inv, PluginRequests
  PROVE  Inv'
<1>. USE DEF Inv, TypeOK, PluginRequests, db
<1>1. TypeOK'
  <2>1. plugin' \in Plugin
    BY DEF Plugin
  <2>. QED  BY <2>1
<1>2. PausersAreAttached'
  BY DEF PausersAreAttached
<1>3. ResultsArePrinted'
  BY DEF ResultsArePrinted
<1>4. PluginsAreBounded'
  BY DEF PluginsAreBounded
<1>5. NoPluginOutlivesItsRun' /\ NoChannelOutlivesItsRun'
  BY DEF NoPluginOutlivesItsRun, NoChannelOutlivesItsRun
<1>. QED  BY <1>1, <1>2, <1>3, <1>4, <1>5
          DEF AttemptNeedsTask, Ending, Entering, FinishedTogether,
            LoopIsHeld, NotPausedYet, Persisting, Recovering, Requeueing,
            Starting, WritesAreInOrder

LEMMA PluginHandsOffKeeps ==
  ASSUME Inv, PluginHandsOff
  PROVE  Inv'
<1>. USE DEF Inv, TypeOK, PluginHandsOff, db
<1>1. TypeOK'
  <2>1. plugin' \in Plugin
    BY DEF Plugin
  <2>. QED  BY <2>1, BoundsAreNaturals
<1>2. PausersAreAttached'
  BY DEF PausersAreAttached
<1>3. ResultsArePrinted'
  BY DEF ResultsArePrinted
<1>4. PluginsAreBounded'
  BY DEF PluginsAreBounded
<1>5. NoPluginOutlivesItsRun' /\ NoChannelOutlivesItsRun'
  BY DEF NoPluginOutlivesItsRun, NoChannelOutlivesItsRun
<1>. QED  BY <1>1, <1>2, <1>3, <1>4, <1>5
          DEF AttemptNeedsTask, Ending, Entering, FinishedTogether,
            LoopIsHeld, NotPausedYet, Persisting, Recovering, Requeueing,
            Starting, WritesAreInOrder

LEMMA PluginExitsKeeps ==
  ASSUME Inv, NEW output \in {"COMPLETED", "FAILED", "HANDOFF", "BROKEN"},
         PluginExits(output)
  PROVE  Inv'
<1>. USE DEF Inv, TypeOK, PluginExits, db
<1>1. TypeOK'
  <2>1. plugin' \in Plugin
    BY DEF Plugin
  <2>. QED  BY <2>1
<1>2. PausersAreAttached'
  BY DEF PausersAreAttached
<1>3. ResultsArePrinted'
  BY DEF ResultsArePrinted
<1>4. PluginsAreBounded'
  BY DEF PluginsAreBounded
<1>5. NoPluginOutlivesItsRun' /\ NoChannelOutlivesItsRun'
  BY DEF NoPluginOutlivesItsRun, NoChannelOutlivesItsRun
<1>. QED  BY <1>1, <1>2, <1>3, <1>4, <1>5
          DEF AttemptNeedsTask, Ending, Entering, FinishedTogether,
            LoopIsHeld, NotPausedYet, Persisting, Recovering, Requeueing,
            Starting, WritesAreInOrder

LEMMA PipesCloseKeeps ==
  ASSUME Inv, PipesClose
  PROVE  Inv'
<1>. USE DEF Inv, TypeOK, PipesClose, db
<1>1. TypeOK'
  <2>1. plugin' \in Plugin
    BY DEF Plugin
  <2>. QED  BY <2>1
<1>2. PausersAreAttached'
  BY DEF PausersAreAttached
<1>3. ResultsArePrinted'
  BY DEF ResultsArePrinted
<1>4. PluginsAreBounded'
  BY DEF PluginsAreBounded
<1>5. NoPluginOutlivesItsRun' /\ NoChannelOutlivesItsRun'
  BY DEF NoPluginOutlivesItsRun, NoChannelOutlivesItsRun
<1>. QED  BY <1>1, <1>2, <1>3, <1>4, <1>5
          DEF AttemptNeedsTask, Ending, Entering, FinishedTogether,
            LoopIsHeld, NotPausedYet, Persisting, Recovering, Requeueing,
            Starting, WritesAreInOrder

LEMMA ChannelEndsKeeps ==
  ASSUME Inv, NEW answer \in {"failed", "succeeded"}, ChannelEnds(answer)
  PROVE  Inv'
<1>. USE DEF Inv, TypeOK, ChannelEnds, db
<1>1. TypeOK'
  OBVIOUS
<1>2. NoPluginOutlivesItsRun' /\ NoChannelOutlivesItsRun'
  BY DEF NoPluginOutlivesItsRun, NoChannelOutlivesItsRun
<1>. QED  BY <1>1, <1>2
          DEF AttemptNeedsTask, Ending, Entering, FinishedTogether,
            LoopIsHeld, NotPausedYet, PausersAreAttached, Persisting,
            PluginsAreBounded, Recovering, Requeueing, ResultsArePrinted,
            Starting, WritesAreInOrder

LEMMA CrashKeeps ==
  ASSUME Inv, Crash
  PROVE  Inv'
<1>0. /\ survivors' \in [plugin : Nat, channel : Nat]
      /\ survivors'.plugin <= survivors.plugin + 1
      /\ survivors'.channel <= survivors.channel + 1
      /\ faults' \in [crash : 0..MaxCrashes, unconfirmed : 0..MaxUnconfirmed]
      /\ faults'.crash = faults.crash + 1
      /\ faults'.unconfirmed = faults.unconfirmed
  <2>1. /\ survivors \in [plugin : Nat, channel : Nat]
        /\ faults \in [crash : 0..MaxCrashes, unconfirmed : 0..MaxUnconfirmed]
        /\ MaxCrashes \in Nat /\ MaxUnconfirmed \in Nat
    BY BoundsAreNaturals DEF Inv, TypeOK
  <2>2. faults.crash < MaxCrashes /\ faults' = [faults EXCEPT !.crash = @ + 1]
    BY DEF Crash
  <2>3. PICK plugins \in PluginsLeft :
          survivors' = [plugin |-> survivors.plugin + plugins,
                        channel |-> IF channel = "running"
                                    THEN survivors.channel + 1
                                    ELSE survivors.channel]
    BY DEF Crash
  <2>4. plugins \in {0, 1}
    BY DEF PluginsLeft
  <2>5. /\ survivors' \in [plugin : Nat, channel : Nat]
        /\ survivors'.plugin <= survivors.plugin + 1
        /\ survivors'.channel <= survivors.channel + 1
    BY <2>1, <2>3, <2>4
  <2>. QED  BY <2>1, <2>2, <2>5
<1>. USE DEF Inv, TypeOK, Crash, Hold, NewRun, Release, db
<1>1. TypeOK'
  <2>1. run' \in Run
    BY DEF Run
  <2>2. pauser' \in [Pausers -> PauserState]
    BY DEF PauserState
  <2>3. todo' \in Seq(Write)
    OBVIOUS
  <2>4. plugin' \in Plugin
    BY NewPluginIsPlugin
  <2>5. read' \in [Pausers -> 0..handoffs'] /\ plugin'.handed \in 0..handoffs'
    BY BoundsAreNaturals DEF NewPlugin
  <2>. QED  BY <1>0, <2>1, <2>2, <2>3, <2>4, <2>5
<1>2. LoopIsHeld'
  BY PausersAreNoOwners DEF LoopIsHeld, Writing
<1>3. PausersAreAttached'
  BY DEF PausersAreAttached
<1>4. WritesAreInOrder'
  BY PausersAreNoOwners DEF WritesAreInOrder
<1>5. ResultsArePrinted'
  BY DEF ResultsArePrinted
<1>6. PluginsAreBounded'
  BY DEF NewPlugin, PluginsAreBounded
<1>7. NotPausedYet'
  BY DEF NotPausedYet
<1>8. NoPluginOutlivesItsRun' /\ NoChannelOutlivesItsRun'
  <2>1. /\ survivors.plugin <= faults.crash
        /\ survivors.channel <= faults.crash + faults.unconfirmed
        /\ survivors \in [plugin : Nat, channel : Nat]
        /\ faults.crash \in Nat /\ faults.unconfirmed \in Nat
    BY BoundsAreNaturals
    DEF NoPluginOutlivesItsRun, NoChannelOutlivesItsRun
  <2>2. /\ survivors'.plugin <= faults'.crash
        /\ survivors'.channel <= faults'.crash + faults'.unconfirmed
    BY <1>0, <2>1
  <2>. QED  BY <2>2
            DEF NewPlugin, NoPluginOutlivesItsRun, NoChannelOutlivesItsRun
<1>. QED  BY <1>1, <1>2, <1>3, <1>4, <1>5, <1>6, <1>7, <1>8
          DEF AttemptNeedsTask, FinishedTogether

-----------------------------------------------------------------------------
(* One transaction.                                                        *)

LEMMA FirstAndRest ==
  ASSUME NEW a, NEW b, NEW c, NEW d
  PROVE  /\ <<a>> # << >> /\ Head(<<a>>) = a /\ Tail(<<a>>) = << >>
         /\ Head(<<a, b>>) = a /\ Tail(<<a, b>>) = <<b>>
         /\ Head(<<a, b, c>>) = a /\ Tail(<<a, b, c>>) = <<b, c>>
         /\ Head(<<a, b, c, d>>) = a /\ Tail(<<a, b, c, d>>) = <<b, c, d>>
OBVIOUS

LEMMA CommitsTask ==
  ASSUME Commit, NEW to, Head(todo) = W("task", to)
  PROVE  /\ CanMove(status, to) \/ (status = Absent /\ to = "CREATED")
         /\ status' = to /\ attempt' = attempt /\ checkpoint' = checkpoint
         /\ todo' = Tail(todo)
BY DEF Commit, Legal, W

LEMMA CommitsAttempt ==
  ASSUME Commit, NEW to, Head(todo) = W("attempt", to)
  PROVE  /\ CanMove(attempt, to) \/ attempt = Absent
         /\ to # "ASSIGNED" => CanMove(attempt, to)
         /\ attempt' = to /\ status' = status /\ checkpoint' = checkpoint
         /\ todo' = Tail(todo)
BY DEF Commit, Legal, W

LEMMA CommitsCheckpoint ==
  ASSUME Commit, Head(todo) = W("checkpoint", "PAUSED")
  PROVE  /\ checkpoint' = read[turn] /\ status' = status /\ attempt' = attempt
         /\ todo' = Tail(todo)
BY DEF Commit, Legal, W

LEMMA NothingLeavesTheEnd ==
  /\ \A s \in Terminal \cup {Absent} : \A to : ~CanMove(s, to)
  /\ Absent \notin Status
BY DEF Terminal, CanMove, Allowed, Absent, Status

(* What a transaction must keep of the rows. *)
RowsAreSound ==
  /\ status \in StatusOrAbsent /\ attempt \in StatusOrAbsent
  /\ handoffs \in Nat /\ checkpoint \in 0..handoffs
  /\ AttemptNeedsTask /\ FinishedTogether

(* A task that is written takes a status that does not end it, or the one  *)
(* its attempt has.                                                        *)
LEMMA TaskWriteIsSound ==
  ASSUME RowsAreSound, NEW to \in Status, to \notin Terminal \/ attempt = to,
         status' = to, attempt' = attempt, checkpoint' = checkpoint,
         handoffs' = handoffs
  PROVE  RowsAreSound'
BY DEF RowsAreSound, StatusOrAbsent, Status, Absent, AttemptNeedsTask,
       FinishedTogether

(* An attempt that is written belongs to a task, and has not ended.        *)
LEMMA AttemptWriteIsSound ==
  ASSUME RowsAreSound, NEW to \in Status,
         status # Absent, attempt \notin Terminal,
         attempt' = to, status' = status, checkpoint' = checkpoint,
         handoffs' = handoffs
  PROVE  RowsAreSound'
BY DEF RowsAreSound, StatusOrAbsent, AttemptNeedsTask, FinishedTogether

LEMMA AttemptCanMove ==
  ASSUME RowsAreSound, NEW to, CanMove(attempt, to)
  PROVE  status # Absent /\ attempt \notin Terminal
BY NothingLeavesTheEnd DEF RowsAreSound, AttemptNeedsTask

LEMMA StartingCommits ==
  ASSUME Starting, RowsAreSound, Commit
  PROVE  Starting' /\ RowsAreSound'
<1>. USE FirstAndRest
<1>1. todo # << >> /\ handoffs' = handoffs
  BY DEF Commit, world
<1>2. CASE todo = StartWrites /\ status = Absent
  <2>1. /\ Head(todo) = W("task", "CREATED")
        /\ Tail(todo) = <<W("attempt", "ASSIGNED")>>
    BY <1>2 DEF StartWrites
  <2>2. /\ status' = "CREATED" /\ attempt' = attempt
        /\ checkpoint' = checkpoint /\ todo' = <<W("attempt", "ASSIGNED")>>
    BY <2>1, CommitsTask
  <2>. QED  BY <1>1, <2>2, TaskWriteIsSound DEF Starting, Status, Terminal
<1>3. CASE todo = <<W("attempt", "ASSIGNED")>> /\ status = "CREATED"
  <2>1. Head(todo) = W("attempt", "ASSIGNED") /\ Tail(todo) = << >>
    BY <1>3
  <2>2. /\ attempt' = "ASSIGNED" /\ status' = status
        /\ checkpoint' = checkpoint /\ todo' = << >>
        /\ CanMove(attempt, "ASSIGNED") \/ attempt = Absent
    BY <2>1, CommitsAttempt
  <2>3. status # Absent /\ attempt \notin Terminal
    BY <1>3, <2>2, AttemptCanMove DEF Absent, Terminal
  <2>4. RowsAreSound'
    BY <1>1, <2>2, <2>3, AttemptWriteIsSound DEF Status
  <2>. QED  BY <1>3, <2>2, <2>4 DEF Starting
<1>. QED  BY <1>1, <1>2, <1>3 DEF Starting

LEMMA RecoveringCommits ==
  ASSUME Recovering, RowsAreSound, Commit
  PROVE  Recovering' /\ RowsAreSound'
<1>. USE FirstAndRest
<1>1. todo # << >> /\ handoffs' = handoffs
  BY DEF Commit, world
<1>2. CASE todo = RecoverWrites /\ status = "RUNNING"
  <2>1. /\ Head(todo) = W("attempt", "PAUSED")
        /\ Tail(todo) = <<W("task", "PAUSED")>>
    BY <1>2 DEF RecoverWrites
  <2>2. /\ attempt' = "PAUSED" /\ status' = status
        /\ checkpoint' = checkpoint /\ todo' = <<W("task", "PAUSED")>>
    BY <2>1, CommitsAttempt
  <2>3. status # Absent /\ attempt \notin Terminal
    <3>1. CanMove(attempt, "PAUSED")
      BY <2>1, CommitsAttempt
    <3>. QED  BY <3>1, AttemptCanMove
  <2>4. RowsAreSound'
    BY <1>1, <2>2, <2>3, AttemptWriteIsSound DEF Status
  <2>. QED  BY <1>2, <2>2, <2>4 DEF Recovering
<1>3. CASE todo = <<W("task", "PAUSED")>> /\ status = "RUNNING"
           /\ attempt = "PAUSED"
  <2>1. Head(todo) = W("task", "PAUSED") /\ Tail(todo) = << >>
    BY <1>3
  <2>2. /\ status' = "PAUSED" /\ attempt' = attempt
        /\ checkpoint' = checkpoint /\ todo' = << >>
    BY <2>1, CommitsTask
  <2>. QED  BY <1>1, <1>3, <2>2, TaskWriteIsSound
            DEF Recovering, Status, Terminal
<1>. QED  BY <1>1, <1>2, <1>3 DEF Recovering

LEMMA RequeueingCommits ==
  ASSUME Requeueing, RowsAreSound, Commit
  PROVE  todo' = << >> /\ status' = "QUEUED" /\ RowsAreSound'
<1>. USE FirstAndRest
<1>1. todo # << >> /\ handoffs' = handoffs
  BY DEF Commit, world
<1>2. CASE todo = RequeueWrites /\ status = "PAUSED"
  <2>1. Head(todo) = W("task", "QUEUED") /\ Tail(todo) = << >>
    BY <1>2 DEF RequeueWrites
  <2>2. /\ status' = "QUEUED" /\ attempt' = attempt
        /\ checkpoint' = checkpoint /\ todo' = << >>
    BY <2>1, CommitsTask
  <2>. QED  BY <1>1, <2>2, TaskWriteIsSound DEF Status, Terminal
<1>. QED  BY <1>1, <1>2 DEF Requeueing

LEMMA EnteringCommits ==
  ASSUME Entering, RowsAreSound, Commit
  PROVE  /\ Entering' /\ RowsAreSound'
         /\ status' \in {"QUEUED", "ASSIGNED", "RUNNING"}
<1>. USE FirstAndRest
<1>1. todo # << >> /\ handoffs' = handoffs
  BY DEF Commit, world
<1>2. ASSUME NEW to \in {"QUEUED", "ASSIGNED", "RUNNING"},
             Head(todo) = W("task", to)
      PROVE  status' = to /\ todo' = Tail(todo) /\ RowsAreSound'
  BY <1>1, <1>2, CommitsTask, TaskWriteIsSound DEF Status, Terminal
<1>3. CASE todo = <<W("task", "QUEUED"), W("task", "ASSIGNED"),
                    W("task", "RUNNING"), W("attempt", "RUNNING")>>
  BY <1>2, <1>3 DEF Entering
<1>4. CASE todo = <<W("task", "ASSIGNED"), W("task", "RUNNING"),
                    W("attempt", "RUNNING")>>
  BY <1>2, <1>4 DEF Entering
<1>5. CASE todo = <<W("task", "RUNNING"), W("attempt", "RUNNING")>>
  BY <1>2, <1>5 DEF Entering
<1>6. CASE todo = <<W("attempt", "RUNNING")>> /\ status = "RUNNING"
  <2>1. Head(todo) = W("attempt", "RUNNING") /\ Tail(todo) = << >>
    BY <1>6
  <2>2. /\ attempt' = "RUNNING" /\ status' = status
        /\ checkpoint' = checkpoint /\ todo' = << >>
    BY <2>1, CommitsAttempt
  <2>3. status # Absent /\ attempt \notin Terminal
    <3>1. CanMove(attempt, "RUNNING")
      BY <2>1, CommitsAttempt
    <3>. QED  BY <3>1, AttemptCanMove
  <2>4. RowsAreSound'
    BY <1>1, <2>2, <2>3, AttemptWriteIsSound DEF Status
  <2>. QED  BY <1>6, <2>2, <2>4 DEF Entering
<1>. QED  BY <1>1, <1>3, <1>4, <1>5, <1>6 DEF Entering

LEMMA EndingCommits ==
  ASSUME NEW target \in {"COMPLETED", "FAILED"},
         Ending(target), RowsAreSound, Commit
  PROVE  /\ \/ /\ todo' = <<W("task", target)>>
               /\ attempt' = target /\ status' = status
            \/ todo' = << >> /\ status' = target
         /\ RowsAreSound'
<1>. USE FirstAndRest
<1>1. todo # << >> /\ handoffs' = handoffs
  BY DEF Commit, world
<1>2. CASE todo = FinishWrites(target)
  <2>1. /\ Head(todo) = W("attempt", target)
        /\ Tail(todo) = <<W("task", target)>>
    BY <1>2 DEF FinishWrites
  <2>2. /\ attempt' = target /\ status' = status
        /\ checkpoint' = checkpoint /\ todo' = <<W("task", target)>>
        /\ CanMove(attempt, target)
    BY <2>1, CommitsAttempt
  <2>3. status # Absent /\ attempt \notin Terminal
    BY <2>2, AttemptCanMove
  <2>. QED  BY <1>1, <2>2, <2>3, AttemptWriteIsSound DEF Status
<1>3. CASE todo = <<W("task", target)>> /\ attempt = target
  <2>1. Head(todo) = W("task", target) /\ Tail(todo) = << >>
    BY <1>3
  <2>2. /\ status' = target /\ attempt' = attempt
        /\ checkpoint' = checkpoint /\ todo' = << >>
    BY <2>1, CommitsTask
  <2>. QED  BY <1>1, <1>3, <2>2, TaskWriteIsSound DEF Status
<1>. QED  BY <1>1, <1>2, <1>3 DEF Ending

LEMMA PersistingCommits ==
  ASSUME Persisting, RowsAreSound, read[turn] \in 1..handoffs, Commit
  PROVE  Persisting' /\ RowsAreSound'
<1>. USE FirstAndRest
<1>1. todo # << >> /\ handoffs' = handoffs
  BY DEF Commit, world
<1>2. CASE todo = PersistWrites
  <2>1. /\ Head(todo) = W("checkpoint", "PAUSED")
        /\ Tail(todo) = <<W("attempt", "PAUSED"), W("task", "PAUSED")>>
    BY <1>2 DEF PersistWrites
  <2>2. /\ checkpoint' = read[turn] /\ status' = status /\ attempt' = attempt
        /\ todo' = <<W("attempt", "PAUSED"), W("task", "PAUSED")>>
    BY <2>1, CommitsCheckpoint
  <2>3. RowsAreSound'
    BY <1>1, <2>2 DEF RowsAreSound, AttemptNeedsTask, FinishedTogether
  <2>. QED  BY <2>2, <2>3 DEF Persisting
<1>3. CASE todo = <<W("attempt", "PAUSED"), W("task", "PAUSED")>>
           /\ checkpoint # 0
  <2>1. /\ Head(todo) = W("attempt", "PAUSED")
        /\ Tail(todo) = <<W("task", "PAUSED")>>
    BY <1>3
  <2>2. /\ attempt' = "PAUSED" /\ status' = status
        /\ checkpoint' = checkpoint /\ todo' = <<W("task", "PAUSED")>>
    BY <2>1, CommitsAttempt
  <2>3. status # Absent /\ attempt \notin Terminal
    <3>1. CanMove(attempt, "PAUSED")
      BY <2>1, CommitsAttempt
    <3>. QED  BY <3>1, AttemptCanMove
  <2>4. RowsAreSound'
    BY <1>1, <2>2, <2>3, AttemptWriteIsSound DEF Status
  <2>. QED  BY <1>3, <2>2, <2>4 DEF Persisting
<1>4. CASE todo = <<W("task", "PAUSED")>> /\ checkpoint # 0
           /\ attempt = "PAUSED"
  <2>1. Head(todo) = W("task", "PAUSED") /\ Tail(todo) = << >>
    BY <1>4
  <2>2. /\ status' = "PAUSED" /\ attempt' = attempt
        /\ checkpoint' = checkpoint /\ todo' = << >>
    BY <2>1, CommitsTask
  <2>. QED  BY <1>1, <1>4, <2>2, TaskWriteIsSound DEF Persisting, Status
<1>. QED  BY <1>1, <1>2, <1>3, <1>4 DEF Persisting

(* A pauser that writes has read the newest handoff. *)
LEMMA PausersHaveRead ==
  ASSUME Inv, turn \in Pausers
  PROVE  /\ pauser[turn] = "persisting"
         /\ read[turn] = handoffs /\ read[turn] \in 1..handoffs
BY DEF Inv, TypeOK, LoopIsHeld, PausersAreAttached, PluginsAreBounded

LEMMA CommitKeeps ==
  ASSUME Inv, Commit
  PROVE  Inv'
<1>1. /\ UNCHANGED <<run, pauser, read, turn, plugin, channel, survivors,
                     handoffs, faults>>
      /\ todo # << >> /\ todo' = Tail(todo)
  BY DEF Commit, world
<1>2. RowsAreSound /\ turn # "loop"
  BY <1>1 DEF Inv, TypeOK, LoopIsHeld, RowsAreSound
<1>3. ASSUME NEW p \in Pausers, turn = p
      PROVE  /\ Persisting' /\ RowsAreSound'
             /\ run.pc \in Attached /\ run.pc \notin Writing
  <2>1. pauser[p] = "persisting" /\ read[turn] \in 1..handoffs
    BY <1>3, PausersHaveRead
  <2>2. Persisting
    BY <1>3 DEF Inv, WritesAreInOrder
  <2>3. run.pc \in Attached /\ run.pc \notin Writing
    BY <2>1 DEF Inv, PausersAreAttached, Attached, Writing
  <2>. QED  BY <1>2, <2>1, <2>2, <2>3, PersistingCommits
<1>4. WritesAreInOrder' /\ NotPausedYet' /\ RowsAreSound'
  <2>1. CASE turn = "run"
    <3>1. run.pc \in Writing
      BY <2>1 DEF Inv, LoopIsHeld
    <3>2. \A p \in Pausers : turn # p
      BY <2>1, PausersAreNoOwners
    <3>3. CASE run.pc = "starting"
      <4>1. Starting' /\ RowsAreSound'
        BY <1>2, <3>3, StartingCommits DEF Inv, WritesAreInOrder
      <4>. QED  BY <1>1, <3>2, <3>3, <4>1
                DEF WritesAreInOrder, NotPausedYet, Starting, Absent
    <3>4. CASE run.pc = "recovering"
      <4>1. Recovering' /\ RowsAreSound'
        BY <1>2, <3>4, RecoveringCommits DEF Inv, WritesAreInOrder
      <4>. QED  BY <1>1, <3>2, <3>4, <4>1 DEF WritesAreInOrder, NotPausedYet
    <3>5. CASE run.pc = "requeueing"
      <4>1. Requeueing' /\ RowsAreSound'
        BY <1>2, <3>5, RequeueingCommits DEF Inv, WritesAreInOrder, Requeueing
      <4>. QED  BY <1>1, <3>2, <3>5, <4>1 DEF WritesAreInOrder, NotPausedYet
    <3>6. CASE run.pc = "entering"
      <4>1. Entering' /\ RowsAreSound'
        BY <1>2, <3>6, EnteringCommits DEF Inv, WritesAreInOrder
      <4>. QED  BY <1>1, <3>2, <3>6, <4>1 DEF WritesAreInOrder, NotPausedYet
    <3>7. CASE run.pc = "finishing"
      <4>1. run.result \in {"COMPLETED", "FAILED"} /\ Ending(run.result)
        BY <3>7 DEF Inv, WritesAreInOrder, ResultsArePrinted
      <4>2. /\ \/ todo' = <<W("task", run.result)>> /\ attempt' = run.result
               \/ todo' = << >> /\ status' = run.result
            /\ RowsAreSound'
        BY <1>2, <4>1, EndingCommits
      <4>. QED  BY <1>1, <3>2, <3>7, <4>2
                DEF WritesAreInOrder, NotPausedYet, Ending
    <3>8. CASE run.pc = "failing"
      <4>1. status # "PAUSED" /\ Ending("FAILED")
        BY <3>8 DEF Inv, WritesAreInOrder, NotPausedYet
      <4>2. /\ \/ /\ todo' = <<W("task", "FAILED")>> /\ attempt' = "FAILED"
                  /\ status' = status
               \/ todo' = << >> /\ status' = "FAILED"
            /\ RowsAreSound'
        BY <1>2, <4>1, EndingCommits
      <4>. QED  BY <1>1, <3>2, <3>8, <4>1, <4>2
                DEF WritesAreInOrder, NotPausedYet, Ending
    <3>. QED  BY <3>1, <3>3, <3>4, <3>5, <3>6, <3>7, <3>8 DEF Writing
  <2>2. CASE turn \in Pausers
    <3>1. /\ Persisting' /\ RowsAreSound'
          /\ run.pc \in Attached /\ run.pc \notin Writing
      BY <1>3, <2>2
    <3>. QED  BY <1>1, <3>1
              DEF WritesAreInOrder, NotPausedYet, Writing, Attached
  <2>. QED  BY <1>2, <2>1, <2>2 DEF Inv, TypeOK
<1>5. TypeOK'
  <2>1. todo' \in Seq(Write)
    BY <1>1 DEF Inv, TypeOK
  <2>. QED  BY <1>1, <1>4, <2>1 DEF Inv, TypeOK, RowsAreSound
<1>6. /\ LoopIsHeld' /\ PausersAreAttached' /\ ResultsArePrinted'
      /\ PluginsAreBounded' /\ NoPluginOutlivesItsRun' /\ NoChannelOutlivesItsRun'
  BY <1>1, <1>2 DEF Inv, LoopIsHeld, PausersAreAttached, ResultsArePrinted,
     PluginsAreBounded, NoPluginOutlivesItsRun, NoChannelOutlivesItsRun
<1>. QED  BY <1>4, <1>5, <1>6 DEF Inv, RowsAreSound

-----------------------------------------------------------------------------
(* The invariant, and what follows from it.                                *)

LEMMA InitIsSound == Init => Inv
<1>. SUFFICES ASSUME Init PROVE Inv
  OBVIOUS
<1>1. run \in Run /\ plugin \in Plugin
  BY NewPluginIsPlugin DEF Init, NewRun, Run, Awaiting, Writing
<1>2. pauser \in [Pausers -> PauserState] /\ todo \in Seq(Write)
  BY WritesAreTyped DEF Init, PauserState
<1>3. TypeOK
  <2>1. /\ survivors \in [plugin : Nat, channel : Nat]
        /\ faults \in [crash : 0..MaxCrashes, unconfirmed : 0..MaxUnconfirmed]
        /\ plugin.handed = 0 /\ read \in [Pausers -> 0..handoffs]
    BY BoundsAreNaturals DEF Init, NewPlugin
  <2>. QED  BY <1>1, <1>2, <2>1, BoundsAreNaturals
            DEF Init, TypeOK, StatusOrAbsent
<1>4. LoopIsHeld /\ PausersAreAttached /\ WritesAreInOrder
  BY PausersAreNoOwners
  DEF Init, NewRun, LoopIsHeld, PausersAreAttached, WritesAreInOrder, Writing
<1>5. ResultsArePrinted /\ PluginsAreBounded /\ NotPausedYet
  BY DEF Init, NewRun, NewPlugin, ResultsArePrinted, PluginsAreBounded,
     NotPausedYet
<1>6. AttemptNeedsTask /\ NoPluginOutlivesItsRun /\ NoChannelOutlivesItsRun
      /\ FinishedTogether
  BY DEF Init, NewRun, NewPlugin, AttemptNeedsTask, NoPluginOutlivesItsRun,
     NoChannelOutlivesItsRun,
     FinishedTogether
<1>. QED  BY <1>3, <1>4, <1>5, <1>6 DEF Inv

LEMMA StutterKeeps ==
  ASSUME Inv, UNCHANGED vars
  PROVE  Inv'
BY DEF Inv, vars, db, world, TypeOK, LoopIsHeld, PausersAreAttached,
   WritesAreInOrder, Starting, Recovering, Requeueing, Entering, Ending,
   Persisting, ResultsArePrinted, PluginsAreBounded, AttemptNeedsTask,
   NotPausedYet, NoPluginOutlivesItsRun, NoChannelOutlivesItsRun,
   FinishedTogether

LEMMA StepKeeps == Inv /\ [Next]_vars => Inv'
<1>. SUFFICES ASSUME Inv, [Next]_vars PROVE Inv'
  OBVIOUS
<1>1. CASE RunStep
  BY <1>1, RecoveredKeeps, RequeuedKeeps, WrittenKeeps, RunRefusedKeeps,
     HealthAnswersKeeps, SpawnedKeeps, PollFindsExitKeeps, PollFindsStopKeeps,
     PollFindsRequestKeeps, ChannelReturnsKeeps, OutcomeKnownKeeps,
     TimesOutKeeps, ChannelIsEndedKeeps, ChannelIsNotEndedKeeps, ReturnKeeps,
     AbortKeeps, RaiseKeeps DEF RunStep
<1>2. ASSUME NEW p \in Pausers, PauserStep(p)
      PROVE  Inv'
  BY <1>2, FindResponseKeeps, FindExitKeeps, PauseTimesOutKeeps,
     PersistFailsKeeps, PersistedKeeps DEF PauserStep
<1>3. CASE Command
  BY <1>3, ExecuteKeeps, RecoverKeeps, ResumeKeeps, StopKeeps,
     StopKillsKeeps, PauseKeeps
  DEF Command
<1>4. CASE Environment
  BY <1>4, PluginRequestsKeeps, PluginHandsOffKeeps, PluginExitsKeeps,
     PipesCloseKeeps, ChannelEndsKeeps, CrashKeeps DEF Environment
<1>. QED
  BY <1>1, <1>2, <1>3, <1>4, CommitKeeps, StutterKeeps DEF Next

(* The rows change in a Commit and nowhere else. *)
LEMMA OnlyCommitsWrite ==
  ASSUME [Next]_vars
  PROVE  Commit \/ UNCHANGED db
<1>1. CASE RunStep
  BY <1>1 DEF RunStep, Recovered, Requeued, Written, RunRefused, HealthAnswers,
     Spawned, PollFindsExit, PollFindsStop, PollFindsRequest, ChannelReturns,
     OutcomeKnown, TimesOut, ChannelIsEnded,
     ChannelIsNotEnded, Return, Abort, Raise
<1>2. ASSUME NEW p \in Pausers, PauserStep(p)
      PROVE  UNCHANGED db
  BY <1>2 DEF PauserStep, FindResponse, FindExit, PauseTimesOut, PersistFails,
     Persisted
<1>3. CASE Command
  BY <1>3 DEF Command, Execute, Recover, Resume, Stop, StopKills, Pause
<1>4. CASE Environment
  BY <1>4 DEF Environment, PluginRequests, PluginHandsOff,
     PluginExits, PipesClose, ChannelEnds, Crash
<1>. QED  BY <1>1, <1>2, <1>3, <1>4 DEF Next, vars

(* The rows and coroutines of a task agree, in every state and for any     *)
(* number of pause commands: who holds the loop, what it has left to write *)
(* and which statuses its last write left behind.                          *)
THEOREM CoroutinesAndRowsAgree == Spec => []Inv
BY InitIsSound, StepKeeps, PTL DEF Spec

(* Every row, coroutine and process is in a state its code can give it. *)
THEOREM StatesAreTyped == Spec => []TypeOK
<1>1. Inv => TypeOK
  BY DEF Inv
<1>. QED  BY <1>1, CoroutinesAndRowsAgree, PTL

(* A run never reports its end before its plugin has exited, and however   *)
(* often the service dies, it leaves one plugin behind each time at most.  *)
THEOREM PluginsEndWithTheirRun == Spec => []NoPluginOutlivesItsRun
<1>1. Inv => NoPluginOutlivesItsRun
  BY DEF Inv
<1>. QED  BY <1>1, CoroutinesAndRowsAgree, PTL

(* A channel process runs only while its run awaits it or its end, and is  *)
(* left behind by nothing but a crash or an end that was not confirmed.    *)
THEOREM ChannelsEndWithTheirRun == Spec => []NoChannelOutlivesItsRun
<1>1. Inv => NoChannelOutlivesItsRun
  BY DEF Inv
<1>. QED  BY <1>1, CoroutinesAndRowsAgree, PTL

(* A final task has an attempt with the same final status, although _finish *)
(* writes the two in two transactions and the service may die in between.   *)
THEOREM TaskAndAttemptEndTogether == Spec => []FinishedTogether
<1>1. Inv => FinishedTogether
  BY DEF Inv
<1>. QED  BY <1>1, CoroutinesAndRowsAgree, PTL

(* What a transaction does to the task status, stretch by stretch. *)
LEMMA CommitsComplete ==
  ASSUME Inv, Commit, status # "COMPLETED", status' = "COMPLETED"
  PROVE  run.pc = "finishing" /\ run.result = "COMPLETED"
<1>1. RowsAreSound /\ todo # << >> /\ turn # "loop"
  BY DEF Inv, TypeOK, RowsAreSound, Commit, LoopIsHeld
<1>2. turn \notin Pausers
  <2>. SUFFICES ASSUME turn \in Pausers PROVE FALSE
    OBVIOUS
  <2>. USE FirstAndRest
  <2>1. Persisting
    BY DEF Inv, WritesAreInOrder
  <2>2. \/ Head(todo) = W("checkpoint", "PAUSED")
        \/ Head(todo) = W("attempt", "PAUSED")
        \/ Head(todo) = W("task", "PAUSED")
    BY <1>1, <2>1 DEF Persisting, PersistWrites
  <2>. QED  BY <2>2, CommitsTask, CommitsAttempt, CommitsCheckpoint
<1>3. run.pc \in Writing
  BY <1>1, <1>2 DEF Inv, TypeOK, LoopIsHeld
<1>4. run.pc # "starting"
  BY <1>1, StartingCommits DEF Inv, WritesAreInOrder, Starting, Absent
<1>5. run.pc # "recovering"
  BY <1>1, RecoveringCommits DEF Inv, WritesAreInOrder, Recovering
<1>6. run.pc # "requeueing"
  BY <1>1, RequeueingCommits DEF Inv, WritesAreInOrder
<1>7. run.pc # "entering"
  BY <1>1, EnteringCommits DEF Inv, WritesAreInOrder
<1>8. run.pc # "failing"
  BY <1>1, EndingCommits DEF Inv, WritesAreInOrder
<1>9. run.pc = "finishing"
  BY <1>3, <1>4, <1>5, <1>6, <1>7, <1>8 DEF Writing
<1>10. run.result \in {"COMPLETED", "FAILED"} /\ Ending(run.result)
  BY <1>9 DEF Inv, WritesAreInOrder, ResultsArePrinted
<1>11. status' = status \/ status' = run.result
  BY <1>1, <1>10, EndingCommits
<1>. QED  BY <1>9, <1>11

(* A task only becomes COMPLETED by a run that was not stopped, whose      *)
(* channel succeeded and whose plugin has exited with that very result.    *)
THEOREM CompletionsAreEarned == Spec => CompletionIsEarned
<1>1. Inv /\ [Next]_vars =>
        (status # "COMPLETED" /\ status' = "COMPLETED" =>
           /\ ~run.cancelled
           /\ run.answer = "succeeded"
           /\ plugin.state = "closed" /\ plugin.output = "COMPLETED")
  <2>. SUFFICES ASSUME Inv, [Next]_vars,
                       status # "COMPLETED", status' = "COMPLETED"
                PROVE  /\ ~run.cancelled
                       /\ run.answer = "succeeded"
                       /\ plugin.state = "closed" /\ plugin.output = "COMPLETED"
    OBVIOUS
  <2>1. Commit
    BY OnlyCommitsWrite DEF db
  <2>. QED  BY <2>1, CommitsComplete DEF Inv, ResultsArePrinted
<1>. QED  BY <1>1, CoroutinesAndRowsAgree, PTL DEF Spec, CompletionIsEarned

-----------------------------------------------------------------------------
(* What is promised of a PAUSED task, on the condition that no plugin      *)
(* prints FAILED once it has written its handoff: the one output with      *)
(* which the code itself overwrites a pause.                               *)
(*                                                                         *)
(* A PAUSED task may still have a run, which has handed off and may carry  *)
(* the result COMPLETED; but its attempt is PAUSED, and the policy refuses *)
(* to complete it (PausedByHandoff).  That the checkpoint is the newest    *)
(* handoff needs, beside this, that an execution without a crash never     *)
(* ends with its task RUNNING (StatusesFitTheRun).                         *)

(* Where the run of a paused task may be. *)
PausedByHandoff ==
  status = "PAUSED" =>
    /\ run.pc \in Attached \cup {"finishing"} => plugin.handed # 0
    /\ run.pc = "finishing" =>
         run.result = "COMPLETED" /\ todo = FinishWrites("COMPLETED")

PausedInv == PausedByHandoff /\ PausedIsResumable

(* What a transaction does while the task is PAUSED. *)
LEMMA CommitsOfPaused ==
  ASSUME Inv, PausedInv, Commit, status = "PAUSED"
  PROVE  \/ run.pc = "requeueing" /\ status' = "QUEUED" /\ todo' = << >>
         \/ /\ turn \in Pausers
            /\ checkpoint' # 0 /\ status' = status /\ attempt' = attempt
<1>. USE FirstAndRest
<1>1. RowsAreSound /\ todo # << >> /\ turn # "loop"
  BY DEF Inv, TypeOK, RowsAreSound, Commit, LoopIsHeld
<1>2. /\ ~CanMove("PAUSED", "PAUSED") /\ ~CanMove("PAUSED", "COMPLETED")
      /\ attempt = "PAUSED"
  BY DEF CanMove, Allowed, PausedInv, PausedIsResumable
<1>3. CASE turn \in Pausers
  <2>1. Persisting /\ read[turn] \in 1..handoffs
    BY <1>3, PausersHaveRead DEF Inv, WritesAreInOrder
  <2>2. \/ Head(todo) = W("checkpoint", "PAUSED")
        \/ Head(todo) = W("attempt", "PAUSED")
        \/ Head(todo) = W("task", "PAUSED")
    BY <1>1, <2>1 DEF Persisting, PersistWrites
  <2>3. Head(todo) # W("attempt", "PAUSED")
    BY <1>2, CommitsAttempt
  <2>4. Head(todo) # W("task", "PAUSED")
    BY <1>2, CommitsTask
  <2>. QED  BY <1>3, <2>1, <2>2, <2>3, <2>4, CommitsCheckpoint
<1>4. CASE turn = "run"
  <2>1. run.pc \in Writing
    BY <1>4 DEF Inv, LoopIsHeld
  <2>2. /\ run.pc # "starting" /\ run.pc # "failing"
        /\ run.pc # "recovering" /\ run.pc # "entering"
    BY <1>1 DEF Inv, NotPausedYet, WritesAreInOrder, Recovering, Entering
  <2>3. run.pc # "finishing"
    <3>. SUFFICES ASSUME run.pc = "finishing" PROVE FALSE
      OBVIOUS
    <3>1. Head(todo) = W("attempt", "COMPLETED")
      BY DEF PausedInv, PausedByHandoff, FinishWrites
    <3>. QED  BY <1>2, <3>1, CommitsAttempt
  <2>4. run.pc = "requeueing"
    BY <2>1, <2>2, <2>3 DEF Writing
  <2>. QED  BY <1>1, <2>4, RequeueingCommits DEF Inv, WritesAreInOrder
<1>. QED  BY <1>1, <1>3, <1>4 DEF Inv, TypeOK

(* What a transaction has done when it makes a task PAUSED. *)
LEMMA CommitsToPaused ==
  ASSUME Inv, Commit, status # "PAUSED", status' = "PAUSED"
  PROVE  /\ attempt' = "PAUSED" /\ checkpoint' # 0
         /\ \/ run.pc = "recovering"
            \/ run.pc \in Attached /\ plugin.handed # 0
<1>. USE FirstAndRest
<1>1. RowsAreSound /\ todo # << >> /\ turn # "loop"
  BY DEF Inv, TypeOK, RowsAreSound, Commit, LoopIsHeld
<1>2. CASE turn \in Pausers
  <2>1. Persisting /\ run.pc \in Attached /\ plugin.handed # 0
    BY <1>2 DEF Inv, WritesAreInOrder, LoopIsHeld, PausersAreAttached
  <2>2. CASE todo = PersistWrites
    <3>1. Head(todo) = W("checkpoint", "PAUSED")
      BY <2>2 DEF PersistWrites
    <3>. QED  BY <3>1, CommitsCheckpoint
  <2>3. CASE todo = <<W("attempt", "PAUSED"), W("task", "PAUSED")>>
    <3>1. Head(todo) = W("attempt", "PAUSED")
      BY <2>3
    <3>. QED  BY <3>1, CommitsAttempt
  <2>4. CASE /\ todo = <<W("task", "PAUSED")>>
             /\ checkpoint # 0 /\ attempt = "PAUSED"
    <3>1. Head(todo) = W("task", "PAUSED")
      BY <2>4
    <3>. QED  BY <2>1, <2>4, <3>1, CommitsTask
  <2>. QED  BY <1>1, <2>1, <2>2, <2>3, <2>4 DEF Persisting
<1>3. CASE turn = "run"
  <2>1. run.pc \in Writing
    BY <1>3 DEF Inv, LoopIsHeld
  <2>2. run.pc # "starting" /\ run.pc # "failing"
    BY CommitKeeps DEF Inv, NotPausedYet, Commit
  <2>3. run.pc # "requeueing"
    BY <1>1, RequeueingCommits DEF Inv, WritesAreInOrder
  <2>4. run.pc # "entering"
    BY <1>1, EnteringCommits DEF Inv, WritesAreInOrder
  <2>5. run.pc # "finishing"
    BY <1>1, EndingCommits DEF Inv, WritesAreInOrder, ResultsArePrinted
  <2>6. run.pc = "recovering"
    BY <2>1, <2>2, <2>3, <2>4, <2>5 DEF Writing
  <2>7. Recovering'
    BY <1>1, <2>6, RecoveringCommits DEF Inv, WritesAreInOrder
  <2>. QED  BY <2>6, <2>7 DEF Recovering
<1>. QED  BY <1>1, <1>2, <1>3 DEF Inv, TypeOK

LEMMA CommitKeepsPaused ==
  ASSUME Inv, PausedInv, Commit
  PROVE  PausedInv'
<1>1. UNCHANGED <<run, plugin>>
  BY DEF Commit, world
<1>2. CASE status' # "PAUSED"
  BY <1>2 DEF PausedInv, PausedByHandoff, PausedIsResumable
<1>3. CASE status' = "PAUSED" /\ status = "PAUSED"
  <2>1. turn \in Pausers /\ checkpoint' # 0 /\ attempt' = attempt
    BY <1>3, CommitsOfPaused
  <2>2. run.pc \in Attached
    BY <2>1 DEF Inv, LoopIsHeld, PausersAreAttached
  <2>. QED  BY <1>1, <1>3, <2>1, <2>2
            DEF PausedInv, PausedByHandoff, PausedIsResumable, Attached
<1>4. CASE status' = "PAUSED" /\ status # "PAUSED"
  BY <1>1, <1>4, CommitsToPaused
  DEF PausedInv, PausedByHandoff, PausedIsResumable, Attached
<1>. QED  BY <1>2, <1>3, <1>4

(* The steps of execute() while its task is PAUSED. *)
LEMMA RunKeepsHandoff ==
  ASSUME "FAILED" \notin LateOutputs, Inv, PausedInv, status = "PAUSED",
         status' = status, RunStep
  PROVE  PausedByHandoff'
<1>. USE DEF PausedByHandoff, Attached, GoTo
<1>1. run \in Run
  BY DEF Inv, TypeOK
<1>2. CASE Recovered \/ Requeued \/ Written
  BY <1>1, <1>2 DEF Inv, NotPausedYet, Recovered, Requeued, Written,
     AfterWrites, Run, WritesAreInOrder, Entering, Done
<1>3. CASE RunRefused
  BY <1>1, <1>3 DEF RunRefused, HandleError, Run
<1>4. CASE HealthAnswers \/ Spawned
  BY <1>4 DEF Inv, NotPausedYet, HealthAnswers, Spawned, Woken
<1>5. CASE PollFindsExit \/ PollFindsStop \/ PollFindsRequest
  BY <1>1, <1>5 DEF PausedInv, PollFindsExit, PollFindsStop, PollFindsRequest,
     Accepts, Woken, Run, world
<1>6. CASE TimesOut \/ ChannelIsNotEnded
  <2>1. /\ UNCHANGED plugin /\ run.pc \in Attached
        /\ run'.pc \in {"poll", "ending", "aborting"}
    BY <1>1, <1>6, TimeoutGoesTo, LostChannelGoesTo
    DEF TimesOut, ChannelIsNotEnded, world
  <2>. QED  BY <2>1 DEF PausedInv
<1>9. CASE Abort
  <2>1. /\ plugin'.handed = plugin.handed /\ run.pc = "aborting"
        /\ run'.pc = "gathering"
    BY <1>1, <1>9, KillLeaves DEF Inv, TypeOK, Abort, Woken, Run
  <2>. QED  BY <2>1 DEF PausedInv
<1>10. CASE ChannelReturns \/ OutcomeKnown \/ ChannelIsEnded
  <2>1. /\ UNCHANGED plugin /\ run.pc \in Attached
        /\ run'.pc \in {"poll", "returning", "aborting"}
    BY <1>1, <1>10 DEF ChannelReturns, TakeAnswer, OutcomeKnown,
       ChannelIsEnded, Woken, Run, world
  <2>. QED  BY <2>1 DEF PausedInv
<1>7. CASE Return
  <2>1. run.pc = "returning" /\ plugin.handed # 0 /\ UNCHANGED plugin
    BY <1>7 DEF PausedInv, Return, world
  <2>2. plugin.state = "closed" /\ plugin.output # "FAILED"
    BY <2>1, LateOutputsAreOutputs DEF Inv, PluginsAreBounded
  <2>3. run.result \in {"COMPLETED", "PAUSED"}
    BY <1>1, <2>1, <2>2 DEF Inv, ResultsArePrinted, Run
  <2>4. \/ run'.pc = "none"
        \/ run' = [run EXCEPT !.pc = "finishing"]
           /\ run.result # "PAUSED" /\ todo' = FinishWrites(run.result)
    BY <1>1, <1>7 DEF Return, HandleError, Hold, Run
  <2>. QED  BY <1>1, <2>1, <2>3, <2>4 DEF Run
<1>8. CASE Raise
  <2>1. run' = [run EXCEPT !.pc = "none"]
    BY <1>8 DEF Raise, HandleError
  <2>. QED  BY <1>1, <2>1 DEF Run
<1>. QED
  BY <1>2, <1>3, <1>4, <1>5, <1>6, <1>7, <1>8, <1>9, <1>10 DEF RunStep

LEMMA OthersKeepHandoff ==
  ASSUME Inv, PausedInv, status = "PAUSED", status' = status,
         \/ Command \/ Environment \/ UNCHANGED vars
         \/ \E p \in Pausers : PauserStep(p)
  PROVE  PausedByHandoff'
<1>. USE DEF PausedByHandoff, Attached
<1>1. run \in Run /\ plugin \in Plugin
  BY DEF Inv, TypeOK
<1>2. CASE StopKills
  BY <1>1, <1>2, KillLeaves DEF PausedInv, StopKills
<1>3. CASE Command /\ ~StopKills
  BY <1>1, <1>3 DEF PausedInv, Command, Execute, Recover, Resume, Stop, Pause,
     Run, NewRun, Absent, world
<1>4. CASE Environment
  <2>1. UNCHANGED <<run, todo>> \/ Crash
    BY <1>4 DEF Environment, PluginRequests, PluginHandsOff,
     PluginExits, PipesClose, ChannelEnds
  <2>2. plugin'.handed # 0 \/ plugin.handed = 0 \/ Crash
    BY <1>1, <1>4 DEF Environment, PluginRequests, PluginHandsOff,
     PluginExits, PipesClose, ChannelEnds, Plugin
  <2>. QED  BY <2>1, <2>2 DEF PausedInv, Crash, NewRun
<1>5. ASSUME NEW p \in Pausers, PauserStep(p)
      PROVE  PausedByHandoff'
  <2>1. UNCHANGED plugin /\ run'.pc = run.pc /\ run'.result = run.result
    BY <1>1, <1>5 DEF PauserStep, FindResponse, FindExit, PauseTimesOut,
       PersistFails, Persisted, CompletePause, Leave, Run, world
  <2>2. run.pc = "finishing" => turn = "run"
    BY DEF Inv, LoopIsHeld, Writing
  <2>3. turn # "run"
    BY <1>5, PausersAreNoOwners DEF PauserStep, FindResponse, FindExit,
       PauseTimesOut, PersistFails, Persisted, Leave, Done
  <2>. QED  BY <2>1, <2>2, <2>3 DEF PausedInv
<1>6. CASE UNCHANGED vars
  BY <1>6 DEF PausedInv, vars, world
<1>. QED  BY <1>2, <1>3, <1>4, <1>5, <1>6

LEMMA PausedStep ==
  ASSUME "FAILED" \notin LateOutputs
  PROVE  Inv /\ PausedInv /\ [Next]_vars => PausedInv'
<1>. SUFFICES ASSUME Inv, PausedInv, [Next]_vars PROVE PausedInv'
  OBVIOUS
<1>1. CASE Commit
  BY <1>1, CommitKeepsPaused
<1>2. CASE UNCHANGED db /\ ~Commit
  <2>1. PausedIsResumable'
    BY <1>2 DEF PausedInv, PausedIsResumable, db
  <2>2. CASE status = "PAUSED"
    BY <1>2, <2>1, <2>2, RunKeepsHandoff, OthersKeepHandoff
    DEF Next, PausedInv, db
  <2>3. CASE status # "PAUSED"
    BY <1>2, <2>1, <2>3 DEF PausedInv, PausedByHandoff, db
  <2>. QED  BY <2>2, <2>3
<1>. QED  BY <1>1, <1>2, OnlyCommitsWrite

LEMMA PausedInvHolds ==
  ASSUME "FAILED" \notin LateOutputs
  PROVE  Spec => []PausedInv
<1>1. Init => PausedInv
  BY DEF Init, NewRun, PausedInv, PausedByHandoff, PausedIsResumable, Absent
<1>. QED  BY <1>1, PausedStep, CoroutinesAndRowsAgree, PTL DEF Spec

(* If no plugin reports FAILED once it has written its handoff, a PAUSED   *)
(* task has all that /resume needs.                                        *)
THEOREM PausedTasksAreResumable ==
  ASSUME "FAILED" \notin LateOutputs
  PROVE  Spec => []PausedIsResumable
<1>1. PausedInv => PausedIsResumable
  BY DEF PausedInv
<1>. QED  BY <1>1, PausedInvHolds, PTL

(* On the same condition, only /resume leaves PAUSED: no late result,      *)
(* stop, timeout or second pause overwrites it.                            *)
THEOREM PausesAreNotOverwritten ==
  ASSUME "FAILED" \notin LateOutputs
  PROVE  Spec => PauseIsNotOverwritten
<1>1. Inv /\ PausedInv /\ [Next]_vars =>
        (status = "PAUSED" /\ <<status, attempt>>' # <<status, attempt>> =>
           status' = "QUEUED" /\ run.pc = "requeueing")
  BY OnlyCommitsWrite, CommitsOfPaused DEF db
<1>. QED
  BY <1>1, PausedInvHolds, CoroutinesAndRowsAgree, PTL
  DEF Spec, PauseIsNotOverwritten

-----------------------------------------------------------------------------
(* The newest handoff.                                                     *)

Live(s) == s \notin Terminal \cup {Absent}

(* The plugin of a pause that is persisted, or was, writes no more handoff. *)
HandoffsAreOver ==
  /\ \A p \in Pausers : pauser[p] = "persisting" => plugin.state # "running"
  /\ status = "PAUSED" => plugin.state # "running"

(* A run that is told of its pause has a task that is PAUSED. *)
PauseIsTold ==
  /\ run.pc \in {"starting", "recovering", "requeueing", "health", "entering",
                 "spawn"} => run.outcome = "pending"
  /\ run.pc \in Attached /\ run.outcome = "persisted" => status = "PAUSED"
  /\ run.pc = "returning" /\ run.result = "PAUSED" => status = "PAUSED"

(* Without a crash the statuses fit the place where execute() stands. *)
StatusesFitTheRun ==
  /\ run.pc = "none" => status # "RUNNING"
  /\ run.pc = "starting" => (attempt = Absent <=> todo # << >>)
  /\ run.pc # "starting" /\ status # Absent => attempt # Absent
  /\ run.pc # "recovering"
  /\ run.pc = "health" => status \in {"CREATED", "QUEUED"}
  /\ run.pc = "entering" => Live(status) /\ status # "PAUSED"
  /\ run.pc \in Attached \cup {"spawn"} => status \in {"RUNNING", "PAUSED"}
  /\ run.pc = "finishing" =>
       status \in {"RUNNING", "PAUSED"} \/ todo = << >>
  /\ run.pc = "failing" => Live(status) \/ todo = << >>
  /\ attempt \in Terminal =>
       \/ status = attempt
       \/ run.pc \in {"finishing", "failing"} /\ todo = <<W("task", attempt)>>

CheckpointIsNewest ==
  /\ status = "PAUSED" => checkpoint = handoffs
  /\ \A p \in Pausers :
       turn = p => todo = PersistWrites \/ checkpoint = handoffs

NewestInv ==
  /\ HandoffsAreOver /\ PauseIsTold
  /\ faults.crash = 0 => StatusesFitTheRun /\ CheckpointIsNewest

LEMMA PausersHoldAttached ==
  ASSUME Inv, turn \in Pausers
  PROVE  /\ run.pc \in Attached /\ run.pc \notin Writing
         /\ pauser[turn] = "persisting"
BY DEF Inv, LoopIsHeld, PausersAreAttached, Attached, Writing

LEMMA HandoffsStayOver ==
  ASSUME Inv, HandoffsAreOver, [Next]_vars
  PROVE  HandoffsAreOver'
<1>. USE DEF HandoffsAreOver
<1>1. /\ pauser \in [Pausers -> PauserState] /\ plugin \in Plugin
      /\ \A p \in Pausers : turn = p <=> pauser[p] = "persisting"
      /\ turn = "loop" => \A p \in Pausers : pauser[p] # "persisting"
  BY PausersAreNoOwners DEF Inv, TypeOK, LoopIsHeld
<1>2. CASE Commit
  <2>1. UNCHANGED <<pauser, plugin>>
    BY <1>2 DEF Commit, world
  <2>2. CASE status # "PAUSED" /\ status' = "PAUSED"
    <3>1. CASE turn \in Pausers
      BY <2>1, <3>1, PausersHoldAttached
    <3>2. CASE turn \notin Pausers
      <4>1. run.pc \in Writing
        BY <1>2, <3>2 DEF Inv, TypeOK, LoopIsHeld, Commit
      <4>2. plugin.state # "running"
        BY <4>1 DEF Inv, NoPluginOutlivesItsRun, NoChannelOutlivesItsRun,
           Writing, Attached
      <4>. QED  BY <2>1, <4>2
    <3>. QED  BY <3>1, <3>2
  <2>. QED  BY <2>1, <2>2
<1>3. CASE Spawned
  <2>1. status # "PAUSED" /\ turn = "loop" /\ UNCHANGED <<status, pauser>>
    BY <1>3 DEF Inv, NotPausedYet, Spawned, Woken, db
  <2>. QED  BY <1>1, <2>1
<1>4. CASE RunStep /\ ~Spawned
  <2>1. UNCHANGED status
    BY <1>4 DEF RunStep, Recovered, Requeued, Written, RunRefused,
       HealthAnswers, PollFindsExit, PollFindsStop, PollFindsRequest,
       ChannelReturns, OutcomeKnown, TimesOut, ChannelIsEnded,
       ChannelIsNotEnded, Return, Abort, Raise, db
  <2>2. plugin'.state # "running" \/ UNCHANGED plugin
    <3>1. CASE Abort
      BY <1>1, <3>1, KillLeaves DEF Abort
    <3>2. CASE ~Abort
      BY <1>4, <3>2 DEF RunStep, Recovered, Requeued, Written, RunRefused,
         HealthAnswers, PollFindsExit, PollFindsStop, PollFindsRequest,
         ChannelReturns, OutcomeKnown, TimesOut, ChannelIsEnded,
         ChannelIsNotEnded, Return, Raise, world
    <3>. QED  BY <3>1, <3>2
  <2>3. \/ UNCHANGED pauser
        \/ \A p \in Pausers : pauser'[p] \in {pauser[p], "abandoned"}
    <3>1. CASE Return \/ Raise
      <4>1. pauser' = [p \in Pausers |->
              IF pauser[p] = "response" THEN "abandoned" ELSE pauser[p]]
        BY <3>1 DEF Return, Raise, LeaveTransport
      <4>. QED  BY <4>1
    <3>2. CASE ~(Return \/ Raise)
      BY <1>4, <3>2 DEF RunStep, Recovered, Requeued, Written, RunRefused,
         HealthAnswers, PollFindsExit, PollFindsStop, PollFindsRequest,
         ChannelReturns, OutcomeKnown, TimesOut, ChannelIsEnded,
         ChannelIsNotEnded, Abort
    <3>. QED  BY <3>1, <3>2
  <2>. QED  BY <2>1, <2>2, <2>3
<1>5. CASE Command
  <2>1. UNCHANGED status
    BY <1>5 DEF Command, Execute, Recover, Resume, Stop, StopKills, Pause, db
  <2>2. plugin'.state # "running" \/ UNCHANGED plugin
    <3>1. CASE StopKills
      BY <1>1, <3>1, KillLeaves DEF StopKills
    <3>2. CASE ~StopKills
      BY <1>5, <3>2 DEF Command, Execute, Recover, Resume, Stop, Pause, world
    <3>. QED  BY <3>1, <3>2
  <2>3. \A p \in Pausers : pauser'[p] \in {pauser[p], "response"}
    BY <1>1, <1>5 DEF Command, Execute, Recover, Resume, Stop, StopKills, Pause
  <2>. QED  BY <2>1, <2>2, <2>3
<1>6. ASSUME NEW p \in Pausers, PauserStep(p)
      PROVE  HandoffsAreOver'
  <2>1. UNCHANGED <<status, plugin>>
    BY <1>6 DEF PauserStep, FindResponse, FindExit, PauseTimesOut,
       PersistFails, Persisted, db, world
  <2>2. /\ pauser'[p] = "persisting" => plugin.state # "running"
        /\ \A q \in Pausers : q # p => pauser'[q] = pauser[q]
    BY <1>1, <1>6 DEF PauserStep, FindResponse, FindExit, PauseTimesOut,
       PersistFails, Persisted, Leave
  <2>. QED  BY <2>1, <2>2
<1>7. CASE Environment /\ ~Crash
  <2>1. UNCHANGED <<status, pauser>>
    BY <1>7 DEF Environment, PluginRequests, PluginHandsOff,
     PluginExits, PipesClose, ChannelEnds, db
  <2>2. plugin'.state # "running" \/ plugin'.state = plugin.state
    BY <1>1, <1>7 DEF Environment, PluginRequests, PluginHandsOff,
       PluginExits, PipesClose, ChannelEnds, Plugin
  <2>. QED  BY <2>1, <2>2
<1>8. CASE Crash
  BY <1>8 DEF Crash, NewPlugin
<1>9. CASE UNCHANGED vars
  BY <1>9 DEF vars, db, world
<1>. QED  BY <1>2, <1>3, <1>4, <1>5, <1>6, <1>7, <1>8, <1>9 DEF Next

LEMMA PauseStaysTold ==
  ASSUME Inv, PausedInv, PauseIsTold, [Next]_vars
  PROVE  PauseIsTold'
<1>. USE DEF PauseIsTold, Attached
<1>1. run \in Run
  BY DEF Inv, TypeOK
<1>2. CASE Commit
  <2>1. UNCHANGED run
    BY <1>2 DEF Commit
  <2>2. CASE status = "PAUSED"
    BY <1>2, <2>1, <2>2, CommitsOfPaused
  <2>. QED  BY <2>1, <2>2
<1>3. CASE RunStep
  <2>1. UNCHANGED status
    BY <1>3 DEF RunStep, Recovered, Requeued, Written, RunRefused,
       HealthAnswers, Spawned, PollFindsExit, PollFindsStop, PollFindsRequest,
       ChannelReturns, OutcomeKnown, TimesOut, ChannelIsEnded,
     ChannelIsNotEnded, Return, Abort, Raise, db
  <2>2. CASE Recovered \/ Requeued \/ Written \/ RunRefused
    BY <1>1, <2>1, <2>2 DEF Recovered, Requeued, Written, RunRefused,
       AfterWrites, HandleError, GoTo, Run
  <2>3. CASE HealthAnswers \/ Spawned
    BY <1>1, <2>1, <2>3 DEF HealthAnswers, Spawned, Woken, HandleError, GoTo,
       Run
  <2>4. CASE PollFindsExit
    <3>1. /\ run.pc = "poll" /\ run'.outcome = run.outcome
          /\ run'.pc \in {"outcome", "returning", "aborting"}
      BY <1>1, <2>4 DEF PollFindsExit, Woken, Run
    <3>2. run'.pc = "returning" => run'.result \in {"COMPLETED", "FAILED"}
      BY <1>1, <2>4 DEF PollFindsExit, Accepts, Run
    <3>. QED  BY <2>1, <3>1, <3>2
  <2>5. CASE PollFindsStop \/ PollFindsRequest \/ ChannelReturns
             \/ ChannelIsEnded \/ Abort
    BY <1>1, <2>1, <2>5 DEF PollFindsStop, PollFindsRequest, ChannelReturns,
       TakeAnswer, ChannelIsEnded, Abort, Woken, GoTo, Run
  <2>6. CASE OutcomeKnown
    BY <1>1, <2>1, <2>6 DEF OutcomeKnown, Woken, Run
  <2>7. CASE TimesOut \/ ChannelIsNotEnded
    BY <1>1, <2>1, <2>7, TimeoutGoesTo, LostChannelGoesTo
  <2>8. CASE Return \/ Raise
    <3>1. run' \in {[run EXCEPT !.pc = pc] : pc \in {"none", "failing", "finishing"}}
      BY <2>8 DEF Return, Raise, HandleError, GoTo
    <3>. QED  BY <1>1, <3>1 DEF Run
  <2>. QED
    BY <1>3, <2>2, <2>3, <2>4, <2>5, <2>6, <2>7, <2>8 DEF RunStep
<1>4. CASE Command
  BY <1>1, <1>4 DEF Command, Execute, Recover, Resume, Stop, StopKills,
     Pause, NewRun,
     Run, db
<1>5. ASSUME NEW p \in Pausers, PauserStep(p)
      PROVE  PauseIsTold'
  <2>1. /\ UNCHANGED status /\ run'.pc = run.pc /\ run'.result = run.result
        /\ \/ run'.outcome = run.outcome
           \/ run'.outcome = "lost"
           \/ run'.outcome = "persisted" /\ Done(p)
    BY <1>1, <1>5 DEF PauserStep, FindResponse, FindExit, PauseTimesOut,
       PersistFails, Persisted, CompletePause, Leave, Run, db
  <2>2. pauser[p] \in {"response", "exit", "persisting"} \/ UNCHANGED run
    BY <1>5 DEF Inv, LoopIsHeld, PauserStep, FindResponse, FindExit,
       PauseTimesOut, PersistFails, Persisted, Leave, Done
  <2>3. run.pc \in Attached \/ UNCHANGED run
    BY <2>2 DEF Inv, PausersAreAttached
  <2>4. Done(p) => status = "PAUSED"
    BY FirstAndRest DEF Inv, WritesAreInOrder, Persisting, PersistWrites, Done
  <2>. QED  BY <2>1, <2>3, <2>4
<1>6. CASE Environment
  BY <1>6 DEF Environment, PluginRequests, PluginHandsOff,
     PluginExits, PipesClose, ChannelEnds, Crash, NewRun, db
<1>7. CASE UNCHANGED vars
  BY <1>7 DEF vars, db
<1>. QED  BY <1>2, <1>3, <1>4, <1>5, <1>6, <1>7 DEF Next

(* Where it matters, the next write of a stretch is accepted. *)
LEMMA MovesOfTheService ==
  /\ \A s : Live(s) /\ s \in Status => CanMove(s, "FAILED")
  /\ CanMove("RUNNING", "COMPLETED") /\ CanMove("RUNNING", "FAILED")
  /\ CanMove("PAUSED", "QUEUED")
BY DEF Live, Terminal, Absent, Status, CanMove, Allowed

LEMMA TaskWriteIsRefused ==
  ASSUME Refused, NEW to, Head(todo) = W("task", to)
  PROVE  ~CanMove(status, to) /\ ~(status = Absent /\ to = "CREATED")
BY DEF Refused, Legal, W

LEMMA AttemptWriteIsRefused ==
  ASSUME Refused, NEW to, Head(todo) = W("attempt", to)
  PROVE  ~CanMove(attempt, to) /\ ~(attempt = Absent /\ to = "ASSIGNED")
BY DEF Refused, Legal, W

(* Only the writes of entering and finishing can be refused. *)
LEMMA RunsRefused ==
  ASSUME Inv, PausedInv, StatusesFitTheRun, RunRefused
  PROVE  \/ run.pc = "entering"
         \/ /\ run.pc = "finishing" /\ attempt \notin Terminal
            /\ status \in {"RUNNING", "PAUSED"}
<1>. USE FirstAndRest, MovesOfTheService DEF StatusesFitTheRun
<1>1. /\ run.pc \in Writing /\ todo # << >> /\ Refused
      /\ status \in StatusOrAbsent /\ attempt \in StatusOrAbsent
  BY DEF Inv, TypeOK, LoopIsHeld, RunRefused, Refused
<1>2. run.pc # "starting"
  <2>1. Starting \/ run.pc # "starting"
    BY DEF Inv, WritesAreInOrder
  <2>2. CASE todo = StartWrites /\ status = Absent
    <3>1. Head(todo) = W("task", "CREATED")
      BY <2>2 DEF StartWrites
    <3>. QED  BY <1>1, <2>2, <3>1, TaskWriteIsRefused
  <2>3. CASE todo = <<W("attempt", "ASSIGNED")>>
    <3>1. Head(todo) = W("attempt", "ASSIGNED")
      BY <2>3
    <3>. QED  BY <1>1, <3>1, AttemptWriteIsRefused
  <2>. QED  BY <1>1, <2>1, <2>2, <2>3 DEF Starting
<1>3. run.pc # "requeueing"
  <2>. SUFFICES ASSUME run.pc = "requeueing" PROVE FALSE
    OBVIOUS
  <2>1. status = "PAUSED" /\ Head(todo) = W("task", "QUEUED")
    BY <1>1 DEF Inv, WritesAreInOrder, Requeueing, RequeueWrites
  <2>. QED  BY <1>1, <2>1, TaskWriteIsRefused
<1>4. run.pc # "failing"
  <2>. SUFFICES ASSUME run.pc = "failing" PROVE FALSE
    OBVIOUS
  <2>1. Live(status) /\ status \in Status /\ Ending("FAILED")
    BY <1>1 DEF Inv, WritesAreInOrder, Live, StatusOrAbsent
  <2>2. CASE todo = FinishWrites("FAILED")
    <3>1. Head(todo) = W("attempt", "FAILED")
      BY <2>2 DEF FinishWrites
    <3>2. todo # <<W("task", attempt)>>
      BY <2>2 DEF FinishWrites
    <3>3. Live(attempt) /\ attempt \in Status
      BY <1>1, <2>1, <3>2 DEF Live, StatusOrAbsent
    <3>. QED  BY <1>1, <3>1, <3>3, AttemptWriteIsRefused
  <2>3. CASE todo = <<W("task", "FAILED")>>
    <3>1. Head(todo) = W("task", "FAILED")
      BY <2>3
    <3>. QED  BY <1>1, <2>1, <3>1, TaskWriteIsRefused
  <2>. QED  BY <1>1, <2>1, <2>2, <2>3 DEF Ending
<1>5. CASE run.pc = "finishing"
  <2>1. /\ run.result \in {"COMPLETED", "FAILED"} /\ Ending(run.result)
        /\ status \in {"RUNNING", "PAUSED"}
    BY <1>1, <1>5 DEF Inv, WritesAreInOrder, ResultsArePrinted
  <2>2. CASE todo = FinishWrites(run.result)
    <3>1. todo # <<W("task", attempt)>>
      BY <2>2 DEF FinishWrites
    <3>. QED  BY <1>5, <2>1, <3>1 DEF Terminal
  <2>3. CASE todo = <<W("task", run.result)>>
    <3>1. Head(todo) = W("task", run.result)
      BY <2>3
    <3>2. status # "PAUSED"
      <4>1. FinishWrites("COMPLETED") # <<W("task", run.result)>>
        BY DEF FinishWrites
      <4>. QED  BY <1>5, <2>3, <4>1 DEF PausedInv, PausedByHandoff
    <3>. QED  BY <1>1, <2>1, <3>1, <3>2, TaskWriteIsRefused
  <2>. QED  BY <1>1, <2>1, <2>2, <2>3 DEF Ending
<1>. QED  BY <1>1, <1>2, <1>3, <1>4, <1>5 DEF Writing

LEMMA CommitKeepsStatusesFit ==
  ASSUME Inv, PausedInv, StatusesFitTheRun, Commit
  PROVE  StatusesFitTheRun'
<1>. USE FirstAndRest DEF StatusesFitTheRun
<1>1. /\ UNCHANGED run /\ RowsAreSound /\ todo # << >> /\ turn # "loop"
      /\ Inv' /\ status \in StatusOrAbsent
  BY CommitKeeps DEF Inv, TypeOK, RowsAreSound, Commit, LoopIsHeld
<1>2. CASE turn \in Pausers
  <2>1. run.pc \in Attached /\ run.pc \notin Writing /\ Persisting
    BY <1>2, PausersHoldAttached DEF Inv, WritesAreInOrder
  <2>2. \/ Head(todo) = W("checkpoint", "PAUSED")
        \/ Head(todo) = W("attempt", "PAUSED")
        \/ Head(todo) = W("task", "PAUSED")
    BY <1>1, <2>1 DEF Persisting, PersistWrites
  <2>3. status' \in {status, "PAUSED"} /\ attempt' \in {attempt, "PAUSED"}
    BY <2>2, CommitsTask, CommitsAttempt, CommitsCheckpoint
  <2>4. status \in {"RUNNING", "PAUSED"} /\ attempt \notin Terminal \cup {Absent}
    BY <2>1 DEF Attached, Writing, Terminal, Absent
  <2>. QED  BY <1>1, <2>1, <2>3, <2>4 DEF Attached, Writing, Terminal, Absent
<1>3. CASE run.pc = "starting"
  <2>1. CASE todo = StartWrites /\ status = Absent
    <3>1. /\ Head(todo) = W("task", "CREATED")
          /\ Tail(todo) = <<W("attempt", "ASSIGNED")>>
      BY <2>1 DEF StartWrites
    <3>2. /\ attempt' = attempt /\ todo' # << >>
      BY <3>1, CommitsTask
    <3>3. attempt = Absent
      BY <2>1 DEF Inv, AttemptNeedsTask
    <3>. QED  BY <1>1, <1>3, <3>2, <3>3 DEF Attached, Terminal, Absent
  <2>2. CASE todo = <<W("attempt", "ASSIGNED")>>
    <3>1. Head(todo) = W("attempt", "ASSIGNED") /\ Tail(todo) = << >>
      BY <2>2
    <3>2. /\ attempt' = "ASSIGNED" /\ todo' = << >>
      BY <3>1, CommitsAttempt
    <3>. QED  BY <1>1, <1>3, <3>2 DEF Attached, Terminal, Absent
  <2>. QED  BY <1>1, <1>3, <2>1, <2>2 DEF Inv, WritesAreInOrder, Starting
<1>4. CASE run.pc = "requeueing"
  <2>1. status = "PAUSED" /\ attempt = "PAUSED" /\ Head(todo) = W("task",
  "QUEUED")
    BY <1>1, <1>4 DEF Inv, WritesAreInOrder, Requeueing, RequeueWrites,
       PausedInv, PausedIsResumable
  <2>2. attempt' = "PAUSED"
    BY <2>1, CommitsTask
  <2>. QED  BY <1>1, <1>4, <2>2 DEF Attached, Terminal, Absent
<1>5. CASE run.pc = "entering"
  <2>1. status' \in {"QUEUED", "ASSIGNED", "RUNNING"}
    BY <1>1, <1>5, EnteringCommits DEF Inv, WritesAreInOrder
  <2>2. attempt' \in {attempt, "RUNNING"}
    <3>1. \/ Head(todo) = W("attempt", "RUNNING")
          \/ \E to \in Status : Head(todo) = W("task", to)
      BY <1>1, <1>5 DEF Inv, WritesAreInOrder, Entering, Status
    <3>. QED  BY <3>1, CommitsTask, CommitsAttempt
  <2>3. attempt \notin Terminal \cup {Absent}
    BY <1>5 DEF Live
  <2>. QED  BY <1>1, <1>5, <2>1, <2>2, <2>3 DEF Attached, Terminal, Absent,
  Live
<1>6. CASE run.pc = "finishing"
  <2>1. run.result \in {"COMPLETED", "FAILED"} /\ Ending(run.result)
    BY <1>6 DEF Inv, WritesAreInOrder, ResultsArePrinted
  <2>2. \/ /\ todo' = <<W("task", run.result)>>
           /\ attempt' = run.result /\ status' = status
        \/ todo' = << >> /\ status' = run.result
    BY <1>1, <2>1, EndingCommits
  <2>3. status' \in Terminal => attempt' = status'
    BY <1>1 DEF Inv, FinishedTogether
  <2>. QED  BY <1>1, <1>6, <2>1, <2>2, <2>3 DEF Attached, Terminal, Absent
<1>7. CASE run.pc = "failing"
  <2>1. \/ /\ todo' = <<W("task", "FAILED")>>
           /\ attempt' = "FAILED" /\ status' = status
        \/ todo' = << >> /\ status' = "FAILED"
    BY <1>1, <1>7, EndingCommits DEF Inv, WritesAreInOrder
  <2>2. status' \in Terminal => attempt' = status'
    BY <1>1 DEF Inv, FinishedTogether
  <2>. QED  BY <1>1, <1>7, <2>1, <2>2 DEF Attached, Terminal, Absent, Live
<1>8. turn \notin Pausers => run.pc \in Writing
  BY <1>1 DEF Inv, TypeOK, LoopIsHeld
<1>. QED  BY <1>2, <1>3, <1>4, <1>5, <1>6, <1>7, <1>8 DEF Writing

LEMMA RunKeepsStatusesFit ==
  ASSUME Inv, PausedInv, PauseIsTold, StatusesFitTheRun, RunStep
  PROVE  StatusesFitTheRun'
<1>. USE DEF StatusesFitTheRun, Attached, GoTo
<1>1. run \in Run /\ status \in StatusOrAbsent
  BY DEF Inv, TypeOK
<1>2. UNCHANGED <<status, attempt>>
  BY DEF RunStep, Recovered, Requeued, Written, RunRefused, HealthAnswers,
     Spawned, PollFindsExit, PollFindsStop, PollFindsRequest, ChannelReturns,
     OutcomeKnown, TimesOut, ChannelIsEnded,
     ChannelIsNotEnded, Return, Abort, Raise, db
<1>3. CASE Recovered \/ Requeued
  <2>1. Requeued /\ status = "QUEUED"
    BY <1>3, WritesAreLeft DEF Recovered, Requeued, Done, Inv,
       WritesAreInOrder, Requeueing
  <2>. QED  BY <1>1, <1>2, <2>1 DEF Requeued, Run, Terminal
<1>4. CASE Written
  <2>1. run.pc \in {"starting", "entering", "finishing", "failing"} /\ todo = << >>
    BY <1>4 DEF Written, AfterWrites, Done
  <2>2. /\ run.pc = "starting" => status = "CREATED" /\ attempt # Absent
        /\ run.pc = "entering" => status = "RUNNING"
        /\ run.pc \in {"finishing", "failing"} => status \in {"COMPLETED", "FAILED"}
    BY <2>1, WritesAreLeft DEF Inv, WritesAreInOrder, Starting, Entering,
       Ending,
       ResultsArePrinted
  <2>3. attempt \in Terminal => status = attempt
    BY <2>1
  <2>. QED  BY <1>1, <1>2, <1>4, <2>1, <2>2, <2>3
            DEF Written, AfterWrites, Run, Absent
<1>5. CASE RunRefused
  BY <1>1, <1>2, <1>5, RunsRefused
  DEF RunRefused, HandleError, Run, Live, Terminal, Absent
<1>6. CASE HealthAnswers \/ Spawned
  BY <1>1, <1>2, <1>6 DEF HealthAnswers, Spawned, Woken, HandleError, Run,
     Live,
     Terminal, Absent
<1>7. CASE PollFindsExit \/ PollFindsStop \/ PollFindsRequest
  <2>1. run.pc \in Attached /\ run'.pc \in Attached
    BY <1>1, <1>7 DEF PollFindsExit, PollFindsStop, PollFindsRequest, Woken,
       Run
  <2>. QED  BY <1>2, <2>1
<1>8. CASE ChannelReturns \/ OutcomeKnown \/ TimesOut \/ ChannelIsEnded
           \/ ChannelIsNotEnded \/ Abort
  <2>1. run.pc \in Attached /\ run'.pc \in Attached
    BY <1>1, <1>8, TimeoutGoesTo, LostChannelGoesTo
    DEF ChannelReturns, TakeAnswer, OutcomeKnown, ChannelIsEnded, Abort, Woken,
        Run
  <2>. QED  BY <1>2, <2>1
<1>9. CASE Return \/ Raise
  <2>1. \/ run' = [run EXCEPT !.pc = "none"] /\ status = "PAUSED"
        \/ run' = [run EXCEPT !.pc = "failing"] /\ status # "PAUSED"
        \/ run' = [run EXCEPT !.pc = "finishing"]
    BY <1>9 DEF PauseIsTold, Return, Raise, HandleError
  <2>2. run.pc \in {"returning", "gathering"}
    BY <1>9 DEF Return, Raise
  <2>. QED  BY <1>1, <1>2, <2>1, <2>2 DEF Run, Live, Terminal, Absent
<1>. QED
  BY <1>3, <1>4, <1>5, <1>6, <1>7, <1>8, <1>9 DEF RunStep

LEMMA CrashCounts ==
  ASSUME Inv, Crash
  PROVE  faults'.crash # 0
<1>1. faults \in [crash : 0..MaxCrashes, unconfirmed : 0..MaxUnconfirmed]
  BY DEF Inv, TypeOK
<1>2. faults' = [faults EXCEPT !.crash = @ + 1]
  BY DEF Crash
<1>. QED  BY <1>1, <1>2, BoundsAreNaturals

LEMMA OthersKeepStatusesFit ==
  ASSUME Inv, StatusesFitTheRun, faults'.crash = 0,
         \/ Command \/ Environment \/ UNCHANGED vars
         \/ \E p \in Pausers : PauserStep(p)
  PROVE  StatusesFitTheRun'
<1>. USE DEF StatusesFitTheRun
<1>1. run \in Run /\ faults.crash \in Nat
  BY BoundsAreNaturals DEF Inv, TypeOK
<1>2. CASE Execute
  BY <1>2 DEF Inv, AttemptNeedsTask, Execute, Hold, StartWrites, NewRun,
     Attached, Terminal, Absent, db
<1>3. CASE Recover \/ Resume
  BY <1>3 DEF Recover, Resume, NewRun, Attached, Terminal, Absent, db
<1>4. CASE Stop \/ StopKills \/ \E p \in Pausers : Pause(p)
  BY <1>1, <1>4 DEF Stop, StopKills, Pause, Run, db
<1>5. ASSUME NEW p \in Pausers, PauserStep(p)
      PROVE  StatusesFitTheRun'
  <2>1. UNCHANGED <<status, attempt>> /\ run'.pc = run.pc
    BY <1>1, <1>5 DEF PauserStep, FindResponse, FindExit, PauseTimesOut,
       PersistFails, Persisted, CompletePause, Leave, Run, db
  <2>2. run.pc \notin Writing
    BY <1>5, PausersAreNoOwners DEF Inv, LoopIsHeld, PauserStep, FindResponse,
       FindExit, PauseTimesOut, PersistFails, Persisted, Leave, Done
  <2>. QED  BY <2>1, <2>2 DEF Writing
<1>6. CASE Environment
  <2>1. ~Crash
    BY CrashCounts
  <2>. QED  BY <1>1, <1>6, <2>1 DEF Environment, PluginRequests,
            PluginHandsOff, PluginExits, PipesClose, ChannelEnds,
            db
<1>7. CASE UNCHANGED vars
  BY <1>7 DEF vars, db
<1>. QED  BY <1>2, <1>3, <1>4, <1>5, <1>6, <1>7 DEF Command

LEMMA CommitKeepsNewest ==
  ASSUME Inv, PausedInv, StatusesFitTheRun, CheckpointIsNewest, Commit
  PROVE  CheckpointIsNewest'
<1>. USE FirstAndRest DEF CheckpointIsNewest
<1>1. UNCHANGED <<turn, run, handoffs>> /\ todo # << >> /\ turn # "loop"
  BY DEF Commit, world, Inv, LoopIsHeld
<1>2. CASE turn \in Pausers
  <2>1. Persisting
    BY <1>2 DEF Inv, WritesAreInOrder
  <2>2. CASE todo = PersistWrites
    <3>1. Head(todo) = W("checkpoint", "PAUSED")
      BY <2>2 DEF PersistWrites
    <3>. QED  BY <1>1, <1>2, <3>1, PausersHaveRead, CommitsCheckpoint
  <2>3. CASE todo # PersistWrites
    <3>1. \/ Head(todo) = W("attempt", "PAUSED")
          \/ Head(todo) = W("task", "PAUSED")
      BY <1>1, <2>1, <2>3 DEF Persisting
    <3>2. checkpoint' = checkpoint
      BY <3>1, CommitsTask, CommitsAttempt
    <3>. QED  BY <1>1, <1>2, <2>3, <3>2
  <2>. QED  BY <2>2, <2>3
<1>3. CASE turn \notin Pausers
  <2>1. run.pc # "recovering" /\ run.pc \notin Attached
    BY <1>1, <1>3 DEF StatusesFitTheRun, Inv, TypeOK, LoopIsHeld, Writing,
       Attached
  <2>2. status' # "PAUSED"
    BY <1>3, <2>1, CommitsOfPaused, CommitsToPaused
  <2>. QED  BY <1>1, <1>3, <2>2
<1>. QED  BY <1>2, <1>3

LEMMA OthersKeepNewest ==
  ASSUME Inv, HandoffsAreOver, CheckpointIsNewest, [Next]_vars, UNCHANGED db,
         ~Commit, faults'.crash = 0
  PROVE  CheckpointIsNewest'
<1>. USE DEF CheckpointIsNewest
<1>1. /\ UNCHANGED <<status, checkpoint>>
      /\ faults.crash \in Nat /\ run \in Run /\ plugin \in Plugin
      /\ turn \in {"loop", "run"} \cup Pausers
      /\ \A p \in Pausers : turn = p => plugin.state # "running"
  BY BoundsAreNaturals DEF Inv, TypeOK, LoopIsHeld, HandoffsAreOver, db
<1>2. CASE RunStep
  <2>1. UNCHANGED handoffs
    BY <1>2 DEF RunStep, Recovered, Requeued, Written, RunRefused,
       HealthAnswers, Spawned, PollFindsExit, PollFindsStop, PollFindsRequest,
       ChannelReturns, OutcomeKnown, TimesOut, ChannelIsEnded,
     ChannelIsNotEnded, Return, Abort, Raise, world
  <2>2. \/ UNCHANGED <<turn, todo>>
        \/ turn' \in {"loop", "run"}
    BY <1>2 DEF RunStep, Recovered, Requeued, Written, RunRefused,
       HealthAnswers, Spawned, PollFindsExit, PollFindsStop, PollFindsRequest,
       ChannelReturns, OutcomeKnown, TimesOut, ChannelIsEnded,
     ChannelIsNotEnded, Return, Abort, Raise, HandleError,
       Hold, Release
  <2>. QED  BY <1>1, <2>1, <2>2, PausersAreNoOwners
<1>3. CASE Command
  <2>1. /\ UNCHANGED handoffs
        /\ UNCHANGED <<turn, todo>> \/ turn' = "run"
    BY <1>3 DEF Command, Execute, Recover, Resume, Stop, StopKills, Pause,
       Hold, world
  <2>. QED  BY <1>1, <2>1, PausersAreNoOwners
<1>4. ASSUME NEW p \in Pausers, PauserStep(p)
      PROVE  CheckpointIsNewest'
  <2>1. /\ UNCHANGED handoffs
        /\ \/ UNCHANGED <<turn, todo>>
           \/ turn' = p /\ todo' = PersistWrites
           \/ turn' = "loop"
    BY <1>4 DEF PauserStep, FindResponse, FindExit, PauseTimesOut,
       PersistFails, Persisted, Hold, Release, world
  <2>. QED  BY <1>1, <2>1, PausersAreNoOwners
<1>5. CASE PluginHandsOff
  BY <1>1, <1>5 DEF PluginHandsOff, HandoffsAreOver
<1>6. CASE Environment /\ ~PluginHandsOff
  <2>1. ~Crash
    BY CrashCounts
  <2>2. UNCHANGED <<turn, todo, handoffs>>
    BY <1>6, <2>1 DEF Environment, PluginRequests, PluginExits, PipesClose,
       ChannelEnds
  <2>. QED  BY <1>1, <2>2
<1>7. CASE UNCHANGED vars
  BY <1>1, <1>7 DEF vars, world
<1>. QED  BY <1>2, <1>3, <1>4, <1>5, <1>6, <1>7 DEF Next

LEMMA CrashesCount ==
  ASSUME Inv, [Next]_vars, faults'.crash = 0
  PROVE  faults.crash = 0
<1>1. faults.crash \in Nat
  BY BoundsAreNaturals DEF Inv, TypeOK
<1>2. CASE RunStep
  <2>1. CASE ChannelIsNotEnded
    <3>1. /\ faults \in [crash : 0..MaxCrashes, unconfirmed : 0..MaxUnconfirmed]
          /\ faults' = [faults EXCEPT !.unconfirmed = @ + 1]
      BY <2>1 DEF Inv, TypeOK, ChannelIsNotEnded
    <3>. QED  BY <3>1
  <2>2. CASE ~ChannelIsNotEnded
    BY <1>2, <2>2 DEF RunStep, Recovered, Requeued, Written, RunRefused,
       HealthAnswers, Spawned, PollFindsExit, PollFindsStop, PollFindsRequest,
       ChannelReturns, OutcomeKnown, TimesOut, ChannelIsEnded, Return, Abort,
       Raise, world
  <2>. QED  BY <2>1, <2>2
<1>3. ASSUME NEW p \in Pausers, PauserStep(p)
      PROVE  faults.crash = 0
  BY <1>3 DEF PauserStep, FindResponse, FindExit, PauseTimesOut, PersistFails,
     Persisted, world
<1>4. CASE Command
  BY <1>4 DEF Command, Execute, Recover, Resume, Stop, StopKills, Pause, world
<1>5. CASE Environment
  <2>1. ~Crash
    BY CrashCounts
  <2>2. UNCHANGED faults
    BY <1>5, <2>1 DEF Environment, PluginRequests, PluginHandsOff, PluginExits,
       PipesClose, ChannelEnds
  <2>. QED  BY <2>2
<1>. QED
  BY <1>2, <1>3, <1>4, <1>5 DEF Next, Commit, vars, world

LEMMA NewestStep ==
  Inv /\ PausedInv /\ NewestInv /\ [Next]_vars => NewestInv'
<1>. SUFFICES ASSUME Inv, PausedInv, NewestInv, [Next]_vars PROVE NewestInv'
  OBVIOUS
<1>1. HandoffsAreOver' /\ PauseIsTold'
  BY HandoffsStayOver, PauseStaysTold DEF NewestInv
<1>2. ASSUME faults'.crash = 0
      PROVE  StatusesFitTheRun' /\ CheckpointIsNewest'
  <2>1. HandoffsAreOver /\ PauseIsTold /\ StatusesFitTheRun /\ CheckpointIsNewest
    BY <1>2, CrashesCount DEF NewestInv
  <2>2. CASE Commit
    BY <2>1, <2>2, CommitKeepsStatusesFit, CommitKeepsNewest
  <2>3. CASE ~Commit /\ UNCHANGED db
    <3>1. CheckpointIsNewest'
      BY <1>2, <2>1, <2>3, OthersKeepNewest
    <3>2. StatusesFitTheRun'
      BY <1>2, <2>1, <2>3, RunKeepsStatusesFit, OthersKeepStatusesFit DEF Next
    <3>. QED  BY <3>1, <3>2
  <2>. QED  BY <2>2, <2>3, OnlyCommitsWrite
<1>. QED  BY <1>1, <1>2 DEF NewestInv

(* On the same condition, a PAUSED task leads to the newest handoff that   *)
(* any of its plugin processes wrote, as long as the service never dies:   *)
(* no late or repeated pause registers an older one.                       *)
THEOREM NewestHandoffIsTheCheckpoint ==
  ASSUME "FAILED" \notin LateOutputs
  PROVE  Spec => []NewestHandoffIsKept
<1>1. Init => NewestInv
  BY PausersAreNoOwners DEF Init, NewRun, NewPlugin, NewestInv,
     HandoffsAreOver, PauseIsTold, StatusesFitTheRun, CheckpointIsNewest,
     Attached, Terminal, Absent
<1>2. NewestInv => NewestHandoffIsKept
  BY DEF NewestInv, CheckpointIsNewest, NewestHandoffIsKept
<1>. QED
  BY <1>1, <1>2, NewestStep, PausedInvHolds, CoroutinesAndRowsAgree, PTL
  DEF Spec

=============================================================================
