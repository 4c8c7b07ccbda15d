------------------------ MODULE PluginExecutionProofs ------------------------
(***************************************************************************)
(* Theorems about PluginExecution, for any set of calls and any number of  *)
(* outputs: types, one start of the plugin, failures that stay, and        *)
(* completions that have everything on record.                             *)
(*                                                                         *)
(* The first three rest on one fact about the event loop: at most one call *)
(* stands in a stretch between two awaits (OneAtATime).  What a call has   *)
(* read in its stretch is therefore still true when it writes.  For the    *)
(* last, the record of every call is counted as far as it has come         *)
(* (BooksInv).                                                             *)
(***************************************************************************)
EXTENDS PluginExecution, FiniteSetTheorems, TLAPS

Started == Logged("PLUGIN_EXECUTION_STARTED")
Rejected == Logged("PLUGIN_RESULT_REJECTED")
Failed == Logged("PLUGIN_EXECUTION_FAILED")

(* Before the plugin is called, and after. *)
Starting == {"QUEUED", "ASSIGNED", "RUNNING", "started"}
Answered == {"plugin", "validate", "outputs", "accepted", "finish"}

OneAtATime ==
  \A c, d \in Calls :
    c # d /\ call[c].pc \in Stretch => call[d].pc \notin Stretch

(* The plugin has not been started while the task is CREATED, or a call is *)
(* on its way to start it.                                                 *)
NotYetStarted ==
  /\ task = "CREATED" => Started = {}
  /\ \A c \in Calls : call[c].pc \in Starting => Started = {}
  /\ \A c \in Calls : call[c].pc = "started" => task # "CREATED"

HasStarted(c) == \E i \in Started : log[i].by = c

(* Who has an answer, or a rejection of one, has started the plugin. *)
AnswersHaveStarts ==
  /\ \A c \in Calls : call[c].pc \in Answered => HasStarted(c)
  /\ \A c \in Calls :
       call[c].pc = "reject" /\ call[c].event = "PLUGIN_RESULT_REJECTED"
         => HasStarted(c)
  /\ \A i \in Rejected : HasStarted(log[i].by)

(* A call that rejects does so while the task has not ended. *)
RejectsInTime ==
  \A c \in Calls : call[c].pc \in {"reject", "rejected"} => task \notin Terminal

(* A failure on record is on its way to the task, lost, or there. *)
FailuresArrive ==
  \A i \in Rejected \cup Failed :
    call[log[i].by].pc \in {"rejected", "lost"} \/ task = "FAILED"

(* What a completed task has on record. *)
CompletedCleanly ==
  task = "COMPLETED" =>
    /\ Rejected = {}
    /\ \A i \in Failed : call[log[i].by].pc = "lost"

Inv ==
  /\ TypeOK
  /\ OneAtATime
  /\ NotYetStarted
  /\ PluginRunsOnce
  /\ AnswersHaveStarts
  /\ RejectsInTime
  /\ FailuresArrive
  /\ CompletedCleanly

-----------------------------------------------------------------------------
(* A move of the table starts from a status that is not final and never    *)
(* goes back to CREATED.                                                   *)
LEMMA Moves ==
  ASSUME NEW from \in Status, NEW to, CanMove(from, to)
  PROVE  from \notin Terminal /\ to \in Status /\ to # "CREATED"
BY DEF CanMove, Allowed, Status, Terminal

(* What an append leaves of the log, and what it adds. *)
LEMMA Appended ==
  ASSUME TypeOK, NEW type \in Kinds, NEW c \in Calls, Record(type, c)
  PROVE  /\ log' \in Seq(Entry)
         /\ DOMAIN log' = DOMAIN log \cup {Len(log) + 1}
         /\ Len(log) + 1 \notin DOMAIN log
         /\ \A i \in DOMAIN log : log'[i] = log[i]
         /\ log'[Len(log) + 1] = Event(type, c)
<1>1. Event(type, c) \in Entry
  BY DEF Event, Entry
<1>2. log \in Seq(Entry) /\ log' = Append(log, Event(type, c))
  BY DEF TypeOK, Record
<1>. QED  BY <1>1, <1>2

(* An append adds one entry of its kind and none of the others. *)
LEMMA AppendedKind ==
  ASSUME TypeOK, NEW type \in Kinds, NEW c \in Calls, Record(type, c),
         NEW kind \in Kinds
  PROVE  /\ kind = type => Logged(kind)' = Logged(kind) \cup {Len(log) + 1}
         /\ kind # type => Logged(kind)' = Logged(kind)
<1>1. /\ DOMAIN log' = DOMAIN log \cup {Len(log) + 1}
      /\ Len(log) + 1 \notin DOMAIN log
      /\ \A i \in DOMAIN log : log'[i] = log[i]
      /\ log'[Len(log) + 1] = Event(type, c)
  BY Appended
<1>2. log'[Len(log) + 1].type = type
  BY <1>1 DEF Event
<1>3. kind = type =>
        {i \in DOMAIN log' : log'[i].type = kind}
          = {i \in DOMAIN log : log[i].type = kind} \cup {Len(log) + 1}
  BY <1>1, <1>2
<1>4. kind # type =>
        {i \in DOMAIN log' : log'[i].type = kind}
          = {i \in DOMAIN log : log[i].type = kind}
  BY <1>1, <1>2
<1>. QED  BY <1>3, <1>4 DEF Logged

(* A step that does not append leaves every kind as it is. *)
LEMMA SameLog ==
  ASSUME UNCHANGED log
  PROVE  /\ Started' = Started /\ Rejected' = Rejected /\ Failed' = Failed
         /\ \A i : log'[i] = log[i]
BY DEF Started, Rejected, Failed, Logged

(* The author of an entry is a call. *)
LEMMA Authors ==
  ASSUME TypeOK, NEW i \in DOMAIN log
  PROVE  log[i].by \in Calls /\ log[i].type \in Kinds
<1>1. log[i] \in Entry
  BY DEF TypeOK
<1>. QED  BY <1>1 DEF Entry

-----------------------------------------------------------------------------
LEMMA InitHolds == Init => Inv
<1>. SUFFICES ASSUME Init PROVE Inv
  OBVIOUS
<1>1. log \in Seq(Entry) /\ \A type : Logged(type) = {}
  BY DEF Init, Logged
<1>2. \A c \in Calls : call[c].pc = "idle"
  BY DEF Init
<1>3. NoResult \in Result
  BY OutputsAreNatural DEF NoResult, Result, Status
<1>4. call \in [Calls -> CallState]
  BY <1>3, OutputsAreNatural DEF Init, CallState, Over
<1>5. TypeOK
  BY <1>1, <1>4 DEF Init, TypeOK, Status
<1>. QED
  BY <1>1, <1>2, <1>5
  DEF Init, Inv, OneAtATime, NotYetStarted, PluginRunsOnce, AnswersHaveStarts,
      RejectsInTime, FailuresArrive, CompletedCleanly, Started, Rejected, Failed,
      Starting, Answered, Stretch

-----------------------------------------------------------------------------
(* What To and Reject leave of the calls. *)
LEMMA Went ==
  ASSUME TypeOK, NEW c \in Calls, NEW pc \in Awaiting \cup Over \cup Stretch,
         To(c, pc)
  PROVE  /\ call' \in [Calls -> CallState]
         /\ call'[c].pc = pc /\ call'[c].event = call[c].event
         /\ \A d \in Calls : d # c => call'[d] = call[d]
<1>1. call \in [Calls -> CallState] /\ call' = [call EXCEPT ![c].pc = pc]
  BY DEF TypeOK, To
<1>2. [call[c] EXCEPT !.pc = pc] \in CallState
  BY <1>1 DEF CallState
<1>3. call' = [call EXCEPT ![c] = [call[c] EXCEPT !.pc = pc]]
  BY <1>1
<1>4. call'[c] = [call[c] EXCEPT !.pc = pc]
  BY <1>1, <1>3
<1>5. call'[c].pc = pc /\ call'[c].event = call[c].event
  BY <1>1, <1>4 DEF CallState
<1>. QED  BY <1>1, <1>2, <1>3, <1>5

LEMMA WasRejected ==
  ASSUME TypeOK, NEW c \in Calls,
         NEW reason \in {"PLUGIN_RESULT_REJECTED", "PLUGIN_EXECUTION_FAILED"},
         Reject(c, reason)
  PROVE  /\ call' \in [Calls -> CallState]
         /\ call'[c].pc = (IF task \in Terminal THEN "raised" ELSE "reject")
         /\ call'[c].event = reason
         /\ \A d \in Calls : d # c => call'[d] = call[d]
<1>. DEFINE pc == IF task \in Terminal THEN "raised" ELSE "reject"
            r == [call[c] EXCEPT !.pc = pc, !.event = reason]
<1>1. call \in [Calls -> CallState] /\ call' = [call EXCEPT ![c] = r]
  BY DEF TypeOK, Reject
<1>2. pc \in Awaiting \cup Over \cup Stretch
  BY DEF Over, Stretch
<1>3. r \in CallState /\ r.pc = pc /\ r.event = reason
  BY <1>1, <1>2 DEF CallState
<1>4. call'[c] = r
  BY <1>1
<1>. QED  BY <1>1, <1>3, <1>4

(* A step of a call that has the loop for itself leaves it so. *)
LEMMA LoopIsFree ==
  ASSUME TypeOK, NEW c \in Calls, Alone(c),
         \A d \in Calls : d # c => call'[d] = call[d]
  PROVE  /\ OneAtATime'
         /\ \A d \in Calls : d # c => call[d].pc \notin Stretch
BY DEF OneAtATime, Alone, Awaiting, Over, Stretch

(* A call that moves without touching the task, and records no start and   *)
(* no failure, keeps the invariant if its new place is justified.          *)
LEMMA QuietStep ==
  ASSUME Inv, NEW c \in Calls, TypeOK', OneAtATime', task' = task,
         Started' = Started, Rejected' = Rejected, Failed' = Failed,
         \A i \in DOMAIN log : log'[i] = log[i],
         \A d \in Calls : d # c => call'[d] = call[d],
         call'[c].pc \in Starting => Started = {},
         call'[c].pc = "started" => task # "CREATED",
         call'[c].pc \in Answered => HasStarted(c),
         call'[c].pc = "reject" =>
           /\ task \notin Terminal
           /\ call'[c].event = "PLUGIN_RESULT_REJECTED" => HasStarted(c),
         call'[c].pc # "rejected",
         call[c].pc \in {"rejected", "lost"} => call'[c].pc = "lost"
  PROVE  Inv'
<1>1. \A i \in Started \cup Rejected \cup Failed : i \in DOMAIN log
  BY DEF Started, Rejected, Failed, Logged
<1>2. \A d \in Calls : HasStarted(d) => HasStarted(d)'
  BY <1>1 DEF HasStarted
<1>3. \A i \in Rejected \cup Failed : log[i].by \in Calls
  BY Authors DEF Inv, Rejected, Failed, Logged
<1>4. NotYetStarted'
  BY <1>1 DEF Inv, NotYetStarted
<1>5. PluginRunsOnce'
  BY <1>1 DEF Inv, PluginRunsOnce, Started
<1>6. AnswersHaveStarts'
  BY <1>1, <1>2, <1>3 DEF Inv, AnswersHaveStarts
<1>7. RejectsInTime'
  BY DEF Inv, RejectsInTime
<1>8. FailuresArrive'
  BY <1>1, <1>3 DEF Inv, FailuresArrive
<1>9. CompletedCleanly'
  BY <1>1, <1>3 DEF Inv, CompletedCleanly
<1>. QED  BY <1>4, <1>5, <1>6, <1>7, <1>8, <1>9 DEF Inv


(* A step that leaves the log alone, in the terms of QuietStep. *)
LEMMA NothingLogged ==
  ASSUME UNCHANGED log
  PROVE  /\ Started' = Started /\ Rejected' = Rejected /\ Failed' = Failed
         /\ \A i \in DOMAIN log : log'[i] = log[i]
BY SameLog

(* What an append does to the three kinds that the invariant is about. *)
LEMMA RecordedKinds ==
  ASSUME TypeOK, NEW type \in Kinds, NEW c \in Calls, Record(type, c)
  PROVE  /\ Started' = IF type = "PLUGIN_EXECUTION_STARTED"
                       THEN Started \cup {Len(log) + 1} ELSE Started
         /\ Rejected' = IF type = "PLUGIN_RESULT_REJECTED"
                        THEN Rejected \cup {Len(log) + 1} ELSE Rejected
         /\ Failed' = IF type = "PLUGIN_EXECUTION_FAILED"
                      THEN Failed \cup {Len(log) + 1} ELSE Failed
<1>1. {"PLUGIN_EXECUTION_STARTED", "PLUGIN_RESULT_REJECTED",
       "PLUGIN_EXECUTION_FAILED"} \subseteq Kinds
  BY DEF Kinds
<1>2. Started' = IF type = "PLUGIN_EXECUTION_STARTED"
                 THEN Started \cup {Len(log) + 1} ELSE Started
  <2>. DEFINE kind == "PLUGIN_EXECUTION_STARTED"
  <2>1. /\ kind = type => Logged(kind)' = Logged(kind) \cup {Len(log) + 1}
        /\ kind # type => Logged(kind)' = Logged(kind)
    BY <1>1, AppendedKind
  <2>. QED  BY <2>1 DEF Started
<1>3. Rejected' = IF type = "PLUGIN_RESULT_REJECTED"
                  THEN Rejected \cup {Len(log) + 1} ELSE Rejected
  <2>. DEFINE kind == "PLUGIN_RESULT_REJECTED"
  <2>1. /\ kind = type => Logged(kind)' = Logged(kind) \cup {Len(log) + 1}
        /\ kind # type => Logged(kind)' = Logged(kind)
    BY <1>1, AppendedKind
  <2>. QED  BY <2>1 DEF Rejected
<1>4. Failed' = IF type = "PLUGIN_EXECUTION_FAILED"
                THEN Failed \cup {Len(log) + 1} ELSE Failed
  <2>. DEFINE kind == "PLUGIN_EXECUTION_FAILED"
  <2>1. /\ kind = type => Logged(kind)' = Logged(kind) \cup {Len(log) + 1}
        /\ kind # type => Logged(kind)' = Logged(kind)
    BY <1>1, AppendedKind
  <2>. QED  BY <2>1 DEF Failed
<1>. QED  BY <1>2, <1>3, <1>4

(* An entry about outputs and acceptance is no start and no failure. *)
LEMMA NothingStarted ==
  ASSUME TypeOK, NEW c \in Calls,
         NEW type \in {"ARTIFACT_REGISTERED", "PLUGIN_RESULT_ACCEPTED"},
         Record(type, c)
  PROVE  /\ log' \in Seq(Entry)
         /\ Started' = Started /\ Rejected' = Rejected /\ Failed' = Failed
         /\ \A i \in DOMAIN log : log'[i] = log[i]
<1>1. type \in Kinds
  BY DEF Kinds
<1>2. log' \in Seq(Entry) /\ \A i \in DOMAIN log : log'[i] = log[i]
  BY <1>1, Appended
<1>3. Started' = Started /\ Rejected' = Rejected /\ Failed' = Failed
  BY <1>1, RecordedKinds
<1>. QED  BY <1>2, <1>3

-----------------------------------------------------------------------------
(* The actions that move a call and nothing that the invariant counts. *)
LEMMA CallKeeps ==
  ASSUME Inv, NEW c \in Calls, Call(c)
  PROVE  Inv'
<1>1. PICK pc \in {"health", "raised"} : To(c, pc)
  BY DEF Call
<1>2. TypeOK /\ pc \in Awaiting \cup Over \cup Stretch
  BY DEF Inv, Awaiting, Over
<1>3. /\ call' \in [Calls -> CallState]
      /\ call'[c].pc = pc
      /\ \A d \in Calls : d # c => call'[d] = call[d]
  BY <1>1, <1>2, Went
<1>4. TypeOK'
  BY <1>2, <1>3 DEF Call, TypeOK
<1>5. OneAtATime'
  BY <1>2, <1>3, LoopIsFree DEF Call, At
<1>6. /\ task' = task /\ call[c].pc = "idle"
      /\ Started' = Started /\ Rejected' = Rejected /\ Failed' = Failed
      /\ \A i \in DOMAIN log : log'[i] = log[i]
  BY NothingLogged DEF Call, At
<1>. QED
  BY <1>3, <1>4, <1>5, <1>6, QuietStep DEF Starting, Answered

LEMMA HealthAnswersKeeps ==
  ASSUME Inv, NEW c \in Calls, HealthAnswers(c)
  PROVE  Inv'
<1>1. TypeOK /\ "check" \in Awaiting \cup Over \cup Stretch
  BY DEF Inv, Stretch
<1>2. /\ call' \in [Calls -> CallState]
      /\ \/ call'[c].pc \in {"check", "raised"}
         \/ /\ call'[c].pc = "reject" /\ task \notin Terminal
            /\ call'[c].event = "PLUGIN_EXECUTION_FAILED"
      /\ \A d \in Calls : d # c => call'[d] = call[d]
  <2>1. CASE To(c, "check")
    BY <1>1, <2>1, Went
  <2>2. CASE Reject(c, "PLUGIN_EXECUTION_FAILED")
    BY <1>1, <2>2, WasRejected
  <2>. QED  BY <2>1, <2>2 DEF HealthAnswers
<1>3. TypeOK'
  BY <1>1, <1>2 DEF HealthAnswers, TypeOK
<1>4. OneAtATime'
  BY <1>1, <1>2, LoopIsFree DEF HealthAnswers, At
<1>5. /\ task' = task /\ call[c].pc = "health"
      /\ Started' = Started /\ Rejected' = Rejected /\ Failed' = Failed
      /\ \A i \in DOMAIN log : log'[i] = log[i]
  BY NothingLogged DEF HealthAnswers, At
<1>. QED
  BY <1>2, <1>3, <1>4, <1>5, QuietStep DEF Starting, Answered

(* The task is CREATED when the status is read again: nobody has started. *)
LEMMA CheckCreatedKeeps ==
  ASSUME Inv, NEW c \in Calls, CheckCreated(c)
  PROVE  Inv'
<1>1. PICK pc \in {"QUEUED", "raised"} :
        To(c, pc) /\ (pc = "QUEUED" => task = "CREATED")
  BY DEF CheckCreated
<1>2. TypeOK /\ pc \in Awaiting \cup Over \cup Stretch
  BY DEF Inv, Over, Stretch
<1>3. /\ call' \in [Calls -> CallState]
      /\ call'[c].pc = pc
      /\ \A d \in Calls : d # c => call'[d] = call[d]
  BY <1>1, <1>2, Went
<1>4. TypeOK'
  BY <1>2, <1>3 DEF CheckCreated, TypeOK
<1>5. OneAtATime'
  BY <1>2, <1>3, LoopIsFree DEF CheckCreated, At
<1>6. /\ task' = task /\ call[c].pc = "check"
      /\ Started' = Started /\ Rejected' = Rejected /\ Failed' = Failed
      /\ \A i \in DOMAIN log : log'[i] = log[i]
  BY NothingLogged DEF CheckCreated, At
<1>7. pc = "QUEUED" => Started = {}
  BY <1>1 DEF Inv, NotYetStarted
<1>. QED
  BY <1>3, <1>4, <1>5, <1>6, <1>7, QuietStep DEF Starting, Answered

LEMMA PluginAnswersKeeps ==
  ASSUME Inv, NEW c \in Calls, PluginAnswers(c)
  PROVE  Inv'
<1>1. TypeOK
  BY DEF Inv
<1>2. /\ call' \in [Calls -> CallState]
      /\ \/ call'[c].pc \in {"validate", "raised"}
         \/ /\ call'[c].pc = "reject" /\ task \notin Terminal
            /\ call'[c].event = "PLUGIN_EXECUTION_FAILED"
      /\ \A d \in Calls : d # c => call'[d] = call[d]
  <2>1. CASE \E r \in Result :
               call' = [call EXCEPT ![c].pc = "validate", ![c].result = r]
    <3>1. PICK r \in Result :
            call' = [call EXCEPT ![c].pc = "validate", ![c].result = r]
      BY <2>1
    <3>. DEFINE s == [call[c] EXCEPT !.pc = "validate", !.result = r]
    <3>2. call \in [Calls -> CallState] /\ call' = [call EXCEPT ![c] = s]
      BY <1>1, <3>1 DEF TypeOK
    <3>3. s \in CallState /\ s.pc = "validate"
      BY <3>2 DEF CallState, Stretch
    <3>. QED  BY <3>2, <3>3
  <2>2. CASE Reject(c, "PLUGIN_EXECUTION_FAILED")
    BY <1>1, <2>2, WasRejected
  <2>. QED  BY <2>1, <2>2 DEF PluginAnswers
<1>3. TypeOK'
  BY <1>1, <1>2 DEF PluginAnswers, TypeOK
<1>4. OneAtATime'
  BY <1>1, <1>2, LoopIsFree DEF PluginAnswers, At
<1>5. /\ task' = task /\ call[c].pc = "plugin"
      /\ Started' = Started /\ Rejected' = Rejected /\ Failed' = Failed
      /\ \A i \in DOMAIN log : log'[i] = log[i]
  BY NothingLogged DEF PluginAnswers, At
<1>6. HasStarted(c)
  BY <1>5 DEF Inv, AnswersHaveStarts, Answered
<1>. QED
  BY <1>2, <1>3, <1>4, <1>5, <1>6, QuietStep DEF Starting, Answered

LEMMA ValidateKeeps ==
  ASSUME Inv, NEW c \in Calls, Validate(c)
  PROVE  Inv'
<1>1. TypeOK
  BY DEF Inv
<1>2. /\ call' \in [Calls -> CallState]
      /\ \/ call'[c].pc \in {"outputs", "raised"}
         \/ call'[c].pc = "reject" /\ task \notin Terminal
      /\ \A d \in Calls : d # c => call'[d] = call[d]
  <2>1. CASE Valid(call[c].result)
    <3>. DEFINE s == [call[c] EXCEPT !.pc = "outputs",
                                     !.left = call[c].result.outputs]
    <3>1. call \in [Calls -> CallState] /\ call' = [call EXCEPT ![c] = s]
      BY <1>1, <2>1 DEF TypeOK, Validate
    <3>2. call[c].result.outputs \in 0..MaxOutputs
      BY <3>1 DEF CallState, Result
    <3>3. s \in CallState /\ s.pc = "outputs"
      BY <3>1, <3>2 DEF CallState, Stretch
    <3>. QED  BY <3>1, <3>3
  <2>2. CASE ~Valid(call[c].result)
    <3>1. Reject(c, "PLUGIN_RESULT_REJECTED")
      BY <2>2 DEF Validate
    <3>. QED  BY <1>1, <3>1, WasRejected
  <2>. QED  BY <2>1, <2>2
<1>3. TypeOK'
  BY <1>1, <1>2 DEF Validate, TypeOK
<1>4. OneAtATime'
  BY <1>1, <1>2, LoopIsFree DEF Validate, At
<1>5. /\ task' = task /\ call[c].pc = "validate"
      /\ Started' = Started /\ Rejected' = Rejected /\ Failed' = Failed
      /\ \A i \in DOMAIN log : log'[i] = log[i]
  BY NothingLogged DEF Validate, At
<1>6. HasStarted(c)
  BY <1>5 DEF Inv, AnswersHaveStarts, Answered
<1>. QED
  BY <1>2, <1>3, <1>4, <1>5, <1>6, QuietStep DEF Starting, Answered

LEMMA RegisterOutputKeeps ==
  ASSUME Inv, NEW c \in Calls, RegisterOutput(c)
  PROVE  Inv'
<1>1. TypeOK /\ call[c].pc = "outputs" /\ task' = task
  BY DEF Inv, RegisterOutput, At
<1>2. /\ call' \in [Calls -> CallState]
      /\ call'[c].pc \in {"outputs", "accepted"}
      /\ \A d \in Calls : d # c => call'[d] = call[d]
      /\ log' \in Seq(Entry)
      /\ Started' = Started /\ Rejected' = Rejected /\ Failed' = Failed
      /\ \A i \in DOMAIN log : log'[i] = log[i]
  <2>1. CASE /\ call[c].left > 0
             /\ Record("ARTIFACT_REGISTERED", c)
             /\ call' = [call EXCEPT ![c].left = @ - 1]
    <3>. DEFINE s == [call[c] EXCEPT !.left = @ - 1]
    <3>1. call \in [Calls -> CallState] /\ call' = [call EXCEPT ![c] = s]
      BY <1>1, <2>1 DEF TypeOK
    <3>2. call[c].left - 1 \in 0..MaxOutputs
      BY <2>1, <3>1, OutputsAreNatural DEF CallState
    <3>3. s \in CallState /\ s.pc = "outputs"
      BY <1>1, <3>1, <3>2 DEF CallState
    <3>. QED  BY <1>1, <2>1, <3>1, <3>3, NothingStarted
  <2>2. CASE call[c].left = 0 /\ To(c, "accepted") /\ UNCHANGED log
    <3>1. "accepted" \in Awaiting \cup Over \cup Stretch
      BY DEF Stretch
    <3>2. log \in Seq(Entry)
      BY <1>1 DEF TypeOK
    <3>. QED  BY <1>1, <2>2, <3>1, <3>2, Went, NothingLogged
  <2>. QED  BY <2>1, <2>2 DEF RegisterOutput
<1>3. TypeOK'
  BY <1>1, <1>2 DEF RegisterOutput, TypeOK
<1>4. OneAtATime'
  BY <1>1, <1>2, LoopIsFree DEF RegisterOutput, At
<1>5. HasStarted(c)
  BY <1>1 DEF Inv, AnswersHaveStarts, Answered
<1>. QED
  BY <1>1, <1>2, <1>3, <1>4, <1>5, QuietStep DEF Starting, Answered

LEMMA RecordAcceptanceKeeps ==
  ASSUME Inv, NEW c \in Calls, RecordAcceptance(c)
  PROVE  Inv'
<1>1. TypeOK /\ call[c].pc = "accepted" /\ task' = task
  BY DEF Inv, RecordAcceptance, At
<1>2. /\ call' \in [Calls -> CallState]
      /\ call'[c].pc = "finish"
      /\ \A d \in Calls : d # c => call'[d] = call[d]
  BY <1>1, Went DEF RecordAcceptance, Stretch
<1>3. /\ log' \in Seq(Entry)
      /\ Started' = Started /\ Rejected' = Rejected /\ Failed' = Failed
      /\ \A i \in DOMAIN log : log'[i] = log[i]
  BY <1>1, NothingStarted DEF RecordAcceptance
<1>4. TypeOK'
  BY <1>1, <1>2, <1>3 DEF RecordAcceptance, TypeOK
<1>5. OneAtATime'
  BY <1>1, <1>2, LoopIsFree DEF RecordAcceptance, At
<1>6. HasStarted(c)
  BY <1>1 DEF Inv, AnswersHaveStarts, Answered
<1>. QED
  BY <1>1, <1>2, <1>3, <1>4, <1>5, <1>6, QuietStep DEF Starting, Answered

LEMMA LoseKeeps ==
  ASSUME Inv, NEW c \in Calls, Lose(c)
  PROVE  Inv'
<1>1. TypeOK /\ "lost" \in Awaiting \cup Over \cup Stretch
  BY DEF Inv, Over
<1>2. /\ call' \in [Calls -> CallState]
      /\ call'[c].pc = "lost"
      /\ \A d \in Calls : d # c => call'[d] = call[d]
  BY <1>1, Went DEF Lose
<1>3. TypeOK'
  BY <1>1, <1>2 DEF Lose, TypeOK
<1>4. OneAtATime'
  BY <1>2 DEF Inv, OneAtATime, Stretch
<1>5. /\ task' = task
      /\ Started' = Started /\ Rejected' = Rejected /\ Failed' = Failed
      /\ \A i \in DOMAIN log : log'[i] = log[i]
  BY NothingLogged DEF Lose
<1>. QED
  BY <1>2, <1>3, <1>4, <1>5, QuietStep DEF Starting, Answered

-----------------------------------------------------------------------------
(* The actions that change the task or record a start or a failure. *)
LEMMA RecordStartKeeps ==
  ASSUME Inv, NEW c \in Calls, RecordStart(c)
  PROVE  Inv'
<1>. DEFINE n == Len(log) + 1
<1>1. TypeOK /\ call[c].pc = "started" /\ task' = task
  BY DEF Inv, RecordStart, At
<1>2. /\ call' \in [Calls -> CallState]
      /\ call'[c].pc = "plugin"
      /\ \A d \in Calls : d # c => call'[d] = call[d]
  BY <1>1, Went DEF RecordStart, Awaiting
<1>3. /\ log' \in Seq(Entry)
      /\ \A i \in DOMAIN log : log'[i] = log[i]
      /\ log'[n] = Event("PLUGIN_EXECUTION_STARTED", c)
  BY <1>1, Appended DEF RecordStart, Kinds
<1>4. Started = {} /\ task # "CREATED"
  BY <1>1 DEF Inv, NotYetStarted, Starting
<1>5. Started' = {n} /\ Rejected' = Rejected /\ Failed' = Failed
  BY <1>1, <1>4, RecordedKinds DEF RecordStart, Kinds
<1>6. TypeOK'
  BY <1>1, <1>2, <1>3 DEF RecordStart, TypeOK
<1>7. /\ OneAtATime'
      /\ \A d \in Calls : d # c => call[d].pc \notin Stretch
  BY <1>1, <1>2, LoopIsFree DEF RecordStart, At
<1>8. \A i \in Rejected \cup Failed : i \in DOMAIN log /\ log[i].by \in Calls
  BY <1>1, Authors DEF Rejected, Failed, Logged
<1>9. \A d \in Calls : ~HasStarted(d)
  BY <1>4 DEF HasStarted
<1>10. NotYetStarted'
  BY <1>1, <1>2, <1>4, <1>7 DEF NotYetStarted, Starting, Stretch
<1>11. PluginRunsOnce'
  BY <1>5 DEF PluginRunsOnce, Started
<1>12. AnswersHaveStarts'
  <2>1. HasStarted(c)'
    BY <1>3, <1>5 DEF HasStarted, Event
  <2>2. Rejected' = {}
    BY <1>5, <1>8, <1>9 DEF Inv, AnswersHaveStarts
  <2>3. \A d \in Calls : d # c => call'[d].pc \notin Answered \cup {"reject"}
    BY <1>2, <1>7, <1>9 DEF Inv, AnswersHaveStarts, Stretch
  <2>. QED  BY <1>2, <2>1, <2>2, <2>3 DEF AnswersHaveStarts
<1>13. RejectsInTime'
  BY <1>1, <1>2 DEF Inv, RejectsInTime
<1>14. FailuresArrive'
  BY <1>1, <1>2, <1>3, <1>5, <1>8 DEF Inv, FailuresArrive
<1>15. CompletedCleanly'
  BY <1>1, <1>2, <1>3, <1>5, <1>8 DEF Inv, CompletedCleanly
<1>. QED
  BY <1>6, <1>7, <1>10, <1>11, <1>12, <1>13, <1>14, <1>15 DEF Inv

LEMMA RecordRejectionKeeps ==
  ASSUME Inv, NEW c \in Calls, RecordRejection(c)
  PROVE  Inv'
<1>. DEFINE n == Len(log) + 1
            type == call[c].event
<1>1. TypeOK /\ call[c].pc = "reject" /\ task' = task /\ task \notin Terminal
  BY DEF Inv, RecordRejection, At, RejectsInTime
<1>2. type \in {"PLUGIN_RESULT_REJECTED", "PLUGIN_EXECUTION_FAILED"}
  BY <1>1 DEF TypeOK, CallState
<1>3. /\ call' \in [Calls -> CallState]
      /\ call'[c].pc = "rejected"
      /\ \A d \in Calls : d # c => call'[d] = call[d]
  BY <1>1, Went DEF RecordRejection, Stretch
<1>4. Record(type, c) /\ type \in Kinds
  BY <1>2 DEF RecordRejection, Kinds
<1>5. /\ log' \in Seq(Entry)
      /\ \A i \in DOMAIN log : log'[i] = log[i]
      /\ log'[n] = Event(type, c)
  BY <1>1, <1>4, Appended
<1>6. /\ Started' = Started
      /\ Rejected' \subseteq Rejected \cup {n}
      /\ type # "PLUGIN_RESULT_REJECTED" => Rejected' = Rejected
      /\ Failed' \subseteq Failed \cup {n}
  BY <1>1, <1>2, <1>4, RecordedKinds
<1>7. TypeOK'
  BY <1>1, <1>3, <1>5 DEF RecordRejection, TypeOK
<1>8. /\ OneAtATime'
      /\ \A d \in Calls : d # c => call[d].pc \notin Stretch
  BY <1>1, <1>3, LoopIsFree DEF RecordRejection, At
<1>9. /\ \A i \in Started \cup Rejected \cup Failed : i \in DOMAIN log
      /\ \A i \in Rejected \cup Failed : log[i].by \in Calls
      /\ log'[n].by = c
  BY <1>1, <1>5, Authors DEF Started, Rejected, Failed, Logged, Event
<1>10. \A d \in Calls : HasStarted(d) => HasStarted(d)'
  BY <1>5, <1>6, <1>9 DEF HasStarted
<1>11. NotYetStarted'
  BY <1>1, <1>3, <1>6 DEF Inv, NotYetStarted, Starting
<1>12. PluginRunsOnce'
  BY <1>6 DEF Inv, PluginRunsOnce, Started
<1>13. AnswersHaveStarts'
  <2>1. \A d \in Calls : call'[d].pc \in Answered => HasStarted(d)'
    BY <1>3, <1>10 DEF Inv, AnswersHaveStarts, Answered
  <2>2. \A d \in Calls : call'[d].pc # "reject"
    BY <1>3, <1>8 DEF Stretch
  <2>3. type = "PLUGIN_RESULT_REJECTED" => HasStarted(c)'
    BY <1>1, <1>10 DEF Inv, AnswersHaveStarts
  <2>4. ASSUME NEW i \in Rejected' PROVE HasStarted(log[i].by)'
    <3>1. CASE i \in Rejected
      BY <1>5, <1>9, <1>10, <3>1 DEF Inv, AnswersHaveStarts
    <3>2. CASE i = n /\ i \notin Rejected
      <4>1. type = "PLUGIN_RESULT_REJECTED"
        BY <1>6, <3>2
      <4>2. HasStarted(c)'
        BY <2>3, <4>1
      <4>. QED  BY <1>9, <3>2, <4>2 DEF HasStarted
    <3>. QED  BY <1>6, <2>4, <3>1, <3>2
  <2>. QED  BY <2>1, <2>2, <2>4 DEF AnswersHaveStarts
<1>14. RejectsInTime'
  BY <1>1 DEF RejectsInTime
<1>15. FailuresArrive'
  <2>1. ASSUME NEW i \in Rejected \cup Failed
        PROVE  call'[log'[i].by].pc \in {"rejected", "lost"}
    <3>1. call[log[i].by].pc \in {"rejected", "lost"}
      BY <1>1 DEF Inv, FailuresArrive, Terminal
    <3>. QED  BY <1>3, <1>5, <1>9, <3>1
  <2>2. call'[log'[n].by].pc = "rejected"
    BY <1>3, <1>9
  <2>. QED  BY <1>6, <2>1, <2>2 DEF FailuresArrive
<1>16. CompletedCleanly'
  BY <1>1 DEF CompletedCleanly, Terminal
<1>. QED
  BY <1>7, <1>8, <1>11, <1>12, <1>13, <1>14, <1>15, <1>16 DEF Inv

(* What a change of the task's status leaves: no other call stands in a    *)
(* stretch, so nobody's reading of the status is out of date.              *)
LEMMA StatusStep ==
  ASSUME Inv, NEW c \in Calls, Alone(c), TypeOK', UNCHANGED log,
         NEW target \in Status, CanMove(task, target), task' = target,
         \A d \in Calls : d # c => call'[d] = call[d],
         call'[c].pc \in {"ASSIGNED", "RUNNING", "started"} => Started = {},
         call'[c].pc \in {"ASSIGNED", "RUNNING", "started"} \cup Over,
         call[c].pc \in {"rejected", "lost"} => target = "FAILED",
         CompletedCleanly'
  PROVE  Inv'
<1>1. TypeOK /\ task \notin Terminal /\ task' # "CREATED"
  BY Moves DEF Inv, TypeOK
<1>2. /\ OneAtATime'
      /\ \A d \in Calls : d # c => call[d].pc \notin Stretch
  BY <1>1, LoopIsFree
<1>3. /\ Started' = Started /\ Rejected' = Rejected /\ Failed' = Failed
      /\ \A i : log'[i] = log[i]
  BY SameLog
<1>4. \A i \in Rejected \cup Failed : log[i].by \in Calls
  BY <1>1, Authors DEF Rejected, Failed, Logged
<1>5. \A d \in Calls : HasStarted(d) => HasStarted(d)'
  BY <1>3 DEF HasStarted
<1>6. NotYetStarted'
  BY <1>1, <1>2, <1>3 DEF NotYetStarted, Starting, Stretch, Over
<1>7. PluginRunsOnce'
  BY <1>3 DEF Inv, PluginRunsOnce, Started
<1>8. AnswersHaveStarts'
  BY <1>3, <1>4, <1>5 DEF Inv, AnswersHaveStarts, Answered, Over
<1>9. RejectsInTime'
  BY <1>2 DEF RejectsInTime, Stretch, Over
<1>10. FailuresArrive'
  <2>1. \A i \in Rejected \cup Failed : call[log[i].by].pc \in {"rejected", "lost"}
    BY <1>1 DEF Inv, FailuresArrive, Terminal
  <2>. QED  BY <1>3, <1>4, <2>1 DEF FailuresArrive
<1>. QED  BY <1>2, <1>6, <1>7, <1>8, <1>9, <1>10 DEF Inv

LEMMA FailTaskKeeps ==
  ASSUME Inv, NEW c \in Calls, FailTask(c)
  PROVE  Inv'
<1>1. /\ TypeOK /\ Alone(c) /\ CanMove(task, "FAILED") /\ task' = "FAILED"
      /\ UNCHANGED log
  BY DEF Inv, FailTask, At
<1>2. /\ call' \in [Calls -> CallState]
      /\ call'[c].pc = "raised"
      /\ \A d \in Calls : d # c => call'[d] = call[d]
  BY <1>1, Went DEF FailTask, Over
<1>3. TypeOK' /\ "FAILED" \in Status
  BY <1>1, <1>2 DEF FailTask, TypeOK, Status
<1>4. CompletedCleanly'
  BY <1>1 DEF CompletedCleanly
<1>. QED  BY <1>1, <1>2, <1>3, <1>4, StatusStep DEF Over

LEMMA MoveKeeps ==
  ASSUME Inv, NEW c \in Calls, Move(c)
  PROVE  Inv'
<1>. DEFINE target == call[c].pc
            next == AfterMove[target]
<1>1. /\ TypeOK /\ Alone(c) /\ CanMove(task, target) /\ task' = target
      /\ UNCHANGED log
      /\ target \in {"QUEUED", "ASSIGNED", "RUNNING"}
      /\ To(c, next)
  BY DEF Inv, Move, AfterMove
<1>2. next \in {"ASSIGNED", "RUNNING", "started"}
  BY <1>1 DEF AfterMove
<1>3. /\ call' \in [Calls -> CallState]
      /\ call'[c].pc = next
      /\ \A d \in Calls : d # c => call'[d] = call[d]
  <2>1. next \in Awaiting \cup Over \cup Stretch
    BY <1>2 DEF Stretch
  <2>. HIDE DEF next
  <2>. QED  BY <1>1, <2>1, Went
<1>4. TypeOK' /\ target \in Status
  BY <1>1, <1>3 DEF Move, TypeOK, Status
<1>5. Started = {}
  BY <1>1 DEF Inv, NotYetStarted, Starting
<1>6. CompletedCleanly'
  BY <1>1 DEF CompletedCleanly
<1>. HIDE DEF next
<1>. QED  BY <1>1, <1>2, <1>3, <1>4, <1>5, <1>6, StatusStep

(* Who finishes has the only start.  A rejection on record would be its    *)
(* own, and a failure on record that is not lost would hold the loop.      *)
LEMMA FinishesCleanly ==
  ASSUME Inv, NEW c \in Calls, At(c, "finish"), task \notin Terminal
  PROVE  /\ Rejected = {}
         /\ \A i \in Failed : call[log[i].by].pc = "lost" /\ log[i].by # c
<1>1. TypeOK /\ call[c].pc = "finish" /\ Alone(c)
  BY DEF Inv, At
<1>2. \A i \in Rejected \cup Failed :
        log[i].by \in Calls /\ call[log[i].by].pc \in {"rejected", "lost"}
  BY <1>1, Authors DEF Inv, FailuresArrive, Terminal, Rejected, Failed, Logged
<1>3. \A d \in Calls : HasStarted(d) => d = c
  <2>1. HasStarted(c)
    BY <1>1 DEF Inv, AnswersHaveStarts, Answered
  <2>2. \A i, j \in Started : i = j
    BY DEF Inv, PluginRunsOnce, Started
  <2>. QED  BY <2>1, <2>2 DEF HasStarted
<1>4. Rejected = {}
  BY <1>1, <1>2, <1>3 DEF Inv, AnswersHaveStarts
<1>5. ASSUME NEW i \in Failed
      PROVE  call[log[i].by].pc = "lost" /\ log[i].by # c
  BY <1>1, <1>2 DEF Alone, Awaiting, Over
<1>. QED  BY <1>4, <1>5

LEMMA FinishKeeps ==
  ASSUME Inv, NEW c \in Calls, Finish(c)
  PROVE  Inv'
<1>. DEFINE target == call[c].result.status
<1>1. /\ TypeOK /\ At(c, "finish") /\ Alone(c) /\ call[c].pc = "finish"
      /\ UNCHANGED log
  BY DEF Inv, Finish, At
<1>2. target \in Status
  BY <1>1 DEF TypeOK, CallState, Result
<1>3. /\ call' \in [Calls -> CallState]
      /\ call'[c].pc \in {"returned", "raised"}
      /\ \A d \in Calls : d # c => call'[d] = call[d]
  BY <1>1, Went DEF Finish, Over
<1>4. TypeOK'
  BY <1>1, <1>2, <1>3 DEF Finish, TypeOK
<1>5. /\ Started' = Started /\ Rejected' = Rejected /\ Failed' = Failed
      /\ \A i : log'[i] = log[i]
  BY <1>1, SameLog
<1>6. CASE CanMove(task, target) /\ task' = target
  <2>1. task \notin Terminal
    BY <1>1, <1>2, <1>6, Moves DEF TypeOK
  <2>2. /\ Rejected = {}
        /\ \A i \in Failed : call[log[i].by].pc = "lost" /\ log[i].by # c
    BY <1>1, <2>1, FinishesCleanly
  <2>3. \A i \in Failed : log[i].by \in Calls
    BY <1>1, Authors DEF Failed, Logged
  <2>4. CompletedCleanly'
    BY <1>3, <1>5, <2>2, <2>3 DEF CompletedCleanly
  <2>. QED
    BY <1>1, <1>2, <1>3, <1>4, <1>6, <2>4, StatusStep DEF Over
<1>7. CASE task' = task
  <2>1. OneAtATime'
    BY <1>1, <1>3, LoopIsFree
  <2>. QED
    BY <1>1, <1>3, <1>4, <1>5, <1>7, <2>1, QuietStep DEF Starting, Answered
<1>. QED  BY <1>6, <1>7 DEF Finish

LEMMA StutterKeeps ==
  ASSUME Inv, UNCHANGED <<task, log, call>>, registry' \in {"none", "other", "accepts"}
  PROVE  Inv'
<1>1. /\ Started' = Started /\ Rejected' = Rejected /\ Failed' = Failed
      /\ \A i : log'[i] = log[i]
  BY SameLog
<1>2. \A d \in Calls : HasStarted(d) => HasStarted(d)'
  BY <1>1 DEF HasStarted
<1>3. TypeOK'
  BY DEF Inv, TypeOK
<1>4. \A i \in Rejected : log[i].by \in Calls
  BY Authors DEF Inv, Rejected, Logged
<1>5. AnswersHaveStarts'
  BY <1>1, <1>2, <1>4 DEF Inv, AnswersHaveStarts
<1>. QED
  BY <1>1, <1>3, <1>5
  DEF Inv, OneAtATime, NotYetStarted, PluginRunsOnce, RejectsInTime,
      FailuresArrive, CompletedCleanly, Started

LEMMA NextHolds == Inv /\ [Next]_vars => Inv'
<1>. SUFFICES ASSUME Inv, [Next]_vars PROVE Inv'
  OBVIOUS
<1>1. CASE Register
  BY <1>1, StutterKeeps DEF Register
<1>2. CASE UNCHANGED vars
  BY <1>2, StutterKeeps DEF vars, Inv, TypeOK
<1>3. ASSUME NEW c \in Calls,
             \/ Call(c) \/ HealthAnswers(c) \/ PluginAnswers(c) \/ GoesOn(c)
             \/ Lose(c)
      PROVE  Inv'
  BY <1>3, CallKeeps, HealthAnswersKeeps, PluginAnswersKeeps, LoseKeeps,
     RecordRejectionKeeps, FailTaskKeeps, CheckCreatedKeeps, MoveKeeps,
     RecordStartKeeps, ValidateKeeps, RegisterOutputKeeps,
     RecordAcceptanceKeeps, FinishKeeps
  DEF GoesOn
<1>. QED  BY <1>1, <1>2, <1>3 DEF Next

THEOREM AlwaysInv == Spec => []Inv
BY InitHolds, NextHolds, PTL DEF Spec

-----------------------------------------------------------------------------
(* Registry, status, log and calls stay in their types; the status of the  *)
(* task is one of the enumeration whatever a result has said.              *)
THEOREM TypeCorrect == Spec => []TypeOK
<1>1. Inv => TypeOK
  BY DEF Inv
<1>. QED  BY <1>1, AlwaysInv, PTL

(* However many calls of execute() there are for a task, one of them       *)
(* starts the plugin (_start reads the status again after the await).      *)
THEOREM OneStart == Spec => []PluginRunsOnce
<1>1. Inv => PluginRunsOnce
  BY DEF Inv
<1>. QED  BY <1>1, AlwaysInv, PTL

(* A task is not completed over a rejection on record, nor over a failure  *)
(* on record unless the call that recorded it is lost (_reject and         *)
(* execute() write event and status in two transactions).                  *)
THEOREM FailureStays == Spec => FailureOnRecordIsFinal
<1>1. Inv /\ Inv' /\ [Next]_vars =>
        [task' = "COMPLETED" =>
           /\ Logged("PLUGIN_RESULT_REJECTED") = {}
           /\ \A i \in Logged("PLUGIN_EXECUTION_FAILED") :
                call[log[i].by].pc = "lost"]_vars
  <2>. SUFFICES ASSUME Inv, Next, task' = "COMPLETED"
                PROVE  /\ Rejected = {}
                       /\ \A i \in Failed : call[log[i].by].pc = "lost"
    BY DEF Rejected, Failed
  <2>1. CASE task = "COMPLETED"
    BY <2>1 DEF Inv, CompletedCleanly
  <2>2. CASE task # "COMPLETED"
    <3>1. PICK c \in Calls : FailTask(c) \/ Move(c) \/ Finish(c)
      BY <2>2 DEF Next, Register, GoesOn, Call, HealthAnswers, PluginAnswers,
         RecordRejection, CheckCreated, RecordStart, Validate, RegisterOutput,
         RecordAcceptance, Lose
    <3>2. Finish(c) /\ CanMove(task, call[c].result.status)
      BY <2>2, <3>1 DEF FailTask, Move, AfterMove, Finish
    <3>3. At(c, "finish") /\ call[c].result.status = "COMPLETED"
      BY <2>2, <3>2 DEF Finish
    <3>4. task \notin Terminal
      BY <3>2, Moves DEF Inv, TypeOK
    <3>. QED  BY <3>3, <3>4, FinishesCleanly
  <2>. QED  BY <2>1, <2>2
<1>. QED  BY <1>1, AlwaysInv, PTL DEF Spec, FailureOnRecordIsFinal

-----------------------------------------------------------------------------
(* The record of every call, as far as the call has come. *)

NotStarted == {"idle", "health", "check"} \cup Starting

BookOf(c) ==
  LET s == call[c] IN
  /\ s.pc \in NotStarted => HasOnRecord(c, 0, 0, 0)
  /\ s.pc \in {"plugin", "validate"} => HasOnRecord(c, 1, 0, 0)
  /\ s.pc \in {"outputs", "accepted", "finish", "returned"} => Valid(s.result)
  /\ s.pc = "outputs" =>
       /\ s.left <= s.result.outputs
       /\ HasOnRecord(c, 1, s.result.outputs - s.left, 0)
  /\ s.pc = "accepted" => HasOnRecord(c, 1, s.result.outputs, 0)
  /\ s.pc \in {"finish", "returned"} => HasOnRecord(c, 1, s.result.outputs, 1)

(* Only a call that has returned completes the task. *)
CompletedByReturn ==
  task = "COMPLETED" =>
    \E c \in Calls : call[c].pc = "returned" /\ call[c].result.status = "COMPLETED"

BooksInv == (\A c \in Calls : BookOf(c)) /\ CompletedByReturn

(* The entries of a call are finitely many numbers. *)
LEMMA EntriesAreFinite ==
  ASSUME TypeOK, NEW c, NEW type
  PROVE  /\ IsFiniteSet(LoggedBy(c, type))
         /\ LoggedBy(c, type) \subseteq DOMAIN log
         /\ \A i \in DOMAIN log : i \in Nat /\ i <= Len(log)
<1>1. Len(log) \in Nat /\ DOMAIN log = 1..Len(log)
  BY DEF TypeOK
<1>2. IsFiniteSet(DOMAIN log)
  BY <1>1, FS_Interval
<1>3. LoggedBy(c, type) \subseteq DOMAIN log
  BY DEF LoggedBy, Logged
<1>. QED  BY <1>1, <1>2, <1>3, FS_Subset

(* What an append adds to the entries of the calls. *)
LEMMA AppendedBy ==
  ASSUME TypeOK, NEW type \in Kinds, NEW c \in Calls, Record(type, c),
         NEW d \in Calls, NEW kind \in Kinds
  PROVE  /\ d = c /\ kind = type =>
              LoggedBy(d, kind)' = LoggedBy(d, kind) \cup {Len(log) + 1}
         /\ ~(d = c /\ kind = type) => LoggedBy(d, kind)' = LoggedBy(d, kind)
         /\ {i \in DOMAIN log' : log'[i].by = d} =
              {i \in DOMAIN log : log[i].by = d}
                \cup (IF d = c THEN {Len(log) + 1} ELSE {})
<1>1. /\ DOMAIN log' = DOMAIN log \cup {Len(log) + 1}
      /\ Len(log) + 1 \notin DOMAIN log
      /\ \A i \in DOMAIN log : log'[i] = log[i]
      /\ log'[Len(log) + 1] = Event(type, c)
  BY Appended
<1>2. log'[Len(log) + 1].type = type /\ log'[Len(log) + 1].by = c
  BY <1>1 DEF Event
<1>3. LoggedBy(d, kind) = {i \in DOMAIN log : log[i].type = kind /\ log[i].by = d}
  BY DEF LoggedBy, Logged
<1>4. LoggedBy(d, kind)' =
        {i \in DOMAIN log' : log'[i].type = kind /\ log'[i].by = d}
  BY DEF LoggedBy, Logged
<1>5. d = c /\ kind = type =>
        LoggedBy(d, kind)' = LoggedBy(d, kind) \cup {Len(log) + 1}
  BY <1>1, <1>2, <1>3, <1>4
<1>6. ~(d = c /\ kind = type) => LoggedBy(d, kind)' = LoggedBy(d, kind)
  BY <1>1, <1>2, <1>3, <1>4
<1>7. {i \in DOMAIN log' : log'[i].by = d} =
        {i \in DOMAIN log : log[i].by = d}
          \cup (IF d = c THEN {Len(log) + 1} ELSE {})
  BY <1>1, <1>2
<1>. QED  BY <1>5, <1>6, <1>7

(* The record of another call stays, ... *)
LEMMA OthersKeepRecord ==
  ASSUME TypeOK, NEW c \in Calls, NEW d \in Calls, d # c,
         UNCHANGED log \/ \E type \in Kinds : Record(type, c),
         NEW n, NEW m, NEW k, HasOnRecord(d, n, m, k)
  PROVE  HasOnRecord(d, n, m, k)'
<1>1. CASE UNCHANGED log
  BY <1>1 DEF HasOnRecord, LoggedBy, Logged
<1>2. ASSUME NEW type \in Kinds, Record(type, c)
      PROVE  HasOnRecord(d, n, m, k)'
  <2>1. /\ \A kind \in Kinds : LoggedBy(d, kind)' = LoggedBy(d, kind)
        /\ {i \in DOMAIN log' : log'[i].by = d} = {i \in DOMAIN log : log[i].by = d}
    BY <1>2, AppendedBy
  <2>2. {"PLUGIN_EXECUTION_STARTED", "ARTIFACT_REGISTERED",
         "PLUGIN_RESULT_ACCEPTED"} \subseteq Kinds
    BY DEF Kinds
  <2>. QED  BY <2>1, <2>2 DEF HasOnRecord
<1>. QED  BY <1>1, <1>2

(* ... and that of the call itself grows in order. *)
LEMMA OwnRecordGrows ==
  ASSUME TypeOK, NEW c \in Calls, NEW n \in Nat, NEW m \in Nat,
         HasOnRecord(c, n, m, 0)
  PROVE  /\ m = 0 /\ Record("PLUGIN_EXECUTION_STARTED", c) =>
              HasOnRecord(c, n + 1, m, 0)'
         /\ Record("ARTIFACT_REGISTERED", c) => HasOnRecord(c, n, m + 1, 0)'
         /\ Record("PLUGIN_RESULT_ACCEPTED", c) => HasOnRecord(c, n, m, 1)'
<1>. DEFINE next == Len(log) + 1
            S == LoggedBy(c, "PLUGIN_EXECUTION_STARTED")
            O == LoggedBy(c, "ARTIFACT_REGISTERED")
            A == LoggedBy(c, "PLUGIN_RESULT_ACCEPTED")
            Own == {i \in DOMAIN log : log[i].by = c}
<1>1. /\ IsFiniteSet(S) /\ IsFiniteSet(O) /\ IsFiniteSet(A)
      /\ S \subseteq DOMAIN log /\ O \subseteq DOMAIN log /\ A \subseteq DOMAIN log
      /\ \A i \in DOMAIN log : i \in Nat /\ i < next
      /\ next \notin DOMAIN log
  <2>1. Len(log) \in Nat /\ \A i \in DOMAIN log : i \in Nat /\ i <= Len(log)
    BY EntriesAreFinite DEF TypeOK
  <2>. QED  BY <2>1, EntriesAreFinite
<1>2. /\ Cardinality(S) = n /\ Cardinality(O) = m /\ A = {}
      /\ Own = S \cup O /\ \A i \in S, j \in O : i < j
  <2>1. Cardinality(A) = 0
    BY DEF HasOnRecord
  <2>2. A = {}
    <3>. HIDE DEF A
    <3>. QED  BY <1>1, <2>1, FS_EmptySet
  <2>. QED  BY <2>2 DEF HasOnRecord
<1>3. /\ Cardinality(S \cup {next}) = n + 1 /\ Cardinality(O \cup {next}) = m + 1
      /\ Cardinality({next}) = 1 /\ Cardinality({}) = 0
      /\ m = 0 => O = {}
  <2>. HIDE DEF S, O, A, next
  <2>1. next \notin S /\ next \notin O
    BY <1>1
  <2>. QED  BY <1>1, <1>2, <2>1, FS_AddElement, FS_Singleton, FS_EmptySet
<1>4. {"PLUGIN_EXECUTION_STARTED", "ARTIFACT_REGISTERED",
       "PLUGIN_RESULT_ACCEPTED"} \subseteq Kinds
  BY DEF Kinds
<1>5. ASSUME NEW type \in Kinds, Record(type, c)
      PROVE  /\ S' = IF type = "PLUGIN_EXECUTION_STARTED" THEN S \cup {next} ELSE S
             /\ O' = IF type = "ARTIFACT_REGISTERED" THEN O \cup {next} ELSE O
             /\ A' = IF type = "PLUGIN_RESULT_ACCEPTED" THEN A \cup {next} ELSE A
             /\ Own' = Own \cup {next}
  BY <1>4, <1>5, AppendedBy
<1>6. ASSUME NEW p, NEW q, NEW r
      PROVE  HasOnRecord(c, p, q, r)' <=>
               /\ Cardinality(S') = p /\ Cardinality(O') = q /\ Cardinality(A') = r
               /\ Own' = S' \cup O' \cup A'
               /\ \A i \in S', j \in O' \cup A' : i < j
               /\ \A i \in O', j \in A' : i < j
  BY DEF HasOnRecord
<1>. HIDE DEF S, O, A, Own, next
<1>7. ASSUME m = 0, Record("PLUGIN_EXECUTION_STARTED", c)
      PROVE  HasOnRecord(c, n + 1, m, 0)'
  <2>1. S' = S \cup {next} /\ O' = O /\ A' = A /\ Own' = Own \cup {next}
    BY <1>4, <1>5, <1>7
  <2>. QED  BY <1>1, <1>2, <1>3, <1>6, <1>7, <2>1
<1>8. ASSUME Record("ARTIFACT_REGISTERED", c)
      PROVE  HasOnRecord(c, n, m + 1, 0)'
  <2>1. S' = S /\ O' = O \cup {next} /\ A' = A /\ Own' = Own \cup {next}
    BY <1>4, <1>5, <1>8
  <2>. QED  BY <1>1, <1>2, <1>3, <1>6, <2>1
<1>9. ASSUME Record("PLUGIN_RESULT_ACCEPTED", c)
      PROVE  HasOnRecord(c, n, m, 1)'
  <2>1. S' = S /\ O' = O /\ A' = {next} /\ Own' = Own \cup {next}
    BY <1>2, <1>4, <1>5, <1>9
  <2>. QED  BY <1>1, <1>2, <1>3, <1>6, <2>1
<1>. QED  BY <1>7, <1>8, <1>9

LEMMA SameRecord ==
  ASSUME UNCHANGED log, NEW c, NEW n, NEW m, NEW k
  PROVE  HasOnRecord(c, n, m, k)' <=> HasOnRecord(c, n, m, k)
BY DEF HasOnRecord, LoggedBy, Logged

(* What else To leaves of the call. *)
LEMMA WentWithResult ==
  ASSUME TypeOK, NEW c \in Calls, NEW pc, To(c, pc)
  PROVE  /\ call'[c].pc = pc
         /\ call'[c].result = call[c].result /\ call'[c].left = call[c].left
         /\ \A d \in Calls : d # c => call'[d] = call[d]
<1>1. call \in [Calls -> CallState] /\ call' = [call EXCEPT ![c].pc = pc]
  BY DEF TypeOK, To
<1>2. call' = [call EXCEPT ![c] = [call[c] EXCEPT !.pc = pc]]
  BY <1>1
<1>3. call'[c] = [call[c] EXCEPT !.pc = pc] /\ call[c] \in CallState
  BY <1>1, <1>2
<1>. QED  BY <1>1, <1>2, <1>3 DEF CallState

(* The books of the other calls. *)
LEMMA OthersKeepBook ==
  ASSUME TypeOK, NEW c \in Calls, NEW d \in Calls, d # c, BookOf(d),
         UNCHANGED log \/ \E type \in Kinds : Record(type, c),
         call'[d] = call[d]
  PROVE  BookOf(d)'
<1>1. \A n, m, k : HasOnRecord(d, n, m, k) => HasOnRecord(d, n, m, k)'
  BY OthersKeepRecord
<1>. QED  BY <1>1 DEF BookOf, Valid

(* A call acts on its own place and appends at most one entry. *)
LEMMA ActsOnItself ==
  ASSUME TypeOK, NEW c \in Calls,
         \/ Call(c) \/ HealthAnswers(c) \/ PluginAnswers(c) \/ GoesOn(c)
         \/ Lose(c)
  PROVE  /\ \A d \in Calls : d # c => call'[d] = call[d]
         /\ UNCHANGED log \/ \E type \in Kinds : Record(type, c)
<1>1. call \in [Calls -> CallState]
  BY DEF TypeOK
<1>2. \A d \in Calls : d # c => call'[d] = call[d]
  BY <1>1
  DEF Call, HealthAnswers, PluginAnswers, GoesOn, Lose, RecordRejection, FailTask,
      CheckCreated, Move, RecordStart, Validate, RegisterOutput,
      RecordAcceptance, Finish, To, Reject
<1>3. call[c].event \in Kinds
  BY <1>1 DEF CallState, Kinds
<1>4. {"PLUGIN_EXECUTION_STARTED", "ARTIFACT_REGISTERED",
       "PLUGIN_RESULT_ACCEPTED"} \subseteq Kinds
  BY DEF Kinds
<1>5. CASE RecordRejection(c)
  BY <1>2, <1>3, <1>5 DEF RecordRejection
<1>6. CASE RecordStart(c) \/ RegisterOutput(c) \/ RecordAcceptance(c)
  BY <1>2, <1>4, <1>6 DEF RecordStart, RegisterOutput, RecordAcceptance
<1>7. CASE \/ Call(c) \/ HealthAnswers(c) \/ PluginAnswers(c) \/ FailTask(c)
           \/ CheckCreated(c) \/ Move(c) \/ Validate(c) \/ Finish(c) \/ Lose(c)
  BY <1>2, <1>7 DEF Call, HealthAnswers, PluginAnswers, FailTask, CheckCreated,
     Move, Validate, Finish, Lose
<1>. QED  BY <1>5, <1>6, <1>7 DEF GoesOn

(* The book of a call that acts on its way to the plugin. *)
LEMMA BookBeforePlugin ==
  ASSUME Inv, NEW c \in Calls, BookOf(c),
         Call(c) \/ HealthAnswers(c) \/ CheckCreated(c) \/ Move(c) \/ RecordStart(c)
  PROVE  BookOf(c)'
<1>. USE DEF NotStarted, Starting
<1>1. TypeOK
  BY DEF Inv
<1>2. \A pc \in NotStarted :
        UNCHANGED log /\ HasOnRecord(c, 0, 0, 0) /\ To(c, pc) => BookOf(c)'
  BY <1>1, WentWithResult, SameRecord DEF BookOf
<1>3. \A pc : pc \in {"raised", "lost"} /\ To(c, pc) => BookOf(c)'
  BY <1>1, WentWithResult DEF BookOf
<1>4. CASE Call(c)
  <2>1. HasOnRecord(c, 0, 0, 0) /\ UNCHANGED log
    BY <1>4 DEF Call, At, BookOf
  <2>2. To(c, "health") \/ To(c, "raised")
    BY <1>4 DEF Call
  <2>. QED  BY <1>2, <1>3, <2>1, <2>2
<1>5. CASE HealthAnswers(c)
  <2>1. HasOnRecord(c, 0, 0, 0) /\ UNCHANGED log
    BY <1>5 DEF HealthAnswers, At, BookOf
  <2>2. CASE To(c, "check")
    BY <1>2, <2>1, <2>2
  <2>3. CASE Reject(c, "PLUGIN_EXECUTION_FAILED")
    <3>1. call'[c].pc \in {"raised", "reject"}
      BY <1>1, <2>3, WasRejected
    <3>. QED  BY <3>1 DEF BookOf
  <2>. QED  BY <1>5, <2>2, <2>3 DEF HealthAnswers
<1>6. CASE CheckCreated(c)
  <2>1. HasOnRecord(c, 0, 0, 0) /\ UNCHANGED log
    BY <1>6 DEF CheckCreated, At, BookOf
  <2>2. To(c, "QUEUED") \/ To(c, "raised")
    BY <1>6 DEF CheckCreated
  <2>. QED  BY <1>2, <1>3, <2>1, <2>2
<1>7. CASE Move(c)
  <2>1. call[c].pc \in {"QUEUED", "ASSIGNED", "RUNNING"} /\ UNCHANGED log
    BY <1>7 DEF Move, AfterMove
  <2>2. HasOnRecord(c, 0, 0, 0)
    BY <2>1 DEF BookOf
  <2>3. To(c, "ASSIGNED") \/ To(c, "RUNNING") \/ To(c, "started")
    BY <1>7, <2>1 DEF Move, AfterMove
  <2>. QED  BY <1>2, <2>1, <2>2, <2>3
<1>8. CASE RecordStart(c)
  <2>1. /\ HasOnRecord(c, 0, 0, 0) /\ To(c, "plugin")
        /\ Record("PLUGIN_EXECUTION_STARTED", c)
    BY <1>8 DEF RecordStart, At, BookOf
  <2>2. HasOnRecord(c, 0 + 1, 0, 0)'
    BY <1>1, <2>1, OwnRecordGrows
  <2>3. HasOnRecord(c, 1, 0, 0)'
    BY <2>2
  <2>4. call'[c].pc = "plugin"
    BY <1>1, <2>1, WentWithResult
  <2>. QED  BY <2>3, <2>4 DEF BookOf
<1>. QED  BY <1>4, <1>5, <1>6, <1>7, <1>8

(* ... and of one that acts on the answer. *)
LEMMA BookAfterPlugin ==
  ASSUME Inv, NEW c \in Calls, BookOf(c),
         \/ PluginAnswers(c) \/ Validate(c) \/ RegisterOutput(c)
         \/ RecordAcceptance(c) \/ Finish(c)
  PROVE  BookOf(c)'
<1>. USE DEF NotStarted, Starting
<1>1. TypeOK /\ call \in [Calls -> CallState] /\ call[c] \in CallState
  BY DEF Inv, TypeOK
<1>2. call[c].result.outputs \in Nat /\ call[c].left \in Nat
  <2>1. call[c].result \in Result /\ call[c].left \in 0..MaxOutputs
    BY <1>1 DEF CallState
  <2>. QED  BY <2>1, OutputsAreNatural DEF Result
<1>3. \A reason \in {"PLUGIN_EXECUTION_FAILED", "PLUGIN_RESULT_REJECTED"} :
        Reject(c, reason) => BookOf(c)'
  <2>1. ASSUME NEW reason \in {"PLUGIN_EXECUTION_FAILED", "PLUGIN_RESULT_REJECTED"},
               Reject(c, reason)
        PROVE  BookOf(c)'
    <3>1. call'[c].pc \in {"raised", "reject"}
      BY <1>1, <2>1, WasRejected
    <3>. QED  BY <3>1 DEF BookOf
  <2>. QED  BY <2>1
<1>4. CASE PluginAnswers(c)
  <2>1. HasOnRecord(c, 1, 0, 0)'
    BY <1>4, SameRecord DEF PluginAnswers, At, BookOf
  <2>2. CASE \E r \in Result :
               call' = [call EXCEPT ![c].pc = "validate", ![c].result = r]
    <3>1. call'[c].pc = "validate"
      BY <1>1, <2>2 DEF CallState
    <3>. QED  BY <2>1, <3>1 DEF BookOf
  <2>. QED  BY <1>3, <1>4, <2>2 DEF PluginAnswers
<1>5. CASE Validate(c)
  <2>1. HasOnRecord(c, 1, 0, 0)'
    BY <1>5, SameRecord DEF Validate, At, BookOf
  <2>2. CASE Valid(call[c].result)
    <3>1. call' = [call EXCEPT ![c] = [call[c] EXCEPT !.pc = "outputs",
                                          !.left = call[c].result.outputs]]
      BY <1>1, <1>5, <2>2 DEF Validate
    <3>2. /\ call'[c].pc = "outputs" /\ call'[c].result = call[c].result
          /\ call'[c].left = call[c].result.outputs
      BY <1>1, <3>1 DEF CallState
    <3>3. Valid(call[c].result)' /\ call'[c].left <= call'[c].result.outputs
      BY <1>2, <2>2, <3>2 DEF Valid
    <3>4. HasOnRecord(c, 1, call[c].result.outputs - call[c].left, 0)'
      BY <1>2, <2>1, <3>2
    <3>. QED  BY <3>2, <3>3, <3>4 DEF BookOf
  <2>. QED  BY <1>3, <1>5, <2>2 DEF Validate
<1>6. CASE RegisterOutput(c)
  <2>. PICK m \in Int : m = call[c].result.outputs - call[c].left
    BY <1>2
  <2>1. /\ Valid(call[c].result) /\ call[c].left <= call[c].result.outputs
        /\ HasOnRecord(c, 1, m, 0)
        /\ m \in Nat
    BY <1>2, <1>6 DEF RegisterOutput, At, BookOf
  <2>2. CASE /\ call[c].left > 0
             /\ Record("ARTIFACT_REGISTERED", c)
             /\ call' = [call EXCEPT ![c].left = @ - 1]
    <3>1. call' = [call EXCEPT ![c] = [call[c] EXCEPT !.left = call[c].left - 1]]
      BY <1>1, <2>2
    <3>2. /\ call'[c].pc = "outputs" /\ call'[c].result = call[c].result
          /\ call'[c].left = call[c].left - 1
      BY <1>1, <1>6, <3>1 DEF CallState, RegisterOutput, At
    <3>3. HasOnRecord(c, 1, m + 1, 0)'
      BY <1>1, <2>1, <2>2, OwnRecordGrows
    <3>4. call'[c].result.outputs - call'[c].left = m + 1
      BY <1>2, <3>2
    <3>5. HasOnRecord(c, 1, call[c].result.outputs - call[c].left, 0)'
      BY <3>3, <3>4
    <3>6. Valid(call[c].result)' /\ call'[c].left <= call'[c].result.outputs
      BY <1>2, <2>1, <3>2 DEF Valid
    <3>. QED  BY <3>2, <3>5, <3>6 DEF BookOf
  <2>3. CASE call[c].left = 0 /\ To(c, "accepted") /\ UNCHANGED log
    <3>1. call'[c].pc = "accepted" /\ call'[c].result = call[c].result
      BY <1>1, <2>3, WentWithResult
    <3>2. HasOnRecord(c, 1, call[c].result.outputs, 0)
      BY <1>2, <2>1, <2>3
    <3>3. HasOnRecord(c, 1, call[c].result.outputs, 0)'
      BY <2>3, <3>1, <3>2, SameRecord
    <3>4. Valid(call[c].result)'
      BY <2>1, <3>1 DEF Valid
    <3>. QED  BY <3>1, <3>3, <3>4 DEF BookOf
  <2>. QED  BY <1>6, <2>2, <2>3 DEF RegisterOutput
<1>7. CASE RecordAcceptance(c)
  <2>. PICK m \in Nat : m = call[c].result.outputs
    BY <1>2
  <2>1. /\ Valid(call[c].result) /\ HasOnRecord(c, 1, m, 0)
        /\ To(c, "finish") /\ Record("PLUGIN_RESULT_ACCEPTED", c)
    BY <1>7 DEF RecordAcceptance, At, BookOf
  <2>2. call'[c].pc = "finish" /\ call'[c].result = call[c].result
    BY <1>1, <2>1, WentWithResult
  <2>3. HasOnRecord(c, 1, m, 1)'
    BY <1>1, <2>1, OwnRecordGrows
  <2>4. Valid(call[c].result)' /\ HasOnRecord(c, 1, call[c].result.outputs, 1)'
    BY <2>1, <2>2, <2>3 DEF Valid
  <2>. QED  BY <2>2, <2>4 DEF BookOf
<1>8. CASE Finish(c)
  <2>1. /\ Valid(call[c].result) /\ HasOnRecord(c, 1, call[c].result.outputs, 1)
        /\ UNCHANGED log
    BY <1>8 DEF Finish, At, BookOf
  <2>2. call'[c].pc \in {"returned", "raised"} /\ call'[c].result = call[c].result
    BY <1>1, <1>8, WentWithResult DEF Finish
  <2>3. HasOnRecord(c, 1, call[c].result.outputs, 1)'
    BY <2>1, <2>2, SameRecord
  <2>4. Valid(call[c].result)'
    BY <2>1, <2>2 DEF Valid
  <2>. QED  BY <2>2, <2>3, <2>4 DEF BookOf
<1>. QED  BY <1>4, <1>5, <1>6, <1>7, <1>8

(* Only a call that finishes completes the task, and it returns. *)
LEMMA CompletedByReturnStep ==
  ASSUME Inv, CompletedByReturn, [Next]_vars
  PROVE  CompletedByReturn'
<1>1. TypeOK
  BY DEF Inv
<1>2. ASSUME NEW c \in Calls,
             \/ Call(c) \/ HealthAnswers(c) \/ PluginAnswers(c) \/ GoesOn(c)
             \/ Lose(c),
             UNCHANGED task
      PROVE  CompletedByReturn'
  <2>1. \A d \in Calls : d # c => call'[d] = call[d]
    BY <1>1, <1>2, ActsOnItself
  <2>2. call[c].pc # "returned"
    BY <1>2 DEF Call, HealthAnswers, PluginAnswers, GoesOn, Lose, RecordRejection,
       FailTask, CheckCreated, Move, AfterMove, RecordStart, Validate,
       RegisterOutput, RecordAcceptance, Finish, At, Over
  <2>. QED  BY <1>2, <2>1, <2>2 DEF CompletedByReturn
<1>3. ASSUME NEW c \in Calls, Finish(c), task' = call[c].result.status,
             To(c, "returned")
      PROVE  CompletedByReturn'
  <2>1. call'[c].pc = "returned" /\ call'[c].result = call[c].result
    BY <1>1, <1>3, WentWithResult
  <2>. QED  BY <1>3, <2>1 DEF CompletedByReturn
<1>4. ASSUME NEW c \in Calls, FailTask(c) \/ Move(c)
      PROVE  CompletedByReturn'
  BY <1>4 DEF FailTask, Move, AfterMove, CompletedByReturn
<1>5. CASE UNCHANGED <<task, call>>
  BY <1>5 DEF CompletedByReturn
<1>6. ASSUME NEW c \in Calls,
             \/ Call(c) \/ HealthAnswers(c) \/ PluginAnswers(c) \/ GoesOn(c)
             \/ Lose(c)
      PROVE  CompletedByReturn'
  <2>1. CASE UNCHANGED task
    BY <1>2, <1>6, <2>1
  <2>2. CASE Finish(c)
    BY <1>2, <1>3, <1>6, <2>2 DEF Finish
  <2>3. CASE FailTask(c) \/ Move(c)
    BY <1>4, <2>3
  <2>. QED
    BY <1>6, <2>1, <2>2, <2>3
    DEF Call, HealthAnswers, PluginAnswers, GoesOn, Lose, RecordRejection,
        CheckCreated, RecordStart, Validate, RegisterOutput, RecordAcceptance
<1>. QED  BY <1>5, <1>6 DEF Next, Register, vars

LEMMA BooksInit == Init => BooksInv
<1>. SUFFICES ASSUME Init PROVE BooksInv
  OBVIOUS
<1>1. ASSUME NEW c \in Calls PROVE BookOf(c)
  <2>1. call[c].pc = "idle" /\ DOMAIN log = {}
    BY DEF Init
  <2>2. HasOnRecord(c, 0, 0, 0)
    <3>1. \A type : LoggedBy(c, type) = {}
      BY <2>1 DEF LoggedBy, Logged
    <3>. QED  BY <2>1, <3>1, FS_EmptySet DEF HasOnRecord
  <2>. QED  BY <2>1, <2>2 DEF BookOf, NotStarted, Starting
<1>. QED  BY <1>1 DEF Init, BooksInv, CompletedByReturn

LEMMA BooksStep == Inv /\ BooksInv /\ [Next]_vars => BooksInv'
<1>. SUFFICES ASSUME Inv, BooksInv, [Next]_vars PROVE BooksInv'
  OBVIOUS
<1>1. CompletedByReturn'
  BY CompletedByReturnStep DEF BooksInv
<1>2. TypeOK /\ \A d \in Calls : BookOf(d)
  BY DEF Inv, BooksInv
<1>3. CASE UNCHANGED <<log, call>>
  <2>1. \A d \in Calls : BookOf(d)'
    BY <1>2, <1>3, SameRecord DEF BookOf, Valid
  <2>. QED  BY <1>1, <2>1 DEF BooksInv
<1>4. ASSUME NEW c \in Calls,
             \/ Call(c) \/ HealthAnswers(c) \/ PluginAnswers(c) \/ GoesOn(c)
             \/ Lose(c)
      PROVE  \A d \in Calls : BookOf(d)'
  <2>1. \A d \in Calls : d # c => BookOf(d)'
    BY <1>2, <1>4, ActsOnItself, OthersKeepBook
  <2>2. CASE Lose(c) \/ FailTask(c) \/ RecordRejection(c)
    <3>1. call'[c].pc \in {"lost", "raised", "rejected"}
      BY <1>2, <2>2, WentWithResult DEF Lose, FailTask, RecordRejection
    <3>2. BookOf(c)'
      BY <3>1 DEF BookOf, NotStarted, Starting
    <3>. QED  BY <2>1, <3>2
  <2>3. CASE \/ Call(c) \/ HealthAnswers(c) \/ CheckCreated(c) \/ Move(c)
             \/ RecordStart(c)
    BY <1>2, <2>1, <2>3, BookBeforePlugin
  <2>4. CASE \/ PluginAnswers(c) \/ Validate(c) \/ RegisterOutput(c)
             \/ RecordAcceptance(c) \/ Finish(c)
    BY <1>2, <2>1, <2>4, BookAfterPlugin
  <2>. QED  BY <1>4, <2>2, <2>3, <2>4 DEF GoesOn
<1>. QED  BY <1>1, <1>3, <1>4 DEF BooksInv, Next, Register, vars

(* Whatever calls there are, lose and overtake each other: a task that is  *)
(* COMPLETED has the start, all the outputs and the acceptance of one call *)
(* on record, in this order, and that call's result meets the contract     *)
(* (execute() registers and records before it moves the task).             *)
THEOREM CompletionsAreBacked == Spec => []CompletionIsBacked
<1>1. Inv /\ BooksInv => CompletionIsBacked
  <2>. SUFFICES ASSUME Inv, BooksInv, task = "COMPLETED"
                PROVE  \E c \in Calls, n \in 0..MaxOutputs :
                  /\ call[c].result =
                       [contract |-> TRUE, status |-> "COMPLETED", outputs |-> n]
                  /\ HasOnRecord(c, 1, n, 1)
    BY DEF CompletionIsBacked
  <2>1. PICK c \in Calls :
          call[c].pc = "returned" /\ call[c].result.status = "COMPLETED"
    BY DEF BooksInv, CompletedByReturn
  <2>2. Valid(call[c].result) /\ HasOnRecord(c, 1, call[c].result.outputs, 1)
    BY <2>1 DEF BooksInv, BookOf
  <2>3. call[c].result \in Result
    BY DEF Inv, TypeOK, CallState
  <2>4. /\ call[c].result.outputs \in 0..MaxOutputs
        /\ call[c].result = [contract |-> TRUE, status |-> "COMPLETED",
                             outputs |-> call[c].result.outputs]
    BY <2>1, <2>2, <2>3 DEF Valid, Result
  <2>. QED  BY <2>2, <2>4
<1>. QED  BY <1>1, BooksInit, BooksStep, AlwaysInv, PTL DEF Spec

=============================================================================
