----------------------- MODULE ChannelExecutionProofs -----------------------
(***************************************************************************)
(* Theorems about ChannelExecution, for every set of bridges and channels. *)
(***************************************************************************)
EXTENDS ChannelExecution, TLAPS

(* The bridges that have claimed the request and are still at work. *)
Claimers == {"claimed", "writing", "waiting"}

(* The channel is awaited, or its end is. *)
Calling == {"channel", "ending"}

(* The channel was called once if there is a response, else never. *)
CallsAreCounted ==
  /\ run.response.to = Nobody => run.response = NoResponse /\ run.calls = 0
  /\ run.response.to # Nobody => run.calls = 1
  /\ run.pc \in Calling \cup Booking => run.response.to # Nobody

(* Until its claim file is unlinked, a run serves one bridge: it holds the *)
(* claim, the request on file is its own, and so is the response.          *)
OneBridgeIsServed ==
  run.pc # "ended" =>
    /\ \A b, c \in Bridges :
         bridge[b] \in Claimers /\ bridge[c] \in Claimers => b = c
    /\ \A b \in Bridges : bridge[b] \in Claimers =>
         /\ files.claim
         /\ files.request \in {Nobody, b}
         /\ run.response.to \in {Nobody, b}
    /\ ~files.claim => files.request = Nobody /\ run.response.to = Nobody
    /\ files.request # Nobody => run.response.to \in {Nobody, files.request}

(* The kinds of record made before the step that run.pc names. *)
Before(pc) ==
  CASE pc = "cost" -> {"artifact"}
    [] pc = "learning" -> {"artifact", "cost"}
    [] pc = "event" -> {"artifact", "cost", "learning"}
    [] pc \in {"publish", "poll"} -> Kinds
    [] OTHER -> {}

(* The records of a response are made in order, while the task is RUNNING. *)
BookingInOrder ==
  /\ run.pc \in Calling \cup Booking \cup {"poll"} =>
       Booked = IF run.response.to = Nobody \/ run.pc \in Calling THEN {}
                ELSE Due(run.response.success) \cap Before(run.pc)
  /\ run.pc = "artifact" => run.response.success
  /\ run.pc \in Booking => task = "RUNNING"

(* What can be seen of a response is the response of the run, booked, and  *)
(* gone from the files before the claim is.                                *)
SeenIsBooked(r) ==
  r # NoResponse =>
    /\ r = run.response
    /\ run.pc \notin Calling \cup Booking
    /\ Booked = Due(run.response.success)

PublishedIsBooked ==
  /\ SeenIsBooked(files.response)
  /\ \A b \in Bridges : SeenIsBooked(answer[b])
  /\ run.pc = "ended" \/ (run.pc = "unlink" /\ run.file = "claim")
       => files.response = NoResponse

(* A result is there from the unlinks on. *)
ResultIsLate ==
  run.result \notin {"none", "raised"} =>
    /\ run.pc \in {"unlink", "ended", "crashed"}
    /\ run.result = "COMPLETED" =>
         /\ run.calls = 1
         /\ run.response.success
         /\ Booked = Kinds

Inv ==
  /\ TypeOK
  /\ CallsAreCounted
  /\ OneBridgeIsServed
  /\ BookingInOrder
  /\ PublishedIsBooked
  /\ ResultIsLate
  /\ AnswerIsForItsAsker

-----------------------------------------------------------------------------
(* What the fields of a run are good for. *)
LEMMA RunFields ==
  ASSUME NEW r \in Run
  PROVE  /\ r.file \in Unlinking
         /\ r.response \in Response
         /\ r.calls \in Nat
         /\ r.calls + 1 \in Nat
         /\ \A s \in BOOLEAN : [r.response EXCEPT !.success = s] \in Response
<1>1. /\ r.file \in Unlinking
      /\ r.response \in Response
      /\ r.calls \in Nat
  BY DEF Run
<1>2. \A s \in BOOLEAN : [r.response EXCEPT !.success = s] \in Response
  BY <1>1 DEF Response
<1>3. QED
  BY <1>1, <1>2

LEMMA ResponseIsTyped ==
  /\ NoResponse \in Response
  /\ \A b \in Bridges \cup {Nobody}, s \in BOOLEAN : [to |-> b, success |-> s] \in Response
BY DEF NoResponse, Response

(* How a call goes on once its await is over, and how a run gives up. *)
LEMMA ReturnForm ==
  ASSUME ChannelReturns \/ ChannelIsNotEnded
  PROVE  /\ run.pc \in Calling
         /\ UNCHANGED <<task, bridge, answer, files, ledger>>
         /\ \/ Fail
            \/ /\ task = "RUNNING"
               /\ \E success \in BOOLEAN :
                    run' = [run EXCEPT !.pc = FirstRecord(success),
                                       !.response.success = success]
<1>1. ASSUME ChannelReturns
      PROVE  /\ run.pc \in Calling
             /\ UNCHANGED <<task, bridge, answer, files, ledger>>
             /\ Take(chan.state = "succeeded")
  BY <1>1 DEF ChannelReturns, Calling
<1>2. ASSUME ChannelIsNotEnded
      PROVE  /\ run.pc \in Calling
             /\ UNCHANGED <<task, bridge, answer, files, ledger>>
             /\ Take(FALSE) \/ Fail
  BY <1>2 DEF ChannelIsNotEnded, Calling
<1>3. ASSUME NEW success \in BOOLEAN, Take(success)
      PROVE  \/ Fail
             \/ /\ task = "RUNNING"
                /\ run' = [run EXCEPT !.pc = FirstRecord(success),
                                      !.response.success = success]
  BY <1>3 DEF Take
<1>4. QED
  BY <1>1, <1>2, <1>3

GivesUp == PollFindsStop \/ TimesOut \/ ChannelIsEnded \/ Abort \/ Raise

LEMMA GivingUpForm ==
  ASSUME TypeOK, GivesUp
  PROVE  /\ run.pc \in Awaiting
         /\ run'.pc \in {"ending", "aborting", "gathering", "unlink"}
         /\ run'.pc = "ending" => run.pc = "channel"
         /\ run'.pc = "unlink" => run'.file = "context"
         /\ run'.response = run.response
         /\ run'.calls = run.calls
         /\ run'.result \in {run.result, "raised"}
         /\ UNCHANGED <<task, answer, files, ledger>>
         /\ \A b \in Bridges : bridge'[b] \in Claimers => bridge[b] \in Claimers
<1>0. run \in Run /\ bridge \in [Bridges -> BridgeState]
  BY DEF TypeOK
<1>1. CASE PollFindsStop
  BY <1>0, <1>1 DEF PollFindsStop, Fail, Run, Awaiting
<1>2. CASE TimesOut
  BY <1>0, <1>2 DEF TimesOut, Run, Awaiting
<1>3. CASE ChannelIsEnded
  BY <1>0, <1>3 DEF ChannelIsEnded, Fail, Run, Awaiting
<1>4. CASE Abort
  <2>1. \A b \in Bridges : bridge'[b] \in Claimers => bridge[b] \in Claimers
    BY <1>0, <1>4 DEF Abort, KillTree, Claimers
  <2>2. QED
    BY <1>0, <1>4, <2>1 DEF Abort, GoTo, Run, Awaiting
<1>5. CASE Raise
  BY <1>0, <1>5 DEF Raise, StartUnlink, Run, Awaiting
<1>6. QED
  BY <1>1, <1>2, <1>3, <1>4, <1>5 DEF GivesUp

LEMMA TypeInit == Init => TypeOK
<1> SUFFICES ASSUME Init PROVE TypeOK
  OBVIOUS
<1>1. route \in Route /\ task \in {"RUNNING", "moved"}
  BY DEF Init, Routes
<1>2. bridge \in [Bridges -> BridgeState] /\ answer \in [Bridges -> Response]
  BY ResponseIsTyped DEF Init, BridgeState
<1>3. files \in Files
  BY ResponseIsTyped DEF Init, Files
<1>4. run \in Run
  BY ResponseIsTyped DEF Init, Run, Unlinking, Awaiting
<1>5. plugin \in Plugin /\ chan \in Channel /\ ledger \in [Kinds -> Channels \cup {Nobody}]
  BY DEF Init, Plugin, Channel, NoChannel
<1>6. QED
  BY <1>1, <1>2, <1>3, <1>4, <1>5 DEF TypeOK

(* Killing the plugin's tree leaves plugin and bridges well typed. *)
LEMMA KillIsTyped ==
  ASSUME TypeOK, KillTree
  PROVE  plugin' \in Plugin /\ bridge' \in [Bridges -> BridgeState]
BY DEF TypeOK, KillTree, Plugin, BridgeState

LEMMA TypeStep == TypeOK /\ [Next]_vars => TypeOK'
<1> SUFFICES ASSUME TypeOK, [Next]_vars PROVE TypeOK'
  OBVIOUS
<1> USE DEF TypeOK
<1>1. ASSUME NEW b \in Bridges, NEW to \in BridgeState, Go(b, to)
      PROVE  bridge' \in [Bridges -> BridgeState]
  BY <1>1 DEF Go
<1>2. ASSUME NEW b \in Bridges, Begin(b) \/ ReadRequest(b) \/ GiveUp(b) \/ Die(b)
      PROVE  TypeOK'
  BY <1>1, <1>2 DEF Begin, ReadRequest, GiveUp, Die, BridgeState
<1>3. ASSUME NEW b \in Bridges, Claim(b) \/ WritePending(b) \/ PublishRequest(b)
      PROVE  TypeOK'
  <2>1. bridge' \in [Bridges -> BridgeState]
    BY <1>1, <1>3 DEF Claim, WritePending, PublishRequest, BridgeState
  <2>2. files' \in Files
    BY <1>3 DEF Claim, WritePending, PublishRequest, Files
  <2>3. QED
    BY <1>3, <2>1, <2>2 DEF Claim, WritePending, PublishRequest
<1>4. ASSUME NEW b \in Bridges, ReadResponse(b) PROVE TypeOK'
  BY <1>1, <1>4 DEF ReadResponse, BridgeState, Files
<1>5. CASE PluginExits \/ PipesClose
  BY <1>5 DEF PluginExits, PipesClose, Plugin
<1>6. CASE Dispatch
  <2>1. [to |-> files.request, success |-> FALSE] \in Response
    BY ResponseIsTyped DEF Files
  <2>2. run' \in Run
    BY <1>6, <2>1, RunFields DEF Dispatch, Fail, MayCall, Run, Awaiting
  <2>3. chan' \in Channel
    BY <1>6 DEF Dispatch, Channel, Route
  <2>4. QED
    BY <1>6, <2>2, <2>3 DEF Dispatch
<1>7. CASE ChannelReturns \/ ChannelIsNotEnded
  <2>1. \A success \in BOOLEAN : FirstRecord(success) \in Booking
    BY DEF FirstRecord, Booking
  <2>2. run' \in Run
    <3>1. CASE Fail
      BY <3>1 DEF Fail, Run, Awaiting
    <3>2. CASE ~Fail
      <4>1. PICK success \in BOOLEAN :
              run' = [run EXCEPT !.pc = FirstRecord(success),
                                 !.response.success = success]
        BY <1>7, <3>2, ReturnForm
      <4>2. [run.response EXCEPT !.success = success] \in Response
        BY RunFields
      <4>3. FirstRecord(success) \in Booking
        BY <2>1
      <4>4. QED
        BY <4>1, <4>2, <4>3 DEF Run
    <3>3. QED
      BY <3>1, <3>2
  <2>3. QED
    BY <1>7, <2>2 DEF ChannelReturns, ChannelIsNotEnded, Channel
<1>8. CASE Book
  <2>1. NextStep[run.pc] \in Booking /\ run.pc \in Kinds
    BY <1>8 DEF Book, NextStep, Booking, Kinds
  <2>2. run' \in Run
    BY <1>8, <2>1 DEF Book, Fail, GoTo, Run, Awaiting
  <2>3. ledger' \in [Kinds -> Channels \cup {Nobody}]
    BY <1>8, <2>1 DEF Book, Route
  <2>4. QED
    BY <1>8, <2>2, <2>3 DEF Book
<1>9. CASE PublishResponse
  <2>1. run' \in Run
    BY <1>9 DEF PublishResponse, GoTo, Fail, Run, Awaiting
  <2>2. files' \in Files
    BY <1>9, RunFields DEF PublishResponse, Files
  <2>3. QED
    BY <1>9, <2>1, <2>2 DEF PublishResponse
<1>10. CASE PollFindsExit
  <2>1. run' \in Run
    BY <1>10 DEF PollFindsExit, StartUnlink, Fail, Accepts, Unlinking, Run, Awaiting
  <2>2. QED
    BY <1>10, <2>1 DEF PollFindsExit
<1>11. CASE PollFindsStop \/ TimesOut \/ ChannelIsEnded
  <2>1. run' \in Run
    BY <1>11 DEF PollFindsStop, TimesOut, ChannelIsEnded, Fail, Run, Awaiting
  <2>2. chan' \in Channel
    BY <1>11 DEF PollFindsStop, TimesOut, ChannelIsEnded, Channel
  <2>3. QED
    BY <1>11, <2>1, <2>2 DEF PollFindsStop, TimesOut, ChannelIsEnded
<1>12. CASE Abort \/ Raise
  <2>1. run' \in Run
    BY <1>12 DEF Abort, Raise, GoTo, StartUnlink, Unlinking, Run, Awaiting
  <2>2. QED
    BY <1>12, <2>1, KillIsTyped DEF Abort, Raise
<1>13. CASE Unlink
  <2>1. NextFile[run.file] \in Unlinking \cup {"ended"}
    BY RunFields DEF NextFile, Unlinking
  <2>2. run' \in Run
    BY <1>13, <2>1 DEF Unlink, Run
  <2>3. files' \in Files
    BY <1>13, RunFields, ResponseIsTyped DEF Unlink, Without, Unlinking, Files
  <2>4. QED
    BY <1>13, <2>2, <2>3 DEF Unlink
<1>14. CASE ChannelStarts \/ ChannelEnds
  BY <1>14 DEF ChannelStarts, ChannelEnds, Channel
<1>15. CASE Stop
  <2>1. run' \in Run
    BY <1>15 DEF Stop, AskToStop, StopKills, Run
  <2>2. chan' \in Channel
    BY <1>15 DEF Stop, AskToStop, StopKills, Channel
  <2>3. QED
    BY <1>15, <2>1, <2>2, KillIsTyped DEF Stop, AskToStop, StopKills
<1>16. CASE TaskMoves \/ Crash
  BY <1>16 DEF TaskMoves, Crash, Run
<1>17. CASE UNCHANGED vars
  BY <1>17 DEF vars
<1>18. QED
  BY <1>2, <1>3, <1>4, <1>5, <1>6, <1>7, <1>8, <1>9, <1>10, <1>11, <1>12,
     <1>13, <1>14, <1>15, <1>16, <1>17
     DEF Next, BridgeStep, ServiceStep, ChannelStep

(* Whatever happens, the transport directory, the run and the records hold *)
(* what their types say.                                                   *)
THEOREM TypeCorrect == Spec => []TypeOK
<1>1. QED
  BY TypeInit, TypeStep, PTL DEF Spec

-----------------------------------------------------------------------------
(* The steps that change the run. *)
LEMMA RunSteps ==
  ASSUME [Next]_vars
  PROVE  \/ UNCHANGED run
         \/ ServiceStep \/ Stop \/ Crash
<1>1. ASSUME NEW b \in Bridges,
             Begin(b) \/ ReadRequest(b) \/ BridgeStep(b) \/ Die(b)
      PROVE  UNCHANGED run
  BY <1>1 DEF Begin, ReadRequest, BridgeStep, Claim, WritePending, PublishRequest, ReadResponse,
     GiveUp, Die
<1>2. QED
  BY <1>1 DEF Next, vars, PluginExits, PipesClose, ChannelStep, ChannelStarts, ChannelEnds, TaskMoves

LEMMA CallsStep ==
  TypeOK /\ CallsAreCounted /\ [Next]_vars => CallsAreCounted'
<1> SUFFICES ASSUME TypeOK, CallsAreCounted, [Next]_vars PROVE CallsAreCounted'
  OBVIOUS
<1> USE DEF CallsAreCounted, Calling
<1>0. run \in Run
  BY DEF TypeOK
<1>1. CASE UNCHANGED run
  BY <1>1
<1>2. CASE Dispatch
  <2>1. files.request # Nobody /\ run.response.to = Nobody /\ run.calls = 0
    BY <1>2 DEF Dispatch, NoResponse, TypeOK, Files
  <2>2. CASE Fail
    BY <1>0, <2>1, <2>2 DEF Fail, Run, Booking
  <2>3. CASE ~Fail
    <3>1. run'.response = [to |-> files.request, success |-> FALSE]
      BY <1>0, <1>2, <2>3 DEF Dispatch, Run
    <3>2. run' = [run EXCEPT !.pc = "channel", !.calls = @ + 1,
                    !.response = [to |-> files.request, success |-> FALSE]]
      BY <1>2, <2>3 DEF Dispatch
    <3>3. run'.calls = run.calls + 1
      BY <1>0, <3>2 DEF Run
    <3>4. run'.calls = 1
      BY <2>1, <3>3
    <3>5. QED
      BY <2>1, <3>1, <3>4
  <2>4. QED
    BY <2>2, <2>3
<1>3. CASE ChannelReturns \/ ChannelIsNotEnded
  <2>1. run.response.to # Nobody /\ run.calls = 1
    BY <1>3, ReturnForm
  <2>2. run'.response.to = run.response.to /\ run'.calls = run.calls
    <3>1. CASE Fail
      BY <1>0, <3>1 DEF Fail, Run
    <3>2. CASE ~Fail
      <4>1. PICK success \in BOOLEAN :
              run' = [run EXCEPT !.pc = FirstRecord(success),
                                 !.response.success = success]
        BY <1>3, <3>2, ReturnForm
      <4>2. run.response \in Response
        BY <1>0, RunFields
      <4>3. QED
        BY <1>0, <4>1, <4>2 DEF Run, Response
    <3>3. QED
      BY <3>1, <3>2
  <2>3. QED
    BY <2>1, <2>2
<1>4. CASE Book \/ PublishResponse
  BY <1>0, <1>4 DEF Book, PublishResponse, GoTo, Fail, Run, Booking, Kinds
<1>5. CASE PollFindsExit
  BY <1>0, <1>5 DEF PollFindsExit, StartUnlink, Fail, Run, Booking, Calling
<1>5a. CASE GivesUp
  BY <1>5a, GivingUpForm DEF Calling, Booking
<1>6. CASE Unlink \/ Stop \/ Crash
  BY <1>0, <1>6 DEF Unlink, Stop, AskToStop, StopKills, Crash, Run, Booking
<1>7. QED
  BY <1>1, <1>2, <1>3, <1>4, <1>5, <1>5a, <1>6, RunSteps DEF ServiceStep, GivesUp

(* A step that touches neither claim, request nor addressee, and makes no  *)
(* bridge a claimer, keeps the one bridge served.                          *)
LEMMA ServedFrame ==
  ASSUME OneBridgeIsServed,
         files'.claim = files.claim,
         files'.request = files.request,
         run'.response.to = run.response.to,
         run'.pc # "ended" => run.pc # "ended",
         \A b \in Bridges : bridge'[b] \in Claimers => bridge[b] \in Claimers
  PROVE  OneBridgeIsServed'
BY DEF OneBridgeIsServed

LEMMA ServedStep ==
  TypeOK /\ CallsAreCounted /\ OneBridgeIsServed /\ [Next]_vars => OneBridgeIsServed'
<1> SUFFICES ASSUME TypeOK, CallsAreCounted, OneBridgeIsServed, [Next]_vars
             PROVE  OneBridgeIsServed'
  OBVIOUS
<1>0. /\ run \in Run
      /\ files \in Files
      /\ bridge \in [Bridges -> BridgeState]
      /\ run.response \in Response
  BY RunFields DEF TypeOK
<1>1. ASSUME NEW b \in Bridges, Begin(b) \/ ReadRequest(b) \/ ReadResponse(b) \/ GiveUp(b) \/ Die(b)
      PROVE  OneBridgeIsServed'
  <2>1. \A c \in Bridges : bridge'[c] \in Claimers => bridge[c] \in Claimers
    BY <1>0, <1>1 DEF Begin, ReadRequest, ReadResponse, GiveUp, Die, Go, Claimers
  <2>2. UNCHANGED <<files, run>>
    BY <1>1 DEF Begin, ReadRequest, ReadResponse, GiveUp, Die
  <2>3. QED
    BY <2>1, <2>2, ServedFrame
<1>2. ASSUME NEW b \in Bridges, Claim(b) PROVE OneBridgeIsServed'
  <2>1. CASE files.claim
    <3>1. \A c \in Bridges : bridge'[c] \in Claimers => bridge[c] \in Claimers
      BY <1>0, <1>2, <2>1 DEF Claim, Go, Claimers
    <3>2. UNCHANGED <<files, run>>
      BY <1>2, <2>1 DEF Claim
    <3>3. QED
      BY <3>1, <3>2, ServedFrame
  <2>2. CASE ~files.claim
    <3>1. /\ files'.claim
          /\ files'.request = files.request
          /\ run' = run
      BY <1>0, <1>2, <2>2 DEF Claim, Files
    <3>2. \A c \in Bridges : bridge'[c] \in Claimers => c = b \/ bridge[c] \in Claimers
      BY <1>0, <1>2, <2>2 DEF Claim, Go, Claimers
    <3>3. run.pc # "ended" =>
            /\ \A c \in Bridges : bridge[c] \notin Claimers
            /\ files.request = Nobody
            /\ run.response.to = Nobody
      BY <2>2 DEF OneBridgeIsServed
    <3>4. QED
      BY <3>1, <3>2, <3>3 DEF OneBridgeIsServed
  <2>3. QED
    BY <2>1, <2>2
<1>3. ASSUME NEW b \in Bridges, WritePending(b) PROVE OneBridgeIsServed'
  <2>1. \A c \in Bridges : bridge'[c] \in Claimers => bridge[c] \in Claimers
    BY <1>0, <1>3 DEF WritePending, Go, Claimers
  <2>2. files'.claim = files.claim /\ files'.request = files.request /\ run' = run
    BY <1>0, <1>3 DEF WritePending, Files
  <2>3. QED
    BY <2>1, <2>2, ServedFrame
<1>4. ASSUME NEW b \in Bridges, PublishRequest(b) PROVE OneBridgeIsServed'
  <2>1. bridge[b] \in Claimers
    BY <1>4 DEF PublishRequest, Claimers
  <2>2. files'.claim = files.claim /\ files'.request = b /\ run' = run
    BY <1>0, <1>4 DEF PublishRequest, Files
  <2>3. \A c \in Bridges : bridge'[c] \in Claimers => bridge[c] \in Claimers
    BY <1>0, <1>4 DEF PublishRequest, Go, Claimers
  <2>4. QED
    BY <2>1, <2>2, <2>3 DEF OneBridgeIsServed
<1>5. CASE Dispatch
  <2>1. CASE Fail
    <3>1. run'.response = run.response /\ run.pc = "poll"
      BY <1>0, <1>5, <2>1 DEF Dispatch, Fail, Run
    <3>2. UNCHANGED <<files, bridge>>
      BY <1>5 DEF Dispatch
    <3>3. QED
      BY <3>1, <3>2, ServedFrame
  <2>2. CASE ~Fail
    <3>1. run'.response = [to |-> files.request, success |-> FALSE] /\ run.pc = "poll"
      BY <1>0, <1>5, <2>2 DEF Dispatch, Run
    <3>2. UNCHANGED <<files, bridge>> /\ files.request # Nobody
      BY <1>5 DEF Dispatch
    <3>3. QED
      BY <3>1, <3>2 DEF OneBridgeIsServed
  <2>3. QED
    BY <2>1, <2>2
<1>6. CASE ChannelReturns \/ ChannelIsNotEnded
  <2>1. run'.response.to = run.response.to
    <3>1. CASE Fail
      BY <1>0, <3>1 DEF Fail, Run
    <3>2. CASE ~Fail
      <4>1. PICK success \in BOOLEAN :
              run' = [run EXCEPT !.pc = FirstRecord(success),
                                 !.response.success = success]
        BY <1>6, <3>2, ReturnForm
      <4>2. QED
        BY <1>0, <4>1 DEF Run, Response
    <3>3. QED
      BY <3>1, <3>2
  <2>2. UNCHANGED <<files, bridge>> /\ run.pc # "ended"
    BY <1>6, ReturnForm DEF Calling
  <2>3. QED
    BY <2>1, <2>2, ServedFrame
<1>7. CASE Unlink
  <2>1. run'.response = run.response /\ UNCHANGED bridge /\ run.pc = "unlink"
    BY <1>0, <1>7 DEF Unlink, Run
  <2>2. CASE run.file \in {"context", "response"}
    BY <1>0, <1>7, <2>1, <2>2, ServedFrame DEF Unlink, Without, Files
  <2>3. CASE run.file = "request"
    <3>1. files'.claim = files.claim /\ files'.request = Nobody
      BY <1>0, <1>7, <2>3 DEF Unlink, Without, Files
    <3>2. QED
      BY <2>1, <3>1 DEF OneBridgeIsServed
  <2>4. CASE run.file = "claim"
    <3>1. run'.pc = "ended"
      BY <1>0, <1>7, <2>4 DEF Unlink, NextFile, Run
    <3>2. QED
      BY <3>1 DEF OneBridgeIsServed
  <2>5. QED
    BY <1>0, <2>2, <2>3, <2>4 DEF Run, Unlinking
<1>8. CASE Book \/ PublishResponse \/ PollFindsExit \/ Crash
  <2>1. run'.response = run.response /\ run.pc # "ended" /\ UNCHANGED bridge
    BY <1>0, <1>8 DEF Book, PublishResponse, PollFindsExit, Crash, GoTo, Fail,
       StartUnlink, Run, Kinds
  <2>2. files'.claim = files.claim /\ files'.request = files.request
    BY <1>0, <1>8 DEF Book, PublishResponse, PollFindsExit, Crash, Files
  <2>3. QED
    BY <2>1, <2>2, ServedFrame
<1>9. CASE GivesUp \/ Stop
  <2>1. CASE GivesUp
    <3>1. run.pc # "ended" /\ files' = files
      BY <2>1, GivingUpForm DEF Awaiting
    <3>2. QED
      BY <2>1, <3>1, GivingUpForm, ServedFrame
  <2>2. CASE Stop
    <3>1. run'.response = run.response /\ run.pc # "ended" /\ UNCHANGED files
      BY <1>0, <2>2 DEF Stop, AskToStop, StopKills, Run, Awaiting
    <3>2. \A b \in Bridges : bridge'[b] \in Claimers => bridge[b] \in Claimers
      BY <1>0, <2>2 DEF Stop, AskToStop, StopKills, KillTree, Claimers
    <3>3. QED
      BY <3>1, <3>2, ServedFrame
  <2>3. QED
    BY <1>9, <2>1, <2>2
<1>10. CASE UNCHANGED <<files, run, bridge>>
  BY <1>10, ServedFrame
<1>11. QED
  BY <1>1, <1>2, <1>3, <1>4, <1>5, <1>6, <1>7, <1>8, <1>9, <1>10
     DEF Next, BridgeStep, ServiceStep, GivesUp, ChannelStep, PluginExits, PipesClose, ChannelStarts,
         ChannelEnds, TaskMoves, vars

-----------------------------------------------------------------------------
(* One more record. *)
LEMMA OneMoreRecord ==
  ASSUME TypeOK, NEW k \in Kinds, ledger' = [ledger EXCEPT ![k] = route.assigned]
  PROVE  Booked' = Booked \cup {k}
<1>1. route.assigned # Nobody
  BY NobodyIsNeither DEF TypeOK, Route
<1>2. QED
  BY <1>1 DEF TypeOK, Booked

LEMMA BookingStep ==
  TypeOK /\ CallsAreCounted /\ BookingInOrder /\ [Next]_vars => BookingInOrder'
<1> SUFFICES ASSUME TypeOK, CallsAreCounted, BookingInOrder, [Next]_vars
             PROVE  BookingInOrder'
  OBVIOUS
<1> USE DEF Calling
<1>0. run \in Run /\ run.response \in Response
  BY RunFields DEF TypeOK
<1>1. ASSUME UNCHANGED ledger PROVE Booked' = Booked
  BY <1>1 DEF Booked
<1>2. ASSUME UNCHANGED <<ledger, run>>,
             UNCHANGED task \/ run.pc \in Awaiting
      PROVE  BookingInOrder'
  BY <1>1, <1>2 DEF BookingInOrder, Booking, Awaiting
<1>3. ASSUME UNCHANGED ledger, run'.pc \notin Calling \cup Booking \cup {"poll"}
      PROVE  BookingInOrder'
  BY <1>3 DEF BookingInOrder, Booking
<1>4. CASE Dispatch
  <2>1. CASE Fail
    BY <1>0, <1>3, <1>4, <2>1 DEF Dispatch, Fail, Run, Booking
  <2>2. CASE ~Fail
    <3>1. run'.pc = "channel"
      BY <1>0, <1>4, <2>2 DEF Dispatch, Run
    <3>2. run.pc = "poll" /\ run.response.to = Nobody /\ UNCHANGED <<ledger, task>>
      BY <1>4 DEF Dispatch, NoResponse
    <3>3. Booked' = {}
      BY <1>1, <3>2 DEF BookingInOrder
    <3>4. QED
      BY <3>1, <3>3 DEF BookingInOrder, Booking
  <2>3. QED
    BY <2>1, <2>2
<1>5. CASE ChannelReturns \/ ChannelIsNotEnded
  <2>1. CASE Fail
    BY <1>0, <1>3, <1>5, <2>1, ReturnForm DEF Fail, Run, Booking, Calling
  <2>2. CASE ~Fail
    <3>0. PICK success \in BOOLEAN :
            run' = [run EXCEPT !.pc = FirstRecord(success),
                               !.response.success = success]
      BY <1>5, <2>2, ReturnForm
    <3>1. /\ run' = [run EXCEPT !.pc = FirstRecord(success),
                               !.response.success = success]
          /\ task = "RUNNING"
          /\ run.pc \in Calling
          /\ UNCHANGED <<ledger, task>>
      BY <1>5, <2>2, <3>0, ReturnForm
    <3>2. /\ run'.pc = IF success THEN "artifact" ELSE "cost"
          /\ run'.response.success = success
      BY <1>0, <3>1 DEF Run, Response, FirstRecord
    <3>3. Booked' = {}
      BY <1>1, <3>1 DEF BookingInOrder, Booking
    <3>4. Due(success) \cap Before(run'.pc) = {}
      BY <3>2 DEF Due, Before, Kinds
    <3>5. Booked' = Due(run'.response.success) \cap Before(run'.pc)
      BY <3>2, <3>3, <3>4
    <3>6. run'.pc = "artifact" => run'.response.success
      BY <3>2
    <3>7. run'.pc \notin Calling \cup {"poll"} /\ task' = "RUNNING"
      BY <3>1, <3>2
    <3>8. QED
      BY <3>3, <3>5, <3>6, <3>7 DEF BookingInOrder
  <2>3. QED
    BY <2>1, <2>2
<1>6. CASE Book
  <2>1. CASE Fail /\ UNCHANGED ledger
    BY <1>0, <1>3, <1>6, <2>1 DEF Book, Fail, Run, Booking
  <2>2. CASE ~(Fail /\ UNCHANGED ledger)
    <3>1. /\ run.pc \in Kinds
          /\ run.pc \in Booking
          /\ run' = [run EXCEPT !.pc = NextStep[run.pc]]
          /\ ledger' = [ledger EXCEPT ![run.pc] = route.assigned]
          /\ UNCHANGED task
      BY <1>6, <2>2 DEF Book, GoTo, Kinds, Booking
    <3>2. run'.pc = NextStep[run.pc] /\ run'.response = run.response
      BY <1>0, <3>1 DEF Run
    <3>3. Booked' = Booked \cup {run.pc}
      BY <3>1, OneMoreRecord
    <3>4. /\ Booked = Due(run.response.success) \cap Before(run.pc)
          /\ run.response.to # Nobody
          /\ run.pc = "artifact" => run.response.success
          /\ task = "RUNNING"
      BY <3>1 DEF BookingInOrder, CallsAreCounted, Booking
    <3>5. Due(run.response.success) \cap Before(NextStep[run.pc])
            = (Due(run.response.success) \cap Before(run.pc)) \cup {run.pc}
      <4>1. CASE run.pc = "artifact"
        BY <3>4, <4>1 DEF Due, Before, NextStep, Kinds
      <4>2. CASE run.pc = "cost"
        BY <4>2 DEF Due, Before, NextStep, Kinds
      <4>3. CASE run.pc = "learning"
        BY <4>3 DEF Due, Before, NextStep, Kinds
      <4>4. CASE run.pc = "event"
        BY <4>4 DEF Due, Before, NextStep, Kinds
      <4>5. QED
        BY <3>1, <4>1, <4>2, <4>3, <4>4 DEF Kinds
    <3>6. NextStep[run.pc] \in Booking \ {"artifact"}
      BY <3>1 DEF NextStep, Booking, Kinds
    <3>7. QED
      BY <3>1, <3>2, <3>3, <3>4, <3>5, <3>6 DEF BookingInOrder, Booking
  <2>3. QED
    BY <2>1, <2>2
<1>7. CASE PublishResponse
  <2>1. CASE Fail
    BY <1>0, <1>3, <1>7, <2>1 DEF PublishResponse, Fail, Run, Booking
  <2>2. CASE ~Fail
    <3>1. run'.pc = "poll" /\ run'.response = run.response
      BY <1>0, <1>7, <2>2 DEF PublishResponse, GoTo, Run
    <3>2. run.pc = "publish" /\ UNCHANGED ledger
      BY <1>7 DEF PublishResponse
    <3>3. Booked' = Due(run.response.success) \cap Kinds /\ run.response.to # Nobody
      BY <1>1, <3>2 DEF BookingInOrder, CallsAreCounted, Booking, Before
    <3>4. QED
      BY <3>1, <3>3 DEF BookingInOrder, Booking, Before
  <2>3. QED
    BY <2>1, <2>2
<1>8. CASE PollFindsExit \/ Unlink \/ Crash
  <2>1. run'.pc \notin Calling \cup Booking \cup {"poll"}
    BY <1>0, <1>8 DEF PollFindsExit, Unlink, Crash, Fail, StartUnlink, Run, Booking,
       Calling
  <2>2. UNCHANGED ledger
    BY <1>8 DEF PollFindsExit, Unlink, Crash
  <2>3. QED
    BY <1>3, <2>1, <2>2
<1>8a. CASE GivesUp
  <2>1. CASE run'.pc = "ending"
    <3>1. run.pc = "channel" /\ run'.response = run.response /\ Booked' = Booked
      BY <1>1, <1>8a, <2>1, GivingUpForm
    <3>2. QED
      BY <2>1, <3>1 DEF BookingInOrder, Calling, Booking
  <2>2. CASE run'.pc # "ending"
    <3>1. run'.pc \notin Calling \cup Booking \cup {"poll"}
      BY <1>8a, <2>2, GivingUpForm DEF Calling, Booking
    <3>2. QED
      BY <1>3, <1>8a, <3>1, GivingUpForm
  <2>3. QED
    BY <2>1, <2>2
<1>9. CASE Stop
  <2>1. run'.pc = run.pc /\ run'.response = run.response
    BY <1>0, <1>9 DEF Stop, AskToStop, StopKills, Run
  <2>2. UNCHANGED <<ledger, task>>
    BY <1>9 DEF Stop, AskToStop, StopKills
  <2>3. QED
    BY <1>1, <2>1, <2>2 DEF BookingInOrder
<1>10. ASSUME NEW b \in Bridges, Begin(b) \/ ReadRequest(b) \/ BridgeStep(b) \/ Die(b)
       PROVE  UNCHANGED <<ledger, run, task>>
  BY <1>10 DEF Begin, ReadRequest, BridgeStep, Claim, WritePending, PublishRequest, ReadResponse,
     GiveUp, Die
<1>11. CASE PluginExits \/ PipesClose \/ ChannelStep \/ TaskMoves \/ UNCHANGED vars
  BY <1>2, <1>11 DEF PluginExits, PipesClose, ChannelStep, ChannelStarts, ChannelEnds, TaskMoves, vars
<1>12. QED
  BY <1>2, <1>4, <1>5, <1>6, <1>7, <1>8, <1>8a, <1>9, <1>10, <1>11
     DEF Next, ServiceStep, GivesUp

-----------------------------------------------------------------------------
(* What has been seen stays booked while the response of the run and its   *)
(* records stay, and the run does not enter the call or its booking again. *)
LEMMA SeenFrame ==
  ASSUME NEW r, SeenIsBooked(r), UNCHANGED ledger,
         run'.response = run.response,
         run'.pc \in Calling \cup Booking => run.pc \in Calling \cup Booking
  PROVE  r # NoResponse =>
           /\ r = run'.response
           /\ run'.pc \notin Calling \cup Booking
           /\ Booked' = Due(run'.response.success)
BY DEF SeenIsBooked, Booked

(* A step that shows nothing new keeps what is shown booked. *)
LEMMA PublishedFrame ==
  ASSUME PublishedIsBooked, UNCHANGED <<ledger, answer>>,
         files'.response \in {files.response, NoResponse},
         run'.response = run.response,
         run'.pc \in Calling \cup Booking => run.pc \in Calling \cup Booking,
         run'.pc = "ended" \/ (run'.pc = "unlink" /\ run'.file = "claim")
           => files'.response = NoResponse
  PROVE  PublishedIsBooked'
<1>1. SeenIsBooked(files.response)'
  BY SeenFrame DEF PublishedIsBooked, SeenIsBooked
<1>2. ASSUME NEW b \in Bridges PROVE SeenIsBooked(answer[b])'
  BY SeenFrame DEF PublishedIsBooked, SeenIsBooked
<1>3. QED
  BY <1>1, <1>2 DEF PublishedIsBooked

LEMMA PublishedStep ==
  TypeOK /\ CallsAreCounted /\ BookingInOrder /\ PublishedIsBooked /\ [Next]_vars
    => PublishedIsBooked'
<1> SUFFICES ASSUME TypeOK, CallsAreCounted, BookingInOrder, PublishedIsBooked, [Next]_vars
             PROVE  PublishedIsBooked'
  OBVIOUS
<1> USE DEF Calling
<1>0. /\ run \in Run
      /\ run.response \in Response
      /\ files \in Files
      /\ answer \in [Bridges -> Response]
  BY RunFields DEF TypeOK
(* While the call lasts, and before it, nothing can be seen. *)
<1>1. ASSUME run.pc \in Calling \cup Booking \/ run.response = NoResponse
      PROVE  files.response = NoResponse /\ \A b \in Bridges : answer[b] = NoResponse
  BY <1>1 DEF PublishedIsBooked, SeenIsBooked
<1>2. ASSUME UNCHANGED <<files, answer>>,
             run.pc \in Calling \cup Booking \/ run.response = NoResponse
      PROVE  PublishedIsBooked'
  BY <1>1, <1>2 DEF PublishedIsBooked, SeenIsBooked
<1>3. ASSUME NEW b \in Bridges, ReadResponse(b) PROVE PublishedIsBooked'
  <2>1. SeenIsBooked(files.response) /\ \A c \in Bridges : SeenIsBooked(answer[c])
    BY DEF PublishedIsBooked
  <2>2. \A c \in Bridges : answer'[c] \in {answer[c], files.response}
    BY <1>0, <1>3 DEF ReadResponse
  <2>3. UNCHANGED <<files, run, ledger>>
    BY <1>3 DEF ReadResponse
  <2>4. \A c \in Bridges : SeenIsBooked(answer'[c])
    BY <2>1, <2>2
  <2>5. QED
    BY <2>1, <2>3, <2>4 DEF PublishedIsBooked, SeenIsBooked, Booked
<1>4. CASE Dispatch
  BY <1>2, <1>4 DEF Dispatch
<1>5. CASE ChannelReturns \/ ChannelIsNotEnded \/ Book
  <2>1. run.pc \in Calling \cup Booking
    BY <1>5, ReturnForm DEF Book, Kinds, Booking
  <2>2. UNCHANGED <<files, answer>>
    BY <1>5, ReturnForm DEF Book
  <2>3. QED
    BY <1>2, <2>1, <2>2
<1>6. CASE PublishResponse
  <2>1. run.pc = "publish" /\ UNCHANGED <<answer, ledger>>
    BY <1>6 DEF PublishResponse
  <2>2. CASE UNCHANGED files
    BY <1>2, <2>1, <2>2 DEF Booking
  <2>3. CASE ~UNCHANGED files
    <3>1. /\ run'.pc = "poll"
          /\ run'.response = run.response
          /\ files'.response = run.response
      BY <1>0, <1>6, <2>3 DEF PublishResponse, GoTo, Run, Files
    <3>2. Booked = Due(run.response.success)
      BY <2>1 DEF BookingInOrder, CallsAreCounted, Booking, Before, Due, Kinds
    <3>3. Booked' = Due(run'.response.success)
      BY <2>1, <3>1, <3>2 DEF Booked
    <3>4. \A b \in Bridges : answer'[b] = NoResponse
      BY <1>1, <2>1 DEF Booking
    <3>5. QED
      BY <3>1, <3>3, <3>4 DEF PublishedIsBooked, SeenIsBooked, Booking
  <2>4. QED
    BY <2>2, <2>3
<1>7. CASE PollFindsExit \/ Crash
  <2>1. /\ run'.response = run.response
        /\ run'.pc \notin Calling \cup Booking \cup {"ended"}
        /\ run'.pc = "unlink" => run'.file = "context"
    BY <1>0, <1>7 DEF PollFindsExit, Crash, Fail, StartUnlink, Run, Booking, Calling
  <2>2. UNCHANGED <<ledger, answer, files>>
    BY <1>7 DEF PollFindsExit, Crash
  <2>3. QED
    BY <2>1, <2>2, PublishedFrame
<1>7a. CASE GivesUp
  <2>1. run'.pc \in Calling \cup Booking => run.pc \in Calling \cup Booking
    BY <1>7a, GivingUpForm DEF Calling, Booking
  <2>2. run'.pc # "ended" /\ (run'.pc = "unlink" => run'.file = "context")
    BY <1>7a, GivingUpForm
  <2>3. QED
    BY <1>7a, <2>1, <2>2, GivingUpForm, PublishedFrame
<1>8. CASE Unlink
  <2>1. /\ run'.response = run.response
        /\ run.pc = "unlink"
        /\ run'.pc \in {"unlink", "ended"}
        /\ UNCHANGED <<ledger, answer>>
    BY <1>0, <1>8 DEF Unlink, Run
  <2>2. CASE run.file \in {"context", "request"}
    <3>1. files'.response = files.response
      BY <1>0, <1>8, <2>2 DEF Unlink, Without, Files
    <3>2. run'.pc = "unlink" /\ run'.file # "claim"
      BY <1>0, <1>8, <2>2 DEF Unlink, NextFile, Run
    <3>3. QED
      BY <2>1, <3>1, <3>2, PublishedFrame DEF Booking
  <2>3. CASE run.file = "response"
    <3>1. files'.response = NoResponse
      BY <1>0, <1>8, <2>3 DEF Unlink, Without, Files
    <3>2. QED
      BY <2>1, <3>1, PublishedFrame DEF Booking
  <2>4. CASE run.file = "claim"
    <3>1. files'.response = files.response /\ files.response = NoResponse
      BY <1>0, <1>8, <2>1, <2>4 DEF Unlink, Without, Files, PublishedIsBooked
    <3>2. QED
      BY <2>1, <3>1, PublishedFrame DEF Booking
  <2>5. QED
    BY <1>0, <2>2, <2>3, <2>4 DEF Run, Unlinking
<1>9. CASE Stop
  <2>1. /\ run'.response = run.response
        /\ run'.pc = run.pc
        /\ run.pc \in Awaiting
    BY <1>0, <1>9 DEF Stop, AskToStop, StopKills, Run
  <2>2. UNCHANGED <<ledger, answer, files>>
    BY <1>9 DEF Stop, AskToStop, StopKills
  <2>3. QED
    BY <2>1, <2>2, PublishedFrame DEF Awaiting
<1>10. ASSUME NEW b \in Bridges,
              Begin(b) \/ ReadRequest(b) \/ Claim(b) \/ WritePending(b) \/ PublishRequest(b) \/ GiveUp(b) \/ Die(b)
       PROVE  PublishedIsBooked'
  <2>1. files'.response = files.response
    BY <1>0, <1>10 DEF Begin, ReadRequest, Claim, WritePending, PublishRequest, GiveUp, Die, Files
  <2>2. UNCHANGED <<ledger, answer, run>>
    BY <1>10 DEF Begin, ReadRequest, Claim, WritePending, PublishRequest, GiveUp, Die
  <2>3. QED
    BY <2>1, <2>2, PublishedFrame DEF PublishedIsBooked
<1>11. CASE PluginExits \/ PipesClose \/ ChannelStep \/ TaskMoves \/ UNCHANGED vars
  <2>1. UNCHANGED <<ledger, answer, files, run>>
    BY <1>11 DEF PluginExits, PipesClose, ChannelStep, ChannelStarts, ChannelEnds, TaskMoves, vars
  <2>2. QED
    BY <2>1, PublishedFrame DEF PublishedIsBooked
<1>12. QED
  BY <1>3, <1>4, <1>5, <1>6, <1>7, <1>7a, <1>8, <1>9, <1>10, <1>11
     DEF Next, BridgeStep, ServiceStep, GivesUp

LEMMA ResultStep ==
  TypeOK /\ CallsAreCounted /\ BookingInOrder /\ ResultIsLate /\ [Next]_vars
    => ResultIsLate'
<1> SUFFICES ASSUME TypeOK, CallsAreCounted, BookingInOrder, ResultIsLate, [Next]_vars
             PROVE  ResultIsLate'
  OBVIOUS
<1> USE DEF Calling
<1>0. run \in Run /\ run.response \in Response
  BY RunFields DEF TypeOK
<1>1. ASSUME run'.result \in {"none", "raised"} PROVE ResultIsLate'
  BY <1>1 DEF ResultIsLate
<1>2. ASSUME UNCHANGED ledger, run'.result = run.result, run'.calls = run.calls,
             run'.response = run.response,
             run'.pc = run.pc \/ run'.pc \in {"unlink", "ended", "crashed"}
      PROVE  ResultIsLate'
  BY <1>2 DEF ResultIsLate, Booked
(* Before the unlinks there is no result. *)
<1>3. ASSUME run'.result = run.result, run.pc \notin {"unlink", "ended", "crashed"}
      PROVE  ResultIsLate'
  BY <1>1, <1>3 DEF ResultIsLate
<1>4. CASE PollFindsExit
  <2>1. CASE Accepts(plugin.output) /\ StartUnlink(plugin.output)
    <3>1. /\ run.pc = "poll"
          /\ run.response # NoResponse
          /\ plugin.output = "COMPLETED" => run.response.success
          /\ UNCHANGED ledger
      BY <1>4, <2>1 DEF PollFindsExit, Accepts
    <3>2. /\ run'.pc = "unlink"
          /\ run'.result = plugin.output
          /\ run'.calls = run.calls
          /\ run'.response = run.response
      BY <1>0, <2>1 DEF StartUnlink, Run
    <3>3. run.response.to # Nobody /\ run.calls = 1
      BY <3>1 DEF CallsAreCounted
    <3>4. run.response.success => Booked = Kinds
      BY <3>1, <3>3 DEF BookingInOrder, Due, Before
    <3>5. Booked' = Booked
      BY <3>1 DEF Booked
    <3>6. QED
      BY <3>1, <3>2, <3>3, <3>4, <3>5 DEF ResultIsLate
  <2>2. CASE StartUnlink("PAUSED")
    BY <1>0, <2>2 DEF StartUnlink, Run, ResultIsLate
  <2>3. CASE Fail
    BY <1>0, <1>1, <2>3 DEF Fail, Run
  <2>4. QED
    BY <1>4, <2>1, <2>2, <2>3 DEF PollFindsExit
<1>5. CASE Fail
  BY <1>0, <1>1, <1>5 DEF Fail, Run
<1>5a. CASE GivesUp
  BY <1>1, <1>3, <1>5a, GivingUpForm DEF Awaiting
<1>5b. CASE ChannelReturns \/ ChannelIsNotEnded
  <2>1. Fail \/ run'.result = run.result
    BY <1>0, <1>5b, ReturnForm DEF Run
  <2>2. QED
    BY <1>3, <1>5, <1>5b, <2>1, ReturnForm DEF Calling
<1>6. CASE Dispatch \/ Book \/ PublishResponse \/ Stop
  <2>1. Fail \/ run'.result = run.result
    BY <1>0, <1>6 DEF Dispatch, Book, PublishResponse, Stop, AskToStop, StopKills, GoTo, Run
  <2>2. run.pc \notin {"unlink", "ended", "crashed"}
    BY <1>6 DEF Dispatch, Book, PublishResponse, Stop, AskToStop, StopKills, Kinds, Awaiting
  <2>3. QED
    BY <1>3, <1>5, <2>1, <2>2
<1>7. CASE Unlink \/ Crash
  <2>1. /\ run'.result = run.result
        /\ run'.calls = run.calls
        /\ run'.response = run.response
        /\ run'.pc = run.pc \/ run'.pc \in {"unlink", "ended", "crashed"}
    BY <1>0, <1>7 DEF Unlink, Crash, Run
  <2>2. UNCHANGED ledger
    BY <1>7 DEF Unlink, Crash
  <2>3. QED
    BY <1>2, <2>1, <2>2
<1>8. ASSUME NEW b \in Bridges, Begin(b) \/ ReadRequest(b) \/ BridgeStep(b) \/ Die(b)
      PROVE  UNCHANGED <<ledger, run>>
  BY <1>8 DEF Begin, ReadRequest, BridgeStep, Claim, WritePending, PublishRequest, ReadResponse,
     GiveUp, Die
<1>9. CASE PluginExits \/ PipesClose \/ ChannelStep \/ TaskMoves \/ UNCHANGED vars
  BY <1>2, <1>9 DEF PluginExits, PipesClose, ChannelStep, ChannelStarts, ChannelEnds, TaskMoves, vars
<1>10. QED
  BY <1>4, <1>5a, <1>5b, <1>6, <1>7, <1>8, <1>9, <1>2 DEF Next, ServiceStep, GivesUp

LEMMA AnswerStep ==
  ASSUME TypeOK, CallsAreCounted, OneBridgeIsServed, PublishedIsBooked,
         AnswerIsForItsAsker, [Next]_vars
  PROVE  AnswerIsForItsAsker'
<1>1. ASSUME NEW b \in Bridges, ReadResponse(b) PROVE AnswerIsForItsAsker'
  <2>1. /\ files.response # NoResponse
        /\ bridge[b] \in Claimers
        /\ answer' = [answer EXCEPT ![b] = files.response]
    BY <1>1 DEF ReadResponse, Claimers
  <2>2. run.pc # "ended" /\ files.response = run.response
    BY <2>1 DEF PublishedIsBooked, SeenIsBooked
  <2>3. run.response.to \in {Nobody, b}
    BY <2>1, <2>2 DEF OneBridgeIsServed
  <2>4. files.response.to # Nobody
    BY <2>1, <2>2 DEF CallsAreCounted
  <2>5. \A c \in Bridges : answer'[c] = IF c = b THEN files.response ELSE answer[c]
    BY <2>1 DEF TypeOK
  <2>6. QED
    BY <2>2, <2>3, <2>4, <2>5 DEF AnswerIsForItsAsker
<1>2. CASE UNCHANGED answer
  BY <1>2 DEF AnswerIsForItsAsker
<1>3. ASSUME NEW b \in Bridges,
             Begin(b) \/ ReadRequest(b) \/ Claim(b) \/ WritePending(b) \/ PublishRequest(b) \/ GiveUp(b) \/ Die(b)
      PROVE  UNCHANGED answer
  BY <1>3 DEF Begin, ReadRequest, Claim, WritePending, PublishRequest, GiveUp, Die
<1>4. ASSUME ServiceStep PROVE UNCHANGED answer
  BY <1>4, GivingUpForm, ReturnForm DEF ServiceStep, GivesUp, Dispatch, Book,
     PublishResponse, PollFindsExit, Unlink
<1>5. QED
  BY <1>1, <1>2, <1>3, <1>4 DEF Next, BridgeStep, PluginExits, PipesClose, ChannelStep, ChannelStarts,
     ChannelEnds, Stop, AskToStop, StopKills, TaskMoves, Crash, vars

LEMMA InvInit == Init => Inv
<1> SUFFICES ASSUME Init PROVE Inv
  OBVIOUS
<1>1. run.pc = "poll" /\ run.response = NoResponse /\ run.calls = 0 /\ run.result = "none"
  BY DEF Init
<1>2. Booked = {}
  BY DEF Init, Booked
<1>3. CallsAreCounted /\ ResultIsLate /\ BookingInOrder
  BY <1>1, <1>2 DEF CallsAreCounted, ResultIsLate, BookingInOrder, NoResponse, Booking, Calling
<1>4. OneBridgeIsServed
  BY <1>1 DEF Init, OneBridgeIsServed, Claimers, NoResponse
<1>5. PublishedIsBooked /\ AnswerIsForItsAsker
  BY <1>1 DEF Init, PublishedIsBooked, SeenIsBooked, AnswerIsForItsAsker
<1>6. QED
  BY <1>3, <1>4, <1>5, TypeInit DEF Inv

LEMMA InvStep == Inv /\ [Next]_vars => Inv'
BY TypeStep, CallsStep, ServedStep, BookingStep, PublishedStep, ResultStep, AnswerStep DEF Inv

LEMMA Invariance == Spec => []Inv
BY InvInit, InvStep, PTL DEF Spec

-----------------------------------------------------------------------------
(* For any number of bridges: the printed response answers the bridge's    *)
(* own request.                                                            *)
THEOREM AnswersAreAddressed == Spec => []AnswerIsForItsAsker
BY Invariance, PTL DEF Inv

(* For any number of bridges, one run calls its channel at most once.      *)
THEOREM OneCall == Spec => []ChannelIsCalledOnce
<1>1. Inv => ChannelIsCalledOnce
  BY DEF Inv, TypeOK, CallsAreCounted, ChannelIsCalledOnce
<1>2. QED
  BY <1>1, Invariance, PTL

(* No plugin acts on a response that is not fully on record.               *)
THEOREM ResponsesAreBooked == Spec => []ResponseIsBooked
<1>1. Inv => ResponseIsBooked
  BY DEF Inv, PublishedIsBooked, SeenIsBooked, ResponseIsBooked
<1>2. QED
  BY <1>1, Invariance, PTL

(* A completed run has its one successful call on record.                  *)
THEOREM CompletionsAreBooked == Spec => []CompletionIsBooked
<1>1. Inv => CompletionIsBooked
  BY DEF Inv, ResultIsLate, CompletionIsBooked
<1>2. QED
  BY <1>1, Invariance, PTL

(* Nothing of a channel is recorded for a task that has been moved, or an   *)
(* attempt superseded, while the channel ran.                              *)
THEOREM MovedTasksAreNotBooked == Spec => MovedTaskIsNotBooked
<1>1. ASSUME Inv, [Next]_vars, ledger' # ledger PROVE task = "RUNNING"
  <2>1. ASSUME NEW b \in Bridges,
             Begin(b) \/ ReadRequest(b) \/ BridgeStep(b) \/ Die(b)
      PROVE  UNCHANGED ledger
    BY <2>1 DEF Begin, ReadRequest, BridgeStep, Claim, WritePending, PublishRequest, ReadResponse,
       GiveUp, Die
  <2>2. Book
    BY <1>1, <2>1, GivingUpForm, ReturnForm DEF Inv, Next, vars, ServiceStep, ChannelStep, PluginExits, PipesClose, ChannelStarts,
       ChannelEnds, Stop, AskToStop, StopKills, TaskMoves, Crash, Dispatch, PublishResponse, PollFindsExit, Unlink,
       GivesUp
  <2>3. run.pc \in Booking
    BY <2>2 DEF Book, Kinds, Booking
  <2>4. QED
    BY <1>1, <2>3 DEF Inv, BookingInOrder
<1>2. Inv /\ [Next]_vars => [ledger' # ledger => task = "RUNNING"]_vars
  BY <1>1
<1>3. QED
  BY <1>2, Invariance, PTL DEF Spec, MovedTaskIsNotBooked

=============================================================================
