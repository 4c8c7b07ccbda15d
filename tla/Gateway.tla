------------------------------- MODULE Gateway -------------------------------
(***************************************************************************)
(* Commands on their way from a chat to the service: the polling gateway   *)
(* (scripts/mock_telegram_gateway.py), the HTTP boundary with one handler  *)
(* thread per request and one event loop for all (interfaces/              *)
(* telegram_http.py), authorisation (interfaces/telegram.py) and the       *)
(* preferences that /master and /mode leave for a later /run               *)
(* (core/controller.py).                                                   *)
(*                                                                         *)
(* The bot server numbers the updates 1, 2, ... in the order in which they *)
(* are sent and forgets those below the offset of a getUpdates call.  The  *)
(* gateway keeps its offset in memory.  A forward that times out leaves    *)
(* its handler thread behind, and the command is carried out all the same. *)
(* What becomes of a task after its creation is in ProcessExecution.       *)
(***************************************************************************)
EXTENDS Naturals, Sequences

CONSTANTS
  Users,        \* who writes to the bot
  Chats,        \* where
  AllowedUsers, \* allowed_user_ids
  AllowedChats, \* allowed_chat_ids: if empty, every chat
  Values,       \* what /master and /mode may be set to
  Default,      \* the configured default of both
  Unknown,      \* any other value
  Absent,       \* no value
  Messages,     \* what the users may write, for each update
  MaxUpdates,   \* bound: updates sent
  MaxRestarts   \* bound: restarts of the gateway and of the service

Settings == {"master", "mode"}

(* master and mode are the options of a /run, and the values of /master    *)
(* and /mode.                                                              *)
Update == [user : Users, chat : Chats,
           what : {"photo", "run"} \cup Settings,
           master : Values \cup {Unknown, Absent},
           mode : Values \cup {Unknown, Absent}]

ASSUME DefaultIsAValue == Default \in Values
ASSUME NoValues == {Unknown, Absent} \cap Values = {}
ASSUME MessagesAreUpdates == Messages \in [1..MaxUpdates -> SUBSET Update]
ASSUME BoundsAreNaturals == MaxUpdates \in Nat /\ MaxRestarts \in Nat

VARIABLES
  sent,       \* the updates, in the order of their ids
  confirmed,  \* the last id that the bot server has forgotten
  gw,         \* the gateway's run()
  life,       \* which start of the gateway this is
  threads,    \* the handler threads of the service
  prefs,      \* GlobalController._preferences, defaults filled in
  tasks,      \* the tasks created, with the update they came from
  forwards,   \* how often each update was handed to forward_update
  givenUp,    \* the updates of which a forward has failed or timed out
  crashes     \* the number of crashes of the service

service == <<threads, prefs, tasks>>
vars == <<sent, confirmed, gw, life, service, forwards, givenUp, crashes>>

Ids == 1..MaxUpdates
Preference == [master : Values, mode : Values]
NoPreference == [master |-> Default, mode |-> Default]

(* offset 0 is None.  item is the update whose response is awaited. *)
Gateway == [pc : {"poll", "batch", "waiting"}, offset : Nat,
            batch : Seq(Ids), item : {0} \cup Ids]
NewGateway == [pc |-> "poll", offset |-> 0, batch |-> << >>, item |-> 0]

Lives == 1..(MaxRestarts + 1)
Thread == [life : Lives, id : Ids,
           state : {"queued", "running", "done"}]
(* awaited: the forward had not been given up when the event loop took it. *)
Task == [life : Lives, id : Ids, prefs : Preference, awaited : BOOLEAN]

TypeOK ==
  /\ sent \in Seq(Update) /\ Len(sent) <= MaxUpdates
  /\ confirmed \in 0..Len(sent)
  /\ gw \in Gateway
  /\ life \in Lives
  /\ threads \subseteq Thread
  /\ prefs \in [Users -> Preference]
  /\ tasks \subseteq Task
  /\ forwards \in [Ids -> Nat]
  /\ givenUp \subseteq Ids
  /\ crashes \in 0..MaxRestarts

Init ==
  /\ sent = << >>
  /\ confirmed = 0
  /\ gw = NewGateway
  /\ life = 1
  /\ threads = {}
  /\ prefs = [u \in Users |-> NoPreference]
  /\ tasks = {}
  /\ forwards = [i \in Ids |-> 0]
  /\ givenUp = {}
  /\ crashes = 0

-----------------------------------------------------------------------------
(* A user writes to the bot. *)
Send ==
  /\ Len(sent) < MaxUpdates
  /\ \E u \in Messages[Len(sent) + 1] : sent' = Append(sent, u)
  /\ UNCHANGED <<confirmed, gw, life, service, forwards, givenUp, crashes>>

(* What the bot server has forgotten once it has seen the offset. *)
Confirm(offset) ==
  IF offset > confirmed + 1 THEN offset - 1 ELSE confirmed

(* The ids first + 1 .. last, in order. *)
From(first, last) == [k \in 1..(last - first) |-> first + k]

(* getUpdates: what the server still has from the offset on. *)
Poll ==
  /\ gw.pc = "poll"
  /\ confirmed' = Confirm(gw.offset)
  /\ confirmed' < Len(sent)
  /\ gw' = [gw EXCEPT !.pc = "batch", !.batch = From(confirmed', Len(sent))]
  /\ UNCHANGED <<sent, life, service, forwards, givenUp, crashes>>

(* The call is made but brings nothing, or its answer is lost. *)
PollInVain ==
  /\ gw.pc = "poll"
  /\ confirmed' = Confirm(gw.offset)
  /\ UNCHANGED <<sent, gw, life, service, forwards, givenUp, crashes>>

(* A RuntimeError: the rest of the batch is dropped, the offset is kept. *)
Abort == gw' = [gw EXCEPT !.pc = "poll", !.batch = << >>, !.item = 0]

(* The gateway still holds the connection of the thread. *)
Awaited(t) == gw.pc = "waiting" /\ t.life = life /\ t.id = gw.item

(* Mutant: the offset is moved past an update only if it was answered. *)
TakeKeepingOffset ==
  /\ gw.pc = "batch"
  /\ gw.batch # << >>
  /\ LET id == Head(gw.batch) IN
     IF sent[id].what = "photo"
     THEN /\ gw' = [gw EXCEPT !.offset = id + 1, !.batch = Tail(@)]
          /\ UNCHANGED <<threads, forwards, givenUp>>
     ELSE /\ forwards' = [forwards EXCEPT ![id] = @ + 1]
          /\ \/ /\ gw' = [gw EXCEPT !.pc = "waiting", !.batch = Tail(@),
                                    !.item = id]
                /\ threads' = threads \cup
                     {[life |-> life, id |-> id, state |-> "queued"]}
                /\ UNCHANGED givenUp
             \/ /\ Abort
                /\ givenUp' = givenUp \cup {id}
                /\ UNCHANGED threads
  /\ UNCHANGED <<sent, confirmed, life, prefs, tasks, crashes>>

(* Mutant: the offset is moved past the whole batch at once. *)
TakeMovingAhead ==
  /\ gw.pc = "batch"
  /\ gw.batch # << >>
  /\ LET id == Head(gw.batch)
         next == [gw EXCEPT !.offset = gw.batch[Len(gw.batch)] + 1,
                            !.batch = Tail(@)] IN
     \/ /\ sent[id].what = "photo"
        /\ gw' = next
        /\ UNCHANGED <<threads, forwards, givenUp>>
     \/ /\ sent[id].what # "photo"
        /\ forwards' = [forwards EXCEPT ![id] = @ + 1]
        /\ \/ /\ gw' = [next EXCEPT !.pc = "waiting", !.item = id]
              /\ threads' = threads \cup
                   {[life |-> life, id |-> id, state |-> "queued"]}
              /\ UNCHANGED givenUp
           \/ /\ gw' = [next EXCEPT !.pc = "poll", !.batch = << >>]
              /\ givenUp' = givenUp \cup {id}
              /\ UNCHANGED threads
  /\ UNCHANGED <<sent, confirmed, life, prefs, tasks, crashes>>

(* The next update of the batch: the offset moves past it first; what has  *)
(* no text is ignored; anything else is forwarded, which may fail at once. *)
Take ==
  /\ gw.pc = "batch"
  /\ gw.batch # << >>
  /\ LET id == Head(gw.batch)
         next == [gw EXCEPT !.offset = id + 1, !.batch = Tail(@)] IN
     \/ /\ sent[id].what = "photo"
        /\ gw' = next
        /\ UNCHANGED <<threads, forwards, givenUp>>
     \/ /\ sent[id].what # "photo"
        /\ forwards' = [forwards EXCEPT ![id] = @ + 1]
        /\ \/ /\ gw' = [next EXCEPT !.pc = "waiting", !.item = id]
              /\ threads' = threads \cup
                   {[life |-> life, id |-> id, state |-> "queued"]}
              /\ UNCHANGED givenUp
           \/ /\ gw' = [next EXCEPT !.pc = "poll", !.batch = << >>]
              /\ givenUp' = givenUp \cup {id}
              /\ UNCHANGED threads
  /\ UNCHANGED <<sent, confirmed, life, prefs, tasks, crashes>>

EndOfBatch ==
  /\ gw.pc = "batch"
  /\ gw.batch = << >>
  /\ gw' = [gw EXCEPT !.pc = "poll"]
  /\ UNCHANGED <<sent, confirmed, life, service, forwards, givenUp, crashes>>

(* The response arrives; its text is sent to the chat, or that fails. *)
Answer ==
  /\ gw.pc = "waiting"
  /\ \E t \in threads :
       /\ Awaited(t)
       /\ t.state = "done"
       /\ threads' = threads \ {t}
  /\ gw' = [gw EXCEPT !.pc = "batch", !.item = 0] \/ Abort
  /\ UNCHANGED <<sent, confirmed, life, prefs, tasks, forwards, givenUp, crashes>>

(* Mutant: the forward has no timeout. *)
FailsIfGone ==
  /\ gw.pc = "waiting"
  /\ \A t \in threads : ~Awaited(t)
  /\ Abort
  /\ givenUp' = givenUp \cup {gw.item}
  /\ UNCHANGED <<sent, confirmed, life, service, forwards, crashes>>

(* The forward times out, or its connection is gone. *)
ForwardFails ==
  /\ gw.pc = "waiting"
  /\ Abort
  /\ givenUp' = givenUp \cup {gw.item}
  /\ threads' = {t \in threads : t.state # "done"}
  /\ UNCHANGED <<sent, confirmed, life, prefs, tasks, forwards, crashes>>

(* The gateway is stopped, or dies, and is started again. *)
Restart ==
  /\ life + crashes <= MaxRestarts
  /\ life' = life + 1
  /\ gw' = NewGateway
  /\ threads' = {t \in threads : t.state # "done"}
  /\ UNCHANGED <<sent, confirmed, prefs, tasks, forwards, givenUp, crashes>>

-----------------------------------------------------------------------------
(* A thread goes on; a response that nobody awaits is lost with its thread. *)
To(t, state) ==
  threads' = (threads \ {t}) \cup
    (IF state = "done" /\ ~Awaited(t) THEN {} ELSE {[t EXCEPT !.state = state]})

(* TelegramAdapter._authorized *)
Permitted(u) ==
  /\ u.user \in AllowedUsers
  /\ AllowedChats = {} \/ u.chat \in AllowedChats

(* u sets what, to one of its values. *)
Sets(u, what) == Permitted(u) /\ u.what = what /\ u[what] \in Values

(* Mutant: /master also resets the mode, and the other way round. *)
PrefsReset(u) ==
  [master |-> IF Sets(u, "master") THEN u.master ELSE Default,
   mode |-> IF Sets(u, "mode") THEN u.mode ELSE Default]

(* What /master and /mode leave as the preference of their user: a value   *)
(* that is none is refused before anything is set.                         *)
PrefsAfter(u) ==
  [master |-> IF Sets(u, "master") THEN u.master ELSE prefs[u.user].master,
   mode |-> IF Sets(u, "mode") THEN u.mode ELSE prefs[u.user].mode]

(* What a /run asks for: its own options before its user's preference. *)
RunsWith(u) ==
  [master |-> IF u.master # Absent THEN u.master ELSE prefs[u.user].master,
   mode |-> IF u.mode # Absent THEN u.mode ELSE prefs[u.user].mode]

(* The event loop takes the command up to its first await or its end.  A   *)
(* /run creates its task with the preferences of this moment, or is        *)
(* refused before it has created one, for instance an unknown option.      *)
Handle(t) ==
  /\ t.state = "queued"
  /\ LET u == sent[t.id] IN
     \/ /\ ~Permitted(u)
        /\ To(t, "done")
        /\ UNCHANGED <<prefs, tasks>>
     \/ /\ Permitted(u)
        /\ u.what \in Settings
        /\ prefs' = [prefs EXCEPT ![u.user] = PrefsAfter(u)]
        /\ To(t, "done")
        /\ UNCHANGED tasks
     \/ /\ Permitted(u)
        /\ u.what = "run"
        /\ \/ /\ RunsWith(u) \in Preference
              /\ tasks' = tasks \cup
                   {[life |-> t.life, id |-> t.id, prefs |-> RunsWith(u),
                     awaited |-> Awaited(t)]}
              /\ To(t, "running")
           \/ To(t, "done") /\ UNCHANGED tasks
        /\ UNCHANGED prefs
  /\ UNCHANGED <<sent, confirmed, gw, life, forwards, givenUp, crashes>>

(* The task of a /run has ended. *)
Finish(t) ==
  /\ t.state = "running"
  /\ To(t, "done")
  /\ UNCHANGED <<sent, confirmed, gw, life, prefs, tasks, forwards, givenUp, crashes>>

(* The service dies and is started again. *)
Crash ==
  /\ life + crashes <= MaxRestarts
  /\ crashes' = crashes + 1
  /\ threads' = {}
  /\ prefs' = [u \in Users |-> NoPreference]
  /\ UNCHANGED <<sent, confirmed, gw, life, tasks, forwards, givenUp>>

Step == Poll \/ Take \/ EndOfBatch \/ Answer \/ ForwardFails

Next ==
  \/ Send \/ PollInVain \/ Step \/ Restart \/ Crash
  \/ \E t \in threads : Handle(t) \/ Finish(t)

Spec == Init /\ [][Next]_vars

(* The gateway runs on, and getUpdates does not fail for ever.  Nothing is *)
(* assumed of the service: a forward has a timeout.                        *)
FairSpec == Spec /\ WF_vars(Step)

-----------------------------------------------------------------------------
Tried(id) == sent[id].what = "photo" \/ forwards[id] > 0

(* No update is passed over: whatever the bot server has forgotten, and    *)
(* whatever precedes a forwarded update, was ignored for want of a text or *)
(* has been forwarded, across failures, lost answers and restarts.         *)
NoUpdateIsSkipped ==
  \A i \in 1..Len(sent) :
    (i <= confirmed \/ \E j \in (i + 1)..Len(sent) : forwards[j] > 0)
      => Tried(i)

(* Within one life of the gateway no update is forwarded twice, failed     *)
(* forwards included; so an update creates at most one task per life.      *)
ForwardedOncePerLife ==
  \A i \in Ids :
    /\ forwards[i] <= life
    /\ \A s, t \in tasks : s.id = i /\ t.id = i /\ s.life = t.life => s = t

(* The earlier updates in which the user of update id sets what. *)
SetBefore(id, what) ==
  {i \in 1..(id - 1) : sent[i].user = sent[id].user /\ Sets(sent[i], what)}

(* A /run takes the master and the mode that it names itself, or that its  *)
(* user last set in the chat: the two set apart, in the order of the chat  *)
(* and whatever other users and chats say.  Only a setting whose forward   *)
(* was given up may be lost, or come late and overtake later ones.  This   *)
(* is said of runs that the event loop took while the gateway was waiting, *)
(* in its first life and that of the service.                              *)
RunTakesTheChatsPreferences ==
  \A t \in tasks, what \in Settings : t.life = 1 /\ t.awaited /\ crashes = 0 =>
    IF sent[t.id][what] # Absent THEN t.prefs[what] = sent[t.id][what]
    ELSE \/ /\ t.prefs[what] = Default
            /\ SetBefore(t.id, what) \subseteq givenUp
         \/ \E i \in SetBefore(t.id, what) :
              /\ t.prefs[what] = sent[i][what]
              /\ i \in givenUp \/ \A j \in SetBefore(t.id, what) \ givenUp : j <= i

(* Every update is tried sooner or later: one whose forward fails, or      *)
(* whose command takes longer than the timeout, does not hold up the next. *)
EveryUpdateIsTried ==
  \A i \in Ids : i <= Len(sent) ~> i <= Len(sent) /\ Tried(i)

=============================================================================
