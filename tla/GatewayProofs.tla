---------------------------- MODULE GatewayProofs ----------------------------
(***************************************************************************)
(* Theorems about Gateway, for every set of users and messages and every   *)
(* bound: types, no update skipped, none forwarded twice in one life, and  *)
(* tasks that take the preferences their user has set in the chat.         *)
(***************************************************************************)
EXTENDS Gateway, Integers, TLAPS

(* Offset, batch and threads are about updates that have been sent. *)
WithinSent ==
  /\ gw.offset <= Len(sent) + 1
  /\ \A k \in 1..Len(gw.batch) : gw.batch[k] <= Len(sent)
  /\ \A t \in threads \cup tasks : t.id <= Len(sent)

WaitsForAnUpdate == gw.pc = "waiting" => gw.item \in Ids

(* What the gateway still holds of a batch are consecutive updates, none   *)
(* of them behind its offset.                                              *)
BatchInOrder ==
  /\ \A k \in 1..Len(gw.batch) : gw.batch[k] = gw.batch[1] + k - 1
  /\ gw.batch # << >> => gw.offset <= gw.batch[1]

(* The updates that are still to be tried. *)
Untried == {i \in 1..Len(sent) : ~Tried(i)}

(* Neither the server's memory nor the gateway's passes an update over. *)
NothingPassedOver ==
  /\ \A i \in Untried :
       /\ confirmed < i
       /\ gw.offset <= i
       /\ gw.batch # << >> => gw.batch[1] <= i
       /\ \A j \in Ids : forwards[j] > 0 => j < i
  /\ \A j \in Ids : forwards[j] > 0 => j <= Len(sent)

(* An update behind the offset was forwarded at most once in each life up  *)
(* to this one, one before the offset at most once in each earlier life.   *)
OncePerLife ==
  \A i \in Ids : forwards[i] <= IF i < gw.offset THEN life ELSE life - 1

(* A forward makes one thread, and a thread at most one task. *)
OneThreadPerForward ==
  /\ \A t \in threads \cup tasks :
       t.life <= life /\ (t.life = life => t.id < gw.offset)
  /\ \A s, t \in threads : s.life = t.life /\ s.id = t.id => s = t
  /\ \A s \in tasks, t \in threads :
       s.life = t.life /\ s.id = t.id => t.state # "queued"
  /\ \A s, t \in tasks : s.life = t.life /\ s.id = t.id => s = t

TypeInv == TypeOK /\ WithinSent /\ WaitsForAnUpdate

Inv ==
  TypeInv /\ BatchInOrder /\ NothingPassedOver /\ OncePerLife /\ OneThreadPerForward

-----------------------------------------------------------------------------
LEMMA UpdatesAreSent ==
  ASSUME TypeOK, Send
  PROVE  \E u \in Update : sent' = Append(sent, u)
<1>1. PICK u \in Messages[Len(sent) + 1] : sent' = Append(sent, u)
  BY DEF Send
<1>2. Len(sent) \in Nat /\ Len(sent) < MaxUpdates
  BY DEF TypeOK, Send
<1>3. Len(sent) + 1 \in 1..MaxUpdates
  BY <1>2, BoundsAreNaturals
<1>4. u \in Update
  BY <1>1, <1>3, MessagesAreUpdates
<1>. QED  BY <1>1, <1>4

(* The ids of a batch that getUpdates brings. *)
LEMMA FromIsTyped ==
  ASSUME NEW first \in Nat, NEW last \in Nat, first < last
  PROVE  /\ From(first, last) \in Seq(Nat)
         /\ last <= MaxUpdates => From(first, last) \in Seq(Ids)
         /\ Len(From(first, last)) = last - first
         /\ From(first, last) # << >>
         /\ \A k \in 1..(last - first) : From(first, last)[k] = first + k
<1>1. last - first \in Nat /\ last - first > 0
  OBVIOUS
<1>2. From(first, last) = [k \in 1..(last - first) |-> first + k]
  BY DEF From
<1>3. \A k \in 1..(last - first) : first + k \in Nat /\ first + k <= last /\ first + k >= 1
  BY <1>1
<1>4. last <= MaxUpdates => \A k \in 1..(last - first) : first + k \in Ids
  BY <1>3, BoundsAreNaturals DEF Ids
<1>5. From(first, last) \in Seq(Nat) /\ Len(From(first, last)) = last - first
  BY <1>1, <1>2, <1>3
<1>6. last <= MaxUpdates => From(first, last) \in Seq(Ids)
  BY <1>1, <1>2, <1>4
<1>7. QED
  BY <1>1, <1>2, <1>5, <1>6

(* The first id of a batch, and the rest. *)
LEMMA BatchIsTyped ==
  ASSUME NEW s \in Seq(Ids), s # << >>
  PROVE  /\ Head(s) \in Ids
         /\ Head(s) = s[1]
         /\ Tail(s) \in Seq(Ids)
         /\ Len(Tail(s)) = Len(s) - 1
         /\ \A k \in 1..(Len(s) - 1) : Tail(s)[k] = s[k + 1]
OBVIOUS

LEMMA ConfirmIsTyped ==
  ASSUME NEW offset \in Nat, TypeOK
  PROVE  /\ Confirm(offset) \in Nat
         /\ confirmed <= Confirm(offset)
         /\ offset <= Confirm(offset) + 1
         /\ Confirm(offset) = confirmed \/ Confirm(offset) = offset - 1
BY DEF Confirm, TypeOK

LEMMA TypeInit == Init => TypeOK
<1> SUFFICES ASSUME Init PROVE TypeOK
  OBVIOUS
<1>1. NewGateway \in Gateway
  BY DEF NewGateway, Gateway
<1>2. NoPreference \in Preference
  BY DefaultIsAValue DEF NoPreference, Preference
<1>3. sent \in Seq(Update) /\ Len(sent) <= MaxUpdates /\ confirmed \in 0..Len(sent)
  BY BoundsAreNaturals DEF Init
<1>4. life \in Lives /\ crashes \in 0..MaxRestarts
  BY BoundsAreNaturals DEF Init, Lives
<1>5. QED
  BY <1>1, <1>2, <1>3, <1>4 DEF Init, TypeOK

(* Setting fields of the gateway's state. *)
LEMMA AbortIsTyped ==
  ASSUME TypeOK, Abort
  PROVE  /\ gw' \in Gateway
         /\ gw'.offset = gw.offset
         /\ gw'.batch = << >>
         /\ gw'.pc = "poll"
<1>1. << >> \in Seq(Ids)
  OBVIOUS
<1>2. QED
  BY <1>1 DEF TypeOK, Abort, Gateway

LEMMA ToIsTyped ==
  ASSUME TypeOK, NEW t \in threads, NEW state \in {"queued", "running", "done"}, To(t, state)
  PROVE  /\ threads' \subseteq Thread
         /\ \A u \in threads' :
              u \in threads \ {t} \/ (u.id = t.id /\ u.life = t.life /\ u.state = state)
         /\ \A u, v \in threads' : u \notin threads /\ v \notin threads => u = v
<1>1. LET u == [t EXCEPT !.state = state] IN
      u \in Thread /\ u.id = t.id /\ u.life = t.life /\ u.state = state
  BY DEF TypeOK, Thread
<1>2. QED
  BY <1>1 DEF TypeOK, To

LEMMA PrefsAfterIsTyped ==
  ASSUME TypeOK, NEW u \in Update
  PROVE  PrefsAfter(u) \in Preference
<1>1. prefs[u.user] \in Preference
  BY DEF TypeOK, Update
<1>2. /\ Sets(u, "master") => u.master \in Values
      /\ Sets(u, "mode") => u.mode \in Values
  BY DEF Sets
<1>3. QED
  BY <1>1, <1>2 DEF PrefsAfter, Preference

(* Handling a command leaves the tasks alone, or adds the task of a /run. *)
LEMMA HandledTask ==
  ASSUME TypeInv, NEW t \in threads, Handle(t)
  PROVE  \/ tasks' = tasks
         \/ \E new \in Task :
              /\ new = [life |-> t.life, id |-> t.id, prefs |-> RunsWith(sent[t.id]),
                        awaited |-> Awaited(t)]
              /\ new.life = t.life /\ new.id = t.id
              /\ tasks' = tasks \cup {new}
              /\ t.state = "queued" /\ To(t, "running")
<1>. SUFFICES ASSUME tasks' # tasks
              PROVE  \E new \in Task :
                       /\ new = [life |-> t.life, id |-> t.id, prefs |-> RunsWith(sent[t.id]),
                                 awaited |-> Awaited(t)]
                       /\ new.life = t.life /\ new.id = t.id
                       /\ tasks' = tasks \cup {new}
                       /\ t.state = "queued" /\ To(t, "running")
  OBVIOUS
<1>. DEFINE aw == Awaited(t)
<1>1. aw \in BOOLEAN
  BY DEF Awaited
<1>2. /\ RunsWith(sent[t.id]) \in Preference
      /\ tasks' = tasks \cup
           {[life |-> t.life, id |-> t.id, prefs |-> RunsWith(sent[t.id]),
             awaited |-> aw]}
      /\ t.state = "queued" /\ To(t, "running")
  BY DEF Handle
<1>3. t.life \in Lives /\ t.id \in Ids
  BY DEF TypeInv, TypeOK, Thread
<1>. HIDE DEF aw
<1>4. [life |-> t.life, id |-> t.id, prefs |-> RunsWith(sent[t.id]), awaited |-> aw] \in Task
  BY <1>1, <1>2, <1>3 DEF Task
<1>5. PICK new \in Task :
        new = [life |-> t.life, id |-> t.id, prefs |-> RunsWith(sent[t.id]), awaited |-> aw]
  BY <1>4
<1>6. new.life = t.life /\ new.id = t.id
  BY <1>5
<1>. QED  BY <1>2, <1>5, <1>6 DEF aw

(* What Take does: the gateway moves on by one update, which is left alone *)
(* or forwarded.                                                           *)
LEMMA TakeEffect ==
  ASSUME TypeOK, Take
  PROVE  LET id == Head(gw.batch) IN
         /\ gw.batch # << >>
         /\ gw' \in Gateway
         /\ gw'.offset = id + 1
         /\ gw'.batch \in {Tail(gw.batch), << >>}
         /\ \/ sent[id].what = "photo" /\ UNCHANGED <<threads, forwards>>
            \/ /\ forwards' = [forwards EXCEPT ![id] = @ + 1]
               /\ threads' \in {threads, threads \cup
                     {[life |-> life, id |-> id, state |-> "queued"]}}
<1> DEFINE id == Head(gw.batch)
<1>1. gw \in Gateway /\ gw.batch \in Seq(Ids) /\ gw.batch # << >>
  BY DEF TypeOK, Gateway, Take
<1>2. id \in Ids /\ id + 1 \in Nat /\ Tail(gw.batch) \in Seq(Ids) /\ << >> \in Seq(Ids)
  <2>1. id \in Ids /\ Tail(gw.batch) \in Seq(Ids)
    BY <1>1, BatchIsTyped
  <2>2. id + 1 \in Nat
    BY <2>1, BoundsAreNaturals DEF Ids
  <2>3. << >> \in Seq(Ids)
    OBVIOUS
  <2>4. QED
    BY <2>1, <2>2, <2>3
<1> HIDE DEF id
<1>3. CASE gw' = [gw EXCEPT !.offset = id + 1, !.batch = Tail(@)]
  BY <1>1, <1>2, <1>3 DEF Take, Gateway, id
<1>4. CASE gw' = [gw EXCEPT !.offset = id + 1, !.batch = Tail(@), !.pc = "waiting", !.item = id]
  <2>1. /\ gw' \in Gateway
        /\ gw'.offset = id + 1
        /\ gw'.batch = Tail(gw.batch)
    BY <1>1, <1>2, <1>4 DEF Gateway
  <2>2. QED
    BY <1>1, <2>1 DEF Take, id
<1>5. CASE gw' = [gw EXCEPT !.offset = id + 1, !.batch = Tail(@), !.pc = "poll", !.batch = << >>]
  <2>1. /\ gw' \in Gateway
        /\ gw'.offset = id + 1
        /\ gw'.batch = << >>
    BY <1>1, <1>2, <1>5 DEF Gateway
  <2>2. QED
    BY <1>1, <2>1 DEF Take, id
<1>6. QED
  BY <1>3, <1>4, <1>5 DEF Take, id

LEMMA WaitStep == TypeInv /\ [Next]_vars => WaitsForAnUpdate'
<1>. SUFFICES ASSUME TypeInv, [Next]_vars, gw' # gw PROVE WaitsForAnUpdate'
  BY DEF TypeInv, WaitsForAnUpdate
<1>1. gw \in Gateway /\ gw.batch \in Seq(Ids)
  BY DEF TypeInv, TypeOK, Gateway
<1>2. CASE Take
  <2>1. gw.batch # << >> /\ gw.pc = "batch" /\ Head(gw.batch) \in Ids
    BY <1>1, <1>2, BatchIsTyped DEF Take
  <2>. PICK id \in Ids : id = Head(gw.batch)
    BY <2>1
  <2>. DEFINE next == [gw EXCEPT !.offset = id + 1, !.batch = Tail(@)]
  <2>2. \/ gw' = next
        \/ gw' = [next EXCEPT !.pc = "waiting", !.item = id]
        \/ gw' = [next EXCEPT !.pc = "poll", !.batch = << >>]
    BY <1>2 DEF Take
  <2>3. gw'.pc = "waiting" => gw'.item = id
    BY <1>1, <2>1, <2>2 DEF Gateway
  <2>. QED  BY <2>3 DEF WaitsForAnUpdate
<1>3. CASE ~Take
  <2>1. \/ gw' = NewGateway
        \/ gw' = [gw EXCEPT !.pc = "batch", !.batch = From(confirmed', Len(sent))]
        \/ gw' = [gw EXCEPT !.pc = "batch", !.item = 0]
        \/ gw' = [gw EXCEPT !.pc = "poll"]
        \/ gw' = [gw EXCEPT !.pc = "poll", !.batch = << >>, !.item = 0]
    BY <1>3 DEF Next, Step, Send, Poll, PollInVain, EndOfBatch, Answer, Abort,
       ForwardFails, Restart, Crash, Handle, Finish, vars
  <2>2. NewGateway.pc = "poll"
    BY DEF NewGateway
  <2>. DEFINE batch == From(confirmed', Len(sent))
  <2>. HIDE DEF batch
  <2>3. gw' = [gw EXCEPT !.pc = "batch", !.batch = batch] => gw'.pc = "batch"
    BY <1>1 DEF Gateway
  <2>4. gw'.pc # "waiting"
    BY <1>1, <2>1, <2>2, <2>3 DEF Gateway, batch
  <2>. QED  BY <2>4 DEF WaitsForAnUpdate
<1>. QED  BY <1>2, <1>3

LEMMA TypeStep == TypeInv /\ [Next]_vars => TypeInv'
<1> SUFFICES ASSUME TypeInv, [Next]_vars PROVE TypeInv'
  OBVIOUS
<1>w. WaitsForAnUpdate'
  BY WaitStep
<1> USE <1>w DEF TypeInv
<1>0. /\ gw \in Gateway /\ gw.batch \in Seq(Ids) /\ gw.offset \in Nat
      /\ Len(sent) \in Nat /\ confirmed \in Nat /\ life \in Lives /\ life \in Nat
      /\ NewGateway \in Gateway /\ NewGateway.batch = << >>
      /\ NoPreference \in Preference
  BY BoundsAreNaturals, DefaultIsAValue DEF TypeOK, Gateway, Lives, NewGateway,
     NoPreference, Preference
<1>1. CASE Send
  <2>1. PICK u \in Update : sent' = Append(sent, u)
    BY <1>1, UpdatesAreSent
  <2>2. sent' \in Seq(Update) /\ Len(sent') = Len(sent) + 1
    BY <2>1 DEF TypeOK
  <2>3. confirmed' \in 0..Len(sent') /\ Len(sent') <= MaxUpdates
    BY <1>0, <1>1, <2>2, BoundsAreNaturals DEF Send, TypeOK
  <2>4. TypeOK'
    BY <1>1, <2>2, <2>3 DEF Send, TypeOK, service
  <2>5. UNCHANGED <<gw, threads, tasks>>
    BY <1>1 DEF Send, service
  <2>6. \A t \in threads \cup tasks : t.id \in Nat
    BY BoundsAreNaturals DEF TypeOK, Thread, Task, Ids
  <2>7. \A k \in 1..Len(gw.batch) : gw.batch[k] \in Nat
    BY <1>0, BoundsAreNaturals DEF Ids
  <2>8. WithinSent'
    BY <1>0, <2>2, <2>5, <2>6, <2>7 DEF WithinSent
  <2>9. QED
    BY <2>4, <2>8
<1>2. CASE Poll
  <2>1. /\ confirmed' = Confirm(gw.offset)
        /\ confirmed' < Len(sent)
        /\ gw' = [gw EXCEPT !.pc = "batch", !.batch = From(confirmed', Len(sent))]
        /\ UNCHANGED <<sent, life, threads, prefs, tasks, forwards, givenUp, crashes>>
    BY <1>2 DEF Poll, service
  <2>2. confirmed' \in Nat /\ Len(sent) <= MaxUpdates
    BY <1>0, <2>1, ConfirmIsTyped DEF TypeOK
  <2> DEFINE batch == From(confirmed', Len(sent))
  <2>3. /\ batch \in Seq(Ids)
        /\ \A k \in 1..Len(batch) : batch[k] <= Len(sent)
    BY <1>0, <2>1, <2>2, FromIsTyped
  <2> HIDE DEF batch
  <2>4. gw' \in Gateway /\ gw'.batch = batch
    BY <1>0, <2>1, <2>3 DEF Gateway, batch
  <2>5. confirmed' \in 0..Len(sent)
    BY <1>0, <2>1, <2>2
  <2>6. QED
    BY <2>1, <2>3, <2>4, <2>5 DEF TypeOK, WithinSent
<1>3. CASE PollInVain
  <2>1. /\ confirmed' = Confirm(gw.offset)
        /\ UNCHANGED <<sent, gw, life, threads, prefs, tasks, forwards, givenUp, crashes>>
    BY <1>3 DEF PollInVain, service
  <2>2. confirmed' \in 0..Len(sent)
    <3>1. gw.offset <= Len(sent) + 1 /\ confirmed <= Len(sent)
      BY <1>0 DEF WithinSent, TypeOK
    <3>2. /\ Confirm(gw.offset) \in Nat
          /\ Confirm(gw.offset) = confirmed \/ Confirm(gw.offset) = gw.offset - 1
      BY <1>0, ConfirmIsTyped
    <3>3. QED
      BY <1>0, <2>1, <3>1, <3>2
  <2>3. QED
    BY <2>1, <2>2 DEF TypeOK, WithinSent
<1>4. CASE Take
  <2> DEFINE id == Head(gw.batch)
  <2>1. /\ gw' \in Gateway
        /\ gw'.offset = id + 1
        /\ gw'.batch \in {Tail(gw.batch), << >>}
        /\ \/ UNCHANGED <<threads, forwards>>
           \/ /\ forwards' = [forwards EXCEPT ![id] = @ + 1]
              /\ threads' \in {threads, threads \cup
                    {[life |-> life, id |-> id, state |-> "queued"]}}
    BY <1>4, TakeEffect
  <2>2. /\ gw.batch # << >>
        /\ UNCHANGED <<sent, confirmed, life, prefs, tasks, crashes>>
        /\ givenUp' \subseteq Ids
    <3>1. Head(gw.batch) \in Ids
      BY <1>0, <1>4, BatchIsTyped DEF Take
    <3>2. QED
      BY <1>4, <3>1 DEF Take, TypeOK
  <2>3. /\ id \in Ids /\ id = gw.batch[1]
        /\ Tail(gw.batch) \in Seq(Ids)
        /\ Len(Tail(gw.batch)) = Len(gw.batch) - 1
        /\ \A k \in 1..(Len(gw.batch) - 1) : Tail(gw.batch)[k] = gw.batch[k + 1]
    BY <1>0, <2>2, BatchIsTyped
  <2> HIDE DEF id
  <2>4. Len(gw.batch) \in Nat /\ Len(gw.batch) >= 1
    BY <1>0, <2>2
  <2>5. id <= Len(sent) /\ id \in Nat
    BY <2>3, <2>4, BoundsAreNaturals DEF WithinSent, Ids
  <2>6. forwards' \in [Ids -> Nat]
    BY <2>1, <2>3 DEF TypeOK
  <2>7. [life |-> life, id |-> id, state |-> "queued"] \in Thread
    BY <1>0, <2>3 DEF Thread
  <2>8. threads' \subseteq Thread
    BY <2>1, <2>7 DEF TypeOK
  <2>9. TypeOK'
    BY <2>1, <2>2, <2>6, <2>8 DEF TypeOK
  <2>10. \A t \in threads' \cup tasks' : t.id <= Len(sent)
    BY <2>1, <2>2, <2>5 DEF WithinSent
  <2>11. gw'.offset <= Len(sent) + 1
    BY <1>0, <2>1, <2>5
  <2>12. \A k \in 1..Len(gw'.batch) : gw'.batch[k] <= Len(sent)
    <3>1. CASE gw'.batch = << >>
      BY <3>1
    <3>2. CASE gw'.batch = Tail(gw.batch)
      <4>1. ASSUME NEW k \in 1..(Len(gw.batch) - 1)
            PROVE  Tail(gw.batch)[k] <= Len(sent)
        BY <2>3, <2>4 DEF WithinSent
      <4>2. QED
        BY <2>3, <3>2, <4>1
    <3>3. QED
      BY <2>1, <3>1, <3>2
  <2>13. QED
    BY <2>2, <2>9, <2>10, <2>11, <2>12 DEF WithinSent
<1>5. CASE EndOfBatch
  <2>1. gw' \in Gateway /\ gw'.batch = gw.batch /\ gw'.offset = gw.offset
    BY <1>0, <1>5 DEF EndOfBatch, Gateway
  <2>2. QED
    BY <1>5, <2>1 DEF EndOfBatch, service, TypeOK, WithinSent
<1>6. CASE Answer
  <2>1. threads' \subseteq threads
    BY <1>6 DEF Answer
  <2>2. CASE Abort
    BY <1>6, <2>1, <2>2, AbortIsTyped DEF Answer, TypeOK, WithinSent
  <2>3. CASE ~Abort
    <3>1. gw' \in Gateway /\ gw'.batch = gw.batch /\ gw'.offset = gw.offset
      BY <1>0, <1>6, <2>3 DEF Answer, Gateway
    <3>2. QED
      BY <1>6, <2>1, <3>1 DEF Answer, TypeOK, WithinSent
  <2>4. QED
    BY <2>2, <2>3
<1>7. CASE ForwardFails
  BY <1>7, AbortIsTyped DEF ForwardFails, TypeOK, WithinSent, WaitsForAnUpdate
<1>8. CASE Restart
  <2>1. life' \in Lives
    BY <1>0, <1>8, BoundsAreNaturals DEF Restart, Lives, TypeOK
  <2>2. NewGateway.offset = 0
    BY DEF NewGateway
  <2>3. QED
    BY <1>0, <1>8, <2>1, <2>2 DEF Restart, TypeOK, WithinSent
<1>9. ASSUME NEW t \in threads, Handle(t) PROVE TypeInv'
  <2>1. t.id \in 1..Len(sent) /\ t.id \in Ids /\ t.life \in Lives
    BY BoundsAreNaturals DEF TypeOK, WithinSent, Thread, Ids
  <2>2. sent[t.id] \in Update /\ sent[t.id].user \in Users
    <3>1. sent[t.id] \in Update
      BY <2>1 DEF TypeOK
    <3>2. QED
      BY <3>1 DEF Update
  <2>3. prefs' \in [Users -> Preference]
    BY <1>9, <2>2, PrefsAfterIsTyped DEF Handle, TypeOK
  <2>4. tasks' \subseteq Task /\ \A u \in tasks' : u \in tasks \/ u.id = t.id
    BY <1>9, HandledTask DEF TypeOK
  <2>5. PICK state \in {"queued", "running", "done"} : To(t, state)
    BY <1>9 DEF Handle
  <2>6. \A u \in threads' : u \in threads \/ u.id = t.id
    BY <2>5, ToIsTyped
  <2>7. \A u \in threads' \cup tasks' : u.id <= Len(sent)
    BY <2>1, <2>4, <2>6 DEF WithinSent
  <2>8. UNCHANGED <<sent, confirmed, gw, life, forwards, givenUp, crashes>>
    BY <1>9 DEF Handle
  <2>9. threads' \subseteq Thread
    BY <2>5, ToIsTyped
  <2>10. QED
    BY <2>3, <2>4, <2>7, <2>8, <2>9 DEF TypeOK, WithinSent
<1>10. ASSUME NEW t \in threads, Finish(t) PROVE TypeInv'
  <2>1. To(t, "done") /\ tasks' = tasks
    BY <1>10 DEF Finish
  <2>2. \A u \in threads' : u \in threads \/ u.id = t.id
    BY <2>1, ToIsTyped
  <2>3. \A u \in threads' \cup tasks' : u.id <= Len(sent)
    BY <2>1, <2>2 DEF WithinSent
  <2>4. QED
    BY <1>10, <2>1, <2>3, ToIsTyped DEF Finish, TypeOK, WithinSent
<1>11. CASE Crash
  <2>1. crashes' \in 0..MaxRestarts
    BY <1>0, <1>11, BoundsAreNaturals DEF Crash, Lives, TypeOK
  <2>2. QED
    BY <1>0, <1>11, <2>1 DEF Crash, TypeOK, WithinSent
<1>12. CASE UNCHANGED vars
  BY <1>12 DEF vars, service, TypeOK, WithinSent
<1>13. QED
  BY <1>1, <1>2, <1>3, <1>4, <1>5, <1>6, <1>7, <1>8, <1>9, <1>10, <1>11, <1>12
     DEF Next, Step

-----------------------------------------------------------------------------
(* Updates and forwards stay, a batch shrinks, and the offset is lost in a *)
(* restart only.                                                           *)
Quiet ==
  /\ UNCHANGED <<sent, confirmed, forwards>>
  /\ gw'.batch \in {gw.batch, << >>}
  /\ \/ gw'.offset = gw.offset /\ life' = life
     \/ gw'.offset = 0 /\ life' = life + 1

LEMMA StepKinds ==
  ASSUME TypeInv, [Next]_vars
  PROVE  Send \/ Poll \/ PollInVain \/ Take \/ Quiet
<1> USE DEF TypeInv
<1>0. gw \in Gateway
  BY DEF TypeOK
<1>1. CASE EndOfBatch
  BY <1>0, <1>1 DEF EndOfBatch, Gateway, Quiet, service
<1>2. CASE Answer
  <2>1. CASE Abort
    BY <1>2, <2>1, AbortIsTyped DEF Answer, Quiet
  <2>2. CASE ~Abort
    <3>1. gw' = [gw EXCEPT !.pc = "batch", !.item = 0]
      BY <1>2, <2>2 DEF Answer
    <3>2. gw'.batch = gw.batch /\ gw'.offset = gw.offset
      BY <1>0, <3>1 DEF Gateway
    <3>3. QED
      BY <1>2, <3>2 DEF Answer, Quiet
  <2>3. QED
    BY <2>1, <2>2
<1>3. CASE ForwardFails
  BY <1>3, AbortIsTyped DEF ForwardFails, Quiet
<1>4. CASE Restart
  BY <1>4 DEF Restart, Quiet, NewGateway
<1>5. ASSUME NEW t \in threads, Handle(t) \/ Finish(t) PROVE Quiet
  BY <1>5 DEF Handle, Finish, Quiet
<1>6. CASE Crash \/ UNCHANGED vars
  BY <1>6 DEF Crash, vars, service, Quiet
<1>7. QED
  BY <1>1, <1>2, <1>3, <1>4, <1>5, <1>6 DEF Next, Step

LEMMA BatchStep == TypeInv /\ BatchInOrder /\ [Next]_vars => BatchInOrder'
<1> SUFFICES ASSUME TypeInv, BatchInOrder, [Next]_vars PROVE BatchInOrder'
  OBVIOUS
<1>0. gw \in Gateway /\ gw.batch \in Seq(Ids) /\ gw.offset \in Nat /\ Len(sent) \in Nat
  BY DEF TypeInv, TypeOK, Gateway
<1>1. gw.batch # << >> => gw.batch[1] \in Nat
  BY <1>0, BatchIsTyped, BoundsAreNaturals DEF Ids
<1>2. CASE Send \/ PollInVain
  BY <1>2 DEF Send, PollInVain, BatchInOrder
<1>3. CASE Poll
  <2>1. confirmed' = Confirm(gw.offset) /\ confirmed' < Len(sent)
        /\ gw' = [gw EXCEPT !.pc = "batch", !.batch = From(confirmed', Len(sent))]
    BY <1>3 DEF Poll
  <2>2. confirmed' \in Nat /\ gw.offset <= confirmed' + 1
    BY <1>0, <2>1, ConfirmIsTyped DEF TypeInv
  <2> DEFINE batch == From(confirmed', Len(sent))
  <2>3. /\ Len(batch) = Len(sent) - confirmed'
        /\ \A k \in 1..(Len(sent) - confirmed') : batch[k] = confirmed' + k
    BY <1>0, <2>1, <2>2, FromIsTyped
  <2> HIDE DEF batch
  <2>4. gw'.batch = batch /\ gw'.offset = gw.offset
    BY <1>0, <2>1 DEF Gateway, batch
  <2>5. batch[1] = confirmed' + 1
    BY <1>0, <2>1, <2>2, <2>3
  <2>6. QED
    BY <1>0, <2>2, <2>3, <2>4, <2>5 DEF BatchInOrder
<1>4. CASE Take
  <2>1. /\ gw.batch # << >>
        /\ gw'.offset = Head(gw.batch) + 1
        /\ gw'.batch \in {Tail(gw.batch), << >>}
    BY <1>4, TakeEffect DEF TypeInv
  <2>2. CASE gw'.batch = << >>
    BY <2>2 DEF BatchInOrder
  <2>3. CASE gw'.batch = Tail(gw.batch)
    <3>1. /\ Head(gw.batch) = gw.batch[1]
          /\ Len(Tail(gw.batch)) = Len(gw.batch) - 1
          /\ \A k \in 1..(Len(gw.batch) - 1) : Tail(gw.batch)[k] = gw.batch[k + 1]
      BY <1>0, <2>1, BatchIsTyped
    <3>2. Len(gw.batch) \in Nat /\ Len(gw.batch) >= 1
      BY <1>0, <2>1
    <3>3. \A k \in 1..(Len(gw.batch) - 1) : Tail(gw.batch)[k] = gw.batch[1] + k
      BY <1>1, <2>1, <3>1, <3>2 DEF BatchInOrder
    <3>4. Tail(gw.batch) # << >> => Len(gw.batch) - 1 >= 1
      BY <1>0, <2>1, <3>2
    <3>5. \A k \in 1..(Len(gw.batch) - 1) :
            Tail(gw.batch)[k] = Tail(gw.batch)[1] + k - 1
      BY <1>1, <2>1, <3>2, <3>3
    <3>6. Tail(gw.batch) # << >> => Tail(gw.batch)[1] = gw.batch[1] + 1
      BY <3>2, <3>3, <3>4
    <3>7. gw'.offset = gw.batch[1] + 1 /\ gw.batch[1] + 1 \in Nat
      BY <1>1, <2>1, <3>1
    <3>8. QED
      BY <2>3, <3>1, <3>5, <3>6, <3>7 DEF BatchInOrder
  <2>4. QED
    BY <2>1, <2>2, <2>3
<1>5. CASE Quiet
  BY <1>0, <1>1, <1>5 DEF Quiet, BatchInOrder
<1>6. QED
  BY <1>2, <1>3, <1>4, <1>5, StepKinds

LEMMA OnceStep ==
  TypeInv /\ BatchInOrder /\ OncePerLife /\ [Next]_vars => OncePerLife'
<1> SUFFICES ASSUME TypeInv, BatchInOrder, OncePerLife, [Next]_vars PROVE OncePerLife'
  OBVIOUS
<1>0. /\ gw.batch \in Seq(Ids) /\ gw.offset \in Nat /\ life \in Nat
      /\ forwards \in [Ids -> Nat]
      /\ \A i \in Ids : i \in Nat
  BY BoundsAreNaturals DEF TypeInv, TypeOK, Gateway, Lives, Ids
<1>1. CASE Send \/ PollInVain
  BY <1>1 DEF Send, PollInVain, OncePerLife
<1>2. CASE Poll
  <2>1. gw'.offset = gw.offset /\ UNCHANGED <<life, forwards>>
    BY <1>2 DEF Poll, TypeInv, TypeOK, Gateway
  <2>2. QED
    BY <2>1 DEF OncePerLife
<1>3. CASE Take
  <2> DEFINE id == Head(gw.batch)
  <2>1. /\ gw.batch # << >>
        /\ gw'.offset = id + 1
        /\ UNCHANGED forwards \/ forwards' = [forwards EXCEPT ![id] = @ + 1]
    BY <1>3, TakeEffect DEF TypeInv
  <2>2. id \in Ids /\ id = gw.batch[1]
    BY <1>0, <2>1, BatchIsTyped
  <2> HIDE DEF id
  <2>3. gw.offset <= id /\ UNCHANGED life
    BY <1>3, <2>1, <2>2 DEF BatchInOrder, Take
  <2>4. \A i \in Ids : forwards'[i] <= IF i = id THEN forwards[i] + 1 ELSE forwards[i]
    BY <1>0, <2>1, <2>2
  <2>5. forwards[id] <= life - 1 /\ forwards'[id] <= life /\ forwards'[id] \in Nat
    BY <1>0, <2>1, <2>2, <2>3, <2>4 DEF OncePerLife
  <2>6. ASSUME NEW i \in Ids, i # id
        PROVE  forwards'[i] <= IF i < id + 1 THEN life ELSE life - 1
    <3>1. forwards'[i] = forwards[i]
      BY <1>0, <2>1, <2>2, <2>6
    <3>2. forwards[i] <= IF i < gw.offset THEN life ELSE life - 1
      BY DEF OncePerLife
    <3>3. QED
      BY <1>0, <2>2, <2>3, <3>1, <3>2
  <2>7. QED
    BY <1>0, <2>1, <2>2, <2>3, <2>5, <2>6 DEF OncePerLife
<1>4. CASE Quiet
  <2>1. \A i \in Ids : forwards[i] <= life
    BY <1>0 DEF OncePerLife
  <2>2. QED
    BY <1>0, <1>4, <2>1 DEF Quiet, OncePerLife
<1>5. QED
  BY <1>1, <1>2, <1>3, <1>4, StepKinds

LEMMA PassedStep ==
  TypeInv /\ BatchInOrder /\ NothingPassedOver /\ [Next]_vars => NothingPassedOver'
<1> SUFFICES ASSUME TypeInv, BatchInOrder, NothingPassedOver, [Next]_vars
             PROVE  NothingPassedOver'
  OBVIOUS
<1>1. gw \in Gateway /\ gw.batch \in Seq(Ids) /\ gw.offset \in Nat /\ Len(gw.batch) \in Nat
  BY DEF TypeInv, TypeOK, Gateway
<1>2. confirmed \in Nat /\ Len(sent) \in Nat /\ sent \in Seq(Update)
  BY DEF TypeInv, TypeOK
<1>3. \A i \in Ids : i \in Nat /\ forwards[i] \in Nat
  BY BoundsAreNaturals DEF TypeInv, TypeOK, Ids
<1>4. /\ Untried \subseteq 1..Len(sent) /\ Untried \subseteq Ids
      /\ \A i \in Untried : i \in Nat
  BY <1>2, BoundsAreNaturals DEF Untried, TypeInv, TypeOK, Ids
<1>5. gw.batch # << >> => gw.batch[1] \in Nat /\ gw.batch[1] \in Ids
  BY <1>1, <1>3, BatchIsTyped
<1>6. ASSUME UNCHANGED <<sent, forwards>> PROVE Untried' = Untried
  BY <1>6 DEF Untried, Tried
<1>7. CASE Send
  <2>1. PICK u \in Update : sent' = Append(sent, u)
    BY <1>7, UpdatesAreSent DEF TypeInv
  <2>2. UNCHANGED <<gw, confirmed, forwards>>
    BY <1>7 DEF Send
  <2>3. Len(sent') = Len(sent) + 1 /\ \A i \in 1..Len(sent) : sent'[i] = sent[i]
    BY <1>2, <2>1
  <2>4. \A i \in Untried' : i \in Untried \/ i = Len(sent) + 1
    BY <1>2, <2>2, <2>3 DEF Untried, Tried
  <2>5. gw.offset <= Len(sent) + 1 /\ confirmed <= Len(sent)
    BY DEF TypeInv, TypeOK, WithinSent
  <2>6. gw.batch # << >> => gw.batch[1] <= Len(sent)
    <3>1. gw.batch # << >> => 1 \in 1..Len(gw.batch)
      BY <1>1
    <3>2. QED
      BY <3>1 DEF TypeInv, WithinSent
  <2>7. ASSUME NEW i \in Untried'
        PROVE  /\ confirmed < i /\ gw.offset <= i
               /\ gw.batch # << >> => gw.batch[1] <= i
               /\ \A j \in Ids : forwards[j] > 0 => j < i
    <3>1. CASE i \in Untried
      BY <3>1 DEF NothingPassedOver
    <3>2. CASE i = Len(sent) + 1
      BY <1>1, <1>2, <1>3, <1>5, <2>5, <2>6, <3>2 DEF NothingPassedOver
    <3>3. QED
      BY <2>4, <3>1, <3>2
  <2>8. \A j \in Ids : forwards[j] > 0 => j <= Len(sent')
    BY <1>2, <1>3, <2>3 DEF NothingPassedOver
  <2>9. QED
    BY <2>2, <2>7, <2>8 DEF NothingPassedOver
<1>8. CASE Poll \/ PollInVain
  <2>1. UNCHANGED <<sent, forwards>> /\ gw'.offset = gw.offset /\ confirmed' = Confirm(gw.offset)
    BY <1>8 DEF Poll, PollInVain, TypeInv, TypeOK, Gateway
  <2>2. confirmed' \in Nat /\ (confirmed' = confirmed \/ confirmed' = gw.offset - 1)
    BY <1>1, <2>1, ConfirmIsTyped DEF TypeInv
  <2>3. \A i \in Untried : confirmed' < i
    BY <1>1, <1>4, <2>2 DEF NothingPassedOver
  <2>4. gw'.batch # << >> => gw'.batch[1] = confirmed' + 1 \/ gw'.batch = gw.batch
    <3>1. CASE PollInVain
      BY <3>1 DEF PollInVain
    <3>2. CASE Poll
      <4>1. confirmed' < Len(sent) /\ gw'.batch = From(confirmed', Len(sent))
        BY <3>2 DEF Poll, TypeInv, TypeOK, Gateway
      <4>2. 1 \in 1..(Len(sent) - confirmed')
        BY <1>2, <2>2, <4>1
      <4>3. QED
        BY <1>2, <2>2, <4>1, <4>2, FromIsTyped
    <3>3. QED
      BY <1>8, <3>1, <3>2
  <2>5. \A i \in Untried : gw'.batch # << >> => gw'.batch[1] <= i
    BY <1>4, <2>2, <2>3, <2>4 DEF NothingPassedOver
  <2>6. Untried' = Untried
    BY <1>6, <2>1
  <2>7. QED
    BY <2>1, <2>3, <2>5, <2>6 DEF NothingPassedOver
<1>9. CASE Take
  <2>0. gw.batch # << >>
    BY <1>9 DEF Take
  <2> PICK id \in Ids : id = Head(gw.batch)
    BY <1>1, <2>0, BatchIsTyped
  <2>1. /\ gw'.offset = id + 1
        /\ gw'.batch \in {Tail(gw.batch), << >>}
        /\ \/ sent[id].what = "photo" /\ UNCHANGED forwards
           \/ forwards' = [forwards EXCEPT ![id] = @ + 1]
    BY <1>9, TakeEffect DEF TypeInv
  <2>2. /\ id = gw.batch[1] /\ id \in Nat
        /\ Tail(gw.batch) \in Seq(Ids)
        /\ Len(Tail(gw.batch)) = Len(gw.batch) - 1
        /\ \A k \in 1..(Len(gw.batch) - 1) : Tail(gw.batch)[k] = gw.batch[k + 1]
    BY <1>1, <1>3, <2>0, BatchIsTyped
  <2>3. UNCHANGED <<sent, confirmed>>
    BY <1>9 DEF Take
  <2>4. \A j \in Ids : j # id => forwards'[j] = forwards[j]
    <3>1. CASE UNCHANGED forwards
      BY <3>1
    <3>2. CASE forwards' = [forwards EXCEPT ![id] = @ + 1]
      BY <3>2 DEF TypeInv, TypeOK
    <3>3. QED
      BY <2>1, <3>1, <3>2
  <2>5. Tried(id)'
    <3>1. CASE sent[id].what = "photo"
      BY <2>3, <3>1 DEF Tried
    <3>2. CASE forwards' = [forwards EXCEPT ![id] = @ + 1]
      <4>1. forwards'[id] = forwards[id] + 1
        BY <2>2, <3>2 DEF TypeInv, TypeOK
      <4>2. QED
        BY <1>3, <2>2, <4>1 DEF Tried
    <3>3. QED
      BY <2>1, <3>1, <3>2
  <2>6. \A i \in Untried' : i \in Untried /\ i # id
    <3>1. ASSUME NEW i \in Untried' PROVE i \in Untried /\ i # id
      <4>1. i \in 1..Len(sent) /\ ~Tried(i)'
        BY <2>3 DEF Untried
      <4>2. i # id
        BY <2>5, <4>1 DEF Tried
      <4>3. i \in Ids
        BY <1>2, <4>1, BoundsAreNaturals DEF TypeInv, TypeOK, Ids
      <4>4. ~Tried(i)
        BY <2>3, <2>4, <4>1, <4>2, <4>3 DEF Tried
      <4>5. QED
        BY <4>1, <4>2, <4>4 DEF Untried
    <3>2. QED
      BY <3>1
  <2>7. \A i \in Untried' : id < i
    <3>1. ASSUME NEW i \in Untried' PROVE id < i
      <4>1. i \in Untried /\ i # id
        BY <2>6
      <4>2. i \in Nat /\ gw.batch[1] <= i
        BY <1>4, <2>0, <4>1 DEF NothingPassedOver
      <4>3. QED
        BY <2>2, <4>1, <4>2
    <3>2. QED
      BY <3>1
  <2>8. gw'.batch # << >> => gw'.batch[1] = id + 1
    <3>1. ASSUME Tail(gw.batch) # << >> PROVE Tail(gw.batch)[1] = id + 1
      <4>1. Len(Tail(gw.batch)) >= 1
        BY <2>2, <3>1
      <4>2. 2 \in 1..Len(gw.batch) /\ Tail(gw.batch)[1] = gw.batch[2]
        BY <1>1, <2>2, <4>1
      <4>3. QED
        BY <2>2, <4>2 DEF BatchInOrder
    <3>2. QED
      BY <2>1, <3>1
  <2>9. id <= Len(sent)
    <3>1. 1 \in 1..Len(gw.batch)
      BY <1>1, <2>0
    <3>2. QED
      BY <2>2, <3>1 DEF TypeInv, WithinSent
  <2>10. \A j \in Ids : forwards'[j] > 0 => j <= Len(sent)
    BY <2>4, <2>9 DEF NothingPassedOver
  <2>11. ASSUME NEW i \in Untried'
         PROVE  /\ confirmed < i
                /\ id + 1 <= i
                /\ \A j \in Ids : forwards'[j] > 0 => j < i
    <3>1. i \in Untried /\ i \in Nat /\ id < i
      BY <1>4, <2>6, <2>7
    <3>2. QED
      BY <2>2, <2>4, <3>1 DEF NothingPassedOver
  <2>12. QED
    BY <2>1, <2>3, <2>8, <2>10, <2>11 DEF NothingPassedOver
<1>10. CASE Quiet
  <2>1. Untried' = Untried
    BY <1>6, <1>10 DEF Quiet
  <2>2. \A i \in Untried : 0 <= i
    BY <1>4
  <2>3. \A i \in Untried : gw'.offset <= i
    BY <1>10, <2>2 DEF Quiet, NothingPassedOver
  <2>4. gw'.batch # << >> => gw'.batch = gw.batch
    BY <1>10 DEF Quiet
  <2>5. UNCHANGED <<sent, confirmed, forwards>>
    BY <1>10 DEF Quiet
  <2>6. QED
    BY <2>1, <2>3, <2>4, <2>5 DEF NothingPassedOver
<1>11. QED
  BY <1>7, <1>8, <1>9, <1>10, StepKinds

-----------------------------------------------------------------------------
(* The lives and ids of threads and tasks are numbers. *)
LEMMA NumbersOfThreads ==
  ASSUME TypeOK
  PROVE  /\ \A t \in threads \cup tasks : t.life \in Nat /\ t.id \in Nat
         /\ life \in Nat /\ gw.offset \in Nat
BY BoundsAreNaturals DEF TypeOK, Thread, Task, Lives, Ids, Gateway

(* Threads may end, the offset may grow, a new life may begin. *)
LEMMA FewerThreads ==
  ASSUME TypeInv, TypeInv', OneThreadPerForward,
         threads' \subseteq threads, tasks' = tasks,
         \/ life' = life /\ gw'.offset >= gw.offset
         \/ life' = life + 1
  PROVE  OneThreadPerForward'
<1>1. /\ \A t \in threads \cup tasks : t.life \in Nat /\ t.id \in Nat
      /\ life \in Nat /\ gw.offset \in Nat
  BY NumbersOfThreads DEF TypeInv
<1>2. life' \in Nat /\ gw'.offset \in Nat
  BY BoundsAreNaturals DEF TypeInv, TypeOK, Lives, Gateway
<1>3. ASSUME NEW t \in threads' \cup tasks'
      PROVE  t.life <= life' /\ (t.life = life' => t.id < gw'.offset)
  <2>1. t \in threads \cup tasks
    OBVIOUS
  <2>2. t.life <= life /\ (t.life = life => t.id < gw.offset)
    BY <2>1 DEF OneThreadPerForward
  <2>3. t.life \in Nat /\ t.id \in Nat
    BY <1>1, <2>1
  <2>4. QED
    BY <1>1, <1>2, <2>2, <2>3
<1>4. QED
  BY <1>3 DEF OneThreadPerForward

(* A thread that changes its state, with a task if it was queued. *)
LEMMA OneThreadMoves ==
  ASSUME TypeInv, OneThreadPerForward,
         NEW t \in threads, NEW state \in {"running", "done"}, To(t, state),
         life' = life, gw' = gw,
         \/ tasks' = tasks
         \/ t.state = "queued" /\ \E new \in Task :
              new.life = t.life /\ new.id = t.id /\ tasks' = tasks \cup {new}
  PROVE  OneThreadPerForward'
<1>1. \A u \in threads' :
        u \in threads \ {t} \/ (u.id = t.id /\ u.life = t.life /\ u.state = state)
  BY ToIsTyped DEF TypeInv
<1>2. \A u, v \in threads' : u \notin threads /\ v \notin threads => u = v
  BY ToIsTyped DEF TypeInv
<1>3. \A u \in tasks' : u \in tasks \/
        (t.state = "queued" /\ u.id = t.id /\ u.life = t.life)
  OBVIOUS
<1>4. ASSUME NEW u \in threads' \cup tasks'
      PROVE  u.life <= life /\ (u.life = life => u.id < gw.offset)
  <2>1. PICK v \in threads \cup tasks : v.life = u.life /\ v.id = u.id
    BY <1>1, <1>3
  <2>2. QED
    BY <2>1 DEF OneThreadPerForward
<1>5. ASSUME NEW u \in threads', NEW v \in threads', u.life = v.life, u.id = v.id
      PROVE  u = v
  <2>1. CASE u \in threads \ {t} /\ v \in threads \ {t}
    BY <1>5, <2>1 DEF OneThreadPerForward
  <2>2. CASE u \in threads \ {t} /\ v \notin threads \ {t}
    <3>1. v.id = t.id /\ v.life = t.life
      BY <1>1, <2>2
    <3>2. QED
      BY <1>5, <2>2, <3>1 DEF OneThreadPerForward
  <2>3. CASE u \notin threads \ {t} /\ v \in threads \ {t}
    <3>1. u.id = t.id /\ u.life = t.life
      BY <1>1, <2>3
    <3>2. QED
      BY <1>5, <2>3, <3>1 DEF OneThreadPerForward
  <2>4. CASE u \notin threads \ {t} /\ v \notin threads \ {t}
    BY <2>4 DEF To
  <2>5. QED
    BY <2>1, <2>2, <2>3, <2>4
<1>6. ASSUME NEW s \in tasks', NEW u \in threads', s.life = u.life, s.id = u.id
      PROVE  u.state # "queued"
  <2>1. CASE u \notin threads \ {t}
    BY <1>1, <2>1
  <2>2. CASE u \in threads \ {t} /\ s \in tasks
    BY <1>6, <2>2 DEF OneThreadPerForward
  <2>3. CASE u \in threads \ {t} /\ s \notin tasks
    <3>1. s.id = t.id /\ s.life = t.life
      BY <1>3, <2>3
    <3>2. QED
      BY <1>6, <2>3, <3>1 DEF OneThreadPerForward
  <2>4. QED
    BY <2>1, <2>2, <2>3
<1>7. ASSUME NEW r \in tasks', NEW s \in tasks', r.life = s.life, r.id = s.id
      PROVE  r = s
  <2>1. CASE r \in tasks /\ s \in tasks
    BY <1>7, <2>1 DEF OneThreadPerForward
  <2>2. CASE r \notin tasks /\ s \notin tasks
    BY <2>2
  <2>3. CASE r \in tasks /\ s \notin tasks
    <3>1. t.state = "queued" /\ s.id = t.id /\ s.life = t.life
      BY <1>3, <2>3
    <3>2. QED
      BY <1>7, <2>3, <3>1 DEF OneThreadPerForward
  <2>4. CASE r \notin tasks /\ s \in tasks
    <3>1. t.state = "queued" /\ r.id = t.id /\ r.life = t.life
      BY <1>3, <2>4
    <3>2. QED
      BY <1>7, <2>4, <3>1 DEF OneThreadPerForward
  <2>5. QED
    BY <2>1, <2>2, <2>3, <2>4
<1>8. QED
  BY <1>4, <1>5, <1>6, <1>7 DEF OneThreadPerForward

LEMMA ThreadStep ==
  TypeInv /\ BatchInOrder /\ OneThreadPerForward /\ [Next]_vars => OneThreadPerForward'
<1> SUFFICES ASSUME TypeInv, BatchInOrder, OneThreadPerForward, [Next]_vars
             PROVE  OneThreadPerForward'
  OBVIOUS
<1>0. TypeInv' /\ gw \in Gateway /\ gw.batch \in Seq(Ids) /\ gw.offset \in Nat
  BY TypeStep DEF TypeInv, TypeOK, Gateway
<1>1. CASE Send \/ Poll \/ PollInVain \/ EndOfBatch \/ Crash \/ UNCHANGED vars
  <2>1. threads' \subseteq threads /\ tasks' = tasks /\ life' = life
    BY <1>1 DEF Send, Poll, PollInVain, EndOfBatch, Crash, vars, service
  <2>2. gw'.offset = gw.offset
    BY <1>0, <1>1 DEF Send, Poll, PollInVain, EndOfBatch, Crash, vars, Gateway
  <2>3. QED
    BY <1>0, <2>1, <2>2, FewerThreads
<1>2. CASE Answer
  <2>1. threads' \subseteq threads /\ tasks' = tasks /\ life' = life
    BY <1>2 DEF Answer
  <2>2. CASE Abort
    BY <1>0, <2>1, <2>2, AbortIsTyped, FewerThreads DEF TypeInv
  <2>3. CASE ~Abort
    <3>1. gw' = [gw EXCEPT !.pc = "batch", !.item = 0]
      BY <1>2, <2>3 DEF Answer
    <3>2. gw'.offset = gw.offset
      BY <1>0, <3>1 DEF Gateway
    <3>3. QED
      BY <1>0, <2>1, <3>2, FewerThreads
  <2>4. QED
    BY <2>2, <2>3
<1>3. CASE ForwardFails
  <2>1. threads' \subseteq threads /\ tasks' = tasks /\ life' = life /\ Abort
    BY <1>3 DEF ForwardFails
  <2>2. gw'.offset = gw.offset
    BY <2>1, AbortIsTyped DEF TypeInv
  <2>3. QED
    BY <1>0, <2>1, <2>2, FewerThreads
<1>4. CASE Restart
  <2>1. threads' \subseteq threads /\ tasks' = tasks /\ life' = life + 1
    BY <1>4 DEF Restart
  <2>2. QED
    BY <1>0, <2>1, FewerThreads
<1>5. CASE Take
  <2>0. gw.batch # << >> /\ tasks' = tasks /\ life' = life
    BY <1>5 DEF Take
  <2> PICK id \in Ids : id = Head(gw.batch)
    BY <1>0, <2>0, BatchIsTyped
  <2> DEFINE new == [life |-> life, id |-> id, state |-> "queued"]
  <2>1. gw'.offset = id + 1 /\ threads' \in {threads, threads \cup {new}}
    BY <1>5, TakeEffect DEF TypeInv
  <2>2. id \in Nat /\ gw.offset <= id
    BY <1>0, <2>0, BatchIsTyped, BoundsAreNaturals DEF BatchInOrder, Ids
  <2>3. CASE threads' = threads
    BY <1>0, <2>0, <2>1, <2>2, <2>3, FewerThreads
  <2>4. CASE threads' = threads \cup {new}
    <3>0. new.life = life /\ new.id = id
      OBVIOUS
    <3> HIDE DEF new
    <3>1. /\ \A t \in threads \cup tasks : t.life \in Nat /\ t.id \in Nat
          /\ life \in Nat /\ gw.offset \in Nat
      BY NumbersOfThreads DEF TypeInv
    <3>2. ASSUME NEW t \in threads \cup tasks
          PROVE  /\ t.life <= life
                 /\ t.life = life => t.id < id
      <4>1. t.life <= life /\ (t.life = life => t.id < gw.offset)
        BY DEF OneThreadPerForward
      <4>2. QED
        BY <2>2, <3>1, <4>1
    <3>3. \A t \in threads \cup tasks : ~(t.life = life /\ t.id = id)
      BY <2>2, <3>1, <3>2
    <3>4. \A t \in threads' \cup tasks' :
            t.life <= life' /\ (t.life = life' => t.id < gw'.offset)
      BY <2>0, <2>1, <2>2, <2>4, <3>0, <3>1, <3>2
    <3>5. \A s, t \in threads' : s.life = t.life /\ s.id = t.id => s = t
      BY <2>4, <3>0, <3>3 DEF OneThreadPerForward
    <3>6. \A s \in tasks', t \in threads' :
            s.life = t.life /\ s.id = t.id => t.state # "queued"
      BY <2>0, <2>4, <3>0, <3>3 DEF OneThreadPerForward
    <3>7. \A s, t \in tasks' : s.life = t.life /\ s.id = t.id => s = t
      BY <2>0 DEF OneThreadPerForward
    <3>8. QED
      BY <3>4, <3>5, <3>6, <3>7 DEF OneThreadPerForward
  <2>5. QED
    BY <2>1, <2>3, <2>4
<1>6. ASSUME NEW t \in threads, Handle(t) PROVE OneThreadPerForward'
  <2>1. t.state = "queued" /\ UNCHANGED <<gw, life>>
    BY <1>6 DEF Handle
  <2>2. CASE UNCHANGED tasks
    <3>1. \E state \in {"running", "done"} : To(t, state)
      BY <1>6 DEF Handle
    <3>2. QED
      BY <2>1, <2>2, <3>1, OneThreadMoves
  <2>3. CASE ~UNCHANGED tasks
    <3>1. PICK new \in Task :
            /\ new.life = t.life /\ new.id = t.id
            /\ tasks' = tasks \cup {new}
            /\ To(t, "running")
      BY <1>6, <2>3, HandledTask
    <3>2. QED
      BY <2>1, <3>1, OneThreadMoves
  <2>4. QED
    BY <2>2, <2>3
<1>7. ASSUME NEW t \in threads, Finish(t) PROVE OneThreadPerForward'
  <2>1. To(t, "done") /\ UNCHANGED <<gw, life, tasks>>
    BY <1>7 DEF Finish
  <2>2. QED
    BY <2>1, OneThreadMoves
<1>8. QED
  BY <1>1, <1>2, <1>3, <1>4, <1>5, <1>6, <1>7 DEF Next, Step

-----------------------------------------------------------------------------
LEMMA InvInit == Init => Inv
<1> SUFFICES ASSUME Init PROVE Inv
  OBVIOUS
<1>1. TypeOK
  BY TypeInit
<1>2. /\ gw.offset = 0 /\ gw.batch = << >> /\ sent = << >> /\ Len(sent) = 0
      /\ threads = {} /\ tasks = {} /\ life = 1 /\ \A i \in Ids : forwards[i] = 0
  BY DEF Init, NewGateway
<1>3. WithinSent /\ WaitsForAnUpdate /\ BatchInOrder /\ OneThreadPerForward
  BY <1>2 DEF Init, NewGateway, WithinSent, WaitsForAnUpdate, BatchInOrder, OneThreadPerForward
<1>4. NothingPassedOver
  BY <1>2 DEF NothingPassedOver, Untried
<1>5. OncePerLife
  BY <1>2 DEF OncePerLife
<1>6. QED
  BY <1>1, <1>3, <1>4, <1>5 DEF Inv, TypeInv

LEMMA InvStep == Inv /\ [Next]_vars => Inv'
BY TypeStep, BatchStep, PassedStep, OnceStep, ThreadStep DEF Inv

LEMMA Invariance == Spec => []Inv
BY InvInit, InvStep, PTL DEF Spec

(* The types hold in every reachable state. *)
THEOREM TypeCorrect == Spec => []TypeOK
<1>1. Inv => TypeOK
  BY DEF Inv, TypeInv
<1>2. QED
  BY <1>1, Invariance, PTL

(* Failed forwards, lost answers of the bot server and restarts of either  *)
(* process leave no update behind that was neither ignored for want of a   *)
(* text nor forwarded.                                                     *)
THEOREM EveryUpdateIsReached == Spec => []NoUpdateIsSkipped
<1>1. Inv => NoUpdateIsSkipped
  <2> SUFFICES ASSUME Inv,
                      NEW i \in 1..Len(sent),
                      i <= confirmed \/ \E j \in (i + 1)..Len(sent) : forwards[j] > 0
               PROVE  Tried(i)
    BY DEF NoUpdateIsSkipped
  <2>1. Len(sent) \in Nat /\ confirmed \in Nat /\ 1..Len(sent) \subseteq Ids
    BY BoundsAreNaturals DEF Inv, TypeInv, TypeOK, Ids
  <2>2. i \notin Untried
    <3>1. CASE i <= confirmed
      BY <2>1, <3>1 DEF Inv, NothingPassedOver
    <3>2. CASE \E j \in (i + 1)..Len(sent) : forwards[j] > 0
      <4>1. PICK j \in (i + 1)..Len(sent) : forwards[j] > 0
        BY <3>2
      <4>2. j \in Ids /\ ~(j < i)
        BY <2>1, <4>1
      <4>3. QED
        BY <4>1, <4>2 DEF Inv, NothingPassedOver
    <3>3. QED
      BY <3>1, <3>2
  <2>3. QED
    BY <2>2 DEF Untried
<1>2. QED
  BY <1>1, Invariance, PTL

(* No life of the gateway forwards an update twice, and no update creates  *)
(* two tasks in one life.                                                  *)
THEOREM NoForwardIsRepeated == Spec => []ForwardedOncePerLife
<1>1. Inv => ForwardedOncePerLife
  <2> SUFFICES ASSUME Inv, NEW i \in Ids PROVE
        /\ forwards[i] <= life
        /\ \A s, t \in tasks : s.id = i /\ t.id = i /\ s.life = t.life => s = t
    BY DEF ForwardedOncePerLife
  <2>1. forwards[i] \in Nat /\ life \in Nat
    BY BoundsAreNaturals DEF Inv, TypeInv, TypeOK, Lives
  <2>2. forwards[i] <= life
    BY <2>1 DEF Inv, OncePerLife
  <2>3. QED
    BY <2>2 DEF Inv, OneThreadPerForward
<1>2. QED
  BY <1>1, Invariance, PTL

-----------------------------------------------------------------------------
(* What the chat says, and what the service has made of it.                *)

(* The updates before n in which the user sets what. *)
Given(user, what, n) ==
  {i \in 1..(n - 1) : sent[i].user = user /\ Sets(sent[i], what)}

(* value is what they leave, but for those that were given up. *)
Follows(user, what, n, value) ==
  \/ value = Default /\ Given(user, what, n) \subseteq givenUp
  \/ \E i \in Given(user, what, n) :
       /\ value = sent[i][what]
       /\ i \in givenUp \/ \A j \in Given(user, what, n) \ givenUp : j <= i

(* The first update that the event loop has not had in its turn. *)
Handled ==
  IF \E t \in threads : t.state = "queued" /\ Awaited(t)
  THEN gw.offset - 1 ELSE gw.offset

(* In the first life every thread is the one that the gateway waits for,   *)
(* or was given up, and what was given up is behind it.                    *)
LateIsGivenUp ==
  life = 1 =>
    /\ \A t \in threads : Awaited(t) \/ t.id \in givenUp
    /\ \A i \in givenUp : i < gw.offset
    /\ gw.pc = "waiting" => gw.offset = gw.item + 1 /\ gw.item \notin givenUp

PrefsAreCurrent ==
  life = 1 /\ crashes = 0 =>
    \A user \in Users, what \in Settings :
      Follows(user, what, Handled, prefs[user][what])

TaskWasCurrent(t) ==
  \A what \in Settings :
    IF sent[t.id][what] # Absent THEN t.prefs[what] = sent[t.id][what]
    ELSE Follows(sent[t.id].user, what, t.id, t.prefs[what])

TasksWereCurrent ==
  crashes = 0 => \A t \in tasks : t.life = 1 /\ t.awaited => TaskWasCurrent(t)

PrefsFollowTheChat == LateIsGivenUp /\ PrefsAreCurrent /\ TasksWereCurrent

(* What holds of the chat so far goes on to hold when the chat goes on and *)
(* more is given up, if all that has come since was given up.              *)
LEMMA FollowsOn ==
  ASSUME NEW user, NEW what, NEW value, NEW n, NEW m,
         Follows(user, what, n, value),
         givenUp \subseteq givenUp',
         Given(user, what, n) \subseteq Given(user, what, m)',
         Given(user, what, m)' \ givenUp' \subseteq Given(user, what, n),
         \A i \in Given(user, what, n) : sent'[i] = sent[i]
  PROVE  Follows(user, what, m, value)'
<1>. DEFINE G == Given(user, what, n)
            H == Given(user, what, m)'
<1>1. G \subseteq H /\ H \ givenUp' \subseteq G /\ \A i \in G : sent'[i] = sent[i]
  OBVIOUS
<1>2. \/ value = Default /\ G \subseteq givenUp
      \/ \E i \in G : /\ value = sent[i][what]
                      /\ i \in givenUp \/ \A j \in G \ givenUp : j <= i
  BY DEF Follows
<1>. SUFFICES \/ value = Default /\ H \subseteq givenUp'
              \/ \E i \in H : /\ value = sent'[i][what]
                              /\ i \in givenUp' \/ \A j \in H \ givenUp' : j <= i
  BY DEF Follows
<1>. HIDE DEF G, H
<1>. QED  BY <1>1, <1>2

(* The numbers and the places of the gateway. *)
LEMMA Places ==
  ASSUME TypeInv
  PROVE  /\ gw \in Gateway /\ gw.batch \in Seq(Ids) /\ gw.offset \in Nat
         /\ Len(sent) \in Nat /\ gw.offset <= Len(sent) + 1
         /\ life \in Nat /\ life >= 1 /\ gw.item \in Nat
         /\ Handled \in Int /\ Handled <= gw.offset
         /\ \A i \in Ids : i \in Nat /\ i >= 1
         /\ \A t \in threads \cup tasks : t.id \in 1..Len(sent)
         /\ \A i \in 1..Len(sent) : sent[i] \in Update
<1>1. /\ gw \in Gateway /\ gw.batch \in Seq(Ids) /\ gw.offset \in Nat
      /\ Len(sent) \in Nat /\ gw.offset <= Len(sent) + 1
      /\ gw.item \in {0} \cup Ids
      /\ threads \subseteq Thread /\ tasks \subseteq Task
      /\ \A t \in threads \cup tasks : t.id <= Len(sent)
  BY DEF TypeInv, TypeOK, WithinSent, Gateway
<1>2. life \in Nat /\ life >= 1 /\ \A i \in Ids : i \in Nat /\ i >= 1
  BY BoundsAreNaturals DEF TypeInv, TypeOK, Lives, Ids
<1>3. \A t \in threads \cup tasks : t.id \in 1..Len(sent)
  BY <1>1, <1>2 DEF Thread, Task
<1>4. \A i \in 1..Len(sent) : sent[i] \in Update
  BY DEF TypeInv, TypeOK
<1>. QED  BY <1>1, <1>2, <1>3, <1>4 DEF Handled

(* What has been said stays when the chat goes on. *)
LEMMA SaidStays ==
  ASSUME TypeInv, Send \/ UNCHANGED sent, NEW user, NEW what,
         NEW n \in Int, n <= Len(sent) + 1
  PROVE  /\ Given(user, what, n)' = Given(user, what, n)
         /\ \A i \in Given(user, what, n) : sent'[i] = sent[i]
<1>1. sent \in Seq(Update) /\ Len(sent) \in Nat
  BY DEF TypeInv, TypeOK
<1>2. \A i \in 1..(n - 1) : sent'[i] = sent[i]
  <2>1. CASE Send
    BY <1>1, <2>1, UpdatesAreSent DEF TypeInv
  <2>2. CASE UNCHANGED sent
    BY <2>2
  <2>. QED  BY <2>1, <2>2
<1>3. Given(user, what, n)' =
        {i \in 1..(n - 1) : sent'[i].user = user /\ Sets(sent'[i], what)}
  BY DEF Given, Sets, Permitted
<1>. QED  BY <1>2, <1>3 DEF Given

(* In the first life, what is not forwarded yet but comes before the head  *)
(* of the batch has no text.                                               *)
LEMMA OnlyPhotosBetween ==
  ASSUME Inv, life = 1, gw.batch # << >>,
         NEW i \in 1..Len(sent), gw.offset <= i, i < Head(gw.batch)
  PROVE  sent[i].what = "photo"
<1>1. /\ gw.offset \in Nat /\ gw.batch \in Seq(Ids) /\ Len(sent) \in Nat
      /\ \A j \in Ids : j \in Nat /\ forwards[j] \in Nat
  BY Places DEF Inv, TypeInv, TypeOK
<1>2. i \in Ids
  BY <1>1, BoundsAreNaturals DEF Inv, TypeInv, TypeOK, Ids
<1>3. forwards[i] <= 0
  BY <1>1, <1>2 DEF Inv, OncePerLife
<1>4. i \notin Untried
  BY <1>1, BatchIsTyped DEF Inv, NothingPassedOver
<1>. QED  BY <1>1, <1>2, <1>3, <1>4 DEF Untried, Tried

-----------------------------------------------------------------------------
(* A thread that the gateway waits for is the only one of its kind. *)
LEMMA OneIsAwaited ==
  ASSUME Inv, NEW t \in threads, NEW u \in threads, Awaited(t), Awaited(u)
  PROVE  t = u
BY DEF Inv, OneThreadPerForward, Awaited

LEMMA LateInit == Init => LateIsGivenUp
BY DEF Init, NewGateway, LateIsGivenUp

LEMMA LateStep == Inv /\ LateIsGivenUp /\ [Next]_vars => LateIsGivenUp'
<1>. SUFFICES ASSUME Inv, LateIsGivenUp, [Next]_vars, life' = 1
              PROVE  LateIsGivenUp'
  BY DEF LateIsGivenUp
<1>0. /\ TypeInv /\ gw \in Gateway /\ gw.offset \in Nat /\ gw.item \in Nat
      /\ gw.batch \in Seq(Ids) /\ life \in Nat /\ life >= 1
      /\ threads \subseteq Thread /\ givenUp \subseteq Ids
      /\ \A i \in Ids : i \in Nat /\ i >= 1
  BY Places DEF Inv, TypeInv, TypeOK
<1>1. ~Restart /\ life = 1 /\ life' = life
  BY <1>0 DEF Next, Step, Send, Poll, PollInVain, Take, EndOfBatch, Answer,
     ForwardFails, Restart, Crash, Handle, Finish, vars
<1>2. /\ \A t \in threads : Awaited(t) \/ t.id \in givenUp
      /\ \A i \in givenUp : i < gw.offset
      /\ gw.pc = "waiting" => gw.offset = gw.item + 1 /\ gw.item \notin givenUp
  BY <1>1 DEF LateIsGivenUp
<1>3. CASE Send \/ PollInVain \/ Crash \/ UNCHANGED vars
  <2>1. UNCHANGED <<gw, givenUp>> /\ threads' \subseteq threads
    BY <1>3 DEF Send, PollInVain, Crash, vars, service
  <2>. QED  BY <1>1, <1>2, <2>1 DEF LateIsGivenUp, Awaited
<1>4. CASE Poll \/ EndOfBatch
  <2>1. /\ UNCHANGED <<threads, givenUp>>
        /\ gw'.pc # "waiting" /\ gw'.offset = gw.offset /\ gw.pc # "waiting"
    BY <1>0, <1>4 DEF Poll, EndOfBatch, service, Gateway
  <2>. QED  BY <1>1, <1>2, <2>1 DEF LateIsGivenUp, Awaited
<1>5. CASE Take
  <2>0. gw.batch # << >> /\ gw.pc = "batch" /\ life' = life
    BY <1>5 DEF Take
  <2>. PICK id \in Ids : id = Head(gw.batch)
    BY <1>0, <2>0, BatchIsTyped
  <2>1. gw.offset <= id
    BY <1>0, <2>0, BatchIsTyped DEF Inv, BatchInOrder
  <2>. DEFINE next == [gw EXCEPT !.offset = id + 1, !.batch = Tail(@)]
              new == [life |-> life, id |-> id, state |-> "queued"]
  <2>2. \/ gw' = next /\ UNCHANGED <<threads, givenUp>>
        \/ /\ gw' = [next EXCEPT !.pc = "waiting", !.item = id]
           /\ threads' = threads \cup {new} /\ UNCHANGED givenUp
        \/ /\ gw' = [next EXCEPT !.pc = "poll", !.batch = << >>]
           /\ givenUp' = givenUp \cup {id} /\ UNCHANGED threads
    BY <1>5 DEF Take
  <2>3. /\ gw'.offset = id + 1
        /\ \/ gw'.pc = "batch" /\ UNCHANGED <<threads, givenUp>>
           \/ /\ gw'.pc = "waiting" /\ gw'.item = id
              /\ threads' = threads \cup {new} /\ UNCHANGED givenUp
           \/ /\ gw'.pc = "poll"
              /\ givenUp' = givenUp \cup {id} /\ UNCHANGED threads
    BY <1>0, <2>0, <2>2 DEF Gateway
  <2>4. \A t \in threads : t.id \in givenUp
    BY <1>2, <2>0 DEF Awaited
  <2>5. new.life = life /\ new.id = id
    OBVIOUS
  <2>. HIDE DEF new
  <2>6. \A t \in threads' : Awaited(t)' \/ t.id \in givenUp'
    BY <2>0, <2>3, <2>4, <2>5 DEF Awaited
  <2>7. \A i \in givenUp' : i < gw'.offset
    BY <1>0, <1>2, <2>1, <2>3
  <2>8. gw'.pc = "waiting" => gw'.offset = gw'.item + 1 /\ gw'.item \notin givenUp'
    BY <1>0, <1>2, <2>1, <2>3
  <2>. QED  BY <2>6, <2>7, <2>8 DEF LateIsGivenUp
<1>6. CASE Answer
  <2>. PICK t \in threads : Awaited(t) /\ threads' = threads \ {t}
    BY <1>6 DEF Answer
  <2>1. gw'.pc # "waiting" /\ gw'.offset = gw.offset /\ UNCHANGED givenUp
    BY <1>0, <1>6 DEF Answer, Abort, Gateway
  <2>2. \A u \in threads' : u.id \in givenUp
    BY <1>2, OneIsAwaited
  <2>. QED  BY <1>2, <2>1, <2>2 DEF LateIsGivenUp
<1>7. CASE ForwardFails
  <2>1. /\ gw.pc = "waiting" /\ givenUp' = givenUp \cup {gw.item}
        /\ threads' \subseteq threads
        /\ gw'.pc # "waiting" /\ gw'.offset = gw.offset
    BY <1>0, <1>7 DEF ForwardFails, Abort, Gateway
  <2>2. \A u \in threads' : u.id \in givenUp'
    BY <1>2, <2>1 DEF Awaited
  <2>3. \A i \in givenUp' : i < gw'.offset
    BY <1>0, <1>2, <2>1
  <2>. QED  BY <2>1, <2>2, <2>3 DEF LateIsGivenUp
<1>8. ASSUME NEW t \in threads, Handle(t) \/ Finish(t) PROVE LateIsGivenUp'
  <2>1. /\ \E state \in {"running", "done"} : To(t, state)
        /\ UNCHANGED <<gw, givenUp, life>>
    BY <1>8 DEF Handle, Finish
  <2>2. \A u \in threads' : \E v \in threads : u.id = v.id /\ u.life = v.life
    BY <1>0, <2>1, ToIsTyped DEF TypeInv
  <2>3. \A u \in threads' : Awaited(u)' \/ u.id \in givenUp'
    BY <1>2, <2>1, <2>2 DEF Awaited
  <2>. QED  BY <1>2, <2>1, <2>3 DEF LateIsGivenUp
<1>. QED
  BY <1>1, <1>3, <1>4, <1>5, <1>6, <1>7, <1>8 DEF Next, Step

-----------------------------------------------------------------------------
(* A step that leaves the preferences alone, and moves on past updates     *)
(* without a text or given up only.                                        *)
LEMMA PrefsRest ==
  ASSUME Inv, PrefsAreCurrent, life = 1, crashes = 0,
         Send \/ UNCHANGED sent, givenUp \subseteq givenUp', prefs' = prefs,
         NEW n \in Int, n = Handled', Handled <= n, n <= Len(sent) + 1,
         \A i \in 1..Len(sent) :
           Handled <= i /\ i < n => sent[i].what = "photo" \/ i \in givenUp'
  PROVE  PrefsAreCurrent'
<1>0. Len(sent) \in Nat /\ Handled \in Int
  BY Places DEF Inv
<1>. SUFFICES ASSUME NEW user \in Users, NEW what \in Settings
              PROVE  Follows(user, what, Handled, prefs[user][what])'
  BY DEF PrefsAreCurrent
<1>. PICK m \in Int : m = Handled
  BY <1>0
<1>. PICK v : v = prefs[user][what]
  OBVIOUS
<1>1. Follows(user, what, m, v)
  BY DEF PrefsAreCurrent
<1>2. /\ Given(user, what, n)' = Given(user, what, n)
      /\ \A i \in Given(user, what, n) : sent'[i] = sent[i]
  BY SaidStays DEF Inv
<1>3. Given(user, what, m) \subseteq Given(user, what, n)
  BY DEF Given
<1>4. Given(user, what, n) \ givenUp' \subseteq Given(user, what, m)
  <2>. SUFFICES ASSUME NEW i \in Given(user, what, n), i \notin givenUp', ~(i < m)
                PROVE  FALSE
    BY DEF Given
  <2>1. i \in 1..Len(sent) /\ i < n /\ sent[i].what = what
    BY <1>0 DEF Given, Sets
  <2>2. sent[i].what = "photo"
    BY <1>0, <2>1
  <2>. QED  BY <2>1, <2>2 DEF Settings
<1>5. Follows(user, what, n, v)'
  BY <1>1, <1>2, <1>3, <1>4, FollowsOn
<1>. QED  BY <1>5

(* The event loop takes the command that the gateway waits for. *)
LEMMA OneMoreUpdate ==
  ASSUME TypeInv, NEW id \in 1..Len(sent), NEW user, NEW what, NEW old, NEW new,
         Follows(user, what, id, old),
         new = IF sent[id].user = user /\ Sets(sent[id], what)
               THEN sent[id][what] ELSE old
  PROVE  Follows(user, what, id + 1, new)
<1>1. id \in Nat /\ Given(user, what, id) \subseteq 1..(id - 1)
  BY DEF TypeInv, TypeOK, Given
<1>2. CASE sent[id].user = user /\ Sets(sent[id], what)
  <2>1. Given(user, what, id + 1) = Given(user, what, id) \cup {id}
    BY <1>1, <1>2 DEF Given
  <2>. QED  BY <1>1, <1>2, <2>1 DEF Follows
<1>3. CASE ~(sent[id].user = user /\ Sets(sent[id], what))
  <2>1. Given(user, what, id + 1) = Given(user, what, id)
    BY <1>1, <1>3 DEF Given
  <2>. QED  BY <1>3, <2>1 DEF Follows
<1>. QED  BY <1>2, <1>3

(* It takes one that was given up before: who set it then sets it now. *)
LEMMA OneLateUpdate ==
  ASSUME TypeInv, NEW id \in 1..Len(sent), id \in givenUp, NEW n \in Int, id < n,
         NEW user, NEW what, NEW old, NEW new,
         Follows(user, what, n, old),
         new = IF sent[id].user = user /\ Sets(sent[id], what)
               THEN sent[id][what] ELSE old
  PROVE  Follows(user, what, n, new)
<1>1. CASE sent[id].user = user /\ Sets(sent[id], what)
  <2>1. id \in Given(user, what, n)
    BY <1>1 DEF Given
  <2>. QED  BY <1>1, <2>1 DEF Follows
<1>2. CASE ~(sent[id].user = user /\ Sets(sent[id], what))
  BY <1>2
<1>. QED  BY <1>1, <1>2

(* What the event loop makes of the preferences. *)
LEMMA PrefsHandled ==
  ASSUME TypeInv, NEW t \in threads, Handle(t),
         NEW user \in Users, NEW what \in Settings
  PROVE  prefs'[user][what] =
           IF sent[t.id].user = user /\ Sets(sent[t.id], what)
           THEN sent[t.id][what] ELSE prefs[user][what]
<1>. PICK u \in Update : u = sent[t.id]
  BY Places
<1>0. prefs \in [Users -> Preference] /\ u.user \in Users
  BY DEF TypeInv, TypeOK, Update
<1>1. CASE UNCHANGED prefs /\ ~(Permitted(u) /\ u.what \in Settings)
  BY <1>1 DEF Sets
<1>2. CASE prefs' = [prefs EXCEPT ![u.user] = PrefsAfter(u)]
  <2>1. CASE u.user # user
    BY <1>0, <1>2, <2>1
  <2>2. CASE u.user = user
    <3>1. prefs'[user] = PrefsAfter(u)
      BY <1>0, <1>2, <2>2
    <3>2. PrefsAfter(u) =
            [master |-> IF Sets(u, "master") THEN u.master ELSE prefs[user].master,
             mode |-> IF Sets(u, "mode") THEN u.mode ELSE prefs[user].mode]
      BY <2>2 DEF PrefsAfter
    <3>3. what = "master" \/ what = "mode"
      BY DEF Settings
    <3>4. u["master"] = u.master /\ u["mode"] = u.mode
      OBVIOUS
    <3>. QED  BY <2>2, <3>1, <3>2, <3>3, <3>4
  <2>. QED  BY <2>1, <2>2
<1>. QED  BY <1>1, <1>2 DEF Handle, Settings

LEMMA PrefsStep ==
  Inv /\ PrefsFollowTheChat /\ [Next]_vars => PrefsAreCurrent'
<1>. SUFFICES ASSUME Inv, PrefsFollowTheChat, [Next]_vars, life' = 1, crashes' = 0
              PROVE  PrefsAreCurrent'
  BY DEF PrefsAreCurrent
<1>0. /\ TypeInv /\ gw \in Gateway /\ gw.offset \in Nat /\ gw.item \in Nat
      /\ gw.batch \in Seq(Ids) /\ life \in Nat /\ life >= 1 /\ crashes \in Nat
      /\ Len(sent) \in Nat /\ gw.offset <= Len(sent) + 1
      /\ Handled \in Int /\ Handled <= gw.offset
      /\ \A i \in Ids : i \in Nat /\ i >= 1
      /\ \A t \in threads : t.id \in 1..Len(sent)
  BY Places, BoundsAreNaturals DEF Inv, TypeInv, TypeOK
<1>1. /\ ~Restart /\ life = 1 /\ life' = life
      /\ ~Crash /\ crashes = 0
  BY <1>0 DEF Next, Step, Send, Poll, PollInVain, Take, EndOfBatch, Answer,
     ForwardFails, Restart, Crash, Handle, Finish, vars
<1>2. /\ \A t \in threads : Awaited(t) \/ t.id \in givenUp
      /\ \A i \in givenUp : i < gw.offset
      /\ gw.pc = "waiting" => gw.offset = gw.item + 1 /\ gw.item \notin givenUp
      /\ PrefsAreCurrent
  BY <1>1 DEF PrefsFollowTheChat, LateIsGivenUp
<1>3. ASSUME Send \/ UNCHANGED sent, givenUp' = givenUp, prefs' = prefs, Handled' = Handled
      PROVE  PrefsAreCurrent'
  <2>. PICK n \in Int : n = Handled'
    BY <1>0, <1>3
  <2>. QED  BY <1>0, <1>1, <1>2, <1>3, PrefsRest
<1>4. CASE Send \/ PollInVain \/ UNCHANGED vars
  <2>1. /\ UNCHANGED <<gw, threads, prefs, givenUp>>
        /\ Send \/ UNCHANGED sent
    BY <1>4 DEF Send, PollInVain, vars, service
  <2>2. Handled' = Handled
    BY <1>1, <2>1 DEF Handled, Awaited
  <2>. QED  BY <1>3, <2>1, <2>2
<1>5. CASE Poll \/ EndOfBatch
  <2>1. /\ UNCHANGED <<sent, threads, prefs, givenUp>>
        /\ gw'.pc # "waiting" /\ gw'.offset = gw.offset /\ gw.pc # "waiting"
    BY <1>0, <1>5 DEF Poll, EndOfBatch, service, Gateway
  <2>2. Handled' = Handled
    BY <2>1 DEF Handled, Awaited
  <2>. QED  BY <1>3, <2>1, <2>2
<1>6. CASE Take
  <2>0. /\ gw.batch # << >> /\ gw.pc = "batch" /\ life' = life
        /\ UNCHANGED <<sent, prefs>>
    BY <1>6 DEF Take
  <2>. PICK id \in Ids : id = Head(gw.batch)
    BY <1>0, <2>0, BatchIsTyped
  <2>1. gw.offset <= id /\ id <= Len(sent) /\ id \in Nat
    BY <1>0, <2>0, BatchIsTyped DEF Inv, BatchInOrder, TypeInv, WithinSent
  <2>2. Handled = gw.offset
    BY <2>0 DEF Handled, Awaited
  <2>. DEFINE next == [gw EXCEPT !.offset = id + 1, !.batch = Tail(@)]
              new == [life |-> life, id |-> id, state |-> "queued"]
  <2>3. \/ /\ sent[id].what = "photo"
           /\ gw' = next /\ UNCHANGED <<threads, givenUp>>
        \/ /\ gw' = [next EXCEPT !.pc = "waiting", !.item = id]
           /\ threads' = threads \cup {new} /\ UNCHANGED givenUp
        \/ /\ gw' = [next EXCEPT !.pc = "poll", !.batch = << >>]
           /\ givenUp' = givenUp \cup {id} /\ UNCHANGED threads
    BY <1>6 DEF Take
  <2>4. /\ gw'.offset = id + 1
        /\ \/ /\ gw'.pc = "batch" /\ sent[id].what = "photo" /\ UNCHANGED givenUp
           \/ /\ gw'.pc = "waiting" /\ gw'.item = id
              /\ threads' = threads \cup {new} /\ UNCHANGED givenUp
           \/ gw'.pc = "poll" /\ givenUp' = givenUp \cup {id}
    BY <1>0, <2>0, <2>3 DEF Gateway
  <2>5. new \in threads' /\ gw'.pc = "waiting" /\ gw'.item = id => Handled' = id
    <3>1. new.life = life /\ new.id = id /\ new.state = "queued"
      OBVIOUS
    <3>. HIDE DEF new
    <3>2. new \in threads' /\ gw'.pc = "waiting" /\ gw'.item = id =>
            \E t \in threads' : t.state = "queued" /\ Awaited(t)'
      BY <2>0, <3>1 DEF Awaited
    <3>. QED  BY <2>1, <2>4, <3>2 DEF Handled
  <2>6. gw'.pc # "waiting" => Handled' = id + 1
    BY <2>4 DEF Handled, Awaited
  <2>. PICK n \in Int : n = Handled'
    BY <2>1, <2>4, <2>5, <2>6
  <2>7. n = id \/ (n = id + 1 /\ (sent[id].what = "photo" \/ id \in givenUp'))
    BY <2>4, <2>5, <2>6
  <2>8. ASSUME NEW i \in 1..Len(sent), Handled <= i, i < n
        PROVE  sent[i].what = "photo" \/ i \in givenUp'
    <3>1. CASE i = id
      BY <2>1, <2>7, <2>8, <3>1
    <3>2. CASE i # id
      <4>1. i < id /\ gw.offset <= i
        BY <2>1, <2>2, <2>7, <2>8, <3>2
      <4>. QED  BY <1>1, <2>0, <4>1, OnlyPhotosBetween
    <3>. QED  BY <3>1, <3>2
  <2>9. Handled <= n /\ n <= Len(sent) + 1
    BY <1>0, <2>1, <2>2, <2>7
  <2>10. givenUp \subseteq givenUp'
    BY <2>4
  <2>. QED  BY <1>1, <1>2, <2>0, <2>8, <2>9, <2>10, PrefsRest
<1>7. CASE Answer
  <2>. PICK t \in threads : Awaited(t) /\ t.state = "done" /\ threads' = threads \ {t}
    BY <1>7 DEF Answer
  <2>1. /\ gw'.pc # "waiting" /\ gw'.offset = gw.offset
        /\ UNCHANGED <<sent, prefs, givenUp>>
    BY <1>0, <1>7 DEF Answer, Abort, Gateway
  <2>2. ~\E u \in threads : u.state = "queued" /\ Awaited(u)
    BY OneIsAwaited
  <2>3. Handled' = Handled
    BY <2>1, <2>2 DEF Handled, Awaited
  <2>. QED  BY <1>3, <2>1, <2>3
<1>8. CASE ForwardFails
  <2>1. /\ gw.pc = "waiting" /\ givenUp' = givenUp \cup {gw.item}
        /\ gw'.pc # "waiting" /\ gw'.offset = gw.offset
        /\ UNCHANGED <<sent, prefs>>
    BY <1>0, <1>8 DEF ForwardFails, Abort, Gateway
  <2>2. Handled' = gw.offset
    BY <2>1 DEF Handled, Awaited
  <2>. PICK n \in Int : n = Handled'
    BY <1>0, <2>2
  <2>3. n = gw.item + 1 /\ (Handled = n \/ Handled = n - 1)
    BY <1>0, <1>2, <2>1, <2>2 DEF Handled
  <2>4. \A i \in 1..Len(sent) : Handled <= i /\ i < n => i \in givenUp'
    BY <1>0, <2>1, <2>3
  <2>5. Handled <= n /\ n <= Len(sent) + 1
    BY <1>0, <2>2, <2>3
  <2>6. givenUp \subseteq givenUp'
    BY <2>1
  <2>. QED  BY <1>1, <1>2, <2>1, <2>4, <2>5, <2>6, PrefsRest
<1>9. ASSUME NEW t \in threads, Finish(t) PROVE PrefsAreCurrent'
  <2>1. /\ To(t, "done") /\ t.state = "running"
        /\ UNCHANGED <<sent, gw, life, prefs, givenUp>>
    BY <1>9 DEF Finish
  <2>2. \A u : u.state = "queued" => (u \in threads' <=> u \in threads)
    BY <1>0, <2>1 DEF To, TypeInv, TypeOK, Thread
  <2>3. Handled' = Handled
    BY <2>1, <2>2 DEF Handled, Awaited
  <2>. QED  BY <1>3, <2>1, <2>3
<1>10. ASSUME NEW t \in threads, Handle(t) PROVE PrefsAreCurrent'
  <2>1. /\ t.state = "queued" /\ t.id \in 1..Len(sent)
        /\ UNCHANGED <<sent, gw, life, givenUp>>
        /\ \E state \in {"running", "done"} : To(t, state)
    BY <1>0, <1>10 DEF Handle
  <2>2. \A u \in threads' : u.state = "queued" => u \in threads \ {t}
    BY <1>0, <2>1, ToIsTyped DEF TypeInv
  <2>3. threads \ {t} \subseteq threads'
    BY <2>1 DEF To
  <2>4. \E n \in Int : n = Handled' /\
          \A user \in Users, what \in Settings :
            Follows(user, what, n, prefs'[user][what])
    <3>1. CASE Awaited(t)
      <4>1. Handled = t.id /\ gw.offset = t.id + 1
        BY <1>0, <1>2, <2>1, <3>1 DEF Handled, Awaited
      <4>2. ~\E u \in threads' : u.state = "queued" /\ Awaited(u)'
        BY <2>1, <2>2, <3>1, OneIsAwaited DEF Awaited
      <4>3. Handled' = t.id + 1
        BY <2>1, <4>1, <4>2 DEF Handled
      <4>4. ASSUME NEW user \in Users, NEW what \in Settings
            PROVE  Follows(user, what, t.id + 1, prefs'[user][what])
        <5>. PICK id \in 1..Len(sent) : id = t.id
          BY <2>1
        <5>. PICK old : old = prefs[user][what]
          OBVIOUS
        <5>. PICK new : new = prefs'[user][what]
          OBVIOUS
        <5>1. new = IF sent[id].user = user /\ Sets(sent[id], what)
                    THEN sent[id][what] ELSE old
          BY <1>0, <1>10, PrefsHandled
        <5>2. Follows(user, what, id, old)
          BY <1>1, <1>2, <4>1 DEF PrefsAreCurrent
        <5>3. Follows(user, what, id + 1, new)
          BY <1>0, <5>1, <5>2, OneMoreUpdate
        <5>. QED  BY <5>3
      <4>. QED  BY <1>0, <2>1, <4>3, <4>4
    <3>2. CASE ~Awaited(t)
      <4>1. t.id \in givenUp
        BY <1>2, <3>2
      <4>2. t.id < Handled
        <5>1. CASE \E u \in threads : u.state = "queued" /\ Awaited(u)
          <6>1. gw.offset = gw.item + 1 /\ gw.item # t.id /\ t.id < gw.offset
            BY <1>2, <4>1, <5>1 DEF Awaited
          <6>. QED  BY <1>0, <2>1, <5>1, <6>1 DEF Handled
        <5>2. CASE ~\E u \in threads : u.state = "queued" /\ Awaited(u)
          BY <1>2, <4>1, <5>2 DEF Handled
        <5>. QED  BY <5>1, <5>2
      <4>3. Handled' = Handled
        <5>1. (\E u \in threads' : u.state = "queued" /\ Awaited(u)') <=>
              (\E u \in threads : u.state = "queued" /\ Awaited(u))
          BY <2>1, <2>2, <2>3, <3>2 DEF Awaited
        <5>. QED  BY <2>1, <5>1 DEF Handled
      <4>. PICK n \in Int : n = Handled
        BY <1>0
      <4>4. ASSUME NEW user \in Users, NEW what \in Settings
            PROVE  Follows(user, what, n, prefs'[user][what])
        <5>. PICK id \in 1..Len(sent) : id = t.id
          BY <2>1
        <5>. PICK old : old = prefs[user][what]
          OBVIOUS
        <5>. PICK new : new = prefs'[user][what]
          OBVIOUS
        <5>1. new = IF sent[id].user = user /\ Sets(sent[id], what)
                    THEN sent[id][what] ELSE old
          BY <1>0, <1>10, PrefsHandled
        <5>2. Follows(user, what, n, old)
          BY <1>1, <1>2 DEF PrefsAreCurrent
        <5>3. Follows(user, what, n, new)
          BY <1>0, <4>1, <4>2, <5>1, <5>2, OneLateUpdate
        <5>. QED  BY <5>3
      <4>. QED  BY <4>3, <4>4
    <3>. QED  BY <3>1, <3>2
  <2>. PICK n \in Int :
         /\ n = Handled'
         /\ \A user \in Users, what \in Settings : Follows(user, what, n, prefs'[user][what])
    BY <2>4
  <2>5. ASSUME NEW user \in Users, NEW what \in Settings
        PROVE  Follows(user, what, Handled, prefs[user][what])'
    <3>. PICK v : v = prefs'[user][what]
      OBVIOUS
    <3>1. Follows(user, what, n, v)
      OBVIOUS
    <3>2. Follows(user, what, n, v)'
      BY <2>1, <3>1 DEF Follows, Given, Sets, Permitted
    <3>. QED  BY <3>2
  <2>. QED  BY <2>5 DEF PrefsAreCurrent
<1>. QED
  BY <1>1, <1>4, <1>5, <1>6, <1>7, <1>8, <1>9, <1>10 DEF Next, Step

-----------------------------------------------------------------------------
(* What a task was created with goes on to be right. *)
LEMMA TaskStays ==
  ASSUME TypeInv, NEW t \in tasks, TaskWasCurrent(t),
         Send \/ UNCHANGED sent, givenUp \subseteq givenUp'
  PROVE  TaskWasCurrent(t)'
<1>. SUFFICES ASSUME NEW what \in Settings
              PROVE  (IF sent[t.id][what] # Absent THEN t.prefs[what] = sent[t.id][what]
                      ELSE Follows(sent[t.id].user, what, t.id, t.prefs[what]))'
  BY DEF TaskWasCurrent
<1>. PICK id \in 1..Len(sent) : id = t.id
  BY Places
<1>. PICK user : user = sent[id].user
  OBVIOUS
<1>. PICK v : v = t.prefs[what]
  OBVIOUS
<1>1. id \in Int /\ id <= Len(sent) + 1 /\ Len(sent) \in Nat
  BY Places
<1>2. sent'[id] = sent[id]
  BY <1>1, UpdatesAreSent DEF TypeInv, TypeOK
<1>3. CASE sent[id][what] # Absent
  BY <1>2, <1>3 DEF TaskWasCurrent
<1>4. CASE sent[id][what] = Absent
  <2>1. Follows(user, what, id, v)
    BY <1>4 DEF TaskWasCurrent
  <2>2. /\ Given(user, what, id)' = Given(user, what, id)
        /\ \A i \in Given(user, what, id) : sent'[i] = sent[i]
    BY <1>1, SaidStays
  <2>3. Follows(user, what, id, v)'
    BY <2>1, <2>2, FollowsOn
  <2>. QED  BY <1>2, <1>4, <2>3
<1>. QED  BY <1>3, <1>4

LEMMA TasksStep ==
  Inv /\ PrefsFollowTheChat /\ [Next]_vars => TasksWereCurrent'
<1>. SUFFICES ASSUME Inv, PrefsFollowTheChat, [Next]_vars, crashes' = 0
              PROVE  TasksWereCurrent'
  BY DEF TasksWereCurrent
<1>0. TypeInv /\ crashes \in Nat
  BY BoundsAreNaturals DEF Inv, TypeInv, TypeOK
<1>1. crashes = 0
  BY <1>0 DEF Next, Step, Send, Poll, PollInVain, Take, EndOfBatch, Answer,
     ForwardFails, Restart, Crash, Handle, Finish, vars
<1>2. (Send \/ UNCHANGED sent) /\ givenUp \subseteq givenUp'
  BY DEF Next, Step, Send, Poll, PollInVain, Take, EndOfBatch, Answer,
     ForwardFails, Restart, Crash, Handle, Finish, vars
<1>3. ASSUME NEW s \in tasks, s.life = 1, s.awaited PROVE TaskWasCurrent(s)'
  <2>1. TaskWasCurrent(s)
    BY <1>1, <1>3 DEF PrefsFollowTheChat, TasksWereCurrent
  <2>. QED  BY <1>0, <1>2, <2>1, TaskStays
<1>4. CASE tasks' = tasks
  BY <1>3, <1>4 DEF TasksWereCurrent
<1>5. ASSUME NEW t \in threads, Handle(t) PROVE TasksWereCurrent'
  <2>1. CASE tasks' = tasks
    BY <1>4, <2>1
  <2>2. CASE tasks' # tasks
    <3>. PICK new \in Task :
           /\ new = [life |-> t.life, id |-> t.id, prefs |-> RunsWith(sent[t.id]),
                     awaited |-> Awaited(t)]
           /\ new.life = t.life /\ new.id = t.id
           /\ tasks' = tasks \cup {new}
           /\ t.state = "queued"
      BY <1>0, <1>5, <2>2, HandledTask
    <3>1. new.prefs = RunsWith(sent[t.id]) /\ (new.awaited => Awaited(t))
      BY DEF Task
    <3>2. ASSUME new.life = 1, new.awaited PROVE TaskWasCurrent(new)'
      <4>1. Awaited(t) /\ life = 1
        BY <3>1, <3>2 DEF Awaited
      <4>2. Handled = t.id
        <5>1. gw.offset = t.id + 1 /\ t.id \in Nat /\ Handled = gw.offset - 1
          BY <1>0, <4>1, Places DEF PrefsFollowTheChat, LateIsGivenUp, Awaited, Handled
        <5>. QED  BY <5>1
      <4>. PICK id \in 1..Len(sent) : id = t.id
        BY <1>0, Places
      <4>. PICK u \in Update : u = sent[id]
        BY <1>0, Places
      <4>3. ASSUME NEW what \in Settings
            PROVE  IF u[what] # Absent THEN new.prefs[what] = u[what]
                   ELSE Follows(u.user, what, id, new.prefs[what])
        <5>1. /\ RunsWith(u) =
                   [master |-> IF u.master # Absent THEN u.master ELSE prefs[u.user].master,
                    mode |-> IF u.mode # Absent THEN u.mode ELSE prefs[u.user].mode]
              /\ what = "master" \/ what = "mode"
          BY DEF RunsWith, Settings
        <5>2. new.prefs[what] = IF u[what] # Absent THEN u[what] ELSE prefs[u.user][what]
          BY <3>1, <5>1
        <5>3. Follows(u.user, what, id, prefs[u.user][what])
          BY <1>1, <4>1, <4>2 DEF PrefsFollowTheChat, PrefsAreCurrent, Update
        <5>. QED  BY <5>2, <5>3
      <4>4. UNCHANGED <<sent, givenUp>>
        BY <1>5 DEF Handle
      <4>5. TaskWasCurrent(new)
        BY <4>3 DEF TaskWasCurrent
      <4>. QED  BY <4>4, <4>5 DEF TaskWasCurrent, Follows, Given, Sets, Permitted
    <3>. QED  BY <1>3, <3>2 DEF TasksWereCurrent
  <2>. QED  BY <2>1, <2>2
<1>. QED
  BY <1>4, <1>5 DEF Next, Step, Send, Poll, PollInVain, Take, EndOfBatch, Answer,
     ForwardFails, Restart, Crash, Finish, vars, service

LEMMA PrefsInit == Init => PrefsFollowTheChat
<1>. SUFFICES ASSUME Init PROVE PrefsFollowTheChat
  OBVIOUS
<1>1. threads = {} /\ tasks = {} /\ gw.offset = 0
  BY DEF Init, NewGateway
<1>2. ASSUME NEW user \in Users, NEW what \in Settings
      PROVE  Follows(user, what, Handled, prefs[user][what])
  <2>1. Given(user, what, 0) = {}
    BY DEF Given
  <2>2. prefs[user][what] = Default
    BY DEF Init, NoPreference, Settings
  <2>3. Handled = 0
    BY <1>1 DEF Handled
  <2>. QED  BY <2>1, <2>2, <2>3 DEF Follows
<1>. QED
  BY <1>1, <1>2, LateInit
  DEF PrefsFollowTheChat, PrefsAreCurrent, TasksWereCurrent

LEMMA FollowStep == Inv /\ PrefsFollowTheChat /\ [Next]_vars => PrefsFollowTheChat'
BY LateStep, PrefsStep, TasksStep DEF PrefsFollowTheChat

(* Until the service crashes, the task of a /run that the event loop took  *)
(* while the first gateway was waiting has the master and the mode that    *)
(* the /run names itself, or that its user last set in the chat: the       *)
(* controller takes them when the command arrives, and the gateway hands   *)
(* the commands over one by one and in order.  What the gateway gave up is *)
(* all that may be missing, or come late.                                  *)
THEOREM RunsFollowTheChat == Spec => []RunTakesTheChatsPreferences
<1>1. PrefsFollowTheChat => RunTakesTheChatsPreferences
  <2>. SUFFICES ASSUME PrefsFollowTheChat, NEW t \in tasks, NEW what \in Settings,
                       t.life = 1, t.awaited, crashes = 0
                PROVE
                  IF sent[t.id][what] # Absent THEN t.prefs[what] = sent[t.id][what]
                  ELSE \/ /\ t.prefs[what] = Default
                          /\ SetBefore(t.id, what) \subseteq givenUp
                       \/ \E i \in SetBefore(t.id, what) :
                            /\ t.prefs[what] = sent[i][what]
                            /\ \/ i \in givenUp
                               \/ \A j \in SetBefore(t.id, what) \ givenUp : j <= i
    BY DEF RunTakesTheChatsPreferences
  <2>1. SetBefore(t.id, what) = Given(sent[t.id].user, what, t.id)
    BY DEF SetBefore, Given
  <2>2. TaskWasCurrent(t)
    BY DEF PrefsFollowTheChat, TasksWereCurrent
  <2>. HIDE DEF SetBefore
  <2>. QED  BY <2>1, <2>2 DEF TaskWasCurrent, Follows
<1>. QED  BY <1>1, PrefsInit, FollowStep, Invariance, PTL DEF Spec

=============================================================================
