------------------------- MODULE TaskServiceProofs --------------------------
(***************************************************************************)
(* Theorems about TaskService, for every set of tasks, attempts, approvals *)
(* and callers and every bound: first what a single step may do (types,    *)
(* frozen attempts, final statuses), then what the tables add up to (dense *)
(* generations, waiting tasks that can be decided, an audit trail that     *)
(* replays, and the abstract lifecycle).                                   *)
(***************************************************************************)
EXTENDS TaskService, TLAPS

(* The lifecycle table leads from statuses to statuses and never from a    *)
(* final or absent one.                                                    *)
LEMMA TableFacts ==
  \A s, u : CanMove(s, u) =>
    /\ s \in Status
    /\ u \in Status
    /\ s \notin Terminal
    /\ s # Absent
BY DEF CanMove, Allowed, Status, Terminal, Absent

(* What a step may do to the database: one transaction, or nothing. *)
LEMMA DatabaseSteps ==
  ASSUME [Next]_vars
  PROVE  \/ \E t \in Tasks : CreateTask(t)
         \/ \E t \in Tasks, p \in Approvals : RequestAndWait(t, p)
         \/ \E c \in Callers : MoveTask(c)
         \/ \E c \in Callers : NewAttempt(c)
         \/ \E c \in Callers : MoveAttempt(c)
         \/ \E c \in Callers : Decide(c)
         \/ UNCHANGED db
<1>1. CASE UNCHANGED vars
  BY <1>1 DEF vars, db
<1>2. ASSUME NEW c \in Callers, CallerStep(c)
      PROVE  \/ MoveTask(c) \/ NewAttempt(c) \/ MoveAttempt(c) \/ Decide(c)
             \/ UNCHANGED db
  <2>1. ASSUME NEW r, Begin(c, r) PROVE UNCHANGED db
    BY <2>1 DEF Begin
  <2>2. CASE Abort(c)
    BY <2>2 DEF Abort
  <2>3. QED
    BY <1>2, <2>1, <2>2 DEF CallerStep, BeginMoveTask, BeginNewAttempt,
       BeginMoveAttempt, BeginDecide
<1>3. QED
  BY <1>1, <1>2 DEF Next

-----------------------------------------------------------------------------
(* An event of a task, an attempt or an approval is an Event. *)
LEMMA EntryIsEvent ==
  ASSUME NEW x \in Subjects, NEW from \in StatusOrAbsent \cup ApprovalStatus,
         NEW to \in Status \cup ApprovalStatus
  PROVE  Entry(x, from, to) \in Event
BY DEF Entry, Event

(* Appending an event to a well-typed trail leaves it well typed. *)
LEMMA LogIsTyped ==
  ASSUME TypeOK, NEW t \in Tasks, NEW e \in Event, Log(t, e)
  PROVE  events' \in [Tasks -> Seq(Event)]
BY DEF TypeOK, Log

LEMMA LogBothIsTyped ==
  ASSUME TypeOK, NEW t \in Tasks, NEW e \in Event, NEW f \in Event,
         LogBoth(t, e, f)
  PROVE  events' \in [Tasks -> Seq(Event)]
BY DEF TypeOK, LogBoth

(* Writing a status leaves the task table well typed. *)
LEMMA StatusIsSet ==
  ASSUME TypeOK, NEW t \in Tasks, NEW s \in StatusOrAbsent
  PROVE  [tasks EXCEPT ![t].status = s] \in
           [Tasks -> [status : StatusOrAbsent, current : Attempts \cup {None}]]
BY DEF TypeOK

(* A call that has begun carries what its transaction relies on: an        *)
(* existing row, and a move the table permits from the status it read.     *)
CallIsSound(r) ==
  /\ r.op # "idle" => r.task \in Tasks
  /\ r.op = "moveTask" => CanMove(r.expected, r.target)
  /\ r.op = "newAttempt" => r.attempt \in Attempts
  /\ r.op = "moveAttempt" =>
       r.attempt \in Attempts /\ CanMove(r.expected, r.target)
  /\ r.op = "decide" =>
       /\ r.approval \in Approvals
       /\ r.target \in {"APPROVED", "DENIED"}
       /\ approvals[r.approval].task = r.task

CallsAreSound == \A c \in Callers : CallIsSound(call[c])

TypeInv == TypeOK /\ CallsAreSound

LEMMA TypeInvInit == Init => TypeInv
BY DEF Init, TypeInv, TypeOK, CallsAreSound, CallIsSound, Idle, Request, Call,
       StatusOrAbsent, Absent, ApprovalStatus

LEMMA ReturnIsTyped ==
  ASSUME TypeInv, NEW c \in Callers, Return(c)
  PROVE  /\ call' \in [Callers -> Call]
         /\ approvals' = approvals => CallsAreSound'
BY DEF TypeInv, TypeOK, CallsAreSound, CallIsSound, Return, Idle, Request, Call,
       StatusOrAbsent, Absent, ApprovalStatus

(* A request built from typed parts is a Call. *)
LEMMA RequestIsTyped ==
  ASSUME NEW op \in {"idle", "moveTask", "newAttempt", "moveAttempt", "decide"},
         NEW t \in Tasks \cup {None}, NEW a \in Attempts \cup {None},
         NEW p \in Approvals \cup {None}, NEW g \in Nat,
         NEW expected \in StatusOrAbsent,
         NEW target \in StatusOrAbsent \cup ApprovalStatus
  PROVE  Request(op, t, a, p, g, expected, target) \in Call
BY DEF Request, Call

(* Beginning a call with a sound, well-typed request keeps the invariant. *)
LEMMA BeginIsTyped ==
  ASSUME TypeInv, NEW c \in Callers, NEW r \in Call, CallIsSound(r), Begin(c, r)
  PROVE  TypeInv'
BY DEF TypeInv, TypeOK, CallsAreSound, CallIsSound, Begin, db

LEMMA TypeInvStep == TypeInv /\ [Next]_vars => TypeInv'
<1> SUFFICES ASSUME TypeInv, [Next]_vars PROVE TypeInv'
  OBVIOUS
<1> USE DEF TypeInv
<1>1. ASSUME NEW t \in Tasks, CreateTask(t) PROVE TypeInv'
  <2>1. Entry(t, Absent, "CREATED") \in Event
    BY EntryIsEvent DEF Subjects, StatusOrAbsent, Status
  <2>2. events' \in [Tasks -> Seq(Event)]
    BY <1>1, <2>1, LogIsTyped DEF CreateTask
  <2>3. CallsAreSound'
    BY <1>1 DEF CreateTask, CallsAreSound, CallIsSound
  <2>4. tasks' \in [Tasks -> [status : StatusOrAbsent,
                             current : Attempts \cup {None}]]
    BY <1>1, StatusIsSet DEF CreateTask, StatusOrAbsent, Status
  <2>5. QED
    BY <1>1, <2>2, <2>3, <2>4 DEF CreateTask, TypeOK
<1>2. ASSUME NEW t \in Tasks, NEW p \in Approvals, RequestAndWait(t, p)
      PROVE TypeInv'
  <2>1. /\ Entry(p, Absent, "PENDING") \in Event
        /\ Entry(t, "RUNNING", "WAITING_APPROVAL") \in Event
    BY EntryIsEvent DEF Subjects, StatusOrAbsent, Status, ApprovalStatus
  <2>2. events' \in [Tasks -> Seq(Event)]
    BY <1>2, <2>1, LogBothIsTyped DEF RequestAndWait
  <2>3. CallsAreSound'
    BY <1>2, NoneIsNoId DEF RequestAndWait, CallsAreSound, CallIsSound, TypeOK
  <2>4. tasks' \in [Tasks -> [status : StatusOrAbsent,
                             current : Attempts \cup {None}]]
    BY <1>2, StatusIsSet DEF RequestAndWait, StatusOrAbsent, Status
  <2>5. approvals' \in [Approvals -> [task : Tasks \cup {None},
                                     status : ApprovalStatus]]
    BY <1>2 DEF RequestAndWait, TypeOK, ApprovalStatus
  <2>6. QED
    BY <1>2, <2>2, <2>3, <2>4, <2>5 DEF RequestAndWait, TypeOK
<1>3. ASSUME NEW c \in Callers, MoveTask(c) PROVE TypeInv'
  <2> DEFINE r == call[c]
  <2>1. r \in Call /\ r.task \in Tasks /\ CanMove(r.expected, r.target)
    BY <1>3 DEF MoveTask, TypeOK, CallsAreSound, CallIsSound
  <2>2. r.expected \in Status /\ r.target \in Status
    BY <2>1, TableFacts
  <2>3. Entry(r.task, r.expected, r.target) \in Event
    BY <2>1, <2>2, EntryIsEvent DEF Subjects, StatusOrAbsent
  <2>4. events' \in [Tasks -> Seq(Event)]
    BY <1>3, <2>1, <2>3, LogIsTyped DEF MoveTask
  <2>5. QED
    BY <1>3, <2>1, <2>2, <2>4, ReturnIsTyped DEF MoveTask, TypeOK, StatusOrAbsent
<1>4. ASSUME NEW c \in Callers, NewAttempt(c) PROVE TypeInv'
  <2> DEFINE r == call[c]
  <2>1. r \in Call /\ r.task \in Tasks /\ r.attempt \in Attempts
    BY <1>4 DEF NewAttempt, TypeOK, CallsAreSound, CallIsSound
  <2>2. Entry(r.attempt, Absent, "ASSIGNED") \in Event
    BY <2>1, EntryIsEvent DEF Subjects, StatusOrAbsent, Status
  <2>3. events' \in [Tasks -> Seq(Event)]
    BY <1>4, <2>1, <2>2, LogIsTyped DEF NewAttempt
  <2>4. attempts' \in [Attempts -> [task : Tasks \cup {None}, generation : Nat,
                                   status : StatusOrAbsent]]
    BY <1>4, <2>1, BoundsAreNaturals
    DEF NewAttempt, TypeOK, StatusOrAbsent, Status
  <2>5. QED
    BY <1>4, <2>1, <2>3, <2>4, ReturnIsTyped DEF NewAttempt, TypeOK
<1>5. ASSUME NEW c \in Callers, MoveAttempt(c) PROVE TypeInv'
  <2> DEFINE r == call[c]
  <2>1. /\ r \in Call /\ r.task \in Tasks /\ r.attempt \in Attempts
        /\ CanMove(r.expected, r.target)
    BY <1>5 DEF MoveAttempt, TypeOK, CallsAreSound, CallIsSound
  <2>2. r.expected \in Status /\ r.target \in Status
    BY <2>1, TableFacts
  <2>3. Entry(r.attempt, r.expected, r.target) \in Event
    BY <2>1, <2>2, EntryIsEvent DEF Subjects, StatusOrAbsent
  <2>4. events' \in [Tasks -> Seq(Event)]
    BY <1>5, <2>1, <2>3, LogIsTyped DEF MoveAttempt
  <2>5. attempts' \in [Attempts -> [task : Tasks \cup {None}, generation : Nat,
                                   status : StatusOrAbsent]]
    BY <1>5, <2>1, <2>2 DEF MoveAttempt, TypeOK, StatusOrAbsent
  <2>6. QED
    BY <1>5, <2>4, <2>5, ReturnIsTyped DEF MoveAttempt, TypeOK
<1>6. ASSUME NEW c \in Callers, Decide(c) PROVE TypeInv'
  <2> DEFINE r == call[c]
             target == IF r.target = "APPROVED" THEN "RUNNING" ELSE "FAILED"
  <2>1. /\ r \in Call /\ r.task \in Tasks /\ r.approval \in Approvals
        /\ r.target \in {"APPROVED", "DENIED"}
        /\ target \in Status
    BY <1>6 DEF Decide, TypeOK, CallsAreSound, CallIsSound, Status
  <2>2. /\ Entry(r.approval, "PENDING", r.target) \in Event
        /\ Entry(r.task, "WAITING_APPROVAL", target) \in Event
    BY <2>1, EntryIsEvent DEF Subjects, StatusOrAbsent, Status, ApprovalStatus
  <2>3. events' \in [Tasks -> Seq(Event)]
    BY <1>6, <2>1, <2>2, LogIsTyped, LogBothIsTyped DEF Decide
  <2>4. /\ approvals' \in [Approvals -> [task : Tasks \cup {None},
                                        status : ApprovalStatus]]
        /\ \A p \in Approvals : approvals'[p].task = approvals[p].task
    BY <1>6, <2>1 DEF Decide, TypeOK, ApprovalStatus
  <2>5. tasks' \in [Tasks -> [status : StatusOrAbsent,
                             current : Attempts \cup {None}]]
    <3>1. \/ tasks' = tasks
          \/ tasks' = [tasks EXCEPT ![r.task].status = target]
      BY <1>6 DEF Decide
    <3>2. [tasks EXCEPT ![r.task].status = target] \in
            [Tasks -> [status : StatusOrAbsent, current : Attempts \cup {None}]]
      BY <2>1, StatusIsSet DEF StatusOrAbsent
    <3>3. QED
      BY <3>1, <3>2 DEF TypeOK
  <2>6. call' \in [Callers -> Call] /\ CallsAreSound'
    BY <1>6, <2>4, ReturnIsTyped
    DEF Decide, CallsAreSound, CallIsSound, Return, TypeOK, Idle, Request
  <2>7. QED
    BY <1>6, <2>3, <2>4, <2>5, <2>6 DEF Decide, TypeOK
<1>7. ASSUME NEW c \in Callers, NEW t \in Tasks, NEW a \in Attempts \cup {None},
             NEW g \in 0..MaxGeneration, NEW target \in Targets,
             BeginMoveTask(c, t, a, g, target)
      PROVE TypeInv'
  <2> DEFINE r == Request("moveTask", t, a, None, g, tasks[t].status, target)
  <2>1. /\ tasks[t].status \in StatusOrAbsent
        /\ target \in StatusOrAbsent
        /\ g \in Nat
    BY TargetsAreStatuses, BoundsAreNaturals DEF TypeOK, StatusOrAbsent
  <2>2. r \in Call
    BY <2>1, RequestIsTyped
  <2>3. CallIsSound(r) /\ Begin(c, r)
    BY <1>7 DEF BeginMoveTask, CallIsSound, Request
  <2>4. QED
    BY <2>2, <2>3, BeginIsTyped
<1>8. ASSUME NEW c \in Callers, NEW t \in Tasks, NEW a \in Attempts,
             NEW g \in 0..MaxGeneration, BeginNewAttempt(c, t, a, g)
      PROVE TypeInv'
  <2> DEFINE r == Request("newAttempt", t, a, None, g, Absent, Absent)
  <2>1. g \in Nat
    BY BoundsAreNaturals
  <2>2. r \in Call
    BY <2>1, RequestIsTyped DEF StatusOrAbsent
  <2>3. CallIsSound(r) /\ Begin(c, r)
    BY <1>8 DEF BeginNewAttempt, CallIsSound, Request
  <2>4. QED
    BY <2>2, <2>3, BeginIsTyped
<1>9. ASSUME NEW c \in Callers, NEW t \in Tasks, NEW a \in Attempts,
             NEW g \in 1..MaxGeneration, NEW target \in Targets,
             BeginMoveAttempt(c, t, a, g, target)
      PROVE TypeInv'
  <2> DEFINE r == Request("moveAttempt", t, a, None, g, attempts[a].status, target)
  <2>1. /\ attempts[a].status \in StatusOrAbsent
        /\ target \in StatusOrAbsent
        /\ g \in Nat
    BY TargetsAreStatuses, BoundsAreNaturals DEF TypeOK, StatusOrAbsent
  <2>2. r \in Call
    BY <2>1, RequestIsTyped
  <2>3. CallIsSound(r) /\ Begin(c, r)
    BY <1>9 DEF BeginMoveAttempt, CallIsSound, Request
  <2>4. QED
    BY <2>2, <2>3, BeginIsTyped
<1>10. ASSUME NEW c \in Callers, NEW p \in Approvals,
              NEW verdict \in {"APPROVED", "DENIED"}, BeginDecide(c, p, verdict)
       PROVE TypeInv'
  <2> DEFINE r == Request("decide", approvals[p].task, None, p, 0, Absent, verdict)
  <2>1. approvals[p].task \in Tasks
    BY <1>10 DEF BeginDecide, TypeOK
  <2>2. r \in Call
    BY <2>1, RequestIsTyped DEF StatusOrAbsent, ApprovalStatus
  <2>3. CallIsSound(r) /\ Begin(c, r)
    BY <1>10, <2>1 DEF BeginDecide, CallIsSound, Request
  <2>4. QED
    BY <2>2, <2>3, BeginIsTyped
<1>11. ASSUME NEW c \in Callers, Abort(c) PROVE TypeInv'
  BY <1>11, ReturnIsTyped DEF Abort, TypeOK, db
<1>12. CASE UNCHANGED vars
  BY <1>12 DEF vars, TypeOK, CallsAreSound, CallIsSound
<1>13. QED
  BY <1>1, <1>2, <1>3, <1>4, <1>5, <1>6, <1>7, <1>8, <1>9, <1>10, <1>11, <1>12
  DEF Next, CallerStep

LEMMA TypeInvHolds == Spec => []TypeInv
BY TypeInvInit, TypeInvStep, PTL DEF Spec

(* Rows, audit events and pending calls keep the types the tables and the  *)
(* service methods give them.                                              *)
THEOREM TypeCorrect == Spec => []TypeOK
<1>1. TypeInv => TypeOK
  BY DEF TypeInv
<1>2. QED
  BY <1>1, TypeInvHolds, PTL

-----------------------------------------------------------------------------
(* Only two transactions write attempt rows: one inserts a row, the other  *)
(* moves the current attempt of its task along the table.                  *)
LEMMA AttemptWrites ==
  ASSUME TypeInv, [Next]_vars, NEW a \in Attempts, attempts'[a] # attempts[a]
  PROVE  \/ attempts[a].task = None
         \/ /\ tasks[attempts[a].task].current = a
            /\ CanMove(attempts[a].status, attempts'[a].status)
<1> USE DEF TypeInv
<1>1. CASE UNCHANGED db
  BY <1>1 DEF db
<1>2. ASSUME NEW c \in Callers, NewAttempt(c) PROVE attempts[a].task = None
  <2>1. PICK g \in 1..MaxGeneration : attempts' =
          [attempts EXCEPT ![call[c].attempt] =
             [task |-> call[c].task, generation |-> g, status |-> "ASSIGNED"]]
    BY <1>2 DEF NewAttempt
  <2>2. a = call[c].attempt
    BY <2>1 DEF TypeOK
  <2>3. QED
    BY <1>2, <2>2 DEF NewAttempt
<1>3. ASSUME NEW c \in Callers, MoveAttempt(c)
      PROVE  /\ tasks[attempts[a].task].current = a
             /\ CanMove(attempts[a].status, attempts'[a].status)
  <2>1. /\ call[c].attempt \in Attempts
        /\ CanMove(call[c].expected, call[c].target)
    BY <1>3 DEF MoveAttempt, CallsAreSound, CallIsSound
  <2>2. /\ attempts' = [attempts EXCEPT ![call[c].attempt].status = call[c].target]
        /\ attempts[call[c].attempt].status = call[c].expected
        /\ tasks[call[c].task].current = call[c].attempt
        /\ attempts[call[c].attempt].task = call[c].task
    BY <1>3 DEF MoveAttempt, Fenced, AttemptsOf
  <2>3. a = call[c].attempt
    BY <2>2 DEF TypeOK
  <2>4. attempts'[a].status = call[c].target
    BY <2>2, <2>3 DEF TypeOK
  <2>5. QED
    BY <2>1, <2>2, <2>3, <2>4
<1>4. QED
  BY <1>1, <1>2, <1>3, DatabaseSteps
  DEF CreateTask, RequestAndWait, MoveTask, Decide

(* A superseded attempt is frozen, for any number of callers, tasks and    *)
(* attempts: the fence re-checked inside transition_attempt's UPDATE is    *)
(* enough, whenever the token was validated.                               *)
THEOREM StaleAttemptsStayFrozen == Spec => StaleAttemptsAreFrozen
<1>1. ASSUME TypeInv, [Next]_vars
      PROVE  \A a \in Attempts : attempts[a].task # None =>
               \/ tasks[attempts[a].task].current = a
               \/ attempts'[a] = attempts[a]
  BY <1>1, AttemptWrites
<1>2. QED
  BY <1>1, TypeInvHolds, PTL DEF Spec, StaleAttemptsAreFrozen

-----------------------------------------------------------------------------
(* A row that was never inserted still has its initial status. *)
UninsertedRowsAreInitial ==
  /\ \A a \in Attempts : attempts[a].task = None => attempts[a].status = Absent
  /\ \A p \in Approvals : approvals[p].task = None => approvals[p].status = "PENDING"

(* Only two transactions write approval rows: one inserts a row, the other *)
(* decides a pending one.                                                  *)
LEMMA ApprovalWrites ==
  ASSUME TypeInv, [Next]_vars, NEW p \in Approvals, approvals'[p] # approvals[p]
  PROVE  \/ /\ approvals[p].task = None
            /\ approvals'[p].task \in Tasks
         \/ /\ approvals[p].task \in Tasks
            /\ approvals[p].status = "PENDING"
            /\ approvals'[p].task = approvals[p].task
<1> USE DEF TypeInv
<1>1. CASE UNCHANGED db
  BY <1>1 DEF db
<1>2. ASSUME NEW t \in Tasks, NEW q \in Approvals, RequestAndWait(t, q)
      PROVE approvals[p].task = None /\ approvals'[p].task \in Tasks
  BY <1>2 DEF RequestAndWait, TypeOK
<1>3. ASSUME NEW c \in Callers, Decide(c)
      PROVE  /\ approvals[p].task \in Tasks
             /\ approvals[p].status = "PENDING"
             /\ approvals'[p].task = approvals[p].task
  <2>1. /\ call[c].approval \in Approvals
        /\ call[c].task \in Tasks
        /\ approvals[call[c].approval].task = call[c].task
    BY <1>3 DEF Decide, CallsAreSound, CallIsSound
  <2>2. approvals' = [approvals EXCEPT ![call[c].approval].status =
                        IF @ = "PENDING" THEN call[c].target ELSE @]
    BY <1>3 DEF Decide
  <2>3. p = call[c].approval
    BY <2>2 DEF TypeOK
  <2>4. approvals[p].status = "PENDING"
    BY <2>2, <2>3 DEF TypeOK
  <2>5. QED
    BY <2>1, <2>2, <2>3, <2>4 DEF TypeOK
<1>4. QED
  BY <1>1, <1>2, <1>3, DatabaseSteps
  DEF CreateTask, NewAttempt, MoveTask, MoveAttempt

LEMMA AttemptStaysInserted ==
  ASSUME TypeInv, [Next]_vars, NEW a \in Attempts, attempts'[a].task = None
  PROVE  attempts'[a] = attempts[a]
<1> USE DEF TypeInv
<1>1. ASSUME NEW c \in Callers, NewAttempt(c) PROVE attempts'[a] = attempts[a]
  <2>1. PICK g \in 1..MaxGeneration : attempts' =
          [attempts EXCEPT ![call[c].attempt] =
             [task |-> call[c].task, generation |-> g, status |-> "ASSIGNED"]]
    BY <1>1 DEF NewAttempt
  <2>2. call[c].task # None
    BY <1>1, NoneIsNoId DEF NewAttempt, CallsAreSound, CallIsSound
  <2>3. QED
    BY <2>1, <2>2 DEF TypeOK
<1>2. ASSUME NEW c \in Callers, MoveAttempt(c) PROVE attempts'[a] = attempts[a]
  <2>1. /\ attempts' = [attempts EXCEPT ![call[c].attempt].status = call[c].target]
        /\ attempts[call[c].attempt].task = call[c].task
        /\ call[c].task \in Tasks
    BY <1>2 DEF MoveAttempt, Fenced, AttemptsOf, CallsAreSound, CallIsSound
  <2>2. a # call[c].attempt
    BY <2>1, NoneIsNoId DEF TypeOK
  <2>3. QED
    BY <2>1, <2>2 DEF TypeOK
<1>3. QED
  BY <1>1, <1>2, DatabaseSteps
  DEF CreateTask, RequestAndWait, MoveTask, Decide, db

LEMMA UninsertedRowsStayInitial == Spec => []UninsertedRowsAreInitial
<1>1. Init => UninsertedRowsAreInitial
  BY DEF Init, UninsertedRowsAreInitial
<1>2. ASSUME TypeInv, UninsertedRowsAreInitial, [Next]_vars
      PROVE  UninsertedRowsAreInitial'
  <2>1. ASSUME NEW a \in Attempts, attempts'[a].task = None
        PROVE  attempts'[a].status = Absent
    BY <1>2, <2>1, AttemptStaysInserted DEF UninsertedRowsAreInitial
  <2>2. ASSUME NEW p \in Approvals, approvals'[p].task = None
        PROVE  approvals'[p].status = "PENDING"
    BY <1>2, <2>2, ApprovalWrites, NoneIsNoId DEF UninsertedRowsAreInitial
  <2>3. QED
    BY <2>1, <2>2 DEF UninsertedRowsAreInitial
<1>3. QED
  BY <1>1, <1>2, TypeInvHolds, PTL DEF Spec

(* A transaction moves the task it writes along the table or inserts it. *)
LEMMA TaskWrites ==
  ASSUME TypeInv, [Next]_vars, NEW t \in Tasks,
         tasks'[t].status # tasks[t].status
  PROVE  \/ tasks[t].status = Absent /\ tasks'[t].status = "CREATED"
         \/ CanMove(tasks[t].status, tasks'[t].status)
<1> USE DEF TypeInv
<1>1. ASSUME NEW u \in Tasks, CreateTask(u)
      PROVE tasks[t].status = Absent /\ tasks'[t].status = "CREATED"
  BY <1>1 DEF CreateTask, TypeOK
<1>2. ASSUME NEW u \in Tasks, NEW p \in Approvals, RequestAndWait(u, p)
      PROVE CanMove(tasks[t].status, tasks'[t].status)
  <2>1. tasks[t].status = "RUNNING" /\ tasks'[t].status = "WAITING_APPROVAL"
    BY <1>2 DEF RequestAndWait, TypeOK
  <2>2. QED
    BY <2>1 DEF CanMove, Allowed
<1>3. ASSUME NEW c \in Callers, MoveTask(c)
      PROVE CanMove(tasks[t].status, tasks'[t].status)
  <2>1. /\ call[c].task \in Tasks
        /\ CanMove(call[c].expected, call[c].target)
    BY <1>3 DEF MoveTask, CallsAreSound, CallIsSound
  <2>2. /\ tasks' = [tasks EXCEPT ![call[c].task].status = call[c].target]
        /\ tasks[call[c].task].status = call[c].expected
    BY <1>3 DEF MoveTask
  <2>3. t = call[c].task /\ tasks'[t].status = call[c].target
    BY <2>1, <2>2 DEF TypeOK
  <2>4. QED
    BY <2>1, <2>2, <2>3
<1>4. ASSUME NEW c \in Callers, NewAttempt(c) PROVE FALSE
  BY <1>4 DEF NewAttempt, TypeOK
<1>5. ASSUME NEW c \in Callers, Decide(c)
      PROVE CanMove(tasks[t].status, tasks'[t].status)
  <2>1. PICK s \in {"RUNNING", "FAILED"} :
          /\ tasks' = [tasks EXCEPT ![call[c].task].status = s]
          /\ tasks[call[c].task].status = "WAITING_APPROVAL"
    BY <1>5 DEF Decide
  <2>2. t = call[c].task /\ tasks'[t].status = s
    BY <1>5, <2>1 DEF TypeOK
  <2>3. QED
    BY <2>1, <2>2 DEF CanMove, Allowed
<1>6. QED
  BY <1>1, <1>2, <1>3, <1>4, <1>5, DatabaseSteps DEF MoveAttempt, db

(* A final status is never left, whatever the callers read before they     *)
(* write: the status each UPDATE expects is not a final one.               *)
THEOREM FinalStatusStays == Spec => FinalStatusIsKept
<1>1. ASSUME TypeInv, UninsertedRowsAreInitial, [Next]_vars
      PROVE  /\ \A t \in Tasks : tasks[t].status \in Terminal =>
                  tasks'[t].status = tasks[t].status
             /\ \A a \in Attempts : attempts[a].status \in Terminal =>
                  attempts'[a].status = attempts[a].status
             /\ \A p \in Approvals : approvals[p].status # "PENDING" =>
                  approvals'[p].status = approvals[p].status
  <2>1. Absent \notin Terminal
    BY DEF Absent, Terminal
  <2>2. ASSUME NEW t \in Tasks, tasks[t].status \in Terminal
        PROVE  tasks'[t].status = tasks[t].status
    BY <1>1, <2>1, <2>2, TaskWrites, TableFacts
  <2>3. ASSUME NEW a \in Attempts, attempts[a].status \in Terminal
        PROVE  attempts'[a].status = attempts[a].status
    BY <1>1, <2>1, <2>3, AttemptWrites, TableFacts DEF UninsertedRowsAreInitial
  <2>4. ASSUME NEW p \in Approvals, approvals[p].status # "PENDING"
        PROVE  approvals'[p].status = approvals[p].status
    BY <1>1, <2>4, ApprovalWrites DEF UninsertedRowsAreInitial
  <2>5. QED
    BY <2>2, <2>3, <2>4
<1>2. QED
  BY <1>1, TypeInvHolds, UninsertedRowsStayInitial, PTL DEF Spec, FinalStatusIsKept

-----------------------------------------------------------------------------
(* What the tables add up to.                                              *)

(* Rows keep their task and number, except for the attempt that is new. *)
SameNumbers ==
  /\ \A a \in Attempts : /\ attempts'[a].task = attempts[a].task
                         /\ attempts'[a].generation = attempts[a].generation
  /\ \A t \in Tasks : tasks'[t].current = tasks[t].current

(* What a new attempt writes, in its two tables. *)
Inserts(t, new, g) ==
  /\ attempts[new].task = None
  /\ g >= 1 /\ IsNextGeneration(t, g)
  /\ attempts'[new] = [task |-> t, generation |-> g, status |-> "ASSIGNED"]
  /\ \A a \in Attempts : a # new => attempts'[a] = attempts[a]
  /\ tasks'[t].current = new
  /\ \A u \in Tasks : u # t => tasks'[u].current = tasks[u].current
  /\ \A u \in Tasks : tasks'[u].status = tasks[u].status

LEMMA NewAttemptInserts ==
  ASSUME TypeInv, NEW c \in Callers, NewAttempt(c)
  PROVE  \E t \in Tasks, new \in Attempts, g \in Nat :
           /\ Inserts(t, new, g)
           /\ t = call[c].task /\ new = call[c].attempt
<1>1. PICK g \in 1..MaxGeneration :
        /\ IsNextGeneration(call[c].task, g)
        /\ attempts' = [attempts EXCEPT ![call[c].attempt] =
             [task |-> call[c].task, generation |-> g, status |-> "ASSIGNED"]]
  BY DEF NewAttempt
<1>2. /\ call[c].attempt \in Attempts /\ call[c].task \in Tasks
      /\ attempts[call[c].attempt].task = None
      /\ tasks' = [tasks EXCEPT ![call[c].task].current = call[c].attempt]
  BY DEF NewAttempt, TypeInv, CallsAreSound, CallIsSound
<1>3. g \in Nat /\ g >= 1
  BY BoundsAreNaturals
<1>4. /\ tasks'[call[c].task].current = call[c].attempt
      /\ \A t \in Tasks : t # call[c].task => tasks'[t].current = tasks[t].current
      /\ \A t \in Tasks : tasks'[t].status = tasks[t].status
  BY <1>2 DEF TypeInv, TypeOK
<1>5. /\ attempts'[call[c].attempt] =
           [task |-> call[c].task, generation |-> g, status |-> "ASSIGNED"]
      /\ \A a \in Attempts : a # call[c].attempt => attempts'[a] = attempts[a]
  BY <1>1, <1>2 DEF TypeInv, TypeOK
<1>. QED  BY <1>1, <1>2, <1>3, <1>4, <1>5 DEF Inserts

(* Every other step keeps the numbers. *)
LEMMA NumbersAreKept ==
  ASSUME TypeInv, [Next]_vars
  PROVE  SameNumbers \/ \E c \in Callers : NewAttempt(c)
<1>. USE DEF TypeInv
<1>1. CASE UNCHANGED db
  BY <1>1 DEF db, SameNumbers
<1>2. ASSUME NEW t \in Tasks, CreateTask(t) PROVE SameNumbers
  BY <1>2 DEF CreateTask, TypeOK, SameNumbers
<1>3. ASSUME NEW t \in Tasks, NEW p \in Approvals, RequestAndWait(t, p)
      PROVE SameNumbers
  BY <1>3 DEF RequestAndWait, TypeOK, SameNumbers
<1>4. ASSUME NEW c \in Callers, MoveTask(c) PROVE SameNumbers
  BY <1>4 DEF MoveTask, TypeOK, SameNumbers
<1>5. ASSUME NEW c \in Callers, MoveAttempt(c) PROVE SameNumbers
  <2>1. /\ attempts' = [attempts EXCEPT ![call[c].attempt].status = call[c].target]
        /\ tasks' = tasks
    BY <1>5 DEF MoveAttempt
  <2>. QED  BY <2>1 DEF TypeOK, SameNumbers
<1>6. ASSUME NEW c \in Callers, Decide(c) PROVE SameNumbers
  <2>1. PICK target \in {"RUNNING", "FAILED"} :
          \/ tasks' = [tasks EXCEPT ![call[c].task].status = target]
          \/ tasks' = tasks
    BY <1>6 DEF Decide
  <2>2. attempts' = attempts
    BY <1>6 DEF Decide
  <2>3. ASSUME NEW t \in Tasks PROVE tasks'[t].current = tasks[t].current
    <3>1. CASE tasks' = [tasks EXCEPT ![call[c].task].status = target]
      BY <3>1 DEF TypeOK
    <3>2. CASE tasks' = tasks
      BY <3>2
    <3>. QED  BY <2>1, <3>1, <3>2
  <2>. QED  BY <2>2, <2>3 DEF SameNumbers
<1>. QED  BY <1>1, <1>2, <1>3, <1>4, <1>5, <1>6, DatabaseSteps

-----------------------------------------------------------------------------
LEMMA InsertKeepsDense ==
  ASSUME TypeInv, GenerationsAreDense, NEW t \in Tasks, NEW new \in Attempts,
         NEW g \in Nat, Inserts(t, new, g)
  PROVE  GenerationsAreDense'
<1>1. /\ new # None
      /\ \A u \in Tasks : new \notin AttemptsOf(u)
  BY NoneIsNoId DEF Inserts, AttemptsOf
<1>2. AttemptsOf(t)' = AttemptsOf(t) \cup {new}
  BY <1>1 DEF Inserts, AttemptsOf
<1>3. \A u \in Tasks : u # t => AttemptsOf(u)' = AttemptsOf(u)
  BY <1>1 DEF Inserts, AttemptsOf
<1>4. /\ \A u \in Tasks : \A a \in AttemptsOf(u) :
           a \in Attempts /\ a # new /\ attempts'[a] = attempts[a]
      /\ attempts'[new].generation = g
      /\ \A a \in Attempts : attempts[a].generation \in Nat
  BY <1>1 DEF Inserts, AttemptsOf, TypeInv, TypeOK
<1>5. ASSUME NEW u \in Tasks, u # t
      PROVE  /\ \A a, b \in AttemptsOf(u)' :
                  attempts'[a].generation = attempts'[b].generation => a = b
             /\ \A a \in AttemptsOf(u)' :
                  /\ attempts'[a].generation >= 1
                  /\ attempts'[a].generation > 1 =>
                       \E b \in AttemptsOf(u)' :
                          attempts'[b].generation + 1 = attempts'[a].generation
                  /\ tasks'[u].current \in AttemptsOf(u)'
                  /\ attempts'[a].generation <= attempts'[tasks'[u].current].generation
             /\ tasks'[u].current # None => tasks'[u].current \in AttemptsOf(u)'
  <2>1. AttemptsOf(u)' = AttemptsOf(u) /\ tasks'[u].current = tasks[u].current
    BY <1>3, <1>5 DEF Inserts
  <2>2. /\ \A a, b \in AttemptsOf(u) :
             attempts[a].generation = attempts[b].generation => a = b
        /\ \A a \in AttemptsOf(u) :
             /\ attempts[a].generation >= 1
             /\ attempts[a].generation > 1 =>
                  \E b \in AttemptsOf(u) :
                     attempts[b].generation + 1 = attempts[a].generation
             /\ tasks[u].current \in AttemptsOf(u)
             /\ attempts[a].generation <= attempts[tasks[u].current].generation
        /\ tasks[u].current # None => tasks[u].current \in AttemptsOf(u)
    BY DEF GenerationsAreDense
  <2>. QED  BY <1>4, <2>1, <2>2
<1>6. /\ \A a, b \in AttemptsOf(t)' :
           attempts'[a].generation = attempts'[b].generation => a = b
      /\ \A a \in AttemptsOf(t)' :
           /\ attempts'[a].generation >= 1
           /\ attempts'[a].generation > 1 =>
                \E b \in AttemptsOf(t)' :
                   attempts'[b].generation + 1 = attempts'[a].generation
           /\ tasks'[t].current \in AttemptsOf(t)'
           /\ attempts'[a].generation <= attempts'[tasks'[t].current].generation
      /\ tasks'[t].current # None => tasks'[t].current \in AttemptsOf(t)'
  <2>1. tasks'[t].current = new /\ g >= 1
    BY DEF Inserts
  <2>2. /\ \A a \in AttemptsOf(t) : attempts[a].generation < g
        /\ g = 1 \/ \E a \in AttemptsOf(t) : attempts[a].generation + 1 = g
    BY DEF Inserts, IsNextGeneration
  <2>3. /\ \A a, b \in AttemptsOf(t) :
             attempts[a].generation = attempts[b].generation => a = b
        /\ \A a \in AttemptsOf(t) :
             /\ attempts[a].generation >= 1
             /\ attempts[a].generation > 1 =>
                  \E b \in AttemptsOf(t) :
                     attempts[b].generation + 1 = attempts[a].generation
    BY <1>1 DEF GenerationsAreDense
  <2>4. \A a, b \in AttemptsOf(t)' :
          attempts'[a].generation = attempts'[b].generation => a = b
    BY <1>1, <1>2, <1>4, <2>2, <2>3
  <2>5. \A a \in AttemptsOf(t)' :
           /\ attempts'[a].generation >= 1
           /\ attempts'[a].generation > 1 =>
                \E b \in AttemptsOf(t)' :
                   attempts'[b].generation + 1 = attempts'[a].generation
    BY <1>1, <1>2, <1>4, <2>1, <2>2, <2>3
  <2>6. \A a \in AttemptsOf(t)' : attempts'[a].generation <= g
    BY <1>1, <1>2, <1>4, <2>2
  <2>. QED  BY <1>1, <1>2, <1>4, <2>1, <2>4, <2>5, <2>6
<1>. QED  BY <1>5, <1>6 DEF GenerationsAreDense

LEMMA SameNumbersKeepDense ==
  ASSUME GenerationsAreDense, SameNumbers
  PROVE  GenerationsAreDense'
<1>1. \A t \in Tasks : /\ AttemptsOf(t)' = AttemptsOf(t)
                       /\ tasks'[t].current = tasks[t].current
                       /\ AttemptsOf(t) \subseteq Attempts
  BY DEF SameNumbers, AttemptsOf
<1>2. \A a \in Attempts : attempts'[a].generation = attempts[a].generation
  BY DEF SameNumbers
<1>. QED  BY <1>1, <1>2 DEF GenerationsAreDense

LEMMA DenseStep ==
  ASSUME TypeInv, GenerationsAreDense, [Next]_vars
  PROVE  GenerationsAreDense'
BY NumbersAreKept, NewAttemptInserts, InsertKeepsDense, SameNumbersKeepDense

(* However create_attempt calls interleave, the attempts of a task are     *)
(* numbered 1..n, each number once, and the current one holds n.           *)
THEOREM GenerationsStayDense == Spec => []GenerationsAreDense
<1>1. Init => GenerationsAreDense
  BY NoneIsNoId DEF Init, GenerationsAreDense, AttemptsOf
<1>. QED  BY <1>1, DenseStep, TypeInvHolds, PTL DEF Spec

-----------------------------------------------------------------------------
(* A pending moveTask asks for one of the statuses that callers ask for.   *)
MovesAskForTargets ==
  \A c \in Callers : call[c].op = "moveTask" => call[c].target \in Targets

LEMMA MovesAskStep ==
  ASSUME TypeInv, MovesAskForTargets, [Next]_vars
  PROVE  MovesAskForTargets'
<1>. USE DEF TypeInv
<1>1. ASSUME NEW c \in Callers, Return(c) PROVE MovesAskForTargets'
  <2>1. call' = [call EXCEPT ![c] = Idle] /\ Idle.op = "idle"
    BY <1>1 DEF Return, Idle, Request
  <2>. QED  BY <2>1 DEF MovesAskForTargets, TypeOK
<1>2. ASSUME UNCHANGED call PROVE MovesAskForTargets'
  BY <1>2 DEF MovesAskForTargets
<1>3. ASSUME NEW c \in Callers, NEW r, Begin(c, r),
             r.op = "moveTask" => r.target \in Targets
      PROVE  MovesAskForTargets'
  <2>1. call' = [call EXCEPT ![c] = r]
    BY <1>3 DEF Begin
  <2>. QED  BY <1>3, <2>1 DEF MovesAskForTargets, TypeOK
<1>4. ASSUME NEW c \in Callers, CallerStep(c) PROVE MovesAskForTargets'
  <2>1. CASE MoveTask(c) \/ NewAttempt(c) \/ MoveAttempt(c) \/ Decide(c) \/ Abort(c)
    BY <1>1, <2>1 DEF MoveTask, NewAttempt, MoveAttempt, Decide, Abort
  <2>2. ASSUME NEW t \in Tasks, NEW a \in Attempts \cup {None},
               NEW g \in 0..MaxGeneration, NEW target \in Targets,
               BeginMoveTask(c, t, a, g, target)
        PROVE  MovesAskForTargets'
    BY <1>3, <2>2 DEF BeginMoveTask, Request
  <2>3. ASSUME NEW t \in Tasks, NEW a \in Attempts, NEW g \in 0..MaxGeneration,
               BeginNewAttempt(c, t, a, g)
        PROVE  MovesAskForTargets'
    BY <1>3, <2>3 DEF BeginNewAttempt, Request
  <2>4. ASSUME NEW t \in Tasks, NEW a \in Attempts, NEW g \in 1..MaxGeneration,
               NEW target \in Targets, BeginMoveAttempt(c, t, a, g, target)
        PROVE  MovesAskForTargets'
    BY <1>3, <2>4 DEF BeginMoveAttempt, Request
  <2>5. ASSUME NEW p \in Approvals, NEW verdict \in {"APPROVED", "DENIED"},
               BeginDecide(c, p, verdict)
        PROVE  MovesAskForTargets'
    BY <1>3, <2>5 DEF BeginDecide, Request
  <2>. QED  BY <1>4, <2>1, <2>2, <2>3, <2>4, <2>5 DEF CallerStep
<1>. QED
  BY <1>2, <1>4 DEF Next, CreateTask, RequestAndWait, vars

LEMMA WaitingStep ==
  ASSUME TypeInv, MovesAskForTargets, WaitingHasPendingApproval, [Next]_vars,
         "WAITING_APPROVAL" \notin Targets
  PROVE  WaitingHasPendingApproval'
<1>. USE DEF TypeInv
<1>1. CASE UNCHANGED db
  BY <1>1 DEF db, WaitingHasPendingApproval
<1>2. ASSUME NEW t \in Tasks, CreateTask(t) PROVE WaitingHasPendingApproval'
  BY <1>2 DEF CreateTask, TypeOK, WaitingHasPendingApproval
<1>3. ASSUME NEW t \in Tasks, NEW p \in Approvals, RequestAndWait(t, p)
      PROVE  WaitingHasPendingApproval'
  <2>1. /\ approvals'[p] = [task |-> t, status |-> "PENDING"]
        /\ \A q \in Approvals : q # p => approvals'[q] = approvals[q]
        /\ \A u \in Tasks : u # t => tasks'[u] = tasks[u]
        /\ approvals[p].task = None
    BY <1>3 DEF RequestAndWait, TypeOK
  <2>. QED  BY <2>1, NoneIsNoId DEF WaitingHasPendingApproval
<1>4. ASSUME NEW c \in Callers, MoveTask(c) PROVE WaitingHasPendingApproval'
  <2>1. /\ call[c].task \in Tasks /\ call[c].target # "WAITING_APPROVAL"
        /\ tasks' = [tasks EXCEPT ![call[c].task].status = call[c].target]
        /\ approvals' = approvals
    BY <1>4 DEF MoveTask, CallsAreSound, CallIsSound, MovesAskForTargets
  <2>2. \A u \in Tasks :
          tasks'[u].status = "WAITING_APPROVAL" => tasks[u].status = "WAITING_APPROVAL"
    BY <2>1 DEF TypeOK
  <2>. QED  BY <2>1, <2>2 DEF WaitingHasPendingApproval
<1>5. ASSUME NEW c \in Callers, NewAttempt(c) PROVE WaitingHasPendingApproval'
  <2>1. /\ \A u \in Tasks : tasks'[u].status = tasks[u].status
        /\ approvals' = approvals
    BY <1>5, NewAttemptInserts DEF Inserts, NewAttempt
  <2>. QED  BY <2>1 DEF WaitingHasPendingApproval
<1>6. ASSUME NEW c \in Callers, MoveAttempt(c) PROVE WaitingHasPendingApproval'
  BY <1>6 DEF MoveAttempt, WaitingHasPendingApproval
<1>7. ASSUME NEW c \in Callers, Decide(c) PROVE WaitingHasPendingApproval'
  <2>. DEFINE t == call[c].task
              p == call[c].approval
  <2>1. /\ t \in Tasks /\ p \in Approvals
        /\ approvals[p].task = t
    BY <1>7 DEF Decide, CallsAreSound, CallIsSound
  <2>2. \A q \in Approvals : /\ approvals'[q].task = approvals[q].task
                             /\ q # p => approvals'[q] = approvals[q]
    BY <1>7, <2>1 DEF Decide, TypeOK
  <2>3. /\ tasks'[t].status # "WAITING_APPROVAL"
        /\ \A u \in Tasks : u # t => tasks'[u] = tasks[u]
    <3>1. CASE tasks[t].status = "WAITING_APPROVAL"
      <4>1. PICK target \in {"RUNNING", "FAILED"} :
              tasks' = [tasks EXCEPT ![t].status = target]
        BY <1>7, <3>1 DEF Decide
      <4>. QED  BY <2>1, <4>1 DEF TypeOK
    <3>2. CASE tasks[t].status # "WAITING_APPROVAL"
      BY <1>7, <3>2 DEF Decide
    <3>. QED  BY <3>1, <3>2
  <2>4. ASSUME NEW u \in Tasks, tasks'[u].status = "WAITING_APPROVAL"
        PROVE  \E q \in Approvals :
                 approvals'[q].task = u /\ approvals'[q].status = "PENDING"
    <3>1. u # t /\ tasks[u].status = "WAITING_APPROVAL"
      BY <2>3, <2>4
    <3>2. PICK q \in Approvals :
            approvals[q].task = u /\ approvals[q].status = "PENDING"
      BY <3>1 DEF WaitingHasPendingApproval
    <3>. QED  BY <2>1, <2>2, <3>1, <3>2
  <2>. QED  BY <2>4 DEF WaitingHasPendingApproval
<1>. QED
  BY <1>1, <1>2, <1>3, <1>4, <1>5, <1>6, <1>7, DatabaseSteps

(* As long as no caller asks for WAITING_APPROVAL itself, a task that      *)
(* waits has an approval that can still be decided.                        *)
THEOREM WaitingIsDecidable ==
  ASSUME "WAITING_APPROVAL" \notin Targets
  PROVE  Spec => []WaitingHasPendingApproval
<1>1. Init => MovesAskForTargets /\ WaitingHasPendingApproval
  BY DEF Init, MovesAskForTargets, WaitingHasPendingApproval, Idle, Request, Absent
<1>2. TypeInv /\ MovesAskForTargets /\ WaitingHasPendingApproval /\ [Next]_vars
        => MovesAskForTargets' /\ WaitingHasPendingApproval'
  BY MovesAskStep, WaitingStep
<1>. QED  BY <1>1, <1>2, TypeInvHolds, PTL DEF Spec

-----------------------------------------------------------------------------
(* LastOf, said of a trail: replaying its first n events leaves x in s.    *)
Last(trail, x, n, s) ==
  \/ /\ s = Absent
     /\ \A i \in 1..n : trail[i].subject # x
  \/ \E i \in 1..n :
       /\ trail[i].subject = x
       /\ trail[i].to = s
       /\ \A j \in (i + 1)..n : trail[j].subject # x

(* An event about a task or an attempt that may follow a trail. *)
Follows(trail, e) ==
  e.subject \in Tasks \cup Attempts =>
    /\ Last(trail, e.subject, Len(trail), e.from)
    /\ e.from = Absent \/ CanMove(e.from, e.to)

Consistent(trail) ==
  \A i \in DOMAIN trail :
    trail[i].subject \in Tasks \cup Attempts =>
      /\ Last(trail, trail[i].subject, i - 1, trail[i].from)
      /\ trail[i].from = Absent \/ CanMove(trail[i].from, trail[i].to)

Silent(trail, x) == \A i \in DOMAIN trail : trail[i].subject # x

(* One more event: its subject is where it says, all others where they     *)
(* were, and a consistent trail stays so if the event may follow it.       *)
LEMMA OneMoreEvent ==
  ASSUME NEW trail \in Seq(Event), NEW e \in Event
  PROVE  /\ Append(trail, e) \in Seq(Event)
         /\ Last(Append(trail, e), e.subject, Len(Append(trail, e)), e.to)
         /\ \A x, s : x # e.subject /\ Last(trail, x, Len(trail), s) =>
              Last(Append(trail, e), x, Len(Append(trail, e)), s)
         /\ \A x : x # e.subject /\ Silent(trail, x) => Silent(Append(trail, e), x)
         /\ Consistent(trail) /\ Follows(trail, e) => Consistent(Append(trail, e))
<1>. DEFINE longer == Append(trail, e)
            n == Len(trail)
<1>1. /\ longer \in Seq(Event) /\ n \in Nat /\ Len(longer) = n + 1
      /\ DOMAIN trail = 1..n /\ DOMAIN longer = 1..(n + 1)
      /\ \A i \in 1..n : longer[i] = trail[i]
      /\ longer[n + 1] = e
  OBVIOUS
<1>. HIDE DEF longer, n
<1>2. Last(longer, e.subject, Len(longer), e.to)
  BY <1>1 DEF Last
<1>3. ASSUME NEW x, NEW s, x # e.subject, Last(trail, x, n, s)
      PROVE  Last(longer, x, Len(longer), s)
  <2>1. CASE s = Absent /\ \A i \in 1..n : trail[i].subject # x
    BY <1>1, <1>3, <2>1 DEF Last
  <2>2. ASSUME NEW i \in 1..n, trail[i].subject = x, trail[i].to = s,
               \A j \in (i + 1)..n : trail[j].subject # x
        PROVE  Last(longer, x, Len(longer), s)
    <3>1. \A j \in (i + 1)..(n + 1) : longer[j].subject # x
      <4>. SUFFICES ASSUME NEW j \in (i + 1)..(n + 1) PROVE longer[j].subject # x
        OBVIOUS
      <4>1. j = n + 1 \/ (j \in 1..n /\ j \in (i + 1)..n)
        BY <1>1
      <4>. QED  BY <1>1, <1>3, <2>2, <4>1
    <3>2. i \in 1..(n + 1) /\ longer[i] = trail[i]
      BY <1>1
    <3>. QED  BY <1>1, <2>2, <3>1, <3>2 DEF Last
  <2>. QED  BY <1>3, <2>1, <2>2 DEF Last
<1>4. \A x : x # e.subject /\ Silent(trail, x) => Silent(longer, x)
  BY <1>1 DEF Silent
<1>5. ASSUME NEW x, NEW s, NEW m \in 0..n, Last(trail, x, m, s)
      PROVE  Last(longer, x, m, s)
  <2>1. \A i \in 1..m : i \in 1..n /\ longer[i] = trail[i]
    BY <1>1
  <2>2. CASE s = Absent /\ \A i \in 1..m : trail[i].subject # x
    BY <2>1, <2>2 DEF Last
  <2>3. ASSUME NEW i \in 1..m, trail[i].subject = x, trail[i].to = s,
               \A j \in (i + 1)..m : trail[j].subject # x
        PROVE  Last(longer, x, m, s)
    <3>1. \A j \in (i + 1)..m : j \in 1..m
      BY <1>1
    <3>. QED  BY <2>1, <2>3, <3>1 DEF Last
  <2>. QED  BY <1>5, <2>2, <2>3 DEF Last
<1>6. ASSUME Consistent(trail), Follows(trail, e)
      PROVE  Consistent(longer)
  <2>. SUFFICES ASSUME NEW i \in 1..(n + 1),
                       longer[i].subject \in Tasks \cup Attempts
                PROVE  /\ Last(longer, longer[i].subject, i - 1, longer[i].from)
                       /\ \/ longer[i].from = Absent
                          \/ CanMove(longer[i].from, longer[i].to)
    BY <1>1 DEF Consistent
  <2>1. CASE i = n + 1
    <3>1. Last(trail, e.subject, n, e.from) /\ (e.from = Absent \/ CanMove(e.from, e.to))
      BY <1>1, <1>6, <2>1 DEF Follows, n
    <3>2. Last(longer, e.subject, n, e.from)
      BY <1>1, <1>5, <3>1
    <3>. QED  BY <1>1, <2>1, <3>1, <3>2
  <2>2. CASE i \in 1..n
    <3>1. longer[i] = trail[i] /\ i - 1 \in 0..n
      BY <1>1, <2>2
    <3>2. /\ Last(trail, trail[i].subject, i - 1, trail[i].from)
          /\ trail[i].from = Absent \/ CanMove(trail[i].from, trail[i].to)
      BY <1>1, <1>6, <2>2, <3>1 DEF Consistent
    <3>. QED  BY <1>5, <3>1, <3>2
  <2>. QED  BY <1>1, <2>1, <2>2
<1>. QED  BY <1>1, <1>2, <1>3, <1>4, <1>6 DEF longer, n

(* A trail tells the status s of task t and those of its attempts in table *)
(* rows, and nothing of attempts that have not been inserted.              *)
Tells(trail, t, s, rows) ==
  /\ Last(trail, t, Len(trail), s)
  /\ \A a \in Attempts :
       rows[a].task = t => Last(trail, a, Len(trail), rows[a].status)
  /\ \A a \in Attempts : rows[a].task = None => Silent(trail, a)
  /\ Consistent(trail)

Audited == \A t \in Tasks : Tells(events[t], t, tasks[t].status, attempts)

LEMMA AuditedReplays == Audited => AuditTrailReplays
BY DEF Audited, Tells, AuditTrailReplays, AttemptsOf, Last, LastOf, Consistent

(* An event about the task itself. *)
LEMMA TaskEventTells ==
  ASSUME NEW trail \in Seq(Event), NEW t \in Tasks, NEW e \in Event,
         e.subject = t, NEW s, NEW rows, Tells(trail, t, s, rows),
         e.from = s, s = Absent \/ CanMove(s, e.to)
  PROVE  Tells(Append(trail, e), t, e.to, rows)
<1>1. \A a \in Attempts : a # e.subject
  BY IdsAreDistinct
<1>2. Follows(trail, e)
  BY DEF Follows, Tells
<1>. QED  BY <1>1, <1>2, OneMoreEvent DEF Tells

(* An event about something that is neither a task nor an attempt. *)
LEMMA OtherEventTells ==
  ASSUME NEW trail \in Seq(Event), NEW t \in Tasks, NEW e \in Event,
         e.subject \notin Tasks \cup Attempts, NEW s, NEW rows,
         Tells(trail, t, s, rows)
  PROVE  Tells(Append(trail, e), t, s, rows)
<1>1. t # e.subject /\ \A a \in Attempts : a # e.subject
  OBVIOUS
<1>2. Follows(trail, e)
  BY DEF Follows
<1>. QED  BY <1>1, <1>2, OneMoreEvent DEF Tells

(* An event about an attempt of the task, or one that is inserted for it.  *)
LEMMA AttemptEventTells ==
  ASSUME NEW trail \in Seq(Event), NEW t \in Tasks, NEW e \in Event,
         NEW s, NEW rows, NEW rows2, NEW x \in Attempts, e.subject = x,
         Tells(trail, t, s, rows),
         \/ rows[x].task = t /\ e.from = rows[x].status /\ CanMove(e.from, e.to)
         \/ rows[x].task = None /\ e.from = Absent,
         rows2[x].task = t /\ rows2[x].status = e.to,
         \A a \in Attempts : a # x => rows2[a] = rows[a]
  PROVE  Tells(Append(trail, e), t, s, rows2)
<1>1. t # e.subject
  BY IdsAreDistinct
<1>2. Follows(trail, e)
  <2>1. CASE rows[x].task = t /\ e.from = rows[x].status /\ CanMove(e.from, e.to)
    BY <2>1 DEF Follows, Tells
  <2>2. CASE rows[x].task = None /\ e.from = Absent
    <3>1. \A i \in 1..Len(trail) : trail[i].subject # x
      BY <2>2 DEF Tells, Silent
    <3>. QED  BY <2>2, <3>1 DEF Follows, Last
  <2>. QED  BY <2>1, <2>2
<1>3. rows2[x].task # None
  BY NoneIsNoId
<1>4. \A a \in Attempts : rows2[a].task = t =>
        Last(Append(trail, e), a, Len(Append(trail, e)), rows2[a].status)
  <2>. SUFFICES ASSUME NEW a \in Attempts, rows2[a].task = t
                PROVE  Last(Append(trail, e), a, Len(Append(trail, e)), rows2[a].status)
    OBVIOUS
  <2>1. CASE a = x
    BY <2>1, OneMoreEvent
  <2>2. CASE a # x
    <3>1. a # e.subject /\ Last(trail, a, Len(trail), rows2[a].status)
      BY <2>2 DEF Tells
    <3>. QED  BY <3>1, OneMoreEvent
  <2>. QED  BY <2>1, <2>2
<1>5. \A a \in Attempts : rows2[a].task = None => Silent(Append(trail, e), a)
  <2>. SUFFICES ASSUME NEW a \in Attempts, rows2[a].task = None
                PROVE  Silent(Append(trail, e), a)
    OBVIOUS
  <2>1. a # e.subject /\ Silent(trail, a)
    BY <1>3 DEF Tells
  <2>. QED  BY <2>1, OneMoreEvent
<1>. QED  BY <1>1, <1>2, <1>4, <1>5, OneMoreEvent DEF Tells

(* The tasks that a step does not write. *)
LEMMA OthersTell ==
  ASSUME Audited, NEW t \in Tasks,
         Tells(events'[t], t, tasks'[t].status, attempts'),
         \A u \in Tasks : u # t => /\ events'[u] = events[u]
                                   /\ tasks'[u].status = tasks[u].status,
         \A a \in Attempts : attempts'[a] = attempts[a] \/ attempts'[a].task = t
  PROVE  Audited'
<1>1. ASSUME NEW u \in Tasks, u # t
      PROVE  Tells(events'[u], u, tasks'[u].status, attempts')
  <2>1. Tells(events[u], u, tasks[u].status, attempts)
    BY DEF Audited
  <2>2. \A a \in Attempts : attempts'[a].task \in {u, None} =>
          attempts'[a] = attempts[a]
    BY <1>1, NoneIsNoId
  <2>3. events'[u] = events[u] /\ tasks'[u].status = tasks[u].status
    BY <1>1
  <2>. QED  BY <2>1, <2>2, <2>3 DEF Tells
<1>. QED  BY <1>1 DEF Audited

LEMMA EntryFields ==
  ASSUME NEW x, NEW from, NEW to
  PROVE  /\ Entry(x, from, to).subject = x
         /\ Entry(x, from, to).from = from
         /\ Entry(x, from, to).to = to
BY DEF Entry

(* The same for the entries that the repositories log. *)
LEMMA TaskMoveTells ==
  ASSUME NEW trail \in Seq(Event), NEW t \in Tasks, NEW from, NEW to, NEW rows,
         Entry(t, from, to) \in Event, Tells(trail, t, from, rows),
         from = Absent \/ CanMove(from, to)
  PROVE  Tells(Append(trail, Entry(t, from, to)), t, to, rows)
<1>1. PICK e \in Event : e = Entry(t, from, to)
  OBVIOUS
<1>2. e.subject = t /\ e.from = from /\ e.to = to
  BY <1>1, EntryFields
<1>3. Tells(Append(trail, e), t, e.to, rows)
  BY <1>2, TaskEventTells
<1>. QED  BY <1>1, <1>2, <1>3

(* Row x of task t is inserted, or moved, and no other row is written. *)
Writes(rows, rows2, t, x, from, to) ==
  /\ \/ rows[x].task = t /\ from = rows[x].status /\ CanMove(from, to)
     \/ rows[x].task = None /\ from = Absent
  /\ rows2[x].task = t /\ rows2[x].status = to
  /\ \A a \in Attempts : a # x => rows2[a] = rows[a]

LEMMA AttemptMoveTells ==
  ASSUME NEW trail \in Seq(Event), NEW t \in Tasks, NEW x \in Attempts,
         NEW from, NEW to, NEW s, NEW rows, NEW rows2,
         Entry(x, from, to) \in Event, Tells(trail, t, s, rows),
         Writes(rows, rows2, t, x, from, to)
  PROVE  Tells(Append(trail, Entry(x, from, to)), t, s, rows2)
<1>1. PICK e \in Event : e = Entry(x, from, to)
  OBVIOUS
<1>2. e.subject = x /\ e.from = from /\ e.to = to
  BY <1>1, EntryFields
<1>3. \/ rows[x].task = t /\ e.from = rows[x].status /\ CanMove(e.from, e.to)
      \/ rows[x].task = None /\ e.from = Absent
  BY <1>2 DEF Writes
<1>4. Tells(Append(trail, e), t, s, rows2)
  BY <1>2, <1>3, AttemptEventTells DEF Writes
<1>. QED  BY <1>1, <1>4

LEMMA AuditStep ==
  ASSUME TypeInv, UninsertedRowsAreInitial, Audited, [Next]_vars
  PROVE  Audited'
<1>. USE DEF TypeInv
<1>1. CASE UNCHANGED db
  BY <1>1 DEF db, Audited
<1>2. ASSUME NEW t \in Tasks, CreateTask(t) PROVE Audited'
  <2>. DEFINE e == Entry(t, Absent, "CREATED")
  <2>1. /\ tasks[t].status = Absent /\ attempts' = attempts
        /\ tasks'[t].status = "CREATED"
        /\ events[t] \in Seq(Event)
        /\ events'[t] = Append(events[t], e)
        /\ \A u \in Tasks : u # t => /\ events'[u] = events[u]
                                     /\ tasks'[u].status = tasks[u].status
    BY <1>2 DEF CreateTask, Log, TypeOK
  <2>2. e \in Event
    BY EntryIsEvent DEF Subjects, StatusOrAbsent, Status
  <2>3. Tells(events[t], t, tasks[t].status, attempts)
    BY DEF Audited
  <2>4. Tells(Append(events[t], e), t, "CREATED", attempts)
    BY <2>1, <2>2, <2>3, TaskMoveTells
  <2>. QED  BY <2>1, <2>4, OthersTell
<1>3. ASSUME NEW t \in Tasks, NEW p \in Approvals, RequestAndWait(t, p)
      PROVE Audited'
  <2>. DEFINE e == Entry(p, Absent, "PENDING")
              f == Entry(t, "RUNNING", "WAITING_APPROVAL")
  <2>1. /\ tasks[t].status = "RUNNING" /\ attempts' = attempts
        /\ tasks'[t].status = "WAITING_APPROVAL"
        /\ events[t] \in Seq(Event)
        /\ events'[t] = Append(Append(events[t], e), f)
        /\ \A u \in Tasks : u # t => /\ events'[u] = events[u]
                                     /\ tasks'[u].status = tasks[u].status
    BY <1>3 DEF RequestAndWait, LogBoth, TypeOK
  <2>2. e \in Event /\ f \in Event
    BY EntryIsEvent DEF Subjects, StatusOrAbsent, Status, ApprovalStatus
  <2>3. Tells(events[t], t, tasks[t].status, attempts)
    BY DEF Audited
  <2>4. /\ Append(events[t], e) \in Seq(Event)
        /\ Tells(Append(events[t], e), t, "RUNNING", attempts)
    BY <2>1, <2>2, <2>3, OtherEventTells, EntryFields, IdsAreDistinct
  <2>5. CanMove("RUNNING", "WAITING_APPROVAL")
    BY DEF CanMove, Allowed
  <2>6. Tells(Append(Append(events[t], e), f), t, "WAITING_APPROVAL", attempts)
    BY <2>2, <2>4, <2>5, TaskMoveTells
  <2>. QED  BY <2>1, <2>6, OthersTell
<1>4. ASSUME NEW c \in Callers, MoveTask(c) PROVE Audited'
  <2>1. PICK t \in Tasks, from \in Status, to \in Status :
          /\ t = call[c].task /\ from = call[c].expected /\ to = call[c].target
          /\ CanMove(from, to)
    BY <1>4, TableFacts DEF MoveTask, CallsAreSound, CallIsSound
  <2>. DEFINE e == Entry(t, from, to)
  <2>2. /\ tasks[t].status = from /\ attempts' = attempts
        /\ tasks' = [tasks EXCEPT ![t].status = to]
        /\ events' = [events EXCEPT ![t] = Append(@, e)]
    BY <1>4, <2>1 DEF MoveTask, Log
  <2>3. /\ tasks'[t].status = to
        /\ events[t] \in Seq(Event)
        /\ events'[t] = Append(events[t], e)
        /\ \A u \in Tasks : u # t => /\ events'[u] = events[u]
                                     /\ tasks'[u].status = tasks[u].status
    BY <2>2 DEF TypeOK
  <2>4. e \in Event
    BY EntryIsEvent DEF Subjects, StatusOrAbsent
  <2>5. Tells(events[t], t, from, attempts)
    BY <2>2 DEF Audited
  <2>6. Tells(Append(events[t], e), t, to, attempts)
    BY <2>1, <2>3, <2>4, <2>5, TaskMoveTells
  <2>. QED  BY <2>2, <2>3, <2>6, OthersTell
<1>5. ASSUME NEW c \in Callers, NewAttempt(c) PROVE Audited'
  <2>1. PICK t \in Tasks, x \in Attempts, g \in Nat :
          /\ Inserts(t, x, g)
          /\ t = call[c].task /\ x = call[c].attempt
    BY <1>5, NewAttemptInserts
  <2>. DEFINE e == Entry(x, Absent, "ASSIGNED")
  <2>2. events' = [events EXCEPT ![t] = Append(@, e)]
    BY <1>5, <2>1 DEF NewAttempt, Log
  <2>3. /\ events[t] \in Seq(Event)
        /\ events'[t] = Append(events[t], e)
        /\ \A u \in Tasks : u # t => events'[u] = events[u]
    BY <2>2 DEF TypeOK
  <2>4. e \in Event
    BY EntryIsEvent DEF Subjects, StatusOrAbsent, Status
  <2>5. /\ attempts[x].task = None
        /\ attempts'[x].task = t /\ attempts'[x].status = "ASSIGNED"
        /\ \A a \in Attempts : a # x => attempts'[a] = attempts[a]
        /\ \A u \in Tasks : tasks'[u].status = tasks[u].status
    BY <2>1 DEF Inserts
  <2>6. Tells(events[t], t, tasks[t].status, attempts)
    BY DEF Audited
  <2>7. Tells(Append(events[t], e), t, tasks[t].status, attempts')
    <3>1. Writes(attempts, attempts', t, x, Absent, "ASSIGNED")
      BY <2>5 DEF Writes
    <3>. QED  BY <2>3, <2>4, <2>6, <3>1, AttemptMoveTells
  <2>. QED  BY <2>3, <2>5, <2>7, OthersTell
<1>6. ASSUME NEW c \in Callers, MoveAttempt(c) PROVE Audited'
  <2>1. PICK t \in Tasks, x \in Attempts, from \in Status, to \in Status :
          /\ t = call[c].task /\ x = call[c].attempt
          /\ from = call[c].expected /\ to = call[c].target
          /\ CanMove(from, to)
    BY <1>6, TableFacts DEF MoveAttempt, CallsAreSound, CallIsSound
  <2>. DEFINE e == Entry(x, from, to)
  <2>2. /\ attempts[x].status = from /\ attempts[x].task = t /\ tasks' = tasks
        /\ attempts' = [attempts EXCEPT ![x].status = to]
        /\ events' = [events EXCEPT ![t] = Append(@, e)]
    BY <1>6, <2>1 DEF MoveAttempt, Fenced, AttemptsOf, Log
  <2>3. /\ events[t] \in Seq(Event)
        /\ events'[t] = Append(events[t], e)
        /\ \A u \in Tasks : u # t => events'[u] = events[u]
        /\ attempts'[x].task = t /\ attempts'[x].status = to
        /\ \A a \in Attempts : a # x => attempts'[a] = attempts[a]
    BY <2>2 DEF TypeOK
  <2>4. e \in Event
    BY EntryIsEvent DEF Subjects, StatusOrAbsent
  <2>5. Tells(events[t], t, tasks[t].status, attempts)
    BY DEF Audited
  <2>6. Tells(Append(events[t], e), t, tasks[t].status, attempts')
    <3>1. Writes(attempts, attempts', t, x, from, to)
      BY <2>1, <2>2, <2>3 DEF Writes
    <3>. QED  BY <2>3, <2>4, <2>5, <3>1, AttemptMoveTells
  <2>. QED  BY <2>2, <2>3, <2>6, OthersTell
<1>7. ASSUME NEW c \in Callers, Decide(c) PROVE Audited'
  <2>1. PICK t \in Tasks, p \in Approvals, verdict \in {"APPROVED", "DENIED"} :
          t = call[c].task /\ p = call[c].approval /\ verdict = call[c].target
    BY <1>7 DEF Decide, CallsAreSound, CallIsSound
  <2>. DEFINE e == Entry(p, "PENDING", verdict)
  <2>2. e \in Event /\ e.subject \notin Tasks \cup Attempts
    BY EntryIsEvent, EntryFields, IdsAreDistinct DEF Subjects, ApprovalStatus
  <2>3. attempts' = attempts
    BY <1>7 DEF Decide
  <2>4. events[t] \in Seq(Event) /\ Tells(events[t], t, tasks[t].status, attempts)
    BY DEF Audited, TypeOK
  <2>5. CASE tasks[t].status # "WAITING_APPROVAL"
    <3>1. tasks' = tasks /\ events' = [events EXCEPT ![t] = Append(@, e)]
      BY <1>7, <2>1, <2>5 DEF Decide, Log
    <3>2. /\ events'[t] = Append(events[t], e)
          /\ \A u \in Tasks : u # t => events'[u] = events[u]
      BY <3>1 DEF TypeOK
    <3>3. Tells(Append(events[t], e), t, tasks[t].status, attempts)
      BY <2>2, <2>4, OtherEventTells
    <3>. QED  BY <2>3, <3>1, <3>2, <3>3, OthersTell
  <2>6. CASE tasks[t].status = "WAITING_APPROVAL"
    <3>1. PICK to \in {"RUNNING", "FAILED"} :
            /\ tasks' = [tasks EXCEPT ![t].status = to]
            /\ events' = [events EXCEPT ![t] =
                 Append(Append(@, Entry(t, "WAITING_APPROVAL", to)), e)]
      BY <1>7, <2>1, <2>6 DEF Decide, LogBoth
    <3>. DEFINE f == Entry(t, "WAITING_APPROVAL", to)
    <3>2. /\ tasks'[t].status = to
          /\ events'[t] = Append(Append(events[t], f), e)
          /\ \A u \in Tasks : u # t => /\ events'[u] = events[u]
                                       /\ tasks'[u].status = tasks[u].status
      BY <3>1 DEF TypeOK
    <3>3. f \in Event
      BY EntryIsEvent DEF Subjects, StatusOrAbsent, Status
    <3>4. CanMove("WAITING_APPROVAL", to)
      BY DEF CanMove, Allowed
    <3>5. /\ Append(events[t], f) \in Seq(Event)
          /\ Tells(Append(events[t], f), t, to, attempts)
      BY <2>4, <2>6, <3>3, <3>4, TaskMoveTells
    <3>6. Tells(Append(Append(events[t], f), e), t, to, attempts)
      BY <2>2, <3>5, OtherEventTells
    <3>. QED  BY <2>3, <3>2, <3>6, OthersTell
  <2>. QED  BY <2>5, <2>6
<1>. QED
  BY <1>1, <1>2, <1>3, <1>4, <1>5, <1>6, <1>7, DatabaseSteps

(* The audit trail is complete and consistent under every interleaving:    *)
(* every transaction of the repositories logs what it changes, and what it *)
(* logs as the former status is the status it replaces.                    *)
THEOREM TrailReplays == Spec => []AuditTrailReplays
<1>1. Init => Audited
  BY DEF Init, Audited, Tells, Last, Silent, Consistent
<1>. QED
  BY <1>1, AuditStep, AuditedReplays, TypeInvHolds, UninsertedRowsStayInitial, PTL
  DEF Spec

-----------------------------------------------------------------------------
(* A pending newAttempt is for a task that exists. *)
SupersedesExisting ==
  \A c \in Callers :
    call[c].op = "newAttempt" => tasks[call[c].task].status # Absent

LEMMA SupersedesStep ==
  ASSUME TypeInv, SupersedesExisting, [Next]_vars
  PROVE  SupersedesExisting'
<1>. USE DEF TypeInv
<1>1. ASSUME NEW t \in Tasks, tasks[t].status # Absent
      PROVE  tasks'[t].status # Absent
  <2>1. Absent \notin Status
    BY DEF Absent, Status
  <2>. QED  BY <1>1, <2>1, TaskWrites, TableFacts DEF TypeOK
<1>2. \A c \in Callers : call'[c].op = "newAttempt" =>
        \/ call'[c] = call[c]
        \/ /\ call'[c].task \in Tasks
           /\ tasks[call'[c].task].status # Absent
  <2>1. CASE UNCHANGED call
    BY <2>1
  <2>2. ASSUME NEW c \in Callers, Return(c)
        PROVE  \A d \in Callers : call'[d].op = "newAttempt" => call'[d] = call[d]
    <3>1. call' = [call EXCEPT ![c] = Idle] /\ Idle.op = "idle"
      BY <2>2 DEF Return, Idle, Request
    <3>. QED  BY <3>1 DEF TypeOK
  <2>3. ASSUME NEW c \in Callers, NEW r, Begin(c, r), r.op = "newAttempt" =>
                 r.task \in Tasks /\ tasks[r.task].status # Absent
        PROVE  \A d \in Callers : call'[d].op = "newAttempt" =>
                 \/ call'[d] = call[d]
                 \/ /\ call'[d].task \in Tasks
                    /\ tasks[call'[d].task].status # Absent
    <3>1. call' = [call EXCEPT ![c] = r]
      BY <2>3 DEF Begin
    <3>. QED  BY <2>3, <3>1 DEF TypeOK
  <2>4. ASSUME NEW c \in Callers, CallerStep(c)
        PROVE  \A d \in Callers : call'[d].op = "newAttempt" =>
                 \/ call'[d] = call[d]
                 \/ /\ call'[d].task \in Tasks
                    /\ tasks[call'[d].task].status # Absent
    <3>1. CASE MoveTask(c) \/ NewAttempt(c) \/ MoveAttempt(c) \/ Decide(c) \/ Abort(c)
      BY <2>2, <3>1 DEF MoveTask, NewAttempt, MoveAttempt, Decide, Abort
    <3>2. ASSUME NEW r, Begin(c, r), r.op = "newAttempt" =>
                   r.task \in Tasks /\ tasks[r.task].status # Absent
          PROVE  \A d \in Callers : call'[d].op = "newAttempt" =>
                   \/ call'[d] = call[d]
                   \/ /\ call'[d].task \in Tasks
                      /\ tasks[call'[d].task].status # Absent
      BY <2>3, <3>2
    <3>3. ASSUME NEW t \in Tasks, NEW a \in Attempts, NEW g \in 0..MaxGeneration,
                 BeginNewAttempt(c, t, a, g)
          PROVE  \E r : Begin(c, r) /\ r.task \in Tasks /\ tasks[r.task].status # Absent
      BY <3>3 DEF BeginNewAttempt, Request
    <3>4. ASSUME NEW t \in Tasks, NEW a \in Attempts \cup {None},
                 NEW g \in 0..MaxGeneration, NEW target \in Targets,
                 BeginMoveTask(c, t, a, g, target)
          PROVE  \E r : Begin(c, r) /\ r.op = "moveTask"
      BY <3>4 DEF BeginMoveTask, Request
    <3>5. ASSUME NEW t \in Tasks, NEW a \in Attempts, NEW g \in 1..MaxGeneration,
                 NEW target \in Targets, BeginMoveAttempt(c, t, a, g, target)
          PROVE  \E r : Begin(c, r) /\ r.op = "moveAttempt"
      BY <3>5 DEF BeginMoveAttempt, Request
    <3>6. ASSUME NEW p \in Approvals, NEW verdict \in {"APPROVED", "DENIED"},
                 BeginDecide(c, p, verdict)
          PROVE  \E r : Begin(c, r) /\ r.op = "decide"
      BY <3>6 DEF BeginDecide, Request
    <3>. QED  BY <2>4, <3>1, <3>2, <3>3, <3>4, <3>5, <3>6 DEF CallerStep
  <2>. QED  BY <2>1, <2>4 DEF Next, CreateTask, RequestAndWait, vars
<1>. QED
  BY <1>1, <1>2 DEF SupersedesExisting, CallsAreSound, CallIsSound

(* How the rows of a task look through its current attempt. *)
LEMMA CurrentRow ==
  ASSUME TypeInv, GenerationsAreDense, NEW t \in Tasks
  PROVE  /\ tasks[t].current = None => AttemptsOf(t) = {}
         /\ tasks[t].current # None =>
              /\ tasks[t].current \in Attempts
              /\ attempts[tasks[t].current].task = t
<1>1. \A a \in AttemptsOf(t) : tasks[t].current \in AttemptsOf(t)
  BY DEF GenerationsAreDense
<1>2. tasks[t].current # None => tasks[t].current \in AttemptsOf(t)
  BY DEF GenerationsAreDense
<1>3. AttemptsOf(t) \subseteq Attempts
  BY DEF AttemptsOf
<1>. QED  BY <1>1, <1>2, <1>3, NoneIsNoId DEF AttemptsOf

LEMMA InsertTakesNext ==
  ASSUME TypeInv, GenerationsAreDense, NEW t \in Tasks, NEW new \in Attempts,
         NEW g \in Nat, Inserts(t, new, g)
  PROVE  g = CurrentGeneration[t] + 1
<1>1. /\ \A a \in AttemptsOf(t) : attempts[a].generation < g
      /\ g = 1 \/ \E a \in AttemptsOf(t) : attempts[a].generation + 1 = g
      /\ \A a \in Attempts : attempts[a].generation \in Nat
  BY DEF Inserts, IsNextGeneration, TypeInv, TypeOK
<1>2. \A a \in AttemptsOf(t) :
        a \in Attempts
        /\ attempts[a].generation <= attempts[tasks[t].current].generation
        /\ attempts[a].generation >= 1
  BY DEF GenerationsAreDense, AttemptsOf
<1>3. CASE tasks[t].current = None
  <2>1. AttemptsOf(t) = {} /\ CurrentGeneration[t] = 0
    BY <1>3, CurrentRow DEF CurrentGeneration
  <2>. QED  BY <1>1, <2>1
<1>4. CASE tasks[t].current # None
  <2>. DEFINE k == tasks[t].current
  <2>1. k \in AttemptsOf(t) /\ CurrentGeneration[t] = attempts[k].generation
    BY <1>4, CurrentRow DEF CurrentGeneration, AttemptsOf
  <2>. HIDE DEF k
  <2>2. attempts[k].generation \in Nat /\ attempts[k].generation < g
        /\ attempts[k].generation >= 1
    BY <1>1, <1>2, <2>1
  <2>3. PICK a \in AttemptsOf(t) : attempts[a].generation + 1 = g
    BY <1>1, <2>2
  <2>4. attempts[a].generation <= attempts[k].generation
        /\ attempts[a].generation \in Nat
    BY <1>1, <1>2, <2>3 DEF k
  <2>. QED  BY <2>1, <2>2, <2>3, <2>4
<1>. QED  BY <1>3, <1>4

LEMMA LifecycleStep ==
  ASSUME TypeInv, GenerationsAreDense, SupersedesExisting, [Next]_vars
  PROVE  [Lifecycle!Next]_(Lifecycle!vars)
<1>. USE DEF TypeInv
<1>. DEFINE status == [t \in Tasks |-> tasks[t].status]
            newStatus == [t \in Tasks |-> tasks'[t].status]
<1>1. CASE UNCHANGED db
  BY <1>1 DEF db, Lifecycle!vars, CurrentGeneration, CurrentAttemptStatus
<1>2. ASSUME UNCHANGED attempts,
             \A t \in Tasks : tasks'[t].current = tasks[t].current
      PROVE  /\ CurrentGeneration' = CurrentGeneration
             /\ CurrentAttemptStatus' = CurrentAttemptStatus
  BY <1>2 DEF CurrentGeneration, CurrentAttemptStatus
<1>3. ASSUME NEW t \in Tasks, CreateTask(t)
      PROVE  Lifecycle!Create(t)
  <2>1. /\ tasks[t].status = Absent /\ attempts' = attempts
        /\ \A u \in Tasks : tasks'[u].current = tasks[u].current
        /\ newStatus = [status EXCEPT ![t] = "CREATED"]
    BY <1>3 DEF CreateTask, TypeOK
  <2>. QED  BY <1>2, <2>1 DEF Lifecycle!Create, Lifecycle!Absent, Absent
<1>4. ASSUME NEW t \in Tasks, NEW p \in Approvals, RequestAndWait(t, p)
      PROVE  Lifecycle!Move(t)
  <2>1. /\ tasks[t].status = "RUNNING" /\ attempts' = attempts
        /\ \A u \in Tasks : tasks'[u].current = tasks[u].current
        /\ newStatus = [status EXCEPT ![t] = "WAITING_APPROVAL"]
    BY <1>4 DEF RequestAndWait, TypeOK
  <2>2. "WAITING_APPROVAL" \in Allowed(status[t])
    BY <2>1 DEF Allowed
  <2>. QED  BY <1>2, <2>1, <2>2 DEF Lifecycle!Move, Lifecycle!Allowed, Allowed
<1>5. ASSUME NEW c \in Callers, MoveTask(c)
      PROVE  \E t \in Tasks : Lifecycle!Move(t)
  <2>1. PICK t \in Tasks, from \in Status, to \in Status :
          /\ t = call[c].task /\ from = call[c].expected /\ to = call[c].target
          /\ to \in Allowed(from)
    BY <1>5, TableFacts DEF MoveTask, CallsAreSound, CallIsSound, CanMove
  <2>2. /\ tasks[t].status = from /\ attempts' = attempts
        /\ tasks' = [tasks EXCEPT ![t].status = to]
    BY <1>5, <2>1 DEF MoveTask
  <2>3. /\ \A u \in Tasks : tasks'[u].current = tasks[u].current
        /\ newStatus = [status EXCEPT ![t] = to]
        /\ to \in Allowed(status[t])
    BY <2>1, <2>2 DEF TypeOK
  <2>. QED  BY <1>2, <2>2, <2>3 DEF Lifecycle!Move, Lifecycle!Allowed, Allowed
<1>6. ASSUME NEW c \in Callers, NewAttempt(c)
      PROVE  \E t \in Tasks : Lifecycle!Supersede(t)
  <2>1. PICK t \in Tasks, new \in Attempts, g \in Nat :
          Inserts(t, new, g) /\ t = call[c].task
    BY <1>6, NewAttemptInserts
  <2>2. tasks[t].status # Absent
    BY <1>6, <2>1 DEF SupersedesExisting, NewAttempt
  <2>3. /\ newStatus = status
        /\ tasks'[t].current = new /\ new # None
        /\ attempts[new].task = None
        /\ attempts'[new].generation = g /\ attempts'[new].status = "ASSIGNED"
        /\ \A a \in Attempts : a # new => attempts'[a] = attempts[a]
        /\ \A u \in Tasks : u # t => tasks'[u].current = tasks[u].current
    BY <2>1, NoneIsNoId DEF Inserts
  <2>4. \A u \in Tasks : u # t /\ tasks[u].current # None =>
          /\ tasks[u].current \in Attempts /\ tasks[u].current # new
    BY <2>3, CurrentRow, NoneIsNoId
  <2>5. CurrentGeneration' = [CurrentGeneration EXCEPT ![t] = @ + 1]
    BY <2>1, <2>3, <2>4, InsertTakesNext DEF CurrentGeneration
  <2>6. CurrentAttemptStatus' = [CurrentAttemptStatus EXCEPT ![t] = "ASSIGNED"]
    <3>1. CurrentAttemptStatus'[t] = "ASSIGNED"
      BY <2>3 DEF CurrentAttemptStatus
    <3>2. ASSUME NEW u \in Tasks, u # t
          PROVE  CurrentAttemptStatus'[u] = CurrentAttemptStatus[u]
      <4>1. CASE tasks[u].current = None
        BY <2>3, <3>2, <4>1 DEF CurrentAttemptStatus
      <4>2. CASE tasks[u].current # None
        BY <2>3, <2>4, <3>2, <4>2 DEF CurrentAttemptStatus
      <4>. QED  BY <4>1, <4>2
    <3>. QED  BY <3>1, <3>2 DEF CurrentAttemptStatus
  <2>. QED  BY <2>2, <2>3, <2>5, <2>6 DEF Lifecycle!Supersede, Lifecycle!Absent, Absent
<1>7. ASSUME NEW c \in Callers, MoveAttempt(c)
      PROVE  \E t \in Tasks : Lifecycle!MoveAttempt(t)
  <2>1. PICK t \in Tasks, x \in Attempts, from \in Status, to \in Status :
          /\ t = call[c].task /\ x = call[c].attempt
          /\ from = call[c].expected /\ to = call[c].target
          /\ to \in Allowed(from)
    BY <1>7, TableFacts DEF MoveAttempt, CallsAreSound, CallIsSound, CanMove
  <2>2. /\ attempts[x].status = from /\ attempts[x].task = t /\ tasks' = tasks
        /\ attempts' = [attempts EXCEPT ![x].status = to]
        /\ tasks[t].current = x /\ x # None
    BY <1>7, <2>1, NoneIsNoId DEF MoveAttempt, Fenced, AttemptsOf
  <2>3. /\ attempts'[x].status = to
        /\ \A a \in Attempts : attempts'[a].generation = attempts[a].generation
        /\ \A a \in Attempts : a # x => attempts'[a] = attempts[a]
    BY <2>2 DEF TypeOK
  <2>4. \A u \in Tasks : tasks[u].current # None =>
          /\ tasks[u].current \in Attempts
          /\ u # t => tasks[u].current # x
    BY <2>2, CurrentRow
  <2>5. CurrentGeneration' = CurrentGeneration
    BY <2>2, <2>3, <2>4 DEF CurrentGeneration
  <2>6. CurrentAttemptStatus' = [CurrentAttemptStatus EXCEPT ![t] = to]
    <3>1. CurrentAttemptStatus'[t] = to
      BY <2>2, <2>3 DEF CurrentAttemptStatus
    <3>2. ASSUME NEW u \in Tasks, u # t
          PROVE  CurrentAttemptStatus'[u] = CurrentAttemptStatus[u]
      <4>1. CASE tasks[u].current = None
        BY <2>2, <4>1 DEF CurrentAttemptStatus
      <4>2. CASE tasks[u].current # None
        BY <2>2, <2>3, <2>4, <3>2, <4>2 DEF CurrentAttemptStatus
      <4>. QED  BY <4>1, <4>2
    <3>. QED  BY <3>1, <3>2 DEF CurrentAttemptStatus
  <2>7. to \in Allowed(CurrentAttemptStatus[t])
    BY <2>1, <2>2 DEF CurrentAttemptStatus
  <2>. QED
    BY <2>2, <2>5, <2>6, <2>7 DEF Lifecycle!MoveAttempt, Lifecycle!Allowed, Allowed
<1>8. ASSUME NEW c \in Callers, Decide(c)
      PROVE  \/ UNCHANGED <<tasks, attempts>>
             \/ \E t \in Tasks : Lifecycle!Move(t)
  <2>1. attempts' = attempts /\ call[c].task \in Tasks
    BY <1>8 DEF Decide, CallsAreSound, CallIsSound
  <2>2. CASE tasks[call[c].task].status # "WAITING_APPROVAL"
    BY <1>8, <2>1, <2>2 DEF Decide
  <2>3. CASE tasks[call[c].task].status = "WAITING_APPROVAL"
    <3>1. PICK t \in Tasks, to \in {"RUNNING", "FAILED"} :
            /\ tasks[t].status = "WAITING_APPROVAL"
            /\ tasks' = [tasks EXCEPT ![t].status = to]
      BY <1>8, <2>1, <2>3 DEF Decide
    <3>2. /\ \A u \in Tasks : tasks'[u].current = tasks[u].current
          /\ newStatus = [status EXCEPT ![t] = to]
      BY <3>1 DEF TypeOK
    <3>3. to \in Allowed(status[t])
      BY <3>1 DEF Allowed
    <3>. QED  BY <1>2, <2>1, <3>2, <3>3 DEF Lifecycle!Move, Lifecycle!Allowed, Allowed
  <2>. QED  BY <2>2, <2>3
<1>9. CASE UNCHANGED <<tasks, attempts>>
  BY <1>9 DEF Lifecycle!vars, CurrentGeneration, CurrentAttemptStatus
<1>. QED
  BY <1>1, <1>3, <1>4, <1>5, <1>6, <1>7, <1>8, <1>9, DatabaseSteps
  DEF Lifecycle!Next

(* The tables implement the task lifecycle, for any number of callers: the *)
(* policy is checked on what was read before the transaction, and the      *)
(* transaction's own conditions make that enough.                          *)
THEOREM LifecycleIsImplemented == Spec => ImplementsLifecycle
<1>1. Init => Lifecycle!Init
  BY DEF Init, Lifecycle!Init, Lifecycle!Absent, Absent, CurrentGeneration,
     CurrentAttemptStatus
<1>2. Init => SupersedesExisting
  BY DEF Init, SupersedesExisting, Idle, Request
<1>. QED
  BY <1>1, <1>2, SupersedesStep, LifecycleStep, TypeInvHolds, GenerationsStayDense,
     PTL
  DEF Spec, ImplementsLifecycle, Lifecycle!Spec

=============================================================================
