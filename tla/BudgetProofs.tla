---------------------------- MODULE BudgetProofs ----------------------------
(***************************************************************************)
(* Theorems about Budget, for every finite set of tasks, approvals and     *)
(* callers, every set of costs, every limit and every number of days.      *)
(*                                                                         *)
(* The argument: a scope is one of the four limits with its tasks and its  *)
(* period.  A caller weighs in a scope what it may still record there once *)
(* it has read a sum that leaves room.  All that is recorded in a scope    *)
(* today and all that is due stays within the limit, what was approved and *)
(* one call of each caller but the last one to read (ScopeIsKept): reading *)
(* turns a weight of 0 into the cost only below the limit, recording turns *)
(* the weight into a row, an approval is paid for by what was approved,    *)
(* and at midnight an empty period starts with the weights left over.      *)
(*                                                                         *)
(* First what a sum over a finite set is, by induction on its subsets: the *)
(* induction rule is stated for a set of subsets, not for a predicate.     *)
(***************************************************************************)
EXTENDS Budget, FiniteSetTheorems, TLAPS

(* Strong induction on the subsets of a finite set. *)
LEMMA SubsetInduction ==
  ASSUME NEW S, IsFiniteSet(S), NEW F,
         \A T \in SUBSET S : (\A U \in SUBSET T : U # T => U \in F) => T \in F
  PROVE  \A T \in SUBSET S : T \in F
<1>. DEFINE Missed == (SUBSET S) \ F
<1>. SUFFICES ASSUME Missed # {}  PROVE FALSE
  OBVIOUS
<1>1. IsWellFoundedOn(StrictSubsetOrdering(S), SUBSET S)
  <2>1. IsWellFoundedOn(StrictSubsetOrdering(S), FiniteSubsetsOf(S))
    BY FS_StrictSubsetOrderingWellFounded
  <2>. QED  BY <2>1, FS_FiniteSubsetsOfFinite
<1>2. Missed \subseteq SUBSET S
  OBVIOUS
<1>3. PICK T \in Missed :
        \A U \in Missed : <<U, T>> \notin StrictSubsetOrdering(S)
  <2>. HIDE DEF Missed
  <2>. QED  BY <1>1, <1>2, WFMin
<1>. QED  BY <1>3 DEF StrictSubsetOrdering

-----------------------------------------------------------------------------
Pick(S) == CHOOSE x \in S : TRUE

(* The function that SumFunctionOnSet iterates for S. *)
Partial(f, S) ==
  CHOOSE g : g = [s \in SUBSET S |->
                    IF s = {} THEN 0 ELSE f[Pick(s)] + g[s \ {Pick(s)}]]

IsPartial(g, f, S) ==
  g = [s \in SUBSET S |-> IF s = {} THEN 0 ELSE f[Pick(s)] + g[s \ {Pick(s)}]]

LEMMA SumIsPartial ==
  ASSUME NEW f, NEW S
  PROVE  SumFunctionOnSet(f, S) = Partial(f, S)[S]
BY DEF SumFunctionOnSet, FoldFunctionOnSet, MapThenFoldSet, Partial, Pick

LEMMA PartialsAgree ==
  ASSUME NEW f, NEW S, IsFiniteSet(S), NEW A, NEW B, S \subseteq A, S \subseteq B,
         NEW g, IsPartial(g, f, A), NEW h, IsPartial(h, f, B)
  PROVE  g[S] = h[S]
<1>. DEFINE F == {T \in SUBSET S : g[T] = h[T]}
<1>1. ASSUME NEW T \in SUBSET S, \A U \in SUBSET T : U # T => U \in F
      PROVE  T \in F
  <2>1. T \in SUBSET A /\ T \in SUBSET B
    OBVIOUS
  <2>2. /\ g[T] = IF T = {} THEN 0 ELSE f[Pick(T)] + g[T \ {Pick(T)}]
        /\ h[T] = IF T = {} THEN 0 ELSE f[Pick(T)] + h[T \ {Pick(T)}]
    BY <2>1 DEF IsPartial
  <2>3. T # {} => Pick(T) \in T
    BY DEF Pick
  <2>. QED  BY <1>1, <2>2, <2>3
<1>. HIDE DEF F
<1>2. S \in F
  BY <1>1, SubsetInduction
<1>. QED  BY <1>2 DEF F

LEMMA PartialExists ==
  ASSUME NEW f, NEW S, IsFiniteSet(S)
  PROVE  IsPartial(Partial(f, S), f, S)
<1>. DEFINE F == {T \in SUBSET S : IsPartial(Partial(f, T), f, T)}
<1>1. ASSUME NEW T \in SUBSET S, \A U \in SUBSET T : U # T => U \in F
      PROVE  T \in F
  <2>. DEFINE Rest(s) == s \ {Pick(s)}
              G == [s \in SUBSET T |->
                     IF s = {} THEN 0
                     ELSE f[Pick(s)] + Partial(f, Rest(s))[Rest(s)]]
  <2>1. ASSUME NEW s \in SUBSET T, s # {}
        PROVE  G[Rest(s)] = Partial(f, Rest(s))[Rest(s)]
    <3>. DEFINE u == Rest(s)
    <3>1. u \in SUBSET T /\ u # T
      BY <2>1 DEF Pick
    <3>2. IsPartial(Partial(f, u), f, u)
      BY <1>1, <3>1
    <3>3. Partial(f, u)[u] =
            IF u = {} THEN 0 ELSE f[Pick(u)] + Partial(f, u)[Rest(u)]
      <4>. HIDE DEF u
      <4>. QED  BY <3>2 DEF IsPartial
    <3>4. ASSUME u # {}
          PROVE  Partial(f, u)[Rest(u)] = Partial(f, Rest(u))[Rest(u)]
      <4>1. Rest(u) \in SUBSET T /\ Rest(u) # T /\ Rest(u) \subseteq u
        BY <3>1, <3>4 DEF Pick
      <4>2. IsPartial(Partial(f, Rest(u)), f, Rest(u))
        BY <1>1, <4>1
      <4>3. IsFiniteSet(Rest(u))
        BY <4>1, FS_Subset
      <4>. HIDE DEF u, Rest
      <4>. QED  BY <3>2, <4>1, <4>2, <4>3, PartialsAgree
    <3>5. G[u] = IF u = {} THEN 0 ELSE f[Pick(u)] + Partial(f, Rest(u))[Rest(u)]
      <4>. HIDE DEF u
      <4>. QED  BY <3>1
    <3>. QED  BY <3>3, <3>4, <3>5
  <2>2. IsPartial(G, f, T)
    <3>. HIDE DEF G
    <3>1. G = [s \in SUBSET T |-> IF s = {} THEN 0 ELSE f[Pick(s)] + G[Rest(s)]]
      BY <2>1 DEF G
    <3>. QED  BY <3>1 DEF IsPartial
  <2>3. IsPartial(Partial(f, T), f, T)
    <3>. HIDE DEF G
    <3>. QED  BY <2>2 DEF IsPartial, Partial
  <2>. QED  BY <2>3
<1>. HIDE DEF F
<1>2. S \in F
  BY <1>1, SubsetInduction
<1>. QED  BY <1>2 DEF F

LEMMA SumOfNone ==
  ASSUME NEW f  PROVE SumFunctionOnSet(f, {}) = 0
<1>1. IsPartial(Partial(f, {}), f, {})
  BY FS_EmptySet, PartialExists
<1>2. Partial(f, {})[{}] = 0
  BY <1>1 DEF IsPartial
<1>. QED  BY <1>2, SumIsPartial

LEMMA SumPicks ==
  ASSUME NEW f, NEW S, IsFiniteSet(S), S # {}
  PROVE  /\ Pick(S) \in S
         /\ SumFunctionOnSet(f, S) =
              f[Pick(S)] + SumFunctionOnSet(f, S \ {Pick(S)})
<1>1. Pick(S) \in S
  BY DEF Pick
<1>. DEFINE R == S \ {Pick(S)}
<1>2. IsPartial(Partial(f, S), f, S) /\ IsPartial(Partial(f, R), f, R)
  BY FS_Subset, PartialExists
<1>3. Partial(f, S)[S] = f[Pick(S)] + Partial(f, S)[R]
  BY <1>2 DEF IsPartial
<1>4. Partial(f, S)[R] = Partial(f, R)[R]
  BY <1>2, FS_Subset, PartialsAgree
<1>. QED  BY <1>1, <1>3, <1>4, SumIsPartial

(* Every element can be taken out first. *)
LEMMA SumSplits ==
  ASSUME NEW f, NEW S, IsFiniteSet(S), \A x \in S : f[x] \in Nat
  PROVE  /\ SumFunctionOnSet(f, S) \in Nat
         /\ \A x \in S :
              SumFunctionOnSet(f, S) = f[x] + SumFunctionOnSet(f, S \ {x})
<1>. DEFINE F == {T \in SUBSET S :
                   /\ SumFunctionOnSet(f, T) \in Nat
                   /\ \A x \in T :
                        SumFunctionOnSet(f, T) = f[x] + SumFunctionOnSet(f, T \ {x})}
<1>1. ASSUME NEW T \in SUBSET S, \A U \in SUBSET T : U # T => U \in F
      PROVE  T \in F
  <2>1. CASE T = {}
    BY <2>1, SumOfNone
  <2>2. CASE T # {}
    <3>. DEFINE p == Pick(T)
    <3>1. IsFiniteSet(T)
      BY FS_Subset
    <3>2. p \in T /\ SumFunctionOnSet(f, T) = f[p] + SumFunctionOnSet(f, T \ {p})
      BY <2>2, <3>1, SumPicks
    <3>. HIDE DEF p
    <3>3. T \ {p} \in F
      BY <1>1, <3>2
    <3>4. ASSUME NEW x \in T, x # p
          PROVE  SumFunctionOnSet(f, T) = f[x] + SumFunctionOnSet(f, T \ {x})
      <4>1. T \ {x} \in F /\ (T \ {p}) \ {x} \in F /\ (T \ {x}) \ {p} = (T \ {p}) \ {x}
        BY <1>1, <3>2, <3>4
      <4>2. /\ SumFunctionOnSet(f, T \ {p}) =
                 f[x] + SumFunctionOnSet(f, (T \ {p}) \ {x})
            /\ SumFunctionOnSet(f, T \ {x}) =
                 f[p] + SumFunctionOnSet(f, (T \ {p}) \ {x})
        BY <3>2, <3>3, <3>4, <4>1
      <4>3. /\ f[p] \in Nat /\ f[x] \in Nat
            /\ SumFunctionOnSet(f, (T \ {p}) \ {x}) \in Nat
        BY <3>2, <4>1
      <4>. QED  BY <3>2, <4>2, <4>3
    <3>5. SumFunctionOnSet(f, T) \in Nat
      BY <3>2, <3>3
    <3>. QED  BY <3>2, <3>4, <3>5
  <2>. QED  BY <2>1, <2>2
<1>. HIDE DEF F
<1>2. S \in F
  BY <1>1, SubsetInduction
<1>. QED  BY <1>2 DEF F

(* A sum is monotone in the function, and bounded by a bound of its values. *)
LEMMA SumsCompare ==
  ASSUME NEW S, IsFiniteSet(S), NEW f, NEW g,
         \A x \in S : f[x] \in Nat /\ g[x] \in Nat /\ f[x] <= g[x]
  PROVE  SumFunctionOnSet(f, S) <= SumFunctionOnSet(g, S)
<1>. DEFINE F == {T \in SUBSET S :
                   SumFunctionOnSet(f, T) <= SumFunctionOnSet(g, T)}
<1>1. ASSUME NEW T \in SUBSET S, \A U \in SUBSET T : U # T => U \in F
      PROVE  T \in F
  <2>1. CASE T = {}
    BY <2>1, SumOfNone
  <2>2. CASE T # {}
    <3>1. PICK x \in T : TRUE
      BY <2>2
    <3>2. T \ {x} \in F /\ IsFiniteSet(T) /\ IsFiniteSet(T \ {x})
      BY <1>1, <3>1, FS_Subset
    <3>3. /\ SumFunctionOnSet(f, T) = f[x] + SumFunctionOnSet(f, T \ {x})
          /\ SumFunctionOnSet(g, T) = g[x] + SumFunctionOnSet(g, T \ {x})
      <4>1. \A y \in T : f[y] \in Nat /\ g[y] \in Nat
        OBVIOUS
      <4>. HIDE DEF F
      <4>2. SumFunctionOnSet(f, T) = f[x] + SumFunctionOnSet(f, T \ {x})
        BY <3>1, <3>2, <4>1, SumSplits
      <4>3. SumFunctionOnSet(g, T) = g[x] + SumFunctionOnSet(g, T \ {x})
        BY <3>1, <3>2, <4>1, SumSplits
      <4>. QED  BY <4>2, <4>3
    <3>4. /\ SumFunctionOnSet(f, T \ {x}) \in Nat
          /\ SumFunctionOnSet(g, T \ {x}) \in Nat
      BY <3>2, SumSplits
    <3>. QED  BY <3>1, <3>2, <3>3, <3>4
  <2>. QED  BY <2>1, <2>2
<1>. HIDE DEF F
<1>2. S \in F
  BY <1>1, SubsetInduction
<1>. QED  BY <1>2 DEF F

LEMMA SumsAgree ==
  ASSUME NEW S, IsFiniteSet(S), NEW f, NEW g,
         \A x \in S : f[x] \in Nat /\ g[x] = f[x]
  PROVE  SumFunctionOnSet(f, S) = SumFunctionOnSet(g, S)
<1>1. /\ SumFunctionOnSet(f, S) <= SumFunctionOnSet(g, S)
      /\ SumFunctionOnSet(g, S) <= SumFunctionOnSet(f, S)
  BY SumsCompare
<1>2. SumFunctionOnSet(f, S) \in Nat /\ SumFunctionOnSet(g, S) \in Nat
  BY SumSplits
<1>. QED  BY <1>1, <1>2

LEMMA SumIsBounded ==
  ASSUME NEW S, IsFiniteSet(S), NEW f, NEW m \in Nat,
         \A x \in S : f[x] \in Nat /\ f[x] <= m
  PROVE  SumFunctionOnSet(f, S) <= Cardinality(S) * m
<1>. DEFINE F == {T \in SUBSET S : SumFunctionOnSet(f, T) <= Cardinality(T) * m}
<1>1. ASSUME NEW T \in SUBSET S, \A U \in SUBSET T : U # T => U \in F
      PROVE  T \in F
  <2>1. CASE T = {}
    BY <2>1, SumOfNone, FS_EmptySet
  <2>2. CASE T # {}
    <3>1. PICK x \in T : TRUE
      BY <2>2
    <3>2. T \ {x} \in F /\ IsFiniteSet(T) /\ IsFiniteSet(T \ {x})
      BY <1>1, <3>1, FS_Subset
    <3>3. /\ SumFunctionOnSet(f, T) = f[x] + SumFunctionOnSet(f, T \ {x})
          /\ SumFunctionOnSet(f, T \ {x}) \in Nat
      BY <3>1, <3>2, SumSplits
    <3>4. /\ Cardinality(T \ {x}) \in Nat
          /\ Cardinality(T) = Cardinality(T \ {x}) + 1
      BY <3>1, <3>2, FS_CardinalityType, FS_RemoveElement
    <3>5. Cardinality(T) * m = Cardinality(T \ {x}) * m + m
      BY <3>4
    <3>6. Cardinality(T \ {x}) * m \in Nat
      BY <3>4
    <3>. HIDE DEF F
    <3>7. SumFunctionOnSet(f, T \ {x}) <= Cardinality(T \ {x}) * m
      BY <3>2 DEF F
    <3>8. f[x] \in Nat /\ f[x] <= m
      BY <3>1
    <3>9. SumFunctionOnSet(f, T) <= Cardinality(T) * m
      BY <3>3, <3>5, <3>6, <3>7, <3>8
    <3>. QED  BY <3>9 DEF F
  <2>. QED  BY <2>1, <2>2
<1>. HIDE DEF F
<1>2. S \in F
  BY <1>1, SubsetInduction
<1>. QED  BY <1>2 DEF F

(* A sum changes by what changes at its one element. *)
LEMMA SumChanges ==
  ASSUME NEW S, IsFiniteSet(S), NEW x \in S, NEW f, NEW g,
         \A y \in S : f[y] \in Nat /\ g[y] \in Nat,
         \A y \in S \ {x} : g[y] = f[y]
  PROVE  SumFunctionOnSet(g, S) = SumFunctionOnSet(f, S) - f[x] + g[x]
<1>. DEFINE R == S \ {x}
<1>1. IsFiniteSet(R)
  BY FS_Subset
<1>2. SumFunctionOnSet(f, R) = SumFunctionOnSet(g, R) /\ SumFunctionOnSet(f, R) \in Nat
  BY <1>1, SumsAgree, SumSplits
<1>3. /\ SumFunctionOnSet(f, S) = f[x] + SumFunctionOnSet(f, R)
      /\ SumFunctionOnSet(g, S) = g[x] + SumFunctionOnSet(g, R)
  BY SumSplits
<1>4. f[x] \in Nat /\ g[x] \in Nat
  OBVIOUS
<1>. QED  BY <1>2, <1>3, <1>4

-----------------------------------------------------------------------------
(* The four limits, as scopes.  A scope has its tasks, its limit, and the  *)
(* period a day belongs to; the soft limit of a task is its last one.      *)
Hard(t) == [kind |-> "task", task |-> t]
Soft(t) == [kind |-> "soft", task |-> t]
Daily == [kind |-> "daily", task |-> None]
Monthly == [kind |-> "monthly", task |-> None]

Scopes == {Hard(t) : t \in Tasks} \cup {Soft(t) : t \in Tasks} \cup {Daily, Monthly}

OfOneTask(k) == k.kind \in {"task", "soft"}

TasksOf(k) == IF OfOneTask(k) THEN {k.task} ELSE Tasks

Limit(k) == CASE k.kind = "task" -> TaskHard
              [] k.kind = "soft" -> TaskSoft
              [] k.kind = "daily" -> DailyHard
              [] k.kind = "monthly" -> MonthlyHard

Period(k, d) == CASE OfOneTask(k) -> 0
                  [] k.kind = "daily" -> d
                  [] k.kind = "monthly" -> Month(d)

Cells(k, d) == TasksOf(k) \X {e \in Days : Period(k, e) = Period(k, d)}

Recorded(k, d) == SumFunctionOnSet(spent, Cells(k, d))

(* Where a call has not read what was spent in the scope, or has. *)
Unread(k) == CASE OfOneTask(k) -> {"task"}
               [] k.kind = "daily" -> {"task", "daily"}
               [] k.kind = "monthly" -> {"task", "daily", "monthly"}

Undecided == {"task", "daily", "monthly", "decide"}

SpendRead(k, r) == CASE OfOneTask(k) -> r.taskSpend
                     [] k.kind = "daily" -> r.dailySpend
                     [] k.kind = "monthly" -> r.monthlySpend

(* A call that nothing keeps from paying any more. *)
MayPay(r) ==
  \/ r.pc = "paying"
  \/ r.pc = "blocked" /\ approvals[r.approval].status = "APPROVED"

(* A call that the limit of the scope will not stop: it has read a sum     *)
(* that leaves room, or it will read that of a period that is over.        *)
WillPass(k, r) ==
  \/ /\ r.pc \in Undecided \ Unread(k)
     /\ SpendRead(k, r) + r.cost <= Limit(k)
  \/ /\ r.pc \in Unread(k)
     /\ Period(k, r.day) # Period(k, today)
     /\ r.cost <= Limit(k)

(* What such a call may still record. *)
Weight(k, r) ==
  IF r.task \in TasksOf(k) /\ (MayPay(r) \/ WillPass(k, r)) THEN r.cost ELSE 0

(* The same for a call above the limit, which only an approval lets pass. *)
Excess(k, r) ==
  IF r.task \in TasksOf(k) /\ MayPay(r) /\ r.cost > Limit(k) THEN r.cost ELSE 0

Due(k) == [c \in Callers |-> Weight(k, call[c])]
Exempt(k) == [c \in Callers |-> Excess(k, call[c])]

DueIn(k) == SumFunctionOnSet(Due(k), Callers)
ExemptIn(k) == SumFunctionOnSet(Exempt(k), Callers)

(* The soft limit of a task binds as long as nobody was warned. *)
Binds(k) == k.kind = "soft" => k.task \notin warned

Allowance(k) == Limit(k) + Approved(TasksOf(k)) + Slack

-----------------------------------------------------------------------------
(* The inductive invariant. *)

(* Whoever waits for an approval asked for it, and nobody else. *)
ApprovalsAreAsked ==
  /\ \A c \in Callers : call[c].pc = "blocked" =>
       /\ call[c].approval \in Approvals
       /\ approvals[call[c].approval].task = call[c].task
       /\ approvals[call[c].approval].cost = call[c].cost
  /\ \A c, d \in Callers :
       call[c].pc = "blocked" /\ call[d].pc = "blocked" /\ c # d =>
         call[c].approval # call[d].approval
  /\ \A p \in Approvals : approvals[p].task = None => approvals[p].status = "PENDING"

CallsHaveTasks ==
  \A c \in Callers :
    /\ call[c].pc # "idle" => call[c].task \in Tasks
    /\ call[c].pc \in Undecided => call[c].day <= today

NothingIsAhead == \A t \in Tasks, d \in Days : d > today => spent[<<t, d>>] = 0

ScopeIsKept(k) ==
  /\ \A d \in Days : Recorded(k, d) <= Allowance(k)
  /\ Recorded(k, today) + DueIn(k) <= Allowance(k)
  /\ ExemptIn(k) <= Approved(TasksOf(k))

RowsAreSound ==
  TypeOK /\ CallsHaveTasks /\ NothingIsAhead /\ ApprovalsAreAsked

Inv ==
  /\ RowsAreSound
  /\ \A k \in Scopes : Binds(k) => ScopeIsKept(k)
-----------------------------------------------------------------------------
(* Types. *)

LEMMA AmountsHaveMax ==
  /\ MaxCost \in Nat
  /\ \A n \in Costs : n <= MaxCost
<1>. DEFINE F == {T \in SUBSET Costs :
                    T # {} => \E m \in T : \A n \in T : n <= m}
<1>1. ASSUME NEW T \in SUBSET Costs, \A U \in SUBSET T : U # T => U \in F
      PROVE  T \in F
  <2>. SUFFICES ASSUME T # {}  PROVE \E m \in T : \A n \in T : n <= m
    OBVIOUS
  <2>1. PICK x \in T : TRUE
    OBVIOUS
  <2>2. CASE T = {x}
    <3>1. x \in Nat
      BY <2>1, AmountsAreNaturals
    <3>. QED  BY <2>2, <3>1
  <2>3. CASE T # {x}
    <3>1. T \ {x} \in F /\ T \ {x} # {}
      BY <1>1, <2>1, <2>3
    <3>2. PICK m \in T \ {x} : \A n \in T \ {x} : n <= m
      BY <3>1
    <3>3. m \in Nat /\ x \in Nat /\ T \subseteq Nat
      BY <2>1, AmountsAreNaturals
    <3>. QED  BY <3>2, <3>3
  <2>. QED  BY <2>2, <2>3
<1>. HIDE DEF F
<1>2. Costs \in F
  BY <1>1, SubsetInduction, AmountsAreNaturals
<1>3. \E m \in Costs : \A n \in Costs : n <= m
  BY <1>2, AmountsAreNaturals DEF F
<1>. QED  BY <1>3, AmountsAreNaturals DEF MaxCost

LEMMA CallersAreCounted ==
  /\ Cardinality(Callers) \in Nat \ {0}
  /\ Slack \in Nat
  /\ Slack = Cardinality(Callers) * MaxCost - MaxCost
<1>1. Cardinality(Callers) \in Nat \ {0}
  BY TablesAreFinite, FS_CardinalityType, FS_EmptySet
<1>2. MaxCost \in Nat
  BY AmountsHaveMax
<1>3. Slack = (Cardinality(Callers) - 1) * MaxCost
  BY DEF Slack, MaxCost
<1>4. (Cardinality(Callers) - 1) * MaxCost = Cardinality(Callers) * MaxCost - MaxCost
  BY <1>1, <1>2
<1>5. (Cardinality(Callers) - 1) * MaxCost \in Nat
  BY <1>1, <1>2
<1>. QED  BY <1>1, <1>3, <1>4, <1>5

LEMMA CellsAreFinite ==
  ASSUME NEW ts \in SUBSET Tasks, NEW days \in SUBSET Days
  PROVE  IsFiniteSet(ts \X days)
<1>1. IsFiniteSet(Days)
  BY CalendarIsNatural, FS_Interval DEF Days
<1>. QED  BY <1>1, TablesAreFinite, FS_Subset, FS_Product

LEMMA SpendIsNatural ==
  ASSUME spent \in [Tasks \X Days -> Nat],
         NEW ts \in SUBSET Tasks, NEW days \in SUBSET Days
  PROVE  SumFunctionOnSet(spent, ts \X days) \in Nat
<1>1. IsFiniteSet(ts \X days)
  BY CellsAreFinite
<1>2. \A x \in ts \X days : spent[x] \in Nat
  OBVIOUS
<1>. QED  BY <1>1, <1>2, SumSplits

LEMMA IdleIsCall == Idle \in Call
BY CalendarIsNatural DEF Idle, Call, Days, StatusOrAbsent, Absent

LEMMA GoingIsCall ==
  ASSUME NEW r \in Call, NEW pc \in {"blocked", "paying"},
         NEW p \in Approvals \cup {None}
  PROVE  /\ Going(pc, r, p) \in Call
         /\ Going(pc, r, p).pc = pc /\ Going(pc, r, p).task = r.task
         /\ Going(pc, r, p).cost = r.cost /\ Going(pc, r, p).approval = p
BY IdleIsCall DEF Going, Call, Idle

LEMMA TypesHold ==
  ASSUME TypeOK, CallsHaveTasks, [Next]_vars
  PROVE  TypeOK'
<1>1. ASSUME NEW c \in Callers, CallerStep(c)
      PROVE  TypeOK'
  <2>. call[c] \in Call /\ call \in [Callers -> Call]
    BY DEF TypeOK
  <2>0. ASSUME NEW r \in Call, Become(c, r)
        PROVE  call' \in [Callers -> Call]
    BY <2>0 DEF Become
  <2>1. ASSUME NEW t \in Tasks, NEW cost \in Costs, Authorize(c, t, cost)
        PROVE  TypeOK'
    <3>1. [Idle EXCEPT !.pc = "task", !.task = t, !.cost = cost,
                       !.day = today, !.status = status[t]] \in Call
      BY IdleIsCall DEF Call, Idle, StatusOrAbsent, TypeOK
    <3>. QED  BY <2>0, <2>1, <3>1 DEF Authorize, TypeOK
  <2>2. CASE ReadTaskSpend(c)
    <3>1. SumOfTask(call[c].task) \in Nat
      BY <2>2, SpendIsNatural DEF SumOfTask, ReadTaskSpend, TypeOK, CallsHaveTasks
    <3>2. [call[c] EXCEPT !.pc = "daily", !.taskSpend = SumOfTask(call[c].task)] \in Call
      BY <3>1 DEF Call
    <3>. QED  BY <2>0, <2>2, <3>2 DEF ReadTaskSpend, TypeOK
  <2>3. CASE ReadDailySpend(c)
    <3>1. SumOfDays(DayWindow(call[c].day)) \in Nat
      BY SpendIsNatural DEF SumOfDays, DayWindow, TypeOK, Call
    <3>2. [call[c] EXCEPT !.pc = "monthly",
             !.dailySpend = SumOfDays(DayWindow(call[c].day))] \in Call
      BY <3>1 DEF Call
    <3>. QED  BY <2>0, <2>3, <3>2 DEF ReadDailySpend, TypeOK
  <2>4. CASE ReadMonthlySpend(c)
    <3>1. SumOfDays(MonthWindow(call[c].day)) \in Nat
      BY SpendIsNatural DEF SumOfDays, MonthWindow, TypeOK
    <3>2. [call[c] EXCEPT !.pc = "decide",
             !.monthlySpend = SumOfDays(MonthWindow(call[c].day))] \in Call
      BY <3>1 DEF Call
    <3>. QED  BY <2>0, <2>4, <3>2 DEF ReadMonthlySpend, TypeOK
  <2>5. CASE Allow(c)
    <3>1. call[c].task \in Tasks
      BY <2>5 DEF Allow, CallsHaveTasks
    <3>2. Going("paying", call[c], None) \in Call
      BY GoingIsCall
    <3>. QED  BY <2>0, <2>5, <3>1, <3>2 DEF Allow, TypeOK
  <2>6. CASE Refuse(c)
    BY <2>0, <2>6, IdleIsCall DEF Refuse, TypeOK
  <2>7. ASSUME NEW p \in Approvals, Block(c, p)
        PROVE  TypeOK'
    <3>1. call[c].task \in Tasks
      BY <2>7 DEF Block, CallsHaveTasks
    <3>2. Going("blocked", call[c], p) \in Call
      BY GoingIsCall
    <3>3. [task |-> call[c].task, cost |-> call[c].cost, status |-> "PENDING"]
            \in [task : Tasks \cup {None}, cost : Costs \cup {0}, status : ApprovalStatus]
      BY DEF Call, ApprovalStatus
    <3>. QED  BY <2>0, <2>7, <3>1, <3>2, <3>3 DEF Block, TypeOK, Status
  <2>8. ASSUME NEW cost \in Costs, RecordCost(c, cost)
        PROVE  TypeOK'
    <3>1. cost \in Nat
      BY AmountsAreNaturals
    <3>2. spent' \in [Tasks \X Days -> Nat]
      <4>. DEFINE x == <<call[c].task, today>>
      <4>1. x \in Tasks \X Days
        BY <2>8 DEF RecordCost, CallsHaveTasks, TypeOK
      <4>2. spent' = [spent EXCEPT ![x] = @ + cost]
        BY <2>8 DEF RecordCost
      <4>. HIDE DEF x
      <4>. QED  BY <3>1, <4>1, <4>2 DEF TypeOK
    <3>. QED  BY <2>0, <2>8, <3>2, IdleIsCall DEF RecordCost, TypeOK
  <2>9. CASE GoAhead(c)
    <3>1. Going("paying", call[c], None) \in Call
      BY GoingIsCall
    <3>. QED  BY <2>0, <2>9, <3>1 DEF GoAhead, TypeOK
  <2>10. CASE GiveUp(c)
    BY <2>0, <2>10, IdleIsCall DEF GiveUp, TypeOK
  <2>. QED  BY <1>1, <2>1, <2>2, <2>3, <2>4, <2>5, <2>6, <2>7, <2>8, <2>9, <2>10
            DEF CallerStep
<1>2. ASSUME NEW p \in Approvals, NEW verdict \in {"APPROVED", "DENIED"},
             Decide(p, verdict)
      PROVE  TypeOK'
  <2>1. approvals[p].task \in Tasks
    BY <1>2 DEF Decide, TypeOK
  <2>2. approvals' \in [Approvals -> [task : Tasks \cup {None}, cost : Costs \cup {0},
                                      status : ApprovalStatus]]
    BY <1>2 DEF Decide, TypeOK, ApprovalStatus
  <2>3. status' \in [Tasks -> Status]
    BY <1>2, <2>1 DEF Decide, TypeOK, Status
  <2>. QED  BY <1>2, <2>2, <2>3 DEF Decide, TypeOK
<1>3. ASSUME NEW t \in Tasks, EndTask(t)
      PROVE  TypeOK'
  BY <1>3 DEF EndTask, TypeOK, Status
<1>4. CASE Midnight
  BY <1>4, CalendarIsNatural DEF Midnight, TypeOK, Days
<1>5. CASE UNCHANGED vars
  BY <1>5 DEF vars, TypeOK
<1>. QED  BY <1>1, <1>2, <1>3, <1>4, <1>5 DEF Next

LEMMA CallsKeepTasks ==
  ASSUME TypeOK, CallsHaveTasks, [Next]_vars
  PROVE  CallsHaveTasks'
<1>1. ASSUME NEW c \in Callers, CallerStep(c)
      PROVE  CallsHaveTasks'
  <2>. SUFFICES ASSUME NEW d \in Callers
                PROVE  /\ call'[d].pc # "idle" => call'[d].task \in Tasks
                       /\ call'[d].pc \in Undecided => call'[d].day <= today'
    BY DEF CallsHaveTasks
  <2>. call[c] \in Call /\ call \in [Callers -> Call] /\ today \in Days
    BY DEF TypeOK
  <2>. USE DEF Become, Undecided
  <2>1. today' = today /\ \A e \in Callers \ {c} : call'[e] = call[e]
    BY <1>1 DEF CallerStep, Authorize, ReadTaskSpend, ReadDailySpend,
       ReadMonthlySpend, Allow, Refuse, Block, RecordCost, GoAhead, GiveUp
  <2>2. CASE d # c
    BY <2>1, <2>2 DEF CallsHaveTasks
  <2>3. CASE d = c
    <3>1. ASSUME NEW t \in Tasks, NEW cost \in Costs, Authorize(c, t, cost)
          PROVE  call'[c].task \in Tasks /\ call'[c].day <= today'
      BY <3>1 DEF Authorize, Idle, Days
    <3>2. CASE ReadTaskSpend(c) \/ ReadDailySpend(c) \/ ReadMonthlySpend(c)
      <4>1. call'[c].task = call[c].task /\ call'[c].day = call[c].day
        BY <3>2 DEF ReadTaskSpend, ReadDailySpend, ReadMonthlySpend, Call
      <4>. QED  BY <2>1, <2>3, <3>2, <4>1
                DEF CallsHaveTasks, ReadTaskSpend, ReadDailySpend, ReadMonthlySpend
    <3>3. CASE Allow(c) \/ GoAhead(c) \/ \E p \in Approvals : Block(c, p)
      <4>1. call'[c].pc \notin Undecided /\ call'[c].task = call[c].task
        BY <3>3, GoingIsCall DEF Allow, GoAhead, Block
      <4>. QED  BY <2>3, <3>3, <4>1 DEF CallsHaveTasks, Allow, GoAhead, Block
    <3>4. CASE Refuse(c) \/ GiveUp(c) \/ \E cost \in Costs : RecordCost(c, cost)
      BY <2>3, <3>4 DEF Refuse, GiveUp, RecordCost, Idle
    <3>. QED  BY <1>1, <2>3, <3>1, <3>2, <3>3, <3>4 DEF CallerStep
  <2>. QED  BY <2>2, <2>3
<1>2. CASE Midnight
  <2>1. \A d \in Callers : call[d].day \in Nat /\ today \in Nat
    BY DEF TypeOK, Call, Days
  <2>. QED  BY <1>2, <2>1 DEF Midnight, CallsHaveTasks
<1>3. ASSUME call' = call, today' = today
      PROVE  CallsHaveTasks'
  BY <1>3 DEF CallsHaveTasks
<1>. QED  BY <1>1, <1>2, <1>3 DEF Next, vars, Decide, EndTask

LEMMA NothingComesAhead ==
  ASSUME TypeOK, CallsHaveTasks, NothingIsAhead, [Next]_vars
  PROVE  NothingIsAhead'
<1>1. ASSUME NEW c \in Callers, NEW cost \in Costs, RecordCost(c, cost)
      PROVE  NothingIsAhead'
  <2>1. /\ today' = today /\ today \in Int
        /\ \A t \in Tasks, d \in Days : d # today => spent'[<<t, d>>] = spent[<<t, d>>]
    BY <1>1 DEF RecordCost, TypeOK, Days
  <2>. QED  BY <2>1 DEF NothingIsAhead
<1>2. CASE Midnight
  <2>1. today \in Nat /\ Days \subseteq Nat
    BY DEF TypeOK, Days
  <2>. QED  BY <1>2, <2>1 DEF Midnight, NothingIsAhead
<1>3. ASSUME spent' = spent, today' = today
      PROVE  NothingIsAhead'
  BY <1>3 DEF NothingIsAhead
<1>. QED  BY <1>1, <1>2, <1>3 DEF Next, CallerStep, vars, Decide, EndTask, Authorize,
          ReadTaskSpend, ReadDailySpend, ReadMonthlySpend, Allow, Refuse, Block,
          GoAhead, GiveUp

LEMMA ApprovalsStayAsked ==
  ASSUME TypeOK, CallsHaveTasks, ApprovalsAreAsked, [Next]_vars
  PROVE  ApprovalsAreAsked'
<1>1. ASSUME NEW c \in Callers, CallerStep(c)
      PROVE  ApprovalsAreAsked'
  <2>. call[c] \in Call /\ call \in [Callers -> Call]
    BY DEF TypeOK
  <2>. USE DEF Become
  <2>1. ASSUME NEW p \in Approvals, Block(c, p)
        PROVE  ApprovalsAreAsked'
    <3>1. /\ call'[c].pc = "blocked" /\ call'[c].approval = p
          /\ call'[c].task = call[c].task /\ call'[c].cost = call[c].cost
          /\ \A d \in Callers \ {c} : call'[d] = call[d]
      BY <2>1, GoingIsCall DEF Block
    <3>2. /\ approvals'[p] = [task |-> call[c].task, cost |-> call[c].cost,
                              status |-> "PENDING"]
          /\ \A q \in Approvals \ {p} : approvals'[q] = approvals[q]
      BY <2>1 DEF Block, TypeOK
    <3>3. \A d \in Callers : call[d].pc = "blocked" => call[d].approval # p
      BY <2>1, NoneIsNoId DEF Block, ApprovalsAreAsked, CallsHaveTasks
    <3>. QED  BY <3>1, <3>2, <3>3 DEF ApprovalsAreAsked
  <2>2. ASSUME approvals' = approvals, call'[c].pc # "blocked",
               \A d \in Callers \ {c} : call'[d] = call[d]
        PROVE  ApprovalsAreAsked'
    BY <2>2 DEF ApprovalsAreAsked
  <2>3. CASE Allow(c) \/ GoAhead(c)
    <3>1. call'[c].pc # "blocked"
      BY <2>3, GoingIsCall DEF Allow, GoAhead
    <3>. QED  BY <2>2, <2>3, <3>1 DEF Allow, GoAhead
  <2>4. ASSUME NEW t \in Tasks, NEW cost \in Costs, Authorize(c, t, cost)
        PROVE  ApprovalsAreAsked'
    BY <2>2, <2>4 DEF Authorize, Idle
  <2>5. CASE ReadTaskSpend(c) \/ ReadDailySpend(c) \/ ReadMonthlySpend(c)
    BY <2>2, <2>5 DEF ReadTaskSpend, ReadDailySpend, ReadMonthlySpend, Call
  <2>6. CASE Refuse(c) \/ GiveUp(c)
    BY <2>2, <2>6 DEF Refuse, GiveUp, Idle
  <2>7. ASSUME NEW cost \in Costs, RecordCost(c, cost)
        PROVE  ApprovalsAreAsked'
    BY <2>2, <2>7 DEF RecordCost, Idle
  <2>. QED  BY <1>1, <2>1, <2>3, <2>4, <2>5, <2>6, <2>7 DEF CallerStep
<1>2. ASSUME NEW p \in Approvals, NEW verdict \in {"APPROVED", "DENIED"},
             Decide(p, verdict)
      PROVE  ApprovalsAreAsked'
  <2>1. call' = call /\ \A q \in Approvals :
          /\ approvals'[q].task = approvals[q].task
          /\ approvals'[q].cost = approvals[q].cost
          /\ q # p => approvals'[q] = approvals[q]
    BY <1>2 DEF Decide, TypeOK
  <2>. QED  BY <1>2, <2>1 DEF ApprovalsAreAsked, Decide
<1>3. ASSUME call' = call, approvals' = approvals
      PROVE  ApprovalsAreAsked'
  BY <1>3 DEF ApprovalsAreAsked
<1>. QED  BY <1>1, <1>2, <1>3 DEF Next, vars, EndTask, Midnight

LEMMA RowsStaySound ==
  ASSUME RowsAreSound, [Next]_vars
  PROVE  RowsAreSound'
BY TypesHold, CallsKeepTasks, NothingComesAhead, ApprovalsStayAsked DEF RowsAreSound

-----------------------------------------------------------------------------
(* The parts of a scope. *)

LEMMA ScopesAreSound ==
  ASSUME NEW k \in Scopes
  PROVE  /\ Limit(k) \in Nat
         /\ TasksOf(k) \in SUBSET Tasks
         /\ k.kind \in {"task", "soft", "daily", "monthly"}
         /\ OfOneTask(k) => k.task \in Tasks
BY AmountsAreNaturals DEF Scopes, Hard, Soft, Daily, Monthly, Limit, TasksOf, OfOneTask

LEMMA WeightsAreCosts ==
  ASSUME TypeOK, NEW k \in Scopes
  PROVE  /\ \A c \in Callers : Weight(k, call[c]) \in Nat /\ Weight(k, call[c]) <= MaxCost
         /\ \A c \in Callers : Excess(k, call[c]) \in Nat
         /\ DueIn(k) \in Nat /\ ExemptIn(k) \in Nat
<1>1. \A c \in Callers : call[c].cost \in Nat /\ call[c].cost <= MaxCost
  <2>1. \A c \in Callers : call[c].cost \in Costs \cup {0}
    BY DEF TypeOK, Call
  <2>. QED  BY <2>1, AmountsHaveMax, AmountsAreNaturals
<1>2. \A c \in Callers : Weight(k, call[c]) \in Nat /\ Weight(k, call[c]) <= MaxCost
  BY <1>1, AmountsHaveMax DEF Weight
<1>3. \A c \in Callers : Excess(k, call[c]) \in Nat
  BY <1>1 DEF Excess
<1>4. \A c \in Callers : Due(k)[c] \in Nat /\ Exempt(k)[c] \in Nat
  BY <1>2, <1>3 DEF Due, Exempt
<1>5. DueIn(k) \in Nat /\ ExemptIn(k) \in Nat
  BY <1>4, TablesAreFinite, SumSplits DEF DueIn, ExemptIn
<1>. QED  BY <1>2, <1>3, <1>5

(* What the calls of the others can add is the slack. *)
LEMMA OthersAreSlack ==
  ASSUME TypeOK, NEW k \in Scopes, NEW c \in Callers
  PROVE  DueIn(k) <= Weight(k, call[c]) + Slack
<1>. DEFINE g == [d \in Callers |-> IF d = c THEN MaxCost ELSE Due(k)[d]]
<1>1. \A d \in Callers : Due(k)[d] \in Nat /\ Due(k)[d] <= MaxCost
  BY WeightsAreCosts DEF Due
<1>2. MaxCost \in Nat
  BY AmountsHaveMax
<1>3. /\ \A d \in Callers : g[d] \in Nat /\ g[d] <= MaxCost
      /\ \A d \in Callers \ {c} : g[d] = Due(k)[d]
      /\ g[c] = MaxCost
  BY <1>1, <1>2
<1>. HIDE DEF g
<1>4. SumFunctionOnSet(g, Callers) = DueIn(k) - Due(k)[c] + MaxCost
  <2>1. SumFunctionOnSet(g, Callers) =
          SumFunctionOnSet(Due(k), Callers) - Due(k)[c] + g[c]
    BY <1>1, <1>3, TablesAreFinite, SumChanges
  <2>. QED  BY <2>1, <1>3 DEF DueIn
<1>5. SumFunctionOnSet(g, Callers) <= Cardinality(Callers) * MaxCost
  BY <1>2, <1>3, TablesAreFinite, SumIsBounded
<1>6. Due(k)[c] = Weight(k, call[c])
  BY DEF Due
<1>7. Cardinality(Callers) * MaxCost = Slack + MaxCost /\ Slack \in Nat
  <2>. DEFINE n == Cardinality(Callers) * MaxCost
  <2>1. n \in Nat
    BY <1>2, CallersAreCounted
  <2>2. Slack = n - MaxCost /\ Slack \in Nat
    BY CallersAreCounted
  <2>. HIDE DEF n
  <2>3. n = Slack + MaxCost
    BY <1>2, <2>1, <2>2
  <2>. QED  BY <2>2, <2>3 DEF n
<1>8. DueIn(k) \in Nat
  BY WeightsAreCosts
<1>. QED  BY <1>1, <1>2, <1>4, <1>5, <1>6, <1>7, <1>8

SumsAreSound ==
  \A k \in Scopes :
    /\ DueIn(k) \in Nat /\ ExemptIn(k) \in Nat
    /\ \A c \in Callers : /\ Weight(k, call[c]) \in Nat /\ Excess(k, call[c]) \in Nat
                          /\ DueIn(k) <= Weight(k, call[c]) + Slack

LEMMA SumsFollowTypes == TypeOK => SumsAreSound
BY WeightsAreCosts, OthersAreSlack DEF SumsAreSound

LEMMA RecordedIsNatural ==
  ASSUME TypeOK, NEW k \in Scopes, NEW d \in Days
  PROVE  Recorded(k, d) \in Nat
BY ScopesAreSound, SpendIsNatural DEF Recorded, Cells, TypeOK

GrantedTo(ts) ==
  {p \in Approvals : approvals[p].task \in ts /\ approvals[p].status = "APPROVED"}

CostsOfApprovals == [p \in Approvals |-> approvals[p].cost]

LEMMA ApprovedIsNatural ==
  ASSUME TypeOK, NEW ts
  PROVE  /\ Approved(ts) = SumFunctionOnSet(CostsOfApprovals, GrantedTo(ts))
         /\ IsFiniteSet(GrantedTo(ts))
         /\ \A p \in Approvals : CostsOfApprovals[p] \in Nat
         /\ Approved(ts) \in Nat
<1>1. Approved(ts) = SumFunctionOnSet(CostsOfApprovals, GrantedTo(ts))
  BY DEF Approved, CostsOfApprovals, GrantedTo
<1>2. IsFiniteSet(GrantedTo(ts))
  BY TablesAreFinite, FS_Subset DEF GrantedTo
<1>3. \A p \in Approvals : CostsOfApprovals[p] \in Nat
  <2>1. \A p \in Approvals : approvals[p].cost \in Costs \cup {0}
    BY DEF TypeOK
  <2>2. Costs \cup {0} \subseteq Nat
    BY AmountsAreNaturals
  <2>. QED  BY <2>1, <2>2 DEF CostsOfApprovals
<1>4. SumFunctionOnSet(CostsOfApprovals, GrantedTo(ts)) \in Nat
  <2>1. \A p \in GrantedTo(ts) : CostsOfApprovals[p] \in Nat
    BY <1>3 DEF GrantedTo
  <2>. QED  BY <1>2, <2>1, SumSplits
<1>. QED  BY <1>1, <1>2, <1>3, <1>4

LEMMA AllowanceIsNatural ==
  ASSUME TypeOK, NEW k \in Scopes
  PROVE  Allowance(k) \in Nat /\ Limit(k) + Slack <= Allowance(k)
<1>1. Limit(k) \in Nat /\ Slack \in Nat /\ Approved(TasksOf(k)) \in Nat
  BY ScopesAreSound, CallersAreCounted, ApprovedIsNatural
<1>. QED  BY <1>1 DEF Allowance

-----------------------------------------------------------------------------
(* A scope is kept when one call changes, ... *)
LEMMA OneCallMoves ==
  ASSUME TypeOK, TypeOK', NEW k \in Scopes, ScopeIsKept(k),
         NEW c \in Callers, NEW a \in Nat,
         spent' = spent, today' = today,
         Approved(TasksOf(k))' = Approved(TasksOf(k)) + a,
         \A d \in Callers \ {c} : /\ Weight(k, call[d])' = Weight(k, call[d])
                                  /\ Excess(k, call[d])' = Excess(k, call[d]),
         \/ Weight(k, call[c])' <= Weight(k, call[c]) + a
         \/ Recorded(k, today) + Weight(k, call[c])' <= Limit(k),
         Excess(k, call[c])' <= Excess(k, call[c]) + a
  PROVE  ScopeIsKept(k)'
<1>1. /\ \A d \in Callers : Weight(k, call[d]) \in Nat /\ Weight(k, call[d])' \in Nat
      /\ \A d \in Callers : Excess(k, call[d]) \in Nat /\ Excess(k, call[d])' \in Nat
      /\ DueIn(k) \in Nat /\ DueIn(k)' \in Nat /\ ExemptIn(k) \in Nat
  <2>1. SumsAreSound /\ SumsAreSound'
    BY SumsFollowTypes, PTL
  <2>. QED  BY <2>1 DEF SumsAreSound
<1>2. DueIn(k)' = DueIn(k) - Weight(k, call[c]) + Weight(k, call[c])'
  <2>1. /\ \A d \in Callers : Due(k)[d] = Weight(k, call[d])
        /\ \A d \in Callers : Due(k)'[d] = Weight(k, call[d])'
    BY DEF Due
  <2>2. SumFunctionOnSet(Due(k)', Callers) =
          SumFunctionOnSet(Due(k), Callers) - Due(k)[c] + Due(k)'[c]
    BY <1>1, <2>1, TablesAreFinite, SumChanges
  <2>. QED  BY <2>1, <2>2 DEF DueIn
<1>3. ExemptIn(k)' = ExemptIn(k) - Excess(k, call[c]) + Excess(k, call[c])'
  <2>1. /\ \A d \in Callers : Exempt(k)[d] = Excess(k, call[d])
        /\ \A d \in Callers : Exempt(k)'[d] = Excess(k, call[d])'
    BY DEF Exempt
  <2>2. SumFunctionOnSet(Exempt(k)', Callers) =
          SumFunctionOnSet(Exempt(k), Callers) - Exempt(k)[c] + Exempt(k)'[c]
    BY <1>1, <2>1, TablesAreFinite, SumChanges
  <2>. QED  BY <2>1, <2>2 DEF ExemptIn
<1>4. /\ Limit(k) \in Nat /\ Slack \in Nat /\ Approved(TasksOf(k)) \in Nat
      /\ Allowance(k)' = Allowance(k) + a
      /\ Allowance(k) = Limit(k) + Approved(TasksOf(k)) + Slack
  BY ScopesAreSound, CallersAreCounted, ApprovedIsNatural DEF Allowance
<1>5. /\ \A d \in Days : Recorded(k, d)' = Recorded(k, d) /\ Recorded(k, d) \in Nat
      /\ Recorded(k, today)' = Recorded(k, today) /\ today \in Days
  BY RecordedIsNatural DEF Recorded, TypeOK
<1>6. \A d \in Days : Recorded(k, d)' <= Allowance(k)'
  BY <1>4, <1>5 DEF ScopeIsKept
<1>7. Recorded(k, today)' + DueIn(k)' <= Allowance(k)'
  <2>1. CASE Weight(k, call[c])' <= Weight(k, call[c]) + a
    BY <1>1, <1>2, <1>4, <1>5, <2>1 DEF ScopeIsKept
  <2>2. CASE Recorded(k, today) + Weight(k, call[c])' <= Limit(k)
    <3>1. DueIn(k)' <= Weight(k, call[c])' + Slack
      <4>1. SumsAreSound'
        BY SumsFollowTypes, PTL
      <4>. QED  BY <4>1 DEF SumsAreSound
    <3>. QED  BY <1>1, <1>4, <1>5, <2>2, <3>1
  <2>. QED  BY <2>1, <2>2
<1>8. ExemptIn(k)' <= Approved(TasksOf(k))'
  BY <1>1, <1>3, <1>4 DEF ScopeIsKept
<1>. QED  BY <1>6, <1>7, <1>8 DEF ScopeIsKept

(* ... also when the call becomes r and no row but a status changes. *)
LEMMA CallBecomes ==
  ASSUME TypeOK, TypeOK', NEW k \in Scopes, ScopeIsKept(k),
         NEW c \in Callers, NEW r, call' = [call EXCEPT ![c] = r],
         spent' = spent, today' = today, approvals' = approvals,
         \/ Weight(k, r) <= Weight(k, call[c])
         \/ Recorded(k, today) + Weight(k, r) <= Limit(k),
         Excess(k, r) <= Excess(k, call[c])
  PROVE  ScopeIsKept(k)'
<1>1. call'[c] = r /\ \A d \in Callers \ {c} : call'[d] = call[d]
  BY DEF TypeOK
<1>2. /\ Weight(k, call[c])' = Weight(k, r) /\ Excess(k, call[c])' = Excess(k, r)
      /\ \A d \in Callers \ {c} : /\ Weight(k, call[d])' = Weight(k, call[d])
                                  /\ Excess(k, call[d])' = Excess(k, call[d])
  BY <1>1 DEF Weight, Excess, MayPay, WillPass
<1>3. Approved(TasksOf(k))' = Approved(TasksOf(k)) + 0
  <2>1. Approved(TasksOf(k))' = Approved(TasksOf(k))
    BY DEF Approved
  <2>2. Approved(TasksOf(k)) \in Nat
    BY ApprovedIsNatural
  <2>. QED  BY <2>1, <2>2
<1>4. /\ Weight(k, call[c]) \in Nat /\ Excess(k, call[c]) \in Nat
      /\ Weight(k, call[c])' \in Nat /\ Excess(k, call[c])' \in Nat
  <2>1. SumsAreSound /\ SumsAreSound'
    BY SumsFollowTypes, PTL
  <2>. QED  BY <2>1 DEF SumsAreSound
<1>5. \/ Weight(k, call[c])' <= Weight(k, call[c]) + 0
      \/ Recorded(k, today) + Weight(k, call[c])' <= Limit(k)
  BY <1>2, <1>4
<1>6. Excess(k, call[c])' <= Excess(k, call[c]) + 0
  BY <1>2, <1>4
<1>. QED  BY <1>2, <1>3, <1>5, <1>6, OneCallMoves

(* What a caller reads is what is on record in its scope. *)
LEMMA ReadsAreRecords ==
  ASSUME TypeOK, NEW k \in Scopes, NEW r \in Call, r.task \in Tasks
  PROVE  /\ OfOneTask(k) /\ r.task \in TasksOf(k) =>
              SumOfTask(r.task) = Recorded(k, today)
         /\ k.kind = "daily" => SumOfDays(DayWindow(r.day)) = Recorded(k, r.day)
         /\ k.kind = "monthly" => SumOfDays(MonthWindow(r.day)) = Recorded(k, r.day)
         /\ Period(k, r.day) = Period(k, today) => Recorded(k, r.day) = Recorded(k, today)
         /\ Recorded(k, r.day) \in Nat
<1>1. ASSUME OfOneTask(k), r.task \in TasksOf(k)
      PROVE  Cells(k, today) = {r.task} \X Days
  <2>1. TasksOf(k) = {r.task} /\ \A e \in Days : Period(k, e) = Period(k, today)
    BY <1>1 DEF TasksOf, Period
  <2>2. {e \in Days : Period(k, e) = Period(k, today)} = Days
    BY <2>1
  <2>. QED  BY <2>1, <2>2 DEF Cells
<1>2. ASSUME k.kind = "daily"
      PROVE  Cells(k, r.day) = Tasks \X DayWindow(r.day)
  <2>1. TasksOf(k) = Tasks /\ \A e \in Days : Period(k, e) = e
    BY <1>2 DEF TasksOf, Period, OfOneTask
  <2>2. {e \in Days : Period(k, e) = Period(k, r.day)} = {r.day}
    BY <2>1 DEF Call
  <2>. QED  BY <2>1, <2>2 DEF Cells, DayWindow
<1>3. ASSUME k.kind = "monthly"
      PROVE  Cells(k, r.day) = Tasks \X MonthWindow(r.day)
  <2>1. TasksOf(k) = Tasks /\ \A e : Period(k, e) = Month(e)
    BY <1>3 DEF TasksOf, Period, OfOneTask
  <2>. QED  BY <2>1 DEF Cells, MonthWindow
<1>4. Period(k, r.day) = Period(k, today) => Cells(k, r.day) = Cells(k, today)
  BY DEF Cells
<1>5. Recorded(k, r.day) \in Nat
  BY RecordedIsNatural DEF Call
<1>. QED  BY <1>1, <1>2, <1>3, <1>4, <1>5 DEF SumOfTask, SumOfDays, Recorded

(* A read of the sum of one kind of scope. *)
LEMMA ReadsKeep ==
  ASSUME RowsAreSound, TypeOK', NEW k \in Scopes, ScopeIsKept(k), NEW c \in Callers,
         ReadTaskSpend(c) \/ ReadDailySpend(c) \/ ReadMonthlySpend(c)
  PROVE  ScopeIsKept(k)'
<1>. DEFINE r == call'[c]
            q == call[c]
<1>1. /\ TypeOK /\ q \in Call /\ r \in Call /\ q.task \in Tasks
      /\ call \in [Callers -> Call] /\ q.pc \in Undecided
  BY DEF RowsAreSound, TypeOK, CallsHaveTasks, ReadTaskSpend, ReadDailySpend,
     ReadMonthlySpend, Undecided
<1>2. /\ spent' = spent /\ today' = today /\ approvals' = approvals
      /\ call' = [call EXCEPT ![c] = r]
  BY <1>1 DEF ReadTaskSpend, ReadDailySpend, ReadMonthlySpend, Become
<1>3. /\ r.task = q.task /\ r.cost = q.cost /\ r.day = q.day
      /\ \/ /\ q.pc = "task" /\ r.pc = "daily"
            /\ r.taskSpend = SumOfTask(q.task)
         \/ /\ q.pc = "daily" /\ r.pc = "monthly"
            /\ r.taskSpend = q.taskSpend
            /\ r.dailySpend = SumOfDays(DayWindow(q.day))
         \/ /\ q.pc = "monthly" /\ r.pc = "decide"
            /\ r.taskSpend = q.taskSpend /\ r.dailySpend = q.dailySpend
            /\ r.monthlySpend = SumOfDays(MonthWindow(q.day))
  <2>1. CASE ReadTaskSpend(c)
    <3>1. r = [q EXCEPT !.pc = "daily", !.taskSpend = SumOfTask(q.task)] /\ q.pc = "task"
      BY <1>1, <2>1 DEF ReadTaskSpend, Become
    <3>. HIDE DEF r, q
    <3>. QED  BY <1>1, <3>1 DEF Call
  <2>2. CASE ReadDailySpend(c)
    <3>1. /\ r = [q EXCEPT !.pc = "monthly", !.dailySpend = SumOfDays(DayWindow(q.day))]
          /\ q.pc = "daily"
      BY <1>1, <2>2 DEF ReadDailySpend, Become
    <3>. HIDE DEF r, q
    <3>. QED  BY <1>1, <3>1 DEF Call
  <2>3. CASE ReadMonthlySpend(c)
    <3>1. /\ r = [q EXCEPT !.pc = "decide", !.monthlySpend = SumOfDays(MonthWindow(q.day))]
          /\ q.pc = "monthly"
      BY <1>1, <2>3 DEF ReadMonthlySpend, Become
    <3>. HIDE DEF r, q
    <3>. QED  BY <1>1, <3>1 DEF Call
  <2>. QED  BY <2>1, <2>2, <2>3
<1>4. Excess(k, r) <= Excess(k, q)
  <2>1. Excess(k, r) = 0
    BY <1>3 DEF Excess, MayPay
  <2>2. Excess(k, q) \in Nat
    BY <1>1, WeightsAreCosts
  <2>. QED  BY <2>1, <2>2
<1>5. \/ Weight(k, r) <= Weight(k, q)
      \/ Recorded(k, today) + Weight(k, r) <= Limit(k)
  <2>. HIDE DEF r, q
  <2>1. /\ ~MayPay(q) /\ ~MayPay(r)
    BY <1>3 DEF MayPay
  <2>2. Weight(k, q) \in Nat /\ q.cost \in Nat /\ Weight(k, r) \in {0, r.cost}
    <3>1. Weight(k, q) \in Nat
      BY <1>1, WeightsAreCosts DEF q
    <3>2. Costs \cup {0} \subseteq Nat
      BY AmountsAreNaturals
    <3>. QED  BY <1>1, <3>1, <3>2 DEF Call, Weight
  <2>3. CASE ~(r.task \in TasksOf(k) /\ WillPass(k, r))
    BY <2>1, <2>2, <2>3 DEF Weight
  <2>4. ASSUME r.task \in TasksOf(k), WillPass(k, r), WillPass(k, q)
        PROVE  Weight(k, r) <= Weight(k, q)
    BY <1>3, <2>2, <2>4 DEF Weight
  <2>5. ASSUME r.task \in TasksOf(k), WillPass(k, r), ~WillPass(k, q)
        PROVE  Recorded(k, today) + r.cost <= Limit(k)
    <3>1. /\ k.kind \in {"task", "soft", "daily", "monthly"} /\ Limit(k) \in Nat
          /\ SpendRead(k, r) \in Nat /\ Recorded(k, q.day) \in Nat
      BY <1>1, ScopesAreSound, ReadsAreRecords DEF SpendRead, Call, OfOneTask
    <3>2. r.pc \notin Unread(k) /\ SpendRead(k, r) + r.cost <= Limit(k)
      BY <1>3, <2>2, <2>5, <3>1 DEF WillPass, Unread, OfOneTask, Undecided
    <3>3. q.pc \in Unread(k)
      BY <1>3, <2>2, <2>5, <3>1, <3>2 DEF WillPass, Unread, SpendRead, OfOneTask, Undecided
    <3>4. /\ ~OfOneTask(k) => SpendRead(k, r) = Recorded(k, q.day)
          /\ OfOneTask(k) => SpendRead(k, r) = Recorded(k, today)
      BY <1>1, <1>3, <2>5, <3>1, <3>2, <3>3, ReadsAreRecords
         DEF Unread, SpendRead, OfOneTask
    <3>5. OfOneTask(k) \/ Period(k, q.day) = Period(k, today)
      BY <1>3, <2>2, <2>5, <3>1, <3>2, <3>3, <3>4 DEF WillPass
    <3>. QED  BY <1>1, <3>2, <3>4, <3>5, ReadsAreRecords
  <2>. QED  BY <2>1, <2>2, <2>3, <2>4, <2>5 DEF Weight
<1>. HIDE DEF r, q
<1>6. Weight(k, q) = Weight(k, call[c]) /\ Excess(k, q) = Excess(k, call[c])
  BY DEF q
<1>. QED  BY <1>1, <1>2, <1>4, <1>5, <1>6, CallBecomes

LEMMA NothingWeighs ==
  ASSUME TypeOK, NEW k \in Scopes, NEW c \in Callers, NEW r,
         r.task \notin TasksOf(k) \/ ~(MayPay(r) \/ WillPass(k, r))
  PROVE  /\ Weight(k, r) = 0 /\ Weight(k, r) <= Weight(k, call[c])
         /\ Excess(k, r) = 0 /\ Excess(k, r) <= Excess(k, call[c])
<1>1. Weight(k, r) = 0 /\ Excess(k, r) = 0
  BY DEF Weight, Excess
<1>2. Weight(k, call[c]) \in Nat /\ Excess(k, call[c]) \in Nat
  BY WeightsAreCosts
<1>. QED  BY <1>1, <1>2

(* A new call reads today's sum: it does not count yet. *)
LEMMA AuthorizeKeeps ==
  ASSUME RowsAreSound, TypeOK', NEW k \in Scopes, ScopeIsKept(k), NEW c \in Callers,
         NEW t \in Tasks, NEW cost \in Costs, Authorize(c, t, cost)
  PROVE  ScopeIsKept(k)'
<1>. DEFINE r == [Idle EXCEPT !.pc = "task", !.task = t, !.cost = cost,
                              !.day = today, !.status = status[t]]
<1>1. r.pc = "task" /\ r.day = today
  BY DEF Idle
<1>2. /\ call' = [call EXCEPT ![c] = r]
      /\ spent' = spent /\ today' = today /\ approvals' = approvals
  BY DEF Authorize, Become
<1>. HIDE DEF r
<1>3. ~(MayPay(r) \/ WillPass(k, r))
  BY <1>1, ScopesAreSound DEF MayPay, WillPass, Unread, OfOneTask
<1>. QED  BY <1>2, <1>3, NothingWeighs, CallBecomes DEF RowsAreSound

LEMMA IdleKeeps ==
  ASSUME TypeOK, TypeOK', NEW k \in Scopes, ScopeIsKept(k), NEW c \in Callers,
         Refuse(c) \/ GiveUp(c)
  PROVE  ScopeIsKept(k)'
<1>1. /\ call' = [call EXCEPT ![c] = Idle]
      /\ spent' = spent /\ today' = today /\ approvals' = approvals
  BY DEF Refuse, GiveUp, Become
<1>2. ~(MayPay(Idle) \/ WillPass(k, Idle))
  BY ScopesAreSound DEF MayPay, WillPass, Unread, Undecided, OfOneTask, Idle
<1>. QED  BY <1>1, <1>2, NothingWeighs, CallBecomes

(* authorize allows what it has counted already: the call passed. *)
LEMMA AllowKeeps ==
  ASSUME RowsAreSound, TypeOK', NEW k \in Scopes, Binds(k)', ScopeIsKept(k),
         NEW c \in Callers, Allow(c)
  PROVE  ScopeIsKept(k)'
<1>. DEFINE q == call[c]
            r == Going("paying", q, None)
<1>1. /\ TypeOK /\ q \in Call /\ q.task \in Tasks /\ q.pc = "decide"
      /\ HardScopes(q) = {}
      /\ k.kind = "soft" /\ q.task = k.task => WarningScopes(q) = {}
  BY DEF RowsAreSound, TypeOK, CallsHaveTasks, Allow, Binds
<1>2. /\ call' = [call EXCEPT ![c] = r]
      /\ spent' = spent /\ today' = today /\ approvals' = approvals
  BY DEF Allow, Become
<1>3. r.pc = "paying" /\ r.task = q.task /\ r.cost = q.cost
  BY <1>1, GoingIsCall
<1>. HIDE DEF r, q
<1>4. /\ Limit(k) \in Nat /\ q.cost \in Nat /\ SpendRead(k, q) \in Nat
      /\ k.kind \in {"task", "soft", "daily", "monthly"}
  <2>1. Costs \cup {0} \subseteq Nat
    BY AmountsAreNaturals
  <2>. QED  BY <1>1, <2>1, ScopesAreSound DEF Call, SpendRead, OfOneTask
<1>5. q.task \in TasksOf(k) => SpendRead(k, q) + q.cost <= Limit(k)
  <2>1. /\ ~(q.taskSpend + q.cost > TaskHard)
        /\ ~(q.dailySpend + q.cost > DailyHard)
        /\ ~(q.monthlySpend + q.cost > MonthlyHard)
    BY <1>1 DEF HardScopes
  <2>2. k.kind = "soft" /\ q.task = k.task => ~(q.taskSpend + q.cost > TaskSoft)
    BY <1>1 DEF WarningScopes
  <2>3. /\ q.taskSpend \in Nat /\ q.dailySpend \in Nat /\ q.monthlySpend \in Nat
        /\ {TaskSoft, TaskHard, DailyHard, MonthlyHard} \subseteq Nat
    BY <1>1, AmountsAreNaturals DEF Call
  <2>. QED  BY <1>4, <2>1, <2>2, <2>3 DEF Limit, SpendRead, OfOneTask, TasksOf
<1>6. q.task \in TasksOf(k) => WillPass(k, q) /\ q.cost <= Limit(k)
  BY <1>1, <1>4, <1>5 DEF WillPass, Undecided, Unread, OfOneTask
<1>7. Weight(k, r) <= Weight(k, q) /\ Excess(k, r) <= Excess(k, q)
  <2>1. Weight(k, r) = Weight(k, q)
    BY <1>3, <1>6 DEF Weight, MayPay
  <2>2. Excess(k, r) = 0 /\ Excess(k, q) = 0
    BY <1>1, <1>3, <1>4, <1>6 DEF Excess
  <2>3. Weight(k, q) \in Nat
    BY <1>1, WeightsAreCosts DEF q
  <2>. QED  BY <2>1, <2>2, <2>3
<1>. QED  BY <1>1, <1>2, <1>7, CallBecomes DEF q

(* An approved call counts before it goes on and after. *)
LEMMA GoAheadKeeps ==
  ASSUME TypeOK, TypeOK', NEW k \in Scopes, ScopeIsKept(k), NEW c \in Callers,
         GoAhead(c)
  PROVE  ScopeIsKept(k)'
<1>. DEFINE q == call[c]
            r == Going("paying", q, None)
<1>1. q \in Call /\ MayPay(q)
  BY DEF TypeOK, GoAhead, MayPay
<1>2. /\ call' = [call EXCEPT ![c] = r]
      /\ spent' = spent /\ today' = today /\ approvals' = approvals
  BY DEF GoAhead, Become
<1>3. r.pc = "paying" /\ r.task = q.task /\ r.cost = q.cost
  BY <1>1, GoingIsCall
<1>. HIDE DEF r, q
<1>4. Weight(k, r) = Weight(k, q) /\ Excess(k, r) = Excess(k, q)
  BY <1>1, <1>3 DEF Weight, Excess, MayPay
<1>5. Weight(k, q) \in Nat /\ Excess(k, q) \in Nat
  BY WeightsAreCosts DEF q
<1>6. Weight(k, r) <= Weight(k, q) /\ Excess(k, r) <= Excess(k, q)
  BY <1>4, <1>5
<1>. QED  BY <1>2, <1>6, CallBecomes DEF q

-----------------------------------------------------------------------------
(* Approvals. *)

(* A row that is not approved, before and after, does not count. *)
LEMMA PendingDoesNotCount ==
  ASSUME TypeOK, TypeOK', NEW p \in Approvals, NEW ts,
         \A q \in Approvals \ {p} : approvals'[q] = approvals[q],
         approvals[p].status # "APPROVED", approvals'[p].status # "APPROVED"
  PROVE  Approved(ts)' = Approved(ts) + 0
<1>1. GrantedTo(ts)' = GrantedTo(ts)
  BY DEF GrantedTo
<1>2. \A q \in GrantedTo(ts) : /\ CostsOfApprovals[q] \in Nat
                               /\ CostsOfApprovals'[q] = CostsOfApprovals[q]
  BY ApprovedIsNatural DEF GrantedTo, CostsOfApprovals
<1>3. SumFunctionOnSet(CostsOfApprovals', GrantedTo(ts)) =
        SumFunctionOnSet(CostsOfApprovals, GrantedTo(ts))
  BY <1>2, ApprovedIsNatural, SumsAgree
<1>4. Approved(ts)' = SumFunctionOnSet(CostsOfApprovals', GrantedTo(ts)')
  BY DEF Approved, GrantedTo, CostsOfApprovals
<1>. QED  BY <1>1, <1>3, <1>4, ApprovedIsNatural

(* An approval adds its cost to what was approved for its task. *)
LEMMA ApprovalCounts ==
  ASSUME TypeOK, NEW p \in Approvals, Decide(p, "APPROVED"), NEW ts
  PROVE  Approved(ts)' =
           Approved(ts) + (IF approvals[p].task \in ts THEN approvals[p].cost ELSE 0)
<1>1. /\ approvals'[p].status = "APPROVED" /\ approvals[p].status # "APPROVED"
      /\ \A q \in Approvals : approvals'[q].task = approvals[q].task
                              /\ approvals'[q].cost = approvals[q].cost
      /\ \A q \in Approvals \ {p} : approvals'[q].status = approvals[q].status
  BY DEF Decide, TypeOK
<1>2. CostsOfApprovals' = CostsOfApprovals
  BY <1>1 DEF CostsOfApprovals
<1>3. Approved(ts)' = SumFunctionOnSet(CostsOfApprovals, GrantedTo(ts)')
  BY <1>2 DEF Approved, GrantedTo, CostsOfApprovals
<1>4. CASE approvals[p].task \in ts
  <2>1. p \in GrantedTo(ts)' /\ GrantedTo(ts)' \ {p} = GrantedTo(ts)
    BY <1>1, <1>4 DEF GrantedTo
  <2>2. GrantedTo(ts)' = GrantedTo(ts) \cup {p}
    BY <2>1
  <2>3. IsFiniteSet(GrantedTo(ts)')
    BY <2>2, ApprovedIsNatural, FS_AddElement
  <2>4. \A q \in GrantedTo(ts)' : CostsOfApprovals[q] \in Nat
    BY <2>2, ApprovedIsNatural DEF GrantedTo
  <2>5. SumFunctionOnSet(CostsOfApprovals, GrantedTo(ts)') =
          CostsOfApprovals[p] + SumFunctionOnSet(CostsOfApprovals, GrantedTo(ts))
    <3>. HIDE DEF GrantedTo
    <3>. QED  BY <2>1, <2>3, <2>4, SumSplits
  <2>6. CostsOfApprovals[p] = approvals[p].cost /\ CostsOfApprovals[p] \in Nat
    BY ApprovedIsNatural DEF CostsOfApprovals
  <2>. QED  BY <1>3, <1>4, <2>5, <2>6, ApprovedIsNatural
<1>5. CASE approvals[p].task \notin ts
  <2>1. GrantedTo(ts)' = GrantedTo(ts)
    BY <1>1, <1>5 DEF GrantedTo
  <2>. QED  BY <1>3, <1>5, <2>1, ApprovedIsNatural
<1>. QED  BY <1>4, <1>5

LEMMA BlockKeeps ==
  ASSUME RowsAreSound, TypeOK', NEW k \in Scopes, ScopeIsKept(k), NEW c \in Callers,
         NEW p \in Approvals, Block(c, p)
  PROVE  ScopeIsKept(k)'
<1>1. /\ TypeOK /\ spent' = spent /\ today' = today
      /\ approvals'[p].status = "PENDING" /\ approvals[p].status = "PENDING"
      /\ \A q \in Approvals \ {p} : approvals'[q] = approvals[q]
  BY DEF RowsAreSound, ApprovalsAreAsked, TypeOK, Block
<1>2. /\ call'[c].pc = "blocked" /\ call'[c].approval = p
      /\ \A d \in Callers \ {c} : call'[d] = call[d]
  BY <1>1, GoingIsCall DEF Block, Become, TypeOK
<1>3. \A d \in Callers : call[d].pc = "blocked" =>
        call[d].approval \in Approvals \ {p}
  BY NoneIsNoId DEF Block, RowsAreSound, ApprovalsAreAsked, CallsHaveTasks
<1>4. \A d \in Callers \ {c} : /\ Weight(k, call[d])' = Weight(k, call[d])
                               /\ Excess(k, call[d])' = Excess(k, call[d])
  <2>1. \A d \in Callers \ {c} : MayPay(call[d])' = MayPay(call[d])
    BY <1>1, <1>2, <1>3 DEF MayPay
  <2>. QED  BY <1>1, <1>2, <2>1 DEF Weight, Excess, WillPass
<1>5. Weight(k, call[c])' = 0 /\ Excess(k, call[c])' = 0
  <2>1. ~MayPay(call[c])' /\ ~WillPass(k, call[c])'
    BY <1>1, <1>2, ScopesAreSound DEF MayPay, WillPass, Undecided, Unread, OfOneTask
  <2>. QED  BY <2>1 DEF Weight, Excess
<1>6. Weight(k, call[c]) \in Nat /\ Excess(k, call[c]) \in Nat
  BY <1>1, WeightsAreCosts
<1>7. Approved(TasksOf(k))' = Approved(TasksOf(k)) + 0
  BY <1>1, PendingDoesNotCount
<1>8. /\ Weight(k, call[c])' <= Weight(k, call[c]) + 0
      /\ Excess(k, call[c])' <= Excess(k, call[c]) + 0
  BY <1>5, <1>6
<1>. QED  BY <1>1, <1>4, <1>7, <1>8, OneCallMoves

(* An approval lets one call pass at most, the one that asked for it. *)
LEMMA DecideKeeps ==
  ASSUME RowsAreSound, TypeOK', NEW k \in Scopes, ScopeIsKept(k),
         NEW p \in Approvals, NEW verdict \in {"APPROVED", "DENIED"},
         Decide(p, verdict)
  PROVE  ScopeIsKept(k)'
<1>1. /\ TypeOK /\ spent' = spent /\ today' = today /\ call' = call
      /\ approvals'[p].status = verdict /\ approvals[p].status = "PENDING"
      /\ \A q \in Approvals \ {p} : approvals'[q] = approvals[q]
  BY DEF RowsAreSound, TypeOK, Decide
<1>. DEFINE Asked(d) == call[d].pc = "blocked" /\ call[d].approval = p
<1>2. ASSUME NEW d \in Callers, ~Asked(d) \/ verdict = "DENIED"
      PROVE  /\ Weight(k, call[d])' = Weight(k, call[d])
             /\ Excess(k, call[d])' = Excess(k, call[d])
  <2>1. call[d].pc = "blocked" => call[d].approval \in Approvals
    BY DEF RowsAreSound, ApprovalsAreAsked
  <2>2. MayPay(call[d])' = MayPay(call[d])
    BY <1>1, <1>2, <2>1 DEF MayPay
  <2>. QED  BY <1>1, <2>2 DEF Weight, Excess, WillPass
<1>3. \A d \in Callers : Weight(k, call[d]) \in Nat /\ Excess(k, call[d]) \in Nat
  BY <1>1, WeightsAreCosts
<1>4. CASE verdict = "DENIED"
  <2>1. PICK c \in Callers : TRUE
    BY TablesAreFinite
  <2>2. Approved(TasksOf(k))' = Approved(TasksOf(k)) + 0
    BY <1>1, <1>4, PendingDoesNotCount
  <2>3. /\ Weight(k, call[c])' <= Weight(k, call[c]) + 0
        /\ Excess(k, call[c])' <= Excess(k, call[c]) + 0
    BY <1>2, <1>3, <1>4, <2>1
  <2>. QED  BY <1>1, <1>2, <1>4, <2>1, <2>2, <2>3, OneCallMoves
<1>5. CASE verdict = "APPROVED"
  <2>. DEFINE a == IF approvals[p].task \in TasksOf(k) THEN approvals[p].cost ELSE 0
  <2>1. Approved(TasksOf(k))' = Approved(TasksOf(k)) + a
    BY <1>1, <1>5, ApprovalCounts
  <2>2. a \in Nat
    BY <1>1, ApprovedIsNatural DEF CostsOfApprovals
  <2>3. ASSUME NEW c \in Callers, Asked(c)
        PROVE  /\ Weight(k, call[c])' = a /\ Excess(k, call[c])' <= a
               /\ \A d \in Callers \ {c} : ~Asked(d)
    <3>1. /\ call[c].task = approvals[p].task /\ call[c].cost = approvals[p].cost
          /\ \A d \in Callers \ {c} : ~Asked(d)
      BY <2>3 DEF RowsAreSound, ApprovalsAreAsked
    <3>2. MayPay(call[c])'
      BY <1>1, <1>5, <2>3 DEF MayPay
    <3>3. Weight(k, call[c])' = a
      BY <1>1, <3>1, <3>2 DEF Weight
    <3>4. Excess(k, call[c])' = a \/ Excess(k, call[c])' = 0
      BY <1>1, <3>1, <3>2 DEF Excess
    <3>. QED  BY <2>2, <3>1, <3>3, <3>4
  <2>. HIDE DEF a
  <2>4. CASE \E c \in Callers : Asked(c)
    <3>1. PICK c \in Callers : Asked(c)
      BY <2>4
    <3>2. /\ Weight(k, call[c])' <= Weight(k, call[c]) + a
          /\ Excess(k, call[c])' <= Excess(k, call[c]) + a
          /\ \A d \in Callers \ {c} : ~Asked(d)
      <4>1. /\ Weight(k, call[c])' = a /\ Excess(k, call[c])' <= a
            /\ \A d \in Callers \ {c} : ~Asked(d)
        BY <2>3, <3>1
      <4>2. /\ Excess(k, call[c])' \in Nat
            /\ Weight(k, call[c]) \in Nat /\ Excess(k, call[c]) \in Nat
        <5>1. SumsAreSound'
          BY SumsFollowTypes, PTL
        <5>. QED  BY <1>3, <3>1, <5>1 DEF SumsAreSound
      <4>. HIDE DEF Asked
      <4>. QED  BY <2>2, <4>1, <4>2
    <3>. HIDE DEF Asked
    <3>. QED  BY <1>1, <1>2, <2>1, <2>2, <3>1, <3>2, OneCallMoves
  <2>5. CASE \A c \in Callers : ~Asked(c)
    <3>1. PICK c \in Callers : TRUE
      BY TablesAreFinite
    <3>. HIDE DEF Asked
    <3>2. /\ Weight(k, call[c])' <= Weight(k, call[c]) + a
          /\ Excess(k, call[c])' <= Excess(k, call[c]) + a
      BY <1>2, <1>3, <2>2, <2>5, <3>1
    <3>. QED  BY <1>1, <1>2, <2>1, <2>2, <2>5, <3>1, <3>2, OneCallMoves
  <2>. QED  BY <2>4, <2>5
<1>. QED  BY <1>4, <1>5

-----------------------------------------------------------------------------
(* The ledger and the clock. *)

(* A call records no more than it weighs. *)
LEMMA RecordKeeps ==
  ASSUME RowsAreSound, TypeOK', NEW k \in Scopes, ScopeIsKept(k), NEW c \in Callers,
         NEW cost \in Costs, RecordCost(c, cost)
  PROVE  ScopeIsKept(k)'
<1>. DEFINE q == call[c]
            x == <<q.task, today>>
            add == IF q.task \in TasksOf(k) THEN cost ELSE 0
<1>1. /\ TypeOK /\ q \in Call /\ q.task \in Tasks /\ today \in Days
      /\ today' = today /\ approvals' = approvals
      /\ call'[c] = Idle /\ \A d \in Callers \ {c} : call'[d] = call[d]
      /\ MayPay(q) /\ cost <= q.cost
  BY DEF RowsAreSound, TypeOK, CallsHaveTasks, RecordCost, Become, MayPay
<1>2. /\ x \in Tasks \X Days /\ spent \in [Tasks \X Days -> Nat]
      /\ spent' \in [Tasks \X Days -> Nat]
      /\ spent' = [spent EXCEPT ![x] = @ + cost]
  BY <1>1 DEF TypeOK, RecordCost
<1>3. cost \in Nat /\ q.cost \in Nat /\ Costs \cup {0} \subseteq Nat
  BY <1>1, AmountsAreNaturals DEF Call
<1>4. /\ spent'[x] = spent[x] + cost
      /\ \A y \in Tasks \X Days : y # x => spent'[y] = spent[y]
      /\ \A y \in Tasks \X Days : spent[y] \in Nat /\ spent'[y] \in Nat
  <2>. HIDE DEF x
  <2>. QED  BY <1>2
<1>5. ASSUME NEW d \in Days
      PROVE  /\ Cells(k, d) \in SUBSET (Tasks \X Days) /\ IsFiniteSet(Cells(k, d))
             /\ Recorded(k, d)' = SumFunctionOnSet(spent', Cells(k, d))
             /\ x \notin Cells(k, d) => Recorded(k, d)' = Recorded(k, d)
             /\ x \in Cells(k, d) => Recorded(k, d)' = Recorded(k, d) + cost
  <2>1. Cells(k, d) \in SUBSET (Tasks \X Days) /\ IsFiniteSet(Cells(k, d))
    BY ScopesAreSound, CellsAreFinite DEF Cells
  <2>2. Recorded(k, d)' = SumFunctionOnSet(spent', Cells(k, d))
    BY DEF Recorded
  <2>. HIDE DEF x
  <2>3. ASSUME x \notin Cells(k, d)
        PROVE  Recorded(k, d)' = Recorded(k, d)
    <3>1. \A y \in Cells(k, d) : spent[y] \in Nat /\ spent'[y] = spent[y]
      BY <1>4, <2>1, <2>3
    <3>2. SumFunctionOnSet(spent', Cells(k, d)) = SumFunctionOnSet(spent, Cells(k, d))
      BY <2>1, <3>1, SumsAgree
    <3>. QED  BY <2>2, <3>2 DEF Recorded
  <2>4. ASSUME x \in Cells(k, d)
        PROVE  Recorded(k, d)' = Recorded(k, d) + cost
    <3>1. /\ \A y \in Cells(k, d) : spent[y] \in Nat /\ spent'[y] \in Nat
          /\ \A y \in Cells(k, d) \ {x} : spent'[y] = spent[y]
      BY <1>4, <2>1
    <3>2. SumFunctionOnSet(spent', Cells(k, d)) =
            SumFunctionOnSet(spent, Cells(k, d)) - spent[x] + spent'[x]
      BY <2>1, <2>4, <3>1, SumChanges
    <3>3. SumFunctionOnSet(spent, Cells(k, d)) \in Nat /\ spent[x] \in Nat
      BY <2>1, <2>4, <3>1, SumSplits
    <3>. QED  BY <1>3, <1>4, <2>2, <3>2, <3>3 DEF Recorded
  <2>. QED  BY <2>1, <2>2, <2>3, <2>4
<1>6. \A d \in Days : x \in Cells(k, d) =>
        q.task \in TasksOf(k) /\ Recorded(k, d) = Recorded(k, today)
  BY <1>1 DEF Cells, Recorded
<1>7. q.task \in TasksOf(k) => x \in Cells(k, today)
  BY <1>1 DEF Cells
<1>8. /\ Weight(k, q) \in Nat /\ Excess(k, q) \in Nat
      /\ \A d \in Callers : Due(k)[d] = Weight(k, call[d]) /\ Due(k)[d] \in Nat
      /\ \A d \in Callers : Exempt(k)[d] = Excess(k, call[d]) /\ Exempt(k)[d] \in Nat
      /\ \A d \in Callers : Due(k)'[d] = Weight(k, call[d])' /\ Due(k)'[d] \in Nat
      /\ \A d \in Callers : Exempt(k)'[d] = Excess(k, call[d])' /\ Exempt(k)'[d] \in Nat
      /\ DueIn(k) \in Nat /\ ExemptIn(k) \in Nat /\ DueIn(k)' \in Nat
  <2>1. SumsAreSound /\ SumsAreSound'
    BY <1>1, SumsFollowTypes, PTL
  <2>. QED  BY <2>1 DEF SumsAreSound, Due, Exempt
<1>9. /\ Weight(k, call[c])' = 0 /\ Excess(k, call[c])' = 0
      /\ \A d \in Callers \ {c} : /\ Weight(k, call[d])' = Weight(k, call[d])
                                  /\ Excess(k, call[d])' = Excess(k, call[d])
  <2>1. ~MayPay(call[c])' /\ ~WillPass(k, call[c])'
    BY <1>1, ScopesAreSound
       DEF MayPay, WillPass, Unread, Undecided, OfOneTask, Idle
  <2>. QED  BY <1>1, <2>1 DEF Weight, Excess, MayPay, WillPass
<1>10. DueIn(k)' = DueIn(k) - Weight(k, q)
  <2>1. SumFunctionOnSet(Due(k)', Callers) =
          SumFunctionOnSet(Due(k), Callers) - Due(k)[c] + Due(k)'[c]
    BY <1>8, <1>9, TablesAreFinite, SumChanges
  <2>. QED  BY <1>8, <1>9, <2>1 DEF DueIn
<1>11. ExemptIn(k)' = ExemptIn(k) - Excess(k, q)
  <2>1. SumFunctionOnSet(Exempt(k)', Callers) =
          SumFunctionOnSet(Exempt(k), Callers) - Exempt(k)[c] + Exempt(k)'[c]
    BY <1>8, <1>9, TablesAreFinite, SumChanges
  <2>. QED  BY <1>8, <1>9, <2>1 DEF ExemptIn
<1>12. add <= Weight(k, q) /\ add \in Nat
  BY <1>1, <1>3 DEF Weight
<1>13. /\ Allowance(k)' = Allowance(k) /\ Allowance(k) \in Nat
       /\ Approved(TasksOf(k))' = Approved(TasksOf(k)) /\ Approved(TasksOf(k)) \in Nat
  BY <1>1, AllowanceIsNatural, ApprovedIsNatural DEF Allowance, Approved
<1>14. \A d \in Days : Recorded(k, d) \in Nat
  BY <1>1, RecordedIsNatural
<1>. HIDE DEF q, x
<1>15. Recorded(k, today)' = Recorded(k, today) + add
  BY <1>1, <1>5, <1>6, <1>7, <1>14
<1>16. \A d \in Days : \/ Recorded(k, d)' = Recorded(k, d)
                       \/ Recorded(k, d)' = Recorded(k, today) + add
  BY <1>5, <1>6
<1>. HIDE DEF add
<1>17. Recorded(k, today) + add + DueIn(k)' <= Allowance(k)
  BY <1>1, <1>8, <1>10, <1>12, <1>13, <1>14 DEF ScopeIsKept
<1>18. Recorded(k, today) + add <= Allowance(k)
  BY <1>1, <1>8, <1>12, <1>13, <1>14, <1>17
<1>19. ExemptIn(k)' <= Approved(TasksOf(k))'
  BY <1>8, <1>11, <1>13 DEF ScopeIsKept
<1>20. \A d \in Days : Recorded(k, d)' <= Allowance(k)'
  BY <1>13, <1>16, <1>18 DEF ScopeIsKept
<1>21. (Recorded(k, today) + DueIn(k) <= Allowance(k))'
  <2>1. Recorded(k, today') = Recorded(k, today)
    BY <1>1
  <2>. QED  BY <1>1, <1>13, <1>15, <1>17 DEF Recorded
<1>. QED  BY <1>19, <1>20, <1>21 DEF ScopeIsKept

LEMMA PeriodsAreOrdered ==
  ASSUME NEW k \in Scopes, NEW d \in Nat \ {0}, NEW e \in Nat \ {0}, d <= e
  PROVE  /\ Period(k, d) \in Int /\ Period(k, e) \in Int
         /\ Period(k, d) <= Period(k, e)
<1>1. DaysPerMonth \in Nat \ {0}
  BY CalendarIsNatural
<1>2. ASSUME NEW a \in Nat, NEW b \in Nat, NEW m \in Nat \ {0}, a <= b
      PROVE  a \div m \in Int /\ b \div m \in Int /\ a \div m <= b \div m
  BY <1>2
<1>3. /\ Month(d) \in Int /\ Month(e) \in Int
      /\ Month(d) <= Month(e)
  <2>1. d - 1 \in Nat /\ e - 1 \in Nat /\ d - 1 <= e - 1
    OBVIOUS
  <2>. QED  BY <1>1, <1>2, <2>1 DEF Month
<1>. QED  BY <1>3, ScopesAreSound DEF Period, OfOneTask

(* In a new period nothing is on record, and either some call is within    *)
(* the limit, or all of them were approved.                                *)
LEMMA MidnightKeeps ==
  ASSUME RowsAreSound, TypeOK', NEW k \in Scopes, ScopeIsKept(k), Midnight
  PROVE  ScopeIsKept(k)'
<1>1. /\ TypeOK /\ today \in Days /\ today' = today + 1 /\ today' \in Days
      /\ spent' = spent /\ approvals' = approvals /\ call' = call
      /\ \A d \in Days : d \in Nat \ {0}
  BY DEF RowsAreSound, TypeOK, Midnight, Days
<1>2. /\ Allowance(k)' = Allowance(k) /\ Approved(TasksOf(k))' = Approved(TasksOf(k))
      /\ \A d \in Days : Recorded(k, d)' = Recorded(k, d)
      /\ ExemptIn(k)' = ExemptIn(k)
  BY <1>1 DEF Allowance, Approved, Recorded, ExemptIn, Exempt, Excess, MayPay
<1>3. (Recorded(k, today) + DueIn(k) <= Allowance(k))'
  <2>1. CASE Period(k, today + 1) = Period(k, today)
    <3>1. Recorded(k, today)' = Recorded(k, today)
      BY <1>1, <2>1 DEF Recorded, Cells
    <3>2. \A c \in Callers : Weight(k, call[c])' = Weight(k, call[c])
      BY <1>1, <2>1 DEF Weight, MayPay, WillPass
    <3>3. DueIn(k)' = DueIn(k)
      BY <3>2 DEF DueIn, Due
    <3>. QED  BY <1>2, <3>1, <3>3 DEF ScopeIsKept
  <2>2. CASE Period(k, today + 1) # Period(k, today)
    <3>1. Recorded(k, today + 1) = 0
      <4>. DEFINE S == Cells(k, today + 1)
      <4>1. \A x \in S : spent[x] = 0
        <5>1. ASSUME NEW t \in TasksOf(k), NEW e \in Days,
                     Period(k, e) = Period(k, today + 1)
              PROVE  spent[<<t, e>>] = 0
          <6>1. e > today
            <7>1. Period(k, today) <= Period(k, today + 1)
                  /\ Period(k, today) \in Int /\ Period(k, today + 1) \in Int
              BY <1>1, PeriodsAreOrdered
            <7>2. e <= today => Period(k, e) <= Period(k, today)
              BY <1>1, PeriodsAreOrdered
            <7>. QED  BY <1>1, <2>2, <5>1, <7>1, <7>2
          <6>. QED  BY <6>1, ScopesAreSound DEF RowsAreSound, NothingIsAhead
        <5>. QED  BY <5>1 DEF Cells
      <4>2. IsFiniteSet(S)
        BY ScopesAreSound, CellsAreFinite DEF Cells
      <4>3. SumFunctionOnSet(spent, S) <= Cardinality(S) * 0
        <5>1. \A x \in S : spent[x] \in Nat /\ spent[x] <= 0
          BY <4>1
        <5>. HIDE DEF S
        <5>. QED  BY <4>2, <5>1, SumIsBounded
      <4>4. SumFunctionOnSet(spent, S) \in Nat /\ Cardinality(S) \in Nat
        BY <4>1, <4>2, SumSplits, FS_CardinalityType
      <4>. QED  BY <4>3, <4>4 DEF Recorded
    <3>2. DueIn(k)' <= Allowance(k)'
      <4>1. /\ Limit(k) \in Nat /\ Slack \in Nat /\ Approved(TasksOf(k)) \in Nat
            /\ Allowance(k)' = Limit(k) + Approved(TasksOf(k)) + Slack
        BY <1>1, <1>2, ScopesAreSound, CallersAreCounted, ApprovedIsNatural
           DEF Allowance
      <4>2. SumsAreSound'
        BY SumsFollowTypes, PTL
      <4>3. CASE \E c \in Callers : Weight(k, call[c])' <= Limit(k)
        <5>1. PICK c \in Callers : Weight(k, call[c])' <= Limit(k)
          BY <4>3
        <5>2. /\ Weight(k, call[c])' \in Nat /\ DueIn(k)' \in Nat
              /\ DueIn(k)' <= Weight(k, call[c])' + Slack
          BY <4>2 DEF SumsAreSound
        <5>. QED  BY <4>1, <5>1, <5>2
      <4>4. CASE \A c \in Callers : ~(Weight(k, call[c])' <= Limit(k))
        <5>1. ASSUME NEW c \in Callers
              PROVE  Weight(k, call[c])' = Excess(k, call[c])'
          <6>1. /\ call[c] \in Call /\ Costs \cup {0} \subseteq Nat
                /\ k.kind \in {"task", "soft", "daily", "monthly"}
            BY <1>1, AmountsAreNaturals, ScopesAreSound DEF TypeOK
          <6>2. call[c].cost \in Nat /\ SpendRead(k, call[c]) \in Nat
            BY <6>1 DEF Call, SpendRead, OfOneTask
          <6>3. WillPass(k, call[c])' => call[c].cost <= Limit(k)
            BY <1>1, <4>1, <6>2 DEF WillPass
          <6>4. ~(Weight(k, call[c])' <= Limit(k))
            BY <4>4
          <6>5. ~(0 <= Limit(k)) \/ Weight(k, call[c])' # 0
            BY <6>4
          <6>6. /\ call[c].task \in TasksOf(k)
                /\ Weight(k, call[c])' = call[c].cost
            BY <1>1, <4>1, <6>5 DEF Weight
          <6>7. MayPay(call[c])' /\ call[c].cost > Limit(k)
            <7>1. ~(call[c].cost <= Limit(k))
              BY <6>4, <6>6
            <7>2. MayPay(call[c])'
              BY <1>1, <4>1, <6>3, <6>5, <7>1 DEF Weight
            <7>. QED  BY <4>1, <6>2, <7>1, <7>2
          <6>. QED  BY <1>1, <6>6, <6>7 DEF Excess
        <5>2. DueIn(k)' = ExemptIn(k)'
          BY <5>1 DEF DueIn, ExemptIn, Due, Exempt
        <5>3. ExemptIn(k) \in Nat
          BY <1>1, WeightsAreCosts
        <5>. QED  BY <1>2, <4>1, <5>2, <5>3 DEF ScopeIsKept
      <4>. QED  BY <4>3, <4>4
    <3>3. Recorded(k, today)' = 0
      BY <1>1, <3>1 DEF Recorded
    <3>4. DueIn(k)' \in Nat
      <4>1. SumsAreSound'
        BY SumsFollowTypes, PTL
      <4>. QED  BY <4>1 DEF SumsAreSound
    <3>. QED  BY <3>2, <3>3, <3>4
  <2>. QED  BY <2>1, <2>2
<1>. QED  BY <1>2, <1>3 DEF ScopeIsKept

-----------------------------------------------------------------------------
(* The invariant. *)

LEMMA InitIsSound == Init => Inv
<1>. SUFFICES ASSUME Init  PROVE Inv
  OBVIOUS
<1>1. /\ 1 \in Days /\ \A t \in Tasks, d \in Days : spent[<<t, d>>] = 0
      /\ \A c \in Callers : call[c] = Idle
      /\ \A p \in Approvals : approvals[p] =
           [task |-> None, cost |-> 0, status |-> "PENDING"]
  BY CalendarIsNatural DEF Init, Days
<1>2. TypeOK
  <2>1. spent \in [Tasks \X Days -> Nat]
    BY DEF Init
  <2>. QED  BY <1>1, <2>1, IdleIsCall DEF Init, TypeOK, Status, ApprovalStatus
<1>3. RowsAreSound
  BY <1>1, <1>2 DEF RowsAreSound, CallsHaveTasks, NothingIsAhead, ApprovalsAreAsked,
     Idle, Undecided
<1>4. ASSUME NEW k \in Scopes
      PROVE  ScopeIsKept(k)
  <2>1. \A d \in Days : Recorded(k, d) = 0
    <3>. SUFFICES ASSUME NEW d \in Days  PROVE Recorded(k, d) = 0
      OBVIOUS
    <3>. DEFINE S == Cells(k, d)
    <3>1. IsFiniteSet(S) /\ S \in SUBSET (Tasks \X Days)
      BY ScopesAreSound, CellsAreFinite DEF Cells
    <3>2. \A x \in S : spent[x] \in Nat /\ spent[x] <= 0
      <4>1. \A x \in Tasks \X Days : spent[x] = 0
        BY DEF Init
      <4>. QED  BY <3>1, <4>1
    <3>. HIDE DEF S
    <3>3. SumFunctionOnSet(spent, S) <= Cardinality(S) * 0
      BY <3>1, <3>2, SumIsBounded
    <3>4. SumFunctionOnSet(spent, S) \in Nat /\ Cardinality(S) \in Nat
      BY <3>1, <3>2, SumSplits, FS_CardinalityType
    <3>. QED  BY <3>3, <3>4 DEF Recorded, S
  <2>2. \A c \in Callers : Weight(k, call[c]) = 0 /\ Excess(k, call[c]) = 0
    BY <1>1 DEF Weight, Excess, Idle
  <2>3. DueIn(k) = 0 /\ ExemptIn(k) = 0
    <3>. DEFINE f == [c \in Callers |-> 0]
    <3>1. Due(k) = f /\ Exempt(k) = f
      BY <2>2 DEF Due, Exempt
    <3>2. \A c \in Callers : f[c] \in Nat /\ f[c] <= 0
      OBVIOUS
    <3>. HIDE DEF f
    <3>3. SumFunctionOnSet(f, Callers) <= Cardinality(Callers) * 0
      BY <3>2, TablesAreFinite, SumIsBounded
    <3>4. SumFunctionOnSet(f, Callers) \in Nat
      BY <3>2, TablesAreFinite, SumSplits
    <3>. QED  BY <3>1, <3>3, <3>4, CallersAreCounted DEF DueIn, ExemptIn
  <2>4. Allowance(k) \in Nat /\ Approved(TasksOf(k)) \in Nat
    BY <1>2, AllowanceIsNatural, ApprovedIsNatural
  <2>5. Recorded(k, today) = 0
    BY <1>1, <2>1 DEF Init
  <2>. QED  BY <2>1, <2>3, <2>4, <2>5 DEF ScopeIsKept
<1>. QED  BY <1>3, <1>4 DEF Inv

LEMMA ScopesStayKept ==
  ASSUME RowsAreSound, TypeOK', NEW k \in Scopes, Binds(k)', ScopeIsKept(k), [Next]_vars
  PROVE  ScopeIsKept(k)'
<1>. TypeOK
  BY DEF RowsAreSound
<1>1. ASSUME NEW c \in Callers, CallerStep(c)
      PROVE  ScopeIsKept(k)'
  BY <1>1, AuthorizeKeeps, ReadsKeep, AllowKeeps, IdleKeeps, BlockKeeps, RecordKeeps,
     GoAheadKeeps DEF CallerStep
<1>2. ASSUME NEW p \in Approvals, NEW verdict \in {"APPROVED", "DENIED"},
             Decide(p, verdict)
      PROVE  ScopeIsKept(k)'
  BY <1>2, DecideKeeps
<1>3. CASE Midnight
  BY <1>3, MidnightKeeps
<1>4. ASSUME UNCHANGED <<spent, approvals, today, call>>
      PROVE  ScopeIsKept(k)'
  BY <1>4 DEF ScopeIsKept, Recorded, Allowance, Approved, DueIn, ExemptIn, Due, Exempt,
     Weight, Excess, MayPay, WillPass
<1>. QED  BY <1>1, <1>2, <1>3, <1>4 DEF Next, EndTask, vars

LEMMA WarningsStay ==
  ASSUME NEW k \in Scopes, [Next]_vars, Binds(k)'
  PROVE  Binds(k)
<1>1. warned \subseteq warned'
  BY DEF Next, CallerStep, vars, Decide, EndTask, Midnight, Authorize, ReadTaskSpend,
     ReadDailySpend, ReadMonthlySpend, Allow, Refuse, Block, RecordCost, GoAhead, GiveUp
<1>. QED  BY <1>1 DEF Binds

(* The inductive invariant: in every scope, what is recorded and what the  *)
(* calls under way may still record is within the limit, what was approved *)
(* and the slack.                                                          *)
THEOREM SpendIsAccounted == Spec => []Inv
<1>1. Inv /\ [Next]_vars => Inv'
  <2>. SUFFICES ASSUME Inv, [Next]_vars  PROVE Inv'
    OBVIOUS
  <2>1. RowsAreSound /\ RowsAreSound' /\ TypeOK'
    BY RowsStaySound DEF Inv, RowsAreSound
  <2>2. \A k \in Scopes : Binds(k)' => ScopeIsKept(k)'
    BY <2>1, WarningsStay, ScopesStayKept DEF Inv
  <2>. QED  BY <2>1, <2>2 DEF Inv
<1>. QED  BY <1>1, InitIsSound, PTL DEF Spec

(* Every row and every call has the shape its table or method gives. *)
THEOREM TypeCorrect == Spec => []TypeOK
<1>1. Inv => TypeOK
  BY DEF Inv, RowsAreSound
<1>. QED  BY <1>1, SpendIsAccounted, PTL

LEMMA KeptIsBounded ==
  ASSUME TypeOK, NEW k \in Scopes, ScopeIsKept(k), NEW d \in Days
  PROVE  Recorded(k, d) <= Limit(k) + Approved(TasksOf(k)) + Slack
BY DEF ScopeIsKept, Allowance

(* However many calls there are and however their reads, payments and      *)
(* records interleave, also over midnight: the cost of a task, a day and a *)
(* month exceeds its hard limit by no more than what was approved and one  *)
(* call of each other caller.                                              *)
THEOREM OverspendStaysBounded == Spec => []OverspendIsBounded
<1>1. Inv => OverspendIsBounded
  <2>. SUFFICES ASSUME Inv  PROVE OverspendIsBounded
    OBVIOUS
  <2>0. TypeOK /\ today \in Days
    BY DEF Inv, RowsAreSound, TypeOK
  <2>1. ASSUME NEW t \in Tasks
        PROVE  SumOfTask(t) <= TaskHard + Approved({t}) + Slack
    <3>1. Hard(t) \in Scopes /\ Binds(Hard(t))
      BY DEF Scopes, Binds, Hard
    <3>2. /\ TasksOf(Hard(t)) = {t} /\ Limit(Hard(t)) = TaskHard
          /\ \A e \in Days : Period(Hard(t), e) = Period(Hard(t), today)
      BY DEF TasksOf, Limit, Hard, OfOneTask, Period
    <3>3. Recorded(Hard(t), today) = SumOfTask(t)
      <4>1. {e \in Days : Period(Hard(t), e) = Period(Hard(t), today)} = Days
        BY <3>2
      <4>. QED  BY <3>2, <4>1 DEF Recorded, Cells, SumOfTask
    <3>. QED  BY <2>0, <3>1, <3>2, <3>3, KeptIsBounded DEF Inv
  <2>2. ASSUME NEW d \in Days
        PROVE  SumOfDays(DayWindow(d)) <= DailyHard + Approved(Tasks) + Slack
    <3>1. Daily \in Scopes /\ Binds(Daily)
      BY DEF Scopes, Binds, Daily
    <3>2. TasksOf(Daily) = Tasks /\ Limit(Daily) = DailyHard
          /\ \A e : Period(Daily, e) = e
      BY DEF TasksOf, Limit, Daily, OfOneTask, Period
    <3>3. Recorded(Daily, d) = SumOfDays(DayWindow(d))
      <4>1. {e \in Days : Period(Daily, e) = Period(Daily, d)} = {d}
        BY <3>2
      <4>. QED  BY <3>2, <4>1 DEF Recorded, Cells, SumOfDays, DayWindow
    <3>. QED  BY <2>0, <3>1, <3>2, <3>3, KeptIsBounded DEF Inv
  <2>3. ASSUME NEW d \in Days
        PROVE  SumOfDays(MonthWindow(d)) <= MonthlyHard + Approved(Tasks) + Slack
    <3>1. Monthly \in Scopes /\ Binds(Monthly)
      BY DEF Scopes, Binds, Monthly
    <3>2. TasksOf(Monthly) = Tasks /\ Limit(Monthly) = MonthlyHard
          /\ \A e : Period(Monthly, e) = Month(e)
      BY DEF TasksOf, Limit, Monthly, OfOneTask, Period
    <3>3. Recorded(Monthly, d) = SumOfDays(MonthWindow(d))
      BY <3>2 DEF Recorded, Cells, SumOfDays, MonthWindow
    <3>. QED  BY <2>0, <3>1, <3>2, <3>3, KeptIsBounded DEF Inv
  <2>. QED  BY <2>1, <2>2, <2>3 DEF OverspendIsBounded
<1>. QED  BY <1>1, SpendIsAccounted, PTL

(* A task that overruns its soft limit by more than that has a warning. *)
THEOREM OverrunsAreWarned == Spec => []OverrunWasWarned
<1>1. Inv => OverrunWasWarned
  <2>. SUFFICES ASSUME Inv, NEW t \in Tasks, t \notin warned
                PROVE  ~(SumOfTask(t) > TaskSoft + Approved({t}) + Slack)
    BY DEF OverrunWasWarned
  <2>1. Soft(t) \in Scopes /\ Binds(Soft(t)) /\ TypeOK /\ today \in Days
    BY DEF Scopes, Binds, Soft, Inv, RowsAreSound, TypeOK
  <2>2. /\ TasksOf(Soft(t)) = {t} /\ Limit(Soft(t)) = TaskSoft
        /\ \A e \in Days : Period(Soft(t), e) = Period(Soft(t), today)
    BY DEF TasksOf, Limit, Soft, OfOneTask, Period
  <2>3. Recorded(Soft(t), today) = SumOfTask(t)
    <3>1. {e \in Days : Period(Soft(t), e) = Period(Soft(t), today)} = Days
      BY <2>2
    <3>. QED  BY <2>2, <3>1 DEF Recorded, Cells, SumOfTask
  <2>4. SumOfTask(t) <= TaskSoft + Approved({t}) + Slack
    BY <2>1, <2>2, <2>3, KeptIsBounded DEF Inv
  <2>5. /\ SumOfTask(t) \in Nat /\ TaskSoft \in Nat /\ Approved({t}) \in Nat
        /\ Slack \in Nat
    BY <2>1, <2>3, RecordedIsNatural, AmountsAreNaturals, ApprovedIsNatural,
       CallersAreCounted
  <2>. QED  BY <2>4, <2>5
<1>. QED  BY <1>1, SpendIsAccounted, PTL

=============================================================================
