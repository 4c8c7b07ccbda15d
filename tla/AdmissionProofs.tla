-------------------------- MODULE AdmissionProofs --------------------------
(***************************************************************************)
(* Theorems about Admission, for every set of configurations of the schema *)
(* (any number of channels and workers, any weights and priorities), every *)
(* set of requests and every bound.                                        *)
(*                                                                         *)
(* The argument: the order of the sort is total, so among finitely many    *)
(* channels there is a first one, and what the router gives is the first   *)
(* of the eligible ones, or of those of the preferred provider             *)
(* (ResolvedIsJustified).  What it has read of a channel is what the row   *)
(* of the channel says of that time, unless it was written since           *)
(* (AnswerIsChosen).  Where no row was, a second request at the same time  *)
(* reads the same, and since a handoff does not pay it leads to the same   *)
(* choice (ResolvedAgainIsSame).                                           *)
(***************************************************************************)
EXTENDS Admission, FiniteSetTheorems, TLAPS

(* Strong induction on the subsets of a finite set. *)
LEMMA SubsetInduction ==
  ASSUME NEW S, IsFiniteSet(S), NEW F,
         \A T \in SUBSET S : (\A U \in SUBSET T : U # T => U \in F) => T \in F
  PROVE  \A T \in SUBSET S : T \in F
<1>. DEFINE Missed == (SUBSET S) \ F
<1>. SUFFICES ASSUME Missed # {}  PROVE FALSE
  OBVIOUS
<1>1. IsWellFoundedOn(StrictSubsetOrdering(S), SUBSET S)
  <2>1. IsWellFoundedOn(StrictSubsetOrdering(S), FiniteSubsetsOf(S))
    BY FS_StrictSubsetOrderingWellFounded
  <2>. QED  BY <2>1, FS_FiniteSubsetsOfFinite
<1>2. Missed \subseteq SUBSET S
  OBVIOUS
<1>3. PICK T \in Missed :
        \A U \in Missed : <<U, T>> \notin StrictSubsetOrdering(S)
  <2>. HIDE DEF Missed
  <2>. QED  BY <1>1, <1>2, WFMin
<1>. QED  BY <1>3 DEF StrictSubsetOrdering

(* A finite set with a strict total order has a first element, ... *)
LEMMA FirstExists ==
  ASSUME NEW S, IsFiniteSet(S), S # {}, NEW R,
         \A x, y \in S : x # y => <<x, y>> \in R \/ <<y, x>> \in R,
         \A x, y, z \in S : <<x, y>> \in R /\ <<y, z>> \in R => <<x, z>> \in R
  PROVE  \E x \in S : \A y \in S \ {x} : <<x, y>> \in R
<1>. DEFINE Has(T) == \E x \in T : \A y \in T \ {x} : <<x, y>> \in R
            F == {T \in SUBSET S : T # {} => Has(T)}
<1>1. ASSUME NEW T \in SUBSET S, \A U \in SUBSET T : U # T => U \in F
      PROVE  T \in F
  <2>. SUFFICES ASSUME T # {}  PROVE Has(T)
    OBVIOUS
  <2>1. PICK a \in T : TRUE
    OBVIOUS
  <2>. DEFINE U == T \ {a}
  <2>2. CASE U = {}
    BY <2>1, <2>2
  <2>3. CASE U # {}
    <3>1. U \in SUBSET T /\ U # T
      BY <2>1
    <3>2. U \in F
      <4>. HIDE DEF F, U
      <4>. QED  BY <1>1, <3>1
    <3>3. PICK x \in U : \A y \in U \ {x} : <<x, y>> \in R
      BY <2>3, <3>2
    <3>4. CASE <<x, a>> \in R
      BY <3>3, <3>4
    <3>5. CASE <<a, x>> \in R
      <4>1. \A y \in T \ {a} : <<a, y>> \in R
        BY <2>1, <3>3, <3>5
      <4>. QED  BY <2>1, <4>1
    <3>. QED  BY <2>1, <3>3, <3>4, <3>5
  <2>. QED  BY <2>2, <2>3
<1>. HIDE DEF F
<1>2. S \in F
  BY <1>1, SubsetInduction
<1>. QED  BY <1>2 DEF F

(* ... so a finite set of integers has a least element, ... *)
LEMMA MinIsLeast ==
  ASSUME NEW S \in SUBSET Int, IsFiniteSet(S), S # {}
  PROVE  Min(S) \in S /\ \A y \in S : Min(S) <= y
<1>. DEFINE R == {p \in S \X S : p[1] < p[2]}
<1>1. \A x, y \in S : x # y => <<x, y>> \in R \/ <<y, x>> \in R
  OBVIOUS
<1>2. \A x, y, z \in S : <<x, y>> \in R /\ <<y, z>> \in R => <<x, z>> \in R
  OBVIOUS
<1>3. \E x \in S : \A y \in S \ {x} : <<x, y>> \in R
  <2>. HIDE DEF R
  <2>. QED  BY <1>1, <1>2, FirstExists
<1>4. \E x \in S : \A y \in S : x <= y
  <2>1. PICK x \in S : \A y \in S \ {x} : <<x, y>> \in R
    BY <1>3
  <2>2. ASSUME NEW y \in S  PROVE x <= y
    <3>1. CASE y = x
      BY <3>1
    <3>2. CASE y # x
      <4>1. <<x, y>> \in R
        BY <2>1, <3>2
      <4>. QED  BY <4>1
    <3>. QED  BY <3>1, <3>2
  <2>. QED  BY <2>2
<1>. QED  BY <1>4 DEF Min

(* ... an integer function on a finite set has a maximum, ... *)
LEMMA MaximumExists ==
  ASSUME NEW S \in SUBSET Int, IsFiniteSet(S), S # {}, NEW f,
         \A x \in S : f[x] \in Int
  PROVE  \E x \in S : \A y \in S : f[y] <= f[x]
<1>. DEFINE R == {p \in S \X S : \/ f[p[1]] > f[p[2]]
                                 \/ f[p[1]] = f[p[2]] /\ p[1] < p[2]}
<1>1. \A x, y \in S : x # y => <<x, y>> \in R \/ <<y, x>> \in R
  OBVIOUS
<1>2. \A x, y, z \in S : <<x, y>> \in R /\ <<y, z>> \in R => <<x, z>> \in R
  OBVIOUS
<1>3. \E x \in S : \A y \in S \ {x} : <<x, y>> \in R
  <2>. HIDE DEF R
  <2>. QED  BY <1>1, <1>2, FirstExists
<1>4. PICK x \in S : \A y \in S \ {x} : <<x, y>> \in R
  BY <1>3
<1>5. ASSUME NEW y \in S  PROVE f[y] <= f[x]
  <2>1. CASE y = x
    BY <2>1
  <2>2. CASE y # x
    <3>1. <<x, y>> \in R
      BY <1>4, <2>2
    <3>. QED  BY <3>1
  <2>. QED  BY <2>1, <2>2
<1>. QED  BY <1>5

(* ... and a finite set of ranked channels has a first one.                *)
Keys(key) ==
  \A c \in DOMAIN key : {key[c].class, key[c].score, key[c].priority} \subseteq Int

LEMMA FirstInIsFirst ==
  ASSUME NEW key, NEW S, DOMAIN key \subseteq Nat \ {None}, Keys(key),
         IsFiniteSet(DOMAIN key)
  PROVE  /\ FirstIn(key, S) = None <=> S \cap DOMAIN key = {}
         /\ FirstIn(key, S) # None =>
              /\ FirstIn(key, S) \in S \cap DOMAIN key
              /\ \A d \in (S \cap DOMAIN key) \ {FirstIn(key, S)} :
                   Before(key, FirstIn(key, S), d)
<1>. DEFINE T == S \cap DOMAIN key
            R == {p \in T \X T : Before(key, p[1], p[2])}
<1>0. /\ T \subseteq Nat \ {None} /\ T \subseteq DOMAIN key
      /\ \A c \in T : /\ key[c].class \in Int /\ key[c].score \in Int
                      /\ key[c].priority \in Int
  BY DEF Keys
<1>1. \A x, y \in T : x # y => <<x, y>> \in R \/ <<y, x>> \in R
  <2>. SUFFICES ASSUME NEW x \in T, NEW y \in T, x # y
                PROVE  Before(key, x, y) \/ Before(key, y, x)
    OBVIOUS
  <2>. HIDE DEF T
  <2>. QED  BY <1>0 DEF Before
<1>2. \A x, y, z \in T : <<x, y>> \in R /\ <<y, z>> \in R => <<x, z>> \in R
  <2>. SUFFICES ASSUME NEW x \in T, NEW y \in T, NEW z \in T,
                       Before(key, x, y), Before(key, y, z)
                PROVE  Before(key, x, z)
    OBVIOUS
  <2>. HIDE DEF T
  <2>. QED  BY <1>0 DEF Before
<1>3. ASSUME T # {}
      PROVE  \E x \in T : \A d \in T \ {x} : Before(key, x, d)
  <2>1. IsFiniteSet(T)
    BY FS_Subset
  <2>2. \E x \in T : \A y \in T \ {x} : <<x, y>> \in R
    <3>. HIDE DEF R, T
    <3>. QED  BY <1>1, <1>2, <1>3, <2>1, FirstExists
  <2>. QED  BY <2>2
<1>4. FirstIn(key, S) = IF T = {} THEN None
        ELSE CHOOSE c \in T : \A d \in T \ {c} : Before(key, c, d)
  BY DEF FirstIn
<1>5. ASSUME T # {}
      PROVE  /\ FirstIn(key, S) \in T
             /\ \A d \in T \ {FirstIn(key, S)} : Before(key, FirstIn(key, S), d)
  <2>. HIDE DEF T
  <2>. QED  BY <1>3, <1>4, <1>5
<1>. QED  BY <1>0, <1>4, <1>5

-----------------------------------------------------------------------------
(* The operators of Routing.                                               *)

(* The selected worker has everything that is required, and there is one   *)
(* if any enabled worker has.                                              *)
LEMMA SelectedWorkerIsAble ==
  ASSUME NEW workers, IsFiniteSet(DOMAIN workers),
         DOMAIN workers \subseteq Nat \ {None},
         \A w \in DOMAIN workers : workers[w].priority \in Int, NEW required
  PROVE  LET selected == SelectWorker(workers, required) IN
         /\ selected # None =>
              /\ selected \in DOMAIN workers
              /\ required \subseteq workers[selected].capabilities
         /\ selected = None =>
              \A w \in DOMAIN workers :
                workers[w].enabled => ~(required \subseteq workers[w].capabilities)
<1>. DEFINE able == {w \in DOMAIN workers :
                       workers[w].enabled /\ required \subseteq workers[w].capabilities}
            best == {w \in able : \A v \in able :
                       workers[v].priority <= workers[w].priority}
            f == [w \in able |-> workers[w].priority]
<1>1. SelectWorker(workers, required) = IF able = {} THEN None ELSE Min(best)
  BY DEF SelectWorker
<1>2. /\ able \in SUBSET Int /\ IsFiniteSet(able) /\ able \subseteq DOMAIN workers
      /\ \A w \in able : f[w] \in Int
  BY FS_Subset
<1>3. ASSUME able # {}
      PROVE  Min(best) \in best
  <2>1. \E w \in able : \A v \in able : f[v] <= f[w]
    <3>. HIDE DEF able, f
    <3>. QED  BY <1>2, <1>3, MaximumExists
  <2>2. best # {}
    BY <2>1
  <2>3. best \in SUBSET Int /\ IsFiniteSet(best)
    BY <1>2, FS_Subset
  <2>. HIDE DEF best
  <2>. QED  BY <2>2, <2>3, MinIsLeast
<1>4. None \notin best /\ best \subseteq able
  OBVIOUS
<1>5. CASE able = {}
  BY <1>1, <1>5
<1>6. CASE able # {}
  <2>1. SelectWorker(workers, required) \in able
    BY <1>1, <1>3, <1>4, <1>6
  <2>2. SelectWorker(workers, required) # None
    BY <1>1, <1>3, <1>4, <1>6
  <2>. QED  BY <2>1, <2>2
<1>. QED  BY <1>5, <1>6

LEMMA Products == \A x, y \in Int : x * y \in Int
OBVIOUS

(* A score is what does not depend on the channel in use, and the penalty. *)
HasBaseScore(cfg, channel, health, mode, worker) ==
  \E base \in Int : \A moved \in BOOLEAN :
    Score(cfg, channel, health, mode, worker, moved) =
      base + (IF moved THEN 10 * cfg.weights.handoff_penalty ELSE 0)

LEMMA ScoreIsBaseAndPenalty ==
  ASSUME NEW cfg, FieldsAreTyped(cfg), NEW c \in DOMAIN cfg.channels,
         NEW health \in Healths \ {"UNAVAILABLE", "RATE_LIMITED"},
         NEW mode, NEW worker
  PROVE  HasBaseScore(cfg, cfg.channels[c], health, mode, worker)
<1>. DEFINE channel == cfg.channels[c]
            w == cfg.weights
            given == Metric(channel, "reliability", HealthScore[health])
            fit == 10 * w.capability_fit
            bonus == IF channel.class = "subscription"
                     THEN 10 * w.subscription_bonus ELSE 0
            good == w.quality * Metric(channel, "quality",
                                       IF mode = "MAX_QUALITY" THEN 8 ELSE 7)
            reliable == w.reliability * Min({given, HealthScore[health]})
            affine == w.worker_affinity * Affinity(channel, worker)
            paid == w.monetary_cost * MonetaryCost[channel.class]
            tokens == w.token_cost * Metric(channel, "token_cost", 0)
            slow == w.latency * Metric(channel, "latency", 0)
            base == fit + bonus + good + reliable + affine + paid + tokens + slow
<1>1. /\ channel.class \in Classes
      /\ w.subscription_bonus \in Int /\ w.reliability \in Int
      /\ w.worker_affinity \in Int /\ w.monetary_cost \in Int
      /\ w.capability_fit \in Int /\ w.quality \in Int
      /\ w.token_cost \in Int /\ w.latency \in Int
  BY DEF FieldsAreTyped
<1>2. HealthScore[health] \in Int
  BY DEF HealthScore, Healths
<1>3. MonetaryCost[channel.class] \in Int
  BY <1>1 DEF MonetaryCost, Classes
<1>4. Affinity(channel, worker) \in Int
  BY DEF Affinity
<1>5. ASSUME NEW name, NEW default \in Int
      PROVE  Metric(channel, name, default) \in Int
  BY DEF FieldsAreTyped, Metric
<1>6. /\ given \in Int
      /\ Metric(channel, "quality", IF mode = "MAX_QUALITY" THEN 8 ELSE 7) \in Int
      /\ Metric(channel, "token_cost", 0) \in Int
      /\ Metric(channel, "latency", 0) \in Int
  <2>. HIDE DEF channel
  <2>. QED  BY <1>2, <1>5
<1>. HIDE DEF w, channel, given
<1>7. Min({given, HealthScore[health]}) \in Int
  <2>. DEFINE both == {given, HealthScore[health]}
  <2>1. both \in SUBSET Int /\ both # {} /\ IsFiniteSet(both)
    <3>1. IsFiniteSet({given})
      BY FS_Singleton
    <3>2. IsFiniteSet({given} \cup {HealthScore[health]})
      BY <3>1, FS_AddElement
    <3>3. both = {given} \cup {HealthScore[health]}
      OBVIOUS
    <3>. QED  BY <1>2, <1>6, <3>2, <3>3
  <2>2. Min(both) \in both
    <3>. HIDE DEF both
    <3>. QED  BY <2>1, MinIsLeast
  <2>. QED  BY <2>1, <2>2
<1>8. /\ reliable \in Int /\ affine \in Int /\ paid \in Int
      /\ good \in Int /\ tokens \in Int /\ slow \in Int
  BY <1>1, <1>3, <1>4, <1>6, <1>7, Products
<1>9. fit \in Int /\ bonus \in Int
  BY <1>1
<1>10. \A moved \in BOOLEAN :
        Score(cfg, channel, health, mode, worker, moved) =
          base + (IF moved THEN 10 * w.handoff_penalty ELSE 0)
  BY DEF Score, w, given
<1>. HIDE DEF fit, bonus, good, reliable, affine, paid, tokens, slow
<1>11. base \in Int
  BY <1>8, <1>9
<1>. HIDE DEF base
<1>. QED  BY <1>10, <1>11 DEF w, channel, HasBaseScore

(* What the router is called with. *)
Known(cfg, known, health) ==
  /\ cfg \in Configs
  /\ DOMAIN known \subseteq DOMAIN cfg.channels
  /\ \A c \in DOMAIN known : known[c] = cfg.channels[c] /\ health[c] \in Healths

(* The ranked channels are the eligible ones, with integer keys. *)
IsRanking(ranked, cfg, known, health, mode, worker, current) ==
  /\ DOMAIN ranked = {c \in DOMAIN known : Eligible(cfg, known, health, mode, c)}
  /\ DOMAIN ranked \subseteq Nat \ {None}
  /\ IsFiniteSet(DOMAIN ranked)
  /\ Keys(ranked)
  /\ \A c \in DOMAIN ranked :
       /\ ranked[c].class = cfg.classPriority[known[c].class]
       /\ ranked[c].priority = known[c].priority
       /\ ranked[c].score =
            Score(cfg, known[c], health[c], mode, worker, Moved(current, c))

LEMMA RankedIsKeyed ==
  ASSUME NEW cfg, NEW known, NEW health, Known(cfg, known, health),
         NEW mode, NEW worker, NEW current
  PROVE  IsRanking(Ranked(cfg, known, health, mode, worker, current),
                   cfg, known, health, mode, worker, current)
<1>. DEFINE ranked == Ranked(cfg, known, health, mode, worker, current)
            E == {c \in DOMAIN known : Eligible(cfg, known, health, mode, c)}
<1>1. FieldsAreTyped(cfg) /\ DOMAIN cfg.classPriority = Classes
  BY ConfigsAreValid DEF Known, CompleteRouting
<1>2. DOMAIN ranked = E /\ E \subseteq DOMAIN cfg.channels
  BY DEF Ranked, Known
<1>3. IsFiniteSet(DOMAIN ranked) /\ DOMAIN ranked \subseteq Nat \ {None}
  BY <1>1, <1>2, FS_Subset DEF FieldsAreTyped
<1>4. ASSUME NEW c \in DOMAIN ranked
      PROVE  /\ ranked[c].class = cfg.classPriority[known[c].class]
             /\ ranked[c].priority = known[c].priority
             /\ ranked[c].score =
                  Score(cfg, known[c], health[c], mode, worker, Moved(current, c))
  BY <1>2, <1>4 DEF Ranked
<1>5. ASSUME NEW c \in DOMAIN ranked
      PROVE  {ranked[c].class, ranked[c].score, ranked[c].priority} \subseteq Int
  <2>1. /\ c \in DOMAIN cfg.channels /\ known[c] = cfg.channels[c]
        /\ health[c] \in Healths \ {"UNAVAILABLE", "RATE_LIMITED"}
    BY <1>2, <1>5 DEF Known, Eligible
  <2>2. /\ known[c].class \in Classes /\ known[c].priority \in Int
        /\ cfg.weights.handoff_penalty \in Int
    BY <1>1, <2>1 DEF FieldsAreTyped
  <2>3. cfg.classPriority[known[c].class] \in Int
    BY <1>1, <2>2 DEF FieldsAreTyped
  <2>4. Moved(current, c) \in BOOLEAN
    BY DEF Moved
  <2>5. Score(cfg, known[c], health[c], mode, worker, Moved(current, c)) \in Int
    <3>. DEFINE h == health[c]
    <3>1. h \in Healths \ {"UNAVAILABLE", "RATE_LIMITED"}
      BY <2>1
    <3>2. HasBaseScore(cfg, cfg.channels[c], h, mode, worker)
      <4>. HIDE DEF h
      <4>. QED  BY <1>1, <2>1, <3>1, ScoreIsBaseAndPenalty
    <3>. QED  BY <2>1, <2>2, <2>4, <3>2 DEF HasBaseScore
  <2>. QED  BY <1>4, <2>2, <2>3, <2>5
<1>. HIDE DEF ranked
<1>6. Keys(ranked)
  BY <1>5 DEF Keys
<1>. QED  BY <1>2, <1>3, <1>4, <1>6 DEF ranked, IsRanking

(* The choice from a ranking without bad metrics. *)
Pick(cfg, known, health, task, worker, current) ==
  Select(cfg, known, Ranked(cfg, known, health, task.mode, worker, current),
         task.preference)

(* The channels among the known ones that a preference allows. *)
Allowed(cfg, known, preference) ==
  {c \in DOMAIN known :
     \/ preference = "auto"
     \/ cfg.allowCrossProvider
     \/ /\ preference \in DOMAIN cfg.subscriptions
        /\ cfg.subscriptions[preference].preferred \in DOMAIN known
        /\ known[c].provider =
             known[cfg.subscriptions[preference].preferred].provider}

(* What is picked is eligible, the first of its kind, and of the preferred *)
(* provider if it has to be; nothing is picked only if nothing that is     *)
(* eligible is allowed.                                                    *)
LEMMA PickIsJustified ==
  ASSUME NEW cfg, NEW known, NEW health, Known(cfg, known, health),
         NEW task, NEW worker, NEW current
  PROVE  LET chosen == Pick(cfg, known, health, task, worker, current)
             eligible == {c \in DOMAIN known :
                            Eligible(cfg, known, health, task.mode, c)}
             bound == task.preference # "auto" /\ ~cfg.allowCrossProvider
         IN /\ chosen = None =>
                 eligible \cap Allowed(cfg, known, task.preference) = {}
            /\ chosen # None =>
                 /\ chosen \in eligible
                 /\ task.preference = "auto" =>
                      \A c \in eligible :
                        cfg.classPriority[known[c].class]
                          <= cfg.classPriority[known[chosen].class]
                 /\ bound =>
                      known[chosen].provider =
                        cfg.channels[cfg.subscriptions[task.preference].preferred].provider
<1>. DEFINE ranked == Ranked(cfg, known, health, task.mode, worker, current)
            chosen == Pick(cfg, known, health, task, worker, current)
            eligible == {c \in DOMAIN known :
                           Eligible(cfg, known, health, task.mode, c)}
            bound == task.preference # "auto" /\ ~cfg.allowCrossProvider
            preferred == IF task.preference \in DOMAIN cfg.subscriptions
                         THEN cfg.subscriptions[task.preference].preferred ELSE None
            sameProvider == {c \in DOMAIN known :
                               preferred \in DOMAIN known
                               /\ known[c].provider = known[preferred].provider}
            candidates == IF bound THEN sameProvider ELSE DOMAIN ranked
<1>1. /\ DOMAIN ranked = eligible /\ DOMAIN ranked \subseteq Nat \ {None}
      /\ IsFiniteSet(DOMAIN ranked) /\ Keys(ranked)
      /\ \A c \in DOMAIN ranked :
           ranked[c].class = cfg.classPriority[known[c].class]
  <2>. DEFINE mode == task.mode
  <2>1. IsRanking(ranked, cfg, known, health, mode, worker, current)
    <3>. HIDE DEF mode
    <3>. QED  BY RankedIsKeyed DEF mode
  <2>. HIDE DEF ranked
  <2>. QED  BY <2>1 DEF IsRanking
<1>2. chosen = IF task.preference # "auto" /\ preferred \in DOMAIN ranked
               THEN preferred ELSE FirstIn(ranked, candidates)
  BY DEF Pick, Select
<1>3. /\ FirstIn(ranked, candidates) = None <=> candidates \cap DOMAIN ranked = {}
      /\ FirstIn(ranked, candidates) # None =>
           /\ FirstIn(ranked, candidates) \in candidates \cap DOMAIN ranked
           /\ \A d \in (candidates \cap DOMAIN ranked) \ {FirstIn(ranked, candidates)} :
                Before(ranked, FirstIn(ranked, candidates), d)
  <2>. HIDE DEF ranked, candidates
  <2>. QED  BY <1>1, FirstInIsFirst
<1>4. /\ 0 \notin DOMAIN known
      /\ \A c \in DOMAIN known : known[c] = cfg.channels[c]
  BY ConfigsAreValid DEF Known, FieldsAreTyped, None
<1>. HIDE DEF ranked, chosen, eligible
<1>5. ASSUME chosen = None
      PROVE  eligible \cap Allowed(cfg, known, task.preference) = {}
  <2>1. candidates \cap DOMAIN ranked = {}
    <3>1. preferred \notin DOMAIN ranked \/ preferred # None
      BY <1>1
    <3>. QED  BY <1>2, <1>3, <1>5, <3>1
  <2>2. CASE ~bound
    BY <1>1, <2>1, <2>2
  <2>3. CASE bound
    BY <1>1, <2>1, <2>3 DEF Allowed
  <2>. QED  BY <2>2, <2>3
<1>6. ASSUME chosen # None PROVE chosen \in eligible
  BY <1>1, <1>2, <1>3, <1>6
<1>7. ASSUME chosen # None, task.preference = "auto", NEW c \in eligible
      PROVE  cfg.classPriority[known[c].class]
               <= cfg.classPriority[known[chosen].class]
  <2>1. chosen = FirstIn(ranked, candidates) /\ candidates = eligible
    BY <1>1, <1>2, <1>7
  <2>2. c = chosen \/ Before(ranked, chosen, c)
    BY <1>1, <1>3, <1>7, <2>1
  <2>3. ranked[c].class \in Int /\ ranked[chosen].class \in Int
    BY <1>1, <1>6, <1>7 DEF Keys
  <2>4. ranked[c].class <= ranked[chosen].class
    BY <2>2, <2>3 DEF Before
  <2>. QED  BY <1>1, <1>6, <1>7, <2>4
<1>8. ASSUME chosen # None, bound
      PROVE  known[chosen].provider =
               cfg.channels[cfg.subscriptions[task.preference].preferred].provider
  <2>1. preferred \in DOMAIN known /\ known[chosen].provider = known[preferred].provider
    BY <1>1, <1>2, <1>3, <1>8 DEF eligible
  <2>2. preferred # None
    BY <1>4, <2>1 DEF None
  <2>. QED  BY <1>4, <2>1, <2>2
<1>. QED  BY <1>5, <1>6, <1>7, <1>8 DEF chosen, eligible

(* Whatever the router gives has been picked, and it gives nothing only if *)
(* nothing that is eligible is allowed, or one has a bad metric.           *)
LEMMA ResolvedIsJustified ==
  ASSUME NEW cfg, NEW known, NEW health, Known(cfg, known, health),
         NEW task, NEW worker, NEW current
  PROVE  LET chosen == Resolve(cfg, known, health, task, worker, current)
             eligible == {c \in DOMAIN known :
                            Eligible(cfg, known, health, task.mode, c)}
             bound == task.preference # "auto" /\ ~cfg.allowCrossProvider
         IN /\ chosen = None =>
                 \/ eligible \cap Allowed(cfg, known, task.preference) = {}
                 \/ \E c \in eligible : ~known[c].finite
            /\ chosen # None =>
                 /\ chosen \in eligible
                 /\ task.preference = "auto" =>
                      \A c \in eligible :
                        cfg.classPriority[known[c].class]
                          <= cfg.classPriority[known[chosen].class]
                 /\ bound =>
                      known[chosen].provider =
                        cfg.channels[cfg.subscriptions[task.preference].preferred].provider
<1>. DEFINE chosen == Resolve(cfg, known, health, task, worker, current)
<1>1. CASE Scorable(cfg, known, health, task.mode)
  <2>1. chosen = Pick(cfg, known, health, task, worker, current)
    BY <1>1 DEF Resolve, Pick
  <2>. HIDE DEF chosen
  <2>. QED  BY <2>1, PickIsJustified DEF chosen
<1>2. CASE ~Scorable(cfg, known, health, task.mode)
  <2>1. chosen = None
    BY <1>2 DEF Resolve
  <2>2. \E c \in DOMAIN known :
          Eligible(cfg, known, health, task.mode, c) /\ ~known[c].finite
    BY <1>2 DEF Scorable
  <2>. HIDE DEF chosen
  <2>. QED  BY <2>1, <2>2 DEF chosen
<1>. QED  BY <1>1, <1>2

(* Picked once, a channel that is then in use is picked again, since a     *)
(* handoff is no advantage.                                                *)
LEMMA PickedAgainIsSame ==
  ASSUME NEW cfg, NEW known, NEW health, Known(cfg, known, health),
         cfg.weights.handoff_penalty <= 0,
         NEW task, NEW worker, NEW current,
         Pick(cfg, known, health, task, worker, current) # None
  PROVE  LET chosen == Pick(cfg, known, health, task, worker, current)
         IN Pick(cfg, known, health, task, worker, chosen) = chosen
<1>. DEFINE chosen == Pick(cfg, known, health, task, worker, current)
            ranked == Ranked(cfg, known, health, task.mode, worker, current)
            again == Ranked(cfg, known, health, task.mode, worker, chosen)
            bound == task.preference # "auto" /\ ~cfg.allowCrossProvider
            preferred == IF task.preference \in DOMAIN cfg.subscriptions
                         THEN cfg.subscriptions[task.preference].preferred ELSE None
            sameProvider == {c \in DOMAIN known :
                               preferred \in DOMAIN known
                               /\ known[c].provider = known[preferred].provider}
            same == Pick(cfg, known, health, task, worker, chosen) = chosen
            candidates(keys) == IF bound THEN sameProvider ELSE DOMAIN keys
<1>1. /\ DOMAIN again = DOMAIN ranked /\ DOMAIN ranked \subseteq Nat \ {None}
      /\ DOMAIN ranked \subseteq DOMAIN known
      /\ \A c \in DOMAIN ranked : Eligible(cfg, known, health, task.mode, c)
      /\ IsFiniteSet(DOMAIN ranked) /\ Keys(ranked) /\ Keys(again)
      /\ \A c \in DOMAIN ranked :
           /\ ranked[c].class = again[c].class
           /\ ranked[c].priority = again[c].priority
           /\ ranked[c].score =
                Score(cfg, known[c], health[c], task.mode, worker, Moved(current, c))
           /\ again[c].score =
                Score(cfg, known[c], health[c], task.mode, worker, Moved(chosen, c))
  <2>. DEFINE mode == task.mode
  <2>. HIDE DEF mode, chosen
  <2>1. IsRanking(ranked, cfg, known, health, mode, worker, current)
    BY RankedIsKeyed DEF mode
  <2>2. IsRanking(again, cfg, known, health, mode, worker, chosen)
    BY RankedIsKeyed DEF mode
  <2>. HIDE DEF ranked, again
  <2>. QED  BY <2>1, <2>2 DEF IsRanking, mode
<1>2. /\ chosen = IF task.preference # "auto" /\ preferred \in DOMAIN ranked
                  THEN preferred ELSE FirstIn(ranked, candidates(ranked))
      /\ Pick(cfg, known, health, task, worker, chosen) =
           IF task.preference # "auto" /\ preferred \in DOMAIN again
           THEN preferred ELSE FirstIn(again, candidates(again))
  BY DEF Pick, Select
<1>. SUFFICES same
  OBVIOUS
<1>. HIDE DEF ranked, again, chosen
<1>3. CASE task.preference # "auto" /\ preferred \in DOMAIN ranked
  <2>. HIDE DEF candidates, preferred
  <2>. QED  BY <1>1, <1>2, <1>3
<1>4. CASE ~(task.preference # "auto" /\ preferred \in DOMAIN ranked)
  <2>. DEFINE S == candidates(ranked) \cap DOMAIN ranked
              first == FirstIn(again, candidates(ranked))
  <2>1. /\ chosen = FirstIn(ranked, candidates(ranked)) /\ chosen # None
        /\ candidates(again) = candidates(ranked)
        /\ Pick(cfg, known, health, task, worker, chosen) = first
    BY <1>1, <1>2, <1>4 DEF chosen
  <2>2. chosen \in S /\ \A d \in S \ {chosen} : Before(ranked, chosen, d)
    <3>. HIDE DEF candidates
    <3>. QED  BY <1>1, <2>1, FirstInIsFirst
  <2>3. /\ first # None /\ first \in S
        /\ \A d \in S \ {first} : Before(again, first, d)
    <3>. HIDE DEF candidates
    <3>. QED  BY <1>1, <2>2, FirstInIsFirst
  <2>4. ASSUME NEW c \in DOMAIN ranked
        PROVE  /\ c = chosen => again[c].score >= ranked[c].score
               /\ c # chosen => again[c].score <= ranked[c].score
    <3>. DEFINE h == health[c]
                mode == task.mode
    <3>1. /\ c \in DOMAIN cfg.channels /\ known[c] = cfg.channels[c]
          /\ h \in Healths \ {"UNAVAILABLE", "RATE_LIMITED"}
          /\ FieldsAreTyped(cfg)
      BY <1>1, ConfigsAreValid DEF Known, Eligible
    <3>2. HasBaseScore(cfg, cfg.channels[c], h, mode, worker)
      <4>. HIDE DEF h, mode
      <4>. QED  BY <3>1, ScoreIsBaseAndPenalty
    <3>3. cfg.weights.handoff_penalty \in Int
      BY <3>1 DEF FieldsAreTyped
    <3>4. /\ Moved(current, c) \in BOOLEAN
          /\ Moved(chosen, c) = (c # chosen)
      BY <2>1 DEF Moved
    <3>5. PICK base \in Int : \A moved \in BOOLEAN :
            Score(cfg, cfg.channels[c], h, mode, worker, moved) =
              base + (IF moved THEN 10 * cfg.weights.handoff_penalty ELSE 0)
      BY <3>2 DEF HasBaseScore
    <3>6. /\ ranked[c].score = base + (IF Moved(current, c)
                                 THEN 10 * cfg.weights.handoff_penalty ELSE 0)
          /\ again[c].score = base + (IF c # chosen
                                 THEN 10 * cfg.weights.handoff_penalty ELSE 0)
      BY <1>1, <2>4, <3>1, <3>4, <3>5
    <3>. QED  BY <3>3, <3>4, <3>5, <3>6
  <2>5. ASSUME first # chosen PROVE FALSE
    <3>1. /\ first \in DOMAIN ranked /\ chosen \in DOMAIN ranked
          /\ Before(ranked, chosen, first) /\ Before(again, first, chosen)
      BY <2>2, <2>3, <2>5
    <3>2. \A c \in {first, chosen} :
            /\ ranked[c].class \in Int /\ ranked[c].score \in Int
            /\ ranked[c].priority \in Int /\ again[c].score \in Int
            /\ ranked[c].class = again[c].class
            /\ ranked[c].priority = again[c].priority
            /\ c \in Nat
      <4>. HIDE DEF first
      <4>. QED  BY <1>1, <3>1 DEF Keys
    <3>3. /\ again[chosen].score >= ranked[chosen].score
          /\ again[first].score <= ranked[first].score
      BY <2>4, <2>5, <3>1
    <3>4. \/ ranked[chosen].score > ranked[first].score
          \/ /\ ranked[chosen].score = ranked[first].score
             /\ \/ ranked[chosen].priority > ranked[first].priority
                \/ /\ ranked[chosen].priority = ranked[first].priority
                   /\ chosen < first
      <4>. HIDE DEF first
      <4>. QED  BY <3>1, <3>2 DEF Before
    <3>. HIDE DEF first
    <3>. QED  BY <3>1, <3>2, <3>3, <3>4 DEF Before
  <2>. QED  BY <2>1, <2>5
<1>. QED  BY <1>3, <1>4

(* The same of the router. *)
LEMMA ResolvedAgainIsSame ==
  ASSUME NEW cfg, NEW known, NEW health, Known(cfg, known, health),
         cfg.weights.handoff_penalty <= 0,
         NEW task, NEW worker, NEW current,
         Resolve(cfg, known, health, task, worker, current) # None
  PROVE  LET chosen == Resolve(cfg, known, health, task, worker, current)
         IN Resolve(cfg, known, health, task, worker, chosen) = chosen
<1>1. Scorable(cfg, known, health, task.mode)
  BY DEF Resolve
<1>2. \A c : Resolve(cfg, known, health, task, worker, c)
              = Pick(cfg, known, health, task, worker, c)
  BY <1>1 DEF Resolve, Pick
<1>. DEFINE chosen == Pick(cfg, known, health, task, worker, current)
<1>3. chosen # None
  BY <1>2
<1>4. Pick(cfg, known, health, task, worker, chosen) = chosen
  BY <1>3, PickedAgainIsSame
<1>. HIDE DEF chosen
<1>. QED  BY <1>2, <1>4 DEF chosen

-----------------------------------------------------------------------------
(* The inductive invariant.                                                *)

Worker == SelectWorker(config.workers, config.required)

(* The router has read the channels that are not left, and what it read of *)
(* a row is what the row says of that time, unless it was written since.   *)
QueryHasRead ==
  query.pc = "reading" =>
    /\ DOMAIN query.seen = Ids \ query.left
    /\ \A c \in DOMAIN query.seen \ query.changed :
         query.seen[c] = EffectiveHealth(c, query.at)

(* The last choice is what the router gives for healths that were read in  *)
(* the same way and some channel in use, and it is the one in use now.     *)
AnswerIsChosen ==
  last.channel # None =>
    \E health \in [Ids -> Healths], current \in {None} \cup Ids :
      /\ \A c \in Ids \ last.changed : health[c] = EffectiveHealth(c, last.at)
      /\ last.channel = Resolve(config, channels, health, last.task, Worker, current)
      /\ last.current = last.channel

(* No request has read a clock that is ahead. *)
ClocksAreRead == query.at <= now /\ last.at <= now

(* execute() is allowed to run and has an able worker before it probes,    *)
(* and what it has probed it may use.                                      *)
ProbesAreSound ==
  /\ job.pc \in {"probing", "admitted"} =>
       /\ Permitted(config, job.level)
       /\ job.worker \in DOMAIN config.workers
       /\ config.required \subseteq config.workers[job.worker].capabilities
  /\ \A c \in DOMAIN job.seen : Probed(c) /\ Bindable(job.level, c)
  /\ job.pc = "admitted" => job.channel \in DOMAIN job.seen

(* It refuses for a reason. *)
RefusalIsSound == job.pc = "refused" => RefusedForAReason

RouterInv == QueryHasRead /\ AnswerIsChosen /\ ClocksAreRead
JobInv == ProbesAreSound /\ RefusalIsSound
Inv == config \in Configs /\ TypeOK /\ RouterInv /\ JobInv

(* The configuration is one of the schema. *)
LEMMA ConfigIsValid ==
  config \in Configs =>
    /\ FieldsAreTyped(config) /\ CompleteRouting(config)
    /\ Ids \subseteq Nat \ {None}
    /\ None \notin Ids
BY ConfigsAreValid DEF FieldsAreTyped, Ids, channels

(* What is read of a row is a health. *)
LEMMA HealthIsTyped ==
  ASSUME config \in Configs, TypeOK, NEW c \in Ids, NEW t
  PROVE  EffectiveHealth(c, t) \in Healths
<1>1. channels[c].health \in Healths
  BY ConfigIsValid DEF FieldsAreTyped, Ids, channels
<1>2. rows[c].health \in Healths
  BY DEF TypeOK
<1>. QED  BY <1>1, <1>2 DEF EffectiveHealth, Healths

(* The router is called with channels and healths of the schema. *)
LEMMA HealthsAreKnown ==
  ASSUME config \in Configs, NEW health \in [Ids -> Healths]
  PROVE  Known(config, channels, health)
BY DEF Known, Ids, channels

(* The same of the probed channels. *)
LEMMA SeenIsKnown ==
  ASSUME config \in Configs, TypeOK
  PROVE  Known(config, [c \in DOMAIN job.seen |-> channels[c]], job.seen)
BY DEF TypeOK, IsReading, Known, Ids, channels

(* One more reading. *)
LEMMA ExtendedReading ==
  ASSUME NEW f, NEW S, IsReading(f, S), NEW c \in S, NEW value \in Healths
  PROVE  /\ IsReading(Extended(f, c, value), S)
         /\ DOMAIN Extended(f, c, value) = DOMAIN f \cup {c}
         /\ \A d \in DOMAIN f \cup {c} :
              Extended(f, c, value)[d] = IF d = c THEN value ELSE f[d]
BY DEF IsReading, Extended

-----------------------------------------------------------------------------
(* The steps of the router. *)

(* What execute() tells of a task is left alone by them. *)
LEMMA RouterKeeps ==
  ASSUME Inv, UNCHANGED <<config, job>>
  PROVE  JobInv'
<1>1. channels' = channels /\ Ids' = Ids /\ job' = job /\ config' = config
  BY DEF channels, Ids
<1>2. ProbesAreSound'
  BY <1>1 DEF Inv, JobInv, ProbesAreSound, Probed, Bindable, Permitted, WritesProject
<1>3. RefusalIsSound'
  BY <1>1 DEF Inv, JobInv, RefusalIsSound, RefusedForAReason, Usable, Acceptable,
     ComesNext, Permitted, WritesProject
<1>. QED  BY <1>2, <1>3 DEF JobInv

LEMMA UpsertKeeps ==
  ASSUME Inv, NEW c \in Ids, Upsert(c)  PROVE Inv'
<1>1. /\ UNCHANGED <<config, now, job>> /\ upserts' = upserts + 1
      /\ upserts < MaxUpserts
      /\ config' = config /\ channels' = channels /\ Ids' = Ids
      /\ query' = [query EXCEPT !.changed = @ \cup {c}]
      /\ last' = [last EXCEPT !.changed = @ \cup {c}]
  BY DEF Upsert, channels, Ids
<1>2. PICK h \in Healths, until \in -1..MaxTime :
        rows' = [rows EXCEPT ![c] = [health |-> h, until |-> until]]
  BY DEF Upsert
<1>3. /\ query'.pc = query.pc /\ query'.left = query.left
      /\ query'.seen = query.seen /\ query'.at = query.at
      /\ query'.changed = query.changed \cup {c}
  BY <1>1 DEF Inv, TypeOK
<1>4. /\ last'.channel = last.channel /\ last'.current = last.current
      /\ last'.task = last.task /\ last'.at = last.at
      /\ last'.changed = last.changed \cup {c}
  BY <1>1 DEF Inv, TypeOK
<1>5. ASSUME NEW d \in Ids \ {c}, NEW t
      PROVE  EffectiveHealth(d, t)' = EffectiveHealth(d, t)
  BY <1>1, <1>2, <1>5 DEF Inv, TypeOK, EffectiveHealth
<1>6. TypeOK'
  <2>1. rows' \in [Ids -> [health : Healths, until : -1..MaxTime]]
    BY <1>2 DEF Inv, TypeOK
  <2>2. upserts' \in 0..MaxUpserts
    BY <1>1, BoundsAreNaturals DEF Inv, TypeOK
  <2>3. query' \in [pc : {"idle", "reading"}, task : Tasks \cup {NoTask},
                    at : 0..MaxTime, left : SUBSET Ids, seen : {query.seen},
                    changed : SUBSET Ids]
    BY <1>1 DEF Inv, TypeOK
  <2>4. last' \in [task : Tasks \cup {NoTask}, channel : {None} \cup Ids,
                   current : {None} \cup Ids, at : 0..MaxTime, changed : SUBSET Ids]
    BY <1>1 DEF Inv, TypeOK
  <2>. QED  BY <1>1, <1>3, <2>1, <2>2, <2>3, <2>4 DEF Inv, TypeOK
<1>7. QueryHasRead'
  <2>. SUFFICES ASSUME query.pc = "reading"
                PROVE  /\ DOMAIN query.seen = Ids \ query.left
                       /\ \A d \in DOMAIN query.seen \ (query.changed \cup {c}) :
                            query.seen[d] = EffectiveHealth(d, query.at)'
    BY <1>1, <1>3 DEF QueryHasRead
  <2>1. DOMAIN query.seen = Ids \ query.left
    BY DEF Inv, RouterInv, QueryHasRead
  <2>2. ASSUME NEW d \in DOMAIN query.seen \ (query.changed \cup {c})
        PROVE  query.seen[d] = EffectiveHealth(d, query.at)'
    <3>1. d \in Ids \ {c} /\ query.seen[d] = EffectiveHealth(d, query.at)
      BY <2>1, <2>2 DEF Inv, RouterInv, QueryHasRead
    <3>2. EffectiveHealth(d, query.at)' = EffectiveHealth(d, query.at)
      BY <1>1, <1>2, <1>3, <3>1 DEF Inv, TypeOK, EffectiveHealth
    <3>. QED  BY <3>1, <3>2
  <2>. QED  BY <2>1, <2>2
<1>8. AnswerIsChosen'
  <2>. SUFFICES ASSUME last.channel # None  PROVE AnswerIsChosen'
    BY <1>4 DEF AnswerIsChosen
  <2>1. PICK health \in [Ids -> Healths], current \in {None} \cup Ids :
          /\ \A d \in Ids \ last.changed : health[d] = EffectiveHealth(d, last.at)
          /\ last.channel =
               Resolve(config, channels, health, last.task, Worker, current)
          /\ last.current = last.channel
    BY DEF Inv, RouterInv, AnswerIsChosen
  <2>2. ASSUME NEW d \in Ids \ (last.changed \cup {c})
        PROVE  health[d] = EffectiveHealth(d, last.at)'
    BY <1>1, <1>2, <1>4, <2>1, <2>2 DEF Inv, TypeOK, EffectiveHealth
  <2>3. Worker' = Worker
    BY <1>1 DEF Worker
  <2>4. last'.channel =
          Resolve(config', channels', health, last'.task, Worker', current)
    BY <1>1, <1>4, <2>1, <2>3
  <2>5. \A d \in Ids' \ last'.changed : health[d] = EffectiveHealth(d, last.at)'
    BY <1>1, <1>4, <2>2
  <2>. QED  BY <1>1, <1>4, <2>1, <2>4, <2>5 DEF AnswerIsChosen
<1>9. ClocksAreRead'
  BY <1>1, <1>3, <1>4 DEF Inv, RouterInv, ClocksAreRead
<1>. QED  BY <1>1, <1>6, <1>7, <1>8, <1>9, RouterKeeps DEF Inv, RouterInv

LEMMA TickKeeps ==
  ASSUME Inv, Tick  PROVE Inv'
<1>1. /\ UNCHANGED <<config, rows, upserts, query, last, job>> /\ now' = now + 1
      /\ now < MaxTime /\ config' = config /\ channels' = channels /\ Ids' = Ids
  BY DEF Tick, channels, Ids
<1>2. TypeOK'
  <2>1. now' \in 0..MaxTime
    BY <1>1, BoundsAreNaturals DEF Inv, TypeOK
  <2>. QED  BY <1>1, <2>1 DEF Inv, TypeOK
<1>3. QueryHasRead' /\ AnswerIsChosen'
  BY <1>1
  DEF Inv, RouterInv, QueryHasRead, AnswerIsChosen, EffectiveHealth, Worker
<1>4. ClocksAreRead'
  BY <1>1, BoundsAreNaturals DEF Inv, TypeOK, RouterInv, ClocksAreRead
<1>. QED  BY <1>1, <1>2, <1>3, <1>4, RouterKeeps DEF Inv, RouterInv

LEMMA AskKeeps ==
  ASSUME Inv, NEW task \in Tasks, Ask(task)  PROVE Inv'
<1>1. /\ UNCHANGED <<config, now, rows, upserts, last, job>>
      /\ config' = config /\ channels' = channels /\ Ids' = Ids
      /\ query' = [pc |-> "reading", task |-> task, at |-> now, left |-> Ids,
                   seen |-> << >>, changed |-> {}]
  BY DEF Ask, NewQuery, channels, Ids
<1>2. DOMAIN << >> = {} /\ IsReading(<< >>, Ids)
  <2>1. << >> \in [{} -> Healths]
    OBVIOUS
  <2>. QED  BY <2>1 DEF IsReading
<1>3. TypeOK'
  BY <1>1, <1>2 DEF Inv, TypeOK
<1>4. QueryHasRead'
  BY <1>1, <1>2 DEF QueryHasRead
<1>5. AnswerIsChosen'
  BY <1>1 DEF Inv, RouterInv, AnswerIsChosen, EffectiveHealth, Worker
<1>6. ClocksAreRead'
  BY <1>1 DEF Inv, TypeOK, RouterInv, ClocksAreRead
<1>. QED  BY <1>1, <1>3, <1>4, <1>5, <1>6, RouterKeeps DEF Inv, RouterInv

LEMMA ReadRowKeeps ==
  ASSUME Inv, ReadRow  PROVE Inv'
<1>1. /\ UNCHANGED <<config, now, rows, upserts, last, job>>
      /\ query.pc = "reading"
      /\ config' = config /\ channels' = channels /\ Ids' = Ids
  BY DEF ReadRow, channels, Ids
<1>2. PICK c \in query.left :
        query' = [query EXCEPT !.left = @ \ {c},
                    !.seen = Extended(@, c, EffectiveHealth(c, query.at))]
  BY DEF ReadRow
<1>. DEFINE value == EffectiveHealth(c, query.at)
<1>3. c \in Ids /\ value \in Healths
  BY HealthIsTyped DEF Inv, TypeOK
<1>4. /\ query'.pc = query.pc /\ query'.left = query.left \ {c}
      /\ query'.seen = Extended(query.seen, c, value) /\ query'.at = query.at
      /\ query'.changed = query.changed
  BY <1>2 DEF Inv, TypeOK
<1>5. \A d \in Ids : EffectiveHealth(d, query.at)' = EffectiveHealth(d, query.at)
  BY <1>1, <1>4 DEF EffectiveHealth
<1>. DEFINE seen == query.seen
            longer == Extended(seen, c, value)
<1>6. /\ IsReading(longer, Ids)
      /\ DOMAIN longer = DOMAIN seen \cup {c}
      /\ \A d \in DOMAIN seen \cup {c} :
           longer[d] = IF d = c THEN value ELSE seen[d]
  <2>1. IsReading(seen, Ids)
    BY DEF Inv, TypeOK
  <2>. HIDE DEF seen, value
  <2>. QED  BY <1>3, <2>1, ExtendedReading
<1>. HIDE DEF longer
<1>61. query'.seen = longer
  BY <1>4 DEF longer
<1>7. TypeOK'
  <2>1. query' \in [pc : {"idle", "reading"}, task : Tasks \cup {NoTask},
                    at : 0..MaxTime, left : SUBSET Ids, seen : {query'.seen},
                    changed : SUBSET Ids]
    BY <1>2 DEF Inv, TypeOK
  <2>2. IsReading(query'.seen, Ids)
    BY <1>6, <1>61
  <2>. QED  BY <1>1, <2>1, <2>2 DEF Inv, TypeOK
<1>8. QueryHasRead'
  <2>1. DOMAIN query.seen = Ids \ query.left
        /\ \A d \in DOMAIN query.seen \ query.changed :
             query.seen[d] = EffectiveHealth(d, query.at)
    BY <1>1 DEF Inv, RouterInv, QueryHasRead
  <2>2. DOMAIN query'.seen = Ids \ query'.left
    BY <1>3, <1>4, <1>6, <1>61, <2>1
  <2>3. \A d \in DOMAIN query'.seen \ query'.changed :
          query'.seen[d] = EffectiveHealth(d, query.at)
    BY <1>4, <1>6, <1>61, <2>1
  <2>4. DOMAIN query'.seen \subseteq Ids
    BY <2>2
  <2>5. \A d \in DOMAIN query'.seen \ query'.changed :
          query'.seen[d] = EffectiveHealth(d, query.at)'
    BY <1>5, <2>3, <2>4
  <2>. QED  BY <1>1, <2>2, <2>5 DEF QueryHasRead
<1>9. AnswerIsChosen' /\ ClocksAreRead'
  BY <1>1, <1>4
  DEF Inv, RouterInv, AnswerIsChosen, ClocksAreRead, EffectiveHealth, Worker
<1>. QED  BY <1>1, <1>7, <1>8, <1>9, RouterKeeps DEF Inv, RouterInv

(* What the router has read when it chooses. *)
LEMMA ReadingIsComplete ==
  ASSUME Inv, query.pc = "reading", query.left = {}
  PROVE  /\ query.seen \in [Ids -> Healths]
         /\ \A c \in Ids \ query.changed :
              query.seen[c] = EffectiveHealth(c, query.at)
BY DEF Inv, TypeOK, IsReading, RouterInv, QueryHasRead

LEMMA RouteKeeps ==
  ASSUME Inv, Route  PROVE Inv'
<1>. DEFINE seen == query.seen
            task == query.task
            current == last.current
            chosen == Resolve(config, channels, seen, task, Worker, current)
<1>1. /\ UNCHANGED <<config, now, rows, upserts, job>> /\ query' = NewQuery
      /\ config' = config /\ channels' = channels /\ Ids' = Ids
      /\ query.pc = "reading" /\ query.left = {}
      /\ last' = [task |-> task, channel |-> chosen,
                  current |-> IF chosen = None THEN current ELSE chosen,
                  at |-> query.at, changed |-> query.changed]
  BY DEF Route, Worker, channels, Ids
<1>2. /\ seen \in [Ids -> Healths]
      /\ \A c \in Ids \ query.changed : seen[c] = EffectiveHealth(c, query.at)
      /\ current \in {None} \cup Ids
  BY <1>1, ReadingIsComplete DEF Inv, TypeOK
<1>3. chosen \in {None} \cup Ids
  <2>1. Known(config, channels, seen)
    BY <1>2, HealthsAreKnown DEF Inv
  <2>. HIDE DEF seen, task, current
  <2>2. chosen # None => chosen \in DOMAIN channels
    BY <2>1, ResolvedIsJustified
  <2>. QED  BY <2>2 DEF Ids
<1>4. DOMAIN << >> = {} /\ IsReading(<< >>, Ids)
  <2>1. << >> \in [{} -> Healths]
    OBVIOUS
  <2>. QED  BY <2>1 DEF IsReading
<1>. HIDE DEF chosen
<1>5. TypeOK'
  <2>1. query' \in [pc : {"idle", "reading"}, task : Tasks \cup {NoTask},
                    at : 0..MaxTime, left : SUBSET Ids, seen : {query'.seen},
                    changed : SUBSET Ids]
        /\ query'.seen = << >>
    BY <1>1, BoundsAreNaturals DEF NewQuery
  <2>2. last' \in [task : Tasks \cup {NoTask}, channel : {None} \cup Ids,
                   current : {None} \cup Ids, at : 0..MaxTime, changed : SUBSET Ids]
    BY <1>1, <1>2, <1>3 DEF Inv, TypeOK
  <2>. QED  BY <1>1, <1>4, <2>1, <2>2 DEF Inv, TypeOK
<1>6. QueryHasRead'
  BY <1>1 DEF QueryHasRead, NewQuery
<1>7. AnswerIsChosen'
  <2>1. Worker' = Worker
    BY <1>1 DEF Worker
  <2>2. \A c \in Ids' \ last'.changed : seen[c] = EffectiveHealth(c, last.at)'
    <3>1. last'.at = query.at /\ last'.changed = query.changed
      BY <1>1
    <3>2. \A c \in Ids : EffectiveHealth(c, last.at)' = EffectiveHealth(c, query.at)
      BY <1>1, <3>1 DEF EffectiveHealth
    <3>. QED  BY <1>1, <1>2, <3>1, <3>2
  <2>3. last'.channel # None =>
          /\ last'.channel =
               Resolve(config', channels', seen, last'.task, Worker', current)
          /\ last'.current = last'.channel
    BY <1>1, <2>1 DEF chosen
  <2>. QED  BY <1>1, <1>2, <2>2, <2>3 DEF AnswerIsChosen
<1>8. ClocksAreRead'
  BY <1>1, BoundsAreNaturals DEF Inv, TypeOK, RouterInv, ClocksAreRead, NewQuery
<1>. QED  BY <1>1, <1>5, <1>6, <1>7, <1>8, RouterKeeps DEF Inv, RouterInv

-----------------------------------------------------------------------------
(* The steps of execute(). *)

Subscriptions == {c \in Ids : channels[c].class = "subscription"}

(* They leave alone what the router has read and given. *)
LEMMA JobKeeps ==
  ASSUME Inv, UNCHANGED <<config, router>>,
         job' \in [pc : {"idle", "probing", "refused", "admitted"},
                   task : Tasks \cup {NoTask}, level : Levels,
                   worker : {None} \cup DOMAIN config.workers,
                   left : SUBSET Ids, seen : {job'.seen}, channel : {None} \cup Ids],
         IsReading(job'.seen, Subscriptions)
  PROVE  TypeOK' /\ RouterInv'
<1>1. /\ config' = config /\ now' = now /\ rows' = rows /\ last' = last
      /\ upserts' = upserts /\ query' = query /\ channels' = channels /\ Ids' = Ids
  BY DEF router, channels, Ids
<1>2. TypeOK'
  BY <1>1 DEF Inv, TypeOK, Subscriptions
<1>3. QueryHasRead' /\ ClocksAreRead'
  BY <1>1 DEF Inv, RouterInv, QueryHasRead, ClocksAreRead, EffectiveHealth
<1>4. AnswerIsChosen'
  BY <1>1 DEF Inv, RouterInv, AnswerIsChosen, EffectiveHealth, Worker
<1>. QED  BY <1>2, <1>3, <1>4 DEF RouterInv

(* The shape of the attempt so far. *)
LEMMA JobIsTyped ==
  Inv => /\ job \in [pc : {"idle", "probing", "refused", "admitted"},
                     task : Tasks \cup {NoTask}, level : Levels,
                     worker : {None} \cup DOMAIN config.workers,
                     left : SUBSET Ids, seen : {job.seen}, channel : {None} \cup Ids]
         /\ IsReading(job.seen, Subscriptions)
BY DEF Inv, TypeOK, Subscriptions

LEMMA StartKeeps ==
  ASSUME Inv, NEW task \in Tasks, NEW level \in Levels, Start(task, level)
  PROVE  Inv'
<1>1. /\ UNCHANGED <<config, router>>
      /\ config' = config /\ channels' = channels /\ Ids' = Ids
  BY DEF Start, router, channels, Ids
<1>. DEFINE worker == SelectWorker(config.workers, config.required)
<1>2. /\ worker # None =>
           /\ worker \in DOMAIN config.workers
           /\ config.required \subseteq config.workers[worker].capabilities
      /\ worker = None =>
           \A w \in DOMAIN config.workers :
             config.workers[w].enabled =>
               ~(config.required \subseteq config.workers[w].capabilities)
  <2>1. /\ IsFiniteSet(DOMAIN config.workers)
        /\ DOMAIN config.workers \subseteq Nat \ {None}
        /\ \A w \in DOMAIN config.workers : config.workers[w].priority \in Int
    BY ConfigIsValid DEF Inv, FieldsAreTyped
  <2>. QED  BY <2>1, SelectedWorkerIsAble
<1>3. DOMAIN << >> = {} /\ IsReading(<< >>, Subscriptions)
  <2>1. << >> \in [{} -> Healths]
    OBVIOUS
  <2>. QED  BY <2>1 DEF IsReading
<1>. HIDE DEF worker
<1>4. \/ /\ Permitted(config, level) /\ worker # None
         /\ job' = [pc |-> "probing", task |-> task, level |-> level,
                    worker |-> worker, left |-> Ids, seen |-> << >>, channel |-> None]
      \/ /\ ~Permitted(config, level) \/ worker = None
         /\ job' = [pc |-> "refused", task |-> task, level |-> level,
                    worker |-> None, left |-> {}, seen |-> << >>, channel |-> None]
  BY DEF Start, NewJob, worker
<1>5. /\ job'.seen = << >> /\ job'.pc \in {"probing", "refused"} /\ job'.level = level
      /\ job'.pc = "probing" => /\ Permitted(config, level)
                                /\ worker # None /\ job'.worker = worker
      /\ job'.pc = "refused" => ~Permitted(config, level) \/ worker = None
  BY <1>4
<1>6. TypeOK' /\ RouterInv'
  <2>1. job' \in [pc : {"idle", "probing", "refused", "admitted"},
                  task : Tasks \cup {NoTask}, level : Levels,
                  worker : {None} \cup DOMAIN config.workers,
                  left : SUBSET Ids, seen : {job'.seen}, channel : {None} \cup Ids]
    BY <1>2, <1>4
  <2>. QED  BY <1>1, <1>3, <1>5, <2>1, JobKeeps
<1>7. ProbesAreSound'
  BY <1>1, <1>2, <1>3, <1>5 DEF ProbesAreSound, Permitted
<1>8. RefusalIsSound'
  <2>. SUFFICES ASSUME job'.pc = "refused"  PROVE RefusedForAReason'
    BY DEF RefusalIsSound
  <2>1. \/ ~Permitted(config', job'.level)
        \/ \A w \in DOMAIN config'.workers :
             config'.workers[w].enabled =>
               ~(config'.required \subseteq config'.workers[w].capabilities)
    BY <1>1, <1>2, <1>5
  <2>. QED  BY <2>1 DEF RefusedForAReason
<1>. QED  BY <1>1, <1>6, <1>7, <1>8 DEF Inv, JobInv

(* The end of the attempt. *)
LEMMA RefuseKeeps ==
  ASSUME Inv, Refuse, UNCHANGED <<config, router>>, RefusedForAReason
  PROVE  Inv'
<1>1. /\ config' = config /\ channels' = channels /\ Ids' = Ids
  BY DEF channels, Ids
<1>2. /\ job'.pc = "refused" /\ job'.task = job.task /\ job'.level = job.level
      /\ job'.worker = job.worker /\ job'.left = job.left /\ job'.seen = job.seen
      /\ job'.channel = job.channel
  BY JobIsTyped DEF Refuse
<1>3. TypeOK' /\ RouterInv'
  <2>1. job' \in [pc : {"idle", "probing", "refused", "admitted"},
                  task : Tasks \cup {NoTask}, level : Levels,
                  worker : {None} \cup DOMAIN config.workers,
                  left : SUBSET Ids, seen : {job'.seen}, channel : {None} \cup Ids]
    BY JobIsTyped DEF Refuse
  <2>. QED  BY <1>2, <2>1, JobIsTyped, JobKeeps
<1>4. ProbesAreSound'
  BY <1>1, <1>2 DEF Inv, JobInv, ProbesAreSound, Probed, Bindable, WritesProject
<1>5. RefusedForAReason'
  BY <1>1, <1>2
  DEF RefusedForAReason, Usable, Acceptable, ComesNext, Permitted, WritesProject
<1>. QED  BY <1>1, <1>3, <1>4, <1>5 DEF Inv, JobInv, RefusalIsSound

LEMMA ProbeKeeps ==
  ASSUME Inv, Probe  PROVE Inv'
<1>1. /\ UNCHANGED <<config, router>> /\ job.pc = "probing"
      /\ config' = config /\ channels' = channels /\ Ids' = Ids
  BY DEF Probe, router, channels, Ids
<1>2. PICK c \in job.left :
        /\ ComesNext(c, job.left)
        /\ \/ /\ ~Probed(c)
              /\ job' = [job EXCEPT !.left = @ \ {c}]
           \/ /\ Probed(c) /\ Bindable(job.level, c)
              /\ \E health \in {"AVAILABLE", "UNAVAILABLE", "UNKNOWN"} :
                   job' = [job EXCEPT !.left = @ \ {c},
                                      !.seen = Extended(@, c, health)]
           \/ Probed(c) /\ ~Bindable(job.level, c) /\ Refuse
  BY DEF Probe
<1>3. c \in Ids
  BY JobIsTyped
<1>4. CASE ~Probed(c) /\ job' = [job EXCEPT !.left = @ \ {c}]
  <2>1. /\ job'.pc = job.pc /\ job'.level = job.level /\ job'.worker = job.worker
        /\ job'.seen = job.seen /\ job'.channel = job.channel
    BY <1>4, JobIsTyped
  <2>2. TypeOK' /\ RouterInv'
    <3>1. job' \in [pc : {"idle", "probing", "refused", "admitted"},
                    task : Tasks \cup {NoTask}, level : Levels,
                    worker : {None} \cup DOMAIN config.workers,
                    left : SUBSET Ids, seen : {job'.seen}, channel : {None} \cup Ids]
      BY <1>4, JobIsTyped
    <3>. QED  BY <1>1, <2>1, <3>1, JobIsTyped, JobKeeps
  <2>3. ProbesAreSound'
    BY <1>1, <2>1
    DEF Inv, JobInv, ProbesAreSound, Probed, Bindable, WritesProject, Permitted
  <2>4. RefusalIsSound'
    BY <1>1, <2>1 DEF RefusalIsSound
  <2>. QED  BY <1>1, <2>2, <2>3, <2>4 DEF Inv, JobInv
<1>5. ASSUME Probed(c), Bindable(job.level, c),
             NEW health \in {"AVAILABLE", "UNAVAILABLE", "UNKNOWN"},
             job' = [job EXCEPT !.left = @ \ {c}, !.seen = Extended(@, c, health)]
      PROVE  Inv'
  <2>. DEFINE before == job.seen
              seen == Extended(before, c, health)
  <2>1. /\ job'.pc = job.pc /\ job'.level = job.level /\ job'.worker = job.worker
        /\ job'.seen = seen /\ job'.channel = job.channel
    BY <1>5, JobIsTyped
  <2>2. /\ IsReading(seen, Subscriptions)
        /\ DOMAIN seen = DOMAIN before \cup {c}
    <3>1. c \in Subscriptions /\ health \in Healths
      BY <1>3, <1>5 DEF Probed, Subscriptions, Healths
    <3>2. IsReading(before, Subscriptions)
      BY JobIsTyped
    <3>. HIDE DEF before
    <3>. QED  BY <3>1, <3>2, ExtendedReading
  <2>3. job' \in [pc : {"idle", "probing", "refused", "admitted"},
                  task : Tasks \cup {NoTask}, level : Levels,
                  worker : {None} \cup DOMAIN config.workers,
                  left : SUBSET Ids, seen : {job'.seen}, channel : {None} \cup Ids]
    BY <1>5, JobIsTyped
  <2>. HIDE DEF seen
  <2>4. TypeOK' /\ RouterInv'
    BY <1>1, <2>1, <2>2, <2>3, JobKeeps
  <2>5. ProbesAreSound'
    BY <1>1, <1>5, <2>1, <2>2
    DEF Inv, JobInv, ProbesAreSound, Probed, Bindable, WritesProject, Permitted
  <2>6. RefusalIsSound'
    BY <1>1, <2>1 DEF RefusalIsSound
  <2>. QED  BY <1>1, <2>4, <2>5, <2>6 DEF Inv, JobInv
<1>6. CASE Probed(c) /\ ~Bindable(job.level, c) /\ Refuse
  <2>1. WritesProject(config, job.level) /\ channels[c].surface = "claude_code"
    BY <1>6 DEF Probed, Bindable, Surfaces
  <2>2. RefusedForAReason
    BY <1>2, <2>1 DEF RefusedForAReason
  <2>. QED  BY <1>1, <1>6, <2>2, RefuseKeeps
<1>. QED  BY <1>2, <1>4, <1>5, <1>6

LEMMA ChooseKeeps ==
  ASSUME Inv, Choose  PROVE Inv'
<1>. DEFINE known == [c \in DOMAIN job.seen |-> channels[c]]
            task == job.task
            worker == job.worker
            seen == job.seen
            chosen == Resolve(config, known, seen, task, worker, None)
            eligible == {c \in DOMAIN known :
                           Eligible(config, known, seen, task.mode, c)}
            allowed == Allowed(config, known, task.preference)
<1>1. /\ UNCHANGED <<config, router>> /\ job.pc = "probing" /\ job.left = {}
      /\ config' = config /\ channels' = channels /\ Ids' = Ids
  BY DEF Choose, router, channels, Ids
<1>2. /\ DOMAIN known = DOMAIN job.seen
      /\ \A c \in DOMAIN known : known[c] = channels[c]
      /\ \A c \in DOMAIN job.seen : c \in Ids /\ channels[c].class = "subscription"
  BY JobIsTyped DEF IsReading, Subscriptions
<1>3. /\ chosen # None => chosen \in DOMAIN known
      /\ chosen = None => \/ eligible \cap allowed = {}
                          \/ \E c \in eligible : ~known[c].finite
  <2>1. Known(config, known, seen)
    BY SeenIsKnown DEF Inv
  <2>. HIDE DEF known, task, worker, seen
  <2>. QED  BY <2>1, ResolvedIsJustified
<1>4. \A c \in DOMAIN known : Usable(c) => c \in eligible
  <2>. SUFFICES ASSUME NEW c \in DOMAIN known, Usable(c)
                PROVE  Eligible(config, known, seen, task.mode, c)
    OBVIOUS
  <2>1. channels[c].enabled /\ known[c] = channels[c]
        /\ channels[c].class # "premium_api"
    BY <1>2 DEF Inv, JobInv, ProbesAreSound, Probed
  <2>. HIDE DEF known
  <2>. QED  BY <2>1 DEF Eligible, Usable
<1>5. \A c \in eligible : c \in Ids /\ Usable(c)
  <2>. SUFFICES ASSUME NEW c \in DOMAIN known,
                       Eligible(config, known, seen, task.mode, c)
                PROVE  c \in Ids /\ Usable(c)
    OBVIOUS
  <2>1. c \in Ids /\ c \in DOMAIN job.seen /\ known[c] = channels[c]
    BY <1>2
  <2>. HIDE DEF known
  <2>. QED  BY <2>1 DEF Eligible, Usable
<1>6. \A c \in DOMAIN known : Acceptable(c) => c \in allowed
  BY <1>2 DEF Acceptable, Allowed
<1>. HIDE DEF chosen, eligible, allowed
<1>7. CASE chosen = None /\ Refuse
  <2>1. CASE eligible \cap allowed = {}
    <3>1. \A c \in Ids : Usable(c) => ~Acceptable(c)
      <4>1. \A c \in Ids : Usable(c) => c \in DOMAIN known
        BY <1>2 DEF Usable
      <4>. HIDE DEF known
      <4>. QED  BY <1>4, <1>6, <2>1, <4>1
    <3>2. RefusedForAReason
      BY <1>1, <3>1 DEF RefusedForAReason
    <3>. QED  BY <1>1, <1>7, <3>2, RefuseKeeps
  <2>2. CASE \E c \in eligible : ~known[c].finite
    <3>1. PICK c \in eligible : ~known[c].finite
      BY <2>2
    <3>2. c \in Ids /\ Usable(c) /\ ~channels[c].finite
      <4>1. c \in Ids /\ Usable(c)
        BY <1>5, <3>1
      <4>2. c \in DOMAIN known
        BY <1>2, <4>1 DEF Usable
      <4>. QED  BY <1>2, <3>1, <4>1, <4>2
    <3>3. RefusedForAReason
      BY <1>1, <3>2 DEF RefusedForAReason
    <3>. QED  BY <1>1, <1>7, <3>3, RefuseKeeps
  <2>. QED  BY <1>3, <1>7, <2>1, <2>2
<1>8. CASE chosen # None
           /\ job' = [job EXCEPT !.pc = "admitted", !.channel = chosen]
  <2>1. /\ job'.pc = "admitted" /\ job'.level = job.level /\ job'.worker = job.worker
        /\ job'.seen = job.seen /\ job'.channel = chosen
    BY <1>8, JobIsTyped
  <2>2. chosen \in DOMAIN job.seen /\ chosen \in Ids
    BY <1>2, <1>3, <1>8
  <2>3. TypeOK' /\ RouterInv'
    <3>1. job' \in [pc : {"idle", "probing", "refused", "admitted"},
                    task : Tasks \cup {NoTask}, level : Levels,
                    worker : {None} \cup DOMAIN config.workers,
                    left : SUBSET Ids, seen : {job'.seen}, channel : {None} \cup Ids]
      BY <1>8, <2>2, JobIsTyped
    <3>. QED  BY <1>1, <2>1, <3>1, JobIsTyped, JobKeeps
  <2>4. ProbesAreSound'
    BY <1>1, <2>1, <2>2
    DEF Inv, JobInv, ProbesAreSound, Probed, Bindable, WritesProject, Permitted
  <2>5. RefusalIsSound'
    BY <2>1 DEF RefusalIsSound
  <2>. QED  BY <1>1, <2>3, <2>4, <2>5 DEF Inv, JobInv
<1>. QED  BY <1>7, <1>8 DEF Choose, chosen

-----------------------------------------------------------------------------
LEMMA InitIsSound == Init => Inv
<1>. SUFFICES ASSUME Init  PROVE Inv
  OBVIOUS
<1>1. /\ DOMAIN << >> = {} /\ IsReading(<< >>, Ids)
      /\ IsReading(<< >>, {c \in Ids : channels[c].class = "subscription"})
  <2>1. << >> \in [{} -> Healths]
    OBVIOUS
  <2>. QED  BY <2>1 DEF IsReading
<1>2. job = NewJob /\ job.seen = << >> /\ job.pc = "idle"
  BY DEF Init, NewJob
<1>3. job \in [pc : {"idle", "probing", "refused", "admitted"},
               task : Tasks \cup {NoTask}, level : Levels,
               worker : {None} \cup DOMAIN config.workers,
               left : SUBSET Ids, seen : {job.seen}, channel : {None} \cup Ids]
  BY <1>2 DEF NewJob, Levels
<1>4. rows \in [Ids -> [health : Healths, until : -1..MaxTime]]
  <2>1. -1 \in -1..MaxTime
    BY BoundsAreNaturals
  <2>2. NoRow \in [health : Healths, until : -1..MaxTime]
    BY <2>1 DEF NoRow, Healths
  <2>. QED  BY <2>2 DEF Init
<1>5. now \in 0..MaxTime /\ upserts \in 0..MaxUpserts
  BY BoundsAreNaturals DEF Init
<1>6. /\ last \in [task : Tasks \cup {NoTask}, channel : {None} \cup Ids,
                   current : {None} \cup Ids, at : 0..MaxTime, changed : SUBSET Ids]
      /\ last.channel = None /\ last.at = 0 /\ now = 0
      /\ config \in Configs
  BY BoundsAreNaturals DEF Init, NoAnswer
<1>7. /\ query \in [pc : {"idle", "reading"}, task : Tasks \cup {NoTask},
                    at : 0..MaxTime, left : SUBSET Ids, seen : {query.seen},
                    changed : SUBSET Ids]
      /\ query.seen = << >> /\ query.pc = "idle" /\ query.at = 0
  BY BoundsAreNaturals DEF Init, NewQuery
<1>8. TypeOK
  BY <1>1, <1>2, <1>3, <1>4, <1>5, <1>6, <1>7 DEF TypeOK
<1>9. RouterInv
  BY <1>6, <1>7 DEF RouterInv, QueryHasRead, AnswerIsChosen, ClocksAreRead
<1>10. JobInv
  BY <1>1, <1>2 DEF JobInv, ProbesAreSound, RefusalIsSound
<1>. QED  BY <1>6, <1>8, <1>9, <1>10 DEF Inv

(* The inductive invariant: what the router has read is what the rows say  *)
(* of the time it read from its clock, except of the channels written      *)
(* since; its last choice is what it gives for such a reading; and         *)
(* execute() gets to its choice and to its refusal for a reason.           *)
THEOREM ChoicesAreTraced == Spec => []Inv
<1>1. Inv /\ [Next]_vars => Inv'
  <2>. SUFFICES ASSUME Inv, [Next]_vars  PROVE Inv'
    OBVIOUS
  <2>1. CASE UNCHANGED vars
    <3>1. /\ UNCHANGED <<config, job>> /\ UNCHANGED <<config, router>>
          /\ config' = config /\ job' = job
      BY <2>1 DEF vars
    <3>2. TypeOK' /\ RouterInv'
      BY <3>1, JobIsTyped, JobKeeps
    <3>. QED  BY <3>1, <3>2, RouterKeeps DEF Inv
  <2>. QED  BY <2>1, UpsertKeeps, TickKeeps, AskKeeps, ReadRowKeeps, RouteKeeps,
               StartKeeps, ProbeKeeps, ChooseKeeps DEF Next
<1>. QED  BY <1>1, InitIsSound, PTL DEF Spec

(* Clock, rows, requests and the attempt of execute() have their shape,    *)
(* and only subscription channels are ever probed.                         *)
THEOREM TypeCorrect == Spec => []TypeOK
<1>1. Inv => TypeOK
  BY DEF Inv
<1>. QED  BY <1>1, ChoicesAreTraced, PTL

(* The last choice was made from a reading of the rows, as it may be. *)
LEMMA LastChoiceIsJustified ==
  ASSUME Inv, last.channel # None
  PROVE  \E health \in [Ids -> Healths] :
           /\ \A c \in Ids \ last.changed : health[c] = EffectiveHealth(c, last.at)
           /\ last.channel \in Ids
           /\ Eligible(config, channels, health, last.task.mode, last.channel)
           /\ last.task.preference = "auto" =>
                \A c \in Ids : Eligible(config, channels, health, last.task.mode, c) =>
                  config.classPriority[channels[c].class]
                    <= config.classPriority[channels[last.channel].class]
           /\ last.task.preference # "auto" /\ ~config.allowCrossProvider =>
                channels[last.channel].provider =
                  channels[config.subscriptions[last.task.preference].preferred].provider
<1>1. PICK health \in [Ids -> Healths], current \in {None} \cup Ids :
        /\ \A c \in Ids \ last.changed : health[c] = EffectiveHealth(c, last.at)
        /\ last.channel =
             Resolve(config, channels, health, last.task, Worker, current)
  BY DEF Inv, RouterInv, AnswerIsChosen
<1>2. Known(config, channels, health)
  BY HealthsAreKnown DEF Inv
<1>. DEFINE task == last.task
            worker == Worker
            chosen == last.channel
<1>3. /\ chosen \in DOMAIN channels
      /\ Eligible(config, channels, health, task.mode, chosen)
      /\ task.preference = "auto" =>
           \A c \in DOMAIN channels :
             Eligible(config, channels, health, task.mode, c) =>
               config.classPriority[channels[c].class]
                 <= config.classPriority[channels[chosen].class]
      /\ task.preference # "auto" /\ ~config.allowCrossProvider =>
           channels[chosen].provider =
             config.channels[config.subscriptions[task.preference].preferred].provider
  <2>. HIDE DEF task, worker
  <2>. QED  BY <1>1, <1>2, ResolvedIsJustified DEF task, worker
<1>. QED  BY <1>1, <1>3 DEF Ids, channels

(* What the router gives, it may give, whatever the preference and however *)
(* clock and rows moved while it was reading and since.                    *)
THEOREM ChoicesAreLegitimate == Spec => []ChoiceIsLegitimate
<1>1. Inv => ChoiceIsLegitimate
  <2>. SUFFICES ASSUME Inv, last.channel # None
                PROVE  ChoiceIsLegitimate
    BY DEF ChoiceIsLegitimate
  <2>. DEFINE chosen == last.channel
  <2>1. PICK health \in [Ids -> Healths] :
          /\ \A c \in Ids \ last.changed : health[c] = EffectiveHealth(c, last.at)
          /\ chosen \in Ids
          /\ Eligible(config, channels, health, last.task.mode, chosen)
          /\ last.task.preference # "auto" /\ ~config.allowCrossProvider =>
               channels[chosen].provider =
                 channels[config.subscriptions[last.task.preference].preferred].provider
    BY LastChoiceIsJustified
  <2>2. health[chosen] \notin {"UNAVAILABLE", "RATE_LIMITED"}
    BY <2>1 DEF Eligible
  <2>3. /\ now \in Int /\ last.at \in Int /\ last.at <= now
        /\ rows[chosen].until \in Int
    BY <2>1, BoundsAreNaturals DEF Inv, TypeOK, RouterInv, ClocksAreRead
  <2>4. ASSUME chosen \notin last.changed, rows[chosen] # NoRow
        PROVE  /\ now >= rows[chosen].until
               /\ rows[chosen].health \notin {"UNAVAILABLE", "RATE_LIMITED"}
    <3>1. EffectiveHealth(chosen, last.at) \notin {"UNAVAILABLE", "RATE_LIMITED"}
      BY <2>1, <2>2, <2>4
    <3>. QED  BY <2>3, <2>4, <3>1 DEF EffectiveHealth
  <2>. QED  BY <2>1, <2>4 DEF ChoiceIsLegitimate
<1>. QED  BY <1>1, ChoicesAreTraced, PTL

(* Every configuration ranks the subscription class above the others, as   *)
(* the shipped one does; its schema does not ask for it.                   *)
SubscriptionsRankHighest ==
  \A c \in Configs : \A class \in Classes \ {"subscription"} :
    c.classPriority[class] < c.classPriority["subscription"]

(* On that condition no score, of any weights and metrics, lets another    *)
(* channel overtake a healthy subscription.                                *)
THEOREM SubscriptionsComeFirst ==
  ASSUME SubscriptionsRankHighest
  PROVE  Spec => []SubscriptionComesFirst
<1>1. Inv => SubscriptionComesFirst
  <2>. DEFINE stated == [d \in Ids |-> EffectiveHealth(d, last.at)]
              chosen == last.channel
  <2>. SUFFICES ASSUME Inv, chosen # None, last.task.preference = "auto",
                       channels[chosen].class # "subscription",
                       NEW c \in Ids \ last.changed,
                       channels[c].class = "subscription",
                       Eligible(config, channels, stated, last.task.mode, c)
                PROVE  FALSE
    BY DEF SubscriptionComesFirst
  <2>1. PICK health \in [Ids -> Healths] :
          /\ \A d \in Ids \ last.changed : health[d] = EffectiveHealth(d, last.at)
          /\ chosen \in Ids
          /\ \A d \in Ids : Eligible(config, channels, health, last.task.mode, d) =>
               config.classPriority[channels[d].class]
                 <= config.classPriority[channels[chosen].class]
    BY LastChoiceIsJustified
  <2>2. Eligible(config, channels, health, last.task.mode, c)
    <3>1. health[c] = stated[c]
      BY <2>1
    <3>. HIDE DEF stated
    <3>. QED  BY <3>1 DEF Eligible
  <2>3. config.classPriority["subscription"]
          <= config.classPriority[channels[chosen].class]
    BY <2>1, <2>2
  <2>4. /\ FieldsAreTyped(config) /\ DOMAIN config.classPriority = Classes
        /\ config \in Configs
    BY ConfigIsValid DEF Inv, CompleteRouting
  <2>5. channels[chosen].class \in Classes \ {"subscription"}
    BY <2>1, <2>4 DEF FieldsAreTyped, Ids, channels
  <2>6. /\ config.classPriority[channels[chosen].class] \in Int
        /\ config.classPriority["subscription"] \in Int
    BY <2>4, <2>5 DEF FieldsAreTyped, Classes
  <2>. QED  BY <2>3, <2>4, <2>5, <2>6 DEF SubscriptionsRankHighest
<1>. QED  BY <1>1, ChoicesAreTraced, PTL

(* The weight that is added when the channel changes is no advantage, as   *)
(* in the shipped configuration; the schema takes any number.              *)
HandoffsDoNotPay == \A c \in Configs : c.weights.handoff_penalty <= 0

(* On that condition the router does not flap: asked again with the        *)
(* channel it has just given, it gives the same one.                       *)
THEOREM ChoicesAreStable ==
  ASSUME HandoffsDoNotPay
  PROVE  Spec => ChoiceIsStable
<1>1. Inv /\ [Next]_vars =>
        (last.changed = {} /\ last'.changed = {} /\ last'.at = last.at
         /\ last'.task = last.task /\ last.channel # None =>
           last'.channel = last.channel)
  <2>. SUFFICES ASSUME Inv, Next, last.changed = {}, last'.changed = {},
                       last'.at = last.at, last'.task = last.task,
                       last.channel # None
                PROVE  last'.channel = last.channel
    BY DEF vars, router
  <2>1. ASSUME Route  PROVE last'.channel = last.channel
    <3>. DEFINE task == last.task
                worker == Worker
                chosen == last.channel
    <3>1. PICK health \in [Ids -> Healths], current \in {None} \cup Ids :
            /\ \A c \in Ids : health[c] = EffectiveHealth(c, last.at)
            /\ chosen = Resolve(config, channels, health, task, worker, current)
            /\ last.current = chosen
      BY DEF Inv, RouterInv, AnswerIsChosen
    <3>2. /\ query.pc = "reading" /\ query.left = {}
          /\ last' = [task |-> query.task,
                      channel |-> Resolve(config, channels, query.seen, query.task,
                                          worker, chosen),
                      current |-> last'.current,
                      at |-> query.at, changed |-> query.changed]
      BY <2>1, <3>1 DEF Route, Worker
    <3>3. query.task = last.task /\ query.at = last.at /\ query.changed = {}
      BY <3>2
    <3>4. query.seen = health
      BY <3>1, <3>2, <3>3, ReadingIsComplete
    <3>5. last'.channel = Resolve(config, channels, health, task, worker, chosen)
      BY <3>2, <3>3, <3>4
    <3>6. Known(config, channels, health) /\ config.weights.handoff_penalty <= 0
      BY HealthsAreKnown DEF Inv, HandoffsDoNotPay
    <3>. HIDE DEF task, worker
    <3>7. Resolve(config, channels, health, task, worker, chosen) = chosen
      BY <3>1, <3>6, ResolvedAgainIsSame
    <3>. QED  BY <3>5, <3>7
  <2>2. CASE UNCHANGED router
    BY <2>2 DEF router
  <2>3. ASSUME NEW c \in Ids, Upsert(c)  PROVE last'.channel = last.channel
    BY <2>3 DEF Upsert, Inv, TypeOK
  <2>. QED  BY <2>1, <2>2, <2>3 DEF Next, Tick, Ask, ReadRow, Start, Probe, Choose
<1>. QED  BY <1>1, ChoicesAreTraced, PTL DEF Spec, ChoiceIsStable

(* A task that execute() admits has a permitted level, a channel it may    *)
(* use and a worker that can drive it; one that it refuses has a level     *)
(* that is not permitted, no able worker, a next channel that cannot be    *)
(* bound, or no channel that was probed alive and would do.                *)
THEOREM VerdictsAreJustified == Spec => []VerdictIsJustified
<1>1. Inv => VerdictIsJustified
  BY DEF Inv, JobInv, VerdictIsJustified, ProbesAreSound, RefusalIsSound,
     Probed, Bindable
<1>. QED  BY <1>1, ChoicesAreTraced, PTL

=============================================================================
