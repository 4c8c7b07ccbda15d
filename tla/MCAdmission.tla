----------------------------- MODULE MCAdmission -----------------------------
(* The two subscription channels of the shipped configuration and a third  *)
(* channel of any class, in configurations that differ where the routing   *)
(* looks.                                                                  *)
EXTENDS Admission

Channel(place, provider, surface, class, metrics, enabled, capable, finite) ==
  [place |-> place, provider |-> provider, surface |-> surface, class |-> class,
   metrics |-> metrics, finite |-> finite, enabled |-> enabled,
   capable |-> capable, priority |-> 100, workers |-> {}, health |-> "UNKNOWN"]

(* The third channel stands between the other two in the file. *)
Api(surface) ==
  Channel(2, "openai", surface, "premium_api", [quality |-> 20], TRUE, TRUE, TRUE)
Other(surface, finite) ==
  Channel(2, "anthropic", surface, "subscription", << >>, TRUE, TRUE, finite)

Third ==
  {Channel(2, "openai", "api", class, metrics, TRUE, TRUE, TRUE) :
     class \in {"cheap_api", "premium_api"}, metrics \in {<< >>, [quality |-> 20]}}
  \cup {Other("codex", FALSE),
        Channel(2, "openai", "local", "free_local", [latency |-> 5], TRUE, TRUE, TRUE)}

Config(repository, third, first, second, claude, cross, drop, approval) ==
  [repository |-> repository,
   channels |-> <<Channel(3, "anthropic", "claude_code", "subscription", << >>,
                          first, TRUE, TRUE),
                  Channel(1, "openai", "codex", "subscription",
                          [reliability |-> 5], TRUE, second, TRUE),
                  third>>,
   subscriptions |-> [claude |-> [enabled |-> claude, preferred |-> 1],
                      chatgpt |-> [enabled |-> TRUE, preferred |-> 2]],
   classPriority |-> [subscription |-> 100, free_local |-> 80,
                      cheap_api |-> 50, premium_api |-> 20],
   weights |-> [capability_fit |-> 10, subscription_bonus |-> 9,
                quality |-> 7, reliability |-> 6, worker_affinity |-> 4,
                monetary_cost |-> -8, token_cost |-> -5, latency |-> -2,
                handoff_penalty |-> -4],
   premiumAllowed |-> [ECONOMY |-> FALSE, BALANCED |-> TRUE, MAX_QUALITY |-> TRUE],
   allowCrossProvider |-> cross,
   approvalRequired |-> approval,
   writesProject |-> {"PROJECT_WRITE", "SYSTEM_WRITE"},
   required |-> {"python"},
   workers |-> <<[enabled |-> TRUE, priority |-> 100,
                  capabilities |-> {"python", "codex", "claude_code", "chat"}],
                 [enabled |-> TRUE, priority |-> 200,
                  capabilities |-> {"python", "codex"} \ drop]>>]

(* For the router: what is eligible.  For execute(): workers, grants too.  *)
MCConfigs ==
  {Config(TRUE, third, TRUE, second, TRUE, cross, {}, {}) :
     third \in Third, second \in BOOLEAN, cross \in BOOLEAN}
  \cup
  {Config(FALSE, third, first, second, claude, cross, drop, {"SAFE_EDIT"}) :
     third \in {Api("codex"), Other("codex", TRUE), Other("codex", FALSE),
                Other("chat", TRUE)}, first \in BOOLEAN,
     second \in BOOLEAN, claude \in BOOLEAN, cross \in BOOLEAN,
     drop \in {{}, {"python"}}}

MCTasks ==
  {[preference |-> "auto", mode |-> mode] : mode \in {"ECONOMY", "MAX_QUALITY"}}
  \cup {[preference |-> "claude", mode |-> "ECONOMY"],
        [preference |-> "chatgpt", mode |-> "MAX_QUALITY"]}

=============================================================================
