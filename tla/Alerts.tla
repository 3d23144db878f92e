-------------------------------- MODULE Alerts --------------------------------
(***************************************************************************)
(* evaluateAlertRules (lib/alerts/evaluate-rules.ts) with the built-in     *)
(* rules (lib/plugins/builtin/alert-rules.ts), run every five minutes by   *)
(* the scheduler's worker (lib/queue/ai-worker.ts, scheduler-queue.ts) and *)
(* by admins.  Nothing ever closes an alert.                               *)
(***************************************************************************)
EXTENDS Naturals, FiniteSets

CONSTANTS
  AlertBots,    \* bots with a BotHealth row, numbered in findMany's order
  GuildBots,    \* those whose number of guilds changes
  Evaluators,   \* evaluations in progress: "scheduled", and the admins' clicks
  MaxRestarts   \* bound on BotHealth.restartCount of each bot

HIGH_RESTART_THRESHOLD == 3

ASSUME AlertsAssumption ==
  /\ AlertBots \subseteq Nat /\ IsFiniteSet(AlertBots) /\ GuildBots \subseteq AlertBots
  /\ IsFiniteSet(Evaluators) /\ "scheduled" \in Evaluators
  /\ MaxRestarts \in [AlertBots -> Nat]
  /\ \A b \in AlertBots : MaxRestarts[b] >= HIGH_RESTART_THRESHOLD

VARIABLES
  restarted,  \* BotHealth.restartCount
  nearLimit,  \* bots with at least 90 % of their guild limit
  open,       \* number of open alerts with each title
  evaluation  \* progress of each evaluation

alertsVars == <<restarted, nearLimit, open, evaluation>>

(* A title names the bot and, for restarts, the count. *)
RestartTitle(b) == <<"restarts", b, restarted[b]>>
GuildTitle(b) == <<"guilds", b, 0>>
RestartTitles ==
  UNION {{"restarts"} \X {b} \X (HIGH_RESTART_THRESHOLD .. MaxRestarts[b]) : b \in AlertBots}
GuildTitles == {"guilds"} \X GuildBots \X {0}
Titles == RestartTitles \cup GuildTitles
NoTitle == <<"", 0, 0>>

EvalIdle == [pc |-> "idle", rule |-> "high-restart-count", title |-> NoTitle]

AlertsInit ==
  /\ restarted = [b \in AlertBots |-> HIGH_RESTART_THRESHOLD - 1]
  /\ nearLimit = {}
  /\ open = [t \in Titles |-> 0]
  /\ evaluation = [e \in Evaluators |-> EvalIdle]

(* What the bots do: external, the health rows are written by nothing else  *)
(* than the restart action (module BotActions) and the seed.                *)
BotRestarts(b) ==
  /\ restarted[b] < MaxRestarts[b]
  /\ restarted' = [restarted EXCEPT ![b] = @ + 1]
  /\ UNCHANGED <<nearLimit, open, evaluation>>

GuildsChange(b) ==
  /\ b \in GuildBots
  /\ nearLimit' = IF b \in nearLimit THEN nearLimit \ {b} ELSE nearLimit \cup {b}
  /\ UNCHANGED <<restarted, open, evaluation>>

-----------------------------------------------------------------------------

EvaluateBegins(e) ==
  /\ evaluation[e].pc = "idle"
  /\ evaluation' = [evaluation EXCEPT ![e] = [EvalIdle EXCEPT !.pc = "evaluate"]]
  /\ UNCHANGED <<restarted, nearLimit, open>>

(* Mutant of HighRestartCount: > for >=. *)
HighRestartCountStrict ==
  LET bad == {b \in AlertBots : restarted[b] > HIGH_RESTART_THRESHOLD} IN
  {RestartTitle(b) : b \in {b \in bad : \A c \in bad : restarted[c] <= restarted[b]}}

(* Only the bot with the most restarts is reported: any of them, if several. *)
HighRestartCount ==
  LET bad == {b \in AlertBots : restarted[b] >= HIGH_RESTART_THRESHOLD} IN
  {RestartTitle(b) : b \in {b \in bad : \A c \in bad : restarted[c] <= restarted[b]}}

(* Only the first bot near its limit is reported. *)
GuildLimitApproaching == {GuildTitle(b) : b \in {b \in nearLimit : \A c \in nearLimit : b <= c}}

(* The rule after x's, or the end (the audit log is not modelled). *)
NextRule(x) ==
  IF x.rule = "high-restart-count"
  THEN [EvalIdle EXCEPT !.pc = "evaluate", !.rule = "guild-limit-approaching"]
  ELSE EvalIdle

EvaluateRule(e) ==
  /\ evaluation[e].pc = "evaluate"
  /\ LET titles == IF evaluation[e].rule = "high-restart-count" THEN HighRestartCount
                   ELSE GuildLimitApproaching
     IN \/ /\ titles = {}
           /\ evaluation' = [evaluation EXCEPT ![e] = NextRule(@)]
        \/ \E t \in titles :
             evaluation' = [evaluation EXCEPT ![e].pc = "find", ![e].title = t]
  /\ UNCHANGED <<restarted, nearLimit, open>>

FindOpen(e) ==
  /\ evaluation[e].pc = "find"
  /\ evaluation' = [evaluation EXCEPT ![e] =
       IF open[@.title] > 0 THEN NextRule(@) ELSE [@ EXCEPT !.pc = "create"]]
  /\ UNCHANGED <<restarted, nearLimit, open>>

CreateAlert(e) ==
  /\ evaluation[e].pc = "create"
  /\ open' = [open EXCEPT ![evaluation[e].title] = @ + 1]
  /\ evaluation' = [evaluation EXCEPT ![e] = NextRule(@)]
  /\ UNCHANGED <<restarted, nearLimit>>

(* The process dies: a click is lost, the scheduled job runs again later. *)
EvaluationLost(e) ==
  /\ evaluation[e].pc # "idle" /\ e # "scheduled"
  /\ evaluation' = [evaluation EXCEPT ![e] = EvalIdle]
  /\ UNCHANGED <<restarted, nearLimit, open>>

AlertsNext ==
  \/ \E b \in AlertBots : BotRestarts(b) \/ GuildsChange(b)
  \/ \E e \in Evaluators :
       \/ EvaluateBegins(e) \/ EvaluateRule(e) \/ FindOpen(e) \/ CreateAlert(e)
       \/ EvaluationLost(e)

(* The repeatable job starts an evaluation every five minutes and its worker *)
(* runs it to the end.                                                       *)
ScheduledStep ==
  \/ EvaluateBegins("scheduled") \/ EvaluateRule("scheduled")
  \/ FindOpen("scheduled") \/ CreateAlert("scheduled")

AlertsFairness == WF_alertsVars(ScheduledStep)

AlertsSpec == AlertsInit /\ [][AlertsNext]_alertsVars /\ AlertsFairness

-----------------------------------------------------------------------------

AlertsTypeOK ==
  /\ (\A b \in AlertBots : restarted[b] \in 0 .. MaxRestarts[b]) /\ nearLimit \subseteq GuildBots
  /\ open \in [Titles -> Nat]
  /\ \A e \in Evaluators :
       /\ evaluation[e].pc \in {"idle", "evaluate", "find", "create"}
       /\ evaluation[e].pc \in {"find", "create"} => evaluation[e].title \in Titles

(* What the look for an open alert is worth: however often the rules are      *)
(* evaluated, there are no more open alerts with one title than evaluations   *)
(* that can overlap.  evaluate-rules.ts:13-16 promises one, "Idempotent",     *)
(* which two overlapping evaluations break.                                   *)
DuplicatesBounded == \A t \in Titles : open[t] <= Cardinality(Evaluators)

(* A bot that has restarted too often is eventually reported by an open alert *)
(* with its count, or another bot with at least as many restarts is.          *)
RestartsReported ==
  \A b \in AlertBots :
    restarted[b] >= HIGH_RESTART_THRESHOLD
      ~> \E t \in Titles : t[1] = "restarts" /\ t[3] >= restarted[b] /\ open[t] > 0

=============================================================================
