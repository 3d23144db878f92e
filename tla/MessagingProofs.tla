--------------------------- MODULE MessagingProofs ----------------------------
(***************************************************************************)
(* Proofs about CrashJobs, Alerts, RateLimiter and Placement, for any      *)
(* number of bots, alerts, calls, agents, workloads and drains, and about  *)
(* their composition with Protocol and Sdk. Each part has an inductive     *)
(* invariant of its own; the components share no state.                    *)
(***************************************************************************)
EXTENDS MCMessaging, ProtocolProofs, SdkProofs, FiniteSetTheorems,
        WellFoundedInduction, TLAPS

-----------------------------------------------------------------------------
(* CrashJobs: jobs are shared by hash *)

(* A job under an id explains an error with the id's hash, with the answer  *)
(* the rules give for it; a page that polls has asked about that hash, and  *)
(* a page that is done shows an answer for it.                              *)
Fits(r, h) == \E e \in Errors : HashError[e] = h /\ r = AnalyzeCrash(e)

Answers == {AnalyzeCrash(e) : e \in Errors} \cup {NoResult}
(* The records of the job store and of the pages. *)
JobRecords ==
  [st : {"absent", "waiting", "completed", "failed"}, error : Errors \cup {NoError},
   result : Answers]
ButtonRecords ==
  [st : {"idle", "polling", "done", "error"}, bot : CrashBots \cup {""},
   asked : Errors \cup {NoError}, id : JobIds \cup {<<>>}, attempt : Nat, result : Answers]

CrashTypes ==
  /\ lastError \in [CrashBots -> Errors \cup {NoError}]
  /\ job \in [JobIds -> JobRecords] /\ button \in [Buttons -> ButtonRecords]

JobsFit ==
  \A i \in JobIds :
    /\ job[i].st # "absent" => job[i].error \in Errors /\ HashError[job[i].error] = i[2]
    /\ job[i].st = "completed" => Fits(job[i].result, i[2])

ButtonsFit ==
  \A u \in Buttons :
    /\ button[u].st = "polling" =>
         /\ button[u].asked \in Errors /\ button[u].id \in JobIds
         /\ button[u].id[2] = HashError[button[u].asked]
    /\ button[u].st = "done" => Fits(button[u].result, HashError[button[u].asked])

CrashInv == CrashTypes /\ JobsFit /\ ButtonsFit

(* No job and no click to begin with. *)
LEMMA CrashInitInv == CrashInit => CrashInv
  <1>1. Absent \in JobRecords /\ Absent.st = "absent"
    BY DEF Absent, JobRecords, Answers
  <1>2. ButtonIdle \in ButtonRecords /\ ButtonIdle.st = "idle"
    BY DEF ButtonIdle, ButtonRecords, Answers
  <1> QED BY <1>1, <1>2 DEF CrashInit, CrashInv, CrashTypes, JobsFit, ButtonsFit

(* explain-crash/route.ts: a click shares the job of its hash, or adds one *)
(* about its own error.                                                    *)
LEMMA AskStep ==
  ASSUME CrashInv, NEW u \in Buttons, NEW b \in CrashBots, ExplainCrash(u, b)
  PROVE  CrashInv'
  <1> DEFINE e == lastError[b]
             id == <<b, HashError[e]>>
  <1>1. CASE e = NoError
    <2> DEFINE y == [ButtonIdle EXCEPT !.st = "error"]
    <2>1. /\ button' = [button EXCEPT ![u] = y] /\ job' = job /\ lastError' = lastError
      BY <1>1 DEF ExplainCrash
    <2>2. y \in ButtonRecords /\ y.st = "error"
      BY DEF ButtonIdle, ButtonRecords, Answers
    <2> HIDE DEF y
    <2> QED BY <2>1, <2>2 DEF CrashInv, CrashTypes, JobsFit, ButtonsFit
  <1>2. CASE e # NoError
    <2>1. e \in Errors /\ id \in JobIds /\ id[2] = HashError[e]
      BY <1>2 DEF CrashInv, CrashTypes, JobIds
    <2> DEFINE y == [ButtonIdle EXCEPT !.st = "polling", !.bot = b, !.asked = e, !.id = id]
               k == [Absent EXCEPT !.st = "waiting", !.error = e]
    <2>2. button' = [button EXCEPT ![u] = y]
      BY <1>2 DEF ExplainCrash, JobId
    <2>3. job' = EnqueueCrashExplanation(id, e) /\ lastError' = lastError
      BY <1>2 DEF ExplainCrash, JobId
    <2>4. k \in JobRecords /\ k.st = "waiting" /\ k.error = e
      BY <2>1 DEF Absent, JobRecords, Answers
    <2>5. y \in ButtonRecords /\ y.st = "polling" /\ y.asked = e /\ y.id = id
      BY <2>1 DEF ButtonIdle, ButtonRecords, Answers
    <2>6. job' \in {job, [job EXCEPT ![id] = k]}
      BY <2>3 DEF EnqueueCrashExplanation
    <2> HIDE DEF y, k, id
    <2>7. job' \in [JobIds -> JobRecords] /\ JobsFit'
      BY <2>1, <2>4, <2>6 DEF CrashInv, CrashTypes, JobsFit
    <2>8. button' \in [Buttons -> ButtonRecords] /\ ButtonsFit'
      BY <2>1, <2>2, <2>5 DEF CrashInv, CrashTypes, ButtonsFit
    <2> QED BY <2>3, <2>7, <2>8 DEF CrashInv, CrashTypes
  <1> QED BY <1>1, <1>2

(* ExplainCrashButton.tsx: a page takes over the result of a completed job, *)
(* polls again or gives up.                                                 *)
LEMMA PollStep ==
  ASSUME CrashInv, NEW u \in Buttons, Poll(u)
  PROVE  CrashInv'
  <1> DEFINE x == button[u]
             j == job[x.id]
             failed == [x EXCEPT !.st = "error"]
             again == [x EXCEPT !.attempt = @ + 1]
             done == [x EXCEPT !.st = "done", !.result = j.result]
  <1>1. /\ x \in ButtonRecords /\ x.st = "polling" /\ x.asked \in Errors
        /\ x.id \in JobIds /\ x.id[2] = HashError[x.asked]
    BY DEF Poll, CrashInv, CrashTypes, ButtonsFit
  <1>2. j \in JobRecords /\ (j.st = "completed" => Fits(j.result, HashError[x.asked]))
    BY <1>1 DEF CrashInv, CrashTypes, JobsFit
  <1>3. PICK y :
          /\ button' = [button EXCEPT ![u] = y]
          /\ y \in {failed, again} \/ (y = done /\ j.st = "completed")
    BY DEF Poll
  <1>4. y \in ButtonRecords
    <2> HIDE DEF x, j
    <2>1. failed \in ButtonRecords
      BY <1>1 DEF ButtonRecords
    <2>2. again \in ButtonRecords
      <3>1. x.attempt \in Nat
        BY <1>1 DEF ButtonRecords
      <3>2. PICK n \in Nat : n = x.attempt + 1
        BY <3>1
      <3>3. [x EXCEPT !.attempt = n] \in ButtonRecords
        BY <1>1 DEF ButtonRecords
      <3> QED BY <3>2, <3>3
    <2>3. done \in ButtonRecords
      BY <1>1, <1>2 DEF ButtonRecords, JobRecords
    <2> QED BY <1>3, <2>1, <2>2, <2>3
  <1>5. /\ y.st = "polling" => y.asked = x.asked /\ y.id = x.id
        /\ y.st = "done" => y.asked = x.asked /\ Fits(y.result, HashError[x.asked])
    BY <1>1, <1>2, <1>3 DEF ButtonRecords, JobRecords
  <1>6. button' \in [Buttons -> ButtonRecords] /\ ButtonsFit'
    <2> HIDE DEF x, j, failed, again, done
    <2> QED BY <1>1, <1>3, <1>4, <1>5 DEF CrashInv, CrashTypes, ButtonsFit
  <1>7. lastError' = lastError /\ job' = job
    BY DEF Poll
  <1> QED BY <1>6, <1>7 DEF CrashInv, CrashTypes, JobsFit

(* ai-worker.ts: a job is processed, fails or is removed. *)
LEMMA JobStep ==
  ASSUME CrashInv, NEW i \in JobIds, ProcessExplainCrash(i) \/ JobFails(i) \/ JobExpires(i)
  PROVE  CrashInv'
  <1> DEFINE answer == AnalyzeCrash(job[i].error)
             done == [job[i] EXCEPT !.st = "completed", !.result = answer]
             failed == [job[i] EXCEPT !.st = "failed"]
  <1>1. /\ job[i] \in JobRecords /\ job[i].st # "absent" /\ job[i].error \in Errors
        /\ HashError[job[i].error] = i[2]
    BY DEF ProcessExplainCrash, JobFails, JobExpires, CrashInv, CrashTypes, JobsFit
  <1>2. answer \in Answers /\ Fits(answer, i[2])
    BY <1>1 DEF Answers, Fits
  <1>3. PICK k \in {done, failed, Absent} : job' = [job EXCEPT ![i] = k]
    <2>1. CASE ProcessExplainCrash(i)
      <3>1. job' = [job EXCEPT ![i] = done]
        BY <2>1, <1>1 DEF ProcessExplainCrash, CrashInv, CrashTypes, JobRecords
      <3> QED BY <3>1
    <2>2. CASE JobFails(i)
      <3>1. job' = [job EXCEPT ![i] = failed]
        BY <2>2, <1>1 DEF JobFails, CrashInv, CrashTypes, JobRecords
      <3> QED BY <3>1
    <2>3. CASE JobExpires(i)
      BY <2>3 DEF JobExpires
    <2> QED BY <2>1, <2>2, <2>3
  <1> HIDE DEF answer
  <1>4. /\ k \in JobRecords
        /\ k.st # "absent" => k.error = job[i].error
        /\ k.st = "completed" => k.result = answer
    <2>1. /\ done \in JobRecords /\ done.error = job[i].error /\ done.result = answer
      BY <1>1, <1>2 DEF JobRecords
    <2>2. /\ failed \in JobRecords /\ failed.error = job[i].error /\ failed.st = "failed"
      BY <1>1 DEF JobRecords
    <2>3. Absent \in JobRecords /\ Absent.st = "absent"
      BY DEF Absent, JobRecords, Answers
    <2> QED BY <1>3, <2>1, <2>2, <2>3
  <1>5. job' \in [JobIds -> JobRecords] /\ JobsFit'
    <2> HIDE DEF done, failed
    <2> QED BY <1>1, <1>2, <1>3, <1>4 DEF CrashInv, CrashTypes, JobsFit
  <1>6. lastError' = lastError /\ button' = button
    BY DEF ProcessExplainCrash, JobFails, JobExpires
  <1> QED BY <1>5, <1>6 DEF CrashInv, CrashTypes, ButtonsFit

(* Every step keeps jobs and pages about the hash they are named for. *)
LEMMA CrashStep == CrashInv /\ [CrashNext]_crashVars => CrashInv'
  <1> SUFFICES ASSUME CrashInv, [CrashNext]_crashVars PROVE CrashInv'
    OBVIOUS
  <1>1. ASSUME NEW b \in CrashBots, NEW e \in Errors, BotFails(b, e) PROVE CrashInv'
    BY <1>1 DEF BotFails, CrashInv, CrashTypes, JobsFit, ButtonsFit
  <1>2. CASE UNCHANGED crashVars
    BY <1>2 DEF crashVars, CrashInv, CrashTypes, JobsFit, ButtonsFit
  <1> QED BY <1>1, <1>2, AskStep, PollStep, JobStep DEF CrashNext

(* ai-queue.ts:34-36: the explanation shown is that of the error the click  *)
(* was about, or of one with the same hash, for any number of bots, errors, *)
(* pages and clicks, and any hash function.                                 *)
THEOREM AnswerFitsTheorem == CrashSpec => []AnswerFits
  <1>1. CrashInv => AnswerFits
    BY DEF CrashInv, ButtonsFit, AnswerFits, Fits
  <1> QED BY <1>1, CrashInitInv, CrashStep, PTL DEF CrashSpec

-----------------------------------------------------------------------------
(* Alerts: a look, then a creation *)

(* The progress of an evaluation. *)
Evals ==
  [pc : {"idle", "evaluate", "find", "create"},
   rule : {"high-restart-count", "guild-limit-approaching"}, title : Titles \cup {NoTitle}]

(* The evaluations that found no alert with title t and are about to create one. *)
Creators(t) == {e \in Evaluators : evaluation[e].pc = "create" /\ evaluation[e].title = t}

(* The types, with every title in the set of titles an alert can have. *)
AlertTypes ==
  /\ restarted \in [AlertBots -> Nat] /\ nearLimit \subseteq GuildBots
  /\ \A b \in AlertBots : restarted[b] >= 3 => restarted[b] <= MaxRestarts[b]
  /\ open \in [Titles -> Nat]
  /\ evaluation \in [Evaluators -> Evals]
  /\ \A e \in Evaluators : evaluation[e].pc \in {"find", "create"} => evaluation[e].title \in Titles

(* Neither the open alerts with a title nor those about to be added exceed the  *)
(* number of evaluations.                                                       *)
CreationsBounded ==
  \A t \in Titles : open[t] + Cardinality(Creators(t)) <= Cardinality(Evaluators)

AlertsInv == AlertTypes /\ CreationsBounded

(* The sizes the bound adds up are numbers. *)
LEMMA CreatorsFinite ==
  ASSUME NEW t
  PROVE  /\ IsFiniteSet(Creators(t)) /\ Cardinality(Creators(t)) \in Nat
         /\ Cardinality(Evaluators) \in Nat
         /\ Cardinality(Creators(t)) <= Cardinality(Evaluators)
  <1>1. Creators(t) \subseteq Evaluators
    BY DEF Creators
  <1>2. IsFiniteSet(Evaluators)
    BY AlertsAssumption
  <1> QED BY <1>1, <1>2, FS_Subset, FS_CardinalityType

(* An evaluation that does not begin to create leaves the bound alone. *)
LEMMA NoNewCreator ==
  ASSUME AlertsInv, AlertTypes', open' = open,
         \A e \in Evaluators : evaluation'[e].pc = "create" => evaluation'[e] = evaluation[e]
  PROVE  CreationsBounded'
  <1> SUFFICES ASSUME NEW t \in Titles
               PROVE  open'[t] + Cardinality(Creators(t)') <= Cardinality(Evaluators)
    BY DEF CreationsBounded
  <1>1. Creators(t)' \subseteq Creators(t)
    BY DEF Creators
  <1>2. /\ Cardinality(Creators(t)') \in Nat /\ Cardinality(Creators(t)') <= Cardinality(Creators(t))
    BY <1>1, CreatorsFinite, FS_Subset, FS_CardinalityType
  <1>3. open[t] + Cardinality(Creators(t)) <= Cardinality(Evaluators) /\ open[t] \in Nat
    BY DEF AlertsInv, AlertTypes, CreationsBounded
  <1> QED BY <1>2, <1>3, CreatorsFinite

(* evaluate-rules.ts: what the two rules report has a title of its kind. *)
LEMMA RuleTitles ==
  ASSUME AlertTypes
  PROVE  HighRestartCount \subseteq Titles /\ GuildLimitApproaching \subseteq Titles
  <1>1. ASSUME NEW b \in AlertBots, restarted[b] >= HIGH_RESTART_THRESHOLD
        PROVE  RestartTitle(b) \in Titles
    <2>1. restarted[b] \in HIGH_RESTART_THRESHOLD .. MaxRestarts[b]
      BY <1>1, AlertsAssumption DEF AlertTypes, HIGH_RESTART_THRESHOLD
    <2>2. RestartTitle(b) \in {"restarts"} \X {b} \X (HIGH_RESTART_THRESHOLD .. MaxRestarts[b])
      BY <2>1 DEF RestartTitle
    <2> QED BY <2>2 DEF Titles, RestartTitles
  <1>2. ASSUME NEW b \in GuildBots PROVE GuildTitle(b) \in Titles
    BY DEF GuildTitle, GuildTitles, Titles
  <1> QED BY <1>1, <1>2 DEF AlertTypes, HighRestartCount, GuildLimitApproaching

(* After a rule comes the next, or the end of the evaluation. *)
LEMMA NextRuleType ==
  ASSUME NEW x \in Evals
  PROVE  NextRule(x) \in Evals /\ NextRule(x).pc \in {"idle", "evaluate"}
  BY DEF NextRule, EvalIdle, Evals

(* No alert and no evaluation to begin with. *)
LEMMA AlertsInitInv == AlertsInit => AlertsInv
  <1> SUFFICES ASSUME AlertsInit PROVE AlertsInv
    OBVIOUS
  <1>1. EvalIdle \in Evals /\ EvalIdle.pc = "idle"
    BY DEF EvalIdle, Evals
  <1>2. AlertTypes
    BY <1>1, AlertsAssumption DEF AlertsInit, AlertTypes, HIGH_RESTART_THRESHOLD
  <1>3. ASSUME NEW t \in Titles PROVE open[t] = 0
    BY DEF AlertsInit
  <1>4. CreationsBounded
    BY <1>3, CreatorsFinite DEF CreationsBounded
  <1> QED BY <1>2, <1>4 DEF AlertsInv

(* An evaluation begins, evaluates a rule or is lost: nobody is about to *)
(* create.                                                               *)
LEMMA EvaluatorStep ==
  ASSUME AlertsInv, NEW e \in Evaluators,
         EvaluateBegins(e) \/ EvaluateRule(e) \/ EvaluationLost(e)
  PROVE  AlertsInv'
  <1>1. PICK x \in Evals :
          /\ evaluation' = [evaluation EXCEPT ![e] = x] /\ x.pc # "create"
          /\ x.pc = "find" => x.title \in Titles
    <2>1. EvalIdle \in Evals /\ EvalIdle.pc = "idle"
      BY DEF EvalIdle, Evals
    <2>2. CASE EvaluateBegins(e)
      <3>1. [EvalIdle EXCEPT !.pc = "evaluate"] \in Evals
        BY DEF EvalIdle, Evals
      <3>2. [EvalIdle EXCEPT !.pc = "evaluate"].pc = "evaluate"
        BY DEF EvalIdle
      <3> QED BY <3>1, <3>2, <2>2 DEF EvaluateBegins
    <2>3. CASE EvaluationLost(e)
      BY <2>1, <2>3 DEF EvaluationLost
    <2>4. CASE EvaluateRule(e)
      <3>1. CASE evaluation' = [evaluation EXCEPT ![e] = NextRule(@)]
        BY <3>1, NextRuleType DEF AlertsInv, AlertTypes
      <3>2. ASSUME NEW t \in HighRestartCount \cup GuildLimitApproaching,
                   evaluation' = [evaluation EXCEPT ![e].pc = "find", ![e].title = t]
            PROVE  \E x \in Evals :
                     /\ evaluation' = [evaluation EXCEPT ![e] = x] /\ x.pc # "create"
                     /\ x.pc = "find" => x.title \in Titles
        <4> DEFINE y == [evaluation[e] EXCEPT !.pc = "find", !.title = t]
        <4>1. t \in Titles
          BY RuleTitles DEF AlertsInv
        <4>2. y \in Evals /\ y.pc = "find" /\ y.title = t
          BY <4>1 DEF AlertsInv, AlertTypes, Evals
        <4>3. evaluation' = [evaluation EXCEPT ![e] = y]
          BY <3>2 DEF AlertsInv, AlertTypes, Evals
        <4> QED BY <4>1, <4>2, <4>3
      <3> QED BY <3>1, <3>2, <2>4 DEF EvaluateRule
    <2> QED BY <2>2, <2>3, <2>4
  <1>2. UNCHANGED <<restarted, nearLimit, open>>
    BY DEF EvaluateBegins, EvaluateRule, EvaluationLost
  <1>3. AlertTypes'
    BY <1>1, <1>2 DEF AlertsInv, AlertTypes
  <1>4. CreationsBounded'
    BY <1>1, <1>2, <1>3, NoNewCreator DEF AlertsInv, AlertTypes
  <1> QED BY <1>3, <1>4 DEF AlertsInv

(* Two evaluations may both find nothing: but nothing is open then. *)
LEMMA FindStep ==
  ASSUME AlertsInv, NEW e \in Evaluators, FindOpen(e)
  PROVE  AlertsInv'
  <1> DEFINE t == evaluation[e].title
             c == [evaluation[e] EXCEPT !.pc = "create"]
  <1>1. t \in Titles /\ evaluation[e] \in Evals /\ UNCHANGED <<restarted, nearLimit, open>>
    BY DEF FindOpen, AlertsInv, AlertTypes
  <1>2. c \in Evals /\ c.pc = "create" /\ c.title = t
    BY <1>1 DEF Evals
  <1>3. CASE open[t] > 0
    <2>1. evaluation' = [evaluation EXCEPT ![e] = NextRule(@)]
      BY <1>3 DEF FindOpen, AlertsInv, AlertTypes
    <2>2. AlertTypes'
      BY <1>1, <2>1, NextRuleType DEF AlertsInv, AlertTypes
    <2>3. CreationsBounded'
      BY <1>1, <2>1, <2>2, NextRuleType, NoNewCreator DEF AlertsInv, AlertTypes
    <2> QED BY <2>2, <2>3 DEF AlertsInv
  <1>4. CASE ~(open[t] > 0)
    <2>1. evaluation' = [evaluation EXCEPT ![e] = c]
      BY <1>4 DEF FindOpen, AlertsInv, AlertTypes
    <2> HIDE DEF c
    <2>2. AlertTypes'
      BY <1>1, <1>2, <2>1 DEF AlertsInv, AlertTypes
    <2>3. ASSUME NEW s \in Titles
          PROVE  open'[s] + Cardinality(Creators(s)') <= Cardinality(Evaluators)
      <3>1. CASE s = t
        <4>1. open'[s] = 0
          BY <1>1, <1>4, <3>1 DEF AlertsInv, AlertTypes
        <4>2. Creators(s)' \subseteq Evaluators
          BY DEF Creators
        <4> QED BY <4>1, <4>2, AlertsAssumption, FS_Subset, FS_CardinalityType
      <3>2. CASE s # t
        <4>1. Creators(s)' \subseteq Creators(s)
          BY <1>2, <2>1, <3>2 DEF Creators, AlertsInv, AlertTypes
        <4>2. /\ Cardinality(Creators(s)') \in Nat
              /\ Cardinality(Creators(s)') <= Cardinality(Creators(s))
          BY <4>1, CreatorsFinite, FS_Subset, FS_CardinalityType
        <4>3. open[s] + Cardinality(Creators(s)) <= Cardinality(Evaluators) /\ open[s] \in Nat
          BY DEF AlertsInv, AlertTypes, CreationsBounded
        <4> QED BY <1>1, <4>2, <4>3, CreatorsFinite
      <3> QED BY <3>1, <3>2
    <2> QED BY <2>2, <2>3 DEF AlertsInv, CreationsBounded
  <1> QED BY <1>3, <1>4

(* A creation adds an alert and takes away a creator. *)
LEMMA CreateStep ==
  ASSUME AlertsInv, NEW e \in Evaluators, CreateAlert(e)
  PROVE  AlertsInv'
  <1> DEFINE t == evaluation[e].title
  <1>1. /\ t \in Titles /\ evaluation[e] \in Evals /\ UNCHANGED <<restarted, nearLimit>>
        /\ evaluation[e].pc = "create"
        /\ evaluation' = [evaluation EXCEPT ![e] = NextRule(@)]
        /\ open' = [open EXCEPT ![t] = @ + 1]
    BY DEF CreateAlert, AlertsInv, AlertTypes
  <1>2. AlertTypes'
    <2>1. open' \in [Titles -> Nat]
      BY <1>1 DEF AlertsInv, AlertTypes
    <2> QED BY <1>1, <2>1, NextRuleType DEF AlertsInv, AlertTypes
  <1>3. ASSUME NEW s \in Titles
        PROVE  open'[s] + Cardinality(Creators(s)') <= Cardinality(Evaluators)
    <2>1. open[s] + Cardinality(Creators(s)) <= Cardinality(Evaluators) /\ open[s] \in Nat
      BY DEF AlertsInv, AlertTypes, CreationsBounded
    <2>2. CASE s = t
      <3>1. e \in Creators(s) /\ Creators(s)' = Creators(s) \ {e}
        BY <1>1, <2>2, NextRuleType DEF Creators, AlertsInv, AlertTypes
      <3>2. Cardinality(Creators(s)') = Cardinality(Creators(s)) - 1
        BY <3>1, CreatorsFinite, FS_RemoveElement
      <3>3. open'[s] = open[s] + 1
        BY <1>1, <2>2 DEF AlertsInv, AlertTypes
      <3> QED BY <2>1, <3>2, <3>3, CreatorsFinite
    <2>3. CASE s # t
      <3>1. Creators(s)' \subseteq Creators(s)
        BY <1>1, NextRuleType DEF Creators, AlertsInv, AlertTypes
      <3>2. /\ Cardinality(Creators(s)') \in Nat
            /\ Cardinality(Creators(s)') <= Cardinality(Creators(s))
        BY <3>1, CreatorsFinite, FS_Subset, FS_CardinalityType
      <3>3. open'[s] = open[s]
        BY <1>1, <2>3 DEF AlertsInv, AlertTypes
      <3> QED BY <2>1, <3>2, <3>3, CreatorsFinite
    <2> QED BY <2>2, <2>3
  <1> QED BY <1>2, <1>3 DEF AlertsInv, CreationsBounded

(* Every step keeps the bound. *)
LEMMA AlertsStep == AlertsInv /\ [AlertsNext]_alertsVars => AlertsInv'
  <1> SUFFICES ASSUME AlertsInv, [AlertsNext]_alertsVars PROVE AlertsInv'
    OBVIOUS
  <1>1. ASSUME NEW b \in AlertBots, BotRestarts(b) \/ GuildsChange(b) PROVE AlertsInv'
    <2>1. AlertTypes'
      <3>1. CASE BotRestarts(b)
        <4>1. MaxRestarts[b] \in Nat
          BY AlertsAssumption
        <4>2. /\ restarted' \in [AlertBots -> Nat]
              /\ \A c \in AlertBots : restarted'[c] >= 3 => restarted'[c] <= MaxRestarts[c]
          BY <3>1, <4>1 DEF BotRestarts, AlertsInv, AlertTypes
        <4> QED BY <3>1, <4>2 DEF BotRestarts, AlertsInv, AlertTypes
      <3>2. CASE GuildsChange(b)
        <4>1. nearLimit' \subseteq GuildBots
          BY <3>2 DEF GuildsChange, AlertsInv, AlertTypes
        <4> QED BY <3>2, <4>1 DEF GuildsChange, AlertsInv, AlertTypes
      <3> QED BY <1>1, <3>1, <3>2
    <2>2. open' = open /\ evaluation' = evaluation
      BY <1>1 DEF BotRestarts, GuildsChange
    <2> QED BY <2>1, <2>2, NoNewCreator DEF AlertsInv
  <1>2. CASE UNCHANGED alertsVars
    <2>1. AlertTypes'
      BY <1>2 DEF alertsVars, AlertsInv, AlertTypes
    <2> QED BY <1>2, <2>1, NoNewCreator DEF alertsVars, AlertsInv
  <1> QED BY <1>1, <1>2, EvaluatorStep, FindStep, CreateStep DEF AlertsNext

(* evaluate-rules.ts:30-47: however evaluations overlap between the look for *)
(* an open alert and its creation, there are never more open alerts with one *)
(* title than evaluations that can overlap, for any number of bots, restarts *)
(* and evaluations.                                                          *)
THEOREM DuplicatesBoundedTheorem == AlertsSpec => []DuplicatesBounded
  <1>1. AlertsInv => DuplicatesBounded
    <2> SUFFICES ASSUME AlertsInv, NEW t \in Titles PROVE open[t] <= Cardinality(Evaluators)
      BY DEF DuplicatesBounded
    <2>1. open[t] + Cardinality(Creators(t)) <= Cardinality(Evaluators) /\ open[t] \in Nat
      BY DEF AlertsInv, AlertTypes, CreationsBounded
    <2> QED BY <2>1, CreatorsFinite
  <1> QED BY <1>1, AlertsInitInv, AlertsStep, PTL DEF AlertsSpec

-----------------------------------------------------------------------------
(* RateLimiter: fixed windows *)

(* The calls of the current window are the last count of those let through. *)
Before == Len(passes) - count

LimiterTypes ==
  /\ time \in Nat /\ windowStart \in Nat /\ count \in Nat /\ passes \in Seq(Nat)
  /\ windowStart <= time /\ count <= MaxPerWindow /\ count <= Len(passes)

(* They are in order of time; those of the window are not before its start, *)
(* the others are; a call that MaxPerWindow others followed before the      *)
(* window is a whole window older, and so is one that two budgets followed. *)
PassesOrdered ==
  /\ \A i, j \in 1 .. Len(passes) : i <= j => passes[i] <= passes[j]
  /\ \A i \in 1 .. Len(passes) : passes[i] <= time /\ passes[i] < windowStart + WindowMs
  /\ \A i \in 1 .. Before : passes[i] < windowStart
  /\ \A i \in 1 .. Len(passes) : i > Before => passes[i] >= windowStart

BudgetsApart ==
  /\ \A i \in 1 .. Len(passes) : i + MaxPerWindow <= Before => passes[i] + WindowMs <= windowStart
  /\ \A i, j \in 1 .. Len(passes) : j = i + 2 * MaxPerWindow => passes[i] + WindowMs <= passes[j]

LimiterInv == LimiterTypes /\ PassesOrdered /\ BudgetsApart

(* No call was let through yet. *)
LEMMA LimiterInitInv == LimiterInit => LimiterInv
  BY RateLimiterAssumption
  DEF LimiterInit, LimiterInv, LimiterTypes, PassesOrdered, BudgetsApart, Before

(* The window as TryConsume finds or makes it. *)
LEMMA WindowMoves ==
  ASSUME LimiterInv, NEW used \in Nat, NEW start \in Nat,
         \/ time - windowStart >= WindowMs /\ used = 0 /\ start = time
         \/ ~(time - windowStart >= WindowMs) /\ used = count /\ start = windowStart
  PROVE  /\ start <= time /\ time < start + WindowMs
         /\ used <= MaxPerWindow /\ used <= Len(passes)
         /\ \A i \in 1 .. Len(passes) : passes[i] < start + WindowMs
         /\ \A i \in 1 .. Len(passes) - used : passes[i] < start
         /\ \A i \in 1 .. Len(passes) : i > Len(passes) - used => passes[i] >= start
         /\ \A i \in 1 .. Len(passes) :
              i + MaxPerWindow <= Len(passes) - used => passes[i] + WindowMs <= start
  <1>1. Len(passes) \in Nat /\ \A i \in 1 .. Len(passes) : passes[i] \in Nat
    BY DEF LimiterInv, LimiterTypes
  <1>2. CASE time - windowStart >= WindowMs /\ used = 0 /\ start = time
    <2>1. \A i \in 1 .. Len(passes) : i + MaxPerWindow <= Len(passes) => i \in 1 .. Before
      BY <1>1, RateLimiterAssumption DEF LimiterInv, LimiterTypes, Before
    <2> QED BY <1>1, <1>2, <2>1, RateLimiterAssumption DEF LimiterInv, LimiterTypes, PassesOrdered
  <1>3. CASE ~(time - windowStart >= WindowMs) /\ used = count /\ start = windowStart
    BY <1>1, <1>3, RateLimiterAssumption
    DEF LimiterInv, LimiterTypes, PassesOrdered, BudgetsApart, Before
  <1> QED BY <1>2, <1>3

(* rate-limiter.ts, tryConsume: a call is counted in the window, in a new *)
(* one, or refused.                                                       *)
LEMMA ConsumeStep ==
  ASSUME LimiterInv, TryConsume
  PROVE  LimiterInv'
  <1> DEFINE fresh == time - windowStart >= WindowMs
             used == IF fresh THEN 0 ELSE count
             start == IF fresh THEN time ELSE windowStart
  <1>1. /\ windowStart' = start /\ time' = time
        /\ \/ used >= MaxPerWindow /\ count' = used /\ passes' = passes
           \/ ~(used >= MaxPerWindow) /\ count' = used + 1 /\ passes' = Append(passes, time)
    BY DEF TryConsume
  <1>2. /\ used \in Nat /\ start \in Nat
        /\ \/ time - windowStart >= WindowMs /\ used = 0 /\ start = time
           \/ ~(time - windowStart >= WindowMs) /\ used = count /\ start = windowStart
    BY DEF LimiterInv, LimiterTypes
  <1> HIDE DEF fresh, used, start
  <1>3. /\ start <= time /\ time < start + WindowMs
        /\ used <= MaxPerWindow /\ used <= Len(passes)
        /\ \A i \in 1 .. Len(passes) : passes[i] < start + WindowMs
        /\ \A i \in 1 .. Len(passes) - used : passes[i] < start
        /\ \A i \in 1 .. Len(passes) : i > Len(passes) - used => passes[i] >= start
        /\ \A i \in 1 .. Len(passes) :
             i + MaxPerWindow <= Len(passes) - used => passes[i] + WindowMs <= start
    BY <1>2, WindowMoves
  <1>4. Len(passes) \in Nat /\ \A i \in 1 .. Len(passes) : passes[i] \in Nat /\ passes[i] <= time
    BY DEF LimiterInv, LimiterTypes, PassesOrdered
  <1>5. CASE count' = used /\ passes' = passes
    <2>1. LimiterTypes'
      BY <1>1, <1>2, <1>3, <1>5 DEF LimiterInv, LimiterTypes
    <2>2. PassesOrdered'
      BY <1>1, <1>2, <1>3, <1>4, <1>5 DEF LimiterInv, PassesOrdered, Before
    <2>3. BudgetsApart'
      BY <1>1, <1>2, <1>3, <1>4, <1>5 DEF LimiterInv, BudgetsApart, Before
    <2> QED BY <2>1, <2>2, <2>3 DEF LimiterInv
  <1>6. CASE ~(used >= MaxPerWindow) /\ count' = used + 1 /\ passes' = Append(passes, time)
    <2>1. /\ passes' \in Seq(Nat) /\ Len(passes') = Len(passes) + 1
          /\ passes'[Len(passes) + 1] = time
          /\ \A i \in 1 .. Len(passes) : passes'[i] = passes[i]
      BY <1>6 DEF LimiterInv, LimiterTypes
    <2>2. Before' = Len(passes) - used
      BY <1>2, <1>4, <1>6, <2>1 DEF Before
    <2>3. LimiterTypes'
      BY <1>1, <1>2, <1>3, <1>4, <1>6, <2>1, RateLimiterAssumption DEF LimiterInv, LimiterTypes
    <2>4. ASSUME NEW i \in 1 .. Len(passes') PROVE i \in 1 .. Len(passes) \/ i = Len(passes) + 1
      BY <1>4, <2>1
    <2>5. PassesOrdered'
      <3>1. ASSUME NEW i \in 1 .. Len(passes'), NEW j \in 1 .. Len(passes'), i <= j
            PROVE  passes'[i] <= passes'[j]
        <4>1. CASE j \in 1 .. Len(passes)
          <5>1. i \in 1 .. Len(passes)
            BY <1>4, <3>1, <4>1
          <5> QED BY <3>1, <4>1, <5>1, <2>1 DEF LimiterInv, PassesOrdered
        <4>2. CASE j = Len(passes) + 1
          BY <4>2, <1>4, <2>1, <2>4 DEF LimiterInv, LimiterTypes
        <4> QED BY <2>4, <4>1, <4>2
      <3>2. ASSUME NEW i \in 1 .. Len(passes')
            PROVE  passes'[i] <= time' /\ passes'[i] < windowStart' + WindowMs
        <4>1. CASE i \in 1 .. Len(passes)
          BY <4>1, <1>1, <1>3, <1>4, <2>1
        <4>2. CASE i = Len(passes) + 1
          BY <4>2, <1>1, <1>3, <2>1 DEF LimiterInv, LimiterTypes
        <4> QED BY <2>4, <4>1, <4>2
      <3>3. ASSUME NEW i \in 1 .. Before' PROVE passes'[i] < windowStart'
        <4>1. i \in 1 .. Len(passes) - used /\ i \in 1 .. Len(passes)
          BY <1>2, <1>4, <2>2
        <4> QED BY <4>1, <1>1, <1>3, <2>1
      <3>4. ASSUME NEW i \in 1 .. Len(passes'), i > Before' PROVE passes'[i] >= windowStart'
        <4>1. CASE i \in 1 .. Len(passes)
          BY <3>4, <4>1, <1>1, <1>3, <2>1, <2>2
        <4>2. CASE i = Len(passes) + 1
          BY <4>2, <1>1, <1>3, <2>1 DEF LimiterInv, LimiterTypes
        <4> QED BY <2>4, <4>1, <4>2
      <3> QED BY <3>1, <3>2, <3>3, <3>4 DEF PassesOrdered
    <2>6. BudgetsApart'
      <3>1. ASSUME NEW i \in 1 .. Len(passes'), i + MaxPerWindow <= Before'
            PROVE  passes'[i] + WindowMs <= windowStart'
        <4>1. i \in 1 .. Len(passes) /\ i + MaxPerWindow <= Len(passes) - used
          BY <3>1, <1>2, <1>4, <2>2, RateLimiterAssumption
        <4> QED BY <4>1, <1>1, <1>3, <2>1
      <3>2. ASSUME NEW i \in 1 .. Len(passes'), NEW j \in 1 .. Len(passes'),
                   j = i + 2 * MaxPerWindow
            PROVE  passes'[i] + WindowMs <= passes'[j]
        <4>1. CASE j \in 1 .. Len(passes)
          <5>1. i \in 1 .. Len(passes)
            BY <3>2, <4>1, <1>4, RateLimiterAssumption
          <5> QED BY <3>2, <4>1, <5>1, <2>1 DEF LimiterInv, BudgetsApart
        <4>2. CASE j = Len(passes) + 1
          <5>1. i \in 1 .. Len(passes') /\ i + MaxPerWindow <= Before'
            BY <3>2, <4>2, <1>2, <1>4, <1>6, <2>2, RateLimiterAssumption
          <5>2. passes'[i] + WindowMs <= windowStart' /\ passes'[i] \in Nat
            BY <3>1, <5>1, <2>1
          <5> QED BY <4>2, <5>2, <1>1, <1>2, <1>3, <2>1, RateLimiterAssumption DEF LimiterInv, LimiterTypes
        <4> QED BY <2>4, <4>1, <4>2
      <3> QED BY <3>1, <3>2 DEF BudgetsApart
    <2> QED BY <2>3, <2>5, <2>6 DEF LimiterInv
  <1> QED BY <1>1, <1>5, <1>6

(* Every step keeps the order of the calls and the distance of their budgets. *)
LEMMA LimiterStep == LimiterInv /\ [LimiterNext]_limiterVars => LimiterInv'
  <1> SUFFICES ASSUME LimiterInv, [LimiterNext]_limiterVars PROVE LimiterInv'
    OBVIOUS
  <1>1. CASE TimePasses
    BY <1>1 DEF TimePasses, LimiterInv, LimiterTypes, PassesOrdered, BudgetsApart, Before
  <1>2. CASE UNCHANGED limiterVars
    BY <1>2 DEF limiterVars, LimiterInv, LimiterTypes, PassesOrdered, BudgetsApart, Before
  <1> QED BY <1>1, <1>2, ConsumeStep DEF LimiterNext

(* A set of natural numbers has a least element. *)
LEMMA LeastElement ==
  ASSUME NEW S \in SUBSET Nat, S # {}
  PROVE  \E m \in S : \A i \in S : m <= i
  <1>1. PICK m \in S : \A i \in S : ~(<<i, m>> \in OpToRel(<, Nat))
    BY NatLessThanWellFounded, WFMin
  <1>2. ASSUME NEW i \in S PROVE m <= i
    <2>1. ~(<<i, m>> \in {ss \in Nat \X Nat : ss[1] < ss[2]})
      BY <1>1 DEF OpToRel
    <2> QED BY <2>1
  <1> QED BY <1>2

(* rate-limiter.ts:2-6: no period as long as the window has more than two *)
(* budgets of calls, wherever it begins, for every budget, window and     *)
(* sequence of calls.                                                     *)
THEOREM BurstBoundedTheorem == LimiterSpec => []BurstBounded
  <1>1. LimiterInv => BurstBounded
    <2> SUFFICES ASSUME LimiterInv, NEW t \in 0 .. Horizon
                 PROVE  Cardinality({i \in DOMAIN passes : passes[i] \in t .. t + WindowMs - 1})
                          <= 2 * MaxPerWindow
      BY DEF BurstBounded
    <2> DEFINE S == {i \in DOMAIN passes : passes[i] \in t .. t + WindowMs - 1}
    <2>1. DOMAIN passes = 1 .. Len(passes) /\ Len(passes) \in Nat
      BY DEF LimiterInv, LimiterTypes
    <2>2. S \subseteq Nat
      BY <2>1
    <2>3. CASE S = {}
      BY <2>3, FS_EmptySet, RateLimiterAssumption
    <2>4. CASE S # {}
      <3>1. PICK m \in S : \A i \in S : m <= i
        BY <2>2, <2>4, LeastElement
      <3>2. S \subseteq m .. m + 2 * MaxPerWindow - 1
        <4> SUFFICES ASSUME NEW j \in S, ~(j <= m + 2 * MaxPerWindow - 1) PROVE FALSE
          BY <2>2, <3>1, RateLimiterAssumption
        <4> DEFINE k == m + 2 * MaxPerWindow
        <4>1. k <= j /\ k \in 1 .. Len(passes) /\ m \in 1 .. Len(passes) /\ j \in 1 .. Len(passes)
          BY <2>1, RateLimiterAssumption
        <4>2. passes[m] + WindowMs <= passes[k] /\ passes[k] <= passes[j]
          BY <4>1 DEF LimiterInv, BudgetsApart, PassesOrdered
        <4>3. passes[m] \in Nat /\ passes[k] \in Nat /\ passes[j] \in Nat
          BY <4>1 DEF LimiterInv, LimiterTypes
        <4>4. t \in Nat /\ passes[m] \in t .. t + WindowMs - 1 /\ passes[j] \in t .. t + WindowMs - 1
          BY RateLimiterAssumption
        <4> HIDE DEF k, S
        <4> QED BY <4>2, <4>3, <4>4, RateLimiterAssumption
      <3> DEFINE b == m + 2 * MaxPerWindow - 1
      <3>3. m \in Int /\ b \in Int
        BY <2>2, <3>1, RateLimiterAssumption
      <3>4. IsFiniteSet(m .. b) /\ Cardinality(m .. b) = IF m > b THEN 0 ELSE b - m + 1
        <4> HIDE DEF b
        <4> QED BY <3>3, FS_Interval
      <3>5. Cardinality(m .. b) <= 2 * MaxPerWindow
        BY <3>3, <3>4, RateLimiterAssumption
      <3> HIDE DEF b, S
      <3>6. Cardinality(S) <= Cardinality(m .. b) /\ IsFiniteSet(S) /\ S \subseteq m .. b
        BY <3>2, <3>4, FS_Subset DEF b
      <3>7. Cardinality(S) \in Nat /\ Cardinality(m .. b) \in Nat /\ 2 * MaxPerWindow \in Nat
        BY <3>4, <3>6, FS_CardinalityType, RateLimiterAssumption
      <3>8. Cardinality(S) <= 2 * MaxPerWindow
        BY <3>5, <3>6, <3>7
      <3> QED BY <3>8 DEF S
    <2> QED BY <2>3, <2>4
  <1> QED BY <1>1, LimiterInitInv, LimiterStep, PTL DEF LimiterSpec

-----------------------------------------------------------------------------
(* Placement: the scheduler and the drain of an agent *)

(* A finite set of agents with scores has one that sorts first. *)
LEMMA FirstExists ==
  ASSUME NEW S \in SUBSET Nat, IsFiniteSet(S), S # {}, NEW f, \A a \in S : f[a] \in Int
  PROVE  \E a \in S : SortsFirst(S, f, a)
  <1> DEFINE T == {X \in SUBSET S : X # {} /\ ~ \E a \in X : SortsFirst(X, f, a)}
  <1>1. SUFFICES ASSUME T # {} PROVE FALSE
    <2>1. S \notin T => \E a \in S : SortsFirst(S, f, a)
      OBVIOUS
    <2> QED BY <1>1, <2>1
  <1>2. IsWellFoundedOn(StrictSubsetOrdering(S), SUBSET S)
    BY FS_StrictSubsetOrderingWellFounded, FS_FiniteSubsetsOfFinite
  <1>3. PICK X \in T : \A Y \in T : ~(<<Y, X>> \in StrictSubsetOrdering(S))
    <2>1. T \subseteq SUBSET S
      OBVIOUS
    <2> HIDE DEF T
    <2> QED BY <1>1, <1>2, <2>1, WFMin
  <1>4. PICK x \in X : TRUE
    OBVIOUS
  <1>5. X \ {x} # {}
    <2>1. X = {x} => SortsFirst(X, f, x)
      BY DEF SortsFirst
    <2> QED BY <1>4, <2>1
  <1>6. <<X \ {x}, X>> \in StrictSubsetOrdering(S)
    BY <1>4 DEF StrictSubsetOrdering
  <1>7. PICK y \in X \ {x} : SortsFirst(X \ {x}, f, y)
    BY <1>3, <1>5, <1>6
  <1>8. /\ x \in Nat /\ y \in Nat /\ f[x] \in Int /\ f[y] \in Int /\ x # y
        /\ \A b \in X : b \in Nat /\ f[b] \in Int
    BY <1>3, <1>4, <1>7
  <1>9. CASE f[y] > f[x] \/ (f[y] = f[x] /\ y < x)
    <2>1. SortsFirst(X, f, y)
      BY <1>7, <1>9 DEF SortsFirst
    <2> QED BY <1>3, <1>7, <2>1
  <1>10. CASE f[x] > f[y] \/ (f[x] = f[y] /\ x < y)
    <2>1. ASSUME NEW b \in X \ {x} PROVE f[x] > f[b] \/ (f[x] = f[b] /\ x < b)
      <3>1. b = y \/ f[y] > f[b] \/ (f[y] = f[b] /\ y < b)
        BY <1>7 DEF SortsFirst
      <3> QED BY <1>8, <1>10, <3>1
    <2>2. SortsFirst(X, f, x)
      BY <1>4, <2>1 DEF SortsFirst
    <2> QED BY <1>3, <1>4, <2>2
  <1> QED BY <1>8, <1>9, <1>10

(* No two agents sort first. *)
LEMMA FirstUnique ==
  ASSUME NEW S \in SUBSET Nat, NEW f, \A a \in S : f[a] \in Int,
         NEW a \in S, NEW b \in S, SortsFirst(S, f, a), SortsFirst(S, f, b)
  PROVE  a = b
  BY DEF SortsFirst

(* What scoring needs to know of the fleet, the demands and the workloads *)
(* hosted.                                                                *)
Sized(o) == /\ offer \in Fleets /\ need \in Demands
            /\ DOMAIN o = Agents /\ \A a \in Agents : o[a] \subseteq Workloads

(* Rounding gives an integer. *)
LEMMA RoundedType ==
  ASSUME NEW n \in Int, NEW d \in Int, d > 0
  PROVE  Rounded(n, d) \in Int
  BY DEF Rounded

(* schedule.ts:55-115: every term of the score is an integer. *)
LEMMA ScoreType ==
  ASSUME NEW w, IsFiniteSet(w.preferred), NEW hosted, Sized(hosted), NEW neighbours,
         NEW total \in Nat, NEW agents \in Nat, NEW a \in Agents
  PROVE  Score(a, w, hosted, neighbours, total, agents) \in Int
  <1> DEFINE load == Cardinality(hosted[a])
             region == IF w.region # "" /\ offer[a].region = w.region THEN 30 ELSE 0
             labels == 10 * Cardinality(w.preferred \cap offer[a].labels)
             memory == IF offer[a].total > 0 /\ offer[a].avail # Unknown
                         THEN Rounded(offer[a].avail * 20, offer[a].total) ELSE 0
             spread == IF total > 0 /\ total > load * agents
                         THEN Rounded((total - load * agents) * 10, total) ELSE 0
             apart == IF a \in neighbours THEN 0 ELSE 10
             stays == IF w.current = a THEN 10 ELSE 0
  <1>1. offer[a].total \in Int /\ offer[a].avail \in Int /\ offer[a].failures \in Nat
    BY PlacementAssumption DEF Sized
  <1>2. load \in Nat
    BY PlacementAssumption, FS_Subset, FS_CardinalityType DEF Sized
  <1>3. labels \in Int
    <2>1. IsFiniteSet(w.preferred \cap offer[a].labels)
      BY FS_Subset
    <2> QED BY <2>1, FS_CardinalityType
  <1>4. memory \in Int
    <2>1. offer[a].avail * 20 \in Int
      BY <1>1
    <2>2. offer[a].total > 0 => Rounded(offer[a].avail * 20, offer[a].total) \in Int
      <3> DEFINE n == offer[a].avail * 20
                 d == offer[a].total
      <3>1. n \in Int /\ d \in Int
        BY <1>1, <2>1
      <3> HIDE DEF n, d
      <3>2. d > 0 => Rounded(n, d) \in Int
        BY <3>1, RoundedType
      <3> QED BY <3>2 DEF n, d
    <2> QED BY <2>2
  <1>5. spread \in Int
    <2>1. load * agents \in Int /\ (total - load * agents) * 10 \in Int
      BY <1>2
    <2> HIDE DEF load
    <2> QED BY <2>1, RoundedType
  <1>6. region \in Int /\ apart \in Int /\ stays \in Int
    OBVIOUS
  <1>7. Score(a, w, hosted, neighbours, total, agents)
          = region + labels + memory + spread + apart + stays - 5 * offer[a].failures
    BY DEF Score
  <1> HIDE DEF region, labels, memory, spread, apart, stays, load
  <1> QED BY <1>1, <1>3, <1>4, <1>5, <1>6, <1>7

(* What scheduleWorkload returns: nobody, or the eligible agent that sorts first. *)
LEMMA SchedulePicks ==
  ASSUME NEW w, IsFiniteSet(w.preferred), NEW hosted, Sized(hosted), NEW neighbours,
         NEW pool \in SUBSET Agents,
         NEW total, total = Cardinality(UNION {hosted[a] : a \in pool}),
         NEW score, score = [a \in pool |-> Score(a, w, hosted, neighbours, total, Cardinality(pool))],
         NEW eligible, eligible = {a \in pool : Eligible(a, w, hosted)},
         NEW x, x = ScheduleWorkload(w, pool, hosted, neighbours)
  PROVE  /\ eligible = {} => x = NoAgent
         /\ eligible # {} => x \in eligible /\ SortsFirst(eligible, score, x)
         /\ \A a \in eligible : score[a] \in Int /\ a \in Nat \ {NoAgent}
         /\ \A a \in eligible : SortsFirst(eligible, score, a) => x = a
  <1>1. x = IF eligible = {} THEN NoAgent ELSE CHOOSE a \in eligible : SortsFirst(eligible, score, a)
    BY DEF ScheduleWorkload
  <1>2. total \in Nat
    <2>1. UNION {hosted[a] : a \in pool} \subseteq Workloads
      BY DEF Sized
    <2> QED BY <2>1, PlacementAssumption, FS_Subset, FS_CardinalityType
  <1>3. IsFiniteSet(pool) /\ Cardinality(pool) \in Nat /\ pool \subseteq Nat \ {NoAgent}
    BY PlacementAssumption, FS_Subset, FS_CardinalityType
  <1>4. \A a \in pool : score[a] \in Int
    BY <1>2, <1>3, ScoreType
  <1>5. eligible \in SUBSET Nat /\ IsFiniteSet(eligible) /\ eligible \subseteq pool
    BY <1>3, FS_Subset
  <1>6. \A a \in eligible : score[a] \in Int /\ a \in Nat \ {NoAgent}
    BY <1>3, <1>4, <1>5
  <1>7. ASSUME eligible # {} PROVE x \in eligible /\ SortsFirst(eligible, score, x)
    <2>1. \E a \in eligible : SortsFirst(eligible, score, a)
      BY <1>5, <1>6, <1>7, FirstExists
    <2> QED BY <1>1, <1>7, <2>1
  <1>8. ASSUME NEW a \in eligible, SortsFirst(eligible, score, a) PROVE x = a
    BY <1>5, <1>6, <1>7, <1>8, FirstUnique
  <1> QED BY <1>1, <1>6, <1>7, <1>8

(* schedule.ts: the target is one of the pool, if there is one. *)
LEMMA ScheduleTarget ==
  ASSUME NEW w, IsFiniteSet(w.preferred), NEW hosted, Sized(hosted), NEW neighbours,
         NEW pool \in SUBSET Agents
  PROVE  ScheduleWorkload(w, pool, hosted, neighbours) \in pool \cup {NoAgent}
  <1> DEFINE total == Cardinality(UNION {hosted[a] : a \in pool})
             score == [a \in pool |-> Score(a, w, hosted, neighbours, total, Cardinality(pool))]
             eligible == {a \in pool : Eligible(a, w, hosted)}
             x == ScheduleWorkload(w, pool, hosted, neighbours)
  <1>1. eligible \subseteq pool
    OBVIOUS
  <1>2. /\ total = Cardinality(UNION {hosted[a] : a \in pool})
        /\ score = [a \in pool |-> Score(a, w, hosted, neighbours, total, Cardinality(pool))]
        /\ eligible = {a \in pool : Eligible(a, w, hosted)}
        /\ x = ScheduleWorkload(w, pool, hosted, neighbours)
    OBVIOUS
  <1> HIDE DEF total, score, eligible, x
  <1>3. x \in eligible \cup {NoAgent}
    BY <1>2, SchedulePicks
  <1> QED BY <1>1, <1>3 DEF x

(* Of the score, only the stability bonus depends on where the workload is. *)
LEMMA BonusMoves ==
  ASSUME NEW w \in Workloads, NEW hosted, Sized(hosted), NEW neighbours,
         NEW total \in Nat, NEW agents \in Nat, NEW a \in Agents
  PROVE  \E base \in Int : \A c :
           Score(a, ToSchedulerWorkload(w, c), hosted, neighbours, total, agents)
             = base + (IF c = a THEN 10 ELSE 0)
  <1> DEFINE load == Cardinality(hosted[a])
             labels == 10 * Cardinality(need[w].preferred \cap offer[a].labels)
             memory == IF offer[a].total > 0 /\ offer[a].avail # Unknown
                         THEN Rounded(offer[a].avail * 20, offer[a].total) ELSE 0
             spread == IF total > 0 /\ total > load * agents
                         THEN Rounded((total - load * agents) * 10, total) ELSE 0
             apart == IF a \in neighbours THEN 0 ELSE 10
             base == 0 + labels + memory + spread + apart + 0 - 5 * offer[a].failures
  <1>1. offer[a].total \in Int /\ offer[a].avail \in Int /\ offer[a].failures \in Nat
    BY PlacementAssumption DEF Sized
  <1>2. load \in Nat
    BY PlacementAssumption, FS_Subset, FS_CardinalityType DEF Sized
  <1>3. labels \in Int
    <2>1. IsFiniteSet(need[w].preferred \cap offer[a].labels)
      BY PlacementAssumption, FS_Subset DEF Sized
    <2> QED BY <2>1, FS_CardinalityType
  <1>4. memory \in Int
    <2>1. offer[a].avail * 20 \in Int
      BY <1>1
    <2>2. offer[a].total > 0 => Rounded(offer[a].avail * 20, offer[a].total) \in Int
      <3> DEFINE n == offer[a].avail * 20
                 d == offer[a].total
      <3>1. n \in Int /\ d \in Int
        BY <1>1, <2>1
      <3> HIDE DEF n, d
      <3>2. d > 0 => Rounded(n, d) \in Int
        BY <3>1, RoundedType
      <3> QED BY <3>2 DEF n, d
    <2> QED BY <2>2
  <1>5. spread \in Int
    <2>1. load * agents \in Int /\ (total - load * agents) * 10 \in Int
      BY <1>2
    <2> HIDE DEF load
    <2> QED BY <2>1, RoundedType
  <1>6. apart \in Int
    OBVIOUS
  <1>7. ASSUME NEW c
        PROVE  Score(a, ToSchedulerWorkload(w, c), hosted, neighbours, total, agents)
                 = 0 + labels + memory + spread + apart + (IF c = a THEN 10 ELSE 0)
                     - 5 * offer[a].failures
    <2> DEFINE x == ToSchedulerWorkload(w, c)
    <2>1. x.region = "" /\ x.preferred = need[w].preferred /\ x.current = c
      BY DEF ToSchedulerWorkload
    <2> HIDE DEF x
    <2>2. Score(a, x, hosted, neighbours, total, agents)
            = 0 + labels + memory + spread + apart + (IF c = a THEN 10 ELSE 0)
                - 5 * offer[a].failures
      BY <2>1 DEF Score
    <2> QED BY <2>2 DEF x
  <1> HIDE DEF labels, memory, spread, apart, load
  <1>8. base \in Int
    BY <1>1, <1>3, <1>4, <1>5, <1>6
  <1>9. ASSUME NEW c
        PROVE  Score(a, ToSchedulerWorkload(w, c), hosted, neighbours, total, agents)
                 = base + (IF c = a THEN 10 ELSE 0)
    BY <1>1, <1>3, <1>4, <1>5, <1>6, <1>7
  <1> QED BY <1>8, <1>9

(* schedule.ts:109: the bonus of ten goes to the agent that sorted first      *)
(* without it, or kept first place with it, so that it still sorts first; the *)
(* context without the workload is the same.                                  *)
LEMMA RecommendationStays ==
  ASSUME offer \in Fleets, need \in Demands, place \in [Workloads -> Agents \cup {NoAgent}]
  PROVE  RecommendationSettles
  <1> SUFFICES ASSUME NEW w \in Workloads, ComputeSchedulingRecommendation(place, w) # NoAgent
               PROVE  LET r == ComputeSchedulingRecommendation(place, w) IN
                      ComputeSchedulingRecommendation([place EXCEPT ![w] = r], w) = r
    BY DEF RecommendationSettles
  <1> DEFINE r == ComputeSchedulingRecommendation(place, w)
             moved == [place EXCEPT ![w] = r]
             hosted == BuildSchedulerContext(place, w).hosted
             neighbours == BuildSchedulerContext(place, w).neighbours
             W(c) == ToSchedulerWorkload(w, c)
             total == Cardinality(UNION {hosted[a] : a \in Agents})
             score(c) == [a \in Agents |-> Score(a, W(c), hosted, neighbours, total, Cardinality(Agents))]
             eligible(c) == {a \in Agents : Eligible(a, W(c), hosted)}
  <1>1. BuildSchedulerContext(moved, w) = BuildSchedulerContext(place, w)
    <2>1. \A x \in Workloads \ {w} : moved[x] = place[x]
      OBVIOUS
    <2> HIDE DEF moved
    <2> QED BY <2>1 DEF BuildSchedulerContext
  <1>2. Sized(hosted)
    BY DEF Sized, BuildSchedulerContext
  <1>3. /\ r = ScheduleWorkload(W(place[w]), Agents, hosted, neighbours)
        /\ ComputeSchedulingRecommendation(moved, w) = ScheduleWorkload(W(moved[w]), Agents, hosted, neighbours)
    BY <1>1 DEF ComputeSchedulingRecommendation
  <1>4. moved[w] = r
    OBVIOUS
  <1>5. \A c : IsFiniteSet(W(c).preferred)
    BY PlacementAssumption DEF ToSchedulerWorkload
  <1>6. total \in Nat /\ Cardinality(Agents) \in Nat
    <2>1. UNION {hosted[a] : a \in Agents} \subseteq Workloads
      BY <1>2 DEF Sized
    <2> QED BY <2>1, PlacementAssumption, FS_Subset, FS_CardinalityType
  <1>7. \A c : eligible(c) = eligible(place[w])
    BY DEF Eligible, ToSchedulerWorkload
  <1> DEFINE E == eligible(place[w])
  <1> HIDE DEF r, moved, hosted, neighbours, total
  <1>8. r \in E /\ SortsFirst(E, score(place[w]), r) /\ r \in Agents
    <2> DEFINE s == score(place[w])
               x == W(place[w])
    <2>1. /\ s = [a \in Agents |-> Score(a, x, hosted, neighbours, total, Cardinality(Agents))]
          /\ E = {a \in Agents : Eligible(a, x, hosted)} /\ IsFiniteSet(x.preferred)
          /\ total = Cardinality(UNION {hosted[a] : a \in Agents})
          /\ r = ScheduleWorkload(x, Agents, hosted, neighbours) /\ r # NoAgent
      BY <1>3, <1>5 DEF r, total
    <2>2. E \subseteq Agents
      OBVIOUS
    <2> HIDE DEF s, x, E
    <2>3. r \in E /\ SortsFirst(E, s, r)
      BY <1>2, <2>1, SchedulePicks
    <2> QED BY <2>2, <2>3 DEF s
  <1>9. ASSUME NEW a \in E
        PROVE  /\ score(place[w])[a] \in Int /\ score(r)[a] \in Int
               /\ a = r => score(r)[a] >= score(place[w])[a]
               /\ a # r => score(r)[a] <= score(place[w])[a]
    <2>1. PICK base \in Int : \A c : Score(a, W(c), hosted, neighbours, total, Cardinality(Agents))
                                        = base + (IF c = a THEN 10 ELSE 0)
      BY <1>2, <1>6, BonusMoves
    <2>2. \A c : score(c)[a] = base + (IF c = a THEN 10 ELSE 0)
      BY <2>1
    <2> HIDE DEF score
    <2> QED BY <2>2
  <1>10. SortsFirst(E, score(r), r)
    <2> HIDE DEF score, E
    <2> QED BY <1>8, <1>9 DEF SortsFirst
  <1>11. ComputeSchedulingRecommendation(moved, w) = r
    <2>1. E = {a \in Agents : Eligible(a, W(r), hosted)}
      BY <1>7
    <2>2. ComputeSchedulingRecommendation(moved, w) = ScheduleWorkload(W(r), Agents, hosted, neighbours)
      BY <1>3, <1>4
    <2> DEFINE s == score(r)
               x == W(r)
               y == ComputeSchedulingRecommendation(moved, w)
    <2>3. /\ s = [a \in Agents |-> Score(a, x, hosted, neighbours, total, Cardinality(Agents))]
          /\ E = {a \in Agents : Eligible(a, x, hosted)} /\ IsFiniteSet(x.preferred)
          /\ total = Cardinality(UNION {hosted[a] : a \in Agents})
          /\ y = ScheduleWorkload(x, Agents, hosted, neighbours)
          /\ r \in E /\ SortsFirst(E, s, r)
      <3>1. s = [a \in Agents |-> Score(a, x, hosted, neighbours, total, Cardinality(Agents))]
        OBVIOUS
      <3>2. E = {a \in Agents : Eligible(a, x, hosted)} /\ IsFiniteSet(x.preferred)
        BY <1>5, <2>1
      <3>3. r \in E /\ SortsFirst(E, s, r)
        BY <1>8, <1>10
      <3> HIDE DEF s, E, x
      <3> QED BY <2>2, <3>1, <3>2, <3>3 DEF total, x
    <2> HIDE DEF s, x, E, y
    <2>4. E # {} => y \in E /\ SortsFirst(E, s, y)
      BY <1>2, <2>3, SchedulePicks
    <2>5. /\ E \in SUBSET Nat /\ \A a \in E : s[a] \in Int
      BY <1>9, PlacementAssumption DEF E, s
    <2>6. y = r
      BY <2>3, <2>4, <2>5, FirstUnique
    <2> QED BY <2>6 DEF y
  <1> QED BY <1>11 DEF r, moved

(* The progress of a drain. *)
DrainRecords ==
  [pc : {"idle", "snapshot", "loop", "assign", "start", "poll", "stop", "finish"},
   agent : Agents \cup {NoAgent}, todo : SUBSET Workloads,
   snap : [Workloads -> [gen : Nat, wants : BOOLEAN]],
   w : Workloads \cup {NoAgent}, target : Agents \cup {NoAgent}, polls : Nat,
   stranded : SUBSET Workloads, seen : [Workloads -> Nat],
   full : BOOLEAN]

PlacementTypes ==
  /\ offer \in Fleets /\ need \in Demands
  /\ place \in [Workloads -> Agents \cup {NoAgent}] /\ wlGen \in [Workloads -> Nat]
  /\ wants \in [Workloads -> BOOLEAN] /\ drain \in [DrainCalls -> DrainRecords]

(* x is the progress of a call: after the snapshot no generation is lower   *)
(* than in it; *)
SnapshotHolds(x) ==
  x.pc \notin {"idle", "snapshot"} =>
    \A w \in Workloads :
      /\ wlGen[w] >= x.snap[w].gen
      /\ place[w] = x.agent =>
           \/ w \in x.todo \/ w \in x.stranded \/ wlGen[w] > x.snap[w].gen
           \/ x.pc = "assign" /\ w = x.w

(* a workload being moved goes to another agent, and once it has been moved  *)
(* its generation is higher, by two if it is back;                           *)
MoveHolds(x) ==
  x.pc \in {"assign", "start", "poll", "stop"} =>
    /\ x.w \in Workloads /\ x.target # x.agent
    /\ x.pc # "assign" =>
         /\ wlGen[x.w] > x.snap[x.w].gen
         /\ place[x.w] = x.agent => wlGen[x.w] > x.snap[x.w].gen + 1

(* and the count is true of everything that was not assigned since. *)
CountHolds(x) ==
  x.pc = "finish" =>
    /\ x.todo = {}
    /\ \A w \in Workloads :
         /\ wlGen[w] >= x.seen[w]
         /\ x.full /\ place[w] = x.agent => wlGen[w] > x.seen[w]

CallHolds(d) == SnapshotHolds(drain[d]) /\ MoveHolds(drain[d]) /\ CountHolds(drain[d])

PlacementInv == PlacementTypes /\ \A d \in DrainCalls : CallHolds(d)

(* A call that has not begun. *)
LEMMA IdleRecord == DrainIdle \in DrainRecords /\ DrainIdle.pc = "idle"
  <1>1. [w \in Workloads |-> [gen |-> 0, wants |-> FALSE]] \in [Workloads -> [gen : Nat, wants : BOOLEAN]]
    OBVIOUS
  <1>2. [w \in Workloads |-> 0] \in [Workloads -> Nat]
    OBVIOUS
  <1> QED BY <1>1, <1>2 DEF DrainIdle, DrainRecords

(* No drain has begun. *)
LEMMA PlacementInitInv == PlacementInit => PlacementInv
  <1> SUFFICES ASSUME PlacementInit PROVE PlacementInv
    OBVIOUS
  <1>1. PlacementTypes
    BY IdleRecord, PlacementAssumption DEF PlacementInit, PlacementTypes
  <1>2. \A d \in DrainCalls : drain[d].pc = "idle"
    BY IdleRecord DEF PlacementInit
  <1> QED BY <1>1, <1>2 DEF PlacementInv, CallHolds, SnapshotHolds, MoveHolds, CountHolds

(* A workload keeps its place and its generation, or it is assigned and has *)
(* the next generation: what any step does to the rows.                     *)
Assigned(w) == wlGen'[w] = wlGen[w] + 1
RowsMove == \A w \in Workloads : Assigned(w) \/ (place'[w] = place[w] /\ wlGen'[w] = wlGen[w])

(* What holds of a call survives any assignment by others. *)
LEMMA OthersKeep ==
  ASSUME PlacementInv, PlacementTypes', RowsMove, NEW d \in DrainCalls, drain'[d] = drain[d]
  PROVE  CallHolds(d)'
  <1> DEFINE x == drain[d]
  <1>0. /\ x \in DrainRecords /\ \A w \in Workloads : wlGen[w] \in Nat /\ x.snap[w].gen \in Nat /\ x.seen[w] \in Nat
        /\ SnapshotHolds(x) /\ MoveHolds(x) /\ CountHolds(x)
    BY DEF PlacementInv, PlacementTypes, CallHolds, DrainRecords
  <1> HIDE DEF x
  <1>1. \A w \in Workloads :
          wlGen'[w] = wlGen[w] + 1 \/ (place'[w] = place[w] /\ wlGen'[w] = wlGen[w])
    BY DEF RowsMove, Assigned
  <1>2. SnapshotHolds(drain[d])'
    BY <1>0, <1>1 DEF SnapshotHolds, x
  <1>3. MoveHolds(drain[d])'
    BY <1>0, <1>1 DEF MoveHolds, x
  <1>4. CountHolds(drain[d])'
    BY <1>0, <1>1 DEF CountHolds, x
  <1> QED BY <1>2, <1>3, <1>4 DEF CallHolds

(* A step of one call keeps the invariant when it keeps it for the call. *)
LEMMA CallMoves ==
  ASSUME PlacementInv, NEW d \in DrainCalls, NEW y \in DrainRecords, drain' = [drain EXCEPT ![d] = y],
         UNCHANGED <<offer, need>>, place' \in [Workloads -> Agents \cup {NoAgent}],
         wlGen' \in [Workloads -> Nat], wants' \in [Workloads -> BOOLEAN], RowsMove, CallHolds(d)'
  PROVE  PlacementInv'
  <1>1. PlacementTypes'
    BY DEF PlacementInv, PlacementTypes
  <1>2. \A c \in DrainCalls \ {d} : drain'[c] = drain[c]
    BY DEF PlacementInv, PlacementTypes
  <1>3. \A c \in DrainCalls \ {d} : CallHolds(c)'
    BY <1>1, <1>2, OthersKeep
  <1> QED BY <1>1, <1>3 DEF PlacementInv

(* Steps of the call that touch no row. *)
LEMMA CallReads ==
  ASSUME PlacementInv, NEW d \in DrainCalls, NEW y \in DrainRecords, drain' = [drain EXCEPT ![d] = y],
         UNCHANGED <<offer, need, place, wlGen>>, wants' \in [Workloads -> BOOLEAN],
         SnapshotHolds(y), MoveHolds(y), CountHolds(y)
  PROVE  PlacementInv'
  <1>1. drain'[d] = y
    BY DEF PlacementInv, PlacementTypes
  <1>2. CallHolds(d)'
    BY <1>1 DEF CallHolds, SnapshotHolds, MoveHolds, CountHolds
  <1>3. RowsMove
    BY DEF RowsMove
  <1>4. place' \in [Workloads -> Agents \cup {NoAgent}] /\ wlGen' \in [Workloads -> Nat]
    BY DEF PlacementInv, PlacementTypes
  <1> QED BY <1>2, <1>3, <1>4, CallMoves

(* What the invariant says of one call. *)
LEMMA CallFacts ==
  ASSUME PlacementInv, NEW d \in DrainCalls
  PROVE  /\ drain[d] \in DrainRecords
         /\ SnapshotHolds(drain[d]) /\ MoveHolds(drain[d]) /\ CountHolds(drain[d])
         /\ place \in [Workloads -> Agents \cup {NoAgent}] /\ wlGen \in [Workloads -> Nat]
         /\ wants \in [Workloads -> BOOLEAN]
  BY DEF PlacementInv, PlacementTypes, CallHolds

(* drain.ts: the agent is marked as draining. *)
LEMMA MarkStep ==
  ASSUME PlacementInv, NEW d \in DrainCalls, NEW a \in Agents, MarkDraining(d, a)
  PROVE  PlacementInv'
  <1> DEFINE x == drain[d]
             y == [x EXCEPT !.pc = "snapshot", !.agent = a]
  <1>1. drain' = [drain EXCEPT ![d] = y] /\ UNCHANGED <<offer, need, place, wlGen, wants>>
    BY DEF MarkDraining, Fixed, PlacementInv, PlacementTypes
  <1>2. y \in DrainRecords /\ y.pc = "snapshot"
    BY CallFacts DEF DrainRecords
  <1> HIDE DEF y
  <1>3. SnapshotHolds(y) /\ MoveHolds(y) /\ CountHolds(y)
    BY <1>2 DEF SnapshotHolds, MoveHolds, CountHolds
  <1> QED BY <1>1, <1>2, <1>3, CallFacts, CallReads

(* drain.ts: the workloads to move and their generations are read. *)
LEMMA SnapshotStep ==
  ASSUME PlacementInv, NEW d \in DrainCalls, WorkloadsToMove(d)
  PROVE  PlacementInv'
  <1> DEFINE x == drain[d]
             rows == {w \in Workloads : place[w] = x.agent}
             copy == [w \in Workloads |-> [gen |-> wlGen[w], wants |-> wants[w]]]
             y == [x EXCEPT !.pc = "loop", !.todo = rows, !.snap = copy]
  <1>1. drain' = [drain EXCEPT ![d] = y] /\ UNCHANGED <<offer, need, place, wlGen, wants>>
    BY DEF WorkloadsToMove, Fixed, PlacementInv, PlacementTypes
  <1>2. copy \in [Workloads -> [gen : Nat, wants : BOOLEAN]]
    BY CallFacts
  <1>3. \A w \in Workloads : copy[w].gen = wlGen[w] /\ wlGen[w] \in Nat
    BY CallFacts
  <1> HIDE DEF copy
  <1>4. y \in DrainRecords /\ y.pc = "loop" /\ y.todo = rows /\ y.snap = copy /\ y.agent = x.agent
    BY <1>2, CallFacts DEF DrainRecords
  <1> HIDE DEF y
  <1>5. SnapshotHolds(y) /\ MoveHolds(y) /\ CountHolds(y)
    BY <1>3, <1>4 DEF SnapshotHolds, MoveHolds, CountHolds
  <1> QED BY <1>1, <1>4, <1>5, CallFacts, CallReads

(* drain.ts: a target for the next workload, which is stranded without one; *)
(* the pool leaves out the drained agent.                                   *)
LEMMA ChooseStep ==
  ASSUME PlacementInv, NEW d \in DrainCalls, NEW w \in drain[d].todo, ChooseTarget(d, w)
  PROVE  PlacementInv'
  <1> DEFINE x == drain[d]
             hosted == BuildSchedulerContext(place, w).hosted
             t == ScheduleWorkload(ToSchedulerWorkload(w, x.agent), Agents \ {x.agent},
                                   hosted, BuildSchedulerContext(place, w).neighbours)
             left == x.todo \ {w}
             npc == IF t = NoAgent THEN "loop" ELSE "assign"
             out == IF t = NoAgent THEN x.stranded \cup {w} ELSE x.stranded
             y == [x EXCEPT !.todo = left, !.w = w, !.target = t, !.pc = npc, !.stranded = out]
  <1>1. /\ drain' = [drain EXCEPT ![d] = y] /\ UNCHANGED <<offer, need, place, wlGen, wants>>
        /\ x.pc = "loop"
    BY DEF ChooseTarget, Fixed, PlacementInv, PlacementTypes
  <1>2. w \in Workloads /\ x \in DrainRecords
    BY CallFacts DEF DrainRecords
  <1>3. t = NoAgent \/ t \in Agents \ {x.agent}
    <2>1. Sized(hosted)
      BY <1>2 DEF Sized, BuildSchedulerContext, PlacementInv, PlacementTypes
    <2>2. IsFiniteSet(ToSchedulerWorkload(w, x.agent).preferred)
      BY <1>2, PlacementAssumption DEF ToSchedulerWorkload, PlacementInv, PlacementTypes
    <2>3. Agents \ {x.agent} \in SUBSET Agents
      OBVIOUS
    <2> HIDE DEF hosted
    <2> QED BY <2>1, <2>2, <2>3, ScheduleTarget
  <1> HIDE DEF t
  <1>4. npc \in {"loop", "assign"} /\ out \in SUBSET Workloads /\ left \in SUBSET Workloads
    BY <1>2 DEF DrainRecords
  <1>5. /\ y \in DrainRecords /\ y.pc = npc /\ y.todo = left /\ y.w = w /\ y.target = t
        /\ y.stranded = out /\ y.snap = x.snap /\ y.agent = x.agent
    <2> HIDE DEF npc, out, left
    <2> QED BY <1>2, <1>3, <1>4 DEF DrainRecords
  <1> HIDE DEF y
  <1>6. SnapshotHolds(x)
    BY CallFacts
  <1>7. SnapshotHolds(y) /\ MoveHolds(y) /\ CountHolds(y)
    BY <1>1, <1>2, <1>3, <1>5, <1>6 DEF SnapshotHolds, MoveHolds, CountHolds
  <1> QED BY <1>1, <1>5, <1>7, CallFacts, CallReads

(* drain.ts: assignWorkload to the target raises the generation. *)
LEMMA RelocateStep ==
  ASSUME PlacementInv, NEW d \in DrainCalls, Relocate(d)
  PROVE  PlacementInv'
  <1> DEFINE x == drain[d]
             npc == IF x.snap[x.w].wants THEN "start" ELSE "stop"
             y == [x EXCEPT !.pc = npc]
  <1>1. /\ x \in DrainRecords /\ x.pc = "assign" /\ x.w \in Workloads /\ x.target # x.agent
        /\ SnapshotHolds(x) /\ x.target \in Agents \cup {NoAgent}
    BY CallFacts DEF Relocate, MoveHolds, DrainRecords
  <1>2. /\ drain' = [drain EXCEPT ![d] = y] /\ UNCHANGED <<offer, need, wants>>
        /\ place' = [place EXCEPT ![x.w] = x.target]
        /\ wlGen' = [wlGen EXCEPT ![x.w] = @ + 1]
    BY DEF Relocate, Goto, Fixed, PlacementInv, PlacementTypes
  <1>3. /\ y \in DrainRecords /\ y.pc = npc /\ y.w = x.w /\ y.target = x.target
        /\ y.agent = x.agent /\ y.snap = x.snap /\ y.todo = x.todo /\ y.stranded = x.stranded
    BY <1>1 DEF DrainRecords
  <1>4. drain'[d] = y
    BY <1>2 DEF PlacementInv, PlacementTypes
  <1> HIDE DEF y
  <1>5. /\ place' \in [Workloads -> Agents \cup {NoAgent}] /\ wlGen' \in [Workloads -> Nat]
        /\ wants' \in [Workloads -> BOOLEAN] /\ RowsMove
    BY <1>1, <1>2, CallFacts DEF RowsMove, Assigned
  <1>6. /\ place'[x.w] = x.target /\ wlGen'[x.w] = wlGen[x.w] + 1
        /\ \A w \in Workloads \ {x.w} : place'[w] = place[w] /\ wlGen'[w] = wlGen[w]
        /\ \A w \in Workloads : wlGen[w] \in Nat /\ x.snap[w].gen \in Nat
    BY <1>1, <1>2, CallFacts DEF DrainRecords
  <1>7. SnapshotHolds(drain[d])'
    BY <1>1, <1>3, <1>4, <1>6 DEF SnapshotHolds
  <1>8. MoveHolds(drain[d])'
    BY <1>1, <1>3, <1>4, <1>6 DEF MoveHolds, SnapshotHolds
  <1>9. CountHolds(drain[d])'
    BY <1>3, <1>4 DEF CountHolds
  <1> QED BY <1>2, <1>3, <1>5, <1>7, <1>8, <1>9, CallMoves DEF CallHolds

(* drain.ts: the start for the new owner, for a workload that is wanted. *)
LEMMA StartNewStep ==
  ASSUME PlacementInv, NEW d \in DrainCalls, StartNew(d)
  PROVE  PlacementInv'
  <1> DEFINE x == drain[d]
             y == [x EXCEPT !.pc = "poll", !.polls = 0]
  <1>1. x \in DrainRecords /\ x.pc = "start" /\ SnapshotHolds(x) /\ MoveHolds(x)
    BY CallFacts DEF StartNew
  <1>2. /\ drain' = [drain EXCEPT ![d] = y] /\ UNCHANGED <<offer, need, place, wlGen>>
        /\ wants' \in [Workloads -> BOOLEAN]
    BY CallFacts DEF StartNew, Fixed, PlacementInv, PlacementTypes
  <1>3. /\ y \in DrainRecords /\ y.pc = "poll" /\ y.w = x.w /\ y.target = x.target
        /\ y.agent = x.agent /\ y.snap = x.snap /\ y.todo = x.todo /\ y.stranded = x.stranded
    BY <1>1 DEF DrainRecords
  <1> HIDE DEF y, x
  <1>4. SnapshotHolds(y) /\ MoveHolds(y) /\ CountHolds(y)
    BY <1>1, <1>3 DEF SnapshotHolds, MoveHolds, CountHolds
  <1> QED BY <1>2, <1>3, <1>4, CallReads DEF x

(* drain.ts:95-103: a health check that finds the workload confirmed, or not. *)
LEMMA CheckStep ==
  ASSUME PlacementInv, NEW d \in DrainCalls, HealthCheck(d)
  PROVE  PlacementInv'
  <1> DEFINE x == drain[d]
             ok == runs[x.w] /\ place[x.w] = x.target
             npc == IF ok \/ x.polls + 1 = HealthChecks THEN "stop" ELSE "poll"
             y == [x EXCEPT !.polls = @ + 1, !.pc = npc]
  <1>1. x \in DrainRecords /\ x.pc = "poll" /\ SnapshotHolds(x) /\ MoveHolds(x)
    BY CallFacts DEF HealthCheck
  <1>2. drain' = [drain EXCEPT ![d] = y] /\ UNCHANGED <<offer, need, place, wlGen, wants>>
    BY DEF HealthCheck, Fixed, PlacementInv, PlacementTypes
  <1>3. PICK n \in Nat : n = x.polls + 1
    BY <1>1 DEF DrainRecords
  <1>4. npc \in {"stop", "poll"} /\ (npc = "stop" => ok \/ n = HealthChecks) /\ ok \in BOOLEAN
    BY <1>3
  <1>5. y = [x EXCEPT !.polls = n, !.pc = npc]
    BY <1>3
  <1> HIDE DEF ok, npc, x
  <1>6. /\ y \in DrainRecords /\ y.pc = npc /\ y.w = x.w /\ y.target = x.target
        /\ y.agent = x.agent /\ y.snap = x.snap /\ y.todo = x.todo /\ y.stranded = x.stranded
        /\ y.polls = n
    <2> HIDE DEF y
    <2> QED BY <1>1, <1>4, <1>5 DEF DrainRecords
  <1> HIDE DEF y
  <1>7. SnapshotHolds(y) /\ MoveHolds(y) /\ CountHolds(y)
    BY <1>1, <1>4, <1>6 DEF SnapshotHolds, MoveHolds, CountHolds
  <1> QED BY <1>2, <1>6, <1>7, CallFacts, CallReads DEF x

(* drain.ts:110-117: the stop for the copy on the old agent. *)
LEMMA StopStep ==
  ASSUME PlacementInv, NEW d \in DrainCalls, StopOld(d)
  PROVE  PlacementInv'
  <1> DEFINE x == drain[d]
             y == [x EXCEPT !.pc = "loop", !.w = NoAgent, !.target = NoAgent]
  <1>1. x \in DrainRecords /\ x.pc = "stop" /\ SnapshotHolds(x)
    BY CallFacts DEF StopOld
  <1>2. drain' = [drain EXCEPT ![d] = y] /\ UNCHANGED <<offer, need, place, wlGen, wants>>
    BY DEF StopOld, Fixed, PlacementInv, PlacementTypes
  <1>3. /\ y \in DrainRecords /\ y.pc = "loop"
        /\ y.agent = x.agent /\ y.snap = x.snap /\ y.todo = x.todo /\ y.stranded = x.stranded
    BY <1>1 DEF DrainRecords
  <1> HIDE DEF y, x
  <1>4. SnapshotHolds(y) /\ MoveHolds(y) /\ CountHolds(y)
    BY <1>1, <1>3 DEF SnapshotHolds, MoveHolds, CountHolds
  <1> QED BY <1>2, <1>3, <1>4, CallFacts, CallReads DEF x

(* drain.ts: the count of what is left, after the loop. *)
LEMMA CountStep ==
  ASSUME PlacementInv, NEW d \in DrainCalls, CountLeft(d)
  PROVE  PlacementInv'
  <1> DEFINE x == drain[d]
             none == \A w \in Workloads : place[w] # x.agent
             y == [x EXCEPT !.pc = "finish", !.seen = wlGen, !.full = none]
  <1>1. /\ x \in DrainRecords /\ x.pc = "loop" /\ x.todo = {} /\ SnapshotHolds(x)
        /\ wlGen \in [Workloads -> Nat]
    BY CallFacts DEF CountLeft
  <1>2. drain' = [drain EXCEPT ![d] = y] /\ UNCHANGED <<offer, need, place, wlGen, wants>>
    BY DEF CountLeft, Fixed, PlacementInv, PlacementTypes
  <1>3. none \in BOOLEAN
    OBVIOUS
  <1>4. /\ y \in DrainRecords /\ y.pc = "finish" /\ y.seen = wlGen /\ y.full = none
        /\ y.agent = x.agent /\ y.snap = x.snap /\ y.todo = x.todo /\ y.stranded = x.stranded
    <2> HIDE DEF none
    <2> QED BY <1>1, <1>3 DEF DrainRecords
  <1> HIDE DEF y
  <1>5. SnapshotHolds(y) /\ MoveHolds(y)
    BY <1>1, <1>4 DEF SnapshotHolds, MoveHolds
  <1>6. CountHolds(y)
    BY <1>1, <1>4 DEF CountHolds
  <1> QED BY <1>2, <1>4, <1>5, <1>6, CallFacts, CallReads

(* drain.ts: the agent is disabled if nothing was left. *)
LEMMA FinishStep ==
  ASSUME PlacementInv, NEW d \in DrainCalls, FinishDrain(d)
  PROVE  PlacementInv'
  <1> DEFINE y == DrainIdle
  <1>1. drain' = [drain EXCEPT ![d] = y] /\ UNCHANGED <<offer, need, place, wlGen, wants>>
    BY DEF FinishDrain, Fixed
  <1>2. y \in DrainRecords /\ y.pc = "idle"
    BY IdleRecord
  <1> HIDE DEF y
  <1>3. SnapshotHolds(y) /\ MoveHolds(y) /\ CountHolds(y)
    BY <1>2 DEF SnapshotHolds, MoveHolds, CountHolds
  <1> QED BY <1>1, <1>2, <1>3, CallFacts, CallReads

(* Steps of others: an admin assigns a workload, or changes what is wanted. *)
LEMMA RowsStep ==
  ASSUME PlacementInv, UNCHANGED <<offer, need, drain>>, wants' \in [Workloads -> BOOLEAN],
         \/ UNCHANGED <<place, wlGen>>
         \/ \E w \in Workloads, a \in Agents :
              place' = [place EXCEPT ![w] = a] /\ wlGen' = [wlGen EXCEPT ![w] = @ + 1]
  PROVE  PlacementInv'
  <1>1. PlacementTypes'
    BY DEF PlacementInv, PlacementTypes
  <1>2. RowsMove
    BY DEF RowsMove, Assigned, PlacementInv, PlacementTypes
  <1> QED BY <1>1, <1>2, OthersKeep DEF PlacementInv

(* Every step keeps what holds of every drain. *)
LEMMA PlacementStep == PlacementInv /\ [PlacementNext]_placementVars => PlacementInv'
  <1> SUFFICES ASSUME PlacementInv, [PlacementNext]_placementVars PROVE PlacementInv'
    OBVIOUS
  <1>0. wants \in [Workloads -> BOOLEAN]
    BY DEF PlacementInv, PlacementTypes
  <1>1. ASSUME NEW d \in DrainCalls, DrainStep(d) PROVE PlacementInv'
    BY <1>1, SnapshotStep, ChooseStep, RelocateStep, StartNewStep, CheckStep, StopStep, CountStep,
       FinishStep DEF DrainStep
  <1>2. ASSUME NEW d \in DrainCalls, NEW a \in Agents, MarkDraining(d, a) PROVE PlacementInv'
    BY <1>2, MarkStep
  <1>3. ASSUME NEW w \in Workloads, NEW a \in Agents, AdminAssigns(w, a) PROVE PlacementInv'
    BY <1>0, <1>3, RowsStep DEF AdminAssigns, Fixed
  <1>4. ASSUME NEW a \in Agents, NEW s \in {"online", "disconnected"}, AgentSeen(a, s) PROVE PlacementInv'
    BY <1>0, <1>4, RowsStep DEF AgentSeen, Fixed
  <1>5. ASSUME NEW w \in Workloads, NEW r \in BOOLEAN, AdminCommands(w, r) \/ OutcomeSeen(w, r)
        PROVE  PlacementInv'
    <2>1. wants' \in [Workloads -> BOOLEAN]
      BY <1>0, <1>5 DEF AdminCommands, OutcomeSeen
    <2> QED BY <1>5, <2>1, RowsStep DEF AdminCommands, OutcomeSeen, Fixed
  <1>6. CASE UNCHANGED placementVars
    BY <1>0, <1>6, RowsStep DEF placementVars
  <1> QED BY <1>1, <1>2, <1>3, <1>4, <1>5, <1>6 DEF PlacementNext

(* The invariant holds throughout. *)
LEMMA PlacementInvariant == PlacementSpec => []PlacementInv
  BY PlacementInitInv, PlacementStep, PTL DEF PlacementSpec

(* schedule.ts:109: a recommendation that was applied is recommended again, *)
(* for every fleet, every demand and every placement, whatever the scores.  *)
THEOREM RecommendationSettlesTheorem == PlacementSpec => []RecommendationSettles
  <1>1. PlacementInv => RecommendationSettles
    BY RecommendationStays DEF PlacementInv, PlacementTypes
  <1> QED BY <1>1, PlacementInvariant, PTL

(* drain.ts:110-117: the stop for the copy on the old agent is sent when the *)
(* workload has a newer generation, and it reaches the workload's owner only *)
(* if somebody moved it back: for any number of drains and admins.           *)
THEOREM StopIsFencedTheorem == PlacementSpec => []StopIsFenced
  <1>1. PlacementInv => StopIsFenced
    BY DEF PlacementInv, CallHolds, MoveHolds, StopIsFenced
  <1> QED BY <1>1, PlacementInvariant, PTL

(* drain.ts:44-47: at the end of a drain every workload still on the agent is *)
(* reported as stranded or was assigned after the snapshot, and an agent is   *)
(* disabled only with workloads assigned after the count, whatever others     *)
(* assign meanwhile.                                                          *)
THEOREM DrainLeavesNothingTheorem == PlacementSpec => []DrainLeavesNothing
  <1>1. PlacementInv => DrainLeavesNothing
    BY DEF PlacementInv, CallHolds, SnapshotHolds, CountHolds, DrainLeavesNothing
  <1> QED BY <1>1, PlacementInvariant, PTL

-----------------------------------------------------------------------------
(* The types of all components, with the bounds of their counters *)

(* What is not in the inductive invariants: how far the counters go. *)
ClicksBounded == clicks \in 0 .. MaxClicks
RestartsBounded == \A b \in AlertBots : restarted[b] \in 0 .. MaxRestarts[b]
TimeBounded == time <= Horizon

(* crash-analysis.ts: the answer is the number of a rule, or none. *)
LEMMA AnswerType ==
  ASSUME NEW e \in Errors
  PROVE  AnalyzeCrash(e) \in 0 .. NoResult
  <1>1. Matches[e] \in SUBSET (1 .. 4)
    BY CrashJobsAssumption
  <1>2. CASE Matches[e] = {}
    BY <1>2 DEF AnalyzeCrash, NoResult
  <1>3. CASE Matches[e] # {}
    <2>1. Matches[e] \in SUBSET Nat
      BY <1>1
    <2>2. \E r \in Matches[e] : \A s \in Matches[e] : r <= s
      BY <1>3, <2>1, LeastElement
    <2>3. AnalyzeCrash(e) \in Matches[e]
      BY <1>3, <2>2 DEF AnalyzeCrash
    <2> QED BY <1>1, <2>3 DEF NoResult
  <1> QED BY <1>2, <1>3

(* The jobs and the clicks have their types. *)
LEMMA CrashTypesHold == CrashInv /\ ClicksBounded => CrashTypeOK
  <1> SUFFICES ASSUME CrashInv, ClicksBounded PROVE CrashTypeOK
    OBVIOUS
  <1>1. Answers \subseteq 0 .. NoResult
    BY AnswerType DEF Answers, NoResult
  <1>2. ASSUME NEW i \in JobIds
        PROVE  job[i] \in [st : {"absent", "waiting", "completed", "failed"},
                           error : Errors \cup {NoError}, result : 0 .. NoResult]
    BY <1>1 DEF CrashInv, CrashTypes, JobRecords
  <1>3. job \in [JobIds -> [st : {"absent", "waiting", "completed", "failed"},
                            error : Errors \cup {NoError}, result : 0 .. NoResult]]
    BY <1>2 DEF CrashInv, CrashTypes
  <1>4. ASSUME NEW u \in Buttons
        PROVE  /\ button[u].st \in {"idle", "polling", "done", "error"}
               /\ button[u].st = "polling" => button[u].id \in JobIds
    BY DEF CrashInv, CrashTypes, ButtonRecords, ButtonsFit
  <1> QED BY <1>3, <1>4 DEF CrashInv, CrashTypes, ClicksBounded, CrashTypeOK

(* A click, an error, a failure or an expiry counts. *)
LEMMA ClicksStep == ClicksBounded /\ [CrashNext]_crashVars => ClicksBounded'
  <1> SUFFICES ASSUME ClicksBounded, [CrashNext]_crashVars PROVE ClicksBounded'
    OBVIOUS
  <1>1. Click \/ UNCHANGED clicks
    BY DEF CrashNext, BotFails, Poll, ExplainCrash, ProcessExplainCrash, JobFails, JobExpires,
           crashVars
  <1> QED BY <1>1, CrashJobsAssumption DEF Click, ClicksBounded

(* The restarts and the evaluations have their types. *)
LEMMA AlertsTypesHold == AlertsInv /\ RestartsBounded => AlertsTypeOK
  BY DEF AlertsInv, AlertTypes, Evals, RestartsBounded, AlertsTypeOK

(* Only a restart counts, and only to its bound. *)
LEMMA RestartsStep ==
  AlertsInv /\ RestartsBounded /\ [AlertsNext]_alertsVars => RestartsBounded'
  <1> SUFFICES ASSUME AlertsInv, RestartsBounded, [AlertsNext]_alertsVars PROVE RestartsBounded'
    OBVIOUS
  <1>1. (\E b \in AlertBots : BotRestarts(b)) \/ UNCHANGED restarted
    BY DEF AlertsNext, GuildsChange, EvaluateBegins, EvaluateRule, FindOpen, CreateAlert,
           EvaluationLost, alertsVars
  <1>2. restarted \in [AlertBots -> Nat] /\ MaxRestarts \in [AlertBots -> Nat]
    BY AlertsAssumption DEF AlertsInv, AlertTypes
  <1> QED BY <1>1, <1>2 DEF BotRestarts, RestartsBounded

(* The limiter's times have their types. *)
LEMMA LimiterTypesHold == LimiterInv /\ TimeBounded => LimiterTypeOK
  <1> SUFFICES ASSUME LimiterInv, TimeBounded PROVE LimiterTypeOK
    OBVIOUS
  <1>1. /\ time \in 0 .. Horizon /\ windowStart \in 0 .. time /\ count \in 0 .. MaxPerWindow
        /\ passes \in Seq(Nat)
    BY RateLimiterAssumption DEF LimiterInv, LimiterTypes, TimeBounded
  <1>2. ASSUME NEW i \in 1 .. Len(passes) PROVE passes[i] \in 0 .. Horizon
    <2>1. passes[i] \in Nat /\ passes[i] <= time
      BY <1>1 DEF LimiterInv, PassesOrdered
    <2> QED BY <1>1, <2>1, RateLimiterAssumption
  <1>3. passes \in Seq(0 .. Horizon)
    BY <1>1, <1>2, SeqOver
  <1> QED BY <1>1, <1>3 DEF LimiterTypeOK

(* Time passes to the horizon. *)
LEMMA TimeStep ==
  LimiterInv /\ TimeBounded /\ [LimiterNext]_limiterVars => TimeBounded'
  BY RateLimiterAssumption
  DEF LimiterInv, LimiterTypes, TimeBounded, LimiterNext, TryConsume, TimePasses, limiterVars

(* The rows of agents and workloads, the requests counted, and the health   *)
(* checks of a drain: while it polls there is one left.                     *)
ChecksBounded(x) ==
  x.polls \in 0 .. HealthChecks /\ (x.pc = "poll" => x.polls < HealthChecks)
RequestsBounded ==
  /\ agStatus \in [Agents -> {"online", "disconnected", "draining", "disabled"}]
  /\ runs \in [Workloads -> BOOLEAN] /\ events \in 0 .. MaxEvents
  /\ \A d \in DrainCalls : ChecksBounded(drain[d])

(* The placement and the drains have their types. *)
LEMMA PlacementTypesHold == PlacementInv /\ RequestsBounded => PlacementTypeOK
  <1> SUFFICES ASSUME PlacementInv, RequestsBounded PROVE PlacementTypeOK
    OBVIOUS
  <1>1. ASSUME NEW d \in DrainCalls
        PROVE  drain[d].polls \in 0 .. HealthChecks /\ drain[d].agent \in Agents \cup {NoAgent}
    BY DEF PlacementInv, PlacementTypes, DrainRecords, RequestsBounded, ChecksBounded
  <1> QED BY <1>1 DEF PlacementInv, PlacementTypes, RequestsBounded, PlacementTypeOK

(* No request and no health check to begin with. *)
LEMMA RequestsInit == PlacementInit => RequestsBounded
  <1> SUFFICES ASSUME PlacementInit PROVE RequestsBounded
    OBVIOUS
  <1>1. DrainIdle.polls = 0 /\ DrainIdle.pc = "idle" /\ HealthChecks \in Nat
    BY PlacementAssumption DEF DrainIdle
  <1> HIDE DEF DrainIdle
  <1> QED BY <1>1, PlacementAssumption DEF PlacementInit, RequestsBounded, ChecksBounded

(* drain.ts:95-103: of a drain's steps only the health check counts, and it *)
(* leaves the loop at the last one.                                         *)
LEMMA ChecksStep ==
  ASSUME PlacementInv, RequestsBounded, NEW d \in DrainCalls,
         DrainStep(d) \/ \E a \in Agents : MarkDraining(d, a)
  PROVE  \A c \in DrainCalls : ChecksBounded(drain[c])'
  <1> DEFINE x == drain[d]
  <1>1. x \in DrainRecords /\ ChecksBounded(x) /\ drain \in [DrainCalls -> DrainRecords]
    BY DEF PlacementInv, PlacementTypes, RequestsBounded
  <1>2. SUFFICES \E y : /\ drain' = [drain EXCEPT ![d] = y]
                        /\ y.polls \in 0 .. HealthChecks
                        /\ y.pc = "poll" => y.polls < HealthChecks
    BY <1>1, <1>2 DEF RequestsBounded, ChecksBounded
  <1>3. HealthChecks \in Nat /\ HealthChecks > 0 /\ x.polls \in 0 .. HealthChecks
    BY <1>1, PlacementAssumption DEF ChecksBounded
  <1>4. ASSUME NEW a \in Agents, MarkDraining(d, a)
        PROVE  \E y : /\ drain' = [drain EXCEPT ![d] = y] /\ y.polls = x.polls /\ y.pc # "poll"
    <2> DEFINE y == [x EXCEPT !.pc = "snapshot", !.agent = a]
    <2>1. drain' = [drain EXCEPT ![d] = y]
      BY <1>1, <1>4 DEF MarkDraining
    <2>2. y.polls = x.polls /\ y.pc = "snapshot"
      BY <1>1 DEF DrainRecords
    <2> QED BY <2>1, <2>2
  <1>5. CASE WorkloadsToMove(d)
    <2> DEFINE y == drain'[d]
    <2>1. drain' = [drain EXCEPT ![d] = y] /\ y.polls = x.polls /\ y.pc = "loop"
      BY <1>1, <1>5 DEF WorkloadsToMove, DrainRecords
    <2> QED BY <2>1, <1>3
  <1>6. ASSUME NEW w \in x.todo, ChooseTarget(d, w)
        PROVE  \E y : /\ drain' = [drain EXCEPT ![d] = y] /\ y.polls = x.polls /\ y.pc # "poll"
    <2> DEFINE y == drain'[d]
    <2>1. /\ drain' = [drain EXCEPT ![d] = y] /\ y.polls = x.polls
          /\ y.pc \in {"loop", "assign"}
      BY <1>1, <1>6 DEF ChooseTarget, DrainRecords
    <2> QED BY <2>1
  <1>7. CASE Relocate(d)
    <2> DEFINE y == drain'[d]
    <2>1. /\ drain' = [drain EXCEPT ![d] = y] /\ y.polls = x.polls
          /\ y.pc \in {"start", "stop"}
      BY <1>1, <1>7 DEF Relocate, Goto, DrainRecords
    <2> QED BY <2>1, <1>3
  <1>8. CASE StartNew(d)
    <2> DEFINE y == drain'[d]
    <2>1. drain' = [drain EXCEPT ![d] = y] /\ y.polls = 0
      BY <1>1, <1>8 DEF StartNew, DrainRecords
    <2> QED BY <2>1, <1>3
  <1>9. CASE HealthCheck(d)
    <2> DEFINE y == drain'[d]
    <2>1. x.polls < HealthChecks
      BY <1>1, <1>9 DEF HealthCheck, ChecksBounded
    <2>2. /\ drain' = [drain EXCEPT ![d] = y] /\ y.polls = x.polls + 1
          /\ y.pc \in {"stop", "poll"} /\ (x.polls + 1 = HealthChecks => y.pc = "stop")
      BY <1>1, <1>9 DEF HealthCheck, DrainRecords
    <2>3. y.polls \in 0 .. HealthChecks /\ (y.pc = "poll" => y.polls < HealthChecks)
      <3> HIDE DEF x, y
      <3> QED BY <2>1, <2>2, <1>3
    <2> QED BY <2>2, <2>3
  <1>10. CASE StopOld(d)
    <2> DEFINE y == drain'[d]
    <2>1. drain' = [drain EXCEPT ![d] = y] /\ y.polls = x.polls /\ y.pc = "loop"
      BY <1>1, <1>10 DEF StopOld, DrainRecords
    <2> QED BY <2>1, <1>3
  <1>11. CASE CountLeft(d)
    <2> DEFINE y == drain'[d]
    <2>1. drain' = [drain EXCEPT ![d] = y] /\ y.polls = x.polls /\ y.pc = "finish"
      BY <1>1, <1>11 DEF CountLeft, DrainRecords
    <2> QED BY <2>1, <1>3
  <1>12. CASE FinishDrain(d)
    <2> DEFINE y == DrainIdle
    <2>1. drain' = [drain EXCEPT ![d] = y]
      BY <1>12 DEF FinishDrain
    <2>2. y.polls = 0 /\ y.pc = "idle"
      BY DEF DrainIdle
    <2>3. y.polls \in 0 .. HealthChecks /\ y.pc # "poll"
      BY <2>2, <1>3
    <2> HIDE DEF y
    <2> QED BY <2>1, <2>3
  <1> QED
    BY <1>3, <1>4, <1>5, <1>6, <1>7, <1>8, <1>9, <1>10, <1>11, <1>12 DEF DrainStep

(* Every step keeps the rows typed and the counters within their bounds. *)
LEMMA RequestsStep ==
  PlacementInv /\ RequestsBounded /\ [PlacementNext]_placementVars => RequestsBounded'
  <1> SUFFICES ASSUME PlacementInv, RequestsBounded, [PlacementNext]_placementVars
               PROVE  RequestsBounded'
    OBVIOUS
  <1>0. MaxEvents \in Nat /\ events \in 0 .. MaxEvents
    BY PlacementAssumption DEF RequestsBounded
  <1>1. ASSUME NEW d \in DrainCalls, DrainStep(d) \/ \E a \in Agents : MarkDraining(d, a)
        PROVE  RequestsBounded'
    <2>1. \A c \in DrainCalls : ChecksBounded(drain[c])'
      BY <1>1, ChecksStep
    <2>2. runs' = runs
      BY <1>1 DEF DrainStep, MarkDraining, WorkloadsToMove, ChooseTarget, Relocate, StartNew,
                  HealthCheck, StopOld, CountLeft, FinishDrain
    <2>3. Occurs \/ events' = events
      BY <1>1 DEF DrainStep, MarkDraining, WorkloadsToMove, ChooseTarget, Relocate, StartNew,
                  HealthCheck, StopOld, CountLeft, FinishDrain
    <2>4. \/ agStatus' = agStatus
          \/ \E a, s : s \in {"draining", "disabled"} /\ agStatus' = [agStatus EXCEPT ![a] = s]
      BY <1>1 DEF DrainStep, MarkDraining, WorkloadsToMove, ChooseTarget, Relocate, StartNew,
                  HealthCheck, StopOld, CountLeft, FinishDrain
    <2>5. agStatus' \in [Agents -> {"online", "disconnected", "draining", "disabled"}]
      BY <2>4 DEF RequestsBounded
    <2>6. events' \in 0 .. MaxEvents
      BY <1>0, <2>3 DEF Occurs
    <2> QED BY <2>1, <2>2, <2>5, <2>6 DEF RequestsBounded
  <1>2. ASSUME NEW w \in Workloads, NEW a \in Agents, AdminAssigns(w, a) PROVE RequestsBounded'
    <2>1. events' \in 0 .. MaxEvents
      BY <1>0, <1>2 DEF AdminAssigns, Occurs
    <2> QED BY <1>2, <2>1 DEF AdminAssigns, RequestsBounded, ChecksBounded
  <1>3. ASSUME NEW a \in Agents, NEW s \in {"online", "disconnected"}, AgentSeen(a, s)
        PROVE  RequestsBounded'
    <2>1. events' \in 0 .. MaxEvents
      BY <1>0, <1>3 DEF AgentSeen, Occurs
    <2>2. agStatus' \in [Agents -> {"online", "disconnected", "draining", "disabled"}]
      BY <1>3 DEF AgentSeen, RequestsBounded
    <2> QED BY <1>3, <2>1, <2>2 DEF AgentSeen, RequestsBounded, ChecksBounded
  <1>4. ASSUME NEW w \in Workloads, NEW r \in BOOLEAN, AdminCommands(w, r) \/ OutcomeSeen(w, r)
        PROVE  RequestsBounded'
    <2>1. events' \in 0 .. MaxEvents
      BY <1>0, <1>4 DEF AdminCommands, OutcomeSeen, Occurs
    <2>2. runs' \in [Workloads -> BOOLEAN]
      BY <1>4 DEF AdminCommands, OutcomeSeen, RequestsBounded
    <2> QED BY <1>4, <2>1, <2>2 DEF AdminCommands, OutcomeSeen, RequestsBounded, ChecksBounded
  <1>5. CASE UNCHANGED placementVars
    BY <1>5 DEF placementVars, RequestsBounded, ChecksBounded
  <1> QED BY <1>1, <1>2, <1>3, <1>4, <1>5 DEF PlacementNext

-----------------------------------------------------------------------------
(* The components together *)

(* A behaviour that exercises one component at a time takes only steps of    *)
(* each of them: no step of one changes what another reads or writes, so     *)
(* every inductive invariant above holds of the composition that TLC checks. *)
THEOREM MessagingCompose ==
  MCSpec => /\ CrashSpec /\ LimiterSpec /\ ProtocolSpec
            /\ PlacementInit /\ [][PlacementNext]_placementVars
            /\ AlertsInit /\ [][AlertsNext]_alertsVars
            /\ SdkInit /\ [][SdkNext]_sdkVars
  <1>1. MCInit => /\ CrashInit /\ LimiterInit /\ ProtocolInit
                  /\ PlacementInit /\ AlertsInit /\ SdkInit
    BY DEF MCInit
  <1>2. [MCNext]_vars =>
          /\ [CrashNext]_crashVars /\ [LimiterNext]_limiterVars /\ [ProtocolNext]_protocolVars
          /\ [PlacementNext]_placementVars /\ [AlertsNext]_alertsVars /\ [SdkNext]_sdkVars
    BY DEF MCNext, vars
  <1> QED BY <1>1, <1>2, PTL DEF MCSpec, CrashSpec, LimiterSpec, ProtocolSpec

(* Workloads, drains, alerts, messages, reports, calls and crash reports     *)
(* keep their types and stay within the bounds of their counters, for any    *)
(* number of each: a drain never looks more often than HEALTH_CHECK_ATTEMPTS *)
(* (drain.ts:95-103), a crash has the answer of a rule or none               *)
(* (crash-analysis.ts), and no more heartbeat intervals run than ready       *)
(* events were seen.                                                         *)
THEOREM MessagingTypes == MCSpec => []MessagingTypeOK
  <1>1. MCSpec => [](part \in Parts)
    <2>1. MCInit => part \in Parts
      BY DEF MCInit
    <2>2. part \in Parts /\ [MCNext]_vars => (part \in Parts)'
      BY DEF MCNext, vars
    <2> QED BY <2>1, <2>2, PTL DEF MCSpec
  <1>2. MCSpec => []CrashTypeOK
    <2>1. CrashInit => ClicksBounded
      BY CrashJobsAssumption DEF CrashInit, ClicksBounded
    <2> QED BY <2>1, CrashInitInv, CrashStep, ClicksStep, CrashTypesHold, MessagingCompose, PTL
            DEF CrashSpec
  <1>3. MCSpec => []AlertsTypeOK
    <2>1. ASSUME AlertsInit, NEW b \in AlertBots PROVE restarted[b] \in 0 .. MaxRestarts[b]
      <3>1. restarted[b] = 2 /\ MaxRestarts[b] \in Nat /\ MaxRestarts[b] >= 3
        BY <2>1, AlertsAssumption DEF AlertsInit, HIGH_RESTART_THRESHOLD
      <3> QED BY <3>1
    <2>2. AlertsInit => RestartsBounded
      BY <2>1 DEF RestartsBounded
    <2> QED BY <2>2, AlertsInitInv, AlertsStep, RestartsStep, AlertsTypesHold, MessagingCompose, PTL
  <1>4. MCSpec => []LimiterTypeOK
    <2>1. LimiterInit => TimeBounded
      BY RateLimiterAssumption DEF LimiterInit, TimeBounded
    <2> QED BY <2>1, LimiterInitInv, LimiterStep, TimeStep, LimiterTypesHold, MessagingCompose, PTL
            DEF LimiterSpec
  <1>5. MCSpec => []PlacementTypeOK
    BY PlacementInitInv, PlacementStep, RequestsInit, RequestsStep, PlacementTypesHold,
       MessagingCompose, PTL
  <1>6. MCSpec => []ProtocolTypeOK
    BY ProtocolTypesInit, ProtocolTypesStep, MessagingCompose, PTL DEF ProtocolSpec
  <1>7. MCSpec => []SdkTypeOK
    <2>1. SdkInit => SdkInv
      BY SdkInitially
    <2>2. SdkInv /\ [SdkNext]_sdkVars => SdkInv'
      BY SdkStep
    <2>3. SdkInv /\ Quietened /\ [SdkNext]_sdkVars => Quietened'
      BY QuietenedStep
    <2> QED BY <2>1, <2>2, <2>3, QuietenedInit, SendsInit, SendsStep, SdkTypesHold,
               MessagingCompose, PTL
  <1> QED
    BY <1>1, <1>2, <1>3, <1>4, <1>5, <1>6, <1>7, PTL DEF MessagingTypeOK

=============================================================================
