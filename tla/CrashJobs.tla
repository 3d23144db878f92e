------------------------------- MODULE CrashJobs -------------------------------
(***************************************************************************)
(* Explaining a crash: the button (components/ExplainCrashButton.tsx), the *)
(* routes bots/[id]/explain-crash and ai/jobs/[jobId], the queue           *)
(* (lib/queue/ai-queue.ts, on BullMQ), the worker (lib/queue/ai-worker.ts) *)
(* and its rules (lib/queue/crash-analysis.ts).  A job is kept for an hour *)
(* under an id made of the bot and a hash of its error.                    *)
(***************************************************************************)
EXTENDS Naturals, FiniteSets

CONSTANTS
  CrashBots,
  Errors,       \* redacted error messages
  HashError,    \* the 32-bit hash of each, not injective in general
  Matches,      \* the rules whose pattern each message matches
  Buttons,      \* open pages
  MaxAttempts,  \* polls of one click, 15 in the code
  MaxClicks     \* bound on clicks, errors, failures and expiries

ASSUME CrashJobsAssumption ==
  /\ HashError \in [Errors -> Nat] /\ Matches \in [Errors -> SUBSET (1 .. 4)]
  /\ MaxAttempts \in Nat /\ MaxClicks \in Nat

NoError == "none"
NoResult == 5

VARIABLES
  lastError,  \* BotHealth.lastErrorSafe
  job,        \* BullMQ's jobs by id
  button,     \* progress of each page's last click
  clicks

crashVars == <<lastError, job, button, clicks>>

JobIds == CrashBots \X {HashError[e] : e \in Errors}
Absent == [st |-> "absent", error |-> NoError, result |-> NoResult]
ButtonIdle == [st |-> "idle", bot |-> "", asked |-> NoError, id |-> <<>>, attempt |-> 0,
               result |-> NoResult]

CrashInit ==
  /\ lastError = [b \in CrashBots |-> NoError]
  /\ job = [j \in JobIds |-> Absent]
  /\ button = [u \in Buttons |-> ButtonIdle]
  /\ clicks = 0

Click == clicks < MaxClicks /\ clicks' = clicks + 1

(* External: the bot reports another error. *)
BotFails(b, e) ==
  /\ Click /\ lastError' = [lastError EXCEPT ![b] = e]
  /\ UNCHANGED <<job, button>>

(* Mutant of JobId: one job for each bot. *)
JobIdOfBot(b, e) == <<b, CHOOSE h \in {HashError[x] : x \in Errors} : TRUE>>

JobId(b, e) == <<b, HashError[e]>>

(* A job that exists, in whatever state, is returned as it is. *)
EnqueueCrashExplanation(id, e) ==
  IF job[id] = Absent THEN [job EXCEPT ![id] = [Absent EXCEPT !.st = "waiting", !.error = e]]
  ELSE job

(* onClick and the route *)
ExplainCrash(u, b) ==
  /\ Click /\ button[u].st \in {"idle", "done", "error"}
  /\ LET e == lastError[b]
         id == JobId(b, e)
     IN IF e = NoError
        THEN /\ button' = [button EXCEPT ![u] = [ButtonIdle EXCEPT !.st = "error"]]
             /\ UNCHANGED job
        ELSE /\ button' = [button EXCEPT ![u] =
                  [ButtonIdle EXCEPT !.st = "polling", !.bot = b, !.asked = e, !.id = id]]
             /\ job' = EnqueueCrashExplanation(id, e)
  /\ UNCHANGED lastError

(* analyzeCrash: the first rule that matches, or none. *)
AnalyzeCrash(e) ==
  IF Matches[e] = {} THEN 0 ELSE CHOOSE r \in Matches[e] : \A s \in Matches[e] : r <= s

ProcessExplainCrash(j) ==
  /\ job[j].st = "waiting"
  /\ job' = [job EXCEPT ![j].st = "completed", ![j].result = AnalyzeCrash(job[j].error)]
  /\ UNCHANGED <<lastError, button, clicks>>

(* Writing the audit log throws. *)
JobFails(j) ==
  /\ Click /\ job[j].st = "waiting" /\ job' = [job EXCEPT ![j].st = "failed"]
  /\ UNCHANGED <<lastError, button>>

(* removeOnComplete, removeOnFail *)
JobExpires(j) ==
  /\ Click /\ job[j].st \in {"completed", "failed"} /\ job' = [job EXCEPT ![j] = Absent]
  /\ UNCHANGED <<lastError, button>>

(* One round of the loop; a job that is gone looks like one not finished. *)
Poll(u) ==
  /\ button[u].st = "polling"
  /\ LET x == button[u]
         j == job[x.id]
     IN button' = [button EXCEPT ![u] =
          IF x.attempt >= MaxAttempts THEN [x EXCEPT !.st = "error"]
          ELSE IF j.st = "completed" THEN [x EXCEPT !.st = "done", !.result = j.result]
          ELSE IF j.st = "failed" THEN [x EXCEPT !.st = "error"]
          ELSE [x EXCEPT !.attempt = @ + 1]]
  /\ UNCHANGED <<lastError, job, clicks>>

CrashNext ==
  \/ \E b \in CrashBots, e \in Errors : BotFails(b, e)
  \/ \E u \in Buttons : Poll(u) \/ \E b \in CrashBots : ExplainCrash(u, b)
  \/ \E j \in JobIds : ProcessExplainCrash(j) \/ JobFails(j) \/ JobExpires(j)

CrashSpec == CrashInit /\ [][CrashNext]_crashVars

-----------------------------------------------------------------------------

CrashTypeOK ==
  /\ lastError \in [CrashBots -> Errors \cup {NoError}]
  /\ job \in [JobIds -> [st : {"absent", "waiting", "completed", "failed"},
                         error : Errors \cup {NoError}, result : 0 .. NoResult]]
  /\ \A u \in Buttons : /\ button[u].st \in {"idle", "polling", "done", "error"}
                        /\ button[u].st = "polling" => button[u].id \in JobIds
  /\ clicks \in 0 .. MaxClicks

(* ai-queue.ts:34-36: the explanation shown is that of the error the click    *)
(* was about, or of one with the same hash, however jobs are shared, expire   *)
(* and are queued again while the bot reports other errors.                   *)
AnswerFits ==
  \A u \in Buttons : button[u].st = "done" =>
    \E e \in Errors : /\ HashError[e] = HashError[button[u].asked]
                      /\ button[u].result = AnalyzeCrash(e)

=============================================================================
