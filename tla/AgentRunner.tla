----------------------------- MODULE AgentRunner -----------------------------
(***************************************************************************)
(* The workload runner of one agent process: the in-memory map of cached   *)
(* workloads, the child processes it spawned and the command handlers that *)
(* are suspended inside stopWorkload                                       *)
(* (apps/agent/src/workload-runner.ts, handleWorkloadCommand in index.ts). *)
(*                                                                         *)
(* The agent is one Node.js event loop, so the code between two awaits is  *)
(* one step.  The only await is the one on a child's "exit" event; the     *)
(* listeners of that event and the promise continuations they release run  *)
(* before the next message is read, so they are one step too.              *)
(***************************************************************************)
EXTENDS Naturals, FiniteSets

CONSTANTS
  Workloads,  \* workload ids the control plane sends commands about
  Children,   \* pool of ChildProcess objects; an unreferenced one is reused
  NoChild,    \* entry.process = null
  Overlap     \* may a command arrive while another one of the same workload
              \* is suspended?  TRUE is what index.ts:128 allows ("void
              \* handleWorkloadCommand"); FALSE is a control plane that has
              \* at most one command of a workload in flight

ASSUME RunnerAssumption == NoChild \notin Children /\ Overlap \in BOOLEAN

VARIABLES
  spec,      \* runtime type of the cached spec, "none" when there is no entry
  process,   \* entry.process of the entry now in the map
  child,     \* what each ChildProcess is doing, see ChildStates
  home,      \* the workload a child was spawned for
  attached,  \* children whose exit listener captured the entry now in the map
             \* (a bot.update replaces the entry and detaches its child)
  waits,     \* handlers suspended in stopWorkload until their child exits
  claim      \* last outcome reported per workload, as the observedState the
             \* control plane derives from it

runnerVars == <<spec, process, child, home, attached, waits, claim>>

Runtimes == {"node", "other"}

(* parseWorkloadSpec: a specification is told apart by its runtime, if it has *)
(* the shape of the schema at all.                                            *)
Specifications == Runtimes \cup {"invalid"}
ParseWorkloadSpec(s) == s \in Runtimes

(* "exited" and "killed" are dead; ChildProcess.killed is true from          *)
(* "signalled" on.  An "orphan" outlived the agent process that spawned it.  *)
ChildStates == {"running", "signalled", "forced", "exited", "killed", "orphan"}

Killed(p) == child[p] \in {"signalled", "forced", "killed"}
Live(p) == child[p] \in {"running", "signalled", "forced"}

(* A handler suspended on child p: bot.stop, or the first half of a restart. *)
Waits == [type : {"stop", "restart"}, w : Workloads, child : Children]

RunnerInit ==
  /\ spec = [w \in Workloads |-> "none"]
  /\ process = [w \in Workloads |-> NoChild]
  /\ child = [p \in Children |-> "exited"]
  /\ home \in [Children -> Workloads]
  /\ attached = {}
  /\ waits = {}
  /\ claim = [w \in Workloads |-> "unknown"]

-----------------------------------------------------------------------------

Delivered(w) == Overlap \/ \A h \in waits : h.w # w

(* observedStateFor in command-outcomes.ts, for the command just reported. *)
Report(w, state) == claim' = [claim EXCEPT ![w] = state]

(* A ChildProcess object nothing refers to: the next spawn may return it. *)
Fresh(q, pr, ch) ==
  /\ ch[q] \in {"exited", "killed"}
  /\ \A w \in Workloads : pr[w] # q
  /\ \A h \in waits : h.child # q

(* entry.process && !entry.process.killed *)
RunningIn(w, pr, ch) ==
  /\ pr[w] # NoChild
  /\ ch[pr[w]] \notin {"signalled", "forced", "killed"}

(* Mutant of StartIn: the "already running" check is gone. *)
StartUnchecked(w, pr, ch, att) ==
  /\ \E q \in Children :
       /\ Fresh(q, pr, ch)
       /\ process' = [pr EXCEPT ![w] = q]
       /\ child' = [ch EXCEPT ![q] = "running"]
       /\ home' = [home EXCEPT ![q] = w]
       /\ attached' = att \cup {q}
  /\ Report(w, "running")

(***************************************************************************)
(* startWorkload(w), run when the entries' processes, the children and the *)
(* attached children are pr, ch and att.  spawn() that fails emits "error" *)
(* before any other message is read: the start was still reported as ok.   *)
(***************************************************************************)
StartIn(w, pr, ch, att) ==
  \/ /\ spec[w] # "node" \/ RunningIn(w, pr, ch)
     /\ process' = pr /\ child' = ch /\ attached' = att
     /\ Report(w, "failed")
     /\ UNCHANGED home
  \/ /\ spec[w] = "node" /\ ~RunningIn(w, pr, ch)
     /\ \E q \in Children :
          /\ Fresh(q, pr, ch)
          /\ process' = [pr EXCEPT ![w] = q]
          /\ child' = [ch EXCEPT ![q] = "running"]
          /\ home' = [home EXCEPT ![q] = w]
          /\ attached' = att \cup {q}
     /\ Report(w, "running")
  \/ /\ spec[w] = "node" /\ ~RunningIn(w, pr, ch)
     /\ process' = [pr EXCEPT ![w] = NoChild]
     /\ child' = ch /\ attached' = att
     /\ Report(w, "running")
     /\ UNCHANGED home

(* Mutant of CacheWorkloadSpec: a spec that does not parse is cached too. *)
CacheUnvalidated(w, s) ==
  /\ Delivered(w)
  /\ spec' = [spec EXCEPT ![w] = s]
  /\ attached' = {p \in attached : home[p] # w}
  /\ UNCHANGED <<process, child, home, waits, claim>>

(* bot.update.  An invalid spec returns early and changes nothing, and the *)
(* outcome of an update is never turned into an observed state.            *)
CacheWorkloadSpec(w, s) ==
  /\ Delivered(w)
  /\ \/ ParseWorkloadSpec(s) /\ spec' = [spec EXCEPT ![w] = s]
                              /\ attached' = {p \in attached : home[p] # w}
     \/ ~ParseWorkloadSpec(s) /\ UNCHANGED <<spec, attached>>
  /\ UNCHANGED <<process, child, home, waits, claim>>

(* bot.start *)
StartWorkload(w) ==
  /\ Delivered(w)
  /\ StartIn(w, process, child, attached)
  /\ UNCHANGED <<spec, waits>>

(* Mutant of BeginStop: a child that was signalled before is signalled and *)
(* awaited once more.                                                      *)
BeginStopAgain(w, type) ==
  /\ process[w] # NoChild
  /\ waits' = waits \cup {[type |-> type, w |-> w, child |-> process[w]]}
  /\ child' = IF Live(process[w])
                THEN [child EXCEPT ![process[w]] = "signalled"]
                ELSE child
  /\ UNCHANGED <<spec, process, home, attached, claim>>

(* stopWorkload up to its await: the suspended handler, the SIGTERM and the *)
(* force-kill timer.  kill() on a child that is already dead sends nothing  *)
(* and leaves child.killed false.                                           *)
BeginStop(w, type) ==
  /\ RunningIn(w, process, child)
  /\ waits' = waits \cup {[type |-> type, w |-> w, child |-> process[w]]}
  /\ child' = IF Live(process[w])
                THEN [child EXCEPT ![process[w]] = "signalled"]
                ELSE child
  /\ UNCHANGED <<spec, process, home, attached, claim>>

(* Mutant of StopWorkload: the outcome is reported without awaiting the exit. *)
StopWithoutAwait(w) ==
  /\ Delivered(w)
  /\ child' = IF RunningIn(w, process, child) /\ Live(process[w])
                THEN [child EXCEPT ![process[w]] = "signalled"]
                ELSE child
  /\ Report(w, IF spec[w] = "none" THEN "failed" ELSE "stopped")
  /\ UNCHANGED <<spec, process, home, attached, waits>>

(* bot.stop *)
StopWorkload(w) ==
  /\ Delivered(w)
  /\ \/ BeginStop(w, "stop")
     \/ /\ ~RunningIn(w, process, child)
        /\ Report(w, IF spec[w] = "none" THEN "failed" ELSE "stopped")
        /\ UNCHANGED <<spec, process, child, home, attached, waits>>

(* bot.restart: stopWorkload, then startWorkload unless the stop failed *)
RestartWorkload(w) ==
  /\ Delivered(w)
  /\ \/ BeginStop(w, "restart")
     \/ /\ ~RunningIn(w, process, child)
        /\ StartIn(w, process, child, attached)
        /\ UNCHANGED <<spec, waits>>

-----------------------------------------------------------------------------

(* Mutant of ForceKill: no force-kill timer is armed. *)
ForceKillNotArmed(p) == FALSE /\ child[p] = "signalled" /\ UNCHANGED runnerVars

(* The graceful shutdown timeout of the stop that signalled p expires. *)
ForceKill(p) ==
  /\ child[p] = "signalled"
  /\ child' = [child EXCEPT ![p] = "forced"]
  /\ UNCHANGED <<spec, process, home, attached, waits, claim>>

(* The "exit" event of p: the listener startWorkload installed clears the    *)
(* process of the entry it captured, then the handler suspended on p resumes *)
(* - and starts the workload again when it is a restart.                     *)
ProcessExit(p) ==
  /\ Live(p)
  /\ LET w == home[p]
         woken == {h \in waits : h.child = p}
         pr == IF p \in attached THEN [process EXCEPT ![w] = NoChild] ELSE process
         ch == [child EXCEPT ![p] = IF Killed(p) THEN "killed" ELSE "exited"]
     IN /\ waits' = waits \ woken
        /\ \/ /\ \E h \in woken : h.type = "restart"
              /\ StartIn(w, pr, ch, attached \ {p})
           \/ /\ \A h \in woken : h.type # "restart"
              /\ process' = pr /\ child' = ch /\ attached' = attached \ {p}
              /\ IF woken = {} THEN UNCHANGED claim ELSE Report(w, "stopped")
              /\ UNCHANGED home
  /\ UNCHANGED spec

(* shutdown() or a crash of the agent, and the start of a new one: the map  *)
(* and the suspended handlers are gone, the children are not stopped.       *)
AgentRestart ==
  /\ spec' = [w \in Workloads |-> "none"]
  /\ process' = [w \in Workloads |-> NoChild]
  /\ child' = [p \in Children |-> IF Live(p) THEN "orphan" ELSE child[p]]
  /\ attached' = {}
  /\ waits' = {}
  /\ UNCHANGED <<home, claim>>

OrphanExit(p) ==
  /\ child[p] = "orphan"
  /\ child' = [child EXCEPT ![p] = "exited"]
  /\ UNCHANGED <<spec, process, home, attached, waits, claim>>

RunnerNext ==
  \/ \E w \in Workloads :
       \/ \E s \in Specifications : CacheWorkloadSpec(w, s)
       \/ StartWorkload(w)
       \/ StopWorkload(w)
       \/ RestartWorkload(w)
  \/ \E p \in Children :
       \/ ForceKill(p)
       \/ ProcessExit(p)
       \/ OrphanExit(p)
  \/ AgentRestart

RunnerSpec == RunnerInit /\ [][RunnerNext]_runnerVars

(* Timers fire, and the kernel ends a process that got SIGKILL.  Nothing    *)
(* makes a process end that was only asked to, or not asked at all.         *)
RunnerFairness ==
  \A p \in Children :
    /\ WF_runnerVars(ForceKill(p))
    /\ WF_runnerVars(child[p] = "forced" /\ ProcessExit(p))

RunnerFairSpec == RunnerSpec /\ RunnerFairness

-----------------------------------------------------------------------------

(* Every variable has its type; in particular only specs that parsed are    *)
(* cached (cacheWorkloadSpec).                                              *)
RunnerTypeOK ==
  /\ spec \in [Workloads -> {"none"} \cup Runtimes]
  /\ process \in [Workloads -> Children \cup {NoChild}]
  /\ child \in [Children -> ChildStates]
  /\ home \in [Children -> Workloads]
  /\ attached \subseteq Children
  /\ waits \subseteq Waits
  /\ claim \in [Workloads -> {"unknown", "running", "stopped", "failed"}]

(* A child that was sent SIGTERM is always awaited by exactly one suspended *)
(* handler, hence by one armed force-kill timer, whatever commands overlap: *)
(* the early return of stopWorkload for a killed process neither loses the  *)
(* timer nor lets one exit resume a stop and a restart.                     *)
SignalledHasOneStopper ==
  \A p \in Children :
    child[p] \in {"signalled", "forced"} =>
      \E h \in waits : /\ h.child = p
                       /\ \A g \in waits : g.child = p => g = h

(* Every live child is the process of its workload's entry, so inventory,  *)
(* stop and the "already running" check all see it, also after the entry   *)
(* was replaced by a bot.update.  Two children of one workload are never   *)
(* alive together.  Needs commands of a workload not to overlap.           *)
NoUntrackedChild ==
  \A p \in Children : Live(p) => process[home[p]] = p

(* When the last outcome reported for a workload means "stopped", no child *)
(* of it started by this agent process is alive.                           *)
StoppedMeansDead ==
  \A w \in Workloads, p \in Children :
    claim[w] = "stopped" /\ home[p] = w => ~Live(p)

(* A child that was sent SIGTERM does not stay alive under this agent: the *)
(* force-kill timer of stopWorkload ends it at the latest.                 *)
SignalledDies ==
  \A p \in Children : (child[p] \in {"signalled", "forced"}) ~> ~Live(p)

-----------------------------------------------------------------------------

(* workload-runner.test.ts:74, "rejects starting the same workload twice    *)
(* while already running": two children of one workload, neither of them    *)
(* asked to stop, are never alive together.                                 *)
NoSecondCopy ==
  \A p, q \in Children :
    child[p] = "running" /\ child[q] = "running" /\ home[p] = home[q] => p = q

(* index.ts:220-223 on handleWorkloadCommand: it executes the command "and   *)
(* reports the outcome": a suspended handler resumes sooner or later.        *)
HandlerReports ==
  \A w \in Workloads : (\E h \in waits : h.w = w) ~> (\A h \in waits : h.w # w)
=============================================================================
