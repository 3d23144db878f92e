-------------------------- MODULE AgentRunnerProofs --------------------------
(***************************************************************************)
(* Proofs about AgentRunner for any sets of workloads and children.        *)
(*                                                                         *)
(* RunnerInv is inductive whether or not commands overlap: a signalled     *)
(* child keeps its one suspended stopper because no handler ever waits for *)
(* a child that is still "running" (WaitedNotRunning), so the handler that *)
(* signals it is the only one.  SerialInv adds what holds when commands of *)
(* a workload do not overlap: a killed but living process has a suspended  *)
(* handler, so no start of that workload can be delivered before it exits. *)
(***************************************************************************)
EXTENDS AgentRunner, TLAPS

(* Children are never mixed up between workloads: the process of an entry   *)
(* and the child a stop or restart waits for belong to that workload.       *)
OwnChildren ==
  /\ \A w \in Workloads : process[w] # NoChild => home[process[w]] = w
  /\ \A h \in waits : home[h.child] = h.w

WaitedNotRunning == \A h \in waits : child[h.child] # "running"

RunnerInv ==
  RunnerTypeOK /\ OwnChildren /\ SignalledHasOneStopper /\ WaitedNotRunning

SerialInv == RunnerInv /\ NoUntrackedChild /\ StoppedMeansDead

USE RunnerAssumption DEF Runtimes, ChildStates, Waits

(* No child and no handler to begin with. *)
LEMMA StoppersInitially == RunnerInit => RunnerInv
  BY DEF RunnerInit, RunnerInv, RunnerTypeOK, OwnChildren, SignalledHasOneStopper, WaitedNotRunning

(* startWorkload preserves the invariant from any intermediate state of the *)
(* processes, children and attached children in which the invariant holds.  *)
LEMMA StartTypes ==
  ASSUME RunnerTypeOK, NEW w \in Workloads,
         NEW pr \in [Workloads -> Children \cup {NoChild}],
         NEW ch \in [Children -> ChildStates],
         NEW att \in SUBSET Children,
         StartIn(w, pr, ch, att)
  PROVE  /\ process' \in [Workloads -> Children \cup {NoChild}]
         /\ child' \in [Children -> ChildStates]
         /\ home' \in [Children -> Workloads]
         /\ attached' \subseteq Children
         /\ claim' \in [Workloads -> {"unknown", "running", "stopped", "failed"}]
  BY DEF StartIn, RunnerTypeOK, Report, Fresh

(* Every step keeps the invariant. *)
LEMMA StoppersAlways == RunnerInv /\ [RunnerNext]_runnerVars => RunnerInv'
<1> SUFFICES ASSUME RunnerInv, [RunnerNext]_runnerVars PROVE RunnerInv'
  OBVIOUS
<1> USE DEF RunnerInv
<1>1. ASSUME NEW w \in Workloads, NEW s \in Specifications, CacheWorkloadSpec(w, s)
      PROVE  RunnerInv'
  BY <1>1 DEF CacheWorkloadSpec, ParseWorkloadSpec, RunnerTypeOK, OwnChildren, SignalledHasOneStopper,
              WaitedNotRunning
<1>2. ASSUME NEW w \in Workloads, StartIn(w, process, child, attached), UNCHANGED <<spec, waits>>
      PROVE  RunnerInv'
  <2>1. RunnerTypeOK'
    BY <1>2, StartTypes DEF RunnerTypeOK
  <2>2. OwnChildren'
    BY <1>2 DEF StartIn, Fresh, RunnerTypeOK, OwnChildren
  <2>3. SignalledHasOneStopper' /\ WaitedNotRunning'
    BY <1>2 DEF StartIn, Fresh, RunnerTypeOK, SignalledHasOneStopper, WaitedNotRunning
  <2> QED BY <2>1, <2>2, <2>3
<1>3. ASSUME NEW w \in Workloads, NEW type \in {"stop", "restart"}, BeginStop(w, type)
      PROVE  RunnerInv'
  <2>1. RunnerTypeOK' /\ OwnChildren'
    BY <1>3 DEF BeginStop, RunningIn, Live, RunnerTypeOK, OwnChildren
  <2> DEFINE p == process[w]
             h == [type |-> type, w |-> w, child |-> p]
  <2>2. /\ p \in Children /\ waits' = waits \cup {h} /\ h.child = p
        /\ child[p] \notin {"signalled", "forced", "killed"}
        /\ child' = IF Live(p) THEN [child EXCEPT ![p] = "signalled"] ELSE child
    BY <1>3 DEF BeginStop, RunningIn, RunnerTypeOK
  <2> HIDE DEF p, h
  <2>3. CASE Live(p)
    <3>1. \A g \in waits : g.child # p
      BY <2>2, <2>3 DEF Live, WaitedNotRunning
    <3> QED BY <2>1, <2>2, <2>3, <3>1 DEF RunnerTypeOK, SignalledHasOneStopper, WaitedNotRunning
  <2>4. CASE ~Live(p)
    BY <2>1, <2>2, <2>4 DEF Live, RunnerTypeOK, SignalledHasOneStopper, WaitedNotRunning
  <2> QED BY <2>3, <2>4
<1>4. ASSUME NEW w \in Workloads, StopWorkload(w) PROVE RunnerInv'
  BY <1>3, <1>4 DEF StopWorkload, Report, RunnerTypeOK, OwnChildren, SignalledHasOneStopper, WaitedNotRunning
<1>5. ASSUME NEW p \in Children, ForceKill(p) \/ OrphanExit(p) PROVE RunnerInv'
  BY <1>5 DEF ForceKill, OrphanExit, RunnerTypeOK, OwnChildren, SignalledHasOneStopper, WaitedNotRunning
<1>6. ASSUME NEW p \in Children, ProcessExit(p) PROVE RunnerInv'
  <2> DEFINE w == home[p]
             woken == {h \in waits : h.child = p}
             pr == IF p \in attached THEN [process EXCEPT ![w] = NoChild] ELSE process
             ch == [child EXCEPT ![p] = IF Killed(p) THEN "killed" ELSE "exited"]
  <2>1. /\ w \in Workloads
        /\ pr \in [Workloads -> Children \cup {NoChild}]
        /\ ch \in [Children -> ChildStates]
        /\ attached \ {p} \in SUBSET Children
        /\ waits' = waits \ woken /\ UNCHANGED spec
    BY <1>6 DEF ProcessExit, RunnerTypeOK
  <2>2. \A v \in Workloads : pr[v] # NoChild => home[pr[v]] = v
    BY <2>1 DEF RunnerTypeOK, OwnChildren
  <2>3. CASE StartIn(w, pr, ch, attached \ {p})
    <3>1. RunnerTypeOK'
      BY <2>1, <2>3, StartTypes DEF RunnerTypeOK
    <3>2. OwnChildren'
      <4> HIDE DEF pr, ch, w
      <4> QED BY <2>1, <2>2, <2>3 DEF StartIn, Fresh, RunnerTypeOK, OwnChildren
    <3>3. SignalledHasOneStopper' /\ WaitedNotRunning'
      <4>1. \A q \in Children : ch[q] = IF q = p THEN ch[p] ELSE child[q]
        BY DEF RunnerTypeOK
      <4>2. ch[p] \in {"killed", "exited"}
        BY DEF RunnerTypeOK
      <4>3. \A q \in Children : \/ child'[q] = ch[q]
                                \/ child'[q] = "running" /\ \A h \in waits : h.child # q
        BY <2>1, <2>3 DEF StartIn, Fresh
      <4> HIDE DEF pr, ch, w
      <4> QED BY <2>1, <4>1, <4>2, <4>3 DEF RunnerTypeOK, SignalledHasOneStopper, WaitedNotRunning
    <3> QED BY <3>1, <3>2, <3>3
  <2>4. CASE /\ process' = pr /\ child' = ch /\ attached' = attached \ {p}
             /\ IF woken = {} THEN UNCHANGED claim ELSE Report(w, "stopped")
             /\ UNCHANGED home
    <3>1. RunnerTypeOK' /\ OwnChildren'
      BY <2>1, <2>2, <2>4 DEF RunnerTypeOK, OwnChildren, Report
    <3>2. SignalledHasOneStopper' /\ WaitedNotRunning'
      BY <2>1, <2>4 DEF RunnerTypeOK, SignalledHasOneStopper, WaitedNotRunning
    <3> QED BY <3>1, <3>2
  <2> QED BY <1>6, <2>3, <2>4 DEF ProcessExit
<1>7. ASSUME AgentRestart PROVE RunnerInv'
  BY <1>7 DEF AgentRestart, Live, RunnerTypeOK, OwnChildren, SignalledHasOneStopper, WaitedNotRunning
<1>8. ASSUME UNCHANGED runnerVars PROVE RunnerInv'
  BY <1>8 DEF runnerVars, RunnerTypeOK, OwnChildren, SignalledHasOneStopper, WaitedNotRunning
<1> QED
  BY <1>1, <1>2, <1>3, <1>4, <1>5, <1>6, <1>7, <1>8 DEF RunnerNext, StartWorkload, RestartWorkload

(* Whatever commands overlap, the runner keeps its types, never mixes up    *)
(* the children of two workloads and never leaves a signalled child without *)
(* the one handler, and force-kill timer, that ends it.                     *)
THEOREM RunnerSafe == RunnerSpec => [](RunnerTypeOK /\ OwnChildren /\ SignalledHasOneStopper)
<1>1. RunnerInv => RunnerTypeOK /\ OwnChildren /\ SignalledHasOneStopper
  BY DEF RunnerInv
<1> QED BY StoppersInitially, StoppersAlways, <1>1, PTL DEF RunnerSpec

(* workload-runner.ts: in particular the map of processes, the children and *)
(* the handlers keep their types, whatever commands overlap.                *)
THEOREM RunnerTypes == RunnerSpec => []RunnerTypeOK
BY RunnerSafe, PTL

(* Without overlap, a workload a command is delivered for has no child that *)
(* is alive unless its entry shows that child as running.                   *)
LEMMA QuietWhenNotRunning ==
  ASSUME RunnerInv, NoUntrackedChild, ~Overlap,
         NEW w \in Workloads, Delivered(w), ~RunningIn(w, process, child),
         NEW p \in Children, home[p] = w
  PROVE  ~Live(p)
<1> SUFFICES ASSUME Live(p) PROVE FALSE
  OBVIOUS
<1>1. process[w] = p
  BY DEF NoUntrackedChild
<1>2. child[p] \in {"signalled", "forced"}
  BY <1>1 DEF RunningIn, Live
<1>3. PICK h \in waits : h.child = p
  BY <1>2 DEF RunnerInv, SignalledHasOneStopper
<1> QED BY <1>3 DEF Delivered, RunnerInv, OwnChildren

(* startWorkload from an intermediate state in which no child of w lives *)
(* and the living children of the other workloads are tracked.           *)
LEMMA SerialStart ==
  ASSUME RunnerTypeOK, StoppedMeansDead, NEW w \in Workloads,
         NEW pr \in [Workloads -> Children \cup {NoChild}],
         NEW ch \in [Children -> ChildStates],
         NEW att \in SUBSET Children,
         StartIn(w, pr, ch, att),
         \A p \in Children : ch[p] \in {"running", "signalled", "forced"} =>
            /\ home[p] # w /\ pr[home[p]] = p /\ Live(p)
  PROVE  NoUntrackedChild' /\ StoppedMeansDead'
<1>1. CASE /\ child' = ch /\ UNCHANGED home
           /\ process' = pr \/ process' = [pr EXCEPT ![w] = NoChild]
           /\ Report(w, "failed") \/ Report(w, "running")
  BY <1>1 DEF RunnerTypeOK, NoUntrackedChild, StoppedMeansDead, Live, Report
<1>2. ASSUME NEW q \in Children,
             Fresh(q, pr, ch),
             process' = [pr EXCEPT ![w] = q],
             child' = [ch EXCEPT ![q] = "running"],
             home' = [home EXCEPT ![q] = w],
             Report(w, "running")
      PROVE  NoUntrackedChild' /\ StoppedMeansDead'
  <2>1. NoUntrackedChild'
    BY <1>2 DEF RunnerTypeOK, NoUntrackedChild, Live
  <2>2. StoppedMeansDead'
    BY <1>2 DEF RunnerTypeOK, StoppedMeansDead, Live, Report
  <2> QED BY <2>1, <2>2
<1> QED BY <1>1, <1>2 DEF StartIn

(* Without overlap, every step keeps track of every living child. *)
LEMMA SerialNext ==
  ASSUME ~Overlap
  PROVE  SerialInv /\ [RunnerNext]_runnerVars => SerialInv'
<1> SUFFICES ASSUME SerialInv, [RunnerNext]_runnerVars PROVE NoUntrackedChild' /\ StoppedMeansDead'
  BY StoppersAlways DEF SerialInv
<1> USE DEF SerialInv, RunnerInv
<1>1. ASSUME NEW w \in Workloads, NEW s \in Specifications, CacheWorkloadSpec(w, s)
      PROVE  NoUntrackedChild' /\ StoppedMeansDead'
  BY <1>1 DEF CacheWorkloadSpec, ParseWorkloadSpec, NoUntrackedChild, StoppedMeansDead, Live
<1>2. ASSUME NEW w \in Workloads, Delivered(w), StartIn(w, process, child, attached)
      PROVE  NoUntrackedChild' /\ StoppedMeansDead'
  <2>1. CASE RunningIn(w, process, child)
    BY <1>2, <2>1 DEF StartIn, Report, RunnerTypeOK, NoUntrackedChild, StoppedMeansDead, Live
  <2>2. CASE ~RunningIn(w, process, child)
    <3>1. \A p \in Children : Live(p) => home[p] # w /\ process[home[p]] = p
      BY <1>2, <2>2, QuietWhenNotRunning DEF NoUntrackedChild
    <3>2. \A p \in Children : child[p] \in {"running", "signalled", "forced"} =>
            /\ home[p] # w /\ process[home[p]] = p /\ Live(p)
      BY <3>1 DEF Live
    <3>3. /\ process \in [Workloads -> Children \cup {NoChild}]
          /\ child \in [Children -> ChildStates]
          /\ attached \in SUBSET Children
      BY DEF RunnerTypeOK
    <3> QED BY <1>2, <3>2, <3>3, SerialStart
  <2> QED BY <2>1, <2>2
<1>3. ASSUME NEW w \in Workloads, NEW type \in {"stop", "restart"}, BeginStop(w, type)
      PROVE  NoUntrackedChild' /\ StoppedMeansDead'
  BY <1>3 DEF BeginStop, RunningIn, Live, RunnerTypeOK, OwnChildren, NoUntrackedChild, StoppedMeansDead
<1>4. ASSUME NEW w \in Workloads, StopWorkload(w)
      PROVE  NoUntrackedChild' /\ StoppedMeansDead'
  <2>1. CASE BeginStop(w, "stop")
    BY <1>3, <2>1
  <2>2. CASE /\ ~RunningIn(w, process, child)
             /\ Report(w, IF spec[w] = "none" THEN "failed" ELSE "stopped")
             /\ UNCHANGED <<spec, process, child, home, attached, waits>>
    <3>1. \A p \in Children : home[p] = w => ~Live(p)
      BY <1>4, <2>2, QuietWhenNotRunning DEF StopWorkload
    <3> QED BY <2>2, <3>1 DEF Report, Live, RunnerTypeOK, NoUntrackedChild, StoppedMeansDead
  <2> QED BY <1>4, <2>1, <2>2 DEF StopWorkload
<1>5. ASSUME NEW p \in Children, ForceKill(p) \/ OrphanExit(p)
      PROVE  NoUntrackedChild' /\ StoppedMeansDead'
  BY <1>5 DEF ForceKill, OrphanExit, Live, RunnerTypeOK, NoUntrackedChild, StoppedMeansDead
<1>6. ASSUME NEW p \in Children, ProcessExit(p)
      PROVE  NoUntrackedChild' /\ StoppedMeansDead'
  <2> DEFINE w == home[p]
             woken == {h \in waits : h.child = p}
             pr == IF p \in attached THEN [process EXCEPT ![w] = NoChild] ELSE process
             ch == [child EXCEPT ![p] = IF Killed(p) THEN "killed" ELSE "exited"]
  <2>1. /\ w \in Workloads
        /\ pr \in [Workloads -> Children \cup {NoChild}]
        /\ ch \in [Children -> ChildStates]
        /\ attached \ {p} \in SUBSET Children
    BY DEF RunnerTypeOK
  <2>2. \A q \in Children : ch[q] \in {"running", "signalled", "forced"} =>
          /\ home[q] # w /\ pr[home[q]] = q /\ Live(q)
    BY <1>6 DEF ProcessExit, Live, RunnerTypeOK, NoUntrackedChild
  <2>3. CASE StartIn(w, pr, ch, attached \ {p})
    <3> HIDE DEF w, pr, ch
    <3> QED BY <2>1, <2>2, <2>3, SerialStart
  <2>4. CASE /\ process' = pr /\ child' = ch
             /\ IF woken = {} THEN UNCHANGED claim ELSE Report(w, "stopped")
             /\ UNCHANGED home
    <3> HIDE DEF pr, ch
    <3> QED BY <2>1, <2>2, <2>4 DEF Report, Live, RunnerTypeOK, NoUntrackedChild, StoppedMeansDead
  <2> QED BY <1>6, <2>3, <2>4 DEF ProcessExit
<1>7. ASSUME AgentRestart PROVE NoUntrackedChild' /\ StoppedMeansDead'
  BY <1>7 DEF AgentRestart, Live, RunnerTypeOK, NoUntrackedChild, StoppedMeansDead
<1>8. ASSUME UNCHANGED runnerVars PROVE NoUntrackedChild' /\ StoppedMeansDead'
  BY <1>8 DEF runnerVars, Live, NoUntrackedChild, StoppedMeansDead
<1> QED
  BY <1>1, <1>2, <1>3, <1>4, <1>5, <1>6, <1>7, <1>8 DEF RunnerNext, StartWorkload, RestartWorkload

(* When the control plane keeps at most one command of a workload in flight *)
(* at the agent, no child ever escapes the map that inventory and stop read *)
(* - in particular no workload runs twice on one agent - and a workload     *)
(* reported as stopped has no living child.                                 *)
THEOREM SerialCommandsKeepTrack ==
  ASSUME ~Overlap
  PROVE  RunnerSpec => [](NoUntrackedChild /\ StoppedMeansDead)
<1>1. RunnerInit => SerialInv
  BY StoppersInitially DEF RunnerInit, SerialInv, NoUntrackedChild, StoppedMeansDead, Live
<1>2. SerialInv /\ [RunnerNext]_runnerVars => SerialInv'
  BY SerialNext
<1>3. SerialInv => NoUntrackedChild /\ StoppedMeansDead
  BY DEF SerialInv
<1> QED BY <1>1, <1>2, <1>3, PTL DEF RunnerSpec

(* In particular a stop that was reported as done has ended the process:    *)
(* what the control plane takes as observedState "stopped" is true.         *)
THEOREM StoppedWorkloadsAreDead ==
  ASSUME ~Overlap
  PROVE  RunnerSpec => []StoppedMeansDead
BY SerialCommandsKeepTrack, PTL

=============================================================================
