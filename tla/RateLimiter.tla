------------------------------ MODULE RateLimiter ------------------------------
(***************************************************************************)
(* FixedWindowRateLimiter (packages/runtime-sdk/src/rate-limiter.ts) for   *)
(* calls at arbitrary times of a clock that does not go back.              *)
(***************************************************************************)
EXTENDS Naturals, Sequences, FiniteSets

CONSTANTS
  MaxPerWindow, WindowMs,  \* 20 logs or 50 metrics a second in the code
  Horizon                  \* bound on the time

ASSUME RateLimiterAssumption ==
  MaxPerWindow \in Nat /\ WindowMs \in Nat \ {0} /\ Horizon \in Nat

VARIABLES
  time,
  windowStart, count,
  passes   \* the times of the calls that were let through

limiterVars == <<time, windowStart, count, passes>>

LimiterInit == time = 0 /\ windowStart = 0 /\ count = 0 /\ passes = <<>>

(* Mutant of TryConsume: a new budget, but the window does not move. *)
TryConsumeStaleWindow ==
  LET fresh == time - windowStart >= WindowMs
      used == IF fresh THEN 0 ELSE count
  IN /\ UNCHANGED <<time, windowStart>>
     /\ IF used >= MaxPerWindow
        THEN count' = used /\ UNCHANGED passes
        ELSE count' = used + 1 /\ passes' = Append(passes, time)

TryConsume ==
  LET fresh == time - windowStart >= WindowMs
      used == IF fresh THEN 0 ELSE count
  IN /\ windowStart' = IF fresh THEN time ELSE windowStart
     /\ IF used >= MaxPerWindow
        THEN count' = used /\ UNCHANGED passes
        ELSE count' = used + 1 /\ passes' = Append(passes, time)
     /\ UNCHANGED time

TimePasses == time < Horizon /\ time' = time + 1 /\ UNCHANGED <<windowStart, count, passes>>

LimiterNext == TryConsume \/ TimePasses

LimiterSpec == LimiterInit /\ [][LimiterNext]_limiterVars

-----------------------------------------------------------------------------

LimiterTypeOK ==
  /\ time \in 0 .. Horizon /\ windowStart \in 0 .. time /\ count \in 0 .. MaxPerWindow
  /\ passes \in Seq(0 .. Horizon)

(* rate-limiter.ts:2-6: the calls let through in any period as long as the    *)
(* window, wherever it begins, are at most two budgets: the end of one window *)
(* and the beginning of the next.                                             *)
BurstBounded ==
  \A t \in 0 .. Horizon :
    Cardinality({i \in DOMAIN passes : passes[i] \in t .. t + WindowMs - 1}) <= 2 * MaxPerWindow

=============================================================================
