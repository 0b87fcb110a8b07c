---------------------------- MODULE VersionBits -----------------------------
(***************************************************************************)
(* The soft-fork rehearsal of netcoin/versionbits.py: the blocks of a chain  *)
(* are cut into signalling periods and each period's state follows from the  *)
(* one before.  The last period may be incomplete.                           *)
(***************************************************************************)
EXTENDS Integers

CONSTANTS
  Period, Threshold, StartHeight, TimeoutHeight,
  Horizon                          \* bound of the chain's length

\* VersionBitsDeployment.validate; without it every evaluation fails.
ASSUME DeploymentAssumption ==
  /\ Period \in Nat \ {0} /\ Threshold \in 1..Period
  /\ StartHeight \in Nat /\ TimeoutHeight \in Nat /\ StartHeight < TimeoutHeight

VARIABLES
  periodStart,          \* the height the next period starts at
  deployment,           \* the state after the periods evaluated so far
  earned,               \* some full period in the window reached the threshold
  ended                 \* an incomplete period was the last one

bitsVars == <<periodStart, deployment, earned, ended>>

BitsInit == periodStart = 0 /\ deployment = "defined" /\ earned = FALSE /\ ended = FALSE

\* Faulty variant: incomplete periods and the timeout are ignored.
FaultyNextState(start, previous, size, signals) ==
  IF start < StartHeight THEN "defined"
  ELSE IF previous = "defined" THEN "started"
  ELSE IF previous = "started" /\ signals >= Threshold THEN "locked_in"
  ELSE IF previous \in {"locked_in", "active"} THEN "active"
  ELSE previous

\* evaluate_period; an incomplete period while started is an issue, and any
\* issue fails the deployment.
NextState(start, previous, size, signals) ==
  IF previous = "started" /\ size # Period THEN "failed"
  ELSE IF start < StartHeight THEN "defined"
  ELSE IF start >= TimeoutHeight /\ previous \notin {"locked_in", "active"} THEN "failed"
  ELSE IF previous = "defined" THEN "started"
  ELSE IF previous = "started" /\ signals >= Threshold THEN "locked_in"
  ELSE IF previous \in {"locked_in", "active"} THEN "active"
  ELSE previous

\* One round of evaluate_rehearsal_chain: a period of size blocks, of which so
\* many signal.
EvaluatePeriod(size, signals) ==
  /\ ~ended /\ periodStart + size <= Horizon
  /\ periodStart' = periodStart + size
  /\ deployment' = NextState(periodStart, deployment, size, signals)
  /\ earned' = (earned \/ ( /\ size = Period /\ signals >= Threshold
                            /\ StartHeight <= periodStart /\ periodStart < TimeoutHeight))
  /\ ended' = (size < Period)

BitsNext == \E size \in 1..Period : \E signals \in 0..size : EvaluatePeriod(size, signals)

BitsSpec == BitsInit /\ [][BitsNext]_bitsVars

(* ---------------- properties --------------------------------------------- *)
\* A deployment is locked in, or active, only if a complete period that started
\* inside its window reached the threshold (versionbits.py:128-185).
ActivationEarned == deployment \in {"locked_in", "active"} => earned

\* Lock-in is final: a locked-in deployment is active from the next period on,
\* past the timeout and in an incomplete period too.
LockInIsFinal ==
  [][(deployment \in {"locked_in", "active"}) => (deployment' = "active")]_bitsVars
=============================================================================
