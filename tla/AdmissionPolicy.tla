---------------------------- MODULE AdmissionPolicy ----------------------------
(***************************************************************************)
(* The pure admission decision of lua/utils/host_admission.lua (`admit`),  *)
(* shared by the controls of run_when_allowed and by the start gate of the *)
(* index scheduler.  A reading stands for what one attempt sees: the       *)
(* cached cpu_load value against the two watermarks, a sensor that is      *)
(* warming or missing, or a policy that is switched off.                   *)
(***************************************************************************)
EXTENDS Naturals

CONSTANT MaxDeferrals   \* opts.max_deferrals: denials for CPU load before a forced start

ASSUME CapIsNatural == MaxDeferrals \in Nat

Reading == {"disabled", "warming", "unknown", "high", "low", "band"}

\* Fault seed: the cap is tested before foreground ownership.
ReasonCapFirst(foreground, reading, deferrals) ==
  IF deferrals >= MaxDeferrals THEN "defer-cap-reached"
  ELSE IF foreground THEN "foreground-work-active"
  ELSE IF reading = "disabled" THEN "admission-disabled"
  ELSE reading

\* The reason for the decision, in the order the code tests them: foreground work
\* keeps background work out whatever the sensor says.
Reason(foreground, reading, deferrals) ==
  IF foreground THEN "foreground-work-active"
  ELSE IF reading = "disabled" THEN "admission-disabled"
  ELSE IF deferrals >= MaxDeferrals THEN "defer-cap-reached"
  ELSE reading

\* Whether the work may start.  Between the watermarks it may, unless it was
\* deferred before (was_deferring).
Allows(reason, deferrals) ==
  reason \notin {"foreground-work-active", "warming", "high"}
    \cup (IF deferrals > 0 THEN {"band"} ELSE {})

\* Fault seed: no denial counts towards the cap.
CountedNever(reason) == 0

\* What a denial adds to the deferrals: foreground work is not CPU pressure.
Counted(reason) == IF reason = "foreground-work-active" THEN 0 ELSE 1
================================================================================
