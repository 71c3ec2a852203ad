------------------------------ MODULE RuntimePm ------------------------------
(***************************************************************************)
(* The Linux 5.4 runtime power management core as the two sensor drivers   *)
(* use it.  The core is not part of the repository; it is modelled from    *)
(* the calls the drivers make (pm_runtime_get_sync, pm_runtime_put,        *)
(* pm_runtime_put_noidle, pm_runtime_get_if_in_use, pm_runtime_idle) and   *)
(* from the callbacks they register in their dev_pm_ops.                   *)
(*                                                                         *)
(* What a driver has to live with, and what the model keeps:               *)
(*   - the usage count is a plain atomic integer, nothing stops a surplus  *)
(*     put from driving it below zero;                                     *)
(*   - the status changes under a spinlock of the core's own, not under    *)
(*     the driver's mutex: "resuming" and "suspending" are visible while   *)
(*     the callback has yet to run or has already run;                     *)
(*   - a callback that fails leaves runtime_error set, after which every   *)
(*     resume and every idle request is refused;                           *)
(*   - a put that reaches zero queues an idle request that the PM          *)
(*     workqueue serves later, and any get in between cancels it.          *)
(***************************************************************************)
EXTENDS Integers

VARIABLES usage,      \* power.usage_count
          status,     \* power.runtime_status
          pmError,    \* power.runtime_error # 0
          request     \* an RPM_REQ_IDLE is pending on the workqueue

pmVars == <<usage, status, pmError, request>>

RpmStatus == {"suspended", "resuming", "active", "suspending"}

RpmTypeOK ==
    /\ usage \in Int
    /\ status \in RpmStatus
    /\ pmError \in BOOLEAN
    /\ request \in BOOLEAN

\* rpm_check_suspend_allowed for a device whose count is u: the count is
\* compared with "> 0", so a negative count does not protect the device.
SuspendAllowed(u) == ~pmError /\ u <= 0 /\ status = "active"

\* The first half of rpm_resume on behalf of a thread that already holds its
\* reference: the pending idle request is dropped; an active device is ready,
\* a suspended one starts resuming (the caller runs the callback next).  A
\* device in transition blocks the caller: neither disjunct is enabled.
RpmReady == ~pmError /\ status = "active" /\ request' = FALSE
            /\ UNCHANGED <<usage, status, pmError>>

RpmBeginResume == ~pmError /\ status = "suspended" /\ request' = FALSE
                  /\ status' = "resuming" /\ UNCHANGED <<usage, pmError>>

RpmRefuse == pmError /\ UNCHANGED pmVars

\* The second half of rpm_resume, after the callback returned: on success the
\* core itself asks for an idle check, which the usage count normally vetoes.
RpmEndResume(ok) ==
    /\ status = "resuming"
    /\ status' = IF ok THEN "active" ELSE "suspended"
    /\ pmError' = ~ok
    /\ request' = (ok /\ usage <= 0)
    /\ UNCHANGED usage

\* pm_runtime_put: atomic_dec_and_test, and an asynchronous idle request only
\* when the count becomes exactly zero.
RpmPut ==
    /\ usage' = usage - 1
    /\ request' = (request \/ (usage = 1 /\ SuspendAllowed(0)))
    /\ UNCHANGED <<status, pmError>>

\* pm_runtime_put_noidle: decrement unless already zero, no idle request.
RpmPutNoidle ==
    /\ usage' = IF usage = 0 THEN 0 ELSE usage - 1
    /\ UNCHANGED <<status, pmError, request>>

\* The PM worker serves the idle request: rpm_idle, then rpm_suspend.
RpmBeginSuspend ==
    /\ request
    /\ request' = FALSE
    /\ status' = IF SuspendAllowed(usage) THEN "suspending" ELSE status
    /\ UNCHANGED <<usage, pmError>>

\* The end of rpm_suspend: a failed callback leaves the device active, with the
\* error latched unless it was -EAGAIN or -EBUSY.
RpmEndSuspend(ok) ==
    /\ status = "suspending"
    /\ status' = IF ok THEN "suspended" ELSE "active"
    /\ pmError' \in IF ok THEN {FALSE} ELSE BOOLEAN
    /\ request' = FALSE
    /\ UNCHANGED usage
=============================================================================
