---------------------------- MODULE Csi2Receiver ----------------------------
(***************************************************************************)
(* The MIPI CSI-2 receiver between sensor and ISI channel                  *)
(* (src/exercise-09-dec-21/camera/staging/media/imx/imx8-mipi-csi2-sam.c)  *)
(* after probe, as the capture pipeline drives it: set_fmt, get_fmt and    *)
(* s_stream of its subdev, and its runtime PM callbacks.                   *)
(*                                                                         *)
(* Nothing in the driver serialises these calls or remembers whether the   *)
(* receiver runs: every s_stream(1) takes a runtime PM reference, every    *)
(* s_stream(0) gives one back, and the result of pm_runtime_get_sync is not*)
(* looked at.  Probe enables the clocks and leaves them on.                *)
(*                                                                         *)
(* A frame format is a record of a bus code and a size.                    *)
(***************************************************************************)
EXTENDS RuntimePm

CONSTANTS
    CsisCodes,      \* the codes of mipi_csis_formats
    FirstCsisCode,  \* mipi_csis_formats[0].code
    SupplyFaults    \* the PHY regulator and the clocks may fail

VARIABLES
    cpc,        \* where a caller is inside mipi_csis_s_stream(1)
    csisFmt,    \* state->csis_fmt, as its code
    seenFmt,    \* state->format: the last format get_fmt has seen
    phy,        \* the PHY regulator is on
    clks,       \* enable count of the receiver's clocks
    running,    \* MIPI_CSIS_CMN_CTRL enable bit, gasket enabled
    isp,        \* format in the registers of the receiver and in the gasket
    types       \* codes whose data type bits are set in the gasket control

receiverVars == <<csisFmt, seenFmt, phy, clks, running, isp, types>>
csiVars == <<pmVars, cpc, receiverVars>>

-----------------------------------------------------------------------------
(* Formats *)

FoundCode_Requested(req, f) == req.code

\* find_csis_format on the code the sensor has settled for (f), not on the one
\* that was asked for (req); a code the receiver does not know becomes the
\* first of its table.
FoundCode(req, f) == IF f.code \in CsisCodes THEN f.code ELSE FirstCsisCode

\* The receiver's part of mipi_csis_set_fmt, once the sensor has accepted f.
TakeFormat(req, f) == csisFmt' = FoundCode(req, f)

\* mipi_csis_get_fmt of a sensor whose format is f.
SeeFormat(f) == seenFmt' = f

-----------------------------------------------------------------------------
(* mipi_csis_s_stream *)

\* pm_runtime_get_sync takes the reference before it looks at the status.
CallStart ==
    /\ cpc = "idle"
    /\ cpc' = "get_sync"
    /\ usage' = usage + 1
    /\ UNCHANGED <<status, pmError, request, receiverVars>>

\* A device on its way down keeps the caller waiting; one that failed to resume
\* earlier refuses, which the caller ignores.
GetSync ==
    /\ cpc = "get_sync"
    /\ \/ (RpmReady \/ RpmRefuse) /\ cpc' = "start"
       \/ RpmBeginResume /\ cpc' = "resume"
    /\ UNCHANGED receiverVars

\* mipi_csis_runtime_resume gives up: the regulator failed, or one of the clocks
\* did, which leaves the regulator and the clocks before it enabled.
ResumeFails ==
    /\ SupplyFaults
    /\ RpmEndResume(FALSE)
    /\ phy' \in BOOLEAN
    /\ clks' \in IF phy' THEN {clks, clks + 1} ELSE {clks}

\* mipi_csis_runtime_resume; the caller goes on in either case.
Resume ==
    /\ cpc = "resume"
    /\ \/ RpmEndResume(TRUE) /\ phy' = TRUE /\ clks' = clks + 1
       \/ ResumeFails
    /\ cpc' = "start"
    /\ UNCHANGED <<csisFmt, seenFmt, running, isp, types>>

\* mipi_csis_start_stream: the code comes from the last set_fmt, the size from
\* the last get_fmt.  disp_mix_gasket_config sets the data type bits of the code
\* without clearing those of earlier ones.
StartStream ==
    /\ cpc = "start"
    /\ running' = TRUE
    /\ isp' = [code |-> csisFmt, size |-> seenFmt.size]
    /\ types' = types \cup {csisFmt}
    /\ cpc' = "idle"
    /\ UNCHANGED <<pmVars, csisFmt, seenFmt, phy, clks>>

StopStream_KeepsReference ==
    /\ cpc = "idle"
    /\ running' = FALSE
    /\ UNCHANGED <<pmVars, cpc, csisFmt, seenFmt, phy, clks, isp, types>>

\* mipi_csis_s_stream(0): mipi_csis_stop_stream and pm_runtime_put, whether or
\* not the receiver was running.
StopStream ==
    /\ cpc = "idle"
    /\ running' = FALSE
    /\ RpmPut
    /\ UNCHANGED <<cpc, csisFmt, seenFmt, phy, clks, isp, types>>

-----------------------------------------------------------------------------
(* The PM worker *)

ServeIdle == RpmBeginSuspend /\ UNCHANGED <<cpc, receiverVars>>

\* mipi_csis_runtime_suspend: a regulator that cannot be disabled leaves the
\* receiver on, clocks included.
Suspend ==
    /\ \/ RpmEndSuspend(TRUE) /\ phy' = FALSE /\ clks' = clks - 1
       \/ SupplyFaults /\ RpmEndSuspend(FALSE) /\ UNCHANGED <<phy, clks>>
    /\ UNCHANGED <<cpc, csisFmt, seenFmt, running, isp, types>>

-----------------------------------------------------------------------------
InitReceiver_ClocksOff(none) ==
    /\ usage = 0 /\ status = "suspended" /\ pmError = FALSE /\ request = FALSE
    /\ cpc = "idle"
    /\ csisFmt = FirstCsisCode /\ seenFmt = none
    /\ phy = FALSE /\ clks = 0 /\ running = FALSE
    /\ isp = none /\ types = {}

\* What mipi_csis_probe leaves: the clocks enabled once, the device suspended,
\* the first format of the table selected, no size seen.
InitReceiver(none) ==
    /\ usage = 0 /\ status = "suspended" /\ pmError = FALSE /\ request = FALSE
    /\ cpc = "idle"
    /\ csisFmt = FirstCsisCode /\ seenFmt = none
    /\ phy = FALSE /\ clks = 1 /\ running = FALSE
    /\ isp = none /\ types = {}

CallStep == GetSync \/ Resume \/ StartStream
WorkerStep == ServeIdle \/ Suspend
=============================================================================
