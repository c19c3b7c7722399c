------------------------------ MODULE MCHwTimer ------------------------------
(***************************************************************************)
(* HwTimerLoop with one finite and one endless use of the timers.          *)
(***************************************************************************)
EXTENDS HwTimerLoop
MCTimer == {"scan", "gatt"}
MCCounts == {HW_TIMER_INFINITY, 0, 2}
=============================================================================
