------------------------------- MODULE HwTimer -------------------------------
(***************************************************************************)
(* timer.c: the daemon's list of software timers, each backed by a soft    *)
(* timer of the NCP that keeps expiring until it is set to the interval 0. *)
(* The operations are formulas over the three variables; the modules that  *)
(* extend this one say who calls them.                                     *)
(*                                                                         *)
(* Two elements of the list with the same id would share one hw_timer_t,   *)
(* and every search of the list is by id, so the list is a number of       *)
(* elements for each id.  The commands to the NCP are taken to succeed and *)
(* Calloc to find memory.                                                  *)
(***************************************************************************)
EXTENDS Integers

CONSTANT Timer        \* the ids in use

HW_TIMER_INFINITY == -1

VARIABLES
  listed,     \* how many elements of hw_timer_list carry the id
  count,      \* hw_timer_t.count
  armed       \* the soft timer of the NCP is running

timers == <<listed, count, armed>>

Listed(t) == listed[t] > 0

HwTimerInit == /\ listed = [t \in Timer |-> 0]
               /\ count = [t \in Timer |-> 0]
               /\ armed = [t \in Timer |-> FALSE]

\* Slip: a timer that is found is not armed again after it was disarmed.
AddFoundDisarms(t, c) ==
  /\ listed' = [listed EXCEPT ![t] = IF @ > 0 THEN @ ELSE @ + 1]
  /\ count' = [count EXCEPT ![t] = c]
  /\ armed' = [armed EXCEPT ![t] = listed[t] = 0]

\* Slip: the list is not searched first.
AddAlways(t, c) ==
  /\ listed' = [listed EXCEPT ![t] = @ + 1]
  /\ count' = [count EXCEPT ![t] = c]
  /\ armed' = [armed EXCEPT ![t] = TRUE]

\* A handler sets the count of its timer; connect.c may then not add it.
SetCount(t, c) ==
  /\ count' = [count EXCEPT ![t] = c]
  /\ UNCHANGED <<listed, armed>>

\* The handlers set the count before they add the timer.
hw_timer_add(t, c) ==
  /\ listed' = [listed EXCEPT ![t] = IF @ > 0 THEN @ ELSE @ + 1]
  /\ count' = [count EXCEPT ![t] = c]
  /\ armed' = [armed EXCEPT ![t] = TRUE]

\* The NCP is not told.
hw_timer_del(t) ==
  /\ listed' = [listed EXCEPT ![t] = IF @ > 0 THEN @ - 1 ELSE @]
  /\ UNCHANGED <<count, armed>>

\* Slip: the endless count is not spared.
NextCountAlways(t) == count[t] - 1

\* The count the callback sees when the timer t expires once more.
NextCount(t) == IF count[t] > 0 THEN count[t] - 1 ELSE count[t]

\* The event ends the timer: the callback sees 0, the element is removed and
\* the NCP told to stop.
Ends(t) == Listed(t) /\ NextCount(t) = 0

\* Slip: the last callback does not remove the timer.
UpdateKeeps(t) ==
  /\ count' = [count EXCEPT ![t] = IF Listed(t) THEN NextCount(t) ELSE @]
  /\ UNCHANGED <<listed, armed>>

\* Slip: a timer that ends counts from 0 again, one callback late.
UpdateLate(t) ==
  /\ count' = [count EXCEPT ![t] = IF Listed(t) THEN NextCount(t) ELSE @]
  /\ listed' = [listed EXCEPT ![t] = IF Listed(t) /\ count[t] = 0 THEN @ - 1 ELSE @]
  /\ armed' = [armed EXCEPT ![t] = @ /\ ~(Listed(t) /\ count[t] = 0)]

hw_timer_list_update(t) ==
  /\ count' = [count EXCEPT ![t] = IF Listed(t) THEN NextCount(t) ELSE @]
  /\ listed' = [listed EXCEPT ![t] = IF Ends(t) THEN @ - 1 ELSE @]
  /\ armed' = [armed EXCEPT ![t] = @ /\ ~Ends(t)]

\* Slip: the timers are stopped but stay in the list.
ClearKeepsList ==
  /\ armed' = [t \in Timer |-> armed[t] /\ ~Listed(t)]
  /\ UNCHANGED <<listed, count>>

hw_timer_list_clear ==
  /\ listed' = [t \in Timer |-> 0]
  /\ armed' = [t \in Timer |-> armed[t] /\ ~Listed(t)]
  /\ UNCHANGED count
=============================================================================
