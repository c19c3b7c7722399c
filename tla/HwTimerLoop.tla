----------------------------- MODULE HwTimerLoop -----------------------------
(***************************************************************************)
(* HwTimer in the daemon's loop: any timer may be started and stopped at   *)
(* any time by the handlers, the NCP's expiries travel to the loop through *)
(* the event queue (module Bglib), and the NCP may be reset or crash,      *)
(* which stops its soft timers but not the events on their way.            *)
(***************************************************************************)
EXTENDS HwTimer, Sequences

CONSTANTS
  Counts,       \* the counts the handlers start timers with
  MaxStarts,    \* bound: timers started in a behaviour
  MaxResets,    \* bound: resets and crashes, the reset at startup excluded
  QueueCap      \* bound: events on their way

ASSUME CountsAssumption == Counts \subseteq Nat \cup {HW_TIMER_INFINITY}
ASSUME LimitsAssumption == /\ MaxStarts \in Nat
                           /\ MaxResets \in Nat
                           /\ QueueCap \in Nat

VARIABLES
  evq,        \* events the loop has not taken: the id of a timer, or "boot"
  booted,     \* sc_host_bootup
  hung,       \* the daemon waits for the response to a command the NCP lost
  up,         \* the NCP runs
  reset,      \* a reset command is on its way to it
  starts, resets,
  asked,      \* history: the count the timer was started with
  calls       \* history: its callbacks since then

vars == <<timers, evq, booted, hung, up, reset, starts, resets, asked, calls>>

ASSUME TimerAssumption == "boot" \notin Timer

Init == /\ HwTimerInit
        /\ evq = <<>>
        /\ booted = FALSE /\ hung = FALSE
        /\ up = TRUE /\ reset = TRUE
        /\ starts = 0 /\ resets = 0
        /\ asked = [t \in Timer |-> 0]
        /\ calls = [t \in Timer |-> 0]

\* A command is answered if it does not run into a reboot; else
\* gecko_wait_response never returns (Bglib!CommandAnswered).
Answered == up /\ ~reset

-----------------------------------------------------------------------------
(* The handlers of the daemon *)

Start(t, c) ==
  /\ ~hung /\ Answered
  /\ starts < MaxStarts
  /\ starts' = starts + 1
  /\ hw_timer_add(t, c)
  /\ asked' = [asked EXCEPT ![t] = c]
  /\ calls' = [calls EXCEPT ![t] = 0]
  /\ UNCHANGED <<evq, booted, hung, up, reset, resets>>

\* connect.c:102-109, when there is nothing to wait for.
StartFails(t, c) ==
  /\ ~hung
  /\ starts < MaxStarts
  /\ starts' = starts + 1
  /\ SetCount(t, c)
  /\ asked' = [asked EXCEPT ![t] = c]
  /\ calls' = [calls EXCEPT ![t] = 0]
  /\ UNCHANGED <<evq, booted, hung, up, reset, resets>>

Stop(t) ==
  /\ ~hung
  /\ hw_timer_del(t)
  /\ UNCHANGED <<evq, booted, hung, up, reset, starts, resets, asked, calls>>

\* server.c:97-104, 117-120
HandleTick(t) ==
  /\ ~hung
  /\ evq # <<>> /\ Head(evq) = t
  /\ booted
  /\ Ends(t) => Answered
  /\ evq' = Tail(evq)
  /\ hw_timer_list_update(t)
  /\ calls' = [calls EXCEPT ![t] = IF Listed(t) /\ asked[t] > 0 THEN @ + 1 ELSE @]
  /\ UNCHANGED <<booted, hung, up, reset, starts, resets, asked>>

SkipTick ==
  /\ ~hung
  /\ evq # <<>> /\ Head(evq) # "boot"
  /\ ~booted
  /\ evq' = Tail(evq)
  /\ UNCHANGED <<timers, booted, hung, up, reset, starts, resets, asked, calls>>

\* server.c:98-108
HandleBoot ==
  /\ ~hung
  /\ evq # <<>> /\ Head(evq) = "boot"
  /\ (\E t \in Timer : Listed(t)) => Answered
  /\ evq' = Tail(evq)
  /\ booted' = TRUE
  /\ hw_timer_list_clear
  /\ UNCHANGED <<hung, up, reset, starts, resets, asked, calls>>

\* Some command of a handler runs into a reboot.
Hang ==
  /\ ~hung /\ ~Answered
  /\ hung' = TRUE
  /\ UNCHANGED <<timers, evq, booted, up, reset, starts, resets, asked, calls>>

\* ble_system_reset
Reset ==
  /\ ~hung /\ resets < MaxResets
  /\ resets' = resets + 1
  /\ reset' = TRUE
  /\ booted' = FALSE
  /\ UNCHANGED <<timers, evq, hung, up, starts, asked, calls>>

-----------------------------------------------------------------------------
(* The NCP *)

NcpDown == /\ up
           /\ up' = FALSE
           /\ reset' = FALSE
           /\ armed' = [t \in Timer |-> FALSE]
           /\ UNCHANGED <<listed, count, evq, booted, hung, starts, asked, calls>>

NcpReset == reset /\ NcpDown /\ UNCHANGED resets

NcpCrash == /\ resets < MaxResets
            /\ resets' = resets + 1
            /\ NcpDown

\* A reset command that arrives during the reboot is lost with everything else.
NcpBoot ==
  /\ ~up
  /\ up' = TRUE
  /\ reset' \in {reset, FALSE}
  /\ evq' = Append(evq, "boot")
  /\ UNCHANGED <<timers, booted, hung, starts, resets, asked, calls>>

NcpTick(t) ==
  /\ up /\ armed[t]
  /\ Len(evq) < QueueCap
  /\ evq' = Append(evq, t)
  /\ UNCHANGED <<timers, booted, hung, up, reset, starts, resets, asked, calls>>

-----------------------------------------------------------------------------
Next == \/ \E t \in Timer : \/ \E c \in Counts : Start(t, c) \/ StartFails(t, c)
                            \/ Stop(t)
                            \/ HandleTick(t)
                            \/ NcpTick(t)
        \/ SkipTick \/ HandleBoot \/ Hang \/ Reset
        \/ NcpReset \/ NcpCrash \/ NcpBoot

Spec == Init /\ [][Next]_vars

\* The loop takes the events that wait; the NCP ends its reboots and its
\* resets; and the events of an armed timer do not always find the queue full.
Fairness == /\ WF_vars((\E t \in Timer : HandleTick(t)) \/ SkipTick \/ HandleBoot)
            /\ WF_vars(NcpReset) /\ WF_vars(NcpBoot)
            /\ \A t \in Timer : SF_vars(NcpTick(t))

FairSpec == Spec /\ Fairness

-----------------------------------------------------------------------------
(* Properties *)

\* Every variable has its type.
TypeOK ==
  /\ listed \in [Timer -> Nat]
  /\ count \in [Timer -> Nat \cup {HW_TIMER_INFINITY}]
  /\ armed \in [Timer -> BOOLEAN]
  /\ evq \in Seq(Timer \cup {"boot"})
  /\ booted \in BOOLEAN /\ hung \in BOOLEAN
  /\ up \in BOOLEAN /\ reset \in BOOLEAN
  /\ starts \in 0 .. MaxStarts /\ resets \in 0 .. MaxResets
  /\ asked \in [Timer -> Nat \cup {HW_TIMER_INFINITY}]
  /\ calls \in [Timer -> Nat]

BootPending == \E i \in DOMAIN evq : evq[i] = "boot"

\* hw_timer_list holds a timer once (timer.c:51-66: the search before the
\* insertion), or a timer would be called back for each element and stay in
\* the list after it was deleted.
ListedOnce == \A t \in Timer : listed[t] <= 1

\* A timer the daemon counts on is running at the NCP, or the NCP has rebooted
\* and the daemon is about to learn it and to clear its list (timer.c:45-71,
\* 132-136, server.c:107-108): no command waits for a timer that is dead.
ListedArmed == \A t \in Timer : Listed(t) => armed[t] \/ ~up \/ BootPending

\* A timer started with n > 0 calls back n times and no more (timer.c:116-127,
\* however it was stopped and started before): while it is listed, as many
\* callbacks are left as its count says, and there is one.
CallbacksLeft ==
  \A t \in Timer :
    Listed(t) /\ asked[t] > 0 => /\ count[t] = asked[t] - calls[t]
                                 /\ count[t] > 0

\* A timer with a finite count leaves the list (timer.c:116-134), because of
\* its last callback or because a reboot cleared the list, unless it is given
\* an endless count: the command that waits for it does not wait for ever.
Finite(t) == Listed(t) /\ count[t] # HW_TIMER_INFINITY
TimerEnds == \A t \in Timer : Finite(t) ~> ~Finite(t) \/ hung
=============================================================================
