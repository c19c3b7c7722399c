---------------------------- MODULE HwTimerProofs ----------------------------
(***************************************************************************)
(* Proofs about HwTimerLoop, for every set of timers, every set of counts  *)
(* and every bound: types, one element for each timer, every listed timer  *)
(* runs, and the number of its callbacks.                                  *)
(***************************************************************************)
EXTENDS HwTimerLoop, TLAPS

\* The steps of the NCP other than its reboots leave the timers alone, and
\* every step of the daemon does to them what timer.c does: each proof below
\* has one case for each of these forms.

-----------------------------------------------------------------------------
(* Types *)

\* Every variable has its type.
THEOREM TypeCorrect == Spec => []TypeOK
<1>1. Init => TypeOK
  <2> SUFFICES ASSUME Init PROVE TypeOK
    OBVIOUS
  <2> USE LimitsAssumption DEF Init, HwTimerInit
  <2>1. /\ listed \in [Timer -> Nat] /\ calls \in [Timer -> Nat]
        /\ count \in [Timer -> Nat \cup {HW_TIMER_INFINITY}]
        /\ asked \in [Timer -> Nat \cup {HW_TIMER_INFINITY}]
    OBVIOUS
  <2>2. starts \in 0 .. MaxStarts /\ resets \in 0 .. MaxResets
    OBVIOUS
  <2>3. evq \in Seq(Timer \cup {"boot"})
    OBVIOUS
  <2>4. armed \in [Timer -> BOOLEAN]
    OBVIOUS
  <2>5. /\ booted \in BOOLEAN /\ hung \in BOOLEAN
        /\ up \in BOOLEAN /\ reset \in BOOLEAN
    BY Zenon
  <2> QED  BY <2>1, <2>2, <2>3, <2>4, <2>5 DEF TypeOK
<1>2. TypeOK /\ [Next]_vars => TypeOK'
  <2> SUFFICES ASSUME TypeOK, [Next]_vars PROVE TypeOK'
    OBVIOUS
  <2> USE LimitsAssumption, CountsAssumption DEF TypeOK, HW_TIMER_INFINITY
  <2>1. ASSUME NEW t \in Timer, NEW c \in Counts, Start(t, c) PROVE TypeOK'
    BY <2>1 DEF Start, hw_timer_add
  <2>2. ASSUME NEW t \in Timer, NEW c \in Counts, StartFails(t, c) PROVE TypeOK'
    BY <2>2 DEF StartFails, SetCount
  <2>3. ASSUME NEW t \in Timer, Stop(t) PROVE TypeOK'
    BY <2>3 DEF Stop, hw_timer_del
  <2>4. ASSUME NEW t \in Timer, HandleTick(t) PROVE TypeOK'
    <3>1. evq' \in Seq(Timer \cup {"boot"})
      BY <2>4 DEF HandleTick
    <3>2. count' \in [Timer -> Nat \cup {HW_TIMER_INFINITY}]
      BY <2>4 DEF HandleTick, hw_timer_list_update, NextCount
    <3>3. listed' \in [Timer -> Nat] /\ calls' \in [Timer -> Nat]
      BY <2>4 DEF HandleTick, hw_timer_list_update, Ends, Listed
    <3>4. armed' \in [Timer -> BOOLEAN]
      BY <2>4 DEF HandleTick, hw_timer_list_update
    <3> QED  BY <2>4, <3>1, <3>2, <3>3, <3>4 DEF HandleTick
  <2>5. CASE SkipTick
    BY <2>5 DEF SkipTick, timers
  <2>6. CASE HandleBoot
    BY <2>6 DEF HandleBoot, hw_timer_list_clear
  <2>7. CASE Hang
    BY <2>7 DEF Hang, timers
  <2>8. CASE Reset
    <3>1. resets' \in 0 .. MaxResets
      BY <2>8 DEF Reset
    <3>2. reset' \in BOOLEAN /\ booted' \in BOOLEAN
      BY <2>8, Zenon DEF Reset
    <3> QED  BY <2>8, <3>1, <3>2 DEF Reset, timers
  <2>9. CASE NcpReset
    BY <2>9 DEF NcpReset, NcpDown
  <2>10. CASE NcpCrash
    <3>1. resets' \in 0 .. MaxResets
      BY <2>10 DEF NcpCrash
    <3>2. reset' \in BOOLEAN /\ up' \in BOOLEAN
      BY <2>10, Zenon DEF NcpCrash, NcpDown
    <3> QED  BY <2>10, <3>1, <3>2 DEF NcpCrash, NcpDown
  <2>11. CASE NcpBoot
    <3>1. evq' \in Seq(Timer \cup {"boot"})
      BY <2>11 DEF NcpBoot
    <3>2. up' \in BOOLEAN
      BY <2>11, Zenon DEF NcpBoot
    <3>3. reset' \in BOOLEAN
      <4>1. reset' = reset \/ reset' = FALSE
        BY <2>11 DEF NcpBoot
      <4> QED  BY <4>1, Zenon
    <3> QED  BY <2>11, <3>1, <3>2, <3>3 DEF NcpBoot, timers
  <2>12. ASSUME NEW t \in Timer, NcpTick(t) PROVE TypeOK'
    BY <2>12 DEF NcpTick, timers
  <2>13. CASE UNCHANGED vars
    BY <2>13 DEF vars, timers
  <2> QED
    BY <2>1, <2>2, <2>3, <2>4, <2>5, <2>6, <2>7, <2>8, <2>9, <2>10, <2>11,
       <2>12, <2>13 DEF Next
<1> QED  BY <1>1, <1>2, PTL DEF Spec

-----------------------------------------------------------------------------
(* One element for each timer, and it runs *)

\* A timer is in the list at most once.
THEOREM TimersListedOnce == Spec => []ListedOnce
<1>1. Init => ListedOnce
  <2> SUFFICES ASSUME Init, NEW t \in Timer PROVE listed[t] <= 1
    BY DEF ListedOnce
  <2>1. listed[t] = 0
    BY DEF Init, HwTimerInit
  <2> QED  BY <2>1
<1>2. TypeOK /\ ListedOnce /\ [Next]_vars => ListedOnce'
  <2> SUFFICES ASSUME TypeOK, ListedOnce, [Next]_vars,
                      NEW t \in Timer
               PROVE  listed'[t] <= 1
    BY DEF ListedOnce
  <2> USE DEF TypeOK, ListedOnce
  <2>1. ASSUME NEW u \in Timer, NEW c \in Counts, Start(u, c) PROVE listed'[t] <= 1
    BY <2>1 DEF Start, hw_timer_add
  <2>2. ASSUME NEW u \in Timer, Stop(u) PROVE listed'[t] <= 1
    BY <2>2 DEF Stop, hw_timer_del
  <2>3. ASSUME NEW u \in Timer, HandleTick(u) PROVE listed'[t] <= 1
    BY <2>3 DEF HandleTick, hw_timer_list_update
  <2>4. CASE HandleBoot
    BY <2>4 DEF HandleBoot, hw_timer_list_clear
  <2>5. CASE UNCHANGED listed
    BY <2>5
  <2> QED
    BY <2>1, <2>2, <2>3, <2>4, <2>5
    DEF Next, vars, timers, StartFails, SetCount, SkipTick, Hang, Reset,
        NcpReset, NcpCrash, NcpDown, NcpBoot, NcpTick
<1> QED  BY <1>1, <1>2, TypeCorrect, PTL DEF Spec

\* Taking an event that is not "boot" from the queue leaves the boot events
\* there, and so does adding one.
LEMMA BootStays ==
  ASSUME TypeOK, BootPending,
         \/ evq # <<>> /\ Head(evq) # "boot" /\ evq' = Tail(evq)
         \/ \E e \in Timer \cup {"boot"} : evq' = Append(evq, e)
  PROVE  BootPending'
<1>1. PICK i \in DOMAIN evq : evq[i] = "boot"
  BY DEF BootPending
<1>2. i \in 1 .. Len(evq) /\ evq \in Seq(Timer \cup {"boot"})
  BY DEF TypeOK
<1>3. CASE evq # <<>> /\ Head(evq) # "boot" /\ evq' = Tail(evq)
  <2>1. i # 1
    BY <1>1, <1>2, <1>3
  <2>2. i - 1 \in DOMAIN evq' /\ evq'[i - 1] = "boot"
    BY <1>1, <1>2, <1>3, <2>1
  <2> QED  BY <2>2 DEF BootPending
<1>4. CASE \E e \in Timer \cup {"boot"} : evq' = Append(evq, e)
  <2>1. i \in DOMAIN evq' /\ evq'[i] = "boot"
    BY <1>1, <1>2, <1>4
  <2> QED  BY <2>1 DEF BootPending
<1> QED  BY <1>3, <1>4

\* A timer the daemon counts on runs, or the daemon is about to learn of a
\* reboot.  The invariant is inductive together with ListedOnce: the element
\* that an expiry removes must be the last one with its id, or the timer would
\* stay in the list although the NCP was told to stop it.
THEOREM TimersArmed == Spec => []ListedArmed
<1>1. Init => ListedArmed
  BY DEF Init, HwTimerInit, ListedArmed, Listed
<1>2. TypeOK /\ ListedOnce /\ ListedArmed /\ [Next]_vars => ListedArmed'
  <2> SUFFICES ASSUME TypeOK, ListedOnce, ListedArmed, [Next]_vars,
                      NEW t \in Timer, listed'[t] > 0
               PROVE  armed'[t] \/ ~up' \/ BootPending'
    BY DEF ListedArmed, Listed
  <2> DEFINE Goal == armed'[t] \/ ~up' \/ BootPending'
  <2>0. listed[t] > 0 => armed[t] \/ ~up \/ BootPending
    BY DEF ListedArmed, Listed
  <2>1. ASSUME NEW u \in Timer, NEW c \in Counts, Start(u, c) PROVE Goal
    <3>1. BootPending' <=> BootPending
      BY <2>1 DEF Start, BootPending
    <3>2. CASE t = u
      BY <2>1, <3>2 DEF Start, hw_timer_add, TypeOK
    <3>3. CASE t # u
      <4>1. listed[t] = listed'[t] /\ armed'[t] = armed[t] /\ up' = up
        BY <2>1, <3>3 DEF Start, hw_timer_add, TypeOK
      <4> QED  BY <2>0, <3>1, <4>1
    <3> QED  BY <3>2, <3>3
  <2>2. ASSUME NEW u \in Timer, Stop(u) PROVE Goal
    <3>1. BootPending' <=> BootPending
      BY <2>2 DEF Stop, BootPending
    <3>2. listed[t] > 0 /\ armed' = armed /\ up' = up
      BY <2>2 DEF Stop, hw_timer_del, TypeOK
    <3> QED  BY <2>0, <3>1, <3>2
  <2>3. ASSUME NEW u \in Timer, HandleTick(u) PROVE Goal
    <3>1. u # "boot" /\ up' = up
      BY <2>3, TimerAssumption DEF HandleTick
    <3>2. BootPending => BootPending'
      BY <2>3, <3>1, BootStays DEF HandleTick
    <3>3. listed[t] > 0
      BY <2>3 DEF HandleTick, hw_timer_list_update, TypeOK
    <3>4. ~(t = u /\ Ends(u))
      <4>1. listed[t] <= 1 /\ listed[t] \in Nat
        BY DEF ListedOnce, TypeOK
      <4> QED  BY <2>3, <4>1 DEF HandleTick, hw_timer_list_update, TypeOK
    <3>5. armed'[t] = armed[t]
      <4>1. armed' = [armed EXCEPT ![u] = @ /\ ~Ends(u)]
        BY <2>3 DEF HandleTick, hw_timer_list_update
      <4>2. armed \in [Timer -> BOOLEAN]
        BY DEF TypeOK
      <4>3. CASE t = u
        <5>1. ~Ends(u)
          BY <3>4, <4>3
        <5>2. armed'[t] = (armed[t] /\ ~Ends(u))
          BY <4>1, <4>2, <4>3, Zenon
        <5>3. armed[t] \in BOOLEAN
          BY <4>2
        <5> QED  BY <5>1, <5>2, <5>3
      <4>4. CASE t # u
        BY <4>1, <4>2, <4>4
      <4> QED  BY <4>3, <4>4
    <3> QED  BY <2>0, <3>1, <3>2, <3>3, <3>5
  <2>4. CASE SkipTick
    <3>1. BootPending => BootPending'
      BY <2>4, BootStays DEF SkipTick
    <3> QED  BY <2>0, <2>4, <3>1 DEF SkipTick, timers
  <2>5. CASE HandleBoot
    BY <2>5 DEF HandleBoot, hw_timer_list_clear
  <2>6. CASE NcpReset \/ NcpCrash
    BY <2>6 DEF NcpReset, NcpCrash, NcpDown
  <2>7. CASE NcpBoot
    <3>1. evq' = Append(evq, "boot") /\ evq \in Seq(Timer \cup {"boot"})
      BY <2>7 DEF NcpBoot, TypeOK
    <3>2. Len(evq) + 1 \in DOMAIN evq' /\ evq'[Len(evq) + 1] = "boot"
      BY <3>1
    <3> QED  BY <3>2 DEF BootPending
  <2>8. ASSUME NEW u \in Timer, NcpTick(u) PROVE Goal
    <3>1. BootPending => BootPending'
      BY <2>8, BootStays DEF NcpTick
    <3> QED  BY <2>0, <2>8, <3>1 DEF NcpTick, timers
  <2>9. CASE UNCHANGED <<listed, armed, up, evq>>
    BY <2>0, <2>9 DEF BootPending
  <2> QED
    BY <2>1, <2>2, <2>3, <2>4, <2>5, <2>6, <2>7, <2>8, <2>9
    DEF Next, vars, timers, StartFails, SetCount, Hang, Reset
<1> QED  BY <1>1, <1>2, TypeCorrect, TimersListedOnce, PTL DEF Spec

-----------------------------------------------------------------------------
(* Callbacks *)

\* A timer started with n > 0 has n - count callbacks behind it as long as it
\* is listed.
THEOREM CallbacksCounted == Spec => []CallbacksLeft
<1>1. Init => CallbacksLeft
  BY DEF Init, HwTimerInit, CallbacksLeft, Listed
<1>2. TypeOK /\ ListedOnce /\ CallbacksLeft /\ [Next]_vars => CallbacksLeft'
  <2> SUFFICES ASSUME TypeOK, ListedOnce, CallbacksLeft, [Next]_vars,
                      NEW t \in Timer, listed'[t] > 0, asked'[t] > 0
               PROVE  count'[t] = asked'[t] - calls'[t] /\ count'[t] > 0
    BY DEF CallbacksLeft, Listed
  <2> DEFINE Goal == count'[t] = asked'[t] - calls'[t] /\ count'[t] > 0
  <2> USE CountsAssumption DEF TypeOK, HW_TIMER_INFINITY
  <2>0. listed[t] > 0 /\ asked[t] > 0 => /\ count[t] = asked[t] - calls[t]
                                         /\ count[t] > 0
    BY DEF CallbacksLeft, Listed
  <2>1. ASSUME NEW u \in Timer, NEW c \in Counts, Start(u, c) PROVE Goal
    BY <2>0, <2>1 DEF Start, hw_timer_add
  <2>2. ASSUME NEW u \in Timer, NEW c \in Counts, StartFails(u, c) PROVE Goal
    BY <2>0, <2>2 DEF StartFails, SetCount
  <2>3. ASSUME NEW u \in Timer, Stop(u) PROVE Goal
    BY <2>0, <2>3 DEF Stop, hw_timer_del
  <2>4. ASSUME NEW u \in Timer, HandleTick(u) PROVE Goal
    <3>1. listed[t] > 0 /\ listed[t] <= 1 /\ asked' = asked
      BY <2>4 DEF HandleTick, hw_timer_list_update, ListedOnce
    <3>2. CASE t = u
      <4>1. ~Ends(u)
        BY <2>4, <3>1, <3>2 DEF HandleTick, hw_timer_list_update
      <4>2. count'[u] = NextCount(u) /\ NextCount(u) # 0
        BY <2>4, <3>1, <3>2, <4>1
        DEF HandleTick, hw_timer_list_update, Ends, Listed, NextCount
      <4>3. calls'[u] = calls[u] + 1
        BY <2>4, <3>1, <3>2 DEF HandleTick, Listed
      <4>4. count[u] = asked[u] - calls[u] /\ count[u] > 0
        BY <2>0, <3>1, <3>2
      <4>5. count'[u] = count[u] - 1 /\ count'[u] # 0
        BY <4>2, <4>4 DEF NextCount
      <4>6. /\ asked[u] \in Int /\ calls[u] \in Int /\ count[u] \in Int
        OBVIOUS
      <4> HIDE DEF TypeOK
      <4> QED  BY <3>1, <3>2, <4>3, <4>4, <4>5, <4>6
    <3>3. CASE t # u
      BY <2>0, <2>4, <3>1, <3>3 DEF HandleTick, hw_timer_list_update
    <3> QED  BY <3>2, <3>3
  <2>5. CASE HandleBoot
    BY <2>5 DEF HandleBoot, hw_timer_list_clear
  <2>6. CASE UNCHANGED <<listed, count, asked, calls>>
    BY <2>0, <2>6
  <2> QED
    BY <2>1, <2>2, <2>3, <2>4, <2>5, <2>6
    DEF Next, vars, timers, SkipTick, Hang, Reset, NcpReset, NcpCrash,
        NcpDown, NcpBoot, NcpTick
<1> QED  BY <1>1, <1>2, TypeCorrect, TimersListedOnce, PTL DEF Spec
=============================================================================
