------------------------------ MODULE ModesProofs ------------------------------
(***************************************************************************)
(* Proofs about Modes, for every set of tests and of files and for every   *)
(* bound: types, that a success of an upgrade means a whole file, that a   *)
(* test at the NCP is attended, and that a report is that of its own test. *)
(***************************************************************************)
EXTENDS Modes, ListLemmas, TLAPS

\* The parts of TypeOK.
TimersOK == /\ listed \in [Timer -> Nat]
            /\ count \in [Timer -> {0, HW_TIMER_INFINITY}]
            /\ armed \in [Timer -> BOOLEAN]
DtmOK == /\ state \in {"NONE", "INIT", "TX_START", "TX_END", "RX_START", "RX_END"}
         /\ txOn \in BOOLEAN /\ rxOn \in BOOLEAN /\ stop \in BOOLEAN
         /\ delay \in Int /\ delay >= -1
UploadOK == /\ pc \in {"loop", "upload"} /\ left \in Nat /\ torn \in BOOLEAN
            /\ told \in {"nothing", "success", "failure"}
LoopOK == /\ alive \in BOOLEAN /\ hung \in BOOLEAN /\ booted \in BOOLEAN
          /\ cmd \in {"DTM", "UPGRADE", "OTHER"}
ConfOK == /\ new \in Command \cup {NoCommand}
          /\ test \in Test \cup {NoTest} /\ file \in Size \cup {Missing}
NcpOK == /\ mode \in {"app", "dfu", "down"} /\ target \in {"app", "dfu"}
         /\ fw \in BOOLEAN /\ flashed \in Nat \cup {Missing}
         /\ radio \in {"none", "tx", "rx"} /\ owed \in Seq(Radio)
WiresOK == uart \in Seq({"app", "dfu"}) /\ evq \in Seq(Event)
HistoryOK == late \in BOOLEAN /\ early \in BOOLEAN /\ displaced \in BOOLEAN
BoundsOK == /\ commands \in 0 .. MaxCommands /\ deaths \in 0 .. MaxDeaths
            /\ crashes \in 0 .. MaxCrashes

Types == /\ TimersOK /\ DtmOK /\ UploadOK /\ LoopOK /\ ConfOK /\ NcpOK
         /\ WiresOK /\ HistoryOK /\ BoundsOK

\* The parts make up TypeOK.
LEMMA TypesAreTypes == Types => TypeOK
  BY DEF Types, TimersOK, DtmOK, UploadOK, LoopOK, ConfOK, NcpOK, WiresOK,
         HistoryOK, BoundsOK, TypeOK

-----------------------------------------------------------------------------
(* What the operators of Modes do to the types *)

\* Events have their types.
LEMMA EventTypes ==
  /\ Tick \in Event /\ Boot \in Event /\ DfuBoot \in Event /\ DfuFailure \in Event
  /\ \A r \in Radio : Completed(r) \in Event
  /\ \A k \in {"tx", "rx"}, a \in {"start", "end"} : Done(k, a) \in Radio
  BY DEF Event, Radio, Done

\* The settings of a test.
LEMMA TestTypes ==
  ASSUME ConfOK, NEW k \in {"tx", "rx"}
  PROVE  test[k] \in Nat \cup {Off}
<1>1. CASE test \in Test
  BY <1>1, TestAssumption
<1>2. CASE test = NoTest
  BY <1>2 DEF NoTest
<1> QED  BY <1>1, <1>2 DEF ConfOK

\* A reset of the NCP that is sent.
LEMMA ResetTypes ==
  ASSUME Types, NEW a \in {"app", "dfu"}, SystemReset(a) \/ DfuReset(a)
  PROVE  uart' \in Seq({"app", "dfu"}) /\ booted' \in BOOLEAN
<1>1. uart' = Append(uart, a)
  BY DEF SystemReset, DfuReset
<1>2. uart' \in Seq({"app", "dfu"})
  BY <1>1 DEF Types, WiresOK
<1>3. booted' = FALSE \/ booted' = booted
  BY DEF SystemReset, DfuReset
<1> QED  BY <1>2, <1>3 DEF Types, LoopOK

\* The operations of timer.c.
LEMMA TimerTypes ==
  ASSUME Types, \/ hw_timer_del("dtm") \/ hw_timer_add("dtm", HW_TIMER_INFINITY)
                \/ hw_timer_list_clear \/ UNCHANGED timers
  PROVE  TimersOK'
<1> USE TimersAssumption DEF Types, TimersOK, HW_TIMER_INFINITY
<1>1. CASE hw_timer_del("dtm")
  BY <1>1 DEF hw_timer_del
<1>2. CASE hw_timer_add("dtm", HW_TIMER_INFINITY)
  BY <1>2 DEF hw_timer_add
<1>3. CASE hw_timer_list_clear
  BY <1>3 DEF hw_timer_list_clear
<1>4. CASE UNCHANGED timers
  BY <1>4 DEF timers
<1> QED  BY <1>1, <1>2, <1>3, <1>4

States == {"NONE", "INIT", "TX_START", "TX_END", "RX_START", "RX_END"}

\* The end of a handler of DTM, with its cleanup or without.
LEMMA DtmEndTypes ==
  ASSUME Types, NEW ret \in BOOLEAN, NEW s \in States, DtmEnds(ret, s)
  PROVE  /\ TimersOK'
         /\ state' \in States /\ stop' \in BOOLEAN
         /\ uart' \in Seq({"app", "dfu"}) /\ booted' \in BOOLEAN
         /\ cmd' \in {"DTM", "UPGRADE", "OTHER"}
<1>1. CASE cmd = "DTM" /\ ret
  <2>1. dtm_cleanup /\ cmd' = "OTHER"
    BY <1>1 DEF DtmEnds
  <2>2. uart' \in Seq({"app", "dfu"}) /\ booted' \in BOOLEAN
    BY <2>1, ResetTypes DEF dtm_cleanup
  <2>3. TimersOK'
    BY <2>1, TimerTypes DEF dtm_cleanup
  <2> QED  BY <2>1, <2>2, <2>3 DEF dtm_cleanup, States
<1>2. CASE ~(cmd = "DTM" /\ ret)
  <2>1. state' = s /\ stop' = ret /\ UNCHANGED <<timers, uart, booted, cmd>>
    BY <1>2 DEF DtmEnds
  <2>2. TimersOK'
    BY <2>1, TimerTypes
  <2> QED  BY <2>1, <2>2 DEF Types, WiresOK, LoopOK
<1> QED  BY <1>1, <1>2

\* The start of a test.
LEMMA StartsTypes ==
  ASSUME Types, NEW k \in {"tx", "rx"}, Starts(k)
  PROVE  /\ TimersOK'
         /\ radio' \in {"none", "tx", "rx"} /\ owed' \in Seq(Radio)
         /\ delay' \in Nat
         /\ state' \in States
         /\ early' \in BOOLEAN
<1>1. TimersOK'
  BY TimerTypes DEF Starts
<1>2. radio' \in {"none", "tx", "rx"}
  BY DEF Starts, Types, NcpOK
<1>3. owed' \in Seq(Radio)
  <2>1. Done(k, "start") \in Radio
    BY EventTypes
  <2> QED  BY <2>1 DEF Starts, Types, NcpOK
<1>4. delay' \in Nat
  <2>1. test[k] \in Nat \cup {Off}
    BY TestTypes DEF Types
  <2> QED  BY <2>1 DEF Starts
<1>5. state' \in States
  BY DEF Starts, States
<1>6. early' \in BOOLEAN
  BY Zenon DEF Starts, Types, HistoryOK
<1> QED  BY <1>1, <1>2, <1>3, <1>4, <1>5, <1>6

\* An event that is taken.
LEMMA TakesTypes ==
  ASSUME Types, NEW e, Takes(e)
  PROVE  evq' \in Seq(Event)
  BY DEF Types, WiresOK, Takes

-----------------------------------------------------------------------------
(* Types *)

\* The initial values have their types.
LEMMA InitTypes == Init => Types
<1> SUFFICES ASSUME Init PROVE Types
  OBVIOUS
<1> USE DEF Init, HwTimerInit
<1>1. TimersOK
  BY DEF TimersOK
<1>2. DtmOK
  <2>1. txOn \in BOOLEAN /\ rxOn \in BOOLEAN /\ stop \in BOOLEAN
    BY Zenon
  <2> QED  BY <2>1 DEF DtmOK
<1>6. UploadOK /\ LoopOK
  BY DEF UploadOK, LoopOK
<1>7. ConfOK
  BY DEF ConfOK
<1>3. NcpOK
  <2>1. owed \in Seq(Radio)
    OBVIOUS
  <2>2. flashed \in Nat \cup {Missing} /\ mode \in {"app"} /\ target \in {"app"}
        /\ radio \in {"none"} /\ fw \in BOOLEAN
    OBVIOUS
  <2> QED  BY <2>1, <2>2 DEF NcpOK
<1>4. WiresOK
  <2>1. uart \in Seq({"app", "dfu"})
    <3>1. PICK a \in StartupArg : uart = <<a>>
      OBVIOUS
    <3> QED  BY <3>1, StartupAssumption
  <2>2. evq \in Seq(Event)
    OBVIOUS
  <2> QED  BY <2>1, <2>2 DEF WiresOK
<1>5. HistoryOK /\ BoundsOK
  <2>1. HistoryOK
    BY Zenon DEF HistoryOK
  <2>2. BoundsOK
    BY BoundsAssumption DEF BoundsOK
  <2> QED  BY <2>1, <2>2
<1> QED  BY <1>1, <1>2, <1>3, <1>4, <1>5, <1>6, <1>7 DEF Types

\* The events that drive DTM.
LEMMA DtmTypes ==
  ASSUME Types, HandleBoot \/ HandleTick \/ (\E r \in Radio : HandleCompleted(r))
  PROVE  Types'
<1>1. CASE HandleBoot
  <2> USE <1>1 DEF HandleBoot, Types, upload, bounds
  <2>1. evq' \in Seq(Event)
    BY TakesTypes
  <2>2. /\ UploadOK' /\ ConfOK' /\ BoundsOK' /\ LoopOK' /\ WiresOK'
        /\ mode' \in {"app", "dfu", "down"} /\ target' \in {"app", "dfu"}
        /\ fw' \in BOOLEAN /\ flashed' \in Nat \cup {Missing}
        /\ late' \in BOOLEAN /\ displaced' \in BOOLEAN
        /\ txOn' \in BOOLEAN /\ rxOn' \in BOOLEAN /\ stop' \in BOOLEAN
    BY <2>1 DEF UploadOK, ConfOK, BoundsOK, LoopOK, WiresOK, NcpOK, HistoryOK, DtmOK
  <2>3. CASE Begins
    <3>1. First \in {"tx", "rx"} /\ Starts(First)
      BY <2>3 DEF First
    <3>2. /\ TimersOK' /\ radio' \in {"none", "tx", "rx"} /\ owed' \in Seq(Radio)
          /\ delay' \in Nat /\ state' \in States /\ early' \in BOOLEAN
      BY <3>1, StartsTypes
    <3> QED  BY <2>2, <3>2 DEF NcpOK, HistoryOK, DtmOK, States
  <2>4. CASE ~Begins
    <3>1. TimersOK'
      BY <2>4, TimerTypes
    <3> QED  BY <2>2, <2>4, <3>1 DEF NcpOK, HistoryOK, DtmOK
  <2> QED  BY <2>3, <2>4
<1>2. CASE HandleTick
  <2> USE <1>2 DEF HandleTick, upload, bounds
  <2>1. evq' \in Seq(Event)
    BY TakesTypes
  <2>2. /\ UploadOK' /\ ConfOK' /\ BoundsOK' /\ alive' \in BOOLEAN /\ hung' \in BOOLEAN
        /\ mode' \in {"app", "dfu", "down"} /\ target' \in {"app", "dfu"}
        /\ fw' \in BOOLEAN /\ flashed' \in Nat \cup {Missing}
        /\ late' \in BOOLEAN /\ displaced' \in BOOLEAN
    BY DEF Types, UploadOK, ConfOK, BoundsOK, LoopOK, NcpOK, HistoryOK
  <2> DEFINE Ended == /\ TimersOK'
                      /\ state' \in States /\ stop' \in BOOLEAN
                      /\ uart' \in Seq({"app", "dfu"}) /\ booted' \in BOOLEAN
                      /\ cmd' \in {"DTM", "UPGRADE", "OTHER"}
             Rest == /\ txOn' \in BOOLEAN /\ rxOn' \in BOOLEAN
                     /\ delay' \in Int /\ delay' >= -1
                     /\ radio' \in {"none", "tx", "rx"} /\ owed' \in Seq(Radio)
                     /\ early' \in BOOLEAN
  <2>3. state \in States /\ stop \in BOOLEAN /\ delay \in Int /\ delay >= -1
    BY DEF Types, DtmOK, States
  <2>4. ASSUME UNCHANGED <<txOn, rxOn, radio, owed, early>>,
               delay' \in Int, delay' >= -1
        PROVE  Rest
    BY <2>4 DEF Types, DtmOK, NcpOK, HistoryOK
  <2>5. ASSUME ~txOn, ~rxOn, DtmEnds(TRUE, "NONE"), delay' = AtLeast(Left, -1),
               UNCHANGED <<txOn, rxOn, radio, owed, early>>
        PROVE  Ended /\ Rest
    <3>1. Ended
      BY <2>5, DtmEndTypes DEF States
    <3>2. delay' \in Int /\ delay' >= -1
      BY <2>3, <2>5 DEF AtLeast, Left
    <3> QED  BY <2>4, <2>5, <3>1, <3>2
  <2>6. ASSUME Left > 0, DtmEnds(FALSE, state), delay' = Left,
               UNCHANGED <<txOn, rxOn, radio, owed, early>>
        PROVE  Ended /\ Rest
    <3>1. Ended
      BY <2>3, <2>6, DtmEndTypes
    <3>2. delay' \in Int /\ delay' >= -1
      BY <2>3, <2>6 DEF Left
    <3> QED  BY <2>4, <2>6, <3>1, <3>2
  <2>7. ASSUME DtmEnds(FALSE, IF Ending = "tx" THEN "TX_END" ELSE "RX_END"),
               txOn' = (txOn /\ Ending # "tx"), rxOn' = (rxOn /\ Ending # "rx"),
               radio' = "none",
               owed' = IF radio = "none" THEN owed
                       ELSE Append(owed, Done(radio, "end")),
               delay' = 0, UNCHANGED early
        PROVE  Ended /\ Rest
    <3>1. Ended
      <4>1. (IF Ending = "tx" THEN "TX_END" ELSE "RX_END") \in States
        BY DEF States
      <4> QED  BY <2>7, <4>1, DtmEndTypes
    <3>2. txOn' \in BOOLEAN /\ rxOn' \in BOOLEAN
      BY <2>7, Zenon
    <3>3. owed' \in Seq(Radio)
      <4>1. radio # "none" => Done(radio, "end") \in Radio
        BY EventTypes DEF Types, NcpOK
      <4> QED  BY <2>7, <4>1 DEF Types, NcpOK
    <3>4. early' \in BOOLEAN
      BY <2>7 DEF Types, HistoryOK
    <3> QED  BY <2>7, <3>1, <3>2, <3>3, <3>4
  <2>8. ASSUME Starts("rx"), stop' = FALSE, UNCHANGED <<txOn, rxOn, uart, booted, cmd>>
        PROVE  Ended /\ Rest
    <3>1. /\ TimersOK' /\ radio' \in {"none", "tx", "rx"} /\ owed' \in Seq(Radio)
          /\ delay' \in Nat /\ state' \in States /\ early' \in BOOLEAN
      BY <2>8, StartsTypes
    <3>2. /\ txOn' \in BOOLEAN /\ rxOn' \in BOOLEAN /\ stop' \in BOOLEAN
          /\ uart' \in Seq({"app", "dfu"}) /\ booted' \in BOOLEAN
          /\ cmd' \in {"DTM", "UPGRADE", "OTHER"}
      BY <2>8 DEF Types, DtmOK, WiresOK, LoopOK
    <3> QED  BY <3>1, <3>2
  <2>9. ASSUME DtmEnds(TRUE, "NONE"), delay' = -1,
               UNCHANGED <<txOn, rxOn, radio, owed, early>>
        PROVE  Ended /\ Rest
    <3>1. Ended
      BY <2>9, DtmEndTypes DEF States
    <3> QED  BY <2>4, <2>9, <3>1
  <2>10. ASSUME DtmEnds(stop, state),
                UNCHANGED <<txOn, rxOn, delay, radio, owed, early>>
         PROVE  Ended /\ Rest
    <3>1. Ended
      BY <2>3, <2>10, DtmEndTypes
    <3> QED  BY <2>3, <2>4, <2>10, <3>1
  <2>11. Ended /\ Rest
    BY <2>5, <2>6, <2>7, <2>8, <2>9, <2>10 DEF Expires
  <2> QED
    BY <2>1, <2>2, <2>11
       DEF Types, DtmOK, LoopOK, NcpOK, WiresOK, HistoryOK, States
<1>3. ASSUME NEW r \in Radio, HandleCompleted(r) PROVE Types'
  <2> USE <1>3 DEF HandleCompleted, upload, ncp, past, bounds
  <2>1. evq' \in Seq(Event)
    BY TakesTypes
  <2>2. NextState \in States /\ stop \in BOOLEAN
    BY DEF NextState, States, Types, DtmOK
  <2>3. /\ TimersOK'
        /\ state' \in States /\ stop' \in BOOLEAN
        /\ uart' \in Seq({"app", "dfu"}) /\ booted' \in BOOLEAN
        /\ cmd' \in {"DTM", "UPGRADE", "OTHER"}
    BY <2>2, DtmEndTypes
  <2> QED
    BY <2>1, <2>3 DEF Types, DtmOK, UploadOK, LoopOK, ConfOK, NcpOK, WiresOK,
                      HistoryOK, BoundsOK, States
<1> QED  BY <1>1, <1>2, <1>3

\* The end of an upgrade.
LEMMA UpgradeEndTypes ==
  ASSUME Types, UpgradeEnds
  PROVE  /\ uart' \in Seq({"app", "dfu"}) /\ booted' \in BOOLEAN
         /\ cmd' \in {"DTM", "UPGRADE", "OTHER"}
<1>1. uart' \in Seq({"app", "dfu"}) /\ booted' \in BOOLEAN
  BY ResetTypes DEF UpgradeEnds
<1>2. cmd' \in {"DTM", "UPGRADE", "OTHER"}
  BY DEF UpgradeEnds, Types, LoopOK
<1> QED  BY <1>1, <1>2

\* The events that drive an upgrade, and its packets.
LEMMA UpgradeTypes ==
  ASSUME Types, \/ UploadFails \/ UploadBegins \/ HandleDfuFailure
                \/ UploadPacket \/ UploadFinish
  PROVE  Types'
<1> DEFINE Ended == /\ uart' \in Seq({"app", "dfu"}) /\ booted' \in BOOLEAN
                    /\ cmd' \in {"DTM", "UPGRADE", "OTHER"}
<1> USE DEF timers, dtm, upload, host, ncp, past, bounds
<1>1. CASE UploadFails
  <2> USE <1>1 DEF UploadFails
  <2>1. evq' \in Seq(Event) /\ Ended
    BY TakesTypes, UpgradeEndTypes
  <2>2. flashed' \in Nat \cup {Missing}
    BY DEF Types, NcpOK
  <2> QED  BY <2>1, <2>2 DEF Types, TimersOK, DtmOK, UploadOK, LoopOK, ConfOK, NcpOK,
                       WiresOK, HistoryOK, BoundsOK
<1>2. CASE UploadBegins
  <2> USE <1>2 DEF UploadBegins
  <2>1. evq' \in Seq(Event)
    BY TakesTypes
  <2>2. file \in Nat
    BY SizeAssumption DEF Types, ConfOK
  <2>3. UploadOK'
    BY <2>2 DEF UploadOK
  <2>4. NcpOK' /\ WiresOK'
    BY <2>1 DEF Types, NcpOK, WiresOK
  <2> QED  BY <2>3, <2>4 DEF Types, TimersOK, DtmOK, LoopOK, ConfOK, HistoryOK,
                             BoundsOK
<1>3. CASE HandleDfuFailure
  <2> USE <1>3 DEF HandleDfuFailure
  <2>1. evq' \in Seq(Event) /\ Ended
    BY TakesTypes, UpgradeEndTypes
  <2> QED  BY <2>1 DEF Types, TimersOK, DtmOK, UploadOK, LoopOK, ConfOK, NcpOK,
                       WiresOK, HistoryOK, BoundsOK
<1>4. CASE UploadPacket
  <2> USE <1>4 DEF UploadPacket
  <2>1. torn' \in BOOLEAN
    BY Zenon DEF Types, UploadOK
  <2>2. /\ TimersOK' /\ DtmOK' /\ ConfOK' /\ HistoryOK' /\ BoundsOK'
        /\ alive' \in BOOLEAN /\ hung' \in BOOLEAN /\ evq' \in Seq(Event)
        /\ mode' \in {"app", "dfu", "down"} /\ target' \in {"app", "dfu"}
        /\ radio' \in {"none", "tx", "rx"} /\ owed' \in Seq(Radio)
    BY DEF Types, TimersOK, DtmOK, LoopOK, ConfOK, HistoryOK, BoundsOK, NcpOK,
           WiresOK
  <2>3. PICK ok \in Results :
          \/ /\ ok
             /\ left' = left - 1
             /\ flashed' = IF torn' THEN flashed ELSE flashed + 1
             /\ fw' = FALSE
             /\ UNCHANGED <<pc, told, uart, booted, cmd>>
          \/ ~ok /\ UploadOver("failure") /\ UNCHANGED <<flashed, fw>>
    BY Zenon
  <2>4. CASE ok
    <3>0. /\ left' = left - 1
          /\ flashed' = IF torn' THEN flashed ELSE flashed + 1
          /\ fw' = FALSE
          /\ UNCHANGED <<pc, told, uart, booted, cmd>>
      BY <2>3, <2>4, Zenon
    <3>1. flashed # Missing
      BY <2>4 DEF Results
    <3>2. flashed' \in Nat /\ left' \in Nat
      BY <3>0, <3>1 DEF Types, NcpOK, UploadOK, More
    <3> QED  BY <2>1, <2>2, <3>0, <3>2 DEF Types, UploadOK, LoopOK, NcpOK, WiresOK
  <2>5. CASE ~ok
    <3>0. UploadOver("failure") /\ UNCHANGED <<flashed, fw>>
      BY <2>3, <2>5, Zenon
    <3>1. Ended
      BY <3>0, UpgradeEndTypes DEF UploadOver
    <3> QED  BY <2>1, <2>2, <3>0, <3>1
                DEF UploadOver, Types, UploadOK, LoopOK, NcpOK, WiresOK
  <2> QED  BY <2>4, <2>5
<1>5. CASE UploadFinish
  <2> USE <1>5 DEF UploadFinish
  <2>1. PICK ok \in Results :
          /\ UploadOver(IF ok THEN "success" ELSE "failure")
          /\ fw' = (ok /\ flashed = file)
    BY Zenon
  <2>2. fw' \in BOOLEAN
    BY <2>1, Zenon
  <2>3. /\ Ended /\ pc' = "loop" /\ left' = 0
        /\ told' \in {"nothing", "success", "failure"}
    BY <2>1, UpgradeEndTypes DEF UploadOver
  <2> QED  BY <2>2, <2>3 DEF Types, TimersOK, DtmOK, UploadOK, LoopOK, ConfOK,
                             NcpOK, WiresOK, HistoryOK, BoundsOK
<1> QED  BY <1>1, <1>2, <1>3, <1>4, <1>5

\* Commands, dropped events and handlers that hang.
LEMMA CommandTypes ==
  ASSUME Types, \/ (\E c \in Command : Receive(c))
                \/ dtm_cmd_handler \/ upgrade_cmd_handler \/ Other \/ Set
                \/ Drop \/ Hang
  PROVE  Types'
<1> USE DEF timers, dtm, upload, host, ncp, past, bounds
<1>1. ASSUME NEW c \in Command, Receive(c) PROVE Types'
  <2> USE <1>1 DEF Receive
  <2>1. commands' \in 0 .. MaxCommands
    BY BoundsAssumption DEF Types, BoundsOK
  <2>2. /\ c.op = "DTM" => c.test \in Test
        /\ c.op = "UPGRADE" => c.file \in Size \cup {Missing}
    BY DEF Command, SingleShot
  <2>3. ConfOK'
    BY <2>2 DEF Types, ConfOK
  <2>4. /\ TimersOK' /\ state' \in States /\ stop' \in BOOLEAN
        /\ uart' \in Seq({"app", "dfu"}) /\ booted' \in BOOLEAN
    <3>1. CASE dtm_cleanup
      <4>1. TimersOK'
        BY <3>1, TimerTypes DEF dtm_cleanup
      <4>2. uart' \in Seq({"app", "dfu"}) /\ booted' \in BOOLEAN
        BY <3>1, ResetTypes DEF dtm_cleanup
      <4> QED  BY <3>1, <4>1, <4>2 DEF dtm_cleanup, States
    <3>2. CASE UNCHANGED <<timers, state, stop, uart, booted>>
      <4>1. TimersOK'
        BY <3>2, TimerTypes
      <4> QED  BY <3>2, <4>1 DEF Types, DtmOK, States, WiresOK, LoopOK
    <3> QED  BY <3>1, <3>2
  <2> QED  BY <2>1, <2>3, <2>4
              DEF Types, DtmOK, UploadOK, LoopOK, NcpOK, WiresOK, HistoryOK,
                  BoundsOK, States
<1>2. CASE dtm_cmd_handler
  <2> USE <1>2 DEF dtm_cmd_handler
  <2>1. txOn' \in BOOLEAN /\ rxOn' \in BOOLEAN
    BY Zenon
  <2>2. uart' \in Seq({"app", "dfu"}) /\ booted' \in BOOLEAN
    BY ResetTypes
  <2>3. DtmOK'
    BY <2>1 DEF Types, DtmOK
  <2>4. displaced' \in BOOLEAN /\ HistoryOK'
    BY DEF Types, HistoryOK
  <2> QED  BY <2>2, <2>3, <2>4 DEF Types, TimersOK, UploadOK, LoopOK, ConfOK,
                                   NcpOK, WiresOK, BoundsOK
<1>3. CASE upgrade_cmd_handler
  <2> USE <1>3 DEF upgrade_cmd_handler
  <2>1. uart' \in Seq({"app", "dfu"}) /\ booted' \in BOOLEAN
    BY ResetTypes DEF Types, WiresOK, LoopOK
  <2> QED  BY <2>1 DEF Types, TimersOK, DtmOK, UploadOK, LoopOK, ConfOK, NcpOK,
                       WiresOK, HistoryOK, BoundsOK
<1>4. CASE Other
  <2> USE <1>4 DEF Other, Displaces
  <2>1. displaced' \in BOOLEAN
    BY Zenon DEF Types, HistoryOK
  <2> QED  BY <2>1 DEF Types, TimersOK, DtmOK, UploadOK, LoopOK, ConfOK, NcpOK,
                       WiresOK, HistoryOK, BoundsOK
<1>5. CASE Set
  <2> USE <1>5 DEF Set, Displaces
  <2>1. displaced' \in BOOLEAN
    BY Zenon DEF Types, HistoryOK
  <2>2. uart' \in Seq({"app", "dfu"}) /\ booted' \in BOOLEAN
    BY ResetTypes
  <2> QED  BY <2>1, <2>2 DEF Types, TimersOK, DtmOK, UploadOK, LoopOK, ConfOK,
                             NcpOK, WiresOK, HistoryOK, BoundsOK
<1>6. CASE Drop
  <2>1. evq' \in Seq(Event)
    BY <1>6 DEF Drop, Types, WiresOK
  <2> QED  BY <1>6, <2>1 DEF Drop, Types, TimersOK, DtmOK, UploadOK, LoopOK,
                             ConfOK, NcpOK, WiresOK, HistoryOK, BoundsOK
<1>7. CASE Hang
  BY <1>7 DEF Hang, Types, TimersOK, DtmOK, UploadOK, LoopOK, ConfOK, NcpOK,
              WiresOK, HistoryOK, BoundsOK
<1> QED  BY <1>1, <1>2, <1>3, <1>4, <1>5, <1>6, <1>7

\* The death of the daemon and the next one.
LEMMA DaemonTypes ==
  ASSUME Types, DaemonDies \/ DaemonStarts
  PROVE  Types'
<1> USE DEF timers, dtm, upload, host, ncp, past, bounds
<1>1. CASE DaemonDies
  <2> USE <1>1 DEF DaemonDies
  <2>1. deaths' \in 0 .. MaxDeaths
    BY BoundsAssumption DEF Types, BoundsOK
  <2>2. TimersOK' /\ NcpOK' /\ WiresOK'
    BY DEF Types, TimersOK, NcpOK, WiresOK
  <2>3. DtmOK'
    <3>1. txOn' \in BOOLEAN /\ rxOn' \in BOOLEAN /\ stop' \in BOOLEAN
      BY Zenon
    <3>2. state' = "NONE" /\ delay' = 0
      OBVIOUS
    <3> QED  BY <3>1, <3>2 DEF DtmOK
  <2>4. UploadOK'
    BY DEF UploadOK
  <2> QED  BY <2>1, <2>2, <2>3, <2>4 DEF Types, LoopOK, ConfOK, HistoryOK,
                                         BoundsOK
<1>2. CASE DaemonStarts
  <2> USE <1>2 DEF DaemonStarts
  <2>1. PICK a \in StartupArg : uart' = Append(uart, a)
    OBVIOUS
  <2>2. uart' \in Seq({"app", "dfu"}) /\ evq' \in Seq(Event)
    BY <2>1, StartupAssumption DEF Types, WiresOK
  <2> QED  BY <2>2 DEF Types, TimersOK, DtmOK, UploadOK, LoopOK, ConfOK, NcpOK,
                       WiresOK, HistoryOK, BoundsOK
<1> QED  BY <1>1, <1>2

\* The head and the tail of a sequence.
LEMMA TailTypes ==
  ASSUME NEW S, NEW s \in Seq(S), s # <<>>
  PROVE  Head(s) \in S /\ Tail(s) \in Seq(S)
  OBVIOUS

\* The steps of the NCP.
LEMMA NcpTypes ==
  ASSUME Types, NcpReset \/ NcpCrash \/ NcpBoot \/ NcpTick \/ NcpCompletes
  PROVE  Types'
<1> USE DEF timers, dtm, upload, host, ncp, past, bounds
<1>1. ASSUME NEW t \in {"app", "dfu"}, GoesDown(t),
             uart' \in Seq({"app", "dfu"}), crashes' \in 0 .. MaxCrashes
      PROVE  Types'
  BY <1>1 DEF GoesDown, Types, TimersOK, DtmOK, UploadOK, LoopOK, ConfOK, NcpOK,
              WiresOK, HistoryOK, BoundsOK
<1>2. CASE NcpReset
  <2>1. uart # <<>> /\ uart' \in {<<>>, Tail(uart)} /\ GoesDown(Head(uart))
        /\ UNCHANGED crashes
    BY <1>2 DEF NcpReset
  <2>2. Head(uart) \in {"app", "dfu"} /\ uart' \in Seq({"app", "dfu"})
    <3>1. uart \in Seq({"app", "dfu"})
      BY DEF Types, WiresOK
    <3>2. Head(uart) \in {"app", "dfu"} /\ Tail(uart) \in Seq({"app", "dfu"})
      BY <2>1, <3>1, TailTypes
    <3>3. <<>> \in Seq({"app", "dfu"})
      OBVIOUS
    <3> QED  BY <2>1, <3>2, <3>3, Zenon
  <2>3. crashes' \in 0 .. MaxCrashes
    BY <2>1 DEF Types, BoundsOK
  <2> QED  BY <1>1, <2>1, <2>2, <2>3
<1>3. CASE NcpCrash
  <2>1. crashes' \in 0 .. MaxCrashes
    BY <1>3, BoundsAssumption DEF NcpCrash, Types, BoundsOK
  <2>2. uart' \in Seq({"app", "dfu"})
    <3>1. uart \in Seq({"app", "dfu"}) /\ <<>> \in Seq({"app", "dfu"})
      BY DEF Types, WiresOK
    <3> QED  BY <1>3, <3>1, Zenon DEF NcpCrash
  <2> QED  BY <1>1, <1>3, <2>1, <2>2 DEF NcpCrash
<1>4. CASE NcpBoot
  <2>1. evq' \in Seq(Event)
    <3>1. \A e \in Event : Append(evq, e) \in Seq(Event)
      BY DEF Types, WiresOK
    <3>2. \E e \in {Boot, DfuBoot, DfuFailure} : evq' = Append(evq, e)
      BY <1>4, Zenon DEF NcpBoot
    <3> QED  BY <3>1, <3>2, EventTypes
  <2> QED  BY <1>4, <2>1 DEF NcpBoot, Types, TimersOK, DtmOK, UploadOK, LoopOK,
                             ConfOK, NcpOK, WiresOK, HistoryOK, BoundsOK
<1>5. CASE NcpTick
  <2>1. evq' \in Seq(Event)
    BY <1>5, EventTypes DEF NcpTick, Types, WiresOK
  <2>2. late' \in BOOLEAN
    BY <1>5, Zenon DEF NcpTick, Types, HistoryOK
  <2> QED  BY <1>5, <2>1, <2>2
              DEF NcpTick, Types, TimersOK, DtmOK, UploadOK, LoopOK, ConfOK,
                  NcpOK, WiresOK, HistoryOK, BoundsOK
<1>6. CASE NcpCompletes
  <2>1. Head(owed) \in Radio /\ owed' \in Seq(Radio)
    BY <1>6 DEF NcpCompletes, Types, NcpOK
  <2>2. Completed(Head(owed)) \in Event
    BY <2>1, EventTypes
  <2>3. evq' \in Seq(Event)
    BY <1>6, <2>2 DEF NcpCompletes, Types, WiresOK
  <2> QED  BY <1>6, <2>1, <2>3
              DEF NcpCompletes, Types, TimersOK, DtmOK, UploadOK, LoopOK, ConfOK,
                  NcpOK, WiresOK, HistoryOK, BoundsOK
<1> QED  BY <1>2, <1>3, <1>4, <1>5, <1>6

\* No step breaks the types.
LEMMA NextTypes ==
  ASSUME Types, [Next]_vars
  PROVE  Types'
<1>1. CASE Next
  BY <1>1, DtmTypes, UpgradeTypes, CommandTypes, DaemonTypes, NcpTypes
     DEF Next, HandlesEvent, Uploads, RunsCommand
<1>2. CASE UNCHANGED vars
  BY <1>2 DEF vars, timers, dtm, upload, host, ncp, past, bounds,
              Types, TimersOK, DtmOK, UploadOK, LoopOK, ConfOK, NcpOK, WiresOK,
              HistoryOK, BoundsOK
<1> QED  BY <1>1, <1>2

\* The types hold in every state.
LEMMA TypesHold == Spec => []Types
<1>1. Init => Types
  BY InitTypes
<1>2. Types /\ [Next]_vars => Types'
  BY NextTypes
<1> QED  BY <1>1, <1>2, PTL DEF Spec

\* The variables of the daemon and of the NCP keep their types (dtm.c,
\* upgrade.c), for every set of tests, of files and of startup arguments.
THEOREM TypeCorrect == Spec => []TypeOK
  BY TypesHold, TypesAreTypes, PTL

-----------------------------------------------------------------------------
(* Success *)

\* During an upload no packet is both in the flash and left to be sent, and
\* none is neither, unless a read came up short or the NCP has rebooted.
Conserved == pc = "upload" => /\ file \in Nat
                              /\ torn \/ flashed = Missing \/ flashed + left = file

\* The steps of the upload, and those around it, keep the packets together.
LEMMA ConservedKept ==
  ASSUME Types, Conserved, [Next]_vars
  PROVE  Conserved'
<1> USE DEF Conserved, timers, dtm, upload, host, ncp, past, bounds
<1>1. CASE UNCHANGED <<pc, file, torn, flashed, left>>
  BY <1>1
<1>2. CASE pc' = "loop"
  BY <1>2
<1>3. ASSUME NEW t, GoesDown(t) PROVE Conserved'
  BY <1>3 DEF GoesDown
<1>4. CASE NcpReset \/ NcpCrash
  BY <1>3, <1>4 DEF NcpReset, NcpCrash
<1>5. ASSUME NEW c \in Command, Receive(c) PROVE Conserved'
  BY <1>5 DEF Receive, AtLoop
<1>6. CASE UploadBegins
  <2>1. file \in Nat
    BY <1>6, SizeAssumption DEF UploadBegins, Types, ConfOK
  <2> QED  BY <1>6, <2>1 DEF UploadBegins
<1>7. CASE UploadPacket
  <2> USE <1>7 DEF UploadPacket
  <2>1. PICK ok \in Results :
          \/ /\ ok
             /\ left' = left - 1
             /\ flashed' = IF torn' THEN flashed ELSE flashed + 1
             /\ fw' = FALSE
             /\ UNCHANGED <<pc, told, uart, booted, cmd>>
          \/ ~ok /\ UploadOver("failure") /\ UNCHANGED <<flashed, fw>>
    BY Zenon
  <2>2. CASE ok
    <3>1. /\ left' = left - 1
          /\ flashed' = IF torn' THEN flashed ELSE flashed + 1
          /\ pc' = pc
      BY <2>1, <2>2, Zenon
    <3>2. flashed # Missing
      BY <2>2 DEF Results
    <3>3. torn => torn'
      BY Zenon
    <3>4. flashed \in Nat /\ left \in Nat
      BY <3>2 DEF Types, NcpOK, UploadOK
    <3> QED  BY <3>1, <3>2, <3>3, <3>4
  <2>3. CASE ~ok
    BY <1>2, <2>1, <2>3 DEF UploadOver
  <2> QED  BY <2>2, <2>3
<1>8. CASE UploadFinish
  BY <1>2, <1>8 DEF UploadFinish, UploadOver
<1>9. CASE HandleBoot \/ HandleTick \/ (\E r \in Radio : HandleCompleted(r))
  BY <1>1, <1>9, Zenon DEF HandleBoot, HandleTick, HandleCompleted, Starts
<1>10. CASE UploadFails \/ HandleDfuFailure \/ Drop \/ Hang
  BY <1>1, <1>2, <1>10 DEF UploadFails, Takes, AtLoop, HandleDfuFailure, Drop, Hang
<1>11. CASE dtm_cmd_handler \/ upgrade_cmd_handler \/ Other \/ Set
  BY <1>1, <1>11 DEF dtm_cmd_handler, upgrade_cmd_handler, Other, Set
<1>12. CASE DaemonDies \/ DaemonStarts
  BY <1>1, <1>2, <1>12 DEF DaemonDies, DaemonStarts
<1>13. CASE NcpBoot \/ NcpTick \/ NcpCompletes
  BY <1>1, <1>13 DEF NcpBoot, NcpTick, NcpCompletes
<1>14. CASE UNCHANGED vars
  BY <1>1, <1>14 DEF vars
<1> QED
  BY <1>4, <1>5, <1>6, <1>7, <1>8, <1>9, <1>10, <1>11, <1>12, <1>13, <1>14
     DEF Next, HandlesEvent, Uploads, RunsCommand

\* Nothing but the end of the upload tells of a success.
LEMMA SuccessByFinish ==
  ASSUME Types, [Next]_vars, Success
  PROVE  UploadFinish
<1> USE DEF Success, timers, dtm, upload, host, ncp, past, bounds
<1>1. pc' # pc /\ told' = "success"
  OBVIOUS
<1>2. ASSUME NEW t, GoesDown(t) PROVE FALSE
  BY <1>1, <1>2 DEF GoesDown
<1>3. ~NcpReset /\ ~NcpCrash
  BY <1>2 DEF NcpReset, NcpCrash
<1>4. ASSUME NEW c \in Command, Receive(c) PROVE FALSE
  BY <1>1, <1>4 DEF Receive
<1>5. ~UploadFails /\ ~UploadBegins /\ ~HandleDfuFailure /\ ~Drop /\ ~Hang
  BY <1>1 DEF UploadFails, UploadBegins, HandleDfuFailure, Drop, Hang
<1>6. ASSUME UploadPacket PROVE FALSE
  <2>1. \/ UNCHANGED <<pc, told>>
        \/ UploadOver("failure")
    BY <1>6, Zenon DEF UploadPacket
  <2> QED  BY <1>1, <2>1 DEF UploadOver
<1>7. ~HandleBoot /\ ~HandleTick /\ \A r \in Radio : ~HandleCompleted(r)
  BY <1>1 DEF HandleBoot, HandleTick, HandleCompleted
<1>8. ~dtm_cmd_handler /\ ~upgrade_cmd_handler /\ ~Other /\ ~Set
  BY <1>1 DEF dtm_cmd_handler, upgrade_cmd_handler, Other, Set
<1>9. ~DaemonDies /\ ~DaemonStarts
  BY <1>1 DEF DaemonDies, DaemonStarts
<1>10. ~NcpBoot /\ ~NcpTick /\ ~NcpCompletes
  BY <1>1 DEF NcpBoot, NcpTick, NcpCompletes
<1>11. ~UNCHANGED vars
  BY <1>1 DEF vars
<1> QED
  BY <1>3, <1>4, <1>5, <1>6, <1>7, <1>8, <1>9, <1>10, <1>11
     DEF Next, HandlesEvent, Uploads, RunsCommand

\* A client that is told of a success has the whole file in the NCP's flash
\* (upgrade.c:44-67), whatever its size and however often the NCP rebooted,
\* unless a read came up short.
THEOREM SuccessTold == Spec => SuccessWhole
<1>1. Init => Conserved
  BY DEF Init, Conserved
<1>2. Types /\ Conserved /\ [Next]_vars => Conserved'
  BY ConservedKept
<1>3. Types /\ Conserved /\ [Next]_vars => (Success => torn \/ flashed = file)
  <2> SUFFICES ASSUME Types, Conserved, [Next]_vars, Success
               PROVE  torn \/ flashed = file
    OBVIOUS
  <2>1. UploadFinish
    BY SuccessByFinish
  <2>2. PICK ok \in Results : UploadOver(IF ok THEN "success" ELSE "failure")
    BY <2>1 DEF UploadFinish
  <2>3. ok
    BY <2>2, Zenon DEF UploadOver, Success
  <2>4. flashed # Missing
    BY <2>3 DEF Results
  <2>5. left = 0
    BY <2>1 DEF UploadFinish, More, Types, UploadOK
  <2> QED  BY <2>1, <2>4, <2>5 DEF Conserved, UploadFinish, Types, NcpOK
<1> QED  BY <1>1, <1>2, <1>3, TypesHold, PTL DEF Spec, SuccessWhole
-----------------------------------------------------------------------------
(* A test that runs is attended *)

\* No boot is on its way.
NoBoot == \A i \in DOMAIN evq : evq[i] # Boot

\* A timer and a state of DTM belong to the running command, or to one that a
\* single-shot command took the place of; a command that is not single-shot has
\* had them cleaned up; and while the NCP runs a test no boot of it is still to
\* be handled, or the test is known to have begun early.
Kept ==
  /\ listed["dtm"] <= 1
  /\ state # "NONE" \/ Listed("dtm") => cmd = "DTM" \/ displaced
  /\ new.op \in {"UPGRADE", "SCAN"} /\ cmd = "DTM"
       => state = "NONE" /\ ~Listed("dtm")
  /\ radio # "none" => mode = "app" /\ (early \/ NoBoot)
AttendedInv == TestAttended /\ Kept

\* Boot events on their way after an event has been taken, or another added.
LEMMA BootsMove ==
  ASSUME Types
  PROVE  /\ \A e : Takes(e) /\ NoBoot => NoBoot' /\ e # Boot
         /\ \A e : Takes(e) /\ evq' = Tail(evq) /\ NoBoot => NoBoot'
         /\ \A e \in Event \ {Boot} : evq' = Append(evq, e) /\ NoBoot => NoBoot'
<1>1. evq \in Seq(Event)
  BY DEF Types, WiresOK
<1>2. ASSUME evq # <<>>, evq' = Tail(evq), NoBoot
      PROVE  NoBoot' /\ Head(evq) # Boot
  BY <1>1, <1>2, TailElems DEF NoBoot
<1>3. ASSUME NEW e \in Event \ {Boot}, evq' = Append(evq, e), NoBoot
      PROVE  NoBoot'
  BY <1>1, <1>3, AppendElems DEF NoBoot
<1> QED  BY <1>2, <1>3 DEF Takes

\* Steps that leave DTM, its timer and its test alone.
LEMMA AttendedFrame ==
  ASSUME Types, AttendedInv,
         UNCHANGED <<timers, state, radio, mode, early, displaced>>,
         alive' = alive, hung => hung',
         new' = new \/ new' = NoCommand,
         cmd' = cmd \/ (cmd # "DTM" /\ cmd' # "DTM"),
         uart # <<>> => uart' # <<>>,
         NoBoot => NoBoot'
  PROVE  AttendedInv'
BY DEF AttendedInv, TestAttended, Kept, Listed, timers, NoCommand

\* A reset that is sent, or not, is on its way.
LEMMA ResetOnWay ==
  ASSUME Types, NEW a, SystemReset(a) \/ DfuReset(a)
  PROVE  uart' # <<>>
<1>1. uart' = Append(uart, a) /\ uart \in Seq({"app", "dfu"})
  BY DEF SystemReset, DfuReset, Types, WiresOK
<1> QED  BY <1>1

\* The cleanup of DTM leaves nothing of it.
LEMMA CleansUp ==
  ASSUME Types, listed["dtm"] <= 1, dtm_cleanup
  PROVE  /\ state' = "NONE" /\ ~Listed("dtm")' /\ listed'["dtm"] <= 1
         /\ uart' # <<>>
<1>1. listed \in [Timer -> Nat] /\ "dtm" \in Timer
  BY TimersAssumption DEF Types, TimersOK
<1>2. ~Listed("dtm")' /\ listed'["dtm"] <= 1
  BY <1>1 DEF dtm_cleanup, hw_timer_del, Listed
<1>3. uart' # <<>>
  BY ResetOnWay DEF dtm_cleanup
<1> QED  BY <1>2, <1>3 DEF dtm_cleanup

\* The end of a handler of DTM whose next state is NONE or comes from a timer
\* that is listed or another state.
LEMMA AttendedEnds ==
  ASSUME Types, AttendedInv, NEW ret \in BOOLEAN, NEW s \in States,
         DtmEnds(ret, s),
         s = "NONE" \/ state # "NONE" \/ Listed("dtm"),
         UNCHANGED <<mode, early, displaced, alive, hung, new>>,
         new = NoCommand,
         radio' = radio \/ radio' = "none", NoBoot => NoBoot'
  PROVE  AttendedInv'
<1> USE DEF AttendedInv, Kept, TestAttended, NoCommand
<1>1. CASE cmd = "DTM" /\ ret
  <2>1. dtm_cleanup
    BY <1>1 DEF DtmEnds
  <2>2. /\ state' = "NONE" /\ ~Listed("dtm")' /\ listed'["dtm"] <= 1
        /\ uart' # <<>>
    BY <2>1, CleansUp
  <2> QED  BY <2>2
<1>2. CASE ~(cmd = "DTM" /\ ret)
  <2>1. state' = s /\ UNCHANGED <<timers, uart, booted, cmd>>
    BY <1>2 DEF DtmEnds
  <2> QED  BY <2>1 DEF timers, Listed
<1> QED  BY <1>1, <1>2

\* The start of a test.
LEMMA AttendedStarts ==
  ASSUME Types, AttendedInv, NEW k \in {"tx", "rx"}, Starts(k),
         state # "NONE" \/ Listed("dtm"), mode = "app",
         evq' \in Seq(Event),
         UNCHANGED <<mode, displaced, alive, hung, new, cmd>>, new = NoCommand
  PROVE  AttendedInv'
<1>1. listed \in [Timer -> Nat] /\ armed \in [Timer -> BOOLEAN] /\ "dtm" \in Timer
  BY TimersAssumption DEF Types, TimersOK
<1>2. Listed("dtm")' /\ listed'["dtm"] <= 1 /\ armed'["dtm"]
  BY <1>1 DEF Starts, hw_timer_add, Listed, AttendedInv, Kept
<1>3. early' \/ NoBoot'
  BY Zenon DEF Starts, NoBoot
<1> QED  BY <1>2, <1>3 DEF AttendedInv, TestAttended, Kept, NoCommand

\* The events that drive DTM.
LEMMA AttendedDtm ==
  ASSUME Types, AttendedInv, Types',
         HandleBoot \/ HandleTick \/ (\E r \in Radio : HandleCompleted(r))
  PROVE  AttendedInv'
<1>0. evq' \in Seq(Event)
  BY DEF Types, WiresOK
<1>1. CASE HandleBoot
  <2> USE <1>1 DEF HandleBoot
  <2>1. new = NoCommand /\ mode = "app" /\ alive' = alive
    BY DEF Takes, AtLoop, Answered
  <2>2. CASE Begins
    <3>1. First \in {"tx", "rx"} /\ Starts(First)
      BY <2>2 DEF First
    <3> QED  BY <1>0, <2>1, <2>2, <3>1, AttendedStarts DEF Begins
  <2>3. CASE ~Begins
    <3>1. ~NoBoot
      BY BootsMove
    <3>2. /\ listed' = [t \in Timer |-> 0] /\ "dtm" \in Timer
          /\ UNCHANGED <<radio, state, early, cmd, displaced, mode, uart>>
      BY <2>3, TimersAssumption DEF hw_timer_list_clear
    <3>3. listed'["dtm"] = 0
      BY <3>2
    <3> QED  BY <2>1, <3>1, <3>2, <3>3
                DEF AttendedInv, TestAttended, Kept, NoCommand, Listed
  <2> QED  BY <2>2, <2>3
<1>2. CASE HandleTick
  <2>1. /\ UNCHANGED <<alive, hung, new, mode, displaced>>
        /\ Takes(Tick) /\ new = NoCommand
    BY <1>2 DEF HandleTick, Takes, AtLoop
  <2>2. NoBoot => NoBoot'
    BY <2>1, BootsMove
  <2>3. state \in States /\ stop \in BOOLEAN
    BY DEF Types, DtmOK, States
  <2> DEFINE Goes == UNCHANGED early /\ (radio' = radio \/ radio' = "none")
  <2>4. ASSUME Listed("dtm"), Goes, NEW ret \in BOOLEAN, NEW s \in States,
               DtmEnds(ret, s)
        PROVE  AttendedInv'
    BY <2>1, <2>2, <2>4, AttendedEnds
  <2>5. CASE Listed("dtm") /\ Expires
    <3>1. CASE /\ UNCHANGED <<radio, early>>
               /\ \/ DtmEnds(TRUE, "NONE") \/ DtmEnds(FALSE, state)
      BY <2>3, <2>4, <2>5, <3>1 DEF States
    <3>2. CASE /\ DtmEnds(FALSE, IF Ending = "tx" THEN "TX_END" ELSE "RX_END")
               /\ radio' = "none" /\ UNCHANGED early
      <4>1. (IF Ending = "tx" THEN "TX_END" ELSE "RX_END") \in States
        BY DEF States
      <4> QED  BY <2>4, <2>5, <3>2, <4>1
    <3>3. CASE Answered("app") /\ Starts("rx") /\ UNCHANGED <<uart, booted, cmd>>
      BY <1>0, <2>1, <2>5, <3>3, AttendedStarts DEF Answered
    <3> QED  BY <2>5, <3>1, <3>2, <3>3 DEF Expires
  <2>6. CASE DtmEnds(stop, state) /\ UNCHANGED <<radio, early>>
    BY <2>1, <2>2, <2>3, <2>6, AttendedEnds
  <2> QED  BY <1>2, <2>5, <2>6 DEF HandleTick
<1>3. ASSUME NEW r \in Radio, HandleCompleted(r) PROVE AttendedInv'
  <2>1. /\ UNCHANGED <<alive, hung, new, ncp, past>>
        /\ Takes(Completed(r)) /\ new = NoCommand /\ DtmEnds(stop, NextState)
    BY <1>3 DEF HandleCompleted, Takes, AtLoop
  <2>2. NoBoot => NoBoot'
    BY <2>1, BootsMove
  <2>3. /\ NextState \in States /\ stop \in BOOLEAN
        /\ NextState = "NONE" \/ state # "NONE"
    BY DEF NextState, Types, DtmOK, States
  <2> QED  BY <2>1, <2>2, <2>3, AttendedEnds DEF ncp, past
<1> QED  BY <1>1, <1>2, <1>3

\* The events and the packets of an upgrade: no more than a reset is sent.
LEMMA AttendedUpgrade ==
  ASSUME Types, AttendedInv,
         \/ UploadFails \/ UploadBegins \/ HandleDfuFailure
         \/ UploadPacket \/ UploadFinish
  PROVE  AttendedInv'
<1> DEFINE Calm == UNCHANGED <<timers, state, radio, mode, early, displaced,
                               alive, hung, new>>
           Frees == UpgradeEnds \/ UNCHANGED <<uart, cmd>>
           Hears == NoBoot => NoBoot'
<1>1. ASSUME Calm, Frees, Hears PROVE AttendedInv'
  <2>1. uart # <<>> => uart' # <<>>
    BY <1>1, ResetOnWay DEF UpgradeEnds
  <2>2. cmd' = cmd \/ (cmd # "DTM" /\ cmd' # "DTM")
    BY <1>1 DEF UpgradeEnds
  <2> QED  BY <1>1, <2>1, <2>2, AttendedFrame
<1>2. CASE UploadFails \/ HandleDfuFailure
  BY <1>1, <1>2, BootsMove DEF UploadFails, HandleDfuFailure, dtm, ncp, past
<1>3. CASE UploadBegins
  BY <1>1, <1>3, BootsMove DEF UploadBegins, dtm, host, past
<1>4. CASE UploadPacket \/ UploadFinish
  <2>1. Calm /\ UNCHANGED evq
    BY <1>4, Zenon DEF UploadPacket, UploadFinish, dtm, past
  <2>2. Frees
    BY <1>4, Zenon DEF UploadPacket, UploadFinish, UploadOver
  <2>3. Hears
    BY <2>1, Zenon DEF NoBoot
  <2> QED  BY <1>1, <2>1, <2>2, <2>3
<1> QED  BY <1>2, <1>3, <1>4

\* Commands, dropped events, handlers that hang, and the end of the daemon.
LEMMA AttendedHost ==
  ASSUME Types, AttendedInv,
         \/ (\E c \in Command : Receive(c))
         \/ dtm_cmd_handler \/ upgrade_cmd_handler \/ Other \/ Set
         \/ Drop \/ Hang \/ DaemonDies \/ DaemonStarts
  PROVE  AttendedInv'
<1> DEFINE Calm == UNCHANGED <<timers, radio, mode, early, evq>>
<1>0. UNCHANGED evq => (NoBoot => NoBoot')
  BY Zenon DEF NoBoot
<1>1. ASSUME NEW c \in Command, Receive(c) PROVE AttendedInv'
  <2>1. UNCHANGED <<cmd, ncp, evq, past, alive, hung>> /\ new' = c
    BY <1>1 DEF Receive
  <2>2. CASE dtm_cleanup
    <3>1. /\ state' = "NONE" /\ ~Listed("dtm")' /\ listed'["dtm"] <= 1
          /\ uart' # <<>>
      BY <2>2, CleansUp DEF AttendedInv, Kept
    <3> QED  BY <1>0, <2>1, <3>1 DEF AttendedInv, TestAttended, Kept, ncp, past
  <2>3. CASE /\ cmd # "DTM" \/ c.op \in SingleShot
             /\ UNCHANGED <<timers, state, stop, uart, booted>>
    BY <1>0, <2>1, <2>3
       DEF AttendedInv, TestAttended, Kept, ncp, past, timers, Listed, SingleShot
  <2> QED  BY <1>1, <2>2, <2>3 DEF Receive
<1>2. CASE dtm_cmd_handler
  <2>1. /\ cmd' = "DTM" /\ new' = NoCommand
        /\ UNCHANGED <<timers, radio, mode, early, evq>>
    BY <1>2 DEF dtm_cmd_handler, ncp
  <2>2. uart' # <<>>
    BY <1>2, ResetOnWay DEF dtm_cmd_handler
  <2> QED  BY <1>0, <2>1, <2>2
              DEF AttendedInv, TestAttended, Kept, timers, NoCommand
<1>3. CASE upgrade_cmd_handler
  <2>1. /\ new.op = "UPGRADE" /\ uart = <<>> /\ cmd' = "UPGRADE" /\ new' = NoCommand
        /\ UNCHANGED <<timers, state, radio, mode, early, displaced, evq, alive, hung>>
    BY <1>3 DEF upgrade_cmd_handler, Answered, dtm, ncp, past
  <2> QED  BY <1>0, <2>1
              DEF AttendedInv, TestAttended, Kept, timers, NoCommand, Listed
<1>4. CASE Other
  <2>1. /\ cmd' = "OTHER" /\ new' = NoCommand /\ new.op \in {"SHOW", "SCAN"}
        /\ UNCHANGED <<timers, state, radio, mode, early, evq, uart, alive, hung>>
        /\ new.op = "SCAN" => uart = <<>>
        /\ displaced' = (displaced \/ (cmd = "DTM" /\ new.op \in SingleShot))
    BY <1>4 DEF Other, Displaces, Answered, dtm, ncp
  <2>2. displaced => displaced'
    BY <2>1, Zenon
  <2>3. cmd = "DTM" /\ new.op \in SingleShot => displaced'
    BY <2>1, Zenon
  <2>4. new.op = "SCAN" => displaced' = displaced
    BY <2>1 DEF Types, HistoryOK, SingleShot
  <2> QED  BY <1>0, <2>1, <2>2, <2>3, <2>4
              DEF AttendedInv, TestAttended, Kept, timers, NoCommand, Listed, SingleShot
<1>5. CASE Drop
  <2>1. NoBoot => NoBoot'
    <3>1. Takes(Head(evq))
      BY <1>5 DEF Drop, Takes
    <3> QED  BY <1>5, <3>1, BootsMove DEF Drop
  <2> QED  BY <1>5, <2>1, AttendedFrame DEF Drop, dtm, host, ncp, past
<1>6. CASE Hang
  BY <1>0, <1>6, AttendedFrame DEF Hang, dtm, ncp, past, Running
<1>7. CASE DaemonDies
  <2>1. /\ new' = NoCommand /\ state' = "NONE" /\ ~alive'
        /\ listed' = [t \in Timer |-> 0] /\ "dtm" \in Timer
        /\ UNCHANGED <<radio, mode, early, evq>>
    BY <1>7, TimersAssumption DEF DaemonDies, ncp
  <2>2. listed'["dtm"] = 0
    BY <2>1
  <2> QED  BY <1>0, <2>1, <2>2
              DEF AttendedInv, TestAttended, Kept, NoCommand, Listed
<1>8. CASE DaemonStarts
  <2>1. /\ UNCHANGED <<timers, state, radio, mode, early, displaced, new, cmd>>
        /\ evq' = <<>>
    BY <1>8 DEF DaemonStarts, dtm, ncp, past
  <2>2. uart' # <<>>
    BY <1>8 DEF DaemonStarts, Types, WiresOK
  <2>3. NoBoot'
    BY <2>1 DEF NoBoot
  <2> QED  BY <2>1, <2>2, <2>3
              DEF AttendedInv, TestAttended, Kept, timers, Listed
<1>9. CASE Set
  <2>1. /\ cmd' = "OTHER" /\ new' = NoCommand /\ new.op = "SET"
        /\ UNCHANGED <<timers, state, radio, mode, early, evq, alive, hung>>
        /\ displaced' = (displaced \/ (cmd = "DTM" /\ new.op \in SingleShot))
    BY <1>9 DEF Set, Displaces, dtm, ncp
  <2>2. uart' # <<>>
    BY <1>9, ResetOnWay DEF Set
  <2>3. displaced => displaced'
    BY <2>1, Zenon
  <2>4. cmd = "DTM" => displaced'
    BY <2>1 DEF SingleShot
  <2> QED  BY <1>0, <2>1, <2>2, <2>3, <2>4
              DEF AttendedInv, TestAttended, Kept, timers, NoCommand, Listed
<1> QED  BY <1>1, <1>2, <1>3, <1>4, <1>5, <1>6, <1>7, <1>8, <1>9

\* The steps of the NCP: it runs no test when it goes down.
LEMMA AttendedNcp ==
  ASSUME Types, AttendedInv,
         NcpReset \/ NcpCrash \/ NcpBoot \/ NcpTick \/ NcpCompletes
  PROVE  AttendedInv'
<1>1. ASSUME NEW t, GoesDown(t) PROVE AttendedInv'
  BY <1>1 DEF GoesDown, AttendedInv, TestAttended, Kept, dtm, host, past, Listed
<1>2. CASE NcpReset \/ NcpCrash
  BY <1>1, <1>2 DEF NcpReset, NcpCrash
<1>3. CASE NcpBoot
  <2>1. /\ mode = "down"
        /\ UNCHANGED <<timers, state, radio, early, displaced, host, uart>>
    BY <1>3 DEF NcpBoot, dtm, past
  <2>2. radio = "none"
    BY <2>1 DEF AttendedInv, Kept
  <2> QED  BY <2>1, <2>2
              DEF AttendedInv, TestAttended, Kept, timers, host, Listed
<1>4. CASE NcpTick \/ NcpCompletes
  <2>1. UNCHANGED <<timers, state, radio, mode, early, displaced, host, uart>>
    BY <1>4 DEF NcpTick, NcpCompletes, dtm, ncp, past
  <2>2. \E e \in Event \ {Boot} : evq' = Append(evq, e)
    <3>1. Tick \in Event \ {Boot}
      BY EventTypes DEF Tick, Boot
    <3>2. owed # <<>> => Completed(Head(owed)) \in Event \ {Boot}
      BY EventTypes DEF Types, NcpOK, Completed, Boot
    <3> QED  BY <1>4, <3>1, <3>2 DEF NcpTick, NcpCompletes
  <2>3. NoBoot => NoBoot'
    BY <2>2, BootsMove
  <2> QED  BY <2>1, <2>3, AttendedFrame DEF host
<1> QED  BY <1>2, <1>3, <1>4

\* No step leaves a test unattended.
LEMMA AttendedKept ==
  ASSUME Types, AttendedInv, [Next]_vars
  PROVE  AttendedInv'
<1>1. Types'
  BY NextTypes
<1>2. CASE Next
  BY <1>1, <1>2, AttendedDtm, AttendedUpgrade, AttendedHost, AttendedNcp
     DEF Next, HandlesEvent, Uploads, RunsCommand
<1>3. CASE UNCHANGED vars
  <2>1. NoBoot => NoBoot'
    BY <1>3, Zenon DEF vars, NoBoot
  <2> QED  BY <1>3, <2>1, AttendedFrame DEF vars, dtm, host, ncp, past
<1> QED  BY <1>2, <1>3

\* A test that runs at the NCP has the running command DTM and its timer, or a
\* reset is on its way (dtm.c:146-196), whatever the tests, the commands and
\* the reboots of the NCP, unless a single-shot command took the place of DTM,
\* a boot event came early, or the daemon died or hangs.
THEOREM TestsAttended == Spec => []TestAttended
<1>1. Init => AttendedInv
  <2> SUFFICES ASSUME Init PROVE AttendedInv
    OBVIOUS
  <2>1. /\ radio = "none" /\ state = "NONE" /\ new = NoCommand
        /\ listed = [t \in Timer |-> 0] /\ "dtm" \in Timer
    BY TimersAssumption DEF Init, HwTimerInit
  <2>2. listed["dtm"] = 0
    BY <2>1
  <2> QED  BY <2>1, <2>2 DEF AttendedInv, TestAttended, Kept, Listed, NoCommand
<1>2. Types /\ AttendedInv /\ [Next]_vars => AttendedInv'
  BY AttendedKept
<1>3. AttendedInv => TestAttended
  BY DEF AttendedInv
<1> QED  BY <1>1, <1>2, <1>3, TypesHold, PTL DEF Spec

-----------------------------------------------------------------------------
(* A report is that of its own test *)

\* Of the events on their way none is a completion, or a tick; no tick and no
\* completion follows a boot; the completions are of r; there are not two of
\* them; a tick is alone and after the completions.
NoneDone == \A i \in DOMAIN evq : evq[i].kind # "completed"
NoTick == \A i \in DOMAIN evq : evq[i] # Tick
BootsLast == \A i, j \in DOMAIN evq :
  evq[i] = Boot /\ i < j => evq[j] # Tick /\ evq[j].kind # "completed"
Solely(r) == \A i \in DOMAIN evq : evq[i].kind = "completed" => evq[i] = Completed(r)
OneDone == \A i, j \in DOMAIN evq :
  evq[i].kind = "completed" /\ evq[j].kind = "completed" => i = j
TicksLast == \A i, j \in DOMAIN evq :
  evq[i] = Tick /\ (evq[j] = Tick \/ evq[j].kind = "completed") => j <= i

\* The NCP neither runs a test nor its timer, nor has it anything to report.
Silent == ~armed["dtm"] /\ owed = <<>> /\ radio = "none"

\* Nothing is to be reported, or nothing but r, once.
Nothing == owed = <<>> /\ NoneDone
Single(r) == /\ owed = <<>> \/ (owed = <<r>> /\ NoneDone)
             /\ Solely(r) /\ OneDone
\* The start of a test is to be reported before its timer expires.
Awaits(r) == Single(r) /\ (Nothing => Silent /\ NoTick)

\* The states of DTM after the gate has opened.
InTurn ==
  /\ state = "TX_START" =>
       txOn /\ delay >= 1 /\ radio # "rx" /\ Awaits(Done("tx", "start"))
  /\ state = "TX_END" /\ txOn => delay >= 1 /\ radio # "rx" /\ Nothing
  /\ state = "TX_END" /\ ~txOn =>
       delay <= 0 /\ radio = "none" /\ Single(Done("tx", "end"))
  /\ state = "RX_START" =>
       /\ ~txOn /\ (rxOn => delay >= 1)
       /\ radio # "tx" /\ Awaits(Done("rx", "start"))
  /\ state = "RX_END" /\ rxOn => ~txOn /\ delay >= 1 /\ radio # "tx" /\ Nothing
  /\ state = "RX_END" /\ ~rxOn => ~txOn /\ Single(Done("rx", "end"))
  /\ state = "NONE" /\ Listed("dtm") => ~txOn /\ ~rxOn

\* What of it holds behind the closed gate, where the cleanup of SET leaves the
\* state of a test it has displaced.
Static ==
  /\ state = "TX_START" => txOn /\ delay >= 1
  /\ state = "TX_END" => IF txOn THEN delay >= 1 ELSE delay <= 0
  /\ state \in {"RX_START", "RX_END"} => ~txOn /\ (rxOn => delay >= 1)

\* The gate is closed as long as a test has not begun; only what was asked for
\* is switched on; a reboot silences the NCP; ticks come after completions.
Gate == booted => state # "INIT" /\ alive
Settings == new.op # "DTM" => /\ txOn => test.tx # Off
                              /\ rxOn => test.rx # Off
                              /\ state = "INIT" /\ test.tx # Off => txOn
Fresh == /\ mode = "down" => Silent
         /\ early \/ (BootsLast /\ (NoBoot \/ Silent))
Behind == late \/ early \/ ((owed = <<>> \/ NoTick) /\ TicksLast)
Turns == booted /\ ~late /\ ~early /\ ~Short /\ new.op # "DTM" => InTurn
Stale ==
  ~booted /\ ~late /\ ~early /\ ~Short /\ new.op # "DTM" /\ state # "INIT" => Static
TurnsInv == Gate /\ Settings /\ Fresh /\ Behind /\ Turns /\ Stale

LEMMA TurnsStatic ==
  ASSUME InTurn
  PROVE  Static
BY DEF InTurn, Static

\* Events on their way after one has been taken or dropped.
LEMMA QueueTaken ==
  ASSUME Types, evq # <<>>, evq' = Tail(evq)
  PROVE  /\ NoneDone => NoneDone' /\ Head(evq).kind # "completed"
         /\ NoTick => NoTick' /\ Head(evq) # Tick
         /\ NoBoot => NoBoot' /\ Head(evq) # Boot
         /\ BootsLast => BootsLast'
         /\ BootsLast /\ Head(evq) = Boot => NoneDone /\ NoTick
         /\ OneDone => OneDone'
         /\ OneDone /\ Head(evq).kind = "completed" => NoneDone'
         /\ TicksLast => TicksLast'
         /\ TicksLast /\ Head(evq) = Tick => NoneDone /\ NoTick'
         /\ Head(evq).kind # "completed" /\ NoneDone' => NoneDone
<1>1. /\ \A i \in DOMAIN evq' : i + 1 \in DOMAIN evq /\ evq'[i] = evq[i + 1]
      /\ \A i \in DOMAIN evq : i # 1 => i - 1 \in DOMAIN evq'
      /\ DOMAIN evq \subseteq Nat /\ DOMAIN evq' \subseteq Nat
      /\ 1 \in DOMAIN evq /\ Head(evq) = evq[1]
      /\ \A i \in DOMAIN evq' : 1 < i + 1
      /\ \A i \in DOMAIN evq : 1 <= i
  BY TailElems DEF Types, WiresOK
<1> USE <1>1
<1>2. /\ NoneDone => NoneDone' /\ Head(evq).kind # "completed"
      /\ NoTick => NoTick' /\ Head(evq) # Tick
      /\ NoBoot => NoBoot' /\ Head(evq) # Boot
  BY DEF NoneDone, NoTick, NoBoot
<1>3. BootsLast => BootsLast'
  BY DEF BootsLast
<1>4. BootsLast /\ Head(evq) = Boot => NoneDone /\ NoTick
  <2>1. Boot # Tick /\ Boot.kind # "completed"
    BY DEF Boot, Tick
  <2> QED  BY <2>1 DEF BootsLast, NoneDone, NoTick
<1>5. OneDone => OneDone'
  BY DEF OneDone
<1>6. OneDone /\ Head(evq).kind = "completed" => NoneDone'
  BY DEF OneDone, NoneDone
<1>7. TicksLast => TicksLast'
  BY DEF TicksLast
<1>8. TicksLast /\ Head(evq) = Tick => NoneDone /\ NoTick'
  <2>1. Tick.kind # "completed"
    BY DEF Tick
  <2> QED  BY <2>1 DEF TicksLast, NoneDone, NoTick
<1>9. Head(evq).kind # "completed" /\ NoneDone' => NoneDone
  BY DEF NoneDone
<1> QED  BY <1>2, <1>3, <1>4, <1>5, <1>6, <1>7, <1>8, <1>9

\* And after another has been added.
LEMMA QueueGrows ==
  ASSUME Types, NEW e \in Event, evq' = Append(evq, e)
  PROVE  /\ NoneDone /\ e.kind # "completed" => NoneDone'
         /\ NoTick /\ e # Tick => NoTick'
         /\ NoBoot /\ e # Boot => NoBoot'
         /\ BootsLast /\ (NoBoot \/ (e # Tick /\ e.kind # "completed")) => BootsLast'
         /\ OneDone /\ (NoneDone \/ e.kind # "completed") => OneDone'
         /\ TicksLast /\ (NoTick \/ (e # Tick /\ e.kind # "completed")) => TicksLast'
         /\ NoneDone' => NoneDone
         /\ NoTick' => NoTick
<1>1. /\ \A i \in DOMAIN evq : i \in DOMAIN evq' /\ evq'[i] = evq[i]
      /\ Len(evq) + 1 \in DOMAIN evq' /\ evq'[Len(evq) + 1] = e
      /\ \A i \in DOMAIN evq' : i \in DOMAIN evq \/ i = Len(evq) + 1
      /\ \A i \in DOMAIN evq : i \in Nat /\ i < Len(evq) + 1
      /\ DOMAIN evq' \subseteq Nat /\ Len(evq) \in Nat
  BY AppendElems DEF Types, WiresOK
<1> USE <1>1
<1>2. /\ NoneDone /\ e.kind # "completed" => NoneDone'
      /\ NoTick /\ e # Tick => NoTick'
      /\ NoBoot /\ e # Boot => NoBoot'
      /\ NoneDone' => NoneDone
      /\ NoTick' => NoTick
  BY DEF NoneDone, NoTick, NoBoot
<1>3. BootsLast /\ (NoBoot \/ (e # Tick /\ e.kind # "completed")) => BootsLast'
  BY DEF BootsLast, NoBoot
<1>4. OneDone /\ (NoneDone \/ e.kind # "completed") => OneDone'
  BY DEF OneDone, NoneDone
<1>5. TicksLast /\ (NoTick \/ (e # Tick /\ e.kind # "completed")) => TicksLast'
  BY DEF TicksLast, NoTick
<1> QED  BY <1>2, <1>3, <1>4, <1>5

\* What is to be reported, after an event has been taken or dropped.
LEMMA SolelyTaken ==
  ASSUME Types, NEW r, Solely(r), evq # <<>>, evq' = Tail(evq)
  PROVE  /\ Solely(r)'
         /\ Head(evq).kind = "completed" => Head(evq) = Completed(r)
<1>1. /\ \A i \in DOMAIN evq' : i + 1 \in DOMAIN evq /\ evq'[i] = evq[i + 1]
      /\ 1 \in DOMAIN evq /\ Head(evq) = evq[1]
  BY TailElems DEF Types, WiresOK
<1> QED  BY <1>1 DEF Solely

\* And after another has been added.
LEMMA SolelyGrows ==
  ASSUME Types, NEW r, NEW e \in Event, evq' = Append(evq, e), Solely(r),
         e.kind # "completed" \/ e = Completed(r)
  PROVE  Solely(r)'
<1>1. /\ \A i \in DOMAIN evq : i \in DOMAIN evq' /\ evq'[i] = evq[i]
      /\ evq'[Len(evq) + 1] = e
      /\ \A i \in DOMAIN evq' : i \in DOMAIN evq \/ i = Len(evq) + 1
  BY AppendElems DEF Types, WiresOK
<1> QED  BY <1>1 DEF Solely

\* Where there is no completion, whatever is reported is reported once.
LEMMA NoneIsOne ==
  ASSUME NoneDone
  PROVE  OneDone /\ \A r : Solely(r)
BY DEF NoneDone, OneDone, Solely

\* The kinds of the events.
LEMMA Kinds ==
  /\ Tick.kind # "completed" /\ Boot.kind # "completed"
  /\ DfuBoot.kind # "completed" /\ DfuFailure.kind # "completed"
  /\ DfuBoot # Tick /\ DfuFailure # Tick /\ Boot # Tick
  /\ DfuBoot # Boot /\ DfuFailure # Boot /\ Tick # Boot
  /\ \A r : /\ Completed(r).kind = "completed" /\ Completed(r).radio = r
            /\ Completed(r) # Tick /\ Completed(r) # Boot
BY DEF Tick, Boot, DfuBoot, DfuFailure, Completed

\* A step of the queue that reports nothing.
Quiet == \/ evq' = evq
         \/ evq # <<>> /\ evq' = Tail(evq) /\ Head(evq).kind # "completed"

\* It leaves alone what the queue holds.
LEMMA QuietKeeps ==
  ASSUME Types, Quiet
  PROVE  /\ NoneDone <=> NoneDone'
         /\ NoTick => NoTick'
         /\ NoBoot => NoBoot'
         /\ BootsLast => BootsLast'
         /\ OneDone => OneDone'
         /\ TicksLast => TicksLast'
         /\ \A r : Solely(r) => Solely(r)'
<1>1. CASE evq' = evq
  BY <1>1, Zenon DEF NoneDone, NoTick, NoBoot, BootsLast, OneDone, TicksLast, Solely
<1>2. CASE evq # <<>> /\ evq' = Tail(evq) /\ Head(evq).kind # "completed"
  <2>1. /\ NoneDone <=> NoneDone'
        /\ NoTick => NoTick'
        /\ NoBoot => NoBoot'
        /\ BootsLast => BootsLast'
        /\ OneDone => OneDone'
        /\ TicksLast => TicksLast'
    BY <1>2, QueueTaken
  <2>2. \A r : Solely(r) => Solely(r)'
    BY <1>2, SolelyTaken
  <2> QED  BY <2>1, <2>2
<1> QED  BY <1>1, <1>2 DEF Quiet

\* With what the NCP is still to report.
LEMMA QuietSingle ==
  ASSUME Types, Quiet, owed' = owed
  PROVE  /\ Nothing <=> Nothing'
         /\ \A r : Single(r) => Single(r)'
         /\ UNCHANGED <<armed, radio>> => \A r : Awaits(r) => Awaits(r)'
<1>1. /\ NoneDone <=> NoneDone'
      /\ NoTick => NoTick'
      /\ OneDone => OneDone'
      /\ \A r : Solely(r) => Solely(r)'
  BY QuietKeeps
<1>2. Nothing <=> Nothing'
  BY <1>1 DEF Nothing
<1>3. \A r : Single(r) => Single(r)'
  BY <1>1 DEF Single
<1>4. ASSUME UNCHANGED <<armed, radio>>, NEW r, Awaits(r) PROVE Awaits(r)'
  BY <1>1, <1>2, <1>3, <1>4 DEF Awaits, Silent
<1> QED  BY <1>2, <1>3, <1>4

\* Steps that leave DTM, its timer and its test alone and report nothing.
LEMMA TurnsFrame ==
  ASSUME Types, TurnsInv, Quiet,
         UNCHANGED <<timers, state, txOn, rxOn, delay, radio, owed, mode, late,
                     early, booted, alive>>,
         new'.op = "DTM" \/ (new.op # "DTM" /\ UNCHANGED test)
  PROVE  TurnsInv'
<1>1. /\ NoTick => NoTick'
      /\ NoBoot => NoBoot'
      /\ BootsLast => BootsLast'
      /\ TicksLast => TicksLast'
  BY QuietKeeps
<1>2. /\ Nothing <=> Nothing'
      /\ \A r : Single(r) => Single(r)'
      /\ \A r : Awaits(r) => Awaits(r)'
  BY QuietSingle DEF timers
<1>3. Gate' /\ Settings'
  BY DEF TurnsInv, Gate, Settings
<1>4. Silent => Silent'
  BY DEF Silent, timers
<1>5. Fresh' /\ Behind'
  <2>1. Fresh'
    BY <1>1, <1>4 DEF TurnsInv, Fresh
  <2>2. Behind'
    BY <1>1 DEF TurnsInv, Behind
  <2> QED  BY <2>1, <2>2
<1>6. InTurn => InTurn'
  BY <1>2 DEF InTurn, Listed, timers
<1>7. Turns'
  <2>1. UNCHANGED test => (Short <=> Short')
    BY Zenon DEF Short
  <2> QED  BY <1>6, <2>1 DEF TurnsInv, Turns
<1>8. Stale'
  <2>1. UNCHANGED test => (Short <=> Short')
    BY Zenon DEF Short
  <2>2. Static => Static'
    BY DEF Static
  <2> QED  BY <2>1, <2>2 DEF TurnsInv, Stale
<1> QED  BY <1>3, <1>5, <1>7, <1>8 DEF TurnsInv

\* The queue and the NCP when no test begins: the radio, if anything, is
\* switched off, which is reported.
LEMMA NcpFrame ==
  ASSUME Types, TurnsInv, late' = late, early' = early, armed' = armed,
         evq' = evq \/ (evq # <<>> /\ evq' = Tail(evq)),
         \/ UNCHANGED <<mode, radio, owed>>
         \/ mode' = "app" /\ UNCHANGED <<radio, owed>>
         \/ /\ mode' = "app" /\ radio' = "none"
            /\ radio # "none" /\ Head(evq) = Tick /\ evq' = Tail(evq) /\ evq # <<>>
  PROVE  Fresh' /\ Behind'
<1>1. CASE evq' = evq
  <2>1. (NoTick <=> NoTick') /\ (NoBoot <=> NoBoot') /\ (BootsLast <=> BootsLast')
        /\ (TicksLast <=> TicksLast')
    BY <1>1, Zenon DEF NoTick, NoBoot, BootsLast, TicksLast
  <2>2. CASE UNCHANGED <<mode, radio, owed>>
    BY <2>1, <2>2 DEF TurnsInv, Fresh, Behind, Silent
  <2>3. CASE mode' = "app" /\ UNCHANGED <<radio, owed>>
    BY <2>1, <2>3 DEF TurnsInv, Fresh, Behind, Silent
  <2>4. CASE evq # <<>> /\ evq' = Tail(evq)
    <3>1. FALSE
      BY <1>1, <2>4 DEF Types, WiresOK
    <3> QED  BY <3>1
  <2> QED  BY <2>2, <2>3, <2>4
<1>2. CASE evq # <<>> /\ evq' = Tail(evq)
  <2>1. /\ NoTick => NoTick'
        /\ NoBoot => NoBoot'
        /\ BootsLast => BootsLast'
        /\ TicksLast => TicksLast'
        /\ TicksLast /\ Head(evq) = Tick => NoTick'
    BY <1>2, QueueTaken
  <2>2. Fresh'
    BY <2>1 DEF TurnsInv, Fresh, Silent
  <2>3. Behind'
    BY <2>1 DEF TurnsInv, Behind
  <2> QED  BY <2>2, <2>3
<1> QED  BY <1>1, <1>2

\* A test that begins where neither a tick nor a boot is still to come, or the
\* boot is known to have come early.
LEMMA StartsFrame ==
  ASSUME Types, TurnsInv, NEW k \in {"tx", "rx"}, Starts(k), late' = late,
         evq # <<>>, evq' = Tail(evq),
         Head(evq) = Tick \/ Head(evq) = Boot,
         mode' = "app"
  PROVE  Fresh' /\ Behind'
<1>1. early' \/ NoBoot'
  BY Zenon DEF Starts, NoBoot
<1>2. early => early'
  BY Zenon DEF Starts
<1>3. /\ BootsLast => BootsLast'
      /\ TicksLast => TicksLast'
      /\ TicksLast /\ Head(evq) = Tick => NoTick'
      /\ BootsLast /\ Head(evq) = Boot => NoTick
      /\ NoTick => NoTick'
      /\ NoBoot => Head(evq) # Boot
  BY QueueTaken
<1>4. Fresh'
  BY <1>1, <1>2, <1>3 DEF TurnsInv, Fresh
<1>5. Behind'
  BY <1>2, <1>3 DEF TurnsInv, Fresh, Behind
<1> QED  BY <1>4, <1>5

\* Behind the closed gate nothing moves a test.
LEMMA StaleFrame ==
  ASSUME TurnsInv, UNCHANGED <<state, txOn, rxOn, delay, booted, test, new>>,
         late => late', early => early'
  PROVE  Stale'
<1>1. Short <=> Short'
  BY Zenon DEF Short
<1>2. Static => Static'
  BY DEF Static
<1> QED  BY <1>1, <1>2 DEF TurnsInv, Stale

\* Once the gate is closed nobody takes turns.
LEMMA GateCloses ==
  ASSUME ~booted', Gate', Settings', Fresh', Behind', Stale'
  PROVE  TurnsInv'
BY DEF TurnsInv, Turns

\* The steps of InTurn are those of a test that takes its turns before.
LEMMA TurnsBefore ==
  ASSUME Types, TurnsInv, booted, UNCHANGED test, late' = late, early => early',
         new = NoCommand, ~late', ~early', ~Short'
  PROVE  InTurn /\ ~late /\ ~early /\ ~Short
<1>1. Short <=> Short'
  BY Zenon DEF Short
<1>2. new.op # "DTM"
  BY DEF NoCommand
<1> QED  BY <1>1, <1>2 DEF TurnsInv, Turns

\* A test that is asked for and not shorter than a second lasts one at least.
LEMMA LastsOne ==
  ASSUME Types, ~Short, NEW k \in {"tx", "rx"}, test[k] # Off, Starts(k)
  PROVE  delay' >= 1
<1>1. test[k] \in Nat \cup {Off} /\ test[k] # 0
  BY TestTypes DEF Types, Short
<1> QED  BY <1>1 DEF Starts

\* What the start of a test gives where nothing was to be reported.
LEMMA StartsAwaits ==
  ASSUME Types, NEW k \in {"tx", "rx"}, Starts(k), Nothing, radio = "none",
         NoneDone'
  PROVE  Awaits(Done(k, "start"))' /\ radio' = k
<1>1. owed' = <<Done(k, "start")>> /\ radio' = k
  BY DEF Starts, Nothing
<1>2. owed' # <<>>
  BY <1>1
<1>3. OneDone' /\ Solely(Done(k, "start"))'
  BY DEF NoneDone, OneDone, Solely
<1> QED  BY <1>1, <1>2, <1>3 DEF Awaits, Single, Nothing

\* The boot event.
LEMMA TurnsBoot ==
  ASSUME Types, TurnsInv, HandleBoot
  PROVE  TurnsInv'
<1>1. /\ evq # <<>> /\ evq' = Tail(evq) /\ Head(evq) = Boot
      /\ new = NoCommand /\ new' = new /\ alive /\ alive' = alive
      /\ mode = "app" /\ mode' = mode /\ booted' = TRUE
      /\ UNCHANGED <<txOn, rxOn, test, late>>
  BY DEF HandleBoot, Takes, AtLoop, Running, Answered
<1>2. /\ NoneDone => NoneDone'
      /\ NoTick => NoTick'
      /\ BootsLast => NoneDone /\ NoTick
      /\ ~NoBoot
  BY <1>1, QueueTaken
<1>3. new.op # "DTM"
  BY <1>1 DEF NoCommand
<1>4. ~early => /\ ~armed["dtm"] /\ owed = <<>> /\ radio = "none"
                /\ NoneDone /\ NoTick
  BY <1>2 DEF TurnsInv, Fresh, Silent
<1>5. Short <=> Short'
  BY <1>1, Zenon DEF Short
<1>6. CASE Begins
  <2>1. PICK k \in {"tx", "rx"} : k = First
    BY DEF First
  <2>2. Starts(k) /\ state = "INIT"
    BY <1>6, <2>1 DEF HandleBoot, Begins
  <2>3. state' # "INIT" /\ (early => early')
    BY <2>2, Zenon DEF Starts
  <2>4. Gate' /\ Settings'
    BY <1>1, <2>3 DEF TurnsInv, Gate, Settings
  <2>5. Fresh' /\ Behind'
    BY <1>1, <2>2, StartsFrame
  <2>6. ASSUME ~early', ~Short' PROVE InTurn'
    <3>0. ~early /\ ~Short
      BY <1>5, <2>3, <2>6, Zenon
    <3>1. owed = <<>> /\ radio = "none" /\ NoneDone /\ NoneDone'
      BY <1>2, <1>4, <3>0
    <3>2. Awaits(Done(k, "start"))' /\ radio' = k
      BY <2>2, <3>1, StartsAwaits DEF Nothing
    <3>3. CASE k = "tx"
      <4>1. test.tx # Off /\ test["tx"] # Off
        BY <2>1, <3>3 DEF First
      <4>2. txOn'
        BY <1>1, <1>3, <2>2, <4>1 DEF TurnsInv, Settings
      <4>3. delay' >= 1
        BY <2>2, <3>0, <3>3, <4>1, LastsOne
      <4>4. state' = "TX_START"
        BY <2>2, <3>3 DEF Starts
      <4>5. Awaits(Done("tx", "start"))' /\ radio' = "tx"
        BY <3>2, <3>3
      <4> QED  BY <4>2, <4>3, <4>4, <4>5 DEF InTurn
    <3>4. CASE k = "rx"
      <4>1. test.tx = Off
        BY <2>1, <3>4 DEF First
      <4>2. ~txOn' /\ (rxOn' => test["rx"] # Off)
        BY <1>1, <1>3, <4>1 DEF TurnsInv, Settings
      <4>3. rxOn' => delay' >= 1
        BY <2>2, <3>0, <3>4, <4>2, LastsOne
      <4>4. state' = "RX_START"
        BY <2>2, <3>4 DEF Starts
      <4>5. Awaits(Done("rx", "start"))' /\ radio' = "rx"
        BY <3>2, <3>4
      <4> QED  BY <4>2, <4>3, <4>4, <4>5 DEF InTurn
    <3> QED  BY <3>3, <3>4
  <2> QED  BY <1>1, <2>4, <2>5, <2>6 DEF TurnsInv, Turns, Stale
<1>7. CASE ~Begins
  <2>1. /\ UNCHANGED <<radio, owed, delay, state, early>> /\ state # "INIT"
        /\ hw_timer_list_clear
    BY <1>7 DEF HandleBoot, Begins
  <2>2. /\ ~Listed("dtm")'
        /\ ~armed["dtm"] => ~armed'["dtm"]
    <3>1. "dtm" \in Timer
      BY TimersAssumption
    <3>2. listed'["dtm"] = 0
      BY <2>1, <3>1 DEF hw_timer_list_clear
    <3>3. armed'["dtm"] = (armed["dtm"] /\ ~Listed("dtm"))
      BY <2>1, <3>1, Zenon DEF hw_timer_list_clear
    <3>4. ~armed["dtm"] => ~armed'["dtm"]
      BY <3>3, Zenon
    <3> QED  BY <3>2, <3>4 DEF Listed
  <2>3. Gate' /\ Settings'
    BY <1>1, <2>1 DEF TurnsInv, Gate, Settings
  <2>4. Fresh' /\ Behind'
    <3>1. /\ NoTick => NoTick'
          /\ BootsLast => BootsLast'
          /\ TicksLast => TicksLast'
      BY <1>1, QueueTaken
    <3>2. Silent => Silent'
      BY <2>1, <2>2 DEF Silent
    <3>3. Fresh'
      BY <1>1, <1>4, <2>1, <3>1, <3>2 DEF TurnsInv, Fresh, Silent
    <3>4. Behind'
      BY <1>1, <2>1, <3>1 DEF TurnsInv, Behind
    <3> QED  BY <3>3, <3>4
  <2>5. ASSUME ~late', ~early', ~Short' PROVE InTurn'
    <3>0. ~early
      BY <2>1, <2>5
    <3>1. NoneDone' /\ NoTick'
      BY <1>2, <1>4, <3>0
    <3>2. owed' = <<>> /\ radio' = "none" /\ Silent'
      BY <1>4, <2>1, <2>2, <3>0 DEF Silent
    <3>3. Nothing' /\ \A r : Single(r)' /\ Awaits(r)'
      <4>1. OneDone' /\ \A r : Solely(r)'
        BY <3>1 DEF NoneDone, OneDone, Solely
      <4> QED  BY <3>1, <3>2, <4>1 DEF Nothing, Single, Awaits
    <3>4. CASE booted
      <4>1. InTurn
        BY <1>1, <2>1, <2>5, <3>0, <3>4, TurnsBefore
      <4> QED  BY <1>1, <2>1, <2>2, <3>2, <3>3, <4>1 DEF InTurn
    <3>5. CASE ~booted
      <4>1. Static
        BY <1>1, <1>3, <1>5, <2>1, <2>5, <3>0, <3>5 DEF TurnsInv, Stale
      <4> QED  BY <1>1, <2>1, <2>2, <3>2, <3>3, <4>1 DEF InTurn, Static
    <3> QED  BY <3>4, <3>5
  <2> QED  BY <1>1, <2>3, <2>4, <2>5 DEF TurnsInv, Turns, Stale
<1> QED  BY <1>6, <1>7

\* The end of a handler of DTM that cleans up, or does not.
LEMMA EndsEither ==
  ASSUME NEW ret, NEW s, DtmEnds(ret, s)
  PROVE  \/ ~booted' /\ state' = "NONE" /\ armed' = armed
         \/ state' = s /\ UNCHANGED <<timers, booted>>
BY DEF DtmEnds, dtm_cleanup, SystemReset, hw_timer_del

\* A tick.
LEMMA TurnsTick ==
  ASSUME Types, TurnsInv, HandleTick
  PROVE  TurnsInv'
<1>1. /\ evq # <<>> /\ evq' = Tail(evq) /\ Head(evq) = Tick /\ booted
      /\ new = NoCommand /\ new' = new /\ alive /\ alive' = alive
      /\ UNCHANGED <<mode, test, late>>
  BY DEF HandleTick, Takes, AtLoop, Running
<1>2. /\ NoneDone => NoneDone'
      /\ TicksLast => NoneDone /\ NoTick'
      /\ ~NoTick
  BY <1>1, QueueTaken
<1>3. new.op # "DTM" /\ new'.op # "DTM"
  BY <1>1 DEF NoCommand
<1>4. ~late /\ ~early => owed = <<>> /\ NoneDone /\ NoneDone' /\ NoTick'
  BY <1>2 DEF TurnsInv, Behind
<1>5. Quiet
  BY <1>1, Kinds DEF Quiet
<1>6. delay \in Int /\ state # "INIT"
  BY <1>1 DEF Types, DtmOK, TurnsInv, Gate
\* No test is at its start: there the tick would have to wait.
<1>7. ASSUME ~late, ~early, InTurn
      PROVE  state # "TX_START" /\ state # "RX_START"
  <2>1. Nothing
    BY <1>4, <1>7 DEF Nothing
  <2> QED  BY <1>2, <1>7, <2>1 DEF InTurn, Awaits
\* What is left to prove when no test begins.
<1>8. ASSUME NEW ret, NEW s, DtmEnds(ret, s), s # "INIT", UNCHANGED early,
             txOn' => txOn, rxOn' => rxOn,
             \/ UNCHANGED <<radio, owed>>
             \/ radio' = "none" /\ mode = "app" /\ radio # "none"
             \/ radio' = "none" /\ mode = "app" /\ UNCHANGED <<radio, owed>>,
             ~late /\ ~early /\ InTurn /\ state' = s /\ UNCHANGED timers => InTurn'
      PROVE  TurnsInv'
  <2>1. \/ ~booted' /\ state' = "NONE" /\ armed' = armed
        \/ state' = s /\ UNCHANGED <<timers, booted>>
    BY <1>8, EndsEither
  <2>2. Gate' /\ Settings'
    BY <1>1, <1>3, <1>6, <1>8, <2>1 DEF TurnsInv, Gate, Settings
  <2>3. armed' = armed
    BY <2>1 DEF timers
  <2>4. Fresh' /\ Behind'
    BY <1>1, <1>8, <2>3, NcpFrame
  <2>5. ASSUME booted', ~late', ~early', ~Short' PROVE InTurn'
    <3>1. InTurn /\ ~late /\ ~early
      BY <1>1, <1>8, <2>5, TurnsBefore
    <3> QED  BY <1>8, <2>1, <2>5, <3>1
  <2>6. Stale'
    BY <1>1, <2>1 DEF Stale, Static
  <2> QED  BY <2>2, <2>4, <2>5, <2>6 DEF TurnsInv, Turns
<1>9. CASE Listed("dtm") /\ Expires
  <2>1. CASE /\ ~txOn /\ ~rxOn
             /\ DtmEnds(TRUE, "NONE")
             /\ UNCHANGED <<txOn, rxOn, radio, owed, early>>
    <3>1. state' = "NONE" => InTurn'
      BY <2>1 DEF InTurn
    <3> QED  BY <1>8, <2>1, <3>1
  <2>2. CASE /\ txOn \/ rxOn
             /\ Left > 0
             /\ DtmEnds(FALSE, state)
             /\ delay' = Left
             /\ UNCHANGED <<txOn, rxOn, radio, owed, early>>
    <3>1. ASSUME ~late, ~early, InTurn, state' = state, UNCHANGED timers
          PROVE  InTurn'
      <4>1. delay > 1 /\ delay' >= 1
        BY <1>6, <2>2 DEF Left
      <4>2. \/ state = "TX_END" /\ txOn
            \/ state = "RX_END" /\ rxOn
            \/ state = "NONE" /\ FALSE
        BY <1>6, <1>7, <1>9, <2>2, <3>1, <4>1 DEF InTurn, Types, DtmOK
      <4>3. Nothing => Nothing'
        BY <1>5, <2>2, QuietSingle
      <4> QED  BY <2>2, <3>1, <4>1, <4>2, <4>3 DEF InTurn
    <3> QED  BY <1>6, <1>8, <2>2, <3>1
  <2>3. CASE /\ txOn \/ rxOn
             /\ Left = 0 /\ Answered("app")
             /\ DtmEnds(FALSE, IF Ending = "tx" THEN "TX_END" ELSE "RX_END")
             /\ txOn' = (txOn /\ Ending # "tx") /\ rxOn' = (rxOn /\ Ending # "rx")
             /\ radio' = "none"
             /\ owed' = IF radio = "none" THEN owed
                        ELSE Append(owed, Done(radio, "end"))
             /\ delay' = 0
             /\ UNCHANGED early
    <3> DEFINE s == IF Ending = "tx" THEN "TX_END" ELSE "RX_END"
    <3>1. (txOn' <=> txOn /\ Ending # "tx") /\ (rxOn' <=> rxOn /\ Ending # "rx")
      BY <2>3, Zenon
    <3>2. ASSUME ~late, ~early, InTurn, state' = s
          PROVE  InTurn'
      <4>1. delay = 1 /\ owed = <<>> /\ NoneDone'
        BY <1>4, <1>6, <2>3, <3>2 DEF Left
      <4>2. OneDone' /\ \A r : Solely(r)'
        BY <4>1 DEF NoneDone, OneDone, Solely
      <4>3. CASE state = "TX_END" /\ txOn
        <5>1. Ending = "tx" /\ ~txOn' /\ s = "TX_END"
          BY <3>1, <4>3 DEF Ending
        <5>2. radio = "tx" \/ radio = "none"
          BY <3>2, <4>3 DEF InTurn, Types, NcpOK
        <5>3. owed' = <<>> \/ owed' = <<Done("tx", "end")>>
          BY <2>3, <4>1, <5>2
        <5>4. Single(Done("tx", "end"))'
          BY <4>1, <4>2, <5>3 DEF Single
        <5> QED  BY <2>3, <3>2, <5>1, <5>4 DEF InTurn
      <4>4. CASE state = "RX_END" /\ rxOn
        <5>1. ~txOn
          BY <3>2, <4>4 DEF InTurn
        <5>2. Ending = "rx" /\ ~rxOn' /\ ~txOn' /\ s = "RX_END"
          BY <3>1, <4>4, <5>1 DEF Ending
        <5>3. radio = "rx" \/ radio = "none"
          BY <3>2, <4>4 DEF InTurn, Types, NcpOK
        <5>4. owed' = <<>> \/ owed' = <<Done("rx", "end")>>
          BY <2>3, <4>1, <5>3
        <5>5. Single(Done("rx", "end"))'
          BY <4>1, <4>2, <5>4 DEF Single
        <5> QED  BY <2>3, <3>2, <5>2, <5>5 DEF InTurn
      <4>5. \/ state = "TX_END" /\ txOn
            \/ state = "RX_END" /\ rxOn
        BY <1>6, <1>7, <1>9, <2>3, <3>2, <4>1 DEF InTurn, Types, DtmOK
      <4> QED  BY <4>3, <4>4, <4>5
    <3>3. s # "INIT"
      OBVIOUS
    <3>4. \/ UNCHANGED <<radio, owed>>
          \/ radio' = "none" /\ mode = "app" /\ radio # "none"
      BY <2>3 DEF Answered
    <3>5. DtmEnds(FALSE, s)
      BY <2>3
    <3> HIDE DEF s
    <3> QED  BY <1>8, <2>3, <3>1, <3>2, <3>3, <3>4, <3>5
  <2>4. CASE /\ rxOn
             /\ Left < 0 /\ Answered("app")
             /\ Starts("rx") /\ stop' = FALSE
             /\ UNCHANGED <<txOn, rxOn, uart, booted, cmd>>
    <3>1. state' = "RX_START" /\ (early => early')
      BY <2>4, Zenon DEF Starts
    <3>2. Gate' /\ Settings'
      BY <1>1, <1>3, <2>4, <3>1 DEF TurnsInv, Gate, Settings
    <3>3. Fresh' /\ Behind'
      BY <1>1, <2>4, StartsFrame DEF Answered
    <3>4. ASSUME ~late', ~early', ~Short' PROVE InTurn'
      <4>1. InTurn /\ ~late /\ ~early /\ ~Short
        BY <1>1, <3>1, <3>4, TurnsBefore
      <4>2. delay < 1
        BY <1>6, <2>4 DEF Left
      <4>3. ~txOn /\ radio = "none"
        BY <1>6, <1>7, <1>9, <2>4, <4>1, <4>2 DEF InTurn, Types, DtmOK
      <4>4. Awaits(Done("rx", "start"))' /\ radio' = "rx"
        BY <1>4, <2>4, <4>1, <4>3, StartsAwaits DEF Nothing
      <4>5. delay' >= 1
        <5>1. test["rx"] # Off
          BY <1>3, <2>4 DEF TurnsInv, Settings
        <5> QED  BY <2>4, <4>1, <5>1, LastsOne
      <4> QED  BY <2>4, <3>1, <4>3, <4>4, <4>5 DEF InTurn
    <3> QED  BY <1>1, <2>4, <3>2, <3>3, <3>4 DEF TurnsInv, Turns, Stale
  <2>5. CASE /\ txOn /\ ~rxOn
             /\ Left < 0
             /\ DtmEnds(TRUE, "NONE")
             /\ UNCHANGED <<txOn, rxOn, radio, owed, early>>
    <3>1. ASSUME ~late, ~early, InTurn PROVE FALSE
      <4>1. delay < 1
        BY <1>6, <2>5 DEF Left
      <4> QED  BY <1>6, <1>7, <1>9, <2>5, <3>1, <4>1 DEF InTurn, Types, DtmOK
    <3> QED  BY <1>8, <2>5, <3>1
  <2> QED  BY <1>9, <2>1, <2>2, <2>3, <2>4, <2>5 DEF Expires
<1>10. CASE /\ ~Listed("dtm") /\ DtmEnds(stop, state)
            /\ UNCHANGED <<txOn, rxOn, delay, radio, owed, early>>
  <2>1. ASSUME ~late, ~early, InTurn, state' = state, UNCHANGED timers
        PROVE  InTurn'
    <3>1. /\ Nothing => Nothing'
          /\ \A r : Single(r) => Single(r)'
      BY <1>5, <1>10, QuietSingle
    <3> QED  BY <1>7, <1>10, <2>1, <3>1 DEF InTurn, Listed, timers
  <2> QED  BY <1>6, <1>8, <1>10, <2>1
<1> QED  BY <1>9, <1>10 DEF HandleTick

\* A completion.
LEMMA TurnsCompleted ==
  ASSUME Types, TurnsInv, NEW r \in Radio, HandleCompleted(r)
  PROVE  TurnsInv'
<1>1. /\ evq # <<>> /\ evq' = Tail(evq) /\ Head(evq) = Completed(r) /\ booted
      /\ new = NoCommand /\ new' = new /\ alive /\ alive' = alive
      /\ DtmEnds(stop, NextState)
      /\ UNCHANGED <<txOn, rxOn, delay, test, mode, radio, owed, late, early>>
  BY DEF HandleCompleted, Takes, AtLoop, Running, ncp, past
<1>2. /\ OneDone => NoneDone'
      /\ ~NoneDone
      /\ NoTick => NoTick'
  BY <1>1, QueueTaken, Kinds
<1>3. new'.op # "DTM" /\ new.op # "DTM"
  BY <1>1 DEF NoCommand
<1>4. PICK s : s = NextState
  OBVIOUS
<1>5. \/ ~booted' /\ state' = "NONE" /\ armed' = armed
      \/ state' = s /\ UNCHANGED <<timers, booted>>
  BY <1>1, <1>4, EndsEither
<1>6. s # "INIT"
  BY <1>1, <1>4 DEF NextState, TurnsInv, Gate
<1>7. armed' = armed
  BY <1>5 DEF timers
<1>8. Gate' /\ Settings'
  BY <1>1, <1>3, <1>5, <1>6 DEF TurnsInv, Gate, Settings
<1>9. Fresh' /\ Behind'
  BY <1>1, <1>7, NcpFrame
<1>10. ASSUME booted', ~late', ~early', ~Short' PROVE InTurn'
  <2>1. InTurn
    BY <1>1, <1>10, TurnsBefore
  <2>2. state' = s /\ UNCHANGED timers
    BY <1>5, <1>10
  <2>3. ~Nothing
    BY <1>2 DEF Nothing
  <2>4. ASSUME NEW x, Single(x) PROVE Single(x)' /\ Nothing'
    <3>1. Solely(x)'
      BY <1>1, <2>4, SolelyTaken DEF Single
    <3>2. owed' = <<>> /\ NoneDone'
      BY <1>1, <1>2, <2>4 DEF Single
    <3> QED  BY <3>1, <3>2, NoneIsOne, <2>4 DEF Single, Nothing, NoneDone, OneDone
  <2>5. CASE state = "TX_START"
    <3>1. s = "TX_END"
      BY <1>4, <2>5 DEF NextState
    <3>2. Nothing'
      BY <2>1, <2>4, <2>5 DEF InTurn, Awaits
    <3> QED  BY <1>1, <2>1, <2>2, <2>5, <3>1, <3>2 DEF InTurn
  <2>6. CASE state = "RX_START"
    <3>1. s = "RX_END"
      BY <1>4, <2>6 DEF NextState
    <3>2. Nothing'
      BY <2>1, <2>4, <2>6 DEF InTurn, Awaits
    <3>3. Single(Done("rx", "end"))'
      BY <3>2 DEF Single, Nothing, NoneDone, OneDone, Solely
    <3> QED  BY <1>1, <2>1, <2>2, <2>6, <3>1, <3>2, <3>3 DEF InTurn
  <2>7. CASE state # "TX_START" /\ state # "RX_START"
    <3>1. s = state
      BY <1>4, <2>7 DEF NextState
    <3> QED  BY <1>1, <2>1, <2>2, <2>3, <2>4, <2>7, <3>1 DEF InTurn, Listed, timers
  <2> QED  BY <2>5, <2>6, <2>7
<1>11. Stale'
  BY <1>1, <1>5 DEF Stale, Static
<1> QED  BY <1>8, <1>9, <1>10, <1>11 DEF TurnsInv, Turns

\* The events and the packets of an upgrade.
LEMMA TurnsUpgrade ==
  ASSUME Types, TurnsInv,
         \/ UploadFails \/ UploadBegins \/ HandleDfuFailure
         \/ UploadPacket \/ UploadFinish
  PROVE  TurnsInv'
<1> DEFINE Calm == /\ UNCHANGED <<timers, dtm, radio, owed, mode, past, alive, test>>
                   /\ new' = new
<1>1. ASSUME Calm, Quiet, booted' = booted, new.op # "DTM" PROVE TurnsInv'
  BY <1>1, TurnsFrame DEF dtm, past
<1>2. CASE UploadFails \/ HandleDfuFailure \/ UploadBegins
  <2>1. Calm /\ booted' = booted
    BY <1>2 DEF UploadFails, HandleDfuFailure, UploadBegins, UpgradeEnds, DfuReset,
                ncp, host
  <2>2. Quiet /\ new.op # "DTM"
    BY <1>2, Kinds DEF UploadFails, HandleDfuFailure, UploadBegins, Takes, AtLoop,
                       Quiet, NoCommand
  <2> QED  BY <1>1, <2>1, <2>2
<1>3. CASE UploadPacket \/ UploadFinish
  <2>1. Calm
    BY <1>3, Zenon DEF UploadPacket, UploadFinish
  <2>2. booted' = booted
    BY <1>3, Zenon DEF UploadPacket, UploadFinish, UploadOver, UpgradeEnds, DfuReset
  <2>3. Quiet
    BY <1>3, Zenon DEF UploadPacket, UploadFinish, Quiet
  <2>4. CASE new.op # "DTM"
    BY <1>1, <2>1, <2>2, <2>3, <2>4
  <2>5. CASE new.op = "DTM"
    BY <2>1, <2>2, <2>3, <2>5, TurnsFrame DEF dtm, past
  <2> QED  BY <2>4, <2>5
<1> QED  BY <1>2, <1>3

\* Commands, dropped events, handlers that hang, and the end of the daemon.
LEMMA TurnsHost ==
  ASSUME Types, TurnsInv,
         \/ (\E c \in Command : Receive(c))
         \/ dtm_cmd_handler \/ upgrade_cmd_handler \/ Other \/ Set
         \/ Drop \/ Hang \/ DaemonDies \/ DaemonStarts
  PROVE  TurnsInv'
<1> DEFINE Same == UNCHANGED <<armed, evq, mode, radio, owed, late, early>>
<1>1. ASSUME Same PROVE Fresh' /\ Behind'
  BY <1>1, NcpFrame
<1>2. ASSUME Same, ~booted', Gate', Settings', Stale' PROVE TurnsInv'
  BY <1>1, <1>2, GateCloses
<1>3. ASSUME NEW c \in Command, Receive(c) PROVE TurnsInv'
  <2>1. /\ UNCHANGED <<txOn, rxOn, delay, evq, mode, radio, owed, late, early, alive>>
        /\ alive /\ new = NoCommand /\ new' = c
        /\ test' = IF c.op = "DTM" THEN c.test ELSE test
    BY <1>3 DEF Receive, AtLoop, Running, ncp, past
  <2>2. new.op # "DTM"
    BY <2>1 DEF NoCommand
  <2>3. CASE dtm_cleanup
    <3>1. ~booted' /\ state' = "NONE" /\ armed' = armed
      BY <2>3 DEF dtm_cleanup, SystemReset, hw_timer_del
    <3>2. Gate' /\ Settings'
      BY <2>1, <2>2, <3>1 DEF TurnsInv, Gate, Settings
    <3>3. Stale'
      BY <3>1 DEF Stale, Static
    <3> QED  BY <1>2, <2>1, <3>1, <3>2, <3>3
  <2>4. CASE UNCHANGED <<timers, state, stop, uart, booted>>
    BY <2>1, <2>2, <2>4, TurnsFrame DEF Quiet
  <2> QED  BY <1>3, <2>3, <2>4 DEF Receive
<1>4. CASE dtm_cmd_handler
  <2>1. /\ ~booted' /\ state' = "INIT" /\ UNCHANGED <<alive, test>> /\ Same
        /\ txOn' = (test.tx # Off) /\ rxOn' = (test.rx # Off)
    BY <1>4 DEF dtm_cmd_handler, SystemReset, timers, ncp
  <2>2. (txOn' <=> test.tx # Off) /\ (rxOn' <=> test.rx # Off)
    BY <2>1, Zenon
  <2>3. Gate' /\ Settings' /\ Stale'
    BY <2>1, <2>2 DEF Gate, Settings, Stale
  <2> QED  BY <1>2, <2>1, <2>3
<1>5. CASE upgrade_cmd_handler \/ Other
  <2>1. /\ UNCHANGED <<timers, dtm, mode, radio, owed, evq, test, late, early, booted, alive>>
        /\ new.op # "DTM"
    BY <1>5 DEF upgrade_cmd_handler, Other, Displaces, DfuReset, ncp, past
  <2> QED  BY <2>1, TurnsFrame DEF Quiet, dtm
<1>6. CASE Drop
  <2>1. /\ UNCHANGED <<timers, dtm, mode, radio, owed, late, early, booted, alive, test, new>>
        /\ ~booted /\ evq # <<>> /\ evq' = Tail(evq)
    BY <1>6 DEF Drop, host, ncp, past
  <2>2. Fresh' /\ Behind'
    BY <2>1, NcpFrame DEF timers
  <2>3. Gate' /\ Settings'
    BY <2>1 DEF TurnsInv, Gate, Settings, dtm
  <2>4. Stale'
    BY <2>1, StaleFrame DEF dtm
  <2> QED  BY <2>1, <2>2, <2>3, <2>4, GateCloses
<1>7. CASE Hang
  <2>1. UNCHANGED <<timers, dtm, mode, radio, owed, evq, test, new, late, early, booted, alive>>
    BY <1>7 DEF Hang, ncp, past
  <2> QED  BY <2>1, TurnsFrame DEF Quiet, dtm
<1>8. CASE DaemonDies
  <2>1. /\ ~booted' /\ state' = "NONE" /\ ~txOn' /\ ~rxOn' /\ Same
    BY <1>8 DEF DaemonDies, ncp
  <2>2. Gate' /\ Settings' /\ Stale'
    BY <2>1 DEF Gate, Settings, Stale, Static
  <2> QED  BY <1>2, <2>1, <2>2
<1>9. CASE DaemonStarts
  <2>1. /\ UNCHANGED <<timers, dtm, mode, radio, owed, late, early, booted, test, new>>
        /\ evq' = <<>> /\ ~alive /\ alive'
    BY <1>9 DEF DaemonStarts, ncp, past
  <2>2. ~booted
    BY <2>1 DEF TurnsInv, Gate
  <2>3. NoTick' /\ NoBoot' /\ BootsLast' /\ TicksLast'
    BY <2>1 DEF NoTick, NoBoot, BootsLast, TicksLast
  <2>4. Silent => Silent'
    BY <2>1 DEF Silent, timers
  <2>5. Fresh' /\ Behind'
    BY <2>1, <2>3, <2>4 DEF TurnsInv, Fresh, Behind
  <2>6. Gate' /\ Settings'
    BY <2>1, <2>2 DEF TurnsInv, Gate, Settings, dtm
  <2>7. Stale'
    BY <2>1, StaleFrame DEF dtm
  <2> QED  BY <2>1, <2>2, <2>5, <2>6, <2>7, GateCloses
<1>10. CASE Set
  <2>1. /\ UNCHANGED <<timers, dtm, mode, radio, owed, evq, test, late, early, alive>>
        /\ new.op # "DTM" /\ ~booted'
    BY <1>10 DEF Set, Displaces, SystemReset, ncp
  <2>2. Gate' /\ Settings'
    BY <2>1 DEF TurnsInv, Gate, Settings, dtm
  <2>3. Stale'
    <3>1. Short <=> Short'
      BY <2>1, Zenon DEF Short
    <3>2. Static => Static'
      BY <2>1 DEF Static, dtm
    <3>3. ASSUME ~late, ~early, ~Short, state # "INIT" PROVE Static
      BY <2>1, <3>3, TurnsStatic DEF TurnsInv, Turns, Stale
    <3> QED  BY <2>1, <3>1, <3>2, <3>3 DEF Stale, dtm
  <2> QED  BY <1>2, <2>1, <2>2, <2>3 DEF timers
<1> QED  BY <1>3, <1>4, <1>5, <1>6, <1>7, <1>8, <1>9, <1>10

\* The NCP goes down.
LEMMA TurnsDown ==
  ASSUME Types, TurnsInv, NEW t, GoesDown(t)
  PROVE  TurnsInv'
<1>1. /\ UNCHANGED <<listed, dtm, host, evq, late, early>>
      /\ mode' = "down" /\ radio' = "none" /\ owed' = <<>>
      /\ armed' = [x \in Timer |-> FALSE]
  BY DEF GoesDown, past
<1>2. Silent'
  <2>1. "dtm" \in Timer
    BY TimersAssumption
  <2>2. ~armed'["dtm"]
    BY <1>1, <2>1
  <2> QED  BY <1>1, <2>2 DEF Silent
<1>3. /\ NoTick <=> NoTick'
      /\ NoBoot <=> NoBoot'
      /\ BootsLast <=> BootsLast'
      /\ TicksLast <=> TicksLast'
      /\ OneDone <=> OneDone'
      /\ NoneDone <=> NoneDone'
      /\ \A r : Solely(r) <=> Solely(r)'
  BY <1>1, Zenon DEF NoTick, NoBoot, BootsLast, TicksLast, OneDone, NoneDone, Solely
<1>4. Gate' /\ Settings'
  BY <1>1 DEF TurnsInv, Gate, Settings, dtm, host
<1>5. Fresh' /\ Behind'
  BY <1>1, <1>2, <1>3 DEF TurnsInv, Fresh, Behind
<1>6. ASSUME booted', ~late', ~early', ~Short', new'.op # "DTM" PROVE InTurn'
  <2>1. Short <=> Short'
    BY <1>1, Zenon DEF Short, host
  <2>2. InTurn /\ ~late /\ ~early
    BY <1>1, <1>6, <2>1 DEF TurnsInv, Turns, host
  <2>3. owed = <<>> \/ NoTick
    BY <2>2 DEF TurnsInv, Behind
  <2>4. \A r : Single(r) => Single(r)'
    BY <1>1, <1>3 DEF Single
  <2>5. Nothing => Nothing'
    BY <1>1, <1>3 DEF Nothing
  <2>6. ASSUME NEW r, Awaits(r) PROVE Awaits(r)'
    <3>1. Nothing' => NoTick
      BY <1>3, <2>3, <2>6 DEF Awaits, Nothing
    <3> QED  BY <1>2, <1>3, <2>4, <2>6, <3>1 DEF Awaits
  <2> QED  BY <1>1, <2>2, <2>4, <2>5, <2>6 DEF InTurn, dtm, Listed
<1>7. Stale'
  BY <1>1, StaleFrame DEF dtm, host
<1> QED  BY <1>4, <1>5, <1>6, <1>7 DEF TurnsInv, Turns

\* The other steps of the NCP: it boots, its timer expires, it reports.
LEMMA TurnsNcp ==
  ASSUME Types, TurnsInv, NcpBoot \/ NcpTick \/ NcpCompletes
  PROVE  TurnsInv'
<1>1. UNCHANGED <<timers, dtm, host, radio, early>>
  BY DEF NcpBoot, NcpTick, NcpCompletes, ncp, past
<1>2. Gate' /\ Settings'
  BY <1>1 DEF TurnsInv, Gate, Settings, dtm, host
<1>3. ASSUME Fresh', Behind', late => late', ~late' /\ ~early /\ InTurn => InTurn'
      PROVE  TurnsInv'
  <2>1. Short <=> Short'
    BY <1>1, Zenon DEF Short, host
  <2>2. Turns'
    BY <1>1, <1>3, <2>1 DEF TurnsInv, Turns, host
  <2>3. Stale'
    BY <1>1, <1>3, StaleFrame DEF dtm, host
  <2> QED  BY <1>2, <1>3, <2>2, <2>3 DEF TurnsInv
<1>4. CASE NcpBoot
  <2>1. /\ mode = "down" /\ mode' # "down" /\ UNCHANGED <<owed, late>>
    BY <1>4 DEF NcpBoot, past
  <2>2. PICK e \in {Boot, DfuBoot, DfuFailure} : evq' = Append(evq, e)
    BY <1>4, Zenon DEF NcpBoot
  <2>3. e \in Event /\ e.kind # "completed" /\ e # Tick
    BY EventTypes, Kinds
  <2>4. /\ NoneDone <=> NoneDone'
        /\ NoTick <=> NoTick'
        /\ BootsLast => BootsLast'
        /\ OneDone => OneDone'
        /\ TicksLast => TicksLast'
    BY <2>2, <2>3, QueueGrows
  <2>5. \A r : Solely(r) => Solely(r)'
    BY <2>2, <2>3, SolelyGrows
  <2>6. Silent /\ Silent'
    BY <1>1, <2>1 DEF TurnsInv, Fresh, Silent, timers
  <2>7. Fresh'
    BY <1>1, <2>1, <2>4, <2>6 DEF TurnsInv, Fresh
  <2>8. Behind'
    BY <1>1, <2>1, <2>4 DEF TurnsInv, Behind
  <2>9. InTurn => InTurn'
    <3>1. \A r : Single(r) => Single(r)'
      BY <2>1, <2>4, <2>5 DEF Single
    <3>2. Nothing <=> Nothing'
      BY <2>1, <2>4 DEF Nothing
    <3>3. \A r : Awaits(r) => Awaits(r)'
      BY <2>4, <2>6, <3>1, <3>2 DEF Awaits
    <3> QED  BY <1>1, <3>1, <3>2, <3>3 DEF InTurn, dtm, Listed, timers
  <2> QED  BY <1>3, <2>1, <2>7, <2>8, <2>9
<1>5. CASE NcpTick
  <2>1. /\ mode = "app" /\ armed["dtm"] /\ UNCHANGED <<owed, mode>>
        /\ evq' = Append(evq, Tick)
        /\ late' = (late \/ owed # <<>> \/ \E i \in DOMAIN evq : evq[i] = Tick)
    BY <1>5 DEF NcpTick, ncp
  <2>2. /\ late => late'
        /\ ~late' => owed = <<>> /\ NoTick
    BY <2>1, Zenon DEF NoTick
  <2>3. /\ NoBoot => NoBoot'
        /\ BootsLast /\ NoBoot => BootsLast'
        /\ NoneDone <=> NoneDone'
        /\ OneDone => OneDone'
        /\ TicksLast /\ NoTick => TicksLast'
    BY <2>1, EventTypes, Kinds, QueueGrows
  <2>4. \A r : Solely(r) => Solely(r)'
    BY <2>1, EventTypes, Kinds, SolelyGrows
  <2>5. ~Silent
    BY <2>1 DEF Silent
  <2>6. Fresh'
    BY <1>1, <2>1, <2>3, <2>5 DEF TurnsInv, Fresh
  <2>7. Behind'
    <3>1. ~late' => owed' = <<>>
      BY <2>1, <2>2
    <3> QED  BY <1>1, <2>2, <2>3, <3>1 DEF TurnsInv, Behind
  <2>8. InTurn => InTurn'
    <3>1. \A r : Single(r) => Single(r)'
      BY <2>1, <2>3, <2>4 DEF Single
    <3>2. Nothing <=> Nothing'
      BY <2>1, <2>3 DEF Nothing
    <3>3. \A r : Awaits(r) => Awaits(r)'
      BY <2>5, <3>1, <3>2 DEF Awaits
    <3> QED  BY <1>1, <3>1, <3>2, <3>3 DEF InTurn, dtm, Listed, timers
  <2> QED  BY <1>3, <2>2, <2>6, <2>7, <2>8
<1>6. CASE NcpCompletes
  <2>1. PICK x \in Radio : x = Head(owed)
    BY <1>6 DEF NcpCompletes, Types, NcpOK
  <2>2. /\ owed # <<>> /\ owed' = Tail(owed) /\ UNCHANGED <<mode, late>>
        /\ evq' = Append(evq, Completed(x))
    BY <1>6, <2>1 DEF NcpCompletes, past
  <2>3. ~Silent
    BY <2>2 DEF Silent
  <2>4. /\ NoBoot => NoBoot'
        /\ BootsLast /\ NoBoot => BootsLast'
        /\ NoTick => NoTick'
        /\ TicksLast /\ NoTick => TicksLast'
        /\ OneDone /\ NoneDone => OneDone'
    BY <2>2, EventTypes, Kinds, QueueGrows
  <2>5. ~NoneDone'
    <3>1. Len(evq) + 1 \in DOMAIN evq' /\ evq'[Len(evq) + 1] = Completed(x)
      BY <2>2, AppendElems DEF Types, WiresOK
    <3> QED  BY <3>1, Kinds DEF NoneDone
  <2>6. Fresh'
    BY <1>1, <2>2, <2>3, <2>4 DEF TurnsInv, Fresh
  <2>7. Behind'
    BY <1>1, <2>2, <2>4 DEF TurnsInv, Behind
  <2>8. InTurn => InTurn'
    <3>1. ASSUME NEW r, Single(r) PROVE Single(r)'
      <4>1. owed = <<r>> /\ NoneDone /\ Solely(r) /\ OneDone
        BY <2>2, <3>1 DEF Single
      <4>2. x = r /\ owed' = <<>>
        BY <2>1, <2>2, <4>1
      <4>3. Solely(r)'
        BY <2>2, <4>1, <4>2, EventTypes, SolelyGrows
      <4> QED  BY <2>4, <4>1, <4>2, <4>3 DEF Single
    <3>2. ~Nothing /\ ~Nothing'
      BY <2>2, <2>5 DEF Nothing
    <3>3. \A r : Awaits(r) => Awaits(r)'
      BY <3>1, <3>2 DEF Awaits
    <3> QED  BY <1>1, <3>1, <3>2, <3>3 DEF InTurn, dtm, Listed, timers
  <2> QED  BY <1>3, <2>2, <2>6, <2>7, <2>8
<1> QED  BY <1>4, <1>5, <1>6

\* No step brings a test out of its turn.
LEMMA TurnsKept ==
  ASSUME Types, TurnsInv, [Next]_vars
  PROVE  TurnsInv'
<1>1. CASE Next
  BY <1>1, TurnsBoot, TurnsTick, TurnsCompleted, TurnsUpgrade, TurnsHost, TurnsDown,
     TurnsNcp
     DEF Next, HandlesEvent, Uploads, RunsCommand, NcpReset, NcpCrash
<1>2. CASE UNCHANGED vars
  <2>1. /\ UNCHANGED <<timers, state, txOn, rxOn, delay, radio, owed, mode, late,
                       early, booted, alive, test, new>>
        /\ Quiet
    BY <1>2 DEF vars, dtm, host, ncp, past, Quiet
  <2> QED  BY <2>1, TurnsFrame
<1> QED  BY <1>1, <1>2

\* A count of packets that is shown as that of one test is from the end of that
\* test (dtm.c:90-144), for every set of tests, however many commands, reboots
\* and deaths there are, and however long the queue: unless a tick has overtaken
\* a completion or another tick, a boot event came early, or the test is shorter
\* than a second.
THEOREM ReportsTheirOwn == Spec => ReportsOwn
<1>1. Init => TurnsInv
  <2> SUFFICES ASSUME Init PROVE TurnsInv
    OBVIOUS
  <2>1. /\ evq = <<>> /\ ~booted /\ alive /\ state = "NONE" /\ ~txOn /\ ~rxOn
        /\ mode = "app" /\ owed = <<>>
    BY DEF Init
  <2>2. NoBoot /\ BootsLast /\ TicksLast
    BY <2>1 DEF NoBoot, BootsLast, TicksLast
  <2> QED  BY <2>1, <2>2 DEF TurnsInv, Gate, Settings, Fresh, Behind, Turns, Stale,
                                  Static
<1>2. Types /\ TurnsInv /\ [Next]_vars => TurnsInv'
  BY TurnsKept
<1>3. Types /\ TurnsInv =>
        \A r \in Radio :
          HandleCompleted(r) /\ ~late /\ ~early /\ ~Short
            => /\ state = "TX_END" => r = Done("tx", "end")
               /\ state = "RX_END" => r = Done("rx", "end")
  <2> SUFFICES ASSUME Types, TurnsInv, NEW r \in Radio,
                      HandleCompleted(r), ~late, ~early, ~Short
               PROVE  /\ state = "TX_END" => r = Done("tx", "end")
                      /\ state = "RX_END" => r = Done("rx", "end")
    OBVIOUS
  <2>1. /\ evq # <<>> /\ evq' = Tail(evq) /\ Head(evq) = Completed(r)
        /\ booted /\ new = NoCommand
    BY DEF HandleCompleted, Takes, AtLoop
  <2>2. InTurn
    <3>1. new.op # "DTM"
      BY <2>1 DEF NoCommand
    <3> QED  BY <2>1, <3>1 DEF TurnsInv, Turns
  <2>3. ~Nothing
    BY <2>1, QueueTaken, Kinds DEF Nothing
  <2>4. ASSUME NEW x, Single(x) PROVE r = x
    BY <2>1, <2>4, SolelyTaken, Kinds DEF Single
  <2> QED  BY <2>2, <2>3, <2>4 DEF InTurn
<1> QED  BY <1>1, <1>2, <1>3, TypesHold, PTL DEF Spec, ReportsOwn
=============================================================================
