-------------------------------- MODULE Modes --------------------------------
(***************************************************************************)
(* The commands that reboot the NCP: DTM (dtm.c), which runs radio tests   *)
(* between two resets, and UPGRADE (upgrade.c), which loads new firmware   *)
(* in the NCP's DFU mode; with the gate of server.c and app.c that opens   *)
(* at the boot event, and the death and restart of the daemon.             *)
(*                                                                         *)
(* A handler is one action, as in Daemon, except for the upload, which is  *)
(* one step for each packet.  A command that meets a reboot of the NCP     *)
(* waits until the NCP is back in the same mode, or for ever.              *)
(***************************************************************************)
EXTENDS HwTimer, Sequences

CONSTANTS
  Test,         \* the tests a DTM command may ask for
  Size,         \* the sizes of the firmware files, in packets
  StartupArg,   \* what ble_system_reset finds for its argument at startup
  MaxCommands,  \* bound: commands in a behaviour
  MaxDeaths,    \* bound: daemons killed
  MaxCrashes,   \* bound: reboots of the NCP on its own
  QueueCap      \* bound: events on their way when the NCP sends another

\* A test is off or lasts a number of seconds, --delay / 1000.
Off == -1
ASSUME TestAssumption ==
  Test \subseteq [tx : Nat \cup {Off}, rx : Nat \cup {Off}]
ASSUME SizeAssumption == Size \subseteq Nat
ASSUME StartupAssumption == StartupArg \subseteq {"app", "dfu"}
ASSUME BoundsAssumption == /\ MaxCommands \in Nat /\ MaxDeaths \in Nat
                           /\ MaxCrashes \in Nat /\ QueueCap \in Nat
ASSUME TimersAssumption == Timer = {"dtm"}

Radio == [test : {"tx", "rx"}, at : {"start", "end"}]
Done(k, a) == [test |-> k, at |-> a]

Tick         == [kind |-> "tick"]
Boot         == [kind |-> "boot"]
DfuBoot      == [kind |-> "dfu_boot"]
DfuFailure   == [kind |-> "dfu_boot_failure"]
Completed(r) == [kind |-> "completed", radio |-> r]
Event == {Tick, Boot, DfuBoot, DfuFailure} \cup {Completed(r) : r \in Radio}

\* SHOW stands for the single-shot commands but SET, which may or may not send
\* one to the NCP, SCAN for the others.
SingleShot == {"SHOW", "SET"}
Missing == -1     \* a firmware file that is not there
Command == [op : {"DTM"}, test : Test]
             \cup [op : {"UPGRADE"}, file : Size \cup {Missing}]
             \cup [op : SingleShot \cup {"SCAN"}]
NoCommand == [op |-> "none"]
NoTest == [tx |-> Off, rx |-> Off]

VARIABLES
  alive,     \* the daemon runs
  hung,      \* it waits for a response that will not come
  booted,    \* sc_host_bootup
  pc,        \* the loop of the daemon, or the upload
  new,       \* a command that has been received but not run
  cmd,       \* cmd: DTM, UPGRADE or another, OPT_IDLE included
  test,      \* conf.dtm
  file,      \* conf.upgrade.firmware: its size
  state,     \* dtm_state
  txOn, rxOn, delay,  \* dtm_timer_arg
  stop,      \* dtm_timer.ret is BLE_EVENT_STOP
  left,      \* left_size, in packets
  torn,      \* a read came up short
  mode,      \* the NCP: its application, DFU, or down
  target,    \* what it boots into
  uart,      \* resets on their way to it
  fw,        \* its application can be booted
  flashed,   \* packets of the file in its flash, Missing before an address
  radio,     \* the test that runs
  owed,      \* completions it has still to report
  evq,       \* events the loop has not taken
  told,      \* history: what the client was told of the latest upload
  late,      \* history: a tick overtook a completion or another tick
  early,     \* history: a test began with a boot event still to come
  displaced, \* history: a single-shot command has taken the place of DTM
  commands, deaths, crashes

dtm    == <<state, txOn, rxOn, delay, stop>>
upload == <<pc, left, torn, told>>
host   == <<alive, hung, booted, new, cmd, test, file>>
ncp    == <<mode, target, fw, flashed, radio, owed>>
past   == <<late, early, displaced>>
bounds == <<commands, deaths, crashes>>
vars   == <<timers, dtm, upload, host, ncp, uart, evq, past, bounds>>

\* The first act of a daemon is a reset.
Init ==
  /\ HwTimerInit
  /\ alive = TRUE /\ hung = FALSE /\ booted = FALSE
  /\ pc = "loop" /\ new = NoCommand /\ cmd = "OTHER"
  /\ test = NoTest /\ file = Missing
  /\ state = "NONE" /\ txOn = FALSE /\ rxOn = FALSE /\ delay = 0
  /\ stop = FALSE /\ left = 0 /\ torn = FALSE /\ told = "nothing"
  /\ mode = "app" /\ target = "app" /\ uart \in {<<a>> : a \in StartupArg}
  /\ fw = TRUE /\ flashed = Missing /\ radio = "none" /\ owed = <<>>
  /\ evq = <<>>
  /\ late = FALSE /\ early = FALSE /\ displaced = FALSE
  /\ commands = 0 /\ deaths = 0 /\ crashes = 0

-----------------------------------------------------------------------------
(* The loop (server.c) *)

Running == alive /\ ~hung
AtLoop == Running /\ pc = "loop" /\ new = NoCommand

\* A command sent now is answered by the NCP in that mode.
Answered(m) == mode = m /\ uart = <<>>

\* ble_system_reset and gecko_cmd_dfu_reset have no response; only the former
\* closes the gate.
SystemReset(a) == uart' = Append(uart, a) /\ booted' = FALSE
DfuReset(a) == uart' = Append(uart, a) /\ UNCHANGED booted

Takes(e) == /\ AtLoop /\ evq # <<>> /\ Head(evq) = e
            /\ evq' = Tail(evq)

\* Lines 97 to 103: nothing but a boot is heard through the closed gate.
Drop == /\ AtLoop /\ evq # <<>> /\ Head(evq) # Boot /\ ~booted
        /\ evq' = Tail(evq)
        /\ UNCHANGED <<timers, dtm, upload, host, ncp, uart, past, bounds>>

\* Slip: the NCP is left in its test.
CleanupLeaves ==
  /\ state' = "NONE" /\ stop' = FALSE
  /\ hw_timer_del("dtm")
  /\ UNCHANGED <<uart, booted>>

dtm_cleanup ==
  /\ state' = "NONE" /\ stop' = FALSE
  /\ hw_timer_del("dtm")
  /\ SystemReset("app")

\* dtm_event_handler returns dtm_timer.ret; the handlers left that value and
\* the state behind.
DtmEnds(ret, s) ==
  IF cmd = "DTM" /\ ret
  THEN dtm_cleanup /\ cmd' = "OTHER"
  ELSE /\ state' = s /\ stop' = ret
       /\ UNCHANGED <<timers, uart, booted, cmd>>

-----------------------------------------------------------------------------
(* DTM (dtm.c) *)

\* dtm_do_action in a state INIT, with dtm_tx_init and dtm_rx_init.  The NCP
\* starts a test unless one is running, and reports that.
Starts(k) ==
  /\ radio' = IF radio = "none" THEN k ELSE radio
  /\ owed' = IF radio = "none" THEN Append(owed, Done(k, "start")) ELSE owed
  /\ delay' = IF test[k] = Off THEN 0 ELSE test[k]
  /\ hw_timer_add("dtm", HW_TIMER_INFINITY)
  /\ state' = IF k = "tx" THEN "TX_START" ELSE "RX_START"
  /\ early' = (early \/ \E i \in DOMAIN evq' : evq'[i] = Boot)

\* Slip: a boot begins nothing.
BeginsNever == FALSE

\* dtm_bootup_handler
Begins == state = "INIT"
First == IF test.tx # Off THEN "tx" ELSE "rx"

\* dtm_event_handler ends no command here: stop is false while DTM runs.
HandleBoot ==
  /\ Takes(Boot) /\ Answered("app")
  /\ booted' = TRUE
  /\ IF Begins
     THEN Starts(First)
     ELSE /\ hw_timer_list_clear
          /\ UNCHANGED <<radio, owed, delay, state, early>>
  /\ UNCHANGED <<txOn, rxOn, stop, upload, alive, hung, new, cmd, test, file,
                 mode, target, fw, flashed, uart, late, displaced, bounds>>

Left == delay - 1
AtLeast(a, b) == IF a < b THEN b ELSE a

\* Slip: the reception is switched off first.
EndingRxFirst == IF rxOn THEN "rx" ELSE "tx"

\* Lines 124 to 130: the test to end, in the handler's view.
Ending == IF txOn THEN "tx" ELSE "rx"

\* dtm_timer_handler
Expires ==
  \/ /\ ~txOn /\ ~rxOn
     /\ DtmEnds(TRUE, "NONE")
     /\ delay' = AtLeast(Left, -1)
     /\ UNCHANGED <<txOn, rxOn, radio, owed, early>>
  \/ /\ txOn \/ rxOn
     /\ Left > 0
     /\ DtmEnds(FALSE, state)
     /\ delay' = Left
     /\ UNCHANGED <<txOn, rxOn, radio, owed, early>>
  \/ /\ txOn \/ rxOn
     /\ Left = 0 /\ Answered("app")
     /\ DtmEnds(FALSE, IF Ending = "tx" THEN "TX_END" ELSE "RX_END")
     /\ txOn' = (txOn /\ Ending # "tx") /\ rxOn' = (rxOn /\ Ending # "rx")
     /\ radio' = "none"
     /\ owed' = IF radio = "none" THEN owed
                ELSE Append(owed, Done(radio, "end"))
     /\ delay' = 0
     /\ UNCHANGED early
  \/ /\ rxOn
     /\ Left < 0 /\ Answered("app")
     /\ Starts("rx") /\ stop' = FALSE
     /\ UNCHANGED <<txOn, rxOn, uart, booted, cmd>>
  \/ /\ txOn /\ ~rxOn
     /\ Left < 0
     /\ DtmEnds(TRUE, "NONE")
     /\ delay' = -1
     /\ UNCHANGED <<txOn, rxOn, radio, owed, early>>

HandleTick ==
  /\ booted /\ Takes(Tick)
  /\ \/ Listed("dtm") /\ Expires
     \/ /\ ~Listed("dtm")
        /\ DtmEnds(stop, state)
        /\ UNCHANGED <<txOn, rxOn, delay, radio, owed, early>>
  /\ UNCHANGED <<upload, alive, hung, new, test, file, mode, target, fw,
                 flashed, late, displaced, bounds>>

\* dtm_do_action, at a completion; in the states of an end the count of
\* packets is shown.
NextState == CASE state = "TX_START" -> "TX_END"
               [] state = "RX_START" -> "RX_END"
               [] OTHER -> state

HandleCompleted(r) ==
  /\ booted /\ Takes(Completed(r))
  /\ DtmEnds(stop, NextState)
  /\ UNCHANGED <<txOn, rxOn, delay, upload, alive, hung, new, test, file, ncp,
                 past, bounds>>

-----------------------------------------------------------------------------
(* UPGRADE (upgrade.c) *)

\* Slips: the result says that the command goes on; the NCP is not told.
UpgradeContinues == DfuReset("app") /\ UNCHANGED cmd
UpgradeStays ==
  /\ cmd' = IF cmd = "UPGRADE" THEN "OTHER" ELSE cmd
  /\ UNCHANGED <<uart, booted>>

\* upgrade_event_handler is done: the NCP is to leave its DFU mode.
UpgradeEnds ==
  /\ DfuReset("app")
  /\ cmd' = IF cmd = "UPGRADE" THEN "OTHER" ELSE cmd

\* Lines 28 to 42: the file is gone, or cannot be opened, which is found out
\* after gecko_cmd_dfu_flash_set_address.  It may have been there at line 79.
UploadFails ==
  /\ booted /\ Takes(DfuBoot)
  /\ \/ UNCHANGED flashed
     \/ Answered("dfu") /\ flashed' = 0
  /\ told' = "failure"
  /\ UpgradeEnds
  /\ UNCHANGED <<timers, dtm, pc, left, torn, alive, hung, new, test, file,
                 mode, target, fw, radio, owed, past, bounds>>

\* The file is open.
UploadBegins ==
  /\ booted /\ Takes(DfuBoot) /\ file # Missing /\ Answered("dfu")
  /\ pc' = "upload" /\ left' = file /\ torn' = FALSE /\ told' = "nothing"
  /\ flashed' = 0
  /\ UNCHANGED <<timers, dtm, host, mode, target, fw, radio, owed, uart, past,
                 bounds>>

\* Slips: the last packet is left out, or one is sent too many.
MoreButLast == left > 1
MoreThanAll == left >= 0

More == left > 0
\* The results of dfu_flash_upload; without an address it fails.
Results == IF flashed = Missing THEN {FALSE} ELSE BOOLEAN

UploadOver(s) ==
  /\ pc' = "loop" /\ told' = s
  /\ left' = 0
  /\ UpgradeEnds

\* One turn of the loop of lines 48 to 64.  A short read closes the file, but
\* the packet goes out all the same, with what an earlier one has left.
UploadPacket ==
  /\ Running /\ pc = "upload" /\ More /\ Answered("dfu")
  /\ \E short \in BOOLEAN : torn' = (torn \/ short)
  /\ \E ok \in Results :
       \/ /\ ok
          /\ left' = left - 1
          /\ flashed' = IF torn' THEN flashed ELSE flashed + 1
          /\ fw' = FALSE
          /\ UNCHANGED <<pc, told, uart, booted, cmd>>
       \/ ~ok /\ UploadOver("failure") /\ UNCHANGED <<flashed, fw>>
  /\ UNCHANGED <<timers, dtm, alive, hung, new, test, file, mode, target,
                 radio, owed, evq, past, bounds>>

\* dfu_flash_upload_finish; the NCP does not know the size of the file.
UploadFinish ==
  /\ Running /\ pc = "upload" /\ ~More /\ Answered("dfu")
  /\ \E ok \in Results :
       /\ UploadOver(IF ok THEN "success" ELSE "failure")
       /\ fw' = (ok /\ flashed = file)
  /\ UNCHANGED <<timers, dtm, torn, alive, hung, new, test, file, mode, target,
                 flashed, radio, owed, evq, past, bounds>>

HandleDfuFailure ==
  /\ booted /\ Takes(DfuFailure)
  /\ UpgradeEnds
  /\ UNCHANGED <<timers, dtm, upload, alive, hung, new, test, file, ncp, past,
                 bounds>>

-----------------------------------------------------------------------------
(* Commands: server.c:141-214 *)

\* A command that is not single-shot cleans up after the running one.
Receive(c) ==
  /\ AtLoop /\ commands < MaxCommands
  /\ commands' = commands + 1
  /\ new' = c
  /\ test' = IF c.op = "DTM" THEN c.test ELSE test
  /\ file' = IF c.op = "UPGRADE" THEN c.file ELSE file
  /\ \/ cmd = "DTM" /\ c.op \notin SingleShot /\ dtm_cleanup
     \/ /\ cmd # "DTM" \/ c.op \in SingleShot
        /\ UNCHANGED <<timers, state, stop, uart, booted>>
  /\ UNCHANGED <<txOn, rxOn, delay, upload, alive, hung, cmd, ncp, evq, past,
                 deaths, crashes>>

dtm_cmd_handler ==
  /\ Running /\ new.op = "DTM" /\ new' = NoCommand
  /\ txOn' = (test.tx # Off) /\ rxOn' = (test.rx # Off)
  /\ stop' = FALSE /\ state' = "INIT"
  /\ SystemReset("app")
  /\ cmd' = "DTM" /\ displaced' = FALSE
  /\ UNCHANGED <<timers, delay, upload, alive, hung, test, file, ncp, evq,
                 late, early, bounds>>

\* Advertising is stopped first.
upgrade_cmd_handler ==
  /\ Running /\ new.op = "UPGRADE" /\ new' = NoCommand /\ Answered("app")
  /\ \/ file = Missing /\ UNCHANGED <<uart, booted>>
     \/ file # Missing /\ DfuReset("dfu")
  /\ cmd' = "UPGRADE"
  /\ UNCHANGED <<timers, dtm, upload, alive, hung, test, file, ncp, evq, past,
                 bounds>>

\* A command takes the place of the running one, a single-shot one without
\* its cleanup.
Displaces == /\ cmd' = "OTHER"
             /\ displaced' = (displaced \/ (cmd = "DTM" /\ new.op \in SingleShot))

Other ==
  /\ Running /\ new.op \in {"SHOW", "SCAN"} /\ new' = NoCommand
  /\ new.op = "SCAN" => Answered("app")
  /\ Displaces
  /\ UNCHANGED <<timers, dtm, upload, alive, hung, booted, test, file, ncp,
                 uart, evq, late, early, bounds>>

\* set_cmd_handler, which sends nothing without an option, and set_cleanup.
Set ==
  /\ Running /\ new.op = "SET" /\ new' = NoCommand
  /\ SystemReset("app")
  /\ Displaces
  /\ UNCHANGED <<timers, dtm, upload, alive, hung, test, file, ncp, evq, late,
                 early, bounds>>

-----------------------------------------------------------------------------
(* Responses that do not come, and the death of the daemon *)

\* The handler that is next sends a command to the application.
SendsToApp ==
  \/ new.op \in {"UPGRADE", "SCAN"} \cup SingleShot
  \/ /\ AtLoop /\ evq # <<>>
     /\ \/ Head(evq) = Boot
        \/ /\ Head(evq) = Tick /\ booted /\ Listed("dtm")
           /\ \/ (txOn \/ rxOn) /\ Left = 0
              \/ rxOn /\ Left < 0
SendsToDfu ==
  \/ pc = "upload"
  \/ AtLoop /\ booted /\ evq # <<>> /\ Head(evq) = DfuBoot

Hang ==
  /\ Running
  /\ \/ SendsToApp /\ ~Answered("app")
     \/ SendsToDfu /\ ~Answered("dfu")
  /\ hung' = TRUE
  /\ UNCHANGED <<timers, dtm, upload, alive, booted, new, cmd, test, file, ncp,
                 uart, evq, past, bounds>>

\* What the daemon knew dies with it: the next one starts with this state.
DaemonDies ==
  /\ alive /\ deaths < MaxDeaths
  /\ deaths' = deaths + 1
  /\ alive' = FALSE /\ hung' = FALSE /\ booted' = FALSE
  /\ pc' = "loop" /\ new' = NoCommand /\ cmd' = "OTHER"
  /\ test' = NoTest /\ file' = Missing
  /\ state' = "NONE" /\ txOn' = FALSE /\ rxOn' = FALSE /\ delay' = 0
  /\ stop' = FALSE /\ left' = 0 /\ torn' = FALSE /\ told' = "nothing"
  /\ listed' = [t \in Timer |-> 0] /\ count' = [t \in Timer |-> 0]
  /\ displaced' = FALSE
  /\ UNCHANGED <<armed, ncp, uart, evq, late, early, commands, crashes>>

\* The serial port is flushed as it is opened, and the NCP reset.
DaemonStarts ==
  /\ ~alive /\ alive' = TRUE
  /\ evq' = <<>>
  /\ \E a \in StartupArg : uart' = Append(uart, a)
  /\ UNCHANGED <<timers, dtm, upload, hung, booted, new, cmd, test, file, ncp,
                 past, bounds>>

-----------------------------------------------------------------------------
(* The NCP *)

GoesDown(t) ==
  /\ mode' = "down" /\ target' = t
  /\ armed' = [x \in Timer |-> FALSE]
  /\ radio' = "none" /\ owed' = <<>> /\ flashed' = Missing
  /\ UNCHANGED <<listed, count, dtm, upload, host, fw, evq, past, commands,
                 deaths>>

\* A second reset that meets the reboot may be lost.
NcpReset ==
  /\ mode # "down" /\ uart # <<>>
  /\ uart' \in {<<>>, Tail(uart)}
  /\ GoesDown(Head(uart))
  /\ UNCHANGED crashes

NcpCrash ==
  /\ mode # "down" /\ crashes < MaxCrashes
  /\ crashes' = crashes + 1
  /\ uart' \in {<<>>, uart}
  /\ GoesDown("app")

\* Without an application that boots, the NCP stays in its DFU mode.
NcpBoot ==
  /\ mode = "down"
  /\ \/ target = "app" /\ fw /\ mode' = "app" /\ evq' = Append(evq, Boot)
     \/ /\ target = "dfu" \/ ~fw
        /\ mode' = "dfu"
        /\ \/ evq' = Append(evq, DfuBoot)
           \/ ~fw /\ evq' = Append(evq, DfuFailure)
  /\ UNCHANGED <<timers, dtm, upload, host, target, fw, flashed, radio, owed,
                 uart, past, bounds>>

NcpTick ==
  /\ mode = "app" /\ armed["dtm"] /\ Len(evq) < QueueCap
  /\ evq' = Append(evq, Tick)
  /\ late' = (late \/ owed # <<>> \/ \E i \in DOMAIN evq : evq[i] = Tick)
  /\ UNCHANGED <<timers, dtm, upload, host, ncp, uart, early, displaced,
                 bounds>>

NcpCompletes ==
  /\ owed # <<>> /\ Len(evq) < QueueCap
  /\ owed' = Tail(owed)
  /\ evq' = Append(evq, Completed(Head(owed)))
  /\ UNCHANGED <<timers, dtm, upload, host, mode, target, fw, flashed, radio,
                 uart, past, bounds>>

-----------------------------------------------------------------------------
HandlesEvent ==
  \/ Drop \/ HandleBoot \/ HandleTick \/ HandleDfuFailure
  \/ UploadFails \/ UploadBegins
  \/ \E r \in Radio : HandleCompleted(r)
Uploads == UploadPacket \/ UploadFinish
RunsCommand == dtm_cmd_handler \/ upgrade_cmd_handler \/ Other \/ Set

Next == \/ HandlesEvent \/ Uploads \/ RunsCommand \/ Hang
        \/ \E c \in Command : Receive(c)
        \/ DaemonDies \/ DaemonStarts
        \/ NcpReset \/ NcpCrash \/ NcpBoot \/ NcpTick \/ NcpCompletes

Spec == Init /\ [][Next]_vars

\* The loop goes on until it hangs, the NCP takes its resets and boots, and its
\* timer and radio get their turn in the queue.
Fairness == /\ WF_vars(HandlesEvent \/ Uploads \/ RunsCommand \/ Hang)
            /\ WF_vars(NcpReset) /\ WF_vars(NcpBoot)
            /\ SF_vars(NcpTick) /\ SF_vars(NcpCompletes)

FairSpec == Spec /\ Fairness

-----------------------------------------------------------------------------
(* Properties *)

\* Every variable has its type.
TypeOK ==
  /\ listed \in [Timer -> Nat] /\ count \in [Timer -> {0, HW_TIMER_INFINITY}]
  /\ armed \in [Timer -> BOOLEAN]
  /\ {alive, hung, booted, txOn, rxOn, stop, torn, fw, late, early, displaced}
       \subseteq BOOLEAN
  /\ pc \in {"loop", "upload"}
  /\ new \in Command \cup {NoCommand}
  /\ cmd \in {"DTM", "UPGRADE", "OTHER"}
  /\ test \in Test \cup {NoTest} /\ file \in Size \cup {Missing}
  /\ state \in {"NONE", "INIT", "TX_START", "TX_END", "RX_START", "RX_END"}
  /\ delay \in Int /\ delay >= -1
  /\ left \in Nat /\ flashed \in Nat \cup {Missing}
  /\ mode \in {"app", "dfu", "down"} /\ target \in {"app", "dfu"}
  /\ uart \in Seq({"app", "dfu"})
  /\ radio \in {"none", "tx", "rx"} /\ owed \in Seq(Radio)
  /\ evq \in Seq(Event)
  /\ told \in {"nothing", "success", "failure"}
  /\ commands \in 0 .. MaxCommands /\ deaths \in 0 .. MaxDeaths
  /\ crashes \in 0 .. MaxCrashes

\* A test is shorter than a second.
Short == \E k \in {"tx", "rx"} : test[k] = 0

\* A count of packets that is shown as that of one test is from the end of
\* that test, not from its start nor from the other (dtm.c:90-144): the ticks
\* and the completions that drive the states may come in either order.  Not so
\* when a tick overtakes a completion or another tick, or the test is shorter
\* than a second.
ReportsOwn ==
  [][\A r \in Radio :
       HandleCompleted(r) /\ ~late /\ ~early /\ ~Short
         => /\ state = "TX_END" => r = Done("tx", "end")
            /\ state = "RX_END" => r = Done("rx", "end")]_vars

\* A test that runs at the NCP has the running command DTM and its timer, or a
\* reset is on its way (dtm.c:146-196).  Not so when a single-shot command took
\* the place of DTM, or the daemon died or hangs.
TestAttended ==
  radio # "none" => \/ cmd = "DTM" /\ Listed("dtm") /\ armed["dtm"]
                    \/ uart # <<>> \/ displaced \/ early \/ hung \/ ~alive

\* A DTM command ends, unless the reception is shorter than a second, in which
\* case it starts over and over (dtm.c:86, 133), the NCP was on its way to its
\* DFU mode or reboots on its own, or the daemon dies or hangs.
TestEnds ==
  cmd = "DTM" ~> \/ cmd # "DTM" \/ test.rx = 0 \/ mode = "dfu"
                 \/ crashes > 0 \/ early \/ hung \/ ~alive

\* An upgrade ends, unless its file is missing, in which case the client is
\* told that it has ended but the command stays (upgrade.c:79-87), the NCP
\* reboots on its own, or the daemon dies or hangs.
UpgradeOver ==
  cmd = "UPGRADE" ~> \/ cmd # "UPGRADE" \/ file = Missing
                     \/ crashes > 0 \/ hung \/ ~alive

\* A client that is told of a success has the whole file in the NCP's flash,
\* also after a reboot in the middle of the upload (upgrade.c:44-67).  Not so
\* when a read came up short.
Success == pc = "upload" /\ pc' = "loop" /\ told' = "success"
SuccessWhole == [][Success => torn \/ flashed = file]_vars

\* An NCP in its DFU mode leaves it, whichever command runs and whatever became
\* of the upload (upgrade.c:90-125), unless the daemon dies, hangs, or has its
\* gate closed and drops the event (server.c:97-103).
LeavesDfu == mode = "dfu" ~> mode # "dfu" \/ ~booted \/ hung \/ ~alive
=============================================================================
