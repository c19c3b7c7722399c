------------------------------- MODULE Daemon -------------------------------
(***************************************************************************)
(* schostd: the loop of server.c with the command table of command.c and   *)
(* the commands SCAN, CONNECT, CONNECTION (--disconn), PAIR, SHOW and SET, *)
(* their clients, and the timers of module HwTimer.                        *)
(*                                                                         *)
(* The events of the NCP reach the loop through one queue, which is what   *)
(* gecko_bglib.c and the UART amount to (Bglib!ImplementsFifo).  A handler *)
(* is one action: what the NCP does between two of its commands it may as  *)
(* well do before or after them.  A command that meets a reboot of the NCP *)
(* waits until the NCP is back, or for ever (Bglib!CommandAnswered).       *)
(*                                                                         *)
(* The texts sent to the clients, the neighbours a scan finds and the      *)
(* services and characteristics of a connection are left out; so are the   *)
(* commands DTM, UPGRADE, GATT and DISCOVER, and the timer of gatt.c, whose *)
(* expiries do nothing here but wake the loop up (see Fairness).           *)
(***************************************************************************)
EXTENDS HwTimer, Sequences

CONSTANTS
  Handle,          \* connection handles of the NCP (--disconn 0 is no option)
  Addr,            \* addresses of the remote devices
  ScanTimeout,     \* --timeout of the scans, in seconds
  ConnectTimeout,  \* CONNECT_TIMER_TIMEOUT
  MaxKills,        \* bound: clients killed in a behaviour
  MaxResets,       \* bound: reboots of the NCP, the one at startup excluded
  QueueCap         \* bound: events on their way when the NCP sends another

ASSUME TimeoutAssumption == ScanTimeout \in Nat /\ ConnectTimeout \in Nat \ {0}
ASSUME BoundsAssumption == /\ MaxKills \in Nat
                           /\ MaxResets \in Nat
                           /\ QueueCap \in Nat
ASSUME TimersAssumption == Timer = {"scan", "connect"}

Boot         == [kind |-> "boot"]
Tick(t)      == [kind |-> "tick", timer |-> t]
Opened(h, a) == [kind |-> "opened", conn |-> h, addr |-> a]
Closed(h)    == [kind |-> "closed", conn |-> h]
Event == {Boot} \cup {Tick(t) : t \in Timer}
           \cup {Opened(h, a) : h \in Handle, a \in Addr}
           \cup {Closed(h) : h \in Handle}
NoEvent == [kind |-> "none"]

\* The datagrams of the clients: option_args_t with the options that matter.
\* CONNECT_DISCONN is CONNECT with --disconn in place of an address.
Plain == {[op |-> o] : o \in {"SCAN", "PAIR", "SHOW", "SET"}}
Command == Plain \cup {[op |-> "CONNECT", addr |-> a] : a \in Addr}
             \cup {[op |-> o, disconn |-> h] :
                     o \in {"CONNECTION", "CONNECT_DISCONN"}, h \in Handle}
NoCommand == [op |-> "none"]
SingleShot == {"SHOW", "SET", "CONNECTION"}

NoLink == [state |-> "none"]
Link == {NoLink} \cup [state : {"pending", "open"}, addr : Addr]

VARIABLES
  pc,          \* where the loop is
  evt,         \* the event the handlers are given, if they run
  new,         \* the command received, if it has not been run
  cmd,         \* cmd: the command the loop waits for
  booted,      \* sc_host_bootup
  scanRet,     \* scan_timer.ret says the command is over
  connRet,     \* and so does connect_timer.ret
  connRunning, \* connect_timer_arg.state
  connHandle,  \* connect_timer_arg.connection
  table,       \* connection_list
  evq,         \* events the loop has not taken
  up, reset,   \* the NCP runs; a reset command is on its way to it
  link,        \* its connections
  adv,         \* it advertises
  discovering, \* it scans
  ctlq,        \* datagrams waiting at the control socket
  client,      \* a client waits for the end of its command
  owner,       \* history: the client whose command is new or cmd
  early,       \* history: a command was run before the first boot; forgotten
               \* at the next reset
  kills, resets

conn    == <<connRet, connRunning, connHandle>>
host    == <<cmd, booted, scanRet, conn, table>>
ncp     == <<up, reset, link, adv, discovering>>
clients == <<ctlq, client, owner, kills>>
vars == <<timers, pc, evt, new, host, evq, ncp, clients, early, resets>>

\* connect_timer_arg is zeroed.  An earlier daemon may have left a connection
\* at the NCP, which is about to be reset (server.c:77).
Init ==
  /\ HwTimerInit
  /\ pc = "select" /\ evt = NoEvent
  /\ new = NoCommand /\ cmd = "IDLE"
  /\ booted = FALSE /\ scanRet = FALSE
  /\ connRet = FALSE /\ connRunning = FALSE /\ connHandle \in Handle
  /\ table = <<>> /\ evq = <<>>
  /\ up = TRUE /\ reset = TRUE
  /\ link \in [Handle -> {NoLink} \cup [state : {"open"}, addr : Addr]]
  /\ adv = FALSE /\ discovering = FALSE
  /\ ctlq = <<>> /\ client = "none" /\ owner = "none"
  /\ early = FALSE /\ kills = 0 /\ resets = 0

\* A command sent now is answered.
Answered == up /\ ~reset

-----------------------------------------------------------------------------
(* connection_list (connection.c) *)

Unused == {i \in DOMAIN table : ~table[i].used}
ByConn(h) == {i \in DOMAIN table : table[i].used /\ table[i].conn = h}
ByAddr(a) == {i \in DOMAIN table : table[i].used /\ table[i].addr = a}
First(S) == CHOOSE i \in S : \A j \in S : i <= j

Entry(h, a) == [conn |-> h, addr |-> a, used |-> TRUE]

\* Slip: the first element is taken without a look at used.
OpenedTakesFirst(h, a) ==
  table' = IF table # <<>> THEN [table EXCEPT ![1] = Entry(h, a)]
           ELSE <<Entry(h, a)>>

connection_opened(h, a) ==
  table' = IF Unused # {} THEN [table EXCEPT ![First(Unused)] = Entry(h, a)]
           ELSE <<Entry(h, a)>> \o table

connection_closed(h) ==
  table' = IF ByConn(h) # {} THEN [table EXCEPT ![First(ByConn(h))].used = FALSE]
           ELSE table

-----------------------------------------------------------------------------
(* What commands do to the NCP *)

\* gecko_cmd_le_connection_close: the connection is closed now, or the NCP
\* sends the event later (NcpClose); a connection attempt may be given up
\* without an event.
CloseLink(h) ==
  \/ /\ link[h] # NoLink
     /\ link' = [link EXCEPT ![h] = NoLink]
     /\ evq' = Append(evq, Closed(h))
  \/ /\ link[h].state = "pending"
     /\ link' = [link EXCEPT ![h] = NoLink]
     /\ UNCHANGED evq
  \/ UNCHANGED <<link, evq>>

-----------------------------------------------------------------------------
(* The end of a command *)

\* send_socket(sock, 0, 1, "", 0): the empty datagram goes to whoever is bound
\* to the clients' address.
Terminate ==
  /\ client' = "none"
  /\ owner' = "none"
  /\ UNCHANGED <<ctlq, kills>>

\* Slips: cmd keeps its value; cmd becomes the command that is over.
EndKeepsCmd == Terminate /\ UNCHANGED cmd
EndSetsCmd == Terminate /\ cmd' = new.op

EndCommand == Terminate /\ cmd' = "IDLE"

scan_cleanup ==
  /\ Answered
  /\ discovering' = FALSE
  /\ hw_timer_del("scan")
  /\ scanRet' = FALSE
  /\ UNCHANGED <<up, reset, link, adv>>

-----------------------------------------------------------------------------
(* An event: server.c:92-139.  Lines 123-138 run the handlers of SCAN,      *)
(* CONNECT and PAIR in this order; a handler that neither changes anything *)
(* nor ends the command is no step of its own.                             *)

ScanStops == cmd = "SCAN" /\ scanRet
ConnectReturned == cmd = "CONNECT" /\ connRet

\* The next of the handlers with something to do.
EventHandler(e, scan, connect) ==
  CASE scan                            -> "scan_event"
    [] ~scan /\ (e.kind = "opened" \/ connect) -> "connect_event"
    [] e.kind = "closed"               -> "pair_event"
    [] OTHER                           -> "select"

\* To it, or back to select.
GoOn(p) == pc' = p /\ evt' = IF p = "select" THEN NoEvent ELSE evt

SkipEvent ==
  /\ pc = "select"
  /\ evq # <<>> /\ ~booted /\ Head(evq) # Boot
  /\ evq' = Tail(evq)
  /\ UNCHANGED <<timers, pc, evt, new, host, ncp, clients, early, resets>>

TakeEvent ==
  /\ pc = "select"
  /\ evq # <<>> /\ (booted \/ Head(evq) = Boot)
  /\ booted' = TRUE
  /\ evt' = Head(evq)
  /\ evq' = Tail(evq)
  /\ pc' = CASE evt' = Boot        -> "bootup"
             [] evt'.kind = "tick" -> "timer"
             [] OTHER              -> EventHandler(evt', ScanStops, ConnectReturned)
  /\ UNCHANGED <<timers, new, cmd, scanRet, conn, table, ncp, clients, early,
                 resets>>

\* The boot handlers of this module's commands do nothing; that of gatt.c
\* sends commands.  connection_bootup_handler is in no table (command.c:39).
Bootup ==
  /\ pc = "bootup" /\ Answered
  /\ hw_timer_list_clear
  /\ GoOn(EventHandler(evt, ScanStops, ConnectReturned))
  /\ UNCHANGED <<new, host, evq, ncp, clients, early, resets>>

\* Slip: scan_timer_handler looks for the end one expiry too late.
ScanLate == NextCount("scan") < 0

\* t->count == 0, as scan_timer_handler sees it.
ScanOver == NextCount("scan") = 0

\* hw_timer_list_update with scan_timer_handler.
ScanTimer ==
  /\ pc = "timer" /\ evt = Tick("scan")
  /\ Ends("scan") => Answered
  /\ hw_timer_list_update("scan")
  /\ scanRet' = IF Listed("scan") THEN ScanOver ELSE scanRet
  /\ GoOn(EventHandler(evt, cmd = "SCAN" /\ scanRet', cmd = "CONNECT" /\ connRet))
  /\ UNCHANGED <<new, cmd, booted, conn, table, evq, ncp, clients, early,
                 resets>>

\* hw_timer_list_update with connect_timer_handler, before the last callback,
ConnectTimer ==
  /\ pc = "timer" /\ evt = Tick("connect")
  /\ ~Ends("connect")
  /\ hw_timer_list_update("connect")
  /\ connRet' = (connRet /\ ~Listed("connect"))
  /\ GoOn(EventHandler(evt, ScanStops, cmd = "CONNECT" /\ connRet'))
  /\ UNCHANGED <<new, cmd, booted, scanRet, connRunning, connHandle,
                 table, evq, ncp, clients, early, resets>>

\* and the last.
ConnectTimesOut ==
  /\ pc = "timer" /\ evt = Tick("connect")
  /\ Ends("connect") /\ Answered
  /\ connRunning' = FALSE
  /\ CloseLink(connHandle)
  /\ connRet' = TRUE
  /\ hw_timer_list_update("connect")
  /\ GoOn(EventHandler(evt, ScanStops, cmd = "CONNECT" /\ connRet'))
  /\ UNCHANGED <<new, cmd, booted, scanRet, connHandle, table, up, reset,
                 adv, discovering, clients, early, resets>>

\* scan_event_handler returns scan_timer.ret.
ScanEvent ==
  /\ pc = "scan_event"
  /\ scan_cleanup
  /\ EndCommand
  /\ GoOn(EventHandler(evt, FALSE, FALSE))
  /\ UNCHANGED <<new, booted, conn, table, evq, early, resets>>

\* The connection the command waits for has been opened.
Established == /\ evt.kind = "opened"
               /\ connRunning /\ evt.conn = connHandle

\* Slip: the timer goes on.
ConnectedKeepsTimer == connRunning' = FALSE /\ UNCHANGED timers

Connected == connRunning' = FALSE /\ hw_timer_del("connect")

\* connect_event_handler; CONNECT has no cleanup.
ConnectEvent ==
  /\ pc = "connect_event"
  /\ \/ evt.kind = "opened" /\ connection_opened(evt.conn, evt.addr)
     \/ evt.kind # "opened" /\ UNCHANGED table
  /\ \/ Established /\ Connected
     \/ ~Established /\ UNCHANGED <<timers, connRunning>>
  /\ IF cmd = "CONNECT" /\ (Established \/ connRet)
     THEN EndCommand
     ELSE UNCHANGED <<cmd, clients>>
  /\ GoOn(EventHandler(IF evt.kind = "opened" THEN NoEvent ELSE evt,
                       FALSE, FALSE))
  /\ UNCHANGED <<new, booted, scanRet, connRet, connHandle, evq, ncp,
                 early, resets>>

\* pair_event_handler, which never ends a command.
PairEvent ==
  /\ pc = "pair_event" /\ Answered
  /\ connection_closed(evt.conn)
  /\ adv' = TRUE
  /\ GoOn("select")
  /\ UNCHANGED <<timers, new, cmd, booted, scanRet, conn, evq, up, reset,
                 link, discovering, clients, early, resets>>

-----------------------------------------------------------------------------
(* A command: server.c:141-214.  select may find a datagram whether or not *)
(* an event waits: events that gecko_wait_response has queued do not make  *)
(* the UART ready.                                                         *)

RecvCommand ==
  /\ pc = "select" /\ ctlq # <<>>
  /\ new' = Head(ctlq).command
  /\ owner' = Head(ctlq).from
  /\ ctlq' = Tail(ctlq)
  /\ early' = (early \/ (~booted /\ resets = 0))
  /\ pc' = IF new'.op \in SingleShot THEN "single_shot" ELSE "cleanup"
  /\ UNCHANGED <<timers, evt, host, evq, ncp, client, kills, resets>>

\* show_cmd_handler changes nothing.
Show ==
  /\ pc = "single_shot" /\ new.op = "SHOW" /\ Answered
  /\ EndCommand
  /\ pc' = "select" /\ new' = NoCommand
  /\ UNCHANGED <<timers, evt, booted, scanRet, conn, table, evq, ncp,
                 early, resets>>

\* set_cmd_handler, then ble_system_reset from set_cleanup.  Without an option
\* it sends nothing that is answered.  Resets on their way to the NCP count as
\* one: what the others could do NcpCrash does.
Set ==
  /\ pc = "single_shot" /\ new.op = "SET"
  /\ resets < MaxResets
  /\ resets' = resets + 1
  /\ reset' = TRUE
  /\ booted' = FALSE
  /\ EndCommand
  /\ pc' = "select" /\ new' = NoCommand
  /\ early' = FALSE
  /\ UNCHANGED <<timers, evt, scanRet, conn, table, evq, up, link, adv,
                 discovering>>

\* connection_cmd_handler with --disconn, called by the loop or by
\* connect_cmd_handler.
Disconnects == \/ pc = "single_shot" /\ new.op = "CONNECTION"
               \/ pc = "command" /\ new.op = "CONNECT_DISCONN"

Disconnect ==
  /\ Disconnects
  /\ \/ /\ ByConn(new.disconn) # {} /\ Answered
        /\ CloseLink(new.disconn)
     \/ /\ ByConn(new.disconn) = {}
        /\ UNCHANGED <<link, evq>>
  /\ EndCommand
  /\ pc' = "select" /\ new' = NoCommand
  /\ UNCHANGED <<timers, evt, booted, scanRet, conn, table, up, reset,
                 adv, discovering, early, resets>>

\* Line 194.  CONNECT has no cleanup, and PAIR is never the running command.
Cleanup ==
  /\ pc = "cleanup"
  /\ \/ cmd = "SCAN" /\ scan_cleanup
     \/ cmd # "SCAN" /\ UNCHANGED <<timers, scanRet, ncp>>
  /\ pc' = "command"
  /\ UNCHANGED <<evt, new, cmd, booted, conn, table, evq, clients, early,
                 resets>>

\* scan_cmd_handler.
Scan ==
  /\ pc = "command" /\ new.op = "SCAN" /\ Answered
  /\ discovering' = TRUE
  /\ scanRet' = FALSE
  /\ hw_timer_add("scan", ScanTimeout)
  /\ cmd' = "SCAN"
  /\ pc' = "select" /\ new' = NoCommand
  /\ UNCHANGED <<evt, booted, conn, table, evq, up, reset, link, adv,
                 clients, early, resets>>

\* pair_cmd_handler.
Pair ==
  /\ pc = "command" /\ new.op = "PAIR" /\ Answered
  /\ adv' = TRUE
  /\ EndCommand
  /\ pc' = "select" /\ new' = NoCommand
  /\ UNCHANGED <<timers, evt, booted, scanRet, conn, table, evq, up,
                 reset, link, discovering, early, resets>>

\* connect_cmd_handler when connect_address finds the address connected, or
\* the NCP refuses.
ConnectReturns ==
  /\ pc = "command" /\ new.op = "CONNECT"
  /\ ByAddr(new.addr) # {} \/ Answered
  /\ connRet' = FALSE
  /\ SetCount("connect", ConnectTimeout)
  /\ connRunning' = TRUE
  /\ EndCommand
  /\ pc' = "select" /\ new' = NoCommand
  /\ UNCHANGED <<evt, booted, scanRet, connHandle, table, evq, ncp, early,
                 resets>>

\* Slip: a timer that runs at the NCP is taken to be listed too.
StartTimerOnce == IF armed["connect"] THEN SetCount("connect", ConnectTimeout)
                                      ELSE hw_timer_add("connect", ConnectTimeout)

StartTimer == hw_timer_add("connect", ConnectTimeout)

\* connect_cmd_handler when the NCP starts to connect.
Connect(h) ==
  /\ pc = "command" /\ new.op = "CONNECT"
  /\ ByAddr(new.addr) = {} /\ Answered
  /\ link[h] = NoLink
  /\ \A g \in Handle : link[g] # NoLink => link[g].addr # new.addr
  /\ connRet' = FALSE
  /\ connRunning' = TRUE
  /\ connHandle' = h
  /\ link' = [link EXCEPT ![h] = [state |-> "pending", addr |-> new.addr]]
  /\ StartTimer
  /\ cmd' = "CONNECT"
  /\ pc' = "select" /\ new' = NoCommand
  /\ UNCHANGED <<evt, booted, scanRet, table, evq, up, reset, adv,
                 discovering, clients, early, resets>>

-----------------------------------------------------------------------------
(* A command to the NCP that is lost *)

SendsCommand ==
  \/ pc = "bootup"
  \/ pc = "timer" /\ Ends(evt.timer)
  \/ pc \in {"scan_event", "pair_event"}
  \/ pc = "single_shot" /\ new.op \in {"SHOW", "SET"}
  \/ pc = "cleanup" /\ cmd = "SCAN"
  \/ pc = "command" /\ new.op \in {"SCAN", "PAIR"}
  \/ pc = "command" /\ new.op = "CONNECT" /\ ByAddr(new.addr) = {}
  \/ Disconnects /\ ByConn(new.disconn) # {}

Hang ==
  /\ SendsCommand /\ ~Answered
  /\ pc' = "hung"
  /\ UNCHANGED <<timers, evt, new, host, evq, ncp, clients, early, resets>>

-----------------------------------------------------------------------------
(* The clients (client.c), one at a time.  A client that is killed, or that *)
(* loses its address to a client started after it (client.c:18), no longer  *)
(* waits; its command is not withdrawn.                                     *)

ClientSends(c) ==
  /\ client = "none"
  /\ c.op = "SET" => resets < MaxResets
  /\ client' = "waiting"
  /\ ctlq' = Append(ctlq, [command |-> c, from |-> "live"])
  /\ UNCHANGED <<timers, pc, evt, new, host, evq, ncp, owner, early,
                 kills, resets>>

ClientKilled ==
  /\ client = "waiting" /\ kills < MaxKills
  /\ kills' = kills + 1
  /\ client' = "none"
  /\ ctlq' = [i \in DOMAIN ctlq |-> [ctlq[i] EXCEPT !.from = "dead"]]
  /\ owner' = IF owner = "live" THEN "dead" ELSE owner
  /\ UNCHANGED <<timers, pc, evt, new, host, evq, ncp, early, resets>>

-----------------------------------------------------------------------------
(* The NCP *)

NcpSends(e) == /\ Len(evq) < QueueCap
               /\ evq' = Append(evq, e)

NcpDown ==
  /\ up
  /\ up' = FALSE /\ reset' = FALSE
  /\ armed' = [t \in Timer |-> FALSE]
  /\ link' = [h \in Handle |-> NoLink]
  /\ adv' = FALSE /\ discovering' = FALSE
  /\ UNCHANGED <<listed, count, pc, evt, new, host, evq, clients>>

NcpReset == reset /\ NcpDown /\ UNCHANGED <<early, resets>>

\* It reboots on its own (a watchdog, a brown-out).
NcpCrash == /\ resets < MaxResets
            /\ resets' = resets + 1
            /\ early' = FALSE
            /\ NcpDown

NcpBoot ==
  /\ ~up
  /\ up' = TRUE
  /\ reset' \in {reset, FALSE}
  /\ evq' = Append(evq, Boot)
  /\ UNCHANGED <<timers, pc, evt, new, host, link, adv, discovering, clients,
                 early, resets>>

NcpTick(t) ==
  /\ up /\ armed[t]
  /\ NcpSends(Tick(t))
  /\ UNCHANGED <<timers, pc, evt, new, host, ncp, clients, early, resets>>

\* The connection attempt succeeds.
NcpOpen(h) ==
  /\ link[h].state = "pending"
  /\ link' = [link EXCEPT ![h].state = "open"]
  /\ NcpSends(Opened(h, link[h].addr))
  /\ UNCHANGED <<timers, pc, evt, new, host, up, reset, adv, discovering,
                 clients, early, resets>>

\* A remote device connects; advertising stops.
NcpAccept(h, a) ==
  /\ adv /\ link[h] = NoLink
  /\ \A g \in Handle : link[g] # NoLink => link[g].addr # a
  /\ link' = [link EXCEPT ![h] = [state |-> "open", addr |-> a]]
  /\ adv' = FALSE
  /\ NcpSends(Opened(h, a))
  /\ UNCHANGED <<timers, pc, evt, new, host, up, reset, discovering, clients,
                 early, resets>>

\* A connection is lost, or an attempt fails.
NcpClose(h) ==
  /\ link[h] # NoLink
  /\ link' = [link EXCEPT ![h] = NoLink]
  /\ NcpSends(Closed(h))
  /\ UNCHANGED <<timers, pc, evt, new, host, up, reset, adv, discovering,
                 clients, early, resets>>

-----------------------------------------------------------------------------
TakesEvent == SkipEvent \/ TakeEvent
HandlesEvent == \/ Bootup \/ ScanTimer \/ ConnectTimer \/ ConnectTimesOut
                \/ ScanEvent \/ ConnectEvent \/ PairEvent
RunsCommand == \/ Show \/ Set \/ Disconnect
               \/ Cleanup \/ Scan \/ Pair \/ ConnectReturns
               \/ \E h \in Handle : Connect(h)

Host == TakesEvent \/ HandlesEvent \/ RecvCommand \/ RunsCommand \/ Hang

Clients == ClientKilled \/ \E c \in Command : ClientSends(c)

Ncp == \/ NcpReset \/ NcpCrash \/ NcpBoot
       \/ \E t \in Timer : NcpTick(t)
       \/ \E h \in Handle : \/ NcpOpen(h) \/ NcpClose(h)
                            \/ \E a \in Addr : NcpAccept(h, a)

Next == Host \/ Clients \/ Ncp

Spec == Init /\ [][Next]_vars

\* A handler that has begun goes on.  select reports both descriptors, and a
\* turn of the loop serves both, so neither starves the other; but an event
\* already queued is taken only when the UART brings another, which is sure
\* while a timer runs: the one of gatt.c after the boot, or one of these.
\* The NCP's reboots end, and the events of a timer get their turn in the
\* queue.
Wakes == booted \/ \E t \in Timer : armed[t]
Fairness ==
  /\ WF_vars(HandlesEvent \/ RunsCommand \/ Hang)
  /\ SF_vars(TakesEvent /\ Wakes) /\ SF_vars(RecvCommand)
  /\ WF_vars(NcpReset) /\ WF_vars(NcpBoot)
  /\ \A t \in Timer : SF_vars(NcpTick(t))

FairSpec == Spec /\ Fairness

-----------------------------------------------------------------------------
(* Properties *)

\* Every variable has its type.
TypeOK ==
  /\ listed \in [Timer -> Nat] /\ count \in [Timer -> Nat]
  /\ armed \in [Timer -> BOOLEAN]
  /\ pc \in {"select", "bootup", "timer", "scan_event", "connect_event",
             "pair_event", "single_shot", "cleanup", "command", "hung"}
  /\ evt \in Event \cup {NoEvent}
  /\ new \in Command \cup {NoCommand}
  /\ cmd \in {"IDLE", "SCAN", "CONNECT"}
  /\ booted \in BOOLEAN /\ scanRet \in BOOLEAN
  /\ connRet \in BOOLEAN /\ connRunning \in BOOLEAN /\ connHandle \in Handle
  /\ table \in Seq([conn : Handle, addr : Addr, used : BOOLEAN])
  /\ evq \in Seq(Event)
  /\ up \in BOOLEAN /\ reset \in BOOLEAN
  /\ link \in [Handle -> Link]
  /\ adv \in BOOLEAN /\ discovering \in BOOLEAN
  /\ ctlq \in Seq([command : Command, from : {"live", "dead"}])
  /\ client \in {"none", "waiting"}
  /\ owner \in {"none", "live", "dead"}
  /\ early \in BOOLEAN
  /\ kills \in 0 .. MaxKills /\ resets \in 0 .. MaxResets

BootQueued == \E i \in DOMAIN evq : evq[i] = Boot

\* A listed timer runs at the NCP, or the loop is about to learn of a reboot
\* that stopped it, the one that is about to happen included (scan.c, connect.c
\* and server.c:107-120 use timer.c so that no command waits for a dead timer).
ListedArmed ==
  \A t \in Timer :
    Listed(t) => armed[t] \/ ~up \/ reset \/ BootQueued \/ pc = "bootup"

\* What is left of the event the handlers run on, as far as the table of
\* connections is concerned, and what will come of the queue.
Unapplied == IF \/ evt.kind = "opened" /\ pc \in {"scan_event", "connect_event"}
                \/ evt.kind = "closed" /\ pc # "select"
             THEN <<evt>> ELSE <<>>
Coming == Unapplied \o evq
About(h) == {i \in DOMAIN Coming : /\ Coming[i].kind \in {"opened", "closed"}
                                   /\ Coming[i].conn = h
                                   /\ booted \/ \E j \in 1 .. i : Coming[j] = Boot}
\* The addresses h will be connected to according to the table.
Known(h) ==
  IF About(h) = {} THEN {table[i].addr : i \in ByConn(h)}
  ELSE LET last == CHOOSE i \in About(h) : \A j \in About(h) : j <= i
       IN IF Coming[last].kind = "opened" THEN {Coming[last].addr} ELSE {}

\* As long as the NCP is not reset, connection_list holds each of its open
\* connections once and nothing else, up to the events on their way: the
\* elements are reused and the events of handles of the NCP, which it reuses
\* too, hit the right one (connection.c:33-88, connect.c:123-129,
\* pair.c:49-57).
TableFollowsLinks ==
  resets = 0 /\ (booted \/ BootQueued) =>
    \A h \in Handle :
      /\ Known(h) = IF link[h].state = "open" THEN {link[h].addr} ELSE {}
      /\ \A i, j \in ByConn(h) : i = j

\* A connection attempt that times out closes the handle it was given
\* (connect.c:46-52).  Without resets that never closes a connection the daemon
\* has been told of, although the attempt may have failed long ago, another
\* command have taken its place, and the NCP have given the handle to another
\* connection.
TimeoutSparesOpen ==
  [][resets = 0 /\ ConnectTimesOut /\ link[connHandle].state = "open"
       => About(connHandle) # {}]_vars

\* Unless clients are killed, the empty datagram that ends a client ends the
\* one whose command is over (server.c:129-134, 148-156, 198-213): it is sent
\* once for each command.
OwnTerminator ==
  [][client = "waiting" /\ client' = "none" /\ kills' = 0 => owner = "live"]_vars

\* The NCP has not been reset since the daemon started, and no command was
\* run before that was over.
Quiet == resets = 0 /\ ~early

\* The command the loop waits for has its timer, or the timer has just expired
\* for the last time: whatever commands and clients came before, nothing that
\* the daemon waits for is without an end (server.c:123-138, 194-213).  Between
\* the cleanup and the new command the old one still is cmd.
CommandTimed ==
  Quiet /\ pc # "command" =>
    /\ cmd = "SCAN" => discovering /\ (scanRet \/ Listed("scan"))
    /\ cmd = "CONNECT" => connRet \/ Listed("connect")

\* A client's wait ends, unless the NCP was reset or a command was run too
\* early.
ClientTerminated == client = "waiting" ~> client = "none" \/ ~Quiet

\* "[ --timeout  ] : set scan timeout" (options.c:440).  The code does not keep
\* it, even if the NCP is never reset: a single-shot command takes the place of
\* a running scan, whose client was killed, without its cleanup
\* (server.c:147-156), and nothing ends the scan any more.
ScanEnds == discovering ~> ~discovering \/ ~Quiet
=============================================================================
