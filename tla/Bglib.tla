-------------------------------- MODULE Bglib --------------------------------
(***************************************************************************)
(* The host side of the BGAPI protocol: gecko_bglib.c over the UART of     *)
(* uart_posix.c, driven by the main loop of server.c.  One action per      *)
(* turn of the loops in gecko_get_event, gecko_wait_response and           *)
(* schostd_main.  What the handlers of the loop do is left open: they send *)
(* up to MaxCmds commands, and may reset the NCP.  Module Daemon says what *)
(* they really do.                                                         *)
(*                                                                         *)
(* The NCP (the Bluetooth chip, not in this repository) is the             *)
(* environment: it answers commands in order, sends events when it likes,  *)
(* and loses what reaches it while it reboots.                             *)
(***************************************************************************)
EXTENDS Integers, Sequences

CONSTANTS
  QLEN,        \* BGLIB_QUEUE_LEN, the number of slots of the ring
  OneShot,     \* events the NCP sends at most once each
  Command,     \* commands of the handlers, besides "arm"
  MaxCmds,     \* bound: commands one run of the handlers sends
  MaxResets,   \* bound: resets in a behaviour, the one at startup excluded
  MaxClients,  \* bound: datagrams the clients send in a behaviour
  MaxDebris,   \* bound: calls that read on in the middle of a message
  WireCap      \* bound: messages in flight when the NCP sends another event

ASSUME QLENAssumption == QLEN \in Nat \ {0}
ASSUME BoundsAssumption == /\ MaxCmds \in Nat
                           /\ MaxResets \in Nat
                           /\ MaxClients \in Nat
                           /\ MaxDebris \in Nat
                           /\ WireCap \in Nat

NoEvent == "no event"
NoCmd   == "no command"
NoSlot  == -1       \* no event is being handled
RspBuf  == -2       \* gecko_get_event returned gecko_rsp_msg

\* gecko_evt_system_boot_id, the soft timer of gatt.c that repeats every 5
\* seconds, and the rest.
Event == OneShot \cup {"boot", "tick"}
\* "arm" is gecko_cmd_hardware_set_soft_timer for the timer of gatt.c.
Request == Command \cup {"arm"}
Slots == 0 .. QLEN - 1

\* What gecko_wait_message finds on the wire: a whole message, or the rest of
\* one whose start is gone, from which on at most n calls read what is none.
Message == [kind : {"evt"}, id : Event] \cup [kind : {"rsp"}, id : Request]
             \cup [kind : {"junk"}, n : 1 .. MaxDebris]
EvtMsg(e) == [kind |-> "evt", id |-> e]
RspMsg(c) == [kind |-> "rsp", id |-> c]
Junk(n)   == [kind |-> "junk", n |-> n]

\* What is left of a message that was read up to somewhere in it, or to its end.
Debris(n) == {<<>>} \cup {<<Junk(m)>> : m \in 1 .. n}

ASSUME NamesAssumption == /\ NoEvent \notin Event
                          /\ NoCmd \notin Request
                          /\ "reset" \notin Request

VARIABLES
  wire,      \* messages from the NCP the host has not read (the tty's buffer)
  late,      \* what the NCP has still to send to an earlier daemon
  cmdq,      \* commands from the host the NCP has not processed
  queue,     \* gecko_queue
  w, r,      \* gecko_queue_w, gecko_queue_r
  rsp,       \* gecko_rsp_msg
  sent,      \* the last command sent with gecko_handle_command
  lost,      \* an event has been dropped for want of room
  pc,        \* where the daemon is
  back,      \* where gecko_handle_command returns to
  cur,       \* the slot evt points to while it is handled
  ready,     \* rfdset, as select left it
  ncmd,      \* commands sent in this run of the handlers
  booted,    \* sc_host_bootup
  ctl,       \* a datagram waits at the control socket
  up,        \* the NCP runs
  ticking,   \* its periodic soft timer is armed
  unsent,    \* the one-shot events it has not sent
  resets,    \* resets so far
  clients,   \* datagrams the clients have sent so far
  clean      \* history: when the latest command was sent, or at the start,
             \* nothing but events was under way

ring  == <<queue, w, r, lost>>
host  == <<rsp, sent, pc, back, cur, ready, ncmd, booted>>
ncp   == <<up, ticking, unsent, late>>
rest  == <<resets, clients>>
env   == <<ctl, ncp, rest, clean>>
vars  == <<wire, late, cmdq, queue, w, r, rsp, sent, lost, pc, back, cur, ready,
           ncmd, booted, ctl, up, ticking, unsent, resets, clients, clean>>

\* The daemon has just sent the first reset (server.c:77).  uartOpen flushed
\* the tty before that, four bytes at a time as long as there were four
\* (uart_posix.c:78): the rest of a message may be left or still come in, and
\* the response to the last command of a daemon that was killed.
Init == /\ wire = <<>>
        /\ late \in {d \o s : d \in Debris(MaxDebris), s \in {<<>>} \cup {<<RspMsg(c)>> : c \in Command}}
        /\ clean = (late = <<>>)
        /\ cmdq = <<"reset">>
        /\ queue = [s \in Slots |-> NoEvent]
        /\ w = 0 /\ r = 0
        /\ rsp = NoCmd /\ sent = NoCmd
        /\ lost = FALSE
        /\ pc = "select" /\ back = "select"
        /\ cur = NoSlot
        /\ ready = {}
        /\ ncmd = 0
        /\ booted = FALSE
        /\ ctl = FALSE
        /\ up = TRUE /\ ticking = FALSE
        /\ unsent = OneShot
        /\ resets = 0 /\ clients = 0

-----------------------------------------------------------------------------
(* gecko_wait_message *)

\* Slips the properties must notice (each replaces the definition below it in
\* a run of its own): no wrap-around, no test for a full ring.
SuccNoWrap(i) == i + 1
RingNeverFull == FALSE

Succ(i) == (i + 1) % QLEN
RingFull == Succ(w) = r

\* Lines 26-37: an event goes to the slot at gecko_queue_w, if that leaves a
\* free slot before gecko_queue_r; its payload is thrown away otherwise.
StoreEvent(e) == /\ ~RingFull
                 /\ queue' = [queue EXCEPT ![w] = e]
                 /\ w' = Succ(w)
                 /\ UNCHANGED <<r, lost>>
DropEvent == /\ RingFull
             /\ lost' = TRUE
             /\ UNCHANGED <<queue, w, r>>

\* The rest of a message is read as if it were one (lines 11-24): its first
\* byte, a header, or also the payload that this seems to announce, which may
\* end anywhere in what follows, also in the middle of a message.
Tails == {SubSeq(wire, k, Len(wire)) : k \in 2 .. Len(wire) + 1}
Misread(n) == {d \o t : d \in Debris(n - 1), t \in Tails}

\* One call that returns 0: an event was queued or dropped, or what was read
\* was no message.
WaitMessageNull ==
  /\ wire # <<>>
  /\ \/ /\ Head(wire).kind = "evt"
        /\ wire' = Tail(wire)
        /\ StoreEvent(Head(wire).id) \/ DropEvent
     \/ /\ Head(wire).kind = "junk"
        /\ wire' \in Misread(Head(wire).n)
        /\ (\E e \in Event : StoreEvent(e)) \/ DropEvent \/ UNCHANGED ring
  /\ UNCHANGED rsp

\* One call that returns a response: it overwrites gecko_rsp_msg.
WaitMessageResponse ==
  /\ wire # <<>>
  /\ \/ Head(wire).kind = "rsp" /\ wire' = Tail(wire) /\ rsp' = Head(wire).id
     \/ /\ Head(wire).kind = "junk"
        /\ wire' \in Misread(Head(wire).n)
        /\ rsp' \in Request
  /\ UNCHANGED ring

-----------------------------------------------------------------------------
(* gecko_get_event(0), called from the loop of server.c *)

\* Slip: gecko_queue_r is not moved.
PeekQueuedKeeps ==
  /\ pc = "peek" /\ w # r
  /\ cur' = r
  /\ pc' = "dispatch"
  /\ UNCHANGED <<wire, cmdq, ring, rsp, sent, back, ready, ncmd, booted, env>>

PeekQueued ==
  /\ pc = "peek" /\ w # r
  /\ cur' = r
  /\ r' = Succ(r)
  /\ pc' = "dispatch"
  /\ UNCHANGED <<wire, cmdq, queue, w, rsp, sent, lost, back, ready, ncmd,
                 booted, env>>

PeekNull ==
  /\ pc = "peek" /\ w = r
  /\ wire = <<>>
  /\ pc' = "select"
  /\ UNCHANGED <<wire, cmdq, ring, rsp, sent, back, cur, ready, ncmd, booted,
                 env>>

PeekRead ==
  /\ pc = "peek" /\ w = r
  /\ WaitMessageNull
  /\ UNCHANGED <<cmdq, sent, pc, back, cur, ready, ncmd, booted, env>>

\* The loop of gecko_get_event returns whatever gecko_wait_message returns.
PeekResponse ==
  /\ pc = "peek" /\ w = r
  /\ WaitMessageResponse
  /\ cur' = RspBuf
  /\ pc' = "dispatch"
  /\ UNCHANGED <<cmdq, sent, back, ready, ncmd, booted, env>>

(* gecko_handle_command: bglib_output, then gecko_wait_response *)

\* No response is under way, or what might be taken for one.
Quiet == /\ late = <<>> /\ cur # RspBuf
         /\ \A i \in DOMAIN wire : wire[i].kind = "evt"
         /\ \A i \in DOMAIN cmdq : cmdq[i] = "reset"

Output(c, ret) == /\ cmdq' = Append(cmdq, c)
                  /\ sent' = c
                  /\ pc' = "wait"
                  /\ back' = ret
                  /\ clean' = (clean \/ Quiet)

\* Slip: gecko_wait_response returns at the first message, without its loop.
WaitReadOnce ==
  /\ pc = "wait"
  /\ WaitMessageNull
  /\ pc' = back
  /\ UNCHANGED <<cmdq, sent, back, cur, ready, ncmd, booted, env>>

WaitRead ==
  /\ pc = "wait"
  /\ WaitMessageNull
  /\ UNCHANGED <<cmdq, sent, pc, back, cur, ready, ncmd, booted, env>>

WaitReturn ==
  /\ pc = "wait"
  /\ WaitMessageResponse
  /\ pc' = back
  /\ UNCHANGED <<cmdq, sent, back, cur, ready, ncmd, booted, env>>

-----------------------------------------------------------------------------
(* The loop of schostd_main *)

\* The event behind evt, as the loop and the handlers read it now.
Evt == IF cur \in Slots THEN queue[cur] ELSE NoEvent

\* select looks at the two descriptors and at nothing else.
Select ==
  /\ pc = "select"
  /\ ready' = {fd \in {"uart", "ctl"} : IF fd = "uart" THEN wire # <<>> ELSE ctl}
  /\ ready' # {}
  /\ pc' = IF "uart" \in ready' THEN "peek" ELSE "ctl"
  /\ UNCHANGED <<wire, cmdq, ring, rsp, sent, back, cur, ncmd, booted, env>>

\* Lines 97-104: before the NCP has booted every other event is skipped, and
\* so is the control socket.
DispatchSkip ==
  /\ pc = "dispatch"
  /\ ~booted
  /\ Evt # "boot"
  /\ cur' = NoSlot
  /\ pc' = "select"
  /\ UNCHANGED <<wire, cmdq, ring, rsp, sent, back, ready, ncmd, booted, env>>

\* Lines 98-116: the boot handlers arm the periodic timer (gatt.c:125).
DispatchBoot ==
  /\ pc = "dispatch"
  /\ Evt = "boot"
  /\ booted' = TRUE
  /\ Output("arm", "handle")
  /\ UNCHANGED <<wire, ring, rsp, cur, ready, ncmd, ctl, ncp, rest>>

Dispatch ==
  /\ pc = "dispatch"
  /\ booted
  /\ Evt # "boot"
  /\ pc' = "handle"
  /\ UNCHANGED <<wire, cmdq, ring, rsp, sent, back, cur, ready, ncmd, booted,
                 env>>

\* The end of lines 123-139.
EndHandle ==
  /\ pc = "handle"
  /\ cur' = NoSlot
  /\ ncmd' = 0
  /\ pc' = IF "ctl" \in ready THEN "ctl" ELSE "select"
  /\ UNCHANGED <<wire, cmdq, ring, rsp, sent, back, ready, booted, env>>

\* Lines 141-142: the control socket is read; the command handler runs, with
\* no look at sc_host_bootup.
RecvCtl ==
  /\ pc = "ctl"
  /\ ctl' = FALSE
  /\ pc' = "command"
  /\ UNCHANGED <<wire, cmdq, ring, rsp, sent, back, cur, ready, ncmd, booted,
                 ncp, rest, clean>>

EndCommand ==
  /\ pc = "command"
  /\ ncmd' = 0
  /\ pc' = "select"
  /\ UNCHANGED <<wire, cmdq, ring, rsp, sent, back, cur, ready, booted, env>>

\* A handler of the loop sends a command.
SendCommand(c) ==
  /\ pc \in {"handle", "command"}
  /\ ncmd < MaxCmds
  /\ ncmd' = ncmd + 1
  /\ Output(c, pc)
  /\ UNCHANGED <<wire, ring, rsp, cur, ready, booted, ctl, ncp, rest>>

\* ble_system_reset (app.c) clears sc_host_bootup, dfu_reset (upgrade.c) does
\* not; neither waits for a response.
SendReset(clear) ==
  /\ pc \in {"handle", "command"}
  /\ resets < MaxResets
  /\ resets' = resets + 1
  /\ cmdq' = Append(cmdq, "reset")
  /\ booted' = (booted /\ ~clear)
  /\ UNCHANGED <<wire, ring, rsp, sent, pc, back, cur, ready, ncmd, ctl, ncp,
                 clients, clean>>

-----------------------------------------------------------------------------
(* The environment *)

\* A client sends a command (client.c).
ClientSend ==
  /\ ~ctl /\ clients < MaxClients
  /\ ctl' = TRUE
  /\ clients' = clients + 1
  /\ UNCHANGED <<wire, cmdq, ring, host, ncp, resets, clean>>

\* What was sent to an earlier daemon comes before anything else.
NcpLate ==
  /\ late # <<>>
  /\ wire' = Append(wire, Head(late))
  /\ late' = Tail(late)
  /\ UNCHANGED <<cmdq, ring, host, ctl, up, ticking, unsent, rest, clean>>

\* The NCP takes the next command and answers it.
NcpRespond ==
  /\ up /\ late = <<>>
  /\ cmdq # <<>> /\ Head(cmdq) # "reset"
  /\ cmdq' = Tail(cmdq)
  /\ wire' = Append(wire, RspMsg(Head(cmdq)))
  /\ ticking' = (ticking \/ Head(cmdq) = "arm")
  /\ UNCHANGED <<ring, host, ctl, up, unsent, late, rest, clean>>

\* It has sent its messages before it goes down.
NcpReset ==
  /\ up /\ late = <<>>
  /\ cmdq # <<>> /\ Head(cmdq) = "reset"
  /\ cmdq' = Tail(cmdq)
  /\ up' = FALSE
  /\ ticking' = FALSE
  /\ UNCHANGED <<wire, ring, host, ctl, unsent, late, rest, clean>>

\* While it reboots nobody reads its UART.
NcpLose ==
  /\ ~up
  /\ cmdq # <<>>
  /\ cmdq' = Tail(cmdq)
  /\ UNCHANGED <<wire, ring, host, env>>

NcpSend(e) == /\ Len(wire) < WireCap /\ late = <<>>
              /\ wire' = Append(wire, EvtMsg(e))

\* Not subject to WireCap: there is one boot event for each reset.
NcpBoot ==
  /\ ~up
  /\ up' = TRUE
  /\ wire' = Append(wire, EvtMsg("boot"))
  /\ UNCHANGED <<cmdq, ring, host, ctl, ticking, unsent, late, rest, clean>>

NcpEvent(e) ==
  /\ up
  /\ e \in unsent
  /\ NcpSend(e)
  /\ unsent' = unsent \ {e}
  /\ UNCHANGED <<cmdq, ring, host, ctl, up, ticking, late, rest, clean>>

NcpTick ==
  /\ up /\ ticking
  /\ NcpSend("tick")
  /\ UNCHANGED <<cmdq, ring, host, env>>

-----------------------------------------------------------------------------
Host == \/ Select \/ PeekQueued \/ PeekNull \/ PeekRead \/ PeekResponse
        \/ WaitRead \/ WaitReturn
        \/ DispatchSkip \/ DispatchBoot \/ Dispatch \/ EndHandle
        \/ RecvCtl \/ EndCommand
        \/ \E c \in Command : SendCommand(c)
        \/ \E clear \in BOOLEAN : SendReset(clear)

Ncp == \/ NcpLate \/ NcpRespond \/ NcpReset \/ NcpLose \/ NcpBoot
       \/ \E e \in OneShot : NcpEvent(e)
       \/ NcpTick

Next == Host \/ Ncp \/ ClientSend

Spec == Init /\ [][Next]_vars

\* The daemon keeps running while it is not blocked in select or in read; the
\* NCP works through its commands, ends its reboots, and its armed timer
\* keeps expiring.
Fairness == /\ WF_vars(Host)
            /\ WF_vars(NcpLate \/ NcpRespond \/ NcpReset)
            /\ WF_vars(NcpBoot)
            /\ WF_vars(NcpTick)

FairSpec == Spec /\ Fairness

-----------------------------------------------------------------------------
(* Types *)

\* Every variable of Bglib has its type.
TypeOK ==
  /\ wire \in Seq(Message) /\ late \in Seq(Message)
  /\ cmdq \in Seq(Request \cup {"reset"})
  /\ queue \in [Slots -> Event \cup {NoEvent}]
  /\ w \in Slots /\ r \in Slots
  /\ rsp \in Request \cup {NoCmd}
  /\ sent \in Request \cup {NoCmd}
  /\ lost \in BOOLEAN
  /\ pc \in {"select", "peek", "dispatch", "handle", "ctl", "command", "wait"}
  /\ back \in {"select", "handle", "command"}
  /\ cur \in Slots \cup {NoSlot, RspBuf}
  /\ ready \in SUBSET {"uart", "ctl"}
  /\ ncmd \in 0 .. MaxCmds
  /\ booted \in BOOLEAN /\ ctl \in BOOLEAN
  /\ up \in BOOLEAN /\ ticking \in BOOLEAN
  /\ unsent \in SUBSET OneShot
  /\ resets \in 0 .. MaxResets
  /\ clients \in 0 .. MaxClients
  /\ clean \in BOOLEAN

-----------------------------------------------------------------------------
(* The ring buffer implements the event queue *)

\* How many slots there are from slot i up to slot j, and the k-th after i.
Count(i, j) == IF j >= i THEN j - i ELSE j - i + QLEN
Slot(i, k) == IF i + k < QLEN THEN i + k ELSE i + k - QLEN

\* The events waiting in gecko_queue, oldest first.
Waiting == [k \in 1 .. Count(r, w) |-> queue[Slot(r, k - 1)]]

Fifo == INSTANCE EventFifo WITH
          Capacity <- QLEN - 1, q <- Waiting, out <- Evt, lost <- lost

\* The ring of gecko_bglib.c is a first-in first-out queue of QLEN - 1 events
\* that loses an event only when it is full; and the event a handler was
\* given stays what it was until the handlers are done, although they read
\* more events into the ring while they wait for their responses
\* (gecko_bglib.c:28-37 against 79-82).
ImplementsFifo == Fifo!Spec

-----------------------------------------------------------------------------
(* Commands and responses *)

\* Once a command has been sent while nothing was under way that is, or could
\* be taken for, a response, each command handler sees the response to its own
\* command, and no response is taken for an event (gecko_bglib.c:38-39, 90-91,
\* 106-115).  Before that the rest of a message or a late response to an earlier
\* daemon may be paired with a command.
ResponseIsOwn ==
  clean => /\ pc # "wait" /\ sent # NoCmd => rsp = sent
           /\ cur # RspBuf

\* "Function then waits for response and return pointer to that message"
\* (gecko_bglib.h:61).  The code does not keep it: a command that reaches the
\* NCP during a reboot is never answered, and the daemon waits for ever.
CommandAnswered == pc = "wait" ~> pc # "wait"

-----------------------------------------------------------------------------
(* Delivery *)

InQueue(e) == \E k \in 1 .. Count(r, w) : Waiting[k] = e

\* The host waits, and no response is on its way.
Hung == /\ pc = "wait"
        /\ \A i \in 1 .. Len(wire) : wire[i].kind # "rsp"
        /\ late = <<>>
        /\ cmdq = <<>> \/ cmdq[1] = "reset"

\* While the timer of gatt.c is armed, an event that was queued during the
\* wait for a response is handed to the loop, unless the host hangs.
QueuedDelivered ==
  \A e \in OneShot \cup {"boot"} :
    InQueue(e) /\ ticking ~> ~InQueue(e) \/ ~ticking \/ Hung
=============================================================================
