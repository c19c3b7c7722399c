------------------------------- MODULE Discover -------------------------------
(***************************************************************************)
(* The command DISCOVER: discover.c with its queue of requests and its     *)
(* timer, the lists of attributes of service.c, and the parts of the loop, *)
(* of connection.c and of the other commands that meet it.                 *)
(*                                                                         *)
(* A handler is one action, as in Daemon; here the NCP answers every       *)
(* command, and its reboot is over when the loop hears of it.  All devices *)
(* have the same attributes, so handles of attributes mean the same        *)
(* attribute on every connection, and no two attributes of a device share  *)
(* a uuid.                                                                 *)
(***************************************************************************)
EXTENDS HwTimer, Sequences, FiniteSets

CONSTANTS
  Handle,                               \* connection handles
  Service, Characteristic, Descriptor,  \* attributes of a device
  ParentOf,      \* the service of a characteristic, that of a descriptor, ...
  MaxCommands,   \* bound: commands in a behaviour
  MaxCloses,     \* bound: connections closed in a behaviour
  MaxResets,     \* bound: reboots of the NCP
  QueueCap       \* bound: events on their way when the NCP sends another

Device == "device"   \* ... and of a service
Attr == Service \cup Characteristic \cup Descriptor

ASSUME BoundsAssumption == /\ MaxCommands \in Nat
                           /\ MaxCloses \in Nat
                           /\ MaxResets \in Nat
                           /\ QueueCap \in Nat
ASSUME TreeAssumption ==
  /\ ParentOf \in [Attr -> {Device} \cup Attr]
  /\ \A s \in Service : ParentOf[s] = Device
  /\ \A c \in Characteristic : ParentOf[c] \in Service
  /\ \A d \in Descriptor : ParentOf[d] \in Characteristic
  /\ {Device, "idle"} \cap Attr = {}
ASSUME HandleAssumption == "nobody" \notin Handle
ASSUME TimersAssumption == Timer = {"discover"}

\* discover_request_t: the children of an attribute, or of the device, are
\* wanted.
Request == [conn : Handle, of : {Device} \cup Service \cup Characteristic]
Req(h, a) == [conn |-> h, of |-> a]
Children(a) == {b \in Attr : ParentOf[b] = a}

Tick         == [kind |-> "tick"]
Boot         == [kind |-> "boot"]
Other        == [kind |-> "other"]
Found(h, a)  == [kind |-> "found", conn |-> h, attr |-> a]
Completed(h) == [kind |-> "completed", conn |-> h]
Opened(h)    == [kind |-> "opened", conn |-> h]
Closed(h)    == [kind |-> "closed", conn |-> h]
Event == {Tick, Boot, Other} \cup {Found(h, a) : h \in Handle, a \in Attr}
           \cup [kind : {"completed", "opened", "closed"}, conn : Handle]

\* SHOW stands for the single-shot commands, SCAN for those that neither are
\* single-shot nor start a procedure of the NCP's GATT client.
Command == [op : {"DISCOVER", "GATT"}, conn : Handle]
             \cup [op : {"SHOW", "SCAN"}]
NoCommand == [op |-> "none"]
Nobody == "nobody"

\* An entry of the lists of a connection.
Entry == [attr : Service, parent : {Device}]
           \cup [attr : Characteristic, parent : Service]
           \cup [attr : Descriptor, parent : Characteristic]
Idle == {"idle"}

VARIABLES
  queue,    \* discover_request_queue
  stop,     \* discover_timer.ret is BLE_EVENT_STOP
  cmd,      \* cmd: DISCOVER or another, OPT_IDLE included
  new,      \* a command that has been received but not run
  table,    \* connection_list: each element's connection, if it is used, and
            \* its lists of attributes
  crashed,  \* discover_request_get() was NULL and used
  link,     \* the connections of the NCP
  proc,     \* the results its procedures still have to report
  evq,      \* events the loop has not taken
  target,   \* history: the connection being discovered, if it has not closed
  calm,     \* history: no procedure has been mistaken for another
  commands, closes, resets

host == <<queue, stop, cmd, new, table, crashed>>
ncp  == <<link, proc>>
past == <<target, calm>>
bounds == <<commands, closes, resets>>
vars == <<timers, host, ncp, evq, past, bounds>>

Init ==
  /\ HwTimerInit
  /\ queue = <<>> /\ stop = FALSE
  /\ cmd = "OTHER" /\ new = NoCommand
  /\ table = <<>>
  /\ crashed = FALSE
  /\ link = {} /\ proc = [h \in Handle |-> Idle]
  /\ evq = <<>>
  /\ target = Nobody /\ calm = TRUE
  /\ commands = 0 /\ closes = 0 /\ resets = 0

Running == {h \in Handle : proc[h] # Idle}
\* The loop has yet to hear of the connection.
InFlight(h) == \E i \in DOMAIN evq : /\ evq[i] \notin {Tick, Boot, Other}
                                      /\ evq[i].conn = h
\* The NCP works for the GATT client, or the loop has not yet heard all of it.
Busy == \E h \in Handle : h \in Running \/ InFlight(h)

\* connection_list, as in Daemon; an unused element is one of nobody.
First(S) == CHOOSE i \in S : \A j \in S : i <= j
Elements(h) == {i \in DOMAIN table : table[i].conn = h}
Open(h) == Elements(h) # {}
Element(h) == [conn |-> h, attrs |-> {}]

connection_opened(h) ==
  table' = IF Open(Nobody)
           THEN [table EXCEPT ![First(Elements(Nobody))] = Element(h)]
           ELSE <<Element(h)>> \o table

connection_closed(h) ==
  table' = IF Open(h)
           THEN [table EXCEPT ![First(Elements(h))] = Element(Nobody)]
           ELSE table

-----------------------------------------------------------------------------
(* Events: the loop of server.c from line 92 to line 139 *)

Takes(e) == /\ ~crashed /\ new = NoCommand
            /\ evq # <<>> /\ Head(evq) = e
            /\ evq' = Tail(evq)

\* discover_event_handler returns discover_timer.ret, whatever the event; the
\* loop then cleans up.  The handlers left that value and the queue behind.
EndsOrGoesOn(ret, q) ==
  /\ stop' = ret
  /\ \/ /\ cmd = "DISCOVER" /\ ret
        /\ queue' = <<>>
        /\ hw_timer_del("discover")
        /\ cmd' = "OTHER"
     \/ /\ ~(cmd = "DISCOVER" /\ ret)
        /\ queue' = q
        /\ UNCHANGED <<timers, cmd>>

\* Slips: the youngest request is run; the request is removed as it starts.
RunsLast == queue[Len(queue)]
QueueStarted == Tail(queue)

\* discover_request_get
Runs == Head(queue)
\* The queue after discover_timer_handler.
QueueAfterStart == queue

\* hw_timer_list_update, for an endless timer, only calls its callback,
\* discover_timer_handler.  The NCP refuses a second procedure on a connection
\* and a procedure on none.
HandleTick ==
  /\ Takes(Tick)
  /\ IF Listed("discover") /\ queue # <<>>
     THEN LET h == Runs.conn IN
          /\ proc' = IF h \in link /\ proc[h] = Idle
                     THEN [proc EXCEPT ![h] = Children(Runs.of)] ELSE proc
          /\ calm' = (calm /\ (proc' # proc => ~InFlight(h)))
          /\ EndsOrGoesOn(FALSE, QueueAfterStart)
     ELSE /\ UNCHANGED <<proc, calm>>
          /\ EndsOrGoesOn(stop \/ Listed("discover"), queue)
  /\ UNCHANGED <<new, table, crashed, link, target, bounds>>

\* hw_timer_list_clear and discover_bootup_handler; the table of connections
\* stays as it is (command.c:39).
HandleBoot ==
  /\ Takes(Boot)
  /\ hw_timer_list_clear
  /\ queue' = <<>>
  /\ cmd' = IF cmd = "DISCOVER" /\ stop THEN "OTHER" ELSE cmd
  /\ UNCHANGED <<stop, new, table, crashed, ncp, past, bounds>>

HandleOther ==
  /\ Takes(Other)
  /\ EndsOrGoesOn(stop, queue)
  /\ UNCHANGED <<new, table, crashed, ncp, past, bounds>>

HandleOpened(h) ==
  /\ Takes(Opened(h))
  /\ connection_opened(h)
  /\ EndsOrGoesOn(stop, queue)
  /\ UNCHANGED <<new, crashed, ncp, past, bounds>>

\* Slip: the requests of a closed connection stay.
ClearNone(h) == queue

\* The elements of s at the indices in I, in their order.
Nth(I, k) == CHOOSE i \in I : Cardinality({j \in I : j <= i}) = k
Subsequence(s, I) == [k \in 1 .. Cardinality(I) |-> s[Nth(I, k)]]

discover_clear_by_connection(h) ==
  Subsequence(queue, {i \in DOMAIN queue : queue[i].conn # h})

HandleClosed(h) ==
  /\ Takes(Closed(h))
  /\ connection_closed(h)
  /\ EndsOrGoesOn(stop,
                  IF Open(h) THEN discover_clear_by_connection(h) ELSE queue)
  /\ target' = IF target = h THEN Nobody ELSE target
  /\ UNCHANGED <<new, crashed, ncp, calm, bounds>>

HandleCompleted(h) ==
  /\ Takes(Completed(h))
  /\ EndsOrGoesOn(stop, IF queue = <<>> THEN queue ELSE Tail(queue))
  /\ UNCHANGED <<new, table, crashed, ncp, past, bounds>>

Lists(h) == table[First(Elements(h))].attrs
Known(h) == IF Open(h) THEN {x.attr : x \in Lists(h)} ELSE {}

\* Slip: what kind of request the head is does not matter.
ParentAny(h, a) == TRUE

\* The parent of a characteristic or descriptor is whatever the head of the
\* queue asks for, if it is of the right kind and known.
ParentFound(h, a) ==
  /\ Head(queue).of \in Known(h)
  /\ Head(queue).of \in IF a \in Characteristic THEN Service ELSE Characteristic

\* service_add, characteristic_add and descriptor_add, which keep what they
\* know (a descriptor is known by its characteristic, too).
Add(h, a, p) ==
  table' = IF a \in Known(h) /\ a \notin Descriptor THEN table
           ELSE [table EXCEPT ![First(Elements(h))].attrs =
                                @ \cup {[attr |-> a, parent |-> p]}]

\* discover_characteristics, discover_descriptors
Ask(h, a) == Append(queue, Req(h, a))

HandleService(h, a) ==
  /\ a \in Service /\ Open(h)
  /\ Takes(Found(h, a))
  /\ Add(h, a, Device)
  /\ EndsOrGoesOn(stop, Ask(h, a))
  /\ UNCHANGED <<new, crashed, ncp, past, bounds>>

HandleChild(h, a) ==
  /\ a \notin Service /\ Open(h)
  /\ queue # <<>> /\ ParentFound(h, a)
  /\ Takes(Found(h, a))
  /\ Add(h, a, Head(queue).of)
  /\ EndsOrGoesOn(stop, IF a \in Characteristic THEN Ask(h, a) ELSE queue)
  /\ UNCHANGED <<new, crashed, ncp, past, bounds>>

\* Nothing is known of the connection, or of the parent.
HandleStray(h, a) ==
  /\ Open(h) => a \notin Service /\ queue # <<>> /\ ~ParentFound(h, a)
  /\ Takes(Found(h, a))
  /\ EndsOrGoesOn(stop, queue)
  /\ UNCHANGED <<new, table, crashed, ncp, past, bounds>>

\* Lines 260 and 290: the queue is empty.
Crash(h, a) ==
  /\ a \notin Service /\ Open(h) /\ queue = <<>>
  /\ Takes(Found(h, a))
  /\ crashed' = TRUE
  /\ UNCHANGED <<timers, queue, stop, cmd, new, table, ncp, past, bounds>>

-----------------------------------------------------------------------------
(* Commands: server.c:141-214 *)

Receives(c) == /\ ~crashed /\ new = NoCommand
               /\ commands < MaxCommands
               /\ commands' = commands + 1

\* A single-shot command takes the place of the running one without its
\* cleanup.
SingleShot(c) ==
  /\ c.op = "SHOW" /\ Receives(c)
  /\ cmd' = "OTHER"
  /\ UNCHANGED <<timers, queue, stop, new, table, crashed, ncp, evq, past,
                 closes, resets>>

\* Line 194, with discover_cleanup.
Cleanup(c) ==
  /\ c.op # "SHOW" /\ Receives(c)
  /\ new' = c
  /\ \/ cmd = "DISCOVER" /\ queue' = <<>> /\ hw_timer_del("discover")
     \/ cmd # "DISCOVER" /\ UNCHANGED <<queue, timers>>
  /\ calm' = (calm /\ ~Busy)
  /\ UNCHANGED <<stop, cmd, table, crashed, ncp, evq, target, closes, resets>>

\* discover_cmd_handler
discover_cmd_handler ==
  /\ new.op = "DISCOVER"
  /\ queue = <<>> /\ Open(new.conn)
  /\ queue' = <<Req(new.conn, Device)>>
  /\ hw_timer_add("discover", HW_TIMER_INFINITY)
  /\ cmd' = "DISCOVER" /\ new' = NoCommand
  /\ target' = new.conn
  /\ UNCHANGED <<stop, table, crashed, ncp, evq, calm, bounds>>

Refused ==
  /\ new.op = "DISCOVER"
  /\ queue # <<>> \/ ~Open(new.conn)
  /\ cmd' = "OTHER" /\ new' = NoCommand
  /\ UNCHANGED <<timers, queue, stop, table, crashed, ncp, evq, past, bounds>>

\* A read or write of a characteristic of the connection.
Gatt ==
  /\ new.op = "GATT"
  /\ proc' = IF /\ new.conn \in link /\ proc[new.conn] = Idle
                /\ Known(new.conn) \cap Characteristic # {}
             THEN [proc EXCEPT ![new.conn] = {}] ELSE proc
  /\ calm' = (calm /\ (proc' # proc => queue = <<>>))
  /\ cmd' = "OTHER" /\ new' = NoCommand
  /\ UNCHANGED <<timers, queue, stop, table, crashed, link, evq, target,
                 bounds>>

Scan ==
  /\ new.op = "SCAN"
  /\ cmd' = "OTHER" /\ new' = NoCommand
  /\ UNCHANGED <<timers, queue, stop, table, crashed, ncp, evq, past, bounds>>

-----------------------------------------------------------------------------
(* The NCP *)

NcpSends(e) == /\ Len(evq) < QueueCap
               /\ evq' = Append(evq, e)

NcpTick == /\ armed["discover"]
           /\ NcpSends(Tick)
           /\ UNCHANGED <<timers, host, ncp, past, bounds>>

NcpOther == /\ NcpSends(Other)
            /\ UNCHANGED <<timers, host, ncp, past, bounds>>

NcpFinds(h, a) ==
  /\ h \in Running /\ a \in proc[h]
  /\ proc' = [proc EXCEPT ![h] = @ \ {a}]
  /\ NcpSends(Found(h, a))
  /\ UNCHANGED <<timers, host, link, past, bounds>>

NcpCompletes(h) ==
  /\ proc[h] = {}
  /\ proc' = [proc EXCEPT ![h] = Idle]
  /\ NcpSends(Completed(h))
  /\ UNCHANGED <<timers, host, link, past, bounds>>

NcpOpen(h) ==
  /\ h \notin link
  /\ link' = link \cup {h}
  /\ NcpSends(Opened(h))
  /\ UNCHANGED <<timers, host, proc, past, bounds>>

\* The end of the connection ends its procedure, with or without a word.
NcpClose(h) ==
  /\ h \in link /\ closes < MaxCloses
  /\ closes' = closes + 1
  /\ link' = link \ {h}
  /\ proc' = [proc EXCEPT ![h] = Idle]
  /\ Len(evq) < QueueCap
  /\ \/ evq' = Append(evq, Closed(h))
     \/ h \in Running /\ evq' = evq \o <<Completed(h), Closed(h)>>
  /\ UNCHANGED <<timers, host, past, commands, resets>>

NcpReboot ==
  /\ resets < MaxResets
  /\ resets' = resets + 1
  /\ link' = {} /\ proc' = [h \in Handle |-> Idle]
  /\ armed' = [t \in Timer |-> FALSE]
  /\ evq' = Append(evq, Boot)
  /\ UNCHANGED <<listed, count, host, past, commands, closes>>

-----------------------------------------------------------------------------
HandlesEvent ==
  \/ HandleTick \/ HandleBoot \/ HandleOther
  \/ \E h \in Handle :
       \/ HandleOpened(h) \/ HandleClosed(h) \/ HandleCompleted(h)
       \/ \E a \in Attr : \/ HandleService(h, a) \/ HandleChild(h, a)
                          \/ HandleStray(h, a) \/ Crash(h, a)
RunsCommand == discover_cmd_handler \/ Refused \/ Gatt \/ Scan
GattClient(h) == NcpCompletes(h) \/ \E a \in Attr : NcpFinds(h, a)

Next == \/ HandlesEvent \/ RunsCommand
        \/ \E c \in Command : SingleShot(c) \/ Cleanup(c)
        \/ NcpTick \/ NcpOther \/ NcpReboot
        \/ \E h \in Handle : GattClient(h) \/ NcpOpen(h) \/ NcpClose(h)

Spec == Init /\ [][Next]_vars

\* The loop goes on; the events of the timer and of a procedure get their turn
\* in the queue.
Fairness == /\ WF_vars(HandlesEvent) /\ WF_vars(RunsCommand)
            /\ SF_vars(NcpTick)
            /\ \A h \in Handle : SF_vars(GattClient(h))

FairSpec == Spec /\ Fairness

-----------------------------------------------------------------------------
(* Properties *)

\* Every variable has its type.
TypeOK ==
  /\ listed \in [Timer -> Nat] /\ count \in [Timer -> {0, HW_TIMER_INFINITY}]
  /\ armed \in [Timer -> BOOLEAN]
  /\ queue \in Seq(Request)
  /\ stop \in BOOLEAN
  /\ cmd \in {"DISCOVER", "OTHER"}
  /\ new \in Command \cup {NoCommand}
  /\ table \in Seq([conn : Handle \cup {Nobody}, attrs : SUBSET Entry])
  /\ crashed \in BOOLEAN
  /\ link \in SUBSET Handle
  /\ proc \in [Handle -> (SUBSET Attr) \cup {Idle}]
  /\ evq \in Seq(Event)
  /\ target \in Handle \cup {Nobody}
  /\ calm \in BOOLEAN
  /\ commands \in 0 .. MaxCommands /\ closes \in 0 .. MaxCloses
  /\ resets \in 0 .. MaxResets

\* As long as no procedure is started on a connection of which there is news
\* on the way, and no command cuts into one, each attribute is filed under its
\* real parent, although discover.c takes the parent from the head of the
\* queue at the time the event is handled (discover.c:248-295), whatever
\* connections close and open.
OwnParent ==
  calm => \A i \in DOMAIN table :
            \A x \in table[i].attrs : x.parent = ParentOf[x.attr]

\* Nor is there, then, a result without a request (discover.c:260, 290).
ResultsAsked == calm => ~crashed

\* The loop ends a discovery.
Finishes == cmd = "DISCOVER" /\ cmd' = "OTHER" /\ evq' # evq

\* A discovery that ends with nothing left to ask has found every attribute of
\* its connection, unless that was closed: the retries every 0.2 seconds, most
\* of which the NCP refuses, lose none (discover.c:151-192, 240-303).
Complete ==
  [][calm /\ Finishes /\ queue = <<>> /\ target # Nobody /\ resets = 0
       => Known(target) = Attr]_vars

\* A discovery ends, however its connection fares, unless the daemon crashes or
\* the NCP reboots (discover.c:157-160, connection.c:83).
DiscoveryEnds == cmd = "DISCOVER" ~> cmd # "DISCOVER" \/ crashed \/ resets > 0

\* A discovery ends when nothing is left to ask, or its connection is gone.
\* The code does not keep it: discover_timer.ret is never reset, and ends the
\* next discovery at the first event that is not an expiry (discover.c:303).
EndsWhenDone == [][Finishes => queue = <<>>]_vars
=============================================================================
