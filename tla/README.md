# schost in TLA+

schost is a Bluetooth host tool in C: a daemon, `schostd` (`sc_host/server.c`),
talks BGAPI to a network co-processor (the *NCP*) over a UART, and a
command-line client, `schost` (`sc_host/client.c`), sends it one command at a
time over a Unix datagram socket and prints what comes back. The daemon has one
thread, but it meets the NCP's events, the NCP's reboots, expiring timers,
clients that come and go, and connections that open and close in any order.
That is what these modules are about. Paths below are relative to the
repository's root; line numbers as in `PROJECT.json`.

## 1. The system

| component | state | operations | interacts with |
|---|---|---|---|
| BGAPI layer, `gecko_bglib.c` | ring of events `gecko_queue` with `_r`, `_w`; one response `gecko_rsp_msg` | `gecko_wait_message`, `gecko_get_event` (peek or wait), `gecko_wait_response`, `gecko_handle_command(_noresponse)` | UART below; loop and all handlers above |
| UART, `uart_posix.c` | the tty | open and flush, blocking read and write, peek | BGAPI layer |
| timers, `timer.c` | `hw_timer_list`; per timer a count, a callback and its last return code | add, del, update on expiry, clear | soft timers of the NCP, which live and die with it |
| main loop, `server.c`, `command.c`, `app.c` | `cmd`, `sc_host_bootup`, the table of handlers | select, boot gate, bootup / timer / event handlers, single-shot commands, cleanup, command handler, terminator | everything |
| client and socket, `client.c`, `sock.c` | one socket name in `/tmp` for all clients, one for all daemons | unlink and bind the name, send a command, wait for the empty datagram, be killed | main loop |
| SCAN, `scan.c` (+ `neigh.c`) | its timer's return code, neighbours | start, timer, report, cleanup | NCP, timers |
| CONNECT, `connect.c` | `connect_timer_arg`: running, handle | connect, `--disconn`, opened, timeout | NCP, timers, table |
| connection table, `connection.c` | `connection_list`: used flag, handle, address, attribute lists | opened, closed, lookups, `--disconn` | CONNECT, PAIR, DISCOVER, GATT |
| PAIR, `pair.c`; SHOW, `show.c`; SET, `set.c` | none of their own | advertise; print; set and reset the NCP | NCP |
| DISCOVER, `discover.c`, `service.c` | `discover_request_queue`, timer, lists of services, characteristics, descriptors | request, tick, result, completion, clear by connection, cleanup | NCP's GATT client, timers, table |
| GATT and notifications, `gatt.c`, `notify.c` | the latest command's connection and attribute, a notification list per connection | read, write, notify; values, completions, configurations, confirmations | NCP's GATT client and server, table |
| local services, `cts.c`, `ans.c`, `ess.c`, `hps.c` | attribute handles | look up at boot, write | NCP |
| DTM, `dtm.c`; UPGRADE, `upgrade.c` | `dtm_state`, which tests are still to run, the countdown; file and what is left of it | reset into the mode, run, reset out of it | NCP, timers, boot gate of the loop |
| startup and pid file, `server.c:39-77`, `util.c` | the pid file, the names of both sockets | look for a daemon, write the pid, take the name, reset the NCP | other daemons, clients |
| options, other utilities | none | parse, convert | client |

What is hard in it, and what makes each part correct:

* **Events during a command.** Handlers send commands and wait; events read
  meanwhile go to a ring of 30 slots, of which one is being handled. *It must be
  a FIFO queue that never touches the event being handled, responses must match
  their commands, and queued events must be delivered.*
* **Two clocks.** The list of timers is the daemon's, the timers run in the NCP,
  and expiries of a stopped timer may be on their way. *No listed timer may be
  dead, none may be listed twice, each calls back as often as asked.*
* **Reboots.** SET, DTM and UPGRADE reset the NCP, and it may reset by itself.
  Timers, connections and the scan are gone at once; the daemon learns it from a
  boot event that is behind other events. *Lists and tables must follow.*
* **Reboots as part of a command.** DTM runs between two resets, UPGRADE goes
  through the NCP's DFU mode and back; ticks and completions arrive in either
  order, the daemon or the NCP may go away half-way. *No test may run on
  unattended, no count be reported for another test, no success be told of half
  a file, no NCP stay in DFU mode.*
* **One running command, taken over.** Another command may arrive while one
  runs (its client was killed). Single-shot commands end the running one without
  its cleanup. *Every wait of a client must end, by its own command's end.*
* **Results that name no request.** DISCOVER files a result under the request at
  the head of its queue when the result is *handled*; ticks, completions and
  closed connections change the head. *Each attribute must have its own parent,
  nothing may be lost, and the discovery must end.*
* **Answers that name no command.** A GATT command ends at a completion, whose
  ever it is, and has no timer. *It must end, with its own answer.*
* **Remote devices configure notifications** whenever they like, also while
  their connection closes. *The list must be theirs, and a lookup in it succeed.*
* **Processes without locks.** Daemons and clients find each other by a file and
  two socket names, each checked, removed and made by separate system calls.
  *One daemon may serve at a time, a daemon that is alone must start, a wait must
  end.*

`PROJECT.json` lists these hazards at their lines, each with the properties that
cover it, or a note why none does.

## 2. Modules

| module | models | notes |
|---|---|---|
| `EventFifo` | abstract: a queue of events with one being handled, which may discard an event only when it is full | 4 variables, no code |
| `Bglib` | `gecko_bglib.c` with the loop around it | one action per turn of a loop; handlers left open |
| `BglibProofs` | theorems | |
| `HwTimer` | `timer.c`: list, counts, the NCP's soft timers | operators used by the next three |
| `HwTimerLoop` | `HwTimer` under any handlers | environment: starts, stops, expiries, resets, crashes |
| `HwTimerProofs` | theorems | |
| `Daemon` | loop, command table, SCAN, CONNECT, CONNECTION, PAIR, SHOW, SET, clients, table | composes `HwTimer` |
| `DaemonProofs` | theorems | |
| `Discover` | DISCOVER with the table's lists of attributes | composes `HwTimer` |
| `DiscoverProofs` | theorems | |
| `Gatt` | GATT, the notification lists, the connection table as far as they need it | the NCP's GATT client with one procedure per connection |
| `GattProofs` | theorems | |
| `Modes` | DTM, UPGRADE, the boot gate, the daemon's death and restart, the NCP's modes | composes `HwTimer` |
| `ModesProofs` | theorems | |
| `Startup` | pid file, both socket names, any number of daemons and clients | one system call a step |
| `StartupProofs` | theorems | |
| `ListLemmas` | lemmas about sequences and sets of indices | used by the proofs about `Daemon`, `Discover`, `Gatt` and `Modes` |
| `MC...` | model values, symmetry, small definitions for TLC | |

How they fit: `Bglib` shows that all that happens between the UART and the loop
amounts to one FIFO queue of events, `EventFifo` with QLEN - 1 places, and that a
command sent to a running NCP gets its response. `HwTimerLoop`, `Daemon` and
`Discover` start from that: `evq` is the queue, a handler is one action, a
command and its response are one step; so do `Gatt` and `Modes`. They leave a full ring out
(`Bglib` has it): they assume that no event is discarded. `Startup` is below all
of them: it says which daemon they talk about. What ends a command is theirs; to
`Startup` a command ends at once, at a later event or never, and the daemon may wait
for the NCP for ever.

### Bglib

`wire` and `cmdq` are the two directions of the UART, a message a step (the host
reads whole messages, blocking). `queue`, `w`, `r`, `rsp` are the C variables.
`pc` and `back` say where the thread is: in `select`, peeking, in the handlers,
waiting for a response. `cur` is what the pointer `evt` points to while handlers
run, a slot of the ring that `gecko_get_event` has already released.
`WaitMessageNull` is a turn that reads an event (and stores or drops it) or
something that is no message; `WaitMessageResponse` one that reads a response;
`Select`, `Dispatch...`, `EndHandle`, `RecvCtl`, `EndCommand` are the loop. The
handlers may send up to `MaxCmds` commands and a reset per run, which covers
whatever the real ones do.

The flush of `uartOpen` reads blocks of four bytes, so up to three bytes of a message
may be left, and its tail may still be coming in; the NCP may also still answer a
command of an earlier daemon. `late` is what it has yet to send of both. The rest of a
message, `Junk(n)`, has lost its framing: any byte with the right bits is taken for a
header and the next ones for its payload (`gecko_bglib.c:11-24`). So a call that reads it may
queue any event, return any response or return nothing, and may swallow some of the messages behind it
and end in the middle of another (`Misread`, `Debris`), at most `MaxDebris` calls in a row.
The history variable `clean` becomes true when a command is sent while nothing but
events is under way (`Quiet`), or at the start if nothing is left; from then on responses must match.

### HwTimer, HwTimerLoop

`listed[t]` is the number of elements for t, so that a double insertion can be
seen; `count[t]` its count; `armed[t]` the NCP's side. `hw_timer_del` leaves the
soft timer running, as the code does; a reboot disarms all timers and leaves the list.
The loop starts timers with the counts 0, 2 and endless, which are the three
branches of `hw_timer_list_update`.

### Daemon

`pc` walks through one turn of `schostd_main`: `select`, `bootup` or `timer`
handlers, then the event handlers in the order of the table, or
`single_shot` / `cleanup` / `command`. Handlers that only print, or do nothing
for an event, are not actions. `scanRet` and `connRet` are the return codes the
timers' callbacks left behind, which event handlers look at later, at any event. `table`
is `connection_list` with its order, because elements are reused in list order. SET
without an option sends nothing that is answered, so it needs no running NCP.
`link`, `adv`, `discovering` are the NCP's. Clients send one datagram and wait for the empty one; a
killed client leaves its command and its address to the next.

### Discover

`queue`, `stop` (`discover_timer.ret`), `table` with the attribute lists. A tick
runs the head's procedure at the NCP, which refuses it if the connection has one or is
gone; results and completions come one by one (`proc` is what a procedure has
still to report). A closed connection may or may not be preceded by a completion.
`discover_request_get()` returning NULL at lines 260 and 290 is the action
`Crash`. GATT commands appear as a procedure without results, other commands by what they do to
DISCOVER: with the cleanup, or (single-shot) without. `calm` is a history
variable: no procedure was started on a connection that still had events on
their way, no command cut into a busy GATT client, no GATT command was sent while requests
waited. Outside calm periods the code does lose or misfile attributes (hazards at
`discover.c:175`, `248`); what is checked is that nothing else does.

### Gatt

`cmd` and `conf` are `cmd` and `conf.gatt`; `conf` stays after a command, because
the handlers of values look at it at any time (`gatt.c:306-330`). `table` carries
for each connection whether it is discovered and its `notification_list`. `owed[h]`
is what the procedure on h has still to report: a value, then a completion,
or for a refused execution a failure; `config` and `indicated` are the NCP's GATT
server. A value that fits ends a read (`gatt.c:306-331`), although its completion is
still to come; any completion ends any GATT command, and so does a remote's
configuration (`gatt.c:341`). `HandleConfig` and `HandleConfirmation` are
`notify.c` as a whole: a notification is added when it is enabled (an indication
when it is confirmed) and deleted when it is disabled, by a lookup whose result
is not checked (`crashed`). `alone`, `accepted`, `lost`, `kept` and `late` are
history variables for the exceptions the properties name.

### Modes

`state`, `txOn`, `rxOn`, `delay` and `stop` are `dtm_state`, `dtm_timer_arg` and
`dtm_timer.ret`. A test starts at the *boot* that the command's reset causes, the
timer's ticks count it down, completions move the state on
(`NextState`). `upload` is `upgrade.c:15-76`: one step a packet, with a read that
may be short and an NCP that may refuse, then the finish. `UploadFails` is a file
that is gone by then, before the address is set or, in `open`, after. `SHOW` stands for the
single-shot commands, `Set` for the one whose cleanup resets the NCP, `SCAN` for the others. The NCP is in its
application, in DFU mode or down; `uart` holds resets on their way to it, `target` and
`fw` decide what it boots into. A handler that sends to an NCP that is down, in
the other mode, or about to be reset waits for ever (`Hang`). `DaemonDies` and
`DaemonStarts` forget everything on the host's side and flush the UART; the first
reset of a daemon carries an argument nobody set (`server.c:77`), so either.

### Startup

One action a system call: `Check`, `Read`, `Probe` are `process_running`
(`util.c:327-348`), `Truncate` and `Write` are `echo`, `Unlink` and `Bind` both
lines of `bind_socket`. A pid is read as its first `sizeof(char*)` bytes (`Cut`).
A daemon then serves: a datagram starts a command, ends one, or both (`EndsAtOnce`, `Continues`), and the
empty datagram goes to whichever client has the clients' name. At any time the event that
would end the running command may become one that never comes (`Stalls`), or the
daemon may begin to wait for a response that never comes (`Blocks`). Any process may die
between two calls; pids are given to daemons and to other processes, and again
after a death.

## 3. What TLC checks

All `pass` runs are exhaustive for their bounds.

| run | bounds | distinct states | shows |
|---|---|---|---|
| `bglib` | 3 slots, events boot, tick and one more, 1 command besides the timer's, 1 per handler run, 1 reset after the one at startup, 1 datagram, 1 event on the wire when the NCP sends another; at the start the rest of a message (`MaxDebris` 1), a response to an earlier daemon, or both | 1.1 M | `ImplementsFifo` (refinement), `ResponseIsOwn`, `QueuedDelivered` |
| `timer` | 2 timers, counts endless/0/2, 3 starts, 2 resets, 3 events in flight | 155 k | `ListedOnce`, `ListedArmed`, `CallbacksLeft`, `TimerEnds` |
| `daemon` | 2 handles, 2 addresses, 1 reset, no kill, 1 event in flight when the NCP adds another; symmetric | 3.7 M | `TableFollowsLinks`, `OwnTerminator`, `ListedArmed` |
| `daemon_kills` | 1 handle, 1 address, 1 killed client, no reset | 211 k | `CommandTimed`, `TimeoutSparesOpen`, `ClientTerminated` |
| `discover` | 1 handle, 2 services, 1 characteristic, 1 descriptor, 2 commands, 1 closed connection, 1 reboot, 2 events in flight | 168 k | `Complete`, `DiscoveryEnds` |
| `discover_two` | 2 handles, 2 services, 1 characteristic, 2 commands, 1 closed connection; symmetric | 1.6 M | `OwnParent`, `ResultsAsked` |
| `gatt` | 1 handle, 2 characteristics (one with a descriptor, one written without response), 1 local one, 3 commands, 2 steps of the remote, 1 break, 2 events in flight | 763 k | `OwnAnswer`, `CommandEnds`, `NotificationsKnown`, `DisableFinds` |
| `modes` | tests of 0 and of more seconds, a file of 2 packets, 2 commands, 1 death of the daemon, 1 crash of the NCP, 2 events in flight | 340 k | `TestAttended`, `ReportsOwn`, `TestEnds`, `UpgradeOver`, `SuccessWhole`, `LeavesDfu` |
| `startup` | 2 daemons, 2 clients, 2 pids, 1 other process, 2 deaths | 239 k | `OneServes`, `StartsAlone`, `WaitEnds` |

Three more find behaviours that contradict what the repository says of itself:

* `bglib_answered` (`CommandAnswered`): a command that reaches the NCP while it
  reboots is lost, and `gecko_wait_response` has no timeout.
* `daemon_scan` (`ScanEnds`): a single-shot command that takes a scan's place
  leaves the NCP scanning.
* `discover_done` (`EndsWhenDone`): `discover_timer.ret` is never reset; a second
  `--discover` ends at the first event that is not its own tick.

Other deviations are the exceptions that properties name, each with the history
variable or condition that stands for it; take the exception out of the property and TLC shows
the trace:

* A queued event waits for the UART's next byte, as `select` knows nothing of the
  ring; the 5 s timer of `gatt.c` hides it (`QueuedDelivered`).
* The table of connections survives a reboot of the NCP, as its boot handler is
  in no entry of the command table (`TableFollowsLinks`: `resets = 0`).
* A refused write of a characteristic waits for a completion that never comes (`CommandEnds`:
  `accepted`); a completion left over from an earlier procedure, or a remote's
  configuration, ends the command of another (`OwnAnswer`: `alone`).
* A bonded device that disables a notification the daemon does not know crashes it
  (`DisableFinds`: `kept`); a late confirmation adds an entry (`late`).
* A test shorter than a second is reported at its start, or restarts for ever
  (`ReportsOwn`, `TestEnds`: `Short`). A DTM that is displaced by a single-shot
  command is left running at the NCP (`displaced`). The command that displaces a
  DTM otherwise runs into the reboot of its cleanup (`hung`).
* UPGRADE followed by DTM, or a restart of the daemon, can meet the NCP on its way
  to DFU mode; the gate then drops the boot event it waits for (`LeavesDfu`:
  `booted`). A missing file leaves UPGRADE running (`UpgradeOver`); a short read
  leads to a success that is none (`SuccessWhole`: `torn`).
* Two daemons that start together both serve (`OneServes`: `overlap`); a pid with
  more digits than a pointer has bytes is cut (`cut`, in the run with a third pid named below). A daemon killed in `echo`
  leaves an empty pid file, for which `/proc//cmdline` exists, and none ever
  starts again (`StartsAlone`: `torn`); a stale number given to another process,
  or to the new daemon itself, has the same effect (`reused`).
* What is left of a message after the flush may give a command a response that is not
  its own, and so may a late response to an earlier daemon; one that is late also
  shifts the next pairings until a command finds nothing under way (`ResponseIsOwn`: `clean`).
* A client that starts while another waits takes its name; a daemon that waits for
  the NCP hears no client; a client waits for ever for a command whose event does not come
  (`WaitEnds`: `lost`, `stuck`, `endless`).

Why the bounds are enough. *Ring:* 3 slots give an empty, a partly
filled and a full ring, each with every position of `r` and with a slot being
handled; the proof covers every length. With `MaxDebris` 1 one wrong
reading queues any event, returns any response and swallows any of what follows; with 2 it can leave another one, which was checked
once by hand with 2 events on the wire and no second reset (625 k states). An NCP is taken to finish what it sends before it resets. *Timers:* they interact only through the
event queue and reboots, so two show all; count 2 has a callback that is not the last
one and one that is; 2 resets give two reboots with one boot event between them. *Daemon:*
two handles and addresses give reuse of a handle by another device and of an
element by another handle; the queue limit is a limit on when the NCP *sends by itself*,
closing by the host still adds events. *Discover:* two services are needed for a
wrong parent, a descriptor for the third kind of request; two commands for a
discovery after a discovery and a command that cuts into one. *Gatt:* three
commands give a discovery and two commands that follow it, so that events of one meet the other; the two
steps of the remote are an enabling and a disabling, before and after a break. *Modes:* two
commands are one that displaces the other; one packet of two is in the flash at a crash
or death. *Startup:* two daemons make every pair of steps meet, two pids one that is free for
another process or given again; two deaths end a daemon that is stuck and its successor. Three
daemons without clients, with a third pid that is cut to the first, were run once by hand (163 k states).

Not exercised by a bound of the runs, but covered by the theorems about safety: two closed
connections in one behaviour of `Discover`, a reboot with two connections in it,
notifications and commands on two connections at once in `Gatt`, and two reboots with a command in between in
`Daemon`.

### Fairness

The daemon's thread runs on while something is ready (weak fairness of its own steps);
in `Daemon`, strong fairness of taking a datagram and of taking an event when
the UART is sure to become readable, because each turn of the loop serves both
descriptors (`server.c:87-145`). The NCP answers what it takes, ends its reboots,
and an armed soft timer's events do not for ever find the queue full: strong
fairness of `NcpTick`, since other events only keep it off for a while. Nothing
is assumed of clients, of remote devices or of events other than
these; in `Discover` and `Gatt` a procedure at the NCP comes to its end or its
connection does (strong fairness of its reports). In `Modes` the daemon is fair
also to `Hang`, the NCP takes resets and boots (weak), and its ticks and
completions get their turn in the queue (strong). In `Startup` every process
that runs goes on to its next call; a daemon that does not wait for the NCP comes to its
socket, and to the event that ends the running command if one is to come. That every command
ends is not assumed: `Blocks` and `Stalls` are free to happen before. Deaths are never assumed.
The liveness properties exclude what the code does not recover from: a
daemon that hangs in `gecko_wait_response` (`TimerEnds`, `WaitEnds`), a reset of the NCP under a running
command, whose timer the boot clears (`ClientTerminated`, `DiscoveryEnds`), a
command that waits for an event that does not come (`WaitEnds`).

Deadlock is not checked: at the bounds the environment stops, and the
daemon may then wait in `select`; a hang is stated as a property instead.

## 4. What is proved

With TLAPS, for every value of the constants, from the named assumptions (sizes are
naturals, the ring has at least one slot, sentinel values differ from events and commands,
the timers of each component are those its code defines, `ConnectTimeout > 0`, each
attribute has its parent one level up (`TreeAssumption`), the name of nobody is no
connection handle, a process reads a pid as some pid). No theorem bounds the number of
handles, attributes, commands, reboots or events; the constants that bound TLC's
runs are any naturals:

| theorem | statement | argument |
|---|---|---|
| `BglibProofs!TypeCorrect` | `Spec => []TypeOK` | one step per action |
| `BglibProofs!RingCorrect` | `Spec => []RingInv` | waiting slots hold events; the slot being handled is the one just before `r`, so it is outside them |
| `BglibProofs!RingImplementsFifo` | `Spec => ImplementsFifo` | `Waiting` is the ring read from `r` to `w`; storing appends, taking removes the head, neither changes `queue[cur]`: the full test leaves one slot free, and that slot is `cur` |
| `BglibProofs!ResponsesPaired` | `Spec => []ResponseIsOwn` | `PairInv`: once a command was sent while nothing but events was under way, a response or a command that will have one exists at most once, only during a wait, and is that of the wait, and no rest of a message is on the wire; not inductive without the part about `cmdq` |
| `HwTimerProofs!TypeCorrect`, `TimersListedOnce`, `TimersArmed`, `CallbacksCounted` | the three invariants of run `timer` | `ListedOnce` is inductive with the types and is needed for the others: a deletion must remove the only element |
| `DaemonProofs!TypeCorrect` | `Spec => []TypeOK` | `TypeOK` split into seven groups, each step proves the groups it touches |
| `DaemonProofs!TimersArmed` | `Spec => []ListedArmed` | with "listed at most once"; a boot event in the queue stays there until it is taken, and then the list is cleared or the daemon hangs on a reset still to come |
| `DaemonProofs!CommandsTimed` | `Spec => []CommandTimed` | `TimedInv`: without a reset the start has four phases (reset to come, NCP down, one boot event queued, booted), commands run only in the last, in which no boot event is queued and no handler can hang; so the list is cleared only while `cmd` is idle |
| `DaemonProofs!TerminatorsOwn` | `Spec => OwnTerminator` | `OwnInv`: without kills there is one client, its datagram is either waiting or it is the owner of what runs; `scan_event` is reached only with `cmd = "SCAN"`, so its end is the command's |
| `DaemonProofs!TableFollows` | `Spec => []TableFollowsLinks` | `LinksInv`: for each handle, the events on their way applied to what the table has end with what the link has, and one that opens the handle comes only when it is not in the table by then (`InOrder`); stated on `Coming`, which puts the event being handled in front of the queue, so a handler's last step is the one that takes it off |
| `DaemonProofs!TimeoutsSpare` | `Spec => TimeoutSparesOpen` | `SpareInv`: while the timer of CONNECT is listed, the connection it was started for is not in the table, unless its closing is on its way; with `TableFollows` an open one has been opened since, and that event is still to come |
| `DiscoverProofs!TypeCorrect` | `Spec => []TypeOK` | eight groups; the removal of requests keeps a sequence |
| `DiscoverProofs!ParentsOwn`, `ResultsHaveRequests` | `Spec => []OwnParent`, `Spec => []ResultsAsked` | `ServedInv`: under `calm` at most one connection has results on their way or owed, that of the head of the queue, all of them are children of its attribute, and the completion is the last; a procedure runs on a connection, and one that stands before the news of a reboot is news itself |
| `GattProofs!TypeCorrect` | `Spec => []TypeOK` | seven groups |
| `GattProofs!DisablesFind`, `ListsKnown` | `Spec => []DisableFinds`, `Spec => []NotificationsKnown` | `ListsInv`: for each notification, what the events on their way say of it, applied to what the list has now, is what the device configured (`Becomes`), and it will be in the list when it is disabled or confirmed (`Sure`); no characteristic has two entries |
| `GattProofs!AnswersAreOwn` | `Spec => OwnAnswer` | `AnswerInv`: while only its own procedure can end the command, the events on their way and owed are the command's own in the procedure's order, or harmless (`Answering`): the good completion only after the value, the bad one only without; before it runs nothing is on its way that could end it |
| `ModesProofs!TypeCorrect` | `Spec => []TypeOK` | `TypeOK` in nine groups; operators shared by handlers (`DtmEnds`, `Starts`, `UpgradeEnds`, resets, timers) have lemmas of their own |
| `ModesProofs!SuccessTold` | `Spec => SuccessWhole` | `Conserved`: during an upload, what is in the flash and what is left make up the file, unless a read was short or the NCP has lost its address; a success needs an address and nothing left |
| `ModesProofs!TestsAttended` | `Spec => []TestAttended` | `AttendedInv`: a state of DTM or its timer belongs to the running command or to one that was displaced, and while the NCP runs a test no boot event is still to be handled |
| `ModesProofs!ReportsTheirOwn` | `Spec => ReportsOwn` | `TurnsInv`: for each state of DTM, which completions and ticks may be owed or on their way (`InTurn`); the gate is closed until the boot, so nothing of the test before is left, and ticks come after completions unless `late`; a displaced test's state stays behind the closed gate, where nothing moves it (`Stale`) |
| `StartupProofs!TypeCorrect` | `Spec => []TypeOK` | with `FileOK`: the file is read only if it is there, written only by a process |
| `StartupProofs!ServesAlone` | `Spec => []OneServes` | `Alone`: at most one daemon starts, at most one is past the check; it is the one the file names from its last write on, and a daemon that has read the file of one that serves has read its pid |

The proof of `TimersArmed` corrected its property: in a bounded run with one
reboot nothing shows that a hang between two reboots leaves a dead timer listed, so
`ListedArmed` now also says "a reset is on its way".

`NotificationsKnown` was corrected, too. Its first form said the same of every
connection. A run with two handles, made while looking for the inductive invariant, has a
counterexample: the NCP reboots, which leaves the table as it is, the handle is given
again, its new element takes the place of an element in disuse behind the old one, and events are
filed with the first of the two. With one handle the new element is always the first.
The property now excludes a handle with two elements.

The proofs of `AnswerInv` and `TurnsInv` were begun only when TLC had
found no violation of them (the first with two handles and two characteristics, 3.6 M states).

Only model-checked: the liveness properties (`QueuedDelivered`, `TimerEnds`,
`ClientTerminated`, `Complete`, `DiscoveryEnds`, `CommandEnds`, `TestEnds`, `UpgradeOver`,
`LeavesDfu`, `WaitEnds`, `StartsAlone`). They need fairness and `ENABLED`, which are
out of the prover's reach. All invariants and action properties without liveness of the
passing runs are theorems.

## 5. Not modelled

* Texts: what the daemon prints, formats and dumps, and their 512-byte buffer.
* Neighbours (`neigh.c`) and scan reports: a list that is only printed. Its
  lookup writes through the address of a parameter (`neigh.c:36`), after which
  anything in the daemon may have changed; a model would have to allow that, too.
* Option parsing (`options.c`): tables and conversions in the client, before any
  state that other processes see. UART errors end the daemon; termios settings.
* Local services (`cts.c`, `ans.c`, `ess.c`, `hps.c`): they look up their
  handles at boot and write the time; no state that another component disturbs.
* Failing allocations, handle 0 (which the options use for "none"), two
  attributes of a device with the same uuid.
* Real time: how early or late a timer is.
* `light.c` (another program), `uart_win.c`, generated BGAPI wrappers, SoC files
  and linker scripts: not part of this tool's logic.

Of the 32 660 lines of C in the repository about 25 000 are four copies of the generated
BGAPI definitions (`native_`, `rtos_`, `ncp_` and `host_gecko.h`), and some
1 500 more are the vendor's or for another platform. Of the 5 400 lines
of `sc_host` the modules map about 1 850, of `gecko_bglib.c` all that runs; most of the rest is `options.c`, declarations and printing.

## 6. Plan

Done: `Bglib`, `HwTimer`, `Daemon`, `Discover`, `Gatt`, `Modes`, `Startup`, and a theorem for
every safety property a passing run checks. To come:

1. `Daemon`, `Discover` and `Modes` as implementations of `HwTimerLoop`: the timers of a
   component behave like those under arbitrary handlers.
2. The event handlers of `Daemon` against an abstract "one client, one command,
   one terminator".
3. The exceptions of `TestAttended` and `OwnAnswer`: which of them are needed, by a
   behaviour for each.

## 7. Running it

In this directory: `tlc -config MCDaemon.cfg MCDaemon` (likewise the others, the
configuration names the instance), `tlapm BglibProofs.tla`.
