--------------------------------- MODULE Gatt ---------------------------------
(***************************************************************************)
(* The command GATT and the lists of notifications: gatt.c and notify.c,   *)
(* with the parts of the loop and of connection.c that meet them.          *)
(*                                                                         *)
(* A handler is one action, as in Daemon.  The GATT client of the NCP runs *)
(* one procedure on a connection at a time; what a procedure still has to  *)
(* report is a sequence of events.  DISCOVER is one procedure here, that   *)
(* finds everything.  All devices have the same attributes, a              *)
(* characteristic has at most one descriptor, and no uuid occurs twice.    *)
(* The field waiting_confirm of a notification is left out: nothing sets   *)
(* it.                                                                     *)
(***************************************************************************)
EXTENDS Integers, Sequences, FiniteSets

CONSTANTS
  Handle,          \* connection handles
  Characteristic,  \* characteristics of the devices
  NoResponse,      \* those written without a response
  Described,       \* those with a descriptor
  Local,           \* characteristics of the NCP itself
  MaxCommands,     \* bound: commands in a behaviour
  MaxRemote,       \* bound: steps of the remote devices' own
  MaxBreaks,       \* bound: connections closed and reboots of the NCP
  QueueCap         \* bound: events on their way when the NCP sends another

ASSUME BoundsAssumption == /\ MaxCommands \in Nat
                           /\ MaxRemote \in Nat
                           /\ MaxBreaks \in Nat
                           /\ QueueCap \in Nat
ASSUME CharacteristicAssumption == /\ NoResponse \subseteq Characteristic
                                   /\ Described \subseteq Characteristic
ASSUME HandleAssumption == "nobody" \notin Handle

\* A characteristic, or its descriptor.
Attr == [char : Characteristic, desc : {FALSE}]
          \cup [char : Described, desc : {TRUE}]
Flags == {"disable", "notify", "indicate"}

Value(h, c, op)   == [kind |-> "value", conn |-> h, char |-> c, opcode |-> op]
DescValue(h, c)   == [kind |-> "descriptor", conn |-> h, char |-> c]
Completed(h, ok)  == [kind |-> "completed", conn |-> h, ok |-> ok]
Found(h)          == [kind |-> "found", conn |-> h]
Config(h, l, f)   == [kind |-> "config", conn |-> h, char |-> l, flags |-> f]
Confirmed(h, l)   == [kind |-> "confirmed", conn |-> h, char |-> l]
Opened(h)         == [kind |-> "opened", conn |-> h]
Closed(h)         == [kind |-> "closed", conn |-> h]

Event ==
  [kind : {"value"}, conn : Handle, char : Characteristic,
   opcode : {"read", "blob", "notification"}]
    \cup [kind : {"descriptor"}, conn : Handle, char : Described]
    \cup [kind : {"completed"}, conn : Handle, ok : BOOLEAN]
    \cup [kind : {"config"}, conn : Handle, char : Local, flags : Flags]
    \cup [kind : {"confirmed"}, conn : Handle, char : Local]
    \cup [kind : {"found", "opened", "closed"}, conn : Handle]

\* UNKNOWN has no suboption; LOCAL reads or writes the NCP's own attributes.
\* SHOW stands for the single-shot commands, SCAN for the others that use no
\* procedure.
Command == [op : {"READ", "WRITE"}, conn : Handle, attr : Attr]
             \cup [op : {"NOTIFY"}, conn : Handle, char : Local]
             \cup [op : {"DISCOVER"}, conn : Handle]
             \cup [op : {"LOCAL", "UNKNOWN", "SHOW", "SCAN"}]
NoCommand == [op |-> "none"]
IsAccess(c) == c.op \in {"READ", "WRITE"}
IsGatt(c) == IsAccess(c) \/ c.op \in {"NOTIFY", "LOCAL", "UNKNOWN"}

Nobody == "nobody"
Note == [char : Local, flags : Flags]
Failure == [error |-> TRUE]
Answer == [conn : Handle, attr : Attr] \cup {Failure}

VARIABLES
  cmd,       \* cmd: GATT or another, OPT_IDLE included
  new,       \* a command that has been received but not run
  conf,      \* conf.gatt, if the latest GATT command reads or writes an
             \* attribute of a device
  table,     \* connection_list: each element's connection, if it is used,
             \* whether its attributes are known, and its notification_list
  crashed,   \* notification_characteristic_find() was NULL and used
  link,      \* the connections of the NCP
  owed,      \* what the procedure of a connection has still to report
  config,    \* how the remote device configured the NCP's characteristics
  indicated, \* indications the remote device has not confirmed
  evq,       \* events the loop has not taken
  alone,     \* history: nothing but its own procedure can end the command
  accepted,  \* history: the NCP runs or ran a procedure for the command
  lost,      \* history: the connection of the command has closed, or the loop
             \* had yet to hear that an earlier one on the handle did
  shown,     \* history: what the client of the command was shown
  kept,      \* history: a configuration survived its connection
  late,      \* history: a notification was disabled before its confirmation
  commands, remotes, breaks

host   == <<cmd, new, conf, table, crashed>>
ncp    == <<link, owed, config, indicated>>
run    == <<alone, accepted, lost, shown>>
past   == <<kept, late>>
bounds == <<commands, remotes, breaks>>
vars   == <<host, ncp, evq, run, past, bounds>>

Unconfigured == [l \in Local |-> "disable"]

Init ==
  /\ cmd = "OTHER" /\ new = NoCommand /\ conf = NoCommand
  /\ table = <<>> /\ crashed = FALSE
  /\ link = {} /\ owed = [h \in Handle |-> <<>>]
  /\ config = [h \in Handle |-> Unconfigured] /\ indicated = {}
  /\ evq = <<>>
  /\ alone = FALSE /\ accepted = FALSE /\ lost = FALSE /\ shown = {}
  /\ kept = FALSE /\ late = FALSE
  /\ commands = 0 /\ remotes = 0 /\ breaks = 0

\* connection_list, as in Discover.
First(S) == CHOOSE i \in S : \A j \in S : i <= j
Elements(h) == {i \in DOMAIN table : table[i].conn = h}
Open(h) == Elements(h) # {}
Index(h) == First(Elements(h))
Element(h) == [conn |-> h, known |-> FALSE, notes |-> <<>>]

connection_opened(h) ==
  table' = IF Open(Nobody)
           THEN [table EXCEPT ![First(Elements(Nobody))] = Element(h)]
           ELSE <<Element(h)>> \o table

\* The list of notifications stays until the element is used again.
connection_closed(h) ==
  table' = IF Open(h)
           THEN [table EXCEPT ![Index(h)] = [@ EXCEPT !.conn = Nobody,
                                                      !.known = FALSE]]
           ELSE table

\* characteristic_find_by_uuid, descriptor_find_by_handle
Known(h) == Open(h) /\ table[Index(h)].known

\* The latest GATT command reads or writes on the connection.
Accesses(h) == IsAccess(conf) /\ conf.conn = h

-----------------------------------------------------------------------------
(* Events: the loop of server.c from line 92 to line 139 *)

Takes(e) == /\ ~crashed /\ new = NoCommand
            /\ evq # <<>> /\ Head(evq) = e
            /\ evq' = Tail(evq)

\* gatt_event_handler has run; the loop looks at its result if the command is
\* running.
Ends(ret) == cmd' = IF ret THEN "OTHER" ELSE cmd
Shows(S) == shown' = IF cmd = "GATT" THEN shown \cup S ELSE shown

\* Slip: the opcode is not compared.
ValueAnyOpcode(e) == Accesses(e.conn)

\* Lines 306 to 312: the value may be that of the command.
ValueExpected(e) == Accesses(e.conn) /\ e.opcode = "read"

\* Lines 314 to 330.
ValueAnswers(e) == ValueExpected(e) /\ Known(e.conn) /\ conf.attr.char = e.char

HandleValue(e) ==
  /\ e.kind = "value" /\ Takes(e)
  /\ Ends(ValueExpected(e) /\ (~Known(e.conn) \/ ValueAnswers(e)))
  /\ Shows(IF ValueAnswers(e)
           THEN {[conn |-> e.conn, attr |-> [char |-> e.char, desc |-> FALSE]]}
           ELSE {})
  /\ UNCHANGED <<new, conf, table, crashed, ncp, alone, accepted, lost, past,
                 bounds>>

\* Lines 344 to 361; the connection of the command does not matter.
HandleDescriptor(e) ==
  /\ e.kind = "descriptor" /\ Takes(e)
  /\ Shows(IF /\ IsAccess(conf) /\ Known(e.conn)
              /\ conf.attr.char = e.char
           THEN {[conn |-> e.conn, attr |-> [char |-> e.char, desc |-> TRUE]]}
           ELSE {})
  /\ UNCHANGED <<cmd, new, conf, table, crashed, ncp, alone, accepted, lost,
                 past, bounds>>

\* Slip: only a success ends the command.
CompletedEndsIfOk(e) == e.ok

\* Line 374.
CompletedEnds(e) == TRUE

HandleCompleted(e) ==
  /\ e.kind = "completed" /\ Takes(e)
  /\ Ends(CompletedEnds(e))
  /\ Shows(IF e.ok THEN {} ELSE {Failure})
  /\ UNCHANGED <<new, conf, table, crashed, ncp, alone, accepted, lost, past,
                 bounds>>

Notes(h) == table[Index(h)].notes
Entries(h, l) == {i \in DOMAIN Notes(h) : Notes(h)[i].char = l}
Finds(h, l) == Entries(h, l) # {}
SetNotes(h, q) == table' = [table EXCEPT ![Index(h)].notes = q]
NewNote(l, f) == [char |-> l, flags |-> f]
Removed(q, i) == [k \in 1 .. Len(q) - 1 |-> IF k < i THEN q[k] ELSE q[k + 1]]
Without(h, l) == IF Finds(h, l) THEN Removed(Notes(h), First(Entries(h, l)))
                 ELSE Notes(h)

\* Slips: the list is not searched first; the wrong field of the event is kept.
AddsAlways(h, l, f) == <<NewNote(l, f)>> \o Notes(h)
AddsStatus(h, l, f) == <<NewNote(l, "client_config")>> \o Without(h, l)

\* Lines 32 to 44: an entry of the list changes in place, a new one goes to
\* its head.
Added(h, l, f) ==
  IF Finds(h, l)
  THEN [Notes(h) EXCEPT ![First(Entries(h, l))] = NewNote(l, f)]
  ELSE <<NewNote(l, f)>> \o Notes(h)

\* Slip: a confirmed notification is done with.
ConfirmDeletes(h, l) == Without(h, l)

\* Lines 16 to 21.
AfterConfirmation(h, l) ==
  IF Finds(h, l) THEN Notes(h) ELSE Added(h, l, "disable")

\* Line 24.
NullUsed(h, l) == ~Finds(h, l)

\* Lines 333 to 342, with notification_characteristic_add and _del.
HandleConfig(e) ==
  /\ e.kind = "config" /\ Takes(e)
  /\ \/ /\ Open(e.conn) /\ e.flags = "disable" /\ NullUsed(e.conn, e.char)
        /\ crashed' = TRUE
        /\ UNCHANGED <<cmd, table>>
     \/ /\ Open(e.conn) /\ e.flags = "disable" /\ ~NullUsed(e.conn, e.char)
        /\ SetNotes(e.conn, Without(e.conn, e.char))
        /\ Ends(TRUE)
        /\ UNCHANGED crashed
     \/ /\ Open(e.conn) /\ e.flags # "disable"
        /\ SetNotes(e.conn, Added(e.conn, e.char, e.flags))
        /\ Ends(TRUE)
        /\ UNCHANGED crashed
     \/ /\ ~Open(e.conn)
        /\ Ends(TRUE)
        /\ UNCHANGED <<table, crashed>>
  /\ UNCHANGED <<new, conf, ncp, run, past, bounds>>

HandleConfirmation(e) ==
  /\ e.kind = "confirmed" /\ Takes(e)
  /\ \/ Open(e.conn) /\ SetNotes(e.conn, AfterConfirmation(e.conn, e.char))
     \/ ~Open(e.conn) /\ UNCHANGED table
  /\ Ends(TRUE)
  /\ UNCHANGED <<new, conf, crashed, ncp, run, past, bounds>>

HandleFound(e) ==
  /\ e.kind = "found" /\ Takes(e)
  /\ table' = IF Open(e.conn) THEN [table EXCEPT ![Index(e.conn)].known = TRUE]
              ELSE table
  /\ UNCHANGED <<cmd, new, conf, crashed, ncp, run, past, bounds>>

HandleConnection(e) ==
  /\ Takes(e)
  /\ \/ e.kind = "opened" /\ connection_opened(e.conn)
     \/ e.kind = "closed" /\ connection_closed(e.conn)
  /\ UNCHANGED <<cmd, new, conf, crashed, ncp, run, past, bounds>>

-----------------------------------------------------------------------------
(* Commands: server.c:141-214; gatt_cleanup does nothing *)

Receives(c) == /\ ~crashed /\ new = NoCommand
               /\ commands < MaxCommands
               /\ commands' = commands + 1

SingleShot(c) ==
  /\ c.op = "SHOW" /\ Receives(c)
  /\ cmd' = "OTHER"
  /\ UNCHANGED <<new, conf, table, crashed, ncp, evq, run, past, remotes,
                 breaks>>

\* An event that could end a command, or be shown to its client.
Meddles(e) == e.kind \notin {"found", "opened", "closed"}
Quiet == /\ \A h \in Handle : owed[h] = <<>>
         /\ \A i \in DOMAIN evq : ~Meddles(evq[i])

Receive(c) ==
  /\ c.op # "SHOW" /\ Receives(c)
  /\ new' = c
  /\ conf' = IF IsAccess(c) THEN c ELSE IF IsGatt(c) THEN NoCommand ELSE conf
  /\ alone' = Quiet
  /\ accepted' = FALSE /\ shown' = {}
  /\ lost' = (/\ IsAccess(c)
              /\ \/ c.conn \notin link
                 \/ \E i \in DOMAIN evq :
                      evq[i] \in {Opened(c.conn), Closed(c.conn)})
  /\ UNCHANGED <<cmd, table, crashed, ncp, evq, past, remotes, breaks>>

Returns == cmd' = "OTHER"
Waits == cmd' = "GATT"

\* The NCP takes a command of its GATT client, and what it will report.
Starts(h, results) ==
  /\ h \in link /\ owed[h] = <<>>
  /\ \E r \in results : owed' = [owed EXCEPT ![h] = r]
Busy(h) == h \notin link \/ owed[h] # <<>>

\* A long value comes in more than one event.
ReadResults(h, a) ==
  {<<Completed(h, FALSE)>>}
    \cup IF a.desc THEN {<<DescValue(h, a.char), Completed(h, TRUE)>>}
         ELSE {<<Value(h, a.char, "read"), Completed(h, TRUE)>>,
               <<Value(h, a.char, "read"), Value(h, a.char, "blob"),
                 Completed(h, TRUE)>>}
WriteResults(h) == {<<Completed(h, TRUE)>>, <<Completed(h, FALSE)>>}

Read ==
  /\ new.op = "READ" /\ new' = NoCommand
  /\ \/ /\ ~Known(new.conn) \/ Busy(new.conn)
        /\ Returns
        /\ UNCHANGED <<owed, accepted>>
     \/ /\ Known(new.conn)
        /\ Starts(new.conn, ReadResults(new.conn, new.attr))
        /\ Waits /\ accepted' = TRUE
  /\ UNCHANGED <<conf, table, crashed, link, config, indicated, evq, alone,
                 lost, shown, past, bounds>>

\* Without a response: the execution of the write that follows, is a procedure
\* of its own.
WriteNoResponse ==
  /\ Known(new.conn) /\ ~new.attr.desc /\ new.attr.char \in NoResponse
  /\ \/ Starts(new.conn, WriteResults(new.conn))
     \/ UNCHANGED owed
  /\ Returns
  /\ UNCHANGED accepted

\* Lines 221 to 225 and 239 to 244: a refused write of a descriptor returns,
\* that of a characteristic waits.
RefusalWaits(a) == ~a.desc

WriteWithResponse ==
  /\ Known(new.conn)
  /\ new.attr.desc \/ new.attr.char \notin NoResponse
  /\ \/ /\ Starts(new.conn, WriteResults(new.conn))
        /\ Waits /\ accepted' = TRUE
     \/ /\ Busy(new.conn)
        /\ IF RefusalWaits(new.attr) THEN Waits ELSE Returns
        /\ UNCHANGED <<owed, accepted>>

Write ==
  /\ new.op = "WRITE" /\ new' = NoCommand
  /\ \/ WriteNoResponse
     \/ WriteWithResponse
     \/ ~Known(new.conn) /\ Returns /\ UNCHANGED <<owed, accepted>>
  /\ UNCHANGED <<conf, table, crashed, link, config, indicated, evq, alone,
                 lost, shown, past, bounds>>

\* notification_send: the NCP sends to a device that asked for it.
Notify ==
  /\ new.op = "NOTIFY" /\ new' = NoCommand
  /\ indicated' = IF /\ Open(new.conn) /\ new.conn \in link
                     /\ config[new.conn][new.char] = "indicate"
                  THEN indicated \cup {<<new.conn, new.char>>} ELSE indicated
  /\ Returns
  /\ UNCHANGED <<conf, table, crashed, link, owed, config, evq, run, past,
                 bounds>>

LocalOrUnknown ==
  /\ new.op \in {"LOCAL", "UNKNOWN"} /\ new' = NoCommand
  /\ IF new.op = "UNKNOWN" THEN Waits ELSE Returns
  /\ UNCHANGED <<conf, table, crashed, ncp, evq, run, past, bounds>>

Discover ==
  /\ new.op = "DISCOVER" /\ new' = NoCommand
  /\ \/ Starts(new.conn, {<<Found(new.conn), Completed(new.conn, TRUE)>>})
     \/ Busy(new.conn) /\ UNCHANGED owed
  /\ cmd' = "OTHER"
  /\ UNCHANGED <<conf, table, crashed, link, config, indicated, evq, run, past,
                 bounds>>

Scan ==
  /\ new.op = "SCAN" /\ new' = NoCommand
  /\ cmd' = "OTHER"
  /\ UNCHANGED <<conf, table, crashed, ncp, evq, run, past, bounds>>

-----------------------------------------------------------------------------
(* The NCP and the remote devices *)

NcpSends(e) == /\ Len(evq) < QueueCap
               /\ evq' = Append(evq, e)

NcpReports(h) ==
  /\ owed[h] # <<>>
  /\ NcpSends(Head(owed[h]))
  /\ owed' = [owed EXCEPT ![h] = Tail(@)]
  /\ UNCHANGED <<host, link, config, indicated, run, past, bounds>>

\* The configuration of a bonded device is kept.
NcpOpen(h) ==
  /\ h \notin link
  /\ link' = link \cup {h}
  /\ \/ config' = [config EXCEPT ![h] = Unconfigured] /\ UNCHANGED kept
     \/ config[h] # Unconfigured /\ kept' = TRUE /\ UNCHANGED config
  /\ NcpSends(Opened(h))
  /\ UNCHANGED <<host, owed, indicated, run, late, bounds>>

Drop(H) == /\ link' = link \ H
           /\ owed' = [h \in Handle |-> IF h \in H THEN <<>> ELSE owed[h]]
           /\ indicated' = {x \in indicated : x[1] \notin H}
           /\ lost' = (lost \/ \E h \in H : Accesses(h))

\* The end of the connection ends its procedure, with or without a word.
NcpClose(h) ==
  /\ h \in link /\ breaks < MaxBreaks /\ Len(evq) < QueueCap
  /\ breaks' = breaks + 1
  /\ Drop({h})
  /\ \/ evq' = Append(evq, Closed(h))
     \/ owed[h] # <<>> /\ evq' = evq \o <<Completed(h, FALSE), Closed(h)>>
  /\ UNCHANGED <<host, config, alone, accepted, shown, past, commands,
                 remotes>>

\* No connection survives a reboot, and none is reported closed.
NcpReboot ==
  /\ breaks < MaxBreaks
  /\ breaks' = breaks + 1
  /\ Drop(Handle)
  /\ UNCHANGED <<host, config, evq, alone, accepted, shown, past, commands,
                 remotes>>

Remote(h) == /\ h \in link /\ remotes < MaxRemote
             /\ remotes' = remotes + 1

RemoteConfigures(h, l, f) ==
  /\ Remote(h) /\ config[h][l] # f
  /\ config' = [config EXCEPT ![h][l] = f]
  /\ NcpSends(Config(h, l, f))
  /\ late' = (late \/ (f = "disable" /\ <<h, l>> \in indicated))
  /\ alone' = FALSE
  /\ UNCHANGED <<host, link, owed, indicated, accepted, lost, shown, kept,
                 commands, breaks>>

RemoteConfirms(h, l) ==
  /\ <<h, l>> \in indicated
  /\ indicated' = indicated \ {<<h, l>>}
  /\ NcpSends(Confirmed(h, l))
  /\ alone' = FALSE
  /\ UNCHANGED <<host, link, owed, config, accepted, lost, shown, past, bounds>>

\* A device notifies the NCP's client.
RemoteNotifies(h, c) ==
  /\ Remote(h)
  /\ NcpSends(Value(h, c, "notification"))
  /\ UNCHANGED <<host, ncp, run, past, commands, breaks>>

-----------------------------------------------------------------------------
HandlesEvent == evq # <<>> /\ \E e \in {Head(evq)} :
  \/ HandleValue(e) \/ HandleDescriptor(e) \/ HandleCompleted(e)
  \/ HandleConfig(e) \/ HandleConfirmation(e)
  \/ HandleFound(e) \/ HandleConnection(e)
RunsCommand == Read \/ Write \/ Notify \/ LocalOrUnknown \/ Discover \/ Scan

Next == \/ HandlesEvent \/ RunsCommand \/ NcpReboot
        \/ \E c \in Command : SingleShot(c) \/ Receive(c)
        \/ \E h \in Handle :
             \/ NcpReports(h) \/ NcpOpen(h) \/ NcpClose(h)
             \/ \E l \in Local : \/ RemoteConfirms(h, l)
                                 \/ \E f \in Flags : RemoteConfigures(h, l, f)
             \/ \E c \in Characteristic : RemoteNotifies(h, c)

Spec == Init /\ [][Next]_vars

\* The loop goes on, and a procedure gets its turn in the queue.
Fairness == /\ WF_vars(HandlesEvent) /\ WF_vars(RunsCommand)
            /\ \A h \in Handle : SF_vars(NcpReports(h))

FairSpec == Spec /\ Fairness

-----------------------------------------------------------------------------
(* Properties *)

\* Every variable has its type.
TypeOK ==
  /\ cmd \in {"GATT", "OTHER"}
  /\ new \in Command \cup {NoCommand}
  /\ conf \in {c \in Command : IsAccess(c)} \cup {NoCommand}
  /\ table \in Seq([conn : Handle \cup {Nobody}, known : BOOLEAN,
                    notes : Seq(Note)])
  /\ link \in SUBSET Handle
  /\ owed \in [Handle -> Seq(Event)]
  /\ config \in [Handle -> [Local -> Flags]]
  /\ indicated \in SUBSET (Handle \X Local)
  /\ evq \in Seq(Event)
  /\ shown \in SUBSET Answer
  /\ {crashed, alone, accepted, lost, kept, late} \subseteq BOOLEAN
  /\ commands \in 0 .. MaxCommands /\ remotes \in 0 .. MaxRemote
  /\ breaks \in 0 .. MaxBreaks

\* What the client of a command that got its own answer was shown.
Answered(c, s) ==
  \/ s = {Failure}
  \/ c.op = "WRITE" /\ s = {}
  \/ c.op = "READ" /\ s = {[conn |-> c.conn, attr |-> c.attr]}

\* The loop ends a GATT command at an event.
Finishes == cmd = "GATT" /\ cmd' = "OTHER" /\ evq' # evq /\ new = NoCommand

\* A read ends having shown exactly the value that was asked for, or an error,
\* and a write ends with at most an error: the answers are told apart only by
\* connection, opcode and handle (gatt.c:306-330, 344-375).  Not so when
\* events of an earlier procedure, or of a device that configures a
\* notification, were on their way, or the connection closed.
OwnAnswer ==
  [][Finishes /\ alone /\ accepted /\ ~lost => Answered(conf, shown')]_vars

\* A GATT command the NCP has accepted ends, or makes way for another, although
\* no timer watches it, as long as its connection lasts and the daemon does not
\* crash (gatt.c:187, 226, 239, 369-375).
CommandEnds ==
  cmd = "GATT" /\ accepted ~> cmd # "GATT" \/ ~accepted \/ lost \/ crashed

\* The list of a connection.
List(h) == {Notes(h)[i] : i \in DOMAIN Notes(h)}
Enabled(h) == {NewNote(l, config[h][l]) :
                 l \in {k \in Local : config[h][k] # "disable"}}
NewsOf(h) == \E i \in DOMAIN evq : evq[i].conn = h

\* When the loop has heard all of it, the list of a connection has each
\* notification its device has enabled, exactly once, with its flags
\* (notify.c:9-58), whatever elements of the table are used again.  Not so
\* when the device disables one before it confirms it (notify.c:16-21, 37), the
\* NCP remembers a configuration, or the table still has a connection of the
\* handle from before a reboot: events are filed with the first of the two.
NotificationsKnown ==
  \A h \in link :
    ~NewsOf(h) /\ ~kept /\ ~late /\ Cardinality(Elements(h)) <= 1
      => /\ Open(h)
         /\ List(h) = Enabled(h)
         /\ Len(Notes(h)) = Cardinality(Enabled(h))

\* A device that disables a notification finds it in the list (notify.c:24),
\* unless it enabled it during an earlier connection.
DisableFinds == crashed => kept
=============================================================================
