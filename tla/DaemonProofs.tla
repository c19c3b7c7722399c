---------------------------- MODULE DaemonProofs ----------------------------
(***************************************************************************)
(* Proofs about Daemon, for every set of handles and addresses, every      *)
(* timeout and every bound: types, the client that the end of a command    *)
(* reaches, the timers that run, the timers of the commands, the table of  *)
(* connections, and what a connection attempt that times out closes.       *)
(***************************************************************************)
EXTENDS Daemon, ListLemmas

-----------------------------------------------------------------------------
(* Types, in the groups the actions change *)

TimersType == /\ listed \in [Timer -> Nat] /\ count \in [Timer -> Nat]
              /\ armed \in [Timer -> BOOLEAN]
LoopType == /\ pc \in {"select", "bootup", "timer", "scan_event", "connect_event",
                       "pair_event", "single_shot", "cleanup", "command", "hung"}
            /\ evt \in Event \cup {NoEvent}
            /\ new \in Command \cup {NoCommand}
            /\ cmd \in {"IDLE", "SCAN", "CONNECT"}
            /\ booted \in BOOLEAN /\ early \in BOOLEAN
HandlersType == /\ scanRet \in BOOLEAN /\ connRet \in BOOLEAN
                /\ connRunning \in BOOLEAN /\ connHandle \in Handle
TableType == table \in Seq([conn : Handle, addr : Addr, used : BOOLEAN])
NcpType == /\ evq \in Seq(Event)
           /\ up \in BOOLEAN /\ reset \in BOOLEAN
           /\ link \in [Handle -> Link]
           /\ adv \in BOOLEAN /\ discovering \in BOOLEAN
ClientsType == /\ ctlq \in Seq([command : Command, from : {"live", "dead"}])
               /\ client \in {"none", "waiting"}
               /\ owner \in {"none", "live", "dead"}
CountersType == kills \in 0 .. MaxKills /\ resets \in 0 .. MaxResets

\* TypeOK is the conjunction of the groups.
LEMMA TypeGroups ==
  TypeOK <=> /\ TimersType /\ LoopType /\ HandlersType /\ TableType
             /\ NcpType /\ ClientsType /\ CountersType
BY DEF TypeOK, TimersType, LoopType, HandlersType, TableType, NcpType,
       ClientsType, CountersType

\* What timer.c does to a timer keeps the types.
LEMMA TimersStep ==
  ASSUME TimersType, NEW t \in Timer, NEW c \in Nat,
         \/ UNCHANGED timers
         \/ SetCount(t, c) \/ hw_timer_add(t, c) \/ hw_timer_del(t)
         \/ hw_timer_list_update(t) \/ hw_timer_list_clear
  PROVE  TimersType'
<1> USE DEF TimersType
<1>1. CASE UNCHANGED timers
  BY <1>1 DEF timers
<1>2. CASE SetCount(t, c)
  BY <1>2 DEF SetCount
<1>3. CASE hw_timer_add(t, c)
  BY <1>3 DEF hw_timer_add
<1>4. CASE hw_timer_del(t)
  BY <1>4 DEF hw_timer_del
<1>5. CASE hw_timer_list_update(t)
  <2>1. count' \in [Timer -> Nat]
    BY <1>5 DEF hw_timer_list_update, NextCount
  <2>2. listed' \in [Timer -> Nat]
    BY <1>5 DEF hw_timer_list_update, Ends, Listed
  <2>3. armed' \in [Timer -> BOOLEAN]
    BY <1>5 DEF hw_timer_list_update
  <2> QED BY <2>1, <2>2, <2>3
<1>6. CASE hw_timer_list_clear
  BY <1>6 DEF hw_timer_list_clear
<1> QED BY <1>1, <1>2, <1>3, <1>4, <1>5, <1>6

ListElem == [conn : Handle, addr : Addr, used : BOOLEAN]

\* An element of connection_list that is given up keeps its other fields.
LEMMA Unuse == ASSUME NEW e \in ListElem
               PROVE  [e EXCEPT !.used = FALSE] \in ListElem
BY Zenon DEF ListElem

\* connection_list keeps its type, whichever element is reused.
LEMMA TableStep ==
  ASSUME TableType, NEW h, NEW a,
         \/ UNCHANGED table
         \/ h \in Handle /\ a \in Addr /\ connection_opened(h, a)
         \/ connection_closed(h)
  PROVE  TableType'
<1>1. h \in Handle /\ a \in Addr => Entry(h, a) \in ListElem
  BY DEF Entry, ListElem
<1>2. table \in Seq(ListElem)
  BY DEF TableType, ListElem
<1>3. table' \in Seq(ListElem)
  <2>1. CASE UNCHANGED table
    BY <1>2, <2>1
  <2>2. CASE h \in Handle /\ a \in Addr /\ connection_opened(h, a)
    <3>1. [table EXCEPT ![First(Unused)] = Entry(h, a)] \in Seq(ListElem)
      BY <1>1, <1>2, <2>2, SeqReplace
    <3>2. <<Entry(h, a)>> \o table \in Seq(ListElem)
      BY <1>1, <1>2, <2>2
    <3> QED BY <3>1, <3>2, <2>2 DEF connection_opened
  <2>3. CASE connection_closed(h) /\ ByConn(h) # {}
    <3> DEFINE i == First(ByConn(h))
    <3>1. table' = [table EXCEPT ![i] = [table[i] EXCEPT !.used = FALSE]]
      BY <2>3 DEF connection_closed
    <3>2. CASE i \in DOMAIN table
      <4>1. table[i] \in ListElem
        BY <1>2, <3>2
      <4>2. [table[i] EXCEPT !.used = FALSE] \in ListElem
        BY <4>1, Unuse
      <4> QED BY <3>1, <4>2, <1>2, SeqReplace
    <3>3. CASE i \notin DOMAIN table
      <4>1. table' = table
        BY <3>1, <3>3, <1>2
      <4> QED BY <4>1, <1>2
    <3> QED BY <3>2, <3>3
  <2>4. CASE connection_closed(h) /\ ByConn(h) = {}
    BY <1>2, <2>4 DEF connection_closed
  <2> QED BY <2>1, <2>2, <2>3, <2>4
<1> QED BY <1>3 DEF TableType, ListElem

\* The events the NCP sends are events.
LEMMA Events ==
  /\ Boot \in Event
  /\ \A t \in Timer : Tick(t) \in Event
  /\ \A h \in Handle : Closed(h) \in Event
  /\ \A h \in Handle, a \in Addr : Opened(h, a) \in Event
BY DEF Event

\* And they are told apart by their kind.
LEMMA EventKinds ==
  ASSUME NEW e \in Event
  PROVE  /\ e.kind = "tick" => e.timer \in Timer
         /\ e.kind = "opened" => e.conn \in Handle /\ e.addr \in Addr
         /\ e.kind = "closed" => e.conn \in Handle
         /\ e.kind \in {"boot", "tick", "opened", "closed"}
BY DEF Event, Boot, Tick, Opened, Closed

\* The queue of events grows and shrinks by events.
LEMMA QueueStep ==
  ASSUME NEW q \in Seq(Event)
  PROVE  /\ \A e \in Event : Append(q, e) \in Seq(Event)
         /\ q # <<>> => Head(q) \in Event /\ Tail(q) \in Seq(Event)
OBVIOUS

\* Where the loop goes with what is left of an event.
LEMMA GoesOn ==
  ASSUME LoopType, NEW e, NEW s, NEW c, GoOn(EventHandler(e, s, c))
  PROVE  /\ pc' \in {"select", "scan_event", "connect_event", "pair_event"}
         /\ evt' \in Event \cup {NoEvent}
<1>1. EventHandler(e, s, c) \in {"select", "scan_event", "connect_event", "pair_event"}
  BY DEF EventHandler
<1> QED BY <1>1 DEF GoOn, LoopType

\* The fields of a command, and the three commands the loop waits for.
LEMMA Commands ==
  ASSUME NEW c \in Command
  PROVE  /\ c.op = "CONNECT" => c.addr \in Addr
         /\ c.op \in {"CONNECTION", "CONNECT_DISCONN"} => c.disconn \in Handle
BY DEF Command, Plain

\* Closing a connection keeps the types of the NCP's state.
LEMMA Closes ==
  ASSUME NcpType, NEW h \in Handle, CloseLink(h)
  PROVE  link' \in [Handle -> Link] /\ evq' \in Seq(Event)
<1>1. Closed(h) \in Event /\ evq \in Seq(Event) /\ link \in [Handle -> Link]
  BY Events DEF NcpType
<1>2. Append(evq, Closed(h)) \in Seq(Event)
  BY <1>1, QueueStep
<1>3. [link EXCEPT ![h] = NoLink] \in [Handle -> Link]
  BY <1>1 DEF Link
<1> QED BY <1>1, <1>2, <1>3 DEF CloseLink

-----------------------------------------------------------------------------
\* The types after a step.
NextType == /\ TimersType' /\ LoopType' /\ HandlersType' /\ TableType'
            /\ NcpType' /\ ClientsType' /\ CountersType'

\* Every step keeps the types.
LEMMA TypeStep == TypeOK /\ [Next]_vars => TypeOK'
<1> SUFFICES ASSUME TimersType, LoopType, HandlersType, TableType, NcpType,
                    ClientsType, CountersType, [Next]_vars
             PROVE  NextType
  BY DEF TypeOK, NextType, TimersType, LoopType, HandlersType, TableType,
         NcpType, ClientsType, CountersType
<1> USE DEF timers, host, conn, ncp, clients
<1>1. CASE SkipEvent
  <2>1. NcpType'
    BY <1>1, QueueStep DEF SkipEvent, NcpType
  <2>2. /\ TimersType' /\ LoopType' /\ HandlersType'
        /\ TableType' /\ ClientsType' /\ CountersType'
    BY <1>1
    DEF SkipEvent, TimersType, LoopType, HandlersType, TableType, ClientsType,
        CountersType
  <2> QED BY <2>1, <2>2 DEF NextType
<1>2. CASE TakeEvent
  <2>1. LoopType'
    BY <1>2, QueueStep DEF TakeEvent, EventHandler, NcpType, LoopType
  <2>2. NcpType'
    BY <1>2, QueueStep DEF TakeEvent, NcpType
  <2>3. /\ TimersType' /\ HandlersType' /\ TableType'
        /\ ClientsType' /\ CountersType'
    BY <1>2
    DEF TakeEvent, TimersType, HandlersType, TableType, ClientsType,
        CountersType
  <2> QED BY <2>1, <2>2, <2>3 DEF NextType
<1>3. CASE Bootup
  <2>1. TimersType'
    BY <1>3, TimersAssumption, TimersStep DEF Bootup, TimersType
  <2>2. LoopType'
    BY <1>3, GoesOn DEF Bootup, LoopType
  <2>3. /\ HandlersType' /\ TableType' /\ NcpType'
        /\ ClientsType' /\ CountersType'
    BY <1>3
    DEF Bootup, HandlersType, TableType, NcpType, ClientsType, CountersType
  <2> QED BY <2>1, <2>2, <2>3 DEF NextType
<1>4. CASE ScanTimer
  <2>1. TimersType'
    BY <1>4, TimersAssumption, TimersStep DEF ScanTimer, TimersType
  <2>2. LoopType'
    BY <1>4, GoesOn DEF ScanTimer, LoopType
  <2>3. HandlersType'
    BY <1>4 DEF ScanTimer, ScanOver, HandlersType
  <2>4. /\ TableType' /\ NcpType' /\ ClientsType'
        /\ CountersType'
    BY <1>4 DEF ScanTimer, TableType, NcpType, ClientsType, CountersType
  <2> QED BY <2>1, <2>2, <2>3, <2>4 DEF NextType
<1>5. CASE ConnectTimer
  <2>1. TimersType'
    BY <1>5, TimersAssumption, TimersStep DEF ConnectTimer, TimersType
  <2>2. LoopType'
    BY <1>5, GoesOn DEF ConnectTimer, LoopType
  <2>3. HandlersType'
    BY <1>5 DEF ConnectTimer, HandlersType
  <2>4. /\ TableType' /\ NcpType' /\ ClientsType'
        /\ CountersType'
    BY <1>5 DEF ConnectTimer, TableType, NcpType, ClientsType, CountersType
  <2> QED BY <2>1, <2>2, <2>3, <2>4 DEF NextType
<1>6. CASE ConnectTimesOut
  <2>1. TimersType'
    BY <1>6, TimersAssumption, TimersStep DEF ConnectTimesOut, TimersType
  <2>2. LoopType'
    BY <1>6, GoesOn DEF ConnectTimesOut, LoopType
  <2>3. HandlersType'
    BY <1>6 DEF ConnectTimesOut, HandlersType
  <2>4. NcpType'
    BY <1>6, Closes DEF ConnectTimesOut, HandlersType, NcpType
  <2>5. TableType' /\ ClientsType' /\ CountersType'
    BY <1>6 DEF ConnectTimesOut, TableType, ClientsType, CountersType
  <2> QED BY <2>1, <2>2, <2>3, <2>4, <2>5 DEF NextType
<1>7. CASE ScanEvent
  <2>1. TimersType'
    BY <1>7, TimersAssumption, TimersStep
    DEF ScanEvent, scan_cleanup, TimersType
  <2>2. LoopType'
    BY <1>7, GoesOn DEF ScanEvent, EndCommand, LoopType
  <2>3. HandlersType'
    BY <1>7 DEF ScanEvent, scan_cleanup, HandlersType
  <2>4. NcpType'
    BY <1>7 DEF ScanEvent, scan_cleanup, NcpType
  <2>5. ClientsType' /\ CountersType'
    BY <1>7 DEF ScanEvent, EndCommand, Terminate, ClientsType, CountersType
  <2>6. TableType'
    BY <1>7 DEF ScanEvent, TableType
  <2> QED BY <2>1, <2>2, <2>3, <2>4, <2>5, <2>6 DEF NextType
<1>8. CASE ConnectEvent
  <2>1. TimersType'
    BY <1>8, TimersAssumption, TimersStep
    DEF ConnectEvent, Connected, TimersType
  <2>2. LoopType'
    BY <1>8, GoesOn DEF ConnectEvent, EndCommand, LoopType
  <2>3. HandlersType'
    BY <1>8 DEF ConnectEvent, Connected, HandlersType
  <2>4. ClientsType' /\ CountersType'
    BY <1>8 DEF ConnectEvent, EndCommand, Terminate, ClientsType, CountersType
  <2>5. TableType'
    <3>1. CASE evt.kind = "opened" /\ connection_opened(evt.conn, evt.addr)
      <4>1. evt \in Event
        BY <3>1 DEF LoopType, NoEvent
      <4>2. evt.conn \in Handle /\ evt.addr \in Addr
        BY <3>1, <4>1, EventKinds
      <4> QED BY <3>1, <4>2, TableStep
    <3>2. CASE UNCHANGED table
      BY <3>2, TableStep
    <3> QED BY <1>8, <3>1, <3>2 DEF ConnectEvent
  <2>6. NcpType'
    BY <1>8 DEF ConnectEvent, NcpType
  <2> QED BY <2>1, <2>2, <2>3, <2>4, <2>5, <2>6 DEF NextType
<1>9. CASE PairEvent
  <2>1. LoopType'
    BY <1>9 DEF PairEvent, GoOn, LoopType
  <2>2. TableType'
    BY <1>9, TableStep DEF PairEvent, TableType
  <2>3. NcpType'
    BY <1>9 DEF PairEvent, NcpType
  <2>4. /\ TimersType' /\ HandlersType' /\ ClientsType'
        /\ CountersType'
    BY <1>9 DEF PairEvent, TimersType, HandlersType, ClientsType, CountersType
  <2> QED BY <2>1, <2>2, <2>3, <2>4 DEF NextType
<1>10. CASE RecvCommand
  <2>1. LoopType' /\ ClientsType'
    <3> DEFINE D == [command : Command, from : {"live", "dead"}]
    <3>0. ctlq \in Seq(D) /\ ctlq # <<>>
      BY <1>10 DEF RecvCommand, ClientsType
    <3>1. Head(ctlq) \in D /\ Tail(ctlq) \in Seq(D)
      <4> HIDE DEF D
      <4> QED BY <3>0
    <3>2. new' \in Command /\ owner' \in {"live", "dead"}
      BY <1>10, <3>1 DEF RecvCommand
    <3>3. early' \in BOOLEAN
      BY <1>10 DEF RecvCommand, LoopType
    <3>4. LoopType'
      BY <1>10, <3>2, <3>3 DEF RecvCommand, LoopType
    <3> QED BY <1>10, <3>1, <3>2, <3>4 DEF RecvCommand, ClientsType
  <2>2. /\ TimersType' /\ HandlersType' /\ TableType'
        /\ NcpType' /\ CountersType'
    BY <1>10
    DEF RecvCommand, TimersType, HandlersType, TableType, NcpType,
        CountersType
  <2> QED BY <2>1, <2>2 DEF NextType
<1>11. CASE Show
  <2>1. LoopType'
    BY <1>11 DEF Show, EndCommand, Terminate, LoopType
  <2>2. ClientsType' /\ CountersType'
    BY <1>11 DEF Show, EndCommand, Terminate, ClientsType, CountersType
  <2>3. /\ TimersType' /\ HandlersType' /\ TableType'
        /\ NcpType'
    BY <1>11 DEF Show, TimersType, HandlersType, TableType, NcpType
  <2> QED BY <2>1, <2>2, <2>3 DEF NextType
<1>12. CASE Set
  <2>1. LoopType'
    BY <1>12 DEF Set, EndCommand, Terminate, LoopType
  <2>2. NcpType'
    BY <1>12 DEF Set, NcpType
  <2>3. ClientsType'
    BY <1>12 DEF Set, EndCommand, Terminate, ClientsType
  <2>4. CountersType'
    <3>1. resets < MaxResets /\ resets' = resets + 1 /\ kills' = kills
      BY <1>12 DEF Set, EndCommand, Terminate
    <3> QED BY <3>1, BoundsAssumption DEF CountersType
  <2>5. TimersType' /\ HandlersType' /\ TableType'
    BY <1>12 DEF Set, TimersType, HandlersType, TableType
  <2> QED BY <2>1, <2>2, <2>3, <2>4, <2>5 DEF NextType
<1>13. CASE Disconnect
  <2>1. LoopType'
    BY <1>13 DEF Disconnect, EndCommand, Terminate, LoopType
  <2>2. ClientsType' /\ CountersType'
    BY <1>13 DEF Disconnect, EndCommand, Terminate, ClientsType, CountersType
  <2>3. NcpType'
    <3>1. new.disconn \in Handle
      BY <1>13, Commands DEF Disconnect, Disconnects, LoopType, NoCommand
    <3>2. link' \in [Handle -> Link] /\ evq' \in Seq(Event)
      <4>1. CASE CloseLink(new.disconn)
        BY <3>1, <4>1, Closes
      <4>2. CASE UNCHANGED <<link, evq>>
        BY <4>2 DEF NcpType
      <4> QED BY <1>13, <4>1, <4>2 DEF Disconnect
    <3> QED BY <1>13, <3>2 DEF Disconnect, NcpType
  <2>4. TimersType' /\ HandlersType' /\ TableType'
    BY <1>13 DEF Disconnect, TimersType, HandlersType, TableType
  <2> QED BY <2>1, <2>2, <2>3, <2>4 DEF NextType
<1>14. CASE Cleanup
  <2>1. TimersType'
    BY <1>14, TimersAssumption, TimersStep
    DEF Cleanup, scan_cleanup, TimersType
  <2>2. LoopType'
    BY <1>14 DEF Cleanup, LoopType
  <2>3. HandlersType'
    BY <1>14 DEF Cleanup, scan_cleanup, HandlersType
  <2>4. NcpType'
    BY <1>14 DEF Cleanup, scan_cleanup, NcpType
  <2>5. TableType' /\ ClientsType' /\ CountersType'
    BY <1>14 DEF Cleanup, TableType, ClientsType, CountersType
  <2> QED BY <2>1, <2>2, <2>3, <2>4, <2>5 DEF NextType
<1>15. CASE Scan
  <2>1. TimersType'
    BY <1>15, TimersAssumption, TimeoutAssumption, TimersStep
    DEF Scan, TimersType
  <2>2. LoopType'
    BY <1>15 DEF Scan, LoopType
  <2>3. HandlersType'
    BY <1>15 DEF Scan, HandlersType
  <2>4. NcpType'
    BY <1>15 DEF Scan, NcpType
  <2>5. TableType' /\ ClientsType' /\ CountersType'
    BY <1>15 DEF Scan, TableType, ClientsType, CountersType
  <2> QED BY <2>1, <2>2, <2>3, <2>4, <2>5 DEF NextType
<1>16. CASE Pair
  <2>1. LoopType'
    BY <1>16 DEF Pair, EndCommand, Terminate, LoopType
  <2>2. NcpType'
    BY <1>16 DEF Pair, NcpType
  <2>3. ClientsType' /\ CountersType'
    BY <1>16 DEF Pair, EndCommand, Terminate, ClientsType, CountersType
  <2>4. TimersType' /\ HandlersType' /\ TableType'
    BY <1>16 DEF Pair, TimersType, HandlersType, TableType
  <2> QED BY <2>1, <2>2, <2>3, <2>4 DEF NextType
<1>17. CASE ConnectReturns
  <2>1. TimersType'
    BY <1>17, TimersAssumption, TimeoutAssumption, TimersStep
    DEF ConnectReturns, TimersType
  <2>2. LoopType'
    BY <1>17 DEF ConnectReturns, EndCommand, Terminate, LoopType
  <2>3. HandlersType'
    BY <1>17 DEF ConnectReturns, HandlersType
  <2>4. ClientsType' /\ CountersType'
    BY <1>17
    DEF ConnectReturns, EndCommand, Terminate, ClientsType, CountersType
  <2>5. TableType' /\ NcpType'
    BY <1>17 DEF ConnectReturns, TableType, NcpType
  <2> QED BY <2>1, <2>2, <2>3, <2>4, <2>5 DEF NextType
<1>18. ASSUME NEW h \in Handle, Connect(h) PROVE NextType
  <2>1. TimersType'
    BY <1>18, TimersAssumption, TimeoutAssumption, TimersStep
    DEF Connect, StartTimer, TimersType
  <2>2. LoopType'
    BY <1>18 DEF Connect, LoopType
  <2>3. HandlersType'
    BY <1>18 DEF Connect, HandlersType
  <2>4. NcpType'
    <3>1. new.addr \in Addr
      BY <1>18, Commands DEF Connect, LoopType, NoCommand
    <3>2. [state |-> "pending", addr |-> new.addr] \in Link
      BY <3>1 DEF Link
    <3>3. link' \in [Handle -> Link]
      BY <1>18, <3>2 DEF Connect, NcpType
    <3> QED BY <1>18, <3>3 DEF Connect, NcpType
  <2>5. TableType' /\ ClientsType' /\ CountersType'
    BY <1>18 DEF Connect, TableType, ClientsType, CountersType
  <2> QED BY <2>1, <2>2, <2>3, <2>4, <2>5 DEF NextType
<1>19. CASE Hang
  <2>1. LoopType'
    BY <1>19 DEF Hang, LoopType
  <2>2. /\ TimersType' /\ HandlersType' /\ TableType'
        /\ NcpType' /\ ClientsType' /\ CountersType'
    BY <1>19
    DEF Hang, TimersType, HandlersType, TableType, NcpType, ClientsType,
        CountersType
  <2> QED BY <2>1, <2>2 DEF NextType
<1>20. ASSUME NEW c \in Command, ClientSends(c) PROVE NextType
  <2>1. ClientsType'
    BY <1>20 DEF ClientSends, ClientsType
  <2>2. /\ TimersType' /\ LoopType' /\ HandlersType'
        /\ TableType' /\ NcpType' /\ CountersType'
    BY <1>20
    DEF ClientSends, TimersType, LoopType, HandlersType, TableType, NcpType,
        CountersType
  <2> QED BY <2>1, <2>2 DEF NextType
<1>21. CASE ClientKilled
  <2>1. ClientsType' /\ CountersType'
    <3> DEFINE D == [command : Command, from : {"live", "dead"}]
    <3>1. \A i \in DOMAIN ctlq : [ctlq[i] EXCEPT !.from = "dead"] \in D
      <4> TAKE i \in DOMAIN ctlq
      <4>1. ctlq \in Seq(D)
        BY DEF ClientsType
      <4>2. ctlq[i] \in D
        <5> HIDE DEF D
        <5> QED BY <4>1
      <4> QED BY <4>2, Zenon
    <3>2. DOMAIN ctlq = 1 .. Len(ctlq) /\ Len(ctlq) \in Nat
      BY DEF ClientsType
    <3>3. ctlq' \in [1 .. Len(ctlq) -> D]
      BY <1>21, <3>1, <3>2 DEF ClientKilled
    <3>4. ctlq' \in Seq(D)
      BY <3>2, <3>3, SeqDef
    <3>5. kills' \in 0 .. MaxKills
      BY <1>21, BoundsAssumption DEF ClientKilled, CountersType
    <3> QED BY <1>21, <3>4, <3>5 DEF ClientKilled, ClientsType, CountersType
  <2>2. /\ TimersType' /\ LoopType' /\ HandlersType'
        /\ TableType' /\ NcpType'
    BY <1>21
    DEF ClientKilled, TimersType, LoopType, HandlersType, TableType, NcpType
  <2> QED BY <2>1, <2>2 DEF NextType
<1>22. CASE NcpReset
  <2>1. TimersType'
    BY <1>22 DEF NcpReset, NcpDown, TimersType
  <2>2. NcpType'
    BY <1>22 DEF NcpReset, NcpDown, Link, NcpType
  <2>3. /\ LoopType' /\ HandlersType' /\ TableType'
        /\ ClientsType' /\ CountersType'
    BY <1>22
    DEF NcpReset, NcpDown, LoopType, HandlersType, TableType, ClientsType,
        CountersType
  <2> QED BY <2>1, <2>2, <2>3 DEF NextType
<1>23. CASE NcpCrash
  <2>1. TimersType'
    BY <1>23 DEF NcpCrash, NcpDown, TimersType
  <2>2. LoopType'
    BY <1>23 DEF NcpCrash, NcpDown, LoopType
  <2>3. NcpType'
    BY <1>23 DEF NcpCrash, NcpDown, Link, NcpType
  <2>4. CountersType'
    <3>1. resets < MaxResets /\ resets' = resets + 1 /\ kills' = kills
      BY <1>23 DEF NcpCrash, NcpDown
    <3> QED BY <3>1, BoundsAssumption DEF CountersType
  <2>5. HandlersType' /\ TableType' /\ ClientsType'
    BY <1>23 DEF NcpCrash, NcpDown, HandlersType, TableType, ClientsType
  <2> QED BY <2>1, <2>2, <2>3, <2>4, <2>5 DEF NextType
<1>24. CASE NcpBoot
  <2>1. NcpType'
    BY <1>24, Events, QueueStep DEF NcpBoot, NcpType
  <2>2. /\ TimersType' /\ LoopType' /\ HandlersType'
        /\ TableType' /\ ClientsType' /\ CountersType'
    BY <1>24
    DEF NcpBoot, TimersType, LoopType, HandlersType, TableType, ClientsType,
        CountersType
  <2> QED BY <2>1, <2>2 DEF NextType
<1>25. ASSUME NEW t \in Timer, NcpTick(t) PROVE NextType
  <2>1. NcpType'
    BY <1>25, Events, QueueStep DEF NcpTick, NcpSends, NcpType
  <2>2. /\ TimersType' /\ LoopType' /\ HandlersType'
        /\ TableType' /\ ClientsType' /\ CountersType'
    BY <1>25
    DEF NcpTick, TimersType, LoopType, HandlersType, TableType, ClientsType,
        CountersType
  <2> QED BY <2>1, <2>2 DEF NextType
<1>26. ASSUME NEW h \in Handle, NcpOpen(h) PROVE NextType
  <2>1. NcpType'
    <3>1. link[h] \in [state : {"pending", "open"}, addr : Addr]
      BY <1>26 DEF NcpOpen, NcpType, Link, NoLink
    <3>2. [link[h] EXCEPT !.state = "open"] \in [state : {"pending", "open"}, addr : Addr]
      BY <3>1, Zenon
    <3>3. link' = [link EXCEPT ![h] = [link[h] EXCEPT !.state = "open"]]
      BY <1>26, Zenon DEF NcpOpen
    <3>4. link' \in [Handle -> Link]
      BY <3>2, <3>3 DEF NcpType, Link
    <3>5. Opened(h, link[h].addr) \in Event
      BY <3>1, Events
    <3>6. evq' \in Seq(Event)
      BY <1>26, <3>5, QueueStep DEF NcpOpen, NcpSends, NcpType
    <3> QED BY <1>26, <3>4, <3>6 DEF NcpOpen, NcpType
  <2>2. /\ TimersType' /\ LoopType' /\ HandlersType'
        /\ TableType' /\ ClientsType' /\ CountersType'
    BY <1>26
    DEF NcpOpen, TimersType, LoopType, HandlersType, TableType, ClientsType,
        CountersType
  <2> QED BY <2>1, <2>2 DEF NextType
<1>27. ASSUME NEW h \in Handle, NEW a \in Addr, NcpAccept(h, a) PROVE NextType
  <2>1. NcpType'
    <3>1. Opened(h, a) \in Event /\ [state |-> "open", addr |-> a] \in Link
      BY Events DEF Link
    <3>2. evq' \in Seq(Event)
      BY <1>27, <3>1, QueueStep DEF NcpAccept, NcpSends, NcpType
    <3>3. link' \in [Handle -> Link]
      BY <1>27, <3>1 DEF NcpAccept, NcpType
    <3> QED BY <1>27, <3>2, <3>3 DEF NcpAccept, NcpType
  <2>2. /\ TimersType' /\ LoopType' /\ HandlersType'
        /\ TableType' /\ ClientsType' /\ CountersType'
    BY <1>27
    DEF NcpAccept, TimersType, LoopType, HandlersType, TableType, ClientsType,
        CountersType
  <2> QED BY <2>1, <2>2 DEF NextType
<1>28. ASSUME NEW h \in Handle, NcpClose(h) PROVE NextType
  <2>1. NcpType'
    <3>1. Closed(h) \in Event /\ NoLink \in Link
      BY Events DEF Link
    <3>2. evq' \in Seq(Event)
      BY <1>28, <3>1, QueueStep DEF NcpClose, NcpSends, NcpType
    <3>3. link' \in [Handle -> Link]
      BY <1>28, <3>1 DEF NcpClose, NcpType
    <3> QED BY <1>28, <3>2, <3>3 DEF NcpClose, NcpType
  <2>2. /\ TimersType' /\ LoopType' /\ HandlersType'
        /\ TableType' /\ ClientsType' /\ CountersType'
    BY <1>28
    DEF NcpClose, TimersType, LoopType, HandlersType, TableType, ClientsType,
        CountersType
  <2> QED BY <2>1, <2>2 DEF NextType
<1>29. CASE UNCHANGED vars
  BY <1>29 DEF vars, NextType, TimersType, LoopType, HandlersType, TableType,
     NcpType, ClientsType, CountersType
<1> QED
  BY <1>1, <1>2, <1>3, <1>4, <1>5, <1>6, <1>7, <1>8, <1>9, <1>10, <1>11,
     <1>12, <1>13, <1>14, <1>15, <1>16, <1>17, <1>18, <1>19, <1>20, <1>21,
     <1>22, <1>23, <1>24, <1>25, <1>26, <1>27, <1>28, <1>29
  DEF Next, Host, TakesEvent, HandlesEvent, RunsCommand, Clients, Ncp

\* The initial values have the right types.
LEMMA TypeInit == Init => TypeOK
<1> SUFFICES ASSUME Init PROVE TypeOK
  OBVIOUS
<1> USE DEF Init, HwTimerInit
<1>1. TimersType
  BY DEF TimersType
<1>2. LoopType
  BY DEF LoopType
<1>3. HandlersType
  BY DEF HandlersType
<1>4. TableType
  BY DEF TableType
<1>5. NcpType
  <2>1. link \in [Handle -> Link]
    BY DEF Link
  <2>2. evq \in Seq(Event)
    BY DEF Init
  <2>3. up \in BOOLEAN /\ reset \in BOOLEAN /\ adv \in BOOLEAN /\ discovering \in BOOLEAN
    BY Zenon
  <2> QED BY <2>1, <2>2, <2>3 DEF NcpType
<1>6. ClientsType
  BY DEF ClientsType
<1>7. CountersType
  BY BoundsAssumption DEF CountersType
<1> QED BY <1>1, <1>2, <1>3, <1>4, <1>5, <1>6, <1>7, TypeGroups

\* Every variable has its type, whatever the constants.
THEOREM TypeCorrect == Spec => []TypeOK
BY TypeInit, TypeStep, PTL DEF Spec

-----------------------------------------------------------------------------
(* The client that the end of a command reaches *)

\* A command has been taken from the socket and not run.
Running == {"single_shot", "cleanup", "command"}

\* Unless a client is killed there is at most one: its command waits at the
\* socket, or it is the daemon's; and the daemon runs and waits for no other.
OwnInv ==
  /\ kills = 0 =>
       /\ \/ client = "none" /\ ctlq = <<>> /\ owner = "none"
          \/ /\ client = "waiting" /\ owner = "none"
             /\ ctlq # <<>> /\ Head(ctlq).from = "live" /\ Tail(ctlq) = <<>>
          \/ client = "waiting" /\ ctlq = <<>> /\ owner = "live"
       /\ cmd # "IDLE" \/ pc \in Running => owner = "live"
  /\ pc = "scan_event" => cmd = "SCAN"

\* What OwnTerminator says of a step.
OwnStep == client = "waiting" /\ client' = "none" /\ kills' = 0 => owner = "live"

\* Nobody waits for a daemon that has just started.
LEMMA OwnInit == Init => OwnInv
BY DEF Init, OwnInv, Running

\* A step that neither takes a command nor ends one.
LEMMA OwnKeeps ==
  ASSUME OwnInv, UNCHANGED <<clients, cmd>>,
         pc' \in Running => pc \in Running,
         pc' = "scan_event" => pc = "scan_event" \/ cmd = "SCAN"
  PROVE  OwnInv' /\ OwnStep
BY DEF OwnInv, OwnStep, clients

\* The end of a command of the client that waits.
LEMMA OwnEnds ==
  ASSUME OwnInv, EndCommand, cmd # "IDLE" \/ pc \in Running,
         pc' \notin Running, pc' # "scan_event"
  PROVE  OwnInv' /\ OwnStep
BY DEF OwnInv, OwnStep, EndCommand, Terminate

\* Where the loop goes on with an event.
LEMMA GoesOnTo ==
  ASSUME NEW e, NEW s, NEW c, GoOn(EventHandler(e, s, c))
  PROVE  pc' \notin Running /\ (pc' = "scan_event" => s)
<1>1. /\ EventHandler(e, s, c) \notin Running
      /\ EventHandler(e, s, c) = "scan_event" => s
  BY DEF EventHandler, Running
<1> QED BY <1>1 DEF GoOn

\* Every step keeps OwnInv, and ends no other client's wait.
LEMMA OwnNext ==
  ASSUME TypeOK, OwnInv, [Next]_vars
  PROVE  OwnInv' /\ OwnStep
<1> USE DEF clients, host
<1>1. CASE SkipEvent
  BY <1>1, OwnKeeps DEF SkipEvent
<1>2. CASE TakeEvent
  <2>1. pc' \notin Running /\ (pc' = "scan_event" => cmd = "SCAN")
    BY <1>2 DEF TakeEvent, EventHandler, Running, ScanStops
  <2> QED BY <1>2, <2>1, OwnKeeps DEF TakeEvent
<1>3. CASE Bootup
  BY <1>3, GoesOnTo, OwnKeeps DEF Bootup, ScanStops
<1>4. CASE ScanTimer
  BY <1>4, GoesOnTo, OwnKeeps DEF ScanTimer
<1>5. CASE ConnectTimer
  BY <1>5, GoesOnTo, OwnKeeps DEF ConnectTimer, ScanStops
<1>6. CASE ConnectTimesOut
  BY <1>6, GoesOnTo, OwnKeeps DEF ConnectTimesOut, ScanStops
<1>7. CASE ScanEvent
  <2>1. cmd # "IDLE"
    BY <1>7 DEF ScanEvent, OwnInv
  <2> QED BY <1>7, <2>1, GoesOnTo, OwnEnds DEF ScanEvent
<1>8. CASE ConnectEvent
  <2>1. pc' \notin Running /\ pc' # "scan_event"
    BY <1>8, GoesOnTo DEF ConnectEvent
  <2>2. CASE cmd = "CONNECT" /\ EndCommand
    BY <2>1, <2>2, OwnEnds
  <2>3. CASE UNCHANGED <<cmd, clients>>
    BY <2>1, <2>3, OwnKeeps
  <2> QED BY <1>8, <2>2, <2>3 DEF ConnectEvent
<1>9. CASE PairEvent
  BY <1>9, OwnKeeps DEF PairEvent, GoOn, Running
<1>10. CASE RecvCommand
  <2>1. /\ ctlq # <<>> /\ ctlq' = Tail(ctlq) /\ owner' = Head(ctlq).from
        /\ UNCHANGED <<client, kills, cmd>>
        /\ pc' \in {"single_shot", "cleanup"}
    BY <1>10 DEF RecvCommand
  <2> QED BY <2>1 DEF OwnInv, OwnStep
<1>11. CASE Show
  BY <1>11, OwnEnds DEF Show, Running
<1>12. CASE Set
  BY <1>12, OwnEnds DEF Set, Running
<1>13. CASE Disconnect
  BY <1>13, OwnEnds DEF Disconnect, Disconnects, Running
<1>14. CASE Cleanup
  BY <1>14, OwnKeeps DEF Cleanup, Running
<1>15. CASE Scan
  BY <1>15 DEF Scan, OwnInv, OwnStep, Running
<1>16. CASE Pair
  BY <1>16, OwnEnds DEF Pair, Running
<1>17. CASE ConnectReturns
  BY <1>17, OwnEnds DEF ConnectReturns, Running
<1>18. ASSUME NEW h \in Handle, Connect(h) PROVE OwnInv' /\ OwnStep
  BY <1>18 DEF Connect, OwnInv, OwnStep, Running
<1>19. CASE Hang
  BY <1>19, OwnKeeps DEF Hang, Running
<1>20. ASSUME NEW c \in Command, ClientSends(c) PROVE OwnInv' /\ OwnStep
  <2>1. /\ ctlq = <<>> => /\ ctlq' # <<>> /\ Tail(ctlq') = <<>>
                          /\ Head(ctlq').from = "live"
        /\ client = "none" /\ client' = "waiting"
        /\ UNCHANGED <<owner, kills, cmd, pc>>
    BY <1>20 DEF ClientSends
  <2> QED BY <2>1 DEF OwnInv, OwnStep
<1>21. CASE ClientKilled
  <2>1. kills' # 0 /\ UNCHANGED <<pc, cmd>>
    BY <1>21 DEF ClientKilled, TypeOK
  <2> QED BY <2>1 DEF OwnInv, OwnStep
<1>22. CASE NcpReset \/ NcpCrash
  BY <1>22, OwnKeeps DEF NcpReset, NcpCrash, NcpDown
<1>23. CASE NcpBoot
  BY <1>23, OwnKeeps DEF NcpBoot
<1>24. ASSUME NEW t \in Timer, NcpTick(t) PROVE OwnInv' /\ OwnStep
  BY <1>24, OwnKeeps DEF NcpTick
<1>25. ASSUME NEW h \in Handle, NcpOpen(h) \/ NcpClose(h) PROVE OwnInv' /\ OwnStep
  BY <1>25, OwnKeeps DEF NcpOpen, NcpClose
<1>26. ASSUME NEW h \in Handle, NEW a \in Addr, NcpAccept(h, a)
       PROVE  OwnInv' /\ OwnStep
  BY <1>26, OwnKeeps DEF NcpAccept
<1>27. CASE UNCHANGED vars
  BY <1>27, OwnKeeps DEF vars
<1> QED
  BY <1>1, <1>2, <1>3, <1>4, <1>5, <1>6, <1>7, <1>8, <1>9, <1>10, <1>11, <1>12,
     <1>13, <1>14, <1>15, <1>16, <1>17, <1>18, <1>19, <1>20, <1>21, <1>22,
     <1>23, <1>24, <1>25, <1>26, <1>27
  DEF Next, Host, TakesEvent, HandlesEvent, RunsCommand, Clients, Ncp

\* However many commands, events and reboots there are: as long as no client is
\* killed, the empty datagram that ends a client's wait is that of its own
\* command.
THEOREM TerminatorsOwn == Spec => OwnTerminator
<1>1. TypeOK /\ OwnInv /\ [Next]_vars => OwnInv'
  BY OwnNext
<1>2. TypeOK /\ OwnInv /\ [Next]_vars
        => [client = "waiting" /\ client' = "none" /\ kills' = 0
              => owner = "live"]_vars
  BY OwnNext DEF OwnStep
<1> QED BY <1>1, <1>2, OwnInit, TypeCorrect, PTL DEF Spec, OwnTerminator

-----------------------------------------------------------------------------
(* The timers that run *)

\* No timer is in the list twice.
Once == \A t \in Timer : listed[t] <= 1

\* A timer that is listed after a step runs then, or was listed before and has
\* not been touched.
TimersRun ==
  \A t \in Timer : listed'[t] > 0 => armed'[t] \/ (listed[t] > 0 /\ ~armed[t])

\* The operations of timer.c arm what they list, and list it once.
LEMMA TimersRunStep ==
  ASSUME TimersType, Once, NEW t \in Timer, NEW c,
         \/ UNCHANGED timers
         \/ SetCount(t, c) \/ hw_timer_add(t, c) \/ hw_timer_del(t)
         \/ hw_timer_list_update(t) \/ hw_timer_list_clear
  PROVE  Once' /\ TimersRun
<1> USE DEF TimersType, Once, TimersRun
<1>1. CASE UNCHANGED timers \/ SetCount(t, c)
  BY <1>1 DEF timers, SetCount
<1>2. CASE hw_timer_add(t, c)
  BY <1>2 DEF hw_timer_add
<1>3. CASE hw_timer_del(t)
  BY <1>3 DEF hw_timer_del
<1>4. CASE hw_timer_list_update(t)
  <2>1. \A s \in Timer : s # t => listed'[s] = listed[s] /\ armed'[s] = armed[s]
    BY <1>4 DEF hw_timer_list_update
  <2>2. CASE Ends(t)
    <3>1. listed'[t] = listed[t] - 1
      BY <1>4, <2>2 DEF hw_timer_list_update
    <3> QED BY <2>1, <3>1
  <2>3. CASE ~Ends(t)
    <3>1. listed'[t] = listed[t] /\ (armed[t] => armed'[t])
      BY <1>4, <2>3 DEF hw_timer_list_update
    <3> QED BY <2>1, <3>1
  <2> QED BY <2>2, <2>3
<1>5. CASE hw_timer_list_clear
  BY <1>5 DEF hw_timer_list_clear
<1> QED BY <1>1, <1>2, <1>3, <1>4, <1>5

\* A boot event that waits is still there when an event follows it, or another
\* is taken.
LEMMA BootStays ==
  ASSUME NEW q \in Seq(Event), BootQueued, evq = q
  PROVE  /\ \A e \in Event : evq' = Append(q, e) => BootQueued'
         /\ Head(q) # Boot /\ evq' = Tail(q) => BootQueued'
<1>1. PICK i \in DOMAIN q : q[i] = Boot
  BY DEF BootQueued
<1>2. ASSUME NEW e \in Event, evq' = Append(q, e) PROVE BootQueued'
  <2>1. i \in DOMAIN evq' /\ evq'[i] = Boot
    BY <1>1, <1>2
  <2> QED BY <2>1 DEF BootQueued
<1>3. ASSUME Head(q) # Boot, evq' = Tail(q) PROVE BootQueued'
  <2>1. i \in 1 .. Len(q) /\ i # 1 /\ q # <<>>
    BY <1>1, <1>3
  <2>2. i - 1 \in DOMAIN evq' /\ evq'[i - 1] = Boot
    BY <1>1, <1>3, <2>1
  <2> QED BY <2>2 DEF BootQueued
<1> QED BY <1>2, <1>3

\* What the steps that are not a boot leave alone.
LEMMA ArmedKeeps ==
  ASSUME ListedArmed, TimersType, TimersRun, UNCHANGED up, reset => reset',
         BootQueued => BootQueued', pc = "bootup" => pc' = "bootup"
  PROVE  ListedArmed'
<1> SUFFICES ASSUME NEW t \in Timer, listed'[t] > 0, ~armed'[t]
             PROVE  ~up' \/ reset' \/ BootQueued' \/ pc' = "bootup"
  BY DEF ListedArmed, Listed
<1>1. listed[t] > 0 /\ ~armed[t]
  BY DEF TimersRun
<1>2. ~up \/ reset \/ BootQueued \/ pc = "bootup"
  BY <1>1 DEF ListedArmed, Listed
<1> QED BY <1>2

\* Every step keeps both.
LEMMA ArmedNext ==
  ASSUME TypeOK, Once, ListedArmed, [Next]_vars
  PROVE  Once' /\ ListedArmed'
<1> USE DEF timers, host, conn, ncp, clients
<1>1. TimersType /\ evq \in Seq(Event)
  BY DEF TypeOK, TimersType
<1>2. "scan" \in Timer /\ "connect" \in Timer
  BY TimersAssumption
<1>3. ASSUME UNCHANGED timers PROVE Once' /\ TimersRun
  BY <1>1, <1>2, <1>3, TimersRunStep
<1>4. ASSUME NEW e \in Event, evq' = Append(evq, e) PROVE BootQueued => BootQueued'
  BY <1>1, <1>4, BootStays
<1>5. ASSUME UNCHANGED evq PROVE BootQueued => BootQueued'
  BY <1>5 DEF BootQueued
<1>6. ASSUME NEW h \in Handle, CloseLink(h) PROVE BootQueued => BootQueued'
  <2>1. Closed(h) \in Event
    BY Events
  <2> QED BY <1>4, <1>5, <1>6, <2>1 DEF CloseLink
<1>7. CASE SkipEvent
  <2>1. BootQueued => BootQueued'
    BY <1>1, <1>7, BootStays DEF SkipEvent
  <2> QED BY <1>1, <1>3, <1>7, <2>1, ArmedKeeps DEF SkipEvent
<1>8. CASE TakeEvent
  <2>1. Once' /\ TimersRun /\ UNCHANGED <<up, reset>> /\ pc = "select"
    BY <1>3, <1>8 DEF TakeEvent
  <2>2. CASE Head(evq) = Boot
    <3>1. pc' = "bootup"
      <4>1. evt' = Boot
        BY <1>8, <2>2 DEF TakeEvent
      <4> QED BY <1>8, <4>1 DEF TakeEvent, Boot
    <3> QED BY <2>1, <3>1 DEF ListedArmed
  <2>3. CASE Head(evq) # Boot
    <3>1. BootQueued => BootQueued'
      BY <1>1, <1>8, <2>3, BootStays DEF TakeEvent
    <3> QED BY <1>1, <2>1, <3>1, ArmedKeeps
  <2> QED BY <2>2, <2>3
<1>9. CASE Bootup
  <2>1. Once' /\ \A t \in Timer : listed'[t] = 0
    BY <1>1, <1>2, <1>9 DEF Bootup, hw_timer_list_clear, Once
  <2> QED BY <2>1 DEF ListedArmed, Listed
<1>10. CASE ScanTimer
  BY <1>1, <1>2, <1>5, <1>10, TimersRunStep, ArmedKeeps DEF ScanTimer
<1>11. CASE ConnectTimer
  BY <1>1, <1>2, <1>5, <1>11, TimersRunStep, ArmedKeeps DEF ConnectTimer
<1>12. CASE ConnectTimesOut
  <2>1. BootQueued => BootQueued'
    BY <1>6, <1>12 DEF ConnectTimesOut, TypeOK
  <2> QED
    BY <1>1, <1>2, <1>12, <2>1, TimersRunStep, ArmedKeeps DEF ConnectTimesOut
<1>13. CASE ScanEvent
  BY <1>1, <1>2, <1>5, <1>13, TimersRunStep, ArmedKeeps DEF ScanEvent, scan_cleanup
<1>14. CASE ConnectEvent
  <2>1. Once' /\ TimersRun
    BY <1>1, <1>2, <1>3, <1>14, TimersRunStep DEF ConnectEvent, Connected
  <2> QED BY <1>1, <1>5, <1>14, <2>1, ArmedKeeps DEF ConnectEvent
<1>15. CASE PairEvent \/ RecvCommand \/ Show \/ Set \/ Pair
  BY <1>1, <1>3, <1>5, <1>15, ArmedKeeps DEF PairEvent, RecvCommand, Show, Set, Pair
<1>16. CASE Disconnect
  <2>1. new.disconn \in Handle
    BY <1>16, Commands DEF Disconnect, Disconnects, TypeOK, NoCommand
  <2>2. BootQueued => BootQueued'
    BY <1>5, <1>6, <1>16, <2>1 DEF Disconnect
  <2> QED BY <1>1, <1>3, <1>16, <2>2, ArmedKeeps DEF Disconnect, Disconnects
<1>17. CASE Cleanup
  <2>1. Once' /\ TimersRun /\ UNCHANGED <<up, reset>>
    BY <1>1, <1>2, <1>3, <1>17, TimersRunStep DEF Cleanup, scan_cleanup
  <2> QED BY <1>1, <1>5, <1>17, <2>1, ArmedKeeps DEF Cleanup
<1>18. CASE Scan
  BY <1>1, <1>2, <1>5, <1>18, TimersRunStep, ArmedKeeps DEF Scan
<1>19. CASE ConnectReturns
  BY <1>1, <1>2, <1>5, <1>19, TimersRunStep, ArmedKeeps DEF ConnectReturns
<1>20. ASSUME NEW h \in Handle, Connect(h) PROVE Once' /\ ListedArmed'
  BY <1>1, <1>2, <1>5, <1>20, TimersRunStep, ArmedKeeps DEF Connect, StartTimer
<1>21. CASE Hang
  \* The response to the boot handlers is lost to a reboot yet to come.
  <2>1. Once' /\ TimersRun /\ (BootQueued => BootQueued') /\ UNCHANGED <<up, reset>>
    BY <1>3, <1>5, <1>21 DEF Hang
  <2>2. CASE pc = "bootup"
    <3>1. ~up \/ reset
      BY <1>21 DEF Hang, Answered
    <3> QED BY <2>1, <3>1 DEF ListedArmed
  <2>3. CASE pc # "bootup"
    BY <1>1, <2>1, <2>3, ArmedKeeps
  <2> QED BY <2>2, <2>3
<1>22. CASE Clients
  <2>1. UNCHANGED <<timers, up, reset, evq, pc>>
    BY <1>22 DEF Clients, ClientSends, ClientKilled
  <2>2. Once' /\ TimersRun
    BY <1>3, <2>1
  <2> QED BY <1>1, <1>5, <2>1, <2>2, ArmedKeeps
<1>23. CASE NcpReset \/ NcpCrash
  BY <1>23 DEF NcpReset, NcpCrash, NcpDown, ListedArmed, Once
<1>24. CASE NcpBoot
  <2>1. BootQueued'
    <3>1. evq' = Append(evq, Boot)
      BY <1>24 DEF NcpBoot
    <3>2. Len(evq) + 1 \in DOMAIN evq' /\ evq'[Len(evq) + 1] = Boot
      BY <1>1, <3>1
    <3> QED BY <3>2 DEF BootQueued
  <2> QED BY <1>3, <1>24, <2>1 DEF NcpBoot, ListedArmed
<1>25. ASSUME NEW t \in Timer, NcpTick(t) PROVE Once' /\ ListedArmed'
  BY <1>1, <1>3, <1>4, <1>25, Events, ArmedKeeps DEF NcpTick, NcpSends
<1>26. ASSUME NEW h \in Handle, NcpOpen(h) \/ NcpClose(h) PROVE Once' /\ ListedArmed'
  <2>1. \E e \in Event : evq' = Append(evq, e)
    <3>1. link[h].state = "pending" => link[h].addr \in Addr
      BY DEF TypeOK, Link, NoLink
    <3> QED BY <1>26, <3>1, Events DEF NcpOpen, NcpClose, NcpSends
  <2> QED BY <1>1, <1>3, <1>4, <1>26, <2>1, ArmedKeeps DEF NcpOpen, NcpClose
<1>27. ASSUME NEW h \in Handle, NEW a \in Addr, NcpAccept(h, a)
       PROVE  Once' /\ ListedArmed'
  BY <1>1, <1>3, <1>4, <1>27, Events, ArmedKeeps DEF NcpAccept, NcpSends
<1>28. CASE UNCHANGED vars
  BY <1>1, <1>3, <1>5, <1>28, ArmedKeeps DEF vars
<1> QED
  BY <1>7, <1>8, <1>9, <1>10, <1>11, <1>12, <1>13, <1>14, <1>15, <1>16, <1>17,
     <1>18, <1>19, <1>20, <1>21, <1>22, <1>23, <1>24, <1>25, <1>26, <1>27, <1>28
  DEF Next, Host, TakesEvent, HandlesEvent, RunsCommand, Ncp

\* However often the NCP reboots, a timer the daemon counts on runs at the NCP,
\* or a boot event is still to come that clears the list.
THEOREM TimersArmed == Spec => []ListedArmed
<1>1. Init => Once /\ ListedArmed
  BY TimersAssumption DEF Init, HwTimerInit, Once, ListedArmed, Listed
<1>2. TypeOK /\ Once /\ ListedArmed /\ [Next]_vars => Once' /\ ListedArmed'
  BY ArmedNext
<1> QED BY <1>1, <1>2, TypeCorrect, PTL DEF Spec

-----------------------------------------------------------------------------
(* The timer of the command the loop waits for *)

NoBoot(q)  == \A i \in DOMAIN q : q[i] # Boot
OneBoot(q) == \E k \in DOMAIN q : \A i \in DOMAIN q : q[i] = Boot <=> i = k

\* The boot events in a queue, counted.
LEMMA BootsCounted ==
  ASSUME NEW q \in Seq(Event), NEW e \in Event
  PROVE  /\ e # Boot /\ NoBoot(q) => NoBoot(Append(q, e))
         /\ e # Boot /\ OneBoot(q) => OneBoot(Append(q, e))
         /\ NoBoot(q) => OneBoot(Append(q, Boot))
         /\ q # <<>> /\ NoBoot(q) => Head(q) # Boot /\ NoBoot(Tail(q))
         /\ q # <<>> /\ OneBoot(q) => IF Head(q) = Boot THEN NoBoot(Tail(q))
                                      ELSE OneBoot(Tail(q))
<1>1. ASSUME e # Boot, NoBoot(q) PROVE NoBoot(Append(q, e))
  BY <1>1 DEF NoBoot
<1>2. ASSUME e # Boot, OneBoot(q) PROVE OneBoot(Append(q, e))
  <2>1. PICK k \in DOMAIN q : \A i \in DOMAIN q : q[i] = Boot <=> i = k
    BY <1>2 DEF OneBoot
  <2>2. k \in DOMAIN Append(q, e)
        /\ \A i \in DOMAIN Append(q, e) : Append(q, e)[i] = Boot <=> i = k
    BY <1>2, <2>1
  <2> QED BY <2>2 DEF OneBoot
<1>3. ASSUME NoBoot(q) PROVE OneBoot(Append(q, Boot))
  <2>1. Len(q) + 1 \in DOMAIN Append(q, Boot)
        /\ \A i \in DOMAIN Append(q, Boot) :
             Append(q, Boot)[i] = Boot <=> i = Len(q) + 1
    BY <1>3 DEF NoBoot
  <2> QED BY <2>1 DEF OneBoot
<1>4. ASSUME q # <<>>
      PROVE  /\ 1 \in DOMAIN q /\ Head(q) = q[1]
             /\ \A i \in DOMAIN Tail(q) : i + 1 \in DOMAIN q /\ Tail(q)[i] = q[i + 1]
             /\ \A i \in DOMAIN q : i # 1 => i - 1 \in DOMAIN Tail(q)
  BY <1>4
<1>5. ASSUME q # <<>>, NoBoot(q) PROVE Head(q) # Boot /\ NoBoot(Tail(q))
  BY <1>4, <1>5 DEF NoBoot
<1>6. ASSUME q # <<>>, OneBoot(q)
      PROVE  IF Head(q) = Boot THEN NoBoot(Tail(q)) ELSE OneBoot(Tail(q))
  <2>1. PICK k \in DOMAIN q : \A i \in DOMAIN q : q[i] = Boot <=> i = k
    BY <1>6 DEF OneBoot
  <2>2. CASE Head(q) = Boot
    <3>1. k = 1
      BY <1>4, <1>6, <2>1, <2>2
    <3>2. \A i \in DOMAIN Tail(q) : i + 1 # k
      BY <3>1
    <3> QED BY <1>4, <1>6, <2>1, <2>2, <3>2 DEF NoBoot
  <2>3. CASE Head(q) # Boot
    <3>1. k # 1 /\ k \in Int
      BY <1>4, <1>6, <2>1, <2>3
    <3>2. k - 1 \in DOMAIN Tail(q)
      BY <1>4, <1>6, <3>1
    <3>3. \A i \in DOMAIN Tail(q) : Tail(q)[i] = Boot <=> i = k - 1
      <4> SUFFICES ASSUME NEW i \in DOMAIN Tail(q)
                   PROVE  Tail(q)[i] = Boot <=> i = k - 1
        OBVIOUS
      <4>1. i + 1 \in DOMAIN q /\ Tail(q)[i] = q[i + 1] /\ i \in Int
        BY <1>4, <1>6
      <4>2. q[i + 1] = Boot <=> i + 1 = k
        BY <2>1, <4>1
      <4> QED BY <3>1, <4>1, <4>2
    <3> QED BY <2>3, <3>2, <3>3 DEF OneBoot
  <2> QED BY <2>2, <2>3
<1> QED BY <1>1, <1>2, <1>3, <1>5, <1>6

\* The first reset of the NCP is to come, it is down, its boot event is to be
\* taken; or it has been, and no other is to come.
Started == \/ booted /\ up /\ ~reset /\ NoBoot(evq)
           \/ /\ ~booted /\ pc = "select" /\ cmd = "IDLE"
              /\ \/ up /\ reset /\ NoBoot(evq)
                 \/ ~up /\ ~reset /\ NoBoot(evq)
                 \/ up /\ ~reset /\ OneBoot(evq)

Timed == /\ cmd = "SCAN" => discovering /\ (scanRet \/ Listed("scan"))
         /\ cmd = "CONNECT" => connRet \/ Listed("connect")

TimedInv == Quiet => /\ Started
                     /\ pc = "bootup" => cmd = "IDLE"
                     /\ pc # "command" => Timed

\* What a handler leaves alone once the daemon has heard of the boot.
LEMMA StartedKeeps ==
  ASSUME TypeOK, Started, booted, UNCHANGED <<booted, up, reset>>,
         \/ UNCHANGED evq
         \/ \E e \in Event \ {Boot} : evq' = Append(evq, e)
         \/ evq # <<>> /\ evq' = Tail(evq)
  PROVE  Started'
<1>1. evq \in Seq(Event) /\ NoBoot(evq)
  BY DEF TypeOK, Started
<1>2. NoBoot(evq')
  <2>1. CASE UNCHANGED evq
    BY <1>1, <2>1
  <2>2. CASE \E e \in Event \ {Boot} : evq' = Append(evq, e)
    BY <1>1, <2>2, BootsCounted
  <2>3. CASE evq # <<>> /\ evq' = Tail(evq)
    <3>1. Boot \in Event
      BY Events
    <3> QED BY <1>1, <2>3, <3>1, BootsCounted
  <2> QED BY <2>1, <2>2, <2>3
<1> QED BY <1>2 DEF Started

\* A connection is closed with an event that is no boot, or none.
LEMMA ClosesNoBoot ==
  ASSUME NEW h \in Handle, CloseLink(h)
  PROVE  UNCHANGED evq \/ \E e \in Event \ {Boot} : evq' = Append(evq, e)
<1>1. Closed(h) \in Event \ {Boot}
  BY Events DEF Closed, Boot
<1> QED BY <1>1 DEF CloseLink

\* After an event the loop is never in the middle of a boot or a command.
LEMMA GoesOnElsewhere ==
  ASSUME NEW e, NEW s, NEW c, GoOn(EventHandler(e, s, c))
  PROVE  pc' # "bootup" /\ pc' # "command"
BY DEF GoOn, EventHandler

\* The steps of the daemon keep the invariant.
LEMMA TimedHost ==
  ASSUME TypeOK, TimedInv, Quiet, Quiet', Host
  PROVE  TimedInv'
<1> USE DEF timers, host, conn, ncp, clients
<1>1. /\ Started
      /\ pc = "bootup" => cmd = "IDLE"
      /\ pc # "command" => Timed
  BY DEF TimedInv
<1>2. pc # "select" => booted /\ Answered
  BY <1>1 DEF Started, Answered
<1>3. "scan" \in Timer /\ "connect" \in Timer /\ "scan" # "connect"
  BY TimersAssumption
<1>4. /\ listed \in [Timer -> Nat] /\ count \in [Timer -> Nat]
      /\ evq \in Seq(Event) /\ connHandle \in Handle
  BY DEF TypeOK
<1>5. Boot \in Event
  BY Events
<1>6. SUFFICES Started' /\ (pc' = "bootup" => cmd' = "IDLE")
               /\ (pc' # "command" => Timed')
  BY DEF TimedInv
<1>7. CASE SkipEvent
  <2>1. ~booted /\ evq # <<>> /\ Head(evq) # Boot /\ evq' = Tail(evq)
        /\ UNCHANGED <<timers, pc, host, ncp>>
    BY <1>7 DEF SkipEvent
  <2>2. (NoBoot(evq) => NoBoot(evq')) /\ (OneBoot(evq) => OneBoot(evq'))
    BY <1>4, <1>5, <2>1, BootsCounted
  <2> QED BY <1>1, <2>1, <2>2 DEF Started, Timed, Listed
<1>8. CASE TakeEvent
  <2>1. pc = "select" /\ evq # <<>> /\ evq' = Tail(evq) /\ booted' = TRUE
        /\ UNCHANGED <<timers, cmd, scanRet, connRet, up, reset, discovering>>
    BY <1>8 DEF TakeEvent
  <2>2. Timed' /\ pc' # "command"
    BY <1>1, <1>8, <2>1 DEF Timed, Listed, TakeEvent, EventHandler
  <2>3. CASE booted
    <3>1. Started'
      BY <1>1, <2>1, <2>3, StartedKeeps
    <3>2. evt' # Boot
      BY <1>1, <1>4, <1>5, <1>8, <2>1, <2>3, BootsCounted DEF Started, TakeEvent
    <3>3. pc' # "bootup"
      BY <1>8, <3>2 DEF TakeEvent, EventHandler
    <3> QED BY <2>2, <3>1, <3>3
  <2>4. CASE ~booted
    <3>1. Head(evq) = Boot
      BY <1>8, <2>4 DEF TakeEvent
    <3>2. ~NoBoot(evq)
      BY <1>4, <1>5, <2>1, <3>1, BootsCounted
    <3>3. OneBoot(evq) /\ up /\ ~reset /\ cmd = "IDLE"
      BY <1>1, <2>4, <3>2 DEF Started
    <3>4. NoBoot(evq')
      BY <1>4, <1>5, <2>1, <3>1, <3>3, BootsCounted
    <3> QED BY <2>1, <2>2, <3>3, <3>4 DEF Started
  <2> QED BY <2>3, <2>4
<1>9. CASE Bootup
  <2>1. Started'
    BY <1>1, <1>2, <1>9, StartedKeeps DEF Bootup
  <2>2. cmd' = "IDLE"
    BY <1>1, <1>9 DEF Bootup
  <2> QED BY <2>1, <2>2 DEF Timed
<1>10. CASE ScanTimer
  <2>1. Started'
    BY <1>1, <1>2, <1>10, StartedKeeps DEF ScanTimer
  <2>2. pc' # "bootup" /\ pc' # "command"
    BY <1>10, GoesOnElsewhere DEF ScanTimer
  <2>3. Timed
    BY <1>1, <1>10 DEF ScanTimer
  <2>4. /\ listed'["connect"] = listed["connect"]
        /\ listed'["scan"] = IF Ends("scan") THEN listed["scan"] - 1 ELSE listed["scan"]
        /\ scanRet' = IF Listed("scan") THEN NextCount("scan") = 0 ELSE scanRet
        /\ UNCHANGED <<cmd, connRet, discovering>>
    BY <1>3, <1>4, <1>10 DEF ScanTimer, ScanOver, hw_timer_list_update
  <2>5. Listed("scan") => scanRet' \/ Listed("scan")'
    BY <2>4 DEF Ends, Listed
  <2>6. ~Listed("scan") => scanRet' = scanRet
    BY <2>4
  <2>7. Listed("connect")' = Listed("connect")
    BY <2>4 DEF Listed
  <2> QED BY <2>1, <2>2, <2>3, <2>4, <2>5, <2>6, <2>7 DEF Timed
<1>11. CASE ConnectTimer
  <2>1. Started'
    BY <1>1, <1>2, <1>11, StartedKeeps DEF ConnectTimer
  <2>2. pc' # "bootup" /\ pc' # "command"
    BY <1>11, GoesOnElsewhere DEF ConnectTimer
  <2>3. Timed
    BY <1>1, <1>11 DEF ConnectTimer
  <2>4. /\ listed'["connect"] = listed["connect"] /\ listed'["scan"] = listed["scan"]
        /\ connRet' = (connRet /\ ~Listed("connect"))
        /\ UNCHANGED <<cmd, scanRet, discovering>>
    BY <1>3, <1>4, <1>11 DEF ConnectTimer, hw_timer_list_update
  <2>5. Listed("connect")' = Listed("connect") /\ Listed("scan")' = Listed("scan")
    BY <2>4 DEF Listed
  <2>6. connRet /\ ~Listed("connect") => connRet'
    BY <2>4, Zenon
  <2> QED BY <2>1, <2>2, <2>3, <2>4, <2>5, <2>6 DEF Timed
<1>12. CASE ConnectTimesOut
  <2>1. Started'
    BY <1>1, <1>2, <1>4, <1>12, ClosesNoBoot, StartedKeeps DEF ConnectTimesOut
  <2>2. pc' # "bootup" /\ pc' # "command"
    BY <1>12, GoesOnElsewhere DEF ConnectTimesOut
  <2>3. Timed
    BY <1>1, <1>12 DEF ConnectTimesOut
  <2>4. listed'["scan"] = listed["scan"] /\ connRet'
        /\ UNCHANGED <<cmd, scanRet, discovering>>
    BY <1>3, <1>4, <1>12 DEF ConnectTimesOut, hw_timer_list_update
  <2> QED BY <2>1, <2>2, <2>3, <2>4 DEF Timed, Listed
<1>13. CASE ScanEvent
  <2>1. Started'
    BY <1>1, <1>2, <1>13, StartedKeeps DEF ScanEvent, scan_cleanup
  <2>2. cmd' = "IDLE"
    BY <1>13 DEF ScanEvent, EndCommand
  <2> QED BY <2>1, <2>2 DEF Timed
<1>14. CASE ConnectEvent
  <2>1. Started'
    BY <1>1, <1>2, <1>14, StartedKeeps DEF ConnectEvent
  <2>2. pc' # "bootup" /\ pc' # "command"
    BY <1>14, GoesOnElsewhere DEF ConnectEvent
  <2>3. CASE cmd' = "IDLE"
    BY <2>1, <2>2, <2>3 DEF Timed
  <2>4. CASE UNCHANGED cmd /\ ~(cmd = "CONNECT" /\ (Established \/ connRet))
    <3>1. listed'["scan"] = listed["scan"] /\ (~Established => UNCHANGED listed)
          /\ UNCHANGED <<scanRet, connRet, discovering>>
      BY <1>3, <1>4, <1>14 DEF ConnectEvent, Connected, hw_timer_del
    <3>2. Timed
      BY <1>1, <1>14 DEF ConnectEvent
    <3> QED BY <2>1, <2>2, <2>4, <3>1, <3>2 DEF Timed, Listed
  <2>5. cmd' = "IDLE" \/ (UNCHANGED cmd /\ ~(cmd = "CONNECT" /\ (Established \/ connRet)))
    BY <1>14 DEF ConnectEvent, EndCommand
  <2> QED BY <2>3, <2>4, <2>5
<1>15. CASE PairEvent
  <2>1. Started'
    BY <1>1, <1>2, <1>15, StartedKeeps DEF PairEvent
  <2> QED BY <1>1, <1>15, <2>1 DEF PairEvent, GoOn, Timed, Listed
<1>16. CASE RecvCommand
  <2>1. booted
    BY <1>16 DEF RecvCommand, Quiet
  <2>2. Started'
    BY <1>1, <1>16, <2>1, StartedKeeps DEF RecvCommand
  <2> QED BY <1>1, <1>16, <2>2 DEF RecvCommand, Timed, Listed
<1>17. CASE Show \/ Pair \/ ConnectReturns \/ Disconnect
  <2>1. /\ UNCHANGED <<booted, up, reset>> /\ booted /\ cmd' = "IDLE"
        /\ pc' = "select"
    BY <1>2, <1>17 DEF Show, Pair, ConnectReturns, Disconnect, Disconnects, EndCommand
  <2>2. UNCHANGED evq \/ \E e \in Event \ {Boot} : evq' = Append(evq, e)
    <3>1. ASSUME Disconnect PROVE new.disconn \in Handle
      BY <3>1, Commands DEF Disconnect, Disconnects, TypeOK, NoCommand
    <3>2. CASE Disconnect
      BY <3>1, <3>2, ClosesNoBoot DEF Disconnect
    <3>3. CASE Show \/ Pair \/ ConnectReturns
      BY <3>3 DEF Show, Pair, ConnectReturns
    <3> QED BY <1>17, <3>2, <3>3
  <2>3. Started'
    BY <1>1, <2>1, <2>2, StartedKeeps
  <2> QED BY <2>1, <2>3 DEF Timed
<1>18. CASE Set
  BY <1>18 DEF Set, Quiet, TypeOK
<1>19. CASE Cleanup
  <2>1. Started'
    BY <1>1, <1>2, <1>19, StartedKeeps DEF Cleanup, scan_cleanup
  <2> QED BY <1>19, <2>1 DEF Cleanup
<1>20. CASE Scan
  <2>1. Started'
    BY <1>1, <1>2, <1>20, StartedKeeps DEF Scan
  <2>2. listed'["scan"] > 0
    BY <1>3, <1>4, <1>20 DEF Scan, hw_timer_add
  <2> QED BY <1>20, <2>1, <2>2 DEF Scan, Timed, Listed
<1>21. ASSUME NEW h \in Handle, Connect(h) PROVE Started' /\ pc' = "select" /\ Timed'
  <2>1. Started'
    BY <1>1, <1>2, <1>21, StartedKeeps DEF Connect
  <2>2. listed'["connect"] > 0
    BY <1>3, <1>4, <1>21 DEF Connect, StartTimer, hw_timer_add
  <2> QED BY <1>21, <2>1, <2>2 DEF Connect, Timed, Listed
<1>22. CASE Hang
  BY <1>2, <1>22 DEF Hang, SendsCommand, Disconnects
<1> QED
  BY <1>7, <1>8, <1>9, <1>10, <1>11, <1>12, <1>13, <1>14, <1>15, <1>16, <1>17,
     <1>18, <1>19, <1>20, <1>21, <1>22
  DEF Host, TakesEvent, HandlesEvent, RunsCommand

\* So do the steps of the clients and of the NCP.
LEMMA TimedNcp ==
  ASSUME TypeOK, TimedInv, Quiet, Quiet', Clients \/ Ncp \/ UNCHANGED vars
  PROVE  TimedInv'
<1> USE DEF timers, host, conn, ncp, clients
<1>1. /\ Started
      /\ pc = "bootup" => cmd = "IDLE"
      /\ pc # "command" => Timed
  BY DEF TimedInv
<1>2. evq \in Seq(Event) /\ Boot \in Event
  BY Events DEF TypeOK
<1>3. SUFFICES Started' /\ (pc' = "bootup" => cmd' = "IDLE")
               /\ (pc' # "command" => Timed')
  BY DEF TimedInv
<1>4. ASSUME UNCHANGED <<listed, pc, host, up, reset, discovering>>,
             UNCHANGED evq \/ \E e \in Event \ {Boot} : evq' = Append(evq, e)
      PROVE  Started' /\ (pc' = "bootup" => cmd' = "IDLE")
             /\ (pc' # "command" => Timed')
  <2>1. (NoBoot(evq) => NoBoot(evq')) /\ (OneBoot(evq) => OneBoot(evq'))
    BY <1>2, <1>4, BootsCounted
  <2>2. Started'
    BY <1>1, <1>4, <2>1 DEF Started
  <2> QED BY <1>1, <1>4, <2>2 DEF Timed, Listed
<1>5. CASE Clients
  <2>1. UNCHANGED <<listed, pc, host, up, reset, discovering>> /\ UNCHANGED evq
    BY <1>5 DEF Clients, ClientSends, ClientKilled
  <2> QED BY <1>4, <2>1
<1>6. CASE NcpReset
  <2>1. reset /\ up
    BY <1>6 DEF NcpReset, NcpDown
  <2>2. ~booted /\ pc = "select" /\ cmd = "IDLE" /\ NoBoot(evq)
    BY <1>1, <2>1 DEF Started
  <2> QED BY <1>6, <2>2 DEF NcpReset, NcpDown, Started, Timed
<1>7. CASE NcpCrash
  BY <1>7 DEF NcpCrash, Quiet, TypeOK
<1>8. CASE NcpBoot
  <2>1. ~booted /\ pc = "select" /\ cmd = "IDLE" /\ NoBoot(evq) /\ ~reset
    BY <1>1, <1>8 DEF NcpBoot, Started
  <2>2. OneBoot(evq')
    BY <1>2, <1>8, <2>1, BootsCounted DEF NcpBoot
  <2>3. up' /\ ~reset' /\ UNCHANGED <<booted, pc, cmd>>
    <3>1. up' = TRUE /\ reset' \in {reset, FALSE} /\ UNCHANGED <<booted, pc, cmd>>
      BY <1>8 DEF NcpBoot
    <3>2. reset' = reset \/ reset' = FALSE
      BY <3>1
    <3>3. ~reset'
      BY <2>1, <3>2, Zenon
    <3>4. up'
      BY <3>1, Zenon
    <3> QED BY <3>1, <3>3, <3>4, Zenon
  <2> QED BY <2>1, <2>2, <2>3 DEF Started, Timed
<1>9. ASSUME NEW t \in Timer, NcpTick(t) PROVE TimedInv'
  <2>1. Tick(t) \in Event \ {Boot}
    BY Events DEF Tick, Boot
  <2> QED BY <1>4, <1>9, <2>1 DEF NcpTick, NcpSends, TimedInv
<1>10. ASSUME NEW h \in Handle, NcpOpen(h) PROVE TimedInv'
  <2>1. link[h].addr \in Addr
    BY <1>10 DEF NcpOpen, TypeOK, Link, NoLink
  <2>2. Opened(h, link[h].addr) \in Event \ {Boot}
    BY <2>1, Events DEF Opened, Boot
  <2> QED BY <1>4, <1>10, <2>2 DEF NcpOpen, NcpSends, TimedInv
<1>11. ASSUME NEW h \in Handle, NcpClose(h) PROVE TimedInv'
  <2>1. Closed(h) \in Event \ {Boot}
    BY Events DEF Closed, Boot
  <2> QED BY <1>4, <1>11, <2>1 DEF NcpClose, NcpSends, TimedInv
<1>12. ASSUME NEW h \in Handle, NEW a \in Addr, NcpAccept(h, a) PROVE TimedInv'
  <2>1. Opened(h, a) \in Event \ {Boot}
    BY Events DEF Opened, Boot
  <2> QED BY <1>4, <1>12, <2>1 DEF NcpAccept, NcpSends, TimedInv
<1>13. CASE UNCHANGED vars
  BY <1>4, <1>13 DEF vars
<1> QED
  BY <1>5, <1>6, <1>7, <1>8, <1>9, <1>10, <1>11, <1>12, <1>13 DEF Ncp, TimedInv

\* A reboot and an early command are never forgotten before the next reboot.
LEMMA QuietBack ==
  ASSUME TypeOK, [Next]_vars, Quiet'
  PROVE  Quiet
<1> USE DEF timers, host, conn, ncp, clients
<1>1. resets' = 0 /\ ~early' /\ resets \in Nat
  BY DEF Quiet, TypeOK
<1>2. ~Set /\ ~NcpCrash
  BY <1>1 DEF Set, NcpCrash
<1>3. CASE RecvCommand
  <2>1. resets = 0 /\ early' = (early \/ (~booted /\ resets = 0))
    BY <1>1, <1>3 DEF RecvCommand
  <2> QED BY <1>1, <2>1, Zenon DEF Quiet
<1>4. CASE UNCHANGED <<early, resets>>
  BY <1>4 DEF Quiet
<1>5. \/ RecvCommand \/ Set \/ NcpCrash \/ UNCHANGED <<early, resets>>
  <2>1. CASE TakesEvent \/ HandlesEvent \/ Hang
    BY <2>1 DEF TakesEvent, HandlesEvent, SkipEvent, TakeEvent, Bootup, ScanTimer,
                ConnectTimer, ConnectTimesOut, ScanEvent, ConnectEvent, PairEvent, Hang
  <2>2. CASE RunsCommand
    BY <2>2 DEF RunsCommand, Show, Disconnect, Cleanup, Scan, Pair, ConnectReturns,
                Connect
  <2>3. CASE Clients
    BY <2>3 DEF Clients, ClientSends, ClientKilled
  <2>4. CASE Ncp
    BY <2>4 DEF Ncp, NcpReset, NcpBoot, NcpTick, NcpOpen, NcpClose, NcpAccept
  <2>5. CASE UNCHANGED vars
    BY <2>5 DEF vars
  <2> QED BY <2>1, <2>2, <2>3, <2>4, <2>5 DEF Next, Host
<1> QED BY <1>2, <1>3, <1>4, <1>5

\* As long as the NCP is not reset and no command was run before it was up, the
\* command the loop waits for has its timer, whatever commands came before and
\* whoever killed their clients.
THEOREM CommandsTimed == Spec => []CommandTimed
<1>1. Init => TimedInv
  BY DEF Init, HwTimerInit, TimedInv, Started, Timed, NoBoot, Quiet
<1>2. TypeOK /\ TimedInv /\ [Next]_vars => TimedInv'
  <2> SUFFICES ASSUME TypeOK, TimedInv, [Next]_vars PROVE TimedInv'
    OBVIOUS
  <2>1. CASE Quiet'
    BY <2>1, QuietBack, TimedHost, TimedNcp DEF Next
  <2>2. CASE ~Quiet'
    BY <2>2 DEF TimedInv
  <2> QED BY <2>1, <2>2
<1>3. TimedInv => CommandTimed
  BY DEF TimedInv, Timed, CommandTimed
<1> QED BY <1>1, <1>2, <1>3, TypeCorrect, PTL DEF Spec

-----------------------------------------------------------------------------
(* What the table of connections will say once the events on their way have *)
(* been handled                                                            *)

\* The event is one of the connection h, and says what it is connected to.
AboutConn(e, h) == e.kind \in {"opened", "closed"} /\ e.conn = h
Says(e) == IF e.kind = "opened" THEN {e.addr} ELSE {}

\* The i-th event is handled: the daemon knows of the boot by then.
Counts(s, b, i) == b \/ \E j \in DOMAIN s : j <= i /\ s[j] = Boot
Tells(s, b, h, i) == AboutConn(s[i], h) /\ Counts(s, b, i)

\* What the events before the n-th leave of h, which is now said to be connected
\* to the addresses now.
View(s, b, n, h, X, now) ==
  \/ \E i \in DOMAIN s : /\ i < n /\ Tells(s, b, h, i) /\ Says(s[i]) = X
                         /\ \A j \in DOMAIN s : j < n /\ Tells(s, b, h, j) => j <= i
  \/ X = now /\ \A i \in DOMAIN s : i < n => ~Tells(s, b, h, i)

\* The events end with what h is connected to, and open it only when the table
\* does not have it.
InOrder(s, b, h, L, T) ==
  /\ View(s, b, Len(s) + 1, h, L, T)
  /\ \A i \in DOMAIN s : Tells(s, b, h, i) /\ s[i].kind = "opened"
                           => View(s, b, i, h, {}, T)

\* One more event changes nothing of what the ones before it tell.
LEMMA AppendTells ==
  ASSUME NEW s \in Seq(Event), NEW e \in Event, NEW b \in BOOLEAN, NEW h
  PROVE  \A i \in DOMAIN s : Tells(Append(s, e), b, h, i) <=> Tells(s, b, h, i)
<1> DEFINE t == Append(s, e)
<1>1. /\ \A i \in DOMAIN s : i \in DOMAIN t /\ t[i] = s[i] /\ i \in Nat
      /\ \A i \in DOMAIN t : i \in DOMAIN s \/ i = Len(s) + 1
      /\ \A i \in DOMAIN s : i < Len(s) + 1
      /\ Len(s) \in Nat
  BY AppendElems
<1> HIDE DEF t
<1>2. ASSUME NEW i \in DOMAIN s
      PROVE  Counts(t, b, i) <=> Counts(s, b, i)
  <2>1. \A j \in DOMAIN t : j <= i => j \in DOMAIN s
    BY <1>1
  <2> QED BY <1>1, <2>1 DEF Counts
<1>3. ASSUME NEW i \in DOMAIN s
      PROVE  Tells(t, b, h, i) <=> Tells(s, b, h, i)
  BY <1>1, <1>2 DEF Tells
<1> QED BY <1>3 DEF t

\* So the view from before it is the same,
LEMMA AppendView ==
  ASSUME NEW s \in Seq(Event), NEW e \in Event, NEW b \in BOOLEAN, NEW h,
         NEW n \in Nat, n <= Len(s) + 1, NEW X, NEW now,
         View(s, b, n, h, X, now)
  PROVE  View(Append(s, e), b, n, h, X, now)
<1> DEFINE t == Append(s, e)
<1>1. /\ \A i \in DOMAIN s : i \in DOMAIN t /\ t[i] = s[i] /\ i \in Nat
      /\ \A i \in DOMAIN t : i \in DOMAIN s \/ i = Len(s) + 1
      /\ Len(s) \in Nat
  BY AppendElems
<1>2. \A i \in DOMAIN s : Tells(t, b, h, i) <=> Tells(s, b, h, i)
  BY AppendTells
<1> HIDE DEF t
<1>3. \A i \in DOMAIN t : i < n => i \in DOMAIN s
  BY <1>1
<1>4. CASE X = now /\ \A i \in DOMAIN s : i < n => ~Tells(s, b, h, i)
  BY <1>1, <1>2, <1>3, <1>4 DEF View, t
<1>5. ASSUME NEW i \in DOMAIN s, i < n, Tells(s, b, h, i), Says(s[i]) = X,
             \A j \in DOMAIN s : j < n /\ Tells(s, b, h, j) => j <= i
      PROVE  View(t, b, n, h, X, now)
  <2>1. \A j \in DOMAIN t : j < n /\ Tells(t, b, h, j) => j <= i
    BY <1>2, <1>3, <1>5
  <2>2. i \in DOMAIN t /\ Tells(t, b, h, i) /\ Says(t[i]) = X
    BY <1>1, <1>2, <1>5
  <2> QED BY <1>5, <2>1, <2>2 DEF View
<1> QED BY <1>4, <1>5 DEF View, t

\* and the view from behind it is what it says, if it is about h.
LEMMA AppendLast ==
  ASSUME NEW s \in Seq(Event), NEW e \in Event, NEW b \in BOOLEAN, NEW h,
         NEW X, NEW now, NEW t, t = Append(s, e)
  PROVE  /\ ~AboutConn(e, h) /\ View(s, b, Len(s) + 1, h, X, now)
              => View(t, b, Len(t) + 1, h, X, now)
         /\ AboutConn(e, h) /\ (b \/ \E j \in DOMAIN s : s[j] = Boot)
              => View(t, b, Len(t) + 1, h, Says(e), now)
<1>1. /\ \A i \in DOMAIN s : i \in DOMAIN t /\ t[i] = s[i] /\ i \in Nat /\ i < Len(s) + 1
      /\ Len(s) + 1 \in DOMAIN t /\ t[Len(s) + 1] = e
      /\ \A i \in DOMAIN t : i \in DOMAIN s \/ i = Len(s) + 1
      /\ Len(s) \in Nat
  BY AppendElems
<1>2. \A i \in DOMAIN s : Tells(t, b, h, i) <=> Tells(s, b, h, i)
  BY AppendTells
<1>3. Len(t) = Len(s) + 1
  OBVIOUS
<1>4. \A i \in DOMAIN t : i < Len(t) + 1 /\ i <= Len(s) + 1
  BY <1>1, <1>3
<1>5. ASSUME ~AboutConn(e, h), View(s, b, Len(s) + 1, h, X, now)
      PROVE  View(t, b, Len(t) + 1, h, X, now)
  <2>1. ~Tells(t, b, h, Len(s) + 1)
    BY <1>1, <1>5 DEF Tells
  <2>2. CASE X = now /\ \A i \in DOMAIN s : i < Len(s) + 1 => ~Tells(s, b, h, i)
    <3>1. \A i \in DOMAIN t : ~Tells(t, b, h, i)
      BY <1>1, <1>2, <2>1, <2>2
    <3> QED BY <2>2, <3>1 DEF View
  <2>3. ASSUME NEW i \in DOMAIN s, Tells(s, b, h, i), Says(s[i]) = X,
               \A j \in DOMAIN s : j < Len(s) + 1 /\ Tells(s, b, h, j) => j <= i
        PROVE  View(t, b, Len(t) + 1, h, X, now)
    <3>1. \A j \in DOMAIN t : Tells(t, b, h, j) => j <= i
      BY <1>1, <1>2, <2>1, <2>3
    <3>2. i \in DOMAIN t /\ i < Len(t) + 1 /\ Tells(t, b, h, i) /\ Says(t[i]) = X
      BY <1>1, <1>2, <1>4, <2>3
    <3> QED BY <3>1, <3>2 DEF View
  <2> QED BY <1>5, <2>2, <2>3 DEF View
<1>6. ASSUME AboutConn(e, h), b \/ \E j \in DOMAIN s : s[j] = Boot
      PROVE  View(t, b, Len(t) + 1, h, Says(e), now)
  <2>1. Counts(t, b, Len(s) + 1)
    <3>1. CASE b
      BY <3>1 DEF Counts
    <3>2. CASE \E j \in DOMAIN s : s[j] = Boot
      <4>1. PICK j \in DOMAIN s : s[j] = Boot
        BY <3>2
      <4>2. j \in DOMAIN t /\ t[j] = Boot /\ j <= Len(s) + 1
        BY <1>1, <1>4, <4>1
      <4> QED BY <4>2 DEF Counts
    <3> QED BY <1>6, <3>1, <3>2
  <2>2. Tells(t, b, h, Len(s) + 1)
    BY <1>1, <1>6, <2>1 DEF Tells
  <2>3. Len(s) + 1 < Len(t) + 1
    BY <1>1, <1>3
  <2> QED BY <1>1, <1>4, <2>2, <2>3 DEF View
<1> QED BY <1>5, <1>6

\* An event that the NCP sends follows the ones before it.
LEMMA AppendInOrder ==
  ASSUME NEW s \in Seq(Event), NEW e \in Event, NEW b \in BOOLEAN, NEW h,
         NEW L, NEW M, NEW T, InOrder(s, b, h, L, T),
         b \/ \E j \in DOMAIN s : s[j] = Boot,
         \/ ~AboutConn(e, h) /\ M = L
         \/ AboutConn(e, h) /\ e.kind = "closed" /\ M = {}
         \/ AboutConn(e, h) /\ e.kind = "opened" /\ M = {e.addr} /\ L = {}
  PROVE  InOrder(Append(s, e), b, h, M, T)
<1>0. PICK t : t = Append(s, e)
  OBVIOUS
<1>1. /\ \A i \in DOMAIN s : i \in DOMAIN t /\ t[i] = s[i] /\ i \in Nat /\ i < Len(s) + 1
      /\ Len(s) + 1 \in DOMAIN t /\ t[Len(s) + 1] = e
      /\ \A i \in DOMAIN t : i \in DOMAIN s \/ i = Len(s) + 1
      /\ Len(s) \in Nat
  BY <1>0, AppendElems
<1>2. \A i \in DOMAIN s : Tells(t, b, h, i) <=> Tells(s, b, h, i)
  BY <1>0, AppendTells
<1>3. View(s, b, Len(s) + 1, h, L, T)
  BY DEF InOrder
<1>4. View(t, b, Len(t) + 1, h, M, T)
  <2>1. CASE ~AboutConn(e, h) /\ M = L
    BY <1>0, <1>3, <2>1, AppendLast
  <2>2. CASE AboutConn(e, h) /\ M = Says(e)
    BY <1>0, <2>2, AppendLast
  <2> QED BY <2>1, <2>2 DEF Says
<1>5. ASSUME NEW i \in DOMAIN t, Tells(t, b, h, i), t[i].kind = "opened"
      PROVE  View(t, b, i, h, {}, T)
  <2>1. CASE i \in DOMAIN s
    <3>1. View(s, b, i, h, {}, T)
      BY <1>1, <1>2, <1>5, <2>1 DEF InOrder
    <3>2. i \in Nat /\ i <= Len(s) + 1
      BY <1>1, <2>1
    <3> QED BY <1>0, <3>1, <3>2, AppendView
  <2>2. CASE i = Len(s) + 1
    <3>1. L = {}
      BY <1>1, <1>5, <2>2 DEF Tells
    <3>2. i \in Nat /\ i <= Len(s) + 1
      BY <1>1, <2>2
    <3> QED BY <1>0, <1>3, <2>2, <3>1, <3>2, AppendView
  <2> QED BY <1>1, <1>5, <2>1, <2>2
<1> QED BY <1>0, <1>4, <1>5 DEF InOrder

\* What is on its way before the first boot is not handled.
LEMMA BootInOrder ==
  ASSUME NEW s \in Seq(Event), \A j \in DOMAIN s : s[j] # Boot, NEW h
  PROVE  InOrder(Append(s, Boot), FALSE, h, {}, {})
<1>0. PICK t : t = Append(s, Boot)
  OBVIOUS
<1>1. /\ \A i \in DOMAIN s : i \in DOMAIN t /\ t[i] = s[i] /\ i \in Nat /\ i < Len(s) + 1
      /\ Len(s) + 1 \in DOMAIN t /\ t[Len(s) + 1] = Boot
      /\ \A i \in DOMAIN t : i \in DOMAIN s \/ i = Len(s) + 1
      /\ Len(s) \in Nat
  BY <1>0, AppendElems, Events
<1>2. ASSUME NEW i \in DOMAIN t
      PROVE  ~Tells(t, FALSE, h, i)
  <2>1. CASE i = Len(s) + 1
    <3>1. Boot.kind = "boot"
      BY DEF Boot
    <3>2. ~AboutConn(t[i], h)
      BY <1>1, <2>1, <3>1 DEF AboutConn
    <3> QED BY <3>2 DEF Tells
  <2>2. CASE i \in DOMAIN s
    <3>1. \A j \in DOMAIN t : j <= i => t[j] # Boot
      BY <1>1, <2>2
    <3> QED BY <3>1 DEF Tells, Counts
  <2> QED BY <1>1, <2>1, <2>2
<1> QED BY <1>0, <1>2 DEF InOrder, View

\* The view from an event is the view from the same event when the first one
\* has been handled or dropped.
LEMMA TailView ==
  ASSUME NEW s \in Seq(Event), s # <<>>, NEW b \in BOOLEAN, NEW c \in BOOLEAN,
         c <=> b \/ Head(s) = Boot, NEW h, NEW T, NEW U,
         \/ Tells(s, b, h, 1) /\ U = Says(Head(s))
         \/ ~Tells(s, b, h, 1) /\ U = T,
         NEW n \in Nat, NEW X, n > 0, View(s, b, n + 1, h, X, T)
  PROVE  View(Tail(s), c, n, h, X, U)
<1>0. PICK t : t = Tail(s)
  OBVIOUS
<1>1. /\ \A i \in DOMAIN t : i + 1 \in DOMAIN s /\ t[i] = s[i + 1]
      /\ \A i \in DOMAIN s : i # 1 => i - 1 \in DOMAIN t
      /\ DOMAIN s \subseteq Nat /\ DOMAIN t \subseteq Nat
      /\ 1 \in DOMAIN s /\ Head(s) = s[1]
      /\ \A i \in DOMAIN t : 1 < i + 1
  BY <1>0, TailElems
<1>2. ASSUME NEW i \in DOMAIN t
      PROVE  Counts(t, c, i) <=> Counts(s, b, i + 1)
  <2>1. i \in Nat
    BY <1>1
  <2>2. ASSUME Counts(t, c, i) PROVE Counts(s, b, i + 1)
    <3>1. CASE c
      <4>1. CASE b
        BY <4>1 DEF Counts
      <4>2. CASE s[1] = Boot
        <5>1. 1 <= i + 1
          BY <2>1
        <5> QED BY <1>1, <4>2, <5>1 DEF Counts
      <4> QED BY <1>1, <3>1, <4>1, <4>2
    <3>2. CASE ~c
      <4>1. PICK j \in DOMAIN t : j <= i /\ t[j] = Boot
        BY <2>2, <3>2 DEF Counts
      <4>2. j + 1 \in DOMAIN s /\ s[j + 1] = Boot /\ j + 1 <= i + 1
        BY <1>1, <2>1, <4>1
      <4> QED BY <4>2 DEF Counts
    <3> QED BY <3>1, <3>2
  <2>3. ASSUME Counts(s, b, i + 1), ~c PROVE Counts(t, c, i)
    <3>1. PICK j \in DOMAIN s : j <= i + 1 /\ s[j] = Boot
      BY <2>3 DEF Counts
    <3>2. j # 1
      BY <1>1, <2>3, <3>1
    <3>3. j - 1 \in DOMAIN t /\ j \in Nat
      BY <1>1, <3>2
    <3>4. (j - 1) + 1 = j /\ j - 1 <= i
      BY <2>1, <3>1, <3>3
    <3>5. t[j - 1] = Boot
      <4>1. t[j - 1] = s[(j - 1) + 1]
        BY <1>1, <3>3
      <4> QED BY <3>1, <3>4, <4>1
    <3> QED BY <3>3, <3>4, <3>5 DEF Counts
  <2>4. c => Counts(t, c, i)
    BY DEF Counts
  <2> QED BY <2>2, <2>3, <2>4
<1>3. \A i \in DOMAIN t : Tells(t, c, h, i) <=> Tells(s, b, h, i + 1)
  BY <1>1, <1>2 DEF Tells
<1>4. \A i \in DOMAIN t : i \in Nat /\ (i < n <=> i + 1 < n + 1)
  BY <1>1
<1>5. CASE X = T /\ \A i \in DOMAIN s : i < n + 1 => ~Tells(s, b, h, i)
  <2>1. 1 < n + 1
    OBVIOUS
  <2>2. ~Tells(s, b, h, 1)
    BY <1>1, <1>5, <2>1
  <2>3. \A i \in DOMAIN t : i < n => ~Tells(t, c, h, i)
    BY <1>1, <1>3, <1>4, <1>5
  <2> QED BY <1>0, <1>5, <2>2, <2>3 DEF View
<1>6. ASSUME NEW i \in DOMAIN s, i < n + 1, Tells(s, b, h, i), Says(s[i]) = X,
             \A j \in DOMAIN s : j < n + 1 /\ Tells(s, b, h, j) => j <= i
      PROVE  View(t, c, n, h, X, U)
  <2>1. CASE i = 1
    <3>1. X = U
      BY <1>1, <1>6, <2>1
    <3>2. \A k \in DOMAIN t : k < n => ~Tells(t, c, h, k)
      <4> SUFFICES ASSUME NEW k \in DOMAIN t, k < n, Tells(t, c, h, k)
                   PROVE  FALSE
        OBVIOUS
      <4>1. k + 1 \in DOMAIN s /\ k + 1 < n + 1 /\ Tells(s, b, h, k + 1)
        BY <1>1, <1>3, <1>4
      <4>2. k + 1 <= 1
        BY <1>6, <2>1, <4>1
      <4> QED BY <1>1, <4>2
    <3> QED BY <3>1, <3>2 DEF View
  <2>2. CASE i # 1
    <3>1. i - 1 \in DOMAIN t /\ i \in Nat
      BY <1>1, <2>2
    <3>2. (i - 1) + 1 = i
      BY <3>1
    <3>3. Tells(t, c, h, i - 1) /\ t[i - 1] = s[i]
      BY <1>1, <1>3, <1>6, <3>1, <3>2
    <3>4. i - 1 < n
      BY <1>6, <3>1
    <3>5. \A k \in DOMAIN t : k < n /\ Tells(t, c, h, k) => k <= i - 1
      <4> SUFFICES ASSUME NEW k \in DOMAIN t, k < n, Tells(t, c, h, k)
                   PROVE  k <= i - 1
        OBVIOUS
      <4>1. k + 1 \in DOMAIN s /\ k + 1 < n + 1 /\ Tells(s, b, h, k + 1)
        BY <1>1, <1>3, <1>4
      <4>2. k + 1 <= i /\ k \in Nat
        BY <1>1, <1>6, <4>1
      <4> QED BY <3>1, <4>2
    <3> QED BY <1>6, <3>1, <3>3, <3>4, <3>5 DEF View
  <2> QED BY <2>1, <2>2
<1> QED BY <1>0, <1>5, <1>6 DEF View

\* So the events stay in order while they are handled, and open only what the
\* table does not have.
LEMMA TailInOrder ==
  ASSUME NEW s \in Seq(Event), s # <<>>, NEW b \in BOOLEAN, NEW c \in BOOLEAN,
         c <=> b \/ Head(s) = Boot, NEW h, NEW L, NEW T, NEW U,
         \/ Tells(s, b, h, 1) /\ U = Says(Head(s))
         \/ ~Tells(s, b, h, 1) /\ U = T,
         InOrder(s, b, h, L, T)
  PROVE  InOrder(Tail(s), c, h, L, U)
<1>0. PICK t : t = Tail(s)
  OBVIOUS
<1>1. /\ \A i \in DOMAIN t : i + 1 \in DOMAIN s /\ t[i] = s[i + 1]
      /\ DOMAIN s \subseteq Nat /\ DOMAIN t \subseteq Nat
      /\ 1 \in DOMAIN s /\ Head(s) = s[1]
      /\ \A i \in DOMAIN t : 1 < i + 1
  BY <1>0, TailElems
<1>2. Len(t) + 1 \in Nat /\ Len(t) + 1 > 0 /\ (Len(t) + 1) + 1 = Len(s) + 1
  BY <1>0, LenProperties
<1>3. View(s, b, (Len(t) + 1) + 1, h, L, T)
  BY <1>2 DEF InOrder
<1>4. View(t, c, Len(t) + 1, h, L, U)
  BY <1>0, <1>2, <1>3, TailView
<1>5. ASSUME NEW i \in DOMAIN t, Tells(t, c, h, i), t[i].kind = "opened"
      PROVE  View(t, c, i, h, {}, U)
  <2>1. i \in Nat /\ i > 0 /\ i + 1 \in Nat
    BY <1>1
  <2>2. Counts(s, b, i + 1)
    <3>1. CASE c
      <4>1. 1 <= i + 1
        BY <2>1
      <4> QED BY <1>1, <3>1, <4>1 DEF Counts
    <3>2. CASE ~c
      <4>1. PICK j \in DOMAIN t : j <= i /\ t[j] = Boot
        BY <1>5, <3>2 DEF Tells, Counts
      <4>2. j + 1 \in DOMAIN s /\ s[j + 1] = Boot /\ j + 1 <= i + 1
        BY <1>1, <2>1, <4>1
      <4> QED BY <4>2 DEF Counts
    <3> QED BY <3>1, <3>2
  <2>3. Tells(s, b, h, i + 1) /\ s[i + 1].kind = "opened" /\ i + 1 \in DOMAIN s
    BY <1>1, <1>5, <2>2 DEF Tells
  <2>4. View(s, b, i + 1, h, {}, T)
    BY <2>3 DEF InOrder
  <2> QED BY <1>0, <2>1, <2>4, TailView
<1> QED BY <1>0, <1>4, <1>5 DEF InOrder

\* An event that opens a connection now finds no such connection in the table.
LEMMA OpensFree ==
  ASSUME NEW s \in Seq(Event), s # <<>>, NEW b \in BOOLEAN, NEW h, NEW L, NEW T,
         InOrder(s, b, h, L, T), Tells(s, b, h, 1), Head(s).kind = "opened"
  PROVE  T = {}
<1>1. 1 \in DOMAIN s /\ Head(s) = s[1] /\ DOMAIN s \subseteq Nat
  BY TailElems
<1>2. View(s, b, 1, h, {}, T)
  BY <1>1 DEF InOrder
<1>3. \A i \in DOMAIN s : ~(i < 1)
  OBVIOUS
<1> QED BY <1>2, <1>3 DEF View

-----------------------------------------------------------------------------
(* The table of connections *)

\* What the NCP, and what the table, have h connected to; and h has at most one
\* element of the table.
Linked(h) == IF link[h].state = "open" THEN {link[h].addr} ELSE {}
Tabled(h) == {table[i].addr : i \in ByConn(h)}
Single(h) == \A i, j \in ByConn(h) : i = j

\* The first of some indices of the table is one of them.
LEMMA FirstOf ==
  ASSUME NEW T, T \subseteq Nat, T # {}
  PROVE  First(T) \in T
<1>1. \E m \in T : \A n \in T : m <= n
  BY Least
<1> QED BY <1>1 DEF First

\* A connection that is opened, and is not in the table, is in it once then;
\* nothing happens to the others.
LEMMA OpenedTable ==
  ASSUME TableType, NEW h \in Handle, NEW a \in Addr, connection_opened(h, a),
         ByConn(h) = {}
  PROVE  /\ Tabled(h)' = {a} /\ Single(h)'
         /\ \A g \in Handle : g # h => /\ Tabled(g)' = Tabled(g)
                                       /\ Single(g) => Single(g)'
<1>1. table \in Seq(ListElem) /\ Entry(h, a) \in ListElem
  BY DEF TableType, ListElem, Entry
<1>2. Entry(h, a).conn = h /\ Entry(h, a).addr = a /\ Entry(h, a).used
  BY DEF Entry
<1>3. DOMAIN table \subseteq Nat
  BY <1>1
<1> DEFINE e == Entry(h, a)
<1> HIDE DEF e
<1>4. CASE Unused # {}
  <2>1. PICK k : k = First(Unused)
    OBVIOUS
  <2>2. k \in DOMAIN table /\ ~table[k].used
    <3>1. Unused \subseteq Nat
      BY <1>3 DEF Unused
    <3>2. k \in Unused
      BY <1>4, <2>1, <3>1, FirstOf
    <3> QED BY <3>2 DEF Unused
  <2>3. table' = [table EXCEPT ![k] = e]
    BY <1>4, <2>1 DEF connection_opened, e
  <2>4. DOMAIN table' = DOMAIN table /\ table'[k] = e
        /\ \A i \in DOMAIN table : i # k => table'[i] = table[i]
    BY <1>1, <2>2, <2>3
  <2>5. ByConn(h)' = {k}
    BY <1>2, <2>2, <2>4 DEF ByConn, e
  <2>6. ASSUME NEW g \in Handle, g # h
        PROVE  ByConn(g)' = ByConn(g)
    BY <1>2, <2>2, <2>4, <2>6 DEF ByConn, e
  <2>7. Tabled(h)' = {a} /\ Single(h)'
    BY <1>2, <2>4, <2>5 DEF Tabled, Single, e
  <2>8. ASSUME NEW g \in Handle, g # h
        PROVE  Tabled(g)' = Tabled(g) /\ (Single(g) => Single(g)')
    <3>1. \A i \in ByConn(g) : i # k /\ i \in DOMAIN table
      BY <2>2 DEF ByConn
    <3>2. \A i \in ByConn(g) : table'[i].addr = table[i].addr
      BY <2>4, <3>1
    <3> QED BY <2>6, <2>8, <3>2 DEF Tabled, Single
  <2> QED BY <2>7, <2>8
<1>5. CASE Unused = {}
  <2>1. table' = <<e>> \o table
    BY <1>5 DEF connection_opened, e
  <2>2. /\ 1 \in DOMAIN table' /\ table'[1] = e
        /\ \A i \in DOMAIN table : /\ i \in Nat /\ 1 <= i
                                   /\ i + 1 \in DOMAIN table'
                                   /\ table'[i + 1] = table[i]
        /\ \A i \in DOMAIN table' : i = 1 \/ i - 1 \in DOMAIN table
        /\ \A i \in DOMAIN table' : i \in Nat
    BY <1>1, <2>1, ConsElems DEF e
  <2>3. \A i \in DOMAIN table : i + 1 # 1
    BY <2>2
  <2>4. \A i \in DOMAIN table' : (i - 1) + 1 = i
    BY <2>2
  <2>5. ASSUME NEW g \in Handle
        PROVE  /\ \A i \in ByConn(g) : i + 1 \in ByConn(g)' /\ table'[i + 1].addr = table[i].addr
               /\ \A i \in ByConn(g)' : i = 1 \/ (i - 1 \in ByConn(g) /\ table[i - 1].addr = table'[i].addr)
    <3>1. \A i \in ByConn(g) : i + 1 \in ByConn(g)' /\ table'[i + 1].addr = table[i].addr
      BY <2>2 DEF ByConn
    <3>2. ASSUME NEW i \in ByConn(g)', i # 1
          PROVE  i - 1 \in ByConn(g) /\ table[i - 1].addr = table'[i].addr
      <4>1. i - 1 \in DOMAIN table /\ i \in DOMAIN table'
        BY <2>2, <3>2 DEF ByConn
      <4>2. table'[(i - 1) + 1] = table[i - 1]
        BY <2>2, <4>1
      <4>3. table'[i] = table[i - 1]
        BY <2>4, <4>1, <4>2
      <4> QED BY <3>2, <4>1, <4>3 DEF ByConn
    <3> QED BY <3>1, <3>2
  <2>6. ByConn(h)' = {1}
    <3>1. 1 \in ByConn(h)'
      BY <1>2, <2>2 DEF ByConn, e
    <3>2. \A i \in ByConn(h)' : i = 1
      BY <2>5
    <3> QED BY <3>1, <3>2
  <2>7. Tabled(h)' = {a} /\ Single(h)'
    BY <1>2, <2>2, <2>6 DEF Tabled, Single, e
  <2>8. ASSUME NEW g \in Handle, g # h
        PROVE  Tabled(g)' = Tabled(g) /\ (Single(g) => Single(g)')
    <3>1. 1 \notin ByConn(g)'
      BY <1>2, <2>2, <2>8 DEF ByConn, e
    <3>2. \A x : x \in Tabled(g) => x \in Tabled(g)'
      BY <2>5 DEF Tabled
    <3>3. \A x : x \in Tabled(g)' => x \in Tabled(g)
      BY <2>5, <3>1 DEF Tabled
    <3>4. ASSUME Single(g), NEW i \in ByConn(g)', NEW j \in ByConn(g)' PROVE i = j
      <4>1. i - 1 \in ByConn(g) /\ j - 1 \in ByConn(g)
        BY <2>5, <3>1
      <4>2. i - 1 = j - 1
        BY <3>4, <4>1 DEF Single
      <4>3. i \in DOMAIN table' /\ j \in DOMAIN table'
        BY DEF ByConn
      <4> QED BY <2>4, <4>2, <4>3
    <3>5. Tabled(g)' = Tabled(g)
      BY <3>2, <3>3
    <3> QED BY <3>4, <3>5 DEF Single
  <2> QED BY <2>7, <2>8
<1> QED BY <1>4, <1>5

\* A connection that is closed is no longer in the table, which had it once at
\* most; nothing happens to the others.
LEMMA ClosedTable ==
  ASSUME TableType, NEW h \in Handle, connection_closed(h), Single(h)
  PROVE  /\ ByConn(h)' = {} /\ Tabled(h)' = {} /\ Single(h)'
         /\ \A g \in Handle : g # h => /\ Tabled(g)' = Tabled(g)
                                       /\ Single(g) => Single(g)'
<1>1. table \in Seq(ListElem) /\ DOMAIN table \subseteq Nat
  BY DEF TableType, ListElem
<1>2. CASE ByConn(h) = {}
  <2>1. table' = table
    BY <1>2 DEF connection_closed
  <2> QED BY <1>2, <2>1 DEF ByConn, Tabled, Single
<1>3. CASE ByConn(h) # {}
  <2>1. PICK k : k = First(ByConn(h))
    OBVIOUS
  <2>2. k \in ByConn(h)
    <3>1. ByConn(h) \subseteq Nat
      BY <1>1 DEF ByConn
    <3> QED BY <1>3, <2>1, <3>1, FirstOf
  <2>3. k \in DOMAIN table /\ table[k] \in ListElem /\ table[k].conn = h
    BY <1>1, <2>2 DEF ByConn
  <2>4. table' = [table EXCEPT ![k] = [table[k] EXCEPT !.used = FALSE]]
    BY <1>3, <2>1 DEF connection_closed
  <2>5. ~[table[k] EXCEPT !.used = FALSE].used
    BY <2>3 DEF ListElem
  <2>6. DOMAIN table' = DOMAIN table /\ ~table'[k].used
        /\ \A i \in DOMAIN table : i # k => table'[i] = table[i]
    BY <1>1, <2>3, <2>4, <2>5
  <2>7. ByConn(h)' = {}
    BY <2>2, <2>6 DEF ByConn, Single
  <2>8. ASSUME NEW g \in Handle, g # h
        PROVE  Tabled(g)' = Tabled(g) /\ (Single(g) => Single(g)')
    <3>1. ByConn(g)' = ByConn(g)
      BY <2>3, <2>6, <2>8 DEF ByConn
    <3>2. \A i \in ByConn(g) : i # k /\ i \in DOMAIN table
      BY <2>3, <2>8 DEF ByConn
    <3>3. \A i \in ByConn(g) : table'[i].addr = table[i].addr
      BY <2>6, <3>2
    <3> QED BY <3>1, <3>3 DEF Tabled, Single
  <2> QED BY <2>7, <2>8 DEF Tabled, Single
<1> QED BY <1>2, <1>3

-----------------------------------------------------------------------------
(* What a step does to the events on their way, the table and the links *)

\* Where the NCP and the daemon are before the first reboot that is not the one
\* at startup, and what the loop has in hand.
Phase ==
  \/ booted /\ up /\ ~reset
  \/ /\ ~booted /\ evt = NoEvent /\ table = <<>>
     /\ \/ up /\ reset /\ ~BootQueued
        \/ /\ ~up /\ ~reset /\ ~BootQueued /\ ~adv
           /\ \A h \in Handle : link[h] = NoLink
        \/ up /\ ~reset /\ BootQueued
LoopAt ==
  /\ pc \in {"select", "single_shot", "cleanup", "command"} => evt = NoEvent
  /\ pc = "pair_event" => evt.kind = "closed"
  /\ pc = "bootup" => evt = Boot
  /\ pc = "timer" => evt.kind = "tick"

Ordered == \A h \in Handle : /\ InOrder(Coming, booted, h, Linked(h), Tabled(h))
                             /\ Single(h)
Hears == booted \/ BootQueued

\* As long as the NCP is not reset, the events on their way are in order.
LinksInv == resets = 0 => Phase /\ LoopAt /\ (Hears => Ordered)

\* Nothing happens to them;
SameLinks == \A h \in Handle : Linked(h)' = Linked(h)
Stays == Coming' = Coming /\ SameLinks /\ UNCHANGED <<booted, table>> /\ (Hears' => Hears)
\* the NCP sends one, with what it does to its connections;
Adds(e) == /\ Coming' = Append(Coming, e) /\ UNCHANGED <<booted, table>>
           /\ Hears' => Hears
           /\ \A h \in Handle :
                \/ ~AboutConn(e, h) /\ Linked(h)' = Linked(h)
                \/ AboutConn(e, h) /\ e.kind = "closed" /\ Linked(h)' = {}
                \/ AboutConn(e, h) /\ e.kind = "opened" /\ Linked(h)' = {e.addr} /\ Linked(h) = {}
\* one is dropped, or handled and not about connections;
Drops == /\ Coming # <<>> /\ Coming' = Tail(Coming) /\ SameLinks /\ UNCHANGED table
         /\ Hears' => Hears
         /\ booted' <=> booted \/ Head(Coming) = Boot
         /\ \/ Head(Coming).kind \notin {"opened", "closed"}
            \/ ~booted /\ Head(Coming) # Boot /\ table = <<>>
\* one is applied to the table;
Applies == /\ Coming # <<>> /\ Coming' = Tail(Coming) /\ SameLinks /\ UNCHANGED booted
           /\ booted /\ Head(Coming) = evt /\ pc' # pc
           /\ \/ /\ pc = "connect_event" /\ evt.kind = "opened"
                 /\ connection_opened(evt.conn, evt.addr)
              \/ pc = "pair_event" /\ evt.kind = "closed" /\ connection_closed(evt.conn)
\* the NCP has booted, which the daemon will hear of;
Boots == /\ Coming' = Append(Coming, Boot) /\ UNCHANGED <<booted, table>>
         /\ ~booted /\ table = <<>> /\ (\A i \in DOMAIN Coming : Coming[i] # Boot)
         /\ \A h \in Handle : Linked(h)' = {}
\* or nothing will be heard of it.
Moves == \/ Stays \/ Drops \/ Applies \/ Boots \/ ~Hears'
         \/ \E e \in Event \ {Boot} : Adds(e)

\* The events on their way are events.
LEMMA ComingIs ==
  ASSUME NcpType, LoopType
  PROVE  /\ Coming \in Seq(Event)
         /\ Coming = evq \/ (Coming = <<evt>> \o evq /\ evt \in Event)
         /\ Unapplied = <<>> => Coming = evq
         /\ Unapplied # <<>> => /\ Coming = <<evt>> \o evq /\ evt \in Event
                                /\ Coming # <<>> /\ Head(Coming) = evt /\ Tail(Coming) = evq
<1>1. evq \in Seq(Event)
  BY DEF NcpType
<1>2. CASE Unapplied = <<>>
  <2>1. Coming = evq
    BY <1>1, <1>2 DEF Coming
  <2> QED BY <1>1, <1>2, <2>1
<1>3. CASE Unapplied # <<>>
  <2>1. Unapplied = <<evt>> /\ evt.kind \in {"opened", "closed"}
    BY <1>3 DEF Unapplied
  <2>2. evt \in Event
    <3>1. evt # NoEvent
      BY <2>1 DEF NoEvent
    <3> QED BY <3>1 DEF LoopType
  <2>3. Coming = <<evt>> \o evq
    BY <2>1 DEF Coming
  <2> HIDE DEF Coming
  <2>4. Coming \in Seq(Event) /\ Coming # <<>> /\ Head(Coming) = evt /\ Tail(Coming) = evq
    BY <1>1, <2>2, <2>3
  <2> QED BY <1>3, <2>2, <2>3, <2>4
<1> QED BY <1>2, <1>3

\* What an event leaves to do, when the loop goes on with it.
LEMMA GoesLoop ==
  ASSUME NEW s, NEW c, GoOn(EventHandler(evt, s, c))
  PROVE  /\ LoopAt'
         /\ evt' = evt \/ evt' = NoEvent
         /\ pc' \in {"select", "scan_event", "connect_event", "pair_event"}
         /\ evt.kind \notin {"opened", "closed"} => Unapplied' = <<>>
<1> DEFINE p == EventHandler(evt, s, c)
<1>1. p \in {"select", "scan_event", "connect_event", "pair_event"}
      /\ (p = "pair_event" => evt.kind = "closed")
  BY DEF EventHandler
<1> HIDE DEF p
<1>2. pc' = p /\ evt' = IF p = "select" THEN NoEvent ELSE evt
  BY DEF GoOn, p
<1>3. evt.kind \notin {"opened", "closed"} => Unapplied' = <<>>
  BY <1>2 DEF Unapplied, NoEvent
<1>4. LoopAt'
  BY <1>1, <1>2 DEF LoopAt
<1> QED BY <1>1, <1>2, <1>3, <1>4

\* An event of a connection waits for the handlers that are left.
LEMMA GoesUnapplied ==
  ASSUME NEW c, GoOn(EventHandler(evt, FALSE, c)),
         \/ pc = "scan_event"
         \/ pc = "connect_event" /\ evt.kind # "opened"
  PROVE  Unapplied' = Unapplied
<1> DEFINE p == EventHandler(evt, FALSE, c)
<1>1. /\ p \in {"select", "connect_event", "pair_event"}
      /\ evt.kind = "opened" => p = "connect_event"
      /\ evt.kind = "closed" => p # "select"
  BY DEF EventHandler
<1> HIDE DEF p
<1>2. pc' = p /\ evt' = IF p = "select" THEN NoEvent ELSE evt
  BY DEF GoOn, p
<1>3. CASE evt.kind = "opened"
  BY <1>1, <1>2, <1>3 DEF Unapplied
<1>4. CASE evt.kind = "closed"
  BY <1>1, <1>2, <1>4 DEF Unapplied
<1>5. CASE evt.kind \notin {"opened", "closed"}
  BY <1>2, <1>5 DEF Unapplied, NoEvent
<1> QED BY <1>3, <1>4, <1>5

\* What a step leaves alone of where the NCP and the daemon are.
LEMMA PhaseKeeps ==
  ASSUME Phase, UNCHANGED <<booted, up, reset>>, up \/ UNCHANGED <<link, adv>>,
         evt' = evt \/ evt' = NoEvent, table' = table \/ booted,
         booted \/ (BootQueued' <=> BootQueued)
  PROVE  Phase' /\ (Hears' => Hears)
<1>1. Hears' => Hears
  BY DEF Hears
<1>2. CASE booted
  <2>1. booted' /\ up' /\ ~reset'
    BY <1>2, Zenon DEF Phase
  <2> QED BY <1>1, <2>1, Zenon DEF Phase
<1>3. CASE ~booted /\ up
  <2>1. evt' = NoEvent /\ table' = <<>> /\ ~booted' /\ up'
    BY <1>3 DEF Phase
  <2>2. (reset /\ ~BootQueued) \/ (~reset /\ BootQueued)
    BY <1>3 DEF Phase
  <2>3. (reset' /\ ~BootQueued') \/ (~reset' /\ BootQueued')
    BY <1>3, <2>2
  <2> QED BY <1>1, <2>1, <2>3, Zenon DEF Phase
<1>4. CASE ~booted /\ ~up
  <2>1. /\ evt' = NoEvent /\ table' = <<>> /\ ~booted' /\ ~up'
        /\ UNCHANGED <<link, adv>>
    BY <1>4 DEF Phase
  <2>2. ~reset /\ ~BootQueued /\ ~adv /\ \A h \in Handle : link[h] = NoLink
    BY <1>4 DEF Phase
  <2>3. ~reset' /\ ~BootQueued' /\ ~adv' /\ \A h \in Handle : link'[h] = NoLink
    BY <1>4, <2>1, <2>2
  <2> QED BY <1>1, <2>1, <2>3, Zenon DEF Phase
<1> QED BY <1>1, <1>2, <1>3, <1>4

\* The events on their way after one more.
LEMMA ComingAppend ==
  ASSUME NcpType, LoopType, Unapplied' = Unapplied, NEW e \in Event,
         evq' = Append(evq, e)
  PROVE  Coming' = Append(Coming, e) /\ (e # Boot => (BootQueued' <=> BootQueued))
<1>1. evq \in Seq(Event)
  BY DEF NcpType
<1>2. Unapplied \in Seq(Event)
  <2>1. CASE Unapplied = <<>>
    BY <2>1
  <2>2. CASE Unapplied # <<>>
    <3>1. evt \in Event /\ Unapplied = <<evt>>
      BY <2>2, ComingIs DEF Unapplied
    <3> QED BY <3>1
  <2> QED BY <2>1, <2>2
<1>3. \A u, q \in Seq(Event) : u \o Append(q, e) = Append(u \o q, e)
  OBVIOUS
<1>4. Coming' = Append(Coming, e)
  BY <1>1, <1>2, <1>3 DEF Coming
<1>5. ASSUME e # Boot PROVE BootQueued' <=> BootQueued
  <2>1. /\ \A i \in DOMAIN evq : i \in DOMAIN evq' /\ evq'[i] = evq[i]
        /\ \A i \in DOMAIN evq' : i \in DOMAIN evq \/ evq'[i] = e
    BY <1>1, AppendElems
  <2> QED BY <1>5, <2>1 DEF BootQueued
<1> QED BY <1>4, <1>5

\* Which of the connections an event of the NCP is about.
LEMMA AboutIs ==
  /\ \A g, h \in Handle : AboutConn(Closed(h), g) <=> g = h
  /\ \A g, h \in Handle, a \in Addr : AboutConn(Opened(h, a), g) <=> g = h
  /\ \A h \in Handle : Closed(h).kind = "closed" /\ Closed(h) # Boot
  /\ \A h \in Handle, a \in Addr : /\ Opened(h, a).kind = "opened"
                                   /\ Opened(h, a).addr = a /\ Opened(h, a) # Boot
BY DEF AboutConn, Closed, Opened, Boot

\* A connection that is changed at the NCP.
LEMMA LinkedIs ==
  ASSUME NcpType, NEW h \in Handle, NEW l, link' = [link EXCEPT ![h] = l]
  PROVE  /\ \A g \in Handle : g # h => Linked(g)' = Linked(g)
         /\ Linked(h)' = IF l.state = "open" THEN {l.addr} ELSE {}
BY DEF NcpType, Linked

\* A connection is closed at the NCP.
LEMMA CloseMoves ==
  ASSUME NcpType, LoopType, NEW h \in Handle,
         \/ CloseLink(h)
         \/ link' = [link EXCEPT ![h] = NoLink] /\ evq' = Append(evq, Closed(h)),
         Unapplied' = Unapplied, UNCHANGED <<booted, table>>
  PROVE  /\ BootQueued' <=> BootQueued
         /\ Stays \/ Adds(Closed(h))
<1>1. Closed(h) \in Event /\ Closed(h) # Boot /\ Closed(h).kind = "closed"
      /\ NoLink.state # "open"
  BY Events, AboutIs DEF NoLink
<1>2. CASE link' = [link EXCEPT ![h] = NoLink] /\ evq' = Append(evq, Closed(h))
  <2>1. Coming' = Append(Coming, Closed(h)) /\ (BootQueued' <=> BootQueued)
    BY <1>1, <1>2, ComingAppend
  <2>2. /\ \A g \in Handle : g # h => Linked(g)' = Linked(g)
        /\ Linked(h)' = {}
    BY <1>1, <1>2, LinkedIs
  <2>3. \A g \in Handle : \/ ~AboutConn(Closed(h), g) /\ Linked(g)' = Linked(g)
                          \/ AboutConn(Closed(h), g) /\ Linked(g)' = {}
    BY <2>2, AboutIs
  <2> QED BY <1>1, <2>1, <2>3 DEF Adds, Hears
<1>3. CASE link[h].state = "pending" /\ link' = [link EXCEPT ![h] = NoLink] /\ UNCHANGED evq
  <2>1. Coming' = Coming /\ (BootQueued' <=> BootQueued)
    BY <1>3 DEF Coming, BootQueued
  <2>2. SameLinks
    <3>1. /\ \A g \in Handle : g # h => Linked(g)' = Linked(g)
          /\ Linked(h)' = {}
      BY <1>1, <1>3, LinkedIs
    <3>2. Linked(h) = {}
      BY <1>3 DEF Linked
    <3> QED BY <3>1, <3>2 DEF SameLinks
  <2> QED BY <2>1, <2>2 DEF Stays, Hears
<1>4. CASE UNCHANGED <<link, evq>>
  BY <1>4 DEF Stays, Hears, SameLinks, Linked, Coming, BootQueued
<1> QED BY <1>2, <1>3, <1>4 DEF CloseLink

\* Handlers that leave the events and the connections alone.
LEMMA StaysHere ==
  ASSUME Unapplied' = Unapplied, UNCHANGED <<evq, booted, table>>,
         \A h \in Handle : Linked(h)' = Linked(h)
  PROVE  Stays /\ (BootQueued' <=> BootQueued)
BY DEF Stays, SameLinks, Coming, Hears, BootQueued

\* An event is taken, or skipped.
LEMMA TakeMoves ==
  ASSUME NcpType, LoopType, Phase, LoopAt, TakesEvent
  PROVE  Phase' /\ LoopAt' /\ Moves
<1> USE DEF timers, host, conn, ncp, clients
<1>1. pc = "select" /\ evq # <<>> /\ evq' = Tail(evq) /\ evt = NoEvent
      /\ UNCHANGED <<up, reset, link, adv, table>>
  BY DEF TakesEvent, SkipEvent, TakeEvent, LoopAt
<1>2. evq \in Seq(Event) /\ Unapplied = <<>> /\ Coming = evq
  <2>1. Unapplied = <<>>
    BY <1>1 DEF Unapplied, NoEvent
  <2> QED BY <2>1, ComingIs DEF NcpType
<1>3. SameLinks
  BY <1>1 DEF SameLinks, Linked
<1>4. /\ \A i \in DOMAIN evq' : i + 1 \in DOMAIN evq /\ evq'[i] = evq[i + 1]
      /\ \A i \in DOMAIN evq : i # 1 => i - 1 \in DOMAIN evq'
      /\ DOMAIN evq \subseteq Nat /\ 1 \in DOMAIN evq /\ Head(evq) = evq[1]
      /\ Head(evq) \in Event
  BY <1>1, <1>2, TailElems
<1>5. BootQueued' => BootQueued
  BY <1>4 DEF BootQueued
<1>6. CASE SkipEvent
  <2>1. ~booted /\ Head(evq) # Boot /\ UNCHANGED <<pc, evt, booted>>
    BY <1>6 DEF SkipEvent
  <2>2. BootQueued => BootQueued'
    <3> SUFFICES ASSUME NEW i \in DOMAIN evq, evq[i] = Boot PROVE BootQueued'
      BY DEF BootQueued
    <3>1. i # 1 /\ i \in Nat
      BY <1>4, <2>1
    <3>2. i - 1 \in DOMAIN evq' /\ (i - 1) + 1 = i
      BY <1>4, <3>1
    <3>3. evq'[i - 1] = evq[(i - 1) + 1]
      BY <1>4, <3>2
    <3> QED BY <3>2, <3>3 DEF BootQueued
  <2>3. Phase' /\ (Hears' => Hears)
    BY <1>1, <1>5, <2>1, <2>2, PhaseKeeps
  <2>4. table = <<>>
    BY <2>1 DEF Phase
  <2>5. Coming' = Tail(Coming)
    <3>1. Unapplied' = <<>>
      BY <1>2, <2>1 DEF Unapplied
    <3>2. \A q \in Seq(Event) : <<>> \o q = q
      OBVIOUS
    <3>3. evq' \in Seq(Event)
      BY <1>1, <1>2
    <3> QED BY <1>1, <1>2, <3>1, <3>2, <3>3 DEF Coming
  <2>6. Drops
    BY <1>1, <1>2, <1>3, <2>1, <2>3, <2>4, <2>5 DEF Drops
  <2>7. LoopAt'
    BY <2>1 DEF LoopAt
  <2> QED BY <2>3, <2>6, <2>7 DEF Moves
<1>7. CASE TakeEvent
  <2>1. booted' /\ (booted \/ Head(evq) = Boot) /\ evt' = Head(evq)
    BY <1>7 DEF TakeEvent
  <2>2. up /\ ~reset /\ Hears
    <3>1. CASE booted
      BY <3>1 DEF Phase, Hears
    <3>2. CASE ~booted
      <4>1. BootQueued
        BY <1>4, <2>1, <3>2 DEF BootQueued
      <4> QED BY <3>2, <4>1 DEF Phase, Hears
    <3> QED BY <3>1, <3>2
  <2>3. Phase'
    BY <1>1, <2>1, <2>2 DEF Phase
  <2>4. PICK e \in Event : e = Head(evq)
    BY <1>4
  <2>5. pc' = CASE e = Boot        -> "bootup"
                [] e.kind = "tick" -> "timer"
                [] OTHER           -> EventHandler(e, ScanStops, ConnectReturned)
    BY <1>7, <2>1, <2>4 DEF TakeEvent
  <2>6. /\ e = Boot => e.kind = "boot" /\ pc' = "bootup"
        /\ e.kind = "tick" => pc' = "timer"
        /\ e.kind = "boot" => e = Boot
        /\ e.kind \in {"boot", "tick", "opened", "closed"}
    BY <2>5, EventKinds DEF Event, Boot, Tick, Opened, Closed
  <2>7. /\ e.kind = "opened" => pc' \in {"scan_event", "connect_event"}
        /\ e.kind = "closed" => pc' \in {"scan_event", "connect_event", "pair_event"}
    BY <2>5, <2>6 DEF EventHandler
  <2>8. LoopAt'
    BY <2>1, <2>4, <2>6, <2>7 DEF LoopAt
  <2>9. CASE e.kind \in {"opened", "closed"}
    <3>1. Unapplied' = <<e>>
      BY <2>1, <2>4, <2>7, <2>9 DEF Unapplied
    <3>2. \A q \in Seq(Event) : q # <<>> => <<Head(q)>> \o Tail(q) = q
      OBVIOUS
    <3>3. Coming' = Coming
      BY <1>1, <1>2, <2>4, <3>1, <3>2 DEF Coming
    <3>4. booted
      BY <2>1, <2>4, <2>6, <2>9
    <3>5. booted' = booted
      BY <2>1, <3>4, Zenon DEF LoopType
    <3> QED BY <1>1, <1>3, <2>2, <2>3, <2>8, <3>3, <3>5 DEF Moves, Stays
  <2>10. CASE e.kind \notin {"opened", "closed"}
    <3>1. Unapplied' = <<>>
      BY <2>1, <2>4, <2>10 DEF Unapplied
    <3>2. \A q \in Seq(Event) : <<>> \o q = q
      OBVIOUS
    <3>3. evq' \in Seq(Event)
      BY <1>1, <1>2
    <3>4. Coming' = Tail(Coming)
      BY <1>1, <1>2, <3>1, <3>2, <3>3 DEF Coming
    <3>5. Drops
      BY <1>1, <1>2, <1>3, <2>1, <2>2, <2>4, <2>10, <3>4 DEF Drops
    <3> QED BY <2>3, <2>8, <3>5 DEF Moves
  <2> QED BY <2>9, <2>10
<1> QED BY <1>6, <1>7 DEF TakesEvent

\* The handlers of boots and timers.
LEMMA TimerMoves ==
  ASSUME NcpType, LoopType, HandlersType, Phase, LoopAt,
         Bootup \/ ScanTimer \/ ConnectTimer \/ ConnectTimesOut
  PROVE  Phase' /\ LoopAt' /\ Moves
<1> USE DEF timers, host, conn, ncp, clients
<1>1. PICK s, c : GoOn(EventHandler(evt, s, c))
  BY DEF Bootup, ScanTimer, ConnectTimer, ConnectTimesOut
<1>2. evt.kind \notin {"opened", "closed", "none"}
  BY DEF Bootup, ScanTimer, ConnectTimer, ConnectTimesOut, LoopAt, Boot, Tick
<1>3. Unapplied = <<>> /\ Unapplied' = <<>> /\ LoopAt' /\ (evt' = evt \/ evt' = NoEvent)
  BY <1>1, <1>2, GoesLoop DEF Unapplied
<1>4. booted
  BY <1>2 DEF Phase, NoEvent
<1>5. UNCHANGED <<booted, up, reset, table>>
  BY DEF Bootup, ScanTimer, ConnectTimer, ConnectTimesOut
<1>6. Phase'
  BY <1>3, <1>4, <1>5, PhaseKeeps DEF Phase
<1>7. CASE Bootup \/ ScanTimer \/ ConnectTimer
  <2>1. UNCHANGED <<evq, link>>
    BY <1>7 DEF Bootup, ScanTimer, ConnectTimer
  <2>2. Stays
    BY <1>3, <1>5, <2>1, StaysHere DEF Linked
  <2> QED BY <1>3, <1>6, <2>2 DEF Moves
<1>8. CASE ConnectTimesOut
  <2>1. connHandle \in Handle /\ CloseLink(connHandle)
    BY <1>8 DEF ConnectTimesOut, HandlersType
  <2>2. Stays \/ Adds(Closed(connHandle))
    BY <1>3, <1>5, <2>1, CloseMoves
  <2> QED BY <1>3, <1>6, <2>1, <2>2, Events, AboutIs DEF Moves
<1> QED BY <1>7, <1>8

\* The handlers of SCAN, CONNECT and PAIR.
LEMMA EventMoves ==
  ASSUME NcpType, LoopType, Phase, LoopAt, ScanEvent \/ ConnectEvent \/ PairEvent
  PROVE  Phase' /\ LoopAt' /\ Moves
<1> USE DEF timers, host, conn, ncp, clients
<1>1. UNCHANGED <<booted, up, reset, link, evq>>
  BY DEF ScanEvent, scan_cleanup, ConnectEvent, PairEvent
<1>2. SameLinks
  BY <1>1 DEF SameLinks, Linked
<1>3. BootQueued' <=> BootQueued
  BY <1>1 DEF BootQueued
<1>4. ASSUME Unapplied' = Unapplied, UNCHANGED table, up \/ UNCHANGED adv, LoopAt',
             evt' = evt \/ evt' = NoEvent
      PROVE  Phase' /\ LoopAt' /\ Moves
  <2>1. Stays
    BY <1>1, <1>2, <1>4, StaysHere DEF SameLinks
  <2>2. Phase'
    BY <1>1, <1>3, <1>4, PhaseKeeps
  <2> QED BY <1>4, <2>1, <2>2 DEF Moves
<1>5. CASE ScanEvent
  <2>1. pc = "scan_event" /\ UNCHANGED <<table, adv>>
        /\ GoOn(EventHandler(evt, FALSE, FALSE))
    BY <1>5 DEF ScanEvent, scan_cleanup
  <2> QED BY <1>4, <2>1, GoesLoop, GoesUnapplied
<1>6. CASE ConnectEvent /\ evt.kind # "opened"
  <2>1. pc = "connect_event" /\ UNCHANGED <<table, adv>>
        /\ GoOn(EventHandler(evt, FALSE, FALSE))
    BY <1>6 DEF ConnectEvent
  <2> QED BY <1>4, <1>6, <2>1, GoesLoop, GoesUnapplied
<1>7. ASSUME evt.kind \in {"opened", "closed"}, pc \in {"connect_event", "pair_event"},
             pc' = "select", evt' = NoEvent,
             \/ /\ pc = "connect_event" /\ evt.kind = "opened"
                /\ connection_opened(evt.conn, evt.addr)
             \/ pc = "pair_event" /\ evt.kind = "closed" /\ connection_closed(evt.conn)
      PROVE  Phase' /\ LoopAt' /\ Moves
  <2>1. booted
    BY <1>7 DEF Phase, NoEvent
  <2>2. Unapplied = <<evt>> /\ Unapplied' = <<>>
    BY <1>7 DEF Unapplied, NoEvent
  <2>3. Coming # <<>> /\ Head(Coming) = evt /\ Tail(Coming) = evq
    BY <2>2, ComingIs
  <2>4. \A q \in Seq(Event) : <<>> \o q = q
    OBVIOUS
  <2>5. Coming' = Tail(Coming)
    BY <1>1, <2>2, <2>3, <2>4 DEF Coming, NcpType
  <2>6. Applies
    BY <1>1, <1>2, <1>7, <2>1, <2>3, <2>5 DEF Applies
  <2>7. Phase' /\ LoopAt'
    <3>1. LoopAt'
      BY <1>7 DEF LoopAt
    <3>2. booted' /\ up' /\ ~reset'
      BY <1>1, <2>1, Zenon DEF Phase
    <3> QED BY <3>1, <3>2, Zenon DEF Phase
  <2> QED BY <2>6, <2>7 DEF Moves
<1>8. CASE ConnectEvent /\ evt.kind = "opened"
  <2>1. pc = "connect_event" /\ GoOn(EventHandler(NoEvent, FALSE, FALSE))
        /\ connection_opened(evt.conn, evt.addr)
    BY <1>8 DEF ConnectEvent
  <2>2. EventHandler(NoEvent, FALSE, FALSE) = "select"
    BY DEF EventHandler, NoEvent
  <2>3. pc' = "select" /\ evt' = NoEvent
    BY <2>1, <2>2 DEF GoOn
  <2> QED BY <1>7, <1>8, <2>1, <2>3
<1>9. CASE PairEvent
  <2>1. pc = "pair_event" /\ connection_closed(evt.conn) /\ pc' = "select" /\ evt' = NoEvent
        /\ evt.kind = "closed"
    BY <1>9 DEF PairEvent, GoOn, LoopAt
  <2> QED BY <1>7, <2>1
<1> QED BY <1>5, <1>6, <1>8, <1>9

\* The commands and the clients.
LEMMA CommandMoves ==
  ASSUME NcpType, LoopType, Phase, LoopAt, resets' = 0, resets = 0,
         RecvCommand \/ RunsCommand \/ Hang \/ Clients \/ UNCHANGED vars
  PROVE  Phase' /\ LoopAt' /\ Moves
<1> USE DEF timers, host, conn, ncp, clients
<1>1. ASSUME UNCHANGED <<evt, booted, up, reset, table, evq>>, up \/ UNCHANGED <<link, adv>>,
             Unapplied' = Unapplied, LoopAt', SameLinks
      PROVE  Phase' /\ LoopAt' /\ Moves
  <2>1. Stays /\ (BootQueued' <=> BootQueued)
    BY <1>1, StaysHere DEF SameLinks
  <2>2. Phase'
    BY <1>1, <2>1, PhaseKeeps
  <2> QED BY <1>1, <2>1, <2>2 DEF Moves
<1>2. UNCHANGED link => SameLinks
  BY DEF SameLinks, Linked
<1>3. ASSUME evt = NoEvent, evt' = NoEvent
      PROVE  Unapplied = <<>> /\ Unapplied' = <<>>
  BY <1>3 DEF Unapplied, NoEvent
<1>4. CASE RecvCommand
  <2>1. pc' \in {"single_shot", "cleanup"} /\ evt = NoEvent
        /\ UNCHANGED <<evt, booted, up, reset, table, evq, link, adv>>
    BY <1>4 DEF RecvCommand, LoopAt
  <2>2. LoopAt'
    BY <2>1 DEF LoopAt
  <2> QED BY <1>1, <1>2, <1>3, <2>1, <2>2
<1>5. CASE Show \/ Cleanup \/ Scan \/ Pair \/ ConnectReturns
  <2>1. /\ pc \in {"single_shot", "cleanup", "command"} /\ pc' \in {"select", "command"}
        /\ UNCHANGED <<evt, booted, up, reset, table, evq, link>>
    BY <1>5 DEF Show, Cleanup, scan_cleanup, Scan, Pair, ConnectReturns
  <2>2. up \/ UNCHANGED adv
    BY <1>5 DEF Show, Cleanup, scan_cleanup, Scan, Pair, ConnectReturns, Answered
  <2>3. evt = NoEvent /\ LoopAt'
    BY <2>1 DEF LoopAt
  <2> QED BY <1>1, <1>2, <1>3, <2>1, <2>2, <2>3
<1>6. CASE Set
  BY <1>6 DEF Set
<1>7. CASE Disconnect
  <2>1. /\ evt = NoEvent /\ pc' = "select" /\ UNCHANGED <<evt, booted, up, reset, table, adv>>
        /\ new.disconn \in Handle
    BY <1>7, Commands DEF Disconnect, Disconnects, LoopAt, LoopType, NoCommand
  <2>2. LoopAt'
    BY <2>1 DEF LoopAt
  <2>3. CASE UNCHANGED <<link, evq>>
    BY <1>1, <1>2, <1>3, <2>1, <2>2, <2>3
  <2>4. CASE Answered /\ CloseLink(new.disconn)
    <3>1. /\ BootQueued' <=> BootQueued
          /\ Stays \/ Adds(Closed(new.disconn))
      BY <1>3, <2>1, <2>4, CloseMoves
    <3>2. Phase'
      BY <2>1, <2>4, <3>1, PhaseKeeps DEF Answered
    <3> QED BY <2>1, <2>2, <3>1, <3>2, Events, AboutIs DEF Moves
  <2> QED BY <1>7, <2>3, <2>4 DEF Disconnect
<1>8. ASSUME NEW h \in Handle, Connect(h) PROVE Phase' /\ LoopAt' /\ Moves
  <2>1. /\ evt = NoEvent /\ pc' = "select" /\ UNCHANGED <<evt, booted, up, reset, table, evq, adv>>
        /\ up /\ link[h] = NoLink
        /\ link' = [link EXCEPT ![h] = [state |-> "pending", addr |-> new.addr]]
    BY <1>8 DEF Connect, LoopAt, Answered
  <2>2. LoopAt'
    BY <2>1 DEF LoopAt
  <2>3. SameLinks
    <3>1. PICK l : l = [state |-> "pending", addr |-> new.addr]
      OBVIOUS
    <3>2. l.state # "open" /\ link' = [link EXCEPT ![h] = l] /\ NoLink.state # "open"
      BY <2>1, <3>1 DEF NoLink
    <3>3. /\ \A g \in Handle : g # h => Linked(g)' = Linked(g)
          /\ Linked(h)' = {}
      BY <3>2, LinkedIs
    <3>4. Linked(h) = {}
      BY <2>1, <3>2 DEF Linked
    <3> QED BY <3>3, <3>4 DEF SameLinks
  <2> QED BY <1>1, <1>3, <2>1, <2>2, <2>3
<1>9. CASE Hang
  <2>1. UNCHANGED <<evt, booted, up, reset, table, evq, link, adv>> /\ pc' = "hung"
    BY <1>9 DEF Hang
  <2>2. evt = NoEvent
    <3>1. ~booted
      BY <1>9 DEF Hang, Answered, Phase
    <3> QED BY <3>1 DEF Phase
  <2>3. LoopAt'
    BY <2>1 DEF LoopAt
  <2> QED BY <1>1, <1>2, <1>3, <2>1, <2>2, <2>3
<1>10. CASE Clients \/ UNCHANGED vars
  <2>1. UNCHANGED <<pc, evt, booted, up, reset, table, evq, link, adv>>
    BY <1>10 DEF Clients, ClientSends, ClientKilled, vars
  <2>2. LoopAt'
    BY <2>1 DEF LoopAt
  <2>3. Unapplied' = Unapplied
    BY <2>1 DEF Unapplied
  <2> QED BY <1>1, <1>2, <2>1, <2>2, <2>3
<1> QED BY <1>4, <1>5, <1>6, <1>7, <1>8, <1>9, <1>10 DEF RunsCommand

\* The NCP.
LEMMA NcpMoves ==
  ASSUME NcpType, LoopType, Phase, LoopAt, resets' = 0, resets = 0, Ncp
  PROVE  Phase' /\ LoopAt' /\ Moves
<1> USE DEF timers, host, conn, ncp, clients
<1>1. LoopAt' /\ Unapplied' = Unapplied /\ UNCHANGED <<evt, booted, table>>
  BY DEF Ncp, NcpReset, NcpCrash, NcpDown, NcpBoot, NcpTick, NcpOpen, NcpClose, NcpAccept,
         LoopAt, Unapplied
<1>2. ASSUME NEW e \in Event \ {Boot}, evq' = Append(evq, e), up, UNCHANGED <<up, reset>>,
             \A h \in Handle :
                \/ ~AboutConn(e, h) /\ Linked(h)' = Linked(h)
                \/ AboutConn(e, h) /\ e.kind = "closed" /\ Linked(h)' = {}
                \/ AboutConn(e, h) /\ e.kind = "opened" /\ Linked(h)' = {e.addr} /\ Linked(h) = {}
      PROVE  Phase' /\ LoopAt' /\ Moves
  <2>1. Coming' = Append(Coming, e) /\ (BootQueued' <=> BootQueued)
    BY <1>1, <1>2, ComingAppend
  <2>2. Phase' /\ (Hears' => Hears)
    BY <1>1, <1>2, <2>1, PhaseKeeps
  <2>3. Adds(e)
    BY <1>1, <1>2, <2>1, <2>2 DEF Adds
  <2> QED BY <1>1, <2>2, <2>3 DEF Moves
<1>3. CASE NcpReset
  <2>1. reset /\ up /\ ~up' /\ ~reset' /\ ~adv' /\ link' = [h \in Handle |-> NoLink]
        /\ UNCHANGED evq
    BY <1>3 DEF NcpReset, NcpDown
  <2>2. ~booted /\ evt = NoEvent /\ table = <<>> /\ ~BootQueued
    BY <2>1 DEF Phase
  <2>3. ~BootQueued'
    BY <2>1, <2>2 DEF BootQueued
  <2>4. ~booted' /\ evt' = NoEvent /\ table' = <<>>
    BY <1>1, <2>2
  <2>5. \A h \in Handle : link'[h] = NoLink
    BY <2>1
  <2>6. Phase' /\ ~Hears'
    BY <2>1, <2>3, <2>4, <2>5, Zenon DEF Phase, Hears
  <2> QED BY <1>1, <2>6 DEF Moves
<1>4. CASE NcpCrash
  BY <1>4 DEF NcpCrash
<1>5. CASE NcpBoot
  <2>1. ~up /\ evq' = Append(evq, Boot) /\ UNCHANGED <<link, adv>>
    BY <1>5 DEF NcpBoot
  <2>2. /\ ~booted /\ evt = NoEvent /\ table = <<>> /\ ~BootQueued /\ ~reset
        /\ \A h \in Handle : link[h] = NoLink
    BY <2>1 DEF Phase
  <2>3. up' /\ ~reset'
    <3>1. up' = TRUE /\ (reset' = reset \/ reset' = FALSE)
      BY <1>5 DEF NcpBoot
    <3>2. ~reset'
      BY <2>2, <3>1, Zenon
    <3>3. up'
      BY <3>1, Zenon
    <3> QED BY <3>2, <3>3, Zenon
  <2>4. evq \in Seq(Event) /\ BootQueued'
    <3>1. evq \in Seq(Event)
      BY DEF NcpType
    <3>2. Len(evq) + 1 \in DOMAIN evq' /\ evq'[Len(evq) + 1] = Boot
      BY <2>1, <3>1, AppendElems
    <3> QED BY <3>1, <3>2 DEF BootQueued
  <2>5. ~booted' /\ evt' = NoEvent /\ table' = <<>>
    BY <1>1, <2>2
  <2>6. Phase'
    BY <2>3, <2>4, <2>5, Zenon DEF Phase
  <2>7. Coming = evq
    <3>1. Unapplied = <<>>
      BY <2>2 DEF Unapplied, NoEvent
    <3> QED BY <3>1, ComingIs
  <2>8. Coming' = Append(Coming, Boot)
    BY <1>1, <2>1, ComingAppend, Events
  <2>9. \A h \in Handle : Linked(h)' = {}
    BY <2>1, <2>2 DEF Linked, NoLink
  <2>10. Boots
    BY <1>1, <2>2, <2>7, <2>8, <2>9 DEF Boots, BootQueued
  <2> QED BY <1>1, <2>6, <2>10 DEF Moves
<1>6. ASSUME NEW t \in Timer, NcpTick(t) PROVE Phase' /\ LoopAt' /\ Moves
  <2>1. Tick(t) \in Event \ {Boot} /\ \A h \in Handle : ~AboutConn(Tick(t), h)
    BY Events DEF Tick, Boot, AboutConn
  <2>2. evq' = Append(evq, Tick(t)) /\ up /\ UNCHANGED <<up, reset, link>>
    BY <1>6 DEF NcpTick, NcpSends
  <2>3. \A h \in Handle : Linked(h)' = Linked(h)
    BY <2>2 DEF Linked
  <2> QED BY <1>2, <2>1, <2>2, <2>3
<1>7. ASSUME NEW h \in Handle, NcpOpen(h) PROVE Phase' /\ LoopAt' /\ Moves
  <2>1. /\ link[h].state = "pending" /\ UNCHANGED <<up, reset>>
        /\ link' = [link EXCEPT ![h].state = "open"]
        /\ evq' = Append(evq, Opened(h, link[h].addr))
    BY <1>7 DEF NcpOpen, NcpSends
  <2>2. PICK a \in Addr : a = link[h].addr /\ link[h] = [state |-> "pending", addr |-> a]
    <3>1. link[h] \in [state : {"pending", "open"}, addr : Addr]
      BY <2>1 DEF NcpType, Link, NoLink
    <3>2. link[h] = [state |-> link[h].state, addr |-> link[h].addr]
      BY <3>1
    <3> QED BY <2>1, <3>1, <3>2
  <2>3. PICK l : l = [state |-> "open", addr |-> a]
    OBVIOUS
  <2>4. link' = [link EXCEPT ![h] = l] /\ l.state = "open" /\ l.addr = a
    <3>1. [link[h] EXCEPT !.state = "open"] = l
      BY <2>2, <2>3
    <3>2. link' = [link EXCEPT ![h] = [link[h] EXCEPT !.state = "open"]]
      BY <2>1
    <3>3. link' = [link EXCEPT ![h] = l]
      BY <3>1, <3>2, Zenon
    <3>4. l.state = "open" /\ l.addr = a
      BY <2>3
    <3> QED BY <3>3, <3>4, Zenon
  <2>5. up
    BY <2>1 DEF Phase, NoLink
  <2>6. Linked(h) = {}
    BY <2>1 DEF Linked
  <2>7. Linked(h)' = {a} /\ \A g \in Handle : g # h => Linked(g)' = Linked(g)
    BY <2>4, LinkedIs
  <2>8. Opened(h, a) \in Event \ {Boot} /\ evq' = Append(evq, Opened(h, a))
    BY <2>1, <2>2, Events, AboutIs
  <2> QED BY <1>2, <2>1, <2>5, <2>6, <2>7, <2>8, AboutIs
<1>8. ASSUME NEW h \in Handle, NcpClose(h) PROVE Phase' /\ LoopAt' /\ Moves
  <2>1. /\ link[h] # NoLink /\ UNCHANGED <<up, reset, adv>>
        /\ link' = [link EXCEPT ![h] = NoLink]
        /\ evq' = Append(evq, Closed(h))
    BY <1>8 DEF NcpClose, NcpSends
  <2>2. up
    BY <2>1 DEF Phase
  <2>3. BootQueued' <=> BootQueued
    BY <1>1, <2>1, CloseMoves
  <2>4. Stays \/ Adds(Closed(h))
    BY <1>1, <2>1, CloseMoves
  <2>5. Phase'
    BY <1>1, <2>1, <2>2, <2>3, PhaseKeeps
  <2> QED BY <1>1, <2>4, <2>5, Events, AboutIs DEF Moves
<1>9. ASSUME NEW h \in Handle, NEW a \in Addr, NcpAccept(h, a)
      PROVE  Phase' /\ LoopAt' /\ Moves
  <2>1. /\ adv /\ link[h] = NoLink /\ UNCHANGED <<up, reset>>
        /\ link' = [link EXCEPT ![h] = [state |-> "open", addr |-> a]]
        /\ evq' = Append(evq, Opened(h, a))
    BY <1>9 DEF NcpAccept, NcpSends
  <2>2. up
    BY <2>1 DEF Phase
  <2>3. PICK l : l = [state |-> "open", addr |-> a]
    OBVIOUS
  <2>4. link' = [link EXCEPT ![h] = l] /\ l.state = "open" /\ l.addr = a
    BY <2>1, <2>3
  <2>5. Linked(h) = {}
    BY <2>1 DEF Linked, NoLink
  <2>6. Linked(h)' = {a} /\ \A g \in Handle : g # h => Linked(g)' = Linked(g)
    BY <2>4, LinkedIs
  <2>7. Opened(h, a) \in Event \ {Boot}
    BY Events, AboutIs
  <2> QED BY <1>2, <2>1, <2>2, <2>5, <2>6, <2>7, AboutIs
<1> QED BY <1>3, <1>4, <1>5, <1>6, <1>7, <1>8, <1>9 DEF Ncp

\* Every step before the NCP is reset.
LEMMA StepMoves ==
  ASSUME TypeOK, Phase, LoopAt, resets = 0, resets' = 0, [Next]_vars
  PROVE  Phase' /\ LoopAt' /\ Moves
<1>1. NcpType /\ LoopType /\ HandlersType
  BY TypeGroups
<1>2. \/ TakesEvent
      \/ Bootup \/ ScanTimer \/ ConnectTimer \/ ConnectTimesOut
      \/ ScanEvent \/ ConnectEvent \/ PairEvent
      \/ RecvCommand \/ RunsCommand \/ Hang \/ Clients \/ UNCHANGED vars
      \/ Ncp
  BY DEF Next, Host, HandlesEvent
<1> QED BY <1>1, <1>2, TakeMoves, TimerMoves, EventMoves, CommandMoves, NcpMoves

\* However the events on their way move, they stay in order.
LEMMA OrderMoves ==
  ASSUME TypeOK, TypeOK', Phase, Hears => Ordered, Moves, Hears'
  PROVE  Ordered'
<1>0. NcpType /\ LoopType /\ TableType
  BY TypeGroups
<1>1. Coming \in Seq(Event) /\ booted \in BOOLEAN
  BY <1>0, ComingIs DEF LoopType
<1>2. CASE Stays
  <2>1. /\ Coming' = Coming /\ UNCHANGED <<booted, table>> /\ Ordered
        /\ \A h \in Handle : Linked(h)' = Linked(h)
    BY <1>2 DEF Stays, SameLinks
  <2>2. \A h \in Handle : Tabled(h)' = Tabled(h) /\ (Single(h) => Single(h)')
    BY <2>1 DEF Tabled, Single, ByConn
  <2>3. \A h \in Handle : InOrder(Coming, booted, h, Linked(h), Tabled(h))'
    BY <2>1, <2>2 DEF Ordered
  <2> QED BY <2>1, <2>2, <2>3 DEF Ordered
<1>3. ASSUME NEW e \in Event \ {Boot}, Adds(e) PROVE Ordered'
  <2>1. Coming' = Append(Coming, e) /\ UNCHANGED <<booted, table>> /\ Hears /\ Ordered
    BY <1>3 DEF Adds
  <2>2. \A h \in Handle : Tabled(h)' = Tabled(h) /\ (Single(h) => Single(h)')
    BY <2>1 DEF Tabled, Single, ByConn
  <2>3. booted \/ \E j \in DOMAIN Coming : Coming[j] = Boot
    <3>1. CASE ~booted
      <4>1. evt = NoEvent /\ BootQueued
        BY <2>1, <3>1 DEF Phase, Hears
      <4>2. Unapplied = <<>>
        BY <4>1 DEF Unapplied, NoEvent
      <4>3. Coming = evq
        BY <1>0, <4>2, ComingIs
      <4> QED BY <4>1, <4>3 DEF BootQueued
    <3> QED BY <3>1
  <2>4. ASSUME NEW h \in Handle
        PROVE  InOrder(Append(Coming, e), booted, h, Linked(h)', Tabled(h))
    <3>1. \/ ~AboutConn(e, h) /\ Linked(h)' = Linked(h)
          \/ AboutConn(e, h) /\ e.kind = "closed" /\ Linked(h)' = {}
          \/ AboutConn(e, h) /\ e.kind = "opened" /\ Linked(h)' = {e.addr} /\ Linked(h) = {}
      BY <1>3 DEF Adds
    <3>2. InOrder(Coming, booted, h, Linked(h), Tabled(h))
      BY <2>1 DEF Ordered
    <3>3. PICK s, b, L, M, T : /\ s \in Seq(Event) /\ b \in BOOLEAN
                               /\ s = Coming /\ b = booted
                               /\ L = Linked(h) /\ M = Linked(h)' /\ T = Tabled(h)
      BY <1>1
    <3>4. InOrder(s, b, h, L, T) /\ (b \/ \E j \in DOMAIN s : s[j] = Boot)
          /\ (\/ ~AboutConn(e, h) /\ M = L
              \/ AboutConn(e, h) /\ e.kind = "closed" /\ M = {}
              \/ AboutConn(e, h) /\ e.kind = "opened" /\ M = {e.addr} /\ L = {})
      BY <2>3, <3>1, <3>2, <3>3
    <3>5. InOrder(Append(s, e), b, h, M, T)
      BY <3>3, <3>4, AppendInOrder
    <3> QED BY <3>3, <3>5
  <2> QED BY <2>1, <2>2, <2>4 DEF Ordered
<1>4. CASE Boots
  <2>1. /\ Coming' = Append(Coming, Boot) /\ ~booted' /\ table' = <<>>
        /\ (\A i \in DOMAIN Coming : Coming[i] # Boot)
        /\ \A h \in Handle : Linked(h)' = {}
    BY <1>4 DEF Boots
  <2>2. \A h \in Handle : Tabled(h)' = {} /\ Single(h)'
    BY <2>1 DEF Tabled, Single, ByConn
  <2>3. \A h \in Handle : InOrder(Append(Coming, Boot), FALSE, h, {}, {})
    BY <1>1, <2>1, BootInOrder
  <2>4. booted' = FALSE
    <3>1. booted' \in BOOLEAN
      BY DEF TypeOK
    <3> QED BY <2>1, <3>1
  <2> QED BY <2>1, <2>2, <2>3, <2>4 DEF Ordered
<1>5. ASSUME Coming # <<>>, Coming' = Tail(Coming), SameLinks, Ordered,
             booted' <=> booted \/ Head(Coming) = Boot, booted' \in BOOLEAN,
             NEW h \in Handle,
             \/ Tells(Coming, booted, h, 1) /\ Tabled(h)' = Says(Head(Coming))
             \/ ~Tells(Coming, booted, h, 1) /\ Tabled(h)' = Tabled(h)
      PROVE  InOrder(Coming, booted, h, Linked(h), Tabled(h))'
  <2>1. InOrder(Coming, booted, h, Linked(h), Tabled(h)) /\ Linked(h)' = Linked(h)
    BY <1>5 DEF Ordered, SameLinks
  <2>2. PICK s, b, c, L, T, U :
          /\ s \in Seq(Event) /\ b \in BOOLEAN /\ c \in BOOLEAN
          /\ s = Coming /\ b = booted /\ c = booted'
          /\ L = Linked(h) /\ T = Tabled(h) /\ U = Tabled(h)'
    BY <1>1, <1>5
  <2>3. s # <<>> /\ (c <=> b \/ Head(s) = Boot) /\ InOrder(s, b, h, L, T)
        /\ (\/ Tells(s, b, h, 1) /\ U = Says(Head(s))
            \/ ~Tells(s, b, h, 1) /\ U = T)
    BY <1>5, <2>1, <2>2
  <2>4. InOrder(Tail(s), c, h, L, U)
    BY <2>2, <2>3, TailInOrder
  <2> QED BY <1>5, <2>1, <2>2, <2>4
<1>6. Coming # <<>> => 1 \in DOMAIN Coming /\ Head(Coming) = Coming[1]
  BY <1>1, TailElems
<1>7. CASE Drops
  <2>1. /\ Coming # <<>> /\ Coming' = Tail(Coming) /\ SameLinks /\ UNCHANGED table /\ Ordered
        /\ booted' <=> booted \/ Head(Coming) = Boot
    BY <1>7 DEF Drops
  <2>2. \A h \in Handle : Tabled(h)' = Tabled(h) /\ (Single(h) => Single(h)')
    BY <2>1 DEF Tabled, Single, ByConn
  <2>3. ASSUME NEW h \in Handle PROVE ~Tells(Coming, booted, h, 1)
    <3>1. CASE Head(Coming).kind \notin {"opened", "closed"}
      BY <1>6, <2>1, <3>1 DEF Tells, AboutConn
    <3>2. CASE ~booted /\ Head(Coming) # Boot
      <4>1. \A j \in DOMAIN Coming : j <= 1 => j = 1
        BY <1>1
      <4> QED BY <1>6, <2>1, <3>2, <4>1 DEF Tells, Counts
    <3> QED BY <1>7, <3>1, <3>2 DEF Drops
  <2>4. booted' \in BOOLEAN
    BY DEF TypeOK
  <2> QED BY <1>5, <2>1, <2>2, <2>3, <2>4 DEF Ordered
<1>8. CASE Applies
  <2>1. /\ Coming # <<>> /\ Coming' = Tail(Coming) /\ SameLinks /\ booted /\ booted' = booted
        /\ Head(Coming) = evt
    BY <1>8 DEF Applies
  <2>2. Ordered
    BY <1>8, <2>1 DEF Hears
  <2>3. evt \in Event /\ evt.kind \in {"opened", "closed"}
    <3>1. evt.kind \in {"opened", "closed"}
      BY <1>8 DEF Applies
    <3> QED BY <1>0, <3>1 DEF LoopType, NoEvent
  <2>4. \A h \in Handle : Tells(Coming, booted, h, 1) <=> evt.conn = h
    BY <1>6, <2>1, <2>3 DEF Tells, Counts, AboutConn
  <2>5. PICK c \in Handle : c = evt.conn
    BY <2>3, EventKinds
  <2>6. /\ Tabled(c)' = Says(evt) /\ Single(c)'
        /\ \A g \in Handle : g # c => Tabled(g)' = Tabled(g) /\ (Single(g) => Single(g)')
    <3>1. CASE evt.kind = "opened" /\ connection_opened(evt.conn, evt.addr)
      <4>1. PICK a \in Addr : a = evt.addr
        BY <2>3, <3>1, EventKinds
      <4>2. InOrder(Coming, booted, c, Linked(c), Tabled(c))
        BY <2>2 DEF Ordered
      <4>3. Tells(Coming, booted, c, 1)
        BY <2>4, <2>5
      <4>4. PICK s, b, L, T : /\ s \in Seq(Event) /\ b \in BOOLEAN
                              /\ s = Coming /\ b = booted
                              /\ L = Linked(c) /\ T = Tabled(c)
        BY <1>1
      <4>5. InOrder(s, b, c, L, T) /\ s # <<>> /\ Tells(s, b, c, 1) /\ Head(s).kind = "opened"
        BY <2>1, <3>1, <4>2, <4>3, <4>4
      <4>6. T = {}
        BY <4>4, <4>5, OpensFree
      <4>7. ByConn(c) = {}
        BY <4>4, <4>6 DEF Tabled
      <4>8. connection_opened(c, a)
        BY <2>5, <3>1, <4>1 DEF connection_opened
      <4>9. /\ Tabled(c)' = {a} /\ Single(c)'
            /\ \A g \in Handle : g # c => Tabled(g)' = Tabled(g) /\ (Single(g) => Single(g)')
        BY <1>0, <4>7, <4>8, OpenedTable
      <4> QED BY <3>1, <4>1, <4>9 DEF Says
    <3>2. CASE evt.kind = "closed" /\ connection_closed(evt.conn)
      <4>1. Single(c)
        BY <2>2 DEF Ordered
      <4>2. connection_closed(c)
        BY <2>5, <3>2
      <4>3. /\ Tabled(c)' = {} /\ Single(c)'
            /\ \A g \in Handle : g # c => Tabled(g)' = Tabled(g) /\ (Single(g) => Single(g)')
        BY <1>0, <4>1, <4>2, ClosedTable
      <4> QED BY <3>2, <4>3 DEF Says
    <3> QED BY <1>8, <3>1, <3>2 DEF Applies
  <2>7. booted' <=> booted \/ Head(Coming) = Boot
    BY <2>1
  <2>8. ASSUME NEW h \in Handle
        PROVE  InOrder(Coming, booted, h, Linked(h), Tabled(h))' /\ Single(h)'
    <3>1. Single(h)'
      BY <2>2, <2>6 DEF Ordered
    <3>2. \/ Tells(Coming, booted, h, 1) /\ Tabled(h)' = Says(Head(Coming))
          \/ ~Tells(Coming, booted, h, 1) /\ Tabled(h)' = Tabled(h)
      BY <2>1, <2>4, <2>5, <2>6
    <3>3. booted' \in BOOLEAN
      BY <1>1, <2>1
    <3> QED BY <1>5, <2>1, <2>2, <2>7, <3>1, <3>2, <3>3
  <2> QED BY <2>8 DEF Ordered
<1> QED BY <1>2, <1>3, <1>4, <1>7, <1>8 DEF Moves

\* No reboot is forgotten.
LEMMA ResetsBack ==
  ASSUME TypeOK, [Next]_vars, resets' = 0
  PROVE  resets = 0
<1> USE DEF timers, host, conn, ncp, clients
<1>1. resets \in Nat
  BY DEF TypeOK
<1>2. ~Set /\ ~NcpCrash
  BY <1>1 DEF Set, NcpCrash
<1>3. UNCHANGED resets
  <2>1. CASE TakesEvent \/ HandlesEvent \/ RecvCommand \/ Hang
    BY <2>1 DEF TakesEvent, HandlesEvent, SkipEvent, TakeEvent, Bootup, ScanTimer,
                ConnectTimer, ConnectTimesOut, ScanEvent, ConnectEvent, PairEvent,
                RecvCommand, Hang
  <2>2. CASE RunsCommand
    BY <1>2, <2>2 DEF RunsCommand, Show, Disconnect, Cleanup, Scan, Pair, ConnectReturns,
                      Connect
  <2>3. CASE Clients
    BY <2>3 DEF Clients, ClientSends, ClientKilled
  <2>4. CASE Ncp
    BY <1>2, <2>4 DEF Ncp, NcpReset, NcpBoot, NcpTick, NcpOpen, NcpClose, NcpAccept
  <2>5. CASE UNCHANGED vars
    BY <2>5 DEF vars
  <2> QED BY <2>1, <2>2, <2>3, <2>4, <2>5 DEF Next, Host
<1> QED BY <1>3

\* The events stay in order as long as the NCP is not reset.
LEMMA LinksStep ==
  ASSUME TypeOK, TypeOK', LinksInv, [Next]_vars
  PROVE  LinksInv'
<1> SUFFICES ASSUME resets' = 0 PROVE Phase' /\ LoopAt' /\ (Hears' => Ordered')
  BY DEF LinksInv
<1>1. resets = 0
  BY ResetsBack
<1>2. Phase /\ LoopAt /\ (Hears => Ordered)
  BY <1>1 DEF LinksInv
<1>3. Phase' /\ LoopAt' /\ Moves
  BY <1>1, <1>2, StepMoves
<1> QED BY <1>2, <1>3, OrderMoves

\* They are when the daemon starts: it has heard of nothing.
LEMMA LinksInit == Init => LinksInv
<1> SUFFICES ASSUME Init PROVE LinksInv
  OBVIOUS
<1>1. /\ pc = "select" /\ evt = NoEvent /\ booted = FALSE /\ table = <<>> /\ evq = <<>>
      /\ up = TRUE /\ reset = TRUE
  BY DEF Init
<1>2. ~BootQueued
  BY <1>1 DEF BootQueued
<1>3. LoopAt
  BY <1>1 DEF LoopAt
<1>4. Phase /\ ~Hears
  BY <1>1, <1>2 DEF Phase, Hears
<1> QED BY <1>3, <1>4 DEF LinksInv

\* What the table will say of h is what the events on their way leave of it.
LEMMA KnownIs ==
  ASSUME TypeOK, NEW h \in Handle, NEW L,
         View(Coming, booted, Len(Coming) + 1, h, L, Tabled(h))
  PROVE  Known(h) = L
<1>1. NcpType /\ LoopType /\ Coming \in Seq(Event)
  BY TypeGroups, ComingIs
<1>2. \A i \in DOMAIN Coming : i \in Nat /\ i >= 1 /\ i < Len(Coming) + 1
  BY <1>1
<1>3. \A i : i \in About(h) <=> i \in DOMAIN Coming /\ Tells(Coming, booted, h, i)
  <2>1. ASSUME NEW i \in DOMAIN Coming
        PROVE  (\E j \in 1 .. i : Coming[j] = Boot)
                 <=> \E j \in DOMAIN Coming : j <= i /\ Coming[j] = Boot
    <3>1. \A j : j \in 1 .. i <=> j \in DOMAIN Coming /\ j <= i
      BY <1>1
    <3> QED BY <3>1
  <2> QED BY <2>1 DEF About, Tells, AboutConn, Counts
<1>4. CASE L = Tabled(h) /\ \A i \in DOMAIN Coming :
                              i < Len(Coming) + 1 => ~Tells(Coming, booted, h, i)
  <2>1. About(h) = {}
    BY <1>2, <1>3, <1>4
  <2> QED BY <1>4, <2>1 DEF Known, Tabled
<1>5. ASSUME NEW i \in DOMAIN Coming, Tells(Coming, booted, h, i), Says(Coming[i]) = L,
             \A j \in DOMAIN Coming :
               j < Len(Coming) + 1 /\ Tells(Coming, booted, h, j) => j <= i
      PROVE  Known(h) = L
  <2>1. i \in About(h) /\ \A j \in About(h) : j <= i
    BY <1>2, <1>3, <1>5
  <2>2. \A k : k \in About(h) => k \in Nat
    BY <1>2, <1>3
  <2>3. \A k \in About(h) : (\A j \in About(h) : j <= k) => k = i
    BY <2>1, <2>2
  <2> DEFINE last == CHOOSE k \in About(h) : \A j \in About(h) : j <= k
  <2>4. last \in About(h) /\ \A j \in About(h) : j <= last
    BY <2>1
  <2>5. last = i
    BY <2>3, <2>4
  <2>6. About(h) # {}
    BY <2>1
  <2>7. Known(h) = IF Coming[last].kind = "opened" THEN {Coming[last].addr} ELSE {}
    BY <2>6 DEF Known
  <2> HIDE DEF last
  <2> QED BY <1>5, <2>5, <2>7 DEF Says
<1> QED BY <1>4, <1>5 DEF View

\* Without resets connection_list holds each open connection of the NCP once,
\* and nothing else, up to the events on their way.
THEOREM TableFollows == Spec => []TableFollowsLinks
<1>1. TypeOK /\ TypeOK' /\ LinksInv /\ [Next]_vars => LinksInv'
  BY LinksStep
<1>2. TypeOK /\ LinksInv => TableFollowsLinks
  <2> SUFFICES ASSUME TypeOK, LinksInv, resets = 0, booted \/ BootQueued, NEW h \in Handle
               PROVE  /\ Known(h) = Linked(h)
                      /\ \A i, j \in ByConn(h) : i = j
    BY DEF TableFollowsLinks, Linked
  <2>1. Ordered
    BY DEF LinksInv, Hears
  <2>2. View(Coming, booted, Len(Coming) + 1, h, Linked(h), Tabled(h)) /\ Single(h)
    BY <2>1 DEF Ordered, InOrder
  <2> QED BY <2>2, KnownIs DEF Single
<1> QED BY <1>1, <1>2, LinksInit, TypeCorrect, PTL DEF Spec

-----------------------------------------------------------------------------
(* The timer of CONNECT and the connection it closes *)

\* While the timer of CONNECT is listed, the connection it was started for is
\* not in the table, unless the event that removes it is on its way.
Leaves == \E i \in DOMAIN Coming : Coming[i] = Closed(connHandle)
SpareInv == resets = 0 /\ Listed("connect")
              => connRunning /\ (ByConn(connHandle) # {} => Leaves)

\* A handler that is no start of the timer.
Waits == /\ UNCHANGED connHandle
         /\ Listed("connect")' => Listed("connect") /\ connRunning'
         /\ Listed("connect")' /\ pc = "connect_event" /\ pc' # pc /\ evt.kind = "opened"
              => evt.conn # connHandle


\* Every step but the start of the timer is none.
LEMMA WaitsNext ==
  ASSUME TypeOK, Once, Listed("connect") => connRunning, [Next]_vars,
         \A h \in Handle : ~Connect(h)
  PROVE  Waits
<1> USE DEF timers, host, conn, ncp, clients
<1>1. TimersType /\ "scan" \in Timer /\ "connect" \in Timer /\ "scan" # "connect"
  BY TimersAssumption DEF TypeOK, TimersType
<1>2. listed["connect"] \in Nat /\ listed["connect"] <= 1
  BY <1>1 DEF TimersType, Once
<1>3. ASSUME listed'["connect"] = listed["connect"], UNCHANGED <<connRunning, connHandle>>,
             pc # "connect_event" \/ pc' = pc
      PROVE  Waits
  BY <1>3 DEF Waits, Listed
<1>4. ASSUME listed'["connect"] = 0, UNCHANGED connHandle PROVE Waits
  BY <1>4 DEF Waits, Listed
<1>5. ASSUME hw_timer_del("scan") \/ hw_timer_list_update("scan") \/ hw_timer_add("scan", ScanTimeout)
      PROVE  listed'["connect"] = listed["connect"]
  BY <1>1, <1>5 DEF hw_timer_del, hw_timer_list_update, hw_timer_add, TimersType
<1>6. CASE Bootup
  <2>1. listed'["connect"] = 0 /\ UNCHANGED connHandle
    BY <1>1, <1>6 DEF Bootup, hw_timer_list_clear
  <2> QED BY <1>4, <2>1
<1>7. CASE ScanTimer \/ ScanEvent \/ Cleanup \/ Scan
  <2>1. UNCHANGED listed \/ listed'["connect"] = listed["connect"]
    BY <1>5, <1>7 DEF ScanTimer, ScanEvent, scan_cleanup, Cleanup, Scan
  <2>2. UNCHANGED <<connRunning, connHandle>> /\ pc # "connect_event"
    BY <1>7 DEF ScanTimer, ScanEvent, Cleanup, Scan
  <2> QED BY <1>3, <2>1, <2>2
<1>8. CASE ConnectTimer
  <2>1. listed'["connect"] = listed["connect"] /\ UNCHANGED <<connRunning, connHandle>>
        /\ pc = "timer"
    BY <1>1, <1>8 DEF ConnectTimer, hw_timer_list_update, TimersType
  <2> QED BY <1>3, <2>1
<1>9. CASE ConnectTimesOut
  <2>1. listed["connect"] > 0 /\ listed'["connect"] = listed["connect"] - 1 /\ UNCHANGED connHandle
    BY <1>1, <1>9 DEF ConnectTimesOut, hw_timer_list_update, TimersType, Ends, Listed
  <2>2. listed'["connect"] = 0
    BY <1>2, <2>1
  <2> QED BY <1>4, <2>1, <2>2
<1>10. CASE ConnectEvent
  <2>1. CASE Established /\ Connected
    <3>1. listed'["connect"] = (IF listed["connect"] > 0 THEN listed["connect"] - 1 ELSE listed["connect"])
          /\ UNCHANGED connHandle
      BY <1>1, <1>10, <2>1 DEF ConnectEvent, Connected, hw_timer_del, TimersType
    <3>2. listed'["connect"] = 0
      BY <1>2, <3>1
    <3> QED BY <1>4, <3>1, <3>2
  <2>2. CASE ~Established /\ UNCHANGED <<timers, connRunning>>
    <3>1. UNCHANGED <<listed, connRunning, connHandle>>
      BY <1>10, <2>2 DEF ConnectEvent
    <3>2. connRunning /\ evt.kind = "opened" => evt.conn # connHandle
      BY <2>2 DEF Established
    <3> QED BY <3>1, <3>2 DEF Waits, Listed
  <2> QED BY <1>10, <2>1, <2>2 DEF ConnectEvent
<1>11. CASE ConnectReturns
  <2>1. UNCHANGED <<listed, connHandle>> /\ connRunning' /\ pc # "connect_event"
    BY <1>11 DEF ConnectReturns, SetCount
  <2> QED BY <2>1 DEF Waits, Listed
<1>12. CASE TakesEvent \/ PairEvent \/ RecvCommand \/ Show \/ Set \/ Disconnect \/ Pair
  <2>1. UNCHANGED <<listed, connRunning, connHandle>> /\ pc # "connect_event"
    BY <1>12 DEF TakesEvent, SkipEvent, TakeEvent, PairEvent, RecvCommand, Show, Set,
                 Disconnect, Disconnects, Pair
  <2> QED BY <1>3, <2>1
<1>13. CASE Hang \/ Clients \/ Ncp \/ UNCHANGED vars
  <2>1. UNCHANGED <<listed, connRunning, connHandle>>
    BY <1>13 DEF Hang, Clients, ClientSends, ClientKilled, Ncp, NcpReset, NcpCrash, NcpDown,
                 NcpBoot, NcpTick, NcpOpen, NcpClose, NcpAccept, vars
  <2>2. pc # "connect_event" \/ pc' = pc
    BY <1>13 DEF Hang, SendsCommand, Disconnects, Clients, ClientSends, ClientKilled, Ncp,
                 NcpReset, NcpCrash, NcpDown, NcpBoot, NcpTick, NcpOpen, NcpClose, NcpAccept,
                 vars
  <2> QED BY <1>3, <2>1, <2>2
<1> QED
  BY <1>6, <1>7, <1>8, <1>9, <1>10, <1>11, <1>12, <1>13
  DEF Next, Host, HandlesEvent, RunsCommand

\* Every step keeps the connection that the timer would close out of the table.
LEMMA SpareStep ==
  ASSUME TypeOK, TypeOK', Once, LinksInv, SpareInv, [Next]_vars
  PROVE  SpareInv'
<1> SUFFICES ASSUME resets' = 0, Listed("connect")'
             PROVE  connRunning' /\ (ByConn(connHandle)' # {} => Leaves')
  BY DEF SpareInv
<1>1. resets = 0
  BY ResetsBack
<1>2. Phase /\ LoopAt /\ (Hears => Ordered)
  BY <1>1 DEF LinksInv
<1>3. Phase' /\ LoopAt' /\ Moves
  BY <1>1, <1>2, StepMoves
<1>4. Listed("connect") => connRunning
  BY <1>1 DEF SpareInv
<1>5. NcpType /\ LoopType /\ TableType /\ Coming \in Seq(Event)
  BY TypeGroups, ComingIs
<1>6. ASSUME NEW h \in Handle, Connect(h)
      PROVE  connRunning' /\ (ByConn(connHandle)' # {} => Leaves')
  <2>1. /\ connRunning' /\ connHandle' = h /\ link[h] = NoLink
        /\ UNCHANGED <<table, evq, evt>> /\ pc = "command" /\ pc' = "select"
    BY <1>6 DEF Connect
  <2>2. evt = NoEvent
    BY <1>2, <2>1 DEF LoopAt
  <2>3. Coming' = Coming
    BY <2>1, <2>2 DEF Coming, Unapplied, NoEvent
  <2>4. ByConn(connHandle)' = ByConn(h)
    BY <2>1 DEF ByConn
  <2>5. ASSUME ByConn(h) # {} PROVE \E i \in DOMAIN Coming : Coming[i] = Closed(h)
    <3>1. Hears
      BY <1>2, <2>5 DEF ByConn, Phase, Hears
    <3>2. View(Coming, booted, Len(Coming) + 1, h, Linked(h), Tabled(h))
      BY <1>2, <3>1 DEF Ordered, InOrder
    <3>3. Linked(h) = {} /\ Tabled(h) # {}
      BY <2>1, <2>5 DEF Linked, NoLink, Tabled
    <3>4. PICK i \in DOMAIN Coming : Tells(Coming, booted, h, i) /\ Says(Coming[i]) = {}
      BY <3>2, <3>3 DEF View
    <3>5. Coming[i] \in Event /\ Coming[i].kind = "closed" /\ Coming[i].conn = h
      BY <1>5, <3>4 DEF Tells, AboutConn, Says
    <3>6. Coming[i] = Closed(h)
      BY <3>5 DEF Event, Boot, Tick, Opened, Closed
    <3> QED BY <3>6
  <2> QED BY <2>1, <2>3, <2>4, <2>5 DEF Leaves
<1>7. ASSUME \A h \in Handle : ~Connect(h)
      PROVE  connRunning' /\ (ByConn(connHandle)' # {} => Leaves')
  <2>1. Waits
    BY <1>4, <1>7, WaitsNext
  <2>2. PICK c \in Handle : c = connHandle
    BY DEF TypeOK
  <2>3. connHandle' = c /\ connRunning' /\ Listed("connect")
    BY <2>1, <2>2 DEF Waits
  <2>4. ByConn(c) # {} => \E i \in DOMAIN Coming : Coming[i] = Closed(c)
    BY <1>1, <2>2, <2>3 DEF SpareInv, Leaves
  <2>5. SUFFICES ASSUME ByConn(c)' # {} PROVE \E i \in DOMAIN Coming' : Coming'[i] = Closed(c)
    BY <2>2, <2>3 DEF ByConn, Leaves
  <2>6. CASE Stays
    BY <2>4, <2>5, <2>6 DEF Stays, ByConn
  <2>7. ASSUME NEW e \in Event \ {Boot}, Adds(e)
        PROVE  \E i \in DOMAIN Coming' : Coming'[i] = Closed(c)
    <3>1. ByConn(c)' = ByConn(c) /\ Coming' = Append(Coming, e)
      BY <2>7 DEF Adds, ByConn
    <3>2. \A i \in DOMAIN Coming : i \in DOMAIN Coming' /\ Coming'[i] = Coming[i]
      BY <1>5, <3>1, AppendElems
    <3> QED BY <2>4, <2>5, <3>1, <3>2
  <2>8. ASSUME Coming # <<>>, Coming' = Tail(Coming), Head(Coming) # Closed(c), ByConn(c) # {}
        PROVE  \E i \in DOMAIN Coming' : Coming'[i] = Closed(c)
    <3>1. /\ \A i \in DOMAIN Coming : i # 1 => i - 1 \in DOMAIN Coming'
          /\ \A i \in DOMAIN Coming' : Coming'[i] = Coming[i + 1]
          /\ DOMAIN Coming \subseteq Nat /\ Head(Coming) = Coming[1]
      BY <1>5, <2>8, TailElems
    <3>2. PICK i \in DOMAIN Coming : Coming[i] = Closed(c)
      BY <2>4, <2>8
    <3>3. i # 1 /\ i \in Nat
      BY <2>8, <3>1, <3>2
    <3>4. (i - 1) + 1 = i /\ i - 1 \in DOMAIN Coming'
      BY <3>1, <3>3
    <3>5. Coming'[i - 1] = Coming[(i - 1) + 1]
      BY <3>1, <3>4
    <3> QED BY <3>2, <3>4, <3>5
  <2>9. Closed(c).kind = "closed" /\ Closed(c).conn = c
    BY DEF Closed
  <2>10. CASE Drops
    <3>1. ByConn(c) # {} /\ table # <<>>
      BY <2>5, <2>10 DEF Drops, ByConn
    <3>2. Coming # <<>> /\ Coming' = Tail(Coming) /\ Head(Coming) # Closed(c)
      BY <2>9, <2>10, <3>1 DEF Drops
    <3> QED BY <2>8, <3>1, <3>2
  <2>11. CASE Applies
    <3>1. /\ Coming # <<>> /\ Coming' = Tail(Coming) /\ booted /\ Head(Coming) = evt
          /\ pc' # pc /\ Ordered
      BY <1>2, <2>11 DEF Applies, Hears
    <3>2. evt \in Event /\ evt.kind \in {"opened", "closed"}
      <4>1. evt.kind \in {"opened", "closed"}
        BY <2>11 DEF Applies
      <4> QED BY <1>5, <4>1 DEF LoopType, NoEvent
    <3>3. PICK h \in Handle : h = evt.conn
      BY <3>2, EventKinds
    <3>4. CASE evt.kind = "opened" /\ connection_opened(evt.conn, evt.addr)
      <4>1. h # c
        BY <2>1, <2>2, <2>11, <3>1, <3>3, <3>4 DEF Waits, Applies
      <4>2. PICK a \in Addr : a = evt.addr
        BY <3>2, <3>4, EventKinds
      <4>3. ByConn(h) = {}
        <5>1. InOrder(Coming, booted, h, Linked(h), Tabled(h))
          BY <3>1 DEF Ordered
        <5>2. 1 \in DOMAIN Coming /\ Coming[1] = evt
          BY <1>5, <3>1, TailElems
        <5>3. Tells(Coming, booted, h, 1)
          BY <3>1, <3>2, <3>3, <5>2 DEF Tells, Counts, AboutConn
        <5>4. PICK s, b, L, T : /\ s \in Seq(Event) /\ b \in BOOLEAN
                                /\ s = Coming /\ b = booted
                                /\ L = Linked(h) /\ T = Tabled(h)
          BY <1>5 DEF LoopType
        <5>5. InOrder(s, b, h, L, T) /\ s # <<>> /\ Tells(s, b, h, 1) /\ Head(s).kind = "opened"
          BY <3>1, <3>4, <5>1, <5>3, <5>4
        <5>6. T = {}
          BY <5>4, <5>5, OpensFree
        <5> QED BY <5>4, <5>6 DEF Tabled
      <4>4. connection_opened(h, a)
        BY <3>3, <3>4, <4>2 DEF connection_opened
      <4>5. Tabled(c)' = Tabled(c)
        BY <1>5, <4>1, <4>3, <4>4, OpenedTable
      <4>6. ByConn(c) # {}
        <5>1. Tabled(c)' # {}
          BY <2>5 DEF Tabled
        <5> QED BY <4>5, <5>1 DEF Tabled
      <4>7. Head(Coming) # Closed(c)
        BY <2>9, <3>1, <3>4
      <4> QED BY <2>8, <3>1, <4>6, <4>7
    <3>5. CASE evt.kind = "closed" /\ connection_closed(evt.conn)
      <4>1. connection_closed(h) /\ Single(h)
        BY <3>1, <3>3, <3>5 DEF Ordered
      <4>2. h # c
        BY <1>5, <2>5, <4>1, ClosedTable
      <4>3. Tabled(c)' = Tabled(c)
        BY <1>5, <4>1, <4>2, ClosedTable
      <4>4. ByConn(c) # {}
        <5>1. Tabled(c)' # {}
          BY <2>5 DEF Tabled
        <5> QED BY <4>3, <5>1 DEF Tabled
      <4>5. Head(Coming) # Closed(c)
        BY <2>9, <3>1, <3>3, <4>2
      <4> QED BY <2>8, <3>1, <4>4, <4>5
    <3> QED BY <2>11, <3>4, <3>5 DEF Applies
  <2>12. CASE Boots \/ ~Hears'
    <3>1. table' = <<>>
      <4>1. CASE Boots
        BY <4>1 DEF Boots
      <4>2. CASE ~Hears'
        BY <1>3, <4>2 DEF Phase, Hears
      <4> QED BY <2>12, <4>1, <4>2
    <3>2. ByConn(c)' = {}
      BY <3>1 DEF ByConn
    <3> QED BY <2>5, <3>2
  <2> QED BY <1>3, <2>6, <2>7, <2>10, <2>11, <2>12 DEF Moves
<1> QED BY <1>6, <1>7

\* Without resets a connection attempt that times out closes no connection the
\* daemon has been told of.
THEOREM TimeoutsSpare == Spec => TimeoutSparesOpen
<1>1. Init => Once /\ ListedArmed /\ SpareInv
  BY TimersAssumption DEF Init, HwTimerInit, Once, ListedArmed, SpareInv, Listed
<1>2. TypeOK /\ Once /\ ListedArmed /\ [Next]_vars => Once' /\ ListedArmed'
  BY ArmedNext
<1>3. TypeOK /\ TypeOK' /\ LinksInv /\ [Next]_vars => LinksInv'
  BY LinksStep
<1>4. TypeOK /\ TypeOK' /\ Once /\ LinksInv /\ SpareInv /\ [Next]_vars => SpareInv'
  BY SpareStep
<1>5. TypeOK /\ LinksInv /\ SpareInv
        => [resets = 0 /\ ConnectTimesOut /\ link[connHandle].state = "open"
              => About(connHandle) # {}]_vars
  <2> SUFFICES ASSUME TypeOK, LinksInv, SpareInv, resets = 0, ConnectTimesOut,
                      link[connHandle].state = "open", About(connHandle) = {}
               PROVE  FALSE
    OBVIOUS
  <2>1. Phase /\ LoopAt /\ (Hears => Ordered)
    BY DEF LinksInv
  <2>2. booted /\ Listed("connect")
    BY <2>1 DEF ConnectTimesOut, Phase, Tick, NoEvent, Ends
  <2>3. PICK c \in Handle : c = connHandle
    BY DEF TypeOK
  <2>4. Known(c) = Linked(c) /\ Linked(c) # {}
    <3>1. View(Coming, booted, Len(Coming) + 1, c, Linked(c), Tabled(c))
      BY <2>1, <2>2 DEF Hears, Ordered, InOrder
    <3> QED BY <2>3, <3>1, KnownIs DEF Linked
  <2>5. ByConn(c) # {}
    BY <2>3, <2>4 DEF Known
  <2>6. PICK i \in DOMAIN Coming : Coming[i] = Closed(c)
    BY <2>2, <2>3, <2>5 DEF SpareInv, Leaves
  <2>7. i \in About(c)
    BY <2>2, <2>6 DEF About, Closed
  <2> QED BY <2>3, <2>7
<1> QED BY <1>1, <1>2, <1>3, <1>4, <1>5, LinksInit, TypeCorrect, PTL
     DEF Spec, TimeoutSparesOpen
=============================================================================
