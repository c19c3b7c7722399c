----------------------------- MODULE BglibProofs -----------------------------
(***************************************************************************)
(* Proofs about Bglib for every queue length, set of events, set of        *)
(* commands and bound: the ring of gecko_bglib.c implements EventFifo, and *)
(* the responses are paired with the commands they answer.                 *)
(***************************************************************************)
EXTENDS Bglib, SequenceTheorems, TLAPS

-----------------------------------------------------------------------------
(* The invariants *)

\* What makes the ring a queue: the waiting slots hold events; the event that
\* is being handled is in the slot just behind gecko_queue_r, the one slot
\* the test of gecko_bglib.c:28 never lets gecko_queue_w pass; and evt is
\* held exactly while the UART branch of the loop runs.
RingInv ==
  /\ \A k \in 0 .. Count(r, w) - 1 : queue[Slot(r, k)] \in Event
  /\ cur \in Slots => r = Succ(cur) /\ queue[cur] \in Event
  /\ pc \in {"dispatch", "handle"} => cur # NoSlot
  /\ pc \in {"select", "peek", "ctl", "command"} => cur = NoSlot
  /\ pc = "wait" => /\ back \in {"handle", "command"}
                    /\ back = "handle" <=> cur # NoSlot

\* What pairs responses with commands: framing is not lost; there is at most
\* one command or response on its way, only while the daemon waits, and it is
\* the one the daemon waits for.
PairInv ==
  clean =>
    /\ late = <<>>
    /\ \A i \in 1 .. Len(wire) : wire[i].kind \in {"evt", "rsp"}
    /\ \A i \in 1 .. Len(wire) : wire[i].kind = "rsp" =>
         /\ pc = "wait" /\ wire[i].id = sent
         /\ \A j \in 1 .. Len(wire) : wire[j].kind = "rsp" => i = j
         /\ \A j \in 1 .. Len(cmdq) : cmdq[j] = "reset"
    /\ \A i \in 1 .. Len(cmdq) : cmdq[i] # "reset" =>
         /\ pc = "wait" /\ cmdq[i] = sent
         /\ \A j \in 1 .. Len(cmdq) : cmdq[j] # "reset" => i = j
    /\ ResponseIsOwn

-----------------------------------------------------------------------------
\* Succ without the modulus: the next slot, and 0 after the last.
LEMMA SuccDef ==
  \A i \in Slots : Succ(i) = IF i = QLEN - 1 THEN 0 ELSE i + 1
<1> TAKE i \in Slots
<1>1. QLEN \in Nat /\ QLEN > 0 /\ i \in Nat /\ i < QLEN
  BY QLENAssumption DEF Slots
<1>2. CASE i = QLEN - 1
  BY <1>1, <1>2 DEF Succ
<1>3. CASE i # QLEN - 1
  BY <1>1, <1>3 DEF Succ
<1> QED BY <1>2, <1>3

\* Going round the ring stays in the ring.
LEMMA SuccType == \A i \in Slots : Succ(i) \in Slots
BY SuccDef, QLENAssumption DEF Slots

-----------------------------------------------------------------------------
(* Types *)

\* What is left of a message is a sequence of messages.
LEMMA DebrisType ==
  ASSUME NEW n \in Int, n <= MaxDebris
  PROVE  \A d \in Debris(n) : d \in Seq(Message)
<1>1. \A m \in 1 .. n : Junk(m) \in Message
  BY BoundsAssumption DEF Junk, Message
<1>2. <<>> \in Seq(Message) /\ \A x \in Message : <<x>> \in Seq(Message)
  OBVIOUS
<1> QED BY <1>1, <1>2 DEF Debris

\* The daemon starts with values of the right types.
LEMMA TypeInit == Init => TypeOK
<1> SUFFICES ASSUME Init PROVE TypeOK
  OBVIOUS
<1>1. clean \in BOOLEAN
  BY Zenon DEF Init
<1>2. wire \in Seq(Message)
  BY DEF Init
<1>3. late \in Seq(Message)
  <2>1. PICK d \in Debris(MaxDebris), s \in {<<>>} \cup {<<RspMsg(c)>> : c \in Command} :
          late = d \o s
    BY DEF Init
  <2>2. d \in Seq(Message)
    BY DebrisType, BoundsAssumption
  <2>3. \A c \in Command : RspMsg(c) \in Message
    BY DEF RspMsg, Message, Request
  <2>4. <<>> \in Seq(Message) /\ \A x \in Message : <<x>> \in Seq(Message)
    OBVIOUS
  <2>5. s \in Seq(Message)
    BY <2>3, <2>4
  <2> HIDE DEF Message
  <2> QED BY <2>1, <2>2, <2>5
<1>4. /\ cmdq = <<"reset">>
      /\ queue = [s \in Slots |-> NoEvent] /\ w = 0 /\ r = 0 /\ lost = FALSE
      /\ rsp = NoCmd /\ sent = NoCmd /\ pc = "select" /\ back = "select"
      /\ cur = NoSlot /\ ready = {} /\ ncmd = 0 /\ resets = 0 /\ clients = 0
      /\ booted = FALSE /\ ctl = FALSE /\ up = TRUE /\ ticking = FALSE
      /\ unsent = OneShot
  BY Zenon DEF Init
<1>5. cmdq \in Seq(Request \cup {"reset"})
  BY <1>4
<1>6. queue \in [Slots -> Event \cup {NoEvent}] /\ w \in Slots /\ r \in Slots
  BY <1>4, QLENAssumption DEF Slots
<1>7. ncmd \in 0 .. MaxCmds /\ resets \in 0 .. MaxResets /\ clients \in 0 .. MaxClients
  BY <1>4, BoundsAssumption
<1> QED
  BY <1>1, <1>2, <1>3, <1>4, <1>5, <1>6, <1>7 DEF TypeOK

\* After a misreading there are messages and the rest of one on the wire.
LEMMA MisreadType ==
  ASSUME NEW n \in 1 .. MaxDebris, NEW next \in Misread(n), wire \in Seq(Message)
  PROVE  next \in Seq(Message)
<1>1. PICK d \in Debris(n - 1), t \in Tails : next = d \o t
  BY DEF Misread
<1>2. d \in Seq(Message)
  BY DebrisType, BoundsAssumption
<1>3. PICK k \in 2 .. Len(wire) + 1 : t = SubSeq(wire, k, Len(wire))
  BY DEF Tails
<1> HIDE DEF Message
<1>4. t \in Seq(Message)
  BY <1>3, SubSeqProperties
<1> QED BY <1>1, <1>2, <1>4

\* What a call of gecko_wait_message leaves on the wire are messages.
LEMMA WireType ==
  ASSUME wire \in Seq(Message), wire # <<>>,
         \/ wire' = Tail(wire)
         \/ Head(wire).kind = "junk" /\ wire' \in Misread(Head(wire).n)
  PROVE  wire' \in Seq(Message)
<1>1. Head(wire) \in Message
  OBVIOUS
<1>2. Head(wire).kind = "junk" => Head(wire).n \in 1 .. MaxDebris
  BY <1>1 DEF Message
<1> HIDE DEF Message
<1> QED BY <1>2, MisreadType

\* A call of gecko_wait_message that returns no message keeps the types.
LEMMA WaitMessageNullType ==
  ASSUME TypeOK, WaitMessageNull
  PROVE  /\ wire' \in Seq(Message)
         /\ queue' \in [Slots -> Event \cup {NoEvent}]
         /\ w' \in Slots /\ r' \in Slots
         /\ rsp' \in Request \cup {NoCmd}
         /\ lost' \in BOOLEAN
<1>1. wire # <<>> /\ wire \in Seq(Message) /\ Head(wire) \in Message
  BY DEF TypeOK, WaitMessageNull
<1>2. wire' \in Seq(Message)
  BY <1>1, WireType DEF WaitMessageNull
<1>3. Head(wire).kind = "evt" => Head(wire).id \in Event
  BY <1>1 DEF Message
<1>4. (\E e \in Event : StoreEvent(e)) \/ DropEvent \/ UNCHANGED ring
  BY <1>3 DEF WaitMessageNull
<1>5. rsp' = rsp
  BY DEF WaitMessageNull
<1>6. ASSUME NEW e \in Event, StoreEvent(e) 
      PROVE  /\ queue' \in [Slots -> Event \cup {NoEvent}]
             /\ w' \in Slots /\ r' \in Slots /\ lost' \in BOOLEAN
  BY <1>6, SuccType DEF TypeOK, StoreEvent
<1>7. CASE DropEvent
  BY <1>2, <1>5, <1>7 DEF TypeOK, DropEvent
<1>8. CASE UNCHANGED ring
  BY <1>2, <1>5, <1>8 DEF TypeOK, ring
<1> QED BY <1>2, <1>4, <1>5, <1>6, <1>7, <1>8 DEF TypeOK

\* So does a call that returns a response.
LEMMA WaitMessageResponseType ==
  ASSUME TypeOK, WaitMessageResponse
  PROVE  wire' \in Seq(Message) /\ rsp' \in Request \cup {NoCmd}
<1>1. wire # <<>> /\ wire \in Seq(Message) /\ Head(wire) \in Message
  BY DEF TypeOK, WaitMessageResponse
<1>2. wire' \in Seq(Message)
  BY <1>1, WireType DEF WaitMessageResponse
<1>3. rsp' \in Request
  BY <1>1 DEF WaitMessageResponse, Message
<1> QED BY <1>2, <1>3

\* Every step keeps the types.
LEMMA TypeStep == TypeOK /\ [Next]_vars => TypeOK'
<1> SUFFICES ASSUME TypeOK, [Next]_vars PROVE TypeOK'
  OBVIOUS
<1> USE DEF TypeOK, ring, host, ncp, rest, env
<1>1. CASE Select
  BY <1>1 DEF Select
<1>2. CASE PeekQueued
  BY <1>2, SuccType DEF PeekQueued
<1>3. CASE PeekNull
  BY <1>3 DEF PeekNull
<1>4. CASE PeekRead
  BY <1>4, WaitMessageNullType DEF PeekRead
<1>5. CASE PeekResponse
  BY <1>5, WaitMessageResponseType DEF PeekResponse, WaitMessageResponse
<1>6. CASE WaitRead
  BY <1>6, WaitMessageNullType DEF WaitRead
<1>7. CASE WaitReturn
  BY <1>7, WaitMessageResponseType DEF WaitReturn, WaitMessageResponse
<1>8. CASE DispatchSkip
  BY <1>8 DEF DispatchSkip
<1>9. CASE DispatchBoot
  <2>1. clean' \in BOOLEAN
    BY <1>9, Zenon DEF DispatchBoot, Output
  <2> QED BY <1>9, <2>1 DEF DispatchBoot, Output, Request
<1>10. CASE Dispatch
  BY <1>10 DEF Dispatch
<1>11. CASE EndHandle
  BY <1>11, BoundsAssumption DEF EndHandle
<1>12. CASE RecvCtl
  BY <1>12 DEF RecvCtl
<1>13. CASE EndCommand
  BY <1>13, BoundsAssumption DEF EndCommand
<1>14. ASSUME NEW c \in Command, SendCommand(c) PROVE TypeOK'
  <2>1. clean' \in BOOLEAN
    BY <1>14, Zenon DEF SendCommand, Output
  <2> QED BY <1>14, <2>1, BoundsAssumption DEF SendCommand, Output, Request
<1>15. ASSUME NEW clear \in BOOLEAN, SendReset(clear) PROVE TypeOK'
  <2>1. booted' \in BOOLEAN
    BY <1>15, Zenon DEF SendReset
  <2> QED BY <1>15, <2>1, BoundsAssumption DEF SendReset
<1>16. CASE ClientSend
  BY <1>16, BoundsAssumption DEF ClientSend
<1>17. CASE NcpRespond
  <2>1. Head(cmdq) \in Request
    BY <1>17 DEF NcpRespond
  <2>2. RspMsg(Head(cmdq)) \in Message
    BY <2>1 DEF RspMsg, Message
  <2>3. ticking' \in BOOLEAN
    BY <1>17, Zenon DEF NcpRespond
  <2> QED BY <1>17, <2>2, <2>3 DEF NcpRespond
<1>18. CASE NcpReset
  <2>1. cmdq' \in Seq(Request \cup {"reset"})
    BY <1>18 DEF NcpReset
  <2>2. up' \in BOOLEAN /\ ticking' \in BOOLEAN
    BY <1>18 DEF NcpReset
  <2>3. UNCHANGED <<wire, ring, host, ctl, unsent, late, rest, clean>>
    BY <1>18 DEF NcpReset
  <2> QED BY <2>1, <2>2, <2>3
<1>19. CASE NcpLose
  BY <1>19 DEF NcpLose
<1>20. CASE NcpBoot
  BY <1>20 DEF NcpBoot, EvtMsg, Message, Event
<1>21. ASSUME NEW e \in OneShot, NcpEvent(e) PROVE TypeOK'
  BY <1>21 DEF NcpEvent, NcpSend, EvtMsg, Message, Event
<1>22. CASE NcpTick
  BY <1>22 DEF NcpTick, NcpSend, EvtMsg, Message, Event
<1>23. CASE NcpLate
  <2>1. Head(late) \in Message /\ Tail(late) \in Seq(Message)
    BY <1>23 DEF NcpLate
  <2> HIDE DEF Message
  <2> QED BY <1>23, <2>1 DEF NcpLate
<1>24. CASE UNCHANGED vars
  BY <1>24 DEF vars
<1> QED
  BY <1>1, <1>2, <1>3, <1>4, <1>5, <1>6, <1>7, <1>8, <1>9, <1>10, <1>11,
     <1>12, <1>13, <1>14, <1>15, <1>16, <1>17, <1>18, <1>19, <1>20, <1>21,
     <1>22, <1>23, <1>24 DEF Next, Host, Ncp

\* Every variable keeps its type, whatever the constants.
THEOREM TypeCorrect == Spec => []TypeOK
BY TypeInit, TypeStep, PTL DEF Spec

-----------------------------------------------------------------------------
(* The ring *)

\* Slots are numbered round the ring from any slot i to any slot j; the k-th
\* slot before j is not j itself; and what the successor of either end does.
LEMMA SlotFacts ==
  ASSUME NEW i \in Slots, NEW j \in Slots
  PROVE  /\ Count(i, j) \in 0 .. QLEN - 1
         /\ Count(i, j) = 0 <=> i = j
         /\ Slot(i, 0) = i
         /\ Slot(i, Count(i, j)) = j
         /\ \A k \in 0 .. Count(i, j) - 1 :
               Slot(i, k) \in Slots /\ Slot(i, k) # j
BY QLENAssumption DEF Slots, Count, Slot

\* The slot after the k-th one from i is the (k+1)-th one from i.
LEMMA SlotSucc ==
  ASSUME NEW i \in Slots, NEW j \in Slots
  PROVE  /\ Succ(j) # i => Count(i, j) < QLEN - 1 /\ Count(i, Succ(j)) = Count(i, j) + 1
         /\ Succ(j) = i => Count(i, j) = QLEN - 1
         /\ i # j => /\ Count(Succ(i), j) = Count(i, j) - 1
                     /\ \A k \in 0 .. Count(i, j) - 2 :
                           Slot(Succ(i), k) = Slot(i, k + 1)
BY SuccDef, QLENAssumption DEF Slots, Count, Slot

\* The waiting events are a sequence of events, as long as the ring is full.
LEMMA WaitingSeq ==
  ASSUME TypeOK, RingInv
  PROVE  /\ Waiting \in Seq(Event) /\ Len(Waiting) = Count(r, w)
         /\ Count(r, w) \in Nat
<1>1. Count(r, w) \in Nat
  BY SlotFacts, QLENAssumption DEF TypeOK
<1>2. \A k \in 1 .. Count(r, w) : queue[Slot(r, k - 1)] \in Event
  BY <1>1 DEF RingInv
<1> QED BY <1>1, <1>2 DEF Waiting

\* Storing an event appends it to the queue and touches neither a waiting
\* event nor the one being handled.
LEMMA StoreAppends ==
  ASSUME TypeOK, RingInv, NEW e \in Event, StoreEvent(e)
  PROVE  /\ Count(r, w) < QLEN - 1
         /\ Waiting' = Append(Waiting, e)
         /\ \A k \in 0 .. Count(r', w') - 1 : queue'[Slot(r', k)] \in Event
         /\ cur \in Slots => queue'[cur] = queue[cur]
<1>1. /\ w \in Slots /\ r \in Slots /\ Succ(w) # r
      /\ w' = Succ(w) /\ r' = r
      /\ queue' = [queue EXCEPT ![w] = e]
      /\ queue \in [Slots -> Event \cup {NoEvent}]
  BY DEF StoreEvent, RingFull, TypeOK
<1> DEFINE n == Count(r, w)
<1>2. n \in Nat /\ n < QLEN - 1 /\ Count(r, w') = n + 1
  BY <1>1, SlotSucc, WaitingSeq
<1>3. /\ \A k \in 0 .. n - 1 : queue'[Slot(r, k)] = queue[Slot(r, k)]
      /\ queue'[Slot(r, n)] = e
  BY <1>1, SlotFacts
<1>4. \A k \in 0 .. n : queue'[Slot(r, k)] \in Event
  <2> TAKE k \in 0 .. n
  <2>1. k \in 0 .. n - 1 => queue[Slot(r, k)] \in Event
    BY DEF RingInv
  <2> QED BY <1>2, <1>3, <2>1
<1>5. cur \in Slots => queue'[cur] = queue[cur]
  BY <1>1, SuccDef DEF RingInv
<1>6. Waiting' = Append(Waiting, e)
  <2>1. Waiting' = [k \in 1 .. n + 1 |-> queue'[Slot(r, k - 1)]]
    BY <1>1, <1>2 DEF Waiting
  <2>2. Waiting' \in Seq(Event) /\ Len(Waiting') = n + 1
    BY <1>2, <1>4, <2>1
  <2>3. /\ Append(Waiting, e) \in Seq(Event)
        /\ Len(Append(Waiting, e)) = n + 1
        /\ \A k \in 1 .. n : Append(Waiting, e)[k] = Waiting[k]
        /\ Append(Waiting, e)[n + 1] = e
    BY WaitingSeq
  <2>4. \A k \in 1 .. n + 1 : Waiting'[k] = Append(Waiting, e)[k]
    <3> TAKE k \in 1 .. n + 1
    <3>1. CASE k = n + 1
      BY <1>2, <1>3, <2>1, <2>3, <3>1
    <3>2. CASE k \in 1 .. n
      <4>1. Waiting[k] = queue[Slot(r, k - 1)]
        BY <3>2 DEF Waiting
      <4>2. Waiting'[k] = queue'[Slot(r, k - 1)]
        BY <2>1
      <4>3. queue'[Slot(r, k - 1)] = queue[Slot(r, k - 1)]
        BY <1>2, <1>3, <3>2
      <4> QED BY <2>3, <3>2, <4>1, <4>2, <4>3
    <3>3. k = n + 1 \/ k \in 1 .. n
      BY <1>2
    <3> QED BY <3>1, <3>2, <3>3
  <2> HIDE DEF n
  <2> QED BY <2>2, <2>3, <2>4, SeqEqual
<1> QED BY <1>1, <1>2, <1>4, <1>5, <1>6

\* Taking the event at gecko_queue_r removes the head of the queue.
LEMMA TakeRemoves ==
  ASSUME TypeOK, RingInv, w # r, r' = Succ(r), w' = w, queue' = queue
  PROVE  /\ Waiting # <<>>
         /\ Waiting' = Tail(Waiting)
         /\ queue[r] = Head(Waiting) /\ queue[r] \in Event
         /\ \A k \in 0 .. Count(r', w') - 1 : queue'[Slot(r', k)] \in Event
<1>1. w \in Slots /\ r \in Slots
  BY DEF TypeOK
<1> DEFINE n == Count(r, w)
<1>2. /\ n \in Nat /\ n > 0 /\ Count(r', w') = n - 1 /\ Slot(r, 0) = r
      /\ \A k \in 0 .. n - 2 : Slot(r', k) = Slot(r, k + 1)
  BY <1>1, SlotFacts, SlotSucc, WaitingSeq
<1>3. \A k \in 0 .. n - 2 : queue'[Slot(r', k)] \in Event
  <2> TAKE k \in 0 .. n - 2
  <2>1. k + 1 \in 0 .. n - 1
    BY <1>2
  <2> QED BY <1>2, <2>1 DEF RingInv
<1>4. /\ Waiting \in Seq(Event) /\ Len(Waiting) = n
      /\ \A k \in 1 .. n : Waiting[k] = queue[Slot(r, k - 1)]
  BY WaitingSeq DEF Waiting
<1>5. Waiting # <<>> /\ queue[r] = Head(Waiting) /\ queue[r] \in Event
  BY <1>2, <1>4
<1>6. Waiting' = Tail(Waiting)
  <2>1. Waiting' = [k \in 1 .. n - 1 |-> queue'[Slot(r', k - 1)]]
    BY <1>2 DEF Waiting
  <2>2. \A k \in 1 .. n - 1 : queue'[Slot(r', k - 1)] = Waiting[k + 1]
    <3> TAKE k \in 1 .. n - 1
    <3>1. k - 1 \in 0 .. n - 2 /\ k + 1 \in 1 .. n /\ k + 1 - 1 = k /\ k - 1 + 1 = k
      BY <1>2
    <3>2. queue'[Slot(r', k - 1)] = queue[Slot(r, k)]
      BY <1>2, <3>1
    <3>3. Waiting[k + 1] = queue[Slot(r, k)]
      BY <1>4, <3>1
    <3> QED BY <3>2, <3>3
  <2>3. Tail(Waiting) \in Seq(Event) /\ Len(Tail(Waiting)) = n - 1
        /\ \A k \in 1 .. n - 1 : Tail(Waiting)[k] = Waiting[k + 1]
    BY <1>4, <1>5, HeadTailProperties
  <2>4. Waiting' \in Seq(Event) /\ Len(Waiting') = n - 1
        /\ \A k \in 1 .. n - 1 : Waiting'[k] = Waiting[k + 1]
    <3>1. \A k \in 1 .. n - 1 : queue'[Slot(r', k - 1)] \in Event
      BY <1>2, <1>3
    <3>2. Waiting' \in Seq(Event) /\ Len(Waiting') = n - 1
      BY <1>2, <2>1, <3>1
    <3>3. \A k \in 1 .. n - 1 : Waiting'[k] = queue'[Slot(r', k - 1)]
      BY <2>1
    <3> QED BY <2>2, <3>2, <3>3
  <2> HIDE DEF n
  <2> QED BY <2>3, <2>4, SeqEqual
<1> QED BY <1>2, <1>3, <1>5, <1>6

-----------------------------------------------------------------------------
(* The ring invariant *)

\* What a call of gecko_wait_message that returns no message does to the queue:
\* it appends an event, or drops one because there is no room, or nothing.
LEMMA WaitMessageNullRing ==
  ASSUME TypeOK, RingInv, WaitMessageNull, cur' = cur
  PROVE  /\ \A k \in 0 .. Count(r', w') - 1 : queue'[Slot(r', k)] \in Event
         /\ cur \in Slots => /\ r' = r
                             /\ queue'[cur] = queue[cur]
         /\ \/ \E e \in Event : /\ Len(Waiting) < QLEN - 1
                                /\ Waiting' = Append(Waiting, e)
                                /\ lost' = lost
            \/ Len(Waiting) = QLEN - 1 /\ Waiting' = Waiting /\ lost' = TRUE
            \/ Waiting' = Waiting /\ lost' = lost
<1>1. (\E e \in Event : StoreEvent(e)) \/ DropEvent \/ UNCHANGED ring
  <2>1. Head(wire) \in Message
    BY DEF TypeOK, WaitMessageNull
  <2>2. Head(wire).kind = "evt" => Head(wire).id \in Event
    BY <2>1 DEF Message
  <2> QED BY <2>2 DEF WaitMessageNull
<1>2. ASSUME NEW e \in Event, StoreEvent(e)
      PROVE  /\ \A k \in 0 .. Count(r', w') - 1 : queue'[Slot(r', k)] \in Event
             /\ cur \in Slots => /\ r' = r
                                 /\ queue'[cur] = queue[cur]
             /\ Len(Waiting) < QLEN - 1
             /\ Waiting' = Append(Waiting, e)
             /\ lost' = lost
  <2>1. r' = r /\ lost' = lost
    BY <1>2 DEF StoreEvent
  <2> QED BY <1>2, <2>1, StoreAppends, WaitingSeq
<1>3. CASE DropEvent
  <2>1. w \in Slots /\ r \in Slots /\ Succ(w) = r
    BY <1>3 DEF TypeOK, DropEvent, RingFull
  <2>2. Len(Waiting) = QLEN - 1
    BY <2>1, SlotSucc, WaitingSeq
  <2> QED BY <1>3, <2>2 DEF DropEvent, RingInv, Waiting
<1>4. CASE UNCHANGED ring
  BY <1>4 DEF ring, RingInv, Waiting
<1> QED BY <1>1, <1>2, <1>3, <1>4

\* The ring starts empty.
LEMMA RingInit == Init => RingInv
<1> SUFFICES ASSUME Init PROVE RingInv
  OBVIOUS
<1>1. Count(r, w) = 0
  BY DEF Init, Count
<1>2. NoSlot \notin Slots
  BY QLENAssumption DEF NoSlot, Slots
<1> QED BY <1>1, <1>2 DEF Init, RingInv

\* Every step keeps RingInv.
LEMMA RingStep == TypeOK /\ RingInv /\ [Next]_vars => RingInv'
<1> SUFFICES ASSUME TypeOK, RingInv, [Next]_vars PROVE RingInv'
  OBVIOUS
<1> USE DEF RingInv, ring, host
<1>1. CASE Select
  BY <1>1 DEF Select
<1>2. CASE PeekQueued
  <2>1. /\ w # r /\ r' = Succ(r) /\ w' = w /\ queue' = queue
        /\ cur' = r /\ pc' = "dispatch" /\ r \in Slots
    BY <1>2 DEF PeekQueued, TypeOK
  <2>2. r # NoSlot
    BY <2>1, QLENAssumption DEF Slots, NoSlot
  <2> QED BY <2>1, <2>2, TakeRemoves
<1>3. CASE PeekNull
  BY <1>3 DEF PeekNull
<1>4. CASE PeekRead
  BY <1>4, WaitMessageNullRing DEF PeekRead
<1>5. CASE PeekResponse
  <2>1. RspBuf \notin Slots /\ RspBuf # NoSlot
    BY QLENAssumption DEF Slots, NoSlot, RspBuf
  <2> QED BY <1>5, <2>1 DEF PeekResponse, WaitMessageResponse
<1>6. CASE WaitRead
  BY <1>6, WaitMessageNullRing DEF WaitRead
<1>7. CASE WaitReturn
  BY <1>7 DEF WaitReturn, WaitMessageResponse
<1>8. CASE DispatchSkip
  <2>1. NoSlot \notin Slots
    BY QLENAssumption DEF NoSlot, Slots
  <2> QED BY <1>8, <2>1 DEF DispatchSkip
<1>9. CASE DispatchBoot
  BY <1>9 DEF DispatchBoot, Output
<1>10. CASE Dispatch
  BY <1>10 DEF Dispatch
<1>11. CASE EndHandle
  <2>1. NoSlot \notin Slots
    BY QLENAssumption DEF NoSlot, Slots
  <2> QED BY <1>11, <2>1 DEF EndHandle
<1>12. CASE RecvCtl
  BY <1>12 DEF RecvCtl
<1>13. CASE EndCommand
  BY <1>13 DEF EndCommand
<1>14. ASSUME NEW c \in Command, SendCommand(c) PROVE RingInv'
  BY <1>14 DEF SendCommand, Output
<1>15. ASSUME NEW clear \in BOOLEAN, SendReset(clear) PROVE RingInv'
  BY <1>15 DEF SendReset
<1>16. CASE \/ ClientSend \/ NcpLate \/ NcpRespond \/ NcpReset \/ NcpLose
            \/ NcpBoot \/ NcpTick
  BY <1>16 DEF ClientSend, NcpLate, NcpRespond, NcpReset, NcpLose, NcpBoot, NcpTick
<1>17. ASSUME NEW e \in OneShot, NcpEvent(e) PROVE RingInv'
  BY <1>17 DEF NcpEvent
<1>18. CASE UNCHANGED vars
  BY <1>18 DEF vars
<1> QED
  BY <1>1, <1>2, <1>3, <1>4, <1>5, <1>6, <1>7, <1>8, <1>9, <1>10, <1>11,
     <1>12, <1>13, <1>14, <1>15, <1>16, <1>17, <1>18 DEF Next, Host, Ncp

\* The ring stays a queue in which the event being handled is out of reach of
\* the writer.
THEOREM RingCorrect == Spec => []RingInv
<1>1. TypeOK /\ RingInv /\ [Next]_vars => RingInv'
  BY RingStep
<1> QED BY RingInit, <1>1, TypeCorrect, PTL DEF Spec

-----------------------------------------------------------------------------
(* The ring implements the abstract queue *)

\* The empty ring is the empty queue.
LEMMA FifoInit == Init => Fifo!Init
<1> SUFFICES ASSUME Init PROVE Fifo!Init
  OBVIOUS
<1>1. Count(r, w) = 0
  BY DEF Init, Count
<1>2. Waiting = <<>>
  BY <1>1 DEF Waiting
<1>3. Evt = NoEvent
  BY QLENAssumption DEF Init, Evt, NoSlot, Slots
<1> QED BY <1>2, <1>3 DEF Init, Fifo!Init

\* Most steps are invisible: they leave the ring and evt alone.
LEMMA FifoStutter ==
  ASSUME UNCHANGED <<ring, cur>>
  PROVE  UNCHANGED Fifo!vars
BY DEF ring, Fifo!vars, Waiting, Evt

\* An event read by the peek is put in the queue and taken out again.
LEMMA FifoRead ==
  ASSUME TypeOK, RingInv, WaitMessageNull, cur' = cur
  PROVE  [Fifo!Next]_(Fifo!vars)
<1>1. Evt' = Evt
  BY WaitMessageNullRing DEF Evt
<1>2. PICK e \in Event :
        \/ /\ Len(Waiting) < QLEN - 1
           /\ Waiting' = Append(Waiting, e)
           /\ lost' = lost
        \/ Len(Waiting) = QLEN - 1 /\ Waiting' = Waiting /\ lost' = TRUE
        \/ Waiting' = Waiting /\ lost' = lost
  BY WaitMessageNullRing DEF Event
<1>3. CASE Len(Waiting) < QLEN - 1 /\ Waiting' = Append(Waiting, e) /\ lost' = lost
  BY <1>1, <1>3 DEF Fifo!Next, Fifo!Arrive
<1>4. CASE Len(Waiting) = QLEN - 1 /\ Waiting' = Waiting /\ lost' = TRUE
  BY <1>1, <1>4 DEF Fifo!Next, Fifo!Discard
<1>5. CASE Waiting' = Waiting /\ lost' = lost
  BY <1>1, <1>5 DEF Fifo!vars
<1> QED BY <1>2, <1>3, <1>4, <1>5

\* The event of the handlers is given back when their last one returns.
LEMMA FifoRelease ==
  ASSUME TypeOK, RingInv, pc \in {"dispatch", "handle"}, cur' = NoSlot, UNCHANGED ring
  PROVE  [Fifo!Next]_(Fifo!vars)
<1>1. Waiting' = Waiting /\ lost' = lost
  BY DEF ring, Waiting
<1>2. Evt' = NoEvent
  BY QLENAssumption DEF Evt, NoSlot, Slots
<1>3. CASE cur \in Slots
  <2>1. Evt # NoEvent
    BY <1>3, NamesAssumption DEF Evt, RingInv
  <2> QED BY <1>1, <1>2, <2>1 DEF Fifo!Next, Fifo!Release
<1>4. CASE cur \notin Slots
  <2>1. Evt = NoEvent
    BY <1>4 DEF Evt
  <2> QED BY <1>1, <1>2, <2>1 DEF Fifo!vars
<1> QED BY <1>3, <1>4

\* Every step of the daemon and the NCP is one of the queue, or invisible.
LEMMA FifoStep ==
  TypeOK /\ RingInv /\ [Next]_vars => [Fifo!Next]_(Fifo!vars)
<1> SUFFICES ASSUME TypeOK, RingInv, [Next]_vars
             PROVE  [Fifo!Next]_(Fifo!vars)
  OBVIOUS
<1>1. CASE PeekQueued
  <2>1. /\ w # r /\ r' = Succ(r) /\ w' = w /\ queue' = queue
        /\ cur' = r /\ lost' = lost /\ r \in Slots /\ cur = NoSlot
    BY <1>1 DEF PeekQueued, TypeOK, RingInv
  <2>2. /\ Waiting # <<>> /\ Waiting' = Tail(Waiting)
        /\ queue[r] = Head(Waiting)
    BY <2>1, TakeRemoves
  <2>3. Evt = NoEvent /\ Evt' = queue[r]
    BY <2>1, QLENAssumption DEF Evt, NoSlot, Slots
  <2> QED BY <2>1, <2>2, <2>3 DEF Fifo!Next, Fifo!Take
<1>2. CASE PeekRead \/ WaitRead
  BY <1>2, FifoRead DEF PeekRead, WaitRead
<1>3. CASE PeekResponse
  <2>1. Evt = NoEvent /\ Evt' = NoEvent
    BY <1>3, QLENAssumption
    DEF PeekResponse, RingInv, Evt, NoSlot, RspBuf, Slots
  <2>2. UNCHANGED ring
    BY <1>3 DEF PeekResponse, WaitMessageResponse
  <2> QED BY <2>1, <2>2 DEF ring, Waiting, Fifo!vars
<1>4. CASE DispatchSkip \/ EndHandle
  BY <1>4, FifoRelease DEF DispatchSkip, EndHandle
<1>5. CASE Select \/ PeekNull \/ WaitReturn \/ DispatchBoot \/ Dispatch
           \/ RecvCtl \/ EndCommand
  BY <1>5, FifoStutter
  DEF Select, PeekNull, WaitReturn, WaitMessageResponse, DispatchBoot,
      Dispatch, RecvCtl, EndCommand
<1>6. ASSUME NEW c \in Command, SendCommand(c) PROVE UNCHANGED Fifo!vars
  BY <1>6, FifoStutter DEF SendCommand
<1>7. ASSUME NEW clear \in BOOLEAN, SendReset(clear) PROVE UNCHANGED Fifo!vars
  BY <1>7, FifoStutter DEF SendReset
<1>8. CASE \/ ClientSend \/ NcpLate \/ NcpRespond \/ NcpReset \/ NcpLose
           \/ NcpBoot \/ NcpTick
  BY <1>8, FifoStutter
  DEF ClientSend, NcpLate, NcpRespond, NcpReset, NcpLose, NcpBoot, NcpTick, host
<1>9. ASSUME NEW e \in OneShot, NcpEvent(e) PROVE UNCHANGED Fifo!vars
  BY <1>9, FifoStutter DEF NcpEvent, host
<1>10. CASE UNCHANGED vars
  BY <1>10, FifoStutter DEF vars, ring
<1> QED
  BY <1>1, <1>2, <1>3, <1>4, <1>5, <1>6, <1>7, <1>8, <1>9, <1>10
  DEF Next, Host, Ncp

\* For every length of the ring, gecko_queue with its two indices is the
\* bounded queue of EventFifo, and the handlers' evt is its output.
THEOREM RingImplementsFifo == Spec => ImplementsFifo
<1>1. TypeOK /\ RingInv /\ [Next]_vars => [Fifo!Next]_(Fifo!vars)
  BY FifoStep
<1> QED BY FifoInit, <1>1, TypeCorrect, RingCorrect, PTL DEF Spec, ImplementsFifo, Fifo!Spec

-----------------------------------------------------------------------------
(* Responses *)

\* At the start nothing is on its way, or what an earlier daemon left.
LEMMA PairInit == Init => PairInv
<1> SUFFICES ASSUME Init, clean PROVE PairInv
  BY DEF PairInv
<1>1. wire = <<>> /\ late = <<>>
  BY Zenon DEF Init
<1>2. \A i \in 1 .. Len(wire) : FALSE
  BY <1>1
<1>3. Len(cmdq) = 1 /\ cmdq[1] = "reset"
  BY DEF Init
<1>4. ResponseIsOwn
  BY DEF Init, ResponseIsOwn, NoSlot, RspBuf
<1> QED BY <1>1, <1>2, <1>3, <1>4 DEF PairInv

\* No response is on its way, and no command, while the daemon does not wait.
LEMMA NothingOnItsWay ==
  ASSUME TypeOK, PairInv, clean, pc # "wait"
  PROVE  Quiet
<1>1. /\ wire \in Seq(Message) /\ cmdq \in Seq(Request \cup {"reset"})
  BY DEF TypeOK
<1>2. \A i \in 1 .. Len(wire) : wire[i].kind = "evt"
  BY DEF PairInv
<1>3. \A i \in 1 .. Len(cmdq) : cmdq[i] = "reset"
  BY DEF PairInv
<1>4. late = <<>> /\ cur # RspBuf
  BY DEF PairInv, ResponseIsOwn
<1>5. DOMAIN wire = 1 .. Len(wire) /\ DOMAIN cmdq = 1 .. Len(cmdq)
  BY <1>1
<1> QED BY <1>2, <1>3, <1>4, <1>5 DEF Quiet

\* Only the sending of a command begins a clean period, and nothing ends it.
LEMMA CleanStep ==
  ASSUME [Next]_vars
  PROVE  \/ clean' = clean
         \/ /\ DispatchBoot \/ \E c \in Command : SendCommand(c)
            /\ clean' = (clean \/ Quiet)
BY Zenon DEF Next, Host, Ncp, Select, PeekQueued, PeekNull, PeekRead, PeekResponse,
       WaitRead, WaitReturn, DispatchSkip, DispatchBoot, Dispatch, EndHandle,
       RecvCtl, EndCommand, SendCommand, SendReset, ClientSend, NcpLate, NcpRespond,
       NcpReset, NcpLose, NcpBoot, NcpEvent, NcpTick, vars, env, rest, Output

\* A command that is sent while nothing is on its way is the only one.
LEMMA PairOutput ==
  ASSUME TypeOK, PairInv, NEW c \in Request, NEW ret, pc # "wait", Output(c, ret),
         UNCHANGED <<wire, late, rsp, cur>>
  PROVE  PairInv'
<1> SUFFICES ASSUME clean' PROVE PairInv'
  BY DEF PairInv
<1>1. /\ wire \in Seq(Message) /\ cmdq \in Seq(Request \cup {"reset"})
  BY DEF TypeOK
<1>2. Quiet
  BY NothingOnItsWay DEF Output
<1>3. DOMAIN wire = 1 .. Len(wire) /\ DOMAIN cmdq = 1 .. Len(cmdq)
  BY <1>1
<1>4. /\ late = <<>> /\ cur # RspBuf
      /\ \A i \in 1 .. Len(wire) : wire[i].kind = "evt"
      /\ \A i \in 1 .. Len(cmdq) : cmdq[i] = "reset"
  BY <1>2, <1>3 DEF Quiet
<1>5. cmdq' = Append(cmdq, c) /\ sent' = c /\ pc' = "wait"
  BY DEF Output
<1>6. /\ Len(cmdq') = Len(cmdq) + 1 /\ cmdq'[Len(cmdq) + 1] = c
      /\ \A i \in 1 .. Len(cmdq) : cmdq'[i] = cmdq[i]
  BY <1>1, <1>5
<1>7. \A i \in 1 .. Len(cmdq') : cmdq'[i] # "reset" => i = Len(cmdq) + 1
  BY <1>1, <1>4, <1>6
<1>8. ResponseIsOwn'
  BY <1>4, <1>5 DEF ResponseIsOwn
<1>9. \A i \in 1 .. Len(wire') : wire'[i].kind = "evt"
  BY <1>4
<1>10. \A i \in 1 .. Len(cmdq') : cmdq'[i] # "reset" => cmdq'[i] = sent'
  BY <1>5, <1>6, <1>7
<1> QED BY <1>4, <1>5, <1>7, <1>8, <1>9, <1>10 DEF PairInv

\* Every other step keeps PairInv, too: the wait ends only with its response.
LEMMA PairStep == TypeOK /\ PairInv /\ [Next]_vars => PairInv'
<1> SUFFICES ASSUME TypeOK, PairInv, [Next]_vars, clean' PROVE PairInv'
  BY DEF PairInv
<1>1. CASE DispatchBoot
  BY <1>1, PairOutput DEF DispatchBoot, Request, ncp
<1>2. ASSUME NEW c \in Command, SendCommand(c) PROVE PairInv'
  BY <1>2, PairOutput DEF SendCommand, Request, ncp
<1> SUFFICES ASSUME ~DispatchBoot, \A c \in Command : ~SendCommand(c), clean
             PROVE  PairInv'
  BY <1>1, <1>2, CleanStep
<1>3. /\ wire \in Seq(Message) /\ cmdq \in Seq(Request \cup {"reset"})
      /\ sent \in Request \cup {NoCmd}
  BY DEF TypeOK
<1>4. ASSUME UNCHANGED <<wire, late, cmdq, rsp, sent>>, pc # "wait", pc' # "wait",
             cur' # RspBuf
      PROVE  PairInv'
  BY <1>4 DEF PairInv, ResponseIsOwn
<1>5. ASSUME WaitMessageNull, UNCHANGED <<late, cmdq, sent, pc, cur>>
      PROVE  PairInv'
  <2>1. /\ wire # <<>> /\ wire' = Tail(wire) /\ Head(wire).kind # "rsp"
        /\ rsp' = rsp
    <3>1. wire # <<>> /\ 1 \in 1 .. Len(wire) /\ Head(wire) = wire[1]
      BY <1>3, <1>5 DEF WaitMessageNull
    <3>2. Head(wire).kind # "junk"
      BY <3>1 DEF PairInv
    <3> QED BY <1>5, <3>1, <3>2 DEF WaitMessageNull
  <2>2. /\ wire' \in Seq(Message) /\ Len(wire') = Len(wire) - 1
        /\ \A i \in 1 .. Len(wire') : wire'[i] = wire[i + 1] /\ i + 1 \in 1 .. Len(wire)
    BY <1>3, <2>1
  <2>3. \A i \in 1 .. Len(wire') : wire'[i].kind = "rsp" =>
          /\ pc = "wait" /\ wire'[i].id = sent
          /\ \A j \in 1 .. Len(wire') : wire'[j].kind = "rsp" => i = j
          /\ \A j \in 1 .. Len(cmdq) : cmdq[j] = "reset"
    <3> SUFFICES ASSUME NEW i \in 1 .. Len(wire'), wire'[i].kind = "rsp"
                 PROVE  /\ pc = "wait" /\ wire'[i].id = sent
                        /\ \A j \in 1 .. Len(wire') : wire'[j].kind = "rsp" => i = j
                        /\ \A j \in 1 .. Len(cmdq) : cmdq[j] = "reset"
      OBVIOUS
    <3>1. i + 1 \in 1 .. Len(wire) /\ wire[i + 1].kind = "rsp" /\ wire[i + 1] = wire'[i]
      BY <2>2
    <3>2. /\ pc = "wait" /\ wire[i + 1].id = sent
          /\ \A j \in 1 .. Len(wire) : wire[j].kind = "rsp" => i + 1 = j
          /\ \A j \in 1 .. Len(cmdq) : cmdq[j] = "reset"
      BY <3>1 DEF PairInv
    <3>3. ASSUME NEW j \in 1 .. Len(wire'), wire'[j].kind = "rsp" PROVE i = j
      <4>1. j + 1 \in 1 .. Len(wire) /\ wire[j + 1].kind = "rsp"
        BY <2>2, <3>3
      <4> QED BY <3>2, <4>1
    <3> QED BY <3>1, <3>2, <3>3
  <2>4. \A i \in 1 .. Len(wire') : wire'[i].kind \in {"evt", "rsp"}
    BY <2>2 DEF PairInv
  <2> QED BY <1>5, <2>1, <2>3, <2>4 DEF PairInv, ResponseIsOwn
<1>6. ASSUME WaitMessageResponse, UNCHANGED <<cmdq, sent>>
      PROVE  /\ pc = "wait"
             /\ rsp' = sent
             /\ \A i \in 1 .. Len(wire') : wire'[i].kind = "evt"
             /\ \A i \in 1 .. Len(cmdq') : cmdq'[i] = "reset"
  <2>1. /\ wire # <<>> /\ wire' = Tail(wire) /\ Head(wire).kind = "rsp"
        /\ rsp' = Head(wire).id
    <3>1. wire # <<>> /\ 1 \in 1 .. Len(wire) /\ Head(wire) = wire[1]
      BY <1>3, <1>6 DEF WaitMessageResponse
    <3>2. Head(wire).kind # "junk"
      BY <3>1 DEF PairInv
    <3> QED BY <1>6, <3>1, <3>2 DEF WaitMessageResponse
  <2>2. /\ 1 \in 1 .. Len(wire) /\ Head(wire) = wire[1]
        /\ Len(wire') = Len(wire) - 1
        /\ \A i \in 1 .. Len(wire') : wire'[i] = wire[i + 1] /\ i + 1 \in 1 .. Len(wire) /\ i + 1 # 1
    BY <1>3, <2>1
  <2>3. wire[1].kind = "rsp"
    BY <2>1, <2>2
  <2>4. /\ pc = "wait" /\ wire[1].id = sent
        /\ \A j \in 1 .. Len(wire) : wire[j].kind = "rsp" => 1 = j
        /\ \A j \in 1 .. Len(cmdq) : cmdq[j] = "reset"
    BY <2>2, <2>3 DEF PairInv
  <2>5. \A i \in 1 .. Len(wire') : wire'[i].kind = "evt"
    BY <2>2, <2>4 DEF PairInv
  <2> QED BY <1>6, <2>1, <2>2, <2>4, <2>5
<1>7. ASSUME pc # "wait", cmdq' = Append(cmdq, "reset"),
             UNCHANGED <<wire, late, rsp, sent, pc, cur>>
      PROVE  PairInv'
  <2>1. /\ \A i \in 1 .. Len(wire) : wire[i].kind = "evt"
        /\ \A i \in 1 .. Len(cmdq) : cmdq[i] = "reset"
    BY <1>7 DEF PairInv
  <2>2. \A i \in 1 .. Len(cmdq') : cmdq'[i] = "reset"
    BY <1>3, <1>7, <2>1
  <2> QED BY <1>7, <2>1, <2>2 DEF PairInv, ResponseIsOwn
<1>8. ASSUME NEW e, wire' = Append(wire, EvtMsg(e)),
             UNCHANGED <<late, cmdq, rsp, sent, pc, cur>>
      PROVE  PairInv'
  <2>1. /\ Len(wire') = Len(wire) + 1 /\ wire'[Len(wire) + 1] = EvtMsg(e)
        /\ \A i \in 1 .. Len(wire) : wire'[i] = wire[i]
    BY <1>3, <1>8
  <2>2. \A i \in 1 .. Len(wire') : wire'[i].kind = "rsp" =>
          i \in 1 .. Len(wire) /\ wire[i].kind = "rsp" /\ wire'[i] = wire[i]
    BY <1>3, <2>1 DEF EvtMsg
  <2>3. \A i \in 1 .. Len(wire') : wire'[i].kind \in {"evt", "rsp"}
    BY <1>3, <2>1 DEF EvtMsg, PairInv
  <2> QED BY <1>8, <2>2, <2>3 DEF PairInv, ResponseIsOwn
<1>9. ASSUME NcpRespond PROVE PairInv'
  <2>1. /\ cmdq # <<>> /\ Head(cmdq) # "reset" /\ cmdq' = Tail(cmdq)
        /\ wire' = Append(wire, RspMsg(Head(cmdq)))
        /\ UNCHANGED <<late, rsp, sent, pc, cur>>
    BY <1>9 DEF NcpRespond, host
  <2>2. /\ 1 \in 1 .. Len(cmdq) /\ cmdq[1] = Head(cmdq)
        /\ Len(cmdq') = Len(cmdq) - 1
        /\ \A i \in 1 .. Len(cmdq') : cmdq'[i] = cmdq[i + 1] /\ i + 1 \in 1 .. Len(cmdq) /\ i + 1 # 1
    BY <1>3, <2>1
  <2>3. /\ pc = "wait" /\ cmdq[1] = sent
        /\ \A j \in 1 .. Len(cmdq) : cmdq[j] # "reset" => 1 = j
    BY <2>1, <2>2 DEF PairInv
  <2>4. \A i \in 1 .. Len(cmdq') : cmdq'[i] = "reset"
    BY <2>2, <2>3
  <2>5. \A i \in 1 .. Len(wire) : wire[i].kind = "evt"
    BY <2>1, <2>2 DEF PairInv
  <2>6. /\ Len(wire') = Len(wire) + 1
        /\ wire'[Len(wire) + 1] = RspMsg(sent)
        /\ \A i \in 1 .. Len(wire) : wire'[i] = wire[i]
    BY <1>3, <2>1, <2>2, <2>3
  <2>7. \A i \in 1 .. Len(wire') : wire'[i].kind = "rsp" =>
          i = Len(wire) + 1 /\ wire'[i].id = sent
    BY <1>3, <2>5, <2>6 DEF RspMsg
  <2>8. \A i \in 1 .. Len(wire') : wire'[i].kind \in {"evt", "rsp"}
    BY <1>3, <2>5, <2>6 DEF RspMsg
  <2> QED BY <2>1, <2>3, <2>4, <2>7, <2>8 DEF PairInv, ResponseIsOwn
<1>10. ASSUME cmdq # <<>>, cmdq' = Tail(cmdq),
              UNCHANGED <<wire, late, rsp, sent, pc, cur>>
       PROVE  PairInv'
  <2>1. /\ Len(cmdq') = Len(cmdq) - 1
        /\ \A i \in 1 .. Len(cmdq') : cmdq'[i] = cmdq[i + 1] /\ i + 1 \in 1 .. Len(cmdq)
    BY <1>3, <1>10
  <2>2. \A i \in 1 .. Len(wire) : wire[i].kind = "rsp" =>
          \A j \in 1 .. Len(cmdq') : cmdq'[j] = "reset"
    BY <2>1 DEF PairInv
  <2>3. \A i \in 1 .. Len(cmdq') : cmdq'[i] # "reset" =>
          /\ pc = "wait" /\ cmdq'[i] = sent
          /\ \A j \in 1 .. Len(cmdq') : cmdq'[j] # "reset" => i = j
    <3> SUFFICES ASSUME NEW i \in 1 .. Len(cmdq'), cmdq'[i] # "reset"
                 PROVE  /\ pc = "wait" /\ cmdq'[i] = sent
                        /\ \A j \in 1 .. Len(cmdq') : cmdq'[j] # "reset" => i = j
      OBVIOUS
    <3>1. i + 1 \in 1 .. Len(cmdq) /\ cmdq[i + 1] # "reset" /\ cmdq[i + 1] = cmdq'[i]
      BY <2>1
    <3>2. /\ pc = "wait" /\ cmdq[i + 1] = sent
          /\ \A j \in 1 .. Len(cmdq) : cmdq[j] # "reset" => i + 1 = j
      BY <3>1 DEF PairInv
    <3>3. ASSUME NEW j \in 1 .. Len(cmdq'), cmdq'[j] # "reset" PROVE i = j
      <4>1. j + 1 \in 1 .. Len(cmdq) /\ cmdq[j + 1] # "reset"
        BY <2>1, <3>3
      <4> QED BY <3>2, <4>1
    <3> QED BY <3>1, <3>2, <3>3
  <2> QED BY <1>10, <2>2, <2>3 DEF PairInv, ResponseIsOwn
<1>11. cur # RspBuf /\ NoSlot # RspBuf /\ RspBuf \notin Slots
  BY QLENAssumption DEF PairInv, ResponseIsOwn, NoSlot, RspBuf, Slots
<1>12. CASE Select \/ PeekNull \/ DispatchSkip \/ Dispatch \/ EndHandle
            \/ RecvCtl \/ EndCommand
  BY <1>4, <1>11, <1>12 DEF Select, PeekNull, DispatchSkip, Dispatch, EndHandle,
     RecvCtl, EndCommand, env, ncp
<1>13. CASE PeekQueued
  <2>1. r # RspBuf
    BY <1>11 DEF TypeOK
  <2> QED BY <1>4, <1>13, <2>1 DEF PeekQueued, env, ncp
<1>14. CASE PeekRead \/ WaitRead
  BY <1>5, <1>14 DEF PeekRead, WaitRead, env, ncp
<1>15. CASE PeekResponse
  BY <1>6, <1>15 DEF PeekResponse
<1>16. CASE WaitReturn
  <2>1. /\ WaitMessageResponse /\ UNCHANGED <<late, cmdq, sent, cur>>
    BY <1>16 DEF WaitReturn, env, ncp
  <2> QED BY <1>6, <1>11, <2>1 DEF PairInv, ResponseIsOwn
<1>17. ASSUME NEW clear \in BOOLEAN, SendReset(clear) PROVE PairInv'
  BY <1>7, <1>17 DEF SendReset, ncp
<1>18. CASE NcpReset \/ NcpLose
  BY <1>10, <1>18 DEF NcpReset, NcpLose, host, env, ncp
<1>19. CASE NcpBoot \/ NcpTick
  BY <1>8, <1>19 DEF NcpBoot, NcpTick, NcpSend, host, env, ncp
<1>20. ASSUME NEW e \in OneShot, NcpEvent(e) PROVE PairInv'
  BY <1>8, <1>20 DEF NcpEvent, NcpSend, host
<1>21. CASE NcpLate
  BY <1>21 DEF NcpLate, PairInv
<1>22. CASE ClientSend \/ UNCHANGED vars
  <2>1. UNCHANGED <<wire, late, cmdq, rsp, sent, pc, cur>>
    BY <1>22 DEF ClientSend, vars, host, ncp
  <2> QED BY <2>1 DEF PairInv, ResponseIsOwn
<1> QED
  BY <1>9, <1>12, <1>13, <1>14, <1>15, <1>16, <1>17, <1>18,
     <1>19, <1>20, <1>21, <1>22 DEF Next, Host, Ncp

\* For any commands and any reboots, and whatever an earlier daemon left in the
\* UART: once a command was sent while nothing but events was under way, a
\* command handler never sees the response to another command, and the loop
\* never takes a response for an event.
THEOREM ResponsesPaired == Spec => []ResponseIsOwn
<1>1. TypeOK /\ PairInv /\ [Next]_vars => PairInv'
  BY PairStep
<1>2. PairInv => ResponseIsOwn
  BY DEF PairInv, ResponseIsOwn
<1> QED BY PairInit, <1>1, <1>2, TypeCorrect, PTL DEF Spec
=============================================================================
