---------------------------- MODULE DiscoverProofs ----------------------------
(***************************************************************************)
(* Proofs about Discover, for every set of handles, every tree of          *)
(* attributes and every bound: types, and that under calm a result has a   *)
(* request and is filed under its parent.                                  *)
(***************************************************************************)
EXTENDS Discover, ListLemmas

-----------------------------------------------------------------------------
(* Subsequences *)

\* Indices are finitely many.
LEMMA FiniteIndices ==
  ASSUME NEW n \in Nat, NEW I \in SUBSET (1 .. n)
  PROVE  IsFiniteSet(I) /\ Cardinality(I) \in Nat
<1>1. IsFiniteSet(1 .. n)
  BY FS_Interval
<1>2. IsFiniteSet(I)
  BY <1>1, FS_Subset
<1> QED BY <1>2, FS_CardinalityType

\* The k-th of the indices in I is there, for every k up to their number.
LEMMA NthExists ==
  ASSUME NEW n \in Nat, NEW I \in SUBSET (1 .. n), NEW k \in 1 .. Cardinality(I)
  PROVE  /\ Nth(I, k) \in I
         /\ Cardinality({j \in I : j <= Nth(I, k)}) = k
<1>0. \A j \in I : j \in Nat /\ 1 <= j /\ j <= n
  OBVIOUS
<1> DEFINE Upto(x) == {j \in I : j <= x}
<1>1. IsFiniteSet(I) /\ Cardinality(I) \in Nat
  BY FiniteIndices
<1>2. ASSUME NEW m \in Nat
      PROVE  IsFiniteSet(Upto(m)) /\ Cardinality(Upto(m)) \in Nat
  <2>1. Upto(m) \in SUBSET (1 .. n)
    OBVIOUS
  <2> HIDE DEF Upto
  <2> QED BY <2>1, FiniteIndices
<1> DEFINE T == {x \in Nat : Cardinality(Upto(x)) >= k}
<1>3. n \in T
  <2>1. Upto(n) = I
    BY <1>0
  <2>2. Cardinality(I) >= k /\ n \in Nat
    BY <1>1
  <2> QED BY <2>1, <2>2
<1>4. PICK m \in T : \A x \in T : m <= x
  <2> HIDE DEF T
  <2>1. T # {}
    BY <1>3
  <2>2. T \in SUBSET Nat
    BY DEF T
  <2> QED BY <2>1, <2>2, Least
<1>4a. m \in Nat /\ \A x \in Nat : x < m => ~(Cardinality(Upto(x)) >= k)
  BY <1>4
<1> HIDE DEF T
<1>5. m # 0
  <2>1. Upto(0) = {}
    <3>1. \A j \in I : ~(j <= 0)
      BY <1>0
    <3> QED BY <3>1
  <2>2. Cardinality(Upto(0)) = 0
    BY <2>1, FS_EmptySet
  <2> QED BY <2>2, <1>4 DEF T
<1>6. Cardinality(Upto(m - 1)) < k
  <2>1. m - 1 \in Nat /\ ~(Cardinality(Upto(m - 1)) >= k)
    <3>1. m - 1 \in Nat /\ m - 1 < m
      BY <1>4a, <1>5
    <3> QED BY <3>1, <1>4a
  <2>2. Cardinality(Upto(m - 1)) \in Nat
    BY <2>1, <1>2
  <2> QED BY <2>1, <2>2
<1>7. Upto(m) = IF m \in I THEN Upto(m - 1) \cup {m} ELSE Upto(m - 1)
  <2>1. \A j \in I : j <= m <=> j <= m - 1 \/ j = m
    BY <1>0, <1>4a
  <2>3. CASE m \in I
    BY <2>1, <2>3
  <2>4. CASE m \notin I
    BY <2>1, <2>4
  <2> QED BY <2>3, <2>4
<1>8. m \in I /\ Cardinality(Upto(m)) = k
  <2>1. Cardinality(Upto(m)) >= k /\ Cardinality(Upto(m)) \in Nat
    BY <1>2, <1>4, <1>4a DEF T
  <2>2. IsFiniteSet(Upto(m - 1)) /\ Cardinality(Upto(m - 1)) \in Nat
    <3>1. m - 1 \in Nat
      BY <1>4a, <1>5
    <3> QED BY <3>1, <1>2
  <2>3. m \in I
    BY <1>6, <1>7, <2>1, <2>2
  <2>4. m \notin Upto(m - 1)
    BY <1>4a
  <2>5. Cardinality(Upto(m - 1) \cup {m}) = Cardinality(Upto(m - 1)) + 1
    <3> HIDE DEF Upto
    <3> QED BY <2>2, <2>4, FS_AddElement
  <2> QED BY <1>6, <1>7, <2>1, <2>2, <2>3, <2>5
<1> QED BY <1>8 DEF Nth

\* A subsequence is a sequence of some of the elements, and keeps the first if
\* its index is kept.
LEMMA SubsequenceOf ==
  ASSUME NEW S, NEW s \in Seq(S), NEW I \in SUBSET (DOMAIN s)
  PROVE  /\ Subsequence(s, I) \in Seq(S)
         /\ I = {} => Subsequence(s, I) = <<>>
         /\ 1 \in I => /\ Subsequence(s, I) # <<>>
                       /\ Head(Subsequence(s, I)) = s[1]
<1> DEFINE r == Subsequence(s, I)
<1>0. Len(s) \in Nat /\ I \in SUBSET (1 .. Len(s)) /\ DOMAIN s = 1 .. Len(s)
  BY LenProperties
<1>1. IsFiniteSet(I) /\ Cardinality(I) \in Nat
  BY <1>0, FiniteIndices
<1>2. \A k \in 1 .. Cardinality(I) : s[Nth(I, k)] \in S
  BY <1>0, NthExists, ElementOfSeq
<1>3. r \in [1 .. Cardinality(I) -> S]
  BY <1>2 DEF Subsequence
<1>4. r \in Seq(S) /\ Len(r) = Cardinality(I)
  <2> HIDE DEF r
  <2> QED BY <1>1, <1>3, SeqDef
<1>5. ASSUME 1 \in I
      PROVE  r # <<>> /\ Head(r) = s[1]
  <2>1. Cardinality(I) # 0
    BY <1>1, <1>5, FS_EmptySet
  <2>2. 1 \in 1 .. Cardinality(I)
    BY <1>1, <2>1
  <2>3. {j \in I : j <= 1} = {1}
    BY <1>0, <1>5
  <2>4. Nth(I, 1) = 1
    <3>1. Nth(I, 1) \in I /\ Cardinality({j \in I : j <= Nth(I, 1)}) = 1
      BY <1>0, <2>2, NthExists
    <3>2. PICK x : {j \in I : j <= Nth(I, 1)} = {x}
      <4>1. IsFiniteSet({j \in I : j <= Nth(I, 1)})
        BY <1>1, FS_Subset
      <4> QED BY <3>1, <4>1, FS_Singleton
    <3>3. 1 \in {j \in I : j <= Nth(I, 1)} /\ Nth(I, 1) \in {j \in I : j <= Nth(I, 1)}
      BY <1>0, <1>5, <3>1
    <3> QED BY <3>2, <3>3
  <2>5. r[1] = s[1]
    BY <2>2, <2>4 DEF Subsequence
  <2> HIDE DEF r
  <2> QED BY <1>4, <2>2, <2>5
<1>6. I = {} => r = <<>>
  <2>1. I = {} => Len(r) = 0
    BY <1>4, FS_EmptySet
  <2> HIDE DEF r
  <2> QED BY <1>4, <2>1, EmptySeq
<1> QED BY <1>4, <1>5, <1>6
-----------------------------------------------------------------------------
(* Types, in the groups the actions change *)

TimersType == /\ listed \in [Timer -> Nat]
              /\ count \in [Timer -> {0, HW_TIMER_INFINITY}]
              /\ armed \in [Timer -> BOOLEAN]
QueueType == queue \in Seq(Request)
LoopType == /\ stop \in BOOLEAN /\ cmd \in {"DISCOVER", "OTHER"}
            /\ new \in Command \cup {NoCommand} /\ crashed \in BOOLEAN
TableType == table \in Seq([conn : Handle \cup {Nobody}, attrs : SUBSET Entry])
NcpType == link \in SUBSET Handle /\ proc \in [Handle -> (SUBSET Attr) \cup {Idle}]
EvqType == evq \in Seq(Event)
PastType == target \in Handle \cup {Nobody} /\ calm \in BOOLEAN
BoundsType == /\ commands \in 0 .. MaxCommands /\ closes \in 0 .. MaxCloses
              /\ resets \in 0 .. MaxResets

Types == /\ TimersType /\ QueueType /\ LoopType /\ TableType /\ NcpType
         /\ EvqType /\ PastType /\ BoundsType

\* The groups make up TypeOK.
LEMMA TypesAreTypes == Types <=> TypeOK
BY DEF Types, TimersType, QueueType, LoopType, TableType, NcpType, EvqType,
       PastType, BoundsType, TypeOK

\* The events are events, and the requests are requests.
LEMMA Makes ==
  /\ Tick \in Event /\ Boot \in Event /\ Other \in Event
  /\ \A h \in Handle, a \in Attr : Found(h, a) \in Event
  /\ \A h \in Handle : /\ Completed(h) \in Event /\ Opened(h) \in Event
                        /\ Closed(h) \in Event
  /\ \A h \in Handle, a \in {Device} \cup Service \cup Characteristic :
       Req(h, a) \in Request
<1>1. Tick \in Event /\ Boot \in Event /\ Other \in Event
  BY DEF Event
<1>2. \A h \in Handle, a \in Attr : Found(h, a) \in Event
  BY DEF Event
<1>3. \A h \in Handle : /\ Completed(h) \in Event /\ Opened(h) \in Event
                        /\ Closed(h) \in Event
  BY DEF Event, Completed, Opened, Closed
<1>4. \A h \in Handle, a \in {Device} \cup Service \cup Characteristic :
        Req(h, a) \in Request
  BY DEF Request, Req
<1> QED BY <1>1, <1>2, <1>3, <1>4

\* What the queue of events loses and gains.
LEMMA EvqSteps ==
  ASSUME EvqType
  PROVE  /\ \A e : Takes(e) => EvqType' /\ e \in Event
         /\ \A e \in Event : Append(evq, e) \in Seq(Event)
         /\ \A e, f \in Event : evq \o <<e, f>> \in Seq(Event)
BY DEF EvqType, Takes

\* What timer.c does to the timer of DISCOVER keeps the types.
LEMMA TimersStep ==
  ASSUME TimersType,
         \/ UNCHANGED timers \/ hw_timer_del("discover") \/ hw_timer_list_clear
         \/ hw_timer_add("discover", HW_TIMER_INFINITY)
  PROVE  TimersType'
<1> USE TimersAssumption DEF TimersType
<1>1. CASE UNCHANGED timers
  BY <1>1 DEF timers
<1>2. CASE hw_timer_del("discover")
  BY <1>2 DEF hw_timer_del
<1>3. CASE hw_timer_list_clear
  BY <1>3 DEF hw_timer_list_clear
<1>4. CASE hw_timer_add("discover", HW_TIMER_INFINITY)
  BY <1>4 DEF hw_timer_add
<1> QED BY <1>1, <1>2, <1>3, <1>4

\* The end of an event, whatever the handlers made of the queue.
LEMMA EndsStep ==
  ASSUME TimersType, LoopType, NEW ret \in BOOLEAN, NEW q \in Seq(Request),
         EndsOrGoesOn(ret, q)
  PROVE  /\ TimersType' /\ QueueType'
         /\ stop' \in BOOLEAN /\ cmd' \in {"DISCOVER", "OTHER"}
<1>1. CASE cmd = "DISCOVER" /\ ret
  BY <1>1, TimersStep DEF EndsOrGoesOn, QueueType
<1>2. CASE ~(cmd = "DISCOVER" /\ ret)
  BY <1>2, TimersStep DEF EndsOrGoesOn, QueueType, LoopType
<1> QED BY <1>1, <1>2

\* Requests that are removed and added.
LEMMA QueueSteps ==
  ASSUME QueueType
  PROVE  /\ <<>> \in Seq(Request)
         /\ queue # <<>> => Head(queue) \in Request /\ Tail(queue) \in Seq(Request)
         /\ \A r \in Request : Append(queue, r) \in Seq(Request)
         /\ \A h : discover_clear_by_connection(h) \in Seq(Request)
<1>1. \A h : discover_clear_by_connection(h) \in Seq(Request)
  BY SubsequenceOf DEF QueueType, discover_clear_by_connection
<1> QED BY <1>1 DEF QueueType

Elem == [conn : Handle \cup {Nobody}, attrs : SUBSET Entry]

\* The first of the indices of a sequence that are wanted is one of them.
LEMMA FirstIsOne ==
  ASSUME NEW n \in Nat, NEW S \in SUBSET (1 .. n), S # {}
  PROVE  First(S) \in S /\ \A j \in S : First(S) <= j
<1>1. \E i \in S : \A j \in S : i <= j
  BY Least
<1> QED BY <1>1 DEF First

\* The connections open and close.
LEMMA TableSteps ==
  ASSUME TableType, NEW h \in Handle, connection_opened(h) \/ connection_closed(h)
  PROVE  TableType'
<1>1. table \in Seq(Elem) /\ Element(h) \in Elem /\ Element(Nobody) \in Elem
  BY DEF TableType, Elem, Element
<1>2. /\ \A i : [table EXCEPT ![i] = Element(h)] \in Seq(Elem)
      /\ \A i : [table EXCEPT ![i] = Element(Nobody)] \in Seq(Elem)
      /\ <<Element(h)>> \o table \in Seq(Elem)
  BY <1>1, SeqReplace
<1>3. table' \in Seq(Elem)
  BY <1>1, <1>2 DEF connection_opened, connection_closed
<1> QED BY <1>3 DEF TableType, Elem

\* An attribute is added to the lists of a connection.
LEMMA AddStep ==
  ASSUME TableType, NEW h \in Handle, Open(h), NEW a, NEW p,
         [attr |-> a, parent |-> p] \in Entry, Add(h, a, p)
  PROVE  TableType'
<1> DEFINE i == First(Elements(h))
           x == [attr |-> a, parent |-> p]
           e == [table[i] EXCEPT !.attrs = @ \cup {x}]
<1>1. table \in Seq(Elem)
  BY DEF TableType, Elem
<1>2. i \in DOMAIN table
  <2>1. Elements(h) \in SUBSET (1 .. Len(table)) /\ Elements(h) # {}
    BY <1>1 DEF Elements, Open
  <2>2. Len(table) \in Nat /\ DOMAIN table = 1 .. Len(table)
    BY <1>1, LenProperties
  <2>3. First(Elements(h)) \in Elements(h)
    BY <2>1, <2>2, FirstIsOne
  <2> QED BY <2>1, <2>2, <2>3
<1>3. table[i] \in Elem
  BY <1>1, <1>2
<1>4. e \in Elem
  BY <1>3 DEF Elem
<1>5. table' = table \/ table' = [table EXCEPT ![i] = e]
  BY DEF Add
<1>6. [table EXCEPT ![i] = e] \in Seq(Elem)
  <2> HIDE DEF i, e
  <2> QED BY <1>1, <1>4, SeqReplace
<1> QED BY <1>1, <1>5, <1>6 DEF TableType, Elem

\* The next of the types, for the proofs about steps.
NextTypes == /\ TimersType' /\ QueueType' /\ LoopType' /\ TableType' /\ NcpType'
             /\ EvqType' /\ PastType' /\ BoundsType'

\* The handlers of the events of a procedure keep the types.
LEMMA FoundTypes ==
  ASSUME Types, NEW h \in Handle, NEW a \in Attr,
         HandleService(h, a) \/ HandleChild(h, a) \/ HandleStray(h, a) \/ Crash(h, a)
  PROVE  NextTypes
<1> USE DEF Types, ncp, past, bounds
<1>1. CASE HandleService(h, a)
  <2>1. EvqType'
    BY <1>1, EvqSteps DEF HandleService
  <2>2. TableType'
    <3>1. [attr |-> a, parent |-> Device] \in Entry
      BY <1>1 DEF HandleService, Entry
    <3> QED BY <1>1, <3>1, AddStep DEF HandleService
  <2>3. Ask(h, a) \in Seq(Request)
    <3>1. Req(h, a) \in Request
      BY <1>1, Makes DEF HandleService
    <3> QED BY <3>1, QueueSteps DEF Ask
  <2>4. /\ TimersType' /\ QueueType'
        /\ stop' \in BOOLEAN /\ cmd' \in {"DISCOVER", "OTHER"}
    BY <1>1, <2>3, EndsStep DEF HandleService, LoopType
  <2> QED BY <1>1, <2>1, <2>2, <2>4
          DEF HandleService, NextTypes, LoopType, NcpType, PastType, BoundsType
<1>2. CASE HandleChild(h, a)
  <2>1. EvqType'
    BY <1>2, EvqSteps DEF HandleChild
  <2>2. TableType'
    <3>1. [attr |-> a, parent |-> Head(queue).of] \in Entry
      BY <1>2 DEF HandleChild, ParentFound, Entry, Attr
    <3> QED BY <1>2, <3>1, AddStep DEF HandleChild
  <2>3. (IF a \in Characteristic THEN Ask(h, a) ELSE queue) \in Seq(Request)
    <3>1. a \in Characteristic => Req(h, a) \in Request
      BY <1>2, Makes
    <3> QED BY <3>1, QueueSteps DEF Ask, QueueType
  <2>4. /\ TimersType' /\ QueueType'
        /\ stop' \in BOOLEAN /\ cmd' \in {"DISCOVER", "OTHER"}
    BY <1>2, <2>3, EndsStep DEF HandleChild, LoopType
  <2> QED BY <1>2, <2>1, <2>2, <2>4
          DEF HandleChild, NextTypes, LoopType, NcpType, PastType, BoundsType
<1>3. CASE HandleStray(h, a)
  <2>1. EvqType'
    BY <1>3, EvqSteps DEF HandleStray
  <2>2. /\ TimersType' /\ QueueType'
        /\ stop' \in BOOLEAN /\ cmd' \in {"DISCOVER", "OTHER"}
    BY <1>3, EndsStep DEF HandleStray, LoopType, QueueType
  <2> QED BY <1>3, <2>1, <2>2
          DEF HandleStray, NextTypes, LoopType, TableType, NcpType, PastType,
              BoundsType
<1>4. CASE Crash(h, a)
  <2>1. EvqType'
    BY <1>4, EvqSteps DEF Crash
  <2> QED BY <1>4, <2>1
          DEF Crash, timers, NextTypes, TimersType, QueueType, LoopType,
              TableType, NcpType, PastType, BoundsType
<1> QED BY <1>1, <1>2, <1>3, <1>4

\* So do those of the other events.
LEMMA EventTypes ==
  ASSUME Types,
         \/ HandleTick \/ HandleBoot \/ HandleOther
         \/ \E h \in Handle :
              HandleOpened(h) \/ HandleClosed(h) \/ HandleCompleted(h)
  PROVE  NextTypes
<1> USE DEF Types, ncp, past, bounds
<1>1. CASE HandleTick
  <2>1. EvqType'
    BY <1>1, EvqSteps DEF HandleTick
  <2>2. /\ TimersType' /\ QueueType'
        /\ stop' \in BOOLEAN /\ cmd' \in {"DISCOVER", "OTHER"}
    <3>1. CASE Listed("discover") /\ queue # <<>>
      BY <1>1, <3>1, EndsStep DEF HandleTick, QueueAfterStart, QueueType
    <3>2. CASE ~(Listed("discover") /\ queue # <<>>)
      <4>1. (stop \/ Listed("discover")) \in BOOLEAN
        BY DEF LoopType, Listed
      <4>2. EndsOrGoesOn(stop \/ Listed("discover"), queue)
        BY <1>1, <3>2 DEF HandleTick
      <4> QED BY <4>1, <4>2, EndsStep DEF QueueType
    <3> QED BY <3>1, <3>2
  <2>3. proc' \in [Handle -> (SUBSET Attr) \cup {Idle}]
    <3>1. Children(Runs.of) \in SUBSET Attr
      BY DEF Children
    <3>2. proc' = proc \/ \E h : proc' = [proc EXCEPT ![h] = Children(Runs.of)]
      BY <1>1 DEF HandleTick
    <3> QED BY <3>1, <3>2 DEF NcpType
  <2>4. calm' \in BOOLEAN
    BY <1>1 DEF HandleTick, PastType
  <2> QED BY <1>1, <2>1, <2>2, <2>3, <2>4
          DEF HandleTick, NextTypes, LoopType, TableType, NcpType, PastType,
              BoundsType
<1>2. CASE HandleBoot
  <2>1. EvqType' /\ TimersType'
    BY <1>2, EvqSteps, TimersStep DEF HandleBoot
  <2> QED BY <1>2, <2>1, QueueSteps
          DEF HandleBoot, NextTypes, QueueType, LoopType, TableType, NcpType,
              PastType, BoundsType
<1>3. CASE HandleOther
  <2>1. EvqType'
    BY <1>3, EvqSteps DEF HandleOther
  <2>2. /\ TimersType' /\ QueueType'
        /\ stop' \in BOOLEAN /\ cmd' \in {"DISCOVER", "OTHER"}
    BY <1>3, EndsStep DEF HandleOther, LoopType, QueueType
  <2> QED BY <1>3, <2>1, <2>2
          DEF HandleOther, NextTypes, LoopType, TableType, NcpType, PastType,
              BoundsType
<1>4. ASSUME NEW h \in Handle, HandleOpened(h)
      PROVE  NextTypes
  <2>1. EvqType' /\ TableType'
    BY <1>4, EvqSteps, TableSteps DEF HandleOpened
  <2>2. /\ TimersType' /\ QueueType'
        /\ stop' \in BOOLEAN /\ cmd' \in {"DISCOVER", "OTHER"}
    BY <1>4, EndsStep DEF HandleOpened, LoopType, QueueType
  <2> QED BY <1>4, <2>1, <2>2
          DEF HandleOpened, NextTypes, LoopType, NcpType, PastType, BoundsType
<1>5. ASSUME NEW h \in Handle, HandleClosed(h)
      PROVE  NextTypes
  <2>1. EvqType' /\ TableType'
    BY <1>5, EvqSteps, TableSteps DEF HandleClosed
  <2>2. (IF Open(h) THEN discover_clear_by_connection(h) ELSE queue)
          \in Seq(Request)
    BY QueueSteps DEF QueueType
  <2>3. /\ TimersType' /\ QueueType'
        /\ stop' \in BOOLEAN /\ cmd' \in {"DISCOVER", "OTHER"}
    BY <1>5, <2>2, EndsStep DEF HandleClosed, LoopType
  <2> QED BY <1>5, <2>1, <2>3
          DEF HandleClosed, NextTypes, LoopType, NcpType, PastType, BoundsType
<1>6. ASSUME NEW h \in Handle, HandleCompleted(h)
      PROVE  NextTypes
  <2>1. EvqType'
    BY <1>6, EvqSteps DEF HandleCompleted
  <2>2. (IF queue = <<>> THEN queue ELSE Tail(queue)) \in Seq(Request)
    BY QueueSteps DEF QueueType
  <2>3. /\ TimersType' /\ QueueType'
        /\ stop' \in BOOLEAN /\ cmd' \in {"DISCOVER", "OTHER"}
    BY <1>6, <2>2, EndsStep DEF HandleCompleted, LoopType
  <2> QED BY <1>6, <2>1, <2>3
          DEF HandleCompleted, NextTypes, LoopType, TableType, NcpType, PastType,
              BoundsType
<1> QED BY <1>1, <1>2, <1>3, <1>4, <1>5, <1>6

\* Commands keep the types.
LEMMA CommandTypes ==
  ASSUME Types,
         RunsCommand \/ \E c \in Command : SingleShot(c) \/ Cleanup(c)
  PROVE  NextTypes
<1> USE BoundsAssumption DEF Types, ncp, past, bounds, timers
<1>1. ASSUME NEW c \in Command, SingleShot(c)
      PROVE  NextTypes
  BY <1>1 DEF SingleShot, Receives, NextTypes, TimersType, QueueType, LoopType,
              TableType, NcpType, EvqType, PastType, BoundsType
<1>2. ASSUME NEW c \in Command, Cleanup(c)
      PROVE  NextTypes
  <2>1. TimersType' /\ QueueType'
    BY <1>2, TimersStep, QueueSteps DEF Cleanup, QueueType
  <2>2. LoopType' /\ BoundsType'
    BY <1>2 DEF Cleanup, Receives, LoopType, BoundsType
  <2>3. PastType'
    BY <1>2 DEF Cleanup, PastType
  <2> QED BY <1>2, <2>1, <2>2, <2>3
          DEF Cleanup, NextTypes, TableType, NcpType, EvqType
<1>3. CASE discover_cmd_handler
  <2>1. new.conn \in Handle
    BY <1>3 DEF discover_cmd_handler, LoopType, Command, NoCommand
  <2>2. QueueType'
    <3>1. Req(new.conn, Device) \in Request
      BY <2>1, Makes
    <3> QED BY <1>3, <3>1 DEF discover_cmd_handler, QueueType
  <2>3. TimersType'
    BY <1>3, TimersStep DEF discover_cmd_handler
  <2> QED BY <1>3, <2>1, <2>2, <2>3
          DEF discover_cmd_handler, NextTypes, LoopType, TableType, NcpType,
              EvqType, PastType, BoundsType
<1>4. CASE Refused \/ Scan
  BY <1>4 DEF Refused, Scan, NextTypes, TimersType, QueueType, LoopType,
              TableType, NcpType, EvqType, PastType, BoundsType
<1>5. CASE Gatt
  <2>1. proc' \in [Handle -> (SUBSET Attr) \cup {Idle}]
    <3>1. proc' = proc \/ proc' = [proc EXCEPT ![new.conn] = {}]
      BY <1>5 DEF Gatt
    <3> QED BY <3>1 DEF NcpType
  <2>2. PastType'
    BY <1>5 DEF Gatt, PastType
  <2> QED BY <1>5, <2>1, <2>2
          DEF Gatt, NextTypes, TimersType, QueueType, LoopType, TableType,
              NcpType, EvqType, BoundsType
<1> QED BY <1>1, <1>2, <1>3, <1>4, <1>5 DEF RunsCommand

\* And so does the NCP.
LEMMA NcpTypes ==
  ASSUME Types,
         \/ NcpTick \/ NcpOther \/ NcpReboot
         \/ \E h \in Handle : GattClient(h) \/ NcpOpen(h) \/ NcpClose(h)
  PROVE  NextTypes
<1> USE BoundsAssumption DEF Types, host, past, bounds, timers
<1>1. CASE NcpTick \/ NcpOther
  <2>1. EvqType'
    BY <1>1, EvqSteps, Makes DEF NcpTick, NcpOther, NcpSends, EvqType
  <2> QED BY <1>1, <2>1
          DEF NcpTick, NcpOther, ncp, NextTypes, TimersType, QueueType, LoopType,
              TableType, NcpType, PastType, BoundsType
<1>2. CASE NcpReboot
  <2>1. EvqType'
    BY <1>2, EvqSteps, Makes DEF NcpReboot, EvqType
  <2>2. TimersType' /\ NcpType' /\ BoundsType'
    BY <1>2 DEF NcpReboot, TimersType, NcpType, BoundsType
  <2> QED BY <1>2, <2>1, <2>2
          DEF NcpReboot, NextTypes, QueueType, LoopType, TableType, PastType
<1>3. ASSUME NEW h \in Handle, NEW a \in Attr, NcpFinds(h, a)
      PROVE  NextTypes
  <2>1. EvqType'
    BY <1>3, EvqSteps, Makes DEF NcpFinds, NcpSends, EvqType
  <2>2. NcpType'
    <3>1. proc[h] \in SUBSET Attr
      BY <1>3 DEF NcpFinds, Running, NcpType
    <3> QED BY <1>3, <3>1 DEF NcpFinds, NcpType
  <2> QED BY <1>3, <2>1, <2>2
          DEF NcpFinds, NextTypes, TimersType, QueueType, LoopType, TableType,
              PastType, BoundsType
<1>4. ASSUME NEW h \in Handle, NcpCompletes(h)
      PROVE  NextTypes
  <2>1. EvqType'
    BY <1>4, EvqSteps, Makes DEF NcpCompletes, NcpSends, EvqType
  <2>2. NcpType'
    BY <1>4 DEF NcpCompletes, NcpType
  <2> QED BY <1>4, <2>1, <2>2
          DEF NcpCompletes, NextTypes, TimersType, QueueType, LoopType, TableType,
              PastType, BoundsType
<1>5. ASSUME NEW h \in Handle, NcpOpen(h)
      PROVE  NextTypes
  <2>1. EvqType'
    BY <1>5, EvqSteps, Makes DEF NcpOpen, NcpSends, EvqType
  <2>2. NcpType'
    BY <1>5 DEF NcpOpen, NcpType
  <2> QED BY <1>5, <2>1, <2>2
          DEF NcpOpen, NextTypes, TimersType, QueueType, LoopType, TableType,
              PastType, BoundsType
<1>6. ASSUME NEW h \in Handle, NcpClose(h)
      PROVE  NextTypes
  <2>1. EvqType'
    BY <1>6, EvqSteps, Makes DEF NcpClose, EvqType
  <2>2. NcpType'
    BY <1>6 DEF NcpClose, NcpType
  <2>3. BoundsType'
    BY <1>6 DEF NcpClose, BoundsType
  <2> QED BY <1>6, <2>1, <2>2, <2>3
          DEF NcpClose, NextTypes, TimersType, QueueType, LoopType, TableType,
              PastType
<1> QED BY <1>1, <1>2, <1>3, <1>4, <1>5, <1>6 DEF GattClient

\* Every step keeps the types.
LEMMA TypeStep == Types /\ [Next]_vars => NextTypes
<1>1. Types /\ Next => NextTypes
  BY FoundTypes, EventTypes, CommandTypes, NcpTypes DEF Next, HandlesEvent
<1>2. Types /\ UNCHANGED vars => NextTypes
  BY DEF vars, timers, host, ncp, past, bounds, Types, NextTypes, TimersType,
         QueueType, LoopType, TableType, NcpType, EvqType, PastType, BoundsType
<1> QED BY <1>1, <1>2

\* The types hold at the start.
LEMMA InitTypes == Init => Types
<1> SUFFICES ASSUME Init PROVE Types
  OBVIOUS
<1>1. TimersType
  BY DEF Init, HwTimerInit, TimersType, HW_TIMER_INFINITY
<1>2. QueueType /\ TableType /\ EvqType
  BY DEF Init, QueueType, TableType, EvqType
<1>3. NcpType
  BY DEF Init, NcpType
<1>4. LoopType
  BY Zenon DEF Init, LoopType
<1>5. PastType
  BY Zenon DEF Init, PastType
<1>6. BoundsType
  BY BoundsAssumption DEF Init, BoundsType
<1> QED BY <1>1, <1>2, <1>3, <1>4, <1>5, <1>6 DEF Types

\* Types, as an invariant.
LEMMA TypesHold == Spec => []Types
<1>1. Types /\ [Next]_vars => Types'
  BY TypeStep DEF Types, NextTypes
<1> QED BY <1>1, InitTypes, PTL DEF Spec

\* The variables of the discovery keep their types (discover.c, service.c), for
\* every set of connections and every tree of attributes.
THEOREM TypeCorrect == Spec => []TypeOK
  BY TypesHold, TypesAreTypes, PTL

-----------------------------------------------------------------------------
(* Results and their requests.  Under calm, the NCP works for the head of the *)
(* queue, or, when the queue is empty, for a read or write: then nothing      *)
(* that it still has to say is the result of a discovery.                     *)

IsResult(e) == e.kind \in {"found", "completed"}
Breaks(e, h) == e \in {Boot, Opened(h), Closed(h)}

\* Nothing more comes of the procedures.
NoneIn(s, p) == /\ \A h \in Handle : p[h] = Idle
                /\ \A i \in DOMAIN s : ~IsResult(s[i])

\* All that comes is of the request q, up to its completion or to the news
\* that the connection is another.
ServesIn(q, s, p) ==
  /\ \A i \in DOMAIN s : IsResult(s[i]) =>
       /\ s[i].conn = q.conn
       /\ s[i].kind = "found" => ParentOf[s[i].attr] = q.of
  /\ \A h \in Handle : p[h] # Idle => h = q.conn /\ p[h] \subseteq Children(q.of)
  /\ \A i \in DOMAIN s : s[i].kind = "completed" \/ Breaks(s[i], q.conn) =>
       /\ \A h \in Handle : p[h] = Idle
       /\ \A j \in DOMAIN s : i < j => ~IsResult(s[j])

\* No attribute comes.
UnaskedIn(s, p) == /\ \A i \in DOMAIN s : s[i].kind # "found"
                   /\ \A h \in Handle : p[h] \in {Idle, {}}

ServedBy(b, s, p) == IF b = <<>> THEN UnaskedIn(s, p) ELSE ServesIn(Head(b), s, p)

\* A new command, or a discovery that is about to be ended by an old result of
\* the timer, finds the procedures at rest.
Fresh == new # NoCommand \/ (stop /\ queue # <<>>) => NoneIn(evq, proc)
Filed == \A i \in DOMAIN table :
           \A x \in table[i].attrs : x.parent = ParentOf[x.attr]
Calm == Fresh /\ ServedBy(queue, evq, proc) /\ Filed /\ ~crashed

\* Procedures run on connections.
Linked == \A h \in Handle : proc[h] # Idle => h \in link

\* A connection that stands before the news of a reboot is news, too.
ReopenedIn(s, L) ==
  \A h \in L : \A i \in DOMAIN s :
    s[i] = Boot => \E j \in DOMAIN s : i < j /\ s[j] = Opened(h)
Reopened == ReopenedIn(evq, link)

ServedInv == Linked /\ Reopened /\ (calm => Calm)

-----------------------------------------------------------------------------
(* What happens to the queue of events *)

\* The kinds of the events, and what they carry.
LEMMA Kinds ==
  /\ ~IsResult(Tick) /\ ~IsResult(Boot) /\ ~IsResult(Other)
  /\ \A h : ~IsResult(Opened(h)) /\ ~IsResult(Closed(h))
  /\ \A h : Opened(h) # Boot /\ Closed(h) # Boot /\ Completed(h) # Boot
  /\ \A h : ~Breaks(Tick, h) /\ ~Breaks(Other, h)
  /\ \A h, g : ~Breaks(Completed(g), h)
  /\ \A h, g : Breaks(Opened(g), h) \/ Breaks(Closed(g), h) => g = h
  /\ \A g, h, a : Found(g, a) # Boot /\ ~Breaks(Found(g, a), h)
  /\ \A h, a : Found(h, a).kind = "found" /\ Found(h, a).conn = h
               /\ Found(h, a).attr = a
  /\ \A h : Completed(h).kind = "completed" /\ Completed(h).conn = h
  /\ Tick # Boot /\ Other # Boot
BY DEF IsResult, Breaks, Tick, Boot, Other, Found, Completed, Opened, Closed

\* Taking an event leaves the others as they were.
LEMMA TailServed ==
  ASSUME NEW b, NEW p, NEW s \in Seq(Event), s # <<>>, ServedBy(b, s, p)
  PROVE  ServedBy(b, Tail(s), p)
<1>1. CASE b = <<>>
  BY <1>1, TailElems DEF ServedBy, UnaskedIn
<1>2. CASE b # <<>>
  <2> DEFINE q == Head(b)
             t == Tail(s)
  <2> HIDE DEF q, t
  <2>1. ServesIn(q, s, p)
    BY <1>2 DEF ServedBy, q
  <2>2. /\ \A i \in DOMAIN t : i + 1 \in DOMAIN s /\ t[i] = s[i + 1] /\ i \in Nat
    BY TailElems DEF t
  <2>3. ServesIn(q, t, p)
    BY <2>1, <2>2 DEF ServesIn
  <2> QED BY <1>2, <2>3 DEF ServedBy, q, t
<1> QED BY <1>1, <1>2

\* After its completion or a break nothing comes of a request.
LEMMA AfterLast ==
  ASSUME NEW q, NEW p, NEW s \in Seq(Event), s # <<>>, ServesIn(q, s, p),
         Head(s).kind = "completed" \/ Breaks(Head(s), q.conn)
  PROVE  NoneIn(Tail(s), p)
<1>1. /\ \A h \in Handle : p[h] = Idle
      /\ \A j \in DOMAIN s : 1 < j => ~IsResult(s[j])
  BY TailElems DEF ServesIn
<1> QED BY <1>1, TailElems DEF NoneIn

\* Rest stays rest, and is fine for every queue of requests.
LEMMA NoneServes ==
  ASSUME NEW p, NEW s \in Seq(Event), NoneIn(s, p)
  PROVE  /\ \A b : ServedBy(b, s, p)
         /\ s # <<>> => NoneIn(Tail(s), p)
<1>1. \A b : ServedBy(b, s, p)
  BY DEF ServedBy, NoneIn, UnaskedIn, ServesIn, IsResult
<1>2. s # <<>> => NoneIn(Tail(s), p)
  BY TailElems DEF NoneIn
<1> QED BY <1>1, <1>2

\* An event that is no result, and no break of a running procedure.
LEMMA QuietAppend ==
  ASSUME NEW b, NEW p, NEW s \in Seq(Event), NEW e \in Event, ~IsResult(e),
         \A h \in Handle : p[h] # Idle => ~Breaks(e, h)
  PROVE  /\ ServedBy(b, s, p) => ServedBy(b, Append(s, e), p)
         /\ NoneIn(s, p) => NoneIn(Append(s, e), p)
<1> DEFINE t == Append(s, e)
<1>1. /\ \A i \in DOMAIN s : t[i] = s[i] /\ i \in Nat
      /\ \A i \in DOMAIN t : i \in DOMAIN s \/ t[i] = e
      /\ \A i \in DOMAIN t, j \in DOMAIN t : i < j => i \in DOMAIN s
  BY AppendElems
<1> HIDE DEF t
<1>2. NoneIn(s, p) => NoneIn(t, p)
  BY <1>1 DEF NoneIn
<1>3. b = <<>> /\ ServedBy(b, s, p) => ServedBy(b, t, p)
  BY <1>1 DEF ServedBy, UnaskedIn, IsResult
<1>4. ASSUME b # <<>>, ServedBy(b, s, p)
      PROVE  ServedBy(b, t, p)
  <2> DEFINE q == Head(b)
  <2>1. ServesIn(q, s, p)
    BY <1>4 DEF ServedBy
  <2> HIDE DEF q
  <2>2. ServesIn(q, t, p)
    <3>1. \A i \in DOMAIN t : IsResult(t[i]) =>
            /\ t[i].conn = q.conn
            /\ t[i].kind = "found" => ParentOf[t[i].attr] = q.of
      BY <1>1, <2>1 DEF ServesIn
    <3>2. ASSUME NEW i \in DOMAIN t, t[i].kind = "completed" \/ Breaks(t[i], q.conn)
          PROVE  /\ \A h \in Handle : p[h] = Idle
                 /\ \A j \in DOMAIN t : i < j => ~IsResult(t[j])
      <4>1. CASE i \in DOMAIN s
        BY <1>1, <2>1, <3>2, <4>1 DEF ServesIn
      <4>2. CASE i \notin DOMAIN s
        <5>1. t[i] = e /\ Breaks(e, q.conn)
          BY <1>1, <3>2, <4>2 DEF IsResult
        <5>2. \A h \in Handle : p[h] = Idle
          BY <2>1, <5>1 DEF ServesIn
        <5> QED BY <1>1, <4>2, <5>2
      <4> QED BY <4>1, <4>2
    <3> QED BY <2>1, <3>1, <3>2 DEF ServesIn
  <2> QED BY <1>4, <2>2 DEF ServedBy, q
<1> QED BY <1>2, <1>3, <1>4 DEF t

\* A result of a procedure that runs.
LEMMA ResultAppend ==
  ASSUME NEW q, NEW p \in [Handle -> (SUBSET Attr) \cup {Idle}],
         NEW r \in [Handle -> (SUBSET Attr) \cup {Idle}],
         NEW s \in Seq(Event), NEW h \in Handle,
         ServesIn(q, s, p), p[h] # Idle,
         \A g \in Handle : g # h => r[g] = p[g],
         NEW e,
         \/ \E a \in p[h] : e = Found(h, a) /\ r[h] \subseteq p[h]
         \/ e = Completed(h) /\ r[h] = Idle
  PROVE  ServesIn(q, Append(s, e), r)
<1> DEFINE t == Append(s, e)
<1>1. /\ \A i \in DOMAIN s : t[i] = s[i] /\ i \in Nat
      /\ \A i \in DOMAIN t : i \in DOMAIN s \/ t[i] = e
      /\ \A i \in DOMAIN t, j \in DOMAIN t : i < j => i \in DOMAIN s
  BY AppendElems
<1> HIDE DEF t
<1>2. h = q.conn /\ p[h] \subseteq Children(q.of)
  BY DEF ServesIn
<1>3. \A i \in DOMAIN s : ~(s[i].kind = "completed" \/ Breaks(s[i], q.conn))
  BY DEF ServesIn
<1>4. e.conn = q.conn /\ (e.kind = "found" => ParentOf[e.attr] = q.of)
  BY <1>2, Kinds DEF Children
<1>5. ~Breaks(e, q.conn)
  BY Kinds
<1>6. \A i \in DOMAIN t : IsResult(t[i]) =>
        /\ t[i].conn = q.conn
        /\ t[i].kind = "found" => ParentOf[t[i].attr] = q.of
  BY <1>1, <1>4 DEF ServesIn
<1>7. \A g \in Handle : r[g] # Idle => g = q.conn /\ r[g] \subseteq Children(q.of)
  BY <1>2 DEF ServesIn
<1>8. ASSUME NEW i \in DOMAIN t, t[i].kind = "completed" \/ Breaks(t[i], q.conn)
      PROVE  /\ \A g \in Handle : r[g] = Idle
             /\ \A j \in DOMAIN t : i < j => ~IsResult(t[j])
  <2>1. i \notin DOMAIN s
    BY <1>1, <1>3, <1>8
  <2>2. t[i] = e /\ e.kind = "completed"
    BY <1>1, <1>5, <1>8, <2>1
  <2>3. r[h] = Idle
    BY <2>2, Kinds
  <2>4. \A g \in Handle : g # h => p[g] = Idle
    BY <1>2 DEF ServesIn
  <2> QED BY <1>1, <2>1, <2>3, <2>4
<1> QED BY <1>6, <1>7, <1>8 DEF ServesIn, t

-----------------------------------------------------------------------------
(* Connections *)

\* The actions that touch the connections of the NCP or its procedures.
LEMMA Touches ==
  ASSUME [Next]_vars
  PROVE  \/ UNCHANGED ncp
         \/ HandleTick \/ Gatt \/ NcpReboot
         \/ \E h \in Handle : GattClient(h) \/ NcpOpen(h) \/ NcpClose(h)
BY DEF Next, HandlesEvent, RunsCommand, vars, HandleBoot, HandleOther,
       HandleOpened, HandleClosed, HandleCompleted, HandleService, HandleChild,
       HandleStray, Crash, discover_cmd_handler, Refused, Scan, SingleShot,
       Cleanup, NcpTick, NcpOther

\* Procedures stay on connections.
LEMMA LinkedStep ==
  ASSUME Types, Linked, [Next]_vars
  PROVE  Linked'
<1>0. proc \in [Handle -> (SUBSET Attr) \cup {Idle}] /\ {} # Idle
  BY DEF Types, NcpType, Idle
<1>1. CASE UNCHANGED ncp
  BY <1>1 DEF Linked, ncp
<1>2. CASE HandleTick
  BY <1>0, <1>2 DEF HandleTick, Linked
<1>3. CASE Gatt
  BY <1>0, <1>3 DEF Gatt, Linked
<1>4. CASE NcpReboot
  BY <1>0, <1>4 DEF NcpReboot, Linked
<1>5. ASSUME NEW h \in Handle, GattClient(h)
      PROVE  Linked'
  BY <1>0, <1>5 DEF GattClient, NcpFinds, NcpCompletes, Running, Linked
<1>6. ASSUME NEW h \in Handle, NcpOpen(h) \/ NcpClose(h)
      PROVE  Linked'
  BY <1>0, <1>6 DEF NcpOpen, NcpClose, Linked
<1> QED BY <1>1, <1>2, <1>3, <1>4, <1>5, <1>6, Touches

\* Taking an event keeps what is said of the connections.
LEMMA TailReopened ==
  ASSUME NEW s \in Seq(Event), s # <<>>, NEW L \in SUBSET Handle, ReopenedIn(s, L)
  PROVE  ReopenedIn(Tail(s), L)
<1> DEFINE t == Tail(s)
<1>1. /\ \A i \in DOMAIN t : i + 1 \in DOMAIN s /\ t[i] = s[i + 1] /\ i \in Nat
      /\ \A i \in DOMAIN s : i \in Nat
  BY TailElems
<1>2. \A i \in DOMAIN s : i # 1 => i - 1 \in DOMAIN t /\ i \in Nat
  BY TailElems
<1>3. ASSUME NEW h \in L, NEW i \in DOMAIN t, t[i] = Boot
      PROVE  \E j \in DOMAIN t : i < j /\ t[j] = Opened(h)
  <2> HIDE DEF t
  <2>1. PICK j \in DOMAIN s : i + 1 < j /\ s[j] = Opened(h)
    BY <1>1, <1>3 DEF ReopenedIn
  <2>2. j - 1 \in DOMAIN t /\ i < j - 1
    BY <1>1, <1>2, <2>1
  <2>3. t[j - 1] = Opened(h)
    BY <1>1, <2>1, <2>2
  <2> QED BY <2>2, <2>3
<1> QED BY <1>3 DEF ReopenedIn

\* So does another event, unless it is the news of a reboot.
LEMMA AppendReopened ==
  ASSUME NEW s \in Seq(Event), NEW e, e # Boot, NEW K, NEW L,
         \A h \in K : h \in L \/ e = Opened(h), ReopenedIn(s, L)
  PROVE  ReopenedIn(Append(s, e), K)
<1> DEFINE t == Append(s, e)
<1>1. /\ \A i \in DOMAIN s : i \in DOMAIN t /\ t[i] = s[i] /\ i < Len(s) + 1
      /\ \A i \in DOMAIN t : i \in DOMAIN s \/ t[i] = e
      /\ Len(s) + 1 \in DOMAIN t /\ t[Len(s) + 1] = e
  BY AppendElems
<1> HIDE DEF t
<1>2. ASSUME NEW h \in K, NEW i \in DOMAIN t, t[i] = Boot
      PROVE  \E j \in DOMAIN t : i < j /\ t[j] = Opened(h)
  <2>1. i \in DOMAIN s /\ s[i] = Boot
    BY <1>1, <1>2
  <2>2. CASE h \in L
    <3>1. PICK j \in DOMAIN s : i < j /\ s[j] = Opened(h)
      BY <2>1, <2>2 DEF ReopenedIn
    <3> QED BY <1>1, <3>1
  <2>3. CASE e = Opened(h)
    BY <1>1, <2>1, <2>3
  <2> QED BY <2>2, <2>3
<1> QED BY <1>2 DEF ReopenedIn, t

\* The events that a step takes or adds.
LEMMA EvqChanges ==
  ASSUME [Next]_vars
  PROVE  \/ UNCHANGED <<evq, link>>
         \/ evq # <<>> /\ evq' = Tail(evq) /\ UNCHANGED link
         \/ NcpReboot
         \/ NcpTick \/ NcpOther
         \/ \E h \in Handle : GattClient(h) \/ NcpOpen(h) \/ NcpClose(h)
BY DEF Next, HandlesEvent, RunsCommand, vars, ncp, Takes, HandleTick, HandleBoot,
       HandleOther, HandleOpened, HandleClosed, HandleCompleted, HandleService,
       HandleChild, HandleStray, Crash, discover_cmd_handler, Refused, Scan, Gatt,
       SingleShot, Cleanup

\* A connection that stands after a reboot is news.
LEMMA ReopenedStep ==
  ASSUME Types, Reopened, [Next]_vars
  PROVE  Reopened'
<1>0. evq \in Seq(Event) /\ link \in SUBSET Handle
  BY DEF Types, EvqType, NcpType
<1>1. CASE UNCHANGED <<evq, link>>
  BY <1>1 DEF Reopened
<1>2. CASE evq # <<>> /\ evq' = Tail(evq) /\ UNCHANGED link
  BY <1>0, <1>2, TailReopened DEF Reopened
<1>3. CASE NcpReboot
  BY <1>3 DEF NcpReboot, Reopened, ReopenedIn
<1>4. CASE NcpTick \/ NcpOther
  <2>1. PICK e : e # Boot /\ evq' = Append(evq, e) /\ UNCHANGED link
    BY <1>4, Kinds DEF NcpTick, NcpOther, NcpSends, ncp
  <2> QED BY <1>0, <2>1, AppendReopened DEF Reopened
<1>5. ASSUME NEW h \in Handle, GattClient(h)
      PROVE  Reopened'
  <2>1. PICK e : e # Boot /\ evq' = Append(evq, e) /\ UNCHANGED link
    BY <1>5, Kinds DEF GattClient, NcpFinds, NcpCompletes, NcpSends
  <2> QED BY <1>0, <2>1, AppendReopened DEF Reopened
<1>6. ASSUME NEW h \in Handle, NcpOpen(h)
      PROVE  Reopened'
  <2>1. Opened(h) # Boot /\ evq' = Append(evq, Opened(h)) /\ link' = link \cup {h}
    BY <1>6, Kinds DEF NcpOpen, NcpSends
  <2> QED BY <1>0, <2>1, AppendReopened DEF Reopened
<1>7. ASSUME NEW h \in Handle, NcpClose(h)
      PROVE  Reopened'
  <2>1. link' \subseteq link
    BY <1>7 DEF NcpClose
  <2>2. CASE evq' = Append(evq, Closed(h))
    BY <1>0, <2>1, <2>2, Kinds, AppendReopened DEF Reopened
  <2>3. CASE evq' = evq \o <<Completed(h), Closed(h)>>
    <3>1. /\ Append(evq, Completed(h)) \in Seq(Event)
          /\ evq' = Append(Append(evq, Completed(h)), Closed(h))
      BY <1>0, <2>3, Makes, AppendTwo
    <3>2. ReopenedIn(Append(evq, Completed(h)), link)
      BY <1>0, Kinds, AppendReopened DEF Reopened
    <3> QED BY <2>1, <3>1, <3>2, Kinds, AppendReopened DEF Reopened
  <2> QED BY <1>7, <2>2, <2>3 DEF NcpClose
<1> QED BY <1>1, <1>2, <1>3, <1>4, <1>5, <1>6, <1>7, EvqChanges

-----------------------------------------------------------------------------
(* The lists *)

\* An element that is opened or closed has no lists.
LEMMA FiledTable ==
  ASSUME TableType, Filed, NEW h \in Handle,
         connection_opened(h) \/ connection_closed(h)
  PROVE  Filed'
<1>1. table \in Seq(Elem) /\ \A x : Element(x).attrs = {}
  BY DEF TableType, Elem, Element
<1>2. ASSUME NEW i, NEW x, table' = [table EXCEPT ![i] = Element(x)]
      PROVE  Filed'
  BY <1>1, <1>2 DEF Filed
<1>3. ASSUME table' = <<Element(h)>> \o table
      PROVE  Filed'
  <2>1. Element(h) \in Elem
    BY DEF Element, Elem
  <2>2. \A i \in DOMAIN table' : IF i = 1 THEN table'[i] = Element(h)
                                 ELSE i - 1 \in DOMAIN table /\ table'[i] = table[i - 1]
    BY <1>1, <1>3, <2>1
  <2> QED BY <1>1, <2>2 DEF Filed
<1>4. table' = table => Filed'
  BY DEF Filed
<1> QED BY <1>2, <1>3, <1>4 DEF connection_opened, connection_closed

\* An attribute that is added is filed under the parent it comes with.
LEMMA FiledAdd ==
  ASSUME TableType, Filed, NEW h \in Handle, Open(h), NEW a \in Attr, NEW p,
         p = ParentOf[a], Add(h, a, p)
  PROVE  Filed'
<1> DEFINE i == First(Elements(h))
<1>1. CASE table' = table
  BY <1>1 DEF Filed
<1>2. CASE table' = [table EXCEPT ![i].attrs = @ \cup {[attr |-> a, parent |-> p]}]
  <2>1. \A j \in DOMAIN table' :
          j \in DOMAIN table /\ \A x \in table'[j].attrs :
             x \in table[j].attrs \/ x = [attr |-> a, parent |-> p]
    <3> HIDE DEF i
    <3>1. table \in Seq(Elem)
      BY DEF TableType, Elem
    <3>2. PICK n \in Nat : table \in [1 .. n -> Elem]
      BY <3>1, SeqDef
    <3> QED BY <1>2, <3>2 DEF Elem
  <2> QED BY <2>1 DEF Filed
<1> QED BY <1>1, <1>2 DEF Add

-----------------------------------------------------------------------------
(* Calm, action by action *)

\* The end of an event, if the handlers left a queue that the rest of the
\* events serves.
LEMMA EndsCalm ==
  ASSUME Types, NEW e, Takes(e), NEW ret \in BOOLEAN, NEW q, EndsOrGoesOn(ret, q),
         UNCHANGED <<new, proc>>,
         ServedBy(q, Tail(evq), proc),
         q # <<>> /\ ret => NoneIn(Tail(evq), proc)
  PROVE  Fresh' /\ ServedBy(queue, evq, proc)'
<1>0. new' = NoCommand /\ evq' = Tail(evq) /\ proc' = proc /\ evq' \in Seq(Event)
  BY DEF Takes, Types, EvqType
<1>1. CASE cmd = "DISCOVER" /\ ret
  <2>1. queue' = <<>>
    BY <1>1 DEF EndsOrGoesOn
  <2>2. q = <<>> => ServedBy(<<>>, evq', proc')
    BY <1>0
  <2>3. q # <<>> => ServedBy(<<>>, evq', proc')
    BY <1>0, <1>1, NoneServes, Zenon
  <2> QED BY <1>0, <2>1, <2>2, <2>3 DEF Fresh
<1>2. CASE ~(cmd = "DISCOVER" /\ ret)
  <2>1. queue' = q /\ stop' = ret
    BY <1>2 DEF EndsOrGoesOn
  <2> QED BY <1>0, <2>1 DEF Fresh
<1> QED BY <1>1, <1>2

\* Events that leave the queue of requests alone.
LEMMA EndsAlone ==
  ASSUME Types, Calm, NEW e, Takes(e), EndsOrGoesOn(stop, queue),
         UNCHANGED <<new, proc>>
  PROVE  Fresh' /\ ServedBy(queue, evq, proc)'
<1>1. evq \in Seq(Event) /\ evq # <<>> /\ stop \in BOOLEAN
  BY DEF Types, EvqType, LoopType, Takes
<1>2. ServedBy(queue, Tail(evq), proc)
  BY <1>1, TailServed DEF Calm
<1>3. queue # <<>> /\ stop => NoneIn(Tail(evq), proc)
  BY <1>1, NoneServes DEF Calm, Fresh
<1> QED BY <1>1, <1>2, <1>3, EndsCalm

\* A result of a connection, or the news of its end, is on its way.
LEMMA NewsInFlight ==
  ASSUME EvqType, NEW i \in DOMAIN evq, NEW h \in Handle,
         \/ evq[i] = Opened(h) \/ evq[i] = Closed(h)
         \/ IsResult(evq[i]) /\ evq[i].conn = h
  PROVE  InFlight(h)
BY DEF InFlight, IsResult, Tick, Boot, Other, Completed, Opened, Closed

\* The results are of handles.
LEMMA ResultHandles ==
  ASSUME NEW e \in Event, IsResult(e)
  PROVE  e.conn \in Handle /\ (e.kind = "completed" => e = Completed(e.conn))
BY DEF Event, IsResult, Tick, Boot, Other, Found, Completed

\* A request that starts finds nothing on the way of its connection.
LEMMA TickCalm ==
  ASSUME Types, Reopened, Calm, HandleTick, calm'
  PROVE  Calm'
<1>0. /\ evq \in Seq(Event) /\ evq # <<>> /\ stop \in BOOLEAN
      /\ proc \in [Handle -> (SUBSET Attr) \cup {Idle}]
      /\ evq' = Tail(evq) /\ new = NoCommand /\ Takes(Tick)
  BY DEF Types, EvqType, LoopType, NcpType, HandleTick, Takes
<1>1. Filed' /\ ~crashed'
  BY DEF HandleTick, Calm, Filed
<1>2. CASE proc' = proc /\ Listed("discover") /\ queue # <<>>
  <2>1. EndsOrGoesOn(FALSE, queue)
    BY <1>2 DEF HandleTick, QueueAfterStart
  <2>2. ServedBy(queue, Tail(evq), proc)
    BY <1>0, TailServed DEF Calm
  <2>3. UNCHANGED <<new, proc>>
    BY <1>2 DEF HandleTick
  <2> QED BY <1>0, <1>1, <2>1, <2>2, <2>3, EndsCalm DEF Calm
<1>3. CASE ~(Listed("discover") /\ queue # <<>>)
  <2> DEFINE ret == stop \/ Listed("discover")
  <2>1. EndsOrGoesOn(ret, queue) /\ ret \in BOOLEAN /\ UNCHANGED <<new, proc>>
    BY <1>0, <1>3 DEF HandleTick, Listed
  <2>2. ServedBy(queue, Tail(evq), proc)
    BY <1>0, TailServed DEF Calm
  <2>3. queue # <<>> /\ ret => NoneIn(Tail(evq), proc)
    BY <1>0, <1>3, NoneServes DEF Calm, Fresh
  <2> HIDE DEF ret
  <2> QED BY <1>0, <1>1, <2>1, <2>2, <2>3, EndsCalm DEF Calm
<1>4. CASE proc' # proc
  <2> DEFINE q == Head(queue)
             h == q.conn
  <2>1. /\ Listed("discover") /\ queue # <<>>
        /\ h \in link /\ proc[h] = Idle /\ ~InFlight(h)
        /\ proc' = [proc EXCEPT ![h] = Children(q.of)]
        /\ EndsOrGoesOn(FALSE, queue)
    BY <1>4 DEF HandleTick, Runs, QueueAfterStart
  <2>2. queue' = queue /\ stop' = FALSE /\ new' = NoCommand
    BY <1>0, <2>1 DEF EndsOrGoesOn, HandleTick
  <2>3. Fresh'
    BY <2>2 DEF Fresh
  <2>4. h \in Handle
    BY <2>1 DEF Types, NcpType
  <2>5. ServesIn(q, Tail(evq), proc)
    BY <1>0, <2>1, TailServed DEF Calm, ServedBy
  <2>6. \A i \in DOMAIN Tail(evq) :
          i + 1 \in DOMAIN evq /\ Tail(evq)[i] = evq[i + 1] /\ evq[i + 1] \in Event
    BY <1>0, TailElems
  <2> HIDE DEF q
  <2>7. \A i \in DOMAIN Tail(evq) :
          ~(Tail(evq)[i].kind = "completed" \/ Breaks(Tail(evq)[i], h))
    <3> SUFFICES ASSUME NEW i \in DOMAIN Tail(evq),
                        Tail(evq)[i].kind = "completed" \/ Breaks(Tail(evq)[i], h)
                 PROVE  InFlight(h)
      BY <2>1
    <3> DEFINE e == Tail(evq)[i]
    <3>0. EvqType /\ e = evq[i + 1] /\ i + 1 \in DOMAIN evq
      BY <1>0, <2>6 DEF EvqType
    <3>1. e.kind = "completed" \/ Breaks(e, h)
      OBVIOUS
    <3>2. IsResult(e) => e.conn = h
      BY <2>5 DEF ServesIn
    <3>3. e = Boot => \E j \in DOMAIN evq : evq[j] = Opened(h)
      BY <2>1, <3>0 DEF Reopened, ReopenedIn
    <3> HIDE DEF e, h
    <3>4. CASE e.kind = "completed"
      <4>1. IsResult(e) /\ e.conn = h
        BY <3>4, <3>2 DEF IsResult
      <4> QED BY <2>4, <3>0, <4>1, NewsInFlight
    <3>5. CASE e \in {Opened(h), Closed(h)}
      BY <2>4, <3>0, <3>5, NewsInFlight
    <3>6. CASE e = Boot
      <4>1. PICK j \in DOMAIN evq : evq[j] = Opened(h)
        BY <3>6, <3>3
      <4> QED BY <2>4, <3>0, <4>1, NewsInFlight
    <3> QED BY <3>4, <3>5, <3>6, <3>1 DEF Breaks
  <2>8. \A g \in Handle : proc'[g] # Idle =>
          g = h /\ proc'[g] \subseteq Children(q.of)
    BY <1>0, <2>1, <2>5 DEF ServesIn
  <2>9. ServesIn(q, evq', proc')
    BY <1>0, <2>5, <2>7, <2>8 DEF ServesIn
  <2> QED BY <1>1, <2>1, <2>2, <2>3, <2>9 DEF Calm, ServedBy, q
<1> QED BY <1>2, <1>3, <1>4

\* A reboot ends the request, and the queue with it.
LEMMA BootCalm ==
  ASSUME Types, Calm, HandleBoot
  PROVE  Calm'
<1>0. /\ evq \in Seq(Event) /\ evq # <<>> /\ Head(evq) = Boot
      /\ evq' = Tail(evq) /\ new' = NoCommand /\ proc' = proc /\ queue' = <<>>
      /\ Tail(evq) \in Seq(Event)
  BY DEF Types, EvqType, HandleBoot, Takes, ncp
<1>1. Filed' /\ ~crashed'
  BY DEF HandleBoot, Calm, Filed
<1>2. Fresh'
  BY <1>0 DEF Fresh
<1>3. ServedBy(<<>>, Tail(evq), proc)
  <2>1. CASE queue = <<>>
    BY <1>0, <2>1, TailServed DEF Calm
  <2>2. CASE queue # <<>>
    <3>1. ServesIn(Head(queue), evq, proc) /\ Breaks(Head(evq), Head(queue).conn)
      BY <1>0, <2>2 DEF Calm, ServedBy, Breaks
    <3>2. NoneIn(Tail(evq), proc)
      BY <1>0, <3>1, AfterLast
    <3> QED BY <1>0, <3>2, NoneServes
  <2> QED BY <2>1, <2>2
<1> QED BY <1>0, <1>1, <1>2, <1>3 DEF Calm

\* The requests of a connection go with it, the others stay in their order.
LEMMA ClosedCalm ==
  ASSUME Types, Calm, NEW h \in Handle, HandleClosed(h)
  PROVE  Calm'
<1> DEFINE q == IF Open(h) THEN discover_clear_by_connection(h) ELSE queue
<1>0. /\ evq \in Seq(Event) /\ evq # <<>> /\ Head(evq) = Closed(h)
      /\ Takes(Closed(h)) /\ EndsOrGoesOn(stop, q) /\ UNCHANGED <<new, proc>>
      /\ stop \in BOOLEAN /\ queue \in Seq(Request) /\ Tail(evq) \in Seq(Event)
  BY DEF Types, EvqType, LoopType, QueueType, HandleClosed, Takes, ncp
<1>1. Filed' /\ ~crashed'
  BY FiledTable DEF HandleClosed, Calm, Types
<1>2. CASE queue # <<>> /\ Head(queue).conn = h
  <2>1. ServesIn(Head(queue), evq, proc) /\ Breaks(Head(evq), Head(queue).conn)
    BY <1>0, <1>2 DEF Calm, ServedBy, Breaks
  <2>2. NoneIn(Tail(evq), proc)
    BY <1>0, <2>1, AfterLast
  <2>3. ServedBy(q, Tail(evq), proc)
    <3> HIDE DEF q
    <3> QED BY <1>0, <2>2, NoneServes
  <2> HIDE DEF q
  <2> QED BY <1>0, <1>1, <2>2, <2>3, EndsCalm DEF Calm
<1>3. CASE ~(queue # <<>> /\ Head(queue).conn = h)
  <2>1. /\ queue = <<>> => q = <<>>
        /\ queue # <<>> => q # <<>> /\ Head(q) = Head(queue)
    <3> DEFINE I == {i \in DOMAIN queue : queue[i].conn # h}
    <3>1. queue = <<>> => I = {}
      OBVIOUS
    <3>2. queue # <<>> => 1 \in I /\ Head(queue) = queue[1]
      BY <1>0, <1>3, TailElems
    <3>3. I \in SUBSET (DOMAIN queue)
      OBVIOUS
    <3>4. q = queue \/ q = Subsequence(queue, I)
      BY DEF discover_clear_by_connection
    <3> HIDE DEF q, I
    <3> QED BY <1>0, <3>1, <3>2, <3>3, <3>4, SubsequenceOf
  <2>2. ServedBy(q, Tail(evq), proc)
    <3> HIDE DEF q
    <3>1. ServedBy(queue, Tail(evq), proc)
      BY <1>0, TailServed DEF Calm
    <3> QED BY <2>1, <3>1 DEF ServedBy
  <2> HIDE DEF q
  <2>3. q # <<>> /\ stop => NoneIn(Tail(evq), proc)
    BY <1>0, <2>1, NoneServes DEF Calm, Fresh
  <2> QED BY <1>0, <1>1, <2>2, <2>3, EndsCalm DEF Calm
<1> QED BY <1>2, <1>3

\* After the completion of a request comes nothing of it: the next one's turn.
LEMMA CompletedCalm ==
  ASSUME Types, Calm, NEW h \in Handle, HandleCompleted(h)
  PROVE  Calm'
<1> DEFINE q == IF queue = <<>> THEN queue ELSE Tail(queue)
<1>0. /\ evq \in Seq(Event) /\ evq # <<>> /\ Head(evq) = Completed(h)
      /\ Takes(Completed(h)) /\ EndsOrGoesOn(stop, q) /\ UNCHANGED <<new, proc>>
      /\ stop \in BOOLEAN /\ Tail(evq) \in Seq(Event)
  BY DEF Types, EvqType, LoopType, HandleCompleted, Takes, ncp
<1>1. Filed' /\ ~crashed'
  BY DEF HandleCompleted, Calm, Filed
<1>2. CASE queue = <<>>
  <2>1. q = <<>> /\ ServedBy(q, Tail(evq), proc)
    BY <1>0, <1>2, TailServed DEF Calm
  <2> HIDE DEF q
  <2> QED BY <1>0, <1>1, <2>1, EndsCalm DEF Calm
<1>3. CASE queue # <<>>
  <2>1. ServesIn(Head(queue), evq, proc) /\ Head(evq).kind = "completed"
    BY <1>0, <1>3, Kinds DEF Calm, ServedBy
  <2>2. NoneIn(Tail(evq), proc)
    BY <1>0, <2>1, AfterLast
  <2> HIDE DEF q
  <2>3. ServedBy(q, Tail(evq), proc)
    BY <1>0, <2>2, NoneServes
  <2> QED BY <1>0, <1>1, <2>2, <2>3, EndsCalm DEF Calm
<1> QED BY <1>2, <1>3

\* An attribute that comes was asked for, by the head of the queue.
LEMMA FoundAsked ==
  ASSUME Types, Calm, NEW h, NEW a, Takes(Found(h, a))
  PROVE  queue # <<>> /\ ParentOf[a] = Head(queue).of
<1>1. 1 \in DOMAIN evq /\ evq[1] = Found(h, a)
  BY TailElems DEF Takes, Types, EvqType
<1>2. IsResult(evq[1]) /\ evq[1].kind = "found" /\ evq[1].attr = a
  BY <1>1, Kinds DEF IsResult
<1> QED BY <1>1, <1>2 DEF Calm, ServedBy, UnaskedIn, ServesIn

\* It is filed, and its children are asked for after what was asked before.
LEMMA FoundCalm ==
  ASSUME Types, Calm, NEW h \in Handle, NEW a \in Attr,
         HandleService(h, a) \/ HandleChild(h, a) \/ HandleStray(h, a) \/ Crash(h, a)
  PROVE  Calm'
<1>0. /\ evq \in Seq(Event) /\ evq # <<>> /\ Takes(Found(h, a))
      /\ stop \in BOOLEAN /\ queue \in Seq(Request)
  BY DEF Types, EvqType, LoopType, QueueType, HandleService, HandleChild,
         HandleStray, Crash, Takes
<1>1. queue # <<>> /\ ParentOf[a] = Head(queue).of
  BY <1>0, FoundAsked
<1>2. /\ ServedBy(queue, Tail(evq), proc)
      /\ stop => NoneIn(Tail(evq), proc)
  BY <1>0, <1>1, TailServed, NoneServes DEF Calm, Fresh
<1>3. ASSUME NEW q, q = queue \/ q = Ask(h, a), EndsOrGoesOn(stop, q),
             UNCHANGED <<new, proc>>
      PROVE  Fresh' /\ ServedBy(queue, evq, proc)'
  <2>1. q # <<>> /\ Head(q) = Head(queue)
    BY <1>0, <1>1, <1>3 DEF Ask
  <2>2. ServedBy(q, Tail(evq), proc)
    BY <1>1, <1>2, <2>1 DEF ServedBy
  <2> QED BY <1>0, <1>2, <1>3, <2>2, EndsCalm
<1>4. CASE HandleService(h, a)
  <2>1. Filed' /\ ~crashed'
    BY <1>4, FiledAdd, TreeAssumption DEF HandleService, Calm, Types
  <2> QED BY <1>3, <1>4, <2>1 DEF HandleService, Calm, ncp
<1>5. CASE HandleChild(h, a)
  <2>1. Filed' /\ ~crashed'
    BY <1>1, <1>5, FiledAdd DEF HandleChild, Calm, Types
  <2> QED BY <1>3, <1>5, <2>1 DEF HandleChild, Calm, ncp
<1>6. CASE HandleStray(h, a)
  <2>1. Filed' /\ ~crashed'
    BY <1>6 DEF HandleStray, Calm, Filed
  <2> QED BY <1>3, <1>6, <2>1 DEF HandleStray, Calm, ncp
<1>7. CASE Crash(h, a)
  BY <1>1, <1>7 DEF Crash
<1> QED BY <1>4, <1>5, <1>6, <1>7

\* The other events do not touch the requests.
LEMMA OtherCalm ==
  ASSUME Types, Calm, HandleOther \/ \E h \in Handle : HandleOpened(h)
  PROVE  Calm'
<1>1. CASE HandleOther
  <2>1. Filed' /\ ~crashed'
    BY <1>1 DEF HandleOther, Calm, Filed
  <2> QED BY <1>1, <2>1, EndsAlone DEF HandleOther, Calm, ncp
<1>2. ASSUME NEW h \in Handle, HandleOpened(h)
      PROVE  Calm'
  <2>1. Filed' /\ ~crashed'
    BY <1>2, FiledTable DEF HandleOpened, Calm, Types
  <2> QED BY <1>2, <2>1, EndsAlone DEF HandleOpened, Calm, ncp
<1> QED BY <1>1, <1>2

\* A command starts when the NCP is at rest.
LEMMA CommandCalm ==
  ASSUME Types, Calm, calm',
         RunsCommand \/ \E c \in Command : SingleShot(c) \/ Cleanup(c)
  PROVE  Calm'
<1>0. evq \in Seq(Event) /\ evq' = evq /\ NoCommand.op = "none"
  BY DEF Types, EvqType, RunsCommand, discover_cmd_handler, Refused, Gatt, Scan,
         SingleShot, Cleanup, NoCommand
<1>1. Filed' /\ ~crashed'
  <2>1. UNCHANGED <<table, crashed>>
    BY DEF RunsCommand, discover_cmd_handler, Refused, Gatt, Scan, SingleShot, Cleanup
  <2> QED BY <2>1 DEF Calm, Filed
<1>2. ASSUME NEW c \in Command, SingleShot(c)
      PROVE  Calm'
  BY <1>0, <1>1, <1>2 DEF SingleShot, ncp, Calm, Fresh
<1>3. ASSUME NEW c \in Command, Cleanup(c)
      PROVE  Calm'
  <2>1. ~Busy /\ proc' = proc
    BY <1>3 DEF Cleanup, ncp
  <2>2. \A h \in Handle : proc[h] = Idle
    BY <2>1 DEF Busy, Running
  <2>3. \A i \in DOMAIN evq : ~IsResult(evq[i])
    <3> SUFFICES ASSUME NEW i \in DOMAIN evq, IsResult(evq[i]) PROVE FALSE
      OBVIOUS
    <3>1. evq[i] \in Event
      BY <1>0
    <3>2. evq[i].conn \in Handle
      BY <3>1, ResultHandles
    <3>3. InFlight(evq[i].conn)
      BY <1>0, <3>2, NewsInFlight DEF EvqType
    <3> QED BY <2>1, <3>2, <3>3 DEF Busy
  <2>4. NoneIn(evq, proc)
    BY <2>2, <2>3 DEF NoneIn
  <2>5. \A b : ServedBy(b, evq, proc)
    BY <1>0, <2>4, NoneServes
  <2> QED BY <1>0, <1>1, <2>1, <2>4, <2>5 DEF Calm, Fresh
<1>4. ASSUME RunsCommand
      PROVE  NoneIn(evq, proc) /\ new' = NoCommand /\ stop' = stop
  <2>1. new # NoCommand /\ new' = NoCommand /\ stop' = stop
    <3>1. new.op # "none"
      BY <1>4 DEF RunsCommand, discover_cmd_handler, Refused, Gatt, Scan
    <3> QED BY <1>0, <1>4, <3>1
            DEF RunsCommand, discover_cmd_handler, Refused, Gatt, Scan
  <2> QED BY <2>1 DEF Calm, Fresh
<1>5. CASE discover_cmd_handler \/ Refused \/ Scan
  <2>1. proc' = proc /\ RunsCommand
    BY <1>5 DEF discover_cmd_handler, Refused, Scan, ncp, RunsCommand
  <2>2. \A b : ServedBy(b, evq, proc)
    BY <1>0, <1>4, <2>1, NoneServes
  <2> QED BY <1>0, <1>1, <1>4, <2>1, <2>2 DEF Calm, Fresh
<1>6. CASE Gatt
  <2>0. RunsCommand /\ queue' = queue
    BY <1>6 DEF RunsCommand, Gatt
  <2>1. CASE proc' = proc
    <3>1. ServedBy(queue, evq, proc)
      BY <1>0, <1>4, <2>0, NoneServes
    <3> QED BY <1>0, <1>1, <1>4, <2>0, <2>1, <3>1 DEF Calm, Fresh
  <2>2. CASE proc' # proc
    <3>1. queue = <<>> /\ \E g : proc' = [proc EXCEPT ![g] = {}]
      BY <1>6, <2>2 DEF Gatt
    <3>2. proc \in [Handle -> (SUBSET Attr) \cup {Idle}]
      BY DEF Types, NcpType
    <3>3. \A g \in Handle : proc'[g] \in {Idle, {}}
      BY <1>4, <2>0, <3>1, <3>2 DEF NoneIn
    <3>4. \A i \in DOMAIN evq : evq[i].kind # "found"
      BY <1>4, <2>0 DEF NoneIn, IsResult
    <3>5. UnaskedIn(evq', proc')
      BY <1>0, <3>3, <3>4 DEF UnaskedIn
    <3> QED BY <1>1, <1>4, <2>0, <3>1, <3>5 DEF Calm, Fresh, ServedBy
  <2> QED BY <2>1, <2>2
<1> QED BY <1>2, <1>3, <1>5, <1>6 DEF RunsCommand

\* Procedures that end without a word.
LEMMA LessServes ==
  ASSUME NEW b, NEW s, NEW p, NEW r, \A h \in Handle : r[h] \in {p[h], Idle}
  PROVE  /\ ServedBy(b, s, p) => ServedBy(b, s, r)
         /\ NoneIn(s, p) => NoneIn(s, r)
<1>1. UnaskedIn(s, p) => UnaskedIn(s, r)
  BY DEF UnaskedIn
<1>2. \A q : ServesIn(q, s, p) => ServesIn(q, s, r)
  BY DEF ServesIn
<1>3. NoneIn(s, p) => NoneIn(s, r)
  BY DEF NoneIn
<1> QED BY <1>1, <1>2, <1>3 DEF ServedBy

\* A result of a procedure that runs, whatever runs it.
LEMMA ResultServes ==
  ASSUME Types, Calm, NEW h \in Handle, proc[h] # Idle, NEW e, NEW r,
         \/ \E a \in proc[h] : /\ e = Found(h, a)
                               /\ r = [proc EXCEPT ![h] = @ \ {a}]
         \/ e = Completed(h) /\ r = [proc EXCEPT ![h] = Idle]
  PROVE  ServedBy(queue, Append(evq, e), r) /\ ~NoneIn(evq, proc)
<1>0. /\ evq \in Seq(Event) /\ proc \in [Handle -> (SUBSET Attr) \cup {Idle}]
      /\ proc[h] \in SUBSET Attr
  BY DEF Types, EvqType, NcpType
<1>1. ~NoneIn(evq, proc)
  BY DEF NoneIn
<1>2. /\ r \in [Handle -> (SUBSET Attr) \cup {Idle}]
      /\ \A g \in Handle : g # h => r[g] = proc[g]
      /\ \/ \E a \in proc[h] : e = Found(h, a) /\ r[h] \subseteq proc[h]
         \/ e = Completed(h) /\ r[h] = Idle
  BY <1>0
<1>3. CASE queue # <<>>
  <2>1. ServesIn(Head(queue), evq, proc)
    BY <1>3 DEF Calm, ServedBy
  <2>2. ServesIn(Head(queue), Append(evq, e), r)
    BY <1>0, <1>2, <2>1, ResultAppend
  <2> QED BY <1>1, <1>3, <2>2 DEF ServedBy
<1>4. CASE queue = <<>>
  <2>1. UnaskedIn(evq, proc)
    BY <1>4 DEF Calm, ServedBy
  <2>2. proc[h] = {} /\ e = Completed(h) /\ e.kind = "completed" /\ r[h] = Idle
    BY <1>2, <2>1, Kinds DEF UnaskedIn
  <2>3. \A i \in DOMAIN Append(evq, e) : Append(evq, e)[i].kind # "found"
    BY <1>0, <2>1, <2>2, AppendElems DEF UnaskedIn
  <2>4. \A g \in Handle : r[g] \in {Idle, {}}
    BY <1>2, <2>1, <2>2 DEF UnaskedIn
  <2> QED BY <1>1, <1>4, <2>3, <2>4 DEF ServedBy, UnaskedIn
<1> QED BY <1>3, <1>4

\* The NCP reports results of what it was asked, and news of connections that
\* run nothing.
LEMMA NcpCalm ==
  ASSUME Types, Linked, Calm,
         \/ NcpTick \/ NcpOther \/ NcpReboot
         \/ \E h \in Handle : GattClient(h) \/ NcpOpen(h) \/ NcpClose(h)
  PROVE  Calm'
<1>0. /\ evq \in Seq(Event) /\ proc \in [Handle -> (SUBSET Attr) \cup {Idle}]
      /\ UNCHANGED host
  BY DEF Types, EvqType, NcpType, NcpTick, NcpOther, NcpReboot, GattClient,
         NcpFinds, NcpCompletes, NcpOpen, NcpClose
<1>1. Filed' /\ ~crashed' /\ UNCHANGED <<queue, new, stop>>
  BY <1>0 DEF host, Calm, Filed
<1>2. ASSUME NEW e \in Event, ~IsResult(e), evq' = Append(evq, e),
             \A g \in Handle : proc'[g] \in {proc[g], Idle},
             \A g \in Handle : proc'[g] # Idle => ~Breaks(e, g)
      PROVE  Calm'
  <2>1. ServedBy(queue, evq, proc') /\ (NoneIn(evq, proc) => NoneIn(evq, proc'))
    BY <1>2, LessServes DEF Calm
  <2>2. /\ ServedBy(queue, Append(evq, e), proc')
        /\ NoneIn(evq, proc) => NoneIn(Append(evq, e), proc')
    BY <1>0, <1>2, <2>1, QuietAppend
  <2> QED BY <1>1, <1>2, <2>2 DEF Calm, Fresh
<1>3. CASE NcpTick \/ NcpOther
  <2>1. proc' = proc /\ \E e \in {Tick, Other} : evq' = Append(evq, e)
    BY <1>3 DEF NcpTick, NcpOther, NcpSends, ncp
  <2> QED BY <1>2, <2>1, Makes, Kinds
<1>4. CASE NcpReboot
  <2>1. /\ evq' = Append(evq, Boot)
        /\ \A g \in Handle : proc'[g] = Idle
    BY <1>4 DEF NcpReboot
  <2> QED BY <1>2, <2>1, Makes, Kinds
<1>5. ASSUME NEW h \in Handle, GattClient(h)
      PROVE  Calm'
  <2>1. PICK e : /\ evq' = Append(evq, e) /\ proc[h] # Idle
                 /\ \/ \E a \in proc[h] : /\ e = Found(h, a)
                                          /\ proc' = [proc EXCEPT ![h] = @ \ {a}]
                    \/ e = Completed(h) /\ proc' = [proc EXCEPT ![h] = Idle]
    <3>1. {} # Idle
      BY DEF Idle
    <3>2. CASE NcpCompletes(h)
      BY <3>1, <3>2 DEF NcpCompletes, NcpSends
    <3>3. CASE \E a \in Attr : NcpFinds(h, a)
      BY <3>3 DEF NcpFinds, NcpSends, Running
    <3> QED BY <1>5, <3>2, <3>3 DEF GattClient
  <2>2. ServedBy(queue, Append(evq, e), proc') /\ ~NoneIn(evq, proc)
    BY <2>1, ResultServes
  <2> QED BY <1>1, <2>1, <2>2 DEF Calm, Fresh
<1>6. ASSUME NEW h \in Handle, NcpOpen(h)
      PROVE  Calm'
  <2>1. evq' = Append(evq, Opened(h)) /\ proc' = proc /\ proc[h] = Idle
    BY <1>6 DEF NcpOpen, NcpSends, Linked
  <2>2. Opened(h) \in Event /\ ~IsResult(Opened(h))
    BY Makes, Kinds
  <2>3. \A g \in Handle : proc'[g] # Idle => ~Breaks(Opened(h), g)
    BY <2>1, Kinds DEF Breaks
  <2> QED BY <1>2, <2>1, <2>2, <2>3
<1>7. ASSUME NEW h \in Handle, NcpClose(h)
      PROVE  Calm'
  <2>0. proc' = [proc EXCEPT ![h] = Idle]
    BY <1>7 DEF NcpClose
  <2>1. Closed(h) \in Event /\ ~IsResult(Closed(h)) /\ Completed(h) \in Event
    BY Makes, Kinds
  <2>2. \A g \in Handle : /\ proc'[g] \in {proc[g], Idle}
                          /\ proc'[g] # Idle => ~Breaks(Closed(h), g)
    BY <1>0, <2>0, Kinds DEF Breaks
  <2>3. CASE evq' = Append(evq, Closed(h))
    BY <1>2, <2>1, <2>2, <2>3
  <2>4. CASE h \in Running /\ evq' = evq \o <<Completed(h), Closed(h)>>
    <3> DEFINE t == Append(evq, Completed(h))
    <3>1. t \in Seq(Event) /\ evq' = Append(t, Closed(h)) /\ proc[h] # Idle
      BY <1>0, <2>1, <2>4, AppendTwo DEF Running
    <3>2. ServedBy(queue, t, proc') /\ ~NoneIn(evq, proc)
      BY <2>0, <3>1, ResultServes
    <3>3. ServedBy(queue, Append(t, Closed(h)), proc')
      <4> HIDE DEF t
      <4> QED BY <2>1, <2>2, <3>1, <3>2, QuietAppend
    <3> QED BY <1>1, <3>1, <3>2, <3>3 DEF Calm, Fresh
  <2> QED BY <1>7, <2>3, <2>4 DEF NcpClose
<1> QED BY <1>3, <1>4, <1>5, <1>6, <1>7

-----------------------------------------------------------------------------
(* The invariant, and what it shows *)

\* It holds at the start.
LEMMA InitServed == Init => ServedInv
<1> SUFFICES ASSUME Init PROVE ServedInv
  OBVIOUS
<1>1. /\ queue = <<>> /\ evq = <<>> /\ table = <<>> /\ crashed = FALSE
      /\ stop = FALSE /\ new = NoCommand
      /\ link = {} /\ \A h \in Handle : proc[h] = Idle
  BY DEF Init
<1>2. Linked /\ Reopened
  BY <1>1 DEF Linked, Reopened, ReopenedIn
<1>3. Calm
  BY <1>1 DEF Calm, Fresh, ServedBy, UnaskedIn, Filed
<1> QED BY <1>2, <1>3 DEF ServedInv

\* And every step keeps it.
LEMMA ServedStep ==
  ASSUME Types, ServedInv, [Next]_vars
  PROVE  ServedInv'
<1>1. Linked' /\ Reopened'
  BY LinkedStep, ReopenedStep DEF ServedInv
<1>2. ASSUME calm'
      PROVE  Calm'
  <2>1. calm
    BY <1>2 DEF Types, PastType, Next, HandlesEvent, RunsCommand, GattClient, vars,
       past, HandleTick, HandleBoot, HandleOther, HandleOpened, HandleClosed,
       HandleCompleted, HandleService, HandleChild, HandleStray, Crash,
       discover_cmd_handler, Refused, Scan, Gatt, SingleShot, Cleanup, NcpTick,
       NcpOther, NcpFinds, NcpCompletes, NcpOpen, NcpClose, NcpReboot
  <2>2. Linked /\ Reopened /\ Calm
    BY <2>1 DEF ServedInv
  <2>3. CASE UNCHANGED vars
    BY <2>2, <2>3 DEF vars, host, ncp, Calm, Fresh, Filed
  <2>4. CASE HandlesEvent
    BY <1>2, <2>2, <2>4, TickCalm, BootCalm, ClosedCalm, CompletedCalm, FoundCalm,
       OtherCalm DEF HandlesEvent
  <2>5. CASE RunsCommand \/ \E c \in Command : SingleShot(c) \/ Cleanup(c)
    BY <1>2, <2>2, <2>5, CommandCalm
  <2>6. CASE \/ NcpTick \/ NcpOther \/ NcpReboot
             \/ \E h \in Handle : GattClient(h) \/ NcpOpen(h) \/ NcpClose(h)
    BY <2>2, <2>6, NcpCalm
  <2> QED BY <2>3, <2>4, <2>5, <2>6 DEF Next
<1> QED BY <1>1, <1>2 DEF ServedInv

\* The invariant.
LEMMA ServedHolds == Spec => []ServedInv
<1>1. Types /\ ServedInv /\ [Next]_vars => ServedInv'
  BY ServedStep
<1> QED BY <1>1, TypesHold, InitServed, PTL DEF Spec

\* As long as no procedure is started on a connection of which there is news
\* on the way, and no command cuts into one, each attribute is filed under its
\* own parent (discover.c:248-295, service.c), on any number of connections,
\* for any tree of attributes, whatever connections open and close and however
\* often the NCP reboots.
THEOREM ParentsOwn == Spec => []OwnParent
<1>1. ServedInv => OwnParent
  BY DEF ServedInv, Calm, Filed, OwnParent
<1> QED BY <1>1, ServedHolds, PTL

\* Nor does the daemon, then, take the parent from a queue that is empty
\* (discover.c:260, 290): every attribute that comes was asked for.
THEOREM ResultsHaveRequests == Spec => []ResultsAsked
<1>1. ServedInv => ResultsAsked
  BY DEF ServedInv, Calm, ResultsAsked
<1> QED BY <1>1, ServedHolds, PTL
=============================================================================
