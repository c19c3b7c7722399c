----------------------------- MODULE GattProofs -----------------------------
(***************************************************************************)
(* Proofs about Gatt, for every set of handles and characteristics and     *)
(* every bound: types, that a notification that is disabled is in the      *)
(* list, that the lists are what the devices configured, and that a        *)
(* command is answered by its own procedure.                               *)
(***************************************************************************)
EXTENDS Gatt, ListLemmas

-----------------------------------------------------------------------------
(* Types, in the groups the actions change *)

Elem == [conn : Handle \cup {Nobody}, known : BOOLEAN, notes : Seq(Note)]
LoopType == /\ cmd \in {"GATT", "OTHER"} /\ new \in Command \cup {NoCommand}
            /\ conf \in {c \in Command : IsAccess(c)} \cup {NoCommand}
            /\ crashed \in BOOLEAN
TableType == table \in Seq(Elem)
NcpType == /\ link \in SUBSET Handle /\ owed \in [Handle -> Seq(Event)]
           /\ config \in [Handle -> [Local -> Flags]]
           /\ indicated \in SUBSET (Handle \X Local)
EvqType == evq \in Seq(Event)
RunType == /\ alone \in BOOLEAN /\ accepted \in BOOLEAN /\ lost \in BOOLEAN
           /\ shown \in SUBSET Answer
PastType == kept \in BOOLEAN /\ late \in BOOLEAN
BoundsType == /\ commands \in 0 .. MaxCommands /\ remotes \in 0 .. MaxRemote
              /\ breaks \in 0 .. MaxBreaks

Types == /\ LoopType /\ TableType /\ NcpType /\ EvqType /\ RunType /\ PastType
         /\ BoundsType
NextTypes == /\ LoopType' /\ TableType' /\ NcpType' /\ EvqType' /\ RunType'
             /\ PastType' /\ BoundsType'

\* The groups make up TypeOK.
LEMMA TypesAreTypes == Types <=> TypeOK
BY DEF Types, LoopType, TableType, Elem, NcpType, EvqType, RunType, PastType,
       BoundsType, TypeOK

\* The events are events.
LEMMA Makes ==
  ASSUME NEW h \in Handle
  PROVE  /\ \A c \in Characteristic, op \in {"read", "blob", "notification"} :
              Value(h, c, op) \in Event
         /\ \A c \in Described : DescValue(h, c) \in Event
         /\ \A ok \in BOOLEAN : Completed(h, ok) \in Event
         /\ \A l \in Local, f \in Flags : Config(h, l, f) \in Event
         /\ \A l \in Local : Confirmed(h, l) \in Event
         /\ Found(h) \in Event /\ Opened(h) \in Event /\ Closed(h) \in Event
<1>1. /\ \A c \in Characteristic, op \in {"read", "blob", "notification"} :
           Value(h, c, op) \in Event
      /\ \A c \in Described : DescValue(h, c) \in Event
      /\ \A ok \in BOOLEAN : Completed(h, ok) \in Event
  BY DEF Event, Value, DescValue, Completed
<1>2. /\ \A l \in Local, f \in Flags : Config(h, l, f) \in Event
      /\ \A l \in Local : Confirmed(h, l) \in Event
      /\ Found(h) \in Event /\ Opened(h) \in Event /\ Closed(h) \in Event
  BY DEF Event, Config, Confirmed, Found, Opened, Closed
<1> QED BY <1>1, <1>2

\* What the fields of an event are.
LEMMA Fields ==
  ASSUME NEW e \in Event
  PROVE  /\ e.conn \in Handle
         /\ e.kind = "value" => e.char \in Characteristic
         /\ e.kind = "descriptor" => e.char \in Described
         /\ e.kind = "config" => e.char \in Local /\ e.flags \in Flags
         /\ e.kind = "confirmed" => e.char \in Local
BY DEF Event

\* What the queue of events loses and gains.
LEMMA EvqSteps ==
  ASSUME EvqType
  PROVE  /\ \A e : Takes(e) => EvqType' /\ e \in Event
         /\ \A e \in Event : Append(evq, e) \in Seq(Event)
         /\ \A e, f \in Event : evq \o <<e, f>> \in Seq(Event)
BY DEF EvqType, Takes

\* The first of the indices of a sequence that are wanted is one of them.
LEMMA FirstIsOne ==
  ASSUME NEW S, NEW s \in Seq(S), NEW I \in SUBSET (DOMAIN s), I # {}
  PROVE  First(I) \in I /\ \A j \in I : First(I) <= j
<1>1. DOMAIN s \subseteq Nat
  BY LenProperties
<1>2. \E i \in I : \A j \in I : i <= j
  BY <1>1, Least
<1> QED BY <1>2 DEF First

\* The element of a connection, and its list.
LEMMA IndexIs ==
  ASSUME TableType, NEW h, Open(h)
  PROVE  /\ Index(h) \in DOMAIN table /\ table[Index(h)].conn = h
         /\ table[Index(h)] \in Elem /\ Notes(h) \in Seq(Note)
         /\ \A j \in DOMAIN table : table[j].conn = h => Index(h) <= j
<1>1. Index(h) \in Elements(h) /\ \A j \in Elements(h) : Index(h) <= j
  BY FirstIsOne DEF TableType, Elements, Open, Index
<1>2. Index(h) \in DOMAIN table /\ table[Index(h)] \in Elem
  BY <1>1 DEF TableType, Elements
<1> QED BY <1>1, <1>2 DEF Elements, Elem, Notes

\* The first entry of a characteristic in its list.
LEMMA EntryIs ==
  ASSUME TableType, NEW h, NEW l, Open(h), Finds(h, l)
  PROVE  /\ First(Entries(h, l)) \in DOMAIN Notes(h)
         /\ Notes(h)[First(Entries(h, l))].char = l
<1>1. Notes(h) \in Seq(Note)
  BY IndexIs
<1>2. First(Entries(h, l)) \in Entries(h, l)
  BY <1>1, FirstIsOne DEF Entries, Finds
<1> QED BY <1>2 DEF Entries

\* What is left of a list without an entry.
LEMMA RemovedIs ==
  ASSUME NEW S, NEW q \in Seq(S), NEW i \in DOMAIN q
  PROVE  /\ Removed(q, i) \in Seq(S)
         /\ \A k \in DOMAIN Removed(q, i) : \E j \in DOMAIN q :
              /\ j # i /\ Removed(q, i)[k] = q[j]
              /\ IF k < i THEN j = k ELSE j = k + 1
         /\ \A j \in DOMAIN q : j # i => \E k \in DOMAIN Removed(q, i) :
              /\ Removed(q, i)[k] = q[j]
              /\ IF j < i THEN k = j ELSE k = j - 1
         /\ DOMAIN Removed(q, i) \subseteq Nat /\ DOMAIN q \subseteq Nat
<1> DEFINE n == Len(q) - 1
           r == Removed(q, i)
<1>1. /\ Len(q) \in Nat /\ DOMAIN q = 1 .. Len(q) /\ n \in Nat
      /\ i \in Nat /\ \A j \in DOMAIN q : q[j] \in S
  BY LenProperties
<1>2. DOMAIN r = 1 .. n /\ \A k \in 1 .. n : r[k] = IF k < i THEN q[k] ELSE q[k + 1]
  BY DEF Removed
<1>3. r \in [1 .. n -> S]
  <2>1. \A k \in 1 .. n : k \in DOMAIN q /\ k + 1 \in DOMAIN q
    BY <1>1
  <2>2. \A k \in 1 .. n : r[k] \in S
    BY <1>1, <1>2, <2>1
  <2> QED BY <1>2, <2>2 DEF Removed
<1>4. r \in Seq(S)
  <2> HIDE DEF r
  <2> QED BY <1>1, <1>3, SeqDef
<1>5. \A k \in 1 .. n : \E j \in DOMAIN q :
              /\ j # i /\ r[k] = q[j]
              /\ IF k < i THEN j = k ELSE j = k + 1
  BY <1>1, <1>2
<1>6. \A j \in DOMAIN q : j # i => \E k \in 1 .. n :
              /\ r[k] = q[j]
              /\ IF j < i THEN k = j ELSE k = j - 1
  <2> SUFFICES ASSUME NEW j \in DOMAIN q, j # i
               PROVE  \E k \in 1 .. n : r[k] = q[j] /\ IF j < i THEN k = j ELSE k = j - 1
    OBVIOUS
  <2> DEFINE k == IF j < i THEN j ELSE j - 1
  <2>1. k \in 1 .. n /\ (IF k < i THEN k ELSE k + 1) = j
    BY <1>1
  <2>2. r[k] = q[j]
    BY <1>2, <2>1
  <2> HIDE DEF r
  <2> WITNESS k \in 1 .. n
  <2> QED BY <2>2, <1>1
<1>7. DOMAIN r = 1 .. n /\ DOMAIN r \subseteq Nat /\ DOMAIN q \subseteq Nat
  <2>1. 1 .. n \subseteq Nat /\ 1 .. Len(q) \subseteq Nat
    BY <1>1
  <2> QED BY <1>1, <1>2, <2>1
<1> HIDE DEF n
<1> QED BY <1>4, <1>5, <1>6, <1>7

\* What notify.c makes of a list of notifications is one.
LEMMA NotesSteps ==
  ASSUME TableType, NEW h \in Handle, NEW l \in Local, NEW f \in Flags, Open(h)
  PROVE  /\ Without(h, l) \in Seq(Note) /\ Added(h, l, f) \in Seq(Note)
         /\ AfterConfirmation(h, l) \in Seq(Note)
         /\ \A q \in Seq(Note) : SetNotes(h, q) => TableType'
<1>1. Notes(h) \in Seq(Note)
  BY IndexIs
<1>2. Without(h, l) \in Seq(Note)
  BY <1>1, EntryIs, RemovedIs DEF Without
<1>3. \A g \in Flags : Added(h, l, g) \in Seq(Note)
  <2> SUFFICES ASSUME NEW g \in Flags PROVE Added(h, l, g) \in Seq(Note)
    OBVIOUS
  <2>1. NewNote(l, g) \in Note
    BY DEF NewNote, Note
  <2>2. <<NewNote(l, g)>> \o Notes(h) \in Seq(Note)
    BY <1>1, <2>1
  <2>3. [Notes(h) EXCEPT ![First(Entries(h, l))] = NewNote(l, g)] \in Seq(Note)
    BY <1>1, <2>1, SeqReplace
  <2> QED BY <2>2, <2>3 DEF Added
<1>4. AfterConfirmation(h, l) \in Seq(Note)
  <2>1. "disable" \in Flags
    BY DEF Flags
  <2> QED BY <1>1, <1>3, <2>1 DEF AfterConfirmation
<1>5. \A q \in Seq(Note) : SetNotes(h, q) => TableType'
  <2> SUFFICES ASSUME NEW q \in Seq(Note), SetNotes(h, q) PROVE TableType'
    OBVIOUS
  <2>1. [table[Index(h)] EXCEPT !.notes = q] \in Elem
    BY IndexIs DEF Elem
  <2>2. table' = [table EXCEPT ![Index(h)] = [table[Index(h)] EXCEPT !.notes = q]]
    BY DEF SetNotes
  <2> QED BY <2>1, <2>2, SeqReplace DEF TableType
<1> QED BY <1>2, <1>3, <1>4, <1>5

\* The connections open and close.
LEMMA TableSteps ==
  ASSUME TableType, NEW h \in Handle, connection_opened(h) \/ connection_closed(h)
  PROVE  TableType'
<1>1. table \in Seq(Elem) /\ Element(h) \in Elem
  BY DEF TableType, Elem, Element
<1>2. CASE connection_opened(h)
  <2>1. \A i : [table EXCEPT ![i] = Element(h)] \in Seq(Elem)
    BY <1>1, SeqReplace
  <2>2. <<Element(h)>> \o table \in Seq(Elem)
    BY <1>1
  <2> QED BY <1>2, <2>1, <2>2 DEF connection_opened, TableType
<1>3. CASE connection_closed(h)
  <2>1. CASE Open(h)
    <3> DEFINE e == [table[Index(h)] EXCEPT !.conn = Nobody, !.known = FALSE]
    <3>1. e \in Elem
      BY <2>1, IndexIs DEF Elem
    <3>2. table' = [table EXCEPT ![Index(h)] = e]
      BY <1>3, <2>1 DEF connection_closed
    <3> HIDE DEF e
    <3> QED BY <1>1, <3>1, <3>2, SeqReplace DEF TableType
  <2> QED BY <1>1, <1>3, <2>1 DEF connection_closed, TableType
<1> QED BY <1>2, <1>3

\* The handlers of events keep the types.
LEMMA EventTypes ==
  ASSUME Types, HandlesEvent
  PROVE  NextTypes
<1> USE DEF Types, ncp, run, past, bounds
<1>1. PICK e : \/ HandleValue(e) \/ HandleDescriptor(e) \/ HandleCompleted(e)
               \/ HandleConfig(e) \/ HandleConfirmation(e)
               \/ HandleFound(e) \/ HandleConnection(e)
  BY DEF HandlesEvent
<1>2. EvqType' /\ e \in Event
  BY <1>1, EvqSteps DEF HandleValue, HandleDescriptor, HandleCompleted,
     HandleConfig, HandleConfirmation, HandleFound, HandleConnection
<1>3. CASE HandleValue(e)
  <2>1. ValueAnswers(e) =>
          [conn |-> e.conn, attr |-> [char |-> e.char, desc |-> FALSE]] \in Answer
    BY <1>2, <1>3, Fields DEF HandleValue, Answer, Attr
  <2>2. shown' \in SUBSET Answer
    BY <1>3, <2>1 DEF HandleValue, Shows, RunType
  <2>3. cmd' \in {"GATT", "OTHER"}
    BY <1>3 DEF HandleValue, Ends, LoopType
  <2> QED BY <1>2, <1>3, <2>2, <2>3
          DEF HandleValue, NextTypes, LoopType, TableType, NcpType, RunType,
              PastType, BoundsType
<1>4. CASE HandleDescriptor(e)
  <2>1. [conn |-> e.conn, attr |-> [char |-> e.char, desc |-> TRUE]] \in Answer
    BY <1>2, <1>4, Fields DEF HandleDescriptor, Answer, Attr
  <2>2. shown' \in SUBSET Answer
    BY <1>4, <2>1 DEF HandleDescriptor, Shows, RunType
  <2> QED BY <1>2, <1>4, <2>2
          DEF HandleDescriptor, NextTypes, LoopType, TableType, NcpType, RunType,
              PastType, BoundsType
<1>5. CASE HandleCompleted(e)
  <2>1. shown' \in SUBSET Answer
    BY <1>5 DEF HandleCompleted, Shows, RunType, Answer
  <2>2. cmd' \in {"GATT", "OTHER"}
    BY <1>5 DEF HandleCompleted, Ends, LoopType
  <2> QED BY <1>2, <1>5, <2>1, <2>2
          DEF HandleCompleted, NextTypes, LoopType, TableType, NcpType, RunType,
              PastType, BoundsType
<1>6. CASE HandleConfig(e)
  <2>0. e.conn \in Handle /\ e.char \in Local /\ e.flags \in Flags
    BY <1>2, <1>6, Fields DEF HandleConfig
  <2>1. TableType'
    <3>1. CASE Open(e.conn)
      BY <1>6, <2>0, <3>1, NotesSteps DEF HandleConfig, TableType
    <3>2. CASE ~Open(e.conn)
      BY <1>6, <3>2 DEF HandleConfig, TableType
    <3> QED BY <3>1, <3>2
  <2>2. cmd' \in {"GATT", "OTHER"} /\ crashed' \in BOOLEAN
    BY <1>6 DEF HandleConfig, Ends, LoopType
  <2> QED BY <1>2, <1>6, <2>1, <2>2
          DEF HandleConfig, NextTypes, LoopType, NcpType, RunType, PastType,
              BoundsType
<1>7. CASE HandleConfirmation(e)
  <2>0. e.conn \in Handle /\ e.char \in Local /\ "disable" \in Flags
    BY <1>2, <1>7, Fields DEF HandleConfirmation, Flags
  <2>1. TableType'
    <3>1. CASE Open(e.conn)
      BY <1>7, <2>0, <3>1, NotesSteps DEF HandleConfirmation, TableType
    <3>2. CASE ~Open(e.conn)
      BY <1>7, <3>2 DEF HandleConfirmation, TableType
    <3> QED BY <3>1, <3>2
  <2>2. cmd' \in {"GATT", "OTHER"}
    BY <1>7 DEF HandleConfirmation, Ends, LoopType
  <2> QED BY <1>2, <1>7, <2>1, <2>2
          DEF HandleConfirmation, NextTypes, LoopType, NcpType, RunType, PastType,
              BoundsType
<1>8. CASE HandleFound(e)
  <2>1. TableType'
    <3>1. CASE Open(e.conn)
      <4> DEFINE x == [table[Index(e.conn)] EXCEPT !.known = TRUE]
      <4>0. table[Index(e.conn)] \in Elem
        BY <3>1, IndexIs
      <4>1. x \in Elem
        BY <4>0 DEF Elem
      <4>2. table' = [table EXCEPT ![Index(e.conn)] = x]
        BY <1>8, <3>1 DEF HandleFound
      <4> HIDE DEF x
      <4> QED BY <4>1, <4>2, SeqReplace DEF TableType
    <3>2. CASE ~Open(e.conn)
      BY <1>8, <3>2 DEF HandleFound, TableType
    <3> QED BY <3>1, <3>2
  <2> QED BY <1>2, <1>8, <2>1
          DEF HandleFound, NextTypes, LoopType, NcpType, RunType, PastType,
              BoundsType
<1>9. CASE HandleConnection(e)
  <2>1. TableType'
    BY <1>2, <1>9, Fields, TableSteps DEF HandleConnection
  <2> QED BY <1>2, <1>9, <2>1
          DEF HandleConnection, NextTypes, LoopType, NcpType, RunType, PastType,
              BoundsType
<1> QED BY <1>1, <1>3, <1>4, <1>5, <1>6, <1>7, <1>8, <1>9

\* Two events are a sequence.
LEMMA TwoEvents ==
  ASSUME NEW x \in Event, NEW y \in Event
  PROVE  <<x, y>> \in Seq(Event)
OBVIOUS

\* What a procedure reports.
LEMMA Results ==
  ASSUME NEW h \in Handle, NEW a \in Attr
  PROVE  /\ ReadResults(h, a) \subseteq Seq(Event)
         /\ WriteResults(h) \subseteq Seq(Event)
         /\ {<<Found(h), Completed(h, TRUE)>>} \subseteq Seq(Event)
<1>1. /\ Completed(h, TRUE) \in Event /\ Completed(h, FALSE) \in Event
      /\ Found(h) \in Event
  BY Makes
<1>2. a.desc => DescValue(h, a.char) \in Event
  BY CharacteristicAssumption, Makes DEF Attr
<1>3. ~a.desc => /\ Value(h, a.char, "read") \in Event
                 /\ Value(h, a.char, "blob") \in Event
  BY CharacteristicAssumption, Makes DEF Attr
<1>4. /\ \A x \in Event : <<x>> \in Seq(Event)
      /\ \A x, y \in Event : <<x, y>> \in Seq(Event)
      /\ \A x, y, z \in Event : <<x, y, z>> \in Seq(Event)
  OBVIOUS
<1>5. WriteResults(h) \subseteq Seq(Event)
  BY <1>1, <1>4 DEF WriteResults
<1>6. {<<Found(h), Completed(h, TRUE)>>} \subseteq Seq(Event)
  BY <1>1, <1>4
<1>7. CASE a.desc
  <2>1. ReadResults(h, a)
          = {<<Completed(h, FALSE)>>, <<DescValue(h, a.char), Completed(h, TRUE)>>}
    BY <1>7 DEF ReadResults
  <2> QED BY <1>1, <1>2, <1>4, <1>5, <1>6, <1>7, <2>1
<1>8. CASE ~a.desc
  <2>1. ReadResults(h, a)
          = {<<Completed(h, FALSE)>>,
             <<Value(h, a.char, "read"), Completed(h, TRUE)>>,
             <<Value(h, a.char, "read"), Value(h, a.char, "blob"),
               Completed(h, TRUE)>>}
    BY <1>8 DEF ReadResults
  <2> QED BY <1>1, <1>3, <1>4, <1>5, <1>6, <1>8, <2>1
<1> QED BY <1>7, <1>8

\* The procedures keep their type.
LEMMA StartsStep ==
  ASSUME NcpType, NEW h \in Handle, NEW R \in SUBSET Seq(Event), Starts(h, R)
  PROVE  owed' \in [Handle -> Seq(Event)]
BY DEF NcpType, Starts

\* Commands keep the types.
LEMMA CommandTypes ==
  ASSUME Types, RunsCommand \/ \E c \in Command : SingleShot(c) \/ Receive(c)
  PROVE  NextTypes
<1> USE BoundsAssumption DEF Types, ncp, run, past, bounds
<1>1. ASSUME NEW c \in Command, SingleShot(c)
      PROVE  NextTypes
  BY <1>1 DEF SingleShot, Receives, NextTypes, LoopType, TableType, NcpType,
              EvqType, RunType, PastType, BoundsType
<1>2. ASSUME NEW c \in Command, Receive(c)
      PROVE  NextTypes
  <2>1. LoopType'
    BY <1>2 DEF Receive, LoopType
  <2>2. RunType'
    <3>1. /\ alone' \in BOOLEAN /\ accepted' \in BOOLEAN /\ shown' = {}
      BY <1>2 DEF Receive, Quiet
    <3>2. lost' \in BOOLEAN
      BY <1>2 DEF Receive
    <3> QED BY <3>1, <3>2 DEF RunType
  <2>3. BoundsType'
    BY <1>2 DEF Receive, Receives, BoundsType
  <2> QED BY <1>2, <2>1, <2>2, <2>3
          DEF Receive, NextTypes, TableType, NcpType, EvqType, PastType
<1>3. new.op \in {"READ", "WRITE"} => new.conn \in Handle /\ new.attr \in Attr
  BY DEF LoopType, Command, NoCommand
<1>4. CASE Read
  <2>1. owed' \in [Handle -> Seq(Event)] /\ accepted' \in BOOLEAN
        /\ cmd' \in {"GATT", "OTHER"}
    <3>1. new.conn \in Handle /\ new.attr \in Attr
      BY <1>3, <1>4 DEF Read
    <3>2. CASE ~Known(new.conn) \/ Busy(new.conn)
      BY <1>4, <3>1, <3>2, Results, StartsStep
         DEF Read, Returns, Waits, NcpType, RunType
    <3>3. CASE Starts(new.conn, ReadResults(new.conn, new.attr))
      BY <1>4, <3>1, <3>3, Results, StartsStep
         DEF Read, Returns, Waits, NcpType, RunType
    <3> QED BY <1>4, <3>2, <3>3 DEF Read
  <2> QED BY <1>4, <2>1
          DEF Read, NextTypes, LoopType, TableType, NcpType, EvqType, RunType,
              PastType, BoundsType
<1>5. CASE Write
  <2>1. owed' \in [Handle -> Seq(Event)]
    <3>1. new.conn \in Handle /\ new.attr \in Attr
      BY <1>3, <1>5 DEF Write
    <3>2. owed' = owed \/ Starts(new.conn, WriteResults(new.conn))
      BY <1>5 DEF Write, WriteNoResponse, WriteWithResponse
    <3> QED BY <3>1, <3>2, Results, StartsStep DEF NcpType
  <2>2. accepted' \in BOOLEAN /\ cmd' \in {"GATT", "OTHER"}
    BY <1>5 DEF Write, WriteNoResponse, WriteWithResponse, Returns, Waits, RunType
  <2> QED BY <1>5, <2>1, <2>2
          DEF Write, NextTypes, LoopType, TableType, NcpType, EvqType, RunType,
              PastType, BoundsType
<1>6. CASE Notify
  <2>1. new.conn \in Handle /\ new.char \in Local
    BY <1>6 DEF Notify, LoopType, Command, NoCommand
  <2>2. indicated' \in SUBSET (Handle \X Local)
    BY <1>6, <2>1 DEF Notify, NcpType
  <2> QED BY <1>6, <2>2
          DEF Notify, Returns, NextTypes, LoopType, TableType, NcpType, EvqType,
              RunType, PastType, BoundsType
<1>7. CASE LocalOrUnknown \/ Scan
  BY <1>7 DEF LocalOrUnknown, Scan, Returns, Waits, NextTypes, LoopType,
              TableType, NcpType, EvqType, RunType, PastType, BoundsType
<1>8. CASE Discover
  <2>1. new.conn \in Handle
    BY <1>8 DEF Discover, LoopType, Command, NoCommand
  <2>2. {<<Found(new.conn), Completed(new.conn, TRUE)>>} \in SUBSET Seq(Event)
    <3>1. Found(new.conn) \in Event /\ Completed(new.conn, TRUE) \in Event
      BY <2>1, Makes
    <3>2. <<Found(new.conn), Completed(new.conn, TRUE)>> \in Seq(Event)
      BY <3>1, TwoEvents
    <3> QED BY <3>2, Zenon
  <2>3. owed' \in [Handle -> Seq(Event)]
    <3>1. \/ owed' = owed
          \/ Starts(new.conn, {<<Found(new.conn), Completed(new.conn, TRUE)>>})
      BY <1>8 DEF Discover
    <3> QED BY <2>1, <2>2, <3>1, StartsStep DEF NcpType
  <2> QED BY <1>8, <2>3
          DEF Discover, NextTypes, LoopType, TableType, NcpType, EvqType,
              RunType, PastType, BoundsType
<1> QED BY <1>1, <1>2, <1>4, <1>5, <1>6, <1>7, <1>8 DEF RunsCommand

\* And so do the NCP and the devices.
LEMMA NcpTypes ==
  ASSUME Types,
         \/ NcpReboot
         \/ \E h \in Handle :
              \/ NcpReports(h) \/ NcpOpen(h) \/ NcpClose(h)
              \/ \E l \in Local : \/ RemoteConfirms(h, l)
                                  \/ \E f \in Flags : RemoteConfigures(h, l, f)
              \/ \E c \in Characteristic : RemoteNotifies(h, c)
  PROVE  NextTypes
<1> USE BoundsAssumption DEF Types, host, ncp, run, past, bounds
<1>1. ASSUME NEW H \in SUBSET Handle, Drop(H)
      PROVE  /\ link' \in SUBSET Handle /\ owed' \in [Handle -> Seq(Event)]
             /\ indicated' \in SUBSET (Handle \X Local) /\ lost' \in BOOLEAN
  BY <1>1 DEF Drop, NcpType, RunType
<1>2. CASE NcpReboot
  <2>1. Drop(Handle)
    BY <1>2 DEF NcpReboot
  <2>2. BoundsType'
    BY <1>2 DEF NcpReboot, BoundsType
  <2> QED BY <1>1, <1>2, <2>1, <2>2
          DEF NcpReboot, NextTypes, LoopType, TableType, NcpType, EvqType,
              RunType, PastType
<1>3. ASSUME NEW h \in Handle, NcpReports(h)
      PROVE  NextTypes
  <2>1. Head(owed[h]) \in Event /\ Tail(owed[h]) \in Seq(Event)
    BY <1>3 DEF NcpReports, NcpType
  <2>2. EvqType'
    BY <1>3, <2>1, EvqSteps DEF NcpReports, NcpSends, EvqType
  <2>3. NcpType'
    BY <1>3, <2>1 DEF NcpReports, NcpType
  <2> QED BY <1>3, <2>2, <2>3
          DEF NcpReports, NextTypes, LoopType, TableType, RunType, PastType,
              BoundsType
<1>4. ASSUME NEW h \in Handle, NcpOpen(h)
      PROVE  NextTypes
  <2>1. EvqType'
    BY <1>4, Makes, EvqSteps DEF NcpOpen, NcpSends, EvqType
  <2>2. NcpType' /\ PastType'
    <3>1. Unconfigured \in [Local -> Flags]
      BY DEF Unconfigured, Flags
    <3> QED BY <1>4, <3>1 DEF NcpOpen, NcpType, PastType
  <2> QED BY <1>4, <2>1, <2>2
          DEF NcpOpen, NextTypes, LoopType, TableType, RunType, BoundsType
<1>5. ASSUME NEW h \in Handle, NcpClose(h)
      PROVE  NextTypes
  <2>1. EvqType'
    BY <1>5, Makes, EvqSteps DEF NcpClose, EvqType
  <2>2. Drop({h})
    BY <1>5 DEF NcpClose
  <2>3. BoundsType'
    BY <1>5 DEF NcpClose, BoundsType
  <2> QED BY <1>1, <1>5, <2>1, <2>2, <2>3
          DEF NcpClose, NextTypes, LoopType, TableType, NcpType, RunType, PastType
<1>6. ASSUME NEW h \in Handle, NEW l \in Local, RemoteConfirms(h, l)
      PROVE  NextTypes
  <2>1. EvqType'
    BY <1>6, Makes, EvqSteps DEF RemoteConfirms, NcpSends, EvqType
  <2>2. NcpType'
    BY <1>6 DEF RemoteConfirms, NcpType
  <2>3. RunType'
    BY <1>6 DEF RemoteConfirms, RunType
  <2> QED BY <1>6, <2>1, <2>2, <2>3
          DEF RemoteConfirms, NextTypes, LoopType, TableType, PastType, BoundsType
<1>7. ASSUME NEW h \in Handle, NEW l \in Local, NEW f \in Flags,
             RemoteConfigures(h, l, f)
      PROVE  NextTypes
  <2>1. EvqType'
    BY <1>7, Makes, EvqSteps DEF RemoteConfigures, NcpSends, EvqType
  <2>2. NcpType'
    BY <1>7 DEF RemoteConfigures, NcpType
  <2>3. RunType'
    BY <1>7 DEF RemoteConfigures, RunType
  <2>4. PastType'
    BY <1>7 DEF RemoteConfigures, PastType
  <2>5. BoundsType'
    BY <1>7 DEF RemoteConfigures, Remote, BoundsType
  <2> QED BY <1>7, <2>1, <2>2, <2>3, <2>4, <2>5
          DEF RemoteConfigures, NextTypes, LoopType, TableType
<1>8. ASSUME NEW h \in Handle, NEW c \in Characteristic, RemoteNotifies(h, c)
      PROVE  NextTypes
  <2>1. EvqType'
    BY <1>8, Makes, EvqSteps DEF RemoteNotifies, NcpSends, EvqType
  <2>2. BoundsType'
    BY <1>8 DEF RemoteNotifies, Remote, BoundsType
  <2> QED BY <1>8, <2>1, <2>2
          DEF RemoteNotifies, NextTypes, LoopType, TableType, NcpType, RunType,
              PastType
<1> QED BY <1>2, <1>3, <1>4, <1>5, <1>6, <1>7, <1>8

\* Every step keeps the types.
LEMMA TypeStep == Types /\ [Next]_vars => NextTypes
<1>1. Types /\ Next => NextTypes
  BY EventTypes, CommandTypes, NcpTypes DEF Next
<1>2. Types /\ UNCHANGED vars => NextTypes
  BY DEF vars, host, ncp, run, past, bounds, Types, NextTypes, LoopType, TableType,
         NcpType, EvqType, RunType, PastType, BoundsType
<1> QED BY <1>1, <1>2

\* The types hold at the start.
LEMMA InitTypes == Init => Types
<1> SUFFICES ASSUME Init PROVE Types
  OBVIOUS
<1>1. LoopType
  BY Zenon DEF Init, LoopType
<1>2. TableType /\ EvqType
  BY DEF Init, TableType, EvqType
<1>3. NcpType
  BY DEF Init, NcpType, Unconfigured, Flags
<1>4. RunType
  BY Zenon DEF Init, RunType
<1>5. PastType
  BY Zenon DEF Init, PastType
<1>6. BoundsType
  BY BoundsAssumption DEF Init, BoundsType
<1> QED BY <1>1, <1>2, <1>3, <1>4, <1>5, <1>6 DEF Types

\* Types, as an invariant.
LEMMA TypesHold == Spec => []Types
<1>1. Types /\ [Next]_vars => Types'
  BY TypeStep DEF Types, NextTypes
<1> QED BY <1>1, InitTypes, PTL DEF Spec

\* The variables of GATT and of the lists of notifications keep their types
\* (gatt.c, notify.c), for every set of connections and characteristics.
THEOREM TypeCorrect == Spec => []TypeOK
  BY TypesHold, TypesAreTypes, PTL

-----------------------------------------------------------------------------
(* Lists of notifications.  An entry is there for a characteristic, or holds  *)
(* what the device configured for it; no characteristic has two.              *)

Has(q, l) == \E i \in DOMAIN q : q[i].char = l
HoldsIn(q, l, f) == IF f = "disable" THEN ~Has(q, l)
                    ELSE \E i \in DOMAIN q : q[i] = NewNote(l, f)
Distinct(q) == \A i, j \in DOMAIN q : q[i].char = q[j].char => i = j

\* What a list finds is what it has an entry of.
LEMMA FindsIs == \A h, l : Finds(h, l) <=> Has(Notes(h), l)
BY DEF Finds, Entries, Has

\* An entry is removed: only it is missing.
LEMMA WithoutIs ==
  ASSUME TableType, NEW h, NEW l, Open(h), Finds(h, l), Distinct(Notes(h))
  PROVE  /\ Distinct(Without(h, l)) /\ ~Has(Without(h, l), l)
         /\ \A m, f : m # l /\ HoldsIn(Notes(h), m, f) => HoldsIn(Without(h, l), m, f)
         /\ \A m : m # l /\ Has(Notes(h), m) => Has(Without(h, l), m)
<1> DEFINE q == Notes(h)
           i == First(Entries(h, l))
           r == Removed(q, i)
<1>1. q \in Seq(Note) /\ i \in DOMAIN q /\ q[i].char = l /\ Distinct(q)
  BY IndexIs, EntryIs
<1>2. Without(h, l) = r
  BY DEF Without
<1> HIDE DEF q, i
<1>3. /\ \A k \in DOMAIN r : \E j \in DOMAIN q :
           j # i /\ r[k] = q[j] /\ IF k < i THEN j = k ELSE j = k + 1
      /\ \A j \in DOMAIN q : j # i => \E k \in DOMAIN r : r[k] = q[j]
      /\ DOMAIN r \subseteq Nat /\ DOMAIN q \subseteq Nat
  BY <1>1, RemovedIs
<1> HIDE DEF r
<1>4. Distinct(r)
  <2> SUFFICES ASSUME NEW k \in DOMAIN r, NEW m \in DOMAIN r, r[k].char = r[m].char
               PROVE  k = m
    BY DEF Distinct
  <2>1. PICK x \in DOMAIN q : x # i /\ r[k] = q[x] /\ IF k < i THEN x = k ELSE x = k + 1
    BY <1>3
  <2>2. PICK y \in DOMAIN q : y # i /\ r[m] = q[y] /\ IF m < i THEN y = m ELSE y = m + 1
    BY <1>3
  <2>3. x = y
    BY <1>1, <2>1, <2>2 DEF Distinct
  <2>4. k \in Nat /\ m \in Nat /\ i \in Nat
    BY <1>1, <1>3
  <2>5. (IF k < i THEN k ELSE k + 1) = x /\ (IF m < i THEN m ELSE m + 1) = x /\ x # i
    BY <2>1, <2>2, <2>3
  <2> QED BY <2>4, <2>5
<1>5. \A k \in DOMAIN r : r[k].char # l
  BY <1>1, <1>3 DEF Distinct
<1>6. \A m : m # l /\ Has(q, m) => Has(r, m)
  BY <1>1, <1>3 DEF Has
<1>7. \A m : Has(r, m) => Has(q, m)
  BY <1>3 DEF Has
<1>8. \A m, f : m # l /\ HoldsIn(q, m, f) => HoldsIn(r, m, f)
  BY <1>1, <1>3, <1>7 DEF HoldsIn, NewNote
<1> QED BY <1>2, <1>4, <1>5, <1>6, <1>8 DEF Has, q

\* An entry is changed or added: the others stay.
LEMMA AddedIs ==
  ASSUME TableType, NEW h, NEW l \in Local, NEW f \in Flags, Open(h),
         Distinct(Notes(h))
  PROVE  /\ Distinct(Added(h, l, f)) /\ Has(Added(h, l, f), l)
         /\ f # "disable" => HoldsIn(Added(h, l, f), l, f)
         /\ \A m, g : m # l /\ HoldsIn(Notes(h), m, g) => HoldsIn(Added(h, l, f), m, g)
         /\ \A m : Has(Notes(h), m) => Has(Added(h, l, f), m)
<1> DEFINE q == Notes(h)
           n == NewNote(l, f)
           r == Added(h, l, f)
<1>1. q \in Seq(Note) /\ Distinct(q) /\ n \in Note /\ n.char = l
  BY IndexIs DEF NewNote, Note
<1>2. CASE Finds(h, l)
  <2> DEFINE i == First(Entries(h, l))
  <2>1. i \in DOMAIN q /\ q[i].char = l
    BY <1>2, EntryIs
  <2>2. r = [q EXCEPT ![i] = n]
    BY <1>2 DEF Added
  <2> HIDE DEF i, q, r
  <2>3. DOMAIN r = DOMAIN q /\ r[i] = n /\ \A j \in DOMAIN q : j # i => r[j] = q[j]
    BY <1>1, <2>1, <2>2
  <2> HIDE DEF n
  <2>4. Distinct(r)
    BY <1>1, <2>1, <2>3 DEF Distinct
  <2>5. Has(r, l) /\ \A m : Has(q, m) <=> Has(r, m)
    BY <1>1, <2>1, <2>3 DEF Has
  <2>6. f # "disable" => HoldsIn(r, l, f)
    BY <2>1, <2>3 DEF HoldsIn, n
  <2>7. \A m, g : m # l /\ HoldsIn(q, m, g) => HoldsIn(r, m, g)
    BY <1>1, <2>1, <2>3, <2>5 DEF HoldsIn, NewNote
  <2> QED BY <2>4, <2>5, <2>6, <2>7 DEF q, r
<1>3. CASE ~Finds(h, l)
  <2>1. r = <<n>> \o q /\ ~Has(q, l)
    BY <1>3, FindsIs DEF Added
  <2> HIDE DEF q, r, n
  <2>3. /\ 1 \in DOMAIN r /\ r[1] = n
        /\ \A j \in DOMAIN q : j + 1 \in DOMAIN r /\ r[j + 1] = q[j]
        /\ \A j \in DOMAIN r : j # 1 => /\ j - 1 \in DOMAIN q /\ r[j] = q[j - 1]
        /\ DOMAIN r \subseteq Nat /\ DOMAIN q \subseteq Nat
    <3>1. /\ 1 \in DOMAIN r /\ r[1] = n
          /\ \A j \in DOMAIN q : j \in Nat /\ j + 1 \in DOMAIN r /\ r[j + 1] = q[j]
          /\ \A j \in DOMAIN r : j = 1 \/ j - 1 \in DOMAIN q
          /\ \A j \in DOMAIN r : j \in Nat
      BY <1>1, <2>1, ConsElems
    <3> QED BY <3>1
  <2>4. Distinct(r)
    <3> SUFFICES ASSUME NEW j \in DOMAIN r, NEW k \in DOMAIN r, r[j].char = r[k].char
                 PROVE  j = k
      BY DEF Distinct
    <3>1. CASE j = 1 \/ k = 1
      BY <1>1, <2>1, <2>3, <3>1 DEF Has
    <3>2. CASE j # 1 /\ k # 1
      <4>1. j - 1 \in DOMAIN q /\ k - 1 \in DOMAIN q /\ q[j - 1].char = q[k - 1].char
        BY <2>3, <3>2
      <4>2. j \in Nat /\ k \in Nat /\ j - 1 = k - 1
        BY <1>1, <2>3, <4>1 DEF Distinct
      <4> QED BY <4>2
    <3> QED BY <3>1, <3>2
  <2>5. Has(r, l) /\ \A m : Has(q, m) => Has(r, m)
    BY <1>1, <2>3 DEF Has
  <2>6. f # "disable" => HoldsIn(r, l, f)
    BY <2>3 DEF HoldsIn, n
  <2>7. \A m : m # l /\ Has(r, m) => Has(q, m)
    BY <1>1, <2>3 DEF Has
  <2>8. \A m, g : m # l /\ HoldsIn(q, m, g) => HoldsIn(r, m, g)
    BY <2>3, <2>7 DEF HoldsIn
  <2> QED BY <2>4, <2>5, <2>6, <2>8 DEF q, r
<1> QED BY <1>2, <1>3

-----------------------------------------------------------------------------
(* The table.  Once: it has a connection exactly once.                        *)

Once(h) == \E i : Elements(h) = {i}
AllDistinct == \A i \in DOMAIN table : Distinct(table[i].notes)

\* A handle's connection and list stay, whatever happens to the others; or
\* only its list is another.
Stays(h) == /\ Open(h)' <=> Open(h)
            /\ Open(h) => Notes(h)' = Notes(h)
            /\ Once(h)' <=> Once(h)
Edited(h, q) == Open(h)' /\ Notes(h)' = q /\ (Once(h)' <=> Once(h))

\* The first of a set that is shifted by one.
LEMMA FirstShift ==
  ASSUME NEW I \in SUBSET Nat, I # {}, NEW J, J = {i + 1 : i \in I}
  PROVE  First(J) = First(I) + 1
<1>1. PICK m \in I : \A i \in I : m <= i
  BY Least
<1>2. First(I) \in I /\ \A i \in I : First(I) <= i
  BY <1>1 DEF First
<1>3. \A j \in J : \E i \in I : j = i + 1
  OBVIOUS
<1>4. m + 1 \in J /\ \A j \in J : m + 1 <= j
  BY <1>1, <1>3
<1>5. First(J) \in J /\ \A j \in J : First(J) <= j
  BY <1>4 DEF First
<1>6. First(I) = m
  <2>1. First(I) \in Nat /\ m \in Nat
    BY <1>2
  <2>2. First(I) <= m /\ m <= First(I)
    BY <1>1, <1>2
  <2> QED BY <2>1, <2>2
<1>7. First(J) <= m + 1 /\ m + 1 <= First(J) /\ First(J) \in Nat
  BY <1>3, <1>4, <1>5
<1> QED BY <1>6, <1>7

\* An element of another changes.
LEMMA OtherChanges ==
  ASSUME TableType, NEW h, NEW k \in DOMAIN table, NEW x, table[k].conn # h,
         x.conn # h, table' = [table EXCEPT ![k] = x]
  PROVE  Stays(h)
<1>1. DOMAIN table' = DOMAIN table /\ \A i \in DOMAIN table : i # k => table'[i] = table[i]
  BY DEF TableType
<1>2. table'[k] = x
  BY DEF TableType
<1>3. Elements(h)' = Elements(h) /\ \A i \in Elements(h) : table'[i] = table[i]
  BY <1>1, <1>2 DEF Elements
<1>4. Open(h) => Index(h)' = Index(h) /\ Index(h) \in Elements(h)
  BY <1>3, IndexIs DEF Index, Elements
<1> QED BY <1>3, <1>4 DEF Stays, Open, Once, Notes

\* An element of another comes before the others.
LEMMA OtherBefore ==
  ASSUME TableType, NEW h, NEW x \in Elem, x.conn # h, table' = <<x>> \o table
  PROVE  Stays(h)
<1>0. table \in Seq(Elem)
  BY DEF TableType
<1>1. /\ 1 \in DOMAIN table' /\ table'[1] = x
      /\ \A i \in DOMAIN table : /\ i \in Nat /\ 1 <= i
                                 /\ i + 1 \in DOMAIN table' /\ table'[i + 1] = table[i]
      /\ \A i \in DOMAIN table' : i \in Nat /\ (i = 1 \/ i - 1 \in DOMAIN table)
  BY <1>0, ConsElems
<1>2. Elements(h)' = {i + 1 : i \in Elements(h)}
  <2>1. \A i \in Elements(h)' : i - 1 \in Elements(h) /\ i = (i - 1) + 1
    BY <1>1 DEF Elements
  <2>2. \A i \in Elements(h) : i + 1 \in Elements(h)'
    BY <1>1 DEF Elements
  <2> QED BY <2>1, <2>2
<1>3. Elements(h) \subseteq Nat /\ Elements(h) \subseteq DOMAIN table
  BY <1>1 DEF Elements
<1>4. Open(h)' <=> Open(h)
  BY <1>2 DEF Open
<1>5. Open(h) => Notes(h)' = Notes(h)
  <2> SUFFICES ASSUME Open(h) PROVE Notes(h)' = Notes(h)
    OBVIOUS
  <2>1. Index(h)' = Index(h) + 1
    BY <1>2, <1>3, FirstShift DEF Open, Index
  <2>2. Index(h) \in DOMAIN table
    BY IndexIs
  <2> QED BY <1>1, <2>1, <2>2 DEF Notes
<1>6. Once(h)' <=> Once(h)
  <2>1. ASSUME NEW i, Elements(h) = {i}
        PROVE  Elements(h)' = {i + 1}
    BY <1>2, <2>1
  <2>2. ASSUME NEW i, Elements(h)' = {i}
        PROVE  Elements(h) = {i - 1}
    <3>1. \A j \in Elements(h) : j + 1 = i /\ j \in Nat
      BY <1>2, <1>3, <2>2
    <3>2. \E j \in Elements(h) : j + 1 = i
      BY <1>2, <2>2
    <3> QED BY <3>1, <3>2
  <2> QED BY <2>1, <2>2 DEF Once
<1> QED BY <1>4, <1>5, <1>6 DEF Stays

\* The element of a connection changes, but for its handle.
LEMMA OwnChanges ==
  ASSUME TableType, NEW h, Open(h), NEW x, x.conn = h,
         table' = [table EXCEPT ![Index(h)] = x]
  PROVE  Edited(h, x.notes)
<1>1. Index(h) \in DOMAIN table /\ table[Index(h)].conn = h
  BY IndexIs
<1>2. /\ DOMAIN table' = DOMAIN table /\ table'[Index(h)] = x
      /\ \A i \in DOMAIN table : i # Index(h) => table'[i] = table[i]
  BY <1>1 DEF TableType
<1>3. Elements(h)' = Elements(h)
  BY <1>1, <1>2 DEF Elements
<1>4. Index(h)' = Index(h)
  BY <1>3 DEF Index
<1> QED BY <1>2, <1>3, <1>4 DEF Edited, Open, Once, Notes

\* A connection opens: it has the list of a new element, unless the table still
\* has another of its handle.
LEMMA OpenedIs ==
  ASSUME TableType, NEW h \in Handle, connection_opened(h)
  PROVE  /\ Open(h)' /\ (Once(h)' => Notes(h)' = <<>>)
         /\ \A g \in Handle : g # h => Stays(g)
         /\ AllDistinct => AllDistinct'
<1>0. Element(h) \in Elem /\ Element(h).conn = h /\ Element(h).notes = <<>>
      /\ Distinct(<<>>) /\ Nobody \notin Handle /\ table \in Seq(Elem)
  BY HandleAssumption DEF Element, Elem, Distinct, TableType, Nobody
<1>1. CASE Open(Nobody)
  <2> DEFINE k == First(Elements(Nobody))
  <2>1. k \in DOMAIN table /\ table[k].conn = Nobody
    BY <1>1, IndexIs DEF Index
  <2>2. table' = [table EXCEPT ![k] = Element(h)]
    BY <1>1 DEF connection_opened
  <2> HIDE DEF k
  <2>3. DOMAIN table' = DOMAIN table /\ table'[k] = Element(h)
        /\ \A i \in DOMAIN table : i # k => table'[i] = table[i]
    BY <2>1, <2>2 DEF TableType
  <2>4. k \in Elements(h)'
    BY <1>0, <2>1, <2>3 DEF Elements
  <2>5. Once(h)' => Notes(h)' = <<>>
    <3> SUFFICES ASSUME Once(h)' PROVE Notes(h)' = <<>>
      OBVIOUS
    <3>1. Elements(h)' = {k}
      BY <2>4 DEF Once
    <3>2. Index(h)' = k
      BY <3>1, <2>1, <1>0 DEF Index, First
    <3> QED BY <1>0, <2>3, <3>2 DEF Notes
  <2>6. \A g \in Handle : g # h => Stays(g)
    BY <1>0, <2>1, <2>2, OtherChanges
  <2>7. AllDistinct => AllDistinct'
    BY <1>0, <2>1, <2>3 DEF AllDistinct
  <2> QED BY <2>4, <2>5, <2>6, <2>7 DEF Open
<1>2. CASE ~Open(Nobody)
  <2>2. table' = <<Element(h)>> \o table
    BY <1>2 DEF connection_opened
  <2>3. /\ 1 \in DOMAIN table' /\ table'[1] = Element(h)
        /\ \A i \in DOMAIN table : i \in Nat /\ table'[i + 1] = table[i]
        /\ \A i \in DOMAIN table' : i \in Nat /\ (i = 1 \/ i - 1 \in DOMAIN table)
    BY <1>0, <2>2, ConsElems
  <2>4. 1 \in Elements(h)'
    BY <1>0, <2>3 DEF Elements
  <2>5. Once(h)' => Notes(h)' = <<>>
    <3> SUFFICES ASSUME Once(h)' PROVE Notes(h)' = <<>>
      OBVIOUS
    <3>1. Elements(h)' = {1}
      BY <2>4 DEF Once
    <3>2. Index(h)' = 1
      BY <3>1 DEF Index, First
    <3> QED BY <1>0, <2>3, <3>2 DEF Notes
  <2>6. \A g \in Handle : g # h => Stays(g)
    BY <1>0, <2>2, OtherBefore
  <2>7. AllDistinct => AllDistinct'
    <3> SUFFICES ASSUME AllDistinct, NEW i \in DOMAIN table'
                 PROVE  Distinct(table'[i].notes)
      BY DEF AllDistinct
    <3>1. CASE i = 1
      BY <1>0, <2>3, <3>1
    <3>2. CASE i # 1
      <4>1. i - 1 \in DOMAIN table /\ table'[i] = table[i - 1]
        BY <2>3, <3>2
      <4> QED BY <4>1 DEF AllDistinct
    <3> QED BY <3>1, <3>2
  <2> QED BY <2>4, <2>5, <2>6, <2>7 DEF Open
<1> QED BY <1>1, <1>2

\* A connection closes: the others stay.
LEMMA ClosedIs ==
  ASSUME TableType, NEW h \in Handle, connection_closed(h)
  PROVE  /\ \A g \in Handle : g # h => Stays(g)
         /\ AllDistinct => AllDistinct'
<1>1. CASE Open(h)
  <2> DEFINE k == Index(h)
             x == [table[k] EXCEPT !.conn = Nobody, !.known = FALSE]
  <2>1. k \in DOMAIN table /\ table[k].conn = h /\ table[k] \in Elem
    BY <1>1, IndexIs
  <2>2. table' = [table EXCEPT ![k] = x]
    BY <1>1 DEF connection_closed
  <2>3. x.conn = Nobody /\ x.notes = table[k].notes /\ Nobody \notin Handle
    BY <2>1, HandleAssumption DEF Elem, Nobody
  <2> HIDE DEF k, x
  <2>4. \A g \in Handle : g # h => Stays(g)
    BY <2>1, <2>2, <2>3, OtherChanges
  <2>5. DOMAIN table' = DOMAIN table /\ \A i \in DOMAIN table : table'[i].notes = table[i].notes
    BY <2>1, <2>2, <2>3 DEF TableType
  <2> QED BY <2>4, <2>5 DEF AllDistinct
<1>2. CASE ~Open(h)
  <2>1. table' = table
    BY <1>2 DEF connection_closed
  <2> QED BY <2>1 DEF Stays, Open, Once, Elements, Notes, Index, AllDistinct
<1> QED BY <1>1, <1>2

\* notify.c changes the list of a connection: the others stay.
LEMMA ListChanges ==
  ASSUME TableType, NEW h, Open(h), NEW q, SetNotes(h, q)
  PROVE  /\ Edited(h, q)
         /\ \A g : g # h => Stays(g)
         /\ AllDistinct /\ Distinct(q) => AllDistinct'
<1> DEFINE k == Index(h)
           x == [table[k] EXCEPT !.notes = q]
<1>1. k \in DOMAIN table /\ table[k].conn = h /\ table[k] \in Elem
  BY IndexIs
<1>2. table' = [table EXCEPT ![k] = x]
  BY DEF SetNotes
<1>3. x.conn = h /\ x.notes = q
  BY <1>1 DEF Elem
<1>4. Edited(h, q)
  <2> HIDE DEF x
  <2> QED BY <1>2, <1>3, OwnChanges
<1> HIDE DEF k, x
<1>5. \A g : g # h => Stays(g)
  BY <1>1, <1>2, <1>3, OtherChanges
<1>6. /\ DOMAIN table' = DOMAIN table /\ table'[k].notes = q
      /\ \A i \in DOMAIN table : i # k => table'[i] = table[i]
  BY <1>1, <1>2, <1>3 DEF TableType
<1> QED BY <1>4, <1>5, <1>6 DEF AllDistinct

-----------------------------------------------------------------------------
(* What the events on their way say of a notification                         *)

IsConfig(e, h, l) == e.kind = "config" /\ e.conn = h /\ e.char = l
Disables(e, h, l) == IsConfig(e, h, l) /\ e.flags = "disable"
Enables(e, h, l) == IsConfig(e, h, l) /\ e.flags # "disable"
Loses(e, h, l) == e = Opened(h) \/ e = Closed(h) \/ Disables(e, h, l)

\* When the n-th of the events s comes, the notification is in the list, if now
\* says whether it is there now.
Sure(s, n, h, l, now) ==
  \/ \E i \in DOMAIN s : /\ i < n /\ Enables(s[i], h, l)
                         /\ \A j \in DOMAIN s : i < j /\ j < n => ~Loses(s[j], h, l)
  \/ now /\ \A j \in DOMAIN s : j < n => ~Loses(s[j], h, l)

Tells(e, h, l) == e = Opened(h) \/ IsConfig(e, h, l)
Told(e) == IF e.kind = "config" THEN e.flags ELSE "disable"

\* When all the events s have come, the list has the flags f, if now says
\* whether it has them now.
Becomes(s, h, l, f, now) ==
  \/ \E i \in DOMAIN s : /\ Tells(s[i], h, l) /\ Told(s[i]) = f
                         /\ \A j \in DOMAIN s : i < j => ~Tells(s[j], h, l)
  \/ now /\ \A j \in DOMAIN s : ~Tells(s[j], h, l)

Now(h, l) == Open(h) => Finds(h, l)
Holds(h, l, f) == Once(h) => HoldsIn(Notes(h), l, f)

Plain(e) == e.kind \in {"value", "descriptor", "completed", "found"}
OwedPlain == \A h \in Handle : \A i \in DOMAIN owed[h] : Plain(owed[h][i])

\* Whoever is connected will be in the table, and not be closed.
Reheard(s, L) == \A h \in L : \A i \in DOMAIN s :
  s[i] = Closed(h) => \E j \in DOMAIN s : i < j /\ s[j] = Opened(h)
Heard(s, L) == \A h \in L : Open(h) \/ \E i \in DOMAIN s : s[i] = Opened(h)

\* What a device disables, or has enabled, is in the list by then; what it
\* confirms, too; and the list is what it configured.
DisablesSure(s) == \A h \in Handle, l \in Local : \A i \in DOMAIN s :
  Disables(s[i], h, l) => Sure(s, i, h, l, Now(h, l))
ConfirmsSure(s) == \A h \in Handle, l \in Local : \A i \in DOMAIN s :
  s[i] = Confirmed(h, l) => Sure(s, i, h, l, Now(h, l))
EnabledSure(s, L, c) == \A h \in L, l \in Local :
  c[h][l] # "disable" => Sure(s, Len(s) + 1, h, l, Now(h, l))
Configured(s, L, c) == \A h \in L, l \in Local, f \in Flags :
  f = c[h][l] => Becomes(s, h, l, f, Holds(h, l, f))
Indicating == \A x \in indicated : x[1] \in link /\ config[x[1]][x[2]] # "disable"

Steady == ~crashed /\ DisablesSure(evq) /\ EnabledSure(evq, link, config)
Faithful == /\ Indicating /\ ConfirmsSure(evq) /\ Configured(evq, link, config)

ListsInv == /\ OwedPlain /\ AllDistinct /\ Reheard(evq, link) /\ Heard(evq, link)
            /\ ~kept => Steady
            /\ ~kept /\ ~late => Faithful

\* The kinds of the events.
LEMMA Kinds ==
  /\ \A h, g : Opened(h) # Closed(g)
  /\ \A h, g : (Opened(h) = Opened(g) => h = g) /\ (Closed(h) = Closed(g) => h = g)
  /\ \A h, g, l : ~IsConfig(Opened(g), h, l) /\ ~IsConfig(Closed(g), h, l)
                  /\ \A m : ~IsConfig(Confirmed(g, m), h, l)
  /\ \A h, g, l : Opened(h) # Confirmed(g, l) /\ Closed(h) # Confirmed(g, l)
  /\ \A h, g, l, f : Opened(h) # Config(g, l, f) /\ Closed(h) # Config(g, l, f)
  /\ \A h, g, l, m, f : Confirmed(h, l) # Config(g, m, f)
  /\ \A g, m, f, h, l : IsConfig(Config(g, m, f), h, l) <=> g = h /\ m = l
  /\ \A g, m, f : Config(g, m, f).flags = f /\ Config(g, m, f).kind = "config"
  /\ \A g, h, l, m : Confirmed(g, m) = Confirmed(h, l) => g = h /\ m = l
  /\ \A e, h, l : Plain(e) => /\ e # Opened(h) /\ e # Closed(h) /\ e # Confirmed(h, l)
                              /\ ~IsConfig(e, h, l)
  /\ \A h : Told(Opened(h)) = "disable"
BY DEF IsConfig, Opened, Closed, Config, Confirmed, Plain, Told

\* An event that does not lose the notification, or one that enables it.
LEMMA SureAppend ==
  ASSUME NEW s \in Seq(Event), NEW e, NEW h, NEW l, NEW now
  PROVE  /\ \A n \in DOMAIN s : Sure(s, n, h, l, now) => Sure(Append(s, e), n, h, l, now)
         /\ Sure(s, Len(s) + 1, h, l, now)
              => Sure(Append(s, e), Len(s) + 1, h, l, now)
         /\ Sure(s, Len(s) + 1, h, l, now) /\ ~Loses(e, h, l)
              => Sure(Append(s, e), Len(Append(s, e)) + 1, h, l, now)
         /\ Enables(e, h, l) => Sure(Append(s, e), Len(Append(s, e)) + 1, h, l, now)
<1> DEFINE t == Append(s, e)
<1>1. /\ \A i \in DOMAIN s : i \in DOMAIN t /\ t[i] = s[i] /\ i \in Nat /\ i < Len(s) + 1
      /\ Len(s) + 1 \in DOMAIN t /\ t[Len(s) + 1] = e
      /\ \A i \in DOMAIN t : i \in DOMAIN s \/ i = Len(s) + 1
      /\ Len(s) \in Nat /\ Len(t) = Len(s) + 1
  <2>1. s \in Seq(Event \cup {e})
    BY SeqMonotonic
  <2>2. Len(t) = Len(s) + 1
    BY <2>1
  <2> QED BY <2>2, AppendElems
<1> HIDE DEF t
<1>2. \A n \in DOMAIN s : Sure(s, n, h, l, now) => Sure(t, n, h, l, now)
  BY <1>1 DEF Sure
<1>3. Sure(s, Len(s) + 1, h, l, now) => Sure(t, Len(s) + 1, h, l, now)
  BY <1>1 DEF Sure
<1>4. Sure(s, Len(s) + 1, h, l, now) /\ ~Loses(e, h, l) => Sure(t, Len(t) + 1, h, l, now)
  <2> SUFFICES ASSUME Sure(s, Len(s) + 1, h, l, now), ~Loses(e, h, l)
               PROVE  Sure(t, Len(t) + 1, h, l, now)
    OBVIOUS
  <2>1. CASE now /\ \A j \in DOMAIN s : j < Len(s) + 1 => ~Loses(s[j], h, l)
    <3>1. \A j \in DOMAIN t : ~Loses(t[j], h, l)
      BY <1>1, <2>1
    <3> QED BY <2>1, <3>1 DEF Sure
  <2>2. CASE \E i \in DOMAIN s :
               /\ i < Len(s) + 1 /\ Enables(s[i], h, l)
               /\ \A j \in DOMAIN s : i < j /\ j < Len(s) + 1 => ~Loses(s[j], h, l)
    <3>1. PICK i \in DOMAIN s :
               /\ i < Len(s) + 1 /\ Enables(s[i], h, l)
               /\ \A j \in DOMAIN s : i < j /\ j < Len(s) + 1 => ~Loses(s[j], h, l)
      BY <2>2
    <3>2. \A j \in DOMAIN t : i < j => ~Loses(t[j], h, l)
      BY <1>1, <3>1
    <3>3. i \in DOMAIN t /\ i < Len(t) + 1 /\ Enables(t[i], h, l)
      BY <1>1, <3>1
    <3> QED BY <3>2, <3>3 DEF Sure
  <2> QED BY <2>1, <2>2 DEF Sure
<1>5. Enables(e, h, l) => Sure(t, Len(t) + 1, h, l, now)
  <2>1. \A j \in DOMAIN t : ~(Len(s) + 1 < j /\ j < Len(t) + 1)
    BY <1>1
  <2>2. Len(s) + 1 \in DOMAIN t /\ Len(s) + 1 < Len(t) + 1 /\ t[Len(s) + 1] = e
    BY <1>1
  <2> QED BY <2>1, <2>2 DEF Sure
<1> QED BY <1>2, <1>3, <1>4, <1>5 DEF t

\* Taking an event.
LEMMA SureTail ==
  ASSUME NEW s \in Seq(Event), s # <<>>, NEW n \in Nat, n > 0, NEW h, NEW l,
         NEW now, NEW then, Sure(s, n + 1, h, l, now),
         Enables(Head(s), h, l) \/ (now /\ ~Loses(Head(s), h, l)) => then
  PROVE  Sure(Tail(s), n, h, l, then)
<1> DEFINE t == Tail(s)
<1>1. /\ \A i \in DOMAIN t : i + 1 \in DOMAIN s /\ t[i] = s[i + 1] /\ i \in Nat /\ 1 < i + 1
      /\ \A i \in DOMAIN s : i \in Nat /\ (i # 1 => i - 1 \in DOMAIN t)
      /\ 1 \in DOMAIN s /\ Head(s) = s[1]
  BY TailElems
<1> HIDE DEF t
<1>2. CASE now /\ \A j \in DOMAIN s : j < n + 1 => ~Loses(s[j], h, l)
  <2>1. then
    BY <1>1, <1>2
  <2>2. \A j \in DOMAIN t : j < n => ~Loses(t[j], h, l)
    BY <1>1, <1>2
  <2> QED BY <2>1, <2>2 DEF Sure, t
<1>3. CASE \E i \in DOMAIN s :
             /\ i < n + 1 /\ Enables(s[i], h, l)
             /\ \A j \in DOMAIN s : i < j /\ j < n + 1 => ~Loses(s[j], h, l)
  <2>1. PICK i \in DOMAIN s :
             /\ i < n + 1 /\ Enables(s[i], h, l)
             /\ \A j \in DOMAIN s : i < j /\ j < n + 1 => ~Loses(s[j], h, l)
    BY <1>3
  <2>2. CASE i = 1
    <3>1. then
      BY <1>1, <2>1, <2>2
    <3>2. \A j \in DOMAIN t : j < n => ~Loses(t[j], h, l)
      BY <1>1, <2>1, <2>2
    <3> QED BY <3>1, <3>2 DEF Sure, t
  <2>3. CASE i # 1
    <3>1. i - 1 \in DOMAIN t /\ i - 1 < n /\ t[i - 1] = s[i]
      BY <1>1, <2>1, <2>3
    <3>2. \A j \in DOMAIN t : i - 1 < j /\ j < n => ~Loses(t[j], h, l)
      <4>1. \A j \in DOMAIN t : i - 1 < j /\ j < n => i < j + 1 /\ j + 1 < n + 1
        BY <1>1
      <4> QED BY <1>1, <2>1, <4>1
    <3> QED BY <2>1, <3>1, <3>2 DEF Sure, t
  <2> QED BY <2>2, <2>3
<1> QED BY <1>2, <1>3 DEF Sure

\* The same of what the list will have.
LEMMA EndsAppend ==
  ASSUME NEW s \in Seq(Event), NEW e, NEW h, NEW l, NEW f, NEW now
  PROVE  /\ Becomes(s, h, l, f, now) /\ ~Tells(e, h, l) => Becomes(Append(s, e), h, l, f, now)
         /\ Tells(e, h, l) /\ Told(e) = f => Becomes(Append(s, e), h, l, f, now)
<1> DEFINE t == Append(s, e)
<1>1. /\ \A i \in DOMAIN s : i \in DOMAIN t /\ t[i] = s[i] /\ i \in Nat /\ i < Len(s) + 1
      /\ Len(s) + 1 \in DOMAIN t /\ t[Len(s) + 1] = e
      /\ \A i \in DOMAIN t : i \in DOMAIN s \/ i = Len(s) + 1
      /\ Len(s) \in Nat
  BY AppendElems
<1> HIDE DEF t
<1>2. Becomes(s, h, l, f, now) /\ ~Tells(e, h, l) => Becomes(t, h, l, f, now)
  BY <1>1 DEF Becomes
<1>3. Tells(e, h, l) /\ Told(e) = f => Becomes(t, h, l, f, now)
  <2>1. \A j \in DOMAIN t : ~(Len(s) + 1 < j)
    BY <1>1
  <2> QED BY <1>1, <2>1 DEF Becomes
<1> QED BY <1>2, <1>3 DEF t

LEMMA EndsTail ==
  ASSUME NEW s \in Seq(Event), s # <<>>, NEW h, NEW l, NEW f, NEW now, NEW then,
         Becomes(s, h, l, f, now),
         (/\ \/ Tells(Head(s), h, l) /\ Told(Head(s)) = f
             \/ ~Tells(Head(s), h, l) /\ now
          /\ \A i \in DOMAIN Tail(s) : ~Tells(Tail(s)[i], h, l)) => then
  PROVE  Becomes(Tail(s), h, l, f, then)
<1> DEFINE t == Tail(s)
<1>1. /\ \A i \in DOMAIN t : i + 1 \in DOMAIN s /\ t[i] = s[i + 1] /\ i \in Nat /\ 1 < i + 1
      /\ \A i \in DOMAIN s : i \in Nat /\ (i # 1 => i - 1 \in DOMAIN t)
      /\ 1 \in DOMAIN s /\ Head(s) = s[1]
  BY TailElems
<1>0. (/\ \/ Tells(Head(s), h, l) /\ Told(Head(s)) = f
          \/ ~Tells(Head(s), h, l) /\ now
       /\ \A i \in DOMAIN t : ~Tells(t[i], h, l)) => then
  OBVIOUS
<1> HIDE DEF t
<1>2. CASE now /\ \A j \in DOMAIN s : ~Tells(s[j], h, l)
  <2>1. \A j \in DOMAIN t : ~Tells(t[j], h, l)
    BY <1>1, <1>2
  <2>2. then
    BY <1>0, <1>1, <1>2, <2>1
  <2> QED BY <2>1, <2>2 DEF Becomes, t
<1>3. CASE \E i \in DOMAIN s : /\ Tells(s[i], h, l) /\ Told(s[i]) = f
                               /\ \A j \in DOMAIN s : i < j => ~Tells(s[j], h, l)
  <2>1. PICK i \in DOMAIN s : /\ Tells(s[i], h, l) /\ Told(s[i]) = f
                              /\ \A j \in DOMAIN s : i < j => ~Tells(s[j], h, l)
    BY <1>3
  <2>2. CASE i = 1
    <3>1. \A j \in DOMAIN t : ~Tells(t[j], h, l)
      BY <1>1, <2>1, <2>2
    <3>2. then
      BY <1>0, <1>1, <2>1, <2>2, <3>1
    <3> QED BY <3>1, <3>2 DEF Becomes, t
  <2>3. CASE i # 1
    <3>1. i - 1 \in DOMAIN t /\ t[i - 1] = s[i]
      BY <1>1, <2>1, <2>3
    <3>2. \A j \in DOMAIN t : i - 1 < j => ~Tells(t[j], h, l)
      BY <1>1, <2>1, <3>1
    <3> QED BY <2>1, <3>1, <3>2 DEF Becomes, t
  <2> QED BY <2>2, <2>3
<1> QED BY <1>2, <1>3 DEF Becomes

-----------------------------------------------------------------------------
(* An event is taken                                                          *)

\* What an event is, by its kind.
LEMMA EventIs ==
  ASSUME NEW e \in Event
  PROVE  /\ Plain(e) \/ e.kind \in {"config", "confirmed", "opened", "closed"}
         /\ e.kind = "opened" => e = Opened(e.conn)
         /\ e.kind = "closed" => e = Closed(e.conn)
         /\ e.kind = "confirmed" => e = Confirmed(e.conn, e.char)
         /\ e.conn \in Handle
<1>1. /\ Plain(e) \/ e.kind \in {"config", "confirmed", "opened", "closed"}
      /\ e.conn \in Handle
  BY DEF Event, Plain
<1>2. e.kind = "opened" => e = Opened(e.conn)
  BY DEF Event, Opened
<1>3. e.kind = "closed" => e = Closed(e.conn)
  BY DEF Event, Closed
<1>4. e.kind = "confirmed" => e = Confirmed(e.conn, e.char)
  BY DEF Event, Confirmed
<1> QED BY <1>1, <1>2, <1>3, <1>4

\* Nothing happens to the table.
LEMMA SameTable ==
  ASSUME table' = table
  PROVE  (\A h : Stays(h)) /\ (AllDistinct => AllDistinct')
BY DEF Stays, Open, Once, Elements, Notes, Index, AllDistinct

\* A list in the table is distinct.
LEMMA NotesDistinct ==
  ASSUME TableType, AllDistinct, NEW h, Open(h)
  PROVE  Distinct(Notes(h))
BY IndexIs DEF AllDistinct, Notes

\* What an event does to the table.
LEMMA Effect ==
  ASSUME Types, AllDistinct, HandlesEvent, NEW e, e = Head(evq)
  PROVE  /\ evq # <<>> /\ evq' = Tail(evq) /\ e \in Event
         /\ UNCHANGED <<ncp, past>>
         /\ AllDistinct'
         /\ \A h \in Handle :
              /\ /\ e # Opened(h) /\ e # Closed(h)
                 /\ ~(e.kind \in {"config", "confirmed"} /\ e.conn = h /\ Open(h))
                 => Stays(h)
              /\ e = Opened(h) => Open(h)' /\ (Once(h)' => Notes(h)' = <<>>)
         /\ e.kind = "confirmed" /\ Open(e.conn)
              => Edited(e.conn, AfterConfirmation(e.conn, e.char))
         /\ e.kind = "config" /\ Open(e.conn) =>
              IF e.flags # "disable"
              THEN Edited(e.conn, Added(e.conn, e.char, e.flags))
              ELSE IF Finds(e.conn, e.char)
                   THEN Edited(e.conn, Without(e.conn, e.char))
                   ELSE Stays(e.conn)
         /\ (crashed' = crashed
               \/ (e.kind = "config" /\ e.flags = "disable" /\ Open(e.conn)
                     /\ ~Finds(e.conn, e.char)))
<1>1. \/ HandleValue(e) \/ HandleDescriptor(e) \/ HandleCompleted(e)
      \/ HandleConfig(e) \/ HandleConfirmation(e)
      \/ HandleFound(e) \/ HandleConnection(e)
  BY DEF HandlesEvent
<1>2. evq # <<>> /\ evq' = Tail(evq) /\ e \in Event /\ UNCHANGED <<ncp, past>>
  <2>1. evq # <<>> /\ evq' = Tail(evq) /\ UNCHANGED <<ncp, past>>
    BY <1>1 DEF HandleValue, HandleDescriptor, HandleCompleted, HandleConfig,
       HandleConfirmation, HandleFound, HandleConnection, Takes
  <2> QED BY <2>1 DEF Types, EvqType
<1>3. TableType /\ e.conn \in Handle
  BY <1>2, EventIs DEF Types
<1>4. /\ \A h : e = Opened(h) => e.kind = "opened" /\ e.conn = h
      /\ \A h : e = Closed(h) => e.kind = "closed" /\ e.conn = h
  BY DEF Opened, Closed
<1>5. CASE HandleValue(e) \/ HandleDescriptor(e) \/ HandleCompleted(e)
  <2>1. table' = table /\ crashed' = crashed
        /\ e.kind \notin {"config", "confirmed", "opened", "closed"}
    BY <1>5 DEF HandleValue, HandleDescriptor, HandleCompleted
  <2> QED BY <1>2, <1>4, <2>1, SameTable
<1>6. CASE HandleConfig(e)
  <2>0. e.kind = "config" /\ e.char \in Local /\ e.flags \in Flags
    BY <1>2, <1>6, Fields DEF HandleConfig
  <2>1. CASE Open(e.conn) /\ e.flags = "disable" /\ ~Finds(e.conn, e.char)
    <3>1. table' = table
      BY <1>6, <2>1 DEF HandleConfig, NullUsed
    <3> QED BY <1>2, <1>4, <2>0, <2>1, <3>1, SameTable
  <2>2. CASE Open(e.conn) /\ e.flags = "disable" /\ Finds(e.conn, e.char)
    <3>1. SetNotes(e.conn, Without(e.conn, e.char)) /\ crashed' = crashed
      BY <1>6, <2>2 DEF HandleConfig, NullUsed
    <3>2. Distinct(Without(e.conn, e.char))
      BY <1>3, <2>2, NotesDistinct, WithoutIs
    <3>3. /\ Edited(e.conn, Without(e.conn, e.char)) /\ AllDistinct'
          /\ \A g : g # e.conn => Stays(g)
      BY <1>3, <2>2, <3>1, <3>2, ListChanges
    <3> QED BY <1>2, <1>4, <2>0, <2>2, <3>1, <3>3
  <2>3. CASE Open(e.conn) /\ e.flags # "disable"
    <3>1. SetNotes(e.conn, Added(e.conn, e.char, e.flags)) /\ crashed' = crashed
      BY <1>6, <2>3 DEF HandleConfig
    <3>2. Distinct(Added(e.conn, e.char, e.flags))
      BY <1>3, <2>0, <2>3, NotesDistinct, AddedIs
    <3>3. /\ Edited(e.conn, Added(e.conn, e.char, e.flags)) /\ AllDistinct'
          /\ \A g : g # e.conn => Stays(g)
      BY <1>3, <2>3, <3>1, <3>2, ListChanges
    <3> QED BY <1>2, <1>4, <2>0, <2>3, <3>1, <3>3
  <2>4. CASE ~Open(e.conn)
    <3>1. table' = table /\ crashed' = crashed
      BY <1>6, <2>4 DEF HandleConfig
    <3> QED BY <1>2, <1>4, <2>0, <2>4, <3>1, SameTable
  <2> QED BY <2>1, <2>2, <2>3, <2>4
<1>7. CASE HandleConfirmation(e)
  <2>0. e.kind = "confirmed" /\ e.char \in Local /\ crashed' = crashed
        /\ "disable" \in Flags
    BY <1>2, <1>7, Fields DEF HandleConfirmation, Flags
  <2>1. CASE Open(e.conn)
    <3>1. SetNotes(e.conn, AfterConfirmation(e.conn, e.char))
      BY <1>7, <2>1 DEF HandleConfirmation
    <3>2. Distinct(AfterConfirmation(e.conn, e.char))
      BY <1>3, <2>0, <2>1, NotesDistinct, AddedIs DEF AfterConfirmation
    <3>3. /\ Edited(e.conn, AfterConfirmation(e.conn, e.char)) /\ AllDistinct'
          /\ \A g : g # e.conn => Stays(g)
      BY <1>3, <2>1, <3>1, <3>2, ListChanges
    <3> QED BY <1>2, <1>4, <2>0, <2>1, <3>3
  <2>2. CASE ~Open(e.conn)
    <3>1. table' = table
      BY <1>7, <2>2 DEF HandleConfirmation
    <3> QED BY <1>2, <1>4, <2>0, <2>2, <3>1, SameTable
  <2> QED BY <2>1, <2>2
<1>8. CASE HandleFound(e)
  <2>0. e.kind = "found" /\ crashed' = crashed
    BY <1>8 DEF HandleFound
  <2>1. CASE Open(e.conn)
    <3> DEFINE k == Index(e.conn)
               x == [table[k] EXCEPT !.known = TRUE]
    <3>1. k \in DOMAIN table /\ table[k].conn = e.conn /\ table[k] \in Elem
      BY <1>3, <2>1, IndexIs
    <3>2. table' = [table EXCEPT ![k] = x]
      BY <1>8, <2>1 DEF HandleFound
    <3>3. x.conn = e.conn /\ x.notes = Notes(e.conn)
      BY <3>1 DEF Elem, Notes
    <3> HIDE DEF x
    <3>4. Stays(e.conn)
      <4>1. Edited(e.conn, x.notes)
        BY <1>3, <2>1, <3>2, <3>3, OwnChanges
      <4> QED BY <2>1, <3>3, <4>1 DEF Edited, Stays
    <3>6. \A i \in DOMAIN table : table'[i].notes = table[i].notes
      BY <1>3, <3>1, <3>2, <3>3 DEF TableType, Notes
    <3>7. DOMAIN table' = DOMAIN table
      BY <1>3, <3>2 DEF TableType
    <3> HIDE DEF k
    <3>5. \A g : g # e.conn => Stays(g)
      BY <1>3, <3>1, <3>2, <3>3, OtherChanges
    <3>8. AllDistinct'
      BY <3>6, <3>7 DEF AllDistinct
    <3> QED BY <1>2, <1>4, <2>0, <3>4, <3>5, <3>8
  <2>2. CASE ~Open(e.conn)
    <3>1. table' = table
      BY <1>8, <2>2 DEF HandleFound
    <3> QED BY <1>2, <1>4, <2>0, <3>1, SameTable
  <2> QED BY <2>1, <2>2
<1>9. CASE HandleConnection(e)
  <2>0. crashed' = crashed
    BY <1>9 DEF HandleConnection
  <2>1. CASE e.kind = "opened"
    <3>1. connection_opened(e.conn) /\ e = Opened(e.conn)
      BY <1>2, <1>9, <2>1, EventIs DEF HandleConnection
    <3>2. /\ Open(e.conn)' /\ (Once(e.conn)' => Notes(e.conn)' = <<>>)
          /\ \A g \in Handle : g # e.conn => Stays(g)
          /\ AllDistinct'
      BY <1>3, <3>1, OpenedIs
    <3> QED BY <1>2, <1>4, <2>0, <2>1, <3>1, <3>2
  <2>2. CASE e.kind = "closed"
    <3>1. connection_closed(e.conn) /\ e = Closed(e.conn)
      BY <1>2, <1>9, <2>2, EventIs DEF HandleConnection
    <3>2. /\ \A g \in Handle : g # e.conn => Stays(g)
          /\ AllDistinct'
      BY <1>3, <3>1, ClosedIs
    <3> QED BY <1>2, <1>4, <2>0, <2>2, <3>1, <3>2
  <2> QED BY <1>9, <2>1, <2>2 DEF HandleConnection
<1> QED BY <1>1, <1>5, <1>6, <1>7, <1>8, <1>9

\* Whether an event leaves the notification in the list of its connection.
LEMMA NowStep ==
  ASSUME Types, AllDistinct, HandlesEvent, NEW h \in Handle, NEW l \in Local,
         \/ Enables(Head(evq), h, l)
         \/ Now(h, l) /\ ~Loses(Head(evq), h, l)
  PROVE  Now(h, l)'
<1>0. PICK e : e = Head(evq)
  OBVIOUS
<1>1. /\ evq # <<>> /\ e \in Event
      /\ (/\ e # Opened(h) /\ e # Closed(h)
          /\ ~(e.kind \in {"config", "confirmed"} /\ e.conn = h /\ Open(h))) => Stays(h)
      /\ e.kind = "confirmed" /\ Open(e.conn)
           => Edited(e.conn, AfterConfirmation(e.conn, e.char))
      /\ e.kind = "config" /\ Open(e.conn) =>
           IF e.flags # "disable"
           THEN Edited(e.conn, Added(e.conn, e.char, e.flags))
           ELSE IF Finds(e.conn, e.char)
                THEN Edited(e.conn, Without(e.conn, e.char))
                ELSE Stays(e.conn)
  BY <1>0, Effect
<1>2. /\ e # Opened(h) /\ e # Closed(h) /\ ~Disables(e, h, l) /\ TableType
      /\ Enables(e, h, l) \/ Now(h, l)
  BY <1>0, Kinds DEF Loses, Enables, Disables, Types
<1>3. CASE Stays(h)
  <2>1. Enables(e, h, l) => ~Open(h) \/ Now(h, l)
    <3>1. CASE Enables(e, h, l) /\ Open(h)
      <4>1. Edited(h, Added(h, l, e.flags)) /\ e.flags \in Flags
        BY <1>1, <3>1, Fields DEF Enables, IsConfig
      <4>2. Has(Notes(h)', l)
        BY <1>2, <3>1, <4>1, AddedIs, NotesDistinct DEF Edited
      <4>3. Notes(h)' = Notes(h)
        BY <1>3, <3>1 DEF Stays
      <4> QED BY <4>2, <4>3, FindsIs DEF Now
    <3> QED BY <3>1
  <2>2. ~Open(h) \/ Now(h, l)
    BY <1>2, <2>1
  <2>3. CASE ~Open(h)
    BY <1>3, <2>3 DEF Now, Stays
  <2>4. CASE Open(h) /\ Now(h, l)
    <3>1. Has(Notes(h)', l)
      BY <1>3, <2>4, FindsIs DEF Now, Stays
    <3> QED BY <3>1 DEF Now, Finds, Entries, Has
  <2> QED BY <2>2, <2>3, <2>4
<1>4. CASE e.kind \in {"config", "confirmed"} /\ e.conn = h /\ Open(h) /\ ~Stays(h)
  <2>1. Distinct(Notes(h))
    BY <1>2, <1>4, NotesDistinct
  <2>2. Enables(e, h, l) \/ Has(Notes(h), l)
    BY <1>2, <1>4, FindsIs DEF Now
  <2>3. Has(Notes(h)', l)
    <3>1. CASE e.kind = "confirmed"
      <4>1. Edited(h, AfterConfirmation(h, e.char)) /\ e.char \in Local
            /\ "disable" \in Flags
        BY <1>1, <1>4, <3>1, Fields DEF Flags
      <4>2. Has(Notes(h), l)
        BY <2>2, <3>1 DEF Enables, IsConfig
      <4> QED BY <1>2, <1>4, <2>1, <4>1, <4>2, AddedIs DEF AfterConfirmation, Edited
    <3>2. CASE e.kind = "config" /\ e.flags # "disable"
      <4>1. Edited(h, Added(h, e.char, e.flags)) /\ e.char \in Local /\ e.flags \in Flags
        BY <1>1, <1>4, <3>2, Fields
      <4>2. e.char = l \/ Has(Notes(h), l)
        BY <2>2 DEF Enables, IsConfig
      <4> QED BY <1>2, <1>4, <2>1, <4>1, <4>2, AddedIs DEF Edited
    <3>3. CASE e.kind = "config" /\ e.flags = "disable"
      <4>1. Edited(h, Without(h, e.char)) /\ Finds(h, e.char)
        BY <1>1, <1>4, <3>3
      <4>2. e.char # l /\ Has(Notes(h), l)
        BY <1>2, <1>4, <2>2, <3>3 DEF Disables, Enables, IsConfig
      <4> QED BY <1>2, <1>4, <2>1, <4>1, <4>2, WithoutIs DEF Edited
    <3> QED BY <1>4, <3>1, <3>2, <3>3
  <2> QED BY <2>3 DEF Now, Finds, Entries, Has
<1> QED BY <1>1, <1>2, <1>3, <1>4

\* What an event that tells the flags of a notification makes of the list, and
\* that another leaves them there.
LEMMA HoldsStep ==
  ASSUME Types, AllDistinct, HandlesEvent, NEW h \in Handle, NEW l \in Local,
         NEW f \in Flags,
         \/ Tells(Head(evq), h, l) /\ Told(Head(evq)) = f
         \/ /\ ~Tells(Head(evq), h, l) /\ Head(evq) # Closed(h) /\ Holds(h, l, f)
            /\ Head(evq) = Confirmed(h, l) => Now(h, l)
  PROVE  Holds(h, l, f)'
<1>0. PICK e : e = Head(evq)
  OBVIOUS
<1>1. /\ evq # <<>> /\ e \in Event
      /\ (/\ e # Opened(h) /\ e # Closed(h)
          /\ ~(e.kind \in {"config", "confirmed"} /\ e.conn = h /\ Open(h))) => Stays(h)
      /\ e = Opened(h) => (Once(h)' => Notes(h)' = <<>>)
      /\ e.kind = "confirmed" /\ Open(e.conn)
           => Edited(e.conn, AfterConfirmation(e.conn, e.char))
      /\ e.kind = "config" /\ Open(e.conn) =>
           IF e.flags # "disable"
           THEN Edited(e.conn, Added(e.conn, e.char, e.flags))
           ELSE IF Finds(e.conn, e.char)
                THEN Edited(e.conn, Without(e.conn, e.char))
                ELSE Stays(e.conn)
  BY <1>0, Effect
<1>2. /\ TableType
      /\ \/ Tells(e, h, l) /\ Told(e) = f
         \/ /\ ~Tells(e, h, l) /\ e # Closed(h) /\ Holds(h, l, f)
            /\ e = Confirmed(h, l) => Now(h, l)
  BY <1>0 DEF Types
<1>3. SUFFICES ASSUME Once(h)' PROVE HoldsIn(Notes(h)', l, f)
  BY DEF Holds, HoldsIn, Has
<1>4. CASE e = Opened(h)
  <2>1. f = "disable" /\ Notes(h)' = <<>>
    BY <1>1, <1>2, <1>3, <1>4, Kinds DEF Tells
  <2> QED BY <2>1 DEF HoldsIn, Has
<1>5. CASE Stays(h) /\ e # Opened(h)
  <2>1. Once(h) /\ Open(h) /\ Notes(h)' = Notes(h)
    <3>1. Once(h)
      BY <1>3, <1>5 DEF Stays
    <3>2. Open(h)
      BY <3>1 DEF Once, Open
    <3> QED BY <1>5, <3>1, <3>2 DEF Stays
  <2>2. CASE ~Tells(e, h, l)
    BY <1>2, <2>1, <2>2 DEF Holds
  <2>3. CASE Tells(e, h, l)
    <3>1. e.kind = "config" /\ e.conn = h /\ e.char = l /\ e.flags = f
      BY <1>2, <1>5, <2>3 DEF Tells, IsConfig, Told
    <3>2. CASE f = "disable" /\ ~Finds(h, l)
      BY <2>1, <3>2, FindsIs DEF HoldsIn
    <3>3. CASE f = "disable" /\ Finds(h, l)
      <4>1. Notes(h)' = Without(h, l)
        BY <1>1, <2>1, <3>1, <3>3 DEF Edited
      <4> QED BY <1>2, <2>1, <3>3, <4>1, WithoutIs, NotesDistinct DEF HoldsIn
    <3>4. CASE f # "disable"
      <4>1. Notes(h)' = Added(h, l, f)
        BY <1>1, <2>1, <3>1, <3>4 DEF Edited
      <4> QED BY <1>2, <2>1, <3>4, <4>1, AddedIs, NotesDistinct
    <3> QED BY <3>2, <3>3, <3>4
  <2> QED BY <2>2, <2>3
<1>6. CASE e.kind \in {"config", "confirmed"} /\ e.conn = h /\ Open(h) /\ ~Stays(h)
  <2>1. Distinct(Notes(h)) /\ e # Opened(h) /\ e # Closed(h)
    BY <1>2, <1>6, NotesDistinct DEF Opened, Closed
  <2>2. Once(h)
    BY <1>1, <1>3, <1>6 DEF Edited
  <2>3. CASE e.kind = "confirmed"
    <3>1. Notes(h)' = AfterConfirmation(h, e.char) /\ e.char \in Local
          /\ "disable" \in Flags /\ e = Confirmed(h, e.char)
      BY <1>1, <1>6, <2>3, Fields, EventIs DEF Edited, Flags
    <3>2. HoldsIn(Notes(h), l, f)
      BY <1>2, <2>1, <2>2, <2>3 DEF Tells, IsConfig, Holds
    <3>3. CASE Finds(h, e.char)
      BY <3>1, <3>2, <3>3 DEF AfterConfirmation
    <3>4. CASE ~Finds(h, e.char)
      <4>1. e.char # l
        BY <1>2, <1>6, <2>1, <2>3, <3>1, <3>4 DEF Now, Tells, IsConfig
      <4>2. Notes(h)' = Added(h, e.char, "disable")
        BY <3>1, <3>4 DEF AfterConfirmation
      <4> QED BY <1>2, <1>6, <2>1, <3>1, <3>2, <4>1, <4>2, AddedIs
    <3> QED BY <3>3, <3>4
  <2>4. CASE e.kind = "config" /\ e.char = l
    <3>1. e.flags = f
      BY <1>2, <1>6, <2>4 DEF Tells, IsConfig, Told
    <3>2. CASE f = "disable"
      <4>1. Notes(h)' = Without(h, l) /\ Finds(h, l)
        BY <1>1, <1>6, <2>4, <3>1, <3>2 DEF Edited
      <4> QED BY <1>2, <1>6, <2>1, <3>2, <4>1, WithoutIs DEF HoldsIn
    <3>3. CASE f # "disable"
      <4>1. Notes(h)' = Added(h, l, f)
        BY <1>1, <1>6, <2>4, <3>1, <3>3 DEF Edited
      <4> QED BY <1>2, <1>6, <2>1, <3>3, <4>1, AddedIs
    <3> QED BY <3>2, <3>3
  <2>5. CASE e.kind = "config" /\ e.char # l
    <3>1. HoldsIn(Notes(h), l, f)
      BY <1>2, <2>1, <2>2, <2>5 DEF Tells, IsConfig, Holds
    <3>2. e.char \in Local /\ e.flags \in Flags
      BY <1>1, <2>5, Fields
    <3>3. CASE e.flags = "disable"
      <4>1. Notes(h)' = Without(h, e.char) /\ Finds(h, e.char)
        BY <1>1, <1>6, <2>5, <3>3 DEF Edited
      <4> QED BY <1>2, <1>6, <2>1, <2>5, <3>1, <4>1, WithoutIs
    <3>4. CASE e.flags # "disable"
      <4>1. Notes(h)' = Added(h, e.char, e.flags)
        BY <1>1, <1>6, <2>5, <3>4 DEF Edited
      <4> QED BY <1>2, <1>6, <2>1, <2>5, <3>1, <3>2, <4>1, AddedIs
    <3> QED BY <3>3, <3>4
  <2> QED BY <1>6, <2>3, <2>4, <2>5
<1>7. e # Closed(h)
  BY <1>2, Kinds DEF Tells
<1> QED BY <1>1, <1>4, <1>5, <1>6, <1>7
\* A connection that is in the table stays there unless it closes.
LEMMA OpenStep ==
  ASSUME Types, AllDistinct, HandlesEvent, NEW h \in Handle,
         Head(evq) = Opened(h) \/ (Open(h) /\ Head(evq) # Closed(h))
  PROVE  Open(h)'
<1>0. PICK e : e = Head(evq)
  OBVIOUS
<1>1. /\ evq # <<>> /\ e \in Event
      /\ (/\ e # Opened(h) /\ e # Closed(h)
          /\ ~(e.kind \in {"config", "confirmed"} /\ e.conn = h /\ Open(h))) => Stays(h)
      /\ e = Opened(h) => Open(h)'
      /\ e.kind = "confirmed" /\ Open(e.conn)
           => Edited(e.conn, AfterConfirmation(e.conn, e.char))
      /\ e.kind = "config" /\ Open(e.conn) =>
           IF e.flags # "disable"
           THEN Edited(e.conn, Added(e.conn, e.char, e.flags))
           ELSE IF Finds(e.conn, e.char)
                THEN Edited(e.conn, Without(e.conn, e.char))
                ELSE Stays(e.conn)
  BY <1>0, Effect
<1>2. Stays(h) \/ e = Opened(h) \/ \E q : Edited(h, q)
  BY <1>0, <1>1
<1> QED BY <1>0, <1>1, <1>2 DEF Stays, Edited

\* Taking an event keeps what is said of those that are left.
LEMMA TailReheard ==
  ASSUME NEW s \in Seq(Event), s # <<>>, NEW L, Reheard(s, L)
  PROVE  Reheard(Tail(s), L)
<1> DEFINE t == Tail(s)
<1>1. /\ \A i \in DOMAIN t : i + 1 \in DOMAIN s /\ t[i] = s[i + 1] /\ i \in Nat
      /\ \A i \in DOMAIN s : i \in Nat /\ (i # 1 => i - 1 \in DOMAIN t)
  BY TailElems
<1>2. ASSUME NEW h \in L, NEW i \in DOMAIN t, t[i] = Closed(h)
      PROVE  \E j \in DOMAIN t : i < j /\ t[j] = Opened(h)
  <2> HIDE DEF t
  <2>1. PICK j \in DOMAIN s : i + 1 < j /\ s[j] = Opened(h)
    BY <1>1, <1>2 DEF Reheard
  <2>2. j - 1 \in DOMAIN t /\ i < j - 1
    BY <1>1, <2>1
  <2>3. t[j - 1] = Opened(h)
    BY <1>1, <2>1, <2>2
  <2> QED BY <2>2, <2>3
<1> QED BY <1>2 DEF Reheard

LEMMA HeardStep ==
  ASSUME Types, AllDistinct, Reheard(evq, link), Heard(evq, link), HandlesEvent
  PROVE  Heard(evq, link)'
<1>1. /\ evq # <<>> /\ evq' = Tail(evq) /\ link' = link /\ evq \in Seq(Event)
      /\ link \subseteq Handle
  BY Effect DEF ncp, Types, EvqType, NcpType
<1> DEFINE t == Tail(evq)
<1>2. /\ \A i \in DOMAIN t : i + 1 \in DOMAIN evq /\ t[i] = evq[i + 1] /\ i \in Nat
      /\ \A i \in DOMAIN evq : i \in Nat /\ (i # 1 => i - 1 \in DOMAIN t)
      /\ 1 \in DOMAIN evq /\ Head(evq) = evq[1]
  BY <1>1, TailElems
<1> HIDE DEF t
<1>3. ASSUME NEW h \in link PROVE Open(h)' \/ \E i \in DOMAIN t : t[i] = Opened(h)
  <2>1. \A i \in DOMAIN evq : i # 1 /\ evq[i] = Opened(h)
          => \E j \in DOMAIN t : t[j] = Opened(h)
    <3> SUFFICES ASSUME NEW i \in DOMAIN evq, i # 1, evq[i] = Opened(h)
                 PROVE  \E j \in DOMAIN t : t[j] = Opened(h)
      OBVIOUS
    <3>1. i - 1 \in DOMAIN t /\ i - 1 \in Nat /\ i \in Nat
      BY <1>2
    <3>2. t[i - 1] = evq[i]
      BY <1>2, <3>1
    <3> QED BY <3>1, <3>2
  <2>2. CASE Head(evq) = Closed(h)
    <3>1. PICK j \in DOMAIN evq : 1 < j /\ evq[j] = Opened(h)
      BY <1>2, <2>2 DEF Reheard
    <3> QED BY <1>2, <2>1, <3>1
  <2>3. CASE Head(evq) # Closed(h) /\ (Open(h) \/ Head(evq) = Opened(h))
    BY <1>1, <2>3, OpenStep
  <2>4. CASE ~Open(h) /\ Head(evq) # Opened(h)
    BY <1>2, <2>1, <2>4 DEF Heard
  <2> QED BY <2>2, <2>3, <2>4
<1> QED BY <1>1, <1>3 DEF Heard, t

LEMMA DisablesStep ==
  ASSUME Types, AllDistinct, DisablesSure(evq), HandlesEvent
  PROVE  DisablesSure(evq)'
<1>1. evq # <<>> /\ evq' = Tail(evq) /\ evq \in Seq(Event)
  BY Effect DEF Types, EvqType
<1>2. \A i \in DOMAIN Tail(evq) : /\ i + 1 \in DOMAIN evq /\ Tail(evq)[i] = evq[i + 1]
                                  /\ i \in Nat /\ i > 0
  BY <1>1, TailElems
<1>3. ASSUME NEW h \in Handle, NEW l \in Local, NEW i \in DOMAIN Tail(evq),
             Disables(Tail(evq)[i], h, l)
      PROVE  Sure(Tail(evq), i, h, l, Now(h, l)')
  <2>1. i + 1 \in DOMAIN evq /\ Disables(evq[i + 1], h, l) /\ i \in Nat /\ i > 0
    BY <1>2, <1>3
  <2>2. Sure(evq, i + 1, h, l, Now(h, l))
    BY <2>1 DEF DisablesSure
  <2>3. Enables(Head(evq), h, l) \/ (Now(h, l) /\ ~Loses(Head(evq), h, l)) => Now(h, l)'
    BY NowStep
  <2> QED BY <1>1, <2>1, <2>2, <2>3, SureTail
<1> QED BY <1>1, <1>3 DEF DisablesSure

LEMMA ConfirmsStep ==
  ASSUME Types, AllDistinct, ConfirmsSure(evq), HandlesEvent
  PROVE  ConfirmsSure(evq)'
<1>1. evq # <<>> /\ evq' = Tail(evq) /\ evq \in Seq(Event)
  BY Effect DEF Types, EvqType
<1>2. \A i \in DOMAIN Tail(evq) : /\ i + 1 \in DOMAIN evq /\ Tail(evq)[i] = evq[i + 1]
                                  /\ i \in Nat /\ i > 0
  BY <1>1, TailElems
<1>3. ASSUME NEW h \in Handle, NEW l \in Local, NEW i \in DOMAIN Tail(evq),
             Tail(evq)[i] = Confirmed(h, l)
      PROVE  Sure(Tail(evq), i, h, l, Now(h, l)')
  <2>1. i + 1 \in DOMAIN evq /\ evq[i + 1] = Confirmed(h, l) /\ i \in Nat /\ i > 0
    BY <1>2, <1>3
  <2>2. Sure(evq, i + 1, h, l, Now(h, l))
    BY <2>1 DEF ConfirmsSure
  <2>3. Enables(Head(evq), h, l) \/ (Now(h, l) /\ ~Loses(Head(evq), h, l)) => Now(h, l)'
    BY NowStep
  <2> QED BY <1>1, <2>1, <2>2, <2>3, SureTail
<1> QED BY <1>1, <1>3 DEF ConfirmsSure

LEMMA EnabledStep ==
  ASSUME Types, AllDistinct, EnabledSure(evq, link, config), HandlesEvent
  PROVE  EnabledSure(evq, link, config)'
<1>1. /\ evq # <<>> /\ evq' = Tail(evq) /\ evq \in Seq(Event)
      /\ link' = link /\ config' = config /\ link \subseteq Handle
  BY Effect DEF Types, EvqType, NcpType, ncp
<1>2. Len(evq) \in Nat /\ Len(evq) > 0 /\ Len(Tail(evq)) + 1 = Len(evq)
  BY <1>1
<1>3. ASSUME NEW h \in link, NEW l \in Local, config[h][l] # "disable"
      PROVE  Sure(Tail(evq), Len(Tail(evq)) + 1, h, l, Now(h, l)')
  <2>1. Sure(evq, Len(evq) + 1, h, l, Now(h, l))
    BY <1>3 DEF EnabledSure
  <2>2. Enables(Head(evq), h, l) \/ (Now(h, l) /\ ~Loses(Head(evq), h, l)) => Now(h, l)'
    BY <1>1, NowStep
  <2>3. Sure(Tail(evq), Len(evq), h, l, Now(h, l)')
    BY <1>1, <1>2, <2>1, <2>2, SureTail
  <2> QED BY <1>2, <2>3
<1> QED BY <1>1, <1>3 DEF EnabledSure

\* The confirmation that comes next finds the notification.
LEMMA SureFirst ==
  ASSUME NEW s \in Seq(Event), NEW h, NEW l, NEW now, Sure(s, 1, h, l, now)
  PROVE  now
<1>1. \A i \in DOMAIN s : ~(i < 1)
  OBVIOUS
<1> QED BY <1>1 DEF Sure

LEMMA ConfiguredStep ==
  ASSUME Types, AllDistinct, Reheard(evq, link), ConfirmsSure(evq),
         Configured(evq, link, config), HandlesEvent
  PROVE  Configured(evq, link, config)'
<1>1. /\ evq # <<>> /\ evq' = Tail(evq) /\ evq \in Seq(Event)
      /\ link' = link /\ config' = config /\ link \subseteq Handle
      /\ \A h \in link, l \in Local : config[h][l] \in Flags
  BY Effect DEF Types, EvqType, NcpType, ncp
<1> DEFINE t == Tail(evq)
<1>2. /\ \A i \in DOMAIN t : i + 1 \in DOMAIN evq /\ t[i] = evq[i + 1] /\ i \in Nat
      /\ \A i \in DOMAIN evq : i \in Nat /\ (i # 1 => i - 1 \in DOMAIN t)
      /\ 1 \in DOMAIN evq /\ Head(evq) = evq[1]
  BY <1>1, TailElems
<1> HIDE DEF t
<1>3. ASSUME NEW h \in link, NEW l \in Local, NEW f \in Flags, f = config[h][l]
      PROVE  Becomes(t, h, l, f, Holds(h, l, f)')
  <2>1. Becomes(evq, h, l, f, Holds(h, l, f))
    BY <1>3 DEF Configured
  <2>2. Head(evq) = Confirmed(h, l) => Now(h, l)
    <3> SUFFICES ASSUME Head(evq) = Confirmed(h, l) PROVE Now(h, l)
      OBVIOUS
    <3>1. Sure(evq, 1, h, l, Now(h, l))
      BY <1>1, <1>2 DEF ConfirmsSure
    <3> QED BY <1>1, <3>1, SureFirst
  <2>3. Head(evq) = Closed(h) => \E i \in DOMAIN t : Tells(t[i], h, l)
    <3> SUFFICES ASSUME Head(evq) = Closed(h) PROVE \E i \in DOMAIN t : Tells(t[i], h, l)
      OBVIOUS
    <3>1. PICK j \in DOMAIN evq : 1 < j /\ evq[j] = Opened(h)
      BY <1>2 DEF Reheard
    <3>2. j - 1 \in DOMAIN t
      BY <1>2, <3>1
    <3>3. t[j - 1] = Opened(h)
      BY <1>2, <3>1, <3>2
    <3> QED BY <3>2, <3>3 DEF Tells
  <2>4. \/ Tells(Head(evq), h, l) /\ Told(Head(evq)) = f
        \/ /\ ~Tells(Head(evq), h, l) /\ Head(evq) # Closed(h) /\ Holds(h, l, f)
           /\ Head(evq) = Confirmed(h, l) => Now(h, l)
        => Holds(h, l, f)'
    BY <1>1, <1>3, HoldsStep
  <2>5. (/\ \/ Tells(Head(evq), h, l) /\ Told(Head(evq)) = f
            \/ ~Tells(Head(evq), h, l) /\ Holds(h, l, f)
         /\ \A i \in DOMAIN t : ~Tells(t[i], h, l)) => Holds(h, l, f)'
    BY <2>2, <2>3, <2>4
  <2> QED BY <1>1, <2>1, <2>5, EndsTail DEF t
<1> QED BY <1>1, <1>3 DEF Configured, t

LEMMA PlainStep ==
  ASSUME Types, OwedPlain, owed' = owed
  PROVE  OwedPlain'
BY DEF OwedPlain

\* An event the loop takes keeps the invariant.
LEMMA HandleInv ==
  ASSUME Types, ListsInv, HandlesEvent
  PROVE  ListsInv'
<1>1. /\ evq # <<>> /\ evq' = Tail(evq) /\ evq \in Seq(Event) /\ AllDistinct'
      /\ link' = link /\ config' = config /\ indicated' = indicated /\ owed' = owed
      /\ kept' = kept /\ late' = late /\ AllDistinct
  BY Effect DEF Types, EvqType, ncp, past, ListsInv
<1>2. OwedPlain' /\ Reheard(evq, link)' /\ Heard(evq, link)'
  <2>1. OwedPlain' /\ Heard(evq, link)'
    BY <1>1, PlainStep, HeardStep DEF ListsInv
  <2>2. Reheard(evq', link')
    BY <1>1, TailReheard DEF ListsInv
  <2> QED BY <2>1, <2>2 DEF Reheard
<1>3. ~kept => Steady'
  <2> SUFFICES ASSUME ~kept PROVE Steady'
    OBVIOUS
  <2>1. DisablesSure(evq)' /\ EnabledSure(evq, link, config)'
    BY <1>1, DisablesStep, EnabledStep DEF ListsInv, Steady
  <2>2. ~crashed'
    <3>1. PICK e : e = Head(evq)
      OBVIOUS
    <3>2. CASE e.kind = "config" /\ e.flags = "disable" /\ Open(e.conn)
               /\ ~Finds(e.conn, e.char)
      <4>1. e \in Event /\ 1 \in DOMAIN evq /\ evq[1] = e
        BY <1>1, <3>1, TailElems, Effect
      <4>2. Disables(evq[1], e.conn, e.char) /\ e.conn \in Handle /\ e.char \in Local
        BY <3>2, <4>1, Fields DEF Disables, IsConfig
      <4>3. Sure(evq, 1, e.conn, e.char, Now(e.conn, e.char))
        BY <4>1, <4>2 DEF ListsInv, Steady, DisablesSure
      <4>4. Now(e.conn, e.char)
        BY <1>1, <4>3, SureFirst
      <4> QED BY <3>2, <4>4 DEF Now
    <3>3. CASE crashed' = crashed
      BY <3>3 DEF ListsInv, Steady
    <3> QED BY <1>1, <3>1, <3>2, <3>3, Effect
  <2> QED BY <2>1, <2>2 DEF Steady
<1>4. ~kept /\ ~late => Faithful'
  <2> SUFFICES ASSUME ~kept, ~late PROVE Faithful'
    OBVIOUS
  <2>1. Faithful /\ Reheard(evq, link)
    BY DEF ListsInv
  <2>2. Indicating'
    BY <1>1, <2>1 DEF Faithful, Indicating
  <2>3. ConfirmsSure(evq)' /\ Configured(evq, link, config)'
    BY <1>1, <2>1, ConfirmsStep, ConfiguredStep DEF Faithful
  <2> QED BY <2>2, <2>3 DEF Faithful
<1> QED BY <1>1, <1>2, <1>3, <1>4 DEF ListsInv
-----------------------------------------------------------------------------
(* An event is on its way.  K and d are the connections and configurations    *)
(* after it.                                                                  *)

LEMMA AppendReheard ==
  ASSUME NEW s \in Seq(Event), NEW e, NEW L, NEW K, Reheard(s, L),
         \A h \in K : e = Opened(h) \/ (h \in L /\ e # Closed(h))
  PROVE  Reheard(Append(s, e), K)
<1> DEFINE t == Append(s, e)
<1>1. /\ \A i \in DOMAIN s : i \in DOMAIN t /\ t[i] = s[i] /\ i \in Nat /\ i < Len(s) + 1
      /\ Len(s) + 1 \in DOMAIN t /\ t[Len(s) + 1] = e
      /\ \A i \in DOMAIN t : i \in DOMAIN s \/ i = Len(s) + 1
  BY AppendElems
<1> HIDE DEF t
<1>2. ASSUME NEW h \in K, NEW i \in DOMAIN t, t[i] = Closed(h)
      PROVE  \E j \in DOMAIN t : i < j /\ t[j] = Opened(h)
  <2>1. e # Closed(h)
    BY Kinds
  <2>2. i \in DOMAIN s /\ s[i] = Closed(h)
    BY <1>1, <1>2, <2>1
  <2>3. CASE e = Opened(h)
    BY <1>1, <2>2, <2>3
  <2>4. CASE h \in L
    <3>1. PICK j \in DOMAIN s : i < j /\ s[j] = Opened(h)
      BY <2>2, <2>4 DEF Reheard
    <3> QED BY <1>1, <3>1
  <2> QED BY <2>3, <2>4
<1> QED BY <1>2 DEF Reheard, t

LEMMA AppendHeard ==
  ASSUME NEW s \in Seq(Event), NEW e, NEW L, NEW K, Heard(s, L),
         \A h \in K : e = Opened(h) \/ h \in L
  PROVE  Heard(Append(s, e), K)
<1> DEFINE t == Append(s, e)
<1>1. /\ \A i \in DOMAIN s : i \in DOMAIN t /\ t[i] = s[i]
      /\ Len(s) + 1 \in DOMAIN t /\ t[Len(s) + 1] = e
  BY AppendElems
<1> HIDE DEF t
<1> QED BY <1>1 DEF Heard, t

LEMMA AppendDisables ==
  ASSUME NEW s \in Seq(Event), NEW e, DisablesSure(s),
         \A h \in Handle, l \in Local :
           Disables(e, h, l) => Sure(s, Len(s) + 1, h, l, Now(h, l))
  PROVE  DisablesSure(Append(s, e))
<1> DEFINE t == Append(s, e)
<1>1. /\ \A i \in DOMAIN s : t[i] = s[i]
      /\ t[Len(s) + 1] = e
      /\ \A i \in DOMAIN t : i \in DOMAIN s \/ i = Len(s) + 1
  BY AppendElems
<1>2. ASSUME NEW h \in Handle, NEW l \in Local, NEW i \in DOMAIN t, Disables(t[i], h, l)
      PROVE  Sure(t, i, h, l, Now(h, l))
  <2> HIDE DEF t
  <2>1. CASE i \in DOMAIN s
    <3>1. Sure(s, i, h, l, Now(h, l))
      BY <1>1, <1>2, <2>1 DEF DisablesSure
    <3> QED BY <2>1, <3>1, SureAppend DEF t
  <2>2. CASE i = Len(s) + 1
    <3>1. Sure(s, Len(s) + 1, h, l, Now(h, l))
      BY <1>1, <1>2, <2>2
    <3> QED BY <2>2, <3>1, SureAppend DEF t
  <2> QED BY <1>1, <2>1, <2>2
<1> QED BY <1>2 DEF DisablesSure

LEMMA AppendConfirms ==
  ASSUME NEW s \in Seq(Event), NEW e, ConfirmsSure(s),
         \A h \in Handle, l \in Local :
           e = Confirmed(h, l) => Sure(s, Len(s) + 1, h, l, Now(h, l))
  PROVE  ConfirmsSure(Append(s, e))
<1> DEFINE t == Append(s, e)
<1>1. /\ \A i \in DOMAIN s : t[i] = s[i]
      /\ t[Len(s) + 1] = e
      /\ \A i \in DOMAIN t : i \in DOMAIN s \/ i = Len(s) + 1
  BY AppendElems
<1>2. ASSUME NEW h \in Handle, NEW l \in Local, NEW i \in DOMAIN t, t[i] = Confirmed(h, l)
      PROVE  Sure(t, i, h, l, Now(h, l))
  <2> HIDE DEF t
  <2>1. CASE i \in DOMAIN s
    <3>1. Sure(s, i, h, l, Now(h, l))
      BY <1>1, <1>2, <2>1 DEF ConfirmsSure
    <3> QED BY <2>1, <3>1, SureAppend DEF t
  <2>2. CASE i = Len(s) + 1
    <3>1. Sure(s, Len(s) + 1, h, l, Now(h, l))
      BY <1>1, <1>2, <2>2
    <3> QED BY <2>2, <3>1, SureAppend DEF t
  <2> QED BY <1>1, <2>1, <2>2
<1> QED BY <1>2 DEF ConfirmsSure

LEMMA AppendEnabled ==
  ASSUME NEW s \in Seq(Event), NEW e, NEW L, NEW c, NEW K, NEW d,
         EnabledSure(s, L, c),
         \A h \in K, l \in Local : d[h][l] # "disable" =>
           \/ Enables(e, h, l)
           \/ h \in L /\ c[h][l] # "disable" /\ ~Loses(e, h, l)
  PROVE  EnabledSure(Append(s, e), K, d)
<1>1. ASSUME NEW h \in K, NEW l \in Local, d[h][l] # "disable"
      PROVE  Sure(Append(s, e), Len(Append(s, e)) + 1, h, l, Now(h, l))
  <2>1. CASE Enables(e, h, l)
    BY <2>1, SureAppend
  <2>2. CASE h \in L /\ c[h][l] # "disable" /\ ~Loses(e, h, l)
    <3>1. Sure(s, Len(s) + 1, h, l, Now(h, l))
      BY <2>2 DEF EnabledSure
    <3> QED BY <2>2, <3>1, SureAppend
  <2> QED BY <1>1, <2>1, <2>2
<1> QED BY <1>1 DEF EnabledSure

LEMMA AppendConfigured ==
  ASSUME NEW s \in Seq(Event), NEW e, NEW L, NEW c, NEW K, NEW d,
         Configured(s, L, c),
         \A h \in K, l \in Local :
           \/ Tells(e, h, l) /\ Told(e) = d[h][l]
           \/ h \in L /\ d[h][l] = c[h][l] /\ ~Tells(e, h, l)
  PROVE  Configured(Append(s, e), K, d)
<1>1. ASSUME NEW h \in K, NEW l \in Local, NEW f \in Flags, f = d[h][l]
      PROVE  Becomes(Append(s, e), h, l, f, Holds(h, l, f))
  <2>1. CASE Tells(e, h, l) /\ Told(e) = f
    BY <2>1, EndsAppend
  <2>2. CASE h \in L /\ f = c[h][l] /\ ~Tells(e, h, l)
    <3>1. Becomes(s, h, l, f, Holds(h, l, f))
      BY <2>2 DEF Configured
    <3> QED BY <2>2, <3>1, EndsAppend
  <2> QED BY <1>1, <2>1, <2>2
<1> QED BY <1>1 DEF Configured

\* While the table stays, what is said of the lists is said of the next state.
LEMMA SameLists ==
  ASSUME table' = table, NEW s, s = evq', NEW L, L = link', NEW c, c = config'
  PROVE  /\ AllDistinct => AllDistinct'
         /\ Reheard(s, L) => Reheard(evq, link)'
         /\ Heard(s, L) => Heard(evq, link)'
         /\ DisablesSure(s) => DisablesSure(evq)'
         /\ ConfirmsSure(s) => ConfirmsSure(evq)'
         /\ EnabledSure(s, L, c) => EnabledSure(evq, link, config)'
         /\ Configured(s, L, c) => Configured(evq, link, config)'
<1>1. /\ \A h : Open(h)' <=> Open(h)
      /\ \A h, l : Now(h, l)' <=> Now(h, l)
      /\ \A h, l, f : Holds(h, l, f)' <=> Holds(h, l, f)
  BY DEF Open, Elements, Now, Finds, Entries, Notes, Index, Holds, Once
<1>2. AllDistinct => AllDistinct'
  BY DEF AllDistinct
<1>3. Reheard(s, L) => Reheard(evq, link)'
  BY DEF Reheard
<1>4. Heard(s, L) => Heard(evq, link)'
  BY <1>1 DEF Heard
<1>5. DisablesSure(s) => DisablesSure(evq)'
  <2> SUFFICES ASSUME DisablesSure(s), NEW h \in Handle, NEW l \in Local,
                      NEW i \in DOMAIN evq', Disables(evq'[i], h, l)
               PROVE  Sure(evq', i, h, l, Now(h, l)')
    BY DEF DisablesSure
  <2>1. Sure(s, i, h, l, Now(h, l))
    BY DEF DisablesSure
  <2> QED BY <1>1, <2>1 DEF Sure
<1>6. ConfirmsSure(s) => ConfirmsSure(evq)'
  <2> SUFFICES ASSUME ConfirmsSure(s), NEW h \in Handle, NEW l \in Local,
                      NEW i \in DOMAIN evq', evq'[i] = Confirmed(h, l)
               PROVE  Sure(evq', i, h, l, Now(h, l)')
    BY DEF ConfirmsSure
  <2>1. Sure(s, i, h, l, Now(h, l))
    BY DEF ConfirmsSure
  <2> QED BY <1>1, <2>1 DEF Sure
<1>7. EnabledSure(s, L, c) => EnabledSure(evq, link, config)'
  <2> SUFFICES ASSUME EnabledSure(s, L, c), NEW h \in link', NEW l \in Local,
                      config'[h][l] # "disable"
               PROVE  Sure(evq', Len(evq') + 1, h, l, Now(h, l)')
    BY DEF EnabledSure
  <2>1. Sure(s, Len(s) + 1, h, l, Now(h, l))
    BY DEF EnabledSure
  <2> QED BY <1>1, <2>1 DEF Sure
<1>8. Configured(s, L, c) => Configured(evq, link, config)'
  <2> SUFFICES ASSUME Configured(s, L, c), NEW h \in link', NEW l \in Local,
                      NEW f \in Flags, f = config'[h][l]
               PROVE  Becomes(evq', h, l, f, Holds(h, l, f)')
    BY DEF Configured
  <2>1. Becomes(s, h, l, f, Holds(h, l, f))
    BY DEF Configured
  <2> QED BY <1>1, <2>1 DEF Becomes
<1> QED BY <1>2, <1>3, <1>4, <1>5, <1>6, <1>7, <1>8

\* An event of a procedure, or of the device's values, says nothing of the
\* lists.
LEMMA AppendPlain ==
  ASSUME NEW s \in Seq(Event), NEW e, Plain(e), NEW L, NEW c
  PROVE  /\ Reheard(s, L) => Reheard(Append(s, e), L)
         /\ Heard(s, L) => Heard(Append(s, e), L)
         /\ DisablesSure(s) => DisablesSure(Append(s, e))
         /\ ConfirmsSure(s) => ConfirmsSure(Append(s, e))
         /\ EnabledSure(s, L, c) => EnabledSure(Append(s, e), L, c)
         /\ Configured(s, L, c) => Configured(Append(s, e), L, c)
<1>1. \A h, l : /\ e # Opened(h) /\ e # Closed(h) /\ e # Confirmed(h, l)
                /\ ~Disables(e, h, l) /\ ~Loses(e, h, l) /\ ~Tells(e, h, l)
  <2> TAKE h, l
  <2>1. e # Opened(h) /\ e # Closed(h) /\ e # Confirmed(h, l) /\ ~IsConfig(e, h, l)
    BY DEF Plain, Opened, Closed, Confirmed, IsConfig
  <2> QED BY <2>1 DEF Disables, Loses, Tells
<1>2. Reheard(s, L) => Reheard(Append(s, e), L)
  BY <1>1, AppendReheard
<1>3. Heard(s, L) => Heard(Append(s, e), L)
  BY AppendHeard
<1>4. DisablesSure(s) => DisablesSure(Append(s, e))
  BY <1>1, AppendDisables
<1>5. ConfirmsSure(s) => ConfirmsSure(Append(s, e))
  BY <1>1, AppendConfirms
<1>6. EnabledSure(s, L, c) => EnabledSure(Append(s, e), L, c)
  BY <1>1, AppendEnabled
<1>7. Configured(s, L, c) => Configured(Append(s, e), L, c)
  BY <1>1, AppendConfigured
<1> QED BY <1>2, <1>3, <1>4, <1>5, <1>6, <1>7
-----------------------------------------------------------------------------
(* The other steps                                                            *)

\* The table stays, and the rest is as it must be.
LEMMA NextLists ==
  ASSUME AllDistinct, table' = table, crashed' = crashed, OwedPlain',
         NEW s, s = evq', NEW L, L = link', NEW c, c = config',
         Reheard(s, L), Heard(s, L),
         ~kept' => ~crashed /\ DisablesSure(s) /\ EnabledSure(s, L, c),
         ~kept' /\ ~late' => Indicating' /\ ConfirmsSure(s) /\ Configured(s, L, c)
  PROVE  ListsInv'
<1>1. /\ AllDistinct' /\ Reheard(evq, link)' /\ Heard(evq, link)'
      /\ DisablesSure(s) => DisablesSure(evq)'
      /\ ConfirmsSure(s) => ConfirmsSure(evq)'
      /\ EnabledSure(s, L, c) => EnabledSure(evq, link, config)'
      /\ Configured(s, L, c) => Configured(evq, link, config)'
  BY SameLists
<1>2. ~kept' => Steady'
  BY <1>1 DEF Steady
<1>3. ~kept' /\ ~late' => Faithful'
  BY <1>1 DEF Faithful
<1> QED BY <1>1, <1>2, <1>3 DEF ListsInv

\* What a command makes the NCP report says nothing of the lists.
LEMMA StartsPlain ==
  ASSUME NcpType, OwedPlain, NEW h \in Handle, NEW R, Starts(h, R),
         \A r \in R : \A i \in DOMAIN r : Plain(r[i])
  PROVE  OwedPlain'
<1>1. PICK r \in R : owed' = [owed EXCEPT ![h] = r]
  BY DEF Starts
<1>2. ASSUME NEW g \in Handle, NEW i \in DOMAIN owed'[g] PROVE Plain(owed'[g][i])
  <2>1. owed'[g] = IF g = h THEN r ELSE owed[g]
    BY <1>1 DEF NcpType
  <2> QED BY <1>2, <2>1 DEF OwedPlain
<1> QED BY <1>2 DEF OwedPlain

LEMMA ResultsPlain ==
  ASSUME NEW h, NEW a
  PROVE  /\ \A r \in ReadResults(h, a) : \A i \in DOMAIN r : Plain(r[i])
         /\ \A r \in WriteResults(h) : \A i \in DOMAIN r : Plain(r[i])
         /\ \A i \in DOMAIN <<Found(h), Completed(h, TRUE)>> :
              Plain(<<Found(h), Completed(h, TRUE)>>[i])
<1>1. /\ \A ok : Plain(Completed(h, ok)) /\ Plain(Found(h))
      /\ \A ch, op : Plain(Value(h, ch, op)) /\ Plain(DescValue(h, ch))
  BY DEF Plain, Completed, Found, Value, DescValue
<1>2. /\ \A x : Plain(x) => \A i \in DOMAIN <<x>> : Plain(<<x>>[i])
      /\ \A x, y : Plain(x) /\ Plain(y) => \A i \in DOMAIN <<x, y>> : Plain(<<x, y>>[i])
      /\ \A x, y, z : Plain(x) /\ Plain(y) /\ Plain(z)
           => \A i \in DOMAIN <<x, y, z>> : Plain(<<x, y, z>>[i])
  OBVIOUS
<1>3. \A r \in ReadResults(h, a) :
        \/ r = <<Completed(h, FALSE)>>
        \/ r = <<DescValue(h, a.char), Completed(h, TRUE)>>
        \/ r = <<Value(h, a.char, "read"), Completed(h, TRUE)>>
        \/ r = <<Value(h, a.char, "read"), Value(h, a.char, "blob"), Completed(h, TRUE)>>
  BY DEF ReadResults
<1>4. \A r \in WriteResults(h) : \/ r = <<Completed(h, TRUE)>>
                                 \/ r = <<Completed(h, FALSE)>>
  BY DEF WriteResults
<1> QED BY <1>1, <1>2, <1>3, <1>4

\* Commands leave the lists, and add indications to those that are enabled.
LEMMA CommandInv ==
  ASSUME Types, ListsInv,
         RunsCommand \/ \E c \in Command : SingleShot(c) \/ Receive(c)
  PROVE  ListsInv'
<1>1. /\ table' = table /\ crashed' = crashed /\ evq' = evq /\ link' = link
      /\ config' = config /\ kept' = kept /\ late' = late
  BY DEF RunsCommand, SingleShot, Receive, Read, Write, Notify, LocalOrUnknown,
         Discover, Scan, ncp, past
<1>2. OwedPlain'
  <2>1. OwedPlain /\ NcpType
    BY DEF ListsInv, Types
  <2>2. CASE owed' = owed
    BY <2>1, <2>2 DEF OwedPlain
  <2>3. CASE Read \/ Write
    <3>1. new.conn \in Handle
      BY <2>3 DEF Read, Write, Types, LoopType, Command, NoCommand
    <3>2. \/ owed' = owed
          \/ Starts(new.conn, ReadResults(new.conn, new.attr))
          \/ Starts(new.conn, WriteResults(new.conn))
      BY <2>3 DEF Read, Write, WriteNoResponse, WriteWithResponse
    <3> QED BY <2>1, <2>2, <3>1, <3>2, ResultsPlain, StartsPlain
  <2>4. CASE Discover
    <3>1. new.conn \in Handle
      BY <2>4 DEF Discover, Types, LoopType, Command, NoCommand
    <3>2. \/ owed' = owed
          \/ Starts(new.conn, {<<Found(new.conn), Completed(new.conn, TRUE)>>})
      BY <2>4 DEF Discover
    <3>3. PICK h : h = new.conn
      OBVIOUS
    <3>4. \A r \in {<<Found(h), Completed(h, TRUE)>>} : \A i \in DOMAIN r : Plain(r[i])
      <4>1. \A i \in DOMAIN <<Found(h), Completed(h, TRUE)>> :
              Plain(<<Found(h), Completed(h, TRUE)>>[i])
        BY ResultsPlain
      <4> QED BY <4>1, Zenon
    <3>5. CASE Starts(h, {<<Found(h), Completed(h, TRUE)>>})
      BY <2>1, <3>1, <3>3, <3>4, <3>5, StartsPlain
    <3> QED BY <2>2, <3>2, <3>3, <3>5
  <2> QED BY <2>2, <2>3, <2>4
          DEF RunsCommand, SingleShot, Receive, Notify, LocalOrUnknown, Scan, ncp
<1>3. Indicating => Indicating'
  <2>1. CASE indicated' = indicated
    BY <1>1, <2>1 DEF Indicating
  <2>2. CASE Notify
    BY <1>1, <2>2 DEF Notify, Indicating
  <2> QED BY <2>1, <2>2
          DEF RunsCommand, SingleShot, Receive, Read, Write, LocalOrUnknown,
              Discover, Scan, ncp
<1>4. /\ AllDistinct /\ Reheard(evq, link) /\ Heard(evq, link)
      /\ ~kept => ~crashed /\ DisablesSure(evq) /\ EnabledSure(evq, link, config)
  BY DEF ListsInv, Steady
<1>5. ~kept /\ ~late
        => Indicating' /\ ConfirmsSure(evq) /\ Configured(evq, link, config)
  BY <1>3 DEF ListsInv, Faithful
<1> QED BY <1>1, <1>2, <1>4, <1>5, NextLists

\* The NCP reports a result, or a value the device notifies.
LEMMA ReportInv ==
  ASSUME Types, ListsInv, NEW e, Plain(e), evq' = Append(evq, e), OwedPlain',
         table' = table, crashed' = crashed, link' = link, config' = config,
         kept' = kept, late' = late, indicated' = indicated
  PROVE  ListsInv'
<1>1. evq \in Seq(Event)
  BY DEF Types, EvqType
<1>2. Indicating => Indicating'
  BY DEF Indicating
<1>3. /\ AllDistinct /\ Reheard(evq', link) /\ Heard(evq', link)
      /\ ~kept => ~crashed /\ DisablesSure(evq') /\ EnabledSure(evq', link, config)
  BY <1>1, AppendPlain DEF ListsInv, Steady
<1>4. ~kept /\ ~late
        => Indicating' /\ ConfirmsSure(evq') /\ Configured(evq', link, config)
  BY <1>1, <1>2, AppendPlain DEF ListsInv, Faithful
<1> QED BY <1>3, <1>4, NextLists
\* The NCP reports the next result of a procedure.
LEMMA NcpReportsInv ==
  ASSUME Types, ListsInv, NEW h \in Handle, NcpReports(h)
  PROVE  ListsInv'
<1>1. /\ owed[h] # <<>> /\ owed[h] \in Seq(Event) /\ OwedPlain /\ NcpType
      /\ owed' = [owed EXCEPT ![h] = Tail(owed[h])]
  BY DEF NcpReports, Types, NcpType, ListsInv
<1>2. /\ 1 \in DOMAIN owed[h] /\ Head(owed[h]) = owed[h][1]
      /\ \A i \in DOMAIN Tail(owed[h]) :
           i + 1 \in DOMAIN owed[h] /\ Tail(owed[h])[i] = owed[h][i + 1]
  BY <1>1, TailElems
<1>3. Plain(Head(owed[h]))
  BY <1>1, <1>2 DEF OwedPlain
<1>4. OwedPlain'
  <2>1. ASSUME NEW g \in Handle, NEW i \in DOMAIN owed'[g] PROVE Plain(owed'[g][i])
    <3>1. owed'[g] = IF g = h THEN Tail(owed[h]) ELSE owed[g]
      BY <1>1 DEF NcpType
    <3> QED BY <1>1, <1>2, <2>1, <3>1 DEF OwedPlain
  <2> QED BY <2>1 DEF OwedPlain
<1>5. /\ evq' = Append(evq, Head(owed[h])) /\ table' = table /\ crashed' = crashed
      /\ link' = link /\ config' = config /\ indicated' = indicated
      /\ kept' = kept /\ late' = late
  BY DEF NcpReports, NcpSends, host, past
<1> QED BY <1>3, <1>4, <1>5, ReportInv

LEMMA RemoteNotifiesInv ==
  ASSUME Types, ListsInv, NEW h \in Handle, NEW ch \in Characteristic,
         RemoteNotifies(h, ch)
  PROVE  ListsInv'
<1>1. Plain(Value(h, ch, "notification"))
  BY DEF Plain, Value
<1>2. /\ evq' = Append(evq, Value(h, ch, "notification"))
      /\ table' = table /\ crashed' = crashed /\ owed' = owed
      /\ link' = link /\ config' = config /\ indicated' = indicated
      /\ kept' = kept /\ late' = late
  BY DEF RemoteNotifies, NcpSends, host, past, ncp
<1>3. OwedPlain'
  BY <1>2 DEF ListsInv, OwedPlain
<1> QED BY <1>1, <1>2, <1>3, ReportInv

\* A connection opens, without a configuration, or with that of an earlier one.
LEMMA NcpOpenInv ==
  ASSUME Types, ListsInv, NEW h \in Handle, NcpOpen(h)
  PROVE  ListsInv'
<1>1. /\ evq' = Append(evq, Opened(h)) /\ table' = table /\ crashed' = crashed
      /\ owed' = owed /\ indicated' = indicated /\ late' = late
      /\ h \notin link /\ link' = link \cup {h} /\ evq \in Seq(Event)
      /\ config \in [Handle -> [Local -> Flags]] /\ link \subseteq Handle
  BY DEF NcpOpen, NcpSends, host, bounds, Types, EvqType, NcpType
<1>2. OwedPlain' /\ AllDistinct
  BY <1>1 DEF ListsInv, OwedPlain
<1>3. Reheard(evq', link') /\ Heard(evq', link')
  <2>1. \A g \in link' : Opened(h) = Opened(g) \/ (g \in link /\ Opened(h) # Closed(g))
    BY <1>1, Kinds
  <2> QED BY <1>1, <2>1, AppendReheard, AppendHeard DEF ListsInv
<1>4. CASE config' = [config EXCEPT ![h] = Unconfigured] /\ kept' = kept
  <2>1. /\ config'[h] = Unconfigured
        /\ \A g \in link : g # h /\ config'[g] = config[g]
    BY <1>1, <1>4
  <2>2. \A g \in link, l \in Local : ~Loses(Opened(h), g, l) /\ ~Tells(Opened(h), g, l)
    BY <1>1, Kinds DEF Loses, Tells, Disables
  <2>3. \A l \in Local : /\ config'[h][l] = "disable" /\ Tells(Opened(h), h, l)
                         /\ Told(Opened(h)) = config'[h][l]
    BY <2>1, Kinds DEF Unconfigured, Tells
  <2>4. \A g, l : ~Disables(Opened(h), g, l) /\ Opened(h) # Confirmed(g, l)
    BY Kinds DEF Disables
  <2>5. ~kept => ~crashed /\ DisablesSure(evq') /\ EnabledSure(evq', link', config')
    <3> SUFFICES ASSUME ~kept
                 PROVE  ~crashed /\ DisablesSure(evq') /\ EnabledSure(evq', link', config')
      OBVIOUS
    <3>1. ~crashed /\ DisablesSure(evq) /\ EnabledSure(evq, link, config)
      BY DEF ListsInv, Steady
    <3>2. DisablesSure(evq')
      BY <1>1, <2>4, <3>1, AppendDisables
    <3>3. \A g \in link', l \in Local : config'[g][l] # "disable" =>
            \/ Enables(Opened(h), g, l)
            \/ g \in link /\ config[g][l] # "disable" /\ ~Loses(Opened(h), g, l)
      BY <1>1, <2>1, <2>2, <2>3
    <3>4. EnabledSure(evq', link', config')
      BY <1>1, <3>1, <3>3, AppendEnabled
    <3> QED BY <3>1, <3>2, <3>4
  <2>6. ~kept /\ ~late
          => Indicating' /\ ConfirmsSure(evq') /\ Configured(evq', link', config')
    <3> SUFFICES ASSUME ~kept, ~late
                 PROVE  Indicating' /\ ConfirmsSure(evq') /\ Configured(evq', link', config')
      OBVIOUS
    <3>1. Indicating /\ ConfirmsSure(evq) /\ Configured(evq, link, config)
      BY DEF ListsInv, Faithful
    <3>2. Indicating'
      BY <1>1, <2>1, <3>1 DEF Indicating
    <3>3. ConfirmsSure(evq')
      BY <1>1, <2>4, <3>1, AppendConfirms
    <3>4. \A g \in link', l \in Local :
            \/ Tells(Opened(h), g, l) /\ Told(Opened(h)) = config'[g][l]
            \/ g \in link /\ config'[g][l] = config[g][l] /\ ~Tells(Opened(h), g, l)
      BY <1>1, <2>1, <2>2, <2>3
    <3>5. Configured(evq', link', config')
      BY <1>1, <3>1, <3>4, AppendConfigured
    <3> QED BY <3>2, <3>3, <3>5
  <2> QED BY <1>1, <1>2, <1>3, <1>4, <2>5, <2>6, NextLists
<1>5. CASE kept'
  BY <1>1, <1>2, <1>3, <1>5, NextLists
<1> QED BY <1>4, <1>5 DEF NcpOpen

\* A connection closes, and its procedure with it.
LEMMA NcpCloseInv ==
  ASSUME Types, ListsInv, NEW h \in Handle, NcpClose(h)
  PROVE  ListsInv'
<1>1. /\ table' = table /\ crashed' = crashed /\ config' = config
      /\ kept' = kept /\ late' = late /\ link' = link \ {h} /\ evq \in Seq(Event)
      /\ indicated' = {x \in indicated : x[1] \notin {h}}
      /\ owed' = [g \in Handle |-> IF g \in {h} THEN <<>> ELSE owed[g]]
      /\ \/ evq' = Append(evq, Closed(h))
         \/ evq' = evq \o <<Completed(h, FALSE), Closed(h)>>
  BY DEF NcpClose, Drop, host, past, Types, EvqType
<1>2. OwedPlain' /\ AllDistinct
  BY <1>1 DEF ListsInv, OwedPlain
<1>3. Indicating => Indicating'
  BY <1>1 DEF Indicating
<1>4. PICK s \in Seq(Event) :
        /\ evq' = Append(s, Closed(h)) /\ Reheard(s, link) /\ Heard(s, link)
        /\ ~kept => ~crashed /\ DisablesSure(s) /\ EnabledSure(s, link, config)
        /\ ~kept /\ ~late => ConfirmsSure(s) /\ Configured(s, link, config)
  <2>1. /\ Reheard(evq, link) /\ Heard(evq, link)
        /\ ~kept => ~crashed /\ DisablesSure(evq) /\ EnabledSure(evq, link, config)
        /\ ~kept /\ ~late => ConfirmsSure(evq) /\ Configured(evq, link, config)
    BY DEF ListsInv, Steady, Faithful
  <2>2. CASE evq' = Append(evq, Closed(h))
    BY <1>1, <2>1, <2>2
  <2>3. CASE evq' = evq \o <<Completed(h, FALSE), Closed(h)>>
    <3>1. Completed(h, FALSE) \in Event /\ Closed(h) \in Event
      BY Makes
    <3>2. PICK s : s = Append(evq, Completed(h, FALSE))
      OBVIOUS
    <3>3. evq' = Append(s, Closed(h)) /\ s \in Seq(Event)
      <4>1. s \in Seq(Event)
        BY <1>1, <3>1, <3>2, AppendProperties
      <4>2. evq \o <<Completed(h, FALSE), Closed(h)>>
              = Append(Append(evq, Completed(h, FALSE)), Closed(h))
        <5>1. \A x, y \in Event : evq \o <<x, y>> = Append(Append(evq, x), y)
          BY <1>1, AppendTwo
        <5> QED BY <3>1, <5>1
      <4> QED BY <2>3, <3>2, <4>1, <4>2
    <3>4. Plain(Completed(h, FALSE))
      BY DEF Plain, Completed
    <3>5. /\ Reheard(s, link) /\ Heard(s, link)
          /\ ~kept => ~crashed /\ DisablesSure(s) /\ EnabledSure(s, link, config)
          /\ ~kept /\ ~late => ConfirmsSure(s) /\ Configured(s, link, config)
      BY <1>1, <2>1, <3>2, <3>4, AppendPlain
    <3> QED BY <3>3, <3>5
  <2> QED BY <1>1, <2>2, <2>3
<1>5. \A g \in link' : g \in link /\ Closed(h) # Closed(g)
  BY <1>1, Kinds
<1>6. \A g \in link', l \in Local : ~Loses(Closed(h), g, l) /\ ~Tells(Closed(h), g, l)
  BY <1>5, Kinds DEF Loses, Tells, Disables
<1>7. \A g, l : ~Disables(Closed(h), g, l) /\ Closed(h) # Confirmed(g, l)
  BY Kinds DEF Disables
<1>8. Reheard(evq', link') /\ Heard(evq', link')
  BY <1>4, <1>5, AppendReheard, AppendHeard
<1>9. ~kept => ~crashed /\ DisablesSure(evq') /\ EnabledSure(evq', link', config')
  <2> SUFFICES ASSUME ~kept
               PROVE  ~crashed /\ DisablesSure(evq') /\ EnabledSure(evq', link', config')
    OBVIOUS
  <2>1. DisablesSure(evq')
    BY <1>4, <1>7, AppendDisables
  <2>2. EnabledSure(evq', link', config')
    BY <1>1, <1>4, <1>5, <1>6, AppendEnabled
  <2> QED BY <1>4, <2>1, <2>2
<1>10. ~kept /\ ~late
         => Indicating' /\ ConfirmsSure(evq') /\ Configured(evq', link', config')
  <2> SUFFICES ASSUME ~kept, ~late
               PROVE  Indicating' /\ ConfirmsSure(evq') /\ Configured(evq', link', config')
    OBVIOUS
  <2>1. Indicating'
    BY <1>3 DEF ListsInv, Faithful
  <2>2. ConfirmsSure(evq')
    BY <1>4, <1>7, AppendConfirms
  <2>3. Configured(evq', link', config')
    BY <1>1, <1>4, <1>5, <1>6, AppendConfigured
  <2> QED BY <2>1, <2>2, <2>3
<1> QED BY <1>1, <1>2, <1>8, <1>9, <1>10, NextLists

\* No connection is left after a reboot.
LEMMA NcpRebootInv ==
  ASSUME Types, ListsInv, NcpReboot
  PROVE  ListsInv'
<1>1. /\ table' = table /\ crashed' = crashed /\ config' = config /\ evq' = evq
      /\ kept' = kept /\ late' = late /\ link' = {}
      /\ indicated' = {}
      /\ owed' = [g \in Handle |-> <<>>]
  <2>1. link \subseteq Handle /\ \A x \in indicated : x[1] \in Handle
    BY DEF Types, NcpType
  <2> QED BY <2>1 DEF NcpReboot, Drop, host, past
<1>2. OwedPlain' /\ AllDistinct /\ Indicating'
  BY <1>1 DEF ListsInv, OwedPlain, Indicating
<1>3. /\ Reheard(evq, {}) /\ Heard(evq, {}) /\ EnabledSure(evq, {}, config)
      /\ Configured(evq, {}, config)
  BY DEF Reheard, Heard, EnabledSure, Configured
<1>4. /\ ~kept => ~crashed /\ DisablesSure(evq)
      /\ ~kept /\ ~late => ConfirmsSure(evq)
  BY DEF ListsInv, Steady, Faithful
<1> QED BY <1>1, <1>2, <1>3, <1>4, NextLists
\* A device configures a notification.
LEMMA ConfiguresInv ==
  ASSUME Types, ListsInv, NEW h \in Handle, NEW l \in Local, NEW f \in Flags,
         RemoteConfigures(h, l, f)
  PROVE  ListsInv'
<1>0. PICK e : e = Config(h, l, f)
  OBVIOUS
<1>1. /\ evq' = Append(evq, e) /\ table' = table /\ crashed' = crashed
      /\ owed' = owed /\ indicated' = indicated /\ kept' = kept /\ link' = link
      /\ late' = (late \/ (f = "disable" /\ <<h, l>> \in indicated))
      /\ h \in link /\ config[h][l] # f /\ evq \in Seq(Event)
      /\ config \in [Handle -> [Local -> Flags]] /\ link \subseteq Handle
      /\ config' = [config EXCEPT ![h][l] = f]
      /\ indicated \subseteq Handle \X Local
  BY <1>0 DEF RemoteConfigures, Remote, NcpSends, host, Types, EvqType, NcpType
<1>2. OwedPlain' /\ AllDistinct
  BY <1>1 DEF ListsInv, OwedPlain
<1>3. /\ \A g, m : e # Opened(g) /\ e # Closed(g) /\ e # Confirmed(g, m)
      /\ \A g, m : IsConfig(e, g, m) <=> g = h /\ m = l
      /\ e.flags = f /\ e.kind = "config"
  BY <1>0 DEF Config, Opened, Closed, Confirmed, IsConfig
<1>4. /\ \A g, m : Disables(e, g, m) <=> g = h /\ m = l /\ f = "disable"
      /\ \A g, m : Enables(e, g, m) <=> g = h /\ m = l /\ f # "disable"
      /\ \A g, m : Loses(e, g, m) <=> g = h /\ m = l /\ f = "disable"
      /\ \A g, m : Tells(e, g, m) <=> g = h /\ m = l
      /\ Told(e) = f
  BY <1>3 DEF Disables, Enables, Loses, Tells, Told
<1>5. \A g \in link, m \in Local :
        config'[g][m] = IF g = h /\ m = l THEN f ELSE config[g][m]
  BY <1>1
<1>6. Reheard(evq', link') /\ Heard(evq', link')
  <2>1. \A g \in link : e = Opened(g) \/ (g \in link /\ e # Closed(g))
    BY <1>3
  <2> QED BY <1>1, <2>1, AppendReheard, AppendHeard DEF ListsInv
<1>7. ~kept => ~crashed /\ DisablesSure(evq') /\ EnabledSure(evq', link', config')
  <2> SUFFICES ASSUME ~kept
               PROVE  ~crashed /\ DisablesSure(evq') /\ EnabledSure(evq', link', config')
    OBVIOUS
  <2>1. ~crashed /\ DisablesSure(evq) /\ EnabledSure(evq, link, config)
    BY DEF ListsInv, Steady
  <2>2. \A g \in Handle, m \in Local :
          Disables(e, g, m) => Sure(evq, Len(evq) + 1, g, m, Now(g, m))
    BY <1>1, <1>4, <2>1 DEF EnabledSure
  <2>3. DisablesSure(evq')
    BY <1>1, <2>1, <2>2, AppendDisables
  <2>4. \A g \in link, m \in Local : config'[g][m] # "disable" =>
          \/ Enables(e, g, m)
          \/ g \in link /\ config[g][m] # "disable" /\ ~Loses(e, g, m)
    BY <1>4, <1>5
  <2>5. EnabledSure(evq', link', config')
    BY <1>1, <2>1, <2>4, AppendEnabled
  <2> QED BY <2>1, <2>3, <2>5
<1>8. ~kept /\ ~late'
        => Indicating' /\ ConfirmsSure(evq') /\ Configured(evq', link', config')
  <2> SUFFICES ASSUME ~kept, ~late'
               PROVE  Indicating' /\ ConfirmsSure(evq') /\ Configured(evq', link', config')
    OBVIOUS
  <2>1. Indicating /\ ConfirmsSure(evq) /\ Configured(evq, link, config)
    BY <1>1 DEF ListsInv, Faithful
  <2>2. Indicating'
    <3>1. ASSUME NEW x \in indicated
          PROVE  x[1] \in link /\ config'[x[1]][x[2]] # "disable"
      <4>1. x[1] \in link /\ config[x[1]][x[2]] # "disable" /\ x[2] \in Local
            /\ x = <<x[1], x[2]>>
        BY <1>1, <2>1 DEF Indicating
      <4>2. CASE x[1] = h /\ x[2] = l
        BY <1>1, <1>5, <4>1, <4>2
      <4> QED BY <1>5, <4>1, <4>2
    <3> QED BY <1>1, <3>1 DEF Indicating
  <2>3. ConfirmsSure(evq')
    BY <1>1, <1>3, <2>1, AppendConfirms
  <2>4. \A g \in link, m \in Local :
          \/ Tells(e, g, m) /\ Told(e) = config'[g][m]
          \/ g \in link /\ config'[g][m] = config[g][m] /\ ~Tells(e, g, m)
    BY <1>4, <1>5
  <2>5. Configured(evq', link', config')
    BY <1>1, <2>1, <2>4, AppendConfigured
  <2> QED BY <2>2, <2>3, <2>5
<1> QED BY <1>1, <1>2, <1>6, <1>7, <1>8, NextLists

\* A device confirms an indication: it has it enabled.
LEMMA ConfirmsInv ==
  ASSUME Types, ListsInv, NEW h \in Handle, NEW l \in Local, RemoteConfirms(h, l)
  PROVE  ListsInv'
<1>0. PICK e : e = Confirmed(h, l)
  OBVIOUS
<1>1. /\ evq' = Append(evq, e) /\ table' = table /\ crashed' = crashed
      /\ owed' = owed /\ kept' = kept /\ late' = late /\ link' = link
      /\ config' = config /\ <<h, l>> \in indicated
      /\ indicated' = indicated \ {<<h, l>>} /\ evq \in Seq(Event)
  BY <1>0 DEF RemoteConfirms, NcpSends, host, past, Types, EvqType
<1>2. OwedPlain' /\ AllDistinct
  BY <1>1 DEF ListsInv, OwedPlain
<1>3. /\ \A g, m : e # Opened(g) /\ e # Closed(g) /\ ~IsConfig(e, g, m)
      /\ \A g, m : e = Confirmed(g, m) => g = h /\ m = l
  BY <1>0 DEF Opened, Closed, Confirmed, IsConfig
<1>4. \A g, m : ~Disables(e, g, m) /\ ~Loses(e, g, m) /\ ~Tells(e, g, m)
  BY <1>3 DEF Disables, Loses, Tells
<1>5. Reheard(evq', link) /\ Heard(evq', link)
  <2>1. \A g \in link : e = Opened(g) \/ (g \in link /\ e # Closed(g))
    BY <1>3
  <2> QED BY <1>1, <2>1, AppendReheard, AppendHeard DEF ListsInv
<1>6. ~kept => ~crashed /\ DisablesSure(evq') /\ EnabledSure(evq', link, config)
  <2> SUFFICES ASSUME ~kept
               PROVE  ~crashed /\ DisablesSure(evq') /\ EnabledSure(evq', link, config)
    OBVIOUS
  <2>1. ~crashed /\ DisablesSure(evq) /\ EnabledSure(evq, link, config)
    BY DEF ListsInv, Steady
  <2>2. DisablesSure(evq')
    BY <1>1, <1>4, <2>1, AppendDisables
  <2>3. EnabledSure(evq', link, config)
    BY <1>1, <1>4, <2>1, AppendEnabled
  <2> QED BY <2>1, <2>2, <2>3
<1>7. ~kept /\ ~late
        => Indicating' /\ ConfirmsSure(evq') /\ Configured(evq', link, config)
  <2> SUFFICES ASSUME ~kept, ~late
               PROVE  Indicating' /\ ConfirmsSure(evq') /\ Configured(evq', link, config)
    OBVIOUS
  <2>1. /\ Indicating /\ ConfirmsSure(evq) /\ Configured(evq, link, config)
        /\ EnabledSure(evq, link, config)
    BY DEF ListsInv, Faithful, Steady
  <2>2. Indicating'
    BY <1>1, <2>1 DEF Indicating
  <2>3. h \in link /\ config[h][l] # "disable"
    BY <1>1, <2>1 DEF Indicating
  <2>4. Sure(evq, Len(evq) + 1, h, l, Now(h, l))
    BY <2>1, <2>3 DEF EnabledSure
  <2>5. ConfirmsSure(evq')
    BY <1>1, <1>3, <2>1, <2>4, AppendConfirms
  <2>6. Configured(evq', link, config)
    BY <1>1, <1>4, <2>1, AppendConfigured
  <2> QED BY <2>2, <2>5, <2>6
<1> QED BY <1>1, <1>2, <1>5, <1>6, <1>7, NextLists

\* Every step keeps the invariant.
LEMMA ListsStep == Types /\ ListsInv /\ [Next]_vars => ListsInv'
<1>1. ASSUME Types, ListsInv, Next PROVE ListsInv'
  <2>1. CASE RunsCommand \/ \E c \in Command : SingleShot(c) \/ Receive(c)
    BY <1>1, <2>1, CommandInv
  <2>2. ASSUME NEW h \in Handle,
               \/ NcpReports(h) \/ NcpOpen(h) \/ NcpClose(h)
               \/ \E l \in Local : \/ RemoteConfirms(h, l)
                                   \/ \E f \in Flags : RemoteConfigures(h, l, f)
               \/ \E c \in Characteristic : RemoteNotifies(h, c)
        PROVE  ListsInv'
    BY <1>1, <2>2, NcpReportsInv, NcpOpenInv, NcpCloseInv, ConfirmsInv,
       ConfiguresInv, RemoteNotifiesInv
  <2> QED BY <1>1, <2>1, <2>2, HandleInv, NcpRebootInv DEF Next
<1>2. ASSUME Types, ListsInv, UNCHANGED vars PROVE ListsInv'
  <2>1. /\ table' = table /\ crashed' = crashed /\ evq' = evq /\ link' = link
        /\ config' = config /\ kept' = kept /\ late' = late /\ owed' = owed
        /\ indicated' = indicated
    BY <1>2 DEF vars, host, ncp, past
  <2>2. OwedPlain' /\ AllDistinct
    BY <1>2, <2>1 DEF ListsInv, OwedPlain
  <2>3. Indicating => Indicating'
    BY <2>1 DEF Indicating
  <2>4. /\ Reheard(evq, link) /\ Heard(evq, link)
        /\ ~kept => ~crashed /\ DisablesSure(evq) /\ EnabledSure(evq, link, config)
    BY <1>2 DEF ListsInv, Steady
  <2>5. ~kept /\ ~late
          => Indicating' /\ ConfirmsSure(evq) /\ Configured(evq, link, config)
    BY <1>2, <2>3 DEF ListsInv, Faithful
  <2> QED BY <2>1, <2>2, <2>4, <2>5, NextLists
<1> QED BY <1>1, <1>2

LEMMA InitLists == Init => ListsInv
<1> SUFFICES ASSUME Init PROVE ListsInv
  OBVIOUS
<1>1. evq = <<>> /\ table = <<>> /\ link = {} /\ indicated = {} /\ crashed = FALSE
      /\ owed = [h \in Handle |-> <<>>]
  BY DEF Init
<1>2. OwedPlain /\ AllDistinct /\ Reheard(evq, link) /\ Heard(evq, link)
  BY <1>1 DEF OwedPlain, AllDistinct, Reheard, Heard
<1>3. Steady
  BY <1>1 DEF Steady, DisablesSure, EnabledSure
<1>4. Faithful
  BY <1>1 DEF Faithful, Indicating, ConfirmsSure, Configured
<1> QED BY <1>2, <1>3, <1>4 DEF ListsInv

LEMMA ListsHold == Spec => [](Types /\ ListsInv)
<1>1. Types /\ ListsInv /\ [Next]_vars => (Types /\ ListsInv)'
  BY TypeStep, ListsStep DEF Types, NextTypes
<1>2. Init => Types /\ ListsInv
  BY InitTypes, InitLists
<1> QED BY <1>1, <1>2, PTL DEF Spec

-----------------------------------------------------------------------------
(* What the project promises                                                  *)

\* A notification that is disabled is in the list of its connection, so that
\* what notify.c:24 finds is not NULL, unless the NCP remembered the
\* configuration of an earlier connection: for every number of connections and
\* characteristics, whatever closes, reboots or is confirmed in between.
THEOREM DisablesFind == Spec => []DisableFinds
<1>1. ListsInv => DisableFinds
  BY DEF ListsInv, Steady, DisableFinds
<1> QED BY <1>1, ListsHold, PTL

\* The list a device configured, when it has each notification once.
LEMMA ListIs ==
  ASSUME NEW q \in Seq(Note), Distinct(q), NEW c \in [Local -> Flags],
         \A l \in Local : HoldsIn(q, l, c[l])
  PROVE  LET E == {NewNote(l, c[l]) : l \in {k \in Local : c[k] # "disable"}}
         IN  {q[i] : i \in DOMAIN q} = E /\ Len(q) = Cardinality(E)
<1> DEFINE E == {NewNote(l, c[l]) : l \in {k \in Local : c[k] # "disable"}}
<1>1. DOMAIN q = 1 .. Len(q) /\ Len(q) \in Nat /\ \A i \in DOMAIN q : q[i] \in Note
  BY LenProperties
<1>2. \A i \in DOMAIN q : q[i] \in E
  <2> SUFFICES ASSUME NEW i \in DOMAIN q PROVE q[i] \in E
    OBVIOUS
  <2>1. q[i].char \in Local /\ Has(q, q[i].char)
    BY <1>1 DEF Note, Has
  <2>2. c[q[i].char] # "disable"
    BY <2>1 DEF HoldsIn
  <2>3. PICK j \in DOMAIN q : q[j] = NewNote(q[i].char, c[q[i].char])
    BY <2>1, <2>2 DEF HoldsIn
  <2>4. q[j].char = q[i].char
    BY <2>3 DEF NewNote
  <2>5. i = j
    BY <2>4 DEF Distinct
  <2> QED BY <2>1, <2>2, <2>3, <2>5
<1>3. \A x \in E : \E i \in DOMAIN q : q[i] = x
  BY DEF HoldsIn
<1>4. {q[i] : i \in DOMAIN q} = E
  <2> HIDE DEF E
  <2> QED BY <1>2, <1>3
<1>5. ExistsBijection(1 .. Len(q), E)
  <2>1. q \in [1 .. Len(q) -> E]
    <3> HIDE DEF E
    <3> QED BY <1>1, <1>2
  <2>2. \A i, j \in 1 .. Len(q) : q[i] = q[j] => i = j
    BY <1>1 DEF Distinct
  <2> HIDE DEF E
  <2>3. q \in Bijection(1 .. Len(q), E)
    BY <1>1, <1>3, <2>1, <2>2 DEF Bijection, Injection, Surjection, IsInjective
  <2> QED BY <2>3 DEF ExistsBijection
<1>6. Cardinality(E) = Len(q)
  <2> HIDE DEF E
  <2> QED BY <1>1, <1>5, FS_CountingElements
<1> QED BY <1>4, <1>6

\* An element of its own, when there are not two.
LEMMA OnlyOne ==
  ASSUME TableType, NEW h, Open(h), Cardinality(Elements(h)) <= 1
  PROVE  Once(h)
<1>1. IsFiniteSet(Elements(h))
  <2>1. DOMAIN table = 1 .. Len(table) /\ Len(table) \in Nat
    BY LenProperties DEF TableType
  <2>2. IsFiniteSet(1 .. Len(table))
    BY <2>1, FS_Interval
  <2>3. Elements(h) \subseteq 1 .. Len(table)
    BY <2>1 DEF Elements
  <2> QED BY <2>2, <2>3, FS_Subset
<1>2. Cardinality(Elements(h)) \in Nat /\ Cardinality(Elements(h)) # 0
  BY <1>1, FS_CardinalityType, FS_EmptySet DEF Open
<1>3. Cardinality(Elements(h)) = 1
  BY <1>2
<1>4. \E i : Elements(h) = {i}
  BY <1>1, <1>3, FS_Singleton
<1> QED BY <1>4 DEF Once

\* When the loop has heard all of a connection, its list is what the device
\* configured, each notification exactly once (notify.c:9-58), for every number
\* of connections and characteristics and every history of the table, except
\* those NotificationsKnown names.
THEOREM ListsKnown == Spec => []NotificationsKnown
<1>1. Types /\ ListsInv => NotificationsKnown
  <2> SUFFICES ASSUME Types, ListsInv, NEW h \in link, ~NewsOf(h), ~kept, ~late,
                      Cardinality(Elements(h)) <= 1
               PROVE  /\ Open(h) /\ List(h) = Enabled(h)
                      /\ Len(Notes(h)) = Cardinality(Enabled(h))
    BY DEF NotificationsKnown
  <2>1. /\ TableType /\ AllDistinct /\ Heard(evq, link) /\ h \in Handle
        /\ config[h] \in [Local -> Flags] /\ Configured(evq, link, config)
    BY DEF Types, NcpType, ListsInv, Faithful
  <2>2. \A i \in DOMAIN evq, l \in Local :
          evq[i] # Opened(h) /\ ~Tells(evq[i], h, l)
    BY DEF NewsOf, Opened, Tells, IsConfig
  <2>3. Open(h)
    BY <2>1, <2>2 DEF Heard, NewsOf, Opened
  <2>4. Once(h) /\ Notes(h) \in Seq(Note) /\ Distinct(Notes(h))
    BY <2>1, <2>3, OnlyOne, IndexIs, NotesDistinct
  <2>5. \A l \in Local : HoldsIn(Notes(h), l, config[h][l])
    <3> SUFFICES ASSUME NEW l \in Local PROVE HoldsIn(Notes(h), l, config[h][l])
      OBVIOUS
    <3>1. Becomes(evq, h, l, config[h][l], Holds(h, l, config[h][l]))
      BY <2>1 DEF Configured
    <3>2. Holds(h, l, config[h][l])
      BY <2>2, <3>1 DEF Becomes
    <3> QED BY <2>4, <3>2 DEF Holds
  <2> QED BY <2>1, <2>3, <2>4, <2>5, ListIs DEF List, Enabled
<1> QED BY <1>1, ListsHold, PTL

-----------------------------------------------------------------------------
(* A command is answered by its own procedure                                 *)

\* The event that carries what the command c asks for, and its last one.
Wanted(c) == IF c.attr.desc THEN DescValue(c.conn, c.attr.char)
             ELSE Value(c.conn, c.attr.char, "read")
More(c) == Value(c.conn, c.attr.char, "blob")
Good(c) == Completed(c.conn, TRUE)
Bad(c) == Completed(c.conn, FALSE)
Own(c, e) == e = Wanted(c) \/ e = More(c) \/ e = Good(c) \/ e = Bad(c)

\* An event that neither ends a command nor is shown to its client.
Harmless(e) == \/ e.kind \in {"found", "opened", "closed"}
               \/ e.kind = "value" /\ e.opcode = "notification"

Among(e, s) == \E i \in DOMAIN s : s[i] = e
\* Before every e there is a v.
Led(s, e, v) == \A j \in DOMAIN s : s[j] = e => \E i \in DOMAIN s : i < j /\ s[i] = v

\* What the client of a read is shown in the end.
Whole(c) == {[conn |-> c.conn, attr |-> c.attr]}

\* The events s on their way and those t to be reported answer the command c,
\* whose client was shown S.  A read comes to its good end after the value, and
\* to a bad one without.
Answering(s, t, c, S) ==
  /\ \A i \in DOMAIN s : Harmless(s[i]) \/ Own(c, s[i])
  /\ \A i \in DOMAIN t : Own(c, t[i])
  /\ S = {} \/ (c.attr.desc /\ c.op = "READ" /\ S = Whole(c))
  /\ c.op = "WRITE" => ~Among(Wanted(c), s) /\ ~Among(Wanted(c), t)
  /\ c.op = "READ" /\ S = {}
       => /\ Led(s, Good(c), Wanted(c))
          /\ Among(Wanted(c), s) \/ Led(t, Good(c), Wanted(c))
  /\ c.op = "READ" /\ (Among(Bad(c), s) \/ Among(Bad(c), t))
       => S = {} /\ ~Among(Wanted(c), s) /\ ~Among(Wanted(c), t)

\* A command that is to run has been shown nothing, and one that the NCP has
\* accepted is conf.gatt; its connection lasts and is known; nothing else
\* meddles with it before it runs, and only its own procedure while it does.
Asked == /\ accepted => IsAccess(conf) /\ new = NoCommand
         /\ new # NoCommand => shown = {}
         /\ IsAccess(new) => conf = new
Lasts == (accepted \/ IsAccess(new)) /\ ~lost =>
           /\ conf.conn \in link
           /\ ~Among(Opened(conf.conn), evq) /\ ~Among(Closed(conf.conn), evq)
           /\ accepted => Known(conf.conn)
Untouched == alone /\ new # NoCommand =>
               /\ \A h \in Handle : owed[h] = <<>>
               /\ \A i \in DOMAIN evq : Harmless(evq[i])
Answers == alone /\ accepted /\ ~lost /\ cmd = "GATT" =>
             /\ \A h \in Handle : h # conf.conn => owed[h] = <<>>
             /\ Answering(evq, owed[conf.conn], conf, shown)
AnswerInv == Asked /\ Lasts /\ Untouched /\ Answers

\* The events of a procedure are told apart from each other and from the rest.
LEMMA OwnKinds ==
  ASSUME NEW c
  PROVE  /\ Wanted(c) # More(c) /\ Wanted(c) # Good(c) /\ Wanted(c) # Bad(c)
         /\ Good(c) # Bad(c) /\ More(c) # Good(c) /\ More(c) # Bad(c)
         /\ \A e : Harmless(e) => ~Own(c, e)
         /\ Good(c).kind = "completed" /\ Bad(c).kind = "completed"
         /\ Good(c).ok = TRUE /\ Bad(c).ok = FALSE
         /\ More(c).kind = "value" /\ More(c).opcode = "blob"
         /\ IF c.attr.desc THEN Wanted(c).kind = "descriptor"
            ELSE Wanted(c).kind = "value" /\ Wanted(c).opcode = "read"
         /\ \A e : Own(c, e) => e.conn = c.conn
         /\ Wanted(c).char = c.attr.char
<1>1. /\ Good(c).kind = "completed" /\ Bad(c).kind = "completed"
      /\ Good(c).ok = TRUE /\ Bad(c).ok = FALSE
      /\ More(c).kind = "value" /\ More(c).opcode = "blob"
      /\ IF c.attr.desc THEN Wanted(c).kind = "descriptor"
         ELSE Wanted(c).kind = "value" /\ Wanted(c).opcode = "read"
      /\ Wanted(c).char = c.attr.char
      /\ \A e : Own(c, e) => e.conn = c.conn
  BY DEF Good, Bad, More, Wanted, Own, Completed, Value, DescValue
<1>2. \A e : Harmless(e) => ~Own(c, e)
  BY <1>1 DEF Harmless, Own
<1> QED BY <1>1, <1>2

\* What is among the events of a queue that one leaves or joins.
LEMMA AmongMoves ==
  ASSUME NEW s \in Seq(Event), NEW e
  PROVE  /\ s # <<>> => /\ Among(e, Tail(s)) => Among(e, s)
                        /\ Among(e, s) /\ Head(s) # e => Among(e, Tail(s))
                        /\ Among(Head(s), s)
         /\ \A x : /\ Among(e, s) => Among(e, Append(s, x))
                   /\ Among(e, Append(s, x)) => Among(e, s) \/ e = x
                   /\ Among(x, Append(s, x))
<1>1. ASSUME s # <<>>
      PROVE  /\ Among(e, Tail(s)) => Among(e, s)
             /\ Among(e, s) /\ Head(s) # e => Among(e, Tail(s))
             /\ Among(Head(s), s)
  <2>1. /\ \A i \in DOMAIN Tail(s) : i + 1 \in DOMAIN s /\ Tail(s)[i] = s[i + 1]
        /\ \A i \in DOMAIN s : i # 1 => i - 1 \in DOMAIN Tail(s)
        /\ DOMAIN s \subseteq Nat /\ 1 \in DOMAIN s /\ Head(s) = s[1]
    BY <1>1, TailElems
  <2>2. \A i \in DOMAIN s : i # 1 => i - 1 \in DOMAIN Tail(s) /\ Tail(s)[i - 1] = s[i]
    BY <2>1
  <2> QED BY <2>1, <2>2 DEF Among
<1>2. ASSUME NEW x
      PROVE  /\ Among(e, s) => Among(e, Append(s, x))
             /\ Among(e, Append(s, x)) => Among(e, s) \/ e = x
             /\ Among(x, Append(s, x))
  <2>1. /\ \A i \in DOMAIN s : i \in DOMAIN Append(s, x) /\ Append(s, x)[i] = s[i]
        /\ Len(s) + 1 \in DOMAIN Append(s, x) /\ Append(s, x)[Len(s) + 1] = x
        /\ \A i \in DOMAIN Append(s, x) : i \in DOMAIN s \/ i = Len(s) + 1
    BY AppendElems
  <2> QED BY <2>1 DEF Among
<1> QED BY <1>1, <1>2

\* And what is led.
LEMMA LedMoves ==
  ASSUME NEW s \in Seq(Event), NEW e, NEW v, Led(s, e, v)
  PROVE  /\ s # <<>> => /\ Head(s) # e
                        /\ Head(s) # v => Led(Tail(s), e, v)
         /\ \A x : x # e \/ Among(v, s) => Led(Append(s, x), e, v)
<1>1. ASSUME s # <<>>
      PROVE  Head(s) # e /\ (Head(s) # v => Led(Tail(s), e, v))
  <2>1. /\ \A i \in DOMAIN Tail(s) : i + 1 \in DOMAIN s /\ Tail(s)[i] = s[i + 1]
        /\ \A i \in DOMAIN s : i # 1 => i - 1 \in DOMAIN Tail(s)
        /\ DOMAIN s \subseteq Nat /\ 1 \in DOMAIN s /\ Head(s) = s[1]
        /\ DOMAIN Tail(s) \subseteq Nat
    BY <1>1, TailElems
  <2>2. \A i \in DOMAIN s : 1 <= i
    BY LenProperties
  <2>3. Head(s) # e
    BY <2>1, <2>2 DEF Led
  <2>4. ASSUME Head(s) # v, NEW j \in DOMAIN Tail(s), Tail(s)[j] = e
        PROVE  \E i \in DOMAIN Tail(s) : i < j /\ Tail(s)[i] = v
    <3>1. PICK i \in DOMAIN s : i < j + 1 /\ s[i] = v
      BY <2>1, <2>4 DEF Led
    <3>2. i # 1
      BY <2>1, <2>4, <3>1
    <3>3. /\ i - 1 \in DOMAIN Tail(s) /\ Tail(s)[i - 1] = s[i]
          /\ i - 1 < j
      <4>1. i - 1 \in DOMAIN Tail(s) /\ i \in Nat /\ j \in Nat
        BY <2>1, <3>2
      <4>2. Tail(s)[i - 1] = s[(i - 1) + 1]
        BY <2>1, <4>1
      <4> QED BY <3>1, <4>1, <4>2
    <3> QED BY <3>1, <3>3
  <2> QED BY <2>3, <2>4 DEF Led
<1>2. ASSUME NEW x, x # e \/ Among(v, s)
      PROVE  Led(Append(s, x), e, v)
  <2>1. /\ \A i \in DOMAIN s : i \in DOMAIN Append(s, x) /\ Append(s, x)[i] = s[i]
        /\ Append(s, x)[Len(s) + 1] = x
        /\ \A i \in DOMAIN Append(s, x) : i \in DOMAIN s \/ i = Len(s) + 1
        /\ \A i \in DOMAIN s : i \in Nat /\ i < Len(s) + 1
    BY AppendElems
  <2> QED BY <1>2, <2>1 DEF Led, Among
<1> QED BY <1>1, <1>2

\* The NCP reports the next event of the procedure.
LEMMA AnsweringReports ==
  ASSUME NEW s \in Seq(Event), NEW t \in Seq(Event), NEW c, NEW S,
         Answering(s, t, c, S), t # <<>>
  PROVE  Answering(Append(s, Head(t)), Tail(t), c, S)
<1> DEFINE e == Head(t)
           v == Wanted(c)
<1>1. /\ \A i \in DOMAIN Tail(t) : i + 1 \in DOMAIN t /\ Tail(t)[i] = t[i + 1]
      /\ 1 \in DOMAIN t /\ e = t[1]
  BY TailElems
<1>2. /\ \A i \in DOMAIN s : Append(s, e)[i] = s[i]
      /\ Append(s, e)[Len(s) + 1] = e
      /\ \A i \in DOMAIN Append(s, e) : i \in DOMAIN s \/ i = Len(s) + 1
  BY AppendElems
<1>3. \A i \in DOMAIN Append(s, e) : Harmless(Append(s, e)[i]) \/ Own(c, Append(s, e)[i])
  BY <1>1, <1>2 DEF Answering
<1>4. \A i \in DOMAIN Tail(t) : Own(c, Tail(t)[i])
  BY <1>1 DEF Answering
<1>5. \A x : Among(x, Append(s, e)) \/ Among(x, Tail(t)) => Among(x, s) \/ Among(x, t)
  <2>1. ASSUME NEW x, Among(x, Append(s, e)) PROVE Among(x, s) \/ Among(x, t)
    BY <2>1, AmongMoves
  <2>2. ASSUME NEW x, Among(x, Tail(t)) PROVE Among(x, t)
    BY <2>2, AmongMoves
  <2> QED BY <2>1, <2>2
<1>6. ASSUME c.op = "READ", S = {}
      PROVE  /\ Led(Append(s, e), Good(c), v)
             /\ Among(v, Append(s, e)) \/ Led(Tail(t), Good(c), v)
  <2>1. Led(s, Good(c), v) /\ (Among(v, s) \/ Led(t, Good(c), v))
    BY <1>6 DEF Answering
  <2>2. e # Good(c) \/ Among(v, s)
    BY <2>1, LedMoves
  <2>3. Led(Append(s, e), Good(c), v)
    BY <2>1, <2>2, LedMoves
  <2>4. Among(v, s) \/ e = v => Among(v, Append(s, e))
    BY AmongMoves
  <2>5. ~Among(v, s) /\ e # v => Led(Tail(t), Good(c), v)
    BY <2>1, LedMoves
  <2> QED BY <2>3, <2>4, <2>5
<1> HIDE DEF e
<1> QED BY <1>3, <1>4, <1>5, <1>6 DEF Answering, e

\* An event that means nothing joins the others.
LEMMA AnsweringJoins ==
  ASSUME NEW s \in Seq(Event), NEW t, NEW c, NEW S, NEW e, Harmless(e),
         Answering(s, t, c, S)
  PROVE  Answering(Append(s, e), t, c, S)
<1>1. e # Wanted(c) /\ e # Good(c) /\ e # Bad(c)
  BY OwnKinds DEF Own
<1>2. /\ \A i \in DOMAIN s : Append(s, e)[i] = s[i]
      /\ Append(s, e)[Len(s) + 1] = e
      /\ \A i \in DOMAIN Append(s, e) : i \in DOMAIN s \/ i = Len(s) + 1
  BY AppendElems
<1>3. \A i \in DOMAIN Append(s, e) : Harmless(Append(s, e)[i]) \/ Own(c, Append(s, e)[i])
  BY <1>2 DEF Answering
<1>4. \A x : x # e => (Among(x, Append(s, e)) <=> Among(x, s))
  BY AmongMoves
<1>5. Led(s, Good(c), Wanted(c)) => Led(Append(s, e), Good(c), Wanted(c))
  BY <1>1, LedMoves
<1> QED BY <1>1, <1>3, <1>4, <1>5 DEF Answering

\* The loop takes an event that is not the value.
LEMMA AnsweringTakes ==
  ASSUME NEW s \in Seq(Event), NEW t, NEW c, NEW S, s # <<>>,
         Head(s) # Wanted(c), Answering(s, t, c, S)
  PROVE  Answering(Tail(s), t, c, S)
<1>1. \A i \in DOMAIN Tail(s) : i + 1 \in DOMAIN s /\ Tail(s)[i] = s[i + 1]
  BY TailElems
<1>2. \A i \in DOMAIN Tail(s) : Harmless(Tail(s)[i]) \/ Own(c, Tail(s)[i])
  BY <1>1 DEF Answering
<1>3. /\ \A x : Among(x, Tail(s)) => Among(x, s)
      /\ Among(Wanted(c), s) => Among(Wanted(c), Tail(s))
  BY AmongMoves
<1>4. Led(s, Good(c), Wanted(c)) => Led(Tail(s), Good(c), Wanted(c))
  BY LedMoves
<1> QED BY <1>2, <1>3, <1>4 DEF Answering

\* Or the value.
LEMMA AnsweringShows ==
  ASSUME NEW s \in Seq(Event), NEW t, NEW c, NEW S, s # <<>>,
         c.op = "READ" \/ c.op = "WRITE",
         Head(s) = Wanted(c), c.attr.desc, Answering(s, t, c, S)
  PROVE  Answering(Tail(s), t, c, Whole(c)) /\ S \cup Whole(c) = Whole(c)
<1>1. \A i \in DOMAIN Tail(s) : i + 1 \in DOMAIN s /\ Tail(s)[i] = s[i + 1]
  BY TailElems
<1>2. \A i \in DOMAIN Tail(s) : Harmless(Tail(s)[i]) \/ Own(c, Tail(s)[i])
  BY <1>1 DEF Answering
<1>3. Among(Wanted(c), s) /\ \A x : Among(x, Tail(s)) => Among(x, s)
  BY AmongMoves
<1>4. c.op = "READ" /\ ~Among(Bad(c), Tail(s)) /\ ~Among(Bad(c), t)
  BY <1>3 DEF Answering
<1>5. Whole(c) # {}
  BY DEF Whole
<1>6. S \cup Whole(c) = Whole(c)
  BY DEF Answering
<1> QED BY <1>2, <1>4, <1>5, <1>6 DEF Answering

\* The procedure begins.
LEMMA AnsweringBegins ==
  ASSUME NEW s \in Seq(Event), NEW c, \A i \in DOMAIN s : Harmless(s[i]), NEW t,
         \/ c.op = "READ" /\ t \in ReadResults(c.conn, c.attr)
         \/ c.op = "WRITE" /\ t \in WriteResults(c.conn)
  PROVE  Answering(s, t, c, {})
<1> DEFINE v == Wanted(c)
<1>1. ~Among(v, s) /\ ~Among(Good(c), s) /\ ~Among(Bad(c), s)
  BY OwnKinds DEF Among, Own
<1>2. Led(s, Good(c), v)
  BY <1>1 DEF Led, Among
<1>3. \/ t = <<Bad(c)>>
      \/ c.op = "WRITE" /\ t = <<Good(c)>>
      \/ c.op = "READ" /\ (t = <<v, Good(c)>> \/ t = <<v, More(c), Good(c)>>)
  BY DEF ReadResults, WriteResults, Wanted, More, Good, Bad
<1> HIDE DEF v
<1>4. v # Good(c) /\ v # Bad(c) /\ v # More(c) /\ Good(c) # Bad(c)
      /\ More(c) # Good(c) /\ More(c) # Bad(c)
  BY OwnKinds DEF v
<1>5. CASE t = <<Bad(c)>>
  <2>1. /\ DOMAIN t = {1} /\ t[1] = Bad(c)
    BY <1>5
  <2>2. ~Among(v, t) /\ Led(t, Good(c), v)
    BY <1>4, <2>1 DEF Among, Led
  <2> QED BY <1>1, <1>2, <2>1, <2>2 DEF Answering, Own, v
<1>6. CASE c.op = "WRITE" /\ t = <<Good(c)>>
  <2>1. DOMAIN t = {1} /\ t[1] = Good(c)
    BY <1>6
  <2>2. ~Among(v, t)
    BY <1>4, <2>1 DEF Among
  <2> QED BY <1>1, <1>6, <2>1, <2>2 DEF Answering, Own, v
<1>7. CASE c.op = "READ" /\ t = <<v, Good(c)>>
  <2>1. DOMAIN t = {1, 2} /\ t[1] = v /\ t[2] = Good(c)
    BY <1>7
  <2>2. ~Among(Bad(c), t) /\ Led(t, Good(c), v)
    BY <1>4, <2>1 DEF Among, Led
  <2> QED BY <1>1, <1>2, <1>7, <2>1, <2>2 DEF Answering, Own, v
<1>8. CASE c.op = "READ" /\ t = <<v, More(c), Good(c)>>
  <2>1. DOMAIN t = {1, 2, 3} /\ t[1] = v /\ t[2] = More(c) /\ t[3] = Good(c)
    BY <1>8
  <2>2. ~Among(Bad(c), t) /\ Led(t, Good(c), v)
    BY <1>4, <2>1 DEF Among, Led
  <2> QED BY <1>1, <1>2, <1>8, <2>1, <2>2 DEF Answering, Own, v
<1> QED BY <1>3, <1>5, <1>6, <1>7, <1>8

\* The last event of the procedure, or a value that is not a descriptor's, ends
\* the command with its own answer.
LEMMA AnsweringEnds ==
  ASSUME NEW s \in Seq(Event), NEW t, NEW c, NEW S, s # <<>>,
         c.op = "READ" \/ c.op = "WRITE", Answering(s, t, c, S)
  PROVE  /\ Head(s) = Good(c) => Answered(c, S)
         /\ Head(s) = Bad(c) => Answered(c, S \cup {Failure})
         /\ Head(s) = Wanted(c) /\ ~c.attr.desc => Answered(c, S \cup Whole(c))
<1>1. ASSUME Head(s) = Good(c) PROVE Answered(c, S)
  <2>1. c.op = "READ" => S # {}
    BY <1>1, LedMoves DEF Answering
  <2> QED BY <2>1 DEF Answering, Answered, Whole
<1>2. ASSUME Head(s) = Bad(c) PROVE Answered(c, S \cup {Failure})
  <2>1. Among(Bad(c), s)
    BY <1>2, AmongMoves
  <2>2. S = {}
    BY <2>1 DEF Answering
  <2> QED BY <2>2 DEF Answered
<1>3. ASSUME Head(s) = Wanted(c), ~c.attr.desc PROVE Answered(c, S \cup Whole(c))
  <2>1. Among(Wanted(c), s)
    BY <1>3, AmongMoves
  <2>2. S = {} /\ c.op = "READ"
    BY <1>3, <2>1 DEF Answering
  <2> QED BY <2>2 DEF Answered, Whole
<1> QED BY <1>1, <1>2, <1>3

-----------------------------------------------------------------------------
(* The attributes of a connection stay known                                  *)

\* The elements of a connection stay where they are, and known.
LEMMA SameElements ==
  ASSUME TableType, NEW h, Known(h), Elements(h)' = Elements(h),
         \A i \in Elements(h) : table[i].known => table'[i].known
  PROVE  Known(h)'
<1>1. Open(h) /\ table[Index(h)].known
  BY DEF Known
<1>2. Index(h) \in Elements(h)
  BY <1>1, IndexIs DEF Elements
<1>3. Index(h)' = Index(h)
  BY DEF Index
<1>4. Open(h)'
  BY <1>1 DEF Open
<1> QED BY <1>1, <1>2, <1>3, <1>4 DEF Known

\* An element of another changes, or only the list of one.
LEMMA KnownChanges ==
  ASSUME TableType, NEW h, Known(h), NEW k \in DOMAIN table, NEW x,
         table' = [table EXCEPT ![k] = x],
         \/ table[k].conn # h /\ x.conn # h
         \/ x.conn = table[k].conn /\ (table[k].known => x.known)
  PROVE  Known(h)'
<1>1. DOMAIN table' = DOMAIN table /\ \A i \in DOMAIN table : i # k => table'[i] = table[i]
  BY DEF TableType
<1>2. table'[k] = x
  BY DEF TableType
<1>3. Elements(h)' = Elements(h)
  BY <1>1, <1>2 DEF Elements
<1>4. \A i \in Elements(h) : table[i].known => table'[i].known
  BY <1>1, <1>2 DEF Elements
<1> QED BY <1>3, <1>4, SameElements

\* Another comes before.
LEMMA KnownBefore ==
  ASSUME TableType, NEW h, Known(h), NEW x \in Elem, x.conn # h,
         table' = <<x>> \o table
  PROVE  Known(h)'
<1>0. table \in Seq(Elem) /\ Open(h)
  BY DEF TableType, Known
<1>1. /\ 1 \in DOMAIN table' /\ table'[1] = x
      /\ \A i \in DOMAIN table : /\ i \in Nat /\ 1 <= i
                                 /\ i + 1 \in DOMAIN table' /\ table'[i + 1] = table[i]
      /\ \A i \in DOMAIN table' : i \in Nat /\ (i = 1 \/ i - 1 \in DOMAIN table)
  BY <1>0, ConsElems
<1>2. Elements(h)' = {i + 1 : i \in Elements(h)}
  <2>1. \A i \in Elements(h)' : i - 1 \in Elements(h) /\ i = (i - 1) + 1
    BY <1>1 DEF Elements
  <2>2. \A i \in Elements(h) : i + 1 \in Elements(h)'
    BY <1>1 DEF Elements
  <2> QED BY <2>1, <2>2
<1>3. Elements(h) \subseteq Nat
  BY <1>1 DEF Elements
<1>4. Open(h)'
  BY <1>0, <1>2 DEF Open
<1>5. Index(h)' = Index(h) + 1
  BY <1>0, <1>2, <1>3, FirstShift DEF Open, Index
<1>6. Index(h) \in DOMAIN table
  BY <1>0, IndexIs
<1> QED BY <1>1, <1>4, <1>5, <1>6 DEF Known

\* An event that does not open or close a connection leaves it known.
LEMMA KnownStays ==
  ASSUME Types, HandlesEvent, NEW h \in Handle, Known(h),
         Head(evq) # Opened(h), Head(evq) # Closed(h)
  PROVE  Known(h)'
<1>0. PICK e : e = Head(evq)
  OBVIOUS
<1>1. \/ HandleValue(e) \/ HandleDescriptor(e) \/ HandleCompleted(e)
      \/ HandleConfig(e) \/ HandleConfirmation(e)
      \/ HandleFound(e) \/ HandleConnection(e)
  BY <1>0 DEF HandlesEvent
<1>2. evq # <<>> /\ e \in Event /\ TableType
  BY <1>0 DEF HandlesEvent, Types, EvqType
<1>3. e.conn \in Handle /\ e # Opened(h) /\ e # Closed(h)
  BY <1>0, <1>2, EventIs
<1>4. CASE table' = table
  BY <1>4 DEF Known, Open, Index, Elements
<1>5. ASSUME NEW q, SetNotes(e.conn, q), Open(e.conn) PROVE Known(h)'
  <2> DEFINE k == Index(e.conn)
             x == [table[k] EXCEPT !.notes = q]
  <2>1. k \in DOMAIN table /\ table[k] \in Elem
    BY <1>2, <1>5, IndexIs
  <2>2. table' = [table EXCEPT ![k] = x]
    BY <1>5 DEF SetNotes
  <2>3. x.conn = table[k].conn /\ x.known = table[k].known
    BY <2>1 DEF Elem
  <2> HIDE DEF k, x
  <2> QED BY <1>2, <2>1, <2>2, <2>3, KnownChanges
<1>6. CASE HandleConfig(e) \/ HandleConfirmation(e)
  BY <1>4, <1>5, <1>6 DEF HandleConfig, HandleConfirmation
<1>7. CASE HandleFound(e) /\ Open(e.conn)
  <2> DEFINE k == Index(e.conn)
             x == [table[k] EXCEPT !.known = TRUE]
  <2>1. k \in DOMAIN table /\ table[k] \in Elem
    BY <1>2, <1>7, IndexIs
  <2>2. table' = [table EXCEPT ![k] = x]
    BY <1>7 DEF HandleFound
  <2>3. x.conn = table[k].conn /\ x.known = TRUE
    BY <2>1 DEF Elem
  <2> HIDE DEF k, x
  <2> QED BY <1>2, <2>1, <2>2, <2>3, KnownChanges
<1>8. CASE HandleConnection(e)
  <2>0. Element(e.conn) \in Elem /\ Element(e.conn).conn = e.conn
        /\ Nobody \notin Handle
    BY <1>3, HandleAssumption DEF Element, Elem, Nobody
  <2>1. CASE e.kind = "opened"
    <3>1. connection_opened(e.conn) /\ e.conn # h
      BY <1>2, <1>3, <1>8, <2>1, EventIs DEF HandleConnection
    <3>2. CASE Open(Nobody)
      <4> DEFINE k == First(Elements(Nobody))
      <4>1. k \in DOMAIN table /\ table[k].conn = Nobody
        BY <1>2, <3>2, IndexIs DEF Index
      <4>2. table' = [table EXCEPT ![k] = Element(e.conn)]
        BY <3>1, <3>2 DEF connection_opened
      <4> HIDE DEF k
      <4> QED BY <1>2, <2>0, <3>1, <4>1, <4>2, KnownChanges
    <3>3. CASE ~Open(Nobody)
      <4>1. table' = <<Element(e.conn)>> \o table
        BY <3>1, <3>3 DEF connection_opened
      <4> QED BY <1>2, <2>0, <3>1, <4>1, KnownBefore
    <3> QED BY <3>2, <3>3
  <2>2. CASE e.kind = "closed"
    <3>1. connection_closed(e.conn) /\ e.conn # h
      BY <1>2, <1>3, <1>8, <2>2, EventIs DEF HandleConnection
    <3>2. CASE Open(e.conn)
      <4> DEFINE k == Index(e.conn)
                 x == [table[k] EXCEPT !.conn = Nobody, !.known = FALSE]
      <4>1. k \in DOMAIN table /\ table[k] \in Elem /\ table[k].conn = e.conn
        BY <1>2, <3>2, IndexIs
      <4>2. table' = [table EXCEPT ![k] = x]
        BY <3>1, <3>2 DEF connection_closed
      <4>3. x.conn # h
        BY <2>0, <4>1 DEF Elem
      <4> HIDE DEF k, x
      <4> QED BY <1>2, <3>1, <4>1, <4>2, <4>3, KnownChanges
    <3> QED BY <1>4, <3>1, <3>2 DEF connection_closed
  <2> QED BY <1>8, <2>1, <2>2 DEF HandleConnection
<1> QED BY <1>1, <1>4, <1>6, <1>7, <1>8
        DEF HandleValue, HandleDescriptor, HandleCompleted, HandleFound

-----------------------------------------------------------------------------
(* The invariant of answers                                                   *)

\* What an event does besides the table.
LEMMA Takings ==
  ASSUME HandlesEvent, NEW e, e = Head(evq)
  PROVE  /\ evq # <<>> /\ evq' = Tail(evq) /\ new = NoCommand
         /\ UNCHANGED <<new, conf, link, owed, alone, accepted, lost>>
         /\ e.kind = "value" => HandleValue(e)
         /\ e.kind = "descriptor" => HandleDescriptor(e)
         /\ e.kind = "completed" => HandleCompleted(e)
         /\ e.kind \in {"found", "opened", "closed"} => cmd' = cmd /\ shown' = shown
         /\ cmd' = cmd \/ cmd' = "OTHER"
<1>1. \/ HandleValue(e) \/ HandleDescriptor(e) \/ HandleCompleted(e)
      \/ HandleConfig(e) \/ HandleConfirmation(e)
      \/ HandleFound(e) \/ HandleConnection(e)
  BY DEF HandlesEvent
<1>2. /\ evq # <<>> /\ evq' = Tail(evq) /\ new = NoCommand
      /\ UNCHANGED <<new, conf, link, owed, alone, accepted, lost>>
  BY <1>1 DEF HandleValue, HandleDescriptor, HandleCompleted, HandleConfig,
     HandleConfirmation, HandleFound, HandleConnection, Takes, ncp, run
<1>3. /\ e.kind = "value" => HandleValue(e)
      /\ e.kind = "descriptor" => HandleDescriptor(e)
      /\ e.kind = "completed" => HandleCompleted(e)
  BY <1>1 DEF HandleValue, HandleDescriptor, HandleCompleted, HandleConfig,
     HandleConfirmation, HandleFound, HandleConnection
<1>4. e.kind \in {"found", "opened", "closed"} => cmd' = cmd /\ shown' = shown
  BY <1>1 DEF HandleValue, HandleDescriptor, HandleCompleted, HandleConfig,
     HandleConfirmation, HandleFound, HandleConnection, run
<1>5. cmd' = cmd \/ cmd' = "OTHER"
  BY <1>1 DEF HandleValue, HandleDescriptor, HandleCompleted, HandleConfig,
     HandleConfirmation, HandleFound, HandleConnection, Ends
<1> QED BY <1>2, <1>3, <1>4, <1>5

\* While a command waits for its own procedure only, an event is one of that
\* procedure or does not matter: it is another to wait for, or the answer.
LEMMA OwnEvent ==
  ASSUME Types, AnswerInv, HandlesEvent, alone, accepted, ~lost, cmd = "GATT"
  PROVE  \/ cmd' = "GATT" /\ Answering(evq', owed[conf.conn], conf, shown')
         \/ cmd' = "OTHER" /\ Answered(conf, shown')
<1>0. PICK e, s, t, c, S : /\ e = Head(evq) /\ s = evq /\ t = owed[conf.conn]
                           /\ c = conf /\ S = shown
  OBVIOUS
<1>1. /\ s # <<>> /\ evq' = Tail(s) /\ s \in Seq(Event) /\ e = Head(s)
      /\ e.kind = "value" => HandleValue(e)
      /\ e.kind = "descriptor" => HandleDescriptor(e)
      /\ e.kind = "completed" => HandleCompleted(e)
      /\ e.kind \in {"found", "opened", "closed"} => cmd' = cmd /\ shown' = shown
  BY <1>0, Takings DEF Types, EvqType
<1>2. Answering(s, t, c, S) /\ IsAccess(c)
  BY <1>0 DEF AnswerInv, Answers, Asked
<1>3. /\ c.op = "READ" \/ c.op = "WRITE"
      /\ c.attr \in Attr /\ c.conn \in Handle
  BY <1>0, <1>2 DEF Types, LoopType, IsAccess, Command, NoCommand
<1>4. Known(c.conn)
  BY <1>0 DEF AnswerInv, Lasts
<1>5. Harmless(e) \/ Own(c, e)
  BY <1>1, <1>2, TailElems DEF Answering
<1>6. ASSUME e # Wanted(c), cmd' = cmd, shown' = S
      PROVE  cmd' = "GATT" /\ Answering(evq', t, c, shown')
  BY <1>1, <1>2, <1>6, AnsweringTakes
<1>7. CASE e.kind = "value" /\ e.opcode # "read"
  <2>1. ~ValueExpected(e) /\ ~ValueAnswers(e)
    BY <1>7 DEF ValueExpected, ValueAnswers
  <2>2. cmd' = cmd /\ shown' = S
    BY <1>0, <1>1, <1>7, <2>1 DEF HandleValue, Ends, Shows
  <2>3. e # Wanted(c)
    BY <1>7 DEF Wanted, Value, DescValue
  <2> QED BY <1>0, <1>6, <2>2, <2>3
<1>8. CASE e = Wanted(c) /\ ~c.attr.desc
  <2>1. /\ e.kind = "value" /\ e.opcode = "read" /\ e.conn = c.conn
        /\ e.char = c.attr.char
    BY <1>8 DEF Wanted, Value
  <2>2. ValueExpected(e) /\ ValueAnswers(e)
    BY <1>0, <1>2, <1>4, <2>1 DEF ValueExpected, ValueAnswers, Accesses
  <2>3. cmd' = "OTHER"
    BY <1>1, <2>1, <2>2 DEF HandleValue, Ends
  <2>4. c.attr = [char |-> c.attr.char, desc |-> FALSE]
    BY <1>3, <1>8 DEF Attr
  <2>5. shown' = S \cup Whole(c)
    <3>1. shown' = S \cup {[conn |-> e.conn, attr |-> [char |-> e.char, desc |-> FALSE]]}
      BY <1>0, <1>1, <2>1, <2>2 DEF HandleValue, Shows
    <3> QED BY <2>1, <2>4, <3>1 DEF Whole
  <2>6. Answered(c, S \cup Whole(c))
    BY <1>1, <1>2, <1>3, <1>8, AnsweringEnds
  <2> QED BY <1>0, <2>3, <2>5, <2>6
<1>9. CASE e = Wanted(c) /\ c.attr.desc
  <2>1. e.kind = "descriptor" /\ e.conn = c.conn /\ e.char = c.attr.char
    BY <1>9 DEF Wanted, DescValue
  <2>2. c.attr = [char |-> c.attr.char, desc |-> TRUE]
    BY <1>3, <1>9 DEF Attr
  <2>3. shown' = S \cup Whole(c) /\ cmd' = cmd
    <3>1. /\ shown' = S \cup {[conn |-> e.conn, attr |-> [char |-> e.char, desc |-> TRUE]]}
          /\ cmd' = cmd
      BY <1>0, <1>1, <1>2, <1>4, <2>1 DEF HandleDescriptor, Shows
    <3> QED BY <2>1, <2>2, <3>1 DEF Whole
  <2>4. Answering(Tail(s), t, c, Whole(c)) /\ S \cup Whole(c) = Whole(c)
    BY <1>1, <1>2, <1>3, <1>9, AnsweringShows
  <2> QED BY <1>0, <1>1, <2>3, <2>4
<1>10. CASE e = Good(c)
  <2>1. e.kind = "completed" /\ e.ok = TRUE
    BY <1>10 DEF Good, Completed
  <2>2. cmd' = "OTHER" /\ shown' = S
    BY <1>0, <1>1, <2>1 DEF HandleCompleted, CompletedEnds, Ends, Shows
  <2>3. Answered(c, S)
    BY <1>1, <1>2, <1>3, <1>10, AnsweringEnds
  <2> QED BY <1>0, <2>2, <2>3
<1>11. CASE e = Bad(c)
  <2>1. e.kind = "completed" /\ e.ok = FALSE
    BY <1>11 DEF Bad, Completed
  <2>2. cmd' = "OTHER" /\ shown' = S \cup {Failure}
    BY <1>0, <1>1, <2>1 DEF HandleCompleted, CompletedEnds, Ends, Shows
  <2>3. Answered(c, S \cup {Failure})
    BY <1>1, <1>2, <1>3, <1>11, AnsweringEnds
  <2> QED BY <1>0, <2>2, <2>3
<1>12. CASE e.kind \in {"found", "opened", "closed"}
  <2>1. cmd' = cmd /\ shown' = S /\ e # Wanted(c)
    BY <1>0, <1>1, <1>12 DEF Wanted, Value, DescValue
  <2> QED BY <1>0, <1>6, <2>1
<1>13. e = More(c) => e.kind = "value" /\ e.opcode = "blob"
  BY DEF More, Value
<1> QED BY <1>5, <1>7, <1>8, <1>9, <1>10, <1>11, <1>12, <1>13 DEF Harmless, Own

\* An event the loop takes keeps the invariant.
LEMMA EventAnswers ==
  ASSUME Types, AnswerInv, HandlesEvent
  PROVE  AnswerInv'
<1>0. PICK s, c : s = evq /\ c = conf
  OBVIOUS
<1>1. /\ s # <<>> /\ evq' = Tail(s) /\ s \in Seq(Event) /\ new = NoCommand
      /\ new' = new /\ conf' = c /\ link' = link /\ owed' = owed
      /\ alone' = alone /\ accepted' = accepted /\ lost' = lost
      /\ cmd' = cmd \/ cmd' = "OTHER"
  <2>1. PICK e : e = Head(evq)
    OBVIOUS
  <2> QED BY <1>0, <2>1, Takings DEF Types, EvqType
<1>2. ~IsAccess(new)
  BY <1>1 DEF IsAccess, NoCommand
<1>3. Asked'
  BY <1>0, <1>1, <1>2 DEF AnswerInv, Asked, IsAccess
<1>4. Lasts'
  <2>1. SUFFICES ASSUME accepted, ~lost
                 PROVE  /\ c.conn \in link
                        /\ ~Among(Opened(c.conn), Tail(s)) /\ ~Among(Closed(c.conn), Tail(s))
                        /\ Known(c.conn)'
    BY <1>1, <1>2 DEF Lasts, IsAccess, Known, Open, Elements, Index
  <2>2. /\ c.conn \in link /\ Known(c.conn)
        /\ ~Among(Opened(c.conn), s) /\ ~Among(Closed(c.conn), s)
    BY <1>0, <2>1 DEF AnswerInv, Lasts
  <2>3. c.conn \in Handle
    BY <2>2 DEF Types, NcpType
  <2>4. Head(s) # Opened(c.conn) /\ Head(s) # Closed(c.conn)
    BY <1>1, <2>2, AmongMoves
  <2>5. Known(c.conn)'
    BY <1>0, <2>2, <2>3, <2>4, KnownStays
  <2> QED BY <1>1, <2>2, <2>5, AmongMoves
<1>5. Untouched'
  BY <1>1 DEF Untouched
<1>6. Answers'
  <2> SUFFICES ASSUME alone, accepted, ~lost, cmd' = "GATT"
               PROVE  /\ \A h \in Handle : h # conf'.conn => owed'[h] = <<>>
                      /\ Answering(evq', owed'[conf'.conn], conf', shown')
    BY <1>1 DEF Answers
  <2>1. cmd = "GATT"
    BY <1>1
  <2>2. \A h \in Handle : h # c.conn => owed[h] = <<>>
    BY <1>0, <2>1 DEF AnswerInv, Answers
  <2>3. Answering(evq', owed[c.conn], c, shown')
    BY <1>0, <2>1, OwnEvent
  <2> QED BY <1>1, <2>2, <2>3
<1> QED BY <1>3, <1>4, <1>5, <1>6 DEF AnswerInv

\* A command begins to wait for its own procedure.
LEMMA AccessAnswers ==
  ASSUME Types, AnswerInv, IsAccess(new), new' = NoCommand, Known(new.conn),
         NEW R, R \subseteq Seq(Event), Starts(new.conn, R),
         \/ new.op = "READ" /\ R = ReadResults(new.conn, new.attr)
         \/ new.op = "WRITE" /\ R = WriteResults(new.conn),
         conf' = conf, table' = table, link' = link, evq' = evq, alone' = alone,
         lost' = lost, shown' = shown
  PROVE  AnswerInv'
<1>0. PICK s, c : s = evq /\ c = conf
  OBVIOUS
<1>1. c = new /\ IsAccess(c) /\ shown = {} /\ new # NoCommand
  BY <1>0 DEF AnswerInv, Asked, IsAccess, NoCommand
<1>2. c.conn \in Handle /\ (c.op = "READ" \/ c.op = "WRITE")
  BY <1>1 DEF IsAccess, Types, LoopType, Command, NoCommand
<1>3. PICK t \in R : owed' = [owed EXCEPT ![c.conn] = t]
  BY <1>1 DEF Starts
<1>4. owed'[c.conn] = t /\ \A h \in Handle : h # c.conn => owed'[h] = owed[h]
  BY <1>2, <1>3 DEF Types, NcpType
<1>5. Asked'
  BY <1>0, <1>1 DEF Asked, IsAccess, NoCommand
<1>6. Lasts'
  <2>1. Known(c.conn)' <=> Known(c.conn)
    BY DEF Known, Open, Index, Elements
  <2> QED BY <1>0, <1>1, <2>1 DEF AnswerInv, Lasts, Known, Open, Index, Elements
<1>7. Untouched'
  BY DEF Untouched
<1>8. Answers'
  <2> SUFFICES ASSUME alone
               PROVE  /\ \A h \in Handle : h # c.conn => owed'[h] = <<>>
                      /\ Answering(s, owed'[c.conn], c, {})
    BY <1>0, <1>1 DEF Answers
  <2>1. /\ \A h \in Handle : owed[h] = <<>>
        /\ \A i \in DOMAIN s : Harmless(s[i])
    BY <1>0, <1>1 DEF AnswerInv, Untouched
  <2>2. Answering(s, t, c, {})
    <3>1. \/ c.op = "READ" /\ t \in ReadResults(c.conn, c.attr)
          \/ c.op = "WRITE" /\ t \in WriteResults(c.conn)
      BY <1>1, <1>3
    <3>2. s \in Seq(Event)
      BY <1>0 DEF Types, EvqType
    <3> QED BY <2>1, <3>1, <3>2, AnsweringBegins
  <2> QED BY <1>4, <2>1, <2>2
<1> QED BY <1>5, <1>6, <1>7, <1>8 DEF AnswerInv

\* A command that the NCP does not accept does not wait for a procedure.
LEMMA RefusedAnswers ==
  ASSUME Types, AnswerInv, new # NoCommand, new' = NoCommand, accepted' = accepted
  PROVE  AnswerInv'
<1>1. ~accepted
  BY DEF AnswerInv, Asked
<1>2. ~accepted' /\ ~IsAccess(new')
  BY <1>1 DEF IsAccess, NoCommand
<1>3. Asked'
  BY <1>2 DEF Asked, IsAccess
<1>4. Lasts'
  BY <1>2 DEF Lasts, IsAccess
<1>5. Untouched'
  BY DEF Untouched
<1>6. Answers'
  BY <1>2 DEF Answers
<1> QED BY <1>3, <1>4, <1>5, <1>6 DEF AnswerInv

\* Commands keep the invariant.
LEMMA CommandAnswers ==
  ASSUME Types, AnswerInv,
         RunsCommand \/ \E c \in Command : SingleShot(c) \/ Receive(c)
  PROVE  AnswerInv'
<1>1. ASSUME NEW c \in Command, SingleShot(c) PROVE AnswerInv'
  <2>1. /\ cmd' = "OTHER" /\ new = NoCommand /\ new' = new /\ conf' = conf
        /\ table' = table /\ link' = link /\ evq' = evq /\ accepted' = accepted
        /\ lost' = lost
    BY <1>1 DEF SingleShot, Receives, ncp, run
  <2>2. Asked'
    BY <2>1 DEF AnswerInv, Asked, IsAccess, NoCommand
  <2>3. Lasts'
    BY <2>1 DEF AnswerInv, Lasts, IsAccess, Known, Open, Index, Elements
  <2>4. Untouched'
    BY <2>1 DEF Untouched
  <2>5. Answers'
    BY <2>1 DEF Answers
  <2> QED BY <2>2, <2>3, <2>4, <2>5 DEF AnswerInv
<1>2. ASSUME NEW c \in Command, Receive(c) PROVE AnswerInv'
  <2>1. /\ new' = c /\ accepted' = FALSE /\ shown' = {} /\ alone' = Quiet
        /\ evq' = evq /\ owed' = owed /\ link' = link /\ c # NoCommand
        /\ IsAccess(c) => conf' = c
    BY <1>2 DEF Receive, ncp, Command, NoCommand
  <2>2. Asked'
    BY <2>1 DEF Asked, IsAccess
  <2>3. Lasts'
    <3> SUFFICES ASSUME IsAccess(c), ~lost'
                 PROVE  /\ c.conn \in link
                        /\ ~Among(Opened(c.conn), evq) /\ ~Among(Closed(c.conn), evq)
      BY <2>1 DEF Lasts, IsAccess
    <3>1. ~(/\ IsAccess(c)
            /\ \/ c.conn \notin link
               \/ \E i \in DOMAIN evq : evq[i] \in {Opened(c.conn), Closed(c.conn)})
      BY <1>2 DEF Receive
    <3> QED BY <3>1 DEF Among
  <2>4. Untouched'
    <3> SUFFICES ASSUME Quiet
                 PROVE  /\ \A h \in Handle : owed[h] = <<>>
                        /\ \A i \in DOMAIN evq : Harmless(evq[i])
      BY <2>1 DEF Untouched
    <3> QED BY DEF Quiet, Meddles, Harmless
  <2>5. Answers'
    BY <2>1 DEF Answers
  <2> QED BY <2>2, <2>3, <2>4, <2>5 DEF AnswerInv
<1>3. CASE Read
  <2>1. IsAccess(new) /\ new # NoCommand /\ new' = NoCommand /\ new.op = "READ"
        /\ UNCHANGED <<conf, table, link, evq, alone, lost, shown>>
    BY <1>3 DEF Read, IsAccess, NoCommand
  <2>2. CASE accepted' = accepted
    BY <2>1, <2>2, RefusedAnswers
  <2>3. CASE Known(new.conn) /\ Starts(new.conn, ReadResults(new.conn, new.attr))
    <3>1. new.conn \in Handle /\ new.attr \in Attr
      BY <2>1 DEF Types, LoopType, Command, NoCommand
    <3>2. ReadResults(new.conn, new.attr) \subseteq Seq(Event)
      BY <3>1, Results
    <3> QED BY <2>1, <2>3, <3>2, AccessAnswers
  <2> QED BY <1>3, <2>2, <2>3 DEF Read
<1>4. CASE Write
  <2>1. IsAccess(new) /\ new # NoCommand /\ new' = NoCommand /\ new.op = "WRITE"
        /\ UNCHANGED <<conf, table, link, evq, alone, lost, shown>>
    BY <1>4 DEF Write, IsAccess, NoCommand
  <2>2. CASE accepted' = accepted
    BY <2>1, <2>2, RefusedAnswers
  <2>3. CASE Known(new.conn) /\ Starts(new.conn, WriteResults(new.conn))
    <3>1. new.conn \in Handle /\ new.attr \in Attr
      BY <2>1 DEF Types, LoopType, Command, NoCommand
    <3>2. WriteResults(new.conn) \subseteq Seq(Event)
      BY <3>1, Results
    <3> QED BY <2>1, <2>3, <3>2, AccessAnswers
  <2> QED BY <1>4, <2>2, <2>3 DEF Write, WriteNoResponse, WriteWithResponse
<1>5. CASE Notify \/ LocalOrUnknown \/ Discover \/ Scan
  <2>1. new # NoCommand /\ new' = NoCommand /\ accepted' = accepted
    BY <1>5 DEF Notify, LocalOrUnknown, Discover, Scan, NoCommand, run
  <2> QED BY <2>1, RefusedAnswers
<1> QED BY <1>1, <1>2, <1>3, <1>4, <1>5 DEF RunsCommand

\* Whose command it is: that of conf.gatt.
LEMMA Whose ==
  ASSUME Types, AnswerInv, accepted \/ IsAccess(new)
  PROVE  IsAccess(conf) /\ conf.conn \in Handle
<1>1. IsAccess(conf)
  BY DEF AnswerInv, Asked
<1> QED BY <1>1 DEF IsAccess, Types, LoopType, Command, NoCommand

\* An event of a procedure, or one that does not matter, joins the others.
LEMMA JoinedAnswers ==
  ASSUME Types, AnswerInv, UNCHANGED <<host, accepted, shown, lost>>,
         NEW e \in Event, evq' = Append(evq, e), link \subseteq link',
         alone' => alone,
         (accepted \/ IsAccess(new)) /\ ~lost
           => e # Opened(conf.conn) /\ e # Closed(conf.conn),
         \/ ~alone'
         \/ owed' = owed /\ Harmless(e)
         \/ \E h \in Handle : /\ owed[h] # <<>> /\ e = Head(owed[h])
                              /\ owed' = [owed EXCEPT ![h] = Tail(@)]
  PROVE  AnswerInv'
<1>0. PICK s, c, S : s = evq /\ c = conf /\ S = shown
  OBVIOUS
<1>1. /\ new' = new /\ conf' = c /\ cmd' = cmd /\ table' = table /\ shown' = S
      /\ accepted' = accepted /\ lost' = lost /\ evq' = Append(s, e) /\ s \in Seq(Event)
  BY <1>0 DEF host, Types, EvqType
<1>2. Asked'
  BY <1>0, <1>1 DEF AnswerInv, Asked
<1>3. Lasts'
  <2>0. Known(c.conn)' <=> Known(c.conn)
    BY <1>1 DEF Known, Open, Index, Elements
  <2> SUFFICES ASSUME accepted \/ IsAccess(new), ~lost
               PROVE  /\ c.conn \in link'
                      /\ ~Among(Opened(c.conn), evq') /\ ~Among(Closed(c.conn), evq')
                      /\ accepted => Known(c.conn)'
    BY <1>1 DEF Lasts, Known, Open, Elements, Index
  <2>1. /\ c.conn \in link /\ (accepted => Known(c.conn))
        /\ ~Among(Opened(c.conn), s) /\ ~Among(Closed(c.conn), s)
    BY <1>0 DEF AnswerInv, Lasts
  <2>2. e # Opened(c.conn) /\ e # Closed(c.conn)
    BY <1>0
  <2>3. ~Among(Opened(c.conn), evq') /\ ~Among(Closed(c.conn), evq')
    BY <1>1, <2>1, <2>2, AmongMoves
  <2> QED BY <2>0, <2>1, <2>3
<1>4. Untouched'
  <2> SUFFICES ASSUME alone', new # NoCommand
               PROVE  /\ \A h \in Handle : owed'[h] = <<>>
                      /\ \A i \in DOMAIN evq' : Harmless(evq'[i])
    BY <1>1 DEF Untouched
  <2>1. /\ \A h \in Handle : owed[h] = <<>>
        /\ \A i \in DOMAIN s : Harmless(s[i])
    BY <1>0 DEF AnswerInv, Untouched
  <2>2. owed' = owed /\ Harmless(e)
    BY <2>1
  <2> QED BY <1>1, <2>1, <2>2, AppendElems
<1>5. Answers'
  <2> SUFFICES ASSUME alone', accepted, ~lost, cmd = "GATT"
               PROVE  /\ \A h \in Handle : h # c.conn => owed'[h] = <<>>
                      /\ Answering(Append(s, e), owed'[c.conn], c, S)
    BY <1>1 DEF Answers
  <2>1. /\ \A h \in Handle : h # c.conn => owed[h] = <<>>
        /\ Answering(s, owed[c.conn], c, S)
    BY <1>0 DEF AnswerInv, Answers
  <2>2. CASE owed' = owed /\ Harmless(e)
    <3>1. PICK t : t = owed[c.conn]
      OBVIOUS
    <3>2. Answering(Append(s, e), t, c, S)
      BY <1>1, <2>1, <2>2, <3>1, AnsweringJoins
    <3> QED BY <2>1, <2>2, <3>1, <3>2
  <2>3. ASSUME NEW h \in Handle, owed[h] # <<>>, e = Head(owed[h]),
               owed' = [owed EXCEPT ![h] = Tail(owed[h])]
        PROVE  /\ \A g \in Handle : g # c.conn => owed'[g] = <<>>
               /\ Answering(Append(s, e), owed'[c.conn], c, S)
    <3>1. h = c.conn
      BY <2>1, <2>3
    <3>2. PICK t \in Seq(Event) : t = owed[h]
      BY DEF Types, NcpType
    <3>3. owed'[h] = Tail(t) /\ \A g \in Handle : g # h => owed'[g] = owed[g]
      BY <2>3, <3>2 DEF Types, NcpType
    <3>4. Answering(Append(s, Head(t)), Tail(t), c, S)
      BY <1>1, <2>1, <2>3, <3>1, <3>2, AnsweringReports
    <3> QED BY <2>1, <2>3, <3>1, <3>2, <3>3, <3>4
  <2> QED BY <2>2, <2>3
<1> QED BY <1>2, <1>3, <1>4, <1>5 DEF AnswerInv

\* Connections end: those of others do not matter.
LEMMA DroppedAnswers ==
  ASSUME Types, AnswerInv, UNCHANGED <<host, accepted, shown, alone>>,
         NEW H \in SUBSET Handle, Drop(H),
         \/ evq' = evq
         \/ \E h \in H : evq' = Append(evq, Closed(h))
         \/ \E h \in H : /\ owed[h] # <<>>
                         /\ evq' = Append(Append(evq, Completed(h, FALSE)), Closed(h))
  PROVE  AnswerInv'
<1>0. PICK s, c, S : s = evq /\ c = conf /\ S = shown
  OBVIOUS
<1>1. /\ new' = new /\ conf' = c /\ cmd' = cmd /\ table' = table /\ shown' = S
      /\ accepted' = accepted /\ alone' = alone /\ s \in Seq(Event)
      /\ link' = link \ H
      /\ \A g \in Handle : owed'[g] = IF g \in H THEN <<>> ELSE owed[g]
  BY <1>0 DEF host, Types, EvqType, Drop
<1>2. ASSUME accepted \/ IsAccess(new), ~lost'
      PROVE  ~lost /\ c.conn \notin H /\ c.conn \in Handle
  <2>1. IsAccess(c) /\ c.conn \in Handle
    BY <1>0, <1>2, Whose
  <2>2. ~(lost \/ \E h \in H : Accesses(h))
    BY <1>2, Zenon DEF Drop
  <2> QED BY <1>0, <2>1, <2>2 DEF Accesses
<1>3. Asked'
  BY <1>0, <1>1 DEF AnswerInv, Asked
<1>4. Lasts'
  <2>0. Known(c.conn)' <=> Known(c.conn)
    BY <1>1 DEF Known, Open, Index, Elements
  <2> SUFFICES ASSUME accepted \/ IsAccess(new), ~lost'
               PROVE  /\ c.conn \in link'
                      /\ ~Among(Opened(c.conn), evq') /\ ~Among(Closed(c.conn), evq')
                      /\ accepted => Known(c.conn)'
    BY <1>1 DEF Lasts, Known, Open, Elements, Index
  <2>1. ~lost /\ c.conn \notin H
    BY <1>2
  <2>2. /\ c.conn \in link /\ (accepted => Known(c.conn))
        /\ ~Among(Opened(c.conn), s) /\ ~Among(Closed(c.conn), s)
    BY <1>0, <2>1 DEF AnswerInv, Lasts
  <2>3. ASSUME NEW r \in Seq(Event), NEW h \in H,
               ~Among(Opened(c.conn), r), ~Among(Closed(c.conn), r)
        PROVE  /\ ~Among(Opened(c.conn), Append(r, Closed(h)))
               /\ ~Among(Closed(c.conn), Append(r, Closed(h)))
    BY <2>1, <2>3, Kinds, AmongMoves
  <2>4. ASSUME NEW h \in H
        PROVE  /\ Append(s, Completed(h, FALSE)) \in Seq(Event)
               /\ ~Among(Opened(c.conn), Append(s, Completed(h, FALSE)))
               /\ ~Among(Closed(c.conn), Append(s, Completed(h, FALSE)))
    <3>1. Completed(h, FALSE) \in Event
      BY Makes
    <3>2. /\ Completed(h, FALSE) # Opened(c.conn)
          /\ Completed(h, FALSE) # Closed(c.conn)
      BY DEF Completed, Opened, Closed
    <3>3. Append(s, Completed(h, FALSE)) \in Seq(Event)
      <4>1. \A e \in Event : Append(s, e) \in Seq(Event)
        BY <1>1
      <4> QED BY <3>1, <4>1, Zenon
    <3> QED BY <1>1, <2>2, <3>2, <3>3, AmongMoves
  <2>5. ~Among(Opened(c.conn), evq') /\ ~Among(Closed(c.conn), evq')
    BY <1>0, <1>1, <2>2, <2>3, <2>4
  <2> QED BY <1>1, <2>0, <2>1, <2>2, <2>5
<1>5. Untouched'
  <2> SUFFICES ASSUME alone, new # NoCommand
               PROVE  /\ \A h \in Handle : owed'[h] = <<>>
                      /\ \A i \in DOMAIN evq' : Harmless(evq'[i])
    BY <1>1 DEF Untouched
  <2>1. /\ \A h \in Handle : owed[h] = <<>>
        /\ \A i \in DOMAIN s : Harmless(s[i])
    BY <1>0 DEF AnswerInv, Untouched
  <2>2. evq' = s \/ \E h \in H : evq' = Append(s, Closed(h))
    BY <1>0, <2>1
  <2>3. \A h \in H : Harmless(Closed(h))
    BY DEF Harmless, Closed
  <2> QED BY <1>1, <2>1, <2>2, <2>3, AppendElems
<1>6. Answers'
  <2> SUFFICES ASSUME alone, accepted, ~lost', cmd = "GATT"
               PROVE  /\ \A h \in Handle : h # c.conn => owed'[h] = <<>>
                      /\ Answering(evq', owed'[c.conn], c, S)
    BY <1>1 DEF Answers
  <2>1. ~lost /\ c.conn \notin H /\ c.conn \in Handle
    BY <1>2
  <2>2. /\ \A h \in Handle : h # c.conn => owed[h] = <<>>
        /\ Answering(s, owed[c.conn], c, S)
    BY <1>0, <2>1 DEF AnswerInv, Answers
  <2>3. PICK t : t = owed[c.conn]
    OBVIOUS
  <2>4. owed'[c.conn] = t /\ \A h \in Handle : h # c.conn => owed'[h] = <<>>
    BY <1>1, <2>1, <2>2, <2>3
  <2>5. evq' = s \/ \E h \in H : evq' = Append(s, Closed(h))
    BY <1>0, <2>1, <2>2
  <2>6. \A h \in H : Answering(Append(s, Closed(h)), t, c, S)
    <3> SUFFICES ASSUME NEW h \in H PROVE Answering(Append(s, Closed(h)), t, c, S)
      OBVIOUS
    <3>1. Harmless(Closed(h))
      BY DEF Harmless, Closed
    <3> QED BY <1>1, <2>2, <2>3, <3>1, AnsweringJoins
  <2> QED BY <2>2, <2>3, <2>4, <2>5, <2>6
<1> QED BY <1>3, <1>4, <1>5, <1>6 DEF AnswerInv

\* The steps of the NCP and of the devices keep the invariant.
LEMMA NcpAnswers ==
  ASSUME Types, OwedPlain, AnswerInv,
         \/ NcpReboot
         \/ \E h \in Handle :
              \/ NcpReports(h) \/ NcpOpen(h) \/ NcpClose(h)
              \/ \E l \in Local : \/ RemoteConfirms(h, l)
                                  \/ \E f \in Flags : RemoteConfigures(h, l, f)
              \/ \E c \in Characteristic : RemoteNotifies(h, c)
  PROVE  AnswerInv'
<1>1. ASSUME NcpReboot PROVE AnswerInv'
  <2>1. /\ UNCHANGED <<host, accepted, shown, alone>> /\ Drop(Handle)
        /\ evq' = evq
    BY <1>1 DEF NcpReboot
  <2> QED BY <2>1, DroppedAnswers
<1>2. ASSUME NEW h \in Handle, NcpReports(h) PROVE AnswerInv'
  <2>1. PICK e : e = Head(owed[h])
    OBVIOUS
  <2>2. /\ owed[h] # <<>> /\ evq' = Append(evq, e)
        /\ owed' = [owed EXCEPT ![h] = Tail(@)]
        /\ UNCHANGED <<host, accepted, shown, lost>> /\ link' = link /\ alone' = alone
    BY <1>2, <2>1 DEF NcpReports, NcpSends, run
  <2>3. PICK t \in Seq(Event) : t = owed[h]
    BY DEF Types, NcpType
  <2>4. 1 \in DOMAIN t /\ e = t[1] /\ e \in Event
    BY <2>1, <2>2, <2>3, TailElems
  <2>5. Plain(e)
    BY <2>3, <2>4 DEF OwedPlain
  <2>6. e # Opened(conf.conn) /\ e # Closed(conf.conn)
    BY <2>5, Kinds
  <2> QED BY <2>1, <2>2, <2>4, <2>6, JoinedAnswers
<1>3. ASSUME NEW h \in Handle, NcpOpen(h) PROVE AnswerInv'
  <2>1. PICK e : e = Opened(h)
    OBVIOUS
  <2>2. /\ evq' = Append(evq, e) /\ e \in Event /\ Harmless(e)
        /\ UNCHANGED <<host, accepted, shown, lost, owed>>
        /\ link \subseteq link' /\ alone' = alone /\ h \notin link
    BY <1>3, <2>1, Makes DEF NcpOpen, NcpSends, run, Harmless, Opened
  <2>3. (accepted \/ IsAccess(new)) /\ ~lost
           => e # Opened(conf.conn) /\ e # Closed(conf.conn)
    <3>1. (accepted \/ IsAccess(new)) /\ ~lost => conf.conn \in link
      BY DEF AnswerInv, Lasts
    <3> QED BY <2>1, <2>2, <3>1, Kinds
  <2> QED BY <2>2, <2>3, JoinedAnswers
<1>4. ASSUME NEW h \in Handle, NcpClose(h) PROVE AnswerInv'
  <2>1. /\ UNCHANGED <<host, accepted, shown, alone>> /\ Drop({h})
        /\ \/ evq' = Append(evq, Closed(h))
           \/ owed[h] # <<>> /\ evq' = evq \o <<Completed(h, FALSE), Closed(h)>>
    BY <1>4 DEF NcpClose
  <2>2. evq \o <<Completed(h, FALSE), Closed(h)>>
          = Append(Append(evq, Completed(h, FALSE)), Closed(h))
    <3>1. Completed(h, FALSE) \in Event /\ Closed(h) \in Event /\ evq \in Seq(Event)
      BY Makes DEF Types, EvqType
    <3>2. \A e, f \in Event : evq \o <<e, f>> = Append(Append(evq, e), f)
      BY <3>1, AppendTwo
    <3> QED BY <3>1, <3>2, Zenon
  <2>3. {h} \in SUBSET Handle /\ h \in {h}
    OBVIOUS
  <2> QED BY <2>1, <2>2, <2>3, DroppedAnswers
<1>5. ASSUME NEW h \in Handle, NEW l \in Local, RemoteConfirms(h, l) PROVE AnswerInv'
  <2>1. PICK e : e = Confirmed(h, l)
    OBVIOUS
  <2>2. /\ evq' = Append(evq, e) /\ e \in Event /\ alone' = FALSE
        /\ UNCHANGED <<host, accepted, shown, lost>> /\ link' = link
    BY <1>5, <2>1, Makes DEF RemoteConfirms, NcpSends
  <2>3. e # Opened(conf.conn) /\ e # Closed(conf.conn)
    BY <2>1, Kinds
  <2> QED BY <2>2, <2>3, JoinedAnswers
<1>6. ASSUME NEW h \in Handle, NEW l \in Local, NEW f \in Flags,
             RemoteConfigures(h, l, f)
      PROVE  AnswerInv'
  <2>1. PICK e : e = Config(h, l, f)
    OBVIOUS
  <2>2. /\ evq' = Append(evq, e) /\ e \in Event /\ alone' = FALSE
        /\ UNCHANGED <<host, accepted, shown, lost>> /\ link' = link
    BY <1>6, <2>1, Makes DEF RemoteConfigures, NcpSends
  <2>3. e # Opened(conf.conn) /\ e # Closed(conf.conn)
    BY <2>1, Kinds
  <2> QED BY <2>2, <2>3, JoinedAnswers
<1>7. ASSUME NEW h \in Handle, NEW c \in Characteristic, RemoteNotifies(h, c)
      PROVE  AnswerInv'
  <2>1. PICK e : e = Value(h, c, "notification")
    OBVIOUS
  <2>2. /\ evq' = Append(evq, e) /\ e \in Event /\ alone' = alone /\ Harmless(e)
        /\ UNCHANGED <<host, accepted, shown, lost, owed>> /\ link' = link
    BY <1>7, <2>1, Makes DEF RemoteNotifies, NcpSends, Harmless, Value, run, ncp
  <2>3. e # Opened(conf.conn) /\ e # Closed(conf.conn)
    BY <2>1 DEF Value, Opened, Closed
  <2> QED BY <2>2, <2>3, JoinedAnswers
<1> QED BY <1>1, <1>2, <1>3, <1>4, <1>5, <1>6, <1>7

\* Every step keeps the invariant of answers.
LEMMA AnswerStep == Types /\ ListsInv /\ AnswerInv /\ [Next]_vars => AnswerInv'
<1> SUFFICES ASSUME Types, ListsInv, AnswerInv, [Next]_vars PROVE AnswerInv'
  OBVIOUS
<1>1. CASE Next
  <2>1. OwedPlain
    BY DEF ListsInv
  <2> QED BY <1>1, <2>1, EventAnswers, CommandAnswers, NcpAnswers DEF Next
<1>2. CASE UNCHANGED vars
  BY <1>2 DEF vars, host, ncp, run, past, bounds, AnswerInv, Asked, Lasts, Untouched,
              Answers, Known, Open, Index, Elements
<1> QED BY <1>1, <1>2

\* Nobody waits at the start.
LEMMA InitAnswers == Init => AnswerInv
BY DEF Init, AnswerInv, Asked, Lasts, Untouched, Answers, IsAccess, NoCommand

\* Only the loop, at an event, ends a command the way OwnAnswer means.
LEMMA EndsOwn ==
  ASSUME Types, AnswerInv, [Next]_vars
  PROVE  Finishes /\ alone /\ accepted /\ ~lost => Answered(conf, shown')
<1> SUFFICES ASSUME Finishes, alone, accepted, ~lost PROVE Answered(conf, shown')
  OBVIOUS
<1>1. cmd = "GATT" /\ cmd' = "OTHER" /\ evq' # evq /\ new = NoCommand
  BY DEF Finishes
<1>2. HandlesEvent
  <2>1. ~UNCHANGED vars
    BY <1>1 DEF vars
  <2>2. ~RunsCommand
    BY <1>1 DEF RunsCommand, Read, Write, Notify, LocalOrUnknown, Discover, Scan
  <2>3. \A c \in Command : ~SingleShot(c) /\ ~Receive(c)
    BY <1>1 DEF SingleShot, Receive
  <2>4. ~NcpReboot /\ \A h \in Handle : ~NcpReports(h) /\ ~NcpOpen(h) /\ ~NcpClose(h)
    BY <1>1 DEF NcpReboot, NcpReports, NcpOpen, NcpClose, host
  <2>5. \A h \in Handle :
          /\ \A l \in Local : /\ ~RemoteConfirms(h, l)
                              /\ \A f \in Flags : ~RemoteConfigures(h, l, f)
          /\ \A c \in Characteristic : ~RemoteNotifies(h, c)
    BY <1>1 DEF RemoteConfirms, RemoteConfigures, RemoteNotifies, host
  <2> QED BY <2>1, <2>2, <2>3, <2>4, <2>5 DEF Next
<1> QED BY <1>1, <1>2, OwnEvent

\* A read ends having shown the value that was asked for or an error, and a
\* write at most an error (gatt.c:306-330, 344-375), unless events of another
\* origin meddle or the connection closes, for every set of connections and
\* characteristics and any number of commands.
THEOREM AnswersAreOwn == Spec => OwnAnswer
<1>1. Init => Types /\ ListsInv /\ AnswerInv
  BY InitTypes, InitLists, InitAnswers
<1>2. Types /\ ListsInv /\ AnswerInv /\ [Next]_vars => (Types /\ ListsInv /\ AnswerInv)'
  BY TypeStep, ListsStep, AnswerStep DEF Types, NextTypes
<1>3. Types /\ AnswerInv /\ [Next]_vars
        => [Finishes /\ alone /\ accepted /\ ~lost => Answered(conf, shown')]_vars
  BY EndsOwn
<1> QED BY <1>1, <1>2, <1>3, PTL DEF Spec, OwnAnswer
==============================================================================
