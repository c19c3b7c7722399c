----------------------------- MODULE StartupProofs -----------------------------
(***************************************************************************)
(* Proofs about Startup, for every number of daemons, clients and process  *)
(* ids and for every bound: types, and that a daemon that serves is alone  *)
(* unless two of them start at the same time or a pid is cut.              *)
(***************************************************************************)
EXTENDS Startup, TLAPS

\* The parts of TypeOK.
DaemonsOK == /\ pc \in [Daemon -> Steps \cup {"off", "serve", "exited", "killed"}]
             /\ pid \in [Daemon -> Pid \cup {Absent}]
             /\ got \in [Daemon -> Pid \cup {Absent, Empty}]
             /\ echoes \in [Daemon -> 0 .. 2]
QueuesOK == /\ inbox \in [Daemon -> Seq(Client)]
            /\ running \in [Daemon -> Client \cup {None}]
            /\ stuck \in SUBSET Daemon /\ endless \in SUBSET Daemon
NamesOK == /\ file \in Pid \cup {Absent, Empty}
           /\ server \in Daemon \cup {None}
ClientsOK == /\ step \in [Client -> {"off", "bind", "send", "wait", "gone"}]
             /\ ends \in [Client -> Nat]
             /\ client \in Client \cup {None}
PastOK == /\ overlap \in BOOLEAN /\ torn \in BOOLEAN
          /\ reused \in BOOLEAN /\ cut \in BOOLEAN
          /\ company \in SUBSET Daemon /\ lost \in SUBSET Client
          /\ others \in SUBSET Pid
BoundsOK == starts \in 0 .. MaxOthers /\ deaths \in 0 .. MaxDeaths

\* The file is written only while a write is due, with the number of a process,
\* and read only if it is there.
FileOK == \A d \in Daemon :
            /\ pc[d] \in {"truncate", "write"} => echoes[d] \in 1 .. 2
            /\ pc[d] = "read" => file # Absent
            /\ pc[d] \in Steps => pid[d] \in Pid

Types == /\ DaemonsOK /\ QueuesOK /\ NamesOK /\ ClientsOK /\ PastOK /\ BoundsOK
         /\ FileOK

\* The parts make up TypeOK.
LEMMA TypesAreTypes == Types => TypeOK
  BY DEF Types, DaemonsOK, QueuesOK, NamesOK, ClientsOK, PastOK, BoundsOK, TypeOK

-----------------------------------------------------------------------------
(* Types *)

\* Every step keeps them.
LEMMA TypesHold == Spec => []Types
<1>1. Init => Types
  <2> SUFFICES ASSUME Init PROVE Types
    OBVIOUS
  <2> USE DEF Init
  <2>1. DaemonsOK
    BY DEF DaemonsOK, Steps
  <2>2. QueuesOK /\ NamesOK /\ ClientsOK
    BY DEF QueuesOK, NamesOK, ClientsOK
  <2>3. PastOK
    BY DEF PastOK
  <2>4. BoundsOK
    BY BoundsAssumption DEF BoundsOK
  <2>5. FileOK
    BY DEF FileOK, Steps
  <2> QED  BY <2>1, <2>2, <2>3, <2>4, <2>5 DEF Types
<1>2. Types /\ [Next]_vars => Types'
  <2> SUFFICES ASSUME Types, [Next]_vars PROVE Types'
    OBVIOUS
  <2> USE DEF Types
  <2>1. ASSUME NEW d \in Daemon, NEW p \in Pid, Launch(d, p) PROVE Types'
    <3> USE <2>1 DEF Launch, fate, clients, bounds
    <3>1. DaemonsOK'
      BY DEF DaemonsOK, Steps
    <3>2. QueuesOK' /\ NamesOK' /\ ClientsOK' /\ BoundsOK'
      BY DEF QueuesOK, NamesOK, ClientsOK, BoundsOK
    <3>3. company' \in SUBSET Daemon
      BY DEF PastOK
    <3>4. overlap' \in BOOLEAN /\ reused' \in BOOLEAN /\ cut' \in BOOLEAN
      BY Zenon DEF PastOK
    <3>5. PastOK'
      BY <3>3, <3>4 DEF PastOK
    <3>6. FileOK'
      BY DEF DaemonsOK, FileOK, Steps
    <3> QED  BY <3>1, <3>2, <3>5, <3>6
  <2>2. ASSUME NEW d \in Daemon, Dies(d) PROVE Types'
    <3> USE <2>2 DEF Dies, Ends, Goes, clients
    <3>1. DaemonsOK'
      BY DEF DaemonsOK, Steps
    <3>2. QueuesOK' /\ NamesOK' /\ ClientsOK'
      BY DEF QueuesOK, NamesOK, ClientsOK
    <3>3. BoundsOK'
      BY BoundsAssumption DEF BoundsOK
    <3>4. torn' \in BOOLEAN
      BY Zenon DEF PastOK
    <3>5. PastOK'
      BY <3>4 DEF PastOK, Waiting
    <3>6. FileOK'
      BY DEF DaemonsOK, FileOK, Steps
    <3> QED  BY <3>1, <3>2, <3>3, <3>5, <3>6
  <2>3. ASSUME NEW d \in Daemon, StartStep(d) PROVE Types'
    <3>1. QueuesOK' /\ ClientsOK' /\ PastOK' /\ BoundsOK'
      BY <2>3 DEF StartStep, Check, Read, Probe, Truncate, Write, Unlink, Bind,
                  fate, clients, past, bounds, QueuesOK, ClientsOK, PastOK, BoundsOK
    <3>2. DaemonsOK' /\ NamesOK' /\ FileOK'
      <4> USE SentinelAssumption DEF DaemonsOK, NamesOK, FileOK, Steps, Goes, Echoes, Ends
      <4>1. CASE Check(d)
        BY <4>1 DEF Check
      <4>2. CASE Read(d)
        BY <4>2, CutAssumption DEF Read
      <4>3. CASE Probe(d)
        BY <4>3 DEF Probe
      <4>4. CASE Truncate(d)
        <5>1. file' = Empty /\ Empty # Absent
          BY <4>4 DEF Truncate, Empty, Absent
        <5> QED  BY <4>4, <5>1 DEF Truncate
      <4>5. CASE Write(d)
        <5>1. /\ pc' = [pc EXCEPT ![d] = IF echoes[d] = 1 THEN "unlink"
                                         ELSE "truncate"]
              /\ echoes' = [echoes EXCEPT ![d] = echoes[d] - 1]
              /\ file' = pid[d]
              /\ UNCHANGED <<pid, got, server>> /\ echoes[d] \in 1 .. 2
          BY <4>5 DEF Write, Writes, Last
        <5>2. pid[d] \in Pid
          BY <4>5 DEF Write
        <5> QED  BY <5>1, <5>2
      <4>6. CASE Unlink(d)
        BY <4>6 DEF Unlink, Unlinked
      <4>7. CASE Bind(d)
        BY <4>7 DEF Bind
      <4> QED  BY <2>3, <4>1, <4>2, <4>3, <4>4, <4>5, <4>6, <4>7 DEF StartStep
    <3> QED  BY <3>1, <3>2
  <2>4. ASSUME NEW d \in Daemon,
               Receives(d) \/ EndsLater(d) \/ Stalls(d) \/ Blocks(d)
        PROVE  Types'
    <3> USE <2>4 DEF Receives, EndsAtOnce, Continues, EndsLater, Stalls, Blocks,
                     SendsEnd, fate, clients, past, bounds
    <3>1. DaemonsOK' /\ NamesOK' /\ PastOK' /\ BoundsOK' /\ FileOK'
      BY DEF DaemonsOK, NamesOK, PastOK, BoundsOK, FileOK
    <3>2. ClientsOK'
      BY DEF ClientsOK
    <3>3. QueuesOK'
      <4>1. inbox[d] # <<>> => Head(inbox[d]) \in Client /\ Tail(inbox[d]) \in Seq(Client)
        BY DEF QueuesOK
      <4> QED  BY <4>1 DEF QueuesOK
    <3> QED  BY <3>1, <3>2, <3>3
  <2>5. ASSUME NEW c \in Client, ClientUnlink(c) \/ ClientStep(c) PROVE Types'
    <3> USE <2>5 DEF ClientUnlink, ClientStep, ClientBind, ClientSend, ClientEnds,
                     ClientGoes, fate, daemons, past, bounds
    <3>1. DaemonsOK' /\ NamesOK' /\ BoundsOK' /\ FileOK'
      BY DEF DaemonsOK, NamesOK, BoundsOK, FileOK
    <3>2. ClientsOK'
      BY DEF ClientsOK
    <3>3. QueuesOK'
      <4>1. \A e \in Daemon : Append(inbox[e], c) \in Seq(Client)
        BY DEF QueuesOK
      <4> QED  BY <4>1 DEF QueuesOK
    <3>4. PastOK'
      BY DEF PastOK, ClientsOK
    <3> QED  BY <3>1, <3>2, <3>3, <3>4
  <2>6. ASSUME NEW p \in Pid, OtherStarts(p) PROVE Types'
    <3> USE <2>6 DEF OtherStarts, fate, daemons, clients
    <3>1. DaemonsOK' /\ QueuesOK' /\ NamesOK' /\ ClientsOK' /\ FileOK'
      BY DEF DaemonsOK, QueuesOK, NamesOK, ClientsOK, FileOK
    <3>2. BoundsOK'
      BY BoundsAssumption DEF BoundsOK
    <3>3. reused' \in BOOLEAN
      BY Zenon DEF PastOK
    <3>4. PastOK'
      BY <3>3 DEF PastOK
    <3> QED  BY <3>1, <3>2, <3>4
  <2>7. CASE UNCHANGED vars
    BY <2>7 DEF vars, fate, daemons, clients, past, bounds, DaemonsOK, QueuesOK,
                NamesOK, ClientsOK, PastOK, BoundsOK, FileOK
  <2> QED
    BY <2>1, <2>2, <2>3, <2>4, <2>5, <2>6, <2>7 DEF Next
<1> QED  BY <1>1, <1>2, PTL DEF Spec

\* Every variable has its type.
THEOREM TypeCorrect == Spec => []TypeOK
  BY TypesHold, TypesAreTypes, PTL

-----------------------------------------------------------------------------
(* One daemon *)

\* A daemon that has found no other in the pid file.
Passed(d) == pc[d] \in {"truncate", "write", "unlink", "bind", "serve"}

\* At most one daemon starts and at most one has passed the check; from its
\* last write on, the file has the number of the latter, and one that is about
\* to look for a process looks for the one that serves.
Alone ==
  /\ \A d, e \in Daemon : Starting(d) /\ Starting(e) => d = e
  /\ \A d, e \in Daemon : Passed(d) /\ Passed(e) => d = e
  /\ \A d \in Daemon : Alive(d) => pid[d] \in Pid /\ Cut[pid[d]] = pid[d]
  /\ \A d \in Daemon : pc[d] \in {"unlink", "bind", "serve"} => file = pid[d]
  /\ \A d, e \in Daemon : pc[d] = "probe" /\ Serves(e) => got[d] = pid[e]
  /\ \A d \in Daemon : Serves(d) => server = d
OneInv == ~overlap /\ ~cut => Alone

\* A daemon that serves is the only one, and clients find it, unless two
\* daemons start at the same time or a pid is cut.
THEOREM ServesAlone == Spec => []OneServes
<1>1. Init => OneInv
  BY DEF Init, OneInv, Alone, Starting, Serves, Alive, Passed, Steps
<1>2. Types /\ OneInv /\ [Next]_vars => OneInv'
  <2> SUFFICES ASSUME Types, OneInv, [Next]_vars, ~overlap', ~cut' PROVE Alone'
    BY DEF OneInv
  <2>0. ~overlap /\ ~cut
    BY DEF Types, PastOK, Next, Launch, Dies, StartStep, Check, Read, Probe,
           Truncate, Write, Unlink, Bind, Receives, EndsAtOnce, Continues,
           EndsLater, Stalls, Blocks, ClientUnlink, ClientStep, ClientBind,
           ClientSend, ClientEnds, OtherStarts, vars, past
  <2>. USE <2>0 DEF OneInv, Types, DaemonsOK, Alone
  <2>1. ASSUME NEW d \in Daemon, NEW p \in Pid, Launch(d, p) PROVE Alone'
    <3> USE <2>1 DEF Launch, Starting, Serves, Alive, Passed, Steps
    <3>1. /\ pc' = [pc EXCEPT ![d] = "check"] /\ pid' = [pid EXCEPT ![d] = p]
          /\ UNCHANGED <<got, file, server>>
      OBVIOUS
    <3>2. Cut[p] = p /\ \A e \in Daemon : ~Starting(e)
      OBVIOUS
    <3>3. /\ \A e \in Daemon : e # d => pc'[e] = pc[e] /\ pid'[e] = pid[e]
          /\ pc'[d] = "check" /\ pid'[d] = p
      BY <3>1
    <3> HIDE <2>1 DEF Launch
    <3>4. \A e, f \in Daemon : Starting(e)' /\ Starting(f)' => e = f
      BY <3>2, <3>3
    <3>5. \A e, f \in Daemon : Passed(e)' /\ Passed(f)' => e = f
      BY <3>3
    <3>6. \A e \in Daemon : Alive(e)' => pid'[e] \in Pid /\ Cut[pid'[e]] = pid'[e]
      BY <3>2, <3>3
    <3>7. \A e \in Daemon : pc'[e] \in {"unlink", "bind", "serve"} => file' = pid'[e]
      BY <3>1, <3>3
    <3>8. /\ \A e, f \in Daemon : pc'[e] = "probe" /\ Serves(f)' => got'[e] = pid'[f]
          /\ \A e \in Daemon : Serves(e)' => server' = e
      BY <3>1, <3>3
    <3> QED  BY <3>4, <3>5, <3>6, <3>7, <3>8
  <2>2. ASSUME NEW d \in Daemon, Dies(d) PROVE Alone'
    BY <2>2 DEF Dies, Ends, Goes, Starting, Serves, Alive, Passed, Steps
  <2>3. ASSUME NEW d \in Daemon, StartStep(d) PROVE Alone'
    <3> USE SentinelAssumption DEF Goes, Echoes, Starting, Serves, Alive, Passed, Steps
    <3>1. CASE Check(d)
      BY <3>1 DEF Check
    <3>2. CASE Read(d)
      BY <3>2 DEF Read
    <3>3. CASE Probe(d)
      BY <3>3 DEF Probe, Ends, Exists, Pids
    <3>4. CASE Truncate(d)
      BY <3>4 DEF Truncate
    <3>5. CASE Write(d)
      BY <3>5 DEF Write, Writes
    <3>6. CASE Unlink(d)
      BY <3>6 DEF Unlink
    <3>7. CASE Bind(d)
      BY <3>7 DEF Bind, Ends
    <3> QED  BY <2>3, <3>1, <3>2, <3>3, <3>4, <3>5, <3>6, <3>7 DEF StartStep
  <2>4. ASSUME UNCHANGED <<pc, pid, got, file, server>> PROVE Alone'
    BY <2>4 DEF Starting, Serves, Alive, Passed
  <2> QED
    BY <2>1, <2>2, <2>3, <2>4
       DEF Next, Receives, EndsAtOnce, Continues, EndsLater, Stalls,
           Blocks, ClientUnlink, ClientStep, ClientBind, ClientSend, ClientEnds,
           OtherStarts, vars, daemons
<1>3. OneInv => OneServes
  BY DEF OneInv, Alone, OneServes
<1> QED  BY <1>1, <1>2, <1>3, TypesHold, PTL DEF Spec
=============================================================================
