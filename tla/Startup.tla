-------------------------------- MODULE Startup --------------------------------
(***************************************************************************)
(* How processes of the host tool find each other: the first lines of      *)
(* schostd_main (server.c) with the pid file (util.c), and schost_main     *)
(* (client.c), with the two names of sockets in /tmp that are unlinked and *)
(* bound (sock.c).                                                         *)
(*                                                                         *)
(* Any number of daemons and clients may start, one system call at a step, *)
(* and other processes of the machine take pids.  What the daemon does     *)
(* with a command is in Daemon: here it ends at once, or later, or never,  *)
(* and the daemon may wait for the NCP for ever.  Of two daemons that      *)
(* write the pid file at the same time, the last one's number stays.  The  *)
(* flush of the serial port is in Bglib and Modes.                         *)
(***************************************************************************)
EXTENDS Integers, Sequences, FiniteSets

CONSTANTS
  Daemon,     \* starts of schostd
  Client,     \* starts of schost
  Pid,        \* process ids
  Cut,        \* the process id whose digits are the first sizeof(char*) ones
  MaxOthers,  \* bound: starts of other processes
  MaxDeaths   \* bound: daemons killed

ASSUME CutAssumption == Cut \in [Pid -> Pid]
ASSUME BoundsAssumption == MaxOthers \in Nat /\ MaxDeaths \in Nat

\* The contents of the pid file; the name of no socket, the command of no client.
Absent == "absent"
Empty == "empty"
None == "none"
ASSUME SentinelAssumption ==
  /\ Absent \notin Pid /\ Empty \notin Pid
  /\ None \notin Daemon \cup Client

VARIABLES
  pc,       \* a daemon: the call it is about to make
  pid,      \* its process id
  got,      \* what it has read from the pid file
  echoes,   \* how often it has still to write the pid file
  inbox,    \* datagrams waiting at its socket, each named for its client
  running,  \* the client whose command runs
  stuck,    \* the daemons that wait for a response that will not come
  endless,  \* the daemons whose running command waits for what will not come
  file,     \* SCHOST_PID_FILE
  server,   \* whose socket SCHOST_SERVER_USOCK names
  step,     \* a client: the call it is about to make
  ends,     \* empty datagrams waiting at its socket
  client,   \* whose socket SCHOST_CLIENT_USOCK names
  others,   \* pids of other processes
  overlap,  \* history: a daemon started while another was starting
  company,  \* history: daemons that were not alone when they started
  torn,     \* history: a daemon died while it wrote the pid file
  reused,   \* history: the pid in the file was given to another process
  cut,      \* history: a daemon's pid was not the one that is read
  lost,     \* history: clients whose daemon died, or whose name was taken over
  starts, deaths

fate    == <<stuck, endless>>
daemons == <<pc, pid, got, echoes, inbox, running, fate>>
clients == <<step, ends, client>>
past    == <<overlap, company, torn, reused, cut, lost>>
bounds  == <<starts, deaths>>
vars    == <<daemons, file, server, clients, others, past, bounds>>

Init ==
  /\ pc = [d \in Daemon |-> "off"] /\ pid = [d \in Daemon |-> Absent]
  /\ got = [d \in Daemon |-> Absent] /\ echoes = [d \in Daemon |-> 0]
  /\ inbox = [d \in Daemon |-> <<>>] /\ running = [d \in Daemon |-> None]
  /\ stuck = {} /\ endless = {}
  /\ file = Absent /\ server = None
  /\ step = [c \in Client |-> "off"] /\ ends = [c \in Client |-> 0]
  /\ client = None
  /\ others = {}
  /\ overlap = FALSE /\ company = {} /\ torn = FALSE /\ reused = FALSE /\ cut = FALSE
  /\ lost = {}
  /\ starts = 0 /\ deaths = 0

-----------------------------------------------------------------------------
(* Processes *)

Steps == {"check", "read", "probe", "truncate", "write", "unlink", "bind"}
Starting(d) == pc[d] \in Steps
Serves(d) == pc[d] = "serve"
Alive(d) == Starting(d) \/ Serves(d)
Pids == {pid[d] : d \in {e \in Daemon : Alive(e)}} \cup others

\* The number that a check of the file will look for is given to a new process.
Reuses(p) == file \in Pid /\ p = Cut[file]

Launch(d, p) ==
  /\ pc[d] = "off" /\ p \notin Pids
  /\ pc' = [pc EXCEPT ![d] = "check"]
  /\ pid' = [pid EXCEPT ![d] = p]
  /\ overlap' = (overlap \/ \E e \in Daemon : Starting(e))
  /\ company' = company \cup IF \E e \in Daemon : Alive(e)
                             THEN {d} \cup {e \in Daemon : Starting(e)} ELSE {}
  /\ reused' = (reused \/ Reuses(p))
  /\ cut' = (cut \/ Cut[p] # p)
  /\ UNCHANGED <<got, echoes, inbox, running, fate, file, server, clients,
                 others, torn, lost, bounds>>

OtherStarts(p) ==
  /\ p \notin Pids /\ starts < MaxOthers
  /\ starts' = starts + 1
  /\ others' = others \cup {p}
  /\ reused' = (reused \/ Reuses(p))
  /\ UNCHANGED <<daemons, file, server, clients, overlap, company, torn, cut,
                 lost, deaths>>

\* A command that the daemon holds dies with it; the client that waits may not
\* be the one that sent it.
Holds(d) == inbox[d] # <<>> \/ running[d] # None
Waiting == {c \in Client : step[c] = "wait"}

Goes(d, next) == pc' = [pc EXCEPT ![d] = next]

\* What a process knew is gone with it.
Ends(d, how) ==
  /\ Goes(d, how)
  /\ pid' = [pid EXCEPT ![d] = Absent] /\ got' = [got EXCEPT ![d] = Absent]
  /\ echoes' = [echoes EXCEPT ![d] = 0]

\* A daemon leaves its pid file and the name of its socket behind.
Dies(d) ==
  /\ Alive(d) /\ deaths < MaxDeaths
  /\ deaths' = deaths + 1
  /\ Ends(d, "killed")
  /\ torn' = (torn \/ pc[d] = "write")
  /\ lost' = lost \cup IF Holds(d) THEN Waiting ELSE {}
  /\ inbox' = [inbox EXCEPT ![d] = <<>>]
  /\ running' = [running EXCEPT ![d] = None]
  /\ stuck' = stuck \ {d} /\ endless' = endless \ {d}
  /\ UNCHANGED <<file, server, clients, others, overlap, company, reused, cut,
                 starts>>

-----------------------------------------------------------------------------
(* schostd_main up to the loop *)

Echoes(d, n) == echoes' = [echoes EXCEPT ![d] = n]

\* process_running: access() of the file.
Check(d) ==
  /\ pc[d] = "check"
  /\ \/ file = Absent /\ Goes(d, "truncate") /\ Echoes(d, 1)
     \/ file # Absent /\ Goes(d, "read") /\ UNCHANGED echoes
  /\ UNCHANGED <<pid, got, inbox, running, fate, file, server, clients, others,
                 past, bounds>>

\* cat() with the size of a pointer.
Read(d) ==
  /\ pc[d] = "read"
  /\ got' = [got EXCEPT ![d] = IF file = Empty THEN Empty ELSE Cut[file]]
  /\ Goes(d, "probe")
  /\ UNCHANGED <<pid, echoes, inbox, running, fate, file, server, clients,
                 others, past, bounds>>

\* Slip: the process is not looked for.
ExistsNever(x) == FALSE

\* access() of /proc/<pid>/cmdline; for an empty file that is /proc/cmdline.
Exists(x) == x = Empty \/ x \in Pids

\* A number that is no process: process_running writes the file, and
\* schostd_main writes it again.
Probe(d) ==
  /\ pc[d] = "probe"
  /\ \/ Exists(got[d]) /\ Ends(d, "exited")
     \/ /\ ~Exists(got[d])
        /\ Goes(d, "truncate") /\ Echoes(d, 2)
        /\ got' = [got EXCEPT ![d] = Absent] /\ UNCHANGED pid
  /\ UNCHANGED <<inbox, running, fate, file, server, clients, others, past,
                 bounds>>

\* echo(): fopen() empties the file, fclose() writes it.
Truncate(d) ==
  /\ pc[d] = "truncate"
  /\ file' = Empty
  /\ Goes(d, "write")
  /\ UNCHANGED <<pid, got, echoes, inbox, running, fate, server, clients,
                 others, past, bounds>>

\* Slips: the file stays empty; one write too many.
WritesNothing(d) == Empty
LastNever(d) == echoes[d] = 0

Writes(d) == pid[d]
Last(d) == echoes[d] = 1

Write(d) ==
  /\ pc[d] = "write"
  /\ file' = Writes(d)
  /\ Echoes(d, echoes[d] - 1)
  /\ Goes(d, IF Last(d) THEN "unlink" ELSE "truncate")
  /\ UNCHANGED <<pid, got, inbox, running, fate, server, clients, others,
                 past, bounds>>

\* Slip: a stale name is left in place.
UnlinkNot == server

\* unlink() of the name, whoever has it.
Unlinked == None

Unlink(d) ==
  /\ pc[d] = "unlink"
  /\ server' = Unlinked
  /\ Goes(d, "bind")
  /\ UNCHANGED <<pid, got, echoes, inbox, running, fate, file, clients,
                 others, past, bounds>>

\* bind_socket() fails for a name that exists.
Bind(d) ==
  /\ pc[d] = "bind"
  /\ \/ /\ server = None /\ server' = d
        /\ Goes(d, "serve") /\ UNCHANGED <<pid, got, echoes>>
     \/ server # None /\ Ends(d, "exited") /\ UNCHANGED server
  /\ UNCHANGED <<inbox, running, fate, file, clients, others, past, bounds>>

-----------------------------------------------------------------------------
(* The loop of schostd_main, as far as clients are concerned *)

\* Slip: a command that has ended is not reported.
SendsNothing == UNCHANGED ends

\* send_socket() of the empty datagram, to the name all clients have.
SendsEnd ==
  ends' = [c \in Client |-> IF c = client /\ step[c] # "gone" THEN ends[c] + 1
                            ELSE ends[c]]

\* A daemon that waits for the NCP hears nobody.
Hears(d) == Serves(d) /\ d \notin stuck

\* A command that ends at once; a single-shot one stops the running command,
\* one that is not cleans up after it.
EndsAtOnce(d) ==
  /\ Hears(d) /\ inbox[d] # <<>>
  /\ inbox' = [inbox EXCEPT ![d] = Tail(@)]
  /\ running' = [running EXCEPT ![d] = None]
  /\ endless' = endless \ {d}
  /\ SendsEnd
  /\ UNCHANGED <<pc, pid, got, echoes, stuck, file, server, step, client,
                 others, past, bounds>>

\* UPGRADE without its image goes on, too, and tells the client that it is over
\* (upgrade.c:79-87).
Continues(d) ==
  /\ Hears(d) /\ inbox[d] # <<>>
  /\ inbox' = [inbox EXCEPT ![d] = Tail(@)]
  /\ running' = [running EXCEPT ![d] = Head(inbox[d])]
  /\ endless' = endless \ {d}
  /\ SendsEnd \/ UNCHANGED ends
  /\ UNCHANGED <<pc, pid, got, echoes, stuck, file, server, step, client,
                 others, past, bounds>>

\* An event ends the running command.
EndsLater(d) ==
  /\ Hears(d) /\ running[d] # None /\ d \notin endless
  /\ running' = [running EXCEPT ![d] = None]
  /\ SendsEnd
  /\ UNCHANGED <<pc, pid, got, echoes, inbox, fate, file, server, step, client,
                 others, past, bounds>>

\* The event that would end it will not come: its timer is cleared at a boot
\* (server.c:108), the NCP refuses a write (gatt.c:239), the image is not there
\* (upgrade.c:81).  See ClientTerminated, CommandEnds, TestEnds and UpgradeOver
\* of the modules that say what ends a command and when.
Stalls(d) ==
  /\ Hears(d) /\ running[d] # None
  /\ endless' = endless \cup {d}
  /\ UNCHANGED <<pc, pid, got, echoes, inbox, running, stuck, file, server,
                 clients, others, past, bounds>>

\* gecko_wait_response has no timeout (CommandAnswered of Bglib); it shows only
\* when there is a command.
Blocks(d) ==
  /\ Hears(d) /\ Holds(d)
  /\ stuck' = stuck \cup {d}
  /\ UNCHANGED <<pc, pid, got, echoes, inbox, running, endless, file, server,
                 clients, others, past, bounds>>

-----------------------------------------------------------------------------
(* schost_main *)

ClientGoes(c, next) == step' = [step EXCEPT ![c] = next]

\* The name is taken from a client that has it.
ClientUnlink(c) ==
  /\ step[c] = "off"
  /\ client' = None
  /\ lost' = lost \cup ({client} \ {None})
  /\ ClientGoes(c, "bind")
  /\ UNCHANGED <<daemons, file, server, ends, others, overlap, company, torn,
                 reused, cut, bounds>>

ClientBind(c) ==
  /\ step[c] = "bind"
  /\ \/ client = None /\ client' = c /\ ClientGoes(c, "send")
     \/ client # None /\ ClientGoes(c, "gone") /\ UNCHANGED client
  /\ UNCHANGED <<daemons, file, server, ends, others, past, bounds>>

\* sendmsg() fails when no process has the name, or the one that had it is gone.
ClientSend(c) ==
  /\ step[c] = "send"
  /\ \/ \E d \in Daemon :
          /\ server = d /\ Serves(d)
          /\ inbox' = [inbox EXCEPT ![d] = Append(@, c)]
          /\ ClientGoes(c, "wait")
     \/ /\ ~\E d \in Daemon : server = d /\ Serves(d)
        /\ ClientGoes(c, "gone")
        /\ UNCHANGED inbox
  /\ UNCHANGED <<pc, pid, got, echoes, running, fate, file, server, ends,
                 client, others, past, bounds>>

\* The first empty datagram ends the client.
ClientEnds(c) ==
  /\ step[c] = "wait" /\ ends[c] > 0
  /\ ends' = [ends EXCEPT ![c] = 0]
  /\ ClientGoes(c, "gone")
  /\ UNCHANGED <<daemons, file, server, client, others, past, bounds>>

-----------------------------------------------------------------------------
StartStep(d) == \/ Check(d) \/ Read(d) \/ Probe(d) \/ Truncate(d) \/ Write(d)
                \/ Unlink(d) \/ Bind(d)
Receives(d) == EndsAtOnce(d) \/ Continues(d)
ClientStep(c) == ClientBind(c) \/ ClientSend(c) \/ ClientEnds(c)

Next == \/ \E d \in Daemon : \/ \E p \in Pid : Launch(d, p)
                             \/ Dies(d) \/ StartStep(d)
                             \/ Receives(d) \/ EndsLater(d) \/ Stalls(d) \/ Blocks(d)
        \/ \E c \in Client : ClientUnlink(c) \/ ClientStep(c)
        \/ \E p \in Pid : OtherStarts(p)

Spec == Init /\ [][Next]_vars

\* A process that has started goes on.  A daemon that does not wait for the NCP
\* comes to its socket, and to the event that ends a command, if there is one to
\* come: Blocks and Stalls are free to happen at any time before.
Fairness ==
  /\ \A d \in Daemon : /\ WF_vars(StartStep(d)) /\ WF_vars(Receives(d))
                       /\ WF_vars(EndsLater(d))
  /\ \A c \in Client : WF_vars(ClientStep(c))

FairSpec == Spec /\ Fairness

-----------------------------------------------------------------------------
(* Properties *)

\* Every variable has its type.
TypeOK ==
  /\ pc \in [Daemon -> Steps \cup {"off", "serve", "exited", "killed"}]
  /\ pid \in [Daemon -> Pid \cup {Absent}]
  /\ got \in [Daemon -> Pid \cup {Absent, Empty}]
  /\ echoes \in [Daemon -> 0 .. 2]
  /\ inbox \in [Daemon -> Seq(Client)]
  /\ running \in [Daemon -> Client \cup {None}]
  /\ stuck \in SUBSET Daemon /\ endless \in SUBSET Daemon
  /\ file \in Pid \cup {Absent, Empty}
  /\ server \in Daemon \cup {None}
  /\ step \in [Client -> {"off", "bind", "send", "wait", "gone"}]
  /\ ends \in [Client -> Nat]
  /\ client \in Client \cup {None}
  /\ others \in SUBSET Pid
  /\ {overlap, torn, reused, cut} \subseteq BOOLEAN
  /\ company \in SUBSET Daemon /\ lost \in SUBSET Client
  /\ starts \in 0 .. MaxOthers /\ deaths \in 0 .. MaxDeaths

\* A daemon that serves is the only one, and clients find it (server.c:51-62,
\* util.c:327-348): whatever daemons were started and killed before it, the pid
\* file keeps others from taking its name and its serial port.  Not so when two
\* daemons start at the same time, or a pid has more digits than a pointer has
\* bytes.
OneServes ==
  ~overlap /\ ~cut => \A d \in Daemon : Serves(d) => server = d

\* A daemon that is started while no other is there comes to serve, whatever an
\* earlier one has left behind (util.c:340-343, server.c:56).  Not so when it is
\* killed, when the earlier one died while it wrote the pid file, since an empty
\* file looks like a running process, when its pid was given to another process,
\* which may be the new daemon itself, or was cut.
StartsAlone ==
  \A d \in Daemon :
    Starting(d) ~> \/ Serves(d) \/ d \in company \/ pc[d] = "killed"
                   \/ torn \/ reused \/ cut

\* The daemon has done with the datagrams of its clients.
Idle(d) == inbox[d] = <<>>

\* A client that waits for the end of a command ends (client.c:32-47,
\* server.c:141-214), also when other clients' commands displace its own and when
\* another daemon is started meanwhile.  Not so when its daemon dies or waits for
\* a response that does not come (gecko_bglib.c:106-115), when the command that
\* runs in the end waits for an event that does not come (Stalls), or when
\* another client is started and takes over the name of its socket.
WaitEnds ==
  \A c \in Client :
    step[c] = "wait" ~> \/ step[c] # "wait" \/ c \in lost
                        \/ \E d \in stuck : Holds(d)
                        \/ \E d \in endless : Idle(d)
=============================================================================
