------------------------------- MODULE Dnssd -------------------------------
(***************************************************************************)
(* lib/dnssd: discovery of services on the local network.  DNSSD_start and *)
(* DNSSD_refresh list the addresses of the network interfaces, keep one    *)
(* socket for each, put it in the event loop and send one discovery on it. *)
(* Answers are read by threads of the event loop, which ask further for    *)
(* every service found and report hosts, services and addresses.           *)
(*                                                                         *)
(* The list of sockets only grows, so a socket is named by its place.      *)
(* Flags are changed under the mutex of the default signal.                *)
(***************************************************************************)
EXTENDS MdnsNames, FiniteSets

CONSTANTS Addrs,        \* addresses of network interfaces
          Interface,    \* their properties: family, flags...
          Threads,      \* threads that use the functions
          Hosts,        \* machines that answer
          Scenes,       \* [callers: SUBSET Threads, pool: Nat,
                        \*  hosts: SUBSET Hosts, addrs: SUBSET Addrs]
          Answers,      \* [Hosts -> [services: sequence, records: sequence]]
          Selected,     \* services for which cb_select is 1
          MaxCalls,     \* bound: calls of DNSSD_start and DNSSD_refresh
          MaxFaults     \* bound: empty datagrams, and errors of a socket

\* Where a caller is in the functions of dnssd.c; a caller that adds a socket is
\* at the address of it.
Stages == {"new", "fill", "signal", "idle", "lock", "scan", "giveup", "walk", "isopen", "open",
           "opened", "error", "watch", "watched", "send", "sent", "next"}

\* The records that are reported, to the callback of their kind.
Kinds == {"ptr", "srv", "addr"}

ASSUME SceneAssumption ==
    /\ IsFiniteSet(Threads)
    /\ \A s \in Scenes : s.callers \subseteq Threads /\ s.hosts \subseteq Hosts
ASSUME AddrAssumption == Addrs \cap Stages = {}
\* A record that is cut short has the kind "cut"; a text is any text.
ASSUME AnswerAssumption == \A h \in Hosts :
    /\ Answers[h].services \in Seq(STRING)
    /\ Answers[h].records \in Seq([kind : Kinds \cup {"cut"}, text : Seq(STRING)])

VARIABLES scene,        \* who calls, how many threads the event loop has, who is
                        \* on the network, which addresses there are; never changes
          refcount,     \* how often DNSSD_init was called
          manager,      \* how far DNSSD_init has filled the manager
          locked,       \* manager.status & DNSSD_MANAGER_FLAG_LOCK_MSOCKETS
          stuck,        \* a DNSSD_finish has kept the mutex of the default signal
          crashed,      \* EVENT_signal_lock got no signal
          msockets,     \* manager.msockets
          fds,          \* open descriptors
          present,      \* addresses getifaddrs gives
          pc, todo, at, \* of each caller: place, addresses to add, socket
          called,       \* number of calls so far
          asked,        \* questions on the network
          inbox,        \* datagrams to be read, for each descriptor
          lost,         \* history: descriptors whose question got lost
          faults,       \* number of faults so far
          told          \* history: what the callbacks got

manage == <<scene, refcount, manager>>
callers == <<pc, todo, at, called>>
network == <<asked, inbox, lost, faults, told>>
dnssdvars == <<manage, locked, stuck, crashed, msockets, fds, present, callers, network>>

Fds == 1 .. Cardinality(Addrs) * MaxCalls
NoFd == 0

DnssdInit ==
    /\ scene \in Scenes
    /\ refcount = 0 /\ manager = "none"
    /\ locked = FALSE /\ stuck = FALSE /\ crashed = FALSE
    /\ msockets = <<>> /\ fds = {}
    /\ present = {}
    /\ pc = [c \in Threads |-> "new"]
    /\ todo = [c \in Threads |-> {}]
    /\ at = [c \in Threads |-> 0]
    /\ called = 0
    /\ asked = {} /\ inbox = [f \in Fds |-> <<>>] /\ lost = {} /\ faults = 0
    /\ told = {}

-----------------------------------------------------------------------------
(* Starting and stopping.                                                  *)

Goto(c, place) == pc' = [pc EXCEPT ![c] = place]

\* DNSSD_init: only the first caller fills the manager; another one returns
\* before that is done.
DNSSD_init(c) ==
    /\ pc[c] = "new" /\ ~stuck
    /\ refcount' = refcount + 1
    /\ Goto(c, IF refcount = 0 THEN "fill" ELSE "idle")
    /\ UNCHANGED <<scene, manager, locked, stuck, crashed, msockets, fds,
                   present, todo, at, called, network>>

\* manager.start and the others are set before the signal is.
Fill(c) ==
    /\ \/ pc[c] = "fill" /\ manager' = "functions" /\ Goto(c, "signal")
       \/ pc[c] = "signal" /\ manager' = "ready" /\ Goto(c, "idle")
    /\ UNCHANGED <<scene, refcount, locked, stuck, crashed, msockets, fds,
                   present, todo, at, called, network>>

\* DNSSD_finish takes EVENT_signal_lock for having failed when it returns 0: it
\* leaves with the mutex locked and nothing done.  dnssd_manager_finish and
\* MDNS_socket_remove are never called.
DNSSD_finish(c) ==
    /\ pc[c] = "idle" /\ ~stuck
    /\ stuck' = TRUE
    /\ UNCHANGED <<manage, locked, crashed, msockets, fds, present, callers, network>>

\* DNSSD_start and DNSSD_refresh do the same; nothing before the manager is
\* filled (dnssd_manager_start_init).
DNSSD_start(c) ==
    /\ pc[c] = "idle" /\ called < MaxCalls
    /\ manager # "none"
    /\ called' = called + 1
    /\ Goto(c, "lock")
    /\ UNCHANGED <<manage, locked, stuck, crashed, msockets, fds, present, todo, at,
                   network>>

Appear(a) ==
    /\ a \in scene.addrs \ present
    /\ present' = present \cup {a}
    /\ UNCHANGED <<manage, locked, stuck, crashed, msockets, fds, callers, network>>

-----------------------------------------------------------------------------
(* dnssd_manager_get_all_mdns_sockets, first half: the list of sockets.    *)

\* NETWORK_list_network_addrs: the addresses, or getifaddrs fails.
TakeLock(c) ==
    /\ ~stuck /\ ~locked
    /\ locked' = TRUE
    /\ \/ todo' = [todo EXCEPT ![c] = present] /\ Goto(c, "scan")
       \/ todo' = todo /\ Goto(c, "giveup")
    /\ UNCHANGED crashed

\* Mutant: the flag is not waited for.
ScanLockMutant(c) ==
    /\ pc[c] = "lock" /\ manager = "ready"
    /\ todo' = [todo EXCEPT ![c] = present] /\ Goto(c, "scan")
    /\ locked' = TRUE
    /\ UNCHANGED <<manage, stuck, crashed, msockets, fds, present, at, called, network>>

ScanLock(c) ==
    /\ pc[c] = "lock"
    /\ \/ manager = "ready" /\ TakeLock(c)
       \/ manager # "ready" /\ crashed' = TRUE /\ UNCHANGED <<pc, todo, locked>>
    /\ UNCHANGED <<manage, stuck, msockets, fds, present, at, called, network>>

\* MDNS_skip_network_interface_addr
Skip(a) ==
    LET i == Interface[a] IN
    \/ ~i.network
    \/ ~({"up", "multicast"} \subseteq i.flags)
    \/ i.flags \cap {"loopback", "pointopoint"} # {}
    \/ i.family \notin {"inet", "inet6"}
    \/ i.localhost
    \/ i.family = "inet6" /\ i.scope

Listed(a) == \E i \in DOMAIN msockets : msockets[i].addr = a

\* dnssd_add_mdns_socket_cb: first the walk over the list, then the new element.
Compare(c, a) ==
    /\ pc[c] = "scan" /\ a \in todo[c]
    /\ \/ /\ Skip(a) \/ Listed(a)
          /\ todo' = [todo EXCEPT ![c] = @ \ {a}]
          /\ UNCHANGED pc
       \/ /\ ~Skip(a) /\ ~Listed(a)
          /\ todo' = [todo EXCEPT ![c] = {a} \cup @]
          /\ Goto(c, a)
    /\ UNCHANGED <<manage, locked, stuck, crashed, msockets, fds, present, at, called,
                   network>>

NewSocket(a) == [addr |-> a, flags |-> {}, fd |-> NoFd, attached |-> FALSE,
                 watched |-> NoFd, reader |-> "idle"]

\* MDNS_socket_add; without memory there is no socket this time.
MDNS_socket_add(c) ==
    /\ pc[c] \in Addrs
    /\ \/ msockets' = Append(msockets, NewSocket(pc[c]))
       \/ msockets' = msockets
    /\ todo' = [todo EXCEPT ![c] = @ \ {pc[c]}]
    /\ Goto(c, "scan")
    /\ UNCHANGED <<manage, locked, stuck, crashed, fds, present, at, called, network>>

ScanUnlock(c) ==
    /\ ~stuck
    /\ locked' = FALSE
    /\ \/ /\ pc[c] = "scan" /\ todo[c] = {}
          /\ at' = [at EXCEPT ![c] = 1] /\ Goto(c, "walk")
       \/ pc[c] = "giveup" /\ UNCHANGED at /\ Goto(c, "idle")
    /\ UNCHANGED <<manage, stuck, crashed, msockets, fds, present, todo, called, network>>

-----------------------------------------------------------------------------
(* Second half: every socket is opened, watched and asks once.  The walk   *)
(* is not under the lock.                                                  *)

Socket(c) == msockets[at[c]]
Has(c, flag) == flag \in Socket(c).flags
Walks(c, place) == pc[c] = place /\ at[c] \in DOMAIN msockets

\* The test of a flag, and where the walk goes on.
Test(c, place, flag, yes, no) ==
    /\ Walks(c, place)
    /\ Goto(c, IF Has(c, flag) THEN yes ELSE no)
    /\ UNCHANGED <<manage, locked, stuck, crashed, msockets, fds, present, todo, at, called,
                   network>>

TestError(c) == Test(c, "walk", "error", "next", "isopen")

TestOpen(c)  == Test(c, "isopen", "open", "watch", "open")

\* EVENT_signal_set_flag, and on to the next place.
SetFlag(c, place, flag, next) ==
    /\ Walks(c, place) /\ ~stuck
    /\ msockets' = [msockets EXCEPT ![at[c]].flags = @ \cup {flag}]
    /\ Goto(c, next)
    /\ UNCHANGED <<manage, locked, stuck, crashed, fds, present, todo, at, called, network>>

SetFlags(c) ==
    \/ SetFlag(c, "error", "error", "next")
    \/ SetFlag(c, "opened", "open", "watch")
    \/ SetFlag(c, "watched", "eventloop", "send")
    \/ SetFlag(c, "sent", "discovery", "next")

\* mdns_socket_open_ipv4 and _ipv6: a new descriptor, member of the multicast
\* group and bound, or none: what was opened is closed when a call fails.
OpenFamily(family, new) == IF family \in {"inet", "inet6"} THEN {new, NoFd} ELSE {NoFd}

\* MDNS_socket_open: what comes is stored over what was there.
MDNS_socket_open(c) ==
    /\ Walks(c, "open")
    /\ \E fd \in OpenFamily(Interface[Socket(c).addr].family, Cardinality(fds) + 1) :
          /\ fd \in Fds \cup {NoFd}
          /\ fds' = fds \cup ({fd} \ {NoFd})
          /\ msockets' = [msockets EXCEPT ![at[c]].fd = fd]
          /\ Goto(c, IF fd = NoFd THEN "error" ELSE "opened")
    /\ UNCHANGED <<manage, locked, stuck, crashed, present, todo, at, called, network>>

\* MDNS_socket_add_to_eventloop: a second attach fails, as does one without
\* memory.  The descriptor of this moment is the one that is watched, or none: what
\* BEVENT_ctx_add says of it is not looked at.
Attach(c) ==
    \/ UNCHANGED msockets /\ Goto(c, "error")
    \/ /\ ~Socket(c).attached
       /\ \E fd \in {Socket(c).fd, NoFd} :
             msockets' = [msockets EXCEPT ![at[c]].attached = TRUE, ![at[c]].watched = fd]
       /\ Goto(c, "watched")

MDNS_socket_add_to_eventloop(c) ==
    /\ Walks(c, "watch")
    /\ \/ Has(c, "eventloop") /\ UNCHANGED msockets /\ Goto(c, "send")
       \/ ~Has(c, "eventloop") /\ Attach(c)
    /\ UNCHANGED <<manage, locked, stuck, crashed, fds, present, todo, at, called, network>>

Question(fd, name, host) == [fd |-> fd, name |-> name, host |-> host]

\* mdns_multicast_send: the group address of the family of the socket reaches all.
Multicast(fd, name) == {Question(fd, name, h) : h \in scene.hosts}

\* mdns_services_query: _services._dns-sd._udp.local.
ServicesName == "services"

\* mdns_discovery_send, to everybody; when it fails the flag is set as well.
MDNS_discovery_send(c) ==
    /\ Walks(c, "send")
    /\ \/ Has(c, "discovery") /\ Goto(c, "next") /\ UNCHANGED <<asked, lost>>
       \/ /\ ~Has(c, "discovery") /\ Goto(c, "sent")
          /\ \/ /\ Socket(c).fd # NoFd
                /\ asked' = asked \cup Multicast(Socket(c).fd, ServicesName)
                /\ UNCHANGED lost
             \/ lost' = lost \cup {Socket(c).fd} /\ UNCHANGED asked
    /\ UNCHANGED <<manage, locked, stuck, crashed, msockets, fds, present, todo, at, called,
                   inbox, faults, told>>

NextSocket(c) ==
    /\ \/ pc[c] = "next" /\ at' = [at EXCEPT ![c] = @ + 1] /\ Goto(c, "walk")
       \/ /\ pc[c] = "walk" /\ at[c] \notin DOMAIN msockets
          /\ at' = [at EXCEPT ![c] = 0] /\ Goto(c, "idle")
    /\ UNCHANGED <<manage, locked, stuck, crashed, msockets, fds, present, todo, called,
                   network>>

Caller(c) ==
    \/ DNSSD_init(c) \/ Fill(c) \/ DNSSD_finish(c) \/ DNSSD_start(c)
    \/ ScanLock(c) \/ MDNS_socket_add(c) \/ ScanUnlock(c)
    \/ \E a \in Addrs : Compare(c, a)
    \/ TestError(c) \/ TestOpen(c) \/ SetFlags(c) \/ NextSocket(c)
    \/ MDNS_socket_open(c) \/ MDNS_socket_add_to_eventloop(c) \/ MDNS_discovery_send(c)

-----------------------------------------------------------------------------
(* The threads of the event loop.  One thread at most is in the callback   *)
(* of a socket.                                                            *)

Busy == {i \in DOMAIN msockets : msockets[i].reader \notin {"idle", "unserved"}}

Reader(i, from, to) ==
    /\ i \in DOMAIN msockets /\ msockets[i].reader = from
    /\ UNCHANGED <<manage, locked, stuck, crashed, fds, present, callers, lost>>
    /\ msockets' = [msockets EXCEPT ![i].reader = to,
           ![i].flags = CASE to = "recv" -> @ \cup {"read"}
                          [] from = "leave" -> @ \ {"read"}
                          [] OTHER -> @]

\* The descriptor is readable.
Reported(i) == msockets[i].watched # NoFd /\ inbox[msockets[i].watched] # <<>>

\* A thread is free and starts with the socket.
Readable(i) ==
    /\ Reader(i, "idle", "lock")
    /\ Reported(i)
    /\ Cardinality(Busy) < scene.pool
    /\ UNCHANGED <<asked, inbox, faults, told>>

\* No thread starts with it: the job is lost, or taken by another thread than the
\* first that had the socket (PutJob, JobStarts in BEvent), or the loop or its pool
\* was stopped.  The event stays listed, and no job is put for it again ...
NotServed(i) ==
    /\ Reader(i, "idle", "unserved")
    /\ Reported(i)
    /\ UNCHANGED <<asked, inbox, faults, told>>

\* ... before an error of the socket puts one (action_closeerror in BEvent).
ServedAgain(i) ==
    /\ Reader(i, "unserved", "lock")
    /\ faults < MaxFaults /\ faults' = faults + 1
    /\ Cardinality(Busy) < scene.pool
    /\ UNCHANGED <<asked, inbox, told>>

\* mdns_socket_recv_event: lock, read until an empty datagram or an error, unlock.
\* EAGAIN is no reason to leave: the thread asks again and again.
RecvLock(i) ==
    /\ Reader(i, "lock", "recv")
    /\ ~stuck /\ "read" \notin msockets[i].flags
    /\ UNCHANGED <<asked, inbox, faults, told>>

\* Mutant: the callback returns with the flag READ set.
RecvUnlockMutant(i) ==
    /\ i \in DOMAIN msockets /\ msockets[i].reader = "leave"
    /\ msockets' = [msockets EXCEPT ![i].reader = "idle"]
    /\ UNCHANGED <<manage, locked, stuck, crashed, fds, present, callers, network>>

RecvUnlock(i) ==
    /\ Reader(i, "leave", "idle")
    /\ ~stuck
    /\ UNCHANGED <<asked, inbox, faults, told>>

RecvError(i) ==
    /\ Reader(i, "recv", "leave")
    /\ \/ msockets[i].fd = NoFd /\ UNCHANGED faults
       \/ msockets[i].fd # NoFd /\ faults < MaxFaults /\ faults' = faults + 1
    /\ UNCHANGED <<asked, inbox, told>>

\* The datagram is looked at and left where it is, so it is found again by the
\* next thread, and hides what comes behind it.
RecvEmpty(i) ==
    LET fd == msockets[i].fd IN
    /\ Reader(i, "recv", "leave")
    /\ fd # NoFd /\ inbox[fd] # <<>> /\ Head(inbox[fd]) = <<>>
    /\ UNCHANGED <<asked, inbox, faults, told>>

\* mdns_query_recv: records are handed over up to one that is cut short.
Records(datagram) ==
    LET cut == SelectInSeq(datagram, LAMBDA r : r.kind = "cut")
    IN IF cut = 0 THEN datagram ELSE SubSeq(datagram, 1, cut - 1)

\* MDNS_query_callback for a record of the second kind: the callback of the
\* caller gets the names, when there are enough of them.
Count(kind) == IF kind = "addr" THEN 2 ELSE 4
Texts == {record.text : record \in UNION {Range(Answers[h].records) : h \in Hosts}}
Names == [kind \in Kinds |-> [text \in Texts |-> mdns_scan_names(text, Count(kind))]]
ReportOf(record) == [kind |-> record.kind, text |-> record.text,
                   names |-> Names[record.kind][record.text]]

\* mdns_string_compare of the name of the record and that of the discovery.
IsService(record) == record.kind = "service"

Reports(records) == {ReportOf(r) : r \in {x \in Range(records) : ~IsService(x)}}

\* and for one of the first kind: a query for the service found (mdns_query_send).
Queries(fd, records) ==
    UNION {Multicast(fd, r.text) : r \in {x \in Range(records) : IsService(x)
                                                               /\ x.text \in Selected}}

RecvQuery(i) ==
    LET fd == msockets[i].fd
        records == Records(Head(inbox[fd]))
    IN /\ Reader(i, "recv", "recv")
       /\ fd # NoFd /\ inbox[fd] # <<>> /\ Head(inbox[fd]) # <<>>
       /\ inbox' = [inbox EXCEPT ![fd] = Tail(@)]
       /\ told' = told \cup {r \in Reports(records) : r.names # NoNames}
       /\ asked' = asked \cup Queries(fd, records)
       /\ UNCHANGED faults

Receive(i) == \/ Readable(i) \/ RecvLock(i) \/ RecvUnlock(i)
              \/ RecvEmpty(i) \/ RecvQuery(i)

-----------------------------------------------------------------------------
(* The network: a question is answered once or lost; questions and answers *)
(* overtake each other.                                                    *)

ServiceRecord(s) == [kind |-> "service", text |-> s]

Answer(q) ==
    IF q.name = ServicesName THEN [k \in DOMAIN Answers[q.host].services |->
                                     ServiceRecord(Answers[q.host].services[k])]
    ELSE IF q.name \in Range(Answers[q.host].services) THEN Answers[q.host].records
    ELSE <<>>

\* Who has nothing to say does not answer.
Respond(q) ==
    /\ q \in asked
    /\ asked' = asked \ {q}
    /\ inbox' = IF Answer(q) = <<>> THEN inbox
                ELSE [inbox EXCEPT ![q.fd] = Append(@, Answer(q))]
    /\ UNCHANGED <<manage, locked, stuck, crashed, msockets, fds, present, callers, lost,
                   faults, told>>

Lose(q) ==
    /\ q \in asked
    /\ asked' = asked \ {q}
    /\ lost' = lost \cup {q.fd}
    /\ UNCHANGED <<manage, locked, stuck, crashed, msockets, fds, present, callers, inbox,
                   faults, told>>

SendEmpty(fd) ==
    /\ fd \in fds /\ faults < MaxFaults
    /\ faults' = faults + 1
    /\ inbox' = [inbox EXCEPT ![fd] = Append(@, <<>>)]
    /\ UNCHANGED <<manage, locked, stuck, crashed, msockets, fds, present, callers, asked,
                   lost, told>>

DnssdNext ==
    /\ ~crashed
    /\ \/ \E c \in scene.callers : Caller(c)
       \/ \E a \in Addrs : Appear(a)
       \/ \E i \in 1 .. Cardinality(Addrs) : Receive(i) \/ RecvError(i) \/ NotServed(i) \/ ServedAgain(i)
       \/ \E q \in asked : Respond(q) \/ Lose(q)
       \/ \E fd \in fds : SendEmpty(fd)

DnssdSpec == DnssdInit /\ [][DnssdNext]_dnssdvars

\* The threads of the event loop run, one that starts with a readable socket unless
\* that is not served, and the network delivers what it keeps.
DnssdFairness ==
    /\ \A i \in 1 .. Cardinality(Addrs) : WF_dnssdvars(~crashed /\ Receive(i))
    /\ WF_dnssdvars(~crashed /\ \E q \in asked : Respond(q))

DnssdFair == DnssdSpec /\ DnssdFairness

-----------------------------------------------------------------------------
\* One thread calls.
Serial == Cardinality(scene.callers) = 1

\* However many threads start and refresh, and whatever appears meanwhile, there
\* is one socket for an address: the comparison with the list and the new
\* element are under DNSSD_MANAGER_FLAG_LOCK_MSOCKETS (dnssd.c:98).
OneSocketPerAddress == \A i, j \in DOMAIN msockets :
    /\ i # j => msockets[i].addr # msockets[j].addr
    /\ ~Skip(msockets[i].addr)

\* With one thread that calls, every open descriptor is that of one socket, a
\* socket that is in use is attached to the event loop, which watches the descriptor
\* that is read or, when epoll did not take it, nothing, and none is taken for broken
\* that is in use: refresh repeats nothing that was done (dnssd.c:124-160).
DescriptorsOwned == Serial =>
    /\ \A fd \in fds : Cardinality({i \in DOMAIN msockets : msockets[i].fd = fd}) = 1
    /\ \A i \in DOMAIN msockets :
          /\ "open" \in msockets[i].flags => msockets[i].fd \in fds
          /\ "eventloop" \in msockets[i].flags =>
                /\ msockets[i].attached
                /\ msockets[i].watched \in {msockets[i].fd, NoFd}
                /\ "error" \notin msockets[i].flags

\* Sockets are one per address and own what is open.
SocketsOwned == OneSocketPerAddress /\ DescriptorsOwned

Reference == [kind \in Kinds |-> [text \in Texts |-> LastLabels(text, Count(kind))]]

\* What the callbacks get are the last labels of the name in the record, cut before
\* they are unescaped: an octal dot, a double backslash or anything else in a label
\* does not end it.  Of a label with a zero byte they get a part that it begins with.
\* Not claimed of a text with a dot after a single backslash: that does end a label
\* in the code, against mdns-utils.c:61, "keep track which characters are escaped ->
\* especially the dots".
ToldIsLabels == \A r \in told :
    EscapedDots(r.text) = {} => AreLabels(r.names, Reference[r.kind][r.text])

Announced == UNION {Reports(Records(Answers[h].records)) :
                        h \in {x \in scene.hosts : Range(Answers[x].services) \cap Selected # {}}}

\* Hosts are found: once a discovery went out on a socket, and no question on it
\* was lost, every name a host announces gets reported, as long as there is a
\* thread for every socket (a thread does not come back from one,
\* mdns-socket.c:95) and nobody called DNSSD_finish.  Not claimed of a socket epoll
\* did not take, one whose event found no thread, and one with an empty datagram.
HostFound == []<>
    \/ ~Serial \/ stuck
    \/ scene.pool < Cardinality({a \in scene.addrs : ~Skip(a)})
    \/ \A i \in DOMAIN msockets :
          \/ "discovery" \notin msockets[i].flags \/ msockets[i].fd \in lost
          \/ msockets[i].watched = NoFd
          \/ msockets[i].reader = "unserved"
          \/ <<>> \in Range(inbox[msockets[i].fd])
          \/ {r \in Announced : r.names # NoNames} \subseteq told
=============================================================================
