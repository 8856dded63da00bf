# Verification of OSNS_lib

OSNS_lib is a C library of building blocks for network and file system
programs: flag words with wait and wakeup, linked lists with locks, a thread
pool, an event loop on epoll, monitors for system signals and for the mount
table, a start sequence with loadable modules, and helpers for time, paths, io,
sockets, users and service discovery. It has no documentation and no tests;
the source under `src/lib` and its comments are all there is. This directory
holds TLA+ modules that model its core, the TLC runs that check them and
theorems that TLAPS proves about them. Paths below are relative to `src/lib`.

`PROJECT.json` lists the components, runs, theorems and hazards, and maps every
definition that models code to the lines it models.

## 1. Inventory

| component | source | state | operations | interacts with |
|---|---|---|---|---|
| event signal and flags | `event/` | flag words, one mutex and condition variable per signal | lock/unlock a bit, set/unset bits, wait for bits with or without timeout | used by everything below |
| linked lists | `list/` | header, head, tail, elements with `h`, `n`, `p`, and a count | insert before/after, remove, first/last, walk | used by every queue and table |
| list header lock | `list/lock.c` | one word: readers, writer in, writer waiting; owner | read lock, write lock, upgrade, release, with timeout | mount table, hash table rows |
| worker threads | `main/localthreads.c` | job list, FINISH bit, threads | put job, stop, start, the loop of a worker | event loop, signal monitor, start sequence put jobs |
| system signals | `system/signal.c` | bounded queue of events, THREAD bit | read from signalfd, queue, job that calls the user, stop | event loop calls the reader, pool runs the job |
| event loop: descriptors | `eventloop/` | per descriptor: reported events (word and list), owner thread, context | epoll report, queue, job that runs callbacks, detach | pool, flags, lists |
| event loop: start and stop | `eventloop/loop.c`, `backend.c` | START and STOP flags, epoll fd | init, start, wait to start, stop | start sequence |
| mount monitor | `mountinfo/` | two buffers, table of mounts that point into them, THREAD lock, CHANGED flag | called for a change: read, merge, tell; export a mount | event loop, list lock, io buffers |
| start sequence | `osns/start.c`, `osns/modules.c`, `module/` | list of actions and loaded modules with a status | read profile, do all in a job, undo all in the main thread | pool, event loop, dlopen |
| time | `time/` | pairs of seconds and nanoseconds | now, add, subtract, compare, expired | deadlines of all waits |
| paths | `path/` | a window of bytes in an own or a foreign buffer | append, prepend, set, copy, import, filename, compare | module and configuration files |
| dns service discovery | `dnssd/`, `network/address-list.c` | a manager, one socket per address with status flags, what is on the network | init, start, refresh, finish; callbacks for hosts, services and addresses | event loop, flags, io objects |
| sized strings | `datatypes/dstr.c` | pointer, length, and a flag for ownership of the bytes | set, allocate, move, cut at a separator, copy, append, clear | names, paths, mount table |
| LOCKING | `lock/lock.c` | a word, a list of writers | read lock, write lock, upgrade, unlock | skip list |
| hash table, unique ids | `hashtable/` | rows: lists with a header lock | find, add, remove, walk, new id | list lock |
| skip list | `sl/` | lanes over an ordered list, locks per search | find, insert, delete | LOCKING |
| connections, sockets | `connection/`, `socket/` | registered clients, descriptors | listen, accept, connect, close | event loop |
| io | `io/` | objects, buffers | read, write, close | event loop, mount monitor |
| role, options, pid file, fork | `osns/`, `pid/`, `system/fork.c` | options, pid | parse, test for a running instance, fork | start sequence |
| file systems, users, network, ldap, text, logging | `fs/`, `user/`, `network/`, `ldap/`, `misc/`, `main/` | little or none | wrappers of system and library calls, conversions | |

**What is hard here.** Nearly everything is shared between the thread of the
event loop, the threads of the pool and the main thread. A few structures are
protected by lock bits or a mutex, several are changed outside of them
(insertion in the job list, `revents.events`, the status of a module, the
signal queue). Jobs are put for things that may have been done when the job
runs. Buffers that hold the text of the mount table are switched and read into
again. Deadlines are added up with carries in words that wrap. Questions to the
network get lost, answers come in any order, and who reads them is a thread of
the event loop. Ownership of strings and paths is a flag beside the pointer.

**What makes it correct.** Lock bits exclude; no wakeup is lost; a flag has one
setter; lists stay lists; a lock word counts who is in; a job runs once and is
not left behind; signals reach the user in order, one at a time; an event is
not hidden by a stale bit; a change of the mount table is not missed, and the
table is the file; what was started is undone in reverse; a deadline is the
instant that was asked for, as far as 32 bits count it; a path is the text that was put together; memory has
one owner; a reply is handed to one waiter; there is one socket for an address,
a host that answers is reported, and a message is read as it was written. For
some of these the code falls short in cases; section 4 lists them, and the
properties name them as their exceptions.

## 2. Modules

`MC...` modules instantiate a module for TLC. The modules `...Proofs` hold the
theorems: `HashTableProofs` those about `ListRWLock` too, since the lock is proved
with the users of the table running; `EventLoopProofs` those about `BEvent` and
`Dnssd`, whose readers the event loop runs; `JobProofs` those about `LocalThreads` and
`Start`, whose job runs in the pool; `DataProofs` those about `List`, `Path` and `Dstr`, what is
kept in memory; `ValueProofs` those about `Time` and `MdnsMessage`, where numbers become
words and bytes; each of the others is named after its module.

| module | models | specification level |
|---|---|---|
| `FlagLock` | what lock bits promise to a caller | abstract |
| `EventFlag` | `event/signal.c`, `lock.c`, `set.c`: each function stage by stage (get the mutex, test, sleep, update, broadcast, release) | implements `FlagLock` |
| `ListSeq` | lists as sequences | abstract |
| `List` | `list/*.c` without element locks: every pointer | implements `ListSeq` |
| `ListRWLock` | `list/lock.c`: each function from wait to wait | |
| `LocalThreads` | `main/localthreads.c` | |
| `SignalMonitor` | `system/signal.c` | |
| `BEvent` | `eventloop/{backend,bae,queue,ctx,bevent}.c`, one descriptor | |
| `MountMonitor` | `mountinfo/*.c`, with the io buffers it reads into | |
| `Start` | `osns/start.c`, `osns/modules.c`, `module/module.c`, `eventloop/loop.c` | |
| `Time` | `time/time.c` | |
| `HashTable` | `hashtable/*.c`: one row, with the threads that add, remove and find | composed with `ListRWLock` (EXTENDS) |
| `Path` | `path/*.c` | |
| `Dstr` | `datatypes/dstr.c` | |
| `MdnsNames` | `dnssd/mdns-utils.c`, `TXT_util_unescape` of `misc/txtutils.c`, and a reference definition | |
| `Dnssd` | `dnssd/{dnssd,mdns-socket,mdns-interface,addrs}.c`, `network/address-list.c`, with the network as environment | uses `MdnsNames` |
| `MdnsMessage` | `dnssd/mdns.h`: the bytes of a message, written and read | |

The abstraction is layered. `EventFlag` shows that the functions of `event/`
make lock bits and waits that behave as `FlagLock` says; the modules above it
then treat what is done with one lock bit held as one step, and a wait as a set
of sleepers that a broadcast empties. `List` shows that the pointers of a list
without races describe sequences; the modules above it use sequences, and where
the code changes a list without its lock they model the race at the level of
the links that go wrong (`raced` and `stray` in `LocalThreads`, `race`, `stray`
and `drift` in `SignalMonitor`). The pool is a bag of jobs, with a job that may
be lost where `LocalThreads` shows that it may.

### EventFlag
`word` is `*p_flags` as a set of bits, `mutex` the mutex, `stage[t]` and
`call[t]` where a thread is in which function. A bit is used either as a lock
or as state, as in the library. `SpuriousWakeup` stands for the broadcasts of
other words that share the signal (one default signal serves most of the
library). `EVENT_signal_unlock_wait` is modelled as it is written: its loop
cannot see the change it waits for (`event/lock.c:64`), so only the timeout
ends it. Nothing calls it. Deadlines are valid ones: with a whole second of
nanoseconds, which `TIME_plus` can leave, `pthread_cond_timedwait` returns EINVAL
at once and the caller goes round its loop with the mutex. The waits of the
library add whole seconds to the clock and do not get there.

### List
`n`, `p`, `h` and `count` are the fields of the C structures, head and tail of a
header are nodes with other `ops`. `insert_after`, `insert_before` and `remove`
are the callbacks of `list/insert.c` and `remove.c` for lists with `lock=0`, as
all lists of the library are. The variants with a lock on each link take their
bits in opposite orders for insert after and insert before
(`list/insert.c:29` and `:112`); nothing uses them, and they are not modelled.

### ListRWLock
`lockflags` is the word with its width, so that `-= 4` wraps. A *crew* gives
each thread its roles (reader, writer, upgrader, with timeouts); the run goes
over several crews. `mode[t]` is the lock that the caller was told it has.

### HashTable
One row of a table: a sequence of elements, which `ImplementsListSeq` justifies,
under the lock of `ListRWLock`; every lock, upgrade and release of the code is
the action of that module, joined with what the thread does at that moment. Ids
come from a counter of the width of the table and wrap. An element out of its
list has no `ops`: a thread that steps from it or removes it again ends the
behaviour with `crashed`, as does a thread that adds an element without having
the row: `table.c:60` takes the header of the row from the element, which has
none yet (`NoHeader`). After the first successful find the row stays locked,
as in the code, because the upgrade names no owner and the release is refused
(`hashtable/table.c:118`, `list/lock.c:142`). The retry at `lockstart` cannot be
reached.

### LocalThreads
Workers test the list and go to sleep under the mutex. `put_job` links without
it: `PutLink` chooses between the outcomes that the interleaved pointer writes
can have. In one of them the job is lost (`localthreads.c:215`). The list of threads is
left out: a thread finds its manager through it when it starts, and nothing else
reads it; what goes wrong in it (section 4) does not reach the jobs.

### SignalMonitor
The reader runs in the event loop, the job in the pool, stop anywhere. Taking
the first event is a look and an unlink, under the mutex only at the end of the
job's loop. An unlink of an element that somebody else unlinked follows a NULL
pointer: the behaviour ends with `crashed`.

### BEvent
`revents` is the word, `rlist` the list of reported events, `threadid` the
owner. The unlocked `|=` of the loop is a read and a write (`OrRead`,
`OrWrite`), the `&= ~` of a worker another pair. `Callback` may use up what
there is to read or not. Detach runs at any moment, in its own steps. `PutJob`
stands for `LOCAL_threads_put_job`, which may refuse the job, have no memory for it
or link it where no worker finds it, and says nothing of that; `PoolStops` is the
stop of the pool, after which jobs stay where they are. `dropped` remembers either.

### MountMonitor
A line is an id and a text; the order of ids is the order of the file. A line
of the table is a place in a buffer, as in the code, so what its text is can
change under it. The merge is one action per outcome of a round of the loop in
`MOUNTINFO_read_mount_table`. One `mline` serves all lines of a merge and its flags
are never cleared (`mountinfo/utils.c:33-44`): `sysflag` is its flag SYSTEM, which
each line of a system file system sets (`FlagLine`), which starts with what is on
the stack, and which decides whether a new mount is told. How the fields of a line are found and unescaped
is abstracted to "can be parsed or not".

### Start
The main thread and the job walk the same list without a lock, each change of
a status is a read and a write. A call of an action takes time and happens
inside the module's object. The epoll call is a wait that closing the
descriptor does not end.

### Time
Values are pairs `[st_sec, st_nsec]`, `exact` is the instant that was asked for: the
sum of what was added, with the product of unit and count as a number. `Nsec` is
the length of a second and `Word` the number of values of a 32 bit integer; the
products that `TIME_add` makes wrap, and `wrapped` has the variables that such a
product went into.

### Path
`buffer` is a sequence of bytes, the window in it is `start` and `length`,
`heap` says whose memory it is. `Put` records a write outside of the buffer.

### Dstr
A string is a block, an offset in it, a length and the ownership flag; `want` is
the text that the calls so far should have left. `lost` holds the blocks that
the code is known to forget.

### MdnsNames and Dnssd
Names are sequences of characters, one of which, `Nul`, is the zero byte. `Unescape`
(one `Piece` of the text after the other) and `mdns_scan_names` are the loops of the
code; a name is handed over with a length of 0 and so ends at a zero byte in it
(`CString`). The reference does not use them: `Dots` and `EscapedDots` are read off
the text as it is in the record, `LastLabels` cuts it at the dots that are not
escaped, and only then unescapes each part.

In `Dnssd` a caller walks through `dnssd_manager_get_all_mdns_sockets` step by step:
under the flag `LOCK_MSOCKETS` the addresses are compared with the list and sockets
added, after it every socket is tested, opened, watched and asks once, each test
and each flag a step of its own. What `BEVENT_ctx_add` says is not looked at, so a
socket may have the flag `EVENTLOOP` with nothing watched (`watched = NoFd`). The
readers are threads of the event loop, as many as the scene has, in
`mdns_socket_recv_event`. That an event gets no thread, as `BEvent` shows it may, is
`NotServed`; an error of the socket is what gets it one later (`ServedAgain`).
A datagram is first only looked at (`IO_connection_recvmsg_peek_cb`, which
`mdns-socket.c` names and nothing in the repository defines) and taken out by
`mdns_query_recv`, for which an empty one is too short: it stays and hides what
comes behind it (`RecvEmpty`). The network (external) answers a question once or loses it. A datagram is
a sequence of records.

### MdnsMessage
The level below: the records as bytes. `mdns_string_make` and the string table
write names with references, `mdns_query_recv` and `mdns_socket_listen` read
them with the substring walk. The functions that write answers have no caller in
the library; they stand for the hosts that answer. A name is a sequence of
labels, so the splitting of a C string at its dots is left out. Each loop is a
recursive function of the number of rounds (or of labels left), so that it can
be proved about.

What a request may be is stated by `RequestAssumption`: a query, an answer or a
unicast answer with records of the types the functions know, names of at most
64 labels of at most 191 bytes, texts that one byte can count. A text may be the
answer itself; of such a message nothing is claimed (`AnswersWithText`), since it is
counted in the header and never written (section 4). Two conditions on
names are the code's own: all names of a message end with the same label
("local"), and no name has a label twice. `mdns_string_table_find` compares the
labels behind a match as far as the wanted name goes and does not test that the
name it found ends there too; with names under one last label, found nowhere
else in them, both end together. `RoomAssumption`: a reference has 14 bits, so
buffers are no larger than 16384 bytes. A message may run past its buffer where
the code does not test its room (`mdns_multiquery_send` writes the four bytes of type
and class behind each name untested); it is sent all the same, in the model too.

## 3. Runs

States are distinct states found by TLC.

| run | states | what it shows |
|---|---|---|
| `event_flag` | 10 093 | two threads, one lock bit, one state bit, every call: `MutualExclusion`, `NoLostWakeup`, `WaitResultExact` (a late answer is not reported as a timeout), `OneWinner` (one of the setters is told so), the refinement of `FlagLock`, and that waits end (`WaitersServed`) |
| `list` | 261 | four elements, two lists: the links are inverse, the count is right, refinement of `ListSeq` from the front and, reversed, from the back |
| `rwlock` | 182 712 | seven crews of up to five threads, four of them only locking, three using a hash table: who is in excludes writers for one writer or writers alone (`OrderlyExclusive`), the word counts who is in (`FlagsExact`), nobody sleeps on a free lock (`NoForgottenSleeper`), the only writer gets in although readers keep coming (`WriterServed`), an element is handed to one callback (`HandedOnce`), and a finder that finds nothing is right (`MissIsRight`) |
| `rwlock_exclusive` | violated | two writers and a reader: a writer and a reader are in at once |
| `jobs` | 96 501 | the pool: two workers, two putters, three jobs: a job runs once, no listed job is left with all workers asleep, stop ends every worker. The start sequence: up to three modules, failing actions, timeouts, stop at any time: nothing left loaded when the job had ended (`CleanEnd`), undo in reverse of do and no call into an unloaded object before the undo begins (`UndoSafe`), a stop that can be seen ends the loop (`StopIsSeen`) |
| `signal_monitor` | 319 787 | five signals, limit of the queue reached, jobs lost, stop at any time: one job at a time and, until the queue is full or stop is called, no two threads that take an event (`OneProcessor`), no event is left with the THREAD bit clear, order is kept |
| `bevent` | 596 165 | one descriptor, pools of one and two threads that lose jobs and stop: one thread at a time, data is not hidden by a stale bit, and a pool of one thread serves every report unless the job for it got lost, then with the next job (`SingleThreadServes`) |
| `bevent_owner` | violated | with two threads in the pool a report whose job got there is never served, since another thread than the first one took it (`FirstServed`) |
| `mount_monitor` | 8 126 950 | three mounts, four changes, two threads and an exporter: no change is missed, lines point to their own text, the table is the file unless a removal hid a line, the callbacks add up to the table but for the mounts that are not told because of an earlier line (`ToldIsTable`) |
| `mount_listed` | violated | the mount after an unmounted one is not in the table |
| `values` | 826 980 | four kinds of values, each by itself under any sequence of operations. Time: a deadline is what was asked for unless a product in it was too large for 32 bits (`DeadlineExact`), their order told right (`OrderExact`). Paths with failing allocations: the window is the text, no write outside, no foreign memory freed, a filename taken off fits on again (`PathSound`). Strings: memory has one owner, the text is what it should be (`StringSound`). Messages: 8 662 requests in three buffers are heard as they were meant (`HeardAsMeant`) |
| `dnssd` | 1 857 960 | one or two callers, addresses that appear, hosts that answer, losses, refusals and errors: one socket per address and, with one caller, no descriptor lost or watched for another socket (`SocketsOwned`); the callbacks get the last labels of the names (`ToldIsLabels`); a host whose answers arrive is reported (`HostFound`) |

**Bounds.** `Threads`, `Workers`, `Putters`, `Exporters`: two of a kind show
every pairwise race, and `rwlock` has up to five because two writers, a reader
and a waiting third are needed for its cases. `MaxSignals = 5` with
`MaxCount = 1` and `Batch = 2` makes the queue overflow, and overflow again
while a job takes an event. `MaxChanges = 4` allows a mount to come, another to
go and a remount between two merges and during one. `MaxModules = 3` has a
first, a middle and a last module, so that an error in the middle leaves one
done and one untouched; three mounts with the second of a system file system have a
mount before it, and one behind it that its flag hides. `MaxJobs = 1` is a job that
waits beside those in work, so that both threads have one; at the bound a job gets
lost, and a third would find what the second does.
`Nsec = 4` and `Word = 9` reach carries, borrows and wrapped products in
seconds of four nanoseconds. `MaxSize = 7` is more than two pieces with
separators. `MaxBytes = 2` and two blocks let a string grow, move and be cut once.
`MaxCalls = 2` is a start and a refresh, or two at once; two addresses and two
hosts make answers of different sockets overtake each other; `MaxFaults = 1` is
one empty datagram or error, which ends a reader once. `TableSize = 3` makes the
string table of a message drop labels, `TextSize = 10` cuts the longest name,
and the buffers of 47, 80 and 300 bytes are refused, overrun by some messages,
and large enough. `Width = 8` is enough for the readers there are and lets the count
wrap below zero.

**Deadlock.** It is checked except where the system may really stop: the loop
with nothing to report (`bevent`), a pool that was stopped or a stopped program (`jobs`), all signals
delivered (`signal_monitor`), and nothing more on the network (`dnssd`).

**Fairness.** `event_flag`: a thread that can go on does (weak), the mutex is
given to a thread that keeps asking (strong, as pthread mutexes on Linux do in
practice), a timed wait times out, and who has a lock bit gives it back.
`rwlock`: every thread goes on when it can and releases what it has (`Proceed`
for those that only lock, `Use` for the users of the table). `jobs`: workers and
putters go on and callbacks return; the main thread and the job of the start sequence
go on and calls of actions return. `bevent`: the loop goes on (weak), a job that got to
the pool is given to some thread of it (strong; `NoForgottenJob` says that workers do
not sleep on it), lock bits are got (strong, by `event_flag`). `dnssd`: the threads of
the event loop go on in a callback and one that is free is given to a readable socket,
unless the event gets no thread (weak), and the network answers what it does not
lose; callers need not go on. Nothing is assumed about the arrival of events,
signals, mounts or stops, nor that epoll returns, that it takes a descriptor, or that
a job gets to the pool: what the code does then is a branch of the model, and
`SingleThreadServes` and `HostFound` say that they do not speak of it.

## 4. Where the code and its comments disagree

1. *The write lock is not exclusive* (`rwlock_exclusive`). A writer that waits
   for a writer only waits for bit 2 (`list/lock.c:173`). The release clears the
   whole word, a reader enters, then the waiter sets `lockflags=2` with the
   reader in. The comment at `list/lock.c:197` says "now exclusive access".
2. *Mounts get lost in the merge* (`mount_listed`). When the merge removes a
   line of the table, the line of the file it was compared with has been read
   and is not used again (`mountinfo/read.c:562`), against the table of cases at
   `read.c:500-518`.
3. *A descriptor keeps its first thread* (`bevent_owner`). The thread that handles
   events of a descriptor first puts itself in `revents.threadid`, and nothing takes
   it out (`eventloop/queue.c:76`). A job that another thread takes returns at once,
   although no thread is active; the event stays on the list, and while it is there no
   job is put for it again. The comment at `queue.c:63` says "test there is another
   thread active for this bevent".

Four more, in the models as the exceptions of properties:

- *Deadlines.* `time/time.c:148` says "one in thousand (=10^3)" of `TIME_ADD_MILLI`. The
  product of unit and count has 32 bits (`:120`, and `:174-194` from a second on), so
  5000 of them add 0.705032704 seconds. `DeadlineExact` leaves out the values with
  such a product in them. The library itself only adds 2 seconds.
- *Sockets.* `dnssd/dnssd.c:120` says "for every addr/socket found add to eventloop".
  What `BEVENT_ctx_add` returns is not looked at (`dnssd/mdns-socket.c:133`): when
  `epoll_ctl` refuses the descriptor the socket has the flag `EVENTLOOP` all the same,
  and nothing of it is ever read. `SocketsOwned` says of a socket with the flag that
  its descriptor or nothing is watched.
- *Escaped dots.* `dnssd/mdns-utils.c:61` says "keep track which characters are escaped ->
  especially the dots". A character after a backslash is handed over as not escaped
  unless it is written as a code (`misc/txtutils.c:261`), so the dot of `\.` separates
  labels. `ToldIsLabels` leaves out the texts that have one.
- *Announced texts.* `dnssd/mdns.h:1228` says that texts "will be coalesced into one
  record later". One that is the answer itself is not: nothing writes it, and the
  header counts it (`:1379`, `:1436`), so the receiver takes the next record for the
  answer. `HeardAsMeant` leaves out these requests.

Other things met while modelling. They are in the models, and the properties
say where they stop, unless they are said to be left out:

- a job linked while a worker takes the last one may be lost
  (`main/localthreads.c:215`). Left out: a thread is added twice to the list of
  threads (`:177`, `:199`), stays on it when it could not be created (`:190`), and takes
  itself off without a lock when it ends (`:152`);
- left out: a wait with a whole second of nanoseconds in its deadline goes round its
  loop with the mutex (`event/set.c:48`);
- a signal job that finds an empty queue leaves the THREAD bit set, after which
  no job is put any more (`system/signal.c:85`); start after stop does nothing
  (`:251`);
- a job that is not put, or lost, leaves its event on the list, where nothing looks at
  it before another event puts a job (`eventloop/bevent.c:110`); a close reported together
  with data stays in `revents.events` and hides later ones (`bae.c:118`); the
  context may be used after detach (`queue.c:108`);
- `BEVENTLOOP_stop` does not wake `epoll_pwait` (`eventloop/loop.c:102`); the
  second call of `BEVENTLOOP_clear_list` goes on with the first list (`:155`);
- a timed out write lock leaves bit 1 set (`list/lock.c:175`), an upgrade names
  no owner, so that its release is refused (`:142`); two threads that upgrade one
  after the other subtract 4 each and wrap the word to 0, and the bit of a writer
  that is in is gone (`:104-118`). The proof of `FlagsExact` showed this: TLC had
  no crew with two upgraders, and the property now says that there is at most one;
- the flags of a line of the mount table are never cleared: after one of a system file
  system no new mount of that merge is told when these are ignored
  (`mountinfo/read.c:203`, `:250`);
- a line that cannot be parsed ends the merge half way (`mountinfo/read.c:541`),
  the callback runs with the write lock held (`:215`);
- a module may be called after the undo has unloaded it (`osns/start.c:49`), and
  one without its symbol is never unloaded (`:314`);
- the carry of `TIME_plus` is tested with `>` (`time/time.c:107`): the instant is
  right, its form is not; the nanoseconds of `TIME_get_expired` are wrong after
  a borrow (`:91`);
- a path in a foreign buffer can never be prepended to, because the text starts
  at its first byte although `path/append.c:268` says "start at the end";
  prepending to a path without buffer writes before address 0 (`:196`); paths of
  the same length are called equal without a look at them (`path/compare.c:40`);
- an element that is added without having its row has a NULL header, which is
  followed (`hashtable/table.c:60`); the row of a hash table stays locked after the first successful find
  (`hashtable/table.c:118`); two finders of one element, or a finder and a
  remover, may use an element that has left the list (`:117`, `:60`);
- `DSTR_append` marks the struct instead of the data as allocated, so the data is
  never freed, and clears bytes behind the block (`datatypes/dstr.c:468`);
  `DSTR_free` never frees the struct; `DSTR_shift` on an owner moves the pointer
  that has to be freed; `DSTR_copy_to_bytes` copies nothing when there is room;
  a failed allocation leaves length and flag as they were;
- `DNSSD_finish` takes the 0 of `EVENT_signal_lock` for a failure and leaves with
  the mutex locked (`dnssd/dnssd.c:247`), as does `CONNECTION_module_init`
  (`connection/connection.c:40`); a second `DNSSD_init` returns before the manager
  is filled (`:209`); two callers open a socket twice (`:124`); a discovery that
  failed counts as sent (`:164`); on EAGAIN the reader goes round its loop and
  keeps its thread (`dnssd/mdns-socket.c:96`); an empty datagram is looked at and left,
  so that nothing behind it is ever read (`:86`); a name ends at a zero byte in it,
  also one written as `\000` (`dnssd/mdns-utils.c:113`);
- `mdns_string_table_find` takes a name for found when it is the beginning of a
  longer one (`dnssd/mdns.h:698`), so `a.b` after `a.b.c` is read back as `a.b.c`;
  names that all end in `local` are not affected. Texts in a unicast answer keep
  the flush bit of their class (`:1309`), other records do not;
- `LOCK_unset_writelock` uses a signal pointer that is NULL (`lock/lock.c:151`).

## 5. Theorems

Checked by tlapm (Z3, Zenon, and LS4 for the temporal steps), for every value of the
constants that satisfies the named assumptions of the modules.

**EventFlagProofs** (any threads, any bits; `FlagAssumption`,
`ThreadAssumption`). The inductive invariant `IInv` is the conjunction of

- `TypeOK`;
- `MutexInv`: a thread between lock and unlock of a function has the mutex, so
  that no two threads are there;
- `CallInv`: a lock call names one lock bit, the other calls name state bits;
- `SleepInv`: unlock, set and unset never sleep, the waits change nothing;
- `HoldInv`: a lock bit is set exactly when one thread has it; who is about to
  set it found it unset, who is about to unset it has it;
- `NoLostWakeup`, `WaitResultExact` and `OneWinner`.

`MutualExclusion` is not inductive without `HoldInv`: a thread between its test
and its update relies on the bit still being unset, which `HoldInv` says and
`MutexInv` keeps true. With `IInv` follow `TypeCorrect`, `MutualExclusionCorrect`,
`NoLostWakeupCorrect` (sleepers are woken before the changer leaves the
mutex), `WaitResultCorrect`, `OneWinnerCorrect`, and `RefinementCorrect`:
every step is a step of `FlagLock` or leaves its variables alone.

**DataProofs** (any lists and elements). `ListInv` is
`TypeOK /\ LinksInverse /\ CountExact`; it is inductive. One lemma shows that
linking an element between two neighbours keeps it, one that removing does;
the six operations are instances. The count part rests on the cardinality
theorems of the library. Theorems: `LinksCorrect`, `CountCorrect`.

The refinement of `ListSeq` needs more: a ring of elements of its own beside the
one of head and tail would satisfy `LinksInverse`. `RingInv` says that there is a
sequence for each list with all its elements, once each, whose neighbours are
what the links say, from the head to the tail (`Chain`). `RingCorrect` proves that
inserting or removing at any place of the chain leaves a chain. Walking along the
links is a recursive function in `List`; `WalkExists` and `WalkIs` unfold it with the
least number for which it would go wrong, so that `Views` shows that the walks
from the front and from the back are that sequence and its reverse. With this,
`ImplementsListSeqHolds`: every step is one of `ListSeq` or leaves it alone.

The part about `Path` (any pieces of data and any bound; `DataAssumption`) has
`PathInv == PathTypeOK /\ WindowInv /\ FreesOwn`. `WindowInv`: the window starts at
0, fits into the buffer and holds the text. That it starts at 0, whatever was
prepended, bounds the room behind it; it is also why the static variant of prepend
never writes, for which `Path` has no action. `SplitExact` is about taking a filename off and putting
it on again; the last separator exists by the least-number argument. Theorems:
`PathInvariant`, `PathSoundHolds`.

The part about `Dstr` (any strings, blocks, line and bound; `StringAssumption`) has
`DstrInv`: `OwnerInv`, every block that is not lost has one owner, who points to its
first byte; and `SeenInv`, every string lies inside of a block that is there and
reads its text. They need each other: who frees or moves memory is its owner, and
the views of it are gone with it, so no string is left that reads another one's
block. A lost block keeps its views and never gets an owner again. One lemma is
for calls that touch no memory, one for those that free or move it, one for
those that write into it. Theorems: `DstrInvariant`, `StringSoundHolds`.

**ValueProofs** (any length of a second, any units and counts;
`TimeAssumption`: two nanosecond fields can be added in a word).
`IInv == TypeOK /\ DeadlineExact`. Lemmas show that each operator of the module
gives the instant of the sum, the difference or the product, from division and
distribution facts that are stated once. `exact` is advanced by the product of unit
and count as numbers, so for `TIME_add` the claim rests on the product being below
`Word` (`SumKeeps`); where it is not, the variable is in `wrapped`, and so is what is
made of it. `EarlierOrders` and `ExpiredSigned`
follow from `DeadlineExact` and the bounds of `st_nsec`; `OrderCorrect` puts them
together to the invariant `OrderExact` of the run.

The part about `MdnsMessage` (any requests, buffers and table;
`RequestAssumption`, `RoomAssumption`, `SizeAssumption`) proves that reading undoes
writing. The machine has three steps, and `MessageInv` only says that what is on its
way is what the call made, and that it was made whole; the rest is about the
operators, without induction over data but with the least-number argument over
the rounds of each loop (`Loop`, `Rounds`). It goes bottom up:

- *Reading.* A name lies along a path of offsets (`NamePath`) when each label is
  at its offset or behind a reference from there. Along such a path
  `mdns_string_extract` gives the text of the name (`ExtractReads`) and
  `mdns_string_skip` goes behind its zero or first reference (`SkipReads`).
- *What is written stays.* `Later(b, bytes, hole)`: `b` begins with `bytes`, but for
  the bytes in the hole. The hole is the length of a record's data, left open until
  the data is there; nothing that is read while it is open lies in it.
- *The table.* `TableMeans`: every offset in the string table is that of a label
  of a name that lies there, in whatever the message grows to. This needs no order
  of the entries, so the table may drop any of them, and it is where the condition on
  names is used: `MatchMeans` shows that a match ends where the found name ends.
- *Names.* Each round of `mdns_string_make` writes a label or refers to the rest
  (`MadeSoFar`, `RoundMeans`); with the last one the name lies along a path in
  everything the message grows to, and the table keeps its meaning (`Ready`).
- *Records, sections.* For each type of record the data is read as it was meant
  (`RecordMade`); the texts of a section are collected into one record behind the
  others, and the count of the header counts that one (`ChosenParts`); a section is
  read record by record (`SectionMade`, `SectionReads`).
- *Messages.* `QueryHeard` and `AnswerHeard`: the counts of the header lead the
  receiver to the questions and to the three sections, in their order.

Theorem: `HeardAsMeantHolds`.

**HashTableProofs** (any threads, crews, row and ids; `CrewAssumption`,
`LockThreadAssumption`, `WidthAssumption`: the word has room for a reader per
thread, which 32 bits have; `RowAssumption`, `NoneAssumption`, `IdAssumption`;
`UserAssumption`: a thread that finds neither adds nor removes). `LockInv` has

- `LockTypeOK`, and `PlaceInv`: who is in a function has the role for it and the
  lock it starts from;
- `OwnerInv`: with one upgrader at most, the owner is in with the writer bit set.
  The word may count more than is there only after the upgrade wrapped it, and
  then the upgrader is the thread that did it; without this the next release
  could clear the bit of the owner;
- `SleepInv` and `PendingInv`: what a sleeper waits for is still so, and a bit of a
  waiting writer has its writer. From these follows `NoForgottenSleeper`;
- `WordInv`: in an orderly crew (one writer among readers, or writers alone) the
  word is exact. `Exclusive` is not inductive without it: the writer enters when
  the word says that the readers are gone. It also says at which of its waits the
  writer of such a crew can never be, which is where the lock goes wrong in
  others (section 4).

`LockInvariant` is for `ListRWLock` by itself. `TableIsLock` shows that every step
of a table's user is a step of the lock or leaves it alone, so that
`RowLockInvariant`, and with it `ExclusiveHolds`, `FlagsExactHolds` and
`SleepersRemembered`, hold with the users of the table running. `TableInv` adds
the types of the table, `SlotInv` (a user between calls has nothing in hand) and
`CountInv`: the row has an element once, and an element that was added is in one
of four places. `HandedOnce` counts the positions of an element in the row;
`CountInv` says that this count is 0 or 1, which makes taking one out exact. Of the
lock it uses only `PlaceInv`: a second thread that removes the same element ends
the behaviour with `crashed`. Theorems: `TableInvariant`, `HandedOnceHolds`.

`MissIsRight` is about a row with one finder and one adder. `AloneInv` says what the
word, its owner and the two threads can be together: the finder is out, reads,
waits in the upgrade until the adder has left, or has upgraded; with a reader in,
the adder is not. The word is one of 0 to 5 then, although an upgrade leaves no owner
behind it and is never released. `WalkInv` rests on it: nothing that the finder has
passed has the id it asks for, for the row does not change while it walks; what
it has found stays in the row until it takes it out, although an adder may come in
between, in the upgrade. Theorem: `MissIsRightHolds`.

**JobProofs** (any workers, putters and jobs). `PoolInv` is the
conjunction of the types, `PuttingInv` (a job that is being linked is on no list
and with no other putter), `FinishInv` (nobody sleeps after stop), `RunsOnce` and
`NoForgottenJob`. `RunsOnce` needs `PuttingInv`: otherwise a second put of a job
could link it again. Theorems: `PoolInvariant`, `RunsOnceHolds`,
`NoForgottenJobHolds`.

The part about `Start` (any number of modules; `StartAssumption`) has `StartInv`:

- `StageInv`: where the main thread and the job can be together, and that the job
  runs beside the undo only when the undo began early;
- `DidInv` and `UndidInv`: modules are done in the order of the list and undone
  against it, each once;
- `LoadedInv` and `DoneInv`: both threads read a status, call, and write it back
  without a lock. The copies say of LOADED what is true as long as the undo has
  not passed the module, so neither write brings the bit back or loses it; DONE
  may be lost, but what has it was done;
- `CleanInv`: without the job beside it, what is not undone yet is the first part
  of what was done, all ahead of the undo and with its bit set.

Theorems: `StartInvariant`, `CleanEndHolds`, `UndoSafeHolds`.

**SignalMonitorProofs** (any workers, signals, limit and batch; `SignalAssumption`).
`TokenInv` takes the THREAD bit for a token that the reader about to put the job,
the job in the pool and the busy worker have, one at a time. `LookInv`: until the
queue was full or stop is called nobody else removes, so that what a worker looked
at outside of the mutex is still first. `OrderInv`: last delivered, in hand, queued
and newest read come in this order. With the types, `PlaceInv` and
`NoneUnattended` they are inductive. Theorems: `MonitorInvariant`,
`OneProcessorHolds`, `NoneUnattendedHolds`, and the action property `InOrderHolds`.

**EventLoopProofs** (any pool, any events watched in any order, any number of jobs;
`BEventAssumption`). `ThreadInv`: who is not idle is `threadid` and handles the
first of the list. `CopyInv` is about the two unlocked copies of `revents.events`:
while the loop is between its read and its write bits are only cleared, while a
worker is between its two they are only added. So neither write brings back a
bit whose event has left the list. `WatchedInv` says which bits there can be, and
`WalkInv` where the loop is. Theorems: `BEventInvariant`, `OneThreadHolds`,
`NotHiddenHolds`.

The part about `Dnssd` (any threads, addresses, hosts and scenes; `SceneAssumption`,
`AddrAssumption`; texts are any sequences, `AnswerAssumption`) has `DnssdInv`:

- `LockInv`: who is between lock and unlock of `LOCK_MSOCKETS` is alone there.
  `OneSocketPerAddress` needs it, since who adds a socket compared the address
  with the list some steps earlier;
- `FdInv`: the descriptor of a socket is open, and is of no other socket;
- `SerialInv`, with one caller: the flags of a socket tell what was done with it,
  except for the step the caller is at (`Stays`). Of `EVENTLOOP` they tell that the
  context is attached and that no other descriptor is watched for it; that its own
  is watched does not follow, since epoll may have refused it. `TestedInv` says that between a
  test and the step it allows what was tested stays so: of the flags, the readers
  change only READ.

`NetworkInv`, beside it, says that what is on its way are records of hosts, and
that what was told are `Names` of their texts. That these are the labels of the text
is a fact about `MdnsNames` (`NamesAreLabels`, for any number of labels and any text
without a dot behind a single backslash). The code unescapes the whole text and then
looks for dots from the back; the reference cuts the text at its dots and then
unescapes each part. The proof joins the two:

- *Induction.* `AllNumbers`, from a least number that breaks a claim (`Minimum`), and
  `Backwards`, from the end of a text, stand for it. With them `ScanExists` and
  `UnescapedExists` show that the recursive functions are there and obey their
  equations: `From(text)[i]` is what comes of the text from `i` on.
- *Dots.* A character that counts as a dot comes of a dot of the text and of nothing
  else, not of an octal code and not of what follows a backslash (`DotsOf`).
- *Parts.* An octal code never goes over a dot, so what comes of a part that ends with
  a dot is the same alone and in the text (`PieceWithin`, `FromWithin`), and the
  unescaped text is that of the front followed by that of the rest (`Divided`). The
  last dot found before the end of a part is therefore the end of the part before it
  (`LabelFound`).
- *Counting.* The reference numbers its cuts by how many are behind them, so the loop
  from the back meets them in that order (`CutAtBehind`, `CutBefore`, `AllCuts`), and
  `ScanFinds` carries it over the rounds of the loop: the last labels, or nothing when
  there are too few.
- *Zero bytes.* A name is its label up to the first zero byte (`CStringOf`), which is
  what `AreLabels` allows.

`MinIndex` may be any number (`IndexAssumption`).

Theorems: `DnssdInvariant`, `SocketsOwnedHolds`, `ToldIsLabelsHolds`.

**MountMonitorProofs** (any mount table, changes, threads and exporters;
`MountAssumption`: ids are numbers). `MountInv` has

- `ThreadInv`: one thread reads, and it has read after the last call, or is about
  to, or will find CHANGED;
- `OrderInv`: file and buffers are in the order of the ids. The kernel keeps it,
  and the merge relies on it;
- `PlaceInv`: where the merge is, and that nobody exports during it;
- `TableInv`: the table is in order, and every line is *at home*: what the merge
  has passed is in the current buffer among the lines that are read, the rest in
  the previous one, each at a text with its own id. `TextIsOwn` alone is not
  inductive: the next read overwrites the current buffer, and only `AtHome` says
  that no line of the table is there any more;
- `ExactInv`: while no line was lost to a removal, the merge is as far on the table
  as in the buffer;
- `ToldIsTable`, which needs the order: a removal takes an id off the table only
  when no second line has it. It speaks of what the flag left in `mline` does to the
  others by `muted`: the ids added while it was set, until they are removed.

`DiffIsOrder` shows that comparing texts before ids, as the code does, gives the
order of the ids while lines are at home. Theorems: `MountInvariant`,
`NoMissedChangeHolds`, `TextIsOwnHolds`, `MergeExactHolds`, `ToldIsTableHolds`.

Each of these invariants was first checked by TLC as an invariant of its run.

**Only model-checked.** Liveness (`WaitersServed`, `WriterServed`,
`StopEndsWorkers`, `SingleThreadServes`, `StopIsSeen`, `HostFound`), since the
prover has no rules for fairness. Every invariant and every action property of a
passing run is a theorem.

## 6. Not modelled

- `lock/lock.c`: only the skip list would use it, and the first release of a write
  lock ends the program (section 4);
- the skip list: it is unfinished. Nothing sets the count of the head node or
  allocates its first junction, so the search starts at level -1 of an array that
  is not there; `SL_remove` is empty; nothing calls it;
- the list variants with a lock on each link: no list of the library uses them;
- `BEVENT_release_thread`, `BEVENTLOOP_clear`, `mountinfo_remove_list`,
  `MODULE_copy`, `MODULE_free`, `mdns_discovery_recv`: no callers;
- `dnssd_manager_finish`: `DNSSD_finish` never gets there;
- callbacks for WRITEABLE: the library cannot set one;
- connections and sockets: a descriptor and system calls; its events are those
  of `BEvent`, and nothing in the library calls them;
- parsing of mountinfo fields, options and configuration files; formatting and
  logging: conversions without state;
- wrappers of system and library calls (`fs/`, `user/`, the rest of `network/`,
  `ldap/`, `socket/`, `pid/`, `system/fork.c`): their outcome is the system's.

## 7. Plan

Done, in this order: flags (with the first theorems), lists, list lock, pool,
signals, event loop, mount monitor, start, time, paths; then the hash table on
top of the list lock, strings, service discovery and its messages.

Proved since then: list lock and hash table, pool, signals, event loop, mount
monitor, lists as sequences, start and undo, paths, strings, the sockets and names
of service discovery, and the bytes of its messages. What is left to TLC is the
liveness of section 5, "Only model-checked".
