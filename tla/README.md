# TLA+ models of learning-directory

The repository is a collection of small C++ programs. Six of them are concurrent
systems: the relay server and client of `socket/netapi`, the epoll server of
`httpserver`, the file transfer of `socket/sdr` and `socket/rcvr`, the two-way talk of
`socket/talk`, the counting sender and receiver of `cs`, and the process control
of `system_function`. This directory holds TLA+ modules for them, TLC
configurations that check the modules on small instances, and TLAPS proofs.

## Inventory

| component | state | operations | what is hard about it |
|---|---|---|---|
| relay server, `socket/netapi/{netapi,server}.cpp` | `recvsock` (queue of accepted sockets), `regtable` (name to socket), one local socket and buffer per handler thread | start up, accept, start a handler, read a head, register, read a body, relay | the accept thread and all handlers share both containers without a lock; the socket of a connection is found by `recvsock.back()`; any failed `recv` ends the process |
| relay client, `socket/netapi/client.cpp` | its socket | connect, register, heartbeat, deregister, send | goes on after a failed connect; never calls `recv` |
| message format, `socket/netapi/msg.cpp` | none | pad, concatenate, cut apart by position | fields that do not have their width shift the whole stream |
| `httpserver/main.cpp` | `fds` (descriptor to `client_t`), `fds_mutex`, epoll's interest and ready lists | accept, read, write, scan for idle clients, close | the timeout thread tests entries without the mutex; events of a batch can be stale; descriptor numbers are reused; error paths `continue` with the mutex held |
| file transfer, `socket/{sdr,rcvr}`, `api/` | `th_ctrl` (queue of threads, counters), `f_ctrl.filecontent` (one stream per process), `filefinished` | create a thread, send, accept, receive, write to the file, report progress | main and a thread use one stream without the mutex; a peek at the end disables later writes; threads are counted by a queue that both push and pop |
| talk, `socket/talk/{chatchit,chitchat}` | two sockets per peer, `sendbuf`, the string of `arg_2` | listen, connect, accept, read a line, send it in a thread, receive and show | main overwrites the string that its sending threads copy; lines run together in `buf`; `cin` fails and stays so; failures of `accept` and `pthread_create` go on |
| `cs/{send,recv}` | a counter on each side | connect, send, close; accept, receive and count | the receiver counts `recv` calls, not messages; it accepts one connection, the others fill their windows and wait |
| `system_function` | `pid`, the pending SIGCHLD, the children | sleep, fork, kill; reap in the handler | a child may be reaped, and its number reused, before it is killed; signals coalesce and cut sleeps short |
| `volatile` | a counter | SIGALRM handler, busy wait | the handler may run twice between two tests |
| `memberfun_threading`, `forkbomb`, `getrusage`, `libtest`, and the language exercises | none worth the name | - | nothing a model checker could say |

`PROJECT.json` lists the hazards of the code at their lines, with the properties
that cover them.

### What makes them correct

* Relay: the right thread reads each connection; a client's name is entered, stays, and stands for the
  connection of a client of that name; a relayed message is whole, in order and
  reaches whom it is addressed to; one client cannot take the server down.
* Format: what one side serialises the other side reads back, for every message
  whose fields have their documented width.
* httpserver: the map, the descriptor table and epoll agree but for the entry main is
  writing; requests are answered, idle clients closed and no others; the mutex
  is released (it is not, see below).
* File transfer: bytes are sent in order and once; the receiver keeps the files of
  its senders apart, serves all of them, and says "succeeded" only when it has
  everything.
* Talk: both sides get linked; a line is sent and shown whole, once and in order;
  a peer ends only for a reason.
* cs: every message is counted at least once, and the accepted sender comes to its end.
* Process control: every child is killed or ends by itself, is reaped, and nobody
  else is killed.

## Modules

    NetConn  <-  NetServer  <-  NetClient  <-  NetApi  <-  NetApiMailbox  <-  MCNetApi
                                                 ^              : Mailbox ^
                                                 ^--  NetApiProofs  <-  NetRelayProofs
    Msg         <-  MCMsg,  MsgProofs
    HttpServer  <-  MCHttpServer
        ^---------  HttpServerProofs
    ThreadCtrl  <-  FileSender  <-  FileReceiver  <-  FileTransfer  <-  MCFileTransfer,  FileTransferProofs
                                                          : OneByOne
    Talk        <-  MCTalk,  TalkProofs
    Cs          <-  MCCs,  CsProofs
    ProcCtl     <-  MCProcCtl,  ProcCtlProofs

(an arrow points from the module that extends to the one extended; a colon stands
before the abstract specification a module implements; NetRelayProofs extends
NetApiMailbox and NetApiProofs).

**NetConn** is what both ends of a connection share. The kernel's side of TCP is
external: a byte stream from client to server, an inbox of relayed messages per
client, and a connection state. The states `fin`, `rst` and `gone` are what Linux
reports to a server whose peer has closed: `recv` returns 0, or -1 once if the
peer closed with unread data, and a `send` after the reset was reported raises
SIGPIPE, which nobody in netapi catches. Bytes are counted in cells of 20: the
head is three cells (source address, destination address, and the rest), the body
two. With fields of the documented width every boundary a reader looks for lies
on such a cell. What other widths do is the subject of **Msg**.

**NetServer** has one action per piece of code between two points where threads
can interleave: `server_startup`, `server_handleaccept` (accept and push),
`start_msghandle_thread`, `msghandlecalling` (a thread takes its socket from
`recvsock.back()`), `handle_msghead` up to the call of `regist`, `regist`,
`handle_msgbody`, and the relay branch as `RelayRecv` and `RelaySend` (its
sleeps of three seconds lie between them). `regtable` is a `std::map` that handlers
change and walk without a lock, which is undefined behaviour. While one thread is
in `regist`, another one's lookup may miss, or the process may crash (`MapRaceCrash`). Once two
were in it at once the tree may have lost links, for good: `torn`. From then on an insertion may lose the new
entry and any that were there, or overlook the one of the same name and add a second; lookups may miss, and
either may crash. Left out is a walk of a damaged tree that never ends; what stays reachable of
an entry changes only at insertions. `exit(-1)` and fatal signals are `srv = "dead"`. A failed creation of the accept
thread is noticed by nobody: clients connect and wait in the backlog.

**NetClient** has `connectrequest`, the four kinds of message, a send that fails,
and leaving (`main` returns after `sleep(1000)`). **NetApi** puts the two together
and states the properties. Each client has its own bound on what it sends (`MaxSend`). `Staggered` restricts the scenario, not the code: a client is
only started while every connection made so far has its reader.

**Mailbox** is what the relay promises: letters that clients post are delivered whole to a
client of the right name or thrown away, once, and those of one sender in order. **NetApiMailbox**
maps NetApi to it: a client's letters under way are the one its handler has read the head of and
those whose heads are still in the stream (`Held`, `Unread`). `ImplementsMailbox` says that every step up to the moment when two
threads read one connection (`SoleHandlers`) is a step of Mailbox or a stutter.

**Msg** is the format byte by byte. `pad`, `serialize` and `Fields` are the
functions of `msg.cpp` and the loops of `handle_msghead`; two actions read what one
writes. It assumes that `recv` returns what it was asked for when that much has
arrived.

**HttpServer** has one action per step of the main thread between two points at
which the timeout thread, or a client, can be noticed, and the same for the timeout
thread. The map is `fds` (per descriptor: `absent`, `null`, `live`, `freed`),
`alive` is `last_alive_time`, with -1 for the value the constructor does not set.
The unlocked test reads anything from memory that is freed or not initialised
(`TimedOut`). It loads the pointer once, in the code the repository's build produced, so
the test is one step: if the client is deleted between the load and the use, the
outcome is the one of testing while the entry is `freed`. `Reap` is one step since
all of it is under the mutex and everything it changes is used under the mutex, but
for `readn` and `epoll_wait`, which see the closed descriptor either way. With `CallsMayFail`, `accept` may fail for any reason (`AcceptFails`: main goes on with the mutex held,
and the connection is in the backlog still, or aborted), and so may setting up the accepted socket, and `epoll_wait`, which ends
the process; `accept` always fails when no descriptor is left. A tree
into which main is inserting may lead the iterator anywhere (`Advance`). The kernel
is external: descriptor table, backlog, edge-triggered readiness. The order of a
batch, and of the backlog, is left open. Some descriptors may be taken before main starts
(`inherited`): the limit is on numbers, so a process that inherits open files has fewer.

**ThreadCtrl** is the class of `api/threading_ctrl.cpp` as functions on a record.
**FileSender** and **FileReceiver** have the two mains and the two threads, one action
per step another thread can notice, for the build the sources ask for (`FILEFLAG` is
1; the branches for messages are compiled out). A failed `pthread_create` changes nothing
and is tried again, so it is a step that is not taken. `filectrl` contributes its stream;
what its progress display does is to peek. The stream is external: an underflow reads
a block into the buffer's memory and then sets the get pointers, in two steps, so that two
threads can be in it at once, which `clash` remembers for the properties; a write does nothing once eofbit is set, and a write while main's
peek is under way may be lost (the two race). `close` and the pop after it are
one step of the sending thread, because only the close is seen by anyone. The
sockets are a byte sequence per connection. **FileTransfer** lets any number of senders
meet the receiver; a sender's `send` fails once the receiver is dead. **OneByOne** is what the limit of one thread is
for, and `TakesTurns` shows that FileTransfer implements it: one sender is served at a time, none twice, and
what is written comes from the one being served.

**Talk** is both programs of `socket/talk`, which differ in their ports only. A character is the
number of the line it belongs to, so that a buffer shows what was put together in it. An assignment to the shared string
is two steps (`ReadLine` or `ReadNothing`, then `Assigned`): a thread that copies in between may get the old
string, the new one, a mixture, or crash (a data race). `hasty` remembers that a line was read while a
thread had not sent the last one, and is the condition under which the code's promises hold. `getline` fills at most
`Cap - 1` characters and leaves `cin` failed when the line was longer; from then on, and at
the end of input, main reads empty lines for ever. The mutex that serialises output is left out: only the
receiving thread and main's creation of it take it. A failing call of the set-up (both `socket`s, `bind`, `listen`, `connect`) ends
the peer. One that has ended is not started again.

**Cs** lets several senders meet one receiver. The kernel's part is a window per
connection: a blocking send moves on by what finds room, and `recv` returns any part of what has arrived
up to the size of `buf`. Only one connection is accepted; other senders are in the backlog and end up waiting.
When the receiver has gone, the first send may still succeed without effect, which matters only if it is the last.

**ProcCtl** has main's four points (two sleeps, fork, kill), the handler as delivery, reaping and return, during
which main stands still, and the processes: a child ends when it likes or, some time
after signal 9, `dying`; as a zombie it keeps its number until it is reaped; then somebody else may get it. SIGCHLD is one bit. How long a
sleep takes is left out: it ends, early or not. `mysystem` is never called.

Definitions whose names end in a word after an underscore and are commented *Slip* are
plausible mistakes. No action uses them; they exist to show that each
property notices a mistake of its kind.

## Runs

| run | checks | instance |
|---|---|---|
| NetApiRelay | `RelaysWholeMessages`, `RelayKeepsOrder`, `NewestIsServed`, `NamesAreEntered`, `RelayDelivers` under fairness | 2 clients started at any time, up to 3 messages of the first and 1 of the second, one failed `pthread_create` |
| NetApiStaggered | `RegisteredRight`, `ReachesAddressee`, `EveryConnectionServed`, `CrashCauses`, `FirstRegistrationWins`, `ImplementsMailbox` | 3 clients, two under one name, 2 messages of the first, started one after another, free to leave; one failed accept, failing bind, listen and creation of the accept thread; the server may exit |
| NetApiMisrouted | `ReachesAddressee`, violated | 2 clients started at any time |
| MsgRoundTrip | `HeadsArrive`, `BodiesArrive`, `NoPhantoms` | 2 messages out of 48: names of 0, 8, 9 characters or with a `#`, contents of 0, 40, 41 or with a `#`, ports of 4 and 5 digits |
| HttpRaces | `TableConsistent`, `EventsAreFresh`, `CrashCauses`, `AnswersRequests`, and `RequestsAreHandled`, `IdleAreReaped` under fairness | 2 connections, 2 descriptors of which one may be taken, failing `accept`, set-up of sockets and `epoll_wait`, clock 0..1, timeout 1 |
| HttpReapsFresh | `ReapedWereIdle`, violated | 2 connections, 1 descriptor |
| FileTransfer | `TypeOK`, `QueueCountsThreads`, `FilesAreSeparate`, `SentInOrder`, `TakesTurns` | 2 senders, files of 2 bytes and 1, blocks of 1, a file that had content, failing bind, listen and accept |
| FileServed | `EverySenderIsServed` under fairness | the same with files of 1 byte and none |
| FileLost | `SuccessMeansComplete`, violated | 1 sender, a file of 3 bytes, blocks of 2, nothing fails |
| Talk | `TypeOK`, `SaidInOrder`, `NeverOlder`, `FitsBuffer`, `DeathCauses`, and `LinkForms`, `LinesArrive` under fairness | one user types up to 2 lines (empty, one that fills the buffer, one that does not fit), the other listens; buffers of 3, failing calls, users may quit |
| Cs | `CountsEnough`, `DeathCauses`, and `AcceptedIsCounted` under fairness | 2 senders of 3 messages of 3 bytes, a window of 4, failing calls, the receiver's user may quit |
| ProcCtl | `NoneForgotten`, `ZombiesAnnounced`, `KillsItsOwn`, and `ChildrenEnd` under fairness | 3 process numbers, any of which may be taken by others |

The type invariants of NetApi, HttpServer, Cs and ProcCtl are in no run, because they are proved; those of
FileTransfer and Talk are checked, and proved as well.

What they show:

* *Relay.* Where every connection has one reader, whole messages are relayed, in
  order, and once all clients are registered a message arrives unless the server dies.
  If clients are started one after another, all of that is given and names are
  registered with the right connection. If two are started together it is not:
  `regist` takes the newest connection instead of the sender's (`NetApiMisrouted`, netapi.cpp:267),
  and in the same way a handler may start on a connection that another thread reads
  already, and leave its own without a reader (netapi.cpp:393). The newest
  connection, however, always has a reader, unless its `pthread_create` failed. For clients started one after
  another, and until two threads read one connection (which takes a failed accept), the relay is a Mailbox,
  whatever fails and whoever leaves. A client's name gets into `regtable`, whoever reads its `reg`, and is not lost
  until two insertions overlap; for clients started one after another, the connection that registered a name
  first keeps it, also after its `deg`.
* The server process dies of three things only: a failed accept, two threads in
  `regtable` at once (or the tree two have damaged), or a client that left with relayed data unread or still to
  come. Messages that arrive in parts do not change that (proved). Clients to whom nobody writes come and go without harm.
* *Format.* Heads and bodies are read back exactly, up to the first too long or too
  short message.
* *httpserver.* Main alone never makes an event stale, never uses an entry it set to
  NULL, and answers only those who sent something. All crashes and wrong answers
  need the timeout thread, whose test is not repeated under the mutex: it may close
  a client that was not idle (`HttpReapsFresh`). An accept or the set-up of a socket that fails leaves
  the mutex locked for ever (main.cpp:271, 276, 283): at the next event main waits for it, but the connections
  there are stay as they are, and no half of one is left in the tables.
  `readn` reports an error as 1 (main.cpp:122, `readn` in the model), so main's error
  branch is dead code.
* *File transfer.* The mutex makes the queue an exact count of threads, so `pop` never
  meets an empty one, two files never mix, and each sender gets its turn. On the sending side the
  file is sent as it is, unless main's unlocked peek and the thread's find the buffer empty
  at once: then a block can be lost or sent twice, or a NUL be added at the end. On the receiving side
  it loses data: main's peek meets the end of the file, which sets eofbit, and
  everything received afterwards is dropped, and reported as a success (`FileLost`).
* *Talk.* The link forms because both listen before they sleep and connect before they accept. Lines go out
  whole and in order as long as nobody types a line before the last one's thread has sent it; typed faster, a line may be
  replaced by the next, lost or garbled, but never by an older one. One line always leaves room for the NUL that `cout<<buf` looks for; two that
  arrive together may not (client.cpp:52). A peer ends for a user, a failed accept, the end of the other, or a line typed too early.
* *cs.* The receiver may count a message several times and never misses one, since its buffer has the
  size of a message. Only the accepted sender is sure to finish.
* *Process control.* main knows every running child and ends it; no zombie is left, because the handler
  loops. It may kill a stranger, in one way only: the child ended by itself, was reaped, and its number was given away.

Deadlock is not checked (`CHECK_DEADLOCK FALSE`): clients stop after their bound,
the processes may exit or die, the clock ends, and a receiver at the end of its stream
calls `recv` again and again without effect. Only ProcCtl, whose loop never ends, is checked for it.

### Bounds

`MaxSend`, `MaxAcceptErrors`, `MaxThreadErrors`, `MaxMsgs`, `MaxChunks` and `MaxTime` bound what
the environment does; the code has no such bounds. `Size` and `Block` are the length of
a file and of a stream's buffer: two bytes can be out of order, and a file longer than
a block makes main and the thread meet in an underflow that has data as well as in one at the end. Two clients suffice for every pair of
threads to meet in either container, and a third adds a second process of
the same name. Three messages are a registration and two that can overtake
each other; the second client only has to be reached. Two descriptors suffice for the iterator to miss one while the
other is inserted, and two connections for a descriptor to be reused; with one of the two descriptors inherited, the limit
is met while a connection waits. The invariants of that run are proved for every number of
connections and descriptors (below). Time advances
in units of the model's `Timeout`, which stands for 30 seconds. `Window` is larger than what can be
sent in the runs, so a relay does not block on a client that never reads; with a smaller
one it blocks for ever, as the code does. Short reads (`ShortReads`) are in no run: what they may do to a head is not promised
by anything, and that they cannot make the server die otherwise than `CrashCauses` says is proved. In the run of `CrashCauses` two
insertions never overlap; that they too are among the causes, and that there are no others, is proved as well.
Talk's two directions share nothing but the life of the processes, so one talker is enough; two
lines are one that is overwritten and one that overwrites, and a buffer of 3 holds one line of 2 and its NUL. In Cs a window
of 4 is more than a message and less than two, so a send blocks within a message and a `recv` cuts
within one. Three numbers let a dying child, a running one and a stranger exist at once.

### Fairness

`FairSpec` of NetApi: the accept thread and each handler take a step if they can
(they are threads of one process, and none waits for another), and a client that
has connected sends its `reg` (it is the next statement). Clients need not do
anything else, nor start. `FairSpec` of HttpServer: time passes and both threads are
scheduled. A mutex that is released again and again could in general starve a thread;
here the timeout thread locks once per client it closes, and main locks
once per event, so weak fairness is enough. `FairSpec` of FileTransfer: the receiver's main
keeps running, and some other thread of some process does. That asks less than
fairness to each thread, which the scheduler gives, and is enough because all
of them but the receiver's main have finitely much to do. Users need not start anything.
`FairSpec` of Talk: every thread takes a step if it can; users need not type. In Cs: the receiver and each
sender that is connected. In ProcCtl: main, the handler, and the death of a process that was sent
signal 9; commands need not end by themselves.

## Proofs

`NetApiProofs`, for every set of clients and names and every value of the bounds:

* `TypeCorrect`: `Spec => []TypeOK`.
* `BackIsDefined`: `recvsock.back()` is never called on an empty queue.
* `DeathsHaveCauses`: `Spec => []CrashCauses`.

`TypeOK` is not inductive: `msghandlecalling` and `regist` take a socket from the back of the
queue, so it must be known that the queue is not empty once a thread exists, and that
the socket passed to `regist` came from the queue. `IInv` adds these two facts. `CrashCauses` needs one more, `OverlapsTear`: while two threads are
in `regist` the tree counts as `torn`. The
assumptions are the named ones of NetConn, NetServer and NetClient.

`NetRelayProofs`, for the same constants, says what is relayed and to whom:

* `NewestHasReader`: `Spec => []NewestIsServed`.
* If `Staggered = TRUE`: `StaggeredRegistersRight` (`[]RegisteredRight`), `StaggeredReachesAddressee`
  (`[]ReachesAddressee`) and `StaggeredServesAll` (`[]EveryConnectionServed`).
* If `ShortReads = FALSE`: `RelaysWhole` (`[]RelaysWholeMessages`) and `RelaysInOrder` (`[]RelayKeepsOrder`)
  and `NamesEntered` (`[]NamesAreEntered`).
* If both: `FirstKeepsName` (`[]FirstRegistrationWins`) and `ImplementsMailboxStaggered` (`Spec => ImplementsMailbox`).

The two hypotheses are the conditions under which the runs check the same properties, and they are needed. Without the
first, `NetApiMisrouted` shows a message delivered to the wrong client. Without the second, a `recv` may return
a part of a body and the relay sends on what it has. Nothing is assumed about failures, departures or speeds.
There are five invariants. `Conns`: threads are created one per entry of `recvsock` and take theirs from an entry no older than
their own; a connection is in the backlog or in `recvsock`, once. From this it follows that there are always enough threads
(`RoomForThreads`), and `NewestIsServed`. `Stagger`: until the `reg` of a client has been read, no
connection is accepted after its own (`LatestRegisters`), so `regist` called with `recvsock.back()` gets the right one, or
that of a failed accept; while no accept has failed, each thread takes the socket it was started for (`TakesItsOwn`).
`Relays`: while connections have one reader, the messages of a client that are not dealt with are a sequence `ms` such
that what was received of them is in the reader's buffer, the rest in the stream, cell by cell, and their numbers are
the last that the client sent (`Lined`). `Enrolls`: the `reg` is the first thing that a client sends and that anybody reads of
it, whoever that is (`RegComesFirst`); the thread that enters a name has its head from the connection it reads
(`EntersOwn`), so the name it enters is the one of a client that is still to be entered (`Registers`).
`Firsts`: at most one client at a time is between its connect and its entry in `regtable`, and
it is entered with its own socket or that of a failed accept (`OneAtATime`), hence no two insertions overlap; when a later one of the
same name gets there, the name is taken, which needs `Registers` of the first. The refinement has one lemma for each way `Held` and `Unread`
change: a send appends a letter, the read of a head moves one from the stream to the handler, and
the end of a handler's turn delivers it or throws it away.

`MsgProofs`, for any widths of the fields and any messages:

* `HeadsSurvive` (`Spec => []HeadsArrive`), `BodiesSurvive` (`Spec => []BodiesArrive`), `NothingInvented` (`Spec => []NoPhantoms`).

The invariant `Framed` says where messages are: each that follows documented ones only is at the position where the
server will look for it, less what it has taken (`OnWire`), and while all are documented nothing else is on the wire (`Level`).
The rest is about the functions: a padded field is read back (`FieldComesBack`), what is shown of
a body is its text up to a `#` (`BodyIsShown`), a head is cut where it was joined (`HeadSplits`). The position of the first `#` is a
least number, so well-foundedness of `<` is all the induction there is.

`HttpServerProofs`, for every set of connections, number of descriptors and timeout:

* `TypeCorrect`: `Spec => []TypeOK`.
* `TableStaysConsistent`: `Spec => []TableConsistent`.
* `EventsStayFresh`: `Spec => []EventsAreFresh`.
* `CrashesNeedReaper`: `Spec => []CrashCauses`.
* `AnswersAreAsked`: `Spec => []AnswersRequests`.

These are all the invariants of the run HttpRaces. None of them is inductive. `IInv` has five parts. `KernelInv`: an open
connection has one descriptor, and what epoll watches or has an edge for is open.
`EntryInv`: main holds the mutex wherever an entry of the map and its descriptor disagree,
and the entry is the one of `cur`. `BatchInv`: main's events are about different
descriptors, each names the connection its descriptor has, or one the timeout thread
closed, and main only goes on to handle a request of a descriptor that is open unless
there was such a close. `ScanInv`: the timeout thread waits for the mutex only for an entry.
`CrashCauses` itself is the fifth. The one step that needs all of it is
`WriteResponse`: the connection it closes may not be the one another event names, which
holds since two descriptors never share a connection and two events never share a
descriptor. `accept` returning a free descriptor rests on `LowestIsLeast`, well-foundedness of
`<` on the naturals.

`TableConsistent` holds also where an error path has kept the mutex. `AnswersRequests` rests on `AnswerInv`: an event or an edge for a connection,
a request that was read, and an interest in writing each belong to a client that sent something or left, unless a connection was reaped; that
a reaped connection stays reaped is `ReapedStays`.

`FileTransferProofs`, for any senders, sizes of files and of blocks:

* `TypeCorrect` (`Spec => []TypeOK`), `QueueCounts` (`Spec => []QueueCountsThreads`), `SendsInOrder` (`Spec => []SentInOrder`),
  `WritesSeparately` (`Spec => []FilesAreSeparate`).
* `ImplementsOneByOne` (`Spec => TakesTurns`).

`Counted` and `OneThread` say exactly what each queue has: the thread that main created last, from its push to its pop, so that a
second one is only created after the first has signed off. `OnePlace`: a connection is in the backlog or with one thread.
`Stream`: unless main and the thread were in an underflow at once, what is buffered continues what was sent, and an underflow
only begins with an empty buffer. `FileInv`: what is in the file came from connections in the order of
their threads, and for each in the order it was sent. The refinement maps `Serving` to the connection of the one
thread that receives; it needs that there is one at most, and that the threads before it are gone.

`CsProofs`, for any senders, amount, size and window:

* `TypeCorrect`, `CountSuffices` (`Spec => []CountsEnough`), `DeathsHaveCauses` (`Spec => []DeathCauses`).

`CountsEnough` speaks of the accepted sender once it is accepted; `Conserved` says the same of each sender
from its connect on, so that `accept` may pick any. `InLoop` says that a sender in its loop has a message left.

`TalkProofs`, for any size of the buffers, lengths of lines and number of lines:

* `TypeCorrect`, `NoOlderLine` (`Spec => []NeverOlder`), `OrderIsKept` (`Spec => []SaidInOrder`),
  `RoomForNul` (`Spec => []FitsBuffer`), `DeathsHaveCauses` (`Spec => []DeathCauses`).

`OwnLines` says that the shared string never has a line older than any thread's, nor does what a thread has copied.
`Patient` says that with a user who waits, at most the last line's thread is unfinished, it has that line,
and all that was sent before is older. `Haste` says that main only assigns under a thread's eyes if the user was hasty,
which is the cause a crash in the copy needs; `Met` says that whoever has connected has met the other one, so that a
send that fails has found a peer that ended. `FitsBuffer` needs more than the length of a line, since parts of two
lines may be in `stream` at once: `Apart` says that the characters under way and in `buf` are in order of their
lines and that two of them `Cap - 1` places apart belong to different lines.

`ProcCtlProofs`, for any set of process numbers:

* `TypeCorrect`, `ChildrenAreKnown` (`Spec => []NoneForgotten`), `ZombiesStayAnnounced`
  (`Spec => []ZombiesAnnounced`), `StrangersAreSpared` (`Spec => KillsItsOwn`).

The strengthening is `StillOurs`: between fork and kill the number in `pid` is the child's, dead or
alive, or that child has been reaped.

Only model-checked are the liveness properties, which are out of the prover's reach: `RelayDelivers`,
`RequestsAreHandled`, `IdleAreReaped`, `EverySenderIsServed`, `LinkForms`, `LinesArrive`, `AcceptedIsCounted` and
`ChildrenEnd`. `ReapedWereIdle` and `SuccessMeansComplete` are false, and `ReachesAddressee` is without
its hypothesis, as the three runs that violate them show. Every invariant, action property and refinement that a passing run
checks is a theorem.

## Plan

Done: netapi with Msg and the refinement to Mailbox, httpserver, the file transfer with the refinement to OneByOne, talk, cs,
process control, and the theorems above. A theorem could still answer what the weakest hypothesis in place of
`Staggered` is: it should be enough that no connection is accepted between a client's connect and the read of its `reg`.

## Not modelled

* `volatile`: what it shows is what a compiler may do with a variable that is not volatile. Under
  the semantics of its source a counter goes down once a second; only if main lost the processor for longer than that could the
  handler pass zero between two tests.
* The language exercises (`static`, `copy-constructor`, `try-catch`, `virtual_*`,
  `base-derived_compatibility`, `c_str`), `memberfun_threading`, `forkbomb`, `getrusage` and
  `libtest` have no state that outlives a statement or two.
* File transfer: the branches for messages, which `FILEFLAG` compiles out, and the figures of the
  progress display.
* netapi: `recvmsg`, `sendfile`, `recvfile`, `server_close` and `server_routinechek` are declared and never
  defined.
* talk: a full window of a peer that lives (it always reads), the output mutex, a second start of
  a peer. process control: `mysystem`, which is never called, and the children of the command.
* cs: the time measured. The listen backlogs of cs and httpserver are not bounded in the models: a full one
  delays connections and does nothing else.
* Output is left out everywhere.
