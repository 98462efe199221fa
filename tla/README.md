# epoll-server in TLA+

Models, model-checking runs and proofs for the header-only TCP server library
of this repository (`atomic_stack.hpp`, `client.hpp`, `endpoint.hpp`,
`epoll.hpp`, `mem.hpp`, `pool.hpp`, `server.hpp`), for the two programs that
come with it, the echo server in `test/` and the client in `test-client/`, and
for those parts of the HTTP library both programs carry (`httplib.hpp`) that
have state worth checking.  Line numbers below are those of the files under
`src/`.

    tlc -config MCClientPool.cfg MCClientPool      # one run
    tlapm StackAndChainProofs.tla                  # one module's proofs

`PROJECT.json` lists every run, the lines each definition stands for, the
hazards of the code and the properties that look after them.

## 1. The system

| Component | State | Operations | Speaks to |
|---|---|---|---|
| `atomic_stack` (`atomic_stack.hpp`) | `head_`, a `next` pointer per node, the buffer of nodes | `create`, `push`, `pop`, `destroy` | used by `client_pool`: workers push, the server thread pops |
| `client_pool` (`pool.hpp` 25-393) | the slots, their descriptor numbers, the free list, `clientCount_`, `threads_`, `threadCount_`, `lock_` | `run`, `stop`, `add_client`, `use`, `unuse`, `process`, the handlers | owns an `epoll` instance; its workers call `on_input` and friends of the application |
| `epoll`: events (`epoll.hpp`) | the kernel's interest list with its one-shot registrations | `add`, `rearm`, `remove`, `wait` | delivers batches of events to `process` |
| `epoll`: the exit message (`epoll.hpp` 140-226) | the self-pipe and its registration, the counter `wait` is given | `close`, the control branch of `wait` | `close` is called by both `stop()` functions; workers hand the byte on to each other |
| `server_pool` (`pool.hpp` 395-513) | `clientPool_`, `threadCount_`, `lock_`, its own `epoll`, the listener | `run`, `stop`, `bind`, `add`, the accept loop in `process` | feeds `client_pool::add_client` |
| `endpoint` (`endpoint.hpp`) | none | thin wrappers of socket calls | all of the above |
| slot memory (`mem.hpp`, `atomic_stack.hpp` 61-115) | the mapping behind the slots | `genmap`, `delmap` | `atomic_stack::create` and `destroy` |
| echo server (`test/`) | `echo_worker`: `lock_`, `sv_`, `work_` | the command line, `create`, `run`, `stop`, the control panel | HTTP requests in several threads; drives `server_pool` |
| test client (`test-client/`) | a vector of `work` objects, each with `run`, a log and a connection | the command line, `worker()`, start, status and stop pages | a TCP connection per worker to the echo server |
| `httplib`, server half (`http/httplib.hpp`) | a pool of threads with a job queue; per connection a read buffer and what `Connection` says | `listen`, `process_and_close_socket`, `process_request`, `read_content`, ranges, forms, header lines | the handlers of the control panels |
| `httplib`, client half | one socket, two locks, a count of requests in flight | `send`, redirects, `stop` | nothing in this repository calls it |

Both programs carry the same `httplib.hpp`.

What makes it hard, and what would make each part correct:

* **`atomic_stack`** is lock-free and compares pointers only.  `pop` reads
  `oldHead->next` and installs it later (138-141): correct if no slot is ever
  lost or handed out twice, and if the pointer compare is not deceived (ABA).
* **`client_pool`** has workers handling events they were given some time ago,
  while other workers release clients, the kernel reuses descriptor numbers at
  once, and the server thread fills freed slots.  Correct if every slot has
  exactly one keeper at all times (a thread, an enabled registration or the
  free list), a handler only touches the connection its event was about, the
  counter is right, and data and hang-ups are noticed.
* **The handlers** of one client read ordinary and urgent data of one stream,
  told apart by a mark the kernel may move at any time.  Correct if the
  callbacks get every byte once and in order.
* **The exit message** wakes workers one by one.  Correct if there is exactly
  one message, nobody blocks on an empty pipe, the counter is exact and no byte
  survives to hit the next `run()`; and if `stop()` returns even when
  `epoll_wait` has failed in a worker.
* **The listener** is edge-triggered and `accept` may fail.  Correct if a
  connection in its queue is not left there unannounced.
* **`server_pool` with `echo_worker`**: a flag read without the lock decides
  whether a stop does anything, and the caller then joins.  Correct if the
  server thread leaves when and only when told, and the client workers live as
  long as the server, and the slots as long as the workers.
* **The slot memory** is sized in `std::size_t` from a hint, twice, by
  different expressions.  Correct if the nodes lie inside the mapping and
  nothing of it is left.
* **The echo session**: partial sends and receives in both directions, an echo
  that ignores how much was sent.  Correct if the stream arrives unharmed.
* **The test client's panel**: a flag read by a thread before it is set.
* **The HTTP library**: a job queue with a condition variable; connections that
  are kept for several requests, over which a client may send ahead; a parser
  of forms that works on whatever pieces arrive; a client socket that is used
  outside the lock under which it is closed.

Hazards are listed in `PROJECT.json` one by one.

## 2. The modules

| Module | Models | Composes |
|---|---|---|
| `FreeList` | abstract: a set of slots that are free, handed out or on their way back | |
| `AtomicStack` | `push` and `pop` by single atomic accesses | implements `FreeList` |
| `ThreadGroup` | abstract: threads that run from `run()` to `stop()`; once one has broken off, others may leave early | |
| `ShutdownChain` | `client_pool::run`/`stop` with the control branch of `epoll::wait`, and `epoll_wait` failing | implements `ThreadGroup` |
| `StackAndChainProofs` | the proofs of `AtomicStack` and of `ShutdownChain` | extends both |
| `ClientPool` | the server thread's accept loop, the workers, `stop` with its sweep, over a kernel with sockets, descriptor reuse and one-shot events | uses the free list as the set `FreeList` describes, the exit chain as its effect |
| `ClientPoolProofs` | its proofs | |
| `ClientIO` | `process` with every case label and the handlers for input and urgent data, over the receive queue of one connection with TCP's urgent mark | one client of `ClientPool`, which shows that one worker at a time has it |
| `ClientIOProofs` | its proofs | |
| `ServerPool` | `server_pool::run` and `stop` | |
| `EchoWorker` | `echo_worker::run` and `stop` behind the control panel | extends `ServerPool`, implements `ThreadGroup` |
| `CommandLine` | the option loops of both programs | |
| `SlotMemory` | `genmap` and `delmap` under `create` and `destroy`, in `std::size_t` | |
| `Listener` | the listening socket, the server thread's `process` and accept loop | |
| `Server` | `main`, `echo_worker::create`, the constructors and destructors | extends the three above |
| `EchoServerProofs` | the proofs of `Server` and of `EchoWorker` | extends both |
| `EchoSession` | the workers of the test client and the echo over TCP connections | |
| `TestClient` | `load_workers` and the control panel of the test client | extends `EchoSession` |
| `TestClientProofs` | their proofs | |
| `HttpRange` | byte ranges, as operators | |
| `HttpConnection` | a connection of a control panel: its client, the read buffer, `process_request` | extends `HttpRange` |
| `HttpServer` | `listen` and the thread pool | extends `HttpConnection` |
| `HttpServerProofs` | its proofs | |
| `UrlText` | `decode_url`, `to_utf8`, `split`, `parse_query_text`, as operators | |
| `HttpHeaders` | `stream_line_reader` and `read_headers`, byte by byte | extends `UrlText` |
| `Multipart` | `MultipartFormDataParser` | |
| `HttpForm` | `read_content` for forms | extends `Multipart`, `HttpHeaders` |
| `HttpFormProofs` | the proofs of the three | |
| `HttpClient` | `ClientImpl::send` shared by threads, redirects, `stop` | |
| `HttpClientProofs` | its proofs | |
| `MC*` | instances for TLC | |

### How state and actions correspond to the code

**AtomicStack.**  `head` is `head_`, `next[n]` the pointer of node `n` (node
`i` is `&buffer_[i-1]`, 0 is `nullptr`), `node` and `succ` the local variables
of a call, `out` the slots nobody gave back.  One action per access to the
shared `head_`: `PushBegin` (load, and the store to a node only the caller
owns), `PushCas` in its successful and failing forms, `PopBegin`,
`PopReadNext`, `PopCas`, and a spurious failure of the weak exchange.

The model is sequentially consistent.  The code's orders are acquire/release
except that the failing exchange of `pop` is relaxed (138-144), after which
`oldHead->next` is read.  By the letter of the C++ standard that read is not
synchronised with the store in `push`; on the hardware the build targets the
read depends on the pointer just loaded and finds the value stored before that
pointer was published.  The model takes that outcome.

**ClientPool.**  `sfd`, `free`, `count` are the slots, `freeMem_` and
`clientCount_`; `sock`, `reg`, `armed` are the kernel's sockets, interest list
and enabled one-shot registrations; `batch[w]` the events worker `w` got from
`epoll_wait` and has not handled; `apc`, `afd`, `aslot` the server thread
inside `process` and `add_client`.  `unuse` is four steps (close, forget the
descriptor, push, count), because the server thread can come in between any
two of them.  `Disposition` is the `switch` over event flags.  A worker that
meets the exit message drops the rest of its batch (`WorkerExit`), which is why
`stop` sweeps.

Abstractions: a batch is a set, handled in any order; `epoll_wait` reports all
that is ready; a handler reads whatever there is, without the urgent mark
(`ClientIO` has it); `endpoint_unblock` may fail at any time.  Three constants
say what the environment may do: `AddMayFail` (`epoll_ctl` fails),
`EndlessPeers` (a peer sends for ever) and `AppMayShutdown` (`on_input`
half-closes its socket).  Section 3 says what each of them brings to light.

**ClientIO.**  Byte `p` is the `p`-th of the stream; `arrived` and `copied` are
the ends of the receive queue.  The kernel is Linux without `SO_OOBINLINE`: one
urgent position `mark` with the state `urg`, which may be announced ahead of
its byte; `recv` stops in front of it and skips it from there.  The worker is
`pc`: `Process` is the `switch` of `process()` with its case labels as sets of
flags (`InputCases`, `UrgentCases`, `WriteCases`), `Read` and `ReadNothing` the
two receive loops, `Look` is `SIOCATMARK`, `ReadOob` is `recv(MSG_OOB)`.
`handle_epollout` is `WriteCases` in `Return`: no registration asks for
`EPOLLOUT`, so that the application's `on_write_ready` is never called, and
`stale` records whether it would have been called for a released client.

**ShutdownChain.**  `pipe`, `armed` and `runningInstances` are the bytes in
the self-pipe, its registration and `threadCount_`.  Reading the byte,
re-arming, counting out and passing on are separate steps of each worker;
`Decremented` wraps as `std::size_t` does.  `WaitFails` is an `epoll_wait` that
returns -1 in any worker that waits, after which it leaves without counting
out; `failed` remembers that it happened.  The byte the others then leave in
the pipe ends workers of the next `run()` early.  That is what `broken` of
`ThreadGroup` stands for; `stop()` has seen all of them leave even so.

**ServerPool and EchoWorker.**  `threadCount`, `lock`, `pool` are
`threadCount_`, `lock_` and whether `clientPool_` runs; `workLock` and `work`
are `echo_worker::lock_` and `work_`.  The counter has no initialiser
(`pool.hpp` 481; the build uses C++11, where the default constructor of
`std::atomic` leaves it indeterminate), hence the constant `InitialCounts`.
The load of the counter in `stop` is a step of its own, before the byte is
written and before the lock is taken.  A request that finds nothing to do
changes nothing and is not an action.

**CommandLine, SlotMemory, Listener and Server.**  An option is its letter, how
it was written and its argument; one turn of the loop is `Option`, what follows
the loop is `Defaults`.  `Atoi` truncates to an int of scaled width; `Copied`
is the `memcpy` that leaves out the terminating NUL.  `Rounded`, `Bytes` and
`Unmapped` are the expressions of `mem.hpp` modulo `SizeRange`; `buffer` says
which of the four system calls of `genmap` went wrong, two of which the code
looks at.  In `Listener`, `announced` is whether the listener is on epoll's
ready list: an event takes it off, a new connection puts it on again.
`stranded` remembers that the code lost an announcement: `accept` failed with
connections left in the queue, or the event came behind the exit message in a
batch.  `Server` strings them together: `stage` is how far `main` is, with each
call of `create` and each of its failures, and `Destroy` is `~echo_worker` with
the destructors of its members in their order.

**EchoSession and TestClient.**  A byte is its position in the message, and a
direction of a connection is the sequence of bytes between the two
applications.  `Send` and `Recv` take any number of bytes the other side could
have made room for or delivered.  `ServerCloses` turns into an end of stream or
a reset, depending on unread data.  The log counts messages in `unsigned`
and bytes in `int`, as the code does (`Bytes` wraps at `IntLimit`).  The test
of `run` and the socket call that follows it are one step: the panel can only
clear the flag in between, which the next iteration sees.  `run` has no
initialiser either; `Create` picks its first value freely.

**HttpConnection and HttpServer.**  A request is a sequence of parts (line,
header, blank, content) and says what kind it is.  `queue` is the kernel's
receive queue, `buffer` the read buffer of a `SocketStream`, which is made anew
for every request (`NewStream`) and loses what it holds.  `at` is the place in
`process_server_socket_core` and `process_request`; each read that may wait, and
each way it can end, is an action.  `SaysClose` is what `write_response_core`
puts into `Connection`, `AfterReply` what the loop does next.  `astray` records
that a reply left content of its request in the socket, where the next reading
takes it for a request line.  In `HttpServer`, `jobs`, `shutdown` and `thread`
are the pool's queue, its flag and its threads; looking at the queue and waiting
on the condition variable are one step, since the lock is held from one to the
other, while `enqueue` and `notify_one` are two.

**HttpRange and UrlText** are pure: `OffsetAndLength`, `ContentRange`,
`DecodeUrl`, `ToUtf8`, `ParseQueryText` are the functions of the code, in
`size_t` and on bytes, and `Selected`, `Characters`, `QueryText` are their
reference definitions.  The loops over a text (`decode_url`, `split`) are all
`Joined`: what the front of the rest is read as, and how many places it takes.
**HttpHeaders** is the line reader that moves a line
from a fixed buffer to a growing one; **Multipart** the parser, one action per
case of its `switch` and per way to leave it, where the boundary is one
character but everything around it can be cut anywhere; **HttpForm** feeds them
a form in pieces of every size.

**HttpClient.**  The calls of a thread are a stack of frames, since a redirect
to the same host is a `send` inside `send`.  `sock`, `inFlight`, `fromThread`
and `closeWhenDone` are the fields `socket_mutex_` guards, `requester` is the
owner of `request_mutex_`.  What happens between the two critical sections
(`Open`, `Done`) uses the descriptor that `Take` read outside the lock;
`Stop` may come in between any two steps.

The operators called faulty variants in the modules are the code with a
plausible mistake in it.  Each property of a passing run fails when one of them
takes the place of the definition next to it, so that no property holds merely
by the shape of the model.

## 3. What is checked

Several of the checked properties are conjunctions of named parts; the column
*Parts* has them.

| Run | Instance | States | Shows |
|---|---|---:|---|
| `stack` | 4 slots, 2 pushing threads, 1 popping thread | 146,014 | no slot is lost or doubly owned, no ABA with one popper, refinement of `FreeList`, every `pop` returns, `push` is lock-free |
| `pool` | 2 workers, 2 slots, 2 descriptor numbers, `epoll_ctl` may fail, handlers may half-close | 584,483 | one keeper per slot but for those the code loses, descriptors never mixed up, handlers own their socket, exact count at rest and bounded error in between, data and hang-ups noticed, `stop()` returns and leaves nothing |
| `chain` | 5 workers, 2 callers, `epoll_wait` may fail | 56,809 | exact counter and one exit message until a wait fails, nobody ever blocks on the pipe, refinement of `ThreadGroup`, `stop()` returns even then |
| `echo` | server thread and the 8 handler threads `httplib` has by default; `threadCount_` starts at 0, 1 or 2 | 347 | the pool lives as long as the server, no exit message is left over, every start listens unless the counter was wrong from the start, a stop that found the server listening is answered, refinement of `ThreadGroup` |
| `client` | 2 workers, messages of 3 bytes, buffers of 3 | 320,732 | no byte lost, doubled or moved, the echo's chunk always fits, no reply counted as bad, counters agree after they wrap, replies arrive, every page is answered, conversations last |
| `io` | 4 bytes, any of them urgent, read 2 at a time | 41,266 | the handler gets all data in order, announced urgent bytes are taken at their place, clients are released for cause, data and hang-ups are attended |
| `server` | every command line of two options, six capacity hints, 3 connections | 46,579 | a program runs only as its command line says, an address ends where it should, nodes fit their mapping, the slots outlive the threads, connections are accepted, `stop()` returns |
| `http` | 2 threads, 2 connections, 17 workloads | 137,103 | one owner per connection, replies match requests, ranges are honoured, closes are announced, every connection is served, no job is left behind |
| `http_client` | 2 threads and one that stops, 2 descriptors, 2 redirects | 82,921 | the socket is closed only by its user, a reply belongs to its request and `stop()` is heard (both but for a redirect, see below), `send()` returns |
| `form` | 29 forms, every way to cut them | 8,934 | headers, files and fields come out as they were sent |

| Property | Parts, each with a faulty variant that breaks it |
|---|---|
| `AtomicStack!StackConsistent` | `StackTypeOK` (`PopSeesUntested`), `PopSnapshotValid` (`PopKeepsSucc`) |
| `AtomicStack!Progress` | `PopReturns` (`PopRetriesBlindly`), `PushLockFree` (`PushRetriesBlindly`) |
| `ClientPool!Consistent` | `TypeOK` (`SweepUnused`), `DescriptorsConsistent` (`UnuseClearForgotten`), `CountTracksSlots` (`UseUncounted`), `CountAtRest` (`UnuseCountForgotten`) |
| `ClientPool!OneKeeper` | `AtMostOneKeeper` (`EpollWaitNoOneShot`), `NoOrphan` (`RearmForgotten`) |
| `ShutdownChain!Consistent` | `TypeOK` (`CountOutTwice`), `CounterExact` (`RunKeepsCounter`), `PipeReported` (`RearmForgotten`) |
| `EchoWorker!PanelConsistent` | `PanelTypeOK` (`CountOutTwice`), `PoolWithServer` (`StopPoolForgotten`) |
| `EchoWorker!PanelResponds` | `StartListens` (`CountOutForgotten`), `HeardStopReturns` (`StopCloseLocked`) |
| `TestClient!Consistent` | `TypeOK` (`SendTooMuch`), `WorkHasOwner` (`ClearUnjoined`), `EchoFits` (`RecvShort`), `CountersAgree` (`RecvUnlogged`), `NoBadReply` (`SendFromStart`) |
| `TestClient!Responds` | `ReplyArrives` (`SendShort`), `PanelAnswers` (`QuitAtTop`, `ShowWorkerPaused`) |
| `ClientIO!Consistent` | `TypeOK` (`RearmForgotten`), `WriteReadyInTime` (`RequestedOut`), `ReportedUrgentTaken` (`InputCasesWide`) |
| `ClientIO!InputFaithful` | `CallsInOrder` (`LookAnywhere`), `NoDataLost` (`ReadUnheard`) |
| `ClientIO!Attended` | `DataDelivered` (`RearmForgotten`), `HangupReleases` (`UrgentCasesNarrow`) |
| `Server!Consistent` | `TypeOK` (`AddClientUnbounded`), `RunsAsAsked` (`StoredOnce`), `AddressTerminated` (`UnsetUncleared`), `NothingLeftMapped` (`UnmappedSlots`), `QueueAnnounced` (`AddClientOnce`) |
| `Server!Responds` | `QueueServed` (`AddClientBreaks`), `StopReturns` (`UnblockUnchecked`) |
| `HttpServer!Consistent` | `TypeOK` (`AfterReplyOnce`), `OneOwner` (`TakeJobKept`), `CloseAnnounced` (`SaysCloseSilent`) |
| `HttpServer!Served` | `RequestAnswered` (`ContentEndsNever`), `ConnectionServed` (`NotifyNobody`), `ListenReturns` (`ShutdownOne`) |
| `HttpClient!Consistent` | `TypeOK`, `InFlightExact` (`MarkDoneKept`), `OwnSocket` (`OpenLeaks`, `StopCloses`) |
| `HttpClient!Responds` | `StopHeard` (`DoneUnasked`), `RequestReturns` (`RedirectUncounted`) |
| `HttpForm!Consistent` | `TypeOK`, `HeadersIntact` (`GrowAnew`), `FilesIntact` (`BodyKeepsLess`, `NewEntryKept`) |

Two runs show a disagreement between the code and what it says of itself.
`echo_early_stop`: a stop between the creation of the server thread and the
store to `threadCount_` does nothing and then joins for ever, holding the lock
every other request needs (`pool.hpp` 435, `echo.cpp` 135).  `io_oob`: the
`on_oob()` a handler overrides, as `README.md` 74 and `pool.hpp` 115 invite it
to, is never called, since `handle_epollpri` calls that of `client_pool` itself
(356), which is not virtual.  `InputFaithful` therefore promises the derived
handler the ordinary bytes only, and `UrgentHandled`, which `io_oob` refutes, is
what the documentation promises beyond.

A third is not stated as a property.  The echo server's usage message has
`-n, --client-count` as the maximum number of clients, default 100,000
(`test/main.cpp` 25), and the code takes it for the number of workers; the
client's gives 8081 as the default of its `-n` (`test-client/main.cpp` 21), and
the code has 1.  What such a number stands for shows only in another part of
the program.  `RunsAsAsked` says nothing of the server's `-n` but that
it is positive, so that it neither passes on one reading nor fails on the other.

### Exceptions the properties name

Where a property has an exception, the code has a case that a caller should
know of.  Each exception is needed: without it TLC shows the case.

* `add_client` fails after `use()` counted the client and took a slot
  (`pool.hpp` 58-66): both stay taken until `stop()`, and the slot keeps the
  number of a connection that was closed (`Stale`).  `Consistent` and
  `OneKeeper` name these slots; `stop()` closes the number again, whoever has
  it by then.  In the pool that is a connection `stop()` closes anyway; a
  descriptor of another part of the program is outside the model.
* A peer hangs up after `on_input` shut down its own sending side: the event
  has flags `process` has no case for, and the client is neither released nor
  re-armed (`pool.hpp` 283; `HalfClosed`).  `OneKeeper` and `Attended` exempt
  connections closed from both ends and no others.
* A peer that never stops sending keeps a worker in `handle_epollin`, and the
  other events of its batch wait (`pool.hpp` 306).  `Attended` holds for peers
  that pause, and fails with `EndlessPeers = TRUE`.
* A hang-up is noticed before data that came with it: the client is released and
  the data goes unread.  `Attended` is satisfied by either.
* `threadCount_` of `server_pool` has no initialiser.  If the memory holds
  another number than zero, `run()` returns at once, each time, and the panel
  starts nothing (`NeverListens`, `turnedAway`).  If it holds one, a stop sends
  a message nobody reads.  The properties of `EchoWorker` say so, case by case.
* The urgent mark moves between `SIOCATMARK` and `recv(MSG_OOB)` (`moved` in
  `ClientIO`): the newer byte is taken ahead of the data in front of it, and
  when the loop comes to it again the handler takes `EINVAL` for an error of
  the connection and releases a healthy client (`pool.hpp` 344-372).  An urgent
  byte that was announced and has not come does the same (`urg = "notyet"`).
* An `accept` that fails ends the loop over an edge-triggered listener
  (`pool.hpp` 501): connections left in the queue wait for the next one to
  arrive (`stranded` in `Listener`).
* A capacity hint of zero, or one whose arithmetic wraps, has nodes outside the
  mapping (`mem.hpp` 24, `atomic_stack.hpp` 88; `Wraps` in `SlotMemory`).
* `create()` of the echo server never stores `svfd_`; its destructor closes an
  indeterminate number (`echo.cpp` 103; `Destroy` in `Server`).
* A number that wraps an `int` to a positive one is taken for a port or a
  number of workers; two `-i` options leave the tail of the longer address.
  An address as long as its buffer is taken without the NUL, and whoever reads
  it reads on behind it (`AddressTerminated` has both directions).
* A worker of the test client may end before `start()` has set `run`
  (`test-client/run.cpp` 38-42; the condition in `ConversationLasts`).
* HTTP: a reply to HTTP/1.0 says `Keep-Alive` and is followed by a close; a
  client that has shut down its sending side gets no reply; content the server
  refused to read is taken for the next request; a range past the page's end is
  named as it was asked for.
* Forms (`cut` in `HttpForm`): a read that ends inside the first boundary makes
  the parser lose the files before the next one (3927; the byte-at-a-time loop
  marked "For debug" at 5415 would always do so); one that ends inside the
  epilogue makes it look at the rest as if it followed a boundary (3996).  A
  header line of exactly the limit is refused if reads end such that the
  buffer has the line and its CR but not the LF: `buf_find` then returns the
  size of the buffer (3941; `Oversized`).
* Fields of a form without a name (`NamesAndValues` in `HttpForm`): `split`
  leaves out a part that is empty, so that `=a` is read as a field named `a`
  (3832).  Browsers send no control without a name.
* HTTP client: the `send` of a redirect clears what `stop()` has asked for
  (6150; the comment at 7238 promises a close when the request is done), so
  that the connection survives; `told` is cleared with it, and `StopHeard` is
  about requests that are not redirected after the stop.  A 303 drops the
  header of a chunked body and keeps its provider (3797), after which server
  and client disagree on where the request ends, and the client takes the answer
  to the chunks for that to its next request (`mixed`).  `AnswersOwn` exempts
  the connections on which this happened, and says that nothing else does it:
  only a GET inside a followed redirect.  `is_socket_alive`
  takes an unsolicited reply for life; `Answer` does not send one.

### Bounds

* `MaxSends` (pool): chunks a peer may send.  One chunk already gives data
  before, during and after a handler's last `recv`; what the bound hides is a
  peer that sends for ever, for which there is `EndlessPeers`.  `Attended`
  holds for peers that pause.
* Workers, slots, descriptors (pool): two workers give every pair of steps in
  the release of a client; with two numbers over two slots a number is reused
  while its old slot is still being released, and while a refused connection
  still has it in its slot.  The safety results are proved for any number of
  all three.
* `InitialCounts` (echo): zero, the number `stop` looks for, and another;
  `MaxMessages` 2: a counter that starts at one lets each stop write a byte
  nobody reads, and two of them are one more than a reader could meet.
* `Capacity` 4 (stack): ABA needs three nodes.  The safety results are proved
  for any capacity.
* `MaxStale` (chain): bytes over which `run()` may be called.  Only failing
  `epoll_wait` calls leave any.  `SizeMax`: 7 instead of 2^64 - 1, more than
  the number of workers.
* `MaxRounds`, `MsgLen`, `SndBuf` (client): three bytes cut into first, middle
  and last pieces; the second message starts from whatever the first left
  behind; the send buffer is the smallest for which the code can work.
  `IntLimit` 4 lets the byte counters wrap within two messages.
* `MaxBytes`, `BufSize` (io): four bytes hold data before, between and behind
  two urgent bytes; reads of two end in front of, at and behind a mark.  One
  urgent byte is enough for `io_oob`.
* `IntWidth`, `AddrSize`, two options (server): numbers on both sides of the
  signed range, addresses up to one character too long, every pair of options.
  `PageSize`, `NodeSize`, `SizeRange`, `Hints`: hints of zero, below, at and
  above a page, and such that each product wraps.  `MaxConns` 3, `MaxFds` 3:
  more connections than fit with hints of zero to two, and the last descriptor.
* `RecvMax`, `KeepAliveMax`, `PageLength`, `SizeWidth` (http): a `recv` that
  returns the end of one request with the beginning of the next; a connection
  that reaches its limit; ranges at both ends of a page of three bytes and
  beyond, subtracted in a word of 16.  `Workloads` pairs each kind of request
  with a second one; `MaxFds` 2, `MaxAddresses` 1.
* `FixedSize`, `LineMax`, `HeaderMax`, `FileMax`, `PayloadMax` (form): the
  forms lie at, below and above each of them, and at the limits of each length
  of UTF-8.
* `RedirectMax` 2, `MaxReplies` 3 (http_client): a redirect of a redirect, and
  the one that is refused; replies beyond the bound are sent later.

Symmetry is not used: the runs check liveness.
Deadlock checking is off where the system may really stop: `chain` (a stopped
pool whose bound on stale bytes is reached need not be run again), `echo` (the
state `echo_early_stop` shows), `io` and `io_oob` (a released client), `server` (a program
that has ended), `http` (a server that has returned), `form` (a form that was
read).

### Fairness

Threads that are inside a call are run by the operating system: weak fairness
on their steps (`Worker` in `ClientIO` and `ClientPool`, `ServerThread` and
`StopEnd` in `Server`, `Thread` and `Listen` in `HttpServer`, `Send` in
`HttpClient`, the loading, showing and stopping of the test client's panel).
A weak exchange does not fail spuriously for ever: strong fairness on the
exchange of a `pop`, which `PopReturns` needs.  In `ShutdownChain` the kernel
gives a pending control event to some polling worker, not to a particular one.
Reads of the HTTP library end because they have timeouts (`NoInput`,
`KeepAliveTimeout`, `OpenFails`, `ReadFails`); those of the echo session need
none, they poll.  Nobody is obliged to start anything: peers, connections, HTTP
requests, `run()` and `stop()` carry no fairness, nor does a connection attempt,
which may stay pending.


## 4. What is proved

The theorems hold for every value of the constants that the named assumptions
allow; `tlapm` checks every leaf.  Each proof module extends the module it is
about, and the invariants it proves are the ones the runs check.

`StackAndChainProofs`, about `AtomicStack` - from `StackAssumption`, and
`SinglePopper` (at most one thread is inside `pop`, as in the server, whose only
`pop` is the server thread's):

* `StackTypeCorrect`, `ConservationHolds`, `SnapshotHolds`,
  `StackConsistentHolds`.  The inductive invariant is
  `StackTypeOK /\ Conservation /\ PopSnapshotValid`.
  Conservation is not inductive alone: the exchange of a `pop` installs the
  successor it read earlier, so the invariant must know that the successor is
  still the one of the head as long as the head is the one that was read.  The
  list is described as a function from positions to nodes, and a push or a pop
  by the shift of that function.
* `StackImplementsFreeList`: every step is a step of `FreeList` or a stutter,
  with the list's nodes as the free set.  `ClientPool` uses the free list at
  that level.

and about `ShutdownChain` - from the assumptions of the module alone:

* `TypeCorrect`, `CounterHolds`, `PipeHolds`, `ConsistentHolds`, `BatonHolds`:
  the counter is the number of workers that have not counted themselves out,
  the lock has one holder, at most one worker has the message in its hands.
  The inductive invariant says, per phase, where the message is: in the pipe,
  with one worker, or used up by the last one.  The counter is related to the
  set of workers by the cardinality theorems of the library.  When a `write` or
  `read` on the pipe has failed, only the part `Always` is left.
* `ChainImplementsThreadGroup`: a pool of workers with its exit message is a
  `ThreadGroup`: threads that are started, asked to leave, and all leave.

`ClientPoolProofs` - from `PoolAssumption`:

* `TypeCorrect`, `AtMostOneKeeperHolds`, `HandlerOwnsSocketHolds`,
  `CleanStopHolds`: two threads never work on one client, a handler's descriptor
  belongs to its client, `stop()` leaves nothing behind, and `clientCount_`
  does not go below zero - also when `epoll_ctl` fails or a handler half-closes.
  `AtMostOneKeeper` says who may touch a client but not why, so the inductive
  invariant `IInv` follows a client through its life: what the server thread
  has in its hands in each of its places (`Accepting`), that a client in a
  batch or a handler is connected and registered with the registration disabled
  (`Working`, `Reported`), that no two workers have a client in common
  (`Apart`), that registrations and descriptors are inverse to each other
  (`Registered`), that the exit message precedes the join (`Leaving`), and that
  a slot that is taken has a descriptor or somebody at it (`Accounted`).
  `CountInv` adds the counter, by the cardinality theorems of the library.
* `ConsistentHolds`, for every value of the three constants that say what the
  environment may do: it needs `Used`, that a slot with a descriptor is
  registered under it, or being added or released, or left behind by a refusal.
  A number that is in a slot and not registered there is then `Stale`
  (`LeftIsStale`), and of two slots with one number at least one is
  (`SameNumber`).  `CountAtRest` follows because the other slots that are taken
  and the open descriptors correspond one to one.
* `OneKeeperHolds`, also for every value: it needs `Heard`, that every event in
  a batch has a case in `process` unless its connection was closed from both
  ends, and that a slot nobody keeps is one of the two kinds the property names.

`ClientIOProofs` - from `IOAssumption`:

* `InputFaithfulHolds` (the derived handler gets the data): for a stream of any length, in any pieces, read with any
  buffer, wherever urgent bytes are.  `Marked` says that the mark is about an
  urgent byte that is not yet off the queue, so what `recv()` skips is never
  data (`Received`, `InputCalls`); `Heard`, that what the callbacks have had is
  off the queue, but for an urgent byte just taken, which is skipped next.
* `ConsistentHolds`: `Events` is the list of the events that can be reported,
  and `HandlerKnown` goes through the switch for each.  `Announced` follows an
  announced urgent byte to the handler that takes it.
* `ReleasedForCauseHolds`, an action property, from the same invariant.

`EchoServerProofs`, about `Server` - from the assumptions of `CommandLine`,
`SlotMemory` and `Listener`, for every command line, page and node size, width of
`std::size_t`, capacity hint and number of connections:

* `ServerConsistentHolds`, `SlotsFitHolds`, `MemoryOutlivesThreadsHolds`.  The
  inductive invariant `LifeInv` has a part for each of the modules that `Server`
  extends and one for `main`.  `CommandLineInv` relates the settings to how far
  the loop over the options has come (`Reading`): `RunsAsAsked` speaks of the
  whole command line, which holds only at its end.  `MemoryInv` has the number of
  bytes that are mapped; `SlotsFit` follows by arithmetic in machine words
  (`RoundedUp`): rounding never wraps past the next page, because the word is a
  multiple of the page, and the products do not wrap unless `Wraps` says so.
  `ListenerInv` follows the announcement of a queued connection from the kernel
  through the server thread's batch.  `ProgramInv` says in which stages of
  `main` the slots are mapped and threads run, and with that the slots outlive
  the threads.

and about `EchoWorker` - from `ServerAssumption` and `EchoAssumption`, which let
`threadCount_` start at any number:

* `PanelTypes`, `PoolFollowsServer`, `PanelConsistentHolds`, `MessagesRead`: the
  control panel never leaves the pool in a state its display denies, and no
  exit message is sent that nobody reads.  The invariant names the one handler
  inside `echo_worker::stop` and what it has done so far; it has a case for a
  counter that follows the server thread (`Listening`) and one for a counter that
  was wrong from the start and never changes (`Deaf`).
* `PanelImplementsThreadGroup`: the server as the panel drives it is a
  `ThreadGroup`; a thread that a wrong counter turns away breaks off.

`TestClientProofs` - from `SessionAssumption`, and `NoWorkerAssumption` (the
value for "no worker" is not a worker):

* `StreamIntactHolds`: what a worker has back, what is on its way and what it
  has yet to send make up its message, for messages of any length, any send
  buffer that takes one, and whatever pieces the calls take.  `StreamIntact`
  says nothing of a connection the server has closed, and there a complete reply
  must still arrive: `Flowing` adds it, and `Plumbed` that nothing is in a
  direction that is closed.  The argument is about the stream as one sequence
  (`Chain`): reading and writing move a border inside it (`ChainRead`,
  `ChainWrite`, `ChainRecv`), and only `send()` makes it longer, by the next
  piece of the message (`ChainSend`, `MessagePiece`).
* `ConsistentHolds`: types, owners, `EchoFits`, `NoBadReply` and
  `CountersAgree`.  A buffer as long as the stream is all of it (`ChainDone`),
  hence every complete reply is good and is counted as such (`Logged`).  That
  the bytes agree after `int` has wrapped is `BytesAgree`, for any message
  length and any width of `int`.
* `ConversationLastsHolds`, an action property: `Wanted` says when `run` can be
  FALSE for a thread that is in its loop.

`HttpServerProofs` - from `ServerAssumption`: the pool has a thread
(`CPPHTTPLIB_THREAD_POOL_COUNT` is at least 8), and connections are neither
threads nor the states of one; `ConnectionAssumption`: the types of what clients
do, a page that fits in memory, and limits that are not zero; and
`SizeWidthAssumption`.

* `ShutdownDrainsHolds`, `OneOwnerHolds`: the inductive invariant `IInv` follows
  a connection from the listening thread (`Listening`) through the queue
  (`Queued`) to a thread (`Taken`), and says when threads may end: only when
  the flag is set and the queue is empty (`Ending`), after the last connection
  was queued.  Of the requests it needs only that a thread moves its own
  connection and never back into the queue (`ExchangeMoves`).
* `TypeCorrectness`, `ConsistentHolds` (with `CloseAnnounced`),
  `RangesHonouredHolds` and `RepliesMatchHolds`, for any number of requests of
  every kind, sent one by one or ahead, and any pieces that `recv` returns.
  What has been read, what waits in the kernel and what is still to be sent
  change with every step; what does not change is all that a client will ever
  send.  The second invariant `EInv` therefore sees a connection as one stream of
  parts with a position in it.  `Streaming` says that buffer, queue and the rest
  are consecutive pieces of the stream, and `AllPartsShape` what a stream of
  requests looks like: each is a line, at most one header line, and the rest,
  in order.  On that rest `Ordered` (replies go to ever later requests, none of
  which is still to come), `Announced` (a request that asks to close has been
  read past its headers before a reply is written, and a close for it has been
  said), `Ranged` (a 206 is what `apply_ranges` makes of its request) and
  `InTurn`.  The last is what `RepliesMatch` needs: the replies to a client that
  waits for each of them are those to its first, second, ... request.  Such a
  client cannot have sent beyond the request after those that were answered, so
  that the server is in step with it (`InStep`) until a reply leaves content of
  its request in the socket (`astray`).
  Most actions either go ahead in the stream or decide on a status;
  `ForwardInv` and `ReplyInv` are about those two kinds of step, and each action
  is an instance of one.  That the parts of a reply to ranges are exactly the
  bytes asked for is `PartExact`, for every page and every pair of numbers that
  `size_t` can hold.

`HttpClientProofs` - from `ClientAssumption`:

* `ConsistentHolds`: the counter of requests is exact, all of them belong to
  one thread, and the client has at most one descriptor, which a call keeps
  (`Using`).  A call is its frames: an action changes the top one (`Topped`),
  pushes or pops, and what the counter needs is their number.
* `AnswersOwnHolds`: `Clean` says that only the reply being read can be due,
  unless the call has failed and will close the connection, or chunks went over
  it without the header that announces them.  `Announced` says which requests
  can do that: what a caller asks for has its header (`Prepared`), and only the
  frame of a followed redirect can be without, as a GET.

`HttpFormProofs` - from `FormsAssumption`, `PayloadAssumption`,
`MultipartAssumption` and `HeadersAssumption`, that is for any header lines with one colon that counts and
without escapes, any files with no boundary in them, any preamble and epilogue,
any fields with names, and any sizes of the buffers and limits:

* `ConsistentHolds`, which is about two texts that arrive in pieces of any
  length.  The proof says of each text what is left of it behind every line
  (`TextLeft`) and every file (`After`), one in front of the other (`Then`), and
  the invariant says where the reader is: the line it has begun and the bytes it
  has not read make what is left behind some line (`Behind`), and what the parser
  keeps and what is unread make what is left at its place in some file (`Track`:
  before the first boundary, at an entry, in its headers, in its content or
  behind it).  A step moves a piece from one side of that place to the other.
  For the headers this needs that a line ends where it was written to end
  (`LineSplit`) and that `parse_header()` gives back the name and the value
  (`ParseHeaderIs`); for the files, that a mark is found just where the form
  has it (`FirstBehind`, `FoundMark`): a content that ends in the beginning of a
  boundary makes none with the boundary that follows it, so the first one in
  the text is the real one, and as long as it is not whole, the characters
  `Body` keeps are all that it can have begun with (`BodyWritten`).
  `HeadersIntact` and `FilesIntact` follow at every place (`FormConsistent`).
  The proof needs that no read has cut the text where it must not in two steps,
  in front of the first boundary (`PreambleSkipped`) and behind one
  (`BoundaryPassed`), where the parser throws away what it cannot tell.
* `FormReadBackHolds`: a form is accepted only whole, and refused only for a
  reason that `Excused` lists.  `AnswerInv` adds to the places above why each
  answer is right.  `Refused` and `Failed`: the readers stop only at what is too
  large.  `Waits`: a parser that asks for more has used up all it can, so that
  one that gets no more is behind the end of the form (`EndReached`).  `Sealed`:
  `valid` is set there and nowhere else.  `BodyRead`: what is not parsed is in
  the body.  The first header that names the type decides which of them counts
  (`AnnouncedRead`).
  For the fields of a form the proof is about `Joined`.  If a text is made of
  parts, and each is read as it should be whatever follows it (`PartRead`), the
  loop reads the whole as the parts one by one (`JoinedIs`).  The escape of a
  character is such a part (`EscapeRead`), and so are the bytes of a character
  in UTF-8, of any length (`Utf8Read`), and a field with the separator behind
  it (`FieldAtFront`).  From these, `DecodedIs`, `CharactersAre` and `SplitIs`
  give back what was written, and since different fields are written as
  different texts (`SameField`) those that `parse_query_text` skips are those
  sent twice (`FieldsBack`).

Only model-checked:

* All liveness properties: fairness and `ENABLED` are out of the prover's reach.
  Every invariant and every action property of the passing runs has a theorem.

The library's induction theorems take an operator as their parameter, which the
backends cannot instantiate.  Where a proof needs an induction over numbers, as
for the concatenation of the parts of requests (`FlattenUnfolds`), it is stated
about a set of numbers: one that is not empty has a least element
(`LeastNumber`).  The inductive invariants were checked by TLC, on the instance
of the run of their module, before they were proved, but for that of
`HttpFormProofs`, which quantifies over all texts.  No module declares a RECURSIVE
operator: recursive functions and folds are used.

## 5. What is not modelled

* `endpoint.hpp`: the UDP sockets, and the helpers that format addresses: the
  server uses neither.
* The text of the pages and answers of the test client, and the contents of
  what is echoed beyond lengths and order.
* `httplib.hpp`, where the test client does not reach it: TLS, compression,
  proxies, authentication, content providers and file mounts, regular
  expressions beyond the literal routes, the global convenience functions.
  Left out of what it does reach: `Expect: 100-continue`, DELETE and OPTIONS,
  the 500 for a descriptor of `FD_SETSIZE` or more (5848), and a reply that waits
  for the send buffer.  HTTP/1.0 with `Connection: Keep-Alive` is treated as
  HTTP/1.1 is, and has no value of its own.
* Two requests of one kind at the panel at the same moment: the handlers share
  a vector without a lock (`src/test-client/run.cpp:178`), and what the program
  does then is not defined.
* Two callers of `server_pool::stop` other than through `echo_worker`: the
  second message would end the next `run()`.  The panel's lock keeps its callers
  apart.
* An `epoll_wait` that fails for another reason than a signal in the server
  thread, and the order of the destructors after that.
* An `epoll_ctl` that fails to re-arm the self-pipe (`epoll.hpp` 199-204): it is
  thrown out of a thread and ends the program.
* Memory ordering.  `AtomicStack` interleaves its steps sequentially.  The code's
  exchanges are `memory_order_release`, or `memory_order_relaxed` when they
  fail (`src/atomic_stack.hpp:124-143`): a `pop` whose exchange failed reads
  `next` of the node it was given without acquiring it.  On machines that keep
  the order of dependent loads the difference cannot be seen.

## 6. Plan

1. An abstract pool of connections, implemented by `ClientPool`.
2. `Expect: 100-continue`, and replies that wait for the send buffer.
