# Verification of the job scheduler and the HTTPS proxy

The repository holds two programs:

* `load_balancer/jobScheduler.cpp`, a single-threaded scheduler. It reads file
  requests and completions from a socket and assigns requests to file servers.
* `https_proxy/`, a multi-threaded CONNECT proxy on Boost.Asio.

This directory holds TLA+ models of their core logic, TLC configurations that
check the models on small instances, and TLAPS proofs about the scheduler and
the proxy for all sizes. `PROJECT.json` lists the components, runs, mutants, hazards and
theorems, and maps every definition that models code to the lines it models.

    tlc -workers 2 -config lb_safety.cfg MCLoadBalancer
    tlapm LoadBalancerProofs.tla

## 1. Inventory

### The scheduler (`load_balancer/jobScheduler.cpp`)

| Component | State | Operations | Interacts with |
|---|---|---|---|
| `Request`, `Average` | size, forced, three times; sum and count | `start`, `complete`, `set_forced`, `get_arrival_time` (an `int`), `get_service_time`, `operator<`; `record`, `query` | read by `LoadBalancer` and `ServerStatistic` |
| `ServerStatistic` | `requests`, `requests_completed`, two averages | `process_request`, `record_request`, `operator<` | lives in two `std::priority_queue`s ordered by its averages |
| `LoadBalancer` | two priority queues of servers, two deques of requests, maps `processing` and `requests`, forced counters, `multiplier`, `timeout_trigger` | `handle_request`, `handle_completion`, `handle_next`, `handle_timeout` | called by the loop of `main` |
| Loop of `main` | buffer, `cycles` | read, parse, handle every line, `handle_next` once per line, send, now and then `handle_timeout` | socket of the emulator `server_client` |
| Emulator `server_client` (binary) | the client's script, the executing requests | submits `name,size`, reports `Fname` | environment |
| `jobScheduler.py`, `plot.py`, shell scripts, configurations | - | handout template, evaluation, input data | not modelled |

What makes it correct: no file is lost or dispatched twice; the queues hold
exactly the idle servers; the counters of a server and of the forced requests
are what they claim to count; no server idles while a request waits; the
priority queues keep the order their comparison needs; every submitted file
completes.

What is hard: the program is sequential, but requests, completions and the
clock reach it in any order, and batches group them arbitrarily. The stream
that carries them is cut by reads that know nothing of lines, into a buffer
that is reused, and an exception skips whatever was left to do. Three
mechanisms (dispatch, forced dispatch, completion) update the same queues and
counters, each relying on something the others maintain. `handle_timeout` gives
a server a request without removing the server from its queue.
`record_request` infers from two counters that a request ran alone.
`handle_next` is called as often as there were lines, however many matches
those lines allow.

### The proxy (`https_proxy/src`)

| Component | State | Operations | Interacts with |
|---|---|---|---|
| `Server` | welcome socket, eight worker threads | `listen`, `handle_accept`, shutdown on SIGINT | creates one `Connection` per client, on the accepting thread |
| `Connection` | two sockets, two buffers, mutex, start and end time, `total_size` | constructor (validation), `handle_connection`, `handle_read`, `end`, destructor (telemetry) | handlers run on any worker; two at a time per connection |
| `Blacklist` | hostnames | `add_entries`, `is_blocked` | consulted by the constructor of `Connection` |
| `Logger` | file, level | `write_*` | called from every thread |
| `context`, `main` | the globals | construction, command line, destruction | the logger is destroyed before the `io_context`s |

What makes it correct: bytes are relayed in order, without gaps, both ways;
when one side leaves, the connection ends as a whole, its timer stops and the
object goes away; one connection does not hold up another; every client is
answered; SIGINT ends the process, and no thread outlives the logger.

What is hard: handlers of the two directions run concurrently with each other
and, at first, with the accepting thread; writes block; a peer may close,
reset or fall silent between any two steps; the object lives as long as some
handler still refers to it. All connections share eight threads, all headers
are read by one, and both kinds of thread wait in calls that SIGINT does not
end.

## 2. Modules

| Module | What it is |
|---|---|
| `ServerStatistic` | `Average`, `ServerStatistic` and the order of servers, as pure operators |
| `LoadBalancer` | the class `LoadBalancer` with the loop of `main`, the emulator as environment; all scheduler properties |
| `JobDispatch` | abstract specification: what a scheduler of this kind promises, with no queues or counters |
| `LoadBalancerInvariant`, `ConnectionInvariant`, `ServerInvariant`, `JobSchedulerInvariant` | the inductive invariant `IInv` of each; a run of each checks it |
| `LoadBalancerHistory` | `LoadBalancer` plus a history variable: which requests ever shared a server |
| `LoadBalancerProofs` | type correctness, `IInv` is invariant, and the safety properties that follow; stability of the queue keys; `LoadBalancer` implements `JobDispatch` |
| `LoadBalancerTimeoutProofs` | which requests calibrate a server, the backoff, the age check |
| `JobScheduler` | the receive loop on the byte stream: reads, buffer, parsing, exceptions, sends |
| `JobSchedulerProofs` | type correctness, `IInv`, the names of the servers, and that completions are real |
| `JobSchedulerDelivery` | the inductive invariant `DeliveryInv` of `JobScheduler` where nothing is late or torn |
| `JobSchedulerDeliveryProofs` | there every line is delivered once and in order, what rests is finished, and the program implements `JobDispatch` |
| `LineDelivery` | abstract specification: every line is handled, once and in order |
| `Connection` | one proxied connection: accepting thread, workers, mutex, sockets, peers |
| `ConnectionProofs` | `IInv` and the safety properties of one connection; it implements `Tunnel` |
| `Tunnel` | abstract specification: two FIFO relays between two peers |
| `Server` | the life of the proxy: command line, accept loop, shared workers, SIGINT, the end of the process; extends `Admission` |
| `ServerProofs` | `IInv` and the safety properties of the process, and what the blacklist refuses |
| `Logger` | the levels, and insertions into the log without a lock |
| `LoggerProofs` | the log is intact as long as no two insertions overlap |
| `Admission` | command line, blacklist and the checks of the constructor of `Connection`, as pure operators |
| `RecursionProofs` | induction on the naturals and definitions by recursion, in a form the provers can use |
| `MC...` | what TLC instantiates, one for each of the modules above that runs use |

How they compose. `LoadBalancer` and `JobScheduler` model the same program at
two levels: `LoadBalancer` has whole lines and every queue and counter,
`JobScheduler` has every byte run and leaves the choice of request and server
open. Both implement `JobDispatch`, `JobScheduler` together with the stream and
`LineDelivery`. `Connection` and `Server` likewise: one connection in full, and
many connections reduced to the threads and the mutex they hold. `Server`
extends `Admission`: the exit codes and the statuses it chooses among are those
the checks give for some command line, and for some header and the blacklist.

Operators whose comment starts with "Faulty variant" are not part of a
specification. Each is a wrong version of the definition after it and is used
to show that a property can fail (section 5).

### LoadBalancer and the code

| Action | Code |
|---|---|
| `ReadBatch` | `read` in the loop, and the split of the buffer into lines (578-584, 505-507) |
| `HandleLine` | one turn of the loop over the lines (508-515): `handle_request` (281-291) or `handle_completion` (259-279) with `record_request` (169-186) |
| `HandleNextDispatch`, `HandleNextNothing` | one call of `handle_next` (293-345) |
| `SendScheduled` | the `send` at the end of the batch (519-521) |
| `HandleTimeout` | `handle_timeout` (347-390) when it dispatches, and its `send` (524-529); when it returns `""` it changes nothing |
| `Tick`, `ClientSubmit`, `ServerFinish` | the clock and the emulator |

* A request is the number of its arrival. File names do not repeat in any
  client configuration, so the number also stands for the name and for the map
  entries. Both deques are appended to in arrival order only, so a deque is a
  set and its front the smallest member.
* A priority queue is a bag of servers (`[Servers -> Nat]`: a faulty program
  could push one twice). `std::greater` on `ServerPtr` resolves to the global
  `operator<`, so the top is a least server; any least one may be the top.
* Averages are exact fractions. The code's doubles are exact on the sums of
  milliseconds that occur and differ only in the last place of a quotient.
* `get_arrival_time` keeps its narrowing to `int`: the clock is taken modulo
  `IntModulus` (2^32 in the code, 8 in the runs) and made signed.
* The code calls `handle_timeout` after every eleventh pass. The model allows
  it after any pass, which includes every schedule the code can have.
* Lines arrive whole. A line split between two reads, a full buffer,
  exceptions and failed sends are in `JobScheduler`.

### JobScheduler and the code

| Action | Code |
|---|---|
| `ReadNames` | the first `read` and the construction of the `LoadBalancer` (571-577) |
| `ReadLines` | `read` in the loop (580-582) and the split into lines (506-507) |
| `HandleLine` | one turn of 508-515; `handle_request` (281-291, 481-492) or `handle_completion` (259-279) |
| `HandleNext` | one turn of 516-518 |
| `FinishBatch` | `send` and `memset` (519-521, 583) |
| `HandleTimeout` | 524-529 with its `send`; `*end()` when there is no server |
| `Announce`, `Submit`, `Finish` | the emulator |

* A cell is a run of bytes the parser treats alike: a name, a comma, a size,
  the mark `F`, a line end. `ReadInto(k)` overwrites the first `k` cells of the
  buffer and leaves the rest, which is how `read` treats the bytes. A cut may
  also end inside a name or a size (`ReadBeforeOld`): one piece ends what is
  read, the other stays in the stream. File names are decimal numbers, so
  nothing is known of a piece: `handle_request` and `handle_completion` take a
  name that holds one, or several numbers run together, for that of any file or
  of none (`Readings`), and `std::stoi` takes a piece for a size or throws.
* `parse_with_delimiter` returns the pieces before each delimiter and drops the
  rest, as 458-470 does; it is the last value of a function on the prefixes of
  the text, so that it can be proved about. Names are sequences of cells, so the names that cuts
  and old bytes produce are compared as the code compares them.
* `Throw` is the `catch` at 591: the rest of the batch, its `handle_next` calls,
  its `send` and the `memset` are skipped. `Crash` is a null or out-of-range
  access (262, 490); the process need not survive it, and the model ends there.
* A buffer filled to the last byte has no NUL; `Texts` then lets the string end
  in a further line of anything. `spoiled` records that this, or an exception,
  has happened.
* The emulator executes a file once, also when it is told to again: what the
  binary does with a second order for the same file is not known. In `js_lines`
  there is none: a name that was given to a server does not wait again
  (`Assigned`).
* `NamesOnTime`, `WholeReads`, `WholeSends` choose the environment: all true is
  the one in which the program can be right, all false the worst one.

### Connection and the code

`pc` is the accepting thread in `handle_connection` (94-147), one step per
blocking call. `handler[d]` is the asynchronous read of direction `d` and then
its handler: `armed` (pending), `ready` (completed, queued), `locking` (a worker
is before `lock_guard`, line 177), `writing` or `closing` (it holds the mutex),
`none` (the loop of this direction is over). The start of the second read is
two steps, `BeginArmServer` and `EndArmServer`, because it happens without the
mutex while the first handler may run.

A chunk is what one read returns, numbered by its sender. TCP is a bounded
sequence each way: a write waits for room; a close lets what was sent arrive; a
reset may destroy it; a peer that vanishes may be reported, once, as
`timed_out`, which `handle_read` does not treat as an end (178-180), and then
reads end of file. It need not be: the code sets no `SO_KEEPALIVE` and gives its
reads no deadline, so the report is an action without fairness.
Closing a socket with unread data resets the stream, which may destroy what was
on its way. `Destroyed` means that no handler holds the object any more.
`total_size` is an `int`: past `IntMax` its value is undefined in C++, and the
model allows the wrapped value and an unchanged one.

`TunnelState` maps a connection to a `Tunnel`: closed until the status line
200, up while both peers stay, down for good afterwards.

### Server and the code

| Part | Code |
|---|---|
| `Main` | main.cpp 9-58: an exit code of the command line, or `Server::create` and `listen`, which may fail (server.cpp 24-56) or start the workers and the first `async_accept` (60-66) |
| `main`, from `waiting` to `rearming` | `accept_ctx.run()` and one call of `handle_accept` (server.cpp 66, 70-106), one step per blocking call: `remote_endpoint` (73), `read_until` (79), the constructor (88), `handle_connection` (89), `async_accept` (105) |
| `handler[c][d]`, `lock[c]` | as in `Connection`, without data; a handler in `locking` or `writing` takes one of the `workers` |
| `Interrupt` | `interrupt_handler` (18-22): both contexts are stopped; what runs goes on |
| `AcceptReturns`, `WorkerReturns`, `JoinAll` | the end of `run()` in each thread, `join_all` (66-67) |
| `CloseLog`, `DestroyLogger`, `DestroyContexts` | main.cpp 60, then the members of `context` in reverse (context.hpp 10-18) |

A client may be `Silent` (sends no header) or `Hasty` (may leave before it is
served). A tunnel may be `Stuck` in either direction or in both: its server
("up") or its client ("down") never reads what the tunnel carries, and a write
that way need not return (`Blocked`) unless the client leaves. SIGINT is one
step: `std::signal` keeps the handler, and a second one stops what is stopped.
`terminated` is the
end by an exception nobody catches. `ReadHeader` may fail only because the
client left; a header over the limit of `streambuf` does not exist.

### Logger and Admission and the code

An insertion into the `ofstream` is two steps, the copy to the put position and
the move of the position; two at once are a data race, whose outcome is the
position moved from either value. Insertions of one thread do not overlap.
`Gate` holds the five literals of logger.cpp 35-83, of which `write_error`'s is
4. `Init` gives the level `main` may set: `fatal` cannot be set (main.cpp
25-39).

In `Admission` a host and a line of the blacklist are sequences of letters, and
a header is what the two regular expressions of connection.cpp 13-14 tell apart.
`ExitCode` is main.cpp 10-56, `Status` the constructor up to the blacklist
(connection.cpp 36-67), `Finds` is `std::string::find`. The entries are a set:
`is_blocked` asks only whether one of them occurs in the host.

## 3. Runs

| Run | Instance | Shows |
|---|---|---|
| `lb_safety` | 2 servers, 4 requests, 1 tick | type and inductive invariant; each file is in one place; a server is queued exactly when idle; active counts exact; queues homogeneous; work conserving; the age check never holds a request back; keys of queued servers stable; implements `JobDispatch` |
| `lb_live` | 2 servers, 3 requests of two known sizes or a withheld one | every submitted file completes; the scheduler is as prompt as `JobDispatch` |
| `lb_history` | 1 server, 4 requests, 2 ticks | counts of forced requests exact, backoff bounded, with overlapping waves of forced requests; the counters of a server remember that a request was shared; only requests that ran alone calibrate a server |
| `conn_safety` | 4 chunks each way, one of them read with the header, 2 workers, a tiny `int` | inductive invariant; relaying is in order and without gaps; the close does not overtake data; the size is exact; the only race on a socket is with the accepting thread; the timer runs on only after both last writes failed; implements `Tunnel` |
| `conn_live` | 3 chunks, one read with the header, 1 worker | a connection that a peer closed or reset is destroyed; data is relayed when the peers are independent, as promptly as by a `Tunnel` |
| `js_lines` | 2 servers, 4 files; names on time, whole reads and sends | inductive invariant of the delivery; every line is handled once and in order; implements `JobDispatch`; every file finishes |
| `js_faults` | 1 server, 2 files, a buffer of 8 cells; every fault | inductive invariant; until an exception is caught or a text runs past the buffer, no file is reported completed more often than the emulator wrote so |
| `srv_pool` | a tunnel stuck both ways and a hasty client, 3 workers, SIGINT; hosts and 2 lines of up to 3 letters of two | inductive invariant; the logger outlives the threads; telemetry is lost only in the queue; refused exactly when listed; every client that sent its header is answered; one connection neither end of which reads does not stop another; SIGINT ends the process unless a call holds a thread up |
| `conn_stall`, `js_cut`, `srv_silent`, `log_race` | smallest instance that shows it | the findings of section 6 |

Why the bounds suffice. Two servers give every relation between queues: both
empty, one each, both in one, one calibrated and one not. Four requests on two
servers let a forced request share a server, complete before or after the
dispatched one, and leave requests waiting in both deques. Overlap of two waves
of forced requests needs one server and four requests: force, force, complete,
force. With `IntModulus` 8 and `Epoch` 1003,
`get_arrival_time` wraps from 3 to -4 at the first tick, so arrival times on
both sides of the wrap are compared with each other and with the clock.
`HalfSecond` 1 lets a timeout expire within the ticks. In `Connection`, one
chunk comes with the header; two or three beyond it, with capacity 1, let a
write block with a chunk in the buffer and one more in each stream. `IntMax` 2
makes `total_size` overflow within the chunks of `conn_safety`. The proofs of
section 7 remove these bounds for every safety property of `LoadBalancer`,
`Connection`, `Server` and `JobScheduler`.

`JobScheduler`: the names of two servers are as long as a request line and its
end, the case in which old bytes could line up with new ones; four files on two
servers make batches of several lines, of both kinds. In `js_faults` a buffer of
8 cells is shorter than two lines and their ends together with a completion, so
reads fill it, cut lines, and leave old cells behind new ones after an
exception; a message of one server and two files suffices for that, and two
files let the piece of one name be taken for the other. Behind the first
exception or over-long text nothing is claimed of completions, so the run follows it for
three handled lines only (`FewLinesAfterwards`). `Server`:
one stuck connection takes two workers, one in the write and one at the mutex,
whichever of its ends does not read,
so three workers leave one for the other client: the mutant with one thread
fewer fails. Eight workers and three such connections are the same picture. Two
clients give one in the backlog, or in service, behind one in a tunnel.
`Logger`: two threads and one call each show the race. Hosts and lines of up to
three letters let a line be absent, a prefix, an inner part, a suffix, the host
itself or longer.

`CHECK_DEADLOCK FALSE`: the client may stop submitting and peers may say
nothing, so both systems may come to rest; the process may end; the calls of
`Logger` are bounded.

## 4. Fairness

* Scheduler: weak fairness of `ReadBatch`, `HandleLine`, `HandleNext` and
  `SendScheduled`. The loop of `main` never waits longer than the receive
  timeout of 100 microseconds (557-562) and has no other blocking call but
  `send`. Each file server finishes what it executes (`WF` per request);
  otherwise nothing can be promised. The client is not fair, and neither is
  `HandleTimeout`: progress does not depend on it.
* `JobScheduler`: weak fairness of the loop, of the first message of the emulator
  and of each file on a server; `js_lines` needs no more, because `HandleTimeout`
  only ever helps.
* `Connection`: weak fairness of the accepting thread, of each direction's handler
  and of the completion of a pending read that can complete: each has a thread
  that nothing else delays for ever. The read from a peer that vanished need
  not complete once what it sent has been read (`Heard`): with nothing in flight TCP has nothing to
  miss. A peer that stays reads what it is sent,
  and, in `conn_stall`, sends the answers it owes. Peers need not send or leave.
* `Server`: weak fairness of the accepting thread, of the shutdown, of the return
  of a worker, and of a header that is going to be sent. Strong fairness of
  accepting each client and of each handler: the backlog of the kernel and the
  queue of the `io_context` are FIFO and the mutex is released between handlers,
  so nobody is passed over for ever, while a worker that is now and then free is
  not free all the time. Clients need not connect or leave, neither end of a
  tunnel needs to read, and nobody needs to press ^C.
* `LineDelivery` and `Tunnel` promise that what was sent is handled or delivered
  (while the tunnel is up); the refinements show that the loop's and the
  threads' fairness gives it.

## 5. Mutants

Every property of a passing run has a mutant in `PROJECT.json`: a definition of
the code replaced by a plausible mistake (a counter compared before it is
incremented, a queue chosen from the old state, one buffer for both
directions), under which TLC finds the property violated. For example,
counting only request lines when deciding how often to call `handle_next`
breaks `WorkConserving`; then `handle_timeout` gives a request to a server that
is still queued, and `QueuedKeysAreStable`, `IInv` and `ImplementsJobDispatch`
fail with it.

## 6. Findings

Each is a run with `expect: violation`, quoted in `PROJECT.json`. `README.md`
here and below is that of `https_proxy`.

* `conn_stall`: the mutex is held across a blocking write (connection.cpp:177,
  191). With a server that answers at length before it reads on, both directions
  stop for ever although the client reads everything it is sent (README.md:131).
  With peers that read independently (`conn_live`) the property holds.
* `js_cut`: `read` may return part of a line (580). `parse_with_delimiter` drops
  it, as its own comment warns (459), and `memset` erases it. The file is lost,
  and the assertion of plot.py:31 on the run fails.
* `srv_silent`: one client that sends no header stops the accept loop (79) that
  README.md:108 says is not held up.
* `log_race`: `Logger::write` takes no lock (README.md:97 says thread-safe).

Further places where the code does less than its documents say. A property
delimits each, by stating exactly what is left, or a constant of the instance
leaves it out:

* The second `async_receive` (connection.cpp:139) is not covered by the mutex
  that README.md:110 says prevents any race on the sockets.
  `SocketAccessesAreExclusive` shows that it is the only such access.
* A write that throws (192-195) ends a direction without `end()`.
  `TimerStoppedWhenDestroyed`: the timer, and with it the telemetry, is missed
  only if the last writes of both directions failed (README.md:132).
* A peer that vanishes without a word is not noticed while nothing is sent to
  it (no `SO_KEEPALIVE`, no deadline): its connection stays for ever, although README.md:132
  says "exceptionally or otherwise". `DestroyedAfterAPeerLeft` is about peers
  that closed or reset the connection, and excepts the one case in which that is not enough: a failed write to
  a vanished peer ended the loop that would have heard of it (`LostItsWriter`).
* `handle_connection` ignores `initial_data` (94): what a client sends right
  behind its header is lost (README.md:131). `RelayedInOrder` and
  `ImplementsTunnel` hold for all the rest.
* `total_size` is an `int` (211): `SizeIsExact` up to its largest value.
* The result of `send` is ignored (jobScheduler.cpp 520, 527) although the socket
  has a send timeout (566): the file is lost, and its server busy for ever.
  `js_lines` has `WholeSends`, `js_faults` has not.
* The receive timeout is set before the first read (562, 573). If the names are
  late there is no server; if they come with requests, the last name and the
  requests are torn apart. `ServersKnown` has `NamesOnTime`.
* A connection with an end that does not read, its client or its server, takes
  two workers; four of them take all eight (README.md:107-108).
  `RelayingContinues` says that one is still relayed as long as a worker is left, if
  both its ends read.
* SIGINT does not end the blocking calls that `run()` and `join_all` wait for
  (README.md:113): the read of a header, and a write to either end of a
  connection. `StopsOnInterrupt` excepts them (`HeldUp`), and `srv_pool` has a
  tunnel whose ends both do not read.
* `remote_endpoint` (server.cpp:73) throws outside the `try`: a client that was
  reset in the backlog ends the process (README.md:124). The liveness properties
  of `Server` except `main = "terminated"`.
* Connections that are destroyed with the `io_context` log to a logger that no
  longer exists (README.md:133). `TelemetryLostOnlyInQueue`: these are only
  connections with a handler queued and never run.

Two observations about the scheduler are properties, not findings:
`AgeCheckNeverHolds` shows that the second guard of `handle_timeout` (375) never
holds a request back, because it subtracts a wrapped `int` from the full time;
and after a wrap the fronts of the two deques are compared the wrong way round
(333, 362), which affects order but none of the properties above.

A cut inside a name makes the request of one file that of another: after
"11,10" is cut behind its first letter, file 1 is asked for again and file 11
never. `js_faults` includes this; no property but `CompletionsAreReal` and the
invariant is claimed of it, and the queues of `LoadBalancer` are not
followed there.
`CompletionsAreReal` ends where an exception is caught: the buffer is not
cleared then (583 is skipped), and the next read may join old bytes with new
ones to a completion that never happened, or report one again. It also ends
where a full buffer has no NUL and the text goes on with whatever is behind it.

What holds nevertheless: until then no way of cutting the stream makes up or
repeats a completion, because a mark and all that is left of its line are
dropped when the line end does not come with them; the buffer that is not cleared after the names is harmless
as long as reads are whole (`DeliversLines`); the accept loop does not depend on
the workers (`EveryClientIsAnswered` of `srv_pool`).

## 7. Proofs

Each inductive invariant is first checked by TLC, in the run named in section 3,
and then proved: `Init => IInv`, `IInv /\ [Next]_vars => IInv'` with one step for
each action, and `IInv => ` the property. Nothing is assumed but the named
assumptions on the constants, which every run evaluates: there is at least one
server, and the clock started later than the range of an `int` plus the initial
timeouts, true since 1970 plus 50 days
(`CountsAssumption`, `ClockAssumption` of `LoadBalancer`), capacities and bounds
are naturals (`SizesAssumption`, `ServerAssumption`, `AdmissionAssumption`,
`StreamAssumption`). The theorems hold for every number of servers, requests,
ticks, chunks, clients, workers, letters and cells.

### LoadBalancer

1. `TypeCorrect`: `TypeOK` with one addition, that a dispatched request started
   no later than now (`TypeInv`); without it service times need not be
   naturals.
2. `Invariance`: `TypeInv /\ IInv` is inductive. The properties alone are not:
   * `ActiveCountIsExact` needs that a finished line belongs to a request that
     was dispatched and is not completed, once. Hence `FilesInv`: per file,
     where its lines may be and which fields may be set, and that no line
     occurs twice.
   * `QueuedExactlyWhenIdle` needs, for `HandleTimeout`, that no server is idle
     while a request waits between batches. That is `WorkConserving`, and it is
     not inductive: it says nothing while a batch is handled. Hence
     `EnoughNextsLeft`: the calls still to come beyond the lines still to come
     are at least the idle servers or at least the waiting requests. A line
     adds one server or one request and frees one call, and a call removes one
     of each or finds one side empty.
   * `QueuesAreHomogeneous` and the queue property together follow because a
     server is calibrated only by a completion, when it is in no queue.
   * `ForcedCountsAreExact` needs that a forced request is dispatched and not
     completed when it is counted.
   * `ClockInv` bounds the service times by the time that has passed.
   `QueuesCorrect`, `ActiveCountCorrect`, `HomogeneityCorrect`,
   `WorkConservation`, `ForcedCountsCorrect` and, by counting the places of a
   file, `FilesCorrect` follow.
3. `KeysCorrect`: only a completion changes averages, and it changes those of a
   server with a request outstanding, which is in no queue before.
4. `Refinement`: `HandleLine` is `Submit` or `Finish`, `HandleNextDispatch` is
   `Assign`, `HandleTimeout` is `Force`, every other step leaves the abstract
   state alone. `Assign` needs `QueuedExactlyWhenIdle`; `Force` needs
   `WorkConserving`.
5. `CalibrationIsSound`: a request that shared its server never enters a
   performance metric, although `record_request` sees only two counters. The
   invariant is `CountersRememberSharing`: as long as `requests` is at most one,
   nothing outstanding on the server ever shared it. It holds because a
   dispatch to a drained server finds both counters zero, and any other
   dispatch leaves at least two.
6. `BackoffCorrect`: a forced request doubles both sides, and the counter of the
   wave is reset only together with the multiplier.
7. `AgeCheckUseless`: every average of response times is at most `MaxTime`
   (`ClockInv`, carried through the fold of `average_response_time`), and an
   `int` is too small for the clock, so the subtraction at 375 always exceeds
   the timeout.

### Connection

`InductiveInvariant`. `RelayedInOrder` and `SizeIsExact` are part of it and need
the rest: `Pipeline` says where each chunk is (passed on, carried by the
handler, in the stream), per direction, as long as the other end may still be
given it; that needs that only the handler with the mutex writes or closes
(`Mutex`), that the sockets are open while it does (`Phases`), and that they are
closed only because a peer left (`ClosedForAReason`). `EndOfFile` makes the
close come after the last chunk, hence `WritesBeforeClosing`. `Endings` says
how a loop can be over without `end()`: by a failed write, hence `TimerStops`.
`AccessesAreExclusive` follows from `Mutex` and `Phases`.

`RefinesTunnel`: an action that gives a peer a chunk is `Deliver` of the
abstract tunnel, the first close or reset is `Leave`, a peer's own `Send` is
`Send`; the shift by the chunk that came with the header (`MapsDeliver`) needs
`Pipeline`.

### Server

`InductiveInvariant`: the handlers that run are at most as many as the workers
that are left (`Threads`), because a worker returns only while it runs none; so
when `join_all` is over nobody is in a handler, and the logger is closed only
then (`Ordered`): `LoggerIsLast`. `Connections` ties a handler to the mutex and
to open sockets: `TelemetryLoss`.

`RefusalsCorrect` is about the operators of `Admission`: `find` at a position
succeeds exactly when the host is what is before, the line, and what is behind
(`FindsExactlyParts`), and of the checks of the constructor only the blacklist
is left for a well-formed request.

### JobScheduler

* `TypeCorrect`, with `Starting`: nothing is dispatched before the names are
  read. It includes that the buffer never holds more than it can, and that
  every index is in the range of its sequence.
* `NamesCorrect`, where the names come on time, for any reads and sends behind
  them: the servers known are those named (`ServersKnown`). Searching the
  announcement for commas gives each name, by induction on their number.
* `InductiveInvariant`. For `CompletionsAreReal` the completion of a file must be
  in at most one place: in the stream, in the lines of the batch, or handled
  (`Reported`), and a finished file must have been written so (`Logged`). A
  read moves cells and may leave pieces of names, so this needs
  the shape of lines in the stream (`Framed`: a mark still has its file and its
  end behind it) and that the cells left in the buffer by the first read hold
  no mark and come from a time before anything was dispatched (`Leftover`).
  Then a line of the batch with a mark is a line that was written (`Intact`):
  its mark was just read, nothing stands before it in its line, and a cut
  behind it leaves no line end (`CompletionsWereComing`). A cut before it makes a request of the file's
  name, or of another's, which the invariant allows. `CompletionsCorrect`
  follows.

`JobSchedulerDeliveryProofs` is about the environment of `js_lines`: the names
are what the first read returns (`NamesOnTime`), reads return all there is
(`WholeReads`), sends are not cut (`WholeSends`), and there is always room in the
buffer for what is on its way and a NUL (`RoomLeft`). The first three are
constants that choose the environment, the last is a hypothesis on the
behaviour: a larger backlog fills the buffer, whose text then has no end, and
`js_faults` shows what is left of the properties. `RoomForFewFiles` shows that
the hypothesis holds for every behaviour as long as the buffer is larger than
the announcement and than all lines, which is how `js_lines` is sized.

* `DeliveryCorrect`: `DeliveryInv` is inductive, given `IInv`. The lines written
  are, in this order, those handled, those of the batch and those parsed out of
  the stream, and nothing is left after the last line end (`Delivered`); each
  was written once (`Written`). So the next line of a batch is a request or a
  completion that was not handled before: a request's name waits in a deque
  until it is given to a server (`Assigned`), the server is told of it or will
  be with the batch (`Told`), and the counter of each server is the number of
  files it was given and that are not completed, with a place in a queue exactly
  when that is zero (`Loads`). `EnoughNexts` is `EnoughNextsLeft` of
  `LoadBalancer`. What is parsed out of a stream is determined by adding a line
  to it (`ParsedLine`); the bytes that the first read leaves in the buffer hold
  no line end, so what is left of them behind the new lines is dropped
  (`WholeRead`).
* `LinesInOrder`, the safety part of `DeliversLines`: `Submit` and `Finish` are
  `Send`, `HandleLine` is `Handle` because the head of the batch is the first line
  sent that is not handled (`NextLine`).
* `SanityCorrect`: at rest everything sent is handled. A file that still waits
  would mean that no server is idle, so some server has a file that is given to
  it and not completed; but that file was executed, is finished, and its
  completion is handled.
* `RefinesJobDispatch`: `HandleLine` is `Submit` or `Finish`, `HandleNext` is
  `Assign` because an idle server has no file, `HandleTimeout` is `Force` because
  between batches a waiting file means that no server is idle.

### Logger

`IntactWithoutOverlap`: as long as no two insertions overlap, the stream holds whole
messages only, and the put position is behind the last of them or about to be
(`SerialInv`). So a message is appended (`WrittenBehind`), and what the stream
holds of a thread grows with what its calls selected (`SelectedAppend`, by
induction on the messages). `GatesAreExact`: for the levels `main` can set, the
literals of the five functions let pass exactly what is severe enough.
`log_race` shows that the hypothesis cannot be dropped; no passing run is spent on
the case that it holds.

### Induction

The induction theorems of the library take an operator as a parameter, which
the provers cannot instantiate. `RecursionProofs` derives induction over sets of
numbers and of sequences from well-founded relations instead (`SetInduction`,
`AppendInduction`), and from it that a recursive function exists (`Recursion`) and
that a scan of a sequence has a value for each prefix (`ScanExists`,
`ScanAppend`). What is proved about `TwoTo`, `average_response_time`, `Parsed`, `CompletedName` and
`Selected` rests on these.

### Only model-checked

* Liveness: `EverySubmittedFileCompletes`, `DispatchesInTime`,
  `EverySubmittedFileFinishes`, `DataIsRelayed`, `DestroyedAfterAPeerLeft`,
  `RelaysLikeATunnel`, `EveryClientIsAnswered`, `RelayingContinues`,
  `StopsOnInterrupt`. The prover has no `ENABLED`.
* The fairness in `DeliversLines`, for the same reason: that every line sent is
  handled.

## 8. Not modelled, and the plan

Not modelled, because nothing in the running programs depends on it: the handout
template `jobScheduler.py`, scripts, configurations, build files;
`Connection::set_options`, whose map is never read; the version digit of an
error reply (connection.cpp 233-241); `add_entry`, which nobody calls; escaping
and timestamps of the log. Out of reach of these models: memory (buffers leak
when the constructor throws), signal handlers inside library locks
(server.cpp 18-22), a file name submitted twice (no client configuration has
one), and the overflow of `multiplier` after 30 forced requests in one wave.

Every safety property that a passing run checks is proved, `DeliversLines` but for
its fairness. Nothing of the plan is left.
