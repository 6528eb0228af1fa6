--------------------------------- MODULE Server ---------------------------------
(***************************************************************************)
(* The threads of https_proxy and its life from main to the end of the     *)
(* process: the command line, the accepting thread, which serves one       *)
(* request header at a time, the pool of worker threads, which all         *)
(* connections share, the shutdown by SIGINT, and the destruction of the   *)
(* global context.                                                         *)
(*                                                                         *)
(* A connection is reduced to what it costs a thread: per direction, the   *)
(* read that is pending and the handler that runs, blocked at the mutex of *)
(* the connection or in its write.  What is relayed is in Connection.      *)
(*                                                                         *)
(* A client connects, sends its header and leaves when it likes.  Some are *)
(* silent (they never send a header) or hasty (they may be gone before     *)
(* they are served).  Some tunnels are stuck in a direction: its end, the  *)
(* client or the server it is connected to, never reads what they carry.   *)
(***************************************************************************)
EXTENDS Admission, FiniteSets

CONSTANTS
  Blacklist,             (* lines of the file the user named                   *)
  Clients,
  Silent, Hasty,         (* see above                                         *)
  Stuck,                 (* tunnels and the direction they are stuck in       *)
  THREAD_COUNT,          (* worker threads: eight in the code                 *)
  Interrupts             (* the user may press ^C                             *)

ASSUME ServerAssumption ==
  /\ Blacklist \in Seq(Words)
  /\ Silent \subseteq Clients /\ Hasty \subseteq Clients
  /\ Stuck \subseteq Clients \X {"up", "down"}
  /\ THREAD_COUNT \in Nat \ {0}
  /\ Interrupts \in BOOLEAN

Directions == {"up", "down"}
Other(d) == IF d = "up" THEN "down" ELSE "up"

NoClient == "no client"
Nobody == "nobody"

VARIABLES
  (* the clients *)
  stage,       (* "away", "backlog", "accepted", "tunnel" or "closed"          *)
  asked,       (* clients that have sent their header                          *)
  gone,        (* clients that have left                                       *)
  answered,    (* clients that were sent a status line                         *)
  (* the accepting thread, which is the thread of main *)
  main,
  current,     (* the client handle_accept was called for                      *)
  accepting,   (* an async_accept is pending                                   *)
  stopped,     (* the two io_contexts, each stopped or not                     *)
  (* the connections *)
  handler,     (* per direction: "none", "armed", "ready", "locking", "writing" *)
  lock,        (* holder of the mutex of the connection                        *)
  shut,        (* connections whose handler ran end() and closed the sockets   *)
  (* the rest of the process *)
  workers,     (* worker threads inside io_context::run                        *)
  log          (* the Logger: "open", "closed" or "destroyed"                  *)

clients == <<stage, asked, gone, answered>>
acceptor == <<main, current, accepting>>
connections == <<handler, lock, shut>>
vars == <<clients, acceptor, stopped, connections, workers, log>>

(* Faulty variant: the loop starts one thread too few. *)
OneThreadFewer == THREAD_COUNT - 1

StartedThreads == THREAD_COUNT

hostnames == Entries(Blacklist)

ExitCodes == {ExitCode(o) : o \in Options}
Statuses == {Status(h, hostnames) : h \in Headers}

Init ==
  /\ stage = [c \in Clients |-> "away"]
  /\ asked = {} /\ gone = {} /\ answered = {}
  /\ main = "starting" /\ current = NoClient /\ accepting = FALSE
  /\ stopped = [io \in {"ctx", "accept_ctx"} |-> FALSE]
  /\ handler = [c \in Clients |-> [d \in Directions |-> "none"]]
  /\ lock = [c \in Clients |-> Nobody]
  /\ shut = {}
  /\ workers = 0
  /\ log = "open"

(* Handlers a worker thread is in. *)
Running == {"locking", "writing"}
Busy == {h \in Clients \X Directions : handler[h[1]][h[2]] \in Running}

Alive == main \notin {"terminated", "exited"}

Listening == Alive /\ main # "starting"

-----------------------------------------------------------------------------
(***************************************************************************)
(* The clients.                                                            *)
(***************************************************************************)
Arrive(c) ==
  /\ Listening /\ stage[c] = "away"
  /\ stage' = [stage EXCEPT ![c] = "backlog"]
  /\ UNCHANGED <<asked, gone, answered, acceptor, stopped, connections, workers, log>>

SendHeader(c) ==
  /\ c \notin Silent \cup asked \cup gone
  /\ stage[c] \in {"backlog", "accepted"}
  /\ asked' = asked \cup {c}
  /\ UNCHANGED <<stage, gone, answered, acceptor, stopped, connections, workers, log>>

Leave(c) ==
  /\ c \notin gone
  /\ \/ stage[c] = "tunnel"
     \/ c \in Hasty /\ stage[c] \in {"backlog", "accepted"}
  /\ gone' = gone \cup {c}
  /\ UNCHANGED <<stage, asked, answered, acceptor, stopped, connections, workers, log>>

-----------------------------------------------------------------------------
(***************************************************************************)
(* main, up to accept_ctx.run().  The command line may be wrong, and the   *)
(* port no port, or taken; then the process ends before it listens.        *)
(***************************************************************************)
Step(from, to) == main = from /\ main' = to

Main ==
  /\ \E code \in ExitCodes :
       \/ Step("starting", "exited") /\ UNCHANGED <<accepting, workers>>
       \/ /\ code = 0
          /\ Step("starting", "waiting")
          /\ accepting' = TRUE /\ workers' = StartedThreads
  /\ UNCHANGED <<clients, current, stopped, connections, log>>

-----------------------------------------------------------------------------
(***************************************************************************)
(* handle_accept, on the thread of main.  A failed accept logs and accepts *)
(* again: it changes nothing.                                              *)
(***************************************************************************)
Accept(c) ==
  /\ Step("waiting", "endpoint") /\ accepting /\ ~stopped["accept_ctx"]
  /\ stage[c] = "backlog"
  /\ stage' = [stage EXCEPT ![c] = "accepted"]
  /\ current' = c /\ accepting' = FALSE
  /\ UNCHANGED <<asked, gone, answered, stopped, connections, workers, log>>

(* remote_endpoint throws, and nothing catches, if the client was reset. *)
RemoteEndpoint ==
  /\ \/ Step("endpoint", "reading")
     \/ current \in gone /\ Step("endpoint", "terminated")
  /\ UNCHANGED <<clients, current, accepting, stopped, connections, workers, log>>

(* handle_accept has caught an exception or handle_connection returned. *)
GiveUp ==
  /\ stage' = [stage EXCEPT ![current] = "closed"]
  /\ UNCHANGED connections

Answer == answered' = answered \cup {current}

(* read_until *)
ReadHeader ==
  /\ \/ current \in asked /\ Step("reading", "creating") /\ UNCHANGED <<stage, connections>>
     \/ current \in gone /\ Step("reading", "rearming") /\ GiveUp
  /\ UNCHANGED <<asked, gone, answered, current, accepting, stopped, workers, log>>

(* Connection::create: a header that is refused is answered with an error. *)
Create ==
  /\ \E status \in Statuses :
       IF status = 0
       THEN Step("creating", "connecting") /\ UNCHANGED <<stage, answered, connections>>
       ELSE Step("creating", "rearming") /\ Answer /\ GiveUp
  /\ UNCHANGED <<asked, gone, current, accepting, stopped, workers, log>>

(* handle_connection: 404 or 502, no client to write 200 to, or a tunnel. *)
Connect ==
  /\ Step("connecting", "rearming")
  /\ \/ Answer /\ GiveUp
     \/ current \in gone /\ UNCHANGED answered /\ GiveUp
     \/ /\ Answer
        /\ stage' = [stage EXCEPT ![current] = "tunnel"]
        /\ handler' = [handler EXCEPT ![current] = [d \in Directions |-> "armed"]]
        /\ UNCHANGED <<lock, shut>>
  /\ UNCHANGED <<asked, gone, current, accepting, stopped, workers, log>>

(* Faulty variant: a refused client leaves handle_accept by a return. *)
RearmAfterTunnel ==
  /\ Step("rearming", "waiting")
  /\ accepting' = (stage[current] = "tunnel")
  /\ current' = NoClient
  /\ UNCHANGED <<clients, stopped, connections, workers, log>>

Rearm ==
  /\ Step("rearming", "waiting")
  /\ current' = NoClient /\ accepting' = TRUE
  /\ UNCHANGED <<clients, stopped, connections, workers, log>>

-----------------------------------------------------------------------------
(***************************************************************************)
(* The worker threads.                                                     *)
(***************************************************************************)
SetHandler(c, d, state) == handler' = [handler EXCEPT ![c][d] = state]

ReadCompletes(c, d) ==
  /\ Alive
  /\ handler[c][d] = "armed"
  /\ SetHandler(c, d, "ready")
  /\ UNCHANGED <<clients, acceptor, stopped, lock, shut, workers, log>>

RunHandler(c, d) ==
  /\ Alive /\ ~stopped["ctx"]
  /\ handler[c][d] = "ready"
  /\ Cardinality(Busy) < workers
  /\ SetHandler(c, d, "locking")
  /\ UNCHANGED <<clients, acceptor, stopped, lock, shut, workers, log>>

HasMutex(c, d) == Alive /\ handler[c][d] = "locking" /\ lock[c] = Nobody

BeginWrite(c, d) ==
  /\ HasMutex(c, d) /\ c \notin shut
  /\ SetHandler(c, d, "writing")
  /\ lock' = [lock EXCEPT ![c] = d]
  /\ UNCHANGED <<clients, acceptor, stopped, shut, workers, log>>

(* Faulty variant: only the socket that was read from is closed. *)
CloseOne(c, d) ==
  /\ HasMutex(c, d)
  /\ shut' = shut \cup {c}
  /\ SetHandler(c, d, "none")
  /\ UNCHANGED <<clients, acceptor, stopped, lock, workers, log>>

(* The read ended; closing the sockets aborts the one of the other direction. *)
CloseBoth(c, d) ==
  /\ HasMutex(c, d)
  /\ shut' = shut \cup {c}
  /\ handler' = [handler EXCEPT ![c][d] = "none",
                                ![c][Other(d)] = IF @ = "armed" THEN "ready" ELSE @]
  /\ UNCHANGED <<clients, acceptor, stopped, lock, workers, log>>

Abandon(c, d) ==
  /\ HasMutex(c, d) /\ c \in shut
  /\ SetHandler(c, d, "none")
  /\ UNCHANGED <<clients, acceptor, stopped, lock, shut, workers, log>>

(* A write to a client or server that reads nothing returns only when it left. *)
Blocked(c, d) == <<c, d>> \in Stuck /\ (d = "down" => c \notin gone)

(* The write returned, or it throws: the client left, or the server did. *)
EndWrite(c, d) ==
  /\ Alive /\ handler[c][d] = "writing"
  /\ \/ ~Blocked(c, d) /\ SetHandler(c, d, "armed")
     \/ (d = "down" => c \in gone) /\ SetHandler(c, d, "none")
  /\ lock' = [lock EXCEPT ![c] = Nobody]
  /\ UNCHANGED <<clients, acceptor, stopped, shut, workers, log>>

Handler(c, d) ==
  RunHandler(c, d) \/ BeginWrite(c, d) \/ CloseBoth(c, d) \/ Abandon(c, d) \/ EndWrite(c, d)

-----------------------------------------------------------------------------
(***************************************************************************)
(* SIGINT, and the way out of listen, main and the process.                *)
(***************************************************************************)
(* Faulty variant: the workers are not stopped. *)
StopAccepting == stopped' = [stopped EXCEPT !["accept_ctx"] = TRUE]

interrupt_handler == stopped' = [io \in DOMAIN stopped |-> TRUE]

Interrupt ==
  /\ Interrupts /\ Listening /\ ~stopped["ctx"] /\ ~stopped["accept_ctx"]
  /\ interrupt_handler
  /\ UNCHANGED <<clients, acceptor, connections, workers, log>>

(* Faulty variant: a worker may return although its handler still runs. *)
WorkerLeavesItsHandler ==
  /\ Alive /\ stopped["ctx"]
  /\ workers' = workers - 1
  /\ UNCHANGED <<clients, acceptor, stopped, connections, log>>

(* A stopped io_context starts no handler: its run() returns. *)
WorkerReturns ==
  /\ Alive /\ stopped["ctx"]
  /\ Cardinality(Busy) < workers
  /\ workers' = workers - 1
  /\ UNCHANGED <<clients, acceptor, stopped, connections, log>>

AcceptReturns ==
  /\ stopped["accept_ctx"]
  /\ Step("waiting", "joining")
  /\ UNCHANGED <<clients, current, accepting, stopped, connections, workers, log>>

(* Faulty variant: listen returns without joining the threads. *)
NoJoin ==
  /\ Step("joining", "closing")
  /\ UNCHANGED <<clients, current, accepting, stopped, connections, workers, log>>

JoinAll ==
  /\ workers = 0
  /\ Step("joining", "closing")
  /\ UNCHANGED <<clients, current, accepting, stopped, connections, workers, log>>

(* ctx.logger.close(), and return from main *)
CloseLog ==
  /\ Step("closing", "returned")
  /\ log' = "closed"
  /\ UNCHANGED <<clients, current, accepting, stopped, connections, workers>>

(* The members of the context are destroyed in reverse: the logger, ... *)
DestroyLogger ==
  /\ Step("returned", "destroying")
  /\ log' = "destroyed"
  /\ UNCHANGED <<clients, current, accepting, stopped, connections, workers>>

(* ... then the io_contexts, with the handlers that never ran. *)
DestroyContexts ==
  /\ Step("destroying", "exited")
  /\ handler' = [c \in Clients |-> [d \in Directions |-> "none"]]
  /\ UNCHANGED <<clients, current, accepting, stopped, lock, shut, workers, log>>

-----------------------------------------------------------------------------
HandleAccept ==
  \/ \E c \in Clients : Accept(c)
  \/ RemoteEndpoint \/ ReadHeader \/ Create \/ Connect \/ Rearm

Shutdown == AcceptReturns \/ JoinAll \/ CloseLog \/ DestroyLogger \/ DestroyContexts

Next ==
  \/ \E c \in Clients : Arrive(c) \/ SendHeader(c) \/ Leave(c)
  \/ Main \/ HandleAccept
  \/ \E c \in Clients, d \in Directions : ReadCompletes(c, d) \/ Handler(c, d)
  \/ Interrupt \/ WorkerReturns \/ Shutdown

(***************************************************************************)
(* Threads run, names resolve and connects end, the kernel hands every     *)
(* connection of the backlog to the acceptor in its turn, and a client     *)
(* that is not silent sends its header.  Nobody has to connect, to leave,  *)
(* to read or to press ^C: a blocked write need not end.                   *)
(***************************************************************************)
HoldsWorker(c, d) == handler[c][d] = "writing" /\ Blocked(c, d)

Fairness ==
  /\ WF_vars(HandleAccept) /\ WF_vars(Shutdown) /\ WF_vars(WorkerReturns)
  /\ \A c \in Clients : SF_vars(Accept(c)) /\ WF_vars(SendHeader(c))
  /\ \A c \in Clients, d \in Directions : SF_vars(~HoldsWorker(c, d) /\ Handler(c, d))

Spec == Init /\ [][Next]_vars /\ Fairness

-----------------------------------------------------------------------------
(* Every variable has its type. *)
TypeOK ==
  /\ stage \in [Clients -> {"away", "backlog", "accepted", "tunnel", "closed"}]
  /\ asked \subseteq Clients /\ gone \subseteq Clients
  /\ answered \subseteq Clients /\ shut \subseteq Clients
  /\ main \in {"starting", "waiting", "endpoint", "reading", "creating", "connecting", "rearming",
               "joining", "closing", "returned", "destroying", "exited", "terminated"}
  /\ current \in Clients \cup {NoClient}
  /\ accepting \in BOOLEAN
  /\ stopped \in [{"ctx", "accept_ctx"} -> BOOLEAN]
  /\ handler \in [Clients -> [Directions -> {"none", "armed", "ready"} \cup Running]]
  /\ lock \in [Clients -> Directions \cup {Nobody}]
  /\ workers \in 0 .. THREAD_COUNT
  /\ log \in {"open", "closed", "destroyed"}

(***************************************************************************)
(* The logger is closed (main.cpp:60) and destroyed only when no thread is *)
(* left that could still write to it.                                      *)
(***************************************************************************)
LoggerOutlivesThreads == log # "open" => workers = 0 /\ Busy = {}

(***************************************************************************)
(* README.md:133, "During the destruction of the Connection object, the    *)
(* telemetry data is printed out if necessary".  When the logger, which    *)
(* the destructor writes to (connection.cpp:76-82), is closed, connections *)
(* whose timer was stopped remain only if a handler of theirs is queued    *)
(* and no worker was left to run it: none waits for its read, for the      *)
(* mutex or in a write.                                                    *)
(***************************************************************************)
TelemetryLostOnlyInQueue ==
  log # "open" => \A c \in shut, d \in Directions : handler[c][d] \in {"none", "ready"}

(***************************************************************************)
(* README.md:94 and 125: whatever lines the file has that main is about to *)
(* read, of the well-formed CONNECT requests exactly those are refused     *)
(* that name a host of which a line is a part; a line is a part of a host  *)
(* only if it says something.                                              *)
(***************************************************************************)
RefusedExactlyWhenListed ==
  main = "starting" => \A lines \in BoundedSeq(Words, MaxLines) : ListedHostsAreRefused(lines)

(***************************************************************************)
(* README.md:108, "without preventing other connections from being         *)
(* accepted or served": a client that sent its header is answered, unless  *)
(* it leaves or the process ends.                                          *)
(***************************************************************************)
EveryClientIsAnswered ==
  \A c \in Clients :
    c \in asked ~> c \in answered \cup gone \/ stopped["ctx"] \/ main = "terminated"

(* Tunnels both of whose ends read what they are sent. *)
Flowing == {c \in Clients : \A d \in Directions : <<c, d>> \notin Stuck}

(* Worker threads in handlers of stuck tunnels: in the write, or behind it *)
(* at the mutex.                                                           *)
Taken == {h \in Busy : h[1] \notin Flowing}

(***************************************************************************)
(* README.md:107-108: data read from a connection both of whose ends read  *)
(* is relayed, as long as connections with an end that does not, be it the *)
(* client or the server, leave one of the THREAD_COUNT workers.            *)
(***************************************************************************)
RelayingContinues ==
  \A c \in Flowing, d \in Directions :
    handler[c][d] = "ready"
      ~> \/ handler[c][d] \in {"armed", "none"} \/ stopped["ctx"] \/ main = "terminated"
         \/ Cardinality(Taken) >= THREAD_COUNT

(***************************************************************************)
(* A call that SIGINT does not end and nothing else may: the accepting     *)
(* thread in the read of a header, or a worker in a write, to a client or  *)
(* to a server.                                                            *)
(***************************************************************************)
HeldUp ==
  \/ main = "reading" /\ current \in Silent \ gone
  \/ \E c \in Clients, d \in Directions : HoldsWorker(c, d)

(***************************************************************************)
(* README.md:113, "enable graceful shutdown of the proxy": after SIGINT    *)
(* the process ends, unless one of its threads is, or comes to be, in such *)
(* a call.                                                                 *)
(***************************************************************************)
StopsOnInterrupt ==
  stopped["accept_ctx"] /\ ~HeldUp ~> ~Alive \/ HeldUp
=============================================================================
