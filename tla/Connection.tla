------------------------------- MODULE Connection -------------------------------
(***************************************************************************)
(* One proxied connection of https_proxy: Connection::handle_connection,   *)
(* run by the accepting thread, and Connection::handle_read, run by the    *)
(* worker threads once per completed read, until the Connection object is  *)
(* destroyed.                                                              *)
(*                                                                         *)
(* There are two directions, "up" from client to server and "down" back.   *)
(* A direction owns one buffer and never has more than one asynchronous    *)
(* read; its handler writes what was read to the other socket and starts   *)
(* the next read.  Both handlers hold the mutex of the connection while    *)
(* they run, the blocking write included.  A chunk is what one read        *)
(* returns; the chunks of a peer are numbered in the order it sends them.  *)
(*                                                                         *)
(* TCP, Boost.Asio and the two peers are the environment, modelled from    *)
(* how connection.cpp uses them.                                           *)
(***************************************************************************)
EXTENDS Integers, Sequences, FiniteSets

CONSTANTS
  MaxChunks,     (* bound: chunks each peer sends                              *)
  Capacity,      (* chunks a TCP stream holds before its sender has to wait    *)
  EarlyChunks,   (* chunks of the client that were read along with its header  *)
  Answers,       (* chunks the server answers a chunk with before it reads the *)
                 (* next one; 0 if it sends independently of what it reads     *)
  IntMax,        (* largest value of a C++ int, in chunks                      *)
  Workers        (* worker threads left for this connection                    *)

ASSUME SizesAssumption ==
  /\ MaxChunks \in Nat
  /\ Capacity \in Nat \ {0}
  /\ EarlyChunks \in 0 .. MaxChunks
  /\ Answers \in Nat
  /\ IntMax \in Nat
  /\ Workers \in Nat \ {0}

Peers == {"client", "server"}
Directions == {"up", "down"}

(* handle_read(read, write, buffer, record_transfer, ...) *)
Read(d) == IF d = "up" THEN "client" ELSE "server"
Write(d) == IF d = "up" THEN "server" ELSE "client"
Other(d) == IF d = "up" THEN "down" ELSE "up"

(* Faulty variant: what the client sends is recorded too. *)
RecordTransferAlways(d) == d \in Directions

RecordTransfer(d) == d = "down"

(* Faulty variant: both reads are given the same buffer. *)
ClientBuffer(d) == "up"

(* The buffer given to the reads of a direction, client_buffer for "up". *)
BufferOf(d) == d

Nobody == "nobody"
NoData == 0        (* a read that transferred no bytes *)

VARIABLES
  (* the peers and the streams *)
  peer,          (* "open", or how the peer left                               *)
  sent,          (* number of chunks the peer has sent                         *)
  received,      (* chunks the peer has read                                   *)
  toProxy,       (* stream from the peer to the proxy                          *)
  toPeer,        (* stream from the proxy to the peer                          *)
  (* the accepting thread in handle_connection *)
  pc,
  reply,         (* status line the client was sent, 0 if none                 *)
  (* the Connection object *)
  open,          (* is_open of the two sockets                                 *)
  started,       (* start_time is set                                          *)
  ended,         (* end_time is set                                            *)
  total_size,
  lock,          (* holder of the mutex                                        *)
  buffer,        (* client_buffer ("up") and server_buffer ("down")            *)
  (* the asynchronous reads and their handlers *)
  handler,
  result         (* completion the handler was or will be called with          *)

streams == <<peer, sent, received, toProxy, toPeer>>
timer == <<started, ended>>
reads == <<buffer, handler, result>>

vars == <<streams, pc, reply, open, timer, total_size, lock, reads>>

(* Results of a read on which handle_read closes the connection. *)
ClosingErrors == {"eof", "connection_reset", "connection_aborted"}
OtherErrors == {"operation_aborted", "bad_descriptor", "timed_out"}

Armed == "armed"        (* the read is pending                       *)
Ready == "ready"        (* it completed, its handler is queued       *)
Locking == "locking"    (* a worker runs the handler up to the mutex *)
Writing == "writing"    (* it holds the mutex, in the blocking write *)
Closing == "closing"    (* it holds the mutex, closing the sockets   *)
None == "none"          (* no read and no handler: nothing more will *)
                        (* be relayed in this direction              *)

Running == {Locking, Writing, Closing}

-----------------------------------------------------------------------------
Init ==
  /\ peer = [x \in Peers |-> "open"]
  /\ sent = [x \in Peers |-> IF x = "client" THEN EarlyChunks ELSE 0]
  /\ received = [x \in Peers |-> <<>>]
  /\ toProxy = [x \in Peers |-> <<>>]
  /\ toPeer = [x \in Peers |-> <<>>]
  /\ pc = "resolve"
  /\ reply = 0
  /\ open = [x \in Peers |-> x = "client"]
  /\ started = FALSE
  /\ ended = FALSE
  /\ total_size = 0
  /\ lock = Nobody
  /\ buffer = [d \in Directions |-> NoData]
  /\ handler = [d \in Directions |-> None]
  /\ result = [d \in Directions |-> "data"]

(* Every shared_ptr to the Connection is gone: its handlers held the last. *)
Destroyed == pc = "done" /\ \A d \in Directions : handler[d] = None

-----------------------------------------------------------------------------
(***************************************************************************)
(* The peers.  The server is there once connect succeeded.                 *)
(***************************************************************************)
(* Chunks the server still has to send before it reads another. *)
Owes == Answers > 0 /\ sent["server"] < Answers * Len(received["server"])
          /\ sent["server"] < MaxChunks

Connected(x) == x = "client" \/ pc \in {"reply", "arm_client", "arm_server", "arming_server"}
                             \/ (pc = "done" /\ reply = 200)

PeerSend(x) ==
  /\ Connected(x) /\ peer[x] = "open"
  /\ sent[x] < MaxChunks
  /\ Len(toProxy[x]) < Capacity
  /\ Answers > 0 /\ x = "server" => Owes
  /\ sent' = [sent EXCEPT ![x] = @ + 1]
  /\ toProxy' = [toProxy EXCEPT ![x] = Append(@, sent[x] + 1)]
  /\ UNCHANGED <<peer, received, toPeer, pc, reply, open, timer, total_size, lock, reads>>

PeerReceive(x) ==
  /\ peer[x] = "open"
  /\ toPeer[x] # <<>>
  /\ x = "server" => ~Owes
  /\ received' = [received EXCEPT ![x] = Append(@, Head(toPeer[x]))]
  /\ toPeer' = [toPeer EXCEPT ![x] = Tail(@)]
  /\ UNCHANGED <<peer, sent, toProxy, pc, reply, open, timer, total_size, lock, reads>>

(***************************************************************************)
(* A peer leaves: an orderly close, a reset that may destroy what is on    *)
(* its way, or silence, of which the proxy may never hear: no socket has   *)
(* SO_KEEPALIVE and no read a deadline.                                    *)
(***************************************************************************)
PeerLeave(x) ==
  /\ Connected(x) /\ peer[x] = "open"
  /\ \/ /\ \E how \in {"closed", "reset", "timed_out"} : peer' = [peer EXCEPT ![x] = how]
        /\ UNCHANGED toProxy
     \/ /\ peer' = [peer EXCEPT ![x] = "reset"]
        /\ toProxy' = [toProxy EXCEPT ![x] = <<>>]
  /\ toPeer' = [toPeer EXCEPT ![x] = <<>>]
  /\ UNCHANGED <<sent, received, pc, reply, open, timer, total_size, lock, reads>>

-----------------------------------------------------------------------------
(***************************************************************************)
(* handle_connection, one blocking call per step.  A status line is lost   *)
(* when the client has left.                                               *)
(***************************************************************************)
ReplyWith(status) == reply' = IF peer["client"] = "open" THEN status ELSE reply

CloseBoth == open' = [x \in Peers |-> FALSE]

Resolve ==
  /\ pc = "resolve"
  /\ \/ pc' = "connect" /\ UNCHANGED <<reply, open>>
     \/ pc' = "done" /\ ReplyWith(404) /\ CloseBoth
  /\ UNCHANGED <<streams, timer, total_size, lock, reads>>

(* this->start(); server_socket->open, connect *)
Connect ==
  /\ pc = "connect"
  /\ started' = TRUE
  /\ \/ pc' = "reply" /\ open' = [open EXCEPT !["server"] = TRUE] /\ UNCHANGED reply
     \/ pc' = "done" /\ ReplyWith(502) /\ CloseBoth
  /\ UNCHANGED <<streams, ended, total_size, lock, reads>>

(* A client that closed may still take the line; one that left otherwise not. *)
Reply ==
  /\ pc = "reply"
  /\ \/ /\ peer["client"] \in {"open", "closed"}
        /\ pc' = "arm_client"
        /\ ReplyWith(200)
     \/ /\ peer["client"] # "open"
        /\ pc' = "done"
        /\ UNCHANGED reply
  /\ UNCHANGED <<streams, open, timer, total_size, lock, reads>>

(* A read on a socket that is no longer open completes at once, with an error. *)
Arm(d) ==
  IF open[Read(d)]
  THEN handler' = [handler EXCEPT ![d] = Armed] /\ UNCHANGED result
  ELSE /\ handler' = [handler EXCEPT ![d] = Ready]
       /\ result' = [result EXCEPT ![d] = "bad_descriptor"]

(* client_socket->async_receive *)
ArmClient ==
  /\ pc = "arm_client"
  /\ pc' = "arm_server"
  /\ Arm("up")
  /\ UNCHANGED <<streams, reply, open, timer, total_size, lock, buffer>>

(***************************************************************************)
(* server_socket->async_receive: the thread is inside the call, without    *)
(* the mutex, between these two steps.                                     *)
(***************************************************************************)
BeginArmServer ==
  /\ pc = "arm_server"
  /\ pc' = "arming_server"
  /\ UNCHANGED <<streams, reply, open, timer, total_size, lock, reads>>

EndArmServer ==
  /\ pc = "arming_server"
  /\ pc' = "done"
  /\ Arm("down")
  /\ UNCHANGED <<streams, reply, open, timer, total_size, lock, buffer>>

-----------------------------------------------------------------------------
(***************************************************************************)
(* A pending read completes: with data, or, when none is left, with the    *)
(* way the peer left.  A reset need not wait for the data.  Silence is     *)
(* noticed only if TCP has something to retransmit; it is reported once,   *)
(* and then the socket reads end of file.                                  *)
(***************************************************************************)
Complete(d, outcome) ==
  /\ handler[d] = Armed
  /\ handler' = [handler EXCEPT ![d] = Ready]
  /\ result' = [result EXCEPT ![d] = outcome]

ReadData(d) ==
  /\ toProxy[Read(d)] # <<>>
  /\ Complete(d, "data")
  /\ buffer' = [buffer EXCEPT ![BufferOf(d)] = Head(toProxy[Read(d)])]
  /\ toProxy' = [toProxy EXCEPT ![Read(d)] = Tail(@)]
  /\ UNCHANGED <<peer, sent, received, toPeer, pc, reply, open, timer, total_size, lock>>

ReadError(d) ==
  /\ LET x == Read(d)
     IN \/ /\ peer[x] = "closed" /\ toProxy[x] = <<>>
           /\ Complete(d, "eof")
           /\ UNCHANGED peer
        \/ /\ peer[x] = "reset"
           /\ Complete(d, "connection_reset")
           /\ UNCHANGED peer
        \/ /\ peer[x] = "timed_out" /\ toProxy[x] = <<>>
           /\ Complete(d, "timed_out")
           /\ peer' = [peer EXCEPT ![x] = "closed"]
  /\ UNCHANGED <<sent, received, toProxy, toPeer, pc, reply, open, timer, total_size,
                 lock, buffer>>

(* A free worker takes the handler and reaches lock_guard. *)
RunHandler(d) ==
  /\ handler[d] = Ready
  /\ Cardinality({e \in Directions : handler[e] \in Running}) < Workers
  /\ handler' = [handler EXCEPT ![d] = Locking]
  /\ UNCHANGED <<streams, pc, reply, open, timer, total_size, lock, buffer, result>>

-----------------------------------------------------------------------------
(***************************************************************************)
(* handle_read, from the moment it has the mutex.                          *)
(***************************************************************************)
(* Faulty variant: no lock_guard. *)
AcquireAtOnce(d, next) ==
  /\ handler[d] = Locking
  /\ handler' = [handler EXCEPT ![d] = next]
  /\ lock' = d

Acquire(d, next) ==
  /\ handler[d] = Locking
  /\ lock = Nobody
  /\ handler' = [handler EXCEPT ![d] = next]
  /\ lock' = d

(* Faulty variant: end() is not called. *)
BeginCloseKeepingTimer(d) ==
  /\ result[d] \in ClosingErrors
  /\ Acquire(d, Closing)
  /\ UNCHANGED <<streams, pc, reply, open, timer, total_size, buffer, result>>

BeginClose(d) ==
  /\ result[d] \in ClosingErrors
  /\ Acquire(d, Closing)
  /\ ended' = TRUE
  /\ UNCHANGED <<streams, pc, reply, open, started, total_size, buffer, result>>

(* Faulty variant: the socket that was not read from is left open. *)
EndCloseReadOnly(d) ==
  /\ handler[d] = Closing
  /\ open' = [open EXCEPT ![Read(d)] = FALSE]
  /\ handler' = [handler EXCEPT ![d] = None]
  /\ lock' = Nobody
  /\ UNCHANGED <<streams, pc, reply, timer, total_size, buffer, result>>

(***************************************************************************)
(* Closing a socket aborts the read pending on it.  If it holds unread     *)
(* data, TCP resets the stream, and what is on its way to the peer may be  *)
(* lost.                                                                   *)
(***************************************************************************)
EndClose(d) ==
  /\ handler[d] = Closing
  /\ CloseBoth
  /\ \E lost \in SUBSET {x \in Peers : toProxy[x] # <<>>} :
       toPeer' = [x \in Peers |-> IF x \in lost THEN <<>> ELSE toPeer[x]]
  /\ lock' = Nobody
  /\ IF handler[Other(d)] = Armed
     THEN /\ handler' = [handler EXCEPT ![d] = None, ![Other(d)] = Ready]
          /\ result' = [result EXCEPT ![Other(d)] = "operation_aborted"]
     ELSE /\ handler' = [handler EXCEPT ![d] = None]
          /\ UNCHANGED result
  /\ UNCHANGED <<peer, sent, received, toProxy, pc, reply, timer, total_size, buffer>>

(* if (!write->is_open()) return; *)
Abandon(d) ==
  /\ handler[d] = Locking
  /\ lock = Nobody
  /\ result[d] \notin ClosingErrors
  /\ ~open[Write(d)]
  /\ handler' = [handler EXCEPT ![d] = None]
  /\ UNCHANGED <<streams, pc, reply, open, timer, total_size, lock, buffer, result>>

BeginWrite(d) ==
  /\ result[d] \notin ClosingErrors
  /\ open[Write(d)]
  /\ Acquire(d, Writing)
  /\ UNCHANGED <<streams, pc, reply, open, timer, total_size, buffer, result>>

(* Signed overflow: what total_size becomes is not defined. *)
record_payload(n) ==
  IF total_size + n <= IntMax
  THEN total_size' = total_size + n
  ELSE total_size' \in {total_size, total_size + n - 2 * (IntMax + 1)}

(* Faulty variant: write_some, which need not take all bytes. *)
EndWriteSome(d) ==
  /\ handler[d] = Writing
  /\ LET x == Write(d)
         n == IF result[d] = "data" THEN 1 ELSE 0
     IN /\ \/ /\ n = 1 /\ peer[x] = "open" /\ Len(toPeer[x]) < Capacity
              /\ toPeer' = [toPeer EXCEPT ![x] = Append(@, buffer[BufferOf(d)])]
           \/ UNCHANGED toPeer
        /\ IF RecordTransfer(d) THEN record_payload(n) ELSE UNCHANGED total_size
  /\ Arm(d)
  /\ lock' = Nobody
  /\ UNCHANGED <<peer, sent, received, toProxy, pc, reply, open, timer, buffer>>

(***************************************************************************)
(* The write returns once the stream took all bytes: at once if there are  *)
(* none, else when it has room; what a peer that left takes is forgotten.  *)
(* Then the next read is started.                                          *)
(***************************************************************************)
EndWrite(d) ==
  /\ handler[d] = Writing
  /\ LET x == Write(d)
         n == IF result[d] = "data" THEN 1 ELSE 0
     IN /\ \/ n = 0 /\ UNCHANGED toPeer
           \/ /\ n = 1 /\ peer[x] = "open" /\ Len(toPeer[x]) < Capacity
              /\ toPeer' = [toPeer EXCEPT ![x] = Append(@, buffer[BufferOf(d)])]
           \/ n = 1 /\ peer[x] \in {"closed", "timed_out"} /\ UNCHANGED toPeer
        /\ IF RecordTransfer(d) THEN record_payload(n) ELSE UNCHANGED total_size
  /\ Arm(d)
  /\ lock' = Nobody
  /\ UNCHANGED <<peer, sent, received, toProxy, pc, reply, open, timer, buffer>>

(* The write throws: the handler returns, and nothing is closed. *)
FailWrite(d) ==
  /\ handler[d] = Writing
  /\ result[d] = "data"
  /\ peer[Write(d)] # "open"
  /\ handler' = [handler EXCEPT ![d] = None]
  /\ lock' = Nobody
  /\ UNCHANGED <<streams, pc, reply, open, timer, total_size, buffer, result>>

-----------------------------------------------------------------------------
HandleConnection ==
  Resolve \/ Connect \/ Reply \/ ArmClient \/ BeginArmServer \/ EndArmServer

Handler(d) ==
  \/ RunHandler(d)
  \/ BeginClose(d) \/ EndClose(d) \/ Abandon(d)
  \/ BeginWrite(d) \/ EndWrite(d) \/ FailWrite(d)

Asio(d) == ReadData(d) \/ ReadError(d)

Peer(x) == PeerSend(x) \/ PeerReceive(x) \/ PeerLeave(x)

Next ==
  \/ HandleConnection
  \/ \E d \in Directions : Handler(d) \/ Asio(d)
  \/ \E x \in Peers : Peer(x)

Spec == Init /\ [][Next]_vars

(***************************************************************************)
(* The threads of the proxy run, a read completes once there is data, an   *)
(* end of file or a reset, and a peer that stays reads what it is sent;    *)
(* the server sends the answers it owes.  A peer need not send anything    *)
(* else, and need not leave, and a read from a silent peer need not end.   *)
(***************************************************************************)
Heard(d) == peer[Read(d)] # "timed_out" \/ toProxy[Read(d)] # <<>>

Fairness ==
  /\ WF_vars(HandleConnection)
  /\ \A d \in Directions : WF_vars(Handler(d)) /\ WF_vars(Heard(d) /\ Asio(d))
  /\ \A x \in Peers : WF_vars(PeerReceive(x))
  /\ WF_vars(Owes /\ PeerSend("server"))

FairSpec == Spec /\ Fairness

-----------------------------------------------------------------------------
(* Every variable has its type. *)
TypeOK ==
  /\ peer \in [Peers -> {"open", "closed", "reset", "timed_out"}]
  /\ sent \in [Peers -> 0 .. MaxChunks]
  /\ received \in [Peers -> Seq(1 .. MaxChunks)]
  /\ toProxy \in [Peers -> Seq(1 .. MaxChunks)]
  /\ toPeer \in [Peers -> Seq(1 .. MaxChunks)]
  /\ pc \in {"resolve", "connect", "reply", "arm_client", "arm_server", "arming_server", "done"}
  /\ reply \in {0, 200, 404, 502}
  /\ open \in [Peers -> BOOLEAN]
  /\ started \in BOOLEAN
  /\ ended \in BOOLEAN
  /\ total_size \in -(IntMax + 1) .. IntMax
  /\ lock \in Directions \cup {Nobody}
  /\ buffer \in [Directions -> 0 .. MaxChunks]
  /\ handler \in [Directions -> {Armed, Ready, None} \cup Running]
  /\ result \in [Directions -> ClosingErrors \cup OtherErrors \cup {"data"}]

(* What was written towards a peer that is still there. *)
Delivered(x) == received[x] \o toPeer[x]

(* handle_connection drops what was read along with the header. *)
Dropped(d) == IF d = "up" THEN EarlyChunks ELSE 0

(***************************************************************************)
(* Each peer receives what the other sent, in order and without a gap      *)
(* (README.md:77, "relays data between endpoints"), whichever worker runs  *)
(* which handler of handle_read and however the two directions and their   *)
(* closing interleave; only what came with the header is missing.          *)
(***************************************************************************)
RelayedInOrder ==
  \A d \in Directions :
    LET relayed == Delivered(Write(d))
    IN /\ relayed = [i \in DOMAIN relayed |-> Dropped(d) + i]
       /\ Dropped(d) + Len(relayed) <= sent[Read(d)]

(***************************************************************************)
(* When the server closed in order, handle_read closes the client socket   *)
(* only after all the server sent was written to it: the end of file does  *)
(* not overtake the data of an earlier read.                               *)
(***************************************************************************)
ResponseWrittenBeforeClose ==
  handler["down"] = Closing /\ result["down"] = "eof" /\ peer["client"] = "open"
    => Len(Delivered("client")) = sent["server"] \/ peer["server"] = "reset"

(***************************************************************************)
(* total_size counts what was written to the client, and only that         *)
(* (README.md:131, "records the amount of bytes transferred"), at every    *)
(* moment at which no write is in progress and the client is still there,  *)
(* as long as it fits into an int.                                         *)
(***************************************************************************)
SizeIsExact ==
  peer["client"] = "open" /\ open["client"] /\ Len(Delivered("client")) <= IntMax
    => total_size = Len(Delivered("client"))

(***************************************************************************)
(* The threads that are inside a call on the socket of a peer: the         *)
(* accepting thread that starts the read on it, a handler that writes to   *)
(* it or closes it.                                                        *)
(***************************************************************************)
SocketUsers(x) ==
  {t \in {"accept"} : pc = "arming_server" /\ x = "server"}
  \cup {d \in Directions : handler[d] = Writing /\ Write(d) = x}
  \cup {d \in Directions : handler[d] = Closing}

(***************************************************************************)
(* README.md:110: the mutex of the connection "prevents any possible race  *)
(* conditions on reading from or writing to the sockets".  It does among   *)
(* the handlers, also while they wait for it, write and close; the one     *)
(* race left is with the accepting thread, which starts the second read    *)
(* without the mutex (connection.cpp:139).                                 *)
(***************************************************************************)
SocketAccessesAreExclusive ==
  \A x \in Peers :
    /\ Cardinality(SocketUsers(x) \ {"accept"}) <= 1
    /\ Cardinality(SocketUsers(x)) > 1 => x = "server" /\ pc = "arming_server"

(***************************************************************************)
(* README.md:132: "When either side of a Connection closes, either         *)
(* exceptionally or otherwise, the timer for the corresponding Connection  *)
(* is stopped": an established connection is destroyed with its timer      *)
(* running, which suppresses its telemetry, only if the last write of each *)
(* direction failed because both peers had left.                           *)
(***************************************************************************)
TimerStoppedWhenDestroyed ==
  Destroyed /\ reply = 200 /\ ~ended
    => \A d \in Directions : result[d] = "data" /\ peer[Write(d)] # "open"

(* The loop of a direction ended with a failed write to a peer TCP gave up; *)
(* of that peer, the other loop need never hear.                            *)
LostItsWriter(d) ==
  pc = "done" /\ handler[d] = None /\ result[d] = "data" /\ peer[Write(d)] = "timed_out"

(***************************************************************************)
(* README.md:132, "When either side of a Connection closes, either         *)
(* exceptionally or otherwise": once a peer of an established connection   *)
(* closed or reset it, both loops of handle_read end and the Connection    *)
(* is destroyed, unless a loop was ended before by a failed write to a     *)
(* peer that vanished.  A peer that is only silent destroys nothing.       *)
(***************************************************************************)
DestroyedAfterAPeerLeft ==
  (reply = 200 /\ \E x \in Peers : peer[x] \in {"closed", "reset"})
    ~> Destroyed \/ \E d \in Directions : LostItsWriter(d)

TunnelState ==
  IF \E x \in Peers : peer[x] # "open" THEN "down"
  ELSE IF reply = 200 THEN "up" ELSE "closed"

Opposite(x) == IF x = "client" THEN "server" ELSE "client"

Relay == INSTANCE Tunnel WITH
  state <- TunnelState,
  sent <- [sent EXCEPT !["client"] = @ - EarlyChunks],
  received <- [received EXCEPT !["server"] = [i \in DOMAIN @ |-> @[i] - EarlyChunks]]

(***************************************************************************)
(* The connection implements a Tunnel, which is up from the status line    *)
(* 200 until a peer leaves: whatever the buffers, the mutex and the        *)
(* workers do, the peers see two FIFO relays, and a peer that left before  *)
(* the status line was never part of one (README.md:129-132).  What came   *)
(* with the header is not part of it either.                               *)
(***************************************************************************)
ImplementsTunnel == Relay!SafeSpec

(***************************************************************************)
(* With threads and peers that run, it also relays as promptly as the      *)
(* Tunnel: while it is up, whatever was sent arrives (README.md:131).      *)
(***************************************************************************)
RelaysLikeATunnel == Relay!Spec

(***************************************************************************)
(* README.md:131: data received from one socket is written to the other.   *)
(* While both peers stay, all that one sends reaches the other.            *)
(***************************************************************************)
DataIsRelayed ==
  \A d \in Directions, n \in 1 .. MaxChunks :
    sent[Read(d)] >= n
      ~> Dropped(d) + Len(received[Write(d)]) >= n \/ reply # 200 \/ \E x \in Peers : peer[x] # "open"
=============================================================================
