---------------------------- MODULE ConnectionProofs ----------------------------
(***************************************************************************)
(* Proofs about Connection, for any number of chunks, capacity, workers    *)
(* and width of an int: its types, its inductive invariant, one conjunct   *)
(* per lemma and one action per step, and from it the safety properties    *)
(* of a proxied connection, and that it implements a Tunnel.               *)
(***************************************************************************)
EXTENDS ConnectionInvariant, SequenceTheorems, FiniteSetTheorems, TLAPS

(***************************************************************************)
(* Type correctness.  What a handler writes is a chunk, not the empty      *)
(* buffer, and a write is in progress only while the sockets are open.     *)
(***************************************************************************)
BuffersAreFilled == \A d \in Directions : Carries(d) => buffer[d] # NoData

TypeInv == TypeOK /\ BuffersAreFilled

(* The directions and the peers: two each, and every peer is an end of both. *)
LEMMA Ends ==
  /\ \A d \in Directions : /\ Read(d) \in Peers /\ Write(d) \in Peers
                           /\ Read(d) # Write(d)
                           /\ Other(d) \in Directions /\ Other(d) # d
                           /\ Read(Other(d)) = Write(d) /\ Write(Other(d)) = Read(d)
                           /\ \A e \in Directions : e = d \/ e = Other(d)
  /\ Peers = {"client", "server"} /\ Directions = {"up", "down"}
BY DEF Read, Write, Other, Peers, Directions

(* The states of a handler are seven different ones. *)
LEMMA HandlerStates ==
  /\ Armed = "armed" /\ Ready = "ready" /\ Locking = "locking"
  /\ Writing = "writing" /\ Closing = "closing" /\ None = "none"
BY DEF Armed, Ready, Locking, Writing, Closing, None

(* A stream that loses or takes chunks is a stream. *)
LEMMA Cleared ==
  ASSUME NEW S, NEW f \in [Peers -> Seq(S)], NEW x \in Peers
  PROVE  [f EXCEPT ![x] = <<>>] \in [Peers -> Seq(S)]
BY EmptySeq

LEMMA Taken ==
  ASSUME NEW S, NEW f \in [Peers -> Seq(S)], NEW x \in Peers, f[x] # <<>>
  PROVE  Head(f[x]) \in S /\ [f EXCEPT ![x] = Tail(@)] \in [Peers -> Seq(S)]
<1>1. Head(f[x]) \in S /\ Tail(f[x]) \in Seq(S)
  BY HeadTailProperties
<1> QED
  BY <1>1

LEMMA Added ==
  ASSUME NEW S, NEW f \in [Peers -> Seq(S)], NEW x \in Peers, NEW n \in S
  PROVE  [f EXCEPT ![x] = Append(@, n)] \in [Peers -> Seq(S)]
<1>1. Append(f[x], n) \in Seq(S)
  BY AppendProperties
<1> QED
  BY <1>1

(* Closing both sockets, and opening one, leaves it known which are open. *)
LEMMA BothClosed == [x \in Peers |-> FALSE] \in [Peers -> BOOLEAN]
BY Zenon

LEMMA TypeOfOpen ==
  ASSUME open \in [Peers -> BOOLEAN],
         \/ open' = open
         \/ open' = [x \in Peers |-> FALSE]
         \/ open' = [open EXCEPT !["server"] = TRUE]
  PROVE  open' \in [Peers -> BOOLEAN]
<1>1. [open EXCEPT !["server"] = TRUE] \in [Peers -> BOOLEAN]
  BY Ends
<1> QED
  BY <1>1, BothClosed

(* The type invariant holds initially. *)
LEMMA InitTypeInv == Init => TypeInv
<1> SUFFICES ASSUME Init PROVE TypeInv
  OBVIOUS
<1>1. open \in [Peers -> BOOLEAN]
  BY Zenon DEF Init
<1>2. <<>> \in Seq(1 .. MaxChunks)
  BY EmptySeq
<1>3. sent \in [Peers -> 0 .. MaxChunks]
  BY SizesAssumption DEF Init
<1>4. handler = [d \in Directions |-> "none"]
  BY HandlerStates DEF Init
<1>5. /\ received \in [Peers -> Seq(1 .. MaxChunks)]
      /\ toProxy \in [Peers -> Seq(1 .. MaxChunks)]
      /\ toPeer \in [Peers -> Seq(1 .. MaxChunks)]
  BY <1>2 DEF Init
<1>6. /\ buffer \in [Directions -> 0 .. MaxChunks]
      /\ handler \in [Directions -> {Armed, Ready, None} \cup Running]
      /\ result \in [Directions -> ClosingErrors \cup OtherErrors \cup {"data"}]
  BY SizesAssumption DEF Init, NoData
<1>7. BuffersAreFilled
  BY <1>4, HandlerStates DEF BuffersAreFilled, Carries
<1>8. total_size \in -(IntMax + 1) .. IntMax
  BY SizesAssumption DEF Init
<1> QED
  BY <1>1, <1>3, <1>5, <1>6, <1>7, <1>8 DEF Init, TypeInv, TypeOK

(* The peers keep the types. *)
LEMMA PeerTypeInv == ASSUME TypeInv, NEW x \in Peers, Peer(x) PROVE TypeInv'
<1>0. /\ sent \in [Peers -> 0 .. MaxChunks]
      /\ received \in [Peers -> Seq(1 .. MaxChunks)]
      /\ toProxy \in [Peers -> Seq(1 .. MaxChunks)]
      /\ toPeer \in [Peers -> Seq(1 .. MaxChunks)]
      /\ peer \in [Peers -> {"open", "closed", "reset", "timed_out"}]
  BY DEF TypeInv, TypeOK
<1>1. UNCHANGED <<pc, reply, open, started, ended, total_size, lock, buffer, handler, result>>
  BY DEF Peer, PeerSend, PeerReceive, PeerLeave, timer, reads
<1>2. /\ sent' \in [Peers -> 0 .. MaxChunks]
      /\ received' \in [Peers -> Seq(1 .. MaxChunks)]
      /\ toProxy' \in [Peers -> Seq(1 .. MaxChunks)]
      /\ toPeer' \in [Peers -> Seq(1 .. MaxChunks)]
      /\ peer' \in [Peers -> {"open", "closed", "reset", "timed_out"}]
  <2>1. CASE PeerSend(x)
    <3>1. sent[x] + 1 \in 1 .. MaxChunks
      BY <2>1, <1>0, SizesAssumption DEF PeerSend
    <3>2. /\ sent' = [sent EXCEPT ![x] = @ + 1]
          /\ toProxy' = [toProxy EXCEPT ![x] = Append(@, sent[x] + 1)]
          /\ UNCHANGED <<peer, received, toPeer>>
      BY <2>1 DEF PeerSend
    <3>3. toProxy' \in [Peers -> Seq(1 .. MaxChunks)]
      BY <3>1, <3>2, <1>0, Added
    <3> QED
      BY <3>1, <3>2, <3>3, <1>0
  <2>2. CASE PeerReceive(x)
    <3>1. Head(toPeer[x]) \in 1 .. MaxChunks /\ toPeer' \in [Peers -> Seq(1 .. MaxChunks)]
      BY <2>2, <1>0, Taken DEF PeerReceive
    <3>2. received' \in [Peers -> Seq(1 .. MaxChunks)]
      BY <2>2, <3>1, <1>0, Added DEF PeerReceive
    <3> QED
      BY <2>2, <3>1, <3>2, <1>0 DEF PeerReceive
  <2>3. CASE PeerLeave(x)
    <3>1. \E how \in {"closed", "reset", "timed_out"} : peer' = [peer EXCEPT ![x] = how]
      BY <2>3 DEF PeerLeave
    <3>2. toProxy' \in [Peers -> Seq(1 .. MaxChunks)]
      <4>1. toProxy' = toProxy \/ toProxy' = [toProxy EXCEPT ![x] = <<>>]
        BY <2>3 DEF PeerLeave
      <4>2. [toProxy EXCEPT ![x] = <<>>] \in [Peers -> Seq(1 .. MaxChunks)]
        BY <1>0, Cleared
      <4> QED
        BY <4>1, <4>2, <1>0
    <3>3. toPeer' \in [Peers -> Seq(1 .. MaxChunks)]
      BY <2>3, <1>0, Cleared DEF PeerLeave
    <3> QED
      BY <2>3, <3>1, <3>2, <3>3, <1>0 DEF PeerLeave
  <2> QED
    BY <2>1, <2>2, <2>3 DEF Peer
<1> QED
  BY <1>1, <1>2 DEF TypeInv, TypeOK, BuffersAreFilled, Carries

(* handle_connection keeps the types. *)
LEMMA HandleConnectionTypeInv == TypeInv /\ HandleConnection => TypeInv'
<1> SUFFICES ASSUME TypeInv, HandleConnection PROVE TypeInv'
  OBVIOUS
<1> USE DEF TypeInv, TypeOK, BuffersAreFilled, Carries, streams, reads, timer
<1>1. CASE Resolve
  <2>1. open' \in [Peers -> BOOLEAN]
    BY <1>1, TypeOfOpen DEF Resolve, CloseBoth
  <2>2. reply' \in {0, 200, 404, 502} /\ pc' \in {"connect", "done"}
    BY <1>1 DEF Resolve, ReplyWith
  <2>3. UNCHANGED <<peer, sent, received, toProxy, toPeer, started, ended, total_size, lock,
                    buffer, handler, result>>
    BY <1>1 DEF Resolve
  <2> QED
    BY <2>1, <2>2, <2>3
<1>2. CASE Connect
  <2>1. open' \in [Peers -> BOOLEAN]
    BY <1>2, TypeOfOpen DEF Connect, CloseBoth
  <2>2. reply' \in {reply, 502} /\ pc' \in {"reply", "done"} /\ started' = TRUE
    BY <1>2 DEF Connect, ReplyWith
  <2>3. UNCHANGED <<peer, sent, received, toProxy, toPeer, ended, total_size, lock, buffer,
                    handler, result>>
    BY <1>2 DEF Connect
  <2> QED
    BY <2>1, <2>2, <2>3
<1>3. CASE Reply
  BY <1>3 DEF Reply, ReplyWith
<1>4. CASE ArmClient
  BY <1>4, Ends DEF ArmClient, Arm, OtherErrors, ClosingErrors, Armed, Ready, Locking, Writing
<1>5. CASE BeginArmServer
  BY <1>5 DEF BeginArmServer
<1>6. CASE EndArmServer
  BY <1>6, Ends DEF EndArmServer, Arm, OtherErrors, ClosingErrors, Armed, Ready, Locking, Writing
<1> QED
  BY <1>1, <1>2, <1>3, <1>4, <1>5, <1>6 DEF HandleConnection

(* The completion of a read keeps the types. *)
LEMMA AsioTypeInv == ASSUME TypeInv, NEW d \in Directions, Asio(d) PROVE TypeInv'
<1>0. toProxy \in [Peers -> Seq(1 .. MaxChunks)] /\ Read(d) \in Peers
  BY Ends DEF TypeInv, TypeOK
<1>r. toProxy[Read(d)] # <<>>
        => /\ Head(toProxy[Read(d)]) \in 1 .. MaxChunks
           /\ [toProxy EXCEPT ![Read(d)] = Tail(@)] \in [Peers -> Seq(1 .. MaxChunks)]
  BY <1>0, Taken
<1>b. ReadData(d) => /\ buffer' \in [Directions -> 0 .. MaxChunks]
                     /\ buffer'[d] # 0
                     /\ \A e \in Directions \ {d} : buffer'[e] = buffer[e]
  <2> SUFFICES ASSUME ReadData(d)
               PROVE  /\ buffer' \in [Directions -> 0 .. MaxChunks]
                      /\ buffer'[d] # 0
                      /\ \A e \in Directions \ {d} : buffer'[e] = buffer[e]
    OBVIOUS
  <2>1. PICK chunk \in 1 .. MaxChunks : buffer' = [buffer EXCEPT ![d] = chunk]
    BY <1>r DEF ReadData, BufferOf
  <2>2. buffer \in [Directions -> 0 .. MaxChunks]
    BY DEF TypeInv, TypeOK
  <2> QED
    BY <2>1, <2>2, SizesAssumption
<1> USE Ends DEF TypeInv, TypeOK, BuffersAreFilled, Carries, Complete, timer
<1>1. CASE ReadData(d)
  <2>1. /\ Head(toProxy[Read(d)]) \in 1 .. MaxChunks
        /\ toProxy' \in [Peers -> Seq(1 .. MaxChunks)]
    <3>1. toProxy[Read(d)] # <<>> /\ toProxy' = [toProxy EXCEPT ![Read(d)] = Tail(@)]
      BY <1>1 DEF ReadData
    <3> QED
      BY <3>1, <1>r
  <2>2. /\ buffer' \in [Directions -> 0 .. MaxChunks]
        /\ buffer'[d] # 0
        /\ \A e \in Directions \ {d} : buffer'[e] = buffer[e]
    BY <1>1, <1>b
  <2>3. /\ handler' = [handler EXCEPT ![d] = Ready]
        /\ result' = [result EXCEPT ![d] = "data"]
    BY <1>1 DEF ReadData
  <2>4. UNCHANGED <<peer, sent, received, toPeer, pc, reply, open, started, ended,
                    total_size, lock>>
    BY <1>1 DEF ReadData
  <2> QED
    BY <2>1, <2>2, <2>3, <2>4, HandlerStates, SMTT(20) DEF NoData
<1>2. CASE ReadError(d)
  BY <1>2, HandlerStates DEF ReadError, ClosingErrors, OtherErrors
<1> QED
  BY <1>1, <1>2 DEF Asio

(* Whatever total_size is after an overflow, it is an int. *)
LEMMA RecordPayloadType ==
  ASSUME TypeOK, NEW n \in {0, 1}, record_payload(n)
  PROVE  total_size' \in -(IntMax + 1) .. IntMax
BY SizesAssumption DEF TypeOK, record_payload

(* handle_read keeps the types. *)
LEMMA HandlerTypeInv == ASSUME TypeInv, NEW d \in Directions, Handler(d) PROVE TypeInv'
<1>c. EndClose(d) => toPeer' \in [Peers -> Seq(1 .. MaxChunks)]
  <2> SUFFICES ASSUME EndClose(d) PROVE toPeer' \in [Peers -> Seq(1 .. MaxChunks)]
    OBVIOUS
  <2>1. PICK lost \in SUBSET Peers :
          toPeer' = [x \in Peers |-> IF x \in lost THEN <<>> ELSE toPeer[x]]
    BY DEF EndClose
  <2>2. toPeer \in [Peers -> Seq(1 .. MaxChunks)]
    BY DEF TypeInv, TypeOK
  <2>3. \A x \in Peers : (IF x \in lost THEN <<>> ELSE toPeer[x]) \in Seq(1 .. MaxChunks)
    BY <2>2, EmptySeq
  <2> QED
    BY <2>1, <2>3
<1>w. EndWrite(d) => toPeer' \in [Peers -> Seq(1 .. MaxChunks)]
  <2> SUFFICES ASSUME EndWrite(d) PROVE toPeer' \in [Peers -> Seq(1 .. MaxChunks)]
    OBVIOUS
  <2>1. toPeer \in [Peers -> Seq(1 .. MaxChunks)] /\ Write(d) \in Peers
    BY Ends DEF TypeInv, TypeOK
  <2>2. result[d] = "data" => buffer[d] \in 1 .. MaxChunks
    BY SizesAssumption, HandlerStates DEF EndWrite, NoData, TypeInv, TypeOK, BuffersAreFilled, Carries
  <2>3. result[d] = "data"
          => [toPeer EXCEPT ![Write(d)] = Append(@, buffer[d])] \in [Peers -> Seq(1 .. MaxChunks)]
    BY <2>1, <2>2, Added
  <2>4. \/ toPeer' = toPeer
        \/ /\ result[d] = "data"
           /\ toPeer' = [toPeer EXCEPT ![Write(d)] = Append(@, buffer[d])]
    BY DEF EndWrite, BufferOf
  <2> QED
    BY <2>1, <2>3, <2>4
<1> USE Ends, HandlerStates
    DEF TypeInv, TypeOK, BuffersAreFilled, Carries, streams, timer, Running
<1>1. CASE RunHandler(d)
  BY <1>1 DEF RunHandler
<1>2. CASE BeginClose(d)
  BY <1>2 DEF BeginClose, Acquire
<1>3. CASE EndClose(d)
  <2>1. toPeer' \in [Peers -> Seq(1 .. MaxChunks)]
    BY <1>3, <1>c
  <2>2. open' \in [Peers -> BOOLEAN]
    BY <1>3, TypeOfOpen DEF EndClose, CloseBoth
  <2>3. /\ \/ handler' = [handler EXCEPT ![d] = None, ![Other(d)] = Ready]
              /\ result' = [result EXCEPT ![Other(d)] = "operation_aborted"]
           \/ handler' = [handler EXCEPT ![d] = None] /\ UNCHANGED result
        /\ lock' = Nobody
        /\ UNCHANGED <<peer, sent, received, toProxy, pc, reply, started, ended,
                        total_size, buffer>>
    BY <1>3 DEF EndClose
  <2> QED
    BY <2>1, <2>2, <2>3 DEF OtherErrors, ClosingErrors
<1>4. CASE Abandon(d)
  BY <1>4 DEF Abandon
<1>5. CASE BeginWrite(d)
  BY <1>5 DEF BeginWrite, Acquire
<1>6. CASE EndWrite(d)
  <2>1. toPeer' \in [Peers -> Seq(1 .. MaxChunks)]
    BY <1>6, <1>w
  <2>2. total_size' \in -(IntMax + 1) .. IntMax
    <3>1. total_size' = total_size \/ \E n \in {0, 1} : record_payload(n)
      BY <1>6 DEF EndWrite
    <3> QED
      BY <3>1, RecordPayloadType
  <2>3. Arm(d) /\ lock' = Nobody /\ buffer' = buffer
        /\ UNCHANGED <<peer, sent, received, toProxy, pc, reply, open, started, ended>>
    BY <1>6 DEF EndWrite
  <2> QED
    BY <2>1, <2>2, <2>3 DEF Arm, OtherErrors, ClosingErrors
<1>7. CASE FailWrite(d)
  BY <1>7 DEF FailWrite
<1> QED
  BY <1>1, <1>2, <1>3, <1>4, <1>5, <1>6, <1>7 DEF Handler

(* Every step keeps the types. *)
LEMMA NextTypeInv == TypeInv /\ [Next]_vars => TypeInv'
<1> SUFFICES ASSUME TypeInv, [Next]_vars PROVE TypeInv'
  OBVIOUS
<1>1. CASE Next
  BY <1>1, HandleConnectionTypeInv, HandlerTypeInv, AsioTypeInv, PeerTypeInv DEF Next
<1>2. CASE UNCHANGED vars
  BY <1>2 DEF vars, streams, timer, reads, TypeInv, TypeOK, BuffersAreFilled, Carries
<1> QED
  BY <1>1, <1>2

(***************************************************************************)
(* Every variable of a connection always has its type; total_size is an    *)
(* int even when its sum overflows.                                        *)
(***************************************************************************)
THEOREM TypeCorrect == Spec => []TypeOK
<1>1. TypeInv => TypeOK
  BY DEF TypeInv
<1> QED
  BY <1>1, InitTypeInv, NextTypeInv, PTL DEF Spec

-----------------------------------------------------------------------------
(* What the control of a connection consists of, and its types. *)
LEMMA ControlTypes ==
  ASSUME TypeInv
  PROVE  /\ peer \in [Peers -> {"open", "closed", "reset", "timed_out"}]
         /\ pc \in {"resolve", "connect", "reply", "arm_client", "arm_server",
                    "arming_server", "done"}
         /\ open \in [Peers -> BOOLEAN]
         /\ ended \in BOOLEAN
         /\ lock \in {"up", "down", "nobody"}
         /\ handler \in [Directions -> {"armed", "ready", "none", "locking", "writing", "closing"}]
         /\ result \in [Directions -> {"data", "eof", "connection_reset", "connection_aborted",
                                       "operation_aborted", "bad_descriptor", "timed_out"}]
BY HandlerStates
   DEF TypeInv, TypeOK, Running, ClosingErrors, OtherErrors, Nobody, Directions

(* The handler that writes or closes is the one that holds the mutex. *)
LEMMA MutexStep ==
  ASSUME TypeInv, Mutex, Next PROVE Mutex'
<1> USE ControlTypes, HandlerStates, Ends DEF Mutex, Holding
<1>1. CASE HandleConnection
  <2>1. lock' = lock
    BY <1>1 DEF HandleConnection, Resolve, Connect, Reply, ArmClient, BeginArmServer, EndArmServer
  <2>2. \/ handler' = handler
        \/ \E d \in Directions : Arm(d)
    BY <1>1 DEF HandleConnection, Resolve, Connect, Reply, ArmClient, BeginArmServer,
                EndArmServer, reads
  <2> QED
    BY <2>1, <2>2 DEF Arm
<1>2. ASSUME NEW d \in Directions, Asio(d) PROVE Mutex'
  BY <1>2 DEF Asio, ReadData, ReadError, Complete
<1>3. ASSUME NEW d \in Directions, Handler(d) PROVE Mutex'
  <2>1. CASE RunHandler(d) \/ Abandon(d)
    BY <2>1 DEF RunHandler, Abandon
  <2>2. CASE BeginClose(d) \/ BeginWrite(d)
    BY <2>2 DEF BeginClose, BeginWrite, Acquire, Nobody
  <2>3. CASE EndClose(d) \/ EndWrite(d) \/ FailWrite(d)
    <3>1. lock = d /\ \A e \in Directions : e # d => handler[e] \notin {Writing, Closing}
      BY <2>3 DEF EndClose, EndWrite, FailWrite
    <3>2. \A e \in Directions : handler'[e] \notin {Writing, Closing}
      BY <2>3, <3>1 DEF EndClose, EndWrite, FailWrite, Arm
    <3> QED
      BY <3>2
  <2> QED
    BY <1>3, <2>1, <2>2, <2>3 DEF Handler
<1>4. ASSUME NEW x \in Peers, Peer(x) PROVE Mutex'
  BY <1>4 DEF Peer, PeerSend, PeerReceive, PeerLeave, reads
<1> QED
  BY <1>1, <1>2, <1>3, <1>4 DEF Next

(***************************************************************************)
(* handle_connection goes through its phases, and handle_read writes only  *)
(* while both sockets are open and closes only after end().                *)
(***************************************************************************)
LEMMA PhasesStep ==
  ASSUME TypeInv, Mutex, Phases, Next PROVE Phases'
<1> USE ControlTypes, HandlerStates, Ends DEF Phases, Replied
<1>1. CASE HandleConnection
  <2> USE DEF streams, reads, timer
  <2>1. CASE Resolve
    BY <2>1 DEF Resolve, ReplyWith, CloseBoth
  <2>2. CASE Connect
    BY <2>2 DEF Connect, ReplyWith, CloseBoth
  <2>3. CASE Reply
    BY <2>3 DEF Reply, ReplyWith
  <2>4. CASE ArmClient
    BY <2>4 DEF ArmClient, Arm
  <2>5. CASE BeginArmServer
    BY <2>5 DEF BeginArmServer
  <2>6. CASE EndArmServer
    BY <2>6 DEF EndArmServer, Arm
  <2> QED
    BY <1>1, <2>1, <2>2, <2>3, <2>4, <2>5, <2>6 DEF HandleConnection
<1>2. ASSUME NEW d \in Directions, Asio(d) PROVE Phases'
  <2>1. /\ handler[d] = Armed /\ handler' = [handler EXCEPT ![d] = Ready]
        /\ UNCHANGED <<pc, reply, open, ended>>
        /\ peer["client"] # "open" => peer'["client"] # "open"
    BY <1>2 DEF Asio, ReadData, ReadError, Complete, timer
  <2> QED
    BY <2>1
<1>3. ASSUME NEW d \in Directions, Handler(d) PROVE Phases'
  <2> USE DEF streams, timer
  <2>1. CASE RunHandler(d)
    BY <2>1 DEF RunHandler
  <2>2. CASE BeginClose(d)
    BY <2>2 DEF BeginClose, Acquire
  <2>3. CASE EndClose(d)
    <3>1. /\ handler'[d] = None
          /\ \A e \in Directions : handler[e] = None => handler'[e] = None
          /\ \A e \in Directions : handler'[e] \notin {Writing, Closing}
      BY <2>3 DEF EndClose, Mutex, Holding
    <3>2. open' = [x \in Peers |-> FALSE] /\ ended
          /\ UNCHANGED <<pc, reply, ended, peer>>
      BY <2>3 DEF EndClose, CloseBoth
    <3> QED
      BY <3>1, <3>2, <2>3 DEF EndClose
  <2>4. CASE Abandon(d)
    BY <2>4 DEF Abandon
  <2>5. CASE BeginWrite(d)
    BY <2>5 DEF BeginWrite, Acquire
  <2>6. CASE EndWrite(d)
    <3>1. handler[d] = Writing /\ Arm(d) /\ UNCHANGED <<pc, reply, open, ended, peer>>
      BY <2>6 DEF EndWrite
    <3> QED
      BY <3>1 DEF Arm
  <2>7. CASE FailWrite(d)
    BY <2>7 DEF FailWrite
  <2> QED
    BY <1>3, <2>1, <2>2, <2>3, <2>4, <2>5, <2>6, <2>7 DEF Handler
<1>4. ASSUME NEW x \in Peers, Peer(x) PROVE Phases'
  <2>1. /\ UNCHANGED <<pc, reply, open, ended, handler>>
        /\ peer["client"] # "open" => peer'["client"] # "open"
    BY <1>4 DEF Peer, PeerSend, PeerReceive, PeerLeave, reads, timer
  <2> QED
    BY <2>1
<1> QED
  BY <1>1, <1>2, <1>3, <1>4 DEF Next

(* A loop that is over was ended by a handler that closed, or a failed write. *)
LEMMA EndingsStep ==
  ASSUME TypeInv, Mutex, Phases, Endings, Next PROVE Endings'
<1> USE ControlTypes, HandlerStates, Ends DEF Endings, Begun
<1>1. CASE HandleConnection
  <2> USE DEF streams, reads, timer
  <2>1. CASE Resolve
    BY <2>1 DEF Resolve, ReplyWith, Phases
  <2>2. CASE Connect
    BY <2>2 DEF Connect, ReplyWith, Phases
  <2>3. CASE Reply
    BY <2>3 DEF Reply, ReplyWith, Phases
  <2>4. CASE ArmClient
    BY <2>4 DEF ArmClient, Arm
  <2>5. CASE BeginArmServer
    BY <2>5 DEF BeginArmServer
  <2>6. CASE EndArmServer
    BY <2>6 DEF EndArmServer, Arm
  <2> QED
    BY <1>1, <2>1, <2>2, <2>3, <2>4, <2>5, <2>6 DEF HandleConnection
<1>2. ASSUME NEW d \in Directions, Asio(d) PROVE Endings'
  <2>1. /\ handler' = [handler EXCEPT ![d] = Ready]
        /\ \A e \in Directions : e # d => result'[e] = result[e]
        /\ UNCHANGED <<pc, reply, open, ended>>
        /\ \A x \in Peers : peer[x] # "open" => peer'[x] # "open"
    BY <1>2 DEF Asio, ReadData, ReadError, Complete, timer
  <2> QED
    BY <2>1
<1>3. ASSUME NEW d \in Directions, Handler(d) PROVE Endings'
  <2> USE DEF streams, timer
  <2>1. CASE RunHandler(d)
    BY <2>1 DEF RunHandler
  <2>2. CASE BeginClose(d)
    BY <2>2 DEF BeginClose, Acquire
  <2>3. CASE EndClose(d)
    BY <2>3 DEF EndClose, Phases
  <2>4. CASE Abandon(d)
    <3>1. ended /\ UNCHANGED ended
      BY <2>4 DEF Abandon, Phases, Replied
    <3> QED
      BY <3>1
  <2>5. CASE BeginWrite(d)
    BY <2>5 DEF BeginWrite, Acquire
  <2>6. CASE EndWrite(d)
    <3>1. handler[d] = Writing /\ Arm(d) /\ UNCHANGED <<pc, reply, open, ended, peer>>
      BY <2>6 DEF EndWrite
    <3> QED
      BY <3>1 DEF Arm
  <2>7. CASE FailWrite(d)
    BY <2>7 DEF FailWrite
  <2> QED
    BY <1>3, <2>1, <2>2, <2>3, <2>4, <2>5, <2>6, <2>7 DEF Handler
<1>4. ASSUME NEW x \in Peers, Peer(x) PROVE Endings'
  <2>1. /\ UNCHANGED <<pc, reply, ended, handler, result>>
        /\ \A y \in Peers : peer[y] # "open" => peer'[y] # "open"
    BY <1>4 DEF Peer, PeerSend, PeerReceive, PeerLeave, reads, timer
  <2> QED
    BY <2>1
<1> QED
  BY <1>1, <1>2, <1>3, <1>4 DEF Next

(* The end of the file is seen when the stream is used up, and stays true. *)
LEMMA EndOfFileStep ==
  ASSUME TypeInv, Mutex, EndOfFile, Next PROVE EndOfFile'
<1> USE ControlTypes, HandlerStates, Ends DEF EndOfFile
<1>1. CASE HandleConnection
  <2>1. UNCHANGED <<peer, toProxy>>
    BY <1>1 DEF HandleConnection, Resolve, Connect, Reply, ArmClient, BeginArmServer,
                EndArmServer, streams
  <2>2. \/ UNCHANGED <<handler, result>>
        \/ \E d \in Directions : Arm(d)
    BY <1>1 DEF HandleConnection, Resolve, Connect, Reply, ArmClient, BeginArmServer,
                EndArmServer, reads
  <2> QED
    BY <2>1, <2>2 DEF Arm
<1>2. ASSUME NEW d \in Directions, Asio(d) PROVE EndOfFile'
  <2>1. CASE ReadData(d)
    <3>1. /\ toProxy'[Write(d)] = toProxy[Write(d)] /\ peer' = peer
          /\ result'[d] = "data" /\ result'[Other(d)] = result[Other(d)]
          /\ handler'[Other(d)] = handler[Other(d)]
      BY <2>1 DEF ReadData, Complete, TypeInv, TypeOK
    <3> QED
      BY <3>1
  <2>2. CASE ReadError(d)
    BY <2>2 DEF ReadError, Complete
  <2> QED
    BY <1>2, <2>1, <2>2 DEF Asio
<1>3. ASSUME NEW d \in Directions, Handler(d) PROVE EndOfFile'
  <2>0. UNCHANGED <<peer, toProxy>>
    BY <1>3 DEF Handler, RunHandler, BeginClose, EndClose, Abandon, BeginWrite, EndWrite,
                FailWrite, streams
  <2>1. CASE RunHandler(d) \/ BeginClose(d) \/ Abandon(d) \/ BeginWrite(d) \/ FailWrite(d)
    BY <2>0, <2>1 DEF RunHandler, BeginClose, Abandon, BeginWrite, FailWrite, Acquire
  <2>2. CASE EndClose(d)
    BY <2>0, <2>2 DEF EndClose
  <2>3. CASE EndWrite(d)
    BY <2>0, <2>3 DEF EndWrite, Arm
  <2> QED
    BY <1>3, <2>1, <2>2, <2>3 DEF Handler
<1>4. ASSUME NEW x \in Peers, Peer(x) PROVE EndOfFile'
  <2>1. /\ UNCHANGED <<handler, result>>
        /\ \A y \in Peers : peer[y] = "closed" => peer'[y] = "closed" /\ toProxy'[y] = toProxy[y]
    BY <1>4, SMTT(20) DEF Peer, PeerSend, PeerReceive, PeerLeave, reads, TypeInv, TypeOK
  <2> QED
    BY <2>1
<1> QED
  BY <1>1, <1>2, <1>3, <1>4 DEF Next

(* Only a peer that left makes handle_read close the sockets. *)
LEMMA ClosedForAReasonStep ==
  ASSUME TypeInv, Mutex, Phases, ClosedForAReason, Next PROVE ClosedForAReason'
<1> USE ControlTypes, HandlerStates, Ends DEF ClosedForAReason, Replied, ClosingErrors
<1>1. CASE HandleConnection
  <2> USE DEF streams, reads, timer
  <2>1. CASE Resolve
    BY <2>1 DEF Resolve, ReplyWith, Phases
  <2>2. CASE Connect
    BY <2>2 DEF Connect, ReplyWith, Phases
  <2>3. CASE Reply
    BY <2>3 DEF Reply, ReplyWith, Phases
  <2>4. CASE ArmClient
    BY <2>4 DEF ArmClient, Arm
  <2>5. CASE BeginArmServer
    BY <2>5 DEF BeginArmServer
  <2>6. CASE EndArmServer
    BY <2>6 DEF EndArmServer, Arm
  <2> QED
    BY <1>1, <2>1, <2>2, <2>3, <2>4, <2>5, <2>6 DEF HandleConnection
<1>2. ASSUME NEW d \in Directions, Asio(d) PROVE ClosedForAReason'
  <2>1. /\ handler[d] = Armed /\ handler' = [handler EXCEPT ![d] = Ready]
        /\ \A e \in Directions : e # d => result'[e] = result[e]
        /\ result'[d] \in ClosingErrors => peer[Read(d)] # "open"
        /\ UNCHANGED <<pc, reply, open>>
        /\ \A x \in Peers : peer[x] # "open" => peer'[x] # "open"
    BY <1>2 DEF Asio, ReadData, ReadError, Complete, timer
  <2> QED
    BY <2>1
<1>3. ASSUME NEW d \in Directions, Handler(d) PROVE ClosedForAReason'
  <2> USE DEF streams, timer
  <2>1. CASE RunHandler(d)
    BY <2>1 DEF RunHandler
  <2>2. CASE BeginClose(d)
    BY <2>2 DEF BeginClose, Acquire
  <2>3. CASE EndClose(d)
    <3>1. /\ \A e \in Directions :
               handler'[e] \in {Ready, Locking, Closing} /\ result'[e] \in ClosingErrors
                 => handler'[e] = handler[e] /\ result'[e] = result[e]
          /\ \A e \in Directions : handler'[e] # Closing
          /\ handler'[d] = None
          /\ UNCHANGED <<peer, pc, reply>>
      BY <2>3 DEF EndClose, Mutex, Holding
    <3>2. d = "up" => peer["client"] # "open"
      BY <2>3 DEF EndClose, Read
    <3>3. d = "down" => pc = "done"
      BY <2>3 DEF EndClose, Phases
    <3> QED
      BY <3>1, <3>2, <3>3
  <2>4. CASE Abandon(d)
    BY <2>4 DEF Abandon
  <2>5. CASE BeginWrite(d)
    BY <2>5 DEF BeginWrite, Acquire
  <2>6. CASE EndWrite(d)
    <3>1. handler[d] = Writing /\ Arm(d) /\ UNCHANGED <<pc, reply, open, peer>>
      BY <2>6 DEF EndWrite
    <3> QED
      BY <3>1 DEF Arm
  <2>7. CASE FailWrite(d)
    BY <2>7 DEF FailWrite
  <2> QED
    BY <1>3, <2>1, <2>2, <2>3, <2>4, <2>5, <2>6, <2>7 DEF Handler
<1>4. ASSUME NEW x \in Peers, Peer(x) PROVE ClosedForAReason'
  <2>1. /\ UNCHANGED <<pc, reply, open, handler, result>>
        /\ \A y \in Peers : peer[y] # "open" => peer'[y] # "open"
    BY <1>4 DEF Peer, PeerSend, PeerReceive, PeerLeave, reads, timer
  <2> QED
    BY <2>1
<1> QED
  BY <1>1, <1>2, <1>3, <1>4 DEF Next

(* What a peer can still read was sent through an established connection. *)
LEMMA OnlyThroughTheTunnelStep ==
  ASSUME TypeInv, Phases, OnlyThroughTheTunnel, Next PROVE OnlyThroughTheTunnel'
<1> USE ControlTypes, HandlerStates, Ends DEF OnlyThroughTheTunnel, TunnelState
<1>0. \A x \in Peers : peer[x] # "open" => peer'[x] # "open"
  <2>1. CASE HandleConnection
    BY <2>1 DEF HandleConnection, Resolve, Connect, Reply, ArmClient, BeginArmServer,
                EndArmServer, streams
  <2>2. ASSUME NEW d \in Directions, Handler(d) PROVE UNCHANGED peer
    BY <2>2 DEF Handler, RunHandler, BeginClose, EndClose, Abandon, BeginWrite, EndWrite,
                FailWrite, streams
  <2>3. ASSUME NEW d \in Directions, Asio(d)
        PROVE  \A x \in Peers : peer[x] # "open" => peer'[x] # "open"
    BY <2>3 DEF Asio, ReadData, ReadError
  <2>4. ASSUME NEW x \in Peers, Peer(x)
        PROVE  \A y \in Peers : peer[y] # "open" => peer'[y] # "open"
    BY <2>4 DEF Peer, PeerSend, PeerReceive, PeerLeave
  <2> QED
    BY <2>1, <2>2, <2>3, <2>4 DEF Next
<1>1. CASE HandleConnection
  <2>1. UNCHANGED toPeer /\ (reply = 200 => reply' = 200)
    BY <1>1 DEF HandleConnection, Resolve, Connect, Reply, ArmClient, BeginArmServer,
                EndArmServer, streams, ReplyWith, Phases
  <2> QED
    BY <1>0, <2>1
<1>2. ASSUME NEW d \in Directions, Asio(d) PROVE OnlyThroughTheTunnel'
  BY <1>0, <1>2 DEF Asio, ReadData, ReadError
<1>3. ASSUME NEW d \in Directions, Handler(d) PROVE OnlyThroughTheTunnel'
  <2>1. UNCHANGED <<peer, reply>>
    BY <1>3 DEF Handler, RunHandler, BeginClose, EndClose, Abandon, BeginWrite, EndWrite,
                FailWrite, streams
  <2>2. CASE EndWrite(d)
    <3>1. reply = 200 \/ peer["client"] # "open"
      BY <2>2 DEF EndWrite, Phases, Replied
    <3> QED
      BY <2>1, <3>1
  <2>3. CASE EndClose(d)
    <3>1. \A x \in Peers : toPeer'[x] # <<>> => toPeer[x] # <<>>
      BY <2>3 DEF EndClose
    <3> QED
      BY <2>1, <3>1
  <2>4. CASE UNCHANGED toPeer
    BY <2>1, <2>4
  <2> QED
    BY <1>3, <2>2, <2>3, <2>4 DEF Handler, RunHandler, BeginClose, Abandon, BeginWrite,
                                  FailWrite, streams
<1>4. ASSUME NEW x \in Peers, Peer(x) PROVE OnlyThroughTheTunnel'
  <2>1. UNCHANGED reply
    BY <1>4 DEF Peer, PeerSend, PeerReceive, PeerLeave
  <2>2. \A y \in Peers : toPeer'[y] # <<>> => toPeer[y] # <<>>
    BY <1>4, SMTT(20) DEF Peer, PeerSend, PeerReceive, PeerLeave, TypeInv, TypeOK
  <2> QED
    BY <1>0, <2>1, <2>2
<1> QED
  BY <1>1, <1>2, <1>3, <1>4 DEF Next

(***************************************************************************)
(* What a peer was given and can still read, as one sequence: moving its   *)
(* head, extending it and losing its tail.                                 *)
(***************************************************************************)
LEMMA HeadAndTail ==
  ASSUME NEW S, NEW t \in Seq(S), t # <<>>
  PROVE  /\ Head(t) = t[1] /\ Tail(t) \in Seq(S) /\ Len(Tail(t)) = Len(t) - 1
         /\ \A i \in 1 .. Len(Tail(t)) : i + 1 \in 1 .. Len(t) /\ Tail(t)[i] = t[i + 1]
         /\ DOMAIN Tail(t) = 1 .. Len(Tail(t)) /\ Len(t) \in Nat \ {0} /\ 1 \in 1 .. Len(t)
BY HeadTailProperties, EmptySeq, LenProperties

LEMMA HeadMoves ==
  ASSUME NEW S, NEW r \in Seq(S), NEW t \in Seq(S), t # <<>>
  PROVE  Append(r, Head(t)) \o Tail(t) = r \o t
<1>1. /\ Head(t) \in S /\ Head(t) = t[1] /\ Tail(t) \in Seq(S) /\ Len(Tail(t)) = Len(t) - 1
      /\ \A i \in 1 .. Len(Tail(t)) : Tail(t)[i] = t[i + 1]
      /\ Len(t) \in Nat \ {0} /\ Len(r) \in Nat
  BY HeadTailProperties, EmptySeq, LenProperties
<1>2. /\ Append(r, Head(t)) \in Seq(S) /\ Len(Append(r, Head(t))) = Len(r) + 1
      /\ \A i \in 1 .. Len(r) : Append(r, Head(t))[i] = r[i]
      /\ Append(r, Head(t))[Len(r) + 1] = t[1]
  BY <1>1, AppendProperties
<1> DEFINE left == Append(r, Head(t)) \o Tail(t)
           right == r \o t
<1>3. /\ left \in Seq(S) /\ right \in Seq(S)
      /\ Len(left) = Len(r) + Len(t) /\ Len(right) = Len(r) + Len(t)
  BY <1>1, <1>2, ConcatProperties
<1>4. ASSUME NEW i \in 1 .. Len(left) PROVE left[i] = right[i]
  <2>1. CASE i <= Len(r)
    BY <1>1, <1>2, <1>3, <2>1, ConcatProperties
  <2>2. CASE i = Len(r) + 1
    BY <1>1, <1>2, <1>3, <2>2, ConcatProperties
  <2>3. CASE i > Len(r) + 1
    <3>1. i - (Len(r) + 1) \in 1 .. Len(Tail(t)) /\ i - Len(r) = (i - (Len(r) + 1)) + 1
      BY <1>1, <1>3, <2>3
    <3>2. left[i] = Tail(t)[i - (Len(r) + 1)]
      BY <1>1, <1>2, <1>3, <2>3, ConcatProperties
    <3>3. right[i] = t[i - Len(r)]
      BY <1>1, <1>3, <2>3, ConcatProperties
    <3> QED
      BY <1>1, <3>1, <3>2, <3>3
  <2> QED
    BY <1>1, <1>3, <2>1, <2>2, <2>3
<1> QED
  BY <1>3, <1>4, SeqEqual

LEMMA TailGrows ==
  ASSUME NEW S, NEW r \in Seq(S), NEW t \in Seq(S), NEW n \in S
  PROVE  r \o Append(t, n) = Append(r \o t, n)
<1>1. r \o t \in Seq(S) /\ <<n>> \in Seq(S)
  BY ConcatProperties
<1>2. Append(t, n) = t \o <<n>> /\ Append(r \o t, n) = (r \o t) \o <<n>>
  BY <1>1, AppendIsConcat
<1> QED
  BY <1>1, <1>2, ConcatAssociative

LEMMA TailLost ==
  ASSUME NEW S, NEW r \in Seq(S), NEW t \in Seq(S)
  PROVE  /\ r \o <<>> = r
         /\ Len(r) <= Len(r \o t)
         /\ \A i \in 1 .. Len(r) : (r \o t)[i] = r[i]
BY ConcatProperties, ConcatEmptySeq, LenProperties

(* The same for what a peer of the connection is given. *)
LEMMA DeliveredType ==
  ASSUME TypeInv, NEW x \in Peers
  PROVE  /\ received[x] \in Seq(1 .. MaxChunks) /\ toPeer[x] \in Seq(1 .. MaxChunks)
         /\ Delivered(x) \in Seq(1 .. MaxChunks)
         /\ Len(Delivered(x)) \in Nat
<1>1. received[x] \in Seq(1 .. MaxChunks) /\ toPeer[x] \in Seq(1 .. MaxChunks)
  BY DEF TypeInv, TypeOK
<1> QED
  BY <1>1, ConcatProperties, LenProperties DEF Delivered

LEMMA DeliveredByReceive ==
  ASSUME TypeInv, NEW x \in Peers, PeerReceive(x), NEW y \in Peers
  PROVE  Delivered(y)' = Delivered(y)
<1>1. /\ toPeer[x] # <<>>
      /\ received' = [received EXCEPT ![x] = Append(@, Head(toPeer[x]))]
      /\ toPeer' = [toPeer EXCEPT ![x] = Tail(@)]
      /\ DOMAIN received = Peers /\ DOMAIN toPeer = Peers
  BY DEF PeerReceive, TypeInv, TypeOK
<1>2. CASE y = x
  <2>1. Append(received[x], Head(toPeer[x])) \o Tail(toPeer[x]) = received[x] \o toPeer[x]
    BY <1>1, DeliveredType, HeadMoves
  <2> QED
    BY <1>1, <1>2, <2>1 DEF Delivered
<1>3. CASE y # x
  BY <1>1, <1>3 DEF Delivered
<1> QED
  BY <1>2, <1>3

LEMMA DeliveredByWrite ==
  ASSUME TypeInv, NEW d \in Directions, EndWrite(d)
  PROVE  /\ Delivered(Read(d))' = Delivered(Read(d))
         /\ IF result[d] = "data" /\ peer[Write(d)] = "open"
            THEN Delivered(Write(d))' = Append(Delivered(Write(d)), buffer[d])
            ELSE Delivered(Write(d))' = Delivered(Write(d))
<1>1. /\ received' = received /\ DOMAIN toPeer = Peers
      /\ Write(d) \in Peers /\ Read(d) \in Peers /\ Read(d) # Write(d)
  BY Ends DEF EndWrite, TypeInv, TypeOK
<1>2. \/ /\ result[d] = "data" /\ peer[Write(d)] = "open"
         /\ toPeer' = [toPeer EXCEPT ![Write(d)] = Append(@, buffer[d])]
      \/ /\ ~(result[d] = "data" /\ peer[Write(d)] = "open")
         /\ toPeer' = toPeer
  BY DEF EndWrite, BufferOf
<1>3. result[d] = "data" => buffer[d] \in 1 .. MaxChunks
  BY HandlerStates, SizesAssumption
     DEF EndWrite, TypeInv, TypeOK, BuffersAreFilled, Carries, NoData
<1>4. ASSUME result[d] = "data"
      PROVE  received[Write(d)] \o Append(toPeer[Write(d)], buffer[d])
               = Append(received[Write(d)] \o toPeer[Write(d)], buffer[d])
  <2>1. received[Write(d)] \in Seq(1 .. MaxChunks) /\ toPeer[Write(d)] \in Seq(1 .. MaxChunks)
    BY <1>1, DeliveredType
  <2> DEFINE S == 1 .. MaxChunks
  <2>2. /\ received[Write(d)] \in Seq(S) /\ toPeer[Write(d)] \in Seq(S) /\ buffer[d] \in S
    BY <1>3, <1>4, <2>1
  <2> HIDE DEF S
  <2>3. \A r, t \in Seq(S), n \in S : r \o Append(t, n) = Append(r \o t, n)
    BY TailGrows
  <2>4. \A r, t \in Seq(S) : r \o Append(t, buffer[d]) = Append(r \o t, buffer[d])
    BY <2>2, <2>3
  <2>5. \A t \in Seq(S) : received[Write(d)] \o Append(t, buffer[d])
                            = Append(received[Write(d)] \o t, buffer[d])
    BY <2>2, <2>4
  <2> QED
    BY <2>2, <2>5
<1> QED
  BY <1>1, <1>2, <1>4 DEF Delivered

(* Nothing but the tail of it is lost. *)
Shortened(x) ==
  /\ Len(Delivered(x)') <= Len(Delivered(x))
  /\ \A i \in 1 .. Len(Delivered(x)') : Delivered(x)'[i] = Delivered(x)[i]

LEMMA DeliveredByLoss ==
  ASSUME TypeInv, NEW x \in Peers, UNCHANGED received, toPeer'[x] \in {toPeer[x], <<>>}
  PROVE  Shortened(x)
<1>1. CASE toPeer'[x] = toPeer[x]
  <2>1. Delivered(x)' = Delivered(x) /\ Len(Delivered(x)) \in Nat
    BY <1>1, DeliveredType DEF Delivered
  <2> QED
    BY <2>1 DEF Shortened
<1>2. CASE toPeer'[x] = <<>>
  <2>1. received[x] \in Seq(1 .. MaxChunks) /\ toPeer[x] \in Seq(1 .. MaxChunks)
    BY DeliveredType
  <2>2. Delivered(x)' = received[x]
    BY <1>2, <2>1, TailLost DEF Delivered
  <2>3. /\ Len(received[x]) <= Len(Delivered(x))
        /\ \A i \in 1 .. Len(received[x]) : Delivered(x)[i] = received[x][i]
    BY <2>1, TailLost DEF Delivered
  <2> QED
    BY <2>2, <2>3 DEF Shortened
<1> QED
  BY <1>1, <1>2

(* What any step does to it. *)
Extended(d) ==
  /\ EndWrite(d) /\ result[d] = "data" /\ peer[Write(d)] = "open"
  /\ Delivered(Write(d))' = Append(Delivered(Write(d)), buffer[d])

LEMMA DeliveredByNext ==
  ASSUME TypeInv, Next, NEW d \in Directions
  PROVE  Shortened(Write(d)) \/ Extended(d)
<1>0. /\ Write(d) \in Peers
      /\ Delivered(Write(d))' = Delivered(Write(d)) => Shortened(Write(d))
  BY Ends, DeliveredType DEF Shortened
<1>1. CASE HandleConnection
  <2>1. UNCHANGED <<received, toPeer>>
    BY <1>1 DEF HandleConnection, Resolve, Connect, Reply, ArmClient, BeginArmServer,
                EndArmServer, streams
  <2> QED
    BY <1>0, <2>1 DEF Delivered
<1>2. ASSUME NEW e \in Directions, Asio(e) PROVE Shortened(Write(d))
  <2>1. UNCHANGED <<received, toPeer>>
    BY <1>2 DEF Asio, ReadData, ReadError
  <2> QED
    BY <1>0, <2>1 DEF Delivered
<1>3. ASSUME NEW e \in Directions, Handler(e) PROVE Shortened(Write(d)) \/ Extended(d)
  <2>1. CASE EndWrite(e)
    <3>1. CASE e = d
      BY <1>0, <2>1, <3>1, DeliveredByWrite DEF Extended
    <3>2. CASE e # d
      BY <1>0, <2>1, <3>2, DeliveredByWrite, Ends
    <3> QED
      BY <3>1, <3>2
  <2>2. CASE EndClose(e)
    <3>1. UNCHANGED received /\ toPeer'[Write(d)] \in {toPeer[Write(d)], <<>>}
      BY <1>0, <2>2 DEF EndClose
    <3> QED
      BY <1>0, <3>1, DeliveredByLoss
  <2>3. CASE UNCHANGED <<received, toPeer>>
    BY <1>0, <2>3 DEF Delivered
  <2> QED
    BY <1>3, <2>1, <2>2, <2>3
       DEF Handler, RunHandler, BeginClose, Abandon, BeginWrite, FailWrite, streams
<1>4. ASSUME NEW x \in Peers, Peer(x) PROVE Shortened(Write(d))
  <2>1. CASE PeerSend(x)
    BY <1>0, <2>1 DEF PeerSend, Delivered
  <2>2. CASE PeerReceive(x)
    BY <1>0, <2>2, DeliveredByReceive
  <2>3. CASE PeerLeave(x)
    <3>1. UNCHANGED received /\ toPeer'[Write(d)] \in {toPeer[Write(d)], <<>>}
      BY <1>0, <2>3 DEF PeerLeave, TypeInv, TypeOK
    <3> QED
      BY <1>0, <3>1, DeliveredByLoss
  <2> QED
    BY <1>4, <2>1, <2>2, <2>3 DEF Peer
<1> QED
  BY <1>1, <1>2, <1>3, <1>4 DEF Next

(* The peers only ever send more. *)
LEMMA SentGrows ==
  ASSUME TypeInv, Next, NEW x \in Peers
  PROVE  sent[x] \in Nat /\ sent'[x] \in Nat /\ sent[x] <= sent'[x]
<1>0. sent \in [Peers -> 0 .. MaxChunks]
  BY DEF TypeInv, TypeOK
<1>1. sent' = sent \/ \E y \in Peers : sent' = [sent EXCEPT ![y] = @ + 1]
  BY DEF Next, HandleConnection, Resolve, Connect, Reply, ArmClient, BeginArmServer,
         EndArmServer, Handler, RunHandler, BeginClose, EndClose, Abandon, BeginWrite,
         EndWrite, FailWrite, Asio, ReadData, ReadError, Peer, PeerSend, PeerReceive,
         PeerLeave, streams
<1> QED
  BY <1>0, <1>1, SizesAssumption

(* RelayedInOrder, one direction and one chunk at a time. *)
InOrder(d) ==
  /\ \A i \in 1 .. Len(Delivered(Write(d))) : Delivered(Write(d))[i] = Dropped(d) + i
  /\ Passed(d) <= sent[Read(d)]

RelayedOneByOne == \A d \in Directions : InOrder(d)

LEMMA RelayedPointwise == TypeInv => (RelayedInOrder <=> RelayedOneByOne)
<1> SUFFICES ASSUME TypeInv PROVE RelayedInOrder <=> RelayedOneByOne
  OBVIOUS
<1>1. ASSUME NEW d \in Directions
      PROVE  /\ Delivered(Write(d)) \in Seq(1 .. MaxChunks)
             /\ DOMAIN Delivered(Write(d)) = 1 .. Len(Delivered(Write(d)))
             /\ Delivered(Write(d)) = [i \in DOMAIN Delivered(Write(d)) |-> Delivered(Write(d))[i]]
  BY DeliveredType, Ends
<1> QED
  BY <1>1 DEF RelayedInOrder, RelayedOneByOne, InOrder, Passed

LEMMA RelayedInOrderStep ==
  ASSUME TypeInv, TypeInv', Phases, Pipeline, RelayedInOrder, Next PROVE RelayedInOrder'
<1>1. ASSUME NEW d \in Directions PROVE InOrder(d)'
  <2>0. InOrder(d) /\ Write(d) \in Peers /\ Read(d) \in Peers
    BY RelayedPointwise, Ends DEF RelayedOneByOne
  <2>1. /\ sent[Read(d)] \in Nat /\ sent'[Read(d)] \in Nat /\ sent[Read(d)] <= sent'[Read(d)]
        /\ Dropped(d) \in Nat
        /\ Len(Delivered(Write(d))) \in Nat /\ Len(Delivered(Write(d))') \in Nat
    BY <2>0, SentGrows, SizesAssumption, DeliveredType DEF Dropped
  <2>2. CASE Shortened(Write(d))
    BY <2>0, <2>1, <2>2 DEF Shortened, InOrder, Passed
  <2>3. CASE Extended(d)
    <3>1. Passable(d) /\ Carries(d) /\ buffer[d] = Passed(d) + 1
      BY <2>3, HandlerStates DEF Extended, EndWrite, Phases, Passable, Carries, Pipeline
    <3>2. Passed(d) + 1 <= sent[Read(d)]
      BY <2>1, <3>1 DEF Pipeline, Carried, Passed
    <3> QED
      BY <2>0, <2>1, <2>3, <3>1, <3>2 DEF Extended, InOrder, Passed
  <2> QED
    BY <2>2, <2>3, DeliveredByNext
<1>2. RelayedOneByOne'
  BY <1>1 DEF RelayedOneByOne
<1>3. TypeInv' => (RelayedInOrder' <=> RelayedOneByOne')
  BY RelayedPointwise, PTL
<1> QED
  BY <1>2, <1>3

(* total_size counts what was written to the client. *)
LEMMA SizeIsExactStep ==
  ASSUME TypeInv, SizeIsExact, Next PROVE SizeIsExact'
<1> SUFFICES ASSUME (peer["client"] = "open")', open'["client"],
                    Len(Delivered("client")') <= IntMax
             PROVE  total_size' = Len(Delivered("client")')
  BY DEF SizeIsExact
<1>0. /\ "client" \in Peers /\ "server" \in Peers /\ "client" # "server"
      /\ Write("up") = "server" /\ Read("up") = "client"
      /\ Write("down") = "client" /\ Read("down") = "server"
      /\ Len(Delivered("client")) \in Nat /\ Delivered("client") \in Seq(1 .. MaxChunks)
      /\ IntMax \in Nat
      /\ peer \in [Peers -> {"open", "closed", "reset", "timed_out"}]
  BY DeliveredType, SizesAssumption DEF Peers, Read, Write, TypeInv, TypeOK
<1>s. CASE /\ peer["client"] = "open" /\ open["client"]
           /\ Delivered("client")' = Delivered("client") /\ total_size' = total_size
  BY <1>s DEF SizeIsExact
<1>1. CASE HandleConnection
  <2>1. /\ UNCHANGED <<peer, received, toPeer, total_size>>
        /\ \/ open' = open
           \/ open' = [x \in Peers |-> FALSE]
           \/ open' = [open EXCEPT !["server"] = TRUE]
    BY <1>1 DEF HandleConnection, Resolve, Connect, Reply, ArmClient, BeginArmServer,
                EndArmServer, streams, CloseBoth
  <2>2. open["client"]
    BY <1>0, <2>1, ControlTypes
  <2> QED
    BY <1>s, <2>1, <2>2 DEF Delivered
<1>2. ASSUME NEW d \in Directions, Asio(d) PROVE total_size' = Len(Delivered("client")')
  <2>1. /\ UNCHANGED <<received, toPeer, total_size, open>>
        /\ peer' = peer \/ peer' = [peer EXCEPT ![Read(d)] = "closed"]
    BY <1>2 DEF Asio, ReadData, ReadError
  <2>2. peer["client"] = "open"
    BY <1>0, <2>1
  <2> QED
    BY <1>s, <2>1, <2>2 DEF Delivered
<1>3. ASSUME NEW d \in Directions, Handler(d) PROVE total_size' = Len(Delivered("client")')
  <2>1. CASE EndClose(d)
    BY <1>0, <2>1 DEF EndClose, CloseBoth
  <2>2. CASE EndWrite(d) /\ d = "up"
    <3>1. UNCHANGED <<peer, open, total_size>>
      BY <2>2 DEF EndWrite, RecordTransfer
    <3> QED
      BY <1>s, <1>0, <2>2, <3>1, DeliveredByWrite
  <2>3. CASE EndWrite(d) /\ d = "down"
    <3>1. UNCHANGED <<peer, open>> /\ total_size \in -(IntMax + 1) .. IntMax
      BY <2>3 DEF EndWrite, TypeInv, TypeOK
    <3>2. CASE result[d] = "data"
      <4>1. Delivered("client")' = Append(Delivered("client"), buffer[d])
        BY <1>0, <2>3, <3>1, <3>2, DeliveredByWrite
      <4>2. Len(Delivered("client")') = Len(Delivered("client")) + 1
        BY <4>1, <1>0
      <4>3. total_size = Len(Delivered("client"))
        BY <3>1, <4>2, <1>0 DEF SizeIsExact
      <4>4. record_payload(1)
        BY <2>3, <3>2 DEF EndWrite, RecordTransfer
      <4> QED
        BY <1>0, <4>2, <4>3, <4>4 DEF record_payload
    <3>3. CASE result[d] # "data"
      <4>1. Delivered("client")' = Delivered("client")
        BY <1>0, <2>3, <3>3, DeliveredByWrite
      <4>2. record_payload(0)
        BY <2>3, <3>3 DEF EndWrite, RecordTransfer
      <4>3. total_size' = total_size
        BY <3>1, <4>2, <1>0 DEF record_payload
      <4> QED
        BY <1>s, <3>1, <4>1, <4>3
    <3> QED
      BY <3>2, <3>3
  <2>4. CASE UNCHANGED <<peer, open, received, toPeer, total_size>>
    BY <1>s, <2>4 DEF Delivered
  <2> QED
    BY <1>3, <2>1, <2>2, <2>3, <2>4
       DEF Handler, RunHandler, BeginClose, Abandon, BeginWrite, FailWrite, streams, Directions
<1>4. ASSUME NEW x \in Peers, Peer(x) PROVE total_size' = Len(Delivered("client")')
  <2>0. UNCHANGED <<total_size, open>>
    BY <1>4 DEF Peer, PeerSend, PeerReceive, PeerLeave
  <2>1. CASE PeerSend(x)
    BY <1>s, <2>0, <2>1 DEF PeerSend, Delivered
  <2>2. CASE PeerReceive(x)
    BY <1>s, <1>0, <2>0, <2>2, DeliveredByReceive DEF PeerReceive
  <2>3. CASE PeerLeave(x)
    <3>1. x # "client" /\ peer["client"] = "open"
      BY <1>0, <2>3 DEF PeerLeave
    <3>2. UNCHANGED received /\ toPeer'["client"] = toPeer["client"]
      BY <1>0, <2>3, <3>1 DEF PeerLeave, TypeInv, TypeOK
    <3> QED
      BY <1>s, <2>0, <3>1, <3>2 DEF Delivered
  <2> QED
    BY <1>4, <2>1, <2>2, <2>3 DEF Peer
<1> QED
  BY <1>1, <1>2, <1>3, <1>4 DEF Next

(***************************************************************************)
(* A chunk is in one place at a time: with the reader, in a buffer or in   *)
(* the stream, in the order it was sent.                                   *)
(***************************************************************************)
Piped(d) ==
  /\ Carries(d) => buffer[d] = Passed(d) + 1
  /\ \A i \in DOMAIN toProxy[Read(d)] : toProxy[Read(d)][i] = Passed(d) + Carried(d) + i
  /\ Passed(d) + Carried(d) + Len(toProxy[Read(d)]) <= sent[Read(d)]
  /\ \/ Passed(d) + Carried(d) + Len(toProxy[Read(d)]) = sent[Read(d)]
     \/ peer[Read(d)] = "reset"

LEMMA PassableStep ==
  ASSUME TypeInv, Next, NEW d \in Directions, Passable(d)' PROVE Passable(d)
<1> USE ControlTypes, Ends DEF Passable
<1>1. open'["client"] => open["client"]
  <2>1. \/ open' = open
        \/ open' = [x \in Peers |-> FALSE]
        \/ open' = [open EXCEPT !["server"] = TRUE]
    BY DEF Next, HandleConnection, Resolve, Connect, Reply, ArmClient, BeginArmServer,
           EndArmServer, Handler, RunHandler, BeginClose, EndClose, Abandon, BeginWrite,
           EndWrite, FailWrite, Asio, ReadData, ReadError, Peer, PeerSend, PeerReceive,
           PeerLeave, CloseBoth
  <2> QED
    BY <2>1
<1>2. \A x \in Peers : peer'[x] = "open" => peer[x] = "open"
  <2>1. \/ peer' = peer
        \/ \E x \in Peers, how \in {"closed", "reset", "timed_out"} : peer' = [peer EXCEPT ![x] = how]
    BY DEF Next, HandleConnection, Resolve, Connect, Reply, ArmClient, BeginArmServer,
           EndArmServer, Handler, RunHandler, BeginClose, EndClose, Abandon, BeginWrite,
           EndWrite, FailWrite, Asio, ReadData, ReadError, Peer, PeerSend, PeerReceive,
           PeerLeave, streams
  <2> QED
    BY <2>1
<1> QED
  BY <1>1, <1>2

LEMMA PipedTypes ==
  ASSUME TypeInv, NEW d \in Directions
  PROVE  /\ Passed(d) \in Nat /\ Carried(d) \in {0, 1}
         /\ toProxy[Read(d)] \in Seq(1 .. MaxChunks) /\ Len(toProxy[Read(d)]) \in Nat
         /\ DOMAIN toProxy[Read(d)] = 1 .. Len(toProxy[Read(d)])
         /\ sent[Read(d)] \in Nat
<1>1. Read(d) \in Peers /\ Write(d) \in Peers
  BY Ends
<1>2. Passed(d) \in Nat
  BY <1>1, DeliveredType, SizesAssumption DEF Passed, Dropped
<1>3. toProxy[Read(d)] \in Seq(1 .. MaxChunks)
  BY <1>1 DEF TypeInv, TypeOK
<1>4. sent[Read(d)] \in Nat
  BY <1>1, SizesAssumption DEF TypeInv, TypeOK
<1> QED
  BY <1>2, <1>3, <1>4, LenProperties DEF Carried

(* A direction a step does not touch. *)
LEMMA PipedUnaffected ==
  ASSUME NEW d \in Directions, Piped(d),
         Passed(d)' = Passed(d), Carries(d)' = Carries(d), buffer'[d] = buffer[d],
         toProxy'[Read(d)] = toProxy[Read(d)], sent'[Read(d)] = sent[Read(d)],
         peer[Read(d)] = "reset" => peer'[Read(d)] = "reset"
  PROVE  Piped(d)'
<1>1. Carried(d)' = Carried(d)
  BY DEF Carried
<1> QED
  BY <1>1 DEF Piped

(* A read that completes takes the next chunk, or none. *)
LEMMA AsioPiped ==
  ASSUME TypeInv, NEW d \in Directions, Piped(d), NEW e \in Directions, Asio(e)
  PROVE  Piped(d)'
<1>0. Passed(d)' = Passed(d)
  BY DEF Asio, ReadData, ReadError, Passed, Dropped, Delivered
<1>1. CASE ReadData(e) /\ e = d
  <2> DEFINE t == toProxy[Read(d)]
  <2>1. /\ t # <<>> /\ toProxy'[Read(d)] = Tail(t) /\ buffer'[d] = Head(t)
        /\ handler[d] = Armed /\ handler'[d] = Ready /\ result'[d] = "data"
        /\ UNCHANGED <<sent, peer>>
    BY <1>1, Ends DEF ReadData, Complete, BufferOf, TypeInv, TypeOK
  <2>a. t \in Seq(1 .. MaxChunks) /\ Passed(d) \in Nat
    BY PipedTypes
  <2>2. /\ Head(t) = t[1] /\ Tail(t) \in Seq(1 .. MaxChunks) /\ Len(Tail(t)) = Len(t) - 1
        /\ \A i \in 1 .. Len(Tail(t)) : i + 1 \in 1 .. Len(t) /\ Tail(t)[i] = t[i + 1]
        /\ DOMAIN Tail(t) = 1 .. Len(Tail(t)) /\ Len(t) \in Nat \ {0} /\ 1 \in 1 .. Len(t)
    <3> HIDE DEF t
    <3> QED
      BY <2>1, <2>a, HeadAndTail
  <2>3. Carried(d) = 0 /\ Carried(d)' = 1 /\ Carries(d)'
    BY <2>1, HandlerStates DEF Carried, Carries
  <2>4. /\ \A i \in 1 .. Len(t) : t[i] = Passed(d) + i
        /\ Passed(d) + Len(t) <= sent[Read(d)]
        /\ Passed(d) + Len(t) = sent[Read(d)] \/ peer[Read(d)] = "reset"
    BY <2>3, PipedTypes DEF Piped
  <2>5. buffer'[d] = Passed(d) + 1
    BY <2>1, <2>2, <2>4
  <2> HIDE DEF t
  <2>6. ASSUME NEW i \in 1 .. Len(Tail(t)) PROVE Tail(t)[i] = Passed(d) + 1 + i
    <3>1. i + 1 \in 1 .. Len(t) /\ Tail(t)[i] = t[i + 1]
      BY <2>2
    <3>2. t[i + 1] = Passed(d) + (i + 1)
      BY <3>1, <2>4
    <3>3. i \in Nat
      BY <2>2
    <3> QED
      BY <2>a, <3>1, <3>2, <3>3
  <2>7. Passed(d) + 1 + Len(Tail(t)) = Passed(d) + Len(t)
    BY <2>a, <2>2
  <2> QED
    BY <1>0, <2>1, <2>2, <2>3, <2>4, <2>5, <2>6, <2>7 DEF Piped
<1>2. CASE ReadError(e) /\ e = d
  <2>1. /\ UNCHANGED <<toProxy, sent>> /\ (peer[Read(d)] = "reset" => peer'[Read(d)] = "reset")
        /\ handler[d] = Armed /\ result'[d] # "data"
    BY <1>2, Ends DEF ReadError, Complete, TypeInv, TypeOK
  <2>2. ~Carries(d) /\ ~Carries(d)' /\ Carried(d) = 0 /\ Carried(d)' = 0
    BY <2>1, HandlerStates DEF Carries, Carried
  <2> QED
    BY <1>0, <2>1, <2>2 DEF Piped
<1>3. CASE e # d
  <2>1. /\ toProxy'[Read(d)] = toProxy[Read(d)] /\ buffer'[d] = buffer[d] /\ sent' = sent
        /\ handler'[d] = handler[d] /\ result'[d] = result[d]
        /\ peer'[Read(d)] = peer[Read(d)]
    BY <1>3, Ends, SMTT(20) DEF Asio, ReadData, ReadError, Complete, BufferOf, TypeInv, TypeOK
  <2>2. Carries(d)' = Carries(d)
    BY <2>1 DEF Carries
  <2> QED
    BY <1>0, <2>1, <2>2, PipedUnaffected
<1> QED
  BY <1>1, <1>2, <1>3 DEF Asio

(* A handler hands its chunk over when the write is done. *)
LEMMA HandlerPiped ==
  ASSUME TypeInv, Phases, NEW d \in Directions, Piped(d), Passable(d), Passable(d)',
         NEW e \in Directions, Handler(e)
  PROVE  Piped(d)'
<1>0. UNCHANGED <<toProxy, sent, peer, buffer>>
  BY DEF Handler, RunHandler, BeginClose, EndClose, Abandon, BeginWrite, EndWrite, FailWrite,
         streams
<1>1. CASE EndWrite(e) /\ e = d
  <2>1. /\ handler[d] = Writing /\ Arm(d) /\ UNCHANGED open
        /\ handler \in [Directions -> {"armed", "ready", "none", "locking", "writing", "closing"}]
    BY <1>1, ControlTypes DEF EndWrite
  <2>2. handler'[d] = Armed \/ result'[d] = "bad_descriptor"
    BY <2>1, ControlTypes DEF Arm
  <2>3. ~Carries(d)' /\ Carried(d)' = 0
    BY <2>2, HandlerStates DEF Carries, Carried
  <2>4. peer[Write(d)] = "open"
    BY DEF Passable
  <2>5. Passed(d)' = Passed(d) + Carried(d)
    <3>1. CASE result[d] = "data"
      <4>1. Delivered(Write(d))' = Append(Delivered(Write(d)), buffer[d])
        BY <1>1, <2>4, <3>1, DeliveredByWrite
      <4>2. Len(Delivered(Write(d))') = Len(Delivered(Write(d))) + 1
        BY <4>1, DeliveredType, Ends
      <4>3. Carried(d) = 1
        BY <2>1, <3>1, HandlerStates DEF Carried, Carries
      <4>4. Len(Delivered(Write(d))) \in Nat /\ Dropped(d) \in Nat
        BY DeliveredType, Ends, SizesAssumption DEF Dropped
      <4>5. Passed(d)' = Dropped(d) + Len(Delivered(Write(d))')
        BY DEF Passed, Dropped
      <4> QED
        BY <4>2, <4>3, <4>4, <4>5 DEF Passed
    <3>2. CASE result[d] # "data"
      <4>1. Delivered(Write(d))' = Delivered(Write(d))
        BY <1>1, <3>2, DeliveredByWrite
      <4>2. Carried(d) = 0
        BY <3>2 DEF Carried, Carries
      <4>3. Passed(d)' = Passed(d)
        BY <4>1 DEF Passed, Dropped
      <4> QED
        BY <4>2, <4>3, PipedTypes
    <3> QED
      BY <3>1, <3>2
  <2>6. Passed(d)' + Carried(d)' = Passed(d) + Carried(d)
    BY <2>3, <2>5, PipedTypes
  <2> QED
    BY <1>0, <2>3, <2>6 DEF Piped
<1>2. CASE EndWrite(e) /\ e # d
  <2>1. d = Other(e) /\ Write(d) = Read(e)
    BY <1>2, Ends
  <2>2. Passed(d)' = Passed(d)
    BY <1>2, <2>1, DeliveredByWrite DEF Passed, Dropped
  <2>3. handler'[d] = handler[d] /\ result'[d] = result[d]
    BY <1>2, ControlTypes DEF EndWrite, Arm
  <2>4. Carries(d)' = Carries(d)
    BY <2>3 DEF Carries
  <2> QED
    BY <1>0, <2>2, <2>4, PipedUnaffected
<1>3. CASE EndClose(e)
  BY <1>3, ControlTypes DEF EndClose, CloseBoth, Passable, Peers
<1>4. CASE ~EndClose(e) /\ ~EndWrite(e)
  <2>1. Passed(d)' = Passed(d)
    BY <1>4 DEF Handler, RunHandler, BeginClose, Abandon, BeginWrite, FailWrite, streams,
                Passed, Dropped, Delivered
  <2>2. Carries(d)' = Carries(d)
    <3> USE ControlTypes, HandlerStates, Ends DEF Carries
    <3>1. CASE RunHandler(e)
      BY <3>1 DEF RunHandler
    <3>2. CASE BeginClose(e)
      BY <3>2 DEF BeginClose, Acquire, ClosingErrors
    <3>3. CASE Abandon(e)
      BY <3>3 DEF Abandon, Phases, Replied, Passable
    <3>4. CASE BeginWrite(e)
      BY <3>4 DEF BeginWrite, Acquire
    <3>5. CASE FailWrite(e)
      BY <3>5 DEF FailWrite, Passable
    <3> QED
      BY <1>4, <3>1, <3>2, <3>3, <3>4, <3>5 DEF Handler
  <2> QED
    BY <1>0, <2>1, <2>2, PipedUnaffected
<1> QED
  BY <1>1, <1>2, <1>3, <1>4

(* A peer that is there sends its next chunk, and one that leaves sends no more. *)
LEMMA PeerPiped ==
  ASSUME TypeInv, NEW d \in Directions, Piped(d), Passable(d)', NEW x \in Peers, Peer(x)
  PROVE  Piped(d)'
<1>0. UNCHANGED <<handler, result, buffer>> /\ Carries(d)' = Carries(d) /\ Carried(d)' = Carried(d)
  BY DEF Peer, PeerSend, PeerReceive, PeerLeave, reads, Carries, Carried
<1>1. CASE PeerSend(x)
  <2>1. Passed(d)' = Passed(d) /\ peer' = peer
    BY <1>1 DEF PeerSend, Passed, Dropped, Delivered
  <2>2. CASE x = Read(d)
    <3> DEFINE t == toProxy[Read(d)]
               n == sent[Read(d)]
    <3>1. /\ toProxy'[Read(d)] = Append(t, n + 1) /\ sent'[Read(d)] = n + 1
          /\ peer[Read(d)] = "open" /\ n + 1 \in 1 .. MaxChunks
      BY <1>1, <2>2, SizesAssumption DEF PeerSend, TypeInv, TypeOK
    <3>2. /\ t \in Seq(1 .. MaxChunks) /\ Len(t) \in Nat /\ n \in Nat
          /\ Passed(d) \in Nat /\ Carried(d) \in {0, 1}
      BY PipedTypes
    <3>3. /\ Carries(d) => buffer[d] = Passed(d) + 1
          /\ \A i \in 1 .. Len(t) : t[i] = Passed(d) + Carried(d) + i
          /\ Passed(d) + Carried(d) + Len(t) = n
      BY <3>1, PipedTypes DEF Piped
    <3> HIDE DEF t, n
    <3>4. /\ DOMAIN Append(t, n + 1) = 1 .. Len(t) + 1 /\ Len(Append(t, n + 1)) = Len(t) + 1
          /\ \A i \in 1 .. Len(t) : Append(t, n + 1)[i] = t[i]
          /\ Append(t, n + 1)[Len(t) + 1] = n + 1
      BY <3>1, <3>2, AppendProperties
    <3>5. \A i \in 1 .. Len(t) + 1 : Append(t, n + 1)[i] = Passed(d) + Carried(d) + i
      BY <3>2, <3>3, <3>4
    <3>6. Passed(d) + Carried(d) + (Len(t) + 1) = n + 1
      BY <3>2, <3>3
    <3> QED
      BY <1>0, <2>1, <3>1, <3>2, <3>3, <3>4, <3>5, <3>6 DEF Piped
  <2>3. CASE x # Read(d)
    <3>1. toProxy'[Read(d)] = toProxy[Read(d)] /\ sent'[Read(d)] = sent[Read(d)]
      BY <1>1, <2>3 DEF PeerSend, TypeInv, TypeOK
    <3> QED
      BY <1>0, <2>1, <3>1, PipedUnaffected
  <2> QED
    BY <2>2, <2>3
<1>2. CASE PeerReceive(x)
  <2>1. UNCHANGED <<toProxy, sent, peer>>
    BY <1>2 DEF PeerReceive
  <2>2. Delivered(Write(d))' = Delivered(Write(d))
    BY <1>2, DeliveredByReceive, Ends
  <2>3. Passed(d)' = Passed(d)
    BY <2>2 DEF Passed, Dropped
  <2> QED
    BY <1>0, <2>1, <2>3, PipedUnaffected
<1>3. CASE PeerLeave(x)
  <2>1. /\ x # Write(d) /\ x = Read(d) /\ peer[Read(d)] = "open"
    <3>1. peer'[x] # "open" /\ peer[x] = "open"
      BY <1>3 DEF PeerLeave, TypeInv, TypeOK
    <3> QED
      BY <3>1, Ends DEF Passable, Peers, Read, Write
  <2>2. UNCHANGED <<received, sent>> /\ toPeer'[Write(d)] = toPeer[Write(d)]
    BY <1>3, <2>1 DEF PeerLeave, TypeInv, TypeOK
  <2>3. Passed(d)' = Passed(d)
    BY <2>2 DEF Passed, Dropped, Delivered
  <2>4. /\ Passed(d) \in Nat /\ Carried(d) \in {0, 1} /\ Len(toProxy[Read(d)]) \in Nat
        /\ sent[Read(d)] \in Nat
        /\ Passed(d) + Carried(d) + Len(toProxy[Read(d)]) = sent[Read(d)]
    BY <2>1, PipedTypes DEF Piped
  <2>5. CASE toProxy'[Read(d)] = toProxy[Read(d)]
    BY <1>0, <2>2, <2>3, <2>4, <2>5 DEF Piped
  <2>6. CASE toProxy'[Read(d)] = <<>> /\ peer'[Read(d)] = "reset"
    <3>1. Len(toProxy'[Read(d)]) = 0 /\ DOMAIN toProxy'[Read(d)] = {}
      BY <2>6, EmptySeq
    <3>2. Passed(d) + Carried(d) + 0 <= sent[Read(d)]
      BY <2>4
    <3>3. Carries(d) => buffer[d] = Passed(d) + 1
      BY DEF Piped
    <3> QED
      BY <1>0, <2>2, <2>3, <2>6, <3>1, <3>2, <3>3 DEF Piped
  <2> QED
    BY <1>3, <2>1, <2>5, <2>6 DEF PeerLeave, TypeInv, TypeOK
<1> QED
  BY <1>1, <1>2, <1>3 DEF Peer

LEMMA PipelineStep ==
  ASSUME TypeInv, Phases, Pipeline, Next PROVE Pipeline'
<1>1. ASSUME NEW d \in Directions, Passable(d)' PROVE Piped(d)'
  <2>0. Passable(d) /\ Piped(d)
    BY <1>1, PassableStep DEF Pipeline, Piped
  <2>1. CASE HandleConnection
    <3>1. UNCHANGED <<peer, sent, received, toProxy, toPeer, buffer>>
      BY <2>1 DEF HandleConnection, Resolve, Connect, Reply, ArmClient, BeginArmServer,
                  EndArmServer, streams, reads
    <3>2. Passed(d)' = Passed(d)
      BY <3>1 DEF Passed, Dropped, Delivered
    <3>3. \/ UNCHANGED <<handler, result>>
          \/ pc = "arm_client" /\ Arm("up")
          \/ pc = "arming_server" /\ Arm("down")
      BY <2>1 DEF HandleConnection, Resolve, Connect, Reply, ArmClient, BeginArmServer,
                  EndArmServer, reads
    <3>4. Carries(d)' = Carries(d)
      BY <3>3, ControlTypes, HandlerStates, Ends DEF Arm, Phases, Carries
    <3> QED
      BY <2>0, <3>1, <3>2, <3>4, PipedUnaffected
  <2>2. ASSUME NEW e \in Directions, Asio(e) PROVE Piped(d)'
    BY <2>0, <2>2, AsioPiped
  <2>3. ASSUME NEW e \in Directions, Handler(e) PROVE Piped(d)'
    BY <1>1, <2>0, <2>3, HandlerPiped
  <2>4. ASSUME NEW x \in Peers, Peer(x) PROVE Piped(d)'
    BY <1>1, <2>0, <2>4, PeerPiped
  <2> QED
    BY <2>1, <2>2, <2>3, <2>4 DEF Next
<1> QED
  BY <1>1 DEF Pipeline, Piped

LEMMA InitIInv == Init => IInv
<1> SUFFICES ASSUME Init PROVE IInv
  OBVIOUS
<1>1. Mutex /\ Phases /\ Endings /\ EndOfFile /\ ClosedForAReason
  <2>1. /\ \A d \in Directions : handler[d] = "none"
        /\ pc = "resolve" /\ reply = 0 /\ ~ended
    BY HandlerStates DEF Init
  <2>2. open["client"]
    BY DEF Init, Peers
  <2>3. ~Replied
    BY <2>1, HandlerStates DEF Replied
  <2>4. Phases
    BY <2>1, <2>2, <2>3, HandlerStates DEF Phases, Directions
  <2>5. Mutex /\ EndOfFile /\ ClosedForAReason
    BY <2>1, <2>3, HandlerStates DEF Mutex, Holding, EndOfFile, ClosedForAReason
  <2>6. Endings
    BY <2>1 DEF Endings, Begun
  <2> QED
    BY <2>4, <2>5, <2>6
<1>2. OnlyThroughTheTunnel
  BY DEF Init, OnlyThroughTheTunnel
<1>3. ASSUME NEW x \in Peers PROVE Delivered(x) = <<>> /\ Len(Delivered(x)) = 0
  <2>1. received[x] = <<>> /\ toPeer[x] = <<>>
    BY DEF Init
  <2>2. <<>> \in Seq(Nat) /\ <<>> \o <<>> = <<>>
    BY EmptySeq, ConcatEmptySeq
  <2> QED
    BY <2>1, <2>2, EmptySeq DEF Delivered
<1>4. Pipeline /\ RelayedOneByOne
  <2> SUFFICES ASSUME NEW d \in Directions PROVE Piped(d) /\ InOrder(d)
    BY DEF Pipeline, Piped, RelayedOneByOne
  <2>1. Passed(d) = sent[Read(d)] /\ sent[Read(d)] \in Nat
    BY <1>3, Ends, SizesAssumption DEF Init, Passed, Dropped, Read, Write, Directions
  <2>2. ~Carries(d) /\ Carried(d) = 0
    BY HandlerStates DEF Init, Carries, Carried
  <2>3. toProxy[Read(d)] = <<>> /\ Len(<<>>) = 0 /\ DOMAIN <<>> = {}
    BY Ends, EmptySeq DEF Init
  <2> QED
    BY <1>3, <2>1, <2>2, <2>3, Ends DEF Piped, InOrder
<1>5. RelayedInOrder
  BY <1>4, InitTypeInv, RelayedPointwise
<1>6. SizeIsExact
  BY <1>3 DEF SizeIsExact, Init, Peers
<1> QED
  BY InitTypeInv, <1>1, <1>2, <1>4, <1>5, <1>6 DEF IInv, TypeInv

LEMMA NextIInv == TypeInv /\ TypeInv' /\ IInv /\ [Next]_vars => IInv'
<1> SUFFICES ASSUME TypeInv, TypeInv', IInv, [Next]_vars PROVE IInv'
  OBVIOUS
<1>1. CASE Next
  <2> USE <1>1
  <2>1. Mutex' /\ Phases' /\ Endings'
    BY MutexStep, PhasesStep, EndingsStep DEF IInv
  <2>2. EndOfFile' /\ ClosedForAReason' /\ OnlyThroughTheTunnel'
    BY EndOfFileStep, ClosedForAReasonStep, OnlyThroughTheTunnelStep DEF IInv
  <2>3. Pipeline' /\ RelayedInOrder' /\ SizeIsExact'
    BY PipelineStep, RelayedInOrderStep, SizeIsExactStep DEF IInv
  <2> QED
    BY <2>1, <2>2, <2>3 DEF IInv, TypeInv
<1>2. CASE UNCHANGED vars
  <2> USE <1>2 DEF vars, streams, timer, reads
  <2>1. Mutex' /\ Phases' /\ Endings'
    BY DEF IInv, Mutex, Holding, Phases, Replied, Endings, Begun
  <2>2. EndOfFile' /\ ClosedForAReason' /\ OnlyThroughTheTunnel'
    BY DEF IInv, EndOfFile, ClosedForAReason, Replied, OnlyThroughTheTunnel, TunnelState
  <2>3. Pipeline'
    BY ZenonT(40) DEF IInv, Pipeline, Passable, Carries, Carried, Passed, Dropped, Delivered
  <2>4. RelayedInOrder'
    BY DEF IInv, RelayedInOrder, Dropped, Delivered
  <2>5. SizeIsExact'
    BY DEF IInv, SizeIsExact, Delivered
  <2> QED
    BY <2>1, <2>2, <2>3, <2>4, <2>5 DEF IInv, TypeInv
<1> QED
  BY <1>1, <1>2

(***************************************************************************)
(* The inductive invariant of a proxied connection: the mutex, the phases  *)
(* of handle_connection, who ended which loop, and where each chunk is.    *)
(***************************************************************************)
THEOREM InductiveInvariant == Spec => [](TypeInv /\ IInv)
<1>1. Init => TypeInv /\ IInv
  BY InitTypeInv, InitIInv
<1>2. TypeInv /\ IInv /\ [Next]_vars => (TypeInv /\ IInv)'
  BY NextTypeInv, NextIInv
<1> QED
  BY <1>1, <1>2, PTL DEF Spec

(***************************************************************************)
(* Whatever the workers, the mutex, the closing and the peers do, each     *)
(* peer is given what the other sent, in order and without a gap.          *)
(***************************************************************************)
THEOREM RelaysInOrder == Spec => []RelayedInOrder
<1>1. IInv => RelayedInOrder
  BY DEF IInv
<1> QED
  BY <1>1, InductiveInvariant, PTL

(* total_size is the number of chunks written to the client, while it fits. *)
THEOREM CountsExactly == Spec => []SizeIsExact
<1>1. IInv => SizeIsExact
  BY DEF IInv
<1> QED
  BY <1>1, InductiveInvariant, PTL

(***************************************************************************)
(* When the server closed in order, everything it sent was written to the  *)
(* client before handle_read closes the client socket.                     *)
(***************************************************************************)
THEOREM WritesBeforeClosing == Spec => []ResponseWrittenBeforeClose
<1>1. TypeInv /\ IInv => ResponseWrittenBeforeClose
  <2> SUFFICES ASSUME TypeInv, IInv, handler["down"] = Closing, result["down"] = "eof",
                      peer["client"] = "open"
               PROVE  \/ Len(Delivered("client")) = sent["server"]
                      \/ peer["server"] = "reset"
    BY DEF ResponseWrittenBeforeClose
  <2>1. /\ "down" \in Directions /\ Read("down") = "server" /\ Write("down") = "client"
        /\ Dropped("down") = 0
    BY DEF Directions, Read, Write, Dropped
  <2>2. open["client"]
    BY <2>1, HandlerStates DEF IInv, ClosedForAReason, Replied
  <2>3. Piped("down")
    BY <2>1, <2>2 DEF IInv, Pipeline, Passable, Piped
  <2>4. toProxy["server"] = <<>> /\ Len(toProxy["server"]) = 0
    BY <2>1, EmptySeq DEF IInv, EndOfFile
  <2>5. Carried("down") = 0
    BY HandlerStates DEF Carried, Carries
  <2>6. Passed("down") = Len(Delivered("client")) /\ Passed("down") \in Nat
    BY <2>1, PipedTypes, DeliveredType, Ends DEF Passed
  <2> QED
    BY <2>1, <2>3, <2>4, <2>5, <2>6 DEF Piped
<1> QED
  BY <1>1, InductiveInvariant, PTL

(***************************************************************************)
(* The mutex excludes the handlers from each other on every socket; only   *)
(* the accepting thread, starting the second read, can meet one of them.   *)
(***************************************************************************)
THEOREM AccessesAreExclusive == Spec => []SocketAccessesAreExclusive
<1>1. IInv => SocketAccessesAreExclusive
  <2> SUFFICES ASSUME IInv, NEW x \in Peers
               PROVE  /\ Cardinality(SocketUsers(x) \ {"accept"}) <= 1
                      /\ Cardinality(SocketUsers(x)) > 1 => x = "server" /\ pc = "arming_server"
    BY DEF SocketAccessesAreExclusive
  <2>0. \A S : S \subseteq {lock} => Cardinality(S) \in Nat /\ Cardinality(S) <= 1
    <3>1. IsFiniteSet({lock}) /\ Cardinality({lock}) = 1
      BY FS_Singleton
    <3> QED
      BY <3>1, FS_Subset, FS_CardinalityType
  <2>1. SocketUsers(x) \ {"accept"} \subseteq {lock}
    BY DEF SocketUsers, IInv, Mutex, Holding
  <2>2. ~(x = "server" /\ pc = "arming_server") => SocketUsers(x) \subseteq {lock}
    BY DEF SocketUsers, IInv, Mutex, Holding
  <2> QED
    BY <2>0, <2>1, <2>2
<1> QED
  BY <1>1, InductiveInvariant, PTL

(***************************************************************************)
(* An established connection is destroyed with its timer running only if   *)
(* the last write of each direction failed because both peers had left.    *)
(***************************************************************************)
THEOREM TimerStops == Spec => []TimerStoppedWhenDestroyed
<1>1. IInv => TimerStoppedWhenDestroyed
  BY DEF IInv, TimerStoppedWhenDestroyed, Destroyed, Endings, Begun
<1> QED
  BY <1>1, InductiveInvariant, PTL

-----------------------------------------------------------------------------
(***************************************************************************)
(* A proxied connection implements a Tunnel, step by step.                 *)
(***************************************************************************)

(* The refinement mapping of Connection, by name. *)
RelaySent == [sent EXCEPT !["client"] = @ - EarlyChunks]
RelayReceived == [received EXCEPT !["server"] = [i \in DOMAIN @ |-> @[i] - EarlyChunks]]

LEMMA MappedTypes ==
  ASSUME TypeInv
  PROVE  /\ sent \in [Peers -> Nat] /\ RelaySent \in [Peers -> Int]
         /\ received \in [Peers -> Seq(1 .. MaxChunks)]
         /\ DOMAIN RelayReceived = Peers
         /\ "client" \in Peers /\ "server" \in Peers
<1>1. sent \in [Peers -> Nat] /\ received \in [Peers -> Seq(1 .. MaxChunks)]
  BY SizesAssumption DEF TypeInv, TypeOK
<1>2. "client" \in Peers /\ "server" \in Peers
  BY DEF Peers
<1>3. RelaySent \in [Peers -> Int]
  BY <1>1, <1>2, SizesAssumption DEF RelaySent
<1> QED
  BY <1>1, <1>2, <1>3 DEF RelayReceived

LEMMA MapsInit == Init => Relay!Init
<1> SUFFICES ASSUME Init PROVE Relay!Init
  OBVIOUS
<1>1. TunnelState = "closed"
  BY DEF Init, TunnelState
<1>2. RelaySent = [x \in Peers |-> 0]
  BY SizesAssumption DEF Init, RelaySent, Peers
<1>3. RelayReceived = [x \in Peers |-> <<>>]
  <2>1. received = [x \in Peers |-> <<>>] /\ DOMAIN <<>> = {}
    BY EmptySeq DEF Init
  <2>2. [i \in DOMAIN received["server"] |-> received["server"][i] - EarlyChunks] = <<>>
    BY <2>1 DEF Peers
  <2> QED
    BY <2>1, <2>2 DEF RelayReceived
<1> QED
  BY <1>1, <1>2, <1>3 DEF Relay!Init, RelaySent, RelayReceived

(* A peer that sends adds to one relay. *)
LEMMA MapsSend ==
  ASSUME TypeInv, NEW x \in Peers, PeerSend(x) PROVE Relay!Send(x)
<1>1. sent' = [sent EXCEPT ![x] = @ + 1] /\ UNCHANGED <<peer, reply, received>>
  BY DEF PeerSend
<1>2. RelaySent' = [RelaySent EXCEPT ![x] = @ + 1]
  <2>1. /\ sent \in [Peers -> Nat] /\ "client" \in Peers /\ EarlyChunks \in Nat
        /\ DOMAIN RelaySent = Peers /\ DOMAIN RelaySent' = Peers
    BY <1>1, MappedTypes, SizesAssumption DEF RelaySent
  <2>2. ASSUME NEW y \in Peers PROVE RelaySent'[y] = [RelaySent EXCEPT ![x] = @ + 1][y]
    BY <1>1, <2>1 DEF RelaySent
  <2> QED
    BY <2>1, <2>2 DEF RelaySent
<1>3. UNCHANGED <<TunnelState, RelayReceived>>
  BY <1>1 DEF TunnelState, RelayReceived
<1> QED
  BY <1>2, <1>3 DEF Relay!Send, RelaySent, RelayReceived

(***************************************************************************)
(* What a peer is about to read is its next chunk, and was sent.           *)
(***************************************************************************)
LEMMA NextChunk ==
  ASSUME TypeInv, RelayedInOrder, NEW d \in Directions, toPeer[Write(d)] # <<>>
  PROVE  /\ Head(toPeer[Write(d)]) = Dropped(d) + Len(received[Write(d)]) + 1
         /\ Dropped(d) + Len(received[Write(d)]) + 1 <= sent[Read(d)]
         /\ \A i \in 1 .. Len(received[Write(d)]) : received[Write(d)][i] = Dropped(d) + i
<1> DEFINE r == received[Write(d)]
           t == toPeer[Write(d)]
<1>1. /\ r \in Seq(1 .. MaxChunks) /\ t \in Seq(1 .. MaxChunks)
      /\ Len(r) \in Nat /\ Dropped(d) \in Nat /\ sent[Read(d)] \in Nat
  BY DeliveredType, PipedTypes, LenProperties, Ends, SizesAssumption, SMTT(20) DEF Dropped
<1>2. /\ \A i \in 1 .. Len(r \o t) : (r \o t)[i] = Dropped(d) + i
      /\ Dropped(d) + Len(r \o t) <= sent[Read(d)]
  BY RelayedPointwise DEF RelayedOneByOne, InOrder, Passed, Delivered
<1>3. t # <<>>
  OBVIOUS
<1> HIDE DEF r, t
<1>4. Head(t) = t[1] /\ Len(t) \in Nat \ {0}
  BY <1>1, <1>3, HeadAndTail
<1>5. /\ Len(r \o t) = Len(r) + Len(t)
      /\ \A i \in 1 .. Len(r) : (r \o t)[i] = r[i]
      /\ (r \o t)[Len(r) + 1] = t[1]
  BY <1>1, <1>4, ConcatProperties
<1>6. t[1] = Dropped(d) + (Len(r) + 1)
  BY <1>1, <1>2, <1>4, <1>5
<1>7. \A i \in 1 .. Len(r) : r[i] = Dropped(d) + i
  <2> SUFFICES ASSUME NEW i \in 1 .. Len(r) PROVE r[i] = Dropped(d) + i
    OBVIOUS
  <2>1. i \in 1 .. Len(r \o t)
    BY <1>1, <1>4, <1>5
  <2>2. (r \o t)[i] = Dropped(d) + i
    BY <1>2, <2>1
  <2> QED
    BY <1>5, <2>2
<1>8. Dropped(d) + Len(r) + 1 <= sent[Read(d)]
  BY <1>1, <1>2, <1>4, <1>5
<1>9. Head(t) = Dropped(d) + Len(r) + 1
  BY <1>1, <1>4, <1>6
<1> QED
  BY <1>7, <1>8, <1>9 DEF r, t

(* What came with the header is subtracted from a sequence of chunks. *)
LEMMA ShiftAppend ==
  ASSUME NEW r \in Seq(Int), NEW k \in Nat
  PROVE  [i \in DOMAIN Append(r, k + Len(r) + 1) |-> Append(r, k + Len(r) + 1)[i] - k]
           = Append([i \in DOMAIN r |-> r[i] - k], Len([i \in DOMAIN r |-> r[i] - k]) + 1)
<1> DEFINE m == [i \in 1 .. Len(r) |-> r[i] - k]
           a == Append(r, k + Len(r) + 1)
<1>1. /\ DOMAIN r = 1 .. Len(r) /\ Len(r) \in Nat
      /\ a \in Seq(Int) /\ Len(a) = Len(r) + 1 /\ DOMAIN a = 1 .. Len(r) + 1
      /\ \A i \in 1 .. Len(r) : a[i] = r[i]
      /\ a[Len(r) + 1] = k + Len(r) + 1
  BY AppendProperties, LenProperties
<1>2. m \in Seq(Int) /\ Len(m) = Len(r) /\ \A i \in 1 .. Len(r) : m[i] = r[i] - k
  <2>1. \A i \in 1 .. Len(r) : r[i] - k \in Int
    BY <1>1
  <2> QED
    BY <1>1, <2>1
<1> DEFINE b == Append(m, Len(r) + 1)
           c == [i \in 1 .. Len(r) + 1 |-> a[i] - k]
<1>3. /\ b \in Seq(Int) /\ Len(b) = Len(r) + 1
      /\ \A i \in 1 .. Len(r) : b[i] = r[i] - k
      /\ b[Len(r) + 1] = Len(r) + 1
  <2> HIDE DEF m
  <2> QED
    BY <1>1, <1>2, AppendProperties
<1> HIDE DEF a
<1>4. /\ c \in Seq(Int) /\ Len(c) = Len(r) + 1
      /\ \A i \in 1 .. Len(r) : c[i] = r[i] - k
      /\ c[Len(r) + 1] = Len(r) + 1
  <2>1. \A i \in 1 .. Len(r) + 1 : a[i] - k \in Int
    BY <1>1
  <2> QED
    BY <1>1, <2>1
<1> HIDE DEF b, c
<1>5. c = b
  <2>1. ASSUME NEW i \in 1 .. Len(c) PROVE c[i] = b[i]
    <3>1. i \in 1 .. Len(r) \/ i = Len(r) + 1
      BY <1>1, <1>4
    <3>2. CASE i \in 1 .. Len(r)
      BY <3>2, <1>3, <1>4
    <3>3. CASE i = Len(r) + 1
      BY <3>3, <1>3, <1>4
    <3> QED
      BY <3>1, <3>2, <3>3
  <2> QED
    BY <1>3, <1>4, <2>1, SeqEqual
<1> QED
  BY <1>1, <1>2, <1>5 DEF a, b, c

(* A peer that reads is given its next chunk by a tunnel that was up. *)
LEMMA MapsDeliver ==
  ASSUME TypeInv, IInv, NEW x \in Peers, PeerReceive(x) PROVE Relay!Deliver(x)
<1>1. /\ toPeer[x] # <<>>
      /\ received' = [received EXCEPT ![x] = Append(@, Head(toPeer[x]))]
      /\ UNCHANGED <<peer, reply, sent>>
  BY DEF PeerReceive
<1>2. PICK d \in Directions : Write(d) = x
  BY DEF Peers, Directions, Write
<1>3. /\ Head(toPeer[x]) = Dropped(d) + Len(received[x]) + 1
      /\ Dropped(d) + Len(received[x]) + 1 <= sent[Read(d)]
      /\ received[x] \in Seq(1 .. MaxChunks) /\ Len(received[x]) \in Nat
  BY <1>1, <1>2, NextChunk, DeliveredType, LenProperties DEF IInv
<1>4. TunnelState # "closed" /\ UNCHANGED <<TunnelState, RelaySent>>
  BY <1>1 DEF IInv, OnlyThroughTheTunnel, TunnelState, RelaySent
<1>5. Opposite(x) = Read(d)
  BY <1>2 DEF Opposite, Read, Write, Directions
<1>6. CASE x = "client"
  <2>1. d = "down" /\ Read(d) = "server" /\ Dropped(d) = 0
    BY <1>2, <1>6 DEF Directions, Write, Read, Dropped
  <2>2. RelayReceived[x] = received[x] /\ RelaySent["server"] = sent["server"]
    BY <1>6, MappedTypes DEF RelayReceived, RelaySent
  <2>3. RelayReceived' = [RelayReceived EXCEPT ![x] = Append(@, Len(@) + 1)]
    <3>1. received'[x] = Append(RelayReceived[x], Len(RelayReceived[x]) + 1)
      BY <1>1, <1>3, <2>1, <2>2, MappedTypes
    <3>2. \A y \in Peers \ {x} : received'[y] = received[y]
      BY <1>1, MappedTypes
    <3>3. DOMAIN received' = Peers
      BY <1>1, MappedTypes
    <3> QED
      BY <1>6, <3>1, <3>2, <3>3, MappedTypes, ZenonT(40) DEF RelayReceived
  <2>4. Len(RelayReceived[x]) < RelaySent[Opposite(x)]
    BY <1>3, <1>5, <2>1, <2>2, MappedTypes
  <2> QED
    BY <1>4, <2>3, <2>4 DEF Relay!Deliver, RelaySent, RelayReceived
<1>7. CASE x = "server"
  <2>1. d = "up" /\ Read(d) = "client" /\ Dropped(d) = EarlyChunks /\ EarlyChunks \in Nat
    BY <1>2, <1>7, SizesAssumption DEF Directions, Write, Read, Dropped
  <2>2. /\ RelayReceived[x] = [i \in DOMAIN received[x] |-> received[x][i] - EarlyChunks]
        /\ RelaySent["client"] = sent["client"] - EarlyChunks
    BY <1>7, MappedTypes DEF RelayReceived, RelaySent
  <2>3. received[x] \in Seq(Int)
    BY <1>3, SeqMonotonic, SizesAssumption
  <2>4. received'[x] = Append(received[x], EarlyChunks + Len(received[x]) + 1)
    BY <1>1, <1>3, <2>1, MappedTypes
  <2>5. [i \in DOMAIN received'[x] |-> received'[x][i] - EarlyChunks]
          = Append(RelayReceived[x], Len(RelayReceived[x]) + 1)
    BY <2>1, <2>2, <2>3, <2>4, ShiftAppend
  <2>6. RelayReceived' = [RelayReceived EXCEPT ![x] = Append(@, Len(@) + 1)]
    BY <1>1, <1>7, <2>5, MappedTypes DEF RelayReceived
  <2>7. Len(RelayReceived[x]) = Len(received[x])
    BY <1>3, <2>2
  <2>8. Len(RelayReceived[x]) < RelaySent[Opposite(x)]
    BY <1>3, <1>5, <2>1, <2>2, <2>7, MappedTypes
  <2> QED
    BY <1>4, <2>6, <2>8 DEF Relay!Deliver, RelaySent, RelayReceived
<1> QED
  BY <1>6, <1>7 DEF Peers

(* A peer that leaves takes the tunnel down, unless it was down. *)
LEMMA MapsLeave ==
  ASSUME TypeInv, NEW x \in Peers, PeerLeave(x)
  PROVE  Relay!Leave \/ UNCHANGED <<TunnelState, RelaySent, RelayReceived>>
<1>1. UNCHANGED <<sent, received>> /\ peer'[x] # "open"
  BY DEF PeerLeave, TypeInv, TypeOK
<1>2. UNCHANGED <<RelaySent, RelayReceived>>
  BY <1>1 DEF RelaySent, RelayReceived
<1>3. TunnelState' = "down"
  BY <1>1 DEF TunnelState
<1> QED
  BY <1>2, <1>3 DEF Relay!Leave, RelaySent, RelayReceived

(* The status line 200 brings the tunnel up; nothing else does. *)
LEMMA MapsHandleConnection ==
  ASSUME TypeInv, Phases, HandleConnection
  PROVE  Relay!Establish \/ UNCHANGED <<TunnelState, RelaySent, RelayReceived>>
<1>1. UNCHANGED <<peer, sent, received>>
  BY DEF HandleConnection, Resolve, Connect, Reply, ArmClient, BeginArmServer,
         EndArmServer, streams
<1>2. UNCHANGED <<RelaySent, RelayReceived>>
  BY <1>1 DEF RelaySent, RelayReceived
<1>3. \/ reply' = reply
      \/ reply = 0 /\ reply' \in {200, 404, 502}
  BY DEF HandleConnection, Resolve, Connect, Reply, ArmClient, BeginArmServer,
         EndArmServer, ReplyWith, Phases
<1>4. TunnelState' = TunnelState \/ (TunnelState = "closed" /\ TunnelState' = "up")
  BY <1>1, <1>3 DEF TunnelState
<1> QED
  BY <1>2, <1>4 DEF Relay!Establish, RelaySent, RelayReceived

LEMMA MapsNext ==
  TypeInv /\ IInv /\ [Next]_vars => [Relay!Next]_(Relay!vars)
<1> SUFFICES ASSUME TypeInv, IInv, [Next]_vars PROVE [Relay!Next]_(Relay!vars)
  OBVIOUS
<1>0. UNCHANGED <<TunnelState, RelaySent, RelayReceived>> => UNCHANGED Relay!vars
  BY DEF Relay!vars, RelaySent, RelayReceived
<1>1. CASE HandleConnection
  BY <1>0, <1>1, MapsHandleConnection DEF IInv, Relay!Next
<1>2. ASSUME NEW d \in Directions, Handler(d) \/ Asio(d) PROVE UNCHANGED Relay!vars
  <2>1. UNCHANGED <<sent, received, reply>> /\ \A x \in Peers : peer[x] = "open" <=> peer'[x] = "open"
    BY <1>2, ControlTypes, Ends
       DEF Handler, RunHandler, BeginClose, EndClose, Abandon, BeginWrite, EndWrite, FailWrite,
           Asio, ReadData, ReadError, streams
  <2>2. UNCHANGED <<TunnelState, RelaySent, RelayReceived>>
    BY <2>1 DEF TunnelState, RelaySent, RelayReceived
  <2> QED
    BY <1>0, <2>2
<1>3. ASSUME NEW x \in Peers, Peer(x) PROVE [Relay!Next]_(Relay!vars)
  BY <1>0, <1>3, MapsSend, MapsDeliver, MapsLeave DEF Peer, Relay!Next
<1>4. CASE UNCHANGED vars
  BY <1>0, <1>4 DEF vars, streams, TunnelState, RelaySent, RelayReceived
<1> QED
  BY <1>1, <1>2, <1>3, <1>4 DEF Next

(***************************************************************************)
(* A proxied connection implements a Tunnel: whatever the buffers, the     *)
(* mutex, the workers and the closing do, each peer sees a FIFO relay.     *)
(***************************************************************************)
THEOREM RefinesTunnel == Spec => ImplementsTunnel
<1> QED
  BY MapsInit, MapsNext, InductiveInvariant, PTL DEF Spec, ImplementsTunnel, Relay!SafeSpec
=============================================================================
