------------------------------ MODULE ServerProofs ------------------------------
(***************************************************************************)
(* Proofs about Server, for any clients, whether silent, stuck or hasty,   *)
(* any number of worker threads and any blacklist.                         *)
(***************************************************************************)
EXTENDS ServerInvariant, FiniteSetTheorems, SequenceTheorems, TLAPS

(* The two directions. *)
LEMMA TwoDirections ==
  /\ \A d \in Directions : Other(d) \in Directions /\ Other(d) # d /\ d # Nobody
  /\ \A d, e \in Directions : e = d \/ e = Other(d)
BY DEF Directions, Other, Nobody

HandlerStates == {"none", "armed", "ready", "locking", "writing"}

(* The types of what a step of a handler depends on. *)
LEMMA HandlerTypes ==
  ASSUME TypeOK
  PROVE  /\ handler \in [Clients -> [Directions -> HandlerStates]]
         /\ lock \in [Clients -> Directions \cup {Nobody}]
         /\ shut \subseteq Clients
BY DEF TypeOK, Running, HandlerStates

(* One handler changes its state. *)
LEMMA HandlerSet ==
  ASSUME TypeOK, NEW c \in Clients, NEW d \in Directions, NEW s \in HandlerStates,
         SetHandler(c, d, s)
  PROVE  /\ handler' \in [Clients -> [Directions -> HandlerStates]]
         /\ handler'[c][d] = s
         /\ \A b \in Clients, e \in Directions : <<b, e>> # <<c, d>> => handler'[b][e] = handler[b][e]
BY HandlerTypes DEF SetHandler

LEMMA HandlersClosed ==
  ASSUME TypeOK, NEW c \in Clients, NEW d \in Directions, CloseBoth(c, d)
  PROVE  /\ handler' \in [Clients -> [Directions -> HandlerStates]]
         /\ handler'[c][d] = "none"
         /\ handler'[c][Other(d)]
              = IF handler[c][Other(d)] = "armed" THEN "ready" ELSE handler[c][Other(d)]
         /\ \A b \in Clients \ {c} : handler'[b] = handler[b]
BY HandlerTypes, TwoDirections DEF CloseBoth, HandlerStates

-----------------------------------------------------------------------------
LEMMA InitTypeOK == Init => TypeOK
<1> SUFFICES ASSUME Init PROVE TypeOK
  OBVIOUS
<1>1. stopped \in [{"ctx", "accept_ctx"} -> BOOLEAN]
  BY Zenon DEF Init
<1>2. workers \in 0 .. THREAD_COUNT
  BY ServerAssumption DEF Init
<1> QED
  BY <1>1, <1>2 DEF Init, TypeOK

LEMMA NextTypeOK == TypeOK /\ Threads /\ Serving /\ [Next]_vars => TypeOK'
<1> SUFFICES ASSUME TypeOK, Threads, Serving, [Next]_vars PROVE TypeOK'
  OBVIOUS
<1> USE DEF clients, acceptor, connections
<1>1. ASSUME NEW c \in Clients, Arrive(c) \/ SendHeader(c) \/ Leave(c) PROVE TypeOK'
  BY <1>1 DEF TypeOK, Arrive, SendHeader, Leave
<1>2. CASE Main
  <2>1. main' \in {"exited", "waiting"} /\ workers' \in {workers, THREAD_COUNT}
    BY <1>2 DEF Main, Step, StartedThreads
  <2>3. accepting' \in BOOLEAN
    BY <1>2 DEF Main, TypeOK
  <2>2. UNCHANGED <<clients, current, stopped, connections, log>>
    BY <1>2 DEF Main
  <2> QED
    BY <2>1, <2>2, <2>3, ServerAssumption DEF TypeOK
<1>3. ASSUME NEW c \in Clients, Accept(c) PROVE TypeOK'
  BY <1>3 DEF TypeOK, Accept, Step
<1>4. CASE RemoteEndpoint
  BY <1>4 DEF TypeOK, RemoteEndpoint, Step
<1>5. CASE ReadHeader \/ Create \/ Connect
  <2>1. /\ main' \in {"creating", "rearming", "connecting"}
        /\ stage' \in {stage, [stage EXCEPT ![current] = "closed"],
                            [stage EXCEPT ![current] = "tunnel"]}
        /\ answered' \in {answered, answered \cup {current}}
        /\ handler' \in {handler, [handler EXCEPT ![current] = [d \in Directions |-> "armed"]]}
        /\ UNCHANGED <<asked, gone, current, accepting, stopped, lock, shut, workers, log>>
    BY <1>5 DEF ReadHeader, Create, Connect, Answer, GiveUp, Step
  <2>2. current \in Clients
    BY <1>5 DEF ReadHeader, Create, Connect, Step, Serving
  <2>3. stage' \in [Clients -> {"away", "backlog", "accepted", "tunnel", "closed"}]
    BY <2>1, <2>2 DEF TypeOK
  <2>4. handler' \in [Clients -> [Directions -> HandlerStates]]
    BY <2>1, <2>2, HandlerTypes DEF HandlerStates
  <2>5. answered' \subseteq Clients
    BY <2>1, <2>2 DEF TypeOK
  <2> QED
    BY <2>1, <2>3, <2>4, <2>5 DEF TypeOK, HandlerStates, Running
<1>8. CASE Rearm
  BY <1>8 DEF TypeOK, Rearm, Step
<1>9. ASSUME NEW c \in Clients, NEW d \in Directions, ReadCompletes(c, d) \/ Handler(c, d)
      PROVE  TypeOK'
  <2>1. UNCHANGED <<clients, acceptor, stopped, workers, log>>
    BY <1>9 DEF ReadCompletes, Handler, RunHandler, BeginWrite, CloseBoth, Abandon, EndWrite
  <2>2. lock' \in [Clients -> Directions \cup {Nobody}] /\ shut' \subseteq Clients
    BY <1>9, HandlerTypes
       DEF ReadCompletes, Handler, RunHandler, BeginWrite, CloseBoth, Abandon, EndWrite
  <2>3. handler' \in [Clients -> [Directions -> HandlerStates]]
    BY <1>9, HandlerSet, HandlersClosed
       DEF ReadCompletes, Handler, RunHandler, BeginWrite, Abandon, EndWrite, HandlerStates
  <2> QED
    BY <2>1, <2>2, <2>3 DEF TypeOK, Running, HandlerStates
<1>10. CASE Interrupt
  <2>1. stopped' \in [{"ctx", "accept_ctx"} -> BOOLEAN]
    BY <1>10, Zenon DEF TypeOK, Interrupt, interrupt_handler
  <2>2. UNCHANGED <<clients, acceptor, connections, workers, log>>
    BY <1>10 DEF Interrupt
  <2> QED
    BY <2>1, <2>2 DEF TypeOK
<1>11. CASE WorkerReturns
  <2>1. Cardinality(Busy) \in Nat /\ Cardinality(Busy) < workers /\ workers' = workers - 1
    BY <1>11, FS_CardinalityType DEF WorkerReturns, Threads
  <2>2. workers' \in 0 .. THREAD_COUNT
    BY <2>1, ServerAssumption DEF TypeOK
  <2> QED
    BY <1>11, <2>2 DEF TypeOK, WorkerReturns
<1>12. CASE Shutdown
  BY <1>12 DEF TypeOK, Shutdown, AcceptReturns, JoinAll, CloseLog, DestroyLogger,
               DestroyContexts, Step, Running
<1>13. CASE UNCHANGED vars
  BY <1>13 DEF TypeOK, vars
<1> QED
  BY <1>1, <1>2, <1>3, <1>4, <1>5, <1>8, <1>9, <1>10, <1>11, <1>12, <1>13
     DEF Next, HandleAccept

-----------------------------------------------------------------------------
(* Threads: a handler starts only on a free worker, and a worker that runs *)
(* a handler does not return.                                              *)
LEMMA OneMore ==
  ASSUME NEW S, IsFiniteSet(S), NEW x, NEW T \in SUBSET (S \cup {x})
  PROVE  IsFiniteSet(T) /\ Cardinality(T) \in Nat /\ Cardinality(T) <= Cardinality(S) + 1
<1>1. /\ IsFiniteSet(S \cup {x}) /\ Cardinality(S) \in Nat
      /\ Cardinality(S \cup {x}) \in {Cardinality(S), Cardinality(S) + 1}
  BY FS_AddElement, FS_CardinalityType
<1>2. IsFiniteSet(T) /\ Cardinality(T) <= Cardinality(S \cup {x}) /\ Cardinality(T) \in Nat
  BY <1>1, FS_Subset, FS_CardinalityType
<1> QED
  BY <1>1, <1>2

LEMMA BusyShrinks ==
  ASSUME TypeOK, Threads, workers' = workers,
         \A c \in Clients, d \in Directions : handler'[c][d] \in Running => handler[c][d] \in Running
  PROVE  Threads'
<1>1. Busy' \subseteq Busy
  BY DEF Busy
<1>2. IsFiniteSet(Busy') /\ Cardinality(Busy') <= Cardinality(Busy)
      /\ Cardinality(Busy') \in Nat /\ Cardinality(Busy) \in Nat
  BY <1>1, FS_Subset, FS_CardinalityType DEF Threads
<1> QED
  BY <1>2, ServerAssumption DEF Threads, TypeOK

LEMMA ThreadsStep ==
  ASSUME TypeOK, Threads, Connections, Next PROVE Threads'
<1> USE DEF clients, acceptor, connections
<1>0. /\ Cardinality(Busy) \in Nat /\ workers \in Nat
      /\ handler \in [Clients -> [Directions -> HandlerStates]]
  BY FS_CardinalityType, HandlerTypes, ServerAssumption DEF Threads, TypeOK
<1>1. ASSUME NEW c \in Clients, Arrive(c) \/ SendHeader(c) \/ Leave(c) PROVE Threads'
  BY <1>1 DEF Arrive, SendHeader, Leave, Threads, Busy
<1>2. CASE Main
  <2>1. workers' \in {workers, THREAD_COUNT} /\ workers \in 0 .. THREAD_COUNT
        /\ Busy' = Busy
    BY <1>2 DEF Main, StartedThreads, TypeOK, Busy
  <2> QED
    BY <1>0, <2>1, ServerAssumption DEF Threads
<1>3. CASE HandleAccept
  <2>1. /\ workers' = workers
        /\ \/ handler' = handler
           \/ handler' = [handler EXCEPT ![current] = [d \in Directions |-> "armed"]]
    BY <1>3 DEF HandleAccept, Accept, RemoteEndpoint, ReadHeader, Create, Connect, Rearm, GiveUp
  <2>2. \A c \in Clients, d \in Directions :
          handler'[c][d] \in Running => handler[c][d] \in Running
    BY <1>0, <2>1 DEF Running
  <2> QED
    BY <2>1, <2>2, BusyShrinks
<1>4. ASSUME NEW c \in Clients, NEW d \in Directions, ReadCompletes(c, d) \/ Handler(c, d)
      PROVE  Threads'
  <2>1. workers' = workers
    BY <1>4 DEF ReadCompletes, Handler, RunHandler, BeginWrite, CloseBoth, Abandon, EndWrite
  <2>2. CASE RunHandler(c, d)
    <3>1. SetHandler(c, d, "locking") /\ Cardinality(Busy) < workers
      BY <2>2 DEF RunHandler
    <3>2. /\ handler'[c][d] = "locking"
          /\ \A b \in Clients, e \in Directions :
               <<b, e>> # <<c, d>> => handler'[b][e] = handler[b][e]
      BY <3>1, HandlerSet DEF HandlerStates
    <3>3. Busy' \subseteq Busy \cup {<<c, d>>}
      BY <3>2 DEF Busy
    <3>4. /\ IsFiniteSet(Busy') /\ Cardinality(Busy') \in Nat
          /\ Cardinality(Busy') <= Cardinality(Busy) + 1
      BY <3>3, OneMore DEF Threads
    <3> QED
      BY <1>0, <2>1, <3>1, <3>4 DEF Threads
  <2>3. CASE CloseBoth(c, d)
    <3>1. \A b \in Clients, e \in Directions :
            handler'[b][e] \in Running => handler[b][e] \in Running
      BY <2>3, HandlersClosed, TwoDirections DEF Running
    <3> QED
      BY <2>1, <3>1, BusyShrinks
  <2>4. CASE ReadCompletes(c, d) \/ BeginWrite(c, d) \/ Abandon(c, d) \/ EndWrite(c, d)
    <3>1. \/ \E s \in {"ready", "none", "armed"} : SetHandler(c, d, s)
          \/ handler[c][d] = "locking" /\ SetHandler(c, d, "writing")
      BY <2>4 DEF ReadCompletes, BeginWrite, HasMutex, Abandon, EndWrite
    <3>2. \A b \in Clients, e \in Directions :
            handler'[b][e] \in Running => handler[b][e] \in Running
      BY <3>1, HandlerSet DEF Running, HandlerStates
    <3> QED
      BY <2>1, <3>2, BusyShrinks
  <2> QED
    BY <1>4, <2>2, <2>3, <2>4 DEF Handler
<1>5. CASE Interrupt
  BY <1>5 DEF Interrupt, Threads, Busy
<1>6. CASE WorkerReturns
  <2>1. Busy' = Busy /\ workers' = workers - 1 /\ Cardinality(Busy) < workers
    BY <1>6 DEF WorkerReturns, Busy
  <2> QED
    BY <1>0, <2>1 DEF Threads
<1>7. CASE Shutdown
  <2>1. /\ workers' = workers
        /\ \/ handler' = handler
           \/ handler' = [c \in Clients |-> [d \in Directions |-> "none"]]
    BY <1>7 DEF Shutdown, AcceptReturns, JoinAll, CloseLog, DestroyLogger, DestroyContexts
  <2>2. \A c \in Clients, d \in Directions :
          handler'[c][d] \in Running => handler[c][d] \in Running
    BY <2>1 DEF Running
  <2> QED
    BY <2>1, <2>2, BusyShrinks
<1> QED
  BY <1>1, <1>2, <1>3, <1>4, <1>5, <1>6, <1>7 DEF Next

(* Ordered: the workers are gone before the logger is closed, and stay gone. *)
LEMMA OrderedStep ==
  ASSUME TypeOK, Threads, Ordered, Next PROVE Ordered'
<1> USE DEF clients, acceptor, connections, Step, Ordered
<1>0. workers \in Nat /\ Cardinality(Busy) \in Nat
  BY FS_CardinalityType, ServerAssumption DEF Threads, TypeOK
<1>1. CASE UNCHANGED <<main, workers, log>>
  BY <1>1
<1>2. CASE Main
  BY <1>2 DEF Main
<1>3. CASE HandleAccept
  BY <1>3 DEF HandleAccept, Accept, RemoteEndpoint, ReadHeader, Create, Connect, Rearm
<1>4. CASE WorkerReturns
  BY <1>0, <1>4 DEF WorkerReturns
<1>5. CASE Shutdown
  BY <1>5 DEF Shutdown, AcceptReturns, JoinAll, CloseLog, DestroyLogger, DestroyContexts
<1> QED
  BY <1>1, <1>2, <1>3, <1>4, <1>5
     DEF Next, Arrive, SendHeader, Leave, ReadCompletes, Handler, RunHandler, BeginWrite,
         CloseBoth, Abandon, EndWrite, Interrupt

(* Serving: only handle_accept moves the client it serves. *)
LEMMA ServingStep ==
  ASSUME TypeOK, Serving, Next PROVE Serving'
<1> USE DEF clients, acceptor, connections, Step, Serving
<1>1. CASE UNCHANGED <<stage, current>> /\ main' \notin {"endpoint", "reading", "creating", "connecting"}
  BY <1>1
<1>2. CASE UNCHANGED <<stage, current, main>>
  BY <1>2
<1>3. ASSUME NEW c \in Clients, Arrive(c) PROVE Serving'
  BY <1>3 DEF Arrive, TypeOK
<1>4. CASE HandleAccept
  BY <1>4 DEF HandleAccept, Accept, RemoteEndpoint, ReadHeader, Create, Connect, Rearm,
              GiveUp, TypeOK
<1> QED
  BY <1>1, <1>2, <1>3, <1>4
     DEF Next, SendHeader, Leave, ReadCompletes, Handler, RunHandler, BeginWrite, Main,
         CloseBoth, Abandon, EndWrite, Interrupt, WorkerReturns, Shutdown, AcceptReturns,
         JoinAll, CloseLog, DestroyLogger, DestroyContexts

(***************************************************************************)
(* Connections: a connection whose sockets were closed waits for no read,  *)
(* because only a handler that finds them open writes and reads again.     *)
(***************************************************************************)
LEMMA ConnectionsStep ==
  ASSUME TypeOK, Serving, Connections, Next PROVE Connections'
<1> USE DEF clients, acceptor, connections, Connections
<1>1. CASE UNCHANGED <<stage, connections>>
  BY <1>1
<1>2. ASSUME NEW c \in Clients, Arrive(c) \/ Accept(c) PROVE Connections'
  BY <1>2 DEF Arrive, Accept, TypeOK
<1>3. CASE ReadHeader \/ Create \/ Connect
  <2>1. /\ current \in Clients /\ stage[current] = "accepted" /\ UNCHANGED <<lock, shut>>
        /\ \/ stage' = [stage EXCEPT ![current] = "closed"] /\ handler' = handler
           \/ stage' = stage /\ handler' = handler
           \/ /\ stage' = [stage EXCEPT ![current] = "tunnel"]
              /\ handler' = [handler EXCEPT ![current] = [d \in Directions |-> "armed"]]
    BY <1>3 DEF ReadHeader, Create, Connect, GiveUp, Step, Serving
  <2> QED
    BY <2>1 DEF TypeOK
<1>4. ASSUME NEW c \in Clients, NEW d \in Directions, ReadCompletes(c, d) \/ Handler(c, d)
      PROVE  Connections'
  <2>0. UNCHANGED stage /\ d # Nobody
    BY <1>4, TwoDirections
       DEF ReadCompletes, Handler, RunHandler, BeginWrite, CloseBoth, Abandon, EndWrite
  <2> USE <2>0, HandlerTypes, HandlerSet, TwoDirections DEF HandlerStates
  <2>1. CASE ReadCompletes(c, d)
    BY <2>1 DEF ReadCompletes
  <2>2. CASE RunHandler(c, d)
    BY <2>2 DEF RunHandler
  <2>3. CASE BeginWrite(c, d)
    BY <2>3 DEF BeginWrite, HasMutex
  <2>4. CASE CloseBoth(c, d)
    BY <2>4, HandlersClosed DEF CloseBoth, HasMutex
  <2>5. CASE Abandon(c, d)
    BY <2>5, SMTT(20) DEF Abandon, HasMutex
  <2>6. CASE EndWrite(c, d)
    BY <2>6 DEF EndWrite
  <2> QED
    BY <1>4, <2>1, <2>2, <2>3, <2>4, <2>5, <2>6 DEF Handler
<1>5. CASE DestroyContexts
  BY <1>5 DEF DestroyContexts
<1> QED
  BY <1>1, <1>2, <1>3, <1>4, <1>5
     DEF Next, SendHeader, Leave, Main, HandleAccept, RemoteEndpoint, Rearm, Interrupt,
         WorkerReturns, Shutdown, AcceptReturns, JoinAll, CloseLog, DestroyLogger

LEMMA InitIInv == Init => IInv
<1> SUFFICES ASSUME Init PROVE IInv
  OBVIOUS
<1>1. Busy = {} /\ workers = 0
  BY DEF Init, Busy, Running
<1>2. Threads
  BY <1>1, FS_EmptySet DEF Threads
<1>3. Ordered /\ Serving /\ Connections
  BY DEF Init, Ordered, Serving, Connections
<1> QED
  BY InitTypeOK, <1>2, <1>3 DEF IInv

LEMMA NextIInv == IInv /\ [Next]_vars => IInv'
<1> SUFFICES ASSUME IInv, [Next]_vars PROVE IInv'
  OBVIOUS
<1>0. TypeOK /\ TypeOK'
  BY NextTypeOK DEF IInv
<1>1. CASE Next
  BY <1>0, <1>1, ThreadsStep, OrderedStep, ServingStep, ConnectionsStep DEF IInv
<1>2. CASE UNCHANGED vars
  BY <1>0, <1>2 DEF vars, clients, acceptor, connections, IInv, Threads, Busy, Ordered,
                    Serving, Connections
<1> QED
  BY <1>1, <1>2

(***************************************************************************)
(* The inductive invariant of the threads of https_proxy: handlers run on  *)
(* workers, the shutdown keeps its order, and a closed connection does not *)
(* read.                                                                   *)
(***************************************************************************)
THEOREM InductiveInvariant == Spec => []IInv
BY InitIInv, NextIInv, PTL DEF Spec

(***************************************************************************)
(* Every variable of Server always has its type; there are never more      *)
(* workers than main started.                                              *)
(***************************************************************************)
THEOREM TypeCorrect == Spec => []TypeOK
<1>1. IInv => TypeOK
  BY DEF IInv
<1> QED
  BY <1>1, InductiveInvariant, PTL

(***************************************************************************)
(* The logger is closed and destroyed only when every worker has returned  *)
(* and no handler runs.                                                    *)
(***************************************************************************)
THEOREM LoggerIsLast == Spec => []LoggerOutlivesThreads
<1>1. IInv => LoggerOutlivesThreads
  <2> SUFFICES ASSUME IInv, log # "open" PROVE workers = 0 /\ Busy = {}
    BY DEF LoggerOutlivesThreads
  <2>1. workers = 0 /\ IsFiniteSet(Busy) /\ Cardinality(Busy) <= 0
    BY DEF IInv, TypeOK, Ordered, Threads
  <2>2. Cardinality(Busy) = 0
    BY <2>1, FS_CardinalityType
  <2> QED
    BY <2>1, <2>2, FS_EmptySet
<1> QED
  BY <1>1, InductiveInvariant, PTL

(***************************************************************************)
(* When the logger is closed, the telemetry of a connection whose timer    *)
(* was stopped is lost only where a handler is queued and no worker was    *)
(* left to run it.                                                         *)
(***************************************************************************)
THEOREM TelemetryLoss == Spec => []TelemetryLostOnlyInQueue
<1>1. IInv /\ LoggerOutlivesThreads => TelemetryLostOnlyInQueue
  <2> SUFFICES ASSUME TypeOK, IInv, LoggerOutlivesThreads, log # "open",
                      NEW c \in shut, NEW d \in Directions
               PROVE  handler[c][d] \in {"none", "ready"}
    BY DEF TelemetryLostOnlyInQueue, IInv
  <2>1. c \in Clients /\ handler[c][d] \in HandlerStates
    BY HandlerTypes
  <2>2. handler[c][d] \notin Running
    <3>1. <<c, d>> \in Clients \X Directions /\ <<c, d>>[1] = c /\ <<c, d>>[2] = d
      BY <2>1
    <3>2. Busy = {}
      BY DEF LoggerOutlivesThreads
    <3>3. handler[c][d] \in Running => <<c, d>> \in Busy
      BY <3>1 DEF Busy
    <3> QED
      BY <3>2, <3>3
  <2>3. handler[c][d] # "armed"
    BY <2>1 DEF IInv, Connections
  <2> QED
    BY <2>1, <2>2, <2>3 DEF HandlerStates, Running
<1> QED
  BY <1>1, InductiveInvariant, LoggerIsLast, PTL

-----------------------------------------------------------------------------
(***************************************************************************)
(* The blacklist.                                                          *)
(***************************************************************************)
(* Words are the sequences of letters that are not too long. *)
LEMMA WordIsSeq ==
  \A word : word \in Words <=> word \in Seq(Letters) /\ Len(word) <= MaxLength
<1>1. MaxLength \in Nat
  BY AdmissionAssumption
<1>2. ASSUME NEW word \in Words PROVE word \in Seq(Letters) /\ Len(word) <= MaxLength
  <2>1. PICK m \in 0 .. MaxLength : word \in [1 .. m -> Letters]
    BY DEF Words, BoundedSeq, SeqOf
  <2> QED
    BY <1>1, <2>1
<1>3. ASSUME NEW word \in Seq(Letters), Len(word) <= MaxLength PROVE word \in Words
  <2>1. Len(word) \in 0 .. MaxLength /\ word \in [1 .. Len(word) -> Letters]
    BY <1>1, <1>3, LenProperties
  <2> QED
    BY <2>1 DEF Words, BoundedSeq, SeqOf
<1> QED
  BY <1>2, <1>3

(* line stands in host from i on. *)
StandsAt(line, host, i) ==
  /\ i \in 1 .. Len(host) + 1 /\ i + Len(line) <= Len(host) + 1
  /\ \A j \in 1 .. Len(line) : host[i + j - 1] = line[j]

(* What find compares is a piece of the host. *)
LEMMA FindsWhereItStands ==
  ASSUME NEW host \in Seq(Letters), NEW line \in Seq(Letters)
  PROVE  Finds(host, line) <=> \E i \in Nat : StandsAt(line, host, i)
<1>1. Len(host) \in Nat /\ Len(line) \in Nat
  BY LenProperties
<1>2. ASSUME NEW i \in 1 .. Len(host) + 1, i + Len(line) <= Len(host) + 1
      PROVE  SubSeq(host, i, i + Len(line) - 1) = line
               <=> \A j \in 1 .. Len(line) : host[i + j - 1] = line[j]
  <2> DEFINE last == i + Len(line) - 1
             piece == SubSeq(host, i, last)
  <2>1. i \in Int /\ last \in Int /\ last - i + 1 = Len(line) /\ (i <= last <=> Len(line) # 0)
    BY <1>1
  <2>2. \A k \in i .. last : k \in 1 .. Len(host)
    BY <1>1, <1>2
  <2>3. \A k \in i .. last : host[k] \in Letters
    BY <2>2
  <2> HIDE DEF last
  <2>4. /\ piece \in Seq(Letters) /\ Len(piece) = IF i <= last THEN last - i + 1 ELSE 0
        /\ \A j \in 1 .. last - i + 1 : piece[j] = host[i + j - 1]
    BY <2>1, <2>3, SubSeqProperties
  <2> HIDE DEF piece
  <2>5. Len(piece) = Len(line) /\ \A j \in 1 .. Len(line) : piece[j] = host[i + j - 1]
    BY <1>1, <2>1, <2>4
  <2>6. piece = line <=> \A j \in 1 .. Len(line) : piece[j] = line[j]
    BY <2>4, <2>5, SeqEqual
  <2>7. piece = line <=> \A j \in 1 .. Len(line) : host[i + j - 1] = line[j]
    BY <2>5, <2>6
  <2> QED
    BY <2>7 DEF piece, last
<1>3. \A i \in 1 .. Len(host) + 1 : i \in Nat
  BY <1>1
<1> QED
  BY <1>2, <1>3 DEF Finds, StandsAt

(* Where a line stands, the host is what is before it, the line and what is behind it. *)
LEMMA WhatIsAround ==
  ASSUME NEW host \in Seq(Letters), NEW line \in Seq(Letters), NEW i \in Nat,
         StandsAt(line, host, i)
  PROVE  \E p, q \in Seq(Letters) : Len(p) + Len(q) <= Len(host) /\ p \o line \o q = host
<1>1. PICK n \in Nat, m \in Nat : n = Len(host) /\ m = Len(line)
  BY LenProperties
<1>2. /\ i \in 1 .. n + 1 /\ i + m <= n + 1
      /\ \A j \in 1 .. m : host[i + j - 1] = line[j]
      /\ \A k \in 1 .. n : host[k] \in Letters
  BY <1>1 DEF StandsAt
<1> DEFINE p == SubSeq(host, 1, i - 1)
           q == SubSeq(host, i + m, n)
<1>3. p \in Seq(Letters) /\ Len(p) = i - 1 /\ \A k \in 1 .. i - 1 : p[k] = host[k]
  <2>1. 1 \in Int /\ i - 1 \in Int /\ \A k \in 1 .. i - 1 : host[k] \in Letters
    BY <1>1, <1>2
  <2>2. /\ p \in Seq(Letters) /\ Len(p) = IF 1 <= i - 1 THEN i - 1 - 1 + 1 ELSE 0
        /\ \A k \in 1 .. i - 1 - 1 + 1 : p[k] = host[1 + k - 1]
    BY <2>1, SubSeqProperties
  <2> HIDE DEF p
  <2>3. i - 1 - 1 + 1 = i - 1 /\ \A k \in 1 .. i - 1 : 1 + k - 1 = k
    BY <1>2
  <2> QED
    BY <1>2, <2>2, <2>3
<1>4. /\ q \in Seq(Letters) /\ Len(q) = n + 1 - (i + m)
      /\ \A k \in 1 .. n + 1 - (i + m) : q[k] = host[i + m + k - 1]
  <2> DEFINE from == i + m
  <2>1. from \in Int /\ from <= n + 1 /\ n \in Int /\ \A k \in from .. n : host[k] \in Letters
    BY <1>1, <1>2
  <2> HIDE DEF from
  <2> DEFINE end == SubSeq(host, from, n)
  <2>2. /\ end \in Seq(Letters) /\ Len(end) = IF from <= n THEN n - from + 1 ELSE 0
        /\ \A k \in 1 .. n - from + 1 : end[k] = host[from + k - 1]
    BY <2>1, SubSeqProperties
  <2>3. q = end
    BY DEF from
  <2> HIDE DEF end, q
  <2>4. n - from + 1 = n + 1 - from /\ (~(from <= n) => n + 1 - from = 0)
    BY <1>1, <2>1
  <2>5. Len(end) = n + 1 - from
    BY <2>2, <2>4
  <2> QED
    BY <2>2, <2>3, <2>4, <2>5 DEF from
<1> HIDE DEF p, q
<1> DEFINE front == p \o line
           whole == front \o q
<1>5. /\ front \in Seq(Letters) /\ Len(front) = Len(p) + Len(line)
      /\ \A k \in 1 .. Len(p) + Len(line) :
           front[k] = IF k <= Len(p) THEN p[k] ELSE line[k - Len(p)]
  <2>1. p \in Seq(Letters)
    BY <1>3
  <2> QED
    BY <2>1, ConcatProperties
<1> HIDE DEF front
<1>6. /\ whole \in Seq(Letters) /\ Len(whole) = Len(front) + Len(q)
      /\ \A k \in 1 .. Len(front) + Len(q) :
           whole[k] = IF k <= Len(front) THEN front[k] ELSE q[k - Len(front)]
  <2>1. front \in Seq(Letters) /\ q \in Seq(Letters)
    BY <1>4, <1>5
  <2> QED
    BY <2>1, ConcatProperties
<1> HIDE DEF whole
<1>7. Len(front) = i - 1 + m /\ Len(whole) = n
  BY <1>1, <1>2, <1>3, <1>4, <1>5, <1>6
<1>8. ASSUME NEW k \in 1 .. n PROVE whole[k] = host[k]
  <2>1. CASE k <= i - 1
    <3>1. k \in 1 .. i - 1 /\ k \in 1 .. i - 1 + m /\ k <= i - 1 + m
      BY <1>2, <2>1
    <3>2. whole[k] = front[k]
      BY <1>6, <1>7, <3>1
    <3>3. front[k] = p[k]
      BY <1>1, <1>3, <1>5, <2>1, <3>1
    <3>4. p[k] = host[k]
      BY <1>3, <3>1
    <3> QED
      BY <3>2, <3>3, <3>4
  <2>2. CASE i - 1 < k /\ k <= i - 1 + m
    <3>1. k \in 1 .. i - 1 + m /\ ~(k <= i - 1) /\ k - (i - 1) \in 1 .. m
      BY <1>2, <2>2
    <3>2. whole[k] = front[k]
      BY <1>6, <1>7, <2>2, <3>1
    <3>3. front[k] = line[k - (i - 1)]
      BY <1>1, <1>3, <1>5, <3>1
    <3>4. host[i + (k - (i - 1)) - 1] = line[k - (i - 1)]
      BY <1>2, <3>1
    <3>5. i + (k - (i - 1)) - 1 = k
      BY <1>2, <3>1
    <3> QED
      BY <3>2, <3>3, <3>4, <3>5
  <2>3. CASE i - 1 + m < k
    <3>1. ~(k <= i - 1 + m) /\ k - (i - 1 + m) \in 1 .. n + 1 - (i + m)
          /\ i + m + (k - (i - 1 + m)) - 1 = k
      BY <1>2, <2>3
    <3>2. whole[k] = q[k - (i - 1 + m)]
      BY <1>6, <1>7, <3>1
    <3>3. q[k - (i - 1 + m)] = host[i + m + (k - (i - 1 + m)) - 1]
      BY <1>4, <3>1
    <3> QED
      BY <3>1, <3>2, <3>3
  <2> QED
    BY <1>2, <2>1, <2>2, <2>3
<1>9. whole = host
  BY <1>1, <1>6, <1>7, <1>8, SeqEqual
<1>10. Len(p) + Len(q) <= Len(host)
  BY <1>1, <1>2, <1>3, <1>4
<1> QED
  BY <1>3, <1>4, <1>9, <1>10 DEF whole, front

(* What is between two pieces of a host stands there. *)
LEMMA WhatIsBetween ==
  ASSUME NEW p \in Seq(Letters), NEW line \in Seq(Letters), NEW q \in Seq(Letters)
  PROVE  StandsAt(line, p \o line \o q, Len(p) + 1)
<1> DEFINE front == p \o line
           whole == front \o q
<1>1. PICK m \in Nat, n \in Nat, o \in Nat : m = Len(p) /\ n = Len(line) /\ o = Len(q)
  BY LenProperties
<1>2. /\ front \in Seq(Letters) /\ Len(front) = Len(p) + Len(line)
      /\ \A k \in 1 .. Len(p) + Len(line) :
           front[k] = IF k <= Len(p) THEN p[k] ELSE line[k - Len(p)]
  BY ConcatProperties
<1> HIDE DEF front
<1>3. /\ whole \in Seq(Letters) /\ Len(whole) = Len(front) + Len(q)
      /\ \A k \in 1 .. Len(front) + Len(q) :
           whole[k] = IF k <= Len(front) THEN front[k] ELSE q[k - Len(front)]
  <2>1. front \in Seq(Letters)
    BY <1>2
  <2> QED
    BY <2>1, ConcatProperties
<1> HIDE DEF whole
<1>4. Len(front) = m + n /\ Len(whole) = m + n + o
  BY <1>1, <1>2, <1>3
<1>5. m + 1 \in 1 .. m + n + o + 1 /\ m + 1 + n <= m + n + o + 1
  BY <1>1
<1>6. ASSUME NEW j \in 1 .. n PROVE whole[m + 1 + j - 1] = line[j]
  <2>1. /\ m + 1 + j - 1 = m + j /\ m + j \in 1 .. m + n /\ m + j \in 1 .. m + n + o
        /\ m + j <= m + n /\ ~(m + j <= m) /\ (m + j) - m = j
    BY <1>1
  <2>2. whole[m + j] = front[m + j]
    BY <1>1, <1>3, <1>4, <2>1
  <2>3. front[m + j] = line[j]
    BY <1>1, <1>2, <2>1
  <2> QED
    BY <2>1, <2>2, <2>3
<1>7. StandsAt(line, whole, m + 1)
  BY <1>1, <1>4, <1>5, <1>6 DEF StandsAt
<1> QED
  BY <1>1, <1>7 DEF whole, front

(* find, and what it should find. *)
LEMMA FindsExactlyParts ==
  ASSUME NEW host \in Words, NEW line \in Words, line # <<>>
  PROVE  Finds(host, line) <=> IsPartOf(line, host)
<1>1. /\ host \in Seq(Letters) /\ Len(host) <= MaxLength
      /\ line \in Seq(Letters)
  BY WordIsSeq
<1>2. MaxLength \in Nat /\ Len(host) \in Nat
  BY <1>1, AdmissionAssumption, LenProperties
<1>3. ASSUME Finds(host, line) PROVE IsPartOf(line, host)
  <2>1. PICK i \in Nat : StandsAt(line, host, i)
    BY <1>1, <1>3, FindsWhereItStands
  <2>2. PICK p \in Seq(Letters), q \in Seq(Letters) :
          Len(p) + Len(q) <= Len(host) /\ p \o line \o q = host
    BY <1>1, <2>1, WhatIsAround
  <2>3. p \in Words /\ q \in Words
    <3>1. Len(p) \in Nat /\ Len(q) \in Nat
      BY LenProperties
    <3>2. Len(p) <= MaxLength /\ Len(q) <= MaxLength
      BY <1>1, <1>2, <2>2, <3>1
    <3> QED
      BY <3>2, WordIsSeq
  <2> QED
    BY <2>2, <2>3 DEF IsPartOf
<1>4. ASSUME IsPartOf(line, host) PROVE Finds(host, line)
  <2>1. PICK p \in Words, q \in Words : p \o line \o q = host
    BY <1>4 DEF IsPartOf
  <2>2. p \in Seq(Letters) /\ q \in Seq(Letters)
    BY WordIsSeq
  <2>3. StandsAt(line, host, Len(p) + 1) /\ Len(p) + 1 \in Nat
    <3>1. line \in Seq(Letters)
      BY <1>1
    <3>2. StandsAt(line, p \o line \o q, Len(p) + 1)
      BY <2>2, <3>1, WhatIsBetween
    <3>3. Len(p) \in Nat
      BY <2>2, LenProperties
    <3> QED
      BY <2>1, <3>2, <3>3
  <2> QED
    BY <1>1, <2>3, FindsWhereItStands
<1> QED
  BY <1>3, <1>4

LEMMA Refusals ==
  ASSUME NEW lines \in BoundedSeq(Words, MaxLines)
  PROVE  ListedHostsAreRefused(lines)
<1> SUFFICES ASSUME NEW h \in Headers, h.standard, RequestLine(h), h.version # "2.0"
             PROVE  Status(h, Entries(lines)) = 403
                      <=> \E i \in DOMAIN lines : IsPartOf(lines[i], h.host)
  BY DEF ListedHostsAreRefused
<1>1. h.host \in Words /\ h.version \in {"1.0", "1.1"} /\ h.method = "CONNECT"
  BY DEF Headers, RequestLine
<1>2. \A i \in DOMAIN lines : lines[i] \in Words
  <2>1. PICK m \in 0 .. MaxLines : lines \in [1 .. m -> Words]
    BY DEF BoundedSeq, SeqOf
  <2> QED
    BY <2>1
<1>3. Status(h, Entries(lines)) = 403 <=> is_blocked(Entries(lines), h.host)
  BY <1>1 DEF Status
<1>4. is_blocked(Entries(lines), h.host)
        <=> \E i \in DOMAIN lines : lines[i] # <<>> /\ Finds(h.host, lines[i])
  BY DEF is_blocked, Entries, Range
<1>5. \A i \in DOMAIN lines :
        lines[i] # <<>> /\ Finds(h.host, lines[i]) <=> IsPartOf(lines[i], h.host)
  <2> SUFFICES ASSUME NEW i \in DOMAIN lines
               PROVE  lines[i] # <<>> /\ Finds(h.host, lines[i]) <=> IsPartOf(lines[i], h.host)
    OBVIOUS
  <2>1. CASE lines[i] = <<>>
    BY <2>1 DEF IsPartOf
  <2>2. CASE lines[i] # <<>>
    BY <1>1, <1>2, <2>2, FindsExactlyParts
  <2> QED
    BY <2>1, <2>2
<1> QED
  BY <1>3, <1>4, <1>5

(***************************************************************************)
(* Whatever lines the file has, and however long they and the hosts are:   *)
(* a well-formed CONNECT request is refused exactly if a line that is not  *)
(* empty is a part of its host (blacklist.cpp:16-24, main.cpp:46-50).      *)
(***************************************************************************)
THEOREM RefusalsCorrect == Spec => []RefusedExactlyWhenListed
<1>1. RefusedExactlyWhenListed
  BY Refusals DEF RefusedExactlyWhenListed
<1> QED
  BY <1>1, PTL
================================================================================
