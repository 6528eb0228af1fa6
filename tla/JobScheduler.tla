------------------------------ MODULE JobScheduler ------------------------------
(***************************************************************************)
(* The receive loop of load_balancer/jobScheduler.cpp at the level of the  *)
(* byte stream: main, parse_with_delimiter, parse_server_names,            *)
(* parse_and_send_request and handle_timeout, with the socket, the buffer  *)
(* of 4096 bytes and its terminating NUL.                                  *)
(*                                                                         *)
(* A cell is a run of bytes that the parser treats alike: the name of a    *)
(* file or server, a comma, a size, the mark "F" of a completion, the end  *)
(* of a line.  Reads cut the stream anywhere.  A cut inside a name or a    *)
(* size leaves two pieces of which nothing is known: the names of files    *)
(* are decimal numbers, so a piece of one may be the name of another, or a *)
(* size.  A read overwrites the buffer cell by cell, so that what is left  *)
(* of an older read lines up with the new one.                             *)
(*                                                                         *)
(* The queues of the LoadBalancer are those of module LoadBalancer; here   *)
(* handle_next may take any waiting request and any idle server, and       *)
(* handle_timeout may come at any time.  The emulator server_client is the *)
(* environment.                                                            *)
(***************************************************************************)
EXTENDS Integers, Sequences, FiniteSets, SequencesExt

CONSTANTS
  NumServers,    (* servers the emulator names in its first message           *)
  MaxFiles,      (* bound: files the client submits                           *)
  BufferSize,    (* cells the buffer holds                                    *)
  NamesOnTime,   (* the names, and only they, are what the first read returns *)
  WholeReads,    (* a read returns all there is, up to BufferSize             *)
  WholeSends     (* a send is never cut short by its timeout                  *)

ASSUME StreamAssumption ==
  /\ NumServers \in Nat \ {0}
  /\ MaxFiles \in Nat
  /\ BufferSize \in Nat \ {0}
  /\ {NamesOnTime, WholeReads, WholeSends} \subseteq BOOLEAN

Files == 1 .. MaxFiles

-----------------------------------------------------------------------------
(***************************************************************************)
(* Cells, and the lines they form.                                         *)
(***************************************************************************)
Cell(type, n) == [type |-> type, of |-> n]

File(f) == Cell("file", f)
ServerName(s) == Cell("server", s)
Comma == Cell("comma", 0)
Size == Cell("size", 0)
Mark == Cell("F", 0)
End == Cell("end", 0)

(* Bytes of which nothing is known: a piece of a name or of a size, or     *)
(* what is in the memory behind the buffer.                                *)
Junk == Cell("junk", 0)

Cells == {Comma, Size, Mark, End, Junk}
           \cup {File(f) : f \in Files} \cup {ServerName(s) : s \in 1 .. NumServers}

(* "name,size", "Fname" and the first message "name,name,..." *)
RequestLine(f) == <<File(f), Comma, Size>>
FinishedLine(f) == <<Mark, File(f)>>
Lines == {RequestLine(f) : f \in Files} \cup {FinishedLine(f) : f \in Files}

NamesMessage ==
  [i \in 1 .. 2 * NumServers |-> IF i % 2 = 1 THEN ServerName((i + 1) \div 2) ELSE Comma]

VARIABLES
  (* the emulator and the socket *)
  stream,      (* cells on their way to the scheduler                          *)
  announced,   (* the names were sent                                          *)
  submitted,   (* number of files the client has submitted                     *)
  executing,   (* files a server of the emulator executes                      *)
  finished,    (* files a server has finished                                  *)
  (* the loop *)
  pc,
  buffer,      (* its bytes up to the first NUL                                *)
  lines,       (* request_pairs still to be handled                            *)
  nexts,       (* handle_next calls still to be made                           *)
  outbox,      (* send_to_servers                                              *)
  (* the LoadBalancer *)
  servers,     (* the names it was constructed with                            *)
  queued,      (* how often each server is in a priority queue                 *)
  load,        (* requests - requests_completed of each server                 *)
  waiting,     (* names in the deques                                          *)
  processing,  (* the server each name was given to                            *)
  (* history *)
  sent,        (* lines the emulator wrote                                     *)
  handled,     (* lines handle_request and handle_completion were called with  *)
  spoiled      (* an exception was caught, or a text ran past the buffer       *)

emulator == <<announced, submitted, executing, finished, sent>>
loop == <<pc, buffer, lines, nexts, outbox>>
balancer == <<servers, queued, load, waiting, processing>>
vars == <<stream, emulator, loop, balancer, handled, spoiled>>

Init ==
  /\ stream = <<>> /\ announced = FALSE
  /\ submitted = 0 /\ executing = {} /\ finished = {}
  /\ pc = "names"
  /\ buffer = <<>> /\ lines = <<>> /\ nexts = 0 /\ outbox = <<>>
  /\ servers = <<>> /\ queued = <<>> /\ load = <<>>
  /\ waiting = <<>> /\ processing = [name \in {} |-> 0]
  /\ sent = <<>> /\ handled = <<>> /\ spoiled = FALSE

-----------------------------------------------------------------------------
(***************************************************************************)
(* The emulator.                                                           *)
(***************************************************************************)
Announce ==
  /\ ~announced
  /\ announced' = TRUE
  /\ stream' = stream \o NamesMessage
  /\ UNCHANGED <<submitted, executing, finished, sent, loop, balancer, handled, spoiled>>

WriteLine(line) ==
  /\ stream' = stream \o line \o <<End>>
  /\ sent' = Append(sent, line)
  /\ UNCHANGED <<announced, loop, balancer, handled, spoiled>>

Submit ==
  /\ announced /\ submitted < MaxFiles
  /\ NamesOnTime => pc # "names"
  /\ submitted' = submitted + 1
  /\ WriteLine(RequestLine(submitted + 1))
  /\ UNCHANGED <<executing, finished>>

Finish(f) ==
  /\ f \in executing
  /\ executing' = executing \ {f}
  /\ finished' = finished \cup {f}
  /\ WriteLine(FinishedLine(f))
  /\ UNCHANGED submitted

-----------------------------------------------------------------------------
(***************************************************************************)
(* What the search for delimiters has found in the first i cells of a      *)
(* text: the pieces before a delimiter, and the cells since the last one.  *)
(***************************************************************************)
Parsed(text, delimiter) ==
  LET found[i \in 0 .. Len(text)] ==
        IF i = 0
        THEN [pieces |-> <<>>, rest |-> <<>>]
        ELSE LET before == found[i - 1]
             IN IF text[i] = delimiter
                THEN [pieces |-> Append(before.pieces, before.rest), rest |-> <<>>]
                ELSE [pieces |-> before.pieces, rest |-> Append(before.rest, text[i])]
  IN found[Len(text)]

(* Faulty variant: what follows the last delimiter is a piece too. *)
parse_keeping_rest(text, delimiter) ==
  Append(Parsed(text, delimiter).pieces, Parsed(text, delimiter).rest)

(* What follows the last delimiter is dropped. *)
parse_with_delimiter(text, delimiter) == Parsed(text, delimiter).pieces

(***************************************************************************)
(* A read takes the first k cells, or k - 1 and a piece of the next, of    *)
(* which it leaves the other piece, and puts them before the old ones.     *)
(***************************************************************************)
Divisible(cell) == cell \notin {Comma, Mark, End}

ReadBeforeOld(k, old) ==
  /\ k \in 1 .. Len(stream) /\ k <= BufferSize
  /\ WholeReads => k = Len(stream) \/ k = BufferSize
  /\ LET rest == SubSeq(stream, k + 1, Len(stream))
     IN \/ /\ buffer' = SubSeq(stream, 1, k) \o old
           /\ stream' = rest
        \/ /\ Divisible(stream[k])
           /\ WholeReads => k = BufferSize
           /\ buffer' = Append(SubSeq(stream, 1, k - 1), Junk) \o old
           /\ stream' = <<Junk>> \o rest

(* Faulty variant: nothing in the buffer is overwritten. *)
ReadBefore(k) == ReadBeforeOld(k, buffer)

(* The first k cells of the buffer are overwritten. *)
ReadInto(k) == ReadBeforeOld(k, SubSeq(buffer, k + 1, Len(buffer)))

(* std::string(buffer): without a NUL in a full buffer it reads on. *)
Texts(bytes) ==
  IF Len(bytes) < BufferSize THEN {bytes} ELSE {bytes, bytes \o <<Junk, End>>}

(***************************************************************************)
(* The first read, and the LoadBalancer made of what it returned: nothing, *)
(* if the names did not come within the receive timeout.                   *)
(***************************************************************************)
ReadNames ==
  /\ pc = "names"
  /\ NamesOnTime => stream = NamesMessage /\ stream' = <<>>
  /\ \/ \E k \in 1 .. BufferSize : ReadInto(k)
     \/ stream = <<>> /\ UNCHANGED <<stream, buffer>>
  /\ \E text \in Texts(buffer') : servers' = parse_with_delimiter(text, Comma)
  /\ queued' = [s \in DOMAIN servers' |-> 1]
  /\ load' = [s \in DOMAIN servers' |-> 0]
  /\ pc' = "read"
  /\ UNCHANGED <<emulator, lines, nexts, outbox, waiting, processing, handled, spoiled>>

(* Faulty variant: completions do not count. *)
RequestCount(batch) == Len(SelectSeq(batch, LAMBDA line : Mark \notin Range(line)))

EventCount(batch) == Len(batch)

ReadLines ==
  /\ pc = "read"
  /\ \E k \in 1 .. BufferSize : ReadInto(k)
  /\ \E text \in Texts(buffer') :
       /\ lines' = parse_with_delimiter(text, End)
       /\ spoiled' = (spoiled \/ text # buffer')
  /\ nexts' = EventCount(lines')
  /\ pc' = "batch"
  /\ UNCHANGED <<emulator, outbox, balancer, handled>>

(* A null pointer was dereferenced. *)
Crash == pc' = "stopped" /\ UNCHANGED <<lines, nexts, outbox, buffer, balancer, spoiled>>

(* catch: the rest of the batch, its handle_next calls, its send and the *)
(* memset of the buffer are skipped.                                     *)
Throw ==
  /\ pc' = "read" /\ spoiled' = TRUE
  /\ lines' = <<>> /\ nexts' = 0 /\ outbox' = <<>>
  /\ UNCHANGED <<buffer, balancer>>

Continue == lines' = Tail(lines) /\ UNCHANGED <<pc, nexts, outbox, buffer, spoiled>>

(* What a name is read as: if it is made of pieces or of several numbers,  *)
(* it may be the name of any file.                                         *)
Garbled(name) ==
  /\ name # <<>> /\ \A i \in DOMAIN name : name[i].type \in {"file", "size", "junk"}
  /\ \A f \in Files : name # <<File(f)>>

Readings(name) == {name} \cup {<<File(f)>> : f \in {g \in Files : Garbled(name)}}

(***************************************************************************)
(* handle_request: parsed[0] is the name, parsed[1] goes to std::stoi,     *)
(* which takes a size, may take another number, a name or a piece, and     *)
(* throws for anything else.  Without a comma parsed[1] does not exist.    *)
(***************************************************************************)
handle_request(line) ==
  LET parsed == parse_with_delimiter(Append(line, Comma), Comma)
      accept == /\ Continue
                /\ \E name \in Readings(parsed[1]) : waiting' = Append(waiting, name)
                /\ UNCHANGED <<servers, queued, load, processing>>
  IN IF Len(parsed) = 1
     THEN accept \/ Throw \/ Crash
     ELSE \/ parsed[2] # <<>> /\ accept
          \/ parsed[2] # <<Size>> /\ Throw

(* An unknown name makes a null server, which record_request is called on. *)
handle_completion(name) ==
  IF name \notin DOMAIN processing
  THEN Crash
  ELSE /\ LET s == processing[name]
          IN /\ load' = [load EXCEPT ![s] = @ - 1]
             /\ queued' = IF load[s] = 1 THEN [queued EXCEPT ![s] = @ + 1] ELSE queued
       /\ Continue
       /\ UNCHANGED <<servers, waiting, processing>>

(* request.find("F") *)
IsCompletion(line) == Mark \in Range(line)

(* std::regex_replace(request, std::regex("F"), "") *)
CompletedName(line) ==
  LET name[i \in 0 .. Len(line)] ==
        IF i = 0 THEN <<>>
        ELSE IF line[i] = Mark THEN name[i - 1]
        ELSE Append(name[i - 1], line[i])
  IN name[Len(line)]

HandleLine ==
  /\ pc = "batch" /\ lines # <<>>
  /\ LET line == Head(lines)
     IN \/ /\ IsCompletion(line)
           /\ \E name \in Readings(CompletedName(line)) :
                /\ handle_completion(name)
                /\ handled' = Append(handled, <<Mark>> \o name)
        \/ /\ ~IsCompletion(line)
           /\ handle_request(line)
           /\ handled' = Append(handled, line)
  /\ UNCHANGED <<stream, emulator>>

-----------------------------------------------------------------------------
(* server->process_request, and the entry of the map processing *)
Give(i, s) ==
  LET name == waiting[i]
  IN /\ waiting' = RemoveAt(waiting, i)
     /\ load' = [load EXCEPT ![s] = @ + 1]
     /\ processing' = [n \in DOMAIN processing \cup {name} |->
                         IF n = name THEN s ELSE processing[n]]

Idle == {s \in DOMAIN servers : queued[s] > 0}

HandleNext ==
  /\ pc = "batch" /\ lines = <<>> /\ nexts > 0
  /\ nexts' = nexts - 1
  /\ IF Idle = {} \/ waiting = <<>>
     THEN UNCHANGED <<queued, load, waiting, processing, outbox>>
     ELSE \E i \in DOMAIN waiting, s \in Idle :
            /\ Give(i, s)
            /\ queued' = [queued EXCEPT ![s] = @ - 1]
            /\ outbox' = Append(outbox, <<servers[s], waiting[i]>>)
  /\ UNCHANGED <<stream, emulator, pc, buffer, lines, servers, handled, spoiled>>

(* The emulator executes what it is told, if it knows the server and file; *)
(* bound: each file once.                                                  *)
SendAll(dispatches) ==
  /\ \E k \in 0 .. Len(dispatches) :
       /\ WholeSends => k = Len(dispatches)
       /\ executing' = executing \cup
            {f \in 1 .. submitted \ finished :
               \E i \in 1 .. k, s \in 1 .. NumServers :
                 dispatches[i] = <<<<ServerName(s)>>, <<File(f)>>>>}
  /\ UNCHANGED <<stream, announced, submitted, finished, sent, handled, spoiled>>

(* Faulty variant: the buffer is not cleared after a batch. *)
FinishBatchKeepingBuffer ==
  /\ pc = "batch" /\ lines = <<>> /\ nexts = 0
  /\ SendAll(outbox)
  /\ outbox' = <<>>
  /\ pc' = "read"
  /\ UNCHANGED <<buffer, lines, nexts, balancer>>

(* send, memset *)
FinishBatch ==
  /\ pc = "batch" /\ lines = <<>> /\ nexts = 0
  /\ SendAll(outbox)
  /\ outbox' = <<>> /\ buffer' = <<>>
  /\ pc' = "read"
  /\ UNCHANGED <<lines, nexts, balancer>>

(***************************************************************************)
(* handle_timeout gives a request to any server, which stays where it is;  *)
(* with no server at all get_timeout_handler returns *end().               *)
(***************************************************************************)
HandleTimeout ==
  /\ pc = "read" /\ waiting # <<>>
  /\ IF servers = <<>>
     THEN Crash /\ UNCHANGED <<stream, emulator, handled>>
     ELSE \E i \in DOMAIN waiting, s \in DOMAIN servers :
            /\ Give(i, s)
            /\ SendAll(<<<<servers[s], waiting[i]>>>>)
            /\ UNCHANGED <<loop, servers, queued>>

-----------------------------------------------------------------------------
Loop == ReadNames \/ ReadLines \/ HandleLine \/ HandleNext \/ FinishBatch

Emulator == Announce \/ Submit \/ \E f \in Files : Finish(f)

Next == Loop \/ HandleTimeout \/ Emulator

(* The loop runs, the emulator sends the names and finishes files. *)
Fairness == /\ WF_vars(Loop) /\ WF_vars(Announce)
            /\ \A f \in Files : WF_vars(Finish(f))

Spec == Init /\ [][Next]_vars /\ Fairness

-----------------------------------------------------------------------------
(* Every variable has its type. *)
TypeOK ==
  /\ stream \in Seq(Cells)
  /\ announced \in BOOLEAN
  /\ submitted \in 0 .. MaxFiles
  /\ executing \subseteq Files /\ finished \subseteq Files
  /\ pc \in {"names", "read", "batch", "stopped"}
  /\ buffer \in Seq(Cells) /\ Len(buffer) <= BufferSize
  /\ lines \in Seq(Seq(Cells))
  /\ nexts \in Nat
  /\ outbox \in Seq(Seq(Cells) \X Seq(Cells))
  /\ servers \in Seq(Seq(Cells))
  /\ queued \in [DOMAIN servers -> Nat]
  /\ load \in [DOMAIN servers -> Int]
  /\ waiting \in Seq(Seq(Cells))
  /\ \A name \in DOMAIN processing : name \in Seq(Cells) /\ processing[name] \in DOMAIN servers
  /\ sent \in Seq(Lines)
  /\ handled \in Seq(Seq(Cells))
  /\ spoiled \in BOOLEAN

(***************************************************************************)
(* jobScheduler.cpp:472, "Parse available severnames": the scheduler knows *)
(* the servers the emulator named, whenever the names arrive.              *)
(***************************************************************************)
ServersKnown ==
  pc # "names" => servers = [s \in 1 .. NumServers |-> <<ServerName(s)>>]

AtRest == stream = <<>> /\ pc = "read" /\ executing = {}

(***************************************************************************)
(* plot.py:31, "assert(set(map_ts_begin.keys()) ==                         *)
(* set(map_ts_complete.keys()))": once nothing is on its way in the        *)
(* stream, in the loop or on the servers, what was submitted is finished.  *)
(***************************************************************************)
SanityCheck == AtRest => finished = 1 .. submitted

Delivery == INSTANCE LineDelivery

(***************************************************************************)
(* The buffer, which is overwritten, cleared and searched for line ends,   *)
(* and not cleared after the names, delivers every line once and in order. *)
(***************************************************************************)
DeliversLines == Delivery!Spec

Completed == {f \in Files : FinishedLine(f) \in Range(handled)}

Dispatch == INSTANCE JobDispatch WITH
  Servers <- 1 .. NumServers,
  Requests <- Files,
  NoServer <- 0,
  waiting <- {f \in Files : <<File(f)>> \in Range(waiting)},
  running <- [f \in Files |-> IF f \notin Completed /\ <<File(f)>> \in DOMAIN processing
                              THEN processing[<<File(f)>>] ELSE 0],
  finished <- Completed

(***************************************************************************)
(* Stream, buffer and loop keep what the LoadBalancer promises: seen by    *)
(* file, the program as a whole still dispatches like JobDispatch          *)
(* (jobScheduler.cpp:501-529).                                             *)
(***************************************************************************)
ImplementsJobDispatch == Dispatch!SafeSpec

(* When the emulator wrote that a file is finished. *)
Completions(f) == {i \in DOMAIN sent : sent[i] = FinishedLine(f)}

(* When handle_completion was called for a file. *)
Reports(f) ==
  {i \in DOMAIN handled :
     IsCompletion(handled[i]) /\ CompletedName(handled[i]) = <<File(f)>>}

(***************************************************************************)
(* Wherever reads cut the stream, and although what the first read left in *)
(* the buffer is not cleared: a file is reported completed                 *)
(* (jobScheduler.cpp:509-511) no more often than the emulator wrote so.  A *)
(* cut loses lines, makes a request of the rest of a completion, and gives *)
(* a request the name of another file, but never makes a completion.  This *)
(* ends with the first exception, which leaves an old batch in the buffer, *)
(* and with a full one, behind which the text goes on.                     *)
(***************************************************************************)
CompletionsAreReal ==
  ~spoiled => \A f \in Files : Cardinality(Reports(f)) <= Cardinality(Completions(f))

(***************************************************************************)
(* Every file the client submits is finished (jobScheduler.cpp:501-529,    *)
(* plot.py:31), through the stream, the loop and the servers.              *)
(***************************************************************************)
EverySubmittedFileFinishes == \A f \in Files : submitted >= f ~> f \in finished
=============================================================================
