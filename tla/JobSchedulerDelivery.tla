-------------------------- MODULE JobSchedulerDelivery --------------------------
(***************************************************************************)
(* An inductive invariant of JobScheduler where nothing is late or torn:   *)
(* the names come in time, reads and sends are whole and the buffer has    *)
(* room for what is on its way.  Then the loop is as good as one that is   *)
(* given whole lines: none is lost, and the queues and counters of the     *)
(* LoadBalancer fit what was submitted and finished.                       *)
(***************************************************************************)
EXTENDS JobSchedulerInvariant

(* A read, which takes all there is, leaves a NUL in the buffer. *)
RoomLeft == Len(stream) < BufferSize

(* There is, for few files: a line "name,size" is 4 cells, an "Fname" is 3. *)
FewFiles == 2 * NumServers < BufferSize /\ 7 * MaxFiles < BufferSize

Unread ==
  /\ announced \/ pc = "names"
  /\ pc = "names" => stream \in {<<>>, NamesMessage}
  /\ pc # "names" => Len(stream) <= 4 * submitted + 3 * Cardinality(finished)

(* The names are read first, and nothing with them. *)
NamesFirst ==
  /\ pc = "names" => /\ stream \in {<<>>, NamesMessage}
                     /\ sent = <<>> /\ handled = <<>> /\ waiting = <<>>
  /\ announced \/ pc = "names"
  /\ ServersKnown

(* What the parser will make of the stream. *)
Piped == Parsed(stream, End)

(* No line is lost or torn, and there is nothing to throw or to crash for. *)
Delivered ==
  /\ pc # "names" => /\ sent = handled \o lines \o Piped.pieces
                     /\ Piped.rest = <<>>
  /\ pc # "batch" => lines = <<>> /\ outbox = <<>>
  /\ pc = "read" => Len(buffer) < BufferSize /\ \A i \in DOMAIN buffer : buffer[i] # End
  /\ pc # "stopped" /\ ~spoiled

NoTwice(seq) == \A i, j \in DOMAIN seq : seq[i] = seq[j] => i = j

(* What was submitted and what is finished was written, once. *)
Written ==
  /\ NoTwice(sent)
  /\ \A f \in Files : RequestLine(f) \in Range(sent) <=> f <= submitted
  /\ \A f \in Files : FinishedLine(f) \in Range(sent) <=> f \in finished

Name(f) == <<File(f)>>

(* Files given to a server, and files whose request was handled. *)
Given == {f \in Files : Name(f) \in DOMAIN processing}

Requested == {f \in Files : RequestLine(f) \in Range(handled)}

(* Once its request was handled, a name waits or was given to a server. *)
Assigned ==
  /\ NoTwice(waiting)
  /\ \A f \in Files : Name(f) \in Range(waiting) <=> f \in Requested \ Given
  /\ \A i \in DOMAIN waiting : \E f \in Requested : waiting[i] = Name(f)
  /\ Given \subseteq Requested

(* What was given to a server is in the outbox, or the server was told. *)
Told ==
  /\ \A i \in DOMAIN outbox : \E f \in Given :
       outbox[i] = <<servers[processing[Name(f)]], Name(f)>>
  /\ executing \cup finished \subseteq Given
  /\ \A f \in Given : \/ f \in executing \cup finished
                      \/ \E i \in DOMAIN outbox : outbox[i][2] = Name(f)

OnServer(s) == {f \in Given \ Completed : processing[Name(f)] = s}

(* load counts what a server has; a server without any is queued, once. *)
Loads ==
  \A s \in DOMAIN servers :
    /\ load[s] = Cardinality(OnServer(s))
    /\ queued[s] = IF load[s] = 0 THEN 1 ELSE 0

(* Enough calls of handle_next are left, those for the lines to come apart. *)
EnoughNexts ==
  /\ pc = "read" => Idle = {} \/ waiting = <<>>
  /\ pc = "batch" => \/ nexts - Len(lines) >= Cardinality(Idle)
                     \/ nexts - Len(lines) >= Len(waiting)

(* What the lines, the counters and the queues keep together. *)
DeliveryInv ==
  NamesFirst /\ Delivered /\ Written /\ Assigned /\ Told /\ Loads /\ EnoughNexts
=============================================================================
