------------------------- MODULE JobSchedulerInvariant -------------------------
(***************************************************************************)
(* An inductive invariant of JobScheduler: how the lines on their way in   *)
(* the stream begin and end (Clients, Framed), what is written before it   *)
(* is finished (Logged), what the first read finds and may leave in the    *)
(* buffer (Starting, Leftover), and where the completion of a file is      *)
(* (Reported).                                                             *)
(***************************************************************************)
EXTENDS JobScheduler

(* Nothing was dispatched before the names were read. *)
Starting ==
  pc = "names" => /\ buffer = <<>> /\ waiting = <<>> /\ DOMAIN processing = {}
                  /\ executing = {} /\ finished = {}

(* A file is submitted after the names, executed after that, and once. *)
Clients ==
  /\ ~announced => stream = <<>> /\ submitted = 0
  /\ executing \cap finished = {}
  /\ executing # {} => submitted > 0

(* What is finished was written. *)
Logged == \A f \in finished : Completions(f) # {}

(***************************************************************************)
(* Lines are written whole, one after the other.  Reads take cells from    *)
(* the front, so a mark still has all of its line behind it.               *)
(***************************************************************************)
IsFile(cell) == \E f \in Files : cell = File(f)

Framed ==
  /\ submitted > 0 /\ stream # <<>> => stream[Len(stream)] = End
  /\ \A i \in DOMAIN stream :
       /\ stream[i] = Mark =>
            /\ i = 1 \/ stream[i - 1] = End
            /\ i + 2 <= Len(stream) /\ IsFile(stream[i + 1]) /\ stream[i + 2] = End
       /\ \A f \in Files : stream[i] = File(f) =>
            /\ i + 1 <= Len(stream)
            /\ stream[i + 1] # Comma => stream[i + 1] = End /\ f \in finished

(***************************************************************************)
(* Until an exception is caught, only the first read leaves cells in the   *)
(* buffer of the next one, which nothing was dispatched before.            *)
(***************************************************************************)
Unmarked(bytes) == \A i \in DOMAIN bytes : bytes[i] # Mark

Leftover ==
  pc = "read" /\ ~spoiled /\ buffer # <<>> =>
    Unmarked(buffer) /\ waiting = <<>> /\ executing = {} /\ finished = {}

(* A cut leaves no line with a mark but those that were written. *)
Intact ==
  pc = "batch" /\ ~spoiled =>
    \A i \in DOMAIN lines :
      IsCompletion(lines[i]) => \E f \in Files : lines[i] = FinishedLine(f)

(* Where the completion of a file is: in the stream, or among these lines. *)
Coming(f) ==
  {i \in DOMAIN stream : stream[i] = Mark /\ i < Len(stream) /\ stream[i + 1] = File(f)}

Reporting(line, f) == IsCompletion(line) /\ CompletedName(line) = <<File(f)>>

Pending(f) == {i \in DOMAIN lines : pc = "batch" /\ Reporting(lines[i], f)}

AtMostOne(set) == \A i, j \in set : i = j

(* The completion of a finished file is in at most one place, that of another in none. *)
Reported ==
  ~spoiled => \A f \in Files :
    /\ AtMostOne(Reports(f)) /\ AtMostOne(Pending(f)) /\ AtMostOne(Coming(f))
    /\ Reports(f) = {} \/ Pending(f) = {}
    /\ Reports(f) = {} \/ Coming(f) = {}
    /\ Pending(f) = {} \/ Coming(f) = {}
    /\ f \in finished \/ Reports(f) \cup Pending(f) \cup Coming(f) = {}

(* What the emulator, the stream and the loop keep together. *)
IInv ==
  TypeOK /\ Starting /\ Clients /\ Logged /\ Framed /\ Leftover /\ Intact /\ Reported
=============================================================================
