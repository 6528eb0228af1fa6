--------------------------------- MODULE Logger ---------------------------------
(***************************************************************************)
(* The Logger of https_proxy: the level main gives it before any thread    *)
(* exists, the write_* functions with their gates, and the unsynchronised  *)
(* insertion into the ofstream at the end of write.                        *)
(*                                                                         *)
(* An insertion copies the message to the put position of the stream and   *)
(* then moves the position.  Two at once are a data race: the position may *)
(* be moved from the value the thread first saw or from the one it finds.  *)
(***************************************************************************)
EXTENDS Naturals, Sequences, SequencesExt

CONSTANTS
  Threads,
  MaxWrites      (* bound: calls per thread *)

DEBUG == 0
INFO == 1
WARN == 2
ERROR == 3
FATAL == 4
DISABLED == 5

Severities == DEBUG .. FATAL

(* A message is the level of one call and which call of the thread it was. *)
Message(t, i, lvl) == [thread |-> t, call |-> i, level |-> lvl]
Messages == [thread : Threads, call : Nat \ {0}, level : Severities]
Garbage == [thread |-> "none", call |-> 0, level |-> DISABLED]

VARIABLES
  log_level,
  slots,         (* messages in the stream and its buffer                    *)
  position,      (* put position of the stream                               *)
  seen,          (* position at which a thread inserts, 0 outside the insert *)
  calls          (* messages of each thread's calls of write_*               *)

vars == <<log_level, slots, position, seen, calls>>

(* The level argument of main: none leaves the logger disabled. *)
Levels == {DISABLED, DEBUG, INFO, WARN, ERROR}

Init ==
  /\ log_level \in Levels
  /\ slots = <<>>
  /\ position = 1
  /\ seen = [t \in Threads |-> 0]
  /\ calls = [t \in Threads |-> <<>>]

(* write_debug, write_info, ... return at once if log_level is above this. *)
Gate(lvl) == IF lvl <= WARN THEN lvl ELSE 4

At(s, i, m) ==
  [k \in 1 .. (IF Len(s) < i THEN i ELSE Len(s)) |->
     IF k = i THEN m ELSE IF k <= Len(s) THEN s[k] ELSE Garbage]

BeginWrite(t) ==
  /\ seen[t] = 0
  /\ Len(calls[t]) < MaxWrites
  /\ \E lvl \in Severities :
       LET m == Message(t, Len(calls[t]) + 1, lvl)
       IN /\ calls' = [calls EXCEPT ![t] = Append(@, m)]
          /\ IF log_level > Gate(lvl)
             THEN UNCHANGED <<slots, seen>>
             ELSE /\ slots' = At(slots, position, m)
                  /\ seen' = [seen EXCEPT ![t] = position]
  /\ UNCHANGED <<log_level, position>>

EndWrite(t) ==
  /\ seen[t] # 0
  /\ position' \in {seen[t] + 1, position + 1}
  /\ seen' = [seen EXCEPT ![t] = 0]
  /\ UNCHANGED <<log_level, slots, calls>>

Next == \E t \in Threads : BeginWrite(t) \/ EndWrite(t)

Spec == Init /\ [][Next]_vars

-----------------------------------------------------------------------------
(* What the file holds once it is flushed. *)
File == SubSeq(slots, 1, position - 1)

(* SelectSeq, as a recursive function of the prefix so that it can be proved about. *)
Selected(messages, wanted) ==
  LET selected[i \in 0 .. Len(messages)] ==
        IF i = 0 THEN <<>>
        ELSE IF messages[i] \in wanted THEN Append(selected[i - 1], messages[i])
        ELSE selected[i - 1]
  IN selected[Len(messages)]

Of(t) == {m \in Messages : m.thread = t}

Severe == {m \in Messages : m.level >= log_level}

(***************************************************************************)
(* README.md:97, "a general purpose thread-safe basic logging facility":   *)
(* while no call is under way the file holds, for every thread, exactly    *)
(* the messages of at least the chosen severity, intact and in the order   *)
(* of the calls, and nothing else.                                         *)
(***************************************************************************)
MessagesIntact ==
  (\A t \in Threads : seen[t] = 0) =>
    /\ \A t \in Threads : Selected(File, Of(t)) = Selected(calls[t], Severe)
    /\ Garbage \notin Range(File)
=============================================================================
