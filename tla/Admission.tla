------------------------------- MODULE Admission -------------------------------
(***************************************************************************)
(* Who may use https_proxy, as operators: the command line and the         *)
(* blacklist that main reads before any thread exists, and the checks of   *)
(* the constructor of Connection, which throws, after an error reply,      *)
(* unless the request is acceptable.                                       *)
(*                                                                         *)
(* A host, and a line of the blacklist, is a sequence of letters.  Of a    *)
(* header only what the regular expressions tell apart is kept.            *)
(***************************************************************************)
EXTENDS Naturals, Sequences, SequencesExt

CONSTANTS
  Letters,
  MaxLength,     (* bound: letters of a host or line *)
  MaxLines       (* bound: lines of the blacklist    *)

ASSUME AdmissionAssumption == MaxLength \in Nat /\ MaxLines \in Nat

Words == BoundedSeq(Letters, MaxLength)

Headers == [
  standard : BOOLEAN,                          (* matches STANDARD_REQUEST      *)
  method : {"CONNECT", "CONNECTION", "GET"},
  host : Words,
  version : {"1.0", "1.1", "2.0"}]

(* A command line: how many arguments, and those that are looked at. *)
Options == [
  argc : 1 .. 6,
  telemetry : {"0", "1", "other"},
  level : {"debug", "info", "warn", "error", "other"},
  found : BOOLEAN]                             (* the blacklist file exists     *)

-----------------------------------------------------------------------------
BadFlag(o) == o.argc >= 3 /\ o.telemetry = "other"
BadLevel(o) == o.argc = 5 /\ o.level = "other"

(* main: the exit code of the first check that fails, or 0. *)
ExitCode(o) ==
  IF o.argc \notin 2 .. 5 THEN 1
  ELSE IF BadFlag(o) \/ BadLevel(o) THEN 2
  ELSE IF o.argc >= 4 /\ ~o.found THEN 3
  ELSE 0

(* Faulty variant: empty lines are entries too. *)
EveryLine(lines) == Range(lines)

(* if (buffer.size() > 0) entries->push_back(buffer): a set, of which *)
(* is_blocked asks only whether some member occurs in a host.         *)
Entries(lines) == Range(lines) \ {<<>>}

(* hostname.find(entry) != npos, which an empty entry always satisfies *)
Finds(host, entry) ==
  \E i \in 1 .. Len(host) + 1 :
    i + Len(entry) <= Len(host) + 1 /\ SubSeq(host, i, i + Len(entry) - 1) = entry

is_blocked(hostnames, host) == \E entry \in hostnames : Finds(host, entry)

(* REQUEST_LINE wants the word CONNECT and a name before the port. *)
RequestLine(h) == h.method = "CONNECT" /\ h.host # <<>>

(* The status of the first check of the constructor that fails, or 0. *)
Status(h, hostnames) ==
  IF ~h.standard THEN 400
  ELSE IF h.method = "GET" THEN 405
  ELSE IF ~RequestLine(h) THEN 400
  ELSE IF h.version \notin {"1.0", "1.1"} THEN 505
  ELSE IF is_blocked(hostnames, h.host) THEN 403
  ELSE 0

-----------------------------------------------------------------------------
IsPartOf(line, host) ==
  line # <<>> /\ \E p, q \in Words : Len(p) + Len(q) <= Len(host) /\ p \o line \o q = host

(* What the constructor should do when the file holds these lines. *)
ListedHostsAreRefused(lines) ==
  \A h \in Headers :
    h.standard /\ RequestLine(h) /\ h.version # "2.0"
      => (Status(h, Entries(lines)) = 403
            <=> \E i \in DOMAIN lines : IsPartOf(lines[i], h.host))
=============================================================================
