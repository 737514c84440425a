------------------------------- MODULE ScsiCommand -------------------------------
(***************************************************************************)
(* platform/adapter.rs: run_inner, data_out, command_in and diagnostic_in. *)
(* One command of a backend and what its caller is told, for every answer  *)
(* of the drive: the transport reports a CHECK CONDITION either as an      *)
(* error with its sense or as a result with a status, some senses are      *)
(* tolerated, a UNIT ATTENTION is retried once, and a command that writes  *)
(* is never sent twice.                                                    *)
(***************************************************************************)
EXTENDS Naturals

VARIABLES
    command,     \* the direction, whether it carries data, and the policy
    attempt,     \* 1, or 2 after a retry
    performed,   \* how often the drive did what it was asked
    answer,      \* its last answer
    reply        \* what the caller is told

commandVars == <<command, attempt, performed, answer, reply>>

\* A read carries a buffer to fill; a write without data has no data phase.
Commands == [direction : {"none", "in", "out"}, empty : BOOLEAN, strict : BOOLEAN]

Sense == {"noMedium", "attention", "recovered", "other", "none"}

\* How the answer surfaces, its sense, and its count against what was asked.
Answers == [via : {"good", "status", "error"}, sense : Sense, count : {"full", "short", "over"}]

CommandInit ==
    /\ command \in {c \in Commands : c.empty <=> c.direction = "none"}
    /\ attempt = 1 /\ performed = 0 /\ reply = "none"
    /\ answer = [via |-> "good", sense |-> "none", count |-> "full"]

-----------------------------------------------------------------------------
(* The drive: a command it refuses with NOT READY or a UNIT ATTENTION is not *)
(* performed, one that failed otherwise, or timed out, may have been.        *)
Performs(a) ==
    CASE a.sense \in {"noMedium", "attention"} -> {0}
      [] a.sense = "recovered" -> {1}
      [] a.via = "good" -> IF a.count = "full" THEN {1} ELSE {0, 1}
      [] OTHER -> {0, 1}

Possible(a) == (a.via = "good") => (a.sense = "none")

-----------------------------------------------------------------------------
(* The policy of run_inner. *)

\* A mutant: a write is retried after a UNIT ATTENTION and after an unexplained failure.
RetriesWrites(a) ==
    /\ a.via # "good" /\ a.sense \in {"attention", "none"}
    /\ ~command.strict /\ attempt = 1

Retries(a) ==
    /\ a.via # "good" /\ a.sense = "attention"
    /\ ~command.strict /\ attempt = 1 /\ command.direction # "out"
    /\ (a.via = "status") => (a.count # "over")

\* No disc is benign for a command without data; the rest only as a status.
Tolerates(a) ==
    /\ ~command.strict
    /\ \/ a.sense = "noMedium" /\ command.empty
       \/ a.via = "status" /\ a.sense = "recovered"
       \/ a.via = "status" /\ a.sense = "attention" /\ command.direction # "in"

\* A count over the buffer is refused whatever the status; a write must be whole.
CountFits(a) ==
    /\ a.via # "error" => a.count # "over"
    /\ command.direction = "out" => a.count = "full"

Accepts(a) == (a.via = "good" \/ Tolerates(a)) /\ CountFits(a)

Attempt ==
    /\ reply = "none"
    /\ \E a \in {b \in Answers : Possible(b)} :
         /\ answer' = a
         /\ \E n \in Performs(a) : performed' = performed + n
         /\ IF Retries(a)
            THEN attempt' = 2 /\ UNCHANGED reply
            ELSE /\ reply' = IF Accepts(a) THEN "ok" ELSE "error"
                 /\ UNCHANGED attempt
    /\ UNCHANGED command

CommandSpec == CommandInit /\ [][Attempt]_commandVars
-----------------------------------------------------------------------------
\* A command reaches the drive's mechanism at most once, retry or not; under the
\* strict policy of the flash path success means it was performed; and bytes read
\* are passed on only from an answer that vouches for them, the last one.
\* (adapter.rs: the comments of run_inner, "re-sending a burn-triggering chunk
\* could re-arm the program", "the first attempt's data is untrusted".)
PerformedOnce ==
    /\ performed <= 1
    /\ reply = "ok" /\ command.strict =>
         /\ answer.via = "good"
         /\ command.direction = "out" => performed = 1
    /\ reply = "ok" /\ command.direction = "in" => answer.sense \in {"none", "recovered"}
=============================================================================
