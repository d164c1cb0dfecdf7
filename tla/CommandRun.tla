------------------------------ MODULE CommandRun ------------------------------
(***************************************************************************)
(* One command under the runner: runStreamingWithStdin and                 *)
(* awaitStatusOrKill of sdk/sys/exec/exec.go.  The child writes lines to   *)
(* two pipes; the process library copies them into bounded channels, and   *)
(* when the child is gone and the pipes are empty it closes the channels   *)
(* and hands over the status.  A collector goroutine takes lines out of    *)
(* the channels, and the runner waits for the status or the deadline.      *)
(*                                                                         *)
(* A line is its length in bytes, newline included.                        *)
(***************************************************************************)
EXTENDS Naturals, Sequences, SequencesExt

CONSTANTS
    MaxOutputBytes,  \* bytes captured per stream
    MarkerBytes,     \* length of the truncation marker
    LineBytes,       \* lengths of lines
    Buffer,          \* external: capacity of a channel
    MaxLines         \* bound: lines the child writes

VARIABLES
    child,      \* the child: running or dead
    written,    \* history: lines written to each stream
    pipe,       \* lines written and not yet copied
    queue,      \* the channels Stdout and Stderr
    status,     \* 1 once the library closed the channels and sent its status
    expired,    \* 1 once the context is done
    collector,  \* the goroutine: select, draining one stream, or done
    bytes,      \* stdoutBytes, stderrBytes
    buf,        \* stdoutBuf, stderrBuf, as the lines in them
    main,       \* where the runner is
    runErr      \* the error it is going to return

libraryVars == <<pipe, queue, status>>
collectorVars == <<collector, bytes, buf>>
mainVars == <<main, runErr>>
vars == <<child, written, libraryVars, expired, collectorVars, mainVars>>

Stream == {"stdout", "stderr"}
Other(s) == IF s = "stdout" THEN "stderr" ELSE "stdout"

Size(lines) == FoldLeft(LAMBDA n, line : n + line, 0, lines)

Init ==
    /\ child = "running" /\ written = [s \in Stream |-> <<>>]
    /\ pipe = [s \in Stream |-> <<>>] /\ queue = [s \in Stream |-> <<>>]
    /\ status = 0 /\ expired = 0
    /\ collector = "select"
    /\ bytes = [s \in Stream |-> 0] /\ buf = [s \in Stream |-> <<>>]
    /\ main = "wait" /\ runErr = "none"

-------------------------------------------------------------------------------
(* The child, the process library and the clock. *)

Write(s, n) ==
    /\ child = "running" /\ Len(written["stdout"]) + Len(written["stderr"]) < MaxLines
    /\ written' = [written EXCEPT ![s] = Append(@, n)]
    /\ pipe' = [pipe EXCEPT ![s] = Append(@, n)]
    /\ UNCHANGED <<child, queue, status, expired, collectorVars, mainVars>>

\* It may end at any time, also because of a SIGTERM; it may also not.
Exits ==
    /\ child = "running"
    /\ child' = "dead"
    /\ UNCHANGED <<written, libraryVars, expired, collectorVars, mainVars>>

\* A full channel holds the copy up.
CopyLine(s) ==
    /\ pipe[s] # <<>> /\ Len(queue[s]) < Buffer
    /\ queue' = [queue EXCEPT ![s] = Append(@, Head(pipe[s]))]
    /\ pipe' = [pipe EXCEPT ![s] = Tail(@)]
    /\ UNCHANGED <<child, written, status, expired, collectorVars, mainVars>>

SendStatus ==
    /\ child = "dead" /\ status = 0
    /\ \A s \in Stream : pipe[s] = <<>>
    /\ status' = 1
    /\ UNCHANGED <<child, written, pipe, queue, expired, collectorVars, mainVars>>

Expire ==
    /\ expired = 0 /\ main # "returned"
    /\ expired' = 1
    /\ UNCHANGED <<child, written, libraryVars, collectorVars, mainVars>>

-------------------------------------------------------------------------------
(* The collector. *)

\* Every line counts; it is kept while the count is within the limit.
recordLine(s, line) ==
    /\ bytes' = [bytes EXCEPT ![s] = @ + line]
    /\ buf' = IF bytes'[s] <= MaxOutputBytes THEN [buf EXCEPT ![s] = Append(@, line)]
              ELSE buf

\* A line, from either stream or from the one that is being drained.
CollectLine(s) ==
    /\ collector \in {"select", s} /\ queue[s] # <<>>
    /\ recordLine(s, Head(queue[s]))
    /\ queue' = [queue EXCEPT ![s] = Tail(@)]
    /\ UNCHANGED <<child, written, pipe, status, expired, collector, mainVars>>

\* Mutant: the goroutine ends with the first stream that is closed.
CollectClosedEnds(s) ==
    /\ collector \in {"select", s} /\ queue[s] = <<>> /\ status = 1
    /\ collector' = "done"
    /\ UNCHANGED <<child, written, libraryVars, expired, bytes, buf, mainVars>>

\* A closed channel: the other stream is drained, then the goroutine ends.
CollectClosed(s) ==
    /\ collector \in {"select", s} /\ queue[s] = <<>> /\ status = 1
    /\ collector' = IF collector = "select" THEN Other(s) ELSE "done"
    /\ UNCHANGED <<child, written, libraryVars, expired, bytes, buf, mainVars>>

\* The context is done: what is in the channels stays there.
CollectDone ==
    /\ collector = "select" /\ expired = 1
    /\ collector' = "done"
    /\ UNCHANGED <<child, written, libraryVars, expired, bytes, buf, mainVars>>

-------------------------------------------------------------------------------
(* The runner. *)

AwaitStatus ==
    /\ main = "wait" /\ status = 1
    /\ main' = "join"
    /\ UNCHANGED <<child, written, libraryVars, expired, collectorVars, runErr>>

\* The context is done first: SIGTERM, and the first grace period.
AwaitContext ==
    /\ main = "wait" /\ expired = 1
    /\ main' = "term" /\ runErr' = "context"
    /\ UNCHANGED <<child, written, libraryVars, expired, collectorVars>>

\* Mutant: after the second grace period the child is killed again.
KillAgain ==
    /\ \/ /\ main \in {"term", "kill"} /\ status = 1
          /\ main' = "join" /\ UNCHANGED child
       \/ /\ main \in {"term", "kill"}
          /\ child' = "dead" /\ main' = "kill"
    /\ UNCHANGED <<written, libraryVars, expired, collectorVars, runErr>>

\* The status, or SIGKILL after one grace period and giving up after another.
awaitStatusOrKill ==
    /\ \/ /\ main \in {"term", "kill"} /\ status = 1
          /\ main' = "join" /\ UNCHANGED child
       \/ /\ main = "term"
          /\ child' = "dead" /\ main' = "kill"
       \/ /\ main = "kill"
          /\ main' = "join" /\ UNCHANGED child
    /\ UNCHANGED <<written, libraryVars, expired, collectorVars, runErr>>

Return ==
    /\ main = "join" /\ collector = "done"
    /\ main' = "returned"
    /\ UNCHANGED <<child, written, libraryVars, expired, collectorVars, runErr>>

Truncated(s) == bytes[s] > MaxOutputBytes

\* The length of Result.Stdout or Result.Stderr.
ResultBytes(s) == Size(buf[s]) + IF Truncated(s) THEN MarkerBytes ELSE 0

Collect ==
    \/ \E s \in Stream : CollectLine(s) \/ CollectClosed(s)
    \/ CollectDone
Library == SendStatus \/ \E s \in Stream : CopyLine(s)
Runner == AwaitStatus \/ AwaitContext \/ awaitStatusOrKill \/ Return

Done == main = "returned" /\ UNCHANGED vars

Next ==
    \/ \E s \in Stream, n \in LineBytes : Write(s, n)
    \/ Exits \/ Expire \/ Library \/ Collect \/ Runner \/ Done

\* The goroutines run and the grace periods end; the child need not.
Fairness == WF_vars(Collect) /\ WF_vars(Library) /\ WF_vars(Runner)

Spec == Init /\ [][Next]_vars
FairSpec == Spec /\ Fairness

-------------------------------------------------------------------------------
(* Properties. *)

\* Lines are counted, kept or waiting, and never invented: of each stream the
\* lines in the pipe, the channel and the buffer are no more than were written.
TypeOK ==
    /\ child \in {"running", "dead"} /\ {status, expired} \subseteq 0..1
    /\ collector \in {"select", "done"} \cup Stream
    /\ main \in {"wait", "term", "kill", "join", "returned"}
    /\ runErr \in {"none", "context"}
    /\ \A s \in Stream :
          /\ Len(queue[s]) <= Buffer
          /\ bytes[s] + Size(queue[s]) + Size(pipe[s]) = Size(written[s])

\* What is captured of a stream is its beginning: no line in the middle is
\* left out, however long the lines are and however the streams interleave.
\* And a command that ends before its deadline is reported with everything it
\* printed, or with as many lines as fit and the truncation marker.  (If the
\* deadline passes while the channels still hold lines, the collector may
\* leave them although the status is taken: then there is no marker.)
CaptureIsFaithful ==
    \A s \in Stream :
        /\ IsPrefix(buf[s], written[s]) /\ Size(buf[s]) <= MaxOutputBytes
        /\ main = "returned" /\ expired = 0 =>
              IF Truncated(s)
              THEN Size(buf[s]) + written[s][Len(buf[s]) + 1] > MaxOutputBytes
              ELSE buf[s] = written[s]

\* Whatever the child and its output do, a command whose context is done
\* returns: a child that ignores SIGTERM, a full channel nobody reads any more
\* and a status that never comes hold it up for two grace periods at most.
ReturnsOnceDone == (expired = 1) ~> (main = "returned")

\* The contract's bound on a command's output (string.max_len of
\* CommandOutput, which is MaxOutputBytes): what the runner returns can be
\* sent to the server.
OutputFitsContract ==
    main = "returned" => \A s \in Stream : ResultBytes(s) <= MaxOutputBytes

================================================================================
