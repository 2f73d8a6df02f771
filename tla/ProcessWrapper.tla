--------------------------- MODULE ProcessWrapper ---------------------------
(***************************************************************************)
(* util/process_wrapper: the process every Rustc, RustcMetadata, clippy    *)
(* and rustfmt action runs its tool under.  The wrapper spawns the child,  *)
(* reads the child's stderr line by line through a pipe, forwards          *)
(* diagnostics, logs raw lines, kills the child once rustc reports that    *)
(* the metadata file is written (pipelining), waits for it, and turns its  *)
(* exit status into the action's.                                          *)
(*                                                                         *)
(* The child runs concurrently.  It is external: a compiler, linter or     *)
(* formatter that writes lines, writes its output files and ends in some   *)
(* way, all at its own pace.                                               *)
(***************************************************************************)
EXTENDS Naturals, Sequences

CONSTANTS
  Options,       \* the builds and command lines of the wrapper under study
  Line,          \* the kinds of line the child may write
  PipeCapacity,  \* lines the pipe and the wrapper's BufReader hold
  MaxLines       \* bound: lines the child writes

(***************************************************************************)
(* windows is cfg(windows), the rest is the command line: json             *)
(* (--rustc-output-format is given), quit (--rustc-quit-on-rmeta true),    *)
(* log (--output-file), touch (--touch-file) and copy (--copy-output).     *)
(* --stdout-file and --stderr-file only say where bytes go; the opening of *)
(* the latter fails as that of --output-file does.                         *)
(***************************************************************************)
OptionRecord ==
  [windows : BOOLEAN, json : BOOLEAN, quit : BOOLEAN, log : BOOLEAN,
   touch : BOOLEAN, copy : BOOLEAN]

(***************************************************************************)
(* A line of stderr is a JSON diagnostic, the notification that the        *)
(* metadata or another artifact was written, LLVM or tracing noise the     *)
(* wrapper knows, text that is not JSON, or bytes that are not UTF-8.      *)
(***************************************************************************)
LineKind == {"diagnostic", "metadata", "artifact", "noise", "text", "binary"}

ASSUME WrapperAssumption ==
  /\ Options \subseteq OptionRecord
  /\ Line \subseteq LineKind
  /\ PipeCapacity \in Nat \ {0}
  /\ MaxLines \in Nat

VARIABLES
  opts,             \* the command line
  pc,               \* where main() is
  error,            \* the ProcessWrapperError main() returned
  code,             \* the wrapper's exit code
  metadataEmitted,  \* me
  wasKilled,        \* was_killed
  forwarded,        \* lines written to stderr or stderr_file
  logged,           \* lines written to output_file
  touched,          \* touch_file exists
  copied,           \* how much of copy_output's destination exists
  child,            \* "none", "running" or "exited"
  status,           \* how the child ended
  stderrOpen,       \* the child holds its end of the pipe
  pipe,             \* lines written and not yet read
  written,          \* every line the child has written
  stage             \* how far the child's output files have come, as in CompileAction

wrapperVars == <<pc, error, code, metadataEmitted, wasKilled, forwarded, logged,
                 touched, copied>>
childVars == <<child, status, stderrOpen, written, stage>>
vars == <<opts, wrapperVars, childVars, pipe>>

(***************************************************************************)
(* The type invariant.  Places ties the two processes to main(): a child   *)
(* is absent only before the spawn, has a status exactly when it is gone,  *)
(* and what follows an exit code of 0 is reached with no other.            *)
(***************************************************************************)
Types ==
  /\ opts \in Options
  /\ pc \in {"start", "opening", "reading", "draining", "killing", "waiting",
             "touching", "copying", "ended"}
  /\ error \in {"none", "setup", "io", "process", "touch", "copy"}
  /\ code \in {0, 1}
  /\ metadataEmitted \in BOOLEAN
  /\ wasKilled \in BOOLEAN
  /\ forwarded \in Seq(LineKind)
  /\ logged \in Seq(LineKind)
  /\ touched \in BOOLEAN
  /\ copied \in {"none", "part", "all"}
  /\ child \in {"none", "running", "exited"}
  /\ status \in {"none", "success", "failure", "signal", "killed"}
  /\ stderrOpen \in BOOLEAN
  /\ pipe \in Seq(LineKind)
  /\ written \in Seq(LineKind)
  /\ stage \in 0..4

Places ==
  /\ child = "exited" <=> status # "none"
  /\ pc = "start" => child = "none"
  /\ child = "none" => pc = "start" \/ error = "setup"
  /\ error # "none" => pc = "ended"
  /\ pc \in {"touching", "copying"} => code = 0

TypeOK == Types /\ Places

Quits == opts.json /\ opts.quit

Init ==
  /\ opts \in Options
  /\ pc = "start"
  /\ error = "none"
  /\ code = 0
  /\ metadataEmitted = FALSE
  /\ wasKilled = FALSE
  /\ forwarded = <<>>
  /\ logged = <<>>
  /\ touched = FALSE
  /\ copied = "none"
  /\ child = "none"
  /\ status = "none"
  /\ stderrOpen = FALSE
  /\ pipe = <<>>
  /\ written = <<>>
  /\ stage = 0
-----------------------------------------------------------------------------
(* main() returns Err: the process exits with 1 and leaves the child alone. *)
Abort(e) ==
  /\ pc' = "ended"
  /\ code' = 1
  /\ error' = e

(* stdout_file cannot be opened, or spawn() fails. *)
SpawnFails ==
  /\ pc = "start"
  /\ Abort("setup")
  /\ UNCHANGED <<opts, metadataEmitted, wasKilled, forwarded, logged, touched,
                 copied, childVars, pipe>>

Spawn ==
  /\ pc = "start"
  /\ child' = "running"
  /\ stderrOpen' = TRUE
  /\ pc' = "opening"
  /\ UNCHANGED <<opts, error, code, metadataEmitted, wasKilled, forwarded, logged,
                 touched, copied, status, written, stage, pipe>>

(* stderr_file and output_file are opened with the child already running. *)
OpenFails ==
  /\ pc = "opening"
  /\ opts.log
  /\ Abort("setup")
  /\ UNCHANGED <<opts, metadataEmitted, wasKilled, forwarded, logged, touched,
                 copied, childVars, pipe>>

OpenFiles ==
  /\ pc = "opening"
  /\ pc' = "reading"
  /\ UNCHANGED <<opts, error, code, metadataEmitted, wasKilled, forwarded, logged,
                 touched, copied, childVars, pipe>>

(* What process_line makes of a line; a child without json is not looked at. *)
IsMessage(line) == ~opts.json \/ line \in {"diagnostic", "noise"}
IsTerminate(line) == Quits /\ line = "metadata"
IsError(line) == opts.json /\ line = "text"
IsSkip(line) ==
  opts.json /\ line \in {"metadata", "artifact"} /\ ~IsTerminate(line)

(* Mutant of Log: what is not forwarded is not logged either. *)
LogMessages(line) ==
  logged' = IF opts.log /\ IsMessage(line) THEN Append(logged, line) ELSE logged

(* The raw line goes to output_file before anything looks at it. *)
Log(line) == logged' = IF opts.log THEN Append(logged, line) ELSE logged

(* Mutants of ReadLine: after a bad line nothing is read any more, or the *)
(* bad line itself is not forwarded.                                      *)
ReadLineNoDrain ==
  /\ pc = "reading"
  /\ pipe # <<>>
  /\ LET line == Head(pipe) IN
       /\ line # "binary"
       /\ Log(line)
       /\ forwarded' = IF IsSkip(line) \/ IsTerminate(line)
                       THEN forwarded ELSE Append(forwarded, line)
       /\ metadataEmitted' = IsTerminate(line)
       /\ \/ IsTerminate(line) /\ pc' = "killing"
          \/ IsError(line) /\ pc' = "waiting"
          \/ ~IsTerminate(line) /\ ~IsError(line) /\ UNCHANGED pc
  /\ pipe' = Tail(pipe)
  /\ UNCHANGED <<opts, error, code, wasKilled, touched, copied, childVars>>
ReadLineLosesBad ==
  /\ pc = "reading"
  /\ pipe # <<>>
  /\ LET line == Head(pipe) IN
       /\ line # "binary"
       /\ Log(line)
       /\ forwarded' = IF IsMessage(line) THEN Append(forwarded, line) ELSE forwarded
       /\ metadataEmitted' = IsTerminate(line)
       /\ \/ IsTerminate(line) /\ pc' = "killing"
          \/ IsError(line) /\ pc' = "draining"
          \/ ~IsTerminate(line) /\ ~IsError(line) /\ UNCHANGED pc
  /\ pipe' = Tail(pipe)
  /\ UNCHANGED <<opts, error, code, wasKilled, touched, copied, childVars>>

(***************************************************************************)
(* One turn of process_output's loop.  A line that cannot be parsed is     *)
(* forwarded as it is and ends the loop; so does the metadata notification *)
(* of a run that quits on it.                                              *)
(***************************************************************************)
ReadLine ==
  /\ pc = "reading"
  /\ pipe # <<>>
  /\ LET line == Head(pipe) IN
       /\ line # "binary"
       /\ Log(line)
       /\ \/ /\ IsMessage(line)
             /\ forwarded' = Append(forwarded, line)
             /\ UNCHANGED <<pc, metadataEmitted>>
          \/ /\ IsSkip(line)
             /\ UNCHANGED <<pc, forwarded, metadataEmitted>>
          \/ /\ IsTerminate(line)
             /\ metadataEmitted' = TRUE
             /\ pc' = "killing"
             /\ UNCHANGED forwarded
          \/ /\ IsError(line)
             /\ forwarded' = Append(forwarded, line)
             /\ pc' = "draining"
             /\ UNCHANGED metadataEmitted
  /\ pipe' = Tail(pipe)
  /\ UNCHANGED <<opts, error, code, wasKilled, touched, copied, childVars>>

(***************************************************************************)
(* read_line finds bytes that are not UTF-8, or a write fails: to          *)
(* output_file, or to stderr once the line is logged.  The loop returns at *)
(* once, and main() with it.                                               *)
(***************************************************************************)
ReadFails ==
  /\ pc = "reading"
  /\ pipe # <<>>
  /\ \/ UNCHANGED logged
     \/ /\ Head(pipe) # "binary"
        /\ IsMessage(Head(pipe)) \/ IsError(Head(pipe))
        /\ Log(Head(pipe))
  /\ pipe' = Tail(pipe)
  /\ Abort("io")
  /\ UNCHANGED <<opts, metadataEmitted, wasKilled, forwarded, touched, copied,
                 childVars>>

(* io::copy of what is left, up to the end of the pipe, after a bad line. *)
DrainLine ==
  /\ pc = "draining"
  /\ pipe # <<>>
  /\ forwarded' = Append(forwarded, Head(pipe))
  /\ pipe' = Tail(pipe)
  /\ UNCHANGED <<opts, pc, error, code, metadataEmitted, wasKilled, logged, touched,
                 copied, childVars>>

DrainFails ==
  /\ pc = "draining"
  /\ pipe # <<>>
  /\ pipe' = Tail(pipe)
  /\ Abort("io")
  /\ UNCHANGED <<opts, metadataEmitted, wasKilled, forwarded, logged, touched,
                 copied, childVars>>

AtEof == pipe = <<>> /\ ~stderrOpen

DrainEnds ==
  /\ pc = "draining"
  /\ AtEof
  /\ Abort("process")
  /\ UNCHANGED <<opts, metadataEmitted, wasKilled, forwarded, logged, touched,
                 copied, childVars, pipe>>

EndOfOutput ==
  /\ pc = "reading"
  /\ AtEof
  /\ pc' = "waiting"
  /\ UNCHANGED <<opts, error, code, metadataEmitted, wasKilled, forwarded, logged,
                 touched, copied, childVars, pipe>>

(* Mutants of Kill: success without killing or waiting, or was_killed *)
(* with the kill itself forgotten.                                    *)
KillNotAwaited ==
  /\ pc = "killing"
  /\ wasKilled' = TRUE
  /\ pc' = "touching"
  /\ UNCHANGED <<opts, error, code, metadataEmitted, forwarded, logged, touched,
                 copied, childVars, pipe>>
KillForgotten ==
  /\ pc = "killing"
  /\ wasKilled' = TRUE
  /\ pc' = "waiting"
  /\ UNCHANGED <<opts, error, code, metadataEmitted, forwarded, logged, touched,
                 copied, childVars, pipe>>

(***************************************************************************)
(* child.kill(), whose result is ignored: the child may be gone already,   *)
(* and was_killed is set all the same.                                     *)
(***************************************************************************)
Kill ==
  /\ pc = "killing"
  /\ wasKilled' = TRUE
  /\ child' = "exited"
  /\ status' = IF child = "running" THEN "killed" ELSE status
  /\ stderrOpen' = FALSE
  /\ pc' = "waiting"
  /\ UNCHANGED <<opts, error, code, metadataEmitted, forwarded, logged, touched,
                 copied, written, stage, pipe>>

(* Mutants of StatusCode: any signal counts as ours, or the windows form *)
(* is used everywhere.                                                   *)
StatusCodeAnySignal == IF status \in {"success", "signal", "killed"} THEN 0 ELSE 1
StatusCodeIfKilled == IF status = "success" \/ wasKilled THEN 0 ELSE 1

(***************************************************************************)
(* status_code, in its windows and its other form.  Unix tells a child     *)
(* that a signal ended from one that exited, though not whose signal it    *)
(* was; windows tells neither from a failure.                              *)
(***************************************************************************)
StatusCode ==
  IF \/ status = "success"
     \/ wasKilled /\ (opts.windows \/ status \in {"signal", "killed"})
  THEN 0
  ELSE 1

(* Mutants of Wait: try_wait() for wait(), and no test of the code. *)
WaitNot ==
  /\ pc = "waiting"
  /\ code' = StatusCode
  /\ \/ StatusCode = 0 /\ pc' = "touching"
     \/ StatusCode # 0 /\ pc' = "ended"
  /\ UNCHANGED <<opts, error, metadataEmitted, wasKilled, forwarded, logged, touched,
                 copied, childVars, pipe>>
WaitAndTouch ==
  /\ pc = "waiting"
  /\ child = "exited"
  /\ code' = StatusCode
  /\ pc' = "touching"
  /\ UNCHANGED <<opts, error, metadataEmitted, wasKilled, forwarded, logged, touched,
                 copied, childVars, pipe>>

Wait ==
  /\ pc = "waiting"
  /\ child = "exited"
  /\ code' = StatusCode
  /\ \/ StatusCode = 0 /\ pc' = "touching"
     \/ StatusCode # 0 /\ pc' = "ended"
  /\ UNCHANGED <<opts, error, metadataEmitted, wasKilled, forwarded, logged, touched,
                 copied, childVars, pipe>>

TouchFile ==
  /\ pc = "touching"
  /\ touched' = opts.touch
  /\ pc' = "copying"
  /\ UNCHANGED <<opts, error, code, metadataEmitted, wasKilled, forwarded, logged,
                 copied, childVars, pipe>>

TouchFails ==
  /\ pc = "touching"
  /\ opts.touch
  /\ Abort("touch")
  /\ UNCHANGED <<opts, metadataEmitted, wasKilled, forwarded, logged, touched,
                 copied, childVars, pipe>>

(* The copy, if any, and exit(code). *)
CopyOutput ==
  /\ pc = "copying"
  /\ copied' = IF opts.copy THEN "all" ELSE copied
  /\ pc' = "ended"
  /\ UNCHANGED <<opts, error, code, metadataEmitted, wasKilled, forwarded, logged,
                 touched, childVars, pipe>>

CopyFails ==
  /\ pc = "copying"
  /\ opts.copy
  /\ copied' \in {"none", "part"}
  /\ Abort("copy")
  /\ UNCHANGED <<opts, metadataEmitted, wasKilled, forwarded, logged, touched,
                 childVars, pipe>>

WrapperStep ==
  \/ SpawnFails \/ Spawn \/ OpenFails \/ OpenFiles
  \/ ReadLine \/ ReadFails \/ DrainLine \/ DrainFails \/ DrainEnds \/ EndOfOutput
  \/ Kill \/ Wait \/ TouchFile \/ TouchFails \/ CopyOutput \/ CopyFails
-----------------------------------------------------------------------------
Has(s, line) == \E i \in DOMAIN s : s[i] = line

(* A full pipe blocks the child; nobody reads once the wrapper is gone. *)
WriteLine(line) ==
  /\ child = "running"
  /\ stderrOpen
  /\ pc # "ended"
  /\ Len(written) < MaxLines
  /\ Len(pipe) < PipeCapacity
  /\ line = "metadata" => stage >= 2 /\ ~Has(written, "metadata")
  /\ pipe' = Append(pipe, line)
  /\ written' = Append(written, line)
  /\ UNCHANGED <<opts, wrapperVars, child, status, stderrOpen, stage>>

WriteOutput ==
  /\ child = "running"
  /\ stage < 4
  /\ stage' = stage + 1
  /\ UNCHANGED <<opts, wrapperVars, child, status, stderrOpen, written, pipe>>

CloseStderr ==
  /\ child = "running"
  /\ stderrOpen
  /\ stderrOpen' = FALSE
  /\ UNCHANGED <<opts, wrapperVars, child, status, written, stage, pipe>>

(***************************************************************************)
(* A child that reports success has written its outputs, and one told to   *)
(* emit metadata has announced it.                                         *)
(***************************************************************************)
Exit(s) ==
  /\ child = "running"
  /\ s = "success" => stage = 4 /\ (Quits => Has(written, "metadata"))
  /\ s = "signal" => ~opts.windows
  /\ child' = "exited"
  /\ status' = s
  /\ stderrOpen' = FALSE
  /\ UNCHANGED <<opts, wrapperVars, written, stage, pipe>>

ChildStep ==
  \/ \E line \in Line : WriteLine(line)
  \/ WriteOutput
  \/ CloseStderr
  \/ \E s \in {"success", "failure", "signal"} : Exit(s)

(* The wrapper has exited and the child is gone. *)
Ended == pc = "ended" /\ child # "running" /\ UNCHANGED vars

Next == WrapperStep \/ ChildStep \/ Ended

Spec == Init /\ [][Next]_vars

(***************************************************************************)
(* The wrapper is one thread that runs whenever it is not blocked.  The    *)
(* child comes to an end if it is not held up by a full pipe.              *)
(***************************************************************************)
ChildEnds ==
  /\ Len(pipe) < PipeCapacity
  /\ \E s \in {"success", "failure", "signal"} : Exit(s)

FairSpec == Spec /\ WF_vars(WrapperStep)
-----------------------------------------------------------------------------
Consumed == SubSeq(written, 1, Len(written) - Len(pipe))
Bad(s) == {i \in DOMAIN s : IsError(s[i])}

(***************************************************************************)
(* An action that succeeds has left its outputs: the metadata file of a    *)
(* run that quits on it, everything of any other, and the files the        *)
(* wrapper itself makes.  No other end of the child, and no line order,    *)
(* makes the wrapper exit with 0.                                          *)
(***************************************************************************)
Needed == IF Quits THEN 2 ELSE 4

SuccessSound ==
  pc = "ended" /\ code = 0 =>
    /\ child = "exited"
    /\ stage >= Needed
    /\ status = "success" \/ (Quits /\ wasKilled)
    /\ touched = opts.touch
    /\ opts.copy => copied = "all"

(***************************************************************************)
(* A compiler that fails by itself fails the action, even when it had      *)
(* announced the metadata and main() was about to kill it.  Not on         *)
(* windows, where was_killed is all that status_code looks at.             *)
(***************************************************************************)
FailureReported ==
  ~opts.windows /\ pc = "ended" /\ status = "failure" => code = 1

(***************************************************************************)
(* t is what s has at the positions in D, each once and in order.          *)
(***************************************************************************)
IsSelection(t, s, D) ==
  \E place \in [DOMAIN t -> D] :
    /\ \A j, k \in DOMAIN t : j < k => place[j] < place[k]
    /\ \A i \in D : \E k \in DOMAIN t : place[k] = i
    /\ \A k \in DOMAIN t : t[k] = s[place[k]]

(***************************************************************************)
(* Diagnostics reach the user exactly once and in order: the messages up   *)
(* to the first line that cannot be parsed, and from that line on every    *)
(* line as it is.  Unless the child was killed for its metadata or a read  *)
(* or write failed, none is left in the pipe when main() returns.          *)
(***************************************************************************)
Delivered ==
  {i \in DOMAIN Consumed : IsMessage(Consumed[i]) \/ \E b \in Bad(Consumed) : b <= i}

DiagnosticsDelivered ==
  /\ error # "io" => IsSelection(forwarded, Consumed, Delivered)
  /\ pc = "ended" /\ error \notin {"setup", "io"} /\ ~wasKilled => pipe = <<>>

(***************************************************************************)
(* output_file holds the raw lines read, in order, whatever was made of    *)
(* them; when the child's status decides, those are all its lines, or all  *)
(* up to the metadata notification.                                        *)
(***************************************************************************)
LogFaithful ==
  opts.log =>
    /\ Len(logged) <= Len(written)
    /\ logged = SubSeq(written, 1, Len(logged))
    /\ pc \in {"waiting", "touching", "copying"} =>
         IF metadataEmitted
         THEN logged # <<>> /\ logged[Len(logged)] = "metadata"
         ELSE logged = written

(***************************************************************************)
(* The wrapper leaves a compiler running behind its back only if it could  *)
(* not open a file or an I/O error stopped it; after a line it could not   *)
(* parse it at least waits for the child to let go of the pipe.            *)
(***************************************************************************)
NoOrphan ==
  pc = "ended" /\ child = "running" =>
    error \in {"setup", "io"} \/ (error = "process" /\ ~stderrOpen)

(***************************************************************************)
(* touch_file, which rules use as a marker of success, is never made for a *)
(* child that is still at work or that failed.                             *)
(***************************************************************************)
MarkerMeansDone ==
  touched => child = "exited" /\ stage >= Needed /\ StatusCode = 0

(***************************************************************************)
(* With the metadata notification in the pipe the wrapper needs nothing    *)
(* more from the compiler: it ends though the compiler may never, unless a *)
(* line before the notification cannot be parsed.                          *)
(***************************************************************************)
QuitsOnMetadata ==
  Quits /\ pc = "reading" /\ Has(pipe, "metadata") ~> pc \in {"ended", "draining"}

(***************************************************************************)
(* The wrapper ends if its child does where it can: it never waits for a   *)
(* child that waits for room in the pipe.                                  *)
(***************************************************************************)
AlwaysEnds == WF_vars(ChildEnds) => <>(pc = "ended")

(***************************************************************************)
(* To Bazel the wrapper and its child are a CompileAction.                 *)
(***************************************************************************)
Verdict ==
  IF pc # "ended" THEN "none" ELSE IF code = 0 THEN "succeeded" ELSE "failed"

Action == INSTANCE CompileAction WITH early <- Quits, verdict <- Verdict
RefinesCompileAction == Action!Spec

(***************************************************************************)
(* The exit code, the marker file and the end of the child agree: 0 only   *)
(* with the outputs there, a compiler that failed by itself is reported, the*)
(* marker is made for neither a failed nor a working child, and none is left*)
(* running but by an error (main.rs, output.rs).                           *)
(***************************************************************************)
OutcomeSound == SuccessSound /\ FailureReported /\ MarkerMeansDone /\ NoOrphan

(***************************************************************************)
(* Of what the compiler prints nothing is lost, repeated or reordered on   *)
(* its way to the user; nor in the log, which ends at a bad line, for then *)
(* the rest is copied to the user only (output.rs).                        *)
(***************************************************************************)
OutputKept == DiagnosticsDelivered /\ LogFaithful

(***************************************************************************)
(* The wrapper comes to an end: when its child can, and with the metadata  *)
(* notification in the pipe also when it cannot (main.rs).                 *)
(***************************************************************************)
WrapperEnds == AlwaysEnds /\ QuitsOnMetadata
=============================================================================
