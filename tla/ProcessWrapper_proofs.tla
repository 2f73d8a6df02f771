----------------------- MODULE ProcessWrapper_proofs -----------------------
(***************************************************************************)
(* Proofs about ProcessWrapper, for every set of command lines and lines,  *)
(* every pipe capacity and every number of lines, and of WrapperLaunch,    *)
(* which adds main()'s way to it, for every command line.                  *)
(***************************************************************************)
EXTENDS WrapperLaunch, TLAPS, WellFoundedInduction, FiniteSetTheorems

LEMMA HeadTail ==
  ASSUME NEW S, NEW s \in Seq(S), s # <<>>
  PROVE  Head(s) \in S /\ Tail(s) \in Seq(S)
OBVIOUS

LEMMA AppendType ==
  ASSUME NEW S, NEW s \in Seq(S), NEW e \in S
  PROVE  Append(s, e) \in Seq(S)
OBVIOUS

LEMMA LogType ==
  ASSUME logged \in Seq(LineKind), NEW line \in LineKind, Log(line)
  PROVE  logged' \in Seq(LineKind)
BY DEF Log

(* Every part of the wrapper's state keeps its type and its place in main(). *)
THEOREM TypeCorrect == Spec => []TypeOK
<1> USE WrapperAssumption
<1>1. ASSUME Init PROVE TypeOK
  <2>1. <<>> \in Seq(LineKind)
    OBVIOUS
  <2>2. opts \in Options /\ stage \in 0..4
    BY <1>1 DEF Init
  <2>3. QED
    BY <1>1, <2>1, <2>2 DEF Init, TypeOK, Types, Places
<1>2. TypeOK /\ [Next]_vars => TypeOK'
  <2> SUFFICES ASSUME TypeOK, [Next]_vars
               PROVE  TypeOK'
    OBVIOUS
  <2> USE DEF TypeOK, Types, Places, wrapperVars, childVars, Abort
  <2>1. CASE SpawnFails
    BY <2>1 DEF SpawnFails
  <2>2. CASE Spawn
    BY <2>2 DEF Spawn
  <2>3. CASE OpenFails
    BY <2>3 DEF OpenFails
  <2>4. CASE OpenFiles
    BY <2>4 DEF OpenFiles
  <2>5. CASE ReadLine
    <3>1. Head(pipe) \in LineKind /\ Tail(pipe) \in Seq(LineKind)
      BY <2>5, HeadTail DEF ReadLine
    <3>2. logged' \in Seq(LineKind)
      <4>1. Log(Head(pipe))
        BY <2>5 DEF ReadLine
      <4>2. logged \in Seq(LineKind)
        OBVIOUS
      <4>3. QED
        BY <3>1, <4>1, <4>2, LogType
    <3>3. forwarded' \in Seq(LineKind)
      <4>1. forwarded \in Seq(LineKind)
        OBVIOUS
      <4>2. Append(forwarded, Head(pipe)) \in Seq(LineKind)
        BY <3>1, <4>1, AppendType
      <4>3. QED
        BY <2>5, <4>1, <4>2 DEF ReadLine
    <3>4. pc' \in {"reading", "killing", "draining"} /\ metadataEmitted' \in BOOLEAN
      BY <2>5 DEF ReadLine
    <3>5. pipe' \in Seq(LineKind) /\ pc = "reading"
      BY <2>5, <3>1 DEF ReadLine
    <3>6. UNCHANGED <<opts, error, code, wasKilled, touched, copied, childVars>>
      BY <2>5 DEF ReadLine
    <3>7. QED
      BY <3>2, <3>3, <3>4, <3>5, <3>6
  <2>6. CASE ReadFails
    <3>1. Head(pipe) \in LineKind /\ Tail(pipe) \in Seq(LineKind)
      BY <2>6, HeadTail DEF ReadFails
    <3>2. logged' \in Seq(LineKind)
      BY <2>6, <3>1, LogType DEF ReadFails
    <3>3. QED
      BY <2>6, <3>1, <3>2 DEF ReadFails
  <2>7. CASE DrainLine
    BY <2>7 DEF DrainLine
  <2>8. CASE DrainFails
    BY <2>8 DEF DrainFails
  <2>9. CASE DrainEnds
    BY <2>9 DEF DrainEnds
  <2>10. CASE EndOfOutput
    BY <2>10 DEF EndOfOutput
  <2>11. CASE Kill
    BY <2>11 DEF Kill
  <2>12. CASE Wait
    BY <2>12 DEF Wait, StatusCode
  <2>13. CASE TouchFile
    BY <2>13 DEF TouchFile, OptionRecord
  <2>14. CASE TouchFails
    BY <2>14 DEF TouchFails
  <2>15. CASE CopyOutput
    BY <2>15 DEF CopyOutput
  <2>16. CASE CopyFails
    BY <2>16 DEF CopyFails
  <2>17. ASSUME NEW line \in Line, WriteLine(line) PROVE TypeOK'
    BY <2>17 DEF WriteLine
  <2>18. CASE WriteOutput
    BY <2>18 DEF WriteOutput
  <2>19. CASE CloseStderr
    BY <2>19 DEF CloseStderr
  <2>20. ASSUME NEW s \in {"success", "failure", "signal"}, Exit(s) PROVE TypeOK'
    <3>1. child = "running" /\ child' = "exited" /\ status' = s /\ stderrOpen' = FALSE
      BY <2>20 DEF Exit
    <3>2. UNCHANGED <<opts, wrapperVars, written, stage, pipe>>
      BY <2>20 DEF Exit
    <3>3. Types'
      BY <3>1, <3>2
    <3>4. Places'
      BY <3>1, <3>2
    <3>5. QED
      BY <3>3, <3>4
  <2>21. CASE Ended \/ UNCHANGED vars
    BY <2>21 DEF Ended, vars
  <2>22. QED
    BY <2>1, <2>2, <2>3, <2>4, <2>5, <2>6, <2>7, <2>8, <2>9, <2>10, <2>11, <2>12,
       <2>13, <2>14, <2>15, <2>16, <2>17, <2>18, <2>19, <2>20, <2>21
       DEF Next, WrapperStep, ChildStep
<1>3. QED
  BY <1>1, <1>2, PTL DEF Spec
-----------------------------------------------------------------------------
(***************************************************************************)
(* Why an exit code of 0 can be trusted.  The notification is only ever in *)
(* the pipe once the metadata is written, main() kills only what had sent  *)
(* it, and a code of 0 is computed from the status of a child that is      *)
(* gone.                                                                   *)
(***************************************************************************)
Announced ==
  /\ \A i \in DOMAIN pipe : pipe[i] = "metadata" => stage >= 2
  /\ metadataEmitted => Quits /\ stage >= 2
  /\ pc = "killing" \/ wasKilled => metadataEmitted
  /\ status = "success" => stage = 4

Judged ==
  /\ status = "killed" => wasKilled
  /\ pc \in {"touching", "copying"} => child = "exited" /\ StatusCode = 0
  /\ pc = "ended" /\ code = 0 => child = "exited" /\ StatusCode = 0
  /\ touched => child = "exited" /\ StatusCode = 0 /\ pc \in {"copying", "ended"}

Marked ==
  /\ pc = "copying" => touched = opts.touch
  /\ pc = "ended" /\ code = 0 => touched = opts.touch /\ (opts.copy => copied = "all")

LEMMA AnnouncedHolds == Spec => []Announced
<1> USE WrapperAssumption
<1>1. Init => Announced
  BY DEF Init, Announced
<1>2. TypeOK /\ TypeOK' /\ Announced /\ [Next]_vars => Announced'
  <2> SUFFICES ASSUME TypeOK, TypeOK', Announced, [Next]_vars
               PROVE  Announced'
    OBVIOUS
  <2>1. pipe \in Seq(LineKind) /\ stage \in 0..4 /\ opts' = opts
    BY DEF TypeOK, Types, Next, vars, WrapperStep, ChildStep, SpawnFails, Spawn,
           OpenFails, OpenFiles, ReadLine, ReadFails, DrainLine, DrainFails, DrainEnds,
           EndOfOutput, Kill, Wait, TouchFile, TouchFails, CopyOutput, CopyFails,
           WriteLine, WriteOutput, CloseStderr, Exit, Ended
  <2> USE DEF Announced, Quits, childVars, wrapperVars, Abort
  <2>2. CASE ReadLine
    <3>1. \A i \in DOMAIN pipe' : pipe'[i] = pipe[i + 1] /\ i + 1 \in DOMAIN pipe
      BY <2>1, <2>2 DEF ReadLine
    <3>2. metadataEmitted' => metadataEmitted \/ (Head(pipe) = "metadata" /\ Quits)
      BY <2>2 DEF ReadLine, IsTerminate
    <3>3. pc' = "killing" => metadataEmitted'
      BY <2>2 DEF ReadLine
    <3>4. Head(pipe) = pipe[1] /\ 1 \in DOMAIN pipe
      BY <2>1, <2>2 DEF ReadLine
    <3>5. UNCHANGED <<wasKilled, status, stage>> /\ (metadataEmitted => metadataEmitted')
      BY <2>2 DEF ReadLine
    <3>6. QED
      BY <2>1, <3>1, <3>2, <3>3, <3>4, <3>5
  <2>3. CASE ReadFails \/ DrainLine \/ DrainFails
    <3>1. \A i \in DOMAIN pipe' : pipe'[i] = pipe[i + 1] /\ i + 1 \in DOMAIN pipe
      BY <2>1, <2>3 DEF ReadFails, DrainLine, DrainFails
    <3>2. pc' # "killing" /\ UNCHANGED <<metadataEmitted, wasKilled, status, stage>>
      BY <2>3 DEF ReadFails, DrainLine, DrainFails
    <3>3. QED
      BY <2>1, <3>1, <3>2
  <2>4. CASE Kill
    BY <2>1, <2>4 DEF Kill
  <2>5. ASSUME NEW line \in Line, WriteLine(line) PROVE Announced'
    <3>1. \A i \in DOMAIN pipe' : pipe'[i] = line \/ (i \in DOMAIN pipe /\ pipe'[i] = pipe[i])
      BY <2>1, <2>5 DEF WriteLine
    <3>2. line = "metadata" => stage >= 2
      BY <2>5 DEF WriteLine
    <3>3. UNCHANGED <<pc, metadataEmitted, wasKilled, status, stage>>
      BY <2>5 DEF WriteLine
    <3>4. QED
      BY <2>1, <3>1, <3>2, <3>3
  <2>6. CASE WriteOutput
    BY <2>1, <2>6 DEF WriteOutput
  <2>7. ASSUME NEW s \in {"success", "failure", "signal"}, Exit(s) PROVE Announced'
    BY <2>1, <2>7 DEF Exit
  <2>8. CASE SpawnFails \/ Spawn \/ OpenFails \/ OpenFiles \/ DrainEnds \/ EndOfOutput
    BY <2>1, <2>8 DEF SpawnFails, Spawn, OpenFails, OpenFiles, DrainEnds, EndOfOutput
  <2>9. CASE Wait \/ TouchFile \/ TouchFails \/ CopyOutput \/ CopyFails
    BY <2>1, <2>9 DEF Wait, TouchFile, TouchFails, CopyOutput, CopyFails
  <2>10. CASE CloseStderr \/ Ended \/ UNCHANGED vars
    BY <2>1, <2>10 DEF CloseStderr, Ended, vars
  <2>11. QED
    BY <2>2, <2>3, <2>4, <2>5, <2>6, <2>7, <2>8, <2>9, <2>10
       DEF Next, WrapperStep, ChildStep
<1>3. QED
  BY <1>1, <1>2, TypeCorrect, PTL DEF Spec

LEMMA OptsFixed == [Next]_vars => opts' = opts
BY DEF Next, vars, WrapperStep, ChildStep, SpawnFails, Spawn, OpenFails, OpenFiles,
       ReadLine, ReadFails, DrainLine, DrainFails, DrainEnds, EndOfOutput, Kill, Wait,
       TouchFile, TouchFails, CopyOutput, CopyFails, WriteLine, WriteOutput,
       CloseStderr, Exit, Ended

LEMMA JudgedHolds == Spec => []Judged
<1>1. Init => Judged
  BY DEF Init, Judged
<1>2. TypeOK /\ Judged /\ [Next]_vars => Judged'
  <2> SUFFICES ASSUME TypeOK, Judged, [Next]_vars
               PROVE  Judged'
    OBVIOUS
  <2>1. opts' = opts
    BY OptsFixed
  <2> USE <2>1 DEF TypeOK, Places, Judged, StatusCode, childVars, wrapperVars, Abort
  <2>2. CASE SpawnFails \/ Spawn \/ OpenFails \/ OpenFiles
    BY <2>2 DEF SpawnFails, Spawn, OpenFails, OpenFiles
  <2>3. CASE ReadLine
    <3>1. pc' \in {"reading", "killing", "draining"} /\ pc = "reading"
      BY <2>3 DEF ReadLine
    <3>2. UNCHANGED <<code, wasKilled, touched, childVars>>
      BY <2>3 DEF ReadLine
    <3>3. QED
      BY <3>1, <3>2
  <2>4. CASE ReadFails \/ DrainLine \/ DrainFails \/ DrainEnds \/ EndOfOutput
    BY <2>4 DEF ReadFails, DrainLine, DrainFails, DrainEnds, EndOfOutput
  <2>5. CASE Kill
    BY <2>5 DEF Kill
  <2>6. CASE Wait
    BY <2>6 DEF Wait
  <2>7. CASE TouchFile \/ TouchFails
    BY <2>7 DEF TouchFile, TouchFails
  <2>8. CASE CopyOutput \/ CopyFails
    BY <2>8 DEF CopyOutput, CopyFails
  <2>9. ASSUME NEW line \in Line, WriteLine(line) PROVE Judged'
    BY <2>9 DEF WriteLine
  <2>10. CASE WriteOutput \/ CloseStderr
    BY <2>10 DEF WriteOutput, CloseStderr
  <2>11. ASSUME NEW s \in {"success", "failure", "signal"}, Exit(s) PROVE Judged'
    BY <2>11 DEF Exit
  <2>12. CASE Ended \/ UNCHANGED vars
    BY <2>12 DEF Ended, vars
  <2>13. QED
    BY <2>2, <2>3, <2>4, <2>5, <2>6, <2>7, <2>8, <2>9, <2>10, <2>11, <2>12
       DEF Next, WrapperStep, ChildStep
<1>3. QED
  BY <1>1, <1>2, TypeCorrect, PTL DEF Spec

LEMMA MarkedHolds == Spec => []Marked
<1>1. Init => Marked
  BY DEF Init, Marked
<1>2. TypeOK /\ Judged /\ Marked /\ [Next]_vars => Marked'
  <2> SUFFICES ASSUME TypeOK, Judged, Marked, [Next]_vars
               PROVE  Marked'
    OBVIOUS
  <2>1. opts' = opts
    BY OptsFixed
  <2> USE <2>1 DEF TypeOK, Places, Judged, Marked, childVars, wrapperVars, Abort
  <2>2. CASE SpawnFails \/ Spawn \/ OpenFails \/ OpenFiles
    BY <2>2 DEF SpawnFails, Spawn, OpenFails, OpenFiles
  <2>3. CASE ReadLine
    <3>1. pc' \in {"reading", "killing", "draining"}
      BY <2>3 DEF ReadLine
    <3>2. QED
      BY <3>1
  <2>4. CASE ReadFails \/ DrainLine \/ DrainFails \/ DrainEnds \/ EndOfOutput
    BY <2>4 DEF ReadFails, DrainLine, DrainFails, DrainEnds, EndOfOutput
  <2>5. CASE Kill \/ Wait
    BY <2>5 DEF Kill, Wait
  <2>6. CASE TouchFile \/ TouchFails
    BY <2>6 DEF TouchFile, TouchFails
  <2>7. CASE CopyOutput \/ CopyFails
    BY <2>7 DEF CopyOutput, CopyFails
  <2>8. ASSUME NEW line \in Line, WriteLine(line) PROVE Marked'
    BY <2>8 DEF WriteLine
  <2>9. CASE WriteOutput \/ CloseStderr
    BY <2>9 DEF WriteOutput, CloseStderr
  <2>10. ASSUME NEW s \in {"success", "failure", "signal"}, Exit(s) PROVE Marked'
    BY <2>10 DEF Exit
  <2>11. CASE Ended \/ UNCHANGED vars
    BY <2>11 DEF Ended, vars
  <2>12. QED
    BY <2>2, <2>3, <2>4, <2>5, <2>6, <2>7, <2>8, <2>9, <2>10, <2>11
       DEF Next, WrapperStep, ChildStep
<1>3. QED
  BY <1>1, <1>2, TypeCorrect, JudgedHolds, PTL DEF Spec

(* The wrapper exits with 0 only for outputs that are there. *)
THEOREM WrapperSuccessSound == Spec => []SuccessSound
<1>1. TypeOK /\ Announced /\ Judged /\ Marked => SuccessSound
  BY DEF TypeOK, Types, Announced, Judged, Marked, SuccessSound, StatusCode, Needed
<1>2. QED
  BY <1>1, TypeCorrect, AnnouncedHolds, JudgedHolds, MarkedHolds, PTL

(* Except on windows, a compiler that failed by itself fails the action. *)
THEOREM WrapperFailureReported == Spec => []FailureReported
<1>1. TypeOK /\ Judged => FailureReported
  BY DEF TypeOK, Types, Judged, FailureReported, StatusCode
<1>2. QED
  BY <1>1, TypeCorrect, JudgedHolds, PTL

(* The marker file stands for a finished, accepted child. *)
THEOREM WrapperMarker == Spec => []MarkerMeansDone
<1>1. TypeOK /\ Announced /\ Judged => MarkerMeansDone
  BY DEF TypeOK, Types, Announced, Judged, MarkerMeansDone, StatusCode, Needed
<1>2. QED
  BY <1>1, TypeCorrect, AnnouncedHolds, JudgedHolds, PTL

(* A child is left running only by an error in the wrapper's own I/O. *)
THEOREM WrapperNoOrphan == Spec => []NoOrphan
<1>1. Init => NoOrphan
  BY DEF Init, NoOrphan
<1>2. TypeOK /\ Judged /\ NoOrphan /\ [Next]_vars => NoOrphan'
  <2> SUFFICES ASSUME TypeOK, Judged, NoOrphan, [Next]_vars
               PROVE  NoOrphan'
    OBVIOUS
  <2> USE DEF TypeOK, Places, Judged, NoOrphan, childVars, wrapperVars, Abort
  <2>1. CASE SpawnFails \/ Spawn \/ OpenFails \/ OpenFiles
    BY <2>1 DEF SpawnFails, Spawn, OpenFails, OpenFiles
  <2>2. CASE ReadLine
    <3>1. pc' \in {"reading", "killing", "draining"}
      BY <2>2 DEF ReadLine
    <3>2. QED
      BY <3>1
  <2>3. CASE ReadFails \/ DrainLine \/ DrainFails \/ DrainEnds \/ EndOfOutput
    BY <2>3 DEF ReadFails, DrainLine, DrainFails, DrainEnds, EndOfOutput, AtEof
  <2>4. CASE Kill \/ Wait \/ TouchFile \/ TouchFails \/ CopyOutput \/ CopyFails
    BY <2>4 DEF Kill, Wait, TouchFile, TouchFails, CopyOutput, CopyFails
  <2>5. ASSUME NEW line \in Line, WriteLine(line) PROVE NoOrphan'
    BY <2>5 DEF WriteLine
  <2>6. CASE WriteOutput \/ CloseStderr
    BY <2>6 DEF WriteOutput, CloseStderr
  <2>7. ASSUME NEW s \in {"success", "failure", "signal"}, Exit(s) PROVE NoOrphan'
    BY <2>7 DEF Exit
  <2>8. CASE Ended \/ UNCHANGED vars
    BY <2>8 DEF Ended, vars
  <2>9. QED
    BY <2>1, <2>2, <2>3, <2>4, <2>5, <2>6, <2>7, <2>8 DEF Next, WrapperStep, ChildStep
<1>3. QED
  BY <1>1, <1>2, TypeCorrect, JudgedHolds, PTL DEF Spec

(***************************************************************************)
(* The four together: whatever the compiler prints, in whatever order it   *)
(* and the wrapper take their steps, exit code, marker file and the end of *)
(* the child agree.                                                        *)
(***************************************************************************)
THEOREM WrapperOutcome == Spec => []OutcomeSound
BY WrapperSuccessSound, WrapperFailureReported, WrapperMarker, WrapperNoOrphan, PTL
   DEF OutcomeSound
-----------------------------------------------------------------------------
(***************************************************************************)
(* To Bazel, the wrapper and the child it runs are a CompileAction: each   *)
(* step of either is a step of it or none.  Judged matters when the child  *)
(* writes: it cannot once the verdict is "succeeded".                      *)
(***************************************************************************)
THEOREM WrapperRefines == Spec => RefinesCompileAction
<1>1. ASSUME Init PROVE Action!Init
  <2>1. opts \in OptionRecord
    BY <1>1, WrapperAssumption DEF Init
  <2>2. QED
    BY <1>1, <2>1 DEF Init, Action!Init, Verdict, Quits, OptionRecord
<1>2. TypeOK /\ TypeOK' /\ Announced /\ Judged /\ SuccessSound' /\ [Next]_vars
        => [Action!Next]_Action!vars
  <2> SUFFICES ASSUME TypeOK, TypeOK', Announced, Judged, SuccessSound', [Next]_vars,
                      ~UNCHANGED <<Quits, stage, Verdict>>
               PROVE  Action!Next
    BY DEF Action!vars
  <2>1. opts' = opts /\ UNCHANGED Quits
    BY OptsFixed DEF Quits
  <2>2. CASE pc' = pc /\ code' = code
    <3>1. UNCHANGED Verdict
      BY <2>2 DEF Verdict
    <3>2. WriteOutput
      BY <2>1, <3>1
         DEF Next, WrapperStep, ChildStep, SpawnFails, Spawn, OpenFails, OpenFiles,
             ReadLine, ReadFails, DrainLine, DrainFails, DrainEnds, EndOfOutput, Kill,
             Wait, TouchFile, TouchFails, CopyOutput, CopyFails, WriteLine, CloseStderr,
             Exit, Ended, vars, childVars
    <3>3. Verdict # "succeeded"
      BY <3>2 DEF WriteOutput, Judged, Verdict
    <3>4. QED
      BY <2>1, <3>1, <3>2, <3>3
         DEF WriteOutput, Action!Next, Action!Produce, Action!AllReady
  <2>3. CASE ~(pc' = pc /\ code' = code)
    <3>1. stage' = stage /\ pc # "ended"
      BY <2>3
         DEF Next, WrapperStep, ChildStep, SpawnFails, Spawn, OpenFails, OpenFiles,
             ReadLine, ReadFails, DrainLine, DrainFails, DrainEnds, EndOfOutput, Kill,
             Wait, TouchFile, TouchFails, CopyOutput, CopyFails, WriteLine, WriteOutput,
             CloseStderr, Exit, Ended, vars, childVars, wrapperVars
    <3>2. Verdict = "none" /\ pc' = "ended"
      BY <2>1, <3>1 DEF Verdict
    <3>3. CASE code' = 0
      <4>1. stage >= Needed
        BY <2>1, <3>1, <3>2, <3>3 DEF SuccessSound, Needed
      <4>2. QED
        BY <2>1, <3>1, <3>2, <3>3, <4>1
           DEF Verdict, Needed, Action!Next, Action!Succeed, Action!Needed,
               Action!MetadataReady, Action!AllReady
    <3>4. CASE code' # 0
      BY <2>1, <3>1, <3>2, <3>4 DEF Verdict, Action!Next, Action!Fail
    <3>5. QED
      BY <3>3, <3>4
  <2>4. QED
    BY <2>2, <2>3
<1>3. QED
  BY <1>1, <1>2, TypeCorrect, AnnouncedHolds, JudgedHolds, WrapperSuccessSound, PTL
     DEF Spec, RefinesCompileAction, Action!Spec
-----------------------------------------------------------------------------
(***************************************************************************)
(* Why output_file is faithful: until a line ends the loop, what is logged *)
(* and what is in the pipe make up what the child wrote.                   *)
(***************************************************************************)
LogPrefix ==
  opts.log =>
    /\ Len(logged) <= Len(written)
    /\ \A i \in 1..Len(logged) : logged[i] = written[i]

LogAndPipe ==
  opts.log /\ pc \in {"start", "opening", "reading"} =>
    /\ ~metadataEmitted
    /\ Len(written) = Len(logged) + Len(pipe)
    /\ \A i \in 1..Len(pipe) : pipe[i] = written[Len(logged) + i]

LogAtEnd ==
  opts.log /\ pc \in {"killing", "waiting", "touching", "copying"} =>
    IF metadataEmitted
    THEN logged # <<>> /\ logged[Len(logged)] = "metadata"
    ELSE pc # "killing" /\ Len(written) = Len(logged) /\ ~stderrOpen

LogInv == LogPrefix /\ LogAndPipe /\ LogAtEnd

LEMMA LogInvHolds == Spec => []LogInv
<1>1. Init => LogInv
  BY DEF Init, LogInv, LogPrefix, LogAndPipe, LogAtEnd
<1>2. TypeOK /\ TypeOK' /\ LogInv /\ [Next]_vars => LogInv'
  <2> SUFFICES ASSUME TypeOK, TypeOK', LogInv, [Next]_vars
               PROVE  LogInv'
    OBVIOUS
  <2>1. /\ opts' = opts
        /\ logged \in Seq(LineKind) /\ pipe \in Seq(LineKind) /\ written \in Seq(LineKind)
        /\ logged' \in Seq(LineKind) /\ pipe' \in Seq(LineKind) /\ written' \in Seq(LineKind)
    BY OptsFixed DEF TypeOK, Types
  <2> USE <2>1 DEF LogInv, LogPrefix, LogAndPipe, LogAtEnd, childVars, wrapperVars, Abort
  <2>2. CASE SpawnFails \/ Spawn \/ OpenFails \/ OpenFiles
    BY <2>2 DEF SpawnFails, Spawn, OpenFails, OpenFiles
  <2>3. CASE ReadLine
    <3> SUFFICES ASSUME opts.log PROVE LogInv'
      BY <2>3
    <3>1. /\ pc = "reading" /\ pipe # <<>> /\ pipe' = Tail(pipe)
          /\ logged' = Append(logged, Head(pipe)) /\ written' = written
      BY <2>3 DEF ReadLine, Log
    <3>2. \/ pc' = "reading" /\ ~metadataEmitted'
          \/ pc' = "draining"
          \/ pc' = "killing" /\ metadataEmitted' /\ Head(pipe) = "metadata"
      BY <2>3 DEF ReadLine, IsTerminate
    <3>3. /\ Len(logged') = Len(logged) + 1
          /\ Len(pipe') = Len(pipe) - 1
          /\ Head(pipe) = written[Len(logged) + 1]
          /\ Len(written) = Len(logged) + Len(pipe)
      BY <3>1
    <3>4. /\ \A i \in 1..Len(logged) : logged'[i] = logged[i]
          /\ logged'[Len(logged) + 1] = Head(pipe)
          /\ \A i \in 1..Len(pipe') : pipe'[i] = pipe[i + 1]
      BY <3>1
    <3>5. LogPrefix'
      BY <3>1, <3>3, <3>4
    <3>6. LogAndPipe'
      BY <3>1, <3>2, <3>3, <3>4
    <3>7. LogAtEnd'
      BY <3>1, <3>2, <3>3, <3>4
    <3>8. QED
      BY <3>5, <3>6, <3>7
  <2>4. CASE ReadFails
    <3> SUFFICES ASSUME opts.log PROVE LogInv'
      BY <2>4
    <3>1. /\ pc = "reading" /\ pc' = "ended" /\ pipe # <<>> /\ written' = written
          /\ logged' = logged \/ logged' = Append(logged, Head(pipe))
      BY <2>4 DEF ReadFails, Log
    <3>2. /\ Head(pipe) = written[Len(logged) + 1]
          /\ Len(written) = Len(logged) + Len(pipe) /\ Len(pipe) >= 1
      BY <3>1
    <3>3. CASE logged' = logged
      BY <3>1, <3>3
    <3>4. CASE logged' = Append(logged, Head(pipe))
      <4>1. /\ Len(logged') = Len(logged) + 1
            /\ \A i \in 1..Len(logged) : logged'[i] = logged[i]
            /\ logged'[Len(logged) + 1] = Head(pipe)
        BY <3>4
      <4>2. Len(logged') <= Len(written')
        BY <3>1, <3>2, <4>1
      <4>3. ASSUME NEW i \in 1..Len(logged') PROVE logged'[i] = written'[i]
        <5>1. i \in 1..Len(logged) \/ i = Len(logged) + 1
          BY <4>1
        <5>2. QED
          BY <3>1, <3>2, <4>1, <5>1
      <4>4. LogPrefix'
        BY <4>2, <4>3
      <4>5. QED
        BY <3>1, <4>4
    <3>5. QED
      BY <3>1, <3>3, <3>4
  <2>5. CASE DrainLine \/ DrainFails \/ DrainEnds
    BY <2>5 DEF DrainLine, DrainFails, DrainEnds
  <2>6. CASE EndOfOutput
    BY <2>6 DEF EndOfOutput, AtEof
  <2>7. CASE Kill \/ Wait \/ TouchFile \/ TouchFails \/ CopyOutput \/ CopyFails
    BY <2>7 DEF Kill, Wait, TouchFile, TouchFails, CopyOutput, CopyFails
  <2>8. ASSUME NEW line \in Line, WriteLine(line) PROVE LogInv'
    <3>1. /\ pipe' = Append(pipe, line) /\ written' = Append(written, line)
          /\ stderrOpen /\ UNCHANGED <<pc, logged, metadataEmitted, stderrOpen>>
      BY <2>8 DEF WriteLine
    <3>2. /\ Len(written') = Len(written) + 1 /\ Len(pipe') = Len(pipe) + 1
          /\ \A i \in 1..Len(written) : written'[i] = written[i]
          /\ \A i \in 1..Len(pipe) : pipe'[i] = pipe[i]
          /\ written'[Len(written) + 1] = line /\ pipe'[Len(pipe) + 1] = line
      BY <3>1
    <3>3. LogPrefix'
      BY <3>1, <3>2
    <3>4. LogAndPipe'
      <4> SUFFICES ASSUME opts.log, pc \in {"start", "opening", "reading"}
                   PROVE  LogAndPipe'
        BY <3>1
      <4>1. /\ ~metadataEmitted'
            /\ Len(written') = Len(logged') + Len(pipe')
        BY <3>1, <3>2
      <4>2. ASSUME NEW i \in 1..Len(pipe')
            PROVE  pipe'[i] = written'[Len(logged') + i]
        <5>1. i \in 1..Len(pipe) \/ i = Len(pipe) + 1
          BY <3>2
        <5>2. Len(written) = Len(logged) + Len(pipe)
          OBVIOUS
        <5>3. CASE i \in 1..Len(pipe)
          <6>1. Len(logged) + i \in 1..Len(written)
            BY <5>2, <5>3
          <6>2. QED
            BY <3>1, <3>2, <5>3, <6>1
        <5>4. CASE i = Len(pipe) + 1
          BY <3>1, <3>2, <5>2, <5>4
        <5>5. QED
          BY <5>1, <5>3, <5>4
      <4>3. QED
        BY <4>1, <4>2
    <3>5. LogAtEnd'
      <4>1. opts.log /\ pc \in {"killing", "waiting", "touching", "copying"} => metadataEmitted
        BY <3>1
      <4>2. QED
        BY <3>1, <4>1
    <3>6. QED
      BY <3>3, <3>4, <3>5
  <2>9. CASE WriteOutput \/ CloseStderr
    <3>1. /\ UNCHANGED <<opts, pc, logged, metadataEmitted, written, pipe>>
          /\ stderrOpen' = stderrOpen \/ ~stderrOpen'
      BY <2>9 DEF WriteOutput, CloseStderr
    <3>2. LogPrefix' /\ LogAndPipe' /\ LogAtEnd'
      BY <3>1
    <3>3. QED
      BY <3>2
  <2>10. ASSUME NEW s \in {"success", "failure", "signal"}, Exit(s) PROVE LogInv'
    <3>1. /\ UNCHANGED <<opts, pc, logged, metadataEmitted, written, pipe>>
          /\ ~stderrOpen'
      BY <2>10 DEF Exit
    <3>2. LogPrefix' /\ LogAndPipe' /\ LogAtEnd'
      BY <3>1
    <3>3. QED
      BY <3>2
  <2>11. CASE Ended \/ UNCHANGED vars
    <3>1. UNCHANGED <<opts, pc, logged, metadataEmitted, written, pipe, stderrOpen>>
      BY <2>11 DEF Ended, vars
    <3>2. QED
      BY <3>1
  <2>12. QED
    BY <2>2, <2>3, <2>4, <2>5, <2>6, <2>7, <2>8, <2>9, <2>10, <2>11
       DEF Next, WrapperStep, ChildStep
<1>3. QED
  BY <1>1, <1>2, TypeCorrect, PTL DEF Spec

LEMMA Prefix ==
  ASSUME NEW S, NEW s \in Seq(S), NEW r \in Seq(S), Len(r) <= Len(s),
         \A i \in 1..Len(r) : r[i] = s[i]
  PROVE  r = SubSeq(s, 1, Len(r)) /\ (Len(r) = Len(s) => r = s)
OBVIOUS

(* output_file holds a beginning of what the child wrote, whatever was made of it,
   and all of it, or all up to the metadata, when the child's status decides. *)
THEOREM WrapperLogFaithful == Spec => []LogFaithful
<1>1. TypeOK /\ LogInv => LogFaithful
  <2> SUFFICES ASSUME TypeOK, LogInv, opts.log
               PROVE  LogFaithful
    BY DEF LogFaithful
  <2>1. logged \in Seq(LineKind) /\ written \in Seq(LineKind)
    BY DEF TypeOK, Types
  <2>2. /\ Len(logged) <= Len(written)
        /\ logged = SubSeq(written, 1, Len(logged))
        /\ Len(logged) = Len(written) => logged = written
    BY <2>1, Prefix DEF LogInv, LogPrefix
  <2>3. QED
    BY <2>2 DEF LogFaithful, LogInv, LogAtEnd
<1>2. QED
  BY <1>1, TypeCorrect, LogInvHolds, PTL
-----------------------------------------------------------------------------
(***************************************************************************)
(* Why every diagnostic is forwarded once and in order: what is in the     *)
(* pipe is the end of what the child wrote, whatever main() does; while it *)
(* reads lines no bad one was consumed, while it drains one was; and it    *)
(* waits for a child it did not kill only once the pipe is empty for good. *)
(***************************************************************************)
PipeIsRest ==
  /\ Len(pipe) <= Len(written)
  /\ \A i \in 1..Len(pipe) : pipe[i] = written[Len(written) - Len(pipe) + i]

LoopAt ==
  /\ pc \in {"start", "opening", "reading"} => Bad(Consumed) = {}
  /\ pc = "draining" => Bad(Consumed) # {}

PipeAtEnd ==
  /\ pc \in {"start", "opening", "reading", "draining"} => error = "none"
  /\ pc \in {"waiting", "touching", "copying"} /\ ~wasKilled => pipe = <<>> /\ ~stderrOpen
  /\ pc = "ended" /\ error \notin {"setup", "io"} /\ ~wasKilled =>
       pipe = <<>> /\ ~stderrOpen

DeliveryInv ==
  /\ PipeIsRest /\ LoopAt /\ PipeAtEnd
  /\ error # "io" => IsSelection(forwarded, Consumed, Delivered)

LEMMA SelectionGrows ==
  ASSUME NEW S, NEW t \in Seq(S), NEW s \in Seq(S), NEW x \in S,
         NEW D \in SUBSET (1..Len(s)), IsSelection(t, s, D)
  PROVE  /\ IsSelection(t, Append(s, x), D)
         /\ IsSelection(Append(t, x), Append(s, x), D \union {Len(s) + 1})
<1> DEFINE n == Len(s) + 1
           E == D \union {n}
<1>1. PICK place \in [DOMAIN t -> D] :
        /\ \A j, k \in DOMAIN t : j < k => place[j] < place[k]
        /\ \A i \in D : \E k \in DOMAIN t : place[k] = i
        /\ \A k \in DOMAIN t : t[k] = s[place[k]]
  BY DEF IsSelection
<1>2. /\ DOMAIN t = 1..Len(t) /\ Len(t) \in Nat /\ Len(s) \in Nat
      /\ \A k \in DOMAIN t : place[k] \in 1..Len(s)
  <2>1. \A k \in DOMAIN t : place[k] \in D
    OBVIOUS
  <2>2. DOMAIN t = 1..Len(t) /\ Len(t) \in Nat /\ Len(s) \in Nat
    OBVIOUS
  <2>3. QED
    BY <2>1, <2>2
<1>3. \A i \in 1..Len(s) : Append(s, x)[i] = s[i]
  OBVIOUS
<1>4. IsSelection(t, Append(s, x), D)
  <2>1. \A k \in DOMAIN t : t[k] = Append(s, x)[place[k]]
    BY <1>1, <1>2, <1>3
  <2>2. QED
    BY <1>1, <2>1 DEF IsSelection
<1>5. IsSelection(Append(t, x), Append(s, x), E)
  <2> DEFINE u == Append(t, x)
             next == [k \in DOMAIN u |-> IF k \in DOMAIN t THEN place[k] ELSE n]
  <2>1. /\ DOMAIN u = 1..(Len(t) + 1) /\ u[Len(t) + 1] = x
        /\ \A k \in 1..Len(t) : u[k] = t[k]
    OBVIOUS
  <2>2. \A k \in DOMAIN u : k \in DOMAIN t \/ k = Len(t) + 1
    BY <1>2, <2>1
  <2>3. /\ \A k \in DOMAIN t : k \in DOMAIN u /\ next[k] = place[k]
        /\ Len(t) + 1 \in DOMAIN u /\ next[Len(t) + 1] = n
    BY <1>2, <2>1
  <2>4. next \in [DOMAIN u -> E]
    BY <1>2
  <2>5. ASSUME NEW j \in DOMAIN u, NEW k \in DOMAIN u, j < k
        PROVE  next[j] < next[k]
    <3>1. j \in DOMAIN t
      BY <1>2, <2>1, <2>5
    <3>2. CASE k \in DOMAIN t
      BY <1>1, <2>3, <2>5, <3>1, <3>2
    <3>3. CASE k = Len(t) + 1
      <4>1. place[j] < n
        BY <1>2, <3>1
      <4>2. QED
        BY <2>3, <3>1, <3>3, <4>1
    <3>4. QED
      BY <2>2, <3>2, <3>3
  <2>6. ASSUME NEW i \in E PROVE \E k \in DOMAIN u : next[k] = i
    <3>1. CASE i \in D
      BY <1>1, <2>3, <3>1
    <3>2. CASE i = n
      BY <2>3, <3>2
    <3>3. QED
      BY <3>1, <3>2
  <2>7. ASSUME NEW k \in DOMAIN u PROVE u[k] = Append(s, x)[next[k]]
    <3>1. CASE k \in DOMAIN t
      BY <1>1, <1>2, <1>3, <2>1, <2>3, <3>1
    <3>2. CASE k = Len(t) + 1
      <4>1. Append(s, x)[n] = x
        OBVIOUS
      <4>2. QED
        BY <2>1, <2>3, <3>2, <4>1
    <3>3. QED
      BY <2>2, <3>1, <3>2
  <2> HIDE DEF next, u, E
  <2>8. IsSelection(u, Append(s, x), E)
    BY <2>4, <2>5, <2>6, <2>7 DEF IsSelection
  <2>9. QED
    BY <2>8 DEF u
<1>6. QED
  BY <1>4, <1>5

(* A step that takes the first line of the pipe consumes that line. *)
LEMMA ConsumedGrows ==
  ASSUME TypeOK, PipeIsRest, pipe # <<>>, pipe' = Tail(pipe), written' = written
  PROVE  /\ PipeIsRest'
         /\ Consumed \in Seq(LineKind) /\ Head(pipe) \in LineKind
         /\ Consumed' = Append(Consumed, Head(pipe))
<1>1. /\ pipe \in Seq(LineKind) /\ written \in Seq(LineKind)
      /\ Len(pipe) \in Nat /\ Len(written) \in Nat /\ Len(pipe) >= 1
      /\ Len(pipe') = Len(pipe) - 1 /\ Head(pipe) = pipe[1] /\ Head(pipe) \in LineKind
      /\ \A i \in 1..Len(pipe') : pipe'[i] = pipe[i + 1]
  BY DEF TypeOK, Types
<1> DEFINE n == Len(written) - Len(pipe)
<1>2. n \in Nat /\ n + 1 <= Len(written) /\ Len(written) - Len(pipe') = n + 1
  BY <1>1 DEF PipeIsRest
<1>3. PipeIsRest'
  <2>1. Len(pipe') <= Len(written')
    BY <1>1 DEF PipeIsRest
  <2>2. ASSUME NEW i \in 1..Len(pipe')
        PROVE  pipe'[i] = written'[Len(written') - Len(pipe') + i]
    <3>1. i + 1 \in 1..Len(pipe) /\ pipe'[i] = pipe[i + 1]
      BY <1>1
    <3>2. pipe[i + 1] = written[n + (i + 1)] /\ n + (i + 1) = n + 1 + i
      BY <1>2, <3>1 DEF PipeIsRest
    <3>3. QED
      BY <1>2, <3>1, <3>2
  <2>3. QED
    BY <2>1, <2>2 DEF PipeIsRest
<1>4. Head(pipe) = written[n + 1]
  BY <1>1, <1>2 DEF PipeIsRest
<1>5. Consumed \in Seq(LineKind) /\ Len(Consumed) = n /\ \A i \in 1..n : Consumed[i] = written[i]
  BY <1>1, <1>2 DEF Consumed
<1>6. /\ Consumed' \in Seq(LineKind) /\ Len(Consumed') = n + 1
      /\ \A i \in 1..(n + 1) : Consumed'[i] = written[i]
  BY <1>1, <1>2 DEF Consumed
<1>7. Consumed' = Append(Consumed, Head(pipe))
  <2> DEFINE a == Append(Consumed, Head(pipe))
  <2>1. a \in Seq(LineKind) /\ Len(a) = n + 1 /\ a[n + 1] = Head(pipe)
        /\ \A i \in 1..n : a[i] = Consumed[i]
    BY <1>1, <1>2, <1>5
  <2>2. \A i \in 1..(n + 1) : i \in 1..n \/ i = n + 1
    BY <1>2
  <2>3. \A i \in 1..(n + 1) : a[i] = Consumed'[i]
    BY <1>4, <1>5, <1>6, <2>1, <2>2
  <2>4. a \in Seq(LineKind) /\ Len(Consumed') <= Len(a) /\ Len(Consumed') = Len(a)
        /\ \A i \in 1..Len(Consumed') : Consumed'[i] = a[i]
    BY <1>2, <1>6, <2>1, <2>3
  <2> HIDE DEF a
  <2>5. Consumed' = a
    BY <1>6, <2>4, Prefix
  <2>6. QED
    BY <2>5 DEF a
<1>8. QED
  BY <1>1, <1>3, <1>5, <1>7

(* What one more consumed line makes of the bad and the delivered ones. *)
LEMMA DeliveredGrows ==
  ASSUME TypeOK, Consumed \in Seq(LineKind), NEW line \in LineKind, opts' = opts,
         Consumed' = Append(Consumed, line)
  PROVE  LET n == Len(Consumed) + 1 IN
           /\ Bad(Consumed)' = Bad(Consumed) \union (IF IsError(line) THEN {n} ELSE {})
           /\ Delivered' = Delivered \union
                (IF IsMessage(line) \/ IsError(line) \/ Bad(Consumed) # {} THEN {n} ELSE {})
<1> DEFINE n == Len(Consumed) + 1
<1>1. /\ Len(Consumed) \in Nat /\ DOMAIN Consumed = 1..Len(Consumed)
      /\ DOMAIN Consumed' = 1..n /\ Consumed'[n] = line
      /\ \A i \in 1..Len(Consumed) : Consumed'[i] = Consumed[i]
  OBVIOUS
<1>2. DOMAIN Consumed' = DOMAIN Consumed \union {n} /\ n \notin DOMAIN Consumed
  BY <1>1
<1>3. /\ \A l : IsError(l)' <=> IsError(l)
      /\ \A l : IsMessage(l)' <=> IsMessage(l)
  BY DEF IsError, IsMessage
<1> HIDE DEF n
<1>4. Bad(Consumed)' = Bad(Consumed) \union (IF IsError(line) THEN {n} ELSE {})
  BY <1>1, <1>2 DEF Bad, IsError
<1>5. ASSUME NEW i \in DOMAIN Consumed
      PROVE  i \in Delivered' <=> i \in Delivered
  <2>1. Consumed'[i] = Consumed[i] /\ ~(n <= i) /\ i \in DOMAIN Consumed'
    BY <1>1, <1>2 DEF n
  <2>2. QED
    BY <1>4, <2>1 DEF Delivered, IsMessage
<1>6. n \in Delivered' <=> IsMessage(line) \/ IsError(line) \/ Bad(Consumed) # {}
  <2>1. \A b \in Bad(Consumed) : b <= n
    BY <1>1 DEF Bad, n
  <2>2. n <= n
    BY <1>1 DEF n
  <2>3. n \in Delivered' <=> IsMessage(line) \/ \E b \in Bad(Consumed)' : b <= n
    BY <1>1, <1>2 DEF Delivered, IsMessage
  <2>4. QED
    BY <1>4, <2>1, <2>2, <2>3
<1>7. Delivered \subseteq DOMAIN Consumed /\ Delivered' \subseteq DOMAIN Consumed'
  BY DEF Delivered
<1>8. Delivered' = Delivered \union
        (IF IsMessage(line) \/ IsError(line) \/ Bad(Consumed) # {} THEN {n} ELSE {})
  BY <1>2, <1>5, <1>6, <1>7
<1>9. QED
  BY <1>4, <1>8 DEF n

(* Consumed and what is delivered of it change only when the pipe is read. *)
LEMMA ConsumedStays ==
  ASSUME TypeOK, opts' = opts,
         \/ UNCHANGED <<pipe, written>>
         \/ \E line \in LineKind : pipe' = Append(pipe, line) /\ written' = Append(written, line),
         PipeIsRest
  PROVE  /\ PipeIsRest'
         /\ Consumed' = Consumed /\ Delivered' = Delivered
         /\ Bad(Consumed)' = Bad(Consumed)
<1>1. /\ pipe \in Seq(LineKind) /\ written \in Seq(LineKind)
      /\ Len(pipe) \in Nat /\ Len(written) \in Nat /\ Len(pipe) <= Len(written)
  BY DEF TypeOK, Types, PipeIsRest
<1>2. PipeIsRest' /\ Consumed' = Consumed
  <2>1. CASE UNCHANGED <<pipe, written>>
    BY <2>1 DEF PipeIsRest, Consumed
  <2>2. ASSUME NEW line \in LineKind, pipe' = Append(pipe, line),
               written' = Append(written, line)
        PROVE  PipeIsRest' /\ Consumed' = Consumed
    <3> DEFINE n == Len(written) - Len(pipe)
    <3>1. /\ n \in Nat /\ n <= Len(written)
          /\ written' \in Seq(LineKind) /\ pipe' \in Seq(LineKind)
          /\ Len(written') = Len(written) + 1 /\ Len(pipe') = Len(pipe) + 1
          /\ Len(written') - Len(pipe') = n
          /\ pipe'[Len(pipe) + 1] = line /\ written'[Len(written) + 1] = line
          /\ \A i \in 1..Len(pipe) : pipe'[i] = pipe[i]
          /\ \A i \in 1..Len(written) : written'[i] = written[i]
      BY <1>1, <2>2
    <3>2. ASSUME NEW i \in 1..Len(pipe') PROVE pipe'[i] = written'[n + i]
      <4>1. CASE i \in 1..Len(pipe)
        <5>1. n + i \in 1..Len(written) /\ pipe[i] = written[n + i]
          BY <1>1, <3>1, <4>1 DEF PipeIsRest
        <5>2. QED
          BY <3>1, <4>1, <5>1
      <4>2. CASE i = Len(pipe) + 1
        <5>1. n + i = Len(written) + 1
          BY <1>1, <4>2
        <5>2. QED
          BY <3>1, <4>2, <5>1
      <4>3. QED
        BY <1>1, <3>1, <4>1, <4>2
    <3>3. PipeIsRest'
      BY <1>1, <3>1, <3>2 DEF PipeIsRest
    <3>4. Consumed' = SubSeq(written', 1, n) /\ Consumed = SubSeq(written, 1, n)
      BY <3>1 DEF Consumed
    <3> HIDE DEF n
    <3>5. /\ Consumed' \in Seq(LineKind) /\ Consumed \in Seq(LineKind)
          /\ Len(Consumed') = n /\ Len(Consumed) = n
          /\ \A i \in 1..n : Consumed'[i] = Consumed[i]
      BY <1>1, <3>1, <3>4
    <3>6. Len(Consumed') <= Len(Consumed) /\ Len(Consumed') = Len(Consumed)
      BY <3>1, <3>5
    <3>7. Consumed' = Consumed
      BY <3>5, <3>6, Prefix
    <3>8. QED
      BY <3>3, <3>7
  <2>3. QED
    BY <2>1, <2>2
<1>3. Bad(Consumed)' = Bad(Consumed)
  BY <1>2 DEF Bad, IsError
<1>4. Delivered' = Delivered
  BY <1>2, <1>3 DEF Delivered, IsMessage
<1>5. QED
  BY <1>2, <1>3, <1>4

(* A step that leaves the pipe's reading end and what is forwarded alone. *)
LEMMA NotReading ==
  ASSUME TypeOK, DeliveryInv, opts' = opts, forwarded' = forwarded,
         \/ UNCHANGED <<pipe, written>>
         \/ \E line \in LineKind : pipe' = Append(pipe, line) /\ written' = Append(written, line),
         \/ pc' = pc
         \/ pc' \notin {"start", "opening", "reading", "draining"}
         \/ pc \in {"start", "opening"} /\ pc' \in {"opening", "reading"},
         error' # "io" => error # "io", PipeAtEnd'
  PROVE  DeliveryInv'
<1>1. /\ PipeIsRest'
      /\ Consumed' = Consumed /\ Delivered' = Delivered
      /\ Bad(Consumed)' = Bad(Consumed)
  BY ConsumedStays DEF DeliveryInv
<1>2. LoopAt'
  BY <1>1 DEF DeliveryInv, LoopAt
<1>3. error' # "io" => IsSelection(forwarded', Consumed', Delivered')
  BY <1>1 DEF DeliveryInv
<1>4. QED
  BY <1>1, <1>2, <1>3 DEF DeliveryInv

LEMMA DeliveryInvHolds == Spec => []DeliveryInv
<1>1. Init => DeliveryInv
  <2> SUFFICES ASSUME Init PROVE DeliveryInv
    OBVIOUS
  <2>1. /\ pipe = <<>> /\ written = <<>> /\ forwarded = <<>> /\ pc = "start"
        /\ error = "none"
    BY DEF Init
  <2>2. Len(written) - Len(pipe) = 0 /\ Consumed = <<>>
    BY <2>1 DEF Consumed
  <2>3. PipeIsRest /\ PipeAtEnd
    BY <2>1 DEF PipeIsRest, PipeAtEnd
  <2>4. Bad(Consumed) = {} /\ Delivered = {}
    BY <2>2 DEF Bad, Delivered
  <2>5. IsSelection(<<>>, <<>>, {})
    <3>1. <<>> \in [DOMAIN <<>> -> {}]
      OBVIOUS
    <3>2. \A k \in DOMAIN <<>> : FALSE
      OBVIOUS
    <3>3. QED
      BY <3>1, <3>2 DEF IsSelection
  <2>6. QED
    BY <2>1, <2>2, <2>3, <2>4, <2>5 DEF DeliveryInv, LoopAt
<1>2. TypeOK /\ DeliveryInv /\ [Next]_vars => DeliveryInv'
  <2> SUFFICES ASSUME TypeOK, DeliveryInv, [Next]_vars
               PROVE  DeliveryInv'
    OBVIOUS
  <2>1. opts' = opts
    BY OptsFixed
  <2>2. PipeIsRest /\ LoopAt /\ PipeAtEnd /\ Places
    BY DEF DeliveryInv, TypeOK
  <2>3. CASE ReadLine
    <3> DEFINE line == Head(pipe)
               n == Len(Consumed) + 1
    <3>1. /\ pc = "reading" /\ pipe # <<>> /\ pipe' = Tail(pipe)
          /\ UNCHANGED <<error, wasKilled, written>>
          /\ \/ IsMessage(line) /\ forwarded' = Append(forwarded, line) /\ pc' = pc
             \/ IsSkip(line) /\ UNCHANGED <<pc, forwarded>>
             \/ IsTerminate(line) /\ pc' = "killing" /\ forwarded' = forwarded
             \/ IsError(line) /\ forwarded' = Append(forwarded, line) /\ pc' = "draining"
      BY <2>3 DEF ReadLine, childVars
    <3>2. /\ error = "none" /\ Bad(Consumed) = {} /\ IsSelection(forwarded, Consumed, Delivered)
      BY <2>2, <3>1 DEF DeliveryInv, LoopAt, PipeAtEnd
    <3>3. /\ PipeIsRest'
          /\ Consumed \in Seq(LineKind) /\ line \in LineKind
          /\ Consumed' = Append(Consumed, line)
      BY <2>2, <3>1, ConsumedGrows
    <3> HIDE DEF line, n
    <3>4. /\ Bad(Consumed)' = (IF IsError(line) THEN {n} ELSE {})
          /\ Delivered' = Delivered \union (IF IsMessage(line) \/ IsError(line) THEN {n} ELSE {})
      BY <2>1, <3>2, <3>3, DeliveredGrows DEF n
    <3>5. /\ IsSelection(forwarded, Consumed', Delivered)
          /\ IsSelection(Append(forwarded, line), Consumed', Delivered \union {n})
      <4>1. Delivered \in SUBSET (1..Len(Consumed)) /\ forwarded \in Seq(LineKind)
        BY <3>3 DEF Delivered, TypeOK, Types
      <4>2. QED
        BY <3>2, <3>3, <4>1, SelectionGrows DEF n
    <3>6. /\ IsSkip(line) \/ IsTerminate(line) => ~IsMessage(line) /\ ~IsError(line)
          /\ IsError(line) => ~IsMessage(line) /\ ~IsSkip(line) /\ ~IsTerminate(line)
          /\ IsMessage(line) => ~IsError(line)
      BY DEF IsSkip, IsTerminate, IsMessage, IsError, Quits
    <3>7. IsSelection(forwarded', Consumed', Delivered')
      BY <3>1, <3>4, <3>5, <3>6
    <3>8. LoopAt'
      BY <3>1, <3>4, <3>6 DEF LoopAt
    <3>9. PipeAtEnd'
      BY <3>1, <3>2 DEF PipeAtEnd
    <3>10. QED
      BY <3>3, <3>7, <3>8, <3>9 DEF DeliveryInv
  <2>4. CASE DrainLine
    <3> DEFINE line == Head(pipe)
               n == Len(Consumed) + 1
    <3>1. /\ pc = "draining" /\ pipe # <<>> /\ pipe' = Tail(pipe)
          /\ UNCHANGED <<pc, error, wasKilled, written>> /\ forwarded' = Append(forwarded, line)
      BY <2>4 DEF DrainLine, childVars
    <3>2. /\ error = "none" /\ Bad(Consumed) # {} /\ IsSelection(forwarded, Consumed, Delivered)
      BY <2>2, <3>1 DEF DeliveryInv, LoopAt, PipeAtEnd
    <3>3. /\ PipeIsRest'
          /\ Consumed \in Seq(LineKind) /\ line \in LineKind
          /\ Consumed' = Append(Consumed, line)
      BY <2>2, <3>1, ConsumedGrows
    <3> HIDE DEF line, n
    <3>4. /\ Bad(Consumed)' # {}
          /\ Delivered' = Delivered \union {n}
      BY <2>1, <3>2, <3>3, DeliveredGrows DEF n
    <3>5. Delivered \in SUBSET (1..Len(Consumed)) /\ forwarded \in Seq(LineKind)
      BY <3>3 DEF Delivered, TypeOK, Types
    <3>6. IsSelection(forwarded', Consumed', Delivered')
      BY <3>1, <3>2, <3>3, <3>4, <3>5, SelectionGrows DEF n
    <3>7. LoopAt' /\ PipeAtEnd'
      BY <3>1, <3>2, <3>4 DEF LoopAt, PipeAtEnd
    <3>8. QED
      BY <3>3, <3>6, <3>7 DEF DeliveryInv
  <2>5. CASE ReadFails \/ DrainFails
    <3>1. /\ pipe # <<>> /\ pipe' = Tail(pipe) /\ written' = written
          /\ pc' = "ended" /\ error' = "io"
      BY <2>5 DEF ReadFails, DrainFails, Abort, childVars
    <3>2. PipeIsRest'
      BY <2>2, <3>1, ConsumedGrows
    <3>3. QED
      BY <3>1, <3>2 DEF DeliveryInv, LoopAt, PipeAtEnd
  <2>6. ASSUME NEW line \in Line, WriteLine(line) PROVE DeliveryInv'
    <3>1. /\ pipe' = Append(pipe, line) /\ written' = Append(written, line) /\ stderrOpen
          /\ UNCHANGED <<pc, error, wasKilled, forwarded, stderrOpen>>
      BY <2>6 DEF WriteLine, wrapperVars
    <3>2. line \in LineKind
      BY WrapperAssumption
    <3>3. PipeAtEnd'
      BY <2>2, <3>1 DEF PipeAtEnd
    <3>4. QED
      BY <2>1, <3>1, <3>2, <3>3, NotReading
  <2>7. CASE WriteOutput \/ CloseStderr \/ Ended \/ UNCHANGED vars
    <3>1. /\ UNCHANGED <<pipe, written, pc, error, wasKilled, forwarded>>
          /\ stderrOpen' => stderrOpen
      BY <2>7 DEF WriteOutput, CloseStderr, Ended, vars, wrapperVars, childVars
    <3>2. PipeAtEnd'
      BY <2>2, <3>1 DEF PipeAtEnd
    <3>3. QED
      BY <2>1, <3>1, <3>2, NotReading
  <2>8. ASSUME NEW s \in {"success", "failure", "signal"}, Exit(s) PROVE DeliveryInv'
    <3>1. UNCHANGED <<pipe, written, pc, error, wasKilled, forwarded>> /\ ~stderrOpen'
      BY <2>8 DEF Exit, wrapperVars
    <3>2. PipeAtEnd'
      BY <2>2, <3>1 DEF PipeAtEnd
    <3>3. QED
      BY <2>1, <3>1, <3>2, NotReading
  <2>9. CASE SpawnFails \/ Spawn \/ OpenFails \/ OpenFiles
    <3>1. /\ UNCHANGED <<pipe, written, wasKilled, forwarded>>
          /\ pc \in {"start", "opening"}
          /\ \/ pc' \in {"opening", "reading"} /\ error' = error
             \/ pc' = "ended" /\ error' = "setup"
      BY <2>9 DEF SpawnFails, Spawn, OpenFails, OpenFiles, Abort, childVars
    <3>2. PipeAtEnd' /\ error = "none"
      BY <2>2, <3>1 DEF PipeAtEnd
    <3>3. QED
      BY <2>1, <3>1, <3>2, NotReading
  <2>10. CASE DrainEnds \/ EndOfOutput
    <3>1. /\ UNCHANGED <<pipe, written, wasKilled, forwarded, stderrOpen>>
          /\ pc \in {"reading", "draining"} /\ pipe = <<>> /\ ~stderrOpen
          /\ \/ pc' = "waiting" /\ error' = error
             \/ pc' = "ended" /\ error' = "process"
      BY <2>10 DEF DrainEnds, EndOfOutput, AtEof, Abort, childVars
    <3>2. PipeAtEnd' /\ error = "none"
      BY <2>2, <3>1 DEF PipeAtEnd
    <3>3. QED
      BY <2>1, <3>1, <3>2, NotReading
  <2>11. CASE Kill
    <3>1. /\ UNCHANGED <<pipe, written, error, forwarded>> /\ wasKilled' = TRUE
          /\ pc' = "waiting"
      BY <2>11 DEF Kill
    <3>2. PipeAtEnd'
      BY <3>1 DEF PipeAtEnd
    <3>3. QED
      BY <2>1, <3>1, <3>2, NotReading
  <2>12. CASE Wait \/ TouchFile \/ TouchFails \/ CopyOutput \/ CopyFails
    <3>1. /\ UNCHANGED <<pipe, written, wasKilled, forwarded, stderrOpen>>
          /\ pc \in {"waiting", "touching", "copying"}
          /\ pc' \in {"touching", "copying", "ended"}
          /\ error' = error \/ error' \in {"touch", "copy"}
      BY <2>12 DEF Wait, TouchFile, TouchFails, CopyOutput, CopyFails, Abort, childVars
    <3>2. PipeAtEnd'
      BY <2>2, <3>1 DEF PipeAtEnd
    <3>3. error # "io"
      BY <2>2, <3>1 DEF Places
    <3>4. QED
      BY <2>1, <3>1, <3>2, <3>3, NotReading
  <2>13. QED
    BY <2>3, <2>4, <2>5, <2>6, <2>7, <2>8, <2>9, <2>10, <2>11, <2>12
       DEF Next, WrapperStep, ChildStep
<1>3. QED
  BY <1>1, <1>2, TypeCorrect, PTL DEF Spec

(***************************************************************************)
(* Whatever the child writes and however its writing, the reading, a kill  *)
(* and failures interleave: every message reaches the user once and in     *)
(* order, and so does all that is read from a bad line on.  output_file    *)
(* has the lines the child wrote, in order, as far as they were read, a    *)
(* bad line being the last: all of them when the child's status decides    *)
(* the exit code, or those up to the metadata.                             *)
(***************************************************************************)
THEOREM WrapperKeepsOutput == Spec => []OutputKept
<1>1. DeliveryInv => DiagnosticsDelivered
  BY DEF DeliveryInv, PipeAtEnd, DiagnosticsDelivered
<1>2. QED
  BY <1>1, DeliveryInvHolds, WrapperLogFaithful, PTL DEF OutputKept
-----------------------------------------------------------------------------
(***************************************************************************)
(* A run of the wrapper from its first flag on: whatever the command line, *)
(* the files and the environment are, it is a run of ProcessWrapper, and   *)
(* all that is proved of ProcessWrapper holds of it.                       *)
(***************************************************************************)
LEMMA InitImplements == LaunchInit => Init
  BY DEF LaunchInit

(* Parsing is a stuttering step, or the failure of main() before the spawn. *)
LEMMA ParseImplements == ParseStep => SpawnFails \/ UNCHANGED vars
  BY DEF ParseStep, ParseFlag, FlagRefused, ParseEnds, OptionsUsed, OptionsRefused, Refuse

LEMMA StepImplements == [LaunchNext]_allVars => [Next]_vars
<1> SUFFICES ASSUME [LaunchNext]_allVars PROVE [Next]_vars
  OBVIOUS
<1>1. CASE ParseStep
  BY <1>1, ParseImplements DEF Next, WrapperStep
<1>2. CASE Run(WrapperStep) \/ Run(ChildStep)
  BY <1>2 DEF Run, Next
<1>3. CASE LaunchEnded
  BY <1>3 DEF LaunchEnded, Next
<1>4. CASE UNCHANGED allVars
  BY <1>4 DEF allVars
<1> QED
  BY <1>1, <1>2, <1>3, <1>4 DEF LaunchNext

(***************************************************************************)
(* main() with its options implements main() after them: parsing the       *)
(* command line adds no behaviour to the run (main.rs, options.rs).        *)
(***************************************************************************)
THEOREM LaunchImplements == LaunchSpec => Spec
  BY InitImplements, StepImplements, PTL DEF LaunchSpec, Spec

(***************************************************************************)
(* For every command line, well or badly formed: exit code, marker file    *)
(* and the end of the child agree.                                         *)
(***************************************************************************)
THEOREM LaunchOutcome == LaunchSpec => []OutcomeSound
BY LaunchImplements, WrapperOutcome, PTL

(***************************************************************************)
(* For every command line: wrapper and child together are a CompileAction. *)
(***************************************************************************)
THEOREM LaunchRefines == LaunchSpec => RefinesCompileAction
  BY LaunchImplements, WrapperRefines, PTL

(***************************************************************************)
(* For every command line: the diagnostics reach the user once and in      *)
(* order, and output_file is what the child wrote.                         *)
(***************************************************************************)
THEOREM LaunchKeepsOutput == LaunchSpec => []OutputKept
  BY LaunchImplements, WrapperKeepsOutput, PTL
-----------------------------------------------------------------------------
(***************************************************************************)
(* Induction, and functions that recur on a number.                        *)
(***************************************************************************)
Less == {pair \in Nat \X Nat : pair[1] < pair[2]}

\* Induction on a number, as a fact about a set of numbers.
LEMMA Induct ==
  ASSUME NEW S, 0 \in S, \A n \in Nat : n \in S => n + 1 \in S
  PROVE  Nat \subseteq S
<1> SUFFICES ASSUME Nat \ S # {} PROVE FALSE
  OBVIOUS
<1>1. IsWellFoundedOn(Less, Nat)
  BY NatLessThanWellFounded DEF OpToRel, Less
<1>2. PICK n \in Nat \ S : \A m \in Nat \ S : ~(<<m, n>> \in Less)
  BY <1>1, WFMin
<1>3. n # 0 /\ n - 1 \in Nat /\ n - 1 + 1 = n
  BY <1>2
<1>4. n - 1 \in S
  <2> SUFFICES ASSUME n - 1 \in Nat \ S PROVE FALSE
    BY <1>3
  <2>1. <<n - 1, n>> \in Nat \X Nat /\ <<n - 1, n>>[1] = n - 1 /\ <<n - 1, n>>[2] = n
    BY <1>2, <1>3
  <2>2. <<n - 1, n>> \in Less
    BY <1>2, <2>1 DEF Less
  <2>3. QED
    BY <1>2, <2>2
<1>5. QED
  BY <1>2, <1>3, <1>4

\* The same up to a bound.
LEMMA InductTo ==
  ASSUME NEW N \in Nat, NEW S, 0 \in S, \A n \in 1..N : n - 1 \in S => n \in S
  PROVE  \A n \in 0..N : n \in S
<1> DEFINE T == {n \in Nat : n <= N => n \in S}
<1>1. 0 \in T
  OBVIOUS
<1>2. ASSUME NEW n \in Nat, n \in T PROVE n + 1 \in T
  <2> SUFFICES ASSUME n + 1 <= N PROVE n + 1 \in S
    OBVIOUS
  <2>1. n + 1 \in 1..N /\ n + 1 - 1 = n /\ n <= N
    OBVIOUS
  <2>2. QED
    BY <1>2, <2>1
<1> HIDE DEF T
<1>3. Nat \subseteq T
  BY <1>1, <1>2, Induct
<1>4. QED
  BY <1>3 DEF T

Steps(G, N, V) == \A n \in 1..N : G[n] \in [V -> V]
Recurs(f, N, V, base, G) == f \in [0..N -> V] /\ f[0] = base /\ \A n \in 1..N : f[n] = G[n][f[n - 1]]

\* What recurs by functions on a set of values exists.
LEMMA Recursion ==
  ASSUME NEW N \in Nat, NEW V, NEW base \in V, NEW G, Steps(G, N, V)
  PROVE  \E f : Recurs(f, N, V, base, G)
<1> DEFINE Right(f, n) == Recurs(f, n, V, base, G)
           S == {n \in Nat : \E f : Right(f, n)}
<1>1. 0 \in S
  <2> DEFINE f == [n \in 0..0 |-> base]
  <2>1. Right(f, 0)
    BY DEF Recurs
  <2>2. QED
    BY <2>1, Zenon
<1>2. ASSUME NEW n \in 1..N, n - 1 \in S PROVE n \in S
  <2>0. PICK f : Right(f, n - 1)
    BY <1>2
  <2>1. f \in [0..(n - 1) -> V] /\ f[0] = base /\ \A k \in 1..(n - 1) : f[k] = G[k][f[k - 1]]
    BY <2>0, Zenon DEF Recurs
  <2> DEFINE g == [k \in 0..n |-> IF k = n THEN G[n][f[n - 1]] ELSE f[k]]
  <2>2. f[n - 1] \in V
    BY <2>1
  <2>3. G[n][f[n - 1]] \in V
    BY <2>2 DEF Steps
  <2>4. g \in [0..n -> V] /\ g[0] = base
    BY <2>1, <2>3
  <2>5. \A k \in 1..n : g[k] = G[k][g[k - 1]]
    <3> TAKE k \in 1..n
    <3>1. CASE k = n
      <4>1. g[k] = G[n][f[n - 1]] /\ g[k - 1] = f[n - 1]
        BY <3>1
      <4>2. QED
        BY <3>1, <4>1
    <3>2. CASE k # n
      <4>1. k \in 1..(n - 1) /\ g[k] = f[k] /\ g[k - 1] = f[k - 1]
        BY <3>2
      <4>2. QED
        BY <2>1, <4>1
    <3>3. QED
      BY <3>1, <3>2
  <2> HIDE DEF g
  <2>6. Right(g, n)
    BY <2>4, <2>5, Zenon DEF Recurs
  <2>7. n \in Nat
    OBVIOUS
  <2> HIDE DEF Right
  <2>8. QED
    BY <2>6, <2>7, Zenon
<1> HIDE DEF S
<1>3. \A n \in 0..N : n \in S
  BY <1>1, <1>2, InductTo
<1>4. QED
  BY <1>3 DEF S

\* Induction on a sequence, as a fact about a set of sequences.
LEMMA SeqInduct ==
  ASSUME NEW A, NEW P, <<>> \in P, \A s \in Seq(A) : s \in P => \A x \in A : Append(s, x) \in P
  PROVE  Seq(A) \subseteq P
<1> DEFINE S == {n \in Nat : \A s \in Seq(A) : Len(s) = n => s \in P}
<1>1. 0 \in S
  <2>1. \A s \in Seq(A) : Len(s) = 0 => s = <<>>
    OBVIOUS
  <2>2. QED
    BY <2>1
<1>2. ASSUME NEW n \in Nat, n \in S PROVE n + 1 \in S
  <2> SUFFICES ASSUME NEW s \in Seq(A), Len(s) = n + 1 PROVE s \in P
    OBVIOUS
  <2> DEFINE t == SubSeq(s, 1, n)
             x == s[n + 1]
  <2>1. t \in Seq(A) /\ Len(t) = n /\ x \in A /\ s = Append(t, x)
    OBVIOUS
  <2> HIDE DEF t, x
  <2>2. t \in P
    BY <1>2, <2>1
  <2>3. QED
    BY <2>1, <2>2
<1> HIDE DEF S
<1>3. Nat \subseteq S
  BY <1>1, <1>2, Induct
<1>4. \A s \in Seq(A) : Len(s) \in Nat
  OBVIOUS
<1>5. QED
  BY <1>3, <1>4 DEF S

(***************************************************************************)
(* A sequence of sequences made into one.                                  *)
(***************************************************************************)
Flattens(f, ss, S) ==
  /\ f \in [0..Len(ss) -> Seq(S)]
  /\ f[0] = <<>> /\ \A n \in 1..Len(ss) : f[n] = f[n - 1] \o ss[n]
  /\ FlattenSeq(ss) = f[Len(ss)]

\* FlattenSeq by its recursion.
LEMMA FlattenIs ==
  ASSUME NEW S, NEW ss \in Seq(Seq(S))
  PROVE  \E f : Flattens(f, ss, S)
<1> DEFINE N == Len(ss)
           G == [n \in 1..N |-> [v \in Seq(S) |-> v \o ss[n]]]
           Is(f) == f = [i \in 1..N |-> IF i = 1 THEN ss[i] ELSE f[i - 1] \o ss[i]]
           c == CHOOSE f : Is(f)
<1>1. N \in Nat /\ <<>> \in Seq(S) /\ \A n \in 1..N : ss[n] \in Seq(S)
  OBVIOUS
<1>2. Steps(G, N, Seq(S))
  BY <1>1 DEF Steps
<1>3. \A n \in 1..N : \A v \in Seq(S) : G[n][v] = v \o ss[n]
  OBVIOUS
<1> HIDE DEF G
<1>0. PICK f : Recurs(f, N, Seq(S), <<>>, G)
  BY <1>1, <1>2, Recursion
<1>4. f \in [0..N -> Seq(S)] /\ f[0] = <<>> /\ \A n \in 1..N : f[n] = G[n][f[n - 1]]
  BY <1>0, Zenon DEF Recurs
<1>5. \A n \in 1..N : f[n - 1] \in Seq(S) /\ f[n] = f[n - 1] \o ss[n]
  <2>1. \A n \in 1..N : f[n - 1] \in Seq(S)
    <3>1. \A n \in 1..N : n - 1 \in 0..N
      BY <1>1
    <3>2. QED
      BY <1>4, <3>1, Zenon
  <2>2. QED
    BY <1>3, <1>4, <2>1, Zenon
<1>50. N # 0 => f[1] = ss[1]
  <2> SUFFICES ASSUME N # 0 PROVE f[1] = ss[1]
    OBVIOUS
  <2>1. 1 \in 1..N /\ 1 - 1 = 0
    BY <1>1
  <2>2. f[1] = <<>> \o ss[1] /\ ss[1] \in Seq(S)
    BY <1>1, <1>4, <1>5, <2>1, Zenon
  <2>3. QED
    BY <2>2
<1>6. CASE N = 0
  <2>1. FlattenSeq(ss) = ss /\ ss = <<>>
    BY <1>6 DEF FlattenSeq
  <2>2. FlattenSeq(ss) = f[N]
    BY <1>4, <1>6, <2>1
  <2>3. QED
    BY <1>4, <1>5, <2>2, Zenon DEF Flattens
<1>7. CASE N # 0
  <2>1. FlattenSeq(ss) = c[N]
    BY <1>7, Zenon DEF FlattenSeq
  <2> DEFINE h == [i \in 1..N |-> f[i]]
  <2>2. \A i \in 1..N : h[i] = IF i = 1 THEN ss[i] ELSE h[i - 1] \o ss[i]
    <3> TAKE i \in 1..N
    <3>1. CASE i = 1
      BY <1>1, <1>50, <3>1
    <3>2. CASE i # 1
      <4>1. i - 1 \in 1..N
        BY <1>1, <3>2
      <4>2. QED
        BY <1>5, <3>2, <4>1
    <3>3. QED
      BY <3>1, <3>2
  <2>3. h = [i \in 1..N |-> h[i]]
    OBVIOUS
  <2> HIDE DEF h
  <2>4. Is(h)
    <3>1. [i \in 1..N |-> h[i]] = [i \in 1..N |-> IF i = 1 THEN ss[i] ELSE h[i - 1] \o ss[i]]
      BY <2>2, Zenon
    <3>2. QED
      BY <2>3, <3>1, Zenon
  <2>5. Is(c)
    BY <2>4, Zenon
  <2> HIDE DEF c
  <2>6. \A i \in 1..N : c[i] = IF i = 1 THEN ss[i] ELSE c[i - 1] \o ss[i]
    BY <2>5, Zenon
  <2>7. \A n \in 0..N : n \in {k \in 0..N : k # 0 => c[k] = f[k]}
    <3> DEFINE T == {k \in 0..N : k # 0 => c[k] = f[k]}
    <3>1. 0 \in T
      BY <1>1
    <3>2. ASSUME NEW n \in 1..N, n - 1 \in T PROVE n \in T
      <4>0. n \in 0..N
        OBVIOUS
      <4>1. CASE n = 1
        <5>1. c[n] = f[n]
          BY <1>1, <1>50, <2>6, <4>1
        <5>2. QED
          BY <4>0, <5>1, Zenon
      <4>2. CASE n # 1
        <5>1. n - 1 # 0
          BY <4>2
        <5>2. c[n - 1] = f[n - 1]
          BY <3>2, <5>1
        <5>3. c[n] = f[n]
          BY <1>5, <2>6, <4>2, <5>2, Zenon
        <5>4. QED
          BY <4>0, <5>3, Zenon
      <4>3. QED
        BY <4>1, <4>2
    <3> HIDE DEF T
    <3>3. QED
      BY <1>1, <3>1, <3>2, InductTo DEF T
  <2>8. c[N] = f[N]
    BY <1>1, <1>7, <2>7
  <2>9. QED
    BY <1>4, <1>5, <2>1, <2>8, Zenon DEF Flattens
<1>8. QED
  BY <1>6, <1>7

\* What one more sequence adds.
LEMMA FlattenAppend ==
  ASSUME NEW S, NEW ss \in Seq(Seq(S)), NEW x \in Seq(S)
  PROVE  /\ FlattenSeq(ss) \in Seq(S)
         /\ FlattenSeq(Append(ss, x)) = FlattenSeq(ss) \o x
         /\ FlattenSeq(<<>>) = <<>>
<1> DEFINE N == Len(ss)
           tt == Append(ss, x)
<1>1. N \in Nat /\ tt \in Seq(Seq(S)) /\ Len(tt) = N + 1 /\ tt[N + 1] = x /\ \A n \in 1..N : tt[n] = ss[n]
  OBVIOUS
<1>2. PICK f : Flattens(f, ss, S)
  BY FlattenIs
<1>3. PICK g : Flattens(g, tt, S)
  BY <1>1, FlattenIs
<1>4. /\ f \in [0..N -> Seq(S)] /\ f[0] = <<>> /\ FlattenSeq(ss) = f[N]
      /\ \A n \in 1..N : f[n] = f[n - 1] \o ss[n]
  BY <1>2, Zenon DEF Flattens
<1> HIDE DEF tt
<1>5. /\ g[0] = <<>> /\ FlattenSeq(tt) = g[N + 1]
      /\ \A n \in 1..(N + 1) : g[n] = g[n - 1] \o tt[n]
  BY <1>1, <1>3, Zenon DEF Flattens
<1> DEFINE T == {n \in 0..N : f[n] = g[n]}
<1>6. 0 \in T
  BY <1>1, <1>4, <1>5
<1>7. ASSUME NEW n \in 1..N, n - 1 \in T PROVE n \in T
  <2>1. n \in 1..(N + 1) /\ n \in 0..N
    BY <1>1
  <2>2. f[n] = g[n]
    BY <1>1, <1>4, <1>5, <1>7, <2>1, Zenon
  <2>3. QED
    BY <2>1, <2>2, Zenon
<1> HIDE DEF T
<1>8. \A n \in 0..N : n \in T
  BY <1>1, <1>6, <1>7, InductTo
<1>9. f[N] = g[N]
  <2>1. N \in 0..N
    BY <1>1
  <2>2. QED
    BY <1>8, <2>1, Zenon DEF T
<1>10. g[N + 1] = g[N] \o x
  <2> DEFINE m == N + 1
  <2>1. m \in 1..(N + 1) /\ m - 1 = N
    BY <1>1
  <2>2. tt[m] = x /\ m = N + 1
    BY <1>1
  <2> HIDE DEF m
  <2>3. g[m] = g[m - 1] \o tt[m]
    BY <1>5, <2>1, Zenon
  <2>4. g[m] = g[N] \o x
    BY <2>1, <2>2, <2>3, Zenon
  <2>5. QED
    BY <2>2, <2>4, Zenon
<1>11. FlattenSeq(<<>>) = <<>>
  BY DEF FlattenSeq
<1>12. FlattenSeq(ss) \in Seq(S)
  <2>1. N \in 0..N
    BY <1>1
  <2>2. QED
    BY <1>4, <2>1, Zenon
<1>13. QED
  BY <1>4, <1>5, <1>9, <1>10, <1>11, <1>12, Zenon DEF tt

(***************************************************************************)
(* Each element of a sequence replaced by a sequence.                      *)
(***************************************************************************)
Maps(g, A, S) == g \in [A -> Seq(S)]
Expand(g, s) == FlattenSeq([i \in DOMAIN s |-> g[s[i]]])

\* What one more element adds.
LEMMA ExpandIs ==
  ASSUME NEW A, NEW S, NEW g, Maps(g, A, S), NEW s \in Seq(A), NEW x \in A
  PROVE  /\ Expand(g, s) \in Seq(S) /\ g[x] \in Seq(S)
         /\ Expand(g, Append(s, x)) = Expand(g, s) \o g[x]
<1> DEFINE each(q) == [i \in DOMAIN q |-> g[q[i]]]
<1>1. each(s) \in Seq(Seq(S)) /\ g[x] \in Seq(S)
  BY DEF Maps
<1>2. each(Append(s, x)) = Append(each(s), g[x])
  BY DEF Maps
<1>3. FlattenSeq(each(s)) \in Seq(S) /\ FlattenSeq(Append(each(s), g[x])) = FlattenSeq(each(s)) \o g[x]
  BY <1>1, FlattenAppend
<1>4. QED
  BY <1>1, <1>2, <1>3, Zenon DEF Expand

\* Nothing becomes nothing.
LEMMA ExpandNone ==
  ASSUME NEW g
  PROVE  Expand(g, <<>>) = <<>>
<1>1. [i \in DOMAIN <<>> |-> g[<<>>[i]]] = <<>>
  OBVIOUS
<1>2. FlattenSeq(<<>>) = <<>>
  BY DEF FlattenSeq
<1>3. QED
  BY <1>1, <1>2 DEF Expand

\* One element becomes what stands for it.
LEMMA ExpandOne ==
  ASSUME NEW A, NEW S, NEW g, Maps(g, A, S), NEW x \in A
  PROVE  Expand(g, <<x>>) = g[x]
<1>1. <<>> \in Seq(A) /\ Append(<<>>, x) = <<x>>
  OBVIOUS
<1> DEFINE none == <<>>
<1> HIDE DEF none
<1>20. none \in Seq(A)
  BY <1>1 DEF none
<1>21. Expand(g, Append(none, x)) = Expand(g, none) \o g[x] /\ g[x] \in Seq(S)
  BY <1>20, ExpandIs
<1>2. Expand(g, Append(<<>>, x)) = Expand(g, <<>>) \o g[x] /\ g[x] \in Seq(S)
  BY <1>21 DEF none
<1>3. g[x] \in Seq(S)
  BY <1>2
<1>4. <<>> \o g[x] = g[x]
  BY <1>3
<1>5. QED
  BY <1>1, <1>2, <1>4, ExpandNone, Zenon

\* Concatenation is what one expects.
LEMMA AppendConcat ==
  ASSUME NEW S, NEW s \in Seq(S), NEW t \in Seq(S), NEW x \in S
  PROVE  /\ s \o Append(t, x) = Append(s \o t, x)
         /\ s \o t \in Seq(S) /\ s \o <<>> = s /\ <<>> \o s = s
  OBVIOUS

\* Concatenation is associative.
LEMMA ConcatConcat ==
  ASSUME NEW S, NEW s \in Seq(S), NEW t \in Seq(S), NEW u \in Seq(S)
  PROVE  (s \o t) \o u = s \o (t \o u)
  OBVIOUS

\* The type of an expansion.
LEMMA ExpandTyped ==
  ASSUME NEW A, NEW S, NEW g, Maps(g, A, S), NEW s \in Seq(A)
  PROVE  Expand(g, s) \in Seq(S)
<1>1. CASE A = {}
  <2>1. s = <<>> /\ <<>> \in Seq(S)
    BY <1>1
  <2>2. Expand(g, <<>>) = <<>>
    BY ExpandNone, Zenon
  <2>3. QED
    BY <2>1, <2>2, Zenon
<1>2. CASE A # {}
  <2>1. PICK x \in A : TRUE
    BY <1>2
  <2>2. QED
    BY <2>1, ExpandIs
<1>3. QED
  BY <1>1, <1>2

\* The parts are expanded each on its own.
LEMMA ExpandConcat ==
  ASSUME NEW A, NEW S, NEW g, Maps(g, A, S), NEW s \in Seq(A), NEW t \in Seq(A)
  PROVE  Expand(g, s \o t) = Expand(g, s) \o Expand(g, t)
<1> DEFINE P == {u \in Seq(A) : Expand(g, s \o u) = Expand(g, s) \o Expand(g, u)}
<1>0. \A u \in Seq(A) : Expand(g, u) \in Seq(S)
  BY ExpandTyped
<1>1. <<>> \in P
  <2>1. <<>> \in Seq(A) /\ s \o <<>> = s
    OBVIOUS
  <2>2. Expand(g, s) \o <<>> = Expand(g, s)
    BY <1>0
  <2>3. QED
    BY <2>1, <2>2, ExpandNone
<1>2. ASSUME NEW u \in Seq(A), u \in P, NEW x \in A PROVE Append(u, x) \in P
  <2>1. s \o Append(u, x) = Append(s \o u, x) /\ s \o u \in Seq(A) /\ Append(u, x) \in Seq(A)
    OBVIOUS
  <2>2. Expand(g, Append(s \o u, x)) = Expand(g, s \o u) \o g[x]
    <3> DEFINE v == s \o u
    <3> HIDE DEF v
    <3>1. v \in Seq(A)
      BY <2>1 DEF v
    <3>2. Expand(g, Append(v, x)) = Expand(g, v) \o g[x]
      BY <3>1, ExpandIs
    <3>3. QED
      BY <3>2 DEF v
  <2>3. Expand(g, Append(u, x)) = Expand(g, u) \o g[x]
    BY ExpandIs
  <2>4. Expand(g, s \o u) = Expand(g, s) \o Expand(g, u)
    BY <1>2
  <2>5. Expand(g, s) \in Seq(S) /\ Expand(g, u) \in Seq(S) /\ g[x] \in Seq(S)
    BY <1>0, ExpandIs
  <2>6. (Expand(g, s) \o Expand(g, u)) \o g[x] = Expand(g, s) \o (Expand(g, u) \o g[x])
    <3> DEFINE a == Expand(g, s)
               b == Expand(g, u)
               c == g[x]
    <3> HIDE DEF a, b, c
    <3>1. a \in Seq(S) /\ b \in Seq(S) /\ c \in Seq(S)
      BY <2>5 DEF a, b, c
    <3>2. (a \o b) \o c = a \o (b \o c)
      BY <3>1
    <3>3. QED
      BY <3>2 DEF a, b, c
  <2>7. QED
    BY <2>1, <2>2, <2>3, <2>4, <2>6
<1> HIDE DEF P
<1>3. Seq(A) \subseteq P
  BY <1>1, <1>2, SeqInduct
<1>4. QED
  BY <1>3 DEF P

\* One expansion after another.
LEMMA ExpandExpand ==
  ASSUME NEW A, NEW B, NEW S, NEW g, Maps(g, A, B), NEW h, Maps(h, B, S), NEW s \in Seq(A),
         NEW k, \A x \in A : k[x] = Expand(h, g[x]), Maps(k, A, S)
  PROVE  Expand(h, Expand(g, s)) = Expand(k, s)
<1> DEFINE P == {u \in Seq(A) : Expand(h, Expand(g, u)) = Expand(k, u)}
<1>1. <<>> \in P
  BY ExpandNone
<1>2. ASSUME NEW u \in Seq(A), u \in P, NEW x \in A PROVE Append(u, x) \in P
  <2>1. Expand(g, Append(u, x)) = Expand(g, u) \o g[x] /\ Expand(g, u) \in Seq(B)
    BY ExpandIs
  <2>2. Expand(k, Append(u, x)) = Expand(k, u) \o k[x]
    BY ExpandIs
  <2>3. g[x] \in Seq(B) /\ Append(u, x) \in Seq(A)
    BY ExpandIs
  <2>4. Expand(h, Expand(g, u) \o g[x]) = Expand(h, Expand(g, u)) \o Expand(h, g[x])
    BY <2>1, <2>3, ExpandConcat
  <2>5. QED
    BY <1>2, <2>1, <2>2, <2>3, <2>4
<1> HIDE DEF P
<1>3. Seq(A) \subseteq P
  BY <1>1, <1>2, SeqInduct
<1>4. QED
  BY <1>3 DEF P

\* Only what stands for the elements matters.
LEMMA ExpandSame ==
  ASSUME NEW g, NEW h, NEW s, \A i \in DOMAIN s : g[s[i]] = h[s[i]]
  PROVE  Expand(g, s) = Expand(h, s)
<1>1. [i \in DOMAIN s |-> g[s[i]]] = [i \in DOMAIN s |-> h[s[i]]]
  BY Zenon
<1>2. QED
  BY <1>1, Zenon DEF Expand

\* What stands for itself does not change.
LEMMA ExpandNothing ==
  ASSUME NEW A, NEW g, \A x \in A : g[x] = <<x>>, Maps(g, A, A), NEW s \in Seq(A)
  PROVE  Expand(g, s) = s
<1> DEFINE P == {u \in Seq(A) : Expand(g, u) = u}
<1>1. <<>> \in P
  BY ExpandNone
<1>2. ASSUME NEW u \in Seq(A), u \in P, NEW x \in A PROVE Append(u, x) \in P
  <2>1. Expand(g, Append(u, x)) = Expand(g, u) \o g[x]
    BY ExpandIs
  <2>2. u \o <<x>> = Append(u, x) /\ Append(u, x) \in Seq(A)
    OBVIOUS
  <2>3. QED
    BY <1>2, <2>1, <2>2
<1> HIDE DEF P
<1>3. Seq(A) \subseteq P
  BY <1>1, <1>2, SeqInduct
<1>4. QED
  BY <1>3 DEF P

\* The elements of a concatenation.
LEMMA ToSetConcat ==
  ASSUME NEW S, NEW s \in Seq(S), NEW t \in Seq(S)
  PROVE  ToSet(s \o t) = ToSet(s) \union ToSet(t)
<1>1. \A i \in 1..Len(t) : (s \o t)[Len(s) + i] = t[i] /\ Len(s) + i \in DOMAIN (s \o t)
  OBVIOUS
<1>2. \A i \in 1..Len(s) : (s \o t)[i] = s[i] /\ i \in DOMAIN (s \o t)
  OBVIOUS
<1>3. \A i \in DOMAIN (s \o t) : (\E k \in 1..Len(s) : (s \o t)[i] = s[k]) \/ (\E k \in 1..Len(t) : (s \o t)[i] = t[k])
  <2> TAKE i \in DOMAIN (s \o t)
  <2>1. i \in 1..Len(s) \/ i - Len(s) \in 1..Len(t)
    OBVIOUS
  <2>2. QED
    BY <2>1
<1>4. ToSet(s) = {s[i] : i \in 1..Len(s)} /\ ToSet(t) = {t[i] : i \in 1..Len(t)}
  BY DEF ToSet, Range
<1>5. ToSet(s \o t) = {(s \o t)[i] : i \in DOMAIN (s \o t)}
  BY Zenon DEF ToSet, Range
<1>6. QED
  BY <1>1, <1>2, <1>3, <1>4, <1>5, Zenon

\* The elements of short sequences.
LEMMA ToSetOne ==
  ASSUME NEW x
  PROVE  ToSet(<<>>) = {} /\ ToSet(<<x>>) = {x}
BY DEF ToSet, Range

\* The elements after one more.
LEMMA ToSetAppend ==
  ASSUME NEW S, NEW s \in Seq(S), NEW x \in S
  PROVE  ToSet(Append(s, x)) = ToSet(s) \union {x}
<1> DEFINE t == <<x>>
<1>1. t \in Seq(S) /\ s \o t = Append(s, x)
  OBVIOUS
<1>2. ToSet(t) = {x}
  BY ToSetOne
<1> HIDE DEF t
<1>3. ToSet(s \o t) = ToSet(s) \union ToSet(t)
  BY <1>1, ToSetConcat
<1>4. QED
  BY <1>1, <1>2, <1>3, Zenon

\* The elements of an expansion.
LEMMA ExpandHas ==
  ASSUME NEW A, NEW S, NEW g, Maps(g, A, S), NEW s \in Seq(A)
  PROVE  ToSet(Expand(g, s)) = UNION {ToSet(g[x]) : x \in ToSet(s)}
<1> DEFINE P == {u \in Seq(A) : ToSet(Expand(g, u)) = UNION {ToSet(g[x]) : x \in ToSet(u)}}
<1>1. <<>> \in P
  <2>1. ToSet(<<>>) = {}
    BY DEF ToSet, Range
  <2>2. QED
    BY <2>1, ExpandNone
<1>2. ASSUME NEW u \in Seq(A), u \in P, NEW x \in A PROVE Append(u, x) \in P
  <2>1. Expand(g, Append(u, x)) = Expand(g, u) \o g[x] /\ Expand(g, u) \in Seq(S) /\ g[x] \in Seq(S)
    BY ExpandIs
  <2>2. ToSet(Expand(g, u) \o g[x]) = ToSet(Expand(g, u)) \union ToSet(g[x])
    BY <2>1, ToSetConcat
  <2>3. ToSet(Append(u, x)) = ToSet(u) \union {x}
    BY ToSetAppend
  <2>4. UNION {ToSet(g[y]) : y \in ToSet(u) \union {x}} = (UNION {ToSet(g[y]) : y \in ToSet(u)}) \union ToSet(g[x])
    BY Zenon
  <2>5. Append(u, x) \in Seq(A)
    OBVIOUS
  <2>6. QED
    BY <1>2, <2>1, <2>2, <2>3, <2>4, <2>5
<1> HIDE DEF P
<1>3. Seq(A) \subseteq P
  BY <1>1, <1>2, SeqInduct
<1>4. QED
  BY <1>3 DEF P

\* Min is the least element.
LEMMA MinIs ==
  ASSUME NEW S, S \subseteq Nat, S # {}
  PROVE  Min(S) \in S /\ \A n \in S : Min(S) <= n
<1>1. IsWellFoundedOn(Less, Nat)
  BY NatLessThanWellFounded DEF OpToRel, Less
<1>2. PICK m \in S : \A n \in S : ~(<<n, m>> \in Less)
  BY <1>1, WFMin
<1>3. \A n \in S : m <= n
  <2> SUFFICES ASSUME NEW n \in S PROVE m <= n
    OBVIOUS
  <2>1. <<n, m>> \in Nat \X Nat /\ <<n, m>>[1] = n /\ <<n, m>>[2] = m
    BY <1>2
  <2>2. ~(n < m)
    BY <1>2, <2>1 DEF Less
  <2>3. QED
    BY <1>2, <2>2
<1>4. QED
  BY <1>2, <1>3, Zenon DEF Min

\* Max is the greatest one.
LEMMA MaxIs ==
  ASSUME NEW N \in Nat, NEW S, S \subseteq 0..N, S # {}
  PROVE  Max(S) \in S /\ \A n \in S : n <= Max(S)
<1> DEFINE T == {N - n : n \in S}
<1>1. T \subseteq Nat /\ T # {}
  BY Z3
<1>2. \A n \in S : N - n \in T /\ n \in 0..N
  OBVIOUS
<1>3. \A t \in T : \E n \in S : t = N - n
  OBVIOUS
<1> HIDE DEF T
<1>4. PICK t \in T : \A u \in T : t <= u
  BY <1>1, MinIs
<1>5. PICK m \in S : t = N - m
  BY <1>3, <1>4
<1>6. \A n \in S : n <= m
  BY <1>1, <1>2, <1>4, <1>5
<1>7. QED
  BY <1>5, <1>6, Zenon DEF Max

\* What stands for a token of a kind whose text is one of the first n keys of a list.
KeysTo(list, n) == {list[i].key : i \in 1..n}
FirstOf(list, n, key) == list[Min({i \in 1..n : list[i].key = key})].value
Stand(kind, list, n) ==
  [x \in Tokens |-> IF x[1] \in Holding(kind) /\ x[2] \in KeysTo(list, n)
                     THEN Filled(x, kind, FirstOf(list, n, x[2])) ELSE <<x>>]

\* A list whose values hold no token that one of its keys could be replaced in.
ListOK(list, kind) ==
  /\ list = [i \in 1..Len(list) |-> list[i]] /\ Len(list) \in Nat
  /\ \A i \in 1..Len(list) : list[i].value \in Seq(Tokens) /\ Free(list[i].value, kind)

\* The first value given to a key.
LEMMA FirstIs ==
  ASSUME NEW list, NEW kind, ListOK(list, kind), NEW n \in 0..Len(list), NEW key \in KeysTo(list, n)
  PROVE  \E i \in 1..n : /\ list[i].key = key /\ FirstOf(list, n, key) = list[i].value
                         /\ \A j \in 1..n : list[j].key = key => i <= j
<1> DEFINE S == {i \in 1..n : list[i].key = key}
<1>1. n \in Nat
  BY DEF ListOK
<1>2. S \subseteq Nat /\ S # {}
  BY <1>1 DEF KeysTo
<1>3. Min(S) \in S /\ \A i \in S : Min(S) <= i
  BY <1>2, MinIs
<1>4. FirstOf(list, n, key) = list[Min(S)].value
  BY Zenon DEF FirstOf
<1> DEFINE m == Min(S)
<1>5. m \in S /\ (\A i \in S : m <= i) /\ FirstOf(list, n, key) = list[m].value
  BY <1>3, <1>4
<1> HIDE DEF m
<1>6. QED
  BY <1>5

\* What the next element of a list changes of the first values.
LEMMA FirstAre ==
  ASSUME NEW list, NEW kind, ListOK(list, kind), NEW n \in 1..Len(list)
  PROVE  /\ KeysTo(list, 0) = {}
         /\ KeysTo(list, n) = KeysTo(list, n - 1) \union {list[n].key}
         /\ \A key \in KeysTo(list, n - 1) : FirstOf(list, n, key) = FirstOf(list, n - 1, key)
         /\ list[n].key \notin KeysTo(list, n - 1) => FirstOf(list, n, list[n].key) = list[n].value
<1>1. Len(list) \in Nat /\ n \in 0..Len(list) /\ n - 1 \in 0..Len(list)
  BY DEF ListOK
<1>2. 1..0 = {} /\ 1..n = 1..(n - 1) \union {n}
  OBVIOUS
<1>3. KeysTo(list, 0) = {} /\ KeysTo(list, n) = KeysTo(list, n - 1) \union {list[n].key}
  BY <1>2, Zenon DEF KeysTo
<1>4. ASSUME NEW key \in KeysTo(list, n - 1) PROVE FirstOf(list, n, key) = FirstOf(list, n - 1, key)
  <2>1. key \in KeysTo(list, n)
    BY <1>3, Zenon
  <2>2. PICK i \in 1..n : /\ list[i].key = key /\ FirstOf(list, n, key) = list[i].value
                          /\ \A j \in 1..n : list[j].key = key => i <= j
    BY <1>1, <2>1, FirstIs
  <2> DEFINE m == n - 1
  <2>3. m \in 0..Len(list) /\ key \in KeysTo(list, m) /\ m = n - 1
    BY <1>1
  <2> HIDE DEF m
  <2>4. PICK k \in 1..m : /\ list[k].key = key /\ FirstOf(list, m, key) = list[k].value
                          /\ \A j \in 1..m : list[j].key = key => k <= j
    BY <2>3, FirstIs
  <2>5. k \in 1..n
    BY <2>3
  <2>6. i <= k
    BY <2>2, <2>4, <2>5, Zenon
  <2>7. i \in 1..m
    BY <2>3, <2>6
  <2>8. k <= i
    BY <2>2, <2>4, <2>7, Zenon
  <2>9. i = k
    BY <2>3, <2>6, <2>8
  <2>10. QED
    BY <2>2, <2>3, <2>4, <2>9, Zenon
<1>5. ASSUME list[n].key \notin KeysTo(list, n - 1) PROVE FirstOf(list, n, list[n].key) = list[n].value
  <2> DEFINE key == list[n].key
  <2>1. key \in KeysTo(list, n)
    BY <1>3, Zenon
  <2>2. PICK i \in 1..n : list[i].key = key /\ FirstOf(list, n, key) = list[i].value
    <3> HIDE DEF key
    <3>1. QED
      BY <1>1, <2>1, FirstIs
  <2>3. i \notin 1..(n - 1)
    BY <1>5, <2>2 DEF KeysTo
  <2>4. i = n
    BY <2>3
  <2>5. QED
    BY <2>2, <2>4
<1>6. QED
  BY <1>3, <1>4, <1>5

\* The wrapper's own tokens are tokens.
LEMMA TokensAre ==
  /\ Backslash \in Tokens /\ Newline \in Tokens /\ At \in Tokens /\ Equals \in Tokens /\ Space \in Tokens
  /\ Dollar \in Tokens
  /\ AllowFeatures \in Tokens /\ Text(".expanded") \in Tokens /\ <<"flag", "--">> \in Tokens
  /\ \A p \in Places_ : Place(p) \in Tokens
BY LaunchAssumption, Zenon DEF OwnTokens

\* What is put for a key into a token that has it.
LEMMA FilledIs ==
  ASSUME NEW x, NEW kind, x[1] \in Holding(kind), NEW value \in Seq(Tokens)
  PROVE  /\ Filled(x, kind, value) \in Seq(Tokens)
         /\ Free(value, kind) => Free(Filled(x, kind, value), kind)
<1>1. CASE x[1] = kind
  BY <1>1 DEF Filled
<1>2. CASE x[1] # kind
  <2> DEFINE v == <<Dollar>> \o value
  <2>1. Filled(x, kind, value) = v
    BY <1>2 DEF Filled
  <2>2. Dollar \in Tokens
    BY TokensAre
  <2>3. kind = "status" /\ Dollar[1] = "text"
    BY <1>2 DEF Holding, Dollar, Text
  <2>4. Dollar[1] \notin Holding(kind)
    BY <2>3 DEF Holding
  <2>5. v \in Seq(Tokens) /\ \A i \in DOMAIN v : v[i] = Dollar \/ \E k \in DOMAIN value : v[i] = value[k]
    <3> DEFINE d == Dollar
    <3>1. d \in Tokens
      BY <2>2
    <3> HIDE DEF d
    <3>2. LET w == <<d>> \o value
          IN  w \in Seq(Tokens) /\ \A i \in DOMAIN w : w[i] = d \/ \E k \in DOMAIN value : w[i] = value[k]
      <4>1. \A i \in DOMAIN (<<d>> \o value) : i # 1 => i - 1 \in DOMAIN value /\ (<<d>> \o value)[i] = value[i - 1]
        BY <3>1
      <4>2. (<<d>> \o value)[1] = d
        BY <3>1
      <4>3. <<d>> \o value \in Seq(Tokens)
        BY <3>1
      <4>4. QED
        BY <4>1, <4>2, <4>3
    <3>3. QED
      BY <3>2 DEF d
  <2> HIDE DEF v
  <2>6. Free(value, kind) => Free(v, kind)
    BY <2>4, <2>5, Zenon DEF Free
  <2>7. QED
    BY <2>1, <2>5, <2>6
<1>3. QED
  BY <1>1, <1>2

Instead(kind, key, value) ==
  [x \in Tokens |-> IF x[1] \in Holding(kind) /\ x[2] = key THEN Filled(x, kind, value) ELSE <<x>>]

\* A value in the place of a reference.
LEMMA InsteadMaps ==
  ASSUME NEW kind, NEW key, NEW value \in Seq(Tokens)
  PROVE  Maps(Instead(kind, key, value), Tokens, Tokens)
<1>1. \A x \in Tokens : <<x>> \in Seq(Tokens)
  OBVIOUS
<1>2. \A x \in Tokens : Instead(kind, key, value)[x] \in Seq(Tokens)
  BY <1>1, FilledIs, Zenon DEF Instead
<1>3. Instead(kind, key, value) = [x \in Tokens |-> Instead(kind, key, value)[x]]
  BY DEF Instead
<1>4. QED
  BY <1>2, <1>3 DEF Maps

\* str::replace as an expansion.
LEMMA ReplaceIs ==
  ASSUME NEW s \in Seq(Tokens), NEW kind, NEW key, NEW value
  PROVE  Replace(s, kind, key, value) = Expand(Instead(kind, key, value), s)
<1>1. \A i \in DOMAIN s : s[i] \in Tokens
  OBVIOUS
<1>2. \A i \in DOMAIN s :
        (IF s[i][1] \in Holding(kind) /\ s[i][2] = key THEN Filled(s[i], kind, value) ELSE <<s[i]>>)
          = Instead(kind, key, value)[s[i]]
  BY <1>1, Zenon DEF Instead
<1>3. [i \in DOMAIN s |->
         IF s[i][1] \in Holding(kind) /\ s[i][2] = key THEN Filled(s[i], kind, value) ELSE <<s[i]>>]
        = [i \in DOMAIN s |-> Instead(kind, key, value)[s[i]]]
  BY <1>2, Zenon
<1>4. QED
  BY <1>3, Zenon DEF Replace, Expand

\* Where there is nothing to replace, nothing changes.
LEMMA FreeKept ==
  ASSUME NEW s \in Seq(Tokens), NEW kind, Free(s, kind), NEW key, NEW value
  PROVE  Expand(Instead(kind, key, value), s) = s
<1> DEFINE id == [x \in Tokens |-> <<x>>]
<1>1. Maps(id, Tokens, Tokens) /\ \A x \in Tokens : id[x] = <<x>>
  BY DEF Maps
<1>2. \A i \in DOMAIN s : Instead(kind, key, value)[s[i]] = id[s[i]]
  <2> SUFFICES ASSUME NEW i \in DOMAIN s PROVE Instead(kind, key, value)[s[i]] = id[s[i]]
    OBVIOUS
  <2> DEFINE x == s[i]
  <2>1. x \in Tokens /\ x[1] \notin Holding(kind)
    BY DEF Free
  <2> HIDE DEF x
  <2>2. Instead(kind, key, value)[x] = id[x]
    BY <2>1 DEF Instead
  <2>3. QED
    BY <2>2 DEF x
<1> HIDE DEF id
<1>3. Expand(id, s) = s
  BY <1>1, ExpandNothing
<1>4. QED
  BY <1>2, <1>3, ExpandSame

\* What stands for a token, and is free of references.
LEMMA StandMaps ==
  ASSUME NEW list, NEW kind, ListOK(list, kind), NEW n \in 0..Len(list)
  PROVE  /\ Maps(Stand(kind, list, n), Tokens, Tokens)
         /\ \A x \in Tokens :
              x[1] \in Holding(kind) /\ x[2] \in KeysTo(list, n) => Free(Stand(kind, list, n)[x], kind)
<1>1. ASSUME NEW x \in Tokens, x[1] \in Holding(kind), x[2] \in KeysTo(list, n)
      PROVE  /\ Filled(x, kind, FirstOf(list, n, x[2])) \in Seq(Tokens)
             /\ Free(Filled(x, kind, FirstOf(list, n, x[2])), kind)
  <2> DEFINE key == x[2]
  <2>1. key \in KeysTo(list, n)
    BY <1>1
  <2> HIDE DEF key
  <2>2. PICK i \in 1..n : FirstOf(list, n, key) = list[i].value
    BY <2>1, FirstIs
  <2>3. i \in 1..Len(list)
    BY DEF ListOK
  <2>4. FirstOf(list, n, key) \in Seq(Tokens) /\ Free(FirstOf(list, n, key), kind)
    BY <2>2, <2>3, Zenon DEF ListOK
  <2>5. QED
    BY <1>1, <2>4, FilledIs, Zenon DEF key
<1>2. \A x \in Tokens : <<x>> \in Seq(Tokens)
  OBVIOUS
<1>3. \A x \in Tokens : Stand(kind, list, n)[x] \in Seq(Tokens)
  BY <1>1, <1>2, Zenon DEF Stand
<1>4. Stand(kind, list, n) = [x \in Tokens |-> Stand(kind, list, n)[x]]
  BY DEF Stand
<1>5. \A x \in Tokens :
        x[1] \in Holding(kind) /\ x[2] \in KeysTo(list, n) => Free(Stand(kind, list, n)[x], kind)
  BY <1>1, Zenon DEF Stand
<1>6. QED
  BY <1>3, <1>4, <1>5 DEF Maps

\* One more key of the list replaced.
LEMMA StandStep ==
  ASSUME NEW list, NEW kind, ListOK(list, kind), NEW n \in 1..Len(list), NEW x \in Tokens
  PROVE  Stand(kind, list, n)[x] =
           Expand(Instead(kind, list[n].key, list[n].value), Stand(kind, list, n - 1)[x])
<1> DEFINE m == n - 1
           key == list[n].key
           value == list[n].value
           inst == Instead(kind, key, value)
<1>0. m \in 0..Len(list) /\ m = n - 1
  BY DEF ListOK
<1>1. /\ KeysTo(list, n) = KeysTo(list, m) \union {key}
      /\ \A k \in KeysTo(list, m) : FirstOf(list, n, k) = FirstOf(list, m, k)
      /\ key \notin KeysTo(list, m) => FirstOf(list, n, key) = value
  BY FirstAre
<1> HIDE DEF m
<1>2. Maps(Stand(kind, list, m), Tokens, Tokens)
      /\ (x[1] \in Holding(kind) /\ x[2] \in KeysTo(list, m) => Free(Stand(kind, list, m)[x], kind))
  BY <1>0, StandMaps
<1>3. value \in Seq(Tokens)
  BY DEF ListOK
<1>4. CASE x[1] \in Holding(kind) /\ x[2] \in KeysTo(list, m)
  <2>1. /\ Stand(kind, list, n)[x] = Filled(x, kind, FirstOf(list, n, x[2]))
        /\ Stand(kind, list, m)[x] = Filled(x, kind, FirstOf(list, m, x[2]))
    BY <1>1, <1>4, Zenon DEF Stand
  <2> DEFINE v == Stand(kind, list, m)[x]
  <2>2. v \in Seq(Tokens) /\ Free(v, kind) /\ v = Stand(kind, list, n)[x]
    BY <1>1, <1>2, <1>4, <2>1 DEF Maps
  <2> HIDE DEF v
  <2>3. Expand(Instead(kind, key, value), v) = v
    BY <2>2, FreeKept
  <2>4. QED
    BY <1>0, <2>2, <2>3 DEF v
<1>5. CASE ~(x[1] \in Holding(kind) /\ x[2] \in KeysTo(list, m))
  <2>1. Stand(kind, list, m)[x] = <<x>>
    BY <1>5, Zenon DEF Stand
  <2>2. Expand(inst, <<x>>) = inst[x]
    <3>1. Maps(inst, Tokens, Tokens)
      BY <1>3, InsteadMaps
    <3> HIDE DEF inst
    <3>2. QED
      BY <3>1, ExpandOne
  <2>3. inst[x] = IF x[1] \in Holding(kind) /\ x[2] = key THEN Filled(x, kind, value) ELSE <<x>>
    BY DEF Instead
  <2>4. Stand(kind, list, n)[x] =
          IF x[1] \in Holding(kind) /\ x[2] = key THEN Filled(x, kind, value) ELSE <<x>>
    <3>1. CASE x[1] \in Holding(kind) /\ x[2] = key
      <4>1. Stand(kind, list, n)[x] = Filled(x, kind, FirstOf(list, n, x[2]))
        BY <1>1, <3>1, Zenon DEF Stand
      <4>2. QED
        BY <1>1, <1>5, <3>1, <4>1, Zenon
    <3>2. CASE ~(x[1] \in Holding(kind) /\ x[2] = key)
      <4>1. ~(x[1] \in Holding(kind) /\ x[2] \in KeysTo(list, n))
        BY <1>1, <1>5, <3>2, Zenon
      <4>2. QED
        BY <3>2, <4>1, Zenon DEF Stand
    <3>3. QED
      BY <3>1, <3>2
  <2>5. QED
    BY <1>0, <2>1, <2>2, <2>3, <2>4, Zenon
<1>6. QED
  BY <1>4, <1>5

(***************************************************************************)
(* Replacing one key after another is what the list means.                 *)
(***************************************************************************)
LEMMA ReplacedIs ==
  ASSUME NEW list, NEW kind, ListOK(list, kind), NEW s \in Seq(Tokens)
  PROVE  /\ Replaced(s, kind, list) = Meaning(s, kind, list)
         /\ Meaning(s, kind, list) \in Seq(Tokens)
<1> DEFINE N == Len(list)
           V == Seq(Tokens)
           G == [n \in 1..N |-> [v \in V |-> Replace(v, kind, list[n].key, list[n].value)]]
           Is(f) == f = [n \in 0..N |-> IF n = 0 THEN s
                                        ELSE Replace(f[n - 1], kind, list[n].key, list[n].value)]
           c == CHOOSE f : Is(f)
<1>1. N \in Nat
  BY DEF ListOK
<1>2. \A n \in 1..N : \A v \in V : Replace(v, kind, list[n].key, list[n].value) \in V
  <2> TAKE n \in 1..N
  <2> TAKE v \in V
  <2> DEFINE key == list[n].key
             value == list[n].value
             inst == Instead(kind, key, value)
  <2>1. value \in Seq(Tokens)
    BY DEF ListOK
  <2> HIDE DEF key, value
  <2>2. Maps(inst, Tokens, Tokens)
    BY <2>1, InsteadMaps
  <2>3. Replace(v, kind, key, value) = Expand(inst, v)
    BY ReplaceIs
  <2> HIDE DEF inst
  <2>4. Expand(inst, v) \in Seq(Tokens)
    BY <2>2, ExpandTyped
  <2>5. QED
    BY <2>3, <2>4 DEF key, value
<1>3. Steps(G, N, V)
  BY <1>2, Zenon DEF Steps
<1>4. \A n \in 1..N : \A v \in V : G[n][v] = Replace(v, kind, list[n].key, list[n].value)
  BY Zenon
<1> HIDE DEF G
<1>5. PICK f : Recurs(f, N, V, s, G)
  BY <1>1, <1>3, Recursion
<1>6. f \in [0..N -> V] /\ f[0] = s /\ \A n \in 1..N : f[n] = G[n][f[n - 1]]
  BY <1>5, Zenon DEF Recurs
<1>7. \A n \in 1..N : f[n - 1] \in V
  BY <1>1, <1>6
<1>8. \A n \in 0..N : f[n] = IF n = 0 THEN s ELSE Replace(f[n - 1], kind, list[n].key, list[n].value)
  <2>1. \A n \in 0..N : n # 0 => n \in 1..N
    BY <1>1
  <2>2. QED
    BY <1>4, <1>6, <1>7, <2>1, Zenon
<1>9. Is(f)
  <2>1. f = [n \in 0..N |-> f[n]]
    BY <1>6
  <2>2. [n \in 0..N |-> f[n]] = [n \in 0..N |-> IF n = 0 THEN s
                                   ELSE Replace(f[n - 1], kind, list[n].key, list[n].value)]
    BY <1>8, Zenon
  <2>3. QED
    BY <2>1, <2>2, Zenon
<1>10. Is(c)
  BY <1>9, Zenon
<1>11. Replaced(s, kind, list) = c[N]
  BY Zenon DEF Replaced
<1> HIDE DEF c
<1>12. c[0] = s /\ \A n \in 1..N : c[n] = Replace(c[n - 1], kind, list[n].key, list[n].value)
  <2>1. 0 \in 0..N /\ \A n \in 1..N : n \in 0..N /\ n # 0
    BY <1>1
  <2>2. \A n \in 0..N : c[n] = IF n = 0 THEN s ELSE Replace(c[n - 1], kind, list[n].key, list[n].value)
    BY <1>10, Zenon
  <2>3. QED
    BY <2>1, <2>2, Zenon
<1> DEFINE T == {n \in 0..N : c[n] = Expand(Stand(kind, list, n), s)}
<1>13. 0 \in T
  <2>1. \A x \in Tokens : Stand(kind, list, 0)[x] = <<x>>
    <3>1. KeysTo(list, 0) = {}
      <4>1. 1..0 = {}
        OBVIOUS
      <4>2. QED
        BY <4>1, Zenon DEF KeysTo
    <3>2. QED
      BY <3>1, Zenon DEF Stand
  <2> DEFINE g == Stand(kind, list, 0)
  <2>2. Maps(g, Tokens, Tokens)
    BY <1>1, StandMaps
  <2>3. \A x \in Tokens : g[x] = <<x>>
    BY <2>1
  <2> HIDE DEF g
  <2>4. Expand(g, s) = s
    BY <2>2, <2>3, ExpandNothing
  <2>5. QED
    BY <1>1, <1>12, <2>4 DEF g
<1>14. ASSUME NEW n \in 1..N, n - 1 \in T PROVE n \in T
  <2> DEFINE key == list[n].key
             value == list[n].value
             h == Instead(kind, key, value)
             m == n - 1
             g == Stand(kind, list, m)
             k == Stand(kind, list, n)
  <2>1. /\ m \in 0..N /\ n \in 0..N /\ value \in Seq(Tokens)
    BY <1>1 DEF ListOK
  <2>2. Maps(g, Tokens, Tokens) /\ Maps(k, Tokens, Tokens)
    <3> HIDE DEF m
    <3>1. QED
      BY <2>1, StandMaps
  <2>3. Maps(h, Tokens, Tokens)
    <3> HIDE DEF key, value
    <3>1. QED
      BY <2>1, InsteadMaps
  <2>4. \A x \in Tokens : k[x] = Expand(h, g[x])
    BY StandStep
  <2>5. c[n] = Replace(c[m], kind, key, value) /\ c[m] = Expand(g, s)
    BY <1>12, <1>14
  <2> HIDE DEF g, key, value
  <2>6. Expand(g, s) \in Seq(Tokens)
    BY <2>2, ExpandTyped
  <2> DEFINE q == Expand(g, s)
  <2>7. Replace(q, kind, key, value) = Expand(h, q)
    <3> HIDE DEF q
    <3>1. q \in Seq(Tokens)
      BY <2>6 DEF q
    <3>2. QED
      BY <3>1, ReplaceIs
  <2> HIDE DEF h, k
  <2>8. Expand(h, Expand(g, s)) = Expand(k, s)
    BY <2>2, <2>3, <2>4, ExpandExpand
  <2>9. c[n] = Expand(k, s)
    BY <2>5, <2>7, <2>8
  <2>10. QED
    BY <2>1, <2>9 DEF k
<1> HIDE DEF T
<1>15. N \in T
  <2>1. \A n \in 0..N : n \in T
    BY <1>1, <1>13, <1>14, InductTo
  <2>2. QED
    BY <1>1, <2>1
<1>16. c[N] = Expand(Stand(kind, list, N), s)
  BY <1>15 DEF T
<1>17. Expand(Stand(kind, list, N), s) \in Seq(Tokens)
  <2> DEFINE g == Stand(kind, list, N)
  <2>1. Maps(g, Tokens, Tokens)
    BY <1>1, StandMaps
  <2> HIDE DEF g
  <2>2. Expand(g, s) \in Seq(Tokens)
    BY <2>1, ExpandTyped
  <2>3. QED
    BY <2>2 DEF g
<1>18. Meaning(s, kind, list) = Expand(Stand(kind, list, N), s)
  <2>1. DOMAIN list = 1..N
    BY <1>1 DEF ListOK
  <2>2. Keys(list) = KeysTo(list, N) /\ \A key : ValueOf(list, key) = FirstOf(list, N, key)
    BY <2>1, Zenon DEF Keys, KeysTo, ValueOf, FirstOf
  <2>3. \A i \in DOMAIN s : s[i] \in Tokens
    OBVIOUS
  <2>4. \A i \in DOMAIN s :
          (IF s[i][1] \in Holding(kind) /\ s[i][2] \in Keys(list)
           THEN Filled(s[i], kind, ValueOf(list, s[i][2])) ELSE <<s[i]>>) = Stand(kind, list, N)[s[i]]
    BY <2>2, <2>3, Zenon DEF Stand
  <2>5. [i \in DOMAIN s |-> IF s[i][1] \in Holding(kind) /\ s[i][2] \in Keys(list)
                             THEN Filled(s[i], kind, ValueOf(list, s[i][2])) ELSE <<s[i]>>]
          = [i \in DOMAIN s |-> Stand(kind, list, N)[s[i]]]
    BY <2>4, Zenon
  <2>6. QED
    BY <2>5, Zenon DEF Meaning, Expand
<1>19. QED
  BY <1>11, <1>16, <1>17, <1>18, Zenon

\* The backslashes at the end of a line are part of it.
LEMMA EndingIs ==
  ASSUME NEW line \in Seq(Tokens)
  PROVE  Len(line) - Max({0} \union {i \in DOMAIN line : line[i] # Backslash}) \in 0..Len(line)
<1> DEFINE S == {0} \union {i \in DOMAIN line : line[i] # Backslash}
           N == Len(line)
           m == Max(S)
<1>1. N \in Nat /\ S \subseteq 0..N /\ S # {}
  OBVIOUS
<1> HIDE DEF S
<1>2. m \in S
  <2> HIDE DEF N
  <2>1. QED
    BY <1>1, MaxIs
<1> HIDE DEF m
<1>3. m \in 0..N
  BY <1>1, <1>2
<1>4. N - m \in 0..N
  BY <1>1, <1>3
<1>5. QED
  BY <1>4 DEF m, S

\* Half of them are backslashes.
LEMMA HalvesOf ==
  ASSUME NEW n \in Nat
  PROVE  [i \in 1..(n \div 2) |-> Backslash] \in Seq(Tokens)
<1>1. n \div 2 \in Nat
  OBVIOUS
<1>2. Backslash \in Tokens
  BY TokensAre
<1> DEFINE m == n \div 2
<1> HIDE DEF m
<1>3. m \in Nat
  BY <1>1 DEF m
<1>4. [i \in 1..m |-> Backslash] \in Seq(Tokens)
  BY <1>2, <1>3
<1>5. QED
  BY <1>4 DEF m

\* read_to_array makes lines of lines.
LEMMA ReadToArrayIs ==
  ASSUME NEW raw \in Seq(Seq(Tokens))
  PROVE  ReadToArray(raw) \in Seq(Seq(Tokens))
<1> DEFINE ending(line) == Len(line) - Max({0} \union {i \in DOMAIN line : line[i] # Backslash})
           text(line) == SubSeq(line, 1, Len(line) - ending(line))
                           \o [i \in 1..(ending(line) \div 2) |-> Backslash]
           next(r, line) ==
             CASE line = <<>> -> r
               [] ending(line) % 2 = 1 -> [r EXCEPT !.open = @ \o text(line) \o <<Newline>>]
               [] OTHER -> [lines |-> Append(r.lines, r.open \o text(line)), open |-> <<>>]
           N == Len(raw)
           start == [lines |-> <<>>, open |-> <<>>]
           V == [lines : Seq(Seq(Tokens)), open : Seq(Tokens)]
           G == [n \in 1..N |-> [v \in V |-> next(v, raw[n])]]
           Is(f) == f = [n \in 0..N |-> IF n = 0 THEN start ELSE next(f[n - 1], raw[n])]
           c == CHOOSE f : Is(f)
<1>1. N \in Nat /\ start \in V /\ \A n \in 1..N : raw[n] \in Seq(Tokens)
  OBVIOUS
<1>2. ASSUME NEW r \in V, NEW line \in Seq(Tokens) PROVE next(r, line) \in V
  <2>1. ending(line) \in 0..Len(line)
    BY EndingIs
  <2> DEFINE e == ending(line)
             t == text(line)
  <2> HIDE DEF ending
  <2>2. t \in Seq(Tokens)
    <3>1. e \in Nat
      BY <2>1
    <3> HIDE DEF e
    <3>2. [i \in 1..(e \div 2) |-> Backslash] \in Seq(Tokens)
      BY <3>1, HalvesOf
    <3>3. SubSeq(line, 1, Len(line) - e) \in Seq(Tokens)
      BY <2>1 DEF e
    <3> DEFINE a == SubSeq(line, 1, Len(line) - e)
               b == [i \in 1..(e \div 2) |-> Backslash]
    <3> HIDE DEF a, b
    <3>4. a \o b \in Seq(Tokens)
      BY <3>2, <3>3 DEF a, b
    <3>5. QED
      BY <3>4 DEF a, b, e
  <2> HIDE DEF text
  <2>3. <<Newline>> \in Seq(Tokens)
    BY TokensAre
  <2>4. r.open \in Seq(Tokens) /\ r.lines \in Seq(Seq(Tokens))
    OBVIOUS
  <2>5. [r EXCEPT !.open = @ \o text(line) \o <<Newline>>] \in V
    <3> DEFINE u == <<Newline>>
               o == r.open \o text(line) \o u
    <3> HIDE DEF u
    <3>1. o \in Seq(Tokens)
      <4> DEFINE a == r.open
                 b == text(line)
      <4>1. a \in Seq(Tokens) /\ b \in Seq(Tokens) /\ u \in Seq(Tokens)
        BY <2>2, <2>3, <2>4 DEF u
      <4> HIDE DEF a, b
      <4>2. a \o b \o u \in Seq(Tokens)
        BY <4>1
      <4>3. QED
        BY <4>2 DEF a, b
    <3>2. [r EXCEPT !.open = @ \o text(line) \o <<Newline>>] = [r EXCEPT !.open = o]
      BY DEF u
    <3> HIDE DEF o
    <3>3. [r EXCEPT !.open = o] \in V
      BY <3>1
    <3>4. QED
      BY <3>2, <3>3, Zenon
  <2>6. r.open \o text(line) \in Seq(Tokens)
    BY <2>2, <2>4
  <2>7. [lines |-> Append(r.lines, r.open \o text(line)), open |-> <<>>] \in V
    BY <2>4, <2>6
  <2>8. QED
    BY <2>5, <2>7, Zenon
<1> HIDE DEF next, start, V
<1>3. Steps(G, N, V)
  BY <1>1, <1>2, Zenon DEF Steps
<1>4. \A n \in 1..N : \A v \in V : G[n][v] = next(v, raw[n])
  BY Zenon
<1> HIDE DEF G
<1>5. PICK f : Recurs(f, N, V, start, G)
  BY <1>1, <1>3, Recursion
<1>6. f \in [0..N -> V] /\ f[0] = start /\ \A n \in 1..N : f[n] = G[n][f[n - 1]]
  BY <1>5, Zenon DEF Recurs
<1>7. \A n \in 1..N : f[n - 1] \in V
  <2>1. \A n \in 1..N : n - 1 \in 0..N
    BY <1>1
  <2>2. QED
    BY <1>6, <2>1, Zenon
<1>8. \A n \in 0..N : f[n] = IF n = 0 THEN start ELSE next(f[n - 1], raw[n])
  <2>1. \A n \in 0..N : n # 0 => n \in 1..N
    BY <1>1
  <2>2. QED
    BY <1>4, <1>6, <1>7, <2>1, Zenon
<1>9. Is(f)
  <2>1. f = [n \in 0..N |-> f[n]]
    BY <1>6
  <2>2. [n \in 0..N |-> f[n]] = [n \in 0..N |-> IF n = 0 THEN start ELSE next(f[n - 1], raw[n])]
    BY <1>8, Zenon
  <2>3. QED
    BY <2>1, <2>2, Zenon
<1>10. Is(c)
  BY <1>9, Zenon
<1>11. ReadToArray(raw) = c[N].lines
  BY Zenon DEF ReadToArray, next, start
<1> HIDE DEF c
<1>12. \A n \in 0..N : c[n] = IF n = 0 THEN start ELSE next(c[n - 1], raw[n])
  BY <1>10, Zenon
<1> DEFINE T == {n \in 0..N : c[n] \in V}
<1>13. 0 \in T
  BY <1>1, <1>12
<1>14. ASSUME NEW n \in 1..N, n - 1 \in T PROVE n \in T
  <2>1. n \in 0..N /\ n # 0
    BY <1>1
  <2>2. c[n] = next(c[n - 1], raw[n])
    BY <1>12, <2>1, Zenon
  <2>3. QED
    BY <1>1, <1>2, <1>14, <2>1, <2>2, Zenon
<1> HIDE DEF T
<1>15. N \in T
  <2>1. \A n \in 0..N : n \in T
    BY <1>1, <1>13, <1>14, InductTo
  <2>2. QED
    BY <1>1, <2>1
<1>16. c[N] \in V
  BY <1>15 DEF T
<1>17. QED
  BY <1>11, <1>16 DEF V

\* The lines of a file are lines.
LEMMA LinesTyped == Maps(Lines, DOMAIN Files, Seq(Tokens))
<1>1. \A path \in DOMAIN Files : ReadToArray(Files[path]) \in Seq(Seq(Tokens))
  BY LaunchAssumption, ReadToArrayIs
<1>2. QED
  BY <1>1, Zenon DEF Maps, Lines

\* A line of several files is a line of one of them.
LEMMA ReadAllIs ==
  ASSUME NEW paths \in Seq(DOMAIN Files)
  PROVE  /\ ReadAll(paths) \in Seq(Seq(Tokens))
         /\ \A i \in DOMAIN ReadAll(paths) : \E path \in ToSet(paths) : \E k \in DOMAIN Lines[path] :
              ReadAll(paths)[i] = Lines[path][k]
<1>1. ReadAll(paths) = Expand(Lines, paths)
  BY Zenon DEF ReadAll, Expand
<1>2. ReadAll(paths) \in Seq(Seq(Tokens))
  BY <1>1, LinesTyped, ExpandTyped
<1>3. ToSet(ReadAll(paths)) = UNION {ToSet(Lines[x]) : x \in ToSet(paths)}
  BY <1>1, LinesTyped, ExpandHas
<1>4. \A i \in DOMAIN ReadAll(paths) : ReadAll(paths)[i] \in ToSet(ReadAll(paths))
  BY Zenon DEF ToSet
<1>5. \A i \in DOMAIN ReadAll(paths) : \E x \in ToSet(paths) : ReadAll(paths)[i] \in ToSet(Lines[x])
  BY <1>3, <1>4, Zenon
<1>6. QED
  BY <1>2, <1>5, Zenon DEF ToSet

\* What follows a token is part of what it is in.
LEMMA SplitIs ==
  ASSUME NEW s \in Seq(Tokens), NEW token \in ToSet(s)
  PROVE  /\ SplitOnce(s, token)[2] \in Seq(Tokens)
         /\ \A i \in DOMAIN SplitOnce(s, token)[2] : \E k \in DOMAIN s : SplitOnce(s, token)[2][i] = s[k]
<1> DEFINE S == {i \in DOMAIN s : s[i] = token}
           m == Min(S)
<1>1. S \subseteq Nat /\ S # {}
  BY DEF ToSet
<1>2. m \in S
  BY <1>1, MinIs
<1>3. SplitOnce(s, token)[2] = SubSeq(s, m + 1, Len(s))
  BY DEF SplitOnce
<1>4. m \in 1..Len(s)
  BY <1>2
<1> HIDE DEF m
<1>5. SubSeq(s, m + 1, Len(s)) \in Seq(Tokens)
  BY <1>4
<1>6. \A i \in DOMAIN SubSeq(s, m + 1, Len(s)) : SubSeq(s, m + 1, Len(s))[i] = s[m + i] /\ m + i \in DOMAIN s
  BY <1>4
<1>7. QED
  BY <1>3, <1>5, <1>6

\* The values of --subst are as LaunchOK has them.
SubstOK(arg) ==
  LET value == SplitOnce(arg, Equals)[2]
  IN  Free(value, "ref") \/ \E p \in Places_ : value = <<Ref(p)>>

\* The value of --subst refers to nothing.
LEMMA SubstitutionIs ==
  ASSUME NEW arg \in Seq(Tokens), Equals \in ToSet(arg), SubstOK(arg)
  PROVE  Substitution(arg).value \in Seq(Tokens) /\ Free(Substitution(arg).value, "ref")
<1> DEFINE value == SplitOnce(arg, Equals)[2]
           places == {p \in Places_ : value = <<Ref(p)>>}
           p == CHOOSE q \in places : TRUE
<1>1. value \in Seq(Tokens)
  BY SplitIs
<1>2. Substitution(arg).value = IF places = {} THEN value ELSE <<Place(p)>>
  BY DEF Substitution
<1>3. CASE places = {}
  <2>1. Free(value, "ref")
    BY <1>3 DEF SubstOK
  <2>2. QED
    BY <1>1, <1>2, <1>3, <2>1, Zenon
<1>4. CASE places # {}
  <2>1. p \in Places_
    BY <1>4
  <2> HIDE DEF p
  <2>2. Place(p) \in Tokens /\ Place(p)[1] \notin Holding("ref")
    <3>1. Place(p) \in Tokens
      BY <2>1, TokensAre
    <3>2. Place(p)[1] = "place" /\ "place" \notin Holding("ref")
      BY DEF Place, Holding
    <3>3. QED
      BY <3>1, <3>2, Zenon
  <2>3. <<Place(p)>> \in Seq(Tokens) /\ Free(<<Place(p)>>, "ref")
    BY <2>2 DEF Free
  <2>4. QED
    BY <1>2, <1>4, <2>3, Zenon
<1>5. QED
  BY <1>3, <1>4

\* All of them can be put in the place of references one after another.
LEMMA SubstitutionsOK ==
  ASSUME NEW flags_, Given(flags_, "--subst") \in Seq(Seq(Tokens)),
         \A i \in DOMAIN Given(flags_, "--subst") :
           Equals \in ToSet(Given(flags_, "--subst")[i]) /\ SubstOK(Given(flags_, "--subst")[i])
  PROVE  ListOK(Substitutions(flags_), "ref")
<1> DEFINE given == Given(flags_, "--subst")
           list == [i \in 1..Len(given) |-> Substitution(given[i])]
<1>1. given \in Seq(Seq(Tokens)) /\ DOMAIN given = 1..Len(given) /\ Len(given) \in Nat
  OBVIOUS
<1>2. Substitutions(flags_) = list
  BY <1>1, Zenon DEF Substitutions
<1>3. \A i \in 1..Len(given) : given[i] \in Seq(Tokens) /\ Equals \in ToSet(given[i]) /\ SubstOK(given[i])
  BY <1>1
<1> HIDE DEF given
<1>4. \A i \in 1..Len(given) : list[i].value \in Seq(Tokens) /\ Free(list[i].value, "ref")
  BY <1>3, SubstitutionIs
<1>5. Len(list) = Len(given) /\ list = [i \in 1..Len(given) |-> list[i]]
  BY <1>1
<1> HIDE DEF list
<1>6. QED
  BY <1>1, <1>2, <1>4, <1>5 DEF ListOK

\* So can the values of the status files.
LEMMA StatusesOK ==
  ASSUME NEW flags_, StatusFiles(flags_) \in Seq(DOMAIN Files),
         \A path \in ToSet(StatusFiles(flags_)) : \A i \in DOMAIN Lines[path] : Free(Lines[path][i], "status"),
         \A i \in DOMAIN ReadAll(StatusFiles(flags_)) : Space \in ToSet(ReadAll(StatusFiles(flags_))[i])
  PROVE  ListOK(Statuses(flags_), "status")
<1> DEFINE lines == ReadAll(StatusFiles(flags_))
           list == [i \in 1..Len(lines) |-> [key |-> SplitOnce(lines[i], Space)[1][1][2],
                                             value |-> SplitOnce(lines[i], Space)[2]]]
<1>1. lines \in Seq(Seq(Tokens))
  BY ReadAllIs
<1>2. DOMAIN lines = 1..Len(lines) /\ Len(lines) \in Nat
  BY <1>1
<1>3. Statuses(flags_) = list
  BY <1>2, Zenon DEF Statuses
<1>4. \A i \in 1..Len(lines) : \E path \in ToSet(StatusFiles(flags_)) : \E k \in DOMAIN Lines[path] :
        lines[i] = Lines[path][k]
  BY <1>2, ReadAllIs
<1>5. \A i \in 1..Len(lines) : lines[i] \in Seq(Tokens) /\ Space \in ToSet(lines[i]) /\ Free(lines[i], "status")
  <2> TAKE i \in 1..Len(lines)
  <2>1. PICK path \in ToSet(StatusFiles(flags_)) : \E k \in DOMAIN Lines[path] : lines[i] = Lines[path][k]
    BY <1>4
  <2>2. Free(lines[i], "status")
    BY <2>1
  <2>3. lines[i] \in Seq(Tokens)
    BY <1>1
  <2>4. Space \in ToSet(lines[i])
    BY <1>2, Zenon
  <2>5. QED
    BY <2>2, <2>3, <2>4
<1> HIDE DEF lines
<1>6. \A i \in 1..Len(lines) : list[i].value \in Seq(Tokens) /\ Free(list[i].value, "status")
  <2> TAKE i \in 1..Len(lines)
  <2> DEFINE s == lines[i]
             v == SplitOnce(s, Space)[2]
  <2>1. s \in Seq(Tokens) /\ Space \in ToSet(s) /\ Free(s, "status")
    BY <1>5
  <2>2. list[i].value = v
    OBVIOUS
  <2> HIDE DEF s, list
  <2>3. v \in Seq(Tokens) /\ \A j \in DOMAIN v : \E k \in DOMAIN s : v[j] = s[k]
    BY <2>1, SplitIs
  <2> HIDE DEF v
  <2>4. Free(v, "status")
    BY <2>1, <2>3 DEF Free
  <2>5. QED
    BY <2>2, <2>3, <2>4, Zenon
<1>7. Len(list) = Len(lines) /\ list = [i \in 1..Len(lines) |-> list[i]]
  BY <1>2
<1> HIDE DEF list
<1>8. QED
  BY <1>2, <1>3, <1>6, <1>7 DEF ListOK

(***************************************************************************)
(* The environment.                                                        *)
(***************************************************************************)
EnvLines(given) == ReadAll(Given(given, "--env-file"))
EnvPairs(given) == [i \in DOMAIN EnvLines(given) |-> SplitOnce(EnvLines(given)[i], Equals)]
EnvOK(given) ==
  /\ Given(given, "--env-file") \in Seq(DOMAIN Files)
  /\ \A i \in DOMAIN EnvLines(given) : Equals \in ToSet(EnvLines(given)[i])

\* The last of the first n settings of a variable.
ChosenOf(pairs, n, x) ==
  IF {i \in 1..n : pairs[i][1] = x} = {} THEN ProcessEnv[x]
  ELSE pairs[Max({i \in 1..n : pairs[i][1] = x})][2]

\* What the lines of the environment files set.
LEMMA EnvPairsAre ==
  ASSUME NEW given, EnvOK(given)
  PROVE  /\ DOMAIN EnvPairs(given) = 1..Len(EnvLines(given)) /\ Len(EnvLines(given)) \in Nat
         /\ \A i \in 1..Len(EnvLines(given)) :
              /\ EnvPairs(given)[i] = SplitOnce(EnvLines(given)[i], Equals)
              /\ EnvPairs(given)[i][2] \in Seq(Tokens)
<1> DEFINE lines == EnvLines(given)
<1>1. lines \in Seq(Seq(Tokens))
  BY ReadAllIs DEF EnvOK, EnvLines
<1>2. \A i \in DOMAIN lines : Equals \in ToSet(lines[i])
  BY Zenon DEF EnvOK
<1>3. EnvPairs(given) = [i \in DOMAIN lines |-> SplitOnce(lines[i], Equals)]
  BY Zenon DEF EnvPairs
<1> HIDE DEF lines
<1>4. DOMAIN lines = 1..Len(lines) /\ Len(lines) \in Nat /\ \A i \in 1..Len(lines) : lines[i] \in Seq(Tokens)
  BY <1>1
<1>5. \A i \in 1..Len(lines) : SplitOnce(lines[i], Equals)[2] \in Seq(Tokens)
  BY <1>2, <1>4, SplitIs
<1>6. QED
  BY <1>3, <1>4, <1>5, Zenon DEF lines

\* The last setting counts.
LEMMA ChosenStep ==
  ASSUME NEW pairs, NEW n \in Nat \ {0}, NEW x
  PROVE  ChosenOf(pairs, n, x) = IF x = pairs[n][1] THEN pairs[n][2] ELSE ChosenOf(pairs, n - 1, x)
<1> DEFINE S == {i \in 1..n : pairs[i][1] = x}
           R == {i \in 1..(n - 1) : pairs[i][1] = x}
<1>1. CASE x = pairs[n][1]
  <2>1. n \in S /\ S \subseteq 0..n
    BY <1>1
  <2> DEFINE m == Max(S)
  <2>2. m \in S /\ \A i \in S : i <= m
    <3> HIDE DEF S
    <3>1. QED
      BY <2>1, MaxIs
  <2>3. m = n
    <3>1. m \in 1..n
      BY <2>2
    <3>2. n <= m
      BY <2>1, <2>2
    <3> HIDE DEF m
    <3>3. QED
      BY <3>1, <3>2
  <2>4. S # {}
    BY <2>1
  <2>5. ChosenOf(pairs, n, x) = pairs[m][2]
    BY <2>4, Zenon DEF ChosenOf
  <2>6. QED
    BY <1>1, <2>3, <2>5, Zenon
<1>2. CASE x # pairs[n][1]
  <2>1. S = R
    BY <1>2
  <2>2. QED
    BY <1>2, <2>1, Zenon DEF ChosenOf
<1>3. QED
  BY <1>1, <1>2

Environments(U) == UNION {[D -> Seq(Tokens)] : D \in SUBSET U}

\* An environment gives some of the variables values.
LEMMA EnvironmentsAre ==
  ASSUME NEW U, NEW e
  PROVE  e \in Environments(U) <=>
           DOMAIN e \subseteq U /\ e = [x \in DOMAIN e |-> e[x]] /\ \A x \in DOMAIN e : e[x] \in Seq(Tokens)
<1> DEFINE D == DOMAIN e
<1>1. ASSUME e \in Environments(U)
      PROVE  D \subseteq U /\ e = [x \in D |-> e[x]] /\ \A x \in D : e[x] \in Seq(Tokens)
  <2>1. PICK C \in SUBSET U : e \in [C -> Seq(Tokens)]
    BY <1>1 DEF Environments
  <2>2. QED
    BY <2>1
<1>2. ASSUME D \subseteq U, e = [x \in D |-> e[x]], \A x \in D : e[x] \in Seq(Tokens)
      PROVE  e \in Environments(U)
  <2>1. e \in [D -> Seq(Tokens)]
    BY <1>2
  <2> HIDE DEF D
  <2>2. QED
    BY <1>2, <2>1 DEF Environments
<1>3. QED
  BY <1>1, <1>2

\* env_from_files: the last line that sets a variable, or the wrapper's own environment.
LEMMA EnvFromFilesIs ==
  ASSUME NEW given, EnvOK(given)
  PROVE  LET pairs == EnvPairs(given)
             N == Len(EnvLines(given))
         IN  /\ DOMAIN EnvFromFiles(given) = DOMAIN ProcessEnv \union {pairs[i][1] : i \in 1..N}
             /\ \A x \in DOMAIN EnvFromFiles(given) :
                  EnvFromFiles(given)[x] = ChosenOf(pairs, N, x) /\ EnvFromFiles(given)[x] \in Seq(Tokens)
<1> DEFINE lines == EnvLines(given)
           pairs == EnvPairs(given)
           N == Len(EnvLines(given))
           U == DOMAIN ProcessEnv \union {pairs[i][1] : i \in 1..N}
           V == Environments(U)
           with(e, pair) == [x \in DOMAIN e \union {pair[1]} |-> IF x = pair[1] THEN pair[2] ELSE e[x]]
           G == [n \in 1..N |-> [v \in V |-> with(v, pairs[n])]]
           Is(f) == f = [n \in 0..N |-> IF n = 0 THEN ProcessEnv ELSE with(f[n - 1], SplitOnce(lines[n], Equals))]
           c == CHOOSE f : Is(f)
<1>1. /\ N \in Nat
      /\ \A n \in 1..N : pairs[n] = SplitOnce(lines[n], Equals) /\ pairs[n][2] \in Seq(Tokens) /\ pairs[n][1] \in U
  BY EnvPairsAre, Zenon
<1>2. EnvFromFiles(given) = c[N]
  BY Zenon DEF EnvFromFiles, EnvLines
<1> HIDE DEF c
<1>3. ProcessEnv \in V
  <2>1. /\ ProcessEnv = [x \in DOMAIN ProcessEnv |-> ProcessEnv[x]]
        /\ \A x \in DOMAIN ProcessEnv : ProcessEnv[x] \in Seq(Tokens)
    BY LaunchAssumption
  <2>2. DOMAIN ProcessEnv \subseteq U
    BY Zenon
  <2> HIDE DEF U
  <2>3. QED
    BY <2>1, <2>2, EnvironmentsAre
<1> HIDE DEF lines, pairs, N
<1>4. ASSUME NEW e \in V, NEW n \in 1..N PROVE with(e, pairs[n]) \in V
  <2> DEFINE p == pairs[n]
             d == with(e, p)
  <2>1. /\ DOMAIN e \subseteq U /\ \A x \in DOMAIN e : e[x] \in Seq(Tokens)
    <3> HIDE DEF U
    <3>1. QED
      BY EnvironmentsAre
  <2>2. p[1] \in U /\ p[2] \in Seq(Tokens)
    BY <1>1
  <2> HIDE DEF p, U
  <2>3. DOMAIN d = DOMAIN e \union {p[1]} /\ d = [x \in DOMAIN d |-> d[x]]
    OBVIOUS
  <2>4. \A x \in DOMAIN d : d[x] \in Seq(Tokens)
    BY <2>1, <2>2
  <2> HIDE DEF d
  <2>5. d \in Environments(U)
    BY <2>1, <2>2, <2>3, <2>4, EnvironmentsAre
  <2>6. QED
    BY <2>5 DEF d, p
<1>5. Steps(G, N, V)
  BY <1>4, Zenon DEF Steps
<1> HIDE DEF V, U
<1>6. \A n \in 1..N : \A v \in V : G[n][v] = with(v, pairs[n])
  BY Zenon
<1> HIDE DEF G
<1>7. PICK f : Recurs(f, N, V, ProcessEnv, G)
  BY <1>1, <1>3, <1>5, Recursion
<1>8. f \in [0..N -> V] /\ f[0] = ProcessEnv /\ \A n \in 1..N : f[n] = G[n][f[n - 1]]
  BY <1>7, Zenon DEF Recurs
<1>9. \A n \in 1..N : f[n - 1] \in V
  <2>1. \A n \in 1..N : n - 1 \in 0..N
    BY <1>1
  <2>2. QED
    BY <1>8, <2>1, Zenon
<1> HIDE DEF with
<1>10. \A n \in 0..N : f[n] = IF n = 0 THEN ProcessEnv ELSE with(f[n - 1], SplitOnce(lines[n], Equals))
  <2>1. \A n \in 0..N : n # 0 => n \in 1..N
    BY <1>1
  <2>2. QED
    BY <1>1, <1>6, <1>8, <1>9, <2>1, Zenon
<1>11. Is(f)
  <2>1. f = [n \in 0..N |-> f[n]]
    BY <1>8
  <2>2. [n \in 0..N |-> f[n]] =
          [n \in 0..N |-> IF n = 0 THEN ProcessEnv ELSE with(f[n - 1], SplitOnce(lines[n], Equals))]
    BY <1>10, Zenon
  <2>3. QED
    BY <2>1, <2>2, Zenon
<1>12. Is(c)
  BY <1>11, Zenon DEF c
<1>13. c[0] = ProcessEnv /\ \A n \in 1..N : c[n] = with(c[n - 1], pairs[n])
  <2>1. 0 \in 0..N /\ \A n \in 1..N : n \in 0..N /\ n # 0
    BY <1>1
  <2>2. \A n \in 0..N : c[n] = IF n = 0 THEN ProcessEnv ELSE with(c[n - 1], SplitOnce(lines[n], Equals))
    BY <1>12, Zenon
  <2>3. QED
    BY <1>1, <2>1, <2>2, Zenon
<1> DEFINE Right(n) ==
             /\ c[n] \in V
             /\ DOMAIN c[n] = DOMAIN ProcessEnv \union {pairs[i][1] : i \in 1..n}
             /\ \A x \in DOMAIN c[n] : c[n][x] = ChosenOf(pairs, n, x)
           T == {n \in 0..N : Right(n)}
<1>14. 0 \in T
  <2>1. 1..0 = {} /\ 0 \in 0..N
    BY <1>1
  <2>2. {pairs[i][1] : i \in 1..0} = {} /\ \A x : {i \in 1..0 : pairs[i][1] = x} = {}
    BY <2>1, Zenon
  <2>3. \A x : ChosenOf(pairs, 0, x) = ProcessEnv[x]
    BY <2>2, Zenon DEF ChosenOf
  <2>4. QED
    BY <1>3, <1>13, <2>1, <2>2, <2>3, Zenon
<1>15. ASSUME NEW n \in 1..N, n - 1 \in T PROVE n \in T
  <2>1. n \in 0..N /\ n \in Nat \ {0} /\ 1..n = 1..(n - 1) \union {n}
    BY <1>1
  <2> DEFINE m == n - 1
             p == pairs[n]
             e == c[m]
  <2>2. /\ e \in V /\ DOMAIN e = DOMAIN ProcessEnv \union {pairs[i][1] : i \in 1..m}
        /\ \A x \in DOMAIN e : e[x] = ChosenOf(pairs, m, x)
    BY <1>15, Zenon
  <2>3. c[n] = with(e, p)
    BY <1>13, Zenon
  <2>4. c[n] \in V
    BY <1>4, <2>2, <2>3, Zenon
  <2>5. \A x : ChosenOf(pairs, n, x) = IF x = p[1] THEN p[2] ELSE ChosenOf(pairs, m, x)
    BY <2>1, ChosenStep
  <2>6. {pairs[i][1] : i \in 1..n} = {pairs[i][1] : i \in 1..m} \union {p[1]}
    BY <2>1, Zenon
  <2> HIDE DEF m, p, e
  <2>7. DOMAIN c[n] = DOMAIN e \union {p[1]}
        /\ \A x \in DOMAIN c[n] : c[n][x] = IF x = p[1] THEN p[2] ELSE e[x]
    BY <2>3, Zenon DEF with
  <2>8. DOMAIN c[n] = DOMAIN ProcessEnv \union {pairs[i][1] : i \in 1..n}
    BY <2>2, <2>6, <2>7, Zenon
  <2>9. \A x \in DOMAIN c[n] : c[n][x] = ChosenOf(pairs, n, x)
    BY <2>2, <2>5, <2>7, Zenon
  <2>10. QED
    BY <2>1, <2>4, <2>8, <2>9, Zenon
<1> HIDE DEF T
<1>16. N \in T
  <2>1. \A n \in 0..N : n \in T
    BY <1>1, <1>14, <1>15, InductTo
  <2>2. QED
    BY <1>1, <2>1
<1>17. Right(N)
  BY <1>16, Zenon DEF T
<1>18. \A x \in DOMAIN c[N] : c[N][x] \in Seq(Tokens)
  BY <1>17, EnvironmentsAre DEF V
<1>19. QED
  BY <1>2, <1>17, <1>18, Zenon DEF pairs, N

\* environment_block: the chosen values with statuses and then references replaced.
LEMMA EnvironmentIs ==
  ASSUME NEW given, EnvOK(given), ListOK(Statuses(given), "status"), ListOK(Substitutions(given), "ref")
  PROVE  LET pairs == EnvPairs(given)
             N == Len(EnvLines(given))
         IN  /\ DOMAIN EnvironmentBlock(given) = DOMAIN ProcessEnv \union {pairs[i][1] : i \in 1..N}
             /\ \A x \in DOMAIN EnvironmentBlock(given) :
                  EnvironmentBlock(given)[x] =
                    Meaning(Meaning(ChosenOf(pairs, N, x), "status", Statuses(given)), "ref", Substitutions(given))
<1> DEFINE env == EnvFromFiles(given)
           pairs == EnvPairs(given)
           N == Len(EnvLines(given))
           st == Statuses(given)
           su == Substitutions(given)
<1>1. /\ DOMAIN env = DOMAIN ProcessEnv \union {pairs[i][1] : i \in 1..N}
      /\ \A x \in DOMAIN env : env[x] = ChosenOf(pairs, N, x) /\ env[x] \in Seq(Tokens)
  BY EnvFromFilesIs
<1>2. EnvironmentBlock(given) = [x \in DOMAIN env |-> Replaced(Replaced(env[x], "status", st), "ref", su)]
  BY Zenon DEF EnvironmentBlock
<1>3. ListOK(st, "status") /\ ListOK(su, "ref")
  OBVIOUS
<1> HIDE DEF env, pairs, N, st, su
<1>4. ASSUME NEW v \in Seq(Tokens)
      PROVE  Replaced(Replaced(v, "status", st), "ref", su) = Meaning(Meaning(v, "status", st), "ref", su)
  <2> DEFINE w == Replaced(v, "status", st)
  <2>1. w = Meaning(v, "status", st) /\ w \in Seq(Tokens)
    BY <1>3, ReplacedIs
  <2> HIDE DEF w
  <2>2. Replaced(w, "ref", su) = Meaning(w, "ref", su)
    BY <1>3, <2>1, ReplacedIs
  <2>3. QED
    BY <2>1, <2>2 DEF w
<1>5. \A x \in DOMAIN env : EnvironmentBlock(given)[x] =
        Meaning(Meaning(ChosenOf(pairs, N, x), "status", st), "ref", su)
  BY <1>1, <1>2, <1>4, Zenon
<1>6. DOMAIN EnvironmentBlock(given) = DOMAIN env
  BY <1>2, Zenon
<1>7. QED
  BY <1>1, <1>5, <1>6, Zenon DEF pairs, N, st, su

(***************************************************************************)
(* The arguments and the files they name.                                  *)
(***************************************************************************)
LEMMA FlattenTyped ==
  ASSUME NEW S, NEW ss \in Seq(Seq(S))
  PROVE  FlattenSeq(ss) \in Seq(S)
<1>1. <<>> \in Seq(S)
  OBVIOUS
<1> DEFINE none == <<>>
<1> HIDE DEF none
<1>2. none \in Seq(S)
  BY <1>1 DEF none
<1>3. QED
  BY <1>2, FlattenAppend

\* The elements of sequences made into one.
LEMMA FlattenHas ==
  ASSUME NEW S, NEW ss \in Seq(Seq(S))
  PROVE  ToSet(FlattenSeq(ss)) = UNION {ToSet(ss[i]) : i \in DOMAIN ss}
<1> DEFINE A == Seq(S)
           id == [x \in A |-> x]
<1>1. Maps(id, A, S)
  BY DEF Maps
<1>2. \A i \in DOMAIN ss : id[ss[i]] = ss[i]
  OBVIOUS
<1>3. \A x \in A : id[x] = x
  OBVIOUS
<1>4. ss \in Seq(A) /\ ss = [i \in DOMAIN ss |-> ss[i]]
  OBVIOUS
<1> HIDE DEF id, A
<1>5. [i \in DOMAIN ss |-> id[ss[i]]] = ss
  BY <1>2, <1>4, Zenon
<1>6. Expand(id, ss) = FlattenSeq(ss)
  BY <1>5, Zenon DEF Expand
<1>7. ToSet(Expand(id, ss)) = UNION {ToSet(id[x]) : x \in ToSet(ss)}
  BY <1>1, <1>4, ExpandHas
<1>8. ToSet(ss) = {ss[i] : i \in DOMAIN ss}
  BY Zenon DEF ToSet
<1>9. UNION {ToSet(id[x]) : x \in ToSet(ss)} = UNION {ToSet(ss[i]) : i \in DOMAIN ss}
  BY <1>2, <1>8, Zenon
<1>10. QED
  BY <1>6, <1>7, <1>9, Zenon

Depth == Cardinality(DOMAIN Files)

\* There are finitely many files.
LEMMA DepthIs == Depth \in Nat
BY LaunchAssumption, FS_CardinalityType DEF Depth

Meant(list, arg) == Meaning(arg, "ref", list)
Names(list, arg) == IsParamFile(Meant(list, arg)) /\ Tail(Meant(list, arg)) \in DOMAIN Files
MeantParts(list, args, text) ==
  [i \in DOMAIN args |-> IF Names(list, args[i]) THEN text[Tail(Meant(list, args[i]))] ELSE <<Meant(list, args[i])>>]

\* What the files mean, read to a depth.
MeantFiles(list) ==
  CHOOSE file : file =
    [n \in 0..Depth |-> [path \in DOMAIN Files |->
       IF n = 0 THEN <<>> ELSE FlattenSeq(MeantParts(list, Lines[path], file[n - 1]))]]

Texts == [DOMAIN Files -> Seq(Seq(Tokens))]

\* What stands for arguments are arguments.
LEMMA MeantPartsTyped ==
  ASSUME NEW list, ListOK(list, "ref"), NEW args \in Seq(Seq(Tokens)), NEW text \in Texts
  PROVE  MeantParts(list, args, text) \in Seq(Seq(Seq(Tokens)))
<1> DEFINE parts == MeantParts(list, args, text)
<1>1. DOMAIN args = 1..Len(args) /\ Len(args) \in Nat
  OBVIOUS
<1>2. ASSUME NEW i \in 1..Len(args)
      PROVE  (IF Names(list, args[i]) THEN text[Tail(Meant(list, args[i]))] ELSE <<Meant(list, args[i])>>)
               \in Seq(Seq(Tokens))
  <2> DEFINE arg == args[i]
  <2>1. arg \in Seq(Tokens)
    OBVIOUS
  <2> HIDE DEF arg
  <2>2. Meant(list, arg) \in Seq(Tokens)
    BY <2>1, ReplacedIs DEF Meant
  <2>3. <<Meant(list, arg)>> \in Seq(Seq(Tokens))
    BY <2>2
  <2>4. Names(list, arg) => text[Tail(Meant(list, arg))] \in Seq(Seq(Tokens))
    BY DEF Names, Texts
  <2>5. QED
    BY <2>3, <2>4, Zenon DEF arg
<1>3. parts = [i \in 1..Len(args) |-> IF Names(list, args[i]) THEN text[Tail(Meant(list, args[i]))]
                                     ELSE <<Meant(list, args[i])>>]
  BY <1>1, Zenon DEF MeantParts
<1> HIDE DEF parts
<1>4. DOMAIN parts = 1..Len(args) /\ \A i \in 1..Len(args) : parts[i] \in Seq(Seq(Tokens))
  BY <1>2, <1>3, Zenon
<1>5. parts = [i \in 1..Len(args) |-> parts[i]]
  BY <1>3
<1>6. parts \in Seq(Seq(Seq(Tokens)))
  BY <1>1, <1>4, <1>5
<1>7. QED
  BY <1>6 DEF parts

\* What a file means, by the depth of its reading.
LEMMA MeantFilesAre ==
  ASSUME NEW list, ListOK(list, "ref")
  PROVE  /\ \A n \in 0..Depth : MeantFiles(list)[n] \in Texts
         /\ \A n \in 1..Depth : \A path \in DOMAIN Files :
              MeantFiles(list)[n][path] = FlattenSeq(MeantParts(list, Lines[path], MeantFiles(list)[n - 1]))
<1> DEFINE N == Depth
           V == Texts
           base == [path \in DOMAIN Files |-> <<>>]
           next(text) == [path \in DOMAIN Files |-> FlattenSeq(MeantParts(list, Lines[path], text))]
           G == [n \in 1..N |-> [v \in V |-> next(v)]]
           Is(f) == f = [n \in 0..N |-> [path \in DOMAIN Files |->
                           IF n = 0 THEN <<>> ELSE FlattenSeq(MeantParts(list, Lines[path], f[n - 1]))]]
           c == CHOOSE f : Is(f)
<1>1. N \in Nat /\ base \in V
  BY DepthIs DEF Texts
<1>2. ASSUME NEW text \in V PROVE next(text) \in V
  <2>1. \A path \in DOMAIN Files : Lines[path] \in Seq(Seq(Tokens))
    BY LinesTyped DEF Maps
  <2>2. \A path \in DOMAIN Files : FlattenSeq(MeantParts(list, Lines[path], text)) \in Seq(Seq(Tokens))
    <3> TAKE path \in DOMAIN Files
    <3> DEFINE lines == Lines[path]
               ss == MeantParts(list, lines, text)
    <3>1. lines \in Seq(Seq(Tokens))
      BY <2>1
    <3> HIDE DEF lines
    <3>2. ss \in Seq(Seq(Seq(Tokens)))
      BY <3>1, MeantPartsTyped
    <3> HIDE DEF ss
    <3>3. FlattenSeq(ss) \in Seq(Seq(Tokens))
      BY <3>2, FlattenTyped
    <3>4. QED
      BY <3>3 DEF ss, lines
  <2>3. QED
    BY <2>2 DEF Texts
<1>3. MeantFiles(list) = c
  BY Zenon DEF MeantFiles
<1> HIDE DEF c, N
<1>4. Steps(G, N, V)
  BY <1>2, Zenon DEF Steps
<1>5. \A n \in 1..N : \A v \in V : G[n][v] = next(v)
  BY Zenon
<1> HIDE DEF G, V
<1>6. PICK f : Recurs(f, N, V, base, G)
  <2> HIDE DEF base
  <2>1. QED
    BY <1>1, <1>4, Recursion
<1>7. f \in [0..N -> V] /\ f[0] = base /\ \A n \in 1..N : f[n] = G[n][f[n - 1]]
  BY <1>6, Zenon DEF Recurs
<1>8. \A n \in 1..N : f[n - 1] \in V
  <2>1. \A n \in 1..N : n - 1 \in 0..N
    BY <1>1
  <2>2. QED
    BY <1>7, <2>1, Zenon
<1>9. \A n \in 0..N : f[n] = [path \in DOMAIN Files |->
                           IF n = 0 THEN <<>> ELSE FlattenSeq(MeantParts(list, Lines[path], f[n - 1]))]
  <2>1. \A n \in 0..N : n # 0 => n \in 1..N
    BY <1>1
  <2>2. ASSUME NEW n \in 0..N, n # 0
        PROVE  f[n] = [path \in DOMAIN Files |->
                         IF n = 0 THEN <<>> ELSE FlattenSeq(MeantParts(list, Lines[path], f[n - 1]))]
    <3>1. n \in 1..N
      BY <2>1, <2>2, Zenon
    <3>2. f[n] = next(f[n - 1])
      <4> HIDE DEF next
      <4>1. QED
        BY <1>5, <1>7, <1>8, <3>1, Zenon
    <3>3. \A path \in DOMAIN Files : FlattenSeq(MeantParts(list, Lines[path], f[n - 1]))
            = IF n = 0 THEN <<>> ELSE FlattenSeq(MeantParts(list, Lines[path], f[n - 1]))
      BY <2>2, Zenon
    <3>4. QED
      BY <3>2, <3>3, Zenon
  <2>3. f[0] = [path \in DOMAIN Files |->
                  IF 0 = 0 THEN <<>> ELSE FlattenSeq(MeantParts(list, Lines[path], f[0 - 1]))]
    BY <1>7, Zenon
  <2>4. QED
    BY <2>2, <2>3, Zenon
<1>10. Is(f)
  <2>1. f = [n \in 0..N |-> f[n]]
    BY <1>7
  <2>2. [n \in 0..N |-> f[n]] = [n \in 0..N |-> [path \in DOMAIN Files |->
                           IF n = 0 THEN <<>> ELSE FlattenSeq(MeantParts(list, Lines[path], f[n - 1]))]]
    BY <1>9, Zenon
  <2>3. QED
    BY <2>1, <2>2, Zenon
<1>11. Is(c)
  BY <1>10, Zenon DEF c
<1>12. c[0] = base /\ \A n \in 1..N : c[n] = next(c[n - 1])
  <2>1. 0 \in 0..N /\ \A n \in 1..N : n \in 0..N /\ n # 0
    BY <1>1
  <2>2. \A n \in 0..N : c[n] = [path \in DOMAIN Files |->
                           IF n = 0 THEN <<>> ELSE FlattenSeq(MeantParts(list, Lines[path], c[n - 1]))]
    BY <1>11, Zenon
  <2>3. c[0] = base
    BY <2>1, <2>2, Zenon
  <2>4. ASSUME NEW n \in 1..N PROVE c[n] = next(c[n - 1])
    BY <2>1, <2>2, Zenon
  <2>5. QED
    BY <2>3, <2>4, Zenon
<1> DEFINE T == {n \in 0..N : c[n] \in V}
<1>13. 0 \in T
  BY <1>1, <1>12
<1> HIDE DEF next
<1>14. ASSUME NEW n \in 1..N, n - 1 \in T PROVE n \in T
  <2>1. n \in 0..N
    BY <1>1
  <2>2. c[n] \in V
    BY <1>2, <1>12, <1>14, Zenon
  <2>3. QED
    BY <2>1, <2>2, Zenon
<1> HIDE DEF T
<1>15. \A n \in 0..N : n \in T
  BY <1>1, <1>13, <1>14, InductTo
<1>16. \A n \in 0..N : c[n] \in V
  BY <1>15, Zenon DEF T
<1>17. \A n \in 1..N : \A path \in DOMAIN Files :
         c[n][path] = FlattenSeq(MeantParts(list, Lines[path], c[n - 1]))
  BY <1>12, Zenon DEF next
<1>18. QED
  BY <1>3, <1>16, <1>17, Zenon DEF N, V

\* MeantArgs with its local definitions named.
LEMMA MeantArgsAre ==
  ASSUME NEW l
  PROVE  MeantArgs(l) =
           FlattenSeq(MeantParts(Substitutions(Named(l)), l.child \o ReadAll(Asked(l, "--arg-file")),
                                 MeantFiles(Substitutions(Named(l)))[Depth]))
BY Zenon DEF MeantArgs, MeantParts, MeantFiles, Depth, Meant, Names

FilesNamed(list, file) ==
  {Tail(a) : a \in {a \in {PrepareArg(arg, list) : arg \in ToSet(Lines[file])} : IsParamFile(a)}}
ReadParts(list, lines, read) ==
  [i \in DOMAIN lines |-> IF IsParamFile(PrepareArg(lines[i], list))
                          THEN read[Tail(PrepareArg(lines[i], list))].lines
                          ELSE <<PrepareArg(lines[i], list)>>]
Readable(list, file, read) == FilesNamed(list, file) \subseteq DOMAIN Files /\ \A f \in FilesNamed(list, file) : read[f].ok

\* What is read of the files to a depth.
Processed(path, list) ==
  CHOOSE process : process =
    [n \in 0..Depth |-> [file \in DOMAIN Files |->
       IF n > 0 /\ FilesNamed(list, file) \subseteq DOMAIN Files
                /\ \A f \in FilesNamed(list, file) : process[n - 1][f].ok
       THEN [path |-> path, ok |-> TRUE, lines |-> FlattenSeq(ReadParts(list, Lines[file], process[n - 1]))]
       ELSE Unread(path)]]

Reading(path) == [path : {path}, ok : BOOLEAN, lines : Seq(Seq(Tokens))]
Readings(path) == [DOMAIN Files -> Reading(path)]

\* prepare_arg is what the argument means.
LEMMA PreparedIs ==
  ASSUME NEW list, ListOK(list, "ref"), NEW arg \in Seq(Tokens)
  PROVE  PrepareArg(arg, list) = Meant(list, arg) /\ Meant(list, arg) \in Seq(Tokens)
BY ReplacedIs DEF PrepareArg, Meant

\* A file that a line names is one of the named.
LEMMA NamedOfLines ==
  ASSUME NEW list, NEW file, NEW i \in DOMAIN Lines[file], IsParamFile(PrepareArg(Lines[file][i], list))
  PROVE  Tail(PrepareArg(Lines[file][i], list)) \in FilesNamed(list, file)
<1>1. Lines[file][i] \in ToSet(Lines[file])
  BY Zenon DEF ToSet
<1>2. QED
  BY <1>1, Zenon DEF FilesNamed

\* What is read of a file is lines.
LEMMA ReadPartsTyped ==
  ASSUME NEW list, ListOK(list, "ref"), NEW path, NEW file \in DOMAIN Files, NEW read \in Readings(path),
         Readable(list, file, read)
  PROVE  FlattenSeq(ReadParts(list, Lines[file], read)) \in Seq(Seq(Tokens))
<1> DEFINE lines == Lines[file]
           parts == ReadParts(list, lines, read)
<1>1. lines \in Seq(Seq(Tokens))
  BY LinesTyped DEF Maps
<1>2. \A i \in DOMAIN lines : IsParamFile(PrepareArg(lines[i], list)) =>
        Tail(PrepareArg(lines[i], list)) \in DOMAIN Files
  BY NamedOfLines, Zenon DEF Readable
<1> HIDE DEF lines
<1>3. DOMAIN lines = 1..Len(lines) /\ Len(lines) \in Nat /\ \A i \in 1..Len(lines) : lines[i] \in Seq(Tokens)
  BY <1>1
<1>4. ASSUME NEW i \in 1..Len(lines)
      PROVE  (IF IsParamFile(PrepareArg(lines[i], list)) THEN read[Tail(PrepareArg(lines[i], list))].lines
              ELSE <<PrepareArg(lines[i], list)>>) \in Seq(Seq(Tokens))
  <2> DEFINE arg == PrepareArg(lines[i], list)
  <2>1. arg \in Seq(Tokens)
    <3> DEFINE a == lines[i]
    <3>1. a \in Seq(Tokens)
      BY <1>3
    <3> HIDE DEF a
    <3>2. PrepareArg(a, list) \in Seq(Tokens)
      BY <3>1, PreparedIs
    <3>3. QED
      BY <3>2 DEF a
  <2>2. IsParamFile(arg) => Tail(arg) \in DOMAIN Files
    BY <1>2, <1>3, Zenon
  <2> HIDE DEF arg
  <2>3. <<arg>> \in Seq(Seq(Tokens))
    BY <2>1
  <2>4. IsParamFile(arg) => read[Tail(arg)].lines \in Seq(Seq(Tokens))
    <3> SUFFICES ASSUME IsParamFile(arg) PROVE read[Tail(arg)].lines \in Seq(Seq(Tokens))
      OBVIOUS
    <3> DEFINE f == Tail(arg)
    <3>1. f \in DOMAIN Files
      BY <2>2
    <3> HIDE DEF f
    <3>2. read[f] \in Reading(path)
      BY <3>1 DEF Readings
    <3>3. QED
      BY <3>2 DEF Reading, f
  <2>5. QED
    BY <2>3, <2>4, Zenon DEF arg
<1>5. parts = [i \in 1..Len(lines) |-> IF IsParamFile(PrepareArg(lines[i], list))
                 THEN read[Tail(PrepareArg(lines[i], list))].lines ELSE <<PrepareArg(lines[i], list)>>]
  BY <1>3, Zenon DEF ReadParts
<1> HIDE DEF parts
<1>6. DOMAIN parts = 1..Len(lines) /\ \A i \in 1..Len(lines) : parts[i] \in Seq(Seq(Tokens))
  BY <1>4, <1>5, Zenon
<1>7. parts = [i \in 1..Len(lines) |-> parts[i]]
  BY <1>5
<1>8. parts \in Seq(Seq(Seq(Tokens)))
  BY <1>3, <1>6, <1>7
<1>9. FlattenSeq(parts) \in Seq(Seq(Tokens))
  BY <1>8, FlattenTyped
<1>10. QED
  BY <1>9 DEF parts, lines

\* prepare_param_file by its recursion.
LEMMA ProcessedIs ==
  ASSUME NEW list, ListOK(list, "ref"), NEW path
  PROVE  /\ \A f \in DOMAIN Files : Processed(path, list)[0][f] = Unread(path)
         /\ \A n \in 1..Depth : \A f \in DOMAIN Files :
              Processed(path, list)[n][f] =
                IF Readable(list, f, Processed(path, list)[n - 1])
                THEN [path |-> path, ok |-> TRUE,
                      lines |-> FlattenSeq(ReadParts(list, Lines[f], Processed(path, list)[n - 1]))]
                ELSE Unread(path)
<1> DEFINE N == Depth
           V == Readings(path)
           base == [f \in DOMAIN Files |-> Unread(path)]
           entry(v, f) == IF Readable(list, f, v)
                          THEN [path |-> path, ok |-> TRUE, lines |-> FlattenSeq(ReadParts(list, Lines[f], v))]
                          ELSE Unread(path)
           next(v) == [f \in DOMAIN Files |-> entry(v, f)]
           G == [n \in 1..N |-> [v \in V |-> next(v)]]
           body(n, v, f) == IF n > 0 /\ FilesNamed(list, f) \subseteq DOMAIN Files
                                    /\ \A g \in FilesNamed(list, f) : v[g].ok
                            THEN [path |-> path, ok |-> TRUE, lines |-> FlattenSeq(ReadParts(list, Lines[f], v))]
                            ELSE Unread(path)
           Is(p) == p = [n \in 0..N |-> [f \in DOMAIN Files |-> body(n, p[n - 1], f)]]
           c == CHOOSE p : Is(p)
<1>0. Unread(path) \in Reading(path)
  BY DEF Unread, Reading
<1>1. N \in Nat /\ base \in V
  BY <1>0, DepthIs DEF Readings
<1>2. ASSUME NEW v \in V PROVE next(v) \in V
  <2>1. ASSUME NEW f \in DOMAIN Files PROVE entry(v, f) \in Reading(path)
    <3>1. CASE Readable(list, f, v)
      <4> DEFINE text == FlattenSeq(ReadParts(list, Lines[f], v))
      <4>1. text \in Seq(Seq(Tokens))
        BY <3>1, ReadPartsTyped
      <4> HIDE DEF text
      <4>2. [path |-> path, ok |-> TRUE, lines |-> text] \in Reading(path)
        BY <4>1 DEF Reading
      <4>3. QED
        BY <3>1, <4>2, Zenon DEF text
    <3>2. CASE ~Readable(list, f, v)
      BY <1>0, <3>2, Zenon
    <3>3. QED
      BY <3>1, <3>2
  <2> HIDE DEF entry
  <2>2. QED
    BY <2>1 DEF Readings
<1>3. Processed(path, list) = c
  BY Zenon DEF Processed
<1> HIDE DEF c, N
<1>4. Steps(G, N, V)
  BY <1>2, Zenon DEF Steps
<1>5. \A n \in 1..N : \A v \in V : G[n][v] = next(v)
  BY Zenon
<1> HIDE DEF G, V
<1>6. PICK p : Recurs(p, N, V, base, G)
  <2> HIDE DEF base
  <2>1. QED
    BY <1>1, <1>4, Recursion
<1>7. p \in [0..N -> V] /\ p[0] = base /\ \A n \in 1..N : p[n] = G[n][p[n - 1]]
  BY <1>6, Zenon DEF Recurs
<1>8. \A n \in 1..N : p[n - 1] \in V
  <2>1. \A n \in 1..N : n - 1 \in 0..N
    BY <1>1
  <2>2. QED
    BY <1>7, <2>1, Zenon
<1>9. \A n \in 1..N : \A v : \A f : body(n, v, f) = entry(v, f)
  <2>1. \A n \in 1..N : n > 0
    BY <1>1
  <2>2. QED
    BY <2>1, Zenon DEF Readable
<1>10. \A v : \A f : body(0, v, f) = Unread(path)
  <2>1. ~(0 > 0)
    OBVIOUS
  <2>2. QED
    BY <2>1, Zenon
<1> HIDE DEF body, entry
<1>11. \A n \in 0..N : p[n] = [f \in DOMAIN Files |-> body(n, p[n - 1], f)]
  <2>1. \A n \in 0..N : n = 0 \/ n \in 1..N
    BY <1>1
  <2>2. ASSUME NEW n \in 1..N
        PROVE  p[n] = [f \in DOMAIN Files |-> body(n, p[n - 1], f)]
    <3>1. p[n] = next(p[n - 1])
      <4> HIDE DEF next
      <4>1. QED
        BY <1>5, <1>7, <1>8, Zenon
    <3>2. \A f \in DOMAIN Files : body(n, p[n - 1], f) = entry(p[n - 1], f)
      BY <1>9, Zenon
    <3>3. QED
      BY <3>1, <3>2, Zenon
  <2>3. p[0] = [f \in DOMAIN Files |-> body(0, p[0 - 1], f)]
    BY <1>7, <1>10, Zenon
  <2>4. QED
    BY <2>1, <2>2, <2>3, Zenon
<1>12. Is(p)
  <2>1. p = [n \in 0..N |-> p[n]]
    BY <1>7
  <2>2. [n \in 0..N |-> p[n]] = [n \in 0..N |-> [f \in DOMAIN Files |-> body(n, p[n - 1], f)]]
    BY <1>11, Zenon
  <2>3. QED
    BY <2>1, <2>2, Zenon
<1>13. Is(c)
  BY <1>12, Zenon DEF c
<1>14. \A n \in 0..N : c[n] = [f \in DOMAIN Files |-> body(n, c[n - 1], f)]
  BY <1>13, Zenon
<1>15. \A f \in DOMAIN Files : c[0][f] = Unread(path)
  <2>1. 0 \in 0..N
    BY <1>1
  <2> DEFINE v == c[0 - 1]
  <2>2. c[0] = [f \in DOMAIN Files |-> body(0, v, f)]
    BY <1>14, <2>1, Zenon
  <2> HIDE DEF v
  <2>3. \A f \in DOMAIN Files : c[0][f] = body(0, v, f)
    BY <2>2, Zenon
  <2>4. \A f : body(0, v, f) = Unread(path)
    BY <1>10, Zenon
  <2>5. QED
    BY <2>3, <2>4, Zenon
<1>16. ASSUME NEW n \in 1..N, NEW f \in DOMAIN Files PROVE c[n][f] = entry(c[n - 1], f)
  <2>1. n \in 0..N
    BY <1>1
  <2>2. c[n][f] = body(n, c[n - 1], f)
    BY <1>14, <2>1, Zenon
  <2> DEFINE v == c[n - 1]
  <2>3. c[n][f] = body(n, v, f)
    BY <2>2
  <2> HIDE DEF v
  <2>4. body(n, v, f) = entry(v, f)
    BY <1>9, Zenon
  <2>5. QED
    BY <2>3, <2>4, Zenon DEF v
<1>17. QED
  BY <1>3, <1>15, <1>16, Zenon DEF N, entry

\* What is read of a file that can be read is what the file means.
LEMMA ReadIsMeant ==
  ASSUME NEW list, ListOK(list, "ref"), NEW path
  PROVE  \A n \in 0..Depth : \A f \in DOMAIN Files :
           /\ Processed(path, list)[n][f].path = path
           /\ Processed(path, list)[n][f].ok => Processed(path, list)[n][f].lines = MeantFiles(list)[n][f]
<1> DEFINE c == Processed(path, list)
           M == MeantFiles(list)
           N == Depth
           Right(n) == \A f \in DOMAIN Files : c[n][f].path = path /\ (c[n][f].ok => c[n][f].lines = M[n][f])
           T == {n \in 0..N : Right(n)}
<1>1. N \in Nat
  BY DepthIs
<1>2. /\ \A f \in DOMAIN Files : c[0][f] = Unread(path)
      /\ \A n \in 1..N : \A f \in DOMAIN Files :
           c[n][f] = IF Readable(list, f, c[n - 1])
                     THEN [path |-> path, ok |-> TRUE, lines |-> FlattenSeq(ReadParts(list, Lines[f], c[n - 1]))]
                     ELSE Unread(path)
  BY ProcessedIs, Zenon
<1>3. \A n \in 1..N : \A f \in DOMAIN Files : M[n][f] = FlattenSeq(MeantParts(list, Lines[f], M[n - 1]))
  BY MeantFilesAre, Zenon
<1> HIDE DEF c, M, N
<1>4. Unread(path).path = path /\ ~Unread(path).ok
  BY DEF Unread
<1>5. 0 \in T
  <2>1. 0 \in 0..N
    BY <1>1
  <2>2. QED
    BY <1>2, <1>4, <2>1, Zenon
<1>6. ASSUME NEW n \in 1..N, n - 1 \in T PROVE n \in T
  <2> DEFINE m == n - 1
             v == c[m]
             w == M[m]
  <2>1. n \in 0..N
    BY <1>1
  <2>2. Right(m)
    BY <1>6, Zenon
  <2>3. ASSUME NEW f \in DOMAIN Files PROVE c[n][f].path = path /\ (c[n][f].ok => c[n][f].lines = M[n][f])
    <3>1. CASE Readable(list, f, v)
      <4> DEFINE lines == Lines[f]
                 a == ReadParts(list, lines, v)
                 b == MeantParts(list, lines, w)
      <4>1. c[n][f] = [path |-> path, ok |-> TRUE, lines |-> FlattenSeq(a)] /\ M[n][f] = FlattenSeq(b)
        BY <1>2, <1>3, <3>1, Zenon
      <4>2. lines \in Seq(Seq(Tokens))
        BY LinesTyped DEF Maps
      <4>3. \A i \in DOMAIN lines : IsParamFile(PrepareArg(lines[i], list)) =>
              Tail(PrepareArg(lines[i], list)) \in FilesNamed(list, f)
        BY NamedOfLines, Zenon
      <4>4. \A g \in FilesNamed(list, f) : g \in DOMAIN Files /\ v[g].ok
        BY <3>1, Zenon DEF Readable
      <4>5. \A g \in FilesNamed(list, f) : v[g].lines = w[g]
        BY <2>2, <4>4, Zenon
      <4> HIDE DEF lines, v, w
      <4>6. ASSUME NEW i \in DOMAIN lines
            PROVE  (IF IsParamFile(PrepareArg(lines[i], list)) THEN v[Tail(PrepareArg(lines[i], list))].lines
                    ELSE <<PrepareArg(lines[i], list)>>)
                     = IF Names(list, lines[i]) THEN w[Tail(Meant(list, lines[i]))] ELSE <<Meant(list, lines[i])>>
        <5> DEFINE arg == lines[i]
        <5>1. arg \in Seq(Tokens)
          BY <4>2
        <5>2. IsParamFile(PrepareArg(arg, list)) => Tail(PrepareArg(arg, list)) \in FilesNamed(list, f)
          BY <4>3, Zenon
        <5> HIDE DEF arg
        <5>3. PrepareArg(arg, list) = Meant(list, arg)
          BY <5>1, PreparedIs
        <5>4. Names(list, arg) <=> IsParamFile(PrepareArg(arg, list))
          BY <4>4, <5>2, <5>3, Zenon DEF Names
        <5>5. IsParamFile(PrepareArg(arg, list)) => v[Tail(PrepareArg(arg, list))].lines = w[Tail(Meant(list, arg))]
          BY <4>5, <5>2, <5>3, Zenon
        <5>6. QED
          BY <5>3, <5>4, <5>5, Zenon DEF arg
      <4>7. a = b
        BY <4>6, Zenon DEF ReadParts, MeantParts
      <4> HIDE DEF a, b
      <4>8. c[n][f].path = path /\ c[n][f].lines = FlattenSeq(a)
        BY <4>1
      <4>9. QED
        BY <4>1, <4>7, <4>8, Zenon
    <3>2. CASE ~Readable(list, f, v)
      <4>1. c[n][f] = Unread(path)
        BY <1>2, <3>2, Zenon
      <4>2. QED
        BY <1>4, <4>1, Zenon
    <3>3. QED
      BY <3>1, <3>2
  <2>4. QED
    BY <2>1, <2>3, Zenon
<1> HIDE DEF T
<1>7. \A n \in 0..N : n \in T
  BY <1>1, <1>5, <1>6, InductTo
<1>8. QED
  BY <1>7, Zenon DEF T, N, c, M

\* prepare_param_file: a file that was read holds what it means.
LEMMA ParamFileIs ==
  ASSUME NEW list, ListOK(list, "ref"), NEW path
  PROVE  /\ PrepareParamFile(path, list).path = path
         /\ PrepareParamFile(path, list).ok =>
              path \in DOMAIN Files /\ PrepareParamFile(path, list).lines = MeantFiles(list)[Depth][path]
<1>1. PrepareParamFile(path, list) = IF path \in DOMAIN Files THEN Processed(path, list)[Depth][path] ELSE Unread(path)
  BY Zenon DEF PrepareParamFile, Processed, Depth, Readable, FilesNamed, ReadParts
<1>2. Unread(path).path = path /\ ~Unread(path).ok
  BY DEF Unread
<1> DEFINE c == Processed(path, list)
           M == MeantFiles(list)
<1>3. \A n \in 0..Depth : \A f \in DOMAIN Files : c[n][f].path = path /\ (c[n][f].ok => c[n][f].lines = M[n][f])
  BY ReadIsMeant
<1>4. Depth \in 0..Depth
  BY DepthIs
<1> HIDE DEF c, M
<1>5. \A f \in DOMAIN Files : c[Depth][f].path = path /\ (c[Depth][f].ok => c[Depth][f].lines = M[Depth][f])
  BY <1>3, <1>4, Zenon
<1>6. QED
  BY <1>1, <1>2, <1>5, Zenon DEF c, M

\* What a child with some arguments and some files written for it reads.
ReadOf(args, written_) ==
  FlattenSeq([i \in DOMAIN args |->
    IF IsParamFile(args[i]) THEN (CHOOSE w \in written_ : w.path = Tail(args[i])).lines ELSE <<args[i]>>])

PreparedArgs(args, list) == [i \in DOMAIN args |-> PrepareArg(args[i], list)]
NamedBy(prepared) == {Tail(arg) : arg \in {a \in ToSet(prepared) : IsParamFile(a)}}
FilesFor(prepared, list) == {PrepareParamFile(path, list) : path \in NamedBy(prepared)}
Final(arg) == IF IsParamFile(arg) THEN <<At>> \o Expanded(Tail(arg)) ELSE arg
Finals(prepared) == [i \in DOMAIN prepared |-> Final(prepared[i])]
WrittenFor(files) == {[path |-> Expanded(file.path), lines |-> file.lines] : file \in files}
Gate(given, prepared, files) ==
  IF IsTrue(given, "--require-explicit-unstable-features") /\ ~AllowedFeatures(prepared, files)
  THEN << <<AllowFeatures>> >> ELSE <<>>

\* prepare_args with its local definitions named.
LEMMA PrepareArgsAre ==
  ASSUME NEW given, NEW args
  PROVE  LET list == Substitutions(given)
             prepared == PreparedArgs(args, list)
             files == FilesFor(prepared, list)
         IN  /\ PrepareArgs(args, given).ok = (\A file \in files : file.ok)
             /\ PrepareArgs(args, given).args = Finals(prepared) \o Gate(given, prepared, files)
             /\ PrepareArgs(args, given).written = WrittenFor(files)
<1> DEFINE list == Substitutions(given)
           prepared == PreparedArgs(args, list)
           files == FilesFor(prepared, list)
           o == \A file \in files : file.ok
           a == Finals(prepared) \o Gate(given, prepared, files)
           w == WrittenFor(files)
<1>1. PrepareArgs(args, given) = [ok |-> o, args |-> a, written |-> w]
  BY Zenon DEF PrepareArgs, PreparedArgs, NamedBy, FilesFor, Final, Finals, WrittenFor, Gate
<1> HIDE DEF o, a, w
<1>2. QED
  BY <1>1 DEF o, a, w

\* The flag that gates features names no file.
LEMMA NotParam ==
  /\ ~IsParamFile(<<AllowFeatures>>)
  /\ \A arg : IsParamFile(arg) => ~IsAllowFeaturesFlag(arg)
<1>1. At # AllowFeatures /\ At # Text("allow-features=")
  <2>1. "@" # "-Zallow-features=" /\ "@" # "allow-features="
    OBVIOUS
  <2>2. QED
    BY <2>1 DEF At, AllowFeatures, Text
<1>2. Head(<<AllowFeatures>>) = AllowFeatures
  OBVIOUS
<1>3. QED
  BY <1>1, <1>2, Zenon DEF IsParamFile, IsAllowFeaturesFlag

\* @file becomes @file.expanded, and the rest stays.
LEMMA FinalIs ==
  ASSUME NEW arg \in Seq(Tokens)
  PROVE  /\ IsParamFile(Final(arg)) = IsParamFile(arg)
         /\ IsParamFile(arg) => Tail(Final(arg)) = Expanded(Tail(arg)) /\ Tail(arg) \in Seq(Tokens)
         /\ ~IsParamFile(arg) => Final(arg) = arg
<1>1. CASE IsParamFile(arg)
  <2> DEFINE p == Tail(arg)
             e == Expanded(p)
  <2>1. p \in Seq(Tokens)
    BY <1>1 DEF IsParamFile
  <2>2. Text(".expanded") \in Tokens /\ At \in Tokens
    BY TokensAre
  <2> HIDE DEF p
  <2>3. e \in Seq(Tokens)
    BY <2>1, <2>2 DEF Expanded
  <2> HIDE DEF e
  <2>4. <<At>> \o e # <<>> /\ Head(<<At>> \o e) = At /\ Tail(<<At>> \o e) = e
    <3> DEFINE at == At
    <3>1. at \in Tokens
      BY <2>2
    <3> HIDE DEF at
    <3>2. <<at>> \o e # <<>> /\ Head(<<at>> \o e) = at /\ Tail(<<at>> \o e) = e
      BY <2>3, <3>1
    <3>3. QED
      BY <3>2 DEF at
  <2>5. Final(arg) = <<At>> \o e
    BY <1>1, Zenon DEF Final, e, p
  <2>6. IsParamFile(Final(arg))
    BY <2>4, <2>5, Zenon DEF IsParamFile
  <2>7. QED
    BY <1>1, <2>1, <2>4, <2>5, <2>6, Zenon DEF e, p
<1>2. CASE ~IsParamFile(arg)
  <2>1. Final(arg) = arg
    BY <1>2, Zenon DEF Final
  <2>2. QED
    BY <1>2, <2>1, Zenon
<1>3. QED
  BY <1>1, <1>2

\* No two files are expanded into one.
LEMMA ExpandedOnce ==
  ASSUME NEW p \in Seq(Tokens), NEW q \in Seq(Tokens), Expanded(p) = Expanded(q)
  PROVE  p = q
<1> DEFINE x == Text(".expanded")
<1>1. x \in Tokens
  BY TokensAre
<1>2. Append(p, x) = Append(q, x)
  BY DEF Expanded
<1> HIDE DEF x
<1>3. Len(p) = Len(q) /\ Len(p) \in Nat
  BY <1>2
<1>4. \A i \in 1..Len(p) : p[i] = Append(p, x)[i] /\ q[i] = Append(q, x)[i]
  BY <1>1, <1>3
<1>5. QED
  BY <1>2, <1>3, <1>4

\* The file that was written for an argument holds what was read of the file it names.
LEMMA WrittenIs ==
  ASSUME NEW list, ListOK(list, "ref"), NEW prepared \in Seq(Seq(Tokens)),
         NEW path \in NamedBy(prepared)
  PROVE  (CHOOSE w \in WrittenFor(FilesFor(prepared, list)) : w.path = Expanded(path)).lines
           = PrepareParamFile(path, list).lines
<1> DEFINE files == FilesFor(prepared, list)
           W == WrittenFor(files)
           v == CHOOSE w \in W : w.path = Expanded(path)
<1>1. \A p \in NamedBy(prepared) : p \in Seq(Tokens)
  <2> SUFFICES ASSUME NEW a \in ToSet(prepared), IsParamFile(a) PROVE Tail(a) \in Seq(Tokens)
    BY DEF NamedBy
  <2>1. a \in Seq(Tokens)
    BY DEF ToSet
  <2>2. QED
    BY <2>1 DEF IsParamFile
<1>2. \A p : PrepareParamFile(p, list).path = p
  BY ParamFileIs
<1>3. ASSUME NEW w \in W
      PROVE  \E p \in NamedBy(prepared) : w.path = Expanded(p) /\ w.lines = PrepareParamFile(p, list).lines
  <2>1. PICK file \in files : w = [path |-> Expanded(file.path), lines |-> file.lines]
    BY Zenon DEF WrittenFor
  <2>2. PICK p \in NamedBy(prepared) : file = PrepareParamFile(p, list)
    BY <2>1, Zenon DEF FilesFor
  <2>3. w.path = Expanded(file.path) /\ w.lines = file.lines
    BY <2>1
  <2>4. QED
    BY <1>2, <2>2, <2>3, Zenon
<1>4. \E w \in W : w.path = Expanded(path)
  <2> DEFINE file == PrepareParamFile(path, list)
             w == [path |-> Expanded(file.path), lines |-> file.lines]
  <2>1. file \in files
    BY Zenon DEF FilesFor
  <2>2. w \in W
    BY <2>1, Zenon DEF WrittenFor
  <2>3. w.path = Expanded(file.path)
    OBVIOUS
  <2> HIDE DEF w
  <2>4. w.path = Expanded(path)
    BY <1>2, <2>3, Zenon
  <2>5. QED
    BY <2>2, <2>4, Zenon
<1> HIDE DEF W, files
<1>5. v \in W /\ v.path = Expanded(path)
  BY <1>4, Zenon
<1> HIDE DEF v
<1>6. PICK p \in NamedBy(prepared) : v.path = Expanded(p) /\ v.lines = PrepareParamFile(p, list).lines
  BY <1>3, <1>5
<1>7. p = path
  BY <1>1, <1>5, <1>6, ExpandedOnce
<1>8. QED
  BY <1>6, <1>7, Zenon DEF v, W, files

\* What stands for an argument of the command line.
PartOf(prepared, list, i) ==
  IF IsParamFile(prepared[i]) THEN PrepareParamFile(Tail(prepared[i]), list).lines ELSE <<prepared[i]>>

\* The arguments as they are prepared.
LEMMA PreparedAre ==
  ASSUME NEW list, ListOK(list, "ref"), NEW args \in Seq(Seq(Tokens))
  PROVE  /\ PreparedArgs(args, list) \in Seq(Seq(Tokens)) /\ DOMAIN PreparedArgs(args, list) = DOMAIN args
         /\ \A i \in DOMAIN args : PreparedArgs(args, list)[i] = Meant(list, args[i])
         /\ \A i \in DOMAIN args : IsParamFile(PreparedArgs(args, list)[i]) =>
              Tail(PreparedArgs(args, list)[i]) \in NamedBy(PreparedArgs(args, list))
<1> DEFINE prepared == PreparedArgs(args, list)
<1>1. DOMAIN args = 1..Len(args) /\ Len(args) \in Nat /\ \A i \in DOMAIN args : args[i] \in Seq(Tokens)
  OBVIOUS
<1>2. \A i \in DOMAIN args : PrepareArg(args[i], list) = Meant(list, args[i])
                               /\ PrepareArg(args[i], list) \in Seq(Tokens)
  <2> TAKE i \in DOMAIN args
  <2> DEFINE a == args[i]
  <2>1. a \in Seq(Tokens)
    BY <1>1
  <2> HIDE DEF a
  <2>2. PrepareArg(a, list) = Meant(list, a) /\ PrepareArg(a, list) \in Seq(Tokens)
    BY <2>1, PreparedIs
  <2>3. QED
    BY <2>2 DEF a
<1>3. prepared = [i \in DOMAIN args |-> PrepareArg(args[i], list)]
  BY Zenon DEF PreparedArgs
<1> HIDE DEF prepared
<1>4. DOMAIN prepared = DOMAIN args /\ \A i \in DOMAIN args : prepared[i] = PrepareArg(args[i], list)
  BY <1>3, Zenon
<1>5. prepared = [i \in 1..Len(args) |-> prepared[i]]
  BY <1>1, <1>3
<1>6. \A i \in 1..Len(args) : prepared[i] \in Seq(Tokens)
  BY <1>1, <1>2, <1>4, Zenon
<1>7. prepared \in Seq(Seq(Tokens))
  BY <1>1, <1>5, <1>6
<1>8. \A i \in DOMAIN args : prepared[i] \in ToSet(prepared)
  BY <1>4, Zenon DEF ToSet
<1>9. \A i \in DOMAIN args : IsParamFile(prepared[i]) => Tail(prepared[i]) \in NamedBy(prepared)
  BY <1>8, Zenon DEF NamedBy
<1>10. QED
  BY <1>2, <1>4, <1>7, <1>9, Zenon DEF prepared

\* Each argument becomes what it means.
LEMMA PartIsMeant ==
  ASSUME NEW list, ListOK(list, "ref"), NEW args \in Seq(Seq(Tokens)),
         \A file \in FilesFor(PreparedArgs(args, list), list) : file.ok, NEW i \in DOMAIN args
  PROVE  PartOf(PreparedArgs(args, list), list, i) = MeantParts(list, args, MeantFiles(list)[Depth])[i]
<1> DEFINE prepared == PreparedArgs(args, list)
           M == MeantFiles(list)[Depth]
           a == prepared[i]
           p == Tail(a)
<1>1. a = Meant(list, args[i]) /\ (IsParamFile(a) => p \in NamedBy(prepared))
  BY PreparedAre
<1>2. IsParamFile(a) => PrepareParamFile(p, list).ok
  BY <1>1, Zenon DEF FilesFor
<1>3. IsParamFile(a) => p \in DOMAIN Files /\ PrepareParamFile(p, list).lines = M[p]
  <2> HIDE DEF p, M
  <2>1. PrepareParamFile(p, list).ok => p \in DOMAIN Files /\ PrepareParamFile(p, list).lines = MeantFiles(list)[Depth][p]
    BY ParamFileIs
  <2>2. QED
    BY <1>2, <2>1, Zenon DEF M
<1>4. MeantParts(list, args, M)[i] = IF Names(list, args[i]) THEN M[Tail(Meant(list, args[i]))] ELSE <<Meant(list, args[i])>>
  BY Zenon DEF MeantParts
<1>5. Names(list, args[i]) <=> IsParamFile(a)
  BY <1>1, <1>3, Zenon DEF Names
<1>6. QED
  BY <1>1, <1>3, <1>4, <1>5, Zenon DEF PartOf

\* Whether features are asked for depends on the elements alone.
LEMMA AllowsIs ==
  ASSUME NEW s
  PROVE  Allows(s) <=> \E x \in ToSet(s) : IsAllowFeaturesFlag(x)
BY Zenon DEF Allows, ToSet

\* The wrapper sees the features asked for where the child would.
LEMMA FeaturesSeen ==
  ASSUME NEW list, ListOK(list, "ref"), NEW args \in Seq(Seq(Tokens)),
         \A file \in FilesFor(PreparedArgs(args, list), list) : file.ok
  PROVE  AllowedFeatures(PreparedArgs(args, list), FilesFor(PreparedArgs(args, list), list))
           <=> Allows(FlattenSeq(MeantParts(list, args, MeantFiles(list)[Depth])))
<1> DEFINE prepared == PreparedArgs(args, list)
           files == FilesFor(prepared, list)
           parts == MeantParts(list, args, MeantFiles(list)[Depth])
           part(i) == PartOf(prepared, list, i)
<1>1. DOMAIN prepared = DOMAIN args
      /\ \A i \in DOMAIN args : IsParamFile(prepared[i]) => Tail(prepared[i]) \in NamedBy(prepared)
  BY PreparedAre
<1>2. \A i \in DOMAIN args : parts[i] = part(i)
  BY PartIsMeant
<1>3. parts \in Seq(Seq(Seq(Tokens))) /\ DOMAIN parts = DOMAIN args
  <2>1. Depth \in 0..Depth
    BY DepthIs
  <2> DEFINE text == MeantFiles(list)[Depth]
  <2>2. text \in Texts
    BY <2>1, MeantFilesAre
  <2> HIDE DEF text
  <2>3. MeantParts(list, args, text) \in Seq(Seq(Seq(Tokens)))
    BY <2>2, MeantPartsTyped
  <2>4. DOMAIN MeantParts(list, args, text) = DOMAIN args
    BY Zenon DEF MeantParts
  <2>5. QED
    BY <2>3, <2>4 DEF text
<1> HIDE DEF parts
<1>4. ToSet(FlattenSeq(parts)) = UNION {ToSet(parts[i]) : i \in DOMAIN parts}
  BY <1>3, FlattenHas
<1>5. Allows(FlattenSeq(parts)) <=> \E i \in DOMAIN args : \E x \in ToSet(part(i)) : IsAllowFeaturesFlag(x)
  <2>1. Allows(FlattenSeq(parts)) <=> \E i \in DOMAIN args : \E x \in ToSet(parts[i]) : IsAllowFeaturesFlag(x)
    BY <1>3, <1>4, AllowsIs, Zenon
  <2> HIDE DEF part
  <2>2. QED
    BY <1>2, <2>1, Zenon
<1> HIDE DEF prepared
<1>6. ASSUME NEW i \in DOMAIN args, NEW x \in ToSet(part(i)), IsAllowFeaturesFlag(x)
      PROVE  AllowedFeatures(prepared, files)
  <2>1. CASE IsParamFile(prepared[i])
    <3> DEFINE file == PrepareParamFile(Tail(prepared[i]), list)
    <3>1. file \in files
      BY <1>1, <2>1, Zenon DEF FilesFor
    <3>2. part(i) = file.lines
      BY <2>1, Zenon DEF PartOf
    <3> HIDE DEF file, part
    <3>3. \E k \in DOMAIN file.lines : IsAllowFeaturesFlag(file.lines[k])
      BY <1>6, <3>2, Zenon DEF ToSet
    <3> HIDE DEF files
    <3>4. QED
      BY <3>1, <3>3, Zenon DEF AllowedFeatures
  <2>2. CASE ~IsParamFile(prepared[i])
    <3>1. part(i) = <<prepared[i]>>
      BY <2>2, Zenon DEF PartOf
    <3> DEFINE a == prepared[i]
    <3>2. ToSet(<<a>>) = {a}
      <4> HIDE DEF a
      <4>1. QED
        BY ToSetOne
    <3>3. x = prepared[i]
      BY <1>6, <3>1, <3>2, Zenon
    <3> HIDE DEF files
    <3>4. QED
      BY <1>1, <1>6, <3>3, Zenon DEF AllowedFeatures
  <2>3. QED
    BY <2>1, <2>2
<1>7. ASSUME AllowedFeatures(prepared, files)
      PROVE  \E i \in DOMAIN args : \E x \in ToSet(part(i)) : IsAllowFeaturesFlag(x)
  <2>1. CASE \E i \in DOMAIN prepared : IsAllowFeaturesFlag(prepared[i])
    <3>1. PICK i \in DOMAIN args : IsAllowFeaturesFlag(prepared[i])
      BY <1>1, <2>1
    <3>2. part(i) = <<prepared[i]>>
      BY <3>1, NotParam, Zenon DEF PartOf
    <3> DEFINE a == prepared[i]
    <3>3. ToSet(<<a>>) = {a}
      <4> HIDE DEF a
      <4>1. QED
        BY ToSetOne
    <3>4. a \in ToSet(part(i))
      BY <3>2, <3>3, Zenon
    <3> HIDE DEF part
    <3>5. QED
      BY <3>1, <3>4, Zenon
  <2>2. CASE \E file \in files : \E k \in DOMAIN file.lines : IsAllowFeaturesFlag(file.lines[k])
    <3>1. PICK path \in NamedBy(prepared) :
            \E k \in DOMAIN PrepareParamFile(path, list).lines : IsAllowFeaturesFlag(PrepareParamFile(path, list).lines[k])
      BY <2>2, Zenon DEF FilesFor
    <3>2. PICK i \in DOMAIN prepared : IsParamFile(prepared[i]) /\ path = Tail(prepared[i])
      BY Zenon DEF NamedBy, ToSet
    <3>3. part(i) = PrepareParamFile(path, list).lines
      BY <3>2, Zenon DEF PartOf
    <3> HIDE DEF part
    <3>4. \E x \in ToSet(part(i)) : IsAllowFeaturesFlag(x)
      BY <3>1, <3>3, Zenon DEF ToSet
    <3>5. QED
      BY <1>1, <3>2, <3>4, Zenon
  <2>3. QED
    BY <1>7, <2>1, <2>2, Zenon DEF AllowedFeatures
<1> HIDE DEF part, files
<1>8. QED
  BY <1>5, <1>6, <1>7, Zenon DEF prepared, files, parts

\* A longer sequence as a function.
LEMMA AppendIs ==
  ASSUME NEW S, NEW s \in Seq(S), NEW x \in S
  PROVE  Append(s, x) = [i \in 1..(Len(s) + 1) |-> Append(s, x)[i]]
<1> DEFINE t == Append(s, x)
<1>1. t \in Seq(S) /\ Len(t) = Len(s) + 1
  OBVIOUS
<1> HIDE DEF t
<1>2. t = [i \in 1..Len(t) |-> t[i]]
  BY <1>1
<1>3. QED
  BY <1>1, <1>2, Zenon DEF t

\* The arguments the child gets.
LEMMA FinalsAre ==
  ASSUME NEW prepared \in Seq(Seq(Tokens))
  PROVE  /\ Finals(prepared) \in Seq(Seq(Tokens)) /\ Len(Finals(prepared)) = Len(prepared)
         /\ \A i \in 1..Len(prepared) : Finals(prepared)[i] = Final(prepared[i])
<1>1. DOMAIN prepared = 1..Len(prepared) /\ Len(prepared) \in Nat /\ \A i \in 1..Len(prepared) : prepared[i] \in Seq(Tokens)
  OBVIOUS
<1>2. \A arg \in Seq(Tokens) : Final(arg) \in Seq(Tokens)
  <2> TAKE arg \in Seq(Tokens)
  <2>1. CASE IsParamFile(arg)
    <3> DEFINE p == Tail(arg)
               x == Text(".expanded")
               at == At
    <3>1. p \in Seq(Tokens)
      BY <2>1 DEF IsParamFile
    <3>2. x \in Tokens /\ at \in Tokens
      BY TokensAre
    <3> HIDE DEF p, x, at
    <3>3. <<at>> \o Append(p, x) \in Seq(Tokens)
      BY <3>1, <3>2
    <3>4. QED
      BY <2>1, <3>3, Zenon DEF Final, Expanded, p, x, at
  <2>2. CASE ~IsParamFile(arg)
    BY <2>2, Zenon DEF Final
  <2>3. QED
    BY <2>1, <2>2
<1> DEFINE f == Finals(prepared)
<1>3. f = [i \in 1..Len(prepared) |-> Final(prepared[i])]
  BY <1>1, Zenon DEF Finals
<1> HIDE DEF f
<1>4. DOMAIN f = 1..Len(prepared) /\ \A i \in 1..Len(prepared) : f[i] = Final(prepared[i])
  BY <1>3, Zenon
<1>5. \A i \in 1..Len(prepared) : f[i] \in Seq(Tokens)
  BY <1>1, <1>2, <1>4, Zenon
<1>6. f = [i \in 1..Len(prepared) |-> f[i]]
  BY <1>3
<1>7. f \in Seq(Seq(Tokens)) /\ Len(f) = Len(prepared)
  BY <1>1, <1>5, <1>6
<1>8. QED
  BY <1>4, <1>7 DEF f

\* What the child reads for one argument.
ReadFor(arg, written_) == IF IsParamFile(arg) THEN (CHOOSE w \in written_ : w.path = Tail(arg)).lines ELSE <<arg>>

\* The child reads for each argument what it means.
LEMMA ReadForIs ==
  ASSUME NEW list, ListOK(list, "ref"), NEW args \in Seq(Seq(Tokens)),
         \A file \in FilesFor(PreparedArgs(args, list), list) : file.ok, NEW i \in DOMAIN args
  PROVE  ReadFor(Final(PreparedArgs(args, list)[i]), WrittenFor(FilesFor(PreparedArgs(args, list), list)))
           = MeantParts(list, args, MeantFiles(list)[Depth])[i]
<1> DEFINE prepared == PreparedArgs(args, list)
           W == WrittenFor(FilesFor(prepared, list))
           a == prepared[i]
           p == Tail(a)
<1>1. prepared \in Seq(Seq(Tokens)) /\ DOMAIN prepared = DOMAIN args /\ (IsParamFile(a) => p \in NamedBy(prepared))
  BY PreparedAre
<1>2. PartOf(prepared, list, i) = MeantParts(list, args, MeantFiles(list)[Depth])[i]
  BY PartIsMeant
<1> HIDE DEF prepared
<1>3. a \in Seq(Tokens)
  BY <1>1
<1> HIDE DEF a
<1>4. /\ IsParamFile(Final(a)) = IsParamFile(a)
      /\ IsParamFile(a) => Tail(Final(a)) = Expanded(p)
      /\ ~IsParamFile(a) => Final(a) = a
  BY <1>3, FinalIs
<1> HIDE DEF p
<1>5. IsParamFile(a) => (CHOOSE w \in W : w.path = Expanded(p)).lines = PrepareParamFile(p, list).lines
  BY <1>1, WrittenIs
<1>6. CASE IsParamFile(a)
  <2>1. ReadFor(Final(a), W) = (CHOOSE w \in W : w.path = Tail(Final(a))).lines
    BY <1>4, <1>6, Zenon DEF ReadFor
  <2>2. PartOf(prepared, list, i) = PrepareParamFile(p, list).lines
    BY <1>6, Zenon DEF PartOf, a, p
  <2>3. QED
    BY <1>2, <1>4, <1>5, <1>6, <2>1, <2>2, Zenon DEF prepared, a
<1>7. CASE ~IsParamFile(a)
  <2>1. ReadFor(Final(a), W) = <<a>>
    BY <1>4, <1>7, Zenon DEF ReadFor
  <2>2. PartOf(prepared, list, i) = <<a>>
    BY <1>7, Zenon DEF PartOf, a
  <2>3. QED
    BY <1>2, <2>1, <2>2, Zenon DEF prepared, a
<1>8. QED
  BY <1>6, <1>7

(***************************************************************************)
(* The child reads what its arguments mean, and the flag that gates the    *)
(* features if they mention none.                                          *)
(***************************************************************************)
LEMMA ArgsAreMeant ==
  ASSUME NEW given, NEW args \in Seq(Seq(Tokens)), ListOK(Substitutions(given), "ref"),
         PrepareArgs(args, given).ok
  PROVE  LET list == Substitutions(given)
             meant == FlattenSeq(MeantParts(list, args, MeantFiles(list)[Depth]))
             gated == IsTrue(given, "--require-explicit-unstable-features") /\ ~Allows(meant)
         IN  /\ meant \in Seq(Seq(Tokens))
             /\ ReadOf(PrepareArgs(args, given).args, PrepareArgs(args, given).written)
                  = meant \o (IF gated THEN << <<AllowFeatures>> >> ELSE <<>>)
<1> DEFINE list == Substitutions(given)
           parts == MeantParts(list, args, MeantFiles(list)[Depth])
           meant == FlattenSeq(parts)
           gated == IsTrue(given, "--require-explicit-unstable-features") /\ ~Allows(meant)
           prepared == PreparedArgs(args, list)
           files == FilesFor(prepared, list)
           W == WrittenFor(files)
           fin == Finals(prepared)
           g == <<AllowFeatures>>
           out == PrepareArgs(args, given).args
           reads(s) == [i \in DOMAIN s |-> ReadFor(s[i], W)]
<1>1. /\ \A file \in files : file.ok
      /\ out = fin \o Gate(given, prepared, files)
      /\ PrepareArgs(args, given).written = W
  BY PrepareArgsAre
<1>2. ListOK(list, "ref")
  OBVIOUS
<1>3. AllowedFeatures(prepared, files) <=> Allows(meant)
  <2> HIDE DEF list
  <2>1. QED
    BY <1>1, <1>2, FeaturesSeen
<1>4. Gate(given, prepared, files) = IF gated THEN <<g>> ELSE <<>>
  <2> HIDE DEF files, prepared, meant
  <2>1. QED
    BY <1>3, Zenon DEF Gate
<1>5. ReadOf(out, W) = FlattenSeq(reads(out))
  BY Zenon DEF ReadOf, ReadFor
<1>6. parts \in Seq(Seq(Seq(Tokens))) /\ DOMAIN parts = DOMAIN args
  <2>1. Depth \in 0..Depth
    BY DepthIs
  <2> HIDE DEF list
  <2> DEFINE text == MeantFiles(list)[Depth]
  <2>2. text \in Texts
    BY <1>2, <2>1, MeantFilesAre
  <2> HIDE DEF text
  <2>3. MeantParts(list, args, text) \in Seq(Seq(Seq(Tokens)))
    BY <1>2, <2>2, MeantPartsTyped
  <2>4. DOMAIN MeantParts(list, args, text) = DOMAIN args
    BY Zenon DEF MeantParts
  <2>5. QED
    BY <2>3, <2>4 DEF text
<1>7. meant \in Seq(Seq(Tokens))
  <2> HIDE DEF parts
  <2>1. QED
    BY <1>6, FlattenTyped
<1>8. prepared \in Seq(Seq(Tokens)) /\ DOMAIN prepared = DOMAIN args
  <2> HIDE DEF list
  <2>1. QED
    BY <1>2, PreparedAre
<1>9. /\ fin \in Seq(Seq(Tokens)) /\ Len(fin) = Len(prepared)
      /\ \A i \in 1..Len(prepared) : fin[i] = Final(prepared[i])
  <2> HIDE DEF prepared
  <2>1. QED
    BY <1>8, FinalsAre
<1>10. \A i \in DOMAIN args : ReadFor(Final(prepared[i]), W) = parts[i]
  <2> HIDE DEF list
  <2>1. QED
    BY <1>1, <1>2, ReadForIs
<1> HIDE DEF list, prepared, W, fin, files
<1>11. DOMAIN fin = DOMAIN args /\ \A i \in DOMAIN args : fin[i] = Final(prepared[i])
  BY <1>8, <1>9
<1>12. \A i \in DOMAIN args : ReadFor(fin[i], W) = parts[i]
  BY <1>10, <1>11, Zenon
<1>13. reads(fin) = parts
  <2>1. parts = [i \in DOMAIN args |-> parts[i]]
    BY <1>6
  <2> HIDE DEF parts
  <2>2. QED
    BY <1>11, <1>12, <2>1, Zenon
<1>14. CASE ~gated
  <2>1. out = fin
    BY <1>1, <1>4, <1>9, <1>14
  <2>2. meant \o <<>> = meant
    <3> HIDE DEF meant
    <3>1. QED
      BY <1>7
  <2>3. ReadOf(out, W) = meant
    BY <1>5, <1>13, <2>1, Zenon
  <2> HIDE DEF meant, gated, out
  <2>4. QED
    BY <1>1, <1>7, <1>14, <2>2, <2>3, Zenon DEF list, meant, gated, out, parts
<1>15. CASE gated
  <2>1. g \in Seq(Tokens) /\ ~IsParamFile(g)
    BY TokensAre, NotParam
  <2>2. ReadFor(g, W) = <<g>>
    BY <2>1, Zenon DEF ReadFor
  <2> HIDE DEF g
  <2>3. out = Append(fin, g)
    <3>1. out = fin \o <<g>>
      BY <1>1, <1>4, <1>15, Zenon
    <3>2. fin \o <<g>> = Append(fin, g)
      BY <1>9, <2>1
    <3>3. QED
      BY <3>1, <3>2, Zenon
  <2>4. reads(Append(fin, g)) = Append(reads(fin), <<g>>)
    <3> DEFINE one == <<g>>
               q == Append(fin, g)
               r == reads(fin)
               N == Len(fin)
    <3>1. /\ N \in Nat /\ DOMAIN q = 1..(N + 1) /\ \A i \in 1..N : q[i] = fin[i]
          /\ q[N + 1] = g /\ DOMAIN fin = 1..N
      BY <1>9, <2>1
    <3>2. r \in Seq(Seq(Seq(Tokens))) /\ Len(r) = N /\ one \in Seq(Seq(Tokens))
      <4>1. r = parts /\ parts \in Seq(Seq(Seq(Tokens))) /\ DOMAIN parts = DOMAIN fin
        BY <1>6, <1>11, <1>13, Zenon
      <4> HIDE DEF r, parts
      <4>2. Len(r) = N
        BY <1>9, <4>1
      <4>3. QED
        BY <2>1, <4>1, <4>2
    <3>3. \A i \in 1..N : r[i] = ReadFor(fin[i], W)
      BY <3>1, Zenon
    <3>4. \A i \in 1..(N + 1) : reads(q)[i] = ReadFor(q[i], W)
      BY <3>1, Zenon
    <3>5. DOMAIN reads(q) = 1..(N + 1)
      BY <3>1, Zenon
    <3> DEFINE rq == reads(q)
    <3>6. rq = [i \in 1..(N + 1) |-> rq[i]] /\ DOMAIN rq = 1..(N + 1) /\ \A i \in 1..(N + 1) : rq[i] = ReadFor(q[i], W)
      BY <3>1, <3>4, <3>5
    <3> HIDE DEF r, q, one, N, rq
    <3>7. \A i \in 1..(N + 1) : rq[i] = Append(r, one)[i]
      <4> TAKE i \in 1..(N + 1)
      <4>1. CASE i \in 1..N
        <5>1. rq[i] = ReadFor(fin[i], W)
          BY <3>1, <3>6, <4>1, Zenon
        <5>2. Append(r, one)[i] = r[i]
          BY <3>2, <4>1
        <5>3. QED
          BY <3>3, <4>1, <5>1, <5>2, Zenon
      <4>2. CASE i = N + 1
        <5>1. rq[i] = one
          BY <2>2, <3>1, <3>6, <4>2, Zenon DEF one
        <5>2. Append(r, one)[N + 1] = one
          BY <3>1, <3>2
        <5>3. QED
          BY <4>2, <5>1, <5>2, Zenon
      <4>3. N \in Nat
        BY <3>1
      <4>4. i \in 1..N \/ i = N + 1
        BY <4>3
      <4>5. QED
        BY <4>1, <4>2, <4>4, Zenon
    <3>8. Append(r, one) = [i \in 1..(N + 1) |-> Append(r, one)[i]]
      BY <3>2, AppendIs, Zenon
    <3>9. rq = Append(r, one)
      BY <3>6, <3>7, <3>8, Zenon
    <3>10. QED
      BY <3>9 DEF rq, r, q, one
  <2>5. FlattenSeq(Append(parts, <<g>>)) = meant \o <<g>>
    <3> DEFINE one == <<g>>
    <3>1. one \in Seq(Seq(Tokens))
      BY <2>1
    <3> HIDE DEF one, parts
    <3>2. FlattenSeq(Append(parts, one)) = FlattenSeq(parts) \o one
      BY <1>6, <3>1, FlattenAppend
    <3>3. QED
      BY <3>2 DEF one
  <2>6. ReadOf(out, W) = meant \o <<g>>
    BY <1>5, <1>13, <2>3, <2>4, <2>5, Zenon
  <2> HIDE DEF meant, gated, out
  <2>7. QED
    BY <1>1, <1>7, <1>15, <2>6, Zenon DEF list, meant, gated, out, parts, g
<1>16. QED
  BY <1>14, <1>15

(***************************************************************************)
(* The command line.                                                       *)
(***************************************************************************)
Plain == {v \in Seq(Tokens) : ~IsFlag(v)}
OptionSet == [flag : STRING \ {"--"}, values : Seq(Plain)]
FlagWord(name) == << <<"flag", name>> >>

Laid == [o \in OptionSet |-> <<FlagWord(o.flag)>> \o o.values]
Asks(flag) == [o \in OptionSet |-> IF o.flag = flag THEN o.values ELSE <<>>]
End(l) == IF l.ends THEN <<FlagWord("--")>> \o l.child ELSE <<>>

\* After the first k options.
ArgvFrom(l, k) == Expand(Laid, SubSeq(l.options, k + 1, Len(l.options))) \o End(l)
AskedTo(l, k, flag) == Expand(Asks(flag), SubSeq(l.options, 1, k))
NamedTo(l, k) == [f \in {l.options[i].flag : i \in 1..k} |-> AskedTo(l, k, f)]
WellTo(l, k) ==
  \A i \in 1..k :
    /\ l.options[i].flag \in Known
    /\ l.options[i].values # <<>>
    /\ l.options[i].flag \in Single =>
         /\ Len(l.options[i].values) = 1
         /\ \A j \in 1..k : l.options[j].flag = l.options[i].flag => i = j

\* A flag is a flag.
LEMMA FlagWordIs ==
  ASSUME NEW x, <<"flag", x>> \in Tokens
  PROVE  FlagWord(x) \in Seq(Tokens) /\ IsFlag(FlagWord(x))
<1> DEFINE t == <<"flag", x>>
<1>1. t \in Tokens /\ t[1] = "flag"
  OBVIOUS
<1> HIDE DEF t
<1>2. <<t>> \in Seq(Tokens) /\ <<t>> # <<>> /\ Head(<<t>>) = t
  BY <1>1
<1>3. QED
  BY <1>1, <1>2, Zenon DEF FlagWord, IsFlag, t

\* The words of an option.
LEMMA LaidMaps == Maps(Laid, OptionSet, Seq(Tokens))
<1>1. ASSUME NEW o \in OptionSet PROVE <<FlagWord(o.flag)>> \o o.values \in Seq(Seq(Tokens))
  <2> DEFINE w == FlagWord(o.flag)
             v == o.values
  <2>1. <<"flag", o.flag>> \in Tokens
    BY DEF OptionSet, Tokens
  <2>2. w \in Seq(Tokens)
    BY <2>1, FlagWordIs
  <2>3. v \in Seq(Seq(Tokens))
    BY DEF OptionSet, Plain
  <2> HIDE DEF w, v
  <2>4. <<w>> \o v \in Seq(Seq(Tokens))
    BY <2>2, <2>3
  <2>5. QED
    BY <2>4 DEF w, v
<1>2. QED
  BY <1>1, Zenon DEF Maps, Laid

\* What an option gives a flag.
LEMMA AsksMaps ==
  ASSUME NEW flag
  PROVE  Maps(Asks(flag), OptionSet, Plain)
<1>1. \A o \in OptionSet : o.values \in Seq(Plain) /\ <<>> \in Seq(Plain)
  BY DEF OptionSet
<1>2. \A o \in OptionSet : (IF o.flag = flag THEN o.values ELSE <<>>) \in Seq(Plain)
  BY <1>1, Zenon
<1>3. QED
  BY <1>2, Zenon DEF Maps, Asks

\* A launch's parts.
LEMMA LaunchTyped ==
  ASSUME NEW l, LaunchOK(l)
  PROVE  /\ l.options \in Seq(OptionSet) /\ Len(l.options) \in Nat
         /\ l.child \in Seq(Seq(Tokens)) /\ (~l.ends => l.child = <<>>)
         /\ End(l) \in Seq(Seq(Tokens))
         /\ End(l) = <<>> \/ (Head(End(l)) = FlagWord("--") /\ Tail(End(l)) = l.child)
         /\ End(l) = <<>> => l.child = <<>>
         /\ End(l) = <<>> \/ IsFlag(End(l)[1])
<1>1. l.options \in Seq(OptionSet)
  BY Zenon DEF LaunchOK, OptionSet, Plain
<1>2. l.child \in Seq(Seq(Tokens)) /\ (~l.ends => l.child = <<>>)
  BY DEF LaunchOK
<1> DEFINE w == FlagWord("--")
           c == l.child
           e == <<w>> \o c
<1>3. w \in Seq(Tokens) /\ IsFlag(w)
  BY TokensAre, FlagWordIs
<1>4. e \in Seq(Seq(Tokens)) /\ e # <<>> /\ Head(e) = w /\ Tail(e) = c /\ e[1] = w
  <2> HIDE DEF w, c
  <2>1. w \in Seq(Tokens) /\ c \in Seq(Seq(Tokens))
    BY <1>2, <1>3 DEF c
  <2>2. QED
    BY <2>1
<1>5. <<>> \in Seq(Seq(Tokens))
  OBVIOUS
<1>6. End(l) = IF l.ends THEN e ELSE <<>>
  BY Zenon DEF End
<1> HIDE DEF e, w
<1>7. CASE l.ends
  BY <1>1, <1>2, <1>3, <1>4, <1>6, <1>7 DEF w
<1>8. CASE ~l.ends
  BY <1>1, <1>2, <1>5, <1>6, <1>8
<1>9. QED
  BY <1>7, <1>8

\* At first all of the command line is left.
LEMMA ArgvAtFirst ==
  ASSUME NEW l, LaunchOK(l)
  PROVE  Argv(l) = ArgvFrom(l, 0) /\ NamedTo(l, 0) = NoFlags /\ WellTo(l, 0)
<1> DEFINE s == l.options
<1>1. s \in Seq(OptionSet)
  BY LaunchTyped
<1>2. \A i \in DOMAIN s : s[i] \in OptionSet
  BY <1>1
<1>3. SubSeq(s, 0 + 1, Len(s)) = s
  <2> HIDE DEF s
  <2>1. QED
    BY <1>1
<1>4. [i \in DOMAIN s |-> << << <<"flag", s[i].flag>> >> >> \o s[i].values] = [i \in DOMAIN s |-> Laid[s[i]]]
  BY <1>2, Zenon DEF Laid, FlagWord
<1>5. Argv(l) = FlattenSeq([i \in DOMAIN s |-> << << <<"flag", s[i].flag>> >> >> \o s[i].values]) \o End(l)
  BY Zenon DEF Argv, End, FlagWord
<1>6. Argv(l) = ArgvFrom(l, 0)
  BY <1>3, <1>4, <1>5, Zenon DEF ArgvFrom, Expand
<1>7. 1..0 = {}
  OBVIOUS
<1>8. {s[i].flag : i \in 1..0} = {}
  BY <1>7, Zenon
<1>9. NamedTo(l, 0) = NoFlags
  BY <1>8 DEF NamedTo, NoFlags
<1>10. QED
  BY <1>6, <1>7, <1>9, Zenon DEF WellTo

\* At last all options are read.
LEMMA AskedAtLast ==
  ASSUME NEW l, LaunchOK(l), NEW N, N = Len(l.options)
  PROVE  /\ ArgvFrom(l, N) = End(l)
         /\ \A f : AskedTo(l, N, f) = Asked(l, f)
         /\ NamedTo(l, N) = Named(l)
         /\ WellTo(l, N) = WellFormed(l)
<1> DEFINE s == l.options
<1>1. s \in Seq(OptionSet) /\ End(l) \in Seq(Seq(Tokens))
  BY LaunchTyped
<1>2. DOMAIN s = 1..N /\ N = Len(s) /\ \A i \in DOMAIN s : s[i] \in OptionSet
  BY <1>1
<1>3. SubSeq(s, 1, N) = s /\ SubSeq(s, N + 1, N) = <<>>
  <2> HIDE DEF s
  <2>1. QED
    BY <1>1, <1>2
<1>4. ArgvFrom(l, N) = End(l)
  <2>1. ArgvFrom(l, N) = Expand(Laid, <<>>) \o End(l)
    BY <1>2, <1>3, Zenon DEF ArgvFrom
  <2>2. Expand(Laid, <<>>) = <<>>
    BY ExpandNone
  <2> DEFINE e == End(l)
  <2>3. <<>> \o e = e
    <3> HIDE DEF e
    <3>1. e \in Seq(Seq(Tokens))
      BY <1>1 DEF e
    <3>2. QED
      BY <3>1
  <2>4. QED
    BY <2>1, <2>2, <2>3, Zenon
<1>5. \A f : AskedTo(l, N, f) = Asked(l, f)
  <2> TAKE f
  <2>1. [i \in DOMAIN s |-> IF s[i].flag = f THEN s[i].values ELSE <<>>] = [i \in DOMAIN s |-> Asks(f)[s[i]]]
    BY <1>2, Zenon DEF Asks
  <2>2. QED
    BY <1>3, <2>1, Zenon DEF AskedTo, Asked, Expand
<1>6. NamedTo(l, N) = Named(l)
  <2>1. {s[i].flag : i \in 1..N} = {s[i].flag : i \in DOMAIN s}
    BY <1>2, Zenon
  <2>2. QED
    BY <1>5, <2>1, Zenon DEF NamedTo, Named
<1>7. WellTo(l, N) = WellFormed(l)
  BY <1>2, Zenon DEF WellTo, WellFormed
<1>8. QED
  BY <1>4, <1>5, <1>6, <1>7

\* A sequence at an element.
LEMMA OptionsSplit ==
  ASSUME NEW S, NEW s \in Seq(S), NEW k \in Nat, k < Len(s)
  PROVE  /\ s[k + 1] \in S /\ SubSeq(s, 1, k) \in Seq(S) /\ SubSeq(s, k + 2, Len(s)) \in Seq(S)
         /\ SubSeq(s, 1, k + 1) = Append(SubSeq(s, 1, k), s[k + 1])
         /\ SubSeq(s, k + 1, Len(s)) = <<s[k + 1]>> \o SubSeq(s, k + 2, Len(s))
OBVIOUS

\* What is left begins with the next option.
LEMMA ArgvStep ==
  ASSUME NEW l, LaunchOK(l), NEW k \in Nat, k < Len(l.options)
  PROVE  ArgvFrom(l, k) = (<<FlagWord(l.options[k + 1].flag)>> \o l.options[k + 1].values) \o ArgvFrom(l, k + 1)
<1> DEFINE s == l.options
           N == Len(s)
           o == s[k + 1]
           a == Expand(Laid, SubSeq(s, k + 2, N))
           e == End(l)
           one == <<o>>
           rest == SubSeq(s, k + 2, N)
<1>1. s \in Seq(OptionSet) /\ e \in Seq(Seq(Tokens)) /\ N \in Nat
  BY LaunchTyped
<1>2. o \in OptionSet /\ rest \in Seq(OptionSet) /\ SubSeq(s, k + 1, N) = one \o rest
  <2> HIDE DEF s
  <2>1. QED
    BY <1>1, OptionsSplit DEF s
<1>3. k + 1 + 1 = k + 2
  OBVIOUS
<1>4. ArgvFrom(l, k + 1) = a \o e
  BY <1>3, Zenon DEF ArgvFrom
<1>5. ArgvFrom(l, k) = Expand(Laid, one \o rest) \o e
  BY <1>2, Zenon DEF ArgvFrom
<1> HIDE DEF o, rest
<1>6. one \in Seq(OptionSet) /\ Expand(Laid, one) = Laid[o]
  BY <1>2, LaidMaps, ExpandOne
<1> HIDE DEF one
<1>7. Expand(Laid, one \o rest) = Expand(Laid, one) \o Expand(Laid, rest)
  <2> DEFINE B == Seq(Tokens)
             g == Laid
  <2>1. Maps(g, OptionSet, B)
    BY LaidMaps
  <2> HIDE DEF B, g
  <2>2. one \in Seq(OptionSet) /\ rest \in Seq(OptionSet)
    BY <1>2, <1>6
  <2>3. Expand(g, one \o rest) = Expand(g, one) \o Expand(g, rest)
    BY <2>1, <2>2, ExpandConcat
  <2>4. QED
    BY <2>3 DEF g
<1>8. Laid[o] = <<FlagWord(o.flag)>> \o o.values /\ Laid[o] \in Seq(Seq(Tokens))
  BY <1>2, LaidMaps DEF Laid, Maps
<1>9. a \in Seq(Seq(Tokens)) /\ a = Expand(Laid, rest)
  BY <1>2, LaidMaps, ExpandTyped DEF rest
<1> HIDE DEF a, e
<1> DEFINE p == Laid[o]
<1>10. p \in Seq(Seq(Tokens))
  BY <1>8
<1> HIDE DEF p
<1>11. (p \o a) \o e = p \o (a \o e)
  BY <1>1, <1>9, <1>10
<1>12. ArgvFrom(l, k) = p \o ArgvFrom(l, k + 1)
  BY <1>4, <1>5, <1>6, <1>7, <1>9, <1>11, Zenon DEF p
<1>13. QED
  BY <1>8, <1>12, Zenon DEF p, o

\* What is left is nothing or begins with a flag.
LEMMA ArgvTyped ==
  ASSUME NEW l, LaunchOK(l), NEW k \in 0..Len(l.options)
  PROVE  /\ ArgvFrom(l, k) \in Seq(Seq(Tokens))
         /\ ArgvFrom(l, k) = <<>> \/ IsFlag(ArgvFrom(l, k)[1])
<1> DEFINE s == l.options
           N == Len(s)
<1>0. s \in Seq(OptionSet) /\ End(l) \in Seq(Seq(Tokens)) /\ N \in Nat
  BY LaunchTyped
<1>1. \A j \in 0..N : ArgvFrom(l, j) \in Seq(Seq(Tokens))
  <2> TAKE j \in 0..N
  <2> DEFINE r == SubSeq(s, j + 1, N)
             e == End(l)
  <2>1. r \in Seq(OptionSet)
    <3> HIDE DEF s
    <3>1. QED
      BY <1>0
  <2>2. e \in Seq(Seq(Tokens))
    BY <1>0
  <2> HIDE DEF r, e
  <2>3. Expand(Laid, r) \in Seq(Seq(Tokens))
    BY <2>1, LaidMaps, ExpandTyped
  <2>4. Expand(Laid, r) \o e \in Seq(Seq(Tokens))
    BY <2>2, <2>3
  <2>5. QED
    BY <2>4 DEF ArgvFrom, r, e
<1>2. CASE k = N
  <2>1. ArgvFrom(l, k) = End(l)
    BY <1>2, AskedAtLast
  <2>2. End(l) = <<>> \/ IsFlag(End(l)[1])
    BY LaunchTyped
  <2>3. QED
    BY <1>1, <2>1, <2>2, Zenon
<1>3. CASE k # N
  <2>1. k \in Nat /\ k < N /\ k + 1 \in 0..N
    BY <1>0, <1>3
  <2> DEFINE o == s[k + 1]
             w == FlagWord(o.flag)
             v == o.values
             r == ArgvFrom(l, k + 1)
  <2>2. ArgvFrom(l, k) = (<<w>> \o v) \o r
    BY <2>1, ArgvStep
  <2>3. r \in Seq(Seq(Tokens))
    BY <1>1, <2>1
  <2>4. o \in OptionSet
    BY <1>0, <2>1
  <2>5. v \in Seq(Seq(Tokens)) /\ <<"flag", o.flag>> \in Tokens
    <3> HIDE DEF o
    <3>1. QED
      BY <2>4 DEF OptionSet, Plain, Tokens
  <2>6. w \in Seq(Tokens) /\ IsFlag(w)
    BY <2>5, FlagWordIs
  <2> HIDE DEF r, v, w
  <2>7. ((<<w>> \o v) \o r)[1] = w
    BY <2>3, <2>5, <2>6
  <2>8. IsFlag(ArgvFrom(l, k)[1])
    BY <2>2, <2>6, <2>7, Zenon
  <2>9. ArgvFrom(l, k) \in Seq(Seq(Tokens))
    BY <1>1
  <2>10. QED
    BY <2>8, <2>9
<1>4. QED
  BY <1>2, <1>3

\* consume_args stops at the next flag.
LEMMA ConsumeIs ==
  ASSUME NEW v \in Seq(Plain), NEW r \in Seq(Seq(Tokens)), r = <<>> \/ IsFlag(r[1])
  PROVE  ConsumeArgs(v \o r) = v
<1> DEFINE a == v \o r
           S == {i \in DOMAIN a : IsFlag(a[i])}
           N == Len(v)
<1>1. v \in Seq(Seq(Tokens)) /\ \A i \in 1..N : ~IsFlag(v[i])
  BY DEF Plain
<1>2. /\ a \in Seq(Seq(Tokens)) /\ N \in Nat /\ Len(a) = N + Len(r)
      /\ \A i \in 1..N : a[i] = v[i]
  BY <1>1
<1>3. CASE r = <<>>
  <2>1. a = v /\ DOMAIN v = 1..N
    BY <1>1, <1>3
  <2>2. S = {}
    BY <1>1, <2>1
  <2>3. QED
    BY <2>1, <2>2, Zenon DEF ConsumeArgs
<1>4. CASE r # <<>>
  <2>1. Len(r) > 0 /\ a[N + 1] = r[1] /\ N + 1 \in DOMAIN a
    BY <1>1, <1>4
  <2>2. N + 1 \in S
    BY <1>4, <2>1
  <2>3. \A i \in 1..N : i \notin S
    BY <1>1, <1>2
  <2>4. S \subseteq Nat /\ S # {}
    BY <1>2, <2>2
  <2>5. ConsumeArgs(a) = SubSeq(a, 1, Min(S) - 1)
    BY <2>2, Zenon DEF ConsumeArgs
  <2> DEFINE m == Min(S)
  <2>6. m \in S /\ \A i \in S : m <= i
    <3> HIDE DEF S
    <3>1. QED
      BY <2>4, MinIs
  <2>7. m \in DOMAIN a /\ m <= N + 1 /\ m \notin 1..N
    BY <2>2, <2>3, <2>6
  <2> HIDE DEF m, S
  <2>8. m - 1 = N
    BY <1>2, <2>7
  <2>9. SubSeq(a, 1, N) = v
    BY <1>1, <1>2
  <2>10. QED
    BY <2>5, <2>8, <2>9, Zenon DEF m
<1>5. QED
  BY <1>3, <1>4

\* The flag parse() is at, and its values.
LEMMA ValuesAre ==
  ASSUME NEW l, LaunchOK(l), NEW k \in Nat, k < Len(l.options), argv = ArgvFrom(l, k)
  PROVE  /\ argv # <<>> /\ Head(argv) = FlagWord(l.options[k + 1].flag)
         /\ Values = l.options[k + 1].values
         /\ SubSeq(argv, Len(Values) + 2, Len(argv)) = ArgvFrom(l, k + 1)
<1> DEFINE s == l.options
           N == Len(s)
           o == s[k + 1]
           w == FlagWord(o.flag)
           v == o.values
           r == ArgvFrom(l, k + 1)
<1>1. s \in Seq(OptionSet) /\ N \in Nat /\ k + 1 \in 0..N
  BY LaunchTyped
<1>2. argv = (<<w>> \o v) \o r
  BY ArgvStep
<1>3. r \in Seq(Seq(Tokens)) /\ (r = <<>> \/ IsFlag(r[1]))
  <2> DEFINE j == k + 1
  <2>1. j \in 0..N
    BY <1>1
  <2> HIDE DEF j, N
  <2>2. ArgvFrom(l, j) \in Seq(Seq(Tokens)) /\ (ArgvFrom(l, j) = <<>> \/ IsFlag(ArgvFrom(l, j)[1]))
    BY <2>1, ArgvTyped DEF N
  <2>3. QED
    BY <2>2 DEF j
<1>4. o \in OptionSet
  BY <1>1
<1>5. v \in Seq(Plain) /\ v \in Seq(Seq(Tokens)) /\ <<"flag", o.flag>> \in Tokens
  <2> HIDE DEF o
  <2>1. QED
    BY <1>4 DEF OptionSet, Plain, Tokens
<1>6. w \in Seq(Tokens)
  BY <1>5, FlagWordIs
<1> HIDE DEF r, v, w
<1>7. ConsumeArgs(v \o r) = v
  BY <1>3, <1>5, ConsumeIs
<1>8. argv # <<>> /\ Head(argv) = w /\ Tail(argv) = v \o r
  <2> DEFINE A == Seq(Tokens)
             b == v \o r
             one == <<w>>
  <2>1. one \in Seq(A) /\ v \in Seq(A) /\ r \in Seq(A) /\ w \in A
    BY <1>3, <1>5, <1>6
  <2>2. b \in Seq(A)
    <3> HIDE DEF A
    <3>1. QED
      BY <2>1
  <2>3. argv = one \o b
    <3> HIDE DEF A, one
    <3>1. (one \o v) \o r = one \o (v \o r)
      BY <2>1, ConcatConcat
    <3>2. QED
      BY <1>2, <3>1, Zenon DEF one
  <2> HIDE DEF A, b
  <2>4. <<w>> \o b # <<>> /\ Head(<<w>> \o b) = w /\ Tail(<<w>> \o b) = b
    BY <2>1, <2>2
  <2>5. QED
    BY <2>3, <2>4, Zenon DEF b
<1>9. Values = v
  BY <1>7, <1>8, Zenon DEF Values
<1>10. SubSeq(argv, Len(v) + 2, Len(argv)) = r
  BY <1>2, <1>3, <1>5, <1>6
<1>11. QED
  BY <1>8, <1>9, <1>10, Zenon DEF v, w, r

(***************************************************************************)
(* What parse() has found after some options.                              *)
(***************************************************************************)
LEMMA AskedStep ==
  ASSUME NEW l, LaunchOK(l), NEW k \in Nat, k < Len(l.options), NEW f
  PROVE  /\ AskedTo(l, k, f) \in Seq(Plain)
         /\ l.options[k + 1].flag = f => AskedTo(l, k + 1, f) = AskedTo(l, k, f) \o l.options[k + 1].values
         /\ l.options[k + 1].flag # f => AskedTo(l, k + 1, f) = AskedTo(l, k, f)
<1> DEFINE s == l.options
           o == s[k + 1]
           g == Asks(f)
           t == SubSeq(s, 1, k)
           u == SubSeq(s, 1, k + 1)
<1>1. s \in Seq(OptionSet)
  BY LaunchTyped
<1>2. o \in OptionSet /\ t \in Seq(OptionSet) /\ u = Append(t, o)
  <2> HIDE DEF s
  <2>1. QED
    BY <1>1, OptionsSplit DEF s
<1>3. AskedTo(l, k, f) = Expand(g, t) /\ AskedTo(l, k + 1, f) = Expand(g, u)
  BY Zenon DEF AskedTo
<1>4. g[o] = IF o.flag = f THEN o.values ELSE <<>>
  BY <1>2 DEF Asks
<1>5. Maps(g, OptionSet, Plain)
  BY AsksMaps
<1> HIDE DEF o, g, t, u
<1>6. Expand(g, Append(t, o)) = Expand(g, t) \o g[o] /\ Expand(g, t) \in Seq(Plain)
  <2> DEFINE A == OptionSet
             S == Plain
  <2>1. Maps(g, A, S) /\ o \in A /\ t \in Seq(A)
    BY <1>2, <1>5
  <2> HIDE DEF A, S
  <2>2. Expand(g, Append(t, o)) = Expand(g, t) \o g[o] /\ Expand(g, t) \in Seq(S)
    BY <2>1, ExpandIs
  <2>3. QED
    BY <2>2 DEF S
<1> DEFINE e == Expand(g, t)
<1>7. e \o <<>> = e
  <2>1. e \in Seq(Plain)
    BY <1>6
  <2> HIDE DEF e
  <2>2. QED
    BY <2>1
<1>8. QED
  BY <1>2, <1>3, <1>4, <1>6, <1>7, Zenon DEF o, u

\* A flag has values if an option gave it some.
LEMMA AskedHas ==
  ASSUME NEW l, LaunchOK(l), NEW k \in 0..Len(l.options), NEW f
  PROVE  /\ AskedTo(l, k, f) \in Seq(Plain)
         /\ AskedTo(l, k, f) # <<>> <=> \E i \in 1..k : l.options[i].flag = f /\ l.options[i].values # <<>>
<1> DEFINE s == l.options
           g == Asks(f)
           t == SubSeq(s, 1, k)
<1>1. s \in Seq(OptionSet) /\ k \in 0..Len(s)
  BY LaunchTyped
<1>2. t \in Seq(OptionSet) /\ DOMAIN t = 1..k /\ \A i \in 1..k : t[i] = s[i] /\ s[i] \in OptionSet
  <2> HIDE DEF s
  <2>1. QED
    BY <1>1
<1>3. AskedTo(l, k, f) = Expand(g, t)
  BY Zenon DEF AskedTo
<1>4. Maps(g, OptionSet, Plain)
  BY AsksMaps
<1>5. \A o \in OptionSet : g[o] = IF o.flag = f THEN o.values ELSE <<>>
  BY DEF Asks
<1>6. \A o \in OptionSet : o.values \in Seq(Plain)
  BY DEF OptionSet
<1> HIDE DEF g, t
<1>7. Expand(g, t) \in Seq(Plain) /\ ToSet(Expand(g, t)) = UNION {ToSet(g[x]) : x \in ToSet(t)}
  BY <1>2, <1>4, ExpandTyped, ExpandHas
<1>8. ToSet(t) = {s[i] : i \in 1..k}
  BY <1>2, Zenon DEF ToSet
<1>9. \A q \in Seq(Plain) : q # <<>> <=> ToSet(q) # {}
  <2> TAKE q \in Seq(Plain)
  <2>1. q # <<>> => q[1] \in ToSet(q)
    BY DEF ToSet
  <2>2. q = <<>> => ToSet(q) = {}
    BY ToSetOne
  <2>3. QED
    BY <2>1, <2>2
<1> DEFINE G(x) == ToSet(g[x])
<1>10. ToSet(Expand(g, t)) # {} <=> \E i \in 1..k : G(s[i]) # {}
  <2>1. ToSet(Expand(g, t)) = UNION {G(x) : x \in {s[i] : i \in 1..k}}
    BY <1>7, <1>8, Zenon
  <2> HIDE DEF G
  <2>2. UNION {G(x) : x \in {s[i] : i \in 1..k}} # {} <=> \E i \in 1..k : G(s[i]) # {}
    OBVIOUS
  <2>3. QED
    BY <2>1, <2>2, Zenon
<1>11. \A i \in 1..k : ToSet(g[s[i]]) # {} <=> s[i].flag = f /\ s[i].values # <<>>
  BY <1>2, <1>5, <1>6, <1>9, ToSetOne, Zenon
<1>12. QED
  BY <1>3, <1>7, <1>9, <1>10, <1>11, Zenon

\* What parse() holds for a flag is what was asked.
LEMMA GivenTo ==
  ASSUME NEW l, LaunchOK(l), NEW k \in 0..Len(l.options), NEW f
  PROVE  Given(NamedTo(l, k), f) = AskedTo(l, k, f)
<1> DEFINE D == {l.options[i].flag : i \in 1..k}
<1>1. DOMAIN NamedTo(l, k) = D
  BY Zenon DEF NamedTo
<1>2. CASE f \in D
  BY <1>1, <1>2, Zenon DEF Given, NamedTo
<1>3. CASE f \notin D
  <2>1. AskedTo(l, k, f) = <<>>
    BY <1>3, AskedHas
  <2>2. QED
    BY <1>1, <1>3, <2>1, Zenon DEF Given
<1>4. QED
  BY <1>2, <1>3

More(before, name, values) ==
  [f \in DOMAIN before \union {name} |-> IF f = name THEN Given(before, f) \o values ELSE before[f]]

\* What the next option adds to all that is held.
LEMMA NamedStep ==
  ASSUME NEW l, LaunchOK(l), NEW k \in Nat, k < Len(l.options)
  PROVE  NamedTo(l, k + 1) = More(NamedTo(l, k), l.options[k + 1].flag, l.options[k + 1].values)
<1> DEFINE o == l.options[k + 1]
           name == o.flag
           before == NamedTo(l, k)
           D == {l.options[i].flag : i \in 1..k}
           E == {l.options[i].flag : i \in 1..(k + 1)}
           v == o.values
<1>1. 1..(k + 1) = (1..k) \union {k + 1}
  OBVIOUS
<1>2. E = D \union {name}
  BY <1>1, Zenon
<1>3. DOMAIN before = D /\ \A f \in D : before[f] = AskedTo(l, k, f)
  BY Zenon DEF NamedTo
<1>4. k \in 0..Len(l.options)
  <2>1. Len(l.options) \in Nat
    BY LaunchTyped
  <2>2. QED
    BY <2>1
<1>5. Given(before, name) = AskedTo(l, k, name)
  BY <1>4, GivenTo
<1>6. \A f : /\ f = name => AskedTo(l, k + 1, f) = AskedTo(l, k, f) \o v
             /\ f # name => AskedTo(l, k + 1, f) = AskedTo(l, k, f)
  BY AskedStep
<1>7. NamedTo(l, k + 1) = [f \in E |-> AskedTo(l, k + 1, f)]
  BY Zenon DEF NamedTo
<1> HIDE DEF E, D, v, name, before
<1>8. \A f \in E : AskedTo(l, k + 1, f) = IF f = name THEN Given(before, f) \o v ELSE before[f]
  <2> TAKE f \in E
  <2>1. CASE f = name
    BY <1>5, <1>6, <2>1, Zenon
  <2>2. CASE f # name
    <3>1. f \in D
      BY <1>2, <2>2
    <3>2. QED
      BY <1>3, <1>6, <2>2, <3>1, Zenon
  <2>3. QED
    BY <2>1, <2>2
<1>9. NamedTo(l, k + 1) = [f \in DOMAIN before \union {name} |-> IF f = name THEN Given(before, f) \o v ELSE before[f]]
  BY <1>2, <1>3, <1>7, <1>8, Zenon
<1>10. QED
  BY <1>9, Zenon DEF More, v, name, before, o

\* No two flags are written the same.
LEMMA FlagWordOnce ==
  ASSUME NEW x, NEW y, FlagWord(x) = FlagWord(y)
  PROVE  x = y
<1> DEFINE u == <<"flag", x>>
           v == <<"flag", y>>
<1>1. FlagWord(x) = <<u>> /\ FlagWord(y) = <<v>>
  BY Zenon DEF FlagWord
<1> HIDE DEF u, v
<1>2. <<u>>[1] = u /\ <<v>>[1] = v
  OBVIOUS
<1>3. u[2] = x /\ v[2] = y
  BY DEF u, v
<1>4. u = v
  BY <1>1, <1>2, Zenon
<1>5. QED
  BY <1>3, <1>4

\* Which flag parse() is at.
LEMMA AtFlagIs ==
  ASSUME LaunchOK(launch), NEW k \in 0..Len(launch.options), argv = ArgvFrom(launch, k)
  PROVE  /\ k < Len(launch.options) =>
              /\ launch.options[k + 1].flag # "--"
              /\ \A name : AtFlag(name) <=> name = launch.options[k + 1].flag
         /\ k = Len(launch.options) => \A name : AtFlag(name) => name = "--"
<1> DEFINE N == Len(launch.options)
           x == launch.options[k + 1].flag
<1>0. launch.options \in Seq(OptionSet) /\ N \in Nat /\ k \in 0..N
  BY LaunchTyped
<1>1. \A name : AtFlag(name) <=> argv # <<>> /\ Head(argv) = FlagWord(name)
  BY Zenon DEF AtFlag, FlagWord
<1>2. CASE k < N
  <2>1. argv # <<>> /\ Head(argv) = FlagWord(x)
    <3>1. k \in Nat
      BY <1>0
    <3>2. QED
      BY <1>2, <3>1, ValuesAre
  <2>2. launch.options[k + 1] \in OptionSet
    BY <1>0, <1>2
  <2>3. x # "--"
    <3> DEFINE o == launch.options[k + 1]
    <3>1. o \in OptionSet
      BY <2>2
    <3> HIDE DEF o
    <3>2. o.flag \in STRING \ {"--"}
      BY <3>1 DEF OptionSet
    <3>3. QED
      BY <3>2, Zenon DEF o
  <2>4. \A name : FlagWord(x) = FlagWord(name) => name = x
    BY FlagWordOnce, Zenon
  <2> HIDE DEF x
  <2>5. \A name : AtFlag(name) <=> name = x
    BY <1>1, <2>1, <2>4, Zenon
  <2>6. QED
    BY <1>2, <2>3, <2>5 DEF x
<1>3. CASE k = N
  <2>1. argv = End(launch)
    BY <1>3, AskedAtLast
  <2>2. argv # <<>> => Head(argv) = FlagWord("--")
    BY <2>1, LaunchTyped
  <2>3. \A name : AtFlag(name) => FlagWord("--") = FlagWord(name)
    BY <1>1, <2>2, Zenon
  <2>4. QED
    BY <1>3, <2>3, FlagWordOnce
<1>4. QED
  BY <1>0, <1>2, <1>3

\* When the next option is well formed.
LEMMA WellStep ==
  ASSUME NEW l, LaunchOK(l), NEW k \in Nat, k < Len(l.options), WellTo(l, k)
  PROVE  LET o == l.options[k + 1]
         IN  WellTo(l, k + 1) <=>
               /\ o.flag \in Known /\ o.values # <<>>
               /\ o.flag \in Single => Len(o.values) = 1 /\ o.flag \notin DOMAIN NamedTo(l, k)
<1> DEFINE s == l.options
           o == s[k + 1]
           K == 1..k
           n == k + 1
           Fine(i) == s[i].flag \in Known /\ s[i].values # <<>> /\ (s[i].flag \in Single => Len(s[i].values) = 1)
           Once(i, S) == s[i].flag \in Single => \A j \in S : s[j].flag = s[i].flag => i = j
<1>1. 1..n = K \union {n} /\ n \notin K
  OBVIOUS
<1>2. WellTo(l, k) = (\A i \in K : Fine(i) /\ Once(i, K))
  BY Zenon DEF WellTo
<1>3. WellTo(l, n) = (\A i \in 1..n : Fine(i) /\ Once(i, 1..n))
  BY Zenon DEF WellTo
<1>4. o.flag \in DOMAIN NamedTo(l, k) <=> \E i \in K : s[i].flag = s[n].flag
  BY Zenon DEF NamedTo
<1> HIDE DEF K, n
<1>5. WellTo(l, n) <=> Fine(n) /\ (s[n].flag \in Single => ~\E i \in K : s[i].flag = s[n].flag)
  <2>1. ASSUME WellTo(l, n) PROVE Fine(n) /\ (s[n].flag \in Single => ~\E i \in K : s[i].flag = s[n].flag)
    BY <1>1, <1>3, <2>1, Zenon
  <2>2. ASSUME Fine(n), s[n].flag \in Single => ~\E i \in K : s[i].flag = s[n].flag
        PROVE  \A i \in 1..n : Fine(i) /\ Once(i, 1..n)
    <3>1. \A i \in 1..n : Fine(i)
      BY <1>1, <1>2, <2>2, Zenon
    <3>2. ASSUME NEW i \in 1..n, NEW j \in 1..n, s[i].flag \in Single, s[j].flag = s[i].flag PROVE i = j
      BY <1>1, <1>2, <2>2, <3>2, Zenon
    <3>3. QED
      BY <3>1, <3>2, Zenon
  <2>3. QED
    BY <1>3, <2>1, <2>2, Zenon
<1>6. QED
  BY <1>4, <1>5, Zenon DEF n

\* Where parse() is on the command line.
AtOption(k) ==
  /\ k \in 0..Len(launch.options)
  /\ argv = ArgvFrom(launch, k)
  /\ flags = NamedTo(launch, k)
  /\ WellTo(launch, k)

\* parse() takes the next option if it is well formed, refuses it if not, and stops at the end.
LEMMA TakesIs ==
  ASSUME LaunchOK(launch), NEW k, AtOption(k)
  PROVE  /\ \A name \in Known : Takes(name) =>
              /\ k < Len(launch.options) /\ name = launch.options[k + 1].flag
              /\ Values = launch.options[k + 1].values
              /\ SubSeq(argv, Len(Values) + 2, Len(argv)) = ArgvFrom(launch, k + 1)
              /\ [f \in DOMAIN flags \union {name} |-> IF f = name THEN Given(flags, f) \o Values ELSE flags[f]]
                   = NamedTo(launch, k + 1)
              /\ WellTo(launch, k + 1)
         /\ argv # <<>> /\ ~AtFlag("--") /\ (\A name \in Known : ~Takes(name)) => ~WellFormed(launch)
         /\ argv = <<>> \/ AtFlag("--") =>
              /\ k = Len(launch.options)
              /\ (IF argv = <<>> THEN <<>> ELSE Tail(argv)) = launch.child
<1> DEFINE N == Len(launch.options)
           o == launch.options[k + 1]
           x == o.flag
<1>1. k \in 0..N /\ N \in Nat /\ k \in Nat /\ (k < N \/ k = N)
  BY LaunchTyped DEF AtOption
<1>2. argv = ArgvFrom(launch, k) /\ flags = NamedTo(launch, k) /\ WellTo(launch, k)
  BY DEF AtOption
<1>3. "--" \notin Known
  BY DEF Known, Single, Repeated
<1>4. CASE k < N
  <2>1. /\ argv # <<>> /\ Values = o.values
        /\ SubSeq(argv, Len(Values) + 2, Len(argv)) = ArgvFrom(launch, k + 1)
    BY <1>1, <1>2, <1>4, ValuesAre
  <2>2. x # "--" /\ \A name : AtFlag(name) <=> name = x
    BY <1>1, <1>2, <1>4, AtFlagIs
  <2>3. WellTo(launch, k + 1) <=>
          /\ x \in Known /\ o.values # <<>>
          /\ x \in Single => Len(o.values) = 1 /\ x \notin DOMAIN flags
    BY <1>1, <1>2, <1>4, WellStep
  <2>4. NamedTo(launch, k + 1) =
          [f \in DOMAIN flags \union {x} |-> IF f = x THEN Given(flags, f) \o o.values ELSE flags[f]]
    <3>1. NamedTo(launch, k + 1) = More(NamedTo(launch, k), x, o.values)
      BY <1>1, <1>4, NamedStep
    <3>2. QED
      BY <1>2, <3>1, Zenon DEF More
  <2>5. WellFormed(launch) => WellTo(launch, k + 1)
    <3>1. \A i \in 1..(k + 1) : i \in DOMAIN launch.options
      <4>1. DOMAIN launch.options = 1..N
        BY LaunchTyped
      <4>2. QED
        BY <1>1, <1>4, <4>1
    <3>2. QED
      BY <3>1, Zenon DEF WellFormed, WellTo
  <2> HIDE DEF x, o
  <2>6. \A name : Takes(name) <=> name = x /\ o.values # <<>> /\ (name \in Single => Len(o.values) = 1 /\ name \notin DOMAIN flags)
    BY <2>1, <2>2, Zenon DEF Takes
  <2>7. ASSUME NEW name \in Known, Takes(name)
        PROVE  /\ name = x
               /\ [f \in DOMAIN flags \union {name} |-> IF f = name THEN Given(flags, f) \o Values ELSE flags[f]]
                    = NamedTo(launch, k + 1)
               /\ WellTo(launch, k + 1)
    <3>1. name = x
      BY <2>6, <2>7, Zenon
    <3>2. WellTo(launch, k + 1)
      BY <2>3, <2>6, <2>7, <3>1, Zenon
    <3>3. QED
      BY <2>1, <2>4, <3>1, <3>2, Zenon
  <2>8. (\A name \in Known : ~Takes(name)) => ~WellFormed(launch)
    BY <2>3, <2>5, <2>6, Zenon
  <2>9. ~(argv = <<>> \/ AtFlag("--"))
    BY <2>1, <2>2, Zenon
  <2>10. QED
    BY <1>4, <2>1, <2>7, <2>8, <2>9, Zenon DEF x, o
<1>5. CASE k = N
  <2>1. \A name : AtFlag(name) => name = "--"
    BY <1>1, <1>2, <1>5, AtFlagIs
  <2>2. \A name \in Known : ~Takes(name)
    BY <1>3, <2>1, Zenon DEF Takes
  <2>3. argv = End(launch)
    BY <1>2, <1>5, AskedAtLast
  <2>4. /\ argv = <<>> \/ (Head(argv) = FlagWord("--") /\ Tail(argv) = launch.child)
        /\ argv = <<>> => launch.child = <<>>
    BY <2>3, LaunchTyped
  <2>5. argv = <<>> \/ AtFlag("--")
    BY <2>4, Zenon DEF AtFlag, FlagWord
  <2>6. QED
    BY <1>5, <2>2, <2>4, <2>5, Zenon
<1>6. QED
  BY <1>1, <1>4, <1>5, Zenon

(***************************************************************************)
(* The inductive invariant: while it parses, the wrapper has found what    *)
(* the options up to some place ask for, and what is left is the rest of   *)
(* the command line.                                                       *)
(***************************************************************************)
Phases == phase \in {"flags", "options", "prepared", "running", "refused"}
Prepares == phase \in {"flags", "options", "prepared"}
Asking == launch \in UNION Launches /\ opts = Options_(launch)
Found == WellFormed(launch) /\ flags = Named(launch) /\ childArgs = launch.child
Refusable(l) == Unusable(Named(l), l.child) \/ Command(Named(l), l.child).written # {}

LaunchInv ==
  /\ Phases
  /\ Prepares => Asking
  /\ phase = "flags" => \E k \in 0..Len(launch.options) : AtOption(k)
  /\ phase \in {"options", "prepared"} => Found
  /\ phase = "prepared" => ~Unusable(flags, childArgs) /\ command = Command(flags, childArgs)
  /\ phase = "refused" /\ WellFormed(launch) => Refusable(launch)

\* Every launch is as assumed.
LEMMA LaunchIsOK ==
  ASSUME NEW l, l \in UNION Launches
  PROVE  LaunchOK(l)
BY LaunchAssumption, Zenon

\* The invariant holds of every run.
LEMMA LaunchInvHolds == LaunchSpec => []LaunchInv
<1>1. LaunchInit => LaunchInv
  <2> SUFFICES ASSUME LaunchInit PROVE LaunchInv
    OBVIOUS
  <2>1. /\ phase = "flags" /\ argv = Argv(launch) /\ flags = NoFlags
        /\ launch \in UNION Launches /\ opts = Options_(launch)
    BY DEF LaunchInit
  <2>2. LaunchOK(launch)
    BY <2>1, LaunchIsOK
  <2>3. Argv(launch) = ArgvFrom(launch, 0) /\ NamedTo(launch, 0) = NoFlags /\ WellTo(launch, 0)
    BY <2>2, ArgvAtFirst
  <2>4. 0 \in 0..Len(launch.options)
    <3>1. Len(launch.options) \in Nat
      BY <2>2, LaunchTyped
    <3>2. QED
      BY <3>1
  <2>5. AtOption(0)
    BY <2>1, <2>3, <2>4, Zenon DEF AtOption
  <2>6. QED
    BY <2>1, <2>4, <2>5, Zenon DEF LaunchInv, Phases, Asking
<1>2. LaunchInv /\ [LaunchNext]_allVars => LaunchInv'
  <2> SUFFICES ASSUME LaunchInv, [LaunchNext]_allVars PROVE LaunchInv'
    OBVIOUS
  <2>1. opts' = opts
    BY StepImplements, OptsFixed
  <2>2. CASE ParseFlag
    <3>1. phase = "flags" /\ phase' = "flags" /\ launch' = launch
      BY <2>2 DEF ParseFlag
    <3>2. PICK name \in Known :
            /\ Takes(name)
            /\ flags' = [f \in DOMAIN flags \union {name} |-> IF f = name THEN Given(flags, f) \o Values ELSE flags[f]]
            /\ argv' = SubSeq(argv, Len(Values) + 2, Len(argv))
      BY <2>2, Zenon DEF ParseFlag, Known
    <3>3. Asking /\ LaunchOK(launch)
      BY <3>1, LaunchIsOK DEF LaunchInv, Prepares, Asking
    <3>4. PICK k \in 0..Len(launch.options) : AtOption(k)
      BY <3>1 DEF LaunchInv
    <3>5. /\ k < Len(launch.options)
          /\ argv' = ArgvFrom(launch, k + 1) /\ flags' = NamedTo(launch, k + 1) /\ WellTo(launch, k + 1)
      <4>1. /\ k < Len(launch.options) /\ WellTo(launch, k + 1)
            /\ SubSeq(argv, Len(Values) + 2, Len(argv)) = ArgvFrom(launch, k + 1)
            /\ [f \in DOMAIN flags \union {name} |-> IF f = name THEN Given(flags, f) \o Values ELSE flags[f]]
                 = NamedTo(launch, k + 1)
        BY <3>2, <3>3, <3>4, TakesIs, Zenon
      <4>2. QED
        BY <3>2, <4>1, Zenon
    <3>6. k + 1 \in 0..Len(launch.options)
      <4>1. Len(launch.options) \in Nat
        BY <3>3, LaunchTyped
      <4>2. QED
        BY <3>5, <4>1
    <3>7. AtOption(k + 1)'
      BY <3>1, <3>5, <3>6, Zenon DEF AtOption
    <3>8. Asking'
      BY <2>1, <3>1, <3>3, Zenon DEF Asking
    <3>9. QED
      BY <3>1, <3>6, <3>7, <3>8, Zenon DEF LaunchInv, Phases
  <2>3. CASE FlagRefused
    <3>1. /\ phase = "flags" /\ phase' = "refused" /\ launch' = launch
          /\ argv # <<>> /\ ~AtFlag("--") /\ \A name \in Known : ~Takes(name)
      BY <2>3, Zenon DEF FlagRefused, Refuse, Known
    <3>2. LaunchOK(launch)
      BY <3>1, LaunchIsOK DEF LaunchInv, Prepares, Asking
    <3>3. PICK k \in 0..Len(launch.options) : AtOption(k)
      BY <3>1 DEF LaunchInv
    <3>4. ~WellFormed(launch)
      BY <3>1, <3>2, <3>3, TakesIs, Zenon
    <3>5. QED
      BY <3>1, <3>4 DEF LaunchInv, Phases, Prepares
  <2>4. CASE ParseEnds
    <3>1. /\ phase = "flags" /\ phase' = "options" /\ launch' = launch /\ flags' = flags
          /\ argv = <<>> \/ AtFlag("--")
          /\ childArgs' = IF argv = <<>> THEN <<>> ELSE Tail(argv)
      BY <2>4, Zenon DEF ParseEnds
    <3>2. Asking /\ LaunchOK(launch)
      BY <3>1, LaunchIsOK DEF LaunchInv, Prepares, Asking
    <3>3. PICK k \in 0..Len(launch.options) : AtOption(k)
      BY <3>1 DEF LaunchInv
    <3>4. k = Len(launch.options) /\ childArgs' = launch.child
      BY <3>1, <3>2, <3>3, TakesIs, Zenon
    <3>5. WellFormed(launch) /\ flags = Named(launch)
      <4>1. flags = NamedTo(launch, k) /\ WellTo(launch, k)
        BY <3>3 DEF AtOption
      <4>2. NamedTo(launch, k) = Named(launch) /\ WellTo(launch, k) = WellFormed(launch)
        BY <3>2, <3>4, AskedAtLast
      <4>3. QED
        BY <4>1, <4>2, Zenon
    <3>6. Found' /\ Asking'
      BY <2>1, <3>1, <3>2, <3>4, <3>5, Zenon DEF Found, Asking
    <3>7. QED
      BY <3>1, <3>6 DEF LaunchInv, Phases
  <2>5. CASE OptionsUsed
    <3>1. /\ phase = "options" /\ phase' = "prepared" /\ UNCHANGED <<launch, flags, childArgs>>
          /\ ~Unusable(flags, childArgs) /\ command' = Command(flags, childArgs)
      BY <2>5, Zenon DEF OptionsUsed
    <3>2. Asking /\ Found
      BY <3>1 DEF LaunchInv, Prepares
    <3>3. Asking' /\ Found'
      BY <2>1, <3>1, <3>2, Zenon DEF Asking, Found
    <3>4. ~Unusable(flags, childArgs)' /\ (command = Command(flags, childArgs))'
      BY <3>1, Zenon
    <3>5. QED
      BY <3>1, <3>3, <3>4 DEF LaunchInv, Phases
  <2>6. CASE OptionsRefused
    <3>1. /\ phase = "options" /\ phase' = "refused" /\ UNCHANGED launch
          /\ Unusable(flags, childArgs) \/ Command(flags, childArgs).written # {}
      BY <2>6, Zenon DEF OptionsRefused, Refuse
    <3>2. flags = Named(launch) /\ childArgs = launch.child
      BY <3>1 DEF LaunchInv, Found
    <3>3. Refusable(launch)'
      BY <3>1, <3>2, Zenon DEF Refusable
    <3>4. QED
      BY <3>1, <3>3 DEF LaunchInv, Phases, Prepares
  <2>7. CASE Run(WrapperStep) \/ Run(ChildStep)
    <3>1. phase' = "running"
      BY <2>7 DEF Run
    <3>2. QED
      BY <3>1 DEF LaunchInv, Phases, Prepares
  <2>8. CASE LaunchEnded \/ UNCHANGED allVars
    <3>1. UNCHANGED <<phase, launch, argv, flags, childArgs, command>>
      BY <2>8 DEF LaunchEnded, allVars, launchVars, parseVars
    <3>2. /\ Phases' = Phases /\ Prepares' = Prepares /\ Asking' = Asking /\ Found' = Found
          /\ \A k : AtOption(k)' = AtOption(k)
      BY <2>1, <3>1, Zenon DEF Phases, Prepares, Asking, Found, AtOption
    <3>3. QED
      BY <3>1, <3>2, Zenon DEF LaunchInv
  <2>9. QED
    BY <2>2, <2>3, <2>4, <2>5, <2>6, <2>7, <2>8, Zenon DEF LaunchNext, ParseStep
<1>3. QED
  BY <1>1, <1>2, PTL DEF LaunchSpec

\* The options read are those asked for.
LEMMA NamedIs ==
  ASSUME NEW l, LaunchOK(l), NEW f
  PROVE  /\ Given(Named(l), f) = Asked(l, f)
         /\ Asked(l, f) \in Seq(Plain)
         /\ WellFormed(l) => (f \in DOMAIN Named(l) <=> Asked(l, f) # <<>>)
<1> DEFINE N == Len(l.options)
           D == {l.options[i].flag : i \in 1..N}
<1>1. N \in Nat /\ N \in 0..N /\ DOMAIN l.options = 1..N
  <2>1. l.options \in Seq(OptionSet)
    BY LaunchTyped
  <2>2. QED
    BY <2>1
<1>2. NamedTo(l, N) = Named(l) /\ AskedTo(l, N, f) = Asked(l, f)
  BY AskedAtLast
<1>3. Given(NamedTo(l, N), f) = AskedTo(l, N, f)
  BY <1>1, GivenTo
<1>4. /\ AskedTo(l, N, f) \in Seq(Plain)
      /\ AskedTo(l, N, f) # <<>> <=> \E i \in 1..N : l.options[i].flag = f /\ l.options[i].values # <<>>
  BY <1>1, AskedHas
<1>5. f \in DOMAIN Named(l) <=> \E i \in 1..N : l.options[i].flag = f
  BY <1>1, Zenon DEF Named
<1>6. WellFormed(l) => \A i \in 1..N : l.options[i].values # <<>>
  BY <1>1, Zenon DEF WellFormed
<1>7. QED
  BY <1>2, <1>3, <1>4, <1>5, <1>6, Zenon

\* A sequence over its elements.
LEMMA SeqOfSet ==
  ASSUME NEW S, NEW s \in Seq(S), NEW T, ToSet(s) \subseteq T
  PROVE  s \in Seq(T)
<1>1. \A i \in 1..Len(s) : s[i] \in T
  BY DEF ToSet
<1>2. QED
  BY <1>1

\* Paths that can all be read.
LEMMA PathsAre ==
  ASSUME NEW a \in Seq(Plain), NEW b \in Seq(Plain), NEW c \in Seq(Plain), NEW d \in Seq(Plain), NEW F,
         ToSet(((a \o b) \o c) \o d) \subseteq F
  PROVE  /\ a \o b \in Seq(F) /\ c \in Seq(F) /\ d \in Seq(F)
         /\ ToSet(a \o b) = ToSet(a) \union ToSet(b)
<1> DEFINE ab == a \o b
           abc == ab \o c
<1>1. ab \in Seq(Plain) /\ ToSet(ab) = ToSet(a) \union ToSet(b)
  BY ToSetConcat
<1> HIDE DEF ab
<1>2. abc \in Seq(Plain) /\ ToSet(abc) = ToSet(ab) \union ToSet(c)
  BY <1>1, ToSetConcat
<1> HIDE DEF abc
<1>3. ToSet(abc \o d) = ToSet(abc) \union ToSet(d)
  BY <1>2, ToSetConcat
<1>4. ToSet(abc \o d) \subseteq F
  BY Zenon DEF ab, abc
<1>5. ToSet(ab) \subseteq F /\ ToSet(c) \subseteq F /\ ToSet(d) \subseteq F
  BY <1>2, <1>3, <1>4, Zenon
<1>6. ab \in Seq(F) /\ c \in Seq(F) /\ d \in Seq(F)
  BY <1>1, <1>5, SeqOfSet
<1>7. QED
  BY <1>1, <1>6 DEF ab

\* Values are sequences of tokens.
LEMMA PlainTyped ==
  ASSUME NEW s \in Seq(Plain)
  PROVE  s \in Seq(Seq(Tokens)) /\ \A i \in DOMAIN s : s[i] \in ToSet(s)
<1>1. s \in Seq(Seq(Tokens))
  BY DEF Plain
<1>2. \A i \in DOMAIN s : s[i] \in ToSet(s)
  BY Zenon DEF ToSet
<1>3. QED
  BY <1>1, <1>2

(***************************************************************************)
(* What options() does not refuse it can work with.                        *)
(***************************************************************************)
LEMMA UsableIs ==
  ASSUME NEW l, LaunchOK(l), NEW given, given = Named(l), ~Unusable(given, l.child)
  PROVE  /\ EnvOK(given) /\ ListOK(Substitutions(given), "ref") /\ ListOK(Statuses(given), "status")
         /\ l.child \o ReadAll(Asked(l, "--arg-file")) \in Seq(Seq(Tokens))
         /\ PrepareArgs(l.child \o ReadAll(Asked(l, "--arg-file")), given).ok
<1> DEFINE subst == Given(given, "--subst")
           stable == Given(given, "--stable-status-file")
           volatile == Given(given, "--volatile-status-file")
           env == Given(given, "--env-file")
           arg == Given(given, "--arg-file")
           paths == StatusFiles(given)
<1>1. \A f : Given(given, f) = Asked(l, f) /\ Asked(l, f) \in Seq(Plain)
  BY NamedIs
<1>2. /\ \A i \in DOMAIN subst : Equals \in ToSet(subst[i])
      /\ ToSet((paths \o env) \o arg) \subseteq DOMAIN Files
      /\ \A i \in DOMAIN ReadAll(paths) : Space \in ToSet(ReadAll(paths)[i])
      /\ \A i \in DOMAIN ReadAll(env) : Equals \in ToSet(ReadAll(env)[i])
      /\ Prepared(given, l.child).ok
  BY Zenon DEF Unusable
<1>3. paths = stable \o volatile
  BY Zenon DEF StatusFiles
<1>4. /\ subst \in Seq(Plain) /\ stable \in Seq(Plain) /\ volatile \in Seq(Plain)
      /\ env \in Seq(Plain) /\ arg \in Seq(Plain)
  BY <1>1, Zenon
<1> DEFINE F == DOMAIN Files
<1>5. /\ paths \in Seq(F) /\ env \in Seq(F) /\ arg \in Seq(F)
      /\ ToSet(paths) = ToSet(stable) \union ToSet(volatile)
  <2> HIDE DEF stable, volatile, env, arg, F, paths
  <2>1. ToSet(((stable \o volatile) \o env) \o arg) \subseteq F
    BY <1>2, <1>3, Zenon DEF F
  <2>2. stable \o volatile \in Seq(F) /\ env \in Seq(F) /\ arg \in Seq(F)
        /\ ToSet(stable \o volatile) = ToSet(stable) \union ToSet(volatile)
    BY <1>4, <2>1, PathsAre
  <2>3. QED
    BY <1>3, <2>2, Zenon
<1>6. EnvOK(given)
  BY <1>2, <1>5, Zenon DEF EnvOK, EnvLines
<1>7. ListOK(Substitutions(given), "ref")
  <2>1. subst \in Seq(Seq(Tokens)) /\ \A i \in DOMAIN subst : subst[i] \in ToSet(subst)
    BY <1>4, PlainTyped
  <2>2. \A v \in ToSet(subst) : Equals \in ToSet(v) => SubstOK(v)
    BY <1>1, Zenon DEF LaunchOK, SubstOK
  <2>3. \A i \in DOMAIN subst : Equals \in ToSet(subst[i]) /\ SubstOK(subst[i])
    BY <1>2, <2>1, <2>2, Zenon
  <2>4. QED
    BY <2>1, <2>3, SubstitutionsOK
<1>8. ListOK(Statuses(given), "status")
  <2>1. \A path \in (ToSet(stable) \union ToSet(volatile)) \intersect DOMAIN Files :
          \A i \in DOMAIN Lines[path] : Free(Lines[path][i], "status")
    <3>1. \A flag \in {"--stable-status-file", "--volatile-status-file"} :
            \A path \in ToSet(Asked(l, flag)) \intersect DOMAIN Files :
              \A i \in DOMAIN Lines[path] : Free(Lines[path][i], "status")
      BY Zenon DEF LaunchOK
    <3>2. stable = Asked(l, "--stable-status-file") /\ volatile = Asked(l, "--volatile-status-file")
      BY <1>1, Zenon
    <3>3. QED
      BY <3>1, <3>2, Zenon
  <2>2. ToSet(paths) \subseteq DOMAIN Files
    <3> HIDE DEF paths, F
    <3>1. ToSet(paths) \subseteq F
      BY <1>5 DEF ToSet
    <3>2. QED
      BY <3>1, Zenon DEF F
  <2>3. \A path \in ToSet(paths) : \A i \in DOMAIN Lines[path] : Free(Lines[path][i], "status")
    BY <1>5, <2>1, <2>2, Zenon
  <2>4. QED
    BY <1>2, <1>5, <2>3, StatusesOK
<1>9. Prepared(given, l.child) = PrepareArgs(l.child \o ReadAll(Asked(l, "--arg-file")), given)
  BY <1>1, Zenon DEF Prepared
<1>10. l.child \o ReadAll(Asked(l, "--arg-file")) \in Seq(Seq(Tokens))
  <2> DEFINE c == l.child
             r == ReadAll(arg)
             A == Seq(Tokens)
  <2>1. c \in Seq(A) /\ r \in Seq(A)
    BY <1>5, ReadAllIs, LaunchTyped
  <2> HIDE DEF c, r, A
  <2>2. c \o r \in Seq(A)
    BY <2>1
  <2>3. QED
    BY <1>1, <2>2, Zenon DEF c, r, A
<1>11. QED
  BY <1>2, <1>6, <1>7, <1>8, <1>9, <1>10, Zenon

\* LaunchInv and each part of LaunchMeant.
LEMMA AsAsked == LaunchInv => LaunchedAsAsked
<1> SUFFICES ASSUME LaunchInv PROVE LaunchedAsAsked
  OBVIOUS
<1>1. CASE phase = "prepared"
  <2>1. Asking /\ Found
    BY <1>1 DEF LaunchInv, Prepares
  <2>2. LaunchOK(launch) /\ WellFormed(launch) /\ flags = Named(launch)
    BY <2>1, LaunchIsOK DEF Asking, Found
  <2>3. \A f : (f \in DOMAIN flags <=> Asked(launch, f) # <<>>) /\ Given(flags, f) = Asked(launch, f)
    BY <2>2, NamedIs
  <2>4. /\ opts.json = (Asked(launch, "--rustc-output-format") # <<>>)
        /\ opts.quit = (Asked(launch, "--rustc-quit-on-rmeta") = << <<Text("true")>> >>)
        /\ opts.log = (Asked(launch, "--output-file") # <<>>)
        /\ opts.touch = (Asked(launch, "--touch-file") # <<>>)
        /\ opts.copy = (Asked(launch, "--copy-output") # <<>>)
    BY <2>1 DEF Asking, Options_
  <2>5. opts.quit = IsTrue(flags, "--rustc-quit-on-rmeta")
    BY <2>3, <2>4, Zenon DEF IsTrue
  <2>6. /\ opts.json = ("--rustc-output-format" \in DOMAIN flags) /\ opts.log = ("--output-file" \in DOMAIN flags)
        /\ opts.touch = ("--touch-file" \in DOMAIN flags) /\ opts.copy = ("--copy-output" \in DOMAIN flags)
    <3>1. \A f : (f \in DOMAIN flags) = (Asked(launch, f) # <<>>)
      <4> TAKE f
      <4> DEFINE a == f \in DOMAIN flags
                 b == Asked(launch, f) # <<>>
      <4>1. a <=> b
        BY <2>3, Zenon
      <4>2. a \in BOOLEAN /\ b \in BOOLEAN
        OBVIOUS
      <4> HIDE DEF a, b
      <4>3. a = b
        BY <4>1, <4>2
      <4>4. QED
        BY <4>3 DEF a, b
    <3>2. QED
      BY <2>4, <3>1, Zenon
  <2>7. phase # "refused"
    BY <1>1
  <2>8. QED
    BY <2>1, <2>5, <2>6, <2>7, Zenon DEF LaunchedAsAsked, Found
<1>2. CASE phase # "prepared"
  BY <1>2, Zenon DEF LaunchInv, LaunchedAsAsked, Refusable
<1>3. QED
  BY <1>1, <1>2

\* What LaunchInv says once the child's command is prepared.
LEMMA CommandIs ==
  ASSUME LaunchInv, phase = "prepared"
  PROVE  /\ LaunchOK(launch)
         /\ ~Unusable(Named(launch), launch.child)
         /\ command.env = EnvironmentBlock(Named(launch))
         /\ LET args == launch.child \o ReadAll(Asked(launch, "--arg-file"))
            IN  /\ command.args = PrepareArgs(args, Named(launch)).args
                /\ command.written = PrepareArgs(args, Named(launch)).written
<1>1. Asking /\ Found /\ ~Unusable(flags, childArgs) /\ command = Command(flags, childArgs)
  BY DEF LaunchInv, Prepares
<1>2. LaunchOK(launch) /\ flags = Named(launch) /\ childArgs = launch.child
  BY <1>1, LaunchIsOK DEF Asking, Found
<1> DEFINE given == Named(launch)
           args == launch.child \o ReadAll(Asked(launch, "--arg-file"))
           p == PrepareArgs(args, given)
<1>3. Given(given, "--arg-file") = Asked(launch, "--arg-file")
  BY <1>2, NamedIs
<1>4. Prepared(given, launch.child) = p
  BY <1>3, Zenon DEF Prepared
<1>5. command = [args |-> p.args, env |-> EnvironmentBlock(given), written |-> p.written]
  BY <1>1, <1>2, <1>4, Zenon DEF Command
<1> HIDE DEF p, given
<1>6. command.args = p.args /\ command.env = EnvironmentBlock(given) /\ command.written = p.written
  BY <1>5
<1>7. QED
  BY <1>1, <1>2, <1>6, Zenon DEF p, given

\* The parts of a concatenation.
LEMMA Parts ==
  ASSUME NEW S, NEW s \in Seq(S), NEW t \in Seq(S)
  PROVE  /\ Len(s) <= Len(s \o t) /\ SubSeq(s \o t, 1, Len(s)) = s
         /\ SubSeq(s \o t, Len(s) + 1, Len(s \o t)) = t
OBVIOUS

\* What the child reads.
LEMMA ReadMeant == LaunchInv => ArgumentsMeant /\ FeaturesGated
<1> SUFFICES ASSUME LaunchInv, phase = "prepared" PROVE ArgumentsMeant /\ FeaturesGated
  BY Zenon DEF ArgumentsMeant, FeaturesGated
<1> DEFINE given == Named(launch)
           args == launch.child \o ReadAll(Asked(launch, "--arg-file"))
           list == Substitutions(given)
           meant == FlattenSeq(MeantParts(list, args, MeantFiles(list)[Depth]))
           gated == IsTrue(given, "--require-explicit-unstable-features") /\ ~Allows(meant)
           more == IF gated THEN << <<AllowFeatures>> >> ELSE <<>>
           p == PrepareArgs(args, given)
<1>1. LaunchOK(launch) /\ ~Unusable(given, launch.child) /\ command.args = p.args /\ command.written = p.written
  BY CommandIs, Zenon
<1>2. ListOK(list, "ref") /\ args \in Seq(Seq(Tokens)) /\ p.ok
  <2> HIDE DEF list, args, p
  <2>1. EnvOK(given) /\ ListOK(Substitutions(given), "ref")
        /\ launch.child \o ReadAll(Asked(launch, "--arg-file")) \in Seq(Seq(Tokens))
        /\ PrepareArgs(launch.child \o ReadAll(Asked(launch, "--arg-file")), given).ok
    BY <1>1, UsableIs
  <2>2. QED
    BY <2>1, Zenon DEF list, args, p
<1>3. meant \in Seq(Seq(Tokens)) /\ ReadOf(p.args, p.written) = meant \o more
  <2> HIDE DEF args
  <2>1. QED
    BY <1>2, ArgsAreMeant, Zenon
<1>4. ReadByChild = ReadOf(command.args, command.written)
  BY Zenon DEF ReadByChild, ReadOf
<1>5. MeantArgs(launch) = meant
  BY MeantArgsAre, Zenon
<1>6. Explicit(launch) = IsTrue(given, "--require-explicit-unstable-features")
  <2>1. Given(given, "--require-explicit-unstable-features") = Asked(launch, "--require-explicit-unstable-features")
    BY <1>1, NamedIs
  <2>2. QED
    BY <2>1, Zenon DEF Explicit, IsTrue
<1>7. more \in Seq(Seq(Tokens))
  <2>1. <<AllowFeatures>> \in Seq(Tokens)
    BY TokensAre
  <2> DEFINE a == <<AllowFeatures>>
  <2>2. <<a>> \in Seq(Seq(Tokens)) /\ <<>> \in Seq(Seq(Tokens))
    <3> HIDE DEF a
    <3>1. a \in Seq(Tokens)
      BY <2>1 DEF a
    <3>2. QED
      BY <3>1
  <2> HIDE DEF gated
  <2>3. QED
    BY <2>2, Zenon
<1>8. ReadByChild = meant \o more
  BY <1>1, <1>3, <1>4, Zenon
<1>9. more = IF Explicit(launch) /\ ~Allows(meant) THEN << <<AllowFeatures>> >> ELSE <<>>
  BY <1>6, Zenon
<1> DEFINE s == meant
           t == more
<1>10. /\ Len(s) <= Len(s \o t) /\ SubSeq(s \o t, 1, Len(s)) = s
       /\ SubSeq(s \o t, Len(s) + 1, Len(s \o t)) = t
  <2>1. s \in Seq(Seq(Tokens)) /\ t \in Seq(Seq(Tokens))
    BY <1>3, <1>7, Zenon
  <2> HIDE DEF s, t
  <2>2. QED
    BY <2>1, Parts
<1> HIDE DEF meant, more
<1>11. ArgumentsMeant
  BY <1>5, <1>8, <1>10, Zenon DEF ArgumentsMeant
<1>12. FeaturesGated
  BY <1>5, <1>8, <1>9, <1>10, Zenon DEF FeaturesGated
<1>13. QED
  BY <1>11, <1>12

\* What is set in its environment.
LEMMA SetAsMeant == LaunchInv => EnvironmentMeant
<1> SUFFICES ASSUME LaunchInv, phase = "prepared" PROVE EnvironmentMeant
  BY Zenon DEF EnvironmentMeant
<1> DEFINE given == Named(launch)
           lines == ReadAll(Asked(launch, "--env-file"))
           pairs == [i \in DOMAIN lines |-> SplitOnce(lines[i], Equals)]
           N == Len(EnvLines(given))
           setting(x) == {i \in DOMAIN pairs : pairs[i][1] = x}
           chosen(x) == IF setting(x) = {} THEN ProcessEnv[x] ELSE pairs[Max(setting(x))][2]
           meant(value) == Meaning(Meaning(value, "status", Statuses(given)), "ref", Substitutions(given))
<1>1. LaunchOK(launch) /\ ~Unusable(given, launch.child) /\ command.env = EnvironmentBlock(given)
  BY CommandIs, Zenon
<1>2. EnvOK(given) /\ ListOK(Substitutions(given), "ref") /\ ListOK(Statuses(given), "status")
  BY <1>1, UsableIs
<1>3. EnvLines(given) = lines /\ EnvPairs(given) = pairs
  <2>1. Given(given, "--env-file") = Asked(launch, "--env-file")
    BY <1>1, NamedIs
  <2>2. QED
    BY <2>1, Zenon DEF EnvLines, EnvPairs
<1>4. DOMAIN EnvPairs(given) = 1..N
  BY <1>2, EnvPairsAre
<1>5. /\ DOMAIN EnvironmentBlock(given) = DOMAIN ProcessEnv \union {EnvPairs(given)[i][1] : i \in 1..N}
      /\ \A x \in DOMAIN EnvironmentBlock(given) :
           EnvironmentBlock(given)[x] = meant(ChosenOf(EnvPairs(given), N, x))
  <2> HIDE DEF given
  <2>1. QED
    BY <1>2, EnvironmentIs, Zenon
<1>6. \A x : ChosenOf(EnvPairs(given), N, x) = chosen(x)
  BY <1>3, <1>4, Zenon DEF ChosenOf
<1>7. /\ DOMAIN command.env = DOMAIN ProcessEnv \union {pairs[i][1] : i \in DOMAIN pairs}
      /\ \A x \in DOMAIN command.env : command.env[x] = meant(chosen(x))
  <2> HIDE DEF meant, chosen, pairs
  <2>1. QED
    BY <1>1, <1>3, <1>4, <1>5, <1>6, Zenon
<1>8. QED
  BY <1>7, Zenon DEF EnvironmentMeant

(***************************************************************************)
(* Whatever the command line, the files it names and the environment, the  *)
(* compiler is started with what they say, and a launch is refused only if *)
(* it makes no sense or a file fails (options.rs, flags.rs).               *)
(***************************************************************************)
THEOREM LaunchMeans == LaunchSpec => []LaunchMeant
<1>1. LaunchInv => LaunchMeant
  BY AsAsked, ReadMeant, SetAsMeant DEF LaunchMeant
<1>2. QED
  BY <1>1, LaunchInvHolds, PTL
=============================================================================
