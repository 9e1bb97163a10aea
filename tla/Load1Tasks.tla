---------------------------- MODULE Load1Tasks ----------------------------
(***************************************************************************)
(* The handlers of the Load1 tasks.  One handler is one poll: what OnPoll  *)
(* does in the state the task is in.  The moves that MoveToStart,          *)
(* FindAlign and PCDScanning write alike, differing in the deadline of the *)
(* state they enter, are one operator each.                                *)
(*                                                                         *)
(* OnInitialize reads only what no earlier task of its recipe changes, so  *)
(* InitialPhase and InitialTarget state its effect at the start of a run.  *)
(***************************************************************************)
EXTENDS Load1Frame

InitialPhase(t, ps) ==
  CASE t \in {"MoveToStart", "Backlash", "FOVScanning", "PickerFOVScanning",
              "HandPitchScanning"} -> "MoveSafeZ"
    [] t = "FocusScanning" -> "MoveDown"
    [] t = "FindAlign" -> IF ps = <<>> THEN "CS_ERROR" ELSE "VisionRequest"
    [] t = "PCDScanning" -> "VisionRequest"
    [] t = "CommitTeaching" -> "LoadPickerCameraOffset"
    [] t = "Calibration" -> "CS_ERROR"   \* whether or not there is a position

InitialTarget(t, ps) ==
  CASE t \in {"FindAlign", "PCDScanning", "Calibration"} -> PeekVisionPosition(ps)
    [] t = "Backlash" -> [NoPosition EXCEPT !.z = PeekVisionPosition(ps).z]
    [] OTHER -> NoPosition

\* The three points and the speeds of the backlash scan.
StartPosition == <<1, 0>>
ZeroPosition == <<2, 0>>
EndPosition == <<3, 0>>
Speeds == 3

\* The task the sequence polls, in state s.
At(t, s) == idx <= Len(Recipe[kind]) /\ Recipe[kind][idx] = t /\ phase[t] = s

Enter(t, s, timed) == IF timed THEN EnterStateWithTimeout(t, s) ELSE EnterState(t, s)

-----------------------------------------------------------------------------
(* The moves the tasks share. *)

RaiseZ(t, next) ==
  /\ MoveZ(0)
  /\ EnterStateWithTimeout(t, next) /\ Keep
  /\ UNCHANGED <<ctx, memory, vision, results>>

\* Mutant of LeaveForOrigin: does not wait for Z.
LeaveAtOnce(t, next) ==
  /\ Move(Home)
  /\ EnterStateWithTimeout(t, next) /\ Keep
  /\ UNCHANGED <<ctx, memory, vision, results>>

LeaveForOrigin(t, next) ==
  Await(t, z.at = 0,
    /\ Move(Home)
    /\ EnterStateWithTimeout(t, next) /\ Keep
    /\ UNCHANGED <<ctx, memory, vision, results>>)

LeaveForTarget(t, next, timed) ==
  Await(t, xy.at = Home,
    /\ Move(target[t].xy)
    /\ Enter(t, next, timed) /\ Keep
    /\ UNCHANGED <<ctx, memory, vision, results>>)

LowerZ(t, next, timed) ==
  Await(t, xy.at = target[t].xy,
    /\ MoveZ(target[t].z)
    /\ Enter(t, next, timed) /\ Keep
    /\ UNCHANGED <<ctx, memory, vision, results>>)

RequestAtFocus(t) == Await(t, z.at = target[t].z, RequestMeasure(t))

\* HandleVisionWait of all scans but the focus scan: first the deadline, then
\* the answer, whose offsets are parsed before the light goes off.
AwaitAnswer(t, Take) ==
  \/ IsDeadlineExpired(t) /\ Fail(t)
  \/ ~IsDeadlineExpired(t) /\ ~latest.valid /\ Stay
  \/ ~IsDeadlineExpired(t) /\ latest.valid /\ latest.garbled /\ Fail(t)
  \/ /\ ~IsDeadlineExpired(t) /\ latest.valid /\ ~latest.garbled
     /\ SetLightState(FALSE)
     /\ UNCHANGED <<vision, results>>
     /\ Take

Corrected(point) == <<point[1], point[2] + 1>>

\* The target moves by the offsets of the answer.
CorrectTarget(t) == target' = [target EXCEPT ![t].xy = Corrected(@)]

-----------------------------------------------------------------------------
(* CLoad1MoveToStartPositionTask *)

MoveToStart ==
  \/ /\ At("MoveToStart", "MoveSafeZ")
     /\ IF positions = <<>>
        THEN Fail("MoveToStart")
        ELSE /\ target' = [target EXCEPT !["MoveToStart"] = PeekVisionPosition(positions)]
             /\ MoveZ(0)
             /\ EnterStateWithTimeout("MoveToStart", "MoveOrigin") /\ Keep
             /\ UNCHANGED <<ctx, count, aligned, scan, vision, results>>
  \/ /\ At("MoveToStart", "MoveOrigin")
     /\ LeaveForOrigin("MoveToStart", "MoveTargetPositionXY")
  \/ /\ At("MoveToStart", "MoveTargetPositionXY")
     /\ LeaveForTarget("MoveToStart", "MoveTargetPositionZ", TRUE)
  \/ /\ At("MoveToStart", "MoveTargetPositionZ")
     /\ LowerZ("MoveToStart", "CompleteMove", TRUE)
  \/ /\ At("MoveToStart", "CompleteMove")
     /\ Await("MoveToStart", z.at = target["MoveToStart"].z,
          /\ EnterState("MoveToStart", "MoveSafeZ") /\ NextTask
          /\ UNCHANGED <<ctx, memory, machine, vision, results>>)

-----------------------------------------------------------------------------
(* CLoad1FindAlignPosTask *)

\* Mutant of TakeAlign: one repeat too many.
TakeOneMore ==
  /\ CorrectTarget("FindAlign")
  /\ IF count["FindAlign"] <= MaxInspections
     THEN /\ count' = [count EXCEPT !["FindAlign"] = @ + 1]
          /\ EnterState("FindAlign", "MoveSafeZ")
     ELSE /\ count' = [count EXCEPT !["FindAlign"] = 0]
          /\ EnterState("FindAlign", "SaveCalibrationResult")
  /\ Keep
  /\ UNCHANGED <<ctx, aligned, scan>>

\* Every answer corrects the target; after MaxInspections repeats it is saved.
TakeAlign ==
  /\ CorrectTarget("FindAlign")
  /\ IF count["FindAlign"] < MaxInspections
     THEN /\ count' = [count EXCEPT !["FindAlign"] = @ + 1]
          /\ EnterState("FindAlign", "MoveSafeZ")
     ELSE /\ count' = [count EXCEPT !["FindAlign"] = 0]
          /\ EnterState("FindAlign", "SaveCalibrationResult")
  /\ Keep
  /\ UNCHANGED <<ctx, aligned, scan>>

\* Mutant of CalibrationRow: the location is that of the position taken off the list.
PoppedRow(popped) == [loc |-> popped.loc, xy |-> popped.xy]

\* The row is of the location looked up at the back of the list.
CalibrationRow(popped) == [loc |-> target["FindAlign"].loc, xy |-> popped.xy]

\* The position removed is the one at the front of the list: it gets the target
\* that was measured and keeps its own location.
SaveAlign ==
  LET popped == [target["FindAlign"] EXCEPT !.loc = Head(positions).loc]
      done == Append(aligned, popped)
      rest == Tail(positions)
  IN  /\ saved' = saved \cup {CalibrationRow(popped)}
      /\ UNCHANGED <<taught, kind, stop, count, scan, machine, vision>>
      /\ IF rest = <<>>
         THEN /\ positions' = done /\ aligned' = <<>>
              /\ NextTask
              /\ UNCHANGED <<phase, deadline, target>>
         ELSE /\ positions' = rest /\ aligned' = done
              /\ target' = [target EXCEPT !["FindAlign"] = PeekVisionPosition(rest)]
              /\ EnterStateWithTimeout("FindAlign", "VisionRequest") /\ PrevTask

FindAlign ==
  \/ At("FindAlign", "MoveSafeZ") /\ RaiseZ("FindAlign", "MoveOrigin")
  \/ At("FindAlign", "MoveOrigin") /\ LeaveForOrigin("FindAlign", "MoveCalibrationPosXY")
  \/ At("FindAlign", "MoveCalibrationPosXY") /\ LeaveForTarget("FindAlign", "MoveFocusPosZ", TRUE)
  \/ At("FindAlign", "MoveFocusPosZ") /\ LowerZ("FindAlign", "VisionRequest", FALSE)
  \/ At("FindAlign", "VisionRequest") /\ RequestAtFocus("FindAlign")
  \/ At("FindAlign", "VisionWait") /\ AwaitAnswer("FindAlign", TakeAlign)
  \/ At("FindAlign", "SaveCalibrationResult") /\ SaveAlign

-----------------------------------------------------------------------------
(* CLoad1PerformFocusScanningTask *)

FocusDown ==
  /\ MoveZ(PeekVisionPosition(positions).z)
  /\ EnterStateWithTimeout("FocusScanning", "MoveWait") /\ Keep
  /\ UNCHANGED <<ctx, memory, vision, results>>

\* The repository may refuse a read or a write, before which the position is gone.
SaveFocus ==
  /\ positions' = Tail(positions)
  /\ UNCHANGED <<kind, stop, memory, machine, vision, results>>
  /\ \/ SetErrorAndReturn("FocusScanning")
     \/ IF Len(positions) = 1
        THEN NextTask /\ UNCHANGED <<phase, deadline>>
        ELSE EnterState("FocusScanning", "MoveDown") /\ PrevTask

FocusScanning ==
  \/ /\ At("FocusScanning", "MoveDown")
     /\ IF positions = <<>> THEN Fail("FocusScanning") ELSE FocusDown
  \/ /\ At("FocusScanning", "MoveWait")
     /\ IF positions = <<>>
        THEN Fail("FocusScanning")
        ELSE Await("FocusScanning", z.at = PeekVisionPosition(positions).z,
               /\ EnterStateWithTimeout("FocusScanning", "VisionRequest") /\ Keep
               /\ UNCHANGED <<ctx, memory, machine, vision, results>>)
  \/ At("FocusScanning", "VisionRequest") /\ RequestMeasure("FocusScanning")
  \/ /\ At("FocusScanning", "VisionWait")
     /\ Await("FocusScanning", latest.valid,
          /\ SetLightState(FALSE)
          /\ EnterState("FocusScanning", "ReturnHome") /\ Keep
          /\ UNCHANGED <<ctx, memory, vision, results>>)
  \/ At("FocusScanning", "ReturnHome") /\ RaiseZ("FocusScanning", "SaveFocusResult")
  \/ At("FocusScanning", "SaveFocusResult") /\ positions # <<>> /\ SaveFocus

-----------------------------------------------------------------------------
(* CLoad1PerformPCDScanningTask *)

Pulse == [at |-> xy.at, from |-> xy.from]

\* Mutant of Pitched: the second place is the first.
Unpitched(position) == [position EXCEPT !.xy = <<@[1], 0>>]

\* The place one pitch further along the scan axis.
Pitched(position) == [position EXCEPT !.xy = <<@[1] + 1, 0>>]

\* The last answer at a place is not a correction: the pulse is read there.
MeasurePulse ==
  IF scan.started
  THEN /\ scan' = [scan EXCEPT !.last = Pulse]
       /\ EnterState("PCDScanning", "CalculatePCD") /\ Keep
       /\ UNCHANGED <<ctx, target, count, aligned>>
  ELSE LET next == Pitched(target["PCDScanning"])
       IN  /\ scan' = [scan EXCEPT !.started = TRUE, !.first = Pulse]
           /\ target' = [target EXCEPT !["PCDScanning"] = next]
           /\ positions' = Append(Tail(positions), [Head(positions) EXCEPT !.xy = next.xy])
           /\ count' = [count EXCEPT !["PCDScanning"] = 0]
           /\ EnterState("PCDScanning", "VisionRequest") /\ PrevTask
           /\ UNCHANGED <<kind, stop, aligned>>

TakePCD ==
  IF count["PCDScanning"] < MaxInspections
  THEN /\ CorrectTarget("PCDScanning")
       /\ count' = [count EXCEPT !["PCDScanning"] = @ + 1]
       /\ EnterState("PCDScanning", "MoveSafeZ") /\ Keep
       /\ UNCHANGED <<ctx, aligned, scan>>
  ELSE MeasurePulse

PCDScanning ==
  \/ At("PCDScanning", "MoveSafeZ") /\ RaiseZ("PCDScanning", "MoveOrigin")
  \/ At("PCDScanning", "MoveOrigin") /\ LeaveForOrigin("PCDScanning", "MoveTargetPositionXY")
  \/ /\ At("PCDScanning", "MoveTargetPositionXY")
     /\ LeaveForTarget("PCDScanning", "MoveFocusPositionZ", FALSE)
  \/ At("PCDScanning", "MoveFocusPositionZ") /\ LowerZ("PCDScanning", "VisionRequest", FALSE)
  \/ At("PCDScanning", "VisionRequest") /\ RequestAtFocus("PCDScanning")
  \/ At("PCDScanning", "VisionWait") /\ AwaitAnswer("PCDScanning", TakePCD)
  \/ /\ At("PCDScanning", "CalculatePCD")
     /\ EnterState("PCDScanning", "SavePCDResult") /\ Keep
     /\ UNCHANGED <<ctx, memory, machine, vision, results>>
  \/ /\ At("PCDScanning", "SavePCDResult")
     /\ NextTask
     /\ UNCHANGED <<phase, deadline, ctx, memory, machine, vision, results>>

-----------------------------------------------------------------------------
(* CLoad1PerformBacklashScanningTask; its target is m_currentPosition. *)

\* Once XY is where it was sent, on to the next point.
Step(to, next, after) ==
  Await("Backlash", xy.at = target["Backlash"].xy,
    /\ target' = [target EXCEPT !["Backlash"].xy = to]
    /\ Move(to)
    /\ scan' = [scan EXCEPT !.next = after]
    /\ EnterStateWithTimeout("Backlash", next) /\ Keep
    /\ UNCHANGED <<ctx, count, aligned, vision, results>>)

\* Mutant of BacklashOrigin: the wait for XY has no deadline.
BacklashOriginUntimed ==
  Await("Backlash", z.at = 0,
    /\ Move(Home)
    /\ target' = [target EXCEPT !["Backlash"].xy = Home]
    /\ EnterState("Backlash", "MoveStart") /\ Keep
    /\ UNCHANGED <<ctx, count, aligned, scan, vision, results>>)

BacklashOrigin ==
  Await("Backlash", z.at = 0,
    /\ Move(Home)
    /\ target' = [target EXCEPT !["Backlash"].xy = Home]
    /\ EnterStateWithTimeout("Backlash", "MoveStart") /\ Keep
    /\ UNCHANGED <<ctx, count, aligned, scan, vision, results>>)

\* The request goes out before Z has arrived; only a passed deadline is an error.
BacklashRequest ==
  IF z.at # target["Backlash"].z /\ IsDeadlineExpired("Backlash")
  THEN Fail("Backlash")
  ELSE RequestMeasure("Backlash")

\* The first measurement is followed by the move to Start with Z left down.
TakeBacklash ==
  /\ IF scan.started
     THEN /\ scan' = [scan EXCEPT !.last = Pulse]
          /\ EnterState("Backlash", "CalculateBacklash")
     ELSE /\ scan' = [scan EXCEPT !.started = TRUE, !.first = Pulse]
          /\ EnterStateWithTimeout("Backlash", scan.next)
  /\ Keep
  /\ UNCHANGED <<ctx, target, count, aligned>>

CalculateBacklash ==
  /\ IF scan.speed + 1 < Speeds
     THEN /\ scan' = [scan EXCEPT !.speed = @ + 1, !.next = "MoveOrigin", !.started = FALSE]
          /\ EnterStateWithTimeout("Backlash", "MoveSafeZ")
     ELSE /\ scan' = [scan EXCEPT !.speed = @ + 1]
          /\ EnterState("Backlash", "SaveBacklashResult")
  /\ Keep
  /\ UNCHANGED <<ctx, target, count, aligned, machine, vision, results>>

Backlash ==
  \/ At("Backlash", "MoveSafeZ") /\ RaiseZ("Backlash", scan.next)
  \/ At("Backlash", "MoveOrigin") /\ BacklashOrigin
  \/ /\ At("Backlash", "MoveStart")
     /\ Step(StartPosition, IF scan.started THEN "MoveEnd" ELSE "MoveZero", "MoveStart")
  \/ At("Backlash", "MoveEnd") /\ Step(EndPosition, "MoveZero", scan.next)
  \/ At("Backlash", "MoveZero") /\ Step(ZeroPosition, "MoveFocusZ", scan.next)
  \/ At("Backlash", "MoveFocusZ") /\ LowerZ("Backlash", "VisionRequest", TRUE)
  \/ At("Backlash", "VisionRequest") /\ BacklashRequest
  \/ At("Backlash", "VisionWait") /\ AwaitAnswer("Backlash", TakeBacklash)
  \/ At("Backlash", "CalculateBacklash") /\ CalculateBacklash
  \/ /\ At("Backlash", "SaveBacklashResult")
     /\ NextTask
     /\ UNCHANGED <<phase, deadline, ctx, memory, machine, vision, results>>

-----------------------------------------------------------------------------
(* CLoad1CommitTeachingPosTask; m_teachingPositions is a copy of a list that *)
(* nothing changes any more.                                                *)

\* A load of the repository that the next state needs.
LoadFrom(s, next) ==
  /\ At("CommitTeaching", s)
  /\ \/ EnterState("CommitTeaching", next) /\ Keep
     \/ SetErrorAndReturn("CommitTeaching")
  /\ UNCHANGED <<ctx, memory, machine, vision, results>>

\* The first n positions are saved before a save fails, or all of them.
SaveTeachingPositions ==
  /\ \E n \in 0..Len(positions) :
       /\ taught' = taught \cup {[loc |-> positions[i].loc, xy |-> positions[i].xy] : i \in 1..n}
       /\ IF n = Len(positions)
          THEN NextTask /\ UNCHANGED <<phase, deadline>>
          ELSE SetErrorAndReturn("CommitTeaching")
  /\ UNCHANGED <<saved, ctx, memory, machine, vision>>

CommitTeaching ==
  \/ LoadFrom("LoadPickerCameraOffset", "LoadVisionPositions")
  \/ /\ At("CommitTeaching", "LoadVisionPositions")
     /\ EnterState("CommitTeaching", "LoadHandPitchOffsets") /\ Keep
     /\ UNCHANGED <<ctx, memory, machine, vision, results>>
  \/ LoadFrom("LoadHandPitchOffsets", "SaveTeachingPositions")
  \/ At("CommitTeaching", "SaveTeachingPositions") /\ SaveTeachingPositions

(* CLoad1PerformCalibrationTask: OnPoll of the error state it starts in. *)

Calibration ==
  /\ At("Calibration", "CS_ERROR")
  /\ outcome' = "false"
  /\ UNCHANGED <<idx, phase, deadline, ctx, memory, machine, vision, results>>

=============================================================================
