---------------------------- MODULE Load1Scans ----------------------------
(***************************************************************************)
(* The three scans that measure around the place where the machine stands: *)
(* FOVScanning, PickerFOVScanning and HandPitchScanning.  Each reads that  *)
(* place from the encoders in its first state, scan.centre, and keeps the  *)
(* direction or picker it is at in scan.index.  scan.shots is the history  *)
(* of the places whose offsets it has taken.                               *)
(***************************************************************************)
EXTENDS Load1Tasks, Integers

Shoot(index) == [scan EXCEPT !.index = index, !.shots = Append(@, latest.xy)]

\* The machine leaves the origin for a place of the scan.
LeaveForPlace(t, place) ==
  Await(t, xy.at = Home,
    /\ target' = [target EXCEPT ![t].xy = place]
    /\ Move(place)
    /\ EnterStateWithTimeout(t, "MoveFocusPositionZ") /\ Keep
    /\ UNCHANGED <<ctx, count, aligned, scan, vision, results>>)

-----------------------------------------------------------------------------
(* CLoad1PerformFOVScanningTask; direction 0 is CENTER, which it never      *)
(* photographs: the first state passes on to the first side.                *)

Sides == 4

FOVSafeZ ==
  /\ IF scan.index = 0
     THEN /\ target' = [target EXCEPT !["FOVScanning"].z = z.at]
          /\ scan' = [scan EXCEPT !.centre = xy.at, !.index = 1]
     ELSE UNCHANGED <<target, scan>>
  /\ MoveZ(0)
  /\ EnterStateWithTimeout("FOVScanning", "MoveOrigin") /\ Keep
  /\ UNCHANGED <<ctx, count, aligned, vision, results>>

\* Each position left in the list costs a picture where the machine stands and
\* another round; TR_PREV stays at the first task.
TakeFOV ==
  /\ UNCHANGED <<kind, stop, target, count, aligned>>
  /\ IF scan.index < Sides
     THEN /\ scan' = Shoot(scan.index + 1)
          /\ EnterState("FOVScanning", "MoveSafeZ") /\ Keep
          /\ UNCHANGED positions
     ELSE IF positions # <<>>
     THEN /\ positions' = Tail(positions)
          /\ scan' = Shoot(0)
          /\ EnterState("FOVScanning", "VisionRequest") /\ PrevTask
     ELSE /\ scan' = Shoot(scan.index)
          /\ EnterState("FOVScanning", "ReturnHome") /\ Keep
          /\ UNCHANGED positions

FOVScanning ==
  \/ At("FOVScanning", "MoveSafeZ") /\ FOVSafeZ
  \/ At("FOVScanning", "MoveOrigin") /\ LeaveForOrigin("FOVScanning", "MoveScanPosition")
  \/ /\ At("FOVScanning", "MoveScanPosition")
     /\ LeaveForPlace("FOVScanning", Beside(scan.centre, scan.index))
  \/ At("FOVScanning", "MoveFocusPositionZ") /\ LowerZ("FOVScanning", "VisionRequest", FALSE)
  \/ At("FOVScanning", "VisionRequest") /\ RequestAtFocus("FOVScanning")
  \/ At("FOVScanning", "VisionWait") /\ AwaitAnswer("FOVScanning", TakeFOV)
  \/ /\ At("FOVScanning", "ReturnHome")
     /\ MoveZ(0)
     /\ NextTask
     /\ UNCHANGED <<phase, deadline, ctx, memory, vision, results>>

-----------------------------------------------------------------------------
(* CLoad1PerformPickerFOVScanningTask: the centre, then the place to its     *)
(* front right.  Its time-outs are parameters that default to 0 and that no  *)
(* strategy sets: none of its states has a deadline.                         *)

UntimedPhase(s) ==
  /\ phase' = [phase EXCEPT !["PickerFOVScanning"] = s]
  /\ UNCHANGED deadline

PickerPlace == IF scan.index = 0 THEN scan.centre ELSE Beside(scan.centre, scan.index)

PickerSafeZ ==
  /\ IF scan.index = 0
     THEN /\ target' = [target EXCEPT !["PickerFOVScanning"] = [@ EXCEPT !.xy = xy.at, !.z = z.at]]
          /\ scan' = [scan EXCEPT !.centre = xy.at]
     ELSE /\ target' = [target EXCEPT !["PickerFOVScanning"].xy = PickerPlace]
          /\ UNCHANGED scan
  /\ MoveZ(0)
  /\ UntimedPhase("MoveOrigin") /\ Keep
  /\ UNCHANGED <<ctx, count, aligned, vision, results>>

\* A state that waits for an axis for as long as it takes.
PickerStep(s, there, Command, next) ==
  /\ At("PickerFOVScanning", s)
  /\ \/ there /\ Command /\ UntimedPhase(next) /\ Keep
        /\ UNCHANGED <<ctx, memory, vision, results>>
     \/ ~there /\ Stay

PickerRequest ==
  /\ SetLightState(TRUE)
  /\ latest' = NoAnswer
  /\ UNCHANGED <<ctx, memory, results>>
  /\ \/ asked' = TRUE /\ UntimedPhase("VisionWait") /\ Keep
     \/ asked' = asked /\ SetErrorAndReturn("PickerFOVScanning")

TakePicker ==
  /\ scan' = Shoot(1)
  /\ EnterState("PickerFOVScanning", IF scan.index = 0 THEN "MoveSafeZ" ELSE "SaveResult")
  /\ Keep
  /\ UNCHANGED <<ctx, target, count, aligned>>

PickerFOVScanning ==
  LET goal == target["PickerFOVScanning"]
  IN  \/ At("PickerFOVScanning", "MoveSafeZ") /\ PickerSafeZ
      \/ PickerStep("MoveOrigin", z.at = 0, Move(Home), "MoveScanPosition")
      \/ PickerStep("MoveScanPosition", xy.at = Home, Move(goal.xy), "MoveFocusPositionZ")
      \/ PickerStep("MoveFocusPositionZ", xy.at = goal.xy, MoveZ(goal.z), "VisionRequest")
      \/ /\ At("PickerFOVScanning", "VisionRequest")
         /\ IF z.at = goal.z THEN PickerRequest ELSE Stay
      \/ At("PickerFOVScanning", "VisionWait") /\ AwaitAnswer("PickerFOVScanning", TakePicker)
      \/ PickerStep("SaveResult", TRUE, UNCHANGED machine, "ReturnHome")
      \/ /\ At("PickerFOVScanning", "ReturnHome")
         /\ MoveZ(0)
         /\ NextTask
         /\ UNCHANGED <<phase, deadline, ctx, memory, vision, results>>

-----------------------------------------------------------------------------
(* CLoad1PerformHandPitchScanningTask *)

\* Bound: rows of pickers; the strategy has four.
Rows == 2

\* The first column and the last, with the pickers at narrow and at wide pitch.
PitchPoints ==
  [i \in 1..4 * Rows |->
    LET gap == IF i > 2 * Rows THEN 2 ELSE 1
    IN  [ x |-> IF (i - 1) % (2 * Rows) < Rows THEN 1 ELSE 0,
          y |-> (((i - 1) % Rows) - Rows + 1) * gap ]]

\* Whether the point after the i-th lies further left or further back.
LiesBack(i) ==
  \/ PitchPoints[i].x > PitchPoints[i + 1].x
  \/ PitchPoints[i].y > PitchPoints[i + 1].y

\* Z is sent up before its height is read as the focus height; it may be there.
PitchSafeZ ==
  \E height \in {z.at, 0} :
    /\ z' = [cmd |-> 0, at |-> height]
    /\ target' = [target EXCEPT !["HandPitchScanning"].z = height]
    /\ scan' = IF scan.started THEN scan
                               ELSE [scan EXCEPT !.started = TRUE, !.centre = xy.at]
    /\ EnterStateWithTimeout("HandPitchScanning", "MoveOrigin") /\ Keep
    /\ UNCHANGED <<ctx, count, aligned, xy, lit, vision, results>>

\* From the origin, or from the last point with Z down, to the next one.
PitchMove(there, place, next) ==
  Await("HandPitchScanning", there,
    /\ target' = [target EXCEPT !["HandPitchScanning"].xy = place]
    /\ Move(place)
    /\ EnterStateWithTimeout("HandPitchScanning", next) /\ Keep
    /\ UNCHANGED <<ctx, count, aligned, scan, vision, results>>)

TakePitch ==
  LET taken == scan.index + 1
  IN  /\ scan' = Shoot(taken)
      /\ EnterState("HandPitchScanning",
           IF taken = Len(PitchPoints) THEN "ReturnHome"
           ELSE IF LiesBack(taken) THEN "MoveSafeZ" ELSE "MoveHandPitch")
      /\ Keep
      /\ UNCHANGED <<ctx, target, count, aligned>>

HandPitchScanning ==
  LET goal == target["HandPitchScanning"]
  IN  \/ At("HandPitchScanning", "MoveSafeZ") /\ PitchSafeZ
      \/ At("HandPitchScanning", "MoveOrigin") /\ PitchMove(z.at = 0, Home, "MoveHandPitch")
      \/ /\ At("HandPitchScanning", "MoveHandPitch")
         /\ PitchMove(xy.at = goal.xy, Beside(scan.centre, scan.index + 1), "MoveFocusPositionZ")
      \/ /\ At("HandPitchScanning", "MoveFocusPositionZ")
         /\ LowerZ("HandPitchScanning", "VisionRequest", FALSE)
      \/ At("HandPitchScanning", "VisionRequest") /\ RequestAtFocus("HandPitchScanning")
      \/ At("HandPitchScanning", "VisionWait") /\ AwaitAnswer("HandPitchScanning", TakePitch)
      \/ At("HandPitchScanning", "ReturnHome") /\ RaiseZ("HandPitchScanning", "SaveHandPitchResult")
      \/ /\ At("HandPitchScanning", "SaveHandPitchResult")
         /\ NextTask
         /\ UNCHANGED <<phase, deadline, ctx, memory, machine, vision, results>>

=============================================================================
