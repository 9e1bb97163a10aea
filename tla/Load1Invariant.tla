--------------------------- MODULE Load1Invariant ---------------------------
(***************************************************************************)
(* The inductive invariant of a Load1 run, from which Load1Proofs derives  *)
(* that pictures are taken in place and that the scans compare the right   *)
(* places.                                                                 *)
(*                                                                         *)
(* Base is what all recipes have in common.  Journeys says where the axes  *)
(* have been sent, and where they have been seen, when the polled task is  *)
(* in a state: a task sends XY in one state, sees it arrive in the next,   *)
(* and asks for a picture two states later, so the fact has to be carried  *)
(* through every state between.  Answers says that a request is out only   *)
(* while the polled task waits, so that the answer in the slot is of where *)
(* the axes are now.  RecipeInv says, recipe by recipe, how the target,    *)
(* the counters and what has been measured agree with the state of the     *)
(* task, and Idle that the tasks of other recipes are where they start.    *)
(***************************************************************************)
EXTENDS Load1Run

\* The task that VatSequence::Execute polls.
Polled(t) == idx <= Len(Recipe[kind]) /\ Recipe[kind][idx] = t

-----------------------------------------------------------------------------
(* The variables keep their types and a recipe its tasks. *)

CtxOK == kind \in Kinds /\ stop \in BOOLEAN /\ positions \in Seq(Positions)

FrameOK ==
  /\ idx \in 1..(Len(Recipe[kind]) + 1)
  /\ outcome \in {"running", "true", "false"}
  /\ phase = [t \in Tasks |-> phase[t]]
  /\ deadline \in [Tasks -> {"none", "armed", "expired"}]

Targets == [loc : 0..3, xy : Places, z : 0..3]

MemoryOK ==
  /\ target \in [Tasks -> Targets]
  /\ count \in [Tasks -> 0..MaxInspections]
  /\ aligned \in Seq(Positions)
  /\ scan = [started |-> scan.started, speed |-> scan.speed, next |-> scan.next,
             first |-> scan.first, last |-> scan.last, index |-> scan.index,
             centre |-> scan.centre, shots |-> scan.shots]
  /\ scan.started \in BOOLEAN
  /\ scan.speed \in 0..Speeds /\ scan.index \in 0..8 /\ scan.shots \in Seq(Places)

MachineOK ==
  /\ z \in [cmd : 0..3, at : 0..3]
  /\ xy \in [cmd : Places, at : Places, from : Places]
  /\ lit \in BOOLEAN

VisionOK ==
  /\ asked \in BOOLEAN
  /\ latest \in [valid : BOOLEAN, garbled : BOOLEAN, xy : Places, z : 0..3]

ResultsOK ==
  /\ saved \subseteq [loc : 0..3, xy : Points] /\ taught \subseteq [loc : 0..3, xy : Points]
  /\ \A row \in saved : row.xy = <<row.loc, MaxInspections + 1>>

Typed == CtxOK /\ FrameOK /\ MemoryOK /\ MachineOK /\ VisionOK /\ ResultsOK

-----------------------------------------------------------------------------
(* What all recipes have in common. *)

\* The states in which XY is on its way to the origin, on its way to the goal of
\* the task, and there.
Homing == {"MoveTargetPositionXY", "MoveCalibrationPosXY", "MoveScanPosition"}
Approaching ==
  {"MoveTargetPositionZ", "MoveFocusPosZ", "MoveFocusPositionZ", "MoveFocusZ",
   "MoveStart", "MoveEnd", "MoveZero", "MoveHandPitch"}
There == {"CompleteMove", "VisionRequest", "VisionWait"}

\* Where the task wants its picture taken.
Goal(t) == IF t = "FocusScanning" THEN PeekVisionPosition(positions) ELSE target[t]

\* What the state of a task that is polled says of the axes.
Journey(t) ==
  /\ phase[t] \in Homing => xy.cmd = Home
  /\ phase[t] \in Approaching => xy.cmd = Goal(t).xy
  /\ phase[t] \in There \/ t = "FocusScanning" =>
       xy.cmd = Goal(t).xy /\ xy.at = Goal(t).xy
  /\ phase[t] \in There \cup {"MoveWait"} => z.cmd = Goal(t).z
  /\ phase[t] = "VisionWait" /\ t # "Backlash" => z.at = Goal(t).z
  /\ phase[t] = "VisionRequest" /\ t = "FocusScanning" => z.at = Goal(t).z

\* The task that the next poll reaches.
Underway(t) == outcome = "running" /\ Polled(t)

Journeys == \A t \in Tasks : Underway(t) => Journey(t)

\* A request is out only while the task waits, and its answer is of where the axes are.
Answers ==
  outcome = "running" =>
    /\ asked => Waiting
    /\ latest.valid => ~asked
    /\ Waiting /\ latest.valid => latest.xy = xy.at /\ (kind # "Backlash" => latest.z = z.at)

-----------------------------------------------------------------------------
(* What each recipe adds. *)

\* CLoad1MoveToStartPositionTask leads to where the task behind it begins.
Starting == {"ZFocus", "PlateJig", "UpperCamCheck", "PCD", "LowCamCheck"}

StartInv ==
  kind \in Starting /\ outcome = "running" =>
    /\ idx # 1 => phase["MoveToStart"] = "MoveSafeZ"
    /\ idx = 1 /\ phase["MoveToStart"] # "MoveSafeZ" =>
         positions # <<>> /\ target["MoveToStart"] = PeekVisionPosition(positions)
    /\ phase["Calibration"] = "CS_ERROR"

\* The states of CLoad1CommitTeachingPosTask.
CommitPhases ==
  {"LoadPickerCameraOffset", "LoadVisionPositions", "LoadHandPitchOffsets",
   "SaveTeachingPositions"}

\* The recipes with CLoad1FindAlignPosTask.
Aligning == {"PlateJig", "UpperCamCheck"}

\* The target moves by one correction with every repeat and is saved after all of them.
AlignInv ==
  kind \in Aligning /\ outcome = "running" =>
    LET t == "FindAlign"
        p == target[t].loc
    IN  /\ idx <= 2 => \A i \in 1..Len(positions) : \E q \in 1..3 : positions[i] = Position(q)
        /\ idx = 1 /\ positions # <<>> =>
             /\ phase[t] = "VisionRequest" /\ count[t] = 0
             /\ target[t] = PeekVisionPosition(positions)
        /\ idx = 2 =>
             /\ positions # <<>>
             /\ p \in 1..3 /\ target[t].z = p
             /\ phase[t] # "SaveCalibrationResult" => target[t].xy = <<p, count[t]>>
             /\ phase[t] = "SaveCalibrationResult" =>
                  count[t] = 0 /\ target[t].xy = <<p, MaxInspections + 1>>
        /\ phase["CommitTeaching"] \in CommitPhases

\* The place that is measured is the first, and after it the one a pitch further.
PCDInv ==
  kind = "PCD" =>
    LET t == "PCDScanning"
        p == IF scan.started THEN 2 ELSE 1
    IN  /\ positions = <<[Position(1) EXCEPT !.xy = <<p, 0>>]>>
        /\ target[t] = [Position(1) EXCEPT !.xy = <<p, count[t]>>]
        /\ idx = 1 => phase[t] = "VisionRequest" /\ count[t] = 0
        /\ scan.started => scan.first.at = <<1, MaxInspections>>
        /\ phase[t] \in {"CalculatePCD", "SavePCDResult"} =>
             scan.started /\ scan.last.at = <<2, MaxInspections>>

\* The focus scan has its one position until the result is saved.
FocusInv ==
  kind = "ZFocus" /\ outcome = "running" =>
    /\ idx <= 2 => positions \in {<<>>, <<Position(1)>>}
    /\ idx = 1 => phase["FocusScanning"] = "MoveDown"
    /\ idx = 2 => positions # <<>>

\* What the backlash scan measures, and from which side.
FirstSide == [at |-> ZeroPosition, from |-> StartPosition]
LastSide == [at |-> ZeroPosition, from |-> EndPosition]

\* The zero position is approached from Start, measured, approached from End.
BacklashInv ==
  kind = "Backlash" =>
    LET t == "Backlash"
        s == phase[t]
        side == IF scan.started THEN EndPosition ELSE StartPosition
    IN  /\ s \notin {"SaveBacklashResult", "CS_ERROR"} => scan.speed < Speeds
        /\ s \in {"MoveSafeZ", "MoveOrigin"} => ~scan.started /\ scan.next = "MoveOrigin"
        /\ s = "MoveStart" => ~scan.started \/ scan.next = "MoveStart"
        /\ s = "MoveEnd" => scan.started /\ scan.next = "MoveStart"
        /\ s = "MoveZero" => scan.next = "MoveStart" /\ target[t].xy = side
        /\ s \in {"MoveFocusZ", "VisionRequest", "VisionWait"} =>
             scan.next = "MoveStart" /\ target[t].xy = ZeroPosition /\ xy.from = side
        /\ scan.started \/ s \in {"CalculateBacklash", "SaveBacklashResult"} =>
             scan.first = FirstSide
        /\ s \in {"CalculateBacklash", "SaveBacklashResult"} => scan.last = LastSide

\* The place a scan on its own measures around.
Centre == <<1, 0>>

\* Where a scan that is run on its own finds the machine.
AtCentre == xy.cmd = Centre /\ xy.at = Centre

Untouched == z = [cmd |-> 1, at |-> 1] /\ AtCentre /\ scan.shots = <<>>

\* The places whose pictures a scan has taken.
Shot == {scan.shots[i] : i \in DOMAIN scan.shots}

\* Every side behind the one whose turn it is has been measured, and no other place.
FOVInv ==
  kind = "FOV" =>
    LET t == "FOVScanning"
        s == phase[t]
    IN  /\ scan.index <= Sides
        /\ s = "MoveSafeZ" /\ scan.index = 0 => Untouched
        /\ s # "MoveSafeZ" \/ scan.index # 0 => scan.centre = Centre /\ target[t].z = 1
        /\ s \in {"MoveOrigin", "MoveScanPosition", "MoveFocusPositionZ"} => scan.index # 0
        /\ s = "MoveFocusPositionZ" => target[t].xy = Beside(Centre, scan.index)
        /\ s \in {"VisionRequest", "VisionWait"} =>
             target[t].xy = Beside(Centre, IF scan.index = 0 THEN Sides ELSE scan.index)
        /\ Shot \subseteq {Beside(Centre, i) : i \in 1..Sides}
        /\ \A i \in 1..Sides :
             \/ i < scan.index
             \/ s \in {"VisionRequest", "VisionWait"} /\ scan.index = 0
             \/ s = "ReturnHome"
             => Beside(Centre, i) \in Shot

\* The centre is measured first, its neighbour in the second round.
PickerInv ==
  kind = "PickerFOV" =>
    LET t == "PickerFOVScanning"
        s == phase[t]
    IN  /\ scan.index \in {0, 1}
        /\ s = "MoveSafeZ" /\ scan.index = 0 => Untouched
        /\ s # "MoveSafeZ" \/ scan.index # 0 => scan.centre = Centre /\ target[t].z = 1
        /\ s \in {"MoveOrigin", "MoveScanPosition", "MoveFocusPositionZ", "VisionRequest",
                  "VisionWait"} =>
             target[t].xy = PickerPlace
        /\ s \notin {"SaveResult", "ReturnHome", "CS_ERROR"} =>
             scan.shots = IF scan.index = 0 THEN <<>> ELSE <<Centre>>
        /\ s \in {"SaveResult", "ReturnHome"} => scan.shots = <<Centre, Beside(Centre, 1)>>

\* One picture per picker, in order, around the centre read at the start.
PitchInv ==
  kind = "HandPitch" =>
    LET t == "HandPitchScanning"
        s == phase[t]
    IN  /\ s = "MoveSafeZ" /\ ~scan.started => AtCentre
        /\ s # "MoveSafeZ" => scan.started \/ s = "CS_ERROR"
        /\ scan.started => scan.centre = Centre
        /\ s \in {"MoveSafeZ", "MoveOrigin", "MoveHandPitch", "MoveFocusPositionZ",
                  "VisionRequest", "VisionWait"} => scan.index < 8
        /\ s \in {"ReturnHome", "SaveHandPitchResult"} => scan.index = 8
        /\ s \in {"MoveFocusPositionZ", "VisionRequest", "VisionWait"} =>
             target[t].xy = Beside(Centre, scan.index + 1)
        /\ Len(scan.shots) = scan.index
        /\ \A i \in 1..scan.index : scan.shots[i] = Beside(Centre, i)

\* A task of another recipe stays in the state it starts in.
Idle ==
  /\ kind # "PCD" => phase["PCDScanning"] = "VisionRequest"
  /\ kind # "Backlash" => phase["Backlash"] = "MoveSafeZ"
  /\ kind # "FOV" => phase["FOVScanning"] = "MoveSafeZ"
  /\ kind # "PickerFOV" => phase["PickerFOVScanning"] = "MoveSafeZ"
  /\ kind # "HandPitch" => phase["HandPitchScanning"] = "MoveSafeZ"

-----------------------------------------------------------------------------
(* The invariant. *)

Base == Typed /\ Journeys /\ Answers

RecipeInv ==
  /\ StartInv /\ AlignInv /\ PCDInv /\ FocusInv /\ BacklashInv
  /\ FOVInv /\ PickerInv /\ PitchInv

RunInv == Base /\ RecipeInv /\ Idle

=============================================================================
