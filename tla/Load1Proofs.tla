---------------------------- MODULE Load1Proofs ----------------------------
(***************************************************************************)
(* What is proved of a Load1 run, for any number of positions and repeats  *)
(* within BoundsAssumption.                                                *)
(*                                                                         *)
(* The first part shows that the lateral moves of every recipe but the     *)
(* backlash and the hand pitch scan are commanded with Z up.               *)
(* XYOnlyAtSafeZ speaks of one step; what makes it true is spread over the *)
(* steps before.  SafeMoves states it: only the task being polled can be   *)
(* between raising Z and leaving for its target, it has commanded Z up by  *)
(* then, and once it has left for the origin Z has been there.  Nothing    *)
(* commands Z in between, so it still is.                                  *)
(*                                                                         *)
(* The second part shows that RunInv of Load1Invariant is kept: one lemma  *)
(* per shared move (what it does to Base, whoever makes it), one per       *)
(* handler (what its recipe adds), one per step of the machine, the vision *)
(* system, the deadlines and whoever asks for a stop.  Types, pictures in  *)
(* place and scans that compare the right places follow from it.           *)
(***************************************************************************)
EXTENDS Load1Invariant, TLAPS, SequenceTheorems

\* The states from which a task commands XY.
Lateral == {"MoveOrigin", "MoveTargetPositionXY", "MoveCalibrationPosXY", "MoveScanPosition"}

SafeMoves ==
  \A t \in Tasks : phase[t] \in Lateral =>
    /\ Polled(t)
    /\ z.cmd = 0
    /\ phase[t] # "MoveOrigin" => z.at = 0

Shape ==
  /\ kind \in Kinds
  /\ idx \in Nat \ {0}
  /\ z = [cmd |-> z.cmd, at |-> z.at]
  /\ phase = [t \in Tasks |-> phase[t]]

SafeInv == Shape /\ (kind \notin MovesWithZDown => SafeMoves)

\* The step a property of one step is about.
SafeStep == xy'.cmd # xy.cmd => kind \in MovesWithZDown \/ z = [cmd |-> 0, at |-> 0]

\* Only the recipes of that name hold the backlash and the hand pitch scan.
LEMMA DownAlone ==
  ASSUME NEW k \in Kinds, k \notin MovesWithZDown, NEW i \in Nat \ {0}, i <= Len(Recipe[k])
  PROVE  Recipe[k][i] \notin {"Backlash", "HandPitchScanning"}
<1>1. CASE k = "ZFocus"
  BY <1>1 DEF Recipe
<1>2. CASE k = "PlateJig"
  BY <1>2 DEF Recipe
<1>3. CASE k = "UpperCamCheck"
  BY <1>3 DEF Recipe
<1>4. CASE k = "PCD"
  BY <1>4 DEF Recipe
<1>5. CASE k = "LowCamCheck"
  BY <1>5 DEF Recipe
<1>6. CASE k = "FOV" \/ k = "PickerFOV"
  BY <1>6 DEF Recipe
<1>7. k \in {"ZFocus", "PlateJig", "UpperCamCheck", "PCD", "LowCamCheck", "FOV", "PickerFOV"}
  BY DEF Kinds, Recipe, MovesWithZDown
<1> QED BY <1>1, <1>2, <1>3, <1>4, <1>5, <1>6, <1>7

-----------------------------------------------------------------------------
(* What one poll of a task can do to Z, to XY and to the task's state. *)

\* The task goes to, or stays in, a state that commands no XY; it commands none.
Rests(t) ==
  /\ phase' = [phase EXCEPT ![t] = phase'[t]] /\ phase'[t] \notin Lateral
  /\ idx' \in Nat \ {0} /\ kind' = kind
  /\ z' = [cmd |-> z'.cmd, at |-> z'.at] /\ xy'.cmd = xy.cmd

\* The task raises Z and is about to leave for the origin.
Raises(t) ==
  /\ phase' = [phase EXCEPT ![t] = "MoveOrigin"]
  /\ idx' = idx /\ kind' = kind
  /\ z' = [z EXCEPT !.cmd = 0] /\ xy'.cmd = xy.cmd

\* The task waits.
Waits == UNCHANGED vars

\* The task, with Z up, leaves for the origin.
LeavesForOrigin(t) ==
  /\ phase[t] = "MoveOrigin" /\ z.at = 0
  /\ \E s \in Lateral \ {"MoveOrigin"} : phase' = [phase EXCEPT ![t] = s]
  /\ idx' = idx /\ kind' = kind /\ z' = z

\* The task leaves for its target and goes to a state that commands no XY.
LeavesForTarget(t) ==
  /\ phase[t] \in Lateral \ {"MoveOrigin"}
  /\ phase' = [phase EXCEPT ![t] = phase'[t]] /\ phase'[t] \notin Lateral
  /\ idx' = idx /\ kind' = kind /\ z' = z

Does(t) ==
  Rests(t) \/ Raises(t) \/ Waits \/ LeavesForOrigin(t) \/ LeavesForTarget(t)

\* Whatever of these the polled task does, the invariant and the step are safe.
LEMMA DoesSafely ==
  ASSUME SafeInv, kind \notin MovesWithZDown, NEW t \in Tasks, Polled(t), Does(t)
  PROVE  SafeInv' /\ SafeStep
<1>1. CASE Rests(t)
  BY <1>1 DEF Rests, SafeInv, Shape, SafeMoves, Polled, SafeStep
<1>2. CASE Raises(t)
  BY <1>2 DEF Raises, SafeInv, Shape, SafeMoves, Polled, SafeStep, Lateral
<1>3. CASE Waits
  BY <1>3 DEF Waits, vars, ctx, frame, machine, SafeInv, Shape, SafeMoves, Polled, SafeStep
<1>4. CASE LeavesForOrigin(t)
  BY <1>4 DEF LeavesForOrigin, SafeInv, Shape, SafeMoves, Polled, SafeStep, Lateral
<1>5. CASE LeavesForTarget(t)
  BY <1>5 DEF LeavesForTarget, SafeInv, Shape, SafeMoves, Polled, SafeStep, Lateral
<1> QED BY <1>1, <1>2, <1>3, <1>4, <1>5 DEF Does

-----------------------------------------------------------------------------
(* The handlers. *)

\* A handler that fails goes to CS_ERROR and leaves the axes alone.
LEMMA FailRests ==
  ASSUME SafeInv, NEW t \in Tasks, Fail(t)
  PROVE  Rests(t)
BY DEF Fail, SetErrorAndReturn, EnterState, Rests, SafeInv, Shape, Lateral, ctx, machine

\* A task that passes on to the next one keeps its state.
LEMMA NextRests ==
  ASSUME SafeInv, NEW t \in Tasks, phase[t] \notin Lateral, NextTask,
         UNCHANGED <<phase, ctx, machine>>
  PROVE  Rests(t)
<1>1. phase' = [phase EXCEPT ![t] = phase'[t]] /\ phase'[t] \notin Lateral
  BY DEF SafeInv, Shape
<1>2. idx' \in Nat \ {0} /\ kind' = kind
  BY DEF NextTask, ctx, SafeInv, Shape
<1>3. z' = [cmd |-> z'.cmd, at |-> z'.at] /\ xy'.cmd = xy.cmd
  BY DEF machine, SafeInv, Shape
<1> QED BY <1>1, <1>2, <1>3 DEF Rests

\* RaiseZ raises Z, or rests when the state it enters commands no XY.
LEMMA RaiseZDoes ==
  ASSUME SafeInv, NEW t \in Tasks, NEW s, s = "MoveOrigin" \/ s \notin Lateral, RaiseZ(t, s)
  PROVE  Does(t)
<1>1. CASE s = "MoveOrigin"
  BY <1>1 DEF RaiseZ, MoveZ, EnterStateWithTimeout, Keep, ctx, Raises, Does
<1>2. CASE s \notin Lateral
  BY <1>2 DEF RaiseZ, MoveZ, EnterStateWithTimeout, Keep, ctx, Rests, Does, SafeInv, Shape
<1> QED BY <1>1, <1>2

\* LeaveForOrigin leaves with Z up, waits, or fails at its deadline.
LEMMA LeaveForOriginDoes ==
  ASSUME SafeInv, NEW t \in Tasks, phase[t] = "MoveOrigin",
         NEW s \in Lateral \ {"MoveOrigin"}, LeaveForOrigin(t, s)
  PROVE  Does(t)
<1>1. Fail(t) => Does(t)
  BY FailRests DEF Does
<1>2. ~Fail(t) => LeavesForOrigin(t) \/ Waits
  BY DEF LeaveForOrigin, Await, Stay, Waits, LeavesForOrigin, Move, EnterStateWithTimeout,
         Keep, ctx, Lateral
<1> QED BY <1>1, <1>2 DEF Does

\* LeaveForTarget leaves, waits, or fails at its deadline.
LEMMA LeaveForTargetDoes ==
  ASSUME SafeInv, NEW t \in Tasks, phase[t] \in Lateral \ {"MoveOrigin"},
         NEW s, s \notin Lateral, NEW timed \in BOOLEAN, LeaveForTarget(t, s, timed)
  PROVE  Does(t)
<1>1. Fail(t) => Does(t)
  BY FailRests DEF Does
<1>2. ~Fail(t) => LeavesForTarget(t) \/ Waits
  BY DEF LeaveForTarget, Await, Stay, Waits, LeavesForTarget, Move, Enter, EnterState,
         EnterStateWithTimeout, Keep, ctx, SafeInv, Shape
<1> QED BY <1>1, <1>2 DEF Does

\* LowerZ commands no XY.
LEMMA LowerZDoes ==
  ASSUME SafeInv, NEW t \in Tasks, NEW s, s \notin Lateral, NEW timed \in BOOLEAN,
         LowerZ(t, s, timed)
  PROVE  Does(t)
<1>1. Fail(t) => Does(t)
  BY FailRests DEF Does
<1>2. ~Fail(t) => Rests(t) \/ Waits
  BY DEF LowerZ, Await, Stay, Waits, Rests, MoveZ, Enter, EnterState,
         EnterStateWithTimeout, Keep, ctx, SafeInv, Shape
<1> QED BY <1>1, <1>2 DEF Does

\* A measure request commands no axis.
LEMMA RequestRests ==
  ASSUME SafeInv, NEW t \in Tasks, RequestMeasure(t)
  PROVE  Rests(t)
BY DEF RequestMeasure, SetLightState, EnterStateWithTimeout, SetErrorAndReturn, EnterState,
       Keep, ctx, Rests, SafeInv, Shape, Lateral

\* CLoad1MoveToStartPositionTask, state by state.
LEMMA MoveToStartDoes ==
  ASSUME SafeInv, MoveToStart
  PROVE  Does("MoveToStart") /\ Polled("MoveToStart")
<1> DEFINE t == "MoveToStart"
<1>t. t \in Tasks
  BY DEF Tasks
<1>1. CASE Fail(t) /\ Polled(t)
  BY <1>t, <1>1, FailRests DEF Does
<1>2. ASSUME At(t, "MoveSafeZ"), ~Fail(t), MoveToStart PROVE Raises(t)
  BY <1>2 DEF At, MoveToStart, Raises, MoveZ, EnterStateWithTimeout, Keep, ctx
<1>3. CASE At(t, "MoveOrigin") /\ LeaveForOrigin(t, "MoveTargetPositionXY")
  BY <1>t, <1>3, LeaveForOriginDoes DEF At, Polled, Lateral
<1>4. CASE At(t, "MoveTargetPositionXY") /\ LeaveForTarget(t, "MoveTargetPositionZ", TRUE)
  BY <1>t, <1>4, LeaveForTargetDoes DEF At, Polled, Lateral
<1>5. CASE At(t, "MoveTargetPositionZ") /\ LowerZ(t, "CompleteMove", TRUE)
  BY <1>t, <1>5, LowerZDoes DEF At, Polled, Lateral
<1>6. ASSUME At(t, "CompleteMove"), ~Fail(t), MoveToStart PROVE Rests(t) \/ Waits
  <2>1. \/ EnterState(t, "MoveSafeZ") /\ NextTask /\ UNCHANGED <<ctx, machine>>
        \/ Waits
    BY <1>6 DEF At, MoveToStart, Await, Stay, Waits
  <2>2. EnterState(t, "MoveSafeZ") /\ NextTask /\ UNCHANGED <<ctx, machine>> => Rests(t)
    BY <1>t DEF Rests, EnterState, NextTask, ctx, machine, Lateral, SafeInv, Shape
  <2> QED BY <2>1, <2>2
<1>7. Polled(t)
  BY DEF MoveToStart, At, Polled
<1>8. CASE At(t, "MoveSafeZ") \/ At(t, "CompleteMove")
  BY <1>1, <1>2, <1>6, <1>7, <1>8 DEF Does
<1> QED BY <1>3, <1>4, <1>5, <1>8 DEF MoveToStart

\* CLoad1FindAlignPosTask, state by state; TR_PREV and TR_NEXT leave it at rest.
LEMMA FindAlignDoes ==
  ASSUME SafeInv, FindAlign
  PROVE  Does("FindAlign") /\ Polled("FindAlign")
<1> DEFINE t == "FindAlign"
<1>t. t \in Tasks
  BY DEF Tasks
<1>f. Fail(t) => Does(t)
  BY <1>t, FailRests DEF Does
<1>1. CASE At(t, "MoveSafeZ") /\ RaiseZ(t, "MoveOrigin")
  BY <1>t, <1>1, RaiseZDoes DEF At, Polled
<1>2. CASE At(t, "MoveOrigin") /\ LeaveForOrigin(t, "MoveCalibrationPosXY")
  BY <1>t, <1>2, LeaveForOriginDoes DEF At, Polled, Lateral
<1>3. CASE At(t, "MoveCalibrationPosXY") /\ LeaveForTarget(t, "MoveFocusPosZ", TRUE)
  BY <1>t, <1>3, LeaveForTargetDoes DEF At, Polled, Lateral
<1>4. CASE At(t, "MoveFocusPosZ") /\ LowerZ(t, "VisionRequest", FALSE)
  BY <1>t, <1>4, LowerZDoes DEF At, Polled, Lateral
<1>5. CASE At(t, "VisionRequest") /\ RequestAtFocus(t)
  <2>1. RequestMeasure(t) \/ Fail(t) \/ Waits
    BY <1>5 DEF RequestAtFocus, Await, Stay, Waits
  <2> QED BY <1>t, <1>f, <1>5, <2>1, RequestRests DEF At, Polled, Does
<1>6. CASE At(t, "VisionWait") /\ AwaitAnswer(t, TakeAlign)
  <2>1. SetLightState(FALSE) /\ TakeAlign => Rests(t)
    BY <1>t DEF SetLightState, TakeAlign, Rests, EnterState, Keep, ctx, Lateral, SafeInv, Shape
  <2> QED BY <1>f, <1>6, <2>1 DEF AwaitAnswer, Stay, Waits, Does, At, Polled
<1>7. CASE At(t, "SaveCalibrationResult") /\ SaveAlign
  <2>1. Rests(t)
    BY <1>t, <1>7 DEF At, SaveAlign, Rests, EnterStateWithTimeout, NextTask, PrevTask, machine,
                      Lateral, SafeInv, Shape
  <2> QED BY <1>7, <2>1 DEF At, Polled, Does
<1> QED BY <1>1, <1>2, <1>3, <1>4, <1>5, <1>6, <1>7 DEF FindAlign

\* CLoad1PerformFocusScanningTask, which commands no XY at all.
LEMMA FocusScanningDoes ==
  ASSUME SafeInv, FocusScanning
  PROVE  Does("FocusScanning") /\ Polled("FocusScanning")
<1> DEFINE t == "FocusScanning"
<1>t. t \in Tasks
  BY DEF Tasks
<1>f. Fail(t) => Does(t)
  BY <1>t, FailRests DEF Does
<1>1. CASE At(t, "MoveDown") /\ (Fail(t) \/ FocusDown)
  <2>1. FocusDown => Rests(t)
    BY <1>t DEF FocusDown, MoveZ, EnterStateWithTimeout, Keep, ctx, Rests, Lateral, SafeInv, Shape
  <2> QED BY <1>f, <1>1, <2>1 DEF At, Polled, Does
<1>2. CASE At(t, "MoveWait") /\ FocusScanning
  <2>1. Fail(t) \/ Waits \/ Rests(t)
    BY <1>t, <1>2 DEF At, FocusScanning, Await, Stay, Waits, EnterStateWithTimeout, Keep, ctx,
                      machine, Rests, Lateral, SafeInv, Shape
  <2> QED BY <1>f, <1>2, <2>1 DEF At, Polled, Does
<1>3. CASE At(t, "VisionRequest") /\ RequestMeasure(t)
  BY <1>t, <1>3, RequestRests DEF At, Polled, Does
<1>4. CASE At(t, "VisionWait") /\ FocusScanning
  <2>1. Fail(t) \/ Waits \/ Rests(t)
    BY <1>t, <1>4 DEF At, FocusScanning, Await, Stay, Waits, EnterState, Keep, ctx,
                      SetLightState, Rests, Lateral, SafeInv, Shape
  <2> QED BY <1>f, <1>4, <2>1 DEF At, Polled, Does
<1>5. CASE At(t, "ReturnHome") /\ RaiseZ(t, "SaveFocusResult")
  BY <1>t, <1>5, RaiseZDoes DEF At, Polled, Lateral
<1>6. CASE At(t, "SaveFocusResult") /\ SaveFocus
  <2>1. Rests(t)
    BY <1>t, <1>6 DEF At, SaveFocus, SetErrorAndReturn, EnterState, NextTask, PrevTask, machine,
                      Rests, Lateral, SafeInv, Shape
  <2> QED BY <1>6, <2>1 DEF At, Polled, Does
<1> QED BY <1>1, <1>2, <1>3, <1>4, <1>5, <1>6 DEF FocusScanning

\* CLoad1PerformPCDScanningTask, state by state.
LEMMA PCDScanningDoes ==
  ASSUME SafeInv, PCDScanning
  PROVE  Does("PCDScanning") /\ Polled("PCDScanning")
<1> DEFINE t == "PCDScanning"
<1>t. t \in Tasks
  BY DEF Tasks
<1>f. Fail(t) => Does(t)
  BY <1>t, FailRests DEF Does
<1>1. CASE At(t, "MoveSafeZ") /\ RaiseZ(t, "MoveOrigin")
  BY <1>t, <1>1, RaiseZDoes DEF At, Polled
<1>2. CASE At(t, "MoveOrigin") /\ LeaveForOrigin(t, "MoveTargetPositionXY")
  BY <1>t, <1>2, LeaveForOriginDoes DEF At, Polled, Lateral
<1>3. CASE At(t, "MoveTargetPositionXY") /\ LeaveForTarget(t, "MoveFocusPositionZ", FALSE)
  BY <1>t, <1>3, LeaveForTargetDoes DEF At, Polled, Lateral
<1>4. CASE At(t, "MoveFocusPositionZ") /\ LowerZ(t, "VisionRequest", FALSE)
  BY <1>t, <1>4, LowerZDoes DEF At, Polled, Lateral
<1>5. CASE At(t, "VisionRequest") /\ RequestAtFocus(t)
  <2>1. RequestMeasure(t) \/ Fail(t) \/ Waits
    BY <1>5 DEF RequestAtFocus, Await, Stay, Waits
  <2> QED BY <1>t, <1>f, <1>5, <2>1, RequestRests DEF At, Polled, Does
<1>6. CASE At(t, "VisionWait") /\ AwaitAnswer(t, TakePCD)
  <2>1. SetLightState(FALSE) /\ TakePCD => Rests(t)
    BY <1>t DEF SetLightState, TakePCD, MeasurePulse, Rests, EnterState, Keep, PrevTask, ctx,
                Lateral, SafeInv, Shape
  <2> QED BY <1>f, <1>6, <2>1 DEF AwaitAnswer, Stay, Waits, Does, At, Polled
<1>7. CASE At(t, "CalculatePCD") /\ PCDScanning
  <2>1. EnterState(t, "SavePCDResult") /\ Keep /\ UNCHANGED <<ctx, machine>>
    BY <1>7 DEF At, PCDScanning
  <2>2. Rests(t)
    BY <1>t, <2>1 DEF Rests, EnterState, Keep, ctx, machine, Lateral, SafeInv, Shape
  <2> QED BY <1>7, <2>2 DEF At, Polled, Does
<1>8. CASE At(t, "SavePCDResult") /\ PCDScanning
  <2>1. NextTask /\ UNCHANGED <<phase, ctx, machine>>
    BY <1>8 DEF At, PCDScanning
  <2>2. Rests(t)
    BY <1>8, <1>t, <2>1, NextRests DEF At, Lateral
  <2> QED BY <1>8, <2>2 DEF At, Polled, Does
<1> QED BY <1>1, <1>2, <1>3, <1>4, <1>5, <1>6, <1>7, <1>8 DEF PCDScanning

\* CLoad1CommitTeachingPosTask moves nothing.
LEMMA CommitTeachingDoes ==
  ASSUME SafeInv, CommitTeaching
  PROVE  Does("CommitTeaching") /\ Polled("CommitTeaching")
<1> DEFINE t == "CommitTeaching"
<1>t. t \in Tasks
  BY DEF Tasks
<1>1. Polled(t)
  BY DEF CommitTeaching, LoadFrom, At, Polled
<1>2. Rests(t)
  BY <1>t DEF CommitTeaching, LoadFrom, At, SaveTeachingPositions, SetErrorAndReturn, EnterState,
              Keep, NextTask, ctx, machine, Rests, Lateral, SafeInv, Shape
<1> QED BY <1>1, <1>2 DEF Does

\* CLoad1PerformCalibrationTask only answers its error.
LEMMA CalibrationDoes ==
  ASSUME SafeInv, Calibration
  PROVE  Does("Calibration") /\ Polled("Calibration")
<1>1. Rests("Calibration")
  BY DEF Calibration, At, ctx, machine, Rests, Lateral, SafeInv, Shape
<1> QED BY <1>1 DEF Calibration, At, Polled, Does

\* CLoad1PerformFOVScanningTask, state by state.
LEMMA FOVScanningDoes ==
  ASSUME SafeInv, FOVScanning
  PROVE  Does("FOVScanning") /\ Polled("FOVScanning")
<1> DEFINE t == "FOVScanning"
<1>t. t \in Tasks
  BY DEF Tasks
<1>f. Fail(t) => Does(t)
  BY <1>t, FailRests DEF Does
<1>1. CASE At(t, "MoveSafeZ") /\ FOVSafeZ
  BY <1>1 DEF FOVSafeZ, MoveZ, EnterStateWithTimeout, Keep, ctx, Raises, Does, At, Polled
<1>2. CASE At(t, "MoveOrigin") /\ LeaveForOrigin(t, "MoveScanPosition")
  BY <1>t, <1>2, LeaveForOriginDoes DEF At, Polled, Lateral
<1>3. CASE /\ At(t, "MoveScanPosition")
           /\ LeaveForPlace(t, Beside(scan.centre, scan.index))
  <2>1. Fail(t) \/ Waits \/ LeavesForTarget(t)
    BY <1>t, <1>3 DEF At, LeaveForPlace, Await, Stay, Waits, LeavesForTarget, Move,
                      EnterStateWithTimeout, Keep, ctx, Lateral, SafeInv, Shape
  <2> QED BY <1>f, <1>3, <2>1 DEF At, Polled, Does
<1>4. CASE At(t, "MoveFocusPositionZ") /\ LowerZ(t, "VisionRequest", FALSE)
  BY <1>t, <1>4, LowerZDoes DEF At, Polled, Lateral
<1>5. CASE At(t, "VisionRequest") /\ RequestAtFocus(t)
  <2>1. RequestMeasure(t) \/ Fail(t) \/ Waits
    BY <1>5 DEF RequestAtFocus, Await, Stay, Waits
  <2> QED BY <1>t, <1>f, <1>5, <2>1, RequestRests DEF At, Polled, Does
<1>6. CASE At(t, "VisionWait") /\ AwaitAnswer(t, TakeFOV)
  <2>1. SetLightState(FALSE) /\ TakeFOV => Rests(t)
    BY <1>t DEF SetLightState, TakeFOV, Rests, EnterState, Keep, PrevTask, Lateral, SafeInv, Shape
  <2> QED BY <1>f, <1>6, <2>1 DEF AwaitAnswer, Stay, Waits, Does, At, Polled
<1>7. CASE At(t, "ReturnHome") /\ MoveZ(0) /\ NextTask /\ UNCHANGED <<phase, ctx>>
  <2>1. phase' = [phase EXCEPT ![t] = phase'[t]] /\ phase'[t] \notin Lateral
    BY <1>7 DEF At, Lateral, SafeInv, Shape
  <2> QED BY <1>7, <2>1 DEF At, Polled, MoveZ, NextTask, ctx, Rests, Does, SafeInv, Shape
<1> QED BY <1>1, <1>2, <1>3, <1>4, <1>5, <1>6, <1>7 DEF FOVScanning

\* CLoad1PerformPickerFOVScanningTask, state by state.
LEMMA PickerFOVScanningDoes ==
  ASSUME SafeInv, PickerFOVScanning
  PROVE  Does("PickerFOVScanning") /\ Polled("PickerFOVScanning")
<1> DEFINE t == "PickerFOVScanning"
           goal == target[t]
<1>t. t \in Tasks
  BY DEF Tasks
<1>f. Fail(t) => Does(t)
  BY <1>t, FailRests DEF Does
<1> USE DEF At, Polled, Does
<1>1. CASE At(t, "MoveSafeZ") /\ PickerSafeZ
  BY <1>1 DEF PickerSafeZ, MoveZ, UntimedPhase, Keep, ctx, Raises
<1>2. CASE PickerStep("MoveOrigin", z.at = 0, Move(Home), "MoveScanPosition")
  BY <1>2 DEF PickerStep, Stay, Waits, Move, UntimedPhase, Keep, ctx, LeavesForOrigin, Lateral
<1>3. CASE PickerStep("MoveScanPosition", xy.at = Home, Move(goal.xy), "MoveFocusPositionZ")
  BY <1>t, <1>3 DEF PickerStep, Stay, Waits, Move, UntimedPhase, Keep, ctx, LeavesForTarget,
                    Lateral, SafeInv, Shape
<1>4. CASE PickerStep("MoveFocusPositionZ", xy.at = goal.xy, MoveZ(goal.z), "VisionRequest")
  BY <1>t, <1>4 DEF PickerStep, Stay, Waits, MoveZ, UntimedPhase, Keep, ctx, Rests, Lateral,
                    SafeInv, Shape
<1>5. CASE At(t, "VisionRequest") /\ (PickerRequest \/ Stay)
  <2>1. PickerRequest => Rests(t)
    BY <1>t DEF PickerRequest, SetLightState, UntimedPhase, SetErrorAndReturn, EnterState, Keep,
                ctx, Rests, Lateral, SafeInv, Shape
  <2> QED BY <1>5, <2>1 DEF Stay, Waits
<1>6. CASE At(t, "VisionWait") /\ AwaitAnswer(t, TakePicker)
  <2>1. SetLightState(FALSE) /\ TakePicker => Rests(t)
    BY <1>t DEF SetLightState, TakePicker, Rests, EnterState, Keep, ctx, Lateral, SafeInv, Shape
  <2> QED BY <1>f, <1>6, <2>1 DEF AwaitAnswer, Stay, Waits
<1>7. CASE PickerStep("SaveResult", TRUE, UNCHANGED machine, "ReturnHome")
  BY <1>t, <1>7 DEF PickerStep, UntimedPhase, Keep, ctx, machine, Rests, Lateral, SafeInv, Shape
<1>8. CASE At(t, "ReturnHome") /\ MoveZ(0) /\ NextTask /\ UNCHANGED <<phase, ctx>>
  <2>1. phase' = [phase EXCEPT ![t] = phase'[t]] /\ phase'[t] \notin Lateral
    BY <1>8 DEF Lateral, SafeInv, Shape
  <2> QED BY <1>8, <2>1 DEF MoveZ, NextTask, ctx, Rests, SafeInv, Shape
<1>9. At(t, "VisionRequest") /\ (IF z.at = goal.z THEN PickerRequest ELSE Stay)
        => At(t, "VisionRequest") /\ (PickerRequest \/ Stay)
  OBVIOUS
<1> QED BY <1>1, <1>2, <1>3, <1>4, <1>5, <1>6, <1>7, <1>8, <1>9 DEF PickerFOVScanning

-----------------------------------------------------------------------------
(* The invariant and the theorem. *)

\* No task starts in a state that commands XY.
LEMMA InitSafe == Init => SafeInv
<1> SUFFICES ASSUME Init PROVE SafeInv
  OBVIOUS
<1>1. Shape
  BY DEF Init, Shape
<1>2. \A t \in Tasks : phase[t] \notin Lateral
  BY DEF Init, InitialPhase, Tasks, Lateral
<1> QED BY <1>1, <1>2 DEF SafeInv, SafeMoves

\* A poll of any recipe but the two of MovesWithZDown is safe.
LEMMA PollsSafely ==
  ASSUME SafeInv, kind \notin MovesWithZDown, Polls
  PROVE  SafeInv' /\ SafeStep
<1>1. ~Backlash /\ ~HandPitchScanning
  <2>1. Backlash => Polled("Backlash")
    BY DEF Backlash, At, Polled
  <2>2. HandPitchScanning => Polled("HandPitchScanning")
    BY DEF HandPitchScanning, At, Polled
  <2> QED BY <2>1, <2>2, DownAlone DEF Polled, SafeInv, Shape
<1>2. \E t \in Tasks : Does(t) /\ Polled(t)
  BY <1>1, MoveToStartDoes, FindAlignDoes, FocusScanningDoes, PCDScanningDoes,
     CommitTeachingDoes, CalibrationDoes, FOVScanningDoes, PickerFOVScanningDoes
  DEF Polls, Tasks
<1> QED BY <1>2, DoesSafely

\* The backlash scan keeps the shape of the state, which is all its recipe needs.
LEMMA BacklashKeepsShape ==
  ASSUME Shape, Backlash
  PROVE  Shape' /\ kind' = kind
<1> DEFINE t == "Backlash"
<1> USE DEF Shape, ctx, machine
<1>f. Fail(t) \/ Stay => Shape' /\ kind' = kind
  BY DEF Fail, SetErrorAndReturn, EnterState, Stay, vars, frame
<1>1. ASSUME NEW s, RaiseZ(t, s) PROVE Shape' /\ kind' = kind
  BY <1>1 DEF RaiseZ, MoveZ, EnterStateWithTimeout, Keep
<1>2. CASE BacklashOrigin
  BY <1>f, <1>2 DEF BacklashOrigin, Await, Move, EnterStateWithTimeout, Keep
<1>3. ASSUME NEW to, NEW next, NEW after, Step(to, next, after) PROVE Shape' /\ kind' = kind
  BY <1>f, <1>3 DEF Step, Await, Move, EnterStateWithTimeout, Keep
<1>4. ASSUME NEW s, LowerZ(t, s, TRUE) PROVE Shape' /\ kind' = kind
  BY <1>f, <1>4 DEF LowerZ, Await, MoveZ, Enter, EnterStateWithTimeout, Keep
<1>5. CASE BacklashRequest
  BY <1>f, <1>5 DEF BacklashRequest, RequestMeasure, SetLightState, EnterStateWithTimeout,
                    SetErrorAndReturn, EnterState, Keep
<1>6. CASE AwaitAnswer(t, TakeBacklash)
  BY <1>f, <1>6 DEF AwaitAnswer, SetLightState, TakeBacklash, EnterState,
                    EnterStateWithTimeout, Keep
<1>7. CASE CalculateBacklash
  BY <1>7 DEF CalculateBacklash, EnterState, EnterStateWithTimeout, Keep
<1>8. CASE NextTask /\ UNCHANGED <<phase, ctx, machine>>
  BY <1>8 DEF NextTask
<1> QED BY <1>1, <1>2, <1>3, <1>4, <1>5, <1>6, <1>7, <1>8 DEF Backlash

\* So does the hand pitch scan.
LEMMA HandPitchKeepsShape ==
  ASSUME Shape, HandPitchScanning
  PROVE  Shape' /\ kind' = kind
<1> DEFINE t == "HandPitchScanning"
<1> USE DEF Shape, ctx, machine
<1>f. Fail(t) \/ Stay => Shape' /\ kind' = kind
  BY DEF Fail, SetErrorAndReturn, EnterState, Stay, vars, frame
<1>1. CASE PitchSafeZ
  BY <1>1 DEF PitchSafeZ, EnterStateWithTimeout, Keep
<1>2. ASSUME NEW there, NEW place, NEW next, PitchMove(there, place, next)
      PROVE  Shape' /\ kind' = kind
  BY <1>f, <1>2 DEF PitchMove, Await, Move, EnterStateWithTimeout, Keep
<1>3. ASSUME NEW s, LowerZ(t, s, FALSE) PROVE Shape' /\ kind' = kind
  BY <1>f, <1>3 DEF LowerZ, Await, MoveZ, Enter, EnterState, Keep
<1>4. CASE RequestAtFocus(t)
  BY <1>f, <1>4 DEF RequestAtFocus, Await, RequestMeasure, SetLightState,
                    EnterStateWithTimeout, SetErrorAndReturn, EnterState, Keep
<1>5. CASE AwaitAnswer(t, TakePitch)
  BY <1>f, <1>5 DEF AwaitAnswer, SetLightState, TakePitch, EnterState, Keep
<1>6. ASSUME NEW s, RaiseZ(t, s) PROVE Shape' /\ kind' = kind
  BY <1>6 DEF RaiseZ, MoveZ, EnterStateWithTimeout, Keep
<1>7. CASE NextTask /\ UNCHANGED <<phase, ctx, machine>>
  BY <1>7 DEF NextTask
<1> QED BY <1>1, <1>2, <1>3, <1>4, <1>5, <1>6, <1>7 DEF HandPitchScanning

\* So does every poll, and none changes the recipe.
LEMMA PollsKeepShape ==
  ASSUME SafeInv, Polls
  PROVE  Shape' /\ kind' = kind
<1>1. ASSUME NEW t \in Tasks, Does(t) PROVE Shape' /\ kind' = kind
  BY <1>1 DEF Does, Rests, Raises, Waits, LeavesForOrigin, LeavesForTarget, vars, ctx, frame,
              machine, SafeInv, Shape
<1>2. CASE Backlash \/ HandPitchScanning
  BY <1>2, BacklashKeepsShape, HandPitchKeepsShape DEF SafeInv
<1>3. CASE ~Backlash /\ ~HandPitchScanning
  BY <1>1, <1>3, MoveToStartDoes, FindAlignDoes, FocusScanningDoes, PCDScanningDoes,
     CommitTeachingDoes, CalibrationDoes, FOVScanningDoes, PickerFOVScanningDoes
  DEF Polls, Tasks
<1> QED BY <1>2, <1>3

\* Every step keeps the invariant and is safe.
LEMMA SafeInvStep ==
  ASSUME SafeInv, [Next]_vars
  PROVE  SafeInv' /\ SafeStep
<1>1. CASE kind \in MovesWithZDown /\ Polls
  BY <1>1, PollsKeepShape DEF SafeInv, SafeStep
<1>2. CASE kind \notin MovesWithZDown /\ Polls
  BY <1>2, PollsSafely
<1>3. CASE Ends \/ SetStopRequested \/ XYArrives \/ VisionAnswers
              \/ (\E t \in Tasks : DeadlinePasses(t))
  <2>1. UNCHANGED <<kind, idx, phase, z>> /\ xy'.cmd = xy.cmd
    BY <1>3 DEF Ends, SetStopRequested, XYArrives, VisionAnswers, DeadlinePasses, ctx, frame,
                machine
  <2> QED BY <2>1 DEF SafeInv, Shape, SafeMoves, Polled, SafeStep
<1>4. CASE ZArrives
  BY <1>4 DEF SafeInv, Shape, SafeMoves, Polled, SafeStep, ZArrives, ctx, frame
<1>5. CASE UNCHANGED vars
  <2>1. UNCHANGED <<kind, idx, phase, z, xy>>
    BY <1>5 DEF vars, ctx, frame, machine
  <2> QED BY <2>1 DEF SafeInv, Shape, SafeMoves, Polled, SafeStep
<1> QED BY <1>1, <1>2, <1>3, <1>4, <1>5 DEF Next, Execute

\* XY is commanded only while Z is up and stays there (VatAdapterLoad1::Move as
\* the tasks of every recipe but the two of MovesWithZDown use it).
THEOREM XYOnlyWhileZIsUp == Spec => XYOnlyAtSafeZ
<1>1. SafeInv /\ [Next]_vars =>
        [xy'.cmd # xy.cmd => kind \in MovesWithZDown \/ z = [cmd |-> 0, at |-> 0]]_vars
  BY SafeInvStep DEF SafeStep
<1>2. SafeInv /\ [Next]_vars => SafeInv'
  BY SafeInvStep
<1> QED BY <1>1, <1>2, InitSafe, PTL DEF Spec, XYOnlyAtSafeZ

-----------------------------------------------------------------------------
(* Which task is polled. *)

\* Every task but MoveToStart and FindAlign is in one recipe, and each has its place.
LEMMA RecipeEntry ==
  ASSUME NEW k \in Kinds, NEW i \in 1..Len(Recipe[k])
  PROVE  /\ Recipe[k][i] \in Tasks
         /\ Recipe[k][i] = "MoveToStart" <=> k \in Starting /\ i = 1
         /\ Recipe[k][i] = "FocusScanning" <=> k = "ZFocus" /\ i = 2
         /\ Recipe[k][i] = "FindAlign" <=> k \in Aligning /\ i = 2
         /\ Recipe[k][i] = "CommitTeaching" <=> k = "UpperCamCheck" /\ i = 3
         /\ Recipe[k][i] = "PCDScanning" <=> k = "PCD" /\ i = 2
         /\ Recipe[k][i] = "Calibration" <=> k = "LowCamCheck" /\ i = 2
         /\ Recipe[k][i] = "Backlash" <=> k = "Backlash"
         /\ Recipe[k][i] = "FOVScanning" <=> k = "FOV"
         /\ Recipe[k][i] = "PickerFOVScanning" <=> k = "PickerFOV"
         /\ Recipe[k][i] = "HandPitchScanning" <=> k = "HandPitch"
<1> USE DEF Recipe, Starting, Aligning, Tasks
<1>1. CASE k = "ZFocus"
  BY <1>1
<1>2. CASE k = "PlateJig"
  BY <1>2
<1>3. CASE k = "UpperCamCheck"
  BY <1>3
<1>4. CASE k = "PCD"
  BY <1>4
<1>5. CASE k = "LowCamCheck"
  BY <1>5
<1>6. CASE k \in {"Backlash", "FOV", "PickerFOV", "HandPitch"}
  BY <1>6
<1> QED BY <1>1, <1>2, <1>3, <1>4, <1>5, <1>6 DEF Kinds

\* How many tasks a recipe has.
LEMMA RecipeLength ==
  ASSUME NEW k \in Kinds
  PROVE  Len(Recipe[k]) =
           IF k = "UpperCamCheck" THEN 3 ELSE IF k \in Starting THEN 2 ELSE 1
<1>1. Len(Recipe["ZFocus"]) = 2
  BY DEF Recipe
<1>2. Len(Recipe["PlateJig"]) = 2
  BY DEF Recipe
<1>3. Len(Recipe["UpperCamCheck"]) = 3
  BY DEF Recipe
<1>4. Len(Recipe["PCD"]) = 2
  BY DEF Recipe
<1>5. Len(Recipe["LowCamCheck"]) = 2
  BY DEF Recipe
<1>6. k \in {"Backlash", "FOV", "PickerFOV", "HandPitch"} => Len(Recipe[k]) = 1
  BY DEF Recipe
<1>7. k \in Starting \/ k \in {"Backlash", "FOV", "PickerFOV", "HandPitch"}
  BY DEF Kinds, Recipe, Starting
<1> QED BY <1>1, <1>2, <1>3, <1>4, <1>5, <1>6, <1>7 DEF Starting

\* What the recipe says of the task that is polled.
LEMMA PolledTask ==
  ASSUME CtxOK, FrameOK, NEW t, Polled(t)
  PROVE  /\ t \in Tasks
         /\ t = "MoveToStart" <=> kind \in Starting /\ idx = 1
         /\ t = "FocusScanning" <=> kind = "ZFocus" /\ idx = 2
         /\ t = "FindAlign" <=> kind \in Aligning /\ idx = 2
         /\ t = "CommitTeaching" <=> kind = "UpperCamCheck" /\ idx = 3
         /\ t = "PCDScanning" <=> kind = "PCD" /\ idx = 2
         /\ t = "Calibration" <=> kind = "LowCamCheck" /\ idx = 2
         /\ t = "Backlash" <=> kind = "Backlash"
         /\ t = "FOVScanning" <=> kind = "FOV"
         /\ t = "PickerFOVScanning" <=> kind = "PickerFOV"
         /\ t = "HandPitchScanning" <=> kind = "HandPitch"
<1>1. kind \in Kinds /\ idx \in 1..Len(Recipe[kind])
  BY RecipeLength DEF CtxOK, FrameOK, Polled
<1> QED BY <1>1, RecipeEntry DEF Polled

\* The invariant of a recipe is that of its tasks.
LEMMA RecipeParts ==
  /\ kind' = "ZFocus" /\ StartInv' /\ FocusInv' => RecipeInv'
  /\ kind' \in Aligning /\ StartInv' /\ AlignInv' => RecipeInv'
  /\ kind' = "PCD" /\ StartInv' /\ PCDInv' => RecipeInv'
  /\ kind' = "LowCamCheck" /\ StartInv' => RecipeInv'
  /\ kind' = "Backlash" /\ BacklashInv' => RecipeInv'
  /\ kind' = "FOV" /\ FOVInv' => RecipeInv'
  /\ kind' = "PickerFOV" /\ PickerInv' => RecipeInv'
  /\ kind' = "HandPitch" /\ PitchInv' => RecipeInv'
<1> USE DEF RecipeInv, StartInv, AlignInv, PCDInv, FocusInv, BacklashInv, FOVInv, PickerInv,
            PitchInv
<1>1. kind' \in Starting => BacklashInv' /\ FOVInv' /\ PickerInv' /\ PitchInv'
  BY DEF Starting
<1>2. kind' # "ZFocus" => FocusInv'
  OBVIOUS
<1>3. kind' \notin Aligning => AlignInv'
  OBVIOUS
<1>4. kind' # "PCD" => PCDInv'
  OBVIOUS
<1>5. kind' \notin Starting => StartInv'
  OBVIOUS
<1>6. kind' # "Backlash" => BacklashInv'
  OBVIOUS
<1>7. kind' # "FOV" => FOVInv'
  OBVIOUS
<1>8. kind' # "PickerFOV" => PickerInv'
  OBVIOUS
<1>9. kind' # "HandPitch" => PitchInv'
  OBVIOUS
<1>10. RecipeInv' <=> /\ StartInv' /\ AlignInv' /\ PCDInv' /\ FocusInv' /\ BacklashInv'
                      /\ FOVInv' /\ PickerInv' /\ PitchInv'
  BY DEF RecipeInv
<1> HIDE DEF RecipeInv, StartInv, AlignInv, PCDInv, FocusInv, BacklashInv, FOVInv, PickerInv,
             PitchInv
<1> QED BY <1>1, <1>2, <1>3, <1>4, <1>5, <1>6, <1>7, <1>8, <1>9, <1>10 DEF Starting, Aligning

-----------------------------------------------------------------------------
(* Steps that the tasks share. *)

\* The points of the recipes are places.
LEMMA HomePlace == Home \in Points /\ Home \in Places
BY BoundsAssumption DEF Home, Points, Places

\* The step after which t is in state s, whatever it does to its deadline.
Goes(t, s) ==
  /\ phase' = [phase EXCEPT ![t] = s]
  /\ deadline' \in [Tasks -> {"none", "armed", "expired"}]
  /\ UNCHANGED <<idx, outcome>>

\* Entering a state and keeping the task polled is to go there, timed or not.
LEMMA EnterGoes ==
  ASSUME FrameOK, NEW t \in Tasks, NEW s, Keep,
         EnterState(t, s) \/ EnterStateWithTimeout(t, s)
  PROVE  Goes(t, s)
BY DEF FrameOK, Keep, EnterState, EnterStateWithTimeout, Goes

\* A task that goes on is the one polled next.
LEMMA GoesOn ==
  ASSUME CtxOK, FrameOK, NEW t \in Tasks, Polled(t), NEW s, Goes(t, s), kind' = kind,
         Journey(t)'
  PROVE  FrameOK' /\ Journeys'
<1>1. FrameOK'
  BY DEF FrameOK, Goes
<1>2. Journeys'
  BY DEF Journeys, Underway, Polled, Goes
<1> QED BY <1>1, <1>2

\* No request is out while the polled task does not wait for an answer.
LEMMA NotAsked ==
  ASSUME Base, outcome = "running", NEW t, Polled(t), phase[t] # "VisionWait"
  PROVE  asked = FALSE
BY DEF Base, Typed, VisionOK, Answers, Waiting, Polled

\* Nor afterwards, if it goes to a state in which it does not wait either.
LEMMA Unasked ==
  ASSUME CtxOK, FrameOK, asked' = FALSE, kind' = kind, NEW t \in Tasks, Polled(t),
         NEW s, s # "VisionWait", Goes(t, s)
  PROVE  Answers'
<1>1. ~Waiting'
  BY DEF Waiting, Goes, Polled, FrameOK
<1> QED BY <1>1 DEF Answers

\* A step that moves no task of another recipe leaves those where they start.
LEMMA IdleKept ==
  ASSUME CtxOK, FrameOK, Idle, kind' = kind, NEW t, Polled(t), NEW s,
         phase' = [phase EXCEPT ![t] = s]
  PROVE  Idle'
BY PolledTask DEF Idle, FrameOK, Tasks

\* What a shared move leaves alone.
Took(t, s) == Goes(t, s) /\ UNCHANGED <<ctx, memory, results>>

\* The states that say where an axis is or was sent.
Travelling == Homing \cup Approaching \cup There \cup {"MoveWait"}

\* Raising Z leaves the invariant to what the recipe says of the state entered.
LEMMA RaiseZMoves ==
  ASSUME Base, outcome = "running", NEW t \in Tasks, Polled(t), phase[t] # "VisionWait",
         NEW s, s \notin Travelling, RaiseZ(t, s)
  PROVE  Base' /\ Took(t, s) /\ xy' = xy
<1> USE DEF Base, Typed
<1>1. Goes(t, s) /\ UNCHANGED <<ctx, memory, vision, results, xy, lit>> /\ z' = [z EXCEPT !.cmd = 0]
  BY EnterGoes DEF RaiseZ, MoveZ
<1>2. Journey(t)'
  BY <1>1 DEF Journeys, Underway, Journey, Goal, Travelling, Homing, Approaching, There, ctx,
              FrameOK, Goes
<1>3. Journeys' /\ FrameOK'
  BY <1>1, <1>2, GoesOn DEF ctx
<1>4. Answers'
  BY <1>1, NotAsked, Unasked DEF vision, ctx, Travelling, There
<1>5. CtxOK' /\ MemoryOK' /\ MachineOK' /\ VisionOK' /\ ResultsOK'
  BY <1>1 DEF CtxOK, MemoryOK, MachineOK, VisionOK, ResultsOK, ctx, memory, vision, results
<1> QED BY <1>1, <1>3, <1>4, <1>5 DEF Took

\* So does leaving for the origin, once Z is up,
LEMMA LeaveForOriginMoves ==
  ASSUME Base, outcome = "running", NEW t \in Tasks, t # "FocusScanning", Polled(t),
         phase[t] # "VisionWait", NEW s \in Homing, LeaveForOrigin(t, s)
  PROVE  Fail(t) \/ Stay \/ (Base' /\ Took(t, s))
<1> USE DEF Base, Typed
<1> SUFFICES ASSUME ~Fail(t), ~Stay PROVE Base' /\ Took(t, s)
  OBVIOUS
<1>1. /\ Goes(t, s) /\ UNCHANGED <<ctx, memory, vision, results, z, lit>>
      /\ xy' = [cmd |-> Home, at |-> xy.at, from |-> xy.at]
  BY EnterGoes DEF LeaveForOrigin, Await, Move
<1>2. Journey(t)'
  BY <1>1 DEF Journey, Goal, Homing, Approaching, There, FrameOK, Goes
<1>3. Journeys' /\ FrameOK'
  BY <1>1, <1>2, GoesOn DEF ctx
<1>4. Answers'
  BY <1>1, NotAsked, Unasked DEF vision, ctx, Homing
<1>5. CtxOK' /\ MemoryOK' /\ VisionOK' /\ ResultsOK'
  BY <1>1 DEF CtxOK, MemoryOK, VisionOK, ResultsOK, ctx, memory, vision, results
<1>6. MachineOK'
  BY <1>1, HomePlace DEF MachineOK
<1> QED BY <1>1, <1>3, <1>4, <1>5, <1>6 DEF Took

\* leaving the origin for the target,
LEMMA LeaveForTargetMoves ==
  ASSUME Base, outcome = "running", NEW t \in Tasks, t # "FocusScanning", Polled(t),
         phase[t] # "VisionWait", NEW s \in Approaching, NEW timed \in BOOLEAN,
         LeaveForTarget(t, s, timed)
  PROVE  Fail(t) \/ Stay \/ (Base' /\ Took(t, s))
<1> USE DEF Base, Typed
<1> SUFFICES ASSUME ~Fail(t), ~Stay PROVE Base' /\ Took(t, s)
  OBVIOUS
<1>1. /\ Goes(t, s) /\ UNCHANGED <<ctx, memory, vision, results, z, lit>>
      /\ xy' = [cmd |-> target[t].xy, at |-> xy.at, from |-> xy.at]
  BY EnterGoes DEF LeaveForTarget, Await, Move, Enter
<1>2. Journey(t)'
  BY <1>1 DEF Journey, Goal, Homing, Approaching, There, FrameOK, Goes, memory
<1>3. Journeys' /\ FrameOK'
  BY <1>1, <1>2, GoesOn DEF ctx
<1>4. Answers'
  BY <1>1, NotAsked, Unasked DEF vision, ctx, Approaching
<1>5. CtxOK' /\ MemoryOK' /\ VisionOK' /\ ResultsOK'
  BY <1>1 DEF CtxOK, MemoryOK, VisionOK, ResultsOK, ctx, memory, vision, results
<1>6. MachineOK'
  BY <1>1 DEF MachineOK, MemoryOK, Targets
<1> QED BY <1>1, <1>3, <1>4, <1>5, <1>6 DEF Took

\* and lowering Z at the target, where XY has arrived.
LEMMA LowerZMoves ==
  ASSUME Base, outcome = "running", NEW t \in Tasks, t # "FocusScanning", Polled(t),
         phase[t] \in Approaching, NEW s \in {"CompleteMove", "VisionRequest"},
         NEW timed \in BOOLEAN,
         LowerZ(t, s, timed)
  PROVE  Fail(t) \/ Stay \/ (Base' /\ Took(t, s) /\ xy' = xy)
<1> USE DEF Base, Typed
<1> SUFFICES ASSUME ~Fail(t), ~Stay PROVE Base' /\ Took(t, s) /\ xy' = xy
  OBVIOUS
<1>1. /\ Goes(t, s) /\ UNCHANGED <<ctx, memory, vision, results, xy, lit>>
      /\ z' = [z EXCEPT !.cmd = target[t].z] /\ xy.at = target[t].xy
  BY EnterGoes DEF LowerZ, Await, MoveZ, Enter
<1>2. Journey(t)'
  BY <1>1 DEF Journeys, Underway, Journey, Goal, Homing, Approaching, There, FrameOK, Goes, memory,
              MachineOK
<1>3. Journeys' /\ FrameOK'
  BY <1>1, <1>2, GoesOn DEF ctx
<1>4. Answers'
  BY <1>1, NotAsked, Unasked DEF vision, ctx, Approaching
<1>5. CtxOK' /\ MemoryOK' /\ VisionOK' /\ ResultsOK'
  BY <1>1 DEF CtxOK, MemoryOK, VisionOK, ResultsOK, ctx, memory, vision, results
<1>6. MachineOK'
  BY <1>1 DEF MachineOK, MemoryOK, Targets
<1> QED BY <1>1, <1>3, <1>4, <1>5, <1>6 DEF Took

\* An error of a task that leaves the axes alone.
Errs(t) ==
  /\ SetErrorAndReturn(t)
  /\ UNCHANGED <<ctx, memory, results, z, xy>>
  /\ lit' \in BOOLEAN
  /\ VisionOK'

\* A handler that fails does nothing but err.
LEMMA FailErrs ==
  ASSUME Base, NEW t, Fail(t)
  PROVE  Errs(t)
BY DEF Fail, Errs, Base, Typed, MachineOK, VisionOK, machine, vision

\* A request is made where the goal is, and clears the slot.
LEMMA RequestMoves ==
  ASSUME Base, outcome = "running", NEW t \in Tasks, Polled(t), phase[t] = "VisionRequest",
         t # "Backlash" => z.at = Goal(t).z, RequestMeasure(t)
  PROVE  Errs(t) \/ (Base' /\ Took(t, "VisionWait") /\ xy' = xy)
<1> USE DEF Base, Typed
<1>1. UNCHANGED <<ctx, memory, results, z, xy>> /\ lit' = TRUE /\ latest' = NoAnswer
  BY DEF RequestMeasure, SetLightState
<1>2. latest' \in [valid : BOOLEAN, garbled : BOOLEAN, xy : Places, z : 0..3] /\ ~latest'.valid
  BY <1>1, HomePlace DEF NoAnswer
<1>3. CASE asked' = asked /\ SetErrorAndReturn(t)
  BY <1>1, <1>2, <1>3 DEF Errs, VisionOK
<1>4. CASE asked' = TRUE /\ EnterStateWithTimeout(t, "VisionWait") /\ Keep
  <2>1. Goes(t, "VisionWait")
    BY <1>4, EnterGoes
  <2>2. Journey(t)'
    BY <1>1, <2>1 DEF Journeys, Underway, Journey, Goal, Homing, Approaching, There, FrameOK, Goes,
                      ctx, memory
  <2>3. Journeys' /\ FrameOK'
    BY <1>1, <2>1, <2>2, GoesOn DEF ctx
  <2>4. Answers'
    BY <1>1, <1>2, <1>4, <2>1 DEF Answers, Waiting, Goes, Polled, FrameOK, ctx
  <2>5. CtxOK' /\ MemoryOK' /\ ResultsOK'
    BY <1>1 DEF CtxOK, MemoryOK, ResultsOK, ctx, memory, results
  <2>6. MachineOK' /\ VisionOK'
    BY <1>1, <1>2, <1>4 DEF MachineOK, VisionOK
  <2> QED BY <1>1, <2>1, <2>3, <2>4, <2>5, <2>6 DEF Took
<1> QED BY <1>3, <1>4 DEF RequestMeasure

\* A request made at the focus height errs, waits for Z or waits for the answer.
LEMMA RequestAtFocusMoves ==
  ASSUME Base, outcome = "running", NEW t \in Tasks, t # "FocusScanning", Polled(t),
         phase[t] = "VisionRequest", RequestAtFocus(t)
  PROVE  Errs(t) \/ Stay \/ (Base' /\ Took(t, "VisionWait"))
<1>1. Fail(t) \/ Stay \/ (z.at = Goal(t).z /\ RequestMeasure(t))
  BY DEF RequestAtFocus, Await, Goal
<1> QED BY <1>1, FailErrs, RequestMoves

\* What a task knows that takes an answer.
LEMMA AnswerIsOfGoal ==
  ASSUME Base, outcome = "running", NEW t, Polled(t), phase[t] = "VisionWait", latest.valid
  PROVE  /\ asked = FALSE
         /\ latest.xy = Goal(t).xy /\ xy.at = Goal(t).xy /\ xy.cmd = Goal(t).xy
         /\ z.cmd = Goal(t).z
         /\ t \in Tasks
<1> USE DEF Base, Typed
<1>1. Waiting /\ t \in Tasks
  BY PolledTask DEF Waiting, Polled
<1>2. Journey(t)
  BY <1>1 DEF Journeys, Underway
<1> QED BY <1>1, <1>2 DEF Answers, Journey, There, VisionOK

-----------------------------------------------------------------------------
(* Steps that keep the invariant whatever the recipe. *)

\* A task that errs ends the run: only what its error state says is left to show.
LEMMA ErrsKeeps ==
  ASSUME RunInv, NEW t, Polled(t), Errs(t),
         t \in {"FOVScanning", "PickerFOVScanning", "HandPitchScanning"} => phase[t] # "MoveSafeZ"
  PROVE  RunInv'
<1> USE DEF RunInv, Base, Typed
<1>1. /\ phase' = [phase EXCEPT ![t] = "CS_ERROR"] /\ outcome' = "false"
      /\ UNCHANGED <<kind, stop, positions, idx, target, count, aligned, scan, saved, taught,
                      z, xy>>
  BY DEF Errs, SetErrorAndReturn, EnterState, ctx, memory, results
<1>2. FrameOK' /\ CtxOK' /\ MemoryOK' /\ ResultsOK' /\ MachineOK' /\ VisionOK'
  BY <1>1 DEF Errs, SetErrorAndReturn, EnterState, FrameOK, CtxOK, MemoryOK, ResultsOK, MachineOK
<1>3. Journeys' /\ Answers'
  BY <1>1 DEF Journeys, Underway, Answers
<1>4. Idle'
  BY <1>1, IdleKept
<1>5. StartInv' /\ AlignInv' /\ FocusInv'
  BY <1>1 DEF StartInv, AlignInv, FocusInv
<1>t. phase'[t] = "CS_ERROR" /\ \A u \in Tasks : u # t => phase'[u] = phase[u]
  BY <1>1, PolledTask DEF FrameOK
<1>u. (Untouched' <=> Untouched) /\ (AtCentre' <=> AtCentre) /\ Shot' = Shot
  BY <1>1 DEF Untouched, AtCentre, Shot
<1>6. PCDInv'
  BY <1>1, <1>t, PolledTask DEF PCDInv, RecipeInv, Tasks
<1>7. BacklashInv'
  BY <1>1, <1>t, PolledTask DEF BacklashInv, RecipeInv, Tasks
<1>8. FOVInv'
  BY <1>1, <1>t, <1>u, PolledTask DEF FOVInv, RecipeInv, Tasks
<1>9. PickerInv'
  BY <1>1, <1>t, <1>u, PolledTask DEF PickerInv, PickerPlace, RecipeInv, Tasks
<1>10. PitchInv'
  BY <1>1, <1>t, <1>u, PolledTask DEF PitchInv, RecipeInv, Tasks
<1> QED BY <1>2, <1>3, <1>4, <1>5, <1>6, <1>7, <1>8, <1>9, <1>10 DEF RecipeInv

\* A step that changes nothing keeps the invariant.
LEMMA StayKeeps ==
  ASSUME RunInv, UNCHANGED vars
  PROVE  RunInv'
<1> USE DEF RunInv, Base, Typed, RecipeInv
<1>1. UNCHANGED <<kind, stop, positions, idx, outcome, phase, deadline, target, count, aligned,
                  scan, z, xy, lit, asked, latest, saved, taught>>
  BY DEF vars, ctx, frame, memory, machine, vision, results
<1>2. CtxOK' /\ FrameOK' /\ MemoryOK' /\ MachineOK' /\ VisionOK' /\ ResultsOK'
  BY <1>1 DEF CtxOK, FrameOK, MemoryOK, MachineOK, VisionOK, ResultsOK
<1>3. Journeys'
  BY <1>1 DEF Journeys, Underway, Polled, Journey, Goal
<1>4. Answers'
  BY <1>1 DEF Answers, Waiting
<1>5. Idle' /\ StartInv' /\ FocusInv' /\ AlignInv' /\ PCDInv'
  BY <1>1 DEF Idle, StartInv, FocusInv, AlignInv, PCDInv
<1>6. BacklashInv'
  BY <1>1 DEF BacklashInv
<1>7. FOVInv'
  BY <1>1 DEF FOVInv, Untouched, AtCentre, Shot
<1>8. PickerInv'
  BY <1>1 DEF PickerInv, Untouched, AtCentre, PickerPlace
<1>9. PitchInv'
  BY <1>1 DEF PitchInv, AtCentre
<1> QED BY <1>2, <1>3, <1>4, <1>5, <1>6, <1>7, <1>8, <1>9

-----------------------------------------------------------------------------
(* The initial states. *)

\* What the strategies put into the list has the type of a position list.
LEMMA InitialPositions ==
  ASSUME NEW k \in Kinds, NEW n \in PositionCounts(k)
  PROVE  /\ n \in 0..3
         /\ k \in {"PCD", "Backlash"} => n = 1
         /\ k = "ZFocus" => n \in 0..1
<1>1. PositionCounts(k) \in {{1}, {0}, 0..1, 0..MaxPositions}
  BY DEF PositionCounts
<1>2. n \in 0..3
  BY <1>1, BoundsAssumption
<1>3. k \in {"PCD", "Backlash"} => PositionCounts(k) = {1}
  BY DEF PositionCounts
<1>4. k = "ZFocus" => PositionCounts(k) = 0..1
  BY DEF PositionCounts
<1> QED BY <1>2, <1>3, <1>4

\* Each of its entries is the position of a place.
LEMMA ConfiguredPositions ==
  ASSUME NEW n \in 0..3
  PROVE  /\ Configured(n) \in Seq(Positions) /\ Len(Configured(n)) = n
         /\ \A i \in 1..n : Configured(n)[i] = Position(i)
         /\ Configured(n) = <<>> <=> n = 0
         /\ Configured(1) = <<Position(1)>>
         /\ n # 0 => PeekVisionPosition(Configured(n)) = Position(n)
         /\ PeekVisionPosition(Configured(n)) \in Positions
<1>1. \A i \in 1..3 : Position(i) \in Positions
  BY BoundsAssumption DEF Position, Positions, Points
<1>2. /\ Configured(n) \in Seq(Positions) /\ Len(Configured(n)) = n
      /\ \A i \in 1..n : Configured(n)[i] = Position(i)
  BY <1>1 DEF Configured
<1>3. Configured(n) = <<>> <=> n = 0
  BY <1>2
<1>4. Configured(1) = <<Position(1)>>
  BY DEF Configured
<1>5. NoPosition \in Positions
  BY HomePlace DEF NoPosition, Positions
<1>6. n # 0 => PeekVisionPosition(Configured(n)) = Position(n)
  BY <1>2, <1>3 DEF PeekVisionPosition
<1> QED BY <1>1, <1>2, <1>3, <1>4, <1>5, <1>6 DEF PeekVisionPosition

\* A position can be a target.
LEMMA PositionIsTarget == Positions \subseteq Targets
BY DEF Positions, Targets, Places

\* Every run begins with the invariant.
LEMMA InitRun == Init => RunInv
<1> SUFFICES ASSUME Init PROVE RunInv
  OBVIOUS
<1> PICK n \in PositionCounts(kind) : positions = Configured(n)
  BY DEF Init
<1>k. kind \in Kinds /\ idx = 1 /\ outcome = "running" /\ stop = FALSE
  BY DEF Init
<1>n. n \in 0..3
  BY <1>k, InitialPositions
<1>p. /\ positions \in Seq(Positions) /\ Len(positions) = n
      /\ \A i \in 1..n : positions[i] = Position(i)
      /\ PeekVisionPosition(positions) \in Positions
      /\ positions = <<>> <=> n = 0
      /\ n # 0 => PeekVisionPosition(positions) = Position(n)
  BY <1>n, ConfiguredPositions
<1>h. phase = [t \in Tasks |-> InitialPhase(t, positions)] /\ count = [t \in Tasks |-> 0]
  BY DEF Init
<1>t. target = [t \in Tasks |-> InitialTarget(t, positions)]
  BY DEF Init
<1>s. scan = [started |-> FALSE, speed |-> 0, next |-> "MoveOrigin",
              first |-> [at |-> Home, from |-> Home], last |-> [at |-> Home, from |-> Home],
              index |-> 0, centre |-> Home, shots |-> <<>>]
  BY DEF Init
<1>v. asked = FALSE /\ latest = NoAnswer /\ saved = {} /\ taught = {}
  BY DEF Init
<1>c. <<1, 0>> \in Points /\ <<1, 0>> \in Places
  BY BoundsAssumption DEF Points, Places
<1>1. CtxOK
  BY <1>k, <1>p DEF CtxOK
<1>2. FrameOK
  <2>1. deadline \in [Tasks -> {"none", "armed", "expired"}]
    BY DEF Init
  <2>2. 1 \in 1..(Len(Recipe[kind]) + 1)
    BY <1>k, RecipeLength
  <2> QED BY <1>k, <1>h, <2>1, <2>2 DEF FrameOK
<1>3. MemoryOK
  <2>1. \A t \in Tasks : InitialTarget(t, positions) \in Targets
    <3>1. [NoPosition EXCEPT !.z = PeekVisionPosition(positions).z] \in Positions
      BY <1>p, HomePlace DEF NoPosition, Positions
    <3>2. NoPosition \in Positions
      BY HomePlace DEF NoPosition, Positions
    <3> QED BY <1>p, <3>1, <3>2, PositionIsTarget DEF InitialTarget, Tasks
  <2>2. target \in [Tasks -> Targets]
    BY <1>t, <2>1
  <2>3. count \in [Tasks -> 0..MaxInspections]
    BY <1>h, BoundsAssumption
  <2>4. aligned \in Seq(Positions)
    BY DEF Init
  <2> QED BY <1>s, <2>2, <2>3, <2>4 DEF MemoryOK, Speeds
<1>4. MachineOK
  <2>1. lit \in BOOLEAN
    BY DEF Init
  <2>2. z \in {[cmd |-> 0, at |-> 0], [cmd |-> 1, at |-> 1], [cmd |-> 0, at |-> 1]}
    BY DEF Init
  <2>3. z \in [cmd : 0..3, at : 0..3]
    BY <2>2
  <2>4. kind \in Alone => xy = [cmd |-> <<1, 0>>, at |-> <<1, 0>>, from |-> Home]
    BY DEF Init
  <2>5. kind \notin Alone => xy = [cmd |-> Home, at |-> <<1, 0>>, from |-> <<1, 0>>]
    BY DEF Init
  <2>6. xy \in [cmd : Places, at : Places, from : Places]
    BY <1>c, <2>4, <2>5, HomePlace
  <2> QED BY <2>1, <2>3, <2>6 DEF MachineOK
<1>5. VisionOK
  <2>1. NoAnswer \in [valid : BOOLEAN, garbled : BOOLEAN, xy : Places, z : 0..3]
    BY HomePlace DEF NoAnswer
  <2> QED BY <1>v, <2>1 DEF VisionOK
<1>6. ResultsOK
  BY <1>v DEF ResultsOK
<1>w. \A t \in Tasks :
        phase[t] \in {"MoveSafeZ", "MoveDown", "CS_ERROR", "VisionRequest",
                      "LoadPickerCameraOffset"}
  BY <1>h DEF InitialPhase, Tasks
<1>7. Answers
  <2>1. ~Waiting
    <3>1. Recipe[kind][1] \in Tasks
      BY <1>k, RecipeLength, RecipeEntry
    <3> QED BY <1>k, <1>w, <3>1 DEF Waiting
  <2> QED BY <1>v, <2>1 DEF Answers, NoAnswer
<1>8. Journeys
  <2> SUFFICES ASSUME NEW t \in Tasks, Underway(t) PROVE Journey(t)
    BY DEF Journeys
  <2>1. t \in {"MoveToStart", "Backlash", "FOVScanning", "PickerFOVScanning", "HandPitchScanning"}
    BY <1>1, <1>2, <1>k, PolledTask DEF Underway, Tasks, Kinds, Recipe, Starting
  <2>2. phase[t] = "MoveSafeZ" /\ t # "FocusScanning"
    BY <1>h, <2>1 DEF InitialPhase
  <2> QED BY <2>2 DEF Journey, Homing, Approaching, There
<1>9. Idle
  BY <1>h DEF Idle, InitialPhase, Tasks
<1>10. StartInv
  BY <1>h, <1>k DEF StartInv, InitialPhase, Tasks
<1>11. AlignInv
  <2>1. /\ n # 0 => phase["FindAlign"] = "VisionRequest"
        /\ phase["CommitTeaching"] = "LoadPickerCameraOffset"
        /\ count["FindAlign"] = 0
        /\ target["FindAlign"] = PeekVisionPosition(positions)
    BY <1>h, <1>t, <1>p DEF InitialPhase, InitialTarget, Tasks
  <2>2. \A i \in 1..Len(positions) : \E q \in 1..3 : positions[i] = Position(q)
    BY <1>p, <1>n
  <2> QED BY <1>k, <1>p, <2>1, <2>2 DEF AlignInv, CommitPhases
<1>12. PCDInv
  <2> SUFFICES ASSUME kind = "PCD" PROVE PCDInv
    BY DEF PCDInv
  <2>1. n = 1 /\ positions = <<Position(1)>>
    BY <1>k, InitialPositions, ConfiguredPositions
  <2>2. /\ phase["PCDScanning"] = "VisionRequest" /\ count["PCDScanning"] = 0
        /\ target["PCDScanning"] = Position(1)
    BY <1>h, <1>t, <1>p, <2>1 DEF InitialPhase, InitialTarget, Tasks
  <2>3. Position(1) = [Position(1) EXCEPT !.xy = <<1, 0>>]
    BY DEF Position
  <2> QED BY <1>s, <2>1, <2>2, <2>3 DEF PCDInv
<1>13. FocusInv
  <2>1. phase["FocusScanning"] = "MoveDown"
    BY <1>h DEF InitialPhase, Tasks
  <2>2. kind = "ZFocus" => positions \in {<<>>, <<Position(1)>>}
    <3>1. kind = "ZFocus" => n \in {0, 1}
      BY <1>k, InitialPositions
    <3> QED BY <1>p, <3>1, ConfiguredPositions
  <2> QED BY <1>k, <2>1, <2>2 DEF FocusInv
<1>14. BacklashInv
  BY <1>h, <1>s DEF BacklashInv, InitialPhase, Tasks, Speeds
<1>15. FOVInv
  <2>1. phase["FOVScanning"] = "MoveSafeZ"
    BY <1>h DEF InitialPhase, Tasks
  <2>2. kind = "FOV" => Untouched
    BY <1>s DEF Init, Alone, Untouched, AtCentre, Centre
  <2>3. Shot = {}
    BY <1>s DEF Shot
  <2> QED BY <1>s, <2>1, <2>2, <2>3 DEF FOVInv, Sides
<1>16. PickerInv
  <2>1. phase["PickerFOVScanning"] = "MoveSafeZ"
    BY <1>h DEF InitialPhase, Tasks
  <2>2. kind = "PickerFOV" => Untouched
    BY <1>s DEF Init, Alone, Untouched, AtCentre, Centre
  <2> QED BY <1>s, <2>1, <2>2 DEF PickerInv
<1>17. PitchInv
  <2>1. phase["HandPitchScanning"] = "MoveSafeZ"
    BY <1>h DEF InitialPhase, Tasks
  <2>2. kind = "HandPitch" => AtCentre
    BY DEF Init, Alone, AtCentre, Centre
  <2> QED BY <1>s, <2>1, <2>2 DEF PitchInv
<1> QED BY <1>1, <1>2, <1>3, <1>4, <1>5, <1>6, <1>7, <1>8, <1>9, <1>10, <1>11, <1>12, <1>13,
           <1>14, <1>15, <1>16, <1>17 DEF RunInv, Base, Typed, RecipeInv

-----------------------------------------------------------------------------
(* The steps of the machine, the vision system and whoever asks for a stop. *)

\* The end of a run, by a stop or behind the last task.
LEMMA EndsKeeps ==
  ASSUME RunInv, Ends
  PROVE  RunInv'
<1> USE DEF RunInv, Base, Typed
<1>1. /\ outcome' \in {"true", "false"}
      /\ UNCHANGED <<kind, stop, positions, idx, phase, deadline, target, count, aligned, scan,
                     z, xy, lit, asked, latest, saved, taught>>
  BY DEF Ends, ctx, memory, machine, vision, results
<1>2. CtxOK' /\ FrameOK' /\ MemoryOK' /\ MachineOK' /\ VisionOK' /\ ResultsOK'
  BY <1>1 DEF CtxOK, FrameOK, MemoryOK, MachineOK, VisionOK, ResultsOK
<1>3. Journeys' /\ Answers'
  BY <1>1 DEF Journeys, Underway, Answers
<1>4. RecipeInv'
  <2> USE DEF RecipeInv
  <2>1. StartInv' /\ FocusInv' /\ AlignInv'
    BY <1>1 DEF StartInv, FocusInv, AlignInv
  <2>2. PCDInv'
    BY <1>1 DEF PCDInv
  <2>3. BacklashInv'
    BY <1>1 DEF BacklashInv
  <2>4. FOVInv'
    BY <1>1 DEF FOVInv, Untouched, AtCentre, Shot
  <2>5. PickerInv'
    BY <1>1 DEF PickerInv, Untouched, AtCentre, PickerPlace
  <2>6. PitchInv'
    BY <1>1 DEF PitchInv, AtCentre
  <2> QED BY <2>1, <2>2, <2>3, <2>4, <2>5, <2>6
<1>5. Idle'
  BY <1>1 DEF Idle
<1> QED BY <1>2, <1>3, <1>4, <1>5

\* Nothing that a recipe's invariant speaks of changes; the axes are seen to below.
LEMMA RecipeKept ==
  ASSUME RecipeInv, Idle, UNCHANGED <<kind, positions, idx, outcome, phase, memory>>,
         UNCHANGED xy.from,
         Untouched => Untouched', AtCentre => AtCentre'
  PROVE  RecipeInv' /\ Idle'
<1>1. /\ UNCHANGED <<kind, positions, idx, outcome, phase, target, count, aligned, scan>>
      /\ xy'.from = xy.from
  BY DEF memory
<1> USE DEF RecipeInv
<1>2. StartInv' /\ FocusInv' /\ AlignInv' /\ PCDInv' /\ Idle'
  BY <1>1 DEF StartInv, FocusInv, AlignInv, PCDInv, Idle
<1>3. BacklashInv'
  BY <1>1 DEF BacklashInv
<1>4. FOVInv'
  BY <1>1 DEF FOVInv, Shot
<1>5. PickerInv'
  BY <1>1 DEF PickerInv, PickerPlace
<1>6. PitchInv'
  BY <1>1 DEF PitchInv
<1> QED BY <1>2, <1>3, <1>4, <1>5, <1>6

\* A stop that is asked for.
LEMMA StopKeeps ==
  ASSUME RunInv, SetStopRequested
  PROVE  RunInv'
<1> USE DEF RunInv, Base, Typed
<1>1. /\ stop' = TRUE
      /\ UNCHANGED <<kind, positions, idx, outcome, phase, deadline, target, count, aligned, scan,
                     z, xy, lit, asked, latest, saved, taught, memory>>
  BY DEF SetStopRequested, frame, memory, machine, vision, results
<1>2. CtxOK' /\ FrameOK' /\ MemoryOK' /\ MachineOK' /\ VisionOK' /\ ResultsOK'
  BY <1>1 DEF CtxOK, FrameOK, MemoryOK, MachineOK, VisionOK, ResultsOK
<1>3. Journeys' /\ Answers'
  BY <1>1 DEF Journeys, Underway, Polled, Journey, Goal, Answers, Waiting
<1>4. (Untouched => Untouched') /\ (AtCentre => AtCentre')
  BY <1>1 DEF Untouched, AtCentre
<1> QED BY <1>1, <1>2, <1>3, <1>4, RecipeKept

\* A deadline that passes.
LEMMA DeadlineKeeps ==
  ASSUME RunInv, NEW t \in Tasks, DeadlinePasses(t)
  PROVE  RunInv'
<1> USE DEF RunInv, Base, Typed
<1>1. /\ deadline' = [deadline EXCEPT ![t] = "expired"]
      /\ UNCHANGED <<kind, stop, positions, idx, outcome, phase, target, count, aligned, scan,
                     z, xy, lit, asked, latest, saved, taught, memory>>
  BY DEF DeadlinePasses, ctx, memory, machine, vision, results
<1>2. CtxOK' /\ FrameOK' /\ MemoryOK' /\ MachineOK' /\ VisionOK' /\ ResultsOK'
  BY <1>1 DEF CtxOK, FrameOK, MemoryOK, MachineOK, VisionOK, ResultsOK
<1>3. Journeys' /\ Answers'
  BY <1>1 DEF Journeys, Underway, Polled, Journey, Goal, Answers, Waiting
<1>4. (Untouched => Untouched') /\ (AtCentre => AtCentre')
  BY <1>1 DEF Untouched, AtCentre
<1> QED BY <1>1, <1>2, <1>3, <1>4, RecipeKept

\* Z arrives at a goal that a waiting task has already seen it at.
LEMMA ZArrivesKeeps ==
  ASSUME RunInv, ZArrives
  PROVE  RunInv'
<1> USE DEF RunInv, Base, Typed
<1>1. /\ z.at # z.cmd /\ z' = [z EXCEPT !.at = z.cmd]
      /\ UNCHANGED <<kind, stop, positions, idx, outcome, phase, deadline, target, count, aligned,
                     scan, xy, lit, asked, latest, saved, taught, memory>>
  BY DEF ZArrives, ctx, frame, memory, vision, results
<1>z. z'.cmd = z.cmd /\ z'.at = z.cmd /\ z' \in [cmd : 0..3, at : 0..3]
  BY <1>1 DEF MachineOK
<1>2. CtxOK' /\ FrameOK' /\ MemoryOK' /\ MachineOK' /\ VisionOK' /\ ResultsOK'
  BY <1>1, <1>z DEF CtxOK, FrameOK, MemoryOK, MachineOK, VisionOK, ResultsOK
<1>3. Journeys'
  BY <1>1, <1>z DEF Journeys, Underway, Polled, Journey, Goal, There
<1>4. Answers'
  <2>1. outcome = "running" /\ Waiting => kind = "Backlash"
    <3> SUFFICES ASSUME outcome = "running", Waiting PROVE kind = "Backlash"
      OBVIOUS
    <3> DEFINE t == Recipe[kind][idx]
    <3>1. Polled(t) /\ phase[t] = "VisionWait"
      BY DEF Polled, Waiting
    <3>2. t \in Tasks /\ (t = "Backlash" => kind = "Backlash")
      BY <3>1, PolledTask
    <3>3. Journey(t)
      BY <3>1, <3>2 DEF Journeys, Underway
    <3> QED BY <1>1, <3>1, <3>2, <3>3 DEF Journey, There
  <2> QED BY <1>1, <2>1 DEF Answers, Waiting
<1>5. (Untouched => Untouched') /\ (AtCentre => AtCentre')
  BY <1>1 DEF Untouched, AtCentre
<1> QED BY <1>1, <1>2, <1>3, <1>4, <1>5, RecipeKept

\* XY arrives at a goal that a waiting task has already seen it at.
LEMMA XYArrivesKeeps ==
  ASSUME RunInv, XYArrives
  PROVE  RunInv'
<1> USE DEF RunInv, Base, Typed
<1>1. /\ xy.at # xy.cmd /\ xy' = [cmd |-> xy.cmd, at |-> xy.cmd, from |-> xy.from]
      /\ UNCHANGED <<kind, stop, positions, idx, outcome, phase, deadline, target, count, aligned,
                     scan, z, lit, asked, latest, saved, taught, memory>>
  BY DEF XYArrives, ctx, frame, memory, vision, results
<1>2. CtxOK' /\ FrameOK' /\ MemoryOK' /\ MachineOK' /\ VisionOK' /\ ResultsOK'
  BY <1>1 DEF CtxOK, FrameOK, MemoryOK, MachineOK, VisionOK, ResultsOK
<1>3. Journeys'
  BY <1>1 DEF Journeys, Underway, Polled, Journey, Goal
<1>4. Answers'
  <2>1. outcome = "running" => ~Waiting
    <3> SUFFICES ASSUME outcome = "running", Waiting PROVE FALSE
      OBVIOUS
    <3> DEFINE t == Recipe[kind][idx]
    <3>1. Polled(t) /\ phase[t] = "VisionWait"
      BY DEF Polled, Waiting
    <3>2. t \in Tasks
      BY <3>1, PolledTask
    <3>3. Journey(t)
      BY <3>1, <3>2 DEF Journeys, Underway
    <3> QED BY <1>1, <3>1, <3>3 DEF Journey, There
  <2> QED BY <1>1, <2>1 DEF Answers, Waiting
<1>5. (Untouched => Untouched') /\ (AtCentre => AtCentre')
  BY <1>1 DEF Untouched, AtCentre
<1> QED BY <1>1, <1>2, <1>3, <1>4, <1>5, RecipeKept

\* The vision system answers a task that waits, of where the machine is.
LEMMA VisionAnswersKeeps ==
  ASSUME RunInv, VisionAnswers
  PROVE  RunInv'
<1> USE DEF RunInv, Base, Typed
<1>1. /\ outcome = "running" /\ asked /\ asked' = FALSE
      /\ UNCHANGED <<kind, stop, positions, idx, outcome, phase, deadline, target, count, aligned,
                     scan, xy, z, lit, saved, taught, memory>>
      /\ \/ \E garbled \in BOOLEAN :
              latest' = [valid |-> TRUE, garbled |-> garbled, xy |-> xy.at, z |-> z.at]
         \/ latest' = NoAnswer
  BY DEF VisionAnswers, ctx, frame, memory, machine, results
<1>2. CtxOK' /\ FrameOK' /\ MemoryOK' /\ MachineOK' /\ ResultsOK'
  BY <1>1 DEF CtxOK, FrameOK, MemoryOK, MachineOK, ResultsOK
<1>3. VisionOK'
  <2>1. latest' \in [valid : BOOLEAN, garbled : BOOLEAN, xy : Places, z : 0..3]
    <3>1. xy.at \in Places /\ z.at \in 0..3
      BY DEF MachineOK
    <3>2. NoAnswer \in [valid : BOOLEAN, garbled : BOOLEAN, xy : Places, z : 0..3]
      BY HomePlace DEF NoAnswer
    <3>3. \A g \in BOOLEAN : [valid |-> TRUE, garbled |-> g, xy |-> xy.at, z |-> z.at]
                              \in [valid : BOOLEAN, garbled : BOOLEAN, xy : Places, z : 0..3]
      BY <3>1
    <3> QED BY <1>1, <3>2, <3>3
  <2> QED BY <1>1, <2>1 DEF VisionOK
<1>4. Journeys'
  BY <1>1 DEF Journeys, Underway, Polled, Journey, Goal
<1>5. Answers'
  BY <1>1 DEF Answers, Waiting, NoAnswer
<1>6. (Untouched => Untouched') /\ (AtCentre => AtCentre')
  BY <1>1 DEF Untouched, AtCentre
<1> QED BY <1>1, <1>2, <1>3, <1>4, <1>5, <1>6, RecipeKept

-----------------------------------------------------------------------------
(* CLoad1MoveToStartPositionTask. *)

\* What a poll reads of the task that is polled.
LEMMA PolledState ==
  ASSUME NEW t, NEW s, At(t, s)
  PROVE  Polled(t) /\ phase[t] = s
BY DEF At, Polled

\* MoveToStart goes from state to state with the last position as its target.
LEMMA MoveToStartGoes ==
  ASSUME RunInv, Polled("MoveToStart"), Base', NEW s, Goes("MoveToStart", s),
         UNCHANGED <<ctx, count, scan>>,
         \A u \in Tasks \ {"MoveToStart"} : target'[u] = target[u],
         positions # <<>>, target'["MoveToStart"] = PeekVisionPosition(positions)
  PROVE  RunInv'
<1> USE DEF RunInv, Base, Typed, RecipeInv
<1> DEFINE t == "MoveToStart"
<1>1. /\ t \in Tasks /\ kind \in Starting /\ idx = 1
      /\ UNCHANGED <<kind, positions, count, scan, idx, outcome>>
  BY PolledTask DEF Goes, ctx
<1>2. \A u \in Tasks \ {t} : phase'[u] = phase[u]
  BY DEF Goes, FrameOK
<1>3. StartInv'
  BY <1>1, <1>2 DEF StartInv, Tasks
<1>4. FocusInv' /\ AlignInv'
  BY <1>1, <1>2 DEF FocusInv, AlignInv, Tasks
<1>5. PCDInv'
  BY <1>1, <1>2 DEF PCDInv, Tasks
<1>6. RecipeInv'
  BY <1>1, <1>3, <1>4, <1>5, RecipeParts DEF Starting, Aligning
<1>7. Idle'
  BY <1>1, IdleKept DEF Goes
<1> QED BY <1>6, <1>7

\* Where MoveToStart hands over, the next task finds the axes at the last position.
LEMMA MoveToStartHandsOver ==
  ASSUME RunInv, outcome = "running", At("MoveToStart", "CompleteMove"),
         EnterState("MoveToStart", "MoveSafeZ"), NextTask,
         UNCHANGED <<ctx, memory, machine, vision, results>>
  PROVE  RunInv'
<1> USE DEF RunInv, Base, Typed
<1> DEFINE t == "MoveToStart"
           goal == PeekVisionPosition(positions)
<1>1. /\ Polled(t) /\ phase[t] = "CompleteMove"
      /\ t \in Tasks /\ kind \in Starting /\ idx = 1
  BY PolledState, PolledTask
<1>2. /\ idx' = 2 /\ outcome' = "running"
      /\ phase' = [phase EXCEPT ![t] = "MoveSafeZ"] /\ phase'[t] = "MoveSafeZ"
      /\ \A u \in Tasks \ {t} : phase'[u] = phase[u]
      /\ UNCHANGED <<kind, stop, positions, target, count, aligned, scan, z, xy, lit, asked, latest,
                     saved, taught>>
  BY <1>1 DEF EnterState, NextTask, FrameOK, ctx, memory, machine, vision, results
<1>3. /\ positions # <<>>
      /\ xy.cmd = goal.xy /\ xy.at = goal.xy /\ z.cmd = goal.z
  BY <1>1 DEF RecipeInv, StartInv, Journeys, Underway, Journey, Goal, There
<1>4. FrameOK'
  <2>1. 2 \in 1..(Len(Recipe[kind]) + 1)
    BY <1>1, RecipeLength DEF CtxOK
  <2>2. deadline' \in [Tasks -> {"none", "armed", "expired"}]
    BY DEF EnterState, FrameOK
  <2> QED BY <1>2, <2>1, <2>2 DEF FrameOK
<1>5. CtxOK' /\ MemoryOK' /\ MachineOK' /\ VisionOK' /\ ResultsOK'
  BY <1>2 DEF CtxOK, MemoryOK, MachineOK, VisionOK, ResultsOK
<1>6. asked' = FALSE
  BY <1>1, <1>2, NotAsked
<1>7. /\ kind = "ZFocus" => phase["FocusScanning"] = "MoveDown"
      /\ kind \in Aligning => phase["FindAlign"] = "VisionRequest" /\ target["FindAlign"] = goal
                              /\ count["FindAlign"] = 0
      /\ kind = "PCD" => phase["PCDScanning"] = "VisionRequest" /\ count["PCDScanning"] = 0
                         /\ target["PCDScanning"] = goal
      /\ kind = "LowCamCheck" => phase["Calibration"] = "CS_ERROR"
  <2>1. kind = "PCD" => target["PCDScanning"] = positions[1] /\ Len(positions) = 1
                        /\ count["PCDScanning"] = 0
    BY <1>1 DEF RecipeInv, PCDInv, Position
  <2>2. kind = "PCD" => target["PCDScanning"] = goal
    BY <1>3, <2>1 DEF PeekVisionPosition
  <2> QED BY <1>1, <1>3, <2>1, <2>2 DEF RecipeInv, FocusInv, AlignInv, PCDInv, StartInv
<1>8. ASSUME NEW u, Underway(u)'
      PROVE  /\ u \in Tasks
             /\ \/ u = "FocusScanning" /\ kind = "ZFocus"
                \/ u = "FindAlign" /\ kind \in Aligning
                \/ u = "PCDScanning" /\ kind = "PCD"
                \/ u = "Calibration" /\ kind = "LowCamCheck"
  <2>1. kind \in Kinds /\ 2 \in 1..Len(Recipe[kind])
    BY <1>1, RecipeLength DEF CtxOK
  <2>2. Recipe[kind][2] = u
    BY <1>2, <1>8 DEF Underway, Polled
  <2>3. /\ u \in Tasks
        /\ u = "FocusScanning" <=> kind = "ZFocus"
        /\ u = "FindAlign" <=> kind \in Aligning
        /\ u = "PCDScanning" <=> kind = "PCD"
        /\ u = "Calibration" <=> kind = "LowCamCheck"
    BY <2>1, <2>2, RecipeEntry
  <2> QED BY <1>1, <2>3 DEF Starting, Aligning
<1>9. Journeys'
  <2> SUFFICES ASSUME NEW u \in Tasks, Underway(u)' PROVE Journey(u)'
    BY DEF Journeys
  <2>1. CASE u = "FocusScanning" /\ kind = "ZFocus"
    BY <1>2, <1>3, <1>7, <2>1 DEF Journey, Goal, Homing, Approaching, There, Tasks
  <2>2. CASE u \in {"FindAlign", "PCDScanning"} /\ phase[u] = "VisionRequest" /\ target[u] = goal
    BY <1>2, <1>3, <2>2 DEF Journey, Goal, Homing, Approaching, There, Tasks
  <2>3. CASE u = "Calibration" /\ kind = "LowCamCheck"
    BY <1>2, <1>7, <2>3 DEF Journey, Homing, Approaching, There, Tasks
  <2> QED BY <1>7, <1>8, <2>1, <2>2, <2>3
<1>10. Answers'
  <2>1. ~Waiting'
    <3> SUFFICES ASSUME Waiting' PROVE FALSE
      OBVIOUS
    <3>1. PICK u : Underway(u)' /\ phase'[u] = "VisionWait"
      BY DEF Waiting, Underway, Polled
    <3>2. phase'[u] = phase[u]
      BY <1>2, <1>8, <3>1 DEF Tasks
    <3> QED BY <1>7, <1>8, <3>1, <3>2
  <2> QED BY <1>6, <2>1 DEF Answers
<1>11. StartInv'
  BY <1>1, <1>2 DEF StartInv, RecipeInv, Tasks
<1>12. FocusInv'
  BY <1>1, <1>2, <1>3 DEF FocusInv, RecipeInv
<1>13. AlignInv'
  <2> SUFFICES ASSUME kind \in Aligning PROVE AlignInv'
    BY <1>2 DEF AlignInv
  <2> DEFINE f == "FindAlign"
  <2>1. \A i \in 1..Len(positions) : \E q \in 1..3 : positions[i] = Position(q)
    BY <1>1 DEF RecipeInv, AlignInv
  <2>2. PICK q \in 1..3 : goal = Position(q)
    BY <1>3, <2>1 DEF PeekVisionPosition, CtxOK
  <2>3. target[f].loc = q /\ target[f].z = q /\ target[f].xy = <<q, 0>>
    BY <1>7, <2>2 DEF Position
  <2>4. phase'[f] = "VisionRequest" /\ phase["CommitTeaching"] \in CommitPhases
    BY <1>1, <1>2, <1>7 DEF RecipeInv, AlignInv, Tasks
  <2> QED BY <1>2, <1>3, <1>7, <2>1, <2>3, <2>4 DEF AlignInv, Tasks
<1>14. PCDInv'
  BY <1>1, <1>2 DEF PCDInv, RecipeInv, Tasks
<1>15. RecipeInv'
  BY <1>1, <1>2, <1>11, <1>12, <1>13, <1>14, RecipeParts DEF Starting, Aligning
<1>16. Idle'
  BY <1>1, <1>2, IdleKept
<1> QED BY <1>4, <1>5, <1>9, <1>10, <1>15, <1>16

\* A poll of MoveToStart.
LEMMA MoveToStartKeeps ==
  ASSUME RunInv, outcome = "running", MoveToStart
  PROVE  RunInv'
<1> DEFINE t == "MoveToStart"
<1> USE DEF RunInv
<1>t. t \in Tasks
  BY DEF Tasks
<1>f. Fail(t) /\ Polled(t) => RunInv'
  BY FailErrs, ErrsKeeps
<1>s. Stay => RunInv'
  BY StayKeeps DEF Stay
<1>k. ASSUME NEW s, Polled(t), phase[t] # "MoveSafeZ", Base', Took(t, s)
      PROVE  RunInv'
  <2>1. positions # <<>> /\ target[t] = PeekVisionPosition(positions)
    <3>1. kind \in Starting /\ idx = 1
      BY <1>k, PolledTask DEF Base, Typed
    <3> QED BY <1>k, <3>1 DEF RecipeInv, StartInv
  <2> QED BY <1>k, <2>1, MoveToStartGoes DEF Took, memory
<1>1. CASE At(t, "MoveSafeZ")
  <2>0. Polled(t) /\ phase[t] = "MoveSafeZ"
    BY <1>1, PolledState
  <2>1. CASE positions = <<>>
    BY <1>1, <1>f, <2>0, <2>1 DEF MoveToStart, At
  <2>2. CASE positions # <<>>
    <3> DEFINE goal == PeekVisionPosition(positions)
    <3>1. /\ target' = [target EXCEPT ![t] = goal] /\ MoveZ(0)
          /\ EnterStateWithTimeout(t, "MoveOrigin") /\ Keep
          /\ UNCHANGED <<ctx, count, aligned, scan, vision, results>>
      BY <1>1, <2>2 DEF MoveToStart, At
    <3> USE DEF Base, Typed
    <3>2. Goes(t, "MoveOrigin")
      BY <1>t, <3>1, EnterGoes
    <3>3. Journey(t)'
      BY <1>t, <3>2 DEF Goes, FrameOK, Journey, Homing, Approaching, There
    <3>4. Journeys' /\ FrameOK'
      BY <1>t, <2>0, <3>1, <3>2, <3>3, GoesOn DEF ctx
    <3>5. Answers'
      BY <1>t, <2>0, <3>1, <3>2, NotAsked, Unasked DEF vision, ctx
    <3>6. goal \in Targets
      BY <2>2, PositionIsTarget DEF PeekVisionPosition, CtxOK
    <3>7. MemoryOK' /\ target'[t] = goal /\ \A u \in Tasks \ {t} : target'[u] = target[u]
      BY <1>t, <3>1, <3>6 DEF MemoryOK
    <3>8. CtxOK' /\ MachineOK' /\ VisionOK' /\ ResultsOK'
      BY <3>1 DEF CtxOK, MachineOK, VisionOK, ResultsOK, ctx, vision, results, MoveZ
    <3> QED BY <2>0, <2>2, <3>1, <3>2, <3>4, <3>5, <3>7, <3>8, MoveToStartGoes
  <2> QED BY <2>1, <2>2
<1>2. CASE At(t, "MoveOrigin") /\ LeaveForOrigin(t, "MoveTargetPositionXY")
  BY <1>t, <1>f, <1>s, <1>k, <1>2, PolledState, LeaveForOriginMoves DEF Homing
<1>3. CASE At(t, "MoveTargetPositionXY") /\ LeaveForTarget(t, "MoveTargetPositionZ", TRUE)
  <2>1. Polled(t) /\ phase[t] = "MoveTargetPositionXY" /\ Base
    BY <1>3, PolledState
  <2>2. Fail(t) \/ Stay \/ (Base' /\ Took(t, "MoveTargetPositionZ"))
    BY <1>t, <1>3, <2>1, LeaveForTargetMoves DEF Approaching
  <2> QED BY <1>f, <1>s, <1>k, <2>1, <2>2
<1>4. CASE At(t, "MoveTargetPositionZ") /\ LowerZ(t, "CompleteMove", TRUE)
  <2>1. Polled(t) /\ phase[t] = "MoveTargetPositionZ" /\ Base
    BY <1>4, PolledState
  <2>2. Fail(t) \/ Stay \/ (Base' /\ Took(t, "CompleteMove") /\ xy' = xy)
    BY <1>t, <1>4, <2>1, LowerZMoves DEF Approaching
  <2> QED BY <1>f, <1>s, <1>k, <2>1, <2>2
<1>5. CASE At(t, "CompleteMove") /\ MoveToStart
  <2>1. Polled(t) /\ phase[t] = "CompleteMove"
    BY <1>5, PolledState
  <2>2. \/ Fail(t) \/ Stay
        \/ /\ EnterState(t, "MoveSafeZ") /\ NextTask
           /\ UNCHANGED <<ctx, memory, machine, vision, results>>
    BY <1>5, <2>1 DEF MoveToStart, At, Await
  <2> QED BY <1>5, <1>f, <1>s, <2>1, <2>2, MoveToStartHandsOver
<1> QED BY <1>1, <1>2, <1>3, <1>4, <1>5 DEF MoveToStart

-----------------------------------------------------------------------------
(* CLoad1FindAlignPosTask and CLoad1CommitTeachingPosTask. *)

\* After the last task nothing is polled any more.
LEMMA RunsOut ==
  ASSUME Base, outcome = "running", NEW t, Polled(t), phase[t] # "VisionWait",
         idx = Len(Recipe[kind]), NextTask, kind' = kind, UNCHANGED vision
  PROVE  /\ idx' \in 1..(Len(Recipe[kind']) + 1) /\ outcome' = "running"
         /\ Journeys' /\ Answers'
<1>1. idx' = Len(Recipe[kind']) + 1 /\ outcome' = "running" /\ idx' \in Nat \ {0}
  BY DEF NextTask, Base, Typed, FrameOK
<1>2. asked' = FALSE
  BY NotAsked DEF vision
<1>3. Journeys'
  BY <1>1 DEF Journeys, Underway, Polled
<1>4. Answers'
  BY <1>1, <1>2 DEF Answers, Waiting
<1> QED BY <1>1, <1>3, <1>4

\* FindAlign goes to a state whose target and repeats agree.
LEMMA AlignGoes ==
  ASSUME RunInv, outcome = "running", Polled("FindAlign"), Base', NEW s, Goes("FindAlign", s),
         UNCHANGED ctx,
         LET t == "FindAlign"
             p == target[t].loc
         IN  /\ target'[t].loc = p /\ target'[t].z = target[t].z
             /\ s # "SaveCalibrationResult" => target'[t].xy = <<p, count'[t]>>
             /\ s = "SaveCalibrationResult" =>
                  count'[t] = 0 /\ target'[t].xy = <<p, MaxInspections + 1>>
  PROVE  RunInv'
<1> USE DEF RunInv, Base, Typed, RecipeInv
<1> DEFINE t == "FindAlign"
<1>1. t \in Tasks /\ kind \in Aligning /\ idx = 2 /\ UNCHANGED <<kind, positions, idx, outcome>>
  BY PolledTask DEF Goes, ctx
<1>2. phase'[t] = s /\ \A u \in Tasks \ {t} : phase'[u] = phase[u]
  BY <1>1 DEF Goes, FrameOK
<1>3. StartInv'
  BY <1>1, <1>2 DEF StartInv, Tasks
<1>4. AlignInv'
  BY <1>1, <1>2 DEF AlignInv, Tasks
<1>5. RecipeInv'
  BY <1>1, <1>3, <1>4, RecipeParts
<1>6. Idle'
  BY <1>1, IdleKept DEF Goes
<1> QED BY <1>5, <1>6

\* A move of FindAlign leaves its target alone.
LEMMA AlignTook ==
  ASSUME RunInv, outcome = "running", Polled("FindAlign"), Base', NEW s,
         s # "SaveCalibrationResult", phase["FindAlign"] # "SaveCalibrationResult",
         Took("FindAlign", s)
  PROVE  RunInv'
<1> DEFINE t == "FindAlign"
<1>1. kind \in Aligning /\ idx = 2
  BY PolledTask DEF RunInv, Base, Typed
<1>2. target[t].xy = <<target[t].loc, count[t]>>
  BY <1>1 DEF RunInv, RecipeInv, AlignInv
<1> QED BY <1>2, AlignGoes DEF Took, memory

\* The correction of the target and the repeat it belongs to are counted together.
LEMMA TakeAlignKeeps ==
  ASSUME RunInv, outcome = "running", At("FindAlign", "VisionWait"), latest.valid,
         UNCHANGED <<vision, results, z, xy>>, lit' = FALSE, TakeAlign
  PROVE  RunInv'
<1> USE DEF RunInv, Base, Typed
<1> DEFINE t == "FindAlign"
           p == target[t].loc
           k == count[t]
<1>1. Polled(t) /\ phase[t] = "VisionWait" /\ t \in Tasks /\ kind \in Aligning /\ idx = 2
  BY PolledState, PolledTask
<1>2. asked = FALSE
  BY <1>1, AnswerIsOfGoal
<1>3. p \in 1..3 /\ target[t].z = p /\ target[t].xy = <<p, k>> /\ k \in 0..MaxInspections
  BY <1>1 DEF RecipeInv, AlignInv, MemoryOK
<1>4. target' = [target EXCEPT ![t].xy = <<p, k + 1>>] /\ UNCHANGED <<ctx, aligned, scan>> /\ Keep
  BY <1>3 DEF TakeAlign, CorrectTarget, Corrected
<1>5. <<p, k + 1>> \in Places
  BY <1>3, BoundsAssumption DEF Places, Points
<1>6. /\ target' \in [Tasks -> Targets]
      /\ target'[t].loc = p /\ target'[t].z = p /\ target'[t].xy = <<p, k + 1>>
  BY <1>1, <1>3, <1>4, <1>5 DEF MemoryOK, Targets
<1>7. PICK s \in {"MoveSafeZ", "SaveCalibrationResult"} :
        /\ Goes(t, s)
        /\ s = "MoveSafeZ" => k < MaxInspections /\ count' = [count EXCEPT ![t] = k + 1]
        /\ s = "SaveCalibrationResult" => k = MaxInspections /\ count' = [count EXCEPT ![t] = 0]
  BY <1>1, <1>3, BoundsAssumption, EnterGoes DEF TakeAlign
<1>8. /\ count' \in [Tasks -> 0..MaxInspections]
      /\ s = "MoveSafeZ" => count'[t] = k + 1
      /\ s = "SaveCalibrationResult" => count'[t] = 0 /\ k = MaxInspections
  <2>1. count \in [Tasks -> 0..MaxInspections] /\ 0 \in 0..MaxInspections
    BY BoundsAssumption DEF MemoryOK
  <2>2. CASE s = "MoveSafeZ"
    <3>1. k + 1 \in 0..MaxInspections
      BY <1>3, <1>7, <2>2, BoundsAssumption
    <3> QED BY <1>1, <1>7, <2>1, <2>2, <3>1
  <2>3. CASE s = "SaveCalibrationResult"
    BY <1>1, <1>7, <2>1, <2>3
  <2> QED BY <2>2, <2>3
<1>9. MemoryOK'
  BY <1>4, <1>6, <1>8 DEF MemoryOK
<1>10. Journey(t)'
  BY <1>1, <1>7 DEF Goes, FrameOK, Journey, Homing, Approaching, There
<1>11. Journeys' /\ FrameOK'
  BY <1>1, <1>4, <1>7, <1>10, GoesOn DEF ctx
<1>12. Answers'
  BY <1>1, <1>2, <1>4, <1>7, Unasked DEF vision, ctx
<1>13. CtxOK' /\ MachineOK' /\ VisionOK' /\ ResultsOK'
  BY <1>4 DEF CtxOK, MachineOK, VisionOK, ResultsOK, ctx, vision, results
<1> QED BY <1>1, <1>3, <1>4, <1>6, <1>7, <1>8, <1>9, <1>11, <1>12, <1>13, AlignGoes

\* The result that is saved is that of its location, with all its corrections.
LEMMA SaveAlignKeeps ==
  ASSUME RunInv, outcome = "running", At("FindAlign", "SaveCalibrationResult"), SaveAlign
  PROVE  RunInv'
<1> USE DEF RunInv, Base, Typed
<1> DEFINE t == "FindAlign"
           p == target[t].loc
           popped == [target[t] EXCEPT !.loc = Head(positions).loc]
           done == Append(aligned, popped)
           rest == Tail(positions)
<1>1. /\ Polled(t) /\ phase[t] = "SaveCalibrationResult"
      /\ t \in Tasks /\ kind \in Aligning /\ idx = 2
  BY PolledState, PolledTask
<1>2. /\ p \in 1..3 /\ target[t].z = p /\ target[t].xy = <<p, MaxInspections + 1>>
      /\ count[t] = 0 /\ positions # <<>> /\ positions \in Seq(Positions)
      /\ \A i \in 1..Len(positions) : \E q \in 1..3 : positions[i] = Position(q)
  BY <1>1 DEF RecipeInv, AlignInv, CtxOK
<1>3. /\ saved' = saved \cup {[loc |-> p, xy |-> target[t].xy]}
      /\ UNCHANGED <<taught, kind, stop, count, scan, machine, vision>>
  BY DEF SaveAlign, CalibrationRow
<1>4. <<p, MaxInspections + 1>> \in Points
  BY <1>2, BoundsAssumption DEF Points
<1>5. ResultsOK'
  BY <1>2, <1>3, <1>4 DEF ResultsOK
<1>6. target[t] = [loc |-> p, xy |-> <<p, MaxInspections + 1>>, z |-> p]
  BY <1>1, <1>2 DEF MemoryOK, Targets
<1>7. Head(positions) \in Positions
  BY <1>2
<1>8. popped \in Positions
  <2>1. popped = [loc |-> Head(positions).loc, xy |-> <<p, MaxInspections + 1>>, z |-> p]
    BY <1>6
  <2> QED BY <1>2, <1>4, <1>7, <2>1 DEF Positions
<1>9. done \in Seq(Positions)
  BY <1>8 DEF MemoryOK
<1>10. /\ rest \in Seq(Positions) /\ Len(rest) = Len(positions) - 1
       /\ \A i \in 1..Len(rest) : rest[i] = positions[i + 1]
  BY <1>2
<1>11. asked' = FALSE
  BY <1>1, <1>3, NotAsked DEF vision
<1>12. MachineOK' /\ VisionOK'
  BY <1>3 DEF MachineOK, VisionOK, machine, vision
<1>13. CASE rest = <<>>
  <2>1. /\ positions' = done /\ aligned' = <<>> /\ idx' = 3 /\ outcome' = "running"
        /\ UNCHANGED <<phase, deadline, target>>
    BY <1>1, <1>13 DEF SaveAlign, NextTask
  <2>2. CtxOK'
    BY <1>3, <1>9, <2>1 DEF CtxOK
  <2>3. FrameOK'
    <3>1. 3 \in 1..(Len(Recipe[kind]) + 1)
      BY <1>1, RecipeLength DEF CtxOK, Aligning, Starting
    <3> QED BY <1>3, <2>1, <3>1 DEF FrameOK
  <2>4. MemoryOK'
    BY <1>3, <2>1 DEF MemoryOK
  <2>5. phase["CommitTeaching"] \in CommitPhases
    BY <1>1 DEF RecipeInv, AlignInv
  <2>6. ASSUME NEW u, Underway(u)' PROVE u = "CommitTeaching"
    <3>1. 3 \in 1..Len(Recipe[kind]) /\ Recipe[kind][3] = u /\ kind \in Kinds
      BY <1>1, <1>3, <2>1, <2>6, RecipeLength DEF Underway, Polled, CtxOK
    <3>2. kind = "UpperCamCheck"
      BY <1>1, <3>1, RecipeLength DEF Aligning, Starting
    <3> QED BY <3>1, <3>2, RecipeEntry
  <2>7. Journeys'
    BY <2>1, <2>5, <2>6 DEF Journeys, Journey, CommitPhases, Homing, Approaching, There
  <2>8. Answers'
    <3>1. Waiting' => \E u : Underway(u)' /\ phase'[u] = "VisionWait"
      BY DEF Waiting, Underway, Polled
    <3> QED BY <1>11, <2>1, <2>5, <2>6, <3>1 DEF Answers, CommitPhases
  <2>9. StartInv'
    BY <1>1, <1>3, <2>1 DEF RecipeInv, StartInv, Aligning, Starting
  <2>10. AlignInv'
    BY <1>1, <1>3, <2>1, <2>5 DEF AlignInv
  <2>11. RecipeInv'
    BY <1>1, <1>3, <2>9, <2>10, RecipeParts
  <2>12. Idle'
    BY <1>3, <2>1 DEF Idle
  <2> QED BY <1>5, <1>12, <2>2, <2>3, <2>4, <2>7, <2>8, <2>11, <2>12
<1>14. CASE rest # <<>>
  <2> DEFINE goal == PeekVisionPosition(rest)
  <2>1. /\ positions' = rest /\ aligned' = done /\ idx' = 1 /\ outcome' = "running"
        /\ target' = [target EXCEPT ![t] = goal]
        /\ phase' = [phase EXCEPT ![t] = "VisionRequest"]
        /\ deadline' \in [Tasks -> {"none", "armed", "expired"}]
    <3>1. /\ positions' = rest /\ aligned' = done /\ target' = [target EXCEPT ![t] = goal]
          /\ EnterStateWithTimeout(t, "VisionRequest") /\ PrevTask
      BY <1>14 DEF SaveAlign
    <3> QED BY <1>1, <3>1 DEF PrevTask, EnterStateWithTimeout, FrameOK
  <2>2. CtxOK'
    BY <1>3, <1>10, <2>1 DEF CtxOK
  <2>3. FrameOK'
    <3>1. 1 \in 1..(Len(Recipe[kind]) + 1)
      BY RecipeLength DEF CtxOK
    <3> QED BY <1>3, <2>1, <3>1 DEF FrameOK
  <2>4. /\ phase'[t] = "VisionRequest" /\ \A u \in Tasks \ {t} : phase'[u] = phase[u]
    BY <1>1, <2>1 DEF FrameOK
  <2>5. goal = rest[Len(rest)] /\ Len(rest) \in 1..Len(rest)
    BY <1>10, <1>14 DEF PeekVisionPosition
  <2>6. goal \in Targets
    BY <1>10, <2>5, PositionIsTarget
  <2>7. MemoryOK' /\ target'[t] = goal /\ target'["MoveToStart"] = target["MoveToStart"]
    BY <1>1, <1>3, <1>9, <2>1, <2>6 DEF MemoryOK, Tasks
  <2>8. phase'["MoveToStart"] = "MoveSafeZ"
    BY <1>1, <2>4 DEF RecipeInv, StartInv, Aligning, Starting, Tasks
  <2>9. ASSUME NEW u, Underway(u)' PROVE u = "MoveToStart"
    <3>1. 1 \in 1..Len(Recipe[kind]) /\ Recipe[kind][1] = u /\ kind \in Kinds
      BY <1>1, <1>3, <2>1, <2>9, RecipeLength DEF Underway, Polled, CtxOK
    <3> QED BY <1>1, <3>1, RecipeEntry DEF Aligning, Starting
  <2>10. Journeys'
    BY <2>8, <2>9 DEF Journeys, Journey, Homing, Approaching, There
  <2>11. Answers'
    <3>1. Waiting' => \E u : Underway(u)' /\ phase'[u] = "VisionWait"
      BY DEF Waiting, Underway, Polled
    <3> QED BY <1>11, <2>8, <2>9, <3>1 DEF Answers
  <2>12. StartInv'
    BY <1>1, <1>3, <2>1, <2>4, <2>8 DEF RecipeInv, StartInv, Aligning, Starting, Tasks
  <2>13. AlignInv'
    <3>1. \A i \in 1..Len(rest) : \E q \in 1..3 : rest[i] = Position(q)
      BY <1>2, <1>10
    <3>2. phase'["CommitTeaching"] \in CommitPhases
      BY <1>1, <2>4 DEF RecipeInv, AlignInv, Tasks
    <3> QED BY <1>2, <1>3, <2>1, <2>4, <2>7, <3>1, <3>2 DEF AlignInv
  <2>14. RecipeInv'
    BY <1>1, <1>3, <2>12, <2>13, RecipeParts
  <2>15. Idle'
    BY <1>1, <1>3, <2>1, IdleKept
  <2> QED BY <1>5, <1>12, <2>2, <2>3, <2>7, <2>10, <2>11, <2>14, <2>15
<1> QED BY <1>13, <1>14

\* A poll of FindAlign.
LEMMA FindAlignKeeps ==
  ASSUME RunInv, outcome = "running", FindAlign
  PROVE  RunInv'
<1> DEFINE t == "FindAlign"
<1> USE DEF RunInv
<1>t. t \in Tasks
  BY DEF Tasks
<1>e. Errs(t) /\ Polled(t) => RunInv'
  BY ErrsKeeps
<1>f. Fail(t) /\ Polled(t) => RunInv'
  BY <1>e, FailErrs
<1>s. Stay => RunInv'
  BY StayKeeps DEF Stay
<1>1. CASE At(t, "MoveSafeZ") /\ RaiseZ(t, "MoveOrigin")
  <2>1. Polled(t) /\ phase[t] = "MoveSafeZ"
    BY <1>1, PolledState
  <2>2. Base' /\ Took(t, "MoveOrigin")
    BY <1>t, <1>1, <2>1, RaiseZMoves DEF Travelling, Homing, Approaching, There
  <2> QED BY <2>1, <2>2, AlignTook
<1>2. CASE At(t, "MoveOrigin") /\ LeaveForOrigin(t, "MoveCalibrationPosXY")
  <2>1. Polled(t) /\ phase[t] = "MoveOrigin"
    BY <1>2, PolledState
  <2>2. Fail(t) \/ Stay \/ (Base' /\ Took(t, "MoveCalibrationPosXY"))
    BY <1>t, <1>2, <2>1, LeaveForOriginMoves DEF Homing
  <2> QED BY <1>f, <1>s, <2>1, <2>2, AlignTook
<1>3. CASE At(t, "MoveCalibrationPosXY") /\ LeaveForTarget(t, "MoveFocusPosZ", TRUE)
  <2>1. Polled(t) /\ phase[t] = "MoveCalibrationPosXY"
    BY <1>3, PolledState
  <2>2. Fail(t) \/ Stay \/ (Base' /\ Took(t, "MoveFocusPosZ"))
    BY <1>t, <1>3, <2>1, LeaveForTargetMoves DEF Approaching
  <2> QED BY <1>f, <1>s, <2>1, <2>2, AlignTook
<1>4. CASE At(t, "MoveFocusPosZ") /\ LowerZ(t, "VisionRequest", FALSE)
  <2>1. Polled(t) /\ phase[t] = "MoveFocusPosZ"
    BY <1>4, PolledState
  <2>2. Fail(t) \/ Stay \/ (Base' /\ Took(t, "VisionRequest") /\ xy' = xy)
    BY <1>t, <1>4, <2>1, LowerZMoves DEF Approaching
  <2> QED BY <1>f, <1>s, <2>1, <2>2, AlignTook
<1>5. CASE At(t, "VisionRequest") /\ RequestAtFocus(t)
  <2>1. Polled(t) /\ phase[t] = "VisionRequest"
    BY <1>5, PolledState
  <2>2. Errs(t) \/ Stay \/ (Base' /\ Took(t, "VisionWait"))
    BY <1>t, <1>5, <2>1, RequestAtFocusMoves
  <2> QED BY <1>e, <1>s, <2>1, <2>2, AlignTook
<1>6. CASE At(t, "VisionWait") /\ AwaitAnswer(t, TakeAlign)
  <2>1. Polled(t)
    BY <1>6, PolledState
  <2>2. \/ Fail(t) \/ Stay
        \/ TakeAlign /\ latest.valid /\ UNCHANGED <<vision, results, z, xy>> /\ lit' = FALSE
    BY <1>6 DEF AwaitAnswer, SetLightState
  <2> QED BY <1>6, <1>f, <1>s, <2>1, <2>2, TakeAlignKeeps
<1>7. CASE At(t, "SaveCalibrationResult") /\ SaveAlign
  BY <1>7, SaveAlignKeeps
<1> QED BY <1>1, <1>2, <1>3, <1>4, <1>5, <1>6, <1>7 DEF FindAlign

-----------------------------------------------------------------------------
(* CLoad1CommitTeachingPosTask and CLoad1PerformCalibrationTask. *)

\* A load of CommitTeaching goes on or fails.
LEMMA CommitTeachingKeeps ==
  ASSUME RunInv, outcome = "running", CommitTeaching
  PROVE  RunInv'
<1> DEFINE t == "CommitTeaching"
<1> USE DEF RunInv, Base, Typed
<1>1. Polled(t)
  BY DEF CommitTeaching, LoadFrom, At, Polled
<1>2. t \in Tasks /\ kind = "UpperCamCheck" /\ idx = 3
  BY <1>1, PolledTask
<1>3. phase[t] \in CommitPhases
  BY DEF CommitTeaching, LoadFrom, At, CommitPhases
<1>4. asked = FALSE
  BY <1>1, <1>3, NotAsked DEF CommitPhases
<1>5. ASSUME NEW s \in CommitPhases, EnterState(t, s), Keep,
             UNCHANGED <<ctx, memory, machine, vision, results>>
      PROVE  RunInv'
  <2>1. Goes(t, s) /\ phase'[t] = s /\ \A u \in Tasks \ {t} : phase'[u] = phase[u]
    BY <1>2, <1>5, EnterGoes DEF Goes, FrameOK
  <2>2. UNCHANGED <<kind, stop, positions, idx, outcome, target, count, aligned, scan, z, xy, lit,
                    asked, latest, saved, taught>>
    BY <1>5, <2>1 DEF Goes, ctx, memory, machine, vision, results
  <2>3. CtxOK' /\ MemoryOK' /\ MachineOK' /\ VisionOK' /\ ResultsOK'
    BY <2>2 DEF CtxOK, MemoryOK, MachineOK, VisionOK, ResultsOK
  <2>4. Journey(t)'
    BY <2>1 DEF Journey, CommitPhases, Homing, Approaching, There
  <2>5. FrameOK' /\ Journeys'
    BY <1>1, <1>2, <2>1, <2>2, <2>4, GoesOn
  <2>6. Answers'
    BY <1>1, <1>2, <1>4, <2>1, <2>2, Unasked DEF CommitPhases
  <2>7. StartInv' /\ AlignInv'
    BY <1>2, <2>1, <2>2 DEF RecipeInv, StartInv, AlignInv, Tasks
  <2>8. RecipeInv'
    BY <1>2, <2>2, <2>7, RecipeParts DEF Aligning
  <2>9. Idle'
    BY <1>1, <2>1, <2>2, IdleKept DEF Goes
  <2> QED BY <2>3, <2>5, <2>6, <2>8, <2>9
<1>6. ASSUME SetErrorAndReturn(t), UNCHANGED <<ctx, memory, machine, vision, results>>
      PROVE  RunInv'
  <2>1. Fail(t)
    BY <1>6 DEF Fail
  <2> QED BY <1>1, <2>1, FailErrs, ErrsKeeps
<1>7. CASE SaveTeachingPositions
  <2>1. PICK n \in 0..Len(positions) :
          /\ taught' = taught \cup {[loc |-> positions[i].loc, xy |-> positions[i].xy] : i \in 1..n}
          /\ \/ NextTask /\ UNCHANGED <<phase, deadline>>
             \/ SetErrorAndReturn(t)
    BY <1>7 DEF SaveTeachingPositions
  <2>2. UNCHANGED <<kind, stop, positions, target, count, aligned, scan, z, xy, lit, asked, latest,
                    saved>>
    BY <1>7 DEF SaveTeachingPositions, ctx, memory, machine, vision
  <2>3. taught' \subseteq [loc : 0..3, xy : Points]
    <3>1. \A i \in 1..n : positions[i] \in Positions
      BY DEF CtxOK
    <3>2. \A i \in 1..n :
            [loc |-> positions[i].loc, xy |-> positions[i].xy] \in [loc : 0..3, xy : Points]
      BY <3>1 DEF Positions
    <3> QED BY <2>1, <3>2 DEF ResultsOK
  <2>4. CtxOK' /\ MemoryOK' /\ MachineOK' /\ VisionOK' /\ ResultsOK'
    BY <2>2, <2>3 DEF CtxOK, MemoryOK, MachineOK, VisionOK, ResultsOK
  <2>5. CASE NextTask /\ UNCHANGED <<phase, deadline>>
    <3>1. idx = Len(Recipe[kind]) /\ idx' = 4
      <4>1. Len(Recipe[kind]) = 3
        BY <1>2, RecipeLength DEF CtxOK
      <4> QED BY <1>2, <2>5, <4>1 DEF NextTask
    <3>2. /\ idx' \in 1..(Len(Recipe[kind']) + 1) /\ outcome' = "running"
          /\ Journeys' /\ Answers'
      BY <1>1, <1>3, <2>2, <2>5, <3>1, RunsOut DEF CommitPhases, vision
    <3>3. FrameOK'
      BY <2>5, <3>2 DEF FrameOK
    <3>4. StartInv' /\ AlignInv'
      BY <1>2, <2>2, <2>5, <3>1, <3>2 DEF RecipeInv, StartInv, AlignInv
    <3>5. RecipeInv'
      BY <1>2, <2>2, <3>4, RecipeParts DEF Aligning
    <3>6. Idle'
      BY <2>2, <2>5 DEF Idle
    <3> QED BY <2>4, <3>2, <3>3, <3>5, <3>6
  <2>6. CASE SetErrorAndReturn(t)
    <3>1. /\ phase' = [phase EXCEPT ![t] = "CS_ERROR"] /\ outcome' = "false" /\ idx' = idx
          /\ deadline' \in [Tasks -> {"none", "armed", "expired"}]
      BY <2>6 DEF SetErrorAndReturn, EnterState, FrameOK
    <3>2. FrameOK' /\ Journeys' /\ Answers'
      BY <2>2, <3>1 DEF FrameOK, Journeys, Underway, Answers
    <3>3. StartInv' /\ AlignInv'
      BY <3>1 DEF StartInv, AlignInv
    <3>4. RecipeInv'
      BY <1>2, <2>2, <3>3, RecipeParts DEF Aligning
    <3>5. Idle'
      BY <1>1, <2>2, <3>1, IdleKept
    <3> QED BY <2>4, <3>2, <3>4, <3>5
  <2> QED BY <2>1, <2>5, <2>6
<1>8. CASE ~SaveTeachingPositions
  <2>1. \/ \E s \in CommitPhases : EnterState(t, s) /\ Keep
        \/ SetErrorAndReturn(t)
    BY <1>8 DEF CommitTeaching, LoadFrom, CommitPhases
  <2>2. UNCHANGED <<ctx, memory, machine, vision, results>>
    BY <1>8 DEF CommitTeaching, LoadFrom
  <2> QED BY <1>5, <1>6, <2>1, <2>2
<1> QED BY <1>7, <1>8

\* CLoad1PerformCalibrationTask answers from the error state it starts in.
LEMMA CalibrationKeeps ==
  ASSUME RunInv, Calibration
  PROVE  RunInv'
<1> USE DEF RunInv, Base, Typed
<1> DEFINE t == "Calibration"
<1>1. /\ Polled(t) /\ outcome' = "false" /\ phase[t] = "CS_ERROR"
      /\ UNCHANGED <<kind, stop, positions, idx, phase, deadline, target, count, aligned, scan,
                     z, xy, lit, asked, latest, saved, taught>>
  BY DEF Calibration, At, Polled, ctx, memory, machine, vision, results
<1>2. CtxOK' /\ FrameOK' /\ MemoryOK' /\ MachineOK' /\ VisionOK' /\ ResultsOK'
  BY <1>1 DEF CtxOK, FrameOK, MemoryOK, MachineOK, VisionOK, ResultsOK
<1>3. Journeys' /\ Answers'
  BY <1>1 DEF Journeys, Underway, Answers
<1>4. kind = "LowCamCheck"
  BY <1>1, PolledTask
<1>5. StartInv'
  BY <1>1 DEF StartInv
<1>6. RecipeInv' /\ Idle'
  BY <1>1, <1>4, <1>5, RecipeParts DEF Idle
<1> QED BY <1>2, <1>3, <1>6

-----------------------------------------------------------------------------
(* CLoad1PerformFocusScanningTask. *)

\* A task that goes on without a request, with what it changes well typed.
LEMMA BaseKept ==
  ASSUME CtxOK, FrameOK, NEW t \in Tasks, Polled(t), NEW s, s # "VisionWait", Goes(t, s),
         kind' = kind, asked' = FALSE, Journey(t)',
         CtxOK', MemoryOK', MachineOK', VisionOK', ResultsOK'
  PROVE  Base'
<1>1. FrameOK' /\ Journeys'
  BY GoesOn
<1>2. Answers'
  BY Unasked
<1> QED BY <1>1, <1>2 DEF Base, Typed

\* A move of FocusScanning leaves the list of positions alone.
LEMMA FocusGoes ==
  ASSUME RunInv, Polled("FocusScanning"), Base', NEW s, Goes("FocusScanning", s),
         UNCHANGED <<ctx, memory>>
  PROVE  RunInv'
<1> USE DEF RunInv, Base, Typed, RecipeInv
<1> DEFINE t == "FocusScanning"
<1>1. t \in Tasks /\ kind = "ZFocus" /\ idx = 2 /\ UNCHANGED <<kind, positions, idx, outcome>>
  BY PolledTask DEF Goes, ctx
<1>2. \A u \in Tasks \ {t} : phase'[u] = phase[u]
  BY DEF Goes, FrameOK
<1>3. StartInv' /\ FocusInv'
  BY <1>1, <1>2 DEF StartInv, FocusInv, Tasks
<1>4. RecipeInv'
  BY <1>1, <1>3, RecipeParts
<1>5. Idle'
  BY <1>1, IdleKept DEF Goes
<1> QED BY <1>4, <1>5

\* The position is gone whether or not its result could be saved.
LEMMA SaveFocusKeeps ==
  ASSUME RunInv, outcome = "running", At("FocusScanning", "SaveFocusResult"), positions # <<>>,
         SaveFocus
  PROVE  RunInv'
<1> USE DEF RunInv, Base, Typed
<1> DEFINE t == "FocusScanning"
<1>1. Polled(t) /\ phase[t] = "SaveFocusResult" /\ t \in Tasks /\ kind = "ZFocus" /\ idx = 2
  BY PolledState, PolledTask
<1>2. positions = <<Position(1)>> /\ Len(positions) = 1 /\ Tail(positions) \in Seq(Positions)
  BY <1>1 DEF RecipeInv, FocusInv, CtxOK
<1>3. /\ positions' = Tail(positions)
      /\ UNCHANGED <<kind, stop, target, count, aligned, scan, z, xy, lit, asked, latest, saved,
                     taught>>
  BY DEF SaveFocus, memory, machine, vision, results
<1>4. CtxOK' /\ MemoryOK' /\ MachineOK' /\ VisionOK' /\ ResultsOK'
  BY <1>2, <1>3 DEF CtxOK, MemoryOK, MachineOK, VisionOK, ResultsOK
<1>5. CASE SetErrorAndReturn(t)
  <2>1. /\ phase' = [phase EXCEPT ![t] = "CS_ERROR"] /\ outcome' = "false" /\ idx' = idx
        /\ deadline' \in [Tasks -> {"none", "armed", "expired"}]
    BY <1>5 DEF SetErrorAndReturn, EnterState, FrameOK
  <2>2. FrameOK' /\ Journeys' /\ Answers'
    BY <1>3, <2>1 DEF FrameOK, Journeys, Underway, Answers
  <2>3. StartInv' /\ FocusInv'
    BY <2>1 DEF StartInv, FocusInv
  <2>4. RecipeInv'
    BY <1>1, <1>3, <2>3, RecipeParts
  <2>5. Idle'
    BY <1>1, <1>3, <2>1, IdleKept
  <2> QED BY <1>4, <2>2, <2>4, <2>5
<1>6. CASE NextTask /\ UNCHANGED <<phase, deadline>>
  <2>1. idx = Len(Recipe[kind]) /\ idx' = 3
    <3>1. Len(Recipe[kind]) = 2
      BY <1>1, RecipeLength DEF CtxOK, Starting
    <3> QED BY <1>1, <1>6, <3>1 DEF NextTask
  <2>2. /\ idx' \in 1..(Len(Recipe[kind']) + 1) /\ outcome' = "running"
        /\ Journeys' /\ Answers'
    BY <1>1, <1>3, <1>6, <2>1, RunsOut DEF vision
  <2>3. FrameOK'
    BY <1>6, <2>2 DEF FrameOK
  <2>4. StartInv' /\ FocusInv'
    BY <1>1, <1>3, <1>6, <2>1 DEF RecipeInv, StartInv, FocusInv, Starting
  <2>5. RecipeInv'
    BY <1>1, <1>3, <2>4, RecipeParts
  <2>6. Idle'
    BY <1>3, <1>6 DEF Idle
  <2> QED BY <1>4, <2>2, <2>3, <2>5, <2>6
<1> QED BY <1>2, <1>5, <1>6 DEF SaveFocus

\* A poll of FocusScanning.
LEMMA FocusScanningKeeps ==
  ASSUME RunInv, outcome = "running", FocusScanning
  PROVE  RunInv'
<1> DEFINE t == "FocusScanning"
           goal == PeekVisionPosition(positions)
<1> USE DEF RunInv
<1>t. Polled(t) /\ t \in Tasks /\ Base /\ kind = "ZFocus"
  <2>1. Polled(t)
    BY DEF FocusScanning, At, Polled
  <2> QED BY <2>1, PolledTask DEF Base, Typed
<1>e. Errs(t) => RunInv'
  BY <1>t, ErrsKeeps
<1>f. Fail(t) => RunInv'
  BY <1>e, FailErrs
<1>s. Stay => RunInv'
  BY StayKeeps DEF Stay
<1>g. Goal(t) = goal /\ goal \in Positions /\ Journey(t)
  <2>1. goal \in Positions
    <3>1. NoPosition \in Positions
      BY HomePlace DEF NoPosition, Positions
    <3> QED BY <3>1 DEF PeekVisionPosition, Base, Typed, CtxOK
  <2> QED BY <1>t, <2>1 DEF Goal, Base, Journeys, Underway
<1>1. CASE At(t, "MoveDown") /\ FocusDown
  <2>1. phase[t] = "MoveDown"
    BY <1>1 DEF At
  <2>2. Goes(t, "MoveWait")
    BY <1>t, <1>1, EnterGoes DEF FocusDown, Base, Typed
  <2>3. z' = [z EXCEPT !.cmd = goal.z] /\ UNCHANGED <<xy, lit, ctx, memory, vision, results>>
    BY <1>1 DEF FocusDown, MoveZ
  <2>4. goal' = goal
    BY <2>3 DEF ctx, PeekVisionPosition
  <2>5. MachineOK' /\ z'.cmd = goal.z
    BY <1>g, <2>3 DEF Base, Typed, MachineOK, Positions
  <2>6. Journey(t)'
    BY <1>t, <1>g, <2>2, <2>3, <2>4, <2>5
    DEF Goes, FrameOK, Base, Typed, Journey, Goal, Homing, Approaching, There
  <2>7. CtxOK' /\ MemoryOK' /\ VisionOK' /\ ResultsOK'
    BY <2>3 DEF Base, Typed, CtxOK, MemoryOK, VisionOK, ResultsOK, ctx, memory, vision, results
  <2>8. asked' = FALSE
    BY <1>t, <2>1, <2>3, NotAsked DEF vision
  <2>9. Base'
    BY <1>t, <2>2, <2>3, <2>5, <2>6, <2>7, <2>8, BaseKept DEF Base, Typed, ctx
  <2> QED BY <1>t, <2>2, <2>3, <2>9, FocusGoes
<1>2. CASE /\ At(t, "MoveWait") /\ z.at = goal.z
           /\ EnterStateWithTimeout(t, "VisionRequest") /\ Keep
           /\ UNCHANGED <<ctx, memory, machine, vision, results>>
  <2>1. phase[t] = "MoveWait"
    BY <1>2 DEF At
  <2>2. Goes(t, "VisionRequest")
    BY <1>t, <1>2, EnterGoes DEF Base, Typed
  <2>4. goal' = goal
    BY <1>2 DEF ctx, PeekVisionPosition
  <2>6. Journey(t)'
    BY <1>t, <1>g, <1>2, <2>1, <2>2, <2>4
    DEF Goes, FrameOK, Base, Typed, Journey, Goal, Homing, Approaching, There, machine
  <2>7. CtxOK' /\ MemoryOK' /\ VisionOK' /\ ResultsOK' /\ MachineOK'
    BY <1>2 DEF Base, Typed, CtxOK, MemoryOK, VisionOK, ResultsOK, MachineOK, ctx, memory, vision,
                results, machine
  <2>8. asked' = FALSE
    BY <1>t, <1>2, <2>1, NotAsked DEF vision
  <2>9. Base'
    BY <1>t, <1>2, <2>2, <2>6, <2>7, <2>8, BaseKept DEF Base, Typed, ctx
  <2> QED BY <1>t, <1>2, <2>2, <2>9, FocusGoes
<1>3. CASE At(t, "VisionRequest") /\ RequestMeasure(t)
  <2>1. phase[t] = "VisionRequest"
    BY <1>3 DEF At
  <2>2. z.at = Goal(t).z
    BY <1>g, <2>1 DEF Journey
  <2>3. Errs(t) \/ (Base' /\ Took(t, "VisionWait") /\ xy' = xy)
    BY <1>t, <1>3, <2>1, <2>2, RequestMoves
  <2> QED BY <1>t, <1>e, <2>3, FocusGoes DEF Took
<1>4. CASE /\ At(t, "VisionWait") /\ latest.valid
           /\ SetLightState(FALSE)
           /\ EnterState(t, "ReturnHome") /\ Keep
           /\ UNCHANGED <<ctx, memory, vision, results>>
  <2>1. phase[t] = "VisionWait"
    BY <1>4 DEF At
  <2>2. Goes(t, "ReturnHome")
    BY <1>t, <1>4, EnterGoes DEF Base, Typed
  <2>3. UNCHANGED <<z, xy>> /\ lit' = FALSE
    BY <1>4 DEF SetLightState
  <2>4. goal' = goal
    BY <1>4 DEF ctx, PeekVisionPosition
  <2>6. Journey(t)'
    BY <1>t, <1>g, <2>1, <2>2, <2>3, <2>4
    DEF Goes, FrameOK, Base, Typed, Journey, Goal, Homing, Approaching, There
  <2>7. CtxOK' /\ MemoryOK' /\ VisionOK' /\ ResultsOK' /\ MachineOK'
    BY <1>4, <2>3 DEF Base, Typed, CtxOK, MemoryOK, VisionOK, ResultsOK, MachineOK, ctx, memory,
                      vision, results
  <2>8. asked' = FALSE
    BY <1>t, <1>4, <2>1, AnswerIsOfGoal DEF vision
  <2>9. Base'
    BY <1>t, <1>4, <2>2, <2>6, <2>7, <2>8, BaseKept DEF Base, Typed, ctx
  <2> QED BY <1>t, <1>4, <2>2, <2>9, FocusGoes
<1>5. CASE At(t, "ReturnHome") /\ RaiseZ(t, "SaveFocusResult")
  <2>1. phase[t] = "ReturnHome"
    BY <1>5 DEF At
  <2>2. Base' /\ Took(t, "SaveFocusResult")
    BY <1>t, <1>5, <2>1, RaiseZMoves DEF Travelling, Homing, Approaching, There
  <2> QED BY <1>t, <2>2, FocusGoes DEF Took
<1>6. CASE At(t, "SaveFocusResult") /\ positions # <<>> /\ SaveFocus
  BY <1>6, SaveFocusKeeps
<1> QED BY <1>f, <1>s, <1>1, <1>2, <1>3, <1>4, <1>5, <1>6 DEF FocusScanning, Await

-----------------------------------------------------------------------------
(* CLoad1PerformPCDScanningTask. *)

\* A step of PCDScanning that takes no picture.
LEMMA PCDTook ==
  ASSUME RunInv, Polled("PCDScanning"), Base', NEW s, Took("PCDScanning", s),
         s \in {"CalculatePCD", "SavePCDResult"} => phase["PCDScanning"] = "CalculatePCD"
  PROVE  RunInv'
<1> USE DEF RunInv, Base, Typed, RecipeInv
<1> DEFINE t == "PCDScanning"
<1>1. /\ t \in Tasks /\ kind = "PCD" /\ idx = 2
      /\ UNCHANGED <<kind, positions, idx, outcome, target, count, scan>>
  BY PolledTask DEF Took, Goes, ctx, memory
<1>2. phase'[t] = s /\ \A u \in Tasks \ {t} : phase'[u] = phase[u]
  BY <1>1 DEF Took, Goes, FrameOK
<1>3. StartInv' /\ PCDInv'
  BY <1>1, <1>2 DEF StartInv, PCDInv, Tasks
<1>4. RecipeInv'
  BY <1>1, <1>3, RecipeParts
<1>5. Idle'
  BY <1>1, IdleKept DEF Took, Goes
<1> QED BY <1>4, <1>5

\* A position of the PCD recipe, moved to a point of the machine.
OnAxis(point) == [loc |-> 1, xy |-> point, z |-> 1]

\* Moving such a position moves its point and nothing else.
LEMMA OnAxisMoves ==
  ASSUME NEW x
  PROVE  /\ [Position(1) EXCEPT !.xy = x] = OnAxis(x)
         /\ OnAxis(x).xy = x
         /\ \A y : [OnAxis(x) EXCEPT !.xy = y] = OnAxis(y)
         /\ x \in Points => OnAxis(x) \in Targets /\ OnAxis(x) \in Positions
BY DEF Position, OnAxis, Targets, Positions, Places

\* A place and its corrections are points.
LEMMA PlacePoints ==
  \A i \in 0..3, j \in 0..MaxInspections + 1 : <<i, j>> \in Points /\ <<i, j>> \in Places
BY BoundsAssumption DEF Points, Places

\* What the PCD scan knows of the place at which it takes an answer.
LEMMA PCDPlace ==
  ASSUME RunInv, kind = "PCD"
  PROVE  /\ count["PCDScanning"] \in 0..MaxInspections
         /\ LET p == IF scan.started THEN 2 ELSE 1
            IN  /\ positions = <<OnAxis(<<p, 0>>)>>
                /\ target["PCDScanning"] = OnAxis(<<p, count["PCDScanning"]>>)
         /\ scan.started => scan.first.at = <<1, MaxInspections>>
<1>1. "PCDScanning" \in Tasks
  BY DEF Tasks
<1>2. count["PCDScanning"] \in 0..MaxInspections
  BY <1>1 DEF RunInv, Base, Typed, MemoryOK
<1>3. PCDInv
  BY DEF RunInv, RecipeInv
<1> QED BY <1>2, <1>3, OnAxisMoves DEF PCDInv

\* The repeats at a place correct it; the answer after them is measured there.
LEMMA TakePCDKeeps ==
  ASSUME RunInv, outcome = "running", At("PCDScanning", "VisionWait"), latest.valid,
         UNCHANGED <<vision, results, z, xy>>, lit' = FALSE, TakePCD
  PROVE  RunInv'
<1> USE DEF RunInv, Base, Typed
<1> DEFINE t == "PCDScanning"
           p == IF scan.started THEN 2 ELSE 1
           k == count[t]
<1>1. Polled(t) /\ phase[t] = "VisionWait" /\ t \in Tasks /\ kind = "PCD" /\ idx = 2
  BY PolledState, PolledTask
<1>2. asked' = FALSE /\ xy.at = Goal(t).xy
  BY <1>1, AnswerIsOfGoal DEF vision
<1>3. /\ target[t] = OnAxis(<<p, k>>) /\ positions = <<OnAxis(<<p, 0>>)>>
      /\ k \in 0..MaxInspections /\ p \in 1..2
      /\ scan.started => scan.first.at = <<1, MaxInspections>>
  BY <1>1, PCDPlace
<1>4. xy.at = <<p, k>>
  BY <1>2, <1>3, OnAxisMoves DEF Goal
<1>5. MachineOK' /\ VisionOK' /\ ResultsOK'
  BY DEF MachineOK, VisionOK, ResultsOK, vision, results
<1>6. MaxInspections \in Nat \ {0}
  BY BoundsAssumption
<1>7. CASE k < MaxInspections
  <2> DEFINE here == OnAxis(<<p, k + 1>>)
  <2>1. /\ target' = [target EXCEPT ![t].xy = Corrected(@)] /\ count' = [count EXCEPT ![t] = k + 1]
        /\ EnterState(t, "MoveSafeZ") /\ Keep /\ UNCHANGED <<ctx, aligned, scan>>
    BY <1>7 DEF TakePCD, CorrectTarget
  <2>2. Goes(t, "MoveSafeZ")
    BY <1>1, <2>1, EnterGoes
  <2>3. target' = [target EXCEPT ![t] = here]
    <3>1. target' = [target EXCEPT ![t] = [target[t] EXCEPT !.xy = Corrected(target[t].xy)]]
      BY <2>1
    <3>2. Corrected(target[t].xy) = <<p, k + 1>>
      BY <1>3, OnAxisMoves DEF Corrected
    <3>3. [target[t] EXCEPT !.xy = <<p, k + 1>>] = here
      BY <1>3, OnAxisMoves
    <3> QED BY <3>1, <3>2, <3>3
  <2>4. here \in Targets
    BY <1>3, <1>6, <1>7, PlacePoints, OnAxisMoves
  <2>5. MemoryOK' /\ count'[t] = k + 1 /\ target'[t] = here
    <3>1. target' \in [Tasks -> Targets] /\ target'[t] = here
      BY <1>1, <2>3, <2>4 DEF MemoryOK
    <3>2. count' \in [Tasks -> 0..MaxInspections] /\ count'[t] = k + 1
      BY <1>1, <1>3, <1>6, <1>7, <2>1 DEF MemoryOK
    <3> QED BY <2>1, <3>1, <3>2 DEF MemoryOK
  <2>6. CtxOK' /\ UNCHANGED <<kind, positions, scan>>
    BY <2>1 DEF CtxOK, ctx
  <2>7. Journey(t)'
    BY <1>1, <2>2 DEF Goes, FrameOK, Journey, Homing, Approaching, There
  <2>8. Base'
    BY <1>1, <1>2, <1>5, <2>2, <2>5, <2>6, <2>7, BaseKept
  <2>9. /\ phase'[t] = "MoveSafeZ" /\ UNCHANGED <<idx, outcome>>
        /\ \A u \in Tasks \ {t} : phase'[u] = phase[u]
    BY <1>1, <2>2 DEF Goes, FrameOK
  <2>10. StartInv'
    BY <1>1, <2>6, <2>9 DEF RecipeInv, StartInv, Tasks
  <2>11. PCDInv'
    BY <1>1, <1>3, <2>5, <2>6, <2>9, OnAxisMoves DEF PCDInv
  <2>12. RecipeInv'
    BY <1>1, <2>6, <2>10, <2>11, RecipeParts
  <2>13. Idle'
    BY <1>1, <2>2, <2>6, IdleKept DEF Goes
  <2> QED BY <2>8, <2>12, <2>13
<1>8. CASE ~(k < MaxInspections) /\ scan.started
  <2>1. /\ scan' = [scan EXCEPT !.last = Pulse]
        /\ EnterState(t, "CalculatePCD") /\ Keep /\ UNCHANGED <<ctx, target, count, aligned>>
    BY <1>8 DEF TakePCD, MeasurePulse
  <2>2. Goes(t, "CalculatePCD")
    BY <1>1, <2>1, EnterGoes
  <2>3. scan'.last.at = <<2, MaxInspections>> /\ scan'.started /\ scan'.first = scan.first
    BY <1>3, <1>4, <1>6, <1>8, <2>1 DEF MemoryOK, Pulse
  <2>4. MemoryOK'
    BY <2>1 DEF MemoryOK
  <2>5. CtxOK' /\ UNCHANGED <<kind, positions, target, count>>
    BY <2>1 DEF CtxOK, ctx
  <2>6. Journey(t)'
    BY <1>1, <2>2 DEF Goes, FrameOK, Journey, Homing, Approaching, There
  <2>7. Base'
    BY <1>1, <1>2, <1>5, <2>2, <2>4, <2>5, <2>6, BaseKept
  <2>8. /\ phase'[t] = "CalculatePCD" /\ UNCHANGED <<idx, outcome>>
        /\ \A u \in Tasks \ {t} : phase'[u] = phase[u]
    BY <1>1, <2>2 DEF Goes, FrameOK
  <2>9. StartInv'
    BY <1>1, <2>5, <2>8 DEF RecipeInv, StartInv, Tasks
  <2>10. PCDInv'
    BY <1>1, <1>3, <1>8, <2>3, <2>5, <2>8, OnAxisMoves DEF PCDInv
  <2>11. RecipeInv'
    BY <1>1, <2>5, <2>9, <2>10, RecipeParts
  <2>12. Idle'
    BY <1>1, <2>2, <2>5, IdleKept DEF Goes
  <2> QED BY <2>7, <2>11, <2>12
<1>9. CASE ~(k < MaxInspections) /\ ~scan.started
  <2> DEFINE next == OnAxis(<<2, 0>>)
  <2>1. Pitched(target[t]) = next
    <3>1. target[t] = OnAxis(<<1, k>>)
      BY <1>3, <1>9
    <3>2. target[t].xy[1] + 1 = 2
      BY <3>1, OnAxisMoves
    <3> QED BY <3>1, <3>2, OnAxisMoves DEF Pitched
  <2>2. /\ scan' = [scan EXCEPT !.started = TRUE, !.first = Pulse]
        /\ target' = [target EXCEPT ![t] = next]
        /\ positions' = Append(Tail(positions), [Head(positions) EXCEPT !.xy = next.xy])
        /\ count' = [count EXCEPT ![t] = 0]
        /\ EnterState(t, "VisionRequest") /\ PrevTask
        /\ UNCHANGED <<kind, stop, aligned>>
    BY <1>9, <2>1 DEF TakePCD, MeasurePulse
  <2>3. positions' = <<next>>
    <3>1. Head(positions) = OnAxis(<<p, 0>>) /\ Tail(positions) = <<>>
      BY <1>3
    <3>2. [OnAxis(<<p, 0>>) EXCEPT !.xy = next.xy] = next
      BY OnAxisMoves
    <3>3. positions' = Append(<<>>, next)
      BY <2>2, <3>1, <3>2
    <3> HIDE DEF next
    <3> QED BY <3>3
  <2>4. /\ idx' = 1 /\ outcome' = "running" /\ phase' = [phase EXCEPT ![t] = "VisionRequest"]
        /\ deadline' \in [Tasks -> {"none", "armed", "expired"}]
    BY <1>1, <2>2 DEF PrevTask, EnterState, FrameOK
  <2>5. phase'[t] = "VisionRequest" /\ \A u \in Tasks \ {t} : phase'[u] = phase[u]
    BY <1>1, <2>4 DEF FrameOK
  <2>6. phase'["MoveToStart"] = "MoveSafeZ"
    BY <1>1, <2>5 DEF RecipeInv, StartInv, Starting, Tasks
  <2>n. next \in Targets /\ next \in Positions
    BY <1>6, PlacePoints, OnAxisMoves
  <2>7. CtxOK'
    <3>1. positions' \in Seq(Positions)
      <4> HIDE DEF next
      <4> QED BY <2>3, <2>n
    <3> QED BY <2>2, <3>1 DEF CtxOK
  <2>8. FrameOK'
    <3>1. 1 \in 1..(Len(Recipe[kind]) + 1)
      BY RecipeLength DEF CtxOK
    <3> QED BY <2>2, <2>4, <3>1 DEF FrameOK
  <2>9. /\ target'[t] = next /\ count'[t] = 0 /\ scan'.started
        /\ scan'.first.at = <<1, MaxInspections>>
    <3>1. xy.at = <<1, MaxInspections>>
      BY <1>3, <1>4, <1>6, <1>9
    <3> QED BY <1>1, <2>2, <3>1 DEF MemoryOK, Pulse
  <2>10. MemoryOK'
    <3>1. target' \in [Tasks -> Targets]
      BY <2>2, <2>n DEF MemoryOK
    <3>2. count' \in [Tasks -> 0..MaxInspections]
      <4>1. count' = [count EXCEPT ![t] = 0] /\ 0 \in 0..MaxInspections
        BY <1>6, <2>2
      <4> QED BY <4>1 DEF MemoryOK
    <3> QED BY <2>2, <3>1, <3>2 DEF MemoryOK
  <2>11. ASSUME NEW u, Underway(u)' PROVE u = "MoveToStart"
    <3>1. 1 \in 1..Len(Recipe[kind]) /\ Recipe[kind][1] = u /\ kind \in Kinds
      BY <1>1, <2>2, <2>4, <2>11, RecipeLength DEF Underway, Polled, CtxOK
    <3> QED BY <1>1, <3>1, RecipeEntry DEF Starting
  <2>12. Journeys'
    BY <2>6, <2>11 DEF Journeys, Journey, Homing, Approaching, There
  <2>13. Answers'
    <3>1. Waiting' => \E u : Underway(u)' /\ phase'[u] = "VisionWait"
      BY DEF Waiting, Underway, Polled
    <3> QED BY <1>2, <2>6, <2>11, <3>1 DEF Answers
  <2>14. StartInv'
    BY <1>1, <2>2, <2>4, <2>5, <2>6 DEF RecipeInv, StartInv, Starting, Tasks
  <2>15. PCDInv'
    <3>1. [Position(1) EXCEPT !.xy = <<2, 0>>] = next
      BY OnAxisMoves
    <3> HIDE DEF next
    <3> QED BY <1>1, <2>2, <2>3, <2>4, <2>5, <2>9, <3>1 DEF PCDInv
  <2>16. RecipeInv'
    BY <1>1, <2>2, <2>14, <2>15, RecipeParts
  <2>17. Idle'
    BY <1>1, <2>2, <2>4, IdleKept
  <2> QED BY <1>5, <2>7, <2>8, <2>10, <2>12, <2>13, <2>16, <2>17
<1> QED BY <1>7, <1>8, <1>9

\* A task that is the last of its recipe and has nothing left to do.
LEMMA LastKeeps ==
  ASSUME RunInv, outcome = "running", NEW t, Polled(t), phase[t] # "VisionWait",
         t \in {"PCDScanning", "Backlash", "FOVScanning", "PickerFOVScanning", "HandPitchScanning"},
         phase[t] # "MoveSafeZ",
         NextTask, UNCHANGED <<phase, deadline, ctx, memory, vision, results, xy>>, MachineOK'
  PROVE  RunInv'
<1> USE DEF RunInv, Base, Typed
<1>1. UNCHANGED <<kind, stop, positions, phase, deadline, target, count, aligned, scan, xy,
                  asked, latest, saved, taught>>
  BY DEF ctx, memory, vision, results
<1>t. \/ t = "PCDScanning" /\ kind = "PCD" /\ idx = 2
      \/ kind = t /\ t = "Backlash"
      \/ kind = "FOV" /\ t = "FOVScanning"
      \/ kind = "PickerFOV" /\ t = "PickerFOVScanning"
      \/ kind = "HandPitch" /\ t = "HandPitchScanning"
  BY PolledTask
<1>2. idx = Len(Recipe[kind]) /\ idx' = idx + 1
  <2>1. kind = "PCD" => Len(Recipe[kind]) = 2
    BY RecipeLength DEF CtxOK, Starting
  <2>2. kind \in {"Backlash", "FOV", "PickerFOV", "HandPitch"} => Len(Recipe[kind]) = 1
    BY RecipeLength DEF CtxOK, Starting
  <2>3. idx \in Nat /\ idx >= 1 /\ idx <= Len(Recipe[kind])
    BY <2>1, <2>2, <1>t DEF FrameOK, Polled
  <2>4. idx' = idx + 1
    BY DEF NextTask
  <2>5. CASE kind = "PCD" /\ idx = 2
    BY <2>1, <2>4, <2>5
  <2>6. CASE kind \in {"Backlash", "FOV", "PickerFOV", "HandPitch"}
    <3>1. Len(Recipe[kind]) = 1
      BY <2>2, <2>6
    <3>2. idx = 1
      BY <2>3, <3>1
    <3> QED BY <2>4, <3>1, <3>2
  <2> QED BY <1>t, <2>5, <2>6
<1>3. idx' \in 1..(Len(Recipe[kind']) + 1) /\ outcome' = "running" /\ Journeys' /\ Answers'
  BY <1>1, <1>2, RunsOut DEF vision
<1>4. CtxOK' /\ FrameOK' /\ MemoryOK' /\ VisionOK' /\ ResultsOK'
  BY <1>1, <1>3 DEF CtxOK, FrameOK, MemoryOK, VisionOK, ResultsOK
<1>5. RecipeInv'
  <2> USE DEF RecipeInv
  <2>1. CASE kind = "PCD"
    <3>1. idx = 2 /\ idx' = 3
      <4>1. Len(Recipe[kind]) = 2
        BY <2>1, RecipeLength DEF CtxOK, Starting
      <4> QED BY <1>2, <4>1
    <3>2. StartInv' /\ PCDInv'
      BY <1>1, <1>t, <2>1, <3>1 DEF StartInv, PCDInv
    <3> QED BY <1>1, <2>1, <3>2, RecipeParts
  <2>2. CASE kind = "Backlash"
    <3>1. BacklashInv'
      BY <1>1 DEF BacklashInv
    <3> QED BY <1>1, <2>2, <3>1, RecipeParts
  <2>3. CASE kind = "FOV"
    <3>1. FOVInv'
      BY <1>1, <1>t, <2>3 DEF FOVInv, Shot
    <3> QED BY <1>1, <2>3, <3>1, RecipeParts
  <2>4. CASE kind = "PickerFOV"
    <3>1. PickerInv'
      BY <1>1, <1>t, <2>4 DEF PickerInv, PickerPlace
    <3> QED BY <1>1, <2>4, <3>1, RecipeParts
  <2>5. CASE kind = "HandPitch"
    <3>1. PitchInv'
      BY <1>1 DEF PitchInv, AtCentre
    <3> QED BY <1>1, <2>5, <3>1, RecipeParts
  <2> QED BY <1>t, <2>1, <2>2, <2>3, <2>4, <2>5
<1>6. Idle'
  BY <1>1 DEF Idle
<1> QED BY <1>3, <1>4, <1>5, <1>6

\* A poll of PCDScanning.
LEMMA PCDScanningKeeps ==
  ASSUME RunInv, outcome = "running", PCDScanning
  PROVE  RunInv'
<1> DEFINE t == "PCDScanning"
<1> USE DEF RunInv
<1>t. Polled(t) /\ t \in Tasks /\ Base
  BY DEF PCDScanning, At, Polled, Tasks
<1>e. Errs(t) => RunInv'
  BY <1>t, ErrsKeeps
<1>f. Fail(t) => RunInv'
  BY <1>e, FailErrs
<1>s. Stay => RunInv'
  BY StayKeeps DEF Stay
<1>k. ASSUME NEW s, s \notin {"CalculatePCD", "SavePCDResult"}, Base', Took(t, s) PROVE RunInv'
  BY <1>t, <1>k, PCDTook
<1>1. CASE At(t, "MoveSafeZ") /\ RaiseZ(t, "MoveOrigin")
  <2>1. phase[t] = "MoveSafeZ"
    BY <1>1 DEF At
  <2>2. Base' /\ Took(t, "MoveOrigin")
    BY <1>t, <1>1, <2>1, RaiseZMoves DEF Travelling, Homing, Approaching, There
  <2> QED BY <1>k, <2>2
<1>2. CASE At(t, "MoveOrigin") /\ LeaveForOrigin(t, "MoveTargetPositionXY")
  <2>1. phase[t] = "MoveOrigin"
    BY <1>2 DEF At
  <2>2. Fail(t) \/ Stay \/ (Base' /\ Took(t, "MoveTargetPositionXY"))
    BY <1>t, <1>2, <2>1, LeaveForOriginMoves DEF Homing
  <2> QED BY <1>f, <1>s, <1>k, <2>2
<1>3. CASE At(t, "MoveTargetPositionXY") /\ LeaveForTarget(t, "MoveFocusPositionZ", FALSE)
  <2>1. phase[t] = "MoveTargetPositionXY"
    BY <1>3 DEF At
  <2>2. Fail(t) \/ Stay \/ (Base' /\ Took(t, "MoveFocusPositionZ"))
    BY <1>t, <1>3, <2>1, LeaveForTargetMoves DEF Approaching
  <2> QED BY <1>f, <1>s, <1>k, <2>2
<1>4. CASE At(t, "MoveFocusPositionZ") /\ LowerZ(t, "VisionRequest", FALSE)
  <2>1. phase[t] = "MoveFocusPositionZ"
    BY <1>4 DEF At
  <2>2. Fail(t) \/ Stay \/ (Base' /\ Took(t, "VisionRequest") /\ xy' = xy)
    BY <1>t, <1>4, <2>1, LowerZMoves DEF Approaching
  <2> QED BY <1>f, <1>s, <1>k, <2>2
<1>5. CASE At(t, "VisionRequest") /\ RequestAtFocus(t)
  <2>1. phase[t] = "VisionRequest"
    BY <1>5 DEF At
  <2>2. Errs(t) \/ Stay \/ (Base' /\ Took(t, "VisionWait"))
    BY <1>t, <1>5, <2>1, RequestAtFocusMoves
  <2> QED BY <1>e, <1>s, <1>k, <2>2
<1>6. CASE At(t, "VisionWait") /\ AwaitAnswer(t, TakePCD)
  <2>1. \/ Fail(t) \/ Stay
        \/ TakePCD /\ latest.valid /\ UNCHANGED <<vision, results, z, xy>> /\ lit' = FALSE
    BY <1>6 DEF AwaitAnswer, SetLightState
  <2> QED BY <1>6, <1>f, <1>s, <2>1, TakePCDKeeps
<1>7. CASE /\ At(t, "CalculatePCD")
           /\ EnterState(t, "SavePCDResult") /\ Keep
           /\ UNCHANGED <<ctx, memory, machine, vision, results>>
  <2> USE DEF Base, Typed
  <2>1. phase[t] = "CalculatePCD"
    BY <1>7 DEF At
  <2>2. Goes(t, "SavePCDResult")
    BY <1>t, <1>7, EnterGoes
  <2>3. CtxOK' /\ MemoryOK' /\ VisionOK' /\ ResultsOK' /\ MachineOK' /\ kind' = kind
    BY <1>7 DEF CtxOK, MemoryOK, VisionOK, ResultsOK, MachineOK, ctx, memory, vision, results,
                machine
  <2>4. asked' = FALSE
    BY <1>t, <1>7, <2>1, NotAsked DEF vision
  <2>5. Journey(t)'
    BY <1>t, <2>2 DEF Goes, FrameOK, Journey, Homing, Approaching, There
  <2>6. Base'
    BY <1>t, <2>2, <2>3, <2>4, <2>5, BaseKept
  <2>7. Took(t, "SavePCDResult")
    BY <1>7, <2>2 DEF Took
  <2> QED BY <1>t, <2>1, <2>6, <2>7, PCDTook
<1>8. CASE /\ At(t, "SavePCDResult")
           /\ NextTask
           /\ UNCHANGED <<phase, deadline, ctx, memory, machine, vision, results>>
  <2>1. phase[t] = "SavePCDResult"
    BY <1>8 DEF At
  <2>2. MachineOK' /\ UNCHANGED xy
    BY <1>8 DEF machine, MachineOK, Base, Typed
  <2> QED BY <1>t, <1>8, <2>1, <2>2, LastKeeps
<1> QED BY <1>1, <1>2, <1>3, <1>4, <1>5, <1>6, <1>7, <1>8 DEF PCDScanning

-----------------------------------------------------------------------------
(* CLoad1PerformBacklashScanningTask. *)

\* A task that is a recipe of its own only has its own invariant to see to.
LEMMA SoloGoes ==
  ASSUME RunInv, NEW t, Polled(t), NEW s, Goes(t, s), kind' = kind, Base',
         \/ t = "Backlash" /\ BacklashInv'
         \/ t = "FOVScanning" /\ FOVInv'
         \/ t = "PickerFOVScanning" /\ PickerInv'
         \/ t = "HandPitchScanning" /\ PitchInv'
  PROVE  RunInv'
<1> USE DEF RunInv, Base, Typed
<1>1. /\ t = "Backlash" => kind = "Backlash"
      /\ t = "FOVScanning" => kind = "FOV"
      /\ t = "PickerFOVScanning" => kind = "PickerFOV"
      /\ t = "HandPitchScanning" => kind = "HandPitch"
  BY PolledTask
<1>2. RecipeInv'
  BY <1>1, RecipeParts
<1>3. Idle'
  BY IdleKept DEF Goes
<1> QED BY <1>2, <1>3

\* XY sets out for the next point of the backlash scan.
LEMMA BacklashStepKeeps ==
  ASSUME RunInv, outcome = "running", Polled("Backlash"),
         NEW to \in Points, NEW s \in {"MoveEnd", "MoveZero", "MoveFocusZ"},
         phase["Backlash"] \in {"MoveStart", "MoveEnd", "MoveZero"},
         Step(to, s, "MoveStart"),
         s = "MoveEnd" => scan.started,
         s = "MoveZero" => to = IF scan.started THEN EndPosition ELSE StartPosition,
         s = "MoveFocusZ" => phase["Backlash"] = "MoveZero" /\ to = ZeroPosition
  PROVE  RunInv'
<1> DEFINE t == "Backlash"
<1> USE DEF RunInv, Base, Typed
<1>t. t \in Tasks /\ kind = "Backlash"
  BY PolledTask
<1>1. CASE Fail(t)
  BY <1>1, FailErrs, ErrsKeeps
<1>2. CASE Stay
  BY <1>2, StayKeeps DEF Stay
<1>3. CASE ~Fail(t) /\ ~Stay
  <2>1. /\ xy.at = target[t].xy
        /\ target' = [target EXCEPT ![t].xy = to]
        /\ xy' = [cmd |-> to, at |-> xy.at, from |-> xy.at] /\ UNCHANGED <<z, lit>>
        /\ scan' = [scan EXCEPT !.next = "MoveStart"]
        /\ EnterStateWithTimeout(t, s) /\ Keep
        /\ UNCHANGED <<ctx, count, aligned, vision, results>>
    BY <1>3 DEF Step, Await, Move
  <2>2. Goes(t, s)
    BY <1>t, <2>1, EnterGoes
  <2>3. to \in Places
    BY DEF Places
  <2>4. target' \in [Tasks -> Targets] /\ target'[t].xy = to
    <3>1. target[t] \in Targets
      BY <1>t DEF MemoryOK
    <3>2. [target[t] EXCEPT !.xy = to] \in Targets /\ [target[t] EXCEPT !.xy = to].xy = to
      BY <2>3, <3>1 DEF Targets
    <3> QED BY <1>t, <2>1, <3>2 DEF MemoryOK
  <2>5. /\ MemoryOK' /\ scan'.next = "MoveStart"
        /\ UNCHANGED <<scan.started, scan.speed, scan.first, scan.last>>
    BY <2>1, <2>4 DEF MemoryOK
  <2>6. CtxOK' /\ VisionOK' /\ ResultsOK' /\ MachineOK' /\ UNCHANGED kind
    BY <2>1, <2>3 DEF CtxOK, VisionOK, ResultsOK, MachineOK, ctx, vision, results
  <2>7. asked' = FALSE
    BY <1>t, <2>1, NotAsked DEF vision
  <2>8. phase'[t] = s
    BY <1>t, <2>2 DEF Goes, FrameOK
  <2>9. Journey(t)'
    BY <2>1, <2>4, <2>8 DEF Journey, Goal, Homing, Approaching, There
  <2>10. Base'
    BY <1>t, <2>2, <2>5, <2>6, <2>7, <2>9, BaseKept
  <2>11. xy'.from = target[t].xy
    BY <2>1
  <2>12. BacklashInv'
    BY <1>t, <2>4, <2>5, <2>8, <2>11 DEF BacklashInv, RecipeInv
  <2> QED BY <2>2, <2>6, <2>10, <2>12, SoloGoes
<1> QED BY <1>1, <1>2, <1>3

\* The answer at the zero position is of one side after the other.
LEMMA TakeBacklashKeeps ==
  ASSUME RunInv, outcome = "running", At("Backlash", "VisionWait"), latest.valid,
         UNCHANGED <<vision, results, z, xy>>, lit' = FALSE, TakeBacklash
  PROVE  RunInv'
<1> DEFINE t == "Backlash"
<1> USE DEF RunInv, Base, Typed
<1>1. Polled(t) /\ phase[t] = "VisionWait" /\ t \in Tasks /\ kind = "Backlash"
  BY PolledState, PolledTask
<1>2. asked' = FALSE /\ xy.at = target[t].xy /\ xy.cmd = target[t].xy
  BY <1>1, AnswerIsOfGoal DEF vision, Goal
<1>3. /\ scan.speed < Speeds /\ scan.next = "MoveStart" /\ target[t].xy = ZeroPosition
      /\ xy.from = IF scan.started THEN EndPosition ELSE StartPosition
      /\ scan.started => scan.first = FirstSide
  BY <1>1 DEF RecipeInv, BacklashInv
<1>4. MachineOK' /\ VisionOK' /\ ResultsOK'
  BY DEF MachineOK, VisionOK, ResultsOK, vision, results
<1>5. CtxOK' /\ UNCHANGED <<kind, positions, target, count, aligned>>
  BY DEF TakeBacklash, ctx, CtxOK
<1>6. Pulse = IF scan.started THEN LastSide ELSE FirstSide
  BY <1>2, <1>3 DEF Pulse, FirstSide, LastSide
<1>7. CASE scan.started
  <2>1. scan' = [scan EXCEPT !.last = Pulse] /\ EnterState(t, "CalculateBacklash") /\ Keep
    BY <1>7 DEF TakeBacklash
  <2>2. Goes(t, "CalculateBacklash")
    BY <1>1, <2>1, EnterGoes
  <2>3. phase'[t] = "CalculateBacklash"
    BY <1>1, <2>2 DEF Goes, FrameOK
  <2>4. /\ MemoryOK' /\ scan'.first = scan.first /\ scan'.last = LastSide /\ scan'.started
        /\ scan'.speed = scan.speed
    BY <1>5, <1>6, <1>7, <2>1 DEF MemoryOK
  <2>5. Journey(t)'
    BY <2>3 DEF Journey, Homing, Approaching, There
  <2>6. Base'
    BY <1>1, <1>2, <1>4, <1>5, <2>2, <2>4, <2>5, BaseKept
  <2>7. BacklashInv'
    BY <1>3, <1>7, <2>3, <2>4 DEF BacklashInv
  <2> QED BY <1>1, <1>5, <2>2, <2>6, <2>7, SoloGoes
<1>8. CASE ~scan.started
  <2>1. /\ scan' = [scan EXCEPT !.started = TRUE, !.first = Pulse]
        /\ EnterStateWithTimeout(t, "MoveStart") /\ Keep
    BY <1>3, <1>8 DEF TakeBacklash
  <2>2. Goes(t, "MoveStart")
    BY <1>1, <2>1, EnterGoes
  <2>3. phase'[t] = "MoveStart"
    BY <1>1, <2>2 DEF Goes, FrameOK
  <2>4. /\ MemoryOK' /\ scan'.first = FirstSide /\ scan'.next = "MoveStart" /\ scan'.started
        /\ scan'.speed = scan.speed
    BY <1>3, <1>5, <1>6, <1>8, <2>1 DEF MemoryOK
  <2>5. Journey(t)'
    BY <1>2, <1>5, <2>3 DEF Journey, Goal, Homing, Approaching, There
  <2>6. Base'
    BY <1>1, <1>2, <1>4, <1>5, <2>2, <2>4, <2>5, BaseKept
  <2>7. BacklashInv'
    BY <1>3, <2>3, <2>4 DEF BacklashInv
  <2> QED BY <1>1, <1>5, <2>2, <2>6, <2>7, SoloGoes
<1> QED BY <1>7, <1>8

\* Every speed is measured anew, up to the last.
LEMMA CalculateBacklashKeeps ==
  ASSUME RunInv, outcome = "running", At("Backlash", "CalculateBacklash"), CalculateBacklash
  PROVE  RunInv'
<1> DEFINE t == "Backlash"
<1> USE DEF RunInv, Base, Typed
<1>1. Polled(t) /\ phase[t] = "CalculateBacklash" /\ t \in Tasks /\ kind = "Backlash"
  BY PolledState, PolledTask
<1>2. scan.speed < Speeds /\ scan.first = FirstSide /\ scan.last = LastSide
  BY <1>1 DEF RecipeInv, BacklashInv
<1>3. /\ CtxOK' /\ MachineOK' /\ VisionOK' /\ ResultsOK'
      /\ UNCHANGED <<kind, target, count, aligned, asked>>
  BY DEF CalculateBacklash, CtxOK, MachineOK, VisionOK, ResultsOK, ctx, machine, vision, results
<1>4. asked' = FALSE
  BY <1>1, <1>3, NotAsked
<1>5. ASSUME NEW s \in {"MoveSafeZ", "SaveBacklashResult"}, Goes(t, s), MemoryOK',
             scan'.speed = scan.speed + 1,
             \/ /\ s = "MoveSafeZ" /\ scan.speed + 1 < Speeds
                /\ ~scan'.started /\ scan'.next = "MoveOrigin"
             \/ s = "SaveBacklashResult" /\ scan'.first = FirstSide /\ scan'.last = LastSide
      PROVE  RunInv'
  <2>1. phase'[t] = s
    BY <1>1, <1>5 DEF Goes, FrameOK
  <2>2. Journey(t)'
    BY <2>1 DEF Journey, Homing, Approaching, There
  <2>3. Base'
    BY <1>1, <1>3, <1>4, <1>5, <2>2, BaseKept
  <2>4. BacklashInv'
    BY <1>5, <2>1 DEF BacklashInv
  <2> QED BY <1>1, <1>3, <1>5, <2>3, <2>4, SoloGoes
<1>6. scan.speed \in Nat
  BY DEF MemoryOK, Speeds
<1>7. CASE scan.speed + 1 < Speeds
  <2>1. /\ scan' = [scan EXCEPT !.speed = scan.speed + 1, !.next = "MoveOrigin", !.started = FALSE]
        /\ EnterStateWithTimeout(t, "MoveSafeZ") /\ Keep
    BY <1>7 DEF CalculateBacklash
  <2>2. scan'.speed = scan.speed + 1 /\ ~scan'.started /\ scan'.next = "MoveOrigin" /\ MemoryOK'
    <3>1. scan'.speed = scan.speed + 1 /\ scan'.started = FALSE /\ scan'.next = "MoveOrigin"
      BY <2>1 DEF MemoryOK
    <3>2. scan.speed + 1 \in 0..Speeds
      BY <1>6, <1>7 DEF Speeds
    <3>3. scan' = [started |-> FALSE, speed |-> scan.speed + 1, next |-> "MoveOrigin",
                     first |-> scan.first, last |-> scan.last, index |-> scan.index,
                     centre |-> scan.centre, shots |-> scan.shots]
      BY <2>1 DEF MemoryOK
    <3>4. UNCHANGED <<target, count, aligned>>
      BY <1>3
    <3>5. /\ target' \in [Tasks -> Targets] /\ count' \in [Tasks -> 0..MaxInspections]
          /\ aligned' \in Seq(Positions)
      BY <3>4 DEF MemoryOK
    <3>6. scan.index \in 0..8 /\ scan.shots \in Seq(Places)
      BY DEF MemoryOK
    <3> QED BY <3>1, <3>2, <3>3, <3>5, <3>6 DEF MemoryOK
  <2> QED BY <1>1, <1>5, <1>7, <2>1, <2>2, EnterGoes
<1>8. CASE ~(scan.speed + 1 < Speeds)
  <2>1. /\ scan' = [scan EXCEPT !.speed = scan.speed + 1]
        /\ EnterState(t, "SaveBacklashResult") /\ Keep
    BY <1>8 DEF CalculateBacklash
  <2>2. /\ scan'.speed = scan.speed + 1 /\ MemoryOK'
        /\ scan'.first = FirstSide /\ scan'.last = LastSide
    BY <1>2, <1>3, <1>6, <2>1 DEF MemoryOK, Speeds
  <2> QED BY <1>1, <1>5, <2>1, <2>2, EnterGoes
<1> QED BY <1>7, <1>8

\* A poll of Backlash.
LEMMA BacklashKeeps ==
  ASSUME RunInv, outcome = "running", Backlash
  PROVE  RunInv'
<1> DEFINE t == "Backlash"
<1> USE DEF RunInv, Base, Typed
<1>t. Polled(t) /\ t \in Tasks /\ kind = "Backlash"
  <2>1. Polled(t)
    BY DEF Backlash, At, Polled
  <2> QED BY <2>1, PolledTask
<1>e. Errs(t) => RunInv'
  BY <1>t, ErrsKeeps
<1>f. Fail(t) => RunInv'
  BY <1>e, FailErrs
<1>s. Stay => RunInv'
  BY StayKeeps DEF Stay
<1>p. StartPosition \in Points /\ ZeroPosition \in Points /\ EndPosition \in Points
  <2>1. 0 \in 0..MaxInspections + 1
    BY BoundsAssumption
  <2> QED BY <2>1, PlacePoints DEF StartPosition, ZeroPosition, EndPosition
<1>b. BacklashInv
  BY DEF RecipeInv
<1>1. CASE At(t, "MoveSafeZ") /\ RaiseZ(t, scan.next)
  <2>1. phase[t] = "MoveSafeZ"
    BY <1>1 DEF At
  <2>2. scan.next = "MoveOrigin" /\ ~scan.started
    BY <1>t, <1>b, <2>1 DEF BacklashInv
  <2>3. Base' /\ Took(t, "MoveOrigin")
    BY <1>t, <1>1, <2>1, <2>2, RaiseZMoves DEF Travelling, Homing, Approaching, There
  <2>4. phase'[t] = "MoveOrigin" /\ UNCHANGED <<kind, scan>>
    BY <1>t, <2>3 DEF Took, Goes, FrameOK, ctx, memory
  <2>5. BacklashInv'
    BY <1>t, <1>b, <2>1, <2>2, <2>4 DEF BacklashInv
  <2> QED BY <1>t, <2>3, <2>4, <2>5, SoloGoes DEF Took
<1>2. CASE At(t, "MoveOrigin") /\ BacklashOrigin
  <2>1. phase[t] = "MoveOrigin"
    BY <1>2 DEF At
  <2> SUFFICES ASSUME ~Fail(t), ~Stay PROVE RunInv'
    BY <1>f, <1>s
  <2>2. /\ xy' = [cmd |-> Home, at |-> xy.at, from |-> xy.at] /\ UNCHANGED <<z, lit>>
        /\ target' = [target EXCEPT ![t].xy = Home]
        /\ EnterStateWithTimeout(t, "MoveStart") /\ Keep
        /\ UNCHANGED <<ctx, count, aligned, scan, vision, results>>
    BY <1>2 DEF BacklashOrigin, Await, Move
  <2>3. Goes(t, "MoveStart")
    BY <1>t, <2>2, EnterGoes
  <2>4. target' \in [Tasks -> Targets] /\ target'[t].xy = Home
    <3>1. target[t] \in Targets
      BY <1>t DEF MemoryOK
    <3>2. [target[t] EXCEPT !.xy = Home] \in Targets /\ [target[t] EXCEPT !.xy = Home].xy = Home
      BY <3>1, HomePlace DEF Targets
    <3> QED BY <1>t, <2>2, <3>2 DEF MemoryOK
  <2>5. MemoryOK' /\ CtxOK' /\ VisionOK' /\ ResultsOK' /\ MachineOK' /\ UNCHANGED kind
    BY <2>2, <2>4, HomePlace 
    DEF MemoryOK, CtxOK, VisionOK, ResultsOK, MachineOK, ctx, vision, results
  <2>6. asked' = FALSE
    BY <1>t, <2>1, <2>2, NotAsked DEF vision
  <2>7. phase'[t] = "MoveStart"
    BY <1>t, <2>3 DEF Goes, FrameOK
  <2>8. Journey(t)'
    BY <2>2, <2>4, <2>7 DEF Journey, Goal, Homing, Approaching, There
  <2>9. Base'
    BY <1>t, <2>3, <2>5, <2>6, <2>8, BaseKept
  <2>10. BacklashInv'
    BY <1>t, <1>b, <2>1, <2>2, <2>7 DEF BacklashInv
  <2> QED BY <1>t, <2>3, <2>5, <2>9, <2>10, SoloGoes
<1>3. CASE /\ At(t, "MoveStart")
           /\ Step(StartPosition, IF scan.started THEN "MoveEnd" ELSE "MoveZero", "MoveStart")
  <2>1. phase[t] = "MoveStart"
    BY <1>3 DEF At
  <2>2. CASE scan.started
    <3>1. Step(StartPosition, "MoveEnd", "MoveStart")
      BY <1>3, <2>2
    <3> QED BY <1>t, <1>p, <2>1, <2>2, <3>1, BacklashStepKeeps
  <2>3. CASE ~scan.started
    <3>1. Step(StartPosition, "MoveZero", "MoveStart")
      BY <1>3, <2>3
    <3> QED BY <1>t, <1>p, <2>1, <2>3, <3>1, BacklashStepKeeps
  <2> QED BY <2>2, <2>3
<1>4. CASE At(t, "MoveEnd") /\ Step(EndPosition, "MoveZero", scan.next)
  <2>1. phase[t] = "MoveEnd"
    BY <1>4 DEF At
  <2>2. scan.started /\ Step(EndPosition, "MoveZero", "MoveStart")
    BY <1>t, <1>b, <1>4, <2>1 DEF BacklashInv
  <2> QED BY <1>t, <1>p, <2>1, <2>2, BacklashStepKeeps
<1>5. CASE At(t, "MoveZero") /\ Step(ZeroPosition, "MoveFocusZ", scan.next)
  <2>1. phase[t] = "MoveZero"
    BY <1>5 DEF At
  <2>2. Step(ZeroPosition, "MoveFocusZ", "MoveStart")
    BY <1>t, <1>b, <1>5, <2>1 DEF BacklashInv
  <2> QED BY <1>t, <1>p, <2>1, <2>2, BacklashStepKeeps
<1>k. ASSUME NEW s \in {"VisionRequest", "VisionWait"}, Base', Took(t, s), xy' = xy,
             phase[t] \in {"MoveFocusZ", "VisionRequest"}
      PROVE  RunInv'
  <2>1. phase'[t] = s /\ UNCHANGED <<kind, scan, target, xy>>
    BY <1>t, <1>k DEF Took, Goes, FrameOK, ctx, memory
  <2>2. BacklashInv'
    BY <1>t, <1>b, <1>k, <2>1 DEF BacklashInv
  <2> QED BY <1>t, <1>k, <2>1, <2>2, SoloGoes DEF Took
<1>6. CASE At(t, "MoveFocusZ") /\ LowerZ(t, "VisionRequest", TRUE)
  <2>1. phase[t] = "MoveFocusZ"
    BY <1>6 DEF At
  <2>2. Fail(t) \/ Stay \/ (Base' /\ Took(t, "VisionRequest") /\ xy' = xy)
    BY <1>t, <1>6, <2>1, LowerZMoves DEF Approaching
  <2> QED BY <1>f, <1>s, <1>k, <2>1, <2>2
<1>7. CASE At(t, "VisionRequest") /\ BacklashRequest
  <2>1. phase[t] = "VisionRequest"
    BY <1>7 DEF At
  <2>2. Fail(t) \/ RequestMeasure(t)
    BY <1>7 DEF BacklashRequest
  <2>3. RequestMeasure(t) => Errs(t) \/ (Base' /\ Took(t, "VisionWait") /\ xy' = xy)
    BY <1>t, <2>1, RequestMoves
  <2> QED BY <1>e, <1>f, <1>k, <2>1, <2>2, <2>3
<1>8. CASE At(t, "VisionWait") /\ AwaitAnswer(t, TakeBacklash)
  <2>1. \/ Fail(t) \/ Stay
        \/ TakeBacklash /\ latest.valid /\ UNCHANGED <<vision, results, z, xy>> /\ lit' = FALSE
    BY <1>8 DEF AwaitAnswer, SetLightState
  <2> QED BY <1>8, <1>f, <1>s, <2>1, TakeBacklashKeeps
<1>9. CASE At(t, "CalculateBacklash") /\ CalculateBacklash
  BY <1>9, CalculateBacklashKeeps
<1>10. CASE /\ At(t, "SaveBacklashResult")
            /\ NextTask
            /\ UNCHANGED <<phase, deadline, ctx, memory, machine, vision, results>>
  <2>1. phase[t] = "SaveBacklashResult"
    BY <1>10 DEF At
  <2>2. MachineOK' /\ UNCHANGED xy
    BY <1>10 DEF machine, MachineOK
  <2> QED BY <1>t, <1>10, <2>1, <2>2, LastKeeps
<1> QED BY <1>1, <1>2, <1>3, <1>4, <1>5, <1>6, <1>7, <1>8, <1>9, <1>10 DEF Backlash

-----------------------------------------------------------------------------
(* What the scans around a place share. *)

\* The centre and the places around it are places.
LEMMA CentrePlaces ==
  /\ Centre \in Points /\ Centre \in Places
  /\ \A i \in 1..8 : Beside(Centre, i) \in Places
<1>1. Centre \in Points
  BY BoundsAssumption DEF Centre, Points
<1>2. \A i \in 1..8 : Beside(Centre, i) \in {Beside(p, j) : p \in Points, j \in 1..8}
  BY <1>1
<1> QED BY <1>1, <1>2 DEF Places

\* XY sets out for a place that becomes the target.
LEMMA PlaceMoves ==
  ASSUME Base, outcome = "running", NEW t \in Tasks, t # "FocusScanning", Polled(t),
         phase[t] # "VisionWait", NEW place \in Places, NEW s \in Approaching,
         target' = [target EXCEPT ![t].xy = place], Move(place), EnterStateWithTimeout(t, s), Keep,
         UNCHANGED <<ctx, count, aligned, scan, vision, results>>
  PROVE  Base' /\ Goes(t, s) /\ target'[t].xy = place /\ target'[t].z = target[t].z
<1> USE DEF Base, Typed
<1>1. xy' = [cmd |-> place, at |-> xy.at, from |-> xy.at] /\ UNCHANGED <<z, lit>>
  BY DEF Move
<1>2. Goes(t, s)
  BY EnterGoes
<1>3. target' \in [Tasks -> Targets] /\ target'[t].xy = place /\ target'[t].z = target[t].z
  <2>1. target[t] \in Targets
    BY DEF MemoryOK
  <2>2. /\ [target[t] EXCEPT !.xy = place] \in Targets
        /\ [target[t] EXCEPT !.xy = place].xy = place
        /\ [target[t] EXCEPT !.xy = place].z = target[t].z
    BY <2>1 DEF Targets
  <2> QED BY <2>2 DEF MemoryOK
<1>4. MemoryOK' /\ CtxOK' /\ VisionOK' /\ ResultsOK' /\ MachineOK' /\ UNCHANGED kind
  BY <1>1, <1>3 DEF MemoryOK, CtxOK, VisionOK, ResultsOK, MachineOK, ctx, vision, results
<1>5. asked' = FALSE
  BY NotAsked DEF vision
<1>6. phase'[t] = s
  BY <1>2 DEF Goes, FrameOK
<1>7. Journey(t)'
  BY <1>1, <1>3, <1>6 DEF Journey, Goal, Homing, Approaching, There
<1>8. Base'
  BY <1>2, <1>4, <1>5, <1>7, BaseKept DEF Approaching
<1> QED BY <1>2, <1>3, <1>8

\* An answer is added to the pictures taken.
LEMMA ShootAdds ==
  ASSUME Base, NEW i \in 0..8, scan' = Shoot(i), UNCHANGED <<target, count, aligned>>
  PROVE  /\ MemoryOK'
         /\ scan'.index = i /\ scan'.started = scan.started /\ scan'.centre = scan.centre
         /\ scan'.shots = Append(scan.shots, latest.xy)
         /\ Shot' = Shot \cup {latest.xy}
<1> USE DEF Base, Typed
<1> DEFINE n == Len(scan.shots)
<1>1. scan' = [started |-> scan.started, speed |-> scan.speed, next |-> scan.next,
               first |-> scan.first, last |-> scan.last, index |-> i,
               centre |-> scan.centre, shots |-> Append(scan.shots, latest.xy)]
  BY DEF MemoryOK, Shoot
<1>2. latest.xy \in Places /\ scan.shots \in Seq(Places)
  BY DEF VisionOK, MemoryOK
<1>3. Append(scan.shots, latest.xy) \in Seq(Places)
  BY <1>2
<1>4. MemoryOK'
  <2>1. scan.started \in BOOLEAN /\ scan.speed \in 0..Speeds
    BY DEF MemoryOK
  <2>2. target' \in [Tasks -> Targets] /\ count' \in [Tasks -> 0..MaxInspections]
        /\ aligned' \in Seq(Positions)
    BY DEF MemoryOK
  <2> QED BY <1>1, <1>3, <2>1, <2>2 DEF MemoryOK
<1>5. Shot' = Shot \cup {latest.xy}
  <2>1. DOMAIN scan'.shots = 1..(n + 1) /\ DOMAIN scan.shots = 1..n /\ n \in Nat
    BY <1>1, <1>2
  <2>2. scan'.shots[n + 1] = latest.xy /\ \A j \in 1..n : scan'.shots[j] = scan.shots[j]
    BY <1>1, <1>2
  <2>3. ASSUME NEW x \in Shot' PROVE x \in Shot \cup {latest.xy}
    <3>1. PICK j \in 1..(n + 1) : x = scan'.shots[j]
      BY <2>1, <2>3 DEF Shot
    <3>2. j \in 1..n \/ j = n + 1
      BY <2>1
    <3> QED BY <2>1, <2>2, <3>1, <3>2 DEF Shot
  <2>4. ASSUME NEW x \in Shot PROVE x \in Shot'
    <3>1. PICK j \in 1..n : x = scan.shots[j]
      BY <2>1, <2>4 DEF Shot
    <3>2. j \in 1..(n + 1)
      BY <2>1
    <3> QED BY <2>1, <2>2, <3>1, <3>2 DEF Shot
  <2>5. latest.xy \in Shot'
    <3>1. n + 1 \in 1..(n + 1)
      BY <2>1
    <3> QED BY <2>1, <2>2, <3>1 DEF Shot
  <2> QED BY <2>3, <2>4, <2>5
<1> QED BY <1>1, <1>4, <1>5

-----------------------------------------------------------------------------
(* CLoad1PerformFOVScanningTask. *)

\* A step that takes no picture leaves the sides where they are.
LEMMA FOVTook ==
  ASSUME RunInv, Polled("FOVScanning"),
         phase["FOVScanning"] \in {"MoveOrigin", "MoveFocusPositionZ", "VisionRequest"},
         NEW s \in {"MoveScanPosition", "VisionRequest", "VisionWait"}, Base',
         Took("FOVScanning", s),
         s \in {"VisionRequest", "VisionWait"} => phase["FOVScanning"] # "MoveOrigin",
         s = "MoveScanPosition" => phase["FOVScanning"] = "MoveOrigin"
  PROVE  RunInv'
<1> DEFINE t == "FOVScanning"
<1>1. t \in Tasks /\ kind = "FOV"
  BY PolledTask DEF RunInv, Base, Typed
<1>2. phase'[t] = s /\ UNCHANGED <<kind, target, scan>>
  BY <1>1 DEF Took, Goes, RunInv, Base, Typed, FrameOK, ctx, memory
<1>3. FOVInv
  BY DEF RunInv, RecipeInv
<1>4. Shot' = Shot
  BY <1>2 DEF Shot
<1>5. FOVInv'
  BY <1>1, <1>2, <1>3, <1>4 DEF FOVInv
<1> QED BY <1>2, <1>5, SoloGoes DEF Took

\* The first state finds the centre; every other round knows it.
LEMMA FOVSafeZKeeps ==
  ASSUME RunInv, outcome = "running", At("FOVScanning", "MoveSafeZ"), FOVSafeZ
  PROVE  RunInv'
<1> DEFINE t == "FOVScanning"
<1> USE DEF RunInv, Base, Typed
<1>1. Polled(t) /\ phase[t] = "MoveSafeZ" /\ t \in Tasks /\ kind = "FOV"
  BY PolledState, PolledTask
<1>2. FOVInv
  BY DEF RecipeInv
<1>3. Goes(t, "MoveOrigin")
  BY <1>1, EnterGoes DEF FOVSafeZ
<1>4. z' = [z EXCEPT !.cmd = 0] /\ UNCHANGED <<xy, lit, ctx, count, aligned, vision, results>>
  BY DEF FOVSafeZ, MoveZ
<1>5. /\ MemoryOK' /\ scan'.centre = Centre /\ target'[t].z = 1 /\ scan'.shots = scan.shots
      /\ scan'.index = IF scan.index = 0 THEN 1 ELSE scan.index
  <2>1. CASE scan.index # 0
    <3>1. UNCHANGED <<target, scan, count, aligned>>
      BY <1>4, <2>1 DEF FOVSafeZ
    <3> QED BY <1>1, <1>2, <2>1, <3>1 DEF MemoryOK, FOVInv
  <2>2. CASE scan.index = 0
    <3>1. z.at = 1 /\ xy.at = Centre
      BY <1>1, <1>2, <2>2 DEF FOVInv, Untouched, AtCentre
    <3>2. /\ target' = [target EXCEPT ![t].z = 1]
          /\ scan' = [scan EXCEPT !.centre = Centre, !.index = 1]
      BY <2>2, <3>1 DEF FOVSafeZ
    <3>3. target' \in [Tasks -> Targets] /\ target'[t].z = 1
      <4>1. target[t] \in Targets
        BY <1>1 DEF MemoryOK
      <4>2. [target[t] EXCEPT !.z = 1] \in Targets /\ [target[t] EXCEPT !.z = 1].z = 1
        BY <4>1 DEF Targets
      <4> QED BY <1>1, <3>2, <4>2 DEF MemoryOK
    <3>4. scan' = [started |-> scan.started, speed |-> scan.speed, next |-> scan.next,
                   first |-> scan.first, last |-> scan.last, index |-> 1,
                   centre |-> Centre, shots |-> scan.shots]
      BY <3>2 DEF MemoryOK
    <3> QED BY <1>4, <2>2, <3>3, <3>4 DEF MemoryOK
  <2> QED BY <2>1, <2>2
<1>6. CtxOK' /\ VisionOK' /\ ResultsOK' /\ MachineOK' /\ UNCHANGED kind
  BY <1>4 DEF CtxOK, VisionOK, ResultsOK, MachineOK, ctx, vision, results
<1>7. asked' = FALSE
  BY <1>1, <1>4, NotAsked DEF vision
<1>8. phase'[t] = "MoveOrigin"
  BY <1>1, <1>3 DEF Goes, FrameOK
<1>9. Journey(t)'
  BY <1>8 DEF Journey, Homing, Approaching, There
<1>10. Base'
  BY <1>1, <1>3, <1>5, <1>6, <1>7, <1>9, BaseKept
<1>11. Shot' = Shot
  BY <1>5 DEF Shot
<1>i. scan.index \in 0..8
  BY DEF MemoryOK
<1>12. FOVInv'
  <2>1. scan'.index <= Sides /\ scan'.index # 0
    BY <1>1, <1>2, <1>5, <1>i DEF FOVInv, Sides
  <2>2. \A j \in 1..Sides : j < scan'.index => Beside(Centre, j) \in Shot
    <3>1. \A j \in 1..Sides : j < scan.index => Beside(Centre, j) \in Shot
      BY <1>1, <1>2 DEF FOVInv
    <3> QED BY <1>5, <1>i, <3>1 DEF Sides
  <2>3. Shot \subseteq {Beside(Centre, j) : j \in 1..Sides}
    BY <1>1, <1>2 DEF FOVInv
  <2> QED BY <1>5, <1>8, <1>11, <2>1, <2>2, <2>3 DEF FOVInv
<1> QED BY <1>1, <1>3, <1>6, <1>10, <1>12, SoloGoes

\* Every answer is of the side whose turn it is.
LEMMA TakeFOVKeeps ==
  ASSUME RunInv, outcome = "running", At("FOVScanning", "VisionWait"), latest.valid,
         UNCHANGED <<vision, results, z, xy>>, lit' = FALSE, TakeFOV
  PROVE  RunInv'
<1> DEFINE t == "FOVScanning"
           side == IF scan.index = 0 THEN Sides ELSE scan.index
<1> USE DEF RunInv, Base, Typed
<1>1. Polled(t) /\ phase[t] = "VisionWait" /\ t \in Tasks /\ kind = "FOV"
  BY PolledState, PolledTask
<1>2. /\ asked' = FALSE /\ latest.xy = target[t].xy /\ xy.at = target[t].xy /\ xy.cmd = target[t].xy
      /\ z.cmd = target[t].z
  BY <1>1, AnswerIsOfGoal DEF vision, Goal
<1>i. scan.index \in 0..8
  BY DEF MemoryOK
<1>3. /\ scan.index <= Sides /\ scan.centre = Centre /\ target[t].z = 1
      /\ target[t].xy = Beside(Centre, side)
      /\ Shot \subseteq {Beside(Centre, j) : j \in 1..Sides}
      /\ \A j \in 1..Sides : (j < scan.index \/ scan.index = 0) => Beside(Centre, j) \in Shot
  BY <1>1 DEF RecipeInv, FOVInv
<1>4. MachineOK' /\ VisionOK' /\ ResultsOK'
  BY DEF MachineOK, VisionOK, ResultsOK, vision, results
<1>5. UNCHANGED <<kind, stop, target, count, aligned>>
  BY DEF TakeFOV
<1>6. side \in 1..Sides
  BY <1>3, <1>i DEF Sides
<1>7. ASSUME NEW i \in 0..Sides, scan' = Shoot(i),
             NEW s \in {"MoveSafeZ", "VisionRequest", "ReturnHome"},
             Goes(t, s), CtxOK',
             s = "MoveSafeZ" => i = scan.index + 1,
             s = "VisionRequest" => i = 0 /\ scan.index = Sides,
             s = "ReturnHome" => i = scan.index /\ scan.index = Sides
      PROVE  RunInv'
  <2>1. i \in 0..8
    BY DEF Sides
  <2>2. /\ MemoryOK' /\ scan'.index = i /\ scan'.centre = Centre
        /\ Shot' = Shot \cup {Beside(Centre, side)}
    BY <1>2, <1>3, <1>5, <1>7, <2>1, ShootAdds
  <2>3. phase'[t] = s
    BY <1>1, <1>7 DEF Goes, FrameOK
  <2>4. Journey(t)'
    BY <1>2, <1>5, <2>3 DEF Journey, Goal, Homing, Approaching, There
  <2>5. Base'
    BY <1>1, <1>2, <1>4, <1>5, <1>7, <2>2, <2>4, BaseKept
  <2>6. Shot' \subseteq {Beside(Centre, j) : j \in 1..Sides}
    BY <1>3, <1>6, <2>2
  <2>7. \A j \in 1..Sides : (j < i \/ s # "MoveSafeZ") => Beside(Centre, j) \in Shot'
    <3> TAKE j \in 1..Sides
    <3>1. (j < i \/ s # "MoveSafeZ") => (j < scan.index \/ scan.index = 0 \/ j = side)
      BY <1>7, <1>i, <1>6 DEF Sides
    <3> QED BY <1>3, <2>2, <3>1
  <2>8. s = "MoveSafeZ" => i # 0
    BY <1>7, <1>i
  <2>9. s = "VisionRequest" => target'[t].xy = Beside(Centre, Sides)
    BY <1>3, <1>5, <1>7 DEF Sides
  <2>10. FOVInv'
    BY <1>3, <1>5, <1>7, <2>2, <2>3, <2>6, <2>7, <2>8, <2>9 DEF FOVInv
  <2> QED BY <1>1, <1>5, <1>7, <2>5, <2>10, SoloGoes
<1>8. CASE scan.index < Sides
  <2>1. /\ scan' = Shoot(scan.index + 1) /\ EnterState(t, "MoveSafeZ") /\ Keep
        /\ UNCHANGED positions
    BY <1>8 DEF TakeFOV
  <2>2. Goes(t, "MoveSafeZ") /\ CtxOK'
    BY <1>1, <1>5, <2>1, EnterGoes DEF CtxOK
  <2>3. scan.index + 1 \in 0..Sides
    BY <1>8, <1>i DEF Sides
  <2> QED BY <1>7, <2>1, <2>2, <2>3
<1>9. CASE ~(scan.index < Sides) /\ positions # <<>>
  <2>1. /\ positions' = Tail(positions) /\ scan' = Shoot(0)
        /\ EnterState(t, "VisionRequest") /\ PrevTask
    BY <1>9 DEF TakeFOV
  <2>2. idx = 1
    <3>1. Len(Recipe[kind]) = 1
      BY <1>1, RecipeLength DEF CtxOK, Starting
    <3> QED BY <1>1, <3>1 DEF FrameOK, Polled
  <2>3. Keep
    BY <2>1, <2>2 DEF PrevTask, Keep
  <2>4. Goes(t, "VisionRequest")
    BY <1>1, <2>1, <2>3, EnterGoes
  <2>5. CtxOK'
    BY <1>5, <1>9, <2>1 DEF CtxOK
  <2>6. scan.index = Sides /\ 0 \in 0..Sides
    BY <1>3, <1>9, <1>i DEF Sides
  <2> QED BY <1>7, <2>1, <2>4, <2>5, <2>6
<1>10. CASE ~(scan.index < Sides) /\ positions = <<>>
  <2>1. /\ scan' = Shoot(scan.index) /\ EnterState(t, "ReturnHome") /\ Keep
        /\ UNCHANGED positions
    BY <1>10 DEF TakeFOV
  <2>2. Goes(t, "ReturnHome") /\ CtxOK'
    BY <1>1, <1>5, <2>1, EnterGoes DEF CtxOK
  <2>3. scan.index = Sides /\ scan.index \in 0..Sides
    BY <1>3, <1>10, <1>i DEF Sides
  <2> QED BY <1>7, <2>1, <2>2, <2>3
<1> QED BY <1>8, <1>9, <1>10

\* A poll of FOVScanning.
LEMMA FOVScanningKeeps ==
  ASSUME RunInv, outcome = "running", FOVScanning
  PROVE  RunInv'
<1> DEFINE t == "FOVScanning"
<1> USE DEF RunInv, Base, Typed
<1>t. Polled(t) /\ t \in Tasks /\ kind = "FOV"
  <2>1. Polled(t)
    BY DEF FOVScanning, At, Polled
  <2> QED BY <2>1, PolledTask
<1>e. Errs(t) /\ phase[t] # "MoveSafeZ" => RunInv'
  BY <1>t, ErrsKeeps
<1>f. Fail(t) /\ phase[t] # "MoveSafeZ" => RunInv'
  BY <1>e, FailErrs
<1>s. Stay => RunInv'
  BY StayKeeps DEF Stay
<1>b. FOVInv
  BY DEF RecipeInv
<1>1. CASE At(t, "MoveSafeZ") /\ FOVSafeZ
  BY <1>1, FOVSafeZKeeps
<1>2. CASE At(t, "MoveOrigin") /\ LeaveForOrigin(t, "MoveScanPosition")
  <2>1. phase[t] = "MoveOrigin"
    BY <1>2 DEF At
  <2>2. Fail(t) \/ Stay \/ (Base' /\ Took(t, "MoveScanPosition"))
    BY <1>t, <1>2, <2>1, LeaveForOriginMoves DEF Homing
  <2> QED BY <1>t, <1>f, <1>s, <2>1, <2>2, FOVTook
<1>3. CASE At(t, "MoveScanPosition") /\ LeaveForPlace(t, Beside(scan.centre, scan.index))
  <2>1. phase[t] = "MoveScanPosition"
    BY <1>3 DEF At
  <2> SUFFICES ASSUME ~Fail(t), ~Stay PROVE RunInv'
    BY <1>f, <1>s, <2>1
  <2>2. scan.index # 0 /\ scan.index <= Sides /\ scan.centre = Centre /\ target[t].z = 1
    BY <1>t, <1>b, <2>1 DEF FOVInv
  <2>3. scan.index \in 1..8
    BY <2>2 DEF MemoryOK
  <2> DEFINE place == Beside(Centre, scan.index)
  <2>4. /\ target' = [target EXCEPT ![t].xy = place] /\ Move(place)
        /\ EnterStateWithTimeout(t, "MoveFocusPositionZ") /\ Keep
        /\ UNCHANGED <<ctx, count, aligned, scan, vision, results>>
    BY <1>3, <2>2 DEF LeaveForPlace, Await
  <2>5. place \in Places
    BY <2>3, CentrePlaces
  <2>6. /\ Base' /\ Goes(t, "MoveFocusPositionZ")
        /\ target'[t].xy = place /\ target'[t].z = target[t].z
    BY <1>t, <2>1, <2>4, <2>5, PlaceMoves DEF Approaching
  <2>7. phase'[t] = "MoveFocusPositionZ" /\ UNCHANGED <<kind, scan>>
    BY <1>t, <2>4, <2>6 DEF Goes, FrameOK, ctx
  <2>8. Shot' = Shot
    BY <2>7 DEF Shot
  <2>9. FOVInv'
    BY <1>t, <1>b, <2>1, <2>2, <2>6, <2>7, <2>8 DEF FOVInv
  <2> QED BY <1>t, <2>6, <2>7, <2>9, SoloGoes
<1>4. CASE At(t, "MoveFocusPositionZ") /\ LowerZ(t, "VisionRequest", FALSE)
  <2>1. phase[t] = "MoveFocusPositionZ"
    BY <1>4 DEF At
  <2>2. Fail(t) \/ Stay \/ (Base' /\ Took(t, "VisionRequest") /\ xy' = xy)
    BY <1>t, <1>4, <2>1, LowerZMoves DEF Approaching
  <2> QED BY <1>t, <1>f, <1>s, <2>1, <2>2, FOVTook
<1>5. CASE At(t, "VisionRequest") /\ RequestAtFocus(t)
  <2>1. phase[t] = "VisionRequest"
    BY <1>5 DEF At
  <2>2. Errs(t) \/ Stay \/ (Base' /\ Took(t, "VisionWait"))
    BY <1>t, <1>5, <2>1, RequestAtFocusMoves
  <2> QED BY <1>t, <1>e, <1>s, <2>1, <2>2, FOVTook
<1>6. CASE At(t, "VisionWait") /\ AwaitAnswer(t, TakeFOV)
  <2>1. phase[t] = "VisionWait"
    BY <1>6 DEF At
  <2>2. \/ Fail(t) \/ Stay
        \/ TakeFOV /\ latest.valid /\ UNCHANGED <<vision, results, z, xy>> /\ lit' = FALSE
    BY <1>6 DEF AwaitAnswer, SetLightState
  <2> QED BY <1>6, <1>f, <1>s, <2>1, <2>2, TakeFOVKeeps
<1>7. CASE /\ At(t, "ReturnHome")
           /\ MoveZ(0)
           /\ NextTask
           /\ UNCHANGED <<phase, deadline, ctx, memory, vision, results>>
  <2>1. phase[t] = "ReturnHome"
    BY <1>7 DEF At
  <2>2. MachineOK' /\ UNCHANGED xy
    BY <1>7 DEF MoveZ, MachineOK
  <2> QED BY <1>t, <1>7, <2>1, <2>2, LastKeeps
<1> QED BY <1>1, <1>2, <1>3, <1>4, <1>5, <1>6, <1>7 DEF FOVScanning

-----------------------------------------------------------------------------
(* CLoad1PerformPickerFOVScanningTask. *)

\* A step that takes no picture.
LEMMA PickerTook ==
  ASSUME RunInv, Polled("PickerFOVScanning"), Base', NEW s, Took("PickerFOVScanning", s),
         \/ /\ phase["PickerFOVScanning"] \in
                 {"MoveOrigin", "MoveScanPosition", "MoveFocusPositionZ", "VisionRequest"}
            /\ s \in {"MoveScanPosition", "MoveFocusPositionZ", "VisionRequest", "VisionWait"}
         \/ phase["PickerFOVScanning"] = "SaveResult" /\ s = "ReturnHome"
  PROVE  RunInv'
<1> DEFINE t == "PickerFOVScanning"
<1>1. t \in Tasks /\ kind = "PickerFOV"
  BY PolledTask DEF RunInv, Base, Typed
<1>2. phase'[t] = s /\ UNCHANGED <<kind, target, scan>>
  BY <1>1 DEF Took, Goes, RunInv, Base, Typed, FrameOK, ctx, memory
<1>3. PickerInv
  BY DEF RunInv, RecipeInv
<1>4. PickerPlace' = PickerPlace
  BY <1>2 DEF PickerPlace
<1>5. PickerInv'
  BY <1>1, <1>2, <1>3, <1>4 DEF PickerInv
<1> QED BY <1>2, <1>5, SoloGoes DEF Took

\* The target that the first state of the picker FOV scan makes.
LEMMA CentreTarget ==
  \A r \in Targets : /\ [r EXCEPT !.xy = Centre, !.z = 1] \in Targets
                     /\ [r EXCEPT !.xy = Centre, !.z = 1].z = 1
                     /\ [r EXCEPT !.xy = Centre, !.z = 1].xy = Centre
<1> TAKE r \in Targets
<1> SUFFICES ASSUME NEW q, q = [r EXCEPT !.xy = Centre, !.z = 1]
             PROVE  q \in Targets /\ q.z = 1 /\ q.xy = Centre
  OBVIOUS
<1>1. DOMAIN r = {"loc", "xy", "z"} /\ r = [i \in DOMAIN r |-> r[i]]
  BY DEF Targets
<1>2. /\ q.xy = Centre /\ q.z = 1 /\ q.loc = r.loc
      /\ DOMAIN q = DOMAIN r /\ q = [i \in DOMAIN q |-> q[i]]
  BY <1>1, Zenon
<1>3. q = [loc |-> r.loc, xy |-> Centre, z |-> 1]
  BY <1>1, <1>2
<1> QED BY <1>3, CentrePlaces DEF Targets

\* A state without a deadline is entered like any other.
LEMMA UntimedGoes ==
  ASSUME FrameOK, NEW s, UntimedPhase(s), Keep
  PROVE  Goes("PickerFOVScanning", s)
BY DEF FrameOK, UntimedPhase, Keep, Goes

\* The first state finds the centre; the second round goes to its front right.
LEMMA PickerSafeZKeeps ==
  ASSUME RunInv, outcome = "running", At("PickerFOVScanning", "MoveSafeZ"), PickerSafeZ
  PROVE  RunInv'
<1> DEFINE t == "PickerFOVScanning"
<1> USE DEF RunInv, Base, Typed
<1>1. Polled(t) /\ phase[t] = "MoveSafeZ" /\ t \in Tasks /\ kind = "PickerFOV"
  BY PolledState, PolledTask
<1>2. PickerInv
  BY DEF RecipeInv
<1>3. Goes(t, "MoveOrigin")
  BY UntimedGoes DEF PickerSafeZ
<1>4. z' = [z EXCEPT !.cmd = 0] /\ UNCHANGED <<xy, lit, ctx, count, aligned, vision, results>>
  BY DEF PickerSafeZ, MoveZ
<1>i. /\ scan.index \in {0, 1}
      /\ scan.shots = IF scan.index = 0 THEN <<>> ELSE <<Centre>>
      /\ scan.index # 0 => scan.centre = Centre /\ target[t].z = 1
      /\ scan.index = 0 => z.at = 1 /\ xy.at = Centre
  BY <1>1, <1>2 DEF PickerInv, Untouched, AtCentre
<1>5. /\ MemoryOK' /\ scan'.centre = Centre /\ target'[t].z = 1 /\ scan'.shots = scan.shots
      /\ scan'.index = scan.index /\ target'[t].xy = PickerPlace'
  <2>t. target[t] \in Targets
    BY <1>1 DEF MemoryOK
  <2>1. CASE scan.index # 0
    <3> DEFINE place == Beside(Centre, 1)
    <3>1. scan.index = 1 /\ PickerPlace = place /\ scan' = scan
      BY <1>i, <2>1 DEF PickerPlace, PickerSafeZ
    <3>2. PickerPlace' = place
      BY <3>1 DEF PickerPlace
    <3>3. target' = [target EXCEPT ![t].xy = place]
      BY <2>1, <3>1 DEF PickerSafeZ
    <3>4. place \in Places
      BY CentrePlaces
    <3>5. target' \in [Tasks -> Targets] /\ target'[t].xy = place /\ target'[t].z = 1
      <4>1. /\ [target[t] EXCEPT !.xy = place] \in Targets
            /\ [target[t] EXCEPT !.xy = place].xy = place
            /\ [target[t] EXCEPT !.xy = place].z = target[t].z
        BY <2>t, <3>4 DEF Targets
      <4> QED BY <1>1, <1>i, <2>1, <3>3, <4>1 DEF MemoryOK
    <3> QED BY <1>4, <1>i, <2>1, <3>1, <3>2, <3>5 DEF MemoryOK
  <2>2. CASE scan.index = 0
    <3>1. z.at = 1 /\ xy.at = Centre
      BY <1>i, <2>2
    <3>2. /\ target' = [target EXCEPT ![t] = [target[t] EXCEPT !.xy = Centre, !.z = 1]]
          /\ scan' = [scan EXCEPT !.centre = Centre]
      BY <2>2, <3>1 DEF PickerSafeZ
    <3>3. target' \in [Tasks -> Targets] /\ target'[t].z = 1 /\ target'[t].xy = Centre
      <4> DEFINE goal == [target[t] EXCEPT !.xy = Centre, !.z = 1]
      <4>1. goal \in Targets /\ goal.z = 1 /\ goal.xy = Centre
        BY <2>t, CentreTarget, Zenon
      <4>2. target' = [target EXCEPT ![t] = goal]
        BY <3>2
      <4> HIDE DEF goal
      <4> QED BY <1>1, <4>1, <4>2 DEF MemoryOK
    <3>4. scan' = [started |-> scan.started, speed |-> scan.speed, next |-> scan.next,
                   first |-> scan.first, last |-> scan.last, index |-> scan.index,
                   centre |-> Centre, shots |-> scan.shots]
      BY <3>2 DEF MemoryOK
    <3>5. PickerPlace' = Centre
      BY <2>2, <3>4 DEF PickerPlace
    <3>6. MemoryOK'
      BY <1>4, <3>3, <3>4 DEF MemoryOK
    <3> QED BY <3>3, <3>4, <3>5, <3>6
  <2> QED BY <2>1, <2>2
<1>6. CtxOK' /\ VisionOK' /\ ResultsOK' /\ MachineOK' /\ UNCHANGED kind
  BY <1>4 DEF CtxOK, VisionOK, ResultsOK, MachineOK, ctx, vision, results
<1>7. asked' = FALSE
  BY <1>1, <1>4, NotAsked DEF vision
<1>8. phase'[t] = "MoveOrigin"
  BY <1>1, <1>3 DEF Goes, FrameOK
<1>9. Journey(t)'
  BY <1>8 DEF Journey, Homing, Approaching, There
<1>10. Base'
  BY <1>1, <1>3, <1>5, <1>6, <1>7, <1>9, BaseKept
<1>11. PickerInv'
  BY <1>5, <1>8, <1>i DEF PickerInv
<1> QED BY <1>1, <1>3, <1>6, <1>10, <1>11, SoloGoes

\* What a list of one element becomes.
LEMMA AppendToOne ==
  ASSUME NEW a, NEW b
  PROVE  Append(<<a>>, b) = <<a, b>>
<1> DEFINE S == {a, b}
<1>1. <<a>> \in Seq(S) /\ b \in S /\ <<a, b>> \in Seq(S) /\ Len(<<a>>) = 1
  OBVIOUS
<1>2. /\ Append(<<a>>, b) \in Seq(S) /\ Len(Append(<<a>>, b)) = 2
      /\ Append(<<a>>, b)[1] = a /\ Append(<<a>>, b)[2] = b
  BY <1>1, AppendProperties
<1>3. \A i \in 1..2 : Append(<<a>>, b)[i] = <<a, b>>[i]
  BY <1>2
<1> QED BY <1>1, <1>2, <1>3, SeqEqual

\* The first answer is of the centre, the second of the place beside it.
LEMMA TakePickerKeeps ==
  ASSUME RunInv, outcome = "running", At("PickerFOVScanning", "VisionWait"), latest.valid,
         UNCHANGED <<vision, results, z, xy>>, lit' = FALSE, TakePicker
  PROVE  RunInv'
<1> DEFINE t == "PickerFOVScanning"
<1> USE DEF RunInv, Base, Typed
<1>1. Polled(t) /\ phase[t] = "VisionWait" /\ t \in Tasks /\ kind = "PickerFOV"
  BY PolledState, PolledTask
<1>2. asked' = FALSE /\ latest.xy = target[t].xy
  BY <1>1, AnswerIsOfGoal DEF vision, Goal
<1>3. /\ scan.index \in {0, 1} /\ scan.centre = Centre /\ target[t].z = 1
      /\ target[t].xy = PickerPlace
      /\ scan.shots = IF scan.index = 0 THEN <<>> ELSE <<Centre>>
  BY <1>1 DEF RecipeInv, PickerInv
<1>4. MachineOK' /\ VisionOK' /\ ResultsOK' /\ CtxOK' /\ UNCHANGED <<kind, target, count, aligned>>
  BY DEF MachineOK, VisionOK, ResultsOK, CtxOK, vision, results, ctx, TakePicker
<1>5. /\ MemoryOK' /\ scan'.index = 1 /\ scan'.centre = Centre
      /\ scan'.shots = Append(scan.shots, latest.xy)
  BY <1>3, <1>4, ShootAdds DEF TakePicker
<1>6. ASSUME NEW s \in {"MoveSafeZ", "SaveResult"}, EnterState(t, s), Keep,
             scan'.shots = IF s = "MoveSafeZ" THEN <<Centre>> ELSE <<Centre, Beside(Centre, 1)>>
      PROVE  RunInv'
  <2>1. Goes(t, s)
    BY <1>1, <1>6, EnterGoes
  <2>2. phase'[t] = s
    BY <1>1, <2>1 DEF Goes, FrameOK
  <2>3. Journey(t)'
    BY <2>2 DEF Journey, Homing, Approaching, There
  <2>4. Base'
    BY <1>1, <1>2, <1>4, <1>5, <2>1, <2>3, BaseKept
  <2>5. CASE s = "MoveSafeZ"
    <3>0. /\ phase'[t] = "MoveSafeZ" /\ scan'.index = 1 /\ scan'.shots = <<Centre>>
          /\ scan'.centre = Centre /\ target'[t].z = 1
      BY <1>3, <1>4, <1>5, <1>6, <2>2, <2>5
    <3>1. PickerInv'
      BY <3>0 DEF PickerInv
    <3> QED BY <1>1, <1>4, <2>1, <2>4, <3>1, SoloGoes
  <2>6. CASE s = "SaveResult"
    <3>1. PickerInv'
      BY <1>3, <1>4, <1>5, <1>6, <2>2, <2>6 DEF PickerInv
    <3> QED BY <1>1, <1>4, <2>1, <2>4, <3>1, SoloGoes
  <2> QED BY <2>5, <2>6
<1>7. CASE scan.index = 0
  <2>1. latest.xy = Centre /\ scan.shots = <<>>
    BY <1>2, <1>3, <1>7 DEF PickerPlace
  <2>2. scan'.shots = <<Centre>>
    BY <1>5, <2>1
  <2>3. EnterState(t, "MoveSafeZ") /\ Keep
    BY <1>7 DEF TakePicker
  <2> QED BY <1>6, <2>2, <2>3
<1>8. CASE scan.index = 1
  <2> DEFINE beside == Beside(Centre, 1)
  <2>1. latest.xy = beside /\ scan.shots = <<Centre>>
    BY <1>2, <1>3, <1>8 DEF PickerPlace
  <2>2. scan'.shots = <<Centre, beside>>
    <3> HIDE DEF beside
    <3> QED BY <1>5, <2>1, AppendToOne
  <2>3. EnterState(t, "SaveResult") /\ Keep
    BY <1>8 DEF TakePicker
  <2> QED BY <1>6, <2>2, <2>3
<1> QED BY <1>3, <1>7, <1>8

\* A poll of PickerFOVScanning.
LEMMA PickerFOVScanningKeeps ==
  ASSUME RunInv, outcome = "running", PickerFOVScanning
  PROVE  RunInv'
<1> DEFINE t == "PickerFOVScanning"
           goal == target[t]
<1> USE DEF RunInv, Base, Typed
<1>t. Polled(t) /\ t \in Tasks /\ kind = "PickerFOV"
  <2>1. Polled(t)
    BY DEF PickerFOVScanning, PickerStep, At, Polled
  <2> QED BY <2>1, PolledTask
<1>e. Errs(t) /\ phase[t] # "MoveSafeZ" => RunInv'
  BY <1>t, ErrsKeeps
<1>f. Fail(t) /\ phase[t] # "MoveSafeZ" => RunInv'
  BY <1>e, FailErrs
<1>s. Stay => RunInv'
  BY StayKeeps DEF Stay
<1>g. Journey(t) /\ goal \in Targets
  BY <1>t DEF Journeys, Underway, MemoryOK
<1>k. ASSUME NEW s, UntimedPhase(s), Keep, UNCHANGED <<ctx, memory, vision, results>>,
             MachineOK', s # "VisionWait", phase[t] # "VisionWait"
      PROVE  /\ Took(t, s) /\ phase'[t] = s /\ goal' = goal
             /\ Journey(t)' => Base'
  <2>1. Goes(t, s)
    BY <1>k, UntimedGoes
  <2>2. CtxOK' /\ MemoryOK' /\ VisionOK' /\ ResultsOK' /\ UNCHANGED <<kind, target>>
    BY <1>k DEF CtxOK, MemoryOK, VisionOK, ResultsOK, ctx, memory, vision, results
  <2>3. asked' = FALSE
    BY <1>t, <1>k, NotAsked DEF vision
  <2>4. Journey(t)' => Base'
    BY <1>t, <1>k, <2>1, <2>2, <2>3, BaseKept
  <2>5. phase'[t] = s
    BY <1>t, <2>1 DEF Goes, FrameOK
  <2> QED BY <1>k, <2>1, <2>2, <2>4, <2>5 DEF Took
<1>1. CASE At(t, "MoveSafeZ") /\ PickerSafeZ
  BY <1>1, PickerSafeZKeeps
<1>2. CASE PickerStep("MoveOrigin", z.at = 0, Move(Home), "MoveScanPosition")
  <2>1. phase[t] = "MoveOrigin"
    BY <1>2 DEF PickerStep, At
  <2> SUFFICES ASSUME ~Stay PROVE RunInv'
    BY <1>s
  <2>2. /\ xy' = [cmd |-> Home, at |-> xy.at, from |-> xy.at] /\ UNCHANGED <<z, lit>>
        /\ UntimedPhase("MoveScanPosition") /\ Keep /\ UNCHANGED <<ctx, memory, vision, results>>
    BY <1>2 DEF PickerStep, Move
  <2>3. MachineOK'
    BY <2>2, HomePlace DEF MachineOK
  <2>4. Took(t, "MoveScanPosition") /\ phase'[t] = "MoveScanPosition" /\ (Journey(t)' => Base')
    BY <1>k, <2>1, <2>2, <2>3
  <2>5. Journey(t)'
    BY <2>2, <2>4 DEF Journey, Homing, Approaching, There
  <2> QED BY <1>t, <2>1, <2>4, <2>5, PickerTook
<1>3. CASE PickerStep("MoveScanPosition", xy.at = Home, Move(goal.xy), "MoveFocusPositionZ")
  <2>1. phase[t] = "MoveScanPosition"
    BY <1>3 DEF PickerStep, At
  <2> SUFFICES ASSUME ~Stay PROVE RunInv'
    BY <1>s
  <2>2. /\ xy' = [cmd |-> goal.xy, at |-> xy.at, from |-> xy.at] /\ UNCHANGED <<z, lit>>
        /\ UntimedPhase("MoveFocusPositionZ") /\ Keep /\ UNCHANGED <<ctx, memory, vision, results>>
    BY <1>3 DEF PickerStep, Move
  <2>3. MachineOK'
    BY <1>g, <2>2 DEF MachineOK, Targets
  <2>4. /\ Took(t, "MoveFocusPositionZ") /\ phase'[t] = "MoveFocusPositionZ" /\ goal' = goal
        /\ Journey(t)' => Base'
    BY <1>k, <2>1, <2>2, <2>3
  <2>5. Journey(t)'
    BY <2>2, <2>4 DEF Journey, Goal, Homing, Approaching, There
  <2> QED BY <1>t, <2>1, <2>4, <2>5, PickerTook
<1>4. CASE PickerStep("MoveFocusPositionZ", xy.at = goal.xy, MoveZ(goal.z), "VisionRequest")
  <2>1. phase[t] = "MoveFocusPositionZ"
    BY <1>4 DEF PickerStep, At
  <2> SUFFICES ASSUME ~Stay PROVE RunInv'
    BY <1>s
  <2>2. /\ xy.at = goal.xy /\ z' = [z EXCEPT !.cmd = goal.z] /\ UNCHANGED <<xy, lit>>
        /\ UntimedPhase("VisionRequest") /\ Keep /\ UNCHANGED <<ctx, memory, vision, results>>
    BY <1>4 DEF PickerStep, MoveZ
  <2>3. MachineOK' /\ z'.cmd = goal.z
    BY <1>g, <2>2 DEF MachineOK, Targets
  <2>4. /\ Took(t, "VisionRequest") /\ phase'[t] = "VisionRequest" /\ goal' = goal
        /\ Journey(t)' => Base'
    BY <1>k, <2>1, <2>2, <2>3
  <2>5. Journey(t)'
    BY <1>g, <2>1, <2>2, <2>3, <2>4 DEF Journey, Goal, Homing, Approaching, There
  <2> QED BY <1>t, <2>1, <2>4, <2>5, PickerTook
<1>5. CASE At(t, "VisionRequest") /\ z.at = goal.z /\ PickerRequest
  <2>1. phase[t] = "VisionRequest"
    BY <1>5 DEF At
  <2>2. UNCHANGED <<ctx, memory, results, z, xy>> /\ lit' = TRUE /\ latest' = NoAnswer
    BY <1>5 DEF PickerRequest, SetLightState
  <2>3. latest' \in [valid : BOOLEAN, garbled : BOOLEAN, xy : Places, z : 0..3] /\ ~latest'.valid
    BY <2>2, HomePlace DEF NoAnswer
  <2>4. CASE asked' = asked /\ SetErrorAndReturn(t)
    <3>1. Errs(t)
      BY <2>2, <2>3, <2>4 DEF Errs, VisionOK
    <3> QED BY <1>e, <2>1, <3>1
  <2>5. CASE asked' = TRUE /\ UntimedPhase("VisionWait") /\ Keep
    <3>1. Goes(t, "VisionWait")
      BY <2>5, UntimedGoes
    <3>2. phase'[t] = "VisionWait" /\ UNCHANGED <<kind, target>>
      BY <1>t, <2>2, <3>1 DEF Goes, FrameOK, ctx, memory
    <3>3. Journey(t)'
      BY <1>5, <1>g, <2>1, <2>2, <3>2 DEF Journey, Goal, Homing, Approaching, There
    <3>4. Journeys' /\ FrameOK'
      BY <1>t, <3>1, <3>2, <3>3, GoesOn
    <3>5. Answers'
      BY <1>t, <2>3, <2>5, <3>1, <3>2 DEF Answers, Waiting, Goes, Polled, FrameOK
    <3>6. CtxOK' /\ MemoryOK' /\ ResultsOK' /\ MachineOK' /\ VisionOK'
      BY <2>2, <2>3, <2>5 DEF CtxOK, MemoryOK, ResultsOK, MachineOK, VisionOK, ctx, memory, results
    <3>7. Took(t, "VisionWait")
      BY <2>2, <3>1 DEF Took
    <3>8. Base'
      BY <3>4, <3>5, <3>6
    <3> QED BY <1>t, <2>1, <3>7, <3>8, PickerTook
  <2> QED BY <1>5, <2>4, <2>5 DEF PickerRequest
<1>6. CASE At(t, "VisionWait") /\ AwaitAnswer(t, TakePicker)
  <2>1. phase[t] = "VisionWait"
    BY <1>6 DEF At
  <2>2. \/ Fail(t) \/ Stay
        \/ TakePicker /\ latest.valid /\ UNCHANGED <<vision, results, z, xy>> /\ lit' = FALSE
    BY <1>6 DEF AwaitAnswer, SetLightState
  <2> QED BY <1>6, <1>f, <1>s, <2>1, <2>2, TakePickerKeeps
<1>7. CASE PickerStep("SaveResult", TRUE, UNCHANGED machine, "ReturnHome")
  <2>1. phase[t] = "SaveResult"
    BY <1>7 DEF PickerStep, At
  <2>2. /\ UNCHANGED <<z, xy, lit>> /\ UntimedPhase("ReturnHome") /\ Keep
        /\ UNCHANGED <<ctx, memory, vision, results>>
    BY <1>7 DEF PickerStep, machine
  <2>3. MachineOK'
    BY <2>2 DEF MachineOK
  <2>4. Took(t, "ReturnHome") /\ phase'[t] = "ReturnHome" /\ (Journey(t)' => Base')
    BY <1>k, <2>1, <2>2, <2>3
  <2>5. Journey(t)'
    BY <2>4 DEF Journey, Homing, Approaching, There
  <2> QED BY <1>t, <2>1, <2>4, <2>5, PickerTook
<1>8. CASE /\ At(t, "ReturnHome")
           /\ MoveZ(0)
           /\ NextTask
           /\ UNCHANGED <<phase, deadline, ctx, memory, vision, results>>
  <2>1. phase[t] = "ReturnHome"
    BY <1>8 DEF At
  <2>2. MachineOK' /\ UNCHANGED xy
    BY <1>8 DEF MoveZ, MachineOK
  <2> QED BY <1>t, <1>8, <2>1, <2>2, LastKeeps
<1> QED BY <1>s, <1>1, <1>2, <1>3, <1>4, <1>5, <1>6, <1>7, <1>8 DEF PickerFOVScanning

-----------------------------------------------------------------------------
(* CLoad1PerformHandPitchScanningTask. *)

\* Two pitches of two columns of Rows pickers.
LEMMA PitchCount == Len(PitchPoints) = 8 /\ DOMAIN PitchPoints = 1..8
BY DEF PitchPoints, Rows

\* A step that takes no picture.
LEMMA PitchTook ==
  ASSUME RunInv, Polled("HandPitchScanning"), Base', NEW s, Took("HandPitchScanning", s),
         \/ /\ phase["HandPitchScanning"] \in {"MoveFocusPositionZ", "VisionRequest"}
            /\ s \in {"VisionRequest", "VisionWait"}
         \/ phase["HandPitchScanning"] = "ReturnHome" /\ s = "SaveHandPitchResult"
  PROVE  RunInv'
<1> DEFINE t == "HandPitchScanning"
<1>1. t \in Tasks /\ kind = "HandPitch"
  BY PolledTask DEF RunInv, Base, Typed
<1>2. phase'[t] = s /\ UNCHANGED <<kind, target, scan>>
  BY <1>1 DEF Took, Goes, RunInv, Base, Typed, FrameOK, ctx, memory
<1>3. PitchInv
  BY DEF RunInv, RecipeInv
<1>4. PitchInv'
  BY <1>1, <1>2, <1>3 DEF PitchInv
<1> QED BY <1>2, <1>4, SoloGoes DEF Took

\* The centre is read once, the height again before every round.
LEMMA PitchSafeZKeeps ==
  ASSUME RunInv, outcome = "running", At("HandPitchScanning", "MoveSafeZ"), PitchSafeZ
  PROVE  RunInv'
<1> DEFINE t == "HandPitchScanning"
<1> USE DEF RunInv, Base, Typed
<1>1. Polled(t) /\ phase[t] = "MoveSafeZ" /\ t \in Tasks /\ kind = "HandPitch"
  BY PolledState, PolledTask
<1>2. PitchInv
  BY DEF RecipeInv
<1>3. PICK height \in {z.at, 0} :
        /\ z' = [cmd |-> 0, at |-> height]
        /\ target' = [target EXCEPT ![t].z = height]
        /\ scan' = IF scan.started THEN scan
                                   ELSE [scan EXCEPT !.started = TRUE, !.centre = xy.at]
        /\ EnterStateWithTimeout(t, "MoveOrigin") /\ Keep
        /\ UNCHANGED <<ctx, count, aligned, xy, lit, vision, results>>
  BY DEF PitchSafeZ
<1>4. height \in 0..3
  BY DEF MachineOK
<1>5. Goes(t, "MoveOrigin")
  BY <1>1, <1>3, EnterGoes
<1>6. target' \in [Tasks -> Targets]
  <2>1. target[t] \in Targets
    BY <1>1 DEF MemoryOK
  <2>2. [target[t] EXCEPT !.z = height] \in Targets
    BY <1>4, <2>1 DEF Targets
  <2> QED BY <1>1, <1>3, <2>2 DEF MemoryOK
<1>7. /\ MemoryOK' /\ scan'.started = TRUE /\ scan'.centre = Centre
      /\ scan'.index = scan.index /\ scan'.shots = scan.shots
  <2>1. CASE scan.started
    <3>1. scan' = scan
      BY <1>3, <2>1
    <3> QED BY <1>1, <1>2, <1>3, <1>6, <2>1, <3>1 DEF MemoryOK, PitchInv
  <2>2. CASE ~scan.started
    <3>1. xy.at = Centre
      BY <1>1, <1>2, <2>2 DEF PitchInv, AtCentre
    <3>2. scan' = [scan EXCEPT !.started = TRUE, !.centre = Centre]
      BY <1>3, <2>2, <3>1
    <3>3. scan' = [started |-> TRUE, speed |-> scan.speed, next |-> scan.next,
                   first |-> scan.first, last |-> scan.last, index |-> scan.index,
                   centre |-> Centre, shots |-> scan.shots]
      BY <3>2 DEF MemoryOK
    <3>4. /\ scan.speed \in 0..Speeds /\ scan.index \in 0..8 /\ scan.shots \in Seq(Places)
          /\ count' \in [Tasks -> 0..MaxInspections] /\ aligned' \in Seq(Positions)
      BY <1>3 DEF MemoryOK
    <3> QED BY <1>6, <3>3, <3>4 DEF MemoryOK
  <2> QED BY <2>1, <2>2
<1>8. MachineOK'
  BY <1>3, <1>4 DEF MachineOK
<1>9. CtxOK' /\ VisionOK' /\ ResultsOK' /\ UNCHANGED kind
  BY <1>3 DEF CtxOK, VisionOK, ResultsOK, ctx, vision, results
<1>10. asked' = FALSE
  BY <1>1, <1>3, NotAsked DEF vision
<1>11. phase'[t] = "MoveOrigin"
  BY <1>1, <1>5 DEF Goes, FrameOK
<1>12. Journey(t)'
  BY <1>11 DEF Journey, Homing, Approaching, There
<1>13. Base'
  BY <1>1, <1>5, <1>7, <1>8, <1>9, <1>10, <1>12, BaseKept
<1>14. PitchInv'
  BY <1>1, <1>2, <1>7, <1>11 DEF PitchInv
<1> QED BY <1>1, <1>5, <1>9, <1>13, <1>14, SoloGoes

\* XY sets out for the origin, or for the picker whose turn it is.
LEMMA PitchMoveKeeps ==
  ASSUME RunInv, outcome = "running", Polled("HandPitchScanning"), NEW there \in BOOLEAN,
         NEW place \in Places, NEW s, PitchMove(there, place, s),
         \/ phase["HandPitchScanning"] = "MoveOrigin" /\ s = "MoveHandPitch"
         \/ /\ phase["HandPitchScanning"] = "MoveHandPitch" /\ s = "MoveFocusPositionZ"
            /\ place = Beside(Centre, scan.index + 1)
  PROVE  RunInv'
<1> DEFINE t == "HandPitchScanning"
<1> USE DEF RunInv
<1>1. t \in Tasks /\ kind = "HandPitch"
  BY PolledTask DEF Base, Typed
<1>2. CASE Fail(t)
  BY <1>2, FailErrs, ErrsKeeps
<1>3. CASE Stay
  BY <1>3, StayKeeps DEF Stay
<1>4. CASE ~Fail(t) /\ ~Stay
  <2>1. /\ target' = [target EXCEPT ![t].xy = place] /\ Move(place)
        /\ EnterStateWithTimeout(t, s) /\ Keep
        /\ UNCHANGED <<ctx, count, aligned, scan, vision, results>>
    BY <1>4 DEF PitchMove, Await
  <2>2. Base' /\ Goes(t, s) /\ target'[t].xy = place
    BY <1>1, <2>1, PlaceMoves DEF Approaching
  <2>3. phase'[t] = s /\ UNCHANGED <<kind, scan>>
    BY <1>1, <2>1, <2>2 DEF Base, Typed, Goes, FrameOK, ctx
  <2>4. PitchInv'
    BY <1>1, <2>2, <2>3 DEF PitchInv, RecipeInv
  <2> QED BY <2>2, <2>3, <2>4, SoloGoes
<1> QED BY <1>2, <1>3, <1>4

\* Every answer is of the picker whose turn it is.
LEMMA TakePitchKeeps ==
  ASSUME RunInv, outcome = "running", At("HandPitchScanning", "VisionWait"), latest.valid,
         UNCHANGED <<vision, results, z, xy>>, lit' = FALSE, TakePitch
  PROVE  RunInv'
<1> DEFINE t == "HandPitchScanning"
           taken == scan.index + 1
           s == IF taken = Len(PitchPoints) THEN "ReturnHome"
                ELSE IF LiesBack(taken) THEN "MoveSafeZ" ELSE "MoveHandPitch"
<1> USE DEF RunInv, Base, Typed
<1>1. Polled(t) /\ phase[t] = "VisionWait" /\ t \in Tasks /\ kind = "HandPitch"
  BY PolledState, PolledTask
<1>2. asked' = FALSE /\ latest.xy = target[t].xy /\ xy.cmd = target[t].xy
  BY <1>1, AnswerIsOfGoal DEF vision, Goal
<1>3. /\ scan.index < 8 /\ scan.started /\ scan.centre = Centre
      /\ target[t].xy = Beside(Centre, taken)
      /\ Len(scan.shots) = scan.index
      /\ \A i \in 1..scan.index : scan.shots[i] = Beside(Centre, i)
  BY <1>1 DEF RecipeInv, PitchInv
<1>i. scan.index \in Nat /\ taken \in 1..8
  BY <1>3 DEF MemoryOK
<1>4. MachineOK' /\ VisionOK' /\ ResultsOK' /\ CtxOK' /\ UNCHANGED <<kind, target, count, aligned>>
  BY DEF MachineOK, VisionOK, ResultsOK, CtxOK, vision, results, ctx, TakePitch
<1>5. /\ MemoryOK' /\ scan'.index = taken /\ scan'.centre = Centre /\ scan'.started
      /\ scan'.shots = Append(scan.shots, latest.xy)
  <2>1. taken \in 0..8 /\ scan' = Shoot(taken)
    BY <1>i DEF TakePitch
  <2> HIDE DEF taken
  <2> QED BY <1>3, <1>4, <2>1, ShootAdds
<1>6. EnterState(t, s) /\ Keep
  BY DEF TakePitch
<1>7. s \in {"MoveSafeZ", "MoveHandPitch", "ReturnHome"} /\ (s = "ReturnHome" <=> taken = 8)
  BY PitchCount
<1> HIDE DEF s
<1>8. Goes(t, s)
  BY <1>1, <1>6, EnterGoes
<1>9. phase'[t] = s
  BY <1>1, <1>8 DEF Goes, FrameOK
<1>10. Journey(t)'
  BY <1>2, <1>4, <1>7, <1>9 DEF Journey, Goal, Homing, Approaching, There
<1>11. Base'
  BY <1>1, <1>2, <1>4, <1>5, <1>7, <1>8, <1>10, BaseKept
<1>12. Len(scan'.shots) = taken /\ \A i \in 1..taken : scan'.shots[i] = Beside(Centre, i)
  <2>1. scan.shots \in Seq(Places) /\ latest.xy \in Places
    BY DEF MemoryOK, VisionOK
  <2>2. /\ Len(scan'.shots) = taken /\ scan'.shots[taken] = latest.xy
        /\ \A i \in 1..scan.index : scan'.shots[i] = scan.shots[i]
    BY <1>3, <1>5, <2>1, AppendProperties
  <2>3. \A i \in 1..taken : i \in 1..scan.index \/ i = taken
    BY <1>i
  <2> QED BY <1>2, <1>3, <2>2, <2>3
<1>13. s # "ReturnHome" => taken < 8
  BY <1>7, <1>i
<1>14. PitchInv'
  BY <1>1, <1>4, <1>5, <1>7, <1>9, <1>12, <1>13 DEF PitchInv
<1> QED BY <1>1, <1>4, <1>8, <1>11, <1>14, SoloGoes

\* A poll of HandPitchScanning.
LEMMA HandPitchScanningKeeps ==
  ASSUME RunInv, outcome = "running", HandPitchScanning
  PROVE  RunInv'
<1> DEFINE t == "HandPitchScanning"
           goal == target[t]
<1> USE DEF RunInv
<1>t. Polled(t) /\ t \in Tasks /\ kind = "HandPitch"
  <2>1. Polled(t)
    BY DEF HandPitchScanning, At, Polled
  <2> QED BY <2>1, PolledTask DEF Base, Typed
<1>e. Errs(t) /\ phase[t] # "MoveSafeZ" => RunInv'
  BY <1>t, ErrsKeeps
<1>f. Fail(t) /\ phase[t] # "MoveSafeZ" => RunInv'
  BY <1>e, FailErrs
<1>s. Stay => RunInv'
  BY StayKeeps DEF Stay
<1>1. CASE At(t, "MoveSafeZ") /\ PitchSafeZ
  BY <1>1, PitchSafeZKeeps
<1>2. CASE At(t, "MoveOrigin") /\ PitchMove(z.at = 0, Home, "MoveHandPitch")
  <2>1. phase[t] = "MoveOrigin" /\ (z.at = 0) \in BOOLEAN
    BY <1>2 DEF At
  <2> QED BY <1>t, <1>2, <2>1, HomePlace, PitchMoveKeeps
<1>3. CASE /\ At(t, "MoveHandPitch")
           /\ PitchMove(xy.at = goal.xy, Beside(scan.centre, scan.index + 1), "MoveFocusPositionZ")
  <2>1. phase[t] = "MoveHandPitch" /\ (xy.at = goal.xy) \in BOOLEAN
    BY <1>3 DEF At
  <2>2. scan.centre = Centre /\ scan.index < 8
    BY <1>t, <2>1 DEF RecipeInv, PitchInv
  <2>3. scan.index + 1 \in 1..8
    BY <2>2 DEF Base, Typed, MemoryOK
  <2>4. Beside(Centre, scan.index + 1) \in Places
    BY <2>3, CentrePlaces
  <2>5. PitchMove(xy.at = goal.xy, Beside(Centre, scan.index + 1), "MoveFocusPositionZ")
    BY <1>3, <2>2
  <2> QED BY <1>t, <2>1, <2>4, <2>5, PitchMoveKeeps
<1>4. CASE At(t, "MoveFocusPositionZ") /\ LowerZ(t, "VisionRequest", FALSE)
  <2>1. phase[t] = "MoveFocusPositionZ"
    BY <1>4 DEF At
  <2>2. Fail(t) \/ Stay \/ (Base' /\ Took(t, "VisionRequest") /\ xy' = xy)
    BY <1>t, <1>4, <2>1, LowerZMoves DEF Approaching
  <2> QED BY <1>t, <1>f, <1>s, <2>1, <2>2, PitchTook
<1>5. CASE At(t, "VisionRequest") /\ RequestAtFocus(t)
  <2>1. phase[t] = "VisionRequest"
    BY <1>5 DEF At
  <2>2. Errs(t) \/ Stay \/ (Base' /\ Took(t, "VisionWait"))
    BY <1>t, <1>5, <2>1, RequestAtFocusMoves
  <2> QED BY <1>t, <1>e, <1>s, <2>1, <2>2, PitchTook
<1>6. CASE At(t, "VisionWait") /\ AwaitAnswer(t, TakePitch)
  <2>1. phase[t] = "VisionWait"
    BY <1>6 DEF At
  <2>2. \/ Fail(t) \/ Stay
        \/ TakePitch /\ latest.valid /\ UNCHANGED <<vision, results, z, xy>> /\ lit' = FALSE
    BY <1>6 DEF AwaitAnswer, SetLightState
  <2> QED BY <1>6, <1>f, <1>s, <2>1, <2>2, TakePitchKeeps
<1>7. CASE At(t, "ReturnHome") /\ RaiseZ(t, "SaveHandPitchResult")
  <2>1. phase[t] = "ReturnHome"
    BY <1>7 DEF At
  <2>2. Base' /\ Took(t, "SaveHandPitchResult")
    BY <1>t, <1>7, <2>1, RaiseZMoves DEF Travelling, Homing, Approaching, There
  <2> QED BY <1>t, <2>1, <2>2, PitchTook
<1>8. CASE /\ At(t, "SaveHandPitchResult")
           /\ NextTask
           /\ UNCHANGED <<phase, deadline, ctx, memory, machine, vision, results>>
  <2>1. phase[t] = "SaveHandPitchResult"
    BY <1>8 DEF At
  <2>2. MachineOK' /\ UNCHANGED xy
    BY <1>8 DEF machine, MachineOK, Base, Typed
  <2> QED BY <1>t, <1>8, <2>1, <2>2, LastKeeps
<1> QED BY <1>1, <1>2, <1>3, <1>4, <1>5, <1>6, <1>7, <1>8 DEF HandPitchScanning

-----------------------------------------------------------------------------
(* The run. *)

\* Whatever task is polled.
LEMMA PollsKeep ==
  ASSUME RunInv, Polls
  PROVE  RunInv'
<1>1. outcome = "running"
  BY DEF Polls
<1>2. \/ MoveToStart \/ FindAlign \/ FocusScanning \/ PCDScanning \/ Backlash
      \/ CommitTeaching \/ Calibration \/ FOVScanning \/ PickerFOVScanning \/ HandPitchScanning
  BY DEF Polls
<1> QED
  BY <1>1, <1>2, MoveToStartKeeps, FindAlignKeeps, FocusScanningKeeps, PCDScanningKeeps,
     BacklashKeeps, CommitTeachingKeeps, CalibrationKeeps, FOVScanningKeeps,
     PickerFOVScanningKeeps, HandPitchScanningKeeps

\* Every step keeps the invariant.
LEMMA NextKeeps ==
  ASSUME RunInv, [Next]_vars
  PROVE  RunInv'
<1>1. CASE UNCHANGED vars
  BY <1>1, StayKeeps
<1>2. CASE Ends
  BY <1>2, EndsKeeps
<1>3. CASE Polls
  BY <1>3, PollsKeep
<1>4. CASE SetStopRequested
  BY <1>4, StopKeeps
<1>5. CASE ZArrives
  BY <1>5, ZArrivesKeeps
<1>6. CASE XYArrives
  BY <1>6, XYArrivesKeeps
<1>7. CASE VisionAnswers
  BY <1>7, VisionAnswersKeeps
<1>8. ASSUME NEW t \in Tasks, DeadlinePasses(t) PROVE RunInv'
  BY <1>8, DeadlineKeeps
<1> QED BY <1>1, <1>2, <1>3, <1>4, <1>5, <1>6, <1>7, <1>8 DEF Next, Execute

\* A run of every recipe keeps its invariant, whatever the axes, the vision
\* system and the deadlines do and whenever a stop is asked for.
THEOREM RunInvariant == Spec => []RunInv
<1>1. Init => RunInv
  BY InitRun
<1>2. RunInv /\ [Next]_vars => RunInv'
  BY NextKeeps
<1> QED BY <1>1, <1>2, PTL DEF Spec

\* The variables keep their types: no task corrects its target more often than
\* it measures, the walk of VatSequence::Execute stays within the recipe, and a
\* scan counts no further than its speeds, sides and pickers.
THEOREM RunTypeCorrect == Spec => []TypeOK
<1>1. RunInv => TypeOK
  <2> SUFFICES ASSUME RunInv PROVE TypeOK
    OBVIOUS
  <2> USE DEF RunInv, Base, Typed
  <2>1. DOMAIN phase = Tasks
    BY DEF FrameOK
  <2>2. scan.index \in 0..Len(PitchPoints)
    BY PitchCount DEF MemoryOK
  <2> QED BY <2>1, <2>2
          DEF TypeOK, CtxOK, FrameOK, MemoryOK, MachineOK, VisionOK, ResultsOK, Targets
<1> QED BY <1>1, RunInvariant, PTL

\* The answer that a waiting task of any recipe is about to take is of a picture
\* of its own target (and height, but for the backlash scan), and a row of
\* calibration results holds every correction of its location.
THEOREM PicturesInPlace == Spec => []MeasuredInPlace
<1>1. RunInv => MeasuredInPlace
  <2> SUFFICES ASSUME RunInv PROVE MeasuredInPlace
    OBVIOUS
  <2> USE DEF RunInv, Base, Typed
  <2> DEFINE t == Recipe[kind][idx]
  <2>1. ASSUME Waiting, latest.valid
        PROVE  latest.xy = Aim.xy /\ (kind # "Backlash" => latest.z = Aim.z)
    <3>1. outcome = "running" /\ Polled(t) /\ phase[t] = "VisionWait"
      BY <2>1 DEF Waiting, Polled
    <3>2. Aim = Goal(t)
      BY DEF Aim, Goal
    <3>3. latest.xy = Goal(t).xy
      BY <2>1, <3>1, AnswerIsOfGoal
    <3>4. ASSUME kind # "Backlash" PROVE latest.z = Goal(t).z
      <4>1. t \in Tasks /\ t # "Backlash"
        BY <3>1, <3>4, PolledTask
      <4>2. Journey(t)
        BY <3>1, <4>1 DEF Journeys, Underway
      <4> QED BY <2>1, <3>1, <3>4, <4>1, <4>2 DEF Answers, Journey
    <3> QED BY <3>2, <3>3, <3>4
  <2>2. \A row \in saved : row.xy = <<row.loc, MaxInspections + 1>>
    BY DEF ResultsOK
  <2> QED BY <2>1, <2>2 DEF MeasuredInPlace
<1> QED BY <1>1, RunInvariant, PTL

\* What a scan compares or saves was measured where it says: two places a pitch
\* apart after all corrections, the zero position from either side, the four
\* sides, the centre and its neighbour, every picker in order.
THEOREM ScansCompare == Spec => []ScansCompareTheRightPlaces
<1>1. RunInv => ScansCompareTheRightPlaces
  <2> SUFFICES ASSUME RunInv PROVE ScansCompareTheRightPlaces
    OBVIOUS
  <2> USE DEF RunInv, RecipeInv
  <2>1. phase["PCDScanning"] \in {"CalculatePCD", "SavePCDResult"} =>
          scan.first.at = <<1, MaxInspections>> /\ scan.last.at = <<2, MaxInspections>>
    BY DEF Idle, PCDInv
  <2>2. phase["Backlash"] \in {"CalculateBacklash", "SaveBacklashResult"} =>
          /\ scan.first = [at |-> ZeroPosition, from |-> StartPosition]
          /\ scan.last = [at |-> ZeroPosition, from |-> EndPosition]
    BY DEF Idle, BacklashInv, FirstSide, LastSide
  <2>3. phase["FOVScanning"] = "ReturnHome" =>
          {scan.shots[i] : i \in DOMAIN scan.shots} = {Beside(<<1, 0>>, i) : i \in 1..Sides}
    <3> SUFFICES ASSUME phase["FOVScanning"] = "ReturnHome"
                 PROVE  Shot = {Beside(Centre, i) : i \in 1..Sides}
      BY DEF Shot, Centre
    <3>1. /\ Shot \subseteq {Beside(Centre, i) : i \in 1..Sides}
          /\ \A i \in 1..Sides : Beside(Centre, i) \in Shot
      BY DEF Idle, FOVInv
    <3> QED BY <3>1
  <2>4. phase["PickerFOVScanning"] \in {"SaveResult", "ReturnHome"} =>
          scan.shots = <<<<1, 0>>, Beside(<<1, 0>>, 1)>>
    BY DEF Idle, PickerInv, Centre
  <2>5. phase["HandPitchScanning"] = "SaveHandPitchResult" =>
          scan.shots = [i \in DOMAIN PitchPoints |-> Beside(<<1, 0>>, i)]
    <3> SUFFICES ASSUME phase["HandPitchScanning"] = "SaveHandPitchResult"
                 PROVE  scan.shots = [i \in 1..8 |-> Beside(Centre, i)]
      BY PitchCount DEF Centre
    <3>1. /\ Len(scan.shots) = 8
          /\ \A i \in 1..8 : scan.shots[i] = Beside(Centre, i)
      BY DEF Idle, PitchInv
    <3>2. scan.shots \in Seq(Places)
      BY DEF Base, Typed, MemoryOK
    <3> QED BY <3>1, <3>2
  <2> QED BY <2>1, <2>2, <2>3, <2>4, <2>5 DEF ScansCompareTheRightPlaces
<1> QED BY <1>1, RunInvariant, PTL

=============================================================================
