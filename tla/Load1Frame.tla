---------------------------- MODULE Load1Frame ----------------------------
(***************************************************************************)
(* What the tasks of the Load1 unit work on and with: the position list of *)
(* VAT_Context, the Z and XY axes and the light behind VatAdapterLoad1,    *)
(* the answer slot of the vision processor, and the state and deadline of  *)
(* NonBlockingTaskBase.  The handlers are in Load1Tasks, the loop over a   *)
(* recipe and the properties in Load1Run.                                  *)
(*                                                                         *)
(* X, Y and what else isMove waits for, the hand pitch and the buffer, and *)
(* the tables where a position names a place for them (more than four      *)
(* numbers), are one axis "xy": the adapter commands them in one Move, and *)
(* isMove answers for all of them at once.  Where a position names none,   *)
(* the tables are sent to 100 and isMove asks only that they are not       *)
(* below 0: they may still be on their way, and where they are is not part *)
(* of the axis.  A point of it is <<p, k>>: place p after k corrections by *)
(* a vision answer, or <<p, k, i>>: the i-th of the places around it that  *)
(* a scan visits.  A height is 0 (safe) or p, the focus height of place p; *)
(* heights that the tolerance of isMoveZ takes for one are one.            *)
(***************************************************************************)
EXTENDS Naturals, Sequences

CONSTANTS
  MaxPositions,    \* bound: inspection positions that a strategy adds
  MaxInspections   \* the parameter maxInspCount of the strategies

ASSUME BoundsAssumption == MaxPositions \in 1..3 /\ MaxInspections \in Nat \ {0}

VARIABLES
  kind,        \* which recipe the builder has put into the sequence
  idx,         \* the entry of the recipe being polled
  outcome,     \* "running", or what Execute has answered
  stop,        \* VAT_Context: stop requested
  positions,   \* VAT_Context: the vision positions left
  phase,       \* m_state_ of each task
  deadline,    \* m_hasDeadline_ of each task and whether it has passed
  target,      \* m_targetPosition (with m_locationId) of each task
  count,       \* m_inspectionCount of each task
  aligned,     \* m_alignedPositions of FindAlignPos
  scan,        \* what a scan keeps between its measurements
  z, xy,       \* the axes: commanded and actual, and where xy set out from
  lit,         \* the light
  asked,       \* the vision system holds a measure request
  latest,      \* the measure entry of the processor's latest data
  saved,       \* history: the calibration results handed to the repository
  taught       \* history: the teaching positions handed to the repository

ctx == <<kind, stop, positions>>
frame == <<idx, outcome, phase, deadline>>
memory == <<target, count, aligned, scan>>
machine == <<z, xy, lit>>
vision == <<asked, latest>>
results == <<saved, taught>>
vars == <<ctx, frame, memory, machine, vision, results>>

Home == <<0, 0>>

Points == (0..3) \X (0..MaxInspections + 1)

Beside(point, i) == Append(point, i)

Places == Points \cup {Beside(point, i) : point \in Points, i \in 1..8}

Position(p) == [loc |-> p, xy |-> <<p, 0>>, z |-> p]

Positions == [loc : 0..3, xy : Points, z : 0..3]

NoPosition == [loc |-> 0, xy |-> Home, z |-> 0]

NoAnswer == [valid |-> FALSE, garbled |-> FALSE, xy |-> Home, z |-> 0]

\* What the builders put into a sequence.  The FOV, picker FOV and hand pitch
\* recipes end, like LowCamCheck, at the calibration task; the task behind it is
\* run on its own, as a sequence of one task.
Recipe ==
  [ ZFocus |-> <<"MoveToStart", "FocusScanning">>,
    PlateJig |-> <<"MoveToStart", "FindAlign">>,
    UpperCamCheck |-> <<"MoveToStart", "FindAlign", "CommitTeaching">>,
    PCD |-> <<"MoveToStart", "PCDScanning">>,
    Backlash |-> <<"Backlash">>,
    LowCamCheck |-> <<"MoveToStart", "Calibration">>,
    FOV |-> <<"FOVScanning">>,
    PickerFOV |-> <<"PickerFOVScanning">>,
    HandPitch |-> <<"HandPitchScanning">> ]

Kinds == DOMAIN Recipe

Alone == {"FOV", "PickerFOV", "HandPitch"}

Tasks == {"MoveToStart", "FindAlign", "FocusScanning", "PCDScanning", "Backlash",
          "CommitTeaching", "Calibration", "FOVScanning", "PickerFOVScanning",
          "HandPitchScanning"}

\* How many positions the strategies of a recipe add: those read from the
\* repository are left out when the row is missing.
PositionCounts(k) ==
  CASE k \in {"PCD", "Backlash"} -> {1}
    [] k \in {"ZFocus", "LowCamCheck", "FOV"} -> 0..1
    [] k \in {"PickerFOV", "HandPitch"} -> {0}
    [] OTHER -> 0..MaxPositions

-----------------------------------------------------------------------------
(* VAT_Context *)

PeekVisionPosition(ps) == IF ps = <<>> THEN NoPosition ELSE ps[Len(ps)]

(* NonBlockingTaskBase *)

EnterState(t, s) ==
  /\ phase' = [phase EXCEPT ![t] = s]
  /\ deadline' = [deadline EXCEPT ![t] = "none"]

EnterStateWithTimeout(t, s) ==
  /\ phase' = [phase EXCEPT ![t] = s]
  /\ deadline' = [deadline EXCEPT ![t] = "armed"]

IsDeadlineExpired(t) == deadline[t] = "expired"

\* TR_KEEP, TR_NEXT and TR_PREV as VatSequence::Execute takes them.
Keep == UNCHANGED <<idx, outcome>>
NextTask == idx' = idx + 1 /\ UNCHANGED outcome
PrevTask == idx' = (IF idx > 1 THEN idx - 1 ELSE idx) /\ UNCHANGED outcome

\* SetErrorAndReturn, or an exception that Execute of the frame catches.
SetErrorAndReturn(t) ==
  /\ EnterState(t, "CS_ERROR")
  /\ outcome' = "false"
  /\ UNCHANGED idx

\* A handler that fails, or keeps waiting, having touched nothing else.
Fail(t) == SetErrorAndReturn(t) /\ UNCHANGED <<ctx, memory, machine, vision, results>>
Stay == UNCHANGED vars

\* Wait for the axis: the handler goes on once it is there, errs at the deadline.
Await(t, there, GoOn) ==
  \/ there /\ GoOn
  \/ ~there /\ IsDeadlineExpired(t) /\ Fail(t)
  \/ ~there /\ ~IsDeadlineExpired(t) /\ Stay

(* VatAdapterLoad1 *)

MoveZ(height) == z' = [z EXCEPT !.cmd = height] /\ UNCHANGED <<xy, lit>>

Move(point) == xy' = [cmd |-> point, at |-> xy.at, from |-> xy.at] /\ UNCHANGED <<z, lit>>

SetLightState(on) == lit' = on /\ UNCHANGED <<z, xy>>

ZArrives ==
  /\ outcome = "running"
  /\ z.at # z.cmd
  /\ z' = [z EXCEPT !.at = z.cmd]
  /\ UNCHANGED <<ctx, frame, memory, xy, lit, vision, results>>

\* All that isMove looks at is where it wants it.
XYArrives ==
  /\ outcome = "running"
  /\ xy.at # xy.cmd
  /\ xy' = [cmd |-> xy.cmd, at |-> xy.cmd, from |-> xy.from]
  /\ UNCHANGED <<ctx, frame, memory, z, lit, vision, results>>

(* The vision processor *)

\* Mutant of RequestMeasure: the light goes on and the old answer stays.
RequestKeeping(t) ==
  /\ SetLightState(TRUE)
  /\ UNCHANGED <<ctx, memory, results, latest>>
  /\ asked' = TRUE /\ EnterStateWithTimeout(t, "VisionWait") /\ Keep

\* Light on, latest data cleared, request sent; sending may fail.
RequestMeasure(t) ==
  /\ SetLightState(TRUE)
  /\ latest' = NoAnswer
  /\ UNCHANGED <<ctx, memory, results>>
  /\ \/ asked' = TRUE /\ EnterStateWithTimeout(t, "VisionWait") /\ Keep
     \/ asked' = asked /\ SetErrorAndReturn(t)

\* The system takes its picture where the machine is.  Its answer is recorded,
\* or rejected (status not 1), or recorded with offsets that are no number.
VisionAnswers ==
  /\ outcome = "running"
  /\ asked
  /\ asked' = FALSE
  /\ \/ \E garbled \in BOOLEAN :
          latest' = [valid |-> TRUE, garbled |-> garbled, xy |-> xy.at, z |-> z.at]
     \/ latest' = NoAnswer
  /\ UNCHANGED <<ctx, frame, memory, machine, results>>

=============================================================================
