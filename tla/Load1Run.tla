----------------------------- MODULE Load1Run -----------------------------
(***************************************************************************)
(* A run of a Load1 recipe: VatSequence::Execute polls the tasks that the  *)
(* builder put into the sequence while the axes move, the vision system    *)
(* answers, deadlines pass and somebody may ask for a stop.                *)
(***************************************************************************)
EXTENDS Load1Scans

\* The list a strategy puts into the context, one place per position.
Configured(n) == [i \in 1..n |-> Position(i)]

\* The machine is where an earlier run left it, Z down or still on its way; a scan
\* on its own begins where calibration ends, at rest on the first position.  The
\* vision system owes nobody an answer.
Init ==
  /\ kind \in Kinds
  /\ \E n \in PositionCounts(kind) : positions = Configured(n)
  /\ idx = 1
  /\ outcome = "running"
  /\ stop = FALSE
  /\ phase = [t \in Tasks |-> InitialPhase(t, positions)]
  /\ deadline = [t \in Tasks |-> "none"]
  /\ target = [t \in Tasks |-> InitialTarget(t, positions)]
  /\ count = [t \in Tasks |-> 0]
  /\ aligned = <<>>
  /\ scan = [started |-> FALSE, speed |-> 0, next |-> "MoveOrigin",
             first |-> [at |-> Home, from |-> Home], last |-> [at |-> Home, from |-> Home],
             index |-> 0, centre |-> Home, shots |-> <<>>]
  /\ IF kind \in Alone
     THEN /\ z = [cmd |-> 1, at |-> 1]
          /\ xy = [cmd |-> <<1, 0>>, at |-> <<1, 0>>, from |-> Home]
     ELSE /\ z \in {[cmd |-> 0, at |-> 0], [cmd |-> 1, at |-> 1], [cmd |-> 0, at |-> 1]}
          /\ xy = [cmd |-> Home, at |-> <<1, 0>>, from |-> <<1, 0>>]
  /\ lit = FALSE
  /\ asked = FALSE
  /\ latest = NoAnswer
  /\ saved = {}
  /\ taught = {}

\* The loop has seen the stop request, or has passed the last task.
Ends ==
  /\ outcome = "running"
  /\ \/ stop /\ outcome' = "false"
     \/ ~stop /\ idx > Len(Recipe[kind]) /\ outcome' = "true"
  /\ UNCHANGED <<idx, phase, deadline, ctx, memory, machine, vision, results>>

Polls ==
  /\ outcome = "running"
  /\ ~stop
  /\ \/ MoveToStart
     \/ FindAlign
     \/ FocusScanning
     \/ PCDScanning
     \/ Backlash
     \/ CommitTeaching
     \/ Calibration
     \/ FOVScanning
     \/ PickerFOVScanning
     \/ HandPitchScanning

Execute == Ends \/ Polls

SetStopRequested ==
  /\ outcome = "running"
  /\ ~stop
  /\ stop' = TRUE
  /\ UNCHANGED <<kind, positions, frame, memory, machine, vision, results>>

DeadlinePasses(t) ==
  /\ outcome = "running"
  /\ deadline[t] = "armed"
  /\ deadline' = [deadline EXCEPT ![t] = "expired"]
  /\ UNCHANGED <<idx, outcome, phase, ctx, memory, machine, vision, results>>

Next ==
  \/ Execute
  \/ SetStopRequested
  \/ ZArrives
  \/ XYArrives
  \/ VisionAnswers
  \/ \E t \in Tasks : DeadlinePasses(t)

\* The sequence thread keeps polling and time passes; nothing makes the axes
\* arrive, the vision system answer or anybody ask for a stop.
Fairness == WF_vars(Execute) /\ \A t \in Tasks : WF_vars(DeadlinePasses(t))

Spec == Init /\ [][Next]_vars /\ Fairness

-----------------------------------------------------------------------------

\* The variables keep their types: no target is corrected more often than the
\* task measures, and the walk stays within the recipe.
TypeOK ==
  /\ kind \in Kinds
  /\ idx \in 1..(Len(Recipe[kind]) + 1)
  /\ outcome \in {"running", "true", "false"}
  /\ stop \in BOOLEAN /\ lit \in BOOLEAN /\ asked \in BOOLEAN
  /\ positions \in Seq(Positions) /\ aligned \in Seq(Positions)
  /\ DOMAIN phase = Tasks
  /\ deadline \in [Tasks -> {"none", "armed", "expired"}]
  /\ target \in [Tasks -> [loc : 0..3, xy : Places, z : 0..3]]
  /\ count \in [Tasks -> 0..MaxInspections]
  /\ z \in [cmd : 0..3, at : 0..3]
  /\ xy \in [cmd : Places, at : Places, from : Places]
  /\ latest \in [valid : BOOLEAN, garbled : BOOLEAN, xy : Places, z : 0..3]
  /\ scan.speed \in 0..Speeds /\ scan.index \in 0..Len(PitchPoints)
  /\ scan.shots \in Seq(Places)
  /\ saved \subseteq [loc : 0..3, xy : Points] /\ taught \subseteq [loc : 0..3, xy : Points]

MovesWithZDown == {"Backlash", "HandPitch"}

\* XY is commanded only while Z is up and stays there, whatever an earlier run
\* left behind and however late an axis is.  Two scans are the exception: the
\* second approach of the backlash scan to the zero position is made with Z down,
\* and so is a move of the hand pitch scan from a picker to the one in front of it.
XYOnlyAtSafeZ ==
  [][xy'.cmd # xy.cmd => kind \in MovesWithZDown \/ z = [cmd |-> 0, at |-> 0]]_vars

\* Where the task that waits for an answer wants the picture taken.
Aim ==
  IF Recipe[kind][idx] = "FocusScanning" THEN PeekVisionPosition(positions)
                                         ELSE target[Recipe[kind][idx]]

Waiting ==
  outcome = "running" /\ idx <= Len(Recipe[kind]) /\ phase[Recipe[kind][idx]] = "VisionWait"

\* An answer that a waiting task is about to take is of a picture of its own
\* target, at the height of that target unless the scan is the backlash scan,
\* which asks while Z is on its way.  And a calibration result is that of the
\* location it is saved under, with every correction of the repeats in it,
\* through all the walks back to MoveToStart.
MeasuredInPlace ==
  /\ Waiting /\ latest.valid =>
       latest.xy = Aim.xy /\ (kind # "Backlash" => latest.z = Aim.z)
  /\ \A row \in saved : row.xy = <<row.loc, MaxInspections + 1>>

\* A scan compares what it says: the PCD scan two places a pitch apart, each
\* after all its corrections; the backlash scan, at every speed, the same point
\* reached once from the start side and once from the end side; the FOV scan the
\* four sides of the place it began at; the picker FOV scan that place with one to
\* its front right; the hand pitch scan every picker once, in order.
ScansCompareTheRightPlaces ==
  /\ phase["PCDScanning"] \in {"CalculatePCD", "SavePCDResult"} =>
       scan.first.at = <<1, MaxInspections>> /\ scan.last.at = <<2, MaxInspections>>
  /\ phase["Backlash"] \in {"CalculateBacklash", "SaveBacklashResult"} =>
       /\ scan.first = [at |-> ZeroPosition, from |-> StartPosition]
       /\ scan.last = [at |-> ZeroPosition, from |-> EndPosition]
  /\ phase["FOVScanning"] = "ReturnHome" =>
       {scan.shots[i] : i \in DOMAIN scan.shots} = {Beside(<<1, 0>>, i) : i \in 1..Sides}
  /\ phase["PickerFOVScanning"] \in {"SaveResult", "ReturnHome"} =>
       scan.shots = <<<<1, 0>>, Beside(<<1, 0>>, 1)>>
  /\ phase["HandPitchScanning"] = "SaveHandPitchResult" =>
       scan.shots = [i \in DOMAIN PitchPoints |-> Beside(<<1, 0>>, i)]

Ended == outcome # "running"

AxesArrive == WF_vars(ZArrives) /\ WF_vars(XYArrives)

\* Recipes with a task that waits for an axis in a state without a deadline.
Untimed == {"PlateJig", "UpperCamCheck", "PCD", "FOV", "HandPitch"}

\* The vision system answers every request with a valid result.
Answered == Waiting ~> ~Waiting \/ latest.valid

\* Every run ends without a stop request and without an answer of the vision
\* system; the timed recipes end even when an axis never arrives.  The picker FOV
\* scan, whose time-outs no strategy sets, ends if axes and answers arrive.
RunsEnd ==
  \/ <>Ended
  \/ kind \in Untimed /\ ~AxesArrive
  \/ kind = "PickerFOV" /\ ~(AxesArrive /\ Answered)

\* What the guide to the equipment software demands of every wait for a motion or
\* for an answer, that it has a time-out, and so: every run ends, whatever fails
\* to arrive.  No run checks it: the code breaks it in the recipes that RunsEnd
\* excepts.
EveryRunEnds == <>Ended

\* What the strategies ask for when they add positions: a run that answers true
\* has measured each of them.
EveryPositionInspected ==
  outcome = "true" /\ kind \in {"PlateJig", "UpperCamCheck"} =>
    \A i \in 1..Len(positions) : \E row \in saved : row.loc = positions[i].loc

=============================================================================
