# VisionMotionFramework in TLA+

TLA+ modules, TLC configurations and TLAPS proofs about the VisionMotionFramework: the
C++ framework that drives the axes of a placement machine through calibration and
measuring sequences and talks to a vision system over TCP. All paths below are relative
to the repository's root, which the modules' comments abbreviate further to the class or
function they translate.

To check: `tlc -config X.cfg M` for a run of the table in "The runs", `tlapm M.tla` for
the eight modules with proofs (`*Proofs`).

1. [The system](#the-system)
2. [What is hard about it, and what makes it correct](#what-is-hard-about-it-and-what-makes-it-correct)
3. [The modules and the code](#the-modules-and-the-code)
4. [The runs](#the-runs)
5. [Fairness](#fairness)
6. [What is proved](#what-is-proved)
7. [Where the code and its documents differ](#where-the-code-and-its-documents-differ)
8. [What is not modelled](#what-is-not-modelled)
9. [What could come next](#what-could-come-next)

## The system

```
 dialog (UI thread)                               vision system (another machine)
   | start / stop / close                              | TCP, fixed-length packets
   v                                                   v
 CVatEngineUiAdapter --owns--> VatCorrectionEngine   VisionTcpClient   (receive thread)
   ^   m_seqMutex                 | owns               | framer, callback
   | PostMessage                  v                    v
   +---- result notices --- AsyncSequenceRunner      VisionController
                              | (sequence thread)      | queue
                              v                        v
                            VatSequence ----polls--> tasks ... VisionProcessorBase
                              |                        |        (packet thread)
                              |  VAT_Context <---------+         m_latestData
                              |  (stop flag, positions)|
                              v                        v
                          VatAdapterLoad1          IDataRepository
                          (axes, light)            (AsyncDataRepository: worker thread)
```

| component | state it keeps | operations | talks to |
|---|---|---|---|
| `VatSequence` (DVH_Library) | task list, index, abort flag, `m_cv` | `Execute`, `Stop`, `Abort`, `AddTask` | polls `ITask::Execute` with the `VAT_Context` |
| `NonBlockingTaskBase` | state, deadline, initialised flag of one task | `Execute` = stop gate, `OnInitialize` once, `OnPoll`; `EnterState`, `EnterStateWithTimeout`, `SetErrorAndReturn` | base of every task |
| `VAT_Context` | sticky stop flag, list of vision positions, parameters, processor, repository, adapter | getters and setters under one mutex, `Peek`/`Pop`/`AddVisionPosition`, `ExecuteVisionCommand` | shared by the tasks of a run and by whoever stops it |
| `AsyncSequenceRunner` | running flag, thread object, current sequence and context | `Start`, `Stop`, `Abort`, `WaitForCompletion`, destructor | runs one `VatSequence` on its thread, tells a result sink |
| `VatCorrectionEngine`, `CVatEngineUiAdapter` | the engine, the owner window, `m_seqMutex` | `StartVatSequence`, `StopVatSequence`, `SetOwner`, destructor | the dialog on one side, the runner's notices on the other |
| Load1 tasks (Equipment2015) | per task: state, target, repeat count, intermediate measurements | `OnInitialize`, `OnPoll` and one handler per state | axes and light, vision processor, repository, context |
| Load1 builders, strategies, sequence factory | none (straight-line construction) | which tasks a recipe consists of, which positions and parameters it starts with | fill sequence and context before a run |
| `VatAdapterLoad1`, `Load1Parts` | commanded and actual place of the axes, the light | `MoveZ`, `Move`, `isMoveZ`, `isMove`, `getPulse`, `SetLightState` | hardware |
| `VisionProcessorBase`, `VisionMemoryProcessor`, `VisionSLTProcessor` | latest answer per command, packet thread | `Initialize`, `RequestMeasureAsync`, `ClearLatestData`, `IsValid`, `GetLatestData`, the packet handlers | the link; the tasks through the context |
| `VisionController` | packet queue, framer | `Connect`, `Disconnect`, `FetchPackets`, the receive callback | transport below, processor above |
| `VisionTcpClient` | socket, running and connected flags, callback and its mutex | connect, `RecvOnce`, `Disconnect`, destructor | the socket, and the framer the controller lends it |
| `FixedLengthFramer` | byte buffer | `FeedBytes`, `NextFrame` | used by transport and controller alike |
| `AsyncDataRepository` | three queues, worker thread, stop flag | three queued saves, destructor, pass-through loads | an inner `IDataRepository` |
| `SqliteDataRepository` | database handle, the transaction it may be in, image files | eleven saves, most in one transaction each; loads; `Initialize`, `Shutdown` | SQLite, file system |
| `FileDataRepository` | text files | one append or scan per call | nobody creates one |
| `WorkerScheduler` | job queue, thread pool | `Start`, `Stop`, `Enqueue` | nobody installs one |
| Actuators | cylinder, signal and timer states | polled commands | digital I/O |

## What is hard about it, and what makes it correct

*Two ways to interrupt one loop.* `Execute` looks at the stop flag of the context at its
head, at the abort flag under its mutex, and the base class of the tasks looks at the stop
flag once more. Correct: after an interruption at most the one task call that was past its
checks still runs, the loop ends, no wake-up is lost, and `true` means that every task has
passed although PREV walks back over the list.

*One runner, many callers.* `Start`, `WaitForCompletion`, `Abort` and the destructor join
the sequence thread outside the mutex they otherwise hold; the thread tells its ending
after it has decided it. Correct: one sequence thread, which owns its sequence and context
as long as it runs, notices in order, nothing after a wait, and stops that are not lost.

*A UI thread that joins a thread that reports to it.* Start, stop, close and destruction on
the UI thread meet the notices of the sequence thread at one mutex. Correct: one sequence at
a time, no thread left behind, calls that return.

*A queue with a promise.* Saves answer success before they are written. Correct: each is
written once or given up after its retries, in order, a status last, none forgotten at
shutdown.

*A stream that is not a sequence of packets.* Receive thread, framer, callback, queue and
packet thread take a TCP stream apart while the owner disconnects or destroys it. Correct:
whole packets in order (which the code breaks when a `recv` brings several), nothing lost, nothing
called on dead objects, teardown that returns.

*A question and an answer that carry no number.* A task asks under the context's mutex, the
packet thread fills a slot per command, the task polls it; answers may be late, refused or
missing. Correct: a task takes the answer to its own question, however early it comes, and a
stop request gets through while a task waits.

*Statements that fail, and a process that may die between them.* Saves of several statements
and files. Correct: success is durable, failure leaves nothing (which the code breaks for images),
nothing is half done.

*A pool that is stopped while it is fed.* Correct: a stop returns, and only after what it
found has been run.

*Tasks whose measurements depend on an order of polls.* Axes that arrive late or never,
answers that are late, rejected or garbled, deadlines, and PREV that re-enters an earlier
task with the memory of the last time. Correct: an answer that is used is of the place the
task thinks it is looking at and is saved as such; a scan compares the two
places it claims; XY moves only with Z up; runs end.

Some properties except a case in which the code does something nobody has said to be right or wrong:
`buffered` in `AnsweredIsDurable`, `MayBeStale` in `AnswerFits`,
`overlapped` in `WorkEnds`, a blocked send in `StopHeard`, the scans that move with Z down in
`XYOnlyAtSafeZ`. Each module has the behaviour, each exception is named in the property, and section 7
lists them.

The file `PROJECT.json` lists each hazard at its line, with the properties that watch it or
the reason why none does.

## The modules and the code

Every module names the C++ members its variables stand for, and its actions carry the names
of the functions they translate. A step is one critical section, or one access that the
code makes outside every lock.

**`VatSequence`** — `VatSequence::Execute` with the gate of `NonBlockingTaskBase::Execute`.
`pc` walks the loop body: the stop check, the abort check under `m_mutex`, fetching the
entry, the gate, the body of the task, the dispatch on its `TaskResult`, the timed wait on
`m_cv`. A task is abstract: it answers KEEP, NEXT, PREV, DONE or ERROR, or throws (the
catch clauses turn that into ERROR). `AddTask`, `Abort` and `SetStopRequested` come at
every point. History variables count the task bodies that begin after an interruption and
record the entries that have said NEXT since they were last re-entered.

**`AsyncDataRepository`** and **`WriteBehind`** — the write-behind queue and what it
promises. `Save(k)` is one of the three queued saves, `WorkerLoop` the worker: test of the
predicate, sleep, swap of the three queues, one attempt at a write per step, retries, drain
after a stop. The destructor sets its flag and notifies in two steps, both without
`m_mutex`, as the code does. `WriteBehind` knows only accepted, written and given-up saves:
none is written twice, or before an older one of its kind, and none is left when the
repository is closed. `Promise == INSTANCE WriteBehind WITH closed <- dtor = "destroyed"` is
the refinement, checked by TLC and proved.

**`AsyncSequenceRunner`** — the member functions of the runner as seen from several controlling
threads, and the sequence thread with its "started" and ending notices. A join is two steps,
both outside the mutex: `BeginJoin` finds the thread object joinable or throws, `EndJoin`
returns when the thread it waits for has ended; two joins of one thread are a data race, so
the later one may return or throw. The sequence itself is abstract; that a stop ends it is what `VatSequence` shows.

**`VatEngineUiAdapter`** — `CVatEngineUiAdapter` with the `VatCorrectionEngine` it owns.
An engine and its runner live and die together, and the runner runs one sequence, so a
sequence thread is identified with its engine. `holder` is the owner of `m_seqMutex` across
the steps of one call.

**`VisionLink`** — from the byte stream to the handlers. `wire` holds what the vision
system sent, `chunk` what one `recv` returned, `buffer` the framer's bytes, `queue` and
`local` the two packet lists. A `recv` returns any part of what is on the wire, of one packet or
of several, as TCP does; `merged` remembers the packets that came together with another. `Feed` and
`Extract` are the transport's use of the framer.
With a callback set, `Extract` also does what the callback does first, which is to feed the
frame into the same framer again (`VisionController.cpp:72`); `Push` is the rest of the
callback, which takes the complete frames out and queues them. `life` is the thread that owns the processor on its
way through `Initialize`, `Disconnect` and the chain of destructors, in the order C++ runs
them: the derived processor, the packet thread's join in the base, the controller, the
transport.

**`VisionExchange`** — a request and its answer, above the link. `client` walks the sequence
thread through `ExecuteVisionCommand` (lock, clear the slot, send, unlock) and the polls of the
task (`IsValid`, then `GetLatestData`); `open`, `inbox` and `todo` are what the vision system,
the packet thread and the handlers have still to do, and `latest` are the slots. A request that
gets no answer ends the task in error and so the run, and the next run has a new processor, as
`MemorySequenceStrategy` makes one (`NewRun`). The requests' numbers are not in the code; they
are there to tell answers apart. `stop` is a call of `AsyncSequenceRunner::Stop`, which needs
the context's mutex. Both processors are covered: they differ in the handlers they attach.

**`SqliteDataRepository`** — the storage behind a run. Every member function holds one mutex, so
there is one call at a time, but a step is one SQL statement or one file operation with the
clean-up its failure leads to, and `Crash` may come between any two. `view` is what the
connection sees, `disk` what is committed. Calls are numbered, and a call writes its number,
so that the properties can say whose row it is. A cell stands for the rows of a table, or for
the columns of a row that one save writes. That `SaveImage` does not look at the result of its
`write` is in the model too: `WriteTemp` may cut the file short, which the call does not see and the
history variable `truncated` remembers. SQLite is external: an open transaction is lost with
the connection, ROLLBACK ends it, BEGIN inside it is refused.

**`WorkerScheduler`** — the pool of threads that `VisionMsgDispatcher` would hand its handlers
to. A step is one critical section, the run of a task, or the joins, which `Stop` makes without
the mutex; `Enqueue` and `Start` may come in between. `Stop` also walks over the vector of threads
without the mutex: a `Start` that fills an empty vector meanwhile may be seen by the walk, or not,
and then clearing the vector destroys running threads, which ends the process (`Terminate`).

**`Load1Frame`**, **`Load1Tasks`**, **`Load1Scans`**, **`Load1Run`** — a run of a Load1 recipe. `Load1Frame`
has what the tasks share: the position list of the context, the axes and the light behind
`VatAdapterLoad1`, the answer slot of the processor, states and deadlines of
`NonBlockingTaskBase`, and what KEEP, NEXT and PREV do to the index. `Load1Tasks` has the
handlers of the tasks that the recipes reach, `Load1Scans` those of the three scans around the
place where the machine stands: one disjunct per state, and one poll is one step, because everything a poll
touches is read and written on the sequence thread alone, except the stop flag (looked at
between polls), the axes and the answer slot, which other actions change between any two
polls. `Load1Run` composes the recipes as the builders do and adds the environment: axes
arrive, the vision system answers (recorded, rejected, or with offsets that are no number),
deadlines pass, somebody asks for a stop. X, Y and what else `isMove` waits for are one axis:
hand pitch, buffer, and the tables where a position has more than four numbers. With fewer the
adapter sends the tables to 100 and `isMove` asks only that they are not below 0
(`VatAdapterLoad1.cpp:66-71`, `128-134`), so a task may go on while they move; where they are is
no part of the model. A point of the axis is
a place and the number of corrections applied to it, which is all the properties compare; a
height is safe or the focus height of a place. In the repository's recipes the FOV, picker FOV
and hand pitch scans stand behind the calibration task, which always ends in error (below);
`Load1Run` polls each of them in a sequence of its own, started from any machine state, which
is what it would find behind a calibration that ended well.

**`Load1Invariant`** — no part of the program: the inductive invariant of a Load1 run, which is as
much about the tasks as their handlers are and is read beside them.

The modules **`*Proofs`** have the theorems; each extends the module it is named after, `VisionProofs`
both `VisionExchange` and `VisionLink` (whose specification, type invariant and variables have
`Link` in their names for that reason), `Load1Proofs` `Load1Invariant`.

Definitions marked "Mutant of ..." in a comment are faulty variants of the definition that
follows them. Nothing uses them; they exist so that one can put them in its place and see
the property that guards it fail.

## The runs

| run | configuration | what it shows | properties |
|---|---|---|---|
| `sequence` | `VatSequence.cfg` | the polling loop under `Stop`, `Abort` and `AddTask` at every point | `AtMostOneLateBody`, `TrueMeansPassed`, `AbortWakesSleeper`, `RequestEndsExecute` |
| `write_behind` | `AsyncDataRepository.cfg` | batches, retries and the final drain keep the promise | `StatusAfterItsData`, `NoSleepOverWork`, `ImplementsPromise` |
| `runner` | `AsyncSequenceRunner.cfg` | one controlling thread, as the engine uses the runner, and `Stop` from anywhere | `SequenceOutlivesThread`, `NoticesInOrder`, `QuietAfterWait`, `StopEndsRun` |
| `adapter` | `VatEngineUiAdapter.cfg` | start, restart, stop, close and destruction against the notices | `NoOrphanThread`, `PostsInOrder`, `StopReturns` |
| `link` | `VisionLink.cfg` | framing and teardown, whatever part of the stream a `recv` returns | `AloneInPlace`, `NothingIsLost`, `NoCallbackIntoDeadController`, `EveryPacketDispatched`, `DestroyReturns` |
| `exchange` | `VisionExchange.cfg` | requests, late and refused answers, given-up waits, a stop at every point | `AnswerFits`, `AnswerTaken`, `StopHeard` |
| `load1` | `Load1.cfg` | every recipe and every scan, from wherever an earlier run left the machine | `MeasuredInPlace`, `ScansCompareTheRightPlaces`, `XYOnlyAtSafeZ`, `RunsEnd` |
| `storage` | `SqliteDataRepository.cfg` | saves whose statements and file operations fail, shutdown, death of the process | `AnsweredIsDurable`, `FailedResultsAbsent`, `NothingHalfDone` |
| `scheduler` | `WorkerScheduler.cfg` | start, stop, destruction and posts at every point | `StopDrains`, `WorkEnds` |
| `adapter_restart` | `VatEngineUiAdapterRestart.cfg` | a restart joins with the mutex the joined thread needs | violates `StartReturns` |
| `link_order` | `VisionLinkOrder.cfg` | a `recv` with bytes of two packets puts them out of order | violates `FramesInOrder` |
| `load1_positions` | `Load1Positions.cfg` | of several positions, one is measured for all | violates `EveryPositionInspected` |

Each passing run checks a `TypeOK` (`LinkTypeOK` in `link`) as well. Deadlock checking is off throughout: a run, a
repository, a link or an adapter that has been ended or destroyed has nothing left to do, and
the liveness properties say where a thread must go on.

**Bounds, and why they suffice.**

- `MaxTasks = 3`. PREV needs an entry to go back to and one (possibly an empty pointer) to
  cross; NEXT needs a last entry to leave; `AddTask` needs one more. The loop treats all
  further entries alike, and the safety properties are proved for every length.
- `MaxItems = 3`, `MaxRetries = 2`. Three saves give one of each kind in one batch, several
  of one kind in one batch, or three batches; two attempts give a first failure, a retry
  that works and one that exhausts. Proved for all values.
- `MaxRuns = 3`, two contexts. A run, its successor and one that reuses the first context with
  its sticky flag.
- `MaxEngines = 3`. A start, a restart, and a stop or a destruction in the middle of one more.
- `CellsPerPacket = 2`, `MaxPackets = 3`. A packet in one piece or in two, the end of one with the
  start of the next, two or three at once, one packet in each of the stages wire, buffer, queue. A third cell per packet adds only longer
  partial packets, which the framer keeps as it keeps one cell. The safety properties are proved
  for packets of any size and any number of them.
- `MaxPositions = 3`, `MaxInspections = 3` are the strategies' own numbers (`Load1.cfg`), not
  bounds of the model, and the safety properties are proved for any number of repeats. The violation run needs fewer repeats. `Rows = 2` in `Load1Scans` stands
  for the four rows of pickers: a step within a column, one to the next column and one back.
- `MaxRequests = 3`, `MaxRuns = 2` of the exchange: a request, a successor that an answer to the
  first could be taken for, and a third that shares the second one's packet; a late answer
  within a run and one left over from the run before. `AnswerFits` is proved for all values.
- `MaxCalls = 3` of the storage: a save that fails, one that its remains could spoil and one
  whose COMMIT could carry them to the file. The invariants are proved for any number.
- Two workers and three tasks: one task in hand, one queued and one posted during a stop, and a
  thread that leaves while another works. `StopDrains` is proved for any number.

## Fairness

- The threads of the process are scheduled: weak fairness of the sequence thread, the
  receive thread and the packet thread, each over the disjunction of its steps.
  Weak fairness suffices because the code waits on mutexes that their holders release, not
  in competition for ever; the one exception (the restart) is the violation run.
- A member function that has been called goes on. Nobody has to call one: `Start`, `Stop`,
  `Abort`, `Save`, `Disconnect` and the destructors carry no fairness.
- A task's call returns: `ITask` asks it to run briefly. A sequence inside the runner ends
  for certain only after its context was told to stop, which `RequestEndsExecute` shows of
  `VatSequence`.
- Deadlines pass. Axes need not arrive and the vision system need not answer: `RunsEnd` puts
  the arrival of the axes as a premise where the code has no deadline (`Untimed`) and does
  without it elsewhere.
- In the exchange the handlers, the polls and the release of the mutex are weakly fair. A
  stop request needs strong fairness: the mutex is free between two polls, again and again but
  not for good, and a mutex of the standard library does not starve a waiter when its holder
  sleeps between the polls. A send carries no fairness, it may block; the vision system owes
  no answer, and no deadline need pass.
- The pool's threads run and tasks end.
- No fairness for spurious wake-ups, and none for anything the vision system does.

## What is proved

TLAPS checks these for every value of the constants (those of `Load1` within
`BoundsAssumption`, where `MaxInspections` is any positive number).

**`VatSequenceProofs`** — `TypeCorrect`, `LateBodies`, `AbortWakes`, `TrueIsEarned`
(`Spec => []` of `TypeOK`, `AtMostOneLateBody`, `AbortWakesSleeper`, `TrueMeansPassed`), for
every length of the task list, from `MaxTasksAssumption`. None of the three is inductive.
`IInv` adds: after the late body the thread can only be on its way to a check that will see
the interruption (`LateBodyIsLast`; without it a second body could follow); the sleeping
branch was entered with no abort pending, so an abort seen asleep came later and signalled
(`SleeperIsSignalled`); every entry behind the index has passed since it was re-entered, and
the index never leaves the list (`PrefixPassed`). One step lemma per part, one case per
action.

**`AsyncDataRepositoryProofs`** — `TypeCorrect`, `NoLostWakeUp`, `StatusComesLast`,
`Invariance` and `Implements` (`Spec => ImplementsPromise`), for every number of saves and
attempts, from `MaxItemsAssumption` and `MaxRetriesAssumption`. The inductive invariant says
where the accepted saves are: what is not handled is in a queue or in the worker's hands
(`NothingLost`), each list ascends in the order of acceptance and whatever the worker holds is
older than whatever is queued, of every kind (`InOrder`). The last clause is what makes
`StatusAfterItsData` inductive: the three queues are swapped together, so when the worker
reaches a status nothing older can be anywhere else. The refinement follows step by step:
`StepRefines` maps a save to `Accept`, the end of an attempt to `Write` or `GiveUp`, the end
of the join to `Close` (the drain has left nothing by then) and all else to a stutter.

**`AsyncSequenceRunnerProofs`** — `TypeCorrect`, and under the assumption `OneController`
(one controlling thread; `Stop` may still come from anywhere) `SequenceIsKept`,
`SinkHearsInOrder` and `QuietWhenWaited`, for any number of runs and contexts. The invariant
says that every thread that has not ended is the newest run's and is held by the runner's
thread object (`Threads`), that `running` and the calls in progress agree with it (`Flagged`,
`Callers`), that after the destructor there is none (`Gone`), and how much each run has told
(`Told`). With two controllers `Threads` fails between `Relock` and `Spawn`: see below.

**`VatEngineUiAdapterProofs`** — `TypeCorrect` for any set of UI threads; with one of them
(`OneThread`, the dialog's) `SequencesAreOwned` and `WindowHearsInOrder`, for any number of
engines. What makes the notices come in order is that a new engine is created only after the
old one's thread has been joined: `NewestRuns` says that only the newest engine's thread runs,
`PostsMatch` that the newest notice is of an engine that existed by then.

**`VisionProofs`** — of the exchange `TypeCorrect` and `AnswersFit`, for any number of requests and runs.
The invariant bounds what can still reach a slot: a request is answered at most once and its
answer is in one place (`Once`), nothing of it exists before it is sent (`Unsent`), and while a
run lasts only the newest request's answer is still on its way (`Current`), because a request
that was not answered would have ended the run. So the slot that a task polls is empty or its
own (`Own`). The exceptions that `Current` makes for InspReady are where the packet it shares
with SetCok shows up.

Of the link, for packets of any size and any number of them, whatever a `recv` returns:
`LinkTypeCorrect`, `CallbackOutlived`, `AlonePacketsInPlace` and `CellsKept` (`LinkSpec => []` of
`LinkTypeOK`, `NoCallbackIntoDeadController`, `AloneInPlace` and `NothingIsLost`). The first two need only who may be where:
the receive thread is in the callback only while it is set, and it is set only between
`StartReceiving` and the controller's last `StopReceiving` (`Threads`).

The other two cannot say that the order is kept, because the shared framer breaks it; they say what
it does not break. `CountInv` counts the cells in the framer, in the receive thread's hands and on
the wire together with the packets passed on, and says which they are. `Aligned` says that the wire
goes on where the cells received so far end, and that once something of a packet that shares no
`recv` has been received, framer and chunk hold the beginning of that packet and nothing else
(`Beginning`): such a packet finds the framer empty, because frames have the size of packets however
the packets before it were mixed, and each frame of it is fed back into an empty framer. With
`AloneInPlace` these make `StreamInv`, which is inductive. Once the callback has been taken away
frames are dropped and `Aligned` no longer holds, but then nothing enters the queue any more.

**`SqliteDataRepositoryProofs`** — `TypeCorrect`, `AnsweredStaysStored`, `FailedResultsStayOut`
and `NothingIsHalfDone`, for any number of calls. The invariant relates the two views of the
database: outside a transaction they agree, inside one they differ in rows of the present call
or of parameters saved meanwhile (`Isolated`), numbers only grow (`Numbered`), what a call has
written is what its remaining statements leave (`Written`, `Planned`), what was answered is
there (`Durable`), and pairs are whole whenever they are committed (`Whole`).

**`WorkerSchedulerProofs`** — `TypeCorrect` and `StopHasDrained`, for any set of workers. No
task is lost between queue, hands and done (`NothingLost`), and a thread leaves only for a stop
that has not returned, with nothing of what the stop found left in the queue (`ExitedLast`). A
`Start` or an `Enqueue` in the meantime only adds, and the end of the process (`Terminate`) is no
return.

**`Load1Proofs`** — `XYOnlyWhileZIsUp` (`Spec => XYOnlyAtSafeZ`), for any number of repeats. A
property of one step, but what makes it true is spread over earlier steps and several tasks.
`SafeMoves` says that only the task being polled can be between raising Z and leaving for its
target, that it has commanded Z up by then, and that Z has been there once it has left for the
origin. Every handler is first shown to do one of five things (`Does`): rest, raise, wait,
leave for the origin, leave for the target; `DoesSafely` shows once that each of the five
keeps the invariant. PREV and NEXT need no special care, because no task hands over in a
state that commands XY.

`PicturesInPlace`, `ScansCompare` and `RunTypeCorrect` (`Spec => []` of `MeasuredInPlace`,
`ScansCompareTheRightPlaces` and `TypeOK`) follow from `RunInvariant`, whose invariant `RunInv` is
a module of its own, `Load1Invariant`. A picture in place is decided several polls before it is
taken, so each fact has to be carried from the state that makes it true to the state that uses it:

- `Journeys`: in every state of the polled task it says where XY and Z have been sent and what has
  been seen to arrive. A task sends XY in one state, sees it arrive in the next, and asks for its
  picture two states later.
- `Answers`: a request is out only while the polled task waits, and an answer in the slot is of
  where the axes are now; they cannot have moved, because nothing commands them while a task waits.
- `RecipeInv`, one part per recipe: `AlignInv` and `PCDInv` tie the place and the corrections of the target to
  the counter (this is what survives PREV, which re-enters a task with its old memory, and what
  makes the saved row hold every correction); `BacklashInv` knows which side is being approached and
  that the side seen first is already stored; `FOVInv`, `PickerInv` and `PitchInv` say which pictures
  the scan has when its counter stands where it stands; `StartInv` and `FocusInv` that the first task
  of a recipe hands over where the next one begins and with a position left.
- `Idle`: tasks of other recipes are where they start, so that a task named in one part cannot
  be what another part speaks of.

The proof has one lemma per shared move (`RaiseZ`, `LeaveForOrigin`, `LeaveForTarget`, `LowerZ`,
the request, the wait), saying what it does to the common part whichever task makes it, one per
handler, saying what its own recipe's part adds, and one per step of the axes, the vision system,
the deadlines and the stop request.

**Only model-checked.** The liveness properties, since TLAPS reasons neither about fairness nor about
ENABLED: `RequestEndsExecute`, `StopEndsRun`, `StopReturns`,
`EveryPacketDispatched`, `DestroyReturns`, `AnswerTaken`, `StopHeard`, `RunsEnd`, `WorkEnds`. Every
other property of a passing run is a theorem. The violations are TLC's.

## Where the code and its documents differ

Three runs find something the repository's own documents, comments or names promise
and the code does not do. `PROJECT.json` quotes the lines.

1. `CVatEngineUiAdapter::StartVatSequence` joins the old sequence with `m_seqMutex` held, which
   that sequence's next notice waits for (`adapter_restart`). Stopping releases it first.
2. `PeekVisionPosition` reads the back of the list, `PopVisionPosition` removes the front:
   `FindAlignPos` measures the last of several positions repeatedly and the others never
   (`load1_positions`).
3. `VisionController` lends its framer to the transport and feeds the frames back into it. A `recv`
   of more than one packet, or of the end of one and the start of the next, then puts a frame behind
   the bytes that follow it: packets change places or are mixed (`link_order`). The transport asks for
   8192 bytes at a time, a packet has 664. `link` shows what is left: no byte is lost or doubled, and
   a packet that came apart from others is passed on whole and in its place.

Four properties that documents of the repository promise are stated in the modules beside those the
runs check, and are false there too; put into the configuration of the module TLC shows each of them
violated within a few states.

- `RolledBack` (`SqliteDataRepository`). `SaveZFocusPoint` returns without ROLLBACK when its INSERT
  cannot be prepared, and every later BEGIN is refused; `docs/FEATURE_SPEC_TEMPLATE.md:74` guarantees
  a rollback on failure. The database that is delivered with the application
  (`Equipment2015/data/VAT_DATABASE.db`) has no table `z_focus_points` and no migration beside it, so
  there the first such save blocks every later transaction.
- `FailedLeavesNothing` (`SqliteDataRepository`). `SaveImage` commits its row with the temporary path,
  as the storage strategy at line 92 of that document says, and sets the final path in a second
  transaction. When that fails the call answers a failure, and the row stays and names a file that is
  gone. `FailedResultsAbsent`, which the run checks, is what holds: of the rows of the other saves, and
  of the final path.
- `StoredIsWhole` (`SqliteDataRepository`). `SaveImage` does not look at the result of writing the
  file: an image cut short on a full disk is recorded with success, where line 137 asks for a file
  created properly.
- `EveryRunEnds` (`Load1Run`). `FindAlignPos` and `PCDScanning` wait for the Z axis in states entered
  without a deadline, as other scans do, and the picker FOV scan has none at all, because its time-outs
  are parameters with default 0 that no strategy sets. The programming guide
  (`docs/DVH_VAT_EquipmentSW_ProgrammingGuide.md:443-449`) demands a time-out of every such wait.
  `RunsEnd` checks the other waits, and excepts these (`Untimed`).

Further observations, made while reading and visible in the models, which no run is about:

- `AsyncSequenceRunner::Start` unlocks to join a finished thread and does not look at the
  running flag again: two starters can both be accepted, and two threads run at once. With
  `Controllers = {c1, c2}` in `AsyncSequenceRunner.cfg` TLC finds it. The engine has one starter.
- The handlers of `VisionMemoryProcessor` can run after its derived part is gone, because the
  packet thread is joined in the base class's destructor: `VisionLink` has `DispatchPacket` between
  `DestroyDerived` and `StopProcessThread`.
- On the memory processor SetCok and InspReady share an answer packet, and an InspReady asked
  between the two handlers gets SetCok's packet (`MayBeStale`). No task of the repository asks
  for either. `VisionSLTProcessor` attaches no handler for InspReady's answer, and takes status 0
  of a measurement for good where the memory processor takes 1.
- The hand pitch scan reads its focus height after it has sent Z up, so the height depends on
  how far the axis has come, and moves XY between the points of a column with Z down. The FOV
  scan never photographs the centre it sets out from, discards every offset it is given, and
  repeats all of it for each position left in the list.
- A failed COMMIT in the third transaction of `SaveImage` is ignored (line 355) and may leave the
  transaction open. A death of the process between the rename and the UPDATE leaves a row that
  names the temporary file. An UPDATE of a run that does not exist answers success; image names restart with the process.
- `WorkerScheduler`: a `Start` that comes during a `Stop` keeps the threads from leaving, sets the
  running flag with no threads to come, or creates threads that `Stop` then destroys unjoined, which
  ends the process; `WorkEnds` excepts such a `Start` (`overlapped`); `Schedule` ignores its delay; a handler
  already scheduled runs after it was unregistered.
- An `Abort` that comes before `Execute` is forgotten (`BeginExecute`); `RequestEndsExecute` is about
  the requests that reach a running `Execute`.
- The runner's thread says "completed" whatever `Execute` answered.
- A stop request does not signal `m_cv`, although the comment at the TR_KEEP wait in
  `VatSequence.cpp` says the loop wakes at once; the timed wait is what ends it.
- The destructor of `AsyncDataRepository` notifies without the mutex. If that falls between
  the worker's test and its sleep the worker sleeps on and the destructor waits for it
  (`NotifyWorker` while `pc = "blocking"`).
- `CLoad1PerformCalibrationTask::OnInitialize` (lines 33-40) ends in an error state whether or
  not there is a position, so `LowCamCheck` and every recipe with this task answers false, and
  the tasks behind it (FOV, picker FOV and hand pitch scanning, the commit of the picker to
  camera distances) are not reached.
- The backlash scan moves XY with Z down: the check in `VatAdapterLoad1::Move` (line 43) is
  commented out. `XYOnlyAtSafeZ` excepts it by name.
- `SetLightState` switches cameras 0 to 2; the strategies use camera 6.
- The focus scan saves the taught Z and does not look at the answer it waits for.
- `CAxisController` stands in for hardware that is not in the repository and arrives at once;
  the models let an axis arrive late or never, as `isMoveZ` and `isMove` are written for.
- The strategies create `CMockVisionEventHandler`, whose `IsValid` is always true;
  the models follow `VisionMemoryProcessor`, the processor for a real link.
- `SetOwner`, `SetScheduler`, `SetTransport` and `SetLogger` have no caller.

## What is not modelled

- Of the transport: how a connection is made (only whether it worked; its time-out is not used),
  reconnecting, the send loop and the error handlers. Every processor is initialised once, and a send is one step that works, fails
  or blocks.
- Registering and removing handlers while packets arrive: the constructors fill the table before
  the link starts.
- The handlers of `PerformCalibration` behind its first state, and `CommitPickerCamDistance`,
  which computes on what they would leave behind: the calibration task ends in error at its first
  poll, so nothing says what they would start from.
- The CAM6 and CAM7 FOV strategies use members that `VAT_Context` does not have.
- SQLite: a statement works or fails, and the file survives the process; a crash of the machine is
  left out. `LoadHandCamGroup`, `LoadCamLocationGroup` and `LoadLocationIdByName` read tables that no
  function writes.
- `FileDataRepository` and `RepositoryFactory` have no caller. The file repository appends lines and
  scans for the first match; half of its functions answer success without storing anything.
- Actuators (cylinders, I/O thread, switch, timer): nothing creates them, and their hardware calls
  are commented out or stubbed.
- Packet layouts (`SECSIPacket`), byte order, mocks, loggers, UI painting.
- Values: coordinates, offsets and pitches are places and correction counts, so arithmetic
  and its rounding are outside the models.
- Vendored and copied text: `bin/thirdparty/sqlite3/include/sqlite3.h` alone has 13,968 of the
  repository's lines, and `bin/include` repeats headers of `DVH_Library` and `VisionCom`. Of the
  rest, declarations, packet layouts and straight-line parameter classes have no behaviour to model.

## What could come next

- The other half of the transport (connect, reconnect, send loop) composed with `VisionLink`, once
  something in the repository reconnects.
- An abstract specification of one background run (accepted, started, ended once, quiet
  afterwards) that the runner implements and the adapter relies on.
- A second `VisionLink` in which the callback does not feed the frames back, to show that with that
  change `FramesInOrder` holds for every `recv`.
- The calibration task, when its first state no longer ends in error.
