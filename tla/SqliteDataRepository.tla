----------------------- MODULE SqliteDataRepository -----------------------
(***************************************************************************)
(* The repository behind a run: one SQLite connection and a directory of   *)
(* images.  Every member function holds mutex_ for its whole duration, so  *)
(* there is one call at a time; but each of its SQL statements and file    *)
(* operations may fail, and the process may die between any two of them.   *)
(* A step is one statement or one file operation with the clean-up that    *)
(* its failure leads to.                                                   *)
(*                                                                         *)
(* Calls are numbered and a call writes its number.  A cell stands for the *)
(* rows of one table, or for the columns of one row that a call writes     *)
(* together: SaveZFocusResult and SaveCalibrationPosResult write different *)
(* columns of one InspInitPos row.                                         *)
(***************************************************************************)
EXTENDS Naturals, Sequences

CONSTANT MaxCalls     \* bound: how many saves are called

ASSUME MaxCallsAssumption == MaxCalls \in Nat

VARIABLES
  initialized,   \* initialized_, and db_ is open
  disk,          \* the database file: what is committed
  view,          \* what the connection sees
  inTxn,         \* the connection is inside a transaction
  files,         \* the image files that exist
  call,          \* the call that holds mutex_
  calls,         \* how many calls were made; the number of the newest
  outcome,       \* history: what each call answered
  acked,         \* history: the newest call that wrote a cell and succeeded
  buffered,      \* history: calls that succeeded in a transaction left open
  truncated      \* history: calls whose image was not written to its last byte

database == <<disk, view, inTxn>>
history == <<outcome, acked, buffered, truncated>>
vars == <<initialized, database, files, call, calls, history>>

Numbers == 1..MaxCalls

Cells == {"param", "run", "status", "point", "focus", "pos", "distance",
          "pitch", "inspection", "position"}

\* Which path the row of an image records.
Paths == {"none", "temp", "final"}

Files == Numbers \X {"temp", "final"}

\* The transactions: that of an ordinary save, and the three of SaveImage.
Transactions == {"save", "insert", "update", "delete"}

Idle == [op |-> "none", at |-> "idle", txn |-> "save", todo |-> <<>>]

At(label) == call.at = label

Empty == [row |-> [c \in Cells |-> 0], image |-> [n \in Numbers |-> "none"]]

Init ==
  /\ initialized = FALSE
  /\ disk = Empty
  /\ view = Empty
  /\ inTxn = FALSE
  /\ files = {}
  /\ call = Idle
  /\ calls = 0
  /\ outcome = [n \in Numbers |-> "none"]
  /\ acked = [c \in Cells |-> 0]
  /\ buffered = {}
  /\ truncated = {}

-----------------------------------------------------------------------------
(* Opening, closing, dying. *)

\* Initialize opens the file and applies a migration if it finds one; when
\* either fails the connection is closed again and nothing has changed.
Initialize ==
  /\ call = Idle
  /\ ~initialized
  /\ initialized' \in BOOLEAN
  /\ UNCHANGED <<database, files, call, calls, history>>

\* The connection is gone, and with it a transaction that was open.
CloseConnection ==
  /\ initialized
  /\ initialized' = FALSE
  /\ view' = disk
  /\ inTxn' = FALSE
  /\ UNCHANGED <<disk, files, calls, history>>

\* Shutdown, also called by the destructor, waits for the call in progress.
Shutdown ==
  /\ call = Idle
  /\ CloseConnection
  /\ UNCHANGED call

\* The process dies; what was committed and the files remain.
Crash ==
  /\ CloseConnection
  /\ call' = Idle

-----------------------------------------------------------------------------
(* How a call begins and ends. *)

Answer(what) ==
  /\ outcome' = [outcome EXCEPT ![calls] = what]
  /\ call' = Idle

\* Mutant of Enter: initialized_ is not looked at.
EnterUnchecked(op, at, txn, cells) ==
  /\ call = Idle
  /\ calls < MaxCalls
  /\ calls' = calls + 1
  /\ call' = [op |-> op, at |-> at, txn |-> txn, todo |-> cells]
  /\ UNCHANGED <<initialized, database, files, outcome, acked, buffered,
                 truncated>>

\* The check of initialized_ at the head of every save.
Enter(op, at, txn, cells) ==
  /\ call = Idle
  /\ calls < MaxCalls
  /\ calls' = calls + 1
  /\ call' = IF initialized
             THEN [op |-> op, at |-> at, txn |-> txn, todo |-> cells]
             ELSE Idle
  /\ outcome' = IF initialized
                THEN outcome
                ELSE [outcome EXCEPT ![calls + 1] = "failed"]
  /\ UNCHANGED <<initialized, database, files, acked, buffered, truncated>>

\* A save that writes its cells in one transaction.
Save(op, cells) == Enter(op, "begin", "save", cells)

SaveSequenceRun == Save("SaveSequenceRun", <<"run">>)
CreateSequenceRun == Save("CreateSequenceRun", <<"run">>)
UpdateSequenceRunStatus == Save("UpdateSequenceRunStatus", <<"status">>)
SaveZFocusPoint == Save("SaveZFocusPoint", <<"point">>)
SaveZFocusResult == Save("SaveZFocusResult", <<"focus">>)
SaveCalibrationPosResult == Save("SaveCalibrationPosResult", <<"pos">>)
SavePickerCamDistanceResult == Save("SavePickerCamDistanceResult", <<"distance">>)
SaveHandPitchResult == Save("SaveHandPitchResult", <<"pitch">>)
SaveTeachingResult == Save("SaveTeachingResult", <<"inspection", "position">>)
SaveImage == Enter("SaveImage", "file", "insert", <<>>)
SaveParam == Enter("SaveParam", "autocommit", "save", <<"param">>)

\* The file that a failed transaction of SaveImage removes.
Leftover ==
  {f \in files : \/ call.txn = "insert" /\ f = <<calls, "temp">>
                 \/ call.txn = "update" /\ f = <<calls, "final">>}

Fail ==
  /\ Answer("failed")
  /\ files' = files \ Leftover
  /\ UNCHANGED <<initialized, calls, acked, buffered, truncated>>

\* Mutant of Rollback: the transaction is ended by COMMIT.
CommitInstead ==
  /\ disk' = view
  /\ inTxn' = FALSE
  /\ UNCHANGED view

\* ROLLBACK; it ends the transaction even when COMMIT has just failed.
Rollback ==
  /\ view' = disk
  /\ inTxn' = FALSE
  /\ UNCHANGED disk

-----------------------------------------------------------------------------
(* The steps of a transaction. *)

\* Mutant of Begin: there is none, each statement commits by itself.
NoBegin ==
  /\ At("begin")
  /\ call' = [op |-> call.op, at |-> "statement", txn |-> call.txn,
              todo |-> call.todo]
  /\ UNCHANGED <<initialized, database, files, calls, history>>

Begin ==
  /\ At("begin")
  /\ ~inTxn
  /\ inTxn' = TRUE
  /\ call' = [op |-> call.op, at |-> "statement", txn |-> call.txn,
              todo |-> call.todo]
  /\ UNCHANGED <<initialized, disk, view, files, calls, history>>

\* BEGIN is refused, always so inside a transaction left open.  The call
\* returns at once, without a ROLLBACK.
BeginFails ==
  /\ At("begin")
  /\ Fail
  /\ UNCHANGED database

\* A statement cannot be prepared, as when its table does not exist.
\* SaveZFocusPoint is the one save that returns without a ROLLBACK.
PrepareFails ==
  /\ At("statement")
  /\ Fail
  /\ IF call.op = "SaveZFocusPoint" THEN UNCHANGED database ELSE Rollback

StatementFails ==
  /\ At("statement")
  /\ Fail
  /\ Rollback

\* What the statement does to db.  An UPDATE of a run that does not exist
\* changes nothing, and that is no error.
Effect(db) ==
  CASE call.txn = "insert" -> [db EXCEPT !.image[calls] = "temp"]
    [] call.txn = "update" -> [db EXCEPT !.image[calls] = "final"]
    [] call.txn = "delete" -> [db EXCEPT !.image[calls] = "none"]
    [] OTHER -> IF Head(call.todo) = "status" /\ db.row["run"] = 0
                THEN db
                ELSE [db EXCEPT !.row[Head(call.todo)] = calls]

Last == call.txn # "save" \/ Len(call.todo) = 1

Statement ==
  /\ At("statement")
  /\ view' = Effect(view)
  /\ disk' = IF inTxn THEN disk ELSE view'
  /\ call' = IF Last
             THEN [op |-> call.op, at |-> "commit", txn |-> call.txn,
                   todo |-> <<>>]
             ELSE [op |-> call.op, at |-> "statement", txn |-> call.txn,
                   todo |-> Tail(call.todo)]
  /\ UNCHANGED <<initialized, inTxn, files, calls, history>>

\* SaveImage also returns the path that is stored.
Succeed ==
  /\ Answer(IF call.txn = "update" THEN "stored" ELSE "ok")
  /\ acked' = [c \in Cells |-> IF view.row[c] = calls THEN calls ELSE acked[c]]

\* After its first transaction SaveImage goes on to rename the file; its
\* third one belongs to a call that fails whatever becomes of it.
Commit ==
  /\ At("commit")
  /\ disk' = view
  /\ inTxn' = FALSE
  /\ CASE call.txn = "insert" ->
            /\ call' = [op |-> call.op, at |-> "rename", txn |-> "update",
                        todo |-> <<>>]
            /\ UNCHANGED <<outcome, acked>>
       [] call.txn = "delete" -> Answer("failed") /\ UNCHANGED acked
       [] OTHER -> Succeed
  /\ UNCHANGED <<initialized, view, files, calls, buffered, truncated>>

\* Mutant of CommitFails: the call answers success.
CommitFailsUnnoticed ==
  /\ At("commit")
  /\ Rollback
  /\ Succeed
  /\ UNCHANGED <<initialized, files, calls, buffered, truncated>>

\* COMMIT fails and may leave the transaction open.  Every save then rolls
\* it back, except SaveImage when it deletes the row of a file it could not
\* rename, which ignores the result.
CommitFails ==
  /\ At("commit")
  /\ Fail
  /\ \/ Rollback
     \/ call.txn = "delete" /\ UNCHANGED database

-----------------------------------------------------------------------------
(* SaveParam, without a transaction of its own. *)

ParamWritten == [view EXCEPT !.row["param"] = calls]

\* In a transaction that another call has left open, nothing is committed.
WriteParam ==
  /\ At("autocommit")
  /\ view' = ParamWritten
  /\ disk' = IF inTxn THEN disk ELSE ParamWritten
  /\ Answer("ok")
  /\ acked' = [acked EXCEPT !["param"] = calls]
  /\ buffered' = IF inTxn THEN buffered \cup {calls} ELSE buffered
  /\ UNCHANGED <<initialized, inTxn, files, calls, truncated>>

WriteParamFails ==
  /\ At("autocommit")
  /\ Fail
  /\ UNCHANGED database

-----------------------------------------------------------------------------
(* The files of SaveImage. *)

\* Only opening the file is checked: that write or close fails, as on a full
\* disk, goes unnoticed, and the call goes on with what was written.
WriteTemp ==
  /\ At("file")
  /\ files' = files \cup {<<calls, "temp">>}
  /\ truncated' \in {truncated, truncated \cup {calls}}
  /\ call' = [op |-> call.op, at |-> "begin", txn |-> "insert", todo |-> <<>>]
  /\ UNCHANGED <<initialized, database, calls, outcome, acked, buffered>>

\* The file cannot be opened.
WriteTempFails ==
  /\ At("file")
  /\ Fail
  /\ UNCHANGED database

Rename ==
  /\ At("rename")
  /\ files' = (files \ {<<calls, "temp">>}) \cup {<<calls, "final">>}
  /\ call' = [op |-> call.op, at |-> "begin", txn |-> "update", todo |-> <<>>]
  /\ UNCHANGED <<initialized, database, calls, history>>

\* Mutant of RenameFails: the result of rename is not looked at.
RenameFailsUnnoticed ==
  /\ At("rename")
  /\ call' = [op |-> call.op, at |-> "begin", txn |-> "update", todo |-> <<>>]
  /\ UNCHANGED <<initialized, database, files, calls, history>>

\* The temporary file is removed and the row is to be deleted.
RenameFails ==
  /\ At("rename")
  /\ files' = files \ {<<calls, "temp">>}
  /\ call' = [op |-> call.op, at |-> "begin", txn |-> "delete", todo |-> <<>>]
  /\ UNCHANGED <<initialized, database, calls, history>>

-----------------------------------------------------------------------------
(* Loads: one SELECT on the connection, so they read its uncommitted data. *)

\* The columns of a row of the given cells; a column never saved reads as 0.
Load(cells) ==
  [status |-> IF ~initialized THEN "FileNotFound"
              ELSE IF \A c \in cells : view.row[c] = 0 THEN "NotFound"
              ELSE "Success",
   row |-> [c \in cells |-> view.row[c]]]

LoadParam == Load({"param"})
LoadPickerCamDistance == Load({"distance"})
LoadHandPitch == Load({"pitch"})

\* One row with the columns of two saves: found when either was made.
LoadInspInitPos == Load({"focus", "pos"})

\* The newest inspection joined with the position recorded for it.
LoadTeachingResult ==
  Load(IF view.row["inspection"] = view.row["position"] THEN {"position"} ELSE {})

-----------------------------------------------------------------------------
Operation ==
  \/ SaveSequenceRun \/ CreateSequenceRun \/ UpdateSequenceRunStatus
  \/ SaveZFocusPoint \/ SaveZFocusResult \/ SaveCalibrationPosResult
  \/ SavePickerCamDistanceResult \/ SaveHandPitchResult \/ SaveTeachingResult
  \/ SaveImage \/ SaveParam

Progress ==
  \/ Begin \/ BeginFails
  \/ PrepareFails \/ Statement \/ StatementFails
  \/ Commit \/ CommitFails
  \/ WriteParam \/ WriteParamFails
  \/ WriteTemp \/ WriteTempFails
  \/ Rename \/ RenameFails

Next == Operation \/ Progress \/ Initialize \/ Shutdown \/ Crash

Spec == Init /\ [][Next]_vars

-----------------------------------------------------------------------------
(* Properties. *)

Databases == [row : [Cells -> 0..MaxCalls], image : [Numbers -> Paths]]

CallType ==
  [op : {"none", "SaveSequenceRun", "CreateSequenceRun",
         "UpdateSequenceRunStatus", "SaveZFocusPoint", "SaveZFocusResult",
         "SaveCalibrationPosResult", "SavePickerCamDistanceResult",
         "SaveHandPitchResult", "SaveTeachingResult", "SaveImage", "SaveParam"},
   at : {"idle", "begin", "statement", "commit", "autocommit", "file", "rename"},
   txn : Transactions,
   todo : Seq(Cells)]

\* Every variable has its type, and a call in progress has a connection.
TypeOK ==
  /\ initialized \in BOOLEAN
  /\ disk \in Databases
  /\ view \in Databases
  /\ inTxn \in BOOLEAN
  /\ files \in SUBSET Files
  /\ call \in CallType
  /\ call # Idle => initialized
  /\ calls \in 0..MaxCalls
  /\ outcome \in [Numbers -> {"none", "ok", "stored", "failed"}]
  /\ acked \in [Cells -> 0..MaxCalls]
  /\ buffered \in SUBSET Numbers
  /\ truncated \in SUBSET Numbers

\* A save that has answered success is in the database file, and stays there
\* through failures of later calls, Shutdown and crashes, until a newer save
\* replaces it; and the load of it finds it.  The exception is a parameter
\* saved while another call had left its transaction open.
AnsweredIsDurable ==
  /\ \A c \in Cells : acked[c] \in buffered \/ acked[c] <= disk.row[c]
  /\ (initialized /\ call = Idle) =>
       \A load \in {LoadParam, LoadPickerCamDistance, LoadHandPitch,
                    LoadInspInitPos, LoadTeachingResult} :
         \A c \in DOMAIN load.row :
           acked[c] \notin {0} \cup buffered
             => load.status = "Success" /\ load.row[c] >= acked[c]

\* A save of a run, a result or a parameter that has answered a failure has left
\* nothing in the database file, neither then nor by the COMMIT of a later call;
\* and a SaveImage that has done so has recorded no final path.
FailedResultsAbsent ==
  /\ \A c \in Cells : disk.row[c] # 0 => outcome[disk.row[c]] # "failed"
  /\ \A n \in Numbers : disk.image[n] = "final" => outcome[n] # "failed"

\* The same of SaveImage as of the other saves: one that has answered a failure
\* has no row.  No run checks it, for the code breaks it: the row was committed with the temporary path,
\* and only the second transaction, the one that fails, is rolled back.
FailedLeavesNothing ==
  /\ FailedResultsAbsent
  /\ \A n \in Numbers : outcome[n] = "failed" => disk.image[n] = "none"

\* An image saved with success has all its bytes in the file.  No run checks it:
\* the code breaks it where it does not look at the results of write and close.
StoredIsWhole == \A n \in Numbers : outcome[n] = "stored" => n \notin truncated

\* What takes two steps is never half done in the database file, whatever fails
\* or dies between them: the two INSERTs of SaveTeachingResult come together, and
\* the newest inspection is the one that LoadTeachingResult finds; a row that
\* records the final path of an image has the file there, through a failure of
\* rename or of the UPDATE, and an image saved with success stays recorded so.
NothingHalfDone ==
  /\ disk.row["inspection"] = disk.row["position"]
  /\ (initialized /\ call = Idle) => "position" \in DOMAIN LoadTeachingResult.row
  /\ \A n \in Numbers :
       /\ disk.image[n] = "final" => <<n, "final">> \in files
       /\ outcome[n] = "stored" => disk.image[n] = "final"

\* A failed call has rolled back: between calls no transaction is open.  No
\* run checks it: the code breaks it where SaveZFocusPoint cannot prepare its INSERT.
RolledBack == call = Idle => ~inTxn
=============================================================================
