--------------------- MODULE SqliteDataRepositoryProofs ---------------------
(***************************************************************************)
(* Proofs about SqliteDataRepository, for any number of calls.             *)
(***************************************************************************)
EXTENDS SqliteDataRepository, TLAPS, SequenceTheorems

Busy == call.at # "idle"

\* Nothing in the database is newer than the newest call, the connection sees
\* nothing older than the file, and of a call in progress the file has nothing
\* yet that its failure would have to take back.
Numbered ==
  /\ \A c \in Cells : disk.row[c] <= view.row[c] /\ view.row[c] <= calls
  /\ Busy => /\ calls \in Numbers
             /\ outcome[calls] = "none"
             /\ disk.image[calls] # "final"
             /\ \A c \in Cells : disk.row[c] # calls
  /\ \A n \in Numbers : n > calls => outcome[n] = "none" /\ disk.image[n] # "final"
  /\ call.txn = "update" /\ call.at \in {"begin", "statement", "commit"}
       => <<calls, "final">> \in files

\* What a transaction that is about to commit has written.
Written ==
  /\ view.row["inspection"] = view.row["position"]
  /\ IF call.txn = "save"
     THEN /\ view.image = disk.image
          /\ \A c \in Cells : view.row[c] \in {disk.row[c], calls}
     ELSE /\ view.row = disk.row
          /\ \A n \in Numbers : n # calls => view.image[n] = disk.image[n]
          /\ view.image[calls] = CASE call.txn = "insert" -> "temp"
                                   [] call.txn = "update" -> "final"
                                   [] OTHER -> "none"

\* What the connection sees beyond the file: what the transaction in progress
\* has written, or a parameter in a transaction that was left open.
Isolated ==
  /\ ~inTxn => view = disk
  /\ call.at \in {"statement", "commit"} => inTxn
  /\ call.at \notin {"statement", "commit"} =>
       \A c \in Cells \ {"param"} : view.row[c] = disk.row[c]
  /\ At("statement") => view.image = disk.image
  /\ At("statement") /\ call.txn # "save" => view = disk
  /\ At("commit") => Written

\* The statements that a save has still to execute.
Planned ==
  call.txn = "save" /\ call.at \in {"begin", "statement"} =>
    \/ /\ \/ call.op = "SaveTeachingResult" /\ call.todo = <<"inspection", "position">>
          \/ \E c \in Cells \ {"inspection", "position"} : call.todo = <<c>>
       /\ At("statement") => view = disk
    \/ /\ At("statement")
       /\ call.op = "SaveTeachingResult" /\ call.todo = <<"position">>
       /\ view.row = [disk.row EXCEPT !["inspection"] = calls]

Durable == \A c \in Cells : acked[c] \in buffered \/ acked[c] <= disk.row[c]

NoFailedRow == \A c \in Cells : disk.row[c] # 0 => outcome[disk.row[c]] # "failed"

Whole ==
  /\ disk.row["inspection"] = disk.row["position"]
  /\ \A n \in Numbers :
       /\ disk.image[n] = "final" => <<n, "final">> \in files /\ outcome[n] # "failed"
       /\ outcome[n] = "stored" => disk.image[n] = "final"

IInv ==
  TypeOK /\ Numbered /\ Isolated /\ Planned /\ Durable /\ NoFailedRow /\ Whole

-----------------------------------------------------------------------------
(* Opening, closing, dying, and how a call begins. *)

\* The invariant holds before Initialize.
LEMMA InitIInv == Init => IInv
<1> SUFFICES ASSUME Init PROVE IInv
  OBVIOUS
<1>1. /\ disk = Empty /\ view = Empty /\ inTxn = FALSE /\ files = {}
      /\ call = Idle /\ calls = 0 /\ buffered = {} /\ truncated = {}
      /\ initialized = FALSE
      /\ outcome = [n \in Numbers |-> "none"] /\ acked = [c \in Cells |-> 0]
  BY DEF Init
<1>2. /\ \A c \in Cells : disk.row[c] = 0 /\ view.row[c] = 0 /\ acked[c] = 0
      /\ \A n \in Numbers : disk.image[n] = "none" /\ outcome[n] = "none"
  BY <1>1 DEF Empty
<1>3. call.at = "idle" /\ call.txn = "save"
  BY <1>1 DEF Idle
<1>4. Empty \in Databases
  BY MaxCallsAssumption DEF Empty, Databases, Paths
<1>5. call \in CallType
  BY <1>1, EmptySeq DEF Idle, CallType, Transactions
<1>6. /\ outcome \in [Numbers -> {"none", "ok", "stored", "failed"}]
      /\ acked \in [Cells -> 0..MaxCalls]
  BY <1>1, MaxCallsAssumption
<1>7. initialized \in BOOLEAN /\ inTxn \in BOOLEAN
  BY <1>1
<1>8. /\ files \in SUBSET Files /\ calls \in 0..MaxCalls
      /\ buffered \in SUBSET Numbers /\ truncated \in SUBSET Numbers
  BY <1>1, MaxCallsAssumption
<1>9. TypeOK
  BY <1>1, <1>4, <1>5, <1>6, <1>7, <1>8 DEF TypeOK
<1>10. "inspection" \in Cells /\ "position" \in Cells
  BY DEF Cells
<1>11. Numbered /\ Isolated /\ Planned /\ Durable /\ NoFailedRow /\ Whole
  BY <1>1, <1>2, <1>3, <1>10
  DEF Numbered, Busy, Isolated, At, Planned, Durable, NoFailedRow, Whole
<1>. QED BY <1>9, <1>11 DEF IInv

\* What the invariant says of the variables' types, for the leaves that need it.
LEMMA Types ==
  ASSUME IInv
  PROVE  /\ TypeOK /\ Numbered /\ Isolated /\ Planned /\ Durable
         /\ NoFailedRow /\ Whole
         /\ disk.row \in [Cells -> 0..MaxCalls] /\ disk.image \in [Numbers -> Paths]
         /\ view.row \in [Cells -> 0..MaxCalls] /\ view.image \in [Numbers -> Paths]
         /\ acked \in [Cells -> 0..MaxCalls] /\ calls \in 0..MaxCalls
         /\ outcome \in [Numbers -> {"none", "ok", "stored", "failed"}]
         /\ MaxCalls \in Nat /\ Numbers \subseteq Nat
BY MaxCallsAssumption DEF IInv, TypeOK, Databases, Numbers

\* Initialize, Shutdown and Crash keep the invariant: a transaction that was open
\* is gone with the connection.
LEMMA ConnectionKeeps ==
  ASSUME IInv, Initialize \/ Shutdown \/ Crash
  PROVE  IInv'
<1>. USE Types
<1>1. CASE Initialize
  <2>1. UNCHANGED <<disk, view, inTxn, files, call, calls, outcome, acked, buffered,
                    truncated>>
        /\ initialized' \in BOOLEAN /\ call = Idle
    BY <1>1 DEF Initialize, database, history
  <2>. QED
    BY <2>1 DEF IInv, TypeOK, Numbered, Busy, Isolated, Written, At, Planned, Durable,
                NoFailedRow, Whole
<1>2. CASE Shutdown \/ Crash
  <2>1. /\ initialized' = FALSE /\ view' = disk /\ inTxn' = FALSE /\ call' = Idle
        /\ UNCHANGED <<disk, files, calls, outcome, acked, buffered, truncated>>
    BY <1>2 DEF Shutdown, Crash, CloseConnection, history
  <2>2. call' \in CallType /\ call'.at = "idle" /\ call'.txn = "save"
    BY <2>1, EmptySeq DEF Idle, CallType, Transactions
  <2>3. initialized' \in BOOLEAN /\ inTxn' \in BOOLEAN
    BY <2>1
  <2>4. TypeOK'
    BY <2>1, <2>2, <2>3 DEF TypeOK
  <2>5. Numbered'
    BY <2>1, <2>2 DEF Numbered, Busy
  <2>6. Isolated' /\ Planned'
    BY <2>1, <2>2 DEF Isolated, Planned, At
  <2>7. Durable' /\ NoFailedRow' /\ Whole'
    BY <2>1 DEF Durable, NoFailedRow, Whole
  <2>. QED BY <2>4, <2>5, <2>6, <2>7 DEF IInv
<1>. QED BY <1>1, <1>2

\* A call that begins keeps it, and so does one that is refused.
LEMMA EnterKeeps ==
  ASSUME IInv, NEW op, NEW at, NEW txn, NEW cells, Enter(op, at, txn, cells),
         [op |-> op, at |-> at, txn |-> txn, todo |-> cells] \in CallType,
         at \in {"begin", "autocommit", "file"},
         txn \in {"save", "insert"},
         at = "begin" =>
           \/ op = "SaveTeachingResult" /\ cells = <<"inspection", "position">>
           \/ \E c \in Cells \ {"inspection", "position"} : cells = <<c>>
  PROVE  IInv'
<1>. USE Types
<1>. DEFINE new == [op |-> op, at |-> at, txn |-> txn, todo |-> cells]
<1>1. /\ call = Idle /\ calls < MaxCalls /\ calls' = calls + 1
      /\ UNCHANGED <<initialized, disk, view, inTxn, files, acked, buffered, truncated>>
      /\ call' = IF initialized THEN new ELSE Idle
      /\ outcome' = IF initialized THEN outcome
                    ELSE [outcome EXCEPT ![calls + 1] = "failed"]
  BY DEF Enter, database
<1>2. call.at = "idle" /\ call.txn = "save" /\ Idle \in CallType
  BY <1>1, EmptySeq DEF Idle, CallType, Transactions
<1>3. calls' \in Numbers /\ calls' \in 0..MaxCalls
  BY <1>1 DEF Numbers
<1>4. call' \in CallType /\ (call' # Idle => initialized)
  BY <1>1, <1>2
<1>5. outcome' \in [Numbers -> {"none", "ok", "stored", "failed"}]
  BY <1>1
<1>6. TypeOK'
  BY <1>1, <1>3, <1>4, <1>5 DEF TypeOK
<1>7. /\ call'.at \notin {"statement", "commit"}
      /\ call'.txn # "update"
      /\ call'.at = "begin" => call' = new
      /\ call'.at # "idle" => initialized
  BY <1>1 DEF Idle
<1>8. \A n \in Numbers : n # calls' => outcome'[n] = outcome[n]
  BY <1>1
<1>9. Numbered'
  <2>1. \A c \in Cells : disk'.row[c] <= view'.row[c] /\ view'.row[c] <= calls'
                         /\ disk'.row[c] # calls'
    BY <1>1 DEF Numbered
  <2>2. disk'.image[calls'] # "final"
    BY <1>1, <1>3 DEF Numbered
  <2>3. initialized => outcome'[calls'] = "none"
    BY <1>1, <1>3 DEF Numbered
  <2>4. \A n \in Numbers : n > calls' => outcome'[n] = "none" /\ disk'.image[n] # "final"
    BY <1>1, <1>8 DEF Numbered
  <2>. QED BY <2>1, <2>2, <2>3, <2>4, <1>3, <1>7 DEF Numbered, Busy
<1>10. Isolated'
  BY <1>1, <1>2, <1>7 DEF Isolated, At
<1>11. Planned'
  BY <1>1, <1>7 DEF Planned, At
<1>12. Durable'
  BY <1>1 DEF Durable
<1>13. NoFailedRow'
  <2> SUFFICES ASSUME NEW c \in Cells, disk'.row[c] # 0
               PROVE  outcome'[disk'.row[c]] # "failed"
    BY DEF NoFailedRow
  <2>1. disk'.row[c] \in Numbers /\ disk'.row[c] # calls'
    BY <1>1 DEF Numbered, Numbers
  <2>. QED BY <2>1, <1>1, <1>8 DEF NoFailedRow
<1>14. Whole'
  <2>1. \A n \in Numbers : outcome'[n] = "stored" => outcome[n] = "stored"
    BY <1>1
  <2>2. \A n \in Numbers : disk.image[n] = "final" => outcome'[n] = outcome[n]
    BY <1>1, <1>3, <1>8 DEF Numbered
  <2>. QED BY <2>1, <2>2, <1>1 DEF Whole
<1>. QED BY <1>6, <1>9, <1>10, <1>11, <1>12, <1>13, <1>14 DEF IInv

\* Every operation is such a call.
LEMMA OperationKeeps ==
  ASSUME IInv, Operation
  PROVE  IInv'
<1>1. /\ \A c \in Cells : <<c>> \in Seq(Cells)
      /\ <<"inspection", "position">> \in Seq(Cells)
      /\ <<>> \in Seq(Cells)
  BY EmptySeq DEF Cells
<1>2. CASE \E c \in Cells \ {"inspection", "position"}, op \in
             {"SaveSequenceRun", "CreateSequenceRun", "UpdateSequenceRunStatus",
              "SaveZFocusPoint", "SaveZFocusResult", "SaveCalibrationPosResult",
              "SavePickerCamDistanceResult", "SaveHandPitchResult"} :
             Save(op, <<c>>)
  <2>1. PICK c \in Cells \ {"inspection", "position"}, op \in
               {"SaveSequenceRun", "CreateSequenceRun", "UpdateSequenceRunStatus",
                "SaveZFocusPoint", "SaveZFocusResult", "SaveCalibrationPosResult",
                "SavePickerCamDistanceResult", "SaveHandPitchResult"} :
          Save(op, <<c>>)
    BY <1>2
  <2>2. Enter(op, "begin", "save", <<c>>)
    BY <2>1 DEF Save
  <2>3. [op |-> op, at |-> "begin", txn |-> "save", todo |-> <<c>>] \in CallType
    BY <1>1 DEF CallType, Transactions
  <2>. QED BY <2>2, <2>3, EnterKeeps
<1>3. CASE SaveTeachingResult
  <2>1. Enter("SaveTeachingResult", "begin", "save", <<"inspection", "position">>)
    BY <1>3 DEF SaveTeachingResult, Save
  <2>2. [op |-> "SaveTeachingResult", at |-> "begin", txn |-> "save",
         todo |-> <<"inspection", "position">>] \in CallType
    BY <1>1 DEF CallType, Transactions
  <2>. QED BY <2>1, <2>2, EnterKeeps
<1>4. CASE SaveImage
  <2>1. [op |-> "SaveImage", at |-> "file", txn |-> "insert", todo |-> <<>>] \in CallType
    BY <1>1 DEF CallType, Transactions
  <2>. QED BY <1>4, <2>1, EnterKeeps DEF SaveImage
<1>5. CASE SaveParam
  <2>1. [op |-> "SaveParam", at |-> "autocommit", txn |-> "save", todo |-> <<"param">>]
          \in CallType
    BY <1>1 DEF CallType, Transactions, Cells
  <2>. QED BY <1>5, <2>1, EnterKeeps DEF SaveParam
<1>. QED
  BY <1>2, <1>3, <1>4, <1>5
  DEF Operation, SaveSequenceRun, CreateSequenceRun, UpdateSequenceRunStatus,
      SaveZFocusPoint, SaveZFocusResult, SaveCalibrationPosResult,
      SavePickerCamDistanceResult, SaveHandPitchResult, Cells

-----------------------------------------------------------------------------
(* The steps of a call. *)

\* A call that fails keeps the invariant, whether it rolls back or leaves the
\* transaction open with nothing of its own in the rows that saves write.
LEMMA FailKeeps ==
  ASSUME IInv, Busy, Fail,
         \/ Rollback
         \/ /\ UNCHANGED database
            /\ \A c \in Cells \ {"param"} : view.row[c] = disk.row[c]
  PROVE  IInv'
<1>. USE Types
<1>1. /\ outcome' = [outcome EXCEPT ![calls] = "failed"]
      /\ call' = Idle /\ files' = files \ Leftover
      /\ UNCHANGED <<initialized, calls, acked, buffered, truncated, disk>>
  BY DEF Fail, Answer, Rollback, database
<1>2. calls \in Numbers /\ outcome[calls] = "none" /\ disk.image[calls] # "final"
      /\ \A c \in Cells : disk.row[c] # calls
  BY DEF Numbered
<1>3. /\ view' \in Databases /\ inTxn' \in BOOLEAN
      /\ ~inTxn' => view' = disk'
      /\ \A c \in Cells \ {"param"} : view'.row[c] = disk'.row[c]
      /\ \A c \in Cells : disk'.row[c] <= view'.row[c] /\ view'.row[c] <= calls'
  <2>1. CASE Rollback
    <3>1. view' = disk' /\ disk' = disk /\ calls' = calls /\ inTxn' = FALSE
      BY <2>1, <1>1 DEF Rollback
    <3>2. view' \in Databases
      BY <3>1 DEF TypeOK
    <3>3. inTxn' \in BOOLEAN
      BY <3>1
    <3>4. \A c \in Cells : disk.row[c] <= disk.row[c] /\ disk.row[c] <= calls
      BY DEF Numbered
    <3>. QED BY <3>1, <3>2, <3>3, <3>4
  <2>2. CASE /\ UNCHANGED database
             /\ \A c \in Cells \ {"param"} : view.row[c] = disk.row[c]
    BY <2>2, <1>1 DEF database, TypeOK, Numbered, Isolated
  <2>. QED BY <2>1, <2>2
<1>4. Idle \in CallType /\ Idle.at = "idle" /\ Idle.txn = "save"
  BY EmptySeq DEF Idle, CallType, Transactions
<1>5. outcome' \in [Numbers -> {"none", "ok", "stored", "failed"}]
  BY <1>1
<1>6. TypeOK'
  BY <1>1, <1>3, <1>4, <1>5 DEF TypeOK
<1>7. \A n \in Numbers : n # calls => outcome'[n] = outcome[n]
  BY <1>1
<1>8. outcome'[calls] = "failed"
  BY <1>1, <1>2
<1>9. Numbered'
  BY <1>1, <1>2, <1>3, <1>4, <1>7 DEF Numbered, Busy
<1>10. Isolated' /\ Planned'
  BY <1>1, <1>3, <1>4 DEF Isolated, Planned, At
<1>11. Durable'
  BY <1>1 DEF Durable
<1>12. NoFailedRow'
  <2> SUFFICES ASSUME NEW c \in Cells, disk'.row[c] # 0
               PROVE  outcome'[disk'.row[c]] # "failed"
    BY DEF NoFailedRow
  <2>1. disk'.row[c] \in Numbers /\ disk'.row[c] # calls
    BY <1>1, <1>2 DEF Numbers
  <2>. QED BY <2>1, <1>1, <1>7 DEF NoFailedRow
<1>13. Whole'
  <2>1. \A n \in Numbers : disk'.image[n] = "final" => n # calls /\ <<n, "final">> \in files
    BY <1>1, <1>2 DEF Whole
  <2>2. \A n \in Numbers : n # calls => <<n, "final">> \notin Leftover
    BY DEF Leftover
  <2>3. \A n \in Numbers :
          disk'.image[n] = "final" => <<n, "final">> \in files' /\ outcome'[n] # "failed"
    BY <1>1, <1>7, <2>1, <2>2 DEF Whole
  <2>4. \A n \in Numbers : outcome'[n] = "stored" => disk'.image[n] = "final"
    BY <1>1, <1>7, <1>8 DEF Whole
  <2>. QED BY <2>3, <2>4, <1>1 DEF Whole
<1>. QED BY <1>6, <1>9, <1>10, <1>11, <1>12, <1>13 DEF IInv

\* So does every step in which a call fails.
LEMMA FailuresKeep ==
  ASSUME IInv,
         \/ BeginFails \/ PrepareFails \/ StatementFails \/ CommitFails
         \/ WriteParamFails \/ WriteTempFails
  PROVE  IInv'
<1>. USE Types
<1>1. CASE BeginFails \/ WriteParamFails \/ WriteTempFails
  <2>1. Busy /\ Fail /\ UNCHANGED database /\ call.at \notin {"statement", "commit"}
    BY <1>1 DEF BeginFails, WriteParamFails, WriteTempFails, At, Busy
  <2>2. \A c \in Cells \ {"param"} : view.row[c] = disk.row[c]
    BY <2>1 DEF Isolated
  <2>. QED BY <2>1, <2>2, FailKeeps
<1>2. CASE PrepareFails
  <2>1. Busy /\ Fail /\ At("statement")
        /\ IF call.op = "SaveZFocusPoint" THEN UNCHANGED database ELSE Rollback
    BY <1>2 DEF PrepareFails, At, Busy
  <2>2. call.op = "SaveZFocusPoint" => view = disk
    BY <2>1, <1>2 DEF Isolated, Planned, At
  <2>. QED BY <2>1, <2>2, FailKeeps
<1>3. CASE StatementFails
  <2>1. Busy /\ Fail /\ Rollback
    BY <1>3 DEF StatementFails, At, Busy
  <2>. QED BY <2>1, FailKeeps
<1>4. CASE CommitFails
  <2>1. Busy /\ Fail /\ At("commit")
        /\ (Rollback \/ (call.txn = "delete" /\ UNCHANGED database))
    BY <1>4 DEF CommitFails, At, Busy
  <2>2. call.txn = "delete" => view.row = disk.row
    BY <2>1 DEF Isolated, Written
  <2>. QED BY <2>1, <2>2, FailKeeps
<1>. QED BY <1>1, <1>2, <1>3, <1>4

\* BEGIN and the steps on the files of an image keep it: they leave the database
\* alone, and a file that goes is not one that the database records.
LEMMA QuietStepsKeep ==
  ASSUME IInv, Begin \/ WriteTemp \/ Rename \/ RenameFails
  PROVE  IInv'
<1>. USE Types
<1>1. /\ UNCHANGED <<initialized, disk, view, calls, outcome, acked, buffered>>
      /\ Busy
  BY DEF Begin, WriteTemp, Rename, RenameFails, At, Busy, database, history
<1>2. calls \in Numbers /\ disk.image[calls] # "final"
  BY <1>1 DEF Numbered
<1>. truncated' \in SUBSET Numbers
  BY <1>2 DEF Begin, WriteTemp, Rename, RenameFails, history, TypeOK
<1>3. CASE Begin
  <2>1. /\ At("begin") /\ ~inTxn /\ inTxn' = TRUE /\ files' = files
        /\ call' = [op |-> call.op, at |-> "statement", txn |-> call.txn,
                    todo |-> call.todo]
    BY <1>3 DEF Begin
  <2>2. call' \in CallType /\ (call' # Idle => initialized')
    BY <2>1, <1>1 DEF TypeOK, CallType, At, Idle
  <2>3. TypeOK'
    BY <2>1, <2>2, <1>1 DEF TypeOK
  <2>4. Numbered'
    BY <2>1, <1>1 DEF Numbered, Busy, At
  <2>5. view = disk
    BY <2>1 DEF Isolated
  <2>6. Isolated'
    BY <2>1, <2>5, <1>1 DEF Isolated, At
  <2>7. Planned'
    BY <2>1, <2>5, <1>1 DEF Planned, At
  <2>. QED
    BY <2>1, <2>3, <2>4, <2>6, <2>7, <1>1 DEF IInv, Durable, NoFailedRow, Whole
<1>4. CASE WriteTemp \/ Rename \/ RenameFails
  <2>1. /\ call.at \in {"file", "rename"}
        /\ inTxn' = inTxn
        /\ \E txn \in Transactions \ {"save"} :
             call' = [op |-> call.op, at |-> "begin", txn |-> txn, todo |-> <<>>]
    BY <1>4 DEF WriteTemp, Rename, RenameFails, At, Transactions, database
  <2>2. /\ \A n \in Numbers : <<n, "final">> \in files => <<n, "final">> \in files'
        /\ files' \in SUBSET Files
        /\ call'.txn = "update" => <<calls, "final">> \in files'
    BY <1>4, <1>2 DEF WriteTemp, Rename, RenameFails, TypeOK, Files
  <2>3. call' \in CallType /\ (call' # Idle => initialized')
    BY <2>1, <1>1, EmptySeq DEF TypeOK, CallType, Idle, Transactions
  <2>4. TypeOK'
    BY <2>1, <2>2, <2>3, <1>1 DEF TypeOK
  <2>5. Numbered'
    BY <2>1, <2>2, <1>1 DEF Numbered, Busy
  <2>6. Isolated'
    BY <2>1, <1>1 DEF Isolated, At
  <2>7. Planned'
    BY <2>1 DEF Planned, Transactions
  <2>. QED
    BY <2>2, <2>4, <2>5, <2>6, <2>7, <1>1 DEF IInv, Durable, NoFailedRow, Whole
<1>. QED BY <1>3, <1>4

\* What a statement leaves alone and what it writes.
LEMMA EffectOf ==
  ASSUME IInv, At("statement")
  PROVE  /\ Effect(view) \in Databases
         /\ call.txn = "save" =>
              /\ Effect(view).image = view.image
              /\ \/ Effect(view).row = view.row /\ Head(call.todo) = "status"
                 \/ Effect(view).row = [view.row EXCEPT ![Head(call.todo)] = calls]
         /\ call.txn # "save" =>
              /\ Effect(view).row = view.row
              /\ Effect(view).image =
                   [view.image EXCEPT ![calls] =
                      CASE call.txn = "insert" -> "temp"
                        [] call.txn = "update" -> "final"
                        [] OTHER -> "none"]
<1>. USE Types
<1>1. view = [row |-> view.row, image |-> view.image]
  BY DEF TypeOK, Databases
<1>2. call.txn \in {"save", "insert", "update", "delete"}
  BY DEF TypeOK, CallType, Transactions
<1>. DEFINE value == CASE call.txn = "insert" -> "temp"
                       [] call.txn = "update" -> "final"
                       [] OTHER -> "none"
<1>3. CASE call.txn # "save"
  <2>1. Effect(view) = [row |-> view.row, image |-> [view.image EXCEPT ![calls] = value]]
    BY <1>1, <1>2, <1>3 DEF Effect
  <2>2. [view.image EXCEPT ![calls] = value] \in [Numbers -> Paths]
    BY DEF Paths
  <2>. QED BY <2>1, <2>2, <1>3 DEF Databases
<1>4. CASE call.txn = "save"
  <2>1. \/ Effect(view) = view /\ Head(call.todo) = "status"
        \/ Effect(view) = [row |-> [view.row EXCEPT ![Head(call.todo)] = calls],
                           image |-> view.image]
    BY <1>1, <1>4 DEF Effect
  <2>2. [view.row EXCEPT ![Head(call.todo)] = calls] \in [Cells -> 0..MaxCalls]
    OBVIOUS
  <2>. QED BY <2>1, <2>2, <1>1, <1>4 DEF Databases
<1>. QED BY <1>3, <1>4

\* A statement keeps the invariant: the file does not change, and the connection
\* sees what the call has written so far.
LEMMA StatementKeeps ==
  ASSUME IInv, Statement
  PROVE  IInv'
<1>. USE Types
<1>1. /\ At("statement") /\ view' = Effect(view) /\ Busy
      /\ UNCHANGED <<initialized, inTxn, files, calls, outcome, acked, buffered, truncated>>
      /\ call' = IF Last
                 THEN [op |-> call.op, at |-> "commit", txn |-> call.txn, todo |-> <<>>]
                 ELSE [op |-> call.op, at |-> "statement", txn |-> call.txn,
                       todo |-> Tail(call.todo)]
  BY DEF Statement, At, Busy, history
<1>2. inTxn /\ disk' = disk /\ view.image = disk.image
  BY <1>1 DEF Isolated, Statement, At
<1>3. calls \in Numbers /\ (\A c \in Cells : disk.row[c] # calls)
  BY <1>1 DEF Numbered
<1>4. /\ view' \in Databases
      /\ view'.row \in [Cells -> 0..MaxCalls]
      /\ view'.image \in [Numbers -> Paths]
  BY <1>1, EffectOf DEF Databases
<1>5. CASE call.txn # "save"
  <2>1. /\ view = disk
        /\ view'.row = disk.row
        /\ view'.image = [disk.image EXCEPT ![calls] =
                            CASE call.txn = "insert" -> "temp"
                              [] call.txn = "update" -> "final"
                              [] OTHER -> "none"]
    BY <1>1, <1>5, EffectOf DEF Isolated
  <2>2. call' = [op |-> call.op, at |-> "commit", txn |-> call.txn, todo |-> <<>>]
    BY <1>1, <1>5 DEF Last
  <2>3. call' \in CallType /\ (call' # Idle => initialized')
    BY <2>2, <1>1, EmptySeq DEF TypeOK, CallType, At, Idle
  <2>4. TypeOK'
    BY <1>1, <1>2, <1>4, <2>3 DEF TypeOK
  <2>5. Numbered'
    BY <1>1, <1>2, <2>1, <2>2 DEF Numbered, Busy, At
  <2>6. view'.row["inspection"] = view'.row["position"]
    BY <2>1 DEF Whole
  <2>7. Written'
    BY <1>1, <1>2, <1>3, <1>5, <2>1, <2>2, <2>6 DEF Written
  <2>8. Isolated' /\ Planned'
    BY <1>1, <1>2, <1>5, <2>2, <2>7 DEF Isolated, Planned, At
  <2>. QED
    BY <1>1, <1>2, <2>4, <2>5, <2>8 DEF IInv, Durable, NoFailedRow, Whole
<1>6. CASE call.txn = "save"
  <2>. DEFINE cell == Head(call.todo)
  <2>1. /\ view'.image = disk.image
        /\ \/ view'.row = view.row /\ cell = "status"
           \/ view'.row = [view.row EXCEPT ![cell] = calls]
    BY <1>1, <1>2, <1>6, EffectOf
  <2>2. \A c \in Cells : view.row[c] \in {disk.row[c], calls}
    BY <1>1, <1>6 DEF Planned, At, Cells
  <2>3. \A c \in Cells : view'.row[c] \in {disk.row[c], calls}
    BY <2>1, <2>2
  <2>4. \A c \in Cells : disk.row[c] <= view'.row[c] /\ view'.row[c] <= calls
    <3> SUFFICES ASSUME NEW c \in Cells
                 PROVE  disk.row[c] <= view'.row[c] /\ view'.row[c] <= calls
      OBVIOUS
    <3>1. disk.row[c] \in Nat /\ calls \in Nat /\ disk.row[c] <= calls
      BY DEF Numbered
    <3>. QED BY <3>1, <2>3
  <2>5. Numbered'
    <3>1. call'.txn = "save" /\ call'.at # "idle"
      BY <1>1, <1>6
    <3>. QED BY <1>1, <1>2, <1>6, <2>4, <3>1 DEF Numbered, Busy
  <2>6. CASE /\ call.op = "SaveTeachingResult" /\ call.todo = <<"inspection", "position">>
             /\ view = disk
    <3>1. cell = "inspection" /\ Tail(call.todo) = <<"position">> /\ ~Last
      BY <1>6, <2>6 DEF Last
    <3>2. call' = [op |-> call.op, at |-> "statement", txn |-> "save",
                   todo |-> <<"position">>]
      BY <1>1, <1>6, <3>1
    <3>3. view'.row = [disk.row EXCEPT !["inspection"] = calls]
      BY <2>1, <2>6, <3>1
    <3>4. <<"position">> \in Seq(Cells)
      BY DEF Cells
    <3>5. call' \in CallType /\ (call' # Idle => initialized')
      BY <3>2, <3>4, <1>1 DEF TypeOK, CallType, At, Idle, Transactions
    <3>6. TypeOK'
      BY <1>1, <1>2, <1>4, <3>5 DEF TypeOK
    <3>7. Isolated'
      BY <1>1, <1>2, <2>1, <3>2 DEF Isolated, At
    <3>8. Planned'
      BY <1>2, <1>1, <2>6, <3>2, <3>3 DEF Planned, At
    <3>. QED
      BY <1>1, <1>2, <2>5, <3>6, <3>7, <3>8 DEF IInv, Durable, NoFailedRow, Whole
  <2>7. CASE Len(call.todo) = 1 /\ view'.row["inspection"] = view'.row["position"]
    <3>1. call' = [op |-> call.op, at |-> "commit", txn |-> "save", todo |-> <<>>]
      BY <1>1, <1>6, <2>7 DEF Last
    <3>2. call' \in CallType /\ (call' # Idle => initialized')
      BY <3>1, <1>1, EmptySeq DEF TypeOK, CallType, At, Idle, Transactions
    <3>3. TypeOK'
      BY <1>1, <1>2, <1>4, <3>2 DEF TypeOK
    <3>4. Written'
      BY <1>1, <1>2, <2>1, <2>3, <2>7, <3>1 DEF Written
    <3>5. Isolated' /\ Planned'
      BY <1>1, <1>2, <3>1, <3>4 DEF Isolated, Planned, At
    <3>. QED
      BY <1>1, <1>2, <2>5, <3>3, <3>5 DEF IInv, Durable, NoFailedRow, Whole
  <2>8. CASE \E c \in Cells \ {"inspection", "position"} : call.todo = <<c>> /\ view = disk
    <3>1. PICK c \in Cells \ {"inspection", "position"} : call.todo = <<c>> /\ view = disk
      BY <2>8
    <3>2. cell = c /\ Len(call.todo) = 1
      BY <3>1
    <3>3. view'.row["inspection"] = disk.row["inspection"]
          /\ view'.row["position"] = disk.row["position"]
      BY <2>1, <3>1, <3>2 DEF Cells
    <3>. QED BY <2>7, <3>2, <3>3 DEF Whole
  <2>9. CASE /\ call.op = "SaveTeachingResult" /\ call.todo = <<"position">>
             /\ view.row = [disk.row EXCEPT !["inspection"] = calls]
    <3>1. cell = "position" /\ Len(call.todo) = 1
      BY <2>9
    <3>2. view'.row = [view.row EXCEPT !["position"] = calls]
      BY <2>1, <3>1
    <3>3. view'.row["inspection"] = calls /\ view'.row["position"] = calls
      BY <2>9, <3>2 DEF Cells
    <3>. QED BY <2>7, <3>1, <3>3
  <2>. QED BY <1>1, <1>6, <2>6, <2>8, <2>9 DEF Planned, At
<1>. QED BY <1>5, <1>6

\* COMMIT keeps it: what becomes durable is what the call has written, whole.
LEMMA CommitKeeps ==
  ASSUME IInv, Commit
  PROVE  IInv'
<1>. USE Types
<1>1. /\ At("commit") /\ disk' = view /\ inTxn' = FALSE /\ Busy /\ view' = view
      /\ UNCHANGED <<initialized, files, calls, buffered, truncated>>
  BY DEF Commit, At, Busy
<1>2. Written /\ calls \in Numbers /\ outcome[calls] = "none"
      /\ disk.image[calls] # "final" /\ (\A c \in Cells : disk.row[c] # calls)
  BY <1>1 DEF Isolated, Numbered
<1>3. call.txn \in {"save", "insert", "update", "delete"}
  BY DEF TypeOK, CallType, Transactions
<1>4. \/ /\ call.txn = "insert"
         /\ call' = [op |-> call.op, at |-> "rename", txn |-> "update", todo |-> <<>>]
         /\ UNCHANGED <<outcome, acked>>
      \/ /\ call.txn = "delete" /\ call' = Idle /\ acked' = acked
         /\ outcome' = [outcome EXCEPT ![calls] = "failed"]
      \/ /\ call.txn \in {"save", "update"} /\ call' = Idle
         /\ outcome' = [outcome EXCEPT ![calls] =
                          IF call.txn = "update" THEN "stored" ELSE "ok"]
         /\ acked' = [c \in Cells |-> IF view.row[c] = calls THEN calls ELSE acked[c]]
  <2>1. CASE call.txn = "insert"
    BY <2>1 DEF Commit
  <2>2. CASE call.txn = "delete"
    BY <2>2 DEF Commit, Answer
  <2>3. CASE call.txn \in {"save", "update"}
    BY <2>3 DEF Commit, Succeed, Answer
  <2>. QED BY <1>3, <2>1, <2>2, <2>3
<1>5. call' \in CallType /\ (call' # Idle => initialized')
  <2>1. Idle \in CallType
    BY EmptySeq DEF Idle, CallType, Transactions
  <2>2. [op |-> call.op, at |-> "rename", txn |-> "update", todo |-> <<>>] \in CallType
    BY EmptySeq DEF TypeOK, CallType, Transactions
  <2>3. initialized'
    BY <1>1 DEF TypeOK, At, Idle
  <2>. QED BY <1>4, <2>1, <2>2, <2>3
<1>6. outcome' \in [Numbers -> {"none", "ok", "stored", "failed"}]
  BY <1>4
<1>7. acked' \in [Cells -> 0..MaxCalls]
  BY <1>4
<1>8. inTxn' \in BOOLEAN
  BY <1>1
<1>9. TypeOK'
  BY <1>1, <1>5, <1>6, <1>7, <1>8 DEF TypeOK
<1>10. \A n \in Numbers : n # calls => outcome'[n] = outcome[n]
  BY <1>4
<1>11. \A n \in Numbers : n # calls => view.image[n] = disk.image[n]
  BY <1>2 DEF Written
<1>12. call.txn # "update" => view.image[calls] # "final"
  BY <1>2, <1>3 DEF Written
<1>13. call.txn = "update" => view.image[calls] = "final" /\ <<calls, "final">> \in files
  BY <1>1, <1>2 DEF Written, Numbered, At
<1>14. \A c \in Cells : view.row[c] \in {disk.row[c], calls}
  BY <1>2 DEF Written
<1>15. call.txn # "save" => view.row = disk.row
  BY <1>2 DEF Written
<1>16. Numbered'
  <2>1. \A c \in Cells : disk'.row[c] <= view'.row[c] /\ view'.row[c] <= calls'
    BY <1>1 DEF Numbered
  <2>2. \A n \in Numbers : n > calls' => outcome'[n] = "none" /\ disk'.image[n] # "final"
    BY <1>1, <1>10, <1>11 DEF Numbered
  <2>3. Busy' => call.txn = "insert" /\ outcome' = outcome
    BY <1>4 DEF Busy, Idle
  <2>4. Busy' => /\ calls' \in Numbers
                 /\ outcome'[calls'] = "none"
                 /\ disk'.image[calls'] # "final"
                 /\ \A c \in Cells : disk'.row[c] # calls'
    BY <1>1, <1>2, <1>12, <1>15, <2>3
  <2>5. call'.at \notin {"begin", "statement", "commit"}
    BY <1>4 DEF Idle
  <2>. QED BY <2>1, <2>2, <2>4, <2>5 DEF Numbered
<1>17. Isolated' /\ Planned'
  <2>1. call'.at \notin {"begin", "statement", "commit"}
    BY <1>4 DEF Idle
  <2>. QED BY <1>1, <2>1 DEF Isolated, Planned, At
<1>18. Durable'
  <2> SUFFICES ASSUME NEW c \in Cells
               PROVE  acked'[c] \in buffered \/ acked'[c] <= view.row[c]
    BY <1>1 DEF Durable
  <2>1. acked'[c] = acked[c] \/ acked'[c] = view.row[c]
    BY <1>4
  <2>2. acked[c] \in buffered \/ acked[c] <= view.row[c]
    BY DEF Durable, Numbered
  <2>3. view.row[c] \in Nat
    OBVIOUS
  <2>. QED BY <2>1, <2>2, <2>3
<1>19. NoFailedRow'
  <2> SUFFICES ASSUME NEW c \in Cells, view.row[c] # 0
               PROVE  outcome'[view.row[c]] # "failed"
    BY <1>1 DEF NoFailedRow
  <2>1. CASE view.row[c] = disk.row[c]
    <3>1. disk.row[c] \in Numbers /\ disk.row[c] # calls
      BY <1>2, <2>1 DEF Numbers
    <3>. QED BY <2>1, <3>1, <1>10 DEF NoFailedRow
  <2>2. CASE view.row[c] # disk.row[c]
    <3>1. call.txn = "save" /\ view.row[c] = calls
      BY <1>14, <1>15, <2>2
    <3>2. outcome'[calls] = "ok"
      BY <1>2, <1>4, <3>1
    <3>. QED BY <3>1, <3>2
  <2>. QED BY <2>1, <2>2
<1>20. Whole'
  <2>1. view.row["inspection"] = view.row["position"]
    BY <1>2 DEF Written
  <2>2. \A n \in Numbers :
          view.image[n] = "final" => <<n, "final">> \in files /\ outcome'[n] # "failed"
    <3>1. call.txn = "update" => outcome'[calls] = "stored"
      BY <1>2, <1>4
    <3>. QED BY <3>1, <1>10, <1>11, <1>12, <1>13 DEF Whole
  <2>3. outcome'[calls] = "stored" => call.txn = "update"
    BY <1>2, <1>4
  <2>4. \A n \in Numbers : outcome'[n] = "stored" => view.image[n] = "final"
    BY <2>3, <1>10, <1>11, <1>13 DEF Whole
  <2>. QED BY <1>1, <2>1, <2>2, <2>4 DEF Whole
<1>. QED BY <1>9, <1>16, <1>17, <1>18, <1>19, <1>20 DEF IInv

\* A parameter keeps it, committed at once or left in an open transaction.
LEMMA WriteParamKeeps ==
  ASSUME IInv, WriteParam
  PROVE  IInv'
<1>. USE Types
<1>1. /\ At("autocommit") /\ Busy /\ call' = Idle
      /\ view' = ParamWritten
      /\ disk' = IF inTxn THEN disk ELSE ParamWritten
      /\ outcome' = [outcome EXCEPT ![calls] = "ok"]
      /\ acked' = [acked EXCEPT !["param"] = calls]
      /\ buffered' = IF inTxn THEN buffered \cup {calls} ELSE buffered
      /\ UNCHANGED <<initialized, inTxn, files, calls, truncated>>
  BY DEF WriteParam, Answer, At, Busy
<1>2. calls \in Numbers /\ outcome[calls] = "none" /\ disk.image[calls] # "final"
      /\ \A c \in Cells : disk.row[c] # calls
  BY <1>1 DEF Numbered
<1>3. /\ ParamWritten \in Databases
      /\ ParamWritten.row = [view.row EXCEPT !["param"] = calls]
      /\ ParamWritten.image = view.image
  <2>1. view = [row |-> view.row, image |-> view.image]
    BY DEF TypeOK, Databases
  <2>2. ParamWritten = [row |-> [view.row EXCEPT !["param"] = calls],
                        image |-> view.image]
    BY <2>1 DEF ParamWritten
  <2>3. [view.row EXCEPT !["param"] = calls] \in [Cells -> 0..MaxCalls]
    OBVIOUS
  <2>. QED BY <2>2, <2>3 DEF Databases
<1>4. \A c \in Cells \ {"param"} : view'.row[c] = view.row[c] /\ view.row[c] = disk.row[c]
  BY <1>1, <1>3 DEF Isolated, At
<1>5. "param" \in Cells /\ view'.row["param"] = calls
  BY <1>1, <1>3 DEF Cells
<1>6. disk' \in Databases /\ view' \in Databases
  BY <1>1, <1>3 DEF TypeOK
<1>7. \/ inTxn /\ disk' = disk
      \/ ~inTxn /\ disk' = view' /\ view = disk
  BY <1>1 DEF Isolated
<1>8. disk'.image = disk.image
  BY <1>1, <1>3, <1>7
<1>9. \A c \in Cells : disk'.row[c] = disk.row[c] \/ (disk'.row[c] = calls /\ c = "param")
  BY <1>4, <1>5, <1>7
<1>10. Idle \in CallType /\ Idle.at = "idle" /\ Idle.txn = "save"
  BY EmptySeq DEF Idle, CallType, Transactions
<1>11. /\ outcome' \in [Numbers -> {"none", "ok", "stored", "failed"}]
       /\ acked' \in [Cells -> 0..MaxCalls]
  BY <1>1
<1>12. buffered' \in SUBSET Numbers
  BY <1>1, <1>2 DEF TypeOK
<1>13. TypeOK'
  BY <1>1, <1>6, <1>10, <1>11, <1>12 DEF TypeOK
<1>14. \A n \in Numbers : n # calls => outcome'[n] = outcome[n]
  BY <1>1
<1>15. outcome'[calls] = "ok"
  BY <1>1, <1>2
<1>16. Numbered'
  <2>1. \A c \in Cells : disk'.row[c] <= view'.row[c] /\ view'.row[c] <= calls'
    <3> SUFFICES ASSUME NEW c \in Cells
                 PROVE  disk'.row[c] <= view'.row[c] /\ view'.row[c] <= calls
      BY <1>1
    <3>1. disk.row[c] \in Nat /\ view.row[c] \in Nat /\ calls \in Nat
          /\ disk.row[c] <= view.row[c] /\ view.row[c] <= calls
      BY DEF Numbered
    <3>2. view'.row[c] = view.row[c] \/ view'.row[c] = calls
      BY <1>4, <1>5
    <3>3. disk'.row[c] = disk.row[c] \/ disk'.row[c] = view'.row[c]
      BY <1>7
    <3>. QED BY <3>1, <3>2, <3>3
  <2>2. ~Busy' /\ call'.txn = "save"
    BY <1>1, <1>10 DEF Busy
  <2>3. \A n \in Numbers : n > calls' => outcome'[n] = "none" /\ disk'.image[n] # "final"
    BY <1>1, <1>8, <1>14 DEF Numbered
  <2>. QED BY <2>1, <2>2, <2>3 DEF Numbered
<1>17. Isolated' /\ Planned'
  <2>1. \A c \in Cells \ {"param"} : view'.row[c] = disk'.row[c]
    BY <1>4, <1>7
  <2>2. ~inTxn' => view' = disk'
    BY <1>1, <1>7
  <2>. QED BY <1>1, <1>10, <2>1, <2>2 DEF Isolated, Planned, At
<1>18. Durable'
  <2> SUFFICES ASSUME NEW c \in Cells
               PROVE  acked'[c] \in buffered' \/ acked'[c] <= disk'.row[c]
    BY DEF Durable
  <2>1. CASE c = "param"
    <3>1. acked'[c] = calls
      BY <1>1, <2>1
    <3>2. calls \in buffered' \/ disk'.row[c] = calls
      BY <1>1, <1>5, <1>7, <2>1
    <3>. QED BY <3>1, <3>2
  <2>2. CASE c # "param"
    BY <1>1, <1>9, <2>2 DEF Durable
  <2>. QED BY <2>1, <2>2
<1>19. NoFailedRow'
  <2> SUFFICES ASSUME NEW c \in Cells, disk'.row[c] # 0
               PROVE  outcome'[disk'.row[c]] # "failed"
    BY DEF NoFailedRow
  <2>1. CASE disk'.row[c] = disk.row[c]
    <3>1. disk.row[c] \in Numbers /\ disk.row[c] # calls
      BY <1>2, <2>1 DEF Numbers
    <3>. QED BY <2>1, <3>1, <1>14 DEF NoFailedRow
  <2>. QED BY <2>1, <1>9, <1>15
<1>20. Whole'
  <2>1. disk'.row["inspection"] = disk'.row["position"]
    BY <1>9 DEF Whole, Cells
  <2>2. \A n \in Numbers : /\ outcome'[n] = "stored" => outcome[n] = "stored"
                           /\ outcome'[n] = "failed" => outcome[n] = "failed"
    BY <1>14, <1>15
  <2>. QED BY <2>1, <2>2, <1>1, <1>8 DEF Whole
<1>. QED BY <1>13, <1>16, <1>17, <1>18, <1>19, <1>20 DEF IInv

\* Every step keeps the invariant.
LEMMA NextKeeps == IInv /\ [Next]_vars => IInv'
<1> SUFFICES ASSUME IInv, [Next]_vars
             PROVE  IInv'
  OBVIOUS
<1>1. CASE Operation
  BY <1>1, OperationKeeps
<1>2. CASE BeginFails \/ PrepareFails \/ StatementFails \/ CommitFails
           \/ WriteParamFails \/ WriteTempFails
  BY <1>2, FailuresKeep
<1>3. CASE Begin \/ WriteTemp \/ Rename \/ RenameFails
  BY <1>3, QuietStepsKeep
<1>4. CASE Statement
  BY <1>4, StatementKeeps
<1>5. CASE Commit
  BY <1>5, CommitKeeps
<1>6. CASE WriteParam
  BY <1>6, WriteParamKeeps
<1>7. CASE Initialize \/ Shutdown \/ Crash
  BY <1>7, ConnectionKeeps
<1>8. CASE UNCHANGED vars
  <2>1. UNCHANGED <<initialized, disk, view, inTxn, files, call, calls, outcome, acked,
                    buffered, truncated>>
    BY <1>8 DEF vars, database, history
  <2>. QED
    BY <2>1 DEF IInv, TypeOK, Numbered, Busy, Isolated, Written, At, Planned, Durable,
                NoFailedRow, Whole
<1>. QED BY <1>1, <1>2, <1>3, <1>4, <1>5, <1>6, <1>7, <1>8 DEF Next, Progress

\* Every reachable state of the repository satisfies the invariant.
LEMMA Invariant == Spec => []IInv
BY InitIInv, NextKeeps, PTL DEF Spec

-----------------------------------------------------------------------------
(* The theorems. *)

\* Whatever a load finds missing was never saved with success.
LEMMA LoadsFind ==
  ASSUME IInv, initialized, NEW cells \in SUBSET Cells, NEW c \in cells,
         acked[c] \notin {0} \cup buffered
  PROVE  Load(cells).status = "Success" /\ Load(cells).row[c] >= acked[c]
<1>. USE Types
<1>1. acked[c] \in Nat /\ acked[c] # 0 /\ acked[c] <= disk.row[c]
  BY DEF Durable
<1>2. disk.row[c] \in Nat /\ view.row[c] \in Nat /\ disk.row[c] <= view.row[c]
  BY DEF Numbered
<1>3. view.row[c] >= acked[c] /\ view.row[c] # 0
  BY <1>1, <1>2
<1>. QED BY <1>3 DEF Load

\* Between calls the newest inspection has its position.
LEMMA TeachingFound ==
  ASSUME IInv, call = Idle
  PROVE  LoadTeachingResult = Load({"position"})
<1>1. call.at = "idle"
  BY DEF Idle
<1>2. view.row["inspection"] = disk.row["inspection"]
      /\ view.row["position"] = disk.row["position"]
  BY <1>1, Types DEF Isolated, Cells
<1>. QED BY <1>2, Types DEF Whole, LoadTeachingResult

\* Every variable has its type, and a call in progress has a connection.
THEOREM TypeCorrect == Spec => []TypeOK
<1>1. IInv => TypeOK
  BY DEF IInv
<1>. QED BY <1>1, Invariant, PTL

\* A save that has answered success is in the database file, through failures of
\* later calls, Shutdown and crashes, and a load finds it: every save commits
\* before it answers, the only exception being a parameter saved while another
\* call had left its transaction open.
THEOREM AnsweredStaysStored == Spec => []AnsweredIsDurable
<1>1. IInv => AnsweredIsDurable
  <2> SUFFICES ASSUME IInv
               PROVE  AnsweredIsDurable
    OBVIOUS
  <2>1. \A c \in Cells : acked[c] \in buffered \/ acked[c] <= disk.row[c]
    BY Types DEF Durable
  <2>2. ASSUME initialized, call = Idle,
               NEW load \in {LoadParam, LoadPickerCamDistance, LoadHandPitch,
                             LoadInspInitPos, LoadTeachingResult},
               NEW c \in DOMAIN load.row, acked[c] \notin {0} \cup buffered
        PROVE  load.status = "Success" /\ load.row[c] >= acked[c]
    <3>1. \E cells \in SUBSET Cells : load = Load(cells)
      BY <2>2, TeachingFound
      DEF LoadParam, LoadPickerCamDistance, LoadHandPitch, LoadInspInitPos, Cells
    <3>2. PICK cells \in SUBSET Cells : load = Load(cells)
      BY <3>1
    <3>3. c \in cells
      BY <3>2, <2>2 DEF Load
    <3>. QED BY <3>2, <3>3, <2>2, LoadsFind
  <2>. QED BY <2>1, <2>2 DEF AnsweredIsDurable
<1>. QED BY <1>1, Invariant, PTL

\* A save of a run, a result or a parameter that has answered a failure has left
\* nothing in the database file, and no COMMIT of a later call brings it there; nor
\* has a SaveImage that failed recorded a final path.  What SaveImage does leave,
\* the row with the temporary path, is outside this theorem.
THEOREM FailedResultsStayOut == Spec => []FailedResultsAbsent
<1>1. IInv => FailedResultsAbsent
  BY DEF IInv, NoFailedRow, Whole, FailedResultsAbsent
<1>. QED BY <1>1, Invariant, PTL

\* Nothing that takes two steps is half done in the database file, wherever a
\* failure or a crash falls: a teaching result, and an image with its file.
THEOREM NothingIsHalfDone == Spec => []NothingHalfDone
<1>1. IInv => NothingHalfDone
  <2> SUFFICES ASSUME IInv
               PROVE  NothingHalfDone
    OBVIOUS
  <2>1. call = Idle => "position" \in DOMAIN LoadTeachingResult.row
    BY TeachingFound DEF Load
  <2>. QED BY <2>1, Types DEF NothingHalfDone, Whole
<1>. QED BY <1>1, Invariant, PTL
=============================================================================
