--------------------------- MODULE CliServerProofs ---------------------------
(***************************************************************************)
(* A session for every vocabulary and every set of lines: it is a          *)
(* behaviour of the store, and GET and DEL answer what a client has reason *)
(* to expect.                                                              *)
(***************************************************************************)
EXTENDS CliServer, KVStoreProofs

USE DEF files, process

\* What the steps of a session are to the store, with KVStore::Clear, which no
\* line of a session reaches.
SessionStep == [Next]_vars /\ (Clear => UNCHANGED data)

LEMMA StoreSteps ==
  ASSUME [SessionNext]_sessionVars
  PROVE  SessionStep
<1> USE DEF SessionStep
<1>1. CASE UNCHANGED vars
  BY <1>1 DEF vars
<1>2. ASSUME NEW line \in Lines, ExecuteSet(line)
      PROVE  SessionStep
  <2>1. command'.key \in Key /\ command'.value \in Value
    BY <1>2, LinesAssumption DEF ExecuteSet, Reads
  <2>2. Set(command'.key, command'.value) /\ UNCHANGED data
    BY <1>2 DEF ExecuteSet, Set, Request
  <2> QED
    BY <2>1, <2>2 DEF Next, Serve
<1>3. ASSUME NEW line \in Lines, ExecuteDel(line)
      PROVE  SessionStep
  <2>1. command'.key \in Key
    BY <1>3, LinesAssumption DEF ExecuteDel, Reads
  <2>2. Delete(command'.key) /\ UNCHANGED data
    BY <1>3 DEF ExecuteDel, Delete, Request
  <2> QED
    BY <2>1, <2>2 DEF Next, Serve
<1>4. ASSUME NEW line \in Lines, ExecuteClearPersistence(line)
      PROVE  SessionStep
  BY <1>4 DEF ExecuteClearPersistence, ClearPersistence, Request, Next, Serve
<1>5. CASE Exit
  BY <1>5 DEF Exit, Stopped, Clear, Answer, Next
<1>6. CASE Crash
  BY <1>6 DEF Crash, Stopped, Clear, Answer, Next
<1>7. CASE Start
  BY <1>7 DEF Start, Next
<1>8. CASE Proceed
  <2>1. pc # "idle"
    BY <1>8 DEF Proceed, Recovery, LoadSnapshot, ReplayRecord, ReplayStops,
                ReplayOffFrame, LoadUnread, ReplayUnread, Replaying,
                AppendRecord, AppendFails, AppendRefused, ApplyWrite,
                CurrentOffsetFails, SaveTemp, SaveFails,
                CommitSnapshot, ClearWal, ClearWalFails, ClearSnapshot,
                ClearTemp, ClearSnapshotFails
  <2> QED
    BY <1>8, <2>1 DEF Clear, Next
<1>9. CASE UNCHANGED sessionVars
  BY <1>1, <1>9 DEF sessionVars
<1>10. ASSUME NEW line \in Lines, Execute(line)
       PROVE  SessionStep
  BY <1>1, <1>2, <1>3, <1>4, <1>5, <1>10
     DEF Execute, ExecuteInvalid, ExecuteHelp, ExecuteGet, Now, ExecuteExit
<1> QED
  BY <1>5, <1>6, <1>7, <1>8, <1>9, <1>10
     DEF SessionNext, EndOfInput, Work, Die, Restart

\* Whatever clients type, a session is a behaviour of the store: all that is
\* proved of the store holds of its sessions.
THEOREM SessionTheorem == SessionSpec => Spec
<1>1. SessionInit => Init
  BY DEF SessionInit
<1>2. [SessionNext]_sessionVars => [Next]_vars
  BY StoreSteps DEF SessionStep
<1> QED
  BY <1>1, <1>2, PTL DEF SessionSpec, Spec

\* No line empties memory alone, so what a recovery would find is what clients
\* read, or nothing, whatever commands the store has besides.
THEOREM SessionMemoryTheorem ==
  ASSUME {"clearError", "readError"} \cap Faults = {}
  PROVE  SessionSpec => []MemoryCoversDurable
<1>1. SessionInit => Covering
  BY DEF SessionInit, Init, Covering, Serving
<1>2. WellFormed /\ RecoveryInv /\ WriteInv /\ Covering
        /\ [SessionNext]_sessionVars => Covering'
  BY StoreSteps, NextCovering DEF SessionStep
<1>3. Covering => MemoryCoversDurable
  BY DEF Covering, Serving, CoveredBy, MemoryCoversDurable, Get
<1> QED
  BY <1>1, <1>2, <1>3, SessionTheorem, AlwaysRecoverable, AlwaysWriteInv, PTL
     DEF SessionSpec

\* A session implements the two maps of DurableMap.
THEOREM SessionRefinementTheorem ==
  ASSUME CleanFaults
  PROVE  SessionSpec => ImplementsDurableMap
  BY SessionTheorem, RefinementTheorem, PTL

----------------------------------------------------------------------------
\* An answer that leaves it open whether the write happened adds it to what
\* explains an answer, and takes nothing away.
LEMMA UncertainGrows ==
  ASSUME explained \in [Key -> SUBSET (Value \cup {NoValue})],
         op \in Record \cup {None}
  PROVE  /\ Uncertain \in [Key -> SUBSET (Value \cup {NoValue})]
         /\ \A k \in Key : explained[k] \subseteq Uncertain[k]
         /\ op # None => op.value \in Uncertain[op.key]
  BY DEF Uncertain, Record

\* The store's invariants, without the faults that may lose the log's frames.
StoreInv == Inv /\ WriteInv

\* The ways in which the store's step leaves the session.
NotAnswered == UNCHANGED <<output, explained, command>>
AnsweredError == explained' = Uncertain /\ UNCHANGED command
AnsweredOk ==
  /\ explained' = IF op # None THEN [explained EXCEPT ![op.key] = {op.value}]
                  ELSE Uncertain
  /\ UNCHANGED command

LEMMA WorkAnswers ==
  ASSUME Work
  PROVE  /\ pc' # "idle" \/ reply' = "none" => NotAnswered
         /\ pc' = "idle" /\ reply' = "ERR" => AnsweredError
         /\ pc' = "idle" /\ reply' = "OK" => AnsweredOk
         /\ erased' = IF pc = "applying" THEN Contains(op.key) ELSE erased
  BY DEF Work, NotAnswered, AnsweredError, AnsweredOk

\* Whether Delete found its key is known when it erases it, and stays known.
LEMMA FoundAsExpected ==
  ASSUME StoreInv, SessionInv, Work,
         pc = "applying" \/ (pc = "renaming" /\ command.type = "kDel")
  PROVE  /\ erased' \in BOOLEAN
         /\ erased' => explained[op.key] # {NoValue}
         /\ ~erased' => NoValue \in explained[op.key]
<1>1. CASE pc = "applying"
  <2>1. op \in Record
    BY <1>1 DEF StoreInv, Inv, WellFormed, TypeOK
  <2>2. erased' = (data[op.key] # NoValue)
    BY <1>1, WorkAnswers, Zenon DEF Contains
  <2>3. data[op.key] \in explained[op.key]
    BY <1>1, <2>1 DEF Record, SessionInv, EverythingIsExplained, InMemory
  <2>4. /\ data[op.key] # NoValue => explained[op.key] # {NoValue}
        /\ data[op.key] = NoValue => NoValue \in explained[op.key]
    BY <2>3
  <2> QED
    BY <2>2, <2>4, Zenon
<1>2. CASE pc = "renaming" /\ command.type = "kDel"
  <2>1. erased' = erased
    BY <1>2, WorkAnswers
  <2> QED
    BY <1>2, <2>1 DEF SessionInv, FoundIsExplained
<1> QED
  BY <1>1, <1>2

LEMMA WorkKeepsSessionInv ==
  ASSUME StoreInv, SessionInv, Work, CleanFaults
  PROVE  SessionInv'
<1> USE DEF SessionInv, EverythingIsExplained, CommandInProgress,
            FoundIsExplained, InLog, InMemory, Clearing
<1>0. /\ op \in Record \cup {None} /\ buffered \in Record \cup {None}
      /\ data \in Map /\ durable \in Map
      /\ stream = "good" => buffered = None
      /\ Torn # None /\ None \notin Record
      /\ Replaying => pc = "replaying"
  BY MarkersAssumption
     DEF StoreInv, Inv, WellFormed, TypeOK, CleanFaults, Replaying
<1> DEFINE Explanations == [Key -> SUBSET (Value \cup {NoValue})]
<1>1. /\ Uncertain \in Explanations
      /\ \A k \in Key : explained[k] \subseteq Uncertain[k]
      /\ op # None => op.value \in Uncertain[op.key]
  BY <1>0, UncertainGrows
<1>2. CASE LoadSnapshot \/ ReplayRecord
  <2>1. /\ pc' = "replaying" /\ pc \in {"loading", "replaying"}
        /\ UNCHANGED <<durable, buffered, stream, op>>
    BY <1>0, <1>2 DEF LoadSnapshot, ReplayRecord
  <2>2. NotAnswered /\ UNCHANGED erased
    BY <2>1, WorkAnswers
  <2> QED
    BY <2>1, <2>2 DEF NotAnswered
<1>3. CASE ReplayStops \/ ReplayOffFrame
  <2>1. /\ pc = "replaying" /\ pc' = "idle"
        /\ UNCHANGED <<durable, buffered, stream, op, reply>>
    BY <1>0, <1>3 DEF ReplayStops, ReplayOffFrame
  <2>2. reply' = "none"
    BY <2>1 DEF StoreInv, WriteInv, Fresh
  <2>3. NotAnswered /\ UNCHANGED erased
    BY <2>1, <2>2, WorkAnswers
  <2>4. Next
    BY <1>3 DEF Next, Proceed, Recovery
  <2>5. data' = durable
    BY <2>1, <2>4, ServingStarts, CleanIsWhole DEF StoreInv, Inv
  <2> QED
    BY <2>1, <2>3, <2>5 DEF NotAnswered
<1>4. CASE AppendRecord
  <2>1. /\ pc = "appending" /\ pc' = "applying" /\ stream = "good"
        /\ op \in Record /\ durable' = apply_record(durable, op)
        /\ UNCHANGED <<data, buffered, stream, op>>
    BY <1>0, <1>4 DEF AppendRecord
  <2>2. NotAnswered /\ UNCHANGED erased
    BY <2>1, WorkAnswers
  <2>3. \A k \in Key : k # op.key => durable'[k] = durable[k]
    BY <1>0, <2>1 DEF apply_record, Record, Map
  <2> QED
    BY <2>1, <2>2, <2>3 DEF NotAnswered
<1>5. CASE AppendFails \/ AppendRefused
  <2>1. /\ pc = "appending" /\ pc' = "idle" /\ reply' = "ERR"
        /\ buffered' \in {buffered, op}
        /\ op # None
        /\ UNCHANGED <<data, durable, op>>
    BY <1>5 DEF AppendFails, AppendRefused, Answer
  <2>2. AnsweredError /\ UNCHANGED erased
    BY <2>1, WorkAnswers
  <2>3. buffered' # None => buffered'.value \in explained'[buffered'.key]
    BY <1>0, <1>1, <2>1, <2>2 DEF AnsweredError, Record
  <2> QED
    BY <1>1, <2>1, <2>2, <2>3 DEF AnsweredError
<1>6. CASE ApplyWrite
  <2>1. /\ pc = "applying" /\ data' = apply_record(data, op)
        /\ pc' = "saving" \/ (pc' = "idle" /\ reply' = "OK")
        /\ op \in Record /\ stream = "good" /\ buffered = None
        /\ UNCHANGED <<durable, buffered, stream, op>>
    BY <1>0, <1>6 DEF ApplyWrite, Answer
  <2>2. op.key \in Key /\ op.value \in Value \cup {NoValue}
    BY <2>1 DEF Record
  <2>3. \A k \in Key : data'[k] = IF k = op.key THEN op.value ELSE data[k]
    BY <1>0, <2>1, <2>2 DEF apply_record, Map
  <2>4. durable[op.key] = op.value
    BY <1>0, <2>1 DEF StoreInv, WriteInv, WriteInEffect
  <2>5. /\ erased' \in BOOLEAN
        /\ erased' => explained[op.key] # {NoValue}
        /\ ~erased' => NoValue \in explained[op.key]
    BY <2>1, FoundAsExpected
  <2>6. CASE pc' = "saving"
    <3>1. NotAnswered
      BY <2>6, WorkAnswers
    <3> QED
      BY <1>0, <2>1, <2>2, <2>3, <2>5, <2>6, <3>1 DEF NotAnswered
  <2>7. CASE pc' = "idle" /\ reply' = "OK"
    <3>1. /\ explained' = [explained EXCEPT ![op.key] = {op.value}]
          /\ UNCHANGED command
      BY <1>0, <2>1, <2>7, WorkAnswers DEF AnsweredOk
    <3> QED
      BY <2>1, <2>2, <2>3, <2>4, <2>5, <2>7, <3>1
  <2> QED
    BY <2>1, <2>6, <2>7
<1>7. CASE CurrentOffsetFails \/ SaveFails
  <2>1. /\ pc \in {"saving", "renaming"} /\ pc' = "idle" /\ reply' = "ERR"
        /\ op # None /\ UNCHANGED <<data, durable, buffered, stream, op>>
    BY <1>7 DEF CurrentOffsetFails, SaveFails, Answer
  <2>2. AnsweredError /\ UNCHANGED erased
    BY <2>1, WorkAnswers
  <2>3. op \in Record /\ durable[op.key] = op.value /\ data[op.key] = op.value
    BY <1>0, <2>1 DEF StoreInv, WriteInv, WriteInEffect
  <2>4. buffered # None => buffered.value \in Uncertain[buffered.key]
    BY <1>0, <1>1 DEF Record
  <2> QED
    BY <1>1, <2>1, <2>2, <2>3, <2>4 DEF AnsweredError
<1>8. CASE SaveTemp
  <2>1. /\ pc = "saving" /\ pc' = "renaming" /\ stream = "good"
        /\ UNCHANGED <<data, durable, buffered, stream, op>>
    BY <1>8 DEF SaveTemp
  <2>2. NotAnswered /\ UNCHANGED erased
    BY <2>1, WorkAnswers
  <2> QED
    BY <2>1, <2>2 DEF NotAnswered
<1>9. CASE CommitSnapshot
  <2>1. /\ pc = "renaming" /\ pc' = "idle" /\ reply' = "OK"
        /\ op \in Record /\ stream = "good" /\ buffered = None
        /\ durable' = data /\ UNCHANGED <<data, buffered, stream, op>>
    BY <1>0, <1>9 DEF CommitSnapshot, Answer
  <2>2. /\ explained' = [explained EXCEPT ![op.key] = {op.value}]
        /\ UNCHANGED <<command, erased>>
    BY <1>0, <2>1, WorkAnswers DEF AnsweredOk
  <2>3. data[op.key] = op.value
    BY <1>0, <2>1 DEF StoreInv, WriteInv, WriteInEffect
  <2>4. op.key \in Key /\ op.value \in Value \cup {NoValue}
    BY <2>1 DEF Record
  <2> QED
    BY <2>1, <2>2, <2>3, <2>4
<1>10. CASE ClearWal
  <2>1. /\ pc = "clearingWal" /\ pc' = "clearingSnapshot" /\ buffered' = None
        /\ UNCHANGED <<data, op>>
    BY <1>10 DEF ClearWal
  <2>2. NotAnswered /\ UNCHANGED erased
    BY <2>1, WorkAnswers
  <2> QED
    BY <2>1, <2>2 DEF NotAnswered
<1>11. CASE ClearSnapshot
  <2>1. /\ pc = "clearingSnapshot" /\ pc' = "clearingTemp"
        /\ durable' = EmptyMap /\ UNCHANGED <<data, buffered, stream, op>>
    BY <1>11 DEF ClearSnapshot
  <2>2. NotAnswered /\ UNCHANGED erased
    BY <2>1, WorkAnswers
  <2> QED
    BY <2>1, <2>2 DEF NotAnswered, EmptyMap
<1>12. CASE ClearTemp
  <2>1. /\ pc = "clearingTemp" /\ pc' = "idle" /\ reply' = "OK" /\ op = None
        /\ UNCHANGED <<data, durable, buffered, stream, op>>
    BY <1>12 DEF ClearTemp, Answer, StoreInv, WriteInv, NoWriteWhileClearing
  <2>2. explained' = explained /\ UNCHANGED <<command, erased>>
    BY <2>1, WorkAnswers DEF AnsweredOk, Uncertain
  <2> QED
    BY <2>1, <2>2
<1>13. CASE ClearWalFails \/ ClearSnapshotFails \/ LoadUnread \/ ReplayUnread
  BY <1>13 DEF ClearWalFails, ClearSnapshotFails, LoadUnread, ReplayUnread,
               CleanFaults
<1> QED
  BY <1>2, <1>3, <1>4, <1>5, <1>6, <1>7, <1>8, <1>9, <1>10, <1>11, <1>12, <1>13
     DEF Work, Proceed, Recovery

\* What closing the stream may still write is explained.
LEMMA FlushKeepsExplained ==
  ASSUME StoreInv, SessionInv, pc \in {"idle", "clearingWal"}, FlushBuffered
  PROVE  \A k \in Key : durable'[k] \in explained[k]
<1>2. \A k \in Key : durable[k] \in explained[k]
  BY DEF SessionInv, EverythingIsExplained, InLog
<1>3. durable \in Map /\ buffered \in Record \cup {None}
  BY DEF StoreInv, Inv, WellFormed, TypeOK
<1>4. CASE buffered # None /\ durable' = apply_record(durable, buffered)
  BY <1>2, <1>3, <1>4
     DEF apply_record, Record, Map, SessionInv, EverythingIsExplained
<1> QED
  BY <1>2, <1>4 DEF FlushBuffered

LEMMA ExecuteKeepsSessionInv ==
  ASSUME StoreInv, SessionInv, NEW line \in Lines, Execute(line), CleanFaults
  PROVE  SessionInv'
<1> USE DEF SessionInv, EverythingIsExplained, CommandInProgress,
            FoundIsExplained, InLog, InMemory, Clearing
<1>0. /\ pc = "idle" /\ UNCHANGED erased
      /\ command'.type \in {"kSet", "kGet", "kDel"} => command'.key \in Key
      /\ command'.type = "kSet" => command'.value \in Value
  BY LinesAssumption
     DEF Execute, Reads, ExecuteInvalid, ExecuteHelp, ExecuteGet, ExecuteSet,
         ExecuteDel, ExecuteClearPersistence, ExecuteExit
<1>1. CASE ExecuteInvalid(line) \/ ExecuteHelp(line) \/ ExecuteGet(line)
  BY <1>0, <1>1 DEF ExecuteInvalid, ExecuteHelp, ExecuteGet, Now, vars
<1>2. CASE ExecuteSet(line) \/ ExecuteDel(line)
  <2>1. /\ pc' = "appending" /\ op' \in Record
        /\ UNCHANGED <<data, durable, buffered, stream, explained>>
    BY <1>0, <1>2 DEF ExecuteSet, ExecuteDel, Reads, Set, Delete, Request,
                      SetRecord, DeleteRecord, Record
  <2>2. op' # None
    BY <2>1, MarkersAssumption
  <2> QED
    BY <1>0, <2>1, <2>2
<1>3. CASE ExecuteClearPersistence(line)
  <2>1. /\ pc' = "clearingWal" /\ command'.type = "kClearPersistence"
        /\ explained' = [k \in Key |-> explained[k] \cup {NoValue}]
        /\ UNCHANGED <<data, durable, buffered, stream>>
    BY <1>3 DEF ExecuteClearPersistence, Reads, ClearPersistence, Request
  <2>2. buffered # None => buffered.key \in Key
    BY DEF StoreInv, Inv, WellFormed, TypeOK, Record
  <2> QED
    BY <1>0, <2>1, <2>2
<1>4. CASE ExecuteExit(line)
  <2>1. Exit /\ UNCHANGED explained
    BY <1>4 DEF ExecuteExit
  <2> QED
    BY <1>0, <2>1, FlushKeepsExplained DEF Exit, Stopped
<1> QED
  BY <1>1, <1>2, <1>3, <1>4 DEF Execute

LEMMA NextSessionInv ==
  ASSUME StoreInv, SessionInv, [SessionNext]_sessionVars, CleanFaults
  PROVE  SessionInv'
<1> USE DEF SessionInv, EverythingIsExplained, CommandInProgress,
            FoundIsExplained, InLog, InMemory, Clearing
<1>1. CASE EndOfInput
  <2>1. Exit /\ UNCHANGED <<explained, erased>>
    BY <1>1 DEF EndOfInput
  <2> QED
    BY <2>1, FlushKeepsExplained DEF Exit, Stopped
<1>2. CASE Die
  <2>1. /\ pc' = "down" /\ pc # "clearingSnapshot" /\ explained' = Uncertain
        /\ buffered' = None /\ UNCHANGED erased
        /\ UNCHANGED durable \/ (pc = "clearingWal" /\ FlushBuffered)
    BY <1>2 DEF Die, Crash, Stopped, CleanFaults
  <2>2. op \in Record \cup {None}
    BY DEF StoreInv, Inv, WellFormed, TypeOK
  <2>3. /\ Uncertain \in [Key -> SUBSET (Value \cup {NoValue})]
        /\ \A k \in Key : explained[k] \subseteq Uncertain[k]
        /\ op # None => op.value \in Uncertain[op.key]
    BY <2>2, UncertainGrows
  <2>4. pc \in {"applying", "saving", "renaming"} => durable[op.key] = op.value
    BY DEF StoreInv, WriteInv, WriteInEffect
  <2>5. pc = "clearingWal" /\ FlushBuffered
          => \A k \in Key : durable'[k] \in explained[k]
    BY FlushKeepsExplained
  <2> QED
    BY <2>1, <2>3, <2>4, <2>5
<1>3. CASE Restart
  BY <1>3 DEF Restart, Start, serverVars
<1>4. CASE UNCHANGED sessionVars
  BY <1>4 DEF sessionVars, vars, serverVars
<1> QED
  BY <1>1, <1>2, <1>3, <1>4, WorkKeepsSessionInv, ExecuteKeepsSessionInv
     DEF SessionNext

----------------------------------------------------------------------------
LEMMA AlwaysExplained ==
  ASSUME CleanFaults
  PROVE  SessionSpec => [](StoreInv /\ SessionInv)
<1>1. SessionInit => StoreInv /\ SessionInv
  <2> SUFFICES ASSUME SessionInit
               PROVE  StoreInv /\ SessionInv
    OBVIOUS
  <2>1. Init
    BY DEF SessionInit
  <2>2. Inv
    BY <2>1, InitWellFormed, InitRecovery DEF Inv, Clean, Init
  <2>3. WriteInv
    BY <2>1 DEF Init, WriteInv, WriteInEffect, NoWriteWhileClearing, Fresh
  <2>4. explained = [k \in Key |-> {NoValue}] /\ durable = EmptyMap
        /\ pc = "down" /\ buffered = None /\ erased = FALSE
    BY DEF SessionInit, Init
  <2>5. SessionInv
    BY <2>4 DEF SessionInv, EverythingIsExplained, CommandInProgress,
                FoundIsExplained, InLog, Clearing, EmptyMap
  <2> QED
    BY <2>2, <2>3, <2>5 DEF StoreInv
<1>2. StoreInv /\ SessionInv /\ [SessionNext]_sessionVars
        => (StoreInv /\ SessionInv)'
  BY StoreSteps, NextInv, NextWriteInEffect, NextSessionInv
     DEF SessionStep, StoreInv, Inv
<1> QED
  BY <1>1, <1>2, PTL DEF SessionSpec

\* All that memory holds, a recovery would find or a buffer may still write is
\* explained, in every session.
THEOREM SessionInvTheorem ==
  ASSUME CleanFaults
  PROVE  SessionSpec => []SessionInv
  BY AlwaysExplained, PTL

\* GET answers what the client has reason to expect.
THEOREM GetTheorem ==
  ASSUME CleanFaults
  PROVE  SessionSpec => GetIsExplained
<1> DEFINE Answers ==
      \A line \in Lines : ExecuteGet(line) =>
        output' \in {Shown(v) : v \in explained[command'.key]}
<1>1. SessionInv => Answers
  <2> SUFFICES ASSUME SessionInv, NEW line \in Lines, ExecuteGet(line)
               PROVE  output' \in {Shown(v) : v \in explained[command'.key]}
    OBVIOUS
  <2>1. pc = "idle" /\ command'.key \in Key
        /\ output' = Shown(data[command'.key])
    BY LinesAssumption DEF ExecuteGet, Reads, Now, Get
  <2>2. data[command'.key] \in explained[command'.key]
    BY <2>1 DEF SessionInv, EverythingIsExplained, InMemory
  <2> QED
    BY <2>1, <2>2
<1> QED
  BY <1>1, AlwaysExplained, PTL DEF SessionSpec, GetIsExplained

\* DEL answers 1 only if the key may have been there, 0 only if it may not.
THEOREM DeleteTheorem ==
  ASSUME CleanFaults
  PROVE  SessionSpec => DeleteIsExplained
<1> DEFINE Answers ==
      command'.type = "kDel" /\ output' # output =>
        /\ output' = <<"1">> => explained[op.key] # {NoValue}
        /\ output' = <<"0">> => NoValue \in explained[op.key]
<1>1. StoreInv /\ SessionInv /\ [SessionNext]_sessionVars => Answers
  <2> SUFFICES ASSUME StoreInv, SessionInv, [SessionNext]_sessionVars,
                      command'.type = "kDel", output' # output
               PROVE  /\ output' = <<"1">> => explained[op.key] # {NoValue}
                      /\ output' = <<"0">> => NoValue \in explained[op.key]
    OBVIOUS
  <2>1. CASE EndOfInput \/ Die
    BY <2>1 DEF EndOfInput, Die
  <2>2. ASSUME NEW line \in Lines, Execute(line)
        PROVE  output' = <<>>
    BY <2>2 DEF Execute, Reads, ExecuteInvalid, ExecuteHelp, ExecuteGet,
                ExecuteSet, ExecuteDel, ExecuteClearPersistence, ExecuteExit
  <2>3. CASE Work
    <3>1. pc' = "idle" /\ reply' # "none" /\ output' = Answered
          /\ command.type = "kDel"
      BY <2>3 DEF Work
    <3>2. CASE reply' = "ERR"
      BY <3>1, <3>2 DEF Answered
    <3>3. CASE reply' # "ERR"
      <4>1. output' = IF erased' THEN <<"1">> ELSE <<"0">>
        BY <3>1, <3>3, Zenon DEF Answered, Success
      <4>2. pc \in {"applying", "renaming"}
        <5>1. pc \in {"loading", "replaying", "unread"} => reply = "none"
          BY DEF StoreInv, WriteInv, Fresh
        <5>2. ~Clearing
          BY <3>1 DEF SessionInv, CommandInProgress
        <5>3. ~Recovery
          BY <3>1, <5>1 DEF Recovery, LoadSnapshot, ReplayRecord, ReplayStops,
                            ReplayOffFrame, LoadUnread, ReplayUnread, Replaying
        <5> QED
          BY <2>3, <3>1, <3>3, <5>2, <5>3
             DEF Work, Proceed, AppendRecord, AppendFails, AppendRefused,
                 ApplyWrite, CurrentOffsetFails, SaveTemp, SaveFails,
                 CommitSnapshot, ClearWal, ClearWalFails, ClearSnapshot,
                 ClearTemp, ClearSnapshotFails, Answer, Clearing
      <4>3. /\ erased' => explained[op.key] # {NoValue}
            /\ ~erased' => NoValue \in explained[op.key]
        BY <2>3, <3>1, <4>2, FoundAsExpected
      <4> QED
        BY <4>1, <4>3
    <3> QED
      BY <3>2, <3>3
  <2>4. CASE Restart \/ UNCHANGED sessionVars
    BY <2>4 DEF Restart, sessionVars, serverVars
  <2> QED
    BY <2>1, <2>2, <2>3, <2>4 DEF SessionNext
<1> QED
  BY <1>1, AlwaysExplained, PTL DEF SessionSpec, DeleteIsExplained
=============================================================================
