----------------------------- MODULE CliServer -----------------------------
(***************************************************************************)
(* A session: CliServer reads lines, has them parsed and dispatches the    *)
(* commands to the store, which goes through the steps of KVStore.  The    *)
(* process may stop or die at any time and be started again.  What a       *)
(* client sees is output, a line of symbols as in CliParser.               *)
(***************************************************************************)
EXTENDS KVStore, CliParser

CONSTANT Lines \* the lines clients type

\* Every key and value that the lines name is a key and a value of the map.
ASSUME LinesAssumption ==
  \A line \in Lines :
    /\ Parse(line).type \in {"kSet", "kGet", "kDel"} => Parse(line).key \in Key
    /\ Parse(line).type = "kSet" => Parse(line).value \in Value

VARIABLES
  command, \* the command being executed, or the last one
  output,  \* its answer, <<>> before there is one
  erased,  \* Delete's result: the key was there
  explained \* history: per key, what a client has reason to expect

serverVars == <<command, output, erased, explained>>
sessionVars == <<vars, serverVars>>

Nil == <<"(nil)">>
Shown(value) == IF value = NoValue THEN Nil ELSE value

SessionInit ==
  /\ Init
  /\ command = MakeInvalidCommand("") /\ output = <<>> /\ erased = FALSE
  /\ explained = [k \in Key |-> {NoValue}]

\* Run reads and parses a line.  The parser's and the server's own answers come
\* at once, the store's when it has gone through its steps.
Reads(line, type) ==
  /\ pc = "idle"
  /\ command' = Parse(line) /\ command'.type = type
  /\ UNCHANGED erased

Now(text) == output' = text /\ UNCHANGED <<vars, explained>>

ExecuteInvalid(line) == Reads(line, "kInvalid") /\ Now(<<"ERR">>)
ExecuteHelp(line) == Reads(line, "kHelp") /\ Now(<<"Commands:">>)

\* Mutant of ExecuteGet: the key of the command before is looked up.
ExecuteGetStale(line) ==
  /\ Reads(line, "kGet")
  /\ Now(IF IsValid(command) /\ command.key \in Key
         THEN Shown(Get(command.key)) ELSE Nil)

ExecuteGet(line) == Reads(line, "kGet") /\ Now(Shown(Get(command'.key)))

ExecuteSet(line) ==
  /\ Reads(line, "kSet")
  /\ Set(command'.key, command'.value)
  /\ output' = <<>> /\ UNCHANGED explained

ExecuteDel(line) ==
  /\ Reads(line, "kDel")
  /\ Delete(command'.key)
  /\ output' = <<>> /\ UNCHANGED explained

\* From here on a restart may or may not find what was there.
ExecuteClearPersistence(line) ==
  /\ Reads(line, "kClearPersistence")
  /\ ClearPersistence
  /\ output' = <<>>
  /\ explained' = [k \in Key |-> explained[k] \cup {NoValue}]

\* A write that was not answered with success may have taken effect.
Uncertain ==
  IF op = None THEN explained
  ELSE [explained EXCEPT ![op.key] = @ \cup {op.value}]

ExecuteExit(line) ==
  /\ Reads(line, "kExit")
  /\ Exit
  /\ output' = <<"Bye">> /\ UNCHANGED explained

\* getline fails: the end of the input.
EndOfInput ==
  /\ Exit
  /\ output' = <<>> /\ UNCHANGED <<command, erased, explained>>

Execute(line) ==
  \/ ExecuteInvalid(line) \/ ExecuteHelp(line) \/ ExecuteGet(line)
  \/ ExecuteSet(line) \/ ExecuteDel(line) \/ ExecuteClearPersistence(line)
  \/ ExecuteExit(line)

Success ==
  CASE command.type = "kDel" -> IF erased' THEN <<"1">> ELSE <<"0">>
    [] command.type = "kSet" -> <<"OK">>
    [] OTHER -> <<"OK persistence cleared">>

\* Mutant of Answered: an exception is answered like the command's success.
AnsweredRegardless == Success

\* What Execute writes when the store returns, or throws.
Answered == IF reply' = "ERR" THEN <<"ERR">> ELSE Success

\* The store's steps.  Whether Delete finds its key is seen when it erases it.
Work ==
  /\ Proceed
  /\ erased' = IF pc = "applying" THEN Contains(op.key) ELSE erased
  /\ IF pc' = "idle" /\ reply' # "none"
     THEN /\ output' = Answered
          /\ explained' = IF reply' = "OK" /\ op # None
                          THEN [explained EXCEPT ![op.key] = {op.value}]
                          ELSE Uncertain
     ELSE UNCHANGED <<output, explained>>
  /\ UNCHANGED command

Die ==
  /\ Crash
  /\ output' = <<>> /\ explained' = Uncertain
  /\ UNCHANGED <<command, erased>>

Restart ==
  /\ Start
  /\ UNCHANGED serverVars

SessionNext ==
  \/ \E line \in Lines : Execute(line)
  \/ EndOfInput \/ Work \/ Die \/ Restart

SessionSpec == SessionInit /\ [][SessionNext]_sessionVars

----------------------------------------------------------------------------
\* GET answers what the client has reason to expect: the last write of that key
\* that was answered with success, a later one that was answered with ERR or
\* not at all, or nothing once persistence was cleared.  This holds across
\* failing appends and snapshots, exits, crashes and restarts
\* (CliServer::Execute over KVStore::Get).
GetIsExplained ==
  [][\A line \in Lines : ExecuteGet(line) =>
       output' \in {Shown(v) : v \in explained[command'.key]}]_sessionVars

\* DEL answers 1 only if the key may have been there and 0 only if it may not
\* (KVStore::Delete's result, read before an automatic snapshot that may fail).
DeleteIsExplained ==
  [][command'.type = "kDel" /\ output' # output =>
       /\ output' = <<"1">> => explained[op.key] # {NoValue}
       /\ output' = <<"0">> => NoValue \in explained[op.key]]_sessionVars

----------------------------------------------------------------------------
\* What makes them so: whatever memory holds, a recovery would find or the
\* stream's buffer may still write is explained, but for the write in progress,
\* whose record is in the log before it is in memory and in memory before it is
\* answered (KVStore::Set and Delete, MaybeSnapshot).
InLog(k) == pc \in {"applying", "saving", "renaming"} /\ k = op.key
InMemory(k) == pc \in {"saving", "renaming"} /\ k = op.key
Clearing == pc \in {"clearingWal", "clearingSnapshot", "clearingTemp"}

EverythingIsExplained ==
  /\ pc \notin {"down", "loading", "replaying", "unread"} =>
       \A k \in Key : InMemory(k) \/ data[k] \in explained[k]
  /\ pc # "clearingSnapshot" =>
       \A k \in Key : InLog(k) \/ durable[k] \in explained[k]
  /\ buffered # None => buffered.value \in explained[buffered.key]
  /\ Clearing => \A k \in Key : NoValue \in explained[k]

\* The command that the server executes is the one that the store works on.
CommandInProgress ==
  /\ pc \in {"appending", "applying", "saving", "renaming"} => op # None
  /\ pc \in {"applying", "renaming"} => stream = "good"
  /\ Clearing => command.type = "kClearPersistence"

\* What Delete has found is what the client could expect.
FoundIsExplained ==
  pc \in {"saving", "renaming"} /\ command.type = "kDel" =>
    IF erased THEN explained[op.key] # {NoValue} ELSE NoValue \in explained[op.key]

SessionInv ==
  /\ explained \in [Key -> SUBSET (Value \cup {NoValue})] /\ erased \in BOOLEAN
  /\ EverythingIsExplained /\ CommandInProgress /\ FoundIsExplained
=============================================================================
