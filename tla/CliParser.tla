----------------------------- MODULE CliParser -----------------------------
(***************************************************************************)
(* From a line of input to a command.  A line is a sequence of symbols: a  *)
(* separator, or a run of other characters that is never taken apart.  A   *)
(* token is a sequence of symbols without separators.                      *)
(***************************************************************************)
EXTENDS Naturals, Sequences, FiniteSetsExt

CONSTANTS
  Separators, \* the symbols that isspace accepts
  Upper       \* a function from symbols to what toupper makes of them

Space == " "
ASSUME SpaceAssumption == Space \in Separators

IsSpace(symbol) == symbol \in Separators
ToUpper(token) == [i \in DOMAIN token |-> Upper[token[i]]]

Solid(line) == {i \in DOMAIN line : ~IsSpace(line[i])}

Trim(line) ==
  IF Solid(line) = {} THEN <<>>
  ELSE SubSeq(line, Min(Solid(line)), Max(Solid(line)))

\* Mutant of SplitWhitespaceView: every separator ends a token.
SplitAtEachSeparator(line) ==
  LET tokensFrom[i \in 1..(Len(line) + 1)] ==
        LET ends == {j \in i..Len(line) : IsSpace(line[j])}
        IN  IF ends = {} THEN <<SubSeq(line, i, Len(line))>>
            ELSE <<SubSeq(line, i, Min(ends) - 1)>> \o tokensFrom[Min(ends) + 1]
  IN  tokensFrom[1]

\* Mutant of SplitWhitespaceView: other separators than the space are kept.
SplitAtSpaces(line) ==
  LET tokensFrom[i \in 1..(Len(line) + 1)] ==
        LET begins == {j \in i..Len(line) : line[j] # Space}
            ends == {j \in i..Len(line) : j > Min(begins) /\ line[j] = Space}
            end == Min(ends \cup {Len(line) + 1})
        IN  IF begins = {} THEN <<>>
            ELSE <<SubSeq(line, Min(begins), end - 1)>> \o tokensFrom[end]
  IN  tokensFrom[1]

\* One pass over the line: skip separators, take a token, go on behind it.
SplitWhitespaceView(line) ==
  LET tokensFrom[i \in 1..(Len(line) + 1)] ==
        LET begins == {j \in Solid(line) : j >= i}
            ends == {j \in i..Len(line) : j > Min(begins) /\ IsSpace(line[j])}
            end == Min(ends \cup {Len(line) + 1})
        IN  IF begins = {} THEN <<>>
            ELSE <<SubSeq(line, Min(begins), end - 1)>> \o tokensFrom[end]
  IN  tokensFrom[1]

\* The tokens from begin on, with single spaces between them.
JoinTokens(tokens, begin) ==
  LET upTo[i \in begin..Len(tokens)] ==
        IF i = begin THEN tokens[i] ELSE upTo[i - 1] \o <<Space>> \o tokens[i]
  IN  upTo[Len(tokens)]

\* The record of the command's type, key and value; an invalid one has a name of
\* the error message in place of both.
Command(type, key, value) == [type |-> type, key |-> key, value |-> value]
MakeInvalidCommand(message) ==
  [type |-> "kInvalid", error_message |-> message]
IsValid(command) == command.type # "kInvalid"

Usage(holds, command, message) ==
  IF holds THEN command ELSE MakeInvalidCommand(message)

\* Mutant of Parse: the value is the third token.
ParseOneToken(line) ==
  LET tokens == SplitWhitespaceView(Trim(line))
  IN  IF tokens # <<>> /\ ToUpper(tokens[1]) = <<"SET">> /\ Len(tokens) >= 3
      THEN Command("kSet", tokens[2], tokens[3])
      ELSE MakeInvalidCommand("unknownCommand")

\* From the verb to the command, for a line of one token at least.
ParseTokens(tokens) ==
  LET n == Len(tokens)
      verb == ToUpper(tokens[1])
      key == tokens[2]
  IN  CASE verb = <<"SET">> ->
             Usage(n >= 3, Command("kSet", key, JoinTokens(tokens, 3)), "usageSET")
        [] verb = <<"GET">> ->
             Usage(n = 2, Command("kGet", key, <<>>), "usageGET")
        [] verb \in {<<"DEL">>, <<"DELETE">>} ->
             Usage(n = 2, Command("kDel", key, <<>>), "usageDELETE")
        [] verb \in {<<"CLEAR_PERSISTENCE">>, <<"CLEAR-PERSISTENCE">>} ->
             Usage(n = 1, Command("kClearPersistence", <<>>, <<>>), "usageCLEAR")
        [] verb = <<"CLEAR">> ->
             Usage(n = 2 /\ ToUpper(key) = <<"PERSISTENCE">>,
                   Command("kClearPersistence", <<>>, <<>>), "usageCLEAR")
        [] verb = <<"HELP">> -> Command("kHelp", <<>>, <<>>)
        [] verb \in {<<"EXIT">>, <<"QUIT">>} -> Command("kExit", <<>>, <<>>)
        [] OTHER -> MakeInvalidCommand("unknownCommand")

Parse(line) ==
  IF Trim(line) = <<>> THEN MakeInvalidCommand("emptyCommand")
  ELSE ParseTokens(SplitWhitespaceView(Trim(line)))
=============================================================================
